-------------------------------- MODULE Htif --------------------------------
(***************************************************************************)
(* The host side of the tohost / fromhost mailboxes: htif_t::run           *)
(* (fesvr/htif.cc) and the devices behind it (fesvr/device.cc,             *)
(* fesvr/syscall.cc).                                                      *)
(*                                                                         *)
(* A command is the record [dev, cmd, id]: dev and cmd are the fields of   *)
(* tohost the code looks at, id stands for the payload and tells commands  *)
(* apart; a reply carries the same three (command_t::respond keeps dev and *)
(* cmd).  One thread runs host and target: the target moves only inside    *)
(* idle(), between host_idle and host_idle_return.                         *)
(***************************************************************************)
EXTENDS Integers, Sequences

VARIABLES
    tohost, fromhost,   \* the two words of target memory, Empty if 0
    fromhost_queue,     \* replies that wait for fromhost to be cleared
    pending_reads,      \* bcd_t::pending_reads
    exitcode,           \* whether htif_t::exitcode has a value, or a signal came
    keys,               \* characters on the terminal, not yet read
    magicmem,           \* the system call whose result is in the argument block
    host,               \* where htif_t::run is: "top", "idle" or "stopped"
    handled,            \* history: ids of the commands handled, in order
    answered            \* history: ids of the replies given, in order

htifVars == <<tohost, fromhost, fromhost_queue, pending_reads, exitcode, keys,
              magicmem, host, handled, answered>>

Empty == [dev |-> "none", cmd |-> "none", id |-> 0]

\* cmd is "call" or "exit" (system calls), "test" (payload bit 0: the result of
\* a test) of the syscall device, "read" or "write" of the console, "identify"
\* of any device, or one that only handle_null_command takes.
\* The commands answered by their handler; a console read is answered later.
RepliesAtOnce(c) == c.cmd \in {"call", "exit", "identify"}
Replies(c)       == RepliesAtOnce(c) \/ c.cmd = "read"

HtifInit ==
    /\ tohost = Empty /\ fromhost = Empty /\ fromhost_queue = <<>>
    /\ pending_reads = <<>> /\ exitcode = FALSE /\ keys = 0
    /\ magicmem = 0 /\ host = "top" /\ handled = <<>> /\ answered = <<>>

-----------------------------------------------------------------------------

\* Mutant: the reply replaces what the target has not taken yet.
finish_round_mut(queue, reads, out) ==
    LET key == reads # <<>> /\ keys > 0
        q   == IF key THEN Append(queue, Head(reads)) ELSE queue
    IN  /\ pending_reads' = IF key THEN Tail(reads) ELSE reads
        /\ keys' = IF key THEN keys - 1 ELSE keys
        /\ answered' = out \o IF key THEN <<Head(reads).id>> ELSE <<>>
        /\ fromhost' = IF q # <<>> THEN Head(q) ELSE fromhost
        /\ fromhost_queue' = IF q # <<>> THEN Tail(q) ELSE q

\* Mutant: the reply to a console read has lost its device and command (bits
\* that are then 0, the syscall device's).
finish_round_mut2(queue, reads, out) ==
    LET key     == reads # <<>> /\ keys > 0
        q       == IF key THEN Append(queue, [Head(reads) EXCEPT !.dev = "sys", !.cmd = "call"])
                          ELSE queue
        deliver == q # <<>> /\ fromhost = Empty
    IN  /\ pending_reads' = IF key THEN Tail(reads) ELSE reads
        /\ keys' = IF key THEN keys - 1 ELSE keys
        /\ answered' = out \o IF key THEN <<Head(reads).id>> ELSE <<>>
        /\ fromhost' = IF deliver THEN Head(q) ELSE fromhost
        /\ fromhost_queue' = IF deliver THEN Tail(q) ELSE q

\* The rest of an iteration of the loop once the command is handled or the
\* target has run: device_list.tick() answers the oldest console read if
\* there is a character, then one reply is delivered if fromhost is clear.
finish_round(queue, reads, out) ==
    LET key     == reads # <<>> /\ keys > 0
        q       == IF key THEN Append(queue, Head(reads)) ELSE queue
        deliver == q # <<>> /\ fromhost = Empty
    IN  /\ pending_reads' = IF key THEN Tail(reads) ELSE reads
        /\ keys' = IF key THEN keys - 1 ELSE keys
        /\ answered' = out \o IF key THEN <<Head(reads).id>> ELSE <<>>
        /\ fromhost' = IF deliver THEN Head(q) ELSE fromhost
        /\ fromhost_queue' = IF deliver THEN Tail(q) ELSE q

\* A command was posted: tohost is cleared, then the device handles it.  A
\* "test" command ends the run and is not answered, the exit call is both.
host_command ==
    /\ host = "top" /\ ~exitcode /\ tohost # Empty
    /\ tohost' = Empty
    /\ LET c == tohost
       IN  /\ handled' = Append(handled, c.id)
           /\ exitcode' = (c.cmd \in {"test", "exit"})
           /\ magicmem' = IF c.cmd \in {"call", "exit"} THEN c.id ELSE magicmem
           /\ finish_round(IF RepliesAtOnce(c) THEN Append(fromhost_queue, c)
                                               ELSE fromhost_queue,
                           IF c.cmd = "read" THEN Append(pending_reads, c)
                                             ELSE pending_reads,
                           IF RepliesAtOnce(c) THEN Append(answered, c.id) ELSE answered)
    /\ UNCHANGED host

\* No command: idle() runs the target ...
host_idle ==
    /\ host = "top" /\ ~exitcode /\ tohost = Empty
    /\ host' = "idle"
    /\ UNCHANGED <<tohost, fromhost, fromhost_queue, pending_reads, exitcode, keys,
                   magicmem, handled, answered>>

\* ... and returns.
host_idle_return ==
    /\ host = "idle"
    /\ host' = "top"
    /\ finish_round(fromhost_queue, pending_reads, answered)
    /\ UNCHANGED <<tohost, exitcode, magicmem, handled>>

\* should_exit() is looked at once per iteration; replies not delivered by
\* then are dropped.
host_stop ==
    /\ host = "top" /\ exitcode
    /\ host' = "stopped"
    /\ UNCHANGED <<tohost, fromhost, fromhost_queue, pending_reads, exitcode, keys,
                   magicmem, handled, answered>>

\* handle_signal: a first signal asks the loop to end.
signal_exit ==
    /\ host # "stopped" /\ ~exitcode
    /\ exitcode' = TRUE
    /\ UNCHANGED <<tohost, fromhost, fromhost_queue, pending_reads, keys, magicmem,
                   host, handled, answered>>

\* Someone types (environment).
type(max) ==
    /\ host # "stopped" /\ keys < max
    /\ keys' = keys + 1
    /\ UNCHANGED <<tohost, fromhost, fromhost_queue, pending_reads, exitcode, magicmem,
                   host, handled, answered>>
=============================================================================
