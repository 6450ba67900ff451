------------------------------- MODULE Machine ------------------------------
(***************************************************************************)
(* Several harts under sim_t::step (riscv/sim.cc), the load reservations   *)
(* of their MMUs (riscv/mmu.h), the CLINT and the host interface.          *)
(*                                                                         *)
(* The harts run a target program (external): for each entry of its script *)
(* a hart takes a lock with LR/SC, exchanges a command with the host       *)
(* through tohost and fromhost, releases the lock, counts the exchange     *)
(* with LR/SC, arms its timer in halves, sleeps until it fires, wakes its  *)
(* neighbour with a software interrupt and sleeps until it is woken        *)
(* itself.  pc[h] names the next instruction of hart h.                    *)
(***************************************************************************)
EXTENDS Clint, Htif

CONSTANTS
    NProcs,       \* number of harts, procs.size()
    Interleave,   \* sim_t::INTERLEAVE
    Configs,      \* the ways to run it: [script, grants, real_time, boot, nops,
                  \* keys], where script[h] is a sequence of command kinds,
                  \* grants are the arguments of sim_t::step (1 in interactive
                  \* mode), boot is the time the boot code sets, nops and keys
                  \* bound the other instructions executed on the way and the
                  \* characters waiting on the terminal
    Delay,        \* how far ahead a timer is armed
    Signals       \* whether a signal may end the run

\* What a script may ask for; getc takes a character that was asked for by read.
Commands == {"call", "exit", "identify", "read", "write", "getc"}

ASSUME MachineAssumption ==
    /\ NProcs \in Nat \ {0} /\ Harts = 0 .. NProcs - 1
    /\ Interleave \in Nat \ {0}
    /\ \A c \in Configs :
          /\ c.script \in [Harts -> Seq(Commands)] /\ c.grants \subseteq 1 .. Interleave
          /\ c.real_time \in BOOLEAN /\ c.boot \in Times
          /\ c.nops \in Nat /\ c.keys \in Nat
    /\ Delay \in Nat

VARIABLES
    current_proc, current_step,   \* sim_t
    config,        \* the element of Configs in use
    left,          \* sim_t::step: n - i
    reserved,      \* load_reservation_address of every MMU, NoAddr if yielded
    in_wfi,
    lock, count,   \* two words of memory
    pc, script,    \* what each hart does next, and has still to do
    val,           \* the register an LR of count was read into
    deadline,      \* the time the timer being armed is meant for
    console,       \* the driver's console buffer: ids of characters received
    received,      \* history: ids of the replies taken, in order
    issued,        \* history: ids of the commands posted, in order
    commits,       \* history: successful SCs to count
    nops

simVars  == <<config, current_proc, current_step, left>>
hartVars == <<reserved, in_wfi, lock, count, pc, script, val, deadline, console,
              received, issued, commits, nops>>
vars == <<clintVars, htifVars, simVars, hartVars>>

NoAddr == "none"

Init ==
    /\ config \in Configs /\ ClintInit(config.real_time) /\ HtifInit
    /\ current_proc = 0 /\ current_step = 0 /\ left = 0
    /\ reserved = [h \in Harts |-> NoAddr] /\ in_wfi = [h \in Harts |-> FALSE]
    /\ lock = 0 /\ count = 0
    /\ pc = [h \in Harts |-> IF h = 0 THEN "boot" ELSE "next"]
    /\ script = config.script
    /\ val = [h \in Harts |-> 0] /\ deadline = [h \in Harts |-> 0]
    /\ console = <<>> /\ received = <<>> /\ issued = <<>> /\ commits = 0 /\ nops = 0

-----------------------------------------------------------------------------
(* sim_t::idle and sim_t::step                                             *)

idle ==
    /\ host_idle
    /\ \E n \in config.grants : left' = n
    /\ UNCHANGED <<clintVars, config, current_proc, current_step, hartVars>>

\* Mutant: the reservation survives the switch to the next hart.
end_of_slice_mut ==
    /\ host = "idle" /\ current_step = Interleave
    /\ current_step' = 0
    /\ UNCHANGED reserved
    /\ IF current_proc + 1 = NProcs
       THEN current_proc' = 0 /\ device_tick(1)
       ELSE current_proc' = current_proc + 1 /\ UNCHANGED clintVars
    /\ UNCHANGED <<htifVars, config, left, in_wfi, lock, count, pc, script, val, deadline,
                   console, received, issued, commits, nops>>

\* The slice of a hart is over: its reservation is yielded, the next hart is
\* chosen, and after the last one the devices tick.
end_of_slice ==
    /\ host = "idle" /\ current_step = Interleave
    /\ current_step' = 0
    /\ reserved' = [reserved EXCEPT ![current_proc] = NoAddr]
    /\ IF current_proc + 1 = NProcs
       THEN current_proc' = 0 /\ device_tick(1)
       ELSE current_proc' = current_proc + 1 /\ UNCHANGED clintVars
    /\ UNCHANGED <<htifVars, config, left, in_wfi, lock, count, pc, script, val, deadline,
                   console, received, issued, commits, nops>>

\* n instructions were executed: sim_t::step returns.
step_return ==
    /\ left = 0 /\ current_step < Interleave
    /\ host_idle_return
    /\ UNCHANGED <<clintVars, simVars, hartVars>>

-----------------------------------------------------------------------------
(* Instructions                                                            *)

\* The instructions sim_t::step has granted to the current hart.
Granted == IF Interleave - current_step < left THEN Interleave - current_step ELSE left

\* Hart h executes an instruction when it is its turn; k instructions of the
\* slice are spent.
Turn(h, k) ==
    /\ host = "idle" /\ current_proc = h /\ left > 0 /\ current_step < Interleave
    /\ left' = left - k /\ current_step' = current_step + k
    /\ UNCHANGED <<config, current_proc>>

Goto(h, l) == pc' = [pc EXCEPT ![h] = l]

\* The instruction at label l of hart h.
At(h, l) == pc[h] = l /\ ~in_wfi[h] /\ Turn(h, 1)

\* mmu_t::load_reserved
load_reserved(h, addr) == reserved' = [reserved EXCEPT ![h] = addr]

\* mmu_t::store_conditional: then is the store and what follows it, else what
\* follows a failure; the reservation is yielded either way.
store_conditional(h, addr, then, else) ==
    /\ IF reserved[h] = addr THEN then ELSE else
    /\ reserved' = [reserved EXCEPT ![h] = NoAddr]

\* The enabled interrupts while the program sleeps there.
Wakes(h) == IF pc[h] = "woken_timer" THEN {"MTIP"} ELSE {"MSIP"}

\* wfi: the rest of the grant is given up.
wfi(h) ==
    /\ pc[h] \in {"wait_timer", "wait_ipi"} /\ ~in_wfi[h]
    /\ Turn(h, Granted)
    /\ in_wfi' = [in_wfi EXCEPT ![h] = TRUE]
    /\ Goto(h, IF pc[h] = "wait_timer" THEN "woken_timer" ELSE "woken_ipi")
    /\ UNCHANGED <<clintVars, htifVars, reserved, lock, count, script, val, deadline,
                   console, received, issued, commits, nops>>

\* A hart that waits spends its whole grant unless one of the interrupts it
\* enabled is pending when the grant starts.
still_waiting(h) ==
    /\ in_wfi[h] /\ mip[h] \cap Wakes(h) = {}
    /\ Turn(h, Granted)
    /\ UNCHANGED <<clintVars, htifVars, hartVars>>

wake(h) ==
    /\ host = "idle" /\ current_proc = h /\ left > 0 /\ current_step < Interleave
    /\ in_wfi[h] /\ mip[h] \cap Wakes(h) # {}
    /\ in_wfi' = [in_wfi EXCEPT ![h] = FALSE]
    /\ UNCHANGED <<clintVars, htifVars, simVars, reserved, lock, count, pc, script, val,
                   deadline, console, received, issued, commits, nops>>

\* Any other instruction.
nop(h) ==
    /\ nops < config.nops /\ ~in_wfi[h] /\ Turn(h, 1)
    /\ nops' = nops + 1
    /\ UNCHANGED <<clintVars, htifVars, reserved, in_wfi, lock, count, pc, script, val,
                   deadline, console, received, issued, commits>>

-----------------------------------------------------------------------------
(* The target program                                                      *)

Kind(h) == IF script[h] = <<>> THEN "test" ELSE Head(script[h])

\* The reply the hart waits for is recognised by its dev and cmd fields.
Dev(kind) == IF kind \in {"read", "write", "identify"} THEN "bcd" ELSE "sys"

Waits(kind) == kind \in {"call", "identify"}

\* Taking a lock and counting, with LR/SC.
lr_lock(h) ==
    /\ At(h, "acquire")
    /\ load_reserved(h, "lock")
    /\ Goto(h, IF lock = 0 THEN "try" ELSE "acquire")
    /\ UNCHANGED <<clintVars, htifVars, in_wfi, lock, count, script, val, deadline,
                   console, received, issued, commits, nops>>

sc_lock(h) ==
    /\ At(h, "try")
    /\ store_conditional(h, "lock",
            lock' = 1 /\ Goto(h, IF Kind(h) = "getc" THEN "getc" ELSE "send"),
            UNCHANGED lock /\ Goto(h, "acquire"))
    /\ UNCHANGED <<clintVars, htifVars, in_wfi, count, script, val, deadline,
                   console, received, issued, commits, nops>>

lr_count(h) ==
    /\ At(h, "count")
    /\ load_reserved(h, "count")
    /\ val' = [val EXCEPT ![h] = count]
    /\ Goto(h, "count_sc")
    /\ UNCHANGED <<clintVars, htifVars, in_wfi, lock, count, script, deadline,
                   console, received, issued, commits, nops>>

sc_count(h) ==
    /\ At(h, "count_sc")
    /\ store_conditional(h, "count",
            count' = val[h] + 1 /\ commits' = commits + 1 /\ Goto(h, "arm"),
            UNCHANGED <<count, commits>> /\ Goto(h, "count"))
    /\ UNCHANGED <<clintVars, htifVars, in_wfi, lock, script, val, deadline,
                   console, received, issued, nops>>

\* Loads of tohost and fromhost, and branches on them.
look(h) ==
    /\ \/ /\ At(h, "next")
          /\ Goto(h, IF script[h] # <<>> THEN "acquire" ELSE IF h = 0 THEN "ipi" ELSE "wait_ipi")
       \/ At(h, "send") /\ Goto(h, IF tohost = Empty THEN "post" ELSE "send_poll")
       \/ At(h, "send_poll") /\ Goto(h, IF fromhost = Empty THEN "send" ELSE "send_stash")
       \/ /\ At(h, "reply")
          /\ Goto(h, IF fromhost = Empty THEN "reply"
                     ELSE IF fromhost.dev = Dev(Kind(h)) /\ fromhost.cmd = Kind(h) THEN "take"
                     ELSE "reply_stash")
       \/ At(h, "getc_poll") /\ Goto(h, IF fromhost = Empty THEN "retry" ELSE "getc_stash")
       \/ At(h, "done") /\ UNCHANGED pc
    /\ UNCHANGED <<clintVars, htifVars, reserved, in_wfi, lock, count, script, val,
                   deadline, console, received, issued, commits, nops>>

\* Posting a command.
post(h) ==
    /\ At(h, "post")
    /\ tohost' = [dev |-> Dev(Kind(h)), cmd |-> Kind(h), id |-> Len(issued) + 1]
    /\ issued' = Append(issued, Len(issued) + 1)
    /\ Goto(h, CASE Kind(h) = "test" -> "done"
                 [] Waits(Kind(h)) -> "reply"
                 [] OTHER -> "release")
    /\ UNCHANGED <<clintVars, fromhost, fromhost_queue, pending_reads, exitcode, keys,
                   magicmem, host, handled, answered, reserved, in_wfi, lock, count,
                   script, val, deadline, console, received, commits, nops>>

\* Taking a reply: the one waited for, or a character that came first and is
\* put into the console buffer.
take(h) ==
    /\ \/ At(h, "take") /\ Goto(h, "release") /\ UNCHANGED console
       \/ /\ \/ At(h, "send_stash") /\ Goto(h, "send_poll")
             \/ At(h, "reply_stash") /\ Goto(h, "reply")
             \/ At(h, "getc_stash") /\ Goto(h, "getc")
          /\ console' = Append(console, fromhost.id)
    /\ fromhost' = Empty
    /\ received' = Append(received, fromhost.id)
    /\ UNCHANGED <<clintVars, tohost, fromhost_queue, pending_reads, exitcode, keys,
                   magicmem, host, handled, answered, reserved, in_wfi, lock, count,
                   script, val, deadline, issued, commits, nops>>

\* Reading a character from the buffer.
getc(h) ==
    /\ At(h, "getc")
    /\ IF console # <<>> THEN console' = Tail(console) /\ Goto(h, "release")
                         ELSE UNCHANGED console /\ Goto(h, "getc_poll")
    /\ UNCHANGED <<clintVars, htifVars, reserved, in_wfi, lock, count, script, val,
                   deadline, received, issued, commits, nops>>

\* An ordinary store gives the lock back.
release(h) ==
    /\ \/ At(h, "release") /\ Goto(h, "count")
          /\ script' = [script EXCEPT ![h] = Tail(@)]
       \/ At(h, "retry") /\ Goto(h, "acquire") /\ UNCHANGED script
    /\ lock' = 0
    /\ UNCHANGED <<clintVars, htifVars, reserved, in_wfi, count, val, deadline, console,
                   received, issued, commits, nops>>

\* Arming the timer: read the time, then write the low half to its maximum,
\* the high half and the low half, so that no value in between is due early.
arm(h) ==
    /\ \/ /\ At(h, "arm") /\ load /\ Goto(h, "arm_lo")
          /\ deadline' = [deadline EXCEPT ![h] = (mtime' + Delay) % Limit]
       \/ /\ UNCHANGED deadline
          /\ \/ At(h, "arm_lo") /\ store_mtimecmp(h, "lo", Half - 1) /\ Goto(h, "arm_hi")
             \/ /\ At(h, "arm_hi") /\ store_mtimecmp(h, "hi", deadline[h] \div Half)
                /\ Goto(h, "arm_new")
             \/ /\ At(h, "arm_new") /\ store_mtimecmp(h, "lo", deadline[h] % Half)
                /\ Goto(h, IF Sstc THEN "arm_s" ELSE "wait_timer")
             \/ At(h, "arm_s") /\ store_stimecmp(h, deadline[h]) /\ Goto(h, "arm_vs")
             \/ At(h, "arm_vs") /\ store_vstimecmp(h, deadline[h]) /\ Goto(h, "wait_timer")
    /\ UNCHANGED <<htifVars, reserved, in_wfi, lock, count, script, val, console,
                   received, issued, commits, nops>>

\* Hart 0 sets the time, one half after the other.
boot(h) ==
    /\ \/ At(h, "boot") /\ store_mtime("hi", config.boot \div Half) /\ Goto(h, "boot_lo")
       \/ At(h, "boot_lo") /\ store_mtime("lo", config.boot % Half) /\ Goto(h, "next")
    /\ UNCHANGED <<htifVars, reserved, in_wfi, lock, count, script, val, deadline,
                   console, received, issued, commits, nops>>

\* The timer went off: next entry.  At the end of the scripts a software
\* interrupt goes round: hart 0 starts it and ends the run when it is back.
interrupts(h) ==
    /\ \/ At(h, "woken_timer") /\ Goto(h, "next") /\ UNCHANGED clintVars
       \/ /\ At(h, "ipi") /\ store_msip((h + 1) % NProcs, TRUE)
          /\ Goto(h, IF h = 0 THEN "wait_ipi" ELSE "done")
       \/ /\ At(h, "woken_ipi") /\ store_msip(h, FALSE)
          /\ Goto(h, IF h = 0 THEN "send" ELSE "ipi")
    /\ UNCHANGED <<htifVars, reserved, in_wfi, lock, count, script, val, deadline,
                   console, received, issued, commits, nops>>

Insn(h) ==
    \/ lr_lock(h) \/ sc_lock(h) \/ lr_count(h) \/ sc_count(h)
    \/ look(h) \/ post(h) \/ take(h) \/ getc(h) \/ release(h)
    \/ boot(h) \/ arm(h) \/ interrupts(h) \/ nop(h)
    \/ wfi(h) \/ still_waiting(h) \/ wake(h)

-----------------------------------------------------------------------------

Host ==
    /\ host_command \/ host_stop
    /\ UNCHANGED <<clintVars, simVars, hartVars>>

\* The one thread of the simulator.
Thread ==
    \/ Host \/ idle \/ end_of_slice \/ step_return
    \/ \E h \in Harts : Insn(h)

Typing == type(config.keys) /\ UNCHANGED <<clintVars, simVars, hartVars>>
Clock  == clock_advance /\ host # "stopped" /\ UNCHANGED <<htifVars, simVars, hartVars>>
Signal == Signals /\ signal_exit /\ UNCHANGED <<clintVars, simVars, hartVars>>

Stopped == host = "stopped" /\ UNCHANGED vars

Next == Thread \/ Typing \/ Clock \/ Signal \/ Stopped

\* The loop of htif_t::run never blocks; whoever is asked for a character
\* types one some time; the host's clock goes on.
Fairness == WF_vars(Thread) /\ WF_vars(Typing) /\ WF_vars(Clock)

Spec == Init /\ [][Next]_vars /\ Fairness

-----------------------------------------------------------------------------
(* Properties                                                              *)

Ids(q) == [i \in DOMAIN q |-> q[i].id]
IdOf(m) == IF m = Empty THEN <<>> ELSE <<m.id>>

\* A hart has the lock from the store of its SC to the store that clears it.
Holds(h) == pc[h] \in {"send", "send_poll", "send_stash", "post", "reply", "reply_stash",
                       "take", "getc", "getc_poll", "getc_stash", "retry", "release"}
            /\ script[h] # <<>>

\* Two harts that take a lock with LR/SC are never both in the section it
\* guards, wherever the slices end between the LR, the SC and the stores of
\* others, and no increment made with LR/SC is lost (mmu.h:276 looks at the
\* address only; sim.cc:315 yields).
LrScAtomic ==
    /\ \A g, h \in Harts : Holds(g) /\ Holds(h) => g = h
    /\ count = commits

\* Every command posted is handled exactly once, in order; and the replies the
\* target takes, the one in fromhost and the queued ones are all the replies
\* the devices gave, in that order: none is lost, doubled or overtaken while
\* fromhost is in use (htif.cc:279 and 301).
HtifInOrder ==
    /\ issued = handled \o IdOf(tohost)
    /\ received \o IdOf(fromhost) \o Ids(fromhost_queue) = answered

\* The reply a hart takes for its own is the reply to its own command, and
\* the result of the call is in memory by then.
OwnReply ==
    \A h \in Harts : pc[h] = "take" =>
        /\ fromhost.id = issued[Len(issued)]
        /\ fromhost.cmd = "call" => magicmem = fromhost.id

\* From the moment the high half is written no hart sees its timer before
\* its deadline, and it is not woken before it.
NotEarly ==
    \A h \in Harts : pc[h] \in {"arm_new", "arm_s", "arm_vs", "wait_timer", "woken_timer"}
                     /\ ("MTIP" \in mip[h] \/ (pc[h] = "woken_timer" /\ ~in_wfi[h]))
                    => mtime >= deadline[h]

\* The run ends: no SC fails for ever, every reply and every interrupt that
\* is waited for comes, no hart sleeps through its timer.
Completes == <>(host = "stopped")
=============================================================================
