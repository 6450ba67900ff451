----------------------------- MODULE JtagSession ----------------------------
(***************************************************************************)
(* A debugging session from the socket down to the hart: the debugger's    *)
(* pin changes arrive at remote_bitbang_t (riscv/remote_bitbang.cc), which *)
(* runs between two slices of the simulation (sim_t::idle) and drives the  *)
(* TAP of JtagDtm, whose operations are those of DebugModule.              *)
(*                                                                         *)
(* The debugger (external) connects, resets the TAP, and then checks that  *)
(* no command runs, clears the error, halts the hart, waits until it is    *)
(* halted, gives a command, waits until it is over, resumes the hart and   *)
(* waits until it runs.  Each of these is one DMI operation, sent in one   *)
(* scan and its result fetched by another.  A scan that captures busy is   *)
(* sent again after dmireset (or dmihardreset, when no result is pending), *)
(* with one idle cycle more.  The debugger may lose the connection at any  *)
(* moment and start again.                                                 *)
(***************************************************************************)
EXTENDS JtagDtm

CONSTANTS
    AbstractRti,     \* config.abstract_rti
    MaxDelay,        \* bound: idle cycles the debugger adds
    MaxDisconnects   \* bound: lost connections

ASSUME SessionAssumption == AbstractRti \in Nat

VARIABLES
    rom, halt_request, halted, haltgroup, go, resume, dmactive, hartsel, busy,
    cmderr, available, completed, dm_rti, resets, ran, raised,  \* DebugModule
    where,        \* "sim", or "bitbang" while execute_commands runs
    client,       \* client_fd: "none", "open", or "closed" by the other side
    in_rti,       \* the local of execute_commands
    goal, phase,  \* the debugger: its aim, and what it waits for
    plan,         \* the clock cycles it has still to send: <<[tms, tdi]>>
    low,          \* whether TCK goes low next
    got,          \* the bits it has read in the present scan
    delay, disconnects,
    times,        \* history: how often the present scan was carried out
    done,         \* history: the operation carried out last, and ...
    answer,       \* ... what the debug module answered to it
    commands      \* history: commands given in this connection

dmVars  == <<rom, halt_request, halted, haltgroup, go, resume, dmactive, hartsel, busy,
             cmderr, available, completed, dm_rti, resets, ran, raised>>
dbgVars == <<goal, phase, plan, low, got, delay, disconnects>>
history == <<times, done, answer, commands>>
vars    == <<tapVars, dmVars, where, client, in_rti, dbgVars, history>>

DM == INSTANCE DebugModule
          WITH Harts <- {0}, Groups <- {0}, Availability <- {{0}}, Kinds <- {"exec"},
               MaxResets <- 0, rti_remaining <- dm_rti

Init ==
    /\ TapInit /\ DM!Init
    /\ where = "sim" /\ client = "none" /\ in_rti = FALSE
    /\ goal = "check" /\ phase = "connect" /\ plan = <<>> /\ low = TRUE /\ got = <<>>
    /\ delay = 0 /\ disconnects = 0
    /\ times = 0 /\ done = 0 /\ answer = 0 /\ commands = 0

-----------------------------------------------------------------------------
(* The debug module behind the DMI register                                *)

\* The operations the debugger uses, as the argument bits of a write ...
HALT    == 0
COMMAND == 1
RESUME  == 2
CLEAR   == 3
\* ... and of a read; no register answers at the last one.
DMSTATUS   == 0
ABSTRACTCS == 1
NOWHERE    == 3

\* dmi_read and dmi_write return whether there is such a register.
Success(word) == ~(DmiOp(word) = READ /\ DmiArg(word) = NOWHERE)

Value(word) == IF DmiArg(word) = DMSTATUS THEN (IF halted[0] THEN 1 ELSE 0)
                                          ELSE (IF busy THEN 1 ELSE 0)

Dispatch(word) ==
    IF DmiOp(word) # WRITE THEN UNCHANGED dmVars
    ELSE CASE DmiArg(word) = HALT -> DM!dmi_write_dmcontrol(TRUE, 0, {0}, TRUE, FALSE, FALSE)
           [] DmiArg(word) = COMMAND -> DM!dmi_write_command("exec")
           [] DmiArg(word) = RESUME -> DM!dmi_write_dmcontrol(TRUE, 0, {0}, FALSE, TRUE, FALSE)
           [] DmiArg(word) = CLEAR -> DM!dmi_write_abstractcs({0, 1, 2})

\* A call of set_pins and what it makes the debug module do.
Pins(c, s, i) ==
    /\ set_pins(c, s, i, Success(dr), Value(dr))
    /\ IF ~Rises(c) /\ Performs
       THEN /\ Dispatch(dr)
            /\ times' = times + 1
            /\ done' = IF DmiOp(dr) = NOP THEN done ELSE dr
            /\ answer' = IF DmiOp(dr) = READ THEN Value(dr) ELSE answer
            /\ commands' = IF dr = Dmi(WRITE, COMMAND) THEN commands + 1 ELSE commands
       ELSE /\ IF ~Rises(c) /\ state = "run_test_idle" THEN DM!run_test_idle
                                                       ELSE UNCHANGED dmVars
            /\ UNCHANGED history

-----------------------------------------------------------------------------
(* remote_bitbang_t                                                        *)

\* Whether execute_commands returns after a command: it has brought the TAP
\* to Run-Test/Idle, and the simulation gets its turn.  (The other bound,
\* buf_size commands in one call, is never met: a scan is much shorter.)
EntersRti == ~in_rti /\ state' = "run_test_idle"

Executed ==
    /\ where' = IF EntersRti THEN "sim" ELSE "bitbang"
    /\ in_rti' = FALSE
    /\ UNCHANGED client

\* sim_t::idle calls tick after each slice; a client is accepted, or its
\* commands are executed.
tick ==
    /\ where = "sim"
    /\ IF client = "none"
       THEN client' = "open" /\ UNCHANGED <<where, in_rti>>
       ELSE where' = "bitbang" /\ in_rti' = (state = "run_test_idle") /\ UNCHANGED client
    /\ UNCHANGED <<tapVars, dmVars, dbgVars, history>>

\* Nothing to read: execute_commands returns.  At the end of the stream it
\* closes the connection.
nothing_to_read ==
    /\ where = "bitbang" /\ where' = "sim"
    /\ client' = IF client = "closed" THEN "none" ELSE client
    /\ UNCHANGED <<tapVars, dmVars, in_rti, dbgVars, history>>

\* Between two calls of tick the hart runs.
hart ==
    /\ where = "sim"
    /\ DM!HartStep(0)
    /\ UNCHANGED <<tapVars, where, client, in_rti, dbgVars, history>>

-----------------------------------------------------------------------------
(* The debugger                                                            *)

Cycle(s, i) == [s |-> s, i |-> i]
Tms(seq) == [k \in DOMAIN seq |-> Cycle(seq[k], 0)]

\* The bits of value, the last one with TMS set.
Bits(value, length) ==
    [k \in 1 .. length |-> Cycle(IF k = length THEN 1 ELSE 0, (value \div 2 ^ (k - 1)) % 2)]

IrScan(value) == Tms(<<1, 1, 0, 0>>) \o Bits(value, IrLength) \o Tms(<<1, 0>>)
DrScan(value, length) == Tms(<<1, 0, 0>>) \o Bits(value, length) \o Tms(<<1, 0>>)
Idle(n) == Tms([k \in 1 .. n |-> 0])

WordOf == [ check |-> Dmi(READ, ABSTRACTCS), clear |-> Dmi(WRITE, CLEAR),
            halt |-> Dmi(WRITE, HALT), wait_halt |-> Dmi(READ, DMSTATUS),
            command |-> Dmi(WRITE, COMMAND), wait_command |-> Dmi(READ, ABSTRACTCS),
            resume |-> Dmi(WRITE, RESUME), wait_resume |-> Dmi(READ, DMSTATUS),
            probe |-> Dmi(READ, NOWHERE), done |-> 0 ]

\* What comes after a goal whose operation was answered with data.
After(data) ==
    CASE goal = "check" -> IF data = 0 THEN "clear" ELSE "check"
      [] goal = "clear" -> "halt"
      [] goal = "halt" -> "wait_halt"
      [] goal = "wait_halt" -> IF data = 1 THEN "command" ELSE "wait_halt"
      [] goal = "command" -> "wait_command"
      [] goal = "wait_command" -> IF data = 0 THEN "resume" ELSE "wait_command"
      [] goal = "resume" -> "wait_resume"
      [] goal = "wait_resume" -> IF data = 0 THEN "probe" ELSE "wait_resume"
      [] goal = "probe" -> "done"

Captured == IF Len(got) < DmiLength THEN NOP
            ELSE got[1] + (2 * got[2]) + (4 * got[3]) + (8 * got[4])

Send(p) == plan' = p /\ low' = TRUE /\ got' = <<>>

\* The debugger decides what to send next.
think ==
    /\ client = "open" /\ plan = <<>> /\ phase # "connect" /\ goal # "done"
    /\ \/ /\ phase = "reset"      \* Run-Test/Idle, with or without five ones before it
          /\ \E start \in {<<0>>, <<1, 1, 1, 1, 1, 0>>} :
                Send(Tms(start) \o IrScan(IR_DBUS))
          /\ phase' = "op"
          /\ UNCHANGED <<goal, delay, times>>
       \/ /\ phase = "op"
          /\ Send(DrScan(WordOf[goal], DmiLength) \o Idle(delay)) /\ phase' = "op_sent"
          /\ times' = 0 /\ UNCHANGED <<goal, delay>>
       \/ /\ phase = "fetch"
          /\ Send(DrScan(NOP, DmiLength) \o Idle(delay)) /\ phase' = "fetch_sent"
          /\ times' = 0 /\ UNCHANGED <<goal, delay>>
       \/ /\ phase \in {"op_sent", "fetch_sent"} /\ DmiOp(Captured) = BUSY
          /\ \E bits \in {DTMCONTROL_DMIRESET}
                    \cup (IF phase = "op_sent" THEN {DTMCONTROL_DMIHARDRESET} ELSE {}) :
                Send(IrScan(IR_DTMCONTROL) \o DrScan(bits, 2) \o IrScan(IR_DBUS))
          /\ phase' = IF phase = "op_sent" THEN "op" ELSE "fetch"
          /\ delay' = IF delay < MaxDelay THEN delay + 1 ELSE delay
          /\ UNCHANGED <<goal, times>>
       \/ /\ phase = "op_sent" /\ DmiOp(Captured) # BUSY
          /\ phase' = "fetch"
          /\ UNCHANGED <<goal, plan, low, got, delay, times>>
       \/ /\ phase = "fetch_sent" /\ DmiOp(Captured) # BUSY
          /\ goal' = After(DmiArg(Captured)) /\ phase' = "op"
          /\ UNCHANGED <<plan, low, got, delay, times>>
    /\ UNCHANGED <<tapVars, dmVars, where, client, in_rti, disconnects, done, answer, commands>>

\* The command 'r'.
reset_command ==
    /\ where = "bitbang" /\ client = "open" /\ phase = "connect"
    /\ reset /\ phase' = "reset" /\ commands' = 0 /\ times' = 0
    /\ Executed
    /\ UNCHANGED <<dmVars, goal, plan, low, got, delay, disconnects, done, answer>>

\* One half of a clock cycle; in a shift state TDO is read while TCK is low.
pin_command ==
    /\ where = "bitbang" /\ client = "open" /\ plan # <<>>
    /\ Pins(IF low THEN 0 ELSE 1, Head(plan).s, Head(plan).i)
    /\ low' = ~low
    /\ plan' = IF low THEN plan ELSE Tail(plan)
    /\ got' = IF low /\ state = "shift_dr" /\ phase \in {"op_sent", "fetch_sent"}
              THEN Append(got, tdo') ELSE got
    /\ Executed
    /\ UNCHANGED <<goal, phase, delay, disconnects>>

\* After a sequence the clock may be set low once more.
extra_low ==
    /\ where = "bitbang" /\ client = "open" /\ plan = <<>>
    /\ phase # "connect" /\ tck = 1
    /\ Pins(0, 0, 0)
    /\ Executed
    /\ UNCHANGED dbgVars

\* The connection is lost; the debugger starts again.
disconnect ==
    /\ client = "open" /\ disconnects < MaxDisconnects /\ goal # "done"
    /\ client' = "closed" /\ disconnects' = disconnects + 1
    /\ goal' = "check" /\ phase' = "connect" /\ plan' = <<>> /\ low' = TRUE /\ got' = <<>>
    /\ delay' = 0
    /\ UNCHANGED <<tapVars, dmVars, where, in_rti, history>>

Next == tick \/ nothing_to_read \/ hart \/ think \/ reset_command \/ pin_command
        \/ extra_low \/ disconnect

\* The simulator goes on, the debugger goes on thinking, and what it sends
\* arrives some time.  A slice is long enough for the hart to get on.
Fairness ==
    /\ WF_vars(tick) /\ WF_vars(nothing_to_read) /\ WF_vars(think)
    /\ SF_vars(hart) /\ SF_vars(pin_command) /\ SF_vars(reset_command)

Spec == Init /\ [][Next]_vars /\ Fairness

-----------------------------------------------------------------------------
(* Properties                                                              *)

Sent == plan = <<>> /\ phase \in {"op_sent", "fetch_sent"}

\* A scan the debugger sees answered with busy was not carried out, so that
\* it may be sent again; any other scan was carried out exactly once, and
\* with the operation that was shifted in (jtag_dtm.cc:149 and :185).
ExactlyOnce ==
    Sent => /\ times = IF DmiOp(Captured) = BUSY THEN 0 ELSE 1
            /\ phase = "op_sent" /\ times = 1 => done = WordOf[goal]

\* The result that is fetched is the result of the operation that was sent,
\* however often the fetch was answered with busy.
ResultExact ==
    Sent /\ phase = "fetch_sent" /\ DmiOp(Captured) # BUSY =>
        /\ done = WordOf[goal]
        /\ DmiOp(Captured) = IF Success(done) THEN SUCCESS ELSE FAILED
        /\ DmiOp(done) = READ /\ Success(done) => DmiArg(Captured) = answer

\* Once the debugger has seen its command end, the hart has run it exactly
\* once and nothing is left of it.
RanOnce ==
    goal \in {"resume", "wait_resume", "probe", "done"} /\ client # "closed" =>
        commands = 1 /\ ran = 1 /\ ~busy /\ ~go[0]

\* The session comes to its end: polling does not keep the hart from
\* answering, and busy does not come back for ever.
SessionEnds == <>(goal = "done")

\* Seen through the pins, the turns of execute_commands and a lost connection,
\* every step of the session is one of DebugModule or none at all: no scan
\* makes the debugger break the rules DebugModule relies on (a command under
\* way, a resume not yet taken), so that what is proved there holds here.
ImplementsDebugModule == DM!Init /\ [][DM!Next]_(DM!vars)
=============================================================================
