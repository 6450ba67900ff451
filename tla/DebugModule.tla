----------------------------- MODULE DebugModule ----------------------------
(***************************************************************************)
(* The debug module (riscv/debug_module.cc), the debug ROM that halted     *)
(* harts execute (debug_rom/debug_rom.S) and a debugger that writes DMI    *)
(* registers between any two instructions of the harts.                    *)
(*                                                                         *)
(* rom[h] is the next memory access of hart h to the debug module:         *)
(*   run        not in debug mode                                          *)
(*   report     the store to DEBUG_ROM_HALTED at the top of entry_loop     *)
(*   testgo     the load of the flags before "bnez s0, going"              *)
(*   testresume the load of the flags before "bnez s0, _resume"            *)
(*   going      the store to DEBUG_ROM_GOING                               *)
(*   abstract   the abstract command and the program buffer                *)
(*   exception  the store to DEBUG_ROM_EXCEPTION                           *)
(*   resuming   the store to DEBUG_ROM_RESUMING                            *)
(*   dret       the return from debug mode                                 *)
(* Data, program buffer and abstract instructions are left out: what is    *)
(* kept of a command is which hart was asked to run it and how often it    *)
(* ran.  cmderr is the set of its bits, as the debugger clears bits.       *)
(***************************************************************************)
EXTENDS Integers, FiniteSets

CONSTANTS
    Harts,       \* hart ids
    AbstractRti, \* config.abstract_rti
    Groups,      \* halt groups that can be set, 0 is none
    Availability,\* the values written to DMCUSTOM
    Kinds,       \* the commands given
    MaxResets    \* bound: hart resets by the debugger

ASSUME DebugModuleAssumption ==
    /\ Harts \subseteq Nat /\ 0 \in Harts
    /\ AbstractRti \in Nat /\ Groups \subseteq Nat /\ 0 \in Groups
    /\ Availability \subseteq SUBSET Harts

VARIABLES
    rom, halt_request,
    halted, haltgroup,             \* hart_state
    go, resume,                    \* debug_rom_flags
    dmactive, hartsel,             \* dmcontrol
    busy, cmderr,                  \* abstractcs
    available,                     \* hart_available_state
    completed,                     \* abstract_command_completed
    rti_remaining,
    resets,
    ran,                           \* history: how often a hart ran the last command
    raised                         \* history: it raised an exception

hartVars == <<rom, halt_request>>
flagVars == <<go, resume>>
dmVars   == <<dmactive, hartsel>>
cmdVars  == <<busy, cmderr, completed, rti_remaining>>
history  == <<ran, raised>>
vars == <<hartVars, halted, haltgroup, flagVars, dmVars, cmdVars,
          available, resets, history>>

InRom   == {"testgo", "testresume", "going", "abstract", "exception", "resuming"}
RomPcs  == InRom \cup {"run", "report", "dret"}
NONE       == {}
BUSY       == {0}
NOTSUP     == {1}
EXCEPTION  == {0, 1}
HALTRESUME == {2}

TypeOK ==
    /\ rom \in [Harts -> RomPcs]
    /\ halt_request \in [Harts -> BOOLEAN]
    /\ {halted, go, resume} \subseteq [Harts -> BOOLEAN]
    /\ haltgroup \in [Harts -> Groups]
    /\ hartsel \in Harts /\ available \subseteq Harts
    /\ {dmactive, busy, completed, raised} \subseteq BOOLEAN
    /\ cmderr \subseteq {0, 1, 2}
    /\ rti_remaining \in Nat /\ ran \in Nat /\ resets \in Nat

Init ==
    /\ rom = [h \in Harts |-> "run"] /\ halt_request = [h \in Harts |-> FALSE]
    /\ halted = [h \in Harts |-> FALSE]
    /\ haltgroup = [h \in Harts |-> 0]
    /\ go = [h \in Harts |-> FALSE] /\ resume = [h \in Harts |-> FALSE]
    /\ dmactive = FALSE /\ hartsel = 0
    /\ busy = FALSE /\ cmderr = NONE /\ available = Harts
    /\ completed = FALSE /\ rti_remaining = 0 /\ resets = 0
    /\ ran = 1 /\ raised = FALSE

-----------------------------------------------------------------------------
(* The harts                                                               *)

Goto(h, pc) == rom' = [rom EXCEPT ![h] = pc]

\* processor_t::step at its start, or a breakpoint of the program.
enter_debug_mode(h) ==
    /\ rom[h] = "run"
    /\ Goto(h, "report")
    /\ UNCHANGED <<halt_request, halted, haltgroup, flagVars, dmVars, cmdVars,
                   available, resets, history>>

\* The harts that a halt of h halts as well.
GroupOf(h) == {k \in available : haltgroup[h] # 0 /\ haltgroup[k] = haltgroup[h]
                                 /\ k # h /\ ~halted[k]}

\* Mutant: the flag is not looked at.
store_halted_mut(h) ==
    /\ rom[h] = "report"
    /\ halted' = [halted EXCEPT ![h] = TRUE]
    /\ halt_request' = [k \in Harts |-> halt_request[k] \/ (~halted[h] /\ k \in GroupOf(h))]
    /\ completed' = (completed \/ hartsel = h)
    /\ Goto(h, "testgo")
    /\ UNCHANGED <<haltgroup, flagVars, dmVars, busy, cmderr, rti_remaining,
                   available, resets, history>>

\* Mutant: only the selected hart's report is recorded.
store_halted_unselected_mut(h) ==
    /\ rom[h] = "report"
    /\ halted' = [halted EXCEPT ![h] = halted[h] \/ hartsel = h]
    /\ halt_request' = [k \in Harts |-> halt_request[k] \/ (~halted[h] /\ k \in GroupOf(h))]
    /\ completed' = (completed \/ (hartsel = h /\ ~go[h]))
    /\ Goto(h, "testgo")
    /\ UNCHANGED <<haltgroup, flagVars, dmVars, busy, cmderr, rti_remaining,
                   available, resets, history>>

\* Mutant: a command is completed only by the first report.
store_halted_once_mut(h) ==
    /\ rom[h] = "report"
    /\ halted' = [halted EXCEPT ![h] = TRUE]
    /\ halt_request' = [k \in Harts |-> halt_request[k] \/ (~halted[h] /\ k \in GroupOf(h))]
    /\ completed' = (completed \/ (~halted[h] /\ hartsel = h /\ ~go[h]))
    /\ Goto(h, "testgo")
    /\ UNCHANGED <<haltgroup, flagVars, dmVars, busy, cmderr, rti_remaining,
                   available, resets, history>>

\* The store to DEBUG_ROM_HALTED.
store_halted(h) ==
    /\ rom[h] = "report"
    /\ halted' = [halted EXCEPT ![h] = TRUE]
    /\ halt_request' = [k \in Harts |-> halt_request[k] \/ (~halted[h] /\ k \in GroupOf(h))]
    /\ completed' = (completed \/ (hartsel = h /\ ~go[h]))
    /\ Goto(h, "testgo")
    /\ UNCHANGED <<haltgroup, flagVars, dmVars, busy, cmderr, rti_remaining,
                   available, resets, history>>

\* Mutant: only the selected hart's RESUME flag is looked at.
load_flags_mut(h) ==
    /\ \/ rom[h] = "testgo" /\ Goto(h, IF go[h] THEN "going" ELSE "testresume")
       \/ /\ rom[h] = "testresume"
          /\ Goto(h, IF resume[h] /\ hartsel = h THEN "resuming" ELSE "report")
    /\ UNCHANGED <<halt_request, halted, haltgroup, flagVars, dmVars, cmdVars,
                   available, resets, history>>

\* The two loads of the flags byte, and the branches on GO and on RESUME.
load_flags(h) ==
    /\ \/ rom[h] = "testgo" /\ Goto(h, IF go[h] THEN "going" ELSE "testresume")
       \/ rom[h] = "testresume" /\ Goto(h, IF resume[h] THEN "resuming" ELSE "report")
    /\ UNCHANGED <<halt_request, halted, haltgroup, flagVars, dmVars, cmdVars,
                   available, resets, history>>

\* The store to DEBUG_ROM_GOING and the jump to the abstract command.
store_going(h) ==
    /\ rom[h] = "going"
    /\ go' = [go EXCEPT ![h] = FALSE]
    /\ Goto(h, "abstract")
    /\ UNCHANGED <<halt_request, halted, haltgroup, resume, dmVars, cmdVars,
                   available, resets, history>>

\* The command ends with ebreak, which enters the ROM again, or in a trap.
run_abstract(h, traps) ==
    /\ rom[h] = "abstract"
    /\ Goto(h, IF traps THEN "exception" ELSE "report")
    /\ ran' = ran + 1 /\ raised' = (raised \/ traps)
    /\ UNCHANGED <<halt_request, halted, haltgroup, flagVars, dmVars, cmdVars,
                   available, resets>>

\* The store to DEBUG_ROM_EXCEPTION, and the ebreak after it.
store_exception(h) ==
    /\ rom[h] = "exception"
    /\ cmderr' = IF cmderr = NONE THEN EXCEPTION ELSE cmderr
    /\ Goto(h, "report")
    /\ UNCHANGED <<halt_request, halted, haltgroup, flagVars, dmVars, busy,
                   completed, rti_remaining, available, resets, history>>

\* Mutant: the hart stays recorded as halted.
store_resuming_mut(h) ==
    /\ rom[h] = "resuming"
    /\ resume' = [resume EXCEPT ![h] = FALSE]
    /\ Goto(h, "dret")
    /\ UNCHANGED <<halt_request, halted, haltgroup, go, dmVars, cmdVars, available, resets,
                   history>>

\* The store to DEBUG_ROM_RESUMING.
store_resuming(h) ==
    /\ rom[h] = "resuming"
    /\ halted' = [halted EXCEPT ![h] = FALSE]
    /\ resume' = [resume EXCEPT ![h] = FALSE]
    /\ Goto(h, "dret")
    /\ UNCHANGED <<halt_request, haltgroup, go, dmVars, cmdVars, available, resets, history>>

dret(h) ==
    /\ rom[h] = "dret"
    /\ Goto(h, "run")
    /\ UNCHANGED <<halt_request, halted, haltgroup, flagVars, dmVars, cmdVars,
                   available, resets, history>>

-----------------------------------------------------------------------------
(* DMI                                                                     *)

\* What perform_abstract_command finds wrong with a command of this kind:
\* "exec" needs the hart, "custom" is carried out by the debug module, and
\* the command type, or the register or the size, may not be supported.
CommandError(kind) ==
    IF busy THEN BUSY
    ELSE IF hartsel \notin available THEN HALTRESUME
    ELSE IF kind = "badtype" THEN NOTSUP
    ELSE IF ~halted[hartsel] THEN HALTRESUME
    ELSE IF kind = "badregister" THEN NOTSUP
    ELSE NONE

perform_abstract_command(kind) ==
    LET err   == CommandError(kind)
        start == cmderr = NONE /\ err = NONE /\ kind = "exec"
    IN  /\ cmderr' = IF cmderr = NONE THEN err ELSE cmderr
        /\ busy' = (busy \/ start)
        /\ completed' = (completed /\ ~start)
        /\ rti_remaining' = IF start THEN AbstractRti ELSE rti_remaining
        /\ go' = IF start THEN [go EXCEPT ![hartsel] = TRUE] ELSE go
        /\ ran' = IF start THEN 0 ELSE ran
        /\ raised' = (raised /\ ~start)
        /\ UNCHANGED <<hartVars, halted, haltgroup, resume, dmVars, available, resets>>

dmi_write_command(kind) == perform_abstract_command(kind)

\* A read or write of a data register whose autoexec bit is set.
dmi_access_data(kind) ==
    \/ ~busy /\ perform_abstract_command(kind)
    \/ /\ busy
       /\ cmderr' = IF cmderr = NONE THEN BUSY ELSE cmderr
       /\ UNCHANGED <<hartVars, halted, haltgroup, flagVars, dmVars, busy,
                      completed, rti_remaining, available, resets, history>>

\* Mutant: busy ends with the last idle cycle.
run_test_idle_mut ==
    /\ rti_remaining' = IF rti_remaining > 0 THEN rti_remaining - 1 ELSE 0
    /\ busy' = (busy /\ rti_remaining' # 0)
    /\ UNCHANGED <<hartVars, halted, haltgroup, flagVars, dmVars, cmderr,
                   completed, available, resets, history>>

\* One idle cycle of the debugger's transport.
run_test_idle ==
    /\ rti_remaining' = IF rti_remaining > 0 THEN rti_remaining - 1 ELSE 0
    /\ busy' = (busy /\ ~(rti_remaining' = 0 /\ completed))
    /\ UNCHANGED <<hartVars, halted, haltgroup, flagVars, dmVars, cmderr,
                   completed, available, resets, history>>

dmi_write_abstractcs(bits) ==
    /\ cmderr' = cmderr \ bits
    /\ raised' = (raised /\ bits = {})
    /\ UNCHANGED <<hartVars, halted, haltgroup, flagVars, dmVars, busy,
                   completed, rti_remaining, available, resets, ran>>

dmi_write_dmcs2(group) ==
    /\ haltgroup' = [haltgroup EXCEPT ![hartsel] = group]
    /\ UNCHANGED <<hartVars, halted, flagVars, dmVars, cmdVars, available,
                   resets, history>>

dmi_write_custom(avail) ==
    /\ available' = avail
    /\ UNCHANGED <<hartVars, halted, haltgroup, flagVars, dmVars, cmdVars,
                   resets, history>>

\* The write of dmcontrol that sets dmactive resets the module, but neither
\* hart_state nor debug_rom_flags nor what run_test_idle waits for.
reset(wakes) ==
    /\ busy' = (busy /\ ~wakes)
    /\ cmderr' = IF wakes THEN NONE ELSE cmderr
    /\ raised' = (raised /\ ~wakes)

\* Harts that are reset leave the debug ROM.
proc_reset(killed) ==
    /\ rom' = [h \in Harts |-> IF h \in killed THEN "run" ELSE rom[h]]
    /\ halted' = [h \in Harts |-> halted[h] /\ h \notin killed]
    /\ haltgroup' = [h \in Harts |-> IF h \in killed THEN 0 ELSE haltgroup[h]]
    /\ resets' = IF killed = {} THEN resets ELSE resets + 1

\* dmcontrol; sel are the harts selected by hartsel, or by hasel and the hart
\* array mask.  With dmactive clear the rest of the value is ignored.
dmi_write_dmcontrol(active, hs, sel, haltreq, resumereq, hartreset) ==
    LET wakes   == active /\ ~dmactive
        reached == IF active THEN sel \cap available ELSE {}
    IN  /\ reset(wakes)
        /\ dmactive' = active
        /\ hartsel' = IF active THEN hs ELSE hartsel
        /\ halt_request' = [h \in Harts |->
               IF active /\ h \in sel THEN haltreq /\ h \in available
               ELSE halt_request[h] /\ ~wakes]
        /\ resume' = [h \in Harts |-> resume[h] \/ (resumereq /\ h \in reached)]
        /\ proc_reset(IF hartreset THEN reached ELSE {})
        /\ UNCHANGED <<go, completed, rti_remaining, available, ran>>

-----------------------------------------------------------------------------
(* A debugger that keeps the rules of the debug specification: dmcontrol   *)
(* and the configuration are left alone while a command is busy, a halt    *)
(* and a resume are not requested at once, and a hart that has not         *)
(* acknowledged a resume is given a command only with its halt request     *)
(* set, as a debugger does that lost track of the resume.                  *)

Command(kind) ==
    /\ dmactive
    /\ halted[hartsel] /\ resume[hartsel] => halt_request[hartsel]
    /\ dmi_write_command(kind) \/ dmi_access_data(kind)

Configure ==
    /\ dmactive /\ ~busy
    /\ \/ \E bits \in (SUBSET {0, 1, 2}) \ {{}} : dmi_write_abstractcs(bits)
       \/ \E g \in Groups : dmi_write_dmcs2(g)
       \/ \E a \in Availability : dmi_write_custom(a)

Control ==
    /\ ~busy
    /\ \E active, haltreq, resumereq, hartreset \in BOOLEAN, hs \in Harts, sel \in SUBSET Harts :
          /\ hs \in sel /\ ~(haltreq /\ resumereq)
          /\ hartreset => resets < MaxResets
          /\ dmi_write_dmcontrol(active, hs, sel, haltreq, resumereq, hartreset)

\* A running hart enters debug mode if it is asked to, or at a breakpoint.
HartStep(h) ==
    \/ halt_request[h] /\ enter_debug_mode(h)
    \/ store_halted(h) \/ load_flags(h) \/ store_going(h)
    \/ \E traps \in BOOLEAN : run_abstract(h, traps)
    \/ store_exception(h) \/ store_resuming(h) \/ dret(h)

Breakpoint(h) == ~halt_request[h] /\ enter_debug_mode(h)

Next ==
    \/ \E h \in Harts : HartStep(h) \/ Breakpoint(h)
    \/ \E kind \in Kinds : Command(kind)
    \/ Configure \/ Control \/ run_test_idle

\* Every hart is stepped for ever, and the debugger's transport idles.
Fairness == (\A h \in Harts : WF_vars(HartStep(h))) /\ WF_vars(run_test_idle)

Spec == Init /\ [][Next]_vars /\ Fairness

-----------------------------------------------------------------------------
(* Properties                                                              *)

\* The debug module's halted bit is what the hart does: never set for a hart
\* that runs or returns, always for one that has passed the report, over
\* resumes, resets of the hart and resets of the module.
HaltedExact ==
    \A h \in Harts :
        /\ rom[h] \in {"run", "dret"} => ~halted[h]
        /\ rom[h] \in InRom => halted[h]

\* When busy is clear the last command has been run exactly once and nothing
\* of it is left: no GO flag, and no hart inside the abstract command.
CommandRanOnce ==
    /\ ~busy => /\ ran = 1
                /\ \A h \in Harts : ~go[h] /\ rom[h] \notin {"going", "abstract", "exception"}
    /\ busy => \A h \in Harts : go[h] \/ rom[h] \in {"going", "abstract"} => h = hartsel

\* A command that trapped is reported before busy clears.
ExceptionReported == ~busy /\ raised => cmderr # NONE

\* The first error is kept until the debugger clears it or resets the module.
CmdErrSticky == [][cmderr # NONE => cmderr' \subseteq cmderr]_vars

\* A hart asked to halt, by the debugger or for its group, is recorded as
\* halted, unless the request is withdrawn.
HaltHonoured ==
    \A h \in Harts : halt_request[h] ~> (halted[h] \/ ~halt_request[h])

\* A command that a hart was asked to run ends, whatever else is going on.
CommandEnds == busy ~> ~busy

\* A halted hart asked to resume leaves the debug ROM, selected or not, unless
\* it is given a command first: the ROM looks at GO before RESUME.
ResumeHonoured ==
    \A h \in Harts : (halted[h] /\ resume[h]) ~> (~resume[h] \/ ~halted[h] \/ go[h])
=============================================================================
