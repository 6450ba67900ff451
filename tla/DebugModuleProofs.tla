-------------------------- MODULE DebugModuleProofs -------------------------
(***************************************************************************)
(* The halted bits and the abstract commands of DebugModule, proved for    *)
(* any set of harts, halt groups and number of idle cycles.                *)
(***************************************************************************)
EXTENDS DebugModule, TLAPS

InCommand == {"going", "abstract", "exception"}

\* The state of the command that the selected hart was asked to run: asked,
\* running, trapped, or run and not yet seen to be so.
Stage(h) ==
    \/ go[h] /\ ~completed /\ ran = 0 /\ rom[h] \notin {"abstract", "exception"}
    \/ ~go[h] /\ ~completed /\ ran = 0 /\ rom[h] = "abstract"
    \/ ~go[h] /\ ~completed /\ ran = 1 /\ rom[h] = "exception" /\ raised
    \/ ~go[h] /\ ran = 1 /\ rom[h] \notin InCommand

CommandInv ==
    /\ \A h \in Harts : (go[h] \/ rom[h] \in InCommand) => busy /\ h = hartsel
    /\ IF busy THEN Stage(hartsel) ELSE ran = 1
    /\ raised /\ cmderr = NONE => busy /\ rom[hartsel] = "exception"

IInv == TypeOK /\ HaltedExact /\ CommandInv

\* The initial states.
LEMMA InitInv == Init => IInv
<1> SUFFICES ASSUME Init PROVE IInv
  OBVIOUS
<1>1. TypeOK
  BY DebugModuleAssumption DEF Init, TypeOK, InRom, RomPcs, NONE
<1>2. HaltedExact
  BY DEF Init, HaltedExact, InRom
<1>3. CommandInv
  BY DEF Init, CommandInv, InCommand
<1>4. QED
  BY <1>1, <1>2, <1>3 DEF IInv

\* A hart enters the ROM; its halted bit is still clear.
LEMMA enter_debug_mode_inv ==
  ASSUME IInv,
         NEW h \in Harts, enter_debug_mode(h)
  PROVE  IInv'
<1>1. TypeOK'
  BY DEF IInv, enter_debug_mode, TypeOK, RomPcs, InRom, Goto, flagVars, dmVars,
         cmdVars, history, NONE
<1>2. HaltedExact'
  BY DEF IInv, enter_debug_mode, TypeOK, HaltedExact, RomPcs, InRom, Goto,
         flagVars, dmVars, cmdVars, history
<1>3. CommandInv'
  BY DEF IInv, enter_debug_mode, TypeOK, HaltedExact, CommandInv, Stage, InCommand,
         RomPcs, InRom, Goto, flagVars, dmVars, cmdVars, history, NONE
<1>4. QED
  BY <1>1, <1>2, <1>3 DEF IInv

\* A report completes the command only from the last stage, as GO is set in the first.
LEMMA store_halted_inv ==
  ASSUME IInv,
         NEW h \in Harts, store_halted(h)
  PROVE  IInv'
<1>1. TypeOK'
  BY DEF IInv, store_halted, TypeOK, RomPcs, InRom, Goto, flagVars, dmVars,
         history, NONE
<1>2. HaltedExact'
  BY DEF IInv, store_halted, TypeOK, HaltedExact, RomPcs, InRom, Goto, flagVars,
         dmVars, history
<1>3. CommandInv'
  BY DEF IInv, store_halted, TypeOK, HaltedExact, CommandInv, Stage, InCommand,
         RomPcs, InRom, Goto, flagVars, dmVars, history, NONE
<1>4. QED
  BY <1>1, <1>2, <1>3 DEF IInv

\* Only the hart whose GO flag is set goes to the command.
LEMMA load_flags_inv ==
  ASSUME IInv,
         NEW h \in Harts, load_flags(h)
  PROVE  IInv'
<1>1. TypeOK'
  BY DEF IInv, load_flags, TypeOK, RomPcs, InRom, Goto, flagVars, dmVars, cmdVars,
         history, NONE
<1>2. HaltedExact'
  BY DEF IInv, load_flags, TypeOK, HaltedExact, RomPcs, InRom, Goto, flagVars,
         dmVars, cmdVars, history
<1>3. CommandInv'
  BY DEF IInv, load_flags, TypeOK, HaltedExact, CommandInv, Stage, InCommand,
         RomPcs, InRom, Goto, flagVars, dmVars, cmdVars, history, NONE
<1>4. QED
  BY <1>1, <1>2, <1>3 DEF IInv

\* From asked to running.
LEMMA store_going_inv ==
  ASSUME IInv,
         NEW h \in Harts, store_going(h)
  PROVE  IInv'
<1>1. TypeOK'
  BY DEF IInv, store_going, TypeOK, RomPcs, InRom, Goto, dmVars, cmdVars, history,
         NONE
<1>2. HaltedExact'
  BY DEF IInv, store_going, TypeOK, HaltedExact, RomPcs, InRom, Goto, dmVars,
         cmdVars, history
<1>3. CommandInv'
  BY DEF IInv, store_going, TypeOK, HaltedExact, CommandInv, Stage, InCommand,
         RomPcs, InRom, Goto, dmVars, cmdVars, history, NONE
<1>4. QED
  BY <1>1, <1>2, <1>3 DEF IInv

\* From running to trapped or to run: the only step that counts a run.
LEMMA run_abstract_inv ==
  ASSUME IInv,
         NEW h \in Harts, NEW traps \in BOOLEAN, run_abstract(h, traps)
  PROVE  IInv'
<1>1. TypeOK'
  BY DEF IInv, run_abstract, TypeOK, RomPcs, InRom, Goto, flagVars, dmVars,
         cmdVars, NONE
<1>2. HaltedExact'
  BY DEF IInv, run_abstract, TypeOK, HaltedExact, RomPcs, InRom, Goto, flagVars,
         dmVars, cmdVars
<1>3. CommandInv'
  BY DEF IInv, run_abstract, TypeOK, HaltedExact, CommandInv, Stage, InCommand,
         RomPcs, InRom, Goto, flagVars, dmVars, cmdVars, NONE
<1>4. QED
  BY <1>1, <1>2, <1>3 DEF IInv

\* From trapped to run, with an error recorded.
LEMMA store_exception_inv ==
  ASSUME IInv,
         NEW h \in Harts, store_exception(h)
  PROVE  IInv'
<1>1. TypeOK'
  BY DEF IInv, store_exception, TypeOK, RomPcs, InRom, Goto, flagVars, dmVars,
         history, NONE, EXCEPTION
<1>2. HaltedExact'
  BY DEF IInv, store_exception, TypeOK, HaltedExact, RomPcs, InRom, Goto, flagVars,
         dmVars, history
<1>3. CommandInv'
  BY DEF IInv, store_exception, TypeOK, HaltedExact, CommandInv, Stage, InCommand,
         RomPcs, InRom, Goto, flagVars, dmVars, history, NONE, EXCEPTION
<1>4. QED
  BY <1>1, <1>2, <1>3 DEF IInv

\* A hart that gets here is outside the command; GO stays for its return.
LEMMA store_resuming_inv ==
  ASSUME IInv,
         NEW h \in Harts, store_resuming(h)
  PROVE  IInv'
<1>1. TypeOK'
  BY DEF IInv, store_resuming, TypeOK, RomPcs, InRom, Goto, dmVars, cmdVars,
         history, NONE
<1>2. HaltedExact'
  BY DEF IInv, store_resuming, TypeOK, HaltedExact, RomPcs, InRom, Goto, dmVars,
         cmdVars, history
<1>3. CommandInv'
  BY DEF IInv, store_resuming, TypeOK, HaltedExact, CommandInv, Stage, InCommand,
         RomPcs, InRom, Goto, dmVars, cmdVars, history, NONE
<1>4. QED
  BY <1>1, <1>2, <1>3 DEF IInv

\* The halted bit was cleared by the store before.
LEMMA dret_inv ==
  ASSUME IInv,
         NEW h \in Harts, dret(h)
  PROVE  IInv'
<1>1. TypeOK'
  BY DEF IInv, dret, TypeOK, RomPcs, InRom, Goto, flagVars, dmVars, cmdVars,
         history, NONE
<1>2. HaltedExact'
  BY DEF IInv, dret, TypeOK, HaltedExact, RomPcs, InRom, Goto, flagVars, dmVars,
         cmdVars, history
<1>3. CommandInv'
  BY DEF IInv, dret, TypeOK, HaltedExact, CommandInv, Stage, InCommand, RomPcs,
         InRom, Goto, flagVars, dmVars, cmdVars, history, NONE
<1>4. QED
  BY <1>1, <1>2, <1>3 DEF IInv

\* A command starts only when none is busy; the hart may yet resume before it
\* gets there, and runs the command when it is back.
LEMMA perform_abstract_command_inv ==
  ASSUME IInv,
         NEW kind \in Kinds, perform_abstract_command(kind)
  PROVE  IInv'
<1>1. TypeOK'
  BY DebugModuleAssumption DEF IInv, perform_abstract_command, CommandError,
                               TypeOK, hartVars, dmVars, NONE, BUSY, NOTSUP,
                               HALTRESUME
<1>2. HaltedExact'
  BY DEF IInv, perform_abstract_command, CommandError, TypeOK, HaltedExact, RomPcs,
         InRom, hartVars, dmVars
<1>3. CommandInv'
  BY DEF IInv, perform_abstract_command, CommandError, TypeOK, HaltedExact,
         CommandInv, Stage, InCommand, RomPcs, InRom, hartVars, dmVars, NONE, BUSY,
         NOTSUP, HALTRESUME
<1>4. QED
  BY <1>1, <1>2, <1>3 DEF IInv

\* An access to data during a command may record an error.
LEMMA dmi_access_data_inv ==
  ASSUME IInv,
         NEW kind \in Kinds, dmi_access_data(kind)
  PROVE  IInv'
<1>1. CASE ~busy
  BY <1>1, perform_abstract_command_inv DEF dmi_access_data
<1>2. CASE busy
  <2>1. TypeOK'
    BY <1>2 DEF IInv, dmi_access_data, TypeOK, hartVars, flagVars, dmVars, history,
                NONE, BUSY
  <2>2. HaltedExact'
    BY <1>2 DEF IInv, dmi_access_data, HaltedExact, hartVars
  <2>3. CommandInv'
    BY <1>2 DEF IInv, dmi_access_data, TypeOK, CommandInv, Stage, hartVars, flagVars,
                dmVars, history, NONE, BUSY
  <2>4. QED
    BY <2>1, <2>2, <2>3 DEF IInv
<1>3. QED
  BY <1>1, <1>2

\* busy is cleared from the last stage only, as completed is clear in the others.
LEMMA run_test_idle_inv ==
  ASSUME IInv,
         run_test_idle
  PROVE  IInv'
<1>1. TypeOK'
  BY DEF IInv, run_test_idle, TypeOK, hartVars, flagVars, dmVars, history, NONE
<1>2. HaltedExact'
  BY DEF IInv, run_test_idle, TypeOK, HaltedExact, RomPcs, InRom, hartVars,
         flagVars, dmVars, history
<1>3. CommandInv'
  BY DEF IInv, run_test_idle, TypeOK, HaltedExact, CommandInv, Stage, InCommand,
         RomPcs, InRom, hartVars, flagVars, dmVars, history, NONE
<1>4. QED
  BY <1>1, <1>2, <1>3 DEF IInv

\* The debugger clears an error after the command.
LEMMA dmi_write_abstractcs_inv ==
  ASSUME IInv,
         NEW bits \in (SUBSET {0, 1, 2}) \ {{}}, ~busy, dmi_write_abstractcs(bits)
  PROVE  IInv'
<1>1. TypeOK'
  BY DEF IInv, dmi_write_abstractcs, TypeOK, hartVars, flagVars, dmVars, NONE
<1>2. HaltedExact'
  BY DEF IInv, dmi_write_abstractcs, TypeOK, HaltedExact, RomPcs, InRom, hartVars,
         flagVars, dmVars
<1>3. CommandInv'
  BY DEF IInv, dmi_write_abstractcs, TypeOK, HaltedExact, CommandInv, Stage,
         InCommand, RomPcs, InRom, hartVars, flagVars, dmVars, NONE
<1>4. QED
  BY <1>1, <1>2, <1>3 DEF IInv

\* The halt group of the selected hart.
LEMMA dmi_write_dmcs2_inv ==
  ASSUME IInv,
         NEW g \in Groups, ~busy, dmi_write_dmcs2(g)
  PROVE  IInv'
<1>1. TypeOK'
  BY DEF IInv, dmi_write_dmcs2, TypeOK, hartVars, flagVars, dmVars, cmdVars,
         history, NONE
<1>2. HaltedExact'
  BY DEF IInv, dmi_write_dmcs2, TypeOK, HaltedExact, RomPcs, InRom, hartVars,
         flagVars, dmVars, cmdVars, history
<1>3. CommandInv'
  BY DEF IInv, dmi_write_dmcs2, TypeOK, HaltedExact, CommandInv, Stage, InCommand,
         RomPcs, InRom, hartVars, flagVars, dmVars, cmdVars, history, NONE
<1>4. QED
  BY <1>1, <1>2, <1>3 DEF IInv

\* The harts that are available.
LEMMA dmi_write_custom_inv ==
  ASSUME IInv,
         NEW a \in Availability, ~busy, dmi_write_custom(a)
  PROVE  IInv'
<1>1. TypeOK'
  BY DebugModuleAssumption DEF IInv, dmi_write_custom, TypeOK, hartVars, flagVars,
                               dmVars, cmdVars, history, NONE
<1>2. HaltedExact'
  BY DEF IInv, dmi_write_custom, TypeOK, HaltedExact, RomPcs, InRom, hartVars,
         flagVars, dmVars, cmdVars, history
<1>3. CommandInv'
  BY DEF IInv, dmi_write_custom, TypeOK, HaltedExact, CommandInv, Stage, InCommand,
         RomPcs, InRom, hartVars, flagVars, dmVars, cmdVars, history, NONE
<1>4. QED
  BY <1>1, <1>2, <1>3 DEF IInv

\* Halt, resume and reset requests, and the reset of the module, between commands.
LEMMA dmi_write_dmcontrol_inv ==
  ASSUME IInv,
         ~busy,
         NEW active \in BOOLEAN, NEW haltreq \in BOOLEAN, NEW resumereq \in BOOLEAN,
         NEW hartreset \in BOOLEAN, NEW hs \in Harts, NEW sel \in SUBSET Harts,
         dmi_write_dmcontrol(active, hs, sel, haltreq, resumereq, hartreset)
  PROVE  IInv'
<1> USE DEF IInv, dmi_write_dmcontrol, reset, proc_reset, TypeOK
<1>1. TypeOK'
  <2>1. rom' \in [Harts -> RomPcs] /\ halted' \in [Harts -> BOOLEAN]
    BY DEF RomPcs, InRom
  <2>2. haltgroup' \in [Harts -> Groups]
    BY DebugModuleAssumption
  <2>3. resets' \in Nat
    OBVIOUS
  <2>4. halt_request' \in [Harts -> BOOLEAN] /\ resume' \in [Harts -> BOOLEAN]
    OBVIOUS
  <2>5. hartsel' \in Harts /\ dmactive' \in BOOLEAN
    OBVIOUS
  <2>6. busy' \in BOOLEAN /\ raised' \in BOOLEAN /\ cmderr' \subseteq {0, 1, 2}
    BY DEF NONE
  <2>7. QED
    BY <2>1, <2>2, <2>3, <2>4, <2>5, <2>6
<1>2. HaltedExact'
  BY DEF IInv, dmi_write_dmcontrol, reset, proc_reset, TypeOK, HaltedExact, RomPcs,
         InRom
<1>3. CommandInv'
  BY DEF IInv, dmi_write_dmcontrol, reset, proc_reset, TypeOK, HaltedExact,
         CommandInv, Stage, InCommand, RomPcs, InRom, NONE
<1>4. QED
  BY <1>1, <1>2, <1>3 DEF IInv

\* Every step of the harts, of the debugger and of its transport.
LEMMA NextInv == IInv /\ [Next]_vars => IInv'
<1> SUFFICES ASSUME IInv, [Next]_vars PROVE IInv'
  OBVIOUS
<1>1. ASSUME NEW h \in Harts, HartStep(h) \/ Breakpoint(h) PROVE IInv'
  BY <1>1, enter_debug_mode_inv, store_halted_inv, load_flags_inv, store_going_inv,
     run_abstract_inv, store_exception_inv, store_resuming_inv, dret_inv
  DEF HartStep, Breakpoint
<1>2. ASSUME NEW kind \in Kinds, Command(kind) PROVE IInv'
  BY <1>2, perform_abstract_command_inv, dmi_access_data_inv DEF Command, dmi_write_command
<1>3. CASE Configure
  BY <1>3, dmi_write_abstractcs_inv, dmi_write_dmcs2_inv, dmi_write_custom_inv DEF Configure
<1>4. CASE Control
  BY <1>4, dmi_write_dmcontrol_inv DEF Control
<1>5. CASE run_test_idle
  BY <1>5, run_test_idle_inv
<1>6. CASE UNCHANGED vars
  BY <1>6 DEF IInv, TypeOK, HaltedExact, CommandInv, Stage, vars, hartVars, flagVars,
              dmVars, cmdVars, history
<1>7. QED
  BY <1>1, <1>2, <1>3, <1>4, <1>5, <1>6 DEF Next

-----------------------------------------------------------------------------
(* The theorems                                                            *)

\* The inductive invariant: the halted bits, and the stage of the command.
THEOREM DebugInvariant == Spec => []IInv
  BY InitInv, NextInv, PTL DEF Spec

\* The state of the debug module stays in its types.
THEOREM DebugTypeOK == Spec => []TypeOK
<1>1. IInv => TypeOK
  BY DEF IInv
<1>2. QED
  BY <1>1, DebugInvariant, PTL

\* The halted bits say which harts are in the debug ROM.
THEOREM DebugHaltedExact == Spec => []HaltedExact
<1>1. IInv => HaltedExact
  BY DEF IInv
<1>2. QED
  BY <1>1, DebugInvariant, PTL

\* busy is clear only when the last command has been run exactly once.
THEOREM DebugCommandRanOnce == Spec => []CommandRanOnce
<1>1. IInv => CommandRanOnce
  BY DEF IInv, CommandInv, CommandRanOnce, InCommand
<1>2. QED
  BY <1>1, DebugInvariant, PTL

\* A command that trapped is reported before busy clears.
THEOREM DebugExceptionReported == Spec => []ExceptionReported
<1>1. IInv => ExceptionReported
  BY DEF IInv, CommandInv, ExceptionReported
<1>2. QED
  BY <1>1, DebugInvariant, PTL

\* No step replaces an error: it stays or is cleared.
THEOREM DebugCmdErrSticky == Spec => CmdErrSticky
<1>1. ASSUME [Next]_vars, cmderr # NONE PROVE cmderr' \subseteq cmderr
  <2>1. ASSUME NEW h \in Harts, HartStep(h) \/ Breakpoint(h) PROVE cmderr' \subseteq cmderr
    BY <1>1, <2>1
    DEF HartStep, Breakpoint, enter_debug_mode, store_halted, load_flags, store_going,
        run_abstract, store_exception, store_resuming, dret, cmdVars
  <2>2. ASSUME NEW kind \in Kinds, Command(kind) PROVE cmderr' \subseteq cmderr
    BY <1>1, <2>2
    DEF Command, dmi_write_command, dmi_access_data, perform_abstract_command
  <2>3. CASE Configure
    BY <2>3 DEF Configure, dmi_write_abstractcs, dmi_write_dmcs2, dmi_write_custom, cmdVars
  <2>4. CASE Control
    BY <2>4 DEF Control, dmi_write_dmcontrol, reset, NONE
  <2>5. CASE run_test_idle
    BY <2>5 DEF run_test_idle
  <2>6. CASE UNCHANGED vars
    BY <2>6 DEF vars, cmdVars
  <2>7. QED
    BY <1>1, <2>1, <2>2, <2>3, <2>4, <2>5, <2>6 DEF Next
<1>2. QED
  BY <1>1, PTL DEF Spec, CmdErrSticky

=============================================================================
