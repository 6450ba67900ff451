------------------------------ MODULE JtagDtm -------------------------------
(***************************************************************************)
(* The JTAG debug transport jtag_dtm_t (riscv/jtag_dtm.cc): the TAP state  *)
(* machine and the registers behind it.                                    *)
(*                                                                         *)
(* Registers are shortened to what the properties tell apart: an IR has 2  *)
(* bits, the DMI register 2 bits of operation and 2 bits that stand for    *)
(* address and data, DTMCONTROL the bits dmireset and dmihardreset.        *)
(***************************************************************************)
EXTENDS Integers, Sequences

CONSTANT RequiredRti   \* required_rti_cycles

ASSUME JtagAssumption == RequiredRti \in Nat

VARIABLES
    tck, tms, tdi, tdo,        \* the pins as last set
    state,                     \* _state
    ir, dr, dr_length, bypass,
    dmi,                       \* the result of the last operation
    rti_remaining, busy_stuck

tapVars == <<tck, tms, tdi, tdo, state, ir, dr, dr_length, bypass, dmi,
             rti_remaining, busy_stuck>>

IR_IDCODE     == 0
IR_BYPASS     == 1
IR_DTMCONTROL == 2
IR_DBUS       == 3
IrLength      == 2

DTMCONTROL_DMIRESET     == 1
DTMCONTROL_DMIHARDRESET == 2
idcode == 1
dtmcontrol == 0   \* version and abits are in the bits left out

DmiLength == 4
SUCCESS == 0
FAILED  == 2
BUSY    == 3
NOP     == 0
READ    == 1
WRITE   == 2

DmiOp(word)    == word % 4
DmiArg(word)   == word \div 4
Dmi(op, arg)   == (4 * arg) + op

\* The table of set_pins: the next state on TMS 0 and on TMS 1.
NextState ==
    [ test_logic_reset |-> <<"run_test_idle", "test_logic_reset">>,
      run_test_idle    |-> <<"run_test_idle", "select_dr_scan">>,
      select_dr_scan   |-> <<"capture_dr", "select_ir_scan">>,
      capture_dr       |-> <<"shift_dr", "exit1_dr">>,
      shift_dr         |-> <<"shift_dr", "exit1_dr">>,
      exit1_dr         |-> <<"pause_dr", "update_dr">>,
      pause_dr         |-> <<"pause_dr", "exit2_dr">>,
      exit2_dr         |-> <<"shift_dr", "update_dr">>,
      update_dr        |-> <<"run_test_idle", "select_dr_scan">>,
      select_ir_scan   |-> <<"capture_ir", "test_logic_reset">>,
      capture_ir       |-> <<"shift_ir", "exit1_ir">>,
      shift_ir         |-> <<"shift_ir", "exit1_ir">>,
      exit1_ir         |-> <<"pause_ir", "update_ir">>,
      pause_ir         |-> <<"pause_ir", "exit2_ir">>,
      exit2_ir         |-> <<"shift_ir", "update_ir">>,
      update_ir        |-> <<"run_test_idle", "select_dr_scan">> ]

\* The constructor sets neither ir, dr and dr_length nor rti_remaining and
\* busy_stuck: the last two matter before reset() was called.
TapInit ==
    /\ tck = 0 /\ tms = 0 /\ tdi = 0 /\ tdo = 0
    /\ state = "test_logic_reset"
    /\ ir \in {IR_IDCODE, IR_DBUS} /\ dr = 0 /\ dr_length = 1 /\ bypass = 0
    /\ dmi = 0
    /\ rti_remaining \in {0, RequiredRti + 1} /\ busy_stuck \in BOOLEAN

reset ==
    /\ state' = "test_logic_reset" /\ busy_stuck' = FALSE
    /\ rti_remaining' = 0 /\ dmi' = 0
    /\ UNCHANGED <<tck, tms, tdi, tdo, ir, dr, dr_length, bypass>>

-----------------------------------------------------------------------------

Shifted(reg, length) == (reg \div 2) + (tdi * 2 ^ (length - 1))

\* The rising edge shifts and moves, by the pins of the call before it.
rising_edge ==
    /\ state' = NextState[state][tms + 1]
    /\ dr' = IF state = "shift_dr" THEN Shifted(dr, dr_length) ELSE dr
    /\ ir' = IF state = "shift_ir" THEN Shifted(ir, IrLength) ELSE ir
    /\ UNCHANGED <<tdo, dr_length, bypass, dmi, rti_remaining, busy_stuck>>

\* Mutant: busy is reported but does not stick.
capture_dr_mut ==
    /\ dr' = CASE ir = IR_IDCODE -> idcode
               [] ir = IR_DTMCONTROL -> dtmcontrol
               [] ir = IR_BYPASS -> bypass
               [] ir = IR_DBUS -> IF rti_remaining > 0 THEN BUSY ELSE dmi
    /\ dr_length' = CASE ir = IR_BYPASS -> 1 [] ir = IR_DBUS -> DmiLength [] OTHER -> 2
    /\ UNCHANGED busy_stuck

\* Busy is reported if the idle cycles of the last access are not over, and
\* goes on being reported until dmireset.
capture_dr ==
    LET isBusy == ir = IR_DBUS /\ (rti_remaining > 0 \/ busy_stuck)
    IN  /\ dr' = CASE ir = IR_IDCODE -> idcode
                   [] ir = IR_DTMCONTROL -> dtmcontrol
                   [] ir = IR_BYPASS -> bypass
                   [] ir = IR_DBUS -> IF isBusy THEN BUSY ELSE dmi
        /\ dr_length' = CASE ir = IR_BYPASS -> 1 [] ir = IR_DBUS -> DmiLength [] OTHER -> 2
        /\ busy_stuck' = (busy_stuck \/ isBusy)

\* Mutant: a scan that was answered with busy is carried out all the same.
Performs_mut == state = "update_dr" /\ ir = IR_DBUS

\* Whether the falling edge carries out a DMI operation.
Performs == state = "update_dr" /\ ir = IR_DBUS /\ ~busy_stuck

\* Mutant: the data that was read does not reach the result.
Result_mut(ok, value) == Dmi(IF ok THEN SUCCESS ELSE FAILED, DmiArg(dr))

\* The value of dmi after the operation in dr.
Result(ok, value) ==
    Dmi(IF ok THEN SUCCESS ELSE FAILED,
        IF DmiOp(dr) = READ /\ ok THEN value ELSE DmiArg(dr))

\* Mutant: dmireset is not looked at.
Stuck_mut(hard) == busy_stuck /\ ~hard

\* busy_stuck after a write of DTMCONTROL.
Stuck(hard) == busy_stuck /\ ~hard /\ dr % 2 # DTMCONTROL_DMIRESET

\* update_dr; ok and value are what the debug module answers to the scan.
update_dr(ok, value) ==
    \/ /\ Performs
       /\ dmi' = Result(ok, value)
       /\ rti_remaining' = RequiredRti
       /\ UNCHANGED <<state, bypass, busy_stuck>>
    \/ /\ ir = IR_DTMCONTROL
       /\ LET hard == dr \div DTMCONTROL_DMIHARDRESET = 1
          IN  /\ busy_stuck' = Stuck(hard)
              /\ state' = IF hard THEN "test_logic_reset" ELSE state
              /\ rti_remaining' = IF hard THEN 0 ELSE rti_remaining
              /\ dmi' = IF hard THEN 0 ELSE dmi
       /\ UNCHANGED bypass
    \/ /\ ir = IR_BYPASS /\ bypass' = dr
       /\ UNCHANGED <<state, dmi, rti_remaining, busy_stuck>>
    \/ /\ ir = IR_IDCODE \/ (ir = IR_DBUS /\ busy_stuck)
       /\ UNCHANGED <<state, bypass, dmi, rti_remaining, busy_stuck>>

\* Every call that is not a rising edge acts on the state the TAP is in.
falling_edge(ok, value) ==
    \/ /\ state = "run_test_idle"
       /\ rti_remaining' = IF rti_remaining > 0 THEN rti_remaining - 1 ELSE 0
       /\ UNCHANGED <<state, tdo, ir, dr, dr_length, bypass, dmi, busy_stuck>>
    \/ /\ state = "test_logic_reset" /\ ir' = IR_IDCODE
       /\ UNCHANGED <<state, tdo, dr, dr_length, bypass, dmi, rti_remaining, busy_stuck>>
    \/ /\ state = "capture_dr" /\ capture_dr
       /\ UNCHANGED <<state, tdo, ir, bypass, dmi, rti_remaining>>
    \/ /\ state \in {"shift_dr", "shift_ir"}
       /\ tdo' = (IF state = "shift_dr" THEN dr ELSE ir) % 2
       /\ UNCHANGED <<state, ir, dr, dr_length, bypass, dmi, rti_remaining, busy_stuck>>
    \/ /\ state = "update_dr" /\ update_dr(ok, value)
       /\ UNCHANGED <<tdo, ir, dr, dr_length>>
    \/ /\ state \notin {"run_test_idle", "test_logic_reset", "capture_dr", "shift_dr",
                        "shift_ir", "update_dr"}
       /\ UNCHANGED <<state, tdo, ir, dr, dr_length, bypass, dmi, rti_remaining, busy_stuck>>

Rises(c) == tck = 0 /\ c = 1

set_pins(c, s, i, ok, value) ==
    /\ IF Rises(c) THEN rising_edge ELSE falling_edge(ok, value)
    /\ tck' = c /\ tms' = s /\ tdi' = i
=============================================================================
