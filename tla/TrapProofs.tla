----------------------------- MODULE TrapProofs -----------------------------
(***************************************************************************)
(* Proofs about TrapHandlers for every delegation setting and depth of     *)
(* nesting: the double trap bits, critical errors, the isolation of the    *)
(* host from its guest, the level that takes an interrupt, and that every  *)
(* return finds the context that was interrupted.                          *)
(***************************************************************************)
EXTENDS TrapHandlers, SequenceTheorems, TLAPS

\* What a handler saves; a supervisor's previous mode is U or S.
Frame  == [epc : Pcs \ {"boot"}, pie : BOOLEAN, pp : {U, S, M}, pv : BOOLEAN]
SFrame == [epc : Pcs \ {"boot"}, pie : BOOLEAN, pp : {U, S}, pv : BOOLEAN]

FramesOK ==
    /\ frames \in [Levels -> Seq(Frame)]
    /\ frames["HS"] \in Seq(SFrame) /\ frames["VS"] \in Seq(SFrame)

\* An SDT bit that a DTE bit hides is not set: a return could not clear it.
HiddenClear ==
    /\ ~config.menvcfg_dte => ~mstatus.SDT
    /\ ~henvcfg_dte => ~vsstatus.SDT

\* Only M mode boots, with double traps caught if they can be, so that boot
\* code is never a place to return to other than from debug mode.
Booting ==
    /\ pc = "boot" => prv = M /\ ~mstatus.MIE /\ mstatus.MDT = config.smdbltrp
    /\ dpc = "boot" => /\ debug_mode /\ dcsr.prv = M
                       /\ ~mstatus.MIE /\ mstatus.MDT = config.smdbltrp
    /\ \A l \in Levels : epc[l] # "boot"

\* Debug mode executes its ROM, as M mode; M mode is never virtual.
DebugOK ==
    /\ debug_mode => prv = M /\ pc \in {"rom", "rom_tvec"}
    /\ prv = M => ~v

Inv == TypeOK /\ FramesOK /\ DoubleTrapBits /\ HiddenClear /\ Booting /\ DebugOK

-----------------------------------------------------------------------------
(* The status registers                                                    *)

\* A write of mstatus keeps every field but masks MDT, and the double trap
\* bits clear the enable bits.
LEMMA MstatusWrite ==
    ASSUME config \in Config, NEW val \in Mstatus
    PROVE  LET r == mstatus_write(val)
           IN  /\ r \in Mstatus
               /\ r.SDT = val.SDT /\ r.SPP = val.SPP /\ r.MPP = val.MPP
               /\ r.MDT = (val.MDT /\ config.smdbltrp)
               /\ r.MIE = (val.MIE /\ ~r.MDT)
               /\ r.SIE = (val.SIE /\ ~r.SDT)
  BY DEF mstatus_write, Mstatus, Config

\* A write of sstatus reaches SDT only if menvcfg.DTE is set.
LEMMA SstatusWrite ==
    ASSUME config \in Config, NEW old \in Mstatus, NEW val \in Supervisor
    PROVE  LET r == sstatus_write(old, val)
           IN  /\ r \in Mstatus
               /\ r.SDT = (IF config.menvcfg_dte THEN val.SDT ELSE old.SDT)
               /\ r.MDT = (old.MDT /\ config.smdbltrp)
               /\ r.MIE = (old.MIE /\ ~r.MDT)
               /\ r.SIE = (val.SIE /\ ~r.SDT)
  <1> DEFINE new == [old EXCEPT !.SIE = val.SIE, !.SPIE = val.SPIE, !.SPP = val.SPP,
                                !.SDT = IF config.menvcfg_dte THEN val.SDT ELSE @]
  <1>1. /\ new \in Mstatus /\ new.MDT = old.MDT /\ new.MIE = old.MIE /\ new.SIE = val.SIE
        /\ new.SDT = (IF config.menvcfg_dte THEN val.SDT ELSE old.SDT)
    BY DEF Mstatus, Supervisor, Config
  <1> HIDE DEF new
  <1>2. QED  BY <1>1, MstatusWrite DEF sstatus_write, new

\* A write of vsstatus reaches SDT only if both DTE bits are set.
LEMMA VsstatusWrite ==
    ASSUME config \in Config, NEW old \in Supervisor, NEW val \in Supervisor
    PROVE  LET r == vsstatus_write(old, val)
           IN  /\ r \in Supervisor
               /\ r.SDT = (IF henvcfg_dte THEN val.SDT ELSE old.SDT)
               /\ r.SIE = (val.SIE /\ ~r.SDT)
  BY DEF vsstatus_write, Supervisor, Config, henvcfg_dte

LEMMA ReadsTyped ==
    ASSUME config \in Config, mstatus \in Mstatus, vsstatus \in Supervisor
    PROVE  /\ sstatus_read \in Supervisor /\ vsstatus_read \in Supervisor
           /\ henvcfg_dte \in BOOLEAN
           /\ sstatus_read.SDT = (mstatus.SDT /\ config.menvcfg_dte)
           /\ vsstatus_read.SDT = (vsstatus.SDT /\ henvcfg_dte)
  BY DEF sstatus_read, vsstatus_read, henvcfg_dte, Mstatus, Supervisor, Config

-----------------------------------------------------------------------------
(* The invariant                                                           *)

LEMMA InitInv == Init => Inv
  <1> SUFFICES ASSUME Init PROVE Inv
    OBVIOUS
  <1> USE TrapAssumption
  <1>1. TypeOK
    BY DEF Init, TypeOK, Pcs, Mstatus, Supervisor, Config, Levels, U, S, M
  <1>2. FramesOK
    BY DEF Init, FramesOK, Levels
  <1>3. DoubleTrapBits /\ HiddenClear
    BY DEF Init, DoubleTrapBits, HiddenClear
  <1>4. Booting /\ DebugOK
    BY DEF Init, Booting, DebugOK, Levels
  <1>5. QED  BY <1>1, <1>2, <1>3, <1>4 DEF Inv

\* Entering debug mode, on request or for a critical error.
LEMMA EnterDebug ==
    ASSUME Inv, enter_debug_mode, UNCHANGED <<config, mip, frames>>, critical_error' \in BOOLEAN,
           caught' \in BOOLEAN
    PROVE  Inv'
  <1> USE DEF Inv, enter_debug_mode, set_privilege
  <1>1. TypeOK'  BY DEF TypeOK, Pcs, U, S, M
  <1>2. FramesOK'  BY DEF FramesOK
  <1>3. DoubleTrapBits'
    <2>1. prv' = M /\ ~v' /\ mstatus' = mstatus /\ vsstatus' = vsstatus /\ DoubleTrapBits
      OBVIOUS
    <2> HIDE DEF Inv, enter_debug_mode, set_privilege
    <2>2. QED  BY <2>1 DEF DoubleTrapBits, U, M
  <1>4. HiddenClear'  BY DEF HiddenClear, henvcfg_dte
  <1>5. Booting' /\ DebugOK'  BY DEF Booting, DebugOK
  <1>6. QED  BY <1>1, <1>2, <1>3, <1>4, <1>5

\* Nothing that the invariant is about changes but mip,
\* critical_error and the history.
LEMMA Same ==
    ASSUME Inv, mip' \subseteq Interrupts, critical_error' \in BOOLEAN, caught' \in BOOLEAN,
           lost' \in BOOLEAN,
           UNCHANGED <<config, prv, v, debug_mode, pc, mstatus, vsstatus, hstatus, epc, dcsr, dpc,
                       frames>>
    PROVE  Inv'
  <1>1. TypeOK' /\ FramesOK'  BY DEF Inv, TypeOK, FramesOK
  <1>2. DoubleTrapBits' /\ HiddenClear'
    BY DEF Inv, DoubleTrapBits, HiddenClear, henvcfg_dte
  <1>3. Booting' /\ DebugOK'  BY DEF Inv, Booting, DebugOK
  <1>4. QED  BY <1>1, <1>2, <1>3 DEF Inv

LEMMA TrapVs ==
    ASSUME Inv, NEW code, vsdeleg(code), trap_to_vs(code), UNCHANGED <<config, mip, frames, lost>>,
           pc # "boot", ~debug_mode, caught' \in BOOLEAN
    PROVE  Inv'
  <1> DEFINE val == [SIE |-> FALSE, SPIE |-> vsstatus_read.SIE, SPP |-> prv,
                     SDT |-> vsstatus_read.SDT \/ henvcfg_dte]
  <1>1. prv \in {U, S} /\ v = TRUE
    BY DEF Inv, TypeOK, vsdeleg, U, S, M
  <1>2. config \in Config /\ mstatus \in Mstatus /\ vsstatus \in Supervisor
    BY DEF Inv, TypeOK
  <1>3. val \in Supervisor /\ vsstatus_read.SDT = (vsstatus.SDT /\ henvcfg_dte)
    BY <1>1, <1>2, ReadsTyped DEF Supervisor
  <1>4. /\ vsstatus' \in Supervisor
        /\ vsstatus'.SDT = (IF henvcfg_dte THEN val.SDT ELSE vsstatus.SDT)
        /\ vsstatus'.SIE = (val.SIE /\ ~vsstatus'.SDT)
    BY <1>2, <1>3, VsstatusWrite DEF trap_to_vs
  <1> USE DEF Inv, trap_to_vs, set_privilege
  <1>5. TypeOK'  BY <1>1, <1>4 DEF TypeOK, Pcs, Levels, U, S, M
  <1>6. FramesOK'  BY DEF FramesOK
  <1>7. DoubleTrapBits'
    <2>1. prv' = S /\ v' = (TRUE /\ S # M) /\ mstatus' = mstatus
      OBVIOUS
    <2>2. prv # M /\ DoubleTrapBits
      BY <1>1 DEF U, S, M
    <2> HIDE DEF Inv, trap_to_vs, set_privilege
    <2>3. ~vsstatus'.SIE
      BY <1>4
    <2>4. QED  BY <1>1, <2>1, <2>2, <2>3 DEF DoubleTrapBits, U, S, M
  <1>8. HiddenClear'  BY <1>4 DEF HiddenClear, henvcfg_dte
  <1>9. Booting' /\ DebugOK'  BY DEF Booting, DebugOK, TypeOK, Levels, S, M
  <1>10. QED  BY <1>5, <1>6, <1>7, <1>8, <1>9

LEMMA TrapHs ==
    ASSUME Inv, NEW code, hsdeleg(code), trap_to_hs(code), UNCHANGED <<config, mip, frames, lost>>,
           pc # "boot", ~debug_mode, caught' \in BOOLEAN
    PROVE  Inv'
  <1> DEFINE val == [SIE |-> FALSE, SPIE |-> mstatus.SIE, SPP |-> prv,
                     SDT |-> sstatus_read.SDT \/ config.menvcfg_dte]
  <1>1. prv \in {U, S}
    BY DEF Inv, TypeOK, hsdeleg, U, S, M
  <1>2. config \in Config /\ mstatus \in Mstatus /\ vsstatus \in Supervisor
    BY DEF Inv, TypeOK
  <1>3. val \in Supervisor /\ sstatus_read.SDT = (mstatus.SDT /\ config.menvcfg_dte)
    BY <1>1, <1>2, ReadsTyped DEF Supervisor, Mstatus, Config
  <1>4. /\ mstatus' \in Mstatus
        /\ mstatus'.SDT = (IF config.menvcfg_dte THEN val.SDT ELSE mstatus.SDT)
        /\ mstatus'.MDT = (mstatus.MDT /\ config.smdbltrp)
        /\ mstatus'.MIE = (mstatus.MIE /\ ~mstatus'.MDT)
        /\ mstatus'.SIE = (val.SIE /\ ~mstatus'.SDT)
    BY <1>2, <1>3, SstatusWrite DEF trap_to_hs
  <1> USE DEF Inv, trap_to_hs, set_privilege
  <1>5. TypeOK'  BY <1>1, <1>4 DEF TypeOK, Pcs, Levels, U, S, M
  <1>6. FramesOK'  BY DEF FramesOK
  <1>7. DoubleTrapBits'
    <2>1. prv' = S /\ ~v' /\ vsstatus' = vsstatus
      OBVIOUS
    <2>2. prv # M /\ DoubleTrapBits
      BY <1>1 DEF U, S, M
    <2> HIDE DEF Inv, trap_to_hs, set_privilege
    <2>3. ~mstatus'.SIE /\ (mstatus'.MDT => mstatus.MDT) /\ (mstatus'.MIE => ~mstatus'.MDT)
      BY <1>4
    <2>4. QED  BY <2>1, <2>2, <2>3 DEF DoubleTrapBits, U, S, M
  <1>8. HiddenClear'  BY <1>4 DEF HiddenClear, henvcfg_dte
  <1>9. Booting' /\ DebugOK'  BY DEF Booting, DebugOK, TypeOK, Levels, S, M
  <1>10. QED  BY <1>5, <1>6, <1>7, <1>8, <1>9

LEMMA TrapM ==
    ASSUME Inv, NEW code, trap_to_m(code), UNCHANGED <<config, mip, frames, lost>>,
           pc = "boot" => config.smdbltrp, ~debug_mode, caught' \in BOOLEAN
    PROVE  Inv'
  <1>1. CASE config.smdbltrp /\ mstatus.MDT
    <2>1. /\ critical_error' \in BOOLEAN
          /\ UNCHANGED <<prv, v, debug_mode, pc, mstatus, vsstatus, hstatus, epc, dcsr, dpc>>
      BY <1>1 DEF trap_to_m
    <2>2. mip' \subseteq Interrupts /\ lost' \in BOOLEAN
      BY DEF Inv, TypeOK
    <2>3. QED  BY <2>1, <2>2, Same
  <1>2. CASE ~(config.smdbltrp /\ mstatus.MDT)
    <2> DEFINE val == [mstatus EXCEPT !.MDT = config.smdbltrp, !.MPIE = mstatus.MIE, !.MPP = prv,
                                      !.MIE = FALSE, !.MPV = v]
    <2>1. config \in Config /\ mstatus \in Mstatus
      BY DEF Inv, TypeOK
    <2>2. /\ val \in Mstatus /\ val.SDT = mstatus.SDT /\ val.SIE = mstatus.SIE
          /\ val.MIE = FALSE /\ val.MDT = config.smdbltrp
      BY <2>1 DEF Inv, TypeOK, Mstatus, Config
    <2> HIDE DEF val
    <2>3. /\ mstatus' = mstatus_write(val) /\ pc' = "vector" /\ epc' = [epc EXCEPT !["M"] = pc]
          /\ prv' = M /\ v' = FALSE
          /\ UNCHANGED <<vsstatus, hstatus, debug_mode, dcsr, dpc, critical_error>>
      BY <1>2 DEF trap_to_m, val, set_privilege
    <2>4. /\ mstatus' \in Mstatus
          /\ mstatus'.SDT = mstatus.SDT
          /\ mstatus'.MDT = (config.smdbltrp /\ config.smdbltrp)
          /\ mstatus'.MIE = (FALSE /\ ~mstatus'.MDT)
          /\ mstatus'.SIE = (mstatus.SIE /\ ~mstatus'.SDT)
      BY <2>1, <2>2, <2>3, MstatusWrite
    <2>5. pc # "boot" /\ dpc # "boot"
      BY <1>2, <2>1 DEF Inv, Booting, Config
    <2> USE DEF Inv
    <2>6. TypeOK'  BY <2>3, <2>4 DEF TypeOK, Pcs, Levels, M
    <2>7. FramesOK'  BY DEF FramesOK
    <2>8. DoubleTrapBits'
      <3>1. /\ prv' = M /\ ~v' /\ vsstatus' = vsstatus /\ DoubleTrapBits
            /\ ~mstatus'.MIE /\ (mstatus'.SIE => ~mstatus'.SDT)
        BY <2>3, <2>4
      <3> HIDE DEF Inv
      <3>2. QED  BY <3>1 DEF DoubleTrapBits, U, M
    <2>9. HiddenClear'  BY <2>3, <2>4 DEF HiddenClear, henvcfg_dte
    <2>10. Booting' /\ DebugOK'  BY <2>3, <2>5 DEF Booting, DebugOK, TypeOK, Levels
    <2>11. QED  BY <2>6, <2>7, <2>8, <2>9, <2>10
  <1>3. QED  BY <1>1, <1>2

\* A trap of any cause; boot code takes one only where double traps are caught.
LEMMA TakeTrap ==
    ASSUME Inv, NEW code, catch_trap(code), pc = "boot" => config.smdbltrp
    PROVE  Inv'
  <1>0. take_trap(code) /\ UNCHANGED <<config, mip, frames, lost>> /\ caught' = critical_error'
    BY DEF catch_trap
  <1>c. caught' \in BOOLEAN
    BY <1>0 DEF take_trap, trap_to_m, trap_to_hs, trap_to_vs, Inv, TypeOK
  <1>1. CASE debug_mode
    <2> USE <1>0, <1>1 DEF Inv, take_trap
    <2>1. TypeOK'  BY <1>c DEF TypeOK, Pcs
    <2>2. FramesOK' /\ DoubleTrapBits' /\ HiddenClear'
      BY DEF FramesOK, DoubleTrapBits, HiddenClear, henvcfg_dte
    <2>3. Booting' /\ DebugOK'  BY DEF Booting, DebugOK
    <2>4. QED  BY <2>1, <2>2, <2>3
  <1>2. CASE ~debug_mode
    <2>1. vsdeleg(code) \/ hsdeleg(code) => pc # "boot"
      BY DEF Inv, Booting, vsdeleg, hsdeleg, S, M
    <2>2. CASE trap_to_m(code)  BY <1>0, <1>c, <1>2, <2>2, TrapM
    <2>3. CASE vsdeleg(code) /\ trap_to_vs(code)  BY <1>0, <1>c, <1>2, <2>1, <2>3, TrapVs
    <2>4. CASE hsdeleg(code) /\ trap_to_hs(code)  BY <1>0, <1>c, <1>2, <2>1, <2>4, TrapHs
    <2>5. QED  BY <1>0, <1>2, <2>2, <2>3, <2>4 DEF take_trap
  <1>3. QED  BY <1>1, <1>2

-----------------------------------------------------------------------------
(* The software and the returns                                            *)

\* What is left to show when only the status registers, the return addresses,
\* hstatus and the frames change.
LEMMA SameMode ==
    ASSUME Inv, UNCHANGED <<config, prv, v, debug_mode, critical_error, dcsr, dpc, caught, lost>>,
           ~debug_mode, pc' \in {"open", "leave"}, mip' \subseteq Interrupts,
           hstatus' \in [SPV : BOOLEAN], epc' \in [Levels -> Pcs], FramesOK',
           \A l \in Levels : epc'[l] # "boot",
           mstatus' \in Mstatus, mstatus'.SIE => ~mstatus'.SDT, mstatus'.MIE => ~mstatus'.MDT,
           vsstatus' \in Supervisor, vsstatus'.SIE => ~vsstatus'.SDT,
           mstatus'.MDT => mstatus.MDT \/ prv = M,
           mstatus'.SDT => mstatus.SDT \/ (config.menvcfg_dte /\ prv = S /\ ~v),
           vsstatus'.SDT => vsstatus.SDT \/ (henvcfg_dte /\ prv = S)
    PROVE  Inv'
  <1>1. TypeOK'
    BY DEF Inv, TypeOK, Pcs
  <1>2. DoubleTrapBits'
    BY DEF Inv, DoubleTrapBits, U, S
  <1>3. HiddenClear'
    BY DEF Inv, HiddenClear, henvcfg_dte
  <1>4. Booting' /\ DebugOK'
    BY DEF Inv, Booting, DebugOK
  <1>5. QED  BY <1>1, <1>2, <1>3, <1>4 DEF Inv

LEMMA Boot == ASSUME Inv, boot PROVE Inv'
  <1>0. PICK ie \in BOOLEAN, virt \in BOOLEAN :
          /\ mstatus' = mstatus_write([mstatus EXCEPT !.MPIE = ie, !.SIE = ie, !.MPV = virt])
          /\ vsstatus' = vsstatus_write(vsstatus, [vsstatus EXCEPT !.SIE = ie])
    BY Zenon DEF boot
  <1> DEFINE m  == [mstatus EXCEPT !.MPIE = ie, !.SIE = ie, !.MPV = virt]
             vs == [vsstatus EXCEPT !.SIE = ie]
  <1>1. config \in Config /\ mstatus \in Mstatus /\ vsstatus \in Supervisor /\ ~debug_mode
    BY DEF Inv, TypeOK, boot, DebugOK
  <1>2. /\ m \in Mstatus /\ m.SDT = mstatus.SDT /\ m.MDT = mstatus.MDT /\ m.MIE = mstatus.MIE
        /\ vs \in Supervisor /\ vs.SDT = vsstatus.SDT
    BY <1>1 DEF Mstatus, Supervisor
  <1>3. mstatus' = mstatus_write(m) /\ vsstatus' = vsstatus_write(vsstatus, vs)
    BY <1>0
  <1> HIDE DEF m, vs
  <1>4. /\ mstatus' \in Mstatus /\ mstatus'.SDT = mstatus.SDT
        /\ (mstatus'.SIE => ~mstatus'.SDT) /\ (mstatus'.MIE => ~mstatus'.MDT)
        /\ (mstatus'.MDT => mstatus.MDT)
    BY <1>1, <1>2, <1>3, MstatusWrite
  <1>5. /\ vsstatus' \in Supervisor /\ vsstatus'.SDT = vsstatus.SDT
        /\ (vsstatus'.SIE => ~vsstatus'.SDT)
    BY <1>1, <1>2, <1>3, VsstatusWrite
  <1>6. /\ UNCHANGED <<config, prv, v, debug_mode, critical_error, dcsr, dpc, hstatus, epc, mip, frames,
                       caught, lost>>
        /\ pc' \in {"open", "leave"}
    BY DEF boot
  <1>7. /\ mip' \subseteq Interrupts /\ hstatus' \in [SPV : BOOLEAN] /\ epc' \in [Levels -> Pcs]
        /\ FramesOK' /\ \A l \in Levels : epc'[l] # "boot"
    BY <1>6 DEF Inv, TypeOK, FramesOK, Booting
  <1>8. QED  BY <1>1, <1>4, <1>5, <1>6, <1>7, SameMode

LEMMA SavedTyped ==
    ASSUME Inv, NEW l \in Levels
    PROVE  Saved(l) \in Frame /\ (l # "M" => Saved(l) \in SFrame)
  BY DEF Inv, TypeOK, Booting, Saved, Frame, SFrame, Mstatus, Supervisor, Levels

\* Pushing on and popping from a sequence.
LEMMA Stack ==
    ASSUME NEW T, NEW s \in Seq(T)
    PROVE  /\ \A x \in T : <<x>> \o s \in Seq(T)
           /\ s # <<>> => Head(s) \in T /\ Tail(s) \in Seq(T)
  OBVIOUS

LEMMA Save == ASSUME Inv, save PROVE Inv'
  <1> PICK ie \in BOOLEAN : Enable(Level, ie, FALSE)
    BY DEF save
  <1>1. /\ config \in Config /\ mstatus \in Mstatus /\ vsstatus \in Supervisor
        /\ ~debug_mode /\ Level \in Levels
    BY DEF Inv, TypeOK, save
  <1>2. sstatus_read \in Supervisor /\ vsstatus_read \in Supervisor
    BY <1>1, ReadsTyped
  <1>3. /\ mstatus' \in Mstatus /\ (mstatus'.SDT => mstatus.SDT)
        /\ (mstatus'.SIE => ~mstatus'.SDT) /\ (mstatus'.MIE => ~mstatus'.MDT)
        /\ (mstatus'.MDT => mstatus.MDT)
    <2>1. CASE Level = "M"
      <3> DEFINE m == [mstatus EXCEPT !.MIE = ie, !.MDT = FALSE]
      <3>1. m \in Mstatus /\ m.SDT = mstatus.SDT /\ m.MDT = FALSE
        BY <1>1 DEF Mstatus
      <3>2. mstatus' = mstatus_write(m)
        BY <2>1 DEF Enable
      <3> HIDE DEF m
      <3>3. QED  BY <1>1, <3>1, <3>2, MstatusWrite
    <2>2. CASE Level = "HS"
      <3> DEFINE s == [sstatus_read EXCEPT !.SIE = ie, !.SDT = FALSE]
      <3>1. s \in Supervisor /\ s.SDT = FALSE
        BY <1>2 DEF Supervisor
      <3>2. mstatus' = sstatus_write(mstatus, s)
        BY <2>2 DEF Enable
      <3> HIDE DEF s
      <3>3. QED  BY <1>1, <3>1, <3>2, SstatusWrite
    <2>3. CASE Level = "VS"
      BY <1>1, <2>3 DEF Enable, Inv, DoubleTrapBits
    <2>4. QED  BY <1>1, <2>1, <2>2, <2>3 DEF Levels
  <1>4. /\ vsstatus' \in Supervisor /\ (vsstatus'.SDT => vsstatus.SDT)
        /\ (vsstatus'.SIE => ~vsstatus'.SDT)
    <2>1. CASE Level # "VS"
      BY <1>1, <2>1 DEF Enable, Levels, Inv, DoubleTrapBits
    <2>2. CASE Level = "VS"
      <3> DEFINE s == [vsstatus_read EXCEPT !.SIE = ie, !.SDT = FALSE]
      <3>1. s \in Supervisor /\ s.SDT = FALSE
        BY <1>2 DEF Supervisor
      <3>2. vsstatus' = vsstatus_write(vsstatus, s)
        BY <2>2 DEF Enable
      <3> HIDE DEF s
      <3>3. QED  BY <1>1, <3>1, <3>2, VsstatusWrite
    <2>3. QED  BY <2>1, <2>2
  <1>5. /\ UNCHANGED <<config, prv, v, debug_mode, critical_error, dcsr, dpc, hstatus, epc, caught, lost>>
        /\ pc' \in {"open", "leave"}
        /\ frames' = [frames EXCEPT ![Level] = <<Saved(Level)>> \o @]
        /\ mip' = mip \ {Head(waiting).by}
    BY DEF save
  <1>6. FramesOK'
    <2>1. Saved(Level) \in Frame /\ (Level # "M" => Saved(Level) \in SFrame)
      BY <1>1, SavedTyped
    <2>2. /\ <<Saved(Level)>> \o frames[Level] \in Seq(Frame)
          /\ Level # "M" => <<Saved(Level)>> \o frames[Level] \in Seq(SFrame)
      BY <1>1, <2>1, Stack DEF Inv, FramesOK, Levels
    <2>3. QED  BY <1>1, <1>5, <2>2 DEF Inv, FramesOK, Levels
  <1>7. /\ mip' \subseteq Interrupts /\ hstatus' \in [SPV : BOOLEAN] /\ epc' \in [Levels -> Pcs]
        /\ \A l \in Levels : epc'[l] # "boot"
    BY <1>5 DEF Inv, TypeOK, Booting
  <1>8. QED  BY <1>1, <1>3, <1>4, <1>5, <1>6, <1>7, SameMode

LEMMA Restore == ASSUME Inv, restore PROVE Inv'
  <1> DEFINE f == Head(frames[Level])
  <1>1. /\ config \in Config /\ mstatus \in Mstatus /\ vsstatus \in Supervisor
        /\ ~debug_mode /\ Level \in Levels /\ frames[Level] # <<>>
    BY DEF Inv, TypeOK, restore
  <1>2. /\ f \in Frame /\ Tail(frames[Level]) \in Seq(Frame)
        /\ Level # "M" => f \in SFrame /\ Tail(frames[Level]) \in Seq(SFrame)
    BY <1>1, Stack DEF Inv, FramesOK, Levels
  <1>3. /\ UNCHANGED <<config, prv, v, debug_mode, critical_error, dcsr, dpc, mip, caught, lost>>
        /\ pc' \in {"open", "leave"}
        /\ frames' = [frames EXCEPT ![Level] = Tail(@)]
        /\ epc' = [epc EXCEPT ![Level] = f.epc]
        /\ hstatus' = IF Level = "HS" THEN [hstatus EXCEPT !.SPV = f.pv] ELSE hstatus
    BY DEF restore
  <1> HIDE DEF f
  <1>4. /\ mstatus' \in Mstatus
        /\ (mstatus'.SIE => ~mstatus'.SDT) /\ (mstatus'.MIE => ~mstatus'.MDT)
        /\ (mstatus'.MDT => mstatus.MDT \/ prv = M)
        /\ (mstatus'.SDT => mstatus.SDT \/ (config.menvcfg_dte /\ prv = S /\ ~v))
    <2>1. CASE Level = "M"
      <3> DEFINE m == [mstatus EXCEPT !.MIE = FALSE, !.MDT = TRUE, !.MPIE = f.pie, !.MPP = f.pp,
                                      !.MPV = f.pv]
      <3>1. m \in Mstatus /\ m.SDT = mstatus.SDT
        BY <1>1, <1>2 DEF Mstatus, Frame
      <3>2. mstatus' = mstatus_write(m) /\ prv = M
        BY <2>1 DEF restore, f, Level
      <3> HIDE DEF m
      <3>3. QED  BY <1>1, <3>1, <3>2, MstatusWrite
    <2>2. CASE Level = "HS"
      <3> DEFINE s == [SIE |-> FALSE, SDT |-> TRUE, SPIE |-> f.pie, SPP |-> f.pp]
      <3>1. s \in Supervisor
        BY <1>2, <2>2 DEF Supervisor, SFrame
      <3>2. mstatus' = sstatus_write(mstatus, s)
        BY <2>2 DEF restore, f
      <3>3. prv = S /\ ~v
        BY <2>2 DEF Inv, TypeOK, Level
      <3> HIDE DEF s
      <3>4. QED  BY <1>1, <3>1, <3>2, <3>3, SstatusWrite
    <2>3. CASE Level = "VS"
      <3>1. mstatus' = mstatus
        BY <2>3 DEF restore
      <3>2. QED  BY <1>1, <3>1 DEF Inv, DoubleTrapBits
    <2>4. QED  BY <1>1, <2>1, <2>2, <2>3 DEF Levels
  <1>5. /\ vsstatus' \in Supervisor /\ (vsstatus'.SIE => ~vsstatus'.SDT)
        /\ (vsstatus'.SDT => vsstatus.SDT \/ (henvcfg_dte /\ prv = S))
    <2>1. CASE Level # "VS"
      <3>1. vsstatus' = vsstatus
        BY <2>1 DEF restore
      <3>2. QED  BY <1>1, <3>1 DEF Inv, DoubleTrapBits
    <2>2. CASE Level = "VS"
      <3> DEFINE s == [SIE |-> FALSE, SDT |-> TRUE, SPIE |-> f.pie, SPP |-> f.pp]
      <3>1. s \in Supervisor
        BY <1>2, <2>2 DEF Supervisor, SFrame
      <3>2. vsstatus' = vsstatus_write(vsstatus, s)
        BY <2>2 DEF restore, f
      <3>3. prv = S
        BY <2>2 DEF Inv, TypeOK, Level
      <3> HIDE DEF s
      <3>4. QED  BY <1>1, <3>1, <3>2, <3>3, VsstatusWrite
    <2>3. QED  BY <2>1, <2>2
  <1>6. FramesOK'
    BY <1>1, <1>2, <1>3 DEF Inv, FramesOK, Levels
  <1>7. /\ mip' \subseteq Interrupts /\ hstatus' \in [SPV : BOOLEAN] /\ epc' \in [Levels -> Pcs]
        /\ \A l \in Levels : epc'[l] # "boot"
    BY <1>1, <1>2, <1>3 DEF Inv, TypeOK, Booting, Frame
  <1>8. QED  BY <1>1, <1>3, <1>4, <1>5, <1>6, <1>7, SameMode

LEMMA Abandon == ASSUME Inv, abandon PROVE Inv'
  <1>0. PICK virt \in BOOLEAN :
          mstatus' = mstatus_write([mstatus EXCEPT !.MIE = FALSE, !.MDT = TRUE,
                                        !.MPIE = TRUE, !.MPP = U, !.MPV = virt])
    BY Zenon DEF abandon
  <1> DEFINE m == [mstatus EXCEPT !.MIE = FALSE, !.MDT = TRUE, !.MPIE = TRUE, !.MPP = U, !.MPV = virt]
  <1>1. /\ config \in Config /\ mstatus \in Mstatus /\ vsstatus \in Supervisor
        /\ ~debug_mode /\ prv = M
    BY DEF Inv, TypeOK, abandon, Level
  <1>2. m \in Mstatus /\ m.SDT = mstatus.SDT
    BY <1>1 DEF Mstatus
  <1>3. mstatus' = mstatus_write(m)
    BY <1>0
  <1> HIDE DEF m
  <1>4. /\ mstatus' \in Mstatus /\ mstatus'.SDT = mstatus.SDT
        /\ (mstatus'.SIE => ~mstatus'.SDT) /\ (mstatus'.MIE => ~mstatus'.MDT)
    BY <1>1, <1>2, <1>3, MstatusWrite
  <1>5. /\ UNCHANGED <<config, prv, v, debug_mode, critical_error, dcsr, dpc, hstatus, vsstatus, mip,
                       caught, lost>>
        /\ pc' \in {"open", "leave"}
        /\ frames' = [l \in Levels |-> <<>>]
        /\ epc' = [l \in Levels |-> IF l = "M" THEN "main" ELSE "none"]
    BY DEF abandon
  <1>6. /\ mip' \subseteq Interrupts /\ hstatus' \in [SPV : BOOLEAN] /\ epc' \in [Levels -> Pcs]
        /\ FramesOK' /\ \A l \in Levels : epc'[l] # "boot"
    BY <1>5 DEF Inv, TypeOK, FramesOK, Pcs, Levels
  <1>7. vsstatus' \in Supervisor /\ (vsstatus'.SIE => ~vsstatus'.SDT) /\ vsstatus'.SDT = vsstatus.SDT
    BY <1>1, <1>5 DEF Inv, DoubleTrapBits
  <1>8. QED  BY <1>1, <1>4, <1>5, <1>6, <1>7, SameMode

\* What is left to show of a return to mode p, virtual or not.
LEMMA Returned ==
    ASSUME Inv, UNCHANGED <<config, critical_error, mip, frames, caught, lost>>,
           NEW p \in {U, S, M}, NEW virt \in BOOLEAN, set_privilege(p, virt),
           ~debug_mode', pc' \in Pcs, dpc' \in Pcs, dpc' # "boot",
           pc' = "boot" => p = M /\ ~mstatus'.MIE /\ mstatus'.MDT = config.smdbltrp,
           hstatus' \in [SPV : BOOLEAN], dcsr' \in [prv : {U, S, M}, v : BOOLEAN],
           epc' \in [Levels -> Pcs], \A l \in Levels : epc'[l] # "boot",
           mstatus' \in Mstatus, mstatus'.SIE => ~mstatus'.SDT, mstatus'.MIE => ~mstatus'.MDT,
           vsstatus' \in Supervisor, vsstatus'.SIE => ~vsstatus'.SDT,
           mstatus'.MDT => p = M,
           mstatus'.SDT => mstatus.SDT /\ p # U /\ (virt => p = M),
           vsstatus'.SDT => vsstatus.SDT /\ ~(p = U /\ virt),
           debug_mode' \in BOOLEAN
    PROVE  Inv'
  <1>1. prv' = p /\ v' = (virt /\ p # M)
    BY DEF set_privilege
  <1>2. TypeOK'
    BY <1>1 DEF Inv, TypeOK
  <1>3. FramesOK'
    BY DEF Inv, FramesOK
  <1>4. DoubleTrapBits'
    BY <1>1 DEF DoubleTrapBits, U, M
  <1>5. HiddenClear'
    BY DEF Inv, HiddenClear, henvcfg_dte
  <1>6. Booting' /\ DebugOK'
    BY <1>1 DEF Booting, DebugOK
  <1>7. QED  BY <1>2, <1>3, <1>4, <1>5, <1>6 DEF Inv

\* The SDT of a guest after a return to mode p.
LEMMA GuestReturn ==
    ASSUME Inv, NEW p \in {U, S, M}, NEW virt \in BOOLEAN,
           vsstatus' = IF virt /\ p = U
                       THEN vsstatus_write(vsstatus, [vsstatus_read EXCEPT !.SDT = FALSE])
                       ELSE vsstatus
    PROVE  /\ vsstatus' \in Supervisor /\ (vsstatus'.SIE => ~vsstatus'.SDT)
           /\ (vsstatus'.SDT => vsstatus.SDT /\ ~(p = U /\ virt))
  <1> DEFINE s == [vsstatus_read EXCEPT !.SDT = FALSE]
  <1>1. config \in Config /\ mstatus \in Mstatus /\ vsstatus \in Supervisor
    BY DEF Inv, TypeOK
  <1>2. s \in Supervisor /\ s.SDT = FALSE
    BY <1>1, ReadsTyped DEF Supervisor
  <1>3. ~henvcfg_dte => ~vsstatus.SDT
    BY DEF Inv, HiddenClear
  <1>4. CASE virt /\ p = U
    <2>1. vsstatus' = vsstatus_write(vsstatus, s)
      BY <1>4
    <2> HIDE DEF s
    <2>2. QED  BY <1>1, <1>2, <1>3, <2>1, VsstatusWrite
  <1>5. CASE ~(virt /\ p = U)
    BY <1>1, <1>5 DEF Inv, DoubleTrapBits
  <1>6. QED  BY <1>4, <1>5

LEMMA ForgetTyped ==
    ASSUME Inv, NEW l \in Levels
    PROVE  Forget(l) \in [Levels -> Pcs] /\ \A k \in Levels : Forget(l)[k] # "boot"
  BY DEF Inv, TypeOK, Booting, Forget, Pcs

LEMMA Mret == ASSUME Inv, mret PROVE Inv'
  <1> DEFINE p == mstatus.MPP
             virt == mstatus.MPV
             m == [mstatus EXCEPT
                     !.MIE = mstatus.MPIE, !.MPIE = TRUE, !.MPP = U, !.MPV = FALSE, !.MDT = FALSE,
                     !.SDT = @ /\ ~(p = U \/ (virt /\ p # M))]
  <1>1. /\ config \in Config /\ mstatus \in Mstatus /\ vsstatus \in Supervisor
        /\ p \in {U, S, M} /\ virt \in BOOLEAN /\ "M" \in Levels
    BY DEF Inv, TypeOK, Mstatus, Levels
  <1>2. /\ mstatus' = mstatus_write(m)
        /\ vsstatus' = IF virt /\ p = U
                       THEN vsstatus_write(vsstatus, [vsstatus_read EXCEPT !.SDT = FALSE])
                       ELSE vsstatus
        /\ set_privilege(p, virt) /\ pc' = epc["M"] /\ epc' = Forget("M") /\ ~debug_mode
        /\ UNCHANGED <<config, debug_mode, critical_error, hstatus, dcsr, dpc, mip, frames,
                       caught, lost>>
    BY DEF mret
  <1>3. /\ m \in Mstatus /\ m.MDT = FALSE
        /\ m.SDT = (mstatus.SDT /\ ~(p = U \/ (virt /\ p # M)))
    BY <1>1 DEF Mstatus, U
  <1> HIDE DEF p, virt, m
  <1>4. /\ mstatus' \in Mstatus /\ (mstatus'.SIE => ~mstatus'.SDT) /\ (mstatus'.MIE => ~mstatus'.MDT)
        /\ ~mstatus'.MDT /\ (mstatus'.SDT => mstatus.SDT /\ p # U /\ (virt => p = M))
    BY <1>1, <1>2, <1>3, MstatusWrite
  <1>5. /\ vsstatus' \in Supervisor /\ (vsstatus'.SIE => ~vsstatus'.SDT)
        /\ (vsstatus'.SDT => vsstatus.SDT /\ ~(p = U /\ virt))
    BY <1>1, <1>2, GuestReturn
  <1>6. epc' \in [Levels -> Pcs] /\ \A l \in Levels : epc'[l] # "boot"
    BY <1>1, <1>2, ForgetTyped
  <1>7. /\ ~debug_mode' /\ debug_mode' \in BOOLEAN /\ pc' \in Pcs /\ pc' # "boot"
        /\ dpc' \in Pcs /\ dpc' # "boot"
        /\ hstatus' \in [SPV : BOOLEAN] /\ dcsr' \in [prv : {U, S, M}, v : BOOLEAN]
    BY <1>1, <1>2 DEF Inv, TypeOK, Booting
  <1>8. QED  BY <1>1, <1>2, <1>4, <1>5, <1>6, <1>7, Returned

LEMMA SretVs == ASSUME Inv, sret_vs PROVE Inv'
  <1> DEFINE p == vsstatus.SPP
             s == [SIE |-> vsstatus.SPIE, SPIE |-> TRUE, SPP |-> U, SDT |-> FALSE]
  <1>1. /\ config \in Config /\ mstatus \in Mstatus /\ vsstatus \in Supervisor
        /\ p \in {U, S, M} /\ p # M /\ "VS" \in Levels
    BY DEF Inv, TypeOK, Supervisor, Levels, U, S, M
  <1>2. /\ vsstatus' = vsstatus_write(vsstatus, s)
        /\ set_privilege(p, TRUE) /\ pc' = epc["VS"] /\ epc' = Forget("VS") /\ prv = S /\ v
        /\ UNCHANGED <<config, debug_mode, critical_error, mstatus, hstatus, dcsr, dpc, mip, frames,
                       caught, lost>>
    BY DEF sret_vs
  <1>3. s \in Supervisor /\ s.SDT = FALSE
    BY <1>1 DEF Supervisor
  <1> HIDE DEF p, s
  <1>4. /\ mstatus' \in Mstatus /\ (mstatus'.SIE => ~mstatus'.SDT) /\ (mstatus'.MIE => ~mstatus'.MDT)
        /\ ~mstatus'.MDT /\ ~mstatus'.SDT
    BY <1>1, <1>2 DEF Inv, DoubleTrapBits, S, M
  <1>5. /\ vsstatus' \in Supervisor /\ (vsstatus'.SIE => ~vsstatus'.SDT) /\ ~vsstatus'.SDT
    BY <1>1, <1>2, <1>3, VsstatusWrite DEF Inv, HiddenClear
  <1>6. epc' \in [Levels -> Pcs] /\ \A l \in Levels : epc'[l] # "boot"
    BY <1>1, <1>2, ForgetTyped
  <1>7. /\ ~debug_mode' /\ debug_mode' \in BOOLEAN /\ pc' \in Pcs /\ pc' # "boot"
        /\ dpc' \in Pcs /\ dpc' # "boot"
        /\ hstatus' \in [SPV : BOOLEAN] /\ dcsr' \in [prv : {U, S, M}, v : BOOLEAN]
    BY <1>1, <1>2 DEF Inv, TypeOK, Booting, DebugOK, S, M
  <1>8. QED  BY <1>1, <1>2, <1>4, <1>5, <1>6, <1>7, Returned

LEMMA SretHs == ASSUME Inv, sret_hs PROVE Inv'
  <1> DEFINE p == mstatus.SPP
             virt == hstatus.SPV
             s == [SIE |-> mstatus.SPIE, SPIE |-> TRUE, SPP |-> U, SDT |-> FALSE]
  <1>1. /\ config \in Config /\ mstatus \in Mstatus /\ vsstatus \in Supervisor
        /\ p \in {U, S, M} /\ p # M /\ virt \in BOOLEAN /\ "HS" \in Levels
    BY DEF Inv, TypeOK, Mstatus, Levels, U, S, M
  <1>2. /\ mstatus' = sstatus_write(mstatus, s)
        /\ vsstatus' = IF virt /\ p = U
                       THEN vsstatus_write(vsstatus, [vsstatus_read EXCEPT !.SDT = FALSE])
                       ELSE vsstatus
        /\ set_privilege(p, virt) /\ pc' = epc["HS"] /\ epc' = Forget("HS") /\ prv = S /\ ~v
        /\ hstatus' = [hstatus EXCEPT !.SPV = FALSE]
        /\ UNCHANGED <<config, debug_mode, critical_error, dcsr, dpc, mip, frames,
                       caught, lost>>
    BY DEF sret_hs
  <1>3. s \in Supervisor /\ s.SDT = FALSE
    BY <1>1 DEF Supervisor, Mstatus
  <1> HIDE DEF p, virt, s
  <1>4. ~mstatus.MDT /\ (~config.menvcfg_dte => ~mstatus.SDT)
    BY <1>2 DEF Inv, DoubleTrapBits, HiddenClear, S, M
  <1>5. /\ mstatus' \in Mstatus /\ (mstatus'.SIE => ~mstatus'.SDT) /\ (mstatus'.MIE => ~mstatus'.MDT)
        /\ ~mstatus'.MDT /\ ~mstatus'.SDT
    BY <1>1, <1>2, <1>3, <1>4, SstatusWrite
  <1>6. /\ vsstatus' \in Supervisor /\ (vsstatus'.SIE => ~vsstatus'.SDT)
        /\ (vsstatus'.SDT => vsstatus.SDT /\ ~(p = U /\ virt))
    BY <1>1, <1>2, GuestReturn
  <1>7. epc' \in [Levels -> Pcs] /\ \A l \in Levels : epc'[l] # "boot"
    BY <1>1, <1>2, ForgetTyped
  <1>8. /\ ~debug_mode' /\ debug_mode' \in BOOLEAN /\ pc' \in Pcs /\ pc' # "boot"
        /\ dpc' \in Pcs /\ dpc' # "boot" /\ dcsr' \in [prv : {U, S, M}, v : BOOLEAN]
    BY <1>1, <1>2 DEF Inv, TypeOK, Booting, DebugOK, S, M
  <1>9. hstatus' \in [SPV : BOOLEAN]
    BY <1>2 DEF Inv, TypeOK
  <1>10. QED  BY <1>1, <1>2, <1>5, <1>6, <1>7, <1>8, <1>9, Returned

LEMMA Dret == ASSUME Inv, dret PROVE Inv'
  <1> DEFINE p == dcsr.prv
             virt == dcsr.v
             m == [mstatus EXCEPT !.MDT = mstatus.MDT /\ p = M, !.SDT = mstatus.SDT /\ ~(p = U \/ virt)]
  <1>1. /\ config \in Config /\ mstatus \in Mstatus /\ vsstatus \in Supervisor
        /\ p \in {U, S, M} /\ virt \in BOOLEAN
    BY DEF Inv, TypeOK
  <1>2. /\ mstatus' = mstatus_write(m)
        /\ vsstatus' = IF virt /\ p = U
                       THEN vsstatus_write(vsstatus, [vsstatus_read EXCEPT !.SDT = FALSE])
                       ELSE vsstatus
        /\ set_privilege(p, virt) /\ pc' = dpc /\ debug_mode' = FALSE
        /\ dcsr' = [prv |-> M, v |-> FALSE] /\ dpc' = "none"
        /\ UNCHANGED <<config, critical_error, hstatus, epc, mip, frames,
                       caught, lost>>
    BY DEF dret
  <1>3. /\ m \in Mstatus /\ m.MDT = (mstatus.MDT /\ p = M) /\ m.MIE = mstatus.MIE
        /\ m.SDT = (mstatus.SDT /\ ~(p = U \/ virt))
    BY <1>1 DEF Mstatus
  <1>4. dpc = "boot" => p = M /\ ~mstatus.MIE /\ mstatus.MDT = config.smdbltrp
    BY DEF Inv, Booting
  <1> HIDE DEF p, virt, m
  <1>5. /\ mstatus' \in Mstatus /\ (mstatus'.SIE => ~mstatus'.SDT) /\ (mstatus'.MIE => ~mstatus'.MDT)
        /\ mstatus'.MDT = ((mstatus.MDT /\ p = M) /\ config.smdbltrp)
        /\ mstatus'.MIE = (mstatus.MIE /\ ~mstatus'.MDT)
        /\ mstatus'.SDT = (mstatus.SDT /\ ~(p = U \/ virt))
    BY <1>1, <1>2, <1>3, MstatusWrite
  <1>6. /\ (mstatus'.MDT => p = M)
        /\ (mstatus'.SDT => mstatus.SDT /\ p # U /\ (virt => p = M))
        /\ dpc = "boot" => p = M /\ ~mstatus'.MIE /\ mstatus'.MDT = config.smdbltrp
    BY <1>1, <1>4, <1>5 DEF Config
  <1>7. /\ vsstatus' \in Supervisor /\ (vsstatus'.SIE => ~vsstatus'.SDT)
        /\ (vsstatus'.SDT => vsstatus.SDT /\ ~(p = U /\ virt))
    BY <1>1, <1>2, GuestReturn
  <1>8. /\ ~debug_mode' /\ debug_mode' \in BOOLEAN /\ pc' \in Pcs
        /\ dpc' \in Pcs /\ dpc' # "boot"
        /\ epc' \in [Levels -> Pcs] /\ (\A l \in Levels : epc'[l] # "boot")
        /\ hstatus' \in [SPV : BOOLEAN] /\ dcsr' \in [prv : {U, S, M}, v : BOOLEAN]
    BY <1>1, <1>2 DEF Inv, TypeOK, Booting, Pcs
  <1>9. QED  BY <1>1, <1>2, <1>5, <1>6, <1>7, <1>8, Returned

LEMMA Restart == ASSUME Inv, restart PROVE Inv'
  <1>1. /\ debug_mode /\ dcsr' \in [prv : {U, S, M}, v : BOOLEAN] /\ dpc' = "main"
        /\ frames' = [l \in Levels |-> <<>>] /\ epc' = [l \in Levels |-> "none"]
        /\ UNCHANGED <<config, prv, v, debug_mode, critical_error, pc, mstatus, vsstatus, hstatus, mip,
                       caught>>
        /\ lost' = FALSE
    BY DEF restart
  <1>2. TypeOK'  BY <1>1 DEF Inv, TypeOK, Pcs
  <1>3. FramesOK'  BY <1>1 DEF FramesOK, Levels
  <1>4. DoubleTrapBits' /\ HiddenClear'
    BY <1>1 DEF Inv, DoubleTrapBits, HiddenClear, henvcfg_dte
  <1>5. Booting' /\ DebugOK'  BY <1>1 DEF Inv, Booting, DebugOK
  <1>6. QED  BY <1>2, <1>3, <1>4, <1>5 DEF Inv

LEMMA NextInv == ASSUME Inv, [Next]_vars PROVE Inv'
  <1>1. CASE boot  BY <1>1, Boot
  <1>2. CASE save  BY <1>2, Save
  <1>3. CASE restore  BY <1>3, Restore
  <1>4. CASE abandon  BY <1>4, Abandon
  <1>5. CASE mret  BY <1>5, Mret
  <1>6. CASE sret_vs  BY <1>6, SretVs
  <1>7. CASE sret_hs  BY <1>7, SretHs
  <1>8. CASE dret  BY <1>8, Dret
  <1>9. CASE take_interrupt
    <2>1. pc # "boot"
      BY <1>9 DEF take_interrupt, enabled_interrupts, m_interrupts, hs_interrupts, vs_interrupts,
                  Inv, Booting, DebugOK, S, M
    <2>2. QED  BY <1>9, <2>1, TakeTrap DEF take_interrupt
  <1>10. CASE fault
    <2>1. pc = "boot" => config.smdbltrp
      BY <1>10 DEF fault, MayFault, Level, Inv, Booting
    <2>2. QED  BY <1>10, <2>1, TakeTrap DEF fault
  <1>11. CASE ecall
    BY <1>11, TakeTrap DEF ecall
  <1>12. CASE raise
    <2>1. mip' \subseteq Interrupts
      BY <1>12 DEF raise, Inv, TypeOK
    <2>2. QED  BY <1>12, <2>1, Same DEF raise, Inv, TypeOK
  <1>13. CASE halt
    <2>1. critical_error' \in BOOLEAN /\ caught' \in BOOLEAN
      BY <1>13 DEF halt, Inv, TypeOK
    <2>2. QED  BY <1>13, <2>1, EnterDebug DEF halt
  <1>14. CASE restart  BY <1>14, Restart
  <1>15. CASE UNCHANGED vars
    <2>1. mip' \subseteq Interrupts
      BY <1>15 DEF vars, Inv, TypeOK
    <2>2. QED  BY <1>15, <2>1, Same DEF vars, Inv, TypeOK
  <1>16. CASE ebreak
    <2>1. pc # "boot"
      BY <1>16 DEF ebreak, Inv, DebugOK
    <2>2. QED  BY <1>16, <2>1, TakeTrap DEF ebreak
  <1>17. CASE critical_error_halt
    <2>1. critical_error' \in BOOLEAN /\ caught' \in BOOLEAN
      BY <1>17 DEF critical_error_halt, Inv, TypeOK
    <2>2. QED  BY <1>17, <2>1, EnterDebug DEF critical_error_halt
  <1>18. QED
    BY <1>1, <1>2, <1>3, <1>4, <1>5, <1>6, <1>7, <1>8, <1>9, <1>10, <1>11, <1>12, <1>13,
       <1>14, <1>15, <1>16, <1>17 DEF Next, Return, Traps

-----------------------------------------------------------------------------
(* Theorems                                                                *)

\* The inductive invariant of the trap unit and its software (processor.cc,
\* csrs.cc and the three return instructions).
THEOREM TrapInvariant == Spec => []Inv
  BY InitInv, NextInv, PTL DEF Spec

\* The status registers, the modes and the return addresses keep their types:
\* a supervisor never returns to M mode.
THEOREM TrapTypeOK == Spec => []TypeOK
  <1>1. Inv => TypeOK  BY DEF Inv
  <1>2. QED  BY <1>1, TrapInvariant, PTL

\* The double trap bits are set only where a handler of their level can be
\* inside the window they protect (processor.cc:612-745, mret.h, sret.h, dret.h).
THEOREM TrapDoubleTrapBits == Spec => []DoubleTrapBits
  <1>1. Inv => DoubleTrapBits  BY DEF Inv
  <1>2. QED  BY <1>1, TrapInvariant, PTL

\* A critical error changes only in M mode: a double trap from a lower mode is
\* not possible, since MDT is never set there (processor.cc:729).
THEOREM TrapCriticalOnlyInM == Spec => CriticalOnlyInM
  <1>1. ASSUME Inv, [Next]_vars PROVE [critical_error' # critical_error => prv = M]_vars
    <2> SUFFICES ASSUME Next, critical_error' # critical_error PROVE prv = M
      BY <1>1
    <2>0. Traps
      BY DEF Next, Return, boot, save, restore, abandon, mret, sret_vs, sret_hs, dret,
             critical_error_halt, raise, halt, restart
    <2>1. PICK code : take_trap(code)
      BY <2>0 DEF Traps, take_interrupt, fault, ecall, ebreak, catch_trap
    <2>2. mstatus.MDT
      BY <2>1 DEF take_trap, trap_to_m, trap_to_hs, trap_to_vs
    <2>3. QED  BY <1>1, <2>2 DEF Inv, DoubleTrapBits
  <1>2. QED  BY <1>1, TrapInvariant, PTL DEF Spec, CriticalOnlyInM

\* A guest that stays a guest changes no register of its host (processor.cc:671,
\* csrs.cc:372, sret.h): traps to it, its returns and its writes use vsstatus.
THEOREM TrapGuestContained == Spec => GuestContained
  <1> DEFINE Host == UNCHANGED <<mstatus, hstatus, epc["HS"], epc["M"]>>
  <1>1. ASSUME Inv, Next, v, v', ~debug_mode' PROVE Host
    <2>1. prv # M /\ ~debug_mode /\ pc # "boot"
      BY <1>1 DEF Inv, DebugOK, Booting
    <2>2. Level # "M" /\ Level # "HS"
      BY <1>1, <2>1 DEF Level
    <2>3. CASE \E code : take_trap(code)
      <3>1. PICK code : take_trap(code)
        BY <2>3
      <3>2. trap_to_vs(code) \/ trap_to_hs(code) \/ trap_to_m(code)
        BY <2>1, <3>1 DEF take_trap
      <3>3. CASE trap_to_vs(code)
        BY <3>3 DEF trap_to_vs, Inv, TypeOK, Levels
      <3>4. CASE trap_to_hs(code) \/ trap_to_m(code)
        BY <1>1, <3>4 DEF trap_to_m, trap_to_hs, set_privilege
      <3>5. QED  BY <3>2, <3>3, <3>4
    <2>4. CASE save
      BY <2>2, <2>4 DEF save, Enable, Levels
    <2>5. CASE restore
      <3>1. Level = "VS"
        BY <2>2, <2>5 DEF restore, Levels
      <3>2. QED  BY <1>1, <2>5, <3>1 DEF restore, Inv, TypeOK, Levels
    <2>6. CASE sret_vs
      BY <1>1, <2>6 DEF sret_vs, Forget, Inv, TypeOK, Levels
    <2>7. CASE raise
      BY <2>7 DEF raise
    <2>8. CASE boot \/ abandon \/ mret \/ sret_hs \/ dret \/ restart
      BY <1>1, <2>1, <2>2, <2>8
      DEF boot, abandon, mret, sret_hs, dret, restart
    <2>9. CASE halt \/ critical_error_halt
      BY <1>1, <2>9 DEF halt, critical_error_halt, enter_debug_mode
    <2>10. QED
      BY <1>1, <2>3, <2>4, <2>5, <2>6, <2>7, <2>8, <2>9
      DEF Next, Return, Traps, take_interrupt, fault, ecall, ebreak, catch_trap
  <1>2. ASSUME Inv, [Next]_vars PROVE [v /\ v' /\ ~debug_mode' => Host]_vars
    BY <1>1, <1>2
  <1>3. QED  BY <1>2, TrapInvariant, PTL DEF Spec, GuestContained

-----------------------------------------------------------------------------
(* Interrupts                                                              *)

ContextType ==
    [ prv : {U, S, M}, v : BOOLEAN, pc : Pcs, debug : BOOLEAN, MIE : BOOLEAN, MDT : BOOLEAN,
      SIE : BOOLEAN, SDT : BOOLEAN, vSIE : BOOLEAN, vSDT : BOOLEAN ]

\* The contexts that may wait.
Good == {w \in [at : Levels \cup {"D"}, by : Interrupts \cup Exceptions \cup {"boot", "debug"},
                context : ContextType] : RightlyTaken(w)}

WaitingOK == waiting \in Seq(Good)

LEMMA GoodSame == ASSUME UNCHANGED config PROVE Good' = Good
  BY DEF Good, RightlyTaken, Owner, mideleg

LEMMA ContextTyped == ASSUME Inv PROVE Context \in ContextType
  BY DEF Inv, TypeOK, Context, ContextType, Mstatus, Supervisor

LEMMA PushOK ==
    ASSUME Inv, WaitingOK, UNCHANGED config, NEW at \in Levels \cup {"D"},
           NEW by \in Interrupts \cup Exceptions \cup {"boot", "debug"}, Push(at, by),
           RightlyTaken([at |-> at, by |-> by, context |-> Context])
    PROVE  WaitingOK'
  <1> DEFINE w == [at |-> at, by |-> by, context |-> Context]
  <1>1. w \in Good
    BY ContextTyped DEF Good
  <1>2. waiting' = <<w>> \o waiting
    BY DEF Push
  <1> HIDE DEF w
  <1>3. waiting' \in Seq(Good)
    BY <1>1, <1>2, Stack DEF WaitingOK
  <1>4. QED  BY <1>3, GoodSame DEF WaitingOK

LEMMA PopOK == ASSUME WaitingOK, UNCHANGED config, Pop PROVE WaitingOK'
  <1>1. Len(waiting) \in Nat /\ waiting \in Seq(Good)
    BY LenProperties DEF WaitingOK
  <1>2. SubSeq(waiting, 2, Len(waiting)) \in Seq(Good)
    BY <1>1, SubSeqProperties
  <1>3. QED  BY <1>2, GoodSame DEF WaitingOK, Pop

\* A context that waits for something else than an interrupt.
LEMMA NotInterrupt ==
    ASSUME NEW at, NEW by \in Exceptions \cup {"boot", "debug"}, NEW c
    PROVE  RightlyTaken([at |-> at, by |-> by, context |-> c])
  BY DEF RightlyTaken, Exceptions, Interrupts

LEMMA ProgramTyped ==
    ASSUME NEW virt \in BOOLEAN, NEW m \in Mstatus, NEW vs \in Supervisor, NEW mie \in BOOLEAN
    PROVE  Program(virt, m, vs, mie) \in ContextType
  BY DEF Program, ContextType, Mstatus, Supervisor, Pcs

\* One context that waits to run the program.
LEMMA StartOK ==
    ASSUME UNCHANGED config, NEW at \in {"M", "D"}, NEW by \in {"boot", "debug"},
           NEW c \in ContextType, waiting' = <<[at |-> at, by |-> by, context |-> c]>>
    PROVE  WaitingOK'
  <1>1. [at |-> at, by |-> by, context |-> c] \in Good
    BY NotInterrupt DEF Good, Levels
  <1>2. waiting' \in Seq(Good)
    BY <1>1
  <1>3. QED  BY <1>2, GoodSame DEF WaitingOK

LEMMA ExceptionWaiting ==
    ASSUME Inv, WaitingOK, UNCHANGED config, NEW code \in Exceptions, take_trap(code)
    PROVE  WaitingOK'
  <1>1. CASE UNCHANGED waiting
    BY <1>1, GoodSame DEF WaitingOK
  <1>2. CASE \E at \in Levels : Push(at, code)
    BY <1>2, NotInterrupt, PushOK
  <1>3. QED
    BY <1>1, <1>2 DEF take_trap, trap_to_m, trap_to_hs, trap_to_vs, Levels

\* Debug mode, entered from a context or once more.
LEMMA DebugWaiting ==
    ASSUME Inv, WaitingOK, UNCHANGED config, enter_debug_mode
    PROVE  WaitingOK'
  <1>1. CASE debug_mode
    BY <1>1, GoodSame DEF enter_debug_mode, WaitingOK
  <1>2. CASE ~debug_mode
    BY <1>2, NotInterrupt, PushOK DEF enter_debug_mode
  <1>3. QED  BY <1>1, <1>2

\* The level that take_interrupt has in mind is the level take_trap chooses.
LEMMA InterruptWaiting ==
    ASSUME Inv, WaitingOK, take_interrupt
    PROVE  WaitingOK'
  <1> DEFINE i == Selected(enabled_interrupts)
             w(at) == [at |-> at, by |-> i, context |-> Context]
  <1>1. /\ config \in Config /\ mip \subseteq Interrupts /\ prv \in {U, S, M} /\ v \in BOOLEAN
        /\ mstatus \in Mstatus /\ vsstatus \in Supervisor /\ DoubleTrapBits /\ (prv = M => ~v)
    BY DEF Inv, TypeOK, DebugOK
  <1>2. ~debug_mode /\ take_trap(i) /\ UNCHANGED config
    BY DEF take_interrupt, catch_trap
  <1>3. i \in enabled_interrupts /\ i \in Interrupts
    BY <1>1 DEF take_interrupt, Selected, enabled_interrupts, m_interrupts, hs_interrupts,
                vs_interrupts, Interrupts
  <1>4. i \notin config.medeleg
    BY <1>1, <1>3 DEF Config, Exceptions, Interrupts
  <1>5. vsstatus_read.SDT = (vsstatus.SDT /\ henvcfg_dte)
        /\ sstatus_read.SDT = (mstatus.SDT /\ config.menvcfg_dte)
    BY <1>1, ReadsTyped
  <1>6. /\ Context.prv = prv /\ Context.v = v /\ Context.debug = debug_mode
        /\ Context.MIE = mstatus.MIE /\ Context.SIE = mstatus.SIE /\ Context.vSIE = vsstatus.SIE
    BY DEF Context
  <1>7. /\ i \in config.hideleg => i = "VSSI"
        /\ i \in mideleg <=> i = "VSSI" \/ i \in config.mideleg
    BY <1>1 DEF Config, mideleg
  <1> HIDE DEF i
  <1>8. CASE i \in m_interrupts
    <2>1. i \notin mideleg /\ i \notin config.hideleg /\ (prv < M \/ mstatus.MIE)
      BY <1>7, <1>8 DEF m_interrupts
    <2>2. ~vsdeleg(i) /\ ~hsdeleg(i) /\ ~supv_double_trap(i)
      BY <1>4, <2>1 DEF vsdeleg, hsdeleg, supv_double_trap
    <2>3. ~mstatus.MDT
      BY <1>1, <2>1 DEF DoubleTrapBits, U, S, M
    <2>4. Push("M", i)
      BY <1>2, <2>2, <2>3 DEF take_trap, trap_to_m
    <2>5. RightlyTaken(w("M"))
      BY <1>1, <1>2, <1>6, <2>1 DEF RightlyTaken, Owner, Rank, RankOf, IeOf, U, S, M
    <2>6. QED  BY <1>2, <1>3, <2>4, <2>5, PushOK DEF Levels
  <1>9. CASE i \in hs_interrupts
    <2>1. /\ i \in mideleg /\ i \notin config.hideleg /\ prv # M
          /\ v \/ prv = U \/ mstatus.SIE
      BY <1>1, <1>9 DEF hs_interrupts, sstatus_sie, U, S, M
    <2>2. ~mstatus.SDT
      BY <1>1, <2>1 DEF DoubleTrapBits
    <2>3. ~vsdeleg(i) /\ hsdeleg(i) /\ ~supv_double_trap(i)
      <3>1. prv <= S
        BY <1>1, <2>1 DEF U, S, M
      <3>2. ~vsdeleg(i) /\ hsdeleg(i)
        BY <1>4, <2>1, <3>1 DEF vsdeleg, hsdeleg
      <3>3. ~sstatus_read.SDT
        BY <1>5, <2>2
      <3>4. QED  BY <3>2, <3>3 DEF supv_double_trap
    <2>4. Push("HS", i)
      BY <1>2, <2>3 DEF take_trap, trap_to_hs
    <2>5. RightlyTaken(w("HS"))
      BY <1>1, <1>2, <1>6, <2>1 DEF RightlyTaken, Owner, Rank, RankOf, IeOf, U, S, M
    <2>6. QED  BY <1>2, <1>3, <2>4, <2>5, PushOK DEF Levels
  <1>10. CASE i \in vs_interrupts
    <2>1. i \in config.hideleg /\ v /\ prv # M /\ (prv = U \/ vsstatus.SIE)
      BY <1>1, <1>10 DEF vs_interrupts, sstatus_sie, U, S, M
    <2>2. ~vsstatus.SDT
      BY <1>1, <2>1 DEF DoubleTrapBits
    <2>3. vsdeleg(i) /\ ~supv_double_trap(i)
      <3>1. prv <= S
        BY <1>1, <2>1 DEF U, S, M
      <3>2. vsdeleg(i)
        BY <2>1, <3>1 DEF vsdeleg
      <3>3. ~vsstatus_read.SDT
        BY <1>5, <2>2
      <3>4. QED  BY <3>2, <3>3 DEF supv_double_trap
    <2>4. Push("VS", i)
      BY <1>2, <2>3 DEF take_trap, trap_to_vs
    <2>5. RightlyTaken(w("VS"))
      <3>1. Owner(i) = "VS" /\ RankOf("VS") = 1 /\ ~Context.debug /\ Context.v
        BY <1>2, <1>6, <2>1 DEF Owner, RankOf
      <3>2. Rank(Context) \in {0, 1} /\ (Rank(Context) = 1 => IeOf(Context, "VS"))
        BY <1>1, <1>6, <2>1 DEF Rank, IeOf, U, S, M
      <3>3. QED  BY <3>1, <3>2 DEF RightlyTaken
    <2>6. QED  BY <1>2, <1>3, <2>4, <2>5, PushOK DEF Levels
  <1>11. QED  BY <1>3, <1>8, <1>9, <1>10 DEF enabled_interrupts

LEMMA NextWaiting == ASSUME Inv, WaitingOK, Inv', [Next]_vars PROVE WaitingOK'
  <1>0. UNCHANGED config /\ mstatus \in Mstatus /\ vsstatus \in Supervisor
        /\ mstatus' \in Mstatus /\ vsstatus' \in Supervisor
    BY DEF Inv, TypeOK, Next, Return, vars, boot, save, restore, abandon, mret, sret_vs, sret_hs,
           dret, Traps, take_interrupt, fault, ecall, ebreak, catch_trap, critical_error_halt,
           raise, halt, restart
  <1>1. CASE boot
    <2>1. PICK ie \in BOOLEAN, virt \in BOOLEAN :
            waiting' = <<[at |-> "M", by |-> "boot", context |-> Program(virt, mstatus', vsstatus', ie)]>>
      BY <1>1 DEF boot
    <2>2. Program(virt, mstatus', vsstatus', ie) \in ContextType
      BY <1>0, ProgramTyped
    <2>3. QED  BY <1>0, <2>1, <2>2, StartOK
  <1>2. CASE abandon
    <2>1. PICK virt \in BOOLEAN :
            waiting' = <<[at |-> "M", by |-> "boot", context |-> Program(virt, mstatus, vsstatus, TRUE)]>>
      BY <1>2 DEF abandon
    <2>2. Program(virt, mstatus, vsstatus, TRUE) \in ContextType
      BY <1>0, ProgramTyped
    <2>3. QED  BY <1>0, <2>1, <2>2, StartOK
  <1>3. CASE restart
    <2>1. PICK virt \in BOOLEAN :
            waiting' = <<[at |-> "D", by |-> "debug",
                          context |-> Program(virt, mstatus, vsstatus, mstatus.MIE)]>>
      BY <1>3 DEF restart
    <2>2. Program(virt, mstatus, vsstatus, mstatus.MIE) \in ContextType
      BY <1>0, ProgramTyped DEF Mstatus
    <2>3. QED  BY <1>0, <2>1, <2>2, StartOK
  <1>4. CASE Return
    <2>1. Pop
      BY <1>4 DEF Return, mret, sret_vs, sret_hs, dret
    <2>2. QED  BY <1>0, <2>1, PopOK
  <1>5. CASE take_interrupt  BY <1>5, InterruptWaiting
  <1>6. CASE fault
    BY <1>0, <1>6, ExceptionWaiting DEF fault, catch_trap, Exceptions
  <1>7. CASE ecall
    <2>1. PICK code \in Exceptions : take_trap(code)
      BY <1>7 DEF ecall, catch_trap, Exceptions
    <2>2. QED  BY <1>0, <2>1, ExceptionWaiting
  <1>8. CASE halt \/ critical_error_halt
    BY <1>0, <1>8, DebugWaiting DEF halt, critical_error_halt
  <1>9. CASE ebreak \/ save \/ restore \/ raise \/ UNCHANGED vars
    <2>1. UNCHANGED waiting
      BY <1>9 DEF ebreak, catch_trap, take_trap, save, restore, raise, vars
    <2>2. QED  BY <1>0, <2>1, GoodSame DEF WaitingOK
  <1>10. QED
    BY <1>1, <1>2, <1>3, <1>4, <1>5, <1>6, <1>7, <1>8, <1>9 DEF Next, Traps

\* take_interrupt (processor.cc:496-543) and take_trap (processor.cc:612-700)
\* agree: an interrupt that is taken goes to the level it is delegated to, is
\* no double trap, and interrupts only a level that is open to it.
THEOREM TrapInterruptToOwner == Spec => []InterruptToOwner
  <1>1. Init => WaitingOK
    BY DEF Init, WaitingOK
  <1>2. WaitingOK => InterruptToOwner
    BY DEF WaitingOK, InterruptToOwner, Good
  <1>3. QED  BY <1>1, <1>2, NextWaiting, TrapInvariant, PTL DEF Spec

-----------------------------------------------------------------------------
(* Returns                                                                 *)

\* The contexts that wait, counted from the first one: entry e was handled at
\* level At(e), by the handler that runs, or waits, as Ctx(e); the context it
\* interrupted is Ctx(e - 1).
Depth  == Len(waiting)
At(e)  == waiting[Depth - e + 1].at
Ctx(e) == IF e = Depth THEN Context ELSE waiting[Depth - e].context

LevelOf(c) ==
    IF c.debug THEN "D" ELSE IF c.prv = M THEN "M" ELSE IF c.prv = U THEN "U"
    ELSE IF c.v THEN "VS" ELSE "HS"
Height(l) == CASE l = "D" -> 4 [] l = "M" -> 3 [] l = "HS" -> 2 [] l = "VS" -> 1 [] OTHER -> 0

\* Nothing waits for the program, or for the boot code unless it was halted.
Bottom ==
    LET c == Ctx(0)
    IN  /\ ~c.debug
        /\ (c.prv = U /\ c.pc = "main") \/ (c.prv = M /\ c.pc = "boot")
        /\ c.pc = "boot" => /\ Depth = 0 \/ At(1) = "D"
                            /\ mstatus.MPP = U /\ epc["M"] = "main"

\* A handler is interrupted by its own level only after it has saved its
\* registers, and never by a lower one.
Ordered ==
    \A e, f \in 1 .. Depth : e < f =>
        /\ Height(At(e)) <= Height(At(f)) /\ At(e) # "D"
        /\ At(e) = At(f) => Ctx(e).pc = "open"

\* What a return from level l finds in the status registers when the handler
\* runs as d and interrupted c.
SdtKept(d, c) == c.SDT = (d.SDT /\ c.prv # U /\ ~c.v)
VsdtKept(d, c) == c.vSDT = (d.vSDT /\ ~(c.v /\ c.prv = U))
Carried(l, d, c) ==
    /\ ~c.debug /\ (c.prv = M => ~c.v)
    /\ l = "M"  => /\ c.SIE = d.SIE /\ c.vSIE = d.vSIE /\ ~c.MDT
                   /\ SdtKept(d, c) /\ VsdtKept(d, c)
    /\ l = "HS" => /\ c.MIE = d.MIE /\ c.MDT = d.MDT /\ c.vSIE = d.vSIE /\ ~c.SDT
                   /\ VsdtKept(d, c)
    /\ l = "VS" => /\ c.MIE = d.MIE /\ c.MDT = d.MDT /\ c.SIE = d.SIE /\ c.SDT = d.SDT
                   /\ ~c.vSDT /\ c.v
    /\ l = "D"  => /\ c.MIE = d.MIE /\ c.SIE = d.SIE /\ c.vSIE = d.vSIE
                   /\ c.MDT = (d.MDT /\ c.prv = M) /\ SdtKept(d, c) /\ VsdtKept(d, c)

\* The handler of level l runs as d, at its level, and as long as its
\* registers are not saved neither interrupts nor double traps get past it.
DtOf(c, l) == CASE l = "M" -> c.MDT [] l = "HS" -> c.SDT [] l = "VS" -> c.vSDT
CatchesDt(l) == CASE l = "M" -> config.smdbltrp [] l = "HS" -> config.menvcfg_dte
                  [] l = "VS" -> henvcfg_dte
Runs(l, d) ==
    /\ LevelOf(d) = l
    /\ l # "D" => /\ d.pc \in {"vector", "open", "leave"}
                  /\ d.pc # "open" => ~IeOf(d, l) /\ DtOf(d, l) = CatchesDt(l)

Chain == \A e \in 1 .. Depth : Runs(At(e), Ctx(e)) /\ Carried(At(e), Ctx(e), Ctx(e - 1))

\* r is what a handler of level l needs to return to c.
Leads(r, l, c) == r.epc = c.pc /\ r.pie = IeOf(c, l) /\ r.pp = c.prv /\ r.pv = c.v

\* A handler whose registers are not saved has them in place.
Holds(l, d, c) ==
    /\ l # "D" /\ d.pc # "open" => Leads(Saved(l), l, c)
    /\ l = "D" => dpc = c.pc /\ dcsr = [prv |-> c.prv, v |-> c.v]
Registers == \A e \in 1 .. Depth : Holds(At(e), Ctx(e), Ctx(e - 1))

\* The others have them in their frames, which follow each other.
Opened(l) == {e \in 1 .. Depth : At(e) = l /\ Ctx(e).pc = "open"}
Stacked(l) ==
    \E hi \in 0 .. Depth :
        /\ Opened(l) = hi - Len(frames[l]) + 1 .. hi
        /\ \A i \in DOMAIN frames[l] : Leads(frames[l][i], l, Ctx(hi - i))

ReturnInv ==
    /\ Bottom /\ Ordered /\ Chain /\ Registers
    /\ \A l \in Levels : Stacked(l)

\* The entries that wait and the contexts they stand for have their types.
LEMMA EntriesTyped ==
    ASSUME Inv, WaitingOK
    PROVE  /\ Depth \in Nat
           /\ \A e \in 1 .. Depth : At(e) \in Levels \cup {"D"}
           /\ \A e \in 0 .. Depth : Ctx(e) \in ContextType
  <1>1. waiting \in Seq(Good) /\ Depth \in Nat
    BY LenProperties DEF WaitingOK, Depth
  <1>2. \A k \in 1 .. Depth : waiting[k].at \in Levels \cup {"D"} /\ waiting[k].context \in ContextType
    BY <1>1 DEF Good, Depth
  <1>3. ASSUME NEW e \in 1 .. Depth PROVE At(e) \in Levels \cup {"D"}
    <2>1. Depth - e + 1 \in 1 .. Depth
      BY <1>1
    <2> QED BY <1>2, <2>1 DEF At
  <1>4. ASSUME NEW e \in 0 .. Depth PROVE Ctx(e) \in ContextType
    <2>1. CASE e = Depth
      BY <2>1, ContextTyped DEF Ctx
    <2>2. CASE e # Depth
      <3>1. Depth - e \in 1 .. Depth
        BY <1>1, <2>2
      <3> QED BY <1>2, <2>2, <3>1 DEF Ctx
    <2> QED BY <2>1, <2>2
  <1> QED BY <1>1, <1>3, <1>4

\* What a trap does to the entries: the running context waits too.
LEMMA Pushed ==
    ASSUME WaitingOK, NEW n, n = Depth, NEW at, NEW by, Push(at, by)
    PROVE  /\ n \in Nat /\ Depth' = n + 1
           /\ \A e \in 1 .. n : At(e)' = At(e)
           /\ \A e \in 0 .. n : Ctx(e)' = Ctx(e)
           /\ At(n + 1)' = at /\ Ctx(n + 1)' = Context'
  <1> DEFINE w == [at |-> at, by |-> by, context |-> Context]
  <1>1. waiting \in Seq(Good) /\ n \in Nat /\ n = Len(waiting)
    BY LenProperties DEF WaitingOK, Depth
  <1>2. waiting' = <<w>> \o waiting
    BY DEF Push
  <1>3. w.at = at /\ w.context = Context
    OBVIOUS
  <1> HIDE DEF w
  <1>4. /\ Len(waiting') = n + 1 /\ waiting'[1] = w
        /\ \A k \in 1 .. n : waiting'[k + 1] = waiting[k]
    BY <1>1, <1>2
  <1>5. Depth' = n + 1
    BY <1>4 DEF Depth
  <1>6. ASSUME NEW e \in 1 .. n PROVE At(e)' = At(e)
    <2>1. n - e + 1 \in 1 .. n /\ (n + 1) - e + 1 = (n - e + 1) + 1
      BY <1>1
    <2> QED BY <1>4, <1>5, <2>1 DEF At
  <1>7. ASSUME NEW e \in 0 .. n PROVE Ctx(e)' = Ctx(e)
    <2>0. e # n + 1
      BY <1>1
    <2>1. Ctx(e)' = waiting'[(n + 1) - e].context
      BY <1>5, <2>0 DEF Ctx
    <2>2. CASE e = n
      <3>1. (n + 1) - e = 1
        BY <1>1, <2>2
      <3> QED BY <1>3, <1>4, <2>1, <2>2, <3>1 DEF Ctx
    <2>3. CASE e # n
      <3>1. n - e \in 1 .. n /\ (n + 1) - e = (n - e) + 1
        BY <1>1, <2>3
      <3> QED BY <1>4, <2>1, <2>3, <3>1 DEF Ctx
    <2> QED BY <2>2, <2>3
  <1>8. At(n + 1)' = at
    <2>1. (n + 1) - (n + 1) + 1 = 1
      BY <1>1
    <2> QED BY <1>3, <1>4, <1>5, <2>1 DEF At
  <1>9. Ctx(n + 1)' = Context'
    BY <1>5 DEF Ctx
  <1> QED BY <1>1, <1>5, <1>6, <1>7, <1>8, <1>9

\* What a return does to them, if it returns to the context that waits.
LEMMA Popped ==
    ASSUME WaitingOK, NEW n, n = Depth, n >= 1, Pop, Context' = Ctx(n - 1)
    PROVE  /\ n - 1 \in Nat /\ Depth' = n - 1
           /\ \A e \in 1 .. n - 1 : At(e)' = At(e)
           /\ \A e \in 0 .. n - 1 : Ctx(e)' = Ctx(e)
  <1>1. waiting \in Seq(Good) /\ n \in Nat /\ n = Len(waiting)
    BY LenProperties DEF WaitingOK, Depth
  <1>2. waiting' = SubSeq(waiting, 2, n)
    BY <1>1 DEF Pop
  <1>3. /\ Len(waiting') = n - 1
        /\ \A k \in 1 .. n - 1 : waiting'[k] = waiting[k + 1]
    BY <1>1, <1>2
  <1>4. Depth' = n - 1
    BY <1>3 DEF Depth
  <1>5. ASSUME NEW e \in 1 .. n - 1 PROVE At(e)' = At(e)
    <2>1. (n - 1) - e + 1 \in 1 .. n - 1 /\ n - e + 1 = ((n - 1) - e + 1) + 1
      BY <1>1
    <2> QED BY <1>3, <1>4, <2>1 DEF At
  <1>6. ASSUME NEW e \in 0 .. n - 1 PROVE Ctx(e)' = Ctx(e)
    <2>1. CASE e = n - 1
      BY <1>4, <2>1 DEF Ctx
    <2>2. CASE e # n - 1
      <3>1. (n - 1) - e \in 1 .. n - 1 /\ n - e = ((n - 1) - e) + 1 /\ e # n
        BY <1>1, <2>2
      <3> QED BY <1>3, <1>4, <2>2, <3>1 DEF Ctx
    <2> QED BY <2>1, <2>2
  <1> QED BY <1>1, <1>4, <1>5, <1>6

\* The entries stay as they are.
LEMMA Stayed ==
    ASSUME WaitingOK, NEW n, n = Depth, UNCHANGED waiting
    PROVE  /\ n \in Nat /\ Depth' = n
           /\ \A e \in 1 .. n : At(e)' = At(e)
           /\ \A e \in 0 .. n - 1 : Ctx(e)' = Ctx(e)
           /\ Ctx(n)' = Context' /\ Ctx(n) = Context
  <1>1. n \in Nat
    BY LenProperties DEF WaitingOK, Depth
  <1>2. Depth' = n
    BY DEF Depth
  <1>3. \A e \in 1 .. n : At(e)' = At(e)
    BY <1>2 DEF At
  <1>4. \A e \in 0 .. n - 1 : Ctx(e)' = Ctx(e)
    <2>1. \A e \in 0 .. n - 1 : e # n
      BY <1>1
    <2> QED BY <1>2, <2>1 DEF Ctx
  <1>5. Ctx(n)' = Context' /\ Ctx(n) = Context
    BY <1>2 DEF Ctx
  <1> QED BY <1>1, <1>2, <1>3, <1>4, <1>5

\* Everything starts anew, with c as the context that waits.
LEMMA Restarted ==
    ASSUME NEW at, NEW by, NEW c, waiting' = <<[at |-> at, by |-> by, context |-> c]>>
    PROVE  Depth' = 1 /\ At(1)' = at /\ Ctx(0)' = c /\ Ctx(1)' = Context'
  <1>1. Len(waiting') = 1 /\ waiting'[1].at = at /\ waiting'[1].context = c
    OBVIOUS
  <1>2. Depth' = 1
    BY <1>1 DEF Depth
  <1> QED BY <1>1, <1>2 DEF At, Ctx
-----------------------------------------------------------------------------

\* A handler runs on top of the last entry; with no entry it is the program,
\* or the boot code.
LEMMA Top ==
    ASSUME Inv, WaitingOK, ReturnInv
    PROVE  /\ Depth = 0 => ~debug_mode /\ pc \in {"main", "boot"}
           /\ Depth # 0 => /\ Depth \in 1 .. Depth
                           /\ LevelOf(Context) = At(Depth)
                           /\ Runs(At(Depth), Context)
                           /\ Carried(At(Depth), Context, Ctx(Depth - 1))
                           /\ Holds(At(Depth), Context, Ctx(Depth - 1))
  <1>1. Depth \in Nat /\ Ctx(Depth) = Context
    BY EntriesTyped DEF Ctx
  <1>2. Context.debug = debug_mode /\ Context.pc = pc
    BY DEF Context
  <1>3. ASSUME Depth = 0 PROVE ~debug_mode /\ pc \in {"main", "boot"}
    BY <1>1, <1>2, <1>3 DEF ReturnInv, Bottom
  <1>4. ASSUME Depth # 0
        PROVE  /\ Depth \in 1 .. Depth
               /\ Runs(At(Depth), Context) /\ Carried(At(Depth), Context, Ctx(Depth - 1))
               /\ Holds(At(Depth), Context, Ctx(Depth - 1))
    <2>1. Depth \in 1 .. Depth
      BY <1>1, <1>4
    <2>2. /\ Runs(At(Depth), Ctx(Depth)) /\ Carried(At(Depth), Ctx(Depth), Ctx(Depth - 1))
          /\ Holds(At(Depth), Ctx(Depth), Ctx(Depth - 1))
      BY <2>1 DEF ReturnInv, Chain, Registers
    <2> QED BY <1>1, <2>1, <2>2
  <1>5. Depth # 0 => LevelOf(Context) = At(Depth)
    BY <1>4 DEF Runs
  <1> QED BY <1>3, <1>4, <1>5

\* A part of the invariant that only speaks of entries and contexts.
LEMMA ChainSame ==
    ASSUME UNCHANGED config, NEW e, At(e)' = At(e), Ctx(e)' = Ctx(e),
           NEW c, Ctx(e - 1)' = c, Ctx(e - 1) = c,
           Runs(At(e), Ctx(e)), Carried(At(e), Ctx(e), Ctx(e - 1))
    PROVE  (Runs(At(e), Ctx(e)) /\ Carried(At(e), Ctx(e), Ctx(e - 1)))'
  <1>1. Runs(At(e), Ctx(e))'
    BY DEF Runs, LevelOf, IeOf, DtOf, CatchesDt, henvcfg_dte
  <1>2. Carried(At(e), Ctx(e), Ctx(e - 1))'
    BY DEF Carried, SdtKept, VsdtKept
  <1> QED BY <1>1, <1>2

\* The registers of a handler below the top, if those of its level are kept.
LEMMA HoldsSame ==
    ASSUME NEW e, NEW l, At(e) = l, l # "D", At(e)' = At(e), Ctx(e)' = Ctx(e),
           Ctx(e - 1)' = Ctx(e - 1), Holds(At(e), Ctx(e), Ctx(e - 1)),
           Ctx(e).pc # "open" => Saved(l)' = Saved(l)
    PROVE  Holds(At(e), Ctx(e), Ctx(e - 1))'
  <1>1. Saved(At(e))' = Saved(l)'
    BY DEF Saved
  <1>2. (At(e) # "D" /\ Ctx(e).pc # "open" => Leads(Saved(At(e)), At(e), Ctx(e - 1)))'
    BY <1>1 DEF Holds, Leads, IeOf
  <1>3. At(e)' # "D"
    OBVIOUS
  <1> QED BY <1>2, <1>3 DEF Holds

\* The heights of the levels are different.
LEMMA Heights ==
    ASSUME NEW k \in Levels \cup {"D"}, NEW l \in Levels \cup {"D"}
    PROVE  /\ Height(k) \in Nat /\ Height(l) \in Nat
           /\ Height(k) = Height(l) => k = l
  BY DEF Height, Levels

\* The frames of a level whose handlers stay as they are.
LEMMA StackedSame ==
    ASSUME Inv, WaitingOK, NEW l \in Levels, Stacked(l), frames[l]' = frames[l],
           Opened(l)' = Opened(l), Depth' \in Nat,
           \A e \in Opened(l) : e <= Depth' /\ Ctx(e - 1)' = Ctx(e - 1)
    PROVE  Stacked(l)'
  <1>1. PICK hi \in 0 .. Depth :
            /\ Opened(l) = hi - Len(frames[l]) + 1 .. hi
            /\ \A i \in DOMAIN frames[l] : Leads(frames[l][i], l, Ctx(hi - i))
    BY DEF Stacked
  <1> DEFINE m == Len(frames[l])
  <1>2. m \in Nat /\ DOMAIN frames[l] = 1 .. m /\ Depth \in Nat /\ hi \in Nat
    BY <1>1, EntriesTyped DEF Inv, FramesOK
  <1>3. ASSUME NEW i \in 1 .. m PROVE hi - i + 1 \in Opened(l) /\ (hi - i + 1) - 1 = hi - i
    BY <1>1, <1>2
  <1>4. \A i \in 1 .. m : Ctx(hi - i)' = Ctx(hi - i)
    BY <1>3
  <1>5. \A i \in DOMAIN frames[l] : Leads(frames[l][i], l, Ctx(hi - i))'
    <2> SUFFICES ASSUME NEW i \in 1 .. m PROVE Leads(frames[l][i], l, Ctx(hi - i))'
      BY <1>2
    <2>1. Leads(frames[l][i], l, Ctx(hi - i)) /\ Ctx(hi - i)' = Ctx(hi - i)
      BY <1>1, <1>2, <1>4
    <2> QED BY <2>1 DEF Leads, IeOf
  <1>6. CASE m = 0
    <2>1. Opened(l)' = {} /\ frames[l]' = frames[l]
      BY <1>1, <1>2, <1>6
    <2>2. 0 - Len(frames[l]') + 1 .. 0 = {} /\ DOMAIN frames[l]' = {} /\ 0 \in 0 .. Depth'
      BY <1>2, <1>6, <2>1
    <2> QED BY <2>1, <2>2 DEF Stacked
  <1>7. CASE m # 0
    <2>1. hi \in Opened(l)
      BY <1>1, <1>2, <1>7
    <2>2. hi \in 0 .. Depth'
      BY <1>2, <2>1
    <2> QED BY <1>1, <1>5, <2>2 DEF Stacked
  <1> QED BY <1>6, <1>7

\* A trap or a halt that is taken at a level not below the one running, and
\* at the same level only when its handler has saved its registers.
LEMMA PushKeeps ==
    ASSUME Inv, WaitingOK, ReturnInv, ~debug_mode, UNCHANGED <<config, frames>>,
           NEW at \in Levels \cup {"D"}, NEW by, Push(at, by),
           Height(LevelOf(Context)) <= Height(at),
           LevelOf(Context) = at => pc = "open",
           pc = "boot" => at = "D",
           pc' # "open",
           Runs(at, Context)', Carried(at, Context', Context),
           \A l \in Levels \ {at} : Saved(l)' = Saved(l),
           at # "D" => Leads(Saved(at)', at, Context),
           at = "D" => /\ dpc' = pc /\ dcsr' = [prv |-> prv, v |-> v]
                       /\ UNCHANGED <<mstatus, epc>>
    PROVE  ReturnInv'
  <1> PICK n : n = Depth
    OBVIOUS
  <1>1. /\ n \in Nat /\ Depth' = n + 1
        /\ \A e \in 1 .. n : At(e)' = At(e)
        /\ \A e \in 0 .. n : Ctx(e)' = Ctx(e)
        /\ At(n + 1)' = at /\ Ctx(n + 1)' = Context'
    BY Pushed
  <1>2. /\ \A e \in 1 .. n : At(e) \in Levels \cup {"D"}
        /\ \A e \in 0 .. n : Ctx(e) \in ContextType
        /\ Ctx(n) = Context /\ Context.pc = pc /\ Context.debug = debug_mode
        /\ Context.prv = prv /\ Context.v = v
    BY EntriesTyped DEF Ctx, Context
  <1>3. \A e \in 1 .. n : At(e) # "D"
    <2> SUFFICES ASSUME NEW e \in 1 .. n PROVE At(e) # "D"
      OBVIOUS
    <2>1. CASE e = n
      <3>1. LevelOf(Context) = At(n) /\ LevelOf(Context) # "D"
        BY <1>1, <1>2, <2>1, Top DEF LevelOf
      <3> QED BY <2>1, <3>1
    <2>2. CASE e # n
      BY <1>1, <2>2 DEF ReturnInv, Ordered
    <2> QED BY <2>1, <2>2
  <1>4. ASSUME NEW e \in 1 .. n
        PROVE  Height(At(e)) <= Height(at) /\ (At(e) = at => Ctx(e).pc = "open")
    <2>1. At(n) = LevelOf(Context) /\ n \in 1 .. n
      BY <1>1, Top
    <2>2. CASE e = n
      BY <1>2, <2>1, <2>2
    <2>3. CASE e # n
      <3>1. /\ Height(At(e)) <= Height(At(n)) /\ Height(At(n)) <= Height(at)
            /\ (At(e) = At(n) => Ctx(e).pc = "open")
        BY <1>1, <2>1, <2>3 DEF ReturnInv, Ordered
      <3>2. /\ Height(At(e)) \in Nat /\ Height(At(n)) \in Nat /\ Height(at) \in Nat
            /\ (Height(At(e)) = Height(At(n)) => At(e) = At(n))
        BY <1>2, <2>1, Heights
      <3> QED BY <3>1, <3>2
    <2> QED BY <2>2, <2>3
  <1>5. Ordered'
    <2> SUFFICES ASSUME NEW e \in 1 .. n + 1, NEW f \in 1 .. n + 1, e < f
                 PROVE  (/\ Height(At(e)) <= Height(At(f)) /\ At(e) # "D"
                         /\ At(e) = At(f) => Ctx(e).pc = "open")'
      BY <1>1 DEF Ordered
    <2>1. e \in 1 .. n /\ e \in 0 .. n /\ At(e)' = At(e) /\ Ctx(e)' = Ctx(e)
      BY <1>1
    <2>2. CASE f = n + 1
      <3>1. At(f)' = at
        BY <1>1, <2>2
      <3> QED BY <1>3, <1>4, <2>1, <3>1 DEF Height
    <2>3. CASE f # n + 1
      <3>1. f \in 1 .. n /\ At(f)' = At(f)
        BY <1>1, <2>3
      <3> QED BY <2>1, <3>1 DEF ReturnInv, Ordered, Height
    <2> QED BY <2>2, <2>3
  <1>6. Chain'
    <2> SUFFICES ASSUME NEW e \in 1 .. n + 1
                 PROVE  (Runs(At(e), Ctx(e)) /\ Carried(At(e), Ctx(e), Ctx(e - 1)))'
      BY <1>1 DEF Chain
    <2>1. CASE e = n + 1
      <3>1. At(e)' = at /\ Ctx(e)' = Context' /\ Ctx(e - 1)' = Context
        <4>1. e - 1 = n /\ n \in 0 .. n
          BY <1>1, <2>1
        <4> QED BY <1>1, <1>2, <2>1, <4>1
      <3>2. Runs(At(e), Ctx(e))'
        BY <3>1 DEF Runs, LevelOf, IeOf, DtOf, CatchesDt, henvcfg_dte
      <3>3. Carried(At(e), Ctx(e), Ctx(e - 1))'
        BY <3>1 DEF Carried, SdtKept, VsdtKept
      <3> QED BY <3>2, <3>3
    <2>2. CASE e # n + 1
      <3>1. e \in 1 .. n /\ e \in 0 .. n /\ e - 1 \in 0 .. n
        BY <1>1, <2>2
      <3>2. At(e)' = At(e) /\ Ctx(e)' = Ctx(e) /\ Ctx(e - 1)' = Ctx(e - 1)
        BY <1>1, <3>1
      <3>3. Runs(At(e), Ctx(e)) /\ Carried(At(e), Ctx(e), Ctx(e - 1))
        BY <3>1 DEF ReturnInv, Chain
      <3> QED BY <3>2, <3>3, ChainSame
    <2> QED BY <2>1, <2>2
  <1>7. Registers'
    <2> SUFFICES ASSUME NEW e \in 1 .. n + 1
                 PROVE  Holds(At(e), Ctx(e), Ctx(e - 1))'
      BY <1>1 DEF Registers
    <2>1. CASE e = n + 1
      <3>1. At(e)' = at /\ Ctx(e)' = Context' /\ Ctx(e - 1)' = Context
        <4>1. e - 1 = n /\ n \in 0 .. n
          BY <1>1, <2>1
        <4> QED BY <1>1, <1>2, <2>1, <4>1
      <3>2. CASE at = "D"
        BY <1>2, <3>1, <3>2 DEF Holds
      <3>3. CASE at # "D"
        <4>1. Saved(At(e))' = Saved(at)'
          BY <3>1 DEF Saved
        <4> QED BY <3>1, <3>3, <4>1 DEF Holds, Leads, IeOf
      <3> QED BY <3>2, <3>3
    <2>2. CASE e # n + 1
      <3>1. e \in 1 .. n /\ e \in 0 .. n /\ e - 1 \in 0 .. n
        BY <1>1, <2>2
      <3> PICK l : l = At(e)
        OBVIOUS
      <3>2. At(e)' = At(e) /\ Ctx(e)' = Ctx(e) /\ Ctx(e - 1)' = Ctx(e - 1) /\ l \in Levels
        BY <1>1, <1>2, <1>3, <3>1
      <3>3. Holds(At(e), Ctx(e), Ctx(e - 1))
        BY <3>1 DEF ReturnInv, Registers
      <3>4. Ctx(e).pc # "open" => Saved(l)' = Saved(l)
        BY <1>4, <3>1, <3>2
      <3>5. l # "D"
        BY <3>2 DEF Levels
      <3> QED BY <3>2, <3>3, <3>4, <3>5, HoldsSame
    <2> QED BY <2>1, <2>2
  <1>8. ASSUME NEW l \in Levels PROVE Stacked(l)'
    <2>1. Opened(l)' = Opened(l)
      <3>1. \A e \in 1 .. n : (At(e) = l /\ Ctx(e).pc = "open")' <=> At(e) = l /\ Ctx(e).pc = "open"
        <4>1. \A e \in 1 .. n : e \in 0 .. n
          BY <1>1
        <4> QED BY <1>1, <4>1
      <3>2. Ctx(n + 1).pc' # "open"
        <4>1. Context.pc' = pc'
          BY DEF Context
        <4> QED BY <1>1, <4>1
      <3>3. 1 .. n + 1 = (1 .. n) \cup {n + 1}
        BY <1>1
      <3>4. Opened(l)' = {e \in 1 .. n + 1 : (At(e) = l /\ Ctx(e).pc = "open")'}
        BY <1>1 DEF Opened
      <3>5. Opened(l) = {e \in 1 .. n : At(e) = l /\ Ctx(e).pc = "open"}
        BY DEF Opened
      <3> QED BY <3>1, <3>2, <3>3, <3>4, <3>5
    <2>2. \A e \in Opened(l) : e <= Depth' /\ Ctx(e - 1)' = Ctx(e - 1)
      <3> SUFFICES ASSUME NEW e \in 1 .. n PROVE e <= n + 1 /\ Ctx(e - 1)' = Ctx(e - 1)
        BY <1>1 DEF Opened
      <3>1. e - 1 \in 0 .. n /\ e <= n + 1
        BY <1>1
      <3> QED BY <1>1, <3>1
    <2>3. Stacked(l) /\ Depth' \in Nat
      BY <1>1 DEF ReturnInv
    <2> QED BY <2>1, <2>2, <2>3, StackedSame
  <1>9. Bottom'
    <2>1. Ctx(0)' = Ctx(0) /\ Bottom
      BY <1>1 DEF ReturnInv
    <2>2. CASE Ctx(0).pc # "boot"
      BY <2>1, <2>2 DEF Bottom
    <2>3. CASE Ctx(0).pc = "boot"
      <3>1. n = 0
        <4>1. n = 0 \/ At(1) = "D"
          BY <2>1, <2>3 DEF Bottom
        <4> QED BY <1>1, <1>3, <4>1
      <3>2. at = "D"
        BY <1>2, <2>3, <3>1
      <3>3. At(1)' = "D" /\ UNCHANGED <<mstatus, epc>>
        BY <1>1, <3>1, <3>2
      <3> QED BY <2>1, <3>3 DEF Bottom
    <2> QED BY <2>2, <2>3
  <1> QED BY <1>5, <1>6, <1>7, <1>8, <1>9 DEF ReturnInv

\* A return to the context that waits.
LEMMA PopKeeps ==
    ASSUME Inv, WaitingOK, ReturnInv, Depth # 0, UNCHANGED <<config, frames>>, Pop,
           Context' = Ctx(Depth - 1), At(Depth) # "D" => pc # "open",
           \A l \in Levels \ {At(Depth)} : Saved(l)' = Saved(l),
           At(Depth) = "D" => epc' = epc /\ mstatus'.MPP = mstatus.MPP
    PROVE  ReturnInv'
  <1> PICK n : n = Depth
    OBVIOUS
  <1>0. n \in Nat /\ n >= 1
    BY EntriesTyped
  <1>1. /\ n - 1 \in Nat /\ Depth' = n - 1
        /\ \A e \in 1 .. n - 1 : At(e)' = At(e)
        /\ \A e \in 0 .. n - 1 : Ctx(e)' = Ctx(e)
    BY <1>0, Popped
  <1>2. /\ \A e \in 1 .. n : At(e) \in Levels \cup {"D"}
        /\ Ctx(n) = Context /\ Context.pc = pc
    BY EntriesTyped DEF Ctx, Context
  <1>3. ASSUME NEW e \in 1 .. n - 1
        PROVE  /\ e \in 1 .. n /\ e \in 0 .. n - 1 /\ e - 1 \in 0 .. n - 1
               /\ At(e)' = At(e) /\ Ctx(e)' = Ctx(e) /\ Ctx(e - 1)' = Ctx(e - 1)
               /\ At(e) \in Levels /\ At(e) # "D"
               /\ At(e) = At(n) => Ctx(e).pc = "open"
    <2>1. e \in 1 .. n /\ e \in 0 .. n - 1 /\ e - 1 \in 0 .. n - 1 /\ e < n /\ n \in 1 .. n
      BY <1>0
    <2>2. At(e) # "D" /\ (At(e) = At(n) => Ctx(e).pc = "open")
      BY <2>1 DEF ReturnInv, Ordered
    <2> QED BY <1>1, <1>2, <2>1, <2>2
  <1>4. Ordered'
    <2> SUFFICES ASSUME NEW e \in 1 .. n - 1, NEW f \in 1 .. n - 1, e < f
                 PROVE  (/\ Height(At(e)) <= Height(At(f)) /\ At(e) # "D"
                         /\ At(e) = At(f) => Ctx(e).pc = "open")'
      BY <1>1 DEF Ordered
    <2> QED BY <1>3 DEF ReturnInv, Ordered, Height
  <1>5. Chain'
    <2> SUFFICES ASSUME NEW e \in 1 .. n - 1
                 PROVE  (Runs(At(e), Ctx(e)) /\ Carried(At(e), Ctx(e), Ctx(e - 1)))'
      BY <1>1 DEF Chain
    <2>1. Runs(At(e), Ctx(e)) /\ Carried(At(e), Ctx(e), Ctx(e - 1))
      BY <1>3 DEF ReturnInv, Chain
    <2> QED BY <1>3, <2>1, ChainSame
  <1>6. Registers'
    <2> SUFFICES ASSUME NEW e \in 1 .. n - 1
                 PROVE  Holds(At(e), Ctx(e), Ctx(e - 1))'
      BY <1>1 DEF Registers
    <2>1. Holds(At(e), Ctx(e), Ctx(e - 1))
      BY <1>3 DEF ReturnInv, Registers
    <2> PICK l : l = At(e)
      OBVIOUS
    <2>2. Ctx(e).pc # "open" => Saved(l)' = Saved(l)
      BY <1>3
    <2> QED BY <1>3, <2>1, <2>2, HoldsSame
  <1>7. ASSUME NEW l \in Levels PROVE Stacked(l)'
    <2>1. Opened(l)' = Opened(l)
      <3>1. \A e \in 1 .. n - 1 : (At(e) = l /\ Ctx(e).pc = "open")' <=> At(e) = l /\ Ctx(e).pc = "open"
        BY <1>3
      <3>2. ~(At(n) = l /\ Ctx(n).pc = "open")
        BY <1>2 DEF Levels
      <3>3. 1 .. n = (1 .. n - 1) \cup {n}
        BY <1>0
      <3>4. Opened(l)' = {e \in 1 .. n - 1 : (At(e) = l /\ Ctx(e).pc = "open")'}
        BY <1>1 DEF Opened
      <3>5. Opened(l) = {e \in 1 .. n : At(e) = l /\ Ctx(e).pc = "open"}
        BY DEF Opened
      <3> QED BY <3>1, <3>2, <3>3, <3>4, <3>5
    <2>2. \A e \in Opened(l) : e <= Depth' /\ Ctx(e - 1)' = Ctx(e - 1)
      <3>1. \A e \in Opened(l)' : e \in 1 .. n - 1
        BY <1>1 DEF Opened
      <3> QED BY <1>1, <1>3, <2>1, <3>1
    <2>3. Stacked(l)
      BY DEF ReturnInv
    <2> QED BY <1>1, <2>1, <2>2, <2>3, StackedSame
  <1>8. Bottom'
    <2>1. Ctx(0)' = Ctx(0) /\ Bottom
      BY <1>1 DEF ReturnInv
    <2>2. CASE Ctx(0).pc # "boot"
      BY <2>1, <2>2 DEF Bottom
    <2>3. CASE Ctx(0).pc = "boot"
      <3>1. At(1) = "D" /\ mstatus.MPP = U /\ epc["M"] = "main"
        BY <1>0, <2>1, <2>3 DEF Bottom
      <3>2. n = 1
        <4>1. n # 1 => 1 \in 1 .. n - 1
          BY <1>0
        <4> QED BY <1>3, <3>1, <4>1
      <3>3. Depth' = 0 /\ mstatus'.MPP = U /\ epc'["M"] = "main"
        BY <1>1, <3>1, <3>2
      <3> QED BY <2>1, <3>3 DEF Bottom
    <2> QED BY <2>2, <2>3
  <1> QED BY <1>4, <1>5, <1>6, <1>7, <1>8 DEF ReturnInv

\* The running handler of level at changes its registers or its place, and
\* nothing of the levels below.
LEMMA TopKeeps ==
    ASSUME Inv, WaitingOK, ReturnInv, Depth # 0, UNCHANGED <<config, waiting>>,
           NEW at, at = At(Depth),
           Runs(at, Context)', Carried(at, Context', Ctx(Depth - 1)),
           \A l \in Levels \ {at} : Saved(l)' = Saved(l) /\ frames[l]' = frames[l],
           at # "D" /\ pc' # "open" => Leads(Saved(at)', at, Ctx(Depth - 1)),
           at = "D" => UNCHANGED <<dpc, dcsr, mstatus, epc>>,
           at \in Levels => Stacked(at)'
    PROVE  ReturnInv'
  <1> PICK n : n = Depth
    OBVIOUS
  <1>1. /\ n \in Nat /\ Depth' = n
        /\ \A e \in 1 .. n : At(e)' = At(e)
        /\ \A e \in 0 .. n - 1 : Ctx(e)' = Ctx(e)
        /\ Ctx(n)' = Context' /\ Ctx(n) = Context
    BY Stayed
  <1>2. /\ n \in 1 .. n /\ n - 1 \in 0 .. n - 1 /\ 0 \in 0 .. n - 1
        /\ \A e \in 1 .. n : At(e) \in Levels \cup {"D"}
        /\ Context.pc' = pc' /\ Ctx(n - 1)' = Ctx(n - 1)
    BY <1>1, EntriesTyped DEF Context
  <1>3. ASSUME NEW e \in 1 .. n, e # n
        PROVE  /\ At(e)' = At(e) /\ Ctx(e)' = Ctx(e) /\ Ctx(e - 1)' = Ctx(e - 1)
               /\ At(e) \in Levels /\ At(e) # "D" /\ e - 1 \in 0 .. n - 1
               /\ At(e) = at => Ctx(e).pc = "open"
    <2>1. e \in 0 .. n - 1 /\ e - 1 \in 0 .. n - 1 /\ e < n
      BY <1>1, <1>3
    <2>2. At(e) # "D" /\ (At(e) = at => Ctx(e).pc = "open")
      BY <1>2, <2>1 DEF ReturnInv, Ordered
    <2> QED BY <1>1, <1>2, <2>1, <2>2
  <1>4. Ordered'
    <2> SUFFICES ASSUME NEW e \in 1 .. n, NEW f \in 1 .. n, e < f
                 PROVE  (/\ Height(At(e)) <= Height(At(f)) /\ At(e) # "D"
                         /\ At(e) = At(f) => Ctx(e).pc = "open")'
      BY <1>1 DEF Ordered
    <2>1. e # n
      BY <1>1
    <2> QED BY <1>1, <1>3, <2>1 DEF ReturnInv, Ordered, Height
  <1>5. Chain'
    <2> SUFFICES ASSUME NEW e \in 1 .. n
                 PROVE  (Runs(At(e), Ctx(e)) /\ Carried(At(e), Ctx(e), Ctx(e - 1)))'
      BY <1>1 DEF Chain
    <2>1. CASE e = n
      <3>1. At(e)' = at /\ Ctx(e)' = Context' /\ Ctx(e - 1)' = Ctx(n - 1)
        BY <1>1, <1>2, <2>1
      <3>2. Runs(At(e), Ctx(e))'
        BY <3>1 DEF Runs, LevelOf, IeOf, DtOf, CatchesDt, henvcfg_dte
      <3>3. Carried(At(e), Ctx(e), Ctx(e - 1))'
        BY <3>1 DEF Carried, SdtKept, VsdtKept
      <3> QED BY <3>2, <3>3
    <2>2. CASE e # n
      <3>1. Runs(At(e), Ctx(e)) /\ Carried(At(e), Ctx(e), Ctx(e - 1))
        BY DEF ReturnInv, Chain
      <3> QED BY <1>3, <2>2, <3>1, ChainSame
    <2> QED BY <2>1, <2>2
  <1>6. Registers'
    <2> SUFFICES ASSUME NEW e \in 1 .. n
                 PROVE  Holds(At(e), Ctx(e), Ctx(e - 1))'
      BY <1>1 DEF Registers
    <2>0. Holds(At(e), Ctx(e), Ctx(e - 1))
      BY DEF ReturnInv, Registers
    <2>1. CASE e = n
      <3>1. At(e)' = at /\ Ctx(e)' = Context' /\ Ctx(e - 1)' = Ctx(n - 1)
        BY <1>1, <1>2, <2>1
      <3>2. CASE at = "D"
        BY <2>0, <2>1, <3>1, <3>2 DEF Holds
      <3>3. CASE at # "D"
        <4>1. Saved(At(e))' = Saved(at)'
          BY <3>1 DEF Saved
        <4> QED BY <1>2, <3>1, <3>3, <4>1 DEF Holds, Leads, IeOf
      <3> QED BY <3>2, <3>3
    <2>2. CASE e # n
      <3> PICK l : l = At(e)
        OBVIOUS
      <3>1. Ctx(e).pc # "open" => Saved(l)' = Saved(l)
        BY <1>3, <2>2
      <3> QED BY <1>3, <2>0, <2>2, <3>1, HoldsSame
    <2> QED BY <2>1, <2>2
  <1>7. ASSUME NEW l \in Levels PROVE Stacked(l)'
    <2>1. CASE l = at
      BY <2>1
    <2>2. CASE l # at
      <3>1. Opened(l)' = Opened(l)
        <4>1. \A e \in 1 .. n : (At(e) = l /\ Ctx(e).pc = "open")' <=> At(e) = l /\ Ctx(e).pc = "open"
          BY <1>1, <1>2, <1>3, <2>2
        <4>2. Opened(l)' = {e \in 1 .. n : (At(e) = l /\ Ctx(e).pc = "open")'}
          BY <1>1 DEF Opened
        <4>3. Opened(l) = {e \in 1 .. n : At(e) = l /\ Ctx(e).pc = "open"}
          BY DEF Opened
        <4> QED BY <4>1, <4>2, <4>3
      <3>2. \A e \in Opened(l) : e <= Depth' /\ Ctx(e - 1)' = Ctx(e - 1)
        <4> SUFFICES ASSUME NEW e \in 1 .. n, At(e) = l PROVE e <= n /\ Ctx(e - 1)' = Ctx(e - 1)
          BY <1>1 DEF Opened
        <4>1. e # n /\ e <= n
          BY <1>1, <2>2
        <4> QED BY <1>3, <4>1
      <3>3. Stacked(l) /\ frames[l]' = frames[l] /\ Depth' \in Nat
        BY <1>1, <2>2 DEF ReturnInv
      <3> QED BY <3>1, <3>2, <3>3, StackedSame
    <2> QED BY <2>1, <2>2
  <1>8. Bottom'
    <2>1. Ctx(0)' = Ctx(0) /\ Bottom
      BY <1>1, <1>2 DEF ReturnInv
    <2>2. CASE Ctx(0).pc # "boot"
      BY <2>1, <2>2 DEF Bottom
    <2>3. CASE Ctx(0).pc = "boot"
      <3>1. At(1) = "D" /\ mstatus.MPP = U /\ epc["M"] = "main" /\ 1 \in 1 .. n
        BY <1>1, <2>1, <2>3 DEF Bottom
      <3>2. at = "D" /\ At(1)' = "D"
        BY <1>1, <1>3, <3>1
      <3> QED BY <2>1, <3>1, <3>2 DEF Bottom
    <2> QED BY <2>2, <2>3
  <1> QED BY <1>4, <1>5, <1>6, <1>7, <1>8 DEF ReturnInv

\* The handler saves its registers in a new frame.
LEMMA FramePushed ==
    ASSUME Inv, WaitingOK, ReturnInv, Depth # 0, UNCHANGED waiting,
           NEW l \in Levels, l = At(Depth), pc # "open", pc' = "open",
           NEW r, frames'[l] = <<r>> \o frames[l], Leads(r, l, Ctx(Depth - 1))
    PROVE  Stacked(l)'
  <1> PICK n : n = Depth
    OBVIOUS
  <1> DEFINE m == Len(frames[l])
  <1>1. /\ n \in Nat /\ Depth' = n
        /\ \A e \in 1 .. n : At(e)' = At(e)
        /\ \A e \in 0 .. n - 1 : Ctx(e)' = Ctx(e)
        /\ Ctx(n)' = Context' /\ Ctx(n) = Context
    BY Stayed
  <1>2. Context.pc = pc /\ Context.pc' = "open" /\ n \in 1 .. n
    BY <1>1 DEF Context
  <1>3. PICK hi \in 0 .. n :
            /\ Opened(l) = hi - m + 1 .. hi
            /\ \A i \in DOMAIN frames[l] : Leads(frames[l][i], l, Ctx(hi - i))
    BY DEF ReturnInv, Stacked
  <1>4. m \in Nat /\ DOMAIN frames[l] = 1 .. m /\ frames[l] \in Seq(Frame)
    BY DEF Inv, FramesOK
  <1> HIDE DEF m
  <1>5. m = 0 \/ hi = n - 1
    <2> SUFFICES ASSUME m # 0 PROVE hi = n - 1
      OBVIOUS
    <2>1. hi \in Opened(l)
      BY <1>3, <1>4
    <2>2. hi \in 1 .. n /\ At(hi) = l /\ hi # n
      BY <1>1, <1>2, <2>1 DEF Opened
    <2> SUFFICES ASSUME hi < n - 1 PROVE FALSE
      BY <1>1, <2>2
    <2>3. n - 1 \in 1 .. n /\ hi < n - 1 /\ n - 1 < n
      BY <1>1, <2>2
    <2>4. Height(At(hi)) <= Height(At(n - 1)) /\ Height(At(n - 1)) <= Height(At(n))
      BY <1>2, <2>2, <2>3 DEF ReturnInv, Ordered
    <2>5. At(n - 1) = l
      BY <1>2, <2>2, <2>3, <2>4, Heights, EntriesTyped
    <2>6. n - 1 \in Opened(l)
      BY <1>2, <2>3, <2>5 DEF ReturnInv, Ordered, Opened
    <2> QED BY <1>3, <2>3, <2>6
  <1>6. Opened(l) = n - m .. n - 1
    BY <1>1, <1>3, <1>4, <1>5
  <1>7. Opened(l)' = n - (m + 1) + 1 .. n
    <2>1. Opened(l)' = Opened(l) \cup {n}
      <3>1. \A e \in 1 .. n - 1 : (At(e) = l /\ Ctx(e).pc = "open")' <=> At(e) = l /\ Ctx(e).pc = "open"
        <4>1. \A e \in 1 .. n - 1 : e \in 1 .. n /\ e \in 0 .. n - 1
          BY <1>1
        <4> QED BY <1>1, <4>1
      <3>2. (At(n) = l /\ Ctx(n).pc = "open")' /\ ~(Ctx(n).pc = "open")
        BY <1>1, <1>2
      <3>3. 1 .. n = (1 .. n - 1) \cup {n}
        BY <1>1, <1>2
      <3>4. Opened(l)' = {e \in 1 .. n : (At(e) = l /\ Ctx(e).pc = "open")'}
        BY <1>1 DEF Opened
      <3>5. Opened(l) = {e \in 1 .. n : At(e) = l /\ Ctx(e).pc = "open"}
        BY DEF Opened
      <3> QED BY <3>1, <3>2, <3>3, <3>4, <3>5
    <2>2. n - (m + 1) + 1 = n - m
      BY <1>1, <1>4
    <2> QED BY <1>1, <1>4, <1>6, <2>1, <2>2
  <1>8. /\ Len(frames'[l]) = m + 1 /\ DOMAIN frames'[l] = 1 .. m + 1 /\ frames'[l][1] = r
        /\ \A i \in 1 .. m : frames'[l][i + 1] = frames[l][i]
    BY <1>4 DEF m
  <1>9. ASSUME NEW i \in 1 .. m + 1 PROVE Leads(frames[l][i], l, Ctx(n - i))'
    <2>1. CASE i = 1
      <3>1. n - 1 \in 0 .. n - 1
        BY <1>1, <1>2
      <3>2. Ctx(n - i)' = Ctx(n - 1) /\ frames'[l][i] = r
        BY <1>1, <1>8, <2>1, <3>1
      <3> QED BY <3>2 DEF Leads, IeOf
    <2>2. CASE i # 1
      <3> PICK j : j = i - 1
        OBVIOUS
      <3>1. j \in 1 .. m /\ i = j + 1 /\ n - i = hi - j /\ m # 0
        BY <1>1, <1>4, <1>5, <2>2
      <3>2. hi - j \in 0 .. n - 1
        <4>1. hi - j + 1 \in Opened(l)
          BY <1>3, <1>4, <3>1
        <4>2. hi - j + 1 \in 1 .. n
          BY <4>1 DEF Opened
        <4> QED BY <1>1, <1>3, <3>1, <4>2
      <3>3. frames'[l][i] = frames[l][j] /\ Ctx(n - i)' = Ctx(hi - j)
        BY <1>1, <1>8, <3>1, <3>2
      <3>4. Leads(frames[l][j], l, Ctx(hi - j))
        BY <1>3, <1>4, <3>1
      <3> QED BY <3>3, <3>4 DEF Leads, IeOf
    <2> QED BY <2>1, <2>2
  <1>10. n \in 0 .. Depth'
    BY <1>1
  <1> QED BY <1>1, <1>7, <1>8, <1>9, <1>10 DEF Stacked

\* The frame on top is that of the running handler, and the rest remains.
LEMMA FramePopped ==
    ASSUME Inv, WaitingOK, ReturnInv, Depth # 0, UNCHANGED waiting,
           NEW l \in Levels, l = At(Depth), pc = "open", pc' # "open",
           frames[l] # <<>>, frames'[l] = Tail(frames[l])
    PROVE  Leads(Head(frames[l]), l, Ctx(Depth - 1)) /\ Stacked(l)'
  <1> PICK n : n = Depth
    OBVIOUS
  <1> DEFINE m == Len(frames[l])
  <1>1. /\ n \in Nat /\ Depth' = n
        /\ \A e \in 1 .. n : At(e)' = At(e)
        /\ \A e \in 0 .. n - 1 : Ctx(e)' = Ctx(e)
        /\ Ctx(n)' = Context' /\ Ctx(n) = Context
    BY Stayed
  <1>2. Context.pc = "open" /\ Context.pc' # "open" /\ n \in 1 .. n
    BY <1>1 DEF Context
  <1>3. PICK hi \in 0 .. n :
            /\ Opened(l) = hi - m + 1 .. hi
            /\ \A i \in DOMAIN frames[l] : Leads(frames[l][i], l, Ctx(hi - i))
    BY DEF ReturnInv, Stacked
  <1>4. m \in Nat /\ m # 0 /\ DOMAIN frames[l] = 1 .. m /\ frames[l] \in Seq(Frame)
    BY DEF Inv, FramesOK
  <1>5. hi = n
    <2>1. n \in Opened(l)
      BY <1>1, <1>2 DEF Opened
    <2> QED BY <1>1, <1>3, <1>4, <2>1
  <1>6. Leads(Head(frames[l]), l, Ctx(n - 1))
    BY <1>3, <1>4, <1>5
  <1>7. /\ Len(frames'[l]) = m - 1 /\ DOMAIN frames'[l] = 1 .. m - 1
        /\ \A i \in 1 .. m - 1 : frames'[l][i] = frames[l][i + 1]
    BY <1>4
  <1> HIDE DEF m
  <1>8. Opened(l)' = (n - 1) - (m - 1) + 1 .. n - 1
    <2>1. Opened(l)' = Opened(l) \ {n}
      <3>1. \A e \in 1 .. n - 1 : (At(e) = l /\ Ctx(e).pc = "open")' <=> At(e) = l /\ Ctx(e).pc = "open"
        <4>1. \A e \in 1 .. n - 1 : e \in 1 .. n /\ e \in 0 .. n - 1
          BY <1>1
        <4> QED BY <1>1, <4>1
      <3>2. ~(At(n) = l /\ Ctx(n).pc = "open")'
        BY <1>1, <1>2
      <3>3. 1 .. n = (1 .. n - 1) \cup {n} /\ n \notin 1 .. n - 1
        BY <1>1, <1>2
      <3>4. Opened(l)' = {e \in 1 .. n : (At(e) = l /\ Ctx(e).pc = "open")'}
        BY <1>1 DEF Opened
      <3>5. Opened(l) = {e \in 1 .. n : At(e) = l /\ Ctx(e).pc = "open"}
        BY DEF Opened
      <3> QED BY <3>1, <3>2, <3>3, <3>4, <3>5
    <2>2. (n - 1) - (m - 1) + 1 = n - m + 1
      BY <1>1, <1>4
    <2> QED BY <1>1, <1>3, <1>4, <1>5, <2>1, <2>2
  <1>9. ASSUME NEW i \in 1 .. m - 1 PROVE Leads(frames[l][i], l, Ctx((n - 1) - i))'
    <2> PICK j : j = i + 1
      OBVIOUS
    <2>1. j \in 1 .. m /\ (n - 1) - i = n - j
      BY <1>1, <1>4
    <2>2. n - j \in 0 .. n - 1
      <3>1. n - j + 1 \in Opened(l)
        BY <1>1, <1>3, <1>4, <1>5, <2>1
      <3>2. n - j + 1 \in 1 .. n
        BY <3>1 DEF Opened
      <3> QED BY <1>1, <2>1, <3>2
    <2>3. frames'[l][i] = frames[l][j] /\ Ctx((n - 1) - i)' = Ctx(n - j)
      BY <1>1, <1>7, <2>1, <2>2
    <2>4. Leads(frames[l][j], l, Ctx(n - j))
      BY <1>3, <1>4, <1>5, <2>1
    <2> QED BY <2>3, <2>4 DEF Leads, IeOf
  <1>10. n - 1 \in 0 .. Depth'
    BY <1>1, <1>2
  <1>11. Stacked(l)'
    BY <1>1, <1>7, <1>8, <1>9, <1>10 DEF Stacked
  <1> QED BY <1>6, <1>11

\* The software prepares a return to the program, and nothing else waits.
LEMMA ResetKeeps ==
    ASSUME NEW at \in {"M", "D"}, NEW by, NEW c,
           waiting' = <<[at |-> at, by |-> by, context |-> c]>>,
           \A l \in Levels : frames'[l] = <<>>,
           ~c.debug, c.prv = U, c.pc = "main", pc' # "open",
           Runs(at, Context)', Carried(at, Context', c),
           at = "M" => Leads(Saved(at)', at, c),
           at = "D" => dpc' = c.pc /\ dcsr' = [prv |-> c.prv, v |-> c.v]
    PROVE  ReturnInv'
  <1>1. Depth' = 1 /\ At(1)' = at /\ Ctx(0)' = c /\ Ctx(1)' = Context'
    BY Restarted
  <1>2. Ctx(1 - 1)' = c /\ 1 .. 1 = {1} /\ Context.pc' = pc'
    BY <1>1 DEF Context
  <1>3. Bottom'
    BY <1>1 DEF Bottom
  <1>4. Ordered'
    BY <1>1 DEF Ordered
  <1>5. Chain'
    <2>1. Runs(At(1), Ctx(1))'
      BY <1>1 DEF Runs, LevelOf, IeOf, DtOf, CatchesDt, henvcfg_dte
    <2>2. Carried(At(1), Ctx(1), Ctx(1 - 1))'
      BY <1>1, <1>2 DEF Carried, SdtKept, VsdtKept
    <2> QED BY <1>1, <1>2, <2>1, <2>2 DEF Chain
  <1>6. Registers'
    <2>1. Saved(At(1))' = Saved(at)'
      BY <1>1 DEF Saved
    <2>2. Holds(At(1), Ctx(1), Ctx(1 - 1))'
      BY <1>1, <1>2, <2>1 DEF Holds, Leads, IeOf
    <2> QED BY <1>1, <1>2, <2>2 DEF Registers
  <1>7. ASSUME NEW l \in Levels PROVE Stacked(l)'
    <2>1. Opened(l)' = {}
      BY <1>1, <1>2 DEF Opened
    <2>2. /\ Len(frames'[l]) = 0 /\ DOMAIN frames'[l] = {} /\ 0 \in 0 .. Depth'
          /\ 0 - 0 + 1 .. 0 = {}
      BY <1>1
    <2> QED BY <2>1, <2>2 DEF Stacked
  <1> QED BY <1>3, <1>4, <1>5, <1>6, <1>7 DEF ReturnInv
-----------------------------------------------------------------------------

\* A write keeps what it is not about.
LEMMA MstatusKept ==
    ASSUME config \in Config, NEW val \in Mstatus
    PROVE  LET r == mstatus_write(val)
           IN  /\ r.SPIE = val.SPIE /\ r.SPP = val.SPP
               /\ r.MPIE = val.MPIE /\ r.MPP = val.MPP /\ r.MPV = val.MPV
  BY DEF mstatus_write, Mstatus, Config

\* A write of sstatus keeps the fields of M.
LEMMA SstatusKept ==
    ASSUME config \in Config, NEW old \in Mstatus, NEW val \in Supervisor
    PROVE  LET r == sstatus_write(old, val)
           IN  /\ r.SPIE = val.SPIE /\ r.SPP = val.SPP
               /\ r.MPIE = old.MPIE /\ r.MPP = old.MPP /\ r.MPV = old.MPV
  <1> DEFINE new == [old EXCEPT !.SIE = val.SIE, !.SPIE = val.SPIE, !.SPP = val.SPP,
                                !.SDT = IF config.menvcfg_dte THEN val.SDT ELSE @]
  <1>1. /\ new \in Mstatus /\ new.SPIE = val.SPIE /\ new.SPP = val.SPP
        /\ new.MPIE = old.MPIE /\ new.MPP = old.MPP /\ new.MPV = old.MPV
    BY DEF Mstatus, Supervisor, Config
  <1> HIDE DEF new
  <1> QED BY <1>1, MstatusKept DEF sstatus_write, new

\* A write of vsstatus sets the fields of the return.
LEMMA VsstatusKept ==
    ASSUME config \in Config, NEW old \in Supervisor, NEW val \in Supervisor
    PROVE  LET r == vsstatus_write(old, val)
           IN  r.SPIE = val.SPIE /\ r.SPP = val.SPP
  BY DEF vsstatus_write, Supervisor, Config, henvcfg_dte

\* Reads hide nothing but SDT.
LEMMA ReadsKept ==
    ASSUME config \in Config, mstatus \in Mstatus, vsstatus \in Supervisor
    PROVE  /\ sstatus_read.SIE = mstatus.SIE
           /\ sstatus_read.SPIE = mstatus.SPIE /\ sstatus_read.SPP = mstatus.SPP
           /\ vsstatus_read.SIE = vsstatus.SIE
           /\ vsstatus_read.SPIE = vsstatus.SPIE /\ vsstatus_read.SPP = vsstatus.SPP
  BY DEF sstatus_read, vsstatus_read, henvcfg_dte, Mstatus, Supervisor, Config

\* The context, field by field, before and after a step.
LEMMA ContextFields ==
    /\ Context.prv = prv /\ Context.v = v /\ Context.pc = pc /\ Context.debug = debug_mode
    /\ Context.MIE = mstatus.MIE /\ Context.MDT = mstatus.MDT
    /\ Context.SIE = mstatus.SIE /\ Context.SDT = mstatus.SDT
    /\ Context.vSIE = vsstatus.SIE /\ Context.vSDT = vsstatus.SDT
    /\ Context'.prv = prv' /\ Context'.v = v' /\ Context'.pc = pc' /\ Context'.debug = debug_mode'
    /\ Context'.MIE = mstatus'.MIE /\ Context'.MDT = mstatus'.MDT
    /\ Context'.SIE = mstatus'.SIE /\ Context'.SDT = mstatus'.SDT
    /\ Context'.vSIE = vsstatus'.SIE /\ Context'.vSDT = vsstatus'.SDT
  BY DEF Context

\* A context is its fields.
LEMMA SameContext ==
    ASSUME NEW c \in ContextType, NEW d \in ContextType,
           c.prv = d.prv, c.v = d.v, c.pc = d.pc, c.debug = d.debug, c.MIE = d.MIE,
           c.MDT = d.MDT, c.SIE = d.SIE, c.SDT = d.SDT, c.vSIE = d.vSIE, c.vSDT = d.vSDT
    PROVE  c = d
  BY DEF ContextType

\* The registers of a level that its handler saves, field by field.
LEMMA SavedFields ==
    ASSUME NEW l \in Levels
    PROVE  /\ Saved(l).epc = epc[l] /\ Saved(l)'.epc = epc'[l]
           /\ l = "M"  => /\ Saved(l).pie = mstatus.MPIE /\ Saved(l).pp = mstatus.MPP
                          /\ Saved(l).pv = mstatus.MPV
                          /\ Saved(l)'.pie = mstatus'.MPIE /\ Saved(l)'.pp = mstatus'.MPP
                          /\ Saved(l)'.pv = mstatus'.MPV
           /\ l = "HS" => /\ Saved(l).pie = mstatus.SPIE /\ Saved(l).pp = mstatus.SPP
                          /\ Saved(l).pv = hstatus.SPV
                          /\ Saved(l)'.pie = mstatus'.SPIE /\ Saved(l)'.pp = mstatus'.SPP
                          /\ Saved(l)'.pv = hstatus'.SPV
           /\ l = "VS" => /\ Saved(l).pie = vsstatus.SPIE /\ Saved(l).pp = vsstatus.SPP
                          /\ Saved(l).pv = TRUE
                          /\ Saved(l)'.pie = vsstatus'.SPIE /\ Saved(l)'.pp = vsstatus'.SPP
                          /\ Saved(l)'.pv = TRUE
  BY DEF Saved, Levels

\* The registers of a level that a step leaves alone.
LEMMA SavedSame ==
    ASSUME NEW l \in Levels, epc'[l] = epc[l],
           l = "M" => /\ mstatus'.MPIE = mstatus.MPIE /\ mstatus'.MPP = mstatus.MPP
                      /\ mstatus'.MPV = mstatus.MPV,
           l = "HS" => /\ mstatus'.SPIE = mstatus.SPIE /\ mstatus'.SPP = mstatus.SPP
                       /\ hstatus'.SPV = hstatus.SPV,
           l = "VS" => vsstatus'.SPIE = vsstatus.SPIE /\ vsstatus'.SPP = vsstatus.SPP
    PROVE  Saved(l)' = Saved(l)
  BY DEF Saved, Levels

\* A double trap bit that the hart does not have is not set.
MdtMasked == mstatus.MDT => config.smdbltrp

\* The handler that runs, when its registers are not saved, or the boot code.
LEMMA Closed ==
    ASSUME Inv, WaitingOK, ReturnInv, ~debug_mode, NEW l \in Levels, l = LevelOf(Context),
           pc # "open"
    PROVE  /\ pc \in {"vector", "leave", "boot"}
           /\ ~IeOf(Context, l) /\ DtOf(Context, l) = CatchesDt(l)
  <1>1. CASE Depth = 0
    <2>1. Bottom /\ Ctx(0) = Context
      BY <1>1 DEF ReturnInv, Ctx
    <2>2. prv # U
      BY ContextFields DEF LevelOf, Levels, U, M
    <2>3. pc = "boot" /\ prv = M
      BY <2>1, <2>2, ContextFields DEF Bottom
    <2>4. l = "M" /\ ~mstatus.MIE /\ mstatus.MDT = config.smdbltrp
      BY <2>3, ContextFields DEF LevelOf, Inv, Booting
    <2> QED BY <2>3, <2>4, ContextFields DEF IeOf, DtOf, CatchesDt
  <1>2. CASE Depth # 0
    <2>1. Runs(l, Context) /\ l # "D"
      BY <1>2, Top DEF Levels
    <2> QED BY <2>1, ContextFields DEF Runs
  <1> QED BY <1>1, <1>2
-----------------------------------------------------------------------------

\* What is left to show of a trap to level at.
LEMMA TrapKeeps ==
    ASSUME Inv, WaitingOK, ReturnInv, ~debug_mode, UNCHANGED <<config, frames>>,
           NEW at \in Levels, NEW by, Push(at, by),
           Height(LevelOf(Context)) <= Height(at), LevelOf(Context) = at => pc = "open",
           pc' = "vector", Runs(at, Context)', Carried(at, Context', Context),
           \A l \in Levels \ {at} : Saved(l)' = Saved(l),
           Leads(Saved(at)', at, Context)
    PROVE  ReturnInv'
  <1>1. at # "D" /\ at \in Levels \cup {"D"}
    BY DEF Levels
  <1>2. pc # "boot"
    <2> SUFFICES ASSUME pc = "boot" PROVE FALSE
      OBVIOUS
    <2>1. prv = M
      BY DEF Inv, Booting
    <2>2. LevelOf(Context) = "M"
      BY <2>1, ContextFields DEF LevelOf
    <2>3. at = "M"
      BY <2>2 DEF Levels, Height
    <2> QED BY <2>2, <2>3
  <1> QED BY <1>1, <1>2, PushKeeps

\* A trap to VS.
LEMMA ReturnVs ==
    ASSUME Inv, WaitingOK, ReturnInv, MdtMasked, ~debug_mode, UNCHANGED <<config, frames>>,
           NEW code, vsdeleg(code), ~supv_double_trap(code), trap_to_vs(code),
           LevelOf(Context) = "VS" => pc = "open"
    PROVE  ReturnInv' /\ MdtMasked'
  <1> DEFINE val == [SIE |-> FALSE, SPIE |-> vsstatus_read.SIE, SPP |-> prv,
                     SDT |-> vsstatus_read.SDT \/ henvcfg_dte]
  <1>1. prv \in {U, S} /\ v = TRUE
    BY DEF Inv, TypeOK, vsdeleg, U, S, M
  <1>2. /\ config \in Config /\ mstatus \in Mstatus /\ vsstatus \in Supervisor
        /\ henvcfg_dte \in BOOLEAN
    BY ReadsTyped DEF Inv, TypeOK
  <1>3. /\ val \in Supervisor /\ vsstatus_read.SDT = (vsstatus.SDT /\ henvcfg_dte)
        /\ val.SIE = FALSE /\ val.SPIE = vsstatus.SIE /\ val.SPP = prv
        /\ val.SDT = (vsstatus_read.SDT \/ henvcfg_dte)
    BY <1>1, <1>2, ReadsTyped, ReadsKept DEF Supervisor
  <1>4. ~vsstatus.SDT /\ ~vsstatus_read.SDT
    <2>1. ~vsstatus_read.SDT
      BY DEF supv_double_trap
    <2> QED BY <1>2, <1>3, <2>1 DEF Inv, HiddenClear
  <1>5. /\ vsstatus' = vsstatus_write(vsstatus, val) /\ pc' = "vector"
        /\ epc' = [epc EXCEPT !["VS"] = pc] /\ prv' = S /\ v' = (TRUE /\ S # M)
        /\ Push("VS", code)
        /\ UNCHANGED <<mstatus, hstatus, debug_mode>>
    BY DEF trap_to_vs, set_privilege
  <1> HIDE DEF val
  <1>6. /\ vsstatus' \in Supervisor
        /\ vsstatus'.SDT = henvcfg_dte /\ ~vsstatus'.SIE
        /\ vsstatus'.SPIE = vsstatus.SIE /\ vsstatus'.SPP = prv
    <2>1. /\ vsstatus' \in Supervisor
          /\ vsstatus'.SDT = (IF henvcfg_dte THEN val.SDT ELSE vsstatus.SDT)
          /\ vsstatus'.SIE = (val.SIE /\ ~vsstatus'.SDT)
          /\ vsstatus'.SPIE = val.SPIE /\ vsstatus'.SPP = val.SPP
      BY <1>2, <1>3, <1>5, VsstatusWrite, VsstatusKept
    <2>2. ~vsstatus'.SIE
      BY <1>3, <2>1
    <2>3. vsstatus'.SDT = henvcfg_dte
      BY <1>2, <1>3, <1>4, <2>1 DEF Supervisor
    <2> QED BY <1>3, <2>1, <2>2, <2>3
  <1>7. v' = TRUE
    <2>1. S # M
      BY DEF S, M
    <2> QED BY <1>5, <2>1
  <1>8. "VS" \in Levels /\ Height(LevelOf(Context)) <= Height("VS")
    BY <1>1, ContextFields DEF LevelOf, Height, Levels, U, S, M
  <1>9. Runs("VS", Context)'
    <2>1. LevelOf(Context)' = "VS"
      BY <1>5, <1>7, ContextFields DEF LevelOf, U, S, M
    <2>2. ~IeOf(Context, "VS")' /\ DtOf(Context, "VS")' = CatchesDt("VS")'
      BY <1>6, ContextFields DEF IeOf, DtOf, CatchesDt, henvcfg_dte
    <2> QED BY <1>5, <2>1, <2>2, ContextFields DEF Runs
  <1>10. Carried("VS", Context', Context)
    BY <1>1, <1>4, <1>5, ContextFields DEF Carried, U, S, M
  <1>11. \A l \in Levels \ {"VS"} : Saved(l)' = Saved(l)
    BY <1>5, SavedSame DEF Inv, TypeOK
  <1>12. Leads(Saved("VS")', "VS", Context)
    <2>1. epc'["VS"] = pc
      BY <1>5, <1>8 DEF Inv, TypeOK
    <2> QED BY <1>1, <1>6, <1>8, <2>1, SavedFields, ContextFields DEF Leads, IeOf
  <1>13. ReturnInv'
    BY <1>5, <1>8, <1>9, <1>10, <1>11, <1>12, TrapKeeps
  <1> QED BY <1>5, <1>13 DEF MdtMasked

\* A trap to HS.
LEMMA ReturnHs ==
    ASSUME Inv, WaitingOK, ReturnInv, MdtMasked, ~debug_mode, UNCHANGED <<config, frames>>,
           NEW code, hsdeleg(code), ~vsdeleg(code), ~supv_double_trap(code), trap_to_hs(code),
           LevelOf(Context) = "HS" => pc = "open"
    PROVE  ReturnInv' /\ MdtMasked'
  <1> DEFINE val == [SIE |-> FALSE, SPIE |-> mstatus.SIE, SPP |-> prv,
                     SDT |-> sstatus_read.SDT \/ config.menvcfg_dte]
  <1>1. prv \in {U, S} /\ v \in BOOLEAN
    BY DEF Inv, TypeOK, hsdeleg, U, S, M
  <1>2. /\ config \in Config /\ mstatus \in Mstatus /\ vsstatus \in Supervisor
        /\ config.menvcfg_dte \in BOOLEAN
    BY DEF Inv, TypeOK, Config
  <1>3. /\ val \in Supervisor /\ sstatus_read.SDT = (mstatus.SDT /\ config.menvcfg_dte)
        /\ val.SIE = FALSE /\ val.SPIE = mstatus.SIE /\ val.SPP = prv
        /\ val.SDT = (sstatus_read.SDT \/ config.menvcfg_dte)
    BY <1>1, <1>2, ReadsTyped DEF Supervisor, Mstatus
  <1>4. ~mstatus.SDT /\ ~sstatus_read.SDT /\ ~mstatus.MDT
    <2>1. ~sstatus_read.SDT
      BY DEF supv_double_trap
    <2> QED BY <1>1, <1>2, <1>3, <2>1 DEF Inv, HiddenClear, DoubleTrapBits, U, S, M
  <1>5. /\ mstatus' = sstatus_write(mstatus, val) /\ pc' = "vector"
        /\ epc' = [epc EXCEPT !["HS"] = pc] /\ prv' = S /\ ~v' /\ hstatus' = [SPV |-> v]
        /\ Push("HS", code)
        /\ UNCHANGED <<vsstatus, debug_mode>>
    BY DEF trap_to_hs, set_privilege
  <1> HIDE DEF val
  <1>6. /\ mstatus' \in Mstatus
        /\ mstatus'.SDT = config.menvcfg_dte /\ ~mstatus'.SIE /\ ~mstatus'.MDT
        /\ mstatus'.MIE = mstatus.MIE
    <2>1. /\ mstatus' \in Mstatus
          /\ mstatus'.SDT = (IF config.menvcfg_dte THEN val.SDT ELSE mstatus.SDT)
          /\ mstatus'.MDT = (mstatus.MDT /\ config.smdbltrp)
          /\ mstatus'.MIE = (mstatus.MIE /\ ~mstatus'.MDT)
          /\ mstatus'.SIE = (val.SIE /\ ~mstatus'.SDT)
      BY <1>2, <1>3, <1>5, SstatusWrite
    <2>2. ~mstatus'.SIE /\ ~mstatus'.MDT
      BY <1>3, <1>4, <2>1
    <2>3. mstatus'.SDT = config.menvcfg_dte
      BY <1>2, <1>3, <1>4, <2>1 DEF Mstatus
    <2>4. mstatus'.MIE = mstatus.MIE
      BY <1>2, <2>1, <2>2 DEF Mstatus
    <2> QED BY <2>1, <2>2, <2>3, <2>4
  <1>7. /\ mstatus'.SPIE = mstatus.SIE /\ mstatus'.SPP = prv
        /\ mstatus'.MPIE = mstatus.MPIE /\ mstatus'.MPP = mstatus.MPP /\ mstatus'.MPV = mstatus.MPV
    BY <1>2, <1>3, <1>5, SstatusKept
  <1>8. "HS" \in Levels /\ Height(LevelOf(Context)) <= Height("HS")
    BY <1>1, ContextFields DEF LevelOf, Height, Levels, U, S, M
  <1>9. Runs("HS", Context)'
    <2>1. LevelOf(Context)' = "HS"
      BY <1>5, ContextFields DEF LevelOf, U, S, M
    <2>2. ~IeOf(Context, "HS")' /\ DtOf(Context, "HS")' = CatchesDt("HS")'
      BY <1>6, ContextFields DEF IeOf, DtOf, CatchesDt
    <2> QED BY <1>5, <2>1, <2>2, ContextFields DEF Runs
  <1>10. Carried("HS", Context', Context)
    <2>1. mstatus'.MDT = mstatus.MDT
      BY <1>2, <1>4, <1>6 DEF Mstatus
    <2>2. VsdtKept(Context', Context)
      BY <1>1, <1>2, <1>5, ContextFields DEF VsdtKept, Inv, DoubleTrapBits, Supervisor
    <2> QED BY <1>1, <1>4, <1>5, <1>6, <2>1, <2>2, ContextFields DEF Carried, U, S, M
  <1>11. \A l \in Levels \ {"HS"} : Saved(l)' = Saved(l)
    BY <1>5, <1>7, SavedSame DEF Inv, TypeOK
  <1>12. Leads(Saved("HS")', "HS", Context)
    <2>1. epc'["HS"] = pc /\ hstatus'.SPV = v
      BY <1>5, <1>8 DEF Inv, TypeOK
    <2> QED BY <1>7, <1>8, <2>1, SavedFields, ContextFields DEF Leads, IeOf
  <1>13. ReturnInv'
    BY <1>5, <1>8, <1>9, <1>10, <1>11, <1>12, TrapKeeps
  <1> QED BY <1>6, <1>13 DEF MdtMasked

\* Entering debug mode, on request or for a critical error.
LEMMA ReturnDebug ==
    ASSUME Inv, WaitingOK, ReturnInv, MdtMasked, ~debug_mode, UNCHANGED <<config, frames>>,
           enter_debug_mode
    PROVE  ReturnInv' /\ MdtMasked'
  <1>1. /\ mstatus \in Mstatus /\ vsstatus \in Supervisor /\ prv \in {U, S, M} /\ v \in BOOLEAN
        /\ DoubleTrapBits /\ (prv = M => ~v)
    BY DEF Inv, TypeOK, DebugOK
  <1>2. /\ debug_mode' = TRUE /\ dcsr' = [prv |-> prv, v |-> v] /\ dpc' = pc
        /\ prv' = M /\ ~v' /\ pc' = "rom" /\ Push("D", "debug")
        /\ UNCHANGED <<mstatus, vsstatus, hstatus, epc>>
    BY DEF enter_debug_mode, set_privilege
  <1>3. Height(LevelOf(Context)) <= Height("D") /\ LevelOf(Context) # "D"
    BY <1>1, ContextFields DEF LevelOf, Height
  <1>4. Runs("D", Context)'
    BY <1>2, ContextFields DEF Runs, LevelOf
  <1>5. Carried("D", Context', Context)
    <2>1. SdtKept(Context', Context) /\ VsdtKept(Context', Context)
      BY <1>1, <1>2, ContextFields DEF SdtKept, VsdtKept, DoubleTrapBits, Mstatus, Supervisor
    <2>2. Context.MDT = (Context'.MDT /\ Context.prv = M)
      BY <1>1, <1>2, ContextFields DEF DoubleTrapBits, Mstatus
    <2> QED BY <1>1, <1>2, <2>1, <2>2, ContextFields DEF Carried
  <1>6. \A l \in Levels : Saved(l)' = Saved(l)
    BY <1>2, SavedSame
  <1>7. ReturnInv'
    BY <1>2, <1>3, <1>4, <1>5, <1>6, PushKeeps
  <1> QED BY <1>2, <1>7 DEF MdtMasked

\* Nothing that the invariant is about changes.
LEMMA ReturnSame ==
    ASSUME Inv, WaitingOK, ReturnInv, MdtMasked,
           UNCHANGED <<config, prv, v, debug_mode, pc, mstatus, vsstatus, hstatus,
                       epc, dcsr, dpc, frames, waiting>>
    PROVE  ReturnInv' /\ MdtMasked'
  <1>1. /\ Depth' = Depth /\ Context' = Context
        /\ \A e : At(e)' = At(e)
    BY DEF Depth, At, Context
  <1>2. \A e : Ctx(e)' = Ctx(e)
    BY <1>1 DEF Ctx
  <1>3. Bottom'
    BY <1>1, <1>2 DEF ReturnInv, Bottom
  <1>4. Ordered'
    BY <1>1, <1>2 DEF ReturnInv, Ordered, Height
  <1>5. Chain'
    <2> SUFFICES ASSUME NEW e \in 1 .. Depth
                 PROVE  (Runs(At(e), Ctx(e)) /\ Carried(At(e), Ctx(e), Ctx(e - 1)))'
      BY <1>1 DEF Chain
    <2> QED BY <1>1, <1>2, ChainSame DEF ReturnInv, Chain
  <1>6. Registers'
    <2> SUFFICES ASSUME NEW e \in 1 .. Depth
                 PROVE  Holds(At(e), Ctx(e), Ctx(e - 1))'
      BY <1>1 DEF Registers
    <2>1. Holds(At(e), Ctx(e), Ctx(e - 1))
      BY DEF ReturnInv, Registers
    <2>2. CASE At(e) = "D"
      BY <1>1, <1>2, <2>1, <2>2 DEF Holds
    <2>3. CASE At(e) # "D"
      <3> PICK l : l = At(e)
        OBVIOUS
      <3>1. Saved(l)' = Saved(l)
        BY DEF Saved
      <3> QED BY <1>1, <1>2, <2>1, <2>3, <3>1, HoldsSame
    <2> QED BY <2>2, <2>3
  <1>7. ASSUME NEW l \in Levels PROVE Stacked(l)'
    <2>1. Opened(l)' = Opened(l)
      <3>1. Opened(l)' = {e \in 1 .. Depth : (At(e) = l /\ Ctx(e).pc = "open")'}
        BY <1>1 DEF Opened
      <3>2. Opened(l) = {e \in 1 .. Depth : At(e) = l /\ Ctx(e).pc = "open"}
        BY DEF Opened
      <3> QED BY <1>1, <1>2, <3>1, <3>2
    <2>2. Depth' \in Nat /\ \A e \in Opened(l) : e <= Depth'
      BY <1>1, EntriesTyped DEF Opened
    <2>3. Stacked(l)
      BY DEF ReturnInv
    <2> QED BY <1>2, <2>1, <2>2, <2>3, StackedSame
  <1>8. ReturnInv'
    BY <1>3, <1>4, <1>5, <1>6, <1>7 DEF ReturnInv
  <1> QED BY <1>8 DEF MdtMasked

\* A trap to M, or a critical error.
LEMMA ReturnM ==
    ASSUME Inv, WaitingOK, ReturnInv, MdtMasked, ~debug_mode, UNCHANGED <<config, frames>>,
           NEW code, trap_to_m(code),
           ~(config.smdbltrp /\ mstatus.MDT) /\ LevelOf(Context) = "M" => pc = "open"
    PROVE  ReturnInv' /\ MdtMasked'
  <1>1. CASE config.smdbltrp /\ mstatus.MDT
    BY <1>1, ReturnSame DEF trap_to_m
  <1>2. CASE ~(config.smdbltrp /\ mstatus.MDT)
    <2> DEFINE val == [mstatus EXCEPT !.MDT = config.smdbltrp, !.MPIE = mstatus.MIE, !.MPP = prv,
                                      !.MIE = FALSE, !.MPV = v]
    <2>1. /\ config \in Config /\ mstatus \in Mstatus /\ vsstatus \in Supervisor
          /\ prv \in {U, S, M} /\ v \in BOOLEAN /\ config.smdbltrp \in BOOLEAN
          /\ DoubleTrapBits /\ (prv = M => ~v)
      BY DEF Inv, TypeOK, DebugOK, Config
    <2>2. /\ val \in Mstatus /\ val.SDT = mstatus.SDT /\ val.SIE = mstatus.SIE
          /\ val.MIE = FALSE /\ val.MDT = config.smdbltrp
          /\ val.MPIE = mstatus.MIE /\ val.MPP = prv /\ val.MPV = v
          /\ val.SPIE = mstatus.SPIE /\ val.SPP = mstatus.SPP
      BY <2>1 DEF Mstatus, Config
    <2> HIDE DEF val
    <2>3. /\ mstatus' = mstatus_write(val) /\ pc' = "vector" /\ epc' = [epc EXCEPT !["M"] = pc]
          /\ prv' = M /\ v' = FALSE /\ Push("M", code)
          /\ UNCHANGED <<vsstatus, hstatus, debug_mode>>
      BY <1>2 DEF trap_to_m, val, set_privilege
    <2>4. /\ mstatus' \in Mstatus /\ mstatus'.SDT = mstatus.SDT
          /\ mstatus'.MDT = config.smdbltrp /\ ~mstatus'.MIE /\ mstatus'.SIE = mstatus.SIE
      <3>1. /\ mstatus' \in Mstatus /\ mstatus'.SDT = val.SDT
            /\ mstatus'.MDT = (val.MDT /\ config.smdbltrp)
            /\ mstatus'.MIE = (val.MIE /\ ~mstatus'.MDT)
            /\ mstatus'.SIE = (val.SIE /\ ~mstatus'.SDT)
        BY <2>1, <2>2, <2>3, MstatusWrite
      <3>2. mstatus'.MDT = config.smdbltrp /\ ~mstatus'.MIE
        BY <2>1, <2>2, <3>1
      <3>3. mstatus'.SIE = mstatus.SIE
        BY <2>1, <2>2, <3>1 DEF DoubleTrapBits, Mstatus
      <3> QED BY <2>2, <3>1, <3>2, <3>3
    <2>5. /\ mstatus'.MPIE = mstatus.MIE /\ mstatus'.MPP = prv /\ mstatus'.MPV = v
          /\ mstatus'.SPIE = mstatus.SPIE /\ mstatus'.SPP = mstatus.SPP
      BY <2>1, <2>2, <2>3, MstatusKept
    <2>6. ~mstatus.MDT
      BY <1>2 DEF MdtMasked
    <2>7. "M" \in Levels /\ Height(LevelOf(Context)) <= Height("M")
      BY <2>1, ContextFields DEF LevelOf, Height, Levels, U, S, M
    <2>8. Runs("M", Context)'
      <3>1. LevelOf(Context)' = "M"
        BY <2>3, ContextFields DEF LevelOf
      <3>2. ~IeOf(Context, "M")' /\ DtOf(Context, "M")' = CatchesDt("M")'
        BY <2>4, ContextFields DEF IeOf, DtOf, CatchesDt
      <3> QED BY <2>3, <3>1, <3>2, ContextFields DEF Runs
    <2>9. Carried("M", Context', Context)
      <3>1. SdtKept(Context', Context) /\ VsdtKept(Context', Context)
        BY <2>1, <2>3, <2>4, ContextFields DEF SdtKept, VsdtKept, DoubleTrapBits, Mstatus, Supervisor
      <3> QED BY <2>1, <2>3, <2>4, <2>6, <3>1, ContextFields DEF Carried
    <2>10. \A l \in Levels \ {"M"} : Saved(l)' = Saved(l)
      BY <2>3, <2>5, SavedSame DEF Inv, TypeOK
    <2>11. Leads(Saved("M")', "M", Context)
      <3>1. epc'["M"] = pc
        BY <2>3, <2>7 DEF Inv, TypeOK
      <3> QED BY <2>5, <2>7, <3>1, SavedFields, ContextFields DEF Leads, IeOf
    <2>12. ReturnInv'
      BY <1>2, <2>3, <2>7, <2>8, <2>9, <2>10, <2>11, TrapKeeps
    <2> QED BY <2>1, <2>4, <2>12 DEF MdtMasked
  <1> QED BY <1>1, <1>2

\* A trap in debug mode only goes to another place of the debug ROM.
LEMMA ReturnRom ==
    ASSUME Inv, WaitingOK, ReturnInv, MdtMasked, debug_mode, UNCHANGED <<config, frames>>,
           NEW code, take_trap(code)
    PROVE  ReturnInv' /\ MdtMasked'
  <1>1. /\ pc' \in {"rom", "rom_tvec"}
        /\ UNCHANGED <<prv, v, debug_mode, mstatus, vsstatus, hstatus, epc, dcsr, dpc, waiting>>
    BY DEF take_trap
  <1>2. Depth # 0 /\ At(Depth) = "D" /\ Carried("D", Context, Ctx(Depth - 1))
    BY Top, ContextFields DEF LevelOf
  <1>3. Runs("D", Context)'
    BY <1>1, ContextFields DEF Runs, LevelOf
  <1>4. Carried("D", Context', Ctx(Depth - 1))
    BY <1>1, <1>2, ContextFields DEF Carried, SdtKept, VsdtKept
  <1>5. \A l \in Levels : Saved(l)' = Saved(l) /\ frames[l]' = frames[l]
    BY <1>1, SavedSame
  <1>6. "D" \notin Levels
    BY DEF Levels
  <1>7. ReturnInv'
    BY <1>1, <1>2, <1>3, <1>4, <1>5, <1>6, TopKeeps
  <1> QED BY <1>1, <1>7 DEF MdtMasked

\* A trap that is handled at a level interrupts a handler of the same level
\* only if its registers are saved.
Admits(code) ==
    /\ vsdeleg(code) /\ ~supv_double_trap(code) /\ LevelOf(Context) = "VS" => pc = "open"
    /\ /\ hsdeleg(code) /\ ~vsdeleg(code) /\ ~supv_double_trap(code)
       /\ LevelOf(Context) = "HS"
       => pc = "open"
    /\ /\ supv_double_trap(code) \/ ~(vsdeleg(code) \/ hsdeleg(code))
       /\ ~(config.smdbltrp /\ mstatus.MDT) /\ LevelOf(Context) = "M"
       => pc = "open"

\* A trap of any cause that finds the registers of its level free.
LEMMA ReturnTrap ==
    ASSUME Inv, WaitingOK, ReturnInv, MdtMasked, UNCHANGED <<config, frames>>,
           NEW code, take_trap(code), ~debug_mode => Admits(code)
    PROVE  ReturnInv' /\ MdtMasked'
  <1>1. CASE debug_mode
    BY <1>1, ReturnRom
  <1>2. CASE ~debug_mode
    <2>1. CASE supv_double_trap(code)
      <3>1. trap_to_m(code)
        BY <1>2, <2>1 DEF take_trap
      <3> QED BY <1>2, <2>1, <3>1, ReturnM DEF Admits
    <2>2. CASE ~supv_double_trap(code) /\ vsdeleg(code)
      <3>1. trap_to_vs(code)
        BY <1>2, <2>2 DEF take_trap
      <3> QED BY <1>2, <2>2, <3>1, ReturnVs DEF Admits
    <2>3. CASE ~supv_double_trap(code) /\ ~vsdeleg(code) /\ hsdeleg(code)
      <3>1. trap_to_hs(code)
        BY <1>2, <2>3 DEF take_trap
      <3> QED BY <1>2, <2>3, <3>1, ReturnHs DEF Admits
    <2>4. CASE ~supv_double_trap(code) /\ ~vsdeleg(code) /\ ~hsdeleg(code)
      <3>1. trap_to_m(code)
        BY <1>2, <2>4 DEF take_trap
      <3> QED BY <1>2, <2>4, <3>1, ReturnM DEF Admits
    <2> QED BY <2>1, <2>2, <2>3, <2>4
  <1> QED BY <1>1, <1>2

\* take_interrupt lets a handler be interrupted at its own level only once its
\* registers are saved.
LEMMA InterruptAdmitted ==
    ASSUME Inv, WaitingOK, ReturnInv, take_interrupt
    PROVE  Admits(Selected(enabled_interrupts))
  <1> DEFINE i == Selected(enabled_interrupts)
  <1>1. /\ config \in Config /\ mip \subseteq Interrupts /\ prv \in {U, S, M} /\ v \in BOOLEAN
        /\ (prv = M => ~v) /\ ~debug_mode
    BY DEF Inv, TypeOK, DebugOK, take_interrupt
  <1>2. i \in enabled_interrupts /\ i \in Interrupts
    BY <1>1 DEF take_interrupt, Selected, enabled_interrupts, m_interrupts, hs_interrupts,
                vs_interrupts, Interrupts
  <1>3. i \notin config.medeleg /\ (i \in config.hideleg => i \in mideleg)
    BY <1>1, <1>2 DEF Config, Exceptions, Interrupts, mideleg
  <1>4. i \in m_interrupts \/ i \in hs_interrupts \/ i \in vs_interrupts
    BY <1>2 DEF enabled_interrupts
  <1> HIDE DEF i
  <1>5. ASSUME vsdeleg(i), LevelOf(Context) = "VS", pc # "open" PROVE FALSE
    <2>1. prv = S /\ v
      BY <1>1, <1>5, ContextFields DEF LevelOf
    <2>2. ~vsstatus.SIE
      BY <1>1, <1>5, Closed, ContextFields DEF Levels, IeOf
    <2>3. i \in config.hideleg
      BY <1>3, <1>5 DEF vsdeleg
    <2>4. i \in vs_interrupts
      BY <1>3, <1>4, <2>3 DEF m_interrupts, hs_interrupts
    <2> QED BY <2>1, <2>2, <2>4 DEF vs_interrupts, sstatus_sie, S
  <1>6. ASSUME hsdeleg(i), LevelOf(Context) = "HS", pc # "open" PROVE FALSE
    <2>1. prv = S /\ ~v
      BY <1>1, <1>6, ContextFields DEF LevelOf
    <2>2. ~mstatus.SIE
      BY <1>1, <1>6, Closed, ContextFields DEF Levels, IeOf
    <2>3. i \in mideleg
      BY <1>3, <1>6 DEF hsdeleg
    <2> QED BY <1>4, <2>1, <2>2, <2>3 DEF m_interrupts, hs_interrupts, vs_interrupts, sstatus_sie, S
  <1>7. ASSUME LevelOf(Context) = "M", pc # "open" PROVE FALSE
    <2>1. prv = M /\ ~v
      BY <1>1, <1>7, ContextFields DEF LevelOf
    <2>2. ~mstatus.MIE
      BY <1>1, <1>7, Closed, ContextFields DEF Levels, IeOf
    <2> QED BY <1>4, <2>1, <2>2 DEF m_interrupts, hs_interrupts, vs_interrupts, S, M
  <1>8. Admits(i)
    BY <1>5, <1>6, <1>7 DEF Admits
  <1> QED BY <1>8 DEF i

\* A fault meets a handler only where its registers are saved.
LEMMA FaultAdmitted ==
    ASSUME Inv, WaitingOK, ReturnInv, MayFault, ~debug_mode
    PROVE  Admits("fault")
  <1>1. /\ config \in Config /\ prv \in {U, S, M} /\ v \in BOOLEAN
        /\ mstatus \in Mstatus /\ vsstatus \in Supervisor
    BY DEF Inv, TypeOK
  <1>2. /\ "fault" \notin config.hideleg /\ "fault" \notin mideleg
        /\ vsstatus_read.SDT = (vsstatus.SDT /\ henvcfg_dte)
        /\ sstatus_read.SDT = (mstatus.SDT /\ config.menvcfg_dte)
    BY <1>1, ReadsTyped DEF Config, mideleg
  <1>3. LevelOf(Context) = Level
    BY ContextFields DEF LevelOf, Level
  <1>4. ASSUME vsdeleg("fault"), ~supv_double_trap("fault"), LevelOf(Context) = "VS", pc # "open"
        PROVE  FALSE
    <2>1. pc \in {"vector", "leave", "boot"} /\ vsstatus.SDT = henvcfg_dte
      BY <1>4, Closed, ContextFields DEF Levels, DtOf, CatchesDt
    <2>2. henvcfg_dte
      BY <1>2, <1>3, <1>4, <2>1 DEF MayFault, vsdeleg
    <2>3. vsstatus_read.SDT
      BY <1>2, <2>1, <2>2
    <2> QED BY <1>4, <2>3 DEF supv_double_trap
  <1>5. ASSUME hsdeleg("fault"), ~vsdeleg("fault"), ~supv_double_trap("fault"),
               LevelOf(Context) = "HS", pc # "open"
        PROVE  FALSE
    <2>1. pc \in {"vector", "leave", "boot"} /\ mstatus.SDT = config.menvcfg_dte
      BY <1>5, Closed, ContextFields DEF Levels, DtOf, CatchesDt
    <2>2. config.menvcfg_dte
      BY <1>2, <1>3, <1>5, <2>1 DEF MayFault, hsdeleg
    <2>3. sstatus_read.SDT
      BY <1>2, <2>1, <2>2
    <2> QED BY <1>5, <2>3 DEF supv_double_trap
  <1>6. ASSUME ~(config.smdbltrp /\ mstatus.MDT), LevelOf(Context) = "M", pc # "open"
        PROVE  FALSE
    <2>1. pc \in {"vector", "leave", "boot"} /\ mstatus.MDT = config.smdbltrp
      BY <1>6, Closed, ContextFields DEF Levels, DtOf, CatchesDt
    <2>2. config.smdbltrp
      BY <1>3, <1>6, <2>1 DEF MayFault
    <2> QED BY <1>6, <2>1, <2>2
  <1> QED BY <1>4, <1>5, <1>6 DEF Admits

\* So does an ecall.
LEMMA CallAdmitted ==
    ASSUME Inv, WaitingOK, ReturnInv, ~debug_mode, pc \in {"main", "open"}, NEW code
    PROVE  Admits(code)
  <1>1. LevelOf(Context) \in Levels => pc = "open"
    BY Closed
  <1> QED BY <1>1 DEF Admits, Levels

\* The traps of the model.
LEMMA TrapsReturn ==
    ASSUME Inv, WaitingOK, ReturnInv, MdtMasked, Traps
    PROVE  ReturnInv' /\ MdtMasked'
  <1>1. CASE take_interrupt
    BY <1>1, InterruptAdmitted, ReturnTrap DEF take_interrupt, catch_trap
  <1>2. CASE fault
    BY <1>2, FaultAdmitted, ReturnTrap DEF fault, catch_trap
  <1>3. CASE ecall
    BY <1>3, CallAdmitted, ReturnTrap DEF ecall, catch_trap
  <1>4. CASE ebreak
    BY <1>4, ReturnTrap DEF ebreak, catch_trap
  <1> QED BY <1>1, <1>2, <1>3, <1>4 DEF Traps
-----------------------------------------------------------------------------
(* The software, and nothing                                               *)

\* The boot code starts with nothing that waits.
LEMMA ReturnBoot ==
    ASSUME Inv, WaitingOK, ReturnInv, MdtMasked, boot
    PROVE  ReturnInv' /\ MdtMasked'
  <1>0. PICK ie \in BOOLEAN, virt \in BOOLEAN :
          /\ mstatus' = mstatus_write([mstatus EXCEPT !.MPIE = ie, !.SIE = ie, !.MPV = virt])
          /\ vsstatus' = vsstatus_write(vsstatus, [vsstatus EXCEPT !.SIE = ie])
          /\ waiting' = <<[at |-> "M", by |-> "boot", context |-> Program(virt, mstatus', vsstatus', ie)]>>
    BY Zenon DEF boot
  <1> DEFINE m == [mstatus EXCEPT !.MPIE = ie, !.SIE = ie, !.MPV = virt]
             c == Program(virt, mstatus', vsstatus', ie)
  <1>1. /\ config \in Config /\ mstatus \in Mstatus /\ vsstatus \in Supervisor /\ ~debug_mode
        /\ prv = M /\ ~mstatus.MIE /\ mstatus.MDT = config.smdbltrp /\ config.smdbltrp \in BOOLEAN
    BY DEF Inv, TypeOK, boot, DebugOK, Booting, Config
  <1>2. /\ m \in Mstatus /\ m.MDT = mstatus.MDT /\ m.MIE = mstatus.MIE
        /\ m.MPIE = ie /\ m.MPV = virt /\ m.MPP = mstatus.MPP
    BY <1>1 DEF Mstatus
  <1>3. /\ mstatus' = mstatus_write(m) /\ pc = "boot" /\ pc' = "leave"
        /\ UNCHANGED <<config, prv, v, debug_mode, epc, frames>>
        /\ waiting' = <<[at |-> "M", by |-> "boot", context |-> c]>>
    BY <1>0 DEF boot
  <1> HIDE DEF m
  <1>4. mstatus'.MDT = config.smdbltrp /\ ~mstatus'.MIE
    <2>1. mstatus'.MDT = (m.MDT /\ config.smdbltrp) /\ mstatus'.MIE = (m.MIE /\ ~mstatus'.MDT)
      BY <1>1, <1>2, <1>3, MstatusWrite
    <2> QED BY <1>1, <1>2, <2>1
  <1>5. mstatus'.MPIE = ie /\ mstatus'.MPV = virt /\ mstatus'.MPP = mstatus.MPP
    BY <1>1, <1>2, <1>3, MstatusKept
  <1>6. Depth = 0
    <2> SUFFICES ASSUME Depth # 0 PROVE FALSE
      OBVIOUS
    <2>1. LevelOf(Context) = "M" /\ Runs("M", Context)
      BY <1>1, Top, ContextFields DEF LevelOf
    <2> QED BY <1>3, <2>1, ContextFields DEF Runs
  <1>7. mstatus.MPP = U /\ epc["M"] = "main"
    BY <1>3, <1>6, ContextFields DEF ReturnInv, Bottom, Ctx
  <1>8. ASSUME NEW l \in Levels PROVE frames'[l] = <<>>
    <2>1. PICK hi \in 0 .. 0 : Opened(l) = hi - Len(frames[l]) + 1 .. hi
      BY <1>6 DEF ReturnInv, Stacked
    <2>2. Opened(l) = {}
      BY <1>6 DEF Opened
    <2>3. frames[l] \in Seq(Frame) /\ Len(frames[l]) \in Nat
      BY DEF Inv, FramesOK
    <2>4. Len(frames[l]) = 0
      <3> PICK k : k = Len(frames[l])
        OBVIOUS
      <3>1. hi = 0 /\ 0 - k + 1 .. 0 = {} /\ k \in Nat
        BY <2>1, <2>2, <2>3
      <3>2. k # 0 => 0 \in 0 - k + 1 .. 0
        BY <3>1
      <3> QED BY <3>1, <3>2
    <2> QED BY <1>3, <2>3, <2>4, EmptySeq
  <1>9. /\ c.prv = U /\ c.v = virt /\ c.pc = "main" /\ ~c.debug /\ c.MIE = ie /\ ~c.MDT
        /\ c.SIE = mstatus'.SIE /\ c.SDT = FALSE /\ c.vSIE = vsstatus'.SIE
        /\ c.vSDT = (vsstatus'.SDT /\ ~virt)
    BY DEF Program
  <1> HIDE DEF c
  <1>10. Runs("M", Context)'
    <2>1. LevelOf(Context)' = "M"
      BY <1>1, <1>3, ContextFields DEF LevelOf
    <2>2. ~IeOf(Context, "M")' /\ DtOf(Context, "M")' = CatchesDt("M")'
      BY <1>3, <1>4, ContextFields DEF IeOf, DtOf, CatchesDt
    <2> QED BY <1>3, <2>1, <2>2, ContextFields DEF Runs
  <1>11. Carried("M", Context', c)
    <2>1. SdtKept(Context', c) /\ VsdtKept(Context', c)
      BY <1>9, ContextFields DEF SdtKept, VsdtKept
    <2> QED BY <1>9, <2>1, ContextFields DEF Carried, U, M
  <1>12. Leads(Saved("M")', "M", c)
    BY <1>3, <1>5, <1>7, <1>9, SavedFields DEF Leads, IeOf, Levels
  <1>13. ReturnInv'
    BY <1>3, <1>8, <1>9, <1>10, <1>11, <1>12, ResetKeeps
  <1> QED BY <1>3, <1>4, <1>13 DEF MdtMasked

\* The handler of M gives up what waits.
LEMMA ReturnAbandon ==
    ASSUME Inv, WaitingOK, ReturnInv, MdtMasked, abandon
    PROVE  ReturnInv' /\ MdtMasked'
  <1>0. PICK virt \in BOOLEAN :
          /\ mstatus' = mstatus_write([mstatus EXCEPT !.MIE = FALSE, !.MDT = TRUE,
                                            !.MPIE = TRUE, !.MPP = U, !.MPV = virt])
          /\ waiting' = <<[at |-> "M", by |-> "boot",
                           context |-> Program(virt, mstatus, vsstatus, TRUE)]>>
    BY Zenon DEF abandon
  <1> DEFINE m == [mstatus EXCEPT !.MIE = FALSE, !.MDT = TRUE, !.MPIE = TRUE, !.MPP = U, !.MPV = virt]
             c == Program(virt, mstatus, vsstatus, TRUE)
  <1>1. /\ config \in Config /\ mstatus \in Mstatus /\ vsstatus \in Supervisor /\ ~debug_mode
        /\ prv = M /\ config.smdbltrp \in BOOLEAN /\ DoubleTrapBits
    BY DEF Inv, TypeOK, abandon, Level, Config
  <1>2. /\ m \in Mstatus /\ m.MDT = TRUE /\ m.MIE = FALSE /\ m.SDT = mstatus.SDT
        /\ m.SIE = mstatus.SIE /\ m.MPIE = TRUE /\ m.MPV = virt /\ m.MPP = U
    BY <1>1 DEF Mstatus
  <1>3. /\ mstatus' = mstatus_write(m) /\ pc' = "leave"
        /\ UNCHANGED <<config, prv, v, debug_mode, vsstatus>>
        /\ frames' = [l \in Levels |-> <<>>]
        /\ epc' = [l \in Levels |-> IF l = "M" THEN "main" ELSE "none"]
        /\ waiting' = <<[at |-> "M", by |-> "boot", context |-> c]>>
    BY <1>0 DEF abandon
  <1> HIDE DEF m
  <1>4. mstatus'.MDT = config.smdbltrp /\ ~mstatus'.MIE /\ mstatus'.SIE = mstatus.SIE
    <2>1. /\ mstatus'.MDT = (m.MDT /\ config.smdbltrp) /\ mstatus'.MIE = (m.MIE /\ ~mstatus'.MDT)
          /\ mstatus'.SIE = (m.SIE /\ ~mstatus'.SDT) /\ mstatus'.SDT = m.SDT
      BY <1>1, <1>2, <1>3, MstatusWrite
    <2>2. mstatus'.MDT = config.smdbltrp /\ ~mstatus'.MIE
      BY <1>1, <1>2, <2>1
    <2>3. mstatus'.SIE = mstatus.SIE
      BY <1>1, <1>2, <2>1 DEF DoubleTrapBits, Mstatus
    <2> QED BY <2>2, <2>3
  <1>5. mstatus'.MPIE = TRUE /\ mstatus'.MPV = virt /\ mstatus'.MPP = U
    BY <1>1, <1>2, <1>3, MstatusKept
  <1>6. /\ c.prv = U /\ c.v = virt /\ c.pc = "main" /\ ~c.debug /\ c.MIE = TRUE /\ ~c.MDT
        /\ c.SIE = mstatus.SIE /\ c.SDT = FALSE /\ c.vSIE = vsstatus.SIE
        /\ c.vSDT = (vsstatus.SDT /\ ~virt)
    BY DEF Program
  <1> HIDE DEF c
  <1>7. (\A l \in Levels : frames'[l] = <<>>) /\ epc'["M"] = "main"
    BY <1>3 DEF Levels
  <1>8. Runs("M", Context)'
    <2>1. LevelOf(Context)' = "M"
      BY <1>1, <1>3, ContextFields DEF LevelOf
    <2>2. ~IeOf(Context, "M")' /\ DtOf(Context, "M")' = CatchesDt("M")'
      BY <1>3, <1>4, ContextFields DEF IeOf, DtOf, CatchesDt
    <2> QED BY <1>3, <2>1, <2>2, ContextFields DEF Runs
  <1>9. Carried("M", Context', c)
    <2>1. SdtKept(Context', c) /\ VsdtKept(Context', c)
      BY <1>3, <1>6, ContextFields DEF SdtKept, VsdtKept
    <2> QED BY <1>3, <1>4, <1>6, <2>1, ContextFields DEF Carried, U, M
  <1>10. Leads(Saved("M")', "M", c)
    BY <1>5, <1>6, <1>7, SavedFields DEF Leads, IeOf, Levels
  <1>11. ReturnInv'
    BY <1>3, <1>6, <1>7, <1>8, <1>9, <1>10, ResetKeeps
  <1> QED BY <1>3, <1>4, <1>11 DEF MdtMasked

\* The debugger does.
LEMMA ReturnRestart ==
    ASSUME Inv, MdtMasked, restart
    PROVE  ReturnInv' /\ MdtMasked'
  <1>0. PICK virt \in BOOLEAN :
          /\ dcsr' = [prv |-> U, v |-> virt] /\ dpc' = "main"
          /\ waiting' = <<[at |-> "D", by |-> "debug",
                           context |-> Program(virt, mstatus, vsstatus, mstatus.MIE)]>>
    BY Zenon DEF restart
  <1> DEFINE c == Program(virt, mstatus, vsstatus, mstatus.MIE)
  <1>1. /\ debug_mode /\ pc # "open"
        /\ UNCHANGED <<config, prv, v, pc, debug_mode, mstatus, vsstatus>>
        /\ frames' = [l \in Levels |-> <<>>]
        /\ waiting' = <<[at |-> "D", by |-> "debug", context |-> c]>>
    BY <1>0 DEF restart, Inv, DebugOK
  <1>2. /\ c.prv = U /\ c.v = virt /\ c.pc = "main" /\ ~c.debug /\ c.MIE = mstatus.MIE /\ c.MDT = FALSE
        /\ c.SIE = mstatus.SIE /\ c.SDT = FALSE /\ c.vSIE = vsstatus.SIE
        /\ c.vSDT = (vsstatus.SDT /\ ~virt)
    BY DEF Program
  <1> HIDE DEF c
  <1>3. \A l \in Levels : frames'[l] = <<>>
    BY <1>1
  <1>4. Runs("D", Context)'
    BY <1>1, ContextFields DEF Runs, LevelOf
  <1>5. Carried("D", Context', c)
    <2>1. SdtKept(Context', c) /\ VsdtKept(Context', c)
      BY <1>1, <1>2, ContextFields DEF SdtKept, VsdtKept
    <2>2. c.MDT = (Context'.MDT /\ c.prv = M)
      <3>1. c.prv # M
        BY <1>2 DEF U, M
      <3>2. (Context'.MDT /\ c.prv = M) = FALSE
        BY <3>1
      <3> QED BY <1>2, <3>2
    <2> QED BY <1>1, <1>2, <2>1, <2>2, ContextFields DEF Carried, U, M
  <1>6. ReturnInv'
    BY <1>0, <1>1, <1>2, <1>3, <1>4, <1>5, ResetKeeps
  <1> QED BY <1>1, <1>6 DEF MdtMasked

\* A step of a handler changes the enable and double trap bits of no other level.
OthersKept(l) ==
    /\ l # "M"  => mstatus'.MIE = mstatus.MIE /\ mstatus'.MDT = mstatus.MDT
    /\ l # "HS" => mstatus'.SIE = mstatus.SIE /\ mstatus'.SDT = mstatus.SDT
    /\ l # "VS" => vsstatus'.SIE = vsstatus.SIE /\ vsstatus'.SDT = vsstatus.SDT
    /\ mstatus'.MDT => config.smdbltrp

\* So that what lies below is still carried.
LEMMA OthersCarried ==
    ASSUME NEW l \in Levels, NEW c, Carried(l, Context, c), OthersKept(l)
    PROVE  Carried(l, Context', c)
  <1>1. CASE l = "M"
    BY <1>1, ContextFields DEF Carried, OthersKept, SdtKept, VsdtKept
  <1>2. CASE l = "HS"
    BY <1>2, ContextFields DEF Carried, OthersKept, VsdtKept
  <1>3. CASE l = "VS"
    BY <1>3, ContextFields DEF Carried, OthersKept
  <1> QED BY <1>1, <1>2, <1>3 DEF Levels

\* The writes of the handlers, level by level.
LEMMA WriteM ==
    ASSUME Inv, prv = M, UNCHANGED vsstatus,
           NEW m \in Mstatus, m.SDT = mstatus.SDT, m.SIE = mstatus.SIE,
           mstatus' = mstatus_write(m)
    PROVE  OthersKept("M")
  <1>1. config \in Config /\ mstatus \in Mstatus /\ DoubleTrapBits
    BY DEF Inv, TypeOK
  <1>2. /\ mstatus'.MDT = (m.MDT /\ config.smdbltrp)
        /\ mstatus'.SIE = (m.SIE /\ ~mstatus'.SDT) /\ mstatus'.SDT = m.SDT
    BY <1>1, MstatusWrite
  <1>3. mstatus'.SIE = mstatus.SIE
    BY <1>1, <1>2 DEF DoubleTrapBits, Mstatus
  <1> QED BY <1>2, <1>3 DEF OthersKept

LEMMA WriteHs ==
    ASSUME Inv, MdtMasked, prv = S, UNCHANGED vsstatus,
           NEW s \in Supervisor, mstatus' = sstatus_write(mstatus, s)
    PROVE  OthersKept("HS")
  <1>1. config \in Config /\ mstatus \in Mstatus /\ ~mstatus.MDT
    BY DEF Inv, TypeOK, DoubleTrapBits, S, M
  <1>2. mstatus'.MDT = (mstatus.MDT /\ config.smdbltrp) /\ mstatus'.MIE = (mstatus.MIE /\ ~mstatus'.MDT)
    BY <1>1, SstatusWrite
  <1>3. mstatus.MDT = FALSE /\ mstatus'.MDT = FALSE
    BY <1>1, <1>2 DEF Mstatus
  <1>4. mstatus'.MIE = mstatus.MIE
    BY <1>1, <1>2, <1>3 DEF Mstatus
  <1> QED BY <1>3, <1>4 DEF OthersKept

LEMMA WriteVs ==
    ASSUME MdtMasked, UNCHANGED mstatus
    PROVE  OthersKept("VS")
  BY DEF OthersKept, MdtMasked

\* The level of a handler that runs.
LEMMA LevelRuns ==
    ASSUME Inv, WaitingOK, ReturnInv, ~debug_mode, NEW l \in Levels, l = Level,
           pc \in {"vector", "open", "leave"}
    PROVE  /\ Depth # 0 /\ l = At(Depth) /\ l = LevelOf(Context) /\ l # "D"
           /\ l = "M" => prv = M
           /\ l # "M" => prv = S /\ (v <=> l = "VS")
  <1>1. l = LevelOf(Context) /\ l # "D"
    BY ContextFields DEF LevelOf, Level, Levels
  <1>2. (l = "M" => prv = M) /\ (l # "M" => prv = S /\ (v <=> l = "VS"))
    BY DEF Level, Levels, Inv, TypeOK
  <1> QED BY <1>1, <1>2, Top

\* The frame on top is what the handler found in its registers.
LEMMA ReturnSave ==
    ASSUME Inv, WaitingOK, ReturnInv, MdtMasked, save
    PROVE  ReturnInv' /\ MdtMasked'
  <1> PICK ie \in BOOLEAN : Enable(Level, ie, FALSE)
    BY DEF save
  <1> PICK at : at = Level
    OBVIOUS
  <1>1. /\ config \in Config /\ mstatus \in Mstatus /\ vsstatus \in Supervisor
        /\ ~debug_mode /\ at \in Levels /\ pc = "vector" /\ pc' = "open"
        /\ UNCHANGED <<config, prv, v, debug_mode, hstatus, epc, waiting>>
        /\ frames' = [frames EXCEPT ![at] = <<Saved(at)>> \o @]
    BY DEF Inv, TypeOK, save
  <1>2. /\ Depth # 0 /\ at = At(Depth) /\ at = LevelOf(Context) /\ at # "D"
        /\ at = "M" => prv = M
        /\ at # "M" => prv = S
    BY <1>1, LevelRuns
  <1>3. /\ sstatus_read \in Supervisor /\ vsstatus_read \in Supervisor
        /\ sstatus_read.SPIE = mstatus.SPIE /\ sstatus_read.SPP = mstatus.SPP
        /\ vsstatus_read.SPIE = vsstatus.SPIE /\ vsstatus_read.SPP = vsstatus.SPP
    BY <1>1, ReadsTyped, ReadsKept
  <1>4. /\ OthersKept(at)
        /\ mstatus'.MPIE = mstatus.MPIE /\ mstatus'.MPP = mstatus.MPP /\ mstatus'.MPV = mstatus.MPV
        /\ mstatus'.SPIE = mstatus.SPIE /\ mstatus'.SPP = mstatus.SPP
        /\ vsstatus'.SPIE = vsstatus.SPIE /\ vsstatus'.SPP = vsstatus.SPP
    <2>1. CASE at = "M"
      <3> DEFINE m == [mstatus EXCEPT !.MIE = ie, !.MDT = FALSE]
      <3>1. /\ m \in Mstatus /\ m.SDT = mstatus.SDT /\ m.SIE = mstatus.SIE
            /\ m.MPIE = mstatus.MPIE /\ m.MPP = mstatus.MPP /\ m.MPV = mstatus.MPV
            /\ m.SPIE = mstatus.SPIE /\ m.SPP = mstatus.SPP
        BY <1>1 DEF Mstatus
      <3>2. mstatus' = mstatus_write(m) /\ UNCHANGED vsstatus
        BY <2>1 DEF Enable
      <3> HIDE DEF m
      <3>3. OthersKept("M")
        BY <1>2, <2>1, <3>1, <3>2, WriteM
      <3> QED BY <1>1, <2>1, <3>1, <3>2, <3>3, MstatusKept
    <2>2. CASE at = "HS"
      <3> DEFINE s == [sstatus_read EXCEPT !.SIE = ie, !.SDT = FALSE]
      <3>1. s \in Supervisor /\ s.SPIE = mstatus.SPIE /\ s.SPP = mstatus.SPP
        BY <1>3 DEF Supervisor
      <3>2. mstatus' = sstatus_write(mstatus, s) /\ UNCHANGED vsstatus
        BY <2>2 DEF Enable
      <3> HIDE DEF s
      <3>3. OthersKept("HS")
        BY <1>2, <2>2, <3>1, <3>2, WriteHs
      <3> QED BY <1>1, <2>2, <3>1, <3>2, <3>3, SstatusKept
    <2>3. CASE at = "VS"
      <3> DEFINE s == [vsstatus_read EXCEPT !.SIE = ie, !.SDT = FALSE]
      <3>1. s \in Supervisor /\ s.SPIE = vsstatus.SPIE /\ s.SPP = vsstatus.SPP
        BY <1>3 DEF Supervisor
      <3>2. vsstatus' = vsstatus_write(vsstatus, s) /\ UNCHANGED mstatus
        BY <2>3 DEF Enable
      <3> HIDE DEF s
      <3>3. OthersKept("VS")
        BY <3>2, WriteVs
      <3> QED BY <1>1, <2>3, <3>1, <3>2, <3>3, VsstatusKept
    <2> QED BY <1>1, <2>1, <2>2, <2>3 DEF Levels
  <1>5. /\ Runs(at, Context) /\ Carried(at, Context, Ctx(Depth - 1))
        /\ Leads(Saved(at), at, Ctx(Depth - 1))
    BY <1>1, <1>2, Top, ContextFields DEF Holds
  <1>6. Runs(at, Context)'
    <2>1. LevelOf(Context)' = at
      BY <1>1, <1>2, ContextFields DEF LevelOf
    <2> QED BY <1>1, <2>1, ContextFields DEF Runs
  <1>7. Carried(at, Context', Ctx(Depth - 1))
    BY <1>1, <1>4, <1>5, OthersCarried
  <1>8. /\ frames'[at] = <<Saved(at)>> \o frames[at]
        /\ \A l \in Levels \ {at} : frames'[l] = frames[l]
    BY <1>1 DEF Inv, FramesOK
  <1>9. Stacked(at)'
    BY <1>1, <1>2, <1>5, <1>8, FramePushed
  <1>10. \A l \in Levels : Saved(l)' = Saved(l)
    BY <1>1, <1>4, SavedSame
  <1>11. ReturnInv'
    BY <1>1, <1>2, <1>6, <1>7, <1>8, <1>9, <1>10, TopKeeps
  <1> QED BY <1>1, <1>4, <1>11 DEF MdtMasked, OthersKept

\* A handler about to leave has its registers back from its frame.
LEMMA ReturnRestore ==
    ASSUME Inv, WaitingOK, ReturnInv, MdtMasked, restore
    PROVE  ReturnInv' /\ MdtMasked'
  <1> PICK at : at = Level
    OBVIOUS
  <1> DEFINE f == Head(frames[at])
  <1>1. /\ config \in Config /\ mstatus \in Mstatus /\ vsstatus \in Supervisor
        /\ config.smdbltrp \in BOOLEAN /\ config.menvcfg_dte \in BOOLEAN /\ henvcfg_dte \in BOOLEAN
        /\ ~debug_mode /\ at \in Levels /\ pc = "open" /\ pc' = "leave"
        /\ UNCHANGED <<config, prv, v, debug_mode, waiting>>
        /\ frames[at] # <<>> /\ frames' = [frames EXCEPT ![at] = Tail(@)]
        /\ epc' = [epc EXCEPT ![at] = f.epc]
        /\ hstatus' = IF at = "HS" THEN [hstatus EXCEPT !.SPV = f.pv] ELSE hstatus
    BY ReadsTyped DEF Inv, TypeOK, restore, Config
  <1>2. /\ Depth # 0 /\ at = At(Depth) /\ at = LevelOf(Context) /\ at # "D"
        /\ at = "M" => prv = M
        /\ at # "M" => prv = S
    BY <1>1, LevelRuns
  <1>3. f \in Frame /\ (at # "M" => f \in SFrame)
    BY <1>1, Stack DEF Inv, FramesOK, Levels
  <1>4. /\ frames'[at] = Tail(frames[at])
        /\ \A l \in Levels \ {at} : frames'[l] = frames[l]
    BY <1>1 DEF Inv, FramesOK
  <1>5. Leads(f, at, Ctx(Depth - 1)) /\ Stacked(at)'
    BY <1>1, <1>2, <1>4, FramePopped
  <1>6. Runs(at, Context) /\ Carried(at, Context, Ctx(Depth - 1))
    BY <1>2, Top
  <1> PICK c : c = Ctx(Depth - 1)
    OBVIOUS
  <1> HIDE DEF f
  <1>7. /\ OthersKept(at)
        /\ ~IeOf(Context', at) /\ DtOf(Context', at) = CatchesDt(at)'
        /\ Leads(Saved(at)', at, c)
        /\ \A l \in Levels \ {at} : Saved(l)' = Saved(l)
    <2>0. epc'[at] = f.epc /\ \A l \in Levels \ {at} : epc'[l] = epc[l]
      BY <1>1 DEF Inv, TypeOK
    <2>1. CASE at = "M"
      <3> DEFINE m == [mstatus EXCEPT !.MIE = FALSE, !.MDT = TRUE, !.MPIE = f.pie, !.MPP = f.pp,
                                      !.MPV = f.pv]
      <3>1. /\ m \in Mstatus /\ m.SDT = mstatus.SDT /\ m.SIE = mstatus.SIE
            /\ m.MIE = FALSE /\ m.MDT = TRUE
            /\ m.MPIE = f.pie /\ m.MPP = f.pp /\ m.MPV = f.pv
            /\ m.SPIE = mstatus.SPIE /\ m.SPP = mstatus.SPP
        BY <1>1, <1>3 DEF Mstatus, Frame
      <3>2. mstatus' = mstatus_write(m) /\ UNCHANGED <<vsstatus, hstatus>>
        BY <2>1 DEF restore, f
      <3> HIDE DEF m
      <3>3. OthersKept("M")
        BY <1>2, <2>1, <3>1, <3>2, WriteM
      <3>4. /\ mstatus'.MPIE = f.pie /\ mstatus'.MPP = f.pp /\ mstatus'.MPV = f.pv
            /\ mstatus'.SPIE = mstatus.SPIE /\ mstatus'.SPP = mstatus.SPP
        BY <1>1, <3>1, <3>2, MstatusKept
      <3>5. ~mstatus'.MIE /\ mstatus'.MDT = config.smdbltrp
        <4>1. mstatus'.MDT = (m.MDT /\ config.smdbltrp) /\ mstatus'.MIE = (m.MIE /\ ~mstatus'.MDT)
          BY <1>1, <3>1, <3>2, MstatusWrite
        <4> QED BY <1>1, <3>1, <4>1
      <3>6. ~IeOf(Context', at) /\ DtOf(Context', at) = CatchesDt(at)'
        BY <1>1, <2>1, <3>5, ContextFields DEF IeOf, DtOf, CatchesDt
      <3>7. Leads(Saved(at)', at, c)
        BY <1>1, <1>5, <2>0, <2>1, <3>4, SavedFields DEF Leads
      <3>8. \A l \in Levels \ {at} : Saved(l)' = Saved(l)
        BY <2>0, <2>1, <3>2, <3>4, SavedSame
      <3> QED BY <2>1, <3>3, <3>6, <3>7, <3>8
    <2>2. CASE at = "HS"
      <3> DEFINE s == [SIE |-> FALSE, SDT |-> TRUE, SPIE |-> f.pie, SPP |-> f.pp]
      <3>1. /\ s \in Supervisor /\ s.SIE = FALSE /\ s.SDT = TRUE
            /\ s.SPIE = f.pie /\ s.SPP = f.pp
        BY <1>3, <2>2 DEF Supervisor, SFrame
      <3>2. mstatus' = sstatus_write(mstatus, s) /\ UNCHANGED vsstatus
        BY <2>2 DEF restore, f
      <3> HIDE DEF s
      <3>3. OthersKept("HS")
        BY <1>2, <2>2, <3>1, <3>2, WriteHs
      <3>4. /\ mstatus'.SPIE = f.pie /\ mstatus'.SPP = f.pp
            /\ mstatus'.MPIE = mstatus.MPIE /\ mstatus'.MPP = mstatus.MPP /\ mstatus'.MPV = mstatus.MPV
        BY <1>1, <3>1, <3>2, SstatusKept
      <3>5. ~mstatus'.SIE /\ mstatus'.SDT = config.menvcfg_dte
        <4>1. /\ mstatus'.SDT = (IF config.menvcfg_dte THEN s.SDT ELSE mstatus.SDT)
              /\ mstatus'.SIE = (s.SIE /\ ~mstatus'.SDT)
          BY <1>1, <3>1, <3>2, SstatusWrite
        <4>2. ~config.menvcfg_dte => mstatus.SDT = FALSE
          BY <1>1 DEF Inv, HiddenClear, Mstatus
        <4> QED BY <1>1, <3>1, <4>1, <4>2
      <3>6. ~IeOf(Context', at) /\ DtOf(Context', at) = CatchesDt(at)'
        BY <1>1, <2>2, <3>5, ContextFields DEF IeOf, DtOf, CatchesDt
      <3>7. Leads(Saved(at)', at, c)
        <4>1. hstatus'.SPV = f.pv
          BY <1>1, <2>2 DEF Inv, TypeOK
        <4> QED BY <1>1, <1>5, <2>0, <2>2, <3>4, <4>1, SavedFields DEF Leads
      <3>8. \A l \in Levels \ {at} : Saved(l)' = Saved(l)
        BY <2>0, <2>2, <3>2, <3>4, SavedSame
      <3> QED BY <2>2, <3>3, <3>6, <3>7, <3>8
    <2>3. CASE at = "VS"
      <3> DEFINE s == [SIE |-> FALSE, SDT |-> TRUE, SPIE |-> f.pie, SPP |-> f.pp]
      <3>1. /\ s \in Supervisor /\ s.SIE = FALSE /\ s.SDT = TRUE
            /\ s.SPIE = f.pie /\ s.SPP = f.pp
        BY <1>3, <2>3 DEF Supervisor, SFrame
      <3>2. vsstatus' = vsstatus_write(vsstatus, s) /\ UNCHANGED <<mstatus, hstatus>>
        BY <2>3 DEF restore, f
      <3> HIDE DEF s
      <3>3. OthersKept("VS")
        BY <3>2, WriteVs
      <3>4. vsstatus'.SPIE = f.pie /\ vsstatus'.SPP = f.pp
        BY <1>1, <3>1, <3>2, VsstatusKept
      <3>5. ~vsstatus'.SIE /\ vsstatus'.SDT = henvcfg_dte
        <4>1. /\ vsstatus'.SDT = (IF henvcfg_dte THEN s.SDT ELSE vsstatus.SDT)
              /\ vsstatus'.SIE = (s.SIE /\ ~vsstatus'.SDT)
          BY <1>1, <3>1, <3>2, VsstatusWrite
        <4>2. ~henvcfg_dte => vsstatus.SDT = FALSE
          BY <1>1 DEF Inv, HiddenClear, Supervisor
        <4> QED BY <1>1, <3>1, <4>1, <4>2
      <3>6. ~IeOf(Context', at) /\ DtOf(Context', at) = CatchesDt(at)'
        BY <1>1, <2>3, <3>5, ContextFields DEF IeOf, DtOf, CatchesDt, henvcfg_dte
      <3>7. Leads(Saved(at)', at, c)
        <4>1. c.v = TRUE
          <5>1. c \in ContextType
            BY <1>2, EntriesTyped
          <5> QED BY <1>6, <2>3, <5>1 DEF Carried, ContextType
        <4> QED BY <1>1, <1>5, <2>0, <2>3, <3>4, <4>1, SavedFields DEF Leads
      <3>8. \A l \in Levels \ {at} : Saved(l)' = Saved(l)
        BY <2>0, <2>3, <3>2, SavedSame
      <3> QED BY <2>3, <3>3, <3>6, <3>7, <3>8
    <2> QED BY <1>1, <2>1, <2>2, <2>3 DEF Levels
  <1>8. Runs(at, Context)'
    <2>1. LevelOf(Context)' = at
      BY <1>1, <1>2, ContextFields DEF LevelOf
    <2>2. ~IeOf(Context, at)' /\ DtOf(Context, at)' = CatchesDt(at)'
      BY <1>7 DEF IeOf, DtOf
    <2> QED BY <1>1, <2>1, <2>2, ContextFields DEF Runs
  <1>9. Carried(at, Context', Ctx(Depth - 1))
    BY <1>1, <1>6, <1>7, OthersCarried
  <1>10. ReturnInv'
    BY <1>1, <1>2, <1>4, <1>5, <1>7, <1>8, <1>9, TopKeeps
  <1> QED BY <1>1, <1>7, <1>10 DEF MdtMasked, OthersKept
-----------------------------------------------------------------------------
(* The returns                                                             *)

\* What waits on top is the context below the running handler.
LEMMA WaitsOnTop ==
    ASSUME Inv, WaitingOK, Depth # 0
    PROVE  Head(waiting).context = Ctx(Depth - 1) /\ Ctx(Depth - 1) \in ContextType
  <1> PICK n : n = Depth
    OBVIOUS
  <1>1. waiting \in Seq(Good) /\ n \in Nat /\ n # 0 /\ n = Len(waiting)
    BY LenProperties DEF WaitingOK, Depth
  <1>2. Head(waiting) = waiting[1]
    BY <1>1
  <1>3. n - 1 # n /\ n - (n - 1) = 1 /\ n - 1 \in 0 .. n
    BY <1>1
  <1>4. Ctx(n - 1) = waiting[1].context
    BY <1>3 DEF Ctx
  <1> QED BY <1>2, <1>3, <1>4, EntriesTyped

\* The registers of the guest after a return to mode p.
LEMMA GuestKept ==
    ASSUME Inv, NEW p, NEW virt \in BOOLEAN,
           vsstatus' = IF virt /\ p = U
                       THEN vsstatus_write(vsstatus, [vsstatus_read EXCEPT !.SDT = FALSE])
                       ELSE vsstatus
    PROVE  /\ vsstatus'.SIE = vsstatus.SIE
           /\ vsstatus'.SDT = (vsstatus.SDT /\ ~(virt /\ p = U))
           /\ vsstatus'.SPIE = vsstatus.SPIE /\ vsstatus'.SPP = vsstatus.SPP
  <1> DEFINE s == [vsstatus_read EXCEPT !.SDT = FALSE]
  <1>1. config \in Config /\ mstatus \in Mstatus /\ vsstatus \in Supervisor
    BY DEF Inv, TypeOK
  <1>2. CASE virt /\ p = U
    <2>1. vsstatus' = vsstatus_write(vsstatus, s)
      BY <1>2
    <2>2. /\ s \in Supervisor /\ s.SDT = FALSE /\ s.SIE = vsstatus.SIE
          /\ s.SPIE = vsstatus.SPIE /\ s.SPP = vsstatus.SPP
      BY <1>1, ReadsTyped, ReadsKept DEF Supervisor
    <2> HIDE DEF s
    <2>3. /\ vsstatus'.SDT = (IF henvcfg_dte THEN s.SDT ELSE vsstatus.SDT)
          /\ vsstatus'.SIE = (s.SIE /\ ~vsstatus'.SDT)
      BY <1>1, <2>1, <2>2, VsstatusWrite
    <2>4. vsstatus'.SDT = FALSE
      <3>1. ~henvcfg_dte => vsstatus.SDT = FALSE
        BY <1>1 DEF Inv, HiddenClear, Supervisor
      <3> QED BY <2>2, <2>3, <3>1
    <2>5. vsstatus'.SIE = vsstatus.SIE
      BY <1>1, <2>2, <2>3, <2>4 DEF Supervisor
    <2>6. (vsstatus.SDT /\ ~(virt /\ p = U)) = FALSE
      BY <1>2
    <2>7. vsstatus'.SPIE = s.SPIE /\ vsstatus'.SPP = s.SPP
      BY <1>1, <2>1, <2>2, VsstatusKept
    <2> QED BY <2>2, <2>4, <2>5, <2>6, <2>7
  <1>3. CASE ~(virt /\ p = U)
    <2>1. vsstatus' = vsstatus
      BY <1>3
    <2>2. (vsstatus.SDT /\ ~(virt /\ p = U)) = vsstatus.SDT
      BY <1>1, <1>3 DEF Supervisor
    <2> QED BY <2>1, <2>2
  <1> QED BY <1>2, <1>3

\* What is left to show of a return.
LEMMA ReturnPops ==
    ASSUME Inv, WaitingOK, ReturnInv, MdtMasked, Inv', Depth # 0,
           UNCHANGED <<config, frames>>, Pop,
           NEW at, at = At(Depth), at # "D" => pc # "open",
           \A l \in Levels \ {at} : Saved(l)' = Saved(l),
           at = "D" => epc' = epc /\ mstatus'.MPP = mstatus.MPP,
           mstatus'.MDT => config.smdbltrp,
           NEW c, c = Ctx(Depth - 1),
           prv' = c.prv, v' = c.v, pc' = c.pc, debug_mode' = c.debug,
           mstatus'.MIE = c.MIE, mstatus'.MDT = c.MDT, mstatus'.SIE = c.SIE,
           mstatus'.SDT = c.SDT, vsstatus'.SIE = c.vSIE, vsstatus'.SDT = c.vSDT
    PROVE  ReturnInv' /\ MdtMasked' /\ Context' = Head(waiting).context
  <1>1. c \in ContextType /\ c = Head(waiting).context
    BY WaitsOnTop
  <1>2. Context' \in ContextType
    BY DEF Inv, TypeOK, Context, ContextType, Mstatus, Supervisor
  <1>3. Context' = c
    BY <1>1, <1>2, ContextFields, SameContext
  <1>4. ReturnInv'
    BY <1>3, PopKeeps
  <1> QED BY <1>1, <1>3, <1>4 DEF MdtMasked

\* mret undoes trap_to_m, or the start of the program.
LEMMA ReturnMret ==
    ASSUME Inv, WaitingOK, ReturnInv, MdtMasked, Inv', mret
    PROVE  ReturnInv' /\ MdtMasked' /\ Context' = Head(waiting).context
  <1> DEFINE p == mstatus.MPP
             virt == mstatus.MPV
             m == [mstatus EXCEPT
                     !.MIE = mstatus.MPIE, !.MPIE = TRUE, !.MPP = U, !.MPV = FALSE, !.MDT = FALSE,
                     !.SDT = @ /\ ~(p = U \/ (virt /\ p # M))]
  <1>1. /\ config \in Config /\ mstatus \in Mstatus /\ vsstatus \in Supervisor
        /\ p \in {U, S, M} /\ virt \in BOOLEAN /\ "M" \in Levels /\ DoubleTrapBits
    BY DEF Inv, TypeOK, Mstatus, Levels
  <1>2. /\ mstatus' = mstatus_write(m)
        /\ vsstatus' = IF virt /\ p = U
                       THEN vsstatus_write(vsstatus, [vsstatus_read EXCEPT !.SDT = FALSE])
                       ELSE vsstatus
        /\ prv' = p /\ v' = (virt /\ p # M) /\ pc' = epc["M"] /\ epc' = Forget("M")
        /\ ~debug_mode /\ prv = M /\ pc = "leave" /\ Pop
        /\ UNCHANGED <<config, debug_mode, hstatus, frames>>
    BY DEF mret, set_privilege
  <1>3. /\ m \in Mstatus /\ m.MDT = FALSE /\ m.MIE = mstatus.MPIE /\ m.SIE = mstatus.SIE
        /\ m.SDT = (mstatus.SDT /\ ~(p = U \/ (virt /\ p # M)))
        /\ m.SPIE = mstatus.SPIE /\ m.SPP = mstatus.SPP
    BY <1>1 DEF Mstatus, U
  <1> PICK c : c = Ctx(Depth - 1)
    OBVIOUS
  <1>4. "M" = Level
    BY <1>2 DEF Level
  <1>5. Depth # 0 /\ At(Depth) = "M"
    BY <1>1, <1>2, <1>4, LevelRuns
  <1>6. Carried("M", Context, c) /\ Leads(Saved("M"), "M", c) /\ c \in ContextType
    BY <1>2, <1>5, Top, ContextFields, WaitsOnTop DEF Holds
  <1>7. epc["M"] = c.pc /\ mstatus.MPIE = c.MIE /\ p = c.prv /\ virt = c.v
    BY <1>1, <1>6, SavedFields DEF Leads, IeOf
  <1> HIDE DEF p, virt, m
  <1>8. /\ mstatus'.SDT = m.SDT /\ mstatus'.MDT = (m.MDT /\ config.smdbltrp)
        /\ mstatus'.MIE = (m.MIE /\ ~mstatus'.MDT) /\ mstatus'.SIE = (m.SIE /\ ~mstatus'.SDT)
        /\ mstatus'.SPIE = mstatus.SPIE /\ mstatus'.SPP = mstatus.SPP
    BY <1>1, <1>2, <1>3, MstatusWrite, MstatusKept
  <1>9. /\ vsstatus'.SIE = vsstatus.SIE
        /\ vsstatus'.SDT = (vsstatus.SDT /\ ~(virt /\ p = U))
        /\ vsstatus'.SPIE = vsstatus.SPIE /\ vsstatus'.SPP = vsstatus.SPP
    BY <1>1, <1>2, GuestKept
  <1>10. /\ c.prv = M => ~c.v
         /\ ~c.debug /\ ~c.MDT /\ c.SIE = mstatus.SIE /\ c.vSIE = vsstatus.SIE
         /\ c.SDT = (mstatus.SDT /\ c.prv # U /\ ~c.v)
         /\ c.vSDT = (vsstatus.SDT /\ ~(c.v /\ c.prv = U))
    BY <1>6, ContextFields DEF Carried, SdtKept, VsdtKept
  <1>11. prv' = c.prv /\ v' = c.v /\ pc' = c.pc /\ debug_mode' = c.debug
    <2>1. c.v \in BOOLEAN /\ c.debug = FALSE /\ debug_mode = FALSE
      BY <1>2, <1>6, <1>10 DEF ContextType, Inv, TypeOK
    <2>2. (virt /\ p # M) = c.v
      BY <1>7, <1>10, <2>1
    <2> QED BY <1>2, <1>7, <2>1, <2>2
  <1>12. mstatus'.MDT = FALSE /\ c.MDT = FALSE
    BY <1>3, <1>6, <1>8, <1>10 DEF ContextType
  <1>13. mstatus'.MIE = c.MIE
    BY <1>3, <1>6, <1>7, <1>8, <1>12 DEF ContextType
  <1>14. mstatus'.SDT = c.SDT
    <2>1. ~(p = U \/ (virt /\ p # M)) <=> (c.prv # U /\ ~c.v)
      BY <1>7, <1>10
    <2> QED BY <1>3, <1>8, <1>10, <2>1
  <1>15. mstatus'.SIE = c.SIE
    BY <1>1, <1>3, <1>8, <1>10 DEF DoubleTrapBits, Mstatus
  <1>16. vsstatus'.SIE = c.vSIE /\ vsstatus'.SDT = c.vSDT
    BY <1>7, <1>9, <1>10
  <1>17. \A l \in Levels \ {"M"} : Saved(l)' = Saved(l)
    BY <1>2, <1>8, <1>9, SavedSame DEF Forget, Inv, TypeOK
  <1> QED
    BY <1>2, <1>5, <1>11, <1>12, <1>13, <1>14, <1>15, <1>16, <1>17, ReturnPops

\* sret of a guest undoes trap_to_vs.
LEMMA ReturnSretVs ==
    ASSUME Inv, WaitingOK, ReturnInv, MdtMasked, Inv', sret_vs
    PROVE  ReturnInv' /\ MdtMasked' /\ Context' = Head(waiting).context
  <1> DEFINE p == vsstatus.SPP
             s == [SIE |-> vsstatus.SPIE, SPIE |-> TRUE, SPP |-> U, SDT |-> FALSE]
  <1>1. /\ config \in Config /\ mstatus \in Mstatus /\ vsstatus \in Supervisor
        /\ p \in {U, S} /\ "VS" \in Levels /\ debug_mode = FALSE
    BY DEF Inv, TypeOK, Supervisor, Levels, DebugOK, sret_vs, S, M
  <1>2. /\ vsstatus' = vsstatus_write(vsstatus, s)
        /\ prv' = p /\ v' = (TRUE /\ p # M) /\ pc' = epc["VS"] /\ epc' = Forget("VS")
        /\ prv = S /\ v /\ pc = "leave" /\ Pop
        /\ UNCHANGED <<config, debug_mode, mstatus, hstatus, frames>>
    BY DEF sret_vs, set_privilege
  <1>3. s \in Supervisor /\ s.SDT = FALSE /\ s.SIE = vsstatus.SPIE
    BY <1>1 DEF Supervisor
  <1> PICK c : c = Ctx(Depth - 1)
    OBVIOUS
  <1>4. "VS" = Level
    BY <1>2 DEF Level, U, S, M
  <1>5. Depth # 0 /\ At(Depth) = "VS"
    BY <1>1, <1>2, <1>4, LevelRuns
  <1>6. Carried("VS", Context, c) /\ Leads(Saved("VS"), "VS", c) /\ c \in ContextType
    BY <1>2, <1>5, Top, ContextFields, WaitsOnTop DEF Holds
  <1>7. epc["VS"] = c.pc /\ vsstatus.SPIE = c.vSIE /\ p = c.prv
    BY <1>1, <1>6, SavedFields DEF Leads, IeOf
  <1> HIDE DEF p, s
  <1>8. /\ vsstatus'.SDT = (IF henvcfg_dte THEN s.SDT ELSE vsstatus.SDT)
        /\ vsstatus'.SIE = (s.SIE /\ ~vsstatus'.SDT)
    BY <1>1, <1>2, <1>3, VsstatusWrite
  <1>9. /\ ~c.debug /\ c.MIE = mstatus.MIE /\ c.MDT = mstatus.MDT /\ c.SIE = mstatus.SIE
        /\ c.SDT = mstatus.SDT /\ ~c.vSDT /\ c.v
    BY <1>6, ContextFields DEF Carried
  <1>10. prv' = c.prv /\ v' = c.v /\ pc' = c.pc /\ debug_mode' = c.debug
    <2>1. c.v = TRUE /\ c.debug = FALSE
      BY <1>6, <1>9 DEF ContextType
    <2>2. p # M
      BY <1>1 DEF U, S, M
    <2> QED BY <1>1, <1>2, <1>7, <2>1, <2>2
  <1>11. vsstatus'.SDT = FALSE /\ c.vSDT = FALSE
    <2>1. ~henvcfg_dte => vsstatus.SDT = FALSE
      BY <1>1 DEF Inv, HiddenClear, Supervisor
    <2>2. c.vSDT = FALSE
      BY <1>6, <1>9 DEF ContextType
    <2> QED BY <1>3, <1>8, <2>1, <2>2
  <1>12. vsstatus'.SIE = c.vSIE
    BY <1>3, <1>6, <1>7, <1>8, <1>11 DEF ContextType
  <1>13. \A l \in Levels \ {"VS"} : Saved(l)' = Saved(l)
    BY <1>2, SavedSame DEF Forget, Inv, TypeOK
  <1>14. mstatus'.MDT => config.smdbltrp
    BY <1>2 DEF MdtMasked
  <1> QED
    BY <1>2, <1>5, <1>9, <1>10, <1>11, <1>12, <1>13, <1>14, ReturnPops

\* sret of a host undoes trap_to_hs.
LEMMA ReturnSretHs ==
    ASSUME Inv, WaitingOK, ReturnInv, MdtMasked, Inv', sret_hs
    PROVE  ReturnInv' /\ MdtMasked' /\ Context' = Head(waiting).context
  <1> DEFINE p == mstatus.SPP
             virt == hstatus.SPV
             s == [SIE |-> mstatus.SPIE, SPIE |-> TRUE, SPP |-> U, SDT |-> FALSE]
  <1>1. /\ config \in Config /\ mstatus \in Mstatus /\ vsstatus \in Supervisor
        /\ p \in {U, S} /\ virt \in BOOLEAN /\ "HS" \in Levels /\ debug_mode = FALSE
        /\ mstatus.MDT = FALSE
    BY DEF Inv, TypeOK, Mstatus, Levels, DebugOK, DoubleTrapBits, sret_hs, S, M
  <1>2. /\ mstatus' = sstatus_write(mstatus, s)
        /\ vsstatus' = IF virt /\ p = U
                       THEN vsstatus_write(vsstatus, [vsstatus_read EXCEPT !.SDT = FALSE])
                       ELSE vsstatus
        /\ prv' = p /\ v' = (virt /\ p # M) /\ pc' = epc["HS"] /\ epc' = Forget("HS")
        /\ prv = S /\ ~v /\ pc = "leave" /\ Pop
        /\ UNCHANGED <<config, debug_mode, frames>>
    BY DEF sret_hs, set_privilege
  <1>3. s \in Supervisor /\ s.SDT = FALSE /\ s.SIE = mstatus.SPIE
    BY <1>1 DEF Supervisor, Mstatus
  <1> PICK c : c = Ctx(Depth - 1)
    OBVIOUS
  <1>4. "HS" = Level
    BY <1>2 DEF Level, U, S, M
  <1>5. Depth # 0 /\ At(Depth) = "HS"
    BY <1>1, <1>2, <1>4, LevelRuns
  <1>6. Carried("HS", Context, c) /\ Leads(Saved("HS"), "HS", c) /\ c \in ContextType
    BY <1>2, <1>5, Top, ContextFields, WaitsOnTop DEF Holds
  <1>7. epc["HS"] = c.pc /\ mstatus.SPIE = c.SIE /\ p = c.prv /\ virt = c.v
    BY <1>1, <1>6, SavedFields DEF Leads, IeOf
  <1> HIDE DEF p, virt, s
  <1>8. /\ mstatus'.SDT = (IF config.menvcfg_dte THEN s.SDT ELSE mstatus.SDT)
        /\ mstatus'.MDT = (mstatus.MDT /\ config.smdbltrp)
        /\ mstatus'.MIE = (mstatus.MIE /\ ~mstatus'.MDT)
        /\ mstatus'.SIE = (s.SIE /\ ~mstatus'.SDT)
    BY <1>1, <1>2, <1>3, SstatusWrite
  <1>9. /\ vsstatus'.SIE = vsstatus.SIE
        /\ vsstatus'.SDT = (vsstatus.SDT /\ ~(virt /\ p = U))
        /\ vsstatus'.SPIE = vsstatus.SPIE /\ vsstatus'.SPP = vsstatus.SPP
    BY <1>1, <1>2, GuestKept
  <1>10. mstatus'.MPIE = mstatus.MPIE /\ mstatus'.MPP = mstatus.MPP /\ mstatus'.MPV = mstatus.MPV
    BY <1>1, <1>2, <1>3, SstatusKept
  <1>11. /\ ~c.debug /\ c.MIE = mstatus.MIE /\ c.MDT = mstatus.MDT /\ c.vSIE = vsstatus.SIE
         /\ ~c.SDT /\ c.vSDT = (vsstatus.SDT /\ ~(c.v /\ c.prv = U))
    BY <1>6, ContextFields DEF Carried, VsdtKept
  <1>12. prv' = c.prv /\ v' = c.v /\ pc' = c.pc /\ debug_mode' = c.debug
    <2>1. c.v \in BOOLEAN /\ c.debug = FALSE
      BY <1>6, <1>11 DEF ContextType
    <2>2. p # M
      BY <1>1 DEF U, S, M
    <2>3. (virt /\ p # M) = c.v
      BY <1>7, <2>1, <2>2
    <2> QED BY <1>1, <1>2, <1>7, <2>1, <2>3
  <1>13. mstatus'.SDT = FALSE /\ c.SDT = FALSE /\ mstatus'.MDT = FALSE
    <2>1. ~config.menvcfg_dte => mstatus.SDT = FALSE
      BY <1>1 DEF Inv, HiddenClear, Mstatus
    <2>2. c.SDT = FALSE
      BY <1>6, <1>11 DEF ContextType
    <2>3. mstatus'.SDT = FALSE
      BY <1>3, <1>8, <2>1
    <2> QED BY <1>1, <1>8, <2>2, <2>3
  <1>14. mstatus'.MIE = c.MIE
    BY <1>1, <1>8, <1>11, <1>13 DEF Mstatus
  <1>15. mstatus'.SIE = c.SIE
    BY <1>3, <1>6, <1>7, <1>8, <1>13 DEF ContextType
  <1>16. vsstatus'.SIE = c.vSIE /\ vsstatus'.SDT = c.vSDT /\ mstatus'.MDT = c.MDT
    BY <1>1, <1>7, <1>9, <1>11, <1>13
  <1>17. \A l \in Levels \ {"HS"} : Saved(l)' = Saved(l)
    BY <1>2, <1>9, <1>10, SavedSame DEF Forget, Inv, TypeOK
  <1> QED
    BY <1>2, <1>5, <1>12, <1>13, <1>14, <1>15, <1>16, <1>17, ReturnPops

\* dret undoes enter_debug_mode, or leads to what the debugger chose.
LEMMA ReturnDret ==
    ASSUME Inv, WaitingOK, ReturnInv, MdtMasked, Inv', dret
    PROVE  ReturnInv' /\ MdtMasked' /\ Context' = Head(waiting).context
  <1> DEFINE p == dcsr.prv
             virt == dcsr.v
             m == [mstatus EXCEPT !.MDT = mstatus.MDT /\ p = M, !.SDT = mstatus.SDT /\ ~(p = U \/ virt)]
  <1>1. /\ config \in Config /\ mstatus \in Mstatus /\ vsstatus \in Supervisor
        /\ p \in {U, S, M} /\ virt \in BOOLEAN /\ DoubleTrapBits
    BY DEF Inv, TypeOK
  <1>2. /\ mstatus' = mstatus_write(m)
        /\ vsstatus' = IF virt /\ p = U
                       THEN vsstatus_write(vsstatus, [vsstatus_read EXCEPT !.SDT = FALSE])
                       ELSE vsstatus
        /\ prv' = p /\ v' = (virt /\ p # M) /\ pc' = dpc /\ debug_mode /\ debug_mode' = FALSE /\ Pop
        /\ UNCHANGED <<config, hstatus, epc, frames>>
    BY DEF dret, set_privilege
  <1>3. /\ m \in Mstatus /\ m.MDT = (mstatus.MDT /\ p = M) /\ m.MIE = mstatus.MIE
        /\ m.SDT = (mstatus.SDT /\ ~(p = U \/ virt)) /\ m.SIE = mstatus.SIE
        /\ m.MPIE = mstatus.MPIE /\ m.MPP = mstatus.MPP /\ m.MPV = mstatus.MPV
        /\ m.SPIE = mstatus.SPIE /\ m.SPP = mstatus.SPP
    BY <1>1 DEF Mstatus
  <1> PICK c : c = Ctx(Depth - 1)
    OBVIOUS
  <1>4. /\ Depth # 0 /\ At(Depth) = "D" /\ Carried("D", Context, c)
        /\ dpc = c.pc /\ dcsr = [prv |-> c.prv, v |-> c.v]
    BY <1>2, Top, ContextFields DEF LevelOf, Holds
  <1>5. p = c.prv /\ virt = c.v /\ c \in ContextType
    BY <1>4, WaitsOnTop
  <1> HIDE DEF p, virt, m
  <1>6. /\ mstatus'.SDT = m.SDT /\ mstatus'.MDT = (m.MDT /\ config.smdbltrp)
        /\ mstatus'.MIE = (m.MIE /\ ~mstatus'.MDT) /\ mstatus'.SIE = (m.SIE /\ ~mstatus'.SDT)
    BY <1>1, <1>2, <1>3, MstatusWrite
  <1>7. /\ mstatus'.MPIE = mstatus.MPIE /\ mstatus'.MPP = mstatus.MPP /\ mstatus'.MPV = mstatus.MPV
        /\ mstatus'.SPIE = mstatus.SPIE /\ mstatus'.SPP = mstatus.SPP
    BY <1>1, <1>2, <1>3, MstatusKept
  <1>8. /\ vsstatus'.SIE = vsstatus.SIE
        /\ vsstatus'.SDT = (vsstatus.SDT /\ ~(virt /\ p = U))
        /\ vsstatus'.SPIE = vsstatus.SPIE /\ vsstatus'.SPP = vsstatus.SPP
    BY <1>1, <1>2, GuestKept
  <1>9. /\ c.prv = M => ~c.v
        /\ ~c.debug /\ c.MIE = mstatus.MIE /\ c.SIE = mstatus.SIE /\ c.vSIE = vsstatus.SIE
        /\ c.MDT = (mstatus.MDT /\ c.prv = M)
        /\ c.SDT = (mstatus.SDT /\ c.prv # U /\ ~c.v)
        /\ c.vSDT = (vsstatus.SDT /\ ~(c.v /\ c.prv = U))
    BY <1>4, ContextFields DEF Carried, SdtKept, VsdtKept
  <1>10. prv' = c.prv /\ v' = c.v /\ pc' = c.pc /\ debug_mode' = c.debug
    <2>1. c.v \in BOOLEAN /\ c.debug = FALSE
      BY <1>5, <1>9 DEF ContextType
    <2>2. (virt /\ p # M) = c.v
      BY <1>5, <1>9, <2>1
    <2> QED BY <1>2, <1>4, <1>5, <2>1, <2>2
  <1>11. mstatus'.MDT = c.MDT /\ (mstatus'.MDT => config.smdbltrp)
    <2>1. (mstatus.MDT /\ p = M) /\ config.smdbltrp <=> mstatus.MDT /\ c.prv = M
      BY <1>5 DEF MdtMasked
    <2> QED BY <1>3, <1>6, <1>9, <2>1
  <1>12. mstatus'.MIE = c.MIE
    BY <1>1, <1>3, <1>6, <1>9 DEF DoubleTrapBits, Mstatus
  <1>13. mstatus'.SDT = c.SDT
    <2>1. ~(p = U \/ virt) <=> (c.prv # U /\ ~c.v)
      BY <1>5
    <2> QED BY <1>3, <1>6, <1>9, <2>1
  <1>14. mstatus'.SIE = c.SIE
    BY <1>1, <1>3, <1>6, <1>9 DEF DoubleTrapBits, Mstatus
  <1>15. vsstatus'.SIE = c.vSIE /\ vsstatus'.SDT = c.vSDT
    BY <1>5, <1>8, <1>9
  <1>16. \A l \in Levels : Saved(l)' = Saved(l)
    BY <1>2, <1>7, <1>8, SavedSame
  <1> QED
    BY <1>2, <1>4, <1>7, <1>10, <1>11, <1>12, <1>13, <1>14, <1>15, <1>16, ReturnPops
-----------------------------------------------------------------------------

LEMMA InitReturn == ASSUME Init PROVE ReturnInv /\ MdtMasked
  <1>1. Depth = 0 /\ Ctx(0) = Context
    BY DEF Init, Depth, Ctx
  <1>2. 1 .. Depth = {}
    BY <1>1
  <1>3. Bottom
    BY <1>1, ContextFields DEF Bottom, Init, Levels
  <1>4. Ordered /\ Chain /\ Registers
    BY <1>2 DEF Ordered, Chain, Registers
  <1>5. ASSUME NEW l \in Levels PROVE Stacked(l)
    <2>1. frames[l] = <<>> /\ Len(frames[l]) = 0 /\ DOMAIN frames[l] = {}
      BY DEF Init
    <2>2. Opened(l) = {} /\ 0 \in 0 .. Depth /\ 0 - 0 + 1 .. 0 = {}
      BY <1>1, <1>2 DEF Opened
    <2> QED BY <2>1, <2>2 DEF Stacked
  <1>6. MdtMasked
    BY DEF Init, MdtMasked
  <1> QED BY <1>3, <1>4, <1>5, <1>6 DEF ReturnInv

\* No step sets a double trap bit that the hart does not have.
LEMMA MaskedWrite ==
    ASSUME config \in Config, NEW val, mstatus' = mstatus_write(val), mstatus' \in Mstatus
    PROVE  mstatus'.MDT => config.smdbltrp
  BY DEF mstatus_write, Mstatus, Config

LEMMA NextMasked ==
    ASSUME Inv, MdtMasked, Inv', [Next]_vars
    PROVE  MdtMasked'
  <1>1. config' = config /\ config \in Config /\ mstatus' \in Mstatus
    BY DEF Inv, TypeOK, Next, Return, vars, boot, save, restore, abandon, mret, sret_vs, sret_hs,
           dret, Traps, take_interrupt, fault, ecall, ebreak, catch_trap, critical_error_halt,
           raise, halt, restart
  <1>2. ASSUME NEW val, mstatus' = mstatus_write(val) PROVE MdtMasked'
    BY <1>1, <1>2, MaskedWrite DEF MdtMasked
  <1>3. ASSUME NEW val, mstatus' = sstatus_write(mstatus, val) PROVE MdtMasked'
    BY <1>2, <1>3 DEF sstatus_write
  <1>4. CASE UNCHANGED mstatus
    BY <1>1, <1>4 DEF MdtMasked
  <1>5. CASE Traps
    <2>1. PICK code : take_trap(code)
      BY <1>5 DEF Traps, take_interrupt, fault, ecall, ebreak, catch_trap
    <2>2. CASE trap_to_hs(code)
      BY <1>3, <2>2 DEF trap_to_hs
    <2>3. CASE trap_to_m(code)
      BY <1>2, <1>4, <2>3 DEF trap_to_m
    <2> QED BY <1>4, <2>1, <2>2, <2>3 DEF take_trap, trap_to_vs
  <1>6. CASE boot \/ abandon
    <2>1. \E val : mstatus' = mstatus_write(val)
      BY <1>6, Zenon DEF boot, abandon
    <2> QED BY <1>2, <2>1
  <1>7. CASE save
    <2>1. PICK ie \in BOOLEAN : Enable(Level, ie, FALSE)
      BY <1>7 DEF save
    <2>2. Level \in Levels
      BY <1>7 DEF save
    <2> QED BY <1>2, <1>3, <1>4, <2>1, <2>2 DEF Enable, Levels
  <1>8. CASE restore
    <2>1. Level \in Levels
      BY <1>8 DEF restore
    <2> QED BY <1>2, <1>3, <1>4, <1>8, <2>1 DEF restore, Levels
  <1>9. CASE mret \/ dret
    BY <1>2, <1>9 DEF mret, dret
  <1>10. CASE sret_hs
    BY <1>3, <1>10 DEF sret_hs
  <1>11. CASE sret_vs \/ raise \/ halt \/ restart \/ critical_error_halt \/ UNCHANGED vars
    BY <1>4, <1>11 DEF sret_vs, raise, halt, restart, critical_error_halt, enter_debug_mode, vars
  <1> QED
    BY <1>5, <1>6, <1>7, <1>8, <1>9, <1>10, <1>11 DEF Next, Return

\* Until debug mode is entered from debug mode, every step keeps the invariant
\* and a return is exact; after that, only the debugger's restart restores it.
LEMMA NextReturn ==
    ASSUME Inv, WaitingOK, ~lost => ReturnInv, MdtMasked, Inv', [Next]_vars
    PROVE  (~lost' => ReturnInv') /\ (Return /\ ~lost => Context' = Head(waiting).context)
  <1>1. CASE restart
    <2>1. ~Return
      BY <1>1 DEF restart, Return, mret, sret_vs, sret_hs, dret, Inv, DebugOK, S, M
    <2> QED BY <1>1, <2>1, ReturnRestart
  <1>2. CASE ~restart /\ lost
    <2>1. lost'
      BY <1>2 DEF Next, Return, vars, boot, save, restore, abandon, mret, sret_vs, sret_hs,
                  dret, Traps, take_interrupt, fault, ecall, ebreak, catch_trap,
                  critical_error_halt, enter_debug_mode, raise, halt
    <2> QED BY <1>2, <2>1
  <1>3. CASE ~restart /\ ~lost
    <2>1. CASE Return
      BY <1>3, <2>1, ReturnMret, ReturnSretVs, ReturnSretHs, ReturnDret DEF Return
    <2>2. CASE ~Return /\ Next
      <3>1. CASE Traps
        BY <1>3, <2>2, <3>1, TrapsReturn
      <3>2. CASE boot
        BY <1>3, <2>2, <3>2, ReturnBoot
      <3>3. CASE save
        BY <1>3, <2>2, <3>3, ReturnSave
      <3>4. CASE restore
        BY <1>3, <2>2, <3>4, ReturnRestore
      <3>5. CASE abandon
        BY <1>3, <2>2, <3>5, ReturnAbandon
      <3>6. CASE halt
        BY <1>3, <2>2, <3>6, ReturnDebug DEF halt
      <3>7. CASE critical_error_halt /\ debug_mode
        BY <2>2, <3>7 DEF critical_error_halt, enter_debug_mode
      <3>8. CASE critical_error_halt /\ ~debug_mode
        BY <1>3, <2>2, <3>8, ReturnDebug DEF critical_error_halt
      <3>9. CASE raise
        BY <1>3, <2>2, <3>9, ReturnSame DEF raise
      <3> QED
        BY <1>3, <2>2, <3>1, <3>2, <3>3, <3>4, <3>5, <3>6, <3>7, <3>8, <3>9 DEF Next
    <2>3. CASE ~Return /\ UNCHANGED vars
      BY <1>3, <2>3, ReturnSame DEF vars
    <2> QED BY <2>1, <2>2, <2>3
  <1> QED BY <1>1, <1>2, <1>3

\* However traps of three levels, interrupts, the debugger and critical errors
\* are nested, mret, sret and dret find the context that was interrupted, with
\* its mode, its place and its enable bits (take_trap, enter_debug_mode and
\* riscv/insns), except after debug mode was entered from debug mode, which
\* overwrites dpc and dcsr (execute.cc:470-478), and until a restart.
THEOREM TrapReturnsExact == Spec => ReturnsExact
  <1>1. ASSUME Init PROVE WaitingOK /\ (~lost => ReturnInv) /\ MdtMasked
    <2>1. WaitingOK
      BY <1>1 DEF Init, WaitingOK
    <2> QED BY <1>1, <2>1, InitReturn
  <1>2. ASSUME Inv, WaitingOK, ~lost => ReturnInv, MdtMasked, Inv', [Next]_vars
        PROVE  /\ WaitingOK' /\ (~lost => ReturnInv)' /\ MdtMasked'
               /\ [Return /\ ~lost => Context' = Head(waiting).context]_vars
    <2>1. WaitingOK' /\ MdtMasked'
      BY <1>2, NextWaiting, NextMasked
    <2>2. (~lost' => ReturnInv') /\ (Return /\ ~lost => Context' = Head(waiting).context)
      BY <1>2, NextReturn
    <2> QED BY <2>1, <2>2
  <1> QED BY <1>1, <1>2, TrapInvariant, PTL DEF Spec, ReturnsExact
=============================================================================
