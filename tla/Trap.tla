-------------------------------- MODULE Trap --------------------------------
(***************************************************************************)
(* Trap entry, delegation and return of one hart with the hypervisor       *)
(* extension: take_interrupt, take_trap, set_privilege and                 *)
(* enter_debug_mode (riscv/processor.cc), the status registers             *)
(* (riscv/csrs.cc), and mret, sret and dret (riscv/insns).                 *)
(*                                                                         *)
(* The software (external) is one handler for each of the levels M, HS and *)
(* VS and a program in U or VU mode.  A handler starts at "vector", saves  *)
(* epc and the status of the interrupted context, is then "open" to nested *)
(* traps, with interrupts on or off, restores what it saved and is about   *)
(* to "leave".  Interrupts are MTI, SSI and VSSI, all enabled in mie;      *)
(* exceptions are a fault and the ecall of each mode.  Causes and trap      *)
(* values, the landing pad state, MPRV, SPVP, Smrnmi and Ssaia are left    *)
(* out, and TSR and VTSR are never set.  The return address that a return  *)
(* has used is not read again before the next trap writes it, and is       *)
(* forgotten: states that differ in it alone are one state.                *)
(***************************************************************************)
EXTENDS Naturals, Sequences, FiniteSets

CONSTANTS
    Configs,    \* delegation and double trap settings, as in Config below
    MaxDepth    \* bound: contexts that wait and interrupts that are pending

Interrupts == {"MTI", "SSI", "VSSI"}
Exceptions == {"fault", "ecall_u", "ecall_vs", "ecall_s", "ecall_m"}
Levels     == {"M", "HS", "VS"}

\* PRV_U, PRV_S, PRV_M
U == 0
S == 1
M == 3

\* The masks of the delegation registers are those of their writes.
Config ==
    [ mideleg : SUBSET {"SSI"}, hideleg : SUBSET {"VSSI"},
      medeleg : SUBSET (Exceptions \ {"ecall_m"}), hedeleg : SUBSET {"fault", "ecall_u"},
      smdbltrp : BOOLEAN, menvcfg_dte : BOOLEAN, henvcfg_dte : BOOLEAN ]

ASSUME TrapAssumption == Configs \subseteq Config /\ MaxDepth \in Nat

VARIABLES
    config,
    prv, v, debug_mode, critical_error,
    pc,                          \* what the hart executes next
    mstatus, vsstatus, hstatus,  \* records of the fields that matter
    epc,                         \* mepc, sepc and vsepc
    dcsr, dpc,
    mip,
    caught,                      \* step has taken a trap and finds critical_error set
    frames,                      \* what the handlers of each level have saved
    waiting,                     \* history: the interrupted contexts, latest first
    lost                         \* history: dpc and dcsr no longer say where debug mode came from

vars == <<config, prv, v, debug_mode, critical_error, pc, mstatus, vsstatus, hstatus, epc,
          dcsr, dpc, mip, caught, frames, waiting, lost>>

-----------------------------------------------------------------------------
(* The status registers                                                    *)

Supervisor == [SIE : BOOLEAN, SPIE : BOOLEAN, SPP : {U, S}, SDT : BOOLEAN]
Mstatus == [SIE : BOOLEAN, SPIE : BOOLEAN, SPP : {U, S}, SDT : BOOLEAN, MIE : BOOLEAN,
            MPIE : BOOLEAN, MPP : {U, S, M}, MPV : BOOLEAN, MDT : BOOLEAN]

\* VSSI is delegated whatever mideleg holds.
mideleg == config.mideleg \cup {"VSSI"}
henvcfg_dte == config.menvcfg_dte /\ config.henvcfg_dte

\* What mstatus holds after a write of val.
mstatus_write(val) ==
    LET mdt == val.MDT /\ config.smdbltrp
    IN  [val EXCEPT !.MDT = mdt, !.MIE = @ /\ ~mdt, !.SIE = @ /\ ~val.SDT]

\* nonvirtual_sstatus: SDT is there only if menvcfg.DTE is.
sstatus_read ==
    [SIE |-> mstatus.SIE, SPIE |-> mstatus.SPIE, SPP |-> mstatus.SPP,
     SDT |-> mstatus.SDT /\ config.menvcfg_dte]

\* What mstatus holds when it held old and val is written to sstatus.
sstatus_write(old, val) ==
    mstatus_write([old EXCEPT !.SIE = val.SIE, !.SPIE = val.SPIE, !.SPP = val.SPP,
                              !.SDT = IF config.menvcfg_dte THEN val.SDT ELSE @])

vsstatus_read == [vsstatus EXCEPT !.SDT = @ /\ henvcfg_dte]

vsstatus_write(old, val) ==
    LET sdt == IF henvcfg_dte THEN val.SDT ELSE old.SDT
    IN  [val EXCEPT !.SDT = sdt, !.SIE = @ /\ ~sdt]

-----------------------------------------------------------------------------
(* Privilege, contexts                                                     *)

set_privilege(p, virt) == prv' = p /\ v' = (virt /\ p # M)

Level == IF prv = M THEN "M" ELSE IF prv = U THEN "U" ELSE IF v THEN "VS" ELSE "HS"

\* What an interrupted context must find again.
Context ==
    [ prv |-> prv, v |-> v, pc |-> pc, debug |-> debug_mode,
      MIE |-> mstatus.MIE, MDT |-> mstatus.MDT, SIE |-> mstatus.SIE, SDT |-> mstatus.SDT,
      vSIE |-> vsstatus.SIE, vSDT |-> vsstatus.SDT ]

\* A trap, or entry into debug mode, handled at level at.
Push(at, by) == waiting' = <<[at |-> at, by |-> by, context |-> Context]>> \o waiting
Pop == waiting' = SubSeq(waiting, 2, Len(waiting))

\* Entered once more from debug mode it overwrites dpc and dcsr, and what
\* they said of the interrupted context is lost.
enter_debug_mode ==
    /\ debug_mode' = TRUE
    /\ dcsr' = [prv |-> prv, v |-> v] /\ dpc' = pc
    /\ set_privilege(M, FALSE) /\ pc' = "rom"
    /\ IF debug_mode THEN lost' = TRUE /\ UNCHANGED waiting
                     ELSE Push("D", "debug") /\ UNCHANGED lost
    /\ UNCHANGED <<mstatus, vsstatus, hstatus, epc>>

-----------------------------------------------------------------------------
(* take_trap                                                               *)

vsdeleg(code) ==
    v /\ prv <= S /\ code \in config.hideleg \cup (config.medeleg \cap config.hedeleg)

\* For interrupts also nonvirtual_sip, which without Ssaia is part of mideleg.
hsdeleg(code) == prv <= S /\ code \in mideleg \cup config.medeleg

\* A trap to a level whose SDT is set goes to M instead.
supv_double_trap(code) ==
    IF vsdeleg(code) THEN vsstatus_read.SDT ELSE hsdeleg(code) /\ sstatus_read.SDT

trap_to_vs(code) ==
    /\ pc' = "vector"
    /\ epc' = [epc EXCEPT !["VS"] = pc]
    /\ vsstatus' = vsstatus_write(vsstatus,
           [SIE |-> FALSE, SPIE |-> vsstatus_read.SIE, SPP |-> prv,
            SDT |-> vsstatus_read.SDT \/ henvcfg_dte])
    /\ set_privilege(S, TRUE)
    /\ Push("VS", code)
    /\ UNCHANGED <<mstatus, hstatus, debug_mode, dcsr, dpc, critical_error>>

\* Mutant: SPV keeps the value of the trap before.
trap_to_hs_mut(code) ==
    /\ pc' = "vector"
    /\ epc' = [epc EXCEPT !["HS"] = pc]
    /\ mstatus' = sstatus_write(mstatus,
           [SIE |-> FALSE, SPIE |-> mstatus.SIE, SPP |-> prv, SDT |-> config.menvcfg_dte])
    /\ hstatus' = [SPV |-> v \/ hstatus.SPV]
    /\ set_privilege(S, FALSE)
    /\ Push("HS", code)
    /\ UNCHANGED <<vsstatus, debug_mode, dcsr, dpc, critical_error>>

trap_to_hs(code) ==
    /\ pc' = "vector"
    /\ epc' = [epc EXCEPT !["HS"] = pc]
    /\ mstatus' = sstatus_write(mstatus,
           [SIE |-> FALSE, SPIE |-> mstatus.SIE, SPP |-> prv,
            SDT |-> sstatus_read.SDT \/ config.menvcfg_dte])
    /\ hstatus' = [SPV |-> v]
    /\ set_privilege(S, FALSE)
    /\ Push("HS", code)
    /\ UNCHANGED <<vsstatus, debug_mode, dcsr, dpc, critical_error>>

\* A trap while MDT is set is a critical error and changes nothing else.
trap_to_m(code) ==
    IF config.smdbltrp /\ mstatus.MDT
    THEN /\ critical_error' = TRUE
         /\ UNCHANGED <<prv, v, debug_mode, pc, mstatus, vsstatus, hstatus, epc, dcsr, dpc, waiting>>
    ELSE /\ pc' = "vector"
         /\ epc' = [epc EXCEPT !["M"] = pc]
         /\ mstatus' = mstatus_write([mstatus EXCEPT
                !.MDT = config.smdbltrp, !.MPIE = mstatus.MIE, !.MPP = prv,
                !.MIE = FALSE, !.MPV = v])
         /\ set_privilege(M, FALSE)
         /\ Push("M", code)
         /\ UNCHANGED <<vsstatus, hstatus, debug_mode, dcsr, dpc, critical_error>>

take_trap(code) ==
    IF debug_mode
    THEN /\ pc' = IF code = "breakpoint" THEN "rom" ELSE "rom_tvec"
         /\ UNCHANGED <<prv, v, debug_mode, critical_error, mstatus, vsstatus, hstatus, epc,
                        dcsr, dpc, waiting>>
    ELSE IF supv_double_trap(code) THEN trap_to_m(code)
    ELSE IF vsdeleg(code) THEN trap_to_vs(code)
    ELSE IF hsdeleg(code) THEN trap_to_hs(code) ELSE trap_to_m(code)

\* The trap as processor_t::step catches it.  critical_error is never cleared:
\* once it is set, step enters debug mode after every trap, ...
catch_trap(code) ==
    /\ take_trap(code)
    /\ caught' = critical_error'
    /\ UNCHANGED <<config, mip, frames, lost>>

\* ... before anything else, and even if the trap came from debug mode.
critical_error_halt ==
    /\ caught /\ caught' = FALSE /\ enter_debug_mode
    /\ UNCHANGED <<config, critical_error, mip, frames>>

-----------------------------------------------------------------------------
(* take_interrupt                                                          *)

sstatus_sie == IF v THEN vsstatus.SIE ELSE mstatus.SIE

m_interrupts  == IF prv < M \/ mstatus.MIE THEN mip \ mideleg ELSE {}
hs_interrupts == IF v \/ prv < S \/ (prv = S /\ sstatus_sie)
                 THEN mip \cap (mideleg \ config.hideleg) ELSE {}
vs_interrupts == IF v /\ (prv < S \/ (prv = S /\ sstatus_sie))
                 THEN mip \cap config.hideleg ELSE {}

\* Mutant: interrupts of HS and VS are looked at together.
enabled_interrupts_mut ==
    IF m_interrupts # {} THEN m_interrupts ELSE hs_interrupts \cup (mip \cap config.hideleg)

enabled_interrupts ==
    IF m_interrupts # {} THEN m_interrupts
    ELSE IF hs_interrupts # {} THEN hs_interrupts ELSE vs_interrupts

\* select_an_interrupt_with_default_priority
Selected(set) ==
    IF "MTI" \in set THEN "MTI" ELSE IF "SSI" \in set THEN "SSI" ELSE "VSSI"

take_interrupt ==
    /\ ~debug_mode /\ enabled_interrupts # {}
    /\ catch_trap(Selected(enabled_interrupts))

-----------------------------------------------------------------------------
(* Returns                                                                 *)

Forget(l) == [epc EXCEPT ![l] = "none"]

\* Mutant: SDT survives a return to user mode.
mret_mut ==
    /\ prv = M /\ ~debug_mode /\ pc = "leave"
    /\ pc' = epc["M"]
    /\ epc' = Forget("M")
    /\ mstatus' = mstatus_write([mstatus EXCEPT
           !.MIE = mstatus.MPIE, !.MPIE = TRUE, !.MPP = U, !.MPV = FALSE, !.MDT = FALSE])
    /\ set_privilege(mstatus.MPP, mstatus.MPV)
    /\ Pop
    /\ UNCHANGED <<config, debug_mode, critical_error, vsstatus, hstatus, dcsr,
                   dpc, mip, caught, frames, lost>>

mret ==
    LET prev_prv == mstatus.MPP
        prev_virt == mstatus.MPV
    IN  /\ prv = M /\ ~debug_mode /\ pc = "leave"
        /\ pc' = epc["M"]
        /\ epc' = Forget("M")
        /\ mstatus' = mstatus_write([mstatus EXCEPT
               !.MIE = mstatus.MPIE, !.MPIE = TRUE, !.MPP = U, !.MPV = FALSE, !.MDT = FALSE,
               !.SDT = @ /\ ~(prev_prv = U \/ (prev_virt /\ prev_prv # M))])
        /\ vsstatus' = IF prev_virt /\ prev_prv = U
                       THEN vsstatus_write(vsstatus, [vsstatus_read EXCEPT !.SDT = FALSE])
                       ELSE vsstatus
        /\ set_privilege(prev_prv, prev_virt)
        /\ Pop
        /\ UNCHANGED <<config, debug_mode, critical_error, hstatus, dcsr, dpc,
                       mip, caught, frames, lost>>

\* Mutant: the return of a guest is made with the registers of the host.
sret_vs_mut ==
    /\ prv = S /\ v /\ pc = "leave"
    /\ pc' = epc["VS"]
    /\ epc' = Forget("VS")
    /\ mstatus' = sstatus_write(mstatus,
           [SIE |-> mstatus.SPIE, SPIE |-> TRUE, SPP |-> U, SDT |-> FALSE])
    /\ set_privilege(mstatus.SPP, TRUE)
    /\ Pop
    /\ UNCHANGED <<config, debug_mode, critical_error, vsstatus, hstatus, dcsr, dpc,
                   mip, caught, frames, lost>>

\* sret in VS mode uses vsstatus, in HS mode sstatus and hstatus.  No handler
\* of M uses sret, and what it does there (sret.h:30-36) is left out.
sret_vs ==
    /\ prv = S /\ v /\ pc = "leave"
    /\ pc' = epc["VS"]
    /\ epc' = Forget("VS")
    /\ vsstatus' = vsstatus_write(vsstatus,
           [SIE |-> vsstatus.SPIE, SPIE |-> TRUE, SPP |-> U, SDT |-> FALSE])
    /\ set_privilege(vsstatus.SPP, TRUE)
    /\ Pop
    /\ UNCHANGED <<config, debug_mode, critical_error, mstatus, hstatus, dcsr, dpc,
                   mip, caught, frames, lost>>

sret_hs ==
    LET prev_prv == mstatus.SPP
        prev_virt == hstatus.SPV
    IN  /\ prv = S /\ ~v /\ pc = "leave"
        /\ pc' = epc["HS"]
        /\ epc' = Forget("HS")
        /\ mstatus' = sstatus_write(mstatus,
               [SIE |-> mstatus.SPIE, SPIE |-> TRUE, SPP |-> U, SDT |-> FALSE])
        /\ hstatus' = [hstatus EXCEPT !.SPV = FALSE]
        /\ vsstatus' = IF prev_virt /\ prev_prv = U
                       THEN vsstatus_write(vsstatus, [vsstatus_read EXCEPT !.SDT = FALSE])
                       ELSE vsstatus
        /\ set_privilege(prev_prv, prev_virt)
        /\ Pop
        /\ UNCHANGED <<config, debug_mode, critical_error, dcsr, dpc, mip, caught, frames, lost>>

\* Mutant: MDT survives when the debugger has chosen a lower mode.
dret_mut ==
    /\ debug_mode /\ debug_mode' = FALSE
    /\ pc' = dpc
    /\ set_privilege(dcsr.prv, dcsr.v)
    /\ dcsr' = [prv |-> M, v |-> FALSE] /\ dpc' = "none"
    /\ Pop
    /\ UNCHANGED <<config, mstatus, vsstatus, critical_error, hstatus, epc,
                   mip, caught, frames, lost>>

dret ==
    /\ debug_mode /\ debug_mode' = FALSE
    /\ pc' = dpc
    /\ set_privilege(dcsr.prv, dcsr.v)
    /\ dcsr' = [prv |-> M, v |-> FALSE] /\ dpc' = "none"
    /\ LET mdt == mstatus.MDT /\ dcsr.prv = M
           sdt == mstatus.SDT /\ ~(dcsr.prv = U \/ dcsr.v)
       IN  mstatus' = mstatus_write([mstatus EXCEPT !.MDT = mdt, !.SDT = sdt])
    /\ vsstatus' = IF dcsr.v /\ dcsr.prv = U
                   THEN vsstatus_write(vsstatus, [vsstatus_read EXCEPT !.SDT = FALSE])
                   ELSE vsstatus
    /\ Pop
    /\ UNCHANGED <<config, critical_error, hstatus, epc, mip, caught, frames, lost>>
=============================================================================
