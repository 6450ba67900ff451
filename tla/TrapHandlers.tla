---------------------------- MODULE TrapHandlers ----------------------------
(***************************************************************************)
(* The hart of Trap with the software that runs on it: the program, the    *)
(* handlers of the three levels, and a debugger.                           *)
(***************************************************************************)
EXTENDS Trap

Init ==
    /\ config \in Configs
    /\ prv = M /\ v = FALSE /\ debug_mode = FALSE /\ critical_error = FALSE
    /\ pc = "boot"
    /\ mstatus = [SIE |-> FALSE, SPIE |-> FALSE, SPP |-> U, SDT |-> FALSE, MIE |-> FALSE,
                  MPIE |-> FALSE, MPP |-> U, MPV |-> FALSE, MDT |-> config.smdbltrp]
    /\ vsstatus = [SIE |-> FALSE, SPIE |-> FALSE, SPP |-> U, SDT |-> FALSE]
    /\ hstatus = [SPV |-> FALSE]
    /\ epc = [l \in Levels |-> "main"]
    /\ dcsr = [prv |-> M, v |-> FALSE] /\ dpc = "none"
    /\ mip = {} /\ caught = FALSE
    /\ frames = [l \in Levels |-> <<>>] /\ waiting = <<>> /\ lost = FALSE

\* The program as a context: what a return to it must produce when mstatus
\* holds m, vsstatus holds vs, and MIE is to be mie.
Program(virt, m, vs, mie) ==
    [ prv |-> U, v |-> virt, pc |-> "main", debug |-> FALSE,
      MIE |-> mie, MDT |-> FALSE, SIE |-> m.SIE, SDT |-> FALSE,
      vSIE |-> vs.SIE, vSDT |-> vs.SDT /\ ~virt ]

\* The boot code prepares the return to the program.
boot ==
    /\ pc = "boot" /\ pc' = "leave"
    /\ \E ie, virt \in BOOLEAN :
          /\ mstatus' = mstatus_write([mstatus EXCEPT !.MPIE = ie, !.SIE = ie, !.MPV = virt])
          /\ vsstatus' = vsstatus_write(vsstatus, [vsstatus EXCEPT !.SIE = ie])
          /\ waiting' = <<[at |-> "M", by |-> "boot", context |-> Program(virt, mstatus', vsstatus', ie)]>>
    /\ UNCHANGED <<config, prv, v, debug_mode, critical_error, hstatus, epc, dcsr, dpc,
                   mip, caught, frames, lost>>

\* The registers of level l that its handler saves.
Saved(l) ==
    CASE l = "M"  -> [epc |-> epc[l], pie |-> mstatus.MPIE, pp |-> mstatus.MPP, pv |-> mstatus.MPV]
      [] l = "HS" -> [epc |-> epc[l], pie |-> mstatus.SPIE, pp |-> mstatus.SPP, pv |-> hstatus.SPV]
      [] l = "VS" -> [epc |-> epc[l], pie |-> vsstatus.SPIE, pp |-> vsstatus.SPP, pv |-> TRUE]

\* Writes of the interrupt enable and double trap bits of level l.
Enable(l, ie, dt) ==
    CASE l = "M"  -> /\ mstatus' = mstatus_write([mstatus EXCEPT !.MIE = ie, !.MDT = dt])
                     /\ UNCHANGED vsstatus
      [] l = "HS" -> /\ mstatus' = sstatus_write(mstatus, [sstatus_read EXCEPT !.SIE = ie, !.SDT = dt])
                     /\ UNCHANGED vsstatus
      [] l = "VS" -> /\ vsstatus' = vsstatus_write(vsstatus, [vsstatus_read EXCEPT !.SIE = ie, !.SDT = dt])
                     /\ UNCHANGED mstatus

\* The handler saves what it needs, clears the interrupt, and lets go of the
\* double trap bit; it may let itself be interrupted.
save ==
    /\ pc = "vector" /\ pc' = "open" /\ ~debug_mode /\ Level \in Levels
    /\ frames' = [frames EXCEPT ![Level] = <<Saved(Level)>> \o @]
    /\ mip' = mip \ {Head(waiting).by}   \* as xcause says
    /\ \E ie \in BOOLEAN : Enable(Level, ie, FALSE)
    /\ UNCHANGED <<config, prv, v, debug_mode, critical_error, hstatus, epc, dcsr, dpc,
                   caught, waiting, lost>>

\* It blocks interrupts, sets the double trap bit, and restores.
restore ==
    LET f == Head(frames[Level])
    IN  /\ pc = "open" /\ pc' = "leave" /\ ~debug_mode /\ Level \in Levels
        /\ frames[Level] # <<>>
        /\ frames' = [frames EXCEPT ![Level] = Tail(@)]
        /\ epc' = [epc EXCEPT ![Level] = f.epc]
        /\ mstatus' = CASE Level = "M" -> mstatus_write([mstatus EXCEPT
                                !.MIE = FALSE, !.MDT = TRUE, !.MPIE = f.pie, !.MPP = f.pp, !.MPV = f.pv])
                        [] Level = "HS" -> sstatus_write(mstatus,
                                [SIE |-> FALSE, SDT |-> TRUE, SPIE |-> f.pie, SPP |-> f.pp])
                        [] Level = "VS" -> mstatus
        /\ vsstatus' = IF Level = "VS"
                       THEN vsstatus_write(vsstatus, [SIE |-> FALSE, SDT |-> TRUE,
                                                      SPIE |-> f.pie, SPP |-> f.pp])
                       ELSE vsstatus
        /\ hstatus' = IF Level = "HS" THEN [hstatus EXCEPT !.SPV = f.pv] ELSE hstatus
        /\ UNCHANGED <<config, prv, v, debug_mode, critical_error, dcsr, dpc, mip,
                       caught, waiting, lost>>

\* After a double trap the handler of M may give the handlers below it up
\* and prepare a return to the program.
abandon ==
    /\ pc = "open" /\ pc' = "leave" /\ Level = "M" /\ ~debug_mode
    /\ waiting # <<>> /\ (Head(waiting).context.SDT \/ Head(waiting).context.vSDT)
    /\ frames' = [l \in Levels |-> <<>>] /\ epc' = [l \in Levels |-> IF l = "M" THEN "main" ELSE "none"]
    /\ \E virt \in BOOLEAN :
          /\ mstatus' = mstatus_write([mstatus EXCEPT !.MIE = FALSE, !.MDT = TRUE,
                                            !.MPIE = TRUE, !.MPP = U, !.MPV = virt])
          /\ waiting' = <<[at |-> "M", by |-> "boot",
                           context |-> Program(virt, mstatus, vsstatus, TRUE)]>>
    /\ UNCHANGED <<config, prv, v, debug_mode, critical_error, vsstatus, hstatus, dcsr, dpc,
                   mip, caught, lost>>

\* Room for one more context that waits; one that was lost keeps its place.
Room == Len(waiting) + Cardinality(mip) + (IF lost THEN 1 ELSE 0) < MaxDepth

\* Handlers make no mistake while their registers are not saved, unless a
\* double trap is caught.
MayFault ==
    pc \in {"vector", "leave", "boot"} =>
        CASE Level = "M"  -> config.smdbltrp
          [] Level = "HS" -> config.menvcfg_dte \/ "fault" \notin config.medeleg
          [] Level = "VS" -> henvcfg_dte \/ "fault" \notin config.medeleg \cap config.hedeleg
          [] OTHER -> TRUE

\* The debug ROM traps when it is not executed in debug mode.
InRom == pc \in {"rom", "rom_tvec"} /\ ~debug_mode

fault == (Room \/ InRom) /\ MayFault /\ (debug_mode => pc # "rom_tvec") /\ catch_trap("fault")

ecall ==
    /\ Room /\ pc \in {"main", "open"}
    /\ catch_trap(CASE prv = U -> "ecall_u" [] prv = M -> "ecall_m"
                    [] OTHER -> IF v THEN "ecall_vs" ELSE "ecall_s")

\* The exception handler of the debug ROM, and a program buffer, end with ebreak.
ebreak == debug_mode /\ (critical_error => Room) /\ catch_trap("breakpoint")

\* A device, or another hart.
raise ==
    /\ Room /\ \E i \in Interrupts \ mip : mip' = mip \cup {i}
    /\ UNCHANGED <<config, prv, v, debug_mode, critical_error, pc, mstatus, vsstatus, hstatus,
                   epc, dcsr, dpc, caught, frames, waiting, lost>>

\* The debugger halts the hart, as the slow loop does by itself after an
\* instruction that finds critical_error set, ...
halt ==
    /\ Room /\ ~debug_mode /\ pc # "boot" /\ enter_debug_mode
    /\ UNCHANGED <<config, critical_error, mip, caught, frames>>

\* ... and may start the program from its beginning, which makes good what
\* was lost.
restart ==
    /\ debug_mode /\ waiting # <<>> /\ dpc # "main"
    /\ \E virt \in BOOLEAN :
          /\ dcsr' = [prv |-> U, v |-> virt] /\ dpc' = "main"
          /\ waiting' = <<[at |-> "D", by |-> "debug",
                           context |-> Program(virt, mstatus, vsstatus, mstatus.MIE)]>>
    /\ frames' = [l \in Levels |-> <<>>] /\ epc' = [l \in Levels |-> "none"]
    /\ lost' = FALSE
    /\ UNCHANGED <<config, prv, v, debug_mode, critical_error, pc, mstatus, vsstatus, hstatus,
                   mip, caught>>

Return == mret \/ sret_vs \/ sret_hs \/ dret

Traps == take_interrupt \/ fault \/ ecall \/ ebreak

Next ==
    \/ critical_error_halt
    \/ ~caught /\ (boot \/ save \/ restore \/ abandon \/ Return \/ Traps \/ raise \/ halt \/ restart)

Spec == Init /\ [][Next]_vars

-----------------------------------------------------------------------------
(* Properties                                                              *)

Pcs == {"none", "boot", "main", "vector", "open", "leave", "rom", "rom_tvec"}

TypeOK ==
    /\ config \in Config
    /\ prv \in {U, S, M} /\ v \in BOOLEAN /\ debug_mode \in BOOLEAN /\ critical_error \in BOOLEAN
    /\ pc \in Pcs /\ dpc \in Pcs /\ epc \in [Levels -> Pcs]
    /\ mstatus \in Mstatus /\ vsstatus \in Supervisor
    /\ hstatus \in [SPV : BOOLEAN] /\ dcsr \in [prv : {U, S, M}, v : BOOLEAN]
    /\ mip \subseteq Interrupts /\ caught \in BOOLEAN /\ lost \in BOOLEAN

\* The double trap bits are set only where a handler of that level can be in
\* the window they protect, and exclude the interrupt enable bit: traps,
\* returns, register writes and the debugger all keep to this, so that no
\* trap from a lower mode is ever taken for a double trap.
DoubleTrapBits ==
    /\ prv # M => ~mstatus.MDT
    /\ prv = U \/ v => ~mstatus.SDT
    /\ prv = U /\ v => ~vsstatus.SDT
    /\ mstatus.MDT => ~mstatus.MIE
    /\ mstatus.SDT => ~mstatus.SIE
    /\ vsstatus.SDT => ~vsstatus.SIE

\* A critical error comes from a trap in M mode only: nothing that lower
\* modes do can stop the hart.
CriticalOnlyInM == [][critical_error' # critical_error => prv = M]_vars

\* Every return finds the context that was interrupted, with its mode, its
\* place and its enable bits, however traps of three levels, interrupts, the
\* debugger and critical errors were nested (take_trap with mret, sret and
\* dret), as long as debug mode was not entered from debug mode: the trap of a
\* hart that has had a critical error does that (execute.cc:470) and leaves
\* dret nothing to return by, until the debugger writes dpc and dcsr anew.
ReturnsExact == [][Return /\ ~lost => Context' = Head(waiting).context]_vars

Owner(i) ==
    IF i \in config.hideleg THEN "VS" ELSE IF i \in mideleg THEN "HS" ELSE "M"
Rank(c) == IF c.prv = M THEN 3 ELSE IF c.prv = U THEN 0 ELSE IF c.v THEN 1 ELSE 2
RankOf(l) == CASE l = "M" -> 3 [] l = "HS" -> 2 [] l = "VS" -> 1
IeOf(c, l) == CASE l = "M" -> c.MIE [] l = "HS" -> c.SIE [] l = "VS" -> c.vSIE

\* The interrupt that w waits for was w's to take.
RightlyTaken(w) ==
    w.by \in Interrupts =>
        /\ w.at = Owner(w.by)
        /\ ~w.context.debug
        /\ Rank(w.context) <= RankOf(w.at)
        /\ Rank(w.context) = RankOf(w.at) => IeOf(w.context, w.at)
        /\ w.at = "VS" => w.context.v

\* An interrupt goes to the level it is delegated to, never to M as a double
\* trap, and interrupts neither a higher level nor a level that has disabled
\* interrupts: take_interrupt and take_trap agree about who takes it.
InterruptToOwner == \A k \in DOMAIN waiting : RightlyTaken(waiting[k])

\* What a guest does by itself leaves the registers of the host alone: only
\* a trap out of it, or the debugger, changes them.
GuestContained ==
    [][v /\ v' /\ ~debug_mode' =>
           UNCHANGED <<mstatus, hstatus, epc["HS"], epc["M"]>>]_vars
=============================================================================
