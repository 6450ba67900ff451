--------------------------------- MODULE Mmu ---------------------------------
(***************************************************************************)
(* A hart's port to memory, mmu_t: three direct-mapped TLBs, the           *)
(* instruction cache, the page table walk with its accessed and dirty      *)
(* bits, physical memory protection, and everything that rides on an       *)
(* access: triggers, the memory tracers, the access log and load           *)
(* reservations.                                                           *)
(*                                                                         *)
(* A hit of the TLB or of the instruction cache looks at none of the       *)
(* registers that decide about an access. That is right only if every      *)
(* change of one of them empties the caches, and if a page whose accesses  *)
(* someone wants to see is not entered as an ordinary one. The program is  *)
(* any sequence of instructions: each is fetched and then accesses data,   *)
(* writes a register or fences. Addresses are sectors (Pmp); a page table  *)
(* is one level, held in PtSector. What a program does is bounded by the   *)
(* sets in opt, chosen in the initial state.                               *)
(***************************************************************************)
EXTENDS Pmp

CONSTANTS
    TlbEntries,     \* TLB_ENTRIES
    Ram,            \* pages of memory; the others are devices
    PtSector,       \* where the page table lies
    None,
    Options         \* the programs and machines explored

VPages   == Pages
Flags    == {"triggers", "tracer", "mmio"}
PteType  == [ppn : Nat, v : BOOLEAN, r : BOOLEAN, w : BOOLEAN, x : BOOLEAN, u : BOOLEAN,
             a : BOOLEAN, d : BOOLEAN]
Statuses == [mprv : BOOLEAN, mpp : Modes, sum : BOOLEAN, mxr : BOOLEAN]
Entry    == [vpn : VPages, ppn : Nat, flags : SUBSET Flags]
LrType   == [sector : Nat, broken : BOOLEAN]

\* An access is as long as 1, 2, 4, ... sectors and no longer than a page. One
\* that begins inside its first sector (off = 1) reaches into one sector more.
VasOf(a) == a.va .. a.va + a.len - 1 + a.off
Accesses == {a \in [va : Sectors, len : 1 .. PgSectors, off : {0, 1}] :
                PgSectors % a.len = 0 /\ a.va + a.len - 1 + a.off \in Sectors}

ASSUME MmuAssumption ==
    /\ TlbEntries \in Nat \ {0}
    /\ Ram \subseteq Pages /\ PtSector \in Sectors
    /\ None \notin Nat /\ None \notin Entry /\ None \notin LrType
    /\ \A o \in Options :
          /\ o.pmpaddr \subseteq Nat /\ o.pmpcfg \subseteq CfgType
          /\ o.mseccfg \subseteq SeccfgType /\ o.mstatus \subseteq Statuses
          /\ \A v \in VPages : o.ptes[v] \subseteq PteType
          /\ o.fetches \subseteq Sectors /\ o.loads \subseteq Accesses /\ o.stores \subseteq Accesses
          /\ o.reserves \subseteq {a \in Accesses : a.len = 1 /\ a.off = 0}
          /\ o.traced \subseteq Types \X Sectors

VARIABLES
    opt,            \* the option of this behavior
    prv, mstatus, satp,
    ptes,           \* the page table: [virtual page -> pte]
    tlb,            \* [type -> [index -> None or [vpn, ppn, flags]]]
    icache,         \* [virtual address -> None or the sector fetched from]
    trigger,        \* None or [type, va, after]
    armed,          \* the enable bits let the trigger match (common_match)
    matched,        \* matched_trigger
    log,            \* get_log_or_stf_commits_enabled
    reservation,    \* load_reservation_address or None
    phase,          \* "fetch", "exec" or "trap"
    last,           \* the access just made, or None
    seen,           \* ghost: [virtual page -> ptes held since the last flush]
    late,           \* ghost: armed was turned on since the last flush
    lr              \* ghost: None or the last lr, [sector, broken]

csrVars   == <<prv, mstatus, satp>>
cacheVars == <<tlb, icache, seen, late>>
trigVars  == <<trigger, armed, matched>>
lrVars    == <<reservation, lr>>
vars      == <<opt, csrVars, ptes, cacheVars, trigVars, log, lrVars, phase, last, pmpVars>>

NoTlb    == [type \in Types |-> [i \in 0 .. TlbEntries - 1 |-> None]]
NoIcache == [va \in Sectors |-> None]

-----------------------------------------------------------------------------
(* Translation                                                             *)

\* generate_access_info: MPRV makes data accesses those of the mode in MPP.
effective_priv(type) == IF type # "fetch" /\ mstatus.mprv THEN mstatus.mpp ELSE prv

Bare(mode) == mode = "M" \/ satp = "bare"

\* The page table entry lets the mode make the access.
Permits(p, type, mode) ==
    /\ IF p.u THEN mode = "S" => type # "fetch" /\ mstatus.sum ELSE mode = "S"
    /\ p.v /\ (p.w => p.r)
    /\ CASE type = "fetch" -> p.x
         [] type = "load"  -> p.r \/ (mstatus.mxr /\ p.x)
         [] OTHER          -> p.w

Used(p, type) == [p EXCEPT !.a = TRUE, !.d = @ \/ type = "store"]

\* The walk reads the entry and may set its accessed and dirty bits, both
\* subject to the PMP at the place of the entry.
WalkOk(p, type, mode) ==
    /\ pmp_ok({PtSector}, "load", "S")
    /\ Permits(p, type, mode)
    /\ Used(p, type) # p => opt.adue /\ pmp_ok({PtSector}, "store", "S")

walk(pt, type, vpn, mode) ==
    IF Bare(mode) THEN [ok |-> TRUE, ppn |-> vpn, pt |-> pt]
    ELSE IF WalkOk(pt[vpn], type, mode)
    THEN [ok |-> TRUE, ppn |-> pt[vpn].ppn, pt |-> [pt EXCEPT ![vpn] = Used(@, type)]]
    ELSE [ok |-> FALSE, ppn |-> pt[vpn].ppn, pt |-> pt]

SectorsAt(ppn, vas) == {ppn * PgSectors + (va % PgSectors) : va \in vas}

\* The bits are set even if the PMP then forbids the access itself.
Checked(w, type, vas, mode) == [w EXCEPT !.ok = @ /\ pmp_ok(SectorsAt(w.ppn, vas), type, mode)]

translate(pt, type, vas, vpn) ==
    Checked(walk(pt, type, vpn, effective_priv(type)), type, vas, effective_priv(type))

-----------------------------------------------------------------------------
(* The TLBs                                                                *)

Index(vpn) == vpn % TlbEntries

\* access_tlb: the tag is the page and no flags but the allowed ones.
Hit(t, type, vpn, allowed) ==
    LET e == t[type][Index(vpn)]
    IN  e # None /\ e.vpn = vpn /\ e.flags \subseteq allowed

Interested(type, sectors) == \E s \in sectors : <<type, s>> \in opt.traced

\* Mutant: a page whose accesses are logged is entered.
refill_tlb_mut(t, type, vpn, ppn) ==
    LET flags == {f \in Flags :
                    CASE f = "triggers" -> trigger # None /\ trigger.type = type
                      [] f = "tracer"   -> Interested(type, SectorsOf(ppn))
                      [] f = "mmio"     -> ppn \notin Ram}
    IN  IF mstatus.mprv \/ ~pmp_homogeneous(ppn) THEN t
        ELSE [t EXCEPT ![type][Index(vpn)] = [vpn |-> vpn, ppn |-> ppn, flags |-> flags]]

\* What is not entered is walked again every time.
refill_tlb(t, type, vpn, ppn) ==
    LET flags == {f \in Flags :
                    CASE f = "triggers" -> trigger # None /\ trigger.type = type
                      [] f = "tracer"   -> Interested(type, SectorsOf(ppn))
                      [] f = "mmio"     -> ppn \notin Ram}
    IN  IF mstatus.mprv \/ ~pmp_homogeneous(ppn) \/ log THEN t
        ELSE [t EXCEPT ![type][Index(vpn)] = [vpn |-> vpn, ppn |-> ppn, flags |-> flags]]

\* flush_tlb empties the instruction cache too.
flush_tlb ==
    /\ tlb' = NoTlb /\ icache' = NoIcache
    /\ seen' = [v \in VPages |-> {ptes[v]}] /\ late' = FALSE

\* Mutant: a register whose value changes does not empty the caches.
flush_if_mut(cond) == IF cond /\ prv = "M" THEN flush_tlb ELSE UNCHANGED cacheVars

flush_if(cond) == IF cond THEN flush_tlb ELSE UNCHANGED cacheVars

-----------------------------------------------------------------------------
(* Data accesses. An access is [va, len, off] in sectors; one of two       *)
(* sectors from an odd address, and one that begins inside a sector, is    *)
(* misaligned and, at the end of a page, on two.                           *)

Aligned(a) == a.off = 0 /\ a.va % a.len = 0
OnePage(a) == Page(a.va + a.len - 1 + a.off) = Page(a.va)

\* The sectors that the PMP is asked about: the ones of the first byte and of
\* every fourth byte after it, which leaves out the last sector of an access
\* that begins inside a sector. The parts of an access on two pages are short
\* enough for every sector of them to be met.
PmpVas(a) == a.va .. a.va + a.len - 1 + (IF OnePage(a) THEN 0 ELSE a.off)

Reservable(sectors) == \A s \in sectors : Page(s) \in Ram
Fires(type, a) == trigger # None /\ armed /\ trigger.type = type /\ trigger.va = a.va

\* load_slow_path_intrapage, store_slow_path_intrapage: the part of the
\* access on one page, vas, of which the PMP is asked about checked; m is what
\* the parts before it left, [tlb, pt, ok, sectors], and x its translation.
\* Special accesses (lr) neither use nor fill the TLB.
Walked(m, x, type, vas, vpn, special) ==
    [tlb |-> IF special \/ ~x.ok THEN m.tlb ELSE refill_tlb(m.tlb, type, vpn, x.ppn),
     pt |-> x.pt, ok |-> x.ok, sectors |-> m.sectors \cup SectorsAt(x.ppn, vas)]

intrapage(m, type, vas, checked, vpn, special) ==
    IF Hit(m.tlb, type, vpn, Flags) /\ ~special
    THEN [m EXCEPT !.sectors = @ \cup SectorsAt(m.tlb[type][Index(vpn)].ppn, vas)]
    ELSE Walked(m, translate(m.pt, type, checked, vpn), type, vas, vpn, special)

\* A device accepts the access or not; it is never reserved.
Accepted(m, special, served) ==
    [m EXCEPT !.ok = @ /\ (Reservable(m.sectors) \/ (served /\ ~special))]

\* What a load or store did: the outcome ("done", "fault" or "trigger"), the
\* caches after it and what was seen of it.
Result(out, m, flush, traced, logged) ==
    [out |-> out, tlb |-> m.tlb, pt |-> m.pt, sectors |-> m.sectors,
     flush |-> flush, traced |-> traced, logged |-> logged]

Ended(type, m, flush, traced, logged) ==
    Result(IF m.ok THEN "done" ELSE "fault", m, flush,
           traced /\ Interested(type, m.sectors), logged)

\* An access through an entry of the TLB. One without flags tells no tracer.
fast_path(type, a, pt, served) ==
    Ended(type, Accepted([tlb |-> tlb, pt |-> pt, ok |-> TRUE,
                          sectors |-> SectorsAt(tlb[type][Index(Page(a.va))].ppn, VasOf(a))],
                         FALSE, served),
          FALSE, ~Hit(tlb, type, Page(a.va), {}), FALSE)

\* The access page by page, up to the first part that fails.
Part(m, type, a, page, special, served) ==
    IF ~m.ok THEN m
    ELSE LET on(vas) == {va \in vas : Page(va) = page}
         IN  Accepted(intrapage(m, type, on(VasOf(a)), on(PmpVas(a)), page, special),
                      special, served)

slow_path(type, a, start, special, served) ==
    LET first == Part(start, type, a, Page(a.va), special, served)
    IN  Ended(type, IF OnePage(a) THEN first
                    ELSE Part(first, type, a, Page(a.va) + 1, special, served),
              Fires(type, a), TRUE, log)

\* load and store from page table pt on. served: the device, if there is one,
\* accepts the access.
Access(type, a, pt, special, served) ==
    LET start == [tlb |-> IF Fires(type, a) THEN NoTlb ELSE tlb, pt |-> pt, ok |-> TRUE,
                  sectors |-> {}]
    IN  IF /\ ~special /\ (Aligned(a) \/ (OnePage(a) /\ opt.misaligned))
           /\ Hit(tlb, type, Page(a.va), Flags \ {"triggers"})
        THEN fast_path(type, a, pt, served)
        ELSE IF Fires(type, a) /\ ~trigger.after
        THEN Result("trigger", [start EXCEPT !.tlb = tlb], FALSE, FALSE, FALSE)
        ELSE IF ~Aligned(a) /\ (special \/ ~opt.misaligned)
        THEN Result("fault", start, Fires(type, a), FALSE, FALSE)
        ELSE slow_path(type, a, start, special, served)

\* check_triggers: a match after the access forces the next fetch through the
\* slow path.
IcacheAfter(flush) == IF flush THEN NoIcache ELSE icache

\* The end of an instruction that made access r for operation op.
Finish(op, a, type, r) ==
    /\ tlb' = r.tlb /\ ptes' = r.pt
    /\ icache' = IcacheAfter(r.flush)
    /\ seen' = [v \in VPages |-> {ptes[v], r.pt[v]} \cup IF r.flush THEN {} ELSE seen[v]]
    /\ late' = (late /\ ~r.flush)
    /\ matched' = (matched \/ r.flush)
    /\ phase' = IF r.out = "done" THEN "fetch" ELSE "trap"
    /\ last' = IF r.out # "done" THEN None
               ELSE [op |-> op, type |-> type, va |-> a.va, len |-> a.len, off |-> a.off,
                     sectors |-> r.sectors, traced |-> r.traced, logged |-> r.logged,
                     lr |-> IF op = "sc" THEN lr ELSE None]
    /\ UNCHANGED <<opt, csrVars, trigger, armed, log, pmpVars>>

load(a) ==
    /\ phase = "exec" /\ a \in opt.loads
    /\ \E served \in BOOLEAN : Finish("load", a, "load", Access("load", a, ptes, FALSE, served))
    /\ UNCHANGED lrVars

store(a) ==
    /\ phase = "exec" /\ a \in opt.stores
    /\ \E served \in BOOLEAN : Finish("store", a, "store", Access("store", a, ptes, FALSE, served))
    /\ UNCHANGED lrVars

\* The reservation is of the physical address.
load_reserved(a) ==
    /\ phase = "exec" /\ a \in opt.reserves
    /\ \E r \in {Access("load", a, ptes, TRUE, FALSE)} :
          /\ Finish("lr", a, "load", r)
          /\ IF r.out = "done"
             THEN \E s \in r.sectors : reservation' = s /\ lr' = [sector |-> s, broken |-> FALSE]
             ELSE UNCHANGED lrVars

\* The address is translated afresh for the check and then stored to through
\* the TLB; a store that traps leaves the reservation.
store_conditional(a) ==
    /\ phase = "exec" /\ a \in opt.reserves
    /\ \E x \in {translate(ptes, "store", VasOf(a), Page(a.va))} :
       \E s \in SectorsAt(x.ppn, VasOf(a)) :
          LET skip == Result("done", [tlb |-> tlb, pt |-> x.pt, sectors |-> {}], FALSE, FALSE, log)
          IN  \/ /\ ~x.ok \/ ~Reservable({s})
                 /\ Finish("sc", a, "store", [skip EXCEPT !.out = "fault"])
                 /\ UNCHANGED lrVars
              \/ /\ x.ok /\ Reservable({s}) /\ s # reservation
                 /\ Finish("sc", a, "store", skip)
                 /\ reservation' = None /\ lr' = None
              \/ /\ x.ok /\ Reservable({s}) /\ s = reservation
                 /\ \E r \in {Access("store", a, x.pt, FALSE, FALSE)} :
                       /\ Finish("sc", a, "store", r)
                       /\ IF r.out = "done" THEN reservation' = None /\ lr' = None
                          ELSE UNCHANGED lrVars

-----------------------------------------------------------------------------
(* Fetching                                                                *)

fetch_done(va, s, traced) ==
    /\ phase' = "exec"
    /\ last' = [op |-> "fetch", type |-> "fetch", va |-> va, len |-> 1, off |-> 0,
                sectors |-> {s}, traced |-> traced, logged |-> FALSE, lr |-> None]

\* refill_icache: the entry of a traced instruction is not kept. The slow
\* loop (log) uses a temporary one.
refill_icache(va, s, t) ==
    LET traced == /\ Hit(t, "fetch", Page(va), Flags)
                  /\ "tracer" \in t["fetch"][Index(Page(va))].flags
                  /\ Interested("fetch", {s})
    IN  /\ icache' = IF log \/ traced THEN icache
                     ELSE [icache EXCEPT ![va] = s]
        /\ fetch_done(va, s, traced)

\* The fast loop takes a cached instruction without asking anyone.
icache_hit(va) ==
    /\ phase = "fetch" /\ va \in opt.fetches
    /\ ~log /\ icache[va] # None
    /\ fetch_done(va, icache[va], FALSE)
    /\ UNCHANGED <<ptes, cacheVars, trigVars>>

Missing(va) == phase = "fetch" /\ va \in opt.fetches /\ (log \/ icache[va] = None)

TlbFetch(va) == Hit(tlb, "fetch", Page(va), {})

tlb_fetch(va) ==
    /\ Missing(va) /\ TlbFetch(va)
    /\ \E s \in SectorsAt(tlb["fetch"][Index(Page(va))].ppn, {va}) : refill_icache(va, s, tlb)
    /\ UNCHANGED <<ptes, tlb, seen, late, trigVars>>

\* fetch_slow_path first throws the trigger an earlier access has matched.
throw_matched(va) ==
    /\ Missing(va) /\ ~TlbFetch(va) /\ matched
    /\ matched' = FALSE /\ phase' = "trap" /\ last' = None
    /\ UNCHANGED <<ptes, cacheVars, trigger, armed>>

throw_trigger(va) ==
    /\ Missing(va) /\ ~Hit(tlb, "fetch", Page(va), Flags \ {"triggers"}) /\ ~matched
    /\ Fires("fetch", [va |-> va, len |-> 1])
    /\ phase' = "trap" /\ last' = None
    /\ UNCHANGED <<ptes, cacheVars, trigVars>>

fetch_slow_path(va) ==
    /\ Missing(va) /\ ~TlbFetch(va) /\ ~matched
    /\ Hit(tlb, "fetch", Page(va), Flags \ {"triggers"}) \/ ~Fires("fetch", [va |-> va, len |-> 1])
    /\ LET m == intrapage([tlb |-> tlb, pt |-> ptes, ok |-> TRUE, sectors |-> {}],
                          "fetch", {va}, {va}, Page(va), FALSE)
       IN  /\ tlb' = m.tlb /\ ptes' = m.pt
           /\ seen' = [v \in VPages |-> seen[v] \cup {m.pt[v]}]
           /\ \E s \in m.sectors :
                 \/ m.ok /\ refill_icache(va, s, m.tlb)
                 \/ /\ ~m.ok \/ Page(s) \notin Ram
                    /\ phase' = "trap" /\ last' = None /\ UNCHANGED icache
    /\ UNCHANGED <<late, trigVars>>

fetch(va) ==
    /\ \/ icache_hit(va) \/ tlb_fetch(va)
       \/ throw_matched(va) \/ throw_trigger(va) \/ fetch_slow_path(va)
    /\ UNCHANGED <<opt, csrVars, log, lrVars, pmpVars>>

-----------------------------------------------------------------------------
(* Instructions that change what decides about an access                   *)

exec == phase = "exec" /\ phase' = "fetch" /\ last' = None /\ UNCHANGED opt

\* mstatus, and SUM and MXR through sstatus (maybe_flush_tlb).
status_write(new) ==
    /\ exec
    /\ \/ prv = "M" /\ new \in opt.mstatus
       \/ /\ prv = "S"
          /\ \E b \in opt.mstatus : new = [mstatus EXCEPT !.sum = b.sum, !.mxr = b.mxr]
    /\ mstatus' = new /\ flush_if(new # mstatus)
    /\ UNCHANGED <<prv, satp, ptes, trigVars, log, lrVars, pmpVars>>

satp_write(new) ==
    /\ exec /\ prv # "U" /\ new \in opt.satp
    /\ satp' = new /\ flush_if(new # satp)
    /\ UNCHANGED <<prv, mstatus, ptes, trigVars, log, lrVars, pmpVars>>

pmp_write ==
    /\ exec /\ prv = "M"
    /\ \/ \E i \in Entries, val \in opt.pmpaddr : pmpaddr_write(i, val)
       \/ \E cfgs \in [Entries -> opt.pmpcfg] : pmpcfg_write(cfgs)
       \/ \E val \in opt.mseccfg : mseccfg_write(val)
    /\ flush_tlb
    /\ UNCHANGED <<csrVars, ptes, trigVars, log, lrVars>>

\* tdata1 and tdata2, and processor_t::trigger_updated.
trigger_write(new) ==
    /\ exec /\ prv = "M" /\ new \in opt.triggers
    /\ trigger' = new /\ flush_tlb
    /\ UNCHANGED <<csrVars, ptes, armed, matched, log, lrVars, pmpVars>>

\* An interrupt enable bit or a context register on which a match depends.
arm ==
    /\ exec /\ opt.triggers # {}
    /\ armed' = ~armed /\ late' = (late \/ ~armed)
    /\ UNCHANGED <<csrVars, ptes, tlb, icache, seen, trigger, matched, log, lrVars, pmpVars>>

\* A region of interest of the trace begins or ends. The flush at its start is
\* that of a tracer that records memory accesses, the one that asks for the log.
trace_region ==
    /\ exec /\ opt.log
    /\ log' = ~log /\ flush_if(~log)
    /\ UNCHANGED <<csrVars, ptes, trigVars, lrVars, pmpVars>>

sfence_vma ==
    /\ exec /\ prv # "U" /\ flush_tlb
    /\ UNCHANGED <<csrVars, ptes, trigVars, log, lrVars, pmpVars>>

fence_i ==
    /\ exec /\ icache' = NoIcache
    /\ UNCHANGED <<csrVars, ptes, tlb, seen, late, trigVars, log, lrVars, pmpVars>>

\* The program changes its page table.
write_pte(v, p) ==
    /\ exec /\ prv # "U" /\ p \in opt.ptes[v]
    /\ ptes' = [ptes EXCEPT ![v] = p] /\ seen' = [seen EXCEPT ![v] = @ \cup {p}]
    /\ UNCHANGED <<csrVars, tlb, icache, late, trigVars, log, lrVars, pmpVars>>

\* An instruction that does none of these.
other_insn ==
    /\ exec
    /\ UNCHANGED <<csrVars, ptes, cacheVars, trigVars, log, lrVars, pmpVars>>

\* set_privilege: a trap after a failed access, an interrupt or an ecall.
take_trap(p) ==
    /\ phase' = "fetch" /\ last' = None
    /\ p \in opt.prv \ {"U"} /\ (prv = "M" => p = "M")
    /\ prv' = p /\ mstatus' = IF p = "M" THEN [mstatus EXCEPT !.mpp = prv] ELSE mstatus
    /\ flush_tlb
    /\ UNCHANGED <<opt, satp, ptes, trigVars, log, lrVars, pmpVars>>

mret ==
    /\ exec /\ prv = "M" /\ mstatus.mpp \in opt.prv
    /\ prv' = mstatus.mpp
    /\ mstatus' = [mstatus EXCEPT !.mpp = "U", !.mprv = @ /\ mstatus.mpp = "M"]
    /\ flush_tlb
    /\ UNCHANGED <<satp, ptes, trigVars, log, lrVars, pmpVars>>

sret(p) ==
    /\ exec /\ prv # "U" /\ p \in opt.prv \ {"M"}
    /\ prv' = p /\ mstatus' = [mstatus EXCEPT !.mprv = FALSE] /\ flush_tlb
    /\ UNCHANGED <<satp, ptes, trigVars, log, lrVars, pmpVars>>

\* Mutant: the reservation survives the slice.
end_of_slice_mut ==
    /\ phase = "fetch" /\ lr # None
    /\ last' = None
    /\ \E stored \in BOOLEAN : lr' = [lr EXCEPT !.broken = @ \/ stored]
    /\ UNCHANGED <<opt, csrVars, ptes, cacheVars, trigVars, log, phase, pmpVars, reservation>>

\* The slice ends, the reservation is given up and other harts run: they
\* may store to the reserved sector.
end_of_slice ==
    /\ phase = "fetch" /\ lr # None
    /\ reservation' = None /\ last' = None
    /\ \E stored \in BOOLEAN : lr' = [lr EXCEPT !.broken = @ \/ stored]
    /\ UNCHANGED <<opt, csrVars, ptes, cacheVars, trigVars, log, phase, pmpVars>>

-----------------------------------------------------------------------------
Init ==
    /\ opt \in Options
    /\ PmpInit
    /\ prv = "M" /\ satp = "bare"
    /\ mstatus = [mprv |-> FALSE, mpp |-> "U", sum |-> FALSE, mxr |-> FALSE]
    /\ ptes \in {f \in [VPages -> UNION {opt.ptes[v] : v \in VPages}] :
                   \A v \in VPages : f[v] \in opt.ptes[v]}
    /\ tlb = NoTlb /\ icache = NoIcache
    /\ trigger = None /\ armed = FALSE /\ matched = FALSE
    /\ log = FALSE /\ reservation = None /\ phase = "fetch" /\ last = None
    /\ seen = [v \in VPages |-> {ptes[v]}] /\ late = FALSE /\ lr = None

Next ==
    \/ \E va \in Sectors : fetch(va)
    \/ \E a \in opt.loads : load(a)
    \/ \E a \in opt.stores : store(a)
    \/ \E a \in opt.reserves : load_reserved(a) \/ store_conditional(a)
    \/ \E m \in Statuses : status_write(m)
    \/ \E s \in {"bare", "paged"} : satp_write(s)
    \/ pmp_write
    \/ \E t \in opt.triggers : trigger_write(t)
    \/ arm \/ trace_region \/ sfence_vma \/ fence_i \/ other_insn
    \/ \E v \in VPages : \E p \in opt.ptes[v] : write_pte(v, p)
    \/ \E p \in Modes : take_trap(p) \/ sret(p)
    \/ mret \/ end_of_slice

Spec == Init /\ [][Next]_vars

-----------------------------------------------------------------------------
(* Properties                                                              *)

\* An access that is made is one the registers of this moment allow, to the
\* sector that a page table held since the last fence names: the mode, MPRV,
\* SUM, MXR, the accessed and dirty bits and the PMP of its sectors, although
\* a hit of a cache asks none of them (mmu.h:90, 318). What the PMP of this
\* moment need not allow is the last sector of an access that begins inside a
\* sector, which pmp_ok does not look at (mmu.cc:432), and that only on a page
\* inside which an entry begins or ends: such a page is in no cache.
AccessAllowed ==
    last # None /\ last.sectors # {} => \A va \in VasOf(last) :
        \E s \in last.sectors :
            LET mode == effective_priv(last.type) IN
            /\ s % PgSectors = va % PgSectors
            /\ va \in PmpVas(last) \/ pmp_homogeneous(Page(s)) => pmp_ok({s}, last.type, mode)
            /\ IF Bare(mode) THEN s = va
               ELSE \E p \in seen[Page(va)] :
                       Permits(p, last.type, mode) /\ Used(p, last.type) = p /\ p.ppn = Page(s)

\* No access escapes those who asked to see it, whichever of the paths of
\* mmu.h:90 and mmu.cc:255 it takes. Data accesses match the trigger on their
\* address, are traced if a tracer wants the sector and are in the log. A
\* trigger that fires after an access is taken by the next instruction: none
\* is fetched while one is waiting (mmu.cc:206-210). A fetch does not pass a
\* trigger on its address, unless an enable bit was set since the caches were
\* last emptied; and it is traced, unless its page may not enter the TLB
\* (mmu.h:330).
AccessObserved ==
    last # None /\ last.sectors # {} =>
        IF last.type = "fetch"
        THEN /\ ~matched
             /\ Fires("fetch", [va |-> last.va]) => late
             /\ (Interested("fetch", last.sectors) /\ ~log /\ ~mstatus.mprv
                   /\ \A s \in last.sectors : pmp_homogeneous(Page(s))) => last.traced
        ELSE /\ Fires(last.type, [va |-> last.va]) => matched
             /\ last.traced = Interested(last.type, last.sectors)
             /\ last.logged = log

\* A store-conditional that stores has the sector its hart reserved, and no
\* other hart stored there since (sim.cc:315), provided the page table of the
\* page was not changed without a fence.
ScAtomic ==
    last # None /\ last.op = "sc" /\ last.sectors # {} =>
        /\ last.lr # None /\ ~last.lr.broken
        /\ Cardinality({p.ppn : p \in seen[Page(last.va)]}) = 1 => last.sectors = {last.lr.sector}

=============================================================================
