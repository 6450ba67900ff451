-------------------------------- MODULE Plic --------------------------------
(***************************************************************************)
(* The platform-level interrupt controller: riscv/plic.cc and the plic_t   *)
(* and plic_context_t classes of riscv/devices.h.                          *)
(*                                                                         *)
(* Every hart owns an M context and, with the S extension, an S context.   *)
(* Contexts are numbered in the order plic_t's constructor creates them.   *)
(* A context drives exactly one bit of its hart's mip (MEIP or SEIP), so   *)
(* that bit is mip[c].  The bit vectors of the code are sets of source     *)
(* ids; one store to the enable array still writes one word of them.       *)
(***************************************************************************)
EXTENDS Integers, FiniteSets

CONSTANTS
    NDev,       \* ndev of the constructor: sources are 1 .. NDev
    NCtx,       \* number of contexts
    WordBits,   \* bits of an enable word (32 in the code)
    MaxPrio     \* max_prio, 2^PLIC_PRIO_BITS - 1

ASSUME PlicAssumption ==
    /\ NDev \in Nat \ {0} /\ NCtx \in Nat \ {0}
    /\ WordBits \in Nat \ {0} /\ MaxPrio \in Nat \ {0}

Ctxs  == 0 .. (NCtx - 1)
Prios == 0 .. MaxPrio
Ids   == 1 .. NDev                        \* 0 < id < num_ids

NumIdsWord == (NDev + WordBits) \div WordBits
Words      == 0 .. (NumIdsWord - 1)
\* The ids of one word; the last word may reach past num_ids.
WordIds(w) == (w * WordBits) .. (w * WordBits + WordBits - 1)
BitIds     == Nat                         \* every id a stored word can name

VARIABLES
    priority,   \* priority[id]: the source priority registers
    level,      \* the sources whose input line is high
    ctx,        \* ctx[c]: a plic_context_t
    mip,        \* mip[c]: the MEIP or SEIP bit that context c drives
    shared      \* history: sources ever enabled in two contexts at once

plicVars == <<priority, level, ctx, mip, shared>>

Context == [threshold : Prios,
            enable    : SUBSET BitIds,
            pending   : SUBSET Ids,
            prio      : [Ids -> Prios],   \* pending_priority
            claimed   : SUBSET Ids]

TypeOK ==
    /\ priority \in [Ids -> Prios]
    /\ level \subseteq Ids
    /\ ctx \in [Ctxs -> Context]
    /\ mip \in [Ctxs -> BOOLEAN]
    /\ shared \subseteq BitIds

-----------------------------------------------------------------------------

PlicInit ==
    /\ priority = [i \in Ids |-> 0]
    /\ level = {}
    /\ ctx = [c \in Ctxs |-> [threshold |-> 0, enable |-> {}, pending |-> {},
                              prio |-> [i \in Ids |-> 0], claimed |-> {}]]
    /\ mip = [c \in Ctxs |-> FALSE]
    /\ shared = {}

\* The sources a context could hand out: pending and not claimed.
Candidates(k) == k.pending \ k.claimed

\* i wins over j in the scan: a strictly greater latched priority, or the
\* same priority and the smaller id (met first).
Beats(k, i, j) ==
    \/ k.prio[j] < k.prio[i]
    \/ k.prio[j] = k.prio[i] /\ i <= j

Winners(k) == {i \in Candidates(k) : \A j \in Candidates(k) : Beats(k, i, j)}

\* 0 stands for "none": no candidate, or the best one is masked by the
\* threshold.
context_best_pending(k) ==
    IF \E i \in Winners(k) : k.prio[i] > k.threshold
    THEN CHOOSE i \in Winners(k) : TRUE
    ELSE 0

\* Context c becomes k and context_update recomputes the mip bit it drives.
StoreContext(c, k) ==
    /\ ctx' = [ctx EXCEPT ![c] = k]
    /\ mip' = [mip EXCEPT ![c] = context_best_pending(k) # 0]

\* The sources that two contexts enable in the next state.
SharedNext ==
    {i \in UNION {ctx'[c].enable : c \in Ctxs} :
        \E c, d \in Ctxs : c # d /\ i \in ctx'[c].enable /\ i \in ctx'[d].enable}

-----------------------------------------------------------------------------
(* Stores and loads that change state                                      *)

\* A priority register keeps PLIC_PRIO_BITS bits of the value.  Neither the
\* latched priorities nor mip are recomputed.
priority_write(id, val) ==
    /\ priority' = [priority EXCEPT ![id] = val % (MaxPrio + 1)]
    /\ UNCHANGED <<level, ctx, mip, shared>>

\* The sources of on become pending with the priority they have now.
Latch(k, on) ==
    [threshold |-> k.threshold,
     enable    |-> k.enable,
     pending   |-> k.pending \cup on,
     prio      |-> [i \in Ids |-> IF i \in on THEN priority[i] ELSE k.prio[i]],
     claimed   |-> k.claimed]

\* The sources of off are no longer pending, nor claimed.
Forget(k, off) ==
    [threshold |-> k.threshold,
     enable    |-> k.enable,
     pending   |-> k.pending \ off,
     prio      |-> [i \in Ids |-> IF i \in off THEN 0 ELSE k.prio[i]],
     claimed   |-> k.claimed \ off]

\* Mutant: a source enabled while its line is high is not latched.
context_enable_write_mut(c, w, val) ==
    LET k   == ctx[c]
        new == IF w = 0 THEN val \ {0} ELSE val
        off == (k.enable \cap WordIds(w)) \ new
    IN  /\ StoreContext(c, Forget([k EXCEPT !.enable = (k.enable \ WordIds(w)) \cup new], off))
        /\ shared' = shared \cup SharedNext
        /\ UNCHANGED <<priority, level>>

\* One word of enable bits.  Bit 0 of word 0 reads as zero.  A source that
\* becomes enabled while its line is high becomes pending; one that becomes
\* disabled is forgotten.
context_enable_write(c, w, val) ==
    LET k   == ctx[c]
        new == IF w = 0 THEN val \ {0} ELSE val
        on  == (new \ k.enable) \cap level
        off == (k.enable \cap WordIds(w)) \ new
        kEn == [k EXCEPT !.enable = (k.enable \ WordIds(w)) \cup new]
    IN  /\ StoreContext(c, Forget(Latch(kEn, on), off))
        /\ shared' = shared \cup SharedNext
        /\ UNCHANGED <<priority, level>>

\* Mutant: the new threshold takes effect only at the next context_update.
context_threshold_write_mut(c, val) ==
    /\ ctx' = [ctx EXCEPT ![c].threshold = val % (MaxPrio + 1)]
    /\ UNCHANGED <<priority, level, mip, shared>>

context_threshold_write(c, val) ==
    /\ StoreContext(c, [ctx[c] EXCEPT !.threshold = val % (MaxPrio + 1)])
    /\ UNCHANGED <<priority, level, shared>>

\* A load of the claim register takes the best pending source.
context_claim(c) ==
    LET best == context_best_pending(ctx[c])
    IN  /\ StoreContext(c, IF best # 0
                           THEN [ctx[c] EXCEPT !.claimed = @ \cup {best}]
                           ELSE ctx[c])
        /\ UNCHANGED <<priority, level, shared>>

\* Mutant: a completion does not bring mip up to date.
context_complete_mut(c, id) ==
    /\ id <= NDev /\ id \in ctx[c].enable
    /\ ctx' = [ctx EXCEPT ![c].claimed = @ \ {id}]
    /\ UNCHANGED <<priority, level, mip, shared>>

\* A store to the claim register completes a source; ids that are out of
\* range or not enabled here are ignored.
context_complete(c, id) ==
    /\ id <= NDev /\ id \in ctx[c].enable
    /\ StoreContext(c, [ctx[c] EXCEPT !.claimed = @ \ {id}])
    /\ UNCHANGED <<priority, level, shared>>

\* A device drives its line.  Only the first context that enables the source
\* is told: the loop over the contexts breaks there.
set_interrupt_level(id, lvl) ==
    LET takers == {c \in Ctxs : id \in ctx[c].enable}
        first  == CHOOSE c \in takers : \A d \in takers : c <= d
    IN  /\ level' = IF lvl THEN level \cup {id} ELSE level \ {id}
        /\ IF takers = {} THEN UNCHANGED <<ctx, mip>>
           ELSE StoreContext(first, IF lvl THEN Latch(ctx[first], {id})
                                           ELSE Forget(ctx[first], {id}))
        /\ UNCHANGED <<priority, shared>>

-----------------------------------------------------------------------------

\* Register loads without a side effect.
pending_read(w) == (UNION {ctx[c].pending : c \in Ctxs}) \cap WordIds(w)

\* The stores and loads of the memory map (plic_t::load, plic_t::store).  One
\* value past the field width stands for all the values that are truncated.
Access ==
    \/ \E id \in Ids, val \in 0 .. (MaxPrio + 1) : priority_write(id, val)
    \/ \E c \in Ctxs, w \in Words : \E val \in SUBSET WordIds(w) :
           context_enable_write(c, w, val)
    \/ \E c \in Ctxs, val \in 0 .. (MaxPrio + 1) : context_threshold_write(c, val)
    \/ \E c \in Ctxs : context_claim(c)
    \/ \E c \in Ctxs, id \in 0 .. (NDev + 1) : context_complete(c, id)

PlicNext ==
    \/ Access
    \/ \E id \in Ids, lvl \in BOOLEAN : set_interrupt_level(id, lvl)

PlicSpec == PlicInit /\ [][PlicNext]_plicVars

-----------------------------------------------------------------------------
(* Properties                                                              *)

\* What a context remembers about a source is ordered: a claimed source is
\* pending, a pending source is enabled, and only a pending source keeps a
\* latched priority.  Every path that drops a bit (disable, line low) must
\* drop the ones above it, or context_best_pending scans stale bits.
LatchesNested ==
    \A c \in Ctxs :
        /\ ctx[c].claimed \subseteq ctx[c].pending
        /\ ctx[c].pending \subseteq ctx[c].enable
        /\ \A i \in Ids \ ctx[c].pending : ctx[c].prio[i] = 0

\* The interrupt line to the hart: mip is set exactly when some pending,
\* unclaimed source has a latched priority above the threshold.  Every
\* handler that touches one of the four inputs has to call context_update,
\* and the scan must not overlook a source.
MipMirrorsPending ==
    \A c \in Ctxs :
        mip[c] <=> \E i \in Candidates(ctx[c]) : ctx[c].prio[i] > ctx[c].threshold

\* "PLIC interrupts are level-triggered" (plic.cc:307), for every source
\* that was never enabled in two contexts at once: it is pending in a context
\* exactly when its line is high and the context enables it, whatever the
\* order of enable stores, claims, completions and line changes.
LevelTriggeredUnshared ==
    \A c \in Ctxs, i \in Ids \ shared :
        i \in ctx[c].pending <=> i \in level /\ i \in ctx[c].enable

\* One source is never in service in two contexts, as long as software never
\* enabled it in both at once.
ExclusiveClaim ==
    \A c, d \in Ctxs, i \in Ids \ shared :
        i \in ctx[c].claimed /\ i \in ctx[d].claimed => c = d
=============================================================================
