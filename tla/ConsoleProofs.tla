---------------------------- MODULE ConsoleProofs ---------------------------
(***************************************************************************)
(* Proofs about the UART, the PLIC and the driver of Console, for every    *)
(* size of the queue, every backoff and any number of bytes, probes and    *)
(* toggles of the enable bit; and, in the last part, the invariants of the *)
(* PLIC by itself for any number of sources, contexts and priorities.      *)
(***************************************************************************)
EXTENDS Console, SequenceTheorems, TLAPS

-----------------------------------------------------------------------------
(* The inductive invariant                                                 *)

\* The one context of the PLIC: e, p and c are the sources that are enabled,
\* pending and claimed, and a pending one was latched with priority 1.
Source(e, p, c) ==
    [threshold |-> 0, enable |-> e, pending |-> p,
     prio |-> [i \in {UartId} |-> IF i \in p THEN 1 ELSE 0], claimed |-> c]
OneContext(e, p, c) ==
    ctx = [h \in {Hart} |-> Source(e, p, c)] /\ mip = [h \in {Hart} |-> p # c]

\* The same of the next state, for sources e, p and c of this one.
OneContextNext(e, p, c) ==
    ctx' = [h \in {Hart} |-> Source(e, p, c)] /\ mip' = [h \in {Hart} |-> p # c]

EarlyDrv == {"probe", "mcr", "mask", "fcr"}
LateDrv  == {"idle", "service", "complete"}

\* The PLIC has followed the line: the source is pending when it is enabled
\* and the line is high, in service only while the driver serves it.
PlicInv ==
    /\ priority \in [{UartId} -> {0, 1}]
    /\ level = IF line THEN {UartId} ELSE {}
    /\ \E e, c \in SUBSET {UartId} :
          /\ OneContext(e, e \cap level, c) /\ c \subseteq e \cap level
          /\ drv \in EarlyDrv => e = {}
          /\ drv = "idle" => c = {}

\* The line is the one the registers ask for, and LSR_DR tells of a byte.
LineInv ==
    /\ ier \subseteq {"RDI", "THRI"} /\ dr \in BOOLEAN /\ line \in BOOLEAN
    /\ rx_queue \in Seq(Nat) /\ fifo \in BOOLEAN
    /\ line = (("RDI" \in ier /\ dr) \/ "THRI" \in ier)
    /\ dr <=> rx_queue # <<>>

\* How far the driver has come.
DrvInv ==
    /\ drv \in EarlyDrv \cup {"plic"} \cup LateDrv
    /\ drv # "probe" => ~dlab
    /\ drv \in {"fcr", "plic"} => ier = {}
    /\ drv \in LateDrv => ier = {"RDI"} /\ priority[UartId] = 1

WakeInv == PlicInv /\ LineInv /\ DrvInv

\* Every byte taken from the terminal is in the queue, or was read, or was
\* cleared; those in the queue are in order, and if any is there the last one
\* taken is.
QueueInv ==
    /\ typed \in Nat /\ consumed \in 0 .. typed
    /\ rx_queue \in Seq(Nat) /\ \A i \in DOMAIN rx_queue : rx_queue[i] <= consumed
    /\ got \in Seq(Nat) /\ \A i \in DOMAIN got : got[i] \in 1 .. consumed
    /\ cleared \subseteq 1 .. consumed
    /\ \A i, j \in DOMAIN rx_queue :
          i < j /\ rx_queue[i] # 0 /\ rx_queue[j] # 0 => rx_queue[i] < rx_queue[j]
    /\ \A b \in 1 .. consumed :
          (\E i \in DOMAIN rx_queue : rx_queue[i] = b)
             <=> b \notin cleared /\ \A i \in DOMAIN got : got[i] # b
    /\ \A i \in DOMAIN rx_queue : rx_queue[i] # 0 =>
          \E j \in DOMAIN rx_queue : rx_queue[j] = consumed

-----------------------------------------------------------------------------
(* The PLIC with one source and one context                                *)

Sources == SUBSET {UartId}

\* The scan finds the source when it is pending, not claimed and not masked.
LEMMA BestOfOne ==
    ASSUME NEW e, NEW p \in Sources, NEW c \in Sources, c \subseteq p,
           NEW k, k = Source(e, p, c)
    PROVE  P!context_best_pending(k) = IF p # c THEN UartId ELSE 0
<1> USE DEF Sources, Source, UartId
<1>1. P!Candidates(k) = p \ c
    BY DEF P!Candidates
<1>2. CASE p = c
    <2>1. P!Winners(k) = {}
        BY <1>1, <1>2 DEF P!Winners
    <2> QED
        BY <1>2, <2>1 DEF P!context_best_pending
<1>3. CASE p # c
    <2>1. p = {1} /\ c = {}
        BY <1>3
    <2>2. P!Candidates(k) = {1} /\ k.prio[1] = 1 /\ k.threshold = 0
        BY <1>1, <2>1
    <2>3. P!Winners(k) = {1}
        BY <2>2 DEF P!Winners, P!Beats
    <2> QED
        BY <1>3, <2>2, <2>3 DEF P!context_best_pending
<1> QED
    BY <1>2, <1>3

\* context_update brings mip up to date.
LEMMA StoreOne ==
    ASSUME NEW e0, NEW p0, NEW c0, OneContext(e0, p0, c0),
           NEW e \in Sources, NEW p \in Sources, NEW c \in Sources, c \subseteq p,
           P!StoreContext(Hart, Source(e, p, c))
    PROVE  OneContextNext(e, p, c)
<1> DEFINE k == Source(e, p, c)
<1>1. P!context_best_pending(k) # 0 <=> p # c
    BY BestOfOne DEF UartId
<1>2. ctx' = [ctx EXCEPT ![Hart] = k] /\ mip' = [mip EXCEPT ![Hart] = P!context_best_pending(k) # 0]
    BY DEF P!StoreContext
<1> HIDE DEF k
<1>3. DOMAIN ctx = {Hart} /\ DOMAIN mip = {Hart}
    BY DEF OneContext
<1>4. ctx' = [h \in {Hart} |-> k] /\ mip' = [h \in {Hart} |-> p # c]
    BY <1>1, <1>2, <1>3
<1> QED
    BY <1>4 DEF OneContextNext, k

\* Forgetting the one source leaves nothing.
LEMMA ForgetOne ==
    ASSUME NEW k, k.threshold = 0, k.pending \in Sources, k.claimed \in Sources
    PROVE  P!Forget(k, {UartId}) = Source(k.enable, {}, {})
<1> USE DEF Sources, Source, UartId
<1>1. P!Ids = {1} /\ k.pending \ {1} = {} /\ k.claimed \ {1} = {}
    BY DEF P!Ids
<1>2. [i \in {1} |-> IF i \in {1} THEN 0 ELSE k.prio[i]] = [i \in {1} |-> IF i \in {} THEN 1 ELSE 0]
    OBVIOUS
<1> QED
    BY <1>1, <1>2 DEF P!Forget

\* The device drives its line: what is enabled follows it.
LEMMA SetLevel ==
    ASSUME NEW e \in Sources, NEW p \in Sources, NEW c \in Sources, p \subseteq e, c \subseteq p,
           OneContext(e, p, c), NEW lvl \in BOOLEAN, level \in Sources,
           lvl /\ e # {} => priority[UartId] = 1, P!set_interrupt_level(UartId, lvl)
    PROVE  LET now == IF lvl THEN {UartId} ELSE {}
           IN  level' = now /\ priority' = priority /\ OneContextNext(e, e \cap now, c \cap now)
<1> USE DEF Sources, Source, UartId, Hart
<1>0. e \in {{}, {1}} /\ p \in {{}, {1}} /\ c \in {{}, {1}}
    OBVIOUS
<1>1. level' = (IF lvl THEN {1} ELSE {}) /\ priority' = priority
    BY DEF P!set_interrupt_level
<1> DEFINE takers == {h \in P!Ctxs : UartId \in ctx[h].enable}
           first  == CHOOSE h \in takers : \A d \in takers : h <= d
<1>2. /\ P!Ctxs = {0} /\ P!Ids = {1} /\ DOMAIN ctx = {0}
      /\ ctx[0] = Source(e, p, c)
    BY DEF P!Ctxs, P!Ids, OneContext
<1>3. CASE e = {}
    <2>1. takers = {}
        BY <1>2, <1>3
    <2>2. UNCHANGED <<ctx, mip>>
        BY <2>1 DEF P!set_interrupt_level
    <2>3. p = {} /\ c = {} /\ e \cap (IF lvl THEN {1} ELSE {}) = {}
          /\ c \cap (IF lvl THEN {1} ELSE {}) = {}
        BY <1>3
    <2>4. OneContextNext(e, {}, {})
        BY <2>2, <2>3 DEF OneContext, OneContextNext
    <2> QED
        BY <1>1, <2>3, <2>4
<1>4. CASE e = {1}
    <2>1. takers = {0}
        BY <1>2, <1>4
    <2>2. first = 0
        BY <2>1
    <2>3. P!StoreContext(0, IF lvl THEN P!Latch(ctx[0], {1}) ELSE P!Forget(ctx[0], {1}))
        BY <2>1, <2>2 DEF P!set_interrupt_level
    <2>4. CASE lvl
        <3>1. P!Latch(ctx[0], {1}) = Source(e, {1}, c)
            <4>1. p \cup {1} = {1} /\ priority[1] = 1
                BY <1>0, <1>4, <2>4
            <4> QED
                BY <1>2, <4>1 DEF P!Latch
        <3>2. OneContextNext(e, {1}, c)
            BY <2>3, <2>4, <3>1, StoreOne
        <3>3. e \cap {1} = {1} /\ c \cap {1} = c
            BY <1>0, <1>4
        <3> QED
            BY <1>1, <2>4, <3>2, <3>3
    <2>5. CASE ~lvl
        <3>1. P!Forget(ctx[0], {1}) = Source(e, {}, {})
            <4> DEFINE k == ctx[0]
            <4>1. k.threshold = 0 /\ k.pending = p /\ k.claimed = c /\ k.enable = e
                BY <1>2
            <4> HIDE DEF k, Source
            <4>2. P!Forget(k, {1}) = Source(e, {}, {})
                BY <4>1, ForgetOne
            <4> QED
                BY <4>2 DEF k
        <3>2. OneContextNext(e, {}, {})
            BY <2>3, <2>5, <3>1, StoreOne
        <3>3. e \cap {} = {} /\ c \cap {} = {}
            OBVIOUS
        <3> QED
            BY <1>1, <2>5, <3>2, <3>3
    <2> QED
        BY <2>4, <2>5
<1> QED
    BY <1>3, <1>4

\* Enabling latches a line that is high; disabling forgets the source.
LEMMA EnableWrite ==
    ASSUME NEW e \in Sources, NEW p \in Sources, NEW c \in Sources, p \subseteq e, c \subseteq p,
           OneContext(e, p, c), level \in Sources, NEW new \in Sources, e # new,
           level # {} => priority[UartId] = 1, P!context_enable_write(Hart, 0, new)
    PROVE  OneContextNext(new, new \cap level, {}) /\ UNCHANGED <<priority, level>>
<1> USE DEF Sources, Source, UartId, Hart
<1>1. /\ P!Ids = {1} /\ P!WordIds(0) = {0, 1}
      /\ ctx[0] = Source(e, p, c)
    BY DEF P!Ids, P!WordIds, OneContext
<1>2. new \ {0} = new /\ (e \ {0, 1}) \cup new = new
    <2>1. e \in {{}, {1}} /\ new \in {{}, {1}}
        OBVIOUS
    <2>2. {1} \ {0} = {1} /\ {} \ {0} = {} /\ {1} \ {0, 1} = {} /\ {} \ {0, 1} = {}
        OBVIOUS
    <2>3. {} \cup {1} = {1} /\ {} \cup {} = {}
        OBVIOUS
    <2> QED
        BY <2>1, <2>2, <2>3
<1> DEFINE on  == (new \ e) \cap level
           off == (e \cap {0, 1}) \ new
           k   == [ctx[0] EXCEPT !.enable = new]
<1>3. P!StoreContext(0, P!Forget(P!Latch(k, on), off)) /\ UNCHANGED <<priority, level>>
    BY <1>1, <1>2 DEF P!context_enable_write
<1>4. k = Source(new, p, c)
    BY <1>1
<1>5. P!Forget(P!Latch(k, on), off) = Source(new, new \cap level, {})
    <2> HIDE DEF k
    <2>1. CASE e = {} /\ new = {1}
        <3>1. /\ p = {} /\ c = {} /\ on = level /\ off = {} /\ new \cap level = level
              /\ ({} \cup level) \ {} = level /\ {} \ {} = {}
            BY <2>1
        <3>2. \A i \in {1} : i \in level => priority[i] = 1
            OBVIOUS
        <3> HIDE DEF on, off
        <3>3. P!Latch(k, on) = Source(new, level, {})
            BY <1>1, <1>4, <3>1, <3>2 DEF P!Latch
        <3> QED
            BY <1>1, <3>1, <3>3 DEF P!Forget
    <2>2. CASE e = {1} /\ new = {}
        <3>1. on = {} /\ off = {1} /\ new \cap level = {} /\ p \cup {} = p
            BY <2>2
        <3> DEFINE l == P!Latch(k, on)
        <3> HIDE DEF on, off
        <3>2. l.threshold = 0 /\ l.enable = new /\ l.pending = p /\ l.claimed = c
            BY <1>4, <3>1 DEF P!Latch
        <3> HIDE DEF l, Source
        <3>3. P!Forget(l, off) = Source(new, {}, {})
            BY <3>1, <3>2, ForgetOne
        <3>4. P!Forget(P!Latch(k, on), off) = Source(new, {}, {})
            BY <3>3 DEF l
        <3> QED
            BY <3>1, <3>4
    <2>3. (e = {} /\ new = {1}) \/ (e = {1} /\ new = {})
        <3>1. e \in {{}, {1}} /\ new \in {{}, {1}} /\ e # new
            OBVIOUS
        <3> QED
            BY <3>1
    <2> QED
        BY <2>1, <2>2, <2>3
<1> HIDE DEF k, on, off
<1> QED
    BY <1>3, <1>5, StoreOne

\* A claim takes the pending source into service.
LEMMA ClaimOne ==
    ASSUME NEW e \in Sources, NEW p \in Sources, NEW c \in Sources, c \subseteq p,
           OneContext(e, p, c), mip[Hart], P!context_claim(Hart)
    PROVE  OneContextNext(e, p, p) /\ UNCHANGED <<priority, level>>
<1> USE DEF Sources, Source, UartId, Hart
<1>1. ctx[0] = Source(e, p, c) /\ p # c
    BY DEF OneContext
<1>2. p = {1} /\ c = {}
    BY <1>1
<1>3. P!context_best_pending(ctx[0]) = 1
    <2> DEFINE k == ctx[0]
    <2>1. k = Source(e, p, c)
        BY <1>1
    <2> HIDE DEF k, Source
    <2>2. P!context_best_pending(k) = 1
        BY <1>1, <2>1, BestOfOne
    <2> QED
        BY <2>2 DEF k
<1>4. P!StoreContext(0, [ctx[0] EXCEPT !.claimed = @ \cup {1}]) /\ UNCHANGED <<priority, level>>
    BY <1>3 DEF P!context_claim
<1>5. [ctx[0] EXCEPT !.claimed = @ \cup {1}] = Source(e, p, p)
    BY <1>1, <1>2
<1> QED
    BY <1>4, <1>5, StoreOne

\* A completion takes the source out of service.
LEMMA CompleteOne ==
    ASSUME NEW e \in Sources, NEW p \in Sources, NEW c \in Sources, c \subseteq p,
           OneContext(e, p, c), P!context_complete(Hart, UartId)
    PROVE  OneContextNext(e, p, {}) /\ UNCHANGED <<priority, level>>
<1> USE DEF Sources, Source, UartId, Hart
<1>1. ctx[0] = Source(e, p, c)
    BY DEF OneContext
<1>2. P!StoreContext(0, [ctx[0] EXCEPT !.claimed = @ \ {1}]) /\ UNCHANGED <<priority, level>>
    BY DEF P!context_complete
<1>3. [ctx[0] EXCEPT !.claimed = @ \ {1}] = Source(e, p, {})
    BY <1>1
<1> QED
    BY <1>2, <1>3, StoreOne

-----------------------------------------------------------------------------
(* The driver is woken                                                     *)

\* The state of the PLIC after a step, as PlicInv has it.
LEMMA PlicNext ==
    ASSUME NEW e \in Sources, NEW c \in Sources,
           OneContextNext(e, e \cap level', c), c \subseteq e \cap level',
           priority' \in [{UartId} -> {0, 1}], level' = IF line' THEN {UartId} ELSE {},
           drv' \in EarlyDrv => e = {}, drv' = "idle" => c = {}
    PROVE  PlicInv'
BY DEF PlicInv, OneContext, OneContextNext, Sources

\* An access to the UART gives the line to the PLIC.
LEMMA WiredKeeps ==
    ASSUME WakeInv, P!set_interrupt_level(UartId, line'), line' \in BOOLEAN,
           line' /\ drv \notin EarlyDrv => priority[UartId] = 1,
           drv' = drv \/ (drv \in EarlyDrv /\ drv' \in EarlyDrv \cup {"plic"})
              \/ (drv = "service" /\ drv' = "complete") \/ (drv = "plic" /\ drv' = "idle" /\ ~line)
    PROVE  PlicInv' /\ priority' = priority
<1>1. PICK e \in Sources, c \in Sources :
          /\ OneContext(e, e \cap level, c) /\ c \subseteq e \cap level
          /\ drv \in EarlyDrv => e = {}
          /\ drv = "idle" => c = {}
    BY DEF WakeInv, PlicInv, Sources
<1>2. /\ level \in Sources /\ level = (IF line THEN {UartId} ELSE {})
      /\ priority \in [{UartId} -> {0, 1}]
    BY DEF WakeInv, PlicInv, Sources
<1> DEFINE now == IF line' THEN {UartId} ELSE {}
<1>3. level' = now /\ priority' = priority /\ OneContextNext(e, e \cap now, c \cap now)
    <2>1. e \cap level \in Sources /\ e \cap level \subseteq e
        BY DEF Sources
    <2>2. line' /\ e # {} => priority[UartId] = 1
        BY <1>1
    <2> QED
        BY <1>1, <1>2, <2>1, <2>2, SetLevel
<1> HIDE DEF now
<1>4. c \cap now \subseteq e \cap now /\ c \cap now \in Sources
    BY <1>1 DEF Sources
<1>5. (drv' \in EarlyDrv => e = {}) /\ (drv' = "idle" => c \cap now = {})
    BY <1>1, <1>2 DEF EarlyDrv, Sources
<1> QED
    BY <1>2, <1>3, <1>4, <1>5, PlicNext DEF now

\* A step that touches neither the PLIC nor the line.
LEMMA PlicStill ==
    ASSUME PlicInv, UNCHANGED <<priority, level, ctx, mip, line>>,
           drv' = drv \/ drv' \in {"service", "complete"}
    PROVE  PlicInv'
<1>1. PICK e \in Sources, c \in Sources :
          /\ OneContext(e, e \cap level, c) /\ c \subseteq e \cap level
          /\ drv \in EarlyDrv => e = {}
          /\ drv = "idle" => c = {}
    BY DEF PlicInv, Sources
<1>2. OneContextNext(e, e \cap level', c) /\ c \subseteq e \cap level'
    BY <1>1 DEF OneContext, OneContextNext
<1>3. priority' \in [{UartId} -> {0, 1}] /\ level' = IF line' THEN {UartId} ELSE {}
    BY DEF PlicInv
<1> QED
    BY <1>1, <1>2, <1>3, PlicNext DEF EarlyDrv

\* A step that leaves the UART as it is.
LEMMA LineStill ==
    ASSUME LineInv, UNCHANGED <<ier, dr, line, rx_queue, fifo>> PROVE LineInv'
BY DEF LineInv

\* The accesses that end in update_interrupt.
Access ==
    \/ tick_byte \/ load_rx \/ store_tx
    \/ \E e \in SUBSET {"RDI", "THRI"} : store_ier(e)
    \/ \E f, c \in BOOLEAN : store_fcr(f, c)
    \/ \E d \in BOOLEAN : store_lcr(d)
    \/ \E l \in BOOLEAN : store_mcr(l)

\* update_interrupt leaves the line right, and LSR_DR tells of a byte.
LEMMA LineKeeps ==
    ASSUME LineInv, consumed \in Nat, Access PROVE LineInv'
<1>1. CASE tick_byte
    <2>1. /\ rx_queue' = Append(rx_queue, consumed + 1) /\ dr' = TRUE /\ UNCHANGED <<ier, fifo>>
          /\ line' = (("RDI" \in ier' /\ dr') \/ "THRI" \in ier')
        BY <1>1 DEF tick_byte, update_interrupt, regVars
    <2>2. rx_queue' \in Seq(Nat) /\ rx_queue' # <<>>
        BY <2>1 DEF LineInv
    <2> QED
        BY <2>1, <2>2 DEF LineInv
<1>2. CASE load_rx
    <2>1. /\ UNCHANGED <<ier, fifo>> /\ line' = (("RDI" \in ier' /\ dr') \/ "THRI" \in ier')
          /\ \/ UNCHANGED <<rx_queue, dr>>
             \/ rx_queue = <<>> /\ dr' = FALSE /\ rx_queue' = rx_queue
             \/ /\ rx_queue # <<>> /\ rx_queue' = Tail(rx_queue)
                /\ dr' = (Tail(rx_queue) # <<>>)
        BY <1>2 DEF load_rx, update_interrupt, regVars
    <2>2. CASE UNCHANGED <<rx_queue, dr>>
        BY <2>1, <2>2 DEF LineInv
    <2>3. CASE rx_queue = <<>> /\ dr' = FALSE /\ rx_queue' = rx_queue
        BY <2>1, <2>3 DEF LineInv
    <2>4. CASE /\ rx_queue # <<>> /\ rx_queue' = Tail(rx_queue)
               /\ dr' = (Tail(rx_queue) # <<>>)
        <3>1. rx_queue' \in Seq(Nat)
            BY <2>4 DEF LineInv
        <3>2. dr' \in BOOLEAN /\ (dr' <=> rx_queue' # <<>>)
            BY <2>4
        <3> QED
            BY <2>1, <3>1, <3>2 DEF LineInv
    <2> QED
        BY <2>1, <2>2, <2>3, <2>4
<1>3. CASE store_tx
    <2>1. /\ UNCHANGED <<ier, fifo>> /\ line' = (("RDI" \in ier' /\ dr') \/ "THRI" \in ier')
          /\ \/ UNCHANGED <<rx_queue, dr>>
             \/ rx_queue' = Append(rx_queue, 0) /\ dr' = TRUE
        BY <1>3 DEF store_tx, update_interrupt, regVars
    <2>2. Append(rx_queue, 0) \in Seq(Nat) /\ Append(rx_queue, 0) # <<>>
        BY DEF LineInv
    <2>3. CASE UNCHANGED <<rx_queue, dr>>
        BY <2>1, <2>3 DEF LineInv
    <2>4. CASE rx_queue' = Append(rx_queue, 0) /\ dr' = TRUE
        BY <2>1, <2>2, <2>4 DEF LineInv
    <2> QED
        BY <2>1, <2>3, <2>4
<1>4. ASSUME NEW e \in SUBSET {"RDI", "THRI"}, store_ier(e) PROVE LineInv'
    BY <1>4 DEF LineInv, store_ier, update_interrupt
<1>5. ASSUME NEW f \in BOOLEAN, NEW c \in BOOLEAN, store_fcr(f, c) PROVE LineInv'
    <2>1. <<>> \in Seq(Nat)
        OBVIOUS
    <2> QED
        BY <1>5, <2>1 DEF LineInv, store_fcr, update_interrupt
<1>6. ASSUME NEW d, store_lcr(d) PROVE LineInv'
    BY <1>6 DEF LineInv, store_lcr, update_interrupt
<1>7. ASSUME NEW l, store_mcr(l) PROVE LineInv'
    BY <1>7 DEF LineInv, store_mcr, update_interrupt
<1> QED
    BY <1>1, <1>2, <1>3, <1>4, <1>5, <1>6, <1>7 DEF Access

\* The UART and the PLIC start idle.
LEMMA WakeInit == Init => WakeInv
<1> SUFFICES ASSUME Init PROVE WakeInv
    OBVIOUS
<1>1. OneContext({}, {} \cap level, {})
    <2>1. P!Ctxs = {0} /\ P!Ids = {1}
        BY DEF P!Ctxs, P!Ids
    <2> QED
        BY <2>1 DEF Init, P!PlicInit, OneContext, Source, Hart, UartId
<1>2. priority \in [{UartId} -> {0, 1}] /\ level = {} /\ line = FALSE
    <2>1. P!Ids = {1}
        BY DEF P!Ids
    <2> QED
        BY <2>1 DEF Init, UartInit, P!PlicInit, UartId
<1>3. PlicInv
    <2>1. {} \in SUBSET {UartId} /\ {} \subseteq {} \cap level
        OBVIOUS
    <2> QED
        BY <1>1, <1>2, <2>1 DEF PlicInv
<1>4. LineInv
    <2>1. rx_queue = <<>> /\ ier = {} /\ dr = FALSE /\ line = FALSE /\ fifo = FALSE
        BY DEF Init, UartInit
    <2>2. <<>> \in Seq(Nat)
        OBVIOUS
    <2> QED
        BY <2>1, <2>2 DEF LineInv
<1> QED
    BY <1>3, <1>4 DEF Init, UartInit, WakeInv, DrvInv, EarlyDrv, LateDrv

\* Every step keeps the line, the PLIC and the driver together.
LEMMA WakeStep ==
    ASSUME WakeInv, consumed \in Nat, [Next]_vars PROVE WakeInv'
<1> USE DEF EarlyDrv, LateDrv
<1>0. /\ PlicInv /\ LineInv /\ DrvInv /\ priority \in [{UartId} -> {0, 1}]
      /\ level = (IF line THEN {UartId} ELSE {})
    BY DEF WakeInv, PlicInv
<1>1. ASSUME Access, P!set_interrupt_level(UartId, line'), drv' = drv,
             drv # "probe" => UNCHANGED <<ier, dlab>>
      PROVE  WakeInv'
    <2>1. LineInv'
        BY <1>0, <1>1, LineKeeps
    <2>2. line' /\ drv \notin EarlyDrv => priority[UartId] = 1
        BY <1>0, <1>1, <2>1 DEF LineInv, DrvInv
    <2>3. PlicInv' /\ priority' = priority
        BY <1>0, <1>1, <2>1, <2>2, WiredKeeps DEF LineInv
    <2> QED
        BY <1>0, <1>1, <2>1, <2>3 DEF WakeInv, DrvInv
<1>2. CASE tick
    <2>1. CASE Wired(tick_byte)
        BY <1>1, <1>2, <2>1 DEF tick, Wired, Access, tick_byte, regVars, drvVars
    <2>2. CASE (tick_backoff \/ tick_nothing) /\ UNCHANGED plicVars
        <3>1. UNCHANGED <<priority, level, ctx, mip, line, drv, ier, dlab, dr, rx_queue, fifo>>
            BY <1>2, <2>2 DEF tick, tick_backoff, tick_nothing, regVars, plicVars, drvVars
        <3> QED
            BY <1>0, <3>1, PlicStill, LineStill DEF WakeInv, DrvInv
    <2> QED
        BY <1>2, <2>1, <2>2 DEF tick
<1>3. CASE keyboard
    <2>1. UNCHANGED <<priority, level, ctx, mip, line, drv, ier, dlab, dr, rx_queue, fifo>>
        BY <1>3 DEF keyboard, type, regVars, plicVars, drvVars
    <2> QED
        BY <1>0, <2>1, PlicStill, LineStill DEF WakeInv, DrvInv
<1>4. CASE probe
    BY <1>1, <1>4 DEF probe, Wired, Access
<1>5. CASE setup
    <2>1. ASSUME drv = "probe", Wired(store_lcr(FALSE)), drv' = "mcr" PROVE WakeInv'
        <3>1. Access /\ P!set_interrupt_level(UartId, line')
            BY <2>1 DEF Wired, Access
        <3>2. LineInv'
            BY <1>0, <3>1, LineKeeps
        <3>3. PlicInv' /\ priority' = priority
            BY <1>0, <2>1, <3>1, <3>2, WiredKeeps DEF LineInv
        <3> QED
            BY <1>0, <2>1, <3>2, <3>3 DEF WakeInv, DrvInv, Wired, store_lcr
    <2>2. ASSUME drv = "mcr", Wired(store_mcr(FALSE)), drv' = "mask" PROVE WakeInv'
        <3>1. Access /\ P!set_interrupt_level(UartId, line')
            BY <2>2 DEF Wired, Access
        <3>2. LineInv'
            BY <1>0, <3>1, LineKeeps
        <3>3. PlicInv' /\ priority' = priority
            BY <1>0, <2>2, <3>1, <3>2, WiredKeeps DEF LineInv
        <3> QED
            BY <1>0, <2>2, <3>2, <3>3 DEF WakeInv, DrvInv, Wired, store_mcr
    <2>3. ASSUME drv = "mask", Wired(store_ier({})), drv' = "fcr" PROVE WakeInv'
        <3>1. Access /\ P!set_interrupt_level(UartId, line')
            BY <2>3 DEF Wired, Access
        <3>2. LineInv'
            BY <1>0, <3>1, LineKeeps
        <3>3. PlicInv' /\ priority' = priority
            BY <1>0, <2>3, <3>1, <3>2, WiredKeeps DEF LineInv
        <3> QED
            BY <1>0, <2>3, <3>2, <3>3 DEF WakeInv, DrvInv, Wired, store_ier
    <2>4. ASSUME NEW c \in BOOLEAN, drv = "fcr", Wired(store_fcr(TRUE, c)), drv' = "plic"
          PROVE  WakeInv'
        <3>1. Access /\ P!set_interrupt_level(UartId, line')
            BY <2>4 DEF Wired, Access
        <3>2. LineInv'
            BY <1>0, <3>1, LineKeeps
        <3>3. PlicInv' /\ priority' = priority
            BY <1>0, <2>4, <3>1, <3>2, WiredKeeps DEF LineInv
        <3> QED
            BY <1>0, <2>4, <3>2, <3>3 DEF WakeInv, DrvInv, Wired, store_fcr
    <2>5. ASSUME drv = "plic", P!priority_write(UartId, 1), UNCHANGED <<uartVars, drv>>
          PROVE  WakeInv'
        <3>1. priority' = [priority EXCEPT ![UartId] = 1 % (1 + 1)] /\ UNCHANGED <<level, ctx, mip>>
            BY <2>5 DEF P!priority_write
        <3>2. priority' \in [{UartId} -> {0, 1}]
            BY <1>0, <3>1
        <3>3. PICK e \in Sources, c \in Sources :
                  OneContext(e, e \cap level, c) /\ c \subseteq e \cap level
            BY <1>0 DEF PlicInv, Sources
        <3>4. OneContextNext(e, e \cap level', c) /\ c \subseteq e \cap level'
            BY <3>1, <3>3 DEF OneContext, OneContextNext
        <3>5. level' = IF line' THEN {UartId} ELSE {}
            BY <1>0, <2>5, <3>1 DEF uartVars
        <3>6. PlicInv'
            BY <2>5, <3>2, <3>3, <3>4, <3>5, PlicNext
        <3> QED
            BY <1>0, <2>5, <3>6, LineStill DEF WakeInv, DrvInv, uartVars, regVars
    <2>6. ASSUME drv = "plic", ~Enabled, P!context_enable_write(Hart, 0, {UartId}),
                 UNCHANGED <<uartVars, drv>>
          PROVE  WakeInv'
        <3>1. ~line /\ level = {}
            BY <1>0, <2>6 DEF LineInv, DrvInv
        <3>2. PICK e \in Sources, c \in Sources :
                  OneContext(e, e \cap level, c) /\ c \subseteq e \cap level
            BY <1>0 DEF PlicInv, Sources
        <3>3. e # {UartId}
            BY <2>6, <3>2 DEF Enabled, OneContext, Source
        <3>4. OneContextNext({UartId}, {UartId} \cap level, {}) /\ UNCHANGED <<priority, level>>
            <4>1. e \cap level \in Sources /\ {UartId} \in Sources /\ level \in Sources
                  /\ e \cap level \subseteq e
                BY <3>1 DEF Sources
            <4> QED
                BY <2>6, <3>1, <3>2, <3>3, <4>1, EnableWrite
        <3>5. PlicInv'
            <4>1. {UartId} \in Sources /\ {} \in Sources /\ {} \subseteq {UartId} \cap level'
                BY DEF Sources
            <4>2. level' = IF line' THEN {UartId} ELSE {}
                BY <1>0, <2>6, <3>4 DEF uartVars
            <4> QED
                BY <1>0, <2>6, <3>4, <4>1, <4>2, PlicNext
        <3> QED
            BY <1>0, <2>6, <3>4, <3>5 DEF WakeInv, LineInv, DrvInv, uartVars, regVars
    <2>7. ASSUME drv = "plic", priority[UartId] = 1, Wired(store_ier({"RDI"})), drv' = "idle"
          PROVE  WakeInv'
        <3>1. Access /\ P!set_interrupt_level(UartId, line')
            BY <2>7 DEF Wired, Access
        <3>2. LineInv' /\ ~line
            BY <1>0, <2>7, <3>1, LineKeeps DEF LineInv, DrvInv
        <3>3. PlicInv' /\ priority' = priority
            BY <1>0, <2>7, <3>1, <3>2, WiredKeeps DEF LineInv
        <3> QED
            BY <1>0, <2>7, <3>2, <3>3 DEF WakeInv, DrvInv, Wired, store_ier
    <2> QED
        BY <1>5, <2>1, <2>2, <2>3, <2>4, <2>5, <2>6, <2>7 DEF setup
<1>6. CASE claim
    <2>1. /\ drv = "idle" /\ mip[Hart] /\ P!context_claim(Hart) /\ drv' = "service"
          /\ UNCHANGED uartVars
        BY <1>6 DEF claim
    <2>2. PICK e \in Sources, c \in Sources :
              OneContext(e, e \cap level, c) /\ c \subseteq e \cap level
        BY <1>0 DEF PlicInv, Sources
    <2>3. e \cap level \in Sources
        BY DEF Sources
    <2>4. OneContextNext(e, e \cap level, e \cap level) /\ UNCHANGED <<priority, level>>
        BY <2>1, <2>2, <2>3, ClaimOne
    <2>5. level' = IF line' THEN {UartId} ELSE {}
        BY <1>0, <2>1, <2>4 DEF uartVars
    <2>6. PlicInv'
        BY <1>0, <2>1, <2>3, <2>4, <2>5, PlicNext
    <2> QED
        BY <1>0, <2>1, <2>4, <2>6 DEF WakeInv, LineInv, DrvInv, uartVars, regVars
<1>7. CASE service
    <2>1. ASSUME drv = "service", Wired(load_rx), drv' \in {"service", "complete"} PROVE WakeInv'
        <3>1. Access /\ P!set_interrupt_level(UartId, line')
            BY <2>1 DEF Wired, Access
        <3>2. LineInv' /\ priority[UartId] = 1
            BY <1>0, <2>1, <3>1, LineKeeps DEF DrvInv
        <3>3. PlicInv' /\ priority' = priority
            BY <1>0, <2>1, <3>1, <3>2, WiredKeeps DEF LineInv
        <3> QED
            BY <1>0, <2>1, <3>2, <3>3 DEF WakeInv, DrvInv, Wired, load_rx, regVars
    <2>2. ASSUME drv = "service", drv' = "complete", UNCHANGED <<uartVars, plicVars>> PROVE WakeInv'
        <3>1. UNCHANGED <<priority, level, ctx, mip, line, ier, dlab, dr, rx_queue, fifo>>
            BY <2>2 DEF uartVars, regVars, plicVars
        <3> QED
            BY <1>0, <2>2, <3>1, PlicStill, LineStill DEF WakeInv, DrvInv
    <2> QED
        BY <1>7, <2>1, <2>2 DEF service
<1>8. CASE complete
    <2>1. drv = "complete" /\ drv' = "idle" /\ UNCHANGED uartVars
        BY <1>8 DEF complete
    <2>2. PICK e \in Sources, c \in Sources :
              OneContext(e, e \cap level, c) /\ c \subseteq e \cap level
        BY <1>0 DEF PlicInv, Sources
    <2>3. e \cap level \in Sources
        BY DEF Sources
    <2>4. OneContextNext(e, e \cap level, {}) /\ UNCHANGED <<priority, level>>
        <3>1. CASE Enabled
            BY <1>8, <2>2, <2>3, <3>1, CompleteOne DEF complete
        <3>2. CASE ~Enabled
            <4>1. e = {} /\ c = {}
                BY <2>2, <3>2 DEF Enabled, OneContext, Source, Sources
            <4> QED
                BY <1>8, <2>2, <3>2, <4>1 DEF complete, plicVars, OneContext, OneContextNext
        <3> QED
            BY <3>1, <3>2
    <2>5. level' = IF line' THEN {UartId} ELSE {}
        BY <1>0, <2>1, <2>4 DEF uartVars
    <2>6. PlicInv'
        <3>1. {} \in Sources /\ {} \subseteq e \cap level'
            BY DEF Sources
        <3> QED
            BY <1>0, <2>1, <2>4, <2>5, <3>1, PlicNext
    <2> QED
        BY <1>0, <2>1, <2>4, <2>6 DEF WakeInv, LineInv, DrvInv, uartVars, regVars
<1>9. CASE disable \/ enable
    <2>1. PICK e \in Sources, c \in Sources :
              OneContext(e, e \cap level, c) /\ c \subseteq e \cap level
        BY <1>0 DEF PlicInv, Sources
    <2>2. PICK new \in Sources :
              P!context_enable_write(Hart, 0, new) /\ (Enabled <=> new = {})
        BY <1>9 DEF disable, enable, Sources
    <2>3. drv' = drv /\ drv \in LateDrv /\ UNCHANGED uartVars
        BY <1>9 DEF disable, enable, drvVars
    <2>4. e # new
        BY <2>1, <2>2 DEF Enabled, OneContext, Source, Sources
    <2>5. OneContextNext(new, new \cap level, {}) /\ UNCHANGED <<priority, level>>
        <3>1. e \cap level \in Sources /\ level \in Sources /\ e \cap level \subseteq e
            BY <1>0 DEF Sources
        <3>2. priority[UartId] = 1
            BY <1>0, <2>3 DEF DrvInv
        <3> QED
            BY <2>1, <2>2, <2>4, <3>1, <3>2, EnableWrite
    <2>6. PlicInv'
        <3>1. {} \in Sources /\ {} \subseteq new \cap level'
            BY DEF Sources
        <3>2. level' = IF line' THEN {UartId} ELSE {}
            BY <1>0, <2>3, <2>5 DEF uartVars
        <3> QED
            BY <1>0, <2>3, <2>5, <3>1, <3>2, PlicNext
    <2> QED
        BY <1>0, <2>3, <2>5, <2>6 DEF WakeInv, LineInv, DrvInv, uartVars, regVars
<1>10. CASE UNCHANGED vars
    <2>1. UNCHANGED <<priority, level, ctx, mip, line, drv, ier, dlab, dr, rx_queue, fifo>>
        BY <1>10 DEF vars, uartVars, regVars, plicVars, drvVars
    <2> QED
        BY <1>0, <2>1, PlicStill, LineStill DEF WakeInv, DrvInv
<1> QED
    BY <1>2, <1>3, <1>4, <1>5, <1>6, <1>7, <1>8, <1>9, <1>10 DEF Next, driver

-----------------------------------------------------------------------------
(* UART, PLIC and driver are a pipe                                        *)

\* The bytes on their way are those not yet taken from the terminal and those
\* in the queue.
LEMMA OnTheWay ==
    ASSUME QueueInv
    PROVE  \A b : b \in Pipe!Under <=>
               /\ b \in 1 .. typed
               /\ b > consumed \/ \E i \in DOMAIN rx_queue : rx_queue[i] = b
<1> SUFFICES ASSUME NEW b \in 1 .. typed
             PROVE  b \in Pipe!Under <=>
                       b > consumed \/ \E i \in DOMAIN rx_queue : rx_queue[i] = b
    BY DEF Pipe!Under
<1>1. b \in Pipe!Under <=> b \notin cleared /\ \A i \in DOMAIN got : got[i] # b
    BY DEF Pipe!Under
<1>2. CASE b > consumed
    BY <1>1, <1>2 DEF QueueInv
<1>3. CASE b \in 1 .. consumed
    BY <1>1, <1>3 DEF QueueInv
<1> QED
    BY <1>2, <1>3 DEF QueueInv

\* What an appended byte does to a queue.
LEMMA Appended ==
    ASSUME NEW q \in Seq(Nat), NEW x \in Nat
    PROVE  /\ Append(q, x) \in Seq(Nat) /\ Len(q) \in Nat /\ DOMAIN q = 1 .. Len(q)
           /\ DOMAIN Append(q, x) = 1 .. Len(q) + 1 /\ Append(q, x)[Len(q) + 1] = x
           /\ \A i \in DOMAIN q : i \in DOMAIN Append(q, x) /\ Append(q, x)[i] = q[i]
           /\ \A i \in DOMAIN Append(q, x) : i # Len(q) + 1 => i \in DOMAIN q
OBVIOUS

\* tick takes the next byte from the terminal.
LEMMA TickByte ==
    ASSUME QueueInv, tick_byte PROVE QueueInv' /\ UNCHANGED Pipe!pipeVars
<1> DEFINE n == Len(rx_queue)
           x == consumed + 1
<1>1. /\ consumed < typed /\ consumed' = x /\ rx_queue' = Append(rx_queue, x)
      /\ UNCHANGED <<typed, got, cleared>>
    BY DEF tick_byte
<1>2. typed \in Nat /\ consumed \in 0 .. typed /\ x \in Nat /\ rx_queue \in Seq(Nat)
    BY DEF QueueInv
<1>3. /\ rx_queue' \in Seq(Nat) /\ n \in Nat /\ DOMAIN rx_queue = 1 .. n
      /\ DOMAIN rx_queue' = 1 .. n + 1 /\ rx_queue'[n + 1] = x
      /\ \A i \in DOMAIN rx_queue : i \in DOMAIN rx_queue' /\ rx_queue'[i] = rx_queue[i]
      /\ \A i \in DOMAIN rx_queue' : i # n + 1 => i \in DOMAIN rx_queue
    BY <1>1, <1>2, Appended
<1>4. n + 1 \in DOMAIN rx_queue'
    BY <1>3
<1>5. \A i \in DOMAIN rx_queue : rx_queue[i] \in Nat /\ rx_queue[i] <= consumed
    BY DEF QueueInv
<1>6. \A i \in DOMAIN rx_queue' : rx_queue'[i] <= consumed'
    BY <1>1, <1>2, <1>3, <1>5
<1>7. ASSUME NEW i \in DOMAIN rx_queue', NEW j \in DOMAIN rx_queue', i < j,
             rx_queue'[i] # 0, rx_queue'[j] # 0
      PROVE  rx_queue'[i] < rx_queue'[j]
    <2>1. i \in DOMAIN rx_queue /\ rx_queue'[i] = rx_queue[i]
        BY <1>3, <1>7
    <2>2. CASE j = n + 1
        BY <1>2, <1>3, <1>5, <2>1, <2>2
    <2>3. CASE j # n + 1
        BY <1>3, <1>7, <2>1, <2>3 DEF QueueInv
    <2> QED
        BY <2>2, <2>3
<1>8. ASSUME NEW b \in 1 .. consumed'
      PROVE  (\E i \in DOMAIN rx_queue' : rx_queue'[i] = b)
                <=> b \notin cleared' /\ \A i \in DOMAIN got' : got'[i] # b
    <2>1. CASE b = x
        <3>1. b \notin cleared /\ \A i \in DOMAIN got : got[i] # b
            BY <1>2, <2>1 DEF QueueInv
        <3> QED
            BY <1>1, <1>3, <1>4, <2>1, <3>1
    <2>2. CASE b # x
        <3>1. b \in 1 .. consumed
            BY <1>1, <1>2, <2>2
        <3>2. (\E i \in DOMAIN rx_queue' : rx_queue'[i] = b)
                <=> \E i \in DOMAIN rx_queue : rx_queue[i] = b
            BY <1>3, <2>2
        <3> QED
            BY <1>1, <3>1, <3>2 DEF QueueInv
    <2> QED
        BY <2>1, <2>2
<1>9. \E j \in DOMAIN rx_queue' : rx_queue'[j] = consumed'
    BY <1>1, <1>3, <1>4
<1>10. /\ cleared' \subseteq 1 .. consumed' /\ got' \in Seq(Nat)
       /\ \A i \in DOMAIN got' : got'[i] \in 1 .. consumed'
       /\ typed' \in Nat /\ consumed' \in 0 .. typed'
    BY <1>1, <1>2 DEF QueueInv
<1>11. QueueInv'
    BY <1>3, <1>6, <1>7, <1>8, <1>9, <1>10 DEF QueueInv
<1> QED
    BY <1>1, <1>11 DEF Pipe!pipeVars

\* A byte looped back goes through the queue unseen.
LEMMA StoreTx ==
    ASSUME QueueInv, store_tx PROVE QueueInv' /\ UNCHANGED Pipe!pipeVars
<1> DEFINE n == Len(rx_queue)
<1>1. UNCHANGED <<typed, consumed, got, cleared>>
    BY DEF store_tx, termVars
<1>2. CASE rx_queue' = rx_queue
    BY <1>1, <1>2 DEF QueueInv, Pipe!pipeVars
<1>3. CASE rx_queue' = Append(rx_queue, 0)
    <2>1. rx_queue \in Seq(Nat) /\ typed \in Nat /\ consumed \in 0 .. typed
        BY DEF QueueInv
    <2>2. /\ rx_queue' \in Seq(Nat) /\ n \in Nat /\ DOMAIN rx_queue = 1 .. n
          /\ DOMAIN rx_queue' = 1 .. n + 1 /\ rx_queue'[n + 1] = 0
          /\ \A i \in DOMAIN rx_queue : i \in DOMAIN rx_queue' /\ rx_queue'[i] = rx_queue[i]
          /\ \A i \in DOMAIN rx_queue' : i # n + 1 => i \in DOMAIN rx_queue
        BY <1>3, <2>1, Appended
    <2>3. \A i \in DOMAIN rx_queue' : rx_queue'[i] <= consumed'
        BY <1>1, <2>1, <2>2 DEF QueueInv
    <2>4. ASSUME NEW i \in DOMAIN rx_queue', NEW j \in DOMAIN rx_queue', i < j,
                 rx_queue'[i] # 0, rx_queue'[j] # 0
          PROVE  rx_queue'[i] < rx_queue'[j]
        BY <2>2, <2>4 DEF QueueInv
    <2>5. ASSUME NEW b \in 1 .. consumed
          PROVE  (\E i \in DOMAIN rx_queue' : rx_queue'[i] = b)
                    <=> b \notin cleared /\ \A i \in DOMAIN got : got[i] # b
        <3>1. (\E i \in DOMAIN rx_queue' : rx_queue'[i] = b)
                <=> \E i \in DOMAIN rx_queue : rx_queue[i] = b
            BY <2>2
        <3> QED
            BY <3>1 DEF QueueInv
    <2>6. ASSUME NEW i \in DOMAIN rx_queue', rx_queue'[i] # 0
          PROVE  \E j \in DOMAIN rx_queue' : rx_queue'[j] = consumed
        BY <2>2, <2>6 DEF QueueInv
    <2>7. QueueInv'
        BY <1>1, <2>2, <2>3, <2>4, <2>5, <2>6 DEF QueueInv
    <2> QED
        BY <1>1, <2>7 DEF Pipe!pipeVars
<1> QED
    BY <1>2, <1>3 DEF store_tx

\* A read takes the oldest byte on its way.
LEMMA LoadRx ==
    ASSUME QueueInv, load_rx PROVE QueueInv' /\ [Pipe!Next]_(Pipe!pipeVars)
<1>1. UNCHANGED <<typed, consumed, cleared>>
    BY DEF load_rx, termVars
<1>2. CASE UNCHANGED <<rx_queue, got>>
    BY <1>1, <1>2 DEF QueueInv, Pipe!pipeVars
<1>3. CASE /\ rx_queue # <<>> /\ rx_queue' = Tail(rx_queue)
           /\ got' = IF Head(rx_queue) = 0 THEN got ELSE Append(got, Head(rx_queue))
    <2> DEFINE n == Len(rx_queue)
               x == Head(rx_queue)
    <2>1. /\ rx_queue \in Seq(Nat) /\ got \in Seq(Nat) /\ typed \in Nat /\ consumed \in 0 .. typed
          /\ \A i \in DOMAIN rx_queue : rx_queue[i] \in Nat /\ rx_queue[i] <= consumed
        BY DEF QueueInv
    <2>2. /\ rx_queue' \in Seq(Nat) /\ n \in Nat /\ n >= 1 /\ DOMAIN rx_queue = 1 .. n
          /\ DOMAIN rx_queue' = 1 .. n - 1 /\ x = rx_queue[1]
          /\ \A i \in 1 .. n - 1 : rx_queue'[i] = rx_queue[i + 1]
        BY <1>3, <2>1
    <2>3. /\ 1 \in DOMAIN rx_queue /\ x \in Nat /\ x <= consumed
          /\ \A i \in DOMAIN rx_queue' : /\ i + 1 \in DOMAIN rx_queue /\ 1 < i + 1 /\ i \in Nat
                                         /\ rx_queue'[i] = rx_queue[i + 1]
          /\ \A i \in DOMAIN rx_queue : i # 1 => /\ i - 1 \in DOMAIN rx_queue'
                                                 /\ rx_queue'[i - 1] = rx_queue[i]
        <3> HIDE DEF x, n
        <3>1. 1 \in DOMAIN rx_queue
            BY <2>2
        <3>2. x \in Nat /\ x <= consumed
            BY <2>1, <2>2, <3>1
        <3>3. ASSUME NEW i \in DOMAIN rx_queue'
              PROVE  /\ i + 1 \in DOMAIN rx_queue /\ 1 < i + 1 /\ i \in Nat
                     /\ rx_queue'[i] = rx_queue[i + 1]
            <4>1. i \in 1 .. n - 1
                BY <2>2
            <4>2. i + 1 \in 1 .. n /\ 1 < i + 1 /\ i \in Nat
                BY <2>2, <4>1
            <4> QED
                BY <2>2, <4>1, <4>2
        <3>4. ASSUME NEW i \in DOMAIN rx_queue, i # 1
              PROVE  i - 1 \in DOMAIN rx_queue' /\ rx_queue'[i - 1] = rx_queue[i]
            <4>1. i \in 1 .. n
                BY <2>2
            <4>2. i - 1 \in 1 .. n - 1 /\ (i - 1) + 1 = i
                BY <2>2, <3>4, <4>1
            <4> QED
                BY <2>2, <4>2
        <3> QED
            BY <3>1, <3>2, <3>3, <3>4
    <2> HIDE DEF x, n
    <2>4. \A i \in DOMAIN rx_queue' : rx_queue'[i] <= consumed'
        BY <1>1, <2>1, <2>3
    <2>5. ASSUME NEW i \in DOMAIN rx_queue', NEW j \in DOMAIN rx_queue', i < j,
                 rx_queue'[i] # 0, rx_queue'[j] # 0
          PROVE  rx_queue'[i] < rx_queue'[j]
        <3>1. i + 1 < j + 1
            BY <2>3, <2>5
        <3> QED
            BY <2>3, <2>5, <3>1 DEF QueueInv
    <2>6. \A i \in DOMAIN rx_queue' : x # 0 /\ rx_queue'[i] # 0 => x < rx_queue'[i]
        BY <2>2, <2>3 DEF QueueInv
    <2>7. ASSUME NEW i \in DOMAIN rx_queue', rx_queue'[i] # 0
          PROVE  \E j \in DOMAIN rx_queue' : rx_queue'[j] = consumed'
        <3>1. PICK j \in DOMAIN rx_queue : rx_queue[j] = consumed
            BY <2>3, <2>7 DEF QueueInv
        <3>2. j # 1
            <4> SUFFICES ASSUME j = 1 PROVE FALSE
                OBVIOUS
            <4>1. x = consumed /\ rx_queue'[i] <= consumed /\ rx_queue'[i] \in Nat
                BY <1>1, <2>1, <2>2, <2>3, <2>4, <3>1
            <4>2. x # 0 => x < rx_queue'[i]
                BY <2>6, <2>7
            <4> QED
                BY <2>1, <2>3, <2>7, <4>1, <4>2
        <3> QED
            BY <1>1, <2>3, <3>1, <3>2
    <2>8. CASE x = 0
        <3>1. got' = got
            BY <1>3, <2>8 DEF x
        <3>2. \A b \in 1 .. consumed : (\E i \in DOMAIN rx_queue' : rx_queue'[i] = b)
                                          <=> \E i \in DOMAIN rx_queue : rx_queue[i] = b
            <4> SUFFICES ASSUME NEW b \in 1 .. consumed
                         PROVE  (\E i \in DOMAIN rx_queue' : rx_queue'[i] = b)
                                   <=> \E i \in DOMAIN rx_queue : rx_queue[i] = b
                OBVIOUS
            <4>1. ASSUME NEW i \in DOMAIN rx_queue, rx_queue[i] = b
                  PROVE  \E k \in DOMAIN rx_queue' : rx_queue'[k] = b
                <5>1. b # 0
                    BY <2>1
                <5>2. i # 1
                    BY <2>2, <2>8, <4>1, <5>1
                <5> QED
                    BY <2>3, <4>1, <5>2
            <4> QED
                BY <2>3, <4>1
        <3>3. QueueInv'
            BY <1>1, <2>1, <2>2, <2>4, <2>5, <2>7, <3>1, <3>2 DEF QueueInv
        <3> QED
            BY <1>1, <3>1, <3>3 DEF Pipe!pipeVars
    <2>9. CASE x # 0
        <3>1. got' = Append(got, x)
            BY <1>3, <2>9 DEF x
        <3>2. /\ got' \in Seq(Nat) /\ Len(got) \in Nat /\ got'[Len(got) + 1] = x
              /\ Len(got) + 1 \in DOMAIN got'
              /\ \A i \in DOMAIN got : i \in DOMAIN got' /\ got'[i] = got[i]
              /\ \A i \in DOMAIN got' : i # Len(got) + 1 => i \in DOMAIN got
            BY <2>1, <2>3, <3>1, Appended
        <3>3. \A i \in DOMAIN got' : got'[i] \in 1 .. consumed'
            <4>1. x \in 1 .. consumed
                BY <2>1, <2>3, <2>9
            <4>2. \A i \in DOMAIN got : got[i] \in 1 .. consumed
                BY DEF QueueInv
            <4> QED
                BY <1>1, <3>2, <4>1, <4>2
        <3>4. ASSUME NEW b \in 1 .. consumed
              PROVE  (\E i \in DOMAIN rx_queue' : rx_queue'[i] = b)
                        <=> b \notin cleared /\ \A i \in DOMAIN got' : got'[i] # b
            <4>1. (\A i \in DOMAIN got' : got'[i] # b)
                     <=> (b # x /\ \A i \in DOMAIN got : got[i] # b)
                BY <3>2
            <4>2. (\E i \in DOMAIN rx_queue' : rx_queue'[i] = b)
                     <=> b # x /\ \E i \in DOMAIN rx_queue : rx_queue[i] = b
                <5>1. ASSUME NEW i \in DOMAIN rx_queue', rx_queue'[i] = b
                      PROVE  b # x /\ \E k \in DOMAIN rx_queue : rx_queue[k] = b
                    BY <2>3, <2>6, <2>9, <5>1
                <5>2. ASSUME NEW i \in DOMAIN rx_queue, rx_queue[i] = b, b # x
                      PROVE  \E k \in DOMAIN rx_queue' : rx_queue'[k] = b
                    BY <2>2, <2>3, <5>2
                <5> QED
                    BY <5>1, <5>2
            <4> QED
                BY <4>1, <4>2 DEF QueueInv
        <3>5. QueueInv'
            BY <1>1, <2>1, <2>2, <2>4, <2>5, <2>7, <3>2, <3>3, <3>4 DEF QueueInv
        <3>6. x \in Pipe!Under
            <4>1. x \in 1 .. typed
                BY <2>1, <2>3, <2>9
            <4>2. \E i \in DOMAIN rx_queue : rx_queue[i] = x
                BY <2>2, <2>3
            <4> QED
                BY <4>1, <4>2, OnTheWay
        <3>7. ASSUME NEW b \in Pipe!Under PROVE x <= b
            <4>1. b \in 1 .. typed
                BY <3>7, OnTheWay
            <4>2. CASE b > consumed
                BY <2>1, <2>3, <4>1, <4>2
            <4>3. ASSUME NEW i \in DOMAIN rx_queue, rx_queue[i] = b PROVE x <= b
                <5>1. CASE i = 1
                    BY <2>2, <2>3, <4>3, <5>1
                <5>2. CASE i # 1
                    BY <2>3, <2>6, <2>9, <4>1, <4>3, <5>2
                <5> QED
                    BY <5>1, <5>2
            <4> QED
                BY <4>2, <4>3, OnTheWay
        <3>8. Pipe!Receive
            BY <1>1, <3>1, <3>6, <3>7 DEF Pipe!Receive
        <3> QED
            BY <3>5, <3>8 DEF Pipe!Next
    <2> QED
        BY <2>8, <2>9
<1> QED
    BY <1>2, <1>3 DEF load_rx

\* Clearing the receiver discards the bytes in the queue: the oldest ones on
\* their way.
LEMMA StoreFcr ==
    ASSUME QueueInv, NEW f, NEW clear \in BOOLEAN, store_fcr(f, clear)
    PROVE  QueueInv' /\ [Pipe!Next]_(Pipe!pipeVars)
<1> DEFINE dropped == {rx_queue[i] : i \in DOMAIN rx_queue} \ {0}
<1>1. UNCHANGED <<typed, consumed, got>>
    BY DEF store_fcr, termVars
<1>2. CASE ~clear
    BY <1>1, <1>2 DEF store_fcr, QueueInv, Pipe!pipeVars
<1>3. CASE clear
    <2>1. rx_queue' = <<>> /\ cleared' = cleared \cup dropped
        BY <1>3 DEF store_fcr
    <2>2. /\ typed \in Nat /\ consumed \in 0 .. typed
          /\ \A i \in DOMAIN rx_queue : rx_queue[i] \in Nat /\ rx_queue[i] <= consumed
        BY DEF QueueInv
    <2>3. \A b : b \in dropped <=> b # 0 /\ \E i \in DOMAIN rx_queue : rx_queue[i] = b
        OBVIOUS
    <2>4. dropped \subseteq 1 .. consumed
        BY <2>2
    <2> HIDE DEF dropped
    <2>5. QueueInv'
        <3>1. /\ rx_queue' \in Seq(Nat) /\ DOMAIN rx_queue' = {}
              /\ cleared' \subseteq 1 .. consumed
            BY <2>1, <2>4 DEF QueueInv
        <3>2. ASSUME NEW b \in 1 .. consumed
              PROVE  ~(b \notin cleared' /\ \A i \in DOMAIN got : got[i] # b)
            BY <2>1, <2>2, <2>3 DEF QueueInv
        <3> QED
            BY <1>1, <3>1, <3>2 DEF QueueInv
    <2>6. CASE dropped = {}
        <3>1. cleared' = cleared
            BY <2>1, <2>6
        <3> QED
            BY <1>1, <2>5, <3>1 DEF Pipe!pipeVars
    <2>7. CASE dropped # {}
        <3>1. PICK k \in DOMAIN rx_queue : rx_queue[k] # 0
            BY <2>3, <2>7
        <3>2. PICK j \in DOMAIN rx_queue : rx_queue[j] = consumed
            BY <3>1 DEF QueueInv
        <3>3. consumed \in 1 .. typed
            BY <2>2, <3>1
        <3>4. consumed \in Pipe!Under
            BY <3>2, <3>3, OnTheWay
        <3>5. {b \in Pipe!Under : b <= consumed} = dropped
            <4>1. ASSUME NEW b \in Pipe!Under, b <= consumed PROVE b \in dropped
                <5>1. b \in 1 .. typed /\ ~(b > consumed)
                    BY <2>2, <4>1, OnTheWay
                <5> QED
                    BY <2>2, <2>3, <4>1, <5>1, OnTheWay
            <4>2. ASSUME NEW b \in dropped PROVE b \in Pipe!Under /\ b <= consumed
                <5>1. b \in 1 .. typed /\ b <= consumed
                    BY <2>2, <2>4
                <5> QED
                    BY <2>3, <5>1, OnTheWay
            <4> QED
                BY <4>1, <4>2
        <3>6. Pipe!Discard
            BY <1>1, <2>1, <3>4, <3>5 DEF Pipe!Discard
        <3> QED
            BY <2>5, <3>6 DEF Pipe!Next
    <2> QED
        BY <2>6, <2>7
<1> QED
    BY <1>2, <1>3

\* Steps that leave the bytes where they are.
LEMMA QueueStill ==
    ASSUME QueueInv, UNCHANGED <<typed, consumed, rx_queue, got, cleared>>
    PROVE  QueueInv' /\ UNCHANGED Pipe!pipeVars
BY DEF QueueInv, Pipe!pipeVars

\* Every step is a step of the pipe or leaves it unchanged.
LEMMA PipeStep ==
    ASSUME QueueInv, [Next]_vars PROVE QueueInv' /\ [Pipe!Next]_(Pipe!pipeVars)
<1>1. ASSUME Access PROVE QueueInv' /\ [Pipe!Next]_(Pipe!pipeVars)
    <2>1. ASSUME NEW e, store_ier(e) PROVE QueueInv' /\ [Pipe!Next]_(Pipe!pipeVars)
        BY <2>1, QueueStill DEF store_ier, termVars
    <2>2. ASSUME NEW d, store_lcr(d) \/ store_mcr(d)
          PROVE  QueueInv' /\ [Pipe!Next]_(Pipe!pipeVars)
        BY <2>2, QueueStill DEF store_lcr, store_mcr, termVars
    <2> QED
        BY <1>1, <2>1, <2>2, TickByte, LoadRx, StoreTx, StoreFcr DEF Access
<1>2. ASSUME type PROVE QueueInv' /\ Pipe!Send
    <2>1. typed' = typed + 1 /\ UNCHANGED <<consumed, rx_queue, got, cleared>>
        BY <1>2 DEF type
    <2> QED
        BY <2>1 DEF QueueInv, Pipe!Send
<1>3. ASSUME UNCHANGED uartVars PROVE QueueInv' /\ [Pipe!Next]_(Pipe!pipeVars)
    BY <1>3, QueueStill DEF uartVars, termVars
<1>4. CASE tick
    BY <1>1, <1>4, QueueStill DEF tick, Wired, Access, tick_backoff, tick_nothing, termVars
<1>5. CASE keyboard
    BY <1>2, <1>5 DEF keyboard, Pipe!Next
<1>6. CASE probe
    BY <1>1, <1>6 DEF probe, Wired, Access
<1>7. CASE setup
    <2>1. Access \/ UNCHANGED uartVars
        BY <1>7 DEF setup, Wired, Access
    <2> QED
        BY <1>1, <1>3, <2>1
<1>8. CASE claim \/ service \/ complete \/ disable \/ enable
    <2>1. Access \/ UNCHANGED uartVars
        BY <1>8 DEF claim, service, complete, disable, enable, Wired, Access
    <2> QED
        BY <1>1, <1>3, <2>1
<1>9. CASE UNCHANGED vars
    BY <1>3, <1>9 DEF vars
<1> QED
    BY <1>4, <1>5, <1>6, <1>7, <1>8, <1>9 DEF Next, driver

-----------------------------------------------------------------------------
(* The theorems                                                            *)

\* The machine starts with nothing typed.
LEMMA QueueInit == Init => QueueInv /\ Pipe!Init
<1> SUFFICES ASSUME Init PROVE QueueInv /\ Pipe!Init
    OBVIOUS
<1>1. /\ rx_queue = <<>> /\ typed = 0 /\ consumed = 0 /\ got = <<>> /\ cleared = {}
      /\ <<>> \in Seq(Nat) /\ DOMAIN <<>> = {}
    BY DEF Init, UartInit
<1> QED
    BY <1>1 DEF QueueInv, Pipe!Init

\* The invariant of queue, line, PLIC and driver holds in every run.
THEOREM ConsoleInvariant == Spec => [](WakeInv /\ QueueInv)
<1>1. WakeInv /\ QueueInv /\ [Next]_vars => WakeInv' /\ QueueInv'
    <2>1. QueueInv => consumed \in Nat
        BY DEF QueueInv
    <2> QED
        BY <2>1, WakeStep, PipeStep
<1> QED
    BY <1>1, WakeInit, QueueInit, PTL DEF Spec

\* The driver never sleeps over a byte: whenever it is idle with its source
\* enabled and a byte is in the UART, the interrupt of the hart is pending
\* (ns16550_t::update_interrupt, plic_t::set_interrupt_level).
THEOREM ConsoleNoMissedWakeup == Spec => []NoMissedWakeup
<1>1. WakeInv => NoMissedWakeup
    <2> SUFFICES ASSUME WakeInv, drv = "idle", Enabled, rx_queue # <<>> PROVE mip[Hart]
        BY DEF NoMissedWakeup
    <2>1. line
        BY DEF WakeInv, LineInv, DrvInv, LateDrv
    <2>2. PICK e \in Sources, c \in Sources :
              OneContext(e, e \cap level, c) /\ c = {}
        BY DEF WakeInv, PlicInv, Sources
    <2>3. UartId \in e \cap level
        BY <2>1, <2>2 DEF WakeInv, PlicInv, Enabled, OneContext, Source
    <2> QED
        BY <2>2, <2>3 DEF OneContext
<1> QED
    BY <1>1, ConsoleInvariant, PTL

\* UART, PLIC and driver implement the safety of the pipe: every byte typed
\* comes out once and in order or is discarded with all older ones on their
\* way (ns16550_t::tick, rx_byte, FCR_CLEAR_RCVR).
THEOREM ConsoleImplementsPipe == Spec => Pipe!Init /\ [][Pipe!Next]_(Pipe!pipeVars)
<1>1. QueueInv /\ [Next]_vars => [Pipe!Next]_(Pipe!pipeVars)
    BY PipeStep
<1> QED
    BY <1>1, QueueInit, ConsoleInvariant, PTL DEF Spec
=============================================================================
