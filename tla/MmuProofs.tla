------------------------------ MODULE MmuProofs ------------------------------
(***************************************************************************)
(* What the MMU and the PMP registers promise, for every number of         *)
(* entries, every size of the TLBs, every memory and every program.        *)
(*                                                                         *)
(* The registers: their types, the permanence of locked entries and the    *)
(* lockdown of machine mode code. Only pmp_write changes them, so each     *)
(* property comes down to the three writes of Pmp.                         *)
(*                                                                         *)
(* The accesses: the invariant Inv says that each cache holds what would   *)
(* be found without it. A page that subset_match calls homogeneous is one  *)
(* that every entry matches as a whole or not at all (WholePage), so one   *)
(* check of an address answers for its page (PmpOfPage) and may be kept;   *)
(* refill_tlb and refill_icache enter what is right (RefillOk, FetchKept), *)
(* and a step that changes a rule flushes (FlushStep). AccessAllowed,      *)
(* AccessObserved and ScAtomic follow.                                     *)
(***************************************************************************)
EXTENDS Mmu, FiniteSetTheorems, NaturalsInduction, TLAPS

PmpInv == opt \in Options /\ PmpTypeOK

-----------------------------------------------------------------------------
(* What the steps of a hart do to the registers                            *)

\* Reset leaves well-formed registers.
LEMMA PmpInitOK == Init => PmpInv
<1> SUFFICES ASSUME Init PROVE PmpInv
    OBVIOUS
<1>1. opt \in Options /\ PmpInit
    BY DEF Init
<1>2. AllOnes \in Nat
    BY PmpAssumption DEF AllOnes
<1>3. pmpaddr \in [Entries -> Nat]
    BY <1>1, <1>2 DEF PmpInit
<1>4. pmpcfg \in [Entries -> CfgType]
    BY <1>1 DEF PmpInit, CfgType, Off
<1>5. mseccfg \in SeccfgType
    BY <1>1 DEF PmpInit, SeccfgType
<1> QED
    BY <1>1, <1>3, <1>4, <1>5 DEF PmpInv, PmpTypeOK

\* A register is written by an instruction for it and by no other step:
\* accesses, traps and returns leave all of them alone.
LEMMA OnlyPmpWrites ==
    ASSUME Next PROVE UNCHANGED opt /\ (pmp_write \/ UNCHANGED pmpVars)
<1>1. ASSUME NEW va \in Sectors, fetch(va) PROVE UNCHANGED <<opt, pmpVars>>
    BY <1>1 DEF fetch
<1>2. ASSUME NEW a, load(a) PROVE UNCHANGED <<opt, pmpVars>>
    BY <1>2 DEF load, Finish
<1>3. ASSUME NEW a, store(a) PROVE UNCHANGED <<opt, pmpVars>>
    BY <1>3 DEF store, Finish
<1>4. ASSUME NEW a, load_reserved(a) PROVE UNCHANGED <<opt, pmpVars>>
    BY <1>4 DEF load_reserved, Finish
<1>5. ASSUME NEW op, NEW a, NEW type, NEW r, Finish(op, a, type, r)
      PROVE UNCHANGED <<opt, pmpVars>>
    BY <1>5 DEF Finish
<1>6. ASSUME NEW a, store_conditional(a) PROVE UNCHANGED <<opt, pmpVars>>
    BY <1>5, <1>6 DEF store_conditional
<1>7. ASSUME NEW m, status_write(m) PROVE UNCHANGED <<opt, pmpVars>>
    BY <1>7 DEF status_write, exec
<1>8. ASSUME NEW s, satp_write(s) PROVE UNCHANGED <<opt, pmpVars>>
    BY <1>8 DEF satp_write, exec
<1>9. ASSUME NEW t, trigger_write(t) PROVE UNCHANGED <<opt, pmpVars>>
    BY <1>9 DEF trigger_write, exec
<1>10. ASSUME arm \/ trace_region \/ sfence_vma \/ fence_i \/ other_insn \/ mret
       PROVE UNCHANGED <<opt, pmpVars>>
    BY <1>10 DEF arm, trace_region, sfence_vma, fence_i, other_insn, mret, exec
<1>11. ASSUME NEW v, NEW p, write_pte(v, p) PROVE UNCHANGED <<opt, pmpVars>>
    BY <1>11 DEF write_pte, exec
<1>12. ASSUME NEW p, take_trap(p) \/ sret(p) PROVE UNCHANGED <<opt, pmpVars>>
    BY <1>12 DEF take_trap, sret, exec
<1>13. ASSUME end_of_slice PROVE UNCHANGED <<opt, pmpVars>>
    BY <1>13 DEF end_of_slice
<1>14. ASSUME pmp_write PROVE UNCHANGED opt
    BY <1>14 DEF pmp_write, exec
<1> HIDE DEF pmpVars
<1> QED
    BY <1>1, <1>2, <1>3, <1>4, <1>6, <1>7, <1>8, <1>9, <1>10, <1>11, <1>12, <1>13, <1>14
       DEF Next

\* The three writes, with the values the program has to write.
LEMMA PmpWriteCases ==
    ASSUME PmpInv, pmp_write
    PROVE  \/ \E i \in Entries, val \in Nat : pmpaddr_write(i, val)
           \/ \E cfgs \in [Entries -> CfgType] : pmpcfg_write(cfgs)
           \/ \E val \in SeccfgType : mseccfg_write(val)
<1>1. /\ opt.pmpaddr \subseteq Nat /\ opt.pmpcfg \subseteq CfgType
      /\ opt.mseccfg \subseteq SeccfgType
    BY MmuAssumption DEF PmpInv
<1>2. [Entries -> opt.pmpcfg] \subseteq [Entries -> CfgType]
    BY <1>1
<1> QED
    BY <1>1, <1>2, Zenon DEF pmp_write

\* What a byte of pmpcfg becomes is a configuration.
LEMMA LegalCfgType ==
    ASSUME PmpTypeOK, NEW i \in Entries, NEW c \in CfgType
    PROVE  legal_cfg(i, c) \in CfgType
<1>1. pmpcfg[i] \in CfgType /\ mseccfg.mml \in BOOLEAN
    BY DEF PmpTypeOK, SeccfgType
<1>2. [c EXCEPT !.W = @ /\ (mseccfg.mml \/ c.R)] \in CfgType
    BY <1>1 DEF CfgType
<1> QED
    BY <1>1, <1>2 DEF legal_cfg

\* The registers stay well formed.
LEMMA PmpStepOK == PmpInv /\ [Next]_vars => PmpInv'
<1> SUFFICES ASSUME PmpInv, [Next]_vars PROVE PmpInv'
    OBVIOUS
<1>1. CASE UNCHANGED vars
    BY <1>1 DEF PmpInv, PmpTypeOK, vars, pmpVars
<1>2. CASE Next
    <2>1. opt' \in Options
        BY <1>2, OnlyPmpWrites DEF PmpInv
    <2>2. CASE UNCHANGED pmpVars
        BY <2>1, <2>2 DEF PmpInv, PmpTypeOK, pmpVars
    <2>3. CASE pmp_write
        <3>1. ASSUME NEW i \in Entries, NEW val \in Nat, pmpaddr_write(i, val) PROVE PmpTypeOK'
            BY <3>1 DEF PmpInv, PmpTypeOK, pmpaddr_write
        <3>2. ASSUME NEW cfgs \in [Entries -> CfgType], pmpcfg_write(cfgs) PROVE PmpTypeOK'
            <4>1. \A i \in Entries : legal_cfg(i, cfgs[i]) \in CfgType
                BY LegalCfgType DEF PmpInv
            <4> QED
                BY <3>2, <4>1 DEF PmpInv, PmpTypeOK, pmpcfg_write
        <3>3. ASSUME NEW val \in SeccfgType, mseccfg_write(val) PROVE PmpTypeOK'
            BY <3>3 DEF PmpInv, PmpTypeOK, mseccfg_write, SeccfgType
        <3> QED
            BY <2>1, <2>3, <3>1, <3>2, <3>3, PmpWriteCases DEF PmpInv
    <2> QED
        BY <1>2, <2>2, <2>3, OnlyPmpWrites
<1> QED
    BY <1>1, <1>2

\* The registers of the PMP always hold values of their types: a byte of
\* pmpcfg that is made legal is again one, and mseccfg keeps its three bits.
THEOREM PmpRegisters == Spec => []PmpTypeOK
<1>1. Init => PmpInv
    BY PmpInitOK
<1>2. PmpInv /\ [Next]_vars => PmpInv'
    BY PmpStepOK
<1>3. PmpInv => PmpTypeOK
    BY DEF PmpInv
<1> QED
    BY <1>1, <1>2, <1>3, PTL DEF Spec

-----------------------------------------------------------------------------
(* Locked entries                                                          *)

\* What an entry matches depends on its configuration, its address and, for
\* a range, the address before it.
LEMMA MatchFixed ==
    ASSUME NEW i \in Entries, pmpcfg'[i] = pmpcfg[i], pmpaddr'[i] = pmpaddr[i],
           pmpcfg[i].A = "TOR" /\ i # 0 => pmpaddr'[i - 1] = pmpaddr[i - 1]
    PROVE  \A s \in Sectors : match4(i, s)' = match4(i, s)
<1>1. napot_size(i)' = napot_size(i)
    BY DEF napot_size
<1>2. pmpcfg[i].A = "TOR" => tor_base(i)' = tor_base(i)
    BY DEF tor_base
<1> QED
    BY <1>1, <1>2 DEF match4

\* A write of an address does not change what a locked entry matches.
LEMMA AddrKeepsLocked ==
    ASSUME PmpTypeOK, NEW j \in Entries, NEW val \in Nat, pmpaddr_write(j, val),
           NEW i \in Entries, locked(i)
    PROVE  /\ pmpaddr'[i] = pmpaddr[i]
           /\ pmpcfg[i].A = "TOR" /\ i # 0 => pmpaddr'[i - 1] = pmpaddr[i - 1]
<1>1. j # i
    BY DEF pmpaddr_write
<1>2. pmpaddr \in [Entries -> Nat] /\ pmpaddr' = [pmpaddr EXCEPT ![j] = val]
    BY DEF PmpTypeOK, pmpaddr_write
<1>3. ASSUME pmpcfg[i].A = "TOR", i # 0 PROVE i - 1 \in Entries /\ j # i - 1
    <2>1. i \in Nat /\ j \in Nat /\ i - 1 \in Entries
        BY <1>3, PmpAssumption DEF Entries
    <2>2. ASSUME j = i - 1 PROVE FALSE
        <3>1. j + 1 = i
            BY <2>1, <2>2
        <3> QED
            BY <1>3, <3>1 DEF pmpaddr_write, next_locked_and_tor
    <2> QED
        BY <2>1, <2>2
<1> QED
    BY <1>1, <1>2, <1>3

\* No write changes a locked entry, what it matches or its lock.
LEMMA LockedStep ==
    ASSUME PmpInv, Next, NEW i \in Entries, locked(i)
    PROVE  /\ locked(i)' /\ pmpcfg'[i] = pmpcfg[i]
           /\ \A s \in Sectors : match4(i, s)' = match4(i, s)
<1>1. CASE UNCHANGED pmpVars
    <2>1. pmpcfg' = pmpcfg /\ pmpaddr' = pmpaddr /\ mseccfg' = mseccfg
        BY <1>1 DEF pmpVars
    <2> QED
        BY <2>1, MatchFixed DEF locked
<1>2. CASE pmp_write
    <2>1. ASSUME NEW j \in Entries, NEW val \in Nat, pmpaddr_write(j, val)
          PROVE  /\ locked(i)' /\ pmpcfg'[i] = pmpcfg[i]
                 /\ \A s \in Sectors : match4(i, s)' = match4(i, s)
        <3>1. pmpcfg' = pmpcfg /\ mseccfg' = mseccfg
            BY <2>1 DEF pmpaddr_write
        <3>2. /\ pmpaddr'[i] = pmpaddr[i]
              /\ pmpcfg[i].A = "TOR" /\ i # 0 => pmpaddr'[i - 1] = pmpaddr[i - 1]
            BY <2>1, AddrKeepsLocked DEF PmpInv
        <3> QED
            BY <3>1, <3>2, MatchFixed DEF locked
    <2>2. ASSUME NEW cfgs \in [Entries -> CfgType], pmpcfg_write(cfgs)
          PROVE  /\ locked(i)' /\ pmpcfg'[i] = pmpcfg[i]
                 /\ \A s \in Sectors : match4(i, s)' = match4(i, s)
        <3>1. pmpcfg'[i] = pmpcfg[i] /\ pmpaddr' = pmpaddr /\ mseccfg' = mseccfg
            BY <2>2 DEF pmpcfg_write, legal_cfg
        <3> QED
            BY <3>1, MatchFixed DEF locked
    <2>3. ASSUME NEW val \in SeccfgType, mseccfg_write(val)
          PROVE  /\ locked(i)' /\ pmpcfg'[i] = pmpcfg[i]
                 /\ \A s \in Sectors : match4(i, s)' = match4(i, s)
        <3>1. pmpcfg' = pmpcfg /\ pmpaddr' = pmpaddr /\ mseccfg'.rlb = FALSE
            BY <2>3 DEF mseccfg_write, locked
        <3> QED
            BY <3>1, MatchFixed DEF locked
    <2> QED
        BY <1>2, <2>1, <2>2, <2>3, PmpWriteCases
<1> QED
    BY <1>1, <1>2, OnlyPmpWrites

\* A locked entry is permanent: whatever the program writes to whichever
\* register, its configuration, the sectors it matches and its lock stay.
THEOREM PmpLockedFixed == Spec => LockedFixed
<1> DEFINE Fixed == \A i \in Entries : locked(i) =>
                        /\ locked(i)' /\ pmpcfg'[i] = pmpcfg[i]
                        /\ \A s \in Sectors : match4(i, s)' = match4(i, s)
<1>1. PmpInv /\ [Next]_vars => [Fixed]_pmpVars
    <2> SUFFICES ASSUME PmpInv, [Next]_vars PROVE [Fixed]_pmpVars
        OBVIOUS
    <2>1. CASE UNCHANGED vars
        BY <2>1 DEF vars
    <2>2. CASE Next
        BY <2>2, LockedStep
    <2> QED
        BY <2>1, <2>2
<1>2. Init => PmpInv
    BY PmpInitOK
<1>3. PmpInv /\ [Next]_vars => PmpInv'
    BY PmpStepOK
<1>4. LockedFixed <=> [][Fixed]_pmpVars
    BY DEF LockedFixed
<1> HIDE DEF Fixed
<1> QED
    BY <1>1, <1>2, <1>3, <1>4, PTL DEF Spec

-----------------------------------------------------------------------------
(* Lockdown                                                                *)

\* Under lockdown only a locked rule lets machine mode execute.
LEMMA MCodeLocked ==
    ASSUME NEW c \in CfgType, mseccfg.mml = TRUE, access_ok(c, "fetch", "M")
    PROVE  c.L /\ ~(c.X /\ c.W /\ c.R) /\ (c.X \/ (c.W /\ ~c.R))
BY DEF access_ok, mml_shared, normal_rwx, CfgType

\* Under lockdown a step adds no sector to what machine mode may execute.
LEMMA LockdownStep ==
    ASSUME PmpInv, Next, mseccfg.mml, ~mseccfg.rlb, ~mseccfg'.rlb
    PROVE  MCode' \subseteq MCode
<1>1. mseccfg.mml = TRUE /\ mseccfg.rlb = FALSE /\ mseccfg'.mml = TRUE
    <2>1. mseccfg.mml = TRUE /\ mseccfg.rlb = FALSE
        BY DEF PmpInv, PmpTypeOK, SeccfgType
    <2>2. UNCHANGED pmpVars => mseccfg'.mml = TRUE
        BY <2>1 DEF pmpVars
    <2>3. pmp_write => mseccfg'.mml = TRUE
        <3>1. ASSUME NEW val, mseccfg_write(val) PROVE mseccfg'.mml = TRUE
            BY <2>1, <3>1 DEF mseccfg_write
        <3>2. ASSUME NEW j, NEW val, pmpaddr_write(j, val) PROVE mseccfg'.mml = TRUE
            BY <2>1, <3>2 DEF pmpaddr_write
        <3>3. ASSUME NEW cfgs, pmpcfg_write(cfgs) PROVE mseccfg'.mml = TRUE
            BY <2>1, <3>3 DEF pmpcfg_write
        <3> QED
            BY <3>1, <3>2, <3>3, PmpWriteCases
    <2> QED
        BY <2>1, <2>2, <2>3, OnlyPmpWrites
<1>2. \A c : access_ok(c, "fetch", "M")' = access_ok(c, "fetch", "M")
    BY <1>1 DEF access_ok
<1> SUFFICES ASSUME NEW s \in Sectors, NEW i \in Entries,
                    match4(i, s)', access_ok(pmpcfg'[i], "fetch", "M")
             PROVE  match4(i, s) /\ access_ok(pmpcfg[i], "fetch", "M")
    BY <1>2 DEF MCode, Sectors, Entries
<1>3. pmpcfg'[i] \in CfgType /\ pmpcfg[i] \in CfgType
    BY PmpStepOK DEF PmpInv, PmpTypeOK, vars
<1>4. pmpcfg'[i].L /\ ~(pmpcfg'[i].X /\ pmpcfg'[i].W /\ pmpcfg'[i].R)
      /\ (pmpcfg'[i].X \/ (pmpcfg'[i].W /\ ~pmpcfg'[i].R))
    BY <1>1, <1>3, MCodeLocked
<1>5. pmpcfg'[i] = pmpcfg[i]
    <2>1. UNCHANGED pmpVars => pmpcfg' = pmpcfg
        BY DEF pmpVars
    <2>2. ASSUME NEW cfgs \in [Entries -> CfgType], pmpcfg_write(cfgs)
          PROVE  pmpcfg'[i] = pmpcfg[i]
        BY <1>1, <1>4, <2>2 DEF pmpcfg_write, legal_cfg
    <2> QED
        BY <2>1, <2>2, OnlyPmpWrites, PmpWriteCases DEF pmpaddr_write, mseccfg_write
<1>6. locked(i)
    BY <1>1, <1>4, <1>5 DEF locked
<1>7. match4(i, s)
    BY <1>6, LockedStep
<1> QED
    BY <1>5, <1>7

\* Lockdown keeps its promise: once mml is set and rule locking bypass is off,
\* no order of writes to the three registers makes another sector executable
\* for machine mode.
THEOREM PmpLockdownHolds == Spec => LockdownHolds
<1> DEFINE Holds == mseccfg.mml /\ ~mseccfg.rlb /\ ~mseccfg'.rlb => MCode' \subseteq MCode
<1>1. PmpInv /\ [Next]_vars => [Holds]_pmpVars
    <2> SUFFICES ASSUME PmpInv, [Next]_vars PROVE [Holds]_pmpVars
        OBVIOUS
    <2>1. CASE UNCHANGED vars
        BY <2>1 DEF vars
    <2>2. CASE Next
        BY <2>2, LockdownStep
    <2> QED
        BY <2>1, <2>2
<1>2. Init => PmpInv
    BY PmpInitOK
<1>3. PmpInv /\ [Next]_vars => PmpInv'
    BY PmpStepOK
<1>4. LockdownHolds <=> [][Holds]_pmpVars
    BY DEF LockdownHolds
<1> HIDE DEF Holds
<1> QED
    BY <1>1, <1>2, <1>3, <1>4, PTL DEF Spec

-----------------------------------------------------------------------------
(* Pages and sectors                                                       *)

\* Multiplication keeps the order.
LEMMA Times ==
    ASSUME NEW k \in Nat \ {0}, NEW a \in Nat, NEW b \in Nat
    PROVE  /\ a <= b => k * a <= k * b
           /\ k * a < k * b => a < b
           /\ k * a \in Nat
           /\ k * (a + b) = k * a + k * b
<1>1. a <= b => k * a <= k * b
    OBVIOUS
<1>2. b <= a => k * b <= k * a
    OBVIOUS
<1>3. k * a \in Nat /\ k * b \in Nat /\ k * (a + b) = k * a + k * b
    OBVIOUS
<1> QED
    BY <1>1, <1>2, <1>3

\* The quotient is the one number q with k * q <= x < k * q + k.
LEMMA Quotient ==
    ASSUME NEW k \in Nat \ {0}, NEW x \in Nat
    PROVE  /\ x \div k \in Nat /\ x % k \in 0 .. k - 1
           /\ x = k * (x \div k) + (x % k)
           /\ k * (x \div k) <= x /\ x < k * (x \div k) + k
           /\ \A q \in Nat : k * q <= x /\ x < k * q + k => x \div k = q
<1> DEFINE p == x \div k
           r == x % k
<1>1. p \in Nat /\ r \in 0 .. k - 1 /\ x = k * p + r
    OBVIOUS
<1> HIDE DEF p, r
<1>2. k * p \in Nat
    BY <1>1, Times
<1>3. k * p <= x /\ x < k * p + k
    BY <1>1, <1>2
<1>4. ASSUME NEW q \in Nat, k * q <= x, x < k * q + k PROVE p = q
    <2>1. k * (q + 1) = k * q + k /\ k * (p + 1) = k * p + k
        BY <1>1, Times
    <2>2. k * p < k * (q + 1) /\ k * q < k * (p + 1)
        <3>1. k * q \in Nat /\ k * (q + 1) \in Nat /\ k * (p + 1) \in Nat
            BY <1>1, Times
        <3> QED
            BY <1>2, <1>3, <1>4, <2>1, <3>1
    <2>3. p < q + 1 /\ q < p + 1
        <3>1. p + 1 \in Nat /\ q + 1 \in Nat
            BY <1>1
        <3> QED
            BY <1>1, <2>2, <3>1, Times
    <2> QED
        BY <1>1, <2>3
<1> QED
    BY <1>1, <1>3, <1>4 DEF p, r

\* A multiple of k.
LEMMA Multiple ==
    ASSUME NEW k \in Nat \ {0}, NEW x \in Nat, x % k = 0
    PROVE  \E m \in Nat : x = k * m
<1> DEFINE m == x \div k
<1>1. m \in Nat /\ x = k * m + 0
    BY Quotient
<1> HIDE DEF m
<1>2. x = k * m
    BY <1>1
<1> QED
    BY <1>1, <1>2

\* A sector is its page and its place in it.
LEMMA PageAndPlace ==
    ASSUME NEW ppn \in Nat, NEW o \in 0 .. PgSectors - 1
    PROVE  LET s == ppn * PgSectors + o
           IN  s \in Nat /\ Page(s) = ppn /\ s % PgSectors = o
<1> DEFINE s == ppn * PgSectors + o
<1>1. PgSectors \in Nat \ {0}
    BY PmpAssumption
<1>2. PgSectors * ppn \in Nat /\ s = PgSectors * ppn + o
    BY <1>1
<1>3. s \in Nat
    BY <1>1, <1>2
<1> HIDE DEF s
<1>4. PgSectors * ppn <= s /\ s < PgSectors * ppn + PgSectors
    BY <1>1, <1>2
<1>5. s \div PgSectors = ppn
    BY <1>1, <1>3, <1>4, Quotient
<1>6. s = PgSectors * ppn + (s % PgSectors) /\ s % PgSectors \in Nat
    <2>1. s = PgSectors * (s \div PgSectors) + (s % PgSectors)
        BY <1>1, <1>3, Quotient
    <2>2. s % PgSectors \in Nat
        BY <1>1, <1>3, Quotient
    <2> QED
        BY <1>5, <2>1, <2>2
<1>7. s % PgSectors = o
    BY <1>1, <1>2, <1>6
<1> QED
    BY <1>3, <1>5, <1>7 DEF s, Page

\* Two sectors with the same page and the same place in it are the same.
LEMMA SectorSplit ==
    ASSUME NEW s \in Nat
    PROVE  /\ Page(s) \in Nat /\ s % PgSectors \in 0 .. PgSectors - 1
           /\ s = Page(s) * PgSectors + (s % PgSectors)
<1>1. PgSectors \in Nat \ {0}
    BY PmpAssumption
<1> DEFINE p == s \div PgSectors
<1>2. p \in Nat /\ s % PgSectors \in 0 .. PgSectors - 1 /\ s = PgSectors * p + (s % PgSectors)
    BY <1>1, Quotient
<1> HIDE DEF p
<1>3. PgSectors * p = p * PgSectors
    BY <1>1, <1>2
<1> QED
    BY <1>2, <1>3 DEF p, Page

-----------------------------------------------------------------------------
(* Pages an entry does not split                                           *)

\* A non-empty set of powers has a greatest element.
LEMMA GreatestPower ==
    ASSUME NEW T \in SUBSET Powers, T # {}
    PROVE  \E p \in T : \A q \in T : q <= p
<1> DEFINE N == 2 ^ AddrBits
           D == {N - q : q \in T}
<1>1. N \in Nat /\ \A q \in T : q \in 1 .. N
    BY PmpAssumption, PowersAssumption
<1> HIDE DEF N
<1>2. D \in SUBSET Nat /\ D # {}
    BY <1>1
<1>3. PICK d \in D : \A e \in D : ~ (<<e, d>> \in OpToRel(<, Nat))
    BY <1>2, WFMin, NatLessThanWellFounded
<1>4. PICK p \in T : d = N - p
    OBVIOUS
<1>5. ASSUME NEW q \in T PROVE q <= p
    <2>1. N - q \in Nat /\ N - p \in Nat /\ q \in Nat /\ p \in Nat
        BY <1>1
    <2>2. ~ (N - q < N - p)
        BY <1>3, <1>4, <2>1 DEF OpToRel
    <2> QED
        BY <1>1, <2>1, <2>2
<1> QED
    BY <1>5

\* The size of an entry divides that of a page or is a multiple of it.
LEMMA SizeDivides ==
    ASSUME PmpTypeOK, NEW i \in Entries
    PROVE  /\ napot_size(i) \in Nat \ {0}
           /\ napot_size(i) >= PgSectors => napot_size(i) % PgSectors = 0
           /\ napot_size(i) < PgSectors => PgSectors % napot_size(i) = 0
<1> DEFINE k == napot_size(i)
           a == pmpaddr[i] + 1
           T == {p \in Powers : a % p = 0}
<1>0. PgSectors \in Nat \ {0} /\ a \in Nat
    BY PmpAssumption DEF PmpTypeOK
<1>1. CASE pmpcfg[i].A = "NA4"
    <2>1. k = 1
        BY <1>1 DEF napot_size
    <2> QED
        BY <1>0, <2>1
<1>2. CASE pmpcfg[i].A # "NA4"
    <2>1. 1 \in T
        BY <1>0, PowersAssumption
    <2>2. \E p \in T : \A q \in T : q <= p
        <3> HIDE DEF T
        <3>1. T \in SUBSET Powers /\ T # {}
            BY <2>1 DEF T
        <3> QED
            BY <3>1, GreatestPower
    <2>3. PICK p \in Powers : k = 2 * p
        BY <1>2, <2>2 DEF napot_size
    <2>4. p \in Nat \ {0} /\ ((2 * p) % PgSectors = 0 \/ PgSectors % (2 * p) = 0)
        BY PmpAssumption, PowersAssumption
    <2>5. k \in Nat \ {0} /\ (k % PgSectors = 0 \/ PgSectors % k = 0)
        BY <2>3, <2>4
    <2> HIDE DEF k
    <2>6. k = PgSectors => k % PgSectors = 0
        BY <1>0
    <2>7. k < PgSectors => k % PgSectors = k
        BY <1>0, <2>5
    <2>8. PgSectors < k => PgSectors % k = PgSectors
        BY <1>0, <2>5
    <2> QED
        BY <1>0, <2>5, <2>6, <2>7, <2>8 DEF k
<1> QED
    BY <1>1, <1>2

\* An entry that is not a part of a page matches all of it or nothing.
LEMMA WholePage ==
    ASSUME PmpTypeOK, NEW i \in Entries, NEW ppn \in Nat, ~ subset_match(i, ppn),
           NEW s \in Nat, NEW t \in Nat, Page(s) = ppn, Page(t) = ppn, match4(i, s)
    PROVE  match4(i, t)
<1> DEFINE P == PgSectors
           a == pmpaddr[i]
           b == tor_base(i)
           k == napot_size(i)
<1>1. /\ P \in Nat \ {0} /\ a \in Nat /\ b \in Nat /\ k \in Nat \ {0}
      /\ k >= P => k % P = 0
      /\ k < P => P % k = 0
    <2>1. i # 0 => i - 1 \in Entries
        BY PmpAssumption DEF Entries
    <2>2. a \in Nat /\ b \in Nat
        BY <2>1 DEF PmpTypeOK, tor_base
    <2> QED
        BY <2>2, SizeDivides, PmpAssumption
<1>2. /\ P * ppn \in Nat /\ P * ppn <= s /\ s < P * ppn + P /\ P * ppn <= t /\ t < P * ppn + P
    BY <1>1, Quotient, Times DEF Page
<1>3. CASE pmpcfg[i].A = "TOR"
    <2>1. b <= s /\ s < a
        BY <1>3 DEF match4
    <2>2. ppn < Page(b) \/ ppn * P >= a \/ (ppn * P >= b /\ ppn < Page(a))
        BY <1>3 DEF subset_match
    <2>3. Page(a) \in Nat /\ Page(b) \in Nat /\ P * Page(a) <= a /\ P * Page(b) <= b
        BY <1>1, Quotient DEF Page
    <2> DEFINE pa == Page(a)
               pb == Page(b)
    <2> HIDE DEF pa, pb, a, b
    <2>4. /\ ppn < pb => P * (ppn + 1) <= P * pb
          /\ ppn < pa => P * (ppn + 1) <= P * pa
          /\ P * (ppn + 1) = P * ppn + P /\ ppn * P = P * ppn
          /\ P * pa \in Nat /\ P * pb \in Nat
        <3>1. pa \in Nat /\ pb \in Nat /\ ppn + 1 \in Nat
            BY <2>3 DEF pa, pb
        <3>2. /\ ppn < pb => ppn + 1 <= pb
              /\ ppn < pa => ppn + 1 <= pa
            BY <3>1
        <3> QED
            BY <1>1, <3>1, <3>2, Times
    <2>5. b <= t /\ t < a
        BY <1>1, <1>2, <2>1, <2>2, <2>3, <2>4 DEF pa, pb
    <2> QED
        BY <1>3, <2>5 DEF match4, a, b
<1>4. CASE pmpcfg[i].A # "TOR"
    <2> DEFINE q == a \div k
    <2>1. s \div k = q /\ pmpcfg[i].A # "OFF"
        BY <1>4 DEF match4
    <2>2. k >= P \/ ppn # Page(a)
        BY <1>4, <2>1 DEF subset_match
    <2>3. /\ q \in Nat /\ k * q \in Nat /\ k * q <= s /\ s < k * q + k
          /\ k * q <= a /\ a < k * q + k
        BY <1>1, <2>1, Quotient, Times
    <2> HIDE DEF q, k, a
    <2>4. CASE k >= P
        <3>1. PICK m \in Nat : k = P * m
            BY <1>1, <2>4, Multiple
        <3> DEFINE lo == m * q
                   hi == m * q + m
        <3>2. lo \in Nat /\ hi \in Nat /\ k * q = P * lo /\ k * q + k = P * hi
            BY <1>1, <2>3, <3>1
        <3> HIDE DEF lo, hi
        <3>3. lo < ppn + 1 /\ ppn < hi
            <4>1. P * lo < P * (ppn + 1) /\ P * ppn < P * hi
                <5>1. P * (ppn + 1) = P * ppn + P /\ P * lo \in Nat /\ P * hi \in Nat
                    BY <1>1, <3>2, Times
                <5> QED
                    BY <1>1, <1>2, <2>3, <3>2, <5>1
            <4>2. ppn + 1 \in Nat
                OBVIOUS
            <4> QED
                BY <1>1, <3>2, <4>1, <4>2, Times
        <3>4. P * lo <= P * ppn /\ P * (ppn + 1) <= P * hi /\ P * (ppn + 1) = P * ppn + P
            <4>1. lo <= ppn /\ ppn + 1 <= hi /\ ppn + 1 \in Nat
                BY <3>2, <3>3
            <4> QED
                BY <1>1, <3>2, <4>1, Times
        <3>5. k * q <= t /\ t < k * q + k
            <4>1. P * lo \in Nat /\ P * hi \in Nat
                BY <1>1, <3>2, Times
            <4> QED
                BY <1>1, <1>2, <3>2, <3>4, <4>1
        <3>6. t \div k = q
            BY <1>1, <2>3, <3>5, Quotient
        <3> QED
            BY <1>4, <2>1, <3>6 DEF match4, q, k, a
    <2>5. CASE k < P
        <3>1. PICK m \in Nat : P = k * m
            BY <1>1, <2>5, Multiple
        <3> DEFINE lo == m * ppn
                   hi == m * ppn + m
        <3>2. lo \in Nat /\ hi \in Nat /\ P * ppn = k * lo /\ P * ppn + P = k * hi
            BY <1>1, <2>3, <3>1
        <3> HIDE DEF lo, hi
        <3>3. lo < q + 1 /\ q < hi
            <4>1. k * lo < k * (q + 1) /\ k * q < k * hi
                <5>1. k * (q + 1) = k * q + k /\ k * lo \in Nat /\ k * hi \in Nat
                    BY <1>1, <2>3, <3>2, Times
                <5> QED
                    BY <1>1, <1>2, <2>3, <3>2, <5>1
            <4>2. q + 1 \in Nat
                BY <2>3
            <4> QED
                BY <1>1, <2>3, <3>2, <4>1, <4>2, Times
        <3>4. k * lo <= k * q /\ k * (q + 1) <= k * hi /\ k * (q + 1) = k * q + k
            <4>1. lo <= q /\ q + 1 <= hi /\ q + 1 \in Nat
                BY <2>3, <3>2, <3>3
            <4> QED
                BY <1>1, <2>3, <3>2, <4>1, Times
        <3>5. P * ppn <= a /\ a < P * ppn + P
            <4>1. k * lo \in Nat /\ k * hi \in Nat
                BY <1>1, <3>2, Times
            <4> QED
                BY <1>1, <2>3, <3>2, <3>4, <4>1
        <3>6. a \div P = ppn
            BY <1>1, <3>5, Quotient
        <3> QED
            BY <2>2, <2>5, <3>6, <1>1 DEF Page
    <2> QED
        BY <1>1, <2>4, <2>5 DEF k
<1> QED
    BY <1>3, <1>4

\* A part of what is allowed is allowed.
LEMMA PmpOfPart ==
    ASSUME NEW S, NEW type, NEW mode, pmp_ok(S, type, mode), NEW s \in S
    PROVE  pmp_ok({s}, type, mode)
<1>1. CASE NPmp = 0
    BY <1>1 DEF pmp_ok
<1>2. CASE \E i \in Entries : /\ \E u \in S : match4(i, u)
                              /\ \A j \in Entries : (\E u \in S : match4(j, u)) => i <= j
                              /\ \A u \in S : match4(i, u)
                              /\ access_ok(pmpcfg[i], type, mode)
    BY <1>2 DEF pmp_ok
<1>3. CASE /\ \A i \in Entries : ~ \E u \in S : match4(i, u)
           /\ mode = "M" /\ ~mseccfg.mmwp /\ (mseccfg.mml => type # "fetch")
    BY <1>3 DEF pmp_ok
<1> QED
    BY <1>1, <1>2, <1>3 DEF pmp_ok

\* All sectors of a page that no entry splits are treated alike.
LEMMA PmpOfPage ==
    ASSUME PmpTypeOK, NEW ppn \in Nat, pmp_homogeneous(ppn), NEW type, NEW mode,
           NEW s \in Nat, NEW t \in Nat, Page(s) = ppn, Page(t) = ppn, pmp_ok({s}, type, mode)
    PROVE  pmp_ok({t}, type, mode)
<1>1. \A i \in Entries : match4(i, s) <=> match4(i, t)
    BY WholePage DEF pmp_homogeneous
<1> QED
    BY <1>1 DEF pmp_ok

-----------------------------------------------------------------------------
(* The inductive invariant of the caches                                   *)

Slots     == 0 .. TlbEntries - 1
TlbType   == [Types -> [Slots -> {None} \cup Entry]]
PageTable == [VPages -> PteType]

\* The registers, the page table and the caches are well formed; sn is what
\* the page table has held since the last flush.
MmuType ==
    /\ opt \in Options /\ PmpTypeOK /\ prv \in Modes /\ mstatus \in Statuses /\ log \in BOOLEAN
    /\ ptes \in PageTable /\ tlb \in TlbType
    /\ icache \in [Sectors -> {None} \cup Nat] /\ seen \in [VPages -> SUBSET PteType]
    /\ \A v \in VPages : ptes[v] \in seen[v] /\ IsFiniteSet(seen[v])

\* Some page table entry since the last flush maps vpn to ppn for an access of
\* this type now.
Legal(sn, type, vpn, ppn) ==
    LET mode == effective_priv(type)
    IN  IF Bare(mode) THEN ppn = vpn
        ELSE \E p \in sn[vpn] : Permits(p, type, mode) /\ Used(p, type) = p /\ p.ppn = ppn

\* The PMP allows the access everywhere in the page.
PageOk(type, ppn) ==
    \A o \in 0 .. PgSectors - 1 : pmp_ok({ppn * PgSectors + o}, type, effective_priv(type))

\* Sector s is the one that an access of address va may reach.
Good(sn, type, va, s) ==
    /\ s \in Nat /\ s % PgSectors = va % PgSectors
    /\ pmp_ok({s}, type, effective_priv(type)) /\ Legal(sn, type, Page(va), Page(s))

\* The same of a sector that the PMP was perhaps not asked about: asked is the
\* addresses that it was asked about.
Reached(sn, type, asked, va, s) ==
    /\ s \in Nat /\ s % PgSectors = va % PgSectors
    /\ va \in asked \/ pmp_homogeneous(Page(s)) => pmp_ok({s}, type, effective_priv(type))
    /\ Legal(sn, type, Page(va), Page(s))

\* The sectors reached are those of the addresses accessed, one for each.
Covers(sn, type, asked, vas, sectors) ==
    /\ \A va \in vas : \E s \in sectors : Reached(sn, type, asked, va, s)
    /\ \A s \in sectors : \E va \in vas : Reached(sn, type, asked, va, s)

\* What the TLB holds is what a walk would find now, for the whole page, and
\* its flags keep those from the fast path whose accesses someone watches.
EntryOk(sn, type, e) ==
    /\ Legal(sn, type, e.vpn, e.ppn) /\ PageOk(type, e.ppn)
    /\ trigger # None /\ trigger.type = type => "triggers" \in e.flags
    /\ "tracer" \in e.flags <=> Interested(type, SectorsOf(e.ppn))
    /\ ~log

TlbOk(sn, t) ==
    \A type \in Types, i \in Slots : t[type][i] # None => EntryOk(sn, type, t[type][i])

\* The same of a cached instruction, for its sector.
IcacheOk(sn, ic) ==
    \A va \in Sectors : ic[va] # None =>
        /\ Good(sn, "fetch", va, ic[va])
        /\ ~log /\ ~matched
        /\ Fires("fetch", [va |-> va]) => late
        /\ Interested("fetch", {ic[va]}) => mstatus.mprv \/ ~pmp_homogeneous(Page(ic[va]))

\* A trigger that waits for the next fetch finds nothing cached for it.
FetchEmpty == matched => \A i \in Slots : tlb["fetch"][i] = None

\* A reservation is that of the last lr, and nobody else stored since.
LrOk ==
    /\ lr = None \/ lr \in LrType
    /\ reservation # None => lr # None /\ ~lr.broken /\ lr.sector = reservation

\* The access just made was to the right sectors.
LastOk ==
    last # None /\ last.sectors # {} =>
        /\ VasOf(last) \subseteq Nat
        /\ Covers(seen, last.type, PmpVas(last), VasOf(last), last.sectors)

CachesOk == MmuType /\ TlbOk(seen, tlb) /\ IcacheOk(seen, icache) /\ FetchEmpty
Inv      == CachesOk /\ LrOk /\ LastOk /\ AccessObserved /\ ScAtomic

-----------------------------------------------------------------------------
(* Translation and the TLB                                                 *)

\* Setting the accessed and dirty bits changes nothing else.
LEMMA UsedFacts ==
    ASSUME NEW p \in PteType, NEW type \in Types
    PROVE  /\ Used(p, type) \in PteType /\ Used(p, type).ppn = p.ppn
           /\ Used(Used(p, type), type) = Used(p, type)
           /\ \A mode : Permits(p, type, mode) => Permits(Used(p, type), type, mode)
<1> DEFINE dirty == p.d \/ type = "store"
           u == Used(p, type)
<1>0. dirty \in BOOLEAN /\ (dirty \/ type = "store") = dirty
    OBVIOUS
<1>1. u = [p EXCEPT !.a = TRUE, !.d = dirty]
    BY DEF Used
<1> HIDE DEF dirty, u
<1>2. u \in PteType /\ u.ppn = p.ppn
    BY <1>0, <1>1 DEF PteType
<1>3. u.a = TRUE /\ u.d = dirty
    BY <1>1 DEF PteType
<1>4. (u.d \/ type = "store") = u.d
    BY <1>0, <1>3
<1>5. Used(u, type) = u
    <2>1. Used(u, type) = [u EXCEPT !.a = TRUE, !.d = u.d]
        BY <1>4 DEF Used
    <2> QED
        BY <1>2, <1>3, <2>1 DEF PteType
<1>6. \A mode : Permits(p, type, mode) => Permits(u, type, mode)
    <2>1. u.u = p.u /\ u.v = p.v /\ u.r = p.r /\ u.w = p.w /\ u.x = p.x
        BY <1>1 DEF PteType
    <2> QED
        BY <2>1 DEF Permits
<1> QED
    BY <1>2, <1>5, <1>6 DEF u

\* A walk that succeeds finds what the page table allows.
LEMMA WalkLegal ==
    ASSUME NEW pt \in PageTable, NEW type \in Types, NEW vpn \in VPages,
           NEW w, w = walk(pt, type, vpn, effective_priv(type))
    PROVE  /\ w.pt \in PageTable /\ w.ppn \in Nat
           /\ \A v \in VPages : v # vpn => w.pt[v] = pt[v]
           /\ w.pt[vpn] \in {pt[vpn], Used(pt[vpn], type)}
           /\ w = [ok |-> w.ok, ppn |-> w.ppn, pt |-> w.pt]
           /\ ~Bare(effective_priv(type)) => w.ppn = pt[vpn].ppn
           /\ w.ok => /\ Bare(effective_priv(type)) => w.ppn = vpn
                      /\ ~Bare(effective_priv(type)) =>
                            Permits(w.pt[vpn], type, effective_priv(type))
                            /\ Used(w.pt[vpn], type) = w.pt[vpn] /\ w.pt[vpn].ppn = w.ppn
<1> DEFINE mode == effective_priv(type)
           p == pt[vpn]
<1>0. p \in PteType /\ p.ppn \in Nat /\ vpn \in Nat
    BY PmpAssumption DEF PageTable, PteType, VPages, Pages
<1>1. CASE Bare(mode)
    <2>1. w = [ok |-> TRUE, ppn |-> vpn, pt |-> pt]
        BY <1>1 DEF walk
    <2> QED
        BY <1>0, <1>1, <2>1
<1>2. CASE ~Bare(mode) /\ WalkOk(p, type, mode)
    <2>1. w = [ok |-> TRUE, ppn |-> p.ppn, pt |-> [pt EXCEPT ![vpn] = Used(p, type)]]
        BY <1>2 DEF walk
    <2>2. Permits(p, type, mode)
        BY <1>2 DEF WalkOk
    <2>3. /\ Used(p, type) \in PteType /\ Used(p, type).ppn = p.ppn
          /\ Used(Used(p, type), type) = Used(p, type)
          /\ Permits(Used(p, type), type, mode)
        BY <1>0, <2>2, UsedFacts
    <2>4. w.pt \in PageTable /\ w.pt[vpn] = Used(p, type) /\ \A v \in VPages : v # vpn => w.pt[v] = pt[v]
        BY <2>1, <2>3 DEF PageTable
    <2> HIDE DEF p
    <2> QED
        BY <1>0, <1>2, <2>1, <2>3, <2>4 DEF p
<1>3. CASE ~Bare(mode) /\ ~WalkOk(p, type, mode)
    <2>1. w = [ok |-> FALSE, ppn |-> p.ppn, pt |-> pt]
        BY <1>3 DEF walk
    <2> QED
        BY <1>0, <1>3, <2>1
<1> QED
    BY <1>1, <1>2, <1>3

\* So does the translation, which asks the PMP too.
LEMMA TranslateLegal ==
    ASSUME NEW pt \in PageTable, NEW type \in Types, NEW vpn \in VPages, NEW vas,
           NEW x, x = translate(pt, type, vas, vpn), NEW sn
    PROVE  /\ x.pt \in PageTable /\ x.ppn \in Nat /\ x.ok \in BOOLEAN
           /\ \A v \in VPages : v # vpn => x.pt[v] = pt[v]
           /\ x.pt[vpn] \in {pt[vpn], Used(pt[vpn], type)}
           /\ ~Bare(effective_priv(type)) => x.ppn = pt[vpn].ppn
           /\ x.ok => /\ pmp_ok(SectorsAt(x.ppn, vas), type, effective_priv(type))
                      /\ Bare(effective_priv(type)) => x.ppn = vpn
                      /\ x.pt[vpn] \in sn[vpn] => Legal(sn, type, vpn, x.ppn)
<1> DEFINE mode == effective_priv(type)
           w == walk(pt, type, vpn, mode)
<1>1. /\ w.pt \in PageTable /\ w.ppn \in Nat
      /\ \A v \in VPages : v # vpn => w.pt[v] = pt[v]
      /\ w.pt[vpn] \in {pt[vpn], Used(pt[vpn], type)}
      /\ w = [ok |-> w.ok, ppn |-> w.ppn, pt |-> w.pt]
      /\ ~Bare(mode) => w.ppn = pt[vpn].ppn
      /\ w.ok => /\ Bare(mode) => w.ppn = vpn
                 /\ ~Bare(mode) => Permits(w.pt[vpn], type, mode)
                                   /\ Used(w.pt[vpn], type) = w.pt[vpn] /\ w.pt[vpn].ppn = w.ppn
    BY WalkLegal
<1>2. x = [w EXCEPT !.ok = @ /\ pmp_ok(SectorsAt(w.ppn, vas), type, mode)]
    BY DEF translate, Checked
<1> HIDE DEF w
<1>3. x.pt = w.pt /\ x.ppn = w.ppn /\ x.ok = (w.ok /\ pmp_ok(SectorsAt(w.ppn, vas), type, mode))
    BY <1>1, <1>2
<1>4. x.ok => w.ok /\ pmp_ok(SectorsAt(w.ppn, vas), type, mode)
    BY <1>3
<1>5. x.ok \in BOOLEAN
    BY <1>3
<1>6. ASSUME x.ok, x.pt[vpn] \in sn[vpn] PROVE Legal(sn, type, vpn, x.ppn)
    BY <1>1, <1>3, <1>4, <1>6 DEF Legal
<1> QED
    BY <1>1, <1>3, <1>4, <1>5, <1>6

\* More page table entries seen do no harm.
LEMMA TlbMono ==
    ASSUME NEW s1, NEW s2, \A v \in VPages : s1[v] \subseteq s2[v],
           NEW t \in TlbType, TlbOk(s1, t)
    PROVE  TlbOk(s2, t)
<1> SUFFICES ASSUME NEW type \in Types, NEW i \in Slots, t[type][i] # None
             PROVE  EntryOk(s2, type, t[type][i])
    BY DEF TlbOk
<1>1. EntryOk(s1, type, t[type][i]) /\ t[type][i].vpn \in VPages
    BY DEF TlbOk, TlbType, Entry
<1> QED
    BY <1>1 DEF EntryOk, Legal

\* What the sectors of an access are.
LEMMA SectorsAtFacts ==
    ASSUME NEW ppn \in Nat, NEW vas \in SUBSET Nat
    PROVE  \A va \in vas : LET s == ppn * PgSectors + (va % PgSectors)
                           IN  /\ s \in SectorsAt(ppn, vas) /\ s \in Nat /\ Page(s) = ppn
                               /\ s % PgSectors = va % PgSectors
<1> SUFFICES ASSUME NEW va \in vas
             PROVE  LET s == ppn * PgSectors + (va % PgSectors)
                    IN  /\ s \in SectorsAt(ppn, vas) /\ s \in Nat /\ Page(s) = ppn
                        /\ s % PgSectors = va % PgSectors
    OBVIOUS
<1>1. va % PgSectors \in 0 .. PgSectors - 1
    BY SectorSplit
<1> QED
    BY <1>1, PageAndPlace DEF SectorsAt

\* A page enters the TLB only if the PMP treats all of it alike.
LEMMA PageAllowed ==
    ASSUME PmpTypeOK, NEW ppn \in Nat, pmp_homogeneous(ppn), NEW type, NEW va \in Nat,
           pmp_ok({ppn * PgSectors + (va % PgSectors)}, type, effective_priv(type))
    PROVE  PageOk(type, ppn)
<1> SUFFICES ASSUME NEW o \in 0 .. PgSectors - 1
             PROVE  pmp_ok({ppn * PgSectors + o}, type, effective_priv(type))
    BY DEF PageOk
<1> DEFINE s == ppn * PgSectors + (va % PgSectors)
           t == ppn * PgSectors + o
<1>1. va % PgSectors \in 0 .. PgSectors - 1
    BY SectorSplit
<1>2. s \in Nat /\ Page(s) = ppn /\ t \in Nat /\ Page(t) = ppn
    BY <1>1, PageAndPlace
<1> HIDE DEF s, t
<1>3. pmp_ok({s}, type, effective_priv(type))
    BY DEF s
<1>4. pmp_ok({t}, type, effective_priv(type))
    BY <1>2, <1>3, PmpOfPage
<1> QED
    BY <1>4 DEF t

\* The PMP allows the access somewhere in the page.
SomeAllowed(type, ppn) ==
    \E va \in Nat : pmp_ok({ppn * PgSectors + (va % PgSectors)}, type, effective_priv(type))

\* refill_tlb keeps the TLB right, and touches only the TLB of its type.
LEMMA RefillOk ==
    ASSUME PmpTypeOK, NEW t \in TlbType, NEW type \in Types, NEW vpn \in VPages,
           NEW ppn \in Nat, NEW sn
    PROVE  LET u == refill_tlb(t, type, vpn, ppn)
           IN  /\ u \in TlbType
               /\ \A ty \in Types : ty # type => u[ty] = t[ty]
               /\ ~(mstatus.mprv \/ ~pmp_homogeneous(ppn) \/ log) =>
                     /\ Hit(u, type, vpn, Flags)
                     /\ "tracer" \in u[type][Index(vpn)].flags
                           <=> Interested(type, SectorsOf(ppn))
               /\ TlbOk(sn, t) /\ Legal(sn, type, vpn, ppn) /\ SomeAllowed(type, ppn)
                     => TlbOk(sn, u)
<1> DEFINE u == refill_tlb(t, type, vpn, ppn)
           fl == {f \in Flags : CASE f = "triggers" -> trigger # None /\ trigger.type = type
                                  [] f = "tracer"   -> Interested(type, SectorsOf(ppn))
                                  [] f = "mmio"     -> ppn \notin Ram}
           e == [vpn |-> vpn, ppn |-> ppn, flags |-> fl]
           k == Index(vpn)
           out == mstatus.mprv \/ ~pmp_homogeneous(ppn) \/ log
<1>1. k \in Slots
    BY PmpAssumption, MmuAssumption DEF Index, Slots, VPages, Pages
<1>2. /\ fl \subseteq Flags
      /\ trigger # None /\ trigger.type = type => "triggers" \in fl
      /\ "tracer" \in fl <=> Interested(type, SectorsOf(ppn))
    BY DEF Flags
<1>3. u = IF out THEN t ELSE [t EXCEPT ![type][k] = e]
    BY DEF refill_tlb
<1> HIDE DEF fl
<1>4. e \in Entry /\ e # None /\ e.vpn = vpn /\ e.ppn = ppn /\ e.flags = fl
    BY <1>2, MmuAssumption DEF Entry
<1> HIDE DEF u, e, k
<1>5. CASE out
    BY <1>3, <1>5 DEF u
<1>6. CASE ~out
    <2>1. u = [t EXCEPT ![type][k] = e]
        BY <1>3, <1>6
    <2>2. /\ u \in TlbType /\ u[type][k] = e
          /\ \A ty \in Types : ty # type => u[ty] = t[ty]
          /\ \A i \in Slots : i # k => u[type][i] = t[type][i]
        BY <1>1, <1>4, <2>1 DEF TlbType
    <2>3. Hit(u, type, vpn, Flags) /\ ("tracer" \in u[type][k].flags <=> Interested(type, SectorsOf(ppn)))
        BY <1>2, <1>4, <2>2 DEF Hit, k
    <2>4. ASSUME TlbOk(sn, t), Legal(sn, type, vpn, ppn), SomeAllowed(type, ppn)
          PROVE  TlbOk(sn, u)
        <3>0. PageOk(type, ppn)
            BY <1>6, <2>4, PageAllowed DEF SomeAllowed
        <3>1. EntryOk(sn, type, e)
            BY <1>2, <1>4, <1>6, <2>4, <3>0 DEF EntryOk
        <3> SUFFICES ASSUME NEW ty \in Types, NEW i \in Slots, u[ty][i] # None
                     PROVE  EntryOk(sn, ty, u[ty][i])
            BY DEF TlbOk
        <3>2. CASE ty = type /\ i = k
            BY <2>2, <3>1, <3>2
        <3>3. CASE ~(ty = type /\ i = k)
            <4>1. u[ty][i] = t[ty][i]
                BY <2>2, <3>3
            <4> QED
                BY <2>4, <4>1 DEF TlbOk
        <3> QED
            BY <3>2, <3>3
    <2> QED
        BY <2>2, <2>3, <2>4 DEF u, k
<1> QED
    BY <1>5, <1>6

\* The part of an access on one page: the right sectors of page ppn.
OnPage(sn, type, asked, vas, ppn) ==
    ppn \in Nat /\ \A va \in vas : Reached(sn, type, asked, va, ppn * PgSectors + (va % PgSectors))

\* The state of an access between its parts.
Mid == [tlb : TlbType, pt : PageTable, ok : BOOLEAN, sectors : SUBSET Nat]

\* What the PMP and the page table allow is right.
LEMMA OnPageOf ==
    ASSUME NEW sn, NEW type, NEW vpn, NEW ppn \in Nat,
           NEW vas \in SUBSET SectorsOf(vpn), NEW asked,
           Legal(sn, type, vpn, ppn),
           \A va \in vas : va \in asked \/ pmp_homogeneous(ppn) =>
               pmp_ok({ppn * PgSectors + (va % PgSectors)}, type, effective_priv(type))
    PROVE  OnPage(sn, type, asked, vas, ppn)
<1>1. vas \in SUBSET Nat /\ \A va \in vas : Page(va) = vpn
    BY DEF SectorsOf, Sectors
<1> QED
    BY <1>1, SectorsAtFacts DEF OnPage, Reached

\* A hit of the TLB is to a page the access may reach.
LEMMA HitGood ==
    ASSUME NEW sn, NEW t \in TlbType, TlbOk(sn, t), NEW type \in Types, NEW vpn \in VPages,
           NEW allowed, Hit(t, type, vpn, allowed)
    PROVE  LET e == t[type][Index(vpn)]
           IN  /\ EntryOk(sn, type, e) /\ e.ppn \in Nat /\ e.flags \subseteq Flags
               /\ \A asked : \A vas \in SUBSET SectorsOf(vpn) :
                     OnPage(sn, type, asked, vas, e.ppn)
<1> DEFINE e == t[type][Index(vpn)]
<1>1. Index(vpn) \in Slots
    BY PmpAssumption, MmuAssumption DEF Index, Slots, VPages, Pages
<1>2. e # None /\ e.vpn = vpn
    BY DEF Hit
<1>3. e \in Entry /\ EntryOk(sn, type, e)
    BY <1>1, <1>2 DEF TlbType, TlbOk
<1>4. e.ppn \in Nat /\ e.flags \subseteq Flags
    BY <1>3 DEF Entry
<1> HIDE DEF e
<1>5. ASSUME NEW asked, NEW vas \in SUBSET SectorsOf(vpn)
      PROVE  OnPage(sn, type, asked, vas, e.ppn)
    <2>1. \A va \in vas : va \in Nat /\ va % PgSectors \in 0 .. PgSectors - 1
        BY SectorSplit DEF SectorsOf, Sectors
    <2>2. \A va \in vas : pmp_ok({e.ppn * PgSectors + (va % PgSectors)}, type, effective_priv(type))
        BY <1>3, <2>1 DEF EntryOk, PageOk
    <2>3. Legal(sn, type, vpn, e.ppn)
        BY <1>2, <1>3 DEF EntryOk
    <2> QED
        BY <1>4, <2>2, <2>3, OnPageOf
<1> QED
    BY <1>3, <1>4, <1>5 DEF e

\* What the part of an access on page vpn may do to the state of the access: it
\* keeps the TLB right and finds the right sectors.
PartDone(m, x, type, asked, vas, vpn) ==
    /\ x \in Mid
    /\ \A v \in VPages : v # vpn => x.pt[v] = m.pt[v]
    /\ x.pt[vpn] \in {m.pt[vpn], Used(m.pt[vpn], type)}
    /\ \A ty \in Types : ty # type => x.tlb[ty] = m.tlb[ty]
    /\ \A sn : TlbOk(sn, m.tlb) /\ x.pt[vpn] \in sn[vpn] =>
          /\ TlbOk(sn, x.tlb)
          /\ x.ok /\ m.ok => \E ppn \in Nat :
                 /\ x.sectors = m.sectors \cup SectorsAt(ppn, vas)
                 /\ OnPage(sn, type, asked, vas, ppn)

\* intrapage does that.
LEMMA IntrapageOk ==
    ASSUME PmpTypeOK, NEW m \in Mid, NEW type \in Types, NEW vpn \in VPages,
           NEW vas \in SUBSET SectorsOf(vpn), NEW asked \in SUBSET vas, asked # {},
           NEW special, NEW x, x = intrapage(m, type, vas, asked, vpn, special)
    PROVE  PartDone(m, x, type, asked, vas, vpn)
<1> SUFFICES
      /\ x \in Mid
      /\ \A v \in VPages : v # vpn => x.pt[v] = m.pt[v]
      /\ x.pt[vpn] \in {m.pt[vpn], Used(m.pt[vpn], type)}
      /\ \A ty \in Types : ty # type => x.tlb[ty] = m.tlb[ty]
      /\ \A sn : TlbOk(sn, m.tlb) /\ x.pt[vpn] \in sn[vpn] =>
            /\ TlbOk(sn, x.tlb)
            /\ x.ok /\ m.ok => \E ppn \in Nat :
                   /\ x.sectors = m.sectors \cup SectorsAt(ppn, vas)
                   /\ OnPage(sn, type, asked, vas, ppn)
    BY DEF PartDone
<1>1. /\ m.tlb \in TlbType /\ m.pt \in PageTable /\ m.ok \in BOOLEAN /\ m.sectors \in SUBSET Nat
      /\ m = [tlb |-> m.tlb, pt |-> m.pt, ok |-> m.ok, sectors |-> m.sectors]
    BY DEF Mid
<1>2. vas \in SUBSET Nat
    BY DEF SectorsOf, Sectors
<1>3. \A ppn \in Nat : SectorsAt(ppn, vas) \in SUBSET Nat
    <2> SUFFICES ASSUME NEW ppn \in Nat, NEW va \in vas PROVE ppn * PgSectors + (va % PgSectors) \in Nat
        BY DEF SectorsAt
    <2> QED
        BY <1>2, SectorsAtFacts
<1>4. CASE Hit(m.tlb, type, vpn, Flags) /\ ~special
    <2> DEFINE ppn == m.tlb[type][Index(vpn)].ppn
    <2>1. x = [m EXCEPT !.sectors = @ \cup SectorsAt(ppn, vas)]
        BY <1>4 DEF intrapage
    <2>2. ppn \in Nat
        <3>1. Index(vpn) \in Slots
            BY PmpAssumption, MmuAssumption DEF Index, Slots, VPages, Pages
        <3> QED
            BY <1>1, <1>4, <3>1 DEF Hit, TlbType, Entry
    <2> HIDE DEF ppn
    <2>3. x.tlb = m.tlb /\ x.pt = m.pt /\ x.ok = m.ok /\ x.sectors = m.sectors \cup SectorsAt(ppn, vas)
          /\ x = [tlb |-> x.tlb, pt |-> x.pt, ok |-> x.ok, sectors |-> x.sectors]
        BY <1>1, <2>1
    <2>4. ASSUME NEW sn, TlbOk(sn, m.tlb) PROVE OnPage(sn, type, asked, vas, ppn)
        BY <1>1, <1>4, <2>4, HitGood DEF ppn
    <2>5. x \in Mid
        BY <1>1, <1>3, <2>2, <2>3 DEF Mid
    <2> QED
        BY <1>1, <1>3, <2>2, <2>3, <2>4, <2>5
<1>5. CASE ~(Hit(m.tlb, type, vpn, Flags) /\ ~special)
    <2> DEFINE y == translate(m.pt, type, asked, vpn)
               u == refill_tlb(m.tlb, type, vpn, y.ppn)
    <2>1. x = [tlb |-> IF special \/ ~y.ok THEN m.tlb ELSE u,
               pt |-> y.pt, ok |-> y.ok, sectors |-> m.sectors \cup SectorsAt(y.ppn, vas)]
        BY <1>5 DEF intrapage, Walked
    <2>2. /\ y.pt \in PageTable /\ y.ppn \in Nat /\ y.ok \in BOOLEAN
          /\ \A v \in VPages : v # vpn => y.pt[v] = m.pt[v]
          /\ y.pt[vpn] \in {m.pt[vpn], Used(m.pt[vpn], type)}
          /\ y.ok => /\ pmp_ok(SectorsAt(y.ppn, asked), type, effective_priv(type))
                     /\ \A sn : y.pt[vpn] \in sn[vpn] => Legal(sn, type, vpn, y.ppn)
        BY <1>1, TranslateLegal
    <2>3. /\ u \in TlbType
          /\ \A ty \in Types : ty # type => u[ty] = m.tlb[ty]
          /\ \A sn : TlbOk(sn, m.tlb) /\ Legal(sn, type, vpn, y.ppn) /\ SomeAllowed(type, y.ppn)
                       => TlbOk(sn, u)
        BY <1>1, <2>2, RefillOk
    <2> HIDE DEF y, u
    <2>4. /\ x.tlb = (IF special \/ ~y.ok THEN m.tlb ELSE u) /\ x.pt = y.pt /\ x.ok = y.ok
          /\ x.sectors = m.sectors \cup SectorsAt(y.ppn, vas)
          /\ x = [tlb |-> x.tlb, pt |-> x.pt, ok |-> x.ok, sectors |-> x.sectors]
        BY <2>1
    <2>5. ASSUME y.ok PROVE \A va \in asked : pmp_ok({y.ppn * PgSectors + (va % PgSectors)},
                                                     type, effective_priv(type))
        <3> SUFFICES ASSUME NEW va \in asked
                     PROVE  pmp_ok({y.ppn * PgSectors + (va % PgSectors)}, type, effective_priv(type))
            OBVIOUS
        <3> DEFINE s == y.ppn * PgSectors + (va % PgSectors)
                   mode == effective_priv(type)
        <3>1. s \in SectorsAt(y.ppn, asked)
            BY DEF SectorsAt
        <3> HIDE DEF s, mode
        <3>2. pmp_ok(SectorsAt(y.ppn, asked), type, mode)
            BY <2>2, <2>5 DEF mode
        <3>3. pmp_ok({s}, type, mode)
            BY <3>1, <3>2, PmpOfPart
        <3> QED
            BY <3>3 DEF s, mode
    <2>6. ASSUME NEW sn, TlbOk(sn, m.tlb), x.pt[vpn] \in sn[vpn] PROVE TlbOk(sn, x.tlb)
        <3>1. CASE special \/ ~y.ok
            BY <2>4, <2>6, <3>1
        <3>2. CASE ~special /\ y.ok
            <4>1. x.tlb = u /\ Legal(sn, type, vpn, y.ppn)
                BY <2>2, <2>4, <2>6, <3>2
            <4>2. SomeAllowed(type, y.ppn)
                BY <1>2, <2>5, <3>2 DEF SomeAllowed
            <4> QED
                BY <2>3, <2>6, <4>1, <4>2
        <3> QED
            BY <3>1, <3>2
    <2>7. ASSUME NEW sn, x.ok, x.pt[vpn] \in sn[vpn] PROVE OnPage(sn, type, asked, vas, y.ppn)
        <3>1. y.ok /\ Legal(sn, type, vpn, y.ppn)
            BY <2>2, <2>4, <2>7
        <3>2. ASSUME pmp_homogeneous(y.ppn) PROVE PageOk(type, y.ppn)
            <4>1. PICK va \in asked : va \in Nat
                BY <1>2
            <4> QED
                BY <2>2, <2>5, <3>1, <3>2, <4>1, PageAllowed
        <3>3. ASSUME NEW va \in vas, va \in asked \/ pmp_homogeneous(y.ppn)
              PROVE  pmp_ok({y.ppn * PgSectors + (va % PgSectors)}, type, effective_priv(type))
            <4>1. va % PgSectors \in 0 .. PgSectors - 1
                BY <1>2, SectorSplit
            <4> QED
                BY <2>5, <3>1, <3>2, <3>3, <4>1 DEF PageOk
        <3> QED
            BY <2>2, <3>1, <3>3, OnPageOf
    <2>8. x.tlb \in TlbType /\ \A ty \in Types : ty # type => x.tlb[ty] = m.tlb[ty]
        BY <1>1, <2>3, <2>4
    <2>9. x \in Mid
        BY <1>1, <1>3, <2>2, <2>4, <2>8 DEF Mid
    <2> QED
        BY <1>1, <1>3, <2>2, <2>4, <2>6, <2>7, <2>8, <2>9
<1> QED
    BY <1>4, <1>5

-----------------------------------------------------------------------------
(* Loads and stores                                                        *)

\* Where an access lies: on one page, or on two if it is not aligned.
LEMMA PagesOf ==
    ASSUME NEW a \in Accesses
    PROVE  /\ VasOf(a) \subseteq Sectors /\ a.va \in PmpVas(a) /\ PmpVas(a) \subseteq VasOf(a)
           /\ a.va + a.len - 1 + a.off \in VasOf(a)
           /\ Page(a.va) \in VPages
           /\ OnePage(a) => \A va \in VasOf(a) : Page(va) = Page(a.va)
           /\ ~OnePage(a) => /\ Page(a.va) + 1 \in VPages /\ Page(a.va) + 1 # Page(a.va)
                             /\ Page(a.va + a.len - 1 + a.off) = Page(a.va) + 1
                             /\ PmpVas(a) = VasOf(a)
                             /\ \A va \in VasOf(a) : Page(va) \in {Page(a.va), Page(a.va) + 1}
           /\ Aligned(a) => OnePage(a)
<1> DEFINE P == PgSectors
           f == a.va
           l == a.len
           o == a.off
           z == a.va + a.len - 1 + a.off
           N == NPages * P
<1>1. /\ P \in Nat \ {0} /\ NPages \in Nat \ {0} /\ f \in 0 .. N - 1 /\ l \in 1 .. P
      /\ z \in 0 .. N - 1 /\ P % l = 0 /\ o \in 0 .. 1
    BY PmpAssumption DEF Accesses, Sectors
<1>2. N \in Nat /\ N = P * NPages
    BY <1>1
<1> HIDE DEF f, l, o, N
<1>3. z = f + l - 1 + o /\ f <= z /\ z <= f + P
    BY <1>1 DEF f, l, o
<1> HIDE DEF z
<1>4. /\ VasOf(a) = f .. z /\ VasOf(a) \subseteq Sectors /\ f \in VasOf(a) /\ z \in VasOf(a)
    BY <1>1, <1>2, <1>3 DEF VasOf, Sectors, f, l, o, z, N
<1> DEFINE p(va) == va \div P
<1>5. ASSUME NEW va \in 0 .. N - 1
      PROVE  p(va) \in Nat /\ P * p(va) <= va /\ va < P * p(va) + P /\ p(va) < NPages
    <2>1. p(va) \in Nat /\ P * p(va) <= va /\ va < P * p(va) + P /\ P * p(va) \in Nat
        BY <1>1, <1>2, Quotient, Times
    <2> HIDE DEF p
    <2>2. P * p(va) < P * NPages
        BY <1>1, <1>2, <2>1
    <2>3. p(va) < NPages
        BY <1>1, <2>1, <2>2, Times
    <2> QED
        BY <2>1, <2>3
<1>6. ASSUME NEW x \in 0 .. N - 1, NEW y \in 0 .. N - 1, x <= y, y <= x + P
      PROVE  p(y) \in {p(x), p(x) + 1} /\ P * p(x) + P = P * (p(x) + 1)
    <2>1. /\ p(x) \in Nat /\ p(y) \in Nat /\ P * p(x) <= x /\ P * p(y) <= y
          /\ x < P * p(x) + P /\ y < P * p(y) + P
        BY <1>5
    <2> DEFINE i == p(x)
               j == p(y)
    <2>2. /\ P * i \in Nat /\ P * j \in Nat /\ P * (j + 1) = P * j + P
          /\ P * (i + 2) = P * i + P * 2 /\ P * (i + 1) = P * i + P
        BY <1>1, <2>1, Times
    <2> HIDE DEF i, j, p
    <2>3. P * i < P * (j + 1) /\ P * j < P * (i + 2)
        BY <1>1, <1>2, <1>6, <2>1, <2>2 DEF i, j
    <2>4. i < j + 1 /\ j < i + 2
        <3>1. i \in Nat /\ j \in Nat /\ j + 1 \in Nat /\ i + 2 \in Nat
            BY <2>1 DEF i, j
        <3> QED
            BY <1>1, <2>3, <3>1, Times
    <2>5. j \in {i, i + 1}
        BY <2>1, <2>4 DEF i, j
    <2> QED
        BY <2>2, <2>5 DEF i, j
<1>7. \A va \in VasOf(a) : /\ va \in 0 .. N - 1 /\ p(va) \in {p(f), p(f) + 1}
                           /\ p(z) \in {p(va), p(va) + 1}
    <2> SUFFICES ASSUME NEW va \in VasOf(a)
                 PROVE  /\ va \in 0 .. N - 1 /\ p(va) \in {p(f), p(f) + 1}
                        /\ p(z) \in {p(va), p(va) + 1}
        OBVIOUS
    <2>1. va \in 0 .. N - 1 /\ f <= va /\ va <= z /\ va <= f + P /\ z <= va + P
        BY <1>1, <1>2, <1>3, <1>4
    <2> QED
        BY <1>1, <1>6, <2>1
<1>8. ASSUME Aligned(a) PROVE p(z) = p(f)
    <2>1. f % l = 0 /\ l \in Nat \ {0} /\ f \in Nat /\ o = 0
        BY <1>1, <1>2, <1>8 DEF Aligned, f, l, o
    <2>2. PICK m \in Nat : f = l * m
        BY <2>1, Multiple
    <2>3. PICK n \in Nat : P = l * n
        BY <1>1, <2>1, Multiple
    <2> DEFINE q == p(f)
    <2>4. q \in Nat /\ P * q <= f /\ f < P * q + P /\ P * q \in Nat
        BY <1>1, <1>5, Times
    <2> HIDE DEF q, p
    <2> DEFINE h == n * q + n
    <2>5. h \in Nat /\ P * q + P = l * h
        BY <1>1, <2>1, <2>3, <2>4
    <2> HIDE DEF h
    <2>6. m < h
        BY <2>1, <2>2, <2>4, <2>5, Times
    <2>7. l * (m + 1) <= l * h /\ l * (m + 1) = f + l
        <3>1. m + 1 \in Nat /\ m + 1 <= h
            BY <2>5, <2>6
        <3>2. l * (m + 1) <= l * h
            BY <2>1, <2>5, <3>1, Times
        <3> QED
            BY <2>1, <2>2, <3>2
    <2>8. P * q <= z /\ z < P * q + P
        BY <1>1, <1>2, <1>3, <2>1, <2>4, <2>5, <2>7
    <2>9. z \div P = q
        BY <1>1, <1>2, <2>4, <2>8, Quotient
    <2> QED
        BY <2>9 DEF q, p
<1>9. p(f) \in VPages /\ p(z) \in VPages /\ p(f) \in Nat /\ p(f) + 1 # p(f)
    <2>1. p(f) \in Nat /\ p(f) < NPages /\ p(z) \in Nat /\ p(z) < NPages
        BY <1>1, <1>5
    <2> HIDE DEF p
    <2> QED
        BY <1>1, <2>1 DEF VPages, Pages
<1>10. p(z) \in {p(f), p(f) + 1}
    BY <1>4, <1>7
<1>11. OnePage(a) <=> p(z) = p(f)
    BY DEF OnePage, Page, z, f
<1>12. ASSUME p(z) = p(f), NEW va \in VasOf(a) PROVE p(va) = p(f)
    <2>1. p(va) \in {p(f), p(f) + 1} /\ p(z) \in {p(va), p(va) + 1}
        BY <1>7
    <2>2. p(va) \in Nat /\ p(f) \in Nat
        BY <1>5, <1>7, <1>9
    <2> HIDE DEF p
    <2> QED
        BY <1>12, <2>1, <2>2
<1>13. /\ f \in PmpVas(a) /\ PmpVas(a) \subseteq VasOf(a)
       /\ ~OnePage(a) => PmpVas(a) = VasOf(a)
    <2>1. PmpVas(a) = f .. f + l - 1 + (IF OnePage(a) THEN 0 ELSE o) /\ VasOf(a) = f .. z
        BY <1>4 DEF PmpVas, f, l, o
    <2> QED
        BY <1>1, <1>3, <2>1
<1> QED
    BY <1>4, <1>7, <1>8, <1>9, <1>10, <1>11, <1>12, <1>13 DEF Page, f, z

\* Another page is covered too.
LEMMA CoversMore ==
    ASSUME NEW sn, NEW type, NEW asked, NEW vas, NEW ss, Covers(sn, type, asked, vas, ss),
           NEW more, NEW ppn, OnPage(sn, type, asked, more, ppn)
    PROVE  Covers(sn, type, asked, vas \cup more, ss \cup SectorsAt(ppn, more))
BY DEF Covers, OnPage, SectorsAt

\* The addresses of an access on one page, and the ones the PMP is asked about.
PartOf(a, page)  == {va \in VasOf(a) : Page(va) = page}
AskedOf(a, page) == {va \in PmpVas(a) : Page(va) = page}

\* One part of an access.
LEMMA PartOk ==
    ASSUME PmpTypeOK, NEW m \in Mid, NEW type \in Types, NEW a \in Accesses,
           NEW page \in VPages, AskedOf(a, page) # {}, NEW special, NEW served, NEW sn,
           NEW x, x = Part(m, type, a, page, special, served)
    PROVE  /\ x \in Mid
           /\ \A v \in VPages : v # page => x.pt[v] = m.pt[v]
           /\ \A ty \in Types : ty # type => x.tlb[ty] = m.tlb[ty]
           /\ TlbOk(sn, m.tlb) /\ x.pt[page] \in sn[page] =>
                 /\ TlbOk(sn, x.tlb)
                 /\ x.ok => /\ m.ok
                            /\ \A vas : Covers(sn, type, PmpVas(a), vas, m.sectors) =>
                                  Covers(sn, type, PmpVas(a), vas \cup PartOf(a, page), x.sectors)
<1>1. CASE ~m.ok
    BY <1>1 DEF Part, Mid
<1>2. CASE m.ok
    <2> DEFINE vas == PartOf(a, page)
               asked == AskedOf(a, page)
               y == intrapage(m, type, vas, asked, page, special)
               good == Reservable(y.sectors) \/ (served /\ ~special)
    <2>1. vas \in SUBSET SectorsOf(page) /\ asked \in SUBSET vas /\ asked # {}
        BY PagesOf DEF PartOf, AskedOf, SectorsOf
    <2>2. /\ y \in Mid
          /\ \A v \in VPages : v # page => y.pt[v] = m.pt[v]
          /\ \A ty \in Types : ty # type => y.tlb[ty] = m.tlb[ty]
          /\ TlbOk(sn, m.tlb) /\ y.pt[page] \in sn[page] =>
                 /\ TlbOk(sn, y.tlb)
                 /\ y.ok /\ m.ok => \E ppn \in Nat :
                        /\ y.sectors = m.sectors \cup SectorsAt(ppn, vas)
                        /\ OnPage(sn, type, asked, vas, ppn)
        <3>1. y = intrapage(m, type, vas, asked, page, special)
            OBVIOUS
        <3> HIDE DEF vas, asked, y, good
        <3>2. PartDone(m, y, type, asked, vas, page)
            BY <2>1, <3>1, IntrapageOk
        <3> QED
            BY <3>2 DEF PartDone
    <2>3. x = [y EXCEPT !.ok = @ /\ good]
        BY <1>2 DEF Part, Accepted, PartOf, AskedOf
    <2>10. \A ppn : OnPage(sn, type, asked, vas, ppn) => OnPage(sn, type, PmpVas(a), vas, ppn)
        BY DEF OnPage, Reached, PartOf, AskedOf
    <2> HIDE DEF y, vas, asked
    <2>9. /\ y.tlb \in TlbType /\ y.pt \in PageTable /\ y.sectors \in SUBSET Nat
          /\ y = [tlb |-> y.tlb, pt |-> y.pt, ok |-> y.ok, sectors |-> y.sectors]
          /\ y.ok \in BOOLEAN
        BY <2>2 DEF Mid
    <2>4. good \in BOOLEAN
        BY DEF Reservable
    <2> HIDE DEF good
    <2>5. x.tlb = y.tlb /\ x.pt = y.pt /\ x.sectors = y.sectors /\ x.ok = (y.ok /\ good)
        BY <2>3, <2>9
    <2>6. x \in Mid
        <3>1. (y.ok /\ good) \in BOOLEAN
            BY <2>9
        <3>2. x = [tlb |-> y.tlb, pt |-> y.pt, ok |-> x.ok, sectors |-> y.sectors]
            BY <2>3, <2>9
        <3> QED
            BY <2>5, <2>9, <3>1, <3>2 DEF Mid
    <2>7. x.ok => y.ok
        BY <2>5
    <2>8. ASSUME TlbOk(sn, m.tlb), x.pt[page] \in sn[page], x.ok,
                 NEW ws, Covers(sn, type, PmpVas(a), ws, m.sectors)
          PROVE  Covers(sn, type, PmpVas(a), ws \cup vas, x.sectors)
        <3>1. PICK ppn \in Nat :
                  /\ y.sectors = m.sectors \cup SectorsAt(ppn, vas)
                  /\ OnPage(sn, type, PmpVas(a), vas, ppn)
            BY <1>2, <2>2, <2>5, <2>7, <2>8, <2>10
        <3> QED
            BY <2>5, <2>8, <3>1, CoversMore
    <2> QED
        BY <1>2, <2>2, <2>5, <2>6, <2>8 DEF vas
<1> QED
    BY <1>1, <1>2

\* The fields of a result.
LEMMA EndedFacts ==
    ASSUME NEW type, NEW m, NEW flush, NEW logged, NEW traced,
           NEW r, r = Ended(type, m, flush, traced, logged)
    PROVE  /\ r.tlb = m.tlb /\ r.pt = m.pt /\ r.sectors = m.sectors
           /\ r.flush = flush /\ r.logged = logged
           /\ r.traced \in BOOLEAN /\ (r.traced <=> traced /\ Interested(type, m.sectors))
           /\ r.out = "done" => m.ok
<1> DEFINE tr == traced /\ Interested(type, m.sectors)
           out == IF m.ok THEN "done" ELSE "fault"
<1>1. r = [out |-> out, tlb |-> m.tlb, pt |-> m.pt, sectors |-> m.sectors,
           flush |-> flush, traced |-> tr, logged |-> logged]
    BY DEF Ended, Result
<1>2. tr \in BOOLEAN /\ (tr <=> traced /\ Interested(type, m.sectors))
    BY DEF Interested
<1>3. out = "done" => m.ok
    OBVIOUS
<1> HIDE DEF tr, out
<1>4. /\ r.tlb = m.tlb /\ r.pt = m.pt /\ r.sectors = m.sectors /\ r.flush = flush
      /\ r.logged = logged /\ r.traced = tr /\ r.out = out
    BY <1>1
<1> QED
    BY <1>2, <1>3, <1>4

\* What the slow path does with an access that begins in state m.
SlowDone(sn, m, r, type, a) ==
    /\ r.tlb \in TlbType /\ r.pt \in PageTable
    /\ r.flush = Fires(type, a) /\ r.logged = log
    /\ r.traced \in BOOLEAN /\ (r.traced <=> Interested(type, r.sectors))
    /\ \A ty \in Types : ty # type => r.tlb[ty] = m.tlb[ty]
    /\ TlbOk(sn, m.tlb) /\ (\A v \in VPages : r.pt[v] \in sn[v]) =>
          /\ TlbOk(sn, r.tlb)
          /\ r.out = "done" => Covers(sn, type, PmpVas(a), VasOf(a), r.sectors)

\* The slow path, page by page.
LEMMA SlowOk ==
    ASSUME PmpTypeOK, NEW m \in Mid, m.ok, m.sectors = {}, NEW type \in Types,
           NEW a \in Accesses, NEW special, NEW served, NEW sn,
           NEW r, r = slow_path(type, a, m, special, served)
    PROVE  SlowDone(sn, m, r, type, a)
<1> SUFFICES
      /\ r.tlb \in TlbType /\ r.pt \in PageTable
      /\ r.flush = Fires(type, a) /\ r.logged = log
      /\ r.traced \in BOOLEAN /\ (r.traced <=> Interested(type, r.sectors))
      /\ \A ty \in Types : ty # type => r.tlb[ty] = m.tlb[ty]
      /\ TlbOk(sn, m.tlb) /\ (\A v \in VPages : r.pt[v] \in sn[v]) =>
            /\ TlbOk(sn, r.tlb)
            /\ r.out = "done" => Covers(sn, type, PmpVas(a), VasOf(a), r.sectors)
    BY DEF SlowDone
<1> DEFINE p1 == Page(a.va)
           p2 == Page(a.va) + 1
           x == Part(m, type, a, p1, special, served)
           y == Part(x, type, a, p2, special, served)
           e == IF OnePage(a) THEN x ELSE y
           shown == TRUE
<1>0. shown \in BOOLEAN /\ shown
    OBVIOUS
<1>1. r = Ended(type, e, Fires(type, a), shown, log)
    BY DEF slow_path
<1> HIDE DEF shown
<1>2. p1 \in VPages /\ AskedOf(a, p1) # {}
    BY PagesOf DEF AskedOf
<1>3. /\ x \in Mid
      /\ \A v \in VPages : v # p1 => x.pt[v] = m.pt[v]
      /\ \A ty \in Types : ty # type => x.tlb[ty] = m.tlb[ty]
      /\ TlbOk(sn, m.tlb) /\ x.pt[p1] \in sn[p1] =>
            /\ TlbOk(sn, x.tlb)
            /\ x.ok => /\ m.ok
                       /\ \A vas : Covers(sn, type, PmpVas(a), vas, m.sectors) =>
                             Covers(sn, type, PmpVas(a), vas \cup PartOf(a, p1), x.sectors)
    BY <1>2, PartOk
<1> HIDE DEF x
<1>4. Covers(sn, type, PmpVas(a), {}, m.sectors)
    BY DEF Covers
<1>5. CASE OnePage(a)
    <2>1. e = x /\ {} \cup PartOf(a, p1) = VasOf(a)
        BY <1>5, PagesOf DEF PartOf
    <2>2. /\ e \in Mid
          /\ \A ty \in Types : ty # type => e.tlb[ty] = m.tlb[ty]
          /\ TlbOk(sn, m.tlb) /\ (\A v \in VPages : e.pt[v] \in sn[v]) =>
                TlbOk(sn, e.tlb) /\ (e.ok => Covers(sn, type, PmpVas(a), VasOf(a), e.sectors))
        <3> HIDE DEF e, p1
        <3> QED
            BY <1>2, <1>3, <1>4, <2>1
    <2> QED
        <3> DEFINE fires == Fires(type, a)
        <3> HIDE DEF e, fires
        <3>1. r = Ended(type, e, fires, shown, log)
            BY <1>1 DEF fires
        <3>2. /\ r.tlb = e.tlb /\ r.pt = e.pt /\ r.sectors = e.sectors
              /\ r.flush = fires /\ r.logged = log
              /\ r.traced \in BOOLEAN /\ (r.traced <=> shown /\ Interested(type, e.sectors))
              /\ r.out = "done" => e.ok
            BY <3>1, EndedFacts
        <3>3. e.tlb \in TlbType /\ e.pt \in PageTable
            BY <2>2 DEF Mid
        <3> QED
            BY <1>0, <2>2, <3>2, <3>3 DEF fires
<1>6. CASE ~OnePage(a)
    <2>1. p2 \in VPages /\ p2 # p1 /\ AskedOf(a, p2) # {} /\ e = y
          /\ ({} \cup PartOf(a, p1)) \cup PartOf(a, p2) = VasOf(a)
        BY <1>6, PagesOf DEF PartOf, AskedOf
    <2>2. /\ y \in Mid
          /\ \A v \in VPages : v # p2 => y.pt[v] = x.pt[v]
          /\ \A ty \in Types : ty # type => y.tlb[ty] = x.tlb[ty]
          /\ TlbOk(sn, x.tlb) /\ y.pt[p2] \in sn[p2] =>
                /\ TlbOk(sn, y.tlb)
                /\ y.ok => /\ x.ok
                           /\ \A vas : Covers(sn, type, PmpVas(a), vas, x.sectors) =>
                                 Covers(sn, type, PmpVas(a), vas \cup PartOf(a, p2), y.sectors)
        <3>1. x \in Mid /\ p2 \in VPages /\ AskedOf(a, p2) # {}
            BY <1>3, <2>1
        <3> HIDE DEF p2
        <3> QED
            BY <3>1, PartOk
    <2> HIDE DEF y, p1, p2
    <2>3. y.pt[p1] = x.pt[p1]
        BY <1>2, <2>1, <2>2
    <2>4. /\ e \in Mid
          /\ \A ty \in Types : ty # type => e.tlb[ty] = m.tlb[ty]
          /\ TlbOk(sn, m.tlb) /\ (\A v \in VPages : e.pt[v] \in sn[v]) =>
                TlbOk(sn, e.tlb) /\ (e.ok => Covers(sn, type, PmpVas(a), VasOf(a), e.sectors))
        <3> HIDE DEF e
        <3>1. ASSUME TlbOk(sn, m.tlb), \A v \in VPages : e.pt[v] \in sn[v]
              PROVE  TlbOk(sn, e.tlb) /\ (e.ok => Covers(sn, type, PmpVas(a), VasOf(a), e.sectors))
            <4>1. x.pt[p1] \in sn[p1] /\ y.pt[p2] \in sn[p2]
                BY <1>2, <2>1, <2>3, <3>1
            <4>2. TlbOk(sn, x.tlb) /\ TlbOk(sn, y.tlb)
                BY <1>3, <2>2, <3>1, <4>1
            <4>3. ASSUME y.ok PROVE Covers(sn, type, PmpVas(a), VasOf(a), y.sectors)
                <5>1. x.ok
                    BY <2>2, <4>1, <4>2, <4>3
                <5>2. Covers(sn, type, PmpVas(a), {} \cup PartOf(a, p1), x.sectors)
                    BY <1>3, <1>4, <3>1, <4>1, <5>1
                <5>3. Covers(sn, type, PmpVas(a), ({} \cup PartOf(a, p1)) \cup PartOf(a, p2), y.sectors)
                    BY <2>2, <4>1, <4>2, <4>3, <5>2
                <5> QED
                    BY <2>1, <5>3
            <4> QED
                BY <2>1, <4>2, <4>3
        <3> QED
            BY <1>3, <2>1, <2>2, <3>1
    <2> QED
        <3> DEFINE fires == Fires(type, a)
        <3> HIDE DEF e, fires
        <3>1. r = Ended(type, e, fires, shown, log)
            BY <1>1 DEF fires
        <3>2. /\ r.tlb = e.tlb /\ r.pt = e.pt /\ r.sectors = e.sectors
              /\ r.flush = fires /\ r.logged = log
              /\ r.traced \in BOOLEAN /\ (r.traced <=> shown /\ Interested(type, e.sectors))
              /\ r.out = "done" => e.ok
            BY <3>1, EndedFacts
        <3>3. e.tlb \in TlbType /\ e.pt \in PageTable
            BY <2>4 DEF Mid
        <3> QED
            BY <1>0, <2>4, <3>2, <3>3 DEF fires
<1> QED
    BY <1>5, <1>6

\* What a load or store leaves and what it did if it was made: the TLBs are
\* right, that of instructions is as it was or empty, and the access was to
\* the right sectors and was seen by all who asked.
AccessDone(sn, r, type, a) ==
    /\ r.tlb \in TlbType /\ r.pt \in PageTable /\ r.flush \in BOOLEAN
    /\ IF r.flush THEN \A i \in Slots : r.tlb["fetch"][i] = None
       ELSE r.tlb["fetch"] = tlb["fetch"]
    /\ (r.flush \/ TlbOk(sn, tlb)) /\ (\A v \in VPages : r.pt[v] \in sn[v]) =>
          /\ TlbOk(sn, r.tlb)
          /\ r.out = "done" /\ r.sectors # {} =>
                /\ Covers(sn, type, PmpVas(a), VasOf(a), r.sectors)
                /\ Fires(type, a) => r.flush
                /\ r.traced \in BOOLEAN /\ (r.traced <=> Interested(type, r.sectors))
                /\ r.logged = log

\* A tracer that wants a sector of a page is told of the page.
LEMMA InterestedPage ==
    ASSUME opt \in Options, NEW type, NEW ppn \in Nat, NEW vas \in SUBSET Nat,
           Interested(type, SectorsAt(ppn, vas))
    PROVE  Interested(type, SectorsOf(ppn))
<1>1. PICK va \in vas : <<type, ppn * PgSectors + (va % PgSectors)>> \in opt.traced
    BY DEF Interested, SectorsAt
<1> DEFINE s == ppn * PgSectors + (va % PgSectors)
<1>2. Page(s) = ppn
    BY SectorsAtFacts
<1> HIDE DEF s
<1>3. <<type, s>> \in Types \X Sectors
    BY <1>1, MmuAssumption DEF s
<1> QED
    BY <1>1, <1>2, <1>3 DEF Interested, SectorsOf, s

\* The empty TLBs.
LEMMA NoTlbOk ==
    /\ NoTlb \in TlbType
    /\ \A sn : TlbOk(sn, NoTlb)
    /\ \A type \in Types, i \in Slots : NoTlb[type][i] = None
BY DEF NoTlb, TlbType, Slots, TlbOk

\* The fast path: the entry it hits stands for a walk.
LEMMA FastOk ==
    ASSUME PmpTypeOK, opt \in Options, log \in BOOLEAN, tlb \in TlbType,
           NEW pt \in PageTable, NEW type \in Types, type # "fetch", NEW a \in Accesses,
           OnePage(a), Hit(tlb, type, Page(a.va), Flags \ {"triggers"}),
           NEW served, NEW sn,
           NEW r, r = fast_path(type, a, pt, served)
    PROVE  AccessDone(sn, r, type, a)
<1> DEFINE page == Page(a.va)
           vas == VasOf(a)
           asked == PmpVas(a)
           e == tlb[type][Index(page)]
           first == [tlb |-> tlb, pt |-> pt, ok |-> TRUE, sectors |-> SectorsAt(e.ppn, vas)]
           m == Accepted(first, FALSE, served)
           told == ~Hit(tlb, type, page, {})
           no == FALSE
<1>1. r = Ended(type, m, no, told, no)
    BY DEF fast_path
<1>2. m.tlb = tlb /\ m.pt = pt /\ m.sectors = SectorsAt(e.ppn, vas)
    BY DEF Accepted
<1>3. told \in BOOLEAN /\ (told <=> ~Hit(tlb, type, page, {})) /\ no = FALSE
    BY DEF Hit
<1> HIDE DEF m, told, no, first
<1>4. /\ r.tlb = tlb /\ r.pt = pt /\ r.sectors = SectorsAt(e.ppn, vas)
      /\ r.flush = no /\ r.logged = no
      /\ r.traced \in BOOLEAN /\ (r.traced <=> told /\ Interested(type, m.sectors))
    <2> HIDE DEF e, vas
    <2> QED
        BY <1>1, <1>2, EndedFacts
<1>5. page \in VPages /\ vas \in SUBSET SectorsOf(page) /\ vas \in SUBSET Nat
    BY PagesOf DEF SectorsOf, Sectors
<1>6. ASSUME TlbOk(sn, tlb)
      PROVE  /\ EntryOk(sn, type, e) /\ e.ppn \in Nat
             /\ OnPage(sn, type, asked, vas, e.ppn)
    <2> HIDE DEF page, vas, asked
    <2> QED
        BY <1>5, <1>6, HitGood DEF page
<1>7. ASSUME TlbOk(sn, tlb)
      PROVE  /\ Covers(sn, type, asked, vas, r.sectors)
             /\ Fires(type, a) => r.flush
             /\ r.traced \in BOOLEAN /\ (r.traced <=> Interested(type, r.sectors))
             /\ r.logged = log
    <2> HIDE DEF vas, asked
    <2>1. Covers(sn, type, asked, {}, {})
        BY DEF Covers
    <2>2. Covers(sn, type, asked, {} \cup vas, {} \cup SectorsAt(e.ppn, vas))
        <3> HIDE DEF e
        <3> QED
            BY <1>6, <1>7, <2>1, CoversMore
    <2>3. {} \cup vas = vas /\ {} \cup SectorsAt(e.ppn, vas) = r.sectors
        BY <1>4
    <2>4. e.flags \subseteq Flags \ {"triggers"}
        BY DEF Hit
    <2>5. ~Fires(type, a)
        BY <1>6, <1>7, <2>4 DEF Fires, EntryOk
    <2>6. Interested(type, r.sectors) => told
        <3> SUFFICES ASSUME Interested(type, r.sectors) PROVE ~Hit(tlb, type, page, {})
            BY <1>3
        <3>1. Interested(type, SectorsOf(e.ppn))
            <4> HIDE DEF e
            <4> QED
                BY <1>4, <1>5, <1>6, <1>7, InterestedPage
        <3>2. "tracer" \in e.flags
            BY <1>6, <1>7, <3>1 DEF EntryOk
        <3> QED
            BY <3>2 DEF Hit
    <2>7. ~log
        BY <1>6, <1>7 DEF EntryOk
    <2> HIDE DEF e
    <2>8. Covers(sn, type, asked, vas, r.sectors)
        BY <2>2, <2>3
    <2>9. r.logged = log
        BY <1>3, <1>4, <2>7
    <2> QED
        BY <1>2, <1>4, <2>5, <2>6, <2>8, <2>9
<1> HIDE DEF e, vas, asked
<1> QED
    BY <1>3, <1>4, <1>7 DEF AccessDone, vas, asked

\* A load or store, whichever way it goes.
LEMMA AccessOk ==
    ASSUME PmpTypeOK, opt \in Options, log \in BOOLEAN, tlb \in TlbType,
           NEW pt \in PageTable, NEW type \in Types, type # "fetch", NEW a \in Accesses,
           NEW special, NEW served, NEW sn,
           NEW r, r = Access(type, a, pt, special, served)
    PROVE  AccessDone(sn, r, type, a)
<1> DEFINE fires == Fires(type, a)
           start == [tlb |-> IF fires THEN NoTlb ELSE tlb, pt |-> pt, ok |-> TRUE, sectors |-> {}]
           fast == /\ ~special /\ (Aligned(a) \/ (OnePage(a) /\ opt.misaligned))
                   /\ Hit(tlb, type, Page(a.va), Flags \ {"triggers"})
           before == fires /\ ~trigger.after
           split == ~Aligned(a) /\ (special \/ ~opt.misaligned)
           no == FALSE
<1>1. r = IF fast THEN fast_path(type, a, pt, served)
          ELSE IF before THEN Result("trigger", [start EXCEPT !.tlb = tlb], no, no, no)
          ELSE IF split THEN Result("fault", start, fires, no, no)
          ELSE slow_path(type, a, start, special, served)
    BY DEF Access
<1>2. fires \in BOOLEAN /\ (fires <=> Fires(type, a)) /\ no \in BOOLEAN /\ ~no
    BY DEF Fires
<1>3. start \in Mid /\ start.tlb = (IF fires THEN NoTlb ELSE tlb) /\ start.pt = pt /\ start.ok
      /\ start.sectors = {}
    BY NoTlbOk DEF Mid
<1> HIDE DEF fires, start, no
<1>4. CASE fast
    <2>1. r = fast_path(type, a, pt, served) /\ OnePage(a)
          /\ Hit(tlb, type, Page(a.va), Flags \ {"triggers"})
        BY <1>1, <1>4, PagesOf
    <2> HIDE DEF fast, before, split
    <2> QED
        BY <2>1, FastOk
<1> HIDE DEF fast
<1>5. CASE ~fast /\ before
    <2>1. r = [out |-> "trigger", tlb |-> tlb, pt |-> pt, sectors |-> {},
               flush |-> no, traced |-> no, logged |-> no]
        BY <1>1, <1>5 DEF Result, start
    <2>2. r.tlb = tlb /\ r.pt = pt /\ r.flush = no /\ r.out = "trigger"
        BY <2>1
    <2> QED
        BY <1>2, <2>2 DEF AccessDone
<1> HIDE DEF before
<1>6. CASE ~fast /\ ~before /\ split
    <2>1. r = [out |-> "fault", tlb |-> start.tlb, pt |-> pt, sectors |-> {},
               flush |-> fires, traced |-> no, logged |-> no]
        BY <1>1, <1>3, <1>6 DEF Result
    <2>2. r.tlb = start.tlb /\ r.pt = pt /\ r.flush = fires /\ r.out = "fault"
        BY <2>1
    <2>3. r.flush => r.tlb = NoTlb
        BY <1>3, <2>2
    <2>4. ~r.flush => r.tlb = tlb
        BY <1>3, <2>2
    <2> QED
        BY <1>2, <2>2, <2>3, <2>4, NoTlbOk DEF AccessDone, Types
<1> HIDE DEF split
<1>7. CASE ~fast /\ ~before /\ ~split
    <2>1. r = slow_path(type, a, start, special, served)
        BY <1>1, <1>7
    <2>2. SlowDone(sn, start, r, type, a)
        BY <1>3, <2>1, SlowOk
    <2>3. /\ r.tlb \in TlbType /\ r.pt \in PageTable
          /\ r.flush = fires /\ r.logged = log
          /\ r.traced \in BOOLEAN /\ (r.traced <=> Interested(type, r.sectors))
          /\ r.tlb["fetch"] = start.tlb["fetch"]
          /\ TlbOk(sn, start.tlb) /\ (\A v \in VPages : r.pt[v] \in sn[v]) =>
                /\ TlbOk(sn, r.tlb)
                /\ r.out = "done" => Covers(sn, type, PmpVas(a), VasOf(a), r.sectors)
        BY <2>2 DEF SlowDone, Types, fires
    <2>4. r.flush => start.tlb = NoTlb
        BY <1>3, <2>3
    <2>5. ~r.flush => start.tlb = tlb
        BY <1>3, <2>3
    <2>6. r.flush \/ TlbOk(sn, tlb) => TlbOk(sn, start.tlb)
        BY <2>4, <2>5, NoTlbOk
    <2> QED
        BY <1>2, <2>3, <2>4, <2>5, <2>6, NoTlbOk DEF AccessDone, Types
<1> QED
    BY <1>4, <1>5, <1>6, <1>7

-----------------------------------------------------------------------------
(* Steps                                                                   *)

\* The page of a sector.
LEMMA SectorPage ==
    ASSUME NEW va \in Sectors
    PROVE  Page(va) \in VPages /\ va \in SectorsOf(Page(va)) /\ va \in Nat
<1> DEFINE a == [va |-> va, len |-> 1, off |-> 0]
<1>1. a \in Accesses /\ a.va = va
    <2>1. PgSectors % 1 = 0 /\ 1 \in 1 .. PgSectors /\ va + 1 - 1 + 0 = va
        BY PmpAssumption DEF Sectors
    <2> QED
        BY <2>1 DEF Accesses
<1> HIDE DEF a
<1>2. Page(a.va) \in VPages
    BY <1>1, PagesOf
<1> QED
    BY <1>1, <1>2 DEF SectorsOf, Sectors

\* What decides about an access and about who sees it.
Rules == <<opt, csrVars, trigger, log, pmpVars>>

\* What is right stays right while the rules are the same.
LEMMA TlbSame ==
    ASSUME UNCHANGED Rules, NEW sn, NEW t
    PROVE  TlbOk(sn, t)' <=> TlbOk(sn, t)
BY DEF Rules, csrVars, pmpVars, TlbOk, EntryOk, Legal, PageOk, effective_priv, Bare, Permits,
       Used, Interested, SectorsOf, pmp_ok, match4, access_ok, mml_shared, normal_rwx,
       tor_base, napot_size

\* The same of a sector.
LEMMA GoodSame ==
    ASSUME UNCHANGED Rules, NEW sn, NEW type, NEW va, NEW s
    PROVE  Good(sn, type, va, s)' <=> Good(sn, type, va, s)
BY DEF Rules, csrVars, pmpVars, Good, Legal, effective_priv, Bare, Permits, Used,
       pmp_ok, match4, access_ok, mml_shared, normal_rwx, tor_base, napot_size

\* More page table entries seen do a sector no harm.
LEMMA GoodMono ==
    ASSUME NEW s1, NEW s2, NEW va \in Sectors, s1[Page(va)] \subseteq s2[Page(va)],
           NEW type, NEW s, Good(s1, type, va, s)
    PROVE  Good(s2, type, va, s)
BY DEF Good, Legal

\* Which pages the PMP treats alike.
LEMMA HomogeneousSame ==
    ASSUME UNCHANGED pmpVars, NEW page
    PROVE  pmp_homogeneous(page)' <=> pmp_homogeneous(page)
BY DEF pmpVars, pmp_homogeneous, subset_match, tor_base, napot_size

\* A sector that an access reached, asked about or not.
LEMMA ReachedSame ==
    ASSUME UNCHANGED Rules, NEW sn, NEW type, NEW asked, NEW va, NEW s
    PROVE  Reached(sn, type, asked, va, s)' <=> Reached(sn, type, asked, va, s)
<1> DEFINE pg == s \div PgSectors
<1>1. pmp_homogeneous(pg)' <=> pmp_homogeneous(pg)
    BY HomogeneousSame DEF Rules
<1>2. pmp_ok({s}, type, effective_priv(type))' <=> pmp_ok({s}, type, effective_priv(type))
    BY DEF Rules, csrVars, pmpVars, effective_priv, pmp_ok, match4, access_ok, mml_shared,
           normal_rwx, tor_base, napot_size
<1>3. Legal(sn, type, Page(va), Page(s))' <=> Legal(sn, type, Page(va), Page(s))
    BY DEF Rules, csrVars, Legal, effective_priv, Bare, Permits, Used
<1> QED
    BY <1>1, <1>2, <1>3 DEF Reached, Page

\* And all sectors of an access.
LEMMA CoversSame ==
    ASSUME UNCHANGED Rules, NEW sn, NEW type, NEW asked, NEW vas, NEW ss
    PROVE  Covers(sn, type, asked, vas, ss)' <=> Covers(sn, type, asked, vas, ss)
BY ReachedSame DEF Covers

\* A sector that the PMP was asked about is good.
LEMMA AskedGood ==
    ASSUME NEW sn, NEW type, NEW asked, NEW va \in asked, NEW s
    PROVE  Reached(sn, type, asked, va, s) <=> Good(sn, type, va, s)
BY DEF Reached, Good

\* The cached instructions stay right if no trigger was matched or armed.
LEMMA IcacheSame ==
    ASSUME UNCHANGED Rules, matched' => matched, armed' /\ ~armed => late', late => late',
           NEW sn, NEW ic, IcacheOk(sn, ic)
    PROVE  IcacheOk(sn, ic)'
<1> SUFFICES ASSUME NEW va \in Sectors, ic[va] # None
             PROVE  /\ Good(sn, "fetch", va, ic[va])'
                    /\ ~log' /\ ~matched'
                    /\ Fires("fetch", [va |-> va])' => late'
                    /\ Interested("fetch", {ic[va]})' =>
                          mstatus'.mprv \/ ~pmp_homogeneous(Page(ic[va]))'
    BY DEF IcacheOk
<1>1. /\ Good(sn, "fetch", va, ic[va])
      /\ ~log /\ ~matched
      /\ Fires("fetch", [va |-> va]) => late
      /\ Interested("fetch", {ic[va]}) => mstatus.mprv \/ ~pmp_homogeneous(Page(ic[va]))
    BY DEF IcacheOk
<1>2. Good(sn, "fetch", va, ic[va])'
    BY <1>1, GoodSame
<1>3. pmp_homogeneous(Page(ic[va]))' <=> pmp_homogeneous(Page(ic[va]))
    BY HomogeneousSame DEF Rules
<1>4. Interested("fetch", {ic[va]})' <=> Interested("fetch", {ic[va]})
    BY DEF Rules, Interested
<1>5. Fires("fetch", [va |-> va])' /\ ~Fires("fetch", [va |-> va]) => armed' /\ ~armed
    BY DEF Rules, Fires
<1> QED
    BY <1>1, <1>2, <1>3, <1>4, <1>5 DEF Rules, csrVars

\* More page table entries seen do them no harm.
LEMMA IcacheMono ==
    ASSUME NEW s1, NEW s2, \A v \in VPages : s1[v] \subseteq s2[v], NEW ic, IcacheOk(s1, ic)
    PROVE  IcacheOk(s2, ic)
BY SectorPage, GoodMono DEF IcacheOk

\* Nothing is cached.
LEMMA NoIcacheOk ==
    /\ NoIcache \in [Sectors -> {None} \cup Nat]
    /\ (\A va \in Sectors : NoIcache[va] = None) /\ \A sn : IcacheOk(sn, NoIcache)
BY DEF NoIcache, IcacheOk

\* The well-formedness of the registers in the new state.
LEMMA RulesType ==
    ASSUME MmuType, UNCHANGED Rules
    PROVE  /\ opt' \in Options /\ PmpTypeOK' /\ prv' \in Modes /\ mstatus' \in Statuses
           /\ log' \in BOOLEAN
BY DEF MmuType, Rules, csrVars, pmpVars, PmpTypeOK

\* flush_tlb leaves nothing to be wrong.
LEMMA FlushedOk ==
    ASSUME CachesOk, flush_tlb, UNCHANGED ptes,
           opt' \in Options /\ PmpTypeOK' /\ prv' \in Modes /\ mstatus' \in Statuses
           /\ log' \in BOOLEAN
    PROVE  CachesOk'
<1>1. tlb' = NoTlb /\ icache' = NoIcache /\ seen' = [v \in VPages |-> {ptes[v]}]
    BY DEF flush_tlb
<1>2. \A v \in VPages : seen'[v] = {ptes[v]} /\ IsFiniteSet({ptes[v]})
    BY <1>1, FS_Singleton
<1>3. ptes \in PageTable
    BY DEF CachesOk, MmuType
<1>4. MmuType'
    <2>1. seen' \in [VPages -> SUBSET PteType]
        BY <1>1, <1>3 DEF PageTable
    <2> QED
        BY <1>1, <1>2, <1>3, <2>1, NoTlbOk, NoIcacheOk DEF MmuType
<1>5. \A type \in Types, i \in Slots : tlb'[type][i] = None
    BY <1>1, NoTlbOk
<1>6. TlbOk(seen, tlb)'
    BY <1>5 DEF TlbOk
<1>7. \A va \in Sectors : icache'[va] = None
    BY <1>1, NoIcacheOk
<1>8. IcacheOk(seen, icache)'
    BY <1>7 DEF IcacheOk
<1>9. FetchEmpty'
    BY <1>5 DEF FetchEmpty, Types
<1> QED
    BY <1>4, <1>6, <1>8, <1>9 DEF CachesOk

\* So does a step that changes no rule and no entry of the TLB.
LEMMA KeptOk ==
    ASSUME CachesOk, UNCHANGED Rules, UNCHANGED tlb, icache' \in {icache, NoIcache},
           matched' => matched, matched => matched' \/ icache' = NoIcache,
           armed' /\ ~armed => late', late => late',
           ptes' \in PageTable, seen' \in [VPages -> SUBSET PteType],
           \A v \in VPages : /\ seen[v] \subseteq seen'[v] /\ ptes'[v] \in seen'[v]
                             /\ IsFiniteSet(seen'[v])
    PROVE  CachesOk'
<1>1. MmuType'
    BY RulesType, NoIcacheOk DEF CachesOk, MmuType
<1>2. TlbOk(seen, tlb)'
    <2>1. TlbOk(seen', tlb')
        BY TlbMono DEF CachesOk, MmuType
    <2> QED
        BY <2>1, TlbSame
<1>3. IcacheOk(seen, icache)'
    <2>1. CASE \A va \in Sectors : icache'[va] = None
        BY <2>1 DEF IcacheOk
    <2>2. CASE matched
        <3>1. \A va \in Sectors : icache[va] = None
            BY <2>2 DEF CachesOk, IcacheOk
        <3> QED
            BY <2>1, <3>1, NoIcacheOk
    <2>3. CASE icache' = icache /\ ~matched /\ ~matched'
        <3>1. IcacheOk(seen', icache')
            BY <2>3, IcacheMono DEF CachesOk
        <3> QED
            BY <2>3, <3>1, IcacheSame
    <2> QED
        BY <2>1, <2>2, <2>3, NoIcacheOk
<1>4. FetchEmpty'
    BY DEF CachesOk, FetchEmpty
<1> QED
    BY <1>1, <1>2, <1>3, <1>4 DEF CachesOk

\* A step that makes no access.
LEMMA NoAccess ==
    ASSUME last' = None
    PROVE  LastOk' /\ AccessObserved' /\ ScAtomic'
BY DEF LastOk, AccessObserved, ScAtomic

\* The record of an access that Finish leaves.
LEMMA FinishLast ==
    ASSUME NEW op, NEW a, NEW type, NEW r, Finish(op, a, type, r), last' # None
    PROVE  /\ r.out = "done" /\ last'.op = op /\ last'.type = type
           /\ last'.va = a.va /\ last'.len = a.len /\ last'.off = a.off /\ last'.sectors = r.sectors
           /\ last'.traced = r.traced /\ last'.logged = r.logged
           /\ op = "sc" => last'.lr = lr
<1>1. last' = IF r.out # "done" THEN None
              ELSE [op |-> op, type |-> type, va |-> a.va, len |-> a.len, off |-> a.off,
                    sectors |-> r.sectors, traced |-> r.traced, logged |-> r.logged,
                    lr |-> IF op = "sc" THEN lr ELSE None]
    BY DEF Finish
<1> QED
    BY <1>1

\* The other things Finish changes, and does not.
LEMMA FinishFrame ==
    ASSUME NEW op, NEW a, NEW type, NEW r, Finish(op, a, type, r)
    PROVE  /\ tlb' = r.tlb /\ ptes' = r.pt /\ icache' = IcacheAfter(r.flush)
           /\ seen' = [v \in VPages |->
                         {ptes[v], r.pt[v]} \cup IF r.flush THEN {} ELSE seen[v]]
           /\ (late' <=> late /\ ~r.flush) /\ (matched' <=> matched \/ r.flush)
           /\ UNCHANGED Rules /\ UNCHANGED armed
<1>3. /\ tlb' = r.tlb /\ ptes' = r.pt /\ icache' = IcacheAfter(r.flush)
      /\ seen' = [v \in VPages |->
                    {ptes[v], r.pt[v]} \cup IF r.flush THEN {} ELSE seen[v]]
    BY DEF Finish
<1>4. (late' <=> late /\ ~r.flush) /\ (matched' <=> matched \/ r.flush)
    BY DEF Finish
<1>5. UNCHANGED Rules /\ UNCHANGED armed
    BY DEF Finish, Rules
<1> QED
    BY <1>3, <1>4, <1>5

\* What has been seen of the page table after an access.
LEMMA SeenAfter ==
    ASSUME MmuType, NEW flush, NEW pt \in PageTable, NEW v \in VPages, NEW S,
           S = {ptes[v], pt[v]} \cup IF flush THEN {} ELSE seen[v]
    PROVE  /\ ptes[v] \in S /\ pt[v] \in S /\ IsFiniteSet(S)
           /\ ~flush => seen[v] \subseteq S
<1> DEFINE rest == IF flush THEN {} ELSE seen[v]
           two == {ptes[v]} \cup {pt[v]}
<1>1. S = two \cup rest
    OBVIOUS
<1>2. IsFiniteSet(rest) /\ (~flush => rest = seen[v])
    BY FS_EmptySet DEF MmuType
<1> HIDE DEF rest
<1>3. IsFiniteSet(two)
    BY FS_Singleton, FS_Union
<1>4. IsFiniteSet(S)
    <2> HIDE DEF two
    <2>1. IsFiniteSet(two \cup rest)
        BY <1>2, <1>3, FS_Union
    <2> QED
        BY <1>1, <2>1
<1> QED
    BY <1>1, <1>2, <1>4

\* The end of an instruction that made an access.
LEMMA FinishOk ==
    ASSUME CachesOk, NEW op, NEW a \in Accesses, NEW type \in Types, type # "fetch",
           NEW r, AccessDone(seen', r, type, a), Finish(op, a, type, r)
    PROVE  /\ CachesOk' /\ LastOk' /\ AccessObserved'
           /\ r.out = "done" /\ r.sectors # {} => Covers(seen', type, PmpVas(a), VasOf(a), r.sectors)
           /\ \A v \in VPages : ptes[v] \in seen'[v] /\ IsFiniteSet(seen'[v])
<1>1. /\ tlb' = r.tlb /\ ptes' = r.pt /\ icache' = IcacheAfter(r.flush)
      /\ seen' = [v \in VPages |-> {ptes[v], r.pt[v]} \cup IF r.flush THEN {} ELSE seen[v]]
      /\ (late' <=> late /\ ~r.flush) /\ (matched' <=> matched \/ r.flush)
      /\ UNCHANGED Rules /\ UNCHANGED armed
    BY FinishFrame
<1>2. last' = None \/
      (/\ r.out = "done" /\ last'.type = type
       /\ last'.va = a.va /\ last'.len = a.len /\ last'.off = a.off /\ last'.sectors = r.sectors
       /\ last'.traced = r.traced /\ last'.logged = r.logged)
    BY FinishLast
<1>3. /\ r.tlb \in TlbType /\ r.pt \in PageTable /\ r.flush \in BOOLEAN
      /\ r.flush => \A i \in Slots : r.tlb["fetch"][i] = None
      /\ ~r.flush => r.tlb["fetch"] = tlb["fetch"]
    BY DEF AccessDone
<1>4. \A v \in VPages : /\ ptes[v] \in seen'[v] /\ r.pt[v] \in seen'[v] /\ IsFiniteSet(seen'[v])
                        /\ ~r.flush => seen[v] \subseteq seen'[v]
    <2> SUFFICES ASSUME NEW v \in VPages
                 PROVE  /\ ptes[v] \in seen'[v] /\ r.pt[v] \in seen'[v] /\ IsFiniteSet(seen'[v])
                        /\ ~r.flush => seen[v] \subseteq seen'[v]
        OBVIOUS
    <2>1. seen'[v] = {ptes[v], r.pt[v]} \cup IF r.flush THEN {} ELSE seen[v]
        BY <1>1
    <2> QED
        BY <1>3, <2>1, SeenAfter DEF CachesOk
<1>5. r.flush \/ TlbOk(seen', tlb)
    BY <1>3, <1>4, TlbMono DEF CachesOk, MmuType
<1>6. /\ TlbOk(seen', r.tlb)
      /\ r.out = "done" /\ r.sectors # {} =>
            /\ Covers(seen', type, PmpVas(a), VasOf(a), r.sectors)
            /\ Fires(type, a) => r.flush
            /\ r.traced \in BOOLEAN /\ (r.traced <=> Interested(type, r.sectors))
            /\ r.logged = log
    BY <1>4, <1>5 DEF AccessDone
<1>7. TlbOk(seen, tlb)'
    <2>1. TlbOk(seen', tlb')
        BY <1>1, <1>6
    <2> QED
        BY <1>1, <2>1, TlbSame
<1>8. r.flush => icache' = NoIcache
    BY <1>1 DEF IcacheAfter
<1>9. ~r.flush => icache' = icache
    BY <1>1 DEF IcacheAfter
<1>10. IcacheOk(seen, icache)'
    <2>1. CASE r.flush
        <3>1. \A va \in Sectors : icache'[va] = None
            BY <1>8, <2>1, NoIcacheOk
        <3> QED
            BY <3>1 DEF IcacheOk
    <2>2. CASE ~r.flush
        <3>1. IcacheOk(seen', icache')
            BY <1>4, <1>9, <2>2, IcacheMono DEF CachesOk
        <3> QED
            BY <1>1, <2>2, <3>1, IcacheSame
    <2> QED
        BY <2>1, <2>2
<1>11. FetchEmpty'
    BY <1>1, <1>3 DEF CachesOk, FetchEmpty
<1>12. MmuType'
    <2>1. seen' \in [VPages -> SUBSET PteType]
        BY <1>1, <1>3 DEF CachesOk, MmuType, PageTable
    <2> QED
        BY <1>1, <1>3, <1>4, <1>8, <1>9, <2>1, RulesType, NoIcacheOk DEF CachesOk, MmuType
<1>13. ASSUME last' # None, last'.sectors # {} 
       PROVE  /\ VasOf(last)' = VasOf(a) /\ VasOf(a) \subseteq Nat
              /\ PmpVas(last)' = PmpVas(a)
              /\ Covers(seen', type, PmpVas(a), VasOf(a), r.sectors)
    <2>1. last'.va = a.va /\ last'.len = a.len /\ last'.off = a.off /\ last'.sectors = r.sectors
        BY <1>2, <1>13
    <2>2. VasOf(last)' = VasOf(a) /\ PmpVas(last)' = PmpVas(a)
        BY <2>1 DEF VasOf, PmpVas, OnePage, Page
    <2> QED
        BY <1>2, <1>6, <1>13, <2>1, <2>2, PagesOf DEF Sectors
<1>14. LastOk'
    <2> SUFFICES ASSUME last' # None, last'.sectors # {}
                 PROVE  /\ VasOf(last)' \subseteq Nat
                        /\ Covers(seen, last.type, PmpVas(last), VasOf(last), last.sectors)'
        BY DEF LastOk
    <2>1. /\ VasOf(last)' = VasOf(a)
          /\ Covers(seen', last'.type, PmpVas(last)', VasOf(last)', last'.sectors)
        BY <1>2, <1>13
    <2> QED
        BY <1>1, <1>13, <2>1, CoversSame
<1>15. AccessObserved'
    <2> SUFFICES ASSUME last' # None, last'.sectors # {}
                 PROVE  /\ Fires(last.type, [va |-> last.va])' => matched'
                        /\ last'.traced = Interested(last.type, last.sectors)'
                        /\ last'.logged = log'
        BY <1>2 DEF AccessObserved
    <2>1. Fires(last.type, [va |-> last.va])' => Fires(type, a)
        BY <1>1, <1>2 DEF Fires, Rules
    <2>2. Interested(last.type, last.sectors)' <=> Interested(type, r.sectors)
        BY <1>1, <1>2 DEF Interested, Rules
    <2>3. Interested(last.type, last.sectors)' \in BOOLEAN
        BY DEF Interested
    <2>4. last'.traced \in BOOLEAN /\ (last'.traced <=> Interested(type, r.sectors))
        BY <1>2, <1>6
    <2>5. last'.logged = log'
        BY <1>1, <1>2, <1>6 DEF Rules
    <2> QED
        BY <1>1, <1>2, <1>6, <2>1, <2>2, <2>3, <2>4, <2>5
<1> QED
    BY <1>4, <1>6, <1>7, <1>10, <1>11, <1>12, <1>14, <1>15 DEF CachesOk

\* A load, a store or an lr.
LEMMA DataOk ==
    ASSUME CachesOk, NEW a \in Accesses, NEW type \in Types, type # "fetch", NEW op, op # "sc",
           NEW special, NEW served, NEW r, r = Access(type, a, ptes, special, served),
           Finish(op, a, type, r)
    PROVE  /\ CachesOk' /\ LastOk' /\ AccessObserved' /\ ScAtomic'
           /\ r.out = "done" => r.sectors \subseteq Nat
<1>1. AccessDone(seen', r, type, a)
    BY AccessOk DEF CachesOk, MmuType
<1>2. /\ CachesOk' /\ LastOk' /\ AccessObserved'
      /\ r.out = "done" /\ r.sectors # {} => Covers(seen', type, PmpVas(a), VasOf(a), r.sectors)
    BY <1>1, FinishOk
<1>3. r.out = "done" => r.sectors \subseteq Nat
    BY <1>2 DEF Covers, Reached
<1>4. last' = None \/ last'.op = op
    BY FinishLast
<1>5. ScAtomic'
    BY <1>4 DEF ScAtomic
<1> QED
    BY <1>2, <1>3, <1>5

\* Steps that load or store.
LEMMA LoadStep ==
    ASSUME Inv, NEW a, load(a) PROVE Inv'
<1> DEFINE no == FALSE
<1>1. PICK served \in BOOLEAN : Finish("load", a, "load", Access("load", a, ptes, no, served))
    BY DEF load
<1> HIDE DEF no
<1>2. a \in Accesses
    BY MmuAssumption DEF load, Inv, CachesOk, MmuType
<1>3. CachesOk' /\ LastOk' /\ AccessObserved' /\ ScAtomic'
    BY <1>1, <1>2, DataOk DEF Inv, Types
<1>4. LrOk'
    BY DEF load, lrVars, Inv, LrOk
<1> QED
    BY <1>3, <1>4 DEF Inv

\* A store.
LEMMA StoreStep ==
    ASSUME Inv, NEW a, store(a) PROVE Inv'
<1> DEFINE no == FALSE
<1>1. PICK served \in BOOLEAN : Finish("store", a, "store", Access("store", a, ptes, no, served))
    BY DEF store
<1> HIDE DEF no
<1>2. a \in Accesses
    BY MmuAssumption DEF store, Inv, CachesOk, MmuType
<1>3. CachesOk' /\ LastOk' /\ AccessObserved' /\ ScAtomic'
    BY <1>1, <1>2, DataOk DEF Inv, Types
<1>4. LrOk'
    BY DEF store, lrVars, Inv, LrOk
<1> QED
    BY <1>3, <1>4 DEF Inv

\* A load-reserved.
LEMMA LrStep ==
    ASSUME Inv, NEW a, load_reserved(a) PROVE Inv'
<1> DEFINE no == FALSE
           yes == TRUE
           r == Access("load", a, ptes, yes, no)
<1>1. Finish("lr", a, "load", r)
    BY DEF load_reserved
<1>2. IF r.out = "done"
      THEN \E s \in r.sectors : reservation' = s /\ lr' = [sector |-> s, broken |-> FALSE]
      ELSE UNCHANGED lrVars
    BY DEF load_reserved
<1>3. r = Access("load", a, ptes, yes, no)
    OBVIOUS
<1> HIDE DEF no, yes, r
<1>4. a \in Accesses
    BY MmuAssumption DEF load_reserved, Inv, CachesOk, MmuType
<1>5. CachesOk' /\ LastOk' /\ AccessObserved' /\ ScAtomic' /\ (r.out = "done" => r.sectors \subseteq Nat)
    BY <1>1, <1>3, <1>4, DataOk DEF Inv, Types
<1>6. LrOk'
    <2>1. CASE r.out = "done"
        <3>1. PICK s \in Nat : reservation' = s /\ lr' = [sector |-> s, broken |-> FALSE]
            BY <1>2, <1>5, <2>1
        <3>2. lr' \in LrType /\ lr'.sector = s /\ ~lr'.broken
            BY <3>1 DEF LrType
        <3> QED
            BY <3>1, <3>2, MmuAssumption DEF LrOk
    <2>2. CASE r.out # "done"
        BY <1>2, <2>2 DEF lrVars, Inv, LrOk
    <2> QED
        BY <2>1, <2>2
<1> QED
    BY <1>5, <1>6 DEF Inv

\* A page that was always mapped to the same place.
LEMMA OneMapping ==
    ASSUME NEW S, IsFiniteSet(S), Cardinality({p.ppn : p \in S}) = 1, NEW p \in S, NEW q \in S
    PROVE  p.ppn = q.ppn
<1> DEFINE T == {t.ppn : t \in S}
           f == [t \in S |-> t.ppn]
<1>1. f \in Surjection(S, T)
    BY DEF Surjection
<1>2. IsFiniteSet(T)
    <2> HIDE DEF f, T
    <2> QED
        BY <1>1, FS_Surjection
<1>3. PICK x : T = {x}
    <2>1. Cardinality(T) = 1
        OBVIOUS
    <2> HIDE DEF T
    <2> QED
        BY <1>2, <2>1, FS_Singleton
<1> QED
    BY <1>3

\* The page has not moved since the last flush.
OnePpn(sn, v) == Cardinality({p.ppn : p \in sn[v]}) = 1

\* The store of an sc that stores finds the sector that was checked against
\* the reservation.
LEMMA ScSector ==
    ASSUME CachesOk, NEW a \in Accesses, a.len = 1, a.off = 0,
           NEW x, x = translate(ptes, "store", VasOf(a), Page(a.va)), x.ok,
           NEW sn, ptes[Page(a.va)] \in sn[Page(a.va)], IsFiniteSet(sn[Page(a.va)]),
           OnePpn(sn, Page(a.va)),
           NEW ss, ss # {}, Covers(sn, "store", PmpVas(a), VasOf(a), ss),
           NEW s \in SectorsAt(x.ppn, VasOf(a))
    PROVE  ss = {s}
<1>0. VasOf(a) = {a.va} /\ a.va \in Nat /\ Page(a.va) \in VPages
    BY PagesOf DEF VasOf, Accesses, Sectors
<1>1. s = x.ppn * PgSectors + (a.va % PgSectors)
    BY <1>0 DEF SectorsAt
<1>2. /\ x.ppn \in Nat
      /\ ~Bare(effective_priv("store")) => x.ppn = ptes[Page(a.va)].ppn
      /\ Bare(effective_priv("store")) => x.ppn = Page(a.va)
    BY <1>0, TranslateLegal DEF CachesOk, MmuType, Types
<1> SUFFICES ASSUME NEW t \in ss PROVE t = s
    OBVIOUS
<1>3. Reached(sn, "store", PmpVas(a), a.va, t)
    BY <1>0 DEF Covers
<1>4. t \in Nat /\ t % PgSectors = a.va % PgSectors /\ Legal(sn, "store", Page(a.va), Page(t))
    BY <1>3 DEF Reached
<1>5. Page(t) = x.ppn
    <2>1. CASE Bare(effective_priv("store"))
        BY <1>2, <1>4, <2>1 DEF Legal
    <2>2. CASE ~Bare(effective_priv("store"))
        <3>1. PICK p \in sn[Page(a.va)] : p.ppn = Page(t)
            BY <1>4, <2>2 DEF Legal
        <3>2. p.ppn = ptes[Page(a.va)].ppn
            BY OneMapping DEF OnePpn
        <3> QED
            BY <1>2, <2>2, <3>1, <3>2
    <2> QED
        BY <2>1, <2>2
<1>6. t = Page(t) * PgSectors + (t % PgSectors)
    BY <1>4, SectorSplit
<1> QED
    BY <1>1, <1>4, <1>5, <1>6

\* An sc that does not store sets bits of the page table and no more.
LEMMA SkipDone ==
    ASSUME tlb \in TlbType, NEW pt \in PageTable, NEW a, NEW sn, NEW r,
           r.tlb = tlb, r.pt = pt, r.sectors = {}, r.flush = FALSE
    PROVE  AccessDone(sn, r, "store", a)
BY DEF AccessDone

\* A store-conditional that does not store.
LEMMA ScSkip ==
    ASSUME Inv, NEW a \in Accesses, NEW pt \in PageTable, NEW r, Finish("sc", a, "store", r),
           r.tlb = tlb, r.pt = pt, r.sectors = {}, r.flush = FALSE
    PROVE  CachesOk' /\ LastOk' /\ AccessObserved' /\ ScAtomic'
<1>1. AccessDone(seen', r, "store", a)
    BY SkipDone DEF Inv, CachesOk, MmuType
<1>2. CachesOk' /\ LastOk' /\ AccessObserved'
    BY <1>1, FinishOk DEF Inv, Types
<1>3. last' = None \/ last'.sectors = {}
    BY FinishLast
<1> QED
    BY <1>2, <1>3 DEF ScAtomic

\* A store-conditional.
LEMMA ScStep ==
    ASSUME Inv, NEW a, store_conditional(a) PROVE Inv'
<1> DEFINE x == translate(ptes, "store", VasOf(a), Page(a.va))
           skip == Result("done", [tlb |-> tlb, pt |-> x.pt, sectors |-> {}], FALSE, FALSE, log)
           fault == [skip EXCEPT !.out = "fault"]
           no == FALSE
           r == Access("store", a, x.pt, no, no)
           failed(s) == /\ Finish("sc", a, "store", fault)
                        /\ UNCHANGED lrVars
           skipped(s) == /\ Finish("sc", a, "store", skip)
                         /\ reservation' = None /\ lr' = None
           stored(s) == /\ x.ok /\ s = reservation
                        /\ Finish("sc", a, "store", r)
                        /\ IF r.out = "done" THEN reservation' = None /\ lr' = None
                           ELSE UNCHANGED lrVars
<1>1. PICK s \in SectorsAt(x.ppn, VasOf(a)) : failed(s) \/ skipped(s) \/ stored(s)
    BY DEF store_conditional
<1>2. /\ skip.tlb = tlb /\ skip.pt = x.pt /\ skip.sectors = {} /\ skip.flush = FALSE
      /\ fault.tlb = tlb /\ fault.pt = x.pt /\ fault.sectors = {} /\ fault.flush = FALSE
    BY DEF Result
<1>3. a \in Accesses /\ a.len = 1 /\ a.off = 0
    BY MmuAssumption DEF store_conditional, Inv, CachesOk, MmuType
<1>4. r = Access("store", a, x.pt, no, no) /\ x = translate(ptes, "store", VasOf(a), Page(a.va))
    OBVIOUS
<1> HIDE DEF x, skip, fault, no, r
<1>5. x.pt \in PageTable /\ x.ppn \in Nat /\ Page(a.va) \in VPages
    <2>1. Page(a.va) \in VPages
        BY <1>3, PagesOf
    <2> QED
        BY <1>4, <2>1, TranslateLegal DEF Inv, CachesOk, MmuType, Types
<1>6. CASE failed(s)
    <2>1. CachesOk' /\ LastOk' /\ AccessObserved' /\ ScAtomic'
        BY <1>2, <1>3, <1>5, <1>6, ScSkip
    <2>2. LrOk'
        BY <1>6 DEF lrVars, Inv, LrOk
    <2> QED
        BY <2>1, <2>2 DEF Inv
<1>7. CASE skipped(s)
    <2>1. CachesOk' /\ LastOk' /\ AccessObserved' /\ ScAtomic'
        BY <1>2, <1>3, <1>5, <1>7, ScSkip
    <2>2. LrOk'
        BY <1>7 DEF LrOk
    <2> QED
        BY <2>1, <2>2 DEF Inv
<1>8. CASE stored(s)
    <2>0. Finish("sc", a, "store", r) /\ x.ok /\ s = reservation
        BY <1>8
    <2>1. AccessDone(seen', r, "store", a)
        BY <1>3, <1>4, <1>5, AccessOk DEF Inv, CachesOk, MmuType, Types
    <2>2. /\ CachesOk' /\ LastOk' /\ AccessObserved'
          /\ r.out = "done" /\ r.sectors # {} => Covers(seen', "store", PmpVas(a), VasOf(a), r.sectors)
          /\ \A v \in VPages : ptes[v] \in seen'[v] /\ IsFiniteSet(seen'[v])
        BY <1>3, <2>0, <2>1, FinishOk DEF Inv, Types
    <2>3. LrOk'
        BY <1>8 DEF lrVars, Inv, LrOk
    <2>4. last' = None \/ (/\ r.out = "done" /\ last'.va = a.va /\ last'.sectors = r.sectors
                           /\ last'.lr = lr)
        BY <1>3, <2>0, FinishLast
    <2>5. s \in Nat /\ s # None
        <3>1. VasOf(a) \in SUBSET Nat
            BY <1>3, PagesOf DEF Sectors
        <3>2. PICK va \in VasOf(a) : s = x.ppn * PgSectors + (va % PgSectors)
            BY DEF SectorsAt
        <3>3. s \in Nat
            BY <1>5, <3>1, <3>2, SectorsAtFacts
        <3> QED
            BY <3>3, MmuAssumption
    <2>6. lr # None /\ ~lr.broken /\ lr.sector = s
        BY <2>0, <2>5 DEF Inv, LrOk
    <2>7. ScAtomic'
        <3> SUFFICES ASSUME last' # None, last'.sectors # {}
                     PROVE  /\ last'.lr # None /\ ~last'.lr.broken
                            /\ Cardinality({p.ppn : p \in seen'[Page(last'.va)]}) = 1 =>
                                   last'.sectors = {last'.lr.sector}
            BY DEF ScAtomic, Page
        <3>1. ASSUME Cardinality({p.ppn : p \in seen'[Page(a.va)]}) = 1
              PROVE  r.sectors = {s}
            <4>1. /\ r.out = "done" /\ r.sectors # {} /\ CachesOk
                  /\ Covers(seen', "store", PmpVas(a), VasOf(a), r.sectors)
                  /\ ptes[Page(a.va)] \in seen'[Page(a.va)] /\ IsFiniteSet(seen'[Page(a.va)])
                BY <1>5, <2>2, <2>4 DEF Inv
            <4>2. OnePpn(seen', Page(a.va))
                BY <3>1 DEF OnePpn
            <4> QED
                BY <1>3, <1>4, <2>0, <4>1, <4>2, ScSector
        <3> QED
            BY <2>4, <2>6, <3>1
    <2> QED
        BY <2>2, <2>3, <2>7 DEF Inv
<1> QED
    BY <1>1, <1>6, <1>7, <1>8

-----------------------------------------------------------------------------
(* Fetches                                                                 *)

\* What is asked of a fetch of va from sector s: it is a good one, and passes
\* no trigger and no tracer that would have been told.
FetchOk(sn, va, s) ==
    /\ Good(sn, "fetch", va, s)
    /\ Fires("fetch", [va |-> va]) => late

Untold(s) ==
    Interested("fetch", {s}) /\ ~log => mstatus.mprv \/ ~pmp_homogeneous(Page(s))

\* The record of a fetch.
LEMMA FetchedOk ==
    ASSUME UNCHANGED Rules, UNCHANGED <<armed, late>>, ~matched',
           NEW va \in Sectors, NEW s, NEW traced, fetch_done(va, s, traced),
           FetchOk(seen', va, s), traced \/ Untold(s)
    PROVE  LastOk' /\ AccessObserved' /\ ScAtomic'
<1>1. /\ last'.op = "fetch" /\ last'.type = "fetch" /\ last'.va = va /\ last'.len = 1
      /\ last'.off = 0 /\ last'.sectors = {s} /\ last'.traced = traced
    BY DEF fetch_done
<1>2. va \in Nat /\ va .. va + 1 - 1 + 0 = {va}
    BY SectorPage
<1>3. LastOk'
    <2>1. Covers(seen', "fetch", {va}, {va}, {s})
        BY AskedGood DEF Covers, FetchOk
    <2>2. VasOf(last)' = {va} /\ PmpVas(last)' = {va} /\ {va} \subseteq Nat
        BY <1>1, <1>2 DEF VasOf, PmpVas
    <2>3. Covers(seen', last'.type, PmpVas(last)', VasOf(last)', last'.sectors)
        BY <1>1, <2>1, <2>2
    <2>4. Covers(seen, last.type, PmpVas(last), VasOf(last), last.sectors)'
        BY <2>3, CoversSame
    <2> QED
        BY <2>2, <2>4 DEF LastOk
<1>4. AccessObserved'
    <2>1. Fires("fetch", [va |-> last.va])' => late'
        BY <1>1 DEF FetchOk, Fires, Rules
    <2>2. ASSUME Interested("fetch", last.sectors)', ~log', ~mstatus'.mprv,
                 (\A t \in last.sectors : pmp_homogeneous(Page(t)))'
          PROVE  last'.traced
        <3>1. pmp_homogeneous(Page(s))'
            BY <1>1, <2>2
        <3>2. pmp_homogeneous(Page(s))
            BY <3>1, HomogeneousSame DEF Rules
        <3>3. Interested("fetch", {s}) /\ ~log /\ ~mstatus.mprv
            BY <1>1, <2>2 DEF Interested, Rules, csrVars
        <3> QED
            BY <1>1, <3>2, <3>3 DEF Untold
    <2> QED
        BY <1>1, <2>1, <2>2 DEF AccessObserved
<1>5. ScAtomic'
    BY <1>1 DEF ScAtomic
<1> QED
    BY <1>3, <1>4, <1>5

\* The caches after a fetch: the instruction cache has perhaps a new entry.
LEMMA FetchKept ==
    ASSUME CachesOk, UNCHANGED Rules, UNCHANGED <<armed, late, matched>>, ~matched,
           tlb' \in TlbType, TlbOk(seen', tlb'), ptes' \in PageTable,
           seen' \in [VPages -> SUBSET PteType],
           \A v \in VPages : /\ seen[v] \subseteq seen'[v] /\ ptes'[v] \in seen'[v]
                             /\ IsFiniteSet(seen'[v]),
           NEW va \in Sectors, NEW s,
           \/ icache' = icache
           \/ icache' = [icache EXCEPT ![va] = s] /\ ~log /\ FetchOk(seen', va, s) /\ Untold(s)
    PROVE  CachesOk'
<1>1. icache \in [Sectors -> {None} \cup Nat]
    BY DEF CachesOk, MmuType
<1>2. icache' \in [Sectors -> {None} \cup Nat]
    BY <1>1 DEF FetchOk, Good
<1>3. MmuType'
    BY <1>2, RulesType DEF CachesOk, MmuType
<1>4. TlbOk(seen, tlb)'
    BY TlbSame
<1>5. IcacheOk(seen', icache)
    BY IcacheMono DEF CachesOk
<1>6. IcacheOk(seen', icache')
    <2>1. CASE icache' = icache
        BY <1>5, <2>1
    <2>2. CASE icache' = [icache EXCEPT ![va] = s] /\ ~log /\ FetchOk(seen', va, s) /\ Untold(s)
        <3>1. icache'[va] = s /\ \A w \in Sectors : w # va => icache'[w] = icache[w]
            BY <1>1, <2>2
        <3>2. /\ Good(seen', "fetch", va, s) /\ ~log /\ ~matched
              /\ Fires("fetch", [va |-> va]) => late
              /\ Interested("fetch", {s}) => mstatus.mprv \/ ~pmp_homogeneous(Page(s))
            BY <2>2 DEF FetchOk, Untold
        <3> SUFFICES ASSUME NEW w \in Sectors, icache'[w] # None
                     PROVE  /\ Good(seen', "fetch", w, icache'[w])
                            /\ ~log /\ ~matched
                            /\ Fires("fetch", [va |-> w]) => late
                            /\ Interested("fetch", {icache'[w]}) =>
                                  mstatus.mprv \/ ~pmp_homogeneous(Page(icache'[w]))
            BY DEF IcacheOk
        <3>3. CASE w = va
            BY <3>1, <3>2, <3>3
        <3>4. CASE w # va
            BY <1>5, <3>1, <3>4 DEF IcacheOk
        <3> QED
            BY <3>3, <3>4
    <2> QED
        BY <2>1, <2>2
<1>7. IcacheOk(seen, icache)'
    BY <1>6, IcacheSame
<1>8. FetchEmpty'
    BY DEF FetchEmpty
<1> QED
    BY <1>3, <1>4, <1>7, <1>8 DEF CachesOk

\* After a fetch of a sector that a tracer wants, on a page that may enter the
\* TLB, the entry of the page says so.
LEMMA FetchFilled ==
    ASSUME PmpTypeOK, opt \in Options, NEW m \in Mid, m.sectors = {}, NEW va \in Sectors,
           NEW special, ~special, NEW x, x = intrapage(m, "fetch", {va}, {va}, Page(va), special), x.ok,
           NEW sn, TlbOk(sn, m.tlb), NEW s \in x.sectors, ~Untold(s)
    PROVE  /\ Hit(x.tlb, "fetch", Page(va), Flags)
           /\ "tracer" \in x.tlb["fetch"][Index(Page(va))].flags
<1> DEFINE vpn == Page(va)
           vas == {va}
<1>0. Interested("fetch", {s}) /\ ~log /\ ~mstatus.mprv /\ pmp_homogeneous(Page(s))
    BY DEF Untold
<1>1. vpn \in VPages /\ vas \in SUBSET Nat /\ "fetch" \in Types
    BY SectorPage DEF Types
<1>2. m.tlb \in TlbType /\ m.pt \in PageTable
    BY DEF Mid
<1>3. ASSUME NEW ppn \in Nat, s \in SectorsAt(ppn, vas)
      PROVE  Page(s) = ppn /\ Interested("fetch", SectorsOf(ppn))
    <2>1. s = ppn * PgSectors + (va % PgSectors)
        BY <1>3 DEF SectorsAt
    <2>2. Page(s) = ppn
        BY <1>1, <2>1, SectorsAtFacts
    <2>3. Interested("fetch", SectorsAt(ppn, vas))
        BY <1>0, <1>3 DEF Interested
    <2> HIDE DEF vas
    <2> QED
        BY <1>1, <2>2, <2>3, InterestedPage
<1>4. CASE Hit(m.tlb, "fetch", vpn, Flags)
    <2> DEFINE e == m.tlb["fetch"][Index(vpn)]
    <2>1. x = [m EXCEPT !.sectors = @ \cup SectorsAt(e.ppn, vas)]
        BY <1>4 DEF intrapage
    <2>2. x.tlb = m.tlb /\ x.sectors = SectorsAt(e.ppn, vas)
        <3> HIDE DEF e, vas
        <3> QED
            BY <2>1 DEF Mid
    <2>3. EntryOk(sn, "fetch", e) /\ e.ppn \in Nat
        <3> HIDE DEF vpn
        <3> QED
            BY <1>1, <1>2, <1>4, HitGood
    <2>4. Interested("fetch", SectorsOf(e.ppn))
        BY <1>3, <2>2, <2>3
    <2> QED
        BY <1>4, <2>2, <2>3, <2>4 DEF EntryOk
<1>5. CASE ~Hit(m.tlb, "fetch", vpn, Flags)
    <2> DEFINE y == translate(m.pt, "fetch", vas, vpn)
               u == refill_tlb(m.tlb, "fetch", vpn, y.ppn)
    <2>1. x = [tlb |-> IF special \/ ~y.ok THEN m.tlb ELSE u,
               pt |-> y.pt, ok |-> y.ok, sectors |-> m.sectors \cup SectorsAt(y.ppn, vas)]
        BY <1>5 DEF intrapage, Walked
    <2>2. y.ppn \in Nat /\ y.ok \in BOOLEAN
        <3> HIDE DEF vas, vpn
        <3> QED
            BY <1>1, <1>2, TranslateLegal
    <2>3. x.ok = y.ok /\ x.sectors = SectorsAt(y.ppn, vas)
          /\ x.tlb = (IF special \/ ~y.ok THEN m.tlb ELSE u)
        <3> HIDE DEF y, u, vas
        <3> QED
            BY <2>1
    <2> HIDE DEF y
    <2>4. x.tlb = u
        <3> HIDE DEF u
        <3> QED
            BY <2>3
    <2>5. Page(s) = y.ppn /\ Interested("fetch", SectorsOf(y.ppn))
        BY <1>3, <2>2, <2>3
    <2>6. ~(mstatus.mprv \/ ~pmp_homogeneous(y.ppn) \/ log)
        BY <1>0, <2>5
    <2>7. Hit(u, "fetch", vpn, Flags)
          /\ ("tracer" \in u["fetch"][Index(vpn)].flags <=> Interested("fetch", SectorsOf(y.ppn)))
        <3> HIDE DEF vpn
        <3> QED
            BY <1>1, <1>2, <2>2, <2>6, RefillOk
    <2> QED
        BY <2>4, <2>5, <2>7
<1> QED
    BY <1>4, <1>5

\* What no fetch changes.
LEMMA FetchFrame ==
    ASSUME Inv, NEW va, fetch(va)
    PROVE  /\ LrOk' /\ va \in Sectors /\ UNCHANGED opt
           /\ trigger' = trigger => UNCHANGED Rules
<1>1. UNCHANGED <<opt, csrVars, log, lrVars, pmpVars>>
    BY DEF fetch
<1>2. va \in opt.fetches
    BY DEF fetch, icache_hit, tlb_fetch, throw_matched, throw_trigger, fetch_slow_path, Missing
<1>3. va \in Sectors
    BY <1>2, MmuAssumption DEF Inv, CachesOk, MmuType
<1>4. LrOk'
    BY <1>1 DEF lrVars, Inv, LrOk
<1> QED
    BY <1>1, <1>3, <1>4 DEF Rules

\* A cached instruction is taken.
LEMMA IcacheStep ==
    ASSUME Inv, NEW va, fetch(va), icache_hit(va) PROVE Inv'
<1> DEFINE s == icache[va]
           no == FALSE
<1>1. /\ va \in Sectors /\ LrOk' /\ UNCHANGED Rules
      /\ UNCHANGED <<ptes, cacheVars, trigVars>>
    BY FetchFrame DEF icache_hit, trigVars
<1>2. fetch_done(va, s, no) /\ s # None
    BY DEF icache_hit
<1>3. FetchOk(seen, va, s) /\ Untold(s) /\ ~matched
    BY <1>1, <1>2 DEF Inv, CachesOk, IcacheOk, FetchOk, Untold
<1> HIDE DEF s, no
<1>4. LastOk' /\ AccessObserved' /\ ScAtomic'
    BY <1>1, <1>2, <1>3, FetchedOk DEF cacheVars, trigVars
<1>5. CachesOk'
    BY <1>1, KeptOk DEF cacheVars, trigVars, Inv, CachesOk, MmuType
<1> QED
    BY <1>1, <1>4, <1>5 DEF Inv

\* The next fetch throws a trigger.
LEMMA ThrowStep ==
    ASSUME Inv, NEW va, fetch(va), throw_matched(va) \/ throw_trigger(va) PROVE Inv'
<1>1. /\ va \in Sectors /\ LrOk' /\ UNCHANGED Rules /\ last' = None
      /\ UNCHANGED <<ptes, cacheVars, armed>>
      /\ matched' => matched
    BY FetchFrame DEF throw_matched, throw_trigger, trigVars
<1>2. LastOk' /\ AccessObserved' /\ ScAtomic'
    BY <1>1, NoAccess
<1>3. CachesOk'
    <2>1. matched => \A w \in Sectors : icache[w] = None
        BY DEF Inv, CachesOk, IcacheOk
    <2>2. matched => icache' = NoIcache
        BY <1>1, <2>1 DEF cacheVars, NoIcache, Inv, CachesOk, MmuType
    <2> QED
        BY <1>1, <2>2, KeptOk DEF cacheVars, Inv, CachesOk, MmuType
<1> QED
    BY <1>1, <1>2, <1>3 DEF Inv

\* An entry of the TLB that does not say triggers is of a page without one.
LEMMA NoTrigger ==
    ASSUME CachesOk, NEW va \in Sectors, NEW allowed, "triggers" \notin allowed,
           Hit(tlb, "fetch", Page(va), allowed)
    PROVE  ~Fires("fetch", [va |-> va])
<1> DEFINE e == tlb["fetch"][Index(Page(va))]
<1>1. Page(va) \in VPages /\ "fetch" \in Types
    BY SectorPage DEF Types
<1>2. EntryOk(seen, "fetch", e)
    <2> DEFINE vpn == Page(va)
    <2> HIDE DEF vpn
    <2> QED
        BY <1>1, HitGood DEF CachesOk, MmuType, vpn
<1>3. e.flags \subseteq allowed
    BY DEF Hit
<1> QED
    BY <1>2, <1>3 DEF EntryOk, Fires

\* A fetch through an entry of the TLB without flags.
LEMMA TlbFetchStep ==
    ASSUME Inv, NEW va, fetch(va), tlb_fetch(va) PROVE Inv'
<1> DEFINE vpn == Page(va)
           e == tlb["fetch"][Index(vpn)]
<1>1. /\ va \in Sectors /\ LrOk' /\ UNCHANGED Rules
      /\ UNCHANGED <<ptes, tlb, seen, late, trigVars>>
    BY FetchFrame DEF tlb_fetch, trigVars
<1>2. vpn \in VPages /\ {va} \in SUBSET SectorsOf(vpn) /\ {va} \in SUBSET Nat /\ "fetch" \in Types
    BY <1>1, SectorPage DEF Types
<1>3. Hit(tlb, "fetch", vpn, {})
    BY DEF tlb_fetch, TlbFetch
<1>4. EntryOk(seen, "fetch", e) /\ e.ppn \in Nat /\ OnPage(seen, "fetch", {va}, {va}, e.ppn)
    <2> HIDE DEF vpn
    <2> QED
        BY <1>2, <1>3, HitGood DEF Inv, CachesOk, MmuType
<1>5. PICK s \in SectorsAt(e.ppn, {va}) : refill_icache(va, s, tlb)
    BY DEF tlb_fetch
<1>6. s = e.ppn * PgSectors + (va % PgSectors)
    BY DEF SectorsAt
<1>7. FetchOk(seen, va, s)
    <2>1. Good(seen, "fetch", va, s)
        BY <1>4, <1>6, AskedGood DEF OnPage
    <2>2. ~Fires("fetch", [va |-> va])
        BY <1>1, <1>3, NoTrigger DEF Inv
    <2> QED
        BY <2>1, <2>2 DEF FetchOk
<1>8. Untold(s)
    <2>1. "tracer" \notin e.flags
        BY <1>3 DEF Hit
    <2>2. ~Interested("fetch", SectorsOf(e.ppn))
        BY <1>4, <2>1 DEF EntryOk
    <2>3. ~Interested("fetch", SectorsAt(e.ppn, {va}))
        <3> HIDE DEF e
        <3> QED
            BY <1>2, <1>4, <2>2, InterestedPage DEF Inv, CachesOk, MmuType
    <2> QED
        BY <2>3 DEF Interested, Untold
<1>9. ~matched /\ ~log
    <2>1. Index(vpn) \in Slots
        BY <1>2, PmpAssumption, MmuAssumption DEF Index, Slots, VPages, Pages
    <2>2. e # None
        BY <1>3 DEF Hit
    <2> QED
        BY <1>4, <2>1, <2>2 DEF Inv, CachesOk, FetchEmpty, EntryOk
<1> DEFINE tr == /\ Hit(tlb, "fetch", Page(va), Flags)
                 /\ "tracer" \in tlb["fetch"][Index(Page(va))].flags
                 /\ Interested("fetch", {s})
<1>10. /\ icache' = icache \/ icache' = [icache EXCEPT ![va] = s]
       /\ fetch_done(va, s, tr)
    BY <1>5 DEF refill_icache
<1> HIDE DEF tr, e, vpn
<1>11. LastOk' /\ AccessObserved' /\ ScAtomic'
    BY <1>1, <1>7, <1>8, <1>9, <1>10, FetchedOk DEF trigVars
<1>12. CachesOk'
    <2>1. /\ tlb' \in TlbType /\ TlbOk(seen', tlb') /\ ptes' \in PageTable
          /\ seen' \in [VPages -> SUBSET PteType]
          /\ \A v \in VPages : /\ seen[v] \subseteq seen'[v] /\ ptes'[v] \in seen'[v]
                               /\ IsFiniteSet(seen'[v])
        BY <1>1 DEF Inv, CachesOk, MmuType
    <2> QED
        BY <1>1, <1>7, <1>8, <1>9, <1>10, <2>1, FetchKept DEF trigVars, Inv
<1> QED
    BY <1>1, <1>11, <1>12 DEF Inv

\* A fetch through the slow path.
LEMMA FetchSlowStep ==
    ASSUME Inv, NEW va, fetch(va), fetch_slow_path(va) PROVE Inv'
<1> DEFINE vpn == Page(va)
           no == FALSE
           m0 == [tlb |-> tlb, pt |-> ptes, ok |-> TRUE, sectors |-> {}]
           m == intrapage(m0, "fetch", {va}, {va}, vpn, no)
<1>1. /\ va \in Sectors /\ LrOk' /\ UNCHANGED Rules
      /\ UNCHANGED <<late, trigVars>> /\ ~matched
    BY FetchFrame DEF fetch_slow_path, trigVars
<1>2. vpn \in VPages /\ {va} \in SUBSET SectorsOf(vpn) /\ "fetch" \in Types
      /\ {va} # {} /\ ~no
    BY <1>1, SectorPage DEF Types
<1>3. ~Fires("fetch", [va |-> va])
    <2>1. Hit(tlb, "fetch", Page(va), Flags \ {"triggers"}) \/ ~Fires("fetch", [va |-> va, len |-> 1])
        BY DEF fetch_slow_path
    <2>2. CASE ~Fires("fetch", [va |-> va, len |-> 1])
        BY <2>2 DEF Fires
    <2>3. CASE Hit(tlb, "fetch", Page(va), Flags \ {"triggers"})
        BY <1>1, <2>3, NoTrigger DEF Inv
    <2> QED
        BY <2>1, <2>2, <2>3
<1>4. /\ tlb' = m.tlb /\ ptes' = m.pt
      /\ seen' = [v \in VPages |-> seen[v] \cup {m.pt[v]}]
    BY DEF fetch_slow_path
<1>5. PICK s \in m.sectors :
          \/ m.ok /\ refill_icache(va, s, m.tlb)
          \/ last' = None /\ UNCHANGED icache
    BY DEF fetch_slow_path
<1>6. /\ m0 \in Mid /\ m0.tlb = tlb /\ m0.pt = ptes /\ m0.ok /\ m0.sectors = {}
      /\ m = intrapage(m0, "fetch", {va}, {va}, vpn, no)
    BY DEF Mid, Inv, CachesOk, MmuType
<1> HIDE DEF vpn, no, m0, m
<1>7. PartDone(m0, m, "fetch", {va}, {va}, vpn)
    BY <1>2, <1>6, IntrapageOk DEF Inv, CachesOk, MmuType
<1>8. m \in Mid /\ m.tlb \in TlbType /\ m.pt \in PageTable
    BY <1>7 DEF PartDone, Mid
<1>9. \A v \in VPages : /\ seen[v] \subseteq seen'[v] /\ ptes'[v] \in seen'[v]
                        /\ IsFiniteSet(seen'[v])
    <2> SUFFICES ASSUME NEW v \in VPages
                 PROVE  /\ seen[v] \subseteq seen'[v] /\ ptes'[v] \in seen'[v]
                        /\ IsFiniteSet(seen'[v])
        OBVIOUS
    <2> DEFINE S == seen[v]
               T == {m.pt[v]}
    <2>1. IsFiniteSet(S) /\ IsFiniteSet(T)
        BY FS_Singleton DEF Inv, CachesOk, MmuType
    <2>2. seen'[v] = S \cup T /\ ptes'[v] \in T
        BY <1>4
    <2> HIDE DEF T, S
    <2>3. IsFiniteSet(S \cup T)
        BY <2>1, FS_Union
    <2> QED
        BY <2>2, <2>3 DEF S
<1>10. TlbOk(seen', m0.tlb) /\ m.pt[vpn] \in seen'[vpn]
    BY <1>2, <1>4, <1>6, <1>9, TlbMono DEF Inv, CachesOk, MmuType
<1>11. /\ TlbOk(seen', tlb')
       /\ m.ok => \E ppn \in Nat : /\ m.sectors = m0.sectors \cup SectorsAt(ppn, {va})
                                   /\ OnPage(seen', "fetch", {va}, {va}, ppn)
    BY <1>4, <1>6, <1>7, <1>10 DEF PartDone
<1>12. tlb' \in TlbType /\ ptes' \in PageTable /\ seen' \in [VPages -> SUBSET PteType]
    BY <1>4, <1>8 DEF PageTable, Inv, CachesOk, MmuType
<1>13. CASE m.ok /\ refill_icache(va, s, m.tlb)
    <2>1. Good(seen', "fetch", va, s)
        <3>1. PICK ppn \in Nat : /\ m.sectors = m0.sectors \cup SectorsAt(ppn, {va})
                                 /\ OnPage(seen', "fetch", {va}, {va}, ppn)
            BY <1>11, <1>13
        <3>2. s \in SectorsAt(ppn, {va})
            BY <1>5, <1>6, <3>1
        <3>3. s = ppn * PgSectors + (va % PgSectors)
            BY <3>2 DEF SectorsAt
        <3> QED
            BY <3>1, <3>3, AskedGood DEF OnPage
    <2>2. FetchOk(seen', va, s)
        BY <1>3, <2>1 DEF FetchOk
    <2> DEFINE tr == /\ Hit(m.tlb, "fetch", Page(va), Flags)
                     /\ "tracer" \in m.tlb["fetch"][Index(Page(va))].flags
                     /\ Interested("fetch", {s})
    <2>3. /\ icache' = IF log \/ tr THEN icache ELSE [icache EXCEPT ![va] = s]
          /\ fetch_done(va, s, tr)
        BY <1>13 DEF refill_icache
    <2>4. tr \/ Untold(s)
        <3> SUFFICES ASSUME ~Untold(s) PROVE tr
            OBVIOUS
        <3>1. Interested("fetch", {s})
            BY DEF Untold
        <3>2. /\ Hit(m.tlb, "fetch", Page(va), Flags)
              /\ "tracer" \in m.tlb["fetch"][Index(Page(va))].flags
            BY <1>1, <1>2, <1>5, <1>6, <1>10, <1>13, FetchFilled DEF vpn, Inv, CachesOk, MmuType
        <3> QED
            BY <3>1, <3>2
    <2> HIDE DEF tr
    <2>5. LastOk' /\ AccessObserved' /\ ScAtomic'
        BY <1>1, <2>2, <2>3, <2>4, FetchedOk DEF trigVars
    <2>6. CachesOk'
        BY <1>1, <1>9, <1>11, <1>12, <2>2, <2>3, <2>4, FetchKept DEF trigVars, Inv
    <2> QED
        BY <1>1, <2>5, <2>6 DEF Inv
<1>14. CASE last' = None /\ UNCHANGED icache
    <2>1. CachesOk'
        BY <1>1, <1>9, <1>11, <1>12, <1>14, FetchKept DEF trigVars, Inv
    <2> QED
        BY <1>1, <1>14, <2>1, NoAccess DEF Inv
<1> QED
    BY <1>5, <1>13, <1>14

-----------------------------------------------------------------------------
(* The other instructions                                                  *)

\* A step that flushes, whatever registers it writes.
LEMMA FlushStep ==
    ASSUME Inv, flush_tlb, UNCHANGED <<opt, ptes, lrVars>>, last' = None,
           PmpTypeOK', prv' \in Modes, mstatus' \in Statuses, log' \in BOOLEAN
    PROVE  Inv'
<1>1. CachesOk'
    BY FlushedOk DEF Inv, CachesOk, MmuType
<1>2. LrOk'
    BY DEF lrVars, Inv, LrOk
<1> QED
    BY <1>1, <1>2, NoAccess DEF Inv

\* A step that changes no rule, no entry of the TLB and no trigger.
LEMMA QuietStep ==
    ASSUME Inv, UNCHANGED Rules, UNCHANGED <<tlb, matched>>, icache' \in {icache, NoIcache},
           armed' /\ ~armed => late', late => late',
           ptes' \in PageTable, seen' \in [VPages -> SUBSET PteType],
           \A v \in VPages : /\ seen[v] \subseteq seen'[v] /\ ptes'[v] \in seen'[v]
                             /\ IsFiniteSet(seen'[v]),
           last' = None, LrOk'
    PROVE  Inv'
<1>1. CachesOk'
    BY KeptOk DEF Inv
<1> QED
    BY <1>1, NoAccess DEF Inv

\* A step that changes nothing of this.
LEMMA IdleStep ==
    ASSUME Inv, UNCHANGED Rules, UNCHANGED <<ptes, cacheVars, trigVars>>, last' = None, LrOk'
    PROVE  Inv'
BY QuietStep DEF cacheVars, trigVars, Inv, CachesOk, MmuType

\* Writes of mstatus and sstatus.
LEMMA StatusStep ==
    ASSUME Inv, NEW new \in Statuses, status_write(new) PROVE Inv'
<1>1. /\ UNCHANGED <<opt, prv, satp, ptes, trigVars, log, lrVars, pmpVars>>
      /\ mstatus' = new /\ last' = None
      /\ IF new # mstatus THEN flush_tlb ELSE UNCHANGED cacheVars
    <2>1. UNCHANGED <<opt, prv, satp, ptes, trigVars, log, lrVars, pmpVars>>
        BY Zenon DEF status_write, exec
    <2>2. mstatus' = new /\ last' = None
        BY Zenon DEF status_write, exec
    <2>3. IF new # mstatus THEN flush_tlb ELSE UNCHANGED cacheVars
        BY Zenon DEF status_write, flush_if
    <2> QED
        BY <2>1, <2>2, <2>3
<1>2. PmpTypeOK' /\ prv' \in Modes /\ log' \in BOOLEAN
    BY <1>1 DEF Inv, CachesOk, MmuType, PmpTypeOK, pmpVars
<1>3. CASE new # mstatus
    <2>1. flush_tlb
        BY <1>1, <1>3
    <2> QED
        BY <1>1, <1>2, <2>1, FlushStep
<1>4. CASE new = mstatus
    <2>1. UNCHANGED Rules /\ UNCHANGED cacheVars /\ LrOk'
        BY <1>1, <1>4 DEF Rules, csrVars, trigVars, lrVars, Inv, LrOk
    <2> QED
        BY <1>1, <2>1, IdleStep
<1> QED
    BY <1>3, <1>4

\* Writes of satp.
LEMMA SatpStep ==
    ASSUME Inv, NEW new, satp_write(new) PROVE Inv'
<1>1. /\ UNCHANGED <<opt, prv, mstatus, ptes, trigVars, log, lrVars, pmpVars>>
      /\ satp' = new /\ flush_if(new # satp) /\ last' = None
    BY DEF satp_write, exec
<1>2. PmpTypeOK' /\ prv' \in Modes /\ mstatus' \in Statuses /\ log' \in BOOLEAN
    BY <1>1 DEF Inv, CachesOk, MmuType, PmpTypeOK, pmpVars
<1>3. CASE new # satp
    <2>1. flush_tlb
        BY <1>1, <1>3 DEF flush_if
    <2> QED
        BY <1>1, <1>2, <2>1, FlushStep
<1>4. CASE new = satp
    <2>1. UNCHANGED Rules /\ UNCHANGED cacheVars /\ LrOk'
        BY <1>1, <1>4 DEF flush_if, Rules, csrVars, trigVars, lrVars, Inv, LrOk
    <2> QED
        BY <1>1, <2>1, IdleStep
<1> QED
    BY <1>3, <1>4

\* A region of interest begins with a flush; when one ends the caches are
\* empty, because nothing is entered while accesses are logged.
LEMMA RegionStep ==
    ASSUME Inv, trace_region PROVE Inv'
<1>1. /\ UNCHANGED <<opt, csrVars, ptes, trigVars, lrVars, pmpVars>>
      /\ log' = ~log /\ flush_if(~log) /\ last' = None
    BY DEF trace_region, exec
<1>2. PmpTypeOK' /\ prv' \in Modes /\ mstatus' \in Statuses /\ log' \in BOOLEAN
    BY <1>1 DEF Inv, CachesOk, MmuType, PmpTypeOK, pmpVars, csrVars
<1>3. CASE ~log
    <2>1. flush_tlb
        BY <1>1, <1>3 DEF flush_if
    <2> QED
        BY <1>1, <1>2, <2>1, FlushStep
<1>4. CASE log
    <2>1. UNCHANGED cacheVars
        BY <1>1, <1>4 DEF flush_if
    <2>2. \A type \in Types, i \in Slots : tlb'[type][i] = None
        BY <1>4, <2>1 DEF cacheVars, Inv, CachesOk, TlbOk, EntryOk
    <2>3. \A va \in Sectors : icache'[va] = None
        BY <1>4, <2>1 DEF cacheVars, Inv, CachesOk, IcacheOk
    <2>4. TlbOk(seen, tlb)' /\ IcacheOk(seen, icache)'
        BY <2>2, <2>3 DEF TlbOk, IcacheOk
    <2>5. FetchEmpty'
        BY <2>2 DEF FetchEmpty, Types
    <2>6. MmuType'
        BY <1>1, <1>2, <2>1 DEF cacheVars, Inv, CachesOk, MmuType
    <2>7. LrOk'
        BY <1>1 DEF lrVars, Inv, LrOk
    <2> QED
        BY <1>1, <2>4, <2>5, <2>6, <2>7, NoAccess DEF Inv, CachesOk
<1> QED
    BY <1>3, <1>4

\* The instructions and events that flush always.
LEMMA FlushingSteps ==
    ASSUME Inv, Next,
           \/ pmp_write \/ (\E t : trigger_write(t)) \/ sfence_vma \/ mret
           \/ \E p \in Modes : take_trap(p) \/ sret(p)
    PROVE  Inv'
<1>1. PmpTypeOK'
    BY PmpStepOK DEF PmpInv, Inv, CachesOk, MmuType
<1>2. prv \in Modes /\ mstatus \in Statuses /\ log \in BOOLEAN
    BY DEF Inv, CachesOk, MmuType
<1>3. CASE pmp_write
    BY <1>1, <1>2, <1>3, FlushStep DEF pmp_write, exec, csrVars
<1>4. CASE \E t : trigger_write(t)
    BY <1>1, <1>2, <1>4, FlushStep DEF trigger_write, exec, csrVars
<1>5. CASE sfence_vma
    BY <1>1, <1>2, <1>5, FlushStep DEF sfence_vma, exec, csrVars
<1>6. CASE mret
    <2>1. prv' \in Modes /\ mstatus' \in Statuses
        BY <1>2, <1>6 DEF mret, Statuses, Modes
    <2> QED
        BY <1>1, <1>2, <1>6, <2>1, FlushStep DEF mret, exec
<1>7. ASSUME NEW p \in Modes, take_trap(p) PROVE Inv'
    <2>1. prv' \in Modes /\ mstatus' \in Statuses
        BY <1>2, <1>7 DEF take_trap, Statuses
    <2> QED
        BY <1>1, <1>2, <1>7, <2>1, FlushStep DEF take_trap
<1>8. ASSUME NEW p \in Modes, sret(p) PROVE Inv'
    <2>1. prv' \in Modes /\ mstatus' \in Statuses
        BY <1>2, <1>8 DEF sret, Statuses
    <2> QED
        BY <1>1, <1>2, <1>8, <2>1, FlushStep DEF sret, exec
<1> QED
    BY <1>3, <1>4, <1>5, <1>6, <1>7, <1>8

\* The ones that flush nothing, or the instruction cache only.
LEMMA KeepingSteps ==
    ASSUME Inv,
           \/ arm \/ fence_i \/ other_insn \/ end_of_slice
           \/ \E v \in VPages : \E p \in opt.ptes[v] : write_pte(v, p)
    PROVE  Inv'
<1>1. /\ ptes \in PageTable /\ seen \in [VPages -> SUBSET PteType]
      /\ \A v \in VPages : ptes[v] \in seen[v] /\ IsFiniteSet(seen[v])
    BY DEF Inv, CachesOk, MmuType
<1>2. UNCHANGED lrVars => LrOk'
    BY DEF lrVars, Inv, LrOk
<1>3. CASE arm
    <2>1. UNCHANGED Rules /\ UNCHANGED <<tlb, matched, icache, ptes, seen, lrVars>> /\ last' = None
        BY <1>3 DEF arm, exec, Rules
    <2>2. (armed' /\ ~armed => late') /\ (late => late')
        BY <1>3 DEF arm
    <2> QED
        BY <1>1, <1>2, <2>1, <2>2, QuietStep
<1>4. CASE fence_i
    <2>1. /\ UNCHANGED Rules /\ UNCHANGED <<tlb, matched, armed, late, ptes, seen, lrVars>>
          /\ last' = None /\ icache' = NoIcache
        BY <1>4 DEF fence_i, exec, Rules, trigVars
    <2> QED
        BY <1>1, <1>2, <2>1, QuietStep
<1>5. CASE other_insn
    <2>1. UNCHANGED Rules /\ UNCHANGED <<ptes, cacheVars, trigVars, lrVars>> /\ last' = None
        BY <1>5 DEF other_insn, exec, Rules, trigVars
    <2> QED
        BY <1>2, <2>1, IdleStep
<1>6. CASE end_of_slice
    <2>1. UNCHANGED Rules /\ UNCHANGED <<ptes, cacheVars, trigVars>> /\ last' = None
        BY <1>6 DEF end_of_slice, Rules, trigVars
    <2>2. LrOk'
        <3>1. lr \in LrType /\ reservation' = None
            BY <1>6 DEF end_of_slice, Inv, LrOk
        <3>2. PICK stored \in BOOLEAN : lr' = [lr EXCEPT !.broken = @ \/ stored]
            BY <1>6 DEF end_of_slice
        <3>3. lr' \in LrType
            BY <3>1, <3>2 DEF LrType
        <3> QED
            BY <3>1, <3>3 DEF LrOk
    <2> QED
        BY <2>1, <2>2, IdleStep
<1>7. ASSUME NEW v \in VPages, NEW p \in opt.ptes[v], write_pte(v, p) PROVE Inv'
    <2>1. /\ UNCHANGED Rules /\ UNCHANGED <<tlb, matched, armed, late, icache, lrVars>>
          /\ last' = None /\ ptes' = [ptes EXCEPT ![v] = p]
          /\ seen' = [seen EXCEPT ![v] = @ \cup {p}]
        BY <1>7 DEF write_pte, exec, Rules, trigVars
    <2>2. p \in PteType
        BY MmuAssumption DEF Inv, CachesOk, MmuType
    <2>3. ptes' \in PageTable /\ seen' \in [VPages -> SUBSET PteType]
        BY <1>1, <2>1, <2>2 DEF PageTable
    <2>4. IsFiniteSet(seen[v] \cup {p})
        <3>1. IsFiniteSet(seen[v]) /\ IsFiniteSet({p})
            BY <1>1, FS_Singleton
        <3> QED
            BY <3>1, FS_Union
    <2>5. \A w \in VPages : /\ seen[w] \subseteq seen'[w] /\ ptes'[w] \in seen'[w]
                            /\ IsFiniteSet(seen'[w])
        BY <1>1, <2>1, <2>4 DEF PageTable
    <2> QED
        BY <1>2, <2>1, <2>3, <2>5, QuietStep
<1> QED
    BY <1>3, <1>4, <1>5, <1>6, <1>7

-----------------------------------------------------------------------------
(* The theorems                                                            *)

\* The caches are empty after reset.
LEMMA MmuInitOK == Init => Inv
<1> SUFFICES ASSUME Init PROVE Inv
    OBVIOUS
<1>1. PmpInv
    BY PmpInitOK
<1>2. /\ prv = "M" /\ mstatus = [mprv |-> FALSE, mpp |-> "U", sum |-> FALSE, mxr |-> FALSE]
      /\ tlb = NoTlb /\ icache = NoIcache /\ matched = FALSE /\ log = FALSE
      /\ reservation = None /\ last = None /\ lr = None
      /\ seen = [v \in VPages |-> {ptes[v]}]
    BY DEF Init
<1>3. ptes \in PageTable
    <2>1. ptes \in [VPages -> UNION {opt.ptes[v] : v \in VPages}]
          /\ \A v \in VPages : ptes[v] \in opt.ptes[v]
        BY Zenon DEF Init
    <2>2. \A v \in VPages : ptes[v] \in PteType
        BY <1>1, <2>1, MmuAssumption DEF PmpInv
    <2> QED
        BY <2>1, <2>2 DEF PageTable
<1>4. \A v \in VPages : seen[v] = {ptes[v]} /\ IsFiniteSet({ptes[v]})
    BY <1>2, FS_Singleton
<1>5. seen \in [VPages -> SUBSET PteType]
    BY <1>2, <1>3 DEF PageTable
<1>6. prv \in Modes /\ mstatus \in Statuses /\ log \in BOOLEAN
    BY <1>2 DEF Modes, Statuses
<1>7. MmuType
    BY <1>1, <1>2, <1>3, <1>4, <1>5, <1>6, NoTlbOk, NoIcacheOk DEF MmuType, PmpInv
<1>8. TlbOk(seen, tlb) /\ IcacheOk(seen, icache) /\ FetchEmpty
    BY <1>2, NoTlbOk, NoIcacheOk DEF FetchEmpty
<1>9. LrOk /\ LastOk /\ AccessObserved /\ ScAtomic
    BY <1>2 DEF LrOk, LastOk, AccessObserved, ScAtomic
<1> QED
    BY <1>7, <1>8, <1>9 DEF Inv, CachesOk

\* Nothing changes.
LEMMA MmuStutter == ASSUME Inv, UNCHANGED vars PROVE Inv'
<1>1. /\ UNCHANGED Rules /\ UNCHANGED <<ptes, cacheVars, trigVars, lrVars, last>>
    BY DEF vars, Rules, trigVars
<1>2. UNCHANGED <<ptes, tlb, icache, seen, late, trigger, armed, matched, last, reservation, lr>>
    BY <1>1 DEF cacheVars, trigVars, lrVars
<1>3. CachesOk'
    BY <1>1, <1>2, KeptOk DEF Inv, CachesOk, MmuType
<1>4. LrOk' /\ ScAtomic'
    BY <1>2 DEF Inv, LrOk, ScAtomic
<1>5. LastOk'
    <2>1. last' = last /\ seen' = seen
        BY <1>2
    <2>2. VasOf(last)' = VasOf(last) /\ PmpVas(last)' = PmpVas(last)
        BY <2>1 DEF VasOf, PmpVas, OnePage, Page
    <2>3. Covers(seen, last.type, PmpVas(last), VasOf(last), last.sectors) =>
              Covers(seen, last.type, PmpVas(last), VasOf(last), last.sectors)'
        <3>1. Covers(seen, last.type, PmpVas(last), VasOf(last), last.sectors) =>
                  Covers(seen', last'.type, PmpVas(last)', VasOf(last)', last'.sectors)
            BY <2>1, <2>2
        <3> QED
            BY <1>1, <3>1, CoversSame
    <2> QED
        BY <2>1, <2>2, <2>3 DEF Inv, LastOk
<1>6. AccessObserved'
    <2>1. opt' = opt /\ log' = log /\ mstatus' = mstatus /\ UNCHANGED pmpVars
        BY <1>1 DEF Rules, csrVars
    <2> QED
        BY <1>2, <2>1 DEF Inv, AccessObserved, Fires, Interested, pmp_homogeneous, subset_match,
                          tor_base, napot_size, pmpVars
<1> QED
    BY <1>3, <1>4, <1>5, <1>6 DEF Inv

\* Every step keeps the caches right.
LEMMA MmuStepOK == Inv /\ [Next]_vars => Inv'
<1> SUFFICES ASSUME Inv, [Next]_vars PROVE Inv'
    OBVIOUS
<1>1. CASE UNCHANGED vars
    BY <1>1, MmuStutter
<1>2. ASSUME NEW va \in Sectors, fetch(va) PROVE Inv'
    <2>1. \/ icache_hit(va) \/ tlb_fetch(va) \/ (throw_matched(va) \/ throw_trigger(va))
          \/ fetch_slow_path(va)
        BY <1>2 DEF fetch
    <2> QED
        BY <1>2, <2>1, IcacheStep, TlbFetchStep, ThrowStep, FetchSlowStep
<1>3. ASSUME NEW a, load(a) \/ store(a) \/ load_reserved(a) \/ store_conditional(a) PROVE Inv'
    BY <1>3, LoadStep, StoreStep, LrStep, ScStep
<1>4. ASSUME NEW m \in Statuses, status_write(m) PROVE Inv'
    BY <1>4, StatusStep
<1>5. ASSUME NEW s, satp_write(s) PROVE Inv'
    BY <1>5, SatpStep
<1>6. CASE trace_region
    BY <1>6, RegionStep
<1>7. ASSUME Next, \/ pmp_write \/ (\E t : trigger_write(t)) \/ sfence_vma \/ mret
                   \/ \E p \in Modes : take_trap(p) \/ sret(p)
      PROVE  Inv'
    BY <1>7, FlushingSteps
<1>8. ASSUME \/ arm \/ fence_i \/ other_insn \/ end_of_slice
             \/ \E v \in VPages : \E p \in opt.ptes[v] : write_pte(v, p)
      PROVE  Inv'
    BY <1>8, KeepingSteps
<1>9. CASE Next
    <2>1. \/ \E va \in Sectors : fetch(va)
          \/ \E a : load(a) \/ store(a) \/ load_reserved(a) \/ store_conditional(a)
          \/ \E m \in Statuses : status_write(m)
          \/ \E s : satp_write(s)
          \/ trace_region
          \/ (\/ pmp_write \/ (\E t : trigger_write(t)) \/ sfence_vma \/ mret
              \/ \E p \in Modes : take_trap(p) \/ sret(p))
          \/ (\/ arm \/ fence_i \/ other_insn \/ end_of_slice
              \/ \E v \in VPages : \E p \in opt.ptes[v] : write_pte(v, p))
        BY <1>9, Zenon DEF Next
    <2> QED
        BY <1>2, <1>3, <1>4, <1>5, <1>6, <1>7, <1>8, <1>9, <2>1
<1> QED
    BY <1>1, <1>9

\* What the TLBs and the instruction cache hold is always what a walk and the
\* PMP would say now, for the whole of a page that a tracer, a trigger or the
\* log may watch: every register write that matters empties them, and a page
\* enters only if the PMP treats all of it alike.
THEOREM MmuInvariant == Spec => []Inv
BY MmuInitOK, MmuStepOK, PTL DEF Spec

\* What AccessAllowed asks of the sector s for address va.
Allowed(type, asked, va, s) ==
    LET mode == effective_priv(type) IN
    /\ s % PgSectors = va % PgSectors
    /\ va \in asked \/ pmp_homogeneous(Page(s)) => pmp_ok({s}, type, mode)
    /\ IF Bare(mode) THEN s = va
       ELSE \E p \in seen[Page(va)] :
               Permits(p, type, mode) /\ Used(p, type) = p /\ p.ppn = Page(s)

\* A sector that an access reached is one that the registers allow.
LEMMA ReachedAllowed ==
    ASSUME NEW type, NEW asked, NEW va \in Nat, NEW s, Reached(seen, type, asked, va, s)
    PROVE  Allowed(type, asked, va, s)
<1>1. /\ s \in Nat /\ s % PgSectors = va % PgSectors
      /\ va \in asked \/ pmp_homogeneous(Page(s)) => pmp_ok({s}, type, effective_priv(type))
      /\ Legal(seen, type, Page(va), Page(s))
    BY DEF Reached
<1>2. ASSUME Page(s) = Page(va) PROVE s = va
    BY <1>1, <1>2, SectorSplit
<1> QED
    BY <1>1, <1>2 DEF Legal, Allowed

\* Every access that is made is one the registers of that moment allow, to the
\* sectors that the page table names, through whichever cache it went
\* (mmu.h:90, 318), but for the last sector of an access that begins inside a
\* sector, which pmp_ok passes over (mmu.cc:432): AccessAllowed for every
\* program and every memory.
THEOREM MmuAccessAllowed == Spec => []AccessAllowed
<1>1. Inv => AccessAllowed
    <2> SUFFICES ASSUME Inv, last # None, last.sectors # {}, NEW va \in VasOf(last)
                 PROVE  \E s \in last.sectors : Allowed(last.type, PmpVas(last), va, s)
        BY Zenon DEF AccessAllowed, Allowed
    <2>1. PICK s \in last.sectors : Reached(seen, last.type, PmpVas(last), va, s)
        BY DEF Inv, LastOk, Covers
    <2>2. va \in Nat
        BY DEF Inv, LastOk
    <2> QED
        BY <2>1, <2>2, ReachedAllowed
<1> QED
    BY <1>1, MmuInvariant, PTL

\* No access escapes a trigger, a tracer or the log that asked for it,
\* whichever path it takes (mmu.h:90, mmu.cc:206, 255): AccessObserved for
\* every program and every memory.
THEOREM MmuAccessObserved == Spec => []AccessObserved
<1>1. Inv => AccessObserved
    BY DEF Inv
<1> QED
    BY <1>1, MmuInvariant, PTL

\* A store-conditional stores to the sector that its hart reserved and that no
\* other hart stored to since (sim.cc:315), although it is translated a second
\* time for the store: ScAtomic for every program and every memory.
THEOREM MmuScAtomic == Spec => []ScAtomic
<1>1. Inv => ScAtomic
    BY DEF Inv
<1> QED
    BY <1>1, MmuInvariant, PTL
=============================================================================
