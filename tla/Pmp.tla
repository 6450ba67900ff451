--------------------------------- MODULE Pmp ---------------------------------
(***************************************************************************)
(* Physical memory protection: the pmpaddr, pmpcfg and mseccfg registers   *)
(* of csrs.cc with their locks, and the checks mmu.cc makes with them.     *)
(*                                                                         *)
(* A physical address is the number of a sector, the four bytes that are   *)
(* the granularity of an entry; PgSectors of them make a page. The         *)
(* registers are written by machine mode, any value of PmpVals and PmpCfgs *)
(* at any time.                                                            *)
(***************************************************************************)
EXTENDS Naturals, FiniteSets

CONSTANTS
    NPmp,        \* number of entries, proc->n_pmp
    NPages,      \* number of physical pages
    PgSectors,   \* sectors in a page, a power of two
    AddrBits     \* bits of a physical address, in sectors

ASSUME PmpAssumption ==
    /\ NPmp \in Nat /\ NPages \in Nat \ {0}
    /\ PgSectors \in Nat \ {0}
    /\ AddrBits \in Nat /\ 2 ^ AddrBits \in Nat \ {0}

VARIABLES
    pmpaddr,     \* [entry -> value], in units of a sector
    pmpcfg,      \* [entry -> [A, R, W, X, L]]
    mseccfg      \* [mml, mmwp, rlb]

pmpVars == <<pmpaddr, pmpcfg, mseccfg>>

Entries == 0 .. NPmp - 1
Pages   == 0 .. NPages - 1
AllOnes == 2 ^ AddrBits - 1
Powers  == {2 ^ k : k \in 0 .. AddrBits}
Sectors == 0 .. NPages * PgSectors - 1
Types   == {"fetch", "load", "store"}
Modes   == {"U", "S", "M"}
Page(s) == s \div PgSectors
SectorsOf(page) == {s \in Sectors : Page(s) = page}

\* What is true of powers of two: of two of them one divides the other.
ASSUME PowersAssumption ==
    /\ 1 \in Powers
    /\ \A p \in Powers : /\ p \in 1 .. 2 ^ AddrBits
                         /\ (2 * p) % PgSectors = 0 \/ PgSectors % (2 * p) = 0

CfgType    == [A : {"OFF", "TOR", "NA4", "NAPOT"},
               R : BOOLEAN, W : BOOLEAN, X : BOOLEAN, L : BOOLEAN]
SeccfgType == [mml : BOOLEAN, mmwp : BOOLEAN, rlb : BOOLEAN]
Off        == [A |-> "OFF", R |-> FALSE, W |-> FALSE, X |-> FALSE, L |-> FALSE]

-----------------------------------------------------------------------------
(* Which sectors an entry matches                                          *)

tor_base(i) == IF i = 0 THEN 0 ELSE pmpaddr[i - 1]

\* The trailing ones of an address in NAPOT mode encode the size.
napot_size(i) ==
    IF pmpcfg[i].A = "NA4" THEN 1
    ELSE 2 * CHOOSE p \in Powers :
                /\ (pmpaddr[i] + 1) % p = 0
                /\ \A q \in Powers : (pmpaddr[i] + 1) % q = 0 => q <= p

match4(i, s) ==
    /\ pmpcfg[i].A # "OFF"
    /\ IF pmpcfg[i].A = "TOR"
       THEN tor_base(i) <= s /\ s < pmpaddr[i]
       ELSE s \div napot_size(i) = pmpaddr[i] \div napot_size(i)

\* Mutant: the end of a range is taken for its last sector.
subset_match_mut(i, page) ==
    LET addr == page * PgSectors
        tor_homogeneous   == \/ page < Page(tor_base(i))
                             \/ addr >= pmpaddr[i]
                             \/ addr >= tor_base(i) /\ page <= Page(pmpaddr[i])
        napot_homogeneous == napot_size(i) >= PgSectors \/ page # Page(pmpaddr[i])
    IN  /\ pmpcfg[i].A # "OFF"
        /\ ~ IF pmpcfg[i].A = "TOR" THEN tor_homogeneous ELSE napot_homogeneous

\* The entry matches a part of the page and not all of it, decided from the
\* bounds of the two alone.
subset_match(i, page) ==
    LET addr == page * PgSectors
        tor_homogeneous   == \/ page < Page(tor_base(i))
                             \/ addr >= pmpaddr[i]
                             \/ addr >= tor_base(i) /\ page < Page(pmpaddr[i])
        napot_homogeneous == napot_size(i) >= PgSectors \/ page # Page(pmpaddr[i])
    IN  /\ pmpcfg[i].A # "OFF"
        /\ ~ IF pmpcfg[i].A = "TOR" THEN tor_homogeneous ELSE napot_homogeneous

pmp_homogeneous(page) == \A i \in Entries : ~ subset_match(i, page)

-----------------------------------------------------------------------------
(* What an entry allows                                                    *)

normal_rwx(c, type) == CASE type = "load"  -> c.R
                         [] type = "store" -> c.W
                         [] OTHER          -> c.X

mml_shared(c, type, mode) ==
    \/ ~c.L /\ (type = "load" \/ (type = "store" /\ (c.X \/ mode = "M")))
    \/ c.L /\ (type = "fetch" \/ (type = "load" /\ c.X /\ mode = "M"))

\* The permissions of a configuration, with and without machine mode lockdown.
access_ok(c, type, mode) ==
    IF mseccfg.mml
    THEN CASE c.X /\ c.W /\ c.R /\ c.L -> type = "load"
           [] ~c.R /\ c.W              -> mml_shared(c, type, mode)
           [] OTHER                    -> (mode = "M") = c.L /\ normal_rwx(c, type)
    ELSE (mode = "M" /\ ~c.L) \/ normal_rwx(c, type)

\* The first entry that matches one of the sectors decides; it has to match all
\* of them. They are the ones that the code's loop meets, every fourth byte
\* from the first one on: not always all that the access touches (Mmu!PmpVas).
pmp_ok(sectors, type, mode) ==
    LET hits == {i \in Entries : \E s \in sectors : match4(i, s)}
    IN  \/ NPmp = 0
        \/ \E i \in hits : /\ \A j \in hits : i <= j
                           /\ \A s \in sectors : match4(i, s)
                           /\ access_ok(pmpcfg[i], type, mode)
        \/ /\ hits = {} /\ mode = "M"
           /\ ~mseccfg.mmwp /\ (mseccfg.mml => type # "fetch")

-----------------------------------------------------------------------------
(* Register writes                                                         *)

\* After reset the first entry opens all of memory (processor_t::reset).
PmpInit ==
    /\ pmpaddr = [i \in Entries |-> IF i = 0 THEN AllOnes ELSE 0]
    /\ pmpcfg = [i \in Entries |-> IF i = 0 THEN [A |-> "NAPOT", R |-> TRUE, W |-> TRUE,
                                                   X |-> TRUE, L |-> FALSE] ELSE Off]
    /\ mseccfg = [mml |-> FALSE, mmwp |-> FALSE, rlb |-> FALSE]

locked(i) == pmpcfg[i].L /\ ~mseccfg.rlb

next_locked_and_tor(i) == i + 1 \in Entries /\ locked(i + 1) /\ pmpcfg[i + 1].A = "TOR"

\* Mutant: the address of an entry is not the base of the next one.
pmpaddr_write_mut(i, val) ==
    /\ ~locked(i)
    /\ pmpaddr' = [pmpaddr EXCEPT ![i] = val]
    /\ UNCHANGED <<pmpcfg, mseccfg>>

\* A write that is dropped changes nothing and flushes nothing.
pmpaddr_write(i, val) ==
    /\ ~locked(i) /\ ~next_locked_and_tor(i)
    /\ pmpaddr' = [pmpaddr EXCEPT ![i] = val]
    /\ UNCHANGED <<pmpcfg, mseccfg>>

\* Mutant: the write and execute rule is not looked at.
legal_cfg_mut(i, c) ==
    LET new == [c EXCEPT !.W = @ /\ (mseccfg.mml \/ c.R)]
        adds_m_code == mseccfg.mml /\ new.L /\ new.X /\ ~(new.W /\ new.R)
    IN  IF locked(i) \/ (adds_m_code /\ ~mseccfg.rlb) THEN pmpcfg[i] ELSE new

\* What one byte of pmpcfg becomes. Without lockdown there is no W without R;
\* with it no rule that lets machine mode execute is added.
legal_cfg(i, c) ==
    LET new == [c EXCEPT !.W = @ /\ (mseccfg.mml \/ c.R)]
        adds_m_code == /\ mseccfg.mml /\ new.L
                       /\ ~(new.X /\ new.W /\ new.R) /\ (new.X \/ (new.W /\ ~new.R))
    IN  IF locked(i) \/ (adds_m_code /\ ~mseccfg.rlb) THEN pmpcfg[i] ELSE new

\* One register holds the configurations of all entries.
pmpcfg_write(cfgs) ==
    /\ pmpcfg' = [i \in Entries |-> legal_cfg(i, cfgs[i])]
    /\ UNCHANGED <<pmpaddr, mseccfg>>

\* mml and mmwp are sticky; rlb cannot be set once an entry is locked.
mseccfg_write(val) ==
    /\ mseccfg' = [mml  |-> mseccfg.mml \/ val.mml,
                   mmwp |-> mseccfg.mmwp \/ val.mmwp,
                   rlb  |-> IF ~mseccfg.rlb /\ \E i \in Entries : pmpcfg[i].L
                            THEN FALSE ELSE val.rlb]
    /\ UNCHANGED <<pmpaddr, pmpcfg>>

PmpTypeOK ==
    /\ pmpaddr \in [Entries -> Nat]
    /\ pmpcfg \in [Entries -> CfgType]
    /\ mseccfg \in SeccfgType

-----------------------------------------------------------------------------
(* Properties                                                              *)

\* What a locked entry protects is fixed until reset: neither its
\* configuration nor the sectors it matches change, by a write to it, to the
\* entry whose address is its base, or by lifting the lock.
LockedFixed ==
    [][\A i \in Entries : locked(i) =>
        /\ locked(i)' /\ pmpcfg'[i] = pmpcfg[i]
        /\ \A s \in Sectors : match4(i, s)' = match4(i, s)]_pmpVars

\* The sectors some rule lets machine mode execute.
MCode == {s \in Sectors : \E i \in Entries :
             match4(i, s) /\ access_ok(pmpcfg[i], "fetch", "M")}

\* Under lockdown no rule that gives machine mode code is added, whatever is
\* written in whatever order to the three registers (csrs.cc:260-275).
LockdownHolds ==
    [][mseccfg.mml /\ ~mseccfg.rlb /\ ~mseccfg'.rlb => MCode' \subseteq MCode]_pmpVars

=============================================================================
