-------------------------------- MODULE MCMmu --------------------------------
(***************************************************************************)
(* Four pages of two sectors: page 0 holds the code and the page table,    *)
(* page 3 is a device.                                                     *)
(***************************************************************************)
EXTENDS Mmu

Pte(page, rights) ==
    [ppn |-> page, v |-> TRUE, r |-> "r" \in rights, w |-> "w" \in rights, x |-> "x" \in rights,
     u |-> "u" \in rights, a |-> "a" \in rights, d |-> "d" \in rights]

Cfg(mode, rights) ==
    [A |-> mode, R |-> "r" \in rights, W |-> "w" \in rights, X |-> "x" \in rights,
     L |-> "l" \in rights]

Identity == [v \in VPages |-> {Pte(v, {"r", "w", "x", "a", "d"})}]
Normal   == [mprv |-> FALSE, mpp |-> "U", sum |-> FALSE, mxr |-> FALSE]
At(va)   == [va |-> va, len |-> 1, off |-> 0]
Two(va)  == [va |-> va, len |-> 2, off |-> 0]
In(va)   == [va |-> va, len |-> 1, off |-> 1]

\* Every feature off.
Plain ==
    [prv |-> {"M"}, mstatus |-> {}, satp |-> {}, ptes |-> Identity,
     pmpaddr |-> {}, pmpcfg |-> {}, mseccfg |-> {}, triggers |-> {}, traced |-> {}, log |-> FALSE,
     adue |-> TRUE, misaligned |-> FALSE,
     fetches |-> {0}, loads |-> {}, stores |-> {}, reserves |-> {}]

\* A supervisor and a user whose page 1 moves between two pages of memory.
Paging ==
    [Plain EXCEPT !.prv = Modes, !.satp = {"bare", "paged"},
        !.mstatus = {Normal, [Normal EXCEPT !.sum = TRUE], [Normal EXCEPT !.mprv = TRUE]},
        !.ptes = [Identity EXCEPT ![1] = {Pte(1, {"r", "w", "u"}), Pte(2, {"x"}), Pte(2, {"r", "a"})}],
        !.fetches = {0, 2}, !.loads = {At(2)}, !.stores = {At(2)}]

\* The machine monitor writes PMP entries that end inside pages while a
\* supervisor, itself under MPRV, accesses one sector or two, and a word that
\* begins in the middle of a sector.
Protected ==
    [Plain EXCEPT !.prv = {"S", "M"}, !.mstatus = {Normal, [Normal EXCEPT !.mprv = TRUE, !.mpp = "S"]},
        !.pmpaddr = {1, 2, 3, 7},
        !.pmpcfg = {Cfg("OFF", {}), Cfg("TOR", {"r", "x"}), Cfg("NA4", {"r"}), Cfg("NAPOT", {"r", "w", "x"})},
        !.loads = {At(2), Two(2), Two(1)}, !.stores = {At(3), In(2), In(3)},
        !.misaligned = TRUE]

\* Locked entries and lockdown.
Locks ==
    [Plain EXCEPT !.pmpaddr = {1, 3, 6},
        !.pmpcfg = {Cfg("OFF", {}), Cfg("TOR", {"r", "x", "l"}), Cfg("TOR", {"w", "l"}),
                    Cfg("TOR", {"r", "w", "x"}), Cfg("NAPOT", {"r", "w", "x", "l"}), Cfg("NA4", {"x", "l"})},
        !.mseccfg = SeccfgType, !.fetches = {0, 4}]

\* Triggers, tracers and the log, with accesses to memory and to the device.
Observed ==
    [Plain EXCEPT !.log = TRUE, !.misaligned = TRUE,
        !.triggers = {None, [type |-> "load", va |-> 4, after |-> TRUE],
                      [type |-> "store", va |-> 6, after |-> FALSE],
                      [type |-> "fetch", va |-> 3, after |-> FALSE]},
        !.traced = {<<"load", 5>>, <<"store", 4>>, <<"fetch", 2>>},
        !.fetches = {0, 2, 3}, !.loads = {At(4), At(7), Two(5)}, !.stores = {At(4), At(6)}]

\* Reservations, with two aliases of a page and a page that moves.
Reserving ==
    [Plain EXCEPT !.prv = {"S", "M"}, !.satp = {"paged"},
        !.ptes = [Identity EXCEPT ![1] = {Pte(1, {"r", "w"}), Pte(2, {"r", "w", "a", "d"})}],
        !.triggers = {None, [type |-> "store", va |-> 2, after |-> FALSE]},
        !.stores = {At(2)}, !.reserves = {At(2), At(4)}]

Programs == {Paging, Protected, Locks, Observed, Reserving}
=============================================================================
