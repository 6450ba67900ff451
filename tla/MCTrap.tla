------------------------------- MODULE MCTrap -------------------------------
(***************************************************************************)
(* Delegation settings for TrapHandlers.                                   *)
(***************************************************************************)
EXTENDS TrapHandlers

\* A hypervisor that delegates to its guest, with every double trap caught.
Nested == [ mideleg |-> {"SSI"}, hideleg |-> {"VSSI"},
            medeleg |-> {"fault", "ecall_u", "ecall_vs"}, hedeleg |-> {"fault", "ecall_u"},
            smdbltrp |-> TRUE, menvcfg_dte |-> TRUE, henvcfg_dte |-> TRUE ]

Settings ==
    { Nested,
      [Nested EXCEPT !.smdbltrp = FALSE, !.menvcfg_dte = FALSE, !.hideleg = {}, !.hedeleg = {"ecall_u"}],
      [Nested EXCEPT !.henvcfg_dte = FALSE, !.mideleg = {}, !.medeleg = {"ecall_vs"}] }
=============================================================================
