----------------------------- MODULE MCBbTracer -----------------------------
(***************************************************************************)
(* Addresses for BbTracer.                                                 *)
(***************************************************************************)
EXTENDS BbTracer

Pair     == {4, 8}           \* straight from 4 to 8, else a jump
=============================================================================
