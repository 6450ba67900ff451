----------------------------- MODULE MCMachine ------------------------------
(***************************************************************************)
(* Two harts: one reads the console while the other makes system calls.    *)
(***************************************************************************)
EXTENDS Machine, TLC

TwoHarts == {0, 1}

Long  == (0 :> <<"read", "call">>) @@ (1 :> <<"call", "getc">>)
Short == (0 :> <<"write">>) @@ (1 :> <<"identify">>)
One   == (0 :> <<>>) @@ (1 :> <<"call">>)

\* Whole slices over a carry from the low to the high half of the time, the
\* interactive mode, and the host's clock.
ThreeConfigs ==
    { [script |-> Long,  grants |-> {4}, real_time |-> FALSE, boot |-> 3,
       nops |-> 1, keys |-> 1],
      [script |-> Short, grants |-> {1, 4}, real_time |-> FALSE, boot |-> 0,
       nops |-> 1, keys |-> 0],
      [script |-> One,   grants |-> {4}, real_time |-> TRUE, boot |-> 0,
       nops |-> 0, keys |-> 0] }
=============================================================================
