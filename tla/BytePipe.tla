------------------------------ MODULE BytePipe ------------------------------
(***************************************************************************)
(* What a console promises to those at its two ends: bytes, numbered in    *)
(* the order they are sent, come out in that order, each once, unless the  *)
(* receiver asks for those in between to be discarded; and they do come    *)
(* out.                                                                    *)
(***************************************************************************)
EXTENDS Naturals, Sequences

VARIABLES
    sent,       \* number of bytes sent
    received,   \* the bytes received, in order
    discarded   \* the set of bytes discarded

pipeVars == <<sent, received, discarded>>

Under == {b \in 1 .. sent : b \notin discarded /\ \A i \in DOMAIN received : received[i] # b}

Init == sent = 0 /\ received = <<>> /\ discarded = {}

Send == sent' = sent + 1 /\ UNCHANGED <<received, discarded>>

\* The oldest byte on its way comes out.
Receive ==
    /\ \E b \in Under : /\ \A c \in Under : b <= c
                        /\ received' = Append(received, b)
    /\ UNCHANGED <<sent, discarded>>

\* Bytes on their way are dropped, the oldest first.
Discard ==
    /\ \E b \in Under : discarded' = discarded \cup {c \in Under : c <= b}
    /\ UNCHANGED <<sent, received>>

Next == Send \/ Receive \/ Discard

Spec == Init /\ [][Next]_pipeVars /\ WF_pipeVars(Receive)
=============================================================================
