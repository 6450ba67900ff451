----------------------------- MODULE MCStepLoop -----------------------------
(***************************************************************************)
(* Programs and command lines for StepLoop.                                *)
(***************************************************************************)
EXTENDS StepLoop

I(kind, user) == [kind |-> kind, user |-> user]

\* Straight-line user code in a loop, with the checkpoint no-op.
ProgMacro == <<I("plain", TRUE), I("plain", TRUE), I("macro", TRUE), I("plain", TRUE)>>

\* User code, a csr access, a wait and a system call; a handler that returns.
ProgMixed == <<I("plain", TRUE), I("csr", TRUE), I("wfi", TRUE), I("ecall", TRUE),
               I("plain", FALSE), I("ret", FALSE)>>

\* A region of interest.  With intervals of two: a csr access at the first
\* boundary, a system call at the second, a handler at the third.
ProgRoi == <<I("roi", TRUE), I("plain", TRUE), I("csr", TRUE), I("plain", TRUE),
             I("ecall", TRUE), I("ecall", TRUE), I("plain", TRUE), I("stop", TRUE),
             I("plain", FALSE), I("ret", FALSE)>>

\* The mixed program with the checkpoint no-op.
ProgMixed2 == [ProgMixed EXCEPT ![1].kind = "macro"]

\* No checkpoint of any kind.
Quiet == [prog |-> ProgMixed, handler |-> 5, requests |-> <<>>, simpoint_size |-> 1,
          interval |-> 0, interrupts |-> TRUE, async |-> 0, restores |-> 0, insns |-> 6]

\* Two times through the region, interrupts anywhere in it, with a checkpoint
\* per SimPoint interval, and three requests given out of order.
AskedFor == [Quiet EXCEPT !.prog = ProgRoi, !.handler = 9, !.requests = <<5, 1, 3>>,
                          !.simpoint_size = 2, !.interval = 2, !.insns = 14]

\* Checkpoints by no-op and signal anywhere in the slice, one restore.
Restored == [Quiet EXCEPT !.prog = ProgMixed2, !.async = 1, !.restores = 1]

\* A signal or the no-op comes between the requests.
Disturbed == [Quiet EXCEPT !.prog = ProgMacro, !.handler = 1, !.requests = <<4, 2>>,
                           !.interrupts = FALSE, !.async = 1]

Checkpoints  == {AskedFor, Restored}
LostRequests == {Disturbed}
=============================================================================
