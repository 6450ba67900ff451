---------------------------- MODULE MCStfTracer -----------------------------
(***************************************************************************)
(* A program and the command lines for StfTracer.                          *)
(***************************************************************************)
EXTENDS StfTracer

\* User code with every kind of instruction, then the trap handler.
ProgAll == <<"start", "branch", "mem", "csr", "ecall", "stop", "wfi", "jump",
             "plain", "satp", "sret">>

Count(start, count, modes, mem) ==
    [macro |-> FALSE, start |-> start, count |-> count, exit |-> FALSE,
     include |-> FALSE, modes |-> modes, mem |-> mem]
Macro(exit, include, modes) ==
    [macro |-> TRUE, start |-> 0, count |-> 0, exit |-> exit,
     include |-> include, modes |-> modes, mem |-> FALSE]

CommandLines ==
    {<<Count(2, 4, {"U", "S"}, FALSE)>>, <<Count(3, 5, {"U"}, TRUE)>>,
     <<[Count(2, 9, {"U", "S"}, FALSE) EXCEPT !.exit = TRUE]>>,
     <<Macro(FALSE, TRUE, {"U", "S"})>>, <<Macro(FALSE, FALSE, {"U"})>>,
     <<Macro(TRUE, FALSE, {"U", "S"})>>, <<Macro(FALSE, FALSE, {"S"})>>,
     <<Count(1, 6, {"U", "S"}, FALSE), Macro(FALSE, FALSE, {"U"})>>}
=============================================================================
