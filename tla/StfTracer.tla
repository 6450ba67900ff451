------------------------------ MODULE StfTracer -----------------------------
(***************************************************************************)
(* The STF tracers (riscv/stf_tracer.h), the handler that passes every     *)
(* instruction and every trap to them (riscv/stf_handler.h), and what the  *)
(* loop of processor_t::step does for their sake: it leaves the fast loop, *)
(* which traces nothing, before the first instruction of a region.         *)
(*                                                                         *)
(* The program is a constant, as in StepLoop: user code that ends in a     *)
(* jump to 1, then the supervisor's trap handler.  Kinds: plain, mem (may  *)
(* fault), branch (over one instruction), jump, csr, satp (switches to the *)
(* other process), sret, ecall, wfi, and start and stop, the macros.       *)
(*                                                                         *)
(* Of a trace file the model keeps what a reader knows: reader is the pc   *)
(* it will give to the next instruction record; if the last step wrote     *)
(* one, read is the pc it gave to that and wrote the true one, else 0.     *)
(***************************************************************************)
EXTENDS Integers, Sequences

CONSTANTS
    Prog,      \* the kinds, by pc
    Handler,   \* the pc of the trap handler; what is before is user code
    Configs,   \* sets of command lines: sequences of tracer configurations
    MaxInsns   \* bound: retired instructions

Pcs   == 1 .. Len(Prog)
Procs == {"A", "B"}
Other(p)  == IF p = "A" THEN "B" ELSE "A"
PrivOf(p) == IF p < Handler THEN "U" ELSE "S"

ASSUME StfTracerAssumption ==
    /\ Prog \in Seq(STRING) /\ Handler \in Pcs /\ MaxInsns \in Nat
    /\ \A p \in Pcs : Prog[p] = "satp" => PrivOf(p) = "S"
    /\ \A c \in Configs : \A t \in DOMAIN c :
          /\ c[t].start \in Nat /\ c[t].count \in Nat
          /\ c[t].macro \in BOOLEAN /\ c[t].exit \in BOOLEAN /\ c[t].include \in BOOLEAN
          /\ c[t].mem \in BOOLEAN

VARIABLES
    conf,           \* the tracers of this run
    tracers,        \* their state, in the same order
    executed,       \* executed_instructions, the same for all tracers
    loop,           \* "top", "slow", "fast" or "over"
    pc, epc, satp, serialized, in_wfi,
    last_inst_priv,
    retired,        \* history: instructions retired
    open,           \* history: a START and no STOP since has been retired
    expected        \* history: the tracers that must have a record of the last
                    \* step, if it retired an instruction, else AnySet

hartVars == <<pc, epc, satp, serialized, in_wfi, last_inst_priv>>
history  == <<retired, open, expected>>
vars     == <<conf, tracers, executed, loop, hartVars, history>>

AnySet == {-1}
T == DOMAIN conf
None == "none"

Init ==
    /\ conf \in Configs
    /\ tracers = [t \in T |-> [pending |-> FALSE, inreg |-> FALSE, writer |-> FALSE,
                               stale |-> FALSE, complete |-> FALSE, ppn |-> None,
                               reader |-> 0, read |-> 0, wrote |-> 0]]
    /\ executed = 0 /\ loop = "top" /\ pc = 1 /\ epc = 1 /\ satp = "A"
    /\ serialized = FALSE /\ in_wfi = FALSE /\ last_inst_priv = "U"
    /\ retired = 0 /\ open = FALSE /\ expected = AnySet

-----------------------------------------------------------------------------
(* One tracer: c is its configuration, x its state, i what it is given.    *)

in_traceable_region(x) == x.inreg \/ x.pending

is_start_of_region(c, kind, count) ==
    IF c.macro THEN kind = "start" ELSE count = c.start

\* Privilege and, if only user code is traced, the address space.
Traceable(c, x, priv, ppn) == priv \in c.modes /\ (c.modes = {"U"} => x.ppn = ppn)

open_trace(x, i) == IF x.writer THEN x ELSE [x EXCEPT !.writer = TRUE, !.reader = i.pc]

\* record_machine_state of the registers is left out: it makes the pc stale.
start_region(x, i) ==
    open_trace([x EXCEPT !.inreg = TRUE, !.stale = TRUE,
                         !.ppn = IF x.ppn = None THEN i.ppn ELSE x.ppn], i)

\* Mutant: an instruction that is not traced leaves the pc record valid.
trace_element_mut(c, x, i) ==
    LET y == open_trace(x, i)
    IN  IF Traceable(c, y, i.priv, i.ppn)
        THEN [y EXCEPT !.stale = FALSE, !.wrote = i.pc,
                       !.read = IF y.stale THEN i.pc ELSE y.reader,
                       !.reader = IF i.taken THEN i.npc ELSE i.pc + 1]
        ELSE y

\* A record of the instruction, after a forced pc if the reader lost track.
trace_element(c, x, i) ==
    LET y == open_trace(x, i)
    IN  IF Traceable(c, y, i.priv, i.ppn)
        THEN [y EXCEPT !.stale = FALSE, !.wrote = i.pc,
                       !.read = IF y.stale THEN i.pc ELSE y.reader,
                       !.reader = IF i.taken THEN i.npc ELSE i.pc + 1]
        ELSE [y EXCEPT !.stale = TRUE]

terminate(x) == [x EXCEPT !.complete = TRUE, !.writer = FALSE]

\* Mutant: the trace ends one instruction early.
trace_count_insn_mut(c, x, i) ==
    IF (i.kind = "stop" /\ c.exit) \/ executed + 1 = c.start + c.count
    THEN [terminate(x) EXCEPT !.inreg = FALSE]
    ELSE LET y == IF executed = c.start THEN start_region(x, i) ELSE x
         IN  IF y.inreg THEN trace_element(c, y, i) ELSE y

\* Tracing of insn_count instructions from insn_start on.
trace_count_insn(c, x, i) ==
    IF (i.kind = "stop" /\ c.exit) \/ executed = c.start + c.count
    THEN [terminate(x) EXCEPT !.inreg = FALSE]
    ELSE LET y == IF executed = c.start THEN start_region(x, i) ELSE x
         IN  IF y.inreg THEN trace_element(c, y, i) ELSE y

\* Tracing between the macros, which are records themselves with include.
trace_macro_insn(c, x, i) ==
    IF i.kind = "stop"
    THEN LET y == IF c.include /\ x.inreg THEN trace_element(c, x, i) ELSE x
         IN  IF c.exit THEN terminate(y) ELSE [y EXCEPT !.inreg = FALSE]
    ELSE LET y == IF i.kind = "start" THEN start_region(x, i) ELSE x
         IN  IF y.inreg /\ (i.kind = "start" => c.include)
             THEN trace_element(c, y, i) ELSE y

trace_insn(c, x, i) ==
    LET y == [x EXCEPT !.pending = FALSE]
    IN  IF c.macro THEN trace_macro_insn(c, y, i) ELSE trace_count_insn(c, y, i)

\* A trap: the instruction, or a nop for an interrupt, is traced with its
\* target if both sides of it are; a traced user ecall also if the handler
\* is not.
trace_event(c, x, i, handler) ==
    LET both  == Traceable(c, x, i.priv, i.ppn) /\ handler \in c.modes
        ecall == i.kind = "ecall" /\ (c.modes = {"U"} => x.ppn = i.ppn)
        y     == trace_insn(c, x, [i EXCEPT !.taken = FALSE])
    IN  IF ~(both \/ ecall) THEN [x EXCEPT !.stale = TRUE]
        ELSE IF both /\ x.writer /\ x.inreg /\ ~y.complete
        THEN [y EXCEPT !.reader = i.npc]
        ELSE y

-----------------------------------------------------------------------------
(* StfHandler                                                              *)

Quiet == [t \in T |-> [tracers[t] EXCEPT !.read = 0, !.wrote = 0]]

\* Every tracer in its region or at the start of it gets the instruction.
\* A tracer that ends its trace ends the run only if it is the last.
handler_trace_insn(i) ==
    [t \in T |-> IF \/ in_traceable_region(Quiet[t])
                    \/ is_start_of_region(conf[t], i.kind, executed)
                 THEN trace_insn(conf[t], Quiet[t], i) ELSE Quiet[t]]

AllComplete(xs) == \A t \in T : xs[t].complete

\* A trap.  Here a tracer that ends its trace ends the run: nothing catches
\* the exception between the tracers.
handler_trace_event(i) ==
    LET given(t) == IF in_traceable_region(Quiet[t])
                    THEN trace_event(conf[t], Quiet[t], i, PrivOf(Handler)) ELSE Quiet[t]
        ends(t)  == given(t).complete /\ ~tracers[t].complete
    IN  /\ tracers' = [t \in T |->
               IF \E u \in T : u < t /\ ends(u) THEN Quiet[t] ELSE given(t)]
        /\ loop' = IF \E t \in T : ends(t) THEN "over" ELSE "top"

\* Tracers with memory records look for their start after every instruction.
incr_executed_instructions(xs) ==
    /\ executed' = executed + 1
    /\ tracers' = [t \in T |-> [xs[t] EXCEPT !.pending =
           @ \/ (conf[t].mem /\ is_start_of_region(conf[t], "none", executed + 1))]]

-----------------------------------------------------------------------------
(* processor_t::step                                                       *)

Kind == Prog[pc]
CsrKinds == {"csr", "satp"}
Serializes == Kind \in CsrKinds \cup {"sret"}
SatpNow  == IF Kind = "satp" THEN Other(satp) ELSE satp

\* What the instruction at pc gives to the tracers when it goes to npc.
Given(npc, taken) == [kind |-> Kind, pc |-> pc, npc |-> npc, taken |-> taken,
                      priv |-> PrivOf(pc), ppn |-> SatpNow]

\* Where the instruction at pc may go, and whether that is a taken branch.
Outcomes ==
    CASE Kind = "jump"   -> {<<1, TRUE>>}
      [] Kind = "branch" -> {<<pc + 1, FALSE>>, <<pc + 2, TRUE>>}
      [] Kind = "sret"   -> {<<epc, TRUE>>}
      [] OTHER           -> {<<pc + 1, FALSE>>}

\* The tracers that, by the options, want a record of the instruction at pc.
Wanted(t) ==
    LET c == conf[t]
    IN  /\ Traceable(c, tracers'[t], PrivOf(pc), satp)
        /\ IF c.macro
           THEN CASE Kind = "start" -> c.include
                  [] Kind = "stop"  -> c.include /\ open
                  [] OTHER          -> open
           ELSE /\ c.start <= retired /\ retired < c.start + c.count
                /\ Kind = "stop" => ~c.exit

\* The instruction at pc retires.
Retire(npc) ==
    /\ pc' = npc /\ satp' = SatpNow
    /\ serialized' = (serialized /\ Kind \notin CsrKinds)
    /\ retired' = retired + 1
    /\ open' = CASE Kind = "start" -> TRUE [] Kind = "stop" -> FALSE [] OTHER -> open
    /\ expected' = {t \in T : Wanted(t)}

\* The top of a round: other reasons than tracing may select the slow loop.
round_start ==
    /\ loop = "top" /\ ~in_wfi /\ retired < MaxInsns
    /\ \E other \in BOOLEAN :
          loop' = IF other \/ \E t \in T : in_traceable_region(tracers[t])
                  THEN "slow" ELSE "fast"
    /\ tracers' = Quiet /\ expected' = AnySet
    /\ UNCHANGED <<conf, executed, hartVars, retired, open>>

\* An interrupt of user code, traced as a nop.
take_interrupt ==
    /\ loop = "top" /\ PrivOf(pc) = "U" /\ retired < MaxInsns
    /\ handler_trace_event([Given(Handler, FALSE) EXCEPT !.kind = "nop", !.ppn = satp,
                                                         !.priv = last_inst_priv])
    /\ epc' = pc /\ pc' = Handler /\ in_wfi' = FALSE /\ expected' = AnySet
    /\ UNCHANGED <<conf, executed, satp, serialized, last_inst_priv, retired, open>>

\* The fast loop stops before the first instruction of a region.
leave_fast_loop ==
    /\ loop \in {"fast", "chain"}
    /\ \E t \in T : is_start_of_region(conf[t], Kind, executed)
    /\ tracers' = [t \in T |-> [Quiet[t] EXCEPT !.pending =
           @ \/ is_start_of_region(conf[t], Kind, executed)]]
    /\ loop' = "top" /\ expected' = AnySet
    /\ UNCHANGED <<conf, executed, hartVars, retired, open>>

\* An instruction is fetched to be executed.
Fetched ==
    \/ loop = "slow"
    \/ /\ loop \in {"fast", "chain"}
       /\ \A t \in T : ~is_start_of_region(conf[t], Kind, executed)

\* commit_log_stash_privilege, in the slow loop only.
StashPriv == last_inst_priv' = IF loop = "slow" THEN PrivOf(pc) ELSE last_inst_priv

\* A csr instruction that must be alone in the loop is fetched again.
serialize_before ==
    /\ Fetched /\ Kind \in CsrKinds /\ ~serialized
    /\ serialized' = TRUE /\ loop' = "top" /\ tracers' = Quiet /\ expected' = AnySet
    /\ StashPriv
    /\ UNCHANGED <<conf, executed, pc, epc, satp, in_wfi, retired, open>>

Executes == Fetched /\ Kind # "ecall" /\ (Kind \in CsrKinds => serialized)

\* Serializing instructions and the end of the grant end the round.
slow_insn ==
    /\ Executes /\ loop = "slow" /\ Kind # "wfi"
    /\ \E o \in Outcomes :
          LET xs == handler_trace_insn(Given(o[1], o[2]))
          IN  IF AllComplete(xs)
              THEN tracers' = xs /\ loop' = "over" /\ UNCHANGED executed /\ Retire(o[1])
              ELSE /\ incr_executed_instructions(xs)
                   /\ loop' \in {"top"} \cup IF Serializes THEN {} ELSE {"slow"}
                   /\ Retire(o[1])
    /\ StashPriv
    /\ UNCHANGED <<conf, epc, in_wfi>>

\* The next instruction is chained in the instruction cache, or the loop asks
\* once more, without an opcode, whether a region starts; a serializing
\* instruction leaves the loop before it does.
fast_insn ==
    /\ Executes /\ loop # "slow" /\ Kind # "wfi"
    /\ \/ /\ incr_executed_instructions(Quiet)
          /\ loop' = IF Serializes THEN "top" ELSE "chain"
       \/ LET starts(t) == is_start_of_region(conf[t], "none", executed + 1)
          IN  /\ ~Serializes /\ executed' = executed + 1
              /\ tracers' = [t \in T |-> [Quiet[t] EXCEPT !.pending = @ \/ starts(t)]]
              /\ loop' \in IF \E t \in T : starts(t) THEN {"top"} ELSE {"fast", "top"}
    /\ \E o \in Outcomes : Retire(o[1])
    /\ StashPriv
    /\ UNCHANGED <<conf, epc, in_wfi>>

\* wait_for_interrupt_t, traced in the slow loop.
wait_for_interrupt ==
    /\ Executes /\ Kind = "wfi"
    /\ LET xs == IF loop = "slow" THEN handler_trace_insn(Given(pc + 1, FALSE)) ELSE Quiet
       IN  IF loop = "slow" /\ AllComplete(xs)
           THEN tracers' = xs /\ loop' = "over" /\ UNCHANGED executed
           ELSE incr_executed_instructions(xs) /\ loop' = "top"
    /\ in_wfi' = TRUE
    /\ Retire(pc + 1)
    /\ StashPriv
    /\ UNCHANGED <<conf, epc>>

\* A system call, or a page fault of a memory access, which is retried.
trap ==
    /\ Fetched /\ Kind \in {"ecall", "mem"}
    /\ StashPriv
    /\ handler_trace_event([Given(Handler, FALSE) EXCEPT !.priv = last_inst_priv'])
    /\ epc' = (IF Kind = "ecall" THEN pc + 1 ELSE pc) /\ pc' = Handler
    /\ expected' = AnySet
    /\ UNCHANGED <<conf, executed, satp, serialized, in_wfi, retired, open>>

Next ==
    \/ round_start \/ take_interrupt \/ leave_fast_loop
    \/ serialize_before \/ slow_insn \/ fast_insn \/ wait_for_interrupt \/ trap

Spec == Init /\ [][Next]_vars

-----------------------------------------------------------------------------
(* Properties                                                              *)

\* A reader that follows the pc records of a trace gives every instruction
\* record its true pc: over branches, traps with and without a record, code
\* that is not traced, and regions that end and start again.
PcReconstructed == \A t \in T : tracers[t].read = tracers[t].wrote

\* A retired instruction has a record in exactly the traces that want it:
\* none is executed in the fast loop, none is traced twice or too late.
TraceExact == expected # AnySet => expected = {t \in T : tracers[t].wrote # 0}

=============================================================================
