------------------------------ MODULE StepLoop ------------------------------
(***************************************************************************)
(* One hart under sim_t::idle / sim_t::step (riscv/sim.cc) and the fetch,  *)
(* decode, execute loop processor_t::step (riscv/execute.cc), with the     *)
(* checkpoints that maybe_checkpoint_interval takes from inside the loop   *)
(* and the restore of one of them by a new process.                        *)
(*                                                                         *)
(* The program is part of the options: Prog[pc] says what the instruction  *)
(* at pc does to the loop, not to the registers:                           *)
(*   plain  returns the next pc                                            *)
(*   macro  the same, and is the checkpoint no-op (_CHECKPOINT_MACRO)      *)
(*   csr    asks for PC_SERIALIZE_BEFORE, then returns PC_SERIALIZE_AFTER  *)
(*   roi    a csr store that starts the SimPoint region of interest        *)
(*   stop   a csr store that ends it                                       *)
(*   ret    a trap return: PC_SERIALIZE_AFTER                              *)
(*   wfi    throws wait_for_interrupt_t                                    *)
(*   ecall  throws trap_t                                                  *)
(* A checkpoint record keeps, beside what the file holds, what the         *)
(* uninterrupted run has right after the same instruction (field true).    *)
(***************************************************************************)
EXTENDS Integers, Sequences, Functions

CONSTANTS
    Interleave,    \* sim_t::INTERLEAVE
    Paths,         \* the loops slow_path() can select: {"slow"}, {"fast"} or both
    Options        \* the command lines and programs: records with the fields below

VARIABLE opt       \* the element of Options in use

Prog         == opt.prog          \* the program, a sequence of [kind, user]: a loop ...
Handler      == opt.handler       \* ... followed by the trap handler, which starts here
Requests     == opt.requests      \* the --checkpoint_instruction values, in any order
SimpointSize == opt.simpoint_size \* bb_tracer_options::simpoint_size
Interval     == opt.interval      \* checkpoint_interval in instructions, 0 if not given
Interrupts   == opt.interrupts    \* whether devices raise interrupts
MaxAsync     == opt.async         \* bound: SIGUSR1 signals
MaxRestores  == opt.restores      \* bound: restores in a row
MaxInsns     == opt.insns         \* bound: retired instructions before the target exits

None == 0                  \* "no next_checkpoint_instruction"
PC_SERIALIZE_AFTER == -5   \* the sentinel of decode_macros.h, no pc at all

\* The constructor of processor_t multiplies the interval of the command line
\* by the SimPoint size.
ASSUME StepLoopAssumption ==
    /\ Interleave \in Nat \ {0} /\ Paths \subseteq {"slow", "fast"}
    /\ \A o \in Options :
          /\ o.prog \in Seq([kind : STRING, user : BOOLEAN])
          /\ o.handler \in DOMAIN o.prog /\ o.requests \in Seq(Nat \ {0})
          /\ o.simpoint_size \in Nat \ {0} /\ o.interval \in Nat
          /\ o.interval % o.simpoint_size = 0
          /\ {o.async, o.restores, o.insns} \subseteq Nat

MaxStep == 4 * Interleave  \* bound: current_step
MaxWait == 2               \* bound: slices spent waiting

VARIABLES
    loop,         \* "sim", "top", "slow", "fast", "end" or "exit"
    left,         \* sim_t::step: n - i, the instructions still to be granted
    current_step, \* sim_t::current_step
    resume,       \* sim_t::steps_remaining of a restored run, else NoResume
    steps,        \* the argument of processor_t::step
    n, instret,   \* its locals: instructions left, instructions of this round
    pc, epc, in_wfi, serialized, minstret,
    executed,     \* tracers[0]->executed_instructions
    roi,          \* tracers[0]->executed_roi_umode_instructions
    inRoi,        \* tracers[0]->prog_ppn names the running program
    next_checkpoint, checkpoint_instructions,
    async,        \* async_checkpoint_requested
    files,        \* the checkpoint files written so far
    gen, signals, \* restores and signals so far
    slice,        \* history: instructions granted since the devices ticked
    region        \* history: the number of the roi store that began the region,
                  \* and where the counter stood at each ecall since that it counted

NoResume == -1

simVars  == <<left, current_step, resume, steps, slice>>
hartVars == <<pc, epc, in_wfi, serialized>>
counters == <<minstret, executed, roi, inRoi, region>>
cpVars   == <<next_checkpoint, checkpoint_instructions, async, files>>
vars == <<opt, loop, n, instret, simVars, hartVars, counters, cpVars, gen, signals>>

Kind(p)  == Prog[p].kind
CsrKinds == {"csr", "roi", "stop"}
After(p) == IF p \in {Handler - 1, Len(Prog)} THEN 1 ELSE p + 1

-----------------------------------------------------------------------------

\* The constructor sorts the requests in descending order and takes the last.
Sorted ==
    LET D     == DOMAIN Requests
        order == CHOOSE q \in Surjection(D, D) :
                     \A i, j \in D : i < j => Requests[q[i]] >= Requests[q[j]]
    IN  [i \in D |-> Requests[order[i]]]
FirstRequest  == IF Requests = <<>> THEN None ELSE Sorted[Len(Sorted)]
LaterRequests == IF Requests = <<>> THEN <<>> ELSE SubSeq(Sorted, 1, Len(Sorted) - 1)

Init ==
    /\ opt \in Options
    /\ loop = "sim" /\ left = 0 /\ current_step = 0 /\ resume = NoResume
    /\ steps = 0 /\ n = 0 /\ instret = 0 /\ slice = 0
    /\ pc = 1 /\ epc = 1 /\ in_wfi = FALSE /\ serialized = FALSE
    /\ minstret = 0 /\ executed = 0 /\ roi = 0 /\ inRoi = FALSE
    /\ next_checkpoint = FirstRequest /\ checkpoint_instructions = LaterRequests
    /\ async = FALSE /\ files = {} /\ gen = 0 /\ signals = 0
    /\ region = [start |-> -1, trapped |-> {}]

-----------------------------------------------------------------------------
(* sim_t                                                                   *)

\* sim_t::idle: a restored run first finishes the slice it was saved in.
idle ==
    /\ loop = "sim" /\ left = 0 /\ executed < MaxInsns
    /\ left' = IF resume # NoResume THEN resume ELSE Interleave
    /\ resume' = NoResume
    /\ UNCHANGED <<loop, n, instret, current_step, steps, slice, hartVars, counters,
                   cpVars, gen, signals>>

\* std::min(n - i, INTERLEAVE - current_step); the difference is unsigned, so
\* it never limits the grant once current_step has passed INTERLEAVE.
Grant == IF current_step <= Interleave /\ Interleave - current_step < left
         THEN Interleave - current_step ELSE left

\* One iteration of sim_t::step calls processor_t::step(Grant) ...
sim_step ==
    /\ loop = "sim" /\ left > 0 /\ current_step <= MaxStep
    /\ steps' = Grant /\ n' = Grant
    /\ loop' = IF Grant = 0 THEN "end" ELSE "top"
    /\ UNCHANGED <<instret, left, current_step, resume, slice, hartVars, counters,
                   cpVars, gen, signals>>

\* ... and accounts for it.  When the slice is over the devices tick.
sim_step_return ==
    /\ loop = "end"
    /\ loop' = "sim" /\ left' = left - steps
    /\ LET over == current_step + steps = Interleave
       IN  /\ current_step' = IF over THEN 0 ELSE current_step + steps
           /\ slice' = IF over THEN 0 ELSE slice + steps
    /\ UNCHANGED <<n, instret, resume, steps, hartVars, counters, cpVars, gen, signals>>

-----------------------------------------------------------------------------
(* Checkpoints                                                             *)

\* The interval test on the counter as it stands before the instruction at p
\* is counted (a roi store has already cleared it).
RoiNow(p) == IF Kind(p) = "roi" THEN 0 ELSE roi
InRoiNow(p) == CASE Kind(p) = "roi" -> TRUE [] Kind(p) = "stop" -> FALSE
                 [] OTHER -> inRoi

\* Mutant: the test looks at the counter one instruction too early.
IntervalHit_mut(p) == Interval > 0 /\ RoiNow(p) > 0 /\ (RoiNow(p) + 1) % Interval = 0

IntervalHit(p) == Interval > 0 /\ RoiNow(p) > 0 /\ RoiNow(p) % Interval = 0

InsnHit(p) ==
    \/ Kind(p) = "macro"
    \/ next_checkpoint # None /\ executed = next_checkpoint
    \/ async

\* The instructions of the present grant that are spent after the one at p,
\* the last of retired in this round; a wfi gives up all the others.
TrueSteps(p, retired) == IF Kind(p) = "wfi" THEN steps ELSE steps - n + retired

\* Mutant: the file keeps the step count of the start of the slice.
File_mut(type, p, npc, ret, rem, nextPc, retired) ==
    [type |-> type, num |-> executed, kind |-> Kind(p), user |-> Prog[p].user,
     interval |-> IF type = "interval" THEN RoiNow(p) \div SimpointSize ELSE 0,
     pc |-> npc, epc |-> epc, in_wfi |-> Kind(p) = "wfi",
     minstret |-> minstret + ret, executed |-> executed, roi |-> RoiNow(p),
     inRoi |-> InRoiNow(p), serialized |-> serialized /\ Kind(p) \notin CsrKinds,
     steps_remaining |-> rem, current_step |-> current_step,
     true |-> [pc |-> nextPc, slice |-> slice + TrueSteps(p, retired)]]

\* sim_t::checkpoint and processor_t::checkpoint: ret and rem are the instret
\* and steps_remaining arguments, npc the value stored as pc; nextPc and
\* retired are the true ones.
File(type, p, npc, ret, rem, nextPc, retired) ==
    [type |-> type, num |-> executed, kind |-> Kind(p), user |-> Prog[p].user,
     interval |-> IF type = "interval" THEN RoiNow(p) \div SimpointSize ELSE 0,
     pc |-> npc, epc |-> epc, in_wfi |-> Kind(p) = "wfi",
     minstret |-> minstret + ret, executed |-> executed, roi |-> RoiNow(p),
     inRoi |-> InRoiNow(p), serialized |-> serialized /\ Kind(p) \notin CsrKinds,
     steps_remaining |-> rem, current_step |-> current_step + (Interleave - rem),
     true |-> [pc |-> nextPc, slice |-> slice + TrueSteps(p, retired)]]

\* The files written for the instruction at p.  That a file asked for by a
\* signal has async_ before its number is left out.
NewFiles(p, npc, ret, rem, nextPc, retired) ==
    {File(t, p, npc, ret, rem, nextPc, retired) :
        t \in (IF InsnHit(p) THEN {"insn"} ELSE {})
             \cup (IF IntervalHit(p) THEN {"interval"} ELSE {})}

\* Mutant: the first request served is also the last.
maybe_checkpoint_interval_mut(p, npc, ret, rem, nextPc, retired) ==
    /\ files' = files \cup NewFiles(p, npc, ret, rem, nextPc, retired)
    /\ async' = (async /\ ~InsnHit(p))
    /\ next_checkpoint' = IF InsnHit(p) THEN None ELSE next_checkpoint
    /\ UNCHANGED checkpoint_instructions

\* maybe_checkpoint_interval.  An instruction checkpoint moves on to the next
\* request only if it was taken for one; otherwise it cancels them.
maybe_checkpoint_interval(p, npc, ret, rem, nextPc, retired) ==
    /\ files' = files \cup NewFiles(p, npc, ret, rem, nextPc, retired)
    /\ IF InsnHit(p)
       THEN /\ async' = FALSE
            /\ IF executed = next_checkpoint /\ checkpoint_instructions # <<>>
               THEN /\ next_checkpoint' = checkpoint_instructions[Len(checkpoint_instructions)]
                    /\ checkpoint_instructions' =
                           SubSeq(checkpoint_instructions, 1, Len(checkpoint_instructions) - 1)
               ELSE /\ next_checkpoint' = None
                    /\ UNCHANGED checkpoint_instructions
       ELSE UNCHANGED <<async, next_checkpoint, checkpoint_instructions>>

\* StfHandler::incr_executed_instructions, and the store to the SimPoint CSR
\* that the instruction itself made.
incr_executed_instructions(p) ==
    /\ executed' = executed + 1
    /\ inRoi' = InRoiNow(p)
    /\ roi' = RoiNow(p) + IF InRoiNow(p) /\ Prog[p].user THEN 1 ELSE 0
    /\ region' = IF Kind(p) = "roi" THEN [start |-> executed, trapped |-> {}] ELSE region

-----------------------------------------------------------------------------
(* processor_t::step                                                       *)

\* The end of one round of the outer while loop: ret instructions retired,
\* and the round gives up the rest of its instructions if quit.
EndRound(ret, quit) ==
    /\ minstret' = minstret + ret
    /\ n' = IF quit THEN 0 ELSE n - ret
    /\ instret' = 0
    /\ loop' = IF quit \/ ret = n THEN "end" ELSE "top"

\* The round goes on with the next instruction.
Continue(ret) ==
    /\ instret' = ret
    /\ UNCHANGED <<loop, n, minstret>>

\* Top of the round: take_pending_interrupt, then the choice of the loop.
\* A pending interrupt ends the wait even if it is not enabled.
round_start ==
    /\ loop = "top"
    /\ \E pending \in {FALSE, Interrupts} :
          LET waiting == in_wfi /\ ~pending
          IN  /\ in_wfi' = waiting
              /\ \E l \in IF waiting THEN {"slow"} ELSE Paths : loop' = l
    /\ UNCHANGED <<n, instret, simVars, pc, epc, serialized, counters, cpVars, gen, signals>>

\* An enabled interrupt traps before the round executes anything.
take_interrupt ==
    /\ loop = "top" /\ Interrupts /\ Prog[pc].user
    /\ in_wfi' = FALSE /\ epc' = pc /\ pc' = Handler
    /\ EndRound(0, TRUE)
    /\ UNCHANGED <<simVars, serialized, executed, roi, inRoi, region, cpVars, gen, signals>>

Running == loop \in {"slow", "fast"} /\ executed < MaxInsns

\* A csr instruction that has to be alone in the loop ends the round and is
\* fetched again.
serialize_before ==
    /\ Running /\ ~in_wfi
    /\ Kind(pc) \in CsrKinds /\ ~serialized
    /\ serialized' = TRUE
    /\ EndRound(instret, FALSE)
    /\ UNCHANGED <<simVars, pc, epc, in_wfi, executed, roi, inRoi, region, cpVars, gen, signals>>

\* An instruction that returns PC_SERIALIZE_AFTER: the checkpoint is given
\* that value, state.pc already holds the next pc.
serialize_after ==
    /\ Running /\ ~in_wfi
    /\ Kind(pc) = "ret" \/ (Kind(pc) \in CsrKinds /\ serialized)
    /\ LET nextPc == IF Kind(pc) = "ret" THEN epc ELSE After(pc)
       IN  /\ maybe_checkpoint_interval(pc, PC_SERIALIZE_AFTER, instret, n - (instret + 1),
                                        nextPc, instret + 1)
           /\ pc' = nextPc
    /\ incr_executed_instructions(pc)
    /\ serialized' = (serialized /\ Kind(pc) = "ret")
    /\ EndRound(instret + 1, FALSE)
    /\ UNCHANGED <<simVars, epc, in_wfi, gen, signals>>

\* Mutant: steps_remaining still includes the instruction just executed.
execute_mut ==
    /\ Running /\ ~in_wfi /\ Kind(pc) \in {"plain", "macro"}
    /\ maybe_checkpoint_interval(pc, After(pc), instret, n - instret, After(pc), instret + 1)
    /\ incr_executed_instructions(pc)
    /\ pc' = After(pc)
    /\ IF instret + 1 = n THEN EndRound(n, FALSE) ELSE Continue(instret + 1)
    /\ UNCHANGED <<simVars, epc, in_wfi, serialized, gen, signals>>

\* An instruction that returns the next pc.  In the fast loop it is counted
\* before the checkpoint if the next instruction is chained to it in the
\* instruction cache and is not the last one of the round.
execute ==
    /\ Running /\ ~in_wfi /\ Kind(pc) \in {"plain", "macro"}
    /\ \E chained \in IF loop = "fast" /\ instret + 1 < n THEN BOOLEAN ELSE {FALSE} :
          maybe_checkpoint_interval(pc, After(pc), IF chained THEN instret + 1 ELSE instret,
                                    n - (instret + 1), After(pc), instret + 1)
    /\ incr_executed_instructions(pc)
    /\ pc' = After(pc)
    /\ IF instret + 1 = n THEN EndRound(n, FALSE) ELSE Continue(instret + 1)
    /\ UNCHANGED <<simVars, epc, in_wfi, serialized, gen, signals>>

\* wait_for_interrupt_t: state.pc is past the wfi, the local pc is not.
wait_for_interrupt ==
    /\ Running /\ ~in_wfi /\ Kind(pc) = "wfi"
    /\ maybe_checkpoint_interval(pc, pc, instret + 1, 0, After(pc), instret + 1)
    /\ incr_executed_instructions(pc)
    /\ pc' = After(pc) /\ in_wfi' = TRUE
    /\ EndRound(instret + 1, TRUE)
    /\ UNCHANGED <<simVars, epc, serialized, gen, signals>>

\* Still waiting: only minstret moves.
still_waiting ==
    /\ Running /\ in_wfi /\ minstret < executed + MaxWait
    /\ EndRound(instret + 1, TRUE)
    /\ UNCHANGED <<simVars, hartVars, executed, roi, inRoi, region, cpVars, gen, signals>>

\* A trap: the instruction does not retire; a user ecall counts for the ROI.
trap ==
    /\ Running /\ ~in_wfi /\ Kind(pc) = "ecall"
    /\ epc' = After(pc) /\ pc' = Handler
    /\ IF inRoi /\ Prog[pc].user
       THEN roi' = roi + 1 /\ region' = [region EXCEPT !.trapped = @ \cup {roi}]
       ELSE UNCHANGED <<roi, region>>
    /\ EndRound(instret, TRUE)
    /\ UNCHANGED <<simVars, in_wfi, serialized, executed, inRoi, cpVars, gen, signals>>

-----------------------------------------------------------------------------

\* SIGUSR1: handle_usr1_signal runs between any two steps.
request_async_checkpoint ==
    /\ loop # "exit" /\ signals < MaxAsync
    /\ async' = TRUE /\ signals' = signals + 1
    /\ UNCHANGED <<loop, n, instret, simVars, hartVars, counters, next_checkpoint,
                   checkpoint_instructions, files, gen>>

\* A new process, started with --restore_checkpoint and without requests.  A
\* file that holds the sentinel instead of a pc cannot be resumed from: what
\* the fetch at that address does is not modelled.
checkpoint_restore(f) ==
    /\ f.pc # PC_SERIALIZE_AFTER
    /\ gen < MaxRestores /\ gen' = gen + 1
    /\ loop' = "sim" /\ left' = 0 /\ steps' = 0 /\ n' = 0 /\ instret' = 0
    /\ current_step' = f.current_step /\ resume' = f.steps_remaining
    /\ slice' = f.true.slice
    /\ pc' = f.pc /\ epc' = f.epc /\ in_wfi' = f.in_wfi /\ serialized' = f.serialized
    /\ minstret' = f.minstret
    /\ executed' = f.executed + 1
    /\ inRoi' = f.inRoi
    /\ roi' = f.roi + IF f.inRoi /\ f.user THEN 1 ELSE 0
    /\ next_checkpoint' = None /\ checkpoint_instructions' = <<>> /\ async' = FALSE
    /\ UNCHANGED <<files, signals, region>>

\* The target exits, or is stopped because it waits for ever.
exit ==
    /\ loop # "exit" /\ (executed >= MaxInsns \/ minstret >= executed + MaxWait)
    /\ loop' = "exit"
    /\ UNCHANGED <<n, instret, simVars, hartVars, counters, cpVars, gen, signals>>

Exited == loop = "exit" /\ UNCHANGED vars

Next ==
    /\ \/ idle \/ sim_step \/ sim_step_return
       \/ round_start \/ take_interrupt
       \/ serialize_before \/ serialize_after \/ execute
       \/ wait_for_interrupt \/ still_waiting \/ trap
       \/ request_async_checkpoint
       \/ \E f \in files : checkpoint_restore(f)
       \/ exit \/ Exited
    /\ UNCHANGED opt

Spec == Init /\ [][Next]_vars

-----------------------------------------------------------------------------
(* Properties                                                              *)

\* Every --checkpoint_instruction request is served: once the run has passed
\* instruction r there is a file checkpoint_<r>, whatever other checkpoints
\* were taken on the way (execute.cc:211-216).
RequestsServed ==
    gen = 0 => \A i \in DOMAIN Requests :
        Requests[i] < executed =>
            \E f \in files : f.type = "insn" /\ f.num = Requests[i]

\* For instructions that neither serialize nor wait, whichever loop executes
\* them and wherever in the slice: a restored run resumes at the right pc and
\* with exactly the rest of the slice before the devices tick.
ResumePoint ==
    \A f \in files : f.kind \in {"plain", "macro"} =>
        /\ f.pc = f.true.pc
        /\ gen = 0 => f.steps_remaining = Interleave - f.true.slice

\* Between two steps of the hart, current_step is the number of instructions
\* granted since the devices last ticked - in the original and in a restored
\* run - so the devices tick once every INTERLEAVE instructions.
SliceExact == loop = "sim" => current_step = slice

\* The instruction the file was written for moved the counter.
Counted(f) == f.inRoi /\ f.user

\* The counter that is tested stands still over handlers and skips ecalls, so
\* an interval is not simply saved once (execute.cc:166-183).  What holds, in
\* every region: when the counter has passed a boundary by an instruction that
\* retires, this instruction has written the file of the interval, once, and
\* the other files of that interval were written earlier, by instructions that
\* left the counter where it was.
IntervalsSavedOnce ==
    gen = 0 /\ Interval > 0 => \A k \in 1 .. MaxInsns :
        LET saved == {f \in files : /\ f.type = "interval" /\ f.num > region.start
                                    /\ f.interval = (k * Interval) \div SimpointSize}
        IN  k * Interval < roi /\ k * Interval \notin region.trapped =>
                \E f \in saved : Counted(f) /\ \A g \in saved \ {f} : ~Counted(g) /\ g.num < f.num
=============================================================================
