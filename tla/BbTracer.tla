------------------------------ MODULE BbTracer ------------------------------
(***************************************************************************)
(* The basic block vector tracer of one hart (riscv/bb_tracer.cc, enabled  *)
(* with --en_bbv) and the places of riscv/execute.cc that call it.         *)
(*                                                                         *)
(* The members of bb_tracer are the record bb; its methods are operators   *)
(* on that record, so that the two calls one csr instruction makes (the    *)
(* store to the SimPoint CSR, then simpoint_step of the instruction) are   *)
(* one step.  What a track line prints about an instruction is its         *)
(* absolute number.  Ids of basic blocks (--encode_bb_ids) and the text of *)
(* the two files are left out.                                             *)
(***************************************************************************)
EXTENDS Integers, Sequences, FiniteSets

CONSTANTS
    Addrs,         \* addresses the program executes, multiples of 4
    SimpointSize,  \* --simpoint_size
    WarmupSize,    \* --warmup_size, 0 if not given
    StartInterval, \* --start_interval
    MaxIntervals,  \* --max_intervals, 0 if not given
    UmodeOnly,     \* --bbv_umode_only
    Checkpoints,   \* whether a checkpoint is taken and restored
    MaxStarts,     \* bound: stores that start a region of interest
    MaxExecuted    \* bound: instructions executed

ASSUME BbTracerAssumption ==
    /\ Addrs \subseteq {4 * i : i \in 1 .. 1000}
    /\ SimpointSize \in Nat \ {0, 1} /\ WarmupSize \in Nat
    /\ StartInterval \in Nat /\ MaxIntervals \in Nat /\ {UmodeOnly, Checkpoints} \subseteq BOOLEAN

VARIABLES
    bb,        \* the tracer
    insns,     \* instructions the hart has executed
    saved,     \* the checkpoint taken, a sequence of at most one
    started,   \* history: number of regions of interest started
    seen       \* history: numbers of the instructions of the regions of
               \* interest, in the order they were executed

bbVars == <<bb, insns, saved, started, seen>>

EmptyBbv     == << >>
NoCheckpoint == <<>>
NoInsn       == -1          \* a track never written
EnPc         == 1           \* processor_t::last_pc when nothing is disassembled

BbInit ==
    /\ bb = [ninst |-> 0, next_bbv_dump |-> SimpointSize + 1, simpoint_roi |-> FALSE,
             terminate |-> FALSE, last_pc |-> 0, en_pc |-> 0, total_insn_in_roi |-> 0,
             instr_cnt |-> 0, bbv |-> EmptyBbv, lines |-> <<>>, tracks |-> <<>>,
             start |-> NoInsn, warmup |-> NoInsn, next_warmup |-> NoInsn, stop |-> "no"]
    /\ insns = 0 /\ saved = NoCheckpoint /\ started = 0 /\ seen = <<>>

-----------------------------------------------------------------------------
(* The two files                                                           *)

\* start_interval has not been passed when the interval ends.
Skipped(b) ==
    StartInterval > 0 /\ StartInterval >= b.total_insn_in_roi \div SimpointSize

\* Once per interval the vector is appended to the file and cleared; the
\* exception that ends the run is the value "max" of stop.
flush_bb_vector(b) ==
    LET c   == [b EXCEPT !.instr_cnt = @ + 1]
        bbv == IF Skipped(c) THEN EmptyBbv ELSE c.bbv
    IN  IF c.instr_cnt < c.next_bbv_dump THEN c
        ELSE [c EXCEPT
                !.next_bbv_dump = @ + SimpointSize,
                !.bbv = EmptyBbv,
                !.lines = IF bbv = EmptyBbv THEN @ ELSE Append(@, bbv),
                !.stop = IF /\ MaxIntervals > 0
                            /\ c.total_insn_in_roi >=
                                   (StartInterval + MaxIntervals) * SimpointSize
                         THEN "max" ELSE @]

\* A discontinuity closes the block that ends at last_pc.
capture_basic_block(b, pc) ==
    IF pc \in {b.last_pc + 2, b.last_pc + 4} THEN b
    ELSE [b EXCEPT !.bbv = [p \in DOMAIN b.bbv \cup {b.last_pc} |->
                               (IF p \in DOMAIN b.bbv THEN b.bbv[p] ELSE 0) +
                               IF p = b.last_pc THEN b.ninst ELSE 0],
                   !.ninst = 0]

log_simpoint_end_insn_track(b) ==
    IF Skipped(b) THEN b
    ELSE [b EXCEPT !.tracks = Append(@, [warmup |-> b.warmup, start |-> b.start,
                                         end |-> insns])]

\* The tests are tried in this order.
log_simpoint_tracks(b) ==
    IF b.total_insn_in_roi = b.next_bbv_dump - 1 THEN log_simpoint_end_insn_track(b)
    ELSE IF b.total_insn_in_roi = b.next_bbv_dump - SimpointSize
         THEN [b EXCEPT !.start = insns]
    ELSE IF b.next_bbv_dump - b.total_insn_in_roi = WarmupSize
         THEN [b EXCEPT !.warmup = b.next_warmup, !.next_warmup = insns]
    ELSE b

-----------------------------------------------------------------------------
(* simpoint_step and the store to the CSR                                  *)

Count(b) == [b EXCEPT !.total_insn_in_roi = @ + 1, !.ninst = @ + 1]

\* The instruction at pc, for which the caller has checked mode and process.
simpoint_step(b, pc) ==
    LET regular == b.last_pc # 0 /\ b.simpoint_roi /\ b.last_pc # b.en_pc
        first   == ~regular /\ b.simpoint_roi /\ pc # b.en_pc
        c == IF regular THEN flush_bb_vector(capture_basic_block(b, pc))
             ELSE IF first THEN flush_bb_vector(Count(b))
             ELSE b
        d == IF regular THEN log_simpoint_tracks(Count(c)) ELSE c
        e == IF d.last_pc = d.en_pc THEN log_simpoint_tracks(d) ELSE d
        f == IF d.simpoint_roi /\ pc # d.en_pc THEN [e EXCEPT !.last_pc = pc] ELSE d
    IN  IF c.stop # "no" THEN c
        ELSE IF f.terminate THEN [f EXCEPT !.stop = "terminated"]
        ELSE f

\* Mutant: the end of the region loses the block that is still open.
handle_simpoint_macro_mut(b, val) ==
    CASE val = 2 -> [b EXCEPT !.terminate = TRUE]
      [] val = 0 /\ b.simpoint_roi ->
             [flush_bb_vector([b EXCEPT !.ninst = 0]) EXCEPT !.simpoint_roi = FALSE,
                                                            !.last_pc = 0]
      [] val = 1 /\ ~b.simpoint_roi ->
             [b EXCEPT !.simpoint_roi = TRUE, !.en_pc = EnPc, !.last_pc = EnPc,
                       !.total_insn_in_roi = 0]
      [] OTHER -> b

\* handle_simpoint_macro is noexcept: if the flush throws the process aborts.
\* The markers write 0, 1 or 2; a 3 would begin the region anew and is left out.
handle_simpoint_macro(b, val) ==
    CASE val = 2 -> [b EXCEPT !.terminate = TRUE]
      [] val = 0 /\ b.simpoint_roi ->
             LET c == flush_bb_vector(capture_basic_block(b, 0))
             IN  [c EXCEPT !.simpoint_roi = FALSE, !.last_pc = 0,
                           !.stop = IF @ = "no" THEN @ ELSE "abort"]
      [] val = 1 /\ ~b.simpoint_roi ->
             [b EXCEPT !.simpoint_roi = TRUE, !.en_pc = EnPc, !.last_pc = EnPc,
                       !.total_insn_in_roi = 0]
      [] OTHER -> b

-----------------------------------------------------------------------------
(* The hart                                                                *)

Running == bb.stop = "no" /\ insns < MaxExecuted

\* The loop passes an instruction on if it runs in user mode under the page
\* table of the benchmark (mine), or whatever it is without --bbv_umode_only.
Traced(mine) == mine \/ ~UmodeOnly

\* An instruction that retires.  Inside the region of interest the hart is
\* always in the slow loop; outside simpoint_step changes nothing.
execute_insn(pc, mine) ==
    /\ Running
    /\ bb' = IF Traced(mine) THEN simpoint_step(bb, pc) ELSE bb
    /\ seen' = IF Traced(mine) /\ bb.simpoint_roi THEN Append(seen, insns) ELSE seen
    /\ insns' = insns + 1
    /\ UNCHANGED <<saved, started>>

\* A system call of the benchmark does not retire but is traced.
user_ecall(pc) ==
    /\ Running /\ UmodeOnly /\ bb.simpoint_roi
    /\ ~(seen # <<>> /\ seen[Len(seen)] = insns)
    /\ bb' = simpoint_step(bb, pc)
    /\ seen' = Append(seen, insns)
    /\ UNCHANGED <<insns, saved, started>>

\* The store of val by the csr instruction at pc, then simpoint_step of that
\* instruction unless it runs in the fast loop.
simpoint_csr_write(pc, val, mine, slow) ==
    /\ Running
    /\ slow \/ ~bb.simpoint_roi
    /\ val = 1 => started < MaxStarts
    /\ LET b == handle_simpoint_macro(bb, val)
           s == slow /\ Traced(mine) /\ b.stop = "no"
       IN  /\ bb' = IF s THEN simpoint_step(b, pc) ELSE b
           /\ seen' = IF s /\ (val = 1 \/ (val = 2 /\ bb.simpoint_roi))
                      THEN Append(seen, insns) ELSE seen
    /\ started' = IF val = 1 THEN started + 1 ELSE started
    /\ insns' = insns + 1
    /\ UNCHANGED saved

\* A checkpoint after an instruction saves the tracer, and a later process
\* reloads it with the lines written so far.
checkpoint ==
    /\ Running /\ Checkpoints /\ saved = NoCheckpoint
    /\ saved' = <<[bb |-> bb, executed |-> insns, started |-> started, seen |-> seen]>>
    /\ UNCHANGED <<bb, insns, started, seen>>

\* Mutant: instr_cnt starts from zero in the new process.
checkpoint_restore_mut ==
    /\ saved # NoCheckpoint /\ insns > saved[1].executed
    /\ bb' = [saved[1].bb EXCEPT !.instr_cnt = 0]
    /\ insns' = saved[1].executed
    /\ started' = saved[1].started /\ seen' = saved[1].seen
    /\ UNCHANGED saved

checkpoint_restore ==
    /\ saved # NoCheckpoint /\ insns > saved[1].executed
    /\ bb' = [saved[1].bb EXCEPT !.terminate = FALSE]
    /\ insns' = saved[1].executed
    /\ started' = saved[1].started /\ seen' = saved[1].seen
    /\ UNCHANGED saved

\* spike's main catches the exception, or the target exits.
Finished == (bb.stop # "no" \/ insns = MaxExecuted) /\ UNCHANGED bbVars

BbNext ==
    \/ \E pc \in Addrs, mine \in BOOLEAN : execute_insn(pc, mine)
    \/ \E pc \in Addrs : user_ecall(pc)
    \/ \E pc \in Addrs, val \in 0 .. 2, mine, slow \in BOOLEAN :
          simpoint_csr_write(pc, val, mine, slow)
    \/ checkpoint \/ checkpoint_restore \/ Finished

BbSpec == BbInit /\ [][BbNext]_bbVars

-----------------------------------------------------------------------------
(* Properties                                                              *)

\* The instructions counted by a vector, and by the vectors vs of a file: one
\* element for each count of each block.
Instances(v) == UNION {{p} \X (1 .. v[p]) : p \in DOMAIN v}

Counted(vs) == UNION {{k} \X Instances(vs[k]) : k \in DOMAIN vs}

\* No instruction of a region of interest is lost or counted twice: the
\* vectors written, the one being built and the open block account for each
\* instruction executed, over any number of regions and a restore.
BbvConserves ==
    StartInterval = 0 /\ bb.stop \in {"no", "terminated"} =>
        Cardinality(Counted(Append(bb.lines, bb.bbv))) + bb.ninst = Len(seen)

\* Track line k names the first and the last instruction of interval k of the
\* first region and the instruction WarmupSize before it, and every complete
\* interval has its line at once.
TracksExact ==
    started <= 1 /\ bb.stop # "abort" =>
        LET t(k) == [start |-> seen[(k - 1) * SimpointSize + 1], end |-> seen[k * SimpointSize]]
            complete == (Len(seen) \div SimpointSize)
        IN  /\ Len(bb.tracks) = IF complete > StartInterval THEN complete - StartInterval ELSE 0
            /\ \A i \in DOMAIN bb.tracks :
                  /\ bb.tracks[i].start = t(i + StartInterval).start
                  /\ bb.tracks[i].end = t(i + StartInterval).end
                  /\ WarmupSize > 0 /\ i + StartInterval > 1 =>
                        bb.tracks[i].warmup = seen[(i + StartInterval - 1) * SimpointSize + 1 - WarmupSize]

=============================================================================
