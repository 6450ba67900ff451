--------------------------- MODULE StepLoopProofs ---------------------------
(***************************************************************************)
(* Proofs about the simulation loop and its checkpoints (StepLoop): a run  *)
(* restored from a checkpoint is where the run that saved it was, for any  *)
(* INTERLEAVE, program and path; the requests for checkpoints are all      *)
(* served as long as no other checkpoint is taken; and an instruction that *)
(* takes the counter past the boundary of an interval has it saved, once.  *)
(*                                                                         *)
(* The last part is about the interrupt controller (Plic), which sets what *)
(* the loop finds pending.                                                 *)
(***************************************************************************)
EXTENDS StepLoop, MCPlic, FiniteSetTheorems, SequenceTheorems,
        WellFoundedInduction, NaturalsInduction, TLAPS

-----------------------------------------------------------------------------
(* Sorting the requests                                                    *)

\* q lists the positions in T, by descending value in s.
Arranges(q, s, T) ==
    /\ \A t \in T : \E i \in DOMAIN q : q[i] = t
    /\ \A i, j \in DOMAIN q : i < j => s[q[i]] >= s[q[j]]

\* A nonempty set of naturals has a least element.
LEMMA LeastNat ==
    ASSUME NEW T \in SUBSET Nat, T # {}
    PROVE  \E x \in T : \A y \in T : x <= y
<1>1. PICK x \in T : \A y \in T : ~ (<<y, x>> \in OpToRel(<, Nat))
  BY WFMin, NatLessThanWellFounded
<1>2. \A y \in T : ~ (y < x)
  BY <1>1 DEF OpToRel
<1> QED BY <1>2

\* The sets of k positions that no sequence arranges.
Stuck(s, k) ==
    {T \in SUBSET DOMAIN s : /\ IsFiniteSet(T) /\ Cardinality(T) = k
                             /\ ~ \E q \in [1 .. k -> T] : Arranges(q, s, T)}

\* If all sets of k - 1 positions can be arranged, so can those of k: the
\* position of the least value goes last.
LEMMA ArrangeOneMore ==
    ASSUME NEW s \in Seq(Nat), NEW k \in Nat \ {0}, Stuck(s, k - 1) = {},
           NEW T \in SUBSET DOMAIN s, IsFiniteSet(T), Cardinality(T) = k
    PROVE  \E q \in [1 .. k -> T] : Arranges(q, s, T)
<1>1. T # {}
  BY FS_EmptySet
<1>2. PICK v \in {s[t] : t \in T} : \A w \in {s[t] : t \in T} : v <= w
  <2>1. {s[t] : t \in T} \in SUBSET Nat /\ {s[t] : t \in T} # {}
    BY <1>1
  <2> QED BY <2>1, LeastNat
<1>3. PICK m \in T : s[m] = v
  BY <1>2
<1>4. \A t \in T : s[m] <= s[t]
  BY <1>2, <1>3
<1>5. IsFiniteSet(T \ {m}) /\ Cardinality(T \ {m}) = k - 1
  BY <1>3, FS_RemoveElement
<1>6. PICK q \in [1 .. k - 1 -> T \ {m}] : Arranges(q, s, T \ {m})
  BY <1>5 DEF Stuck
<1> DEFINE r == [i \in 1 .. k |-> IF i = k THEN m ELSE q[i]]
<1>7. r \in [1 .. k -> T]
  BY <1>3, <1>6
<1>8. \A t \in T : \E i \in DOMAIN r : r[i] = t
  <2> SUFFICES ASSUME NEW t \in T
               PROVE  \E i \in 1 .. k : r[i] = t
    OBVIOUS
  <2>1. CASE t = m
    BY <2>1
  <2>2. CASE t # m
    <3>1. PICK i \in 1 .. k - 1 : q[i] = t
      BY <1>6, <2>2 DEF Arranges
    <3>2. i \in 1 .. k /\ i # k
      BY <3>1
    <3> QED BY <3>1, <3>2
  <2> QED BY <2>1, <2>2
<1>9. \A i, j \in DOMAIN r : i < j => s[r[i]] >= s[r[j]]
  <2> SUFFICES ASSUME NEW i \in 1 .. k, NEW j \in 1 .. k, i < j
               PROVE  s[r[i]] >= s[r[j]]
    OBVIOUS
  <2>1. i \in 1 .. k - 1 /\ r[i] = q[i] /\ q[i] \in T
    BY <1>6
  <2>2. s[q[i]] \in Nat /\ s[m] \in Nat
    BY <1>3, <2>1
  <2>3. CASE j = k
    <3>1. r[j] = m
      BY <2>3
    <3>2. s[m] <= s[q[i]]
      BY <1>4, <2>1
    <3> QED BY <2>1, <2>2, <3>1, <3>2
  <2>4. CASE j # k
    <3>1. j \in 1 .. k - 1 /\ r[j] = q[j]
      BY <2>4
    <3>2. s[q[i]] >= s[q[j]]
      BY <1>6, <2>1, <3>1 DEF Arranges
    <3> QED BY <2>1, <3>1, <3>2
  <2> QED BY <2>3, <2>4
<1> QED BY <1>7, <1>8, <1>9 DEF Arranges

\* Any sequence of naturals can be sorted.
LEMMA SortingExists ==
    ASSUME NEW s \in Seq(Nat)
    PROVE  \E q \in Surjection(DOMAIN s, DOMAIN s) :
              \A i, j \in DOMAIN s : i < j => s[q[i]] >= s[q[j]]
<1> DEFINE K == {k \in Nat : Stuck(s, k) # {}}
<1>1. K = {}
  <2> SUFFICES ASSUME K # {} PROVE FALSE
    OBVIOUS
  <2>1. PICK k \in K : \A l \in K : k <= l
    BY LeastNat
  <2>2. PICK T : T \in Stuck(s, k)
    BY <2>1
  <2>3. T \in SUBSET DOMAIN s /\ IsFiniteSet(T) /\ Cardinality(T) = k
    BY <2>2 DEF Stuck
  <2>4. CASE k = 0
    <3>1. T = {}
      BY <2>3, <2>4, FS_EmptySet
    <3> DEFINE q == [i \in 1 .. 0 |-> 0]
    <3>2. q \in [1 .. k -> T] /\ Arranges(q, s, T)
      BY <2>4, <3>1 DEF Arranges
    <3> QED BY <2>2, <3>2 DEF Stuck
  <2>5. CASE k # 0
    <3>1. k \in Nat \ {0} /\ Stuck(s, k - 1) = {}
      BY <2>1, <2>5
    <3>2. \E q \in [1 .. k -> T] : Arranges(q, s, T)
      BY <2>3, <3>1, ArrangeOneMore
    <3> QED BY <2>2, <3>2 DEF Stuck
  <2> QED BY <2>4, <2>5
<1>2. DOMAIN s = 1 .. Len(s) /\ Len(s) \in Nat
  OBVIOUS
<1>3. IsFiniteSet(DOMAIN s) /\ Cardinality(DOMAIN s) = Len(s)
  <2>0. Len(s) \in Int /\ 1 \in Int
    BY <1>2
  <2>1. IsFiniteSet(1 .. Len(s)) /\ Cardinality(1 .. Len(s)) = Len(s)
    BY <1>2, <2>0, FS_Interval
  <2> QED BY <1>2, <2>1
<1>4. PICK q \in [1 .. Len(s) -> DOMAIN s] : Arranges(q, s, DOMAIN s)
  BY <1>1, <1>2, <1>3 DEF Stuck
<1> QED BY <1>2, <1>4 DEF Arranges, Surjection
-----------------------------------------------------------------------------
(* Checkpoints and slices                                                  *)

\* Hypothesis: what a restored run saves is not restored again.  (Such a file
\* counts from the start of a whole slice, which the first grant of a restored
\* run is not.)
OneRestore == MaxRestores <= 1

\* The original run is in a whole slice whenever the hart runs.
WholeSlice ==
    /\ current_step = 0 /\ resume = NoResume /\ left \in {0, Interleave}
    /\ n \in Int /\ instret \in Int
    /\ loop \in {"top", "slow", "fast", "end"} => left = Interleave /\ steps = Interleave

\* A file of the original run tells how much of the slice is over.
FileExact(f) ==
    /\ f.current_step = f.true.slice
    /\ f.kind \in {"plain", "macro"} => f.steps_remaining = Interleave - f.true.slice

\* The invariant of the slices, for the original run and the restored one.
SliceInv ==
    /\ OneRestore /\ MaxRestores \in Nat /\ gen \in Nat /\ gen <= MaxRestores
    /\ loop \in {"sim", "top", "slow", "fast", "end", "exit"}
    /\ current_step = slice
    /\ gen = 0 => WholeSlice /\ \A f \in files : FileExact(f)
    /\ \A f \in files : f.kind \in {"plain", "macro"} => f.pc = f.true.pc

\* The steps that neither write a file nor leave the slice.
LEMMA SliceKept ==
    ASSUME SliceInv, UNCHANGED <<opt, simVars, files, gen>>,
           loop' \in {"sim", "top", "slow", "fast", "end", "exit"},
           loop' \in {"top", "slow", "fast", "end"} => loop \in {"top", "slow", "fast", "end"},
           gen = 0 => n' \in Int /\ instret' \in Int
    PROVE  SliceInv'
BY DEF SliceInv, OneRestore, MaxRestores, WholeSlice, FileExact, simVars

\* The files of an instruction executed in processor_t::step: rem is what is
\* left of the grant once it is counted, nothing for a wfi.
LEMMA NewFilesExact ==
    ASSUME SliceInv, gen = 0, loop \in {"slow", "fast"},
           NEW npc, NEW ret, NEW nextPc,
           NEW rem, rem = IF Kind(pc) = "wfi" THEN 0 ELSE n - (instret + 1),
           NEW f \in NewFiles(pc, npc, ret, rem, nextPc, instret + 1)
    PROVE  FileExact(f)
<1>1. PICK t : f = File(t, pc, npc, ret, rem, nextPc, instret + 1)
  BY DEF NewFiles
<1>2. /\ current_step = 0 /\ slice = 0 /\ steps = Interleave
      /\ n \in Int /\ instret \in Int /\ Interleave \in Int
  BY StepLoopAssumption DEF SliceInv, WholeSlice
<1>3. /\ f.current_step = Interleave - rem /\ f.steps_remaining = rem
      /\ f.true.slice = TrueSteps(pc, instret + 1) /\ f.kind = Kind(pc)
  <2>1. rem \in Int /\ TrueSteps(pc, instret + 1) \in Int
    BY <1>2 DEF TrueSteps
  <2> QED BY <1>1, <1>2, <2>1 DEF File
<1>4. TrueSteps(pc, instret + 1) = Interleave - rem
  BY <1>2 DEF TrueSteps
<1>5. rem \in Int
  BY <1>2
<1> QED BY <1>2, <1>3, <1>4, <1>5 DEF FileExact

\* An instruction executed, with its checkpoint.
LEMMA SliceExecuted ==
    ASSUME SliceInv, UNCHANGED <<opt, simVars, gen>>, loop \in {"slow", "fast"},
           NEW npc, NEW ret, NEW nextPc,
           NEW rem, rem = IF Kind(pc) = "wfi" THEN 0 ELSE n - (instret + 1),
           Kind(pc) \in {"plain", "macro"} => npc = nextPc,
           maybe_checkpoint_interval(pc, npc, ret, rem, nextPc, instret + 1),
           loop' \in {"top", "slow", "fast", "end"},
           gen = 0 => n' \in Int /\ instret' \in Int
    PROVE  SliceInv'
<1>1. files' = files \cup NewFiles(pc, npc, ret, rem, nextPc, instret + 1)
  BY DEF maybe_checkpoint_interval
<1>2. \A f \in NewFiles(pc, npc, ret, rem, nextPc, instret + 1) :
          f.kind \in {"plain", "macro"} => f.pc = f.true.pc
  BY DEF NewFiles, File
<1>3. gen = 0 => \A f \in NewFiles(pc, npc, ret, rem, nextPc, instret + 1) : FileExact(f)
  BY NewFilesExact
<1>4. ASSUME gen = 0
      PROVE  WholeSlice' /\ (\A f \in files : FileExact(f))'
  <2>1. WholeSlice'
    BY <1>4 DEF SliceInv, WholeSlice, simVars
  <2>2. \A f \in files' : FileExact(f)
    BY <1>1, <1>3, <1>4 DEF SliceInv
  <2> QED BY <2>1, <2>2 DEF FileExact
<1>5. \A f \in files' : f.kind \in {"plain", "macro"} => f.pc = f.true.pc
  BY <1>1, <1>2 DEF SliceInv
<1>6. /\ OneRestore' /\ MaxRestores' \in Nat /\ gen' = gen /\ gen' <= MaxRestores'
      /\ current_step' = slice'
  BY DEF SliceInv, OneRestore, MaxRestores, simVars
<1> QED BY <1>4, <1>5, <1>6 DEF SliceInv

\* sim_t::idle, the calls of processor_t::step and their accounting: a slice
\* of the original run is one call.
LEMMA SliceSim ==
    ASSUME SliceInv, UNCHANGED opt, idle \/ sim_step \/ sim_step_return
    PROVE  SliceInv'
<1>0. Interleave \in Nat \ {0}
  BY StepLoopAssumption
<1>1. /\ UNCHANGED <<files, gen>>
      /\ OneRestore' /\ MaxRestores' \in Nat /\ gen' <= MaxRestores'
  BY DEF SliceInv, OneRestore, MaxRestores, idle, sim_step, sim_step_return, cpVars
<1>2. CASE idle
  BY <1>0, <1>1, <1>2 DEF SliceInv, WholeSlice, FileExact, idle
<1>3. CASE sim_step
  <2>1. gen = 0 => Grant = Interleave
    BY <1>0, <1>3 DEF SliceInv, WholeSlice, Grant, sim_step
  <2>2. ASSUME gen = 0 PROVE WholeSlice'
    BY <1>0, <1>3, <2>1, <2>2 DEF SliceInv, WholeSlice, sim_step
  <2> QED BY <1>1, <1>3, <2>2 DEF SliceInv, FileExact, sim_step
<1>4. CASE sim_step_return
  <2>1. ASSUME gen = 0 PROVE WholeSlice'
    BY <1>0, <1>4, <2>1 DEF SliceInv, WholeSlice, sim_step_return
  <2>2. current_step' = slice'
    BY <1>4 DEF SliceInv, sim_step_return
  <2> QED BY <1>1, <1>4, <2>1, <2>2 DEF SliceInv, FileExact, sim_step_return
<1> QED BY <1>2, <1>3, <1>4

\* It holds at the start ...
LEMMA SliceInit == Init /\ OneRestore => SliceInv
BY StepLoopAssumption DEF Init, SliceInv, OneRestore, MaxRestores, WholeSlice

\* ... and every step keeps it.
LEMMA SliceStep == SliceInv /\ [Next]_vars => SliceInv'
<1> SUFFICES ASSUME SliceInv, [Next]_vars PROVE SliceInv'
  OBVIOUS
<1> DEFINE In == {"top", "slow", "fast", "end"}
<1>0. gen = 0 => n \in Int /\ instret \in Int
  BY DEF SliceInv, WholeSlice
<1>1. CASE UNCHANGED vars
  BY <1>0, <1>1, SliceKept DEF vars, cpVars, SliceInv
<1>2. ASSUME Next, UNCHANGED opt, idle \/ sim_step \/ sim_step_return
      PROVE  SliceInv'
  BY <1>2, SliceSim
<1>3. ASSUME UNCHANGED opt,
             \/ round_start \/ take_interrupt \/ serialize_before
             \/ still_waiting \/ trap
      PROVE  SliceInv'
  <2>1. UNCHANGED <<simVars, files, gen>> /\ loop \in In
    BY <1>3 DEF round_start, take_interrupt, serialize_before, still_waiting, trap,
                cpVars, Running
  <2>2. loop' \in In
    BY <1>3, StepLoopAssumption DEF round_start, take_interrupt, serialize_before,
                still_waiting, trap, EndRound
  <2>3. gen = 0 => n' \in Int /\ instret' \in Int
    BY <1>0, <1>3 DEF round_start, take_interrupt, serialize_before, still_waiting,
                      trap, EndRound
  <2> QED BY <1>3, <2>1, <2>2, <2>3, SliceKept
<1>4. ASSUME UNCHANGED opt, request_async_checkpoint \/ exit \/ Exited
      PROVE  SliceInv'
  <2>1. UNCHANGED <<simVars, files, gen, n, instret>> /\ loop' \in {loop, "exit"}
    BY <1>4 DEF request_async_checkpoint, exit, Exited, vars, cpVars
  <2> QED BY <1>0, <1>4, <2>1, SliceKept DEF SliceInv
<1>5. ASSUME UNCHANGED opt, serialize_after
      PROVE  SliceInv'
  <2>1. /\ UNCHANGED <<simVars, gen>> /\ loop \in {"slow", "fast"}
        /\ Kind(pc) \notin {"plain", "macro", "wfi"}
    BY <1>5 DEF serialize_after, Running, CsrKinds
  <2>2. PICK nextPc : maybe_checkpoint_interval(pc, PC_SERIALIZE_AFTER, instret,
                                                n - (instret + 1), nextPc, instret + 1)
    BY <1>5 DEF serialize_after
  <2>3. loop' \in In /\ (gen = 0 => n' \in Int /\ instret' \in Int)
    BY <1>0, <1>5 DEF serialize_after, EndRound
  <2> QED BY <1>5, <2>1, <2>2, <2>3, SliceExecuted
<1>6. ASSUME UNCHANGED opt, execute
      PROVE  SliceInv'
  <2>1. /\ UNCHANGED <<simVars, gen>> /\ loop \in {"slow", "fast"}
        /\ Kind(pc) # "wfi"
    BY <1>6 DEF execute, Running
  <2>2. PICK ret : maybe_checkpoint_interval(pc, After(pc), ret, n - (instret + 1),
                                             After(pc), instret + 1)
    BY <1>6 DEF execute
  <2>3. loop' \in In /\ (gen = 0 => n' \in Int /\ instret' \in Int)
    BY <1>0, <1>6, <2>1 DEF execute, EndRound, Continue
  <2> QED BY <1>6, <2>1, <2>2, <2>3, SliceExecuted
<1>7. ASSUME UNCHANGED opt, wait_for_interrupt
      PROVE  SliceInv'
  <2>1. /\ UNCHANGED <<simVars, gen>> /\ loop \in {"slow", "fast"}
        /\ Kind(pc) = "wfi"
        /\ maybe_checkpoint_interval(pc, pc, instret + 1, 0, After(pc), instret + 1)
    BY <1>7 DEF wait_for_interrupt, Running
  <2>2. loop' \in In /\ (gen = 0 => n' \in Int /\ instret' \in Int)
    BY <1>0, <1>7 DEF wait_for_interrupt, EndRound
  <2> QED BY <1>7, <2>1, <2>2, SliceExecuted
<1>8. ASSUME UNCHANGED opt, NEW f \in files, checkpoint_restore(f)
      PROVE  SliceInv'
  <2>1. gen \in Nat /\ gen < MaxRestores /\ MaxRestores <= 1 /\ MaxRestores \in Nat
    BY <1>8 DEF SliceInv, OneRestore, checkpoint_restore
  <2>2. gen = 0 /\ gen' = 1 /\ MaxRestores' = MaxRestores
    BY <1>8, <2>1 DEF checkpoint_restore, MaxRestores
  <2>3. FileExact(f)
    BY <1>8, <2>2 DEF SliceInv
  <2>4. current_step' = slice' /\ loop' = "sim" /\ files' = files
    BY <1>8, <2>3 DEF checkpoint_restore, FileExact
  <2> QED BY <2>1, <2>2, <2>4 DEF SliceInv, OneRestore
<1> QED BY <1>1, <1>2, <1>3, <1>4, <1>5, <1>6, <1>7, <1>8 DEF Next

\* Between two calls of processor_t::step, current_step is what has been granted
\* of the slice, in the original and in a restored run: sim_t::checkpoint saves
\* the place in the slice, on either path and whatever the instruction.
THEOREM StepLoopSliceExact == Spec /\ OneRestore => []SliceExact
<1>1. SliceInv => SliceExact
  BY DEF SliceInv, SliceExact
<1> QED BY <1>1, SliceInit, SliceStep, PTL DEF Spec

\* A restored run resumes at the right pc and with the rest of the slice, for
\* instructions that neither serialize nor wait (maybe_checkpoint_interval as
\* called from processor_t::step).
THEOREM StepLoopResumePoint == Spec /\ OneRestore => []ResumePoint
<1>1. SliceInv => ResumePoint
  BY DEF SliceInv, ResumePoint, FileExact
<1> QED BY <1>1, SliceInit, SliceStep, PTL DEF Spec

-----------------------------------------------------------------------------
(* Requests for checkpoints                                                *)

\* Hypothesis: no other checkpoint of an instruction is taken, neither by
\* signal nor by the no-op, and no request is repeated.
Undisturbed ==
    /\ MaxAsync = 0 /\ \A p \in DOMAIN Prog : Kind(p) # "macro"
    /\ \A i, j \in DOMAIN Requests : Requests[i] = Requests[j] => i = j

\* There is a file for request r.
Saved(r) == \E f \in files : f.type = "insn" /\ f.num = r

\* The requests not yet served are in the list, the last of them in
\* next_checkpoint, which is not yet passed.
Pending ==
    /\ checkpoint_instructions \in Seq(Nat \ {0})
    /\ executed \in Nat /\ next_checkpoint \in Nat
    /\ next_checkpoint = None => checkpoint_instructions = <<>>
    /\ next_checkpoint # None => next_checkpoint >= executed
    /\ \A i \in DOMAIN checkpoint_instructions : checkpoint_instructions[i] > next_checkpoint
    /\ \A i, j \in DOMAIN checkpoint_instructions :
          i < j => checkpoint_instructions[i] > checkpoint_instructions[j]

\* Request r is still to come.
Listed(r) == r = next_checkpoint \/ \E i \in DOMAIN checkpoint_instructions :
                                        checkpoint_instructions[i] = r

\* The invariant: in the original run every request is listed or served.
ServedInv ==
    /\ Undisturbed /\ opt \in Options /\ gen \in Nat
    /\ gen = 0 =>
          /\ pc \in DOMAIN Prog /\ epc \in DOMAIN Prog /\ ~async /\ signals = 0
          /\ Pending
          /\ \A i \in DOMAIN Requests : Listed(Requests[i]) \/ Saved(Requests[i])

\* The invariant implies the property: what is still listed is not passed.
LEMMA ServedEnough == ServedInv => RequestsServed
<1> SUFFICES ASSUME ServedInv, gen = 0, NEW i \in DOMAIN Requests, Requests[i] < executed
             PROVE  Saved(Requests[i])
  BY DEF RequestsServed, Saved
<1>0. Requests \in Seq(Nat \ {0})
  BY StepLoopAssumption DEF ServedInv, Requests
<1>1. Requests[i] \in Nat \ {0}
  BY <1>0
<1>2. SUFFICES ASSUME Listed(Requests[i]) PROVE FALSE
  BY DEF ServedInv
<1>3. CASE next_checkpoint = None
  BY <1>1, <1>2, <1>3 DEF ServedInv, Pending, Listed, None
<1>4. CASE next_checkpoint # None
  <2>1. next_checkpoint >= executed /\ next_checkpoint \in Nat /\ executed \in Nat
    BY <1>4 DEF ServedInv, Pending
  <2>2. CASE Requests[i] = next_checkpoint
    BY <1>1, <2>1, <2>2
  <2>3. ASSUME NEW j \in DOMAIN checkpoint_instructions, checkpoint_instructions[j] = Requests[i]
        PROVE  FALSE
    BY <1>1, <2>1, <2>3 DEF ServedInv, Pending
  <2> QED BY <1>2, <2>2, <2>3 DEF Listed
<1> QED BY <1>3, <1>4

\* What the constructor leaves: the requests in strictly descending order.
LEMMA SortedRequests ==
    ASSUME opt \in Options, Undisturbed
    PROVE  /\ Sorted \in Seq(Nat \ {0}) /\ Len(Sorted) = Len(Requests)
           /\ \A i \in DOMAIN Requests : \E j \in DOMAIN Sorted : Sorted[j] = Requests[i]
           /\ \A i, j \in DOMAIN Sorted : i < j => Sorted[i] > Sorted[j]
<1> DEFINE D == DOMAIN Requests
           P(q) == \A i, j \in D : i < j => Requests[q[i]] >= Requests[q[j]]
           order == CHOOSE q \in Surjection(D, D) : P(q)
<1>1. Requests \in Seq(Nat \ {0}) /\ Requests \in Seq(Nat)
  <2>1. Requests \in Seq(Nat \ {0})
    BY StepLoopAssumption DEF Requests
  <2> QED BY <2>1
<1>2. \E q \in Surjection(D, D) : P(q)
  BY <1>1, SortingExists
<1>3. order \in Surjection(D, D) /\ P(order)
  BY <1>2
<1>4. Sorted = [i \in D |-> Requests[order[i]]]
  BY DEF Sorted
<1> HIDE DEF order
<1>5. order \in [D -> D] /\ \A t \in D : \E i \in D : order[i] = t
  BY <1>3 DEF Surjection
<1>6. D = 1 .. Len(Requests) /\ Len(Requests) \in Nat /\ IsFiniteSet(D)
  BY <1>1, FS_Interval
<1>7. Sorted \in Seq(Nat \ {0}) /\ Len(Sorted) = Len(Requests) /\ DOMAIN Sorted = D
  <2>0. \A i \in D : Requests[order[i]] \in Nat \ {0}
    <3>1. \A i \in D : Requests[i] \in Nat \ {0}
      BY <1>1
    <3> QED BY <1>5, <3>1
  <2>1. Sorted \in [1 .. Len(Requests) -> Nat \ {0}]
    BY <1>4, <1>6, <2>0
  <2>2. Sorted \in Seq(Nat \ {0})
    BY <1>6, <2>1, SeqDef
  <2> QED BY <1>6, <2>1, <2>2
<1>8. \A i \in D : \E j \in D : Sorted[j] = Requests[i]
  BY <1>4, <1>5
<1>9. \A i, j \in D : order[i] = order[j] => i = j
  <2>1. order \in Injection(D, D)
    BY <1>3, <1>6, FS_SurjSameCardinalityImpliesInj
  <2> QED BY <2>1 DEF Injection, IsInjective
<1>10. ASSUME NEW i \in D, NEW j \in D, i < j
       PROVE  Sorted[i] > Sorted[j]
  <2>1. Sorted[i] = Requests[order[i]] /\ Sorted[j] = Requests[order[j]]
    BY <1>4
  <2>2. order[i] \in D /\ order[j] \in D /\ order[i] # order[j]
    BY <1>5, <1>6, <1>9, <1>10
  <2>3. Requests[order[i]] \in Nat /\ Requests[order[j]] \in Nat
    BY <1>1, <2>2
  <2>4. Requests[order[i]] # Requests[order[j]]
    BY <2>2 DEF Undisturbed
  <2>5. Requests[order[i]] >= Requests[order[j]]
    BY <1>3, <1>10
  <2> QED BY <2>1, <2>3, <2>4, <2>5
<1> QED BY <1>7, <1>8, <1>10

\* It holds at the start ...
LEMMA ServedInit == Init /\ Undisturbed => ServedInv
<1> SUFFICES ASSUME Init, Undisturbed PROVE ServedInv
  OBVIOUS
<1>1. opt \in Options /\ Prog \in Seq([kind : STRING, user : BOOLEAN])
      /\ Handler \in DOMAIN Prog /\ Requests \in Seq(Nat \ {0})
  BY StepLoopAssumption DEF Init, Prog, Handler, Requests
<1>2. 1 \in DOMAIN Prog
  BY <1>1
<1>3. Pending /\ \A i \in DOMAIN Requests : Listed(Requests[i])
  <2>1. CASE Requests = <<>>
    BY <2>1 DEF Init, FirstRequest, LaterRequests, Pending, Listed, None
  <2>2. CASE Requests # <<>>
    <3> DEFINE s == Sorted
               k == Len(s)
    <3>1. /\ s \in Seq(Nat \ {0}) /\ k = Len(Requests)
          /\ \A i \in DOMAIN Requests : \E j \in DOMAIN s : s[j] = Requests[i]
          /\ \A i, j \in DOMAIN s : i < j => s[i] > s[j]
      BY <1>1, SortedRequests
    <3>2. next_checkpoint = s[k] /\ checkpoint_instructions = SubSeq(s, 1, k - 1)
      BY <2>2 DEF Init, FirstRequest, LaterRequests
    <3> HIDE DEF s, k
    <3>3. k \in Nat \ {0} /\ k \in DOMAIN s /\ DOMAIN s = 1 .. k
      BY <1>1, <2>2, <3>1 DEF k
    <3>4. /\ checkpoint_instructions \in Seq(Nat \ {0})
          /\ DOMAIN checkpoint_instructions = 1 .. k - 1
          /\ \A i \in 1 .. k - 1 : checkpoint_instructions[i] = s[i]
      BY <3>1, <3>2, <3>3 DEF k
    <3>5. s[k] \in Nat \ {0} /\ \A i \in 1 .. k - 1 : i \in DOMAIN s /\ i < k
      BY <3>1, <3>3
    <3>6. Pending
      <4>1. \A i \in DOMAIN checkpoint_instructions :
               checkpoint_instructions[i] > next_checkpoint
        BY <3>1, <3>2, <3>3, <3>4, <3>5
      <4>2. \A i, j \in DOMAIN checkpoint_instructions :
               i < j => checkpoint_instructions[i] > checkpoint_instructions[j]
        BY <3>1, <3>4, <3>5
      <4>3. next_checkpoint \in Nat \ {0} /\ executed = 0
        BY <3>2, <3>5 DEF Init
      <4> QED BY <3>4, <4>1, <4>2, <4>3 DEF Pending, None
    <3>7. ASSUME NEW i \in DOMAIN Requests PROVE Listed(Requests[i])
      <4>1. PICK j \in 1 .. k : s[j] = Requests[i]
        BY <3>1, <3>3
      <4>2. CASE j = k
        BY <3>2, <4>1, <4>2 DEF Listed
      <4>3. CASE j # k
        <5>1. j \in 1 .. k - 1
          BY <3>3, <4>3
        <5> QED BY <3>4, <4>1, <5>1 DEF Listed
      <4> QED BY <4>2, <4>3
    <3> QED BY <3>6, <3>7
  <2> QED BY <2>1, <2>2
<1> QED BY <1>1, <1>2, <1>3 DEF Init, ServedInv

\* A step that executes nothing.
LEMMA ServedKept ==
    ASSUME ServedInv, UNCHANGED <<opt, executed, cpVars, gen, signals>>,
           gen = 0 => pc' \in DOMAIN Prog /\ epc' \in DOMAIN Prog
    PROVE  ServedInv'
BY DEF ServedInv, Undisturbed, MaxAsync, Prog, Kind, Requests, Pending, Listed, Saved, cpVars

\* The instruction after one of the program is one of the program.
LEMMA AfterInProg ==
    ASSUME opt \in Options, NEW p \in DOMAIN Prog
    PROVE  After(p) \in DOMAIN Prog /\ Handler \in DOMAIN Prog
<1>1. Prog \in Seq([kind : STRING, user : BOOLEAN]) /\ Handler \in DOMAIN Prog
  BY StepLoopAssumption DEF Prog, Handler
<1> QED BY <1>1 DEF After

\* An instruction executed: a request that is due is served before the
\* counter passes it, and the next one is later.
LEMMA ServedExecuted ==
    ASSUME ServedInv, UNCHANGED <<opt, gen, signals>>, executed' = executed + 1,
           NEW npc, NEW ret, NEW rem, NEW nextPc, NEW retired,
           maybe_checkpoint_interval(pc, npc, ret, rem, nextPc, retired),
           gen = 0 => pc' \in DOMAIN Prog /\ epc' \in DOMAIN Prog
    PROVE  ServedInv'
<1>1. UNCHANGED <<Prog, Requests>> /\ Undisturbed' /\ opt' \in Options
  BY DEF ServedInv, Undisturbed, MaxAsync, Prog, Kind, Requests
<1> SUFFICES ASSUME gen = 0
             PROVE  /\ ~async' /\ Pending'
                    /\ \A r : Listed(r) \/ Saved(r) => Listed(r)' \/ Saved(r)'
  BY <1>1 DEF ServedInv
<1> PICK c, x : c = checkpoint_instructions /\ x = next_checkpoint
  OBVIOUS
<1>2. /\ c \in Seq(Nat \ {0}) /\ executed \in Nat /\ x \in Nat /\ ~async
      /\ x = None => c = <<>>
      /\ x # None => x >= executed
      /\ \A i \in DOMAIN c : c[i] > x
      /\ \A i, j \in DOMAIN c : i < j => c[i] > c[j]
  BY DEF ServedInv, Pending
<1>3. InsnHit(pc) <=> x # None /\ executed = x
  BY <1>2 DEF InsnHit, ServedInv, Undisturbed
<1>4. /\ files' = files \cup NewFiles(pc, npc, ret, rem, nextPc, retired)
      /\ ~async'
  BY <1>2 DEF maybe_checkpoint_interval
<1>5. \A r : Saved(r) => Saved(r)'
  BY <1>4 DEF Saved
<1>6. CASE ~ InsnHit(pc)
  <2>1. UNCHANGED <<next_checkpoint, checkpoint_instructions>>
    BY <1>6 DEF maybe_checkpoint_interval
  <2>2. Pending'
    BY <1>2, <1>3, <1>6, <2>1 DEF Pending
  <2>3. \A r : Listed(r) => Listed(r)'
    BY <2>1 DEF Listed
  <2> QED BY <1>4, <1>5, <2>2, <2>3
<1>7. CASE InsnHit(pc)
  <2>1. Saved(x)'
    <3>1. File("insn", pc, npc, ret, rem, nextPc, retired) \in files'
      BY <1>4, <1>7 DEF NewFiles
    <3>2. /\ File("insn", pc, npc, ret, rem, nextPc, retired).type = "insn"
          /\ File("insn", pc, npc, ret, rem, nextPc, retired).num = x
      BY <1>3, <1>7 DEF File
    <3> QED BY <3>1, <3>2 DEF Saved
  <2>2. CASE c = <<>>
    <3>1. next_checkpoint' = None /\ checkpoint_instructions' = <<>>
      BY <1>7, <2>2 DEF maybe_checkpoint_interval
    <3>2. Pending'
      BY <1>2, <3>1 DEF Pending, None
    <3>3. \A r : Listed(r) => r = x
      BY <2>2 DEF Listed
    <3> QED BY <1>4, <1>5, <2>1, <3>2, <3>3
  <2>3. CASE c # <<>>
    <3> PICK k : k = Len(c)
      OBVIOUS
    <3>1. next_checkpoint' = c[k] /\ checkpoint_instructions' = SubSeq(c, 1, k - 1)
      BY <1>3, <1>7, <2>3 DEF maybe_checkpoint_interval
    <3>2. k \in Nat \ {0} /\ k \in DOMAIN c /\ DOMAIN c = 1 .. k
      BY <1>2, <2>3
    <3>3. /\ checkpoint_instructions' \in Seq(Nat \ {0})
          /\ DOMAIN checkpoint_instructions' = 1 .. k - 1
          /\ \A i \in 1 .. k - 1 : checkpoint_instructions'[i] = c[i]
      BY <1>2, <3>1, <3>2
    <3>4. /\ c[k] \in Nat \ {0} /\ c[k] > x /\ x = executed
          /\ \A i \in 1 .. k - 1 : i \in DOMAIN c /\ i < k
      BY <1>2, <1>3, <1>7, <3>2
    <3>5. Pending'
      <4>1. \A i \in DOMAIN checkpoint_instructions' :
               checkpoint_instructions'[i] > next_checkpoint'
        BY <1>2, <3>1, <3>2, <3>3, <3>4
      <4>2. \A i, j \in DOMAIN checkpoint_instructions' :
               i < j => checkpoint_instructions'[i] > checkpoint_instructions'[j]
        BY <1>2, <3>3, <3>4
      <4>3. /\ next_checkpoint' \in Nat \ {0} /\ executed' \in Nat
            /\ next_checkpoint' >= executed'
        BY <1>2, <3>1, <3>4
      <4> QED BY <3>3, <4>1, <4>2, <4>3 DEF Pending, None
    <3>6. ASSUME NEW r, Listed(r) PROVE Listed(r)' \/ r = x
      <4>1. CASE r = x
        BY <4>1
      <4>2. ASSUME NEW j \in 1 .. k, c[j] = r PROVE Listed(r)'
        <5>1. CASE j = k
          BY <3>1, <4>2, <5>1 DEF Listed
        <5>2. CASE j # k
          <6>1. j \in 1 .. k - 1
            BY <3>2, <5>2
          <6> QED BY <3>3, <4>2, <6>1 DEF Listed
        <5> QED BY <5>1, <5>2
      <4> QED BY <3>2, <3>6, <4>1, <4>2 DEF Listed
    <3> QED BY <1>4, <1>5, <2>1, <3>5, <3>6
  <2> QED BY <2>2, <2>3
<1> QED BY <1>6, <1>7

\* ... and every step keeps it.
LEMMA ServedStep == ServedInv /\ [Next]_vars => ServedInv'
<1> SUFFICES ASSUME ServedInv, [Next]_vars PROVE ServedInv'
  OBVIOUS
<1>0. gen = 0 => /\ {pc, epc, After(pc), Handler} \subseteq DOMAIN Prog
                 /\ signals = 0 /\ MaxAsync = 0
  BY AfterInProg DEF ServedInv, Undisturbed
<1>1. CASE UNCHANGED vars
  BY <1>0, <1>1, ServedKept DEF vars, hartVars, counters
<1>2. ASSUME UNCHANGED opt,
             \/ idle \/ sim_step \/ sim_step_return \/ round_start \/ take_interrupt
             \/ serialize_before \/ still_waiting \/ trap \/ exit \/ Exited
      PROVE  ServedInv'
  <2>1. UNCHANGED <<executed, cpVars, gen, signals>>
    BY <1>2 DEF idle, sim_step, sim_step_return, round_start, take_interrupt,
                serialize_before, still_waiting, trap, exit, Exited, vars, counters
  <2>2. pc' \in {pc, Handler} /\ epc' \in {epc, pc, After(pc)}
    BY <1>2 DEF idle, sim_step, sim_step_return, round_start, take_interrupt,
                serialize_before, still_waiting, trap, exit, Exited, vars, hartVars
  <2> QED BY <1>0, <1>2, <2>1, <2>2, ServedKept
<1>3. ASSUME UNCHANGED opt, serialize_after \/ execute \/ wait_for_interrupt
      PROVE  ServedInv'
  <2>1. /\ UNCHANGED <<gen, signals, epc>> /\ executed' = executed + 1
        /\ pc' \in {epc, After(pc)}
    BY <1>3 DEF serialize_after, execute, wait_for_interrupt, incr_executed_instructions
  <2>2. \E npc, ret, rem, nextPc, retired :
            maybe_checkpoint_interval(pc, npc, ret, rem, nextPc, retired)
    BY <1>3 DEF serialize_after, execute, wait_for_interrupt
  <2> QED BY <1>0, <1>3, <2>1, <2>2, ServedExecuted
<1>4. ASSUME UNCHANGED opt, request_async_checkpoint
      PROVE  ServedInv'
  <2>1. gen # 0 /\ gen' = gen
    BY <1>0, <1>4 DEF request_async_checkpoint
  <2> QED BY <1>4, <2>1 DEF ServedInv, Undisturbed, MaxAsync, Prog, Kind, Requests
<1>5. ASSUME UNCHANGED opt, NEW f \in files, checkpoint_restore(f)
      PROVE  ServedInv'
  <2>1. gen' \in Nat \ {0}
    BY <1>5 DEF checkpoint_restore, ServedInv
  <2> QED BY <1>5, <2>1 DEF ServedInv, Undisturbed, MaxAsync, Prog, Kind, Requests
<1> QED BY <1>1, <1>2, <1>3, <1>4, <1>5 DEF Next

\* Every request is served before the run has passed it, in whatever order
\* they were given, in the slow and in the fast loop, past instructions that
\* serialize, wait or trap, unless another checkpoint disturbs them
\* (maybe_checkpoint_interval, the constructor of processor_t).
THEOREM StepLoopRequestsServed == Spec /\ Undisturbed => []RequestsServed
BY ServedEnough, ServedInit, ServedStep, PTL DEF Spec

-----------------------------------------------------------------------------
(* Checkpoints of intervals                                                *)

IntervalFiles == {f \in files : f.type = "interval"}
RegionFiles   == {f \in IntervalFiles : f.num > region.start}
CountedFiles  == {f \in RegionFiles : Counted(f)}

\* What the name of a file and its contents say about the boundary it is for,
\* with an interval of i and a SimPoint size of d.
AtBoundary(f, i, d) ==
    f.num \in Nat /\ f.roi \in Nat \ {0} /\ f.roi % i = 0 /\ f.interval = f.roi \div d

\* R are the files of the region and C those of counted instructions, when the
\* counter stands at c, instruction x is next, and an ecall has moved the
\* counter from the values in T: a counted instruction has written the latest
\* file of its boundary, and there is one for each boundary below c at which
\* there was no ecall.
FilesOf(i, d, R, C, T, c, x) ==
    /\ \A f \in R : AtBoundary(f, i, d) /\ f.roi <= c /\ f.num < x
    /\ \A f \in C : f \in R /\ f.roi < c
    /\ \A f \in C, g \in R : f.roi = g.roi => g = f \/ (g \notin C /\ g.num < f.num)
    /\ \A m \in Nat \ {0} : m % i = 0 /\ m < c /\ m \notin T => \E f \in C : f.roi = m

\* The invariant.
IntervalInv ==
    /\ opt \in Options /\ gen \in Nat
    /\ gen = 0 /\ Interval > 0 =>
          /\ roi \in Nat /\ executed \in Nat
          /\ region.start \in Int /\ region.start < executed
          /\ region = [start |-> region.start, trapped |-> region.trapped]
          /\ \A f \in IntervalFiles : f.num \in Nat /\ f.num < executed
          /\ FilesOf(Interval, SimpointSize, RegionFiles, CountedFiles, region.trapped,
                     roi, executed)

LEMMA IntervalSizes ==
    ASSUME opt \in Options
    PROVE  Interval \in Nat /\ SimpointSize \in Nat \ {0} /\ Interval % SimpointSize = 0
  BY StepLoopAssumption DEF Interval, SimpointSize

\* Two boundaries are at least an interval apart.
LEMMA Apart ==
    ASSUME NEW i \in Nat \ {0}, NEW x \in Nat, NEW y \in Nat, x < y, x % i = 0, y % i = 0
    PROVE  x + i <= y
<1> DEFINE a == x \div i
           b == y \div i
<1>1. a \in Int /\ b \in Int /\ x = i * a /\ y = i * b
  OBVIOUS
<1> HIDE DEF a, b
<1>2. a < b
  <2> SUFFICES ASSUME b <= a PROVE FALSE
    BY <1>1
  <2>1. i * b <= i * a
    BY <1>1
  <2> QED BY <1>1, <2>1
<1>3. i * (a + 1) <= i * b /\ i * (a + 1) = (i * a) + i
  BY <1>1, <1>2
<1> QED BY <1>1, <1>3

LEMMA ProductBoundary ==
    ASSUME NEW i \in Nat \ {0}, NEW k \in Nat \ {0}
    PROVE  k * i \in Nat \ {0} /\ (k * i) % i = 0
  OBVIOUS

\* Numbers as far apart as d have different quotients by d.
LEMMA QuotientsDiffer ==
    ASSUME NEW d \in Nat \ {0}, NEW x \in Nat, NEW y \in Nat, x + d <= y
    PROVE  x \div d # y \div d
<1> DEFINE a == x \div d
           b == y \div d
<1>1. a \in Int /\ b \in Int /\ x < (d * a) + d /\ d * b <= y /\ d * a <= x /\ y < (d * b) + d
  OBVIOUS
<1> HIDE DEF a, b
<1>2. a # b
  BY <1>1
<1> QED BY <1>2 DEF a, b

LEMMA MultipleAtLeast ==
    ASSUME NEW i \in Nat, NEW d \in Nat \ {0}, i > 0, i % d = 0
    PROVE  i >= d
<1> DEFINE a == i \div d
<1>1. a \in Int /\ i = d * a
  OBVIOUS
<1> HIDE DEF a
<1>2. a >= 1
  <2> SUFFICES ASSUME a <= 0 PROVE FALSE
    BY <1>1
  <2>1. d * a <= d * 0
    BY <1>1
  <2> QED BY <1>1, <2>1
<1>3. d * 1 <= d * a
  BY <1>1, <1>2
<1> QED BY <1>1, <1>3

\* So no two boundaries have the same number.
LEMMA BoundariesNumbered ==
    ASSUME NEW i \in Nat \ {0}, NEW d \in Nat \ {0}, i % d = 0,
           NEW x \in Nat, NEW y \in Nat, x % i = 0, y % i = 0, x \div d = y \div d
    PROVE  x = y
<1>1. i >= d
  BY MultipleAtLeast
<1>2. ASSUME NEW a \in Nat, NEW b \in Nat, a < b, a % i = 0, b % i = 0
      PROVE  a \div d # b \div d
  <2>1. a + i <= b
    BY <1>2, Apart
  <2>2. a + d <= b
    BY <1>1, <2>1
  <2> QED BY <2>2, QuotientsDiffer
<1>3. ~(x < y) /\ ~(y < x)
  BY <1>2
<1> QED BY <1>3

\* The invariant implies the property.
LEMMA IntervalsEnough == IntervalInv => IntervalsSavedOnce
<1> DEFINE Written(k) == {f \in files : /\ f.type = "interval" /\ f.num > region.start
                                      /\ f.interval = (k * Interval) \div SimpointSize}
<1> SUFFICES ASSUME IntervalInv, gen = 0, Interval > 0, NEW k \in 1 .. MaxInsns,
                    k * Interval < roi, k * Interval \notin region.trapped
             PROVE  \E f \in Written(k) : /\ Counted(f)
                                        /\ \A g \in Written(k) \ {f} : ~Counted(g) /\ g.num < f.num
  BY Zenon DEF IntervalsSavedOnce
<1>1. Interval \in Nat \ {0} /\ SimpointSize \in Nat \ {0} /\ Interval % SimpointSize = 0
  BY IntervalSizes DEF IntervalInv
<1> DEFINE m == k * Interval
<1>2. m \in Nat \ {0} /\ m % Interval = 0 /\ m < roi /\ m \notin region.trapped
  BY <1>1, ProductBoundary
<1>3. FilesOf(Interval, SimpointSize, RegionFiles, CountedFiles, region.trapped, roi, executed)
  BY DEF IntervalInv
<1>4. \A f \in Written(k) : f \in RegionFiles /\ f.interval = m \div SimpointSize
  BY DEF IntervalFiles, RegionFiles
<1>5. \A f \in RegionFiles : f.interval = m \div SimpointSize => f \in Written(k)
  BY DEF IntervalFiles, RegionFiles
<1>6. \A f : f \in CountedFiles <=> f \in RegionFiles /\ Counted(f)
  BY Zenon DEF CountedFiles
<1> HIDE DEF m, Saved
<1>7. PICK f \in CountedFiles : f.roi = m
  BY <1>2, <1>3 DEF FilesOf
<1>8. f \in RegionFiles /\ AtBoundary(f, Interval, SimpointSize)
  BY <1>3, <1>7 DEF FilesOf
<1>9. f \in Written(k)
  BY <1>5, <1>7, <1>8 DEF AtBoundary
<1>10. ASSUME NEW g \in Written(k) \ {f} PROVE g \notin CountedFiles /\ g.num < f.num
  <2>1. g \in RegionFiles /\ AtBoundary(g, Interval, SimpointSize)
    BY <1>3, <1>4 DEF FilesOf
  <2>2. g.roi \in Nat /\ g.roi % Interval = 0 /\ g.roi \div SimpointSize = m \div SimpointSize
    BY <1>4, <2>1 DEF AtBoundary
  <2>3. g.roi = m
    BY <1>1, <1>2, <2>2, BoundariesNumbered
  <2> QED BY <1>3, <1>7, <2>1, <2>3 DEF FilesOf
<1>11. \A g \in Written(k) \ {f} : ~Counted(g)
  BY <1>4, <1>6, <1>10, Zenon
<1>12. Counted(f)
  BY <1>6, <1>7, Zenon
<1> QED BY <1>9, <1>10, <1>11, <1>12, Zenon

LEMMA IntervalInit == Init => IntervalInv
<1> SUFFICES ASSUME Init PROVE IntervalInv
  OBVIOUS
<1>1. RegionFiles = {} /\ CountedFiles = {} /\ IntervalFiles = {}
  BY DEF Init, IntervalFiles, RegionFiles, CountedFiles
<1> QED BY <1>1 DEF Init, IntervalInv, FilesOf

-----------------------------------------------------------------------------

\* No file is written, and the counter passes no boundary, or by an ecall.
LEMMA FilesStay ==
    ASSUME NEW i \in Nat \ {0}, NEW d, NEW R, NEW C, NEW T, NEW c \in Nat, NEW x \in Nat,
           FilesOf(i, d, R, C, T, c, x), NEW T2, NEW c2 \in Nat, NEW x2 \in Nat, x <= x2,
           \/ c2 = c /\ T2 = T
           \/ c2 = c + 1 /\ T2 = T \cup {c}
           \/ c2 = c + 1 /\ T2 = T /\ (c = 0 \/ c % i # 0)
    PROVE  FilesOf(i, d, R, C, T2, c2, x2)
<1>1. \A f \in R : AtBoundary(f, i, d) /\ f.roi <= c2 /\ f.num < x2
  BY DEF FilesOf, AtBoundary
<1>2. \A f \in C : f \in R /\ f.roi < c2
  BY DEF FilesOf, AtBoundary
<1>3. ASSUME NEW m \in Nat \ {0}, m % i = 0, m < c2, m \notin T2
      PROVE  \E f \in C : f.roi = m
  <2>1. m < c /\ m \notin T
    BY <1>3
  <2> QED BY <1>3, <2>1 DEF FilesOf
<1> QED BY <1>1, <1>2, <1>3 DEF FilesOf

\* A file is written at a boundary by an instruction that is not counted.
LEMMA FilesRepeat ==
    ASSUME NEW i \in Nat \ {0}, NEW d, NEW R, NEW C, NEW T, NEW c \in Nat \ {0}, NEW x \in Nat,
           FilesOf(i, d, R, C, T, c, x),
           NEW new, AtBoundary(new, i, d), new.roi = c, new.num = x
    PROVE  FilesOf(i, d, R \cup {new}, C, T, c, x + 1)
<1>1. new \notin R
  BY DEF FilesOf, AtBoundary
<1>2. \A f \in R \cup {new} : AtBoundary(f, i, d) /\ f.roi <= c /\ f.num < x + 1
  BY DEF FilesOf, AtBoundary
<1>3. ASSUME NEW f \in C, NEW g \in R \cup {new}, f.roi = g.roi
      PROVE  g = f \/ (g \notin C /\ g.num < f.num)
  <2>1. f.roi < c
    BY DEF FilesOf
  <2>2. g # new
    BY <1>3, <2>1 DEF FilesOf, AtBoundary
  <2> QED BY <1>3, <2>2 DEF FilesOf
<1> QED BY <1>2, <1>3 DEF FilesOf

\* A file is written at a boundary by the instruction that passes it.
LEMMA FilesPass ==
    ASSUME NEW i \in Nat \ {0}, NEW d, NEW R, NEW C, NEW T, NEW c \in Nat \ {0}, NEW x \in Nat,
           FilesOf(i, d, R, C, T, c, x),
           NEW new, AtBoundary(new, i, d), new.roi = c, new.num = x
    PROVE  FilesOf(i, d, R \cup {new}, C \cup {new}, T, c + 1, x + 1)
<1>1. \A f \in R \cup {new} : AtBoundary(f, i, d) /\ f.roi <= c + 1 /\ f.num < x + 1
  BY DEF FilesOf, AtBoundary
<1>2. \A f \in C \cup {new} : f \in R \cup {new} /\ f.roi < c + 1
  BY DEF FilesOf, AtBoundary
<1>3. ASSUME NEW f \in C \cup {new}, NEW g \in R \cup {new}, f.roi = g.roi, g # f
      PROVE  g \notin C \cup {new} /\ g.num < f.num
  <2>1. \A h \in C : h.roi < c /\ h.roi # c
    BY DEF FilesOf, AtBoundary
  <2>2. CASE f = new
    <3>1. g \in R /\ g \notin C
      BY <1>3, <2>1, <2>2
    <3> QED BY <1>3, <2>2, <3>1 DEF FilesOf
  <2>3. CASE f \in C /\ f # new
    <3>1. g # new /\ g \in R
      BY <1>3, <2>1, <2>3
    <3> QED BY <1>3, <2>3, <3>1 DEF FilesOf
  <2> QED BY <2>2, <2>3
<1>4. ASSUME NEW m \in Nat \ {0}, m % i = 0, m < c + 1, m \notin T
      PROVE  \E f \in C \cup {new} : f.roi = m
  <2>1. m = c \/ m < c
    BY <1>4
  <2> QED BY <1>4, <2>1 DEF FilesOf
<1> QED BY <1>1, <1>2, <1>3, <1>4 DEF FilesOf

-----------------------------------------------------------------------------

\* A step that writes no file and does not move the counters.
LEMMA IntervalKept ==
    ASSUME IntervalInv, UNCHANGED <<opt, executed, roi, region, files, gen>>
    PROVE  IntervalInv'
<1>1. UNCHANGED <<Interval, SimpointSize, IntervalFiles, RegionFiles, CountedFiles>>
  BY DEF Interval, SimpointSize, IntervalFiles, RegionFiles, CountedFiles
<1> QED BY <1>1 DEF IntervalInv

\* A trap: the instruction is counted and nothing is written.
LEMMA IntervalTrapped ==
    ASSUME IntervalInv, UNCHANGED <<opt, executed, files, gen>>,
           \/ roi' = roi + 1 /\ region' = [region EXCEPT !.trapped = @ \cup {roi}]
           \/ UNCHANGED <<roi, region>>
    PROVE  IntervalInv'
<1>1. UNCHANGED <<Interval, SimpointSize, IntervalFiles>>
  BY DEF Interval, SimpointSize, IntervalFiles
<1>2. CASE UNCHANGED <<roi, region>>
  BY <1>2, IntervalKept
<1>3. CASE roi' = roi + 1 /\ region' = [region EXCEPT !.trapped = @ \cup {roi}]
  <2> SUFFICES ASSUME gen = 0, Interval > 0
               PROVE  /\ roi' \in Nat /\ region'.start = region.start
                      /\ region' = [start |-> region'.start, trapped |-> region'.trapped]
                      /\ FilesOf(Interval, SimpointSize, RegionFiles', CountedFiles',
                                 region'.trapped, roi', executed)
    BY <1>1 DEF IntervalInv
  <2>1. roi \in Nat /\ executed \in Nat
    BY DEF IntervalInv
  <2>2. region = [start |-> region.start, trapped |-> region.trapped]
    BY DEF IntervalInv
  <2>3. region' = [start |-> region.start, trapped |-> region.trapped \cup {roi}]
    BY <1>3, <2>2
  <2>4. region'.start = region.start /\ region'.trapped = region.trapped \cup {roi}
    BY <2>3
  <2>5. RegionFiles' = RegionFiles
    BY <1>1, <2>4 DEF RegionFiles
  <2>6. CountedFiles' = CountedFiles
    BY <2>5, Zenon DEF CountedFiles, Counted
  <2>7. FilesOf(Interval, SimpointSize, RegionFiles, CountedFiles, region.trapped, roi, executed)
    BY DEF IntervalInv
  <2>8. FilesOf(Interval, SimpointSize, RegionFiles, CountedFiles, region.trapped \cup {roi},
                roi + 1, executed)
    BY <2>1, <2>7, FilesStay, IntervalSizes DEF IntervalInv
  <2>9. roi' = roi + 1 /\ roi' \in Nat
    BY <1>3, <2>1
  <2>10. region' = [start |-> region'.start, trapped |-> region'.trapped]
    BY <2>3
  <2> QED BY <2>4, <2>5, <2>6, <2>8, <2>9, <2>10
<1> QED BY <1>2, <1>3

\* An instruction that retires.
LEMMA IntervalExecuted ==
    ASSUME IntervalInv, UNCHANGED <<opt, gen>>, incr_executed_instructions(pc),
           NEW npc, NEW ret, NEW rem, NEW nextPc, NEW retired,
           maybe_checkpoint_interval(pc, npc, ret, rem, nextPc, retired)
    PROVE  IntervalInv'
<1> DEFINE new == File("interval", pc, npc, ret, rem, nextPc, retired)
           insn == File("insn", pc, npc, ret, rem, nextPc, retired)
           N == NewFiles(pc, npc, ret, rem, nextPc, retired)
           moves == InRoiNow(pc) /\ Prog[pc].user
<1>1. UNCHANGED <<Interval, SimpointSize>>
  BY DEF Interval, SimpointSize
<1> SUFFICES ASSUME gen = 0, Interval > 0 PROVE IntervalInv'
  BY <1>1 DEF IntervalInv
<1>2. roi \in Nat /\ executed \in Nat /\ region.start \in Int /\ region.start < executed
  BY DEF IntervalInv
<1>3. Interval \in Nat \ {0} /\ SimpointSize \in Nat \ {0}
  BY IntervalSizes DEF IntervalInv
<1>4. \A f \in IntervalFiles : f.num \in Nat /\ f.num < executed
  BY DEF IntervalInv
<1>5. /\ new.type = "interval" /\ new.num = executed /\ new.roi = RoiNow(pc)
      /\ new.interval = RoiNow(pc) \div SimpointSize
  BY DEF File
<1>6. insn.type = "insn"
  BY DEF File
<1>7. Counted(new) <=> moves
  BY Zenon DEF File, Counted
<1>8. IntervalFiles' = IntervalFiles \cup (IF IntervalHit(pc) THEN {new} ELSE {})
  <2>1. \A f \in N : f = insn \/ (IntervalHit(pc) /\ f = new)
    BY Zenon DEF NewFiles
  <2>2. IntervalHit(pc) => new \in N
    BY Zenon DEF NewFiles
  <2>3. files' = files \cup N
    BY DEF maybe_checkpoint_interval
  <2> HIDE DEF new, N, insn
  <2>4. IntervalFiles' = {f \in files \cup N : f.type = "interval"}
    BY <2>3 DEF IntervalFiles
  <2> QED BY <1>5, <1>6, <2>1, <2>2, <2>4 DEF IntervalFiles
<1>9. /\ executed' = executed + 1
      /\ moves => roi' = RoiNow(pc) + 1
      /\ ~moves => roi' = RoiNow(pc) + 0
      /\ region' = IF Kind(pc) = "roi" THEN [start |-> executed, trapped |-> {}] ELSE region
  BY Zenon DEF incr_executed_instructions
<1> HIDE DEF new, insn, N, moves
<1>10. CASE Kind(pc) = "roi"
  <2>1. RoiNow(pc) = 0 /\ ~IntervalHit(pc)
    BY <1>10 DEF RoiNow, IntervalHit
  <2>2. IntervalFiles' = IntervalFiles
    BY <1>8, <2>1
  <2>3. region' = [start |-> executed, trapped |-> {}]
    BY <1>9, <1>10
  <2>4. roi' \in {0, 1} /\ executed' = executed + 1
    BY <1>9, <2>1
  <2>5. RegionFiles' = {}
    BY <1>2, <1>4, <2>2, <2>3 DEF RegionFiles
  <2>6. CountedFiles' = {}
    BY <2>5 DEF CountedFiles
  <2>7. FilesOf(Interval, SimpointSize, {}, {}, {}, roi', executed')
    BY <2>4 DEF FilesOf
  <2>8. region'.start = executed /\ region'.trapped = {}
    BY <2>3
  <2>9. \A f \in IntervalFiles' : f.num \in Nat /\ f.num < executed'
    BY <1>2, <1>4, <2>2, <2>4
  <2> QED BY <1>1, <1>2, <2>3, <2>4, <2>5, <2>6, <2>7, <2>8, <2>9 DEF IntervalInv
<1>11. CASE Kind(pc) # "roi"
  <2>1. RoiNow(pc) = roi /\ region' = region
    BY <1>9, <1>11 DEF RoiNow
  <2>2. FilesOf(Interval, SimpointSize, RegionFiles, CountedFiles, region.trapped, roi, executed)
    BY DEF IntervalInv
  <2>3. executed' = executed + 1 /\ (moves => roi' = roi + 1) /\ (~moves => roi' = roi)
    BY <1>2, <1>9, <2>1
  <2>4. \A f : (f \in RegionFiles' <=> f \in IntervalFiles' /\ f.num > region.start)
             /\ (f \in CountedFiles' <=> f \in RegionFiles' /\ Counted(f))
    BY <2>1, Zenon DEF RegionFiles, CountedFiles, Counted
  <2>5. \A f : (f \in RegionFiles <=> f \in IntervalFiles /\ f.num > region.start)
             /\ (f \in CountedFiles <=> f \in RegionFiles /\ Counted(f))
    BY Zenon DEF RegionFiles, CountedFiles
  <2>6. FilesOf(Interval, SimpointSize, RegionFiles', CountedFiles', region.trapped,
                roi', executed')
    <3>1. CASE ~IntervalHit(pc)
      <4>1. IntervalFiles' = IntervalFiles
        BY <1>8, <3>1
      <4>2. RegionFiles' = RegionFiles
        BY <2>4, <2>5, <4>1
      <4>3. CountedFiles' = CountedFiles
        BY <2>4, <2>5, <4>2
      <4>4. roi = 0 \/ roi % Interval # 0
        BY <1>2, <1>3, <2>1, <3>1 DEF IntervalHit
      <4>5. roi' = roi \/ roi' = roi + 1
        BY <2>3
      <4> QED BY <1>2, <1>3, <2>2, <2>3, <4>2, <4>3, <4>4, <4>5, FilesStay
    <3>2. CASE IntervalHit(pc)
      <4>1. roi \in Nat \ {0} /\ roi % Interval = 0
        BY <1>2, <2>1, <3>2 DEF IntervalHit
      <4>2. AtBoundary(new, Interval, SimpointSize) /\ new.roi = roi /\ new.num = executed
        BY <1>2, <1>5, <2>1, <4>1 DEF AtBoundary
      <4>3. RegionFiles' = RegionFiles \cup {new}
        BY <1>2, <1>8, <2>4, <2>5, <3>2, <4>2
      <4>4. CASE moves
        <5>1. CountedFiles' = CountedFiles \cup {new}
          BY <1>7, <2>4, <2>5, <4>3, <4>4
        <5> QED BY <1>2, <1>3, <2>2, <2>3, <4>1, <4>2, <4>3, <4>4, <5>1, FilesPass
      <4>5. CASE ~moves
        <5>1. CountedFiles' = CountedFiles
          BY <1>7, <2>4, <2>5, <4>3, <4>5
        <5> QED BY <1>2, <1>3, <2>2, <2>3, <4>1, <4>2, <4>3, <4>5, <5>1, FilesRepeat
      <4> QED BY <4>4, <4>5
    <3> QED BY <3>1, <3>2
  <2>7. \A f \in IntervalFiles' : f.num \in Nat /\ f.num < executed'
    BY <1>2, <1>4, <1>5, <1>8, <2>3
  <2>8. roi' \in Nat /\ executed' \in Nat /\ region.start < executed'
    BY <1>2, <2>3
  <2> QED BY <1>1, <1>2, <2>1, <2>6, <2>7, <2>8 DEF IntervalInv
<1> QED BY <1>10, <1>11

\* Every step keeps the invariant.
LEMMA IntervalStep == IntervalInv /\ [Next]_vars => IntervalInv'
<1> SUFFICES ASSUME IntervalInv, [Next]_vars PROVE IntervalInv'
  OBVIOUS
<1>1. CASE UNCHANGED vars
  BY <1>1, IntervalKept DEF vars, counters, cpVars
<1>2. ASSUME UNCHANGED opt,
             \/ idle \/ sim_step \/ sim_step_return \/ round_start \/ take_interrupt
             \/ serialize_before \/ still_waiting \/ request_async_checkpoint
             \/ exit \/ Exited
      PROVE  IntervalInv'
  <2>1. UNCHANGED <<executed, roi, region, files, gen>>
    BY <1>2 DEF idle, sim_step, sim_step_return, round_start, take_interrupt,
                serialize_before, still_waiting, request_async_checkpoint, exit, Exited,
                vars, counters, cpVars
  <2> QED BY <1>2, <2>1, IntervalKept
<1>3. ASSUME UNCHANGED opt, trap PROVE IntervalInv'
  BY <1>3, IntervalTrapped DEF trap, cpVars
<1>4. ASSUME UNCHANGED opt, serialize_after \/ execute \/ wait_for_interrupt
      PROVE  IntervalInv'
  <2>1. UNCHANGED gen /\ incr_executed_instructions(pc)
    BY <1>4 DEF serialize_after, execute, wait_for_interrupt
  <2>2. \E npc, ret, rem, nextPc, retired :
            maybe_checkpoint_interval(pc, npc, ret, rem, nextPc, retired)
    BY <1>4 DEF serialize_after, execute, wait_for_interrupt
  <2> QED BY <1>4, <2>1, <2>2, IntervalExecuted
<1>5. ASSUME UNCHANGED opt, NEW f \in files, checkpoint_restore(f)
      PROVE  IntervalInv'
  <2>1. gen' \in Nat \ {0}
    BY <1>5 DEF checkpoint_restore, IntervalInv
  <2> QED BY <1>5, <2>1 DEF IntervalInv
<1> QED BY <1>1, <1>2, <1>3, <1>4, <1>5 DEF Next

\* In every region, for every interval and SimPoint size, any program, in the
\* slow and in the fast loop: an instruction that retires and takes the counter
\* past a boundary writes the file of the interval, the only one it writes, and
\* the latest of that interval (maybe_checkpoint_interval, riscv/execute.cc).
THEOREM StepLoopIntervalsSaved == Spec => []IntervalsSavedOnce
<1>1. Init => IntervalInv
  BY IntervalInit
<1>2. IntervalInv /\ [Next]_vars => IntervalInv'
  BY IntervalStep
<1>3. IntervalInv => IntervalsSavedOnce
  BY IntervalsEnough
<1> QED BY <1>1, <1>2, <1>3, PTL DEF Spec

-----------------------------------------------------------------------------
(* The PLIC, whose mip bits the loop tests before an instruction, for any  *)
(* number of sources, contexts and priorities and any word width.          *)

\* The inductive invariant.  LevelTriggeredUnshared needs to know that two
\* contexts never enable an unshared source, which is what `shared' records.
SharedRecorded ==
    \A c, d \in Ctxs, i \in BitIds :
        c # d /\ i \in ctx[c].enable /\ i \in ctx[d].enable => i \in shared

ControllerInv ==
    /\ TypeOK
    /\ LatchesNested
    /\ MipMirrorsPending
    /\ SharedRecorded
    /\ LevelTriggeredUnshared

-----------------------------------------------------------------------------
(* The scan                                                                *)

\* A context with a candidate has a winner: order the candidates by
\* (MaxPrio - priority, id) and take the least.
LEMMA WinnerExists ==
    ASSUME NEW k \in Context, Candidates(k) # {}
    PROVE  Winners(k) # {}
<1> DEFINE gaps == {MaxPrio - k.prio[i] : i \in Candidates(k)}
<1>0. /\ Candidates(k) \subseteq Ids
      /\ \A i \in Ids : k.prio[i] \in Prios
  BY DEF Context, Candidates
<1>1. gaps \in SUBSET Nat /\ gaps # {}
  BY <1>0, PlicAssumption DEF Prios
<1>2. PICK p \in gaps : \A q \in gaps : p <= q
  BY <1>1, LeastNat
<1> DEFINE T == {i \in Candidates(k) : MaxPrio - k.prio[i] = p}
<1>3. T \in SUBSET Nat /\ T # {}
  BY <1>0, <1>2, PlicAssumption DEF Ids
<1>4. PICK i \in T : \A j \in T : i <= j
  BY <1>3, LeastNat
<1>5. ASSUME NEW j \in Candidates(k)
      PROVE  Beats(k, i, j)
  <2>1. MaxPrio - k.prio[i] = p /\ p <= MaxPrio - k.prio[j]
    BY <1>2, <1>4
  <2>2. k.prio[i] \in Int /\ k.prio[j] \in Int /\ MaxPrio \in Int
    BY <1>0, <1>4, PlicAssumption DEF Prios
  <2>3. CASE k.prio[j] < k.prio[i]
    BY <2>3 DEF Beats
  <2>4. CASE k.prio[j] = k.prio[i]
    BY <1>4, <2>1, <2>4 DEF Beats
  <2> QED BY <2>1, <2>2, <2>3, <2>4
<1> QED BY <1>4, <1>5 DEF Winners

\* What context_best_pending returns: a candidate above the threshold if
\* there is one, and 0 otherwise.
LEMMA BestPending ==
    ASSUME NEW k \in Context
    PROVE  /\ context_best_pending(k) # 0 <=>
                  \E i \in Candidates(k) : k.prio[i] > k.threshold
           /\ context_best_pending(k) # 0 =>
                  context_best_pending(k) \in Candidates(k)
<1>0. /\ Candidates(k) \subseteq Ids /\ Winners(k) \subseteq Candidates(k)
      /\ \A i \in Ids : k.prio[i] \in Prios
      /\ k.threshold \in Prios /\ 0 \notin Ids
  BY PlicAssumption DEF Context, Candidates, Winners, Ids
<1>1. CASE \E i \in Winners(k) : k.prio[i] > k.threshold
  <2>1. context_best_pending(k) \in Winners(k)
    BY <1>1 DEF context_best_pending
  <2> QED BY <1>0, <1>1, <2>1
<1>2. CASE ~ \E i \in Winners(k) : k.prio[i] > k.threshold
  <2>1. context_best_pending(k) = 0
    BY <1>2 DEF context_best_pending
  <2>2. ASSUME NEW j \in Candidates(k), k.prio[j] > k.threshold
        PROVE  FALSE
    <3>1. PICK i \in Winners(k) : TRUE
      BY <2>2, WinnerExists
    <3>2. Beats(k, i, j) /\ ~ (k.prio[i] > k.threshold)
      BY <1>2, <2>2, <3>1 DEF Winners
    <3>3. k.prio[i] \in Int /\ k.prio[j] \in Int /\ k.threshold \in Int
      BY <1>0, <2>2, <3>1 DEF Prios
    <3> QED BY <2>2, <3>2, <3>3 DEF Beats
  <2> QED BY <2>1, <2>2
<1> QED BY <1>1, <1>2

-----------------------------------------------------------------------------
(* The scan as the loop it is (MCPlic)                                     *)

\* g holds the results of the first x iterations.
Iterates(g, k, x) ==
    g = [id \in 0 .. x |-> IF id = 0 THEN <<0, 0>> ELSE ScanStep(k, g[id - 1], id)]

\* The loop can be run for any number of iterations: if it could not, there
\* would be a least number for which it cannot.
LEMMA ScanRuns ==
    ASSUME NEW k, NEW m \in Nat
    PROVE  \E g : Iterates(g, k, m)
<1> DEFINE T == {x \in Nat : ~ \E g : Iterates(g, k, x)}
<1> SUFFICES ASSUME T # {} PROVE FALSE
  OBVIOUS
<1>1. PICK x \in T : \A y \in T : x <= y
  BY LeastNat
<1>2. Iterates([id \in 0 .. 0 |-> <<0, 0>>], k, 0)
  BY DEF Iterates
<1>3. x # 0
  BY <1>1, <1>2
<1>4. x - 1 \in Nat /\ x - 1 \notin T
  BY <1>1, <1>3
<1>5. PICK g : Iterates(g, k, x - 1)
  BY <1>4
<1> DEFINE h == [id \in 0 .. x |-> IF id = x THEN ScanStep(k, g[x - 1], x) ELSE g[id]]
<1>6. \A id \in 0 .. x - 1 : h[id] = g[id] /\ g[id] = IF id = 0 THEN <<0, 0>> ELSE ScanStep(k, g[id - 1], id)
  <2>1. \A id \in 0 .. x - 1 : id \in 0 .. x /\ id # x
    BY <1>4
  <2> QED BY <1>5, <2>1 DEF Iterates
<1>7. h[x] = ScanStep(k, h[x - 1], x)
  BY <1>4, <1>6
<1>8. \A id \in 0 .. x : h[id] = IF id = 0 THEN <<0, 0>> ELSE ScanStep(k, h[id - 1], id)
  <2> SUFFICES ASSUME NEW id \in 0 .. x PROVE h[id] = IF id = 0 THEN <<0, 0>> ELSE ScanStep(k, h[id - 1], id)
    OBVIOUS
  <2> HIDE DEF h
  <2>1. CASE id = x
    BY <2>1, <1>3, <1>7
  <2>2. CASE id # x
    <3>1. id \in 0 .. x - 1 /\ (id # 0 => id - 1 \in 0 .. x - 1)
      BY <2>2, <1>4
    <3> QED BY <3>1, <1>6
  <2> QED BY <2>1, <2>2
<1>9. Iterates(h, k, x)
  <2>1. h = [id \in 0 .. x |-> h[id]]
    OBVIOUS
  <2> HIDE DEF h
  <2> QED BY <2>1, <1>8 DEF Iterates
<1> QED BY <1>1, <1>9

LEMMA ScanIterates ==
    ASSUME NEW k
    PROVE  Iterates(Scan(k), k, NDev)
<1>1. \E g : Iterates(g, k, NDev)
  BY ScanRuns, PlicAssumption
<1> QED BY <1>1 DEF Scan, Iterates

\* What the loop has found among the ids up to x: nothing, if none of them is a
\* candidate, and otherwise the candidate that beats the others.
Found(k, b, x) ==
    \/ b = <<0, 0>> /\ \A i \in Candidates(k) : i > x
    \/ /\ b = <<b[1], k.prio[b[1]]>> /\ b[1] \in Candidates(k) /\ b[1] <= x
       /\ \A j \in Candidates(k) : j <= x => Beats(k, b[1], j)

\* One iteration looks at one more id.
LEMMA ScanOne ==
    ASSUME NEW k \in Context, NEW x \in Nat \ {0}, x \in Ids, NEW b, Found(k, b, x - 1)
    PROVE  Found(k, ScanStep(k, b, x), x)
<1>1. /\ Candidates(k) \subseteq Ids /\ \A i \in Ids : i \in Nat /\ i # 0 /\ k.prio[i] \in Nat
      /\ x \in Candidates(k) <=> x \in k.pending /\ x \notin k.claimed
  BY PlicAssumption DEF Context, Candidates, Ids, Prios
<1>2. ASSUME NEW j \in Candidates(k) PROVE j \in Nat /\ (j <= x <=> j <= x - 1 \/ j = x)
  <2>1. j \in Nat
    BY <1>1
  <2> QED BY <2>1
<1>3. CASE x \notin Candidates(k)
  <2>1. ScanStep(k, b, x) = b
    BY <1>1, <1>3 DEF ScanStep
  <2> QED BY <1>1, <1>2, <1>3, <2>1 DEF Found
<1>4. CASE x \in Candidates(k) /\ b = <<0, 0>> /\ \A i \in Candidates(k) : i > x - 1
  <2>1. ScanStep(k, b, x) = <<x, k.prio[x]>>
    BY <1>1, <1>4 DEF ScanStep
  <2>2. ASSUME NEW j \in Candidates(k), j <= x PROVE Beats(k, x, j)
    <3>1. j = x
      BY <1>2, <1>4, <2>2
    <3> QED BY <3>1 DEF Beats
  <2> QED BY <1>4, <2>1, <2>2 DEF Found
<1>5. CASE /\ x \in Candidates(k)
           /\ b = <<b[1], k.prio[b[1]]>> /\ b[1] \in Candidates(k) /\ b[1] <= x - 1
           /\ \A j \in Candidates(k) : j <= x - 1 => Beats(k, b[1], j)
  <2>1. b[1] \in Nat /\ b[1] # 0 /\ b[2] = k.prio[b[1]] /\ k.prio[b[1]] \in Nat /\ k.prio[x] \in Nat
    BY <1>1, <1>5
  <2>2. CASE b[2] < k.prio[x]
    <3>1. ScanStep(k, b, x) = <<x, k.prio[x]>>
      BY <1>1, <1>5, <2>2 DEF ScanStep
    <3>2. ASSUME NEW j \in Candidates(k), j <= x PROVE Beats(k, x, j)
      <4>1. k.prio[j] \in Nat /\ j \in Nat
        BY <1>1
      <4>2. CASE j = x
        BY <4>2 DEF Beats
      <4>3. CASE j <= x - 1
        <5>1. k.prio[j] <= k.prio[b[1]]
          BY <1>5, <2>1, <4>1, <4>3 DEF Beats
        <5> QED BY <2>1, <2>2, <4>1, <5>1 DEF Beats
      <4> QED BY <1>2, <3>2, <4>2, <4>3
    <3> QED BY <1>5, <3>1, <3>2 DEF Found
  <2>3. CASE ~ (b[2] < k.prio[x])
    <3>1. ScanStep(k, b, x) = b
      BY <2>1, <2>3 DEF ScanStep
    <3>2. Beats(k, b[1], x)
      BY <1>5, <2>1, <2>3 DEF Beats
    <3>3. b[1] <= x
      BY <1>5, <2>1
    <3> QED BY <1>2, <1>5, <3>1, <3>2, <3>3 DEF Found
  <2> QED BY <2>2, <2>3
<1> QED BY <1>3, <1>4, <1>5 DEF Found

\* So the loop finds what Found says, after every iteration.
LEMMA ScanFound ==
    ASSUME NEW k \in Context
    PROVE  Found(k, Scan(k)[NDev], NDev)
<1> DEFINE T == {x \in 0 .. NDev : ~ Found(k, Scan(k)[x], x)}
<1>0. NDev \in Nat /\ T \in SUBSET Nat
  BY PlicAssumption
<1> SUFFICES ASSUME T # {} PROVE FALSE
  BY <1>0
<1>1. PICK x \in T : \A y \in T : x <= y
  BY <1>0, LeastNat
<1>2. \A id \in 0 .. NDev : Scan(k)[id] = IF id = 0 THEN <<0, 0>> ELSE ScanStep(k, Scan(k)[id - 1], id)
  BY ScanIterates DEF Iterates
<1>3. CASE x = 0
  <2>1. Scan(k)[0] = <<0, 0>>
    BY <1>0, <1>2
  <2>2. \A i \in Candidates(k) : i > 0
    BY PlicAssumption DEF Context, Candidates, Ids
  <2>3. Found(k, Scan(k)[0], 0)
    BY <2>1, <2>2 DEF Found
  <2> QED BY <1>1, <1>3, <2>3
<1>4. CASE x # 0
  <2>1. x \in Nat \ {0} /\ x \in Ids /\ x - 1 \in 0 .. NDev /\ x - 1 \notin T
    BY <1>0, <1>1, <1>4 DEF Ids
  <2>2. Found(k, Scan(k)[x - 1], x - 1)
    BY <2>1
  <2>3. Scan(k)[x] = ScanStep(k, Scan(k)[x - 1], x)
    BY <1>1, <1>2, <1>4
  <2>4. Found(k, ScanStep(k, Scan(k)[x - 1], x), x)
    BY <2>1, <2>2, ScanOne
  <2> QED BY <1>1, <2>3, <2>4
<1> QED BY <1>3, <1>4

\* The loop of context_best_pending returns the best pending source of a
\* context.
LEMMA LoopFindsBest ==
    ASSUME NEW k \in Context
    PROVE  best_pending_loop(k) = context_best_pending(k)
<1> DEFINE b == Scan(k)[NDev]
<1>1. Found(k, b, NDev)
  BY ScanFound
<1> HIDE DEF b
<1>2. /\ Candidates(k) \subseteq Ids /\ Winners(k) \subseteq Candidates(k)
      /\ \A i \in Ids : i \in Nat /\ i # 0 /\ i <= NDev /\ k.prio[i] \in Nat
      /\ k.threshold \in Nat /\ NDev \in Nat
  BY PlicAssumption DEF Context, Candidates, Winners, Ids, Prios
<1>3. best_pending_loop(k) = IF b[2] <= k.threshold THEN 0 ELSE b[1]
  BY DEF best_pending_loop, b
<1>4. CASE b = <<0, 0>> /\ \A i \in Candidates(k) : i > NDev
  <2>1. Winners(k) = {}
    BY <1>2, <1>4
  <2>2. context_best_pending(k) = 0
    BY <2>1 DEF context_best_pending
  <2> QED BY <1>2, <1>3, <1>4, <2>2
<1>5. CASE /\ b = <<b[1], k.prio[b[1]]>> /\ b[1] \in Candidates(k) /\ b[1] <= NDev
           /\ \A j \in Candidates(k) : j <= NDev => Beats(k, b[1], j)
  <2>1. b[1] \in Winners(k) /\ b[2] = k.prio[b[1]]
    BY <1>2, <1>5 DEF Winners
  <2>2. ASSUME NEW w \in Winners(k) PROVE w = b[1]
    <3>1. Beats(k, w, b[1]) /\ Beats(k, b[1], w)
      BY <2>1 DEF Winners
    <3>2. w \in Nat /\ b[1] \in Nat /\ k.prio[w] \in Nat /\ k.prio[b[1]] \in Nat
      BY <1>2, <2>1
    <3> QED BY <3>1, <3>2 DEF Beats
  <2>3. Winners(k) = {b[1]}
    BY <2>1, <2>2
  <2>4. context_best_pending(k) = IF k.prio[b[1]] > k.threshold THEN b[1] ELSE 0
    BY <2>3 DEF context_best_pending
  <2>5. k.prio[b[1]] \in Nat
    BY <1>2, <2>1
  <2> QED BY <1>2, <1>3, <2>1, <2>4, <2>5
<1> QED BY <1>1, <1>4, <1>5 DEF Found

\* ScanFindsBest follows from the types of the contexts.
LEMMA ScanBest == TypeOK => ScanFindsBest
  BY LoopFindsBest DEF TypeOK, ScanFindsBest

-----------------------------------------------------------------------------
(* The inductive step                                                      *)

\* A context whose latches are ordered (LatchesNested, for one context).
Nested(k) ==
    /\ k.claimed \subseteq k.pending
    /\ k.pending \subseteq k.enable
    /\ \A i \in Ids \ k.pending : k.prio[i] = 0

\* Storing a well-formed context and updating its mip bit keeps the parts of
\* the invariant that speak about one context.
LEMMA StoreContextKeeps ==
    ASSUME TypeOK, LatchesNested, MipMirrorsPending,
           NEW c \in Ctxs, NEW k \in Context, Nested(k), StoreContext(c, k)
    PROVE  /\ ctx' \in [Ctxs -> Context] /\ mip' \in [Ctxs -> BOOLEAN]
           /\ ctx'[c] = k /\ \A d \in Ctxs \ {c} : ctx'[d] = ctx[d]
           /\ LatchesNested' /\ MipMirrorsPending'
<1>1. /\ ctx' \in [Ctxs -> Context]
      /\ ctx'[c] = k /\ \A d \in Ctxs \ {c} : ctx'[d] = ctx[d]
  BY DEF TypeOK, StoreContext
<1>2. /\ mip' \in [Ctxs -> BOOLEAN]
      /\ mip'[c] = (context_best_pending(k) # 0)
      /\ \A d \in Ctxs \ {c} : mip'[d] = mip[d]
  BY DEF TypeOK, StoreContext
<1>3. LatchesNested'
  BY <1>1 DEF LatchesNested, Nested
<1>4. MipMirrorsPending'
  <2> SUFFICES ASSUME NEW d \in Ctxs
               PROVE  mip'[d] <=> \E i \in Candidates(ctx'[d]) :
                                      ctx'[d].prio[i] > ctx'[d].threshold
    BY DEF MipMirrorsPending
  <2>1. CASE d = c
    BY <1>1, <1>2, <2>1, BestPending
  <2>2. CASE d # c
    BY <1>1, <1>2, <2>2 DEF MipMirrorsPending
  <2> QED BY <2>1, <2>2
<1> QED BY <1>1, <1>2, <1>3, <1>4

\* The controller starts with nothing enabled, pending or claimed.
LEMMA PlicInitial == PlicInit => ControllerInv
<1> SUFFICES ASSUME PlicInit PROVE ControllerInv
  OBVIOUS
<1>1. TypeOK
  BY PlicAssumption DEF PlicInit, TypeOK, Context, Prios
<1>2. \A c \in Ctxs : /\ ctx[c].claimed = {} /\ ctx[c].pending = {}
                       /\ ctx[c].enable = {} /\ mip[c] = FALSE
                       /\ \A i \in Ids : ctx[c].prio[i] = 0
  BY DEF PlicInit
<1>3. LatchesNested /\ MipMirrorsPending
  BY <1>2 DEF LatchesNested, MipMirrorsPending, Candidates
<1>4. SharedRecorded /\ LevelTriggeredUnshared
  BY <1>2 DEF SharedRecorded, LevelTriggeredUnshared
<1> QED BY <1>1, <1>3, <1>4 DEF ControllerInv

\* A register value cut to the field width is a priority.
LEMMA FieldWidth == \A val \in Nat : val % (MaxPrio + 1) \in Prios
BY PlicAssumption DEF Prios

\* Latching enabled sources keeps a context well formed.
LEMMA LatchKeeps ==
    ASSUME TypeOK, NEW k \in Context, Nested(k),
           NEW on \in SUBSET Ids, on \subseteq k.enable
    PROVE  Latch(k, on) \in Context /\ Nested(Latch(k, on))
<1>1. Latch(k, on) \in Context
  BY DEF TypeOK, Context, Latch
<1>2. Nested(Latch(k, on))
  BY DEF Nested, Latch
<1> QED BY <1>1, <1>2

\* So does forgetting sources, and the enable bits may lose them as well.
LEMMA ForgetKeeps ==
    ASSUME NEW k \in Context, NEW off,
           k.claimed \subseteq k.pending, k.pending \ off \subseteq k.enable,
           \A i \in Ids \ k.pending : k.prio[i] = 0
    PROVE  Forget(k, off) \in Context /\ Nested(Forget(k, off))
<1>1. Forget(k, off) \in Context
  BY PlicAssumption DEF Context, Forget, Prios
<1>2. Nested(Forget(k, off))
  BY DEF Nested, Forget
<1> QED BY <1>1, <1>2

\* context_enable_write: newly enabled sources are latched from the lines, and
\* disabled ones forgotten, so pending and enable bits still agree.
LEMMA EnableWriteKeeps ==
    ASSUME ControllerInv, NEW c \in Ctxs, NEW w \in Words, NEW val \in SUBSET WordIds(w),
           context_enable_write(c, w, val)
    PROVE  ControllerInv'
<1> DEFINE k    == ctx[c]
           new  == IF w = 0 THEN val \ {0} ELSE val
           on   == (new \ k.enable) \cap level
           off  == (k.enable \cap WordIds(w)) \ new
           e    == (k.enable \ WordIds(w)) \cup new
           kEn  == [k EXCEPT !.enable = (k.enable \ WordIds(w)) \cup new]
           kNew == Forget(Latch(kEn, on), off)
<1>0. /\ StoreContext(c, kNew) /\ shared' = shared \cup SharedNext
      /\ priority' = priority /\ level' = level
  BY DEF context_enable_write
<1>1. /\ k \in Context /\ Nested(k) /\ TypeOK
  BY DEF ControllerInv, TypeOK, LatchesNested, Nested
<1>2. /\ new \subseteq BitIds /\ on \subseteq Ids /\ new \subseteq WordIds(w)
  <2>1. WordIds(w) \subseteq BitIds
    BY PlicAssumption DEF WordIds, BitIds, Words
  <2> QED BY <2>1, <1>1 DEF TypeOK
<1> HIDE DEF new
<1>3. /\ kEn \in Context /\ kEn.enable = e /\ kEn.pending = k.pending
      /\ kEn.claimed = k.claimed /\ kEn.prio = k.prio
  BY <1>1, <1>2 DEF Context
<1> HIDE DEF kEn
<1>4. /\ Latch(kEn, on) \in Context
      /\ Latch(kEn, on).enable = e /\ Latch(kEn, on).pending = k.pending \cup on
      /\ Latch(kEn, on).claimed = k.claimed
      /\ \A i \in Ids \ (k.pending \cup on) : Latch(kEn, on).prio[i] = 0
  <2>1. Latch(kEn, on) \in Context
    BY <1>1, <1>2, <1>3 DEF Latch, Context, TypeOK
  <2>2. \A i \in Ids \ (k.pending \cup on) : Latch(kEn, on).prio[i] = 0
    BY <1>1, <1>3 DEF Latch, Nested
  <2>3. /\ Latch(kEn, on).enable = e /\ Latch(kEn, on).pending = k.pending \cup on
        /\ Latch(kEn, on).claimed = k.claimed
    BY <1>3 DEF Latch
  <2> QED BY <2>1, <2>2, <2>3
<1>5. (k.pending \cup on) \ off \subseteq e
  BY <1>1 DEF Nested
<1>6. /\ kNew \in Context /\ Nested(kNew)
  <2>1. k.claimed \subseteq k.pending \cup on
    BY <1>1 DEF Nested
  <2> QED BY <1>4, <1>5, <2>1, ForgetKeeps
<1>7. kNew.pending = (k.pending \cup on) \ off /\ kNew.enable = e
  BY <1>4 DEF Forget
<1> HIDE DEF kNew
<1>8. /\ ctx' \in [Ctxs -> Context] /\ mip' \in [Ctxs -> BOOLEAN]
      /\ ctx'[c] = kNew /\ \A d \in Ctxs \ {c} : ctx'[d] = ctx[d]
      /\ LatchesNested' /\ MipMirrorsPending'
  BY <1>0, <1>6, StoreContextKeeps DEF ControllerInv
<1>9. TypeOK'
  <2>1. SharedNext \subseteq BitIds
    BY <1>8 DEF SharedNext, Context
  <2> QED BY <1>0, <1>1, <1>8, <2>1 DEF TypeOK
<1>10. SharedRecorded'
  BY <1>0 DEF SharedNext, SharedRecorded
<1>11. LevelTriggeredUnshared'
  <2> SUFFICES ASSUME NEW d \in Ctxs, NEW i \in Ids \ shared'
               PROVE  i \in ctx'[d].pending <=> i \in level /\ i \in ctx'[d].enable
    BY <1>0 DEF LevelTriggeredUnshared
  <2>0. i \notin shared /\ (i \in ctx[d].pending <=> i \in level /\ i \in ctx[d].enable)
    BY <1>0 DEF ControllerInv, LevelTriggeredUnshared
  <2>1. CASE d = c
    BY <1>2, <1>7, <1>8, <2>0, <2>1
  <2>2. CASE d # c
    BY <1>8, <2>0, <2>2
  <2> QED BY <2>1, <2>2
<1> QED BY <1>8, <1>9, <1>10, <1>11 DEF ControllerInv

\* A store that changes neither the enable nor the pending bits of a context.
LEMMA SamePendingKeeps ==
    ASSUME ControllerInv, NEW c \in Ctxs, NEW k \in Context, Nested(k),
           k.enable = ctx[c].enable, k.pending = ctx[c].pending,
           StoreContext(c, k), UNCHANGED <<priority, level, shared>>
    PROVE  ControllerInv'
<1>1. /\ ctx' \in [Ctxs -> Context] /\ mip' \in [Ctxs -> BOOLEAN]
      /\ ctx'[c] = k /\ \A d \in Ctxs \ {c} : ctx'[d] = ctx[d]
      /\ LatchesNested' /\ MipMirrorsPending'
  BY StoreContextKeeps DEF ControllerInv
<1>2. \A d \in Ctxs : ctx'[d].enable = ctx[d].enable /\ ctx'[d].pending = ctx[d].pending
  BY <1>1
<1>3. TypeOK'
  BY <1>1 DEF ControllerInv, TypeOK
<1>4. SharedRecorded' /\ LevelTriggeredUnshared'
  BY <1>2 DEF ControllerInv, SharedRecorded, LevelTriggeredUnshared
<1> QED BY <1>1, <1>3, <1>4 DEF ControllerInv

\* context_write of the threshold changes neither pending nor enable bits.
LEMMA ThresholdWriteKeeps ==
    ASSUME ControllerInv, NEW c \in Ctxs, NEW val \in 0 .. (MaxPrio + 1),
           context_threshold_write(c, val)
    PROVE  ControllerInv'
<1> DEFINE t == val % (MaxPrio + 1)
           k == [ctx[c] EXCEPT !.threshold = val % (MaxPrio + 1)]
<1>1. ctx[c] \in Context /\ Nested(ctx[c])
  BY DEF ControllerInv, TypeOK, LatchesNested, Nested
<1>2. t \in Prios
  BY FieldWidth, PlicAssumption
<1>3. StoreContext(c, k) /\ UNCHANGED <<priority, level, shared>>
  BY DEF context_threshold_write
<1> HIDE DEF t
<1>4. /\ k \in Context /\ k.enable = ctx[c].enable /\ k.pending = ctx[c].pending
      /\ k.claimed = ctx[c].claimed /\ k.prio = ctx[c].prio
  BY <1>1, <1>2 DEF Context, t
<1> HIDE DEF k
<1>5. Nested(k)
  BY <1>1, <1>4 DEF Nested
<1> QED BY <1>3, <1>4, <1>5, SamePendingKeeps

\* Adding or removing claims within the pending sources.
LEMMA ClaimedStoreKeeps ==
    ASSUME ControllerInv, NEW c \in Ctxs, NEW m, m \subseteq ctx[c].pending,
           StoreContext(c, [ctx[c] EXCEPT !.claimed = m]),
           UNCHANGED <<priority, level, shared>>
    PROVE  ControllerInv'
<1> DEFINE k == [ctx[c] EXCEPT !.claimed = m]
<1>1. ctx[c] \in Context /\ Nested(ctx[c])
  BY DEF ControllerInv, TypeOK, LatchesNested, Nested
<1>2. m \in SUBSET Ids
  BY <1>1 DEF Context
<1>3. /\ k \in Context /\ k.enable = ctx[c].enable /\ k.pending = ctx[c].pending
      /\ k.claimed = m /\ k.prio = ctx[c].prio
  BY <1>1, <1>2 DEF Context
<1>4. StoreContext(c, k)
  OBVIOUS
<1> HIDE DEF k
<1>5. Nested(k)
  BY <1>1, <1>3 DEF Nested
<1> QED BY <1>3, <1>4, <1>5, SamePendingKeeps

\* context_claim marks the best pending source, which is one that is pending.
LEMMA ClaimKeeps ==
    ASSUME ControllerInv, NEW c \in Ctxs, context_claim(c)
    PROVE  ControllerInv'
<1> DEFINE best == context_best_pending(ctx[c])
<1>1. ctx[c] \in Context /\ Nested(ctx[c])
  BY DEF ControllerInv, TypeOK, LatchesNested, Nested
<1>2. UNCHANGED <<priority, level, shared>>
  BY DEF context_claim
<1>3. CASE best # 0
  <2>1. best \in ctx[c].pending
    BY <1>1, <1>3, BestPending DEF Candidates
  <2>2. ctx[c].claimed \cup {best} \subseteq ctx[c].pending
    BY <1>1, <2>1 DEF Nested
  <2>3. StoreContext(c, [ctx[c] EXCEPT !.claimed = ctx[c].claimed \cup {best}])
    BY <1>3 DEF context_claim
  <2> HIDE DEF best
  <2> QED BY <1>2, <2>2, <2>3, ClaimedStoreKeeps
<1>4. CASE best = 0
  <2>1. StoreContext(c, ctx[c])
    BY <1>4 DEF context_claim
  <2> QED BY <1>1, <1>2, <2>1, SamePendingKeeps
<1> QED BY <1>3, <1>4

\* The completion of a claim only removes a mark.
LEMMA CompleteKeeps ==
    ASSUME ControllerInv, NEW c \in Ctxs, NEW id, context_complete(c, id)
    PROVE  ControllerInv'
<1>1. Nested(ctx[c])
  BY DEF ControllerInv, LatchesNested, Nested
<1>2. /\ StoreContext(c, [ctx[c] EXCEPT !.claimed = ctx[c].claimed \ {id}])
      /\ UNCHANGED <<priority, level, shared>>
  BY DEF context_complete
<1>3. ctx[c].claimed \ {id} \subseteq ctx[c].pending
  BY <1>1 DEF Nested
<1> QED BY <1>2, <1>3, ClaimedStoreKeeps

\* set_interrupt_level latches or forgets the source in the first context that
\* enables it, which for an unshared source is the only one.
LEMMA SetLevelKeeps ==
    ASSUME ControllerInv, NEW id \in Ids, NEW lvl \in BOOLEAN, set_interrupt_level(id, lvl)
    PROVE  ControllerInv'
<1> DEFINE takers == {c \in Ctxs : id \in ctx[c].enable}
           first  == CHOOSE c \in takers : \A d \in takers : c <= d
           kNew   == IF lvl THEN Latch(ctx[first], {id}) ELSE Forget(ctx[first], {id})
<1>0. /\ level' = IF lvl THEN level \cup {id} ELSE level \ {id}
      /\ priority' = priority /\ shared' = shared /\ TypeOK /\ level' \subseteq Ids
  BY DEF set_interrupt_level, ControllerInv, TypeOK
<1>1. CASE takers = {}
  <2>1. UNCHANGED <<ctx, mip>>
    BY <1>1 DEF set_interrupt_level
  <2>2. TypeOK' /\ SharedRecorded' /\ LatchesNested' /\ MipMirrorsPending'
    BY <1>0, <2>1 DEF ControllerInv, TypeOK, SharedRecorded, LatchesNested, MipMirrorsPending
  <2>3. LevelTriggeredUnshared'
    <3> SUFFICES ASSUME NEW d \in Ctxs, NEW i \in Ids \ shared
                 PROVE  i \in ctx[d].pending <=> i \in level' /\ i \in ctx[d].enable
      BY <1>0, <2>1 DEF LevelTriggeredUnshared
    <3>1. i \in ctx[d].pending <=> i \in level /\ i \in ctx[d].enable
      BY DEF ControllerInv, LevelTriggeredUnshared
    <3>2. i = id => i \notin ctx[d].enable
      BY <1>1
    <3> QED BY <1>0, <3>1, <3>2
  <2> QED BY <2>2, <2>3 DEF ControllerInv
<1>2. CASE takers # {}
  <2>1. first \in takers
    <3>1. takers \in SUBSET Nat
      BY PlicAssumption DEF Ctxs
    <3>2. \E c \in takers : \A d \in takers : c <= d
      BY <1>2, <3>1, LeastNat
    <3> QED BY <3>2
  <2>2. StoreContext(first, kNew)
    BY <1>2 DEF set_interrupt_level
  <2> HIDE DEF first
  <2>3. first \in Ctxs /\ id \in ctx[first].enable
    BY <2>1
  <2>4. ctx[first] \in Context /\ Nested(ctx[first])
    BY <2>3 DEF ControllerInv, TypeOK, LatchesNested, Nested
  <2>5. kNew \in Context /\ Nested(kNew)
    <3>1. CASE lvl
      BY <1>0, <2>3, <2>4, <3>1, LatchKeeps
    <3>2. CASE ~lvl
      <4>1. Forget(ctx[first], {id}) \in Context /\ Nested(Forget(ctx[first], {id}))
        BY <2>4, ForgetKeeps DEF Nested
      <4> QED BY <3>2, <4>1
    <3> QED BY <3>1, <3>2
  <2>6. /\ kNew.enable = ctx[first].enable
        /\ kNew.pending = IF lvl THEN ctx[first].pending \cup {id}
                                 ELSE ctx[first].pending \ {id}
    BY DEF Latch, Forget
  <2> HIDE DEF kNew
  <2>7. /\ ctx' \in [Ctxs -> Context] /\ mip' \in [Ctxs -> BOOLEAN]
        /\ ctx'[first] = kNew /\ \A d \in Ctxs \ {first} : ctx'[d] = ctx[d]
        /\ LatchesNested' /\ MipMirrorsPending'
    BY <2>2, <2>3, <2>5, StoreContextKeeps DEF ControllerInv
  <2>8. TypeOK'
    BY <1>0, <2>7 DEF TypeOK
  <2>9. \A d \in Ctxs : ctx'[d].enable = ctx[d].enable
    BY <2>6, <2>7
  <2>10. SharedRecorded'
    BY <1>0, <2>9 DEF ControllerInv, SharedRecorded
  <2>11. LevelTriggeredUnshared'
    <3> SUFFICES ASSUME NEW d \in Ctxs, NEW i \in Ids \ shared
                 PROVE  i \in ctx'[d].pending <=> i \in level' /\ i \in ctx[d].enable
      BY <1>0, <2>9 DEF LevelTriggeredUnshared
    <3>1. i \in ctx[d].pending <=> i \in level /\ i \in ctx[d].enable
      BY DEF ControllerInv, LevelTriggeredUnshared
    <3>2. CASE d = first
      BY <1>0, <2>3, <2>6, <2>7, <3>1, <3>2
    <3>3. CASE d # first
      <4>1. i = id => i \notin ctx[d].enable
        BY <2>3, <3>3 DEF ControllerInv, SharedRecorded, BitIds, Ids
      <4> QED BY <1>0, <2>7, <3>1, <3>3, <4>1
    <3> QED BY <3>2, <3>3
  <2> QED BY <2>7, <2>8, <2>10, <2>11 DEF ControllerInv
<1> QED BY <1>1, <1>2

\* Every access and every change of a line keeps the invariant.
LEMMA PlicStep == ControllerInv /\ [PlicNext]_plicVars => ControllerInv'
<1> SUFFICES ASSUME ControllerInv, [PlicNext]_plicVars PROVE ControllerInv'
  OBVIOUS
<1>1. ASSUME NEW id \in Ids, NEW val \in 0 .. (MaxPrio + 1), priority_write(id, val)
      PROVE  ControllerInv'
  <2>1. val % (MaxPrio + 1) \in Prios
    BY FieldWidth, PlicAssumption
  <2>2. TypeOK'
    BY <1>1, <2>1 DEF priority_write, ControllerInv, TypeOK
  <2> QED BY <1>1, <2>2 DEF priority_write, ControllerInv, LatchesNested, MipMirrorsPending,
                            SharedRecorded, LevelTriggeredUnshared
<1>2. CASE UNCHANGED plicVars
  BY <1>2 DEF plicVars, ControllerInv, TypeOK, LatchesNested, MipMirrorsPending,
              SharedRecorded, LevelTriggeredUnshared
<1> QED BY <1>1, <1>2, EnableWriteKeeps, ThresholdWriteKeeps, ClaimKeeps,
           CompleteKeeps, SetLevelKeeps DEF PlicNext, Access

\* The invariant of the controller holds in every reachable state, whatever
\* the number of sources, contexts and priority levels.
THEOREM PlicInvariant == PlicSpec => []ControllerInv
BY PlicInitial, PlicStep, PTL DEF PlicSpec

\* Type correctness of every register and latch (plic_t, plic_context_t).
THEOREM PlicTypeOK == PlicSpec => []TypeOK
<1>1. ControllerInv => TypeOK
  BY DEF ControllerInv
<1> QED BY <1>1, PlicInvariant, PTL

\* The mip bit of a context is never stale: it is set exactly when a pending,
\* unclaimed source lies above the threshold (context_update is never missed).
THEOREM PlicMip == PlicSpec => []MipMirrorsPending
<1>1. ControllerInv => MipMirrorsPending
  BY DEF ControllerInv
<1> QED BY <1>1, PlicInvariant, PTL

\* claimed, pending and enable bits are nested in every context.
THEOREM PlicLatches == PlicSpec => []LatchesNested
<1>1. ControllerInv => LatchesNested
  BY DEF ControllerInv
<1> QED BY <1>1, PlicInvariant, PTL

\* A source that was never shared between contexts is level-triggered.
THEOREM PlicLevelTriggered == PlicSpec => []LevelTriggeredUnshared
<1>1. ControllerInv => LevelTriggeredUnshared
  BY DEF ControllerInv
<1> QED BY <1>1, PlicInvariant, PTL

\* A source that was never shared is in service in at most one context.
THEOREM PlicExclusiveClaim == PlicSpec => []ExclusiveClaim
<1>1. ControllerInv => ExclusiveClaim
  BY DEF ControllerInv, ExclusiveClaim, LatchesNested, SharedRecorded, BitIds, Ids
<1> QED BY <1>1, PlicInvariant, PTL

\* The loop of context_best_pending, with its running maximum, finds the best
\* pending source of every context, for any number of sources.
THEOREM PlicScan == PlicSpec => []ScanFindsBest
  BY ScanBest, PlicTypeOK, PTL
=============================================================================
