--------------------------- MODULE StfTracerProofs --------------------------
(***************************************************************************)
(* Proofs about the STF tracers, for every program, every set of command   *)
(* lines and any number of tracers: what a trace holds, and that its       *)
(* reader can follow it.                                                   *)
(*                                                                         *)
(* The invariant says what the region flag of each tracer stands for, that *)
(* no tracer in its region is ever in the fast loop, and that a reader     *)
(* that was not told it lost track is at the next instruction.             *)
(*                                                                         *)
(* The last part is about the basic block vector tracer, whose track lines *)
(* tell the STF tracers which instructions to trace: that these lines are  *)
(* exact, and that its vectors count every instruction once.               *)
(***************************************************************************)
EXTENDS StfTracer, BbTracer, FiniteSetTheorems, TLAPS

-----------------------------------------------------------------------------
(* The inductive invariant                                                 *)

Fast == {"fast", "chain"}

TracerType ==
    [pending : BOOLEAN, inreg : BOOLEAN, writer : BOOLEAN, stale : BOOLEAN,
     complete : BOOLEAN, ppn : Procs \cup {None}, reader : Nat, read : Nat, wrote : Nat]

StfType ==
    /\ conf \in Configs /\ tracers \in [T -> TracerType]
    /\ executed \in Nat /\ retired \in Nat
    /\ loop \in Fast \cup {"top", "slow", "over"}
    /\ pc \in Nat \ {0} /\ epc \in Nat \ {0} /\ satp \in Procs
    /\ last_inst_priv \in {"U", "S"} /\ open \in BOOLEAN

\* The region flag of a tracer: between the macros, or from insn_start on
\* until the instruction after the last one. A trap before the first
\* instruction of a counted region may have set it already.
InRegion(c, x) ==
    /\ x.inreg => x.writer /\ loop \notin Fast
    /\ c.macro => (x.inreg <=> open)
    /\ ~c.macro => /\ x.inreg => executed \in c.start .. c.start + c.count
                   /\ executed \in c.start + 1 .. c.start + c.count => x.inreg
    /\ x.complete => ~c.macro /\ executed > c.start + c.count

\* A reader that did not lose track is at the next instruction, unless that
\* is the first one of a handler that is not traced, or the first one of the
\* region, which forces a pc in any case.
Follows(c, x) ==
    /\ x.inreg /\ ~x.stale /\ (PrivOf(pc) = "U" \/ "S" \in c.modes)
    /\ c.macro \/ executed # c.start
    => x.reader = pc

TracerOk(c, x) == InRegion(c, x) /\ Follows(c, x)
TracersOk == executed = retired /\ \A t \in T : TracerOk(conf[t], tracers[t])

\* A command line on which a tracer that exits at a STOP is the only one.
ExitAlone == \A t \in T : conf[t].exit => \A u \in T : u = t

Inv == /\ StfType /\ ExitAlone /\ PcReconstructed /\ TraceExact
       /\ loop # "over" => TracersOk

-----------------------------------------------------------------------------
(* What one tracer does with one instruction                               *)

ConfType(c) ==
    /\ c.start \in Nat /\ c.count \in Nat
    /\ c.macro \in BOOLEAN /\ c.exit \in BOOLEAN /\ c.include \in BOOLEAN /\ c.mem \in BOOLEAN
GivenType(i) == i.pc \in Nat \ {0} /\ i.npc \in Nat \ {0} /\ i.taken \in BOOLEAN /\ i.ppn \in Procs

Goes(i) == IF i.taken THEN i.npc ELSE i.pc + 1

\* y is x after a record of i, or after i was found not to be traced.
ElementDone(c, x, i, y) ==
    /\ y \in TracerType /\ y.writer
    /\ y.pending = x.pending /\ y.inreg = x.inreg /\ y.complete = x.complete /\ y.ppn = x.ppn
    /\ IF Traceable(c, y, i.priv, i.ppn)
       THEN /\ ~y.stale /\ y.wrote = i.pc /\ y.reader = Goes(i)
            /\ x.stale \/ ~x.writer \/ x.reader = i.pc => y.read = i.pc
       ELSE y.stale /\ y.wrote = x.wrote /\ y.read = x.read

\* y is x at the start of its region.
StartDone(x, y) ==
    /\ y \in TracerType /\ y.writer /\ y.inreg /\ y.stale
    /\ y.pending = x.pending /\ y.complete = x.complete
    /\ y.wrote = x.wrote /\ y.read = x.read

\* trace_element makes a record with the true pc of the reader, or tells
\* that the reader has lost track.
LEMMA ElementOk ==
    ASSUME NEW c, NEW x \in TracerType, NEW i, GivenType(i)
    PROVE  ElementDone(c, x, i, trace_element(c, x, i))
<1> DEFINE w == open_trace(x, i)
           y == trace_element(c, x, i)
<1>1. /\ w \in TracerType /\ w.writer
      /\ w.pending = x.pending /\ w.inreg = x.inreg /\ w.complete = x.complete
      /\ w.ppn = x.ppn /\ w.stale = x.stale /\ w.wrote = x.wrote /\ w.read = x.read
      /\ w.reader = IF x.writer THEN x.reader ELSE i.pc
    BY DEF open_trace, TracerType, GivenType
<1> HIDE DEF w
<1>2. CASE Traceable(c, w, i.priv, i.ppn)
    <2> DEFINE g == Goes(i)
               r == IF w.stale THEN i.pc ELSE w.reader
    <2>1. y = [w EXCEPT !.stale = FALSE, !.wrote = i.pc, !.read = r, !.reader = g]
        BY <1>2 DEF trace_element, w, Goes
    <2>2. g \in Nat /\ r \in Nat /\ i.pc \in Nat
        BY <1>1 DEF Goes, GivenType, TracerType
    <2> HIDE DEF y, g, r
    <2>3. /\ y \in TracerType
          /\ y.writer = w.writer /\ y.pending = w.pending /\ y.inreg = w.inreg
          /\ y.complete = w.complete /\ y.ppn = w.ppn
          /\ ~y.stale /\ y.wrote = i.pc /\ y.reader = g /\ y.read = r
        BY <1>1, <2>2, <2>1 DEF TracerType
    <2>4. Traceable(c, y, i.priv, i.ppn)
        BY <1>2, <2>3 DEF Traceable
    <2> QED
        BY <1>1, <2>3, <2>4 DEF ElementDone, y, g, r
<1>3. CASE ~Traceable(c, w, i.priv, i.ppn)
    <2>1. y = [w EXCEPT !.stale = TRUE]
        BY <1>3 DEF trace_element, w
    <2> HIDE DEF y
    <2>2. /\ y \in TracerType
          /\ y.writer = w.writer /\ y.pending = w.pending /\ y.inreg = w.inreg
          /\ y.complete = w.complete /\ y.ppn = w.ppn
          /\ y.stale /\ y.wrote = w.wrote /\ y.read = w.read
        BY <1>1, <2>1 DEF TracerType
    <2>3. ~Traceable(c, y, i.priv, i.ppn)
        BY <1>3, <2>2 DEF Traceable
    <2> QED
        BY <1>1, <2>2, <2>3 DEF ElementDone, y
<1> QED
    BY <1>2, <1>3

\* The start of a region opens the trace and makes the pc stale.
LEMMA StartOk ==
    ASSUME NEW x \in TracerType, NEW i, GivenType(i)
    PROVE  StartDone(x, start_region(x, i))
<1> DEFINE w == [x EXCEPT !.inreg = TRUE, !.stale = TRUE,
                         !.ppn = IF x.ppn = None THEN i.ppn ELSE x.ppn]
           y == open_trace(w, i)
<1>1. /\ w \in TracerType /\ w.inreg /\ w.stale
      /\ w.pending = x.pending /\ w.complete = x.complete
      /\ w.wrote = x.wrote /\ w.read = x.read
    BY DEF TracerType, GivenType
<1> HIDE DEF w
<1>2. /\ y \in TracerType /\ y.writer /\ y.inreg = w.inreg /\ y.stale = w.stale
      /\ y.pending = w.pending /\ y.complete = w.complete
      /\ y.wrote = w.wrote /\ y.read = w.read
    BY <1>1 DEF open_trace, TracerType, GivenType
<1> QED
    BY <1>1, <1>2 DEF StartDone, start_region, w

\* The tracer ends its trace at i; it is asked for a record of i.
Ends(c, i) == \/ i.kind = "stop" /\ c.exit
              \/ ~c.macro /\ executed = c.start + c.count
Asked(c, x, i) ==
    IF c.macro
    THEN /\ i.kind \in {"start", "stop"} => c.include
         /\ i.kind = "start" \/ x.inreg
    ELSE ~Ends(c, i) /\ (executed = c.start \/ x.inreg)

\* y is x after it was given i.
InsnDone(c, x, i, y) ==
    /\ y \in TracerType /\ (y.complete <=> x.complete \/ Ends(c, i))
    /\ c.macro => (y.inreg <=> \/ i.kind = "start"
                               \/ x.inreg /\ (i.kind = "stop" => c.exit))
    /\ ~c.macro => (y.inreg <=> ~Ends(c, i) /\ (executed = c.start \/ x.inreg))
    /\ y.wrote = IF Asked(c, x, i) /\ Traceable(c, y, i.priv, i.ppn) THEN i.pc ELSE x.wrote
    /\ y.inreg /\ ~Ends(c, i) => y.writer
    /\ y.inreg /\ ~Ends(c, i) /\ ~y.stale => Traceable(c, y, i.priv, i.ppn) /\ y.reader = Goes(i)

\* A reader of x would be at i, if it is asked for a record of i.
At(c, x, i) ==
    x.inreg /\ ~x.stale /\ (c.macro \/ executed # c.start) /\ i.priv \in c.modes
    => x.reader = i.pc

\* A tracer by count, given an instruction.
LEMMA CountInsnOk ==
    ASSUME NEW c, ConfType(c), ~c.macro, NEW x \in TracerType, NEW i, GivenType(i)
    PROVE  LET y == trace_count_insn(c, x, i)
           IN  /\ InsnDone(c, x, i, y)
               /\ x.read = x.wrote /\ At(c, x, i) => y.read = y.wrote
<1> DEFINE y == trace_count_insn(c, x, i)
<1>1. CASE Ends(c, i)
    <2>1. y = [x EXCEPT !.complete = TRUE, !.writer = FALSE, !.inreg = FALSE]
        BY <1>1 DEF trace_count_insn, Ends, terminate, TracerType
    <2>2. /\ y \in TracerType /\ y.complete /\ ~y.inreg /\ y.wrote = x.wrote /\ y.read = x.read
        BY <2>1 DEF TracerType
    <2> HIDE DEF y
    <2> QED
        BY <1>1, <2>2 DEF InsnDone, Asked, y
<1>2. CASE ~Ends(c, i)
    <2> DEFINE w == IF executed = c.start THEN start_region(x, i) ELSE x
    <2>1. y = IF w.inreg THEN trace_element(c, w, i) ELSE w
        BY <1>2 DEF trace_count_insn, Ends
    <2>2. executed = c.start => StartDone(x, w)
        BY StartOk
    <2>3. executed # c.start => w = x
        OBVIOUS
    <2>4. w \in TracerType
        BY <2>2, <2>3 DEF StartDone
    <2>5. ElementDone(c, w, i, trace_element(c, w, i))
        BY <2>4, ElementOk
    <2> HIDE DEF w, y
    <2>6. CASE w.inreg
        <3>1. ElementDone(c, w, i, y)
            BY <2>1, <2>5, <2>6
        <3>2. y.inreg /\ y.writer /\ (executed = c.start \/ x.inreg) /\ y.complete = x.complete
            BY <2>2, <2>3, <2>6, <3>1 DEF ElementDone, StartDone
        <3>3. w.wrote = x.wrote /\ w.read = x.read
            BY <2>2, <2>3 DEF StartDone
        <3>4. InsnDone(c, x, i, y)
            BY <1>2, <3>1, <3>2, <3>3 DEF InsnDone, Asked, ElementDone
        <3>5. ASSUME x.read = x.wrote, At(c, x, i) PROVE y.read = y.wrote
            <4>1. CASE Traceable(c, y, i.priv, i.ppn)
                <5>1. w.stale \/ w.reader = i.pc
                    BY <2>2, <2>3, <2>6, <3>5, <4>1 DEF At, StartDone, Traceable
                <5> QED
                    BY <3>1, <4>1, <5>1 DEF ElementDone
            <4>2. CASE ~Traceable(c, y, i.priv, i.ppn)
                BY <3>1, <3>3, <3>5, <4>2 DEF ElementDone
            <4> QED
                BY <4>1, <4>2
        <3> QED
            BY <3>4, <3>5 DEF y
    <2>7. CASE ~w.inreg
        <3>1. y = x /\ executed # c.start /\ ~x.inreg
            BY <2>1, <2>2, <2>3, <2>7 DEF StartDone
        <3>2. InsnDone(c, x, i, y)
            BY <1>2, <3>1 DEF InsnDone, Asked
        <3> QED
            BY <3>1, <3>2 DEF y
    <2> QED
        BY <2>6, <2>7
<1> QED
    BY <1>1, <1>2

\* A tracer by macro, given an instruction.
LEMMA MacroInsnOk ==
    ASSUME NEW c, ConfType(c), c.macro, NEW x \in TracerType, NEW i, GivenType(i)
    PROVE  LET y == trace_macro_insn(c, x, i)
           IN  /\ InsnDone(c, x, i, y)
               /\ x.read = x.wrote /\ At(c, x, i) => y.read = y.wrote
<1> DEFINE y == trace_macro_insn(c, x, i)
<1>1. CASE i.kind = "stop"
    <2> DEFINE w == IF c.include /\ x.inreg THEN trace_element(c, x, i) ELSE x
    <2>1. y = IF c.exit THEN terminate(w) ELSE [w EXCEPT !.inreg = FALSE]
        BY <1>1 DEF trace_macro_insn
    <2>2. c.include /\ x.inreg => ElementDone(c, x, i, w)
        BY ElementOk
    <2>3. ~(c.include /\ x.inreg) => w = x
        OBVIOUS
    <2>4. w \in TracerType /\ w.inreg = x.inreg /\ w.complete = x.complete
        BY <2>2, <2>3 DEF ElementDone
    <2> HIDE DEF w, y
    <2>5. /\ y \in TracerType /\ y.wrote = w.wrote /\ y.read = w.read /\ y.ppn = w.ppn
          /\ y.inreg <=> x.inreg /\ c.exit
          /\ y.complete <=> x.complete \/ c.exit
        BY <2>1, <2>4 DEF terminate, TracerType, ConfType
    <2>6. Traceable(c, y, i.priv, i.ppn) <=> Traceable(c, w, i.priv, i.ppn)
        BY <2>5 DEF Traceable
    <2>7. CASE c.include /\ x.inreg
        <3>1. InsnDone(c, x, i, y)
            BY <1>1, <2>2, <2>5, <2>6, <2>7 DEF InsnDone, Asked, Ends, ElementDone
        <3>2. x.read = x.wrote /\ At(c, x, i) => y.read = y.wrote
            BY <2>2, <2>5, <2>7 DEF ElementDone, At, Traceable
        <3> QED
            BY <3>1, <3>2 DEF y
    <2>8. CASE ~(c.include /\ x.inreg)
        <3>1. InsnDone(c, x, i, y)
            BY <1>1, <2>3, <2>5, <2>8 DEF InsnDone, Asked, Ends
        <3> QED
            BY <2>3, <2>5, <2>8, <3>1 DEF y
    <2> QED
        BY <2>7, <2>8
<1>2. CASE i.kind # "stop"
    <2> DEFINE w == IF i.kind = "start" THEN start_region(x, i) ELSE x
    <2>1. y = IF w.inreg /\ (i.kind = "start" => c.include) THEN trace_element(c, w, i) ELSE w
        BY <1>2 DEF trace_macro_insn
    <2>2. i.kind = "start" => StartDone(x, w)
        BY StartOk
    <2>3. i.kind # "start" => w = x
        OBVIOUS
    <2>4. w \in TracerType /\ w.complete = x.complete /\ w.wrote = x.wrote /\ w.read = x.read
        BY <2>2, <2>3 DEF StartDone
    <2>5. ElementDone(c, w, i, trace_element(c, w, i))
        BY <2>4, ElementOk
    <2>6. ~Ends(c, i)
        BY <1>2 DEF Ends
    <2> HIDE DEF w, y
    <2>7. CASE w.inreg /\ (i.kind = "start" => c.include)
        <3>1. ElementDone(c, w, i, y)
            BY <2>1, <2>5, <2>7
        <3>2. i.kind = "start" \/ x.inreg
            BY <2>3, <2>7
        <3>3. InsnDone(c, x, i, y)
            BY <1>2, <2>4, <2>6, <2>7, <3>1, <3>2 DEF InsnDone, Asked, ElementDone
        <3>4. ASSUME x.read = x.wrote, At(c, x, i) PROVE y.read = y.wrote
            <4>1. CASE Traceable(c, y, i.priv, i.ppn)
                <5>1. w.stale \/ w.reader = i.pc
                    BY <2>2, <2>3, <2>7, <3>4, <4>1 DEF At, StartDone, Traceable
                <5> QED
                    BY <3>1, <4>1, <5>1 DEF ElementDone
            <4>2. CASE ~Traceable(c, y, i.priv, i.ppn)
                BY <2>4, <3>1, <3>4, <4>2 DEF ElementDone
            <4> QED
                BY <4>1, <4>2
        <3> QED
            BY <3>3, <3>4 DEF y
    <2>8. CASE ~(w.inreg /\ (i.kind = "start" => c.include))
        <3>1. y = w
            BY <2>1, <2>8
        <3>2. i.kind = "start" => y.inreg /\ y.writer /\ y.stale /\ ~c.include
            BY <2>2, <2>8, <3>1 DEF StartDone
        <3>3. InsnDone(c, x, i, y)
            BY <1>2, <2>3, <2>4, <2>6, <2>8, <3>1, <3>2 DEF InsnDone, Asked
        <3> QED
            BY <2>4, <3>1, <3>3 DEF y
    <2> QED
        BY <2>7, <2>8
<1> QED
    BY <1>1, <1>2

\* In both modes.
LEMMA InsnOk ==
    ASSUME NEW c, ConfType(c), NEW x \in TracerType, NEW i, GivenType(i),
           x.read = x.wrote, At(c, x, i)
    PROVE  /\ InsnDone(c, x, i, trace_insn(c, x, i))
           /\ trace_insn(c, x, i).read = trace_insn(c, x, i).wrote
<1> DEFINE w == [x EXCEPT !.pending = FALSE]
           y == trace_insn(c, x, i)
<1>1. /\ w \in TracerType /\ w.inreg = x.inreg /\ w.complete = x.complete /\ w.stale = x.stale
      /\ w.wrote = x.wrote /\ w.read = x.read /\ w.reader = x.reader
    BY DEF TracerType
<1>2. y = IF c.macro THEN trace_macro_insn(c, w, i) ELSE trace_count_insn(c, w, i)
    BY DEF trace_insn
<1> HIDE DEF w, y
<1>3. At(c, w, i)
    BY <1>1 DEF At
<1>4. InsnDone(c, w, i, y) /\ y.read = y.wrote
    BY <1>1, <1>2, <1>3, MacroInsnOk, CountInsnOk DEF ConfType
<1>5. InsnDone(c, x, i, y)
    BY <1>1, <1>4 DEF InsnDone, Asked
<1> QED
    BY <1>4, <1>5 DEF y

\* y is x after a trap to a handler in supervisor mode.
EventDone(c, x, i, y) ==
    /\ y \in TracerType /\ y.read = y.wrote /\ (x.complete => y.complete)
    /\ x.complete = y.complete =>
          /\ c.macro => y.inreg = x.inreg
          /\ ~c.macro => (y.inreg => x.inreg \/ executed = c.start) /\ (x.inreg => y.inreg)
          /\ y.inreg => y.writer
          /\ y.inreg /\ ~y.stale /\ "S" \in c.modes /\ (c.macro \/ executed # c.start)
             => y.reader = i.npc

\* A tracer in its region or about to start, given a trap.
LEMMA EventOk ==
    ASSUME NEW c, ConfType(c), NEW x \in TracerType, NEW i, GivenType(i),
           i.kind \notin {"start", "stop"}, i = [i EXCEPT !.taken = FALSE],
           x.read = x.wrote, x.inreg => x.writer /\ ~x.complete,
           At(c, x, i)
    PROVE  EventDone(c, x, i, trace_event(c, x, i, "S"))
<1> DEFINE both  == Traceable(c, x, i.priv, i.ppn) /\ "S" \in c.modes
           ecall == i.kind = "ecall" /\ (c.modes = {"U"} => x.ppn = i.ppn)
           z == trace_insn(c, x, i)
           y == trace_event(c, x, i, "S")
<1>1. y = IF ~(both \/ ecall) THEN [x EXCEPT !.stale = TRUE]
          ELSE IF both /\ x.writer /\ x.inreg /\ ~z.complete THEN [z EXCEPT !.reader = i.npc]
          ELSE z
    BY DEF trace_event
<1>2. InsnDone(c, x, i, z) /\ z.read = z.wrote
    BY InsnOk
<1> HIDE DEF y, z, both, ecall
<1>3. CASE ~(both \/ ecall)
    <2>1. y = [x EXCEPT !.stale = TRUE]
        BY <1>1, <1>3
    <2>2. /\ y \in TracerType /\ y.stale /\ y.read = x.read /\ y.wrote = x.wrote
          /\ y.complete = x.complete /\ y.inreg = x.inreg /\ y.writer = x.writer
        BY <2>1 DEF TracerType
    <2> QED
        BY <2>2 DEF EventDone, y
<1>4. CASE both \/ ecall
    <2>1. /\ z \in TracerType /\ (z.complete <=> x.complete \/ Ends(c, i))
          /\ c.macro => z.inreg = x.inreg
          /\ ~c.macro => (z.inreg <=> ~Ends(c, i) /\ (executed = c.start \/ x.inreg))
          /\ z.inreg /\ ~Ends(c, i) => z.writer
          /\ z.inreg /\ ~Ends(c, i) /\ ~z.stale => Traceable(c, z, i.priv, i.ppn)
        BY <1>2 DEF InsnDone, TracerType
    <2>2. c.macro => ~Ends(c, i)
        BY DEF Ends
    <2>3. CASE both /\ x.writer /\ x.inreg /\ ~z.complete
        <3>1. y = [z EXCEPT !.reader = i.npc] /\ i.npc \in Nat
            BY <1>1, <1>4, <2>3 DEF GivenType
        <3>2. /\ y \in TracerType /\ y.reader = i.npc /\ y.read = z.read /\ y.wrote = z.wrote
              /\ y.complete = z.complete /\ y.inreg = z.inreg /\ y.writer = z.writer
            BY <2>1, <3>1 DEF TracerType
        <3> QED
            BY <1>2, <2>1, <2>2, <2>3, <3>2 DEF EventDone, y
    <2>4. CASE ~(both /\ x.writer /\ x.inreg /\ ~z.complete)
        <3>1. y = z
            BY <1>1, <1>4, <2>4
        <3>2. ASSUME x.complete = z.complete, z.inreg, ~z.stale, "S" \in c.modes,
                     c.macro \/ executed # c.start
              PROVE  FALSE
            <4>1. x.inreg /\ ~x.complete /\ x.writer
                BY <2>1, <3>2 DEF TracerType
            <4>2. ~z.complete /\ ~Ends(c, i)
                BY <2>1, <3>2, <4>1
            <4>3. Traceable(c, x, i.priv, i.ppn)
                BY <2>1, <3>2, <4>2 DEF Traceable
            <4> QED
                BY <2>4, <3>2, <4>1, <4>2, <4>3 DEF both
        <3>3. x.complete = z.complete => ~Ends(c, i) \/ ~x.inreg
            BY <2>1
        <3> QED
            BY <1>2, <2>1, <2>2, <3>1, <3>2, <3>3 DEF EventDone, y
    <2> QED
        BY <2>3, <2>4
<1> QED
    BY <1>3, <1>4

-----------------------------------------------------------------------------
(* Steps of the handler and of the loop                                    *)

\* y is x but for the pending flag.
Same(x, y) ==
    /\ y \in TracerType /\ y.inreg = x.inreg /\ y.writer = x.writer /\ y.stale = x.stale
    /\ y.complete = x.complete /\ y.ppn = x.ppn /\ y.reader = x.reader
    /\ y.read = x.read /\ y.wrote = x.wrote

\* Clearing what the last step wrote changes nothing else.
LEMMA QuietOk ==
    ASSUME StfType, NEW t \in T
    PROVE  /\ ConfType(conf[t]) /\ tracers[t] \in TracerType
           /\ Quiet[t] \in TracerType /\ Quiet[t].read = 0 /\ Quiet[t].wrote = 0
           /\ Quiet[t].inreg = tracers[t].inreg /\ Quiet[t].writer = tracers[t].writer
           /\ Quiet[t].stale = tracers[t].stale /\ Quiet[t].complete = tracers[t].complete
           /\ Quiet[t].ppn = tracers[t].ppn /\ Quiet[t].reader = tracers[t].reader
           /\ Quiet[t].pending = tracers[t].pending
<1>1. ConfType(conf[t]) /\ tracers[t] \in TracerType
    BY StfTracerAssumption DEF StfType, ConfType, T
<1> DEFINE x == tracers[t]
           q == Quiet[t]
<1>2. q = [x EXCEPT !.read = 0, !.wrote = 0]
    BY DEF Quiet
<1>3. x \in TracerType
    BY <1>1
<1> HIDE DEF x, q
<1>4. /\ q \in TracerType /\ q.read = 0 /\ q.wrote = 0
      /\ q.inreg = x.inreg /\ q.writer = x.writer /\ q.stale = x.stale
      /\ q.complete = x.complete /\ q.ppn = x.ppn /\ q.reader = x.reader
      /\ q.pending = x.pending
    BY <1>2, <1>3 DEF TracerType
<1> QED
    BY <1>1, <1>4 DEF x, q

\* Changing the pending flag.
LEMMA PendingOk ==
    ASSUME NEW x \in TracerType, NEW b \in BOOLEAN
    PROVE  Same(x, [x EXCEPT !.pending = b])
BY DEF TracerType, Same

\* A step that executes nothing and traces nothing.
LEMMA IdleStep ==
    ASSUME Inv, loop # "over", UNCHANGED <<conf, executed, pc, satp, retired, open>>,
           last_inst_priv' \in {"U", "S"}, epc' = epc, expected' = AnySet,
           tracers' = [t \in T |-> tracers'[t]], \A t \in T : Same(Quiet[t], tracers'[t]),
           loop' \in Fast \cup {"top", "slow"},
           loop' \in Fast => \A t \in T : ~tracers[t].inreg
    PROVE  Inv'
<1>1. StfType'
    <2>1. tracers' \in [T -> TracerType]
        BY DEF Same
    <2> QED
        BY <2>1 DEF Inv, StfType, T
<1>2. PcReconstructed' /\ TraceExact' /\ ExitAlone'
    <2>1. ASSUME NEW t \in T PROVE tracers'[t].read = tracers'[t].wrote
        BY QuietOk DEF Inv, Same
    <2> QED
        BY <2>1 DEF Inv, PcReconstructed, TraceExact, AnySet, ExitAlone, T
<1>3. ASSUME NEW t \in T PROVE TracerOk(conf[t], tracers[t])'
    <2> DEFINE c == conf[t]
               x == tracers[t]
               y == tracers'[t]
    <2>1. /\ y.inreg = x.inreg /\ y.writer = x.writer /\ y.stale = x.stale
          /\ y.complete = x.complete /\ y.reader = x.reader
        BY QuietOk DEF Inv, Same
    <2>2. TracerOk(c, x)
        BY DEF Inv, TracersOk
    <2>3. c' = c /\ (x.inreg => loop' \notin Fast)
        OBVIOUS
    <2> HIDE DEF c, x
    <2>4. InRegion(c, x)'
        BY <2>1, <2>2, <2>3 DEF TracerOk, InRegion, x
    <2>5. Follows(c, x)'
        BY <2>1, <2>2, <2>3 DEF TracerOk, Follows, x
    <2> QED
        BY <2>4, <2>5 DEF TracerOk, c, x
<1> QED
    BY <1>1, <1>2, <1>3 DEF Inv, TracersOk, T

\* A trap to the handler.
LEMMA EventStep ==
    ASSUME Inv, loop # "over", NEW i, GivenType(i), i.kind \notin {"start", "stop"},
           i = [i EXCEPT !.taken = FALSE], i.npc = Handler, handler_trace_event(i),
           \A t \in T : At(conf[t], tracers[t], i),
           UNCHANGED <<conf, executed, satp, retired, open>>, pc' = Handler,
           epc' \in Nat \ {0}, last_inst_priv' \in {"U", "S"}, expected' = AnySet
    PROVE  Inv'
<1> DEFINE given(t) == IF in_traceable_region(Quiet[t])
                       THEN trace_event(conf[t], Quiet[t], i, PrivOf(Handler)) ELSE Quiet[t]
           ends(t)  == given(t).complete /\ ~tracers[t].complete
<1>1. /\ tracers' = [t \in T |-> IF \E u \in T : u < t /\ ends(u) THEN Quiet[t] ELSE given(t)]
      /\ loop' = IF \E t \in T : ends(t) THEN "over" ELSE "top"
    BY DEF handler_trace_event
<1>2. Handler \in Nat \ {0} /\ PrivOf(Handler) = "S"
    BY StfTracerAssumption DEF PrivOf, Pcs
<1>3. ASSUME NEW t \in T PROVE EventDone(conf[t], Quiet[t], i, given(t))
    <2>1. CASE ~in_traceable_region(Quiet[t])
        <3>1. given(t) = Quiet[t] /\ ~Quiet[t].inreg
            BY <2>1 DEF in_traceable_region
        <3> HIDE DEF given
        <3> QED
            BY <3>1, QuietOk DEF EventDone, Inv, TracerType
    <2>2. CASE in_traceable_region(Quiet[t])
        <3>1. given(t) = trace_event(conf[t], Quiet[t], i, "S")
            BY <1>2, <2>2
        <3>2. Quiet[t].inreg => Quiet[t].writer /\ ~Quiet[t].complete
            <4>1. InRegion(conf[t], tracers[t])
                BY DEF Inv, TracersOk, TracerOk
            <4> QED
                BY <4>1, QuietOk DEF InRegion, Inv, StfType, ConfType
        <3>3. At(conf[t], Quiet[t], i)
            BY QuietOk DEF At, Inv
        <3> HIDE DEF given
        <3> QED
            BY <3>1, <3>2, <3>3, QuietOk, EventOk DEF Inv
    <2> QED
        BY <2>1, <2>2
<1> HIDE DEF given
<1>4. ASSUME NEW t \in T
      PROVE  tracers'[t] \in TracerType /\ tracers'[t].read = tracers'[t].wrote
    BY <1>1, <1>3, QuietOk DEF EventDone, Inv
<1>5. StfType'
    <2>1. tracers' \in [T -> TracerType]
        BY <1>1, <1>4
    <2>2. loop' \in {"top", "over"}
        BY <1>1
    <2> QED
        BY <1>2, <2>1, <2>2 DEF Inv, StfType, T
<1>6. PcReconstructed' /\ TraceExact' /\ ExitAlone'
    BY <1>4 DEF Inv, PcReconstructed, TraceExact, AnySet, ExitAlone, T
<1>7. ASSUME loop' # "over", NEW t \in T PROVE TracerOk(conf[t], tracers[t])'
    <2> DEFINE c == conf[t]
               x == tracers[t]
    <2>1. loop' = "top" /\ ~ends(t) /\ tracers'[t] = given(t)
        BY <1>1, <1>7
    <2>2. EventDone(c, Quiet[t], i, x') /\ x'.complete = x.complete
        <3>1. EventDone(c, Quiet[t], i, given(t)) /\ Quiet[t].complete = x.complete
            BY <1>3, QuietOk DEF Inv
        <3>2. (x.complete => given(t).complete) /\ (given(t).complete => x.complete)
            BY <2>1, <3>1 DEF EventDone
        <3>3. x.complete \in BOOLEAN /\ given(t).complete \in BOOLEAN
            BY <3>1, QuietOk DEF EventDone, TracerType, Inv
        <3> QED
            BY <2>1, <3>1, <3>2, <3>3
    <2>3. Quiet[t].complete = x.complete /\ Quiet[t].inreg = x.inreg
        BY QuietOk DEF Inv
    <2>4. InRegion(c, x) /\ executed \in Nat /\ ConfType(c) /\ x \in TracerType
        BY QuietOk DEF Inv, TracersOk, TracerOk, StfType
    <2>5. c' = c /\ executed' = executed /\ open' = open
        OBVIOUS
    <2> HIDE DEF c, x
    <2>6. x'.inreg \in BOOLEAN
        BY <2>2 DEF EventDone, TracerType
    <2>7. InRegion(c, x)'
        BY <2>1, <2>2, <2>3, <2>4, <2>5, <2>6 DEF InRegion, EventDone, Fast, ConfType, TracerType
    <2>8. Follows(c, x)'
        BY <1>2, <2>2, <2>3, <2>4, <2>5 DEF Follows, EventDone
    <2> QED
        BY <2>7, <2>8 DEF TracerOk, c, x
<1> QED
    BY <1>5, <1>6, <1>7 DEF Inv, TracersOk, T

\* What Wanted asks, of the tracer z.
WantedBy(c, z) ==
    /\ Traceable(c, z, PrivOf(pc), satp)
    /\ IF c.macro
       THEN /\ Kind \in {"start", "stop"} => c.include
            /\ Kind = "start" \/ open
       ELSE /\ executed \in c.start .. c.start + c.count - 1
            /\ Kind = "stop" => ~c.exit

OpenAfter == CASE Kind = "start" -> TRUE [] Kind = "stop" -> FALSE [] OTHER -> open

\* z is right for the instruction after this one, at npc.
After(c, z, npc) ==
    /\ z.inreg => z.writer
    /\ c.macro => (z.inreg <=> OpenAfter)
    /\ ~c.macro => /\ z.inreg => executed + 1 \in c.start .. c.start + c.count
                   /\ executed + 1 \in c.start + 1 .. c.start + c.count => z.inreg
    /\ z.complete => ~c.macro /\ executed + 1 > c.start + c.count
    /\ z.inreg /\ ~z.stale => z.reader = npc

\* z has, or has no, record of the instruction at pc, as the options say.
Recorded(c, z) ==
    z \in TracerType /\ z.read = z.wrote /\ (z.wrote # 0 <=> WantedBy(c, z))

\* A tracer outside of its region, when this is not the first instruction of
\* it, wants no record and gets none.
LEMMA NotGiven ==
    ASSUME Inv, loop # "over", NEW t \in T, ~tracers[t].inreg,
           ~is_start_of_region(conf[t], Kind, executed), NEW npc
    PROVE  Recorded(conf[t], Quiet[t]) /\ After(conf[t], Quiet[t], npc)
<1> DEFINE c == conf[t]
           x == tracers[t]
           z == Quiet[t]
<1>1. /\ ConfType(c) /\ z \in TracerType /\ z.read = 0 /\ z.wrote = 0
      /\ ~z.inreg /\ z.complete = x.complete
    BY QuietOk DEF Inv, TracerType
<1>2. InRegion(c, x) /\ ~x.inreg /\ executed \in Nat
    BY DEF Inv, StfType, TracersOk, TracerOk
<1>3. ~is_start_of_region(c, Kind, executed)
    OBVIOUS
<1> HIDE DEF c, x, z
<1>4. c.macro => ~open /\ Kind # "start"
    BY <1>2, <1>3 DEF InRegion, is_start_of_region
<1>5. ~c.macro => executed \notin c.start .. c.start + c.count
    BY <1>1, <1>2, <1>3 DEF InRegion, is_start_of_region, ConfType
<1>6. ~WantedBy(c, z)
    BY <1>1, <1>2, <1>4, <1>5 DEF WantedBy, ConfType
<1>7. After(c, z, npc)
    BY <1>1, <1>2, <1>4, <1>5 DEF After, OpenAfter, InRegion, ConfType
<1> QED
    BY <1>1, <1>6, <1>7 DEF Recorded, c, z

\* Where an instruction goes.
LEMMA OutcomeOk ==
    ASSUME StfType, NEW o \in Outcomes
    PROVE  /\ o[1] \in Nat \ {0} /\ o[2] \in BOOLEAN /\ (~o[2] => o[1] = pc + 1)
           /\ GivenType(Given(o[1], o[2])) /\ Goes(Given(o[1], o[2])) = o[1]
           /\ Given(o[1], o[2]).kind = Kind /\ Given(o[1], o[2]).pc = pc
           /\ Given(o[1], o[2]).priv = PrivOf(pc) /\ Given(o[1], o[2]).ppn = SatpNow
<1>1. o[1] \in Nat \ {0} /\ o[2] \in BOOLEAN /\ (~o[2] => o[1] = pc + 1)
    <2>1. \/ o = <<1, TRUE>> \/ o = <<epc, TRUE>>
          \/ o = <<pc + 1, FALSE>> \/ o = <<pc + 2, TRUE>>
        <3>1. Kind = "jump" => Outcomes = {<<1, TRUE>>}
            BY DEF Outcomes
        <3>2. Kind = "branch" => Outcomes = {<<pc + 1, FALSE>>, <<pc + 2, TRUE>>}
            BY DEF Outcomes
        <3>3. Kind = "sret" => Outcomes = {<<epc, TRUE>>}
            BY DEF Outcomes
        <3>4. Kind \notin {"jump", "branch", "sret"} => Outcomes = {<<pc + 1, FALSE>>}
            BY DEF Outcomes
        <3> QED
            BY <3>1, <3>2, <3>3, <3>4
    <2>2. pc \in Nat \ {0} /\ epc \in Nat \ {0}
        BY DEF StfType
    <2>3. \/ o[1] = 1 /\ o[2] = TRUE
          \/ o[1] = epc /\ o[2] = TRUE
          \/ o[1] = pc + 1 /\ o[2] = FALSE
          \/ o[1] = pc + 2 /\ o[2] = TRUE
        <3>1. ASSUME NEW a, NEW b, o = <<a, b>> PROVE o[1] = a /\ o[2] = b
            BY <3>1
        <3> QED
            BY <2>1, <3>1, Zenon
    <2>4. pc + 1 \in Nat \ {0} /\ pc + 2 \in Nat \ {0}
        BY <2>2
    <2>5. o[1] \in Nat \ {0}
        BY <2>2, <2>3, <2>4
    <2> QED
        BY <2>3, <2>5
<1>2. SatpNow \in Procs
    BY DEF SatpNow, Other, Procs, StfType
<1> QED
    BY <1>1, <1>2 DEF Given, GivenType, Goes, StfType

\* The instruction that switches the address space is not user code.
LEMMA SatpOfSupervisor ==
    ASSUME StfType, NEW c, NEW z
    PROVE  Traceable(c, z, PrivOf(pc), SatpNow) <=> Traceable(c, z, PrivOf(pc), satp)
<1>1. CASE SatpNow = satp
    BY <1>1
<1>2. CASE SatpNow # satp
    <2>1. Kind = "satp"
        BY <1>2 DEF SatpNow
    <2>2. PrivOf(pc) = "S"
        <3>1. CASE pc < Handler
            <4>1. pc \in Pcs
                BY <3>1, StfTracerAssumption DEF StfType, Pcs
            <4> QED
                BY <2>1, <4>1, StfTracerAssumption DEF Kind
        <3> QED
            BY <3>1 DEF PrivOf
    <2> QED
        BY <2>2 DEF Traceable
<1> QED
    BY <1>1, <1>2

\* A tracer in its region, or at its first instruction, makes the record it
\* should, unless it ends the run at a STOP.
LEMMA TracerGiven ==
    ASSUME Inv, loop = "slow", NEW t \in T, NEW o \in Outcomes,
           tracers[t].inreg \/ in_traceable_region(Quiet[t])
               \/ is_start_of_region(conf[t], Kind, executed)
    PROVE  LET z == trace_insn(conf[t], Quiet[t], Given(o[1], o[2]))
           IN  /\ Recorded(conf[t], z)
               /\ (Kind = "stop" /\ conf[t].exit /\ z.complete) \/ After(conf[t], z, o[1])
<1> DEFINE c == conf[t]
           x == tracers[t]
           q == Quiet[t]
           i == Given(o[1], o[2])
           z == trace_insn(c, q, i)
<1>1. /\ ConfType(c) /\ x \in TracerType /\ q \in TracerType /\ q.read = 0 /\ q.wrote = 0
      /\ q.inreg = x.inreg /\ q.stale = x.stale /\ q.complete = x.complete /\ q.reader = x.reader
    BY QuietOk DEF Inv
<1>2. InRegion(c, x) /\ Follows(c, x) /\ executed \in Nat /\ pc \in Nat \ {0} /\ open \in BOOLEAN
    BY DEF Inv, StfType, TracersOk, TracerOk
<1>3. /\ GivenType(i) /\ Goes(i) = o[1] /\ i.kind = Kind /\ i.pc = pc
      /\ i.priv = PrivOf(pc) /\ i.ppn = SatpNow
    BY OutcomeOk DEF Inv
<1>4. At(c, q, i)
    <2>1. PrivOf(pc) \in {"U", "S"}
        BY DEF PrivOf
    <2> HIDE DEF c, x, q, i
    <2> QED
        BY <1>1, <1>2, <1>3, <2>1 DEF At, Follows
<1>5. InsnDone(c, q, i, z) /\ z.read = z.wrote
    BY <1>1, <1>3, <1>4, InsnOk
<1>6. Traceable(c, z, i.priv, i.ppn) <=> Traceable(c, z, PrivOf(pc), satp)
    BY <1>3, SatpOfSupervisor DEF Inv
<1> HIDE DEF c, x, q, i, z
<1>7. Ends(c, i) <=> \/ Kind = "stop" /\ c.exit
                     \/ ~c.macro /\ executed = c.start + c.count
    BY <1>3 DEF Ends
<1>8. Recorded(c, z)
    <2>1. z \in TracerType
        BY <1>5 DEF InsnDone
    <2>2. z.wrote # 0 <=> Asked(c, q, i) /\ Traceable(c, z, PrivOf(pc), satp)
        BY <1>1, <1>2, <1>3, <1>5, <1>6 DEF InsnDone
    <2>3. CASE c.macro
        BY <1>1, <1>2, <1>3, <1>5, <2>1, <2>2, <2>3 DEF Recorded, WantedBy, Asked, InRegion
    <2>4. CASE ~c.macro
        <3>1. Asked(c, q, i) <=> /\ executed \in c.start .. c.start + c.count - 1
                                 /\ Kind = "stop" => ~c.exit
            BY <1>1, <1>2, <1>3, <1>7, <2>4 DEF Asked, InRegion, ConfType, TracerType
        <3> QED
            BY <1>5, <2>1, <2>2, <2>4, <3>1 DEF Recorded, WantedBy
    <2> QED
        BY <2>3, <2>4 DEF ConfType
<1>9. (Kind = "stop" /\ c.exit /\ z.complete) \/ After(c, z, o[1])
    <2>1. CASE Kind = "stop" /\ c.exit
        BY <1>5, <1>7, <2>1 DEF InsnDone
    <2>2. CASE ~(Kind = "stop" /\ c.exit) /\ c.macro
        <3>1. ~Ends(c, i) /\ (z.inreg <=> Kind = "start" \/ (x.inreg /\ Kind # "stop"))
            BY <1>1, <1>3, <1>5, <1>7, <2>2 DEF InsnDone
        <3>2. z.inreg <=> OpenAfter
            BY <1>2, <2>2, <3>1 DEF OpenAfter, InRegion
        <3>3. ~z.complete
            BY <1>1, <1>2, <1>5, <2>2, <3>1 DEF InsnDone, InRegion
        <3> QED
            BY <1>3, <1>5, <2>2, <3>1, <3>2, <3>3 DEF InsnDone, After
    <2>3. CASE ~(Kind = "stop" /\ c.exit) /\ ~c.macro
        <3>1. Ends(c, i) <=> executed = c.start + c.count
            BY <1>7, <2>3
        <3>2. z.inreg <=> executed # c.start + c.count /\ (executed = c.start \/ x.inreg)
            BY <1>1, <1>5, <2>3, <3>1 DEF InsnDone
        <3>3. z.inreg => z.writer /\ (~z.stale => z.reader = o[1])
            BY <1>3, <1>5, <3>1, <3>2 DEF InsnDone
        <3>4. z.complete => x.complete \/ executed = c.start + c.count
            BY <1>1, <1>5, <3>1 DEF InsnDone
        <3> QED
            BY <1>1, <1>2, <2>3, <3>2, <3>3, <3>4 DEF After, InRegion, ConfType
    <2> QED
        BY <2>1, <2>2, <2>3
<1> QED
    BY <1>8, <1>9 DEF c, q, i, z

\* The instruction at pc retires, and every tracer has done with it what it
\* should: zs are the tracers before they look for the start of a region.
LEMMA RetireStep ==
    ASSUME Inv, loop # "over", NEW npc \in Nat \ {0}, Retire(npc),
           UNCHANGED <<conf, epc>>, last_inst_priv' \in {"U", "S"}, executed' \in Nat,
           loop' \in Fast \cup {"top", "slow", "over"},
           NEW zs, tracers' = [t \in T |-> tracers'[t]],
           \A t \in T : Same(zs[t], tracers'[t]) /\ Recorded(conf[t], zs[t]),
           loop' # "over" => /\ executed' = executed + 1
                             /\ \A t \in T : After(conf[t], zs[t], npc),
           loop' \in Fast => \A t \in T : ~zs[t].inreg
    PROVE  Inv'
<1>1. /\ pc' = npc /\ satp' = SatpNow /\ retired' = retired + 1 /\ open' = OpenAfter
      /\ expected' = {t \in T : Wanted(t)} /\ executed = retired
    BY DEF Retire, OpenAfter, Inv, TracersOk
<1>2. StfType'
    <2>1. tracers' \in [T -> TracerType]
        BY DEF Same
    <2>2. SatpNow \in Procs /\ OpenAfter \in BOOLEAN
        BY DEF SatpNow, Other, Procs, OpenAfter, Inv, StfType
    <2> QED
        BY <1>1, <2>1, <2>2 DEF Inv, StfType, T
<1>3. PcReconstructed' /\ ExitAlone'
    BY DEF Inv, PcReconstructed, ExitAlone, Same, Recorded, T
<1>4. TraceExact'
    <2>1. ASSUME NEW t \in T PROVE Wanted(t) <=> tracers'[t].wrote # 0
        <3> DEFINE c == conf[t]
                   z == zs[t]
                   y == tracers'[t]
        <3>1. Same(z, y) /\ Recorded(c, z) /\ ConfType(c)
            BY QuietOk DEF Inv
        <3>2. executed \in Nat /\ retired = executed
            BY <1>1 DEF Inv, StfType
        <3>3. Wanted(t) <=> WantedBy(c, y)
            <4> HIDE DEF c
            <4>1. c.start <= retired /\ retired < c.start + c.count
                  <=> executed \in c.start .. c.start + c.count - 1
                BY <3>1, <3>2 DEF ConfType
            <4>2. Wanted(t) <=>
                    /\ Traceable(c, y, PrivOf(pc), satp)
                    /\ IF c.macro
                       THEN CASE Kind = "start" -> c.include
                              [] Kind = "stop"  -> c.include /\ open
                              [] OTHER          -> open
                       ELSE /\ c.start <= retired /\ retired < c.start + c.count
                            /\ Kind = "stop" => ~c.exit
                BY Zenon DEF Wanted, c, y
            <4> HIDE DEF y
            <4> QED
                BY <3>1, <4>1, <4>2 DEF WantedBy, ConfType
        <3>4. WantedBy(c, y) <=> WantedBy(c, z)
            <4> HIDE DEF c, y, z
            <4> QED
                BY <3>1 DEF WantedBy, Traceable, Same
        <3> QED
            BY <3>1, <3>3, <3>4 DEF Same, Recorded
    <2> QED
        BY <1>1, <2>1 DEF TraceExact, T
<1>5. ASSUME loop' # "over", NEW t \in T PROVE TracerOk(conf[t], tracers[t])'
    <2> DEFINE c == conf[t]
               x == tracers[t]
               z == zs[t]
    <2>1. Same(z, x') /\ After(c, z, npc) /\ c' = c /\ executed' = executed + 1
        BY <1>5
    <2>2. x'.inreg => loop' \notin Fast
        BY <2>1 DEF Same
    <2> HIDE DEF c, x, z
    <2>3. InRegion(c, x)'
        BY <1>1, <2>1, <2>2 DEF InRegion, After, Same
    <2>4. Follows(c, x)'
        BY <1>1, <2>1 DEF Follows, After, Same
    <2> QED
        BY <2>3, <2>4 DEF TracerOk, c, x
<1>6. loop' # "over" => executed' = retired'
    BY <1>1
<1> QED
    BY <1>2, <1>3, <1>4, <1>5, <1>6 DEF Inv, TracersOk, T

\* What StfHandler::trace_insn leaves in the slow loop.
LEMMA HandlerOk ==
    ASSUME Inv, loop = "slow", NEW o \in Outcomes,
           NEW xs, xs = handler_trace_insn(Given(o[1], o[2]))
    PROVE  /\ xs = [t \in T |-> xs[t]]
           /\ \A t \in T : Recorded(conf[t], xs[t])
           /\ AllComplete(xs) \/ \A t \in T : After(conf[t], xs[t], o[1])
<1> DEFINE i == Given(o[1], o[2])
<1>1. i.kind = Kind
    BY OutcomeOk DEF Inv
<1>2. xs = [t \in T |-> IF \/ in_traceable_region(Quiet[t])
                           \/ is_start_of_region(conf[t], i.kind, executed)
                        THEN trace_insn(conf[t], Quiet[t], i) ELSE Quiet[t]]
    BY DEF handler_trace_insn
<1>3. ASSUME NEW t \in T
      PROVE  /\ Recorded(conf[t], xs[t])
             /\ \/ conf[t].exit /\ xs[t].complete
                \/ After(conf[t], xs[t], o[1])
    <2>1. CASE in_traceable_region(Quiet[t]) \/ is_start_of_region(conf[t], Kind, executed)
        <3>1. xs[t] = trace_insn(conf[t], Quiet[t], i)
            BY <1>1, <1>2, <2>1
        <3> QED
            BY <2>1, <3>1, TracerGiven
    <2>2. CASE ~(in_traceable_region(Quiet[t]) \/ is_start_of_region(conf[t], Kind, executed))
        <3>1. xs[t] = Quiet[t]
            BY <1>1, <1>2, <2>2
        <3>2. ~tracers[t].inreg
            BY <2>2, QuietOk DEF in_traceable_region, Inv
        <3>3. Recorded(conf[t], Quiet[t]) /\ After(conf[t], Quiet[t], o[1])
            BY <2>2, <3>2, NotGiven
        <3> QED
            BY <3>1, <3>3
    <2> QED
        BY <2>1, <2>2
<1>4. AllComplete(xs) \/ \A t \in T : After(conf[t], xs[t], o[1])
    <2> SUFFICES ASSUME NEW t \in T, conf[t].exit, xs[t].complete PROVE AllComplete(xs)
        BY <1>3
    <2>1. \A u \in T : u = t
        BY DEF Inv, ExitAlone
    <2> QED
        BY <2>1 DEF AllComplete
<1> QED
    BY <1>2, <1>3, <1>4

\* Looking for the start of a region changes the pending flag only.
LEMMA IncrStep ==
    ASSUME StfType, NEW xs, \A t \in T : xs[t] \in TracerType, incr_executed_instructions(xs)
    PROVE  /\ executed' = executed + 1 /\ tracers' = [t \in T |-> tracers'[t]]
           /\ \A t \in T : Same(xs[t], tracers'[t])
<1>1. ASSUME NEW t \in T PROVE Same(xs[t], tracers'[t])
    <2> DEFINE b == \/ xs[t].pending
                    \/ conf[t].mem /\ is_start_of_region(conf[t], "none", executed + 1)
    <2>1. tracers'[t] = [xs[t] EXCEPT !.pending = b]
        BY DEF incr_executed_instructions
    <2> HIDE DEF b
    <2>2. b \in BOOLEAN
        BY DEF b
    <2> QED
        BY <2>1, <2>2, PendingOk
<1> QED
    BY <1>1 DEF incr_executed_instructions

\* A tracer that is left alone.
LEMMA SameRefl == ASSUME NEW x \in TracerType PROVE Same(x, x)
BY DEF Same

\* Nobody is in its region in the fast loop, and this is nobody's first.
LEMMA FastOk ==
    ASSUME Inv, loop \in Fast, Fetched, NEW t \in T, NEW npc
    PROVE  /\ ~Quiet[t].inreg /\ Quiet[t] \in TracerType
           /\ Recorded(conf[t], Quiet[t]) /\ After(conf[t], Quiet[t], npc)
<1>1. ~tracers[t].inreg
    BY DEF Inv, TracersOk, TracerOk, InRegion, Fast
<1>2. ~is_start_of_region(conf[t], Kind, executed)
    BY DEF Fetched, Fast
<1> QED
    BY <1>1, <1>2, NotGiven, QuietOk DEF Inv, Fast

\* The privilege kept for the tracers has its type.
LEMMA StashOk == ASSUME StfType, StashPriv PROVE last_inst_priv' \in {"U", "S"}
BY DEF StashPriv, PrivOf, StfType

\* Nobody in its region enters the fast loop with a new round.
LEMMA RoundStep == ASSUME Inv, round_start PROVE Inv'
<1>1. /\ loop = "top" /\ tracers' = Quiet /\ expected' = AnySet
      /\ UNCHANGED <<conf, executed, hartVars, retired, open>>
    BY DEF round_start
<1>2. \A t \in T : Same(Quiet[t], tracers'[t])
    BY <1>1, QuietOk, SameRefl DEF Inv
<1>3. tracers' = [t \in T |-> tracers'[t]]
    BY <1>1 DEF Quiet
<1>4. loop' \in {"slow", "fast"} /\ (loop' = "fast" => \A t \in T : ~tracers[t].inreg)
    BY DEF round_start, in_traceable_region
<1>5. last_inst_priv' \in {"U", "S"}
    BY <1>1 DEF hartVars, Inv, StfType
<1> QED
    BY <1>1, <1>2, <1>3, <1>4, <1>5, IdleStep DEF hartVars, Fast

\* Leaving the fast loop before the first instruction of a region.
LEMMA LeaveStep == ASSUME Inv, leave_fast_loop PROVE Inv'
<1>1. /\ loop \in Fast /\ expected' = AnySet /\ loop' = "top"
      /\ UNCHANGED <<conf, executed, hartVars, retired, open>>
    BY DEF leave_fast_loop, Fast
<1>2. ASSUME NEW t \in T PROVE Same(Quiet[t], tracers'[t])
    <2> DEFINE b == Quiet[t].pending \/ is_start_of_region(conf[t], Kind, executed)
    <2>1. tracers'[t] = [Quiet[t] EXCEPT !.pending = b]
        BY DEF leave_fast_loop
    <2> HIDE DEF b
    <2>2. b \in BOOLEAN
        BY DEF b
    <2> QED
        BY <2>1, <2>2, PendingOk, QuietOk DEF Inv
<1>3. tracers' = [t \in T |-> tracers'[t]]
    BY DEF leave_fast_loop
<1>4. last_inst_priv' \in {"U", "S"}
    BY <1>1 DEF hartVars, Inv, StfType
<1> QED
    BY <1>1, <1>2, <1>3, <1>4, IdleStep DEF hartVars, Fast

\* An instruction that is fetched again is not traced the first time.
LEMMA SerializeStep == ASSUME Inv, serialize_before PROVE Inv'
<1>1. /\ loop \in Fast \cup {"slow"} /\ loop' = "top" /\ tracers' = Quiet /\ expected' = AnySet
      /\ StashPriv /\ UNCHANGED <<conf, executed, pc, epc, satp, in_wfi, retired, open>>
    BY DEF serialize_before, Fetched, Fast
<1>2. \A t \in T : Same(Quiet[t], tracers'[t])
    BY <1>1, QuietOk, SameRefl DEF Inv
<1>3. tracers' = [t \in T |-> tracers'[t]]
    BY <1>1 DEF Quiet
<1>4. last_inst_priv' \in {"U", "S"}
    BY <1>1, StashOk DEF Inv
<1> QED
    BY <1>1, <1>2, <1>3, <1>4, IdleStep DEF Fast

\* The slow loop passes every instruction to the tracers.
LEMMA SlowStep == ASSUME Inv, slow_insn PROVE Inv'
<1>1. PICK o \in Outcomes :
          LET xs == handler_trace_insn(Given(o[1], o[2]))
          IN  IF AllComplete(xs)
              THEN tracers' = xs /\ loop' = "over" /\ UNCHANGED executed /\ Retire(o[1])
              ELSE /\ incr_executed_instructions(xs)
                   /\ loop' \in {"top"} \cup IF Serializes THEN {} ELSE {"slow"}
                   /\ Retire(o[1])
    BY Zenon DEF slow_insn
<1>2. loop = "slow" /\ StashPriv /\ UNCHANGED <<conf, epc>>
    BY DEF slow_insn
<1> DEFINE xs == handler_trace_insn(Given(o[1], o[2]))
<1>3. IF AllComplete(xs)
      THEN tracers' = xs /\ loop' = "over" /\ UNCHANGED executed /\ Retire(o[1])
      ELSE incr_executed_instructions(xs) /\ loop' \in {"top", "slow"} /\ Retire(o[1])
    BY <1>1
<1> HIDE DEF xs
<1>4. /\ xs = [t \in T |-> xs[t]] /\ \A t \in T : Recorded(conf[t], xs[t])
      /\ AllComplete(xs) \/ \A t \in T : After(conf[t], xs[t], o[1])
    BY <1>2, HandlerOk DEF xs
<1>5. \A t \in T : xs[t] \in TracerType
    BY <1>4 DEF Recorded
<1>6. o[1] \in Nat \ {0} /\ last_inst_priv' \in {"U", "S"} /\ executed \in Nat
    BY <1>2, OutcomeOk, StashOk DEF Inv, StfType
<1>7. CASE AllComplete(xs)
    <2>1. \A t \in T : Same(xs[t], tracers'[t])
        BY <1>3, <1>5, <1>7, SameRefl
    <2> QED
        BY <1>2, <1>3, <1>4, <1>6, <1>7, <2>1, RetireStep DEF Fast
<1>8. CASE ~AllComplete(xs)
    <2>1. /\ executed' = executed + 1 /\ tracers' = [t \in T |-> tracers'[t]]
          /\ \A t \in T : Same(xs[t], tracers'[t])
        BY <1>3, <1>5, <1>8, IncrStep DEF Inv
    <2> QED
        BY <1>2, <1>3, <1>4, <1>6, <1>8, <2>1, RetireStep DEF Fast
<1> QED
    BY <1>7, <1>8

\* What the fast loop executes is in no region.
LEMMA FastStep == ASSUME Inv, fast_insn PROVE Inv'
<1>1. loop \in Fast /\ Fetched /\ StashPriv /\ UNCHANGED <<conf, epc>>
    BY DEF fast_insn, Executes, Fetched, Fast
<1>2. PICK o \in Outcomes : Retire(o[1])
    BY DEF fast_insn
<1>3. o[1] \in Nat \ {0} /\ last_inst_priv' \in {"U", "S"} /\ executed \in Nat
    BY <1>1, OutcomeOk, StashOk DEF Inv, StfType
<1>4. \A t \in T : /\ ~Quiet[t].inreg /\ Quiet[t] \in TracerType
                    /\ Recorded(conf[t], Quiet[t]) /\ After(conf[t], Quiet[t], o[1])
    BY <1>1, FastOk
<1>5. /\ executed' = executed + 1 /\ tracers' = [t \in T |-> tracers'[t]]
      /\ loop' \in Fast \cup {"top"} /\ \A t \in T : Same(Quiet[t], tracers'[t])
    <2>1. CASE incr_executed_instructions(Quiet) /\ loop' \in {"chain", "top"}
        BY <1>4, <2>1, IncrStep DEF Inv, Fast
    <2> DEFINE starts(t) == is_start_of_region(conf[t], "none", executed + 1)
    <2>2. CASE /\ executed' = executed + 1
               /\ tracers' = [t \in T |-> [Quiet[t] EXCEPT !.pending = @ \/ starts(t)]]
               /\ loop' \in {"fast", "top"}
        <3>1. ASSUME NEW t \in T PROVE Same(Quiet[t], tracers'[t])
            <4> DEFINE b == Quiet[t].pending \/ starts(t)
            <4>1. tracers'[t] = [Quiet[t] EXCEPT !.pending = b]
                BY <2>2
            <4> HIDE DEF b
            <4>2. b \in BOOLEAN
                BY DEF b
            <4> QED
                BY <1>4, <4>1, <4>2, PendingOk
        <3> QED
            BY <2>2, <3>1 DEF Fast
    <2> QED
        BY <2>1, <2>2 DEF fast_insn
<1> QED
    BY <1>1, <1>2, <1>3, <1>4, <1>5, RetireStep DEF Fast

\* A wfi, which leaves both loops.
LEMMA WfiStep == ASSUME Inv, wait_for_interrupt PROVE Inv'
<1> DEFINE o  == <<pc + 1, FALSE>>
           xs == IF loop = "slow" THEN handler_trace_insn(Given(pc + 1, FALSE)) ELSE Quiet
<1>1. /\ Fetched /\ loop \in Fast \cup {"slow"} /\ Retire(pc + 1) /\ StashPriv
      /\ UNCHANGED <<conf, epc>> /\ Kind = "wfi"
    BY DEF wait_for_interrupt, Executes, Fetched, Fast
<1>2. IF loop = "slow" /\ AllComplete(xs)
      THEN tracers' = xs /\ loop' = "over" /\ UNCHANGED executed
      ELSE incr_executed_instructions(xs) /\ loop' = "top"
    BY DEF wait_for_interrupt
<1>3. o \in Outcomes /\ o[1] = pc + 1 /\ o[2] = FALSE
    BY <1>1 DEF Outcomes
<1>4. pc + 1 \in Nat \ {0} /\ last_inst_priv' \in {"U", "S"} /\ executed \in Nat
    BY <1>1, StashOk DEF Inv, StfType
<1>5. /\ xs = [t \in T |-> xs[t]] /\ \A t \in T : Recorded(conf[t], xs[t])
      /\ (loop = "slow" /\ AllComplete(xs)) \/ \A t \in T : After(conf[t], xs[t], pc + 1)
    <2>1. CASE loop = "slow"
        <3>1. xs = handler_trace_insn(Given(o[1], o[2]))
            BY <1>3, <2>1
        <3> HIDE DEF xs, o
        <3> QED
            BY <1>3, <2>1, <3>1, HandlerOk
    <2>2. CASE loop \in Fast
        <3>1. xs = Quiet
            BY <2>2 DEF Fast
        <3>2. xs = [t \in T |-> xs[t]]
            BY <3>1 DEF Quiet
        <3> HIDE DEF xs
        <3> QED
            BY <1>1, <2>2, <3>1, <3>2, FastOk
    <2> QED
        BY <1>1, <2>1, <2>2
<1> HIDE DEF xs
<1>6. \A t \in T : xs[t] \in TracerType
    BY <1>5 DEF Recorded
<1>7. CASE loop = "slow" /\ AllComplete(xs)
    <2>1. \A t \in T : Same(xs[t], tracers'[t])
        BY <1>2, <1>6, <1>7, SameRefl
    <2> QED
        BY <1>1, <1>2, <1>4, <1>5, <1>7, <2>1, RetireStep DEF Fast
<1>8. CASE ~(loop = "slow" /\ AllComplete(xs))
    <2>1. /\ executed' = executed + 1 /\ tracers' = [t \in T |-> tracers'[t]]
          /\ \A t \in T : Same(xs[t], tracers'[t])
        BY <1>2, <1>6, <1>8, IncrStep DEF Inv
    <2> QED
        BY <1>1, <1>2, <1>4, <1>5, <1>8, <2>1, RetireStep DEF Fast
<1> QED
    BY <1>7, <1>8

\* An instruction record with these fields.
InsnOf(k, p, n, v, m) ==
    [kind : {k}, pc : {p}, npc : {n}, taken : BOOLEAN, priv : {v}, ppn : {m}]

\* The fields of what the loop gives to the tracers.
LEMMA GivenIn ==
    /\ Given(Handler, FALSE) \in InsnOf(Kind, pc, Handler, PrivOf(pc), SatpNow)
    /\ Given(Handler, FALSE).taken = FALSE
BY DEF Given, InsnOf

\* The handler has an address.
LEMMA HandlerPc == Handler \in Nat \ {0}
BY StfTracerAssumption DEF Pcs

\* An interrupt, between two rounds.
LEMMA InterruptStep == ASSUME Inv, take_interrupt PROVE Inv'
<1> DEFINE i == [Given(Handler, FALSE) EXCEPT !.kind = "nop", !.ppn = satp,
                                              !.priv = last_inst_priv]
<1>1. /\ loop = "top" /\ PrivOf(pc) = "U" /\ handler_trace_event(i)
      /\ epc' = pc /\ pc' = Handler /\ expected' = AnySet
      /\ UNCHANGED <<conf, executed, satp, last_inst_priv, retired, open>>
    BY DEF take_interrupt
<1>2. /\ i.pc = pc /\ i.npc = Handler /\ i.taken = FALSE /\ i.ppn = satp
      /\ i.kind = "nop" /\ i.priv = last_inst_priv /\ i = [i EXCEPT !.taken = FALSE]
    <2> DEFINE g == Given(Handler, FALSE)
    <2>1. i \in InsnOf("nop", pc, Handler, last_inst_priv, satp) /\ i.taken = FALSE
        <3>1. g \in InsnOf(Kind, pc, Handler, PrivOf(pc), SatpNow) /\ g.taken = FALSE
            BY GivenIn
        <3>2. i = [g EXCEPT !.kind = "nop", !.ppn = satp, !.priv = last_inst_priv]
            OBVIOUS
        <3> HIDE DEF g, i
        <3> QED
            BY <3>1, <3>2 DEF InsnOf
    <2> HIDE DEF i
    <2> QED
        BY <2>1 DEF InsnOf
<1> HIDE DEF i
<1>3. GivenType(i) /\ epc' \in Nat \ {0} /\ last_inst_priv' \in {"U", "S"}
    <2>1. pc \in Nat \ {0} /\ satp \in Procs /\ last_inst_priv \in {"U", "S"}
        BY DEF Inv, StfType
    <2> QED
        BY <1>1, <1>2, <2>1, HandlerPc DEF GivenType
<1>4. ASSUME NEW t \in T PROVE At(conf[t], tracers[t], i)
    <2>1. Follows(conf[t], tracers[t])
        BY <1>1 DEF Inv, TracersOk, TracerOk
    <2> QED
        BY <1>1, <1>2, <2>1 DEF At, Follows
<1> QED
    BY <1>1, <1>2, <1>3, <1>4, EventStep

\* A trap of an instruction: in the slow loop, or in no region.
LEMMA TrapStep == ASSUME Inv, trap PROVE Inv'
<1> DEFINE i == [Given(Handler, FALSE) EXCEPT !.priv = last_inst_priv']
<1>1. /\ Fetched /\ Kind \in {"ecall", "mem"} /\ StashPriv /\ handler_trace_event(i)
      /\ epc' = (IF Kind = "ecall" THEN pc + 1 ELSE pc) /\ pc' = Handler /\ expected' = AnySet
      /\ UNCHANGED <<conf, executed, satp, retired, open>>
    BY DEF trap
<1>2. /\ i.pc = pc /\ i.npc = Handler /\ i.taken = FALSE /\ i.ppn = satp
      /\ i.kind = Kind /\ i.priv = last_inst_priv' /\ i = [i EXCEPT !.taken = FALSE]
    <2> DEFINE g == Given(Handler, FALSE)
    <2>1. i \in InsnOf(Kind, pc, Handler, last_inst_priv', SatpNow) /\ i.taken = FALSE
        <3>1. g \in InsnOf(Kind, pc, Handler, PrivOf(pc), SatpNow) /\ g.taken = FALSE
            BY GivenIn
        <3>2. i = [g EXCEPT !.priv = last_inst_priv']
            OBVIOUS
        <3> HIDE DEF g, i
        <3> QED
            BY <3>1, <3>2 DEF InsnOf
    <2>2. SatpNow = satp
        BY <1>1 DEF SatpNow
    <2> HIDE DEF i
    <2> QED
        BY <2>1, <2>2 DEF InsnOf
<1> HIDE DEF i
<1>3. last_inst_priv' \in {"U", "S"} /\ loop \in Fast \cup {"slow"}
    BY <1>1, StashOk DEF Inv, Fetched, Fast
<1>4. GivenType(i) /\ epc' \in Nat \ {0}
    <2>1. pc \in Nat \ {0} /\ pc + 1 \in Nat \ {0} /\ satp \in Procs
        BY DEF Inv, StfType
    <2> QED
        BY <1>1, <1>2, <2>1, HandlerPc DEF GivenType
<1>5. ASSUME NEW t \in T PROVE At(conf[t], tracers[t], i)
    <2>1. InRegion(conf[t], tracers[t]) /\ Follows(conf[t], tracers[t])
        BY <1>3 DEF Inv, TracersOk, TracerOk, Fast
    <2>2. CASE loop \in Fast
        BY <2>1, <2>2 DEF At, InRegion
    <2>3. CASE loop = "slow"
        <3>1. i.priv = PrivOf(pc) /\ PrivOf(pc) \in {"U", "S"}
            BY <1>1, <1>2, <2>3 DEF StashPriv, PrivOf
        <3> QED
            BY <1>2, <2>1, <3>1 DEF At, Follows
    <2> QED
        BY <1>3, <2>2, <2>3
<1> QED
    BY <1>1, <1>2, <1>3, <1>4, <1>5, EventStep DEF Fast

-----------------------------------------------------------------------------
(* The theorems                                                            *)

\* At reset no tracer has begun.
LEMMA StfInit == Init /\ ExitAlone => Inv
<1> SUFFICES ASSUME Init, ExitAlone PROVE Inv
    OBVIOUS
<1>1. /\ executed = 0 /\ retired = 0 /\ loop = "top" /\ pc = 1 /\ epc = 1 /\ satp = "A"
      /\ last_inst_priv = "U" /\ open = FALSE /\ expected = AnySet /\ conf \in Configs
    BY DEF Init
<1>2. ASSUME NEW t \in T
      PROVE  /\ tracers[t] \in TracerType /\ tracers[t].read = tracers[t].wrote
             /\ ~tracers[t].inreg /\ ~tracers[t].complete
    BY DEF Init, TracerType
<1>3. StfType
    <2>1. tracers \in [T -> TracerType]
        BY <1>2 DEF Init
    <2> QED
        <3>1. /\ executed \in Nat /\ retired \in Nat /\ pc \in Nat \ {0} /\ epc \in Nat \ {0}
            BY <1>1
        <3>2. open \in BOOLEAN
            BY <1>1
        <3>3. loop \in Fast \cup {"top", "slow", "over"} /\ satp \in Procs
            BY <1>1 DEF Procs
        <3> QED
            BY <1>1, <2>1, <3>1, <3>2, <3>3 DEF StfType
<1>4. ASSUME NEW t \in T PROVE TracerOk(conf[t], tracers[t])
    <2>1. ConfType(conf[t])
        BY <1>3, QuietOk
    <2> QED
        BY <1>1, <1>2, <2>1 DEF TracerOk, InRegion, Follows, ConfType
<1> QED
    BY <1>1, <1>2, <1>3, <1>4 DEF Inv, PcReconstructed, TraceExact, TracersOk

\* Every step keeps the invariant.
LEMMA StfStep == Inv /\ [Next]_vars => Inv'
<1> SUFFICES ASSUME Inv, [Next]_vars PROVE Inv'
    OBVIOUS
<1>1. CASE UNCHANGED vars
    BY <1>1 DEF Inv, vars, hartVars, history, StfType, T, ExitAlone, PcReconstructed, TraceExact,
                TracersOk, TracerOk, InRegion, Follows
<1>2. CASE Next
    BY <1>2, RoundStep, InterruptStep, LeaveStep, SerializeStep, SlowStep, FastStep, WfiStep,
       TrapStep DEF Next
<1> QED
    BY <1>1, <1>2

\* The invariant of tracers, handler and loop holds in every run of a command
\* line on which a tracer that exits at a STOP is the only one.
THEOREM StfInvariant == Spec /\ ExitAlone => []Inv
BY StfInit, StfStep, PTL DEF Spec

\* A reader of the trace gives every record its true pc, for every program,
\* any number of tracers and every filter (StfTracer::trace_element,
\* force_pc_record, trace_event).
THEOREM StfPcReconstructed == Spec /\ ExitAlone => []PcReconstructed
<1>1. Inv => PcReconstructed
    BY DEF Inv
<1> QED
    BY <1>1, StfInvariant, PTL

\* Every instruction has a record in exactly the traces that want it, however
\* the execute loop changes between its fast and its slow form
\* (StfHandler::trace_insn, the region tests in processor_t::step).
THEOREM StfTraceExact == Spec /\ ExitAlone => []TraceExact
<1>1. Inv => TraceExact
    BY DEF Inv
<1> QED
    BY <1>1, StfInvariant, PTL

-----------------------------------------------------------------------------
(* The basic block vector tracer of riscv/bb_tracer.cc, the other tracer   *)
(* that the loop calls: its track lines are exact for every size of an     *)
(* interval, every program and across a checkpoint.                        *)

-----------------------------------------------------------------------------
(* The inductive invariant                                                 *)

\* A warmup window that begins after the first and ends before the last
\* instruction of an interval: log_simpoint_tracks tests the end and the start
\* of the interval first, and a window of one instruction or of a whole
\* interval, or more, is never recorded.
WarmupFits == WarmupSize = 0 \/ WarmupSize \in 2 .. SimpointSize - 1

Track == [warmup : Int, start : Int, end : Int]
Stops == {"no", "max", "terminated", "abort"}

Fields == {"ninst", "next_bbv_dump", "simpoint_roi", "terminate", "last_pc", "en_pc",
           "total_insn_in_roi", "instr_cnt", "bbv", "lines", "tracks", "start", "warmup",
           "next_warmup", "stop"}

BbType(b) ==
    /\ DOMAIN b = Fields
    /\ b.simpoint_roi \in BOOLEAN /\ b.terminate \in BOOLEAN /\ b.stop \in Stops
    /\ b.next_bbv_dump \in Nat /\ b.total_insn_in_roi \in Nat /\ b.instr_cnt \in Nat
    /\ b.tracks \in Seq(Track)
    /\ b.start \in Int /\ b.warmup \in Int /\ b.next_warmup \in Int

\* The last instruction of interval k.
End(k) == k * SimpointSize

\* The lines of the intervals up to interval c of the region with the
\* instructions s.
Lines(b, s, c) ==
    /\ Len(b.tracks) = IF c > StartInterval THEN c - StartInterval ELSE 0
    /\ \A i \in 1 .. Len(b.tracks) :
          LET k == i + StartInterval
          IN  /\ b.tracks[i].start = s[End(k - 1) + 1]
              /\ b.tracks[i].end = s[End(k)]
              /\ WarmupSize > 0 /\ k > 1 =>
                    b.tracks[i].warmup = s[End(k - 1) + 1 - WarmupSize]

\* In interval j, after the instructions s of the region: the counters agree,
\* and the tracks that the line of this interval will need are recorded.
Within(b, s, j) ==
    /\ End(j - 1) <= Len(s) /\ Len(s) <= End(j) /\ (j = 1 \/ End(j - 1) < Len(s))
    /\ b.next_bbv_dump = End(j) + 1
    /\ b.total_insn_in_roi = Len(s) /\ b.instr_cnt = Len(s)
    /\ Len(s) > 0 => b.start = s[End(j - 1) + 1]
    /\ WarmupSize > 0 =>
          /\ Len(s) >= End(j) + 1 - WarmupSize =>
                /\ b.next_warmup = s[End(j) + 1 - WarmupSize]
                /\ j > 1 => b.warmup = s[End(j - 1) + 1 - WarmupSize]
          /\ Len(s) < End(j) + 1 - WarmupSize /\ j > 1 =>
                b.next_warmup = s[End(j - 1) + 1 - WarmupSize]
    /\ Lines(b, s, IF Len(s) = End(j) THEN j ELSE j - 1)

\* The tracer in its first region, ready for the next instruction.
Region(b, s) ==
    /\ b.simpoint_roi = TRUE /\ b.en_pc = EnPc
    /\ Len(s) = 0 => b.last_pc = EnPc
    /\ Len(s) > 0 => b.last_pc \in Addrs
    /\ \E j \in Nat \ {0} : Within(b, s, j)

\* Every interval that is complete has its line.
Exact(b, s) ==
    \E c \in Nat : End(c) <= Len(s) /\ Len(s) < End(c) + SimpointSize /\ Lines(b, s, c)

\* What holds of a tracer after st starts of a region, of the present one and
\* of the one in a checkpoint.
Sound(b, s, st) ==
    /\ BbType(b) /\ s \in Seq(Int) /\ st \in Nat
    /\ b.simpoint_roi => st > 0
    /\ st = 0 => /\ b.last_pc = 0 /\ b.en_pc = 0 /\ b.total_insn_in_roi = 0
                 /\ b.instr_cnt = 0 /\ b.next_bbv_dump = SimpointSize + 1
                 /\ b.tracks = <<>> /\ s = <<>>
    /\ st = 1 /\ b.stop # "abort" => Exact(b, s)
    /\ st = 1 /\ b.simpoint_roi /\ b.stop = "no" => Region(b, s)

BbInv ==
    /\ Sound(bb, seen, started) /\ insns \in Nat
    /\ saved # NoCheckpoint =>
          /\ Sound(saved[1].bb, saved[1].seen, saved[1].started)
          /\ saved[1].executed \in Nat

-----------------------------------------------------------------------------
(* Intervals                                                               *)

\* An interval has at least two instructions.
LEMMA Sizes ==
    /\ SimpointSize \in Nat /\ SimpointSize >= 2
    /\ WarmupSize \in Nat /\ StartInterval \in Nat
  BY BbTracerAssumption

\* Intervals follow each other.
LEMMA EndNext ==
    ASSUME NEW k \in Int PROVE End(k) \in Int /\ End(k + 1) = End(k) + SimpointSize
<1>s. /\ SimpointSize \in Nat /\ SimpointSize >= 2
      /\ WarmupSize \in Nat /\ StartInterval \in Nat
  BY Sizes
<1> DEFINE S == SimpointSize
<1>1. S \in Int
  BY <1>s
<1> HIDE DEF S
<1>2. (k + 1) * S = (k * S) + S /\ k * S \in Int
  BY <1>1
<1> QED BY <1>2 DEF End, S

\* The last instruction of an earlier interval is at least one interval away.
LEMMA EndOrder ==
    ASSUME NEW k \in Int, NEW l \in Int, k < l PROVE End(k) + SimpointSize <= End(l)
<1>s. /\ SimpointSize \in Nat /\ SimpointSize >= 2
      /\ WarmupSize \in Nat /\ StartInterval \in Nat
  BY Sizes
<1> DEFINE S == SimpointSize
<1>1. S \in Nat /\ l - k - 1 \in Nat
  BY <1>s
<1> HIDE DEF S
<1>2. (l - k - 1) * S \in Nat
  BY <1>1
<1>3. (l - k - 1) * S = (l * S) - (k * S) - S
  BY <1>1
<1>4. l * S \in Int /\ k * S \in Int
  BY <1>1
<1> QED BY <1>1, <1>2, <1>3, <1>4 DEF End, S

LEMMA EndZero == End(0) = 0
  BY Sizes DEF End

\* The number of complete intervals.
LEMMA Complete ==
    ASSUME NEW k \in Nat, NEW m \in Nat, End(k) <= m, m < End(k) + SimpointSize
    PROVE  m \div SimpointSize = k
<1>s. /\ SimpointSize \in Nat /\ SimpointSize >= 2
      /\ WarmupSize \in Nat /\ StartInterval \in Nat
  BY Sizes
<1> DEFINE S == SimpointSize
           q == m \div S
<1>1. S \in Nat /\ S > 0
  BY <1>s
<1>2. q \in Int /\ q * S <= m /\ m < (q * S) + S
  BY <1>1
<1>3. End(q) = q * S /\ End(q) \in Int /\ End(k) \in Int
  BY <1>2, EndNext DEF End
<1> HIDE DEF S, q
<1>4. ~(q < k)
  <2> SUFFICES ASSUME q < k PROVE FALSE
    OBVIOUS
  <2>1. End(q) + SimpointSize <= End(k)
    BY <1>2, EndOrder
  <2> QED BY <1>1, <1>2, <1>3, <2>1 DEF S
<1>5. ~(k < q)
  <2> SUFFICES ASSUME k < q PROVE FALSE
    OBVIOUS
  <2>1. End(k) + SimpointSize <= End(q)
    BY <1>2, EndOrder
  <2> QED BY <1>1, <1>2, <1>3, <2>1 DEF S
<1>6. q = k
  BY <1>2, <1>4, <1>5
<1> QED BY <1>6 DEF q, S

-----------------------------------------------------------------------------
(* The methods of the tracer                                               *)

\* Closing a block and counting do not touch the tracks.
LEMMA CaptureFields ==
    ASSUME NEW b, BbType(b), NEW p
    PROVE  LET f == capture_basic_block(b, p)
           IN  /\ BbType(f) /\ f.simpoint_roi = b.simpoint_roi /\ f.stop = b.stop
               /\ f.last_pc = b.last_pc /\ f.en_pc = b.en_pc /\ f.terminate = b.terminate
               /\ f.total_insn_in_roi = b.total_insn_in_roi /\ f.instr_cnt = b.instr_cnt
               /\ f.next_bbv_dump = b.next_bbv_dump /\ f.tracks = b.tracks
               /\ f.start = b.start /\ f.warmup = b.warmup /\ f.next_warmup = b.next_warmup
<1> DEFINE x == [q \in DOMAIN b.bbv \cup {b.last_pc} |->
                   (IF q \in DOMAIN b.bbv THEN b.bbv[q] ELSE 0) +
                   IF q = b.last_pc THEN b.ninst ELSE 0]
<1>1. \/ capture_basic_block(b, p) = b
      \/ capture_basic_block(b, p) = [b EXCEPT !.bbv = x, !.ninst = 0]
  BY DEF capture_basic_block
<1> HIDE DEF x
<1> QED BY <1>1 DEF BbType, Fields

LEMMA CountFields ==
    ASSUME NEW b, BbType(b)
    PROVE  LET f == Count(b)
           IN  /\ BbType(f) /\ f.simpoint_roi = b.simpoint_roi /\ f.stop = b.stop
               /\ f.last_pc = b.last_pc /\ f.en_pc = b.en_pc /\ f.terminate = b.terminate
               /\ f.total_insn_in_roi = b.total_insn_in_roi + 1 /\ f.instr_cnt = b.instr_cnt
               /\ f.next_bbv_dump = b.next_bbv_dump /\ f.tracks = b.tracks
               /\ f.start = b.start /\ f.warmup = b.warmup /\ f.next_warmup = b.next_warmup
<1> DEFINE x == b.ninst + 1
           t == b.total_insn_in_roi + 1
<1>1. Count(b) = [b EXCEPT !.total_insn_in_roi = t, !.ninst = x]
  BY DEF Count
<1>2. t \in Nat
  BY DEF BbType
<1> HIDE DEF x, t
<1>3. /\ BbType(Count(b)) /\ Count(b).total_insn_in_roi = t
      /\ Count(b).simpoint_roi = b.simpoint_roi /\ Count(b).stop = b.stop
      /\ Count(b).last_pc = b.last_pc /\ Count(b).en_pc = b.en_pc
      /\ Count(b).terminate = b.terminate
      /\ Count(b).instr_cnt = b.instr_cnt
      /\ Count(b).next_bbv_dump = b.next_bbv_dump /\ Count(b).tracks = b.tracks
      /\ Count(b).start = b.start /\ Count(b).warmup = b.warmup
      /\ Count(b).next_warmup = b.next_warmup
  BY <1>1, <1>2 DEF BbType, Fields
<1> QED BY <1>3 DEF t

\* The flush moves the limit by one interval once instr_cnt has reached it,
\* and only then may it end the run.
LEMMA FlushFields ==
    ASSUME NEW b, BbType(b)
    PROVE  LET f == flush_bb_vector(b)
           IN  /\ BbType(f) /\ f.simpoint_roi = b.simpoint_roi
               /\ f.last_pc = b.last_pc /\ f.en_pc = b.en_pc /\ f.terminate = b.terminate
               /\ f.total_insn_in_roi = b.total_insn_in_roi /\ f.tracks = b.tracks
               /\ f.start = b.start /\ f.warmup = b.warmup /\ f.next_warmup = b.next_warmup
               /\ f.instr_cnt = b.instr_cnt + 1
               /\ f.next_bbv_dump = IF b.instr_cnt + 1 < b.next_bbv_dump THEN b.next_bbv_dump
                                    ELSE b.next_bbv_dump + SimpointSize
               /\ \/ f.stop = b.stop
                  \/ f.stop = "max" /\ ~(b.instr_cnt + 1 < b.next_bbv_dump)
<1>s. /\ SimpointSize \in Nat /\ SimpointSize >= 2
      /\ WarmupSize \in Nat /\ StartInterval \in Nat
  BY Sizes
<1> DEFINE n == b.instr_cnt + 1
           c == [b EXCEPT !.instr_cnt = n]
<1>1. n \in Nat
  BY DEF BbType
<1> HIDE DEF n
<1>2. /\ BbType(c) /\ c.instr_cnt = n /\ c.simpoint_roi = b.simpoint_roi /\ c.stop = b.stop
      /\ c.last_pc = b.last_pc /\ c.en_pc = b.en_pc /\ c.terminate = b.terminate
      /\ c.total_insn_in_roi = b.total_insn_in_roi
      /\ c.next_bbv_dump = b.next_bbv_dump /\ c.tracks = b.tracks
      /\ c.start = b.start /\ c.warmup = b.warmup /\ c.next_warmup = b.next_warmup
  BY <1>1 DEF BbType, Fields
<1>3. c = [b EXCEPT !.instr_cnt = @ + 1]
  BY DEF n
<1> HIDE DEF c
<1> DEFINE d == c.next_bbv_dump + SimpointSize
           l == IF (IF Skipped(c) THEN EmptyBbv ELSE c.bbv) = EmptyBbv THEN c.lines
                ELSE Append(c.lines, IF Skipped(c) THEN EmptyBbv ELSE c.bbv)
           s == IF /\ MaxIntervals > 0
                   /\ c.total_insn_in_roi >= (StartInterval + MaxIntervals) * SimpointSize
                THEN "max" ELSE c.stop
<1>4. flush_bb_vector(b) =
         IF c.instr_cnt < c.next_bbv_dump THEN c
         ELSE [c EXCEPT !.next_bbv_dump = d, !.bbv = EmptyBbv, !.lines = l, !.stop = s]
  BY <1>3 DEF flush_bb_vector
<1>5. d \in Nat /\ s \in {"max", c.stop} /\ s \in Stops
  BY <1>2, <1>s DEF BbType, Stops
<1>6. d = b.next_bbv_dump + SimpointSize
  BY <1>2
<1> HIDE DEF d, l, s
<1>7. CASE c.instr_cnt < c.next_bbv_dump
  BY <1>2, <1>4, <1>7 DEF n
<1>8. CASE ~(c.instr_cnt < c.next_bbv_dump)
  <2> DEFINE f == [c EXCEPT !.next_bbv_dump = d, !.bbv = EmptyBbv, !.lines = l, !.stop = s]
  <2>1. /\ BbType(f) /\ f.instr_cnt = c.instr_cnt /\ f.simpoint_roi = c.simpoint_roi
        /\ f.stop = s
        /\ f.last_pc = c.last_pc /\ f.en_pc = c.en_pc /\ f.terminate = c.terminate
        /\ f.total_insn_in_roi = c.total_insn_in_roi
        /\ f.next_bbv_dump = d /\ f.tracks = c.tracks
        /\ f.start = c.start /\ f.warmup = c.warmup /\ f.next_warmup = c.next_warmup
    BY <1>2, <1>5 DEF BbType, Fields
  <2>2. flush_bb_vector(b) = f
    BY <1>4, <1>8
  <2> HIDE DEF f
  <2> QED BY <1>2, <1>5, <1>6, <1>8, <2>1, <2>2 DEF n
<1> QED BY <1>7, <1>8

\* One of the three tracks is recorded, or none.
LEMMA LogFields ==
    ASSUME NEW b, BbType(b), insns \in Nat
    PROVE  LET f == log_simpoint_tracks(b)
               atEnd   == b.total_insn_in_roi = b.next_bbv_dump - 1
               atStart == ~atEnd /\ b.total_insn_in_roi = b.next_bbv_dump - SimpointSize
               atWarm  == ~atEnd /\ ~atStart /\ b.next_bbv_dump - b.total_insn_in_roi = WarmupSize
           IN  /\ BbType(f) /\ f.simpoint_roi = b.simpoint_roi /\ f.stop = b.stop
               /\ f.last_pc = b.last_pc /\ f.en_pc = b.en_pc /\ f.terminate = b.terminate
               /\ f.total_insn_in_roi = b.total_insn_in_roi /\ f.instr_cnt = b.instr_cnt
               /\ f.next_bbv_dump = b.next_bbv_dump
               /\ f.tracks = IF atEnd /\ ~Skipped(b)
                             THEN Append(b.tracks, [warmup |-> b.warmup, start |-> b.start,
                                                    end |-> insns])
                             ELSE b.tracks
               /\ f.start = IF atStart THEN insns ELSE b.start
               /\ f.warmup = IF atWarm THEN b.next_warmup ELSE b.warmup
               /\ f.next_warmup = IF atWarm THEN insns ELSE b.next_warmup
<1> DEFINE atEnd   == b.total_insn_in_roi = b.next_bbv_dump - 1
           atStart == ~atEnd /\ b.total_insn_in_roi = b.next_bbv_dump - SimpointSize
           atWarm  == ~atEnd /\ ~atStart /\ b.next_bbv_dump - b.total_insn_in_roi = WarmupSize
           l == Append(b.tracks, [warmup |-> b.warmup, start |-> b.start, end |-> insns])
           w == b.next_warmup
<1>1. log_simpoint_tracks(b) =
         IF atEnd THEN IF Skipped(b) THEN b ELSE [b EXCEPT !.tracks = l]
         ELSE IF atStart THEN [b EXCEPT !.start = insns]
         ELSE IF atWarm THEN [b EXCEPT !.warmup = w, !.next_warmup = insns] ELSE b
  BY DEF log_simpoint_tracks, log_simpoint_end_insn_track
<1>2. l \in Seq(Track) /\ w \in Int
  <2>1. [warmup |-> b.warmup, start |-> b.start, end |-> insns] \in Track
    BY DEF BbType, Track
  <2> QED BY <2>1 DEF BbType
<1> HIDE DEF atEnd, atStart, atWarm, l, w
<1>3. ~(atEnd /\ atStart) /\ ~(atEnd /\ atWarm) /\ ~(atStart /\ atWarm)
  BY DEF atEnd, atStart, atWarm
<1>4. LET f == log_simpoint_tracks(b)
      IN  /\ BbType(f) /\ f.simpoint_roi = b.simpoint_roi /\ f.stop = b.stop
          /\ f.last_pc = b.last_pc /\ f.en_pc = b.en_pc /\ f.terminate = b.terminate
          /\ f.total_insn_in_roi = b.total_insn_in_roi /\ f.instr_cnt = b.instr_cnt
          /\ f.next_bbv_dump = b.next_bbv_dump
          /\ f.tracks = IF atEnd /\ ~Skipped(b) THEN l ELSE b.tracks
          /\ f.start = IF atStart THEN insns ELSE b.start
          /\ f.warmup = IF atWarm THEN w ELSE b.warmup
          /\ f.next_warmup = IF atWarm THEN insns ELSE b.next_warmup
  <2>1. CASE atEnd /\ Skipped(b)
    BY <1>1, <1>3, <2>1
  <2>2. CASE atEnd /\ ~Skipped(b)
    BY <1>1, <1>2, <1>3, <2>2 DEF BbType, Fields
  <2>3. CASE atStart
    BY <1>1, <1>3, <2>3 DEF BbType, Fields
  <2>4. CASE atWarm
    BY <1>1, <1>2, <1>3, <2>4 DEF BbType, Fields
  <2>5. CASE ~atEnd /\ ~atStart /\ ~atWarm
    BY <1>1, <2>5
  <2> QED BY <2>1, <2>2, <2>3, <2>4, <2>5
<1> QED BY <1>4 DEF atEnd, atStart, atWarm, l, w

-----------------------------------------------------------------------------
(* One more instruction of the region                                      *)

\* The instructions of interval j are End(j - 1) + 1 .. End(j).
LEMMA Around ==
    ASSUME NEW j \in Nat \ {0}
    PROVE  /\ End(j) \in Nat /\ End(j - 1) \in Nat /\ End(j) = End(j - 1) + SimpointSize
           /\ j > 1 => End(j - 1) >= SimpointSize
<1>s. /\ SimpointSize \in Nat /\ SimpointSize >= 2
      /\ WarmupSize \in Nat /\ StartInterval \in Nat
  BY Sizes
<1>1. j - 1 \in Nat /\ (j - 1) + 1 = j
  OBVIOUS
<1>2. End(j - 1) \in Int /\ End(j) = End(j - 1) + SimpointSize
  BY <1>1, EndNext
<1>3. j > 1 => End(0) + SimpointSize <= End(j - 1)
  BY <1>1, EndOrder
<1>4. j = 1 => End(j - 1) = 0
  BY EndZero
<1> QED BY <1>1, <1>2, <1>3, <1>4, EndZero, <1>s

\* The positions that the line of interval k names, c intervals being over.
LEMMA Named ==
    ASSUME NEW c \in Nat, NEW k \in 1 .. c
    PROVE  /\ End(k) \in 1 .. End(c) /\ End(k - 1) + 1 \in 1 .. End(c)
           /\ WarmupFits /\ k > 1 => End(k - 1) + 1 - WarmupSize \in 1 .. End(c)
<1>s. /\ SimpointSize \in Nat /\ SimpointSize >= 2
      /\ WarmupSize \in Nat /\ StartInterval \in Nat
  BY Sizes
<1>1. /\ End(k) \in Int /\ End(k - 1) \in Int /\ End(c) \in Int
      /\ End(k) = End(k - 1) + SimpointSize
  BY EndNext
<1>2. End(k) <= End(c)
  BY <1>1, EndOrder, <1>s
<1>3. End(k - 1) >= 0
  BY <1>1, EndOrder, EndZero, <1>s
<1>4. k > 1 => End(k - 1) >= SimpointSize
  BY <1>1, EndOrder, EndZero, <1>s
<1> QED BY <1>1, <1>2, <1>3, <1>4, <1>s DEF WarmupFits

\* A further instruction changes none of the lines.
LEMMA LinesStay ==
    ASSUME WarmupFits, NEW b, NEW f, NEW s \in Seq(Int), NEW x \in Int, NEW c \in Nat,
           End(c) <= Len(s), Lines(b, s, c), f.tracks = b.tracks
    PROVE  Lines(f, Append(s, x), c)
<1>s. /\ SimpointSize \in Nat /\ SimpointSize >= 2
      /\ WarmupSize \in Nat /\ StartInterval \in Nat
  BY Sizes
<1> DEFINE t == Append(s, x)
<1>1. /\ Len(t) = Len(s) + 1 /\ t \in Seq(Int)
      /\ \A p \in 1 .. Len(s) : t[p] = s[p]
  OBVIOUS
<1> HIDE DEF t
<1>2. ASSUME NEW i \in 1 .. Len(b.tracks)
      PROVE  LET k == i + StartInterval
             IN  /\ b.tracks[i].start = t[End(k - 1) + 1]
                 /\ b.tracks[i].end = t[End(k)]
                 /\ WarmupSize > 0 /\ k > 1 =>
                       b.tracks[i].warmup = t[End(k - 1) + 1 - WarmupSize]
  <2> DEFINE k == i + StartInterval
  <2>1. k \in 1 .. c
    <3>1. Len(b.tracks) = IF c > StartInterval THEN c - StartInterval ELSE 0
      BY DEF Lines
    <3>2. Len(b.tracks) \in Int /\ i \in Int /\ 1 <= i /\ i <= Len(b.tracks)
      BY <3>1, <1>s
    <3> QED BY <3>1, <3>2, <1>s
  <2>2. /\ b.tracks[i].start = s[End(k - 1) + 1]
        /\ b.tracks[i].end = s[End(k)]
        /\ WarmupSize > 0 /\ k > 1 => b.tracks[i].warmup = s[End(k - 1) + 1 - WarmupSize]
    BY DEF Lines
  <2>3. End(c) \in Int
    BY EndNext
  <2> HIDE DEF k
  <2>4. /\ End(k) \in 1 .. Len(s) /\ End(k - 1) + 1 \in 1 .. Len(s)
        /\ k > 1 => End(k - 1) + 1 - WarmupSize \in 1 .. Len(s)
    <3>1. /\ End(k) \in 1 .. End(c) /\ End(k - 1) + 1 \in 1 .. End(c)
          /\ k > 1 => End(k - 1) + 1 - WarmupSize \in 1 .. End(c)
      BY <2>1, Named
    <3>2. \A p \in 1 .. End(c) : p \in 1 .. Len(s)
      BY <2>3
    <3> QED BY <3>1, <3>2
  <2>5. /\ b.tracks[i].start = t[End(k - 1) + 1]
        /\ b.tracks[i].end = t[End(k)]
        /\ WarmupSize > 0 /\ k > 1 => b.tracks[i].warmup = t[End(k - 1) + 1 - WarmupSize]
    BY <1>1, <2>2, <2>4
  <2> QED BY <2>5 DEF k
<1> QED BY <1>2 DEF Lines, t

\* The line of the interval that is now complete.
LEMMA LinesMore ==
    ASSUME NEW b, b.tracks \in Seq(Track), NEW f, NEW s \in Seq(Int), NEW j \in Nat \ {0},
           Lines(b, s, j - 1), j > StartInterval,
           NEW r \in Track, f.tracks = Append(b.tracks, r),
           r.start = s[End(j - 1) + 1], r.end = s[End(j)],
           WarmupSize > 0 /\ j > 1 => r.warmup = s[End(j - 1) + 1 - WarmupSize]
    PROVE  Lines(f, s, j)
<1>s. /\ SimpointSize \in Nat /\ SimpointSize >= 2
      /\ WarmupSize \in Nat /\ StartInterval \in Nat
  BY Sizes
<1>1. Len(b.tracks) = j - 1 - StartInterval
  BY <1>s DEF Lines
<1>2. /\ Len(f.tracks) = j - StartInterval
      /\ \A i \in 1 .. Len(b.tracks) : f.tracks[i] = b.tracks[i]
      /\ f.tracks[j - StartInterval] = r
  BY <1>1, <1>s
<1>3. ASSUME NEW i \in 1 .. Len(f.tracks)
      PROVE  LET k == i + StartInterval
             IN  /\ f.tracks[i].start = s[End(k - 1) + 1]
                 /\ f.tracks[i].end = s[End(k)]
                 /\ WarmupSize > 0 /\ k > 1 =>
                       f.tracks[i].warmup = s[End(k - 1) + 1 - WarmupSize]
  <2>1. CASE i = j - StartInterval
    <3>1. i + StartInterval = j
      BY <2>1, <1>s
    <3> QED BY <1>2, <2>1, <3>1
  <2>2. CASE i # j - StartInterval
    <3>1. i \in 1 .. Len(b.tracks)
      BY <1>1, <1>2, <2>2, <1>s
    <3> QED BY <1>2, <3>1 DEF Lines
  <2> QED BY <2>1, <2>2
<1> QED BY <1>2, <1>3, <1>s DEF Lines

\* Counted as instruction Len(s) + 1 of the region, in interval j, and its track
\* recorded.
LEMMA LogKeeps ==
    ASSUME WarmupFits, NEW b, BbType(b), insns \in Nat, NEW s \in Seq(Int),
           NEW j \in Nat \ {0}, End(j - 1) <= Len(s), Len(s) < End(j),
           b.next_bbv_dump = End(j) + 1,
           b.total_insn_in_roi = Len(s) + 1, b.instr_cnt = Len(s) + 1,
           Len(s) > End(j - 1) => b.start = s[End(j - 1) + 1],
           WarmupSize > 0 =>
              /\ Len(s) >= End(j) + 1 - WarmupSize =>
                    /\ b.next_warmup = s[End(j) + 1 - WarmupSize]
                    /\ j > 1 => b.warmup = s[End(j - 1) + 1 - WarmupSize]
              /\ Len(s) < End(j) + 1 - WarmupSize /\ j > 1 =>
                    b.next_warmup = s[End(j - 1) + 1 - WarmupSize],
           Lines(b, s, j - 1)
    PROVE  Within(log_simpoint_tracks(b), Append(s, insns), j)
<1>s. /\ SimpointSize \in Nat /\ SimpointSize >= 2
      /\ WarmupSize \in Nat /\ StartInterval \in Nat
  BY Sizes
<1> DEFINE f == log_simpoint_tracks(b)
           t == Append(s, insns)
           m == Len(s)
           atEnd   == m + 1 = End(j)
           atStart == m = End(j - 1)
           atWarm  == m = End(j) - WarmupSize /\ WarmupSize > 0
<1>1. /\ End(j) \in Nat /\ End(j - 1) \in Nat /\ End(j) = End(j - 1) + SimpointSize
      /\ m \in Nat
      /\ j > 1 => End(j - 1) >= SimpointSize
  <2>1. m \in Nat
    OBVIOUS
  <2> QED BY <2>1, Around
<1>2. /\ t \in Seq(Int) /\ Len(t) = m + 1 /\ t[m + 1] = insns
      /\ \A p \in 1 .. m : t[p] = s[p]
  OBVIOUS
<1>3. /\ (b.total_insn_in_roi = b.next_bbv_dump - 1) <=> atEnd
      /\ (b.total_insn_in_roi = b.next_bbv_dump - SimpointSize) <=> atStart
      /\ ~(atEnd /\ atStart)
      /\ (~atEnd /\ ~atStart /\ b.next_bbv_dump - b.total_insn_in_roi = WarmupSize) <=> atWarm
  <2>1. b.next_bbv_dump = End(j) + 1 /\ b.total_insn_in_roi = m + 1
    OBVIOUS
  <2>2. WarmupSize = 0 \/ (WarmupSize > 1 /\ WarmupSize < SimpointSize)
    BY <1>s DEF WarmupFits
  <2> HIDE DEF m
  <2>3. m < End(j) /\ End(j - 1) <= m
    BY DEF m
  <2>4. b.total_insn_in_roi = b.next_bbv_dump - 1 <=> atEnd
    BY ONLY <1>1, <2>1, <2>3, <1>s
  <2>5. b.total_insn_in_roi = b.next_bbv_dump - SimpointSize <=> atStart
    BY ONLY <1>1, <2>1, <2>3, <1>s
  <2>6. ~(atEnd /\ atStart)
    BY ONLY <1>1, <2>3, <1>s
  <2>7. b.next_bbv_dump - b.total_insn_in_roi = End(j) - m
    BY ONLY <1>1, <2>1, <2>3, <1>s
  <2>8. (~atEnd /\ ~atStart /\ End(j) - m = WarmupSize) <=> atWarm
    <3>1. End(j) - m = WarmupSize <=> m = End(j) - WarmupSize
      BY ONLY <1>1, <2>3, <1>s
    <3>2. End(j) - m = WarmupSize => WarmupSize > 1 /\ WarmupSize < SimpointSize
      BY ONLY <1>1, <2>2, <2>3, <1>s
    <3>3. End(j) - m = WarmupSize => ~atEnd /\ ~atStart
      BY ONLY <1>1, <2>3, <3>2, <1>s
    <3>4. End(j) - m = WarmupSize => WarmupSize > 0
      BY ONLY <1>1, <2>3, <1>s
    <3> QED BY ONLY <3>1, <3>3, <3>4
  <2> QED BY <2>4, <2>5, <2>6, <2>7, <2>8
<1>4. Skipped(b) <=> StartInterval > 0 /\ StartInterval >= b.total_insn_in_roi \div SimpointSize
  BY DEF Skipped
<1>5. atEnd => b.total_insn_in_roi \div SimpointSize = j
  <2> SUFFICES ASSUME atEnd PROVE (m + 1) \div SimpointSize = j
    OBVIOUS
  <2>1. m + 1 \in Nat /\ End(j) <= m + 1 /\ m + 1 < End(j) + SimpointSize
    BY <1>1, <1>s
  <2> QED BY <2>1, Complete
<1>6. atEnd => (Skipped(b) <=> ~(j > StartInterval))
  BY <1>4, <1>5, <1>s
<1> HIDE DEF f, t
<1>7. /\ f.total_insn_in_roi = m + 1 /\ f.instr_cnt = m + 1 /\ f.next_bbv_dump = End(j) + 1
      /\ f.tracks = IF atEnd /\ j > StartInterval
                    THEN Append(b.tracks, [warmup |-> b.warmup, start |-> b.start,
                                           end |-> insns])
                    ELSE b.tracks
      /\ f.start = IF atStart THEN insns ELSE b.start
      /\ f.warmup = IF atWarm THEN b.next_warmup ELSE b.warmup
      /\ f.next_warmup = IF atWarm THEN insns ELSE b.next_warmup
  <2> HIDE DEF atEnd, atStart, atWarm, m
  <2>1. /\ f.total_insn_in_roi = b.total_insn_in_roi /\ f.instr_cnt = b.instr_cnt
        /\ f.next_bbv_dump = b.next_bbv_dump
        /\ f.tracks = IF atEnd /\ ~Skipped(b)
                      THEN Append(b.tracks, [warmup |-> b.warmup, start |-> b.start,
                                             end |-> insns])
                      ELSE b.tracks
        /\ f.start = IF atStart THEN insns ELSE b.start
        /\ f.warmup = IF atWarm THEN b.next_warmup ELSE b.warmup
        /\ f.next_warmup = IF atWarm THEN insns ELSE b.next_warmup
    BY <1>3, LogFields DEF f
  <2> QED BY <1>6, <2>1 DEF m
<1>8. f.start = t[End(j - 1) + 1]
  <2>1. CASE atStart
    BY <1>2, <1>7, <2>1
  <2>2. CASE ~atStart
    <3>1. End(j - 1) + 1 \in 1 .. m /\ m > End(j - 1)
      BY <1>1, <2>2
    <3> QED BY <1>2, <1>7, <2>2, <3>1
  <2> QED BY <2>1, <2>2
<1>9. WarmupSize > 0 =>
         /\ m + 1 >= End(j) + 1 - WarmupSize =>
               /\ f.next_warmup = t[End(j) + 1 - WarmupSize]
               /\ j > 1 => f.warmup = t[End(j - 1) + 1 - WarmupSize]
         /\ m + 1 < End(j) + 1 - WarmupSize /\ j > 1 =>
               f.next_warmup = t[End(j - 1) + 1 - WarmupSize]
  <2> SUFFICES ASSUME WarmupSize > 0
               PROVE  /\ m + 1 >= End(j) + 1 - WarmupSize =>
                            /\ f.next_warmup = t[End(j) + 1 - WarmupSize]
                            /\ j > 1 => f.warmup = t[End(j - 1) + 1 - WarmupSize]
                      /\ m + 1 < End(j) + 1 - WarmupSize /\ j > 1 =>
                            f.next_warmup = t[End(j - 1) + 1 - WarmupSize]
    OBVIOUS
  <2>1. /\ End(j) + 1 - WarmupSize > End(j - 1) + 1 /\ WarmupSize \in Int
        /\ j > 1 => End(j - 1) + 1 - WarmupSize \in 1 .. m
    BY <1>1, <1>s DEF WarmupFits
  <2> DEFINE w == End(j) + 1 - WarmupSize
             v == End(j - 1) + 1 - WarmupSize
  <2>2. w \in Int /\ w > 0 /\ m \in Nat /\ (atWarm <=> m + 1 = w)
    BY <1>1, <2>1
  <2> HIDE DEF w, v
  <2>3. CASE m + 1 > w
    <3>1. ~atWarm /\ w \in 1 .. m /\ m >= w
      BY <2>2, <2>3
    <3>2. b.next_warmup = s[w] /\ (j > 1 => b.warmup = s[v])
      BY <3>1 DEF w, v
    <3>3. f.next_warmup = t[w] /\ (j > 1 => f.warmup = t[v])
      BY <1>2, <1>7, <2>1, <3>1, <3>2 DEF v
    <3>4. ~(m + 1 < w)
      BY <2>2, <2>3
    <3> QED BY <3>3, <3>4 DEF w, v
  <2>4. CASE m + 1 = w
    <3>1. atWarm /\ m < w /\ ~(m + 1 < w)
      BY <2>2, <2>4
    <3>2. j > 1 => b.next_warmup = s[v]
      BY <3>1 DEF w, v
    <3>3. f.next_warmup = t[w] /\ (j > 1 => f.warmup = t[v])
      BY <1>2, <1>7, <2>1, <2>4, <3>1, <3>2 DEF v
    <3> QED BY <3>1, <3>3 DEF w, v
  <2>5. CASE m + 1 < w
    <3>1. ~atWarm /\ m < w /\ ~(m + 1 >= w)
      BY <2>2, <2>5
    <3>2. j > 1 => b.next_warmup = s[v]
      BY <3>1 DEF w, v
    <3>3. j > 1 => f.next_warmup = t[v]
      BY <1>2, <1>7, <2>1, <3>1, <3>2 DEF v
    <3> QED BY <3>1, <3>3 DEF w, v
  <2>6. m + 1 > w \/ m + 1 = w \/ m + 1 < w
    BY <2>2
  <2> QED BY <2>3, <2>4, <2>5, <2>6
<1>10. Lines(b, t, j - 1)
  BY LinesStay DEF t
<1>11. Lines(f, t, IF m + 1 = End(j) THEN j ELSE j - 1)
  <2>1. CASE ~atEnd
    BY <1>7, <1>10, <2>1 DEF Lines
  <2>2. CASE atEnd /\ ~(j > StartInterval)
    <3>1. Lines(f, t, j - 1)
      BY <1>7, <1>10, <2>2 DEF Lines
    <3>2. Len(f.tracks) = 0
      BY <2>2, <3>1, <1>s DEF Lines
    <3> QED BY <2>2, <3>2, <1>s DEF Lines
  <2>3. CASE atEnd /\ j > StartInterval
    <3> DEFINE r == [warmup |-> b.warmup, start |-> b.start, end |-> insns]
    <3>1. r \in Track /\ b.tracks \in Seq(Track) /\ f.tracks = Append(b.tracks, r)
      BY <1>7, <2>3 DEF BbType, Track
    <3>2. ~atStart /\ ~atWarm
      <4>1. WarmupSize = 0 \/ (WarmupSize > 1 /\ WarmupSize < SimpointSize)
        BY <1>s DEF WarmupFits
      <4>2. m + 1 = End(j)
        BY <2>3
      <4> QED BY ONLY <1>1, <4>1, <4>2, <1>s
    <3>3. r.start = t[End(j - 1) + 1] /\ r.end = t[End(j)] /\ r.warmup = f.warmup
      BY <1>2, <1>7, <1>8, <2>3, <3>2
    <3>4. WarmupSize > 0 /\ j > 1 => r.warmup = t[End(j - 1) + 1 - WarmupSize]
      BY <1>1, <1>9, <2>3, <3>3, <1>s
    <3> HIDE DEF r
    <3>5. Lines(f, t, j)
      BY <1>2, <1>10, <2>3, <3>1, <3>3, <3>4, LinesMore
    <3> QED BY <2>3, <3>5
  <2> QED BY <2>1, <2>2, <2>3
<1>12. End(j - 1) <= Len(t) /\ Len(t) <= End(j) /\ End(j - 1) < Len(t)
  BY <1>1, <1>2
<1>13. Within(f, t, j)
  BY <1>2, <1>7, <1>8, <1>9, <1>11, <1>12 DEF Within
<1> QED BY <1>13 DEF f, t

\* Within an interval all earlier ones, and it if it is over, have their lines.
LEMMA WithinExact ==
    ASSUME NEW b, NEW s \in Seq(Int), NEW j \in Nat \ {0}, Within(b, s, j)
    PROVE  Exact(b, s)
<1>s. /\ SimpointSize \in Nat /\ SimpointSize >= 2
      /\ WarmupSize \in Nat /\ StartInterval \in Nat
  BY Sizes
<1>1. /\ End(j) \in Nat /\ End(j - 1) \in Nat /\ End(j) = End(j - 1) + SimpointSize
      /\ Len(s) \in Nat /\ j - 1 \in Nat
  BY Around
<1>2. CASE Len(s) = End(j)
  <2>1. Lines(b, s, j)
    BY <1>2 DEF Within
  <2> QED BY <1>1, <1>2, <2>1, <1>s DEF Exact
<1>3. CASE Len(s) # End(j)
  <2>1. Lines(b, s, j - 1) /\ End(j - 1) <= Len(s) /\ Len(s) <= End(j)
    BY <1>3 DEF Within
  <2> QED BY <1>1, <1>3, <2>1, <1>s DEF Exact
<1> QED BY <1>2, <1>3

\* The last assignments of simpoint_step ...
Closed(g, e, p) ==
    \/ g = [e EXCEPT !.last_pc = p]
    \/ g = [[e EXCEPT !.last_pc = p] EXCEPT !.stop = "terminated"]

\* ... leave counters and tracks alone.
LEMMA Closing ==
    ASSUME NEW e, BbType(e), e.simpoint_roi = TRUE, e.en_pc = EnPc, e.stop = "no",
           NEW t \in Seq(Int), Len(t) > 0, NEW j \in Nat \ {0}, Within(e, t, j),
           NEW p \in Addrs, NEW g, Closed(g, e, p)
    PROVE  /\ BbType(g) /\ g.simpoint_roi = TRUE /\ g.stop # "abort" /\ Exact(g, t)
           /\ g.stop = "no" => Region(g, t)
<1> DEFINE f == [e EXCEPT !.last_pc = p]
<1>1. /\ BbType(f) /\ f.simpoint_roi = TRUE /\ f.en_pc = EnPc /\ f.stop = "no" /\ f.last_pc = p
      /\ f.total_insn_in_roi = e.total_insn_in_roi /\ f.instr_cnt = e.instr_cnt
      /\ f.next_bbv_dump = e.next_bbv_dump /\ f.tracks = e.tracks
      /\ f.start = e.start /\ f.warmup = e.warmup /\ f.next_warmup = e.next_warmup
  BY DEF BbType, Fields
<1>2. Within(f, t, j)
  BY <1>1 DEF Within, Lines
<1> HIDE DEF f
<1>3. Exact(f, t)
  BY <1>2, WithinExact
<1>4. Region(f, t)
  BY <1>1, <1>2 DEF Region
<1>5. CASE g = f
  BY <1>1, <1>3, <1>4, <1>5
<1>6. CASE g = [f EXCEPT !.stop = "terminated"]
  <2>1. /\ BbType(g) /\ g.simpoint_roi = TRUE /\ g.stop = "terminated" /\ g.tracks = f.tracks
    BY <1>1, <1>6 DEF BbType, Fields, Stops
  <2>2. Exact(g, t)
    BY <1>3, <2>1 DEF Exact, Lines
  <2> QED BY <2>1, <2>2
<1> QED BY <1>5, <1>6 DEF f, Closed

\* No instruction is at an address that stands for something else.
LEMMA Addresses == \A p \in Addrs : p # 0 /\ p # EnPc
<1> SUFFICES ASSUME NEW p \in Addrs PROVE p # 0 /\ p # EnPc
  OBVIOUS
<1>1. PICK i \in 1 .. 1000 : p = 4 * i
  BY BbTracerAssumption
<1> QED BY <1>1 DEF EnPc

\* The first instruction of the region.
LEMMA StepFirst ==
    ASSUME WarmupFits, NEW b, BbType(b), insns \in Nat, NEW s \in Seq(Int), Len(s) = 0,
           Region(b, s), b.stop = "no", NEW p \in Addrs, NEW g, g = simpoint_step(b, p)
    PROVE  /\ BbType(g) /\ g.simpoint_roi = TRUE /\ g.stop # "abort"
           /\ Exact(g, Append(s, insns))
           /\ g.stop = "no" => Region(g, Append(s, insns))
<1>s. /\ SimpointSize \in Nat /\ SimpointSize >= 2
      /\ WarmupSize \in Nat /\ StartInterval \in Nat
  BY Sizes
<1> DEFINE c == flush_bb_vector(Count(b))
           e == log_simpoint_tracks(c)
<1>1. p # EnPc /\ b.last_pc = EnPc /\ b.en_pc = EnPc /\ b.simpoint_roi = TRUE
  BY Addresses DEF Region
<1>2. PICK j \in Nat \ {0} : Within(b, s, j)
  BY DEF Region
<1>3. j = 1 /\ End(0) = 0 /\ End(1) = SimpointSize
  <2>1. End(j - 1) <= 0 /\ End(j - 1) \in Nat /\ (j > 1 => End(j - 1) >= SimpointSize)
    BY <1>2, Around DEF Within
  <2>2. j = 1
    BY <2>1, <1>s
  <2> QED BY <2>2, EndZero, Around, <1>s
<1>4. /\ b.total_insn_in_roi = 0 /\ b.instr_cnt = 0 /\ b.next_bbv_dump = SimpointSize + 1
      /\ Lines(b, s, 0)
  BY <1>2, <1>3, <1>s DEF Within
<1>5. LET d == Count(b)
      IN  /\ BbType(d) /\ d.simpoint_roi = TRUE /\ d.stop = "no"
          /\ d.last_pc = EnPc /\ d.en_pc = EnPc /\ d.terminate = b.terminate
          /\ d.total_insn_in_roi = 1 /\ d.instr_cnt = 0
          /\ d.next_bbv_dump = SimpointSize + 1 /\ d.tracks = b.tracks
  BY <1>1, <1>4, CountFields
<1>6. 0 + 1 < SimpointSize + 1
  BY <1>s
<1>7. /\ BbType(c) /\ c.simpoint_roi = TRUE /\ c.stop = "no"
      /\ c.last_pc = EnPc /\ c.en_pc = EnPc /\ c.terminate = b.terminate
      /\ c.total_insn_in_roi = 1 /\ c.instr_cnt = 1
      /\ c.next_bbv_dump = SimpointSize + 1 /\ c.tracks = b.tracks
  BY <1>5, <1>6, FlushFields
<1> HIDE DEF c
<1>8. Lines(c, s, 0)
  BY <1>4, <1>7 DEF Lines
<1>9. Within(e, Append(s, insns), j)
  <2>1. /\ End(j - 1) <= Len(s) /\ Len(s) < End(j) /\ c.next_bbv_dump = End(j) + 1
        /\ c.total_insn_in_roi = Len(s) + 1 /\ c.instr_cnt = Len(s) + 1
        /\ ~(Len(s) > End(j - 1)) /\ Lines(c, s, j - 1) /\ ~(j > 1)
    BY <1>3, <1>7, <1>8, <1>s
  <2>2. WarmupSize > 0 => ~(Len(s) >= End(j) + 1 - WarmupSize)
    BY <1>3, <1>s DEF WarmupFits
  <2> HIDE DEF e
  <2>3. Within(log_simpoint_tracks(c), Append(s, insns), j)
    BY <1>7, <2>1, <2>2, LogKeeps
  <2> QED BY <2>3 DEF e
<1>10. /\ BbType(e) /\ e.simpoint_roi = TRUE /\ e.stop = "no" /\ e.en_pc = EnPc
  BY <1>7, LogFields
<1>11. Closed(g, e, p)
  BY <1>1, <1>7 DEF simpoint_step, c, Closed
<1> HIDE DEF e
<1>12. Append(s, insns) \in Seq(Int) /\ Len(Append(s, insns)) > 0
  OBVIOUS
<1> QED BY <1>9, <1>10, <1>11, <1>12, Closing

\* A further one.  The vector of the interval before is written first, and that
\* may end the run.
LEMMA StepRegular ==
    ASSUME WarmupFits, NEW b, BbType(b), insns \in Nat, NEW s \in Seq(Int), Len(s) > 0,
           Region(b, s), b.stop = "no", NEW p \in Addrs, NEW g, g = simpoint_step(b, p)
    PROVE  /\ BbType(g) /\ g.simpoint_roi = TRUE /\ g.stop # "abort"
           /\ Exact(g, Append(s, insns))
           /\ g.stop = "no" => Region(g, Append(s, insns))
<1>s. /\ SimpointSize \in Nat /\ SimpointSize >= 2
      /\ WarmupSize \in Nat /\ StartInterval \in Nat
  BY Sizes
<1> DEFINE a == capture_basic_block(b, p)
           c == flush_bb_vector(a)
           d == Count(c)
           e == log_simpoint_tracks(d)
           t == Append(s, insns)
           m == Len(s)
<1>1. /\ p # EnPc /\ b.last_pc # EnPc /\ b.last_pc # 0
      /\ b.en_pc = EnPc /\ b.simpoint_roi = TRUE
  BY Addresses DEF Region
<1>2. PICK j \in Nat \ {0} : Within(b, s, j)
  BY DEF Region
<1>3. /\ End(j) \in Nat /\ End(j - 1) \in Nat /\ End(j) = End(j - 1) + SimpointSize
      /\ m \in Nat /\ End(j - 1) <= m /\ m <= End(j)
      /\ t \in Seq(Int) /\ Len(t) = m + 1 /\ Len(t) > 0
  <2>1. /\ m \in Nat /\ t \in Seq(Int) /\ Len(t) = m + 1 /\ Len(t) > 0
    OBVIOUS
  <2> QED BY <1>2, <2>1, Around DEF Within
<1>4. b.total_insn_in_roi = m /\ b.instr_cnt = m /\ b.next_bbv_dump = End(j) + 1
  BY <1>2 DEF Within
<1>5. /\ BbType(a) /\ a.simpoint_roi = TRUE /\ a.stop = "no"
      /\ a.last_pc = b.last_pc /\ a.en_pc = EnPc
      /\ a.total_insn_in_roi = m /\ a.instr_cnt = m
      /\ a.next_bbv_dump = End(j) + 1 /\ a.tracks = b.tracks
      /\ a.start = b.start /\ a.warmup = b.warmup /\ a.next_warmup = b.next_warmup
  BY <1>1, <1>4, CaptureFields
<1> HIDE DEF a
<1>6. /\ BbType(c) /\ c.simpoint_roi = TRUE /\ c.last_pc = b.last_pc /\ c.en_pc = EnPc
      /\ c.total_insn_in_roi = m /\ c.instr_cnt = m + 1 /\ c.tracks = b.tracks
      /\ c.start = b.start /\ c.warmup = b.warmup /\ c.next_warmup = b.next_warmup
      /\ c.next_bbv_dump = IF m + 1 < End(j) + 1 THEN End(j) + 1
                           ELSE End(j) + 1 + SimpointSize
      /\ c.stop = "no" \/ (c.stop = "max" /\ ~(m + 1 < End(j) + 1))
  BY <1>5, FlushFields
<1> HIDE DEF c
<1>7. /\ BbType(d) /\ d.simpoint_roi = TRUE /\ d.last_pc = b.last_pc /\ d.en_pc = EnPc
      /\ d.total_insn_in_roi = m + 1 /\ d.instr_cnt = m + 1 /\ d.tracks = b.tracks
      /\ d.start = b.start /\ d.warmup = b.warmup /\ d.next_warmup = b.next_warmup
      /\ d.next_bbv_dump = c.next_bbv_dump /\ d.stop = c.stop
  BY <1>6, CountFields
<1> HIDE DEF d
<1>8. c.stop = "no" => Closed(g, e, p)
  <2>1. /\ BbType(e) /\ e.simpoint_roi = TRUE /\ e.last_pc = b.last_pc /\ e.en_pc = EnPc
    BY <1>7, LogFields
  <2> HIDE DEF e
  <2>2. e = log_simpoint_tracks(Count(flush_bb_vector(capture_basic_block(b, p))))
    BY DEF e, d, c, a
  <2> QED BY <1>1, <2>1, <2>2 DEF simpoint_step, Closed, c, a
<1>9. CASE c.stop # "no"
  <2>1. g = c
    BY <1>1, <1>9 DEF simpoint_step, c, a
  <2>2. m = End(j)
    BY <1>3, <1>6, <1>9
  <2>3. Lines(b, s, j)
    BY <1>2, <2>2 DEF Within
  <2>4. Lines(c, t, j)
    BY <1>3, <1>6, <2>2, <2>3, LinesStay
  <2>5. Exact(c, t)
    BY <1>3, <2>2, <2>4, <1>s DEF Exact
  <2> QED BY <1>6, <1>9, <2>1, <2>5
<1>10. CASE c.stop = "no" /\ m < End(j)
  <2>1. c.next_bbv_dump = End(j) + 1
    BY <1>3, <1>6, <1>10
  <2>2. Lines(d, s, j - 1)
    BY <1>2, <1>3, <1>7, <1>10 DEF Within, Lines
  <2>3. /\ b.start = s[End(j - 1) + 1]
        /\ WarmupSize > 0 =>
              /\ m >= End(j) + 1 - WarmupSize =>
                    /\ b.next_warmup = s[End(j) + 1 - WarmupSize]
                    /\ j > 1 => b.warmup = s[End(j - 1) + 1 - WarmupSize]
              /\ m < End(j) + 1 - WarmupSize /\ j > 1 =>
                    b.next_warmup = s[End(j - 1) + 1 - WarmupSize]
    BY <1>2 DEF Within
  <2>4. Within(e, t, j)
    BY <1>3, <1>7, <1>10, <2>1, <2>2, <2>3, LogKeeps
  <2>5. BbType(e) /\ e.simpoint_roi = TRUE /\ e.stop = "no" /\ e.en_pc = EnPc
    BY <1>7, <1>10, LogFields
  <2> HIDE DEF e, t
  <2> QED BY <1>3, <1>8, <1>10, <2>4, <2>5, Closing DEF t
<1>11. CASE c.stop = "no" /\ ~(m < End(j))
  <2> DEFINE k == j + 1
  <2>0. k \in Nat \ {0} /\ k - 1 = j
    OBVIOUS
  <2>1. /\ m = End(j) /\ End(k - 1) = End(j) /\ End(k) = End(j) + SimpointSize
        /\ d.next_bbv_dump = End(k) + 1
    <3>1. End(k) = End(j) + SimpointSize
      BY EndNext
    <3>2. m = End(j) /\ ~(m + 1 < End(j) + 1)
      BY <1>3, <1>11
    <3>3. d.next_bbv_dump = End(j) + 1 + SimpointSize
      BY <1>6, <1>7, <3>2
    <3> QED BY <1>3, <2>0, <3>1, <3>2, <3>3, <1>s
  <2>2. Lines(d, s, k - 1)
    BY <1>2, <1>7, <2>0, <2>1 DEF Within, Lines
  <2>3. WarmupSize > 0 =>
           /\ ~(m >= End(k) + 1 - WarmupSize)
           /\ d.next_warmup = s[End(k - 1) + 1 - WarmupSize]
    <3> SUFFICES ASSUME WarmupSize > 0
                 PROVE  /\ ~(m >= End(k) + 1 - WarmupSize)
                        /\ d.next_warmup = s[End(j) + 1 - WarmupSize]
      BY <2>0
    <3>1. ~(m >= End(k) + 1 - WarmupSize) /\ m >= End(j) + 1 - WarmupSize
      BY <1>3, <2>1, <1>s DEF WarmupFits
    <3> QED BY <1>2, <1>7, <3>1 DEF Within
  <2> HIDE DEF k
  <2>4. End(k - 1) <= m /\ m < End(k) /\ ~(m > End(k - 1))
    BY <1>3, <2>1, <1>s
  <2>5. Within(e, t, k)
    BY <1>3, <1>7, <2>0, <2>1, <2>2, <2>3, <2>4, LogKeeps
  <2>6. BbType(e) /\ e.simpoint_roi = TRUE /\ e.stop = "no" /\ e.en_pc = EnPc
    BY <1>7, <1>11, LogFields
  <2> HIDE DEF e, t
  <2> QED BY <1>3, <1>8, <1>11, <2>0, <2>5, <2>6, Closing DEF t
<1> QED BY <1>9, <1>10, <1>11

\* An instruction of any region keeps the types.
LEMMA StepType ==
    ASSUME NEW b, BbType(b), insns \in Nat, NEW p
    PROVE  BbType(simpoint_step(b, p))
<1> DEFINE regular == b.last_pc # 0 /\ b.simpoint_roi /\ b.last_pc # b.en_pc
           first   == ~regular /\ b.simpoint_roi /\ p # b.en_pc
           c == IF regular THEN flush_bb_vector(capture_basic_block(b, p))
                ELSE IF first THEN flush_bb_vector(Count(b))
                ELSE b
           d == IF regular THEN log_simpoint_tracks(Count(c)) ELSE c
           e == IF d.last_pc = d.en_pc THEN log_simpoint_tracks(d) ELSE d
           f == IF d.simpoint_roi /\ p # d.en_pc THEN [e EXCEPT !.last_pc = p] ELSE d
<1>1. BbType(c)
  <2>1. BbType(flush_bb_vector(capture_basic_block(b, p)))
    BY CaptureFields, FlushFields
  <2>2. BbType(flush_bb_vector(Count(b)))
    BY CountFields, FlushFields
  <2> QED BY <2>1, <2>2
<1> HIDE DEF c
<1>2. BbType(d)
  <2>1. BbType(log_simpoint_tracks(Count(c)))
    BY <1>1, CountFields, LogFields
  <2> QED BY <1>1, <2>1
<1> HIDE DEF d
<1>3. BbType(e)
  <2>1. BbType(log_simpoint_tracks(d))
    BY <1>2, LogFields
  <2> QED BY <1>2, <2>1
<1> HIDE DEF e
<1>4. BbType(f)
  <2>1. BbType([e EXCEPT !.last_pc = p])
    BY <1>3 DEF BbType, Fields
  <2> QED BY <1>2, <2>1
<1> HIDE DEF f
<1>5. BbType([f EXCEPT !.stop = "terminated"])
  BY <1>4 DEF BbType, Fields, Stops
<1>6. \/ simpoint_step(b, p) = c \/ simpoint_step(b, p) = f
      \/ simpoint_step(b, p) = [f EXCEPT !.stop = "terminated"]
  BY DEF simpoint_step, c, d, e, f
<1> QED BY <1>1, <1>4, <1>5, <1>6

-----------------------------------------------------------------------------
(* Every step keeps the invariant                                          *)

\* A tracer that differs from a sound one in nothing that matters is sound.
LEMMA SoundStays ==
    ASSUME NEW b, NEW s, NEW st, Sound(b, s, st), b.simpoint_roi = FALSE, b.stop # "abort",
           NEW g, BbType(g), g.simpoint_roi = FALSE,
           g.last_pc = b.last_pc, g.en_pc = b.en_pc,
           g.total_insn_in_roi = b.total_insn_in_roi, g.instr_cnt = b.instr_cnt,
           g.next_bbv_dump = b.next_bbv_dump, g.tracks = b.tracks
    PROVE  Sound(g, s, st)
<1>1. st = 1 => Exact(g, s)
  BY DEF Sound, Exact, Lines
<1> QED BY <1>1 DEF Sound

\* A traced instruction keeps the tracer sound, inside a region and outside.
LEMMA StepSound ==
    ASSUME WarmupFits, NEW b, NEW s, NEW st, Sound(b, s, st), b.stop = "no",
           insns \in Nat, NEW p \in Addrs
    PROVE  Sound(simpoint_step(b, p),
                 IF b.simpoint_roi THEN Append(s, insns) ELSE s, st)
<1> DEFINE g == simpoint_step(b, p)
<1>1. BbType(b) /\ s \in Seq(Int) /\ st \in Nat /\ b.simpoint_roi \in BOOLEAN
  BY DEF Sound, BbType
<1>g. g = simpoint_step(b, p)
  OBVIOUS
<1> HIDE DEF g
<1>2. CASE b.simpoint_roi = FALSE
  <2>1. /\ BbType(g) /\ g.simpoint_roi = FALSE
        /\ g.last_pc = b.last_pc /\ g.en_pc = b.en_pc
        /\ g.total_insn_in_roi = b.total_insn_in_roi /\ g.instr_cnt = b.instr_cnt
        /\ g.next_bbv_dump = b.next_bbv_dump /\ g.tracks = b.tracks
    <3>1. g = b \/ g = [b EXCEPT !.stop = "terminated"]
      BY <1>2, <1>g DEF simpoint_step
    <3> QED BY <1>1, <1>2, <3>1 DEF BbType, Fields, Stops
  <2>2. Sound(g, s, st)
    BY <1>2, <2>1, SoundStays
  <2> QED BY <1>2, <2>2 DEF g
<1>3. CASE b.simpoint_roi = TRUE /\ st = 1
  <2>1. Region(b, s)
    BY <1>3 DEF Sound
  <2>2. Len(s) = 0 \/ Len(s) > 0
    BY <1>1
  <2>3. /\ BbType(g) /\ g.simpoint_roi = TRUE /\ g.stop # "abort"
        /\ Exact(g, Append(s, insns))
        /\ g.stop = "no" => Region(g, Append(s, insns))
    <3>1. CASE Len(s) = 0
      BY <1>1, <1>g, <2>1, <3>1, StepFirst, ZenonT(20)
    <3>2. CASE Len(s) > 0
      BY <1>1, <1>g, <2>1, <3>2, StepRegular, ZenonT(20)
    <3> QED BY <2>2, <3>1, <3>2
  <2>4. Append(s, insns) \in Seq(Int)
    BY <1>1
  <2>5. Sound(g, Append(s, insns), st)
    BY <1>1, <1>3, <2>3, <2>4 DEF Sound
  <2> QED BY <1>3, <2>5 DEF g
<1>4. CASE b.simpoint_roi = TRUE /\ st # 1
  <2>1. st > 1
    BY <1>1, <1>4 DEF Sound
  <2>2. BbType(g)
    BY <1>1, <1>g, <1>4, StepType
  <2>3. Append(s, insns) \in Seq(Int)
    BY <1>1
  <2>4. Sound(g, Append(s, insns), st)
    BY <1>1, <2>1, <2>2, <2>3 DEF Sound
  <2> QED BY <1>4, <2>4 DEF g
<1> QED BY <1>1, <1>2, <1>3, <1>4

\* A tracer that differs in its flag terminate only is as sound.
LEMMA SoundSame ==
    ASSUME NEW b, NEW s, NEW st, Sound(b, s, st), NEW g,
           DOMAIN g = Fields, g.terminate \in BOOLEAN,
           \A f \in Fields \ {"terminate"} : g[f] = b[f]
    PROVE  Sound(g, s, st)
<1>1. /\ g.simpoint_roi = b.simpoint_roi /\ g.stop = b.stop
      /\ g.last_pc = b.last_pc /\ g.en_pc = b.en_pc
      /\ g.total_insn_in_roi = b.total_insn_in_roi /\ g.instr_cnt = b.instr_cnt
      /\ g.next_bbv_dump = b.next_bbv_dump /\ g.tracks = b.tracks
      /\ g.start = b.start /\ g.warmup = b.warmup /\ g.next_warmup = b.next_warmup
  BY DEF Fields
<1>2. BbType(g)
  BY <1>1 DEF Sound, BbType
<1>3. \A c : Lines(g, s, c) = Lines(b, s, c)
  BY <1>1 DEF Lines
<1>4. Exact(b, s) => Exact(g, s)
  BY <1>3 DEF Exact
<1>5. \A j : Within(b, s, j) => Within(g, s, j)
  BY <1>1, <1>3 DEF Within
<1>6. Region(b, s) => Region(g, s)
  BY <1>1, <1>5 DEF Region
<1> QED BY <1>1, <1>2, <1>4, <1>6 DEF Sound


\* The end of a region.
LEMMA MacroEnd ==
    ASSUME NEW b, NEW s, NEW st, Sound(b, s, st), b.stop = "no", b.simpoint_roi = TRUE,
           NEW g, g = handle_simpoint_macro(b, 0)
    PROVE  Sound(g, s, st) /\ g.simpoint_roi = FALSE
<1> DEFINE a == capture_basic_block(b, 0)
           c == flush_bb_vector(a)
           r == IF c.stop = "no" THEN c.stop ELSE "abort"
<1>1. BbType(b) /\ st > 0
  BY DEF Sound
<1>2. BbType(a) /\ a.tracks = b.tracks
  BY <1>1, CaptureFields
<1>3. g = [c EXCEPT !.simpoint_roi = FALSE, !.last_pc = 0, !.stop = r]
  BY DEF handle_simpoint_macro
<1> HIDE DEF a
<1>4. BbType(c) /\ c.tracks = b.tracks
  BY <1>2, FlushFields
<1>5. r \in Stops
  BY DEF Stops
<1> HIDE DEF c, r
<1>6. BbType(g) /\ g.tracks = b.tracks /\ g.simpoint_roi = FALSE
  BY <1>3, <1>4, <1>5 DEF BbType, Fields
<1>7. st = 1 => Exact(g, s)
  BY <1>6 DEF Sound, Exact, Lines
<1> QED BY <1>1, <1>6, <1>7 DEF Sound

\* The start of a region.
LEMMA MacroStart ==
    ASSUME WarmupFits, NEW b, NEW s, NEW st, Sound(b, s, st), b.stop = "no",
           NEW g, g = handle_simpoint_macro(b, 1)
    PROVE  Sound(g, s, st + 1) /\ g.simpoint_roi = TRUE
<1>s. /\ SimpointSize \in Nat /\ SimpointSize >= 2
      /\ WarmupSize \in Nat /\ StartInterval \in Nat
  BY Sizes
<1>1. BbType(b) /\ s \in Seq(Int) /\ st \in Nat /\ b.simpoint_roi \in BOOLEAN
  BY DEF Sound, BbType
<1>2. CASE b.simpoint_roi = TRUE
  <2>1. g = b /\ st + 1 > 1 /\ st + 1 \in Nat
    BY <1>1, <1>2 DEF handle_simpoint_macro, Sound
  <2> QED BY <1>1, <1>2, <2>1 DEF Sound
<1>3. CASE b.simpoint_roi = FALSE
  <2>1. g = [b EXCEPT !.simpoint_roi = TRUE, !.en_pc = EnPc, !.last_pc = EnPc,
                      !.total_insn_in_roi = 0]
    BY <1>3 DEF handle_simpoint_macro
  <2>2. /\ BbType(g) /\ g.simpoint_roi = TRUE /\ g.en_pc = EnPc /\ g.last_pc = EnPc
        /\ g.total_insn_in_roi = 0 /\ g.instr_cnt = b.instr_cnt
        /\ g.next_bbv_dump = b.next_bbv_dump /\ g.tracks = b.tracks
    <3>0. g.simpoint_roi = TRUE
      BY <1>1, <2>1 DEF BbType, Fields
    <3>2. /\ g.en_pc = EnPc /\ g.last_pc = EnPc /\ g.total_insn_in_roi = 0
      BY <1>1, <2>1 DEF BbType, Fields
    <3>3. /\ g.instr_cnt = b.instr_cnt
          /\ g.next_bbv_dump = b.next_bbv_dump /\ g.tracks = b.tracks
      BY <1>1, <2>1 DEF BbType, Fields
    <3>4. DOMAIN g = Fields /\ g.terminate = b.terminate /\ g.stop = b.stop
      BY <1>1, <2>1 DEF BbType, Fields
    <3>5. g.start = b.start /\ g.warmup = b.warmup /\ g.next_warmup = b.next_warmup
      BY <1>1, <2>1 DEF BbType, Fields
    <3>1. BbType(g)
      <4>1. g.simpoint_roi \in BOOLEAN
        BY <3>0, Zenon
      <4>2. g.total_insn_in_roi \in Nat
        BY <3>2
      <4> QED BY <1>1, <3>3, <3>4, <3>5, <4>1, <4>2, Zenon DEF BbType
    <3> QED BY <3>0, <3>1, <3>2, <3>3
  <2>3. CASE st # 0
    BY <1>1, <2>2, <2>3 DEF Sound
  <2>4. CASE st = 0
    <3>1. /\ b.instr_cnt = 0 /\ b.next_bbv_dump = SimpointSize + 1 /\ b.tracks = <<>>
          /\ s = <<>> /\ Len(s) = 0
      BY <2>4 DEF Sound
    <3>2. End(1) = SimpointSize /\ End(0) = 0 /\ SimpointSize > 0
      BY EndZero, EndNext, <1>s
    <3>3. Lines(g, s, 0)
      BY <2>2, <3>1, <1>s DEF Lines
    <3>4. WarmupSize > 0 => ~(0 >= End(1) + 1 - WarmupSize)
      BY <3>2, <1>s DEF WarmupFits
    <3>5. Within(g, s, 1)
      BY <2>2, <3>1, <3>2, <3>3, <3>4, <1>s DEF Within
    <3>6. Region(g, s)
      BY <2>2, <3>1, <3>5 DEF Region
    <3>7. Exact(g, s)
      BY <1>1, <3>5, WithinExact
    <3> QED BY <1>1, <2>2, <2>4, <3>6, <3>7 DEF Sound
  <2> QED BY <2>2, <2>3, <2>4
<1> QED BY <1>1, <1>2, <1>3

\* A store of the SimPoint register, and whether it leaves a region open.
LEMMA MacroSound ==
    ASSUME WarmupFits, NEW b, NEW s, NEW st, Sound(b, s, st), b.stop = "no", NEW v \in 0 .. 2,
           NEW g, g = handle_simpoint_macro(b, v)
    PROVE  /\ Sound(g, s, IF v = 1 THEN st + 1 ELSE st)
           /\ g.simpoint_roi \in BOOLEAN
           /\ g.simpoint_roi <=> (v = 1 \/ (v = 2 /\ b.simpoint_roi))
<1>1. BbType(b) /\ b.simpoint_roi \in BOOLEAN
  BY DEF Sound, BbType
<1>2. CASE v = 0 /\ b.simpoint_roi = TRUE
  <2>1. Sound(g, s, st) /\ g.simpoint_roi = FALSE
    BY <1>2, MacroEnd, Zenon
  <2>2. g.simpoint_roi \in BOOLEAN /\ ~g.simpoint_roi
    BY <2>1
  <2>3. ~(v = 1 \/ (v = 2 /\ b.simpoint_roi)) /\ (IF v = 1 THEN st + 1 ELSE st) = st
    BY <1>2
  <2> QED BY <2>1, <2>2, <2>3
<1>3. CASE v = 0 /\ b.simpoint_roi = FALSE
  <2>1. g = b
    BY <1>3 DEF handle_simpoint_macro
  <2> HIDE DEF Sound
  <2> QED BY <1>1, <1>3, <2>1
<1>4. CASE v = 1
  BY <1>4, MacroStart
<1>5. CASE v = 2
  <2>1. g = [b EXCEPT !.terminate = TRUE]
    BY <1>5 DEF handle_simpoint_macro
  <2>2. g.simpoint_roi = b.simpoint_roi
    BY <1>1, <2>1 DEF BbType, Fields
  <2>3. Sound(g, s, st)
    <3>1. /\ DOMAIN g = Fields /\ g.terminate \in BOOLEAN
          /\ \A f \in Fields \ {"terminate"} : g[f] = b[f]
      BY <1>1, <2>1 DEF BbType, Fields
    <3> QED BY <3>1, SoundSame
  <2>4. (IF v = 1 THEN st + 1 ELSE st) = st
    BY <1>5
  <2>5. g.simpoint_roi \in BOOLEAN /\ (g.simpoint_roi <=> (v = 1 \/ (v = 2 /\ b.simpoint_roi)))
    BY <1>1, <1>5, <2>2
  <2> QED BY <2>3, <2>4, <2>5
<1>6. (v = 0 \/ v = 1 \/ v = 2) /\ (b.simpoint_roi = TRUE \/ b.simpoint_roi = FALSE)
  BY <1>1
<1> QED BY <1>2, <1>3, <1>4, <1>5, <1>6, Zenon

\* The tracer starts outside every region, with nothing recorded.
LEMMA InitInv == BbInit => BbInv
<1>s. /\ SimpointSize \in Nat /\ SimpointSize >= 2
      /\ WarmupSize \in Nat /\ StartInterval \in Nat
  BY Sizes
<1> SUFFICES ASSUME BbInit PROVE BbInv
  OBVIOUS
<1>1. BbType(bb)
  BY <1>s DEF BbInit, BbType, Fields, Stops, NoInsn
<1>2. Sound(bb, seen, started)
  BY <1>1 DEF BbInit, Sound
<1> QED BY <1>2 DEF BbInit, BbInv

\* Every instruction, system call, write of the SimPoint CSR, checkpoint and
\* restore keeps the invariant.
LEMMA StepInv == WarmupFits /\ BbInv /\ [BbNext]_bbVars => BbInv'
<1> SUFFICES ASSUME WarmupFits, BbInv, [BbNext]_bbVars PROVE BbInv'
  OBVIOUS
<1>1. Sound(bb, seen, started) /\ insns \in Nat
  BY DEF BbInv
<1>2. BbType(bb) /\ bb.simpoint_roi \in BOOLEAN /\ seen \in Seq(Int)
  BY <1>1 DEF Sound, BbType
<1>3. ASSUME Sound(bb', seen', started'), insns' \in Nat, UNCHANGED saved PROVE BbInv'
  BY <1>3 DEF BbInv
<1>4. ASSUME NEW p \in Addrs, NEW mine \in BOOLEAN, execute_insn(p, mine) PROVE BbInv'
  <2>1. bb.stop = "no" /\ insns' = insns + 1 /\ UNCHANGED <<saved, started>>
    BY <1>4 DEF execute_insn, Running
  <2>2. CASE Traced(mine)
    <3>1. /\ bb' = simpoint_step(bb, p)
          /\ seen' = IF bb.simpoint_roi THEN Append(seen, insns) ELSE seen
      BY <1>4, <2>2 DEF execute_insn
    <3>2. Sound(simpoint_step(bb, p), IF bb.simpoint_roi THEN Append(seen, insns) ELSE seen,
                started)
      BY <1>1, <2>1, StepSound
    <3> QED BY <1>1, <1>3, <2>1, <3>1, <3>2
  <2>3. CASE ~Traced(mine)
    <3>1. bb' = bb /\ seen' = seen
      BY <1>4, <2>3 DEF execute_insn
    <3> QED BY <1>1, <1>3, <2>1, <3>1
  <2> QED BY <2>2, <2>3
<1>5. ASSUME NEW p \in Addrs, user_ecall(p) PROVE BbInv'
  <2>1. /\ bb.stop = "no" /\ bb.simpoint_roi /\ UNCHANGED <<insns, saved, started>>
        /\ bb' = simpoint_step(bb, p) /\ seen' = Append(seen, insns)
    BY <1>5 DEF user_ecall, Running
  <2>2. Sound(simpoint_step(bb, p), Append(seen, insns), started)
    BY <1>1, <2>1, StepSound
  <2> QED BY <1>1, <1>3, <2>1, <2>2
<1>6. ASSUME NEW p \in Addrs, NEW val \in 0 .. 2, NEW mine \in BOOLEAN, NEW slow \in BOOLEAN,
             simpoint_csr_write(p, val, mine, slow)
      PROVE  BbInv'
  <2> DEFINE b == handle_simpoint_macro(bb, val)
             s == slow /\ Traced(mine) /\ b.stop = "no"
             opens == val = 1 \/ (val = 2 /\ bb.simpoint_roi)
  <2>1. /\ bb.stop = "no" /\ insns' = insns + 1 /\ UNCHANGED saved
        /\ started' = IF val = 1 THEN started + 1 ELSE started
        /\ bb' = IF s THEN simpoint_step(b, p) ELSE b
        /\ seen' = IF s /\ opens THEN Append(seen, insns) ELSE seen
    BY <1>6 DEF simpoint_csr_write, Running
  <2>2. b = handle_simpoint_macro(bb, val)
    OBVIOUS
  <2> HIDE DEF b
  <2>3. /\ Sound(b, seen, started') /\ b.simpoint_roi \in BOOLEAN
        /\ b.simpoint_roi <=> opens
    BY <1>1, <2>1, <2>2, MacroSound
  <2>4. CASE s
    <3>1. /\ b.stop = "no" /\ bb' = simpoint_step(b, p)
          /\ seen' = IF b.simpoint_roi THEN Append(seen, insns) ELSE seen
      BY <2>1, <2>3, <2>4
    <3>2. Sound(simpoint_step(b, p), IF b.simpoint_roi THEN Append(seen, insns) ELSE seen,
                started')
      BY <1>1, <2>3, <3>1, StepSound
    <3> QED BY <1>1, <1>3, <2>1, <3>1, <3>2
  <2>5. CASE ~s
    <3>1. bb' = b /\ seen' = seen
      BY <2>1, <2>5
    <3> QED BY <1>1, <1>3, <2>1, <2>3, <3>1
  <2> QED BY <2>4, <2>5
<1>7. CASE checkpoint
  <2>1. saved'[1] = [bb |-> bb, executed |-> insns, started |-> started, seen |-> seen]
    BY <1>7 DEF checkpoint
  <2>2. /\ saved'[1].bb = bb /\ saved'[1].executed = insns /\ saved'[1].started = started
        /\ saved'[1].seen = seen
    BY <2>1
  <2>3. UNCHANGED <<bb, insns, started, seen>>
    BY <1>7 DEF checkpoint
  <2> QED BY <1>1, <2>2, <2>3 DEF BbInv
<1>8. CASE checkpoint_restore
  <2>1. /\ bb' = [saved[1].bb EXCEPT !.terminate = FALSE] /\ insns' = saved[1].executed
        /\ started' = saved[1].started /\ seen' = saved[1].seen /\ UNCHANGED saved
        /\ saved # NoCheckpoint
    BY <1>8 DEF checkpoint_restore
  <2>2. Sound(saved[1].bb, saved[1].seen, saved[1].started) /\ saved[1].executed \in Nat
    BY <2>1 DEF BbInv
  <2>3. Sound(bb', saved[1].seen, saved[1].started)
    <3>1. DOMAIN saved[1].bb = Fields
      BY <2>2 DEF Sound, BbType
    <3>2. /\ DOMAIN bb' = Fields /\ bb'.terminate \in BOOLEAN
          /\ \A f \in Fields \ {"terminate"} : bb'[f] = saved[1].bb[f]
      BY <2>1, <3>1 DEF Fields
    <3> QED BY <2>2, <3>2, SoundSame
  <2> QED BY <1>3, <2>1, <2>2, <2>3
<1>9. CASE Finished \/ UNCHANGED bbVars
  BY <1>1, <1>3, <1>9 DEF Finished, bbVars
<1> QED BY <1>4, <1>5, <1>6, <1>7, <1>8, <1>9 DEF BbNext

\* The invariant says of every complete interval what its line holds.
LEMMA InvExact == BbInv => TracksExact
<1>s. /\ SimpointSize \in Nat /\ SimpointSize >= 2
      /\ WarmupSize \in Nat /\ StartInterval \in Nat
  BY Sizes
<1> SUFFICES ASSUME BbInv, started <= 1, bb.stop # "abort" PROVE TracksExact
  BY DEF TracksExact
<1>1. Sound(bb, seen, started)
  BY DEF BbInv
<1>2. seen \in Seq(Int) /\ bb.tracks \in Seq(Track) /\ started \in Nat
  BY <1>1 DEF Sound, BbType
<1>3. Exact(bb, seen)
  <2>1. CASE started = 1
    BY <1>1, <2>1 DEF Sound
  <2>2. CASE started = 0
    <3>1. bb.tracks = <<>> /\ seen = <<>>
      BY <1>1, <2>2 DEF Sound
    <3>2. Lines(bb, seen, 0)
      BY <3>1, <1>s DEF Lines
    <3> QED BY <3>1, <3>2, EndZero, <1>s DEF Exact
  <2> QED BY <1>2, <2>1, <2>2
<1>4. PICK c \in Nat : /\ End(c) <= Len(seen) /\ Len(seen) < End(c) + SimpointSize
                       /\ Lines(bb, seen, c)
  BY <1>3 DEF Exact
<1>5. Len(seen) \div SimpointSize = c
  BY <1>2, <1>4, Complete
<1>6. Len(bb.tracks) = IF c > StartInterval THEN c - StartInterval ELSE 0
  BY <1>4 DEF Lines
<1> DEFINE t(k) == [start |-> seen[(k - 1) * SimpointSize + 1], end |-> seen[k * SimpointSize]]
<1>7. \A i \in DOMAIN bb.tracks :
         /\ bb.tracks[i].start = t(i + StartInterval).start
         /\ bb.tracks[i].end = t(i + StartInterval).end
         /\ WarmupSize > 0 /\ i + StartInterval > 1 =>
               bb.tracks[i].warmup = seen[(i + StartInterval - 1) * SimpointSize + 1 - WarmupSize]
  <2> TAKE i \in DOMAIN bb.tracks
  <2> DEFINE k == i + StartInterval
  <2>1. i \in 1 .. Len(bb.tracks)
    BY <1>2
  <2>2. Lines(bb, seen, c)
    BY <1>4
  <2>3. /\ bb.tracks[i].start = seen[End(k - 1) + 1]
        /\ bb.tracks[i].end = seen[End(k)]
        /\ WarmupSize > 0 /\ k > 1 => bb.tracks[i].warmup = seen[End(k - 1) + 1 - WarmupSize]
    BY <2>1, <2>2, Zenon DEF Lines
  <2>4. t(k).start = seen[End(k - 1) + 1] /\ t(k).end = seen[End(k)]
    BY DEF End
  <2>5. bb.tracks[i].start = t(k).start /\ bb.tracks[i].end = t(k).end
    BY <2>3, <2>4, Zenon
  <2>6. k - 1 = i + StartInterval - 1
    BY <2>1, <1>s
  <2>7. End(k - 1) = (i + StartInterval - 1) * SimpointSize
    BY <2>6, Zenon DEF End
  <2>8. WarmupSize > 0 /\ k > 1 =>
           bb.tracks[i].warmup = seen[(i + StartInterval - 1) * SimpointSize + 1 - WarmupSize]
    BY <2>3, <2>7, Zenon
  <2> QED BY <2>5, <2>8, Zenon
<1>8. Len(bb.tracks) = IF (Len(seen) \div SimpointSize) > StartInterval
                       THEN (Len(seen) \div SimpointSize) - StartInterval ELSE 0
  BY <1>5, <1>6
<1> QED BY <1>7, <1>8 DEF TracksExact

\* If the warmup window begins and ends inside an interval, track line k names
\* the first and the last instruction of interval k and the one WarmupSize
\* before it, and every complete interval has its line at once: for every size
\* of an interval, start interval, program, number of instructions, and across
\* a checkpoint and its restore (log_simpoint_tracks, riscv/bb_tracer.cc).
THEOREM BbTracksExact == WarmupFits /\ BbSpec => []TracksExact
<1> SUFFICES ASSUME WarmupFits PROVE BbSpec => []TracksExact
  OBVIOUS
<1>1. BbInit => BbInv
  BY InitInv
<1>2. BbInv /\ [BbNext]_bbVars => BbInv'
  BY StepInv
<1>3. BbInv => TracksExact
  BY InvExact
<1> QED BY <1>1, <1>2, <1>3, PTL DEF BbSpec

-----------------------------------------------------------------------------
(* The vectors count every instruction once                                *)

Vec == UNION {[S -> Nat] : S \in SUBSET Nat}

\* The vectors written and the one being built.
Vectors(b) == Append(b.lines, b.bbv)

\* What holds of a tracer that has seen the instructions s: those in vectors
\* and those of the open block are as many.
Balanced(b, s) ==
    /\ BbType(b) /\ s \in Seq(Int)
    /\ b.bbv \in Vec /\ b.lines \in Seq(Vec) /\ b.ninst \in Nat /\ b.last_pc \in Nat
    /\ b.simpoint_roi = TRUE => b.en_pc = EnPc
    /\ StartInterval = 0 /\ b.stop \in {"no", "terminated"} =>
          /\ IsFiniteSet(Counted(Vectors(b)))
          /\ Cardinality(Counted(Vectors(b))) + b.ninst = Len(s)

BalancedInv ==
    /\ Balanced(bb, seen) /\ insns \in Nat
    /\ saved # NoCheckpoint => Balanced(saved[1].bb, saved[1].seen) /\ saved[1].executed \in Nat

\* A vector is a function from addresses to counts.
LEMMA VecType ==
    ASSUME NEW v \in Vec
    PROVE  /\ DOMAIN v \subseteq Nat /\ \A q \in DOMAIN v : v[q] \in Nat
<1>1. PICK S \in SUBSET Nat : v \in [S -> Nat]
  BY DEF Vec
<1> QED BY <1>1

LEMMA VecIs ==
    ASSUME NEW S \in SUBSET Nat, NEW v \in [S -> Nat]
    PROVE  v \in Vec
  BY DEF Vec

LEMMA EmptyVec == EmptyBbv \in Vec
<1>1. EmptyBbv \in [{} -> Nat]
  BY DEF EmptyBbv
<1>2. {} \in SUBSET Nat
  OBVIOUS
<1> QED BY <1>1, <1>2, VecIs

LEMMA InInstances ==
    ASSUME NEW v, NEW p, NEW n
    PROVE  <<p, n>> \in Instances(v) <=> p \in DOMAIN v /\ n \in 1 .. v[p]
  BY DEF Instances

LEMMA InCounted ==
    ASSUME NEW vs, NEW k, NEW y
    PROVE  <<k, y>> \in Counted(vs) <=> k \in DOMAIN vs /\ y \in Instances(vs[k])
  BY DEF Counted

\* Counted instructions are pairs.
LEMMA Pairs ==
    ASSUME NEW vs, NEW x \in Counted(vs)
    PROVE  \E k \in DOMAIN vs : \E y \in Instances(vs[k]) : x = <<k, y>>
  BY DEF Counted

LEMMA InstancePairs ==
    ASSUME NEW v, NEW y \in Instances(v)
    PROVE  \E p \in DOMAIN v : \E n \in 1 .. v[p] : y = <<p, n>>
  BY DEF Instances

\* An empty vector after the others counts nothing.
LEMMA CountedEmpty ==
    ASSUME NEW vs \in Seq(Vec)
    PROVE  Counted(Append(vs, EmptyBbv)) = Counted(vs)
<1> DEFINE w == Append(vs, EmptyBbv)
<1>1. EmptyBbv \in Vec
  BY EmptyVec
<1>2. /\ DOMAIN w = 1 .. Len(vs) + 1 /\ DOMAIN vs = 1 .. Len(vs) /\ Len(vs) \in Nat
      /\ w[Len(vs) + 1] = EmptyBbv /\ \A k \in 1 .. Len(vs) : w[k] = vs[k]
  BY <1>1
<1>3. Instances(EmptyBbv) = {}
  BY DEF Instances, EmptyBbv
<1> HIDE DEF w
<1>4. ASSUME NEW x \in Counted(w) PROVE x \in Counted(vs)
  <2>1. PICK k \in DOMAIN w : \E y \in Instances(w[k]) : x = <<k, y>>
    BY <1>4, Pairs
  <2>2. PICK y \in Instances(w[k]) : x = <<k, y>>
    BY <2>1
  <2>3. k \in DOMAIN vs /\ w[k] = vs[k]
    BY <1>2, <1>3, <2>2
  <2> QED BY <2>2, <2>3, InCounted
<1>5. ASSUME NEW x \in Counted(vs) PROVE x \in Counted(w)
  <2>1. PICK k \in DOMAIN vs : \E y \in Instances(vs[k]) : x = <<k, y>>
    BY <1>5, Pairs
  <2>2. PICK y \in Instances(vs[k]) : x = <<k, y>>
    BY <2>1
  <2>3. k \in DOMAIN w /\ w[k] = vs[k]
    BY <1>2
  <2> QED BY <2>2, <2>3, InCounted
<1>6. Counted(w) = Counted(vs)
  BY <1>4, <1>5
<1> QED BY <1>6 DEF w

\* n more instructions of the block that ends at p, which has old.
Added(p, old, n) == {p} \X ((old + 1) .. (old + n))

AddedTo(k, p, old, n) == {k} \X Added(p, old, n)

Grows(v, w, p, old, n) ==
    /\ old = IF p \in DOMAIN v THEN v[p] ELSE 0
    /\ DOMAIN w = DOMAIN v \cup {p} /\ w[p] = n + old
    /\ \A q \in DOMAIN v \ {p} : w[q] = v[q]

LEMMA InstancesMore ==
    ASSUME NEW v \in Vec, NEW p \in Nat, NEW old \in Nat, NEW n \in Nat,
           NEW w, Grows(v, w, p, old, n)
    PROVE  /\ Instances(w) = Instances(v) \cup Added(p, old, n)
           /\ Instances(v) \cap Added(p, old, n) = {}
<1> DEFINE D == Added(p, old, n)
<1>d. D = {p} \X ((old + 1) .. (old + n))
  BY DEF Added
<1>w. /\ old = IF p \in DOMAIN v THEN v[p] ELSE 0
      /\ DOMAIN w = DOMAIN v \cup {p} /\ w[p] = n + old
      /\ \A q \in DOMAIN v \ {p} : w[q] = v[q]
  BY DEF Grows
<1> HIDE DEF D
<1>1. \A q \in DOMAIN v : v[q] \in Nat
  BY VecType
<1>2. ASSUME NEW y \in Instances(w) PROVE y \in Instances(v) \cup D
  <2>1. PICK q \in DOMAIN w : \E m \in 1 .. w[q] : y = <<q, m>>
    BY InstancePairs
  <2>2. PICK m \in 1 .. w[q] : y = <<q, m>>
    BY <2>1
  <2>3. CASE q # p
    BY <1>w, <2>2, <2>3, InInstances
  <2>4. CASE q = p /\ m <= old
    <3>1. p \in DOMAIN v /\ m \in 1 .. v[p]
      BY <1>w, <2>2, <2>4
    <3> QED BY <2>2, <2>4, <3>1, InInstances
  <2>5. CASE q = p /\ m > old
    <3>1. m \in (old + 1) .. (old + n)
      BY <1>w, <2>2, <2>5
    <3> QED BY <1>d, <2>2, <2>5, <3>1
  <2> QED BY <2>2, <2>3, <2>4, <2>5
<1>3. ASSUME NEW y \in Instances(v) PROVE y \in Instances(w) /\ y \notin D
  <2>1. PICK q \in DOMAIN v : \E m \in 1 .. v[q] : y = <<q, m>>
    BY <1>3, InstancePairs
  <2>2. PICK m \in 1 .. v[q] : y = <<q, m>>
    BY <2>1
  <2>3. q \in DOMAIN w /\ m \in 1 .. w[q]
    BY <1>1, <1>w, <2>2
  <2>4. q = p => m \notin (old + 1) .. (old + n)
    BY <1>1, <1>w, <2>2
  <2> QED BY <1>d, <2>2, <2>3, <2>4, InInstances
<1>4. ASSUME NEW y \in D PROVE y \in Instances(w)
  <2>1. PICK m \in (old + 1) .. (old + n) : y = <<p, m>>
    BY <1>4, <1>d
  <2>2. p \in DOMAIN w /\ m \in 1 .. w[p]
    BY <1>w, <2>1
  <2> QED BY <2>1, <2>2, InInstances
<1>5. Instances(w) = Instances(v) \cup D /\ Instances(v) \cap D = {}
  BY <1>2, <1>3, <1>4
<1> QED BY <1>5 DEF D

\* A last vector with more instructions.
LEMMA CountedMore ==
    ASSUME NEW vs \in Seq(Vec), NEW v \in Vec, NEW w \in Vec, NEW D,
           Instances(w) = Instances(v) \cup D, Instances(v) \cap D = {}
    PROVE  LET k == Len(vs) + 1
           IN  /\ Counted(Append(vs, w)) = Counted(Append(vs, v)) \cup ({k} \X D)
               /\ Counted(Append(vs, v)) \cap ({k} \X D) = {}
<1> DEFINE k == Len(vs) + 1
           a == Append(vs, v)
           c == Append(vs, w)
           E == {k} \X D
<1>1. /\ DOMAIN a = 1 .. k /\ DOMAIN c = 1 .. k /\ k \in 1 .. k
      /\ a[k] = v /\ c[k] = w /\ \A i \in 1 .. k : i # k => a[i] = c[i]
  OBVIOUS
<1> HIDE DEF a, c, k
<1>2. ASSUME NEW x \in Counted(c) PROVE x \in Counted(a) \cup E
  <2>1. PICK i \in DOMAIN c : \E y \in Instances(c[i]) : x = <<i, y>>
    BY Pairs
  <2>2. PICK y \in Instances(c[i]) : x = <<i, y>>
    BY <2>1
  <2>3. (i \in DOMAIN a /\ y \in Instances(a[i])) \/ (i = k /\ y \in D)
    BY <1>1, <2>2
  <2> QED BY <2>2, <2>3, InCounted
<1>3. ASSUME NEW x \in Counted(a) PROVE x \in Counted(c) /\ x \notin E
  <2>1. PICK i \in DOMAIN a : \E y \in Instances(a[i]) : x = <<i, y>>
    BY <1>3, Pairs
  <2>2. PICK y \in Instances(a[i]) : x = <<i, y>>
    BY <2>1
  <2>3. i \in DOMAIN c /\ y \in Instances(c[i]) /\ ~(i = k /\ y \in D)
    BY <1>1, <2>2
  <2> QED BY <2>2, <2>3, InCounted
<1>4. ASSUME NEW x \in E PROVE x \in Counted(c)
  <2>1. PICK y \in D : x = <<k, y>>
    OBVIOUS
  <2>2. k \in DOMAIN c /\ y \in Instances(c[k])
    BY <1>1
  <2> QED BY <2>1, <2>2, InCounted
<1> HIDE DEF E
<1>5. Counted(c) = Counted(a) \cup E /\ Counted(a) \cap E = {}
  BY <1>2, <1>3, <1>4
<1> QED BY <1>5 DEF E, a, c, k

\* The size of what the block adds.
LEMMA SizeMore ==
    ASSUME NEW k, NEW p, NEW old \in Nat, NEW n \in Nat
    PROVE  IsFiniteSet(AddedTo(k, p, old, n)) /\ Cardinality(AddedTo(k, p, old, n)) = n
<1> DEFINE I == (old + 1) .. (old + n)
           D == Added(p, old, n)
<1>1. IsFiniteSet(I) /\ Cardinality(I) = n
  BY FS_Interval
<1>d. D = {p} \X I
  BY DEF Added
<1> HIDE DEF I, D
<1>2. IsFiniteSet({p}) /\ Cardinality({p}) = 1 /\ IsFiniteSet({k}) /\ Cardinality({k}) = 1
  BY FS_Singleton
<1>3. IsFiniteSet(D) /\ Cardinality(D) = n
  <2>1. IsFiniteSet(D) /\ Cardinality(D) = Cardinality({p}) * Cardinality(I)
    <3>1. IsFiniteSet({p} \X I) /\ Cardinality({p} \X I) = Cardinality({p}) * Cardinality(I)
      BY <1>1, <1>2, FS_Product, Zenon
    <3> QED BY <1>d, <3>1, Zenon
  <2> QED BY <1>1, <1>2, <2>1
<1>4. /\ IsFiniteSet({k} \X D)
      /\ Cardinality({k} \X D) = Cardinality({k}) * Cardinality(D)
  BY <1>2, <1>3, FS_Product, Zenon
<1>5. IsFiniteSet({k} \X D) /\ Cardinality({k} \X D) = n
  BY <1>2, <1>3, <1>4
<1> QED BY <1>5 DEF D, AddedTo

-----------------------------------------------------------------------------
(* The methods keep the balance                                            *)

\* A tracer with the same vectors and the same open block.
LEMMA BalancedSame ==
    ASSUME NEW b, NEW s, Balanced(b, s), NEW g, BbType(g),
           g.bbv = b.bbv, g.lines = b.lines, g.ninst = b.ninst, g.last_pc \in Nat,
           g.simpoint_roi = TRUE => g.en_pc = EnPc,
           g.stop \in {"no", "terminated"} => b.stop \in {"no", "terminated"}
    PROVE  Balanced(g, s)
<1>1. Vectors(g) = Vectors(b)
  BY DEF Vectors
<1> QED BY <1>1 DEF Balanced

\* Closing a block moves its instructions into the vector.
LEMMA CaptureBalanced ==
    ASSUME NEW b, NEW s, Balanced(b, s), NEW p
    PROVE  Balanced(capture_basic_block(b, p), s)
<1> DEFINE v == b.bbv
           n == b.ninst
           l == b.last_pc
           old == IF l \in DOMAIN v THEN v[l] ELSE 0
           w == [q \in DOMAIN v \cup {l} |->
                   (IF q \in DOMAIN v THEN v[q] ELSE 0) + IF q = l THEN n ELSE 0]
           g == [b EXCEPT !.bbv = w, !.ninst = 0]
<1>1. capture_basic_block(b, p) = b \/ capture_basic_block(b, p) = g
  BY DEF capture_basic_block
<1>2. /\ BbType(b) /\ v \in Vec /\ b.lines \in Seq(Vec) /\ n \in Nat
      /\ l \in Nat /\ s \in Seq(Int) /\ (b.simpoint_roi = TRUE => b.en_pc = EnPc)
  BY DEF Balanced
<1> HIDE DEF v, n, l
<1>3. /\ DOMAIN v \subseteq Nat /\ \A q \in DOMAIN v : v[q] \in Nat
  BY <1>2, VecType
<1>4. old \in Nat /\ old = IF l \in DOMAIN v THEN v[l] ELSE 0
  BY <1>3
<1>5. /\ DOMAIN w = DOMAIN v \cup {l} /\ w[l] = n + old
      /\ \A q \in DOMAIN v \ {l} : w[q] = v[q]
  BY <1>2, <1>3
<1>6. w \in Vec
  <2>1. w \in [DOMAIN v \cup {l} -> Nat]
    BY <1>2, <1>3
  <2>2. DOMAIN v \cup {l} \in SUBSET Nat
    BY <1>2, <1>3
  <2> HIDE DEF w
  <2> QED BY <2>1, <2>2, VecIs
<1> HIDE DEF w, old
<1> DEFINE D == Added(l, old, n)
           k == Len(b.lines) + 1
           E == AddedTo(k, l, old, n)
           C == Counted(Vectors(b))
<1>t. v \in Vec /\ n \in Nat /\ l \in Nat /\ old \in Nat
  BY <1>2, <1>4
<1>7. Instances(w) = Instances(v) \cup D /\ Instances(v) \cap D = {}
  <2>1. Grows(v, w, l, old, n)
    BY <1>4, <1>5 DEF Grows
  <2> QED BY <1>t, <2>1, InstancesMore
<1>8. IsFiniteSet(E) /\ Cardinality(E) = n
  BY <1>t, SizeMore
<1> HIDE DEF D
<1>9. Counted(Append(b.lines, w)) = C \cup E /\ C \cap E = {}
  BY <1>2, <1>6, <1>7, CountedMore DEF Vectors, v, AddedTo, D
<1>10. /\ BbType(g) /\ g.bbv = w /\ g.lines = b.lines /\ g.ninst = 0
       /\ g.last_pc = b.last_pc /\ g.en_pc = b.en_pc /\ g.simpoint_roi = b.simpoint_roi
       /\ g.stop = b.stop
  BY <1>2 DEF BbType, Fields
<1> HIDE DEF g, k, E, C
<1>11. ASSUME StartInterval = 0, g.stop \in {"no", "terminated"}
       PROVE  /\ IsFiniteSet(Counted(Vectors(g)))
              /\ Cardinality(Counted(Vectors(g))) + g.ninst = Len(s)
  <2>1. IsFiniteSet(C) /\ Cardinality(C) + n = Len(s)
    BY <1>10, <1>11 DEF Balanced, C, n
  <2>2. Counted(Vectors(g)) = C \cup E
    BY <1>9, <1>10 DEF Vectors
  <2>3. /\ IsFiniteSet(C \cup E)
        /\ Cardinality(C \cup E) = Cardinality(C) + Cardinality(E) - Cardinality(C \cap E)
    BY <1>8, <2>1, FS_Union, Zenon
  <2>4. Cardinality(C \cap E) = 0 /\ Cardinality(C) \in Nat
    BY <1>9, <2>1, FS_EmptySet, FS_CardinalityType
  <2> QED BY <1>2, <1>8, <1>10, <2>1, <2>2, <2>3, <2>4
<1>12. Balanced(g, s)
  BY <1>2, <1>6, <1>10, <1>11 DEF Balanced, l
<1> QED BY <1>1, <1>12

\* A flush moves the vector into the file.
LEMMA FlushBalanced ==
    ASSUME NEW b, NEW s, Balanced(b, s), b.stop = "no"
    PROVE  Balanced(flush_bb_vector(b), s)
<1> DEFINE f == flush_bb_vector(b)
           c == [b EXCEPT !.instr_cnt = @ + 1]
           v == IF Skipped(c) THEN EmptyBbv ELSE c.bbv
           d == c.next_bbv_dump + SimpointSize
           l == IF v = EmptyBbv THEN c.lines ELSE Append(c.lines, v)
           r == IF /\ MaxIntervals > 0
                   /\ c.total_insn_in_roi >= (StartInterval + MaxIntervals) * SimpointSize
                THEN "max" ELSE c.stop
<1>1. /\ BbType(b) /\ b.bbv \in Vec /\ b.lines \in Seq(Vec) /\ b.ninst \in Nat
      /\ b.last_pc \in Nat /\ s \in Seq(Int) /\ (b.simpoint_roi = TRUE => b.en_pc = EnPc)
  BY DEF Balanced
<1>2. /\ BbType(f) /\ f.simpoint_roi = b.simpoint_roi
      /\ f.last_pc = b.last_pc /\ f.en_pc = b.en_pc
  BY <1>1, FlushFields
<1>3. DOMAIN c = Fields /\ c.bbv = b.bbv /\ c.lines = b.lines /\ c.ninst = b.ninst
  BY <1>1 DEF BbType, Fields
<1>4. f = IF c.instr_cnt < c.next_bbv_dump THEN c
          ELSE [c EXCEPT !.next_bbv_dump = d, !.bbv = EmptyBbv, !.lines = l, !.stop = r]
  BY DEF flush_bb_vector
<1>5. c.stop = "no"
  BY <1>1 DEF BbType, Fields
<1>6. ASSUME StartInterval = 0 PROVE v = b.bbv
  BY <1>3, <1>6 DEF Skipped
<1>7. v \in Vec /\ EmptyBbv \in Vec
  BY <1>1, <1>3, EmptyVec
<1>8. l \in Seq(Vec)
  BY <1>1, <1>3, <1>7
<1>9. l = IF v = EmptyBbv THEN b.lines ELSE Append(b.lines, v)
  BY <1>3
<1> HIDE DEF c, v, d, l, r, f
<1>10. CASE c.instr_cnt < c.next_bbv_dump
  <2>1. f.bbv = b.bbv /\ f.lines = b.lines /\ f.ninst = b.ninst
    BY <1>3, <1>4, <1>10
  <2>2. Balanced(f, s)
    BY <1>1, <1>2, <2>1, BalancedSame
  <2> QED BY <2>2 DEF f
<1>11. CASE ~(c.instr_cnt < c.next_bbv_dump)
  <2>1. f.bbv = EmptyBbv /\ f.lines = l /\ f.ninst = b.ninst
    BY <1>3, <1>4, <1>11 DEF Fields
  <2>2. ASSUME StartInterval = 0 PROVE Counted(Vectors(f)) = Counted(Vectors(b))
    <3>1. v = b.bbv
      BY <1>6, <2>2
    <3>2. CASE v = EmptyBbv
      BY <1>9, <2>1, <3>1, <3>2 DEF Vectors
    <3>3. CASE v # EmptyBbv
      <4>1. l = Vectors(b)
        BY <1>9, <3>1, <3>3 DEF Vectors
      <4>2. Counted(Append(l, EmptyBbv)) = Counted(l)
        BY <1>8, CountedEmpty
      <4> QED BY <2>1, <4>1, <4>2 DEF Vectors
    <3> QED BY <3>2, <3>3
  <2>3. Balanced(f, s)
    BY <1>1, <1>2, <1>7, <1>8, <2>1, <2>2 DEF Balanced
  <2> QED BY <2>3 DEF f
<1> QED BY <1>10, <1>11

\* Counting one more instruction keeps up with the program.
LEMMA CountBalanced ==
    ASSUME NEW b, NEW s, Balanced(b, s), NEW i \in Int
    PROVE  Balanced(Count(b), Append(s, i))
<1> DEFINE g == Count(b)
           t == b.total_insn_in_roi + 1
           n == b.ninst + 1
<1>1. /\ BbType(b) /\ b.bbv \in Vec /\ b.lines \in Seq(Vec) /\ b.ninst \in Nat
      /\ b.last_pc \in Nat /\ s \in Seq(Int) /\ (b.simpoint_roi = TRUE => b.en_pc = EnPc)
  BY DEF Balanced
<1>2. /\ BbType(g) /\ g.simpoint_roi = b.simpoint_roi /\ g.stop = b.stop
      /\ g.last_pc = b.last_pc /\ g.en_pc = b.en_pc
  BY <1>1, CountFields
<1>3. g = [b EXCEPT !.total_insn_in_roi = t, !.ninst = n]
  BY DEF Count
<1>4. n \in Nat /\ n = b.ninst + 1
  BY <1>1
<1>5. Append(s, i) \in Seq(Int) /\ Len(Append(s, i)) = Len(s) + 1
  BY <1>1
<1> HIDE DEF t, n, g
<1>6. g.bbv = b.bbv /\ g.lines = b.lines /\ g.ninst = n
  BY <1>1, <1>3 DEF BbType, Fields
<1>7. Vectors(g) = Vectors(b)
  BY <1>6 DEF Vectors
<1>8. ASSUME StartInterval = 0, b.stop \in {"no", "terminated"}
      PROVE  /\ IsFiniteSet(Counted(Vectors(g)))
             /\ Cardinality(Counted(Vectors(g))) + g.ninst = Len(Append(s, i))
  <2> DEFINE C == Counted(Vectors(b))
  <2>1. IsFiniteSet(C) /\ Cardinality(C) + b.ninst = Len(s)
    BY <1>8 DEF Balanced
  <2>2. Counted(Vectors(g)) = C
    BY <1>7
  <2> HIDE DEF C
  <2>3. Cardinality(C) \in Nat
    BY <2>1, FS_CardinalityType
  <2>4. Cardinality(C) + (b.ninst + 1) = Len(s) + 1
    <3>1. b.ninst \in Nat /\ Len(s) \in Nat
      BY <1>1
    <3>2. Cardinality(C) + b.ninst = Len(s)
      BY <2>1
    <3> QED BY ONLY <2>3, <3>1, <3>2
  <2> QED BY <1>4, <1>5, <1>6, <2>1, <2>2, <2>4
<1>9. Balanced(g, Append(s, i))
  BY <1>1, <1>2, <1>4, <1>5, <1>6, <1>8 DEF Balanced
<1> QED BY <1>9 DEF g

\* The tracks have nothing to do with it.
LEMMA LogBalanced ==
    ASSUME NEW b, NEW s, Balanced(b, s), insns \in Nat
    PROVE  Balanced(log_simpoint_tracks(b), s)
<1> DEFINE g == log_simpoint_tracks(b)
           l == Append(b.tracks, [warmup |-> b.warmup, start |-> b.start, end |-> insns])
           w == b.next_warmup
<1>1. BbType(b) /\ b.last_pc \in Nat /\ (b.simpoint_roi = TRUE => b.en_pc = EnPc)
  BY DEF Balanced
<1>2. /\ BbType(g) /\ g.simpoint_roi = b.simpoint_roi /\ g.stop = b.stop
      /\ g.last_pc = b.last_pc /\ g.en_pc = b.en_pc
  BY <1>1, LogFields
<1>3. \/ g = b \/ g = [b EXCEPT !.tracks = l] \/ g = [b EXCEPT !.start = insns]
      \/ g = [b EXCEPT !.warmup = w, !.next_warmup = insns]
  BY DEF log_simpoint_tracks, log_simpoint_end_insn_track
<1> HIDE DEF g, l, w
<1>4. g.bbv = b.bbv /\ g.lines = b.lines /\ g.ninst = b.ninst
  BY <1>1, <1>3 DEF BbType, Fields
<1>5. Balanced(g, s)
  BY <1>1, <1>2, <1>4, BalancedSame
<1> QED BY <1>5 DEF g

\* simpoint_step by its stages.
Stages(b, p, g, c, d, e, f) ==
    LET regular == b.last_pc # 0 /\ b.simpoint_roi /\ b.last_pc # b.en_pc
        first   == ~regular /\ b.simpoint_roi /\ p # b.en_pc
    IN  /\ c = IF regular THEN flush_bb_vector(capture_basic_block(b, p))
               ELSE IF first THEN flush_bb_vector(Count(b))
               ELSE b
        /\ d = IF regular THEN log_simpoint_tracks(Count(c)) ELSE c
        /\ e = IF d.last_pc = d.en_pc THEN log_simpoint_tracks(d) ELSE d
        /\ f = IF d.simpoint_roi /\ p # d.en_pc THEN [e EXCEPT !.last_pc = p] ELSE d
        /\ g = IF c.stop # "no" THEN c
               ELSE IF f.terminate THEN [f EXCEPT !.stop = "terminated"]
               ELSE f

LEMMA StepStages ==
    ASSUME NEW b, NEW p
    PROVE  \E c, d, e, f : Stages(b, p, simpoint_step(b, p), c, d, e, f)
<1> DEFINE regular == b.last_pc # 0 /\ b.simpoint_roi /\ b.last_pc # b.en_pc
           first   == ~regular /\ b.simpoint_roi /\ p # b.en_pc
           c == IF regular THEN flush_bb_vector(capture_basic_block(b, p))
                ELSE IF first THEN flush_bb_vector(Count(b))
                ELSE b
           d == IF regular THEN log_simpoint_tracks(Count(c)) ELSE c
           e == IF d.last_pc = d.en_pc THEN log_simpoint_tracks(d) ELSE d
           f == IF d.simpoint_roi /\ p # d.en_pc THEN [e EXCEPT !.last_pc = p] ELSE d
<1>1. simpoint_step(b, p) = IF c.stop # "no" THEN c
                            ELSE IF f.terminate THEN [f EXCEPT !.stop = "terminated"]
                            ELSE f
  BY Zenon DEF simpoint_step
<1>2. c = IF regular THEN flush_bb_vector(capture_basic_block(b, p))
          ELSE IF first THEN flush_bb_vector(Count(b))
          ELSE b
  OBVIOUS
<1> HIDE DEF c
<1>3. d = IF regular THEN log_simpoint_tracks(Count(c)) ELSE c
  OBVIOUS
<1> HIDE DEF d
<1>4. e = IF d.last_pc = d.en_pc THEN log_simpoint_tracks(d) ELSE d
  OBVIOUS
<1> HIDE DEF e
<1>5. f = IF d.simpoint_roi /\ p # d.en_pc THEN [e EXCEPT !.last_pc = p] ELSE d
  OBVIOUS
<1> HIDE DEF f
<1>6. Stages(b, p, simpoint_step(b, p), c, d, e, f)
  BY <1>1, <1>2, <1>3, <1>4, <1>5, Zenon DEF Stages
<1> QED BY <1>6

\* A traced instruction is counted once if it is one of a region, and not
\* otherwise.
LEMMA StepBalanced ==
    ASSUME NEW b, NEW s, Balanced(b, s), b.stop = "no", insns \in Nat, NEW p \in Addrs
    PROVE  Balanced(simpoint_step(b, p),
                    IF b.simpoint_roi THEN Append(s, insns) ELSE s)
<1> DEFINE g == simpoint_step(b, p)
           t == Append(s, insns)
<1>1. /\ BbType(b) /\ s \in Seq(Int) /\ b.simpoint_roi \in BOOLEAN /\ b.last_pc \in Nat
      /\ insns \in Int /\ t \in Seq(Int)
  BY DEF Balanced, BbType
<1>2. p # EnPc /\ p \in Nat
  <2>1. PICK i \in 1 .. 1000 : p = 4 * i
    BY BbTracerAssumption
  <2> QED BY <2>1, Addresses
<1>g. g = simpoint_step(b, p)
  OBVIOUS
<1> HIDE DEF g, t
<1>3. CASE b.simpoint_roi = FALSE
  <2>1. g = b \/ g = [b EXCEPT !.stop = "terminated"]
    <3>1. PICK c, d, e, f : Stages(b, p, g, c, d, e, f)
      BY <1>g, StepStages
    <3>2. c = b
      BY <1>3, <3>1 DEF Stages
    <3>3. d = b
      BY <1>3, <3>1, <3>2 DEF Stages
    <3>4. f = b
      BY <1>3, <3>1, <3>3 DEF Stages
    <3>5. g = IF c.stop # "no" THEN c
              ELSE IF f.terminate THEN [f EXCEPT !.stop = "terminated"]
              ELSE f
      BY <3>1 DEF Stages
    <3> QED BY <3>2, <3>4, <3>5
  <2>2. /\ BbType(g) /\ g.simpoint_roi = FALSE /\ g.last_pc = b.last_pc
        /\ g.bbv = b.bbv /\ g.lines = b.lines /\ g.ninst = b.ninst
    BY <1>1, <1>3, <2>1 DEF BbType, Fields, Stops
  <2>3. Balanced(g, s)
    BY <1>1, <2>2, BalancedSame
  <2> QED BY <1>3, <2>3 DEF g
\* The last assignments.
<1>4. ASSUME NEW e, Balanced(e, t), e.stop = "no", e.simpoint_roi = TRUE, Closed(g, e, p)
      PROVE  Balanced(g, t)
  <2>1. BbType(e) /\ e.en_pc = EnPc
    BY <1>4 DEF Balanced
  <2>2. /\ BbType(g) /\ g.simpoint_roi = TRUE /\ g.en_pc = EnPc /\ g.last_pc = p
        /\ g.bbv = e.bbv /\ g.lines = e.lines /\ g.ninst = e.ninst
    <3>1. CASE g = [e EXCEPT !.last_pc = p]
      BY <1>4, <2>1, <3>1 DEF BbType, Fields
    <3>2. CASE g = [[e EXCEPT !.last_pc = p] EXCEPT !.stop = "terminated"]
      BY <1>4, <2>1, <3>2 DEF BbType, Fields, Stops
    <3> QED BY <1>4, <3>1, <3>2 DEF Closed
  <2> QED BY <1>2, <1>4, <2>2, BalancedSame
<1>5. CASE b.simpoint_roi = TRUE /\ b.last_pc # 0 /\ b.last_pc # b.en_pc
  <2> DEFINE a == capture_basic_block(b, p)
             c == flush_bb_vector(a)
             d == Count(c)
             e == log_simpoint_tracks(d)
  <2>1. Balanced(a, s) /\ a.stop = "no" /\ a.simpoint_roi = TRUE
        /\ a.last_pc = b.last_pc /\ a.en_pc = b.en_pc /\ BbType(a)
    BY <1>1, <1>5, CaptureBalanced, CaptureFields
  <2> HIDE DEF a
  <2>2. Balanced(c, s) /\ c.simpoint_roi = TRUE /\ c.last_pc = b.last_pc
        /\ c.en_pc = b.en_pc /\ BbType(c) /\ (c.stop = "no" \/ c.stop = "max")
    BY <2>1, FlushBalanced, FlushFields
  <2> HIDE DEF c
  <2>3. Balanced(d, t) /\ d.simpoint_roi = TRUE /\ d.last_pc = b.last_pc
        /\ d.en_pc = b.en_pc /\ BbType(d) /\ d.stop = c.stop
    BY <1>1, <2>2, CountBalanced, CountFields DEF t
  <2> HIDE DEF d
  <2>4. Balanced(e, t) /\ e.simpoint_roi = TRUE /\ e.last_pc = b.last_pc
        /\ e.en_pc = b.en_pc /\ e.stop = c.stop
    BY <2>3, LogBalanced, LogFields
  <2> HIDE DEF e
  <2>5. b.en_pc = EnPc
    BY <1>5 DEF Balanced
  <2>6. CASE c.stop = "no"
    <3>1. e = log_simpoint_tracks(Count(flush_bb_vector(capture_basic_block(b, p))))
      BY DEF e, d, c, a
    <3>2. Closed(g, e, p)
      BY <1>2, <1>5, <1>g, <2>4, <2>5, <2>6, <3>1 DEF simpoint_step, Closed, c, a
    <3>3. Balanced(g, t)
      BY <1>4, <2>4, <2>6, <3>2
    <3> QED BY <1>5, <3>3 DEF g, t
  <2>7. CASE c.stop = "max"
    <3>1. g = c
      BY <1>5, <1>g, <2>7 DEF simpoint_step, c, a
    <3>2. Balanced(g, t)
      BY <1>1, <2>2, <2>7, <3>1 DEF Balanced
    <3> QED BY <1>5, <3>2 DEF g, t
  <2> QED BY <2>2, <2>6, <2>7
<1>6. CASE b.simpoint_roi = TRUE /\ (b.last_pc = 0 \/ b.last_pc = b.en_pc)
  <2> DEFINE a == Count(b)
  <2>0. b.en_pc = EnPc
    BY <1>6 DEF Balanced
  <2>1. Balanced(a, t) /\ a.stop = "no" /\ a.simpoint_roi = TRUE
        /\ a.last_pc = b.last_pc /\ a.en_pc = b.en_pc /\ BbType(a)
    BY <1>1, <1>6, CountBalanced, CountFields DEF t
  <2>s. PICK c, d, e, f : Stages(b, p, g, c, d, e, f)
    BY <1>g, StepStages
  <2>a. c = flush_bb_vector(a)
    BY <1>2, <1>6, <2>0, <2>s DEF Stages
  <2> HIDE DEF a
  <2>2. Balanced(c, t) /\ c.simpoint_roi = TRUE /\ c.last_pc = b.last_pc
        /\ c.en_pc = b.en_pc /\ BbType(c) /\ (c.stop = "no" \/ c.stop = "max")
    BY <2>1, <2>a, FlushBalanced, FlushFields
  <2>3. d = c
    BY <1>6, <2>s DEF Stages
  <2>4. e = log_simpoint_tracks(c) \/ e = c
    BY <2>s, <2>3 DEF Stages
  <2>5. Balanced(e, t) /\ e.simpoint_roi = TRUE /\ e.stop = c.stop
    <3>1. Balanced(log_simpoint_tracks(c), t)
      BY <2>2, LogBalanced
    <3>2. /\ log_simpoint_tracks(c).simpoint_roi = c.simpoint_roi
          /\ log_simpoint_tracks(c).stop = c.stop
      BY <2>2, LogFields, Zenon
    <3> QED BY <2>2, <2>4, <3>1, <3>2
  <2>6. f = [e EXCEPT !.last_pc = p]
    BY <1>2, <2>0, <2>s, <2>2, <2>3 DEF Stages
  <2>7. g = IF c.stop # "no" THEN c
            ELSE IF f.terminate THEN [f EXCEPT !.stop = "terminated"]
            ELSE f
    BY <2>s DEF Stages
  <2>8. CASE c.stop = "no"
    <3>1. Closed(g, e, p)
      BY <2>6, <2>7, <2>8 DEF Closed
    <3>2. Balanced(g, t)
      BY <1>4, <2>5, <2>8, <3>1
    <3> QED BY <1>6, <3>2 DEF g, t
  <2>9. CASE c.stop = "max"
    <3>1. g = c
      BY <2>7, <2>9
    <3> QED BY <1>6, <2>2, <3>1 DEF g, t
  <2> QED BY <2>2, <2>8, <2>9
<1> QED BY <1>1, <1>3, <1>5, <1>6

\* A store of the SimPoint register counts nothing: the end of a region closes
\* its last block.
LEMMA MacroBalanced ==
    ASSUME NEW b, NEW s, Balanced(b, s), b.stop = "no", NEW v \in 0 .. 2,
           NEW g, g = handle_simpoint_macro(b, v)
    PROVE  /\ Balanced(g, s) /\ g.simpoint_roi \in BOOLEAN
           /\ g.simpoint_roi <=> (v = 1 \/ (v = 2 /\ b.simpoint_roi))
<1>1. /\ BbType(b) /\ b.simpoint_roi \in BOOLEAN /\ b.last_pc \in Nat
      /\ (b.simpoint_roi = TRUE => b.en_pc = EnPc)
  BY DEF Balanced, BbType
<1>2. CASE v = 0 /\ b.simpoint_roi = TRUE
  <2> DEFINE a == capture_basic_block(b, 0)
             c == flush_bb_vector(a)
             r == IF c.stop = "no" THEN c.stop ELSE "abort"
  <2>1. Balanced(a, s) /\ a.stop = "no" /\ BbType(a)
    BY <1>1, CaptureBalanced, CaptureFields
  <2>2. g = [c EXCEPT !.simpoint_roi = FALSE, !.last_pc = 0, !.stop = r]
    BY <1>2 DEF handle_simpoint_macro
  <2> HIDE DEF a
  <2>3. Balanced(c, s) /\ BbType(c)
    BY <2>1, FlushBalanced, FlushFields
  <2>4. r \in Stops /\ (r \in {"no", "terminated"} => c.stop \in {"no", "terminated"})
    BY DEF Stops
  <2> HIDE DEF c, r
  <2>5. /\ BbType(g) /\ g.simpoint_roi = FALSE /\ g.last_pc = 0 /\ g.stop = r
        /\ g.bbv = c.bbv /\ g.lines = c.lines /\ g.ninst = c.ninst
    BY <2>2, <2>3, <2>4 DEF BbType, Fields
  <2>6. /\ g.last_pc \in Nat /\ ~(g.simpoint_roi = TRUE)
        /\ g.stop \in {"no", "terminated"} => c.stop \in {"no", "terminated"}
    BY <2>4, <2>5
  <2>7. Balanced(g, s)
    BY <2>3, <2>5, <2>6, BalancedSame
  <2>8. g.simpoint_roi \in BOOLEAN /\ ~g.simpoint_roi
    BY <2>5
  <2>9. ~(v = 1 \/ (v = 2 /\ b.simpoint_roi))
    BY <1>2
  <2> QED BY <2>7, <2>8, <2>9, Zenon
<1>3. CASE v = 0 /\ b.simpoint_roi = FALSE
  <2>1. g = b
    BY <1>3 DEF handle_simpoint_macro
  <2> QED BY <1>1, <1>3, <2>1
<1>4. CASE v = 1 /\ b.simpoint_roi = TRUE
  <2>1. g = b
    BY <1>4 DEF handle_simpoint_macro
  <2> QED BY <1>1, <1>4, <2>1
<1>5. CASE v = 1 /\ b.simpoint_roi = FALSE
  <2>1. g = [b EXCEPT !.simpoint_roi = TRUE, !.en_pc = EnPc, !.last_pc = EnPc,
                      !.total_insn_in_roi = 0]
    BY <1>5 DEF handle_simpoint_macro
  <2>2. g.simpoint_roi = TRUE /\ g.en_pc = EnPc /\ g.last_pc = EnPc /\ g.total_insn_in_roi = 0
    BY <1>1, <2>1 DEF BbType, Fields
  <2>3. g.bbv = b.bbv /\ g.lines = b.lines /\ g.ninst = b.ninst /\ g.stop = b.stop
    BY <1>1, <2>1 DEF BbType, Fields
  <2>4. BbType(g)
    <3>1. DOMAIN g = Fields /\ g.terminate = b.terminate /\ g.instr_cnt = b.instr_cnt
      BY <1>1, <2>1 DEF BbType, Fields
    <3>2. /\ g.next_bbv_dump = b.next_bbv_dump /\ g.tracks = b.tracks
          /\ g.start = b.start /\ g.warmup = b.warmup /\ g.next_warmup = b.next_warmup
      BY <1>1, <2>1 DEF BbType, Fields
    <3>3. g.simpoint_roi \in BOOLEAN
      BY <2>2, Zenon
    <3>4. g.total_insn_in_roi \in Nat
      BY <2>2
    <3> QED BY <1>1, <2>3, <3>1, <3>2, <3>3, <3>4, Zenon DEF BbType
  <2>5. g.last_pc \in Nat
    BY <2>2 DEF EnPc
  <2>6. Balanced(g, s)
    BY <2>2, <2>3, <2>4, <2>5, BalancedSame
  <2> QED BY <1>5, <2>2, <2>6
<1>6. CASE v = 2
  <2>1. g = [b EXCEPT !.terminate = TRUE]
    BY <1>6 DEF handle_simpoint_macro
  <2>2. /\ BbType(g) /\ g.simpoint_roi = b.simpoint_roi /\ g.en_pc = b.en_pc
        /\ g.last_pc = b.last_pc /\ g.stop = b.stop
        /\ g.bbv = b.bbv /\ g.lines = b.lines /\ g.ninst = b.ninst
    BY <1>1, <2>1 DEF BbType, Fields
  <2>3. Balanced(g, s)
    BY <1>1, <2>2, BalancedSame
  <2> QED BY <1>1, <1>6, <2>2, <2>3
<1>7. (v = 0 \/ v = 1 \/ v = 2) /\ (b.simpoint_roi = TRUE \/ b.simpoint_roi = FALSE)
  BY <1>1
<1> QED BY <1>2, <1>3, <1>4, <1>5, <1>6, <1>7, Zenon

-----------------------------------------------------------------------------
(* Every step keeps the balance                                            *)

\* Nothing has been executed and nothing counted.
LEMMA InitBalanced == BbInit => BalancedInv
<1>s. SimpointSize \in Nat
  BY Sizes
<1> SUFFICES ASSUME BbInit PROVE BalancedInv
  OBVIOUS
<1>1. BbType(bb)
  BY <1>s DEF BbInit, BbType, Fields, Stops, NoInsn
<1>2. /\ bb.bbv = EmptyBbv /\ bb.lines = <<>> /\ bb.ninst = 0 /\ bb.last_pc = 0
      /\ bb.simpoint_roi = FALSE /\ seen = <<>>
  BY DEF BbInit
<1>3. Counted(Vectors(bb)) = {}
  <2>1. <<>> \in Seq(Vec)
    OBVIOUS
  <2>2. Counted(Append(<<>>, EmptyBbv)) = Counted(<<>>)
    BY <2>1, CountedEmpty
  <2>3. Counted(<<>>) = {}
    BY DEF Counted
  <2> QED BY <1>2, <2>2, <2>3 DEF Vectors
<1>4. IsFiniteSet(Counted(Vectors(bb))) /\ Cardinality(Counted(Vectors(bb))) = 0
  BY <1>3, FS_EmptySet
<1>5. Balanced(bb, seen)
  BY <1>1, <1>2, <1>4, EmptyVec DEF Balanced
<1> QED BY <1>5 DEF BbInit, BalancedInv

\* Every instruction, system call, write of the SimPoint CSR, checkpoint and
\* restore keeps the balance.
LEMMA KeepsBalanced == BalancedInv /\ [BbNext]_bbVars => BalancedInv'
<1> SUFFICES ASSUME BalancedInv, [BbNext]_bbVars PROVE BalancedInv'
  OBVIOUS
<1>1. Balanced(bb, seen) /\ insns \in Nat
  BY DEF BalancedInv
<1>2. bb.simpoint_roi \in BOOLEAN
  BY <1>1 DEF Balanced, BbType
<1>3. ASSUME Balanced(bb', seen'), insns' \in Nat, UNCHANGED saved PROVE BalancedInv'
  BY <1>3 DEF BalancedInv
<1>4. ASSUME NEW p \in Addrs, NEW mine \in BOOLEAN, execute_insn(p, mine) PROVE BalancedInv'
  <2>1. bb.stop = "no" /\ insns' = insns + 1 /\ UNCHANGED saved
    BY <1>4 DEF execute_insn, Running
  <2>2. CASE Traced(mine)
    <3>1. /\ bb' = simpoint_step(bb, p)
          /\ seen' = IF bb.simpoint_roi THEN Append(seen, insns) ELSE seen
      BY <1>4, <2>2 DEF execute_insn
    <3>2. Balanced(simpoint_step(bb, p), IF bb.simpoint_roi THEN Append(seen, insns) ELSE seen)
      BY <1>1, <2>1, StepBalanced
    <3> QED BY <1>1, <1>3, <2>1, <3>1, <3>2
  <2>3. CASE ~Traced(mine)
    <3>1. bb' = bb /\ seen' = seen
      BY <1>4, <2>3 DEF execute_insn
    <3> QED BY <1>1, <1>3, <2>1, <3>1
  <2> QED BY <2>2, <2>3
<1>5. ASSUME NEW p \in Addrs, user_ecall(p) PROVE BalancedInv'
  <2>1. /\ bb.stop = "no" /\ bb.simpoint_roi /\ UNCHANGED <<insns, saved>>
        /\ bb' = simpoint_step(bb, p) /\ seen' = Append(seen, insns)
    BY <1>5 DEF user_ecall, Running
  <2>2. Balanced(simpoint_step(bb, p), Append(seen, insns))
    BY <1>1, <2>1, StepBalanced
  <2> QED BY <1>1, <1>3, <2>1, <2>2
<1>6. ASSUME NEW p \in Addrs, NEW val \in 0 .. 2, NEW mine \in BOOLEAN, NEW slow \in BOOLEAN,
             simpoint_csr_write(p, val, mine, slow)
      PROVE  BalancedInv'
  <2> DEFINE b == handle_simpoint_macro(bb, val)
             s == slow /\ Traced(mine) /\ b.stop = "no"
             opens == val = 1 \/ (val = 2 /\ bb.simpoint_roi)
  <2>1. /\ bb.stop = "no" /\ insns' = insns + 1 /\ UNCHANGED saved
        /\ bb' = IF s THEN simpoint_step(b, p) ELSE b
        /\ seen' = IF s /\ opens THEN Append(seen, insns) ELSE seen
    BY <1>6 DEF simpoint_csr_write, Running
  <2>2. b = handle_simpoint_macro(bb, val)
    OBVIOUS
  <2> HIDE DEF b
  <2>3. Balanced(b, seen) /\ b.simpoint_roi \in BOOLEAN /\ (b.simpoint_roi <=> opens)
    BY <1>1, <2>1, <2>2, MacroBalanced
  <2>4. CASE s
    <3>1. /\ b.stop = "no" /\ bb' = simpoint_step(b, p)
          /\ seen' = IF b.simpoint_roi THEN Append(seen, insns) ELSE seen
      BY <2>1, <2>3, <2>4
    <3>2. Balanced(simpoint_step(b, p), IF b.simpoint_roi THEN Append(seen, insns) ELSE seen)
      BY <1>1, <2>3, <3>1, StepBalanced
    <3> QED BY <1>1, <1>3, <2>1, <3>1, <3>2
  <2>5. CASE ~s
    <3>1. bb' = b /\ seen' = seen
      BY <2>1, <2>5
    <3> QED BY <1>1, <1>3, <2>1, <2>3, <3>1
  <2> QED BY <2>4, <2>5
<1>7. CASE checkpoint
  <2>1. saved'[1] = [bb |-> bb, executed |-> insns, started |-> started, seen |-> seen]
    BY <1>7 DEF checkpoint
  <2>2. saved'[1].bb = bb /\ saved'[1].executed = insns /\ saved'[1].seen = seen
    BY <2>1
  <2>3. UNCHANGED <<bb, insns, seen>>
    BY <1>7 DEF checkpoint
  <2> QED BY <1>1, <2>2, <2>3 DEF BalancedInv
<1>8. CASE checkpoint_restore
  <2>1. /\ bb' = [saved[1].bb EXCEPT !.terminate = FALSE] /\ insns' = saved[1].executed
        /\ seen' = saved[1].seen /\ UNCHANGED saved /\ saved # NoCheckpoint
    BY <1>8 DEF checkpoint_restore
  <2> DEFINE b == saved[1].bb
  <2>2. Balanced(b, saved[1].seen) /\ saved[1].executed \in Nat
    BY <2>1 DEF BalancedInv
  <2>3. bb' = [b EXCEPT !.terminate = FALSE]
    BY <2>1
  <2> HIDE DEF b
  <2>4. BbType(b) /\ b.last_pc \in Nat /\ (b.simpoint_roi = TRUE => b.en_pc = EnPc)
    BY <2>2 DEF Balanced
  <2>5. /\ BbType(bb') /\ bb'.simpoint_roi = b.simpoint_roi /\ bb'.en_pc = b.en_pc
        /\ bb'.last_pc = b.last_pc /\ bb'.stop = b.stop
        /\ bb'.bbv = b.bbv /\ bb'.lines = b.lines /\ bb'.ninst = b.ninst
    BY <2>3, <2>4 DEF BbType, Fields
  <2>6. Balanced(bb', saved[1].seen)
    BY <2>2, <2>4, <2>5, BalancedSame
  <2> QED BY <1>3, <2>1, <2>2, <2>6
<1>9. CASE Finished \/ UNCHANGED bbVars
  BY <1>1, <1>3, <1>9 DEF Finished, bbVars
<1> QED BY <1>4, <1>5, <1>6, <1>7, <1>8, <1>9 DEF BbNext

\* No instruction of a region of interest is lost or counted twice by the
\* vectors (capture_basic_block and flush_bb_vector, riscv/bb_tracer.cc): for
\* every program, size of an interval, number of regions, system calls, and
\* across a checkpoint and its restore.
THEOREM BbVectorsConserve == BbSpec => []BbvConserves
<1>1. BbInit => BalancedInv
  BY InitBalanced
<1>2. BalancedInv /\ [BbNext]_bbVars => BalancedInv'
  BY KeepsBalanced
<1>3. BalancedInv => BbvConserves
  BY DEF BalancedInv, Balanced, BbvConserves, Vectors
<1> QED BY <1>1, <1>2, <1>3, PTL DEF BbSpec
=============================================================================
