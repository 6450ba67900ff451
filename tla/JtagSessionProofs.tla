-------------------------- MODULE JtagSessionProofs --------------------------
(***************************************************************************)
(* Proofs about JtagSession, for every number of idle cycles, of lost      *)
(* connections and of cycles that the DTM and the debug module ask for.    *)
(* The invariant of the transport tells everything about TAP and debugger  *)
(* from the position in the sequence of clock cycles being sent; the one   *)
(* of the protocol, what the debugger has made of the debug module.  From  *)
(* the two follows that the session implements DebugModule, and with it    *)
(* everything DebugModuleProofs proves.                                    *)
(***************************************************************************)
EXTENDS JtagSession, TLAPS

-----------------------------------------------------------------------------
(* What the debugger sends, by position                                    *)

\* A clock cycle the debugger sends, and the k-th bit of a word.
Cycles == [s : {0, 1}, i : {0, 1}]
Bit(value, k) == (value \div 2 ^ (k - 1)) % 2

\* The word of the scan that is under way.
Word == IF phase = "op_sent" THEN WordOf[goal] ELSE NOP

\* The j-th cycle of a scan of the DMI register: idle cycles follow the ninth.
ScanCycle(j) == Cycle(IF j \in {1, 7, 8} THEN 1 ELSE 0,
                      IF j \in 4 .. 7 THEN Bit(Word, j - 3) ELSE 0)

\* The state of the TAP after pos cycles of it.
ScanState(pos) ==
    CASE pos = 1 -> "select_dr_scan" [] pos = 2 -> "capture_dr"
      [] pos \in 3 .. 6 -> "shift_dr" [] pos = 7 -> "exit1_dr"
      [] pos = 8 -> "update_dr" [] OTHER -> "run_test_idle"

\* The j-th cycle of the sequence that leads from Test-Logic-Reset to the DMI
\* register.  The short one lacks the first five cycles.
StartCycle(j) == Cycle(IF j \in (1 .. 5) \cup {7, 8, 12, 13} THEN 1 ELSE 0,
                       IF j \in {11, 12} THEN 1 ELSE 0)

\* The state of the TAP after pos cycles of it.
StartState(pos) ==
    CASE pos \in 0 .. 5 -> "test_logic_reset"
      [] pos = 7 -> "select_dr_scan" [] pos = 8 -> "select_ir_scan"
      [] pos = 9 -> "capture_ir" [] pos \in {10, 11} -> "shift_ir"
      [] pos = 12 -> "exit1_ir" [] pos = 13 -> "update_ir"
      [] OTHER -> "run_test_idle"

\* The j-th cycle of the sequence that writes bits to DTMCONTROL and selects
\* the DMI register again.
ResetCycle(bits, j) ==
    Cycle(IF j \in {1, 2, 6, 7, 9, 13, 14, 16, 17, 21, 22} THEN 1 ELSE 0,
          CASE j \in {6, 20, 21} -> 1
            [] j \in {12, 13} -> Bit(bits, j - 11)
            [] OTHER -> 0)

\* The state of the TAP after pos cycles of it, unless it was reset.
ResetState(pos) ==
    CASE pos \in {1, 9, 16} -> "select_dr_scan" [] pos \in {2, 17} -> "select_ir_scan"
      [] pos \in {3, 18} -> "capture_ir" [] pos \in {4, 5, 19, 20} -> "shift_ir"
      [] pos \in {6, 21} -> "exit1_ir" [] pos \in {7, 22} -> "update_ir"
      [] pos = 10 -> "capture_dr" [] pos \in {11, 12} -> "shift_dr"
      [] pos = 13 -> "exit1_dr" [] pos = 14 -> "update_dr"
      [] OTHER -> "run_test_idle"

-----------------------------------------------------------------------------
(* The inductive invariant of the transport                                *)

\* The values of goal and phase.
Goals  == DOMAIN WordOf
Phases == {"connect", "reset", "op", "op_sent", "fetch", "fetch_sent"}

\* The types of the TAP and of the debugger; dmi never holds the code BUSY.
TypeInv ==
    /\ {tck, tms, tdi, tdo} \subseteq {0, 1} /\ state \in DOMAIN NextState
    /\ ir \in 0 .. 3 /\ dr \in Nat /\ dr_length \in {1, 2, 4} /\ bypass \in Nat
    /\ dmi \in 0 .. 15 /\ DmiOp(dmi) \in {SUCCESS, FAILED}
    /\ busy_stuck \in BOOLEAN
    /\ goal \in Goals /\ phase \in Phases /\ plan \in Seq(Cycles)
    /\ low \in BOOLEAN /\ got \in Seq({0, 1}) /\ delay \in Nat /\ times \in Nat
    /\ answer \in {0, 1}

\* The pins of the cycle that is half done are those of the plan.
PinsInv ==
    /\ plan = <<>> => low
    /\ ~low => tck = 0 /\ tms = plan[1].s /\ tdi = plan[1].i

\* dmi is the result of the operation of the present goal.
Pending ==
    /\ done = WordOf[goal]
    /\ DmiOp(dmi) = IF Success(done) THEN SUCCESS ELSE FAILED
    /\ DmiOp(done) = READ /\ Success(done) => DmiArg(dmi) = answer

\* What the scan reads: the register as it was captured.
Cap == IF busy_stuck THEN BUSY ELSE dmi

\* The register when n bits of Cap have left it and n of Word have entered.
Shifting(n) ==
    CASE n = 0 -> Cap
      [] n = 1 -> (Cap \div 2) + (8 * (Word % 2))
      [] n = 2 -> (Cap \div 4) + (4 * (Word % 4))
      [] n = 3 -> (Cap \div 8) + (2 * (Word % 8))
      [] OTHER -> Word

\* A scan of the DMI register is under way, or waits to be looked at.
Scanning == phase \in {"op_sent", "fetch_sent"}

\* Before the capture; between the capture and the update; after the update.
Waiting(pos)   == pos < 2 \/ (pos = 2 /\ low)
Capturing(pos) == (pos = 2 /\ ~low) \/ pos \in 3 .. 7 \/ (pos = 8 /\ low)
Updated(pos)   == (pos = 8 /\ ~low) \/ pos > 8

\* The bits of Word that have entered, and those of Cap that have been read.
Entered(pos) == IF pos <= 3 THEN 0 ELSE IF pos >= 7 THEN 4 ELSE pos - 3
Read(pos) == IF pos \in 3 .. 6 /\ ~low THEN Entered(pos) + 1 ELSE Entered(pos)

\* What is known of the result once the scan was carried out, or before.
Carried ==
    /\ phase = "op_sent" /\ times = 1 => Pending
    /\ phase = "fetch_sent" /\ times = 0 => Pending
    /\ phase = "fetch_sent" /\ times = 1 =>
          /\ done = WordOf[goal]
          /\ DmiOp(Captured) = IF Success(done) THEN SUCCESS ELSE FAILED
          /\ DmiOp(done) = READ /\ Success(done) => DmiArg(Captured) = answer

\* The scan after pos cycles: what is left of the plan, where the TAP is, what
\* is in its register, what was read, and how often the word was carried out.
ScanAt(pos) ==
    /\ \A k \in 1 .. Len(plan) : plan[k] = ScanCycle(pos + k)
    /\ state = ScanState(pos) /\ ir = IR_DBUS /\ goal # "done"
    /\ Waiting(pos) => got = <<>> /\ times = 0
    /\ Capturing(pos) => /\ times = 0 /\ dr_length = DmiLength /\ dr = Shifting(Entered(pos))
                         /\ Len(got) = Read(pos)
                         /\ \A k \in 1 .. Read(pos) : got[k] = Bit(Cap, k)
    /\ Updated(pos) => /\ times = IF busy_stuck THEN 0 ELSE 1
                       /\ DmiOp(Captured) = BUSY <=> busy_stuck
    /\ Carried

\* The cycles of a scan with the idle cycles after it.
ScanLength == 9 + delay

\* A scan is at the position that the rest of the plan tells.
ScanInv == Scanning => Len(plan) \in 0 .. ScanLength /\ ScanAt(ScanLength - Len(plan))

\* The two sequences between scans.
Starting ==
    LET pos == 14 - Len(plan)
    IN  /\ phase = "op" /\ Len(plan) \in 0 .. 14
        /\ \A k \in 1 .. Len(plan) : plan[k] = StartCycle(pos + k)
        /\ state = StartState(pos)
        /\ pos = 11 => ir \in {2, 3}
        /\ pos >= 12 => ir = IR_DBUS

\* DTMCONTROL is written; dmihardreset sends the TAP to Test-Logic-Reset and
\* the rest of the sequence goes on from there.
ResettingAt(bits, pos) ==
    /\ \A k \in 1 .. Len(plan) : plan[k] = ResetCycle(bits, pos + k)
    /\ state = IF pos = 14 /\ ~low /\ bits = DTMCONTROL_DMIHARDRESET
               THEN "test_logic_reset" ELSE ResetState(pos)
    /\ pos = 5 => ir \in {0, 1}
    /\ pos \in 6 .. 19 => ir = IR_DTMCONTROL
    /\ pos >= 20 => ir = IR_DBUS
    /\ (pos = 10 /\ ~low) \/ pos = 11 => dr = 0 /\ dr_length = 2
    /\ pos = 12 => dr = 2 * Bit(bits, 1) /\ dr_length = 2
    /\ pos = 13 \/ (pos = 14 /\ low) => dr = bits

\* The same, at the position that the rest of the plan tells.
Resetting(bits) == Len(plan) \in 0 .. 23 /\ ResettingAt(bits, 23 - Len(plan))

\* Between scans the debugger is in one of the two sequences.
BetweenInv ==
    /\ phase \in {"op", "fetch"} =>
          \/ Starting
          \/ Resetting(DTMCONTROL_DMIRESET)
          \/ phase = "op" /\ Resetting(DTMCONTROL_DMIHARDRESET)
    /\ phase = "fetch" => Pending
    /\ phase \in {"connect", "reset"} => plan = <<>>
    /\ phase = "reset" => state = "test_logic_reset"

\* The invariant of the transport.
TapInv == TypeInv /\ PinsInv /\ ScanInv /\ BetweenInv
-----------------------------------------------------------------------------
(* The protocol the debugger keeps                                         *)

\* The operation of the present goal was carried out.
Performed == phase \in {"fetch", "fetch_sent"} \/ (phase = "op_sent" /\ times = 1)

\* The hart is held by a halt request.
Held ==
    \/ goal \in {"wait_halt", "command", "wait_command"}
    \/ goal = "halt" /\ Performed
    \/ goal = "resume" /\ ~Performed

\* No command is under way.
Free ==
    \/ goal \in {"clear", "halt", "wait_halt", "resume", "wait_resume", "probe", "done"}
    \/ goal = "command" /\ ~Performed
    \/ goal \in {"check", "wait_command"} /\ Performed /\ answer = 0

\* The debugger has given no command in this connection yet.
Before ==
    \/ goal \in {"check", "clear", "halt", "wait_halt"}
    \/ goal = "command" /\ ~Performed

\* Only the debugger's first halt brings the debug module to life.
Asleep ==
    ~dmactive => /\ rom[0] = "run" /\ halt_request[0] = FALSE
                 /\ cmderr = {} /\ raised = FALSE /\ busy = FALSE

\* The invariant of the protocol: the hart is held while a command may run, no
\* command is under way when the next is given, and one is given.
ProtoInv ==
    /\ hartsel = 0 /\ available = {0} /\ Asleep
    /\ Held => dmactive = TRUE /\ halt_request[0] = TRUE
    /\ Free => ~busy
    /\ phase \in {"connect", "reset"} => goal = "check"
    /\ phase # "connect" => commands = IF Before THEN 0 ELSE 1
-----------------------------------------------------------------------------
(* Words, sequences and the state table                                    *)

\* The table of set_pins, row by row.
LEMMA StateTable ==
    /\ NextState["test_logic_reset"] = <<"run_test_idle", "test_logic_reset">>
    /\ NextState["run_test_idle"] = <<"run_test_idle", "select_dr_scan">>
    /\ NextState["select_dr_scan"] = <<"capture_dr", "select_ir_scan">>
    /\ NextState["capture_dr"] = <<"shift_dr", "exit1_dr">>
    /\ NextState["shift_dr"] = <<"shift_dr", "exit1_dr">>
    /\ NextState["exit1_dr"] = <<"pause_dr", "update_dr">>
    /\ NextState["update_dr"] = <<"run_test_idle", "select_dr_scan">>
    /\ NextState["select_ir_scan"] = <<"capture_ir", "test_logic_reset">>
    /\ NextState["capture_ir"] = <<"shift_ir", "exit1_ir">>
    /\ NextState["shift_ir"] = <<"shift_ir", "exit1_ir">>
    /\ NextState["exit1_ir"] = <<"pause_ir", "update_ir">>
    /\ NextState["update_ir"] = <<"run_test_idle", "select_dr_scan">>
  BY DEF NextState

\* Every move of the table stays in it.
LEMMA NextStateType ==
    ASSUME NEW x \in DOMAIN NextState, NEW b \in {0, 1}
    PROVE  NextState[x][b + 1] \in DOMAIN NextState
  BY DEF NextState

\* The words of the DMI register.
LEMMA Words == \A g \in Goals : WordOf[g] \in 0 .. 15
  BY DEF Goals, WordOf, Dmi, READ, WRITE, ABSTRACTCS, CLEAR, HALT, DMSTATUS, COMMAND,
         RESUME, NOWHERE

\* The word of a scan has four bits.
LEMMA WordType == TypeInv => Word \in 0 .. 15
  BY Words DEF TypeInv, Word, NOP

\* A number of four bits is the sum of its bits.
LEMMA FourBits ==
    ASSUME NEW v \in 0 .. 15
    PROVE  /\ \A k \in 1 .. 4 : Bit(v, k) \in {0, 1}
           /\ Bit(v, 1) + (2 * Bit(v, 2)) + (4 * Bit(v, 3)) + (8 * Bit(v, 4)) = v
<1>1. /\ Bit(v, 1) = v % 2
      /\ Bit(v, 2) = (v \div 2) % 2
      /\ Bit(v, 3) = (v \div 4) % 2
      /\ Bit(v, 4) = (v \div 8) % 2
  BY DEF Bit
<1>2. ASSUME NEW k \in 1 .. 4 PROVE Bit(v, k) \in {0, 1}
  <2>1. k = 1 \/ k = 2 \/ k = 3 \/ k = 4
    OBVIOUS
  <2>2. /\ v % 2 \in {0, 1} /\ (v \div 2) % 2 \in {0, 1}
        /\ (v \div 4) % 2 \in {0, 1} /\ (v \div 8) % 2 \in {0, 1}
    OBVIOUS
  <2> QED BY <1>1, <2>1, <2>2
<1>3. (v % 2) + (2 * ((v \div 2) % 2)) + (4 * ((v \div 4) % 2)) + (8 * ((v \div 8) % 2)) = v
  OBVIOUS
<1> QED BY <1>1, <1>2, <1>3

\* What is left of a sequence after its first element.
LEMMA Rest ==
    ASSUME NEW S, NEW s \in Seq(S), s # <<>>
    PROVE  /\ Len(s) \in Nat \ {0} /\ Head(s) = s[1] /\ s[1] \in S
           /\ Tail(s) \in Seq(S) /\ Len(Tail(s)) = Len(s) - 1
           /\ \A k \in 1 .. Len(s) - 1 : Tail(s)[k] = s[k + 1]
  OBVIOUS

\* The pieces that sequences are put together from.
LEMMA TmsType ==
    ASSUME NEW s \in Seq({0, 1})
    PROVE  /\ Tms(s) \in Seq(Cycles) /\ Len(Tms(s)) = Len(s)
           /\ \A k \in 1 .. Len(s) : Tms(s)[k] = Cycle(s[k], 0)
<1>1. DOMAIN s = 1 .. Len(s) /\ Len(s) \in Nat /\ \A k \in 1 .. Len(s) : s[k] \in {0, 1}
  OBVIOUS
<1>2. Tms(s) = [k \in 1 .. Len(s) |-> Cycle(s[k], 0)]
  BY <1>1 DEF Tms
<1>3. \A k \in 1 .. Len(s) : Cycle(s[k], 0) \in Cycles
  BY <1>1 DEF Cycle, Cycles
<1> QED BY <1>1, <1>2, <1>3

\* The cycles of Bits, which shift in a word of two or four bits.
LEMMA BitsType ==
    ASSUME NEW v \in 0 .. 15, NEW n \in {2, 4}
    PROVE  /\ Bits(v, n) \in Seq(Cycles) /\ Len(Bits(v, n)) = n
           /\ \A k \in 1 .. n : Bits(v, n)[k] = Cycle(IF k = n THEN 1 ELSE 0, Bit(v, k))
<1>1. \A k \in 1 .. n : Bit(v, k) \in {0, 1}
  BY FourBits
<1> QED BY <1>1 DEF Bits, Cycles, Cycle, Bit

\* The cycles of Idle.
LEMMA IdleType ==
    ASSUME NEW n \in Nat
    PROVE  /\ Idle(n) \in Seq(Cycles) /\ Len(Idle(n)) = n
           /\ \A k \in 1 .. n : Idle(n)[k] = Cycle(0, 0)
<1> DEFINE z == [k \in 1 .. n |-> 0]
<1>1. z \in Seq({0, 1}) /\ Len(z) = n
  OBVIOUS
<1> QED BY <1>1, TmsType DEF Idle

\* A sequence put together from two.
LEMMA Join ==
    ASSUME NEW s \in Seq(Cycles), NEW t \in Seq(Cycles), NEW f \in Seq(Cycles),
           Len(f) = Len(s) + Len(t),
           \A k \in 1 .. Len(s) : f[k] = s[k],
           \A k \in 1 .. Len(t) : f[Len(s) + k] = t[k]
    PROVE  s \o t = f
<1>1. s \o t \in Seq(Cycles) /\ Len(s \o t) = Len(s) + Len(t)
  OBVIOUS
<1>2. ASSUME NEW k \in 1 .. Len(f) PROVE (s \o t)[k] = f[k]
  <2>1. CASE k \in 1 .. Len(s)
    BY <2>1
  <2>2. CASE k \in Len(s) + 1 .. Len(s) + Len(t)
    <3>1. k - Len(s) \in 1 .. Len(t) /\ (s \o t)[k] = t[k - Len(s)]
      BY <2>2
    <3>2. f[Len(s) + (k - Len(s))] = t[k - Len(s)]
      BY <3>1
    <3> QED BY <3>1, <3>2
  <2> QED BY <2>1, <2>2
<1> QED BY <1>1, <1>2

\* A function on 1 .. n is a sequence.
LEMMA FunSeq ==
    ASSUME NEW n \in Nat, NEW f, DOMAIN f = 1 .. n, f = [k \in 1 .. n |-> f[k]],
           \A k \in 1 .. n : f[k] \in Cycles
    PROVE  f \in Seq(Cycles) /\ Len(f) = n
  OBVIOUS

\* A scan of a data register.
LEMMA DrPlan ==
    ASSUME NEW w \in 0 .. 15, NEW n \in {2, 4}
    PROVE  DrScan(w, n) = [k \in 1 .. n + 5 |->
               Cycle(IF k \in {1, n + 3, n + 4} THEN 1 ELSE 0,
                     IF k \in 4 .. n + 3 THEN Bit(w, k - 3) ELSE 0)]
<1> DEFINE F(k) == Cycle(IF k \in {1, n + 3, n + 4} THEN 1 ELSE 0,
                         IF k \in 4 .. n + 3 THEN Bit(w, k - 3) ELSE 0)
           a == Tms(<<1, 0, 0>>)
           b == Bits(w, n)
           c == Tms(<<1, 0>>)
           f == [k \in 1 .. n + 3 |-> F(k)]
           g == [k \in 1 .. n + 5 |-> F(k)]
<1>1. \A k \in 1 .. 4 : Bit(w, k) \in {0, 1}
  BY FourBits
<1>2. \A k \in 1 .. n + 5 : F(k) \in Cycles
  BY <1>1 DEF Cycle, Cycles
<1>3. f \in Seq(Cycles) /\ Len(f) = n + 3 /\ g \in Seq(Cycles) /\ Len(g) = n + 5
  BY <1>2
<1>4. a \in Seq(Cycles) /\ Len(a) = 3 /\ \A k \in 1 .. 3 : f[k] = a[k]
  BY DEF Tms, Cycle, Cycles
<1>5. b \in Seq(Cycles) /\ Len(b) = n /\ \A k \in 1 .. n : f[3 + k] = b[k]
  <2>1. \A k \in 1 .. n : f[3 + k] = Cycle(IF k = n THEN 1 ELSE 0, Bit(w, k))
    OBVIOUS
  <2> QED BY <2>1, BitsType
<1>6. /\ c \in Seq(Cycles) /\ Len(c) = 2
      /\ \A k \in 1 .. 2 : g[n + 3 + k] = c[k]
  BY DEF Tms, Cycle, Cycles
<1>7. \A k \in 1 .. n + 3 : g[k] = f[k]
  OBVIOUS
<1>8. DrScan(w, n) = (a \o b) \o c
  BY DEF DrScan
<1> HIDE DEF a, b, c, f, g
<1>9. Len(f) = Len(a) + Len(b)
  BY <1>3, <1>4, <1>5
<1>10. \A k \in 1 .. Len(a) : f[k] = a[k]
  BY <1>3, <1>4, <1>5
<1>11. \A k \in 1 .. Len(b) : f[Len(a) + k] = b[k]
  BY <1>3, <1>4, <1>5
<1>12. a \o b = f
  BY <1>3, <1>4, <1>5, <1>9, <1>10, <1>11, Join
<1>13. Len(g) = Len(f) + Len(c)
  BY <1>3, <1>6, <1>7
<1>14. \A k \in 1 .. Len(f) : g[k] = f[k]
  BY <1>3, <1>6, <1>7
<1>15. \A k \in 1 .. Len(c) : g[Len(f) + k] = c[k]
  BY <1>3, <1>6, <1>7
<1>16. f \o c = g
  BY <1>3, <1>6, <1>7, <1>13, <1>14, <1>15, Join
<1> QED BY <1>8, <1>12, <1>16 DEF g

\* A scan of the instruction register.
LEMMA IrPlan ==
    ASSUME NEW v \in 0 .. 3
    PROVE  IrScan(v) = [k \in 1 .. 8 |->
               Cycle(IF k \in {1, 2, 6, 7} THEN 1 ELSE 0,
                     IF k \in {5, 6} THEN Bit(v, k - 4) ELSE 0)]
<1> DEFINE F(k) == Cycle(IF k \in {1, 2, 6, 7} THEN 1 ELSE 0,
                         IF k \in {5, 6} THEN Bit(v, k - 4) ELSE 0)
           a == Tms(<<1, 1, 0, 0>>)
           b == Bits(v, 2)
           c == Tms(<<1, 0>>)
           f == [k \in 1 .. 6 |-> F(k)]
           g == [k \in 1 .. 8 |-> F(k)]
<1>1. \A k \in 1 .. 4 : Bit(v, k) \in {0, 1}
  BY FourBits
<1>2. \A k \in 1 .. 8 : F(k) \in Cycles
  BY <1>1 DEF Cycle, Cycles
<1>3. f \in Seq(Cycles) /\ Len(f) = 6 /\ g \in Seq(Cycles) /\ Len(g) = 8
  BY <1>2
<1>4. a \in Seq(Cycles) /\ Len(a) = 4 /\ \A k \in 1 .. 4 : f[k] = a[k]
  BY DEF Tms, Cycle, Cycles
<1>5. b \in Seq(Cycles) /\ Len(b) = 2 /\ \A k \in 1 .. 2 : f[4 + k] = b[k]
  <2>1. \A k \in 1 .. 2 : f[4 + k] = Cycle(IF k = 2 THEN 1 ELSE 0, Bit(v, k))
    OBVIOUS
  <2> QED BY <2>1, BitsType
<1>6. c \in Seq(Cycles) /\ Len(c) = 2 /\ \A k \in 1 .. 2 : g[6 + k] = c[k]
  BY DEF Tms, Cycle, Cycles
<1>7. \A k \in 1 .. 6 : g[k] = f[k]
  OBVIOUS
<1>8. IrScan(v) = (a \o b) \o c
  BY DEF IrScan, IrLength
<1> HIDE DEF a, b, c, f, g
<1>9. Len(f) = Len(a) + Len(b)
  BY <1>3, <1>4, <1>5
<1>10. \A k \in 1 .. Len(a) : f[k] = a[k]
  BY <1>3, <1>4, <1>5
<1>11. \A k \in 1 .. Len(b) : f[Len(a) + k] = b[k]
  BY <1>3, <1>4, <1>5
<1>12. a \o b = f
  BY <1>3, <1>4, <1>5, <1>9, <1>10, <1>11, Join
<1>13. Len(g) = Len(f) + Len(c)
  BY <1>3, <1>6, <1>7
<1>14. \A k \in 1 .. Len(f) : g[k] = f[k]
  BY <1>3, <1>6, <1>7
<1>15. \A k \in 1 .. Len(c) : g[Len(f) + k] = c[k]
  BY <1>3, <1>6, <1>7
<1>16. f \o c = g
  BY <1>3, <1>6, <1>7, <1>13, <1>14, <1>15, Join
<1> QED BY <1>8, <1>12, <1>16 DEF g

\* A scan of the DMI register and the idle cycles after it.
LEMMA ScanPlan ==
    ASSUME NEW w \in 0 .. 15, NEW d \in Nat
    PROVE  DrScan(w, DmiLength) \o Idle(d) = [k \in 1 .. 9 + d |->
               Cycle(IF k \in {1, 7, 8} THEN 1 ELSE 0,
                     IF k \in 4 .. 7 THEN Bit(w, k - 3) ELSE 0)]
<1> DEFINE F(k) == Cycle(IF k \in {1, 7, 8} THEN 1 ELSE 0,
                         IF k \in 4 .. 7 THEN Bit(w, k - 3) ELSE 0)
           a == DrScan(w, 4)
           b == Idle(d)
           f == [k \in 1 .. 9 + d |-> F(k)]
<1>1. \A k \in 1 .. 4 : Bit(w, k) \in {0, 1}
  BY FourBits
<1>2. \A k \in 1 .. 9 + d : F(k) \in Cycles
  BY <1>1 DEF Cycle, Cycles
<1>3. f \in Seq(Cycles) /\ Len(f) = 9 + d
  BY <1>2
<1>4. a = [k \in 1 .. 9 |-> F(k)]
  <2>1. a = [k \in 1 .. 4 + 5 |-> Cycle(IF k \in {1, 4 + 3, 4 + 4} THEN 1 ELSE 0,
                                        IF k \in 4 .. 4 + 3 THEN Bit(w, k - 3) ELSE 0)]
    BY DrPlan
  <2> QED BY <2>1
<1>5. a \in Seq(Cycles) /\ Len(a) = 9 /\ \A k \in 1 .. 9 : f[k] = a[k]
  <2>1. \A k \in 1 .. 9 : F(k) \in Cycles
    BY <1>2
  <2> HIDE DEF a, F
  <2>2. \A k \in 1 .. 9 : a[k] = F(k)
    BY <1>4
  <2>3. a \in Seq(Cycles) /\ Len(a) = 9
    BY <2>1, <2>2, <1>4, FunSeq
  <2> QED BY <2>2, <2>3
<1>6. b \in Seq(Cycles) /\ Len(b) = d /\ \A k \in 1 .. d : f[9 + k] = b[k]
  <2>1. b \in Seq(Cycles) /\ Len(b) = d /\ \A k \in 1 .. d : b[k] = Cycle(0, 0)
    BY IdleType
  <2>2. \A k \in 1 .. d : f[9 + k] = Cycle(0, 0)
    OBVIOUS
  <2> QED BY <2>1, <2>2
<1>7. DrScan(w, DmiLength) \o Idle(d) = a \o b
  BY DEF DmiLength
<1> HIDE DEF a, b, f
<1>8. Len(f) = Len(a) + Len(b)
  BY <1>3, <1>5, <1>6
<1>9. \A k \in 1 .. Len(a) : f[k] = a[k]
  BY <1>3, <1>5, <1>6
<1>10. \A k \in 1 .. Len(b) : f[Len(a) + k] = b[k]
  BY <1>3, <1>5, <1>6
<1>11. a \o b = f
  BY <1>3, <1>5, <1>6, <1>8, <1>9, <1>10, Join
<1> QED BY <1>7, <1>11 DEF f

\* The sequence after a reset of the TAP, long or short.
LEMMA StartPlan ==
    ASSUME NEW start \in {<< 0 >>, <<1, 1, 1, 1, 1, 0>>}
    PROVE  \E n \in {1, 6} :
              Tms(start) \o IrScan(IR_DBUS) = [k \in 1 .. n + 8 |-> StartCycle(6 - n + k)]
<1> DEFINE n == Len(start)
           a == Tms(start)
           b == IrScan(3)
           f == [k \in 1 .. n + 8 |-> StartCycle(6 - n + k)]
<1>1. n \in {1, 6}
  OBVIOUS
<1>2. \A k \in 1 .. 14 : StartCycle(k) \in Cycles
  BY DEF StartCycle, Cycle, Cycles
<1>3. f \in Seq(Cycles) /\ Len(f) = n + 8
  <2> HIDE DEF n
  <2>1. \A k \in 1 .. n + 8 : 6 - n + k \in 1 .. 14
    BY <1>1
  <2>2. \A k \in 1 .. n + 8 : StartCycle(6 - n + k) \in Cycles
    BY <2>1, <1>2
  <2>3. n + 8 \in Nat
    BY <1>1
  <2> QED BY <2>2, <2>3
<1>4. a \in Seq(Cycles) /\ Len(a) = n /\ \A k \in 1 .. n : f[k] = a[k]
  <2>1. CASE start = << 0 >>
    BY <2>1 DEF Tms, Cycle, Cycles, StartCycle
  <2>2. CASE start = <<1, 1, 1, 1, 1, 0>>
    BY <2>2 DEF Tms, Cycle, Cycles, StartCycle
  <2> QED BY <2>1, <2>2
<1>5. b \in Seq(Cycles) /\ Len(b) = 8 /\ \A k \in 1 .. 8 : f[n + k] = b[k]
  <2>1. b = [k \in 1 .. 8 |-> Cycle(IF k \in {1, 2, 6, 7} THEN 1 ELSE 0,
                                    IF k \in {5, 6} THEN Bit(3, k - 4) ELSE 0)]
    BY IrPlan
  <2>2. Bit(3, 1) = 1 /\ Bit(3, 2) = 1
    BY DEF Bit
  <2>3. \A k \in 1 .. 8 : b[k] = StartCycle(6 + k)
    BY <2>1, <2>2 DEF StartCycle
  <2>4. \A k \in 1 .. 8 : StartCycle(6 + k) \in Cycles
    BY <1>2
  <2>5. b \in Seq(Cycles) /\ Len(b) = 8
    <3> HIDE DEF b
    <3> QED BY <2>1, <2>3, <2>4, FunSeq
  <2>6. ASSUME NEW k \in 1 .. 8 PROVE f[n + k] = StartCycle(6 + k)
    <3>1. n + k \in 1 .. n + 8 /\ 6 - n + (n + k) = 6 + k
      BY <1>1
    <3> QED BY <3>1
  <2> QED BY <2>3, <2>5, <2>6
<1>6. Tms(start) \o IrScan(IR_DBUS) = a \o b
  BY DEF IR_DBUS
<1> HIDE DEF a, b, f, n
<1>7. Len(f) = Len(a) + Len(b)
  BY <1>3, <1>4, <1>5, <1>1
<1>8. \A k \in 1 .. Len(a) : f[k] = a[k]
  BY <1>3, <1>4, <1>5, <1>1
<1>9. \A k \in 1 .. Len(b) : f[Len(a) + k] = b[k]
  BY <1>3, <1>4, <1>5, <1>1
<1>10. a \o b = f
  BY <1>3, <1>4, <1>5, <1>1, <1>7, <1>8, <1>9, Join
<1> QED BY <1>1, <1>6, <1>10 DEF f

\* The sequence after busy.
LEMMA ResetPlan ==
    ASSUME NEW bits \in {DTMCONTROL_DMIRESET, DTMCONTROL_DMIHARDRESET}
    PROVE  IrScan(IR_DTMCONTROL) \o DrScan(bits, 2) \o IrScan(IR_DBUS)
               = [k \in 1 .. 23 |-> ResetCycle(bits, k)]
<1> DEFINE a == IrScan(2)
           b == DrScan(bits, 2)
           c == IrScan(3)
           f == [k \in 1 .. 15 |-> ResetCycle(bits, k)]
           g == [k \in 1 .. 23 |-> ResetCycle(bits, k)]
<1>1. bits \in 0 .. 15
  BY DEF DTMCONTROL_DMIRESET, DTMCONTROL_DMIHARDRESET
<1>2. \A k \in 1 .. 23 : ResetCycle(bits, k) \in Cycles
  <2>1. Bit(bits, 1) \in {0, 1} /\ Bit(bits, 2) \in {0, 1}
    BY <1>1, FourBits
  <2> QED BY <2>1 DEF ResetCycle, Cycle, Cycles
<1>3. f \in Seq(Cycles) /\ Len(f) = 15 /\ g \in Seq(Cycles) /\ Len(g) = 23
  BY <1>2
<1>4. a \in Seq(Cycles) /\ Len(a) = 8 /\ \A k \in 1 .. 8 : f[k] = a[k]
  <2>1. a = [k \in 1 .. 8 |-> Cycle(IF k \in {1, 2, 6, 7} THEN 1 ELSE 0,
                                    IF k \in {5, 6} THEN Bit(2, k - 4) ELSE 0)]
    BY IrPlan
  <2>2. Bit(2, 1) = 0 /\ Bit(2, 2) = 1
    BY DEF Bit
  <2>3. \A k \in 1 .. 8 : a[k] = ResetCycle(bits, k)
    BY <2>1, <2>2 DEF ResetCycle
  <2>4. \A k \in 1 .. 8 : ResetCycle(bits, k) \in Cycles
    BY <1>2
  <2> HIDE DEF a
  <2>5. a \in Seq(Cycles) /\ Len(a) = 8
    BY <2>1, <2>3, <2>4, FunSeq
  <2> QED BY <2>5, <2>3
<1>5. b \in Seq(Cycles) /\ Len(b) = 7 /\ \A k \in 1 .. 7 : f[8 + k] = b[k]
  <2>1. b = [k \in 1 .. 2 + 5 |-> Cycle(IF k \in {1, 2 + 3, 2 + 4} THEN 1 ELSE 0,
                                        IF k \in 4 .. 2 + 3 THEN Bit(bits, k - 3) ELSE 0)]
    BY <1>1, DrPlan
  <2>2. \A k \in 1 .. 7 : b[k] = ResetCycle(bits, 8 + k)
    BY <2>1 DEF ResetCycle
  <2>3. \A k \in 1 .. 7 : ResetCycle(bits, 8 + k) \in Cycles
    BY <1>2
  <2> HIDE DEF b
  <2>4. b \in Seq(Cycles) /\ Len(b) = 7
    BY <2>1, <2>2, <2>3, FunSeq
  <2> QED BY <2>4, <2>2
<1>6. c \in Seq(Cycles) /\ Len(c) = 8 /\ \A k \in 1 .. 8 : g[15 + k] = c[k]
  <2>1. c = [k \in 1 .. 8 |-> Cycle(IF k \in {1, 2, 6, 7} THEN 1 ELSE 0,
                                    IF k \in {5, 6} THEN Bit(3, k - 4) ELSE 0)]
    BY IrPlan
  <2>2. Bit(3, 1) = 1 /\ Bit(3, 2) = 1
    BY DEF Bit
  <2>3. \A k \in 1 .. 8 : c[k] = ResetCycle(bits, 15 + k)
    BY <2>1, <2>2 DEF ResetCycle
  <2>4. \A k \in 1 .. 8 : ResetCycle(bits, 15 + k) \in Cycles
    BY <1>2
  <2> HIDE DEF c
  <2>5. c \in Seq(Cycles) /\ Len(c) = 8
    BY <2>1, <2>3, <2>4, FunSeq
  <2> QED BY <2>5, <2>3
<1>7. \A k \in 1 .. 15 : g[k] = f[k]
  OBVIOUS
<1>8. IrScan(IR_DTMCONTROL) \o DrScan(bits, 2) \o IrScan(IR_DBUS) = (a \o b) \o c
  BY DEF IR_DTMCONTROL, IR_DBUS
<1> HIDE DEF a, b, c, f, g
<1>9. Len(f) = Len(a) + Len(b)
  BY <1>3, <1>4, <1>5
<1>10. \A k \in 1 .. Len(a) : f[k] = a[k]
  BY <1>3, <1>4, <1>5
<1>11. \A k \in 1 .. Len(b) : f[Len(a) + k] = b[k]
  BY <1>3, <1>4, <1>5
<1>12. a \o b = f
  BY <1>3, <1>4, <1>5, <1>9, <1>10, <1>11, Join
<1>13. Len(g) = Len(f) + Len(c)
  BY <1>3, <1>6, <1>7
<1>14. \A k \in 1 .. Len(f) : g[k] = f[k]
  BY <1>3, <1>6, <1>7
<1>15. \A k \in 1 .. Len(c) : g[Len(f) + k] = c[k]
  BY <1>3, <1>6, <1>7
<1>16. f \o c = g
  BY <1>3, <1>6, <1>7, <1>13, <1>14, <1>15, Join
<1> QED BY <1>8, <1>12, <1>16 DEF g

-----------------------------------------------------------------------------
(* One half of a clock cycle                                               *)

\* TCK goes low: the TAP acts on the state it is in.
LEMMA PinFall ==
    ASSUME TypeInv, pin_command, low
    PROVE  /\ plan # <<>> /\ plan' = plan /\ low' = FALSE
           /\ tck' = 0 /\ tms' = plan[1].s /\ tdi' = plan[1].i
           /\ falling_edge(Success(dr), Value(dr))
           /\ goal' = goal /\ phase' = phase /\ delay' = delay
           /\ got' = IF state = "shift_dr" /\ Scanning THEN Append(got, tdo') ELSE got
           /\ ~Performs => times' = times /\ done' = done /\ answer' = answer
           /\ Performs => /\ times' = times + 1
                          /\ done' = IF DmiOp(dr) = NOP THEN done ELSE dr
                          /\ answer' = IF DmiOp(dr) = READ THEN Value(dr) ELSE answer
<1>1. plan # <<>> /\ plan \in Seq(Cycles)
  BY DEF pin_command, TypeInv
<1>2. Head(plan) = plan[1]
  BY <1>1, Rest
<1>3. Pins(0, plan[1].s, plan[1].i)
  BY <1>2 DEF pin_command
<1>4. ~Rises(0)
  BY DEF Rises
<1>5. /\ tck' = 0 /\ tms' = plan[1].s /\ tdi' = plan[1].i
      /\ falling_edge(Success(dr), Value(dr))
  BY <1>3, <1>4 DEF Pins, set_pins
<1>6. /\ ~Performs => times' = times /\ done' = done /\ answer' = answer
      /\ Performs => /\ times' = times + 1
                     /\ done' = IF DmiOp(dr) = NOP THEN done ELSE dr
                     /\ answer' = IF DmiOp(dr) = READ THEN Value(dr) ELSE answer
  BY <1>3, <1>4 DEF Pins, history
<1>7. /\ plan' = plan /\ low' = FALSE
      /\ goal' = goal /\ phase' = phase /\ delay' = delay
      /\ got' = IF state = "shift_dr" /\ Scanning THEN Append(got, tdo') ELSE got
  BY DEF pin_command, Scanning
<1> QED BY <1>1, <1>5, <1>6, <1>7

\* TCK goes high: the TAP shifts and moves on.
LEMMA PinRise ==
    ASSUME TypeInv, PinsInv, pin_command, low = FALSE
    PROVE  /\ plan # <<>> /\ plan' = Tail(plan) /\ low' = TRUE
           /\ tms = plan[1].s /\ tdi = plan[1].i
           /\ tck' = 1 /\ tms' = tms /\ tdi' = tdi
           /\ rising_edge
           /\ goal' = goal /\ phase' = phase /\ delay' = delay /\ got' = got
           /\ times' = times /\ done' = done /\ answer' = answer
<1>1. plan # <<>> /\ plan \in Seq(Cycles)
  BY DEF pin_command, TypeInv
<1>2. Head(plan) = plan[1]
  BY <1>1, Rest
<1>3. Pins(1, plan[1].s, plan[1].i)
  BY <1>2 DEF pin_command
<1>4. tck = 0 /\ tms = plan[1].s /\ tdi = plan[1].i
  BY DEF PinsInv
<1>5. Rises(1)
  BY <1>4 DEF Rises
<1>6. tck' = 1 /\ tms' = plan[1].s /\ tdi' = plan[1].i /\ rising_edge
  BY <1>3, <1>5 DEF Pins, set_pins
<1>7. times' = times /\ done' = done /\ answer' = answer
  BY <1>3, <1>5 DEF Pins, history
<1>8. /\ plan' = Tail(plan) /\ low' = TRUE /\ got' = got
      /\ goal' = goal /\ phase' = phase /\ delay' = delay
  BY DEF pin_command
<1> QED BY <1>1, <1>4, <1>6, <1>7, <1>8

\* The types after TCK went high, and the pins.
LEMMA RiseType ==
    ASSUME TypeInv, PinsInv, pin_command, low = FALSE
    PROVE  TypeInv' /\ PinsInv'
<1>1. /\ plan # <<>> /\ plan' = Tail(plan) /\ low' = TRUE
      /\ tck' = 1 /\ tms' = tms /\ tdi' = tdi
      /\ rising_edge
      /\ goal' = goal /\ phase' = phase /\ delay' = delay /\ got' = got
      /\ times' = times /\ done' = done /\ answer' = answer
  BY PinRise
<1>2. Tail(plan) \in Seq(Cycles)
  BY <1>1, Rest DEF TypeInv
<1>3. state' \in DOMAIN NextState
  BY <1>1, NextStateType DEF rising_edge, TypeInv
<1>4. ir' \in 0 .. 3
  <2>1. ir \in 0 .. 3 /\ tdi \in {0, 1}
    BY DEF TypeInv
  <2>2. Shifted(ir, IrLength) \in 0 .. 3
    BY <2>1 DEF Shifted, IrLength
  <2> QED BY <1>1, <2>1, <2>2 DEF rising_edge
<1>5. dr' \in Nat
  <2>1. dr \in Nat /\ dr_length \in {1, 2, 4} /\ tdi \in {0, 1}
    BY DEF TypeInv
  <2>2. Shifted(dr, dr_length) \in Nat
    <3>1. dr \div 2 \in Nat
      BY <2>1
    <3>2. CASE dr_length = 1
      BY <2>1, <3>1, <3>2 DEF Shifted
    <3>3. CASE dr_length = 2
      BY <2>1, <3>1, <3>3 DEF Shifted
    <3>4. CASE dr_length = 4
      BY <2>1, <3>1, <3>4 DEF Shifted
    <3> QED BY <2>1, <3>2, <3>3, <3>4
  <2> QED BY <1>1, <2>1, <2>2 DEF rising_edge
<1>6. /\ tdo' = tdo /\ dr_length' = dr_length /\ bypass' = bypass /\ dmi' = dmi
      /\ busy_stuck' = busy_stuck
  BY <1>1 DEF rising_edge
<1>7. PinsInv'
  BY <1>1 DEF PinsInv
<1> QED BY <1>1, <1>2, <1>3, <1>4, <1>5, <1>6, <1>7 DEF TypeInv

\* What the falling edge does in each state.
LEMMA FallQuiet ==
    ASSUME NEW ok, NEW value, falling_edge(ok, value),
           state \notin {"test_logic_reset", "capture_dr", "shift_dr", "shift_ir", "update_dr"}
    PROVE  /\ state' = state /\ tdo' = tdo /\ ir' = ir /\ dr' = dr /\ dr_length' = dr_length
           /\ bypass' = bypass /\ dmi' = dmi /\ busy_stuck' = busy_stuck
  BY DEF falling_edge

\* In Test-Logic-Reset it selects IDCODE.
LEMMA FallReset ==
    ASSUME NEW ok, NEW value, falling_edge(ok, value), state = "test_logic_reset"
    PROVE  /\ state' = state /\ tdo' = tdo /\ ir' = IR_IDCODE /\ dr' = dr
           /\ dr_length' = dr_length /\ bypass' = bypass /\ dmi' = dmi
           /\ busy_stuck' = busy_stuck
  BY DEF falling_edge

\* In Capture-DR it captures the register.
LEMMA FallCapture ==
    ASSUME NEW ok, NEW value, falling_edge(ok, value), state = "capture_dr"
    PROVE  /\ state' = state /\ tdo' = tdo /\ ir' = ir /\ bypass' = bypass /\ dmi' = dmi
           /\ capture_dr
  BY DEF falling_edge

\* In the shift states it shows a bit on TDO.
LEMMA FallShift ==
    ASSUME NEW ok, NEW value, falling_edge(ok, value), state \in {"shift_dr", "shift_ir"}
    PROVE  /\ tdo' = (IF state = "shift_dr" THEN dr ELSE ir) % 2
           /\ state' = state /\ ir' = ir /\ dr' = dr
           /\ dr_length' = dr_length /\ bypass' = bypass /\ dmi' = dmi
           /\ busy_stuck' = busy_stuck
  BY DEF falling_edge

\* In Update-DR it updates the register.
LEMMA FallUpdate ==
    ASSUME NEW ok, NEW value, falling_edge(ok, value), state = "update_dr"
    PROVE  /\ tdo' = tdo /\ ir' = ir /\ dr' = dr /\ dr_length' = dr_length
           /\ update_dr(ok, value)
  BY DEF falling_edge

\* The result of an operation has an operation code of its own.
LEMMA ResultType ==
    ASSUME dr \in 0 .. 15, NEW ok, NEW value \in {0, 1}
    PROVE  /\ Result(ok, value) \in 0 .. 15
           /\ DmiOp(Result(ok, value)) = IF ok THEN SUCCESS ELSE FAILED
           /\ DmiArg(Result(ok, value)) = IF DmiOp(dr) = READ /\ ok THEN value ELSE DmiArg(dr)
<1> DEFINE a == IF DmiOp(dr) = READ /\ ok THEN value ELSE DmiArg(dr)
           o == IF ok THEN SUCCESS ELSE FAILED
<1>1. a \in 0 .. 3
  BY DEF DmiArg
<1>2. o \in {0, 2}
  BY DEF SUCCESS, FAILED
<1>3. Result(ok, value) = (4 * a) + o
  BY DEF Result, Dmi
<1> HIDE DEF a, o
<1>4. /\ (4 * a) + o \in 0 .. 15
      /\ ((4 * a) + o) % 4 = o
      /\ ((4 * a) + o) \div 4 = a
  BY <1>1, <1>2
<1> QED BY <1>3, <1>4 DEF DmiOp, DmiArg, a, o

\* The types after TCK went low, and the pins.
LEMMA FallType ==
    ASSUME TypeInv, pin_command, low, Performs => dr \in 0 .. 15
    PROVE  TypeInv' /\ PinsInv'
<1>1. /\ plan # <<>> /\ plan' = plan /\ low' = FALSE
      /\ tck' = 0 /\ tms' = plan[1].s /\ tdi' = plan[1].i
      /\ falling_edge(Success(dr), Value(dr))
      /\ goal' = goal /\ phase' = phase /\ delay' = delay
      /\ got' = IF state = "shift_dr" /\ Scanning THEN Append(got, tdo') ELSE got
  BY PinFall
<1>2. times' \in Nat /\ answer' \in {0, 1}
  <2>1. CASE Performs
    <3>1. times' = times + 1 /\ answer' = IF DmiOp(dr) = READ THEN Value(dr) ELSE answer
      BY <2>1, PinFall
    <3> QED BY <3>1 DEF TypeInv, Value
  <2>2. CASE ~Performs
    BY <2>2, PinFall DEF TypeInv
  <2> QED BY <2>1, <2>2
<1>3. plan[1] \in Cycles
  BY <1>1, Rest DEF TypeInv
<1>4. tms' \in {0, 1} /\ tdi' \in {0, 1}
  BY <1>1, <1>3 DEF Cycles
<1>5. /\ state' \in DOMAIN NextState /\ tdo' \in {0, 1}
      /\ ir' \in 0 .. 3 /\ dr' \in Nat /\ dr_length' \in {1, 2, 4} /\ bypass' \in Nat
      /\ dmi' \in 0 .. 15 /\ DmiOp(dmi') \in {SUCCESS, FAILED} /\ busy_stuck' \in BOOLEAN
  <2>1. CASE state \notin {"test_logic_reset", "capture_dr", "shift_dr", "shift_ir", "update_dr"}
    BY <2>1, <1>1, FallQuiet DEF TypeInv
  <2>2. CASE state = "test_logic_reset"
    BY <2>2, <1>1, FallReset DEF TypeInv, IR_IDCODE
  <2>3. CASE state = "capture_dr"
    <3>1. /\ state' = state /\ tdo' = tdo /\ ir' = ir /\ bypass' = bypass /\ dmi' = dmi
          /\ capture_dr
      BY <2>3, <1>1, FallCapture
    <3>2. dr' \in Nat
      BY <3>1 DEF capture_dr, TypeInv, IR_IDCODE, IR_DTMCONTROL, IR_BYPASS, IR_DBUS, idcode,
                  dtmcontrol, BUSY
    <3>3. dr_length' \in {1, 2, 4} /\ busy_stuck' \in BOOLEAN
      BY <3>1 DEF capture_dr, TypeInv, DmiLength
    <3> QED BY <3>1, <3>2, <3>3 DEF TypeInv
  <2>4. CASE state \in {"shift_dr", "shift_ir"}
    <3>1. /\ tdo' = (IF state = "shift_dr" THEN dr ELSE ir) % 2
          /\ state' = state /\ ir' = ir /\ dr' = dr
          /\ dr_length' = dr_length /\ bypass' = bypass /\ dmi' = dmi
          /\ busy_stuck' = busy_stuck
      BY <2>4, <1>1, FallShift
    <3>2. tdo' \in {0, 1}
      BY <3>1 DEF TypeInv
    <3> QED BY <3>1, <3>2 DEF TypeInv
  <2>5. CASE state = "update_dr"
    <3>1. /\ tdo' = tdo /\ ir' = ir /\ dr' = dr /\ dr_length' = dr_length
          /\ update_dr(Success(dr), Value(dr))
      BY <2>5, <1>1, FallUpdate
    <3>2. Value(dr) \in {0, 1}
      BY DEF Value
    <3>3. CASE Performs
      <4>1. dmi' = Result(Success(dr), Value(dr)) \/ UNCHANGED dmi
        BY <3>1, <3>3 DEF update_dr, Performs, IR_DTMCONTROL, IR_DBUS, IR_BYPASS, IR_IDCODE
      <4>2. Result(Success(dr), Value(dr)) \in 0 .. 15 /\
            DmiOp(Result(Success(dr), Value(dr))) \in {SUCCESS, FAILED}
        BY <3>3, <3>2, ResultType
      <4>3. bypass' = bypass /\ state' = state /\ busy_stuck' = busy_stuck
        BY <3>1, <3>3 DEF update_dr, Performs, IR_DTMCONTROL, IR_DBUS, IR_BYPASS, IR_IDCODE
      <4> QED BY <3>1, <4>1, <4>2, <4>3 DEF TypeInv
    <3>4. CASE ~Performs
      <4>1. dmi' = dmi \/ dmi' = 0
        BY <3>1, <3>4 DEF update_dr
      <4>2. state' \in {state, "test_logic_reset"} /\ bypass' \in {bypass, dr}
        BY <3>1, <3>4 DEF update_dr
      <4>3. busy_stuck' \in BOOLEAN
        BY <3>1, <3>4 DEF update_dr, Stuck, TypeInv
      <4>4. "test_logic_reset" \in DOMAIN NextState /\ DmiOp(0) = SUCCESS
        BY DEF NextState, DmiOp, SUCCESS
      <4> QED BY <3>1, <4>1, <4>2, <4>3, <4>4 DEF TypeInv
    <3> QED BY <3>3, <3>4
  <2> QED BY <2>1, <2>2, <2>3, <2>4, <2>5
<1>6. got' \in Seq({0, 1})
  BY <1>1, <1>5 DEF TypeInv
<1>7. PinsInv'
  BY <1>1 DEF PinsInv
<1> QED BY <1>1, <1>2, <1>4, <1>5, <1>6, <1>7 DEF TypeInv

-----------------------------------------------------------------------------
(* The sequences between scans                                             *)

\* Positions: n cycles are left of top.
LEMMA Position ==
    ASSUME NEW top \in Nat, NEW n \in 0 .. top
    PROVE  /\ top - n \in 0 .. top
           /\ n # 0 => /\ n \in 1 .. top /\ n - 1 \in 0 .. top
                       /\ top - n \in 0 .. top - 1
                       /\ top - (n - 1) = top - n + 1
  OBVIOUS

\* The state follows the table.
LEMMA StartMove ==
    ASSUME NEW p \in 0 .. 13
    PROVE  NextState[StartState(p)][StartCycle(p + 1).s + 1] = StartState(p + 1)
<1>1. CASE p = 0
  BY <1>1, StateTable DEF StartState, StartCycle, Cycle
<1>2. CASE p = 1
  BY <1>2, StateTable DEF StartState, StartCycle, Cycle
<1>3. CASE p = 2
  BY <1>3, StateTable DEF StartState, StartCycle, Cycle
<1>4. CASE p = 3
  BY <1>4, StateTable DEF StartState, StartCycle, Cycle
<1>5. CASE p = 4
  BY <1>5, StateTable DEF StartState, StartCycle, Cycle
<1>6. CASE p = 5
  BY <1>6, StateTable DEF StartState, StartCycle, Cycle
<1>7. CASE p = 6
  BY <1>7, StateTable DEF StartState, StartCycle, Cycle
<1>8. CASE p = 7
  BY <1>8, StateTable DEF StartState, StartCycle, Cycle
<1>9. CASE p = 8
  BY <1>9, StateTable DEF StartState, StartCycle, Cycle
<1>10. CASE p = 9
  BY <1>10, StateTable DEF StartState, StartCycle, Cycle
<1>11. CASE p = 10
  BY <1>11, StateTable DEF StartState, StartCycle, Cycle
<1>12. CASE p = 11
  BY <1>12, StateTable DEF StartState, StartCycle, Cycle
<1>13. CASE p = 12
  BY <1>13, StateTable DEF StartState, StartCycle, Cycle
<1>14. CASE p = 13
  BY <1>14, StateTable DEF StartState, StartCycle, Cycle
<1> QED BY <1>1, <1>2, <1>3, <1>4, <1>5, <1>6, <1>7, <1>8, <1>9, <1>10, <1>11, <1>12,
       <1>13, <1>14

\* The cycles of the writing of DTMCONTROL lead from state to state.
LEMMA ResetMove ==
    ASSUME NEW bits \in {1, 2}, NEW p \in 0 .. 22
    PROVE  NextState[ResetState(p)][ResetCycle(bits, p + 1).s + 1] = ResetState(p + 1)
<1>1. CASE p = 0
  BY <1>1, StateTable DEF ResetState, ResetCycle, Cycle
<1>2. CASE p = 1
  BY <1>2, StateTable DEF ResetState, ResetCycle, Cycle
<1>3. CASE p = 2
  BY <1>3, StateTable DEF ResetState, ResetCycle, Cycle
<1>4. CASE p = 3
  BY <1>4, StateTable DEF ResetState, ResetCycle, Cycle
<1>5. CASE p = 4
  BY <1>5, StateTable DEF ResetState, ResetCycle, Cycle
<1>6. CASE p = 5
  BY <1>6, StateTable DEF ResetState, ResetCycle, Cycle
<1>7. CASE p = 6
  BY <1>7, StateTable DEF ResetState, ResetCycle, Cycle
<1>8. CASE p = 7
  BY <1>8, StateTable DEF ResetState, ResetCycle, Cycle
<1>9. CASE p = 8
  BY <1>9, StateTable DEF ResetState, ResetCycle, Cycle
<1>10. CASE p = 9
  BY <1>10, StateTable DEF ResetState, ResetCycle, Cycle
<1>11. CASE p = 10
  BY <1>11, StateTable DEF ResetState, ResetCycle, Cycle
<1>12. CASE p = 11
  BY <1>12, StateTable DEF ResetState, ResetCycle, Cycle
<1>13. CASE p = 12
  BY <1>13, StateTable DEF ResetState, ResetCycle, Cycle
<1>14. CASE p = 13
  BY <1>14, StateTable DEF ResetState, ResetCycle, Cycle
<1>15. CASE p = 14
  BY <1>15, StateTable DEF ResetState, ResetCycle, Cycle
<1>16. CASE p = 15
  BY <1>16, StateTable DEF ResetState, ResetCycle, Cycle
<1>17. CASE p = 16
  BY <1>17, StateTable DEF ResetState, ResetCycle, Cycle
<1>18. CASE p = 17
  BY <1>18, StateTable DEF ResetState, ResetCycle, Cycle
<1>19. CASE p = 18
  BY <1>19, StateTable DEF ResetState, ResetCycle, Cycle
<1>20. CASE p = 19
  BY <1>20, StateTable DEF ResetState, ResetCycle, Cycle
<1>21. CASE p = 20
  BY <1>21, StateTable DEF ResetState, ResetCycle, Cycle
<1>22. CASE p = 21
  BY <1>22, StateTable DEF ResetState, ResetCycle, Cycle
<1>23. CASE p = 22
  BY <1>23, StateTable DEF ResetState, ResetCycle, Cycle
<1> QED BY <1>1, <1>2, <1>3, <1>4, <1>5, <1>6, <1>7, <1>8, <1>9, <1>10, <1>11, <1>12,
       <1>13, <1>14, <1>15, <1>16, <1>17, <1>18, <1>19, <1>20, <1>21, <1>22, <1>23

\* TCK goes high on the way to the DMI register.
LEMMA StartingRise ==
    ASSUME TypeInv, PinsInv, Starting, pin_command, low = FALSE
    PROVE  Starting'
<1> DEFINE p == 14 - Len(plan)
<1>1. /\ plan # <<>> /\ plan' = Tail(plan) /\ low' = TRUE
      /\ tms = plan[1].s /\ tdi = plan[1].i /\ rising_edge /\ phase' = phase
  BY PinRise
<1>2. /\ phase = "op" /\ Len(plan) \in 0 .. 14 /\ state = StartState(p)
      /\ \A k \in 1 .. Len(plan) : plan[k] = StartCycle(p + k)
      /\ p = 11 => ir \in {2, 3}
      /\ p >= 12 => ir = IR_DBUS
  BY DEF Starting
<1>3. /\ Len(plan) \in Nat \ {0} /\ Len(Tail(plan)) = Len(plan) - 1
      /\ \A k \in 1 .. Len(plan) - 1 : Tail(plan)[k] = plan[k + 1]
  BY <1>1, Rest DEF TypeInv
<1>4. p \in 0 .. 13 /\ 14 - Len(plan') = p + 1 /\ Len(plan') \in 0 .. 14
  <2>1. Len(plan) \in 0 .. 14
    BY DEF Starting
  <2>2. Len(plan) # 0
    BY <1>3
  <2>3. Len(plan') = Len(plan) - 1
    BY <1>1, <1>3
  <2>4. /\ Len(plan) - 1 \in 0 .. 14 /\ 14 - Len(plan) \in 0 .. 14 - 1
        /\ 14 - (Len(plan) - 1) = 14 - Len(plan) + 1
    BY <2>1, <2>2, Position
  <2>5. 14 - 1 = 13
    OBVIOUS
  <2> QED BY <2>3, <2>4, <2>5, Zenon
<1>5. plan[1] = StartCycle(p + 1)
  BY <1>2, <1>3
<1>6. state' = StartState(p + 1)
  BY <1>1, <1>2, <1>4, <1>5, StartMove DEF rising_edge
<1>7. ASSUME NEW k \in 1 .. Len(plan') PROVE plan'[k] = StartCycle(p + 1 + k)
  <2>1. k + 1 \in 1 .. Len(plan) /\ k \in 1 .. Len(plan) - 1
    BY <1>1, <1>3
  <2>2. plan'[k] = plan[k + 1] /\ plan[k + 1] = StartCycle(p + (k + 1))
    BY <2>1, <1>1, <1>2, <1>3
  <2>3. p + (k + 1) = p + 1 + k
    BY <1>4, <2>1
  <2> QED BY <2>2, <2>3
<1>8. /\ p + 1 = 11 => ir' \in {2, 3}
      /\ p + 1 >= 12 => ir' = IR_DBUS
  <2>1. p \in {10, 11} => tdi = 1 /\ state = "shift_ir"
    BY <1>1, <1>2, <1>5 DEF StartCycle, Cycle, StartState
  <2>2. p > 11 => state \notin {"shift_ir"}
    BY <1>2, <1>4 DEF StartState
  <2>3. ir \in 0 .. 3
    BY DEF TypeInv
  <2>4. ir' = IF state = "shift_ir" THEN Shifted(ir, IrLength) ELSE ir
    BY <1>1 DEF rising_edge
  <2>5. CASE p = 10
    <3>1. ir' = (ir \div 2) + 2
      BY <2>1, <2>4, <2>5 DEF Shifted, IrLength
    <3> QED BY <2>3, <2>5, <3>1
  <2>6. CASE p = 11
    <3>1. ir' = (ir \div 2) + 2
      BY <2>1, <2>4, <2>6 DEF Shifted, IrLength
    <3> QED BY <1>2, <2>6, <3>1 DEF IR_DBUS
  <2>7. CASE p > 11
    BY <1>2, <1>4, <2>2, <2>4, <2>7
  <2>8. CASE p < 10
    BY <1>4, <2>8
  <2> QED BY <1>4, <2>5, <2>6, <2>7, <2>8
<1> HIDE DEF p
<1>9. phase' = "op"
  BY <1>1, <1>2
<1> QED BY <1>4, <1>6, <1>7, <1>8, <1>9 DEF Starting

\* TCK goes low there: nothing is carried out.
LEMMA StartingFall ==
    ASSUME TypeInv, Starting, pin_command, low
    PROVE  Starting' /\ ~Performs
<1> DEFINE p == 14 - Len(plan)
<1>1. /\ plan # <<>> /\ plan' = plan /\ phase' = phase
      /\ falling_edge(Success(dr), Value(dr))
  BY PinFall
<1>2. /\ phase = "op" /\ Len(plan) \in 0 .. 14 /\ state = StartState(p)
      /\ \A k \in 1 .. Len(plan) : plan[k] = StartCycle(p + k)
      /\ p = 11 => ir \in {2, 3}
      /\ p >= 12 => ir = IR_DBUS
  BY DEF Starting
<1>3. p \in 0 .. 14
  <2>1. Len(plan) \in 0 .. 14
    BY DEF Starting
  <2> QED BY <2>1, Position
<1>4. /\ state \notin {"capture_dr", "shift_dr", "update_dr"}
      /\ p >= 11 => state # "test_logic_reset"
  BY <1>2, <1>3 DEF StartState
<1>5. /\ state' = state /\ (ir' = ir \/ state = "test_logic_reset")
  <2>1. CASE state \notin {"test_logic_reset", "shift_ir"}
    BY <2>1, <1>1, <1>4, FallQuiet
  <2>2. CASE state = "test_logic_reset"
    BY <2>2, <1>1, FallReset
  <2>3. CASE state = "shift_ir"
    BY <2>3, <1>1, FallShift
  <2> QED BY <2>1, <2>2, <2>3
<1>6. p >= 11 => ir' = ir
  BY <1>4, <1>5
<1>7. ~Performs
  BY <1>4 DEF Performs
<1>8. /\ phase' = "op" /\ Len(plan') \in 0 .. 14 /\ state' = StartState(14 - Len(plan'))
      /\ \A k \in 1 .. Len(plan') : plan'[k] = StartCycle(14 - Len(plan') + k)
  BY <1>1, <1>2, <1>5
<1>9. /\ 14 - Len(plan') = 11 => ir' \in {2, 3}
      /\ 14 - Len(plan') >= 12 => ir' = IR_DBUS
  BY <1>1, <1>2, <1>3, <1>6
<1> QED BY <1>7, <1>8, <1>9 DEF Starting

\* One cycle further.
LEMMA Forward ==
    ASSUME TypeInv, plan # <<>>, NEW top \in Nat, Len(plan) \in 0 .. top
    PROVE  \E p \in 0 .. top - 1 :
              /\ p = top - Len(plan) /\ p + 1 = top - Len(Tail(plan))
              /\ Len(plan) \in 1 .. top /\ Len(Tail(plan)) \in 0 .. top
              /\ Len(Tail(plan)) = Len(plan) - 1
<1>1. Len(plan) \in Nat \ {0} /\ Len(Tail(plan)) = Len(plan) - 1
  BY Rest DEF TypeInv
<1>2. PICK n \in 0 .. top : n = Len(plan)
  OBVIOUS
<1>3. n # 0
  BY <1>1, <1>2
<1>4. /\ n \in 1 .. top /\ n - 1 \in 0 .. top /\ top - n \in 0 .. top - 1
      /\ top - (n - 1) = top - n + 1
  BY <1>3, Position
<1>5. /\ Len(plan) \in 1 .. top /\ Len(Tail(plan)) = n - 1
      /\ top - Len(plan) = top - n /\ top - Len(Tail(plan)) = top - (n - 1)
  BY <1>1, <1>2, <1>4
<1> QED BY <1>4, <1>5, <1>1

\* TCK goes high in the sequence after busy.
LEMMA ResettingRise ==
    ASSUME TypeInv, PinsInv, NEW bits \in {1, 2}, Resetting(bits), pin_command, low = FALSE
    PROVE  Resetting(bits)'
<1>1. /\ plan # <<>> /\ plan' = Tail(plan) /\ low' = TRUE
      /\ tms = plan[1].s /\ tdi = plan[1].i /\ rising_edge
  BY PinRise
<1>2. PICK p \in 0 .. 22 :
          /\ p = 23 - Len(plan) /\ p + 1 = 23 - Len(Tail(plan))
          /\ Len(plan) \in 1 .. 23 /\ Len(Tail(plan)) \in 0 .. 23
          /\ Len(Tail(plan)) = Len(plan) - 1
  <2>1. Len(plan) \in 0 .. 23 /\ 23 \in Nat
    BY DEF Resetting
  <2>2. \E p \in 0 .. 23 - 1 :
          /\ p = 23 - Len(plan) /\ p + 1 = 23 - Len(Tail(plan))
          /\ Len(plan) \in 1 .. 23 /\ Len(Tail(plan)) \in 0 .. 23
          /\ Len(Tail(plan)) = Len(plan) - 1
    BY <1>1, <2>1, Forward
  <2>3. 23 - 1 = 22
    OBVIOUS
  <2> QED BY <2>2, <2>3
<1>3. ResettingAt(bits, p)
  BY <1>2 DEF Resetting
<1>4. \A k \in 1 .. Len(plan) - 1 : Tail(plan)[k] = plan[k + 1]
  BY <1>1, Rest DEF TypeInv
<1>5. plan[1] = ResetCycle(bits, p + 1)
  BY <1>2, <1>3 DEF ResettingAt
<1>6. tms = ResetCycle(bits, p + 1).s /\ tdi = ResetCycle(bits, p + 1).i
  BY <1>1, <1>5
<1>7. state' = ResetState(p + 1)
  <2>1. state' = NextState[state][tms + 1]
    BY <1>1 DEF rising_edge
  <2>2. CASE p = 14 /\ bits = 2
    <3>1. state = "test_logic_reset" /\ tms = 0
      BY <1>3, <1>6, <2>2 DEF ResettingAt, DTMCONTROL_DMIHARDRESET, ResetCycle, Cycle
    <3>2. ResetState(15) = "run_test_idle"
      BY DEF ResetState
    <3> QED BY <2>1, <2>2, <3>1, <3>2, StateTable
  <2>3. CASE ~(p = 14 /\ bits = 2)
    <3>1. state = ResetState(p)
      BY <1>3, <2>3 DEF ResettingAt, DTMCONTROL_DMIHARDRESET
    <3> QED BY <2>1, <3>1, <1>6, ResetMove
  <2> QED BY <2>2, <2>3
<1>8. ASSUME NEW k \in 1 .. Len(plan') PROVE plan'[k] = ResetCycle(bits, p + 1 + k)
  <2>1. k + 1 \in 1 .. Len(plan) /\ k \in 1 .. Len(plan) - 1
    BY <1>1, <1>2
  <2>2. plan'[k] = plan[k + 1] /\ plan[k + 1] = ResetCycle(bits, p + (k + 1))
    BY <2>1, <1>1, <1>3, <1>4 DEF ResettingAt
  <2>3. p + (k + 1) = p + 1 + k
    BY <2>1
  <2> QED BY <2>2, <2>3
<1>9. Bit(1, 1) = 1 /\ Bit(1, 2) = 0 /\ Bit(2, 1) = 0 /\ Bit(2, 2) = 1
  BY DEF Bit
<1>10. /\ p + 1 = 5 => ir' \in {0, 1}
       /\ p + 1 \in 6 .. 19 => ir' = 2
       /\ p + 1 >= 20 => ir' = 3
  <2>1. ir' = IF state = "shift_ir" THEN (ir \div 2) + (tdi * 2) ELSE ir
    BY <1>1 DEF rising_edge, Shifted, IrLength
  <2>2. state = "shift_ir" <=> p \in {4, 5, 19, 20}
    BY <1>3 DEF ResettingAt, ResetState
  <2>3. /\ p = 4 => tdi = 0
        /\ p \in {5, 19, 20} => tdi = 1
    BY <1>6 DEF ResetCycle, Cycle
  <2>4. /\ p = 5 => ir \in {0, 1}
        /\ p \in 6 .. 19 => ir = 2
        /\ p >= 20 => ir = 3
    BY <1>3 DEF ResettingAt, IR_DTMCONTROL, IR_DBUS
  <2>5. ir \in 0 .. 3
    BY DEF TypeInv
  <2>6. CASE p = 4
    BY <2>1, <2>2, <2>3, <2>5, <2>6
  <2>7. CASE p \in {5, 19, 20}
    BY <2>1, <2>2, <2>3, <2>4, <2>7
  <2>8. CASE p \notin {4, 5, 19, 20}
    BY <2>1, <2>2, <2>4, <2>8
  <2> QED BY <2>6, <2>7, <2>8
<1>11. /\ p + 1 = 11 => dr' = 0 /\ dr_length' = 2
       /\ p + 1 = 12 => dr' = 2 * Bit(bits, 1) /\ dr_length' = 2
       /\ p + 1 \in {13, 14} => dr' = bits
  <2>1. /\ dr' = IF state = "shift_dr" THEN (dr \div 2) + (tdi * 2 ^ (dr_length - 1)) ELSE dr
        /\ dr_length' = dr_length
    BY <1>1 DEF rising_edge, Shifted
  <2>2. /\ p \in {10, 13} => state # "shift_dr"
        /\ p \in {11, 12} => state = "shift_dr"
    <3>1. p # 14 => state = ResetState(p)
      BY <1>3 DEF ResettingAt
    <3> QED BY <3>1 DEF ResetState
  <2>3. /\ p = 11 => tdi = Bit(bits, 1)
        /\ p = 12 => tdi = Bit(bits, 2)
    BY <1>6 DEF ResetCycle, Cycle
  <2>4. /\ p \in {10, 11} => dr = 0 /\ dr_length = 2
        /\ p = 12 => dr = 2 * Bit(bits, 1) /\ dr_length = 2
        /\ p = 13 => dr = bits
    BY <1>3 DEF ResettingAt
  <2>5. CASE p \in {10, 13}
    BY <2>1, <2>2, <2>4, <2>5
  <2>6. CASE p = 11
    <3>1. dr' = (0 \div 2) + (Bit(bits, 1) * 2)
      BY <2>1, <2>2, <2>3, <2>4, <2>6
    <3> QED BY <3>1, <2>1, <2>4, <2>6, <1>9
  <2>7. CASE p = 12
    <3>1. dr' = ((2 * Bit(bits, 1)) \div 2) + (Bit(bits, 2) * 2)
      BY <2>1, <2>2, <2>3, <2>4, <2>7
    <3>2. CASE bits = 1
      BY <3>1, <3>2, <2>7, <1>9
    <3>3. CASE bits = 2
      BY <3>1, <3>3, <2>7, <1>9
    <3> QED BY <3>2, <3>3
  <2>8. CASE p \notin {10, 11, 12, 13}
    BY <2>8
  <2> QED BY <2>5, <2>6, <2>7, <2>8
<1>12. ResettingAt(bits, p + 1)'
  BY <1>1, <1>7, <1>8, <1>10, <1>11 DEF ResettingAt, IR_DTMCONTROL, IR_DBUS
<1> QED BY <1>1, <1>2, <1>12 DEF Resetting

\* TCK goes low there: no operation is carried out, and dmireset keeps the
\* result of the last one.
LEMMA ResettingFall ==
    ASSUME TypeInv, NEW bits \in {1, 2}, Resetting(bits), pin_command, low = TRUE
    PROVE  /\ Resetting(bits)' /\ ~Performs
           /\ bits = 1 => dmi' = dmi
<1>1. /\ plan # <<>> /\ plan' = plan /\ low' = FALSE
      /\ falling_edge(Success(dr), Value(dr))
  BY PinFall
<1>2. PICK p \in 0 .. 23 : p = 23 - Len(plan) /\ Len(plan) \in 0 .. 23
  <2>1. Len(plan) \in 0 .. 23 /\ 23 \in Nat
    BY DEF Resetting
  <2>2. 23 - Len(plan) \in 0 .. 23
    BY <2>1, Position
  <2> QED BY <2>1, <2>2
<1>3. ResettingAt(bits, p)
  BY <1>2 DEF Resetting
<1>4. state = ResetState(p)
  BY <1>3 DEF ResettingAt
<1>5. ~Performs
  <2>1. state = "update_dr" => p = 14
    BY <1>4 DEF ResetState
  <2>2. p = 14 => ir = 2
    BY <1>3 DEF ResettingAt, IR_DTMCONTROL
  <2> QED BY <2>1, <2>2 DEF Performs, IR_DBUS
<1>6. CASE p \notin {10, 14}
  <2>1. state \notin {"capture_dr", "update_dr", "test_logic_reset"}
    BY <1>4, <1>6 DEF ResetState
  <2>2. /\ state' = state /\ ir' = ir /\ dr' = dr /\ dr_length' = dr_length /\ dmi' = dmi
    <3>1. CASE state \in {"shift_dr", "shift_ir"}
      BY <3>1, <1>1, FallShift
    <3>2. CASE state \notin {"shift_dr", "shift_ir"}
      BY <3>2, <2>1, <1>1, FallQuiet
    <3> QED BY <3>1, <3>2
  <2>3. ResettingAt(bits, p)'
    BY <1>1, <1>3, <1>6, <2>2 DEF ResettingAt
  <2> QED BY <1>1, <1>2, <1>5, <2>2, <2>3 DEF Resetting
<1>7. CASE p = 10
  <2>1. state = "capture_dr" /\ ir = 2
    BY <1>3, <1>4, <1>7 DEF ResettingAt, ResetState, IR_DTMCONTROL
  <2>2. state' = state /\ ir' = ir /\ dmi' = dmi /\ capture_dr
    BY <2>1, <1>1, FallCapture
  <2>3. dr' = 0 /\ dr_length' = 2
    BY <2>1, <2>2 DEF capture_dr, IR_IDCODE, IR_DTMCONTROL, IR_BYPASS, IR_DBUS, dtmcontrol
  <2>4. ResettingAt(bits, p)'
    BY <1>1, <1>3, <1>7, <2>2, <2>3 DEF ResettingAt
  <2> QED BY <1>1, <1>2, <1>5, <2>2, <2>4 DEF Resetting
<1>8. CASE p = 14
  <2>1. state = "update_dr" /\ ir = 2 /\ dr = bits
    BY <1>3, <1>4, <1>8 DEF ResettingAt, ResetState, IR_DTMCONTROL
  <2>2. ir' = ir /\ dr' = dr /\ dr_length' = dr_length /\ update_dr(Success(dr), Value(dr))
    BY <2>1, <1>1, FallUpdate
  <2>3. /\ state' = IF bits \div 2 = 1 THEN "test_logic_reset" ELSE state
        /\ dmi' = IF bits \div 2 = 1 THEN 0 ELSE dmi
    BY <2>1, <2>2, <1>5 DEF update_dr, IR_IDCODE, IR_DTMCONTROL, IR_BYPASS, IR_DBUS,
                            DTMCONTROL_DMIHARDRESET
  <2>4. 1 \div 2 = 0 /\ 2 \div 2 = 1
    OBVIOUS
  <2>5. state' = IF bits = 2 THEN "test_logic_reset" ELSE state
    BY <2>3, <2>4
  <2>6. bits = 1 => dmi' = dmi
    BY <2>3, <2>4
  <2>7. ResettingAt(bits, p)'
    BY <1>1, <1>3, <1>4, <1>8, <2>2, <2>5 DEF ResettingAt, DTMCONTROL_DMIHARDRESET
  <2> QED BY <1>1, <1>2, <1>5, <2>6, <2>7 DEF Resetting
<1> QED BY <1>6, <1>7, <1>8

-----------------------------------------------------------------------------
(* The scans                                                               *)

\* The cycles of a scan lead from state to state.
LEMMA ScanMove ==
    ASSUME NEW p \in Nat
    PROVE  NextState[ScanState(p)][ScanCycle(p + 1).s + 1] = ScanState(p + 1)
<1>1. CASE p = 0
  BY <1>1, StateTable DEF ScanState, ScanCycle, Cycle
<1>2. CASE p = 1
  BY <1>2, StateTable DEF ScanState, ScanCycle, Cycle
<1>3. CASE p = 2
  BY <1>3, StateTable DEF ScanState, ScanCycle, Cycle
<1>4. CASE p = 3
  BY <1>4, StateTable DEF ScanState, ScanCycle, Cycle
<1>5. CASE p = 4
  BY <1>5, StateTable DEF ScanState, ScanCycle, Cycle
<1>6. CASE p = 5
  BY <1>6, StateTable DEF ScanState, ScanCycle, Cycle
<1>7. CASE p = 6
  BY <1>7, StateTable DEF ScanState, ScanCycle, Cycle
<1>8. CASE p = 7
  BY <1>8, StateTable DEF ScanState, ScanCycle, Cycle
<1>9. CASE p = 8
  BY <1>9, StateTable DEF ScanState, ScanCycle, Cycle
<1>10. CASE p >= 9
  <2>1. ScanState(p) = "run_test_idle" /\ ScanState(p + 1) = "run_test_idle"
    BY <1>10 DEF ScanState
  <2>2. ScanCycle(p + 1).s = 0
    BY <1>10 DEF ScanCycle, Cycle
  <2> QED BY <2>1, <2>2, StateTable
<1> QED BY <1>1, <1>2, <1>3, <1>4, <1>5, <1>6, <1>7, <1>8, <1>9, <1>10

\* One cycle in a shift state takes a bit of Word in.
LEMMA ShiftMove ==
    ASSUME TypeInv, NEW n \in 0 .. 3
    PROVE  /\ (Shifting(n) \div 2) + (Bit(Word, n + 1) * 8) = Shifting(n + 1)
           /\ Shifting(n) % 2 = Bit(Cap, n + 1)
<1>1. Word \in 0 .. 15
  BY WordType
<1>2. Cap \in 0 .. 15
  BY DEF Cap, TypeInv, BUSY
<1>3. \A v \in 0 .. 15 : /\ Bit(v, 1) = v % 2 /\ Bit(v, 2) = (v \div 2) % 2
                         /\ Bit(v, 3) = (v \div 4) % 2 /\ Bit(v, 4) = (v \div 8) % 2
  BY DEF Bit
<1>4. PICK w \in 0 .. 15, c \in 0 .. 15 : w = Word /\ c = Cap
  BY <1>1, <1>2
<1>5. /\ Bit(w, 1) = w % 2 /\ Bit(w, 2) = (w \div 2) % 2
      /\ Bit(w, 3) = (w \div 4) % 2 /\ Bit(w, 4) = (w \div 8) % 2
      /\ Bit(c, 1) = c % 2 /\ Bit(c, 2) = (c \div 2) % 2
      /\ Bit(c, 3) = (c \div 4) % 2 /\ Bit(c, 4) = (c \div 8) % 2
  BY <1>3
<1>6. /\ Shifting(0) = c
      /\ Shifting(1) = (c \div 2) + (8 * (w % 2))
      /\ Shifting(2) = (c \div 4) + (4 * (w % 4))
      /\ Shifting(3) = (c \div 8) + (2 * (w % 8))
      /\ Shifting(4) = w
  BY <1>4 DEF Shifting
<1>7. CASE n = 0
  <2>1. /\ (c \div 2) + ((w % 2) * 8) = (c \div 2) + (8 * (w % 2))
    OBVIOUS
  <2> QED BY <1>4, <1>5, <1>6, <1>7, <2>1
<1>8. CASE n = 1
  <2>1. /\ (((c \div 2) + (8 * (w % 2))) \div 2) + (((w \div 2) % 2) * 8)
              = (c \div 4) + (4 * (w % 4))
        /\ ((c \div 2) + (8 * (w % 2))) % 2 = (c \div 2) % 2
    OBVIOUS
  <2> QED BY <1>4, <1>5, <1>6, <1>8, <2>1
<1>9. CASE n = 2
  <2>1. /\ (((c \div 4) + (4 * (w % 4))) \div 2) + (((w \div 4) % 2) * 8)
              = (c \div 8) + (2 * (w % 8))
        /\ ((c \div 4) + (4 * (w % 4))) % 2 = (c \div 4) % 2
    OBVIOUS
  <2> QED BY <1>4, <1>5, <1>6, <1>9, <2>1
<1>10. CASE n = 3
  <2>1. /\ (((c \div 8) + (2 * (w % 8))) \div 2) + (((w \div 8) % 2) * 8) = w
        /\ ((c \div 8) + (2 * (w % 8))) % 2 = (c \div 8) % 2
    OBVIOUS
  <2> QED BY <1>4, <1>5, <1>6, <1>10, <2>1
<1> QED BY <1>7, <1>8, <1>9, <1>10

\* TCK goes high in a scan.
LEMMA ScanRise ==
    ASSUME TypeInv, PinsInv, Scanning, ScanInv, pin_command, low = FALSE
    PROVE  ScanInv'
<1>1. /\ plan # <<>> /\ plan' = Tail(plan) /\ low' = TRUE
      /\ tms = plan[1].s /\ tdi = plan[1].i /\ rising_edge
      /\ goal' = goal /\ phase' = phase /\ delay' = delay /\ got' = got
      /\ times' = times /\ done' = done /\ answer' = answer
  BY PinRise
<1>2. PICK p \in Nat :
          /\ p = ScanLength - Len(plan) /\ p + 1 = ScanLength - Len(Tail(plan))
          /\ Len(plan) \in Nat \ {0} /\ Len(Tail(plan)) \in 0 .. ScanLength
          /\ Len(Tail(plan)) = Len(plan) - 1
  <2>1. Len(plan) \in 0 .. ScanLength
    BY DEF ScanInv
  <2>2. ScanLength \in Nat
    BY DEF ScanLength, TypeInv
  <2>3. PICK p \in 0 .. ScanLength - 1 :
          /\ p = ScanLength - Len(plan) /\ p + 1 = ScanLength - Len(Tail(plan))
          /\ Len(plan) \in 1 .. ScanLength /\ Len(Tail(plan)) \in 0 .. ScanLength
          /\ Len(Tail(plan)) = Len(plan) - 1
    BY <1>1, <2>1, <2>2, Forward
  <2>4. p \in Nat /\ Len(plan) \in Nat \ {0}
    BY <2>3
  <2> QED BY <2>3, <2>4
<1>3. ScanAt(p)
  BY <1>2 DEF ScanInv
<1>4. \A k \in 1 .. Len(plan) - 1 : Tail(plan)[k] = plan[k + 1]
  BY <1>1, Rest DEF TypeInv
<1>5. plan[1] = ScanCycle(p + 1)
  BY <1>2, <1>3 DEF ScanAt
<1>6. tms = ScanCycle(p + 1).s /\ tdi = ScanCycle(p + 1).i
  BY <1>1, <1>5
<1>7. state = ScanState(p)
  BY <1>3 DEF ScanAt
<1>8. state' = ScanState(p + 1)
  BY <1>1, <1>6, <1>7, ScanMove DEF rising_edge
<1>9. /\ dmi' = dmi /\ busy_stuck' = busy_stuck /\ dr_length' = dr_length
  BY <1>1 DEF rising_edge
<1>10. Word' = Word /\ Cap' = Cap /\ Captured' = Captured
  BY <1>1, <1>9 DEF Word, Cap, Captured
<1>11. \A k : Shifting(k)' = Shifting(k)
  BY <1>10 DEF Shifting
<1>12. ASSUME NEW k \in 1 .. Len(plan') PROVE plan'[k] = ScanCycle(p + 1 + k)'
  <2>1. k + 1 \in 1 .. Len(plan) /\ k \in 1 .. Len(plan) - 1
    BY <1>1, <1>2
  <2>2. plan'[k] = plan[k + 1] /\ plan[k + 1] = ScanCycle(p + (k + 1))
    BY <2>1, <1>1, <1>3, <1>4 DEF ScanAt
  <2>3. p + (k + 1) = p + 1 + k
    BY <2>1
  <2>4. ScanCycle(p + 1 + k)' = ScanCycle(p + 1 + k)
    BY <1>10 DEF ScanCycle
  <2> QED BY <2>2, <2>3, <2>4
<1>13. ir' = IR_DBUS
  <2>1. state # "shift_ir"
    BY <1>7 DEF ScanState
  <2> QED BY <1>1, <1>3, <2>1 DEF rising_edge, ScanAt
<1>14. Waiting(p + 1)' => got' = <<>> /\ times' = 0
  <2>1. Waiting(p + 1)' => Waiting(p)
    BY <1>1 DEF Waiting
  <2> QED BY <2>1, <1>1, <1>3 DEF ScanAt
<1>15. ASSUME Capturing(p + 1)'
       PROVE  /\ times' = 0 /\ dr_length' = DmiLength /\ dr' = Shifting(Entered(p + 1))'
              /\ Len(got') = Read(p + 1)'
              /\ \A k \in 1 .. Read(p + 1)' : got'[k] = Bit(Cap', k)
  <2>1. p \in 2 .. 7 /\ Capturing(p)
    BY <1>1, <1>15 DEF Capturing
  <2>2. /\ times = 0 /\ dr_length = DmiLength /\ dr = Shifting(Entered(p))
        /\ Len(got) = Read(p)
        /\ \A k \in 1 .. Read(p) : got[k] = Bit(Cap, k)
    BY <1>3, <2>1 DEF ScanAt
  <2>3. Read(p + 1)' = Read(p) /\ Entered(p + 1)' = Entered(p + 1)
    BY <1>1, <2>1 DEF Read, Entered
  <2>4. dr' = Shifting(Entered(p + 1))
    <3>1. dr' = IF state = "shift_dr" THEN (dr \div 2) + (tdi * 2 ^ (dr_length - 1)) ELSE dr
      BY <1>1 DEF rising_edge, Shifted
    <3>2. CASE p \in {2, 7}
      <4>1. state # "shift_dr"
        BY <1>7, <3>2 DEF ScanState
      <4>2. Entered(p + 1) = Entered(p)
        BY <3>2 DEF Entered
      <4> QED BY <3>1, <4>1, <4>2, <2>2
    <3>3. CASE p \in 3 .. 6
      <4>1. state = "shift_dr"
        BY <1>7, <3>3 DEF ScanState
      <4>2. PICK n \in 0 .. 3 : n = p - 3
        BY <3>3
      <4>3. Entered(p) = n /\ Entered(p + 1) = n + 1
        BY <3>3, <4>2 DEF Entered
      <4>4. tdi = Bit(Word, n + 1)
        <5>1. p + 1 \in 4 .. 7 /\ p + 1 - 3 = n + 1
          BY <3>3, <4>2
        <5>2. ScanCycle(p + 1).i = Bit(Word, p + 1 - 3)
          BY <5>1 DEF ScanCycle, Cycle
        <5> QED BY <1>6, <5>1, <5>2
      <4>5. 2 ^ (dr_length - 1) = 8
        BY <2>2 DEF DmiLength
      <4>6. dr' = (Shifting(n) \div 2) + (Bit(Word, n + 1) * 8)
        BY <3>1, <4>1, <4>3, <4>4, <4>5, <2>2
      <4> QED BY <4>6, <4>3, ShiftMove
    <3> QED BY <2>1, <3>2, <3>3
  <2> QED BY <1>1, <1>9, <1>10, <1>11, <2>2, <2>3, <2>4
<1>16. Updated(p + 1)' => /\ times' = IF busy_stuck' THEN 0 ELSE 1
                          /\ DmiOp(Captured') = BUSY <=> busy_stuck'
  <2>1. Updated(p + 1)' => Updated(p)
    BY <1>1 DEF Updated
  <2> QED BY <2>1, <1>1, <1>3, <1>9, <1>10 DEF ScanAt
<1>17. Carried'
  <2>1. Carried
    BY <1>3 DEF ScanAt
  <2>2. Pending' <=> Pending
    BY <1>1, <1>9 DEF Pending, Success
  <2> QED BY <2>1, <2>2, <1>1, <1>10 DEF Carried, Success
<1>18. goal' # "done"
  BY <1>1, <1>3 DEF ScanAt
<1>19. ScanAt(p + 1)'
  BY <1>8, <1>12, <1>13, <1>14, <1>15, <1>16, <1>17, <1>18 DEF ScanAt
<1>20. ScanLength' = ScanLength
  BY <1>1 DEF ScanLength
<1> QED BY <1>1, <1>2, <1>19, <1>20 DEF ScanInv

\* What was read is the register as it was captured.
LEMMA CapturedAll ==
    ASSUME TypeInv, Len(got) = 4, \A k \in 1 .. 4 : got[k] = Bit(Cap, k)
    PROVE  Captured = Cap
<1>1. Cap \in 0 .. 15
  BY DEF Cap, TypeInv, BUSY
<1>2. Bit(Cap, 1) + (2 * Bit(Cap, 2)) + (4 * Bit(Cap, 3)) + (8 * Bit(Cap, 4)) = Cap
  BY <1>1, FourBits
<1>3. got[1] = Bit(Cap, 1) /\ got[2] = Bit(Cap, 2) /\ got[3] = Bit(Cap, 3) /\ got[4] = Bit(Cap, 4)
  OBVIOUS
<1>4. Captured = got[1] + (2 * got[2]) + (4 * got[3]) + (8 * got[4])
  BY DEF Captured, DmiLength
<1> QED BY <1>2, <1>3, <1>4

\* The position of a scan, and what holds there.
LEMMA ScanHere ==
    ASSUME TypeInv, Scanning, ScanInv
    PROVE  \E p \in Nat : p = ScanLength - Len(plan) /\ Len(plan) \in 0 .. ScanLength /\ ScanAt(p)
<1>1. Len(plan) \in 0 .. ScanLength /\ ScanAt(ScanLength - Len(plan))
  BY DEF ScanInv
<1>2. ScanLength \in Nat
  BY DEF ScanLength, TypeInv
<1>3. ScanLength - Len(plan) \in 0 .. ScanLength
  BY <1>1, <1>2, Position
<1>4. ScanLength - Len(plan) \in Nat
  BY <1>3
<1> QED BY <1>1, <1>4

\* A scan goes on when TCK goes low and nothing but the position within the
\* cycle changes.
LEMMA ScanQuiet ==
    ASSUME NEW p \in Nat, p \notin {2, 8} \cup (3 .. 6), ScanAt(p), low = TRUE, low' = FALSE,
           plan' = plan, state' = state, ir' = ir, dr' = dr, dr_length' = dr_length,
           dmi' = dmi, busy_stuck' = busy_stuck, goal' = goal, phase' = phase, got' = got,
           times' = times, done' = done, answer' = answer
    PROVE  ScanAt(p)'
<1>1. Word' = Word /\ Cap' = Cap /\ Captured' = Captured
  BY DEF Word, Cap, Captured
<1>2. Shifting(Entered(p))' = Shifting(Entered(p)) /\ Read(p)' = Read(p)
  BY <1>1 DEF Shifting, Entered, Read
<1>3. Waiting(p)' = Waiting(p) /\ Capturing(p)' = Capturing(p) /\ Updated(p)' = Updated(p)
  BY DEF Waiting, Capturing, Updated
<1>4. \A k \in Nat : ScanCycle(p + k)' = ScanCycle(p + k)
  BY <1>1 DEF ScanCycle
<1>5. \A k \in 1 .. Len(plan) : plan[k] = ScanCycle(p + k)'
  BY <1>4 DEF ScanAt
<1>6. Carried'
  <2>1. Pending' <=> Pending
    BY DEF Pending, Success
  <2> QED BY <2>1, <1>1 DEF ScanAt, Carried, Success
<1>7. \A k : Bit(Cap, k)' = Bit(Cap, k)
  BY <1>1 DEF Bit
<1> QED BY <1>1, <1>2, <1>3, <1>5, <1>6, <1>7 DEF ScanAt

\* The capture.
LEMMA ScanCapture ==
    ASSUME TypeInv, ScanAt(2), low = TRUE, low' = FALSE, Scanning,
           plan' = plan, state' = state, ir' = ir, capture_dr,
           dmi' = dmi, goal' = goal, phase' = phase, got' = got,
           times' = times, done' = done, answer' = answer
    PROVE  ScanAt(2)'
<1>1. ir = 3 /\ got = <<>> /\ times = 0 /\ Waiting(2)
  BY DEF ScanAt, Waiting, IR_DBUS
<1>2. Waiting(2)' = FALSE /\ Updated(2)' = FALSE
  BY DEF Waiting, Updated
<1>3. /\ dr' = (IF busy_stuck' THEN BUSY ELSE dmi) /\ dr_length' = 4
  <2>1. dr' = IF rti_remaining > 0 \/ busy_stuck THEN BUSY ELSE dmi
    BY <1>1 DEF capture_dr, IR_IDCODE, IR_DTMCONTROL, IR_BYPASS, IR_DBUS
  <2>2. busy_stuck' = (rti_remaining > 0 \/ busy_stuck)
    BY <1>1 DEF capture_dr, IR_DBUS
  <2>3. dr_length' = 4
    BY <1>1 DEF capture_dr, IR_BYPASS, IR_DBUS, DmiLength
  <2> QED BY <2>1, <2>2, <2>3
<1>4. dr' = Cap'
  BY <1>3 DEF Cap
<1>5. Entered(2)' = 0 /\ Read(2)' = 0
  BY DEF Entered, Read
<1>6. dr' = Shifting(Entered(2))'
  BY <1>4, <1>5 DEF Shifting
<1>7. \A k \in Nat : ScanCycle(2 + k)' = ScanCycle(2 + k)
  BY DEF ScanCycle, Word
<1>8. \A k \in 1 .. Len(plan) : plan[k] = ScanCycle(2 + k)'
  BY <1>7 DEF ScanAt
<1>9. Carried'
  <2>1. Pending' <=> Pending
    BY DEF Pending, Success
  <2>2. Captured' = Captured
    BY DEF Captured
  <2> QED BY <2>1, <2>2 DEF ScanAt, Carried, Success
<1>10. Len(got') = 0
  BY <1>1
<1> QED BY <1>1, <1>2, <1>3, <1>5, <1>6, <1>8, <1>9, <1>10 DEF ScanAt, DmiLength

\* A bit is read.
LEMMA ScanShift ==
    ASSUME TypeInv, NEW p \in 3 .. 6, ScanAt(p), low = TRUE, low' = FALSE, Scanning,
           plan' = plan, state' = state, ir' = ir, dr' = dr, dr_length' = dr_length,
           dmi' = dmi, busy_stuck' = busy_stuck, goal' = goal, phase' = phase,
           got' = Append(got, dr % 2),
           times' = times, done' = done, answer' = answer
    PROVE  ScanAt(p)'
<1> DEFINE n == p - 3
<1>1. /\ Waiting(p)' = FALSE /\ Updated(p)' = FALSE /\ Capturing(p)
      /\ Entered(p) = n /\ Entered(p)' = n /\ Read(p) = n /\ Read(p)' = n + 1
  BY DEF Waiting, Updated, Capturing, Entered, Read
<1>2. /\ times = 0 /\ dr_length = DmiLength /\ dr = Shifting(n)
      /\ Len(got) = n /\ \A k \in 1 .. n : got[k] = Bit(Cap, k)
  BY <1>1 DEF ScanAt
<1>3. n \in 0 .. 3
  OBVIOUS
<1> HIDE DEF n
<1>4. dr % 2 = Bit(Cap, n + 1)
  BY <1>2, <1>3, ShiftMove
<1>5. Word' = Word /\ Cap' = Cap
  BY DEF Word, Cap
<1>6. Len(got') = n + 1
  BY <1>2 DEF TypeInv
<1>7. ASSUME NEW k \in 1 .. n + 1 PROVE got'[k] = Bit(Cap', k)
  <2>1. Bit(Cap', k) = Bit(Cap, k)
    BY <1>5
  <2>2. CASE k \in 1 .. n
    <3>1. got \in Seq({0, 1}) /\ k \in 1 .. Len(got)
      BY <2>2, <1>2 DEF TypeInv
    <3>2. Append(got, dr % 2)[k] = got[k]
      BY <3>1
    <3>3. got'[k] = got[k]
      BY <3>2
    <3>4. got[k] = Bit(Cap, k)
      BY <2>2, <1>2
    <3> QED BY <2>1, <3>3, <3>4, Zenon
  <2>3. CASE k = n + 1
    <3>1. got'[n + 1] = dr % 2
      BY <1>2, <1>3 DEF TypeInv
    <3> QED BY <3>1, <2>1, <2>3, <1>4
  <2>4. k \in 1 .. n \/ k = n + 1
    BY <1>3
  <2> QED BY <2>2, <2>3, <2>4
<1>8. Shifting(n)' = Shifting(n)
  BY <1>5 DEF Shifting
<1>9. \A k \in Nat : ScanCycle(p + k)' = ScanCycle(p + k)
  BY <1>5 DEF ScanCycle
<1>10. \A k \in 1 .. Len(plan) : plan[k] = ScanCycle(p + k)'
  BY <1>9 DEF ScanAt
<1>11. Carried'
  <2>1. Pending' <=> Pending
    BY DEF Pending, Success
  <2>2. times' = 0
    BY <1>2
  <2> QED BY <2>1, <2>2, <1>2 DEF ScanAt, Carried
<1> QED BY <1>1, <1>2, <1>6, <1>7, <1>8, <1>10, <1>11 DEF ScanAt

\* The update: the scan is carried out if the capture did not answer busy.
LEMMA ScanUpdate ==
    ASSUME TypeInv, ScanAt(8), low = TRUE, low' = FALSE, Scanning,
           plan' = plan, ir' = ir, dr' = dr, dr_length' = dr_length,
           update_dr(Success(dr), Value(dr)),
           goal' = goal, phase' = phase, got' = got,
           ~Performs => times' = times /\ done' = done /\ answer' = answer,
           Performs => /\ times' = times + 1
                       /\ done' = IF DmiOp(dr) = NOP THEN done ELSE dr
                       /\ answer' = IF DmiOp(dr) = READ THEN Value(dr) ELSE answer
    PROVE  ScanAt(8)' /\ dr = Word /\ times = 0
<1>1. /\ times = 0 /\ dr_length = DmiLength /\ dr = Shifting(4)
      /\ Len(got) = 4 /\ \A k \in 1 .. 4 : got[k] = Bit(Cap, k)
  <2>1. Capturing(8) /\ Entered(8) = 4 /\ Read(8) = 4
    BY DEF Capturing, Entered, Read
  <2> QED BY <2>1 DEF ScanAt
<1>2. dr = Word
  BY <1>1 DEF Shifting
<1>3. state = "update_dr" /\ ir = 3 /\ goal # "done" /\ Carried
  BY DEF ScanAt, ScanState, IR_DBUS
<1>4. Performs <=> ~busy_stuck
  BY <1>3 DEF Performs, IR_DBUS
<1>5. state' = state /\ busy_stuck' = busy_stuck
  BY <1>3, <1>4 DEF update_dr, IR_IDCODE, IR_DTMCONTROL, IR_BYPASS, IR_DBUS
<1>6. Captured = Cap /\ Captured' = Captured
  BY <1>1, CapturedAll DEF Captured
<1>7. DmiOp(Captured) = BUSY <=> busy_stuck
  <2>1. DmiOp(BUSY) = BUSY
    BY DEF DmiOp, BUSY
  <2>2. DmiOp(dmi) # BUSY
    BY DEF TypeInv, SUCCESS, FAILED, BUSY
  <2> QED BY <1>6, <2>1, <2>2 DEF Cap, TypeInv
<1>8. Waiting(8)' = FALSE /\ Capturing(8)' = FALSE
  BY DEF Waiting, Capturing
<1>9. \A k \in Nat : ScanCycle(8 + k)' = ScanCycle(8 + k)
  BY DEF ScanCycle, Word
<1>10. \A k \in 1 .. Len(plan) : plan[k] = ScanCycle(8 + k)'
  BY <1>9 DEF ScanAt
<1>11. CASE busy_stuck
  <2>1. dmi' = dmi
    <3>1. ~Performs
      BY <1>4, <1>11
    <3> QED BY <1>3, <3>1 DEF update_dr, IR_IDCODE, IR_DTMCONTROL, IR_BYPASS, IR_DBUS
  <2>2. times' = 0 /\ done' = done /\ answer' = answer
    BY <1>1, <1>4, <1>11
  <2>3. Pending' <=> Pending
    BY <2>1, <2>2 DEF Pending, Success
  <2>4. Carried'
    BY <1>1, <1>3, <2>2, <2>3 DEF Carried
  <2>5. times' = 0 /\ (DmiOp(Captured') = BUSY <=> busy_stuck')
    BY <1>5, <1>6, <1>7, <2>2
  <2> QED BY <1>1, <1>2, <1>3, <1>4, <1>5, <1>8, <1>10, <1>11, <2>4, <2>5 DEF ScanAt, IR_DBUS
<1>12. CASE ~busy_stuck
  <2>1. dmi' = Result(Success(dr), Value(dr))
    BY <1>3, <1>4, <1>12 DEF update_dr, IR_IDCODE, IR_DTMCONTROL, IR_BYPASS, IR_DBUS
  <2>2. /\ times' = 1
        /\ done' = IF DmiOp(dr) = NOP THEN done ELSE dr
        /\ answer' = IF DmiOp(dr) = READ THEN Value(dr) ELSE answer
    BY <1>1, <1>4, <1>12
  <2>3. dr \in 0 .. 15 /\ Value(dr) \in {0, 1}
    BY <1>2, WordType DEF Value
  <2>4. Carried'
    <3>1. CASE phase = "op_sent"
      <4>1. dr = WordOf[goal]
        BY <1>2, <3>1 DEF Word
      <4>2. DmiOp(WordOf[goal]) # NOP
        BY <1>3 DEF TypeInv, Goals, WordOf, Dmi, DmiOp, READ, WRITE, NOP, ABSTRACTCS, CLEAR,
                    HALT, DMSTATUS, COMMAND, RESUME, NOWHERE
      <4>3. done' = dr /\ done' = WordOf[goal']
        BY <2>2, <4>1, <4>2
      <4>4. /\ DmiOp(dmi') = IF Success(dr) THEN SUCCESS ELSE FAILED
            /\ DmiArg(dmi') = IF DmiOp(dr) = READ /\ Success(dr) THEN Value(dr) ELSE DmiArg(dr)
        BY <2>1, <2>3, ResultType
      <4>5. Pending'
        BY <2>2, <4>3, <4>4 DEF Pending, Success
      <4> QED BY <2>2, <3>1, <4>5 DEF Carried
    <3>2. CASE phase = "fetch_sent"
      <4>1. DmiOp(dr) = NOP /\ DmiOp(dr) # READ
        BY <1>2, <3>2 DEF Word, DmiOp, NOP, READ
      <4>2. done' = done /\ answer' = answer
        BY <2>2, <4>1
      <4>3. Captured = dmi
        BY <1>6, <1>12 DEF Cap
      <4>4. Pending
        BY <1>1, <1>3, <3>2 DEF Carried
      <4>5. /\ done' = WordOf[goal']
            /\ DmiOp(Captured') = IF Success(done') THEN SUCCESS ELSE FAILED
            /\ DmiOp(done') = READ /\ Success(done') => DmiArg(Captured') = answer'
        BY <4>2, <4>3, <4>4, <1>6 DEF Pending
      <4> QED BY <2>2, <3>2, <4>5 DEF Carried, Success
    <3> QED BY <3>1, <3>2 DEF Scanning
  <2>5. times' = 1 /\ (DmiOp(Captured') = BUSY <=> busy_stuck')
    BY <1>5, <1>6, <1>7, <2>2
  <2> QED BY <1>1, <1>2, <1>3, <1>4, <1>5, <1>8, <1>10, <1>12, <2>4, <2>5 DEF ScanAt, IR_DBUS
<1> QED BY <1>11, <1>12

\* TCK goes low in a scan.
LEMMA ScanFall ==
    ASSUME TypeInv, Scanning, ScanInv, pin_command, low = TRUE
    PROVE  ScanInv' /\ (Performs => dr = Word /\ times = 0)
<1>1. /\ plan # <<>> /\ plan' = plan /\ low' = FALSE
      /\ falling_edge(Success(dr), Value(dr))
      /\ goal' = goal /\ phase' = phase /\ delay' = delay
      /\ got' = IF state = "shift_dr" /\ Scanning THEN Append(got, tdo') ELSE got
      /\ ~Performs => times' = times /\ done' = done /\ answer' = answer
      /\ Performs => /\ times' = times + 1
                     /\ done' = IF DmiOp(dr) = NOP THEN done ELSE dr
                     /\ answer' = IF DmiOp(dr) = READ THEN Value(dr) ELSE answer
  BY PinFall
<1>2. PICK p \in Nat : /\ p = ScanLength - Len(plan) /\ Len(plan) \in 0 .. ScanLength
                       /\ ScanAt(p)
  BY ScanHere
<1>3. state = ScanState(p)
  BY <1>2 DEF ScanAt
<1>4. SUFFICES ScanAt(p)' /\ (Performs => dr = Word /\ times = 0)
  <2>1. ScanLength' = ScanLength
    BY <1>1 DEF ScanLength
  <2> QED BY <1>1, <1>2, <2>1 DEF ScanInv
<1>5. CASE p \notin {2, 8} \cup (3 .. 6)
  <2>1. state \notin {"test_logic_reset", "capture_dr", "shift_dr", "shift_ir", "update_dr"}
    BY <1>3, <1>5 DEF ScanState
  <2>2. /\ state' = state /\ ir' = ir /\ dr' = dr /\ dr_length' = dr_length
        /\ dmi' = dmi /\ busy_stuck' = busy_stuck
    BY <1>1, <2>1, FallQuiet
  <2>3. ~Performs /\ got' = got
    BY <1>1, <2>1 DEF Performs
  <2> QED BY <1>1, <1>2, <1>5, <2>2, <2>3, ScanQuiet
<1>6. CASE p = 2
  <2>1. state = "capture_dr"
    BY <1>3, <1>6 DEF ScanState
  <2>2. state' = state /\ ir' = ir /\ dmi' = dmi /\ capture_dr
    BY <1>1, <2>1, FallCapture
  <2>3. ~Performs /\ got' = got
    BY <1>1, <2>1 DEF Performs
  <2> QED BY <1>1, <1>2, <1>6, <2>2, <2>3, ScanCapture
<1>7. CASE p \in 3 .. 6
  <2>1. state = "shift_dr"
    BY <1>3, <1>7 DEF ScanState
  <2>2. /\ state' = state /\ ir' = ir /\ dr' = dr /\ dr_length' = dr_length
        /\ dmi' = dmi /\ busy_stuck' = busy_stuck /\ tdo' = dr % 2
    BY <1>1, <2>1, FallShift
  <2>3. ~Performs /\ got' = Append(got, dr % 2)
    BY <1>1, <2>1, <2>2 DEF Performs
  <2> QED BY <1>1, <1>2, <1>7, <2>2, <2>3, ScanShift
<1>8. CASE p = 8
  <2>1. state = "update_dr"
    BY <1>3, <1>8 DEF ScanState
  <2>2. ir' = ir /\ dr' = dr /\ dr_length' = dr_length /\ update_dr(Success(dr), Value(dr))
    BY <1>1, <2>1, FallUpdate
  <2>3. got' = got
    BY <1>1, <2>1
  <2> QED BY <1>1, <1>2, <1>8, <2>2, <2>3, ScanUpdate
<1> QED BY <1>5, <1>6, <1>7, <1>8

-----------------------------------------------------------------------------
(* Every step keeps the invariant of the transport                         *)

\* Where the TAP is, by phase: a clock cycle happens in a scan or in one of
\* the two sequences.
LEMMA PinWhere ==
    ASSUME TapInv, plan # <<>>
    PROVE  \/ Scanning
           \/ Starting
           \/ phase \in {"op", "fetch"} /\ Resetting(1)
           \/ phase = "op" /\ Resetting(2)
  BY DEF TapInv, TypeInv, Phases, Scanning, BetweenInv, DTMCONTROL_DMIRESET,
         DTMCONTROL_DMIHARDRESET

\* Each half of a clock cycle keeps the invariant, in whichever sequence it is.
LEMMA PinKeeps == ASSUME TapInv, pin_command PROVE TapInv'
<1>1. TypeInv /\ PinsInv /\ ScanInv /\ BetweenInv
  BY DEF TapInv
<1>2. low \in BOOLEAN /\ plan # <<>>
  BY <1>1 DEF TypeInv, pin_command
<1>3. goal' = goal /\ phase' = phase
  BY DEF pin_command
<1>4. /\ phase \in {"op", "fetch"} => ~Scanning
      /\ Scanning => phase \notin {"op", "fetch", "connect", "reset"}
  BY DEF Scanning
<1>5. Starting => phase = "op"
  BY DEF Starting
<1>6. CASE low = FALSE
  <2>1. TypeInv' /\ PinsInv'
    BY <1>1, <1>6, RiseType
  <2>2. dmi' = dmi /\ done' = done /\ answer' = answer
    BY <1>1, <1>6, PinRise DEF rising_edge
  <2>3. Pending' <=> Pending
    BY <2>2, <1>3 DEF Pending, Success
  <2>4. CASE Scanning
    <3>1. ScanInv'
      BY <1>1, <1>6, <2>4, ScanRise
    <3>2. BetweenInv'
      BY <2>4, <1>3, <1>4 DEF BetweenInv
    <3> QED BY <2>1, <3>1, <3>2 DEF TapInv
  <2>5. CASE Starting
    <3>1. Starting'
      BY <1>1, <1>6, <2>5, StartingRise
    <3>2. BetweenInv' /\ ScanInv'
      BY <1>3, <1>5, <2>5, <3>1 DEF BetweenInv, ScanInv, Scanning
    <3> QED BY <2>1, <3>2 DEF TapInv
  <2>6. CASE phase \in {"op", "fetch"} /\ Resetting(1)
    <3>1. Resetting(1)'
      BY <1>1, <1>6, <2>6, ResettingRise
    <3>2. phase = "fetch" => Pending'
      BY <1>1, <2>3 DEF BetweenInv
    <3>3. BetweenInv' /\ ScanInv'
      BY <1>3, <2>6, <3>1, <3>2 DEF BetweenInv, ScanInv, Scanning, DTMCONTROL_DMIRESET
    <3> QED BY <2>1, <3>3 DEF TapInv
  <2>7. CASE phase = "op" /\ Resetting(2)
    <3>1. Resetting(2)'
      BY <1>1, <1>6, <2>7, ResettingRise
    <3>2. BetweenInv' /\ ScanInv'
      BY <1>3, <2>7, <3>1 DEF BetweenInv, ScanInv, Scanning, DTMCONTROL_DMIHARDRESET
    <3> QED BY <2>1, <3>2 DEF TapInv
  <2> QED BY <1>2, <2>4, <2>5, <2>6, <2>7, PinWhere
<1>7. CASE low = TRUE
  <2>1. CASE Scanning
    <3>1. ScanInv' /\ (Performs => dr = Word /\ times = 0)
      BY <1>1, <1>7, <2>1, ScanFall
    <3>2. TypeInv' /\ PinsInv'
      BY <1>1, <1>7, <3>1, FallType, WordType
    <3>3. BetweenInv'
      BY <2>1, <1>3, <1>4 DEF BetweenInv
    <3> QED BY <3>1, <3>2, <3>3 DEF TapInv
  <2>2. CASE Starting
    <3>1. Starting' /\ ~Performs
      BY <1>1, <1>7, <2>2, StartingFall
    <3>2. TypeInv' /\ PinsInv'
      BY <1>1, <1>7, <3>1, FallType
    <3>3. BetweenInv' /\ ScanInv'
      BY <1>3, <1>5, <2>2, <3>1 DEF BetweenInv, ScanInv, Scanning
    <3> QED BY <3>2, <3>3 DEF TapInv
  <2>3. CASE phase \in {"op", "fetch"} /\ Resetting(1)
    <3>1. Resetting(1)' /\ ~Performs /\ dmi' = dmi
      BY <1>1, <1>7, <2>3, ResettingFall
    <3>2. TypeInv' /\ PinsInv'
      BY <1>1, <1>7, <3>1, FallType
    <3>3. done' = done /\ answer' = answer
      BY <1>1, <1>7, <3>1, PinFall
    <3>4. Pending' <=> Pending
      BY <1>3, <3>1, <3>3 DEF Pending, Success
    <3>5. phase = "fetch" => Pending'
      BY <1>1, <3>4 DEF BetweenInv
    <3>6. BetweenInv' /\ ScanInv'
      BY <1>3, <2>3, <3>1, <3>5 DEF BetweenInv, ScanInv, Scanning, DTMCONTROL_DMIRESET
    <3> QED BY <3>2, <3>6 DEF TapInv
  <2>4. CASE phase = "op" /\ Resetting(2)
    <3>1. Resetting(2)' /\ ~Performs
      BY <1>1, <1>7, <2>4, ResettingFall
    <3>2. TypeInv' /\ PinsInv'
      BY <1>1, <1>7, <3>1, FallType
    <3>3. BetweenInv' /\ ScanInv'
      BY <1>3, <2>4, <3>1 DEF BetweenInv, ScanInv, Scanning, DTMCONTROL_DMIHARDRESET
    <3> QED BY <3>2, <3>3 DEF TapInv
  <2> QED BY <1>2, <2>1, <2>2, <2>3, <2>4, PinWhere
<1> QED BY <1>2, <1>6, <1>7

\* A sequence given as a function is one.
LEMMA PlanSeq ==
    ASSUME NEW n \in Nat, NEW p \in Seq(Cycles), Len(p) = n
    PROVE  n # 0 => p # <<>>
  OBVIOUS

\* The debugger starts a scan.
LEMMA ThinkScan ==
    ASSUME TypeInv, phase' \in {"op_sent", "fetch_sent"}, goal # "done",
           goal' = goal, delay' = delay, times' = 0, done' = done, answer' = answer,
           UNCHANGED tapVars, state = "run_test_idle", ir = IR_DBUS,
           NEW w, w = Word', Send(DrScan(w, DmiLength) \o Idle(delay)),
           phase' = "fetch_sent" => Pending
    PROVE  TapInv'
<1>1. /\ plan' = DrScan(w, DmiLength) \o Idle(delay) /\ low' = TRUE /\ got' = <<>>
  BY DEF Send
<1>2. w \in 0 .. 15
  BY Words DEF TypeInv, Word, NOP
<1>3. delay \in Nat
  BY DEF TypeInv
<1> DEFINE F(k) == Cycle(IF k \in {1, 7, 8} THEN 1 ELSE 0,
                         IF k \in 4 .. 7 THEN Bit(w, k - 3) ELSE 0)
<1>4. plan' = [k \in 1 .. 9 + delay |-> F(k)]
  BY <1>1, <1>2, <1>3, ScanPlan
<1>5. \A k \in 1 .. 9 + delay : F(k) \in Cycles
  <2>1. \A k \in 1 .. 4 : Bit(w, k) \in {0, 1}
    BY <1>2, FourBits
  <2> QED BY <2>1, <1>3 DEF Cycle, Cycles
<1>6. \A k \in 1 .. 9 + delay : F(k) = ScanCycle(k)'
  BY DEF ScanCycle
<1> HIDE DEF F
<1>7. 9 + delay \in Nat /\ ScanLength' = 9 + delay /\ 9 + delay # 0
  BY <1>3 DEF ScanLength
<1>8. plan' \in Seq(Cycles) /\ Len(plan') = 9 + delay
  BY <1>4, <1>5, <1>7
<1>9. plan' # <<>>
  BY <1>7, <1>8, PlanSeq
<1>10. ScanLength' - Len(plan') = 0 /\ Len(plan') \in 0 .. ScanLength'
  BY <1>3, <1>7, <1>8
<1>11. \A k \in 1 .. Len(plan') : plan'[k] = ScanCycle(0 + k)'
  <2>1. ASSUME NEW k \in 1 .. Len(plan') PROVE plan'[k] = ScanCycle(0 + k)'
    <3>1. k \in 1 .. 9 + delay /\ 0 + k = k
      BY <1>8, <1>3
    <3> QED BY <3>1, <1>4, <1>6
  <2> QED BY <2>1
<1>12. /\ tck' = tck /\ tms' = tms /\ tdi' = tdi /\ tdo' = tdo /\ state' = state /\ ir' = ir
       /\ dr' = dr /\ dr_length' = dr_length /\ bypass' = bypass /\ dmi' = dmi
       /\ busy_stuck' = busy_stuck
  BY DEF tapVars
<1>13. Waiting(0)' /\ Capturing(0)' = FALSE /\ Updated(0)' = FALSE
  BY DEF Waiting, Capturing, Updated
<1>14. Pending' <=> Pending
  BY <1>12 DEF Pending, Success
<1>15. Carried'
  BY <1>14 DEF Carried
<1>16. ScanState(0) = "run_test_idle"
  BY DEF ScanState
<1>17. ScanAt(0)'
  BY <1>1, <1>11, <1>12, <1>13, <1>15, <1>16 DEF ScanAt
<1>18. ScanInv'
  BY <1>10, <1>17 DEF ScanInv
<1>19. BetweenInv'
  BY DEF BetweenInv
<1>20. PinsInv'
  BY <1>1, <1>9 DEF PinsInv
<1>21. TypeInv'
  BY <1>1, <1>8, <1>12 DEF TypeInv, Phases
<1> QED BY <1>18, <1>19, <1>20, <1>21 DEF TapInv

\* The state of the TAP when the debugger has sent everything.
LEMMA Sequel ==
    ASSUME TapInv, plan = <<>>, phase \in {"op", "fetch", "op_sent", "fetch_sent"}
    PROVE  state = "run_test_idle" /\ ir = IR_DBUS
<1>1. low = TRUE /\ Len(plan) = 0
  BY DEF TapInv, PinsInv, TypeInv
<1>2. CASE Scanning
  <2>1. PICK p \in Nat : p = ScanLength - Len(plan) /\ ScanAt(p)
    BY <1>2, ScanHere DEF TapInv
  <2>2. p >= 9
    BY <2>1, <1>1 DEF ScanLength, TapInv, TypeInv
  <2> QED BY <2>1, <2>2 DEF ScanAt, ScanState
<1>3. CASE Starting
  <2>1. 14 - Len(plan) = 14
    BY <1>1
  <2>2. state = StartState(14) /\ ir = IR_DBUS
    BY <1>3, <2>1 DEF Starting
  <2> QED BY <2>2 DEF StartState
<1>4. ASSUME NEW bits \in {1, 2}, Resetting(bits) PROVE state = "run_test_idle" /\ ir = IR_DBUS
  <2>1. 23 - Len(plan) = 23
    BY <1>1
  <2>2. ResettingAt(bits, 23)
    BY <1>4, <2>1 DEF Resetting
  <2>3. state = ResetState(23) /\ ir = IR_DBUS
    BY <2>2 DEF ResettingAt
  <2> QED BY <2>3 DEF ResetState
<1>5. Scanning \/ Starting \/ Resetting(1) \/ Resetting(2)
  BY DEF TapInv, BetweenInv, Scanning, DTMCONTROL_DMIRESET, DTMCONTROL_DMIHARDRESET
<1> QED BY <1>2, <1>3, <1>4, <1>5

\* What a scan that is over means for the operation.
LEMMA ScanOver ==
    ASSUME TapInv, plan = <<>>, Scanning
    PROVE  /\ times = IF busy_stuck THEN 0 ELSE 1
           /\ DmiOp(Captured) = BUSY <=> busy_stuck
           /\ Carried
<1>1. Len(plan) = 0
  OBVIOUS
<1>2. PICK p \in Nat : p = ScanLength - Len(plan) /\ ScanAt(p)
  BY ScanHere DEF TapInv
<1>3. p > 8
  BY <1>1, <1>2 DEF ScanLength, TapInv, TypeInv
<1>4. Updated(p)
  BY <1>3 DEF Updated
<1> QED BY <1>2, <1>4 DEF ScanAt

\* The debugger answers with a sequence of its own.
LEMMA ThinkStart ==
    ASSUME TapInv, phase = "reset", phase' = "op", goal' = goal, delay' = delay,
           times' = times, answer' = answer, UNCHANGED tapVars,
           NEW start \in {<< 0 >>, <<1, 1, 1, 1, 1, 0>>}, Send(Tms(start) \o IrScan(IR_DBUS))
    PROVE  TapInv'
<1>1. /\ plan' = Tms(start) \o IrScan(IR_DBUS) /\ low' = TRUE /\ got' = <<>>
  BY DEF Send
<1>2. PICK n \in {1, 6} : plan' = [k \in 1 .. n + 8 |-> StartCycle(6 - n + k)]
  BY <1>1, StartPlan
<1>3. \A j \in 1 .. 14 : StartCycle(j) \in Cycles
  BY DEF StartCycle, Cycle, Cycles
<1>4. \A k \in 1 .. n + 8 : StartCycle(6 - n + k) \in Cycles
  BY <1>3
<1>5. plan' \in Seq(Cycles) /\ Len(plan') = n + 8
  BY <1>2, <1>4
<1>6. plan' # <<>>
  <2>1. Len(plan') # 0
    BY <1>5
  <2>2. Len(<<>>) = 0
    OBVIOUS
  <2> QED BY <2>1, <2>2, Zenon
<1>7. Len(plan') \in 0 .. 14 /\ 14 - Len(plan') = 6 - n
  BY <1>5
<1>8. \A k \in 1 .. Len(plan') : plan'[k] = StartCycle(14 - Len(plan') + k)
  BY <1>2, <1>5, <1>7
<1>9. /\ tck' = tck /\ tms' = tms /\ tdi' = tdi /\ tdo' = tdo /\ state' = state /\ ir' = ir
      /\ dr' = dr /\ dr_length' = dr_length /\ bypass' = bypass /\ dmi' = dmi
      /\ busy_stuck' = busy_stuck
  BY DEF tapVars
<1>10. state' = StartState(14 - Len(plan'))
  <2>1. state = "test_logic_reset"
    BY DEF TapInv, BetweenInv
  <2>2. StartState(6 - n) = "test_logic_reset"
    BY DEF StartState
  <2> QED BY <1>7, <1>9, <2>1, <2>2
<1>11. ~(14 - Len(plan') = 11) /\ ~(14 - Len(plan') >= 12)
  BY <1>7
<1>12. Starting'
  BY <1>7, <1>8, <1>10, <1>11 DEF Starting
<1>13. BetweenInv' /\ ScanInv'
  BY <1>12 DEF BetweenInv, ScanInv, Scanning
<1>14. PinsInv'
  BY <1>1, <1>6 DEF PinsInv
<1>15. TypeInv'
  BY <1>1, <1>5, <1>9 DEF TapInv, TypeInv, Phases
<1> QED BY <1>13, <1>14, <1>15 DEF TapInv

\* After a busy answer the debugger resets DTMCONTROL and will send its scan
\* again: after dmireset the operation or the fetch, after dmihardreset the
\* operation.
LEMMA ThinkBusy ==
    ASSUME TapInv, plan = <<>>, Scanning, DmiOp(Captured) = BUSY,
           NEW bits \in {1, 2}, bits = 2 => phase = "op_sent",
           Send(IrScan(IR_DTMCONTROL) \o DrScan(bits, 2) \o IrScan(IR_DBUS)),
           phase' = IF phase = "op_sent" THEN "op" ELSE "fetch",
           delay' \in Nat, goal' = goal, times' = times, done' = done, answer' = answer,
           UNCHANGED tapVars
    PROVE  TapInv'
<1>1. /\ plan' = IrScan(IR_DTMCONTROL) \o DrScan(bits, 2) \o IrScan(IR_DBUS)
      /\ low' = TRUE /\ got' = <<>>
  BY DEF Send
<1>2. plan' = [k \in 1 .. 23 |-> ResetCycle(bits, k)]
  BY <1>1, ResetPlan DEF DTMCONTROL_DMIRESET, DTMCONTROL_DMIHARDRESET
<1>3. \A k \in 1 .. 23 : ResetCycle(bits, k) \in Cycles
  <2>1. Bit(bits, 1) \in {0, 1} /\ Bit(bits, 2) \in {0, 1}
    BY FourBits
  <2> QED BY <2>1 DEF ResetCycle, Cycle, Cycles
<1>4. plan' \in Seq(Cycles) /\ Len(plan') = 23
  BY <1>2, <1>3
<1>5. plan' # <<>>
  <2>1. Len(plan') # 0
    BY <1>4
  <2>2. Len(<<>>) = 0
    OBVIOUS
  <2> QED BY <2>1, <2>2, Zenon
<1>6. /\ tck' = tck /\ tms' = tms /\ tdi' = tdi /\ tdo' = tdo /\ state' = state /\ ir' = ir
      /\ dr' = dr /\ dr_length' = dr_length /\ bypass' = bypass /\ dmi' = dmi
      /\ busy_stuck' = busy_stuck
  BY DEF tapVars
<1>7. state = "run_test_idle"
  BY Sequel DEF Scanning
<1>8. ResetState(0) = "run_test_idle"
  BY DEF ResetState
<1>9. \A k \in 1 .. Len(plan') : plan'[k] = ResetCycle(bits, 0 + k)
  <2>1. ASSUME NEW k \in 1 .. 23 PROVE plan'[k] = ResetCycle(bits, 0 + k)
    <3>1. 0 + k = k
      OBVIOUS
    <3> QED BY <1>2, <3>1
  <2> QED BY <1>4, <2>1
<1>10. ResettingAt(bits, 0)'
  BY <1>6, <1>7, <1>8, <1>9 DEF ResettingAt
<1>11. Resetting(bits)'
  <2>1. 23 - Len(plan') = 0 /\ Len(plan') \in 0 .. 23
    BY <1>4
  <2> QED BY <1>10, <2>1 DEF Resetting
<1>12. phase' = "fetch" => Pending'
  <2>1. ASSUME phase' = "fetch" PROVE Pending
    <3>1. phase = "fetch_sent"
      BY <2>1 DEF Scanning
    <3>2. busy_stuck /\ times = 0 /\ Carried
      BY ScanOver
    <3> QED BY <3>1, <3>2 DEF Carried
  <2>2. Pending' <=> Pending
    BY <1>6 DEF Pending, Success
  <2> QED BY <2>1, <2>2
<1>13. BetweenInv' /\ ScanInv'
  <2>1. CASE bits = 1
    BY <1>11, <1>12, <2>1 DEF BetweenInv, ScanInv, Scanning, DTMCONTROL_DMIRESET
  <2>2. CASE bits = 2
    BY <1>11, <1>12, <2>2 DEF BetweenInv, ScanInv, Scanning, DTMCONTROL_DMIHARDRESET
  <2> QED BY <2>1, <2>2
<1>14. PinsInv'
  BY <1>1, <1>5 DEF PinsInv
<1>15. TypeInv'
  BY <1>1, <1>4, <1>6 DEF TapInv, TypeInv, Phases
<1> QED BY <1>13, <1>14, <1>15 DEF TapInv

\* The scan was carried out: the debugger goes on where the TAP is.
LEMMA ThinkOn ==
    ASSUME TapInv, plan = <<>>, Scanning, phase' \in {"op", "fetch"},
           phase' = "fetch" => Pending /\ goal' = goal, goal' \in Goals,
           plan' = plan, low' = low, got' = got, delay' = delay, times' = times,
           done' = done, answer' = answer, UNCHANGED tapVars
    PROVE  TapInv'
<1>1. /\ tck' = tck /\ tms' = tms /\ tdi' = tdi /\ tdo' = tdo /\ state' = state /\ ir' = ir
      /\ dr' = dr /\ dr_length' = dr_length /\ bypass' = bypass /\ dmi' = dmi
      /\ busy_stuck' = busy_stuck
  BY DEF tapVars
<1>2. state = "run_test_idle" /\ ir = IR_DBUS
  BY Sequel DEF Scanning
<1>3. Len(plan') = 0
  OBVIOUS
<1>4. ResetState(23) = "run_test_idle"
  BY DEF ResetState
<1>5. ResettingAt(1, 23)'
  BY <1>1, <1>2, <1>3, <1>4 DEF ResettingAt
<1>6. Resetting(1)'
  <2>1. 23 - Len(plan') = 23 /\ Len(plan') \in 0 .. 23
    BY <1>3
  <2> QED BY <1>5, <2>1 DEF Resetting
<1>7. phase' = "fetch" => Pending'
  <2>1. goal' = goal => (Pending' <=> Pending)
    BY <1>1 DEF Pending, Success
  <2> QED BY <2>1
<1>8. BetweenInv' /\ ScanInv'
  BY <1>6, <1>7 DEF BetweenInv, ScanInv, Scanning, DTMCONTROL_DMIRESET
<1>9. PinsInv' /\ TypeInv'
  BY <1>1 DEF TapInv, PinsInv, TypeInv, Phases
<1> QED BY <1>8, <1>9 DEF TapInv

\* What follows a goal is a goal.
LEMMA AfterType == goal \in Goals /\ goal # "done" => \A data : After(data) \in Goals
  BY DEF Goals, WordOf, After

\* Every decision of the debugger keeps the invariant.
LEMMA ThinkKeeps == ASSUME TapInv, think PROVE TapInv'
<1>1. /\ plan = <<>> /\ phase # "connect" /\ goal # "done"
      /\ UNCHANGED tapVars /\ done' = done /\ answer' = answer
  BY DEF think
<1>2. TypeInv
  BY DEF TapInv
<1>3. CASE /\ phase = "reset"
           /\ \E start \in {<< 0 >>, <<1, 1, 1, 1, 1, 0>>} : Send(Tms(start) \o IrScan(IR_DBUS))
           /\ phase' = "op" /\ UNCHANGED <<goal, delay, times>>
  BY <1>1, <1>3, ThinkStart
<1>4. CASE /\ phase = "op"
           /\ Send(DrScan(WordOf[goal], DmiLength) \o Idle(delay)) /\ phase' = "op_sent"
           /\ times' = 0 /\ UNCHANGED <<goal, delay>>
  <2>1. state = "run_test_idle" /\ ir = IR_DBUS
    BY <1>1, <1>4, Sequel
  <2>2. WordOf[goal] = Word'
    BY <1>4 DEF Word
  <2> QED BY <1>1, <1>2, <1>4, <2>1, <2>2, ThinkScan
<1>5. CASE /\ phase = "fetch"
           /\ Send(DrScan(NOP, DmiLength) \o Idle(delay)) /\ phase' = "fetch_sent"
           /\ times' = 0 /\ UNCHANGED <<goal, delay>>
  <2>1. state = "run_test_idle" /\ ir = IR_DBUS
    BY <1>1, <1>5, Sequel
  <2>2. NOP = Word' /\ Pending
    BY <1>5 DEF Word, TapInv, BetweenInv
  <2> QED BY <1>1, <1>2, <1>5, <2>1, <2>2, ThinkScan
<1>6. CASE /\ phase \in {"op_sent", "fetch_sent"} /\ DmiOp(Captured) = BUSY
           /\ \E bits \in {DTMCONTROL_DMIRESET}
                    \cup (IF phase = "op_sent" THEN {DTMCONTROL_DMIHARDRESET} ELSE {}) :
                Send(IrScan(IR_DTMCONTROL) \o DrScan(bits, 2) \o IrScan(IR_DBUS))
           /\ phase' = IF phase = "op_sent" THEN "op" ELSE "fetch"
           /\ delay' = IF delay < MaxDelay THEN delay + 1 ELSE delay
           /\ UNCHANGED <<goal, times>>
  <2>1. PICK bits \in {1, 2} :
            /\ bits = 2 => phase = "op_sent"
            /\ Send(IrScan(IR_DTMCONTROL) \o DrScan(bits, 2) \o IrScan(IR_DBUS))
    <3>1. PICK bits \in {DTMCONTROL_DMIRESET}
                    \cup (IF phase = "op_sent" THEN {DTMCONTROL_DMIHARDRESET} ELSE {}) :
                Send(IrScan(IR_DTMCONTROL) \o DrScan(bits, 2) \o IrScan(IR_DBUS))
      BY <1>6
    <3>2. bits \in {1, 2} /\ (bits = 2 => phase = "op_sent")
      BY DEF DTMCONTROL_DMIRESET, DTMCONTROL_DMIHARDRESET
    <3> QED BY <3>1, <3>2
  <2>2. delay' \in Nat /\ Scanning
    BY <1>2, <1>6 DEF TypeInv, Scanning
  <2> QED BY <1>1, <1>6, <2>1, <2>2, ThinkBusy
<1>7. CASE /\ phase = "op_sent" /\ DmiOp(Captured) # BUSY
           /\ phase' = "fetch"
           /\ UNCHANGED <<goal, plan, low, got, delay, times>>
  <2>1. Scanning
    BY <1>7 DEF Scanning
  <2>2. times = 1 /\ Carried
    BY <1>1, <1>7, <2>1, ScanOver
  <2>3. Pending
    BY <1>7, <2>2 DEF Carried
  <2>4. goal' \in Goals
    BY <1>2, <1>7 DEF TypeInv
  <2> QED BY <1>1, <1>7, <2>1, <2>3, <2>4, ThinkOn
<1>8. CASE /\ phase = "fetch_sent" /\ DmiOp(Captured) # BUSY
           /\ goal' = After(DmiArg(Captured)) /\ phase' = "op"
           /\ UNCHANGED <<plan, low, got, delay, times>>
  <2>1. Scanning
    BY <1>8 DEF Scanning
  <2>2. goal' \in Goals
    BY <1>1, <1>2, <1>8, AfterType DEF TypeInv
  <2> QED BY <1>1, <1>8, <2>1, <2>2, ThinkOn
<1> QED BY <1>3, <1>4, <1>5, <1>6, <1>7, <1>8 DEF think

\* What TapInv looks at, the pins apart.
LEMMA SameTap ==
    ASSUME TapInv, TypeInv', PinsInv', phase' = phase, goal' = goal, plan' = plan,
           low' = low, got' = got, delay' = delay, times' = times, done' = done,
           answer' = answer, state' = state, phase # "reset" => ir' = ir, dr' = dr,
           dr_length' = dr_length, dmi' = dmi, busy_stuck' = busy_stuck
    PROVE  TapInv'
<1>1. Pending' <=> Pending
  BY DEF Pending, Success
<1>2. /\ Word' = Word /\ Cap' = Cap /\ Captured' = Captured /\ ScanLength' = ScanLength
      /\ Scanning' = Scanning
  BY DEF Word, Cap, Captured, ScanLength, Scanning
<1>3. Carried' <=> Carried
  BY <1>1, <1>2 DEF Carried, Success
<1>4. ASSUME Scanning PROVE ScanInv'
  <2>1. PICK p \in Nat : /\ p = ScanLength - Len(plan) /\ Len(plan) \in 0 .. ScanLength
                         /\ ScanAt(p)
    BY <1>4, ScanHere DEF TapInv
  <2>2. \A k \in Nat : ScanCycle(p + k)' = ScanCycle(p + k)
    BY <1>2 DEF ScanCycle
  <2>3. \A k \in 1 .. Len(plan) : plan[k] = ScanCycle(p + k)'
    BY <2>1, <2>2 DEF ScanAt
  <2>4. Shifting(Entered(p))' = Shifting(Entered(p)) /\ Read(p)' = Read(p)
    BY <1>2 DEF Shifting, Entered, Read
  <2>5. Waiting(p)' = Waiting(p) /\ Capturing(p)' = Capturing(p) /\ Updated(p)' = Updated(p)
    BY DEF Waiting, Capturing, Updated
  <2>6. ir' = ir
    BY <1>4 DEF Scanning
  <2>7. ScanAt(p)'
    BY <1>2, <1>3, <2>1, <2>3, <2>4, <2>5, <2>6 DEF ScanAt
  <2> QED BY <1>2, <2>1, <2>7 DEF ScanInv
<1>5. ~Scanning => ScanInv'
  BY <1>2 DEF ScanInv
<1>6. ASSUME phase \in {"op", "fetch"}
      PROVE  /\ Starting' <=> Starting
             /\ \A bits \in {1, 2} : Resetting(bits)' <=> Resetting(bits)
  <2>1. ir' = ir
    BY <1>6
  <2> QED BY <2>1 DEF Starting, Resetting, ResettingAt
<1>7. BetweenInv'
  BY <1>1, <1>6 DEF TapInv, BetweenInv, DTMCONTROL_DMIRESET, DTMCONTROL_DMIHARDRESET
<1> QED BY <1>4, <1>5, <1>7 DEF TapInv

\* Steps that leave TAP and debugger alone.
LEMMA StillTap ==
    ASSUME TapInv, UNCHANGED <<tapVars, dbgVars, history>>
    PROVE  TapInv'
<1>1. /\ tck' = tck /\ tms' = tms /\ tdi' = tdi /\ tdo' = tdo /\ state' = state /\ ir' = ir
      /\ dr' = dr /\ dr_length' = dr_length /\ bypass' = bypass /\ dmi' = dmi
      /\ busy_stuck' = busy_stuck
  BY DEF tapVars
<1>2. /\ goal' = goal /\ phase' = phase /\ plan' = plan /\ low' = low /\ got' = got
      /\ delay' = delay /\ times' = times /\ done' = done /\ answer' = answer
  BY DEF dbgVars, history
<1>3. TypeInv'
  BY <1>1, <1>2 DEF TapInv, TypeInv
<1>4. PinsInv'
  BY <1>1, <1>2 DEF TapInv, PinsInv
<1> QED BY <1>1, <1>2, <1>3, <1>4, SameTap

\* A falling edge between two sequences, which may go on in Run-Test/Idle,
\* carries nothing out.
LEMMA LowKeeps == ASSUME TapInv, extra_low PROVE TapInv' /\ ~Performs
<1>1. plan = <<>> /\ phase # "connect" /\ Pins(0, 0, 0) /\ UNCHANGED dbgVars
  BY DEF extra_low
<1>2. TypeInv /\ low = TRUE
  BY <1>1 DEF TapInv, TypeInv, PinsInv
<1>3. /\ state \in {"run_test_idle", "test_logic_reset"}
      /\ phase # "reset" => state = "run_test_idle"
  <2>1. CASE phase = "reset"
    BY <2>1 DEF TapInv, BetweenInv
  <2>2. CASE phase # "reset"
    <3>1. phase \in {"op", "fetch", "op_sent", "fetch_sent"}
      BY <1>1, <1>2, <2>2 DEF TypeInv, Phases
    <3> QED BY <1>1, <3>1, Sequel
  <2> QED BY <2>1, <2>2
<1>4. ~Performs
  BY <1>3 DEF Performs
<1>5. ~Rises(0)
  BY DEF Rises
<1>6. /\ tck' = 0 /\ tms' = 0 /\ tdi' = 0 /\ falling_edge(Success(dr), Value(dr))
      /\ times' = times /\ done' = done /\ answer' = answer
  BY <1>1, <1>4, <1>5 DEF Pins, set_pins, history
<1>7. /\ state' = state /\ tdo' = tdo /\ dr' = dr /\ dr_length' = dr_length /\ bypass' = bypass
      /\ dmi' = dmi /\ busy_stuck' = busy_stuck /\ ir' \in {ir, IR_IDCODE}
      /\ phase # "reset" => ir' = ir
  <2>1. CASE state = "run_test_idle"
    BY <1>6, <2>1, FallQuiet
  <2>2. CASE state = "test_logic_reset"
    BY <1>3, <1>6, <2>2, FallReset
  <2> QED BY <1>3, <2>1, <2>2
<1>8. /\ goal' = goal /\ phase' = phase /\ plan' = plan /\ low' = low /\ got' = got
      /\ delay' = delay
  BY <1>1 DEF dbgVars
<1>9. PinsInv'
  BY <1>1, <1>2, <1>8 DEF PinsInv
<1>10. TypeInv'
  BY <1>2, <1>6, <1>7, <1>8 DEF TypeInv, IR_IDCODE
<1> QED BY <1>4, <1>6, <1>7, <1>8, <1>9, <1>10, SameTap

\* The reset after the connection is made.
LEMMA ResetKeeps == ASSUME TapInv, reset_command PROVE TapInv'
<1>1. /\ phase = "connect" /\ reset /\ phase' = "reset" /\ times' = 0
      /\ UNCHANGED <<goal, plan, low, got, delay, done, answer>>
  BY DEF reset_command
<1>2. plan = <<>> /\ "test_logic_reset" \in DOMAIN NextState /\ DmiOp(0) = SUCCESS
  BY <1>1 DEF TapInv, BetweenInv, NextState, DmiOp, SUCCESS
<1>3. TypeInv'
  <2>1. /\ state' \in DOMAIN NextState /\ busy_stuck' = FALSE /\ dmi' = 0
        /\ UNCHANGED <<tck, tms, tdi, tdo, ir, dr, dr_length, bypass>>
    BY <1>1, <1>2 DEF reset
  <2>2. DmiOp(dmi)' = SUCCESS
    BY <1>2, <2>1 DEF DmiOp
  <2>3. dmi' \in 0 .. 15 /\ DmiOp(dmi)' \in {SUCCESS, FAILED} /\ busy_stuck' \in BOOLEAN
    <3>1. dmi' \in 0 .. 15
      BY <2>1
    <3>2. busy_stuck' \in BOOLEAN
      BY <2>1, Zenon
    <3>3. DmiOp(dmi)' \in {SUCCESS, FAILED}
      BY <2>2, Zenon
    <3> QED BY <3>1, <3>2, <3>3
  <2>4. /\ {tck, tms, tdi, tdo}' \subseteq {0, 1}
        /\ ir' \in 0 .. 3 /\ dr' \in Nat /\ dr_length' \in {1, 2, 4} /\ bypass' \in Nat
    BY <2>1 DEF TapInv, TypeInv
  <2>5. /\ goal' \in Goals /\ phase' \in Phases /\ plan' \in Seq(Cycles)
        /\ low' \in BOOLEAN /\ got' \in Seq({0, 1}) /\ delay' \in Nat /\ times' \in Nat
        /\ answer' \in {0, 1}
    BY <1>1 DEF TapInv, TypeInv, Phases
  <2> QED BY <2>1, <2>3, <2>4, <2>5 DEF TypeInv
<1>4. PinsInv'
  <2>1. low = TRUE
    BY <1>2 DEF TapInv, TypeInv, PinsInv
  <2> QED BY <1>1, <2>1 DEF PinsInv
<1>5. BetweenInv' /\ ScanInv'
  BY <1>1, <1>2 DEF reset, BetweenInv, ScanInv, Scanning
<1> QED BY <1>3, <1>4, <1>5 DEF TapInv

\* A lost connection leaves the TAP wherever it was.
LEMMA DisconnectKeeps == ASSUME TapInv, disconnect PROVE TapInv'
<1>1. /\ goal' = "check" /\ phase' = "connect" /\ plan' = <<>> /\ low' = TRUE /\ got' = <<>>
      /\ delay' = 0 /\ UNCHANGED tapVars /\ UNCHANGED history
  BY DEF disconnect
<1>2. "check" \in Goals
  BY DEF Goals, WordOf
<1>3. TypeInv' /\ PinsInv'
  BY <1>1, <1>2 DEF TapInv, TypeInv, PinsInv, Phases, tapVars, history
<1>4. BetweenInv' /\ ScanInv'
  BY <1>1 DEF BetweenInv, ScanInv, Scanning
<1> QED BY <1>3, <1>4 DEF TapInv

\* The session starts with no connection.
LEMMA TapInitial == Init => TapInv
<1> SUFFICES ASSUME Init PROVE TapInv
  OBVIOUS
<1>1. /\ TapInit /\ goal = "check" /\ phase = "connect" /\ plan = <<>> /\ low = TRUE
      /\ got = <<>> /\ delay = 0 /\ times = 0 /\ done = 0 /\ answer = 0
  BY DEF Init
<1>2. /\ "check" \in Goals /\ "test_logic_reset" \in DOMAIN NextState /\ DmiOp(0) = SUCCESS
  BY DEF Goals, WordOf, NextState, DmiOp, SUCCESS
<1>3. TypeInv /\ PinsInv
  BY <1>1, <1>2 DEF TapInit, TypeInv, PinsInv, Phases, IR_IDCODE, IR_DBUS
<1>4. BetweenInv /\ ScanInv
  BY <1>1 DEF BetweenInv, ScanInv, Scanning
<1> QED BY <1>3, <1>4 DEF TapInv

\* Every step keeps the invariant of the transport.
LEMMA TapStep == TapInv /\ [Next]_vars => TapInv'
<1> SUFFICES ASSUME TapInv, [Next]_vars PROVE TapInv'
  OBVIOUS
<1>1. CASE tick
  BY <1>1, StillTap DEF tick
<1>2. CASE nothing_to_read
  BY <1>2, StillTap DEF nothing_to_read
<1>3. CASE hart
  BY <1>3, StillTap DEF hart
<1>4. CASE think
  BY <1>4, ThinkKeeps
<1>5. CASE reset_command
  BY <1>5, ResetKeeps
<1>6. CASE pin_command
  BY <1>6, PinKeeps
<1>7. CASE extra_low
  BY <1>7, LowKeeps
<1>8. CASE disconnect
  BY <1>8, DisconnectKeeps
<1>9. CASE UNCHANGED vars
  BY <1>9, StillTap DEF vars
<1> QED BY <1>1, <1>2, <1>3, <1>4, <1>5, <1>6, <1>7, <1>8, <1>9 DEF Next

\* At every moment the TAP, its register, the bits read and the number of times
\* the operation was carried out are those of the position in the sequence that
\* the debugger sends (jtag_dtm_t::set_pins, capture_dr, update_dr).
THEOREM TapCorrect == Spec => []TapInv
<1>1. Init => TapInv
  BY TapInitial
<1>2. TapInv /\ [Next]_vars => TapInv'
  BY TapStep
<1> QED BY <1>1, <1>2, PTL DEF Spec

\* A scan that was sent whole is at its last position.
LEMMA TapOnce == TapInv => ExactlyOnce
<1> SUFFICES ASSUME TapInv, Sent PROVE ExactlyOnce
  BY DEF ExactlyOnce
<1>1. plan = <<>> /\ Scanning
  BY DEF Sent, Scanning
<1>2. /\ times = IF busy_stuck THEN 0 ELSE 1
      /\ DmiOp(Captured) = BUSY <=> busy_stuck
      /\ Carried
  BY <1>1, ScanOver
<1> QED BY <1>2 DEF ExactlyOnce, Carried, Pending

\* What a fetch read is the result of the operation of the goal.
LEMMA TapResult == TapInv => ResultExact
<1> SUFFICES ASSUME TapInv, Sent, phase = "fetch_sent", DmiOp(Captured) # BUSY
             PROVE  ResultExact
  BY DEF ResultExact
<1>1. plan = <<>> /\ Scanning
  BY DEF Sent, Scanning
<1>2. times = 1 /\ Carried
  BY <1>1, ScanOver
<1> QED BY <1>2 DEF ResultExact, Carried

\* A scan that was not answered busy was carried out once, and one that was
\* answered busy not at all, whatever was sent before and wherever the
\* connection was lost (jtag_dtm_t::capture_dr, update_dr).
THEOREM SessionExactlyOnce == Spec => []ExactlyOnce
  BY TapCorrect, TapOnce, PTL

\* The result that the debugger fetches is the one of the operation it sent
\* before, success and value (jtag_dtm_t::update_dr sets dmi).
THEOREM SessionResultExact == Spec => []ResultExact
  BY TapCorrect, TapResult, PTL

-----------------------------------------------------------------------------
(* What the pins make the debug module do                                  *)

\* A pin change carries out the word of the present scan, for the first time,
\* or it is an idle cycle at most.
LEMMA PinDm ==
    ASSUME TapInv, pin_command
    PROVE  \/ /\ Scanning /\ Dispatch(Word) /\ times = 0 /\ times' = 1
              /\ answer' = IF DmiOp(Word) = READ THEN Value(Word) ELSE answer
              /\ commands' = IF Word = Dmi(WRITE, COMMAND) THEN commands + 1 ELSE commands
           \/ /\ DM!run_test_idle \/ UNCHANGED dmVars
              /\ UNCHANGED history
<1>1. TypeInv /\ PinsInv /\ ScanInv /\ BetweenInv
  BY DEF TapInv
<1>2. low \in BOOLEAN /\ plan # <<>>
  BY <1>1 DEF TypeInv, pin_command
<1>3. Pins(IF low THEN 0 ELSE 1, Head(plan).s, Head(plan).i)
  BY DEF pin_command
<1>4. CASE low = TRUE /\ Performs
  <2>1. Scanning
    <3>1. Starting => ~Performs
      BY <1>1, <1>4, StartingFall
    <3>2. Resetting(1) => ~Performs
      BY <1>1, <1>4, ResettingFall
    <3>3. Resetting(2) => ~Performs
      BY <1>1, <1>4, ResettingFall
    <3> QED BY <1>2, <1>4, <3>1, <3>2, <3>3, PinWhere
  <2>2. dr = Word /\ times = 0
    BY <1>1, <1>4, <2>1, ScanFall
  <2>3. Pins(0, Head(plan).s, Head(plan).i) /\ ~Rises(0)
    BY <1>3, <1>4 DEF Rises
  <2>4. /\ Dispatch(dr) /\ times' = times + 1
        /\ answer' = IF DmiOp(dr) = READ THEN Value(dr) ELSE answer
        /\ commands' = IF dr = Dmi(WRITE, COMMAND) THEN commands + 1 ELSE commands
    BY <2>3, <1>4 DEF Pins
  <2>5. times' = 1
    BY <2>2, <2>4
  <2> QED BY <2>1, <2>2, <2>4, <2>5
<1>5. CASE low = TRUE /\ ~Performs
  BY <1>3, <1>5 DEF Pins
<1>6. CASE low = FALSE
  <2>1. tck = 0
    BY <1>1, <1>6 DEF PinsInv
  <2>2. Rises(1) /\ Pins(1, Head(plan).s, Head(plan).i)
    BY <1>3, <1>6, <2>1 DEF Rises
  <2> QED BY <2>2 DEF Pins
<1> QED BY <1>2, <1>4, <1>5, <1>6

\* A falling edge between two sequences is at most an idle cycle to it.
LEMMA LowDm ==
    ASSUME TapInv, extra_low
    PROVE  /\ DM!run_test_idle \/ UNCHANGED dmVars
           /\ UNCHANGED history /\ UNCHANGED dbgVars
<1>1. ~Performs /\ Pins(0, 0, 0) /\ UNCHANGED dbgVars
  BY LowKeeps DEF extra_low
<1> QED BY <1>1 DEF Pins

\* The words of the goals, taken apart.
LEMMA WordTable ==
    /\ DmiOp(NOP) = NOP
    /\ \A g \in {"check", "wait_halt", "wait_command", "wait_resume", "probe"} :
          DmiOp(WordOf[g]) = READ
    /\ \A g \in {"clear", "halt", "command", "resume"} : DmiOp(WordOf[g]) = WRITE
    /\ DmiArg(WordOf["clear"]) = CLEAR /\ DmiArg(WordOf["halt"]) = HALT
    /\ DmiArg(WordOf["command"]) = COMMAND /\ DmiArg(WordOf["resume"]) = RESUME
    /\ DmiArg(WordOf["check"]) = ABSTRACTCS /\ DmiArg(WordOf["wait_command"]) = ABSTRACTCS
    /\ \A g \in Goals : WordOf[g] = Dmi(WRITE, COMMAND) <=> g = "command"
    /\ NOP # Dmi(WRITE, COMMAND)
  BY DEF Goals, WordOf, Dmi, DmiOp, DmiArg, READ, WRITE, NOP, ABSTRACTCS, CLEAR, HALT,
         DMSTATUS, COMMAND, RESUME, NOWHERE

\* The operation that a scan carries out.
LEMMA Dispatched ==
    ASSUME TypeInv, Scanning, Dispatch(Word), goal # "done"
    PROVE  \/ /\ phase = "fetch_sent" \/ goal \in {"check", "wait_halt", "wait_command",
                                                    "wait_resume", "probe"}
              /\ UNCHANGED dmVars
           \/ phase = "op_sent" /\ goal = "clear" /\ DM!dmi_write_abstractcs({0, 1, 2})
           \/ /\ phase = "op_sent" /\ goal = "halt"
              /\ DM!dmi_write_dmcontrol(TRUE, 0, {0}, TRUE, FALSE, FALSE)
           \/ phase = "op_sent" /\ goal = "command" /\ DM!dmi_write_command("exec")
           \/ /\ phase = "op_sent" /\ goal = "resume"
              /\ DM!dmi_write_dmcontrol(TRUE, 0, {0}, FALSE, TRUE, FALSE)
<1>1. READ # WRITE /\ NOP # WRITE
  BY DEF READ, WRITE, NOP
<1>2. CASE phase = "fetch_sent"
  <2>1. Word = NOP
    BY <1>2 DEF Word
  <2> QED BY <1>1, <1>2, <2>1, WordTable DEF Dispatch
<1>3. CASE phase = "op_sent"
  <2>1. Word = WordOf[goal]
    BY <1>3 DEF Word
  <2>2. CASE goal \in {"check", "wait_halt", "wait_command", "wait_resume", "probe"}
    BY <1>1, <2>1, <2>2, WordTable DEF Dispatch
  <2>3. CASE goal = "clear"
    BY <1>3, <2>1, <2>3, WordTable DEF Dispatch, HALT, COMMAND, RESUME, CLEAR
  <2>4. CASE goal = "halt"
    <3>1. DmiOp(Word) = WRITE /\ DmiArg(Word) = HALT
      BY <2>1, <2>4, WordTable
    <3>2. HALT # COMMAND /\ HALT # RESUME /\ HALT # CLEAR /\ RESUME # COMMAND /\ RESUME # CLEAR
      BY DEF HALT, COMMAND, RESUME, CLEAR
    <3>3. DM!dmi_write_dmcontrol(TRUE, 0, {0}, TRUE, FALSE, FALSE)
      BY <3>1, <3>2, Zenon DEF Dispatch
    <3> QED BY <1>3, <2>4, <3>3, Zenon
  <2>5. CASE goal = "command"
    BY <1>3, <2>1, <2>5, WordTable DEF Dispatch, HALT, COMMAND, RESUME, CLEAR
  <2>6. CASE goal = "resume"
    <3>1. DmiOp(Word) = WRITE /\ DmiArg(Word) = RESUME
      BY <2>1, <2>6, WordTable
    <3>2. HALT # COMMAND /\ HALT # RESUME /\ HALT # CLEAR /\ RESUME # COMMAND /\ RESUME # CLEAR
      BY DEF HALT, COMMAND, RESUME, CLEAR
    <3>3. DM!dmi_write_dmcontrol(TRUE, 0, {0}, FALSE, TRUE, FALSE)
      BY <3>1, <3>2, Zenon DEF Dispatch
    <3> QED BY <1>3, <2>6, <3>3, Zenon
  <2>7. \/ goal \in {"check", "wait_halt", "wait_command", "wait_resume", "probe"}
        \/ goal \in {"clear", "halt", "command", "resume"}
    BY DEF TypeInv, Goals, WordOf
  <2> QED BY <2>2, <2>3, <2>4, <2>5, <2>6, <2>7
<1> QED BY <1>2, <1>3 DEF Scanning

-----------------------------------------------------------------------------
(* Every step keeps the protocol                                           *)

\* The operations of the debug module, as far as the protocol looks at them.
LEMMA IdleDm ==
    ASSUME DM!run_test_idle \/ UNCHANGED dmVars
    PROVE  /\ rom' = rom /\ halt_request' = halt_request /\ dmactive' = dmactive
           /\ hartsel' = hartsel /\ available' = available /\ cmderr' = cmderr
           /\ raised' = raised /\ (busy' => busy)
<1>1. CASE DM!run_test_idle
  BY <1>1 DEF DM!run_test_idle, DM!hartVars, DM!flagVars, DM!dmVars, DM!history
<1>2. CASE UNCHANGED dmVars
  BY <1>2 DEF dmVars
<1> QED BY <1>1, <1>2

\* abstractcs is written to clear cmderr.
LEMMA ClearDm ==
    ASSUME DM!dmi_write_abstractcs({0, 1, 2})
    PROVE  /\ rom' = rom /\ halt_request' = halt_request /\ dmactive' = dmactive
           /\ hartsel' = hartsel /\ available' = available /\ busy' = busy
           /\ cmderr' = cmderr \ {0, 1, 2} /\ raised' = FALSE
<1>1. {0, 1, 2} # {}
  OBVIOUS
<1> QED BY <1>1 DEF DM!dmi_write_abstractcs, DM!hartVars, DM!flagVars, DM!dmVars

\* dmcontrol is written to halt, or to resume, the hart.
LEMMA ControlDm ==
    ASSUME NEW h \in BOOLEAN, NEW r \in BOOLEAN, available = {0},
           DM!dmi_write_dmcontrol(TRUE, 0, {0}, h, r, FALSE)
    PROVE  /\ dmactive' = TRUE /\ hartsel' = 0 /\ available' = available
           /\ halt_request'[0] = h /\ (busy' => busy)
<1>1. dmactive' = TRUE /\ hartsel' = 0 /\ available' = available
  BY DEF DM!dmi_write_dmcontrol
<1>2. busy' => busy
  BY DEF DM!dmi_write_dmcontrol, DM!reset
<1>3. halt_request' = [k \in {0} |-> IF TRUE /\ k \in {0} THEN h /\ k \in available
                                     ELSE halt_request[k] /\ ~(TRUE /\ ~dmactive)]
  BY DEF DM!dmi_write_dmcontrol
<1>4. halt_request'[0] = (h /\ 0 \in available)
  BY <1>3
<1>5. 0 \in available
  OBVIOUS
<1>6. halt_request'[0] = h
  BY <1>4, <1>5
<1> QED BY <1>1, <1>2, <1>6

\* command is written.
LEMMA CommandDm ==
    ASSUME DM!dmi_write_command("exec")
    PROVE  /\ rom' = rom /\ halt_request' = halt_request /\ dmactive' = dmactive
           /\ hartsel' = hartsel /\ available' = available
  BY DEF DM!dmi_write_command, DM!perform_abstract_command, DM!hartVars, DM!dmVars

\* The hart takes a step in the debug ROM.
LEMMA HartDm ==
    ASSUME DM!HartStep(0)
    PROVE  /\ dmactive' = dmactive /\ hartsel' = hartsel /\ available' = available
           /\ busy' = busy
           /\ halt_request[0] = TRUE => halt_request'[0] = TRUE
           /\ ~(rom[0] = "run" /\ halt_request[0] = FALSE)
<1>1. CASE halt_request[0] /\ DM!enter_debug_mode(0)
  BY <1>1 DEF DM!enter_debug_mode, DM!flagVars, DM!dmVars, DM!cmdVars, DM!history
<1>2. CASE DM!store_halted(0)
  <2>1. rom[0] = "report" /\ dmactive' = dmactive /\ hartsel' = hartsel
        /\ available' = available /\ busy' = busy
    BY <1>2 DEF DM!store_halted, DM!flagVars, DM!dmVars, DM!history
  <2>2. halt_request' = [k \in {0} |-> halt_request[k] \/ (~halted[0] /\ k \in DM!GroupOf(0))]
    BY <1>2 DEF DM!store_halted
  <2>3. halt_request[0] = TRUE => halt_request'[0] = TRUE
    BY <2>2
  <2> QED BY <2>1, <2>3
<1>3. CASE DM!load_flags(0)
  BY <1>3 DEF DM!load_flags, DM!flagVars, DM!dmVars, DM!cmdVars, DM!history
<1>4. CASE DM!store_going(0)
  BY <1>4 DEF DM!store_going, DM!dmVars, DM!cmdVars, DM!history
<1>5. CASE \E traps \in BOOLEAN : DM!run_abstract(0, traps)
  BY <1>5 DEF DM!run_abstract, DM!flagVars, DM!dmVars, DM!cmdVars
<1>6. CASE DM!store_exception(0)
  BY <1>6 DEF DM!store_exception, DM!flagVars, DM!dmVars, DM!history
<1>7. CASE DM!store_resuming(0)
  BY <1>7 DEF DM!store_resuming, DM!dmVars, DM!cmdVars, DM!history
<1>8. CASE DM!dret(0)
  BY <1>8 DEF DM!dret, DM!flagVars, DM!dmVars, DM!cmdVars, DM!history
<1> QED BY <1>1, <1>2, <1>3, <1>4, <1>5, <1>6, <1>7, <1>8 DEF DM!HartStep

\* Steps that leave the debugger where it is.
LEMMA ProtoSame ==
    ASSUME ProtoInv, goal' = goal, phase' = phase, times' = times, answer' = answer,
           commands' = commands, hartsel' = hartsel, available' = available,
           dmactive' = dmactive, halt_request[0] = TRUE => halt_request'[0] = TRUE,
           busy' => busy, Asleep'
    PROVE  ProtoInv'
<1>1. Performed' = Performed
  BY DEF Performed
<1>2. Held' = Held /\ Free' = Free /\ Before' = Before
  BY <1>1 DEF Held, Free, Before
<1>3. /\ Held => dmactive = TRUE /\ halt_request[0] = TRUE
      /\ Free => ~busy
  BY DEF ProtoInv
<1>4. /\ Held' => dmactive' = TRUE /\ halt_request'[0] = TRUE
      /\ Free' => ~busy'
  BY <1>2, <1>3
<1>5. /\ hartsel' = 0 /\ available' = {0}
      /\ phase' \in {"connect", "reset"} => goal' = "check"
      /\ phase' # "connect" => commands' = IF Before' THEN 0 ELSE 1
  BY <1>2 DEF ProtoInv
<1> QED BY <1>4, <1>5 DEF ProtoInv

\* Steps that are at most an idle cycle to the debug module.
LEMMA ProtoIdle ==
    ASSUME ProtoInv, goal' = goal, phase' = phase, UNCHANGED history,
           DM!run_test_idle \/ UNCHANGED dmVars
    PROVE  ProtoInv'
<1>1. /\ rom' = rom /\ halt_request' = halt_request /\ dmactive' = dmactive
      /\ hartsel' = hartsel /\ available' = available /\ cmderr' = cmderr
      /\ raised' = raised /\ (busy' => busy)
  BY IdleDm
<1>2. Asleep'
  <2>1. ~dmactive => busy' = FALSE
    <3>1. CASE DM!run_test_idle
      BY <3>1 DEF ProtoInv, Asleep, DM!run_test_idle
    <3>2. CASE UNCHANGED dmVars
      BY <3>2 DEF ProtoInv, Asleep, dmVars
    <3> QED BY <3>1, <3>2
  <2> QED BY <1>1, <2>1 DEF ProtoInv, Asleep
<1>3. times' = times /\ answer' = answer /\ commands' = commands
  BY DEF history
<1> QED BY <1>1, <1>2, <1>3, ProtoSame

\* A scan is carried out.
LEMMA ProtoScan ==
    ASSUME TapInv, ProtoInv, Scanning, Dispatch(Word), times = 0, times' = 1,
           goal' = goal, phase' = phase, goal # "done",
           answer' = IF DmiOp(Word) = READ THEN Value(Word) ELSE answer,
           commands' = IF Word = Dmi(WRITE, COMMAND) THEN commands + 1 ELSE commands
    PROVE  ProtoInv'
<1>1. TypeInv /\ goal \in Goals /\ READ # NOP
  BY DEF TapInv, TypeInv, READ, NOP
<1>2. CASE phase = "fetch_sent"
  <2>1. Word = NOP
    BY <1>2 DEF Word
  <2>2. answer' = answer /\ commands' = commands
    BY <1>1, <2>1, WordTable
  <2>3. UNCHANGED dmVars
    BY <1>2, <1>1, Dispatched
  <2>4. Performed' /\ Performed
    BY <1>2 DEF Performed
  <2>5. Held' = Held /\ Free' = Free /\ Before' = Before
    BY <2>2, <2>4 DEF Held, Free, Before
  <2>6. Asleep'
    BY <2>3 DEF ProtoInv, Asleep, dmVars
  <2> QED BY <2>2, <2>3, <2>5, <2>6 DEF ProtoInv, dmVars
<1>3. CASE phase = "op_sent"
  <2>1. ~Performed /\ Performed'
    BY <1>3 DEF Performed
  <2>2. Word = WordOf[goal]
    BY <1>3 DEF Word
  <2>3. commands' = IF goal = "command" THEN commands + 1 ELSE commands
    BY <1>1, <2>2, WordTable
  <2>4. commands' = IF Before' THEN 0 ELSE 1
    <3>1. commands = IF Before THEN 0 ELSE 1
      BY <1>3 DEF ProtoInv
    <3> QED BY <3>1, <2>1, <2>3 DEF Before
  <2>5. CASE goal \in {"check", "wait_halt", "wait_command", "wait_resume", "probe"}
    <3>1. UNCHANGED dmVars
      BY <1>1, <1>3, <2>5, Dispatched
    <3>2. Asleep'
      BY <3>1 DEF ProtoInv, Asleep, dmVars
    <3>3. Held' => Held
      BY <2>5 DEF Held
    <3>4. Free' => ~busy
      <4>1. CASE goal \in {"check", "wait_command"}
        <5>1. answer' = Value(Word) /\ DmiArg(Word) = ABSTRACTCS
          BY <2>2, <4>1, WordTable
        <5>2. answer' = IF busy THEN 1 ELSE 0
          BY <5>1 DEF Value, ABSTRACTCS, DMSTATUS
        <5> QED BY <5>2, <4>1 DEF Free
      <4>2. CASE goal \in {"wait_halt", "wait_resume", "probe"}
        <5>1. Free
          BY <4>2 DEF Free
        <5> QED BY <5>1 DEF ProtoInv
      <4> QED BY <2>5, <4>1, <4>2
    <3> QED BY <1>3, <2>4, <3>1, <3>2, <3>3, <3>4 DEF ProtoInv, dmVars
  <2>6. CASE goal = "clear"
    <3>1. DM!dmi_write_abstractcs({0, 1, 2})
      BY <1>1, <1>3, <2>6, Dispatched
    <3>2. /\ rom' = rom /\ halt_request' = halt_request /\ dmactive' = dmactive
          /\ hartsel' = hartsel /\ available' = available /\ busy' = busy
          /\ cmderr' = cmderr \ {0, 1, 2} /\ raised' = FALSE
      BY <3>1, ClearDm
    <3>3. Asleep'
      BY <3>2 DEF ProtoInv, Asleep
    <3>4. Free /\ ~Held'
      BY <2>6 DEF Free, Held
    <3> QED BY <1>3, <2>4, <3>2, <3>3, <3>4 DEF ProtoInv
  <2>7. CASE goal = "halt"
    <3>1. DM!dmi_write_dmcontrol(TRUE, 0, {0}, TRUE, FALSE, FALSE)
      BY <1>1, <1>3, <2>7, Dispatched, Zenon
    <3>2. /\ dmactive' = TRUE /\ hartsel' = 0 /\ available' = available
          /\ halt_request'[0] = TRUE /\ (busy' => busy)
      BY <3>1, ControlDm DEF ProtoInv
    <3>3. Asleep'
      BY <3>2 DEF Asleep
    <3>4. Free
      BY <2>7 DEF Free
    <3> QED BY <1>3, <2>4, <3>2, <3>3, <3>4 DEF ProtoInv
  <2>8. CASE goal = "command"
    <3>1. DM!dmi_write_command("exec")
      BY <1>1, <1>3, <2>8, Dispatched
    <3>2. /\ halt_request' = halt_request /\ dmactive' = dmactive
          /\ hartsel' = hartsel /\ available' = available
      BY <3>1, CommandDm
    <3>3. dmactive = TRUE /\ halt_request[0] = TRUE
      BY <2>8 DEF ProtoInv, Held
    <3>4. Asleep'
      BY <3>2, <3>3 DEF Asleep
    <3>5. ~Free'
      BY <2>1, <2>8 DEF Free
    <3> QED BY <1>3, <2>4, <3>2, <3>3, <3>4, <3>5 DEF ProtoInv
  <2>9. CASE goal = "resume"
    <3>1. DM!dmi_write_dmcontrol(TRUE, 0, {0}, FALSE, TRUE, FALSE)
      BY <1>1, <1>3, <2>9, Dispatched, Zenon
    <3>2. /\ dmactive' = TRUE /\ hartsel' = 0 /\ available' = available /\ (busy' => busy)
      BY <3>1, ControlDm DEF ProtoInv
    <3>3. Asleep'
      BY <3>2 DEF Asleep
    <3>4. Free /\ ~Held'
      BY <2>1, <2>9 DEF Free, Held
    <3> QED BY <1>3, <2>4, <3>2, <3>3, <3>4 DEF ProtoInv
  <2>10. \/ goal \in {"check", "wait_halt", "wait_command", "wait_resume", "probe"}
         \/ goal \in {"clear", "halt", "command", "resume"}
    BY <1>1 DEF Goals, WordOf
  <2> QED BY <2>5, <2>6, <2>7, <2>8, <2>9, <2>10
<1> QED BY <1>2, <1>3 DEF Scanning

\* The debugger thinks, and its goal stays.
LEMMA ProtoStays ==
    ASSUME ProtoInv, phase # "connect", phase' \notin {"connect", "reset"}, goal' = goal,
           answer' = answer, commands' = commands, UNCHANGED dmVars, Performed' = Performed
    PROVE  ProtoInv'
<1>1. Held' = Held /\ Free' = Free /\ Before' = Before
  BY DEF Held, Free, Before
<1>2. Asleep'
  BY DEF ProtoInv, Asleep, dmVars
<1> QED BY <1>1, <1>2 DEF ProtoInv, dmVars

\* The debugger moves to its next goal.
LEMMA ProtoMoves ==
    ASSUME TapInv, ProtoInv, plan = <<>>, phase = "fetch_sent", phase' = "op",
           DmiOp(Captured) # BUSY, goal # "done", goal' = After(DmiArg(Captured)),
           answer' = answer, commands' = commands, UNCHANGED dmVars
    PROVE  ProtoInv'
<1>1. Performed /\ ~Performed' /\ Scanning /\ goal \in Goals
  BY DEF Performed, Scanning, TapInv, TypeInv
<1>2. times = 1 /\ Carried
  BY <1>1, ScanOver
<1>3. ASSUME goal \in {"check", "wait_command"} PROVE DmiArg(Captured) = answer
  <2>1. /\ done = WordOf[goal]
        /\ DmiOp(done) = READ /\ Success(done) => DmiArg(Captured) = answer
    BY <1>2 DEF Carried
  <2>2. DmiOp(WordOf[goal]) = READ /\ DmiArg(WordOf[goal]) = ABSTRACTCS
    BY <1>3, WordTable
  <2>3. Success(WordOf[goal])
    BY <2>2 DEF Success, ABSTRACTCS, NOWHERE
  <2> QED BY <2>1, <2>2, <2>3
<1>4. Asleep'
  BY DEF ProtoInv, Asleep, dmVars
<1>5. Held' => Held
  BY <1>1 DEF Held, After, Goals, WordOf
<1>6. Free' => Free
  <2>1. goal \in {"check", "wait_command"} /\ DmiArg(Captured) = 0 => answer = 0
    BY <1>3
  <2>2. goal \in {"check", "wait_command"} /\ answer = 0 => Free
    BY <1>1 DEF Free
  <2>3. goal \in {"check", "wait_command"} /\ DmiArg(Captured) # 0 => ~Free'
    BY <1>1 DEF Free, After
  <2>4. goal = "command" => ~Free'
    BY <1>1 DEF Free, After
  <2>5. goal \notin {"check", "wait_command", "command"} => Free
    BY <1>1 DEF Free, Goals, WordOf
  <2> QED BY <2>1, <2>2, <2>3, <2>4, <2>5
<1>7. Before' = Before
  BY <1>1 DEF Before, After, Goals, WordOf
<1> QED BY <1>4, <1>5, <1>6, <1>7 DEF ProtoInv, dmVars

\* Every decision of the debugger keeps the protocol.
LEMMA ProtoThink == ASSUME TapInv, ProtoInv, think PROVE ProtoInv'
<1>1. /\ plan = <<>> /\ phase # "connect" /\ goal # "done"
      /\ UNCHANGED dmVars /\ answer' = answer /\ commands' = commands
  BY DEF think
<1>2. CASE phase = "reset" /\ phase' = "op" /\ UNCHANGED <<goal, delay, times>>
  <2>1. Performed' = Performed
    BY <1>2 DEF Performed
  <2> QED BY <1>1, <1>2, <2>1, ProtoStays
<1>3. CASE phase = "op" /\ phase' = "op_sent" /\ times' = 0 /\ UNCHANGED <<goal, delay>>
  <2>1. Performed' = Performed
    BY <1>3 DEF Performed
  <2> QED BY <1>1, <1>3, <2>1, ProtoStays
<1>4. CASE phase = "fetch" /\ phase' = "fetch_sent" /\ UNCHANGED <<goal, delay>>
  <2>1. Performed' = Performed
    BY <1>4 DEF Performed
  <2> QED BY <1>1, <1>4, <2>1, ProtoStays
<1>5. CASE /\ phase \in {"op_sent", "fetch_sent"} /\ DmiOp(Captured) = BUSY
           /\ phase' = IF phase = "op_sent" THEN "op" ELSE "fetch"
           /\ UNCHANGED <<goal, times>>
  <2>1. Scanning
    BY <1>5 DEF Scanning
  <2>2. times = 0
    BY <1>1, <1>5, <2>1, ScanOver
  <2>3. Performed' = Performed
    BY <1>5, <2>2 DEF Performed
  <2> QED BY <1>1, <1>5, <2>3, ProtoStays
<1>6. CASE /\ phase = "op_sent" /\ DmiOp(Captured) # BUSY /\ phase' = "fetch"
           /\ UNCHANGED <<goal, plan, low, got, delay, times>>
  <2>1. Scanning
    BY <1>6 DEF Scanning
  <2>2. times = 1
    BY <1>1, <1>6, <2>1, ScanOver
  <2>3. Performed' = Performed
    BY <1>6, <2>2 DEF Performed
  <2> QED BY <1>1, <1>6, <2>3, ProtoStays
<1>7. CASE /\ phase = "fetch_sent" /\ DmiOp(Captured) # BUSY
           /\ goal' = After(DmiArg(Captured)) /\ phase' = "op"
  BY <1>1, <1>7, ProtoMoves
<1> QED BY <1>2, <1>3, <1>4, <1>5, <1>6, <1>7 DEF think

\* A step of the hart keeps the protocol.
LEMMA ProtoHart == ASSUME ProtoInv, hart PROVE ProtoInv'
<1>1. DM!HartStep(0) /\ UNCHANGED <<dbgVars, history>>
  BY DEF hart
<1>2. /\ dmactive' = dmactive /\ hartsel' = hartsel /\ available' = available
      /\ busy' = busy
      /\ halt_request[0] = TRUE => halt_request'[0] = TRUE
      /\ ~(rom[0] = "run" /\ halt_request[0] = FALSE)
  BY <1>1, HartDm
<1>3. Asleep'
  BY <1>2 DEF ProtoInv, Asleep
<1>4. /\ goal' = goal /\ phase' = phase /\ times' = times /\ answer' = answer
      /\ commands' = commands
  BY <1>1 DEF dbgVars, history
<1> QED BY <1>2, <1>3, <1>4, ProtoSame

\* So does each half of a clock cycle, carrying out a scan or not.
LEMMA ProtoPin == ASSUME TapInv, ProtoInv, pin_command PROVE ProtoInv'
<1>1. goal' = goal /\ phase' = phase
  BY DEF pin_command
<1>2. CASE /\ DM!run_test_idle \/ UNCHANGED dmVars
           /\ UNCHANGED history
  BY <1>1, <1>2, ProtoIdle
<1>3. CASE /\ Scanning /\ Dispatch(Word) /\ times = 0 /\ times' = 1
           /\ answer' = IF DmiOp(Word) = READ THEN Value(Word) ELSE answer
           /\ commands' = IF Word = Dmi(WRITE, COMMAND) THEN commands + 1 ELSE commands
  <2>1. goal # "done"
    BY <1>3, ScanHere DEF TapInv, ScanAt
  <2> QED BY <1>1, <1>3, <2>1, ProtoScan
<1> QED BY <1>2, <1>3, PinDm

\* The session starts with the debug module asleep.
LEMMA ProtoInitial == Init => ProtoInv
<1> SUFFICES ASSUME Init PROVE ProtoInv
  OBVIOUS
<1>1. /\ DM!Init /\ goal = "check" /\ phase = "connect" /\ times = 0 /\ answer = 0
  BY DEF Init
<1>2. hartsel = 0 /\ available = {0} /\ Asleep
  BY <1>1 DEF DM!Init, DM!NONE, Asleep
<1>3. ~Held /\ ~Free
  BY <1>1 DEF Held, Free, Performed
<1> QED BY <1>1, <1>2, <1>3 DEF ProtoInv

\* Every step keeps the protocol.
LEMMA ProtoStep == TapInv /\ ProtoInv /\ [Next]_vars => ProtoInv'
<1> SUFFICES ASSUME TapInv, ProtoInv, [Next]_vars PROVE ProtoInv'
  OBVIOUS
<1>1. CASE tick
  BY <1>1, ProtoIdle DEF tick, dbgVars
<1>2. CASE nothing_to_read
  BY <1>2, ProtoIdle DEF nothing_to_read, dbgVars
<1>3. CASE hart
  BY <1>3, ProtoHart
<1>4. CASE think
  BY <1>4, ProtoThink
<1>5. CASE reset_command
  <2>1. /\ phase = "connect" /\ phase' = "reset" /\ commands' = 0 /\ goal' = goal
        /\ UNCHANGED dmVars
    BY <1>5 DEF reset_command
  <2>2. goal' = "check" /\ ~Performed'
    BY <2>1 DEF ProtoInv, Performed
  <2>3. ~Held' /\ ~Free' /\ Before'
    BY <2>2 DEF Held, Free, Before
  <2>4. Asleep'
    BY <2>1 DEF ProtoInv, Asleep, dmVars
  <2> QED BY <2>1, <2>2, <2>3, <2>4 DEF ProtoInv, dmVars
<1>6. CASE pin_command
  BY <1>6, ProtoPin
<1>7. CASE extra_low
  BY <1>7, LowDm, ProtoIdle DEF dbgVars
<1>8. CASE disconnect
  <2>1. goal' = "check" /\ phase' = "connect" /\ UNCHANGED dmVars
    BY <1>8 DEF disconnect
  <2>2. ~Held' /\ ~Free'
    BY <2>1 DEF Held, Free, Performed
  <2>3. Asleep'
    BY <2>1 DEF ProtoInv, Asleep, dmVars
  <2> QED BY <2>1, <2>2, <2>3 DEF ProtoInv, dmVars
<1>9. CASE UNCHANGED vars
  BY <1>9, ProtoIdle DEF vars, dbgVars
<1> QED BY <1>1, <1>2, <1>3, <1>4, <1>5, <1>6, <1>7, <1>8, <1>9 DEF Next

-----------------------------------------------------------------------------
(* The refinement                                                          *)

\* The variables of the debug module are those of the session.
LEMMA Unmoved == UNCHANGED dmVars => UNCHANGED DM!vars
  BY DEF dmVars, DM!vars, DM!hartVars, DM!flagVars, DM!dmVars, DM!cmdVars, DM!history

\* A scan that is carried out is one operation of the debug module, or none.
LEMMA RefineScan ==
    ASSUME TypeInv, ProtoInv, Scanning, Dispatch(Word), times = 0, goal # "done"
    PROVE  [DM!Next]_(DM!vars)
<1>1. hartsel = 0 /\ available = {0} /\ Asleep
  BY DEF ProtoInv
<1>2. CASE UNCHANGED dmVars
  BY <1>2, Unmoved
<1>3. CASE phase = "op_sent" /\ goal = "clear" /\ DM!dmi_write_abstractcs({0, 1, 2})
  <2>1. ~busy
    BY <1>3 DEF ProtoInv, Free
  <2>2. CASE dmactive
    <3>1. {0, 1, 2} \in (SUBSET {0, 1, 2}) \ {{}}
      OBVIOUS
    <3>2. DM!Configure
      BY <1>3, <2>1, <2>2, <3>1 DEF DM!Configure
    <3> QED BY <3>2 DEF DM!Next
  <2>3. CASE ~dmactive
    <3>1. cmderr' = cmderr /\ raised' = raised
      BY <1>1, <1>3, <2>3, ClearDm DEF Asleep
    <3>2. UNCHANGED DM!vars
      BY <1>3, <3>1 DEF DM!dmi_write_abstractcs, DM!vars, DM!hartVars, DM!flagVars, DM!dmVars,
                        DM!cmdVars, DM!history
    <3> QED BY <3>2
  <2> QED BY <2>2, <2>3
<1>4. ASSUME NEW h \in BOOLEAN, NEW r \in BOOLEAN, ~(h /\ r), ~busy,
             DM!dmi_write_dmcontrol(TRUE, 0, {0}, h, r, FALSE)
      PROVE  DM!Next
  <2>1. DM!Control
    BY <1>4 DEF DM!Control
  <2> QED BY <2>1 DEF DM!Next
<1>5. CASE /\ phase = "op_sent" /\ goal = "halt"
           /\ DM!dmi_write_dmcontrol(TRUE, 0, {0}, TRUE, FALSE, FALSE)
  <2>1. ~busy
    BY <1>5 DEF ProtoInv, Free
  <2> QED BY <1>4, <1>5, <2>1
<1>6. CASE phase = "op_sent" /\ goal = "command" /\ DM!dmi_write_command("exec")
  <2>1. dmactive = TRUE /\ halt_request[0] = TRUE
    BY <1>6 DEF ProtoInv, Held
  <2>2. DM!Command("exec")
    BY <1>1, <1>6, <2>1 DEF DM!Command
  <2> QED BY <2>2 DEF DM!Next
<1>7. CASE /\ phase = "op_sent" /\ goal = "resume"
           /\ DM!dmi_write_dmcontrol(TRUE, 0, {0}, FALSE, TRUE, FALSE)
  <2>1. ~busy
    BY <1>7 DEF ProtoInv, Free
  <2> QED BY <1>4, <1>7, <2>1
<1> QED BY <1>2, <1>3, <1>5, <1>6, <1>7, Dispatched, Zenon

\* Every step is one of the debug module or leaves it alone.
LEMMA RefineStep == TapInv /\ ProtoInv /\ [Next]_vars => [DM!Next]_(DM!vars)
<1> SUFFICES ASSUME TapInv, ProtoInv, [Next]_vars PROVE [DM!Next]_(DM!vars)
  OBVIOUS
<1>1. CASE tick \/ nothing_to_read \/ think \/ reset_command \/ disconnect \/ UNCHANGED vars
  <2>1. UNCHANGED dmVars
    BY <1>1 DEF tick, nothing_to_read, think, reset_command, disconnect, vars
  <2> QED BY <2>1, Unmoved
<1>2. CASE hart
  <2>1. DM!HartStep(0)
    BY <1>2 DEF hart
  <2> QED BY <2>1 DEF DM!Next
<1>3. ASSUME DM!run_test_idle \/ UNCHANGED dmVars PROVE [DM!Next]_(DM!vars)
  BY <1>3, Unmoved DEF DM!Next
<1>4. CASE extra_low
  BY <1>3, <1>4, LowDm
<1>5. CASE pin_command
  <2>1. CASE DM!run_test_idle \/ UNCHANGED dmVars
    BY <1>3, <2>1
  <2>2. CASE Scanning /\ Dispatch(Word) /\ times = 0
    <3>1. goal # "done" /\ TypeInv
      BY <2>2, ScanHere DEF TapInv, ScanAt
    <3> QED BY <2>2, <3>1, RefineScan
  <2> QED BY <1>5, <2>1, <2>2, PinDm
<1> QED BY <1>1, <1>2, <1>4, <1>5 DEF Next

\* The debugger keeps the protocol: it gives one command in a connection, with
\* the hart halted by its request, and waits until it is over before it goes on
\* (debug_module_t::dmi_write, busy in abstractcs).
THEOREM SessionProtocol == Spec => []ProtoInv
<1>1. Init => ProtoInv
  BY ProtoInitial
<1>2. TapInv /\ ProtoInv /\ [Next]_vars => ProtoInv'
  BY ProtoStep
<1> QED BY <1>1, <1>2, TapCorrect, PTL DEF Spec

\* Through the pins, the TAP and the scans, the debug module is used as
\* DebugModule allows: every step of the session is one of its steps or leaves
\* it alone, for every number of idle cycles and lost connections
\* (jtag_dtm_t::update_dr calls dmi_read and dmi_write once).
THEOREM SessionRefines == Spec => ImplementsDebugModule
<1>1. Init => DM!Init
  BY DEF Init
<1>2. TapInv /\ ProtoInv /\ [Next]_vars => [DM!Next]_(DM!vars)
  BY RefineStep
<1> QED BY <1>1, <1>2, TapCorrect, SessionProtocol, PTL DEF Spec, ImplementsDebugModule

-----------------------------------------------------------------------------
(* What is proved of the debug module holds in the session                 *)

\* The proofs of DebugModule, for the constants of this session.
DMP == INSTANCE DebugModuleProofs
          WITH Harts <- {0}, Groups <- {0}, Availability <- {{0}}, Kinds <- {"exec"},
               MaxResets <- 0, rti_remaining <- dm_rti

\* These constants are among those DebugModule is proved for.
LEMMA SessionConstants ==
    /\ {0} \subseteq Nat /\ 0 \in {0}
    /\ AbstractRti \in Nat /\ {0} \subseteq Nat /\ 0 \in {0}
    /\ {{0}} \subseteq SUBSET {0}
  BY SessionAssumption

\* DM and DMP are instances of the same module with the same substitution.
LEMMA SameVars == /\ DM!vars = DMP!vars /\ DM!hartVars = DMP!hartVars
                  /\ DM!flagVars = DMP!flagVars /\ DM!dmVars = DMP!dmVars /\ DM!cmdVars = DMP!cmdVars
                  /\ DM!history = DMP!history
                  /\ DM!vars' = DMP!vars'
  BY DEF DM!vars, DM!hartVars, DM!flagVars, DM!dmVars, DM!cmdVars, DM!history,
         DMP!vars, DMP!hartVars, DMP!flagVars, DMP!dmVars, DMP!cmdVars, DMP!history

\* They start alike, ...
LEMMA SameInit == DM!Init <=> DMP!Init
  BY DEF DM!Init, DMP!Init, DM!NONE, DMP!NONE

\* ... the hart takes the same steps, ...
LEMMA SameHart == DM!HartStep(0) => DMP!HartStep(0)
<1> USE DEF DM!flagVars, DM!dmVars, DM!cmdVars, DM!history, DM!Goto,
            DMP!flagVars, DMP!dmVars, DMP!cmdVars, DMP!history, DMP!Goto
<1>1. DM!enter_debug_mode(0) => DMP!enter_debug_mode(0)
  BY DEF DM!enter_debug_mode, DMP!enter_debug_mode
<1>2. DM!store_halted(0) => DMP!store_halted(0)
  BY DEF DM!store_halted, DMP!store_halted, DM!GroupOf, DMP!GroupOf
<1>3. DM!load_flags(0) => DMP!load_flags(0)
  BY DEF DM!load_flags, DMP!load_flags
<1>4. DM!store_going(0) => DMP!store_going(0)
  BY DEF DM!store_going, DMP!store_going
<1>5. \A traps \in BOOLEAN : DM!run_abstract(0, traps) => DMP!run_abstract(0, traps)
  BY DEF DM!run_abstract, DMP!run_abstract
<1>6. DM!store_exception(0) => DMP!store_exception(0)
  BY DEF DM!store_exception, DMP!store_exception, DM!NONE, DMP!NONE, DM!EXCEPTION,
         DMP!EXCEPTION
<1>7. DM!store_resuming(0) => DMP!store_resuming(0)
  BY DEF DM!store_resuming, DMP!store_resuming
<1>8. DM!dret(0) => DMP!dret(0)
  BY DEF DM!dret, DMP!dret
<1> QED BY <1>1, <1>2, <1>3, <1>4, <1>5, <1>6, <1>7, <1>8 DEF DM!HartStep, DMP!HartStep

\* ... and so does the debug module.
LEMMA SameNext == DM!Next => DMP!Next
<1> SUFFICES ASSUME DM!Next PROVE DMP!Next
  OBVIOUS
<1> USE DEF DM!hartVars, DM!flagVars, DM!dmVars, DM!cmdVars, DM!history,
            DMP!hartVars, DMP!flagVars, DMP!dmVars, DMP!cmdVars, DMP!history
<1>1. CASE DM!HartStep(0)
  BY <1>1, SameHart DEF DMP!Next
<1>2. CASE DM!Breakpoint(0)
  BY <1>2 DEF DMP!Next, DM!Breakpoint, DMP!Breakpoint, DM!enter_debug_mode,
              DMP!enter_debug_mode, DM!Goto, DMP!Goto
<1>3. CASE DM!Command("exec")
  <2>1. DM!perform_abstract_command("exec") => DMP!perform_abstract_command("exec")
    BY DEF DM!perform_abstract_command, DMP!perform_abstract_command,
           DM!CommandError, DMP!CommandError, DM!NONE, DMP!NONE, DM!BUSY, DMP!BUSY,
           DM!NOTSUP, DMP!NOTSUP, DM!HALTRESUME, DMP!HALTRESUME
  <2>2. DM!dmi_access_data("exec") => DMP!dmi_access_data("exec")
    BY <2>1 DEF DM!dmi_access_data, DMP!dmi_access_data, DM!NONE, DMP!NONE, DM!BUSY, DMP!BUSY
  <2>3. DMP!Command("exec")
    BY <1>3, <2>1, <2>2 DEF DM!Command, DMP!Command, DM!dmi_write_command,
                            DMP!dmi_write_command
  <2> QED BY <2>3 DEF DMP!Next
<1>4. CASE DM!Configure
  <2>1. \A bits : DM!dmi_write_abstractcs(bits) => DMP!dmi_write_abstractcs(bits)
    BY DEF DM!dmi_write_abstractcs, DMP!dmi_write_abstractcs
  <2>2. \A g : DM!dmi_write_dmcs2(g) => DMP!dmi_write_dmcs2(g)
    BY DEF DM!dmi_write_dmcs2, DMP!dmi_write_dmcs2
  <2>3. \A a : DM!dmi_write_custom(a) => DMP!dmi_write_custom(a)
    BY DEF DM!dmi_write_custom, DMP!dmi_write_custom
  <2>4. DMP!Configure
    BY <1>4, <2>1, <2>2, <2>3 DEF DM!Configure, DMP!Configure
  <2> QED BY <2>4 DEF DMP!Next
<1>5. CASE DM!Control
  <2>1. ASSUME NEW active \in BOOLEAN, NEW haltreq \in BOOLEAN, NEW resumereq \in BOOLEAN,
               NEW hartreset \in BOOLEAN, NEW hs \in {0}, NEW sel \in SUBSET {0},
               DM!dmi_write_dmcontrol(active, hs, sel, haltreq, resumereq, hartreset)
        PROVE  DMP!dmi_write_dmcontrol(active, hs, sel, haltreq, resumereq, hartreset)
    BY <2>1 DEF DM!dmi_write_dmcontrol, DMP!dmi_write_dmcontrol, DM!reset, DMP!reset,
                DM!proc_reset, DMP!proc_reset, DM!NONE, DMP!NONE
  <2>2. DMP!Control
    BY <1>5, <2>1 DEF DM!Control, DMP!Control
  <2> QED BY <2>2 DEF DMP!Next
<1>6. CASE DM!run_test_idle
  <2>1. DMP!run_test_idle
    BY <1>6 DEF DM!run_test_idle, DMP!run_test_idle
  <2> QED BY <2>1 DEF DMP!Next
<1> QED BY <1>1, <1>2, <1>3, <1>4, <1>5, <1>6 DEF DM!Next

\* The invariant of DebugModule holds at the start of the session, ...
LEMMA CommandInitial == DM!Init => DMP!IInv
<1>1. DMP!Init => DMP!IInv
  BY SessionConstants, DMP!InitInv
<1> QED BY <1>1, SameInit

\* ... and is kept.
LEMMA CommandStep == DMP!IInv /\ [DM!Next]_(DM!vars) => DMP!IInv'
<1> SUFFICES ASSUME DMP!IInv, [DM!Next]_(DM!vars) PROVE DMP!IInv'
  OBVIOUS
<1>1. [DMP!Next]_(DMP!vars)
  BY SameNext, SameVars
<1>2. DMP!IInv /\ [DMP!Next]_(DMP!vars) => DMP!IInv'
  BY SessionConstants, DMP!NextInv
<1> QED BY <1>1, <1>2

\* The inductive invariant proved of the debug module alone holds in the session
\* behind the transport: commands are begun and completed one at a time
\* (debug_module_t::perform_abstract_command, store of HALTED, GOING, EXCEPTION).
THEOREM SessionCommands == Spec => []DMP!IInv
<1>1. DM!Init => DMP!IInv
  BY CommandInitial
<1>2. DMP!IInv /\ [DM!Next]_(DM!vars) => DMP!IInv'
  BY CommandStep
<1> QED BY <1>1, <1>2, SessionRefines, PTL DEF ImplementsDebugModule

\* The protocol says that one command was given and is over, the debug module
\* that it ran as often as it was given.
LEMMA TapRanOnce == ASSUME ProtoInv, DMP!IInv PROVE RanOnce
<1> SUFFICES ASSUME goal \in {"resume", "wait_resume", "probe", "done"}
             PROVE  commands = 1 /\ ran = 1 /\ ~busy /\ ~go[0]
  BY DEF RanOnce
<1>1. Free /\ ~Before /\ phase # "connect"
  BY DEF Free, Before, ProtoInv
<1>2. ~busy /\ commands = 1
  BY <1>1 DEF ProtoInv
<1>3. DMP!CommandInv
  BY DEF DMP!IInv
<1>4. ran = 1
  BY <1>2, <1>3 DEF DMP!CommandInv
<1>5. ~go[0]
  BY <1>2, <1>3 DEF DMP!CommandInv
<1> QED BY <1>2, <1>4, <1>5

\* When the debugger goes on to resume the hart, the command it gave ran once
\* and is over, however many scans were answered busy and sent again
\* (jtag_dtm_t::update_dr, debug_module_t::perform_abstract_command).
THEOREM SessionRanOnce == Spec => []RanOnce
<1>1. ProtoInv /\ DMP!IInv => RanOnce
  BY TapRanOnce
<1> QED BY <1>1, SessionProtocol, SessionCommands, PTL
==============================================================================
