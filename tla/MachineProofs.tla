---------------------------- MODULE MachineProofs ---------------------------
(***************************************************************************)
(* Proofs about the harts, the CLINT and the host of Machine, for any      *)
(* number of harts, any scripts, any slices and grants, both time sources  *)
(* and any width of a half.                                                *)
(*                                                                         *)
(* The properties need each other: the lock is exclusive because only the  *)
(* current hart has a reservation and because hart 0 ends the run, without *)
(* taking the lock, only when all other harts are done (Ring); the replies *)
(* come to their owners because one hart at a time is in the section; and  *)
(* a timer is not early because MTIP is always the comparison itself.      *)
(***************************************************************************)
EXTENDS Machine, SequenceTheorems, TLAPS

-----------------------------------------------------------------------------
(* The inductive invariant                                                 *)

Sending == {"send", "send_poll", "send_stash", "post"}
Waiting == {"reply", "reply_stash", "take"}
Section == Sending \cup Waiting \cup {"getc", "getc_poll", "getc_stash", "retry", "release"}
Stashes == {"send_stash", "reply_stash", "getc_stash"}
Labels  == Section \cup {"boot", "boot_lo", "next", "acquire", "try", "count", "count_sc",
                         "arm", "arm_lo", "arm_hi", "arm_new", "arm_s", "arm_vs",
                         "wait_timer", "woken_timer", "ipi", "wait_ipi", "woken_ipi", "done"}

Message == [dev : {"bcd", "sys"}, cmd : Commands \cup {"test"}, id : Nat \ {0}]

HartType ==
    /\ config \in Configs /\ current_proc \in Harts
    /\ reserved \in [Harts -> {NoAddr, "lock", "count"}] /\ in_wfi \in [Harts -> BOOLEAN]
    /\ lock \in {0, 1} /\ count \in Nat /\ commits \in Nat
    /\ pc \in [Harts -> Labels] /\ script \in [Harts -> Seq(Commands)]
    /\ val \in [Harts -> Nat] /\ deadline \in [Harts -> Times]

HtifType ==
    /\ tohost \in Message \cup {Empty} /\ fromhost \in Message \cup {Empty}
    /\ fromhost_queue \in Seq(Message) /\ pending_reads \in Seq(Message)
    /\ handled \in Seq(Nat) /\ answered \in Seq(Nat)
    /\ issued \in Seq(Nat) /\ received \in Seq(Nat)

\* What the label of a hart says of its script and of its sleep.
Program ==
    \A h \in Harts :
        /\ in_wfi[h] => pc[h] \in {"woken_timer", "woken_ipi"}
        /\ pc[h] \in {"acquire", "try"} \cup (Section \ Sending) => script[h] # <<>>
        /\ pc[h] \in {"ipi", "wait_ipi", "woken_ipi"} => script[h] = <<>>
        /\ pc[h] \in Sending /\ script[h] = <<>> => h = 0
        /\ pc[h] \in Waiting => Waits(Kind(h))

\* The software interrupt has reached hart h.
Signalled(h) ==
    \/ "MSIP" \in mip[h]
    \/ pc[h] = "woken_ipi" /\ ~in_wfi[h]
    \/ h # 0 /\ pc[h] \in {"ipi", "done"}
    \/ pc[h] \in Sending /\ script[h] = <<>>

\* It goes round: whom it has reached, all harts before it are done, and when
\* it is back at hart 0 all others are.
Ring ==
    \A h, g \in Harts : Signalled(h) /\ g # 0 /\ (h = 0 \/ g < h) => pc[g] = "done"

\* One hart at a time uses the mailboxes, and holds the lock, unless it is
\* hart 0 that ends the run.
Exclusive == \A g, h \in Harts : pc[g] \in Section /\ pc[h] \in Section => g = h
LockHeld  == \A h \in Harts : pc[h] \in Section /\ script[h] # <<>> => lock = 1

\* Only the hart whose slice it is has a reservation, and while it has one
\* nobody has written the word.
Reservations ==
    \A h \in Harts :
        /\ reserved[h] # NoAddr => h = current_proc
        /\ pc[h] = "try" /\ reserved[h] = "lock" => lock = 0
        /\ pc[h] = "count_sc" /\ reserved[h] = "count" => val[h] = count

\* What the hart in the section has seen in the mailboxes is still there.
Mailboxes ==
    \A h \in Harts :
        /\ pc[h] = "post" => tohost = Empty
        /\ pc[h] \in Stashes \cup {"take"} => fromhost # Empty
        /\ pc[h] = "take" => Waits(fromhost.cmd)

\* A command some hart waits for, or the reply to it, is the last one posted;
\* there is one at most, and no other command behind it.
Awaited(m) == m.id = Len(issued) /\ \E h \in Harts : pc[h] \in Waiting
Delivered(m) == tohost = Empty /\ Awaited(m) /\ (m.cmd = "call" => magicmem = m.id)

InFlight ==
    /\ issued # <<>> => issued[Len(issued)] = Len(issued)
    /\ tohost # Empty => tohost.id = Len(issued)
    /\ Waits(tohost.cmd) => Awaited(tohost)
    /\ Waits(fromhost.cmd) => Delivered(fromhost)
    /\ \A i \in DOMAIN fromhost_queue : Waits(fromhost_queue[i].cmd) =>
          /\ Delivered(fromhost_queue[i]) /\ ~Waits(fromhost.cmd)
          /\ \A j \in DOMAIN fromhost_queue : Waits(fromhost_queue[j].cmd) => i = j
    /\ \A i \in DOMAIN pending_reads : pending_reads[i].cmd = "read"

LockInv == Exclusive /\ LockHeld /\ Reservations /\ count = commits
HostInv == HtifType /\ Mailboxes /\ InFlight /\ HtifInOrder

Inv == HartType /\ TimersExact /\ Program /\ Ring /\ LockInv /\ HostInv

-----------------------------------------------------------------------------
(* Arithmetic of the halves of a time                                      *)

\* Euclid.
LEMMA DivMod ==
    ASSUME NEW a \in Nat, NEW b \in Nat \ {0}
    PROVE  /\ a \div b \in Nat /\ a % b \in 0 .. b - 1
           /\ a = b * (a \div b) + (a % b)
BY SMT

\* The remainder of a sum.
LEMMA SumMod ==
    ASSUME NEW a \in Nat, NEW c \in Nat, NEW b \in Nat \ {0}
    PROVE  (a + c) % b \in 0 .. b - 1
<1>1. a + c \in Nat
    OBVIOUS
<1> QED
    BY <1>1, DivMod

\* Multiplication is monotonic.
LEMMA MulMono ==
    ASSUME NEW x \in Nat, NEW y \in Nat, NEW z \in Nat, x <= y
    PROVE  z * x <= z * y /\ x * z <= y * z
<1>1. PICK d \in Nat : y = x + d
    BY DEF Nat
<1>2. z * y = z * x + z * d /\ z * d \in Nat
    BY <1>1
<1> QED
    BY <1>2

\* A time is made of two halves.
LEMMA DivHalf ==
    ASSUME NEW a \in Times
    PROVE  /\ a \div Half \in 0 .. Half - 1 /\ a % Half \in 0 .. Half - 1
           /\ a = ((a \div Half) * Half) + (a % Half)
<1>1. Half \in Nat \ {0}
    BY ClintAssumption
<1>2. a < Half * Half
    BY <1>1 DEF Times, Limit
<1>3. a \in Nat
    BY <1>1 DEF Times, Limit
<1>4. a \div Half \in Nat /\ a % Half \in 0 .. Half - 1 /\ a = Half * (a \div Half) + (a % Half)
    BY <1>1, <1>3, DivMod
<1>5. a \div Half < Half
    <2> DEFINE q == a \div Half
               r == a % Half
    <2> HIDE DEF q, r
    <2> SUFFICES ASSUME q >= Half PROVE FALSE
        BY <1>1, <1>4 DEF q
    <2>1. Half * q >= Half * Half
        BY <1>1, <1>4, MulMono DEF q
    <2> QED
        BY <1>1, <1>2, <1>4, <2>1, <1>3 DEF q, r
<1> QED
    BY <1>1, <1>4, <1>5

\* Two halves make a time.
LEMMA JoinHalves ==
    ASSUME NEW hi \in 0 .. Half - 1, NEW lo \in 0 .. Half - 1
    PROVE  (hi * Half) + lo \in Times
<1>1. Half \in Nat \ {0}
    BY ClintAssumption
<1> HIDE DEF Half
<1>2. hi * Half <= (Half - 1) * Half
    BY <1>1, MulMono
<1>3. (Half - 1) * Half = Half * Half - Half
    BY <1>1
<1> QED
    BY <1>1, <1>2, <1>3 DEF Times, Limit

-----------------------------------------------------------------------------
(* The CLINT                                                               *)

SameMsip == \A h \in Harts : "MSIP" \in mip'[h] <=> "MSIP" \in mip[h]

\* The loop of clint_t::tick leaves every timer bit exact and no software
\* bit changed, whatever the access before it has done.
LEMMA Tick ==
    ASSUME ClintTypeOK, NEW now \in Times, NEW ticks \in Nat,
           NEW cmp \in [Harts -> Times], NEW old \in [Harts -> SUBSET Bits],
           tick(now, ticks, cmp, old), UNCHANGED <<stimecmp, vstimecmp>>
    PROVE  /\ TimersExact'
           /\ \A h \in Harts : "MSIP" \in mip'[h] <=> "MSIP" \in old[h]
<1>1. Limit \in Nat \ {0}
    BY ClintAssumption DEF Limit
<1>2. /\ mtime' = IF real_time THEN clock ELSE (now + ticks) % Limit
      /\ time' = [h \in Harts |-> mtime'] /\ mtimecmp' = cmp
      /\ mip' = [h \in Harts |->
                    Backdoor(sync(h, mtime', old[h]), {"MTIP"},
                             IF mtime' >= cmp[h] THEN {"MTIP"} ELSE {})]
      /\ UNCHANGED <<real_time, clock, stimecmp, vstimecmp>>
    BY DEF tick, Compared
<1>3. now + ticks \in Nat /\ (now + ticks) % Limit \in 0 .. Limit - 1
    BY <1>1, DivMod DEF Times
<1>4. mtime' \in Times
    BY <1>2, <1>3 DEF Times, ClintTypeOK
<1>5. ASSUME NEW h \in Harts
      PROVE  /\ mip'[h] \subseteq Bits
             /\ "MSIP" \in mip'[h] <=> "MSIP" \in old[h]
             /\ "MTIP" \in mip'[h] <=> mtime' >= mtimecmp'[h]
             /\ Sstc /\ "STIP" \in mip'[h] => time'[h] >= stimecmp'[h]
             /\ Virtual /\ "VSTIP" \in mip'[h] => time'[h] >= vstimecmp'[h]
    <2>1. old[h] \subseteq Bits
        OBVIOUS
    <2>2. mip'[h] = Backdoor(sync(h, mtime', old[h]), {"MTIP"},
                             IF mtime' >= cmp[h] THEN {"MTIP"} ELSE {})
        BY <1>2
    <2>3. mtimecmp'[h] = cmp[h] /\ time'[h] = mtime' /\ stimecmp'[h] = stimecmp[h]
          /\ vstimecmp'[h] = vstimecmp[h]
        BY <1>2
    <2> QED
        BY <2>1, <2>2, <2>3, ClintAssumption DEF Backdoor, sync, TimerMask, Bits
<1>6. ClintTypeOK'
    <2>1. mip' \in [Harts -> SUBSET Bits]
        BY <1>2, <1>5
    <2> QED
        BY <1>2, <1>4, <2>1 DEF ClintTypeOK
<1> QED
    BY <1>5, <1>6 DEF TimersExact

\* Writing a half of a register gives a time.
LEMMA WriteHalfType ==
    ASSUME NEW old \in Times, NEW half \in {"lo", "hi"}, NEW v \in 0 .. Half - 1
    PROVE  WriteHalf(old, half, v) \in Times
BY DivHalf, JoinHalves DEF WriteHalf

\* Each access to the CLINT, and to the compare registers of a hart.
LEMMA ClintSteps ==
    ASSUME TimersExact
    PROVE  /\ load => TimersExact' /\ SameMsip
           /\ \A n \in Nat : device_tick(n) => TimersExact' /\ SameMsip
           /\ \A half \in {"lo", "hi"}, v \in 0 .. Half - 1 :
                 store_mtime(half, v) => TimersExact' /\ SameMsip
           /\ \A h \in Harts, half \in {"lo", "hi"}, v \in 0 .. Half - 1 :
                 store_mtimecmp(h, half, v) => TimersExact' /\ SameMsip
           /\ clock_advance => TimersExact' /\ SameMsip
<1> USE DEF TimersExact
<1>0. /\ ClintTypeOK /\ mtime \in Times /\ 0 \in Nat /\ mtimecmp \in [Harts -> Times]
      /\ mip \in [Harts -> SUBSET Bits]
    BY DEF ClintTypeOK
<1> HIDE DEF TimersExact
<1>1. load => TimersExact' /\ SameMsip
    BY <1>0, Tick DEF load, SameMsip
<1>2. ASSUME NEW n \in Nat, device_tick(n) PROVE TimersExact' /\ SameMsip
    BY <1>0, <1>2, Tick DEF device_tick, SameMsip
<1>3. ASSUME NEW half \in {"lo", "hi"}, NEW v \in 0 .. Half - 1, store_mtime(half, v)
      PROVE  TimersExact' /\ SameMsip
    <2>1. WriteHalf(mtime, half, v) \in Times
        BY <1>0, WriteHalfType
    <2> QED
        BY <1>0, <1>3, <2>1, Tick DEF store_mtime, SameMsip
<1>4. ASSUME NEW h \in Harts, NEW half \in {"lo", "hi"}, NEW v \in 0 .. Half - 1,
             store_mtimecmp(h, half, v)
      PROVE  TimersExact' /\ SameMsip
    <2> DEFINE cmp == [mtimecmp EXCEPT ![h] = WriteHalf(@, half, v)]
    <2>1. cmp \in [Harts -> Times]
        BY <1>0, WriteHalfType
    <2>2. tick(mtime, 0, cmp, mip) /\ UNCHANGED <<stimecmp, vstimecmp>>
        BY <1>4 DEF store_mtimecmp
    <2> HIDE DEF cmp
    <2> QED
        BY <1>0, <2>1, <2>2, Tick DEF SameMsip
<1>5. clock_advance => TimersExact' /\ SameMsip
    <2> SUFFICES ASSUME clock_advance PROVE TimersExact' /\ SameMsip
        OBVIOUS
    <2>1. clock' \in Times
        BY <1>0, ClintAssumption DEF clock_advance, ClintTypeOK, Times, Limit
    <2> QED
        BY <1>0, <2>1 DEF clock_advance, TimersExact, ClintTypeOK, SameMsip
<1> QED
    BY <1>1, <1>2, <1>3, <1>4, <1>5

\* A store to an msip word sets or clears the bit of that hart only.
LEMMA StoreMsip ==
    ASSUME TimersExact, NEW h \in Harts, NEW b \in BOOLEAN, store_msip(h, b)
    PROVE  /\ TimersExact' /\ ("MSIP" \in mip'[h] <=> b)
           /\ \A g \in Harts : g # h => ("MSIP" \in mip'[g] <=> "MSIP" \in mip[g])
<1> DEFINE old == [mip EXCEPT ![h] = Backdoor(@, {"MSIP"}, IF b THEN {"MSIP"} ELSE {})]
<1>1. ClintTypeOK /\ mtime \in Times /\ mtimecmp \in [Harts -> Times]
      /\ mip \in [Harts -> SUBSET Bits]
    BY DEF TimersExact, ClintTypeOK
<1>2. old \in [Harts -> SUBSET Bits]
    BY <1>1 DEF Backdoor, Bits
<1>3. \A g \in Harts : g # h => old[g] = mip[g]
    BY <1>1
<1>4. "MSIP" \in old[h] <=> b
    BY <1>1 DEF Backdoor
<1>5. tick(mtime, 0, mtimecmp, old) /\ UNCHANGED <<stimecmp, vstimecmp>>
    BY DEF store_msip
<1> HIDE DEF old
<1> QED
    BY <1>1, <1>2, <1>3, <1>4, <1>5, Tick

\* A store to a supervisor compare register leaves no bit set that is not due.
LEMMA StoreStimecmp ==
    ASSUME TimersExact, NEW h \in Harts, NEW v \in Times,
           store_stimecmp(h, v) \/ store_vstimecmp(h, v)
    PROVE  TimersExact' /\ SameMsip
<1>1. ClintTypeOK
    BY DEF TimersExact
<1>2. CASE store_stimecmp(h, v)
    <2> DEFINE new == Backdoor(mip[h], TimerMask, IF time[h] >= v THEN {"STIP"} ELSE {})
    <2>1. /\ mip' = [mip EXCEPT ![h] = new] /\ stimecmp' = [stimecmp EXCEPT ![h] = v]
          /\ UNCHANGED <<real_time, clock, mtime, mtimecmp, time, vstimecmp>>
        BY <1>2 DEF store_stimecmp
    <2>2. mip[h] \subseteq Bits
        BY <1>1 DEF ClintTypeOK
    <2>3. /\ new \subseteq Bits
          /\ "MSIP" \in new <=> "MSIP" \in mip[h]
          /\ "MTIP" \in new <=> "MTIP" \in mip[h]
          /\ Sstc /\ "STIP" \in new => time[h] >= v
          /\ Virtual => "VSTIP" \notin new
        BY <2>2, ClintAssumption DEF Backdoor, TimerMask, Bits
    <2> HIDE DEF new
    <2> QED
        BY <1>1, <2>1, <2>3 DEF TimersExact, ClintTypeOK, SameMsip
<1>3. CASE store_vstimecmp(h, v)
    <2> DEFINE new == Backdoor(mip[h], TimerMask, IF time[h] >= v THEN {"VSTIP"} ELSE {})
    <2>1. /\ mip' = [mip EXCEPT ![h] = new] /\ vstimecmp' = [vstimecmp EXCEPT ![h] = v]
          /\ UNCHANGED <<real_time, clock, mtime, mtimecmp, time, stimecmp>>
        BY <1>3 DEF store_vstimecmp
    <2>2. mip[h] \subseteq Bits
        BY <1>1 DEF ClintTypeOK
    <2>3. /\ new \subseteq Bits
          /\ "MSIP" \in new <=> "MSIP" \in mip[h]
          /\ "MTIP" \in new <=> "MTIP" \in mip[h]
          /\ Sstc => "STIP" \notin new
          /\ Virtual /\ "VSTIP" \in new => time[h] >= v
        BY <2>2, ClintAssumption DEF Backdoor, TimerMask, Bits
    <2> HIDE DEF new
    <2> QED
        BY <1>1, <2>1, <2>3 DEF TimersExact, ClintTypeOK, SameMsip
<1> QED
    BY <1>2, <1>3

-----------------------------------------------------------------------------
(* Steps that leave the mailboxes alone                                    *)

\* A hart that moves on without looking at the mailboxes.
LEMMA HostKept ==
    ASSUME Inv, NEW h \in Harts, NEW l, pc' = [pc EXCEPT ![h] = l],
           pc[h] \notin Waiting, l \notin Stashes \cup {"post", "take"},
           UNCHANGED <<htifVars, issued, received>>
    PROVE  HostInv'
<1> USE DEF Inv, HostInv
<1>1. HtifType' /\ HtifInOrder'
    BY DEF HtifType, htifVars, HtifInOrder
<1>2. Mailboxes'
    BY DEF Mailboxes, htifVars, HartType
<1>3. InFlight'
    BY DEF InFlight, Delivered, Awaited, htifVars, HartType
<1> QED
    BY <1>1, <1>2, <1>3

\* No hart moves.
LEMMA HostStill ==
    ASSUME Inv, UNCHANGED <<htifVars, issued, received, pc>>
    PROVE  HostInv'
BY DEF Inv, HostInv, HtifType, htifVars, HtifInOrder, Mailboxes, InFlight, Delivered, Awaited

\* A hart that moves on outside the section leaves the others in their order.
LEMMA RingKept ==
    ASSUME Inv, NEW h \in Harts, NEW l, pc' = [pc EXCEPT ![h] = l],
           pc[h] # "done", l \notin Sending \cup {"ipi", "woken_ipi", "done"},
           SameMsip, in_wfi' = in_wfi,
           \A g \in Harts : g # h => script'[g] = script[g]
    PROVE  Ring'
BY DEF Inv, Ring, Signalled, SameMsip, HartType

\* A step that does not touch the CLINT.
LEMMA MsipUnchanged == ASSUME UNCHANGED clintVars PROVE SameMsip /\ (TimersExact => TimersExact')
BY DEF clintVars, SameMsip, TimersExact, ClintTypeOK

\* Outside the section the lock and the reservations of others stay as they are.
LEMMA LockKept ==
    ASSUME Inv, NEW h \in Harts, NEW l, pc' = [pc EXCEPT ![h] = l],
           pc[h] \in Section \/ l \notin Section, l \notin {"try", "count_sc"},
           UNCHANGED <<reserved, current_proc, lock, count, val, commits>>,
           script' = script
    PROVE  LockInv'
BY DEF Inv, LockInv, Exclusive, LockHeld, Reservations, HartType

-----------------------------------------------------------------------------
(* One lemma per instruction                                               *)

\* The load of the lock reserves it, and is followed by the SC if it was free.
LEMMA LrLock ==
    ASSUME Inv, NEW h \in Harts, lr_lock(h) PROVE Inv'
<1> DEFINE l == IF lock = 0 THEN "try" ELSE "acquire"
<1>1. /\ pc[h] = "acquire" /\ ~in_wfi[h] /\ current_proc = h /\ current_proc' = h
      /\ config' = config /\ pc' = [pc EXCEPT ![h] = l]
      /\ reserved' = [reserved EXCEPT ![h] = "lock"]
      /\ UNCHANGED <<clintVars, htifVars, in_wfi, lock, count, script, val, deadline,
                     console, received, issued, commits, nops>>
    BY DEF lr_lock, At, Turn, load_reserved, Goto
<1>2. SameMsip /\ TimersExact'
    BY <1>1, MsipUnchanged DEF Inv
<1>3. l \in {"try", "acquire"} /\ (l = "try" => lock = 0)
    OBVIOUS
<1> HIDE DEF l
<1> USE DEF Section, Sending, Waiting, Stashes
<1>4. HartType'
    BY <1>1, <1>3 DEF Inv, HartType, Labels
<1>5. Program'
    BY <1>1, <1>3 DEF Inv, Program, HartType, Kind
<1>6. Ring'
    BY <1>1, <1>2, <1>3, RingKept
<1>7. LockInv'
    BY <1>1, <1>3 DEF Inv, LockInv, Exclusive, LockHeld, Reservations, HartType, NoAddr
<1>8. HostInv'
    BY <1>1, <1>3, HostKept
<1> QED
    BY <1>2, <1>4, <1>5, <1>6, <1>7, <1>8 DEF Inv

\* The store succeeds only if nobody has the lock, and nobody ends the run.
LEMMA ScLock ==
    ASSUME Inv, NEW h \in Harts, sc_lock(h) PROVE Inv'
<1>1. /\ pc[h] = "try" /\ ~in_wfi[h] /\ current_proc = h /\ current_proc' = h
      /\ config' = config
      /\ UNCHANGED <<clintVars, htifVars, in_wfi, count, script, val, deadline,
                     console, received, issued, commits, nops>>
      /\ reserved' = [reserved EXCEPT ![h] = NoAddr]
      /\ \/ /\ reserved[h] = "lock" /\ lock' = 1
            /\ \E l \in {"getc", "send"} : pc' = [pc EXCEPT ![h] = l]
         \/ lock' = lock /\ pc' = [pc EXCEPT ![h] = "acquire"]
    BY DEF sc_lock, At, Turn, store_conditional, Goto
<1>2. SameMsip /\ TimersExact'
    BY <1>1, MsipUnchanged DEF Inv
<1>3. PICK l \in {"getc", "send", "acquire"} :
          /\ pc' = [pc EXCEPT ![h] = l]
          /\ l # "acquire" => reserved[h] = "lock" /\ lock' = 1
          /\ l = "acquire" => lock' = lock
    BY <1>1
<1> USE DEF Section, Sending, Waiting, Stashes
<1>4. HartType'
    BY <1>1, <1>3 DEF Inv, HartType, Labels, NoAddr
<1>5. Program'
    BY <1>1, <1>3 DEF Inv, Program, HartType, Kind
<1>6. Ring'
    BY <1>1, <1>2, <1>3 DEF Inv, Ring, Signalled, SameMsip, HartType, Program
<1>7. Exclusive'
    BY <1>1, <1>3 DEF Inv, LockInv, Exclusive, LockHeld, Reservations, HartType, Program,
                      Ring, Signalled
<1>8. LockHeld' /\ Reservations' /\ (count = commits)'
    BY <1>1, <1>3 DEF Inv, LockInv, LockHeld, Reservations, HartType, NoAddr
<1>9. HostInv'
    BY <1>1, <1>3, HostKept
<1> QED
    BY <1>2, <1>4, <1>5, <1>6, <1>7, <1>8, <1>9 DEF Inv, LockInv

\* The load of the counter reserves it.
LEMMA LrCount ==
    ASSUME Inv, NEW h \in Harts, lr_count(h) PROVE Inv'
<1>1. /\ pc[h] = "count" /\ ~in_wfi[h] /\ current_proc = h /\ current_proc' = h
      /\ config' = config /\ pc' = [pc EXCEPT ![h] = "count_sc"]
      /\ reserved' = [reserved EXCEPT ![h] = "count"] /\ val' = [val EXCEPT ![h] = count]
      /\ UNCHANGED <<clintVars, htifVars, in_wfi, lock, count, script, deadline,
                     console, received, issued, commits, nops>>
    BY DEF lr_count, At, Turn, load_reserved, Goto
<1>2. SameMsip /\ TimersExact'
    BY <1>1, MsipUnchanged DEF Inv
<1> USE DEF Section, Sending, Waiting, Stashes
<1>4. HartType'
    BY <1>1 DEF Inv, HartType, Labels
<1>5. Program'
    BY <1>1 DEF Inv, Program, HartType, Kind
<1>6. Ring'
    BY <1>1, <1>2, RingKept
<1>7. LockInv'
    BY <1>1 DEF Inv, LockInv, Exclusive, LockHeld, Reservations, HartType, NoAddr
<1>8. HostInv'
    BY <1>1, HostKept
<1> QED
    BY <1>2, <1>4, <1>5, <1>6, <1>7, <1>8 DEF Inv

\* The store succeeds only if the counter is the one that was read.
LEMMA ScCount ==
    ASSUME Inv, NEW h \in Harts, sc_count(h) PROVE Inv'
<1>1. /\ pc[h] = "count_sc" /\ ~in_wfi[h] /\ current_proc = h /\ current_proc' = h
      /\ config' = config /\ reserved' = [reserved EXCEPT ![h] = NoAddr]
      /\ UNCHANGED <<clintVars, htifVars, in_wfi, lock, script, val, deadline,
                     console, received, issued, nops>>
      /\ \/ /\ reserved[h] = "count" /\ count' = val[h] + 1 /\ commits' = commits + 1
            /\ pc' = [pc EXCEPT ![h] = "arm"]
         \/ UNCHANGED <<count, commits>> /\ pc' = [pc EXCEPT ![h] = "count"]
    BY DEF sc_count, At, Turn, store_conditional, Goto
<1>2. SameMsip /\ TimersExact'
    BY <1>1, MsipUnchanged DEF Inv
<1>3. PICK l \in {"arm", "count"} :
          /\ pc' = [pc EXCEPT ![h] = l]
          /\ \/ reserved[h] = "count" /\ count' = val[h] + 1 /\ commits' = commits + 1
             \/ UNCHANGED <<count, commits>>
    BY <1>1
<1> USE DEF Section, Sending, Waiting, Stashes
<1>4. HartType'
    BY <1>1, <1>3 DEF Inv, HartType, Labels, NoAddr
<1>5. Program'
    BY <1>1, <1>3 DEF Inv, Program, HartType, Kind
<1>6. Ring'
    BY <1>1, <1>2, <1>3, RingKept
<1>7. LockInv'
    BY <1>1, <1>3 DEF Inv, LockInv, Exclusive, LockHeld, Reservations, HartType, NoAddr
<1>8. HostInv'
    BY <1>1, <1>3, HostKept
<1> QED
    BY <1>2, <1>4, <1>5, <1>6, <1>7, <1>8 DEF Inv

\* A character is taken from the buffer.
LEMMA GetC ==
    ASSUME Inv, NEW h \in Harts, getc(h) PROVE Inv'
<1>1. /\ pc[h] = "getc" /\ ~in_wfi[h] /\ current_proc' = current_proc /\ config' = config
      /\ \E l \in {"release", "getc_poll"} : pc' = [pc EXCEPT ![h] = l]
      /\ UNCHANGED <<clintVars, htifVars, reserved, in_wfi, lock, count, script, val,
                     deadline, received, issued, commits, nops>>
    BY DEF getc, At, Turn, Goto
<1>2. SameMsip /\ TimersExact'
    BY <1>1, MsipUnchanged DEF Inv
<1>3. PICK l \in {"release", "getc_poll"} : pc' = [pc EXCEPT ![h] = l]
    BY <1>1
<1> USE DEF Section, Sending, Waiting, Stashes
<1>4. HartType'
    BY <1>1, <1>3 DEF Inv, HartType, Labels
<1>5. Program'
    BY <1>1, <1>3 DEF Inv, Program, HartType, Kind
<1>6. Ring'
    BY <1>1, <1>2, <1>3, RingKept
<1>7. LockInv'
    BY <1>1, <1>3, LockKept
<1>8. HostInv'
    BY <1>1, <1>3, HostKept
<1> QED
    BY <1>2, <1>4, <1>5, <1>6, <1>7, <1>8 DEF Inv

\* The hart leaves the section and gives the lock back.
LEMMA Release ==
    ASSUME Inv, NEW h \in Harts, release(h) PROVE Inv'
<1>1. /\ pc[h] \in {"release", "retry"} /\ ~in_wfi[h] /\ lock' = 0
      /\ current_proc' = current_proc /\ config' = config
      /\ \/ pc' = [pc EXCEPT ![h] = "count"] /\ script' = [script EXCEPT ![h] = Tail(@)]
         \/ pc' = [pc EXCEPT ![h] = "acquire"] /\ script' = script
      /\ UNCHANGED <<clintVars, htifVars, reserved, in_wfi, count, val, deadline, console,
                     received, issued, commits, nops>>
    BY DEF release, At, Turn, Goto
<1>2. SameMsip /\ TimersExact'
    BY <1>1, MsipUnchanged DEF Inv
<1> USE DEF Section, Sending, Waiting, Stashes
<1>3. PICK l \in {"count", "acquire"} :
          /\ pc' = [pc EXCEPT ![h] = l]
          /\ l = "acquire" => script' = script
    BY <1>1
<1>4. script' \in [Harts -> Seq(Commands)] /\ \A g \in Harts : g # h => script'[g] = script[g]
    <2>1. script[h] # <<>> /\ script \in [Harts -> Seq(Commands)]
        BY <1>1 DEF Inv, Program, HartType
    <2>2. Tail(script[h]) \in Seq(Commands)
        BY <2>1
    <2> QED
        BY <1>1, <2>1, <2>2
<1>5. HartType'
    BY <1>1, <1>3, <1>4 DEF Inv, HartType, Labels
<1>6. Program'
    BY <1>1, <1>3, <1>4 DEF Inv, Program, HartType, Kind
<1>7. Ring'
    BY <1>1, <1>2, <1>3, <1>4, RingKept
<1>8. LockInv'
    BY <1>1, <1>3, <1>4 DEF Inv, LockInv, Exclusive, LockHeld, Reservations, HartType
<1>9. HostInv'
    BY <1>1, <1>3, HostKept
<1> QED
    BY <1>2, <1>5, <1>6, <1>7, <1>8, <1>9 DEF Inv

\* A look at the script or at the mailboxes decides where the hart goes.
LEMMA Look ==
    ASSUME Inv, NEW h \in Harts, look(h) PROVE Inv'
<1>1. /\ ~in_wfi[h] /\ current_proc' = current_proc /\ config' = config
      /\ UNCHANGED <<clintVars, htifVars, reserved, in_wfi, lock, count, script, val,
                     deadline, console, received, issued, commits, nops>>
    BY DEF look, At, Turn
<1>2. SameMsip /\ TimersExact'
    BY <1>1, MsipUnchanged DEF Inv
<1>3. \/ /\ pc[h] = "next"
         /\ \/ pc' = [pc EXCEPT ![h] = "acquire"] /\ script[h] # <<>>
            \/ pc' = [pc EXCEPT ![h] = "ipi"] /\ script[h] = <<>> /\ h = 0
            \/ pc' = [pc EXCEPT ![h] = "wait_ipi"] /\ script[h] = <<>>
      \/ /\ pc[h] = "send"
         /\ \/ pc' = [pc EXCEPT ![h] = "post"] /\ tohost = Empty
            \/ pc' = [pc EXCEPT ![h] = "send_poll"]
      \/ /\ pc[h] = "send_poll"
         /\ \/ pc' = [pc EXCEPT ![h] = "send"]
            \/ pc' = [pc EXCEPT ![h] = "send_stash"] /\ fromhost # Empty
      \/ /\ pc[h] = "reply"
         /\ \/ pc' = [pc EXCEPT ![h] = "reply"]
            \/ /\ pc' = [pc EXCEPT ![h] = "take"] /\ fromhost # Empty
               /\ fromhost.cmd = Kind(h)
            \/ pc' = [pc EXCEPT ![h] = "reply_stash"] /\ fromhost # Empty
      \/ /\ pc[h] = "getc_poll"
         /\ \/ pc' = [pc EXCEPT ![h] = "retry"]
            \/ pc' = [pc EXCEPT ![h] = "getc_stash"] /\ fromhost # Empty
      \/ pc[h] = "done" /\ pc' = pc
    BY DEF look, At, Goto
<1>4. CASE pc[h] = "done"
    <2>1. pc' = pc
        BY <1>3, <1>4
    <2>2. HostInv'
        BY <1>1, <2>1, HostStill
    <2> QED
        BY <1>1, <1>2, <2>1, <2>2
        DEF Inv, HartType, Program, Kind, Ring, Signalled, SameMsip, LockInv, Exclusive,
            LockHeld, Reservations
<1>5. CASE pc[h] # "done"
    <2>1. PICK l \in Labels : pc' = [pc EXCEPT ![h] = l]
        BY <1>3, <1>5 DEF Labels, Section, Sending, Waiting
    <2>2. pc[h] \in Labels /\ pc'[h] = l
        BY <2>1 DEF Inv, HartType
    <2> USE DEF Section, Sending, Waiting, Stashes
    <2>3. HartType'
        BY <1>1, <2>1 DEF Inv, HartType
    <2>4. Program'
        BY <1>1, <1>3, <1>5, <2>1, <2>2 DEF Inv, Program, HartType, Kind
    <2>5. Ring'
        BY <1>1, <1>2, <1>3, <1>5, <2>1, <2>2
        DEF Inv, Ring, Signalled, SameMsip, HartType, Program
    <2>6. LockInv'
        <3>1. (pc[h] \in Section \/ l \notin Section) /\ l \notin {"try", "count_sc"}
            BY <1>3, <1>5, <2>1, <2>2 DEF Inv, HartType
        <3> QED
            BY <1>1, <2>1, <3>1, LockKept
    <2>7. HtifType' /\ HtifInOrder'
        BY <1>1 DEF Inv, HostInv, HtifType, htifVars, HtifInOrder
    <2>8. Mailboxes'
        BY <1>1, <1>3, <1>5, <2>1, <2>2 DEF Inv, HostInv, Mailboxes, htifVars, HartType, Program
    <2>9. InFlight'
        <3>1. pc[h] \in Waiting => l \in Waiting
            BY <1>3, <1>5, <2>1, <2>2
        <3>2. (\E g \in Harts : pc[g] \in Waiting) => (\E g \in Harts : pc'[g] \in Waiting)
            BY <2>1, <3>1 DEF Inv, HartType
        <3> QED
            BY <1>1, <3>2 DEF Inv, HostInv, InFlight, Delivered, Awaited, htifVars
    <2> QED
        BY <1>2, <2>3, <2>4, <2>5, <2>6, <2>7, <2>8, <2>9 DEF Inv, HostInv
<1> QED
    BY <1>4, <1>5

\* Steps that only pass the time of a hart.
LEMMA Nop ==
    ASSUME Inv, NEW h \in Harts, nop(h) \/ still_waiting(h) PROVE Inv'
<1>1. /\ current_proc' = current_proc /\ config' = config
      /\ UNCHANGED <<clintVars, htifVars, reserved, in_wfi, lock, count, pc, script, val,
                     deadline, console, received, issued, commits>>
    BY DEF nop, still_waiting, Turn, hartVars
<1>2. SameMsip /\ TimersExact'
    BY <1>1, MsipUnchanged DEF Inv
<1>3. HostInv'
    BY <1>1, HostStill
<1> QED
    BY <1>1, <1>2, <1>3
    DEF Inv, HartType, Program, Kind, Ring, Signalled, SameMsip, LockInv, Exclusive,
        LockHeld, Reservations

\* A hart falls asleep at its wfi only.
LEMMA Wfi ==
    ASSUME Inv, NEW h \in Harts, wfi(h) PROVE Inv'
<1>1. /\ pc[h] \in {"wait_timer", "wait_ipi"} /\ current_proc' = current_proc
      /\ config' = config /\ in_wfi' = [in_wfi EXCEPT ![h] = TRUE]
      /\ pc' = [pc EXCEPT ![h] = IF pc[h] = "wait_timer" THEN "woken_timer" ELSE "woken_ipi"]
      /\ UNCHANGED <<clintVars, htifVars, reserved, lock, count, script, val, deadline,
                     console, received, issued, commits, nops>>
    BY DEF wfi, Turn, Goto
<1>2. SameMsip /\ TimersExact'
    BY <1>1, MsipUnchanged DEF Inv
<1>3. PICK l \in {"woken_timer", "woken_ipi"} :
          pc' = [pc EXCEPT ![h] = l] /\ (l = "woken_ipi" => pc[h] = "wait_ipi")
    BY <1>1
<1> USE DEF Section, Sending, Waiting, Stashes
<1>4. HartType'
    BY <1>1, <1>3 DEF Inv, HartType, Labels
<1>5. Program'
    BY <1>1, <1>3 DEF Inv, Program, HartType, Kind
<1>6. Ring'
    BY <1>1, <1>2, <1>3 DEF Inv, Ring, Signalled, SameMsip, HartType
<1>7. LockInv'
    BY <1>1, <1>3, LockKept
<1>8. HostInv'
    BY <1>1, <1>3, HostKept
<1> QED
    BY <1>2, <1>4, <1>5, <1>6, <1>7, <1>8 DEF Inv

\* A hart that sleeps for the software interrupt wakes when it is signalled.
LEMMA Wake ==
    ASSUME Inv, NEW h \in Harts, wake(h) PROVE Inv'
<1>1. /\ in_wfi[h] /\ mip[h] \cap Wakes(h) # {} /\ in_wfi' = [in_wfi EXCEPT ![h] = FALSE]
      /\ UNCHANGED <<clintVars, htifVars, simVars, reserved, lock, count, pc, script, val,
                     deadline, console, received, issued, commits, nops>>
    BY DEF wake
<1>2. SameMsip /\ TimersExact'
    BY <1>1, MsipUnchanged DEF Inv
<1>3. HostInv'
    BY <1>1, HostStill
<1>4. pc[h] = "woken_ipi" => "MSIP" \in mip[h]
    BY <1>1 DEF Wakes
<1>5. Ring'
    BY <1>1, <1>2, <1>4 DEF Inv, Ring, Signalled, SameMsip, HartType
<1> QED
    BY <1>1, <1>2, <1>3, <1>5
    DEF Inv, HartType, Program, Kind, LockInv, Exclusive, LockHeld, Reservations, simVars

\* Only the hart in the section posts, so the mailbox it saw empty still is,
\* and no reply is on its way.
LEMMA Post ==
    ASSUME Inv, NEW h \in Harts, post(h) PROVE Inv'
<1> DEFINE l == CASE Kind(h) = "test" -> "done" [] Waits(Kind(h)) -> "reply"
                  [] OTHER -> "release"
           n == Len(issued) + 1
           m == [dev |-> Dev(Kind(h)), cmd |-> Kind(h), id |-> n]
<1>1. /\ pc[h] = "post" /\ ~in_wfi[h] /\ current_proc' = current_proc /\ config' = config
      /\ pc' = [pc EXCEPT ![h] = l] /\ tohost' = m /\ issued' = Append(issued, n)
      /\ UNCHANGED <<clintVars, fromhost, fromhost_queue, pending_reads, magicmem, handled,
                     answered, reserved, in_wfi, lock, count, script, val, deadline,
                     received, commits>>
    BY DEF post, At, Turn, Goto
<1>2. SameMsip /\ TimersExact'
    BY <1>1, MsipUnchanged DEF Inv
<1>3. Kind(h) \in Commands \cup {"test"} /\ (Kind(h) = "test" <=> script[h] = <<>>)
    <2>1. script[h] \in Seq(Commands) /\ "test" \notin Commands
        BY DEF Inv, HartType, Commands
    <2>2. script[h] # <<>> => Head(script[h]) \in Commands
        BY <2>1
    <2> QED
        BY <2>1, <2>2 DEF Kind
<1>4. /\ l \in {"done", "reply", "release"} /\ (l = "done" <=> script[h] = <<>>)
      /\ l = "reply" <=> Waits(Kind(h))
    BY <1>3 DEF Waits
<1>5. n \in Nat \ {0} /\ issued \in Seq(Nat) /\ handled \in Seq(Nat)
    BY DEF Inv, HostInv, HtifType
<1>6. m \in Message /\ m # Empty
    BY <1>3, <1>5 DEF Message, Dev, Empty, Commands
<1>7. m.cmd = Kind(h) /\ m.id = n
    OBVIOUS
<1> HIDE DEF l, m
<1> USE DEF Section, Sending, Waiting, Stashes
<1>8. HartType'
    BY <1>1, <1>4 DEF Inv, HartType, Labels
<1>9. Program'
    BY <1>1, <1>4 DEF Inv, Program, HartType, Kind
<1>10. Ring'
    BY <1>1, <1>2, <1>4 DEF Inv, Ring, Signalled, SameMsip, HartType, Program
<1>11. LockInv'
    BY <1>1, <1>4, LockKept
<1>12. tohost = Empty /\ \A g \in Harts : pc[g] \in Section => g = h
    BY <1>1 DEF Inv, HostInv, Mailboxes, LockInv, Exclusive
<1>13. HtifType'
    BY <1>1, <1>5, <1>6 DEF Inv, HostInv, HtifType
<1>14. HtifInOrder'
    <2>1. issued = handled \o <<>>
        BY <1>12 DEF Inv, HostInv, HtifInOrder, IdOf
    <2>2. issued = handled
        BY <1>5, <2>1, ConcatEmptySeq
    <2>3. Append(issued, n) = handled \o <<n>>
        BY <1>5, <2>2, AppendIsConcat
    <2>4. IdOf(tohost') = <<n>>
        BY <1>1, <1>6, <1>7 DEF IdOf
    <2> QED
        BY <1>1, <2>3, <2>4 DEF Inv, HostInv, HtifInOrder, Ids, IdOf
<1>15. Mailboxes'
    BY <1>1, <1>4, <1>12 DEF Inv, HostInv, Mailboxes, HartType
<1>16. InFlight'
    <2>1. \A g \in Harts : pc[g] \notin Waiting
        BY <1>1, <1>12
    <2>2. /\ ~Waits(fromhost.cmd)
          /\ \A i \in DOMAIN fromhost_queue : ~Waits(fromhost_queue[i].cmd)
        BY <2>1 DEF Inv, HostInv, InFlight, Delivered, Awaited
    <2>3. Len(issued') = n /\ issued'[n] = n
        BY <1>1, <1>5
    <2>4. Waits(m.cmd) => pc'[h] \in Waiting
        BY <1>1, <1>4, <1>7 DEF Inv, HartType
    <2> QED
        BY <1>1, <1>7, <2>2, <2>3, <2>4 DEF Inv, HostInv, InFlight, Awaited
<1> QED
    BY <1>2, <1>8, <1>9, <1>10, <1>11, <1>13, <1>14, <1>15, <1>16 DEF Inv, HostInv

\* Taking a reply moves it from fromhost to those received.
LEMMA Take ==
    ASSUME Inv, NEW h \in Harts, take(h) PROVE Inv'
<1>1. /\ ~in_wfi[h] /\ current_proc' = current_proc /\ config' = config
      /\ \/ pc[h] = "take" /\ pc' = [pc EXCEPT ![h] = "release"]
         \/ pc[h] = "send_stash" /\ pc' = [pc EXCEPT ![h] = "send_poll"]
         \/ pc[h] = "reply_stash" /\ pc' = [pc EXCEPT ![h] = "reply"]
         \/ pc[h] = "getc_stash" /\ pc' = [pc EXCEPT ![h] = "getc"]
      /\ fromhost' = Empty /\ received' = Append(received, fromhost.id)
      /\ UNCHANGED <<clintVars, tohost, fromhost_queue, pending_reads, magicmem, handled,
                     answered, reserved, in_wfi, lock, count, script, val, deadline,
                     issued, commits>>
    BY DEF take, At, Turn, Goto
<1>2. SameMsip /\ TimersExact'
    BY <1>1, MsipUnchanged DEF Inv
<1> USE DEF Section, Sending, Waiting, Stashes
<1>3. PICK l \in {"release", "send_poll", "reply", "getc"} :
          /\ pc' = [pc EXCEPT ![h] = l]
          /\ l = "release" <=> pc[h] = "take"
          /\ l = "send_poll" <=> pc[h] = "send_stash"
          /\ l = "reply" <=> pc[h] = "reply_stash"
    BY <1>1
<1>4. pc[h] \in Stashes \cup {"take"}
    BY <1>1
<1>5. fromhost \in Message /\ fromhost # Empty
    BY <1>4 DEF Inv, HostInv, Mailboxes, HtifType
<1>6. \A g \in Harts : pc[g] \in Section => g = h
    BY <1>4 DEF Inv, LockInv, Exclusive
<1>7. HartType'
    BY <1>1, <1>3 DEF Inv, HartType, Labels
<1>8. Program'
    BY <1>1, <1>3, <1>4 DEF Inv, Program, HartType, Kind
<1>9. Ring'
    BY <1>1, <1>2, <1>3, <1>4 DEF Inv, Ring, Signalled, SameMsip, HartType, Program
<1>10. LockInv'
    BY <1>1, <1>3, <1>4, LockKept
<1>11. fromhost.id \in Nat
    BY <1>5 DEF Message
<1>12. HtifType'
    <2>1. received \in Seq(Nat)
        BY DEF Inv, HostInv, HtifType
    <2>2. Append(received, fromhost.id) \in Seq(Nat)
        BY <1>11, <2>1
    <2> QED
        BY <1>1, <2>2 DEF Inv, HostInv, HtifType
<1>13. HtifInOrder'
    <2>1. received \in Seq(Nat) /\ received' \in Seq(Nat)
        BY <1>12 DEF Inv, HostInv, HtifType
    <2>2. received \o IdOf(fromhost) = received'
        BY <1>1, <1>5, <1>11, <2>1, AppendIsConcat DEF IdOf
    <2>3. received' \o IdOf(fromhost') = received'
        BY <1>1, <2>1, ConcatEmptySeq DEF IdOf
    <2>4. (received' \o IdOf(fromhost')) \o Ids(fromhost_queue') = answered'
        BY <1>1, <2>2, <2>3 DEF Inv, HostInv, HtifInOrder, Ids
    <2>5. issued' = handled' \o IdOf(tohost')
        BY <1>1 DEF Inv, HostInv, HtifInOrder
    <2> QED
        BY <2>4, <2>5 DEF HtifInOrder, Ids, IdOf
<1>14. Mailboxes'
    BY <1>1, <1>3, <1>6 DEF Inv, HostInv, Mailboxes, HartType
<1>15. InFlight'
    <2>1. ~Waits(Empty.cmd)
        BY DEF Waits, Empty
    <2>2. CASE pc[h] = "take"
        <3>1. Waits(fromhost.cmd) /\ tohost = Empty
            BY <2>2 DEF Inv, HostInv, Mailboxes, InFlight, Delivered
        <3>2. \A i \in DOMAIN fromhost_queue : ~Waits(fromhost_queue[i].cmd)
            BY <3>1 DEF Inv, HostInv, InFlight
        <3> QED
            BY <1>1, <2>1, <3>1, <3>2 DEF Inv, HostInv, InFlight
    <2>3. CASE pc[h] # "take"
        <3>1. (\E g \in Harts : pc[g] \in Waiting) => (\E g \in Harts : pc'[g] \in Waiting)
            BY <1>3, <1>4, <2>3 DEF Inv, HartType
        <3> QED
            BY <1>1, <2>1, <3>1 DEF Inv, HostInv, InFlight, Delivered, Awaited
    <2> QED
        BY <2>2, <2>3
<1> QED
    BY <1>2, <1>7, <1>8, <1>9, <1>10, <1>12, <1>13, <1>14, <1>15 DEF Inv, HostInv

\* Setting the time.
LEMMA Boot ==
    ASSUME Inv, NEW h \in Harts, boot(h) PROVE Inv'
<1>1. /\ ~in_wfi[h] /\ current_proc' = current_proc /\ config' = config
      /\ \/ /\ pc[h] = "boot" /\ pc' = [pc EXCEPT ![h] = "boot_lo"]
            /\ store_mtime("hi", config.boot \div Half)
         \/ /\ pc[h] = "boot_lo" /\ pc' = [pc EXCEPT ![h] = "next"]
            /\ store_mtime("lo", config.boot % Half)
      /\ UNCHANGED <<htifVars, reserved, in_wfi, lock, count, script, val, deadline,
                     received, issued, commits>>
    BY DEF boot, At, Turn, Goto
<1>2. config.boot \div Half \in 0 .. Half - 1 /\ config.boot % Half \in 0 .. Half - 1
    <2>1. config.boot \in Times
        BY MachineAssumption DEF Inv, HartType
    <2> QED
        BY <2>1, DivHalf
<1>3. SameMsip /\ TimersExact'
    BY <1>1, <1>2, ClintSteps DEF Inv
<1>4. PICK l \in {"boot_lo", "next"} : pc' = [pc EXCEPT ![h] = l]
    BY <1>1
<1>5. pc[h] \in {"boot", "boot_lo"}
    BY <1>1
<1> USE DEF Section, Sending, Waiting, Stashes
<1>6. HartType'
    BY <1>1, <1>4 DEF Inv, HartType, Labels
<1>7. Program'
    BY <1>1, <1>4 DEF Inv, Program, HartType, Kind
<1>8. Ring'
    BY <1>1, <1>3, <1>4, <1>5, RingKept
<1>9. LockInv'
    BY <1>1, <1>4, LockKept
<1>10. HostInv'
    BY <1>1, <1>4, <1>5, HostKept
<1> QED
    BY <1>3, <1>6, <1>7, <1>8, <1>9, <1>10 DEF Inv

\* Arming the timer.
LEMMA Arm ==
    ASSUME Inv, NEW h \in Harts, arm(h) PROVE Inv'
<1>1. /\ ~in_wfi[h] /\ current_proc' = current_proc /\ config' = config
      /\ UNCHANGED <<htifVars, reserved, in_wfi, lock, count, script, val,
                     received, issued, commits>>
    BY DEF arm, At, Turn
<1>2. \/ /\ pc[h] = "arm" /\ pc' = [pc EXCEPT ![h] = "arm_lo"] /\ load
         /\ deadline' = [deadline EXCEPT ![h] = (mtime' + Delay) % Limit]
      \/ /\ deadline' = deadline
         /\ \/ /\ pc[h] = "arm_lo" /\ pc' = [pc EXCEPT ![h] = "arm_hi"]
               /\ store_mtimecmp(h, "lo", Half - 1)
            \/ /\ pc[h] = "arm_hi" /\ pc' = [pc EXCEPT ![h] = "arm_new"]
               /\ store_mtimecmp(h, "hi", deadline[h] \div Half)
            \/ /\ pc[h] = "arm_new"
               /\ pc' = [pc EXCEPT ![h] = IF Sstc THEN "arm_s" ELSE "wait_timer"]
               /\ store_mtimecmp(h, "lo", deadline[h] % Half)
            \/ /\ pc[h] = "arm_s" /\ pc' = [pc EXCEPT ![h] = "arm_vs"]
               /\ store_stimecmp(h, deadline[h])
            \/ /\ pc[h] = "arm_vs" /\ pc' = [pc EXCEPT ![h] = "wait_timer"]
               /\ store_vstimecmp(h, deadline[h])
    BY DEF arm, At, Goto
<1>3. /\ deadline[h] \in Times /\ Half - 1 \in 0 .. Half - 1
      /\ deadline[h] \div Half \in 0 .. Half - 1 /\ deadline[h] % Half \in 0 .. Half - 1
    <2>1. deadline[h] \in Times /\ Half \in Nat \ {0}
        BY ClintAssumption DEF Inv, HartType
    <2> QED
        BY <2>1, DivHalf
<1>4. SameMsip /\ TimersExact'
    BY <1>2, <1>3, ClintSteps, StoreStimecmp DEF Inv
<1>5. deadline' \in [Harts -> Times]
    <2>1. mtime' \in Nat /\ Limit \in Nat \ {0} /\ Delay \in Nat
        BY <1>4, ClintAssumption, MachineAssumption DEF TimersExact, ClintTypeOK, Times, Limit
    <2>2. (mtime' + Delay) % Limit \in Times
        BY <2>1, SumMod DEF Times
    <2> QED
        BY <1>2, <2>2 DEF Inv, HartType
<1>6. PICK l \in {"arm_lo", "arm_hi", "arm_new", "arm_s", "arm_vs", "wait_timer"} :
          pc' = [pc EXCEPT ![h] = l]
    BY <1>2
<1>7. pc[h] \in {"arm", "arm_lo", "arm_hi", "arm_new", "arm_s", "arm_vs"}
    BY <1>2
<1> USE DEF Section, Sending, Waiting, Stashes
<1>8. HartType'
    BY <1>1, <1>5, <1>6 DEF Inv, HartType, Labels
<1>9. Program'
    BY <1>1, <1>6 DEF Inv, Program, HartType, Kind
<1>10. Ring'
    BY <1>1, <1>4, <1>6, <1>7, RingKept
<1>11. LockInv'
    BY <1>1, <1>6, LockKept
<1>12. HostInv'
    BY <1>1, <1>6, <1>7, HostKept
<1> QED
    BY <1>4, <1>8, <1>9, <1>10, <1>11, <1>12 DEF Inv

\* The neighbour a software interrupt is sent to.
LEMMA NextHart ==
    ASSUME NEW h \in Harts
    PROVE  (h + 1) % NProcs = IF h + 1 = NProcs THEN 0 ELSE h + 1
<1>1. NProcs \in Nat \ {0} /\ h \in Nat /\ h + 1 <= NProcs
    BY MachineAssumption
<1>2. CASE h + 1 = NProcs
    BY <1>1, <1>2
<1>3. CASE h + 1 < NProcs
    BY <1>1, <1>3
<1> QED
    BY <1>1, <1>2, <1>3

\* The software interrupt goes to the next hart, or is taken.
LEMMA Interrupts ==
    ASSUME Inv, NEW h \in Harts, interrupts(h) PROVE Inv'
<1>1. /\ ~in_wfi[h] /\ current_proc' = current_proc /\ config' = config
      /\ UNCHANGED <<htifVars, reserved, in_wfi, lock, count, script, val, deadline,
                     received, issued, commits>>
    BY DEF interrupts, At, Turn
<1>2. \/ pc[h] = "woken_timer" /\ pc' = [pc EXCEPT ![h] = "next"] /\ UNCHANGED clintVars
      \/ /\ pc[h] = "ipi" /\ pc' = [pc EXCEPT ![h] = IF h = 0 THEN "wait_ipi" ELSE "done"]
         /\ store_msip((h + 1) % NProcs, TRUE)
      \/ /\ pc[h] = "woken_ipi" /\ pc' = [pc EXCEPT ![h] = IF h = 0 THEN "send" ELSE "ipi"]
         /\ store_msip(h, FALSE)
    BY DEF interrupts, At, Goto
<1> USE DEF Section, Sending, Waiting, Stashes
<1>3. CASE pc[h] = "woken_timer"
    <2>1. pc' = [pc EXCEPT ![h] = "next"] /\ SameMsip /\ TimersExact'
        BY <1>2, <1>3, MsipUnchanged DEF Inv
    <2>2. HartType'
        BY <1>1, <2>1 DEF Inv, HartType, Labels
    <2>3. Program'
        BY <1>1, <2>1 DEF Inv, Program, HartType, Kind
    <2>4. Ring'
        BY <1>1, <1>3, <2>1, RingKept
    <2>5. LockInv'
        BY <1>1, <2>1, LockKept
    <2>6. HostInv'
        BY <1>1, <1>3, <2>1, HostKept
    <2> QED
        BY <2>1, <2>2, <2>3, <2>4, <2>5, <2>6 DEF Inv
<1>4. CASE pc[h] = "ipi"
    <2> DEFINE t == (h + 1) % NProcs
    <2>1. t = (IF h + 1 = NProcs THEN 0 ELSE h + 1) /\ t \in Harts
        BY NextHart, MachineAssumption
    <2>2. store_msip(t, TRUE)
        BY <1>2, <1>4
    <2> HIDE DEF t
    <2>3. TimersExact' /\ \A g \in Harts : g # t => ("MSIP" \in mip'[g] <=> "MSIP" \in mip[g])
        BY <2>1, <2>2, StoreMsip DEF Inv
    <2>4. PICK l \in {"wait_ipi", "done"} :
              pc' = [pc EXCEPT ![h] = l] /\ (l = "done" <=> h # 0)
        BY <1>2, <1>4
    <2>5. HartType'
        BY <1>1, <2>4 DEF Inv, HartType, Labels
    <2>6. Program'
        BY <1>1, <1>4, <2>4 DEF Inv, Program, HartType, Kind
    <2>7. Ring'
        <3> SUFFICES ASSUME NEW k \in Harts, NEW g \in Harts, Signalled(k)', g # 0,
                            k = 0 \/ g < k
                     PROVE  pc'[g] = "done"
            BY DEF Ring
        <3>1. CASE k # t
            <4>1. CASE k = h
                <5>1. Signalled(h) \/ h = 0
                    BY <1>4 DEF Signalled
                <5>2. h = 0 => Signalled(h)
                    BY <1>1, <2>3, <2>4, <3>1, <4>1 DEF Signalled, Inv, HartType
                <5> QED
                    BY <1>4, <2>4, <4>1, <5>1, <5>2 DEF Inv, HartType, Ring
            <4>2. CASE k # h
                <5>1. Signalled(k)
                    BY <1>1, <2>3, <2>4, <3>1, <4>2 DEF Signalled, Inv, HartType
                <5> QED
                    BY <1>4, <2>4, <5>1 DEF Inv, HartType, Ring
            <4> QED
                BY <4>1, <4>2
        <3>2. CASE k = t
            <4>1. h # 0 => Signalled(h)
                BY <1>4 DEF Signalled
            <4>2. g = h \/ (h # 0 /\ g < h)
                BY <2>1, <3>2, MachineAssumption
            <4> QED
                BY <2>4, <4>1, <4>2 DEF Inv, HartType, Ring
        <3> QED
            BY <3>1, <3>2
    <2>8. LockInv'
        BY <1>1, <2>4, LockKept
    <2>9. HostInv'
        BY <1>1, <1>4, <2>4, HostKept
    <2> QED
        BY <2>3, <2>5, <2>6, <2>7, <2>8, <2>9 DEF Inv
<1>5. CASE pc[h] = "woken_ipi"
    <2>1. store_msip(h, FALSE)
        BY <1>2, <1>5
    <2>2. TimersExact' /\ \A g \in Harts : "MSIP" \in mip'[g] => "MSIP" \in mip[g]
        BY <2>1, StoreMsip DEF Inv
    <2>3. PICK l \in {"send", "ipi"} :
              pc' = [pc EXCEPT ![h] = l] /\ (l = "send" <=> h = 0)
        BY <1>2, <1>5
    <2>4. Signalled(h) /\ script[h] = <<>>
        BY <1>1, <1>5 DEF Signalled, Inv, Program
    <2>5. HartType'
        BY <1>1, <2>3 DEF Inv, HartType, Labels
    <2>6. Program'
        BY <1>1, <2>3, <2>4 DEF Inv, Program, HartType, Kind
    <2>7. Ring'
        BY <1>1, <1>5, <2>2, <2>3, <2>4 DEF Inv, Ring, Signalled, HartType
    <2>8. Exclusive'
        <3>1. h = 0 => \A g \in Harts : g # 0 => pc[g] = "done"
            BY <2>4 DEF Inv, Ring
        <3> QED
            BY <2>3, <3>1 DEF Inv, LockInv, Exclusive, HartType
    <2>9. LockHeld' /\ Reservations' /\ (count = commits)'
        BY <1>1, <2>3, <2>4 DEF Inv, LockInv, LockHeld, Reservations, HartType
    <2>10. HostInv'
        BY <1>1, <1>5, <2>3, HostKept
    <2> QED
        BY <2>2, <2>5, <2>6, <2>7, <2>8, <2>9, <2>10 DEF Inv, LockInv
<1> QED
    BY <1>2, <1>3, <1>4, <1>5

-----------------------------------------------------------------------------
(* The simulator and the host                                              *)

\* The end of a slice yields the one reservation there is.
LEMMA EndOfSlice ==
    ASSUME Inv, end_of_slice PROVE Inv'
<1>1. /\ reserved' = [reserved EXCEPT ![current_proc] = NoAddr] /\ config' = config
      /\ \/ current_proc + 1 = NProcs /\ current_proc' = 0 /\ device_tick(1)
         \/ /\ current_proc + 1 # NProcs /\ current_proc' = current_proc + 1
            /\ UNCHANGED clintVars
      /\ UNCHANGED <<htifVars, in_wfi, lock, count, pc, script, val, deadline,
                     received, issued, commits>>
    BY DEF end_of_slice
<1>2. SameMsip /\ TimersExact'
    BY <1>1, ClintSteps, MsipUnchanged DEF Inv
<1>3. HartType'
    <2>1. current_proc' \in Harts
        BY <1>1, MachineAssumption DEF Inv, HartType
    <2> QED
        BY <1>1, <2>1 DEF Inv, HartType, NoAddr
<1>4. \A h \in Harts : reserved'[h] = NoAddr
    BY <1>1 DEF Inv, LockInv, Reservations, HartType
<1>5. LockInv'
    BY <1>1, <1>4 DEF Inv, LockInv, Exclusive, LockHeld, Reservations, NoAddr
<1>6. HostInv'
    BY <1>1, HostStill
<1> QED
    BY <1>1, <1>2, <1>3, <1>5, <1>6 DEF Inv, Program, Kind, Ring, Signalled, SameMsip

-----------------------------------------------------------------------------
(* htif_t::run                                                             *)

\* At most one message of f and q is waited for, and such a message is in good.
OneReply(f, q, good) ==
    /\ Waits(f.cmd) => f \in good
    /\ \A i \in DOMAIN q : Waits(q[i].cmd) =>
          /\ q[i] \in good /\ ~Waits(f.cmd)
          /\ \A j \in DOMAIN q : Waits(q[j].cmd) => i = j

\* The elements of a concatenation.
LEMMA ConcatNat ==
    ASSUME NEW a \in Seq(Nat), NEW b \in Seq(Nat)
    PROVE  /\ a \o b \in Seq(Nat) /\ Len(a \o b) = Len(a) + Len(b)
           /\ Len(a) \in Nat /\ Len(b) \in Nat
           /\ \A i \in 1 .. Len(a) + Len(b) :
                 (a \o b)[i] = IF i <= Len(a) THEN a[i] ELSE b[i - Len(a)]
BY ConcatProperties

\* Concatenation is associative.
LEMMA Concat3 ==
    ASSUME NEW a \in Seq(Nat), NEW b \in Seq(Nat), NEW c \in Seq(Nat)
    PROVE  a \o (b \o c) = (a \o b) \o c
<1> DEFINE x == b \o c
           y == a \o b
           u == a \o x
           v == y \o c
<1>1. /\ x \in Seq(Nat) /\ Len(x) = Len(b) + Len(c)
      /\ Len(b) \in Nat /\ Len(c) \in Nat
      /\ \A i \in 1 .. Len(b) + Len(c) : x[i] = IF i <= Len(b) THEN b[i] ELSE c[i - Len(b)]
    BY ConcatNat
<1>2. /\ y \in Seq(Nat) /\ Len(y) = Len(a) + Len(b) /\ Len(a) \in Nat
      /\ \A i \in 1 .. Len(a) + Len(b) : y[i] = IF i <= Len(a) THEN a[i] ELSE b[i - Len(a)]
    BY ConcatNat
<1> HIDE DEF x, y
<1>3. /\ u \in Seq(Nat) /\ Len(u) = Len(a) + Len(x)
      /\ \A i \in 1 .. Len(a) + Len(x) : u[i] = IF i <= Len(a) THEN a[i] ELSE x[i - Len(a)]
    BY ONLY a \in Seq(Nat), <1>1, ConcatNat
<1>4. /\ v \in Seq(Nat) /\ Len(v) = Len(y) + Len(c)
      /\ \A i \in 1 .. Len(y) + Len(c) : v[i] = IF i <= Len(y) THEN y[i] ELSE c[i - Len(y)]
    BY ONLY c \in Seq(Nat), <1>2, ConcatNat
<1> HIDE DEF u, v
<1>5. Len(u) = Len(v)
    BY <1>1, <1>2, <1>3, <1>4
<1>6. ASSUME NEW i \in 1 .. Len(u) PROVE u[i] = v[i]
    <2>1. i \in 1 .. Len(a) + Len(x) /\ i \in 1 .. Len(y) + Len(c) /\ i \in Int
        BY <1>1, <1>2, <1>3, <1>4
    <2>2. CASE i <= Len(a)
        <3>1. u[i] = a[i]
            BY <1>3, <2>1, <2>2
        <3>2. i \in 1 .. Len(a) + Len(b) /\ i <= Len(y)
            BY <1>1, <1>2, <2>1, <2>2
        <3>3. v[i] = y[i] /\ y[i] = a[i]
            BY <1>2, <1>4, <2>1, <2>2, <3>2
        <3> QED
            BY <3>1, <3>3
    <2>3. CASE ~(i <= Len(a))
        <3> DEFINE k == i - Len(a)
        <3>1. u[i] = x[k] /\ k \in 1 .. Len(b) + Len(c) /\ i = k + Len(a)
            BY <1>1, <1>2, <1>3, <2>1, <2>3
        <3>2. v[i] = IF k <= Len(b) THEN b[k] ELSE c[k - Len(b)]
            <4>1. CASE i <= Len(y)
                <5>1. i \in 1 .. Len(a) + Len(b) /\ k <= Len(b)
                    BY <1>1, <1>2, <2>1, <2>3, <4>1
                <5> QED
                    BY <1>2, <1>4, <2>1, <2>3, <4>1, <5>1
            <4>2. CASE ~(i <= Len(y))
                <5>1. ~(k <= Len(b)) /\ i - Len(y) = k - Len(b)
                    BY <1>1, <1>2, <2>1, <2>3, <4>2
                <5>2. v[i] = c[i - Len(y)]
                    BY <1>4, <2>1, <4>2
                <5> QED
                    BY <5>1, <5>2
            <4> QED
                BY <4>1, <4>2
        <3> QED
            BY <1>1, <3>1, <3>2
    <2> QED
        BY <2>2, <2>3
<1>7. u = v
    BY <1>3, <1>4, <1>5, <1>6, SeqEqual
<1> QED
    BY <1>7 DEF u, v, x, y

\* A function on 1 .. n is a sequence.
LEMMA NatSeq ==
    ASSUME NEW n \in Nat, NEW f \in [1 .. n -> Nat]
    PROVE  f \in Seq(Nat) /\ Len(f) = n
OBVIOUS

\* The ids of a queue.
LEMMA IdsOf ==
    ASSUME NEW q \in Seq(Message)
    PROVE  /\ Ids(q) \in Seq(Nat)
           /\ \A m \in Message : Ids(Append(q, m)) = Append(Ids(q), m.id)
           /\ q # <<>> => Ids(q) = <<Head(q).id>> \o Ids(Tail(q))
<1>0. /\ Len(q) \in Nat /\ DOMAIN q = 1 .. Len(q)
      /\ \A i \in 1 .. Len(q) : q[i].id \in Nat
    <2>1. \A m \in Message : m.id \in Nat
        BY DEF Message
    <2>2. /\ Len(q) \in Nat /\ DOMAIN q = 1 .. Len(q)
          /\ \A i \in 1 .. Len(q) : q[i] \in Message
        OBVIOUS
    <2> QED
        BY <2>1, <2>2
<1>1. Ids(q) = [i \in 1 .. Len(q) |-> q[i].id]
    BY <1>0 DEF Ids
<1>2. Ids(q) \in Seq(Nat) /\ Len(Ids(q)) = Len(q)
    BY <1>0, <1>1
<1>3. ASSUME NEW m \in Message PROVE Ids(Append(q, m)) = Append(Ids(q), m.id)
    <2>1. Append(q, m) \in Seq(Message) /\ Len(Append(q, m)) = Len(q) + 1
          /\ m.id \in Nat
        BY DEF Message
    <2>2. Ids(Append(q, m)) = [i \in 1 .. Len(q) + 1 |-> Append(q, m)[i].id]
        BY <1>0, <2>1 DEF Ids
    <2>3. Append(Ids(q), m.id) = [i \in 1 .. Len(q) + 1 |->
                                     IF i = Len(q) + 1 THEN m.id ELSE Ids(q)[i]]
        BY <1>2, <2>1
    <2>4. \A i \in 1 .. Len(q) + 1 :
              Append(q, m)[i].id = IF i = Len(q) + 1 THEN m.id ELSE Ids(q)[i]
        BY <1>0, <1>1
    <2> QED
        BY <2>2, <2>3, <2>4
<1>4. ASSUME q # <<>> PROVE Ids(q) = <<Head(q).id>> \o Ids(Tail(q))
    <2>1. /\ Tail(q) \in Seq(Message) /\ Len(Tail(q)) = Len(q) - 1
          /\ \A i \in 1 .. Len(q) - 1 : Tail(q)[i] = q[i + 1]
          /\ Head(q) = q[1] /\ Head(q).id \in Nat /\ Len(q) >= 1
        BY <1>0, <1>4
    <2> DEFINE t == Ids(Tail(q))
    <2>2. t = [i \in 1 .. Len(q) - 1 |-> q[i + 1].id]
        BY <1>0, <2>1 DEF Ids
    <2>3. t \in Seq(Nat) /\ Len(t) = Len(q) - 1
        <3>1. Len(q) - 1 \in Nat /\ \A i \in 1 .. Len(q) - 1 : i + 1 \in 1 .. Len(q)
            BY <1>0, <2>1
        <3>2. t \in [1 .. Len(q) - 1 -> Nat]
            BY <1>0, <2>2, <3>1
        <3> QED
            BY <3>1, <3>2, NatSeq
    <2>4. \A i \in 1 .. Len(q) - 1 : t[i] = q[i + 1].id
        BY <2>2
    <2> HIDE DEF t
    <2> DEFINE r == <<Head(q).id>> \o t
    <2>5. <<Head(q).id>> \in Seq(Nat) /\ Len(<<Head(q).id>>) = 1
        BY <2>1
    <2>6. r \in Seq(Nat) /\ Len(r) = 1 + (Len(q) - 1)
        BY <2>3, <2>5, ConcatProperties
    <2>7. \A i \in 1 .. Len(q) : r[i] = q[i].id
        BY <1>0, <2>1, <2>3, <2>4
    <2> HIDE DEF r
    <2>8. Ids(q) = r
        BY <1>0, <1>1, <1>2, <2>6, <2>7, SeqEqual
    <2> QED
        BY <2>8 DEF r, t
<1> QED
    BY <1>2, <1>3, <1>4

\* The end of a round keeps all replies, in order: a console read that is
\* answered comes last, and one reply at most moves into an empty fromhost.
LEMMA FinishRound ==
    ASSUME NEW queue \in Seq(Message), NEW reads \in Seq(Message), NEW out \in Seq(Nat),
           NEW good, received \in Seq(Nat), fromhost \in Message \cup {Empty},
           received \o IdOf(fromhost) \o Ids(queue) = out,
           \A i \in DOMAIN reads : reads[i].cmd = "read",
           OneReply(fromhost, queue, good), finish_round(queue, reads, out)
    PROVE  /\ fromhost' \in Message \cup {Empty} /\ fromhost_queue' \in Seq(Message)
           /\ pending_reads' \in Seq(Message) /\ answered' \in Seq(Nat)
           /\ received \o IdOf(fromhost') \o Ids(fromhost_queue') = answered'
           /\ \A i \in DOMAIN pending_reads' : pending_reads'[i].cmd = "read"
           /\ OneReply(fromhost', fromhost_queue', good)
           /\ fromhost # Empty => fromhost' = fromhost
<1> DEFINE key     == reads # <<>> /\ keys > 0
           q       == IF key THEN Append(queue, Head(reads)) ELSE queue
           deliver == q # <<>> /\ fromhost = Empty
           all     == out \o (IF key THEN <<Head(reads).id>> ELSE <<>>)
<1>1. /\ pending_reads' = IF key THEN Tail(reads) ELSE reads
      /\ answered' = all
      /\ fromhost' = IF deliver THEN Head(q) ELSE fromhost
      /\ fromhost_queue' = IF deliver THEN Tail(q) ELSE q
    BY DEF finish_round
<1>2. reads # <<>> => /\ Head(reads) \in Message /\ Head(reads).cmd = "read"
                      /\ Tail(reads) \in Seq(Message)
                      /\ \A i \in DOMAIN Tail(reads) : Tail(reads)[i].cmd = "read"
    OBVIOUS
<1>3. /\ pending_reads' \in Seq(Message)
      /\ \A i \in DOMAIN pending_reads' : pending_reads'[i].cmd = "read"
    BY <1>1, <1>2
<1>4. q \in Seq(Message)
    BY <1>2
<1>5. OneReply(fromhost, q, good)
    <2>1. CASE key
        <3>1. /\ q = Append(queue, Head(reads)) /\ ~Waits(Head(reads).cmd)
              /\ Head(reads) \in Message
            BY <1>2, <2>1 DEF Waits
        <3>2. /\ DOMAIN q = 1 .. Len(queue) + 1 /\ q[Len(queue) + 1] = Head(reads)
              /\ \A i \in 1 .. Len(queue) : q[i] = queue[i]
              /\ DOMAIN queue = 1 .. Len(queue) /\ Len(queue) \in Nat
            BY <3>1
        <3> HIDE DEF q
        <3>3. \A i \in DOMAIN q : i # Len(queue) + 1 => i \in DOMAIN queue /\ q[i] = queue[i]
            BY <3>2
        <3>4. \A i \in DOMAIN q : Waits(q[i].cmd) => i \in DOMAIN queue /\ q[i] = queue[i]
            BY <3>1, <3>2, <3>3
        <3> QED
            BY <3>4 DEF OneReply
    <2> QED
        BY <2>1
<1>6. received \o IdOf(fromhost) \o Ids(q) = all /\ all \in Seq(Nat)
    <2>1. IdOf(fromhost) \in Seq(Nat)
        BY DEF IdOf, Message
    <2>2. received \o IdOf(fromhost) \in Seq(Nat)
        BY <2>1
    <2>3. CASE key
        <3>1. Head(reads).id \in Nat /\ <<Head(reads).id>> \in Seq(Nat)
              /\ Head(reads) \in Message
            BY <1>2, <2>3 DEF Message
        <3>2. Ids(queue) \in Seq(Nat) /\ Ids(q) = Ids(queue) \o <<Head(reads).id>>
            BY <2>3, <3>1, IdsOf, AppendIsConcat
        <3>3. (received \o IdOf(fromhost)) \o Ids(q)
              = ((received \o IdOf(fromhost)) \o Ids(queue)) \o <<Head(reads).id>>
            <4> DEFINE a == received \o IdOf(fromhost)
                       b == Ids(queue)
                       c == <<Head(reads).id>>
            <4>1. a \in Seq(Nat) /\ b \in Seq(Nat) /\ c \in Seq(Nat) /\ Ids(q) = b \o c
                BY <2>2, <3>1, <3>2
            <4> HIDE DEF a, b, c
            <4>2. a \o (b \o c) = (a \o b) \o c
                BY <4>1, Concat3
            <4> QED
                BY <4>1, <4>2 DEF a, b, c
        <3>4. out \o <<Head(reads).id>> \in Seq(Nat)
            BY <3>1
        <3> QED
            BY <2>3, <3>3, <3>4
    <2>4. CASE ~key
        BY <2>4, ConcatEmptySeq
    <2> QED
        BY <2>3, <2>4
<1> HIDE DEF q, key, all
<1>7. CASE ~deliver
    BY <1>1, <1>3, <1>4, <1>5, <1>6, <1>7
<1>8. CASE deliver
    <2>1. /\ fromhost' = Head(q) /\ fromhost_queue' = Tail(q) /\ fromhost = Empty /\ q # <<>>
          /\ answered' = all
        BY <1>1, <1>8
    <2>2. /\ Head(q) \in Message /\ Head(q) = q[1] /\ Tail(q) \in Seq(Message)
          /\ DOMAIN Tail(q) = 1 .. Len(q) - 1 /\ DOMAIN q = 1 .. Len(q) /\ Len(q) \in Nat
          /\ Len(q) >= 1
          /\ \A i \in 1 .. Len(q) - 1 : Tail(q)[i] = q[i + 1]
        BY <1>4, <2>1
    <2>3. OneReply(fromhost', fromhost_queue', good)
        <3>1. \A i \in DOMAIN Tail(q) : i + 1 \in DOMAIN q /\ Tail(q)[i] = q[i + 1] /\ i + 1 # 1
              /\ i \in Nat
            BY <2>2
        <3>2. 1 \in DOMAIN q
            BY <2>2
        <3>3. Waits(Head(q).cmd) => Head(q) \in good
            BY <1>5, <2>2, <3>2 DEF OneReply
        <3>4. ASSUME NEW i \in DOMAIN Tail(q), Waits(Tail(q)[i].cmd)
              PROVE  /\ Tail(q)[i] \in good /\ ~Waits(Head(q).cmd)
                     /\ \A j \in DOMAIN Tail(q) : Waits(Tail(q)[j].cmd) => i = j
            <4>1. Tail(q)[i] \in good /\ ~Waits(Head(q).cmd)
                BY <1>5, <2>2, <3>1, <3>2, <3>4 DEF OneReply
            <4>2. ASSUME NEW j \in DOMAIN Tail(q), Waits(Tail(q)[j].cmd) PROVE i = j
                <5>1. i + 1 = j + 1
                    BY <1>5, <3>1, <3>4, <4>2 DEF OneReply
                <5> QED
                    BY <3>1, <5>1
            <4> QED
                BY <4>1, <4>2
        <3> QED
            BY <2>1, <3>3, <3>4 DEF OneReply
    <2>4. received \o IdOf(fromhost') \o Ids(fromhost_queue') = answered'
        <3>1. IdOf(fromhost) = <<>> /\ Head(q) # Empty /\ IdOf(fromhost') = <<Head(q).id>>
            BY <2>1, <2>2 DEF IdOf, Message, Empty
        <3>2. received \o IdOf(fromhost) = received
            BY <3>1, ConcatEmptySeq
        <3>3. <<Head(q).id>> \in Seq(Nat) /\ Ids(Tail(q)) \in Seq(Nat)
            <4>1. Head(q).id \in Nat
                BY <2>2 DEF Message
            <4>2. Ids(Tail(q)) \in Seq(Nat)
                BY <2>2, IdsOf
            <4> QED
                BY <4>1, <4>2
        <3>4. Ids(q) = <<Head(q).id>> \o Ids(Tail(q))
            BY <1>4, <2>1, IdsOf
        <3>5. received \o Ids(q) = (received \o <<Head(q).id>>) \o Ids(Tail(q))
            <4> DEFINE b == <<Head(q).id>>
                       c == Ids(Tail(q))
            <4>1. b \in Seq(Nat) /\ c \in Seq(Nat) /\ Ids(q) = b \o c
                BY <3>3, <3>4
            <4> HIDE DEF b, c
            <4>2. received \o (b \o c) = (received \o b) \o c
                BY <4>1, Concat3
            <4> QED
                BY <4>1, <4>2 DEF b, c
        <3> QED
            BY <1>6, <2>1, <3>1, <3>2, <3>5
    <2> QED
        BY <1>3, <1>6, <2>1, <2>2, <2>3, <2>4
<1> QED
    BY <1>7, <1>8

\* What a round leaves alone: everything but the mailboxes and their queues.
HostStep == UNCHANGED <<clintVars, config, current_proc, current_step, hartVars>>

\* A round of the host keeps what is about the harts and the CLINT.
LEMMA HostStepKept ==
    ASSUME Inv, HostStep
    PROVE  HartType' /\ TimersExact' /\ Program' /\ Ring' /\ LockInv'
<1>1. SameMsip /\ TimersExact'
    BY MsipUnchanged DEF Inv, HostStep
<1> QED
    BY <1>1
    DEF Inv, HartType, Program, Kind, Ring, Signalled, SameMsip, LockInv, Exclusive,
        LockHeld, Reservations, HostStep, hartVars

\* The replies that are waited for, as InFlight has them.
LEMMA InFlightReplies ==
    ASSUME HtifType
    PROVE  LET good == {m \in Message : Delivered(m)}
           IN  /\ InFlight => OneReply(fromhost, fromhost_queue, good)
               /\ OneReply(fromhost, fromhost_queue, good) =>
                     /\ Waits(fromhost.cmd) => Delivered(fromhost)
                     /\ \A i \in DOMAIN fromhost_queue : Waits(fromhost_queue[i].cmd) =>
                           /\ Delivered(fromhost_queue[i]) /\ ~Waits(fromhost.cmd)
                           /\ \A j \in DOMAIN fromhost_queue :
                                 Waits(fromhost_queue[j].cmd) => i = j
<1>1. Waits(fromhost.cmd) => fromhost \in Message
    BY DEF HtifType, Waits, Empty
<1>2. \A i \in DOMAIN fromhost_queue : fromhost_queue[i] \in Message
    BY DEF HtifType
<1> HIDE DEF Delivered
<1> QED
    BY <1>1, <1>2 DEF OneReply, InFlight

\* idle() starts, a signal comes, someone types, or the run ends.
LEMMA HostIdle ==
    ASSUME Inv, HostStep,
           UNCHANGED <<tohost, fromhost, fromhost_queue, pending_reads, magicmem, handled,
                       answered>>
    PROVE  Inv'
<1>1. HostInv'
    BY DEF Inv, HostInv, HtifType, HtifInOrder, Mailboxes, InFlight, Delivered, Awaited,
           HostStep, hartVars
<1> QED
    BY <1>1, HostStepKept DEF Inv

\* idle() returns: the mailboxes are as the target has left them.
LEMMA HostReturn ==
    ASSUME Inv, HostStep, host_idle_return PROVE Inv'
<1>1. /\ finish_round(fromhost_queue, pending_reads, answered)
      /\ UNCHANGED <<tohost, magicmem, handled, issued, received, pc>>
    BY DEF host_idle_return, HostStep, hartVars
<1> DEFINE good == {m \in Message : Delivered(m)}
<1>2. HtifType /\ OneReply(fromhost, fromhost_queue, good)
    BY InFlightReplies DEF Inv, HostInv
<1>3. good = {m \in Message : Delivered(m)'}
    BY <1>1 DEF Delivered, Awaited
<1> HIDE DEF good
<1>4. /\ fromhost' \in Message \cup {Empty} /\ fromhost_queue' \in Seq(Message)
      /\ pending_reads' \in Seq(Message) /\ answered' \in Seq(Nat)
      /\ received \o IdOf(fromhost') \o Ids(fromhost_queue') = answered'
      /\ \A i \in DOMAIN pending_reads' : pending_reads'[i].cmd = "read"
      /\ OneReply(fromhost', fromhost_queue', good)
      /\ fromhost # Empty => fromhost' = fromhost
    <2>1. /\ fromhost_queue \in Seq(Message) /\ pending_reads \in Seq(Message)
          /\ answered \in Seq(Nat) /\ received \in Seq(Nat)
          /\ fromhost \in Message \cup {Empty}
        BY <1>2 DEF HtifType
    <2>2. /\ received \o IdOf(fromhost) \o Ids(fromhost_queue) = answered
          /\ \A i \in DOMAIN pending_reads : pending_reads[i].cmd = "read"
        BY DEF Inv, HostInv, HtifInOrder, InFlight
    <2> QED
        BY <1>1, <1>2, <2>1, <2>2, FinishRound
<1>5. HtifType'
    BY <1>1, <1>4 DEF Inv, HostInv, HtifType
<1>6. HtifInOrder'
    BY <1>1, <1>4 DEF Inv, HostInv, HtifInOrder, Ids, IdOf
<1>7. Mailboxes'
    BY <1>1, <1>4 DEF Inv, HostInv, Mailboxes
<1>8. InFlight'
    <2>1. /\ (Waits(fromhost.cmd) => Delivered(fromhost))'
          /\ (\A i \in DOMAIN fromhost_queue : Waits(fromhost_queue[i].cmd) =>
                 /\ Delivered(fromhost_queue[i]) /\ ~Waits(fromhost.cmd)
                 /\ \A j \in DOMAIN fromhost_queue : Waits(fromhost_queue[j].cmd) => i = j)'
        BY <1>3, <1>4, <1>5, InFlightReplies DEF OneReply
    <2> QED
        BY <1>1, <1>4, <2>1 DEF Inv, HostInv, InFlight, Awaited
<1> QED
    BY <1>5, <1>6, <1>7, <1>8, HostStepKept DEF Inv, HostInv

\* A command is handled: nobody else has posted since, so a reply that is
\* waited for is the only one.
LEMMA HostCommand ==
    ASSUME Inv, HostStep, host_command PROVE Inv'
<1> DEFINE queue == IF RepliesAtOnce(tohost) THEN Append(fromhost_queue, tohost)
                                             ELSE fromhost_queue
           reads == IF tohost.cmd = "read" THEN Append(pending_reads, tohost)
                                           ELSE pending_reads
           out   == IF RepliesAtOnce(tohost) THEN Append(answered, tohost.id) ELSE answered
           good  == {m \in Message : Delivered(m)'}
<1>1. /\ tohost # Empty /\ tohost' = Empty /\ handled' = Append(handled, tohost.id)
      /\ magicmem' = IF tohost.cmd \in {"call", "exit"} THEN tohost.id ELSE magicmem
      /\ finish_round(queue, reads, out)
      /\ UNCHANGED <<issued, received, pc>>
    BY DEF host_command, HostStep, hartVars
<1>2. /\ tohost \in Message /\ tohost.id \in Nat
      /\ fromhost_queue \in Seq(Message) /\ pending_reads \in Seq(Message)
      /\ answered \in Seq(Nat) /\ received \in Seq(Nat) /\ handled \in Seq(Nat)
      /\ fromhost \in Message \cup {Empty}
    BY <1>1 DEF Inv, HostInv, HtifType, Message
<1>3. /\ ~Waits(fromhost.cmd)
      /\ \A i \in DOMAIN fromhost_queue : ~Waits(fromhost_queue[i].cmd)
    BY <1>1 DEF Inv, HostInv, InFlight, Delivered
<1>4. Waits(tohost.cmd) => tohost \in good
    BY <1>1, <1>2 DEF Inv, HostInv, InFlight, Delivered, Awaited
<1> HIDE DEF good
<1>5. OneReply(fromhost, queue, good)
    <2>1. CASE RepliesAtOnce(tohost)
        <3>1. /\ queue = Append(fromhost_queue, tohost)
              /\ DOMAIN queue = 1 .. Len(fromhost_queue) + 1
              /\ queue[Len(fromhost_queue) + 1] = tohost
              /\ \A i \in 1 .. Len(fromhost_queue) : queue[i] = fromhost_queue[i]
              /\ DOMAIN fromhost_queue = 1 .. Len(fromhost_queue) /\ Len(fromhost_queue) \in Nat
            BY <1>2, <2>1
        <3> HIDE DEF queue
        <3>2. \A i \in DOMAIN queue : i # Len(fromhost_queue) + 1 =>
                  i \in DOMAIN fromhost_queue /\ queue[i] = fromhost_queue[i]
            BY <3>1
        <3>3. \A i \in DOMAIN queue : Waits(queue[i].cmd) => i = Len(fromhost_queue) + 1
            BY <1>3, <3>2
        <3> QED
            BY <1>3, <1>4, <3>1, <3>3 DEF OneReply
    <2> QED
        BY <1>3, <2>1 DEF OneReply
<1>6. queue \in Seq(Message) /\ reads \in Seq(Message) /\ out \in Seq(Nat)
    BY <1>2
<1>7. \A i \in DOMAIN reads : reads[i].cmd = "read"
    <2>1. \A i \in DOMAIN pending_reads : pending_reads[i].cmd = "read"
        BY DEF Inv, HostInv, InFlight
    <2> QED
        BY <1>2, <2>1
<1>8. received \o IdOf(fromhost) \o Ids(queue) = out
    <2> DEFINE a == received \o IdOf(fromhost)
               b == Ids(fromhost_queue)
               c == <<tohost.id>>
    <2>1. a \o b = answered
        BY DEF Inv, HostInv, HtifInOrder
    <2>2. a \in Seq(Nat) /\ b \in Seq(Nat) /\ c \in Seq(Nat)
        <3>1. IdOf(fromhost) \in Seq(Nat)
            BY <1>2 DEF IdOf, Message
        <3>2. a \in Seq(Nat) /\ c \in Seq(Nat)
            BY <1>2, <3>1
        <3>3. b \in Seq(Nat)
            BY <1>2, IdsOf
        <3> QED
            BY <3>2, <3>3
    <2>3. CASE RepliesAtOnce(tohost)
        <3>1. Ids(queue) = b \o c
            BY <1>2, <2>2, <2>3, IdsOf, AppendIsConcat
        <3>2. out = answered \o c
            BY <1>2, <2>3, AppendIsConcat
        <3> HIDE DEF a, b, c, queue, out
        <3>3. a \o (b \o c) = (a \o b) \o c
            BY <2>2, Concat3
        <3>4. a \o Ids(queue) = out
            BY <2>1, <3>1, <3>2, <3>3
        <3> QED
            BY <3>4 DEF a
    <2> QED
        BY <2>1, <2>3
<1> HIDE DEF queue, reads, out
<1>9. /\ fromhost' \in Message \cup {Empty} /\ fromhost_queue' \in Seq(Message)
      /\ pending_reads' \in Seq(Message) /\ answered' \in Seq(Nat)
      /\ received \o IdOf(fromhost') \o Ids(fromhost_queue') = answered'
      /\ \A i \in DOMAIN pending_reads' : pending_reads'[i].cmd = "read"
      /\ OneReply(fromhost', fromhost_queue', good)
      /\ fromhost # Empty => fromhost' = fromhost
    BY <1>1, <1>2, <1>5, <1>6, <1>7, <1>8, FinishRound
<1>10. handled' \in Seq(Nat) /\ issued' = handled' /\ handled' = handled' \o IdOf(tohost')
    <2>1. issued = handled \o <<tohost.id>>
        BY <1>1 DEF Inv, HostInv, HtifInOrder, IdOf
    <2>2. handled' = handled \o <<tohost.id>>
        BY <1>1, <1>2, AppendIsConcat
    <2>4. handled' \in Seq(Nat)
        BY <1>1, <1>2
    <2>3. IdOf(tohost') = <<>>
        BY <1>1 DEF IdOf
    <2> QED
        BY <1>1, <2>1, <2>2, <2>3, <2>4, ConcatEmptySeq
<1>11. HtifType'
    BY <1>1, <1>9, <1>10 DEF Inv, HostInv, HtifType
<1>12. HtifInOrder'
    <2>1. issued' = handled' \o IdOf(tohost')
        BY <1>10
    <2>2. received' \o IdOf(fromhost') \o Ids(fromhost_queue') = answered'
        BY <1>1, <1>9
    <2> QED
        BY <2>1, <2>2 DEF HtifInOrder, Ids, IdOf
<1>13. Mailboxes'
    BY <1>1, <1>9 DEF Inv, HostInv, Mailboxes
<1>14. InFlight'
    <2>1. /\ (Waits(fromhost.cmd) => Delivered(fromhost))'
          /\ (\A i \in DOMAIN fromhost_queue : Waits(fromhost_queue[i].cmd) =>
                 /\ Delivered(fromhost_queue[i]) /\ ~Waits(fromhost.cmd)
                 /\ \A j \in DOMAIN fromhost_queue : Waits(fromhost_queue[j].cmd) => i = j)'
        BY <1>9, <1>11 DEF OneReply, good
    <2>2. ~Waits(Empty.cmd)
        BY DEF Waits, Empty
    <2> QED
        BY <1>1, <1>9, <2>1, <2>2 DEF Inv, HostInv, InFlight
<1> QED
    BY <1>11, <1>12, <1>13, <1>14, HostStepKept DEF Inv, HostInv

-----------------------------------------------------------------------------
(* The theorems                                                            *)

\* The machine starts with empty mailboxes, no reservation and exact timers.
LEMMA InitInv == Init => Inv
<1> SUFFICES ASSUME Init PROVE Inv
    OBVIOUS
<1>1. TimersExact
    <2>1. 0 \in Times
        <3>1. Half \in Nat \ {0}
            BY ClintAssumption
        <3>2. 0 * Half + 0 = 0 /\ 0 \in 0 .. Half - 1
            BY <3>1
        <3> QED
            BY <3>2, JoinHalves
    <2>2. config.real_time \in BOOLEAN
        BY MachineAssumption DEF Init
    <2> QED
        BY <2>1, <2>2, ClintAssumption
        DEF Init, ClintInit, TimersExact, ClintTypeOK, Compared, Backdoor, sync, TimerMask, Bits
<1>2. \A h \in Harts : "MSIP" \notin mip[h]
    BY DEF Init, ClintInit, Compared, Backdoor, sync, TimerMask
<1>3. HartType
    <2>1. 0 \in Harts /\ 0 \in Times /\ config.script \in [Harts -> Seq(Commands)]
        BY <1>1, MachineAssumption DEF Init, ClintInit, TimersExact, ClintTypeOK
    <2> QED
        BY <2>1 DEF Init, HartType, Labels, NoAddr
<1>4. Program /\ Ring /\ LockInv
    BY <1>2 DEF Init, Program, Ring, Signalled, LockInv, Exclusive, LockHeld, Reservations,
                NoAddr, Section, Sending, Waiting
<1>5. HtifType
    BY DEF Init, HtifInit, HtifType
<1>6. Mailboxes /\ InFlight
    BY DEF Init, HtifInit, Mailboxes, InFlight, Waits, Empty, Stashes
<1>7. HtifInOrder
    BY DEF Init, HtifInit, HtifInOrder, Ids, IdOf
<1> QED
    BY <1>1, <1>3, <1>4, <1>5, <1>6, <1>7 DEF Inv, HostInv

\* Every step of the machine keeps the invariant.
LEMMA NextInv == Inv /\ [Next]_vars => Inv'
<1> SUFFICES ASSUME Inv, [Next]_vars PROVE Inv'
    OBVIOUS
<1>1. CASE Host
    <2>1. HostStep
        BY <1>1 DEF Host, HostStep, simVars
    <2>2. CASE host_command
        BY <2>1, <2>2, HostCommand
    <2>3. CASE host_stop
        BY <2>1, <2>3, HostIdle DEF host_stop
    <2> QED
        BY <1>1, <2>2, <2>3 DEF Host
<1>2. CASE idle
    BY <1>2, HostIdle DEF idle, host_idle, HostStep
<1>3. CASE end_of_slice
    BY <1>3, EndOfSlice
<1>4. CASE step_return
    BY <1>4, HostReturn DEF step_return, HostStep, simVars
<1>5. ASSUME NEW h \in Harts, Insn(h) PROVE Inv'
    BY <1>5, LrLock, ScLock, LrCount, ScCount, Look, Post, Take, GetC, Release, Boot, Arm,
       Interrupts, Nop, Wfi, Wake DEF Insn
<1>6. CASE Typing
    BY <1>6, HostIdle DEF Typing, type, HostStep, simVars
<1>7. CASE Clock
    <2>1. /\ clock_advance
          /\ UNCHANGED <<htifVars, simVars, hartVars>>
        BY <1>7 DEF Clock
    <2>2. SameMsip /\ TimersExact'
        BY <2>1, ClintSteps DEF Inv
    <2>3. HostInv'
        BY <2>1, HostStill DEF hartVars
    <2> QED
        BY <2>1, <2>2, <2>3
        DEF Inv, HartType, Program, Kind, Ring, Signalled, SameMsip, LockInv, Exclusive,
            LockHeld, Reservations, simVars, hartVars
<1>8. CASE Signal
    BY <1>8, HostIdle DEF Signal, signal_exit, HostStep, simVars
<1>9. CASE UNCHANGED vars
    <2>1. HostStep /\ UNCHANGED htifVars
        BY <1>9 DEF vars, HostStep, simVars
    <2> QED
        BY <2>1, HostIdle DEF htifVars
<1> QED
    BY <1>1, <1>2, <1>3, <1>4, <1>5, <1>6, <1>7, <1>8, <1>9 DEF Next, Thread, Stopped

\* The invariant holds in every run, for any number of harts, any scripts,
\* slices and grants and both time sources.
THEOREM MachineInvariant == Spec => []Inv
BY InitInv, NextInv, PTL DEF Spec

\* The MTIP bit of every hart is the comparison of the time with its compare
\* register after every access of any hart, of the simulator and of the
\* host's clock, and no supervisor timer bit is set before it is due
\* (clint_t::tick, time_counter_csr_t::sync).
THEOREM MachineTimersExact == Spec => []TimersExact
<1>1. Inv => TimersExact
    BY DEF Inv
<1> QED
    BY <1>1, MachineInvariant, PTL

\* Two harts are never both in the section their LR/SC lock guards and no
\* increment made with LR/SC is lost (mmu_t::store_conditional; the yield at
\* the end of a slice in sim_t::step).
THEOREM MachineLrScAtomic == Spec => []LrScAtomic
<1>1. Inv => LrScAtomic
    BY DEF Inv, LockInv, Exclusive, LrScAtomic, Holds, Section, Sending, Waiting
<1> QED
    BY <1>1, MachineInvariant, PTL

\* Every command is handled once and in order, and no reply is lost, doubled
\* or overtaken on its way through the queue and fromhost (htif_t::run).
THEOREM MachineHtifInOrder == Spec => []HtifInOrder
<1>1. Inv => HtifInOrder
    BY DEF Inv, HostInv
<1> QED
    BY <1>1, MachineInvariant, PTL

\* The reply a hart takes for its own answers its own command, the last one
\* posted, and the result of the call is in memory by then (htif_t::run,
\* syscall_t::handle_syscall).
THEOREM MachineOwnReply == Spec => []OwnReply
<1>1. Inv => OwnReply
    <2> SUFFICES ASSUME Inv, NEW h \in Harts, pc[h] = "take"
                 PROVE  /\ fromhost.id = issued[Len(issued)]
                        /\ fromhost.cmd = "call" => magicmem = fromhost.id
        BY DEF OwnReply
    <2>1. Delivered(fromhost) /\ fromhost \in Message
        BY DEF Inv, HostInv, HtifType, Mailboxes, InFlight
    <2>2. fromhost.id = Len(issued) /\ Len(issued) # 0
        BY <2>1 DEF Delivered, Awaited, Message
    <2>3. issued[Len(issued)] = Len(issued)
        BY <2>2 DEF Inv, HostInv, InFlight, HtifType
    <2> QED
        BY <2>1, <2>2, <2>3 DEF Delivered
<1> QED
    BY <1>1, MachineInvariant, PTL

-----------------------------------------------------------------------------
(* No timer goes off early                                                 *)

\* A time is split into its halves in one way.
LEMMA SplitHalves ==
    ASSUME NEW hi \in 0 .. Half - 1, NEW lo \in 0 .. Half - 1
    PROVE  ((hi * Half) + lo) \div Half = hi /\ ((hi * Half) + lo) % Half = lo
<1> DEFINE x == (hi * Half) + lo
           q == x \div Half
           r == x % Half
<1>1. Half \in Nat \ {0}
    BY ClintAssumption
<1>2. x \in Nat /\ x = (hi * Half) + lo
    BY <1>1
<1> HIDE DEF x
<1>3. q \in Nat /\ r \in 0 .. Half - 1 /\ x = Half * q + r
    BY <1>1, <1>2, DivMod
<1> HIDE DEF q, r
<1>4. q = hi
    <2>1. ASSUME q < hi PROVE FALSE
        <3>1. Half * (q + 1) <= Half * hi /\ Half * (q + 1) = Half * q + Half
              /\ Half * hi = hi * Half
            BY <1>1, <1>3, <2>1, MulMono
        <3>2. Half * q \in Nat /\ hi * Half \in Nat
            BY <1>1, <1>3
        <3> QED
            BY <1>1, <1>2, <1>3, <3>1, <3>2
    <2>2. ASSUME hi < q PROVE FALSE
        <3>1. Half * (hi + 1) <= Half * q /\ Half * (hi + 1) = hi * Half + Half
            BY <1>1, <1>3, <2>2, MulMono
        <3>2. Half * q \in Nat /\ hi * Half \in Nat
            BY <1>1, <1>3
        <3> QED
            BY <1>1, <1>2, <1>3, <3>1, <3>2
    <2> QED
        BY <1>3, <2>1, <2>2
<1>5. r = lo
    <2>1. Half * q = hi * Half /\ hi * Half \in Nat
        BY <1>1, <1>3, <1>4
    <2> QED
        BY <1>2, <1>3, <2>1
<1> QED
    BY <1>4, <1>5 DEF q, r, x

AtTimer == {"arm_s", "arm_vs", "wait_timer", "woken_timer"}

\* What the halves written so far have made of the compare register.
Armed ==
    \A h \in Harts :
        /\ pc[h] = "arm_hi" => mtimecmp[h] % Half = Half - 1
        /\ pc[h] = "arm_new" => /\ mtimecmp[h] >= deadline[h]
                                /\ mtimecmp[h] \div Half = deadline[h] \div Half
        /\ pc[h] \in AtTimer => mtimecmp[h] = deadline[h]

\* A hart is awake after its timer only when the time is past its deadline.
Awake(h) == pc[h] = "woken_timer" /\ ~in_wfi[h]
Punctual == \A h \in Harts : Awake(h) => mtime >= deadline[h]

\* What a step does to a hart, as far as its timer goes: nothing, a step of
\* arm, falling asleep, waking up, or moving on to something else.
Timing(h) ==
    \/ arm(h)
    \/ pc'[h] \notin AtTimer \cup {"arm_hi", "arm_new"}
    \/ /\ mtimecmp'[h] = mtimecmp[h] /\ deadline'[h] = deadline[h]
       /\ \/ pc'[h] = pc[h] /\ in_wfi'[h] = in_wfi[h]
          \/ pc[h] = "wait_timer" /\ pc'[h] = "woken_timer" /\ in_wfi'[h]
          \/ pc'[h] = pc[h] /\ mtime' = mtime /\ (pc[h] = "woken_timer" => "MTIP" \in mip[h])

\* Every step is one of these for every hart.
LEMMA TimingOf ==
    ASSUME Inv, [Next]_vars, NEW g \in Harts PROVE Timing(g)
<1> USE DEF Timing, AtTimer
<1>0. HartType
    BY DEF Inv
<1>1. ASSUME UNCHANGED <<pc, in_wfi, mtimecmp, deadline>> PROVE Timing(g)
    BY <1>1
<1>2. ASSUME NEW h \in Harts, NEW l, pc' = [pc EXCEPT ![h] = l],
             UNCHANGED <<in_wfi, mtimecmp, deadline>>, l \notin AtTimer \cup {"arm_hi", "arm_new"}
      PROVE  Timing(g)
    BY <1>0, <1>2 DEF HartType
<1>3. CASE Host \/ idle \/ step_return \/ Typing \/ Clock \/ Signal \/ UNCHANGED vars
    BY <1>1, <1>3 DEF Host, idle, step_return, Typing, Clock, clock_advance, Signal, vars,
                      hartVars, clintVars
<1>4. CASE end_of_slice
    BY <1>1, <1>4 DEF end_of_slice, device_tick, tick, clintVars
<1>5. ASSUME NEW h \in Harts, Insn(h) PROVE Timing(g)
    <2>1. CASE lr_lock(h) \/ sc_lock(h) \/ lr_count(h) \/ sc_count(h)
        BY <1>2, <2>1 DEF lr_lock, sc_lock, lr_count, sc_count, store_conditional, Goto,
                          clintVars
    <2>2. CASE look(h)
        BY <1>1, <1>2, <2>2 DEF look, Goto, clintVars
    <2>3. CASE post(h)
        <3> DEFINE l == CASE Kind(h) = "test" -> "done" [] Waits(Kind(h)) -> "reply"
                          [] OTHER -> "release"
        <3>1. l \in {"done", "reply", "release"}
            BY DEF Waits
        <3>2. pc' = [pc EXCEPT ![h] = l] /\ UNCHANGED <<in_wfi, mtimecmp, deadline>>
            BY <2>3 DEF post, Goto, clintVars
        <3> HIDE DEF l
        <3> QED
            BY <1>2, <3>1, <3>2
    <2>4. CASE take(h) \/ getc(h) \/ release(h)
        BY <1>2, <2>4 DEF take, getc, release, Goto, clintVars
    <2>5. CASE boot(h)
        BY <1>2, <2>5 DEF boot, Goto, store_mtime, tick
    <2>6. CASE arm(h)
        <3>1. CASE g = h
            BY <2>6, <3>1
        <3>2. CASE g # h
            <4>1. in_wfi' = in_wfi /\ mtimecmp'[g] = mtimecmp[g] /\ deadline'[g] = deadline[g]
                  /\ pc'[g] = pc[g]
                BY <1>0, <2>6, <3>2
                DEF arm, Goto, load, tick, store_mtimecmp, store_stimecmp, store_vstimecmp,
                    HartType, Inv, TimersExact, ClintTypeOK
            <4> QED
                BY <4>1
        <3> QED
            BY <3>1, <3>2
    <2>7. CASE interrupts(h)
        BY <1>2, <2>7 DEF interrupts, Goto, store_msip, tick, clintVars
    <2>8. CASE nop(h) \/ still_waiting(h)
        BY <1>1, <2>8 DEF nop, still_waiting, clintVars, hartVars
    <2>9. CASE wfi(h)
        BY <1>0, <2>9 DEF wfi, Goto, clintVars, HartType
    <2>10. CASE wake(h)
        <3>1. pc[h] = "woken_timer" => "MTIP" \in mip[h]
            BY <2>10 DEF wake, Wakes
        <3> QED
            BY <1>0, <2>10, <3>1 DEF wake, clintVars, HartType
    <2> QED
        BY <1>5, <2>1, <2>2, <2>3, <2>4, <2>5, <2>6, <2>7, <2>8, <2>9, <2>10 DEF Insn
<1> QED
    BY <1>3, <1>4, <1>5 DEF Next, Thread, Stopped

\* The three stores of a half: no value in between is below the deadline.
LEMMA ArmSteps ==
    ASSUME Inv, Armed, NEW h \in Harts, arm(h)
    PROVE  /\ pc'[h] = "arm_hi" => mtimecmp'[h] % Half = Half - 1
           /\ pc'[h] = "arm_new" => /\ mtimecmp'[h] >= deadline'[h]
                                    /\ mtimecmp'[h] \div Half = deadline'[h] \div Half
           /\ pc'[h] \in AtTimer => mtimecmp'[h] = deadline'[h]
           /\ pc'[h] # "woken_timer"
<1> DEFINE c == mtimecmp[h]
           d == deadline[h]
<1>1. /\ c \in Times /\ d \in Times /\ Half \in Nat \ {0} /\ mtimecmp \in [Harts -> Times]
      /\ pc \in [Harts -> Labels]
    BY ClintAssumption DEF Inv, HartType, TimersExact, ClintTypeOK
<1>2. /\ c \div Half \in 0 .. Half - 1 /\ c % Half \in 0 .. Half - 1
      /\ d \div Half \in 0 .. Half - 1 /\ d % Half \in 0 .. Half - 1
      /\ d = ((d \div Half) * Half) + (d % Half) /\ Half - 1 \in 0 .. Half - 1
    BY <1>1, DivHalf
<1>3. CASE pc[h] \in {"arm", "arm_s", "arm_vs"}
    <2>1. pc'[h] \in AtTimer \ {"woken_timer"} => mtimecmp'[h] = c /\ deadline'[h] = d
          /\ pc[h] \in {"arm_s", "arm_vs"}
        BY <1>1, <1>3 DEF arm, At, Goto, store_stimecmp, store_vstimecmp, AtTimer
    <2>2. pc'[h] \in {"arm_lo", "arm_vs", "wait_timer"}
        BY <1>1, <1>3 DEF arm, At, Goto
    <2> QED
        BY <2>1, <2>2 DEF Armed, AtTimer
<1>4. CASE pc[h] = "arm_lo"
    <2>1. pc'[h] = "arm_hi" /\ mtimecmp'[h] = ((c \div Half) * Half) + (Half - 1)
        BY <1>1, <1>4 DEF arm, At, Goto, store_mtimecmp, tick, WriteHalf
    <2>2. mtimecmp'[h] % Half = Half - 1
        BY <1>2, <2>1, SplitHalves
    <2> QED
        BY <2>1, <2>2 DEF AtTimer
<1>5. CASE pc[h] = "arm_hi"
    <2>1. /\ pc'[h] = "arm_new" /\ deadline' = deadline
          /\ mtimecmp'[h] = ((d \div Half) * Half) + (c % Half)
        BY <1>1, <1>5 DEF arm, At, Goto, store_mtimecmp, tick, WriteHalf
    <2>2. c % Half = Half - 1
        BY <1>5 DEF Armed
    <2>3. mtimecmp'[h] \div Half = d \div Half
        BY <1>2, <2>1, SplitHalves
    <2>4. mtimecmp'[h] >= d
        <3> DEFINE m == (d \div Half) * Half
        <3>1. m \in Nat
            BY <1>1, <1>2
        <3> HIDE DEF m
        <3>2. mtimecmp'[h] = m + (Half - 1) /\ d = m + (d % Half)
            BY <1>2, <2>1, <2>2 DEF m
        <3> QED
            BY <1>1, <1>2, <3>1, <3>2
    <2> QED
        BY <2>1, <2>3, <2>4 DEF AtTimer
<1>6. CASE pc[h] = "arm_new"
    <2>1. /\ pc'[h] \in {"arm_s", "wait_timer"} /\ deadline' = deadline
          /\ mtimecmp'[h] = ((c \div Half) * Half) + (d % Half)
        BY <1>1, <1>6 DEF arm, At, Goto, store_mtimecmp, tick, WriteHalf
    <2>2. c \div Half = d \div Half
        BY <1>6 DEF Armed
    <2>3. mtimecmp'[h] = d
        BY <1>2, <2>1, <2>2
    <2> QED
        BY <2>1, <2>3
<1> QED
    BY <1>3, <1>4, <1>5, <1>6 DEF arm, At

\* Once the timer is armed the compare register holds the deadline, and
\* before that no value of it is earlier.
LEMMA ArmedStep == Inv /\ Armed /\ [Next]_vars => Armed'
<1> SUFFICES ASSUME Inv, Armed, [Next]_vars PROVE Armed'
    OBVIOUS
<1> SUFFICES ASSUME NEW h \in Harts
             PROVE  /\ pc'[h] = "arm_hi" => mtimecmp'[h] % Half = Half - 1
                    /\ pc'[h] = "arm_new" => /\ mtimecmp'[h] >= deadline'[h]
                                             /\ mtimecmp'[h] \div Half = deadline'[h] \div Half
                    /\ pc'[h] \in AtTimer => mtimecmp'[h] = deadline'[h]
    BY DEF Armed, AtTimer
<1>1. CASE arm(h)
    BY <1>1, ArmSteps
<1>2. CASE ~arm(h)
    BY <1>2, TimingOf DEF Timing, AtTimer, Armed
<1> QED
    BY <1>1, <1>2

\* The time is not set or wrapped back (2^64 ticks) while a hart that its
\* timer has woken has not yet executed its next instruction.
TimeForward == mtime' >= mtime \/ \A h \in Harts : ~Awake(h)

\* A hart wakes at its deadline, and stays past it.
LEMMA PunctualStep ==
    Inv /\ Armed /\ Punctual /\ [Next]_vars /\ [TimeForward]_vars => Punctual'
<1> SUFFICES ASSUME Inv, Armed, Punctual, [Next]_vars, [TimeForward]_vars,
                    NEW h \in Harts, Awake(h)'
             PROVE  mtime' >= deadline'[h]
    BY DEF Punctual
<1>1. pc'[h] = "woken_timer" /\ ~in_wfi'[h]
    BY DEF Awake
<1>2. Timing(h) /\ ~arm(h)
    BY <1>1, TimingOf, ArmSteps
<1>3. deadline'[h] = deadline[h] /\ mtimecmp'[h] = mtimecmp[h]
    BY <1>1, <1>2 DEF Timing, AtTimer
<1>4. CASE pc'[h] = pc[h] /\ in_wfi'[h] = in_wfi[h]
    <2>1. Awake(h) /\ mtime >= deadline[h]
        BY <1>1, <1>4 DEF Awake, Punctual
    <2>2. Inv'
        BY NextInv
    <2>3. mtime \in Int /\ mtime' \in Int /\ deadline[h] \in Int
        BY <2>2 DEF Inv, HartType, TimersExact, ClintTypeOK, Times
    <2>4. mtime' >= mtime
        BY <2>1, <2>3 DEF TimeForward, vars, clintVars
    <2> QED
        BY <1>3, <2>1, <2>3, <2>4
<1>5. CASE /\ pc'[h] = pc[h] /\ mtime' = mtime
           /\ (pc[h] = "woken_timer" => "MTIP" \in mip[h])
    <2>1. mtime >= mtimecmp[h]
        BY <1>1, <1>5 DEF Inv, TimersExact
    <2>2. mtimecmp[h] = deadline[h]
        BY <1>1, <1>5 DEF Armed, AtTimer
    <2> QED
        BY <1>3, <1>5, <2>1, <2>2
<1> QED
    BY <1>1, <1>2, <1>4, <1>5 DEF Timing, AtTimer

\* From the moment a driver has written the high half no hart sees its timer
\* before its deadline, wherever the writes of the halves and the carry of
\* the time fall (clint_t::store and tick).
THEOREM MachineArmed == Spec => []Armed
<1>1. Init => Armed
    BY DEF Init, Armed, AtTimer
<1> QED
    BY <1>1, ArmedStep, MachineInvariant, PTL DEF Spec

\* And it is not woken before it, unless the time goes back meanwhile.
THEOREM MachineNotEarly == Spec /\ [][TimeForward]_vars => []NotEarly
<1>1. Init => Punctual
    BY DEF Init, Punctual, Awake
<1>2. Inv /\ Armed /\ Punctual => NotEarly
    <2> SUFFICES ASSUME Inv, Armed, Punctual, NEW h \in Harts,
                        pc[h] \in AtTimer \cup {"arm_new"},
                        "MTIP" \in mip[h] \/ Awake(h)
                 PROVE  mtime >= deadline[h]
        BY DEF NotEarly, AtTimer, Awake
    <2>1. CASE Awake(h)
        BY <2>1 DEF Punctual
    <2>2. CASE "MTIP" \in mip[h]
        <3>1. mtime >= mtimecmp[h] /\ mtimecmp[h] >= deadline[h]
            BY <2>2 DEF Inv, HartType, TimersExact, ClintTypeOK, Armed, Times
        <3>2. mtime \in Int /\ mtimecmp[h] \in Int /\ deadline[h] \in Int
            BY DEF Inv, HartType, TimersExact, ClintTypeOK, Times
        <3> QED
            BY <3>1, <3>2
    <2> QED
        BY <2>1, <2>2
<1> QED
    BY <1>1, <1>2, PunctualStep, MachineInvariant, MachineArmed, PTL DEF Spec
=============================================================================
