-------------------------------- MODULE Clint -------------------------------
(***************************************************************************)
(* The core-local interruptor clint_t (riscv/clint.cc) with the Sstc timer *)
(* registers of riscv/csrs.cc that it drives.                              *)
(*                                                                         *)
(* Times have 2 * HalfBits bits and are read and written in halves, as a   *)
(* 32-bit driver does, or as a whole.  mip[h] is the set of the timer and  *)
(* software bits of hart h that are set.                                   *)
(***************************************************************************)
EXTENDS Integers, FiniteSets

CONSTANTS
    Harts,      \* the hart ids, sim_t::get_harts()
    HalfBits,   \* bits of one half of a time register (32 in the code)
    Sstc,       \* whether EXT_SSTC is enabled and menvcfg.STCE is set
    Virtual     \* whether henvcfg.STCE is set too

Half  == 2 ^ HalfBits
Limit == Half * Half
Times == 0 .. Limit - 1

ASSUME ClintAssumption ==
    /\ Harts \subseteq Nat /\ HalfBits \in Nat /\ Half \in Nat \ {0}
    /\ Sstc \in BOOLEAN
    /\ Virtual \in BOOLEAN /\ (Virtual => Sstc)

VARIABLES
    real_time,   \* --real-time-clint
    clock,       \* the host's clock, in ticks since the start
    mtime,
    mtimecmp,    \* a std::map: 0 for a hart that was never written
    mip,
    time,        \* time_counter_csr_t::shadow_val
    stimecmp, vstimecmp

clintVars == <<real_time, clock, mtime, mtimecmp, mip, time, stimecmp, vstimecmp>>

Bits == {"MSIP", "MTIP", "STIP", "VSTIP"}

\* backdoor_write_with_mask
Backdoor(old, mask, val) == (old \ mask) \cup (val \cap mask)

\* The bits that Sstc makes read-only copies of a comparison.
TimerMask == (IF Sstc THEN {"STIP"} ELSE {}) \cup (IF Virtual THEN {"VSTIP"} ELSE {})

\* time_counter_csr_t::sync, htimedelta being 0.
sync(h, now, old) ==
    Backdoor(old, TimerMask,
             {b \in {"STIP", "VSTIP"} :
                 now >= (IF b = "STIP" THEN stimecmp[h] ELSE vstimecmp[h])})

\* What the loop of clint_t::tick leaves in mip, given the time, the compare
\* registers and mip before it.
Compared(now, cmp, old) ==
    [h \in Harts |-> Backdoor(sync(h, now, old[h]), {"MTIP"},
                              IF now >= cmp[h] THEN {"MTIP"} ELSE {})]

\* Mutant: the line of a hart is only raised, never lowered.
tick_mut(now, ticks, cmp, old) ==
    /\ mtime' = (now + ticks) % Limit
    /\ time' = [h \in Harts |-> mtime']
    /\ mip' = [h \in Harts |-> old[h] \cup Compared(mtime', cmp, old)[h]]
    /\ mtimecmp' = cmp
    /\ UNCHANGED <<real_time, clock>>

\* clint_t::tick, at the end of an access that left the compare registers at
\* cmp, mip at old and mtime at now.  With real_time the host's clock
\* replaces mtime and what was written to it.
tick(now, ticks, cmp, old) ==
    /\ mtime' = IF real_time THEN clock ELSE (now + ticks) % Limit
    /\ time' = [h \in Harts |-> mtime']
    /\ mip' = Compared(mtime', cmp, old)
    /\ mtimecmp' = cmp
    /\ UNCHANGED <<real_time, clock>>

ClintInit(rt) ==
    /\ real_time = rt /\ clock = 0
    /\ mtime = 0 /\ mtimecmp = [h \in Harts |-> 0]
    /\ time = [h \in Harts |-> 0]
    /\ stimecmp = [h \in Harts |-> 0] /\ vstimecmp = [h \in Harts |-> 0]
    /\ mip = Compared(0, mtimecmp, [h \in Harts |-> {}])

-----------------------------------------------------------------------------

\* write_little_endian_reg of one half, or of the whole register.
WriteHalf(old, half, v) ==
    CASE half = "lo" -> ((old \div Half) * Half) + v
      [] half = "hi" -> (v * Half) + (old % Half)
      [] half = "all" -> v

\* Every load ticks first, wherever it reads.
load == tick(mtime, 0, mtimecmp, mip) /\ UNCHANGED <<stimecmp, vstimecmp>>

\* Mutant: the first word of the msip range is taken to lie outside it.
store_msip_mut(h, b) ==
    /\ tick(mtime, 0, mtimecmp,
            IF h \in Harts /\ h > 0
            THEN [mip EXCEPT ![h] = Backdoor(@, {"MSIP"}, IF b THEN {"MSIP"} ELSE {})]
            ELSE mip)
    /\ UNCHANGED <<stimecmp, vstimecmp>>

\* A store to an msip word; a hart that does not exist is ignored.
store_msip(h, b) ==
    /\ tick(mtime, 0, mtimecmp,
            IF h \in Harts
            THEN [mip EXCEPT ![h] = Backdoor(@, {"MSIP"}, IF b THEN {"MSIP"} ELSE {})]
            ELSE mip)
    /\ UNCHANGED <<stimecmp, vstimecmp>>

\* Mutant: the comparison is left to the next tick.
store_mtimecmp_mut(h, half, v) ==
    /\ mtimecmp' = [mtimecmp EXCEPT ![h] = WriteHalf(@, half, v)]
    /\ UNCHANGED <<real_time, clock, mtime, mip, time, stimecmp, vstimecmp>>

store_mtimecmp(h, half, v) ==
    /\ tick(mtime, 0,
            IF h \in Harts THEN [mtimecmp EXCEPT ![h] = WriteHalf(@, half, v)]
                           ELSE mtimecmp, mip)
    /\ UNCHANGED <<stimecmp, vstimecmp>>

store_mtime(half, v) ==
    /\ tick(WriteHalf(mtime, half, v), 0, mtimecmp, mip)
    /\ UNCHANGED <<stimecmp, vstimecmp>>

\* sim_t::step ticks the devices.
device_tick(ticks) ==
    /\ tick(mtime, ticks, mtimecmp, mip)
    /\ UNCHANGED <<stimecmp, vstimecmp>>

\* The host's clock moves (environment).
clock_advance ==
    /\ real_time /\ clock < Limit - 1
    /\ clock' = clock + 1
    /\ UNCHANGED <<real_time, mtime, mtimecmp, mip, time, stimecmp, vstimecmp>>

\* stimecmp_csr_t::unlogged_write, on the hart itself: the mask covers both
\* timer bits, so the bit of the other register is cleared until the next
\* sync.
store_stimecmp(h, v) ==
    /\ mip' = [mip EXCEPT ![h] = Backdoor(@, TimerMask,
                                          IF time[h] >= v THEN {"STIP"} ELSE {})]
    /\ stimecmp' = [stimecmp EXCEPT ![h] = v]
    /\ UNCHANGED <<real_time, clock, mtime, mtimecmp, time, vstimecmp>>

store_vstimecmp(h, v) ==
    /\ mip' = [mip EXCEPT ![h] = Backdoor(@, TimerMask,
                                          IF time[h] >= v THEN {"VSTIP"} ELSE {})]
    /\ vstimecmp' = [vstimecmp EXCEPT ![h] = v]
    /\ UNCHANGED <<real_time, clock, mtime, mtimecmp, time, stimecmp>>

-----------------------------------------------------------------------------

ClintTypeOK ==
    /\ real_time \in BOOLEAN /\ clock \in Times
    /\ mtime \in Times /\ mtimecmp \in [Harts -> Times]
    /\ mip \in [Harts -> SUBSET Bits] /\ time \in [Harts -> Times]
    /\ stimecmp \in [Harts -> Times] /\ vstimecmp \in [Harts -> Times]

\* Between any two instructions MTIP of every hart is the comparison of the
\* time with that hart's register, whoever moved either of them last
\* (clint_t::tick runs at the end of every access), and a supervisor timer bit
\* that is set is due: clearing the other register's bit may lose an interrupt
\* until the next tick, but none is invented.
TimersExact ==
    /\ ClintTypeOK
    /\ \A h \in Harts :
          /\ ("MTIP" \in mip[h]) <=> (mtime >= mtimecmp[h])
          /\ Sstc /\ "STIP" \in mip[h] => time[h] >= stimecmp[h]
          /\ Virtual /\ "VSTIP" \in mip[h] => time[h] >= vstimecmp[h]
=============================================================================
