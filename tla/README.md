# Verification of Spike (Condor fork)

TLA+ models of the stateful core of this RISC-V instruction set simulator, the
TLC runs that check them on small instances and TLAPS proofs of the most
important invariants for every size. Paths below are relative to the
repository (`src/`).

    tlc -workers 2 -config Plic_contexts.cfg MCPlic      # one run, see "Runs"
    tlapm ConsoleProofs.tla                               # the proofs of one module

## 1. Inventory

Spike executes a RISC-V program hart by hart. `sim_t::idle` (`riscv/sim.cc`)
calls `sim_t::step`, which gives each hart a slice of `INTERLEAVE`
instructions (`processor_t::step`, `riscv/execute.cc`) and then ticks the
devices. There is one thread; concurrency comes from the interleaving of
harts, devices, the debugger, the keyboard and a Unix signal. This fork adds
checkpoints that are taken from inside the execute loop, a basic block vector
tracer (SimPoint) and STF instruction traces.

| component | state | operations | talks to | hard behaviour | correct when |
|---|---|---|---|---|---|
| Simulation loop, checkpoints (`sim.cc`, `execute.cc`, `processor.cc`) | position in the slice, pc, wait and serialize flags, instruction counters, list of checkpoint requests | idle, step, the slow and the fast loop, interrupt, trap, wfi, checkpoint, restore | every device, the tracers | checkpoints at any instruction, for four reasons; several counters that must agree; unsigned differences; restart in the middle of a slice | every request gets its file, the file describes the state after its instruction, devices tick once per slice also after a restore |
| PLIC (`plic.cc`) | priorities, lines, per context enable/pending/claimed/latched priority | register stores and loads, `set_interrupt_level` | devices call it, it writes `mip` of harts | cached `mip`, latched priorities, several contexts competing | `mip` is never stale, latches are consistent, level-triggered, one server per source |
| UART (`ns16550.cc`) | receive queue, registers, backoff counter | load, store, tick | terminal, PLIC | bounded queue, backoff, interrupt wiring | no byte lost or reordered, no missed wakeup |
| Debug module, debug ROM (`debug_module.cc`, `debug_rom.S`) | halted bits, halt groups, GO/RESUME flags, busy, cmderr, idle cycle counter | DMI writes, stores of the ROM, `run_test_idle` | harts run the ROM, debugger through the DTM | handshake through flags and four store addresses, hart reports racing commands, resets | halted bits exact, a command runs once, errors kept, requests are honoured |
| Basic block vector tracer (`bb_tracer.cc`) | open block, vector, three instruction counters, track candidates | `simpoint_step`, SimPoint CSR, checkpoint, restore | execute loop, CSR | equality tests between counters advanced in different places; several regions | every instruction in one vector, tracks name interval ends |
| STF tracers (`stf_tracer.h`, `stf_handler.h`) | region flags, writer, last pc, counters | `trace_insn`, `trace_event`, region tests | execute loop | leaving the fast loop exactly at a region's start, filters, traps | exactly the instructions asked for, with a recoverable pc |
| CLINT (`clint.cc`, timer CSRs of `csrs.cc`) | mtime, mtimecmp, `mip` bits of harts | load, store in halves, tick, host clock | harts' `mip` | stored copies of comparisons; a 64-bit value written in halves | a timer interrupt is pending iff its time has come, never early |
| Several harts (`sim.cc`, `mmu.h`) | current hart and step, reservations, wait flags | slices, yields, LR/SC, wfi | CLINT, HTIF | a reservation does not notice the stores of others; retry loops that straddle slices | LR/SC atomic, no hart waits for ever |
| HTIF (`fesvr/htif.cc`, `device.cc`, `syscall.cc`) | tohost/fromhost, reply queue, console reads | mailbox loop, commands, terminal tick | target memory, `sim_t::idle` | replies queue behind a mailbox of one word; console replies come at any time | every command handled once, replies in order, to the right one |
| JTAG DTM, remote bitbang (`jtag_dtm.cc`, `remote_bitbang.cc`) | TAP state, shift registers, sticky busy, idle counter, socket | pin changes, captures and updates, turns with the simulation | debug module, socket | busy and retry, lost connections, debugger and hart starving each other | an operation is carried out exactly once or answered busy |
| Traps (`processor.cc`, `csrs.cc`, `insns/*ret.h`) | privilege, status stacks, epc, double trap bits, debug mode | take_interrupt, take_trap, status writes, mret, sret, dret | every instruction | three levels and a debugger nest; one bit of stack each | returns exact, interrupts to their owner, a guest changes nothing of its host |
| MMU, PMP, triggers (`mmu.cc`, `mmu.h`, `csrs.cc`, `triggers.cc`) | TLBs, instruction cache, PMP registers, trigger, reservation | fetch, load, store, LR/SC, walk, refill, flush, register writes | harts, bus, tracers, log | a cache hit checks nothing, so every change must flush; locked PMP entries | no access that the registers of the moment forbid, none unseen by those who watch |
| Other CSRs | several hundred registers | read, write | everything | masks | the privileged architecture |
| Cache simulator, disassembler, ISA parser, device tree, ELF loader, options, interactive mode, RoCC, logs | | | | sequential | |
| Instruction semantics, SoftFloat, libfdt, JSON | | | | sequential; generated or third-party | |

`PROJECT.json` has one entry per component with its status, and under
"hazards" the places where this code can go wrong in a way that a test would
hardly reach, each with the properties that watch it.

## 2. Modules

    Plic <--- MCPlic <--- StepLoopProofs, MCStepLoop ---> StepLoop
      ^ instance
    BytePipe <... Console ---> Ns16550
     (implements)    ^
              ConsoleProofs
    DebugModuleProofs ---> DebugModule <... JtagSession ---> JtagDtm
             ^ instance            (implements)  ^
             :......................... JtagSessionProofs
    MCMachine, MachineProofs ---> Machine ---> Clint, Htif
    MCTrap, TrapProofs ---> TrapHandlers ---> Trap
    MCMmu, MmuProofs ---> Mmu ---> Pmp
    MCBbTracer ---> BbTracer <--- StfTracerProofs, MCStfTracer ---> StfTracer

(`--->` EXTENDS; `<...` with "implements" is an INSTANCE whose specification is
a property. StepLoopProofs also extends MCPlic, and StfTracerProofs BbTracer;
their last parts are about these modules, whose specifications are named
PlicSpec and BbSpec for that reason.)

Definitions keep the names of the functions they model. A definition whose
name ends in `_mut` is a deliberately wrong variant, written before the right
one; it is not part of any specification, and serves to show that a property
would notice that error. Variables marked "history" are not in the program;
properties compare the program's state with them.

**Plic** (`riscv/plic.cc`). `ctx[c]` is a `plic_context_t`; bit arrays are
sets of source ids, but a store to the enable array still writes one word,
whose last bits may lie past `num_ids`. Every path that calls
`context_update` goes through `StoreContext`, which recomputes `mip[c]`;
`priority_write` does not, as in the code. `set_interrupt_level` tells only
the first context that enables the source, as the loop breaks there. Values
wider than the register are truncated. `context_best_pending` is stated by
what it returns (greatest latched priority, then smallest id); MCPlic has the
loop itself and compares the two. `shared` is a history variable.

**Ns16550** (`riscv/ns16550.cc`) keeps the bits that change what the device
does. `tick` has three outcomes (count down, nothing typed, one byte).
**Console** composes it with an instance of Plic: `Wired(access)` is an access
and the `set_interrupt_level` call of `update_interrupt` in one step, made
also when the level did not change. The driver is external code (the target
program): any accesses first, then initialisation, then claim, read some or
all bytes, complete. The source can be disabled and enabled at any moment.
**BytePipe** is what a console promises: bytes come out in order, once, unless
the receiver discards them, and they do come out (weak fairness of Receive).
Console implements it with what was typed as sent and what the driver has read
as received.

**StepLoop** (`riscv/sim.cc`, `execute.cc`, `processor.cc`). One hart. Command
line and program are chosen in the initial state (`opt \in Options`). A
program is a sequence of instruction kinds, named for what they do to the
loop: plain, checkpoint no-op, csr access (serialize before and after), start
and stop of the region of interest, trap return, wfi, ecall. The variable
`loop` says where control is: in `sim_t::step`, at the top of a round, in the
slow or the fast loop, at the return. One action executes one instruction
with everything the loop does for it, `maybe_checkpoint_interval` and the
counters included, in the order of the code (in the fast loop the instruction
may be counted before or after the checkpoint, depending on whether the next
one is chained in the instruction cache). `request_async_checkpoint` is the
SIGUSR1 handler. A checkpoint record has the control fields of the file and,
in the field `true`, what the uninterrupted run has at that point.

**BbTracer** (`riscv/bb_tracer.cc` and its callers). The members of
`bb_tracer` are one record, its methods are operators on that record, since a
csr instruction makes two calls in one step (`handle_simpoint_macro`, then
`simpoint_step`). `stop` is the exception that leaves the loop, or the abort
when it leaves a noexcept function. `seen` is the history of the instructions
of the regions.

**StfTracer** (`riscv/stf_tracer.h`, `stf_handler.h`, the tracing part of
`execute.cc`). A set of command lines, each with one or two tracers: by count
or by macro, with filters of privilege and address space, exit on stop,
macros included or not, memory records or not. `reader` is the pc a program
that reads the trace would have; `wrote` and `read` are the true pc and the
reader's pc of the record written by the last step. `expected` is the set of
tracers that, by the options, want a record of the last instruction.

**DebugModule** (`riscv/debug_module.cc`, `debug_rom/debug_rom.S`). `rom[h]`
is the next access of hart h to the debug module, so harts interleave with
the debugger at every load and store of the ROM loop. Data, program buffer
and abstract instructions are left out; kept of a command is whom it was
given to and how often it ran. `dmi_write_dmcontrol` is one action with all
its effects (selection, array mask, halt, resume, hart reset, reset of the
module). The debugger is assumed to follow the debug specification: it leaves
dmcontrol and the configuration alone while busy, does not ask for halt and
resume in one write, and gives a hart whose resume is not acknowledged a
command only with its halt request set. Whether an access to data or program
buffer executes the command (abstractauto) is free.

**JtagDtm** (`riscv/jtag_dtm.cc`). The TAP with its state table, shift
registers shortened to what the properties tell apart, sticky busy, the idle
counter, and the members the constructor leaves uninitialised, which start
with any value. **JtagSession** puts `remote_bitbang_t` above it and
DebugModule below: a debugger (external) that sends pin changes through a
socket, with too few idle cycles at first, retries what was answered busy, and
may lose its connection at any moment and start again. `execute_commands`
returns when the TAP enters Run-Test/Idle, when nothing is to be read, or at
the end of the stream; only between its calls does the hart run.

**Clint** (`riscv/clint.cc`, and the time, stimecmp and vstimecmp registers of
`csrs.cc`). Times have two halves of `HalfBits` bits, so that carries and
torn writes happen; both time sources. **Htif** (`fesvr/htif.cc` and its
devices): the loop of `htif_t::run` with its command, tick and reply parts;
the payload of a command is a number that tells commands apart.
**Machine** composes both with `sim_t::step` for several harts and with the
load reservations of their MMUs. The program (external) takes a lock with
LR/SC, exchanges commands with the host, counts with LR/SC, arms its timer in
halves, sleeps, and sends software interrupts round.

**Trap** (`riscv/processor.cc`, `csrs.cc`, `insns/mret.h`, `sret.h`, `dret.h`).
One hart with hypervisor, double trap extensions and debug mode: selection of
an interrupt, delegation, the status stacks, the masks of status writes, and
the returns. **TrapHandlers** adds the software: a program, a handler per
level that saves, may be interrupted, restores and returns, and a debugger.
`waiting` is the history of the contexts interrupted and not yet resumed, and
what a return must produce. `critical_error` is never cleared, so
`processor_t::step` enters debug mode after each later trap: `caught` is the
moment between the two, in which nothing else happens. Doing so from debug mode
overwrites dpc and dcsr, and the context that debug mode was to return to is
gone; the history `lost` records that.

**Pmp** (`pmpaddr`, `pmpcfg` and `mseccfg` of `riscv/csrs.cc`, the checks of
`mmu.cc`). Addresses are sectors of four bytes, the granularity of an entry; a
data access is an address, a length in sectors and whether it begins inside its
first sector (`off`), as `--misaligned` allows. It then reaches one sector more
(`VasOf`) than `pmp_ok` asks about (`PmpVas`). **Mmu**
(`riscv/mmu.cc`, `mmu.h`): fetch, load, store, load-reserved and
store-conditional through the fast path, the slow path and the walk, on one
page or two, with the flags that keep a page out of the fast path, and every
instruction that changes what decides about an access. `last` is the access
just made; `seen` holds the page table entries a cached translation may come
from, those since the last flush; `late` says that a trigger was enabled since
then. The page table has one level and lies in one sector, so that the PMP
applies to the walk. The programs are sets of accesses and values (`Options`),
one for each group of features.

## 3. Runs

| run | result | shows |
|---|---|---|
| `plic_contexts` | holds, 326592 states | mip mirrors the latches, the scan finds the best source; sources never enabled in two contexts are level-triggered |
| `step_checkpoints` | holds, 255 thousand states | three requests out of order and a checkpoint per interval, in both loops, over two regions with ecalls and handlers at the boundaries of intervals: every request served; the instruction that passes a boundary has saved the interval, once, after the other files of it; checkpoints by no-op and signal anywhere in a slice and one restore: right pc, right rest of the slice, devices tick every INTERLEAVE instructions |
| `step_lost_requests` | **violated** | a signal or no-op checkpoint cancels the outstanding `--checkpoint_instruction` requests |
| `bb_regions` | holds, 414010 states | every instruction of a region is in exactly one vector, tracks and warmup tracks name the right instructions, over a restore |
| `console` | holds, 17174 states | no missed wakeup; UART, PLIC and driver implement BytePipe: in order, once, and every byte is read in the end |
| `debug_commands` | holds, 562432 states | halted bits exact, commands run exactly once, traps reported |
| `debug_liveness` | holds, 140608 states | halt requests and commands come to an end; resumes too unless the hart is given a command first |
| `stf_trace` | holds, 77 thousand states | exactly the instructions asked for are traced, with a pc a reader can recover |
| `machine` | holds, 233 thousand states | two harts: timers exact and not early, LR/SC atomic, commands and replies in order and to their owners, the run ends |
| `jtag_session` | holds, 563835 states | every DMI operation carried out exactly once or answered busy, results belong to their operations, the command ran once, the session ends; every step is one of DebugModule |
| `traps` | holds, 6660522 states | double trap bits, ownership of interrupts, containment of a guest; returns exact, critical errors included, until a trap in debug mode after one |
| `mmu` | holds, 414506 states | accesses allowed (the last sector of a misaligned one on a divided page excepted) and observed whatever the caches hold; store-conditional; locked PMP entries and lockdown |

`ImplementsPipe` and `ImplementsDebugModule` are refinements. The first
includes the fairness of the pipe. The second is the safety part of
DebugModule's specification, with one hart (also a theorem, section 4): it
shows that a debugger that retries, polls and reconnects through JTAG keeps
the rules that DebugModule assumes, so the theorems about DebugModule apply to it. (It did not keep the
stricter rule of waiting for a resume: after a lost connection a hart may get
a command while its resume is pending. The rule, and `ResumeHonoured`, were
weakened accordingly.)

**Bounds.** PLIC: two contexts and two sources are the least with competition
on both sides; words of two bits make two words, the last of which reaches
past `num_ids`; priorities 0 and 1 with a stored value of 2 that is truncated
(larger instances are covered by the proofs). StepLoop: slices of three
instructions have a first, a middle and a last one; programs are loops in
which each kind of instruction falls on each place of the slice, and user
instructions, ecalls and handlers on the boundaries of intervals; six to nine
instructions cover two to three slices; `MaxStep` and `MaxWait` end runs that
have lost their slice or wait for ever. BbTracer: intervals of three
instructions with a warmup of two, two intervals, and two regions; the number
of executed instructions is five, but each may be preceded by a system call,
so that a region reaches the end of the second interval. Console: a queue of
two and four bytes typed, so the queue is full with bytes waiting, more than
once; the backoff counts to two. DebugModule: one hart that is given commands
and another that reports, resumes or is reset meanwhile; one idle cycle can
come before or after the end of a command. StfTracer: 26 instructions execute
the program of eleven instructions more than twice, so regions and macros come
round again. Machine: two harts and slices of four instructions, so LR and SC
fall on both sides of an end of slice; halves of two bits with the time
starting below a carry; one hart reads the console while the other makes
system calls; interactive mode (slices of one) and the host's clock in
configurations of their own. JtagSession: two idle cycles required and none
given at first, so operations are answered busy; one lost connection, at any
moment. Trap: three contexts waiting at once, so that every level interrupts
every lower one and a double trap happens inside; three delegation settings
(everything delegated, double traps off, little delegated); the proofs cover
any depth and setting (the trap of a critical error and the debug entry after
it may exceed the bound by one; a lost context keeps its place). Mmu: four pages of two sectors (one a device), so that
an entry can end inside a page and an access, aligned or begun inside a sector,
cross it or cross pages; two TLB entries, so
that pages compete; two PMP entries, the least for a range with a base.

**Deadlock** is checked in all runs but `stf_trace`, where a behaviour ends
with the trace or at the bound on instructions.

**Fairness.** Console: weak fairness of `tick` (`sim_t::step` ticks the
devices after every round for ever), of the driver, which is an interrupt
handler that finishes what it began, and of `enable` (software enables again
what it disabled). DebugModule: weak fairness of each hart (`sim_t::step`
gives every hart a slice in every round) and of `run_test_idle` (a debugger
that polls busy goes through Run-Test/Idle). No fairness of the debugger's
requests, of breakpoints or of the keyboard. Machine: weak fairness of the
simulator's one thread as a whole, which never blocks, of the typist (a
program that waits for a character waits for the user) and of the host's
clock; none of single harts, whose turns follow from `sim_t::step`.
JtagSession: weak fairness of `tick`, of returning when nothing is to be read
and of the debugger; strong fairness of the delivery of what was sent (the
socket is polled again and again and the data arrives some time) and of the
hart (a slice is long enough that it gets on). The other specifications state
safety only and have no fairness.

## 4. Proofs

Assumptions are those named in the modules (`PlicAssumption`,
`DebugModuleAssumption`, `Ns16550Assumption`, `ClintAssumption`,
`MachineAssumption`, `TrapAssumption`, `PmpAssumption`, `PowersAssumption`,
`MmuAssumption`, `StfTracerAssumption`, `StepLoopAssumption`,
`BbTracerAssumption`, `JtagAssumption`, `SessionAssumption`): positive sizes,
hart 0 exists, group 0 exists, settings,
scripts and written values of the right type, `None` different from what it is
told apart from. `PowersAssumption` is the arithmetic of powers of two that
the prover does not have: of the size of an aligned range and that of a page
one divides the other. Type invariants are proved and not run. tlapm reads
`SUBSET A \ B` as `SUBSET (A \ B)`, TLC as `(SUBSET A) \ B`; the modules write
the parentheses, so that both mean the same.

**StepLoopProofs, last part** (Plic), for every number of sources, contexts,
priorities and any word width: `PlicSpec => []` TypeOK, MipMirrorsPending,
LatchesNested, LevelTriggeredUnshared, ExclusiveClaim, ScanFindsBest. The
inductive invariant is

    ControllerInv == TypeOK /\ LatchesNested /\ MipMirrorsPending
                     /\ SharedRecorded /\ LevelTriggeredUnshared

`SharedRecorded` says that two contexts enable the same source only if
`shared` records it. It is the strengthening that LevelTriggeredUnshared
needs: when a line goes low only the first context that enables the source is
told, and one needs to know that there is no second. ExclusiveClaim is not
inductive by itself; it follows from SharedRecorded and LatchesNested (claimed
implies enabled). MipMirrorsPending rests on the lemma `BestPending`: the
chosen winner is above the threshold iff some candidate is. For this a winner
must exist (`WinnerExists`), which orders the candidates by priority and then
by id and takes a least element twice (`LeastNat`, from the well-foundedness
of the naturals). One lemma per action, one step per conjunct. ScanFindsBest is
a fact about the loop and not about a step: `Found` is the loop's invariant
(none found and no candidate so far, or the best of the candidates so far), and
that it holds after every iteration is shown by a least id at which it would
not (`ScanFound`); the same argument shows first that the recursive function
of the iterations exists (`ScanRuns`).

**DebugModuleProofs**, for every set of harts, halt groups, availability masks
and number of idle cycles: `Spec => []` TypeOK, HaltedExact, CommandRanOnce,
ExceptionReported, and the action property CmdErrSticky. CommandRanOnce says
nothing of the middle of a command, so it is not inductive: `Stage(hartsel)`
lists the four stages of the command in flight (asked: GO set, not run;
running; trapped and not yet reported; run and waiting to be seen). A report
of the hart can complete the command only in the last, because GO is set in
the first (wherever the hart is, resumed and halted again too) and the hart is
not in the loop in the others. `CommandInv` adds that flags and
ROM positions of other harts do not belong to a command, and that a trap that
is not yet in cmderr is on its way there.

**TrapProofs**, for every set of delegation settings and every depth of
nesting: `Spec => []` TypeOK, DoubleTrapBits, InterruptToOwner, and the action
properties CriticalOnlyInM, GuestContained and ReturnsExact. The inductive
invariant is

    TypeOK /\ FramesOK /\ DoubleTrapBits /\ HiddenClear /\ Booting /\ DebugOK

`FramesOK` types what handlers have saved, since a restore writes it back into
the status registers. DoubleTrapBits fails to be inductive without
`HiddenClear`: sstatus hides SDT when menvcfg.DTE is clear, and a bit that is
set and hidden would survive every write of the supervisor. `Booting` says
that before the first return only machine mode has run, and `DebugOK` that
what dret returns to is a context that kept the rules. CriticalOnlyInM then
follows from DoubleTrapBits (a trap from below M finds MDT clear), and
GuestContained from a look at each action. InterruptToOwner is about the whole
history `waiting` and needs `WaitingOK`, the types of its entries; the heart is
that `take_interrupt`, which decides by enable bits, and `take_trap`, which
decides by delegation, agree (SDT of the owner is clear because its enable bit
is set or a lower mode is running).

ReturnsExact needs a second invariant, `ReturnInv`, over the stack of contexts
that wait; it holds as long as no context is `lost`, and again after a restart. Entry e was handled at level `At(e)` by a handler that runs, or
waits, as `Ctx(e)`, and interrupted `Ctx(e - 1)`. `Ordered`: levels do not
descend, debug mode is only on top, and a handler is interrupted at its own
level only when it is `open`. `Chain`: each handler is at its level and, as
long as it is not open, its interrupts are off and its double traps caught
(`Runs`), and every bit of `Ctx(e - 1)` that the return does not restore is
the one the handler has now (`Carried`). `Registers`: a handler that is not
open finds what it returns to in its registers (`Leads`). `Stacked`: the open
handlers of a level are consecutive entries, and its frames are theirs in
order. So at most one handler of a level depends on its registers, no trap
overwrites them (`Admits`: that the enable bits, the double trap bits and the
discipline of the software exclude it, cause by cause), and a return pops
exactly its own entry. What the proof assumes of the software is in the
guards of TrapHandlers: handlers save before they enable, restore what they
saved, and fault before that only where a double trap is caught. `MdtMasked`
(MDT is clear where Smdbltrp is missing) is needed by dret and a trap to M; it
holds whether or not a context is lost and is proved by itself (`NextMasked`).
Debug mode entered after a critical error is an entry like any other, since
the trap that caused the error has changed nothing but `critical_error`; once
the error is there, a trap from below leaves an entry of its own before it.

**ConsoleProofs**, for every size of the queue, every backoff and any number
of bytes: `Spec => []NoMissedWakeup`, and the safety of the refinement,
`Spec => Pipe!Init /\ [][Pipe!Next]_pipeVars`. The invariant has two halves.
`WakeInv`: the line is what the registers ask for, LSR_DR tells of a byte, and
the one source of the PLIC is pending exactly when it is enabled and the line
high, in service only while the driver is (which needs the steps of the
driver: before its initialisation the source is disabled). `QueueInv`:
every byte taken from the terminal is in exactly one of queue, read and
cleared, in order. Each action is then a Send, a Receive, a Discard or a
stutter of BytePipe.

**MachineProofs**, for any number of harts, any scripts, slices and grants,
both time sources and any width of a half: `Spec => []` TimersExact,
LrScAtomic, HtifInOrder, OwnReply. The properties need each other, so there is
one inductive invariant

    Inv == HartType /\ TimersExact /\ Program /\ Ring
           /\ Exclusive /\ LockHeld /\ Reservations /\ count = commits
           /\ HtifType /\ Mailboxes /\ InFlight /\ HtifInOrder

The lock is exclusive because only the hart whose slice it is has a
reservation (`Reservations`: `sim_t::step` yields it) and because hart 0,
which ends the run without the lock, does so only when the software interrupt
has gone round and all others are done (`Ring`). Replies reach their owners
because one hart at a time is in the section (`Exclusive`) and at most one
command that is waited for is on its way, in one of four places (`InFlight`).
NotEarly is `Spec /\ [][TimeForward]_vars => []NotEarly`: `Armed` (proved
without the hypothesis) says that between the writes of the halves of
mtimecmp no value in it is earlier than the deadline, which with TimersExact
forbids an early MTIP; that a hart that was woken is not early at its next
step needs that the time has not gone back under it in between. `TimeForward`
excludes the wrap of the 64-bit time and the boot code of hart 0, which sets
the time, running while another hart already sleeps; TLC checks the runs in
which neither happens, without the hypothesis.

**MmuProofs**, for every number of PMP entries and every size of TLB, page and
memory, and every program. The registers: they keep their types,
`Spec => LockedFixed` and `Spec => LockdownHolds`. Only `pmp_write` changes
them (`OnlyPmpWrites`), so each comes down to the three writes: an address
write is refused for a locked entry and for the base of a locked range
(`AddrKeepsLocked`), what an entry matches depends on nothing else
(`MatchFixed`), and under lockdown only a locked rule gives machine mode code
(`MCodeLocked`), which `legal_cfg` does not add.

The accesses: `Spec => []` AccessAllowed, AccessObserved and ScAtomic. None is
inductive, since each is about the access just made and a cache hit asks
nothing. The inductive invariant

    Inv == MmuType /\ TlbOk /\ IcacheOk /\ FetchEmpty /\ LrOk /\ LastOk
           /\ AccessObserved /\ ScAtomic

says that each entry of a TLB is what a walk (over an entry that the page
table has held since the last flush) and the PMP would find now, for every
sector of its page, and that it carries the flags of whoever watches the page;
the same for each line of the instruction cache. That one PMP check may answer
for a page is the lemma `WholePage`: if `subset_match` calls a page
homogeneous, every entry matches it as a whole or not at all. This is where
the bounds computed for TOR and NAPOT ranges, with their carries, have to
agree with the match itself. `FetchEmpty` is the reason why a trigger that
waits for the next fetch is not missed: while one waits, the fetch TLB is
empty, and the fetch that throws comes before any refill. A step that changes
a rule flushes (`FlushStep`); the one that does not, the end of a logged
region, finds the caches empty, as nothing is entered while logging.
AccessAllowed then follows for the fast path, the slow one, two pages and the
accesses after a trigger alike. Of the sector that `pmp_ok` is not asked about
(`Reached`) it says only what a homogeneous page implies, and that is all that
the code gives; but a page that an entry divides is in no cache, so the fast
path reaches no sector that a check of it would refuse. ScAtomic adds `LrOk` (a
reservation is that of the last LR, and no other hart has stored since) and
that a page whose table entries since the flush name one place is translated
there both times
(`OneMapping`).

**StfTracerProofs**, for every program and any number of tracers with any
filters, limits and regions: `Spec /\ ExitAlone => []` PcReconstructed and
TraceExact. `ExitAlone` says that a tracer told to exit at STOP is the only
one: its exception leaves the loop over the tracers, so the ones after it miss
the instruction, and TLC shows that TraceExact fails without the hypothesis
(section 5, `stf_tracer.h:293`). The inductive invariant says what the region
flag of a tracer stands for (`InRegion`: the macro region is open, or the
count lies between start and start plus length), that no tracer is in its
region while the fast loop runs, and where a reader is (`Follows`): unless its
pc is known to be stale, it is at the next instruction, except when that is
the first one of a handler that is not traced, or the first one of a region,
and for both a pc record is forced. A trap before the first instruction of a
counted region may set the flag already, and `start_region` then runs a second
time; the invariant allows for both.

**StfTracerProofs, last part** (BbTracer), for every set of addresses, sizes,
first interval and bounds, and over a restored checkpoint:
`BbSpec => []BbvConserves` and `WarmupFits /\ BbSpec => []TracksExact`.

`WarmupFits` says that the warmup is 0 or lies between 2 and one less than the
interval; for the others an earlier test of `log_simpoint_tracks` hides the one
for the warmup and TracksExact fails (TLC shows it with SimpointSize =
WarmupSize = 2; section 5). TracksExact looks at finished intervals only, while
a line is put together from candidates noted at three different
instructions, so the invariant `Sound` says of the interval under way which of
them are already the right ones. In a region (`Region`) the three counters
agree with the position in interval j; the start candidate is the first
instruction of j, the two warmup candidates are those of j and of the interval
after it as soon as they are passed (`Within`); and the lines written are those
of the complete intervals (`Lines`), which is what stays true once the region
has ended (`Exact`). Each of the three tests then meets exactly one position of
an interval. The invariant is stated of the tracer now and of the one in the
saved checkpoint, so that a restore keeps it.

BbvConserves counts the instructions in the vectors as the size of a set
(`Counted`: one element for each count of each block of each line) and not as
a sum over a sum, which would need an induction. Each method then has one
lemma: closing a block adds a set of `ninst` new elements to it
(`CaptureBalanced`, with the library's facts about the size of a union, a
product and an interval), a flush leaves the set as it is because the vector
moves to the position after the last line, and an empty one counts nothing
(`FlushBalanced`), and each instruction of a region reaches `Count` exactly
once whichever branch of `simpoint_step` it takes (`StepBalanced`).

**JtagSessionProofs**, for every number of idle cycles that DTM and debug
module ask for, and any number of lost connections: `Spec => []` ExactlyOnce,
ResultExact and RanOnce, and `Spec => ImplementsDebugModule`. There are three
layers. `TapInv`, the transport: the debugger sends a fixed sequence of clock
cycles for each scan, and how many of them have reached the pins determines
TAP state, shift registers, what was captured and whether the operation was
carried out (`ScanInv`; `PinsInv` for the half cycle in which TCK is high;
`BetweenInv` for the sequences that start the TAP or reset the DTM, from
whatever state a lost connection has left it in). A scan that comes too soon
is the case in which the idle counter had not reached zero at the capture: busy
is captured, the update finds `busy_stuck`, and nothing is carried out.
`ProtoInv`, the protocol: the hart is held by a halt request while a command
may run, none is under way when the next is given, and one is given in all.
From the two follows the refinement, step by step (`RefineStep`): a falling
edge in Update-DR is a write of the debug module, one in Run-Test/Idle is its
`run_test_idle`, a turn of the hart is a step of the ROM, the rest stutters.
The refinement then carries the invariant of DebugModuleProofs over to the
session (`SessionCommands`), and RanOnce follows from its stages of a command.

**StepLoopProofs**, for every INTERLEAVE, program and choice of paths:
`Spec /\ OneRestore => []` SliceExact and ResumePoint,
`Spec /\ Undisturbed => []RequestsServed`, and
`Spec => []IntervalsSavedOnce`. A file of a restored run counts
from the start of a whole slice, which the first grant of that run is not, so
`OneRestore` excludes restoring it again (section 5). The invariant says that
in the original run each call of `processor_t::step` is a whole slice, so that
what a file tells of the slice is right (`FileExact`) whichever loop wrote it,
and that a restored run starts from such a file. `Undisturbed` says that no
request is repeated and that no other checkpoint of an instruction is taken;
without it the run step_lost_requests finds a violation. The invariant is that
the requests not yet served are in the list in strictly descending order, the
least in `next_checkpoint`, which is not passed (`Pending`). That the
constructor's sort gives such a list is proved too: any sequence of numbers
can be sorted (`SortingExists`, by the least length that could not).

IntervalsSavedOnce has no hypothesis about the program: traps, handlers and
waits fall where they like, and the region may be left and entered again. The
counter stands still over instructions that are not counted, so that each of
them at a boundary writes the file again, and an ecall moves it without a
test; the property therefore speaks of the boundaries that a retiring
instruction passes, in the region that the last start has begun (the history
`region`: its start, and where the counter stood at its ecalls). `IntervalInv` says of the
files of that region (`FilesOf`) that none is for a boundary above the counter,
that one of a counted instruction is for a boundary already passed and is the
latest of its boundary, and that each boundary passed otherwise than by an
ecall has one. A step keeps the files (`FilesStay`), repeats a file without
moving the counter (`FilesRepeat`), writes the file and passes (`FilesPass`),
or starts a region, which has no files yet. That two boundaries never have the
same number needs the interval to be a multiple of the SimPoint size, as the
constructor of `processor_t` makes it (`StepLoopAssumption`).

**Only model-checked.** Liveness (`ImplementsPipe` beyond its safety,
`HaltHonoured`, `CommandEnds`, `ResumeHonoured`, `Completes`, `SessionEnds`):
the prover handles neither fairness nor ENABLED. Every safety property of a
passing run is stated by a theorem. No module uses RECURSIVE.

## 5. Where code and documentation disagree

With a run that shows it (quoted in `PROJECT.json`, "findings"):
`execute.cc:215`, a checkpoint for another reason clears
`next_checkpoint_instruction` (run `step_lost_requests`).

Met while modelling, without a run; the models behave as described or exclude
the case, as said:

*Documentation says otherwise*

- `plic.cc:325`: the loop in `set_interrupt_level` stops at the first context
  that enables the source; a second one stays pending when the line goes low,
  where the comment at `plic.cc:307` says "PLIC interrupts are
  level-triggered" (modelled; LevelTriggeredUnshared is about the other
  sources).
- `execute.cc:394`: a checkpoint at a serializing instruction stores the
  sentinel PC_SERIALIZE_AFTER as its pc, one at a wfi the wfi's own address,
  where `README.md:133` describes a resume after the instruction (modelled;
  ResumePoint excludes these files).
- `bb_tracer.cc:274`: a warmup of one instruction or of an interval or more is
  never recorded, as an earlier test hides it or its test is never true, where
  `README.md:75` says that a track "recording the beginning of each interval's
  warmup region" begins each line (modelled; the theorem BbTracksExact has the
  other sizes as its hypothesis, WarmupFits).
- `bb_tracer.cc:184`: a second start of the region resets one of three
  counters, and vectors are then written without tracks, where `README.md:59`
  says a vector per interval (modelled; TracksExact excludes it).
- `execute.cc:219`: the test for the boundary of an interval, made at each
  instruction that retires, looks at a counter that an ecall moves without a
  test and a handler does not move. A boundary that falls on an ecall gets no file, or,
  where instructions outside the count come first, only files from before it;
  one that is reached on entry to a handler gets a file at each instruction of
  it, where `README.md:139` says "This will generate a checkpoint after every
  `n` SimPoint intervals" (modelled; IntervalsSavedOnce says which boundaries have a file, and which of
  several files is the one of the boundary).
- `mmu.cc:432`: `pmp_ok` steps by four bytes from the address of the access, so
  with `--misaligned` the last sector of one that begins inside a sector is not
  checked, where the comment at `mmu.cc:429` says "Check each 4-byte sector of
  the access" (modelled as `PmpVas`; AccessAllowed excepts this sector on a page
  that an entry divides).
- `debug_module.cc:892`: a resume request to a running hart leaves RESUME set,
  and the hart leaves debug mode right after its next halt, where
  `debug_defines.h:2128` says "Writing 1 causes the currently selected harts
  to resume once, if they are halted when the write occurs" (modelled).

*Loop, tracers*

- `execute.cc:394`: the saved minstret is one short except for a chained
  instruction of the fast loop and a wfi (modelled; no property about it).
- `sim.cc:523`: `current_step` of a checkpoint taken in a restored run adds up
  wrongly until the first slice is over (`ResumePoint` restricts the remaining
  steps to the first process). `sim.cc:552`, `devices.h:117`: of several harts
  a checkpoint keeps neither `current_proc` nor the steps and mtimecmp of
  harts other than 0; reservations, `fromhost_queue`, console reads and
  triggers are in no checkpoint.
- `execute.cc:211`: a `--checkpoint_instruction` given twice is looked for a
  second time after it has passed, and the requests behind it are never served
  (modelled; the theorem StepLoopRequestsServed excludes it).
- `bb_tracer.cc:75`: an interval in which no block closed gets a track but no
  vector. `bb_tracer.cc:102`: the exception that ends a bounded collection can
  leave a noexcept function (modelled as "abort", which the track properties
  exclude).
- `stf_tracer.h`: `_traced_warmup_insns` leaves out the last instruction of
  the warmup; statistics in macro mode can be decremented by a trap before
  the region starts; system calls inside a region are missing from the user
  mode count (statistics are not modelled). `stf_tracer.h:293`: with
  `--stf_exit_on_stop_opc` and a second tracer, the first stays in its region
  and opens its file again (command lines of the run have it alone).
  `stf_handler.h:129`: a tracer that ends at a trap ends the whole run
  (modelled).

*Devices, debugging*

- `plic.cc:169, 318`: the priority is latched when the line rises; writing it
  later changes neither the latch nor mip (modelled).
- `csrs.cc` (stimecmp): a write to one of stimecmp and vstimecmp clears the
  pending bit of the other until the next tick (modelled; TimersExact says so).
- `debug_module.cc:813`: a command given before a pending resume is carried
  out leaves busy set for ever, unless the hart is asked to halt as well
  (excluded by the debugger's rules). `debug_module.cc:89`: a reset of the
  module leaves GO and RESUME.
- `jtag_dtm.cc:42`: `busy_stuck`, `rti_remaining` and `ir` are uninitialised
  until reset (modelled). `set_pins` acts on every call that does not raise
  TCK (modelled). `remote_bitbang.cc`: socket errors abort the simulator.

*Traps, MMU*

- `execute.cc:470`: after a critical error every trap enters debug mode, also
  one taken in debug mode (an exception or ebreak of the debugger's program),
  which overwrites dpc and dcsr.prv: a dret then leads into the debug ROM outside of debug mode
  (modelled as `lost`; ReturnsExact excepts it).
- mnret clears neither MDT nor SDT; the check "Resume from debug mode in
  critical error" (`execute.cc:400`) is skipped after dret. A hidden SDT masks
  writes of SIE with DTE clear (`csrs.cc:492, 516`; modelled).
- `mmu.cc:192`: an execute trigger that is enabled later, by an interrupt
  enable bit or a context, misses instructions in the instruction cache, as
  hits check nothing (modelled as `late`). `mmu.h:330`: fetches are not traced
  if their page does not enter the TLB (MPRV, a page split by the PMP,
  logging), and `refill_icache` passes an end address as a length.
- A misaligned store across pages stores its first part before the second
  faults (modelled). A store-conditional checks its reservation with a fresh
  translation and stores through the TLB, so a page table changed without a
  fence can lead it elsewhere (modelled; ScAtomic says so).
- A trigger that fired after an access and waits for the next fetch is thrown
  at the debug ROM if a halt comes first. dcsr.MPRVEN and mnstatus.NMIE decide
  about MPRV, and their writes do not flush; a write of mseccfg.PMM flushes
  only if there are PMP entries (debug mode, Smrnmi and pointer masking are
  not modelled).

## 6. Not modelled

- StepLoop: the prefix `async_` of a file's name, several harts (they are in Machine), debug mode, single step and
  triggers in the loop, `--count_from_bbv_roi`, a resume from a file that
  holds the sentinel as pc; interrupts are taken in user code only; of the
  processor state only what the loop reads is in a checkpoint.
- BbTracer: `--encode_bb_ids`, the value 3 of the macro (which
  starts a region, also inside one), the track log used without `--en_bbv`, the
  debug log (which changes `en_pc`), text of the files.
- Plic, Clint, Ns16550: checkpoint and restore, which copy field by field (see
  section 5 for what they miss), device tree, divisor and scratch registers.
- DebugModule: the resumeack and havereset bits, authentication, ndmreset,
  system bus access, contents of data and program buffer, single step.
- StfTracer: register and memory records, statistics, option parsing.
- Htif: what a system call does on the host, the disk device, loading.
- JtagSession: the commands B, b and Q, the bound of the receive buffer,
  partial writes and errors of the socket.
- Trap: causes and trap values, MPRV, landing pads, Smrnmi, Ssaia, TSR, VTSR,
  an sret executed in M mode, single step and triggers after a trap.
- Mmu: two-stage translation, large and multi-level page tables, pointer
  masking, shadow stacks, cache block operations, atomic memory operations
  other than LR/SC, aliasing in the instruction cache, debug mode; of triggers
  only address triggers on accesses.
- Whole components: see section 1 and `PROJECT.json`. Instruction semantics,
  the vector unit, CSR masks, parsing, disassembly and formatting are most of
  the repository's lines; they are sequential functions of data, generated or
  repeated per instruction, and covered by the architecture's test suites: a
  state machine of them would only repeat the code. I/O is left out; vendored
  code is not this program's.

## 7. Plan

Done: PLIC, simulation loop with checkpoints, BBV tracer, UART and console,
debug module, STF tracers, CLINT, HTIF and several harts, JTAG, traps, MMU and
PMP, each aimed at the hazards listed first; two refinements; proofs for PLIC,
debug module, console, harts with CLINT and HTIF, traps, MMU and PMP, STF
tracers, simulation loop, BBV tracer, JTAG session with its
refinement of the debug module.

Next, in this order:

1. Device checkpoints with several harts, once the code saves them.
2. The order of trigger, single step and trap at the end of
   `processor_t::step`; system bus access of the debug module.
3. The cache simulator's replacement as a pure algorithm against a reference.
