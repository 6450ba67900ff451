------------------------------- MODULE Console ------------------------------
(***************************************************************************)
(* The UART wired to the PLIC, and the target software that uses them.     *)
(*                                                                         *)
(* ns16550_t::update_interrupt calls set_interrupt_level in the same step  *)
(* that changed the UART, also when the level stays what it was.  The      *)
(* driver (external: it is the target program) first probes the UART in    *)
(* any way, then initialises it, then serves interrupts: claim, read bytes *)
(* while LSR says there is data or a part of them, complete.  The source   *)
(* may be disabled and enabled again at any moment, in the middle of a     *)
(* service too.                                                            *)
(***************************************************************************)
EXTENDS Ns16550

CONSTANTS
    MaxProbes,   \* bound: accesses of the probe
    MaxToggles   \* bound: times the source is disabled

UartId == 1      \* NS16550_INTERRUPT_ID
Hart   == 0      \* the only PLIC context

VARIABLES
    priority, level, ctx, mip, shared,   \* the PLIC
    drv,         \* what the driver does next
    probes, toggles

plicVars == <<priority, level, ctx, mip, shared>>
drvVars  == <<drv, probes, toggles>>
vars     == <<uartVars, plicVars, drvVars>>

P == INSTANCE Plic WITH NDev <- 1, NCtx <- 1, WordBits <- 2, MaxPrio <- 1

Init == UartInit /\ P!PlicInit /\ drv = "probe" /\ probes = 0 /\ toggles = 0

\* An access to the UART that calls update_interrupt.
Wired(access) == access /\ P!set_interrupt_level(UartId, line')

Enabled == UartId \in ctx[Hart].enable

-----------------------------------------------------------------------------
(* sim_t::step and the terminal                                            *)

tick ==
    /\ \/ Wired(tick_byte)
       \/ (tick_backoff \/ tick_nothing) /\ UNCHANGED plicVars
    /\ UNCHANGED drvVars

keyboard == type /\ UNCHANGED <<plicVars, drvVars>>

-----------------------------------------------------------------------------
(* The driver                                                              *)

probe ==
    /\ drv = "probe" /\ probes < MaxProbes
    /\ probes' = probes + 1
    /\ \/ Wired(load_rx)
       \/ Wired(store_tx)
       \/ \E e \in SUBSET {"RDI", "THRI"} : Wired(store_ier(e))
       \/ \E f, c \in BOOLEAN : Wired(store_fcr(f, c))
       \/ \E d \in BOOLEAN : Wired(store_lcr(d))
       \/ \E l \in BOOLEAN : Wired(store_mcr(l))
    /\ UNCHANGED <<drv, toggles>>

\* From the probe to the first interrupt: all registers, the PLIC (enable and
\* priority in either order), and the receive interrupt last.
setup ==
    /\ \/ drv = "probe" /\ Wired(store_lcr(FALSE)) /\ drv' = "mcr"
       \/ drv = "mcr" /\ Wired(store_mcr(FALSE)) /\ drv' = "mask"
       \/ drv = "mask" /\ Wired(store_ier({})) /\ drv' = "fcr"
       \/ drv = "fcr" /\ (\E c \in BOOLEAN : Wired(store_fcr(TRUE, c))) /\ drv' = "plic"
       \/ /\ drv = "plic" /\ priority[UartId] = 0
          /\ P!priority_write(UartId, 1) /\ UNCHANGED <<uartVars, drv>>
       \/ /\ drv = "plic" /\ ~Enabled
          /\ P!context_enable_write(Hart, 0, {UartId}) /\ UNCHANGED <<uartVars, drv>>
       \/ /\ drv = "plic" /\ priority[UartId] = 1 /\ Enabled
          /\ Wired(store_ier({"RDI"})) /\ drv' = "idle"
    /\ UNCHANGED <<probes, toggles>>

\* The external interrupt trap and the load of the claim register.
claim ==
    /\ drv = "idle" /\ mip[Hart]
    /\ P!context_claim(Hart)
    /\ drv' = "service"
    /\ UNCHANGED <<uartVars, probes, toggles>>

\* A read; after it the driver may leave the rest for another interrupt.
service ==
    /\ drv = "service"
    /\ \/ dr /\ Wired(load_rx) /\ drv' \in {"service", "complete"}
       \/ ~dr /\ drv' = "complete" /\ UNCHANGED <<uartVars, plicVars>>
    /\ UNCHANGED <<probes, toggles>>

\* The completion; the PLIC ignores it for a source that is not enabled.
complete ==
    /\ drv = "complete"
    /\ drv' = "idle"
    /\ IF Enabled THEN P!context_complete(Hart, UartId) ELSE UNCHANGED plicVars
    /\ UNCHANGED <<uartVars, probes, toggles>>

driver == setup \/ claim \/ service \/ complete

disable ==
    /\ drv \in {"idle", "service", "complete"} /\ Enabled /\ toggles < MaxToggles
    /\ toggles' = toggles + 1
    /\ P!context_enable_write(Hart, 0, {})
    /\ UNCHANGED <<uartVars, drv, probes>>

enable ==
    /\ drv \in {"idle", "service", "complete"} /\ ~Enabled
    /\ P!context_enable_write(Hart, 0, {UartId})
    /\ UNCHANGED <<uartVars, drvVars>>

Next == tick \/ keyboard \/ probe \/ driver \/ disable \/ enable

\* Devices are ticked for ever by sim_t::step; the driver runs, and enables
\* what it has disabled.
Fairness == WF_vars(tick) /\ WF_vars(driver) /\ WF_vars(enable)

Spec == Init /\ [][Next]_vars /\ Fairness

-----------------------------------------------------------------------------

\* No wakeup is missed: whenever the driver sleeps with its source enabled and
\* a byte is waiting in the UART, the external interrupt of the hart is
\* pending.
NoMissedWakeup ==
    drv = "idle" /\ Enabled /\ rx_queue # <<>> => mip[Hart]

\* UART, PLIC and driver together are a pipe: what is typed is read in order
\* and exactly once, and every byte is read in the end or was thrown away by a
\* receiver clear, with a full queue, a backoff (ns16550.cc:306-317), an
\* interrupt claimed too early or a source disabled in between.
Pipe == INSTANCE BytePipe WITH sent <- typed, received <- got, discarded <- cleared

ImplementsPipe == Pipe!Spec
=============================================================================
