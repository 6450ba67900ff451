------------------------------- MODULE Ns16550 ------------------------------
(***************************************************************************)
(* The 16550 UART, riscv/ns16550.cc.                                       *)
(*                                                                         *)
(* Of the registers the model keeps the bits that change what the device   *)
(* does: the two interrupt enables the code looks at, DLAB, loopback, FIFO *)
(* enable and the data-ready bit.  LSR_TEMT is set by the constructor and  *)
(* never cleared, LSR_BI is never set.  The bytes typed at the terminal    *)
(* are numbered 1, 2, ...; a byte looped back is 0.                        *)
(***************************************************************************)
EXTENDS Integers, Sequences, FiniteSets

CONSTANTS
    QueueSize,   \* UART_QUEUE_SIZE
    MaxBackoff,  \* MAX_BACKOFF
    MaxTyped     \* bound: bytes typed

ASSUME Ns16550Assumption ==
    QueueSize \in Nat \ {0} /\ MaxBackoff \in Nat \ {0} /\ MaxTyped \in Nat

VARIABLES
    rx_queue,
    ier,       \* subset of {"RDI", "THRI"}
    dlab,      \* LCR_DLAB
    loopback,  \* MCR_LOOP
    fifo,      \* FCR_ENABLE_FIFO
    dr,        \* LSR_DR
    line,      \* the level last given to set_interrupt_level
    backoff_counter,
    typed,     \* number of bytes typed at the terminal
    consumed,  \* how many of them canonical_terminal_t::read has returned
    got,       \* history: the typed bytes software has read from UART_RX
    cleared    \* history: the typed bytes thrown away by FCR_CLEAR_RCVR

regVars  == <<ier, dlab, loopback, fifo>>
termVars == <<typed, consumed>>
uartVars == <<rx_queue, regVars, dr, line, backoff_counter, termVars, got, cleared>>

UartInit ==
    /\ rx_queue = <<>> /\ ier = {} /\ dlab = FALSE /\ loopback = FALSE /\ fifo = FALSE
    /\ dr = FALSE /\ line = FALSE /\ backoff_counter = 0
    /\ typed = 0 /\ consumed = 0 /\ got = <<>> /\ cleared = {}

-----------------------------------------------------------------------------

\* The level computed from the new ier and lsr; TEMT always holds.
update_interrupt == line' = (("RDI" \in ier' /\ dr') \/ "THRI" \in ier')

\* A user types a byte (external).
type ==
    /\ typed < MaxTyped
    /\ typed' = typed + 1
    /\ UNCHANGED <<rx_queue, regVars, dr, line, backoff_counter, consumed, got, cleared>>

\* tick polls the terminal unless the queue is full ...
Polls == fifo /\ ~loopback /\ Len(rx_queue) < QueueSize

\* ... or it counts down after a poll that found nothing.
tick_backoff ==
    /\ Polls /\ 0 < backoff_counter /\ backoff_counter < MaxBackoff
    /\ backoff_counter' = backoff_counter + 1
    /\ UNCHANGED <<rx_queue, regVars, dr, line, termVars, got, cleared>>

tick_nothing ==
    /\ Polls /\ (backoff_counter = 0 \/ backoff_counter >= MaxBackoff)
    /\ consumed = typed
    /\ backoff_counter' = 1
    /\ UNCHANGED <<rx_queue, regVars, dr, line, termVars, got, cleared>>

\* Mutant: the terminal is read before the queue is looked at.
tick_byte_mut ==
    /\ fifo /\ ~loopback /\ (backoff_counter = 0 \/ backoff_counter >= MaxBackoff)
    /\ consumed < typed
    /\ backoff_counter' = 0 /\ consumed' = consumed + 1 /\ dr' = TRUE
    /\ rx_queue' = IF Len(rx_queue) < QueueSize THEN Append(rx_queue, consumed + 1) ELSE rx_queue
    /\ UNCHANGED <<regVars, typed, got, cleared>>
    /\ update_interrupt

tick_byte ==
    /\ Polls /\ (backoff_counter = 0 \/ backoff_counter >= MaxBackoff)
    /\ consumed < typed
    /\ backoff_counter' = 0 /\ consumed' = consumed + 1
    /\ rx_queue' = Append(rx_queue, consumed + 1) /\ dr' = TRUE
    /\ UNCHANGED <<regVars, typed, got, cleared>>
    /\ update_interrupt

\* Load from UART_RX: dll with DLAB, else rx_byte.
load_rx ==
    /\ IF dlab THEN UNCHANGED <<rx_queue, dr, got>>
       ELSE IF rx_queue = <<>> THEN dr' = FALSE /\ UNCHANGED <<rx_queue, got>>
       ELSE /\ rx_queue' = Tail(rx_queue)
            /\ dr' = (Tail(rx_queue) # <<>>)
            /\ got' = IF Head(rx_queue) = 0 THEN got ELSE Append(got, Head(rx_queue))
    /\ UNCHANGED <<regVars, backoff_counter, termVars, cleared>>
    /\ update_interrupt

\* Store to UART_TX: with loopback the byte comes back if there is room.
store_tx ==
    /\ IF ~dlab /\ loopback /\ Len(rx_queue) < QueueSize
       THEN rx_queue' = Append(rx_queue, 0) /\ dr' = TRUE
       ELSE UNCHANGED <<rx_queue, dr>>
    /\ UNCHANGED <<regVars, backoff_counter, termVars, got, cleared>>
    /\ update_interrupt

\* Store to UART_IER: the enables, or dlm with DLAB.
store_ier(enables) ==
    /\ ier' = IF dlab THEN ier ELSE enables
    /\ UNCHANGED <<rx_queue, dlab, loopback, fifo, dr, backoff_counter, termVars, got, cleared>>
    /\ update_interrupt

\* Store to UART_FCR; CLEAR_RCVR is carried out by update_interrupt.
store_fcr(enable, clear) ==
    /\ fifo' = enable
    /\ rx_queue' = IF clear THEN <<>> ELSE rx_queue
    /\ dr' = (dr /\ ~clear)
    /\ cleared' = IF clear THEN cleared \cup ({rx_queue[i] : i \in DOMAIN rx_queue} \ {0}) ELSE cleared
    /\ UNCHANGED <<ier, dlab, loopback, backoff_counter, termVars, got>>
    /\ update_interrupt

store_lcr(d) ==
    /\ dlab' = d
    /\ UNCHANGED <<rx_queue, ier, loopback, fifo, dr, backoff_counter, termVars, got, cleared>>
    /\ update_interrupt

store_mcr(l) ==
    /\ loopback' = l
    /\ UNCHANGED <<rx_queue, ier, dlab, fifo, dr, backoff_counter, termVars, got, cleared>>
    /\ update_interrupt

=============================================================================
