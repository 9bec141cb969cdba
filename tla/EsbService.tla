----------------------------- MODULE EsbService -----------------------------
(***************************************************************************)
(* What nrf_esb.h promises the application about one node, with no radio,  *)
(* no interrupts and no ring buffers: two bounded first-in first-out       *)
(* queues and a module that does one thing at a time.  NrfEsb implements   *)
(* it (the property NrfEsb!ImplementsService).                             *)
(***************************************************************************)
EXTENDS Naturals, Sequences

CONSTANTS TxPayload, RxPayload, TX_FIFO_SIZE, RX_FIFO_SIZE

VARIABLES txq,     \* payloads written and not yet sent, oldest first
          rxq,     \* payloads received and not yet read, oldest first
          phase    \* what the module is doing

service == <<txq, rxq, phase>>

Phases == {"idle", "sending", "listening"}

Init == txq = <<>> /\ rxq = <<>> /\ phase = "idle"

Write == /\ Len(txq) < TX_FIFO_SIZE
         /\ \E p \in TxPayload : txq' = Append(txq, p)
         /\ UNCHANGED <<rxq, phase>>

Read == /\ rxq # <<>> /\ rxq' = Tail(rxq)
        /\ UNCHANGED <<txq, phase>>

\* A transmission starts from idle and has a payload to send.
Start == /\ phase = "idle" /\ txq # <<>> /\ phase' = "sending"
         /\ UNCHANGED <<txq, rxq>>

Listen == phase = "idle" /\ phase' = "listening" /\ UNCHANGED <<txq, rxq>>
Stop   == phase = "listening" /\ phase' = "idle" /\ UNCHANGED <<txq, rxq>>

\* A packet comes in: stored at the end if there is room, or dropped.
Store == \/ UNCHANGED rxq
         \/ /\ Len(rxq) < RX_FIFO_SIZE
            /\ \E p \in RxPayload : rxq' = Append(rxq, p)

\* The oldest payload is sent and leaves; an acknowledgment may bring a payload;
\* the next payload follows or the module is idle.
Sent == /\ phase = "sending" /\ txq # <<>>
        /\ txq' = Tail(txq) /\ Store
        /\ phase' = "sending" => txq' # <<>>
        /\ phase' \in {"idle", "sending"}

\* The payload stays where it was.
Failed == phase = "sending" /\ phase' = "idle" /\ UNCHANGED <<txq, rxq>>

\* A receiver gets a packet and may learn that its oldest payload was sent.
Heard == /\ phase = "listening" /\ Store
         /\ \/ UNCHANGED txq
            \/ txq # <<>> /\ txq' = Tail(txq)
         /\ UNCHANGED phase

FlushTx == phase # "sending" /\ txq' = <<>> /\ UNCHANGED <<rxq, phase>>
FlushRx == rxq' = <<>> /\ UNCHANGED <<txq, phase>>
Reset   == phase = "idle" /\ txq' = <<>> /\ rxq' = <<>> /\ UNCHANGED phase

Next == Write \/ Read \/ Start \/ Listen \/ Stop \/ Sent \/ Failed \/ Heard
        \/ FlushTx \/ FlushRx \/ Reset

Spec == Init /\ [][Next]_service
=============================================================================
