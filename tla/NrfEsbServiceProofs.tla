------------------------- MODULE NrfEsbServiceProofs -------------------------
(***************************************************************************)
(* NrfEsb implements EsbService, for every size of the FIFOs and every set *)
(* of pipes, payloads, packets and configurations: each step of the        *)
(* driver, its interrupt handlers and the hardware is a step of the        *)
(* abstract node on the queues the rings stand for, or changes nothing the *)
(* abstract node has.  As in NrfEsbRadioProofs, no node is disabled in the *)
(* middle of a transmission, no call is preempted for long, and            *)
(* nrf_esb_pop_tx is not called.                                           *)
(***************************************************************************)
EXTENDS NrfEsbRadioProofs

\* The refinement mapping of Service.
TxQueue == Queue(tx_fifo, TX_FIFO_SIZE)
RxQueue == Queue(rx_fifo, RX_FIFO_SIZE)
Phase   == CASE mainstate \in Transmitting             -> "sending"
             [] mainstate \in {"PRX", "PRX_SEND_ACK"} -> "listening"
             [] OTHER                                 -> "idle"

ServiceStep == [Service!Next]_(Service!service)

-----------------------------------------------------------------------------
(* The queues and the phase *)

\* The phase tells the main states apart as far as the service is concerned.
LEMMA PhaseOf ==
  ASSUME mainstate \in MainStates
  PROVE  /\ Phase = "sending" <=> mainstate \in Transmitting
         /\ Phase = "listening" <=> mainstate \in {"PRX", "PRX_SEND_ACK"}
         /\ Phase = "idle" <=> mainstate = "IDLE"
  BY DEF Phase, Transmitting, MainStates

\* A ring without payloads is the empty queue.
LEMMA EmptyQueue ==
  ASSUME NEW size, NEW ring, ring.count = 0
  PROVE  Queue(ring, size) = << >>
  BY DEF Queue

LEMMA FlushedQueue ==
  ASSUME NEW size \in Nat \ {0}, NEW Slots, NEW ring \in Ring(size, Slots)
  PROVE  Queue(Flushed(ring), size) = << >>
<1>1. Flushed(ring).count = 0
  BY DEF Flushed, Ring
<1>. QED
  BY <1>1, EmptyQueue

\* What both queues are, and how they change with their rings.
LEMMA QueueFacts ==
  ASSUME InFlightInv
  PROVE  /\ tx_fifo \in Ring(TX_FIFO_SIZE, Payloads) /\ Consistent(tx_fifo, TX_FIFO_SIZE)
         /\ rx_fifo \in Ring(RX_FIFO_SIZE, RxPayloads) /\ Consistent(rx_fifo, RX_FIFO_SIZE)
         /\ TxQueue \in Seq(Payloads) /\ Len(TxQueue) = tx_fifo.count
         /\ RxQueue \in Seq(RxPayloads) /\ Len(RxQueue) = rx_fifo.count
<1>1. /\ tx_fifo \in Ring(TX_FIFO_SIZE, Payloads) /\ Consistent(tx_fifo, TX_FIFO_SIZE)
      /\ rx_fifo \in Ring(RX_FIFO_SIZE, RxPayloads) /\ Consistent(rx_fifo, RX_FIFO_SIZE)
  BY DEF InFlightInv, RadioInv, RingsInv, RingsConsistent, TypeOK
<1>2. TxQueue \in Seq(Payloads) /\ Len(TxQueue) = tx_fifo.count
  BY <1>1, QueueType, FifoAssumption DEF TxQueue, Consistent
<1>3. RxQueue \in Seq(RxPayloads) /\ Len(RxQueue) = rx_fifo.count
  BY <1>1, QueueType, FifoAssumption DEF RxQueue, Consistent
<1>. QED
  BY <1>1, <1>2, <1>3

\* tx_fifo_remove_last takes the head of a queue that has one.
LEMMA RemoveLastQueue ==
  ASSUME InFlightInv, tx_fifo.count > 0, tx_fifo' = RemoveLast(tx_fifo)
  PROVE  TxQueue # << >> /\ TxQueue' = Tail(TxQueue)
<1>1. /\ tx_fifo \in Ring(TX_FIFO_SIZE, Payloads) /\ Consistent(tx_fifo, TX_FIFO_SIZE)
      /\ TxQueue \in Seq(Payloads) /\ Len(TxQueue) = tx_fifo.count
      /\ tx_fifo.count # 0 /\ tx_fifo' = HeadRemoved(tx_fifo, TX_FIFO_SIZE)
  BY QueueFacts DEF RemoveLast
<1>2. TxQueue' = Tail(TxQueue)
  BY <1>1, HeadRemovedQueue, FifoAssumption DEF TxQueue
<1>3. TxQueue # << >>
  BY <1>1
<1>. QED
  BY <1>2, <1>3

\* rx_fifo_push_rfbuf stores a payload at the end, or drops it for want of room.
LEMMA PushRfbufQueue ==
  ASSUME InFlightInv, NEW pipe \in PIPES, NEW pid \in Pids,
         rx_fifo' = PushRfbuf(pipe, pid)
  PROVE  \/ UNCHANGED RxQueue
         \/ /\ Len(RxQueue) < RX_FIFO_SIZE
            /\ \E p \in RxPayloads : RxQueue' = Append(RxQueue, p)
<1>. DEFINE data == IF config.protocol = "ESB" /\ config.mode = "PTX"
                    THEN NoData ELSE rx_payload_buffer.data
            payload == [pipe |-> pipe, data |-> data, pid |-> pid]
<1>1. payload \in RxPayloads
  BY DEF InFlightInv, RadioInv, TypeOK, RxPayloads, Packets, Contents
<1>2. CASE rx_fifo.count < RX_FIFO_SIZE
  <2>1. rx_fifo' = Pushed(rx_fifo, RX_FIFO_SIZE, payload)
    BY <1>2 DEF PushRfbuf
  <2>. HIDE DEF payload
  <2>2. RxQueue' = Append(RxQueue, payload)
    BY <1>1, <1>2, <2>1, QueueFacts, PushedQueue, FifoAssumption DEF RxQueue
  <2>. QED
    BY <1>1, <1>2, <2>2, QueueFacts
<1>3. CASE ~(rx_fifo.count < RX_FIFO_SIZE)
  BY <1>3 DEF PushRfbuf, RxQueue
<1>. QED
  BY <1>2, <1>3

-----------------------------------------------------------------------------
(* The steps *)

\* A step that leaves the rings and the phase alone.
LEMMA StutterStep ==
  ASSUME UNCHANGED <<tx_fifo, rx_fifo>>, UNCHANGED Phase
  PROVE  ServiceStep
  BY DEF ServiceStep, Service!service, Phase

\* A transmission starts from idle with a payload to send.
LEMMA StartStep ==
  ASSUME InFlightInv, Idle, tx_fifo.count > 0,
         mainstate' \in {"PTX_TX", "PTX_TX_ACK"}, UNCHANGED <<tx_fifo, rx_fifo>>
  PROVE  ServiceStep
<1>1. TxQueue # << >> /\ UNCHANGED <<TxQueue, RxQueue>>
  BY QueueFacts DEF TxQueue, RxQueue
<1>2. Phase = "idle" /\ Phase' = "sending"
  BY DEF Phase, Idle, Transmitting
<1>3. Service!Start
  BY <1>1, <1>2 DEF Service!Start, TxQueue, RxQueue, Phase
<1>. QED
  BY <1>3 DEF ServiceStep, Service!Next

\* API calls: the checks and the setters change nothing the service has; the
\* protected sections are its operations.
LEMMA ServiceApplication ==
  ASSUME "abort" \notin API, "pop_tx" \notin API, InFlightInv, Application
  PROVE  ServiceStep
<1>. USE DEF setupVars, stateVars, fifoVars, txVars, evtVars, hwVars
<1>0. /\ TypeOK /\ mainstate \in MainStates
      /\ tx_fifo \in Ring(TX_FIFO_SIZE, Payloads) /\ Consistent(tx_fifo, TX_FIFO_SIZE)
      /\ rx_fifo \in Ring(RX_FIFO_SIZE, RxPayloads) /\ Consistent(rx_fifo, RX_FIFO_SIZE)
      /\ TxQueue \in Seq(Payloads) /\ Len(TxQueue) = tx_fifo.count
      /\ RxQueue \in Seq(RxPayloads) /\ Len(RxQueue) = rx_fifo.count
  BY QueueFacts DEF InFlightInv, RadioInv, TypeOK
<1>a. /\ call.at = "write" => tx_fifo.count < TX_FIFO_SIZE
      /\ call.at = "read" => rx_fifo.count # 0
      /\ call.at = "stop_rx" => mainstate \in {"PRX", "PRX_SEND_ACK"}
      /\ call.at # "stopping" /\ call.at # "pop"
  BY DEF InFlightInv, RadioInv, RingsInv, RingsConsistent, StopsReception
<1>1. CASE EsbInit \/ EsbDisable
  <2>1. /\ Idle /\ mainstate' = "IDLE"
        /\ tx_fifo' = Flushed(tx_fifo) /\ rx_fifo' = Flushed(rx_fifo)
    BY <1>1 DEF EsbInit, EsbDisable, Disabled, Quiet
  <2>2. TxQueue' = << >> /\ RxQueue' = << >>
    BY <1>0, <2>1, FlushedQueue, FifoAssumption DEF TxQueue, RxQueue
  <2>3. Phase = "idle" /\ Phase' = Phase
    BY <2>1 DEF Phase, Idle, Transmitting
  <2>4. Service!Reset
    BY <2>2, <2>3 DEF Service!Reset, TxQueue, RxQueue, Phase
  <2>. QED
    BY <2>4 DEF ServiceStep, Service!Next
<1>2. CASE WritePayloadStore
  <2>. DEFINE payload == [call.payload EXCEPT !.pid = NextPid(call.payload.pipe)]
  <2>1. payload \in Payloads
    <3>1. call.payload \in Payloads /\ call.payload.pipe \in PIPES
      BY <1>0 DEF TypeOK, Payloads
    <3>. QED
      BY <1>0, <3>1, NextPidType DEF Payloads
  <2>2. /\ call.at = "write"
        /\ tx_fifo' = Pushed(tx_fifo, TX_FIFO_SIZE, payload)
        /\ UNCHANGED <<rx_fifo, mainstate>>
    BY <1>2 DEF WritePayloadStore
  <2>. HIDE DEF payload
  <2>3. TxQueue' = Append(TxQueue, payload)
    BY <1>0, <1>a, <2>1, <2>2, PushedQueue, FifoAssumption DEF TxQueue
  <2>4. Len(TxQueue) < TX_FIFO_SIZE /\ UNCHANGED <<RxQueue, Phase>>
    BY <1>0, <1>a, <2>2 DEF RxQueue, Phase
  <2>5. Service!Write
    BY <2>1, <2>3, <2>4 DEF Service!Write, TxQueue, RxQueue, Phase
  <2>. QED
    BY <2>5 DEF ServiceStep, Service!Next
<1>3. CASE WritePayloadKick
  <2>1. UNCHANGED <<tx_fifo, rx_fifo>> /\ call.at = "kick"
    BY <1>3 DEF WritePayloadKick
  <2>2. CASE config.mode = "PTX" /\ config.tx_mode = "AUTO" /\ Idle
    <3>1. tx_fifo.count > 0
      BY <2>1, <2>2 DEF InFlightInv, KickHasPayload
    <3>2. mainstate' \in {"PTX_TX", "PTX_TX_ACK"}
      BY <1>3, <2>2 DEF WritePayloadKick, StartTxTransaction
    <3>. QED
      BY <2>1, <2>2, <3>1, <3>2, StartStep
  <2>3. CASE ~(config.mode = "PTX" /\ config.tx_mode = "AUTO" /\ Idle)
    <3>1. mainstate' = mainstate
      BY <1>3, <2>3 DEF WritePayloadKick
    <3>. QED
      BY <2>1, <3>1, StutterStep DEF Phase
  <2>. QED
    BY <2>2, <2>3
<1>4. CASE ReadRxPayloadTake
  <2>1. /\ call.at = "read" /\ rx_fifo' = HeadRemoved(rx_fifo, RX_FIFO_SIZE)
        /\ UNCHANGED <<tx_fifo, mainstate>>
    BY <1>4 DEF ReadRxPayloadTake
  <2>2. RxQueue' = Tail(RxQueue) /\ RxQueue # << >>
    BY <1>0, <1>a, <2>1, HeadRemovedQueue, FifoAssumption DEF RxQueue
  <2>3. UNCHANGED <<TxQueue, Phase>>
    BY <2>1 DEF TxQueue, Phase
  <2>4. Service!Read
    BY <2>2, <2>3 DEF Service!Read, TxQueue, RxQueue, Phase
  <2>. QED
    BY <2>4 DEF ServiceStep, Service!Next
<1>5. CASE StartTx
  <2>1. Idle /\ tx_fifo.count > 0
    BY <1>0, <1>5 DEF StartTx, Ring
  <2>2. mainstate' \in {"PTX_TX", "PTX_TX_ACK"} /\ UNCHANGED <<tx_fifo, rx_fifo>>
    BY <1>5 DEF StartTx, StartTxTransaction
  <2>. QED
    BY <2>1, <2>2, StartStep
<1>6. CASE StartRx
  <2>1. Phase = "idle" /\ Phase' = "listening" /\ UNCHANGED <<TxQueue, RxQueue>>
    BY <1>6 DEF StartRx, Idle, Phase, Transmitting, TxQueue, RxQueue
  <2>2. Service!Listen
    BY <2>1 DEF Service!Listen, TxQueue, RxQueue, Phase
  <2>. QED
    BY <2>2 DEF ServiceStep, Service!Next
<1>7. CASE StopRxNow
  <2>1. mainstate \in {"PRX", "PRX_SEND_ACK"} /\ mainstate' = "IDLE"
    BY <1>a, <1>7 DEF StopRxNow
  <2>2. Phase = "listening" /\ Phase' = "idle" /\ UNCHANGED <<TxQueue, RxQueue>>
    BY <1>7, <2>1 DEF StopRxNow, Phase, Transmitting, TxQueue, RxQueue
  <2>3. Service!Stop
    BY <2>2 DEF Service!Stop, TxQueue, RxQueue, Phase
  <2>. QED
    BY <2>3 DEF ServiceStep, Service!Next
<1>8. CASE FlushTx
  <2>1. /\ mainstate \notin Transmitting /\ tx_fifo' = Flushed(tx_fifo)
        /\ UNCHANGED <<rx_fifo, mainstate>>
    BY <1>8 DEF FlushTx
  <2>2. TxQueue' = << >> /\ UNCHANGED <<RxQueue, Phase>>
    BY <1>0, <2>1, FlushedQueue, FifoAssumption DEF TxQueue, RxQueue, Phase
  <2>3. Phase # "sending"
    BY <1>0, <2>1, PhaseOf
  <2>4. Service!FlushTx
    BY <2>2, <2>3 DEF Service!FlushTx, TxQueue, RxQueue, Phase
  <2>. QED
    BY <2>4 DEF ServiceStep, Service!Next
<1>9. CASE FlushRx
  <2>1. rx_fifo' = Flushed(rx_fifo) /\ UNCHANGED <<tx_fifo, mainstate>>
    BY <1>9 DEF FlushRx
  <2>2. RxQueue' = << >> /\ UNCHANGED <<TxQueue, Phase>>
    BY <1>0, <2>1, FlushedQueue, FifoAssumption DEF TxQueue, RxQueue, Phase
  <2>3. Service!FlushRx
    BY <2>2 DEF Service!FlushRx, TxQueue, RxQueue, Phase
  <2>. QED
    BY <2>3 DEF ServiceStep, Service!Next
<1>10. CASE \/ EsbSuspend \/ WritePayload \/ ReadRxPayload \/ StopRx \/ StopRxShorts
            \/ SetRfChannel \/ SetAddresses \/ SetPrefixes \/ EnablePipes
  <2>1. UNCHANGED <<tx_fifo, rx_fifo, mainstate>>
    BY <1>10 DEF EsbSuspend, WritePayload, ReadRxPayload, StopRx, StopRxShorts,
       SetRfChannel, SetAddresses, SetPrefixes, EnablePipes
  <2>. QED
    BY <2>1, StutterStep DEF Phase
<1>11. CASE PopTx \/ PopTxNow
  BY <1>a, <1>11 DEF PopTx, PopTxNow, May
<1>. QED
  BY <1>1, <1>2, <1>3, <1>4, <1>5, <1>6, <1>7, <1>8, <1>9, <1>10, <1>11 DEF Application

\* The end of a transmission whose payload leaves the TX FIFO: the next follows it
\* if there is one, or the node is idle.
LEMMA SentStep ==
  ASSUME InFlightInv, mainstate \in Transmitting, tx_fifo' = RemoveLast(tx_fifo),
         NEW pipe \in PIPES, NEW pid \in Pids,
         rx_fifo' = PushRfbuf(pipe, pid) \/ rx_fifo' = rx_fifo,
         NEW continue \in BOOLEAN, NextTransactionOrIdle(tx_fifo', continue),
         continue => tx_fifo'.count # 0
  PROVE  ServiceStep
<1>1. tx_fifo.count > 0
  BY DEF InFlightInv, InFlightIsHead
<1>2. TxQueue # << >> /\ TxQueue' = Tail(TxQueue)
  BY <1>1, RemoveLastQueue
<1>3. \/ UNCHANGED RxQueue
      \/ /\ Len(RxQueue) < RX_FIFO_SIZE
         /\ \E p \in RxPayloads : RxQueue' = Append(RxQueue, p)
  <2>1. CASE rx_fifo' = PushRfbuf(pipe, pid)
    BY <2>1, PushRfbufQueue
  <2>2. CASE rx_fifo' = rx_fifo
    BY <2>2 DEF RxQueue
  <2>. QED
    BY <2>1, <2>2
<1>4. Phase = "sending"
  BY DEF Phase, Transmitting
<1>5. Phase' \in {"idle", "sending"} /\ (Phase' = "sending" => continue)
  <2>1. IF continue THEN mainstate' \in {"PTX_TX", "PTX_TX_ACK"} ELSE mainstate' = "IDLE"
    BY DEF NextTransactionOrIdle, StartTxTransaction
  <2>. QED
    BY <2>1 DEF Phase, Transmitting
<1>6. continue => TxQueue' # << >>
  <2>1. /\ tx_fifo \in Ring(TX_FIFO_SIZE, Payloads) /\ Consistent(tx_fifo, TX_FIFO_SIZE)
        /\ tx_fifo' = HeadRemoved(tx_fifo, TX_FIFO_SIZE) /\ tx_fifo.count # 0
    BY <1>1, QueueFacts DEF RemoveLast
  <2>2. /\ tx_fifo' \in Ring(TX_FIFO_SIZE, Payloads)
        /\ Consistent(tx_fifo', TX_FIFO_SIZE)
    BY <2>1, HeadRemovedType, HeadRemovedConsistent, FifoAssumption
  <2>3. Len(TxQueue') = tx_fifo'.count
    BY <2>2, QueueType, FifoAssumption DEF TxQueue, Consistent
  <2>. QED
    BY <2>3
<1>7. Service!Sent
  BY <1>2, <1>3, <1>4, <1>5, <1>6 DEF Service!Sent, Service!Store, TxQueue, RxQueue, Phase
<1>. QED
  BY <1>7 DEF ServiceStep, Service!Next

\* A receiver stores or drops what it has heard; its oldest payload may leave.
LEMMA HeardStep ==
  ASSUME InFlightInv, mainstate \in {"PRX", "PRX_SEND_ACK"},
         mainstate' \in {"PRX", "PRX_SEND_ACK"},
         NEW pipe \in PIPES, NEW pid \in Pids,
         rx_fifo' = PushRfbuf(pipe, pid) \/ rx_fifo' = rx_fifo,
         \/ tx_fifo' = tx_fifo
         \/ tx_fifo.count > 0 /\ tx_fifo' = HeadRemoved(tx_fifo, TX_FIFO_SIZE)
  PROVE  ServiceStep
<1>1. \/ UNCHANGED RxQueue
      \/ /\ Len(RxQueue) < RX_FIFO_SIZE
         /\ \E p \in RxPayloads : RxQueue' = Append(RxQueue, p)
  <2>1. CASE rx_fifo' = PushRfbuf(pipe, pid)
    BY <2>1, PushRfbufQueue
  <2>2. CASE rx_fifo' = rx_fifo
    BY <2>2 DEF RxQueue
  <2>. QED
    BY <2>1, <2>2
<1>2. \/ TxQueue' = TxQueue
      \/ TxQueue # << >> /\ TxQueue' = Tail(TxQueue)
  <2>1. tx_fifo' = tx_fifo => TxQueue' = TxQueue
    BY DEF TxQueue
  <2>2. CASE tx_fifo.count > 0 /\ tx_fifo' = HeadRemoved(tx_fifo, TX_FIFO_SIZE)
    BY <2>2, RemoveLastQueue DEF RemoveLast
  <2>. QED
    BY <2>1, <2>2
<1>3. Phase = "listening" /\ Phase' = "listening"
  BY DEF Phase, Transmitting
<1>4. Service!Heard
  BY <1>1, <1>2, <1>3 DEF Service!Heard, Service!Store, TxQueue, RxQueue, Phase
<1>. QED
  BY <1>4 DEF ServiceStep, Service!Next

\* The RADIO interrupt: a transmission ends or goes on, a packet is heard.
LEMMA ServiceRadioIrq ==
  ASSUME InFlightInv, RadioIrq
  PROVE  ServiceStep
<1>. USE DEF setupVars, stateVars, fifoVars, txVars, evtVars, hwVars
<1>0. /\ RadioInv /\ TypeOK
      /\ RxPid(rx_payload_buffer) \in Pids /\ 0 \in Pids
      /\ radio.txaddress \in PIPES /\ radio.rxmatch \in PIPES
  BY RxPidType, PidAssumption DEF InFlightInv, RadioInv, TypeOK, Radios, Pids
<1>1. CASE OnRadioDisabledTxNoack
  <2>. DEFINE more == tx_fifo'.count # 0
  <2>1. /\ tx_fifo' = RemoveLast(tx_fifo) /\ rx_fifo' = rx_fifo
        /\ NextTransactionOrIdle(tx_fifo', more) /\ more \in BOOLEAN
        /\ more => tx_fifo'.count # 0
    BY <1>1 DEF OnRadioDisabledTxNoack
  <2>2. mainstate \in Transmitting
    BY <1>0, <1>1, HandlerOfState DEF OnRadioDisabledTxNoack, OnDisabled, Transmitting
  <2>. HIDE DEF more
  <2>. QED
    BY <1>0, <2>1, <2>2, SentStep
<1>2. CASE OnRadioDisabledTx \/ OnRadioDisabledTxRetry
  <2>1. /\ mainstate' \in Transmitting
        /\ UNCHANGED <<tx_fifo, rx_fifo>>
    BY <1>2 DEF OnRadioDisabledTx, OnRadioDisabledTxRetry, Transmitting
  <2>2. mainstate \in Transmitting
    BY <1>0, <1>2, HandlerOfState
    DEF OnRadioDisabledTx, OnRadioDisabledTxRetry, OnDisabled, Transmitting
  <2>3. Phase' = Phase
    BY <2>1, <2>2 DEF Phase, Transmitting
  <2>. QED
    BY <2>1, <2>3, StutterStep
<1>3. CASE OnRadioDisabledTxAcked
  <2>1. /\ tx_fifo' = RemoveLast(tx_fifo)
        /\ rx_fifo' = PushRfbuf(radio.txaddress, 0) \/ rx_fifo' = rx_fifo
        /\ NextTransactionOrIdle(tx_fifo', Continues(tx_fifo'))
    BY <1>3 DEF OnRadioDisabledTxAcked
  <2>2. /\ Continues(tx_fifo') \in BOOLEAN
        /\ Continues(tx_fifo') => tx_fifo'.count # 0
    BY DEF Continues
  <2>3. mainstate \in Transmitting
    BY <1>0, <1>3, HandlerOfState DEF OnRadioDisabledTxAcked, OnDisabled, Transmitting
  <2>. QED
    BY <1>0, <2>1, <2>2, <2>3, SentStep
<1>4. CASE OnRadioDisabledTxFailed
  <2>1. mainstate \in Transmitting
    BY <1>0, <1>4, HandlerOfState DEF OnRadioDisabledTxFailed, OnDisabled, Transmitting
  <2>2. /\ Phase = "sending" /\ Phase' = "idle"
        /\ UNCHANGED <<TxQueue, RxQueue>>
    BY <1>4, <2>1 DEF OnRadioDisabledTxFailed, Phase, Transmitting, TxQueue, RxQueue
  <2>3. Service!Failed
    BY <2>2 DEF Service!Failed, TxQueue, RxQueue, Phase
  <2>. QED
    BY <2>3 DEF ServiceStep, Service!Next
<1>5. CASE OnRadioDisabledRxDrop
  <2>1. UNCHANGED <<tx_fifo, rx_fifo, mainstate>>
    BY <1>5 DEF OnRadioDisabledRxDrop
  <2>. QED
    BY <2>1, StutterStep DEF Phase
<1>6. CASE OnRadioDisabledRxNoack
  <2>1. /\ UNCHANGED <<tx_fifo, mainstate>>
        /\ \/ rx_fifo' = PushRfbuf(radio.rxmatch, RxPid(rx_payload_buffer))
           \/ rx_fifo' = rx_fifo
    BY <1>6 DEF OnRadioDisabledRxNoack, RxDelivered
  <2>2. mainstate \in {"PRX", "PRX_SEND_ACK"}
    BY <1>0, <1>6, HandlerOfState DEF OnRadioDisabledRxNoack, OnDisabled
  <2>. QED
    BY <1>0, <2>1, <2>2, HeardStep
<1>7. CASE OnRadioDisabledRxAck
  <2>1. /\ mainstate' = "PRX_SEND_ACK"
        /\ \/ rx_fifo' = PushRfbuf(radio.rxmatch, RxPid(rx_payload_buffer))
           \/ rx_fifo' = rx_fifo
        /\ \/ tx_fifo' = tx_fifo
           \/ tx_fifo.count > 0 /\ tx_fifo' = HeadRemoved(tx_fifo, TX_FIFO_SIZE)
    BY <1>7 DEF OnRadioDisabledRxAck, RxDelivered
  <2>2. mainstate \in {"PRX", "PRX_SEND_ACK"}
    BY <1>0, <1>7, HandlerOfState DEF OnRadioDisabledRxAck, OnDisabled
  <2>. QED
    BY <1>0, <2>1, <2>2, HeardStep
<1>8. CASE OnRadioDisabledRxAckSent
  <2>1. mainstate = "PRX_SEND_ACK"
    BY <1>0, <1>8, HandlerOfState DEF OnRadioDisabledRxAckSent, OnDisabled
  <2>2. UNCHANGED <<tx_fifo, rx_fifo>> /\ mainstate' = "PRX"
    BY <1>8 DEF OnRadioDisabledRxAckSent
  <2>3. Phase' = Phase
    BY <2>1, <2>2 DEF Phase, Transmitting
  <2>. QED
    BY <2>2, <2>3, StutterStep
<1>. QED
  BY <1>1, <1>2, <1>3, <1>4, <1>5, <1>6, <1>7, <1>8 DEF RadioIrq

\* ESB_EVT and the hardware touch nothing the service has.
LEMMA ServiceEvtIrqHardware ==
  ASSUME EvtIrq \/ Hardware
  PROVE  ServiceStep
<1>1. UNCHANGED <<tx_fifo, rx_fifo, mainstate>>
  BY DEF EvtIrq, Hardware, EsbEvtIrq, GetClearInterrupts, DeliverEvent, TxEnd, Receive,
     RxEnd, RxTimeout, TimerCompare1, stateVars, fifoVars
<1>. QED
  BY <1>1, StutterStep DEF Phase

-----------------------------------------------------------------------------
\* The driver implements the service its header promises: the rings are queues that
\* lose, repeat and reorder nothing, a transmission starts from idle with a payload
\* to send, and only the payload being sent leaves the TX FIFO.
THEOREM ServiceImplemented ==
  ASSUME "abort" \notin API, "preempted" \notin API, "pop_tx" \notin API
  PROVE  Spec => ImplementsService
<1>1. Init => Service!Init
  <2>1. Init => TxQueue = << >> /\ RxQueue = << >>
    BY EmptyQueue DEF Init, ZeroRing, TxQueue, RxQueue
  <2>2. Init => Phase = "idle"
    BY DEF Init, Phase, Transmitting
  <2>. QED
    BY <2>1, <2>2 DEF Service!Init, TxQueue, RxQueue, Phase
<1>2. InFlightInv /\ [Next]_vars => [Service!Next]_(Service!service)
  <2>1. UNCHANGED vars => ServiceStep
    BY StutterStep DEF vars, stateVars, fifoVars, Phase
  <2>2. InFlightInv /\ Next => ServiceStep
    BY ServiceApplication, ServiceRadioIrq, ServiceEvtIrqHardware DEF Next
  <2>. QED
    BY <2>1, <2>2 DEF ServiceStep
<1>. QED
  BY <1>1, <1>2, InFlightInvCorrect, PTL DEF Spec, ImplementsService, Service!Spec
=============================================================================
