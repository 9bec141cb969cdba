-------------------------- MODULE NrfEsbRadioProofs --------------------------
(***************************************************************************)
(* Theorems about NrfEsb that relate the state, the handler and the radio: *)
(* they agree, the packet on air is the payload at the head of the TX FIFO *)
(* and no payload is left behind in it.  All are about applications that   *)
(* do not disable a node in the middle of a transmission and whose calls   *)
(* are not preempted for long (API without "abort" and "preempted").       *)
(***************************************************************************)
EXTENDS NrfEsbProofs

\* The shortcut out of DISABLED is the one the next handler expects, and the
\* interrupt is enabled unless the node is idle.
ShortsFollowState ==
  /\ mainstate # "IDLE" => radio.inten
  /\ mainstate \in {"PTX_TX", "PTX_RX_ACK"} => radio.shorts = "none"
  /\ mainstate \in {"PTX_TX_ACK", "PRX_SEND_ACK"} => radio.shorts = "rxen"
  /\ mainstate = "PRX" => radio.shorts = "txen"

\* PPI connects the timer to the radio only in the wait for an acknowledgment
\* and in the wait for a retransmission.
TimerFollowsState ==
  /\ timer.ppi_rx_timeout => mainstate = "PTX_RX_ACK"
  /\ timer.ppi_tx_start => mainstate = "PTX_TX_ACK"
  /\ mainstate = "PTX_TX_ACK" /\ radio.state = "off" => ~radio.events_disabled

\* nrf_esb_stop_rx stops a reception or the acknowledgment that follows it.
StopsReception ==
  /\ call.at = "stop_rx" => mainstate \in {"PRX", "PRX_SEND_ACK"}
  /\ call.at # "stopping"

\* The inductive invariant.
RadioInv ==
  /\ TypeOK
  /\ RadioFollowsState
  /\ ShortsFollowState
  /\ TimerFollowsState
  /\ StopsReception

\* A pending interrupt finds the handler of the state the node is in.
LEMMA HandlerOfState ==
  ASSUME RadioInv, DisabledIrq
  PROVE  /\ on_radio_disabled = "tx_noack" =>
              mainstate = "PTX_TX" /\ radio.state = "off"
         /\ on_radio_disabled = "tx" =>
              mainstate = "PTX_TX_ACK" /\ radio.state = "rx"
         /\ on_radio_disabled = "tx_wait_for_ack" =>
              mainstate = "PTX_RX_ACK" /\ radio.state = "off"
         /\ on_radio_disabled = "rx" =>
              mainstate = "PRX" /\ radio.state = "tx"
         /\ on_radio_disabled = "rx_ack" =>
              mainstate = "PRX_SEND_ACK" /\ radio.state = "rx"
  BY DEF RadioInv, TypeOK, MainStates, Radios, RadioFollowsState, TimerFollowsState,
     DisabledIrq

\* A transmission that starts puts state, handler, radio and shortcuts in step.
LEMMA StartTxTransactionRadio ==
  ASSUME TypeOK, NEW fifo \in Ring(TX_FIFO_SIZE, Payloads), StartTxTransaction(fifo)
  PROVE  /\ mainstate' \in {"PTX_TX", "PTX_TX_ACK"}
         /\ on_radio_disabled' = IF mainstate' = "PTX_TX" THEN "tx_noack" ELSE "tx"
         /\ radio'.state = "tx" /\ radio'.inten /\ ~radio'.events_disabled
         /\ radio'.shorts = IF mainstate' = "PTX_TX" THEN "none" ELSE "rxen"
  BY DEF StartTxTransaction, TypeOK, Radios

\* A node that is idle and switches nothing on stays as it is.
LEMMA IdleIsSilent ==
  ASSUME RadioInv, Idle
  PROVE  /\ radio.state = "off" /\ ~DisabledIrq
         /\ ~timer.ppi_rx_timeout /\ ~timer.ppi_tx_start
         /\ call.at \notin {"stop_rx", "stopping"}
  BY DEF RadioInv, RadioFollowsState, TimerFollowsState, StopsReception, Idle

\* What RadioInv says beyond the types.
RadioStep ==
  /\ RadioFollowsState
  /\ ShortsFollowState
  /\ TimerFollowsState
  /\ StopsReception

\* A call that leaves state, radio and timer alone and stops no reception.
LEMMA RadioUnchanged ==
  ASSUME RadioInv, UNCHANGED <<mainstate, on_radio_disabled, radio, timer>>,
         call'.at \notin {"stop_rx", "stopping"} \/ UNCHANGED call
  PROVE  RadioStep'
  BY DEF RadioInv, RadioStep, RadioFollowsState, ShortsFollowState, TimerFollowsState,
     StopsReception, DisabledIrq

\* A transmission that starts while the timer is not connected to the radio.
LEMMA RadioStarts ==
  ASSUME RadioInv, NEW fifo \in Ring(TX_FIFO_SIZE, Payloads), StartTxTransaction(fifo),
         ~timer'.ppi_rx_timeout, ~timer'.ppi_tx_start,
         call'.at \notin {"stop_rx", "stopping"}
  PROVE  RadioStep'
<1>1. /\ mainstate' \in {"PTX_TX", "PTX_TX_ACK"}
      /\ on_radio_disabled' = IF mainstate' = "PTX_TX" THEN "tx_noack" ELSE "tx"
      /\ radio'.state = "tx" /\ radio'.inten /\ ~radio'.events_disabled
      /\ radio'.shorts = IF mainstate' = "PTX_TX" THEN "none" ELSE "rxen"
  BY StartTxTransactionRadio DEF RadioInv
<1>. QED
  BY <1>1 DEF RadioStep, RadioFollowsState, ShortsFollowState, TimerFollowsState,
     StopsReception, DisabledIrq

\* An API call keeps state, handler and radio in step.
LEMMA RadioApplication ==
  ASSUME "abort" \notin API, "preempted" \notin API, RadioInv, Application
  PROVE  RadioStep'
<1>. USE DEF setupVars, stateVars, fifoVars, txVars, evtVars, hwVars
<1>0. TypeOK /\ tx_fifo \in Ring(TX_FIFO_SIZE, Payloads)
  BY DEF RadioInv, TypeOK
<1>1. CASE EsbInit \/ EsbDisable
  <2>1. /\ Idle /\ mainstate' = "IDLE" /\ call' = call
        /\ radio'.state = radio.state
        /\ radio'.inten = radio.inten /\ radio'.events_disabled = radio.events_disabled
        /\ ~timer'.ppi_rx_timeout /\ ~timer'.ppi_tx_start
    <3>1. radio \in Radios /\ timer \in Timers
      BY <1>0 DEF TypeOK
    <3>2. PICK shorts, enabled : Disabled(shorts, enabled)
      BY <1>1 DEF EsbInit, EsbDisable
    <3>3. Idle /\ call' = call
      BY <1>1 DEF EsbInit, EsbDisable, Quiet
    <3>4. radio' = [radio EXCEPT !.shorts = shorts]
      BY <3>2 DEF Disabled
    <3>5. timer' = [timer EXCEPT !.ppi_rx_timeout = FALSE, !.ppi_tx_start = FALSE]
      BY <3>2 DEF Disabled
    <3>6. mainstate' = "IDLE"
      BY <3>2 DEF Disabled
    <3>7. /\ radio'.state = radio.state /\ radio'.inten = radio.inten
          /\ radio'.events_disabled = radio.events_disabled
      BY <3>1, <3>4 DEF Radios
    <3>8. ~timer'.ppi_rx_timeout /\ ~timer'.ppi_tx_start
      BY <3>1, <3>5 DEF Timers
    <3>. QED
      BY <3>3, <3>6, <3>7, <3>8
  <2>2. /\ radio.state = "off" /\ ~DisabledIrq
        /\ call.at \notin {"stop_rx", "stopping"}
    BY <2>1, IdleIsSilent
  <2>. QED
    BY <2>1, <2>2 DEF RadioStep, RadioFollowsState, ShortsFollowState,
       TimerFollowsState, StopsReception, DisabledIrq
<1>2. CASE EsbSuspend
  <2>1. /\ Idle /\ UNCHANGED <<mainstate, radio, call>>
        /\ ~timer'.ppi_rx_timeout /\ ~timer'.ppi_tx_start
    BY <1>0, <1>2 DEF EsbSuspend, TypeOK, Timers
  <2>2. /\ radio.state = "off" /\ ~DisabledIrq
        /\ call.at \notin {"stop_rx", "stopping"}
    BY <2>1, IdleIsSilent
  <2>. QED
    BY <2>1, <2>2 DEF RadioStep, RadioFollowsState, ShortsFollowState,
       TimerFollowsState, StopsReception, DisabledIrq, Idle
<1>3. CASE \/ WritePayload \/ WritePayloadStore \/ ReadRxPayload \/ ReadRxPayloadTake
           \/ FlushTx \/ PopTx \/ PopTxNow \/ FlushRx
  <2>1. UNCHANGED <<mainstate, on_radio_disabled, radio, timer>>
    BY <1>3 DEF WritePayload, WritePayloadStore, ReadRxPayload, ReadRxPayloadTake,
       FlushTx, PopTx, PopTxNow, FlushRx
  <2>2. call'.at \notin {"stop_rx", "stopping"} \/ UNCHANGED call
    BY <1>0, <1>3 DEF WritePayload, WritePayloadStore, ReadRxPayload,
       ReadRxPayloadTake, FlushTx, PopTx, PopTxNow, FlushRx, TypeOK
  <2>. QED
    BY <2>1, <2>2, RadioUnchanged
<1>4. CASE WritePayloadKick
  <2>1. CASE StartTxTransaction(tx_fifo) /\ Idle
    <3>1. /\ ~timer'.ppi_rx_timeout /\ ~timer'.ppi_tx_start
          /\ call'.at \notin {"stop_rx", "stopping"}
      BY <1>4, <2>1, IdleIsSilent DEF WritePayloadKick
    <3>. QED
      BY <1>0, <2>1, <3>1, RadioStarts
  <2>2. CASE UNCHANGED <<stateVars, radio>>
    BY <1>4, <2>2, RadioUnchanged DEF WritePayloadKick
  <2>. QED
    BY <1>4, <2>1, <2>2 DEF WritePayloadKick
<1>5. CASE StartTx
  <2>1. /\ ~timer'.ppi_rx_timeout /\ ~timer'.ppi_tx_start
        /\ call'.at \notin {"stop_rx", "stopping"}
    BY <1>5, IdleIsSilent DEF StartTx
  <2>. QED
    BY <1>0, <1>5, <2>1, RadioStarts DEF StartTx
<1>6. CASE StartRx
  <2>1. /\ mainstate' = "PRX" /\ on_radio_disabled' = "rx"
        /\ radio'.state = "rx" /\ radio'.inten /\ ~radio'.events_disabled
        /\ radio'.shorts = "txen" /\ Idle /\ UNCHANGED <<timer, call>>
    BY <1>0, <1>6 DEF StartRx, TypeOK, Radios
  <2>2. /\ ~timer.ppi_rx_timeout /\ ~timer.ppi_tx_start
        /\ call.at \notin {"stop_rx", "stopping"}
    BY <2>1, IdleIsSilent
  <2>. QED
    BY <2>1, <2>2 DEF RadioStep, RadioFollowsState, ShortsFollowState,
       TimerFollowsState, StopsReception, DisabledIrq
<1>7. CASE StopRx
  <2>1. /\ UNCHANGED <<mainstate, on_radio_disabled, radio, timer>>
        /\ mainstate = "PRX" /\ call'.at = "stop_rx"
    BY <1>0, <1>7 DEF StopRx, TypeOK
  <2>. QED
    BY <2>1 DEF RadioInv, RadioStep, RadioFollowsState, ShortsFollowState,
       TimerFollowsState, StopsReception, DisabledIrq
<1>8. CASE StopRxShorts
  BY <1>8 DEF StopRxShorts
<1>9. CASE StopRxNow
  <2>1. call.at = "stop_rx" /\ mainstate \in {"PRX", "PRX_SEND_ACK"}
    BY <1>9 DEF StopRxNow, RadioInv, StopsReception
  <2>2. /\ mainstate' = "IDLE" /\ call'.at = "idle" /\ timer' = timer
        /\ radio'.state = "off" /\ ~radio'.inten
    BY <1>0, <1>9, <2>1 DEF StopRxNow, After, TypeOK, Radios
  <2>. QED
    BY <2>1, <2>2 DEF RadioInv, RadioStep, RadioFollowsState, ShortsFollowState,
       TimerFollowsState, StopsReception, DisabledIrq
<1>10. CASE SetRfChannel \/ SetAddresses \/ SetPrefixes \/ EnablePipes
  BY <1>10, RadioUnchanged DEF SetRfChannel, SetAddresses, SetPrefixes, EnablePipes
<1>. QED
  BY <1>1, <1>2, <1>3, <1>4, <1>5, <1>6, <1>7, <1>8, <1>9, <1>10 DEF Application

\* A transmission that ends leaves the node silent or starts the next one.
LEMMA RadioNextOrIdle ==
  ASSUME RadioInv, NEW fifo \in Ring(TX_FIFO_SIZE, Payloads), NEW continue \in BOOLEAN,
         NextTransactionOrIdle(fifo, continue), radio.state = "off",
         ~timer'.ppi_rx_timeout, ~timer'.ppi_tx_start,
         call' = call, call.at \notin {"stop_rx", "stopping"}
  PROVE  RadioStep'
<1>1. CASE continue
  <2>1. StartTxTransaction(fifo)
    BY <1>1 DEF NextTransactionOrIdle
  <2>. QED
    BY <2>1, RadioStarts
<1>2. CASE ~continue
  <2>1. mainstate' = "IDLE" /\ radio'.state = "off" /\ ~radio'.events_disabled
    BY <1>2 DEF NextTransactionOrIdle, Served, RadioInv, TypeOK, Radios
  <2>. QED
    BY <2>1 DEF RadioStep, RadioFollowsState, ShortsFollowState, TimerFollowsState,
       StopsReception, DisabledIrq
<1>. QED
  BY <1>1, <1>2

\* The RADIO interrupt keeps state, handler and radio in step.
LEMMA RadioRadioIrq ==
  ASSUME RadioInv, RadioIrq
  PROVE  RadioStep'
<1>. USE DEF setupVars, stateVars, fifoVars, txVars, evtVars, hwVars
<1>0. /\ TypeOK /\ radio \in Radios /\ timer \in Timers
      /\ mainstate \in Transmitting => call.at \notin {"stop_rx", "stopping"}
      /\ call.at # "stopping"
      /\ timer.ppi_rx_timeout => mainstate = "PTX_RX_ACK"
      /\ timer.ppi_tx_start => mainstate = "PTX_TX_ACK"
  BY DEF RadioInv, TypeOK, StopsReception, Transmitting, TimerFollowsState
<1>1. CASE OnRadioDisabledTxNoack
  <2>1. /\ DisabledIrq /\ on_radio_disabled = "tx_noack"
        /\ tx_fifo' = RemoveLast(tx_fifo)
        /\ NextTransactionOrIdle(tx_fifo', tx_fifo'.count # 0)
        /\ UNCHANGED <<timer, call>>
    BY <1>1 DEF OnRadioDisabledTxNoack, OnDisabled
  <2>2. mainstate = "PTX_TX" /\ radio.state = "off"
    BY <2>1, HandlerOfState
  <2>3. tx_fifo' \in Ring(TX_FIFO_SIZE, Payloads)
    BY <1>0, <2>1, RemoveLastType
  <2>. QED
    BY <1>0, <2>1, <2>2, <2>3, RadioNextOrIdle DEF Transmitting
<1>2. CASE OnRadioDisabledTx
  <2>1. /\ DisabledIrq /\ on_radio_disabled = "tx"
        /\ mainstate' = "PTX_RX_ACK" /\ on_radio_disabled' = "tx_wait_for_ack"
        /\ radio' = [Served EXCEPT !.shorts = "none", !.events_end = FALSE]
        /\ ~timer'.ppi_tx_start /\ UNCHANGED call
    BY <1>2 DEF OnRadioDisabledTx, OnDisabled
  <2>2. mainstate = "PTX_TX_ACK" /\ radio.state = "rx"
    BY <2>1, HandlerOfState
  <2>3. /\ radio'.state = "rx" /\ radio'.shorts = "none" /\ ~radio'.events_disabled
        /\ radio'.inten
    <3>1. /\ Served \in Radios /\ Served.state = "rx" /\ Served.inten
          /\ ~Served.events_disabled
      BY <1>0, <2>1, <2>2, RadioTypes DEF Served, Radios, DisabledIrq
    <3>. QED
      BY <2>1, <3>1 DEF Radios
  <2>. QED
    BY <1>0, <2>1, <2>2, <2>3 DEF RadioStep, RadioFollowsState, ShortsFollowState,
       TimerFollowsState, StopsReception, DisabledIrq, Transmitting
<1>3. CASE OnRadioDisabledTxAcked
  <2>1. /\ DisabledIrq /\ on_radio_disabled = "tx_wait_for_ack"
        /\ tx_fifo' = RemoveLast(tx_fifo)
        /\ NextTransactionOrIdle(tx_fifo', Continues(tx_fifo'))
        /\ UNCHANGED call
    BY <1>3 DEF OnRadioDisabledTxAcked, OnDisabled
  <2>2. ~timer'.ppi_rx_timeout /\ ~timer'.ppi_tx_start
    BY <1>0, <1>3 DEF OnRadioDisabledTxAcked, Timers
  <2>3. mainstate = "PTX_RX_ACK" /\ radio.state = "off"
    BY <2>1, HandlerOfState
  <2>4. tx_fifo' \in Ring(TX_FIFO_SIZE, Payloads) /\ Continues(tx_fifo') \in BOOLEAN
    BY <1>0, <2>1, RemoveLastType DEF Continues
  <2>. QED
    BY <1>0, <2>1, <2>2, <2>3, <2>4, RadioNextOrIdle DEF Transmitting
<1>4. CASE OnRadioDisabledTxFailed
  <2>1. /\ DisabledIrq /\ on_radio_disabled = "tx_wait_for_ack"
        /\ mainstate' = "IDLE" /\ radio' = Served /\ UNCHANGED call
    BY <1>4 DEF OnRadioDisabledTxFailed, OnDisabled
  <2>2. ~timer'.ppi_rx_timeout /\ ~timer'.ppi_tx_start
    BY <1>0, <1>4 DEF OnRadioDisabledTxFailed, Timers
  <2>3. mainstate = "PTX_RX_ACK" /\ radio.state = "off"
    BY <2>1, HandlerOfState
  <2>4. radio'.state = "off" /\ ~radio'.events_disabled
    BY <1>0, <2>1, <2>3 DEF Served, Radios
  <2>. QED
    BY <1>0, <2>1, <2>2, <2>3, <2>4 DEF RadioStep, RadioFollowsState,
       ShortsFollowState, TimerFollowsState, StopsReception, DisabledIrq, Transmitting
<1>5. CASE OnRadioDisabledTxRetry
  <2>1. /\ DisabledIrq /\ on_radio_disabled = "tx_wait_for_ack"
        /\ on_radio_disabled' = "tx" /\ mainstate' = "PTX_TX_ACK" /\ UNCHANGED call
    BY <1>5 DEF OnRadioDisabledTxRetry, OnDisabled
  <2>2. mainstate = "PTX_RX_ACK" /\ radio.state = "off"
    BY <2>1, HandlerOfState
  <2>3. /\ radio'.state \in {"off", "tx"} /\ radio'.shorts = "rxen"
        /\ ~radio'.events_disabled /\ radio'.inten
    BY <1>0, <1>5, <2>1, <2>2 DEF OnRadioDisabledTxRetry, Served, Radios, DisabledIrq
  <2>4. timer'.running /\ timer'.ppi_tx_start /\ ~timer'.ppi_rx_timeout
    BY <1>0, <1>5 DEF OnRadioDisabledTxRetry, Timers
  <2>. QED
    BY <1>0, <2>1, <2>2, <2>3, <2>4 DEF RadioStep, RadioFollowsState,
       ShortsFollowState, TimerFollowsState, StopsReception, DisabledIrq, Transmitting
<1>6. CASE OnRadioDisabledRxDrop \/ OnRadioDisabledRxNoack
  <2>1. /\ DisabledIrq /\ on_radio_disabled = "rx" /\ ClearEventsRestartRx
        /\ UNCHANGED <<mainstate, on_radio_disabled, timer, call>>
    BY <1>6 DEF OnRadioDisabledRxDrop, OnRadioDisabledRxNoack, OnDisabled
  <2>2. mainstate = "PRX"
    BY <2>1, HandlerOfState
  <2>3. /\ radio'.state = "rx" /\ radio'.shorts = "txen" /\ ~radio'.events_disabled
        /\ radio'.inten
    BY <1>0, <2>1 DEF ClearEventsRestartRx, Radios, DisabledIrq
  <2>. QED
    BY <1>0, <2>1, <2>2, <2>3 DEF RadioStep, RadioFollowsState, ShortsFollowState,
       TimerFollowsState, StopsReception, DisabledIrq
<1>7. CASE OnRadioDisabledRxAck
  <2>1. /\ DisabledIrq /\ on_radio_disabled = "rx"
        /\ on_radio_disabled' = "rx_ack" /\ mainstate' = "PRX_SEND_ACK"
        /\ radio' = [Served EXCEPT !.shorts = "rxen", !.txaddress = radio.rxmatch]
        /\ UNCHANGED <<timer, call>>
    BY <1>7 DEF OnRadioDisabledRxAck, OnDisabled
  <2>2. mainstate = "PRX" /\ radio.state = "tx"
    BY <2>1, HandlerOfState
  <2>3. /\ radio'.state = "tx" /\ radio'.shorts = "rxen" /\ ~radio'.events_disabled
        /\ radio'.inten
    BY <1>0, <2>1, <2>2 DEF Served, Radios, DisabledIrq
  <2>. QED
    BY <1>0, <2>1, <2>2, <2>3 DEF RadioStep, RadioFollowsState, ShortsFollowState,
       TimerFollowsState, StopsReception, DisabledIrq
<1>8. CASE OnRadioDisabledRxAckSent
  <2>1. /\ DisabledIrq /\ on_radio_disabled = "rx_ack"
        /\ on_radio_disabled' = "rx" /\ mainstate' = "PRX"
        /\ radio' = [Served EXCEPT !.shorts = "txen"] /\ UNCHANGED <<timer, call>>
    BY <1>8 DEF OnRadioDisabledRxAckSent, OnDisabled
  <2>2. mainstate = "PRX_SEND_ACK" /\ radio.state = "rx"
    BY <2>1, HandlerOfState
  <2>3. /\ radio'.state = "rx" /\ radio'.shorts = "txen" /\ ~radio'.events_disabled
        /\ radio'.inten
    BY <1>0, <2>1, <2>2 DEF Served, Radios, DisabledIrq
  <2>. QED
    BY <1>0, <2>1, <2>2, <2>3 DEF RadioStep, RadioFollowsState, ShortsFollowState,
       TimerFollowsState, StopsReception, DisabledIrq
<1>. QED
  BY <1>1, <1>2, <1>3, <1>4, <1>5, <1>6, <1>7, <1>8 DEF RadioIrq

\* The hardware moves the radio as its shortcuts say; ESB_EVT does not touch it.
LEMMA RadioEvtIrqHardware ==
  ASSUME RadioInv, EvtIrq \/ Hardware
  PROVE  RadioStep'
<1>. USE DEF setupVars, stateVars, fifoVars, txVars, evtVars, hwVars
<1>0. radio \in Radios /\ timer \in Timers /\ mainstate \in MainStates
  BY DEF RadioInv, TypeOK
<1>1. CASE EvtIrq
  <2>1. UNCHANGED <<mainstate, on_radio_disabled, radio, timer>>
    BY <1>1 DEF EvtIrq, EsbEvtIrq, GetClearInterrupts, DeliverEvent
  <2>2. call'.at \notin {"stop_rx", "stopping"} \/ UNCHANGED call
    BY <1>1 DEF EvtIrq, EsbEvtIrq, GetClearInterrupts, DeliverEvent, RadioInv, TypeOK
  <2>. QED
    BY <2>1, <2>2, RadioUnchanged
<1>2. CASE TxEnd
  <2>1. /\ radio.state = "tx" /\ ~DisabledIrq
        /\ radio'.state = After(radio.shorts) /\ radio'.events_disabled
        /\ radio'.inten = radio.inten /\ radio'.shorts = radio.shorts
        /\ UNCHANGED <<mainstate, on_radio_disabled, timer, call>>
    BY <1>0, <1>2 DEF TxEnd, AfterEnd, Radios
  <2>. QED
    BY <1>0, <2>1 DEF After, MainStates, RadioInv, RadioStep, RadioFollowsState,
       ShortsFollowState, TimerFollowsState, StopsReception, DisabledIrq
<1>3. CASE Receive
  <2>1. /\ radio.state = "rx" /\ ~DisabledIrq
        /\ radio'.state = After(radio.shorts) /\ radio'.events_disabled
        /\ radio'.inten = radio.inten /\ radio'.shorts = radio.shorts
        /\ timer'.ppi_rx_timeout = timer.ppi_rx_timeout
        /\ timer'.ppi_tx_start = timer.ppi_tx_start
        /\ UNCHANGED <<mainstate, on_radio_disabled, call>>
    BY <1>0, <1>3 DEF Receive, RxEnd, AfterEnd, Radios, Timers
  <2>. QED
    BY <1>0, <2>1 DEF After, MainStates, RadioInv, RadioStep, RadioFollowsState,
       ShortsFollowState, TimerFollowsState, StopsReception, DisabledIrq
<1>4. CASE RxTimeout
  <2>1. /\ radio.state = "rx" /\ ~DisabledIrq /\ timer.ppi_rx_timeout
        /\ radio'.state = After(radio.shorts) /\ radio'.events_disabled
        /\ radio'.inten = radio.inten /\ radio'.shorts = radio.shorts
        /\ UNCHANGED <<mainstate, on_radio_disabled, timer, call>>
    BY <1>0, <1>4 DEF RxTimeout, AfterEnd, Radios
  <2>. QED
    BY <1>0, <2>1 DEF After, MainStates, RadioInv, RadioStep, RadioFollowsState,
       ShortsFollowState, TimerFollowsState, StopsReception, DisabledIrq
<1>5. CASE TimerCompare1
  <2>1. /\ timer'.ppi_rx_timeout = timer.ppi_rx_timeout
        /\ timer'.ppi_tx_start = timer.ppi_tx_start
        /\ UNCHANGED <<mainstate, on_radio_disabled, call>>
        /\ radio'.events_disabled = radio.events_disabled
        /\ radio'.inten = radio.inten /\ radio'.shorts = radio.shorts
        /\ radio'.state = IF timer.ppi_tx_start /\ radio.state = "off"
                          THEN "tx" ELSE radio.state
    BY <1>0, <1>5 DEF TimerCompare1, Radios, Timers
  <2>. QED
    BY <1>0, <2>1 DEF MainStates, RadioInv, RadioStep, RadioFollowsState,
       ShortsFollowState, TimerFollowsState, StopsReception, DisabledIrq
<1>. QED
  BY <1>1, <1>2, <1>3, <1>4, <1>5 DEF Hardware

\* RadioInv holds initially and is kept by every step.
LEMMA RadioInvInit == Init => RadioInv
  BY TypeInit DEF Init, RadioInv, RadioFollowsState, ShortsFollowState,
     TimerFollowsState, StopsReception, DisabledIrq

LEMMA RadioInvStep ==
  ASSUME "abort" \notin API, "preempted" \notin API, RadioInv, [Next]_vars
  PROVE  RadioInv'
<1>1. TypeOK'
  BY TypeStep DEF RadioInv
<1>2. UNCHANGED vars => RadioStep'
  BY RadioUnchanged DEF vars, stateVars, hwVars
<1>3. Next => RadioStep'
  BY RadioApplication, RadioRadioIrq, RadioEvtIrqHardware DEF Next
<1>. QED
  BY <1>1, <1>2, <1>3 DEF RadioInv, RadioStep

\* RadioInv is an invariant of the specification.
LEMMA RadioInvCorrect ==
  ASSUME "abort" \notin API, "preempted" \notin API
  PROVE  Spec => []RadioInv
<1>1. RadioInv /\ [Next]_vars => RadioInv'
  BY RadioInvStep
<1>. QED
  BY <1>1, RadioInvInit, PTL DEF Spec

\* State, handler and radio agree: a node that is idle is silent and deaf, and one
\* that is not has its radio or its timer at work or its interrupt pending.
THEOREM RadioAgrees ==
  ASSUME "abort" \notin API, "preempted" \notin API
  PROVE  Spec => []RadioFollowsState
<1>1. RadioInv => RadioFollowsState
  BY DEF RadioInv
<1>. QED
  BY <1>1, RadioInvCorrect, PTL

-----------------------------------------------------------------------------
(* The packet on air is the head of the TX FIFO. *)

\* While nrf_esb_write_payload goes from its protected section to its test of the
\* state, at most one payload leaves the TX FIFO, so the new one is there to send.
KickHasPayload ==
  call.at = "kick" /\ config.mode = "PTX" /\ config.tx_mode = "AUTO" =>
    /\ Idle => tx_fifo.count > 0
    /\ \/ mainstate = "PTX_RX_ACK"
       \/ mainstate \in Transmitting /\ DisabledIrq
       => tx_fifo.count > 1

\* The inductive invariant.
InFlightInv == RadioInv /\ RingsInv /\ InFlightIsHead /\ KickHasPayload

\* A write to a ring that is not empty leaves its head alone.
LEMMA PushedKeepsHead ==
  ASSUME NEW size \in Nat \ {0}, size < UINT32_MAX, NEW Slots,
         NEW ring \in Ring(size, Slots), NEW payload \in Slots,
         Consistent(ring, size), 0 < ring.count, ring.count < size
  PROVE  LET pushed == Pushed(ring, size, payload)
         IN /\ pushed.exit_point = ring.exit_point
            /\ pushed.p_payload[pushed.exit_point] = ring.p_payload[ring.exit_point]
<1>1. /\ ring.exit_point \in 0 .. size - 1 /\ ring.entry_point \in 0 .. size - 1
      /\ ring.p_payload \in [0 .. size - 1 -> Slots] /\ ring.count \in Nat
  BY DEF Ring
<1>2. ring.entry_point # ring.exit_point
  BY <1>1 DEF Consistent, Wrap
<1>. QED
  BY <1>1, <1>2 DEF Pushed, Ring

\* A transmission that starts takes the head.
LEMMA StartTxTransactionHead ==
  ASSUME TypeOK, tx_fifo' \in Ring(TX_FIFO_SIZE, Payloads), tx_fifo'.count > 0,
         StartTxTransaction(tx_fifo')
  PROVE  InFlightIsHead'
  BY DEF StartTxTransaction, InFlightIsHead, TypeOK, Radios

\* Nothing on air, or everything as it was.
LEMMA InFlightUnchanged ==
  ASSUME InFlightInv,
         \/ mainstate' \notin Transmitting
         \/ /\ mainstate \in Transmitting \/ UNCHANGED mainstate
            /\ radio'.txaddress = radio.txaddress
            /\ UNCHANGED <<tx_fifo, mp_current_payload, tx_payload_buffer>>
  PROVE  InFlightIsHead'
  BY DEF InFlightInv, InFlightIsHead

\* An API call keeps the head in flight.
LEMMA InFlightApplication ==
  ASSUME "abort" \notin API, "preempted" \notin API, "pop_tx" \notin API,
         InFlightInv, Application
  PROVE  InFlightIsHead' /\ KickHasPayload'
<1>. USE DEF setupVars, stateVars, fifoVars, txVars, evtVars, hwVars
<1>0. /\ TypeOK /\ tx_fifo \in Ring(TX_FIFO_SIZE, Payloads) /\ tx_fifo.count \in Nat
      /\ Consistent(tx_fifo, TX_FIFO_SIZE)
      /\ call.at = "write" => tx_fifo.count < TX_FIFO_SIZE
  BY DEF InFlightInv, RingsInv, RingsConsistent, TypeOK, Ring
<1>1. CASE EsbInit \/ EsbDisable \/ EsbSuspend \/ StartRx \/ StopRx \/ StopRxShorts
           \/ StopRxNow \/ FlushTx
  <2>1. call'.at # "kick"
    BY <1>0, <1>1 DEF EsbInit, EsbDisable, EsbSuspend, StartRx, StopRx, StopRxShorts,
       StopRxNow, FlushTx, May, TypeOK
  <2>2. mainstate' \notin Transmitting
    BY <1>1 DEF EsbInit, EsbDisable, EsbSuspend, StartRx, StopRx, StopRxShorts,
       StopRxNow, FlushTx, Disabled, Idle, Transmitting
  <2>. QED
    BY <2>1, <2>2, InFlightUnchanged DEF KickHasPayload
<1>2. CASE WritePayload \/ ReadRxPayload \/ ReadRxPayloadTake \/ PopTx \/ FlushRx
           \/ SetRfChannel \/ SetAddresses \/ SetPrefixes \/ EnablePipes
  <2>1. call'.at # "kick"
    <3>1. CASE WritePayload \/ ReadRxPayload \/ ReadRxPayloadTake \/ PopTx
      BY <1>0, <3>1 DEF WritePayload, ReadRxPayload, ReadRxPayloadTake, PopTx, TypeOK
    <3>2. CASE FlushRx \/ SetRfChannel \/ SetAddresses \/ SetPrefixes \/ EnablePipes
      BY <3>2 DEF FlushRx, SetRfChannel, SetAddresses, SetPrefixes, EnablePipes, May
    <3>. QED
      BY <1>2, <3>1, <3>2
  <2>2. UNCHANGED <<mainstate, radio, tx_fifo, mp_current_payload, tx_payload_buffer>>
    BY <1>2 DEF WritePayload, ReadRxPayload, ReadRxPayloadTake, PopTx, FlushRx,
       SetRfChannel, SetAddresses, SetPrefixes, EnablePipes
  <2>. QED
    BY <2>1, <2>2, InFlightUnchanged DEF KickHasPayload
<1>3. CASE WritePayloadStore
  <2>. DEFINE payload == [call.payload EXCEPT !.pid = NextPid(call.payload.pipe)]
  <2>1. payload \in Payloads
    <3>1. call.payload \in Payloads /\ call.payload.pipe \in PIPES
      BY <1>0 DEF TypeOK, Payloads
    <3>. QED
      BY <1>0, <3>1, NextPidType DEF Payloads
  <2>2. /\ tx_fifo' = Pushed(tx_fifo, TX_FIFO_SIZE, payload)
        /\ tx_fifo.count < TX_FIFO_SIZE
        /\ UNCHANGED <<mainstate, radio, config, mp_current_payload, tx_payload_buffer>>
    BY <1>0, <1>3 DEF WritePayloadStore
  <2>. HIDE DEF payload
  <2>3. tx_fifo'.count = tx_fifo.count + 1
    BY <1>0, <2>1, <2>2, PushedConsistent, FifoAssumption
  <2>4. tx_fifo.count > 0 =>
          /\ tx_fifo'.exit_point = tx_fifo.exit_point
          /\ tx_fifo'.p_payload[tx_fifo'.exit_point]
               = tx_fifo.p_payload[tx_fifo.exit_point]
    BY <1>0, <2>1, <2>2, PushedKeepsHead, FifoAssumption
  <2>5. mainstate \in Transmitting => tx_fifo.count > 0
    BY DEF InFlightInv, InFlightIsHead
  <2>6. InFlightIsHead'
    BY <1>0, <2>2, <2>3, <2>4 DEF InFlightInv, InFlightIsHead
  <2>7. KickHasPayload'
    BY <1>0, <2>2, <2>3, <2>5 DEF KickHasPayload, Transmitting, Idle
  <2>. QED
    BY <2>6, <2>7
<1>4. CASE WritePayloadKick
  <2>1. call'.at # "kick" /\ UNCHANGED tx_fifo /\ call.at = "kick"
    BY <1>4 DEF WritePayloadKick
  <2>2. CASE config.mode = "PTX" /\ config.tx_mode = "AUTO" /\ Idle
    <3>1. tx_fifo.count > 0
      BY <2>1, <2>2 DEF InFlightInv, KickHasPayload
    <3>2. StartTxTransaction(tx_fifo)
      BY <1>4, <2>2 DEF WritePayloadKick
    <3>3. StartTxTransaction(tx_fifo') /\ tx_fifo'.count > 0
      BY <2>1, <3>1, <3>2
    <3>. QED
      BY <1>0, <2>1, <3>3, StartTxTransactionHead DEF KickHasPayload
  <2>3. CASE ~(config.mode = "PTX" /\ config.tx_mode = "AUTO" /\ Idle)
    BY <1>4, <2>1, <2>3, InFlightUnchanged DEF WritePayloadKick, KickHasPayload
  <2>. QED
    BY <2>2, <2>3
<1>5. CASE StartTx
  <2>1. /\ call'.at # "kick" /\ UNCHANGED tx_fifo /\ tx_fifo.count > 0
        /\ StartTxTransaction(tx_fifo)
    BY <1>0, <1>5 DEF StartTx, May
  <2>2. StartTxTransaction(tx_fifo')
    BY <2>1
  <2>. QED
    BY <1>0, <2>1, <2>2, StartTxTransactionHead DEF KickHasPayload
<1>6. CASE PopTxNow
  BY <1>6 DEF PopTxNow, InFlightInv, RingsInv
<1>. QED
  BY <1>1, <1>2, <1>3, <1>4, <1>5, <1>6 DEF Application

\* A transmission that ends: the next payload is the new head, and a call of
\* nrf_esb_write_payload keeps the payload it has stored.
LEMMA InFlightNextOrIdle ==
  ASSUME InFlightInv, NEW continue \in BOOLEAN, DisabledIrq,
         mainstate \in {"PTX_TX", "PTX_RX_ACK"},
         tx_fifo' = RemoveLast(tx_fifo), NextTransactionOrIdle(tx_fifo', continue),
         continue => tx_fifo'.count > 0,
         config.tx_mode = "AUTO" /\ tx_fifo'.count > 0 => continue,
         UNCHANGED <<config, call>>
  PROVE  InFlightIsHead' /\ KickHasPayload'
<1>1. /\ TypeOK /\ tx_fifo' \in Ring(TX_FIFO_SIZE, Payloads)
      /\ tx_fifo \in Ring(TX_FIFO_SIZE, Payloads)
  BY RemoveLastType DEF InFlightInv, RadioInv, TypeOK
<1>2. call.at = "kick" /\ config.mode = "PTX" /\ config.tx_mode = "AUTO"
        => tx_fifo.count > 1
  BY DEF InFlightInv, KickHasPayload, Transmitting
<1>3. tx_fifo.count > 1 => tx_fifo'.count > 0
  <2>1. tx_fifo.count \in Nat /\ Consistent(tx_fifo, TX_FIFO_SIZE)
    BY <1>1 DEF Ring, InFlightInv, RingsInv, RingsConsistent
  <2>2. tx_fifo.count # 0 => HeadRemoved(tx_fifo, TX_FIFO_SIZE).count = tx_fifo.count - 1
    BY <1>1, <2>1, HeadRemovedConsistent, FifoAssumption
  <2>. QED
    BY <2>1, <2>2 DEF RemoveLast
<1>4. CASE continue
  <2>1. StartTxTransaction(tx_fifo')
    BY <1>4 DEF NextTransactionOrIdle
  <2>2. mainstate' \in {"PTX_TX", "PTX_TX_ACK"} /\ ~radio'.events_disabled
    BY <1>1, <2>1, StartTxTransactionRadio
  <2>3. InFlightIsHead'
    BY <1>1, <1>4, <2>1, StartTxTransactionHead
  <2>4. KickHasPayload'
    BY <2>2 DEF KickHasPayload, DisabledIrq, Idle
  <2>. QED
    BY <2>3, <2>4
<1>5. CASE ~continue
  <2>1. mainstate' = "IDLE"
    BY <1>5 DEF NextTransactionOrIdle
  <2>2. InFlightIsHead'
    BY <2>1, InFlightUnchanged DEF Transmitting
  <2>3. KickHasPayload'
    BY <1>2, <1>3, <1>5, <2>1 DEF KickHasPayload, Transmitting
  <2>. QED
    BY <2>2, <2>3
<1>. QED
  BY <1>4, <1>5

\* The RADIO interrupt keeps the head in flight.
LEMMA InFlightRadioIrq ==
  ASSUME InFlightInv, RadioIrq
  PROVE  InFlightIsHead' /\ KickHasPayload'
<1>. USE DEF setupVars, stateVars, fifoVars, txVars, evtVars, hwVars
<1>0. /\ RadioInv /\ TypeOK /\ radio \in Radios
      /\ RemoveLast(tx_fifo) \in Ring(TX_FIFO_SIZE, Payloads)
  BY RemoveLastType DEF InFlightInv, RadioInv, TypeOK
<1>1. CASE OnRadioDisabledTxNoack
  <2>1. /\ DisabledIrq /\ on_radio_disabled = "tx_noack"
        /\ tx_fifo' = RemoveLast(tx_fifo)
        /\ NextTransactionOrIdle(tx_fifo', tx_fifo'.count # 0)
        /\ UNCHANGED <<config, call>>
    BY <1>1 DEF OnRadioDisabledTxNoack, OnDisabled
  <2>2. tx_fifo'.count \in Nat
    BY <1>0, <2>1 DEF Ring
  <2>3. mainstate = "PTX_TX"
    BY <1>0, <2>1, HandlerOfState
  <2>. DEFINE more == tx_fifo'.count # 0
  <2>4. /\ more \in BOOLEAN /\ NextTransactionOrIdle(tx_fifo', more)
        /\ more <=> tx_fifo'.count > 0
    BY <2>1, <2>2
  <2>. HIDE DEF more
  <2>. QED
    BY <2>1, <2>3, <2>4, InFlightNextOrIdle
<1>2. CASE OnRadioDisabledTx
  <2>1. /\ DisabledIrq /\ on_radio_disabled = "tx" /\ mainstate' = "PTX_RX_ACK"
        /\ radio' = [Served EXCEPT !.shorts = "none", !.events_end = FALSE]
        /\ UNCHANGED <<config, call, tx_fifo, mp_current_payload, tx_payload_buffer>>
    BY <1>2 DEF OnRadioDisabledTx, OnDisabled
  <2>2. mainstate = "PTX_TX_ACK"
    BY <1>0, <2>1, HandlerOfState
  <2>3. radio'.txaddress = radio.txaddress
    <3>1. Served \in Radios /\ Served.txaddress = radio.txaddress
      BY <1>0, RadioTypes DEF Served, Radios
    <3>. QED
      BY <2>1, <3>1 DEF Radios
  <2>4. InFlightIsHead'
    BY <2>1, <2>2, <2>3, InFlightUnchanged DEF Transmitting
  <2>5. KickHasPayload'
    BY <2>1, <2>2 DEF InFlightInv, KickHasPayload, Transmitting, Idle
  <2>. QED
    BY <2>4, <2>5
<1>3. CASE OnRadioDisabledTxAcked
  <2>1. /\ DisabledIrq /\ on_radio_disabled = "tx_wait_for_ack"
        /\ tx_fifo' = RemoveLast(tx_fifo)
        /\ NextTransactionOrIdle(tx_fifo', Continues(tx_fifo'))
        /\ UNCHANGED <<config, call>>
    BY <1>3 DEF OnRadioDisabledTxAcked, OnDisabled
  <2>2. tx_fifo'.count \in Nat
    BY <1>0, <2>1 DEF Ring
  <2>3. mainstate = "PTX_RX_ACK"
    BY <1>0, <2>1, HandlerOfState
  <2>4. /\ Continues(tx_fifo') \in BOOLEAN
        /\ Continues(tx_fifo') => tx_fifo'.count > 0
        /\ config.tx_mode = "AUTO" /\ tx_fifo'.count > 0 => Continues(tx_fifo')
    BY <2>1, <2>2 DEF Continues
  <2>. QED
    BY <2>1, <2>3, <2>4, InFlightNextOrIdle
<1>4. CASE OnRadioDisabledTxFailed
  <2>1. /\ DisabledIrq /\ on_radio_disabled = "tx_wait_for_ack"
        /\ mainstate' = "IDLE" /\ UNCHANGED <<config, call, tx_fifo>>
    BY <1>4 DEF OnRadioDisabledTxFailed, OnDisabled
  <2>2. mainstate = "PTX_RX_ACK"
    BY <1>0, <2>1, HandlerOfState
  <2>3. tx_fifo.count \in Nat
    BY <1>0 DEF TypeOK, Ring
  <2>4. InFlightIsHead'
    BY <2>1, InFlightUnchanged DEF Transmitting
  <2>5. KickHasPayload'
    BY <2>1, <2>2, <2>3 DEF InFlightInv, KickHasPayload, Transmitting
  <2>. QED
    BY <2>4, <2>5
<1>5. CASE OnRadioDisabledTxRetry
  <2>1. /\ DisabledIrq /\ on_radio_disabled = "tx_wait_for_ack"
        /\ mainstate' = "PTX_TX_ACK"
        /\ UNCHANGED <<config, call, tx_fifo, mp_current_payload, tx_payload_buffer>>
    BY <1>5 DEF OnRadioDisabledTxRetry, OnDisabled
  <2>2. mainstate = "PTX_RX_ACK"
    BY <1>0, <2>1, HandlerOfState
  <2>3. radio'.txaddress = radio.txaddress /\ ~radio'.events_disabled
    <3>1. /\ Served \in Radios /\ Served.txaddress = radio.txaddress
          /\ ~Served.events_disabled
      BY <1>0, RadioTypes DEF Served, Radios
    <3>. QED
      BY <1>5, <3>1 DEF OnRadioDisabledTxRetry, Radios
  <2>4. InFlightIsHead'
    BY <2>1, <2>2, <2>3, InFlightUnchanged DEF Transmitting
  <2>5. KickHasPayload'
    BY <2>1, <2>3 DEF KickHasPayload, Idle, DisabledIrq
  <2>. QED
    BY <2>4, <2>5
<1>6. CASE \/ OnRadioDisabledRxDrop \/ OnRadioDisabledRxNoack \/ OnRadioDisabledRxAck
           \/ OnRadioDisabledRxAckSent
  <2>1. DisabledIrq /\ on_radio_disabled \in {"rx", "rx_ack"}
    BY <1>6 DEF OnRadioDisabledRxDrop, OnRadioDisabledRxNoack, OnRadioDisabledRxAck,
       OnRadioDisabledRxAckSent, OnDisabled
  <2>2. mainstate \in {"PRX", "PRX_SEND_ACK"}
    BY <1>0, <2>1, HandlerOfState
  <2>3. mainstate' \in {"PRX", "PRX_SEND_ACK"}
    BY <1>6, <2>2 DEF OnRadioDisabledRxDrop, OnRadioDisabledRxNoack,
       OnRadioDisabledRxAck, OnRadioDisabledRxAckSent
  <2>. QED
    BY <2>3, InFlightUnchanged DEF KickHasPayload, Transmitting, Idle
<1>. QED
  BY <1>1, <1>2, <1>3, <1>4, <1>5, <1>6 DEF RadioIrq

\* The hardware and ESB_EVT keep the head in flight.
LEMMA InFlightEvtIrqHardware ==
  ASSUME "preempted" \notin API, InFlightInv, EvtIrq \/ Hardware
  PROVE  InFlightIsHead' /\ KickHasPayload'
<1>. USE DEF setupVars, stateVars, fifoVars, txVars, evtVars, hwVars
<1>0. /\ RadioInv /\ TypeOK /\ radio \in Radios /\ mainstate \in MainStates
      /\ KickHasPayload
  BY DEF InFlightInv, RadioInv, TypeOK
<1>1. /\ UNCHANGED <<config, mainstate, tx_fifo, mp_current_payload, tx_payload_buffer>>
      /\ radio'.txaddress = radio.txaddress
  BY <1>0 DEF EvtIrq, Hardware, EsbEvtIrq, GetClearInterrupts, DeliverEvent, TxEnd,
     Receive, RxEnd, RxTimeout, TimerCompare1, Radios
<1>2. InFlightIsHead'
  BY <1>1, InFlightUnchanged
<1>3. KickHasPayload'
  <2>1. CASE EvtIrq
    <3>1. call'.at # "kick" \/ UNCHANGED call
      BY <1>0, <2>1 DEF EvtIrq, EsbEvtIrq, GetClearInterrupts, DeliverEvent, TypeOK
    <3>2. UNCHANGED radio
      BY <2>1 DEF EvtIrq, EsbEvtIrq, GetClearInterrupts, DeliverEvent
    <3>. QED
      BY <1>0, <1>1, <3>1, <3>2 DEF KickHasPayload, DisabledIrq, Idle
  <2>2. CASE TxEnd
    BY <2>2 DEF TxEnd, KickHasPayload
  <2>3. CASE Receive \/ RxTimeout
    <3>1. radio.state = "rx" /\ ~DisabledIrq /\ UNCHANGED call
      BY <2>3 DEF Receive, RxEnd, RxTimeout
    <3>2. mainstate \notin {"PTX_TX", "PTX_TX_ACK"}
      BY <1>0, <3>1 DEF RadioInv, RadioFollowsState
    <3>. QED
      BY <1>0, <1>1, <3>1, <3>2 DEF KickHasPayload, Transmitting, Idle
  <2>4. CASE TimerCompare1
    <3>1. /\ radio'.events_disabled = radio.events_disabled
          /\ radio'.inten = radio.inten /\ UNCHANGED call
      BY <1>0, <2>4 DEF TimerCompare1, Radios
    <3>. QED
      BY <1>0, <1>1, <3>1 DEF KickHasPayload, DisabledIrq, Idle
  <2>. QED
    BY <2>1, <2>2, <2>3, <2>4 DEF Hardware
<1>. QED
  BY <1>2, <1>3

\* InFlightInv holds initially and is kept by every step.
LEMMA InFlightInvInit == Init => InFlightInv
<1>1. Init => InFlightIsHead /\ KickHasPayload
  BY DEF Init, InFlightIsHead, KickHasPayload, Transmitting
<1>. QED
  BY <1>1, RadioInvInit, RingsInvInit DEF InFlightInv

LEMMA InFlightInvStep ==
  ASSUME "abort" \notin API, "preempted" \notin API, "pop_tx" \notin API,
         InFlightInv, [Next]_vars
  PROVE  InFlightInv'
<1>1. RadioInv' /\ RingsInv'
  BY RadioInvStep, RingsInvStep DEF InFlightInv
<1>2. UNCHANGED vars => (InFlightIsHead /\ KickHasPayload)'
  BY DEF vars, setupVars, stateVars, fifoVars, txVars, hwVars, InFlightInv,
     InFlightIsHead, KickHasPayload, DisabledIrq, Idle
<1>3. Next => (InFlightIsHead /\ KickHasPayload)'
  BY InFlightApplication, InFlightRadioIrq, InFlightEvtIrqHardware DEF Next
<1>. QED
  BY <1>1, <1>2, <1>3 DEF InFlightInv

\* InFlightInv is an invariant of the specification.
LEMMA InFlightInvCorrect ==
  ASSUME "abort" \notin API, "preempted" \notin API, "pop_tx" \notin API
  PROVE  Spec => []InFlightInv
<1>1. InFlightInv /\ [Next]_vars => InFlightInv'
  BY InFlightInvStep
<1>. QED
  BY <1>1, InFlightInvInit, PTL DEF Spec

\* While a transmission is under way, the packet in the buffer of the radio is the
\* payload at the exit of the TX FIFO, which the acknowledgment will remove.
THEOREM HeadInFlight ==
  ASSUME "abort" \notin API, "preempted" \notin API, "pop_tx" \notin API
  PROVE  Spec => []InFlightIsHead
<1>1. InFlightInv => InFlightIsHead
  BY DEF InFlightInv
<1>. QED
  BY <1>1, InFlightInvCorrect, PTL

-----------------------------------------------------------------------------
(* No payload is left behind in the TX FIFO of a PTX in automatic mode. *)

\* The node only transmits: nothing else keeps nrf_esb_write_payload from starting.
NeverListens == mainstate \notin {"PRX", "PRX_SEND_ACK"}

\* The inductive invariant.
StrandedInv == RadioInv /\ RingsInv /\ NeverListens /\ NoPayloadStranded

\* An API call leaves no payload behind.
LEMMA StrandedApplication ==
  ASSUME "pop_tx" \notin API, "start_rx" \notin API, StrandedInv, Application
  PROVE  NeverListens' /\ NoPayloadStranded'
<1>. USE DEF setupVars, stateVars, fifoVars, txVars, evtVars, hwVars
<1>0. /\ TypeOK /\ call.at # "pop" /\ NeverListens /\ NoPayloadStranded
      /\ mainstate \notin {"PRX", "PRX_SEND_ACK"}
      /\ call.at # "stop_rx" /\ call.at # "stopping"
  BY DEF StrandedInv, RadioInv, RingsInv, StopsReception, NeverListens
<1>1. CASE EsbInit \/ EsbDisable \/ FlushTx
  <2>1. tx_fifo' = Flushed(tx_fifo)
    BY <1>1 DEF EsbInit, EsbDisable, FlushTx, Disabled
  <2>2. tx_fifo'.count = 0
    BY <1>0, <2>1 DEF Flushed, TypeOK, Ring
  <2>3. NeverListens'
    BY <1>0, <1>1 DEF EsbInit, EsbDisable, FlushTx, Disabled, NeverListens
  <2>. QED
    BY <2>2, <2>3 DEF NoPayloadStranded
<1>2. CASE EsbSuspend \/ WritePayload \/ ReadRxPayload \/ ReadRxPayloadTake \/ PopTx
           \/ FlushRx \/ SetRfChannel \/ SetAddresses \/ SetPrefixes \/ EnablePipes
  <2>1. UNCHANGED <<mainstate, config, tx_fifo, retransmits_remaining>>
    BY <1>2 DEF EsbSuspend, WritePayload, ReadRxPayload, ReadRxPayloadTake, PopTx,
       FlushRx, SetRfChannel, SetAddresses, SetPrefixes, EnablePipes
  <2>2. call.at # "kick"
    BY <1>0, <1>2 DEF EsbSuspend, WritePayload, ReadRxPayload, ReadRxPayloadTake,
       PopTx, FlushRx, SetRfChannel, SetAddresses, SetPrefixes, EnablePipes, May
  <2>. QED
    BY <1>0, <2>1, <2>2 DEF NeverListens, NoPayloadStranded, Idle
<1>3. CASE WritePayloadStore
  <2>1. call'.at = "kick" /\ UNCHANGED mainstate
    BY <1>0, <1>3 DEF WritePayloadStore, TypeOK
  <2>. QED
    BY <1>0, <2>1 DEF NeverListens, NoPayloadStranded
<1>4. CASE WritePayloadKick \/ StartTx
  <2>1. CASE StartTxTransaction(tx_fifo)
    <3>1. mainstate' \in {"PTX_TX", "PTX_TX_ACK"}
      BY <2>1 DEF StartTxTransaction
    <3>. QED
      BY <3>1 DEF NeverListens, NoPayloadStranded, Idle
  <2>2. CASE ~StartTxTransaction(tx_fifo)
    <3>1. /\ UNCHANGED <<mainstate, config>>
          /\ ~(config.mode = "PTX" /\ config.tx_mode = "AUTO" /\ Idle)
      BY <1>4, <2>2 DEF WritePayloadKick, StartTx
    <3>. QED
      BY <1>0, <3>1 DEF NeverListens, NoPayloadStranded, Idle
  <2>. QED
    BY <2>1, <2>2
<1>5. CASE StartRx \/ StopRx \/ StopRxShorts \/ StopRxNow \/ PopTxNow
  BY <1>0, <1>5 DEF StartRx, May, StopRx, StopRxShorts, StopRxNow, PopTxNow
<1>. QED
  BY <1>1, <1>2, <1>3, <1>4, <1>5 DEF Application

\* Nor does a transmission that ends: if it is not followed by the next, the FIFO
\* is empty, the mode is manual, or it has failed and the counter has wrapped.
LEMMA StrandedRadioIrq ==
  ASSUME StrandedInv, RadioIrq
  PROVE  NeverListens' /\ NoPayloadStranded'
<1>. USE DEF setupVars, stateVars, fifoVars, txVars, evtVars, hwVars
<1>0. RadioInv /\ TypeOK /\ NeverListens
  BY DEF StrandedInv, RadioInv
<1>1. DisabledIrq
  BY DEF RadioIrq, OnRadioDisabledTxNoack, OnRadioDisabledTx, OnRadioDisabledTxAcked,
     OnRadioDisabledTxFailed, OnRadioDisabledTxRetry, OnRadioDisabledRxDrop,
     OnRadioDisabledRxNoack, OnRadioDisabledRxAck, OnRadioDisabledRxAckSent, OnDisabled
<1>2. on_radio_disabled \notin {"rx", "rx_ack"}
  BY <1>0, <1>1, HandlerOfState DEF NeverListens
<1>3. CASE OnRadioDisabledTxNoack \/ OnRadioDisabledTxAcked
  <2>1. PICK more \in BOOLEAN :
          /\ NextTransactionOrIdle(tx_fifo', more)
          /\ more \/ tx_fifo'.count = 0 \/ config.tx_mode = "MANUAL"
    <3>1. CASE OnRadioDisabledTxNoack
      BY <3>1 DEF OnRadioDisabledTxNoack
    <3>2. CASE OnRadioDisabledTxAcked
      BY <3>2 DEF OnRadioDisabledTxAcked, Continues
    <3>. QED
      BY <1>3, <3>1, <3>2
  <2>2. UNCHANGED config
    BY <1>3 DEF OnRadioDisabledTxNoack, OnRadioDisabledTxAcked
  <2>3. CASE more
    <3>1. mainstate' \in {"PTX_TX", "PTX_TX_ACK"}
      BY <2>1, <2>3 DEF NextTransactionOrIdle, StartTxTransaction
    <3>. QED
      BY <3>1 DEF NeverListens, NoPayloadStranded, Idle
  <2>4. CASE ~more
    <3>1. mainstate' = "IDLE"
      BY <2>1, <2>4 DEF NextTransactionOrIdle
    <3>. QED
      BY <2>1, <2>2, <2>4, <3>1 DEF NeverListens, NoPayloadStranded
  <2>. QED
    BY <2>3, <2>4
<1>4. CASE OnRadioDisabledTxFailed
  BY <1>4 DEF OnRadioDisabledTxFailed, SpendRetransmit, Dec32, NeverListens,
     NoPayloadStranded
<1>5. CASE OnRadioDisabledTx \/ OnRadioDisabledTxRetry
  <2>1. mainstate' \in Transmitting
    BY <1>5 DEF OnRadioDisabledTx, OnRadioDisabledTxRetry, Transmitting
  <2>. QED
    BY <2>1 DEF NeverListens, NoPayloadStranded, Idle, Transmitting
<1>6. CASE \/ OnRadioDisabledRxDrop \/ OnRadioDisabledRxNoack \/ OnRadioDisabledRxAck
           \/ OnRadioDisabledRxAckSent
  BY <1>2, <1>6 DEF OnRadioDisabledRxDrop, OnRadioDisabledRxNoack,
     OnRadioDisabledRxAck, OnRadioDisabledRxAckSent, OnDisabled
<1>. QED
  BY <1>3, <1>4, <1>5, <1>6 DEF RadioIrq

\* The hardware and ESB_EVT change nothing this depends on, and do not return to
\* a call of nrf_esb_write_payload before its test of the state.
LEMMA StrandedEvtIrqHardware ==
  ASSUME StrandedInv, EvtIrq \/ Hardware
  PROVE  NeverListens' /\ NoPayloadStranded'
<1>. USE DEF setupVars, stateVars, fifoVars, txVars, evtVars, hwVars
<1>1. UNCHANGED <<mainstate, config, tx_fifo, retransmits_remaining>>
  BY DEF EvtIrq, Hardware, EsbEvtIrq, GetClearInterrupts, DeliverEvent, TxEnd,
     Receive, RxEnd, RxTimeout, TimerCompare1
<1>2. call.at = "kick" => call'.at = "kick"
  BY DEF EvtIrq, Hardware, EsbEvtIrq, GetClearInterrupts, DeliverEvent, TxEnd,
     Receive, RxEnd, RxTimeout, TimerCompare1
<1>. QED
  BY <1>1, <1>2 DEF StrandedInv, NeverListens, NoPayloadStranded, Idle

\* A PTX in automatic mode that never listens leaves no payload behind: when it is
\* idle with payloads in its TX FIFO, the transmission of the first has failed.
THEOREM NothingStranded ==
  ASSUME "abort" \notin API, "preempted" \notin API, "pop_tx" \notin API,
         "start_rx" \notin API
  PROVE  Spec => []NoPayloadStranded
<1>1. Init => NeverListens /\ NoPayloadStranded
  BY DEF Init, NeverListens, NoPayloadStranded, ZeroRing
<1>2. StrandedInv /\ [Next]_vars => (NeverListens /\ NoPayloadStranded)'
  <2>1. StrandedInv /\ UNCHANGED vars => (NeverListens /\ NoPayloadStranded)'
    BY DEF vars, setupVars, stateVars, fifoVars, txVars, StrandedInv, NeverListens,
       NoPayloadStranded, Idle
  <2>. QED
    BY <2>1, StrandedApplication, StrandedRadioIrq, StrandedEvtIrqHardware DEF Next
<1>3. Spec => []RadioInv /\ []RingsInv
  BY RadioInvCorrect, RingsInvCorrect
<1>. QED
  BY <1>1, <1>2, <1>3, PTL DEF Spec, StrandedInv
=============================================================================
