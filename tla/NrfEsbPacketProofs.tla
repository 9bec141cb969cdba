------------------------- MODULE NrfEsbPacketProofs -------------------------
(***************************************************************************)
(* Theorems about NrfEsb and the packets of a transmission: the radio is   *)
(* tuned as the application has set it, attempts are counted right, and    *)
(* the packet ids of a pipe follow one another.  The first two are, like   *)
(* those of NrfEsbRadioProofs, about applications without "abort" and      *)
(* "preempted", the last about those that do not call nrf_esb_pop_tx.      *)
(***************************************************************************)
EXTENDS NrfEsbRadioProofs, FiniteSetTheorems

-----------------------------------------------------------------------------
(* The radio is tuned as set. *)

\* A transmission that starts tunes the radio.
LEMMA StartTxTransactionTunes ==
  ASSUME TypeOK, NEW fifo, StartTxTransaction(fifo)
  PROVE  /\ radio'.frequency = esb_addr.rf_channel
         /\ mainstate' \in {"PTX_TX", "PTX_TX_ACK"}
  BY DEF StartTxTransaction, TypeOK, Radios

\* An API call that leaves the node out of idle has found it idle and tuned it, or
\* has changed no setting.
LEMMA TunedApplication ==
  ASSUME RadioInv, TunedAsSet, Application
  PROVE  TunedAsSet'
<1>. USE DEF setupVars, stateVars, fifoVars, txVars, evtVars, hwVars
<1>0. TypeOK /\ radio \in Radios
  BY DEF RadioInv, TypeOK
<1>1. CASE EsbInit \/ EsbDisable \/ StopRxNow
  <2>1. mainstate' = "IDLE"
    BY <1>1 DEF EsbInit, EsbDisable, StopRxNow, Disabled
  <2>. QED
    BY <2>1 DEF TunedAsSet
<1>2. CASE \/ EsbSuspend \/ WritePayload \/ WritePayloadStore \/ ReadRxPayload
           \/ ReadRxPayloadTake \/ StopRx \/ FlushTx \/ PopTx \/ PopTxNow \/ FlushRx
  <2>1. UNCHANGED <<mainstate, radio, esb_addr>>
    BY <1>2 DEF EsbSuspend, WritePayload, WritePayloadStore, ReadRxPayload,
       ReadRxPayloadTake, StopRx, FlushTx, PopTx, PopTxNow, FlushRx
  <2>. QED
    BY <2>1 DEF TunedAsSet
<1>3. CASE WritePayloadKick \/ StartTx
  <2>1. UNCHANGED esb_addr
    BY <1>3 DEF WritePayloadKick, StartTx
  <2>2. CASE StartTxTransaction(tx_fifo)
    BY <1>0, <2>1, <2>2, StartTxTransactionTunes DEF TunedAsSet
  <2>3. CASE UNCHANGED <<mainstate, radio>>
    BY <2>1, <2>3 DEF TunedAsSet
  <2>. QED
    BY <1>3, <2>2, <2>3 DEF WritePayloadKick, StartTx
<1>4. CASE StartRx
  BY <1>0, <1>4 DEF StartRx, TunedAsSet, Radios
<1>5. CASE StopRxShorts
  BY <1>0, <1>5 DEF StopRxShorts, TunedAsSet, Radios
<1>6. CASE SetRfChannel \/ SetAddresses \/ SetPrefixes \/ EnablePipes
  BY <1>6 DEF SetRfChannel, SetAddresses, SetPrefixes, EnablePipes, Idle, TunedAsSet
<1>. QED
  BY <1>1, <1>2, <1>3, <1>4, <1>5, <1>6 DEF Application

\* The RADIO interrupt finds the node out of idle and keeps the radio as it is, or
\* starts the next transmission.
LEMMA TunedRadioIrq ==
  ASSUME RadioInv, TunedAsSet, RadioIrq
  PROVE  TunedAsSet'
<1>. USE DEF setupVars, stateVars, fifoVars, txVars, evtVars, hwVars
<1>0. TypeOK /\ radio \in Radios
  BY DEF RadioInv, TypeOK
<1>1. UNCHANGED esb_addr
  BY DEF RadioIrq, OnRadioDisabledTxNoack, OnRadioDisabledTx, OnRadioDisabledTxAcked,
     OnRadioDisabledTxFailed, OnRadioDisabledTxRetry, OnRadioDisabledRxDrop,
     OnRadioDisabledRxNoack, OnRadioDisabledRxAck, OnRadioDisabledRxAckSent
<1>2. CASE OnRadioDisabledTxNoack \/ OnRadioDisabledTxAcked
  <2>1. PICK more \in BOOLEAN : NextTransactionOrIdle(tx_fifo', more)
    <3>1. CASE OnRadioDisabledTxNoack
      BY <3>1 DEF OnRadioDisabledTxNoack
    <3>2. CASE OnRadioDisabledTxAcked
      BY <3>2 DEF OnRadioDisabledTxAcked, Continues
    <3>. QED
      BY <1>2, <3>1, <3>2
  <2>2. StartTxTransaction(tx_fifo') \/ mainstate' = "IDLE"
    BY <2>1 DEF NextTransactionOrIdle
  <2>. QED
    BY <1>0, <1>1, <2>2, StartTxTransactionTunes DEF TunedAsSet
<1>3. CASE OnRadioDisabledTxFailed
  BY <1>3 DEF OnRadioDisabledTxFailed, TunedAsSet
<1>4. CASE OnRadioDisabledTx \/ OnRadioDisabledTxRetry
  <2>1. /\ radio'.frequency = radio.frequency
        /\ mainstate' \in {"PTX_RX_ACK", "PTX_TX_ACK"}
    BY <1>0, <1>4 DEF OnRadioDisabledTx, OnRadioDisabledTxRetry, Served, Radios
  <2>2. mainstate # "IDLE"
    BY <1>4, HandlerOfState DEF OnRadioDisabledTx, OnRadioDisabledTxRetry, OnDisabled
  <2>. QED
    BY <1>1, <2>1, <2>2 DEF TunedAsSet
<1>5. CASE \/ OnRadioDisabledRxDrop \/ OnRadioDisabledRxNoack \/ OnRadioDisabledRxAck
           \/ OnRadioDisabledRxAckSent
  <2>1. /\ radio'.frequency = radio.frequency
        /\ radio'.rxaddresses = radio.rxaddresses
    BY <1>0, <1>5 DEF OnRadioDisabledRxDrop, OnRadioDisabledRxNoack,
       OnRadioDisabledRxAck, OnRadioDisabledRxAckSent, ClearEventsRestartRx, Served,
       Radios
  <2>2. mainstate \in {"PRX", "PRX_SEND_ACK"}
    BY <1>5, HandlerOfState DEF OnRadioDisabledRxDrop, OnRadioDisabledRxNoack,
       OnRadioDisabledRxAck, OnRadioDisabledRxAckSent, OnDisabled
  <2>. QED
    BY <1>1, <2>1, <2>2 DEF TunedAsSet
<1>. QED
  BY <1>2, <1>3, <1>4, <1>5 DEF RadioIrq

LEMMA TunedEvtIrqHardware ==
  ASSUME RadioInv, TunedAsSet, EvtIrq \/ Hardware
  PROVE  TunedAsSet'
<1>. USE DEF setupVars, stateVars, fifoVars, txVars, evtVars, hwVars
<1>1. radio \in Radios
  BY DEF RadioInv, TypeOK
<1>2. /\ UNCHANGED <<mainstate, esb_addr>>
      /\ radio'.frequency = radio.frequency
      /\ radio'.rxaddresses = radio.rxaddresses
  BY <1>1 DEF EvtIrq, Hardware, EsbEvtIrq, GetClearInterrupts, DeliverEvent, TxEnd,
     Receive, RxEnd, RxTimeout, TimerCompare1, Radios
<1>. QED
  BY <1>2 DEF TunedAsSet

\* No setter takes effect under a transmission or a reception: the registers of a
\* radio at work hold what was set last.
THEOREM Tuned ==
  ASSUME "abort" \notin API, "preempted" \notin API
  PROVE  Spec => []TunedAsSet
<1>1. Init => TunedAsSet
  BY DEF Init, TunedAsSet
<1>2. RadioInv /\ TunedAsSet /\ [Next]_vars => TunedAsSet'
  <2>1. TunedAsSet /\ UNCHANGED vars => TunedAsSet'
    BY DEF vars, setupVars, stateVars, hwVars, TunedAsSet
  <2>. QED
    BY <2>1, TunedApplication, TunedRadioIrq, TunedEvtIrqHardware DEF Next
<1>3. Spec => []RadioInv
  BY RadioInvCorrect
<1>. QED
  BY <1>1, <1>2, <1>3, PTL DEF Spec

-----------------------------------------------------------------------------
(* Attempts are counted right. *)

\* Out of an acknowledged transmission m_last_tx_attempts already is the number of
\* packets of the last transmission, also while the node listens; a packet that wants
\* no acknowledgment is one.
AttemptsKept ==
  /\ mainstate = "PTX_TX" =>
       last_tx_attempts = 1 /\ hist.air = (IF DisabledIrq THEN 1 ELSE 0)
  /\ mainstate \in {"IDLE", "PRX", "PRX_SEND_ACK"} /\ hist.air > 0 =>
       last_tx_attempts = hist.air /\ hist.air <= config.retransmit_count + 1

\* The inductive invariant.
AttemptsInv == RadioInv /\ AttemptsAccounted /\ AttemptsKept

\* Nothing that is counted changes.
LEMMA AttemptsUnchanged ==
  ASSUME AttemptsAccounted, AttemptsKept,
         UNCHANGED <<config, mainstate, retransmits_remaining, last_tx_attempts>>,
         hist'.air = hist.air, DisabledIrq' = DisabledIrq
  PROVE  AttemptsAccounted' /\ AttemptsKept'
  BY DEF AttemptsAccounted, AttemptsKept, Idle

\* A transmission that starts has all its retransmissions left and a packet on air.
LEMMA AttemptsStart ==
  ASSUME TypeOK, NEW fifo \in Ring(TX_FIFO_SIZE, Payloads), StartTxTransaction(fifo),
         hist' = [hist EXCEPT !.air = 0], UNCHANGED config
  PROVE  AttemptsAccounted' /\ AttemptsKept'
<1>1. /\ mainstate' \in {"PTX_TX", "PTX_TX_ACK"} /\ last_tx_attempts' = 1
      /\ mainstate' = "PTX_TX_ACK" => retransmits_remaining' = config.retransmit_count
      /\ ~radio'.events_disabled
  BY DEF StartTxTransaction, Retransmits, TypeOK, Radios
<1>2. hist'.air = 0
  BY DEF TypeOK, Hists
<1>3. config.retransmit_count \in Nat
  BY ConfigType
<1>. QED
  BY <1>1, <1>2, <1>3 DEF AttemptsAccounted, AttemptsKept, DisabledIrq, Idle

\* An API call starts a transmission, forgets the last one, or leaves the counters.
LEMMA AttemptsApplication ==
  ASSUME "abort" \notin API, "preempted" \notin API, AttemptsInv, Application
  PROVE  AttemptsAccounted' /\ AttemptsKept'
<1>. USE DEF setupVars, stateVars, fifoVars, txVars, evtVars, hwVars
<1>0. /\ RadioInv /\ TypeOK /\ AttemptsAccounted /\ AttemptsKept
      /\ tx_fifo \in Ring(TX_FIFO_SIZE, Payloads) /\ radio \in Radios /\ hist \in Hists
  BY DEF AttemptsInv, RadioInv, TypeOK
<1>1. CASE EsbInit \/ EsbDisable
  <2>1. mainstate' = "IDLE" /\ hist'.air = 0
    BY <1>0, <1>1 DEF EsbInit, EsbDisable, Disabled, Hists
  <2>. QED
    BY <2>1 DEF AttemptsAccounted, AttemptsKept, Idle
<1>2. CASE \/ EsbSuspend \/ WritePayload \/ WritePayloadStore \/ ReadRxPayload
           \/ ReadRxPayloadTake \/ StopRx \/ FlushTx \/ PopTx \/ PopTxNow \/ FlushRx
           \/ SetRfChannel \/ SetAddresses \/ SetPrefixes \/ EnablePipes
  <2>1. /\ UNCHANGED <<config, mainstate, retransmits_remaining, last_tx_attempts, radio>>
        /\ hist'.air = hist.air
    BY <1>0, <1>2 DEF EsbSuspend, WritePayload, WritePayloadStore, ReadRxPayload,
       ReadRxPayloadTake, StopRx, FlushTx, PopTx, PopTxNow, FlushRx, SetRfChannel,
       SetAddresses, SetPrefixes, EnablePipes, Hists
  <2>. QED
    BY <1>0, <2>1, AttemptsUnchanged DEF DisabledIrq
<1>3. CASE WritePayloadKick \/ StartTx
  <2>1. CASE StartTxTransaction(tx_fifo) /\ hist' = [hist EXCEPT !.air = 0]
    <3>1. UNCHANGED config
      BY <1>3 DEF WritePayloadKick, StartTx
    <3>. QED
      BY <1>0, <2>1, <3>1, AttemptsStart
  <2>2. CASE UNCHANGED <<stateVars, txVars, radio, hist>> /\ UNCHANGED config
    BY <1>0, <2>2, AttemptsUnchanged DEF DisabledIrq
  <2>. QED
    BY <1>3, <2>1, <2>2 DEF WritePayloadKick, StartTx
<1>4. CASE StartRx \/ StopRxNow
  <2>1. /\ mainstate \in {"IDLE", "PRX", "PRX_SEND_ACK"}
        /\ mainstate' \in {"IDLE", "PRX"}
        /\ UNCHANGED <<config, last_tx_attempts, hist>>
    BY <1>0, <1>4 DEF StartRx, StopRxNow, Idle, RadioInv, StopsReception
  <2>. QED
    BY <1>0, <2>1 DEF AttemptsAccounted, AttemptsKept, Idle
<1>5. CASE StopRxShorts
  BY <1>5 DEF StopRxShorts
<1>. QED
  BY <1>1, <1>2, <1>3, <1>4, <1>5 DEF Application

\* A transmission ends with m_last_tx_attempts set to the packets it took, is retried
\* for one of the retransmissions left, or is followed by the next.
LEMMA AttemptsRadioIrq ==
  ASSUME AttemptsInv, RadioIrq
  PROVE  AttemptsAccounted' /\ AttemptsKept'
<1>. USE DEF setupVars, stateVars, fifoVars, txVars, evtVars, hwVars
<1>0. /\ RadioInv /\ TypeOK /\ AttemptsAccounted /\ AttemptsKept
      /\ RemoveLast(tx_fifo) \in Ring(TX_FIFO_SIZE, Payloads)
      /\ radio \in Radios /\ hist \in Hists /\ hist.air \in Nat
      /\ retransmits_remaining \in Nat
      /\ config.retransmit_count \in Nat
      /\ config.retransmit_count + 1 <= UINT32_MAX
  <2>1. RadioInv /\ TypeOK /\ AttemptsAccounted /\ AttemptsKept
    BY DEF AttemptsInv, RadioInv
  <2>2. radio \in Radios /\ hist \in Hists /\ retransmits_remaining \in Nat
    BY <2>1 DEF TypeOK
  <2>. QED
    BY <2>1, <2>2, ConfigType, RemoveLastType, UInt32Assumption DEF Hists
<1>. DEFINE total == config.retransmit_count + 1
<1>1. CASE OnRadioDisabledTxNoack
  <2>1. /\ DisabledIrq /\ on_radio_disabled = "tx_noack"
        /\ tx_fifo' = RemoveLast(tx_fifo)
        /\ NextTransactionOrIdle(tx_fifo', tx_fifo'.count # 0)
        /\ tx_fifo'.count = 0 => UNCHANGED last_tx_attempts
        /\ hist' = [hist EXCEPT !.air = IF tx_fifo'.count = 0 THEN @ ELSE 0]
        /\ UNCHANGED config
    BY <1>1 DEF OnRadioDisabledTxNoack, OnDisabled
  <2>2. CASE tx_fifo'.count # 0
    <3>1. StartTxTransaction(tx_fifo')
      BY <2>1, <2>2 DEF NextTransactionOrIdle
    <3>2. hist' = [hist EXCEPT !.air = 0]
      BY <2>1, <2>2
    <3>. QED
      BY <1>0, <2>1, <3>1, <3>2, AttemptsStart
  <2>3. CASE tx_fifo'.count = 0
    <3>1. last_tx_attempts = 1 /\ hist.air = 1
      BY <1>0, <2>1, HandlerOfState DEF AttemptsKept
    <3>2. mainstate' = "IDLE" /\ last_tx_attempts' = 1 /\ hist'.air = 1
      BY <1>0, <2>1, <2>3, <3>1 DEF NextTransactionOrIdle, Hists
    <3>. QED
      BY <1>0, <2>1, <3>2 DEF AttemptsAccounted, AttemptsKept, Idle
  <2>. QED
    BY <2>2, <2>3
<1>2. CASE OnRadioDisabledTx
  <2>1. /\ DisabledIrq /\ on_radio_disabled = "tx" /\ mainstate' = "PTX_RX_ACK"
        /\ UNCHANGED <<config, retransmits_remaining, hist>>
    BY <1>2 DEF OnRadioDisabledTx, OnDisabled
  <2>2. mainstate = "PTX_TX_ACK"
    BY <1>0, <2>1, HandlerOfState
  <2>3. hist.air + retransmits_remaining = total
    BY <1>0, <2>1, <2>2 DEF AttemptsAccounted
  <2>. QED
    BY <1>0, <2>1, <2>3 DEF AttemptsAccounted, AttemptsKept, Idle
<1>3. CASE OnRadioDisabledTxAcked
  <2>. DEFINE attempts == (config.retransmit_count - retransmits_remaining + 1)
                            % (UINT32_MAX + 1)
              more == Continues(tx_fifo')
  <2>1. /\ DisabledIrq /\ on_radio_disabled = "tx_wait_for_ack"
        /\ tx_fifo' = RemoveLast(tx_fifo)
        /\ NextTransactionOrIdle(tx_fifo', more)
        /\ ~more => last_tx_attempts' = attempts
        /\ hist' = [hist EXCEPT !.air = IF more THEN 0 ELSE @]
        /\ UNCHANGED config
    BY <1>3 DEF OnRadioDisabledTxAcked, OnDisabled
  <2>2. hist.air + retransmits_remaining = total
    BY <1>0, <2>1, HandlerOfState DEF AttemptsAccounted
  <2>3. attempts = hist.air
    <3>1. config.retransmit_count - retransmits_remaining + 1 = hist.air
      BY <1>0, <2>2
    <3>2. hist.air <= UINT32_MAX
      BY <1>0, <2>2, UInt32Assumption
    <3>3. ASSUME NEW n \in Nat, n <= UINT32_MAX PROVE n % (UINT32_MAX + 1) = n
      BY <3>3, UInt32Assumption, SMT
    <3>. QED
      BY <1>0, <3>1, <3>2, <3>3
  <2>. HIDE DEF attempts, more
  <2>4. CASE more
    <3>1. StartTxTransaction(tx_fifo')
      BY <2>1, <2>4 DEF NextTransactionOrIdle
    <3>2. hist' = [hist EXCEPT !.air = 0]
      BY <2>1, <2>4
    <3>. QED
      BY <1>0, <2>1, <3>1, <3>2, AttemptsStart
  <2>5. CASE ~more
    <3>1. mainstate' = "IDLE" /\ last_tx_attempts' = hist.air /\ hist'.air = hist.air
      BY <1>0, <2>1, <2>3, <2>5 DEF NextTransactionOrIdle, Hists
    <3>2. hist.air <= total
      BY <1>0, <2>2
    <3>. QED
      BY <1>0, <2>1, <3>1, <3>2 DEF AttemptsAccounted, AttemptsKept, Idle
  <2>. QED
    BY <2>4, <2>5
<1>4. CASE OnRadioDisabledTxFailed
  <2>1. /\ DisabledIrq /\ on_radio_disabled = "tx_wait_for_ack"
        /\ retransmits_remaining = 0 /\ last_tx_attempts' = total
        /\ mainstate' = "IDLE" /\ UNCHANGED <<config, hist>>
    BY <1>4 DEF OnRadioDisabledTxFailed, OnDisabled
  <2>2. hist.air = total
    BY <1>0, <2>1, HandlerOfState DEF AttemptsAccounted
  <2>. QED
    BY <1>0, <2>1, <2>2 DEF AttemptsAccounted, AttemptsKept, Idle
<1>5. CASE OnRadioDisabledTxRetry
  <2>1. /\ DisabledIrq /\ on_radio_disabled = "tx_wait_for_ack"
        /\ retransmits_remaining # 0
        /\ retransmits_remaining' = Dec32(retransmits_remaining)
        /\ mainstate' = "PTX_TX_ACK" /\ UNCHANGED <<config, hist>>
    BY <1>5 DEF OnRadioDisabledTxRetry, OnDisabled, SpendRetransmit
  <2>2. hist.air + retransmits_remaining = total
    BY <1>0, <2>1, HandlerOfState DEF AttemptsAccounted
  <2>3. ~radio'.events_disabled
    <3>1. Served \in Radios /\ ~Served.events_disabled
      BY <1>0, RadioTypes DEF Served, Radios
    <3>. QED
      BY <1>5, <3>1 DEF OnRadioDisabledTxRetry, Radios
  <2>4. retransmits_remaining' = retransmits_remaining - 1
    BY <2>1 DEF Dec32
  <2>. QED
    BY <1>0, <2>1, <2>2, <2>3, <2>4
    DEF AttemptsAccounted, AttemptsKept, Idle, DisabledIrq
<1>6. CASE \/ OnRadioDisabledRxDrop \/ OnRadioDisabledRxNoack \/ OnRadioDisabledRxAck
           \/ OnRadioDisabledRxAckSent
  <2>1. DisabledIrq /\ on_radio_disabled \in {"rx", "rx_ack"}
    BY <1>6 DEF OnRadioDisabledRxDrop, OnRadioDisabledRxNoack, OnRadioDisabledRxAck,
       OnRadioDisabledRxAckSent, OnDisabled
  <2>2. mainstate \in {"PRX", "PRX_SEND_ACK"}
    BY <1>0, <2>1, HandlerOfState
  <2>3. /\ mainstate' \in {"PRX", "PRX_SEND_ACK"}
        /\ UNCHANGED <<config, last_tx_attempts, hist>>
    BY <1>6, <2>2 DEF OnRadioDisabledRxDrop, OnRadioDisabledRxNoack,
       OnRadioDisabledRxAck, OnRadioDisabledRxAckSent
  <2>. QED
    BY <1>0, <2>2, <2>3 DEF AttemptsAccounted, AttemptsKept, Idle
<1>. QED
  BY <1>1, <1>2, <1>3, <1>4, <1>5, <1>6 DEF RadioIrq

\* A packet that has gone out is no longer on air, but counted.
LEMMA AttemptsEvtIrqHardware ==
  ASSUME AttemptsInv, EvtIrq \/ Hardware
  PROVE  AttemptsAccounted' /\ AttemptsKept'
<1>. USE DEF setupVars, stateVars, fifoVars, txVars, evtVars, hwVars
<1>0. /\ RadioInv /\ AttemptsAccounted /\ AttemptsKept
      /\ radio \in Radios /\ hist \in Hists /\ hist.air \in Nat
      /\ mainstate \in MainStates
  BY DEF AttemptsInv, RadioInv, TypeOK, Hists
<1>1. CASE EvtIrq \/ TimerCompare1
  <2>1. /\ UNCHANGED <<config, mainstate, retransmits_remaining, last_tx_attempts, hist>>
        /\ radio'.events_disabled = radio.events_disabled /\ radio'.inten = radio.inten
    BY <1>0, <1>1 DEF EvtIrq, EsbEvtIrq, GetClearInterrupts, DeliverEvent,
       TimerCompare1, Radios
  <2>. QED
    BY <1>0, <2>1, AttemptsUnchanged DEF DisabledIrq
<1>2. CASE Receive \/ RxTimeout
  <2>1. /\ radio.state = "rx" /\ ~DisabledIrq
        /\ UNCHANGED <<config, mainstate, retransmits_remaining, last_tx_attempts, hist>>
    BY <1>2 DEF Receive, RxEnd, RxTimeout
  <2>2. mainstate \notin {"PTX_TX", "PTX_TX_ACK"}
    BY <1>0, <2>1 DEF RadioInv, RadioFollowsState
  <2>. QED
    BY <1>0, <2>1, <2>2 DEF AttemptsAccounted, AttemptsKept, Idle
<1>3. CASE TxEnd
  <2>1. /\ radio.state = "tx" /\ ~DisabledIrq
        /\ hist'.air = IF mainstate \in Transmitting THEN hist.air + 1 ELSE hist.air
        /\ radio'.events_disabled /\ radio'.inten = radio.inten
        /\ UNCHANGED <<config, mainstate, retransmits_remaining, last_tx_attempts>>
    BY <1>0, <1>3 DEF TxEnd, Hists, Radios
  <2>2. mainstate \in {"PTX_TX", "PTX_TX_ACK", "PRX_SEND_ACK"}
    BY <1>0, <2>1 DEF RadioInv, RadioFollowsState, MainStates
  <2>3. DisabledIrq'
    BY <1>0, <2>1, <2>2 DEF RadioInv, ShortsFollowState, DisabledIrq
  <2>4. CASE mainstate = "PRX_SEND_ACK"
    BY <1>0, <2>1, <2>4 DEF AttemptsAccounted, AttemptsKept, Idle, Transmitting
  <2>5. CASE mainstate \in {"PTX_TX", "PTX_TX_ACK"}
    BY <1>0, <2>1, <2>3, <2>5 DEF AttemptsAccounted, AttemptsKept, Idle, Transmitting
  <2>. QED
    BY <2>2, <2>4, <2>5
<1>. QED
  BY <1>1, <1>2, <1>3 DEF Hardware

\* m_last_tx_attempts of a node that is idle is the number of packets the last
\* transmission took, and a transmission never takes more than its retransmissions
\* allow: counters that are tested before they are decremented lose none.
THEOREM Attempts ==
  ASSUME "abort" \notin API, "preempted" \notin API
  PROVE  Spec => []AttemptsAccounted
<1>1. Init => AttemptsAccounted /\ AttemptsKept
  BY DEF Init, AttemptsAccounted, AttemptsKept, Idle
<1>2. AttemptsInv /\ [Next]_vars => (AttemptsAccounted /\ AttemptsKept)'
  <2>1. AttemptsInv /\ UNCHANGED vars => (AttemptsAccounted /\ AttemptsKept)'
    BY AttemptsUnchanged
    DEF vars, setupVars, stateVars, txVars, hwVars, AttemptsInv, DisabledIrq
  <2>. QED
    BY <2>1, AttemptsApplication, AttemptsRadioIrq, AttemptsEvtIrqHardware DEF Next
<1>3. Spec => []RadioInv
  BY RadioInvCorrect
<1>. QED
  BY <1>1, <1>2, <1>3, PTL DEF Spec, AttemptsInv

-----------------------------------------------------------------------------
(* The packet ids of a pipe follow one another. *)

\* What a smaller quotient leaves for the remainder is at least one divisor.
LEMMA QuotientGrows ==
  ASSUME NEW m \in Nat, NEW q \in Nat, NEW p \in Nat, q < p
  PROVE  q * m + m <= p * m
<1>1. p - (q + 1) \in Nat /\ p = q + 1 + (p - (q + 1))
  OBVIOUS
<1>2. PICK d \in Nat : p = q + 1 + d
  BY <1>1
<1>3. p * m = q * m + m + d * m
  BY <1>2, SMT
<1>4. d * m >= 0 /\ d * m \in Int /\ q * m \in Int
  BY SMT
<1>. QED
  BY <1>3, <1>4

\* A division has one remainder.
LEMMA RemainderUnique ==
  ASSUME NEW m \in Nat, NEW q \in Nat, NEW r \in 0 .. m - 1, NEW p \in Nat,
         NEW s \in 0 .. m - 1, q * m + r = p * m + s
  PROVE  r = s
<1>1. q * m \in Nat /\ p * m \in Nat
  BY SMT
<1>2. CASE q < p
  BY <1>1, <1>2, QuotientGrows
<1>3. CASE p < q
  BY <1>1, <1>3, QuotientGrows
<1>4. CASE p = q
  BY <1>1, <1>4
<1>. QED
  BY <1>2, <1>3, <1>4

\* A remainder is its own remainder.
LEMMA ModSmall ==
  ASSUME NEW m \in Nat \ {0}, NEW r \in 0 .. m - 1
  PROVE  r % m = r
<1>1. PICK q \in Nat, s \in 0 .. m - 1 : r = q * m + s /\ s = r % m
  BY SMT
<1>2. 0 * m + r = q * m + s
  BY <1>1
<1>3. r = s
  BY <1>2, RemainderUnique
<1>. QED
  BY <1>1, <1>3

\* Counting on before or after the wrap comes to the same.
LEMMA ModSucc ==
  ASSUME NEW a \in Nat, NEW m \in Nat \ {0}
  PROVE  (a + 1) % m = ((a % m) + 1) % m
<1>1. PICK q \in Nat, r \in 0 .. m - 1 : a = q * m + r /\ r = a % m
  BY SMT
<1>2. PICK p \in Nat, s \in 0 .. m - 1 : a + 1 = p * m + s /\ s = (a + 1) % m
  BY SMT
<1>3. PICK t \in Nat, u \in 0 .. m - 1 : r + 1 = t * m + u /\ u = (r + 1) % m
  BY SMT
<1>4. (q + t) * m + u = p * m + s
  <2>1. (q + t) * m = q * m + t * m
    BY SMT
  <2>2. q * m \in Nat /\ t * m \in Nat /\ p * m \in Nat
    BY SMT
  <2>. QED
    BY <1>1, <1>2, <1>3, <2>1, <2>2
<1>5. u = s
  BY <1>4, RemainderUnique
<1>. QED
  BY <1>1, <1>2, <1>3, <1>5

\* The places of a queue of length n, behind the k-th, that are for the same pipe.
Later(q, n, k) == {l \in k + 1 .. n : q[l].pipe = q[k].pipe}

\* The ids of each pipe follow one another up to the last one assigned.
Follow(q, n, p) ==
  \A k \in 1 .. n :
    (q[k].pid + Cardinality(Later(q, n, k))) % (PID_MAX + 1) = p[q[k].pipe]

LEMMA LaterFinite ==
  ASSUME NEW q, NEW n \in Nat, NEW k \in Nat
  PROVE  IsFiniteSet(Later(q, n, k)) /\ Cardinality(Later(q, n, k)) \in Nat
<1>1. IsFiniteSet(k + 1 .. n)
  BY FS_Interval
<1>2. Later(q, n, k) \in SUBSET (k + 1 .. n)
  BY DEF Later
<1>. QED
  BY <1>1, <1>2, FS_Subset, FS_CardinalityType

\* A payload that is queued with the next id of its pipe is the last of those the
\* others of its pipe have behind them.
LEMMA FollowPushed ==
  ASSUME NEW q \in Seq(Payloads), NEW p \in [PIPES -> Pids], NEW x \in Payloads,
         x.pid = (p[x.pipe] + 1) % (PID_MAX + 1), Follow(q, Len(q), p)
  PROVE  Follow(Append(q, x), Len(q) + 1, [p EXCEPT ![x.pipe] = x.pid])
<1>. DEFINE n == Len(q)
            r == Append(q, x)
            m == PID_MAX + 1
<1>0. /\ n \in Nat /\ m \in Nat \ {0}
      /\ r[n + 1] = x
      /\ \A k \in 1 .. n : r[k] = q[k] /\ q[k] \in Payloads
      /\ x.pid \in 0 .. PID_MAX /\ x.pipe \in PIPES
  <2>1. n \in Nat /\ m \in Nat \ {0}
    BY PidAssumption
  <2>2. x.pid \in 0 .. PID_MAX /\ x.pipe \in PIPES
    BY DEF Payloads, Pids
  <2>3. r[n + 1] = x
    OBVIOUS
  <2>4. \A k \in 1 .. n : r[k] = q[k] /\ q[k] \in Payloads
    OBVIOUS
  <2>. QED
    BY <2>1, <2>2, <2>3, <2>4
<1>1. ASSUME NEW k \in 1 .. n + 1
      PROVE  (r[k].pid + Cardinality(Later(r, n + 1, k))) % m
               = [p EXCEPT ![x.pipe] = x.pid][r[k].pipe]
  <2>1. CASE k = n + 1
    <3>1. Later(r, n + 1, k) = {}
      BY <1>0, <2>1 DEF Later
    <3>2. Cardinality(Later(r, n + 1, k)) = 0
      BY <3>1, FS_EmptySet
    <3>3. x.pid + 0 = x.pid /\ x.pid \in 0 .. m - 1
      BY <1>0, PidAssumption
    <3>4. (x.pid + 0) % m = x.pid
      BY <1>0, <3>3, ModSmall
    <3>. QED
      BY <1>0, <2>1, <3>2, <3>4
  <2>2. CASE k \in 1 .. n
    <3>0. /\ r[k] = q[k] /\ q[k].pid \in Nat /\ q[k].pipe \in PIPES
          /\ (q[k].pid + Cardinality(Later(q, n, k))) % m = p[q[k].pipe]
      BY <1>0, <2>2 DEF Follow, Payloads, Pids
    <3>1. IsFiniteSet(Later(q, n, k)) /\ Cardinality(Later(q, n, k)) \in Nat
      BY <1>0, <2>2, LaterFinite
    <3>2. n + 1 \notin Later(q, n, k)
      BY <1>0 DEF Later
    <3>3. CASE q[k].pipe = x.pipe
      <4>1. Later(r, n + 1, k) = Later(q, n, k) \cup {n + 1}
        BY <1>0, <2>2, <3>0, <3>3 DEF Later
      <4>2. Cardinality(Later(r, n + 1, k)) = Cardinality(Later(q, n, k)) + 1
        BY <3>1, <3>2, <4>1, FS_AddElement
      <4>3. (q[k].pid + Cardinality(Later(q, n, k)) + 1) % m = x.pid
        <5>. DEFINE a == q[k].pid + Cardinality(Later(q, n, k))
        <5>1. a \in Nat
          BY <3>0, <3>1
        <5>2. (a + 1) % m = ((a % m) + 1) % m
          BY <1>0, <5>1, ModSucc
        <5>. QED
          BY <3>0, <3>3, <5>2
      <4>. QED
        BY <3>0, <3>1, <3>3, <4>2, <4>3
    <3>4. CASE q[k].pipe # x.pipe
      <4>1. Later(r, n + 1, k) = Later(q, n, k)
        BY <1>0, <2>2, <3>0, <3>4 DEF Later
      <4>. QED
        BY <3>0, <3>4, <4>1
    <3>. QED
      BY <3>3, <3>4
  <2>. QED
    BY <1>0, <2>1, <2>2
<1>. QED
  BY <1>1 DEF Follow

\* Without its head, a queue has the same payloads behind each of the others.
LEMMA FollowTail ==
  ASSUME NEW q \in Seq(Payloads), Len(q) # 0, NEW p, Follow(q, Len(q), p)
  PROVE  Follow(Tail(q), Len(q) - 1, p)
<1>. DEFINE n == Len(q)
            r == Tail(q)
<1>0. /\ n \in Nat \ {0} /\ n - 1 \in Nat
      /\ \A k \in 1 .. n - 1 : r[k] = q[k + 1]
  OBVIOUS
<1>1. ASSUME NEW k \in 1 .. n - 1
      PROVE  (r[k].pid + Cardinality(Later(r, n - 1, k))) % (PID_MAX + 1)
               = p[r[k].pipe]
  <2>. DEFINE S == Later(r, n - 1, k)
              T == Later(q, n, k + 1)
              f == [l \in S |-> l + 1]
  <2>1. S \subseteq Int /\ T \subseteq Int
    BY <1>0 DEF Later
  <2>2. \A l \in S : l + 1 \in T
    BY <1>0 DEF Later
  <2>3. \A l \in T : l - 1 \in S
    BY <1>0 DEF Later
  <2>4. f \in [S -> T]
    BY <2>2
  <2>5. \A a, b \in S : f[a] = f[b] => a = b
    BY <2>1
  <2>6. \A t \in T : \E s \in S : f[s] = t
    <3>1. TAKE t \in T
    <3>2. t - 1 \in S /\ f[t - 1] = t
      BY <2>1, <2>3
    <3>. QED
      BY <3>2
  <2>7. f \in Bijection(S, T)
    BY <2>4, <2>5, <2>6 DEF Bijection, Injection, Surjection, IsInjective
  <2>8. Cardinality(S) = Cardinality(T)
    <3>1. ExistsBijection(S, T)
      BY <2>7 DEF ExistsBijection
    <3>2. IsFiniteSet(S)
      BY <1>0, LaterFinite
    <3>. QED
      BY <3>1, <3>2, FS_Bijection
  <2>9. (q[k + 1].pid + Cardinality(T)) % (PID_MAX + 1) = p[q[k + 1].pipe]
    BY <1>0 DEF Follow
  <2>. QED
    BY <1>0, <2>8, <2>9
<1>. QED
  BY <1>1 DEF Follow

\* PidsConsecutive, of the queue the TX ring stands for.
LEMMA PidsFollowQueue ==
  PidsConsecutive <=> Follow(Queue(tx_fifo, TX_FIFO_SIZE), tx_fifo.count, pids)
  BY DEF PidsConsecutive, Follow, Later

\* Without its head, the TX ring keeps its ids in order.
LEMMA HeadRemovedFollows ==
  ASSUME RingsInv, PidsConsecutive, tx_fifo.count # 0
  PROVE  LET fifo == HeadRemoved(tx_fifo, TX_FIFO_SIZE)
         IN Follow(Queue(fifo, TX_FIFO_SIZE), fifo.count, pids)
<1>. DEFINE q == Queue(tx_fifo, TX_FIFO_SIZE)
            fifo == HeadRemoved(tx_fifo, TX_FIFO_SIZE)
<1>0. /\ tx_fifo \in Ring(TX_FIFO_SIZE, Payloads) /\ Consistent(tx_fifo, TX_FIFO_SIZE)
      /\ tx_fifo.count <= TX_FIFO_SIZE /\ TX_FIFO_SIZE \in Nat \ {0}
  BY FifoAssumption DEF RingsInv, TypeOK, RingsConsistent, Consistent
<1>1. q \in Seq(Payloads) /\ Len(q) = tx_fifo.count
  BY <1>0, QueueType
<1>2. Queue(fifo, TX_FIFO_SIZE) = Tail(q)
  BY <1>0, HeadRemovedQueue
<1>3. fifo.count = tx_fifo.count - 1
  BY <1>0, HeadRemovedConsistent
<1>4. Follow(q, Len(q), pids)
  BY <1>1, PidsFollowQueue
<1>5. Follow(Tail(q), Len(q) - 1, pids)
  BY <1>1, <1>4, FollowTail
<1>. QED
  BY <1>1, <1>2, <1>3, <1>5

\* The protected section of nrf_esb_write_payload gives the next id.
LEMMA PidsStore ==
  ASSUME RingsInv, PidsConsecutive, WritePayloadStore
  PROVE  PidsConsecutive'
<1>. DEFINE pipe == call.payload.pipe
            pid == NextPid(pipe)
            x == [call.payload EXCEPT !.pid = pid]
            q == Queue(tx_fifo, TX_FIFO_SIZE)
<1>0. /\ tx_fifo \in Ring(TX_FIFO_SIZE, Payloads) /\ Consistent(tx_fifo, TX_FIFO_SIZE)
      /\ tx_fifo.count < TX_FIFO_SIZE /\ TX_FIFO_SIZE \in Nat \ {0}
      /\ TX_FIFO_SIZE < UINT32_MAX
      /\ pids \in [PIPES -> Pids] /\ call.payload \in Payloads
  BY FifoAssumption DEF RingsInv, TypeOK, RingsConsistent, WritePayloadStore
<1>1. pid \in Pids /\ pipe \in PIPES
  BY <1>0, NextPidType DEF RingsInv, Payloads
<1>2. x \in Payloads /\ x.pid = pid /\ x.pipe = pipe
  BY <1>0, <1>1 DEF Payloads
<1>3. q \in Seq(Payloads) /\ Len(q) = tx_fifo.count
  <2>1. tx_fifo.count <= TX_FIFO_SIZE
    BY <1>0 DEF Ring
  <2>. QED
    BY <1>0, <2>1, QueueType
<1>4. tx_fifo' = Pushed(tx_fifo, TX_FIFO_SIZE, x) /\ pids' = [pids EXCEPT ![pipe] = pid]
  BY DEF WritePayloadStore
<1>5. /\ Queue(tx_fifo', TX_FIFO_SIZE) = Append(q, x)
      /\ tx_fifo'.count = Len(q) + 1
  <2>. DEFINE pushed == Pushed(tx_fifo, TX_FIFO_SIZE, x)
  <2>1. Queue(pushed, TX_FIFO_SIZE) = Append(q, x)
    BY <1>0, <1>2, PushedQueue
  <2>2. pushed.count = tx_fifo.count + 1
    BY <1>0, <1>2, PushedConsistent
  <2>. QED
    BY <1>3, <1>4, <2>1, <2>2
<1>6. Follow(q, Len(q), pids)
  BY <1>3, PidsFollowQueue
<1>7. Follow(Append(q, x), Len(q) + 1, [pids EXCEPT ![x.pipe] = x.pid])
  BY <1>0, <1>2, <1>3, <1>6, FollowPushed DEF NextPid
<1>8. Follow(Queue(tx_fifo', TX_FIFO_SIZE), tx_fifo'.count, pids')
  BY <1>2, <1>4, <1>5, <1>7
<1>. QED
  BY <1>8 DEF PidsConsecutive, Follow, Later

\* A step that leaves the TX ring, removes its head or empties it, and keeps the
\* last ids or has emptied it, keeps the ids in order.
LEMMA PidsOtherwise ==
  ASSUME RingsInv, PidsConsecutive,
         \/ UNCHANGED <<tx_fifo, pids>>
         \/ tx_fifo' = Flushed(tx_fifo)
         \/ /\ tx_fifo.count # 0 /\ tx_fifo' = HeadRemoved(tx_fifo, TX_FIFO_SIZE)
            /\ UNCHANGED pids
  PROVE  PidsConsecutive'
<1>1. CASE UNCHANGED <<tx_fifo, pids>>
  <2>1. tx_fifo' = tx_fifo /\ pids' = pids
    BY <1>1
  <2>2. Queue(tx_fifo, TX_FIFO_SIZE)' = Queue(tx_fifo, TX_FIFO_SIZE)
    BY <2>1 DEF Queue, SlotOf
  <2>. QED
    BY <2>1, <2>2 DEF PidsConsecutive
<1>2. CASE tx_fifo' = Flushed(tx_fifo)
  <2>1. tx_fifo'.count = 0
    BY <1>2 DEF Flushed, Ring, RingsInv, TypeOK
  <2>. QED
    BY <2>1 DEF PidsConsecutive
<1>3. CASE /\ tx_fifo.count # 0 /\ tx_fifo' = HeadRemoved(tx_fifo, TX_FIFO_SIZE)
           /\ UNCHANGED pids
  <2>1. Follow(Queue(tx_fifo', TX_FIFO_SIZE), tx_fifo'.count, pids')
    BY <1>3, HeadRemovedFollows
  <2>. QED
    BY <2>1 DEF PidsConsecutive, Follow, Later
<1>. QED
  BY <1>1, <1>2, <1>3

\* No API call disturbs the ids.
LEMMA PidsApplication ==
  ASSUME RingsInv, PidsConsecutive, Application
  PROVE  PidsConsecutive'
<1>. USE DEF setupVars, stateVars, fifoVars, txVars, evtVars, hwVars
<1>1. CASE EsbInit \/ EsbDisable \/ FlushTx
  <2>1. tx_fifo' = Flushed(tx_fifo)
    BY <1>1 DEF EsbInit, EsbDisable, FlushTx, Disabled
  <2>. QED
    BY <2>1, PidsOtherwise
<1>2. CASE WritePayloadStore
  BY <1>2, PidsStore
<1>3. CASE PopTxNow
  BY <1>3 DEF PopTxNow, RingsInv
<1>4. CASE \/ EsbSuspend \/ WritePayload \/ WritePayloadKick \/ ReadRxPayload
           \/ ReadRxPayloadTake \/ StartTx \/ StartRx \/ StopRx \/ StopRxShorts
           \/ StopRxNow \/ PopTx \/ FlushRx
           \/ SetRfChannel \/ SetAddresses \/ SetPrefixes \/ EnablePipes
  <2>1. UNCHANGED <<tx_fifo, pids>>
    BY <1>4 DEF EsbSuspend, WritePayload, WritePayloadKick, ReadRxPayload,
       ReadRxPayloadTake, StartTx, StartRx, StopRx, StopRxShorts, StopRxNow, PopTx,
       FlushRx, SetRfChannel, SetAddresses, SetPrefixes, EnablePipes
  <2>. QED
    BY <2>1, PidsOtherwise
<1>. QED
  BY <1>1, <1>2, <1>3, <1>4 DEF Application

\* A handler removes the head of the TX ring or leaves it.
LEMMA PidsRadioIrq ==
  ASSUME RingsInv, PidsConsecutive, RadioIrq
  PROVE  PidsConsecutive'
<1>. USE DEF setupVars, stateVars, fifoVars, txVars, evtVars, hwVars
<1>0. tx_fifo.count \in Nat
  BY DEF RingsInv, TypeOK, Ring
<1>1. CASE OnRadioDisabledTxNoack \/ OnRadioDisabledTxAcked
  <2>1. tx_fifo' = RemoveLast(tx_fifo) /\ UNCHANGED pids
    BY <1>1 DEF OnRadioDisabledTxNoack, OnRadioDisabledTxAcked
  <2>. QED
    BY <1>0, <2>1, PidsOtherwise DEF RemoveLast
<1>2. CASE OnRadioDisabledRxAck
  <2>1. /\ UNCHANGED pids
        /\ \/ UNCHANGED tx_fifo
           \/ tx_fifo.count # 0 /\ tx_fifo' = HeadRemoved(tx_fifo, TX_FIFO_SIZE)
    BY <1>0, <1>2 DEF OnRadioDisabledRxAck
  <2>. QED
    BY <2>1, PidsOtherwise
<1>3. CASE \/ OnRadioDisabledTx \/ OnRadioDisabledTxFailed \/ OnRadioDisabledTxRetry
           \/ OnRadioDisabledRxDrop \/ OnRadioDisabledRxNoack
           \/ OnRadioDisabledRxAckSent
  <2>1. UNCHANGED <<tx_fifo, pids>>
    BY <1>3 DEF OnRadioDisabledTx, OnRadioDisabledTxFailed, OnRadioDisabledTxRetry,
       OnRadioDisabledRxDrop, OnRadioDisabledRxNoack, OnRadioDisabledRxAckSent
  <2>. QED
    BY <2>1, PidsOtherwise
<1>. QED
  BY <1>1, <1>2, <1>3 DEF RadioIrq

\* Consecutive ids hold initially and are kept by every step.
LEMMA PidsInit == Init => PidsConsecutive
  BY DEF Init, PidsConsecutive, ZeroRing

LEMMA PidsStep ==
  ASSUME RingsInv, PidsConsecutive, [Next]_vars
  PROVE  PidsConsecutive'
<1>1. CASE EvtIrq \/ Hardware \/ UNCHANGED vars
  <2>1. UNCHANGED <<tx_fifo, pids>>
    BY <1>1 DEF vars, EvtIrq, EsbEvtIrq, GetClearInterrupts, DeliverEvent, Hardware,
       TxEnd, Receive, RxEnd, RxTimeout, TimerCompare1, fifoVars
  <2>. QED
    BY <2>1, PidsOtherwise
<1>. QED
  BY <1>1, PidsApplication, PidsRadioIrq DEF Next

\* The payloads queued for one pipe carry the ids that lead to the last one it was
\* given, however payloads of several pipes are mixed, acknowledged or flushed.
THEOREM PidsFollow ==
  ASSUME "pop_tx" \notin API
  PROVE  Spec => []PidsConsecutive
<1>1. RingsInv /\ PidsConsecutive /\ [Next]_vars => PidsConsecutive'
  BY PidsStep
<1>2. Spec => []RingsInv
  BY RingsInvCorrect
<1>. QED
  BY <1>1, <1>2, PidsInit, PTL DEF Spec
=============================================================================
