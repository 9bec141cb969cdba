--------------------------- MODULE EsbLinkProofs ---------------------------
(***************************************************************************)
(* EsbLink implements EsbChannel, for FIFOs, packet ids, contents and      *)
(* retransmission counts of every size and every number of writes.         *)
(*                                                                         *)
(* What holds of one node is not proved again: SP and RP are the theorems  *)
(* about NrfEsb for the sender and for the receiver.  The nodes of EsbLink *)
(* hear what the other puts on air, so they have no HEARD; the proofs      *)
(* about a node are for any packet it may hear.  SenderIs, SenderHears,    *)
(* ReceiverIs and ReceiverHears say that an action of a node of EsbLink is *)
(* the action of that name the proofs about the node are for.              *)
(***************************************************************************)
EXTENDS EsbLink, TLAPS

\* Every packet a node could put on air.
AnyPacket == [data : DATA \cup {NoData}, pid : 0 .. PID_MAX, noack : BOOLEAN]

SP == INSTANCE NrfEsbServiceProofs WITH
  PIPES <- {0}, CHANNELS <- {1}, ADDRESSES <- {1}, HEARD <- AnyPacket,
  CONFIGS <- {SENDER}, WRITTEN <- ToPipe0,
  API <- {"init", "write_payload", "start_tx", "read_rx_payload"},
  initialized <- s_initialized, config <- s_config,
  mainstate <- s_mainstate, on_radio_disabled <- s_on_radio_disabled,
  tx_fifo <- s_tx_fifo, rx_fifo <- s_rx_fifo,
  pids <- s_pids, rx_pipe_info <- s_rx_pipe_info,
  interrupt_flags <- s_interrupt_flags, retransmits_remaining <- s_retransmits_remaining,
  last_tx_attempts <- s_last_tx_attempts, mp_current_payload <- s_mp_current_payload,
  tx_payload_buffer <- s_tx_payload_buffer, rx_payload_buffer <- s_rx_payload_buffer,
  esb_addr <- s_esb_addr, radio <- s_radio,
  timer <- s_timer, swi0 <- s_swi0,
  call <- s_call, event <- s_event,
  hist <- s_hist

RP == INSTANCE NrfEsbServiceProofs WITH
  PIPES <- {0}, CHANNELS <- {1}, ADDRESSES <- {1}, HEARD <- AnyPacket,
  CONFIGS <- {RECEIVER}, WRITTEN <- ToPipe0,
  API <- {"init", "start_rx", "stop_rx", "read_rx_payload", "write_payload"},
  initialized <- r_initialized, config <- r_config,
  mainstate <- r_mainstate, on_radio_disabled <- r_on_radio_disabled,
  tx_fifo <- r_tx_fifo, rx_fifo <- r_rx_fifo,
  pids <- r_pids, rx_pipe_info <- r_rx_pipe_info,
  interrupt_flags <- r_interrupt_flags, retransmits_remaining <- r_retransmits_remaining,
  last_tx_attempts <- r_last_tx_attempts, mp_current_payload <- r_mp_current_payload,
  tx_payload_buffer <- r_tx_payload_buffer, rx_payload_buffer <- r_rx_payload_buffer,
  esb_addr <- r_esb_addr, radio <- r_radio,
  timer <- r_timer, swi0 <- r_swi0,
  call <- r_call, event <- r_event,
  hist <- r_hist

-----------------------------------------------------------------------------
(* The nodes                                                               *)

\* The constants of the sender are as the proofs about a node assume.
LEMMA SenderConstants ==
  /\ UINT32_MAX \in Nat \ {0}
  /\ TX_FIFO_SIZE \in Nat \ {0} /\ TX_FIFO_SIZE < UINT32_MAX
  /\ RX_FIFO_SIZE \in Nat \ {0} /\ RX_FIFO_SIZE < UINT32_MAX
  /\ PID_MAX \in Nat
  /\ {0} \subseteq Nat /\ 0 \in {0}
  /\ NoData \notin DATA /\ ZERO_CRC \in DATA \cup {NoData}
  /\ {SENDER} \subseteq SP!Configs
  /\ {"init", "write_payload", "start_tx", "read_rx_payload"} \subseteq SP!ApiNames
  /\ ToPipe0 \subseteq [pipe : {0}, noack : BOOLEAN, data : DATA, pid : {0}]
  /\ AnyPacket \subseteq SP!Packets
<1>1. /\ UINT32_MAX \in Nat \ {0}
      /\ TX_FIFO_SIZE \in Nat \ {0} /\ TX_FIFO_SIZE < UINT32_MAX
      /\ RX_FIFO_SIZE \in Nat \ {0} /\ RX_FIFO_SIZE < UINT32_MAX
      /\ PID_MAX \in Nat
  BY SizeAssumption
<1>2. {SENDER} \subseteq SP!Configs
  BY NodeAssumption DEF S!Configs, SP!Configs
<1>3. ToPipe0 \subseteq [pipe : {0}, noack : BOOLEAN, data : DATA, pid : {0}]
  BY DEF ToPipe0
<1>4. AnyPacket \subseteq SP!Packets
  BY DEF AnyPacket, SP!Packets, SP!Contents, SP!Pids
<1>5. {"init", "write_payload", "start_tx", "read_rx_payload"} \subseteq SP!ApiNames
  BY DEF SP!ApiNames
<1>. QED
  BY <1>1, <1>2, <1>3, <1>4, <1>5, ContentAssumption

\* The constants of the receiver are.
LEMMA ReceiverConstants ==
  /\ UINT32_MAX \in Nat \ {0}
  /\ TX_FIFO_SIZE \in Nat \ {0} /\ TX_FIFO_SIZE < UINT32_MAX
  /\ RX_FIFO_SIZE \in Nat \ {0} /\ RX_FIFO_SIZE < UINT32_MAX
  /\ PID_MAX \in Nat
  /\ {0} \subseteq Nat /\ 0 \in {0}
  /\ NoData \notin DATA /\ ZERO_CRC \in DATA \cup {NoData}
  /\ {RECEIVER} \subseteq RP!Configs
  /\ {"init", "start_rx", "stop_rx", "read_rx_payload", "write_payload"} \subseteq RP!ApiNames
  /\ ToPipe0 \subseteq [pipe : {0}, noack : BOOLEAN, data : DATA, pid : {0}]
  /\ AnyPacket \subseteq RP!Packets
<1>1. /\ UINT32_MAX \in Nat \ {0}
      /\ TX_FIFO_SIZE \in Nat \ {0} /\ TX_FIFO_SIZE < UINT32_MAX
      /\ RX_FIFO_SIZE \in Nat \ {0} /\ RX_FIFO_SIZE < UINT32_MAX
      /\ PID_MAX \in Nat
  BY SizeAssumption
<1>2. {RECEIVER} \subseteq RP!Configs
  BY NodeAssumption DEF R!Configs, RP!Configs
<1>3. ToPipe0 \subseteq [pipe : {0}, noack : BOOLEAN, data : DATA, pid : {0}]
  BY DEF ToPipe0
<1>4. AnyPacket \subseteq RP!Packets
  BY DEF AnyPacket, RP!Packets, RP!Contents, RP!Pids
<1>5. {"init", "start_rx", "stop_rx", "read_rx_payload",
     "write_payload"} \subseteq RP!ApiNames
  BY DEF RP!ApiNames
<1>. QED
  BY <1>1, <1>2, <1>3, <1>4, <1>5, ContentAssumption

\* The actions of the sender in the link, and those the proofs about it are for,
\* are the same: none reads HEARD.
LEMMA SenderIs ==
  /\ S!Init <=> SP!Init
  /\ S!TypeOK <=> SP!TypeOK
  /\ S!EsbInit <=> SP!EsbInit
  /\ S!WritePayload <=> SP!WritePayload
  /\ S!WritePayloadStore <=> SP!WritePayloadStore
  /\ S!WritePayloadKick <=> SP!WritePayloadKick
  /\ S!StartTx <=> SP!StartTx
  /\ S!ReadRxPayload <=> SP!ReadRxPayload
  /\ S!ReadRxPayloadTake <=> SP!ReadRxPayloadTake
  /\ S!RadioIrq <=> SP!RadioIrq
  /\ S!OnRadioDisabledTxAcked <=> SP!OnRadioDisabledTxAcked
  /\ S!TxEnd <=> SP!TxEnd
  /\ S!RxTimeout <=> SP!RxTimeout
  /\ S!TimerCompare1 <=> SP!TimerCompare1
  BY DEF S!After, S!AfterEnd, S!CRC0, S!CallPoints, S!Callbacks, S!ClearEventsRestartRx,
     S!Compare0, S!Compare1, S!Contents, S!Continues, S!Crc, S!Crcs, S!Dec32, S!Disabled,
     S!DisabledIrq, S!EsbInit, S!Flags, S!Flushed, S!HeadRemoved, S!Hists, S!Idle, S!Inc32,
     S!Init, S!MainStates, S!May, S!NextPid, S!NextTransactionOrIdle, S!NoEvent,
     S!OnDisabled, S!OnRadioDisabledRxAck, S!OnRadioDisabledRxAckSent,
     S!OnRadioDisabledRxDrop, S!OnRadioDisabledRxNoack, S!OnRadioDisabledTx,
     S!OnRadioDisabledTxAcked, S!OnRadioDisabledTxFailed, S!OnRadioDisabledTxNoack,
     S!OnRadioDisabledTxRetry, S!PacketReceived, S!Packets, S!Payloads, S!Pids, S!PipeInfos,
     S!PushRfbuf, S!Pushed, S!Quiet, S!RadioIrq, S!Radios, S!RaiseEvent, S!ReadRxPayload,
     S!ReadRxPayloadTake, S!RemoveLast, S!Retransmits, S!Ring, S!RingNext, S!RxDelivered,
     S!RxDropped, S!RxPayloads, S!RxPid, S!RxPipeInfo, S!RxRetransmit, S!RxTimeout,
     S!RxWantsAck, S!Served, S!SpendRetransmit, S!StartTx, S!StartTxTransaction,
     S!TimerCompare1, S!Timers, S!Transmitting, S!TxEnd, S!TxSlots, S!TypeOK,
     S!WaitForAckTimeout, S!WritePayload, S!WritePayloadKick, S!WritePayloadStore,
     S!ZeroPacket, S!ZeroPayload, S!ZeroPids, S!ZeroPipeInfo, S!ZeroRing, S!ZeroRxPayload,
     S!evtVars, S!fifoVars, S!hwVars, S!setupVars, S!stateVars, S!txVars, SP!After,
     SP!AfterEnd, SP!CRC0, SP!CallPoints, SP!Callbacks, SP!ClearEventsRestartRx,
     SP!Compare0, SP!Compare1, SP!Contents, SP!Continues, SP!Crc, SP!Crcs, SP!Dec32,
     SP!Disabled, SP!DisabledIrq, SP!EsbInit, SP!Flags, SP!Flushed, SP!HeadRemoved,
     SP!Hists, SP!Idle, SP!Inc32, SP!Init, SP!MainStates, SP!May, SP!NextPid,
     SP!NextTransactionOrIdle, SP!NoEvent, SP!OnDisabled, SP!OnRadioDisabledRxAck,
     SP!OnRadioDisabledRxAckSent, SP!OnRadioDisabledRxDrop, SP!OnRadioDisabledRxNoack,
     SP!OnRadioDisabledTx, SP!OnRadioDisabledTxAcked, SP!OnRadioDisabledTxFailed,
     SP!OnRadioDisabledTxNoack, SP!OnRadioDisabledTxRetry, SP!PacketReceived, SP!Packets,
     SP!Payloads, SP!Pids, SP!PipeInfos, SP!PushRfbuf, SP!Pushed, SP!Quiet, SP!RadioIrq,
     SP!Radios, SP!RaiseEvent, SP!ReadRxPayload, SP!ReadRxPayloadTake, SP!RemoveLast,
     SP!Retransmits, SP!Ring, SP!RingNext, SP!RxDelivered, SP!RxDropped, SP!RxPayloads,
     SP!RxPid, SP!RxPipeInfo, SP!RxRetransmit, SP!RxTimeout, SP!RxWantsAck, SP!Served,
     SP!SpendRetransmit, SP!StartTx, SP!StartTxTransaction, SP!TimerCompare1, SP!Timers,
     SP!Transmitting, SP!TxEnd, SP!TxSlots, SP!TypeOK, SP!WaitForAckTimeout,
     SP!WritePayload, SP!WritePayloadKick, SP!WritePayloadStore, SP!ZeroPacket,
     SP!ZeroPayload, SP!ZeroPids, SP!ZeroPipeInfo, SP!ZeroRing, SP!ZeroRxPayload,
     SP!evtVars, SP!fifoVars, SP!hwVars, SP!setupVars, SP!stateVars, SP!txVars

\* So is the end of the reception of an acknowledgment.
LEMMA SenderHears ==
  ASSUME NEW packet, NEW pipe, NEW crcok
  PROVE  /\ S!RxEnd(packet, pipe, crcok) <=> SP!RxEnd(packet, pipe, crcok)
  BY DEF S!After, S!AfterEnd, S!DisabledIrq, S!RxEnd, S!evtVars, S!fifoVars, S!setupVars,
     S!stateVars, S!txVars, SP!After, SP!AfterEnd, SP!DisabledIrq, SP!RxEnd, SP!evtVars,
     SP!fifoVars, SP!setupVars, SP!stateVars, SP!txVars

\* The same of the receiver.
LEMMA ReceiverIs ==
  /\ R!Init <=> RP!Init
  /\ R!TypeOK <=> RP!TypeOK
  /\ R!EsbInit <=> RP!EsbInit
  /\ R!StartRx <=> RP!StartRx
  /\ R!StopRx <=> RP!StopRx
  /\ R!StopRxNow <=> RP!StopRxNow
  /\ R!WritePayload <=> RP!WritePayload
  /\ R!WritePayloadStore <=> RP!WritePayloadStore
  /\ R!WritePayloadKick <=> RP!WritePayloadKick
  /\ R!ReadRxPayload <=> RP!ReadRxPayload
  /\ R!ReadRxPayloadTake <=> RP!ReadRxPayloadTake
  /\ R!RadioIrq <=> RP!RadioIrq
  /\ R!TxEnd <=> RP!TxEnd
  BY DEF R!After, R!AfterEnd, R!CRC0, R!CallPoints, R!Callbacks, R!ClearEventsRestartRx,
     R!Contents, R!Continues, R!Crc, R!Crcs, R!Dec32, R!Disabled, R!DisabledIrq, R!EsbInit,
     R!Flags, R!Flushed, R!HeadRemoved, R!Hists, R!Idle, R!Inc32, R!Init, R!MainStates,
     R!May, R!NextPid, R!NextTransactionOrIdle, R!NoEvent, R!OnDisabled,
     R!OnRadioDisabledRxAck, R!OnRadioDisabledRxAckSent, R!OnRadioDisabledRxDrop,
     R!OnRadioDisabledRxNoack, R!OnRadioDisabledTx, R!OnRadioDisabledTxAcked,
     R!OnRadioDisabledTxFailed, R!OnRadioDisabledTxNoack, R!OnRadioDisabledTxRetry,
     R!PacketReceived, R!Packets, R!Payloads, R!Pids, R!PipeInfos, R!PushRfbuf, R!Pushed,
     R!Quiet, R!RadioIrq, R!Radios, R!RaiseEvent, R!ReadRxPayload, R!ReadRxPayloadTake,
     R!RemoveLast, R!Retransmits, R!Ring, R!RingNext, R!RxDelivered, R!RxDropped,
     R!RxPayloads, R!RxPid, R!RxPipeInfo, R!RxRetransmit, R!RxWantsAck, R!Served,
     R!SpendRetransmit, R!StartRx, R!StartTxTransaction, R!StopRx, R!StopRxNow, R!Timers,
     R!Transmitting, R!TxEnd, R!TxSlots, R!TypeOK, R!WritePayload, R!WritePayloadKick,
     R!WritePayloadStore, R!ZeroPacket, R!ZeroPayload, R!ZeroPids, R!ZeroPipeInfo,
     R!ZeroRing, R!ZeroRxPayload, R!evtVars, R!fifoVars, R!hwVars, R!setupVars, R!stateVars,
     R!txVars, RP!After, RP!AfterEnd, RP!CRC0, RP!CallPoints, RP!Callbacks,
     RP!ClearEventsRestartRx, RP!Contents, RP!Continues, RP!Crc, RP!Crcs, RP!Dec32,
     RP!Disabled, RP!DisabledIrq, RP!EsbInit, RP!Flags, RP!Flushed, RP!HeadRemoved,
     RP!Hists, RP!Idle, RP!Inc32, RP!Init, RP!MainStates, RP!May, RP!NextPid,
     RP!NextTransactionOrIdle, RP!NoEvent, RP!OnDisabled, RP!OnRadioDisabledRxAck,
     RP!OnRadioDisabledRxAckSent, RP!OnRadioDisabledRxDrop, RP!OnRadioDisabledRxNoack,
     RP!OnRadioDisabledTx, RP!OnRadioDisabledTxAcked, RP!OnRadioDisabledTxFailed,
     RP!OnRadioDisabledTxNoack, RP!OnRadioDisabledTxRetry, RP!PacketReceived, RP!Packets,
     RP!Payloads, RP!Pids, RP!PipeInfos, RP!PushRfbuf, RP!Pushed, RP!Quiet, RP!RadioIrq,
     RP!Radios, RP!RaiseEvent, RP!ReadRxPayload, RP!ReadRxPayloadTake, RP!RemoveLast,
     RP!Retransmits, RP!Ring, RP!RingNext, RP!RxDelivered, RP!RxDropped, RP!RxPayloads,
     RP!RxPid, RP!RxPipeInfo, RP!RxRetransmit, RP!RxWantsAck, RP!Served, RP!SpendRetransmit,
     RP!StartRx, RP!StartTxTransaction, RP!StopRx, RP!StopRxNow, RP!Timers, RP!Transmitting,
     RP!TxEnd, RP!TxSlots, RP!TypeOK, RP!WritePayload, RP!WritePayloadKick,
     RP!WritePayloadStore, RP!ZeroPacket, RP!ZeroPayload, RP!ZeroPids, RP!ZeroPipeInfo,
     RP!ZeroRing, RP!ZeroRxPayload, RP!evtVars, RP!fifoVars, RP!hwVars, RP!setupVars,
     RP!stateVars, RP!txVars

\* So is the end of the reception of a packet.
LEMMA ReceiverHears ==
  ASSUME NEW packet, NEW pipe, NEW crcok
  PROVE  /\ R!RxEnd(packet, pipe, crcok) <=> RP!RxEnd(packet, pipe, crcok)
  BY DEF R!After, R!AfterEnd, R!DisabledIrq, R!RxEnd, R!evtVars, R!fifoVars, R!setupVars,
     R!stateVars, R!txVars, RP!After, RP!AfterEnd, RP!DisabledIrq, RP!RxEnd, RP!evtVars,
     RP!fifoVars, RP!setupVars, RP!stateVars, RP!txVars

-----------------------------------------------------------------------------
(* The steps of the link are steps of the nodes.                           *)

\* Each node keeps the inductive invariant that is proved of a node on its own.
NodesInv == SP!InFlightInv /\ RP!InFlightInv

\* A node that does nothing keeps its invariant.
LEMMA SenderUnchanged ==
  ASSUME UNCHANGED sender
  PROVE  UNCHANGED SP!vars
  BY DEF sender, SP!vars, SP!setupVars, SP!stateVars, SP!fifoVars, SP!txVars,
     SP!evtVars, SP!hwVars

LEMMA ReceiverUnchanged ==
  ASSUME UNCHANGED receiver
  PROVE  UNCHANGED RP!vars
  BY DEF receiver, RP!vars, RP!setupVars, RP!stateVars, RP!fifoVars, RP!txVars,
     RP!evtVars, RP!hwVars

\* What is on air is a packet for pipe 0.
LEMMA OnAir ==
  ASSUME NodesInv
  PROVE  /\ s_tx_payload_buffer \in AnyPacket /\ s_radio.txaddress = 0
         /\ r_tx_payload_buffer \in AnyPacket /\ r_radio.txaddress = 0
<1>1. SP!TypeOK /\ RP!TypeOK
  BY DEF NodesInv, SP!InFlightInv, RP!InFlightInv, SP!RadioInv, RP!RadioInv
<1>2. s_tx_payload_buffer \in AnyPacket /\ s_radio.txaddress = 0
  BY <1>1 DEF SP!TypeOK, SP!Packets, SP!Contents, SP!Pids, SP!Radios, AnyPacket
<1>3. r_tx_payload_buffer \in AnyPacket /\ r_radio.txaddress = 0
  BY <1>1 DEF RP!TypeOK, RP!Packets, RP!Contents, RP!Pids, RP!Radios, AnyPacket
<1>. QED
  BY <1>2, <1>3

\* A step of the link is a step of its nodes, or leaves a node alone.
LEMMA SenderSteps ==
  ASSUME NodesInv, Next
  PROVE  SP!Next \/ UNCHANGED sender
<1>1. CASE SenderCalls
  BY <1>1, SenderIs DEF SenderCalls, SP!Next, SP!Application
<1>2. CASE SenderIrq
  BY <1>2, SenderIs DEF SenderIrq, SP!Next
<1>3. CASE PacketArrives \/ PacketLost
  BY <1>3, SenderIs DEF PacketArrives, PacketLost, SP!Next, SP!Hardware
<1>4. CASE AckArrives
  <2>1. PICK crcok \in BOOLEAN : SP!RxEnd(r_tx_payload_buffer, 0, crcok)
    BY <1>4, OnAir, SenderHears DEF AckArrives
  <2>2. SP!Receive
    BY <2>1, OnAir DEF SP!Receive
  <2>. QED
    BY <2>2 DEF SP!Next, SP!Hardware
<1>5. CASE AckWindowCloses \/ RetransmitDelay
  BY <1>5, SenderIs DEF AckWindowCloses, RetransmitDelay, SP!Next, SP!Hardware
<1>6. CASE ReceiverCalls \/ ReceiverIrq \/ AckLost
  BY <1>6 DEF ReceiverCalls, ReceiverIrq, AckLost
<1>. QED
  BY <1>1, <1>2, <1>3, <1>4, <1>5, <1>6 DEF Next

LEMMA ReceiverSteps ==
  ASSUME NodesInv, Next
  PROVE  RP!Next \/ UNCHANGED receiver
<1>1. CASE ReceiverCalls
  BY <1>1, ReceiverIs DEF ReceiverCalls, RP!Next, RP!Application
<1>2. CASE ReceiverIrq
  BY <1>2, ReceiverIs DEF ReceiverIrq, RP!Next
<1>3. CASE AckArrives \/ AckLost
  BY <1>3, ReceiverIs DEF AckArrives, AckLost, RP!Next, RP!Hardware
<1>4. CASE PacketArrives
  <2>1. PICK crcok \in BOOLEAN : RP!RxEnd(s_tx_payload_buffer, 0, crcok)
    BY <1>4, OnAir, ReceiverHears DEF PacketArrives
  <2>2. RP!Receive
    BY <2>1, OnAir DEF RP!Receive
  <2>. QED
    BY <2>2 DEF RP!Next, RP!Hardware
<1>5. CASE \/ SenderCalls \/ SenderIrq \/ PacketLost \/ AckWindowCloses
           \/ RetransmitDelay
  BY <1>5 DEF SenderCalls, SenderIrq, PacketLost, AckWindowCloses, RetransmitDelay
<1>. QED
  BY <1>1, <1>2, <1>3, <1>4, <1>5 DEF Next

\* So the invariants of the nodes hold in the link.
LEMMA NodesInit == Init => NodesInv
<1>1. SP!Init => SP!InFlightInv
  BY SenderConstants, SP!InFlightInvInit
<1>2. RP!Init => RP!InFlightInv
  BY ReceiverConstants, RP!InFlightInvInit
<1>. QED
  BY <1>1, <1>2, SenderIs, ReceiverIs DEF Init, NodesInv

LEMMA NodesStep ==
  ASSUME NodesInv, Next
  PROVE  NodesInv'
<1>1. [SP!Next]_(SP!vars)
  BY SenderSteps, SenderUnchanged
<1>2. [RP!Next]_(RP!vars)
  BY ReceiverSteps, ReceiverUnchanged
<1>3. SP!InFlightInv'
  BY <1>1, SenderConstants, SP!InFlightInvStep DEF NodesInv
<1>4. RP!InFlightInv'
  BY <1>2, ReceiverConstants, RP!InFlightInvStep DEF NodesInv
<1>. QED
  BY <1>3, <1>4 DEF NodesInv

-----------------------------------------------------------------------------
(* The inductive invariant.  Queued: the payloads the sender has queued,   *)
(* oldest first.                                                           *)

Queued == SP!TxQueue

\* The packet id after pid.
Successor(pid) == (pid + 1) % (PID_MAX + 1)

\* p is the packet the receiver remembers.
Remembered(p) ==
  r_rx_pipe_info[0].pid = p.pid /\ r_rx_pipe_info[0].crc = <<p.data, p.pid>>

\* The receiver has the payload at the head of the queue.
HeadRemembered == Queued # << >> /\ Remembered(Queued[1])

\* The sender's application has written what is queued, with acknowledgment.
QueuedIsWritten ==
  \A k \in DOMAIN Queued : Queued[k].data \in DATA /\ ~Queued[k].noack

\* The sender wants an acknowledgment for everything and never listens; the
\* receiver does nothing else.
OneWay ==
  /\ s_mainstate \in {"IDLE", "PTX_TX_ACK", "PTX_RX_ACK"}
  /\ ~s_tx_payload_buffer.noack
  /\ r_mainstate \in {"IDLE", "PRX", "PRX_SEND_ACK"}

\* A node that is not initialised is as it was at the start.
Fresh ==
  /\ ~s_initialized => /\ s_call.at = "idle" /\ s_mainstate = "IDLE"
                       /\ s_tx_fifo.count = 0 /\ s_pids[0] = 0
  /\ ~r_initialized => r_rx_pipe_info = RP!ZeroPipeInfo /\ r_mainstate = "IDLE"

\* What a call has checked holds until it stores its payload.
CallsWithinBounds ==
  /\ Len(written) <= MAX_WRITES /\ Len(answers) <= MAX_ANSWERS
  /\ s_call.at = "write" => s_call.payload \in ToPipe0 /\ Len(written) < MAX_WRITES
  /\ r_call.at = "write" => r_call.payload \in ToPipe0 /\ Len(answers) < MAX_ANSWERS

\* Neighbours in the queue have consecutive packet ids, the last the newest.
PidsInOrder ==
  /\ \A k \in 1 .. Len(Queued) - 1 : Queued[k + 1].pid = Successor(Queued[k].pid)
  /\ Queued # << >> => Queued[Len(Queued)].pid = s_pids[0]

\* While the receiver has an acknowledgment to send, or the packet it wants one
\* for to look at, the sender waits for it, and the wait does not end on an
\* old END event.
SenderWaits ==
  /\ r_radio.state = "tx" => \/ s_mainstate = "PTX_TX_ACK" /\ SP!DisabledIrq
                             \/ s_mainstate = "PTX_RX_ACK" /\ ~SP!DisabledIrq
  /\ s_mainstate = "PTX_RX_ACK" /\ ~SP!DisabledIrq => ~s_radio.events_end

\* A packet the receiver looks at is the one the sender has in flight.
HeardIsSent ==
  r_mainstate = "PRX" /\ RP!DisabledIrq /\ r_radio.crcstatus =>
    r_rx_payload_buffer = s_tx_payload_buffer

\* An acknowledgment, on air or received, is for the head of the queue.
AckOnAir     == r_mainstate = "PRX_SEND_ACK" /\ r_radio.state = "tx"
AckHeard     == s_mainstate = "PTX_RX_ACK" /\ SP!DisabledIrq /\ SP!PacketReceived
AckIsForHead == AckOnAir \/ AckHeard => HeadRemembered

\* The receiver remembers the head of the queue or the packet before it.
RemembersLast ==
  IF Queued = << >> THEN r_rx_pipe_info[0].pid = s_pids[0]
  ELSE \/ Remembered(Queued[1])
       \/ Queued[1].pid = Successor(r_rx_pipe_info[0].pid)

\* The histories are of contents.
HistoriesOK == \A seq \in {written, delivered, answers, answered} : seq \in Seq(DATA)

\* The inductive invariant.
LinkInv ==
  /\ NodesInv
  /\ OneWay /\ Fresh /\ CallsWithinBounds /\ QueuedIsWritten /\ PidsInOrder
  /\ SenderWaits /\ HeardIsSent /\ AckIsForHead /\ RemembersLast
  /\ HistoriesOK

-----------------------------------------------------------------------------
(* What the invariants of the nodes say here                               *)

\* The types of the nodes' variables.
LEMMA NodeTypes ==
  ASSUME NodesInv
  PROVE  /\ SP!TypeOK /\ RP!TypeOK
         /\ s_config = SENDER /\ r_config = RECEIVER
         /\ s_tx_fifo \in SP!Ring(TX_FIFO_SIZE, SP!Payloads)
         /\ SP!Consistent(s_tx_fifo, TX_FIFO_SIZE)
         /\ s_pids[0] \in 0 .. PID_MAX /\ r_rx_pipe_info[0].pid \in 0 .. PID_MAX
         /\ s_radio \in SP!Radios /\ r_radio \in RP!Radios
         /\ s_rx_payload_buffer.data \in DATA \cup {NoData}
         /\ Queued \in Seq(SP!Payloads) /\ Len(Queued) = s_tx_fifo.count
<1>1. SP!TypeOK /\ RP!TypeOK
  BY DEF NodesInv, SP!InFlightInv, RP!InFlightInv, SP!RadioInv, RP!RadioInv
<1>2. s_config = SENDER /\ r_config = RECEIVER
  BY <1>1 DEF SP!TypeOK, RP!TypeOK
<1>3. s_pids[0] \in 0 .. PID_MAX /\ r_rx_pipe_info[0].pid \in 0 .. PID_MAX
  BY <1>1 DEF SP!TypeOK, RP!TypeOK, SP!Pids, RP!Pids, RP!PipeInfos
<1>4. s_radio \in SP!Radios /\ r_radio \in RP!Radios
  BY <1>1 DEF SP!TypeOK, RP!TypeOK
<1>5. s_rx_payload_buffer.data \in DATA \cup {NoData}
  BY <1>1 DEF SP!TypeOK, SP!Packets, SP!Contents
<1>6. /\ s_tx_fifo \in SP!Ring(TX_FIFO_SIZE, SP!Payloads)
      /\ SP!Consistent(s_tx_fifo, TX_FIFO_SIZE)
      /\ Queued \in Seq(SP!Payloads) /\ Len(Queued) = s_tx_fifo.count
  BY SenderConstants, SP!QueueFacts DEF NodesInv, Queued
<1>. QED
  BY <1>1, <1>2, <1>3, <1>4, <1>5, <1>6

\* The head of a queue is in the slot at the exit.
LEMMA HeadOfQueue ==
  ASSUME NEW fifo \in SP!Ring(TX_FIFO_SIZE, SP!Payloads), fifo.count > 0
  PROVE  SP!Queue(fifo, TX_FIFO_SIZE)[1] = fifo.p_payload[fifo.exit_point]
<1>1. fifo.count \in Nat /\ 1 \in 1 .. fifo.count /\ fifo.exit_point \in 0 .. TX_FIFO_SIZE - 1
  BY SizeAssumption DEF SP!Ring
<1>2. SP!SlotOf(fifo, TX_FIFO_SIZE, 1) = fifo.exit_point
  BY <1>1, SizeAssumption DEF SP!SlotOf, SP!Wrap
<1>. QED
  BY <1>1, <1>2 DEF SP!Queue

\* HeadReceived of EsbLink, for a queue that is not empty.
LEMMA HeadReceivedIs ==
  ASSUME NodesInv
  PROVE  HeadReceived <=> HeadRemembered
<1>1. s_tx_fifo.count > 0 <=> Queued # << >>
  BY NodeTypes
<1>2. s_tx_fifo.count > 0 => Queued[1] = s_tx_fifo.p_payload[s_tx_fifo.exit_point]
  BY NodeTypes, HeadOfQueue DEF Queued, SP!TxQueue
<1>. QED
  BY <1>1, <1>2 DEF HeadReceived, HeadRemembered, Remembered, S!Crc

\* What the invariants of the sender say: about its radio, and its queue.
LEMMA SenderFacts ==
  ASSUME LinkInv
  PROVE  /\ s_mainstate = "IDLE" => s_radio.state = "off" /\ ~SP!DisabledIrq
         /\ s_radio.state = "tx" /\ ~SP!DisabledIrq =>
              s_mainstate = "PTX_TX_ACK" /\ s_radio.shorts = "rxen" /\ s_radio.inten
         /\ s_radio.state = "rx" /\ ~SP!DisabledIrq =>
              s_mainstate = "PTX_RX_ACK" /\ s_radio.shorts = "none" /\ s_radio.inten
         /\ s_mainstate # "IDLE" =>
              /\ Queued # << >>
              /\ s_tx_payload_buffer.data = Queued[1].data
              /\ s_tx_payload_buffer.pid = Queued[1].pid
<1>1. /\ SP!RadioFollowsState /\ SP!ShortsFollowState /\ SP!InFlightIsHead
      /\ SP!TimerFollowsState /\ s_radio \in SP!Radios
      /\ s_mainstate \in {"IDLE", "PTX_TX_ACK", "PTX_RX_ACK"}
  BY NodeTypes DEF LinkInv, NodesInv, SP!InFlightInv, SP!RadioInv, OneWay
<1>2. /\ s_mainstate = "IDLE" => s_radio.state = "off" /\ ~SP!DisabledIrq
      /\ s_radio.state = "tx" /\ ~SP!DisabledIrq => s_mainstate = "PTX_TX_ACK"
      /\ s_radio.state = "rx" /\ ~SP!DisabledIrq => s_mainstate = "PTX_RX_ACK"
  BY <1>1 DEF SP!RadioFollowsState
<1>3. /\ s_mainstate # "IDLE" => s_radio.inten
      /\ s_mainstate = "PTX_TX_ACK" => s_radio.shorts = "rxen"
      /\ s_mainstate = "PTX_RX_ACK" => s_radio.shorts = "none"
  BY <1>1 DEF SP!ShortsFollowState
<1>4. ASSUME s_mainstate # "IDLE"
      PROVE  /\ Queued # << >>
             /\ s_tx_payload_buffer.data = Queued[1].data
             /\ s_tx_payload_buffer.pid = Queued[1].pid
  <2>1. /\ s_tx_fifo.count > 0
        /\ s_tx_payload_buffer.data = s_tx_fifo.p_payload[s_tx_fifo.exit_point].data
        /\ s_tx_payload_buffer.pid = s_tx_fifo.p_payload[s_tx_fifo.exit_point].pid
    BY <1>1, <1>4 DEF SP!InFlightIsHead, SP!Transmitting
  <2>2. Queued[1] = s_tx_fifo.p_payload[s_tx_fifo.exit_point]
    BY <2>1, NodeTypes, HeadOfQueue DEF LinkInv, Queued, SP!TxQueue
  <2>3. Queued # << >>
    BY <2>1, NodeTypes DEF LinkInv
  <2>. QED
    BY <2>1, <2>2, <2>3
<1>. QED
  BY <1>2, <1>3, <1>4

\* What the invariants of the receiver say.
LEMMA ReceiverFacts ==
  ASSUME LinkInv
  PROVE  /\ r_mainstate = "IDLE" => r_radio.state = "off" /\ ~RP!DisabledIrq
         /\ r_radio.state = "tx" /\ ~RP!DisabledIrq =>
              r_mainstate = "PRX_SEND_ACK" /\ r_radio.shorts = "rxen" /\ r_radio.inten
         /\ r_radio.state = "rx" /\ ~RP!DisabledIrq =>
              r_mainstate = "PRX" /\ r_radio.shorts = "txen" /\ r_radio.inten
         /\ r_mainstate = "PRX" /\ RP!DisabledIrq => r_radio.state = "tx"
<1>1. /\ RP!RadioFollowsState /\ RP!ShortsFollowState /\ r_radio \in RP!Radios
      /\ r_mainstate \in {"IDLE", "PRX", "PRX_SEND_ACK"}
  BY NodeTypes DEF LinkInv, NodesInv, RP!InFlightInv, RP!RadioInv, OneWay
<1>2. /\ r_mainstate = "IDLE" => r_radio.state = "off" /\ ~RP!DisabledIrq
      /\ r_radio.state = "tx" /\ ~RP!DisabledIrq => r_mainstate = "PRX_SEND_ACK"
      /\ r_radio.state = "rx" /\ ~RP!DisabledIrq => r_mainstate = "PRX"
      /\ r_mainstate = "PRX" /\ RP!DisabledIrq => r_radio.state = "tx"
  BY <1>1 DEF RP!RadioFollowsState
<1>. QED
  BY <1>1, <1>2 DEF RP!ShortsFollowState

\* HeadReceivedIs after a step.
LEMMA HeadReceivedIsNext == NodesInv' => (HeadReceived <=> HeadRemembered)'
<1>1. NodesInv => (HeadReceived <=> HeadRemembered)
  BY HeadReceivedIs
<1>. QED
  BY <1>1, PTL

-----------------------------------------------------------------------------
(* The queue of the sender                                                 *)

\* Neighbours differ in their packet ids.
LEMMA SuccessorDiffers ==
  ASSUME NEW pid \in 0 .. PID_MAX
  PROVE  Successor(pid) \in 0 .. PID_MAX /\ Successor(pid) # pid
  BY SizeAssumption DEF Successor

\* The parts of LinkInv about the queue, about the air and the rest.
QueueInv == QueuedIsWritten /\ PidsInOrder /\ RemembersLast

\* Nothing written, nothing settled.
LEMMA QueueKept ==
  ASSUME LinkInv, UNCHANGED <<s_tx_fifo, r_rx_pipe_info>>, s_pids'[0] = s_pids[0]
  PROVE  QueueInv' /\ (HeadRemembered' <=> HeadRemembered) /\ Queued' = Queued
<1>1. Queued' = Queued
  BY DEF Queued, SP!TxQueue
<1>2. (HeadRemembered' <=> HeadRemembered)
  BY <1>1 DEF HeadRemembered, Remembered
<1>. QED
  BY <1>1, <1>2 DEF LinkInv, QueueInv, QueuedIsWritten, PidsInOrder, RemembersLast,
       Remembered

\* A payload is written.
LEMMA QueueGrows ==
  ASSUME LinkInv, UNCHANGED r_rx_pipe_info,
         NEW p, p.data \in DATA, ~p.noack, p.pid = Successor(s_pids[0]),
         Queued' = Append(Queued, p), s_pids'[0] = p.pid
  PROVE  QueueInv' /\ (HeadRemembered' <=> HeadRemembered)
<1>. DEFINE n == Len(Queued)
<1>1. Queued \in Seq(SP!Payloads) /\ n \in Nat /\ (Queued # << >> <=> n > 0)
      /\ s_pids[0] \in 0 .. PID_MAX
  BY NodeTypes DEF LinkInv
<1>2. /\ Len(Queued') = n + 1 /\ DOMAIN Queued' = 1 .. n + 1 /\ Queued'[n + 1] = p
      /\ \A k \in 1 .. n : Queued'[k] = Queued[k]
      /\ DOMAIN Queued = 1 .. n
  BY <1>1
<1>. HIDE DEF n
<1>3. QueuedIsWritten'
  BY <1>1, <1>2 DEF LinkInv, QueuedIsWritten
<1>4. PidsInOrder'
  <2>1. ASSUME NEW k \in 1 .. n
        PROVE  Queued'[k + 1].pid = Successor(Queued'[k].pid)
    <3>1. CASE k = n
      BY <1>1, <1>2, <3>1 DEF LinkInv, PidsInOrder, n
    <3>2. CASE k # n
      <4>1. k \in 1 .. n - 1 /\ k + 1 \in 1 .. n
        BY <1>1, <3>2
      <4>. QED
        BY <1>2, <4>1 DEF LinkInv, PidsInOrder, n
    <3>. QED
      BY <3>1, <3>2
  <2>. QED
    BY <1>1, <1>2, <2>1 DEF PidsInOrder
<1>5. CASE n = 0
  <2>1. Queued = << >> /\ Queued' # << >> /\ Queued'[1] = p
    BY <1>1, <1>2, <1>5
  <2>2. r_rx_pipe_info[0].pid = s_pids[0]
    BY <2>1 DEF LinkInv, RemembersLast
  <2>3. ~HeadRemembered /\ ~HeadRemembered'
    BY <1>1, <2>1, <2>2, SuccessorDiffers DEF HeadRemembered, Remembered
  <2>. QED
    BY <1>3, <1>4, <2>1, <2>2, <2>3 DEF QueueInv, RemembersLast
<1>6. CASE n # 0
  <2>1. Queued # << >> /\ Queued' # << >> /\ Queued'[1] = Queued[1]
    BY <1>1, <1>2, <1>6
  <2>. QED
    BY <1>3, <1>4, <2>1 DEF QueueInv, LinkInv, RemembersLast, HeadRemembered, Remembered
<1>. QED
  BY <1>5, <1>6

\* The head is settled: the receiver remembers it.
LEMMA QueueShrinks ==
  ASSUME LinkInv, UNCHANGED <<r_rx_pipe_info, s_pids>>, HeadRemembered,
         Queued' = Tail(Queued)
  PROVE  QueueInv' /\ ~HeadRemembered'
<1>. DEFINE n == Len(Queued)
<1>1. Queued \in Seq(SP!Payloads) /\ n \in Nat \ {0}
      /\ r_rx_pipe_info[0].pid = Queued[1].pid /\ Queued[1].pid \in 0 .. PID_MAX
  <2>1. r_rx_pipe_info[0].pid = Queued[1].pid /\ r_rx_pipe_info[0].pid \in 0 .. PID_MAX
    BY NodeTypes DEF LinkInv, HeadRemembered, Remembered
  <2>. QED
    BY <2>1, NodeTypes DEF LinkInv, HeadRemembered
<1>2. /\ Len(Queued') = n - 1 /\ DOMAIN Queued' = 1 .. n - 1
      /\ \A k \in 1 .. n - 1 : Queued'[k] = Queued[k + 1]
      /\ DOMAIN Queued = 1 .. n /\ (Queued' = << >> <=> n = 1)
  <2>1. Queued # << >>
    BY <1>1
  <2>2. /\ Queued' \in Seq(SP!Payloads) /\ Len(Queued') = n - 1
        /\ \A k \in 1 .. n - 1 : Queued'[k] = Queued[k + 1]
    BY <1>1, <2>1
  <2>3. DOMAIN Queued' = 1 .. n - 1 /\ DOMAIN Queued = 1 .. n
    BY <1>1, <2>2
  <2>4. Queued' = << >> <=> n = 1
    <3>. DEFINE q == Queued'
    <3>1. q \in Seq(SP!Payloads) /\ Len(q) = n - 1 /\ n \in Nat
      BY <1>1, <2>2
    <3>. HIDE DEF q, n
    <3>2. q = << >> <=> Len(q) = 0
      BY <3>1
    <3>. QED
      BY <3>1, <3>2 DEF q
  <2>. QED
    BY <2>2, <2>3, <2>4
<1>3. /\ \A k \in 1 .. n - 1 : Queued[k + 1].pid = Successor(Queued[k].pid)
      /\ Queued[n].pid = s_pids[0]
  BY <1>1 DEF LinkInv, PidsInOrder
<1>. HIDE DEF n
<1>4. QueuedIsWritten'
  BY <1>1, <1>2 DEF LinkInv, QueuedIsWritten
<1>5. PidsInOrder'
  BY <1>1, <1>2, <1>3 DEF PidsInOrder
<1>6. CASE n = 1
  BY <1>1, <1>2, <1>3, <1>4, <1>5, <1>6 DEF QueueInv, RemembersLast, HeadRemembered
<1>7. CASE n # 1
  <2>1. Queued' # << >> /\ Queued'[1] = Queued[2] /\ Queued[2].pid = Successor(Queued[1].pid)
    BY <1>1, <1>2, <1>3, <1>7
  <2>. QED
    BY <1>1, <1>4, <1>5, <2>1, SuccessorDiffers
       DEF QueueInv, RemembersLast, HeadRemembered, Remembered
<1>. QED
  BY <1>6, <1>7

-----------------------------------------------------------------------------
(* The sender's steps                                                      *)

AirInv == OneWay /\ SenderWaits /\ HeardIsSent /\ AckIsForHead

RestInv == Fresh /\ CallsWithinBounds /\ HistoriesOK

\* LinkInv by its parts.
LEMMA LinkInvParts == LinkInv <=> NodesInv /\ QueueInv /\ AirInv /\ RestInv
  BY DEF LinkInv, QueueInv, AirInv, RestInv

\* The types after a step.
LEMMA NodeTypesNext ==
  NodesInv' => (/\ s_tx_fifo \in SP!Ring(TX_FIFO_SIZE, SP!Payloads)
                /\ Len(Queued) = s_tx_fifo.count)'
<1>1. NodesInv => /\ s_tx_fifo \in SP!Ring(TX_FIFO_SIZE, SP!Payloads)
                  /\ Len(Queued) = s_tx_fifo.count
  BY NodeTypes
<1>. QED
  BY <1>1, PTL

\* Every transmission of the sender wants an acknowledgment.
LEMMA StartsWithAck ==
  ASSUME NodesInv', QueuedIsWritten', s_tx_fifo'.count > 0,
         SP!StartTxTransaction(s_tx_fifo')
  PROVE  s_mainstate' = "PTX_TX_ACK" /\ ~s_tx_payload_buffer'.noack
<1>1. /\ s_tx_fifo' \in SP!Ring(TX_FIFO_SIZE, SP!Payloads)
      /\ Len(Queued') = s_tx_fifo'.count
  BY NodeTypesNext
<1>2. Queued'[1] = s_tx_fifo'.p_payload[s_tx_fifo'.exit_point]
  BY <1>1, HeadOfQueue DEF Queued, SP!TxQueue
<1>3. 1 \in DOMAIN Queued'
  BY <1>1 DEF Queued, SP!TxQueue, SP!Queue, SP!Ring
<1>4. ~s_tx_fifo'.p_payload[s_tx_fifo'.exit_point].noack
  BY <1>2, <1>3 DEF QueuedIsWritten
<1>. QED
  BY <1>4 DEF SP!StartTxTransaction

\* The sender starts or stops while nothing is under way at the receiver.
LEMMA AirQuiet ==
  ASSUME LinkInv, UNCHANGED receiver, r_radio.state # "tx",
         s_mainstate' \in {"IDLE", "PTX_TX_ACK"}, ~s_tx_payload_buffer'.noack
  PROVE  AirInv'
<1>1. UNCHANGED <<r_mainstate, r_radio, r_rx_payload_buffer>>
  BY DEF receiver
<1>2. OneWay' /\ SenderWaits' /\ AckIsForHead'
  BY <1>1 DEF LinkInv, OneWay, SenderWaits, AckIsForHead, AckOnAir, AckHeard
<1>3. HeardIsSent'
  BY <1>1, ReceiverFacts DEF HeardIsSent, RP!DisabledIrq
<1>. QED
  BY <1>2, <1>3 DEF AirInv

\* What the sender does has nothing to do with the air.
LEMMA AirKept ==
  ASSUME LinkInv, UNCHANGED <<receiver, s_mainstate, s_tx_payload_buffer>>,
         s_radio'.events_disabled = s_radio.events_disabled,
         s_radio'.inten = s_radio.inten,
         s_radio'.events_end = s_radio.events_end,
         s_radio'.crcstatus = s_radio.crcstatus,
         HeadRemembered' <=> HeadRemembered
  PROVE  AirInv'
<1>1. UNCHANGED <<r_mainstate, r_radio, r_rx_payload_buffer>>
  BY DEF receiver
<1>2. (SP!DisabledIrq' <=> SP!DisabledIrq) /\ (SP!PacketReceived' <=> SP!PacketReceived)
  BY DEF SP!DisabledIrq, SP!PacketReceived
<1>3. OneWay' /\ SenderWaits'
  BY <1>1, <1>2 DEF LinkInv, OneWay, SenderWaits
<1>4. HeardIsSent'
  BY <1>1 DEF LinkInv, HeardIsSent, RP!DisabledIrq
<1>5. AckIsForHead'
  BY <1>1, <1>2 DEF LinkInv, AckIsForHead, AckOnAir, AckHeard
<1>. QED
  BY <1>3, <1>4, <1>5 DEF AirInv

\* The protected section of nrf_esb_write_payload.
LEMMA StoreDoes ==
  ASSUME LinkInv, SP!WritePayloadStore, UNCHANGED r_rx_pipe_info
  PROVE  /\ s_call.at = "write" /\ s_call'.at = "kick"
         /\ UNCHANGED <<s_initialized, s_mainstate, s_tx_payload_buffer, s_radio>>
         /\ s_tx_fifo.count < TX_FIFO_SIZE
         /\ \E p \in SP!Payloads : p.data \in DATA /\ Queued' = Append(Queued, p)
         /\ QueueInv' /\ (HeadRemembered' <=> HeadRemembered)
<1>. DEFINE pid == SP!NextPid(s_call.payload.pipe)
            p == [s_call.payload EXCEPT !.pid = pid]
<1>1. s_call.at = "write" /\ SP!TypeOK
  BY NodeTypes DEF LinkInv, SP!WritePayloadStore
<1>2. /\ s_call'.at = "kick"
      /\ s_tx_fifo' = SP!Pushed(s_tx_fifo, TX_FIFO_SIZE, p)
      /\ s_pids' = [s_pids EXCEPT ![s_call.payload.pipe] = pid]
      /\ UNCHANGED <<s_initialized, s_mainstate, s_tx_payload_buffer, s_radio>>
  BY <1>1 DEF SP!WritePayloadStore, SP!TypeOK, SP!setupVars, SP!stateVars, SP!txVars,
       SP!hwVars
<1>3. /\ s_call.payload \in ToPipe0
      /\ s_call.payload.pipe = 0 /\ s_call.payload.data \in DATA /\ ~s_call.payload.noack
  BY <1>1 DEF LinkInv, CallsWithinBounds, ToPipe0
<1>4. pid = Successor(s_pids[0]) /\ pid \in 0 .. PID_MAX
  BY <1>3, NodeTypes, SuccessorDiffers DEF LinkInv, SP!NextPid, Successor
<1>5. s_pids'[0] = pid
  BY <1>1, <1>2, <1>3 DEF SP!TypeOK
<1>. HIDE DEF pid
<1>6. p \in SP!Payloads /\ p.data \in DATA /\ ~p.noack /\ p.pid = pid
  BY <1>3, <1>4 DEF SP!Payloads, SP!Contents, SP!Pids, ToPipe0
<1>. HIDE DEF p
<1>7. s_tx_fifo.count < TX_FIFO_SIZE
  BY <1>1 DEF LinkInv, NodesInv, SP!InFlightInv, SP!RingsInv, SP!RingsConsistent
<1>8. Queued' = Append(Queued, p)
  BY <1>2, <1>6, <1>7, NodeTypes, SenderConstants, SP!PushedQueue
     DEF LinkInv, Queued, SP!TxQueue
<1>9. QueueInv' /\ (HeadRemembered' <=> HeadRemembered)
  BY <1>4, <1>5, <1>6, <1>8, QueueGrows
<1>. QED
  BY <1>1, <1>2, <1>6, <1>7, <1>8, <1>9

\* The sender's application keeps LinkInv.
LEMMA SenderCallsKeep ==
  ASSUME LinkInv, NodesInv', SenderCalls
  PROVE  LinkInv'
<1>. USE DEF SP!setupVars, SP!stateVars, SP!fifoVars, SP!txVars, SP!evtVars, SP!hwVars
<1>0. /\ UNCHANGED <<receiver, delivered, answers, answered>>
      /\ written' = Writes(written, s_call)
      /\ UNCHANGED <<r_initialized, r_mainstate, r_rx_pipe_info, r_call>>
  BY DEF SenderCalls, receiver
<1>a. /\ written \in Seq(DATA) /\ delivered \in Seq(DATA) /\ answers \in Seq(DATA)
      /\ answered \in Seq(DATA) /\ Len(written) <= MAX_WRITES
  BY DEF LinkInv, HistoriesOK, CallsWithinBounds
<1>b. SP!TypeOK /\ s_radio \in SP!Radios
  BY NodeTypes DEF LinkInv
<1>1. CASE SP!EsbInit
  <2>1. /\ ~s_initialized /\ s_initialized' /\ s_mainstate' = "IDLE"
        /\ s_call.at = "idle" /\ UNCHANGED <<s_call, s_tx_payload_buffer>>
        /\ s_tx_fifo' = SP!Flushed(s_tx_fifo) /\ s_pids' = SP!ZeroPids
        /\ s_radio' = [s_radio EXCEPT !.shorts = s_radio.shorts]
    BY <1>1 DEF SP!EsbInit, SP!Disabled, SP!May
  <2>2. s_mainstate = "IDLE" /\ s_tx_fifo.count = 0 /\ s_pids[0] = 0 /\ s_pids'[0] = 0
    BY <2>1 DEF LinkInv, Fresh, SP!ZeroPids
  <2>3. Queued = << >> /\ Queued' = << >>
    <3>1. s_tx_fifo'.count = 0
      BY <1>b, <2>1, NodeTypes DEF LinkInv, SP!Flushed, SP!Ring
    <3>. QED
      BY <2>2, <3>1 DEF Queued, SP!TxQueue, SP!Queue
  <2>4. QueueInv'
    BY <1>0, <2>2, <2>3 DEF LinkInv, QueueInv, QueuedIsWritten, PidsInOrder, RemembersLast
  <2>5. AirInv'
    BY <1>0, <1>b, <2>1, <2>2, <2>3, AirKept DEF SP!Radios, HeadRemembered
  <2>6. RestInv'
    BY <1>0, <1>a, <2>1 DEF LinkInv, RestInv, Fresh, CallsWithinBounds, HistoriesOK, Writes
  <2>. QED
    BY <2>4, <2>5, <2>6, LinkInvParts DEF QueueInv, AirInv, RestInv, LinkInv
<1>2. CASE SP!WritePayload /\ Len(written) < MAX_WRITES
  <2>1. /\ s_initialized /\ s_call.at = "idle" /\ s_call'.at = "write" /\ s_call'.payload \in ToPipe0
        /\ UNCHANGED <<s_initialized, s_mainstate, s_tx_payload_buffer, s_tx_fifo, s_pids,
                       s_radio>>
    BY <1>2 DEF SP!WritePayload, SP!May
  <2>2. QueueInv' /\ AirInv'
    BY <1>0, <2>1, QueueKept, AirKept
  <2>3. RestInv'
    BY <1>0, <1>a, <1>2, <2>1 DEF LinkInv, RestInv, Fresh, CallsWithinBounds, HistoriesOK,
         Writes
  <2>. QED
    BY <2>2, <2>3 DEF QueueInv, AirInv, RestInv, LinkInv
<1>3. CASE SP!WritePayloadStore
  <2>0. s_call.at = "write" /\ s_call'.at = "kick"
    BY <1>0, <1>3, StoreDoes
  <2>1. QueueInv' /\ AirInv'
    BY <1>0, <1>3, StoreDoes, AirKept
  <2>2. written' = Append(written, s_call.payload.data)
    BY <1>0, <2>0 DEF Writes
  <2>3. s_call.payload.data \in DATA /\ Len(written) < MAX_WRITES
    BY <2>0 DEF LinkInv, CallsWithinBounds, ToPipe0
  <2>4. written' \in Seq(DATA) /\ Len(written') <= MAX_WRITES
    <3>1. Len(written') = Len(written) + 1
      BY <1>a, <2>2, <2>3
    <3>. QED
      BY <1>a, <2>2, <2>3, <3>1, BoundAssumption
  <2>5. s_initialized
    BY <2>0 DEF LinkInv, Fresh
  <2>6. RestInv'
    BY <1>0, <1>3, <1>a, <2>4, <2>5, StoreDoes
       DEF LinkInv, RestInv, Fresh, CallsWithinBounds, HistoriesOK
  <2>. QED
    BY <2>1, <2>6 DEF QueueInv, AirInv, RestInv, LinkInv
<1>4. CASE SP!WritePayloadKick \/ SP!StartTx
  <2>1. /\ UNCHANGED <<s_initialized, s_tx_fifo, s_pids>>
        /\ s_call.at # "write" /\ s_call'.at # "write"
    BY <1>4 DEF SP!WritePayloadKick, SP!StartTx, SP!May
  <2>2. QueueInv' /\ (HeadRemembered' <=> HeadRemembered)
    BY <1>0, <2>1, QueueKept
  <2>3. AirInv' /\ (~s_initialized => s_mainstate' = "IDLE" /\ s_call'.at = "idle")
    <3>1. CASE SP!Idle /\ SP!StartTxTransaction(s_tx_fifo)
      <4>1. s_tx_fifo.count > 0
        <5>1. CASE SP!StartTx
          <6>1. s_tx_fifo.count # 0
            BY <5>1 DEF SP!StartTx
          <6>2. s_tx_fifo.count \in 0 .. UINT32_MAX
            BY NodeTypes DEF LinkInv, SP!Ring
          <6>. QED
            BY <6>1, <6>2, SizeAssumption
        <5>2. CASE SP!WritePayloadKick
          <6>1. s_mainstate = "IDLE" /\ s_mainstate' # "IDLE"
            BY <3>1 DEF SP!Idle, SP!StartTxTransaction
          <6>2. s_call.at = "kick" /\ s_config.mode = "PTX" /\ s_config.tx_mode = "AUTO"
            BY <5>2, <6>1 DEF SP!WritePayloadKick
          <6>. QED
            BY <3>1, <6>2 DEF LinkInv, NodesInv, SP!InFlightInv, SP!KickHasPayload
        <5>. QED
          BY <1>4, <5>1, <5>2
      <4>2. s_mainstate' = "PTX_TX_ACK" /\ ~s_tx_payload_buffer'.noack
        BY <2>1, <2>2, <3>1, <4>1, StartsWithAck DEF QueueInv
      <4>3. r_radio.state # "tx"
        BY <3>1 DEF SP!Idle, LinkInv, SenderWaits
      <4>4. s_initialized
        BY <4>1 DEF LinkInv, Fresh
      <4>. QED
        BY <1>0, <4>2, <4>3, <4>4, AirQuiet
    <3>2. CASE ~(SP!Idle /\ SP!StartTxTransaction(s_tx_fifo))
      <4>1. /\ SP!WritePayloadKick
            /\ UNCHANGED <<s_mainstate, s_tx_payload_buffer, s_radio>>
            /\ s_call.at = "kick"
        BY <1>4, <3>2 DEF SP!WritePayloadKick, SP!StartTx
      <4>. QED
        BY <1>0, <2>2, <4>1, AirKept DEF LinkInv, Fresh
    <3>. QED
      BY <3>1, <3>2
  <2>4. RestInv'
    BY <1>0, <1>a, <2>1, <2>3 DEF LinkInv, RestInv, Fresh, CallsWithinBounds, HistoriesOK,
         Writes
  <2>. QED
    BY <2>2, <2>3, <2>4 DEF QueueInv, AirInv, RestInv, LinkInv
<1>5. CASE SP!ReadRxPayload \/ SP!ReadRxPayloadTake
  <2>1. /\ s_initialized \/ s_call.at # "idle"
        /\ s_call.at # "write" /\ s_call'.at # "write"
        /\ UNCHANGED <<s_initialized, s_mainstate, s_tx_payload_buffer, s_tx_fifo, s_pids,
                       s_radio>>
    BY <1>b, <1>5 DEF SP!ReadRxPayload, SP!ReadRxPayloadTake, SP!May, SP!TypeOK
  <2>2. QueueInv' /\ AirInv'
    BY <1>0, <2>1, QueueKept, AirKept
  <2>3. RestInv'
    BY <1>0, <1>a, <2>1 DEF LinkInv, RestInv, Fresh, CallsWithinBounds, HistoriesOK, Writes
  <2>. QED
    BY <2>2, <2>3 DEF QueueInv, AirInv, RestInv, LinkInv
<1>. QED
  BY <1>1, <1>2, <1>3, <1>4, <1>5, SenderIs DEF SenderCalls

\* What the RADIO interrupt does at the sender: the packet is out, or the wait for
\* its acknowledgment has ended without one, or with one.
LEMMA SenderIrqDoes ==
  ASSUME LinkInv, NodesInv', SenderIrq
  PROVE  /\ UNCHANGED <<s_initialized, s_call, s_pids>>
         /\ \/ /\ s_mainstate = "PTX_TX_ACK" /\ SP!DisabledIrq
               /\ ~SP!OnRadioDisabledTxAcked
               /\ s_mainstate' = "PTX_RX_ACK" /\ ~SP!DisabledIrq' /\ ~s_radio'.events_end
               /\ UNCHANGED <<s_tx_fifo, s_tx_payload_buffer>>
            \/ /\ s_mainstate = "PTX_RX_ACK" /\ SP!DisabledIrq
               /\ s_mainstate' \in {"IDLE", "PTX_TX_ACK"}
               /\ UNCHANGED <<s_tx_fifo, s_tx_payload_buffer>>
            \/ /\ s_mainstate = "PTX_RX_ACK" /\ SP!OnRadioDisabledTxAcked
               /\ s_mainstate' \in {"IDLE", "PTX_TX_ACK"} /\ ~s_tx_payload_buffer'.noack
               /\ HeadRemembered /\ Queued' = Tail(Queued) /\ QueueInv' /\ ~HeadRemembered'
<1>. USE DEF SP!setupVars, SP!stateVars, SP!fifoVars, SP!txVars, SP!evtVars, SP!hwVars
<1>0. /\ SP!RadioIrq /\ UNCHANGED r_rx_pipe_info
  BY SenderIs DEF SenderIrq, receiver
<1>a. /\ SP!InFlightInv /\ SP!RadioInv /\ SP!InFlightIsHead /\ s_radio \in SP!Radios
      /\ s_mainstate \in {"IDLE", "PTX_TX_ACK", "PTX_RX_ACK"} /\ ~s_tx_payload_buffer.noack
  BY NodeTypes DEF LinkInv, NodesInv, SP!InFlightInv, OneWay
<1>b. /\ SP!OnDisabled("tx_noack") => s_mainstate = "PTX_TX"
      /\ SP!OnDisabled("tx") => s_mainstate = "PTX_TX_ACK"
      /\ SP!OnDisabled("tx_wait_for_ack") => s_mainstate = "PTX_RX_ACK"
      /\ SP!OnDisabled("rx") => s_mainstate = "PRX"
      /\ SP!OnDisabled("rx_ack") => s_mainstate = "PRX_SEND_ACK"
  BY <1>a, SenderConstants, SP!HandlerOfState DEF SP!OnDisabled
<1>1. CASE SP!OnRadioDisabledTx
  <2>1. /\ s_mainstate = "PTX_TX_ACK" /\ SP!DisabledIrq
        /\ s_mainstate' = "PTX_RX_ACK"
        /\ s_radio' = [SP!Served EXCEPT !.shorts = "none", !.events_end = FALSE]
        /\ UNCHANGED <<s_initialized, s_call, s_pids, s_tx_fifo, s_tx_payload_buffer>>
    BY <1>1, <1>b DEF SP!OnRadioDisabledTx, SP!OnDisabled
  <2>2. ~SP!DisabledIrq' /\ ~s_radio'.events_end
    BY <1>a, <2>1 DEF SP!Served, SP!Radios, SP!DisabledIrq
  <2>. QED
    BY <1>1, <2>1, <2>2 DEF SP!OnRadioDisabledTx, SP!OnRadioDisabledTxAcked, SP!OnDisabled
<1>2. CASE SP!OnRadioDisabledTxFailed \/ SP!OnRadioDisabledTxRetry
  BY <1>2, <1>b DEF SP!OnRadioDisabledTxFailed, SP!OnRadioDisabledTxRetry, SP!OnDisabled
<1>3. CASE SP!OnRadioDisabledTxAcked
  <2>1. /\ s_mainstate = "PTX_RX_ACK" /\ SP!DisabledIrq /\ SP!PacketReceived
        /\ s_tx_fifo' = SP!RemoveLast(s_tx_fifo)
        /\ SP!NextTransactionOrIdle(s_tx_fifo', SP!Continues(s_tx_fifo'))
        /\ UNCHANGED <<s_initialized, s_call, s_pids>>
    BY <1>3, <1>b DEF SP!OnRadioDisabledTxAcked, SP!OnDisabled
  <2>2. HeadRemembered
    BY <2>1 DEF LinkInv, AckIsForHead, AckOnAir, AckHeard
  <2>3. s_tx_fifo.count > 0
    BY <1>a, <2>1 DEF SP!InFlightIsHead, SP!Transmitting
  <2>4. Queued' = Tail(Queued)
    BY <1>a, <2>1, <2>3, SenderConstants, SP!RemoveLastQueue DEF Queued
  <2>5. QueueInv' /\ ~HeadRemembered'
    BY <1>0, <2>1, <2>2, <2>4, QueueShrinks
  <2>6. s_mainstate' \in {"IDLE", "PTX_TX_ACK"} /\ ~s_tx_payload_buffer'.noack
    <3>1. CASE SP!Continues(s_tx_fifo')
      <4>1. s_tx_fifo' \in SP!Ring(TX_FIFO_SIZE, SP!Payloads)
        BY NodeTypesNext
      <4>2. s_tx_fifo'.count > 0
        BY <3>1, <4>1, SizeAssumption DEF SP!Continues, SP!Ring
      <4>3. SP!StartTxTransaction(s_tx_fifo')
        BY <2>1, <3>1 DEF SP!NextTransactionOrIdle
      <4>. QED
        BY <2>5, <4>2, <4>3, StartsWithAck DEF QueueInv
    <3>2. CASE ~SP!Continues(s_tx_fifo')
      BY <1>a, <2>1, <3>2 DEF SP!NextTransactionOrIdle
    <3>. QED
      BY <3>1, <3>2
  <2>. QED
    BY <1>3, <2>1, <2>2, <2>4, <2>5, <2>6
<1>4. CASE \/ SP!OnRadioDisabledTxNoack \/ SP!OnRadioDisabledRxDrop
           \/ SP!OnRadioDisabledRxNoack \/ SP!OnRadioDisabledRxAck
           \/ SP!OnRadioDisabledRxAckSent
  BY <1>4, <1>a, <1>b DEF SP!OnRadioDisabledTxNoack, SP!OnRadioDisabledRxDrop,
     SP!OnRadioDisabledRxNoack, SP!OnRadioDisabledRxAck, SP!OnRadioDisabledRxAckSent
<1>. QED
  BY <1>0, <1>1, <1>2, <1>3, <1>4 DEF SP!RadioIrq

\* The RADIO interrupt of the sender keeps LinkInv.
LEMMA SenderIrqKeeps ==
  ASSUME LinkInv, NodesInv', SenderIrq
  PROVE  LinkInv'
<1>0. /\ UNCHANGED <<receiver, written, delivered, answers>>
      /\ UNCHANGED <<r_initialized, r_mainstate, r_rx_pipe_info, r_call, r_radio,
                     r_rx_payload_buffer>>
      /\ s_mainstate # "IDLE"
  BY SenderIrqDoes DEF SenderIrq, receiver
<1>1. RestInv'
  <2>1. answered' \in Seq(DATA)
    BY NodeTypes DEF LinkInv, HistoriesOK, SenderIrq
  <2>2. s_initialized
    BY <1>0 DEF LinkInv, Fresh
  <2>. QED
    BY <1>0, <2>1, <2>2, SenderIrqDoes
       DEF LinkInv, RestInv, Fresh, CallsWithinBounds, HistoriesOK
<1>2. CASE /\ s_mainstate = "PTX_TX_ACK" /\ SP!DisabledIrq
           /\ s_mainstate' = "PTX_RX_ACK" /\ ~SP!DisabledIrq' /\ ~s_radio'.events_end
           /\ UNCHANGED <<s_tx_fifo, s_tx_payload_buffer>>
  <2>1. QueueInv' /\ (HeadRemembered' <=> HeadRemembered)
    BY <1>0, <1>2, SenderIrqDoes, QueueKept
  <2>2. OneWay' /\ SenderWaits'
    BY <1>0, <1>2 DEF LinkInv, OneWay, SenderWaits
  <2>3. HeardIsSent' /\ AckIsForHead'
    BY <1>0, <1>2, <2>1 DEF LinkInv, HeardIsSent, RP!DisabledIrq, AckIsForHead, AckOnAir,
       AckHeard
  <2>. QED
    BY <1>1, <2>1, <2>2, <2>3 DEF LinkInv, QueueInv, RestInv
<1>3. CASE ~(s_mainstate = "PTX_TX_ACK" /\ SP!DisabledIrq)
  <2>1. /\ s_mainstate = "PTX_RX_ACK" /\ SP!DisabledIrq
        /\ s_mainstate' \in {"IDLE", "PTX_TX_ACK"} /\ ~s_tx_payload_buffer'.noack
    BY <1>3, SenderIrqDoes DEF LinkInv, OneWay, SP!OnRadioDisabledTxAcked, SP!OnDisabled
  <2>2. QueueInv'
    BY <1>0, <1>3, SenderIrqDoes, QueueKept
  <2>3. r_radio.state # "tx"
    BY <2>1 DEF LinkInv, SenderWaits
  <2>4. AirInv'
    BY <1>0, <2>1, <2>3, AirQuiet
  <2>. QED
    BY <1>1, <2>2, <2>4 DEF LinkInv, QueueInv, AirInv, RestInv
<1>. QED
  BY <1>2, <1>3, SenderIrqDoes

\* A packet is lost, the wait for an acknowledgment or for the retransmission ends.
LEMMA SenderHardwareKeeps ==
  ASSUME LinkInv, NodesInv', PacketLost \/ AckWindowCloses \/ RetransmitDelay
  PROVE  LinkInv'
<1>. USE DEF SP!setupVars, SP!stateVars, SP!fifoVars, SP!txVars, SP!evtVars, SP!hwVars
<1>0. /\ UNCHANGED <<receiver, written, delivered, answers, answered>>
      /\ SP!TxEnd \/ (SP!RxTimeout /\ r_radio.state # "tx") \/ SP!TimerCompare1
  BY SenderIs DEF PacketLost, AckWindowCloses, RetransmitDelay, history
<1>a. /\ UNCHANGED <<r_initialized, r_mainstate, r_rx_pipe_info, r_call, r_radio,
                     r_rx_payload_buffer>>
      /\ UNCHANGED <<s_initialized, s_mainstate, s_tx_fifo, s_pids, s_tx_payload_buffer,
                     s_call>>
  BY <1>0 DEF receiver, SP!TxEnd, SP!RxTimeout, SP!TimerCompare1
<1>b. s_radio \in SP!Radios
  BY NodeTypes DEF LinkInv
<1>1. QueueInv' /\ (HeadRemembered' <=> HeadRemembered)
  BY <1>a, QueueKept
<1>2. RestInv'
  BY <1>0, <1>a DEF LinkInv, RestInv, Fresh, CallsWithinBounds, HistoriesOK
<1>3. AirInv'
  <2>1. CASE SP!TxEnd
    <3>1. s_mainstate = "PTX_TX_ACK" /\ ~SP!DisabledIrq
      BY <2>1, SenderFacts DEF SP!TxEnd
    <3>2. r_radio.state # "tx"
      BY <3>1 DEF LinkInv, SenderWaits
    <3>. QED
      BY <1>0, <1>a, <3>1, <3>2, AirQuiet DEF LinkInv, OneWay
  <2>2. CASE SP!RxTimeout /\ r_radio.state # "tx"
    <3>1. s_mainstate = "PTX_RX_ACK" /\ ~SP!DisabledIrq /\ s_radio.inten
      BY <2>2, SenderFacts DEF SP!RxTimeout
    <3>2. ~s_radio'.events_end /\ SP!DisabledIrq'
      BY <1>b, <2>2, <3>1 DEF SP!RxTimeout, SP!Radios, SP!DisabledIrq, LinkInv, SenderWaits
    <3>3. OneWay' /\ SenderWaits'
      BY <1>a, <2>2, <3>2 DEF LinkInv, OneWay, SenderWaits
    <3>4. HeardIsSent' /\ AckIsForHead'
      BY <1>a, <2>2, <3>2 DEF LinkInv, HeardIsSent, RP!DisabledIrq, AckIsForHead, AckOnAir,
         AckHeard,
         SP!PacketReceived
    <3>. QED
      BY <3>3, <3>4 DEF AirInv
  <2>3. CASE SP!TimerCompare1
    <3>1. /\ s_radio'.events_disabled = s_radio.events_disabled
          /\ s_radio'.inten = s_radio.inten
          /\ s_radio'.events_end = s_radio.events_end
          /\ s_radio'.crcstatus = s_radio.crcstatus
      BY <1>b, <2>3 DEF SP!TimerCompare1, SP!Radios
    <3>. QED
      BY <1>0, <1>1, <1>a, <3>1, AirKept
  <2>. QED
    BY <1>0, <2>1, <2>2, <2>3
<1>. QED
  BY <1>1, <1>2, <1>3 DEF LinkInv, QueueInv, AirInv, RestInv

-----------------------------------------------------------------------------
(* The receiver's steps, and the packets that arrive                       *)

\* What the receiver does has nothing to do with the air.
LEMMA ReceiverKept ==
  ASSUME LinkInv, UNCHANGED sender,
         UNCHANGED <<r_mainstate, r_rx_pipe_info, r_rx_payload_buffer>>,
         r_radio'.state = r_radio.state,
         r_radio'.events_disabled = r_radio.events_disabled,
         r_radio'.inten = r_radio.inten,
         r_radio'.crcstatus = r_radio.crcstatus
  PROVE  QueueInv' /\ AirInv'
<1>1. UNCHANGED <<s_mainstate, s_tx_fifo, s_pids, s_tx_payload_buffer, s_radio>>
  BY DEF sender
<1>2. QueueInv' /\ (HeadRemembered' <=> HeadRemembered)
  BY <1>1, QueueKept
<1>3. OneWay' /\ SenderWaits'
  BY <1>1 DEF LinkInv, OneWay, SenderWaits, SP!DisabledIrq
<1>4. HeardIsSent' /\ AckIsForHead'
  BY <1>1, <1>2 DEF LinkInv, HeardIsSent, RP!DisabledIrq, AckIsForHead, AckOnAir, AckHeard,
     SP!DisabledIrq,
     SP!PacketReceived
<1>. QED
  BY <1>2, <1>3, <1>4 DEF AirInv

\* The receiver turns to something else; it has no acknowledgment to send.
LEMMA ReceiverTurns ==
  ASSUME LinkInv, UNCHANGED sender, UNCHANGED r_rx_pipe_info,
         r_mainstate' \in {"IDLE", "PRX", "PRX_SEND_ACK"}, r_radio'.state # "tx",
         r_mainstate' = "PRX" => ~RP!DisabledIrq'
  PROVE  QueueInv' /\ AirInv'
<1>1. UNCHANGED <<s_mainstate, s_tx_fifo, s_pids, s_tx_payload_buffer, s_radio>>
  BY DEF sender
<1>2. QueueInv' /\ (HeadRemembered' <=> HeadRemembered)
  BY <1>1, QueueKept
<1>3. OneWay' /\ SenderWaits' /\ HeardIsSent'
  BY <1>1 DEF LinkInv, OneWay, SenderWaits, SP!DisabledIrq, HeardIsSent
<1>4. AckIsForHead'
  BY <1>1, <1>2 DEF LinkInv, AckIsForHead, AckOnAir, AckHeard, SP!DisabledIrq,
     SP!PacketReceived
<1>. QED
  BY <1>2, <1>3, <1>4 DEF AirInv

\* The receiver's application keeps LinkInv.
LEMMA ReceiverCallsKeep ==
  ASSUME LinkInv, NodesInv', ReceiverCalls
  PROVE  LinkInv'
<1>. USE DEF RP!setupVars, RP!stateVars, RP!fifoVars, RP!txVars, RP!evtVars, RP!hwVars
<1>0. /\ UNCHANGED <<sender, written, delivered, answered>>
      /\ answers' = Writes(answers, r_call)
      /\ UNCHANGED <<s_initialized, s_mainstate, s_tx_fifo, s_pids, s_call>>
  BY DEF ReceiverCalls, sender
<1>a. /\ written \in Seq(DATA) /\ delivered \in Seq(DATA) /\ answers \in Seq(DATA)
      /\ answered \in Seq(DATA) /\ Len(answers) <= MAX_ANSWERS
  BY DEF LinkInv, HistoriesOK, CallsWithinBounds
<1>b. RP!TypeOK /\ r_radio \in RP!Radios /\ r_config.mode = "PRX"
  BY NodeTypes, NodeAssumption DEF LinkInv
<1>1. CASE RP!EsbInit
  <2>1. /\ ~r_initialized /\ r_initialized' /\ r_mainstate' = "IDLE"
        /\ r_call.at = "idle" /\ UNCHANGED <<r_call, r_rx_payload_buffer>>
        /\ r_rx_pipe_info' = RP!ZeroPipeInfo
        /\ r_radio' = [r_radio EXCEPT !.shorts = r_radio.shorts]
    BY <1>1 DEF RP!EsbInit, RP!Disabled, RP!May
  <2>2. UNCHANGED <<r_rx_pipe_info, r_mainstate>>
    BY <2>1 DEF LinkInv, Fresh
  <2>3. QueueInv' /\ AirInv'
    BY <1>0, <1>b, <2>1, <2>2, ReceiverKept DEF RP!Radios
  <2>4. RestInv'
    BY <1>0, <1>a, <2>1 DEF LinkInv, RestInv, Fresh, CallsWithinBounds, HistoriesOK, Writes
  <2>. QED
    BY <2>3, <2>4 DEF QueueInv, AirInv, RestInv, LinkInv
<1>2. CASE RP!WritePayload /\ Len(answers) < MAX_ANSWERS
  <2>1. /\ r_call.at = "idle" /\ r_call'.at = "write" /\ r_call'.payload \in ToPipe0
        /\ UNCHANGED <<r_initialized, r_mainstate, r_rx_pipe_info, r_rx_payload_buffer,
                       r_radio>>
    BY <1>2 DEF RP!WritePayload, RP!May
  <2>2. QueueInv' /\ AirInv'
    BY <1>0, <2>1, ReceiverKept
  <2>3. RestInv'
    BY <1>0, <1>a, <1>2, <2>1 DEF LinkInv, RestInv, Fresh, CallsWithinBounds, HistoriesOK,
         Writes
  <2>. QED
    BY <2>2, <2>3 DEF QueueInv, AirInv, RestInv, LinkInv
<1>3. CASE RP!WritePayloadStore
  <2>1. /\ r_call.at = "write" /\ r_call'.at = "kick"
        /\ UNCHANGED <<r_initialized, r_mainstate, r_rx_pipe_info, r_rx_payload_buffer,
                       r_radio>>
    BY <1>b, <1>3 DEF RP!WritePayloadStore, RP!TypeOK
  <2>2. r_call.payload.data \in DATA /\ Len(answers) < MAX_ANSWERS
    BY <2>1 DEF LinkInv, CallsWithinBounds, ToPipe0
  <2>3. QueueInv' /\ AirInv'
    BY <1>0, <2>1, ReceiverKept
  <2>4. answers' = Append(answers, r_call.payload.data)
    BY <1>0, <2>1 DEF Writes
  <2>5. answers' \in Seq(DATA) /\ Len(answers') <= MAX_ANSWERS
    BY <1>a, <2>2, <2>4, BoundAssumption
  <2>6. RestInv'
    BY <1>0, <1>a, <2>1, <2>5 DEF LinkInv, RestInv, Fresh, CallsWithinBounds, HistoriesOK
  <2>. QED
    BY <2>3, <2>6 DEF QueueInv, AirInv, RestInv, LinkInv
<1>4. CASE RP!WritePayloadKick \/ RP!ReadRxPayload \/ RP!ReadRxPayloadTake \/ RP!StopRx
  <2>1. /\ r_call.at # "write" /\ r_call'.at # "write"
        /\ UNCHANGED <<r_initialized, r_mainstate, r_rx_pipe_info, r_rx_payload_buffer,
                       r_radio>>
    BY <1>b, <1>4 DEF RP!WritePayloadKick, RP!ReadRxPayload, RP!ReadRxPayloadTake,
         RP!StopRx,
       RP!May, RP!TypeOK
  <2>2. QueueInv' /\ AirInv'
    BY <1>0, <2>1, ReceiverKept
  <2>3. RestInv'
    BY <1>0, <1>a, <2>1 DEF LinkInv, RestInv, Fresh, CallsWithinBounds, HistoriesOK, Writes
  <2>. QED
    BY <2>2, <2>3 DEF QueueInv, AirInv, RestInv, LinkInv
<1>5. CASE RP!StartRx
  <2>1. /\ r_initialized /\ r_call.at = "idle" /\ r_mainstate' = "PRX"
        /\ r_radio'.state = "rx" /\ ~r_radio'.events_disabled
        /\ UNCHANGED <<r_initialized, r_rx_pipe_info, r_call>>
    BY <1>b, <1>5 DEF RP!StartRx, RP!May, RP!Radios
  <2>2. QueueInv' /\ AirInv'
    BY <1>0, <2>1, ReceiverTurns DEF RP!DisabledIrq
  <2>3. RestInv'
    BY <1>0, <1>a, <2>1 DEF LinkInv, RestInv, Fresh, CallsWithinBounds, HistoriesOK, Writes
  <2>. QED
    BY <2>2, <2>3 DEF QueueInv, AirInv, RestInv, LinkInv
<1>6. CASE RP!StopRxNow
  <2>1. r_call.at = "stop_rx"
    BY <1>6 DEF RP!StopRxNow, LinkInv, NodesInv, RP!InFlightInv, RP!RadioInv,
         RP!StopsReception
  <2>2. /\ r_call'.at = "idle" /\ r_mainstate' = "IDLE" /\ r_radio'.state = "off"
        /\ UNCHANGED <<r_initialized, r_rx_pipe_info>>
    BY <1>b, <1>6, <2>1 DEF RP!StopRxNow, RP!After, RP!Radios, RP!TypeOK
  <2>3. QueueInv' /\ AirInv'
    BY <1>0, <2>2, ReceiverTurns
  <2>4. RestInv'
    BY <1>0, <1>a, <2>1, <2>2 DEF LinkInv, RestInv, Fresh, CallsWithinBounds, HistoriesOK,
         Writes
  <2>. QED
    BY <2>3, <2>4 DEF QueueInv, AirInv, RestInv, LinkInv
<1>. QED
  BY <1>1, <1>2, <1>3, <1>4, <1>5, <1>6, ReceiverIs DEF ReceiverCalls

\* The packet the receiver looks at: the head of the sender's queue.
LEMMA HeardIsHead ==
  ASSUME LinkInv, r_mainstate = "PRX", RP!DisabledIrq, r_radio.crcstatus
  PROVE  /\ Queued # << >> /\ r_radio.state = "tx"
         /\ r_rx_payload_buffer.data = Queued[1].data
         /\ r_rx_payload_buffer.pid = Queued[1].pid
         /\ ~r_rx_payload_buffer.noack
<1>1. r_radio.state = "tx" /\ r_rx_payload_buffer = s_tx_payload_buffer
  BY ReceiverFacts DEF LinkInv, HeardIsSent
<1>2. s_mainstate # "IDLE"
  BY <1>1 DEF LinkInv, SenderWaits
<1>. QED
  BY <1>1, <1>2, SenderFacts DEF LinkInv, OneWay

\* What the RADIO interrupt does at the receiver: it drops what it has heard, or
\* acknowledges it and delivers it if it is not the packet it remembers, or the
\* acknowledgment is out.
LEMMA ReceiverIrqDoes ==
  ASSUME LinkInv, NodesInv', ReceiverIrq
  PROVE  /\ UNCHANGED <<r_initialized, r_call>> /\ r_mainstate # "IDLE"
         /\ \/ /\ r_mainstate' = "PRX" /\ r_radio'.state = "rx" /\ ~RP!DisabledIrq'
               /\ UNCHANGED <<r_rx_pipe_info, r_tx_fifo, delivered>>
            \/ /\ RP!OnRadioDisabledRxAck
               /\ r_mainstate = "PRX" /\ RP!DisabledIrq /\ r_radio.crcstatus
               /\ r_mainstate' = "PRX_SEND_ACK" /\ r_radio'.state = r_radio.state
               /\ r_rx_pipe_info'[0].pid = Queued[1].pid
               /\ r_rx_pipe_info'[0].crc = <<Queued[1].data, Queued[1].pid>>
               /\ IF HeadRemembered THEN UNCHANGED delivered
                  ELSE delivered' = Append(delivered, Queued[1].data)
<1>. USE DEF RP!setupVars, RP!stateVars, RP!fifoVars, RP!txVars, RP!evtVars, RP!hwVars
<1>0. RP!RadioIrq
  BY ReceiverIs DEF ReceiverIrq
<1>a. /\ RP!TypeOK /\ RP!RadioInv /\ RP!RingsInv /\ r_radio \in RP!Radios
      /\ r_mainstate \in {"IDLE", "PRX", "PRX_SEND_ACK"}
      /\ r_config.protocol = "ESB_DPL" /\ r_radio.rxmatch = 0
  <2>1. r_radio \in RP!Radios
    BY NodeTypes DEF LinkInv
  <2>. QED
    BY <2>1, NodeTypes, NodeAssumption DEF LinkInv, NodesInv, RP!InFlightInv, OneWay,
         RP!Radios
<1>b. /\ RP!OnDisabled("tx_noack") => r_mainstate = "PTX_TX"
      /\ RP!OnDisabled("tx") => r_mainstate = "PTX_TX_ACK"
      /\ RP!OnDisabled("tx_wait_for_ack") => r_mainstate = "PTX_RX_ACK"
      /\ RP!OnDisabled("rx") => r_mainstate = "PRX"
      /\ RP!OnDisabled("rx_ack") => r_mainstate = "PRX_SEND_ACK" /\ r_radio.state = "rx"
  BY <1>a, ReceiverConstants, RP!HandlerOfState DEF RP!OnDisabled
<1>c. r_rx_fifo' = r_rx_fifo => UNCHANGED delivered
  <2>1. r_rx_fifo.count \in 0 .. UINT32_MAX
    BY <1>a DEF RP!TypeOK, RP!Ring
  <2>. QED
    BY <2>1, SizeAssumption DEF ReceiverIrq
<1>1. CASE RP!OnRadioDisabledRxDrop
  <2>1. /\ r_mainstate = "PRX" /\ r_radio'.state = "rx" /\ ~r_radio'.events_disabled
        /\ UNCHANGED <<r_initialized, r_call, r_mainstate, r_rx_pipe_info, r_tx_fifo,
                       r_rx_fifo>>
    BY <1>a, <1>b, <1>1 DEF RP!OnRadioDisabledRxDrop, RP!ClearEventsRestartRx, RP!Radios
  <2>. QED
    BY <1>c, <2>1 DEF RP!DisabledIrq
<1>2. CASE RP!OnRadioDisabledRxAckSent
  <2>1. /\ r_mainstate = "PRX_SEND_ACK" /\ r_mainstate' = "PRX"
        /\ r_radio'.state = "rx" /\ ~r_radio'.events_disabled
        /\ UNCHANGED <<r_initialized, r_call, r_rx_pipe_info, r_tx_fifo, r_rx_fifo>>
    BY <1>a, <1>b, <1>2 DEF RP!OnRadioDisabledRxAckSent, RP!Served, RP!Radios
  <2>. QED
    BY <1>c, <2>1 DEF RP!DisabledIrq
<1>3. CASE RP!OnRadioDisabledRxNoack
  <2>1. /\ r_mainstate = "PRX" /\ RP!DisabledIrq /\ r_radio.crcstatus
        /\ r_rx_payload_buffer.noack
    BY <1>b, <1>3 DEF RP!OnRadioDisabledRxNoack, RP!OnDisabled, RP!RxDropped, RP!RxWantsAck
  <2>. QED
    BY <2>1, HeardIsHead
<1>4. CASE RP!OnRadioDisabledRxAck
  <2>. DEFINE pid == RP!RxPid(r_rx_payload_buffer)
              pushed == RP!PushRfbuf(0, pid)
  <2>1. /\ r_mainstate = "PRX" /\ RP!DisabledIrq /\ r_radio.crcstatus
        /\ r_rx_fifo.count < RX_FIFO_SIZE /\ r_mainstate' = "PRX_SEND_ACK"
        /\ UNCHANGED <<r_initialized, r_call>>
    <3>1. ~RP!RxDropped /\ r_mainstate = "PRX" /\ RP!DisabledIrq
      BY <1>b, <1>4 DEF RP!OnRadioDisabledRxAck, RP!OnDisabled
    <3>2. r_rx_fifo.count \in 0 .. UINT32_MAX
      BY <1>a DEF RP!TypeOK, RP!Ring
    <3>3. r_radio.crcstatus /\ r_rx_fifo.count < RX_FIFO_SIZE
      BY <3>1, <3>2, SizeAssumption DEF RP!RxDropped
    <3>. QED
      BY <1>4, <3>1, <3>3 DEF RP!OnRadioDisabledRxAck
  <2>2. r_radio'.state = r_radio.state
    BY <1>a, <1>4 DEF RP!OnRadioDisabledRxAck, RP!Served, RP!Radios
  <2>3. pid = Queued[1].pid /\ pid \in RP!Pids /\ r_rx_payload_buffer.data = Queued[1].data
    BY <1>a, <2>1, HeardIsHead DEF RP!RxPid, RP!TypeOK, RP!Packets
  <2>4. /\ r_rx_pipe_info'[0].pid = pid
        /\ r_rx_pipe_info'[0].crc = <<r_rx_payload_buffer.data, r_rx_payload_buffer.pid>>
    <3>1. PICK a : r_rx_pipe_info' = RP!RxPipeInfo(a)
      BY <1>4 DEF RP!OnRadioDisabledRxAck
    <3>2. 0 \in DOMAIN r_rx_pipe_info
      BY <1>a DEF RP!TypeOK
    <3>. QED
      BY <1>a, <3>1, <3>2 DEF RP!RxPipeInfo, RP!Crc
  <2>5. RP!RxRetransmit <=> HeadRemembered
    BY <1>a, <2>1, <2>3, HeardIsHead DEF RP!RxRetransmit, RP!Crc, HeadRemembered, Remembered
  <2>6. PICK flags : RP!RxDelivered(flags)
    BY <1>4 DEF RP!OnRadioDisabledRxAck
  <2>7. CASE HeadRemembered
    <3>1. r_rx_fifo' = r_rx_fifo
      BY <2>5, <2>6, <2>7 DEF RP!RxDelivered
    <3>. QED
      BY <1>4, <1>c, <2>1, <2>2, <2>3, <2>4, <2>7, <3>1, HeardIsHead
  <2>8. CASE ~HeadRemembered
    <3>1. pushed # r_rx_fifo
      BY <1>a, <2>1, <2>3, ReceiverConstants, RP!PushRfbufConsistent
    <3>2. r_rx_fifo' = pushed
      BY <1>a, <2>5, <2>6, <2>8, <3>1 DEF RP!RxDelivered
    <3>3. pushed = RP!Pushed(r_rx_fifo, RX_FIFO_SIZE,
                     [pipe |-> 0, data |-> r_rx_payload_buffer.data, pid |-> pid])
      BY <1>a, <2>1 DEF RP!PushRfbuf
    <3>. DEFINE payload == [pipe |-> 0, data |-> r_rx_payload_buffer.data, pid |-> pid]
    <3>4. payload.data = Queued[1].data
      BY <2>3
    <3>. HIDE DEF payload, pushed
    <3>5. r_rx_fifo \in RP!Ring(RX_FIFO_SIZE, RP!RxPayloads)
      BY <1>a DEF RP!TypeOK
    <3>6. /\ r_rx_fifo'.count > r_rx_fifo.count
          /\ r_rx_fifo'.p_payload[r_rx_fifo.entry_point] = payload
      BY <2>1, <3>2, <3>3, <3>5, SizeAssumption DEF RP!Pushed, RP!Ring, RP!Inc32, payload
    <3>7. delivered' = Append(delivered, Queued[1].data)
      BY <3>4, <3>6 DEF ReceiverIrq
    <3>. QED
      BY <1>4, <2>1, <2>2, <2>3, <2>4, <2>8, <3>7, HeardIsHead
  <2>. QED
    BY <2>7, <2>8
<1>5. CASE \/ RP!OnRadioDisabledTxNoack \/ RP!OnRadioDisabledTx \/ RP!OnRadioDisabledTxAcked
           \/ RP!OnRadioDisabledTxFailed \/ RP!OnRadioDisabledTxRetry
  BY <1>5, <1>a, <1>b DEF RP!OnRadioDisabledTxNoack, RP!OnRadioDisabledTx,
     RP!OnRadioDisabledTxAcked, RP!OnRadioDisabledTxFailed, RP!OnRadioDisabledTxRetry
<1>. QED
  BY <1>0, <1>1, <1>2, <1>3, <1>4, <1>5 DEF RP!RadioIrq

\* The RADIO interrupt of the receiver keeps LinkInv.
LEMMA ReceiverIrqKeeps ==
  ASSUME LinkInv, NodesInv', ReceiverIrq
  PROVE  LinkInv'
<1>0. /\ UNCHANGED <<sender, written, answers, answered>>
      /\ UNCHANGED <<s_initialized, s_mainstate, s_tx_fifo, s_pids, s_tx_payload_buffer,
                     s_call, s_radio>>
  BY DEF ReceiverIrq, sender
<1>1. CASE /\ r_mainstate' = "PRX" /\ r_radio'.state = "rx" /\ ~RP!DisabledIrq'
           /\ UNCHANGED <<r_rx_pipe_info, delivered>>
  <2>1. QueueInv' /\ AirInv'
    BY <1>0, <1>1, ReceiverTurns
  <2>2. RestInv'
    BY <1>0, <1>1, ReceiverIrqDoes DEF LinkInv, RestInv, Fresh, CallsWithinBounds,
         HistoriesOK
  <2>. QED
    BY <2>1, <2>2 DEF QueueInv, AirInv, RestInv, LinkInv
<1>2. CASE r_mainstate' = "PRX_SEND_ACK"
  <2>1. /\ r_mainstate = "PRX" /\ RP!DisabledIrq /\ r_radio.crcstatus
        /\ r_radio'.state = r_radio.state
        /\ r_rx_pipe_info'[0].pid = Queued[1].pid
        /\ r_rx_pipe_info'[0].crc = <<Queued[1].data, Queued[1].pid>>
        /\ IF HeadRemembered THEN UNCHANGED delivered
           ELSE delivered' = Append(delivered, Queued[1].data)
    BY <1>2, ReceiverIrqDoes
  <2>2. Queued # << >> /\ Queued' = Queued
    BY <1>0, <2>1, HeardIsHead DEF Queued, SP!TxQueue
  <2>3. HeadRemembered'
    BY <2>1, <2>2 DEF HeadRemembered, Remembered
  <2>4. QueueInv'
    BY <1>0, <2>2, <2>3 DEF LinkInv, QueueInv, QueuedIsWritten, PidsInOrder, RemembersLast,
       HeadRemembered
  <2>5. AirInv'
    <3>1. OneWay' /\ SenderWaits'
      BY <1>0, <1>2, <2>1 DEF LinkInv, OneWay, SenderWaits, SP!DisabledIrq
    <3>2. HeardIsSent' /\ AckIsForHead'
      BY <1>2, <2>3 DEF HeardIsSent, AckIsForHead, AckOnAir, AckHeard
    <3>. QED
      BY <3>1, <3>2 DEF AirInv
  <2>6. delivered' \in Seq(DATA)
    <3>1. Queued[1].data \in DATA
      <4>1. 1 \in DOMAIN Queued
        BY <2>2, NodeTypes DEF LinkInv
      <4>. QED
        BY <4>1 DEF LinkInv, QueuedIsWritten
    <3>. QED
      BY <2>1, <3>1 DEF LinkInv, HistoriesOK
  <2>7. RestInv'
    BY <1>0, <2>6, ReceiverIrqDoes DEF LinkInv, RestInv, Fresh, CallsWithinBounds,
         HistoriesOK
  <2>. QED
    BY <2>4, <2>5, <2>7 DEF QueueInv, AirInv, RestInv, LinkInv
<1>. QED
  BY <1>1, <1>2, ReceiverIrqDoes

\* The receiver's radio has sent the acknowledgment, lost or not.
LEMMA AckIsOut ==
  ASSUME LinkInv, RP!TxEnd
  PROVE  /\ HeadRemembered /\ r_mainstate = "PRX_SEND_ACK" /\ r_radio'.state = "rx"
         /\ UNCHANGED <<r_initialized, r_mainstate, r_rx_pipe_info, r_call>>
<1>. USE DEF RP!setupVars, RP!stateVars, RP!fifoVars, RP!txVars, RP!evtVars, RP!hwVars
<1>1. r_mainstate = "PRX_SEND_ACK" /\ r_radio.state = "tx" /\ r_radio.shorts = "rxen"
  BY ReceiverFacts DEF RP!TxEnd
<1>2. r_radio'.state = "rx"
  BY <1>1, NodeTypes DEF LinkInv, RP!TxEnd, RP!AfterEnd, RP!After, RP!Radios
<1>. QED
  BY <1>1, <1>2 DEF RP!TxEnd, LinkInv, AckIsForHead, AckOnAir, AckHeard

\* An acknowledgment is lost.
LEMMA AckLostKeeps ==
  ASSUME LinkInv, NodesInv', AckLost
  PROVE  LinkInv'
<1>1. /\ RP!TxEnd /\ UNCHANGED <<sender, written, delivered, answers, answered>>
      /\ UNCHANGED <<s_initialized, s_mainstate, s_tx_fifo, s_pids, s_call>>
  BY ReceiverIs DEF AckLost, history, sender
<1>2. QueueInv' /\ AirInv'
  BY <1>1, AckIsOut, ReceiverTurns
<1>3. RestInv'
  BY <1>1, AckIsOut DEF LinkInv, RestInv, Fresh, CallsWithinBounds, HistoriesOK
<1>. QED
  BY <1>2, <1>3 DEF QueueInv, AirInv, RestInv, LinkInv

\* An acknowledgment arrives, damaged or not.
LEMMA AckArrivesKeeps ==
  ASSUME LinkInv, NodesInv', AckArrives
  PROVE  LinkInv'
<1>. USE DEF SP!setupVars, SP!stateVars, SP!fifoVars, SP!txVars, SP!evtVars, SP!hwVars
<1>1. PICK crcok \in BOOLEAN : SP!RxEnd(r_tx_payload_buffer, r_radio.txaddress, crcok)
  BY SenderHears DEF AckArrives
<1>2. RP!TxEnd /\ UNCHANGED <<written, delivered, answers, answered>>
  BY ReceiverIs DEF AckArrives, history
<1>3. s_mainstate = "PTX_RX_ACK" /\ s_radio.inten
  BY <1>1, SenderFacts DEF SP!RxEnd
<1>4. /\ UNCHANGED <<s_initialized, s_mainstate, s_tx_fifo, s_pids, s_tx_payload_buffer,
                     s_call>>
      /\ SP!DisabledIrq'
  <2>1. s_radio'.events_disabled /\ s_radio'.inten = s_radio.inten
    BY <1>1, NodeTypes DEF LinkInv, SP!RxEnd, SP!Radios
  <2>. QED
    BY <1>1, <1>3, <2>1 DEF SP!RxEnd, SP!DisabledIrq
<1>5. QueueInv' /\ HeadRemembered'
  BY <1>2, <1>4, AckIsOut, QueueKept
<1>6. AirInv'
  <2>1. OneWay' /\ SenderWaits'
    BY <1>2, <1>3, <1>4, AckIsOut DEF LinkInv, OneWay, SenderWaits
  <2>2. HeardIsSent' /\ AckIsForHead'
    BY <1>2, <1>5, AckIsOut DEF HeardIsSent, AckIsForHead, AckOnAir, AckHeard
  <2>. QED
    BY <2>1, <2>2 DEF AirInv
<1>7. RestInv'
  BY <1>2, <1>4, AckIsOut DEF LinkInv, RestInv, Fresh, CallsWithinBounds, HistoriesOK
<1>. QED
  BY <1>5, <1>6, <1>7 DEF QueueInv, AirInv, RestInv, LinkInv

\* A packet arrives, damaged or not.
LEMMA PacketArrivesKeeps ==
  ASSUME LinkInv, NodesInv', PacketArrives
  PROVE  LinkInv'
<1>. USE DEF SP!setupVars, SP!stateVars, SP!fifoVars, SP!txVars, SP!evtVars, SP!hwVars,
         RP!setupVars, RP!stateVars, RP!fifoVars, RP!txVars, RP!evtVars, RP!hwVars
<1>1. PICK crcok \in BOOLEAN : RP!RxEnd(s_tx_payload_buffer, s_radio.txaddress, crcok)
  BY ReceiverHears DEF PacketArrives
<1>2. SP!TxEnd /\ UNCHANGED <<written, delivered, answers, answered>>
  BY SenderIs DEF PacketArrives, history
<1>3. /\ s_mainstate = "PTX_TX_ACK" /\ s_radio.inten
      /\ r_mainstate = "PRX"
  BY <1>1, <1>2, SenderFacts, ReceiverFacts DEF SP!TxEnd, RP!RxEnd
<1>4. /\ UNCHANGED <<s_initialized, s_mainstate, s_tx_fifo, s_pids, s_tx_payload_buffer,
                     s_call>>
      /\ SP!DisabledIrq'
  <2>1. s_radio'.events_disabled /\ s_radio'.inten = s_radio.inten
    BY <1>2, NodeTypes DEF LinkInv, SP!TxEnd, SP!Radios
  <2>. QED
    BY <1>2, <1>3, <2>1 DEF SP!TxEnd, SP!DisabledIrq
<1>5. /\ UNCHANGED <<r_initialized, r_mainstate, r_rx_pipe_info, r_call>>
      /\ r_radio'.crcstatus => r_rx_payload_buffer' = s_tx_payload_buffer'
  <2>1. r_radio'.crcstatus = crcok
    BY <1>1, NodeTypes DEF LinkInv, RP!RxEnd, RP!Radios
  <2>. QED
    BY <1>1, <1>4, <2>1 DEF RP!RxEnd
<1>6. QueueInv' /\ (HeadRemembered' <=> HeadRemembered)
  BY <1>4, <1>5, QueueKept
<1>7. AirInv'
  BY <1>3, <1>4, <1>5 DEF AirInv, LinkInv, OneWay, SenderWaits, HeardIsSent, AckIsForHead,
     AckOnAir, AckHeard
<1>8. RestInv'
  BY <1>2, <1>4, <1>5 DEF LinkInv, RestInv, Fresh, CallsWithinBounds, HistoriesOK
<1>. QED
  BY <1>6, <1>7, <1>8 DEF QueueInv, AirInv, RestInv, LinkInv

-----------------------------------------------------------------------------
(* LinkInv is inductive                                                    *)

\* It holds at the start.
LEMMA LinkInvInit == Init => LinkInv
<1>. SUFFICES ASSUME Init PROVE LinkInv
  OBVIOUS
<1>1. SP!Init /\ RP!Init
  BY SenderIs, ReceiverIs DEF Init
<1>2. NodesInv
  BY NodesInit
<1>3. s_tx_fifo.count = 0 /\ Queued = << >>
  BY <1>1 DEF SP!Init, SP!ZeroRing, Queued, SP!TxQueue, SP!Queue
<1>4. QueueInv
  BY <1>1, <1>3 DEF SP!Init, RP!Init, SP!ZeroPids, RP!ZeroPipeInfo, QueueInv,
     QueuedIsWritten, PidsInOrder, RemembersLast
<1>5. AirInv
  BY <1>1 DEF SP!Init, RP!Init, SP!ZeroPacket, AirInv, OneWay, SenderWaits, HeardIsSent,
     AckIsForHead, AckOnAir, AckHeard, RP!DisabledIrq
<1>6. RestInv
  <2>1. written = << >> /\ delivered = << >> /\ answers = << >> /\ answered = << >>
    BY DEF Init
  <2>. QED
    BY <1>1, <1>3, <2>1, BoundAssumption DEF SP!Init, RP!Init, SP!ZeroPids, RestInv, Fresh,
       CallsWithinBounds, HistoriesOK
<1>. QED
  BY <1>2, <1>4, <1>5, <1>6, LinkInvParts

\* Every step of the link keeps it.
LEMMA LinkInvStep ==
  ASSUME LinkInv, [Next]_vars
  PROVE  LinkInv'
<1>1. CASE UNCHANGED vars
  <2>1. /\ UNCHANGED <<sender, receiver, written, delivered, answers, answered>>
        /\ UNCHANGED <<s_initialized, s_mainstate, s_tx_fifo, s_pids, s_call>>
        /\ UNCHANGED <<r_initialized, r_mainstate, r_rx_pipe_info, r_rx_payload_buffer,
                       r_radio, r_call>>
    BY <1>1 DEF vars, sender, receiver, history
  <2>2. NodesInv'
    <3>1. [SP!Next]_(SP!vars) /\ [RP!Next]_(RP!vars)
      BY <2>1, SenderUnchanged, ReceiverUnchanged
    <3>. QED
      BY <3>1, SenderConstants, SP!InFlightInvStep, ReceiverConstants, RP!InFlightInvStep
         DEF LinkInv, NodesInv
  <2>3. QueueInv' /\ AirInv'
    BY <2>1, ReceiverKept
  <2>4. RestInv'
    BY <2>1 DEF LinkInv, RestInv, Fresh, CallsWithinBounds, HistoriesOK
  <2>. QED
    BY <2>2, <2>3, <2>4 DEF QueueInv, AirInv, RestInv, LinkInv
<1>2. CASE Next
  <2>1. NodesInv'
    BY <1>2, NodesStep DEF LinkInv
  <2>. QED
    BY <1>2, <2>1, SenderCallsKeep, ReceiverCallsKeep, SenderIrqKeeps, ReceiverIrqKeeps,
       SenderHardwareKeeps, AckLostKeeps, AckArrivesKeeps, PacketArrivesKeeps DEF Next
<1>. QED
  BY <1>1, <1>2

\* It holds always.
LEMMA LinkInvCorrect == Spec => []LinkInv
  BY LinkInvInit, LinkInvStep, PTL DEF Spec

-----------------------------------------------------------------------------
(* The refinement of EsbChannel                                            *)

\* What EsbLink's waiting is made of.
ContentsOf(q) == [k \in DOMAIN q |-> q[k].data]

\* The contents of a queue, of one with a payload more, and of one without its head.
LEMMA ContentsType ==
  ASSUME NEW P, NEW D, NEW q \in Seq(P), \A k \in DOMAIN q : q[k].data \in D
  PROVE  ContentsOf(q) \in Seq(D) /\ Len(ContentsOf(q)) = Len(q)
<1>1. DOMAIN q = 1 .. Len(q) /\ Len(q) \in Nat
  OBVIOUS
<1>. QED
  BY <1>1 DEF ContentsOf

LEMMA ContentsAppend ==
  ASSUME NEW P, NEW D, NEW q \in Seq(P), \A k \in DOMAIN q : q[k].data \in D,
         NEW p \in P, p.data \in D
  PROVE  ContentsOf(Append(q, p)) = Append(ContentsOf(q), p.data)
<1>. DEFINE a == Append(q, p)  c == ContentsOf(q)
<1>1. /\ a \in Seq(P) /\ Len(a) = Len(q) + 1 /\ a[Len(q) + 1] = p
      /\ \A k \in 1 .. Len(q) : a[k] = q[k]
  OBVIOUS
<1>2. c \in Seq(D) /\ Len(c) = Len(q) /\ \A k \in 1 .. Len(q) : c[k] = q[k].data
  BY ContentsType DEF ContentsOf
<1>3. \A k \in DOMAIN a : a[k].data \in D
  BY <1>1
<1>. HIDE DEF a, c
<1>4. ContentsOf(a) \in Seq(D) /\ Len(ContentsOf(a)) = Len(q) + 1
  BY <1>1, <1>3, ContentsType
<1>5. \A k \in 1 .. Len(q) + 1 : ContentsOf(a)[k] = Append(c, p.data)[k]
  <2>1. ASSUME NEW k \in 1 .. Len(q) + 1
        PROVE  ContentsOf(a)[k] = Append(c, p.data)[k]
    <3>1. ContentsOf(a)[k] = a[k].data
      BY <1>1 DEF ContentsOf
    <3>2. Append(c, p.data)[k] = IF k = Len(q) + 1 THEN p.data ELSE c[k]
      BY <1>2
    <3>. QED
      BY <1>1, <1>2, <3>1, <3>2
  <2>. QED
    BY <2>1
<1>6. Append(c, p.data) \in Seq(D) /\ Len(Append(c, p.data)) = Len(q) + 1
  BY <1>2
<1>7. ContentsOf(a) = Append(c, p.data)
  BY <1>4, <1>5, <1>6
<1>. QED
  BY <1>7 DEF a, c

LEMMA ContentsTail ==
  ASSUME NEW P, NEW D, NEW q \in Seq(P), \A k \in DOMAIN q : q[k].data \in D, q # << >>
  PROVE  /\ ContentsOf(q) # << >> /\ Head(ContentsOf(q)) = q[1].data
         /\ ContentsOf(Tail(q)) = Tail(ContentsOf(q))
<1>. DEFINE t == Tail(q)  c == ContentsOf(q)
<1>1. /\ t \in Seq(P) /\ Len(t) = Len(q) - 1 /\ Len(q) \in Nat \ {0}
      /\ \A k \in 1 .. Len(q) - 1 : t[k] = q[k + 1]
  OBVIOUS
<1>2. c \in Seq(D) /\ Len(c) = Len(q) /\ \A k \in 1 .. Len(q) : c[k] = q[k].data
  BY ContentsType DEF ContentsOf
<1>3. \A k \in DOMAIN t : t[k].data \in D
  BY <1>1
<1>. HIDE DEF t, c
<1>4. ContentsOf(t) \in Seq(D) /\ Len(ContentsOf(t)) = Len(q) - 1
  BY <1>1, <1>3, ContentsType
<1>5. c # << >> /\ Head(c) = q[1].data
  BY <1>1, <1>2
<1>6. \A k \in 1 .. Len(q) - 1 : ContentsOf(t)[k] = Tail(c)[k]
  <2>1. ASSUME NEW k \in 1 .. Len(q) - 1
        PROVE  ContentsOf(t)[k] = Tail(c)[k]
    <3>1. ContentsOf(t)[k] = t[k].data
      BY <1>1 DEF ContentsOf
    <3>2. Tail(c)[k] = c[k + 1]
      BY <1>1, <1>2, <1>5
    <3>. QED
      BY <1>1, <1>2, <3>1, <3>2
  <2>. QED
    BY <2>1
<1>7. Tail(c) \in Seq(D) /\ Len(Tail(c)) = Len(q) - 1
  BY <1>1, <1>2, <1>5
<1>8. ContentsOf(t) = Tail(c)
  BY <1>4, <1>6, <1>7
<1>. QED
  BY <1>5, <1>8 DEF t, c

\* The abstract channel's queue.
LEMMA WaitingIs ==
  /\ Datas(s_tx_fifo, TX_FIFO_SIZE) = ContentsOf(Queued)
  /\ Datas(s_tx_fifo, TX_FIFO_SIZE)' = ContentsOf(Queued)'
  BY DEF Datas, ContentsOf, Queued, SP!TxQueue, SP!Queue, S!Queue, SP!SlotOf, S!SlotOf,
     SP!Wrap, S!Wrap

\* A step of the abstract channel, or none.
ChannelStep == [Channel!Next]_(Channel!channel)

\* No step: the queue, the histories and what the receiver has stay.
LEMMA ChannelStutter ==
  ASSUME LinkInv, LinkInv', Queued' = Queued, UNCHANGED delivered,
         HeadRemembered' <=> HeadRemembered
  PROVE  ChannelStep
<1>1. HeadReceived' <=> HeadReceived
  BY HeadReceivedIs, HeadReceivedIsNext DEF LinkInv
<1>2. HeadReceived' = HeadReceived
  BY <1>1 DEF HeadReceived
<1>3. Datas(s_tx_fifo, TX_FIFO_SIZE)' = Datas(s_tx_fifo, TX_FIFO_SIZE)
  BY WaitingIs
<1>. QED
  BY <1>2, <1>3 DEF ChannelStep, Channel!channel

\* A call accepts a payload, or changes nothing the channel has.
LEMMA ChannelSenderCalls ==
  ASSUME LinkInv, LinkInv', SenderCalls
  PROVE  ChannelStep
<1>. USE DEF SP!setupVars, SP!stateVars, SP!fifoVars, SP!txVars, SP!evtVars, SP!hwVars
<1>0. UNCHANGED <<r_rx_pipe_info, delivered>>
  BY DEF SenderCalls, receiver
<1>1. CASE SP!WritePayloadStore
  <2>1. PICK p \in SP!Payloads : p.data \in DATA /\ Queued' = Append(Queued, p)
    BY <1>0, <1>1, StoreDoes
  <2>2. /\ Queued \in Seq(SP!Payloads) /\ Len(Queued) < TX_FIFO_SIZE
        /\ \A k \in DOMAIN Queued : Queued[k].data \in DATA
    BY <1>0, <1>1, StoreDoes, NodeTypes DEF LinkInv, QueuedIsWritten
  <2>3. ContentsOf(Queued)' = Append(ContentsOf(Queued), p.data)
    <3>1. ContentsOf(Append(Queued, p)) = Append(ContentsOf(Queued), p.data)
      BY <2>1, <2>2, ContentsAppend
    <3>. QED
      BY <2>1, <3>1 DEF ContentsOf
  <2>4. Len(ContentsOf(Queued)) < TX_FIFO_SIZE
    BY <2>2, ContentsType
  <2>5. HeadReceived' <=> HeadReceived
    BY <1>0, <1>1, StoreDoes, HeadReceivedIs, HeadReceivedIsNext DEF LinkInv
  <2>6. HeadReceived' = HeadReceived
    BY <2>5 DEF HeadReceived
  <2>7. Channel!Accept
    BY <1>0, <2>1, <2>3, <2>4, <2>6, WaitingIs DEF Channel!Accept
  <2>. QED
    BY <2>7 DEF ChannelStep, Channel!Next
<1>2. CASE SP!EsbInit
  <2>1. ~s_initialized /\ s_tx_fifo' = SP!Flushed(s_tx_fifo)
    BY <1>2 DEF SP!EsbInit, SP!Disabled
  <2>2. s_tx_fifo.count = 0 /\ s_tx_fifo'.count = 0
    BY <2>1, NodeTypes DEF LinkInv, Fresh, SP!Flushed, SP!Ring
  <2>3. Queued = << >> /\ Queued' = << >>
    BY <2>2 DEF Queued, SP!TxQueue, SP!Queue
  <2>. QED
    BY <1>0, <2>3, ChannelStutter DEF HeadRemembered
<1>3. CASE \/ SP!WritePayload \/ SP!WritePayloadKick \/ SP!StartTx \/ SP!ReadRxPayload
           \/ SP!ReadRxPayloadTake
  <2>1. UNCHANGED <<s_tx_fifo, s_pids>>
    BY <1>3 DEF SP!WritePayload, SP!WritePayloadKick, SP!StartTx, SP!ReadRxPayload,
       SP!ReadRxPayloadTake
  <2>. QED
    BY <1>0, <2>1, QueueKept, ChannelStutter
<1>. QED
  BY <1>1, <1>2, <1>3, SenderIs DEF SenderCalls

\* An acknowledgment settles the payload that the receiver has.
LEMMA ChannelSenderIrq ==
  ASSUME LinkInv, LinkInv', SenderIrq
  PROVE  ChannelStep
<1>0. UNCHANGED <<r_rx_pipe_info, delivered, s_pids>> /\ NodesInv'
  BY SenderIrqDoes DEF SenderIrq, receiver, LinkInv
<1>1. CASE UNCHANGED s_tx_fifo
  BY <1>0, <1>1, QueueKept, ChannelStutter
<1>2. CASE HeadRemembered /\ Queued' = Tail(Queued) /\ ~HeadRemembered'
  <2>1. HeadReceived /\ ~HeadReceived'
    BY <1>0, <1>2, HeadReceivedIs, HeadReceivedIsNext DEF LinkInv
  <2>2. HeadReceived' = FALSE
    BY <2>1
  <2>3. ContentsOf(Queued)' = Tail(ContentsOf(Queued))
    <3>1. /\ Queued \in Seq(SP!Payloads) /\ Queued # << >>
          /\ \A k \in DOMAIN Queued : Queued[k].data \in DATA
      BY <1>2, NodeTypes DEF LinkInv, QueuedIsWritten, HeadRemembered
    <3>2. ContentsOf(Tail(Queued)) = Tail(ContentsOf(Queued))
      BY <3>1, ContentsTail
    <3>. QED
      BY <1>2, <3>2 DEF ContentsOf
  <2>4. Channel!Settle
    BY <1>0, <2>1, <2>2, <2>3, WaitingIs DEF Channel!Settle
  <2>. QED
    BY <2>4 DEF ChannelStep, Channel!Next
<1>. QED
  BY <1>0, <1>1, <1>2, SenderIrqDoes

\* The receiver delivers the payload at the head of the sender's queue.
LEMMA ChannelReceiverIrq ==
  ASSUME LinkInv, LinkInv', ReceiverIrq
  PROVE  ChannelStep
<1>0. UNCHANGED <<s_tx_fifo, s_pids>> /\ NodesInv' /\ Queued' = Queued
  BY DEF ReceiverIrq, sender, LinkInv, Queued, SP!TxQueue
<1>1. CASE UNCHANGED <<r_rx_pipe_info, delivered>>
  BY <1>0, <1>1, QueueKept, ChannelStutter
<1>2. CASE /\ r_mainstate = "PRX" /\ RP!DisabledIrq /\ r_radio.crcstatus
           /\ r_rx_pipe_info'[0].pid = Queued[1].pid
           /\ r_rx_pipe_info'[0].crc = <<Queued[1].data, Queued[1].pid>>
           /\ IF HeadRemembered THEN UNCHANGED delivered
              ELSE delivered' = Append(delivered, Queued[1].data)
  <2>1. Queued # << >> /\ HeadRemembered'
    BY <1>0, <1>2, HeardIsHead DEF HeadRemembered, Remembered
  <2>2. CASE HeadRemembered
    BY <1>0, <1>2, <2>1, <2>2, ChannelStutter
  <2>3. CASE ~HeadRemembered
    <3>1. ~HeadReceived /\ HeadReceived'
      BY <1>0, <2>1, <2>3, HeadReceivedIs, HeadReceivedIsNext DEF LinkInv
    <3>2. HeadReceived' = TRUE
      BY <3>1 DEF HeadReceived
    <3>3. /\ Queued \in Seq(SP!Payloads)
          /\ \A k \in DOMAIN Queued : Queued[k].data \in DATA
      BY NodeTypes DEF LinkInv, QueuedIsWritten
    <3>4. ContentsOf(Queued) # << >> /\ Head(ContentsOf(Queued)) = Queued[1].data
      BY <2>1, <3>3, ContentsTail
    <3>5. ContentsOf(Queued)' = ContentsOf(Queued)
      BY <1>0 DEF ContentsOf
    <3>6. Channel!Deliver
      BY <1>2, <2>3, <3>1, <3>2, <3>4, <3>5, WaitingIs DEF Channel!Deliver
    <3>. QED
      BY <3>6 DEF ChannelStep, Channel!Next
  <2>. QED
    BY <2>2, <2>3
<1>. QED
  BY <1>0, <1>1, <1>2, ReceiverIrqDoes

\* The air and the receiver's calls change nothing the channel has.
LEMMA ChannelOtherwise ==
  ASSUME LinkInv, LinkInv',
         \/ ReceiverCalls \/ PacketArrives \/ PacketLost \/ AckArrives \/ AckLost
         \/ AckWindowCloses \/ RetransmitDelay \/ UNCHANGED vars
  PROVE  ChannelStep
<1>. USE DEF SP!setupVars, SP!stateVars, SP!fifoVars, SP!txVars, SP!evtVars, SP!hwVars,
         RP!setupVars, RP!stateVars, RP!fifoVars, RP!txVars, RP!evtVars, RP!hwVars
<1>1. UNCHANGED <<s_tx_fifo, s_pids>>
  <2>1. CASE ReceiverCalls \/ AckLost \/ UNCHANGED vars
    BY <2>1 DEF ReceiverCalls, AckLost, vars, sender
  <2>2. CASE PacketArrives \/ PacketLost \/ AckWindowCloses \/ RetransmitDelay
    <3>1. SP!TxEnd \/ SP!RxTimeout \/ SP!TimerCompare1
      BY <2>2, SenderIs DEF PacketArrives, PacketLost, AckWindowCloses, RetransmitDelay
    <3>. QED
      BY <3>1 DEF SP!TxEnd, SP!RxTimeout, SP!TimerCompare1
  <2>3. CASE AckArrives
    <3>1. PICK crcok \in BOOLEAN : SP!RxEnd(r_tx_payload_buffer, r_radio.txaddress, crcok)
      BY <2>3, SenderHears DEF AckArrives
    <3>. QED
      BY <3>1 DEF SP!RxEnd
  <2>. QED
    BY <2>1, <2>2, <2>3
<1>2. UNCHANGED <<r_rx_pipe_info, delivered>>
  <2>1. CASE PacketLost \/ AckWindowCloses \/ RetransmitDelay \/ UNCHANGED vars
    BY <2>1 DEF PacketLost, AckWindowCloses, RetransmitDelay, vars, history, receiver
  <2>2. CASE AckArrives \/ AckLost
    BY <2>2, ReceiverIs DEF AckArrives, AckLost, history, RP!TxEnd
  <2>3. CASE PacketArrives
    <3>1. PICK crcok \in BOOLEAN : RP!RxEnd(s_tx_payload_buffer, s_radio.txaddress, crcok)
      BY <2>3, ReceiverHears DEF PacketArrives
    <3>. QED
      BY <2>3, <3>1 DEF PacketArrives, history, RP!RxEnd
  <2>4. CASE ReceiverCalls
    <3>1. CASE RP!EsbInit
      <4>1. ~r_initialized /\ r_rx_pipe_info' = RP!ZeroPipeInfo
        BY <3>1 DEF RP!EsbInit, RP!Disabled
      <4>. QED
        BY <2>4, <4>1 DEF ReceiverCalls, LinkInv, Fresh
    <3>2. CASE ~RP!EsbInit
      BY <2>4, <3>2, ReceiverIs DEF ReceiverCalls, RP!StartRx, RP!StopRx, RP!StopRxNow,
         RP!WritePayload, RP!WritePayloadStore, RP!WritePayloadKick, RP!ReadRxPayload,
         RP!ReadRxPayloadTake
    <3>. QED
      BY <3>1, <3>2
  <2>. QED
    BY <2>1, <2>2, <2>3, <2>4
<1>. QED
  BY <1>1, <1>2, QueueKept, ChannelStutter

\* Two nodes with the driver implement EsbChannel: whatever packets and
\* acknowledgments are lost, damaged or repeated, and whenever the receiver stops,
\* starts or is full, every payload written is delivered once and in order, for
\* FIFOs, packet ids, contents and retransmission counts of every size.
THEOREM ChannelImplemented == Spec => ImplementsChannel
<1>1. Init => Channel!Init
  <2>. SUFFICES ASSUME Init PROVE Channel!Init
    OBVIOUS
  <2>1. s_tx_fifo.count = 0 /\ delivered = << >>
    BY SenderIs DEF Init, SP!Init, SP!ZeroRing
  <2>2. Queued = << >>
    BY <2>1 DEF Queued, SP!TxQueue, SP!Queue
  <2>3. Datas(s_tx_fifo, TX_FIFO_SIZE) = << >>
    BY <2>2, WaitingIs DEF ContentsOf
  <2>4. HeadReceived = FALSE
    BY <2>1 DEF HeadReceived
  <2>. QED
    BY <2>1, <2>3, <2>4 DEF Channel!Init
<1>2. LinkInv /\ LinkInv' /\ [Next]_vars => ChannelStep
  <2>. SUFFICES ASSUME LinkInv, LinkInv', [Next]_vars PROVE ChannelStep
    OBVIOUS
  <2>. QED
    BY ChannelSenderCalls, ChannelSenderIrq, ChannelReceiverIrq, ChannelOtherwise DEF Next
<1>. QED
  BY <1>1, <1>2, LinkInvCorrect, PTL DEF Spec, ImplementsChannel, Channel!Spec, ChannelStep

-----------------------------------------------------------------------------
(* What comes back with acknowledgments                                    *)

\* The payloads the receiver has queued, and how many have left its FIFO.
AnswerQueue == RP!TxQueue
Gone        == Len(answers) - r_tx_fifo.count

\* Of the first n payloads in ans, those that are not at risk are in came, in order.
ArrivedIn(n, risk, ans, came) ==
  \E f \in [(1 .. n) \ risk -> DOMAIN came] :
    /\ \A k \in (1 .. n) \ risk : came[f[k]] = ans[k]
    /\ \A k, l \in (1 .. n) \ risk : k < l => f[k] < f[l]

Arrived(n) == ArrivedIn(n, atRisk, answers, answered)

\* The last acknowledgment carried the payload at the head, or one before it.
Offered == r_rx_pipe_info[0].ack_payload /\ r_tx_fifo.count > 0

\* The receiver's FIFO has the payloads written last.
AnswersQueued ==
  /\ r_tx_fifo.count <= Len(answers) /\ atRisk \subseteq 1 .. Len(answers)
  /\ \A k \in 1 .. r_tx_fifo.count : AnswerQueue[k].data = answers[Gone + k]
  /\ ~r_initialized => r_tx_fifo.count = 0 /\ r_call.at = "idle"

\* Once the sender has moved on from the packet that was acknowledged, what the
\* acknowledgment carried has come in.
OfferArrived == Offered /\ ~HeadRemembered => Arrived(Gone + 1)

\* Until then the acknowledgment carries it.
OfferCarried ==
  Offered /\ Gone + 1 \notin atRisk =>
    /\ AckOnAir => r_tx_payload_buffer.data = answers[Gone + 1]
    /\ AckHeard => s_rx_payload_buffer.data = answers[Gone + 1]

\* The inductive invariant, with LinkInv.
AnswerInv == AnswersQueued /\ Arrived(Gone) /\ OfferArrived /\ OfferCarried

\* What has come in stays.
LEMMA ArrivedAppend ==
  ASSUME NEW D, NEW came \in Seq(D), NEW d \in D, NEW n, NEW risk, NEW ans,
         ArrivedIn(n, risk, ans, came)
  PROVE  ArrivedIn(n, risk, ans, Append(came, d))
<1>. DEFINE gone == (1 .. n) \ risk  more == Append(came, d)
<1>1. PICK f \in [gone -> DOMAIN came] :
        /\ \A k \in gone : came[f[k]] = ans[k]
        /\ \A k, l \in gone : k < l => f[k] < f[l]
  BY DEF ArrivedIn
<1>2. /\ DOMAIN came \subseteq DOMAIN more
      /\ \A i \in DOMAIN came : more[i] = came[i]
  OBVIOUS
<1>. HIDE DEF gone, more
<1>3. f \in [gone -> DOMAIN more] /\ \A k \in gone : more[f[k]] = ans[k]
  BY <1>1, <1>2
<1>. QED
  BY <1>1, <1>3 DEF ArrivedIn, gone, more

\* The next payload comes in, or is at risk.
LEMMA ArrivedNext ==
  ASSUME NEW D, NEW came \in Seq(D), NEW d \in D, NEW n \in Nat, NEW risk, NEW ans,
         ArrivedIn(n, risk, ans, came), n + 1 \notin risk => d = ans[n + 1]
  PROVE  ArrivedIn(n + 1, risk, ans, Append(came, d))
<1>. DEFINE gone == (1 .. n) \ risk  next == (1 .. n + 1) \ risk  more == Append(came, d)
<1>1. CASE n + 1 \in risk
  <2>1. next = gone
    BY <1>1
  <2>2. ArrivedIn(n, risk, ans, more)
    BY ArrivedAppend
  <2>. HIDE DEF more
  <2>. QED
    BY <2>1, <2>2 DEF ArrivedIn, more
<1>2. CASE n + 1 \notin risk
  <2>1. PICK f \in [gone -> DOMAIN came] :
          /\ \A k \in gone : came[f[k]] = ans[k]
          /\ \A k, l \in gone : k < l => f[k] < f[l]
    BY DEF ArrivedIn
  <2>. DEFINE g == [k \in next |-> IF k = n + 1 THEN Len(came) + 1 ELSE f[k]]
  <2>2. next = gone \cup {n + 1} /\ n + 1 \notin gone /\ \A k \in gone : k \in Int /\ k < n + 1
    BY <1>2
  <2>3. /\ DOMAIN came = 1 .. Len(came) /\ Len(came) \in Nat
        /\ DOMAIN more = 1 .. Len(came) + 1 /\ more[Len(came) + 1] = d
        /\ \A i \in 1 .. Len(came) : more[i] = came[i]
    OBVIOUS
  <2>. HIDE DEF gone, next, more
  <2>4. g \in [next -> DOMAIN more]
    BY <2>1, <2>2, <2>3
  <2>5. \A k \in next : more[g[k]] = ans[k]
    BY <1>2, <2>1, <2>2, <2>3
  <2>6. \A k, l \in next : k < l => g[k] < g[l]
    <3>1. ASSUME NEW k \in next, NEW l \in next, k < l
          PROVE  g[k] < g[l]
      <4>1. k \in gone /\ g[k] = f[k] /\ f[k] \in 1 .. Len(came)
        BY <2>1, <2>2, <2>3, <3>1
      <4>2. CASE l = n + 1
        BY <2>3, <4>1, <4>2
      <4>3. CASE l # n + 1
        BY <2>1, <2>2, <3>1, <4>1, <4>3
      <4>. QED
        BY <4>2, <4>3
    <3>. QED
      BY <3>1
  <2>. HIDE DEF g
  <2>7. ArrivedIn(n + 1, risk, ans, more)
    BY <2>4, <2>5, <2>6 DEF ArrivedIn, next
  <2>. QED
    BY <2>7 DEF more
<1>. QED
  BY <1>1, <1>2

\* One payload more is written, behind these, at risk or not.
LEMMA ArrivedWritten ==
  ASSUME NEW D, NEW ans \in Seq(D), NEW d \in D, NEW n \in 0 .. Len(ans), NEW came,
         NEW risk, NEW more, more = risk \/ more = risk \cup {Len(ans) + 1},
         ArrivedIn(n, risk, ans, came)
  PROVE  ArrivedIn(n, more, Append(ans, d), came)
<1>1. (1 .. n) \ more = (1 .. n) \ risk
  OBVIOUS
<1>2. \A k \in 1 .. n : Append(ans, d)[k] = ans[k]
  OBVIOUS
<1>. QED
  BY <1>1, <1>2 DEF ArrivedIn

\* A payload at risk need not come in.
LEMMA ArrivedRisk ==
  ASSUME NEW n \in Nat, NEW risk, NEW ans, NEW came, n + 1 \in risk,
         ArrivedIn(n, risk, ans, came)
  PROVE  ArrivedIn(n + 1, risk, ans, came)
<1>1. (1 .. n + 1) \ risk = (1 .. n) \ risk
  OBVIOUS
<1>. QED
  BY <1>1 DEF ArrivedIn

\* What the invariants say of the payloads the receiver has queued.
LEMMA AnswerFacts ==
  ASSUME LinkInv, AnswersQueued
  PROVE  /\ r_tx_fifo \in RP!Ring(TX_FIFO_SIZE, RP!Payloads)
         /\ RP!Consistent(r_tx_fifo, TX_FIFO_SIZE)
         /\ AnswerQueue \in Seq(RP!Payloads) /\ Len(AnswerQueue) = r_tx_fifo.count
         /\ answers \in Seq(DATA) /\ answered \in Seq(DATA)
         /\ r_tx_fifo.count \in Nat /\ Gone \in 0 .. Len(answers)
         /\ r_tx_fifo.count > 0 =>
              /\ Gone + 1 \in 1 .. Len(answers) /\ answers[Gone + 1] \in DATA
              /\ r_tx_fifo.p_payload[r_tx_fifo.exit_point].data = answers[Gone + 1]
<1>1. /\ r_tx_fifo \in RP!Ring(TX_FIFO_SIZE, RP!Payloads)
      /\ RP!Consistent(r_tx_fifo, TX_FIFO_SIZE)
      /\ AnswerQueue \in Seq(RP!Payloads) /\ Len(AnswerQueue) = r_tx_fifo.count
  BY ReceiverConstants, RP!QueueFacts DEF LinkInv, NodesInv, AnswerQueue
<1>2. answers \in Seq(DATA) /\ answered \in Seq(DATA)
  BY DEF LinkInv, HistoriesOK
<1>3. r_tx_fifo.count \in Nat /\ Gone \in 0 .. Len(answers)
  BY <1>1, <1>2 DEF AnswersQueued, Gone
<1>4. ASSUME r_tx_fifo.count > 0
      PROVE  /\ Gone + 1 \in 1 .. Len(answers) /\ answers[Gone + 1] \in DATA
             /\ r_tx_fifo.p_payload[r_tx_fifo.exit_point].data = answers[Gone + 1]
  <2>1. Gone + 1 \in 1 .. Len(answers)
    BY <1>2, <1>3, <1>4 DEF Gone
  <2>2. AnswerQueue[1].data = answers[Gone + 1]
    BY <1>3, <1>4 DEF AnswersQueued
  <2>3. /\ 1 \in 1 .. r_tx_fifo.count
        /\ RP!SlotOf(r_tx_fifo, TX_FIFO_SIZE, 1) = r_tx_fifo.exit_point
    BY <1>1, <1>3, <1>4, SizeAssumption DEF RP!Ring, RP!SlotOf, RP!Wrap
  <2>4. AnswerQueue[1] = r_tx_fifo.p_payload[r_tx_fifo.exit_point]
    BY <2>3 DEF AnswerQueue, RP!TxQueue, RP!Queue
  <2>. QED
    BY <1>2, <2>1, <2>2, <2>4
<1>. QED
  BY <1>1, <1>2, <1>3, <1>4

\* Nothing is written and nothing comes in.
LEMMA AnswersKept ==
  ASSUME AnswerInv, UNCHANGED <<answers, answered, atRisk>>,
         UNCHANGED <<r_tx_fifo, r_rx_pipe_info>>, HeadRemembered' <=> HeadRemembered,
         r_initialized => r_initialized', ~r_initialized' => r_call'.at = "idle",
         AckOnAir' => AckOnAir /\ UNCHANGED r_tx_payload_buffer,
         AckHeard' => AckHeard /\ UNCHANGED s_rx_payload_buffer
  PROVE  AnswerInv'
<1>1. Gone' = Gone /\ AnswerQueue' = AnswerQueue /\ (Offered' <=> Offered)
  BY DEF Gone, AnswerQueue, RP!TxQueue, Offered
<1>2. (Arrived(Gone)' <=> Arrived(Gone)) /\ (Arrived(Gone + 1)' <=> Arrived(Gone + 1))
  BY <1>1 DEF Arrived
<1>3. AnswersQueued'
  BY <1>1 DEF AnswerInv, AnswersQueued
<1>4. OfferArrived' /\ OfferCarried'
  BY <1>1, <1>2 DEF AnswerInv, OfferArrived, OfferCarried
<1>. QED
  BY <1>2, <1>3, <1>4 DEF AnswerInv

\* The sender's application has nothing to do with it.
LEMMA SenderCallsKeepAnswers ==
  ASSUME LinkInv, AnswerInv, SenderCalls
  PROVE  AnswerInv'
<1>. USE DEF SP!setupVars, SP!stateVars, SP!fifoVars, SP!txVars, SP!evtVars, SP!hwVars
<1>0. /\ UNCHANGED <<answers, answered, atRisk>>
      /\ UNCHANGED <<r_tx_fifo, r_rx_pipe_info, r_initialized, r_call, r_mainstate, r_radio,
                     r_tx_payload_buffer>>
      /\ AckOnAir' => AckOnAir
      /\ ~r_initialized => r_call.at = "idle"
  BY DEF SenderCalls, receiver, AckOnAir, AnswerInv, AnswersQueued
<1>1. CASE SP!EsbInit
  <2>1. /\ ~s_initialized /\ s_mainstate' = "IDLE"
        /\ s_tx_fifo' = SP!Flushed(s_tx_fifo)
    BY <1>1 DEF SP!EsbInit, SP!Disabled
  <2>2. s_tx_fifo.count = 0 /\ s_tx_fifo'.count = 0
    BY <2>1, NodeTypes DEF LinkInv, Fresh, SP!Flushed, SP!Ring
  <2>3. Queued = << >> /\ Queued' = << >>
    BY <2>2 DEF Queued, SP!TxQueue, SP!Queue
  <2>4. ~AckHeard' /\ (HeadRemembered' <=> HeadRemembered)
    BY <2>1, <2>3 DEF AckHeard, HeadRemembered
  <2>. QED
    BY <1>0, <2>4, AnswersKept
<1>2. CASE SP!WritePayloadStore
  <2>1. UNCHANGED <<s_mainstate, s_radio>> /\ (HeadRemembered' <=> HeadRemembered)
    BY <1>0, <1>2, StoreDoes
  <2>2. UNCHANGED s_rx_payload_buffer /\ (AckHeard' => AckHeard)
    BY <1>2, <2>1 DEF SP!WritePayloadStore, AckHeard, SP!DisabledIrq, SP!PacketReceived
  <2>. QED
    BY <1>0, <2>1, <2>2, AnswersKept
<1>3. CASE \/ SP!WritePayload \/ SP!WritePayloadKick \/ SP!StartTx \/ SP!ReadRxPayload
           \/ SP!ReadRxPayloadTake
  <2>1. UNCHANGED <<s_tx_fifo, s_pids, s_rx_payload_buffer>>
    BY <1>3 DEF SP!WritePayload, SP!WritePayloadKick, SP!StartTx, SP!ReadRxPayload,
       SP!ReadRxPayloadTake
  <2>2. \/ UNCHANGED <<s_mainstate, s_radio>>
        \/ s_mainstate' # "PTX_RX_ACK"
    BY <1>3 DEF SP!WritePayload, SP!WritePayloadKick, SP!StartTx, SP!ReadRxPayload,
       SP!ReadRxPayloadTake, SP!StartTxTransaction
  <2>3. AckHeard' => AckHeard
    BY <2>2 DEF AckHeard, SP!DisabledIrq, SP!PacketReceived
  <2>. QED
    BY <1>0, <2>1, <2>3, QueueKept, AnswersKept
<1>. QED
  BY <1>1, <1>2, <1>3, SenderIs DEF SenderCalls

\* An acknowledgment that is taken brings in what the receiver offered with it.
LEMMA SenderIrqKeepsAnswers ==
  ASSUME LinkInv, NodesInv', AnswerInv, SenderIrq
  PROVE  AnswerInv'
<1>0. /\ UNCHANGED <<answers, atRisk>>
      /\ UNCHANGED <<r_tx_fifo, r_rx_pipe_info, r_initialized, r_call, r_mainstate, r_radio,
                     r_tx_payload_buffer>>
      /\ AckOnAir' => AckOnAir
      /\ ~r_initialized => r_call.at = "idle"
  BY DEF SenderIrq, receiver, AckOnAir, AnswerInv, AnswersQueued
<1>1. ~AckHeard'
  BY SenderIrqDoes DEF AckHeard
<1>2. CASE ~SP!OnRadioDisabledTxAcked
  <2>1. UNCHANGED <<s_tx_fifo, s_pids, answered>>
    BY <1>2, SenderIrqDoes, SenderIs DEF SenderIrq
  <2>. QED
    BY <1>0, <1>1, <2>1, QueueKept, AnswersKept
<1>3. CASE SP!OnRadioDisabledTxAcked
  <2>. DEFINE d == s_rx_payload_buffer.data
  <2>1. answered' = IF d # NoData THEN Append(answered, d) ELSE answered
    BY <1>3, SenderIs DEF SenderIrq
  <2>2. d \in DATA \cup {NoData}
    BY NodeTypes DEF LinkInv
  <2>3. /\ answered \in Seq(DATA) /\ Gone \in Nat
        /\ Offered => answers[Gone + 1] \in DATA /\ Gone + 1 \in Nat
    BY AnswerFacts DEF AnswerInv, Offered
  <2>4. Offered /\ Gone + 1 \notin atRisk => d = answers[Gone + 1]
    <3>1. AckHeard
      BY <1>3, SenderIrqDoes DEF AckHeard, SP!OnRadioDisabledTxAcked, SP!OnDisabled
    <3>. QED
      BY <3>1 DEF AnswerInv, OfferCarried
  <2>. HIDE DEF d
  <2>5. Gone' = Gone /\ AnswerQueue' = AnswerQueue /\ (Offered' <=> Offered)
    BY <1>0 DEF Gone, AnswerQueue, RP!TxQueue, Offered
  <2>6. Arrived(Gone)'
    <3>1. ArrivedIn(Gone, atRisk, answers, answered)
      BY DEF AnswerInv, Arrived
    <3>2. ArrivedIn(Gone, atRisk, answers, answered')
      BY <2>1, <2>2, <2>3, <3>1, ArrivedAppend
    <3>. QED
      BY <1>0, <2>5, <3>2 DEF Arrived
  <2>7. Offered => Arrived(Gone + 1)'
    <3>. SUFFICES ASSUME Offered PROVE Arrived(Gone + 1)'
      OBVIOUS
    <3>1. ArrivedIn(Gone, atRisk, answers, answered)
      BY DEF AnswerInv, Arrived
    <3>2. ArrivedIn(Gone + 1, atRisk, answers, answered')
      <4>1. CASE d # NoData
        BY <2>1, <2>2, <2>3, <2>4, <3>1, <4>1, ArrivedNext
      <4>2. CASE d = NoData
        <5>1. Gone + 1 \in atRisk /\ answered' = answered
          BY <2>1, <2>3, <2>4, <4>2, ContentAssumption
        <5>. QED
          BY <2>3, <3>1, <5>1, ArrivedRisk
      <4>. QED
        BY <4>1, <4>2
    <3>. QED
      BY <1>0, <2>5, <3>2 DEF Arrived
  <2>8. AnswersQueued'
    BY <1>0, <2>5 DEF AnswerInv, AnswersQueued
  <2>9. OfferArrived' /\ OfferCarried'
    BY <1>0, <1>1, <2>5, <2>7 DEF AnswerInv, OfferArrived, OfferCarried
  <2>. QED
    BY <2>6, <2>8, <2>9 DEF AnswerInv
<1>. QED
  BY <1>2, <1>3

\* An answer is written; at risk if the FIFO is empty and one has been offered.
LEMMA AnswerIsWritten ==
  ASSUME LinkInv, AnswerInv, ReceiverCalls, RP!WritePayloadStore
  PROVE  AnswerInv'
<1>. USE DEF RP!setupVars, RP!stateVars, RP!fifoVars, RP!txVars, RP!evtVars, RP!hwVars
<1>. DEFINE p == [r_call.payload EXCEPT !.pid = RP!NextPid(r_call.payload.pipe)]
            d == r_call.payload.data
            n == Len(answers)
            c == r_tx_fifo.count
<1>1. /\ r_call.at = "write" /\ r_call.payload \in ToPipe0 /\ RP!TypeOK
      /\ r_initialized
  BY NodeTypes DEF LinkInv, CallsWithinBounds, RP!WritePayloadStore, AnswerInv,
     AnswersQueued
<1>2. /\ r_tx_fifo' = RP!Pushed(r_tx_fifo, TX_FIFO_SIZE, p)
      /\ UNCHANGED <<r_initialized, r_mainstate, r_radio, r_rx_pipe_info,
                     r_tx_payload_buffer>>
  BY DEF RP!WritePayloadStore
<1>3. UNCHANGED <<answered, s_tx_fifo, s_mainstate, s_radio, s_rx_payload_buffer>>
  BY DEF ReceiverCalls, sender
<1>4. /\ answers' = Append(answers, d)
      /\ atRisk' = IF c = 0 /\ r_rx_pipe_info[0].ack_payload
                   THEN atRisk \cup {Len(answers')} ELSE atRisk
  BY <1>1 DEF ReceiverCalls, Writes
<1>5. /\ d \in DATA /\ p \in RP!Payloads /\ p.data = d
  <2>1. RP!NextPid(r_call.payload.pipe) \in RP!Pids
    BY <1>1, SizeAssumption DEF RP!NextPid, RP!Pids, RP!TypeOK, ToPipe0
  <2>. QED
    BY <1>1, <2>1 DEF RP!Payloads, RP!Contents, ToPipe0
<1>6. /\ r_tx_fifo \in RP!Ring(TX_FIFO_SIZE, RP!Payloads)
      /\ RP!Consistent(r_tx_fifo, TX_FIFO_SIZE)
      /\ AnswerQueue \in Seq(RP!Payloads) /\ Len(AnswerQueue) = c
      /\ answers \in Seq(DATA) /\ n \in Nat /\ c \in 0 .. n /\ Gone = n - c
      /\ atRisk \subseteq 1 .. n
      /\ \A k \in 1 .. c : AnswerQueue[k].data = answers[Gone + k]
      /\ Arrived(Gone)
  BY AnswerFacts DEF AnswerInv, AnswersQueued, Gone
<1>7. c < TX_FIFO_SIZE
  BY <1>1 DEF LinkInv, NodesInv, RP!InFlightInv, RP!RingsInv, RP!RingsConsistent
<1>8. AnswerQueue' = Append(AnswerQueue, p)
  BY <1>2, <1>5, <1>6, <1>7, ReceiverConstants, RP!PushedQueue DEF AnswerQueue, RP!TxQueue
<1>9. r_tx_fifo'.count = c + 1
  BY <1>2, <1>6, <1>7, SizeAssumption DEF RP!Pushed, RP!Ring, RP!Inc32
<1>. HIDE DEF p, d, n, c
<1>10. /\ Len(answers') = n + 1 /\ answers'[n + 1] = d
       /\ \A k \in 1 .. n : answers'[k] = answers[k]
  BY <1>4, <1>5, <1>6 DEF n
<1>11. Gone' = Gone /\ Gone \in 0 .. n
  BY <1>6, <1>9, <1>10 DEF Gone
<1>12. /\ \A k \in 1 .. c : AnswerQueue'[k] = AnswerQueue[k]
       /\ AnswerQueue'[c + 1] = p
  BY <1>5, <1>6, <1>8
<1>13. AnswersQueued'
  <2>1. ASSUME NEW k \in 1 .. c + 1
        PROVE  AnswerQueue'[k].data = answers'[Gone + k]
    <3>1. CASE k = c + 1
      BY <1>5, <1>6, <1>10, <1>12, <3>1
    <3>2. CASE k # c + 1
      <4>1. k \in 1 .. c /\ Gone + k \in 1 .. n
        BY <1>6, <2>1, <3>2
      <4>. QED
        BY <1>6, <1>10, <1>12, <4>1
    <3>. QED
      BY <3>1, <3>2
  <2>2. c + 1 <= n + 1 /\ atRisk' \subseteq 1 .. n + 1
    BY <1>4, <1>6, <1>10
  <2>. QED
    BY <1>1, <1>2, <1>9, <1>10, <1>11, <2>1, <2>2 DEF AnswersQueued
<1>14. Arrived(Gone)'
  <2>1. atRisk' = atRisk \/ atRisk' = atRisk \cup {Len(answers) + 1}
    BY <1>4, <1>10 DEF n
  <2>2. ArrivedIn(Gone, atRisk', Append(answers, d), answered)
    BY <1>5, <1>6, <1>11, <2>1, ArrivedWritten DEF Arrived, n
  <2>. QED
    BY <1>3, <1>4, <1>11, <2>2 DEF Arrived
<1>15. (HeadRemembered' <=> HeadRemembered) /\ (AckOnAir' <=> AckOnAir)
       /\ (AckHeard' <=> AckHeard)
  BY <1>2, <1>3 DEF HeadRemembered, Remembered, Queued, SP!TxQueue, AckOnAir, AckHeard,
     SP!DisabledIrq, SP!PacketReceived
<1>16. CASE c > 0
  <2>1. /\ Offered' <=> Offered
        /\ Gone + 1 \in 1 .. n /\ atRisk' = atRisk
    <3>1. Gone + 1 \in 1 .. n /\ atRisk' = atRisk
      BY <1>4, <1>6, <1>16
    <3>2. r_tx_fifo.count > 0 /\ r_tx_fifo'.count > 0
      BY <1>6, <1>9, <1>16 DEF c
    <3>. QED
      BY <1>2, <3>1, <3>2 DEF Offered
  <2>2. Arrived(Gone + 1) => Arrived(Gone + 1)'
    <3>. SUFFICES ASSUME Arrived(Gone + 1) PROVE Arrived(Gone + 1)'
      OBVIOUS
    <3>1. ArrivedIn(Gone + 1, atRisk', Append(answers, d), answered)
      BY <1>5, <1>6, <2>1, ArrivedWritten DEF Arrived, n
    <3>. QED
      BY <1>3, <1>4, <1>11, <3>1 DEF Arrived
  <2>3. OfferArrived' /\ OfferCarried'
    BY <1>2, <1>3, <1>10, <1>11, <1>15, <2>1, <2>2 DEF AnswerInv, OfferArrived, OfferCarried
  <2>. QED
    BY <1>13, <1>14, <2>3 DEF AnswerInv
<1>17. CASE c = 0
  <2>1. Offered' => Gone + 1 \in atRisk'
    BY <1>2, <1>4, <1>6, <1>9, <1>10, <1>17 DEF Offered
  <2>2. Offered' => Arrived(Gone + 1)'
    <3>. SUFFICES ASSUME Offered' PROVE Arrived(Gone + 1)'
      OBVIOUS
    <3>1. ArrivedIn(Gone, atRisk', answers', answered)
      BY <1>3, <1>11, <1>14 DEF Arrived
    <3>2. ArrivedIn(Gone + 1, atRisk', answers', answered)
      BY <1>6, <1>11, <2>1, <3>1, ArrivedRisk
    <3>. QED
      BY <1>3, <1>11, <3>2 DEF Arrived
  <2>3. OfferArrived' /\ OfferCarried'
    BY <1>11, <2>1, <2>2 DEF OfferArrived, OfferCarried
  <2>. QED
    BY <1>13, <1>14, <2>3 DEF AnswerInv
<1>. QED
  BY <1>6, <1>16, <1>17

\* The receiver's other calls have nothing to do with it.
LEMMA ReceiverCallsKeepAnswers ==
  ASSUME LinkInv, AnswerInv, ReceiverCalls
  PROVE  AnswerInv'
<1>. USE DEF RP!setupVars, RP!stateVars, RP!fifoVars, RP!txVars, RP!evtVars, RP!hwVars
<1>0. /\ UNCHANGED <<answered, s_tx_fifo, s_mainstate, s_radio, s_rx_payload_buffer>>
      /\ AckHeard' => AckHeard
      /\ ~r_initialized => r_call.at = "idle" /\ r_tx_fifo.count = 0
  BY DEF ReceiverCalls, sender, AckHeard, SP!DisabledIrq, SP!PacketReceived, AnswerInv,
     AnswersQueued
<1>1. RP!TypeOK /\ r_radio \in RP!Radios
  BY NodeTypes DEF LinkInv
<1>2. ASSUME r_call.at # "write" PROVE UNCHANGED <<answers, atRisk>>
  BY <1>2 DEF ReceiverCalls, Writes
<1>3. CASE RP!EsbInit
  <2>1. /\ ~r_initialized /\ r_initialized' /\ r_mainstate' = "IDLE"
        /\ r_tx_fifo' = RP!Flushed(r_tx_fifo)
    BY <1>3 DEF RP!EsbInit, RP!Disabled
  <2>2. UNCHANGED <<answers, atRisk>>
    BY <1>0, <1>2, <2>1
  <2>3. r_tx_fifo.count = 0 /\ r_tx_fifo'.count = 0
    BY <1>0, <1>1, <2>1 DEF RP!TypeOK, RP!Flushed, RP!Ring
  <2>4. Gone' = Gone /\ ~Offered' /\ AnswersQueued'
    BY <2>1, <2>2, <2>3 DEF Gone, Offered, AnswerInv, AnswersQueued
  <2>5. Arrived(Gone)'
    BY <1>0, <2>2, <2>4 DEF AnswerInv, Arrived
  <2>. QED
    BY <2>4, <2>5 DEF AnswerInv, OfferArrived, OfferCarried
<1>4. CASE RP!WritePayloadStore
  BY <1>4, AnswerIsWritten
<1>5. CASE RP!WritePayload
  <2>1. /\ r_call.at = "idle" /\ r_initialized'
        /\ UNCHANGED <<r_tx_fifo, r_rx_pipe_info, r_mainstate, r_radio,
                       r_tx_payload_buffer>>
    BY <1>5 DEF RP!WritePayload, RP!May
  <2>2. (HeadRemembered' <=> HeadRemembered) /\ (AckOnAir' => AckOnAir)
    BY <1>0, <2>1 DEF HeadRemembered, Remembered, Queued, SP!TxQueue, AckOnAir
  <2>. QED
    BY <1>0, <1>2, <2>1, <2>2, AnswersKept
<1>6. CASE \/ RP!WritePayloadKick \/ RP!ReadRxPayload \/ RP!ReadRxPayloadTake
           \/ RP!StopRx \/ RP!StartRx \/ RP!StopRxNow
  <2>1. /\ r_call.at # "write" /\ UNCHANGED <<r_tx_fifo, r_rx_pipe_info, r_initialized>>
        /\ r_initialized
    <3>1. ~r_initialized => r_mainstate = "IDLE" /\ r_call.at = "idle"
      BY <1>0 DEF LinkInv, Fresh
    <3>2. /\ UNCHANGED <<r_tx_fifo, r_rx_pipe_info, r_initialized>>
          /\ r_call.at # "write"
      BY <1>6 DEF RP!WritePayloadKick, RP!ReadRxPayload, RP!ReadRxPayloadTake,
         RP!StopRx, RP!StartRx, RP!StopRxNow, RP!May
    <3>3. \/ r_initialized \/ r_mainstate # "IDLE" \/ r_call.at # "idle"
      BY <1>6 DEF RP!WritePayloadKick, RP!ReadRxPayload, RP!ReadRxPayloadTake,
         RP!StopRx, RP!StartRx, RP!StopRxNow
    <3>. QED
      BY <3>1, <3>2, <3>3
  <2>2. \/ UNCHANGED <<r_mainstate, r_radio, r_tx_payload_buffer>>
        \/ r_mainstate' # "PRX_SEND_ACK"
    BY <1>6, NodeAssumption, NodeTypes DEF LinkInv, RP!WritePayloadKick, RP!ReadRxPayload,
       RP!ReadRxPayloadTake, RP!StopRx, RP!StartRx, RP!StopRxNow
  <2>3. (HeadRemembered' <=> HeadRemembered)
    BY <1>0, <2>1 DEF HeadRemembered, Remembered, Queued, SP!TxQueue
  <2>4. AckOnAir' => AckOnAir /\ UNCHANGED r_tx_payload_buffer
    BY <2>2 DEF AckOnAir
  <2>. QED
    BY <1>0, <1>2, <2>1, <2>3, <2>4, AnswersKept
<1>. QED
  BY <1>3, <1>4, <1>5, <1>6, ReceiverIs DEF ReceiverCalls

\* A packet that is no retransmission takes the payload of the last acknowledgment
\* out of the FIFO; the next acknowledgment carries the payload at the head.
LEMMA AckIsPrepared ==
  ASSUME LinkInv, AnswerInv, ReceiverIrq, RP!OnRadioDisabledRxAck,
         r_mainstate = "PRX", RP!DisabledIrq, r_radio.crcstatus,
         HeadRemembered', UNCHANGED <<r_initialized, r_call>>
  PROVE  AnswerInv'
<1>. DEFINE c      == r_tx_fifo.count
            loaded == c > 0
            sent   == loaded /\ r_rx_pipe_info[0].ack_payload /\ ~HeadRemembered
<1>1. /\ UNCHANGED <<answers, answered, atRisk>>
      /\ UNCHANGED <<s_mainstate, s_radio>>
  BY DEF ReceiverIrq, sender
<1>2. ~AckHeard'
  <2>1. r_radio.state = "tx"
    BY HeardIsHead
  <2>2. ~AckHeard
    BY <2>1 DEF LinkInv, SenderWaits, AckHeard
  <2>. QED
    BY <1>1, <2>2 DEF AckHeard, SP!DisabledIrq, SP!PacketReceived
<1>3. /\ r_tx_fifo \in RP!Ring(TX_FIFO_SIZE, RP!Payloads)
      /\ RP!Consistent(r_tx_fifo, TX_FIFO_SIZE)
      /\ AnswerQueue \in Seq(RP!Payloads) /\ Len(AnswerQueue) = c
      /\ answers \in Seq(DATA) /\ c \in 0 .. Len(answers) /\ Gone = Len(answers) - c
      /\ \A k \in 1 .. c : AnswerQueue[k].data = answers[Gone + k]
      /\ atRisk \subseteq 1 .. Len(answers)
      /\ ~r_initialized => r_call.at = "idle" /\ c = 0
  BY AnswerFacts DEF AnswerInv, AnswersQueued, Gone
<1>4. /\ RP!TypeOK /\ r_radio \in RP!Radios /\ r_radio.rxmatch = 0
      /\ r_config.protocol = "ESB_DPL"
  <2>1. RP!TypeOK /\ r_radio \in RP!Radios /\ r_config = RECEIVER
    BY NodeTypes DEF LinkInv
  <2>. QED
    BY <2>1, NodeAssumption DEF RP!Radios
<1>5. RP!RxRetransmit <=> HeadRemembered
  <2>1. RP!RxPid(r_rx_payload_buffer) = r_rx_payload_buffer.pid
    BY <1>4 DEF RP!RxPid
  <2>. QED
    BY <1>4, <2>1, HeardIsHead DEF RP!RxRetransmit, RP!Crc, HeadRemembered, Remembered
<1>6. r_tx_fifo.p_payload[r_tx_fifo.exit_point].pipe = 0
  <2>1. r_tx_fifo.p_payload[r_tx_fifo.exit_point] \in RP!Payloads
    BY <1>3, SizeAssumption DEF RP!Ring
  <2>. QED
    BY <2>1 DEF RP!Payloads
<1>7. /\ r_tx_fifo' = IF sent THEN RP!HeadRemoved(r_tx_fifo, TX_FIFO_SIZE) ELSE r_tx_fifo
      /\ loaded => r_tx_payload_buffer'.data = r_tx_fifo'.p_payload[r_tx_fifo'.exit_point].data
  <2>1. r_rx_payload_buffer \in RP!Packets
    BY <1>4 DEF RP!TypeOK
  <2>2. /\ r_config.protocol = "ESB_DPL"
        /\ r_tx_fifo.p_payload[r_tx_fifo.exit_point].pipe = r_radio.rxmatch
        /\ r_rx_pipe_info[r_radio.rxmatch] = r_rx_pipe_info[0]
    BY <1>4, <1>6
  <2>3. r_tx_fifo' = IF sent THEN RP!HeadRemoved(r_tx_fifo, TX_FIFO_SIZE) ELSE r_tx_fifo
    <3>. DEFINE ready == /\ r_config.protocol = "ESB_DPL" /\ r_tx_fifo.count > 0
                         /\ r_tx_fifo.p_payload[r_tx_fifo.exit_point].pipe = r_radio.rxmatch
    <3>1. ready <=> loaded
      BY <2>2
    <3>2. r_tx_fifo' = IF ready /\ r_rx_pipe_info[0].ack_payload /\ ~RP!RxRetransmit
                       THEN RP!HeadRemoved(r_tx_fifo, TX_FIFO_SIZE) ELSE r_tx_fifo
      BY <2>2 DEF RP!OnRadioDisabledRxAck
    <3>. QED
      BY <1>5, <3>1, <3>2
  <2>4. loaded => r_tx_payload_buffer' =
          [r_rx_payload_buffer EXCEPT !.data = r_tx_fifo'.p_payload[r_tx_fifo'.exit_point].data]
    BY <2>2 DEF RP!OnRadioDisabledRxAck
  <2>. QED
    BY <2>1, <2>3, <2>4 DEF RP!Packets
<1>8. CASE sent
  <2>1. Offered /\ ~HeadRemembered
    BY <1>8 DEF Offered
  <2>2. ArrivedIn(Gone + 1, atRisk, answers, answered)
    BY <2>1 DEF AnswerInv, OfferArrived, Arrived
  <2>3. r_tx_fifo' = RP!HeadRemoved(r_tx_fifo, TX_FIFO_SIZE)
    BY <1>7, <1>8
  <2>4. AnswerQueue' = Tail(AnswerQueue)
    <3>1. /\ TX_FIFO_SIZE \in Nat \ {0} /\ r_tx_fifo.count # 0
          /\ r_tx_fifo \in RP!Ring(TX_FIFO_SIZE, RP!Payloads)
          /\ RP!Consistent(r_tx_fifo, TX_FIFO_SIZE)
      BY <1>3, <1>8, ReceiverConstants
    <3>2. RP!Queue(RP!HeadRemoved(r_tx_fifo, TX_FIFO_SIZE), TX_FIFO_SIZE)
            = Tail(RP!Queue(r_tx_fifo, TX_FIFO_SIZE))
      BY ONLY <3>1, ReceiverConstants, RP!HeadRemovedQueue
    <3>. HIDE DEF c, loaded, sent
    <3>. QED
      BY ONLY <2>3, <3>2 DEF AnswerQueue, RP!TxQueue
  <2>5. /\ r_tx_fifo'.count = c - 1 /\ r_tx_fifo' \in RP!Ring(TX_FIFO_SIZE, RP!Payloads)
    BY <1>3, <1>8, <2>3, ReceiverConstants, RP!HeadRemovedType,
       RP!HeadRemovedConsistent
  <2>a. Gone \in Nat /\ c \in Nat /\ c > 0 /\ Len(answers) \in Nat /\ c <= Len(answers)
    BY <1>3, <1>8
  <2>. HIDE DEF c
  <2>6. Gone' = Gone + 1 /\ c > 0
    BY <1>1, <1>3, <2>5, <2>a DEF Gone
  <2>7. \A k \in 1 .. c - 1 : AnswerQueue'[k] = AnswerQueue[k + 1]
    BY <1>3, <2>4, <2>6
  <2>8. \A k \in 1 .. c - 1 : AnswerQueue'[k].data = answers[Gone' + k]
    <3>1. ASSUME NEW k \in 1 .. c - 1
          PROVE  AnswerQueue'[k].data = answers[Gone' + k]
      <4>1. k + 1 \in 1 .. c /\ Gone + (k + 1) = Gone' + k
        BY <2>6, <2>a
      <4>. QED
        BY <1>3, <2>7, <4>1
    <3>. QED
      BY <3>1
  <2>9. AnswersQueued'
    BY <1>1, <1>3, <2>5, <2>6, <2>8, <2>a DEF AnswersQueued, c
  <2>10. Arrived(Gone)'
    BY <1>1, <2>2, <2>6 DEF Arrived
  <2>11. OfferArrived'
    BY DEF OfferArrived
  <2>12. OfferCarried'
    <3>1. r_tx_fifo'.count > 0 =>
            r_tx_fifo'.p_payload[r_tx_fifo'.exit_point] = AnswerQueue'[1]
      BY <2>5, SizeAssumption
         DEF AnswerQueue, RP!TxQueue, RP!Queue, RP!SlotOf, RP!Wrap, RP!Ring
    <3>2. r_tx_fifo'.count > 0 => AnswerQueue'[1].data = answers[Gone' + 1]
      BY <1>3, <2>5, <2>8
    <3>. QED
      BY <1>1, <1>2, <1>7, <1>8, <3>1, <3>2 DEF OfferCarried, Offered
  <2>. QED
    BY <2>9, <2>10, <2>11, <2>12 DEF AnswerInv
<1>9. CASE ~sent
  <2>1. r_tx_fifo' = r_tx_fifo
    BY <1>7, <1>9
  <2>2. Gone' = Gone /\ AnswerQueue' = AnswerQueue
    BY <1>1, <2>1 DEF Gone, AnswerQueue, RP!TxQueue
  <2>3. AnswersQueued'
    BY <1>1, <2>1, <2>2 DEF AnswerInv, AnswersQueued
  <2>4. Arrived(Gone)'
    BY <1>1, <2>2 DEF AnswerInv, Arrived
  <2>5. OfferArrived'
    BY DEF OfferArrived
  <2>6. OfferCarried'
    <3>1. Offered' => r_tx_payload_buffer'.data = answers[Gone + 1]
      BY <1>7, <2>1, AnswerFacts DEF AnswerInv, Offered
    <3>. QED
      BY <1>1, <1>2, <2>2, <3>1 DEF OfferCarried
  <2>. QED
    BY <2>3, <2>4, <2>5, <2>6 DEF AnswerInv
<1>. QED
  BY <1>8, <1>9

\* The RADIO interrupt of the receiver.
LEMMA ReceiverIrqKeepsAnswers ==
  ASSUME LinkInv, NodesInv', AnswerInv, ReceiverIrq
  PROVE  AnswerInv'
<1>1. /\ UNCHANGED <<answers, answered, atRisk>>
      /\ UNCHANGED <<s_tx_fifo, s_mainstate, s_radio, s_rx_payload_buffer>>
      /\ UNCHANGED <<r_initialized, r_call>>
  BY ReceiverIrqDoes DEF ReceiverIrq, sender
<1>2. CASE /\ r_mainstate' = "PRX"
           /\ UNCHANGED <<r_rx_pipe_info, r_tx_fifo>>
  <2>1. /\ HeadRemembered' <=> HeadRemembered
        /\ ~AckOnAir' /\ (AckHeard' => AckHeard)
        /\ ~r_initialized' => r_call'.at = "idle"
    BY <1>1, <1>2 DEF HeadRemembered, Remembered, Queued, SP!TxQueue, AckOnAir, AckHeard,
       SP!DisabledIrq, SP!PacketReceived, AnswerInv, AnswersQueued
  <2>. QED
    BY <1>1, <1>2, <2>1, AnswersKept
<1>3. CASE r_mainstate' # "PRX"
  <2>1. /\ RP!OnRadioDisabledRxAck
        /\ r_mainstate = "PRX" /\ RP!DisabledIrq /\ r_radio.crcstatus
        /\ r_rx_pipe_info'[0].pid = Queued[1].pid
        /\ r_rx_pipe_info'[0].crc = <<Queued[1].data, Queued[1].pid>>
    BY <1>3, ReceiverIrqDoes
  <2>2. HeadRemembered'
    BY <1>1, <2>1, HeardIsHead DEF HeadRemembered, Remembered, Queued, SP!TxQueue
  <2>. QED
    BY <1>1, <2>1, <2>2, AckIsPrepared
<1>4. CASE r_mainstate' = "PRX_SEND_ACK"
  BY <1>3, <1>4
<1>. QED
  BY <1>2, <1>3, ReceiverIrqDoes

\* A packet or an acknowledgment is out, arrives or is lost, and the timer.
LEMMA AirKeepsAnswers ==
  ASSUME LinkInv, AnswerInv,
         \/ PacketArrives \/ PacketLost \/ AckArrives \/ AckLost
         \/ AckWindowCloses \/ RetransmitDelay
  PROVE  AnswerInv'
<1>. USE DEF SP!setupVars, SP!stateVars, SP!fifoVars, SP!txVars, SP!evtVars, SP!hwVars,
         RP!setupVars, RP!stateVars, RP!fifoVars, RP!txVars, RP!evtVars, RP!hwVars
<1>0. /\ UNCHANGED <<answers, answered, atRisk>>
      /\ ~r_initialized => r_call.at = "idle"
  BY DEF PacketArrives, PacketLost, AckArrives, AckLost, AckWindowCloses, RetransmitDelay,
     history, AnswerInv, AnswersQueued
<1>1. s_radio \in SP!Radios
  BY NodeTypes DEF LinkInv
<1>2. CASE PacketLost \/ AckWindowCloses \/ RetransmitDelay
  <2>1. /\ SP!TxEnd \/ SP!RxTimeout \/ SP!TimerCompare1
        /\ UNCHANGED <<r_tx_fifo, r_rx_pipe_info, r_initialized, r_call, r_mainstate,
                       r_radio,
                       r_tx_payload_buffer>>
    BY <1>2, SenderIs DEF PacketLost, AckWindowCloses, RetransmitDelay, receiver
  <2>2. UNCHANGED <<s_tx_fifo, s_pids, s_mainstate>>
    BY <2>1 DEF SP!TxEnd, SP!RxTimeout, SP!TimerCompare1
  <2>3. AckHeard' => AckHeard /\ UNCHANGED s_rx_payload_buffer
    <3>1. CASE SP!TxEnd
      BY <3>1, <2>2, SenderFacts DEF SP!TxEnd, AckHeard
    <3>2. CASE SP!RxTimeout
      <4>1. s_mainstate = "PTX_RX_ACK" /\ ~SP!DisabledIrq
        BY <3>2, SenderFacts DEF SP!RxTimeout
      <4>2. ~s_radio'.events_end
        BY <1>1, <3>2, <4>1 DEF SP!RxTimeout, SP!Radios, LinkInv, SenderWaits
      <4>. QED
        BY <4>2 DEF AckHeard, SP!PacketReceived
    <3>3. CASE SP!TimerCompare1
      <4>1. /\ s_radio'.events_disabled = s_radio.events_disabled
            /\ s_radio'.inten = s_radio.inten
            /\ s_radio'.events_end = s_radio.events_end
            /\ s_radio'.crcstatus = s_radio.crcstatus
            /\ UNCHANGED s_rx_payload_buffer
        BY <1>1, <3>3 DEF SP!TimerCompare1, SP!Radios
      <4>. QED
        BY <2>2, <4>1 DEF AckHeard, SP!DisabledIrq, SP!PacketReceived
    <3>. QED
      BY <2>1, <3>1, <3>2, <3>3
  <2>. QED
    BY <1>0, <2>1, <2>2, <2>3, QueueKept, AnswersKept DEF AckOnAir
<1>3. CASE PacketArrives
  <2>1. PICK crcok \in BOOLEAN : RP!RxEnd(s_tx_payload_buffer, s_radio.txaddress, crcok)
    BY <1>3, ReceiverHears DEF PacketArrives
  <2>2. SP!TxEnd
    BY <1>3, SenderIs DEF PacketArrives
  <2>3. s_mainstate = "PTX_TX_ACK" /\ r_mainstate = "PRX"
    BY <2>1, <2>2, SenderFacts, ReceiverFacts DEF SP!TxEnd, RP!RxEnd
  <2>4. /\ UNCHANGED <<s_tx_fifo, s_pids, s_mainstate, r_mainstate, r_tx_fifo,
                       r_rx_pipe_info,
                       r_initialized, r_call>>
    BY <2>1, <2>2 DEF SP!TxEnd, RP!RxEnd
  <2>5. ~AckOnAir' /\ ~AckHeard'
    BY <2>3, <2>4 DEF AckOnAir, AckHeard
  <2>. QED
    BY <1>0, <2>4, <2>5, QueueKept, AnswersKept
<1>4. CASE AckLost
  <2>1. RP!TxEnd /\ UNCHANGED <<s_tx_fifo, s_pids, s_mainstate, s_radio,
                                s_rx_payload_buffer>>
    BY <1>4, ReceiverIs DEF AckLost, sender
  <2>2. UNCHANGED <<r_tx_fifo, r_rx_pipe_info, r_initialized, r_call>> /\ ~AckOnAir'
    BY <2>1, AckIsOut DEF RP!TxEnd, AckOnAir
  <2>3. AckHeard' => AckHeard
    BY <2>1 DEF AckHeard, SP!DisabledIrq, SP!PacketReceived
  <2>. QED
    BY <1>0, <2>1, <2>2, <2>3, QueueKept, AnswersKept
<1>5. CASE AckArrives
  <2>1. PICK crcok \in BOOLEAN : SP!RxEnd(r_tx_payload_buffer, r_radio.txaddress, crcok)
    BY <1>5, SenderHears DEF AckArrives
  <2>2. RP!TxEnd
    BY <1>5, ReceiverIs DEF AckArrives
  <2>3. /\ UNCHANGED <<s_tx_fifo, s_pids>>
        /\ UNCHANGED <<r_tx_fifo, r_rx_pipe_info, r_initialized, r_call>>
    BY <2>1, <2>2 DEF SP!RxEnd, RP!TxEnd
  <2>4. AckOnAir /\ ~AckOnAir'
    BY <2>2, AckIsOut DEF RP!TxEnd, AckOnAir
  <2>5. AckHeard' => s_rx_payload_buffer' = r_tx_payload_buffer
    <3>1. s_radio'.crcstatus = crcok
      BY <1>1, <2>1 DEF SP!RxEnd, SP!Radios
    <3>. QED
      BY <2>1, <3>1 DEF SP!RxEnd, AckHeard, SP!PacketReceived
  <2>6. Gone' = Gone /\ AnswerQueue' = AnswerQueue /\ (Offered' <=> Offered)
    BY <1>0, <2>3 DEF Gone, AnswerQueue, RP!TxQueue, Offered
  <2>7. (Arrived(Gone)' <=> Arrived(Gone)) /\ (Arrived(Gone + 1)' <=> Arrived(Gone + 1))
    BY <1>0, <2>6 DEF Arrived
  <2>8. HeadRemembered' <=> HeadRemembered
    BY <2>3, QueueKept
  <2>9. AnswersQueued' /\ OfferArrived' /\ OfferCarried'
    BY <1>0, <2>3, <2>4, <2>5, <2>6, <2>7, <2>8
       DEF AnswerInv, AnswersQueued, OfferArrived, OfferCarried
  <2>. QED
    BY <2>7, <2>9 DEF AnswerInv
<1>. QED
  BY <1>2, <1>3, <1>4, <1>5

\* AnswerInv holds always.
LEMMA AnswerInvCorrect == Spec => []AnswerInv
<1>1. Init => AnswerInv
  <2>. SUFFICES ASSUME Init PROVE AnswerInv
    OBVIOUS
  <2>1. /\ r_tx_fifo.count = 0 /\ r_call.at = "idle"
        /\ answers = << >> /\ answered = << >> /\ atRisk = {}
    BY ReceiverIs DEF Init, RP!Init, RP!ZeroRing
  <2>2. Gone = 0 /\ AnswersQueued /\ ~Offered
    BY <2>1 DEF Gone, AnswersQueued, Offered
  <2>3. ArrivedIn(0, {}, << >>, << >>)
    <3>. DEFINE f == [k \in (1 .. 0) \ {} |-> 0]
    <3>1. f \in [(1 .. 0) \ {} -> DOMAIN << >>] /\ (1 .. 0) \ {} = {}
      OBVIOUS
    <3>. QED
      BY <3>1 DEF ArrivedIn
  <2>. QED
    BY <2>1, <2>2, <2>3 DEF AnswerInv, Arrived, OfferArrived, OfferCarried
<1>2. LinkInv /\ LinkInv' /\ AnswerInv /\ [Next]_vars => AnswerInv'
  <2>. SUFFICES ASSUME LinkInv, LinkInv', AnswerInv, [Next]_vars PROVE AnswerInv'
    OBVIOUS
  <2>1. CASE UNCHANGED vars
    <3>1. /\ UNCHANGED <<answers, answered, atRisk, r_tx_fifo, r_rx_pipe_info>>
          /\ HeadRemembered' <=> HeadRemembered
          /\ UNCHANGED <<r_initialized, r_call, r_tx_payload_buffer, s_rx_payload_buffer>>
          /\ (AckOnAir' <=> AckOnAir) /\ (AckHeard' <=> AckHeard)
      BY <2>1 DEF vars, sender, receiver, history, HeadRemembered, Remembered, Queued,
         SP!TxQueue, AckOnAir, AckHeard, SP!DisabledIrq, SP!PacketReceived
    <3>. QED
      BY <3>1, AnswersKept DEF AnswerInv, AnswersQueued
  <2>2. CASE Next
    BY <2>2, SenderCallsKeepAnswers, ReceiverCallsKeepAnswers, SenderIrqKeepsAnswers,
       ReceiverIrqKeepsAnswers, AirKeepsAnswers DEF Next, LinkInv
  <2>. QED
    BY <2>1, <2>2
<1>. QED
  BY <1>1, <1>2, LinkInvCorrect, PTL DEF Spec

\* Both nodes keep their types, the histories are of contents and within their
\* bounds, for FIFOs, packet ids and contents of every size, whatever is lost.
THEOREM TypeCorrect == Spec => []TypeOK
<1>1. LinkInv /\ AnswerInv => TypeOK
  BY NodeTypes, SenderIs, ReceiverIs
     DEF LinkInv, TypeOK, HistoriesOK, CallsWithinBounds, AnswerInv, AnswersQueued
<1>. QED
  BY <1>1, LinkInvCorrect, AnswerInvCorrect, PTL

\* Every payload the receiver has taken for sent with an acknowledgment, unless it
\* was written at risk, has come in at the sender, in the order of writing, for any
\* number of answers, any FIFO and any loss of packets and acknowledgments.
THEOREM AnswersCorrect == Spec => []AnswersArrive
<1>1. AnswerInv => AnswersArrive
  BY DEF AnswerInv, Arrived, ArrivedIn, Gone, AnswersArrive
<1>. QED
  BY <1>1, AnswerInvCorrect, PTL

=============================================================================
