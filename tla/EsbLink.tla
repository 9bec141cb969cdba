------------------------------ MODULE EsbLink ------------------------------
(***************************************************************************)
(* Two nodes and the air between them: a sender S and a receiver R, each   *)
(* an instance of NrfEsb, on one channel and one pipe.  A packet that a    *)
(* radio sends reaches the other radio if that one is receiving, intact or *)
(* damaged, or is lost; nothing else is on air.                            *)
(*                                                                         *)
(* The sender's application writes payloads and starts the transmission    *)
(* again when it has failed; the receiver's application starts and stops   *)
(* reception, reads, and writes payloads for the acknowledgments.  Neither *)
(* flushes a FIFO nor initialises its node again: both make a node forget  *)
(* packet ids.                                                             *)
(* ESB_EVT is left out: it changes nothing the other actions read.         *)
(***************************************************************************)
EXTENDS Integers, Sequences, FiniteSets

CONSTANTS
  UINT32_MAX, TX_FIFO_SIZE, RX_FIFO_SIZE, PID_MAX, DATA, NoData, ZERO_CRC,
  SENDER,       \* configuration of the sender
  RECEIVER,     \* configuration of the receiver
  MAX_WRITES,   \* bound: payloads the sender's application writes
  MAX_ANSWERS   \* bound: payloads the receiver's application writes

\* The sender's node, the receiver's node, and the history: what the sender's
\* application has written and the receiver has stored, what the receiver's has
\* written and has come in with acknowledgments; atRisk has the positions in answers
\* of those that were written to an empty FIFO after an acknowledgment with a payload:
\* the driver may take them for sent before they are (NrfEsb!SuccessOnlyIfSent).
VARIABLES
  s_initialized, s_config, s_mainstate, s_on_radio_disabled,
  s_tx_fifo, s_rx_fifo, s_pids, s_rx_pipe_info,
  s_interrupt_flags, s_retransmits_remaining, s_last_tx_attempts, s_mp_current_payload,
  s_tx_payload_buffer, s_rx_payload_buffer, s_esb_addr, s_radio,
  s_timer, s_swi0, s_call, s_event,
  s_hist,
  r_initialized, r_config, r_mainstate, r_on_radio_disabled,
  r_tx_fifo, r_rx_fifo, r_pids, r_rx_pipe_info,
  r_interrupt_flags, r_retransmits_remaining, r_last_tx_attempts, r_mp_current_payload,
  r_tx_payload_buffer, r_rx_payload_buffer, r_esb_addr, r_radio,
  r_timer, r_swi0, r_call, r_event,
  r_hist,
  written, delivered, answers, answered, atRisk

ASSUME SizeAssumption ==
  /\ UINT32_MAX \in Nat \ {0}
  /\ TX_FIFO_SIZE \in 1 .. UINT32_MAX - 1 /\ RX_FIFO_SIZE \in 1 .. UINT32_MAX - 1
  /\ PID_MAX \in Nat \ {0}
ASSUME ContentAssumption == NoData \notin DATA /\ ZERO_CRC \in DATA \cup {NoData}
ASSUME BoundAssumption   == MAX_WRITES \in Nat /\ MAX_ANSWERS \in Nat

ToPipe0 == [pipe : {0}, noack : {FALSE}, data : DATA, pid : {0}]

S == INSTANCE NrfEsb WITH
  PIPES <- {0}, CHANNELS <- {1}, ADDRESSES <- {1}, HEARD <- {},
  CONFIGS <- {SENDER}, WRITTEN <- ToPipe0,
  API <- {"init", "write_payload", "start_tx", "read_rx_payload"},
  initialized <- s_initialized, config <- s_config,
  mainstate <- s_mainstate, on_radio_disabled <- s_on_radio_disabled,
  tx_fifo <- s_tx_fifo, rx_fifo <- s_rx_fifo,
  pids <- s_pids, rx_pipe_info <- s_rx_pipe_info,
  interrupt_flags <- s_interrupt_flags, retransmits_remaining <- s_retransmits_remaining,
  last_tx_attempts <- s_last_tx_attempts, mp_current_payload <- s_mp_current_payload,
  tx_payload_buffer <- s_tx_payload_buffer, rx_payload_buffer <- s_rx_payload_buffer,
  esb_addr <- s_esb_addr, radio <- s_radio,
  timer <- s_timer, swi0 <- s_swi0,
  call <- s_call, event <- s_event,
  hist <- s_hist

R == INSTANCE NrfEsb WITH
  PIPES <- {0}, CHANNELS <- {1}, ADDRESSES <- {1}, HEARD <- {},
  CONFIGS <- {RECEIVER}, WRITTEN <- ToPipe0,
  API <- {"init", "start_rx", "stop_rx", "read_rx_payload", "write_payload"},
  initialized <- r_initialized, config <- r_config,
  mainstate <- r_mainstate, on_radio_disabled <- r_on_radio_disabled,
  tx_fifo <- r_tx_fifo, rx_fifo <- r_rx_fifo,
  pids <- r_pids, rx_pipe_info <- r_rx_pipe_info,
  interrupt_flags <- r_interrupt_flags, retransmits_remaining <- r_retransmits_remaining,
  last_tx_attempts <- r_last_tx_attempts, mp_current_payload <- r_mp_current_payload,
  tx_payload_buffer <- r_tx_payload_buffer, rx_payload_buffer <- r_rx_payload_buffer,
  esb_addr <- r_esb_addr, radio <- r_radio,
  timer <- r_timer, swi0 <- r_swi0,
  call <- r_call, event <- r_event,
  hist <- r_hist

\* Both nodes use the protocol of the applications, one of them as PRX.
ASSUME NodeAssumption ==
  /\ SENDER \in S!Configs /\ SENDER.protocol = "ESB_DPL" /\ SENDER.mode = "PTX"
  /\ RECEIVER \in R!Configs /\ RECEIVER.protocol = "ESB_DPL" /\ RECEIVER.mode = "PRX"

sender ==
  <<s_initialized, s_config, s_mainstate, s_on_radio_disabled,
    s_tx_fifo, s_rx_fifo, s_pids, s_rx_pipe_info,
    s_interrupt_flags, s_retransmits_remaining, s_last_tx_attempts, s_mp_current_payload,
    s_tx_payload_buffer, s_rx_payload_buffer, s_esb_addr, s_radio,
    s_timer, s_swi0, s_call, s_event,
    s_hist>>
receiver ==
  <<r_initialized, r_config, r_mainstate, r_on_radio_disabled,
    r_tx_fifo, r_rx_fifo, r_pids, r_rx_pipe_info,
    r_interrupt_flags, r_retransmits_remaining, r_last_tx_attempts, r_mp_current_payload,
    r_tx_payload_buffer, r_rx_payload_buffer, r_esb_addr, r_radio,
    r_timer, r_swi0, r_call, r_event,
    r_hist>>
history == <<written, delivered, answers, answered, atRisk>>
vars == <<sender, receiver, history>>

Init == S!Init /\ R!Init /\ written = <<>> /\ delivered = <<>>
        /\ answers = <<>> /\ answered = <<>> /\ atRisk = {}

-----------------------------------------------------------------------------
\* The contents of a FIFO, oldest first.
Datas(fifo, size) ==
  LET q == S!Queue(fifo, size) IN [k \in DOMAIN q |-> q[k].data]

\* The content that a call puts in the TX FIFO is written.
Writes(seq, call) ==
  IF call.at = "write" THEN Append(seq, call.payload.data) ELSE seq

SenderCalls ==
  /\ \/ S!EsbInit \/ S!WritePayloadStore \/ S!WritePayloadKick \/ S!StartTx
     \/ S!WritePayload /\ Len(written) < MAX_WRITES
     \/ S!ReadRxPayload \/ S!ReadRxPayloadTake
  /\ written' = Writes(written, s_call)
  /\ UNCHANGED <<receiver, delivered, answers, answered, atRisk>>

ReceiverCalls ==
  /\ \/ R!EsbInit \/ R!StartRx \/ R!StopRx \/ R!StopRxNow
     \/ R!WritePayloadStore \/ R!WritePayloadKick
     \/ R!WritePayload /\ Len(answers) < MAX_ANSWERS
     \/ R!ReadRxPayload \/ R!ReadRxPayloadTake
  /\ answers' = Writes(answers, r_call)
  /\ atRisk' = IF /\ r_call.at = "write"
                  /\ r_tx_fifo.count = 0 /\ r_rx_pipe_info[0].ack_payload
               THEN atRisk \cup {Len(answers')} ELSE atRisk
  /\ UNCHANGED <<sender, written, delivered, answered>>

\* The content of an acknowledgment is taken in, even if the RX FIFO is full and
\* rx_fifo_push_rfbuf then drops it.
SenderIrq ==
  /\ S!RadioIrq
  /\ answered' = IF S!OnRadioDisabledTxAcked /\ s_rx_payload_buffer.data # NoData
                 THEN Append(answered, s_rx_payload_buffer.data) ELSE answered
  /\ UNCHANGED <<receiver, written, delivered, answers, atRisk>>

\* A payload the handler stores is delivered.
ReceiverIrq ==
  /\ R!RadioIrq
  /\ delivered' =
       IF r_rx_fifo'.count > r_rx_fifo.count
       THEN Append(delivered, r_rx_fifo'.p_payload[r_rx_fifo.entry_point].data)
       ELSE delivered
  /\ UNCHANGED <<sender, written, answers, answered, atRisk>>

-----------------------------------------------------------------------------
(* The air.  Whoever sends does not listen.                                *)

PacketArrives ==
  /\ S!TxEnd
  /\ \E crcok \in BOOLEAN : R!RxEnd(s_tx_payload_buffer, s_radio.txaddress, crcok)
  /\ UNCHANGED history

PacketLost == S!TxEnd /\ UNCHANGED <<receiver, history>>

AckArrives ==
  /\ R!TxEnd
  /\ \E crcok \in BOOLEAN : S!RxEnd(r_tx_payload_buffer, r_radio.txaddress, crcok)
  /\ UNCHANGED history

AckLost == R!TxEnd /\ UNCHANGED <<sender, history>>

\* The window for the acknowledgment is longer than the receiver's turnaround, so
\* it does not close on an acknowledgment that is on its way.
AckWindowCloses ==
  /\ S!RxTimeout /\ r_radio.state # "tx"
  /\ UNCHANGED <<receiver, history>>

RetransmitDelay == S!TimerCompare1 /\ UNCHANGED <<receiver, history>>

Next ==
  \/ SenderCalls \/ ReceiverCalls \/ SenderIrq \/ ReceiverIrq
  \/ PacketArrives \/ PacketLost \/ AckArrives \/ AckLost
  \/ AckWindowCloses \/ RetransmitDelay

Spec == Init /\ [][Next]_vars

-----------------------------------------------------------------------------
(* Properties *)

\* Type invariant: each node keeps its types, and the history is one of contents.
TypeOK ==
  /\ S!TypeOK /\ R!TypeOK
  /\ \A seq \in {written, delivered, answers, answered} : seq \in Seq(DATA)
  /\ Len(written) <= MAX_WRITES /\ Len(answers) <= MAX_ANSWERS
  /\ atRisk \subseteq DOMAIN answers

\* The receiver remembers the packet at the head of the sender's FIFO as the last
\* it has acknowledged.
HeadReceived ==
  /\ s_tx_fifo.count > 0
  /\ LET head == s_tx_fifo.p_payload[s_tx_fifo.exit_point]
     IN /\ r_rx_pipe_info[0].pid = head.pid
        /\ r_rx_pipe_info[0].crc = S!Crc(head)

\* The driver at both ends implements a channel that loses, repeats and reorders
\* nothing: retransmissions, lost acknowledgments, transmissions that failed and
\* were started again, and a receiver that stops or is full change nothing of it.
Channel == INSTANCE EsbChannel WITH
  Payload <- DATA, CAPACITY <- TX_FIFO_SIZE,
  waiting <- Datas(s_tx_fifo, TX_FIFO_SIZE), headDone <- HeadReceived
ImplementsChannel == Channel!Spec

\* When the receiver takes a payload for sent, because a packet that is no
\* retransmission follows the acknowledgment that carried it, the payload has come
\* in at the sender, and in order: no lost acknowledgment hides it.  Excepted are
\* the payloads at risk, which no acknowledgment need have carried.
AnswersArrive ==
  LET gone == (1 .. Len(answers) - r_tx_fifo.count) \ atRisk
  IN \E f \in [gone -> DOMAIN answered] :
       /\ \A k \in gone : answered[f[k]] = answers[k]
       /\ \A k, l \in gone : k < l => f[k] < f[l]
=============================================================================
