---------------------------- MODULE NrfEsbProofs ----------------------------
(***************************************************************************)
(* Theorems about the driver of one node, for every size of its FIFOs,     *)
(* every set of pipes, payloads and configurations.  First what the        *)
(* operations of EsbRing do, for rings of every size: they keep the type   *)
(* and the consistency of the ring, and they are the operations of a queue. *)
(***************************************************************************)
EXTENDS NrfEsb, TLAPS

-----------------------------------------------------------------------------
(* Rings *)

\* The step of an index stays inside the array.
LEMMA RingNextType ==
  ASSUME NEW size \in Nat \ {0}, NEW i \in 0 .. size - 1
  PROVE  RingNext(i, size) \in 0 .. size - 1
  BY DEF RingNext

\* Static memory is an empty ring.
LEMMA ZeroRingCorrect ==
  ASSUME NEW size \in Nat \ {0}, NEW Slots, NEW slot \in Slots
  PROVE  /\ ZeroRing(size, slot) \in Ring(size, Slots)
         /\ Consistent(ZeroRing(size, slot), size)
  BY UInt32Assumption DEF ZeroRing, Ring, Consistent, Wrap

\* Any write keeps the type: the count of a ring that is full may exceed its size.
LEMMA PushedType ==
  ASSUME NEW size \in Nat \ {0}, NEW Slots,
         NEW ring \in Ring(size, Slots), NEW payload \in Slots
  PROVE  Pushed(ring, size, payload) \in Ring(size, Slots)
<1>1. RingNext(ring.entry_point, size) \in 0 .. size - 1
  BY RingNextType DEF Ring
<1>2. Inc32(ring.count) \in 0 .. UINT32_MAX
  BY UInt32Assumption DEF Inc32, Ring
<1>. QED
  BY <1>1, <1>2 DEF Pushed, Ring

\* Any read keeps the type: the count of a ring that is empty wraps.
LEMMA HeadRemovedType ==
  ASSUME NEW size \in Nat \ {0}, NEW Slots, NEW ring \in Ring(size, Slots)
  PROVE  HeadRemoved(ring, size) \in Ring(size, Slots)
<1>1. RingNext(ring.exit_point, size) \in 0 .. size - 1
  BY RingNextType DEF Ring
<1>2. Dec32(ring.count) \in 0 .. UINT32_MAX
  BY UInt32Assumption DEF Dec32, Ring
<1>. QED
  BY <1>1, <1>2 DEF HeadRemoved, Ring

\* A flush always leaves an empty, consistent ring.
LEMMA FlushedCorrect ==
  ASSUME NEW size \in Nat \ {0}, NEW Slots, NEW ring \in Ring(size, Slots)
  PROVE  /\ Flushed(ring) \in Ring(size, Slots)
         /\ Consistent(Flushed(ring), size)
<1>1. Flushed(ring) \in Ring(size, Slots)
  <2>1. 0 \in 0 .. size - 1 /\ 0 \in 0 .. UINT32_MAX
    BY UInt32Assumption
  <2>2. [ring EXCEPT !.entry_point = 0] \in Ring(size, Slots)
    BY <2>1 DEF Ring
  <2>3. [[ring EXCEPT !.entry_point = 0] EXCEPT !.exit_point = 0] \in Ring(size, Slots)
    BY <2>1, <2>2 DEF Ring
  <2>. QED
    BY <2>1, <2>3 DEF Flushed, Ring
<1>2. /\ Flushed(ring).count = 0
      /\ Flushed(ring).entry_point = 0 /\ Flushed(ring).exit_point = 0
  BY DEF Flushed, Ring
<1>. QED
  BY <1>1, <1>2 DEF Consistent, Wrap

-----------------------------------------------------------------------------
\* A write to a ring with room adds one payload to a consistent ring.
LEMMA PushedConsistent ==
  ASSUME NEW size \in Nat \ {0}, size < UINT32_MAX, NEW Slots,
         NEW ring \in Ring(size, Slots), NEW payload \in Slots,
         Consistent(ring, size), ring.count < size
  PROVE  /\ Consistent(Pushed(ring, size, payload), size)
         /\ Pushed(ring, size, payload).count = ring.count + 1
<1>. DEFINE pushed == Pushed(ring, size, payload)
<1>1. /\ pushed.exit_point = ring.exit_point
      /\ pushed.entry_point = RingNext(ring.entry_point, size)
      /\ pushed.count = ring.count + 1
  BY UInt32Assumption DEF Pushed, Ring, Inc32
<1>2. RingNext(Wrap(ring.exit_point + ring.count, size), size)
        = Wrap(ring.exit_point + ring.count + 1, size)
  BY DEF RingNext, Wrap, Ring
<1>. QED
  BY <1>1, <1>2 DEF Consistent, Ring

\* A read from a ring that is not empty takes one payload off a consistent ring.
LEMMA HeadRemovedConsistent ==
  ASSUME NEW size \in Nat \ {0}, NEW Slots, NEW ring \in Ring(size, Slots),
         Consistent(ring, size), ring.count # 0
  PROVE  /\ Consistent(HeadRemoved(ring, size), size)
         /\ HeadRemoved(ring, size).count = ring.count - 1
<1>. DEFINE removed == HeadRemoved(ring, size)
<1>1. /\ removed.entry_point = ring.entry_point
      /\ removed.exit_point = RingNext(ring.exit_point, size)
      /\ removed.count = ring.count - 1
  BY DEF HeadRemoved, Ring, Dec32
<1>2. Wrap(RingNext(ring.exit_point, size) + (ring.count - 1), size)
        = Wrap(ring.exit_point + ring.count, size)
  BY DEF RingNext, Wrap, Ring, Consistent
<1>. QED
  BY <1>1, <1>2 DEF Consistent, Ring

-----------------------------------------------------------------------------
\* The queue a ring stands for: as long as the count says, of payloads.
LEMMA QueueType ==
  ASSUME NEW size \in Nat \ {0}, NEW Slots, NEW ring \in Ring(size, Slots),
         ring.count <= size
  PROVE  /\ Queue(ring, size) \in Seq(Slots)
         /\ Len(Queue(ring, size)) = ring.count
<1>1. ASSUME NEW k \in 1 .. ring.count
      PROVE  SlotOf(ring, size, k) \in 0 .. size - 1
  BY DEF SlotOf, Wrap, Ring
<1>2. ring.count \in Nat
  BY DEF Ring
<1>3. Queue(ring, size) \in [1 .. ring.count -> Slots]
  BY <1>1 DEF Queue, Ring
<1>4. Queue(ring, size) \in Seq(Slots)
  BY <1>2, <1>3
<1>. QED
  BY <1>2, <1>3, <1>4

\* The slots of the queue lie in the ring, and the next entry is not one of them.
LEMMA EntryIsFree ==
  ASSUME NEW size \in Nat \ {0}, NEW exit \in 0 .. size - 1, NEW count \in Nat,
         count < size, NEW k \in 1 .. count
  PROVE  /\ Wrap(exit + k - 1, size) # Wrap(exit + count, size)
         /\ Wrap(exit + k - 1, size) \in 0 .. size - 1
<1>1. CASE exit + count < size
  BY <1>1 DEF Wrap
<1>2. CASE exit + count >= size /\ exit + k - 1 < size
  BY <1>2 DEF Wrap
<1>3. CASE exit + k - 1 >= size
  BY <1>3 DEF Wrap
<1>. QED
  BY <1>1, <1>2, <1>3

\* A write to a ring with room appends to its queue, and overwrites no payload
\* of the queue.
LEMMA PushedQueue ==
  ASSUME NEW size \in Nat \ {0}, size < UINT32_MAX, NEW Slots,
         NEW ring \in Ring(size, Slots), NEW payload \in Slots,
         Consistent(ring, size), ring.count < size
  PROVE  Queue(Pushed(ring, size, payload), size)
           = Append(Queue(ring, size), payload)
<1>. DEFINE pushed == Pushed(ring, size, payload)
            q == Queue(ring, size)
            r == Queue(pushed, size)
<1>1. /\ pushed \in Ring(size, Slots)
      /\ pushed.count = ring.count + 1
      /\ pushed.exit_point = ring.exit_point
      /\ pushed.p_payload = [ring.p_payload EXCEPT ![ring.entry_point] = payload]
  BY PushedType, PushedConsistent DEF Pushed, Ring
<1>2. /\ ring.count \in Nat /\ ring.exit_point \in 0 .. size - 1
      /\ ring.entry_point \in 0 .. size - 1
      /\ ring.p_payload \in [0 .. size - 1 -> Slots]
  BY DEF Ring
<1>3. q \in Seq(Slots) /\ Len(q) = ring.count
  BY QueueType DEF Consistent
<1>4. r \in Seq(Slots) /\ Len(r) = ring.count + 1
  BY <1>1, <1>2, QueueType
<1>5. ASSUME NEW k \in 1 .. ring.count + 1
      PROVE  r[k] = Append(q, payload)[k]
  <2>1. r[k] = pushed.p_payload[Wrap(ring.exit_point + k - 1, size)]
    BY <1>1, <1>2 DEF Queue, SlotOf
  <2>2. CASE k = ring.count + 1
    <3>1. Wrap(ring.exit_point + k - 1, size) = ring.entry_point
      BY <2>2, <1>2 DEF Consistent
    <3>2. r[k] = payload
      BY <2>1, <3>1, <1>1, <1>2
    <3>. QED
      BY <3>2, <2>2, <1>3
  <2>3. CASE k # ring.count + 1
    <3>1. k \in 1 .. ring.count
      BY <2>3, <1>2
    <3>2. /\ Wrap(ring.exit_point + k - 1, size) # ring.entry_point
          /\ Wrap(ring.exit_point + k - 1, size) \in 0 .. size - 1
      <4>1. ring.entry_point = Wrap(ring.exit_point + ring.count, size)
        BY DEF Consistent
      <4>. QED
        BY <4>1, <3>1, <1>2, EntryIsFree
    <3>3. r[k] = ring.p_payload[Wrap(ring.exit_point + k - 1, size)]
      BY <2>1, <3>2, <1>1, <1>2
    <3>4. q[k] = ring.p_payload[Wrap(ring.exit_point + k - 1, size)]
      BY <3>1 DEF Queue, SlotOf
    <3>. QED
      BY <3>1, <3>3, <3>4, <1>3
  <2>. QED
    BY <2>2, <2>3
<1>6. Append(q, payload) \in Seq(Slots) /\ Len(Append(q, payload)) = ring.count + 1
  BY <1>3
<1>7. r = Append(q, payload)
  <2>. HIDE DEF q, r
  <2>. QED
    BY <1>2, <1>4, <1>5, <1>6
<1>. QED
  BY <1>7

\* A read takes the head of the queue.
LEMMA HeadRemovedQueue ==
  ASSUME NEW size \in Nat \ {0}, NEW Slots, NEW ring \in Ring(size, Slots),
         Consistent(ring, size), ring.count # 0
  PROVE  Queue(HeadRemoved(ring, size), size) = Tail(Queue(ring, size))
<1>. DEFINE removed == HeadRemoved(ring, size)
            q == Queue(ring, size)
            r == Queue(removed, size)
<1>1. /\ removed \in Ring(size, Slots)
      /\ removed.count = ring.count - 1
      /\ removed.exit_point = RingNext(ring.exit_point, size)
      /\ removed.p_payload = ring.p_payload
  BY HeadRemovedType, HeadRemovedConsistent DEF HeadRemoved, Ring
<1>2. ring.count \in Nat \ {0} /\ ring.count <= size /\ ring.exit_point \in 0 .. size - 1
  BY DEF Ring, Consistent
<1>3. q \in Seq(Slots) /\ Len(q) = ring.count
  BY <1>2, QueueType
<1>4. r \in Seq(Slots) /\ Len(r) = ring.count - 1
  BY <1>1, <1>2, QueueType
<1>5. ASSUME NEW k \in 1 .. ring.count - 1
      PROVE  r[k] = Tail(q)[k]
  <2>1. Wrap(RingNext(ring.exit_point, size) + k - 1, size)
          = Wrap(ring.exit_point + (k + 1) - 1, size)
    BY <1>2 DEF Wrap, RingNext
  <2>2. r[k] = ring.p_payload[Wrap(RingNext(ring.exit_point, size) + k - 1, size)]
    BY <1>1, <1>2 DEF Queue, SlotOf
  <2>3. k + 1 \in 1 .. ring.count
    BY <1>2
  <2>4. q[k + 1] = ring.p_payload[Wrap(ring.exit_point + (k + 1) - 1, size)]
    BY <2>3 DEF Queue, SlotOf
  <2>5. Tail(q)[k] = q[k + 1]
    <3>. HIDE DEF q
    <3>. QED
      BY <1>2, <1>3, <2>3
  <2>. QED
    BY <2>1, <2>2, <2>4, <2>5
<1>6. Tail(q) \in Seq(Slots) /\ Len(Tail(q)) = ring.count - 1
  <2>. HIDE DEF q
  <2>. QED
    BY <1>2, <1>3
<1>7. r = Tail(q)
  <2>. HIDE DEF q, r
  <2>. QED
    BY <1>2, <1>4, <1>5, <1>6
<1>. QED
  BY <1>7


-----------------------------------------------------------------------------
(* Types of the parts *)

\* What static memory holds has the right type.
LEMMA ZeroTypes ==
  /\ ZeroPayload \in Payloads
  /\ ZeroRxPayload \in RxPayloads
  /\ ZeroPacket \in Packets
  /\ ZeroPids \in [PIPES -> Pids]
  /\ ZeroPipeInfo \in [PIPES -> PipeInfos]
  /\ 0 \in TxSlots
<1>1. 0 \in Pids /\ 0 \in PIPES /\ 0 \in TxSlots
  BY FifoAssumption, PidAssumption, PipeAssumption DEF Pids, TxSlots
<1>2. NoData \in Contents /\ ZERO_CRC \in Contents
  BY DataAssumption DEF Contents
<1>3. CRC0 \in Crcs
  BY <1>1, <1>2 DEF CRC0, Crcs
<1>. QED
  BY <1>1, <1>2, <1>3 DEF ZeroPayload, ZeroRxPayload, ZeroPacket, ZeroPids, ZeroPipeInfo,
     Payloads, RxPayloads, Packets, PipeInfos

\* The configurations the driver is given.
LEMMA ConfigType ==
  ASSUME TypeOK
  PROVE  /\ config \in Configs
         /\ config.retransmit_count \in 0 .. UINT32_MAX
         /\ config.retransmit_count + 1 \in 0 .. UINT32_MAX
  BY ConfigAssumption, UInt32Assumption DEF TypeOK, Configs

\* A packet id is one of the ids 0 .. NRF_ESB_PID_MAX.
LEMMA NextPidType ==
  ASSUME TypeOK, NEW pipe \in PIPES
  PROVE  NextPid(pipe) \in Pids
<1>1. pids[pipe] + 1 \in Nat
  BY DEF TypeOK, Pids
<1>. QED
  BY <1>1, PidAssumption DEF NextPid, Pids

\* The packet id and the CRC of a packet received.
LEMMA RxPidType ==
  ASSUME TypeOK
  PROVE  /\ RxPid(rx_payload_buffer) \in Pids
         /\ Crc(rx_payload_buffer) \in Crcs
  BY PidAssumption DEF TypeOK, RxPid, Pids, Packets, Crc, Crcs

\* rx_fifo_push_rfbuf keeps the type of the RX FIFO.
LEMMA PushRfbufType ==
  ASSUME TypeOK, NEW pipe \in PIPES, NEW pid \in Pids
  PROVE  PushRfbuf(pipe, pid) \in Ring(RX_FIFO_SIZE, RxPayloads)
<1>. DEFINE data == IF config.protocol = "ESB" /\ config.mode = "PTX"
                    THEN NoData ELSE rx_payload_buffer.data
            payload == [pipe |-> pipe, data |-> data, pid |-> pid]
<1>1. payload \in RxPayloads
  BY DataAssumption DEF TypeOK, Packets, Contents, RxPayloads
<1>2. rx_fifo \in Ring(RX_FIFO_SIZE, RxPayloads)
  BY DEF TypeOK
<1>3. Pushed(rx_fifo, RX_FIFO_SIZE, payload) \in Ring(RX_FIFO_SIZE, RxPayloads)
  <2>. HIDE DEF payload
  <2>. QED
    BY <1>1, <1>2, PushedType, FifoAssumption
<1>. QED
  BY <1>2, <1>3 DEF PushRfbuf

\* tx_fifo_remove_last keeps the type of the TX FIFO.
LEMMA RemoveLastType ==
  ASSUME TypeOK
  PROVE  RemoveLast(tx_fifo) \in Ring(TX_FIFO_SIZE, Payloads)
  BY HeadRemovedType, FifoAssumption DEF TypeOK, RemoveLast

\* start_tx_transaction keeps the type of all it writes.
LEMMA StartTxTransactionType ==
  ASSUME TypeOK, NEW fifo \in Ring(TX_FIFO_SIZE, Payloads), StartTxTransaction(fifo)
  PROVE  /\ last_tx_attempts' \in 0 .. UINT32_MAX
         /\ mp_current_payload' \in TxSlots
         /\ tx_payload_buffer' \in Packets
         /\ retransmits_remaining' \in 0 .. UINT32_MAX
         /\ on_radio_disabled' \in Callbacks
         /\ mainstate' \in MainStates
         /\ radio' \in Radios
<1>. DEFINE payload == fifo.p_payload[fifo.exit_point]
            ack == config.protocol = "ESB" \/ ~payload.noack \/ ~config.selective_auto_ack
<1>1. payload \in Payloads /\ fifo.exit_point \in TxSlots
  BY DEF Ring, TxSlots
<1>2. payload.pipe \in PIPES /\ payload.data \in Contents /\ payload.pid \in Pids
  BY <1>1 DEF Payloads
<1>3. ack \in BOOLEAN
  OBVIOUS
<1>. HIDE DEF payload, ack
<1>4. /\ last_tx_attempts' = 1
      /\ mp_current_payload' = fifo.exit_point
      /\ tx_payload_buffer' = [data |-> payload.data, pid |-> payload.pid, noack |-> ~ack]
      /\ retransmits_remaining' = Retransmits(ack)
      /\ on_radio_disabled' \in {"tx", "tx_noack"}
      /\ mainstate' \in {"PTX_TX_ACK", "PTX_TX"}
  BY DEF StartTxTransaction, payload, ack
<1>5. Retransmits(ack) \in 0 .. UINT32_MAX
  BY ConfigType, <1>3, UInt32Assumption DEF Retransmits, TypeOK
<1>6. radio' \in Radios
  <2>1. radio' = [radio EXCEPT !.state = "tx", !.inten = TRUE,
                    !.shorts = IF ack THEN "rxen" ELSE "none",
                    !.events_disabled = FALSE,
                    !.txaddress = payload.pipe, !.rxaddresses = {payload.pipe},
                    !.frequency = esb_addr.rf_channel]
    BY DEF StartTxTransaction, payload, ack
  <2>2. esb_addr.rf_channel \in CHANNELS /\ radio \in Radios
    BY DEF TypeOK
  <2>. QED
    BY <2>1, <2>2, <1>2 DEF Radios
<1>. QED
  BY <1>1, <1>2, <1>3, <1>4, <1>5, <1>6, UInt32Assumption DEF Packets, Callbacks, MainStates

\* A message of the interrupt handler adds to the flags and pends ESB_EVT.
LEMMA RaiseEventType ==
  ASSUME TypeOK, NEW flags \in SUBSET Flags, RaiseEvent(flags)
  PROVE  /\ interrupt_flags' \in SUBSET Flags
         /\ swi0' \in [pending : BOOLEAN, enabled : BOOLEAN]
  BY DEF TypeOK, RaiseEvent

\* RADIO with its DISABLED event served, and the state after its END event.
LEMMA RadioTypes ==
  ASSUME TypeOK
  PROVE  /\ Served \in Radios
         /\ AfterEnd \in {"off", "tx", "rx"}
<1>1. Served \in Radios
  BY DEF TypeOK, Served, Radios
<1>2. AfterEnd \in {"off", "tx", "rx"}
  BY DEF AfterEnd, After
<1>. QED
  BY <1>1, <1>2

\* The end of a transmission keeps the type of all it writes.
LEMMA NextTransactionOrIdleType ==
  ASSUME TypeOK, NEW fifo \in Ring(TX_FIFO_SIZE, Payloads), NEW continue \in BOOLEAN,
         NextTransactionOrIdle(fifo, continue)
  PROVE  /\ continue => last_tx_attempts' \in 0 .. UINT32_MAX
         /\ mp_current_payload' \in TxSlots
         /\ tx_payload_buffer' \in Packets
         /\ retransmits_remaining' \in 0 .. UINT32_MAX
         /\ on_radio_disabled' \in Callbacks
         /\ mainstate' \in MainStates
         /\ radio' \in Radios
<1>1. CASE continue
  BY <1>1, StartTxTransactionType DEF NextTransactionOrIdle
<1>2. CASE ~continue
  <2>1. /\ mainstate' = "IDLE" /\ radio' = Served
        /\ UNCHANGED <<on_radio_disabled, retransmits_remaining,
                       mp_current_payload, tx_payload_buffer>>
    BY <1>2 DEF NextTransactionOrIdle
  <2>2. Served \in Radios
    BY RadioTypes
  <2>3. /\ mp_current_payload \in TxSlots /\ tx_payload_buffer \in Packets
        /\ retransmits_remaining \in 0 .. UINT32_MAX
        /\ on_radio_disabled \in Callbacks
    BY DEF TypeOK
  <2>. QED
    BY <2>1, <2>2, <2>3, <1>2 DEF MainStates
<1>. QED
  BY <1>1, <1>2

\* nrf_esb_init and nrf_esb_disable keep the type of all they reset.
LEMMA DisabledType ==
  ASSUME TypeOK, NEW shorts \in {"none", "rxen", "txen"}, NEW enabled \in BOOLEAN,
         Disabled(shorts, enabled)
  PROVE  /\ mainstate' \in MainStates
         /\ tx_fifo' \in Ring(TX_FIFO_SIZE, Payloads)
         /\ rx_fifo' \in Ring(RX_FIFO_SIZE, RxPayloads)
         /\ rx_pipe_info' \in [PIPES -> PipeInfos]
         /\ pids' \in [PIPES -> Pids]
         /\ timer' \in Timers
         /\ swi0' \in [pending : BOOLEAN, enabled : BOOLEAN]
         /\ radio' \in Radios
<1>1. /\ tx_fifo' \in Ring(TX_FIFO_SIZE, Payloads)
      /\ rx_fifo' \in Ring(RX_FIFO_SIZE, RxPayloads)
  BY FlushedCorrect, FifoAssumption DEF TypeOK, Disabled
<1>2. timer' \in Timers /\ swi0' \in [pending : BOOLEAN, enabled : BOOLEAN]
  BY DEF TypeOK, Disabled, Timers
<1>3. radio' \in Radios
  BY DEF TypeOK, Disabled, Radios
<1>. QED
  BY <1>1, <1>2, <1>3, ZeroTypes DEF Disabled, MainStates

\* The end of on_radio_disabled_rx keeps the type of all it writes.
LEMMA RxDeliveredType ==
  ASSUME TypeOK, NEW flags \in SUBSET Flags, RxDelivered(flags)
  PROVE  /\ rx_fifo' \in Ring(RX_FIFO_SIZE, RxPayloads)
         /\ interrupt_flags' \in SUBSET Flags
         /\ swi0' \in [pending : BOOLEAN, enabled : BOOLEAN]
<1>. DEFINE pushed == PushRfbuf(radio.rxmatch, RxPid(rx_payload_buffer))
<1>1. radio.rxmatch \in PIPES
  BY DEF TypeOK, Radios
<1>2. pushed \in Ring(RX_FIFO_SIZE, RxPayloads)
  BY <1>1, RxPidType, PushRfbufType
<1>3. flags \cup {"RX_DATA_RECEIVED"} \in SUBSET Flags
  BY DEF Flags
<1>4. CASE RxRetransmit \/ pushed = rx_fifo
  BY <1>4 DEF RxDelivered, TypeOK
<1>5. CASE ~(RxRetransmit \/ pushed = rx_fifo)
  <2>1. rx_fifo' = pushed /\ RaiseEvent(flags \cup {"RX_DATA_RECEIVED"})
    BY <1>5 DEF RxDelivered
  <2>. QED
    BY <2>1, <1>2, <1>3, RaiseEventType
<1>. QED
  BY <1>4, <1>5

\* What a receiver remembers of a pipe keeps its type.
LEMMA RxPipeInfoType ==
  ASSUME TypeOK, NEW ack_payload \in BOOLEAN
  PROVE  RxPipeInfo(ack_payload) \in [PIPES -> PipeInfos]
<1>1. [crc |-> Crc(rx_payload_buffer), pid |-> RxPid(rx_payload_buffer),
       ack_payload |-> ack_payload] \in PipeInfos
  BY RxPidType DEF PipeInfos
<1>. QED
  BY <1>1 DEF TypeOK, RxPipeInfo

-----------------------------------------------------------------------------
(* The type invariant *)

\* The initial state has the type: static memory is zero.
LEMMA TypeInit == Init => TypeOK
<1>. SUFFICES ASSUME Init PROVE TypeOK
  OBVIOUS
<1>1. /\ tx_fifo \in Ring(TX_FIFO_SIZE, Payloads)
      /\ rx_fifo \in Ring(RX_FIFO_SIZE, RxPayloads)
  BY ZeroRingCorrect, ZeroTypes, FifoAssumption DEF Init
<1>2. /\ esb_addr \in [rf_channel : CHANNELS, addresses : ADDRESSES,
                       rx_pipes_enabled : SUBSET PIPES]
      /\ esb_addr.rf_channel \in CHANNELS
  BY DEF Init
<1>3. radio \in Radios
  BY <1>2, PipeAssumption DEF Init, Radios
<1>4. timer \in Timers /\ swi0 \in [pending : BOOLEAN, enabled : BOOLEAN]
  BY DEF Init, Timers
<1>5. /\ call \in [at : CallPoints, payload : Payloads]
      /\ event \in [tx_attempts : 0 .. UINT32_MAX, ids : SUBSET Flags]
      /\ hist \in Hists
  BY ZeroTypes, UInt32Assumption DEF Init, CallPoints, NoEvent, Hists
<1>6. /\ initialized \in BOOLEAN /\ config \in CONFIGS
      /\ mainstate \in MainStates /\ on_radio_disabled \in Callbacks
      /\ interrupt_flags \in SUBSET Flags
  BY DEF Init, MainStates, Callbacks
<1>7. /\ retransmits_remaining \in 0 .. UINT32_MAX
      /\ last_tx_attempts \in 0 .. UINT32_MAX
  BY UInt32Assumption DEF Init
<1>8. /\ pids \in [PIPES -> Pids] /\ rx_pipe_info \in [PIPES -> PipeInfos]
      /\ mp_current_payload \in TxSlots
      /\ tx_payload_buffer \in Packets /\ rx_payload_buffer \in Packets
  BY ZeroTypes DEF Init
<1>. QED
  BY <1>1, <1>2, <1>3, <1>4, <1>5, <1>6, <1>7, <1>8 DEF TypeOK

\* An API call keeps the type.
LEMMA TypeApplication == TypeOK /\ Application => TypeOK'
<1>. SUFFICES ASSUME TypeOK, Application PROVE TypeOK'
  OBVIOUS
<1>. USE DEF setupVars, stateVars, fifoVars, txVars, evtVars, hwVars
<1>1. CASE EsbInit
  BY <1>1, DisabledType DEF EsbInit, TypeOK, Radios, Hists
<1>2. CASE EsbDisable
  BY <1>2, DisabledType DEF EsbDisable, TypeOK, Hists
<1>3. CASE EsbSuspend
  BY <1>3 DEF EsbSuspend, TypeOK, Timers
<1>4. CASE WritePayload
  <2>1. PICK payload \in WRITTEN : call' = [at |-> "write", payload |-> payload]
    BY <1>4 DEF WritePayload
  <2>2. payload \in Payloads
    BY WrittenAssumption, PidAssumption DEF Payloads, Contents, Pids
  <2>3. call' \in [at : CallPoints, payload : Payloads]
    BY <2>1, <2>2 DEF CallPoints
  <2>. QED
    BY <1>4, <2>3 DEF WritePayload, TypeOK
<1>5. CASE WritePayloadStore
  <2>. DEFINE pid == NextPid(call.payload.pipe)
              payload == [call.payload EXCEPT !.pid = pid]
  <2>1. call.payload \in Payloads /\ call.payload.pipe \in PIPES
    BY DEF TypeOK, Payloads
  <2>2. pid \in Pids
    BY <2>1, NextPidType
  <2>3. payload \in Payloads
    BY <2>1, <2>2 DEF Payloads
  <2>. HIDE DEF pid, payload
  <2>4. /\ pids' = [pids EXCEPT ![call.payload.pipe] = pid]
        /\ tx_fifo' = Pushed(tx_fifo, TX_FIFO_SIZE, payload)
    BY <1>5 DEF WritePayloadStore, pid, payload
  <2>5. tx_fifo' \in Ring(TX_FIFO_SIZE, Payloads)
    BY <2>3, <2>4, PushedType, FifoAssumption DEF TypeOK
  <2>6. pids' \in [PIPES -> Pids]
    BY <2>1, <2>2, <2>4 DEF TypeOK
  <2>7. call' \in [at : CallPoints, payload : Payloads]
    BY <1>5 DEF WritePayloadStore, TypeOK, CallPoints
  <2>8. hist' \in Hists
    BY <1>5 DEF WritePayloadStore, TypeOK, Hists
  <2>. QED
    BY <1>5, <2>5, <2>6, <2>7, <2>8 DEF WritePayloadStore, TypeOK
<1>6. CASE WritePayloadKick
  <2>1. call' \in [at : CallPoints, payload : Payloads]
    BY <1>6, ZeroTypes DEF WritePayloadKick, CallPoints
  <2>2. CASE StartTxTransaction(tx_fifo) /\ hist' = [hist EXCEPT !.air = 0]
    <3>1. tx_fifo \in Ring(TX_FIFO_SIZE, Payloads)
      BY DEF TypeOK
    <3>2. hist' \in Hists
      BY <2>2 DEF TypeOK, Hists
    <3>. QED
      BY <1>6, <2>1, <2>2, <3>1, <3>2, StartTxTransactionType DEF WritePayloadKick, TypeOK
  <2>3. CASE UNCHANGED <<stateVars, txVars, radio, hist>>
    BY <1>6, <2>1, <2>3 DEF WritePayloadKick, TypeOK
  <2>. QED
    BY <1>6, <2>2, <2>3 DEF WritePayloadKick
<1>7. CASE ReadRxPayload
  BY <1>7 DEF ReadRxPayload, TypeOK, CallPoints
<1>8. CASE ReadRxPayloadTake
  BY <1>8, HeadRemovedType, FifoAssumption DEF ReadRxPayloadTake, TypeOK, CallPoints
<1>9. CASE StartTx
  BY <1>9, StartTxTransactionType DEF StartTx, TypeOK, Hists
<1>10. CASE StartRx
  BY <1>10 DEF StartRx, TypeOK, Radios, Callbacks, MainStates
<1>11. CASE StopRx
  BY <1>11 DEF StopRx, TypeOK, CallPoints
<1>12. CASE StopRxShorts
  BY <1>12 DEF StopRxShorts, TypeOK, CallPoints, Radios
<1>13. CASE StopRxNow
  <2>1. PICK shorts \in {"none", "rxen", "txen"} :
          radio' = [radio EXCEPT !.state = After(shorts), !.inten = FALSE,
                                 !.shorts = shorts, !.events_disabled = TRUE]
    BY <1>13 DEF StopRxNow, TypeOK, Radios
  <2>2. After(shorts) \in {"off", "tx", "rx"}
    BY DEF After
  <2>3. radio' \in Radios
    BY <2>1, <2>2 DEF TypeOK, Radios
  <2>4. call' \in [at : CallPoints, payload : Payloads]
    BY <1>13 DEF StopRxNow, TypeOK, CallPoints
  <2>5. on_radio_disabled' \in Callbacks /\ mainstate' \in MainStates
    BY <1>13 DEF StopRxNow, Callbacks, MainStates
  <2>. QED
    BY <1>13, <2>3, <2>4, <2>5 DEF StopRxNow, TypeOK
<1>14. CASE FlushTx
  BY <1>14, FlushedCorrect, FifoAssumption DEF FlushTx, TypeOK
<1>15. CASE PopTx
  BY <1>15 DEF PopTx, TypeOK, CallPoints
<1>16. CASE PopTxNow
  <2>1. RingNext(tx_fifo.entry_point, TX_FIFO_SIZE) \in 0 .. TX_FIFO_SIZE - 1
    BY RingNextType, FifoAssumption DEF TypeOK, Ring
  <2>2. Dec32(tx_fifo.count) \in 0 .. UINT32_MAX
    BY UInt32Assumption DEF TypeOK, Ring, Dec32
  <2>3. tx_fifo' \in Ring(TX_FIFO_SIZE, Payloads)
    BY <1>16, <2>1, <2>2 DEF PopTxNow, TypeOK, Ring
  <2>4. call' \in [at : CallPoints, payload : Payloads]
    BY <1>16 DEF PopTxNow, TypeOK, CallPoints
  <2>. QED
    BY <1>16, <2>3, <2>4 DEF PopTxNow, TypeOK
<1>17. CASE FlushRx
  BY <1>17, FlushedCorrect, FifoAssumption, ZeroTypes DEF FlushRx, TypeOK
<1>18. CASE SetRfChannel
  BY <1>18 DEF SetRfChannel, TypeOK
<1>19. CASE SetAddresses \/ SetPrefixes
  BY <1>19 DEF SetAddresses, SetPrefixes, TypeOK
<1>20. CASE EnablePipes
  BY <1>20 DEF EnablePipes, TypeOK
<1>. QED
  BY <1>1, <1>2, <1>3, <1>4, <1>5, <1>6, <1>7, <1>8, <1>9, <1>10, <1>11, <1>12, <1>13, <1>14, <1>15, <1>16, <1>17, <1>18, <1>19, <1>20 DEF Application

\* The RADIO interrupt keeps the type.
LEMMA TypeRadioIrq == TypeOK /\ RadioIrq => TypeOK'
<1>. SUFFICES ASSUME TypeOK, RadioIrq PROVE TypeOK'
  OBVIOUS
<1>. USE DEF setupVars, stateVars, fifoVars, txVars, evtVars, hwVars
<1>1. CASE OnRadioDisabledTxNoack
  <2>. DEFINE continue == tx_fifo'.count # 0
  <2>1. tx_fifo' \in Ring(TX_FIFO_SIZE, Payloads)
    BY <1>1, RemoveLastType DEF OnRadioDisabledTxNoack
  <2>2. RaiseEvent({"TX_SUCCESS"}) /\ {"TX_SUCCESS"} \in SUBSET Flags
    BY <1>1 DEF OnRadioDisabledTxNoack, Flags
  <2>3. NextTransactionOrIdle(tx_fifo', continue) /\ continue \in BOOLEAN
    BY <1>1 DEF OnRadioDisabledTxNoack
  <2>4. last_tx_attempts' \in 0 .. UINT32_MAX
    <3>1. CASE continue
      BY <3>1, <2>1, <2>3, NextTransactionOrIdleType
    <3>2. CASE ~continue
      BY <1>1, <3>2 DEF OnRadioDisabledTxNoack, TypeOK
    <3>. QED
      BY <3>1, <3>2
  <2>5. hist' \in Hists
    BY <1>1 DEF OnRadioDisabledTxNoack, TypeOK, Hists
  <2>6. /\ mp_current_payload' \in TxSlots /\ tx_payload_buffer' \in Packets
        /\ retransmits_remaining' \in 0 .. UINT32_MAX
        /\ on_radio_disabled' \in Callbacks /\ mainstate' \in MainStates
        /\ radio' \in Radios
    <3>. HIDE DEF continue
    <3>. QED
      BY <2>1, <2>3, NextTransactionOrIdleType
  <2>. QED
    BY <1>1, <2>1, <2>2, <2>4, <2>5, <2>6, RaiseEventType DEF OnRadioDisabledTxNoack, TypeOK
<1>2. CASE OnRadioDisabledTx
  BY <1>2 DEF OnRadioDisabledTx, TypeOK, Served, Radios, Timers, Callbacks, MainStates
<1>3. CASE OnRadioDisabledTxAcked
  <2>. DEFINE more == Continues(tx_fifo')
  <2>1. tx_fifo' \in Ring(TX_FIFO_SIZE, Payloads)
    BY <1>3, RemoveLastType DEF OnRadioDisabledTxAcked
  <2>2. rx_fifo' \in Ring(RX_FIFO_SIZE, RxPayloads)
    <3>1. radio.txaddress \in PIPES /\ 0 \in Pids
      BY PidAssumption DEF TypeOK, Radios, Pids
    <3>. QED
      BY <1>3, <3>1, PushRfbufType DEF OnRadioDisabledTxAcked, TypeOK
  <2>3. interrupt_flags' \in SUBSET Flags /\ swi0' \in [pending : BOOLEAN, enabled : BOOLEAN]
    BY <1>3, RaiseEventType DEF OnRadioDisabledTxAcked, Flags
  <2>4. NextTransactionOrIdle(tx_fifo', more) /\ more \in BOOLEAN
    BY <1>3 DEF OnRadioDisabledTxAcked, Continues
  <2>5. timer' \in Timers
    BY <1>3 DEF OnRadioDisabledTxAcked, TypeOK, Timers
  <2>6. hist' \in Hists
    BY <1>3 DEF OnRadioDisabledTxAcked, TypeOK, Hists
  <2>7. /\ mp_current_payload' \in TxSlots /\ tx_payload_buffer' \in Packets
        /\ retransmits_remaining' \in 0 .. UINT32_MAX
        /\ on_radio_disabled' \in Callbacks /\ mainstate' \in MainStates
        /\ radio' \in Radios
        /\ more => last_tx_attempts' \in 0 .. UINT32_MAX
    <3>. HIDE DEF more
    <3>. QED
      BY <2>1, <2>4, NextTransactionOrIdleType
  <2>8. last_tx_attempts' \in 0 .. UINT32_MAX
    <3>1. (config.retransmit_count - retransmits_remaining + 1) % (UINT32_MAX + 1)
            \in 0 .. UINT32_MAX
      <4>. DEFINE attempts == config.retransmit_count - retransmits_remaining + 1
      <4>1. attempts \in Int
        BY ConfigType, UInt32Assumption DEF TypeOK
      <4>. HIDE DEF attempts
      <4>2. attempts % (UINT32_MAX + 1) \in 0 .. UINT32_MAX
        BY <4>1, UInt32Assumption
      <4>. QED
        BY <4>2 DEF attempts
    <3>2. ~more => last_tx_attempts' \in 0 .. UINT32_MAX
      BY <1>3, <3>1 DEF OnRadioDisabledTxAcked
    <3>. QED
      BY <3>2, <2>7
  <2>. QED
    BY <1>3, <2>1, <2>2, <2>3, <2>5, <2>6, <2>7, <2>8 DEF OnRadioDisabledTxAcked, TypeOK
<1>4. CASE OnRadioDisabledTxFailed
  <2>1. retransmits_remaining' \in 0 .. UINT32_MAX
    BY <1>4, UInt32Assumption DEF OnRadioDisabledTxFailed, SpendRetransmit, Dec32
  <2>2. last_tx_attempts' \in 0 .. UINT32_MAX
    BY <1>4, ConfigType DEF OnRadioDisabledTxFailed
  <2>3. interrupt_flags' \in SUBSET Flags /\ swi0' \in [pending : BOOLEAN, enabled : BOOLEAN]
    BY <1>4, RaiseEventType DEF OnRadioDisabledTxFailed, Flags
  <2>4. timer' \in Timers /\ radio' \in Radios /\ mainstate' \in MainStates
    BY <1>4, RadioTypes DEF OnRadioDisabledTxFailed, TypeOK, Timers, MainStates
  <2>. QED
    BY <1>4, <2>1, <2>2, <2>3, <2>4 DEF OnRadioDisabledTxFailed, TypeOK
<1>5. CASE OnRadioDisabledTxRetry
  <2>1. retransmits_remaining' \in 0 .. UINT32_MAX
    <3>1. retransmits_remaining \in 0 .. UINT32_MAX /\ retransmits_remaining # 0
      BY <1>5 DEF OnRadioDisabledTxRetry, TypeOK
    <3>. QED
      BY <1>5, <3>1, UInt32Assumption DEF OnRadioDisabledTxRetry, SpendRetransmit, Dec32
  <2>2. timer' \in Timers
    BY <1>5 DEF OnRadioDisabledTxRetry, TypeOK, Timers
  <2>3. radio' \in Radios
    <3>1. /\ radio' = [Served EXCEPT !.shorts = "rxen",
                                     !.state = IF timer.compare1 THEN "tx" ELSE @]
          /\ Served \in Radios
      BY <1>5, RadioTypes DEF OnRadioDisabledTxRetry
    <3>. HIDE DEF Served
    <3>. QED
      BY <3>1 DEF Radios
  <2>4. on_radio_disabled' \in Callbacks /\ mainstate' \in MainStates
    BY <1>5 DEF OnRadioDisabledTxRetry, Callbacks, MainStates
  <2>. QED
    BY <1>5, <2>1, <2>2, <2>3, <2>4 DEF OnRadioDisabledTxRetry, TypeOK
<1>6. CASE OnRadioDisabledRxDrop
  BY <1>6 DEF OnRadioDisabledRxDrop, TypeOK, ClearEventsRestartRx, Radios
<1>7. CASE OnRadioDisabledRxNoack
  <2>1. radio.rxmatch \in PIPES /\ radio' \in Radios
    BY <1>7 DEF OnRadioDisabledRxNoack, ClearEventsRestartRx, TypeOK, Radios
  <2>2. rx_pipe_info' \in [PIPES -> PipeInfos]
    <3>1. rx_pipe_info[radio.rxmatch].ack_payload \in BOOLEAN
      BY <2>1 DEF TypeOK, PipeInfos
    <3>. QED
      BY <1>7, <3>1, RxPipeInfoType DEF OnRadioDisabledRxNoack
  <2>. QED
    BY <1>7, <2>1, <2>2, RxDeliveredType DEF OnRadioDisabledRxNoack, TypeOK
<1>8. CASE OnRadioDisabledRxAck
  <2>. DEFINE pipe   == radio.rxmatch
              info   == rx_pipe_info[pipe]
              loaded == /\ config.protocol = "ESB_DPL"
                        /\ tx_fifo.count > 0
                        /\ tx_fifo.p_payload[tx_fifo.exit_point].pipe = pipe
              sent   == loaded /\ info.ack_payload /\ ~RxRetransmit
              fifo   == IF sent THEN HeadRemoved(tx_fifo, TX_FIFO_SIZE) ELSE tx_fifo
              answer == fifo.p_payload[fifo.exit_point]
  <2>1. pipe \in PIPES
    BY DEF TypeOK, Radios
  <2>2. fifo \in Ring(TX_FIFO_SIZE, Payloads)
    BY HeadRemovedType, FifoAssumption DEF TypeOK
  <2>3. fifo.exit_point \in TxSlots /\ answer.data \in Contents
    <3>. HIDE DEF fifo
    <3>. QED
      BY <2>2 DEF Ring, TxSlots, Payloads, answer
  <2>4. info.ack_payload \in BOOLEAN
    BY <2>1 DEF TypeOK, PipeInfos
  <2>. HIDE DEF sent, answer
  <2>5. /\ tx_fifo' = fifo
        /\ rx_pipe_info' = RxPipeInfo(IF config.protocol = "ESB_DPL"
                                      THEN loaded ELSE info.ack_payload)
        /\ mp_current_payload' = IF loaded THEN fifo.exit_point ELSE mp_current_payload
        /\ tx_payload_buffer' =
             [rx_payload_buffer EXCEPT !.data = IF loaded THEN answer.data ELSE NoData]
        /\ RxDelivered(IF sent THEN {"TX_SUCCESS"} ELSE {})
        /\ radio' = [Served EXCEPT !.shorts = "rxen", !.txaddress = pipe]
    BY <1>8 DEF OnRadioDisabledRxAck, sent, answer
  <2>. HIDE DEF loaded, info, pipe, fifo
  <2>6. tx_fifo' \in Ring(TX_FIFO_SIZE, Payloads) /\ mp_current_payload' \in TxSlots
    BY <2>2, <2>3, <2>5 DEF TypeOK
  <2>7. rx_pipe_info' \in [PIPES -> PipeInfos]
    <3>1. (IF config.protocol = "ESB_DPL" THEN loaded ELSE info.ack_payload) \in BOOLEAN
      BY <2>4 DEF loaded
    <3>. QED
      BY <2>5, <3>1, RxPipeInfoType
  <2>8. tx_payload_buffer' \in Packets
    BY <2>3, <2>5, DataAssumption DEF TypeOK, Packets, Contents
  <2>9. /\ rx_fifo' \in Ring(RX_FIFO_SIZE, RxPayloads)
        /\ interrupt_flags' \in SUBSET Flags
        /\ swi0' \in [pending : BOOLEAN, enabled : BOOLEAN]
    <3>1. (IF sent THEN {"TX_SUCCESS"} ELSE {}) \in SUBSET Flags
      BY DEF Flags
    <3>. QED
      BY <2>5, <3>1, RxDeliveredType
  <2>10. radio' \in Radios
    BY <2>1, <2>5, RadioTypes DEF Radios
  <2>11. on_radio_disabled' \in Callbacks /\ mainstate' \in MainStates
    BY <1>8 DEF OnRadioDisabledRxAck, Callbacks, MainStates
  <2>. QED
    BY <1>8, <2>6, <2>7, <2>8, <2>9, <2>10, <2>11 DEF OnRadioDisabledRxAck, TypeOK
<1>9. CASE OnRadioDisabledRxAckSent
  BY <1>9 DEF OnRadioDisabledRxAckSent, TypeOK, Served, Radios, Callbacks, MainStates
<1>. QED
  BY <1>1, <1>2, <1>3, <1>4, <1>5, <1>6, <1>7, <1>8, <1>9 DEF RadioIrq

\* ESB_EVT and the hardware keep the type.
LEMMA TypeEvtIrqHardware == TypeOK /\ (EvtIrq \/ Hardware) => TypeOK'
<1>. SUFFICES ASSUME TypeOK, EvtIrq \/ Hardware PROVE TypeOK'
  OBVIOUS
<1>. USE DEF setupVars, stateVars, fifoVars, txVars, evtVars, hwVars
<1>1. CASE EsbEvtIrq
  BY <1>1 DEF EsbEvtIrq, TypeOK, CallPoints
<1>2. CASE GetClearInterrupts
  <2>1. event' \in [tx_attempts : 0 .. UINT32_MAX, ids : SUBSET Flags]
    <3>1. NoEvent \in [tx_attempts : 0 .. UINT32_MAX, ids : SUBSET Flags]
      BY UInt32Assumption DEF NoEvent
    <3>. QED
      BY <1>2, <3>1 DEF GetClearInterrupts, TypeOK
  <2>2. interrupt_flags' \in SUBSET Flags /\ call' \in [at : CallPoints, payload : Payloads]
    BY <1>2 DEF GetClearInterrupts, TypeOK, CallPoints
  <2>. QED
    BY <1>2, <2>1, <2>2 DEF GetClearInterrupts, TypeOK
<1>3. CASE DeliverEvent
  <2>1. event' \in [tx_attempts : 0 .. UINT32_MAX, ids : SUBSET Flags]
    <3>1. NoEvent \in [tx_attempts : 0 .. UINT32_MAX, ids : SUBSET Flags]
      BY UInt32Assumption DEF NoEvent
    <3>2. PICK id \in event.ids :
            event' = IF event.ids = {id} THEN NoEvent
                     ELSE [event EXCEPT !.ids = @ \ {id}]
      BY <1>3 DEF DeliverEvent
    <3>. QED
      BY <3>1, <3>2 DEF TypeOK
  <2>. QED
    BY <1>3, <2>1 DEF DeliverEvent, TypeOK
<1>4. CASE TxEnd
  <2>1. radio' \in Radios
    <3>1. radio \in Radios /\ AfterEnd \in {"off", "tx", "rx"}
      BY RadioTypes DEF TypeOK
    <3>2. radio' = [radio EXCEPT !.state = AfterEnd, !.events_end = TRUE,
                                 !.events_disabled = TRUE]
      BY <1>4 DEF TxEnd
    <3>. QED
      BY <3>1, <3>2 DEF Radios
  <2>2. hist' \in Hists
    <3>. DEFINE air == IF mainstate \in Transmitting THEN hist.air + 1 ELSE hist.air
                offered == IF tx_payload_buffer.data # NoData
                           THEN hist.offered \cup {mp_current_payload} ELSE hist.offered
    <3>1. air \in Nat /\ offered \in SUBSET TxSlots
      BY DEF TypeOK, Hists
    <3>2. hist' = [air |-> air, offered |-> offered]
      BY <1>4 DEF TxEnd, TypeOK, Hists
    <3>. HIDE DEF air, offered
    <3>. QED
      BY <3>1, <3>2 DEF Hists
  <2>. QED
    BY <1>4, <2>1, <2>2 DEF TxEnd, TypeOK
<1>5. CASE Receive
  <2>1. PICK packet \in HEARD, pipe \in PIPES, crcok \in BOOLEAN :
          RxEnd(packet, pipe, crcok)
    BY <1>5 DEF Receive
  <2>2. radio' \in Radios
    <3>1. radio \in Radios /\ AfterEnd \in {"off", "tx", "rx"}
      BY RadioTypes DEF TypeOK
    <3>2. radio' = [radio EXCEPT !.state = AfterEnd, !.events_end = TRUE,
                      !.events_disabled = TRUE, !.crcstatus = crcok,
                      !.rxmatch = pipe]
      BY <2>1 DEF RxEnd
    <3>. QED
      BY <3>1, <3>2 DEF Radios
  <2>3. rx_payload_buffer' \in Packets /\ timer' \in Timers
    BY <2>1, HeardAssumption DEF RxEnd, TypeOK, Timers
  <2>. QED
    BY <2>1, <2>2, <2>3 DEF RxEnd, TypeOK
<1>6. CASE RxTimeout
  <2>1. radio' \in Radios
    <3>1. radio \in Radios /\ AfterEnd \in {"off", "tx", "rx"}
      BY RadioTypes DEF TypeOK
    <3>2. radio' = [radio EXCEPT !.state = AfterEnd, !.events_disabled = TRUE]
      BY <1>6 DEF RxTimeout
    <3>. QED
      BY <3>1, <3>2 DEF Radios
  <2>. QED
    BY <1>6, <2>1 DEF RxTimeout, TypeOK
<1>7. CASE TimerCompare1
  <2>1. radio' \in Radios /\ timer' \in Timers
    BY <1>7 DEF TimerCompare1, TypeOK, Radios, Timers
  <2>. QED
    BY <1>7, <2>1 DEF TimerCompare1, TypeOK
<1>. QED
  BY <1>1, <1>2, <1>3, <1>4, <1>5, <1>6, <1>7 DEF EvtIrq, Hardware

\* Every step keeps the type.
LEMMA TypeStep == TypeOK /\ [Next]_vars => TypeOK'
<1>1. TypeOK /\ UNCHANGED vars => TypeOK'
  BY DEF TypeOK, vars, setupVars, stateVars, fifoVars, txVars, evtVars, hwVars
<1>. QED
  BY <1>1, TypeApplication, TypeRadioIrq, TypeEvtIrqHardware DEF Next

\* Every variable of the driver and of the hardware keeps its type, whatever the
\* application calls and whenever the interrupts and the radio take their steps.
THEOREM TypeCorrect == Spec => []TypeOK
<1>. QED
  BY TypeInit, TypeStep, PTL DEF Spec

-----------------------------------------------------------------------------
(* The rings stay queues and no event is lost.  nrf_esb_pop_tx moves the    *)
(* entry of the TX FIFO forward and its count back, so that they disagree:  *)
(* the theorems are about applications that do not call it.                *)

\* The inductive invariant.
RingsInv == TypeOK /\ RingsConsistent /\ EventsNotLost /\ call.at # "pop"

\* rx_fifo_push_rfbuf leaves a consistent ring, that changes if there is room.
LEMMA PushRfbufConsistent ==
  ASSUME RingsInv, NEW pipe \in PIPES, NEW pid \in Pids
  PROVE  LET pushed == PushRfbuf(pipe, pid)
         IN /\ Consistent(pushed, RX_FIFO_SIZE)
            /\ rx_fifo.count # 0 => pushed.count # 0
            /\ rx_fifo.count < RX_FIFO_SIZE => pushed # rx_fifo
<1>. DEFINE data == IF config.protocol = "ESB" /\ config.mode = "PTX"
                    THEN NoData ELSE rx_payload_buffer.data
            payload == [pipe |-> pipe, data |-> data, pid |-> pid]
<1>1. payload \in RxPayloads
  BY DataAssumption DEF RingsInv, TypeOK, Packets, Contents, RxPayloads
<1>2. /\ rx_fifo \in Ring(RX_FIFO_SIZE, RxPayloads)
      /\ Consistent(rx_fifo, RX_FIFO_SIZE)
      /\ rx_fifo.count \in Nat
  BY DEF RingsInv, TypeOK, RingsConsistent, Ring
<1>3. CASE rx_fifo.count < RX_FIFO_SIZE
  <2>1. PushRfbuf(pipe, pid) = Pushed(rx_fifo, RX_FIFO_SIZE, payload)
    BY <1>3 DEF PushRfbuf
  <2>. HIDE DEF payload
  <2>2. /\ Consistent(Pushed(rx_fifo, RX_FIFO_SIZE, payload), RX_FIFO_SIZE)
        /\ Pushed(rx_fifo, RX_FIFO_SIZE, payload).count = rx_fifo.count + 1
    BY <1>1, <1>2, <1>3, PushedConsistent, FifoAssumption
  <2>. QED
    BY <2>1, <2>2, <1>2
<1>4. CASE ~(rx_fifo.count < RX_FIFO_SIZE)
  BY <1>2, <1>4 DEF PushRfbuf
<1>. QED
  BY <1>3, <1>4

\* tx_fifo_remove_last leaves a consistent ring, with no more payloads.
LEMMA RemoveLastConsistent ==
  ASSUME RingsInv
  PROVE  /\ Consistent(RemoveLast(tx_fifo), TX_FIFO_SIZE)
         /\ RemoveLast(tx_fifo).count <= tx_fifo.count
<1>1. /\ tx_fifo \in Ring(TX_FIFO_SIZE, Payloads)
      /\ Consistent(tx_fifo, TX_FIFO_SIZE)
      /\ tx_fifo.count \in Nat
  BY DEF RingsInv, TypeOK, RingsConsistent, Ring
<1>2. CASE tx_fifo.count > 0
  BY <1>1, <1>2, HeadRemovedConsistent, FifoAssumption DEF RemoveLast
<1>3. CASE ~(tx_fifo.count > 0)
  BY <1>1, <1>3 DEF RemoveLast
<1>. QED
  BY <1>2, <1>3

\* Emptied rings are consistent.
LEMMA FlushedFifos ==
  ASSUME RingsInv
  PROVE  /\ Consistent(Flushed(tx_fifo), TX_FIFO_SIZE)
         /\ Consistent(Flushed(rx_fifo), RX_FIFO_SIZE)
  BY FlushedCorrect, FifoAssumption DEF RingsInv, TypeOK

\* An API call keeps the rings consistent and the flags announced.
LEMMA RingsApplication ==
  ASSUME "pop_tx" \notin API, RingsInv, Application
  PROVE  RingsConsistent' /\ EventsNotLost' /\ call'.at # "pop"
<1>. USE DEF RingsInv, setupVars, stateVars, fifoVars, txVars, evtVars, hwVars
<1>1. CASE EsbInit
  BY <1>1, FlushedFifos DEF EsbInit, May, Disabled, RingsConsistent, EventsNotLost
<1>2. CASE EsbDisable
  BY <1>2, FlushedFifos DEF EsbDisable, May, Disabled, TypeOK, RingsConsistent, EventsNotLost
<1>3. CASE EsbSuspend
  BY <1>3 DEF EsbSuspend, May, RingsConsistent, EventsNotLost
<1>4. CASE WritePayload
  BY <1>4 DEF WritePayload, May, RingsConsistent, EventsNotLost
<1>5. CASE WritePayloadStore
  <2>. DEFINE payload == [call.payload EXCEPT !.pid = NextPid(call.payload.pipe)]
  <2>1. payload \in Payloads
    <3>1. call.payload \in Payloads /\ call.payload.pipe \in PIPES
      BY DEF TypeOK, Payloads
    <3>. QED
      BY <3>1, NextPidType DEF Payloads
  <2>2. /\ call.at = "write"
        /\ tx_fifo' = Pushed(tx_fifo, TX_FIFO_SIZE, payload)
        /\ call' = [call EXCEPT !.at = "kick"]
        /\ UNCHANGED <<rx_fifo, evtVars>>
    BY <1>5 DEF WritePayloadStore
  <2>. HIDE DEF payload
  <2>3. Consistent(tx_fifo', TX_FIFO_SIZE)
    BY <2>1, <2>2, PushedConsistent, FifoAssumption DEF RingsConsistent, TypeOK
  <2>. QED
    BY <2>2, <2>3 DEF RingsConsistent, EventsNotLost, TypeOK
<1>6. CASE WritePayloadKick
  BY <1>6 DEF WritePayloadKick, RingsConsistent, EventsNotLost
<1>7. CASE ReadRxPayload
  BY <1>7 DEF ReadRxPayload, May, TypeOK, RingsConsistent, EventsNotLost
<1>8. CASE ReadRxPayloadTake
  <2>1. Consistent(rx_fifo', RX_FIFO_SIZE)
    BY <1>8, HeadRemovedConsistent, FifoAssumption
    DEF ReadRxPayloadTake, RingsConsistent, TypeOK
  <2>. QED
    BY <1>8, <2>1 DEF ReadRxPayloadTake, RingsConsistent, EventsNotLost, TypeOK
<1>9. CASE StartTx
  BY <1>9 DEF StartTx, May, RingsConsistent, EventsNotLost
<1>10. CASE StartRx
  BY <1>10 DEF StartRx, May, RingsConsistent, EventsNotLost
<1>11. CASE StopRx
  BY <1>11 DEF StopRx, May, TypeOK, RingsConsistent, EventsNotLost
<1>12. CASE StopRxShorts
  BY <1>12 DEF StopRxShorts, TypeOK, RingsConsistent, EventsNotLost
<1>13. CASE StopRxNow
  BY <1>13 DEF StopRxNow, TypeOK, RingsConsistent, EventsNotLost
<1>14. CASE FlushTx
  BY <1>14, FlushedFifos DEF FlushTx, May, RingsConsistent, EventsNotLost
<1>15. CASE PopTx
  BY <1>15 DEF PopTx, May
<1>16. CASE PopTxNow
  BY <1>16 DEF PopTxNow
<1>17. CASE FlushRx
  BY <1>17, FlushedFifos DEF FlushRx, May, RingsConsistent, EventsNotLost
<1>18. CASE SetRfChannel
  BY <1>18 DEF SetRfChannel, RingsConsistent, EventsNotLost
<1>19. CASE SetAddresses \/ SetPrefixes
  BY <1>19 DEF SetAddresses, SetPrefixes, RingsConsistent, EventsNotLost
<1>20. CASE EnablePipes
  BY <1>20 DEF EnablePipes, RingsConsistent, EventsNotLost
<1>. QED
  BY <1>1, <1>2, <1>3, <1>4, <1>5, <1>6, <1>7, <1>8, <1>9, <1>10, <1>11, <1>12, <1>13, <1>14, <1>15, <1>16, <1>17, <1>18, <1>19, <1>20 DEF Application

\* The RADIO interrupt keeps the rings consistent and announces what it raises.
LEMMA RingsRadioIrq ==
  ASSUME RingsInv, RadioIrq
  PROVE  RingsConsistent' /\ EventsNotLost' /\ call'.at # "pop"
<1>. USE DEF RingsInv, setupVars, stateVars, fifoVars, txVars, evtVars, hwVars
<1>1. tx_fifo.count \in Nat /\ rx_fifo.count \in Nat /\ radio.rxmatch \in PIPES
  BY DEF TypeOK, Ring, Radios
<1>2. CASE OnRadioDisabledTxNoack
  <2>1. Consistent(tx_fifo', TX_FIFO_SIZE) /\ tx_fifo'.count <= tx_fifo.count
    BY <1>2, RemoveLastConsistent DEF OnRadioDisabledTxNoack
  <2>2. tx_fifo'.count \in Nat
    BY <1>2, RemoveLastType DEF OnRadioDisabledTxNoack, Ring
  <2>3. swi0'.pending
    BY <1>2 DEF OnRadioDisabledTxNoack, RaiseEvent, TypeOK
  <2>. QED
    BY <1>1, <1>2, <2>1, <2>2, <2>3, FifoAssumption
    DEF OnRadioDisabledTxNoack, RingsConsistent, EventsNotLost
<1>3. CASE OnRadioDisabledTx
  BY <1>3 DEF OnRadioDisabledTx, RingsConsistent, EventsNotLost
<1>4. CASE OnRadioDisabledTxAcked
  <2>1. Consistent(tx_fifo', TX_FIFO_SIZE) /\ tx_fifo'.count <= tx_fifo.count
    BY <1>4, RemoveLastConsistent DEF OnRadioDisabledTxAcked
  <2>2. tx_fifo'.count \in Nat
    BY <1>4, RemoveLastType DEF OnRadioDisabledTxAcked, Ring
  <2>3. Consistent(rx_fifo', RX_FIFO_SIZE) /\ (rx_fifo.count # 0 => rx_fifo'.count # 0)
    <3>1. radio.txaddress \in PIPES /\ 0 \in Pids
      BY PidAssumption DEF TypeOK, Radios, Pids
    <3>2. /\ Consistent(PushRfbuf(radio.txaddress, 0), RX_FIFO_SIZE)
          /\ rx_fifo.count # 0 => PushRfbuf(radio.txaddress, 0).count # 0
      BY <3>1, PushRfbufConsistent
    <3>3. rx_fifo' = PushRfbuf(radio.txaddress, 0) \/ rx_fifo' = rx_fifo
      BY <1>4 DEF OnRadioDisabledTxAcked
    <3>. QED
      BY <3>2, <3>3 DEF RingsConsistent
  <2>4. swi0'.pending
    BY <1>4 DEF OnRadioDisabledTxAcked, RaiseEvent, TypeOK
  <2>. QED
    BY <1>1, <1>4, <2>1, <2>2, <2>3, <2>4, FifoAssumption
    DEF OnRadioDisabledTxAcked, RingsConsistent, EventsNotLost
<1>5. CASE OnRadioDisabledTxFailed
  BY <1>5 DEF OnRadioDisabledTxFailed, RaiseEvent, RingsConsistent, EventsNotLost, TypeOK
<1>6. CASE OnRadioDisabledTxRetry
  BY <1>6 DEF OnRadioDisabledTxRetry, RingsConsistent, EventsNotLost
<1>7. CASE OnRadioDisabledRxDrop
  BY <1>7 DEF OnRadioDisabledRxDrop, RingsConsistent, EventsNotLost
<1>8. ASSUME NEW flags, ~RxDropped, RxDelivered(flags), RxRetransmit => flags = {}
      PROVE  /\ Consistent(rx_fifo', RX_FIFO_SIZE)
             /\ rx_fifo.count # 0 => rx_fifo'.count # 0
             /\ \/ interrupt_flags' = interrupt_flags /\ swi0' = swi0
                \/ swi0'.pending
  <2>. DEFINE pushed == PushRfbuf(radio.rxmatch, RxPid(rx_payload_buffer))
  <2>1. /\ Consistent(pushed, RX_FIFO_SIZE)
        /\ rx_fifo.count # 0 => pushed.count # 0
        /\ pushed # rx_fifo
    BY <1>1, <1>8, RxPidType, PushRfbufConsistent, FifoAssumption DEF RxDropped
  <2>. HIDE DEF pushed
  <2>2. CASE RxRetransmit
    BY <1>8, <2>2 DEF RxDelivered, RingsConsistent
  <2>3. CASE ~RxRetransmit
    <3>1. rx_fifo' = pushed /\ RaiseEvent(flags \cup {"RX_DATA_RECEIVED"})
      BY <1>8, <2>1, <2>3 DEF RxDelivered, pushed
    <3>. QED
      BY <3>1, <2>1 DEF RaiseEvent, TypeOK
  <2>. QED
    BY <2>2, <2>3
<1>9. CASE OnRadioDisabledRxNoack
  <2>1. ~RxDropped /\ RxDelivered({})
    BY <1>9 DEF OnRadioDisabledRxNoack
  <2>2. /\ Consistent(rx_fifo', RX_FIFO_SIZE)
        /\ rx_fifo.count # 0 => rx_fifo'.count # 0
        /\ \/ interrupt_flags' = interrupt_flags /\ swi0' = swi0
           \/ swi0'.pending
    BY <1>8, <2>1
  <2>. QED
    BY <1>9, <2>2 DEF OnRadioDisabledRxNoack, RingsConsistent, EventsNotLost
<1>10. CASE OnRadioDisabledRxAck
  <2>1. PICK flags : /\ ~RxDropped /\ RxDelivered(flags)
                     /\ RxRetransmit => flags = {}
    BY <1>10 DEF OnRadioDisabledRxAck
  <2>2. /\ Consistent(rx_fifo', RX_FIFO_SIZE)
        /\ rx_fifo.count # 0 => rx_fifo'.count # 0
        /\ \/ interrupt_flags' = interrupt_flags /\ swi0' = swi0
           \/ swi0'.pending
    BY <1>8, <2>1
  <2>3. tx_fifo' = tx_fifo \/ (tx_fifo.count > 0 /\ tx_fifo' = HeadRemoved(tx_fifo, TX_FIFO_SIZE))
    BY <1>10 DEF OnRadioDisabledRxAck
  <2>4. Consistent(tx_fifo', TX_FIFO_SIZE)
        /\ (tx_fifo.count < TX_FIFO_SIZE => tx_fifo'.count < TX_FIFO_SIZE)
    <3>1. CASE tx_fifo' = tx_fifo
      BY <3>1 DEF RingsConsistent
    <3>2. CASE tx_fifo.count > 0 /\ tx_fifo' = HeadRemoved(tx_fifo, TX_FIFO_SIZE)
      BY <1>1, <3>2, HeadRemovedConsistent, FifoAssumption DEF RingsConsistent, TypeOK
    <3>. QED
      BY <2>3, <3>1, <3>2
  <2>. QED
    BY <1>10, <2>2, <2>4 DEF OnRadioDisabledRxAck, RingsConsistent, EventsNotLost
<1>11. CASE OnRadioDisabledRxAckSent
  BY <1>11 DEF OnRadioDisabledRxAckSent, RingsConsistent, EventsNotLost
<1>. QED
  BY <1>2, <1>3, <1>4, <1>5, <1>6, <1>7, <1>9, <1>10, <1>11 DEF RadioIrq

\* ESB_EVT fetches every flag it clears; the hardware touches neither.
LEMMA RingsEvtIrqHardware ==
  ASSUME RingsInv, EvtIrq \/ Hardware
  PROVE  RingsConsistent' /\ EventsNotLost' /\ call'.at # "pop"
<1>. USE DEF RingsInv, RingsConsistent, EventsNotLost,
         setupVars, stateVars, fifoVars, txVars, evtVars, hwVars
<1>1. CASE EsbEvtIrq
  BY <1>1 DEF EsbEvtIrq, TypeOK
<1>2. CASE GetClearInterrupts
  BY <1>2 DEF GetClearInterrupts, TypeOK
<1>3. CASE DeliverEvent
  BY <1>3 DEF DeliverEvent
<1>4. CASE TxEnd
  BY <1>4 DEF TxEnd
<1>5. CASE Receive
  BY <1>5 DEF Receive, RxEnd
<1>6. CASE RxTimeout
  BY <1>6 DEF RxTimeout
<1>7. CASE TimerCompare1
  BY <1>7 DEF TimerCompare1
<1>. QED
  BY <1>1, <1>2, <1>3, <1>4, <1>5, <1>6, <1>7 DEF EvtIrq, Hardware

\* RingsInv holds initially and is kept by every step.
LEMMA RingsInvInit == Init => RingsInv
<1>1. Init => RingsConsistent
  <2>1. /\ Consistent(ZeroRing(TX_FIFO_SIZE, ZeroPayload), TX_FIFO_SIZE)
        /\ Consistent(ZeroRing(RX_FIFO_SIZE, ZeroRxPayload), RX_FIFO_SIZE)
    BY ZeroRingCorrect, FifoAssumption
  <2>. QED
    BY <2>1 DEF Init, RingsConsistent
<1>2. Init => EventsNotLost /\ call.at # "pop"
  BY DEF Init, EventsNotLost
<1>. QED
  BY <1>1, <1>2, TypeInit DEF RingsInv

LEMMA RingsInvStep ==
  ASSUME "pop_tx" \notin API, RingsInv, [Next]_vars
  PROVE  RingsInv'
<1>1. TypeOK'
  BY TypeStep DEF RingsInv
<1>2. RingsConsistent' /\ EventsNotLost' /\ call'.at # "pop"
  <2>1. CASE UNCHANGED vars
    BY <2>1 DEF RingsInv, RingsConsistent, EventsNotLost, vars, fifoVars, evtVars
  <2>. QED
    BY <2>1, RingsApplication, RingsRadioIrq, RingsEvtIrqHardware DEF Next
<1>. QED
  BY <1>1, <1>2 DEF RingsInv

\* RingsInv is an invariant of the specification.
LEMMA RingsInvCorrect ==
  ASSUME "pop_tx" \notin API
  PROVE  Spec => []RingsInv
<1>1. RingsInv /\ [Next]_vars => RingsInv'
  BY RingsInvStep
<1>. QED
  BY <1>1, RingsInvInit, PTL DEF Spec

\* The rings stay queues under every interleaving of the API with the RADIO
\* interrupt, for FIFOs of every size: none overflows or underflows.
THEOREM RingsCorrect ==
  ASSUME "pop_tx" \notin API
  PROVE  Spec => []RingsConsistent
<1>1. RingsInv => RingsConsistent
  BY DEF RingsInv
<1>. QED
  BY <1>1, RingsInvCorrect, PTL

\* No flag the RADIO interrupt raises is left without ESB_EVT to report it.
THEOREM EventsAnnounced ==
  ASSUME "pop_tx" \notin API
  PROVE  Spec => []EventsNotLost
<1>1. RingsInv => EventsNotLost
  BY DEF RingsInv
<1>. QED
  BY <1>1, RingsInvCorrect, PTL

-----------------------------------------------------------------------------
(* A packet is acknowledged only when it is stored. *)

\* on_radio_disabled_rx is the only step from PRX to PRX_SEND_ACK.
LEMMA OnlyRxAckAcknowledges ==
  ASSUME TypeOK, [Next]_vars, mainstate = "PRX", mainstate' = "PRX_SEND_ACK"
  PROVE  OnRadioDisabledRxAck
<1>. USE DEF setupVars, stateVars, fifoVars, txVars, evtVars, hwVars
<1>1. CASE UNCHANGED vars
  BY <1>1 DEF vars
<1>2. CASE Application
  BY <1>2 DEF Application, EsbInit, EsbDisable, EsbSuspend, WritePayload,
     WritePayloadStore, WritePayloadKick, ReadRxPayload, ReadRxPayloadTake, StartTx,
     StartRx, StopRx, StopRxShorts, StopRxNow, FlushTx, PopTx, PopTxNow, FlushRx, SetRfChannel,
     SetAddresses, SetPrefixes, EnablePipes, Disabled, StartTxTransaction, Idle
<1>3. CASE RadioIrq
  BY <1>3 DEF RadioIrq, OnRadioDisabledTxNoack, OnRadioDisabledTx,
     OnRadioDisabledTxAcked, OnRadioDisabledTxFailed, OnRadioDisabledTxRetry,
     OnRadioDisabledRxDrop, OnRadioDisabledRxNoack, OnRadioDisabledRxAckSent,
     NextTransactionOrIdle, StartTxTransaction
<1>4. CASE EvtIrq \/ Hardware
  BY <1>4 DEF EvtIrq, Hardware, EsbEvtIrq, GetClearInterrupts, DeliverEvent, TxEnd,
     Receive, RxEnd, RxTimeout, TimerCompare1
<1>. QED
  BY <1>1, <1>2, <1>3, <1>4 DEF Next

\* When the driver starts to acknowledge a packet it has not seen, the packet is at
\* the end of the RX FIFO and its event is announced, for every size of the FIFO.
\* A legacy PTX that listens stores no data, so it is left out.
THEOREM AckedStored ==
  ASSUME "pop_tx" \notin API,
         \A c \in CONFIGS : ~(c.protocol = "ESB" /\ c.mode = "PTX")
  PROVE  Spec => AckedIsStored
<1>. DEFINE received == [pipe |-> radio.rxmatch, data |-> rx_payload_buffer.data,
                         pid |-> RxPid(rx_payload_buffer)]
            stored == Queue(rx_fifo', RX_FIFO_SIZE)
                        = Append(Queue(rx_fifo, RX_FIFO_SIZE), received)
            told == "RX_DATA_RECEIVED" \in interrupt_flags' /\ swi0'.pending
<1>1. ASSUME RingsInv, [Next]_vars, mainstate = "PRX", mainstate' = "PRX_SEND_ACK",
             ~RxRetransmit
      PROVE  stored /\ told
  <2>1. OnRadioDisabledRxAck
    BY <1>1, OnlyRxAckAcknowledges DEF RingsInv
  <2>2. /\ rx_fifo \in Ring(RX_FIFO_SIZE, RxPayloads)
        /\ Consistent(rx_fifo, RX_FIFO_SIZE)
        /\ rx_fifo.count \in Nat
    BY <1>1 DEF RingsInv, RingsConsistent, TypeOK, Ring
  <2>3. rx_fifo.count < RX_FIFO_SIZE
    BY <2>1, <2>2, FifoAssumption DEF OnRadioDisabledRxAck, RxDropped
  <2>4. received \in RxPayloads
    <3>1. radio.rxmatch \in PIPES /\ rx_payload_buffer.data \in Contents
      <4>1. radio \in Radios /\ rx_payload_buffer \in Packets
        BY <1>1 DEF RingsInv, TypeOK
      <4>2. radio.rxmatch \in PIPES
        BY <4>1 DEF Radios
      <4>3. rx_payload_buffer.data \in Contents
        BY <4>1 DEF Packets
      <4>. QED
        BY <4>2, <4>3
    <3>2. RxPid(rx_payload_buffer) \in Pids
      BY <1>1, RxPidType DEF RingsInv
    <3>. QED
      BY <3>1, <3>2 DEF RxPayloads
  <2>5. PushRfbuf(radio.rxmatch, RxPid(rx_payload_buffer))
          = Pushed(rx_fifo, RX_FIFO_SIZE, received)
    BY <1>1, <2>3 DEF PushRfbuf, RingsInv, TypeOK
  <2>. HIDE DEF received
  <2>6. /\ Pushed(rx_fifo, RX_FIFO_SIZE, received).count = rx_fifo.count + 1
        /\ Queue(Pushed(rx_fifo, RX_FIFO_SIZE, received), RX_FIFO_SIZE)
             = Append(Queue(rx_fifo, RX_FIFO_SIZE), received)
    BY <2>2, <2>3, <2>4, PushedConsistent, PushedQueue, FifoAssumption
  <2>7. PICK flags : /\ rx_fifo' = Pushed(rx_fifo, RX_FIFO_SIZE, received)
                     /\ RaiseEvent(flags \cup {"RX_DATA_RECEIVED"})
    <3>1. PICK flags : RxDelivered(flags)
      BY <2>1 DEF OnRadioDisabledRxAck
    <3>2. Pushed(rx_fifo, RX_FIFO_SIZE, received) # rx_fifo
      BY <2>2, <2>6
    <3>. QED
      BY <1>1, <2>5, <3>1, <3>2 DEF RxDelivered
  <2>8. told
    BY <1>1, <2>7 DEF RaiseEvent, RingsInv, TypeOK
  <2>. QED
    BY <2>6, <2>7, <2>8
<1>. QED
  <2>. HIDE DEF stored, told
  <2>1. RingsInv /\ [Next]_vars =>
          [mainstate = "PRX" /\ mainstate' = "PRX_SEND_ACK" /\ ~RxRetransmit
             => stored /\ told]_vars
    BY <1>1
  <2>. QED
    BY <2>1, RingsInvCorrect, PTL DEF Spec, AckedIsStored, stored, told, received
=============================================================================
