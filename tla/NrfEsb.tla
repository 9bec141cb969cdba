------------------------------- MODULE NrfEsb -------------------------------
(***************************************************************************)
(* One node's Enhanced ShockBurst driver, src/components/proprietary_rf/   *)
(* esb/nrf_esb.c, with the hardware it drives: RADIO, the system timer and *)
(* the PPI channels that connect them, and the software interrupt ESB_EVT. *)
(*                                                                         *)
(* Three actors interleave.  The application calls the API; a call is cut  *)
(* where the code lets the RADIO interrupt in, that is between a check made *)
(* with the interrupt enabled and the section that DISABLE_RF_IRQ protects. *)
(* The hardware raises the DISABLED event; the RADIO interrupt handler runs *)
(* the function on_radio_disabled points to.  ESB_EVT_IRQHandler turns the *)
(* interrupt flags into events for the application.                        *)
(*                                                                         *)
(* The module is one node and what it can hear: a packet is any packet.    *)
(* Abstractions: a packet's CRC stands for its content, so two packets with *)
(* different data or packet id have different CRCs; a payload is a member  *)
(* of DATA, whose length is valid and not 0; the radio does not finish its *)
(* next ramp-up before the pending DISABLED interrupt is served.           *)
(***************************************************************************)
EXTENDS EsbRing, FiniteSets

CONSTANTS
  TX_FIFO_SIZE,    \* NRF_ESB_TX_FIFO_SIZE
  RX_FIFO_SIZE,    \* NRF_ESB_RX_FIFO_SIZE
  PID_MAX,         \* NRF_ESB_PID_MAX
  PIPES,           \* pipes in use, numbered from 0
  DATA,            \* payload contents
  NoData,          \* the content of a payload of length 0
  ZERO_CRC,        \* the content whose packet with pid 0 has CRC 0
  CHANNELS,        \* radio channels
  ADDRESSES,       \* settings of base addresses and prefixes
  CONFIGS,         \* configurations the application passes to nrf_esb_init
  WRITTEN,         \* payloads the application writes, before they have a pid
  HEARD,           \* packets that may reach this node
  API              \* API functions the application calls

\* Function names of nrf_esb.h.  Three more members say how they are used:
\* "reinit": nrf_esb_init is called again; "abort": the node is disabled or
\* initialised again when it is not idle, or its TX FIFO is emptied in the
\* middle of a transmission; "preempted": a caller of nrf_esb_write_payload may
\* be interrupted for as long as a packet takes, and the RADIO interrupt may come
\* between the first two statements of nrf_esb_stop_rx.
ApiNames == {"init", "reinit", "disable", "suspend", "write_payload",
             "read_rx_payload", "start_tx", "start_rx", "stop_rx", "flush_tx",
             "pop_tx", "flush_rx", "set_rf_channel", "set_addresses",
             "set_prefixes", "enable_pipes", "abort", "preempted"}

Configs == [protocol : {"ESB", "ESB_DPL"},
            mode : {"PTX", "PRX"},
            tx_mode : {"AUTO", "MANUAL", "MANUAL_START"},
            selective_auto_ack : BOOLEAN,
            retransmit_count : 0 .. UINT32_MAX - 1,
            retransmit_delay : Nat,
            bitrate : {"2MBPS", "1MBPS", "250KBPS", "1MBPS_BLE"}]

ASSUME FifoAssumption ==
  /\ TX_FIFO_SIZE \in Nat \ {0} /\ TX_FIFO_SIZE < UINT32_MAX
  /\ RX_FIFO_SIZE \in Nat \ {0} /\ RX_FIFO_SIZE < UINT32_MAX
ASSUME PidAssumption  == PID_MAX \in Nat
ASSUME PipeAssumption == PIPES \subseteq Nat /\ 0 \in PIPES
ASSUME DataAssumption == NoData \notin DATA /\ ZERO_CRC \in DATA \cup {NoData}
ASSUME ConfigAssumption == CONFIGS \subseteq Configs
ASSUME ApiAssumption  == API \subseteq ApiNames

VARIABLES
  initialized,            \* m_esb_initialized
  config,                 \* m_config_local
  mainstate,              \* m_nrf_esb_mainstate
  on_radio_disabled,      \* the function pointer, by the name of its target
  tx_fifo, rx_fifo,       \* m_tx_fifo, m_rx_fifo
  pids,                   \* m_pids
  rx_pipe_info,           \* m_rx_pipe_info
  interrupt_flags,        \* m_interrupt_flags, as a set
  retransmits_remaining,  \* m_retransmits_remaining
  last_tx_attempts,       \* m_last_tx_attempts
  mp_current_payload,     \* slot of the TX FIFO mp_current_payload points to
  tx_payload_buffer,      \* m_tx_payload_buffer
  rx_payload_buffer,      \* m_rx_payload_buffer
  esb_addr,               \* m_esb_addr
  radio,                  \* RADIO: what it does and the registers that matter
  timer,                  \* NRF_ESB_SYS_TIMER and the PPI channels
  swi0,                   \* ESB_EVT_IRQ at the interrupt controller
  call,                   \* the API call in progress and its argument
  event,                  \* ESB_EVT_IRQHandler: attempts read, events left
  hist                    \* history variable, see History below

fifoVars  == <<tx_fifo, rx_fifo, pids, rx_pipe_info>>
txVars    == <<retransmits_remaining, last_tx_attempts, mp_current_payload,
               tx_payload_buffer>>
stateVars == <<mainstate, on_radio_disabled>>
setupVars == <<initialized, config, esb_addr>>
evtVars   == <<interrupt_flags, swi0, event>>
hwVars    == <<radio, timer, rx_payload_buffer>>
vars == <<setupVars, stateVars, fifoVars, txVars, evtVars, hwVars, call, hist>>

-----------------------------------------------------------------------------
(* Payloads and packets *)

Pids     == 0 .. PID_MAX
TxSlots  == 0 .. TX_FIFO_SIZE - 1
Contents == DATA \cup {NoData}

Payloads   == [pipe : PIPES, noack : BOOLEAN, data : Contents, pid : Pids]
RxPayloads == [pipe : PIPES, data : Contents, pid : Pids]
Packets    == [data : Contents, pid : Pids, noack : BOOLEAN]

\* Static memory is zero: pipe 0, length 0, packet id 0.
ZeroPayload   == [pipe |-> 0, noack |-> FALSE, data |-> NoData, pid |-> 0]
ZeroRxPayload == [pipe |-> 0, data |-> NoData, pid |-> 0]
ZeroPacket    == [data |-> NoData, pid |-> 0, noack |-> FALSE]

ASSUME WrittenAssumption ==
  WRITTEN \subseteq [pipe : PIPES, noack : BOOLEAN, data : DATA, pid : {0}]
ASSUME HeardAssumption == HEARD \subseteq Packets

\* NRF_RADIO->RXCRC covers the packet id and the data.
Crcs    == Contents \X Pids
Crc(p)  == <<p.data, p.pid>>
CRC0    == <<ZERO_CRC, 0>>       \* the CRC value 0

\* m_rx_payload_buffer[1] >> 1.  With the legacy protocol the packet id is
\* in the first byte and this one is 0.
RxPid(p) == IF config.protocol = "ESB" THEN 0 ELSE p.pid

\* memset(m_rx_pipe_info, 0, ...), memset(m_pids, 0, ...)
ZeroPipeInfo == [p \in PIPES |-> [crc |-> CRC0, pid |-> 0, ack_payload |-> FALSE]]
ZeroPids     == [p \in PIPES |-> 0]

Flags      == {"TX_SUCCESS", "TX_FAILED", "RX_DATA_RECEIVED"}
MainStates == {"IDLE", "PTX_TX", "PTX_TX_ACK", "PTX_RX_ACK", "PRX", "PRX_SEND_ACK"}
Transmitting == {"PTX_TX", "PTX_TX_ACK", "PTX_RX_ACK"}
Callbacks  == {"none", "tx_noack", "tx", "tx_wait_for_ack", "rx", "rx_ack"}

\* update_radio_bitrate: the time the radio waits for an acknowledgment.
WaitForAckTimeout(bitrate) ==
  CASE bitrate = "2MBPS"   -> 48
    [] bitrate = "250KBPS" -> 250
    [] OTHER               -> 64
Compare0 == WaitForAckTimeout(config.bitrate)

\* Faulty variant: the ramp-up of the radio is subtracted once more.
Compare1Early == config.retransmit_delay - 210

\* The retransmission delay, less the ramp-up of the radio.
Compare1 == config.retransmit_delay - 130

-----------------------------------------------------------------------------
(* History.  air: packets put on air in the last transmission.  offered:   *)
(* TX slots whose present payload has been on air.                         *)

NoEvent == [tx_attempts |-> 0, ids |-> {}]   \* the handler has returned

Hists == [air : Nat, offered : SUBSET TxSlots]

Init ==
  /\ initialized = FALSE
  /\ config \in CONFIGS
  /\ mainstate = "IDLE" /\ on_radio_disabled = "none"
  /\ tx_fifo = ZeroRing(TX_FIFO_SIZE, ZeroPayload)
  /\ rx_fifo = ZeroRing(RX_FIFO_SIZE, ZeroRxPayload)
  /\ pids = ZeroPids
  /\ rx_pipe_info = ZeroPipeInfo
  /\ interrupt_flags = {}
  /\ retransmits_remaining = 0 /\ last_tx_attempts = 0
  /\ mp_current_payload = 0
  /\ tx_payload_buffer = ZeroPacket /\ rx_payload_buffer = ZeroPacket
  /\ esb_addr \in [rf_channel : CHANNELS, addresses : ADDRESSES,
                   rx_pipes_enabled : {PIPES}]
  /\ radio = [state |-> "off", shorts |-> "none", inten |-> FALSE,
              events_disabled |-> FALSE, events_end |-> FALSE,
              crcstatus |-> FALSE, rxmatch |-> 0, txaddress |-> 0,
              rxaddresses |-> {}, frequency |-> esb_addr.rf_channel]
  /\ timer = [running |-> FALSE, compare1 |-> FALSE,
              ppi_rx_timeout |-> FALSE, ppi_tx_start |-> FALSE]
  /\ swi0 = [pending |-> FALSE, enabled |-> FALSE]
  /\ call = [at |-> "idle", payload |-> ZeroPayload]
  /\ event = NoEvent
  /\ hist = [air |-> 0, offered |-> {}]

-----------------------------------------------------------------------------
(* Parts of handlers and calls *)

\* The radio after a DISABLED event, with these shortcuts.
After(shorts) == CASE shorts = "rxen" -> "rx"
                   [] shorts = "txen" -> "tx"
                   [] OTHER           -> "off"

\* The functions of nrf_esb.c the application calls, and when: from thread or
\* event-handler level, one at a time.
May(f) == call.at = "idle" /\ f \in API

Idle == mainstate = "IDLE"

\* Faulty variant: the counter is not reset for a new transmission.
RetransmitsKept(ack) == retransmits_remaining

\* "Configure the retransmit counter".
Retransmits(ack) == IF ack THEN config.retransmit_count ELSE retransmits_remaining

\* start_tx_transaction, on the TX FIFO as the caller leaves it.
StartTxTransaction(fifo) ==
  LET payload == fifo.p_payload[fifo.exit_point]
      ack == config.protocol = "ESB" \/ ~payload.noack \/ ~config.selective_auto_ack
  IN /\ last_tx_attempts' = 1
     /\ mp_current_payload' = fifo.exit_point
     /\ tx_payload_buffer' = [data |-> payload.data, pid |-> payload.pid,
                              noack |-> ~ack]
     /\ retransmits_remaining' = Retransmits(ack)
     /\ on_radio_disabled' = IF ack THEN "tx" ELSE "tx_noack"
     /\ mainstate' = IF ack THEN "PTX_TX_ACK" ELSE "PTX_TX"
     /\ radio' = [radio EXCEPT !.state = "tx", !.inten = TRUE,
                    !.shorts = IF ack THEN "rxen" ELSE "none",
                    !.events_disabled = FALSE,
                    !.txaddress = payload.pipe, !.rxaddresses = {payload.pipe},
                    !.frequency = esb_addr.rf_channel]

\* tx_fifo_remove_last: it removes the oldest payload.
RemoveLast(fifo) ==
  IF fifo.count > 0 THEN HeadRemoved(fifo, TX_FIFO_SIZE) ELSE fifo

\* Faulty variant: no test for room.
PushRfbufUnchecked(pipe, pid) ==
  Pushed(rx_fifo, RX_FIFO_SIZE,
         [pipe |-> pipe, data |-> rx_payload_buffer.data, pid |-> pid])

\* rx_fifo_push_rfbuf: m_rx_payload_buffer goes to the RX FIFO unless it is full.
PushRfbuf(pipe, pid) ==
  LET data == IF config.protocol = "ESB" /\ config.mode = "PTX"
              THEN NoData ELSE rx_payload_buffer.data
  IN IF rx_fifo.count < RX_FIFO_SIZE
     THEN Pushed(rx_fifo, RX_FIFO_SIZE, [pipe |-> pipe, data |-> data, pid |-> pid])
     ELSE rx_fifo

\* Faulty variant: NVIC_SetPendingIRQ is forgotten.
RaiseFlagsOnly(flags) ==
  interrupt_flags' = interrupt_flags \cup flags /\ UNCHANGED swi0

RaiseEvent(flags) ==
  /\ interrupt_flags' = interrupt_flags \cup flags
  /\ swi0' = [swi0 EXCEPT !.pending = TRUE]

\* clear_events_restart_rx: the ramp-up is aborted and reception restarted.
ClearEventsRestartRx ==
  radio' = [radio EXCEPT !.state = "rx", !.shorts = "txen",
                         !.events_disabled = FALSE]

\* nrf_esb_disable: nothing here touches the RADIO interrupt, on_radio_disabled,
\* a transmission or a reception under way.
Disabled(shorts, enabled) ==
  /\ mainstate' = "IDLE"
  /\ tx_fifo' = Flushed(tx_fifo) /\ rx_fifo' = Flushed(rx_fifo)
  /\ rx_pipe_info' = ZeroPipeInfo /\ pids' = ZeroPids
  /\ timer' = [timer EXCEPT !.ppi_rx_timeout = FALSE, !.ppi_tx_start = FALSE]
  /\ swi0' = [swi0 EXCEPT !.enabled = enabled]
  /\ radio' = [radio EXCEPT !.shorts = shorts]

-----------------------------------------------------------------------------
(* API functions.  A call that returns an error changes nothing. *)

\* The application disables a node that is not idle only with "abort".
Quiet == Idle \/ "abort" \in API

EsbInit ==
  /\ May("init") /\ Quiet
  /\ initialized => "reinit" \in API
  /\ \E c \in CONFIGS : config' = c
  /\ Disabled(IF initialized THEN "none" ELSE radio.shorts, TRUE)
  /\ interrupt_flags' = {}
  /\ initialized' = TRUE
  /\ hist' = [hist EXCEPT !.air = 0]
  /\ UNCHANGED <<esb_addr, on_radio_disabled, txVars, event,
                 rx_payload_buffer, call>>

EsbDisable ==
  /\ May("disable") /\ Quiet
  /\ Disabled("none", FALSE)
  /\ hist' = [hist EXCEPT !.air = 0]
  /\ UNCHANGED <<setupVars, on_radio_disabled, txVars, interrupt_flags, event,
                 rx_payload_buffer, call>>

EsbSuspend ==
  /\ May("suspend") /\ Idle
  /\ timer' = [timer EXCEPT !.ppi_rx_timeout = FALSE, !.ppi_tx_start = FALSE]
  /\ UNCHANGED <<setupVars, stateVars, fifoVars, txVars, evtVars, radio,
                 rx_payload_buffer, call, hist>>

\* nrf_esb_write_payload: its checks, with the RADIO interrupt enabled ...
WritePayload ==
  /\ May("write_payload") /\ initialized
  /\ tx_fifo.count < TX_FIFO_SIZE
  /\ \E payload \in WRITTEN :
       /\ ~(config.mode = "PTX" /\ payload.noack /\ ~config.selective_auto_ack)
       /\ call' = [at |-> "write", payload |-> payload]
  /\ UNCHANGED <<setupVars, stateVars, fifoVars, txVars, evtVars, hwVars, hist>>

\* Faulty variant: the packet id wraps one too early.
NextPidShort(pipe) == (pids[pipe] + 1) % PID_MAX

\* ... the section that disables it ...
NextPid(pipe) == (pids[pipe] + 1) % (PID_MAX + 1)

WritePayloadStore ==
  /\ call.at = "write"
  /\ LET pipe == call.payload.pipe
         pid  == NextPid(pipe)
     IN /\ pids' = [pids EXCEPT ![pipe] = pid]
        /\ tx_fifo' = Pushed(tx_fifo, TX_FIFO_SIZE, [call.payload EXCEPT !.pid = pid])
  /\ call' = [call EXCEPT !.at = "kick"]
  /\ hist' = [hist EXCEPT !.offered = @ \ {tx_fifo.entry_point}]
  /\ UNCHANGED <<setupVars, stateVars, rx_fifo, rx_pipe_info, txVars, evtVars, hwVars>>

\* ... and, enabled again, the start of a transmission.
WritePayloadKick ==
  /\ call.at = "kick"
  /\ IF config.mode = "PTX" /\ config.tx_mode = "AUTO" /\ Idle
     THEN /\ StartTxTransaction(tx_fifo)
          /\ hist' = [hist EXCEPT !.air = 0]
     ELSE UNCHANGED <<stateVars, txVars, radio, hist>>
  /\ call' = [at |-> "idle", payload |-> ZeroPayload]
  /\ UNCHANGED <<setupVars, fifoVars, evtVars, timer, rx_payload_buffer>>

\* nrf_esb_read_rx_payload: the check, then the protected section.
ReadRxPayload ==
  /\ May("read_rx_payload") /\ initialized
  /\ rx_fifo.count # 0
  /\ call' = [call EXCEPT !.at = "read"]
  /\ UNCHANGED <<setupVars, stateVars, fifoVars, txVars, evtVars, hwVars, hist>>

ReadRxPayloadTake ==
  /\ call.at = "read"
  /\ rx_fifo' = HeadRemoved(rx_fifo, RX_FIFO_SIZE)
  /\ call' = [call EXCEPT !.at = "idle"]
  /\ UNCHANGED <<setupVars, stateVars, tx_fifo, pids, rx_pipe_info, txVars,
                 evtVars, hwVars, hist>>

StartTx ==
  /\ May("start_tx")
  /\ Idle /\ tx_fifo.count # 0
  /\ StartTxTransaction(tx_fifo)
  /\ hist' = [hist EXCEPT !.air = 0]
  /\ UNCHANGED <<setupVars, fifoVars, evtVars, timer, rx_payload_buffer, call>>

\* The code does not test m_esb_initialized here; the applications call
\* nrf_esb_init before anything else.
StartRx ==
  /\ May("start_rx") /\ initialized /\ Idle
  /\ on_radio_disabled' = "rx" /\ mainstate' = "PRX"
  /\ radio' = [radio EXCEPT !.state = "rx", !.inten = TRUE, !.shorts = "txen",
                 !.events_disabled = FALSE,
                 !.rxaddresses = esb_addr.rx_pipes_enabled,
                 !.frequency = esb_addr.rf_channel]
  /\ UNCHANGED <<setupVars, fifoVars, txVars, evtVars, timer, rx_payload_buffer,
                 call, hist>>

\* nrf_esb_stop_rx tests the state with the RADIO interrupt enabled, then acts.
StopRx ==
  /\ May("stop_rx") /\ mainstate = "PRX"
  /\ call' = [call EXCEPT !.at = "stop_rx"]
  /\ UNCHANGED <<setupVars, stateVars, fifoVars, txVars, evtVars, hwVars, hist>>

\* "SHORTS = 0" before "INTENCLR": the interrupt may come once more in between,
\* and set the shortcuts again.
StopRxShorts ==
  /\ call.at = "stop_rx" /\ "preempted" \in API
  /\ radio' = [radio EXCEPT !.shorts = "none"]
  /\ call' = [call EXCEPT !.at = "stopping"]
  /\ UNCHANGED <<setupVars, stateVars, fifoVars, txVars, evtVars, timer,
                 rx_payload_buffer, hist>>

\* The radio is disabled; a shortcut that is set starts it again.
StopRxNow ==
  /\ call.at \in {"stop_rx", "stopping"}
  /\ LET shorts == IF call.at = "stop_rx" THEN "none" ELSE radio.shorts
     IN radio' = [radio EXCEPT !.state = After(shorts), !.inten = FALSE,
                               !.shorts = shorts, !.events_disabled = TRUE]
  /\ on_radio_disabled' = "none" /\ mainstate' = "IDLE"
  /\ call' = [call EXCEPT !.at = "idle"]
  /\ UNCHANGED <<setupVars, fifoVars, txVars, evtVars, timer, rx_payload_buffer, hist>>

FlushTx ==
  /\ May("flush_tx") /\ initialized
  /\ mainstate \notin Transmitting \/ "abort" \in API
  /\ tx_fifo' = Flushed(tx_fifo)
  /\ UNCHANGED <<setupVars, stateVars, rx_fifo, pids, rx_pipe_info, txVars,
                 evtVars, hwVars, call, hist>>

\* nrf_esb_pop_tx: it is the entry that moves.
PopTx ==
  /\ May("pop_tx") /\ initialized /\ tx_fifo.count > 0
  /\ call' = [call EXCEPT !.at = "pop"]
  /\ UNCHANGED <<setupVars, stateVars, fifoVars, txVars, evtVars, hwVars, hist>>

PopTxNow ==
  /\ call.at = "pop"
  /\ tx_fifo' = [tx_fifo EXCEPT
                   !.entry_point = RingNext(tx_fifo.entry_point, TX_FIFO_SIZE),
                   !.count = Dec32(tx_fifo.count)]
  /\ call' = [call EXCEPT !.at = "idle"]
  /\ UNCHANGED <<setupVars, stateVars, rx_fifo, pids, rx_pipe_info, txVars,
                 evtVars, hwVars, hist>>

FlushRx ==
  /\ May("flush_rx") /\ initialized
  /\ rx_fifo' = Flushed(rx_fifo)
  /\ rx_pipe_info' = ZeroPipeInfo
  /\ UNCHANGED <<setupVars, stateVars, tx_fifo, pids, txVars, evtVars, hwVars,
                 call, hist>>

\* Faulty variant: the state is not tested.
SetRfChannelAnytime ==
  /\ May("set_rf_channel")
  /\ \E c \in CHANNELS : esb_addr' = [esb_addr EXCEPT !.rf_channel = c]
  /\ UNCHANGED <<initialized, config, stateVars, fifoVars, txVars, evtVars,
                 hwVars, call, hist>>

\* The setters of addresses, pipes and channel, which all require an idle module.
SetRfChannel ==
  /\ May("set_rf_channel") /\ Idle
  /\ \E c \in CHANNELS : esb_addr' = [esb_addr EXCEPT !.rf_channel = c]
  /\ UNCHANGED <<initialized, config, stateVars, fifoVars, txVars, evtVars,
                 hwVars, call, hist>>

SetAddresses ==
  /\ May("set_addresses") /\ Idle
  /\ \E a \in ADDRESSES : esb_addr' = [esb_addr EXCEPT !.addresses = a]
  /\ UNCHANGED <<initialized, config, stateVars, fifoVars, txVars, evtVars,
                 hwVars, call, hist>>

\* nrf_esb_set_prefixes also enables the pipes below num_pipes, and no other.
SetPrefixes ==
  /\ May("set_prefixes") /\ Idle
  /\ \E a \in ADDRESSES, pipes \in SUBSET PIPES :
       /\ \A p \in pipes : 0 .. p \subseteq pipes
       /\ esb_addr' = [esb_addr EXCEPT !.addresses = a, !.rx_pipes_enabled = pipes]
  /\ UNCHANGED <<initialized, config, stateVars, fifoVars, txVars, evtVars,
                 hwVars, call, hist>>

EnablePipes ==
  /\ May("enable_pipes") /\ Idle
  /\ \E p \in SUBSET PIPES : esb_addr' = [esb_addr EXCEPT !.rx_pipes_enabled = p]
  /\ UNCHANGED <<initialized, config, stateVars, fifoVars, txVars, evtVars,
                 hwVars, call, hist>>

-----------------------------------------------------------------------------
(* RADIO_IRQHandler: the DISABLED event, if its interrupt is enabled, runs *)
(* the function on_radio_disabled points to.  Each handler below clears    *)
(* the event.  "none" cannot occur with the interrupt enabled.             *)

DisabledIrq == radio.events_disabled /\ radio.inten
OnDisabled(callback) == DisabledIrq /\ on_radio_disabled = callback
\* Faulty variant: EVENTS_DISABLED is left set.
NotServed == radio

Served == [radio EXCEPT !.events_disabled = FALSE]

\* Faulty variant: the next transmission is prepared before the payload that was
\* sent is removed.
NextTransactionEarly(fifo, continue) ==
  IF continue
  THEN StartTxTransaction(tx_fifo)
  ELSE /\ mainstate' = "IDLE" /\ radio' = Served
       /\ UNCHANGED <<on_radio_disabled, retransmits_remaining,
                      mp_current_payload, tx_payload_buffer>>

\* The end of both kinds of transmission: continue with the next payload, or not.
NextTransactionOrIdle(fifo, continue) ==
  IF continue
  THEN StartTxTransaction(fifo)
  ELSE /\ mainstate' = "IDLE" /\ radio' = Served
       /\ UNCHANGED <<on_radio_disabled, retransmits_remaining,
                      mp_current_payload, tx_payload_buffer>>

OnRadioDisabledTxNoack ==
  /\ OnDisabled("tx_noack")
  /\ RaiseEvent({"TX_SUCCESS"})
  /\ tx_fifo' = RemoveLast(tx_fifo)
  /\ NextTransactionOrIdle(tx_fifo', tx_fifo'.count # 0)
  /\ tx_fifo'.count = 0 => UNCHANGED last_tx_attempts
  /\ hist' = [hist EXCEPT !.air = IF tx_fifo'.count = 0 THEN @ ELSE 0]
  /\ UNCHANGED <<setupVars, rx_fifo, pids, rx_pipe_info, event, timer,
                 rx_payload_buffer, call>>

\* The packet is out: open the window for its acknowledgment.
OnRadioDisabledTx ==
  /\ OnDisabled("tx")
  /\ radio' = [Served EXCEPT !.shorts = "none", !.events_end = FALSE]
  /\ timer' = [running |-> radio.state = "rx", compare1 |-> FALSE,
               ppi_rx_timeout |-> TRUE, ppi_tx_start |-> FALSE]
  /\ on_radio_disabled' = "tx_wait_for_ack"
  /\ mainstate' = "PTX_RX_ACK"
  /\ UNCHANGED <<setupVars, fifoVars, txVars, evtVars, rx_payload_buffer, call, hist>>

\* Faulty variant: the last payload is left in the FIFO.
ContinuesButLast(fifo) == fifo.count > 1 /\ config.tx_mode # "MANUAL"

\* With a packet acknowledged, whether the next one follows by itself.
Continues(fifo) == fifo.count # 0 /\ config.tx_mode # "MANUAL"

\* m_retransmits_remaining--
SpendRetransmit == retransmits_remaining' = Dec32(retransmits_remaining)

PacketReceived == radio.events_end /\ radio.crcstatus

\* on_radio_disabled_tx_wait_for_ack, a packet has been received: any packet
\* on this address is the acknowledgment.
OnRadioDisabledTxAcked ==
  /\ OnDisabled("tx_wait_for_ack") /\ PacketReceived
  /\ timer' = [timer EXCEPT !.running = FALSE, !.ppi_rx_timeout = FALSE,
                            !.ppi_tx_start = FALSE]
  /\ tx_fifo' = RemoveLast(tx_fifo)
  /\ rx_fifo' = IF config.protocol # "ESB" /\ rx_payload_buffer.data # NoData
                THEN PushRfbuf(radio.txaddress, 0) ELSE rx_fifo
  /\ RaiseEvent({"TX_SUCCESS"} \cup
                IF rx_fifo' # rx_fifo THEN {"RX_DATA_RECEIVED"} ELSE {})
  /\ LET attempts == (config.retransmit_count - retransmits_remaining + 1)
                       % (UINT32_MAX + 1)
         more == Continues(tx_fifo')
     IN /\ NextTransactionOrIdle(tx_fifo', more)
        /\ ~more => last_tx_attempts' = attempts
        /\ hist' = [hist EXCEPT !.air = IF more THEN 0 ELSE @]
  /\ UNCHANGED <<setupVars, pids, rx_pipe_info, event, rx_payload_buffer, call>>

\* The same function with nothing received: give up ...
OnRadioDisabledTxFailed ==
  /\ OnDisabled("tx_wait_for_ack") /\ ~PacketReceived
  /\ retransmits_remaining = 0
  /\ SpendRetransmit
  /\ timer' = [timer EXCEPT !.running = FALSE, !.ppi_rx_timeout = FALSE,
                            !.ppi_tx_start = FALSE]
  /\ last_tx_attempts' = config.retransmit_count + 1
  /\ RaiseEvent({"TX_FAILED"})
  /\ mainstate' = "IDLE" /\ radio' = Served
  /\ UNCHANGED <<setupVars, on_radio_disabled, fifoVars, mp_current_payload,
                 tx_payload_buffer, event, rx_payload_buffer, call, hist>>

\* ... or send the packet again when the timer reaches CC[1]; at once if it
\* has reached CC[1] already.
OnRadioDisabledTxRetry ==
  /\ OnDisabled("tx_wait_for_ack") /\ ~PacketReceived
  /\ retransmits_remaining # 0
  /\ SpendRetransmit
  /\ on_radio_disabled' = "tx" /\ mainstate' = "PTX_TX_ACK"
  /\ timer' = [timer EXCEPT !.running = TRUE, !.ppi_rx_timeout = FALSE,
                            !.ppi_tx_start = TRUE]
  /\ radio' = [Served EXCEPT !.shorts = "rxen",
                             !.state = IF timer.compare1 THEN "tx" ELSE @]
  /\ UNCHANGED <<setupVars, fifoVars, last_tx_attempts, mp_current_payload,
                 tx_payload_buffer, evtVars, rx_payload_buffer, call, hist>>

\* Faulty variant: the test for room is off by one.
RxDroppedLate == ~radio.crcstatus \/ rx_fifo.count > RX_FIFO_SIZE

\* on_radio_disabled_rx drops a packet with a CRC error, and any packet while
\* the RX FIFO is full.
RxDropped == ~radio.crcstatus \/ rx_fifo.count >= RX_FIFO_SIZE

OnRadioDisabledRxDrop ==
  /\ OnDisabled("rx") /\ RxDropped
  /\ ClearEventsRestartRx
  /\ UNCHANGED <<setupVars, stateVars, fifoVars, txVars, evtVars, timer,
                 rx_payload_buffer, call, hist>>

\* Faulty variant: the packet ids are compared the wrong way round.
RxRetransmitSwapped ==
  /\ Crc(rx_payload_buffer) = rx_pipe_info[radio.rxmatch].crc
  /\ RxPid(rx_payload_buffer) # rx_pipe_info[radio.rxmatch].pid

RxRetransmit ==
  /\ Crc(rx_payload_buffer) = rx_pipe_info[radio.rxmatch].crc
  /\ RxPid(rx_payload_buffer) = rx_pipe_info[radio.rxmatch].pid

\* The end of on_radio_disabled_rx: a packet that is not a retransmission goes
\* to the RX FIFO, with flags raised so far.
RxDelivered(flags) ==
  LET pushed == PushRfbuf(radio.rxmatch, RxPid(rx_payload_buffer))
  IN IF RxRetransmit \/ pushed = rx_fifo
     THEN /\ interrupt_flags' = interrupt_flags \cup flags
          /\ UNCHANGED <<rx_fifo, swi0>>
     ELSE /\ rx_fifo' = pushed
          /\ RaiseEvent(flags \cup {"RX_DATA_RECEIVED"})

RxPipeInfo(ack_payload) ==
  [rx_pipe_info EXCEPT ![radio.rxmatch] =
     [crc |-> Crc(rx_payload_buffer), pid |-> RxPid(rx_payload_buffer),
      ack_payload |-> ack_payload]]

RxWantsAck == ~config.selective_auto_ack \/ ~rx_payload_buffer.noack

OnRadioDisabledRxNoack ==
  /\ OnDisabled("rx") /\ ~RxDropped /\ ~RxWantsAck
  /\ ClearEventsRestartRx
  /\ rx_pipe_info' = RxPipeInfo(rx_pipe_info[radio.rxmatch].ack_payload)
  /\ RxDelivered({})
  /\ UNCHANGED <<setupVars, stateVars, tx_fifo, pids, txVars, event, timer,
                 rx_payload_buffer, call, hist>>

\* The acknowledgment is on its way (DISABLED -> TXEN): fill its buffer.  The
\* payload of the previous acknowledgment counts as sent when a packet that is
\* no retransmission follows it; the payload now at the exit goes out next.
OnRadioDisabledRxAck ==
  /\ OnDisabled("rx") /\ ~RxDropped /\ RxWantsAck
  /\ LET pipe   == radio.rxmatch
         info   == rx_pipe_info[pipe]
         loaded == /\ config.protocol = "ESB_DPL"
                   /\ tx_fifo.count > 0
                   /\ tx_fifo.p_payload[tx_fifo.exit_point].pipe = pipe
         sent   == loaded /\ info.ack_payload /\ ~RxRetransmit
         fifo   == IF sent THEN HeadRemoved(tx_fifo, TX_FIFO_SIZE) ELSE tx_fifo
     IN /\ tx_fifo' = fifo
        /\ rx_pipe_info' = RxPipeInfo(IF config.protocol = "ESB_DPL"
                                      THEN loaded ELSE info.ack_payload)
        /\ mp_current_payload' = IF loaded THEN fifo.exit_point ELSE mp_current_payload
        /\ tx_payload_buffer' =
             [rx_payload_buffer EXCEPT
                !.data = IF loaded THEN fifo.p_payload[fifo.exit_point].data ELSE NoData]
        /\ RxDelivered(IF sent THEN {"TX_SUCCESS"} ELSE {})
        /\ radio' = [Served EXCEPT !.shorts = "rxen", !.txaddress = pipe]
  /\ on_radio_disabled' = "rx_ack" /\ mainstate' = "PRX_SEND_ACK"
  /\ UNCHANGED <<setupVars, pids, retransmits_remaining, last_tx_attempts, event,
                 timer, rx_payload_buffer, call, hist>>

OnRadioDisabledRxAckSent ==
  /\ OnDisabled("rx_ack")
  /\ radio' = [Served EXCEPT !.shorts = "txen"]
  /\ on_radio_disabled' = "rx" /\ mainstate' = "PRX"
  /\ UNCHANGED <<setupVars, fifoVars, txVars, evtVars, timer, rx_payload_buffer,
                 call, hist>>

-----------------------------------------------------------------------------
(* ESB_EVT_IRQHandler, and the events it passes to the application.  It has *)
(* the priority of the application's calls, so it starts between two calls. *)

\* event.tx_attempts is read before the flags are.
EsbEvtIrq ==
  /\ swi0.pending /\ swi0.enabled
  /\ call.at = "idle" /\ event.ids = {}
  /\ swi0' = [swi0 EXCEPT !.pending = FALSE]
  /\ event' = [event EXCEPT !.tx_attempts = last_tx_attempts]
  /\ call' = [call EXCEPT !.at = "evt"]
  /\ UNCHANGED <<setupVars, stateVars, fifoVars, txVars, interrupt_flags, hwVars, hist>>

\* nrf_esb_get_clear_interrupts, with the RADIO interrupt disabled.
GetClearInterrupts ==
  /\ call.at = "evt"
  /\ event' = IF interrupt_flags = {} THEN NoEvent
              ELSE [event EXCEPT !.ids = interrupt_flags]
  /\ interrupt_flags' = {}
  /\ call' = [call EXCEPT !.at = "idle"]
  /\ UNCHANGED <<setupVars, stateVars, fifoVars, txVars, swi0, hwVars, hist>>

\* m_event_handler(&event): TX_SUCCESS, then TX_FAILED, then RX_RECEIVED.
DeliverEvent ==
  /\ call.at = "idle"
  /\ \E id \in event.ids :
       /\ id = "TX_FAILED" => "TX_SUCCESS" \notin event.ids
       /\ id = "RX_DATA_RECEIVED" => event.ids = {id}
       /\ event' = IF event.ids = {id} THEN NoEvent
                   ELSE [event EXCEPT !.ids = @ \ {id}]
  /\ UNCHANGED <<setupVars, stateVars, fifoVars, txVars, interrupt_flags, swi0,
                 hwVars, call, hist>>

-----------------------------------------------------------------------------
(* The hardware.  It takes no step while the DISABLED interrupt is pending. *)

\* The shortcuts END -> DISABLE and DISABLED -> RXEN or TXEN.
AfterEnd == After(radio.shorts)

\* The radio has sent the packet in m_tx_payload_buffer.  A packet is longer than
\* the few instructions from the protected section of nrf_esb_write_payload to its
\* test of the state, unless the caller is preempted there.
TxEnd ==
  /\ radio.state = "tx" /\ ~DisabledIrq
  /\ call.at = "kick" => "preempted" \in API
  /\ radio' = [radio EXCEPT !.state = AfterEnd, !.events_end = TRUE,
                            !.events_disabled = TRUE]
  /\ hist' = [hist EXCEPT
       !.air = IF mainstate \in Transmitting THEN @ + 1 ELSE @,
       !.offered = IF tx_payload_buffer.data # NoData
                   THEN @ \cup {mp_current_payload} ELSE @]
  /\ UNCHANGED <<setupVars, stateVars, fifoVars, txVars, evtVars, timer,
                 rx_payload_buffer, call>>

\* The radio has received a packet; its ADDRESS event stopped the timer.
RxEnd(packet, pipe, crcok) ==
  /\ radio.state = "rx" /\ ~DisabledIrq
  /\ pipe \in radio.rxaddresses
  /\ rx_payload_buffer' = IF crcok THEN packet ELSE rx_payload_buffer
  /\ radio' = [radio EXCEPT !.state = AfterEnd, !.events_end = TRUE,
                 !.events_disabled = TRUE, !.crcstatus = crcok,
                 !.rxmatch = pipe]
  /\ timer' = [timer EXCEPT !.running = FALSE]
  /\ UNCHANGED <<setupVars, stateVars, fifoVars, txVars, evtVars, call, hist>>

\* CC[0]: the wait for an acknowledgment is over.
RxTimeout ==
  /\ radio.state = "rx" /\ ~DisabledIrq
  /\ timer.running /\ timer.ppi_rx_timeout /\ Compare0 <= Compare1
  /\ radio' = [radio EXCEPT !.state = AfterEnd, !.events_disabled = TRUE]
  /\ UNCHANGED <<setupVars, stateVars, fifoVars, txVars, evtVars, timer,
                 rx_payload_buffer, call, hist>>

\* CC[1]: the timer stops and is cleared, and starts the retransmission if PPI
\* connects them.  It comes after CC[0] unless CC[1] is the smaller.
TimerCompare1 ==
  /\ timer.running
  /\ timer.ppi_rx_timeout /\ radio.state = "rx" => Compare1 < Compare0
  /\ timer' = [timer EXCEPT !.running = FALSE, !.compare1 = TRUE]
  /\ radio' = IF timer.ppi_tx_start /\ radio.state = "off"
              THEN [radio EXCEPT !.state = "tx"] ELSE radio
  /\ UNCHANGED <<setupVars, stateVars, fifoVars, txVars, evtVars,
                 rx_payload_buffer, call, hist>>

-----------------------------------------------------------------------------
Receive == \E packet \in HEARD, pipe \in PIPES, crcok \in BOOLEAN :
             RxEnd(packet, pipe, crcok)

Application ==
  \/ EsbInit \/ EsbDisable \/ EsbSuspend
  \/ WritePayload \/ WritePayloadStore \/ WritePayloadKick
  \/ ReadRxPayload \/ ReadRxPayloadTake
  \/ StartTx \/ StartRx \/ StopRx \/ StopRxShorts \/ StopRxNow
  \/ FlushTx \/ PopTx \/ PopTxNow \/ FlushRx
  \/ SetRfChannel \/ SetAddresses \/ SetPrefixes \/ EnablePipes

RadioIrq ==
  \/ OnRadioDisabledTxNoack \/ OnRadioDisabledTx
  \/ OnRadioDisabledTxAcked \/ OnRadioDisabledTxFailed \/ OnRadioDisabledTxRetry
  \/ OnRadioDisabledRxDrop \/ OnRadioDisabledRxNoack \/ OnRadioDisabledRxAck
  \/ OnRadioDisabledRxAckSent

EvtIrq == EsbEvtIrq \/ GetClearInterrupts \/ DeliverEvent

Hardware == TxEnd \/ Receive \/ RxTimeout \/ TimerCompare1

Next == Application \/ RadioIrq \/ EvtIrq \/ Hardware

Spec == Init /\ [][Next]_vars

\* Interrupts are served, a call that has started goes on, a packet on air ends
\* and the timer runs.  ESB_EVT is taken between two calls however many there are:
\* it has a higher priority than the thread.  Nothing makes a packet arrive or the
\* application call.
Fairness ==
  /\ WF_vars(RadioIrq) /\ SF_vars(EsbEvtIrq) /\ WF_vars(GetClearInterrupts)
  /\ SF_vars(DeliverEvent)
  /\ WF_vars(WritePayloadStore \/ WritePayloadKick \/ ReadRxPayloadTake
             \/ StopRxShorts \/ StopRxNow \/ PopTxNow)
  /\ SF_vars(TxEnd) /\ WF_vars(RxTimeout) /\ WF_vars(TimerCompare1)

FairSpec == Spec /\ Fairness
-----------------------------------------------------------------------------
(* Properties *)

Radios == [state : {"off", "tx", "rx"}, shorts : {"none", "rxen", "txen"},
           inten : BOOLEAN, events_disabled : BOOLEAN, events_end : BOOLEAN,
           crcstatus : BOOLEAN, rxmatch : PIPES, txaddress : PIPES,
           rxaddresses : SUBSET PIPES, frequency : CHANNELS]
PipeInfos == [crc : Crcs, pid : Pids, ack_payload : BOOLEAN]
Timers == [running : BOOLEAN, compare1 : BOOLEAN, ppi_rx_timeout : BOOLEAN,
           ppi_tx_start : BOOLEAN]
CallPoints == {"idle", "write", "kick", "read", "stop_rx", "stopping", "pop", "evt"}

\* Type invariant: every variable of the driver and of the hardware keeps its
\* type; the indices of both FIFOs stay inside their arrays.
TypeOK ==
  /\ initialized \in BOOLEAN
  /\ config \in CONFIGS
  /\ mainstate \in MainStates
  /\ on_radio_disabled \in Callbacks
  /\ tx_fifo \in Ring(TX_FIFO_SIZE, Payloads)
  /\ rx_fifo \in Ring(RX_FIFO_SIZE, RxPayloads)
  /\ pids \in [PIPES -> Pids]
  /\ rx_pipe_info \in [PIPES -> PipeInfos]
  /\ interrupt_flags \in SUBSET Flags
  /\ retransmits_remaining \in 0 .. UINT32_MAX
  /\ last_tx_attempts \in 0 .. UINT32_MAX
  /\ mp_current_payload \in TxSlots
  /\ tx_payload_buffer \in Packets
  /\ rx_payload_buffer \in Packets
  /\ esb_addr \in [rf_channel : CHANNELS, addresses : ADDRESSES,
                   rx_pipes_enabled : SUBSET PIPES]
  /\ radio \in Radios
  /\ timer \in Timers
  /\ swi0 \in [pending : BOOLEAN, enabled : BOOLEAN]
  /\ call \in [at : CallPoints, payload : Payloads]
  /\ event \in [tx_attempts : 0 .. UINT32_MAX, ids : SUBSET Flags]
  /\ hist \in Hists

\* The indices and the count of each FIFO always describe one queue, and what
\* nrf_esb_write_payload and nrf_esb_read_rx_payload have checked still holds in
\* their protected section, whatever the RADIO interrupt has done meanwhile.
RingsConsistent ==
  /\ Consistent(tx_fifo, TX_FIFO_SIZE)
  /\ Consistent(rx_fifo, RX_FIFO_SIZE)
  /\ call.at = "write" => tx_fifo.count < TX_FIFO_SIZE
  /\ call.at = "read" => rx_fifo.count # 0

\* m_nrf_esb_mainstate, on_radio_disabled and the radio agree: a node that is
\* idle is silent and deaf, and a node that is not has the radio or the timer
\* at work or its interrupt pending, with the handler for what happens next.
RadioFollowsState ==
  LET doing(state, then) ==
        radio.state = IF DisabledIrq THEN then ELSE state
  IN CASE mainstate = "IDLE" -> radio.state = "off" /\ ~DisabledIrq
       [] mainstate = "PTX_TX" -> on_radio_disabled = "tx_noack" /\ doing("tx", "off")
       [] mainstate = "PTX_TX_ACK" ->
            /\ on_radio_disabled = "tx"
            /\ \/ doing("tx", "rx")
               \/ radio.state = "off" /\ timer.running /\ timer.ppi_tx_start
       [] mainstate = "PTX_RX_ACK" ->
            on_radio_disabled = "tx_wait_for_ack" /\ doing("rx", "off")
       [] mainstate = "PRX" -> on_radio_disabled = "rx" /\ doing("rx", "tx")
       [] mainstate = "PRX_SEND_ACK" -> on_radio_disabled = "rx_ack" /\ doing("tx", "rx")

\* While a transmission is under way the packet in m_tx_payload_buffer is the
\* payload at the exit of the TX FIFO, which is the one an acknowledgment
\* removes: writes, acknowledgments and retransmissions never separate them.
InFlightIsHead ==
  mainstate \in Transmitting =>
    LET head == tx_fifo.p_payload[tx_fifo.exit_point]
    IN /\ tx_fifo.count > 0
       /\ mp_current_payload = tx_fifo.exit_point
       /\ tx_payload_buffer.data = head.data /\ tx_payload_buffer.pid = head.pid
       /\ radio.txaddress = head.pipe

\* The packets put on air and the retransmissions left add up, and when the node
\* is idle m_last_tx_attempts is the number of packets the last transmission took.
AttemptsAccounted ==
  LET total == config.retransmit_count + 1
      out   == hist.air + IF mainstate = "PTX_TX_ACK" /\ ~DisabledIrq THEN 1 ELSE 0
  IN /\ mainstate \in {"PTX_TX_ACK", "PTX_RX_ACK"} =>
          out + retransmits_remaining = total
     /\ Idle /\ hist.air > 0 => last_tx_attempts = hist.air /\ hist.air <= total

\* A PTX in automatic mode never leaves a payload behind: if it is idle between
\* calls with payloads in its TX FIFO, the transmission of the first has failed
\* (m_retransmits_remaining was 0 and has wrapped).  nrf_esb_write_payload sees
\* the state after the RADIO interrupt had its chance to change it.
NoPayloadStranded ==
  /\ config.mode = "PTX" /\ config.tx_mode = "AUTO"
  /\ Idle /\ call.at # "kick" /\ tx_fifo.count > 0
  => retransmits_remaining = UINT32_MAX

\* A flag raised by the RADIO interrupt is seen: ESB_EVT is pending, or its
\* handler has started and has not yet fetched the flags.
EventsNotLost ==
  interrupt_flags # {} => swi0.pending \/ call.at = "evt"

\* Payloads queued for one pipe carry consecutive packet ids that end with the
\* last one assigned, so the receiver can tell two neighbours apart.
PidsConsecutive ==
  LET q == Queue(tx_fifo, TX_FIFO_SIZE)
      later(k) == Cardinality({l \in k + 1 .. tx_fifo.count : q[l].pipe = q[k].pipe})
  IN \A k \in 1 .. tx_fifo.count :
       (q[k].pid + later(k)) % (PID_MAX + 1) = pids[q[k].pipe]

\* The registers of the radio hold the channel and the pipes the application has
\* set: no setter takes effect under a transmission or a reception.
TunedAsSet ==
  mainstate # "IDLE" =>
    /\ radio.frequency = esb_addr.rf_channel
    /\ mainstate \in {"PRX", "PRX_SEND_ACK"} => radio.rxaddresses = esb_addr.rx_pipes_enabled

\* A receiver acknowledges a packet it has not seen only when the packet is in
\* its RX FIFO and the application will be told (on_radio_disabled_rx tests for
\* room before, and pushes after, it prepares the acknowledgment).
AckedIsStored ==
  [][mainstate = "PRX" /\ mainstate' = "PRX_SEND_ACK" /\ ~RxRetransmit =>
       /\ Queue(rx_fifo', RX_FIFO_SIZE) =
            Append(Queue(rx_fifo, RX_FIFO_SIZE),
                   [pipe |-> radio.rxmatch, data |-> rx_payload_buffer.data,
                    pid |-> RxPid(rx_payload_buffer)])
       /\ "RX_DATA_RECEIVED" \in interrupt_flags' /\ swi0'.pending]_vars

\* The driver implements the service its header promises: the rings are queues
\* that lose, repeat and reorder nothing, a transmission starts from idle with a
\* payload to send, and only the payload being sent leaves the TX FIFO.
Service == INSTANCE EsbService WITH
  TxPayload <- Payloads, RxPayload <- RxPayloads,
  txq   <- Queue(tx_fifo, TX_FIFO_SIZE),
  rxq   <- Queue(rx_fifo, RX_FIFO_SIZE),
  phase <- CASE mainstate \in Transmitting             -> "sending"
             [] mainstate \in {"PRX", "PRX_SEND_ACK"} -> "listening"
             [] OTHER                                 -> "idle"
ImplementsService == Service!Spec

\* A payload leaves the TX FIFO with TX_SUCCESS only after it has been on air.
SuccessOnlyIfSent ==
  [][RadioIrq /\ tx_fifo'.count < tx_fifo.count => tx_fifo.exit_point \in hist.offered]_vars

\* nrf_esb.h on NRF_ESB_TXMODE_AUTO: "When the TX FIFO contains packets and the
\* radio is idle, packets are sent automatically", so an empty FIFO starts nothing.
StartsOnlyWithPayload ==
  [][Idle /\ mainstate' \in Transmitting => tx_fifo.count > 0]_vars

\* Every transmission ends, acknowledged or not: the retransmissions run out.
TransmissionEnds == mainstate \in Transmitting ~> Idle

\* Every flag reaches the application as an event.
FlagsBecomeEvents ==
  \A flag \in Flags : flag \in interrupt_flags ~> flag \in event.ids
=============================================================================
