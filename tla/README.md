# Verification of the Enhanced ShockBurst driver and its box and devices

The repository is firmware for nRF51: a *box* and up to six *devices* (four
displays, two controllers) that share a 2.4 GHz link. The program's own logic is
the Enhanced ShockBurst (ESB) driver, `src/components/proprietary_rf/esb`, and
the applications in `src/examples/proprietary_rf/{box,device,common}`; the rest
is Nordic's SDK. This directory holds TLA+ models of that logic, the TLC
configurations that check them and the TLAPS proofs of their main properties.

Paths below are relative to `src/`; `nrf_esb.c:N` is line N of
`components/proprietary_rf/esb/nrf_esb.c`.

## 1. Inventory

| Component | State it keeps | Operations | Status |
|---|---|---|---|
| ESB driver: API and FIFOs (`nrf_esb.c:855-1260`) | main state, configuration, address and channel, TX and RX ring, packet ids, last packet of each pipe, `m_esb_initialized` | init, disable, suspend, write, read, start/stop, flush, pop, setters | modelled but for `set_tx_power` and the getters |
| ESB driver: RADIO interrupt (`nrf_esb.c:427-789`, `816-852`) | `on_radio_disabled`, retransmissions left, attempts, two packet buffers, RADIO, TIMER and PPI registers | the five `on_radio_disabled_*` handlers, `start_tx_transaction` | modelled |
| ESB driver: ESB_EVT (`nrf_esb.c:800-813`, `944-971`) | `m_interrupt_flags`, the pending bit | fetch the flags, deliver events | modelled |
| Link between two nodes | the air; the ids and CRCs both sides remember | send, lose, acknowledge, retransmit | modelled |
| Box (`box/main.c`) | mode, channel index, slots taken, masks of paired and heard devices | event handler, interval timer, beacons, setup, start-up | modelled but for its calls inside the driver's protected sections and scheme 1 |
| Device (`device/main.c`) | mode, pairing state, index, scan and sync time-outs, two payload buffers | event handler, interval timer, pairing, answers, start-up | modelled but for scheme 1 and the wait in `hop_channel` |
| Data store (`common/app_common.c`) | one flash page | `ds_get`, `ds_update` | modelled |
| Channel choice (`box/main.c`, `do_channel_list_generation`) | RSSI sums | pick one channel of each region | modelled |
| Packet layout, address conversion | none | bit order, register layout | left out: data layout |
| SDK, build files, images | - | - | left out: third-party or generated |

**How the parts meet.** The application calls the driver from the main loop, from
the driver's event handler and from an interval timer. The hardware raises the
RADIO interrupt (priority 1 in both applications), whose handler changes the
rings, the state, the registers and the flags, and makes ESB_EVT pending. ESB_EVT
(priority 2) fetches the flags and calls the application's event handler, which
calls the API again. The interval timer (TIMER0, priority 0; its handler is in
the committed images only) calls the API too and preempts everything else. API
functions protect the ring updates, and nothing else, by disabling the RADIO
interrupt: what they test before that they test with the interrupt enabled.
Between two nodes there are only packets, which get lost.

**What is hard.** The windows between a test and the protected section after it;
functions that decide on a state the interrupt is about to change; a chain of
hardware (radio shortcuts, PPI, timer) that several handlers must set up for one
transmission to end; acknowledgment payloads that are accounted for one packet
late; FIFOs at their limits; counters that wrap; lost acknowledgments and the
two-bit packet ids that tell a repeated packet from a new one; for the
applications, three interrupt priorities on one driver, pairing with lost
messages, time-outs, and a flash page that is written word by word. The 38
hazards are listed, each at its line, in `PROJECT.json`; 35 of them have a
property.

**What makes each part correct.**

* API and FIFOs: the rings are queues that lose, repeat and reorder nothing;
  what a call has tested still holds when it acts; ids of neighbours differ;
  setters never retune a working radio; in automatic mode nothing stays behind.
* RADIO interrupt: state, handler and radio agree; the packet on air is the one
  an acknowledgment removes; attempts add up; every transmission ends; a packet
  is acknowledged only if it is stored.
* ESB_EVT: no flag is lost, every flag becomes an event.
* Link: a payload is delivered once and in order, whatever packets are lost;
  a success means delivered.
* Box and devices: two devices never share an index, and the box has counted
  each; no device is asked again for what the box has; a repetition repeats; a
  device hops in step with the box, and one that has lost it finds it again.
* Data store: after a loss of power at any point box and device resume with a
  whole setup, and agree on it.
* Channel choice: the quietest channel of each region.

## 2. Modules

| Module | What it is |
|---|---|
| `EsbRing` | the statements both FIFOs share, as operators on one ring, and the queue a ring stands for |
| `EsbService` | the abstract node: two bounded queues and a phase. No radio, no interrupts |
| `NrfEsb` | one node: driver, RADIO, timer and PPI, ESB_EVT. The specification and the properties |
| `EsbChannel` | the abstract link: a queue whose payloads are each delivered once, in order |
| `EsbLink` | two instances of `NrfEsb`, a sender and a receiver, and a lossy air between them |
| `Pairing` | box in setup mode and devices in pairing mode: requests, offers, slots, hopping |
| `Frame` | box and devices in normal mode: beacons, answers, repetitions, hopping, scanning |
| `ChannelPick` | the loops of `do_channel_list_generation` |
| `Boot` | start-up, setup and data store of box and devices, with losses of power; extends `ChannelPick` |
| `MCNrfEsb`, `MCEsbLink`, `MCPairing`, `MCFrame`, `MCBoot` | values for TLC |
| `NrfEsbProofs` | lemmas about rings of any size; theorems about `NrfEsb`: types, rings, events, stored packets |
| `NrfEsbRadioProofs` | theorems about `NrfEsb`: state and radio, the packet on air, payloads left behind |
| `NrfEsbPacketProofs` | theorems about `NrfEsb`: tuning, attempts, packet ids |
| `NrfEsbServiceProofs` | `NrfEsb` implements `EsbService` |
| `EsbLinkProofs` | theorems about `EsbLink`: it implements `EsbChannel`, answers arrive |
| `PairingProofs`, `FrameProofs`, `BootProofs` | theorems about the modules they are named for; `BootProofs` has those about `ChannelPick` |

### How NrfEsb corresponds to the code

Variables have the names of the `m_...` variables without the prefix. `radio`
and `timer` are the registers the control depends on: what the radio does (off,
sending, receiving), the shortcut out of DISABLED, the interrupt enable, the
events, CRC status, addresses and frequency; whether the timer runs, its second
compare event and the PPI channels. `swi0` is ESB_EVT at the interrupt
controller, `call` the API call in progress, `event` the events
`ESB_EVT_IRQHandler` has still to deliver. `hist` is a history variable: packets
put on air in this transmission and slots offered as acknowledgment payloads.
No guard reads it.

*Application.* One action per API function (`SetAddresses` stands for the setters
of address length, base addresses and one prefix, which differ in the register
they write). A function that tests something
before its protected section is two or three actions, because the RADIO interrupt
may run in between:

* `nrf_esb_write_payload`: `WritePayload` (tests), `WritePayloadStore` (the
  protected section), `WritePayloadKick` (test of the state, start).
* `nrf_esb_read_rx_payload`: `ReadRxPayload`, `ReadRxPayloadTake`.
* `nrf_esb_stop_rx`: `StopRx` (test of the state), `StopRxNow`, or `StopRx`,
  `StopRxShorts` (`SHORTS = 0`), `StopRxNow` with the interrupt in between.
* `nrf_esb_pop_tx`: `PopTx`, `PopTxNow`.

A function that fails changes nothing and is no step. The setters, `flush` and
`init` are one step each: all they change is protected, or the node is idle.

*RADIO interrupt.* One action per handler; `on_radio_disabled_tx_wait_for_ack` is
three (acknowledged, failed, retried) and `on_radio_disabled_rx` three (dropped,
taken without and with an acknowledgment). Each does all its function does,
`start_tx_transaction` included.

*ESB_EVT.* `EsbEvtIrq` (entry, reads the attempts), `GetClearInterrupts`,
`DeliverEvent` once per event in the order of the code. API calls are possible
between events: that is the application's event handler.

*Hardware.* `TxEnd`, `Receive` (any packet of `HEARD`, on an enabled pipe, with
good or bad CRC), `RxTimeout` (CC[0]), `TimerCompare1` (CC[1]). What the
registers do is external; the set-up that makes them do it is the code's.

### Abstractions

* The CRC of a packet stands for its content: packets that differ in data or id
  differ in CRC. `ZERO_CRC` is the content whose packet with id 0 has CRC 0, the
  value `nrf_esb_init` leaves in `m_rx_pipe_info`.
* A payload is a member of `DATA` of valid length; `NoData` is length 0.
  Lengths, RSSI, `PACKETPTR`, transmission power and the getters are left out, as
  are the READY event and `on_radio_end`, which is never set.
* While DISABLED is pending the hardware takes no step: the handler runs long
  before the radio has ramped up. Likewise the packet on air does not end between
  the protected section of `nrf_esb_write_payload` and its test of the state (a
  few instructions), unless the caller is preempted.
* Three members of `API` are about use: `reinit` (init is called again while the
  node is idle), `abort` (disable, init or flush_tx in the middle of a
  transmission: no run has it, the theorems that hold with it say so) and
  `preempted` (the caller of write or stop_rx may be delayed at the points named
  above).

### How the other modules correspond to the code

**EsbLink** has the actions of `NrfEsb` for each side, on variables `s_...` and
`r_...`, and composes the hardware's: a packet that the sender's radio finishes
(`TxEnd`) is received by the other radio (`RxEnd`), intact or damaged, if that one
listens, or is lost; likewise the acknowledgment. The retransmission timer and the
wait for the acknowledgment run as in `NrfEsb`, but the wait does not close on an
acknowledgment that is on its way. Both applications write; the sender starts
again what has failed, the receiver also stops, starts and is slow to read. Left
out are ESB_EVT (nothing here reads its state) and everything that makes a node
forget packet ids: the applications initialise the driver between frames, where a
packet delivered twice does no harm. The history has what was written and what came
in on both sides, and `atRisk`: the answers that are written to an empty FIFO after
an acknowledgment with a payload, which finding 2 is about.

**Pairing** takes the driver as what it does here: a packet that the box hears is
acknowledged with the payload at the head of its TX FIFO (`info`). `BoxHears` is
the reception, `PairReq` and `PairInfoGet` the two cases of the event handler,
`BoxTick` the interval timer, `DoPairing` the start of a device with its button
held, `Failed` and `Acknowledged` a device's TX_FAILED and TX_SUCCESS, and
`InfoReceived` its RX_RECEIVED, which comes after the TX_SUCCESS of the same
interrupt. Requests are lost freely; `FAULTS` names what else may happen. The box
clears its memory of packet ids in every event, so no packet is taken for a
repetition. One device pairs at a time, as the README of the repository demands.

**Frame** goes through an interval millisecond by millisecond: `BoxTick` sends a
beacon, `Hear` is the device's handler of a beacon, `Answer` its transmission and
the TX_SUCCESS or TX_FAILED that ends it, `DeviceTick` its timer. A tick that
falls in the middle of `Hear` is part of that action, before or after
`g_sync_timeout` is set, since `interval_timer_stop` comes later. Drift within a
beacon period is left out: crystals keep the order of events for far longer.

**Boot** has the states of `main` on both sides, the picking (`ChannelPick`), the
pairing as it goes when nothing is lost, and `ds_update` as an erase and one step
per word, after each of which the power may go. `Word` gives the position of each
field in the struct; unwritten words read as ones. `selected_ch` starts with a
byte of the stack (`Junk`), and a channel list with such a byte makes
`nrf_esb_error_handler` reset the chip (`BoxHopFails`, `DeviceHopFails`).

## 3. Runs

All FIFOs, ids and counters are small: a ring of size 1 or 2 already wraps, fills
and empties at every position, ids wrap at `PID_MAX = 1`, and `UINT32_MAX = 7`
exceeds every count and attempt of the runs while the wrap of
`m_retransmits_remaining` below 0 still occurs. The state spaces are finite with
no constraint on them.

| Run | Instance | Shows |
|---|---|---|
| `ptx` | transmitter, automatic, one retransmission, selective acknowledgment; TX ring 2, RX ring 1 | `TypeOK`, `InFlightIsHead`, `AttemptsAccounted`, `NoPayloadStranded`, `PidsConsecutive` |
| `prx` | receiver, two pipes, two channels, RX ring 2; read, flushed, stopped, retuned, with the interrupt inside stop_rx | `RingsConsistent`, `TunedAsSet`, `AckedIsStored` |
| `turn` | the applications' configuration (no retransmission); a node that sends, listens, is disabled and initialised again; rings of 1 | `RadioFollowsState`, `EventsNotLost`, `ImplementsService` |
| `live` | manual mode, ESB_DPL and legacy ESB, rings of 1 | `TransmissionEnds`, `FlagsBecomeEvents` |
| `ack_payload` | receiver with acknowledgment payloads, rings of 2 | `SuccessOnlyIfSent` violated: finding 2 |
| `preempted` | as `ptx`, the writer may be preempted | `StartsOnlyWithPayload` violated: finding 1 |
| `rate_250kbps` | 250 kbps, default retransmission delay | `TransmissionEnds` violated: finding 3 |
| `link` | sender and receiver, one retransmission, automatic; sender's ring 2, receiver's RX ring 1, 4 payloads written, 2 for acknowledgments | `TypeOK`, `AnswersArrive`, `ImplementsChannel` |
| `pairing` | two displays, one controller, as many slots, 2 channels; every fault | `TypeOK`, `UniqueIndex`, `IndexCounted`, `IndexFitsType`, `RefusedOnlyIfFull`, `RequestAcknowledged` |
| `pairing_lost_ack` | the same, lost acknowledgments only | `DifferentAddresses` violated: finding 4 |
| `frame` | one device, 3 channels, 4 ms between beacons, 3 power cycles | `TypeOK`, `OncePerFrame`, `ResendRepeats`, `InStep`, `HearsAgain` |
| `boot` | one device, one region of 2 channels, 2 samples, 2 losses of power | `TypeOK`, `BoxResumesWhole`, `DeviceResumesWhole`, `PairedDevicesAsked`, `PickedIsBest` |

One pipe is enough where pipes do not interact (`ptx`, `turn`); `prx` uses two
because `m_rx_pipe_info`, `RXMATCH` and the enabled pipes are per pipe.
Receivers hear two ids with the same content, so that new and repeated packets
both occur, and one packet that wants no acknowledgment. Every action of
`Next` is taken in one of the passing runs. `preempted` and `ack_payload`
switch deadlock checking off because their set of API functions lets the node
come to rest with full FIFOs; `rate_250kbps` because a node that hangs is its
finding. `link` rests when all is written and read, `pairing` when the box has left
the setup and no one asks, `boot` when the cuts are used up.

The bounds of the other runs: in `link`, two ids (`PID_MAX = 1`) make each id
follow its own repetition after one packet, and four writes wrap the ring and the
ids. Two answers are what it takes to have one in the FIFO behind another and one
that is written after an acknowledgment, at risk or not. What the applications write
is given (`MCEsbLink`): payloads in a row with the same content, which only their ids
tell apart, one with another content, which shows the order, and again one that
equals an earlier one in content and id. When they write it, is not given;
`EsbLinkProofs` is about any contents and numbers.
In `pairing`, a device can send on every channel in one interval of the box
(`TRIES = CHANNELS`), which the real times allow many times over; a behaviour has
faults of one kind, as many as it likes. In `frame`, devices share nothing but
their bits of the masks, so one shows what becomes of each, and `FrameProofs`
is about any number; the interval is longer than an answer takes and three power
cycles bring box and device up in every order. In `boot`, sums of two samples
below 2 tie, win and lose, `UINT16_MAX = 3` is just enough for them as 65535 is
for 256 samples of at most 127; two cuts let a second setup be cut short after a
first; devices rest while the box picks its channels, when neither can notice the
other.

**Fairness** (`FairSpec`, runs `live` and `rate_250kbps`). Weak: the RADIO
interrupt is served, a call or handler that has begun goes on, the timer runs.
Strong: ESB_EVT is taken although calls keep disabling it for a moment (it has a
higher priority than the main loop, so it runs as soon as a call's step is over),
events are delivered, and a packet on air ends (its step is disabled only for the
few instructions named above). Nothing makes a packet arrive, and nothing makes
the application call: a transmission ends through the time-out alone.

In `pairing` (`RequestAcknowledged`), events are handled, the box's timer runs and
a packet that is not heard ends in TX_FAILED (weak); a request of a device that is
on the box's channel again and again is heard, and not every acknowledgment is
lost (strong). No operator is made to act. In `frame` (`HearsAgain`), time passes
(weak), and a device that is on the channel of a beacon again and again hears one
(strong): a link that loses everything hears nothing.

### Findings

1. `nrf_esb.c:1003`. `nrf_esb_write_payload` tests the state after its protected
   section but not the FIFO. A caller preempted there, while a running
   transmission sends the new payload too and ends, starts a transmission from an
   empty FIFO: a stale slot is sent again. Both applications call it at priority
   2 with the RADIO interrupt at 1.
2. `nrf_esb.c:713`. A receiver that pops its last acknowledgment payload keeps
   `ack_payload` set and loads the slot behind it. The payload written next is
   removed, with TX_SUCCESS, at the next new packet, before it was on air: what
   the comment on line 712 rules out.
3. `nrf_esb.c:556`. At 250 kbps with the default delay CC[1] = 120 us comes before
   CC[0] = 250 us and stops the timer: the wait for the acknowledgment never ends.

4. `device/main.c:257`. A device whose PAIR_REQ was heard but not acknowledged
   repeats it, and is acknowledged with the offer made for the first. TX_SUCCESS
   puts it in WAIT_FOR_INFO before RX_RECEIVED of the same interrupt, so it takes
   the index at once and leaves pairing; its PAIR_INFO_GET may not be heard, the
   box does not count the slot, and the next device gets the same index, which is
   its address.

What else was met and is recorded as a hazard:

* An interrupt between `SHORTS = 0` and `INTENCLR` in `nrf_esb_stop_rx`
  (`nrf_esb.c:1093`) sets the shortcuts again and the radio works on in state idle:
  with `preempted` in the set `TurnApi`, `RadioFollowsState` fails.
* `nrf_esb_pop_tx` moves the wrong index (`nrf_esb.c:1131`): `RingsConsistent` is
  false after it.
* A page that has its signature but not all its words (`common/app_common.c:40`)
  is taken for a setup by the box. `BoxResumesWhole` leaves it out. A device is
  safe: its index is the last word.
* A timer tick between the arrival of a beacon and `interval_timer_stop`
  (`device/main.c:277`) makes a device hop twice. `InStep` leaves such devices out
  until the next beacon they hear; `HearsAgain` shows that there is one.
* Pairing is safe against lost requests and a box that hops at any time, but not
  against a lost acknowledgment, a device switched off in an exchange, or a timer
  that comes between a packet and its event: `UniqueIndex` and `IndexCounted` name
  these faults. The first is finding 4; the repository makes no claim for the
  others.

## 4. Proofs

`NrfEsbProofs` proves, for FIFOs, pipes, payloads, configurations and counters of
every size the named assumptions of `EsbRing` and `NrfEsb` allow:

* **TypeCorrect**: `Spec => []TypeOK`, with every API function in use. One lemma
  for each group of actions (application, RADIO interrupt, ESB_EVT and hardware),
  one step for each action. The delicate conjuncts are the ring indices, the
  packet ids and `m_last_tx_attempts`, whose arithmetic wraps.
* **RingsCorrect**: `Spec => []RingsConsistent`, and **EventsAnnounced**:
  `Spec => []EventsNotLost`, for applications that do not call `nrf_esb_pop_tx`
  (`"pop_tx" \notin API`), which breaks the rings. Both follow from

      RingsInv == TypeOK /\ RingsConsistent /\ EventsNotLost /\ call.at # "pop"

  `RingsConsistent` alone is not inductive: an interrupt handler could start from
  a ring of the wrong type, and a call that has been found inside
  `nrf_esb_pop_tx` would end it. Its parts about calls (*at "write" there is
  room, at "read" there is a payload*) are what makes the protected sections
  safe: they survive the RADIO interrupt because it only takes from the TX ring
  and only adds to the RX ring. `EventsNotLost` needs that each handler which
  raises a flag sets the pending bit in the same step, and that `disable`, which
  masks ESB_EVT, leaves the bit alone.
* **AckedStored**: `Spec => AckedIsStored`, an action property, from `RingsInv`:
  only `OnRadioDisabledRxAck` goes from PRX to PRX_SEND_ACK; the test for room
  (line 676) still holds at the push (line 771), and a push appends to the queue.
  It leaves out configurations that listen as a legacy PTX, for which
  `rx_fifo_push_rfbuf` stores length 0.

`NrfEsbRadioProofs` proves three more, about applications that do not disable a node
in the middle of a transmission (`"abort"`) and whose calls are not preempted for
as long as a packet takes (`"preempted"`), neither being in `API`:

* **RadioAgrees**: `Spec => []RadioFollowsState`. The property says what the radio
  does now and after a pending interrupt, so the inductive invariant has to say
  which shortcut takes it there and what else may start it:

      RadioInv == TypeOK /\ RadioFollowsState /\ ShortsFollowState
                         /\ TimerFollowsState /\ StopsReception

  `ShortsFollowState` gives the shortcut out of DISABLED in each state,
  `TimerFollowsState` says that PPI connects the timer to the radio only in the
  two waits of a PTX, and `StopsReception` that the state `nrf_esb_stop_rx` has
  tested still belongs to a reception when it acts. **HandlerOfState**, used in
  every proof about a handler, reads the state off the function pointer.
* **HeadInFlight**: `Spec => []InFlightIsHead`, also without `nrf_esb_pop_tx`, from
  `InFlightInv == RadioInv /\ RingsInv /\ InFlightIsHead /\ KickHasPayload`.
  The hard part is the end of `nrf_esb_write_payload`, which tests the state but
  not the FIFO: `KickHasPayload` says that from the protected section to that
  test at most one payload leaves the TX FIFO, so one is there to send if the
  node has become idle. This is what `preempted` breaks (finding 1).
* **NothingStranded**: `Spec => []NoPayloadStranded`, also without
  `nrf_esb_start_rx`: a node that listens takes payloads it does not send, and
  `nrf_esb_stop_rx` leaves them.

`NrfEsbPacketProofs` proves the rest of the invariants of the runs `ptx` and `prx`:

* **Tuned**: `Spec => []TunedAsSet`, and **Attempts**: `Spec => []AttemptsAccounted`,
  without `abort` and `preempted`. The first follows from `RadioInv`: a node that
  leaves idle tunes the radio, and the setters act in idle only. The second needs

      AttemptsInv == RadioInv /\ AttemptsAccounted /\ AttemptsKept

  since the property compares the count with the packets on air during a
  transmission with acknowledgment and at rest, and says nothing of a node that
  listens in between or of a packet that wants no acknowledgment (`AttemptsKept`).
* **PidsFollow**: `Spec => []PidsConsecutive`, without `nrf_esb_pop_tx`, with aborts.
  It is inductive given `RingsInv`; the work is in the cardinalities.
  **FollowPushed** shows that a payload appended with the next id is one more
  behind each payload of its pipe, **FollowTail** that the payloads behind the
  others stay as many when the head is taken (a bijection of positions), and
  **ModSucc** that counting on before the wrap and after it come to the same.

They rest on lemmas about rings, in `NrfEsbProofs`. The main ones say that a write
to a ring with room appends to the queue the ring stands for (**PushedQueue**) and
that a read removes its head (**HeadRemovedQueue**), over all ring positions; the
others are the types and consistency of rings after each operation.

`NrfEsbServiceProofs` proves **ServiceImplemented**: `Spec => ImplementsService`,
without `abort`, `preempted` and `pop_tx`. Every action of `NrfEsb` maps to a step of
`EsbService` on the two queues and the phase, or to none. `PushedQueue` and
`HeadRemovedQueue` give the queues after a step; `InFlightInv` gives what the
abstract node demands: room when a call stores, a payload to send when a transmission
starts, and that what an acknowledgment or a failure removes is the payload in flight.

`EsbLinkProofs` is about two nodes, any configuration of both, FIFOs, ids and contents
of every size and any number of payloads in both directions. The theorems about one
node are used as they stand: the two nodes are instances of `NrfEsbServiceProofs` (`SP`,
`RP`) that may hear *any* packet (`AnyPacket`), and the lemmas `SenderIs`,
`SenderHears`, `ReceiverIs` and `ReceiverHears` show that the actions of `EsbLink` are
actions of such a node, so both keep `InFlightInv` (`NodesInv`).

* **ChannelImplemented**: `Spec => ImplementsChannel`. The invariant is

      LinkInv == NodesInv /\ OneWay /\ Fresh /\ CallsWithinBounds /\ QueuedIsWritten
                   /\ PidsInOrder /\ SenderWaits /\ HeardIsSent /\ AckIsForHead
                   /\ RemembersLast /\ HistoriesOK

  The argument is that of the alternating bit: neighbours in the sender's queue have
  consecutive ids (`PidsInOrder`), and the receiver remembers either the head of the
  queue or the packet before it (`RemembersLast`), so a packet that equals what it
  remembers is a repetition and any other is the next one. For the second packet to
  follow the first only after it was stored, an acknowledgment on air or received
  has to be for the head (`AckIsForHead`), which needs that the sender waits while the
  receiver has one to send (`SenderWaits`): no acknowledgment of an earlier packet is
  left on air.
* **AnswersCorrect**: `Spec => []AnswersArrive`, from `LinkInv` and

      AnswerInv == AnswersQueued /\ Arrived(Gone) /\ OfferArrived /\ OfferCarried

  The receiver removes a payload from its FIFO one packet after the acknowledgment
  that carried it. So the FIFO has the answers written last (`AnswersQueued`), those
  before them have come in (`Arrived(Gone)`, where `Gone` is their number), and the
  head has come in as soon as the sender has moved on from the packet that was
  acknowledged (`OfferArrived`); until then the acknowledgment, on air or received,
  carries it (`OfferCarried`).
* **TypeCorrect**: `Spec => []TypeOK`, from both.

`PairingProofs` proves all safety properties of `Pairing` for any number of devices,
slots, channels and tries and any set of faults: **TypeCorrect**, **IndexUnique**,
**IndexIsCounted**, **IndexFits** and **RefusedIfFull**. Each holds under faults of
its own, and so do the parts of the invariant:

    PairingInv == TypeOK /\ (Followed  => FollowedInv)
                         /\ (~Confused => CountedInv)
                         /\ (hist = {} => FullInv)

`FollowedInv` ties box and device together: an event of the box is about the packet
being acknowledged, an offer in the FIFO is for the device on air, and an
acknowledgment that carries an index answers `PAIR_INFO_GET`. `CountedInv` says that
an offer is the next slot of its type and not yet counted, and that an index on its
way whose event has been handled is counted and nobody has it yet (`OfferIsNew`): this
is the step from the box's order, offer and then count, to the device's, which holds
the index only after both. `FullInv` follows a device that gets no offer
(`NoOfferIfFull`).

`FrameProofs` proves all safety properties of `Frame` for any number of devices,
channels and power cycles, any interval and any offsets within it:
**TypeCorrect**, **TakenOnce** (`OncePerFrame`), **RepeatsAnswer** (`ResendRepeats`)
and **StaysInStep** (`InStep`, an action property). The inductive invariant adds
that who is asked has not been heard (`AskedNotTaken`), that the buffer whose turn
it is not holds this frame's answer (`LastAnswerKept`), and where a device in step
is between two beacons (`InPhase`): listening, it is on the next channel and its
scan time-out is longer than the ticks left before the beacon, or it is on the last
one and will hop in time; not started, it has a tick left; answering, its offset
has not passed. `InStep` alone says only where the device is when a beacon comes.

`BootProofs` proves **BestPicked**: `PickedIsBest` for any number of regions,
channels and samples, if `SAMPLES * RSSI_MAX <= UINT16_MAX` (`SumAssumption`; in the
code 256 * 127 <= 65535). Its invariant bounds every sum by the samples added to it,
so that no 16-bit sum wraps (`SumsBounded`), and says that the running maximum is one
(`HighestIsMaximum`).

It proves all properties of `Boot` for any number of devices, regions,
samples and losses of power: **TypeCorrect**, **BoxResumes**, **DeviceResumes**,
**DevicesAsked** and **BootPicksBest**. `Inv` adds to types and `PickInv`: a device
works with, stores or has stored something it was given (`DeviceKeepsGiven`); a
page in the making has a word left (`NotAllWritten`); a complete page of the box is
the setup stored last, with every slot taken (`PageIsStored`); what devices were
given in the setup in hand, or the stored one, agrees with its channels and its
slots (`GivenInSetup`); and the mask has the bits of these slots (`MaskOfSlots`).
None of the properties is inductive alone: each is about a start from a page that
was written long before.

Only model-checked: the liveness properties (`TransmissionEnds`, `FlagsBecomeEvents`,
`RequestAcknowledged`, `HearsAgain`), which are beyond the prover, and the violations
of the findings. What the theorems exclude (`abort`, `preempted`, `pop_tx`) is
where the findings and the hazards are. `RingsCorrect`, `EventsAnnounced`,
`AckedStored` and `PidsFollow` do hold with `abort` and `preempted`, so that an
initialisation in the middle of a transmission, as in `box/main.c:44`, breaks none
of the four.

## 5. Plan

Done: the modules of section 2 and the theorems of section 4, which state every safety
property and both refinements the passing runs check. What is left:

1. `RadioFollowsState` and `TunedAsSet` with aborts, as far as they hold: which
   handler a pending interrupt finds after an initialisation, and what the box's
   timer interrupt does inside a protected section of the driver.
2. `EsbLink` with ESB_EVT: that TX_SUCCESS is delivered once for each payload.

## 6. Not modelled, and why

* Radio payload layout and address bit order: no state, and a question of registers.
* RSSI and transmission power of the driver, logging, LEDs and GPIO: no property
  depends on them.
* The timer interrupt of the applications inside a protected section of the driver:
  `DISABLE_RF_IRQ` does not keep it out, and the steps are single instructions.
  `Pairing` has it between packets and events, `Frame` in the middle of a beacon.
  `TIMER0_IRQHandler` has no source in the repository; the models assume what the
  code around it shows, that it calls `interval_timer_event_handler` once per
  interval at priority 0.
* The wait for an idle driver in `hop_channel`: the packets a device receives in
  normal mode ask for no acknowledgment.
* `g_pairing_timeout`: it is set, and neither tested nor counted down.
* Scheme 1 (`app_config.h` defines `USE_SCHEME_2` as 1), `sys_address_32` (the same
  for all), more than four displays (the mask of `main` has no bits for them:
  `BootAssumption`), and a page erase that is cut short, which leaves undefined
  words.
* The vendored SDK, device headers, SoftDevice headers, start-up code and images:
  third-party or generated. They are nearly all of the source lines of the repository,
  so the modules cover a small share of these and nearly all of the program's own:
  `nrf_esb.c`, the two `main.c` and `app_common.c`.
