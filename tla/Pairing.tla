------------------------------ MODULE Pairing ------------------------------
(***************************************************************************)
(* The pairing of devices with the box, src/examples/proprietary_rf/box/   *)
(* main.c in setup mode and device/main.c in pairing mode.                 *)
(*                                                                         *)
(* A device sends PAIR_REQ; when it is acknowledged it sends PAIR_INFO_GET, *)
(* whose acknowledgment carries the pairing information: the index that    *)
(* tells the devices' addresses apart.  After a failed packet it tries the *)
(* next channel.  The box hops more slowly.  It offers the next free slot  *)
(* of the device's type for PAIR_REQ, and counts it for PAIR_INFO_GET.     *)
(*                                                                         *)
(* The driver (NrfEsb, EsbLink) is taken as what it does here: the packet  *)
(* on air is acknowledged with the payload at the head of the box's TX     *)
(* FIFO.  The box flushes its RX FIFO in every event, which clears its     *)
(* memory of packet ids, so every packet it hears is new.  The README says *)
(* "Assumed that there is only ONE device sending pairing request" (one    *)
(* exchange on air at a time).                                             *)
(***************************************************************************)
EXTENDS Integers, FiniteSets

CONSTANTS
  DEVICES,
  CONTROLLERS,              \* devices whose BUTTON_2 is held at power-up
  CHANNELS,                 \* MAXIMUM_CHANNEL_LIST_SIZE
  MAXIMUM_DISPLAY_DEV, MAXIMUM_CONTROLLER_DEV,
  TRIES,                    \* packets a device can send in one interval of the box
  NoIdx,                    \* dev_idx 0xff; no pairing information
  FAULTS                    \* what may go wrong beside lost requests

\* "ack_lost": an acknowledgment is lost on air.  "power_off": a device is switched
\* off in the middle of an exchange.  "preempted": the timer of the box interrupts
\* between the reception of a packet and its event.  "clipped": the timer finds an
\* acknowledgment on its way, and the driver is initialised under it.
Faults == {"ack_lost", "power_off", "preempted", "clipped"}

ASSUME DeviceAssumption  == CONTROLLERS \subseteq DEVICES /\ NoIdx \notin Nat
ASSUME ChannelAssumption == CHANNELS \in Nat \ {0} /\ TRIES \in Nat
ASSUME SlotAssumption == MAXIMUM_DISPLAY_DEV \in Nat /\ MAXIMUM_CONTROLLER_DEV \in Nat
ASSUME FaultAssumption == FAULTS \subseteq Faults

VARIABLES
  box,      \* mode, channel, slots counted, type being paired, its event
  info,     \* the pairing information in the box's TX FIFO, or NoIdx
  device,   \* each device's mode, state of pairing, channel and stored index
  air,      \* the packet on air and the acknowledgment that follows it
  tries,    \* packets sent since the last tick of the box
  hist      \* faults so far

vars == <<box, info, device, air, tries, hist>>

-----------------------------------------------------------------------------
Types   == {"DISPLAY", "CONTROLLER"}
Indices == 1 .. MAXIMUM_DISPLAY_DEV + MAXIMUM_CONTROLLER_DEV
Infos   == Indices \cup {NoIdx}
Chs     == 0 .. CHANNELS - 1

TypeOf(d) == IF d \in CONTROLLERS THEN "CONTROLLER" ELSE "DISPLAY"
Maximum(type) ==
  IF type = "DISPLAY" THEN MAXIMUM_DISPLAY_DEV ELSE MAXIMUM_CONTROLLER_DEV
Base(type) == IF type = "DISPLAY" THEN 0 ELSE MAXIMUM_DISPLAY_DEV

\* The indices the box has counted.
Counted == UNION {Base(type) + 1 .. Base(type) + box.slots[type] : type \in Types}

NextCh(ch) == (ch + 1) % CHANNELS

\* An event names the request that the box has to handle, and its sender's type.
NoEvent == [id |-> "none", type |-> "DISPLAY"]
Events  == [id : {"none", "PAIR_REQ", "PAIR_INFO_GET"}, type : Types]

\* phase: "packet" is being sent, its "ack" is being sent, or the ack is "clipped".
NoPacket == [phase |-> "none"]
Packet(d, id) == [phase |-> "packet", from |-> d, id |-> id]
Exchanges == [phase : {"packet"}, from : DEVICES, id : {"PAIR_REQ", "PAIR_INFO_GET"}]
        \cup [phase : {"ack", "clipped"}, from : DEVICES,
              id : {"PAIR_REQ", "PAIR_INFO_GET"}, info : Infos]

DeviceStates == [mode : {"OFF", "PAIRING", "NORMAL"},
                 state : {"NONE", "SEND_REQ", "WAIT_FOR_INFO"},
                 ch : Chs, idx : Infos]

\* Once the setup is over the box listens on the pairing channel until its next tick.
Listening == box.mode \in {"PAIRING", "LEAVING"}

-----------------------------------------------------------------------------
Init ==
  /\ box = [mode |-> "PAIRING", ch |-> 0, slots |-> [type \in Types |-> 0],
            cur_type |-> "none", event |-> NoEvent]
  /\ info = NoIdx
  /\ device = [d \in DEVICES |->
                 [mode |-> "OFF", state |-> "NONE", ch |-> 0, idx |-> NoIdx]]
  /\ air = NoPacket
  /\ tries = 0
  /\ hist = {}

Sends(packet) == air' = packet /\ tries' = IF tries < TRIES THEN tries + 1 ELSE tries
Silent == air' = NoPacket /\ tries' = 0

\* A behaviour has faults of one kind (a bound of the model).
Records(fault) == hist \subseteq {fault} /\ hist' = {fault}

-----------------------------------------------------------------------------
(* Devices *)

\* main and do_pairing: power-up, with BUTTON_1 held if the device has an index.
\* It may fall anywhere in the box's interval.
DoPairing(d) ==
  /\ air = NoPacket /\ \A e \in DEVICES : device[e].mode # "PAIRING"
  /\ device' = [device EXCEPT ![d].mode = "PAIRING", ![d].state = "SEND_REQ",
                              ![d].ch = 0]
  /\ air' = Packet(d, "PAIR_REQ") /\ tries' = TRIES
  /\ UNCHANGED <<box, info, hist>>

\* A device in WAIT_FOR_INFO with no packet on air: nothing will happen to it.
Stuck(d) == device[d].mode = "PAIRING" /\ air = NoPacket

\* A device that is stuck is switched off; another only as a fault.
PowerOff(d) ==
  /\ device[d].mode = "PAIRING"
  /\ Stuck(d) \/ "power_off" \in FAULTS
  /\ IF Stuck(d) THEN UNCHANGED hist ELSE Records("power_off")
  /\ device' = [device EXCEPT ![d].mode = "OFF", ![d].state = "NONE", ![d].ch = 0]
  /\ Silent
  /\ UNCHANGED <<box, info>>

\* Faulty variant: only the request for the information is sent again.
FailedGivesUp(d) ==
  IF device[d].state = "WAIT_FOR_INFO"
  THEN /\ device' = [device EXCEPT ![d].ch = NextCh(@)]
       /\ Sends(Packet(d, "PAIR_INFO_GET"))
  ELSE Silent /\ UNCHANGED device

\* NRF_ESB_EVENT_TX_FAILED: hop, and send again what the state calls for.  A device
\* that has entered normal mode meanwhile has initialised its driver.
Failed(d) ==
  IF device[d].mode = "PAIRING"
  THEN /\ device' = [device EXCEPT ![d].ch = NextCh(@)]
       /\ Sends(Packet(d, IF device[d].state = "WAIT_FOR_INFO"
                          THEN "PAIR_INFO_GET" ELSE "PAIR_REQ"))
  ELSE Silent /\ UNCHANGED device

\* NRF_ESB_EVENT_RX_RECEIVED of a device in WAIT_FOR_INFO: it stores what it gets and
\* enters normal mode.
InfoReceived(d, payload) ==
  [device EXCEPT ![d].mode = "NORMAL", ![d].state = "NONE", ![d].ch = 0,
                 ![d].idx = payload]

\* NRF_ESB_EVENT_TX_SUCCESS: PAIR_REQ is followed by PAIR_INFO_GET.  The device is in
\* WAIT_FOR_INFO when the payload of the acknowledgment, if any, is received,
\* whatever it has asked.
Acknowledged(d, payload) ==
  LET asks == device[d].state = "SEND_REQ"
  IN /\ device' =
          IF device[d].mode # "PAIRING" THEN device
          ELSE IF payload = NoIdx
               THEN [device EXCEPT ![d].state = "WAIT_FOR_INFO"]
               ELSE InfoReceived(d, payload)
     /\ IF asks THEN Sends(Packet(d, "PAIR_INFO_GET")) ELSE Silent

-----------------------------------------------------------------------------
(* The box *)

\* on_radio_disabled_rx and the acknowledgment it prepares.  The event of the last
\* packet has been handled: it takes less time than any packet.
BoxHears ==
  /\ air.phase = "packet" /\ Listening /\ box.event = NoEvent
  /\ device[air.from].ch = box.ch
  /\ box' = [box EXCEPT !.event = [id |-> air.id, type |-> TypeOf(air.from)]]
  /\ air' = [phase |-> "ack", from |-> air.from, id |-> air.id, info |-> info]
  /\ UNCHANGED <<info, device, tries, hist>>

Event(id) == box.event # NoEvent /\ box.event.id = id
Handled(b) == [b EXCEPT !.event = NoEvent]

\* Faulty variants: one slot too many, one slot too few.
FreeLate(type)  == box.slots[type] <= Maximum(type)
FreeEarly(type) == box.slots[type] + 1 < Maximum(type)

Free(type) == box.slots[type] < Maximum(type)

\* Faulty variant: controllers are numbered from 1 like displays.
OfferFromOne(type) == box.slots[type] + 1

\* info.dev_idx
Offer(type) == Base(type) + box.slots[type] + 1

\* PAIR_REQ: offer the next slot of the type.  With no slot left nothing is offered,
\* and what is in the TX FIFO stays there.
PairReq ==
  /\ box.mode = "PAIRING" /\ Event("PAIR_REQ")
  /\ LET type == box.event.type
     IN /\ box' = Handled([box EXCEPT !.cur_type = IF Free(type) THEN type ELSE "none"])
        /\ info' = IF Free(type) THEN Offer(type) ELSE info
  /\ UNCHANGED <<device, air, tries, hist>>

\* Faulty variant: a slot is counted only while both types have room.
CountBoth(type) ==
  IF type # "none" /\ \A t \in Types : Free(t)
  THEN [box.slots EXCEPT ![type] = @ + 1] ELSE box.slots

\* "Increament the device type slot."
Count(type) ==
  IF type # "none" /\ Free(type)
  THEN [box.slots EXCEPT ![type] = @ + 1] ELSE box.slots

\* PAIR_INFO_GET: count the slot; if no type has room, store the setup and enter
\* normal mode.
PairInfoGet ==
  /\ box.mode = "PAIRING" /\ Event("PAIR_INFO_GET")
  /\ info' = NoIdx
  /\ LET slots == Count(box.cur_type)
         full  == \A type \in Types : slots[type] = Maximum(type)
     IN box' = Handled([box EXCEPT !.slots = slots, !.cur_type = "none",
                                   !.mode = IF full THEN "LEAVING" ELSE @])
  /\ UNCHANGED <<device, air, tries, hist>>

\* In normal mode a packet on pipe 0 is read and ignored.
IgnoreRequest ==
  /\ box.mode = "LEAVING" /\ box.event # NoEvent
  /\ box' = Handled(box)
  /\ UNCHANGED <<info, device, air, tries, hist>>

BoxEvent == PairReq \/ PairInfoGet \/ IgnoreRequest

\* interval_timer_event_handler.  Devices that send get TRIES packets on air from
\* one tick to the next.  If an acknowledgment is on its way, nrf_esb_stop_rx fails
\* and the driver is initialised: the FIFOs are empty and a pending event is gone.
BoxTick ==
  /\ Listening
  /\ air # NoPacket => tries = TRIES
  /\ tries' = 0
  /\ IF air.phase = "ack"
     THEN LET fault == IF box.event = NoEvent THEN "clipped" ELSE "preempted"
          IN /\ fault \in FAULTS /\ Records(fault)
             /\ info' = NoIdx /\ air' = [air EXCEPT !.phase = "clipped"]
     ELSE UNCHANGED <<info, air, hist>>
  /\ box' = IF box.mode = "LEAVING"
            THEN Handled([box EXCEPT !.mode = "NORMAL"])
            ELSE Handled([box EXCEPT !.ch = NextCh(@)])
  /\ UNCHANGED device

-----------------------------------------------------------------------------
(* The air *)

\* A packet that the box does not hear, on another channel or lost.
PacketMissed ==
  /\ air.phase = "packet" /\ Failed(air.from)
  /\ UNCHANGED <<box, info, hist>>

\* The acknowledgment takes longer than the handler of the box's event.
AckArrives ==
  /\ air.phase \in {"ack", "clipped"} /\ box.event = NoEvent
  /\ Acknowledged(air.from, air.info)
  /\ UNCHANGED <<box, info, hist>>

AckLost ==
  /\ air.phase \in {"ack", "clipped"} /\ box.event = NoEvent
  /\ IF air.phase = "clipped" THEN UNCHANGED hist
     ELSE "ack_lost" \in FAULTS /\ Records("ack_lost")
  /\ Failed(air.from)
  /\ UNCHANGED <<box, info>>

Next ==
  \/ \E d \in DEVICES : DoPairing(d) \/ PowerOff(d)
  \/ BoxHears \/ BoxEvent \/ BoxTick
  \/ PacketMissed \/ AckArrives \/ AckLost

Spec == Init /\ [][Next]_vars

\* Events are handled, every packet comes to an end and the timer of the box runs.
\* Not every request and not every acknowledgment is lost on air.  Nothing makes an
\* operator switch a device on or off.
Fairness ==
  /\ WF_vars(BoxEvent) /\ WF_vars(BoxTick) /\ WF_vars(PacketMissed)
  /\ SF_vars(BoxHears) /\ SF_vars(AckArrives)

FairSpec == Spec /\ Fairness

-----------------------------------------------------------------------------
(* Properties *)

\* Type invariant: slots and indices stay in their ranges.
TypeOK ==
  /\ box \in [mode : {"PAIRING", "LEAVING", "NORMAL"}, ch : Chs,
              slots : [Types -> Nat], cur_type : Types \cup {"none"},
              event : Events]
  /\ \A type \in Types : box.slots[type] <= Maximum(type)
  /\ info \in Infos
  /\ device \in [DEVICES -> DeviceStates]
  /\ air \in Exchanges \cup {NoPacket}
  /\ tries \in 0 .. TRIES
  /\ hist \subseteq FAULTS

\* Faults after which the index of a device and the slot of the box may differ.
Confused == hist \cap {"ack_lost", "power_off", "preempted"} # {}

\* Two devices never hold one index, whatever requests are lost and whenever the
\* timer of the box comes, unless an acknowledgment is lost on air, a device is
\* switched off in an exchange, or the timer comes before the box's event.
UniqueIndex ==
  ~Confused =>
    \A d, e \in DEVICES :
      d # e /\ device[d].idx # NoIdx => device[d].idx # device[e].idx

\* Every index a device holds is one the box has counted (so its data are expected
\* in every frame), under the same conditions.
IndexCounted ==
  ~Confused => \A d \in DEVICES : device[d].idx \in Counted \cup {NoIdx}

\* The index is one of the device's type, unless a device has left its offer to the
\* next one: switched off in an exchange, or with an offer it got for a PAIR_REQ
\* whose first acknowledgment was lost.
IndexFitsType ==
  hist \cap {"ack_lost", "power_off"} = {} =>
    \A d \in DEVICES : device[d].idx # NoIdx =>
      LET type == TypeOf(d)
      IN device[d].idx \in Base(type) + 1 .. Base(type) + Maximum(type)

\* A device is left waiting for an index only if its type has no slot left, or the
\* acknowledgment of one of its requests has been interfered with.
RefusedOnlyIfFull ==
  hist = {} =>
    \A d \in DEVICES : Stuck(d) => box.slots[TypeOf(d)] = Maximum(TypeOf(d))

\* README.md: "Devices use different addresses to send payload back to the BOX to
\* avoid cross talk."
DifferentAddresses ==
  \A d, e \in DEVICES :
    d # e /\ device[d].idx # NoIdx => device[d].idx # device[e].idx

\* The hopping device meets the hopping box: a device that asks is acknowledged, if
\* it is not switched off and the box does not leave the setup.
RequestAcknowledged ==
  \A d \in DEVICES :
    device[d].state = "SEND_REQ" ~> device[d].state # "SEND_REQ" \/ box.mode = "NORMAL"
=============================================================================
