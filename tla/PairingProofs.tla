--------------------------- MODULE PairingProofs ---------------------------
(***************************************************************************)
(* Theorems about Pairing, for any number of devices, slots and channels:  *)
(* which device gets which index, and when it gets none.                   *)
(***************************************************************************)
EXTENDS Pairing, TLAPS

-----------------------------------------------------------------------------
(* The inductive invariant.  Its parts hold as long as the faults are not  *)
(* among those that let a device lose the offer that was made to it.       *)

\* No device has left an offer behind.
Followed == hist \cap {"ack_lost", "power_off"} = {}

Full(type) == box.slots[type] = Maximum(type)
Fits(d, idx) == idx \in Base(TypeOf(d)) + 1 .. Base(TypeOf(d)) + Maximum(TypeOf(d))
Acked == air.phase \in {"ack", "clipped"}

\* The device whose packet is on air is the one that pairs, and it waits for the
\* answer to that packet.
AskerIsPairing ==
  air # NoPacket =>
    /\ \A d \in DEVICES : device[d].mode = "PAIRING" => d = air.from
    /\ device[air.from].mode = "PAIRING"
    /\ device[air.from].state =
         IF air.id = "PAIR_REQ" THEN "SEND_REQ" ELSE "WAIT_FOR_INFO"

\* The event of the box is about the packet that is being acknowledged, with the
\* information that was ready for it.
EventIsOfAir ==
  box.event # NoEvent =>
    /\ air.phase = "ack"
    /\ box.event = [id |-> air.id, type |-> TypeOf(air.from)]
    /\ air.info = info

\* An offer in the TX FIFO is for the device on air: made after its PAIR_REQ, and
\* gone when its PAIR_INFO_GET has been handled.
OfferIsForAsker ==
  info # NoIdx =>
    /\ box.mode = "PAIRING"
    /\ \/ air.phase = "ack" /\ air.id = "PAIR_REQ" /\ box.event = NoEvent
       \/ air.phase = "packet" /\ air.id = "PAIR_INFO_GET"
       \/ air.phase = "ack" /\ air.id = "PAIR_INFO_GET" /\ box.event # NoEvent
    /\ Fits(air.from, info)

\* An acknowledgment that carries an index answers PAIR_INFO_GET.
AckIsForAsker ==
  Acked /\ air.info # NoIdx => air.id = "PAIR_INFO_GET" /\ Fits(air.from, air.info)

\* An offer is the next slot of the type being paired, not yet counted; an index on
\* its way whose event has been handled is counted, and nobody has it yet.
OfferIsNew ==
  /\ info # NoIdx => /\ box.cur_type \in Types /\ Free(box.cur_type)
                     /\ info = Offer(box.cur_type)
  /\ Acked /\ air.info # NoIdx /\ box.event = NoEvent =>
       air.info \in Counted /\ \A d \in DEVICES : device[d].idx # air.info

\* A device that goes without an offer has a type with no slot left.
NoOfferIfFull ==
  /\ box.mode # "PAIRING" => \A type \in Types : Full(type)
  /\ air.phase # "clipped"
  /\ air # NoPacket =>
       \/ Full(TypeOf(air.from))
       \/ air.id = "PAIR_REQ" /\ (air.phase = "packet" \/ box.event # NoEvent)
       \/ info # NoIdx
       \/ Acked /\ air.info # NoIdx

HeldFits == \A d \in DEVICES : device[d].idx # NoIdx => Fits(d, device[d].idx)
HeldCounted == \A d \in DEVICES : device[d].idx \in Counted \cup {NoIdx}
HeldUnique ==
  \A d, e \in DEVICES : d # e /\ device[d].idx # NoIdx => device[d].idx # device[e].idx
StuckIfFull == \A d \in DEVICES : Stuck(d) => Full(TypeOf(d))

FollowedInv ==
  AskerIsPairing /\ EventIsOfAir /\ OfferIsForAsker /\ AckIsForAsker /\ HeldFits
CountedInv == OfferIsNew /\ HeldCounted /\ HeldUnique
FullInv    == NoOfferIfFull /\ StuckIfFull

PairingInv ==
  /\ TypeOK
  /\ Followed => FollowedInv
  /\ ~Confused => CountedInv
  /\ hist = {} => FullInv

-----------------------------------------------------------------------------
(* Types of the parts *)

\* The channels are numbered cyclically.
LEMMA ChType ==
  /\ 0 \in Chs
  /\ \A ch \in Chs : NextCh(ch) \in Chs
  BY ChannelAssumption DEF Chs, NextCh

\* What is on air: nothing, a packet, or a packet's acknowledgment.
LEMMA AirType ==
  ASSUME TypeOK
  PROVE  /\ air = NoPacket <=> air.phase = "none"
         /\ air # NoPacket => /\ air.phase \in {"packet", "ack", "clipped"}
                              /\ air.from \in DEVICES
                              /\ air.id \in {"PAIR_REQ", "PAIR_INFO_GET"}
         /\ air.phase \in {"ack", "clipped"} =>
              /\ air.info \in Infos
              /\ air \in [phase : {"ack", "clipped"}, from : DEVICES,
                          id : {"PAIR_REQ", "PAIR_INFO_GET"}, info : Infos]
  BY DEF TypeOK, Exchanges, NoPacket

\* A packet that is sent is on air.
LEMMA PacketType ==
  ASSUME NEW d \in DEVICES, NEW id \in {"PAIR_REQ", "PAIR_INFO_GET"}
  PROVE  /\ Packet(d, id) \in Exchanges
         /\ Packet(d, id).phase = "packet" /\ Packet(d, id) # NoPacket
         /\ Packet(d, id).from = d /\ Packet(d, id).id = id
  BY DEF Packet, Exchanges, NoPacket

\* The bounds of the two types of devices.
LEMMA TypeOfType ==
  /\ \A d : TypeOf(d) \in Types
  /\ \A type \in Types : Maximum(type) \in Nat /\ Base(type) \in Nat
  BY SlotAssumption DEF TypeOf, Types, Maximum, Base

\* The numbers of slots taken.
LEMMA SlotType ==
  ASSUME TypeOK, NEW type \in Types
  PROVE  /\ box.slots[type] \in Nat
         /\ box.slots[type] <= Maximum(type)
         /\ box.slots = [t \in Types |-> box.slots[t]]
  BY DEF TypeOK

\* What the box offers for a free slot is an index of the type.
LEMMA OfferType ==
  ASSUME TypeOK, NEW type \in Types, Free(type)
  PROVE  /\ Offer(type) \in Indices
         /\ Offer(type) \in Base(type) + 1 .. Base(type) + Maximum(type)
         /\ Offer(type) # NoIdx
<1>1. /\ box.slots[type] \in Nat /\ box.slots[type] < Maximum(type)
  BY SlotType DEF Free
<1>. QED
  BY <1>1, SlotAssumption, DeviceAssumption DEF Types, Offer, Base, Maximum, Indices

\* Counting takes a free slot of the type, or none.
LEMMA CountType ==
  ASSUME TypeOK, NEW type \in Types \cup {"none"}
  PROVE  /\ Count(type) \in [Types -> Nat]
         /\ \A t \in Types : box.slots[t] <= Count(type)[t] /\ Count(type)[t] <= Maximum(t)
         /\ type \in Types /\ Free(type) =>
              Count(type) = [box.slots EXCEPT ![type] = @ + 1]
<1>1. "none" \notin Types
  BY DEF Types
<1>2. box.slots \in [Types -> Nat] /\ \A t \in Types : box.slots[t] <= Maximum(t)
  BY DEF TypeOK
<1>3. CASE type # "none" /\ Free(type)
  <2>1. Count(type) = [box.slots EXCEPT ![type] = @ + 1]
    BY <1>3 DEF Count
  <2>2. box.slots[type] + 1 <= Maximum(type)
    BY <1>2, <1>3, TypeOfType DEF Free
  <2>. QED
    BY <1>2, <1>3, <2>1, <2>2, TypeOfType
<1>4. CASE ~(type # "none" /\ Free(type))
  BY <1>1, <1>2, <1>4, TypeOfType DEF Count
<1>. QED
  BY <1>3, <1>4

\* Faults are recorded and never forgotten.
LEMMA RecordsType ==
  ASSUME hist \subseteq FAULTS, NEW fault \in FAULTS, Records(fault)
  PROVE  hist' \subseteq FAULTS /\ hist \subseteq hist'
  BY DEF Records

\* What a device does when its packet has failed.
LEMMA FailedType ==
  ASSUME TypeOK, NEW d \in DEVICES, Failed(d)
  PROVE  /\ device' \in [DEVICES -> DeviceStates]
         /\ air' \in Exchanges \cup {NoPacket}
         /\ tries' \in 0 .. TRIES
         /\ \A e \in DEVICES : /\ device'[e].mode = device[e].mode
                              /\ device'[e].state = device[e].state
                              /\ device'[e].idx = device[e].idx
         /\ device[d].mode = "PAIRING" =>
              air' = Packet(d, IF device[d].state = "WAIT_FOR_INFO"
                               THEN "PAIR_INFO_GET" ELSE "PAIR_REQ")
<1>. DEFINE id == IF device[d].state = "WAIT_FOR_INFO" THEN "PAIR_INFO_GET" ELSE "PAIR_REQ"
<1>0. device \in [DEVICES -> DeviceStates]
      /\ tries \in 0 .. TRIES
  BY DEF TypeOK
<1>. USE DEF DeviceStates
<1>1. CASE device[d].mode = "PAIRING"
  <2>1. /\ device' = [device EXCEPT ![d].ch = NextCh(device[d].ch)]
        /\ Sends(Packet(d, id))
    BY <1>1 DEF Failed
  <2>2. NextCh(device[d].ch) \in Chs
    BY <1>0, ChType
  <2>3. air' \in Exchanges /\ air' = Packet(d, id)
    BY <2>1, PacketType DEF Sends
  <2>4. tries' \in 0 .. TRIES
    BY <1>0, <2>1, ChannelAssumption DEF Sends
  <2>. QED
    BY <1>0, <2>1, <2>2, <2>3, <2>4
<1>2. CASE device[d].mode # "PAIRING"
  BY <1>0, <1>2, ChannelAssumption DEF Failed, Silent
<1>. QED
  BY <1>1, <1>2

\* What a device does when its packet has been acknowledged.
LEMMA AcknowledgedType ==
  ASSUME TypeOK, NEW d \in DEVICES, NEW payload \in Infos, Acknowledged(d, payload)
  PROVE  /\ device' \in [DEVICES -> DeviceStates]
         /\ air' \in Exchanges \cup {NoPacket}
         /\ tries' \in 0 .. TRIES
         /\ \A e \in DEVICES : e # d => device'[e] = device[e]
         /\ device[d].mode = "PAIRING" =>
              IF payload = NoIdx
              THEN /\ device'[d].mode = "PAIRING" /\ device'[d].state = "WAIT_FOR_INFO"
                   /\ device'[d].idx = device[d].idx
              ELSE /\ device'[d].mode = "NORMAL" /\ device'[d].idx = payload
         /\ air' = IF device[d].state = "SEND_REQ" THEN Packet(d, "PAIR_INFO_GET")
                   ELSE NoPacket
<1>0. device \in [DEVICES -> DeviceStates]
      /\ tries \in 0 .. TRIES
  BY DEF TypeOK
<1>1. /\ air' = IF device[d].state = "SEND_REQ" THEN Packet(d, "PAIR_INFO_GET")
                ELSE NoPacket
      /\ tries' \in 0 .. TRIES
  BY <1>0, ChannelAssumption DEF Acknowledged, Sends, Silent
<1>2. air' \in Exchanges \cup {NoPacket}
  BY <1>1, PacketType
<1>3. device' =
        IF device[d].mode # "PAIRING" THEN device
        ELSE IF payload = NoIdx
             THEN [device EXCEPT ![d].state = "WAIT_FOR_INFO"]
             ELSE [device EXCEPT ![d].mode = "NORMAL", ![d].state = "NONE",
                                 ![d].ch = 0, ![d].idx = payload]
  BY DEF Acknowledged, InfoReceived
<1>. USE DEF DeviceStates
<1>4. CASE device[d].mode # "PAIRING"
  BY <1>0, <1>1, <1>2, <1>3, <1>4
<1>5. CASE device[d].mode = "PAIRING" /\ payload = NoIdx
  BY <1>0, <1>1, <1>2, <1>3, <1>5
<1>6. CASE device[d].mode = "PAIRING" /\ payload # NoIdx
  <2>. DEFINE normal == [device EXCEPT ![d].mode = "NORMAL"]
              reset  == [normal EXCEPT ![d].state = "NONE"]
              home   == [reset EXCEPT ![d].ch = 0]
  <2>1. device' = [home EXCEPT ![d].idx = payload]
    BY <1>3, <1>6
  <2>2. /\ normal \in [DEVICES -> DeviceStates]
        /\ normal[d].mode = "NORMAL"
        /\ \A e \in DEVICES : e # d => normal[e] = device[e]
    BY <1>0
  <2>3. /\ reset \in [DEVICES -> DeviceStates]
        /\ reset[d].mode = "NORMAL"
        /\ \A e \in DEVICES : e # d => reset[e] = device[e]
    <3>. HIDE DEF normal
    <3>. QED
      BY <2>2
  <2>4. /\ home \in [DEVICES -> DeviceStates]
        /\ home[d].mode = "NORMAL"
        /\ \A e \in DEVICES : e # d => home[e] = device[e]
    <3>. HIDE DEF reset
    <3>. QED
      BY <2>3, ChType
  <2>. HIDE DEF home
  <2>. QED
    BY <1>1, <1>2, <1>6, <2>1, <2>4
<1>. QED
  BY <1>4, <1>5, <1>6

\* A device that is switched on or off has the state of a device.
LEMMA RestartedType ==
  ASSUME device \in [DEVICES -> DeviceStates], NEW d \in DEVICES,
         NEW mode \in {"OFF", "PAIRING", "NORMAL"},
         NEW state \in {"NONE", "SEND_REQ", "WAIT_FOR_INFO"}
  PROVE  [device EXCEPT ![d].mode = mode, ![d].state = state, ![d].ch = 0]
           \in [DEVICES -> DeviceStates]
<1>. DEFINE moded  == [device EXCEPT ![d].mode = mode]
            stated == [moded EXCEPT ![d].state = state]
<1>1. moded \in [DEVICES -> DeviceStates]
  BY DEF DeviceStates
<1>2. stated \in [DEVICES -> DeviceStates]
  <2>. HIDE DEF moded
  <2>. QED
    BY <1>1 DEF DeviceStates
<1>3. [stated EXCEPT ![d].ch = 0] \in [DEVICES -> DeviceStates]
  <2>. HIDE DEF stated
  <2>. QED
    BY <1>2, ChType DEF DeviceStates
<1>. QED
  BY <1>3

-----------------------------------------------------------------------------
(* Type correctness *)

LEMMA PairingTypeInit == Init => TypeOK
<1>. SUFFICES ASSUME Init PROVE TypeOK
  OBVIOUS
<1>1. box \in [mode : {"PAIRING", "LEAVING", "NORMAL"}, ch : Chs,
              slots : [Types -> Nat], cur_type : Types \cup {"none"}, event : Events]
      /\ \A type \in Types : box.slots[type] <= Maximum(type)
  BY ChType, TypeOfType DEF Init, Events, NoEvent, Types
<1>2. device \in [DEVICES -> DeviceStates]
  BY ChType DEF Init, DeviceStates, Infos
<1>. QED
  BY <1>1, <1>2, ChannelAssumption DEF Init, TypeOK, Infos, NoPacket

LEMMA PairingTypeStep == TypeOK /\ [Next]_vars => TypeOK'
<1>. SUFFICES ASSUME TypeOK, [Next]_vars PROVE TypeOK'
  OBVIOUS
<1>0. /\ box \in [mode : {"PAIRING", "LEAVING", "NORMAL"}, ch : Chs,
                 slots : [Types -> Nat], cur_type : Types \cup {"none"}, event : Events]
      /\ \A type \in Types : box.slots[type] <= Maximum(type)
      /\ info \in Infos
      /\ device \in [DEVICES -> DeviceStates]
      /\ air \in Exchanges \cup {NoPacket}
      /\ tries \in 0 .. TRIES /\ 0 \in 0 .. TRIES /\ TRIES \in 0 .. TRIES
      /\ hist \subseteq FAULTS
      /\ NoEvent \in Events
  BY ChannelAssumption DEF TypeOK, Events, NoEvent, Types
<1>1. CASE UNCHANGED vars
  BY <1>0, <1>1 DEF vars, TypeOK
<1>2. ASSUME NEW d \in DEVICES, DoPairing(d) PROVE TypeOK'
  <2>1. device' \in [DEVICES -> DeviceStates]
    <3>1. device' = [device EXCEPT ![d].mode = "PAIRING", ![d].state = "SEND_REQ",
                                   ![d].ch = 0]
      BY <1>2 DEF DoPairing
    <3>. QED
      BY <1>0, <3>1, RestartedType, Zenon
  <2>2. air' \in Exchanges
    BY <1>2, PacketType DEF DoPairing
  <2>. QED
    <3>1. UNCHANGED <<box, info, hist>> /\ tries' = TRIES
      BY <1>2 DEF DoPairing
    <3>. QED
      BY <1>0, <2>1, <2>2, <3>1 DEF TypeOK
<1>3. ASSUME NEW d \in DEVICES, PowerOff(d) PROVE TypeOK'
  <2>1. device' \in [DEVICES -> DeviceStates]
    <3>1. device' = [device EXCEPT ![d].mode = "OFF", ![d].state = "NONE", ![d].ch = 0]
      BY <1>3 DEF PowerOff
    <3>. QED
      BY <1>0, <3>1, RestartedType, Zenon
  <2>2. hist' \subseteq FAULTS
    BY <1>0, <1>3 DEF PowerOff, Records
  <2>. QED
    <3>1. UNCHANGED <<box, info>> /\ air' = NoPacket /\ tries' = 0
      BY <1>3 DEF PowerOff, Silent
    <3>. QED
      BY <1>0, <2>1, <2>2, <3>1 DEF TypeOK
<1>4. CASE BoxHears
  <2>1. air.from \in DEVICES /\ air.id \in {"PAIR_REQ", "PAIR_INFO_GET"}
    BY <1>4, AirType DEF BoxHears, NoPacket
  <2>2. [id |-> air.id, type |-> TypeOf(air.from)] \in Events
    BY <2>1, TypeOfType DEF Events
  <2>3. box' \in [mode : {"PAIRING", "LEAVING", "NORMAL"}, ch : Chs,
                 slots : [Types -> Nat], cur_type : Types \cup {"none"}, event : Events]
        /\ box'.slots = box.slots
    BY <1>0, <1>4, <2>2 DEF BoxHears
  <2>4. air' \in Exchanges
    BY <1>0, <1>4, <2>1 DEF BoxHears, Exchanges
  <2>. QED
    BY <1>0, <1>4, <2>3, <2>4 DEF BoxHears, TypeOK
<1>5. CASE PairReq
  <2>. DEFINE type == box.event.type
  <2>1. type \in Types
    BY <1>0 DEF Events
  <2>2. box' \in [mode : {"PAIRING", "LEAVING", "NORMAL"}, ch : Chs,
                 slots : [Types -> Nat], cur_type : Types \cup {"none"}, event : Events]
        /\ box'.slots = box.slots
    BY <1>0, <1>5, <2>1 DEF PairReq, Handled
  <2>3. info' \in Infos
    BY <1>0, <1>5, <2>1, OfferType DEF PairReq, Infos
  <2>. QED
    BY <1>0, <1>5, <2>2, <2>3 DEF PairReq, TypeOK
<1>6. CASE PairInfoGet
  <2>. DEFINE slots == Count(box.cur_type)
  <2>1. slots \in [Types -> Nat] /\ \A type \in Types : slots[type] <= Maximum(type)
    BY <1>0, CountType
  <2>2. box' \in [mode : {"PAIRING", "LEAVING", "NORMAL"}, ch : Chs,
                 slots : [Types -> Nat], cur_type : Types \cup {"none"}, event : Events]
        /\ box'.slots = slots
    <3>. HIDE DEF slots
    <3>. QED
      BY <1>0, <1>6, <2>1 DEF PairInfoGet, Handled, slots
  <2>. QED
    BY <1>0, <1>6, <2>1, <2>2 DEF PairInfoGet, TypeOK, Infos
<1>7. CASE IgnoreRequest
  BY <1>0, <1>7 DEF IgnoreRequest, Handled, TypeOK
<1>8. CASE BoxTick
  <2>1. box' \in [mode : {"PAIRING", "LEAVING", "NORMAL"}, ch : Chs,
                 slots : [Types -> Nat], cur_type : Types \cup {"none"}, event : Events]
        /\ box'.slots = box.slots
    BY <1>0, <1>8, ChType DEF BoxTick, Handled
  <2>2. info' \in Infos /\ hist' \subseteq FAULTS
    BY <1>0, <1>8 DEF BoxTick, Infos, Records
  <2>3. air' \in Exchanges \cup {NoPacket}
    <3>1. air.phase = "ack" => [air EXCEPT !.phase = "clipped"] \in Exchanges
      BY AirType DEF Exchanges
    <3>. QED
      BY <1>0, <1>8, <3>1 DEF BoxTick
  <2>. QED
    BY <1>0, <1>8, <2>1, <2>2, <2>3 DEF BoxTick, TypeOK
<1>9. CASE PacketMissed
  <2>1. air.from \in DEVICES /\ Failed(air.from)
    BY <1>9, AirType DEF PacketMissed, NoPacket
  <2>. QED
    BY <1>0, <1>9, <2>1, FailedType DEF PacketMissed, TypeOK
<1>10. CASE AckArrives
  <2>1. air.from \in DEVICES /\ air.info \in Infos /\ Acknowledged(air.from, air.info)
    BY <1>10, AirType DEF AckArrives, NoPacket
  <2>. QED
    BY <1>0, <1>10, <2>1, AcknowledgedType DEF AckArrives, TypeOK
<1>11. CASE AckLost
  <2>1. air.from \in DEVICES /\ Failed(air.from)
    BY <1>11, AirType DEF AckLost, NoPacket
  <2>2. hist' \subseteq FAULTS
    BY <1>0, <1>11 DEF AckLost, Records
  <2>. QED
    BY <1>0, <1>11, <2>1, <2>2, FailedType DEF AckLost, TypeOK
<1>. QED
  BY <1>1, <1>2, <1>3, <1>4, <1>5, <1>6, <1>7, <1>8, <1>9, <1>10, <1>11
     DEF Next, BoxEvent

\* Slots and indices stay in their ranges, whatever goes wrong.
THEOREM TypeCorrect == Spec => []TypeOK
  BY PairingTypeInit, PairingTypeStep, PTL DEF Spec

-----------------------------------------------------------------------------
(* The steps *)

\* Faults are never forgotten, so what holds without them has held before.
LEMMA HistGrows ==
  ASSUME TypeOK, [Next]_vars
  PROVE  /\ hist \subseteq hist'
         /\ Followed' => Followed
         /\ ~Confused' => ~Confused /\ Followed /\ Followed'
         /\ hist' = {} => hist = {} /\ Followed
<1>1. hist \subseteq hist'
  BY DEF Next, vars, DoPairing, PowerOff, Records, BoxHears, BoxEvent, PairReq, PairInfoGet,
     IgnoreRequest, BoxTick, PacketMissed, AckArrives, AckLost
<1>. QED
  BY <1>1 DEF Followed, Confused

\* The device on air, its packet, the offer and the event of the box belong together.
LEMMA FollowedStep ==
  ASSUME PairingInv, [Next]_vars, Followed'
  PROVE  FollowedInv'
<1>0. TypeOK /\ Followed /\ FollowedInv
  BY HistGrows DEF PairingInv
<1>. DEFINE pairs(d) == device[d].mode = "PAIRING"
<1>. USE DEF FollowedInv, AskerIsPairing, EventIsOfAir, OfferIsForAsker, AckIsForAsker, HeldFits,
         Acked, Fits
<1>a. /\ air = NoPacket <=> air.phase = "none"
      /\ air # NoPacket => /\ air.phase \in {"packet", "ack", "clipped"}
                           /\ air.from \in DEVICES
                           /\ air.id \in {"PAIR_REQ", "PAIR_INFO_GET"}
  BY <1>0, AirType
<1>b. device \in [DEVICES -> DeviceStates]
  BY <1>0 DEF TypeOK
<1>1. CASE UNCHANGED vars
  BY <1>0, <1>1 DEF vars
<1>2. ASSUME NEW d \in DEVICES, DoPairing(d) PROVE FollowedInv'
  <2>1. info = NoIdx /\ box.event = NoEvent
    BY <1>0, <1>2, <1>a DEF DoPairing
  <2>2. /\ air' # NoPacket /\ air'.from = d /\ air'.id = "PAIR_REQ" /\ air'.phase = "packet"
    BY <1>2, PacketType DEF DoPairing
  <2>3. /\ device'[d].mode = "PAIRING" /\ device'[d].state = "SEND_REQ"
        /\ \A e \in DEVICES : device'[e].idx = device[e].idx
        /\ \A e \in DEVICES : device'[e].mode = "PAIRING" => e = d
    BY <1>2, <1>b DEF DoPairing, DeviceStates
  <2>. QED
    BY <1>0, <1>2, <2>1, <2>2, <2>3 DEF DoPairing
<1>3. ASSUME NEW d \in DEVICES, PowerOff(d) PROVE FollowedInv'
  <2>1. Stuck(d)
    BY <1>3 DEF PowerOff, Records, Followed
  <2>2. info = NoIdx /\ box.event = NoEvent
    BY <1>0, <2>1, <1>a DEF Stuck
  <2>3. \A e \in DEVICES : device'[e].idx = device[e].idx
    BY <1>3, <1>b DEF PowerOff, DeviceStates
  <2>4. air' = NoPacket /\ air'.phase = "none"
    BY <1>3 DEF PowerOff, Silent, NoPacket
  <2>. QED
    BY <1>0, <1>3, <2>2, <2>3, <2>4 DEF PowerOff
<1>4. CASE BoxHears
  <2>1. /\ air'.phase = "ack" /\ air'.from = air.from /\ air'.id = air.id /\ air'.info = info
        /\ air' # NoPacket
    BY <1>4 DEF BoxHears, NoPacket
  <2>2. /\ box'.event = [id |-> air.id, type |-> TypeOf(air.from)]
        /\ box'.mode = box.mode
    BY <1>0, <1>4 DEF BoxHears, TypeOK
  <2>3. box'.event # NoEvent
    BY <2>2, <1>4, <1>a DEF NoEvent, BoxHears
  <2>. QED
    BY <1>0, <1>4, <1>a, <2>1, <2>2, <2>3 DEF BoxHears
<1>5. CASE PairReq
  <2>1. /\ air.phase = "ack" /\ air.id = "PAIR_REQ" /\ box.event.type = TypeOf(air.from)
        /\ air.info = info /\ info = NoIdx
    BY <1>0, <1>5 DEF PairReq, Event
  <2>2. box'.event = NoEvent /\ box'.mode = "PAIRING"
    BY <1>0, <1>5 DEF PairReq, Handled, TypeOK
  <2>3. info' # NoIdx => Fits(air.from, info')
    BY <1>0, <1>5, <2>1, OfferType, TypeOfType DEF PairReq
  <2>. QED
    BY <1>0, <1>5, <2>1, <2>2, <2>3 DEF PairReq
<1>6. CASE PairInfoGet
  <2>1. box'.event = NoEvent
    BY <1>0, <1>6 DEF PairInfoGet, Handled, TypeOK
  <2>. QED
    BY <1>0, <1>6, <2>1 DEF PairInfoGet
<1>7. CASE IgnoreRequest
  <2>1. box'.event = NoEvent /\ info = NoIdx
    BY <1>0, <1>7 DEF IgnoreRequest, Handled, TypeOK
  <2>. QED
    BY <1>0, <1>7, <2>1 DEF IgnoreRequest
<1>8. CASE BoxTick
  <2>1. box'.event = NoEvent /\ (box.mode = "PAIRING" => box'.mode = "PAIRING")
    BY <1>0, <1>8 DEF BoxTick, Handled, TypeOK
  <2>2. CASE air.phase = "ack"
    <3>1. /\ info' = NoIdx /\ air'.phase = "clipped" /\ air'.from = air.from
          /\ air'.id = air.id /\ air'.info = air.info /\ air' # NoPacket
      BY <1>0, <1>8, <2>2, AirType DEF BoxTick, NoPacket
    <3>. QED
      BY <1>0, <1>8, <1>a, <2>1, <2>2, <3>1 DEF BoxTick
  <2>3. CASE air.phase # "ack"
    <3>1. info' = info /\ air' = air
      BY <1>8, <2>3 DEF BoxTick
    <3>. QED
      BY <1>0, <1>8, <2>1, <2>3, <3>1 DEF BoxTick
  <2>. QED
    BY <2>2, <2>3
<1>9. ASSUME Failed(air.from), air.phase \in {"packet", "ack", "clipped"},
             UNCHANGED <<box, info>>,
             info # NoIdx => air.phase = "packet", box.event = NoEvent
      PROVE  FollowedInv'
  <2>1. air.from \in DEVICES /\ air # NoPacket
    BY <1>9, <1>a
  <2>2. air' = Packet(air.from, air.id)
    BY <1>0, <1>9, <1>a, <2>1, FailedType
  <2>3. /\ air' # NoPacket /\ air'.from = air.from /\ air'.id = air.id /\ air'.phase = "packet"
    BY <2>1, <2>2, <1>a, PacketType
  <2>4. \A e \in DEVICES : /\ device'[e].mode = device[e].mode
                           /\ device'[e].state = device[e].state
                           /\ device'[e].idx = device[e].idx
    BY <1>0, <1>9, <2>1, FailedType
  <2>. QED
    BY <1>0, <1>9, <2>1, <2>3, <2>4
<1>10. CASE PacketMissed
  <2>1. air.phase = "packet" /\ box.event = NoEvent
    BY <1>0, <1>10 DEF PacketMissed
  <2>. QED
    BY <1>9, <1>10, <2>1 DEF PacketMissed
<1>11. CASE AckLost
  <2>1. air.phase \in {"ack", "clipped"} /\ box.event = NoEvent
    BY <1>11 DEF AckLost
  <2>2. air.phase = "clipped"
    BY <1>11, <2>1 DEF AckLost, Records, Followed
  <2>3. info = NoIdx
    BY <1>0, <2>2
  <2>. QED
    BY <1>9, <1>11, <2>1, <2>3 DEF AckLost
<1>12. CASE AckArrives
  <2>1. /\ air.from \in DEVICES /\ air # NoPacket /\ air.info \in Infos
        /\ Acked /\ box.event = NoEvent
        /\ Acknowledged(air.from, air.info)
    BY <1>0, <1>12, <1>a, AirType DEF AckArrives
  <2>2. /\ \A e \in DEVICES : e # air.from => device'[e] = device[e]
        /\ air' = IF air.id = "PAIR_REQ" THEN Packet(air.from, "PAIR_INFO_GET") ELSE NoPacket
        /\ IF air.info = NoIdx
           THEN /\ device'[air.from].mode = "PAIRING"
                /\ device'[air.from].state = "WAIT_FOR_INFO"
                /\ device'[air.from].idx = device[air.from].idx
           ELSE /\ device'[air.from].mode = "NORMAL"
                /\ device'[air.from].idx = air.info
    BY <1>0, <2>1, AcknowledgedType
  <2>3. CASE air.id = "PAIR_REQ"
    <3>1. air.info = NoIdx
      BY <1>0, <2>1, <2>3
    <3>2. /\ air' # NoPacket /\ air'.from = air.from /\ air'.id = "PAIR_INFO_GET"
          /\ air'.phase = "packet"
      BY <2>1, <2>2, <2>3, PacketType
    <3>. QED
      BY <1>0, <1>12, <2>1, <2>2, <2>3, <3>1, <3>2 DEF AckArrives
  <2>4. CASE air.id # "PAIR_REQ"
    <3>1. air' = NoPacket /\ air'.phase = "none"
      BY <2>2, <2>4 DEF NoPacket
    <3>2. info = NoIdx
      BY <1>0, <2>1, <2>4
    <3>. QED
      BY <1>0, <1>12, <2>1, <2>2, <3>1, <3>2 DEF AckArrives
  <2>. QED
    BY <2>3, <2>4
<1>. QED
  BY <1>1, <1>2, <1>3, <1>4, <1>5, <1>6, <1>7, <1>8, <1>10, <1>11, <1>12
     DEF Next, BoxEvent

\* The indices counted, one by one.
LEMMA CountedIs ==
  \A i : i \in Counted <=>
         \E type \in Types : i \in Base(type) + 1 .. Base(type) + box.slots[type]
  BY DEF Counted

\* What is offered is not counted yet: the types number their slots apart.
LEMMA OfferNotCounted ==
  ASSUME TypeOK, NEW type \in Types, Free(type)
  PROVE  Offer(type) \notin Counted
<1>1. ASSUME NEW t \in Types
      PROVE  Offer(type) \notin Base(t) + 1 .. Base(t) + box.slots[t]
  <2>1. /\ box.slots[type] \in Nat /\ box.slots[type] < Maximum(type)
        /\ box.slots[t] \in Nat /\ box.slots[t] <= Maximum(t)
    BY SlotType DEF Free
  <2>. QED
    BY <2>1, SlotAssumption DEF Types, Offer, Base, Maximum
<1>. QED
  BY <1>1, CountedIs

\* What is counted stays counted while no number of slots falls.
LEMMA CountedGrows ==
  ASSUME TypeOK, TypeOK', \A t \in Types : box.slots[t] <= box.slots'[t]
  PROVE  Counted \subseteq Counted'
<1>1. ASSUME NEW i \in Counted PROVE i \in Counted'
  <2>1. PICK t \in Types : i \in Base(t) + 1 .. Base(t) + box.slots[t]
    BY CountedIs
  <2>2. /\ box.slots[t] \in Nat /\ box.slots'[t] \in Nat /\ Base(t) \in Nat
        /\ box.slots[t] <= box.slots'[t]
    BY TypeOfType DEF TypeOK
  <2>3. i \in Base(t) + 1 .. Base(t) + box.slots'[t]
    BY <2>1, <2>2
  <2>. QED
    BY <2>3 DEF Counted
<1>. QED
  BY <1>1

\* The numbers of slots taken never fall, and change with PAIR_INFO_GET alone.
LEMMA SlotsGrow ==
  ASSUME TypeOK, [Next]_vars
  PROVE  /\ \A t \in Types : box.slots[t] <= box.slots'[t]
         /\ ~PairInfoGet => box'.slots = box.slots
<1>1. CASE PairInfoGet
  <2>. DEFINE slots == Count(box.cur_type)
  <2>1. \A t \in Types : box.slots[t] <= slots[t]
    BY CountType DEF TypeOK
  <2>2. box'.slots = slots
    <3>. HIDE DEF slots
    <3>. QED
      BY <1>1 DEF PairInfoGet, Handled, TypeOK, slots
  <2>. QED
    BY <1>1, <2>1, <2>2
<1>2. CASE ~PairInfoGet
  <2>1. box'.slots = box.slots
    BY <1>2 DEF TypeOK, Next, vars, DoPairing, PowerOff, BoxHears, BoxEvent, PairReq,
       IgnoreRequest, Handled, BoxTick, PacketMissed, AckArrives, AckLost
  <2>2. box.slots \in [Types -> Nat]
    BY DEF TypeOK
  <2>. QED
    BY <2>1, <2>2
<1>. QED
  BY <1>1, <1>2

\* An index is offered once, counted when it is handed out, and held by one device.
LEMMA CountedStep ==
  ASSUME PairingInv, [Next]_vars, ~Confused'
  PROVE  CountedInv'
<1>0. /\ TypeOK /\ TypeOK' /\ ~Confused /\ Followed /\ FollowedInv /\ FollowedInv'
      /\ CountedInv
  BY HistGrows, FollowedStep, PairingTypeStep DEF PairingInv
<1>. USE DEF CountedInv, OfferIsNew, HeldCounted, HeldUnique, Acked
<1>a. Counted \subseteq Counted' /\ (~PairInfoGet => box'.slots = box.slots)
  BY <1>0, SlotsGrow, CountedGrows
<1>b. device \in [DEVICES -> DeviceStates]
  BY <1>0 DEF TypeOK
<1>c. \A type : /\ box'.slots = box.slots => (Free(type) <=> Free(type)')
                /\ box'.slots = box.slots => Offer(type)' = Offer(type)
  BY DEF Free, Offer
<1>1. CASE UNCHANGED vars
  <2>1. /\ box' = box /\ info' = info /\ device' = device /\ air' = air
    BY <1>1 DEF vars
  <2>2. Counted' = Counted
    BY <2>1 DEF Counted
  <2>3. OfferIsNew'
    BY <1>0, <2>1, <2>2 DEF Free, Offer
  <2>4. HeldCounted' /\ HeldUnique'
    BY <1>0, <2>1, <2>2
  <2>. QED
    BY <2>3, <2>4
<1>2. ASSUME NEW d \in DEVICES, DoPairing(d) PROVE CountedInv'
  <2>1. ~Acked' /\ info' = NoIdx
    BY <1>0, <1>2, AirType, PacketType DEF DoPairing, FollowedInv, OfferIsForAsker
  <2>2. \A e \in DEVICES : device'[e].idx = device[e].idx
    BY <1>2, <1>b DEF DoPairing, DeviceStates
  <2>. QED
    BY <1>0, <1>a, <2>1, <2>2
<1>3. ASSUME NEW d \in DEVICES, PowerOff(d) PROVE CountedInv'
  <2>1. ~Acked' /\ air' = NoPacket /\ air'.phase = "none"
    BY <1>3 DEF PowerOff, Silent, NoPacket
  <2>2. info' = NoIdx
    BY <1>0, <2>1 DEF FollowedInv, OfferIsForAsker
  <2>3. \A e \in DEVICES : device'[e].idx = device[e].idx
    BY <1>3, <1>b DEF PowerOff, DeviceStates
  <2>. QED
    BY <1>0, <1>a, <2>1, <2>2, <2>3
<1>4. CASE BoxHears
  <2>1. box'.event # NoEvent /\ box'.slots = box.slots /\ box'.cur_type = box.cur_type
    <3>1. box'.event = [id |-> air.id, type |-> TypeOf(air.from)]
          /\ box'.slots = box.slots /\ box'.cur_type = box.cur_type
      BY <1>0, <1>4 DEF BoxHears, TypeOK
    <3>. QED
      BY <1>0, <1>4, <3>1, AirType DEF BoxHears, NoEvent
  <2>. QED
    BY <1>0, <1>4, <1>a, <1>c, <2>1 DEF BoxHears
<1>5. CASE PairReq
  <2>. DEFINE type == box.event.type
  <2>1. /\ box'.event = NoEvent /\ box'.slots = box.slots
        /\ box'.cur_type = IF Free(type) THEN type ELSE "none"
    BY <1>0, <1>5 DEF PairReq, Handled, TypeOK
  <2>2. air.phase = "ack" /\ air.id = "PAIR_REQ" /\ air.info = NoIdx /\ info = NoIdx
    BY <1>0, <1>5 DEF PairReq, Event, FollowedInv, EventIsOfAir, OfferIsForAsker
  <2>3. type \in Types
    BY <1>0 DEF TypeOK, Events
  <2>4. info' # NoIdx => Free(type) /\ info' = Offer(type)
    BY <1>5, <2>2 DEF PairReq
  <2>. QED
    BY <1>0, <1>5, <1>a, <1>c, <2>1, <2>2, <2>3, <2>4 DEF PairReq
<1>6. CASE PairInfoGet
  <2>. DEFINE type == box.cur_type
              slots == Count(type)
  <2>1. box'.event = NoEvent /\ info' = NoIdx /\ box'.slots = slots
        /\ air' = air /\ device' = device
    <3>. HIDE DEF slots
    <3>. QED
      BY <1>0, <1>6 DEF PairInfoGet, Handled, TypeOK, slots
  <2>2. air.info = info /\ Acked
    BY <1>0, <1>6 DEF PairInfoGet, Event, FollowedInv, EventIsOfAir
  <2>3. ASSUME air.info # NoIdx
        PROVE  air.info \in Counted' /\ air.info \notin Counted
    <3>1. type \in Types /\ Free(type) /\ air.info = Offer(type)
      BY <1>0, <2>2, <2>3
    <3>2. air.info \notin Counted
      BY <1>0, <3>1, OfferNotCounted
    <3>3. slots = [box.slots EXCEPT ![type] = @ + 1]
      BY <1>0, <3>1, CountType
    <3>4. box'.slots[type] = box.slots[type] + 1
      BY <1>0, <2>1, <3>1, <3>3 DEF TypeOK
    <3>5. box.slots[type] \in Nat /\ Base(type) \in Nat
      BY <1>0, <3>1, SlotType, TypeOfType
    <3>6. air.info \in Base(type) + 1 .. Base(type) + box'.slots[type]
      BY <3>1, <3>4, <3>5 DEF Offer
    <3>7. air.info \in Counted'
      BY <3>1, <3>6 DEF Counted
    <3>. QED
      BY <3>2, <3>7
  <2>4. \A d \in DEVICES : air.info # NoIdx => device[d].idx # air.info
    BY <1>0, <2>3
  <2>. QED
    BY <1>0, <1>a, <2>1, <2>3, <2>4
<1>7. CASE IgnoreRequest
  <2>1. ~PairInfoGet
    BY <1>7 DEF IgnoreRequest, PairInfoGet
  <2>2. box.event # NoEvent /\ air.info = info /\ info = NoIdx
    BY <1>0, <1>7 DEF IgnoreRequest, FollowedInv, EventIsOfAir, OfferIsForAsker
  <2>. QED
    BY <1>0, <1>7, <1>a, <2>1, <2>2 DEF IgnoreRequest
<1>8. CASE BoxTick
  <2>1. box'.slots = box.slots /\ box'.cur_type = box.cur_type /\ box'.event = NoEvent
    BY <1>0, <1>8 DEF BoxTick, Handled, TypeOK
  <2>2. CASE air.phase = "ack"
    <3>1. /\ info' = NoIdx /\ air'.phase = "clipped" /\ air'.info = air.info
          /\ device' = device
      BY <1>0, <1>8, <2>2, AirType DEF BoxTick
    <3>2. box.event = NoEvent
      BY <1>0, <1>8, <2>2 DEF BoxTick, Records, Confused
    <3>. QED
      BY <1>0, <1>a, <2>1, <2>2, <3>1, <3>2
  <2>3. CASE air.phase # "ack"
    <3>1. info' = info /\ air' = air /\ device' = device /\ box.event = NoEvent
      BY <1>0, <1>8, <2>3 DEF BoxTick, FollowedInv, EventIsOfAir
    <3>. QED
      BY <1>0, <1>a, <1>c, <2>1, <3>1
  <2>. QED
    BY <2>2, <2>3
<1>9. CASE PacketMissed \/ AckLost
  <2>1. air.from \in DEVICES /\ Failed(air.from) /\ UNCHANGED <<box, info>>
        /\ air.phase \in {"packet", "ack", "clipped"} /\ air # NoPacket
    BY <1>0, <1>9, AirType DEF PacketMissed, AckLost
  <2>2. device[air.from].mode = "PAIRING"
    BY <1>0, <2>1 DEF FollowedInv, AskerIsPairing
  <2>3. air'.phase = "packet"
    BY <1>0, <2>1, <2>2, FailedType, PacketType
  <2>4. \A e \in DEVICES : device'[e].idx = device[e].idx
    BY <1>0, <2>1, FailedType
  <2>. QED
    BY <1>0, <1>a, <1>c, <2>1, <2>3, <2>4
<1>10. CASE AckArrives
  <2>1. /\ air.from \in DEVICES /\ air # NoPacket /\ air.info \in Infos
        /\ Acked /\ box.event = NoEvent /\ UNCHANGED <<box, info>>
        /\ Acknowledged(air.from, air.info)
    BY <1>0, <1>10, AirType DEF AckArrives
  <2>2. device[air.from].mode = "PAIRING"
    BY <1>0, <2>1 DEF FollowedInv, AskerIsPairing
  <2>3. ~Acked'
    BY <1>0, <2>1, AcknowledgedType, PacketType DEF NoPacket
  <2>4. /\ \A e \in DEVICES : e # air.from => device'[e] = device[e]
        /\ device'[air.from].idx = IF air.info = NoIdx THEN device[air.from].idx ELSE air.info
    BY <1>0, <2>1, <2>2, AcknowledgedType
  <2>. QED
    BY <1>0, <1>a, <1>c, <2>1, <2>3, <2>4
<1>. QED
  BY <1>1, <1>2, <1>3, <1>4, <1>5, <1>6, <1>7, <1>8, <1>9, <1>10 DEF Next, BoxEvent

\* Without faults a device goes without an index only if its type is full.
LEMMA FullStep ==
  ASSUME PairingInv, [Next]_vars, hist' = {}
  PROVE  FullInv'
<1>0. /\ TypeOK /\ TypeOK' /\ hist = {} /\ Followed /\ FollowedInv /\ FollowedInv'
      /\ FullInv
  <2>1. hist = {} /\ Followed /\ Followed'
    BY HistGrows DEF PairingInv, Followed
  <2>. QED
    BY <2>1, FollowedStep, PairingTypeStep DEF PairingInv
<1>. USE DEF FullInv, NoOfferIfFull, StuckIfFull, Stuck, Acked
<1>a. \A t \in Types : Full(t) => Full(t)'
  <2>1. \A t \in Types : /\ box.slots[t] \in Nat /\ box'.slots[t] \in Nat
                         /\ box.slots[t] <= box'.slots[t] /\ box'.slots[t] <= Maximum(t)
    BY <1>0, SlotsGrow DEF TypeOK
  <2>. QED
    BY <2>1, TypeOfType DEF Full
<1>b. device \in [DEVICES -> DeviceStates]
  BY <1>0 DEF TypeOK
<1>c. \A d : TypeOf(d) \in Types
  BY TypeOfType
<1>d. ASSUME box'.mode = box.mode
      PROVE  box'.mode # "PAIRING" => \A type \in Types : Full(type)'
  BY <1>0, <1>a, <1>d
<1>1. CASE UNCHANGED vars
  BY <1>0, <1>1 DEF vars, Full
<1>2. ASSUME NEW d \in DEVICES, DoPairing(d) PROVE FullInv'
  <2>1. /\ air' # NoPacket /\ air'.phase = "packet" /\ air'.id = "PAIR_REQ" /\ box' = box
    BY <1>2, PacketType DEF DoPairing
  <2>. QED
    BY <1>0, <1>d, <2>1
<1>3. ASSUME NEW d \in DEVICES, PowerOff(d) PROVE FullInv'
  <2>1. Stuck(d) /\ air' = NoPacket /\ air'.phase = "none" /\ box' = box
    BY <1>0, <1>3 DEF PowerOff, Records, Silent, NoPacket
  <2>2. \A e \in DEVICES : device'[e].mode = "PAIRING" => device[e].mode = "PAIRING"
    BY <1>3, <1>b DEF PowerOff, DeviceStates
  <2>. QED
    BY <1>0, <1>a, <1>c, <1>d, <2>1, <2>2
<1>4. CASE BoxHears
  <2>1. /\ air'.phase = "ack" /\ air'.from = air.from /\ air'.id = air.id /\ air'.info = info
        /\ air' # NoPacket /\ box'.mode = box.mode /\ box'.event # NoEvent
    <3>1. /\ air'.phase = "ack" /\ air'.from = air.from /\ air'.id = air.id
          /\ air'.info = info /\ air' # NoPacket
      BY <1>4 DEF BoxHears, NoPacket
    <3>2. box'.event = [id |-> air.id, type |-> TypeOf(air.from)] /\ box'.mode = box.mode
      BY <1>0, <1>4 DEF BoxHears, TypeOK
    <3>. QED
      BY <1>0, <1>4, <3>1, <3>2, AirType DEF BoxHears, NoEvent
  <2>2. air.phase = "packet" /\ air # NoPacket
    BY <1>0, <1>4, AirType DEF BoxHears
  <2>. QED
    BY <1>0, <1>a, <1>c, <1>d, <2>1, <2>2
<1>5. CASE PairReq
  <2>. DEFINE type == box.event.type
  <2>1. /\ box'.mode = box.mode /\ box'.slots = box.slots
    BY <1>0, <1>5 DEF PairReq, Handled, TypeOK
  <2>2. /\ air.phase = "ack" /\ type = TypeOf(air.from) /\ air' = air /\ air # NoPacket
    BY <1>0, <1>5, AirType DEF PairReq, Event, FollowedInv, EventIsOfAir
  <2>3. CASE Free(type)
    <3>1. info' # NoIdx
      BY <1>0, <1>5, <1>c, <2>2, <2>3, OfferType DEF PairReq
    <3>. QED
      BY <1>0, <1>d, <2>1, <2>2, <3>1
  <2>4. CASE ~Free(type)
    <3>1. type \in Types
      BY <1>c, <2>2
    <3>2. /\ box.slots[type] \in Nat /\ box.slots[type] <= Maximum(type)
          /\ Maximum(type) \in Nat
      BY <1>0, <3>1, SlotType, TypeOfType
    <3>3. Full(type)
      BY <2>4, <3>2 DEF Free, Full
    <3>. QED
      BY <1>0, <1>a, <1>c, <1>d, <2>1, <2>2, <3>3
  <2>. QED
    BY <2>3, <2>4
<1>6. CASE PairInfoGet
  <2>. DEFINE slots == Count(box.cur_type)
              full  == \A type \in Types : slots[type] = Maximum(type)
  <2>1. /\ box'.slots = slots /\ (box'.mode # "PAIRING" => full) /\ air' = air
    <3>. HIDE DEF slots
    <3>. QED
      BY <1>0, <1>6 DEF PairInfoGet, Handled, TypeOK, slots
  <2>2. box'.mode # "PAIRING" => \A type \in Types : Full(type)'
    BY <2>1 DEF Full
  <2>3. /\ Acked /\ air # NoPacket /\ air.id = "PAIR_INFO_GET" /\ air.info = info
    BY <1>0, <1>6, AirType DEF PairInfoGet, Event, FollowedInv, EventIsOfAir
  <2>. QED
    BY <1>0, <1>a, <1>c, <2>1, <2>2, <2>3
<1>7. CASE IgnoreRequest
  <2>1. /\ box'.mode = "LEAVING" /\ box.mode = "LEAVING" /\ air' = air
        /\ air.phase = "ack" /\ air # NoPacket
    BY <1>0, <1>7, AirType
       DEF IgnoreRequest, Handled, TypeOK, FollowedInv, EventIsOfAir
  <2>. QED
    BY <1>0, <1>a, <1>c, <2>1
<1>8. CASE BoxTick
  <2>1. air.phase # "ack" /\ info' = info /\ air' = air /\ device' = device
    BY <1>0, <1>8 DEF BoxTick, Records
  <2>2. box'.event = NoEvent /\ box.event = NoEvent /\ (box'.mode # "PAIRING" => box.mode # "PAIRING")
    BY <1>0, <1>8, <2>1 DEF BoxTick, Handled, TypeOK, FollowedInv, EventIsOfAir
  <2>. QED
    BY <1>0, <1>a, <1>c, <2>1, <2>2
<1>9. CASE PacketMissed \/ AckLost
  <2>1. air.from \in DEVICES /\ Failed(air.from) /\ UNCHANGED <<box, info>>
        /\ air.phase = "packet" /\ air # NoPacket
    BY <1>0, <1>9, AirType DEF PacketMissed, AckLost, Records
  <2>2. /\ device[air.from].mode = "PAIRING"
        /\ device[air.from].state =
             IF air.id = "PAIR_REQ" THEN "SEND_REQ" ELSE "WAIT_FOR_INFO"
        /\ air.id \in {"PAIR_REQ", "PAIR_INFO_GET"}
    BY <1>0, <2>1, AirType DEF FollowedInv, AskerIsPairing
  <2>3. air' = Packet(air.from, air.id)
    BY <1>0, <2>1, <2>2, FailedType
  <2>4. /\ air' # NoPacket /\ air'.phase = "packet" /\ air'.from = air.from /\ air'.id = air.id
    BY <2>1, <2>2, <2>3, PacketType
  <2>. QED
    BY <1>0, <1>a, <1>c, <1>d, <2>1, <2>4
<1>10. CASE AckArrives
  <2>1. /\ air.from \in DEVICES /\ air # NoPacket /\ air.info \in Infos
        /\ Acked /\ box.event = NoEvent /\ UNCHANGED <<box, info>>
        /\ Acknowledged(air.from, air.info)
        /\ air.id \in {"PAIR_REQ", "PAIR_INFO_GET"}
    BY <1>0, <1>10, AirType DEF AckArrives
  <2>2. /\ device[air.from].mode = "PAIRING"
        /\ device[air.from].state =
             IF air.id = "PAIR_REQ" THEN "SEND_REQ" ELSE "WAIT_FOR_INFO"
        /\ \A e \in DEVICES : device[e].mode = "PAIRING" => e = air.from
    BY <1>0, <2>1 DEF FollowedInv, AskerIsPairing
  <2>3. /\ \A e \in DEVICES : e # air.from => device'[e] = device[e]
        /\ air.info # NoIdx => device'[air.from].mode = "NORMAL"
        /\ air' = IF air.id = "PAIR_REQ" THEN Packet(air.from, "PAIR_INFO_GET") ELSE NoPacket
    BY <1>0, <2>1, <2>2, AcknowledgedType
  <2>4. CASE air.id = "PAIR_REQ"
    <3>1. /\ air' # NoPacket /\ air'.phase = "packet" /\ air'.from = air.from
          /\ air'.id = "PAIR_INFO_GET"
      BY <2>1, <2>3, <2>4, PacketType
    <3>2. air.info = NoIdx
      BY <1>0, <2>1, <2>4 DEF FollowedInv, AckIsForAsker
    <3>. QED
      BY <1>0, <1>a, <1>c, <1>d, <2>1, <3>1, <3>2
  <2>5. CASE air.id = "PAIR_INFO_GET"
    <3>1. air' = NoPacket /\ air'.phase = "none" /\ info = NoIdx
      BY <1>0, <2>1, <2>3, <2>5 DEF NoPacket, FollowedInv, OfferIsForAsker
    <3>2. air.info = NoIdx => Full(TypeOf(air.from))
      BY <1>0, <2>1, <2>5, <3>1
    <3>. QED
      BY <1>0, <1>a, <1>c, <1>d, <2>1, <2>2, <2>3, <3>1, <3>2
  <2>. QED
    BY <2>1, <2>4, <2>5
<1>. QED
  BY <1>1, <1>2, <1>3, <1>4, <1>5, <1>6, <1>7, <1>8, <1>9, <1>10 DEF Next, BoxEvent

-----------------------------------------------------------------------------
(* The theorems *)

LEMMA PairingInit == Init => PairingInv
<1>. SUFFICES ASSUME Init PROVE PairingInv
  OBVIOUS
<1>1. TypeOK
  BY PairingTypeInit
<1>2. /\ air.phase = "none" /\ air = NoPacket /\ box.event = NoEvent /\ info = NoIdx
      /\ box.mode = "PAIRING"
      /\ \A d \in DEVICES : device[d].idx = NoIdx /\ device[d].mode = "OFF"
  BY DEF Init, NoPacket
<1>. QED
  BY <1>1, <1>2 DEF PairingInv, FollowedInv, AskerIsPairing, EventIsOfAir, OfferIsForAsker,
     AckIsForAsker, HeldFits, CountedInv, OfferIsNew, HeldCounted, HeldUnique, FullInv,
     NoOfferIfFull, StuckIfFull, Stuck, Acked

LEMMA PairingInvCorrect == Spec => []PairingInv
<1>1. PairingInv /\ [Next]_vars => PairingInv'
  BY PairingTypeStep, FollowedStep, CountedStep, FullStep DEF PairingInv
<1>. QED
  BY <1>1, PairingInit, PTL DEF Spec

\* Two devices never hold one index, for any number of devices and slots, while no
\* acknowledgment is lost on air, no device is switched off in an exchange and the
\* box's timer does not come before its event.
THEOREM IndexUnique == Spec => []UniqueIndex
<1>1. PairingInv => UniqueIndex
  BY DEF PairingInv, CountedInv, HeldUnique, UniqueIndex
<1>. QED
  BY <1>1, PairingInvCorrect, PTL

\* Under the same conditions the box has counted every index a device holds.
THEOREM IndexIsCounted == Spec => []IndexCounted
<1>1. PairingInv => IndexCounted
  BY DEF PairingInv, CountedInv, HeldCounted, IndexCounted
<1>. QED
  BY <1>1, PairingInvCorrect, PTL

\* The index of a device is one of its type, unless a device leaves its offer to
\* another.
THEOREM IndexFits == Spec => []IndexFitsType
<1>1. PairingInv => IndexFitsType
  BY DEF PairingInv, Followed, FollowedInv, HeldFits, Fits, IndexFitsType
<1>. QED
  BY <1>1, PairingInvCorrect, PTL

\* Without faults a device is left without an index only if its type is full.
THEOREM RefusedIfFull == Spec => []RefusedOnlyIfFull
<1>1. PairingInv => RefusedOnlyIfFull
  BY DEF PairingInv, FullInv, StuckIfFull, Full, RefusedOnlyIfFull
<1>. QED
  BY <1>1, PairingInvCorrect, PTL
=============================================================================
