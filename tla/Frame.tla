------------------------------- MODULE Frame -------------------------------
(***************************************************************************)
(* Beacons, answers and hopping of scheme 2 in normal mode,                *)
(* src/examples/proprietary_rf/{box,device}/main.c.                        *)
(*                                                                         *)
(* The box hops and sends a beacon in every interval; a frame is one round *)
(* of the channel list.  Its first beacon asks every device for new data,  *)
(* the others ask for a repetition from those not heard in this frame.  A  *)
(* device answers after a delay of its own, hops and waits for the next    *)
(* beacon.  With its millisecond timer it hops without a beacon too, and   *)
(* scans slowly once it has heard none for longer than a frame.            *)
(*                                                                         *)
(* Time goes in milliseconds from beacon to beacon.  In each, the timer of *)
(* a device ticks once, after the beacon if there is one; a tick before    *)
(* the beacon is the tick after the last.  Only one in the "middle" of a   *)
(* beacon differs: the timer interrupt preempts the event handler that     *)
(* deals with it.  A device that deals with a beacon restarts its timer,   *)
(* and ticks again in the next millisecond.  Crystals are exact enough for *)
(* this order to last.  The driver is taken as what it does here: a beacon *)
(* reaches any set of the devices listening on its channel, an answer may  *)
(* or may not reach the box.                                               *)
(***************************************************************************)
EXTENDS Integers

CONSTANTS
  DEVICES,
  CHANNELS,         \* MAXIMUM_CHANNEL_LIST_SIZE
  INTERVAL,         \* of the box's timer, in ms
  OFFSET,           \* ms from a beacon to each device's answer
  NoIdx,            \* no payload
  MAX_RESTARTS      \* bound on power cycles

ASSUME TimeAssumption ==
  /\ CHANNELS \in Nat \ {0} /\ MAX_RESTARTS \in Nat
  /\ INTERVAL \in Nat \ {0, 1}     \* a device ticks before the next beacon
  /\ OFFSET \in [DEVICES -> 0 .. INTERVAL - 1]
  /\ NoIdx \notin {0, 1}

VARIABLES
  box,        \* channel, devices heard in this frame, the last beacon
  device,     \* each device's control: see Devices
  now,        \* the millisecond in the interval, the devices due to act in it
  heard,      \* history: devices that have heard a beacon since the box came up
  answer,     \* history: payload with which each answered this frame's first beacon
  raced,      \* history: devices whose timer came in the middle of a beacon
  restarts

vars == <<box, device, now, heard, answer, raced, restarts>>
history == <<heard, answer, raced>>

-----------------------------------------------------------------------------
BEACON_SCAN_SHORT_TIMEOUT_MS == INTERVAL
BEACON_SCAN_LONG_TIMEOUT_MS  == INTERVAL * (CHANNELS + 1)

\* Faulty variant: > for >=.
NextChPast(ch) == IF ch + 1 > CHANNELS THEN 0 ELSE ch + 1

\* hop_channel, the same statement in both programs.  CHANNELS itself is the index
\* enter_normal_mode starts with.
NextCh(ch) == IF ch + 1 >= CHANNELS THEN 0 ELSE ch + 1

\* "start": receiver initialised but not started (start of normal mode, or a beacon
\* that asks for nothing); "rx": listening; "tx": about to answer, timer stopped.
Devices ==
  [state : {"start", "rx", "tx"}, ch : 0 .. CHANNELS,
   scan : 0 .. BEACON_SCAN_LONG_TIMEOUT_MS, sync : 0 .. BEACON_SCAN_LONG_TIMEOUT_MS,
   force : BOOLEAN, middle : BOOLEAN, cur : {0, 1}, out : {0, 1}]

\* enter_normal_mode of a device that has just been switched on.
Started(middle) ==
  [state |-> "start", ch |-> CHANNELS, scan |-> BEACON_SCAN_LONG_TIMEOUT_MS,
   sync |-> 0, force |-> TRUE, middle |-> middle, cur |-> 0, out |-> 0]

Beacons == [new : BOOLEAN, asks : SUBSET DEVICES]

\* enter_normal_mode of the box.
BoxStarted == [ch |-> CHANNELS, recv |-> {}, beacon |-> [new |-> FALSE, asks |-> {}]]

\* Devices that act in a millisecond: tick, or answer.
Due(ms) == {d \in DEVICES : device[d].state = "tx" => OFFSET[d] = ms}

Init ==
  /\ box = BoxStarted
  /\ device \in [DEVICES -> {Started(middle) : middle \in BOOLEAN}]
  /\ now \in [ms : 0 .. INTERVAL - 1, due : {{}}]
  /\ heard = {} /\ raced = {}
  /\ answer = [d \in DEVICES |-> NoIdx]
  /\ restarts = 0

Done(d) == now' = [now EXCEPT !.due = @ \ {d}]

-----------------------------------------------------------------------------
(* The passing of time *)

\* Once everyone due has acted the next millisecond begins, and with an interval of
\* the box BoxTick.
Advance ==
  /\ now.due = {} /\ now.ms < INTERVAL - 1
  /\ now' = [ms |-> now.ms + 1, due |-> Due(now.ms + 1)]
  /\ UNCHANGED <<box, device, history, restarts>>

-----------------------------------------------------------------------------
(* The box *)

\* Faulty variant: every paired device is asked again.
AsksAll == DEVICES

\* data[3] of a beacon that asks for a repetition.  All devices are paired.
Asks == DEVICES \ box.recv

\* send_beacon: the first of a frame forgets who has been heard.
Beaconed(ch) ==
  IF ch = 0
  THEN [box EXCEPT !.ch = ch, !.recv = {}, !.beacon.new = TRUE]
  ELSE [box EXCEPT !.ch = ch, !.beacon = [new |-> FALSE, asks |-> Asks]]

\* interval_timer_event_handler.
BoxTick ==
  /\ now.due = {} /\ now.ms = INTERVAL - 1
  /\ now' = [ms |-> 0, due |-> Due(0)]
  /\ box' = Beaconed(NextCh(box.ch))
  /\ answer' = IF box'.beacon.new THEN [d \in DEVICES |-> NoIdx] ELSE answer
  /\ UNCHANGED <<device, heard, raced, restarts>>

-----------------------------------------------------------------------------
(* Devices *)

Less1(timeout) == IF timeout > 0 THEN timeout - 1 ELSE 0

\* Faulty variant: the scan stays short when the device has lost the box.
NextScanShort(sync) == BEACON_SCAN_SHORT_TIMEOUT_MS

NextScan(sync) ==
  IF sync = 0 THEN BEACON_SCAN_LONG_TIMEOUT_MS ELSE BEACON_SCAN_SHORT_TIMEOUT_MS

\* interval_timer_event_handler of a device.
Ticked(v) ==
  LET t == [v EXCEPT !.scan = Less1(@), !.sync = Less1(@)]
  IN IF t.scan = 0 \/ t.force
     THEN [t EXCEPT !.force = FALSE, !.scan = NextScan(t.sync),
                    !.ch = NextCh(@), !.state = "rx"]
     ELSE t

\* A tick.  If there was a beacon it is lost, or on another channel.
DeviceTick(d) ==
  /\ d \in now.due /\ device[d].state # "tx"
  /\ device' = [device EXCEPT ![d] = Ticked(@)]
  /\ Done(d)
  /\ UNCHANGED <<box, history, restarts>>

\* Faulty variant: the buffers change places in every answer.
SentToggled(v, resend) ==
  [v EXCEPT !.out = IF resend THEN 1 - v.cur ELSE v.cur, !.cur = 1 - @]

\* send_device_data: new data from the buffer whose turn it is, a repetition from
\* the other one.
Sent(v, resend) ==
  IF resend THEN [v EXCEPT !.out = 1 - v.cur]
  ELSE [v EXCEPT !.out = v.cur, !.cur = 1 - @]

\* NRF_ESB_EVENT_RX_RECEIVED in normal mode, a beacon: answer, or with nothing to
\* send hop at the next tick.
Handled(v, d) ==
  IF box.beacon.new \/ d \in box.beacon.asks
  THEN Sent([v EXCEPT !.state = "tx"], ~box.beacon.new)
  ELSE [v EXCEPT !.state = "start", !.scan = BEACON_SCAN_SHORT_TIMEOUT_MS,
                 !.force = TRUE]

Synced(v) == [v EXCEPT !.sync = BEACON_SCAN_LONG_TIMEOUT_MS, !.middle = FALSE]

\* A beacon is heard.  A tick may come in the middle, before or after g_sync_timeout
\* is set.
Hear(d) ==
  /\ d \in now.due /\ now.ms = 0
  /\ device[d].state = "rx" /\ device[d].ch = box.ch
  /\ \E v \in IF device[d].middle
              THEN {Synced(Ticked(device[d])), Ticked(Synced(device[d]))}
              ELSE {Synced(device[d])} :
       /\ device' = [device EXCEPT ![d] = Handled(v, d)]
       /\ answer' = IF box.beacon.new
                    THEN [answer EXCEPT ![d] = device'[d].out] ELSE answer
  /\ heard' = heard \cup {d}
  /\ raced' = IF device[d].middle THEN raced \cup {d} ELSE raced \ {d}
  /\ IF device'[d].state = "tx" /\ OFFSET[d] = 0 THEN UNCHANGED now ELSE Done(d)
  /\ UNCHANGED <<box, restarts>>

\* Faulty variant: the device waits for the next beacon on the old channel.
AnsweredStays(v) ==
  [v EXCEPT !.state = "rx", !.scan = BEACON_SCAN_SHORT_TIMEOUT_MS, !.out = 0]

\* NRF_ESB_EVENT_TX_SUCCESS and NRF_ESB_EVENT_TX_FAILED in normal mode.
Answered(v) ==
  [v EXCEPT !.state = "rx", !.scan = BEACON_SCAN_SHORT_TIMEOUT_MS,
            !.ch = NextCh(@), !.out = 0]

\* The answer goes out: the box may take it and set the bit of its pipe, and may or
\* may not be heard to acknowledge it.
Answer(d) ==
  /\ d \in now.due /\ device[d].state = "tx"
  /\ \/ box' = [box EXCEPT !.recv = @ \cup {d}] /\ device[d].ch = box.ch
     \/ UNCHANGED box
  /\ device' = [device EXCEPT ![d] = Answered(@)]
  /\ Done(d)
  /\ UNCHANGED <<history, restarts>>

-----------------------------------------------------------------------------
(* Power cycles *)

\* Coming up takes the box longer than a device takes to answer.
BoxRestart ==
  /\ restarts < MAX_RESTARTS
  /\ now.due = {} /\ \A d \in DEVICES : device[d].state # "tx"
  /\ restarts' = restarts + 1
  /\ box' = BoxStarted
  /\ now' \in [ms : 0 .. INTERVAL - 1, due : {{}}]
  /\ \E middle \in [DEVICES -> BOOLEAN] :
       device' = [d \in DEVICES |-> [device[d] EXCEPT !.middle = middle[d]]]
  /\ heard' = {} /\ raced' = {}
  /\ answer' = [d \in DEVICES |-> NoIdx]

DeviceRestart(d) ==
  /\ restarts < MAX_RESTARTS
  /\ restarts' = restarts + 1
  /\ \E middle \in BOOLEAN : device' = [device EXCEPT ![d] = Started(middle)]
  /\ Done(d)
  /\ heard' = heard \ {d} /\ raced' = raced \ {d}
  /\ answer' = [answer EXCEPT ![d] = NoIdx]
  /\ UNCHANGED box

Clock ==
  \/ Advance \/ BoxTick
  \/ \E d \in DEVICES : DeviceTick(d) \/ Hear(d) \/ Answer(d)

Next == Clock \/ BoxRestart \/ \E d \in DEVICES : DeviceRestart(d)

Spec == Init /\ [][Next]_vars

\* Time passes, and a device that is on the channel of a beacon again and again
\* hears one in the end.
FairSpec == Spec /\ WF_vars(Clock) /\ \A d \in DEVICES : SF_vars(Hear(d))

-----------------------------------------------------------------------------
(* Properties *)

\* Type invariant.  Indices of channels stay in the list.
TypeOK ==
  /\ box \in [ch : 0 .. CHANNELS, recv : SUBSET DEVICES, beacon : Beacons]
  /\ device \in [DEVICES -> Devices]
  /\ now \in [ms : 0 .. INTERVAL - 1, due : SUBSET DEVICES]
  /\ heard \subseteq DEVICES /\ raced \subseteq heard
  /\ answer \in [DEVICES -> {0, 1, NoIdx}]
  /\ restarts \in 0 .. MAX_RESTARTS
  /\ \A d \in DEVICES : device[d].state # "start" => device[d].ch < CHANNELS

\* A device does not answer once the box has its data for this frame, even when the
\* acknowledgment was lost.
OncePerFrame == \A d \in DEVICES : device[d].state = "tx" => d \notin box.recv

\* A device that has heard the first beacon of a frame repeats in this frame what it
\* answered to it, however often it is asked.
ResendRepeats ==
  \A d \in DEVICES :
    device[d].state = "tx" /\ answer[d] # NoIdx => device[d].out = answer[d]

\* A device that has heard the box and whose g_sync_timeout runs listens on the
\* channel of the beacon when it is sent: after an answer with or without an
\* acknowledgment, a beacon without an answer, and any number of lost beacons.  Only
\* a tick in the middle of a beacon makes it lose step.
InStep ==
  [][BoxTick => \A d \in heard \ raced :
       device[d].sync > 0 => device[d].state = "rx" /\ device[d].ch = box'.ch]_vars

\* However the box and the devices are switched on, a device hears beacons again and
\* again: its long scan meets the box.
HearsAgain == \A d \in DEVICES : []<><<Hear(d)>>_vars
=============================================================================
