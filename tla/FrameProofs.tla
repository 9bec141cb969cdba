---------------------------- MODULE FrameProofs ----------------------------
(***************************************************************************)
(* Proofs about Frame, for any number of devices, channels and restarts,   *)
(* and any times that fit into an interval: its type invariant, what the   *)
(* box asks for (OncePerFrame), what a device repeats (ResendRepeats) and  *)
(* that it hops in step with the box (InStep).                             *)
(***************************************************************************)
EXTENDS Frame, TLAPS

-----------------------------------------------------------------------------
(* The inductive invariant *)

\* A device in the millisecond of a beacon that asks it has no data at the box.
AskedNotTaken ==
  \A d \in DEVICES :
    now.ms = 0 /\ d \in now.due /\ (box.beacon.new \/ d \in box.beacon.asks)
      => d \notin box.recv

\* The buffer whose turn it is not holds what the device answered in this frame.
LastAnswerKept ==
  \A d \in DEVICES : answer[d] # NoIdx => answer[d] = 1 - device[d].cur

\* The hop is forced exactly until the receiver starts.
ForcedAtStart ==
  \A d \in DEVICES : device[d].force <=> device[d].state = "start"

\* Ticks a device has until the next beacon.
TicksLeft(d) == INTERVAL - 1 - now.ms + (IF d \in now.due THEN 1 ELSE 0)

\* Where a device is that is in step.  Listening, it is on the channel of the next
\* beacon and will not hop before it, or it is on the channel of the last one and
\* will.  Its receiver not started, it hops at the next tick, and there is one.
\* About to answer, it does so before the next beacon.
Listening(d) ==
  /\ device[d].scan \in 1 .. INTERVAL
  /\ \/ (device[d].ch = NextCh(box.ch) /\ device[d].scan > TicksLeft(d))
     \/ (device[d].ch = box.ch /\ device[d].scan <= TicksLeft(d))

Starting(d) == device[d].ch = box.ch /\ TicksLeft(d) >= 1

Answering(d) ==
  /\ device[d].ch = box.ch
  /\ now.ms < OFFSET[d] \/ (now.ms = OFFSET[d] /\ d \in now.due)

Phase(d) ==
  /\ device[d].state = "rx" => Listening(d)
  /\ device[d].state = "start" => Starting(d)
  /\ device[d].state = "tx" => Answering(d)

InPhase == \A d \in heard \ raced : device[d].sync > 0 => Phase(d)

Inv ==
  /\ TypeOK
  /\ OncePerFrame /\ AskedNotTaken
  /\ ResendRepeats /\ LastAnswerKept
  /\ ForcedAtStart /\ InPhase

-----------------------------------------------------------------------------
(* Lemmas about the operators *)

\* The long timeout is longer than an interval.
LEMMA Timeouts ==
  /\ BEACON_SCAN_LONG_TIMEOUT_MS \in Nat
  /\ BEACON_SCAN_LONG_TIMEOUT_MS >= INTERVAL
  BY TimeAssumption DEF TimeAssumption, BEACON_SCAN_LONG_TIMEOUT_MS

\* hop_channel leaves the index in the list.
LEMMA HopFits ==
  ASSUME NEW ch \in 0 .. CHANNELS
  PROVE  NextCh(ch) \in 0 .. CHANNELS - 1
  BY TimeAssumption DEF TimeAssumption, NextCh

\* A device that has just been switched on.
LEMMA StartedFits ==
  ASSUME NEW middle \in BOOLEAN
  PROVE  /\ Started(middle) \in Devices
         /\ Started(middle).state = "start" /\ Started(middle).force
  BY TimeAssumption, Timeouts DEF TimeAssumption, Started, Devices

\* What the timer interrupt of a device leaves alone, and when it hops.
LEMMA TickedFits ==
  ASSUME NEW v \in Devices
  PROVE  /\ Ticked(v) \in Devices
         /\ Ticked(v).cur = v.cur /\ Ticked(v).out = v.out
         /\ Ticked(v).middle = v.middle
         /\ Ticked(v).sync = Less1(v.sync)
         /\ Less1(v.scan) = 0 \/ v.force =>
              /\ Ticked(v).state = "rx" /\ ~Ticked(v).force
              /\ Ticked(v).ch = NextCh(v.ch)
              /\ Ticked(v).scan = NextScan(Less1(v.sync))
         /\ ~(Less1(v.scan) = 0 \/ v.force) =>
              /\ Ticked(v).state = v.state /\ Ticked(v).force = v.force
              /\ Ticked(v).ch = v.ch /\ Ticked(v).scan = Less1(v.scan)
<1> DEFINE L == BEACON_SCAN_LONG_TIMEOUT_MS
           t == [v EXCEPT !.scan = Less1(@), !.sync = Less1(@)]
<1>1. Less1(v.scan) \in 0 .. L /\ Less1(v.sync) \in 0 .. L
  BY Timeouts DEF Less1, Devices
<1>2. NextScan(Less1(v.sync)) \in 0 .. L
  BY Timeouts, TimeAssumption
  DEF TimeAssumption, NextScan, BEACON_SCAN_SHORT_TIMEOUT_MS
<1>3. NextCh(v.ch) \in 0 .. CHANNELS
  BY HopFits, TimeAssumption DEF Devices, TimeAssumption
<1> HIDE DEF L
<1>4. /\ t \in Devices /\ t.scan = Less1(v.scan) /\ t.sync = Less1(v.sync)
      /\ t.cur = v.cur /\ t.out = v.out /\ t.middle = v.middle
      /\ t.state = v.state /\ t.force = v.force /\ t.ch = v.ch
  BY <1>1 DEF Devices, L
<1>5. Ticked(v) = IF t.scan = 0 \/ t.force
                  THEN [t EXCEPT !.force = FALSE, !.scan = NextScan(t.sync),
                                 !.ch = NextCh(@), !.state = "rx"]
                  ELSE t
  BY DEF Ticked
<1> HIDE DEF t
<1>6. CASE t.scan = 0 \/ t.force
  <2> DEFINE w == [t EXCEPT !.force = FALSE, !.scan = NextScan(t.sync),
                            !.ch = NextCh(@), !.state = "rx"]
  <2>1. w \in Devices
    BY <1>2, <1>3, <1>4 DEF Devices, L
  <2>2. /\ w.cur = t.cur /\ w.out = t.out /\ w.middle = t.middle
        /\ w.sync = t.sync /\ w.state = "rx" /\ w.force = FALSE
        /\ w.ch = NextCh(t.ch) /\ w.scan = NextScan(t.sync)
    BY <1>4 DEF Devices
  <2>3. Ticked(v) = w
    BY <1>5, <1>6
  <2> QED  BY <1>4, <1>6, <2>1, <2>2, <2>3
<1>7. CASE ~(t.scan = 0 \/ t.force)
  BY <1>4, <1>5, <1>7
<1> QED  BY <1>6, <1>7

\* g_sync_timeout starts again.
LEMMA SyncedFits ==
  ASSUME NEW v \in Devices
  PROVE  /\ Synced(v) \in Devices
         /\ Synced(v).state = v.state /\ Synced(v).force = v.force
         /\ Synced(v).ch = v.ch /\ Synced(v).scan = v.scan
         /\ Synced(v).cur = v.cur /\ Synced(v).out = v.out
<1>1. BEACON_SCAN_LONG_TIMEOUT_MS \in 0 .. BEACON_SCAN_LONG_TIMEOUT_MS
  BY Timeouts
<1>2. Synced(v) \in Devices
  BY <1>1 DEF Synced, Devices
<1>3. /\ Synced(v).state = v.state /\ Synced(v).force = v.force
      /\ Synced(v).ch = v.ch /\ Synced(v).scan = v.scan
      /\ Synced(v).cur = v.cur /\ Synced(v).out = v.out
  BY DEF Synced, Devices
<1> QED  BY <1>2, <1>3

\* An answered device listens on the next channel for an interval.
LEMMA AnsweredFits ==
  ASSUME NEW v \in Devices
  PROVE  /\ Answered(v) \in Devices
         /\ Answered(v).state = "rx" /\ Answered(v).force = v.force
         /\ Answered(v).ch = NextCh(v.ch)
         /\ Answered(v).scan = INTERVAL
         /\ Answered(v).cur = v.cur
<1>1. INTERVAL \in 0 .. BEACON_SCAN_LONG_TIMEOUT_MS
  BY Timeouts, TimeAssumption DEF TimeAssumption
<1>2. NextCh(v.ch) \in 0 .. CHANNELS
  BY HopFits, TimeAssumption DEF Devices, TimeAssumption
<1>3. Answered(v) \in Devices
  BY <1>1, <1>2 DEF Answered, Devices, BEACON_SCAN_SHORT_TIMEOUT_MS
<1>4. /\ Answered(v).state = "rx" /\ Answered(v).force = v.force
      /\ Answered(v).ch = NextCh(v.ch)
      /\ Answered(v).scan = INTERVAL
      /\ Answered(v).cur = v.cur
  BY DEF Answered, Devices, BEACON_SCAN_SHORT_TIMEOUT_MS
<1> QED  BY <1>3, <1>4

\* What a device does with a beacon.
LEMMA HandledFits ==
  ASSUME NEW v \in Devices, NEW d \in DEVICES, TypeOK
  PROVE  LET w == Handled(v, d)
         IN /\ w \in Devices
            /\ w.ch = v.ch
            /\ box.beacon.new \/ d \in box.beacon.asks =>
                 w.state = "tx" /\ w.force = v.force
            /\ ~(box.beacon.new \/ d \in box.beacon.asks) =>
                 w.state = "start" /\ w.force = TRUE
            /\ box.beacon.new => w.out = v.cur /\ w.cur = 1 - v.cur
            /\ ~box.beacon.new => w.cur = v.cur
            /\ w.state = "tx" /\ ~box.beacon.new => w.out = 1 - v.cur
<1> DEFINE t == [v EXCEPT !.state = "tx"]
           s == [v EXCEPT !.state = "start", !.scan = BEACON_SCAN_SHORT_TIMEOUT_MS,
                          !.force = TRUE]
<1>1. INTERVAL \in 0 .. BEACON_SCAN_LONG_TIMEOUT_MS
  BY Timeouts, TimeAssumption DEF TimeAssumption
<1>2. /\ t \in Devices /\ t.state = "tx" /\ t.ch = v.ch /\ t.force = v.force
      /\ t.cur = v.cur /\ t.out = v.out
  BY DEF Devices
<1>3. /\ s \in Devices /\ s.state = "start" /\ s.force = TRUE
      /\ s.ch = v.ch /\ s.cur = v.cur
  BY <1>1 DEF Devices, BEACON_SCAN_SHORT_TIMEOUT_MS
<1>4. CASE box.beacon.new
  <2>1. Handled(v, d) = [t EXCEPT !.out = t.cur, !.cur = 1 - t.cur]
    BY <1>4 DEF Handled, Sent, Devices
  <2> HIDE DEF t, s
  <2> DEFINE w == [t EXCEPT !.out = t.cur, !.cur = 1 - t.cur]
  <2>2. w \in Devices
    <3>1. t.cur \in {0, 1} /\ 1 - t.cur \in {0, 1}
      BY <1>2 DEF Devices
    <3>2. [t EXCEPT !.out = t.cur] \in Devices
      BY <1>2, <3>1 DEF Devices
    <3> QED  BY <3>1, <3>2 DEF Devices
  <2>3. /\ w.state = "tx" /\ w.force = t.force /\ w.ch = t.ch
        /\ w.out = t.cur /\ w.cur = 1 - t.cur
    BY <1>2 DEF Devices
  <2> QED  BY <1>2, <1>4, <2>1, <2>2, <2>3
<1>5. CASE ~box.beacon.new /\ d \in box.beacon.asks
  <2>1. Handled(v, d) = [t EXCEPT !.out = 1 - t.cur]
    BY <1>5 DEF Handled, Sent
  <2> HIDE DEF t, s
  <2> DEFINE w == [t EXCEPT !.out = 1 - t.cur]
  <2>2. w \in Devices
    BY <1>2 DEF Devices
  <2>3. /\ w.state = "tx" /\ w.force = t.force /\ w.ch = t.ch
        /\ w.out = 1 - t.cur /\ w.cur = t.cur
    BY <1>2 DEF Devices
  <2> QED  BY <1>2, <1>5, <2>1, <2>2, <2>3
<1>6. CASE ~(box.beacon.new \/ d \in box.beacon.asks)
  <2>1. Handled(v, d) = s
    BY <1>6 DEF Handled
  <2> HIDE DEF t, s
  <2> QED  BY <1>3, <1>6, <2>1
<1> QED  BY <1>4, <1>5, <1>6

\* What a device has done with its clock by the time it looks at a beacon.
LEMMA HearFits ==
  ASSUME TypeOK, ForcedAtStart, NEW d \in DEVICES, Hear(d)
  PROVE  \E v \in Devices :
           /\ device' = [device EXCEPT ![d] = Handled(v, d)]
           /\ v.ch < CHANNELS /\ v.force = FALSE
           /\ v.cur = device[d].cur
           /\ ~device[d].middle => v.ch = box.ch
<1> DEFINE u == device[d]
<1>1. u \in Devices /\ u.state = "rx" /\ u.ch = box.ch /\ u.ch < CHANNELS
  BY DEF TypeOK, Hear
<1>2. u.force = FALSE
  BY <1>1 DEF ForcedAtStart, Devices
<1>3. CASE ~u.middle
  <2>1. device' = [device EXCEPT ![d] = Handled(Synced(u), d)]
    BY <1>3 DEF Hear
  <2>2. Synced(u) \in Devices /\ Synced(u).ch = u.ch
        /\ Synced(u).force = u.force /\ Synced(u).cur = u.cur
    BY <1>1, SyncedFits
  <2> QED  BY <1>1, <1>2, <2>1, <2>2
<1>4. CASE u.middle
  <2>1. PICK v \in {Synced(Ticked(u)), Ticked(Synced(u))} :
          device' = [device EXCEPT ![d] = Handled(v, d)]
    BY <1>4 DEF Hear
  <2>2. \A w \in Devices : w.force = FALSE /\ w.ch < CHANNELS =>
          /\ Synced(w) \in Devices /\ Synced(w).ch < CHANNELS
          /\ Synced(w).force = FALSE /\ Synced(w).cur = w.cur
    BY SyncedFits
  <2>3. \A w \in Devices : w.force = FALSE /\ w.ch < CHANNELS =>
          /\ Ticked(w) \in Devices /\ Ticked(w).ch < CHANNELS
          /\ Ticked(w).force = FALSE /\ Ticked(w).cur = w.cur
    <3> SUFFICES ASSUME NEW w \in Devices, w.force = FALSE, w.ch < CHANNELS
                 PROVE  /\ Ticked(w) \in Devices /\ Ticked(w).ch < CHANNELS
                        /\ Ticked(w).force = FALSE /\ Ticked(w).cur = w.cur
      OBVIOUS
    <3>1. NextCh(w.ch) < CHANNELS
      BY HopFits, TimeAssumption DEF Devices, TimeAssumption
    <3>2. Ticked(w).force = FALSE
      BY TickedFits DEF Devices
    <3> QED  BY <3>1, <3>2, TickedFits
  <2>4. /\ v \in Devices /\ v.ch < CHANNELS /\ v.force = FALSE /\ v.cur = u.cur
    BY <1>1, <1>2, <2>1, <2>2, <2>3
  <2> QED  BY <1>4, <2>1, <2>4
<1> QED  BY <1>3, <1>4

-----------------------------------------------------------------------------
(* Type correctness *)

LEMMA InitType == Init => TypeOK
<1> SUFFICES ASSUME Init PROVE TypeOK
  OBVIOUS
<1>1. box \in [ch : 0 .. CHANNELS, recv : SUBSET DEVICES, beacon : Beacons]
  BY TimeAssumption DEF TimeAssumption, Init, BoxStarted, Beacons
<1>2. /\ device \in [DEVICES -> Devices]
      /\ \A d \in DEVICES : device[d].state = "start"
  BY StartedFits DEF Init
<1>3. /\ now \in [ms : 0 .. INTERVAL - 1, due : SUBSET DEVICES]
      /\ heard \subseteq DEVICES /\ raced \subseteq heard
      /\ answer \in [DEVICES -> {0, 1, NoIdx}]
      /\ restarts \in 0 .. MAX_RESTARTS
  BY TimeAssumption DEF TimeAssumption, Init
<1> QED  BY <1>1, <1>2, <1>3 DEF TypeOK

\* The part of the type invariant that is about one device.
LEMMA DeviceType ==
  ASSUME TypeOK, NEW d \in DEVICES, NEW w \in Devices,
         device' = [device EXCEPT ![d] = w],
         w.state # "start" => w.ch < CHANNELS
  PROVE  /\ device' \in [DEVICES -> Devices]
         /\ \A e \in DEVICES : device'[e].state # "start" => device'[e].ch < CHANNELS
  BY DEF TypeOK

LEMMA AdvanceType == TypeOK /\ Advance => TypeOK'
  BY TimeAssumption DEF TimeAssumption, TypeOK, Advance, Due, history

LEMMA BoxTickType == TypeOK /\ BoxTick => TypeOK'
<1> SUFFICES ASSUME TypeOK, BoxTick PROVE TypeOK'
  OBVIOUS
<1>1. NextCh(box.ch) \in 0 .. CHANNELS
  BY HopFits, TimeAssumption DEF TypeOK, TimeAssumption
<1>2. box' \in [ch : 0 .. CHANNELS, recv : SUBSET DEVICES, beacon : Beacons]
  BY <1>1 DEF TypeOK, BoxTick, Beaconed, Beacons, Asks
<1>3. now' \in [ms : 0 .. INTERVAL - 1, due : SUBSET DEVICES]
  BY TimeAssumption DEF TimeAssumption, BoxTick, Due
<1>4. answer' \in [DEVICES -> {0, 1, NoIdx}]
  BY DEF TypeOK, BoxTick
<1> QED  BY <1>2, <1>3, <1>4 DEF TypeOK, BoxTick

LEMMA DeviceTickType ==
  ASSUME TypeOK, NEW d \in DEVICES, DeviceTick(d)
  PROVE  TypeOK'
<1>1. /\ device[d] \in Devices /\ device[d].state # "tx"
      /\ device[d].state # "start" => device[d].ch < CHANNELS
  BY DEF TypeOK, DeviceTick
<1>2. NextCh(device[d].ch) < CHANNELS
  BY <1>1, HopFits, TimeAssumption DEF Devices, TimeAssumption
<1>3. /\ Ticked(device[d]) \in Devices
      /\ Ticked(device[d]).state # "start" => Ticked(device[d]).ch < CHANNELS
  BY <1>1, <1>2, TickedFits
<1>4. device' = [device EXCEPT ![d] = Ticked(device[d])]
  BY DEF DeviceTick
<1>5. now' \in [ms : 0 .. INTERVAL - 1, due : SUBSET DEVICES]
  BY DEF DeviceTick, Done, TypeOK
<1> QED  BY <1>3, <1>4, <1>5, DeviceType DEF TypeOK, DeviceTick, history

LEMMA HearType ==
  ASSUME TypeOK, ForcedAtStart, NEW d \in DEVICES, Hear(d)
  PROVE  TypeOK'
<1>1. PICK v \in Devices :
        /\ device' = [device EXCEPT ![d] = Handled(v, d)]
        /\ v.ch < CHANNELS
  BY HearFits
<1>2. /\ Handled(v, d) \in Devices /\ Handled(v, d).ch < CHANNELS
  BY <1>1, HandledFits
<1>3. /\ device' \in [DEVICES -> Devices]
      /\ \A e \in DEVICES : device'[e].state # "start" => device'[e].ch < CHANNELS
  BY <1>1, <1>2, DeviceType
<1>4. now' \in [ms : 0 .. INTERVAL - 1, due : SUBSET DEVICES]
  BY DEF Hear, Done, TypeOK
<1>5. answer' \in [DEVICES -> {0, 1, NoIdx}]
  <2>1. device'[d].out \in {0, 1}
    BY <1>3 DEF Devices
  <2> QED  BY <2>1 DEF Hear, TypeOK
<1>6. heard' \subseteq DEVICES /\ raced' \subseteq heard'
  BY DEF Hear, TypeOK
<1> QED  BY <1>3, <1>4, <1>5, <1>6 DEF TypeOK, Hear

LEMMA AnswerType ==
  ASSUME TypeOK, NEW d \in DEVICES, Answer(d)
  PROVE  TypeOK'
<1>1. device[d] \in Devices
  BY DEF TypeOK
<1>2. /\ Answered(device[d]) \in Devices
      /\ Answered(device[d]).ch < CHANNELS
  BY <1>1, AnsweredFits, HopFits, TimeAssumption DEF Devices, TimeAssumption
<1>3. device' = [device EXCEPT ![d] = Answered(device[d])]
  BY DEF Answer
<1>4. now' \in [ms : 0 .. INTERVAL - 1, due : SUBSET DEVICES]
  BY DEF Answer, Done, TypeOK
<1>5. box' \in [ch : 0 .. CHANNELS, recv : SUBSET DEVICES, beacon : Beacons]
  BY DEF Answer, TypeOK
<1> QED  BY <1>2, <1>3, <1>4, <1>5, DeviceType DEF TypeOK, Answer, history

LEMMA BoxRestartType == TypeOK /\ BoxRestart => TypeOK'
<1> SUFFICES ASSUME TypeOK, BoxRestart PROVE TypeOK'
  OBVIOUS
<1>1. PICK middle \in [DEVICES -> BOOLEAN] :
        device' = [d \in DEVICES |-> [device[d] EXCEPT !.middle = middle[d]]]
  BY DEF BoxRestart
<1>2. \A d \in DEVICES : /\ device'[d] \in Devices
                         /\ device'[d].state = device[d].state
                         /\ device'[d].ch = device[d].ch
  <2> SUFFICES ASSUME NEW d \in DEVICES
               PROVE  /\ device'[d] \in Devices
                      /\ device'[d].state = device[d].state
                      /\ device'[d].ch = device[d].ch
    OBVIOUS
  <2>1. device[d] \in Devices /\ middle[d] \in BOOLEAN
    BY DEF TypeOK
  <2>2. device'[d] = [device[d] EXCEPT !.middle = middle[d]]
    BY <1>1
  <2> QED  BY <2>1, <2>2 DEF Devices
<1>3. box' \in [ch : 0 .. CHANNELS, recv : SUBSET DEVICES, beacon : Beacons]
  BY TimeAssumption DEF TimeAssumption, BoxRestart, BoxStarted, Beacons
<1>4. device' \in [DEVICES -> Devices]
  BY <1>1, <1>2
<1>5. restarts' \in 0 .. MAX_RESTARTS
  BY TimeAssumption DEF TimeAssumption, BoxRestart, TypeOK
<1>6. now' \in [ms : 0 .. INTERVAL - 1, due : SUBSET DEVICES]
  BY DEF BoxRestart
<1> QED  BY <1>2, <1>3, <1>4, <1>5, <1>6 DEF TypeOK, BoxRestart

LEMMA DeviceRestartType ==
  ASSUME TypeOK, NEW d \in DEVICES, DeviceRestart(d)
  PROVE  TypeOK'
<1>1. PICK middle \in BOOLEAN : device' = [device EXCEPT ![d] = Started(middle)]
  BY DEF DeviceRestart
<1>2. Started(middle) \in Devices /\ Started(middle).state = "start"
  BY StartedFits
<1>3. restarts' \in 0 .. MAX_RESTARTS
  BY TimeAssumption DEF TimeAssumption, DeviceRestart, TypeOK
<1>4. now' \in [ms : 0 .. INTERVAL - 1, due : SUBSET DEVICES]
  BY DEF DeviceRestart, Done, TypeOK
<1> QED  BY <1>1, <1>2, <1>3, <1>4, DeviceType DEF TypeOK, DeviceRestart

-----------------------------------------------------------------------------
(* The inductive invariant: every step preserves it *)

LEMMA InitInv == Init => Inv
<1> SUFFICES ASSUME Init PROVE Inv
  OBVIOUS
<1>1. \A d \in DEVICES : device[d].state = "start" /\ device[d].force
  BY StartedFits DEF Init
<1>2. ForcedAtStart
  BY <1>1 DEF ForcedAtStart
<1>3. OncePerFrame /\ AskedNotTaken
  BY DEF Init, OncePerFrame, AskedNotTaken, BoxStarted
<1>4. ResendRepeats /\ LastAnswerKept /\ InPhase
  BY DEF Init, ResendRepeats, LastAnswerKept, InPhase
<1> QED  BY InitType, <1>2, <1>3, <1>4 DEF Inv

\* Nothing but the millisecond changes: there is one tick in each.
LEMMA AdvanceInv == Inv /\ Advance => Inv'
<1> SUFFICES ASSUME Inv, Advance PROVE Inv'
  OBVIOUS
<1>1. now.ms \in Nat /\ now'.ms = now.ms + 1 /\ now.due = {}
  BY DEF Inv, TypeOK, Advance
<1>2. /\ now'.due = Due(now.ms + 1)
      /\ UNCHANGED <<box, device, heard, answer, raced>>
  BY DEF Advance, history
<1>3. OncePerFrame' /\ ResendRepeats' /\ LastAnswerKept' /\ ForcedAtStart'
  BY <1>2 DEF Inv, OncePerFrame, ResendRepeats, LastAnswerKept, ForcedAtStart
<1>4. AskedNotTaken'
  BY <1>1 DEF AskedNotTaken
<1>5. InPhase'
  <2> SUFFICES ASSUME NEW d \in heard \ raced, device[d].sync > 0
               PROVE  Phase(d)'
    BY <1>2 DEF InPhase
  <2>1. d \in DEVICES /\ Phase(d)
    BY DEF Inv, InPhase, TypeOK
  <2>2. /\ INTERVAL \in Nat /\ OFFSET[d] \in Nat
    BY <2>1, TimeAssumption DEF TimeAssumption
  <2>3. d \in now'.due <=> (device[d].state = "tx" => OFFSET[d] = now.ms + 1)
    BY <1>2, <2>1 DEF Due
  <2>4. device[d].state # "tx" => TicksLeft(d)' = TicksLeft(d)
    BY <1>1, <2>2, <2>3 DEF TicksLeft
  <2>5. device[d].state = "tx" => Answering(d)'
    BY <1>1, <1>2, <2>1, <2>2, <2>3 DEF Phase, Answering
  <2> QED  BY <1>2, <2>1, <2>4, <2>5 DEF Phase, Listening, Starting
<1> QED  BY <1>3, <1>4, <1>5, AdvanceType DEF Inv

\* Before a beacon a device in step listens on its channel.
LEMMA TickInStep ==
  ASSUME Inv, BoxTick, NEW d \in heard \ raced, device[d].sync > 0
  PROVE  /\ device[d].state = "rx" /\ device[d].ch = box'.ch
         /\ device[d].scan \in 1 .. INTERVAL
<1>1. /\ d \in DEVICES /\ Phase(d) /\ device[d] \in Devices
  BY DEF Inv, InPhase, TypeOK
<1>2. /\ INTERVAL \in Nat /\ OFFSET[d] \in 0 .. INTERVAL - 1
  BY <1>1, TimeAssumption DEF TimeAssumption
<1>3. now.ms = INTERVAL - 1 /\ now.due = {} /\ box'.ch = NextCh(box.ch)
  BY DEF BoxTick, Beaconed, Inv, TypeOK
<1>4. TicksLeft(d) = 0
  BY <1>2, <1>3 DEF TicksLeft
<1>5. device[d].state # "start"
  BY <1>1, <1>4 DEF Phase, Starting
<1>6. device[d].state # "tx"
  BY <1>1, <1>2, <1>3 DEF Phase, Answering
<1>7. device[d].state = "rx"
  BY <1>1, <1>5, <1>6 DEF Devices
<1> QED  BY <1>1, <1>2, <1>3, <1>4, <1>7 DEF Phase, Listening

LEMMA BoxTickInv == Inv /\ BoxTick => Inv'
<1> SUFFICES ASSUME Inv, BoxTick PROVE Inv'
  OBVIOUS
<1>1. /\ UNCHANGED <<device, heard, raced>>
      /\ now'.ms = 0 /\ now'.due = Due(0)
      /\ box'.beacon.new => box'.recv = {} /\ answer' = [d \in DEVICES |-> NoIdx]
      /\ ~box'.beacon.new =>
           box'.recv = box.recv /\ answer' = answer
             /\ box'.beacon.asks = DEVICES \ box.recv
  BY DEF Inv, TypeOK, Beacons, BoxTick, Beaconed, Asks
<1>2. OncePerFrame' /\ ResendRepeats' /\ LastAnswerKept' /\ ForcedAtStart'
  BY <1>1 DEF Inv, OncePerFrame, ResendRepeats, LastAnswerKept, ForcedAtStart
<1>3. AskedNotTaken'
  BY <1>1 DEF AskedNotTaken
<1>4. InPhase'
  <2> SUFFICES ASSUME NEW d \in heard \ raced, device[d].sync > 0
               PROVE  Phase(d)'
    BY <1>1 DEF InPhase
  <2>1. /\ device[d].state = "rx" /\ device[d].ch = box'.ch
        /\ device[d].scan \in 1 .. INTERVAL
    BY TickInStep
  <2>2. d \in now'.due
    BY <1>1, <2>1 DEF Due, Inv, TypeOK
  <2>3. TicksLeft(d)' = INTERVAL
    BY <1>1, <2>2, TimeAssumption DEF TicksLeft, TimeAssumption
  <2> QED  BY <1>1, <2>1, <2>3, TimeAssumption DEF Phase, Listening, TimeAssumption
<1> QED  BY <1>2, <1>3, <1>4, BoxTickType DEF Inv

\* An action of one device leaves the others where they are.
LEMMA OthersInPhase ==
  ASSUME TypeOK, NEW d \in DEVICES, NEW w, device' = [device EXCEPT ![d] = w],
         now' = now \/ Done(d), box'.ch = box.ch,
         NEW e \in DEVICES, e # d
  PROVE  /\ device'[e] = device[e]
         /\ now'.ms = now.ms /\ (e \in now'.due <=> e \in now.due)
         /\ Phase(e) => Phase(e)'
<1>1. device'[e] = device[e]
  BY DEF TypeOK
<1>2. now'.ms = now.ms /\ (e \in now'.due <=> e \in now.due)
  BY DEF TypeOK, Done
<1>3. TicksLeft(e)' = TicksLeft(e)
  BY <1>2 DEF TicksLeft
<1> QED  BY <1>1, <1>2, <1>3 DEF Phase, Listening, Starting, Answering

\* One that has acted has one tick less until the beacon.
LEMMA OneTickLess ==
  ASSUME TypeOK, NEW d \in DEVICES, d \in now.due, Done(d)
  PROVE  /\ now'.ms = now.ms /\ now'.due = now.due \ {d}
         /\ TicksLeft(d) \in 1 .. INTERVAL
         /\ TicksLeft(d)' = TicksLeft(d) - 1
  BY TimeAssumption DEF TimeAssumption, TypeOK, Done, TicksLeft

LEMMA DeviceTickInv ==
  ASSUME Inv, NEW d \in DEVICES, DeviceTick(d)
  PROVE  Inv'
<1> DEFINE v == device[d]
<1>1. /\ v \in Devices /\ v.state # "tx" /\ d \in now.due
      /\ v.force <=> v.state = "start"
      /\ device' = [device EXCEPT ![d] = Ticked(v)]
      /\ Done(d) /\ UNCHANGED <<box, heard, answer, raced>>
  BY DEF Inv, TypeOK, ForcedAtStart, DeviceTick, history
<1>2. TypeOK
  BY DEF Inv
<1>3. \A e \in DEVICES : e # d => device'[e] = device[e]
  BY <1>1, <1>2 DEF TypeOK
<1>4. device'[d] = Ticked(v)
  BY <1>1, <1>2 DEF TypeOK
<1>5. /\ Ticked(v).state = IF Less1(v.scan) = 0 \/ v.force THEN "rx" ELSE v.state
      /\ Ticked(v).cur = v.cur
      /\ Ticked(v).force <=> Ticked(v).state = "start"
  BY <1>1, TickedFits
<1>6. OncePerFrame' /\ ResendRepeats' /\ LastAnswerKept' /\ ForcedAtStart'
  BY <1>1, <1>3, <1>4, <1>5
  DEF Inv, OncePerFrame, ResendRepeats, LastAnswerKept, ForcedAtStart
<1>7. AskedNotTaken'
  BY <1>1 DEF Inv, TypeOK, Done, AskedNotTaken
<1>8. ASSUME d \in heard \ raced, Ticked(v).sync > 0
      PROVE  Phase(d)'
  <2>1. Phase(d) /\ v.sync > 0
    <3>1. v.sync > 0 /\ v.scan \in Nat
      BY <1>1, <1>8, TickedFits, Timeouts DEF Less1, Devices
    <3> QED  BY <1>8, <3>1 DEF Inv, InPhase
  <2>2. /\ INTERVAL \in Nat \ {0, 1}
        /\ TicksLeft(d) \in 1 .. INTERVAL /\ TicksLeft(d)' = TicksLeft(d) - 1
    BY <1>1, <1>2, OneTickLess, TimeAssumption DEF TimeAssumption
  <2>3. NextScan(Less1(v.sync)) = INTERVAL
    BY <1>1, <1>8, TickedFits DEF NextScan, BEACON_SCAN_SHORT_TIMEOUT_MS
  <2>4. CASE v.force
    <3>1. v.ch = box.ch
      BY <1>1, <2>1, <2>4 DEF Phase, Starting
    <3>2. /\ Ticked(v).state = "rx" /\ Ticked(v).ch = NextCh(box.ch)
          /\ Ticked(v).scan = INTERVAL
      BY <1>1, <2>3, <2>4, <3>1, TickedFits
    <3> QED  BY <1>1, <1>4, <2>2, <3>2 DEF Phase, Listening
  <2>5. CASE ~v.force
    <3>1. v.state = "rx" /\ Listening(d)
      BY <1>1, <2>1, <2>5 DEF Phase, Devices
    <3>2. Less1(v.scan) = v.scan - 1 /\ v.scan \in 1 .. INTERVAL
      BY <2>2, <3>1 DEF Less1, Listening
    <3>3. CASE v.scan = 1
      <4>1. v.ch = box.ch
        BY <2>2, <3>1, <3>3 DEF Listening
      <4>2. /\ Ticked(v).state = "rx" /\ Ticked(v).ch = NextCh(box.ch)
            /\ Ticked(v).scan = INTERVAL
        BY <1>1, <2>3, <3>2, <3>3, <4>1, TickedFits
      <4> QED  BY <1>1, <1>4, <2>2, <4>2 DEF Phase, Listening
    <3>4. CASE v.scan # 1
      <4>1. /\ Ticked(v).state = "rx" /\ Ticked(v).ch = v.ch
            /\ Ticked(v).scan = v.scan - 1
        BY <1>1, <2>5, <3>1, <3>2, <3>4, TickedFits
      <4> QED  BY <1>1, <1>4, <2>2, <3>1, <3>2, <3>4, <4>1 DEF Phase, Listening
    <3> QED  BY <3>3, <3>4
  <2> QED  BY <2>4, <2>5
<1>9. InPhase'
  <2> SUFFICES ASSUME NEW e \in heard \ raced, device'[e].sync > 0
               PROVE  Phase(e)'
    BY <1>1 DEF InPhase
  <2>1. CASE e = d
    BY <1>4, <1>8, <2>1
  <2>2. CASE e # d
    <3>1. e \in DEVICES
      BY <1>2 DEF TypeOK
    <3>2. Phase(e)
      BY <1>3, <2>2, <3>1 DEF Inv, InPhase
    <3> QED  BY <1>1, <1>2, <2>2, <3>1, <3>2, OthersInPhase
  <2> QED  BY <2>1, <2>2
<1> QED  BY <1>2, <1>6, <1>7, <1>9, DeviceTickType DEF Inv

LEMMA AnswerInv ==
  ASSUME Inv, NEW d \in DEVICES, Answer(d)
  PROVE  Inv'
<1> DEFINE v == device[d]
<1>1. /\ v \in Devices /\ v.state = "tx" /\ ~v.force /\ d \in now.due
      /\ device' = [device EXCEPT ![d] = Answered(v)]
      /\ Done(d) /\ UNCHANGED <<heard, answer, raced>>
  BY DEF Inv, TypeOK, ForcedAtStart, Answer, history
<1>2. TypeOK
  BY DEF Inv
<1>3. /\ box'.ch = box.ch /\ box'.beacon = box.beacon
      /\ box'.recv \subseteq box.recv \cup {d}
  BY <1>2 DEF Answer, TypeOK
<1>4. \A e \in DEVICES : e # d => device'[e] = device[e]
  BY <1>1, <1>2 DEF TypeOK
<1>5. /\ device'[d] = Answered(v)
      /\ device'[d].state = "rx" /\ device'[d].force = v.force
      /\ device'[d].ch = NextCh(v.ch) /\ device'[d].scan = INTERVAL
      /\ device'[d].cur = v.cur
  BY <1>1, <1>2, AnsweredFits DEF TypeOK
<1>6. OncePerFrame' /\ ResendRepeats' /\ LastAnswerKept' /\ ForcedAtStart'
  BY <1>1, <1>3, <1>4, <1>5
  DEF Inv, OncePerFrame, ResendRepeats, LastAnswerKept, ForcedAtStart
<1>7. now'.ms = now.ms /\ now'.due = now.due \ {d}
  BY <1>1, <1>2, OneTickLess
<1>8. AskedNotTaken'
  BY <1>3, <1>7 DEF Inv, AskedNotTaken
<1>9. ASSUME d \in heard \ raced, device'[d].sync > 0
      PROVE  Phase(d)'
  <2>1. v.sync > 0
    BY <1>1, <1>5, <1>9 DEF Answered, Devices
  <2>2. v.ch = box.ch
    BY <1>1, <1>9, <2>1 DEF Inv, InPhase, Phase, Answering
  <2>3. INTERVAL \in Nat \ {0, 1} /\ TicksLeft(d)' \in 0 .. INTERVAL - 1
    BY <1>1, <1>2, OneTickLess, TimeAssumption DEF TimeAssumption
  <2> QED  BY <1>3, <1>5, <2>2, <2>3 DEF Phase, Listening
<1>10. InPhase'
  <2> SUFFICES ASSUME NEW e \in heard \ raced, device'[e].sync > 0
               PROVE  Phase(e)'
    BY <1>1 DEF InPhase
  <2>1. CASE e = d
    BY <1>9, <2>1
  <2>2. CASE e # d
    <3>1. e \in DEVICES
      BY <1>2 DEF TypeOK
    <3>2. Phase(e)
      BY <1>4, <2>2, <3>1 DEF Inv, InPhase
    <3> QED  BY <1>1, <1>2, <1>3, <2>2, <3>1, <3>2, OthersInPhase
  <2> QED  BY <2>1, <2>2
<1> QED  BY <1>2, <1>6, <1>8, <1>10, AnswerType DEF Inv

LEMMA HearInv ==
  ASSUME Inv, NEW d \in DEVICES, Hear(d)
  PROVE  Inv'
<1>1. TypeOK /\ ForcedAtStart
  BY DEF Inv
<1>2. PICK v \in Devices :
        /\ device' = [device EXCEPT ![d] = Handled(v, d)]
        /\ v.force = FALSE
        /\ v.cur = device[d].cur
        /\ ~device[d].middle => v.ch = box.ch
  BY <1>1, HearFits
<1> DEFINE w == Handled(v, d)
           asked == box.beacon.new \/ d \in box.beacon.asks
<1>3. /\ w \in Devices /\ w.ch = v.ch
      /\ asked => w.state = "tx" /\ w.force = v.force
      /\ ~asked => w.state = "start" /\ w.force = TRUE
      /\ box.beacon.new => w.out = v.cur /\ w.cur = 1 - v.cur
      /\ ~box.beacon.new => w.cur = v.cur
      /\ w.state = "tx" /\ ~box.beacon.new => w.out = 1 - v.cur
  BY <1>1, HandledFits
<1> HIDE DEF w
<1>4. /\ device'[d] = w
      /\ \A e \in DEVICES : e # d => device'[e] = device[e]
  BY <1>1, <1>2 DEF TypeOK, w
<1>5. /\ d \in now.due /\ now.ms = 0 /\ UNCHANGED box
      /\ heard' = heard \cup {d}
      /\ raced' = IF device[d].middle THEN raced \cup {d} ELSE raced \ {d}
      /\ answer' = IF box.beacon.new
                   THEN [answer EXCEPT ![d] = w.out] ELSE answer
      /\ IF w.state = "tx" /\ OFFSET[d] = 0 THEN now' = now ELSE Done(d)
  BY <1>4 DEF Hear
<1>6. OncePerFrame' /\ AskedNotTaken'
  <2>1. asked => d \notin box.recv
    BY <1>5 DEF Inv, AskedNotTaken
  <2>2. OncePerFrame'
    BY <1>3, <1>4, <1>5, <2>1 DEF Inv, OncePerFrame
  <2>3. AskedNotTaken'
    BY <1>1, <1>5 DEF Inv, TypeOK, AskedNotTaken, Done
  <2> QED  BY <2>2, <2>3
<1>7. ResendRepeats' /\ LastAnswerKept'
  <2>1. v.cur \in {0, 1} /\ 1 - (1 - v.cur) = v.cur
    BY DEF Devices
  <2>2. /\ \A e \in DEVICES : e # d => answer'[e] = answer[e]
        /\ box.beacon.new => answer'[d] = w.out
        /\ ~box.beacon.new => answer'[d] = answer[d]
    BY <1>1, <1>5 DEF TypeOK
  <2>3. LastAnswerKept'
    BY <1>2, <1>3, <1>4, <2>1, <2>2 DEF Inv, LastAnswerKept
  <2>4. ResendRepeats'
    BY <1>2, <1>3, <1>4, <2>1, <2>2 DEF Inv, ResendRepeats, LastAnswerKept
  <2> QED  BY <2>3, <2>4
<1>8. ForcedAtStart'
  BY <1>2, <1>3, <1>4 DEF Inv, ForcedAtStart
<1>9. ASSUME d \notin raced'
      PROVE  Phase(d)'
  <2>1. w.ch = box.ch
    BY <1>2, <1>3, <1>5, <1>9
  <2>2. INTERVAL \in Nat \ {0, 1} /\ OFFSET[d] \in 0 .. INTERVAL - 1
    BY TimeAssumption DEF TimeAssumption
  <2>3. CASE asked
    <3>1. w.state = "tx"
      BY <1>3, <2>3
    <3>2. now'.ms = 0 /\ (OFFSET[d] = 0 => d \in now'.due)
      BY <1>1, <1>5, <3>1, OneTickLess
    <3>3. Answering(d)'
      BY <1>4, <1>5, <2>1, <2>2, <3>2 DEF Answering
    <3> QED  BY <1>4, <3>1, <3>3 DEF Phase
  <2>4. CASE ~asked
    <3>1. w.state = "start"
      BY <1>3, <2>4
    <3>2. now'.ms = 0 /\ d \notin now'.due
      BY <1>1, <1>5, <3>1, OneTickLess
    <3>3. Starting(d)'
      BY <1>4, <1>5, <2>1, <2>2, <3>2 DEF Starting, TicksLeft
    <3> QED  BY <1>4, <3>1, <3>3 DEF Phase
  <2> QED  BY <2>3, <2>4
<1>10. InPhase'
  <2> SUFFICES ASSUME NEW e \in heard' \ raced', device'[e].sync > 0
               PROVE  Phase(e)'
    BY DEF InPhase
  <2>1. CASE e = d
    BY <1>9, <2>1
  <2>2. CASE e # d
    <3>1. e \in DEVICES /\ e \in heard \ raced
      BY <1>1, <1>5, <2>2 DEF TypeOK
    <3>2. Phase(e)
      BY <1>4, <2>2, <3>1 DEF Inv, InPhase
    <3>3. now' = now \/ Done(d)
      BY <1>5
    <3> QED  BY <1>1, <1>2, <1>5, <2>2, <3>1, <3>2, <3>3, OthersInPhase
  <2> QED  BY <2>1, <2>2
<1> QED  BY <1>1, <1>6, <1>7, <1>8, <1>10, HearType DEF Inv

LEMMA BoxRestartInv == Inv /\ BoxRestart => Inv'
<1> SUFFICES ASSUME Inv, BoxRestart PROVE Inv'
  OBVIOUS
<1>1. /\ box'.recv = {} /\ now'.due = {} /\ heard' = {}
      /\ \A d \in DEVICES : answer'[d] = NoIdx
  BY DEF BoxRestart, BoxStarted
<1>2. \A d \in DEVICES : /\ device'[d].state = device[d].state
                         /\ device'[d].force = device[d].force
  BY DEF BoxRestart, Inv, TypeOK, Devices
<1>3. OncePerFrame' /\ AskedNotTaken' /\ ResendRepeats' /\ LastAnswerKept' /\ InPhase'
  BY <1>1 DEF OncePerFrame, AskedNotTaken, ResendRepeats, LastAnswerKept, InPhase
<1>4. ForcedAtStart'
  BY <1>2 DEF Inv, ForcedAtStart
<1> QED  BY <1>3, <1>4, BoxRestartType DEF Inv

LEMMA DeviceRestartInv ==
  ASSUME Inv, NEW d \in DEVICES, DeviceRestart(d)
  PROVE  Inv'
<1>1. TypeOK
  BY DEF Inv
<1>2. PICK middle \in BOOLEAN : device' = [device EXCEPT ![d] = Started(middle)]
  BY DEF DeviceRestart
<1>3. /\ device'[d].state = "start" /\ device'[d].force
      /\ \A e \in DEVICES : e # d => device'[e] = device[e]
  BY <1>1, <1>2, StartedFits DEF TypeOK
<1>4. /\ heard' = heard \ {d} /\ raced' = raced \ {d} /\ Done(d) /\ UNCHANGED box
      /\ answer'[d] = NoIdx /\ \A e \in DEVICES : e # d => answer'[e] = answer[e]
  BY <1>1 DEF DeviceRestart, TypeOK
<1>5. OncePerFrame' /\ ResendRepeats' /\ LastAnswerKept' /\ ForcedAtStart'
  BY <1>3, <1>4 DEF Inv, OncePerFrame, ResendRepeats, LastAnswerKept, ForcedAtStart
<1>6. AskedNotTaken'
  BY <1>1, <1>4 DEF Inv, TypeOK, AskedNotTaken, Done
<1>7. InPhase'
  <2> SUFFICES ASSUME NEW e \in heard' \ raced', device'[e].sync > 0
               PROVE  Phase(e)'
    BY DEF InPhase
  <2>1. e \in DEVICES /\ e # d /\ e \in heard \ raced
    BY <1>1, <1>4 DEF TypeOK
  <2>2. Phase(e)
    BY <1>3, <2>1 DEF Inv, InPhase
  <2> QED  BY <1>1, <1>2, <1>4, <2>1, <2>2, OthersInPhase
<1> QED  BY <1>1, <1>5, <1>6, <1>7, DeviceRestartType DEF Inv

LEMMA NextInv == Inv /\ [Next]_vars => Inv'
<1> SUFFICES ASSUME Inv, [Next]_vars PROVE Inv'
  OBVIOUS
<1>1. CASE Advance
  BY <1>1, AdvanceInv
<1>2. CASE BoxTick
  BY <1>2, BoxTickInv
<1>3. ASSUME NEW d \in DEVICES, DeviceTick(d) PROVE Inv'
  BY <1>3, DeviceTickInv
<1>4. ASSUME NEW d \in DEVICES, Hear(d) PROVE Inv'
  BY <1>4, HearInv
<1>5. ASSUME NEW d \in DEVICES, Answer(d) PROVE Inv'
  BY <1>5, AnswerInv
<1>6. CASE BoxRestart
  BY <1>6, BoxRestartInv
<1>7. ASSUME NEW d \in DEVICES, DeviceRestart(d) PROVE Inv'
  BY <1>7, DeviceRestartInv
<1>8. CASE UNCHANGED vars
  BY <1>8
  DEF vars, Inv, TypeOK, OncePerFrame, AskedNotTaken, ResendRepeats, LastAnswerKept,
      ForcedAtStart, InPhase, Phase, Listening, Starting, Answering, TicksLeft
<1> QED  BY <1>1, <1>2, <1>3, <1>4, <1>5, <1>6, <1>7, <1>8 DEF Next, Clock

\* The inductive invariant holds of the box, the devices and their clocks.
THEOREM FrameInvariant == Spec => []Inv
<1> QED  BY InitInv, NextInv, PTL DEF Spec

-----------------------------------------------------------------------------
(* Theorems *)

\* Every variable has its type, and indices of channels stay in the list
\* (hop_channel, the only place where either program steps through it).
THEOREM TypeCorrect == Spec => []TypeOK
<1>1. Inv => TypeOK
  BY DEF Inv
<1> QED  BY <1>1, FrameInvariant, PTL

\* The box never asks a device it has heard in this frame, whatever acknowledgments
\* are lost: no device answers twice with data the box has taken.
THEOREM TakenOnce == Spec => []OncePerFrame
<1>1. Inv => OncePerFrame
  BY DEF Inv
<1> QED  BY <1>1, FrameInvariant, PTL

\* The two buffers of a device (send_device_data) change places once in a frame, so
\* that a repetition is one.
THEOREM RepeatsAnswer == Spec => []ResendRepeats
<1>1. Inv => ResendRepeats
  BY DEF Inv
<1> QED  BY <1>1, FrameInvariant, PTL

\* Answers, lost acknowledgments, lost beacons and beacons without an answer leave
\* a device on the channel of the box, for any list of channels and any offsets of
\* the answers within the interval (interval_timer_event_handler of the device).
THEOREM StaysInStep == Spec => InStep
<1> DEFINE Step == BoxTick => \A d \in heard \ raced :
             device[d].sync > 0 => device[d].state = "rx" /\ device[d].ch = box'.ch
<1>1. Inv /\ [Next]_vars => [Step]_vars
  BY TickInStep
<1> HIDE DEF Step
<1>2. Spec => [][Step]_vars
  BY <1>1, FrameInvariant, PTL DEF Spec
<1> QED  BY <1>2 DEF InStep, Step
=============================================================================
