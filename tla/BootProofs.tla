----------------------------- MODULE BootProofs -----------------------------
(***************************************************************************)
(* Proofs about Boot and the loops of ChannelPick it extends.              *)
(*                                                                         *)
(* The channel the box picks in a region is the quietest one, for every    *)
(* number of regions, channels and samples whose sums fit in 16 bits.  For *)
(* any number of devices, slots and losses of power besides: the types of  *)
(* Boot, and that the box, the devices and both together resume with what  *)
(* was stored.                                                             *)
(***************************************************************************)
EXTENDS Boot, TLAPS

-----------------------------------------------------------------------------
(* The loops of do_channel_list_generation *)

\* Samples of a channel that have been added in this region.
Taken(n) == IF n < k THEN samples + 1 ELSE samples

\* The sums do not wrap: each is at most what its samples allow.
SumsBounded ==
  /\ k > 1 => samples < SAMPLES
  /\ \A n \in Indexes : rssi[n] <= Taken(n) * RSSI_MAX

\* highest_rssi is the largest sum so far, and if it is not 0 selected_ch has it.
HighestIsMaximum ==
  /\ \A n \in Indexes : rssi[n] <= highest_rssi
  /\ highest_rssi > 0 =>
       \E n \in Indexes : selected_ch = <<i, n>> /\ rssi[n] = highest_rssi

PickInv == PickTypeOK /\ SumsBounded /\ HighestIsMaximum

\* One more sample of a channel still fits: the sums of do_channel_list_generation
\* are uint16_t.
LEMMA SampleFits ==
  ASSUME NEW taken \in Nat, taken < SAMPLES, NEW sum \in Nat, sum <= taken * RSSI_MAX,
         NEW sample \in 0 .. RSSI_MAX
  PROVE  /\ sum + sample <= (taken + 1) * RSSI_MAX
         /\ (sum + sample) % (UINT16_MAX + 1) = sum + sample
<1>1. (taken + 1) * RSSI_MAX = taken * RSSI_MAX + RSSI_MAX
  BY SizeAssumption, SMT
<1>2. (taken + 1) * RSSI_MAX <= SAMPLES * RSSI_MAX
  <2>1. PICK rest \in Nat : SAMPLES = taken + 1 + rest
    <3>1. SAMPLES - (taken + 1) \in Nat /\ SAMPLES = taken + 1 + (SAMPLES - (taken + 1))
      BY SizeAssumption
    <3> QED BY <3>1
  <2>2. SAMPLES * RSSI_MAX = (taken + 1) * RSSI_MAX + rest * RSSI_MAX
    BY <2>1, SizeAssumption, SMT
  <2>3. rest * RSSI_MAX >= 0
    BY SizeAssumption, SMT
  <2>4. (taken + 1) * RSSI_MAX \in Nat /\ rest * RSSI_MAX \in Nat
    BY SizeAssumption, SMT
  <2> QED BY <2>2, <2>3, <2>4, SMT
<1>3. sum + sample <= (taken + 1) * RSSI_MAX
  <2>1. taken * RSSI_MAX \in Nat
    BY SizeAssumption, SMT
  <2> QED BY <1>1, <2>1, SizeAssumption
<1>4. sum + sample <= UINT16_MAX
  <2>1. (taken + 1) * RSSI_MAX \in Nat /\ SAMPLES * RSSI_MAX \in Nat
    BY SizeAssumption, SMT
  <2> QED BY <1>2, <1>3, <2>1, SumAssumption, SizeAssumption
<1>5. ASSUME NEW n \in Nat, n <= UINT16_MAX PROVE n % (UINT16_MAX + 1) = n
  BY <1>5, SizeAssumption, SMT
<1> QED BY <1>3, <1>4, <1>5, SizeAssumption

LEMMA InitPick ==
  ASSUME NEW list \in [Regions -> ChannelBytes], PickStart(list)
  PROVE  PickInv
<1>1. PickTypeOK
  BY SizeAssumption DEF PickStart, PickTypeOK, Indexes, ZeroSums
<1>2. SumsBounded
  BY SizeAssumption, SMT DEF PickStart, SumsBounded, Taken, ZeroSums, Indexes
<1>3. HighestIsMaximum
  BY DEF PickStart, HighestIsMaximum, ZeroSums
<1> QED BY <1>1, <1>2, <1>3 DEF PickInv

\* A sample is added to its sum without wrapping, and the sum it makes is the largest
\* if and only if selected_ch follows it.
LEMMA TakeSamplePick ==
  ASSUME PickInv, TakeSample
  PROVE  PickInv'
<1> USE DEF PickInv
<1>1. PICK sample \in 0 .. RSSI_MAX :
        LET sum == (rssi[k] + sample) % (UINT16_MAX + 1)
        IN /\ rssi' = [rssi EXCEPT ![k] = sum]
           /\ IF Selects(sample)
              THEN highest_rssi' = sum /\ selected_ch' = <<i, k>>
              ELSE UNCHANGED <<highest_rssi, selected_ch>>
  BY DEF TakeSample
<1> DEFINE sum == rssi[k] + sample
<1>2. i \in Regions /\ k \in Indexes /\ samples \in Nat /\ samples < SAMPLES
  BY SizeAssumption DEF TakeSample, Picked, PickTypeOK, Regions
<1>3. rssi \in [Indexes -> 0 .. UINT16_MAX] /\ rssi[k] \in Nat /\ sum \in Nat
  BY <1>2, SizeAssumption DEF PickTypeOK
<1>4. /\ sum <= (samples + 1) * RSSI_MAX
      /\ sum % (UINT16_MAX + 1) = sum
  <2>1. rssi[k] <= samples * RSSI_MAX
    BY <1>2 DEF SumsBounded, Taken, Indexes
  <2> HIDE DEF sum
  <2> QED BY <1>2, <1>3, <2>1, SampleFits DEF sum
<1>5. /\ rssi' = [rssi EXCEPT ![k] = sum]
      /\ IF highest_rssi < sum
         THEN highest_rssi' = sum /\ selected_ch' = <<i, k>>
         ELSE UNCHANGED <<highest_rssi, selected_ch>>
  BY <1>1, <1>4 DEF Selects
<1> HIDE DEF sum
<1>6. sum <= UINT16_MAX
  <2>1. sum % (UINT16_MAX + 1) \in 0 .. UINT16_MAX
    BY <1>3, SizeAssumption, SMT
  <2> QED BY <2>1, <1>4
<1>7. PickTypeOK'
  <2>1. rssi' \in [Indexes -> 0 .. UINT16_MAX] /\ highest_rssi' \in 0 .. UINT16_MAX
    BY <1>3, <1>5, <1>6 DEF PickTypeOK
  <2>2. selected_ch' \in ChannelBytes
    BY <1>2, <1>5 DEF PickTypeOK, ChannelBytes, Channels
  <2>3. k' \in Indexes /\ samples' \in 0 .. SAMPLES
    BY <1>2, SizeAssumption DEF TakeSample, Indexes
  <2> QED BY <2>1, <2>2, <2>3 DEF TakeSample, PickTypeOK
<1>8. SumsBounded'
  <2>1. k' > 1 => samples' < SAMPLES
    BY <1>2 DEF TakeSample, Indexes
  <2>2. ASSUME NEW n \in Indexes PROVE rssi'[n] <= Taken(n)' * RSSI_MAX
    <3>1. Taken(n)' = IF n = k THEN samples + 1 ELSE Taken(n)
      BY <1>2, SizeAssumption DEF Taken, TakeSample, Indexes
    <3>2. rssi'[n] = IF n = k THEN sum ELSE rssi[n]
      BY <1>3, <1>5
    <3> QED BY <1>4, <3>1, <3>2 DEF SumsBounded
  <2> QED BY <2>1, <2>2 DEF SumsBounded
<1>9. HighestIsMaximum'
  <2>1. \A n \in Indexes : rssi'[n] = IF n = k THEN sum ELSE rssi[n]
    BY <1>3, <1>5
  <2>2. \A n \in Indexes : rssi[n] \in Nat /\ rssi[n] <= highest_rssi
    BY <1>3, SizeAssumption DEF HighestIsMaximum
  <2>3. highest_rssi \in Nat /\ i' = i
    BY SizeAssumption DEF PickTypeOK, TakeSample
  <2>4. CASE highest_rssi < sum
    <3>1. highest_rssi' = sum /\ selected_ch' = <<i, k>>
      BY <1>5, <2>4
    <3> QED BY <1>2, <1>3, <2>1, <2>2, <2>3, <2>4, <3>1 DEF HighestIsMaximum
  <2>5. CASE ~(highest_rssi < sum)
    <3>1. highest_rssi' = highest_rssi /\ selected_ch' = selected_ch
      BY <1>5, <2>5
    <3>2. \A n \in Indexes : rssi'[n] <= highest_rssi'
      BY <1>3, <2>1, <2>2, <2>3, <2>5, <3>1
    <3>3. ASSUME highest_rssi' > 0
          PROVE  \E n \in Indexes : selected_ch' = <<i', n>> /\ rssi'[n] = highest_rssi'
      <4>1. PICK n \in Indexes : selected_ch = <<i, n>> /\ rssi[n] = highest_rssi
        BY <3>1, <3>3 DEF HighestIsMaximum
      <4>2. rssi'[n] = highest_rssi
        <5>1. n = k => sum >= highest_rssi
          BY <1>3, <1>1, <4>1, SizeAssumption DEF sum
        <5> QED BY <1>3, <2>1, <2>3, <2>5, <4>1, <5>1
      <4> QED BY <2>3, <3>1, <4>1, <4>2
    <3> QED BY <3>2, <3>3 DEF HighestIsMaximum
  <2> QED BY <2>4, <2>5
<1> QED BY <1>7, <1>8, <1>9

LEMMA PickChannelPick ==
  ASSUME PickInv, PickChannel
  PROVE  PickInv'
<1>1. PickTypeOK'
  <2>1. i \in Regions
    BY SizeAssumption DEF PickInv, PickTypeOK, PickChannel, Picked, Regions
  <2>2. i' \in 1 .. REGIONS + 1 /\ samples' \in 0 .. SAMPLES /\ k' \in Indexes
    BY <2>1, SizeAssumption DEF PickChannel, Regions, Indexes
  <2>3. rssi' \in [Indexes -> 0 .. UINT16_MAX] /\ highest_rssi' \in 0 .. UINT16_MAX
    BY SizeAssumption DEF PickChannel, ZeroSums
  <2>4. selected_ch' \in ChannelBytes /\ chlist' \in [Regions -> ChannelBytes]
    BY <2>1 DEF PickInv, PickTypeOK, PickChannel
  <2> QED BY <2>2, <2>3, <2>4 DEF PickTypeOK
<1>2. SumsBounded'
  BY SizeAssumption, SMT DEF PickChannel, SumsBounded, Taken, ZeroSums, Indexes
<1>3. HighestIsMaximum'
  BY DEF PickChannel, HighestIsMaximum, ZeroSums
<1> QED BY <1>1, <1>2, <1>3 DEF PickInv

LEMMA NextPick == ASSUME PickInv, [PickNext]_pickVars PROVE PickInv'
<1>1. CASE TakeSample
  BY <1>1, TakeSamplePick
<1>2. CASE PickChannel
  BY <1>2, PickChannelPick
<1>3. CASE UNCHANGED pickVars
  BY <1>3 DEF pickVars, PickInv, PickTypeOK, SumsBounded, Taken, HighestIsMaximum
<1> QED BY <1>1, <1>2, <1>3 DEF PickNext

\* The invariant of the loops of do_channel_list_generation: no sum wraps, and
\* highest_rssi and selected_ch belong together.
THEOREM PickInvariant == PickSpec => []PickInv
<1>1. (\E list \in [Regions -> ChannelBytes] : PickStart(list)) => PickInv
  BY InitPick
<1>2. PickInv /\ [PickNext]_pickVars => PickInv'
  BY NextPick
<1> QED BY <1>1, <1>2, PTL DEF PickSpec

\* At the end of a region selected_ch is its quietest channel.
LEMMA QuietestPicked ==
  ASSUME PickInv, PickChannel, highest_rssi > 0
  PROVE  \E n \in Indexes :
           chlist'[i] = <<i, n>> /\ \A m \in Indexes : rssi[m] <= rssi[n]
<1>1. i \in Regions /\ chlist'[i] = selected_ch
  BY SizeAssumption DEF PickInv, PickTypeOK, PickChannel, Picked, Regions
<1> QED BY <1>1 DEF PickInv, HighestIsMaximum

\* do_channel_list_generation stores for each region the channel with the largest
\* sum, whatever the samples are, unless they are all 0.
THEOREM BestPicked == PickSpec => PickedIsBest
<1>1. PickInv /\ [PickNext]_pickVars =>
        [PickChannel /\ highest_rssi > 0 =>
           \E n \in Indexes :
             chlist'[i] = <<i, n>> /\ \A m \in Indexes : rssi[m] <= rssi[n]]_pickVars
  BY QuietestPicked
<1> QED BY <1>1, PickInvariant, PTL DEF PickSpec, PickedIsBest

-----------------------------------------------------------------------------
(* The inductive invariant *)

\* What the history is made of.
Givens == [setup : {"current", "stored", "old"}, ds : DeviceData]

HistTyped ==
  hist \in [cuts : 0 .. MAX_CUTS, stored : BoxData, given : [DEVICES -> SUBSET Givens]]

\* A device works with, or is storing, something it was given, and so it has on a
\* page that is complete.
DeviceKeepsGiven ==
  \A d \in DEVICES :
    /\ device[d].mode \in {"erase", "write", "normal"} =>
         \E g \in hist.given[d] : g.ds = device[d].ds
    /\ device[d].page.words = WORDS =>
         \E g \in hist.given[d] : g.ds = device[d].page.data

\* There is a word left to write.
NotAllWritten ==
  /\ box.mode = "write" => box.page.words < WORDS
  /\ \A d \in DEVICES : device[d].mode = "write" => device[d].page.words < WORDS

\* A page of the box that is complete is the setup stored last, and every slot is
\* taken in it; so they are when the box begins to store.
PageIsStored ==
  /\ box.page.words = WORDS =>
       box.page.data = hist.stored /\ Full(hist.stored.display, hist.stored.controller)
  /\ box.mode \in {"erase", "write"} => Full(box.display, box.controller)
  /\ box.mode = "normal" => Signed(box.page)

\* The slot of an index is counted.
Holds(ds, display, controller) ==
  ds.dev_idx \in 1 .. display
    \cup MAXIMUM_DISPLAY_DEV + 1 .. MAXIMUM_DISPLAY_DEV + controller

\* What a device was given in the setup in hand is of that setup, and what it was
\* given in the setup stored last is of that one.
GivenInSetup ==
  \A d \in DEVICES : \A g \in hist.given[d] :
    /\ box.mode = "picking" => g.setup # "current"
    /\ g.setup = "current" /\ box.mode \in {"pairing", "erase", "write"} =>
         g.ds.chlist = chlist /\ Holds(g.ds, box.display, box.controller)
    /\ g.setup = "stored" =>
         /\ g.ds.chlist = hist.stored.chlist
         /\ Holds(g.ds, hist.stored.display, hist.stored.controller)

\* The mask has the bits of the slots that are counted.
SlotBits(display, controller) ==
  {6 - n : n \in 1 .. display} \cup {2 - n : n \in 1 .. controller}

MaskOfSlots ==
  /\ box.mode \in {"pairing", "erase", "write"} =>
       SlotBits(box.display, box.controller) \subseteq box.mask
  /\ box.mode = "normal" /\ box.page.words = WORDS =>
       SlotBits(MAXIMUM_DISPLAY_DEV, MAXIMUM_CONTROLLER_DEV) \subseteq box.mask

Inv ==
  /\ TypeOK /\ HistTyped /\ PickInv /\ BoxResumesWhole
  /\ DeviceKeepsGiven /\ NotAllWritten
  /\ PageIsStored /\ GivenInSetup /\ MaskOfSlots

-----------------------------------------------------------------------------
(* Lemmas about the store and the history *)

\* ds_get of the box: what a complete page holds, all ones where nothing is written.
LEMMA DsGetBox ==
  ASSUME NEW page \in [words : 0 .. WORDS, data : BoxData]
  PROVE  /\ DsGet(page, BoxFf) \in BoxData
         /\ page.words = WORDS => DsGet(page, BoxFf) = page.data
<1> DEFINE ds == DsGet(page, BoxFf)
<1>1. /\ ds = [field \in {"chlist", "display", "controller"} |->
                IF Word(field) <= page.words THEN page.data[field] ELSE BoxFf[field]]
  BY DEF DsGet, BoxFf
<1>2. \A field \in {"chlist", "display", "controller"} : Word(field) \in 1 .. WORDS
  BY BootAssumption DEF BootAssumption, Word
<1>3. FfList \in Lists
  BY DEF FfList, Lists, ChannelBytes
<1>4. page.data \in BoxData /\ BoxFf \in BoxData
  BY <1>3 DEF BoxFf, BoxData, Ff
<1>5. ds \in BoxData
  <2> HIDE DEF ds
  <2>1. /\ ds.chlist \in Lists /\ ds.display \in 0 .. Ff /\ ds.controller \in 0 .. Ff
    BY <1>1, <1>4 DEF BoxData
  <2>2. ds = [chlist |-> ds.chlist, display |-> ds.display, controller |-> ds.controller]
    BY <1>1
  <2> QED  BY <2>1, <2>2 DEF BoxData
<1>6. ASSUME page.words = WORDS PROVE ds = page.data
  <2> HIDE DEF ds
  <2>1. ds = [field \in {"chlist", "display", "controller"} |-> page.data[field]]
    BY <1>1, <1>2, <1>6, BootAssumption DEF BootAssumption
  <2> QED  BY <1>4, <2>1 DEF BoxData
<1> QED  BY <1>5, <1>6

\* ds_get of a device: its index is in the last word.
LEMMA DsGetDevice ==
  ASSUME NEW page \in [words : 0 .. WORDS, data : DeviceData]
  PROVE  /\ DsGet(page, DeviceFf) \in DeviceData
         /\ page.words = WORDS => DsGet(page, DeviceFf) = page.data
         /\ page.words # WORDS => DsGet(page, DeviceFf).dev_idx = Ff
<1> DEFINE ds == DsGet(page, DeviceFf)
<1>1. /\ ds = [field \in {"chlist", "dev_idx"} |->
                IF Word(field) <= page.words THEN page.data[field] ELSE DeviceFf[field]]
  BY DEF DsGet, DeviceFf
<1>2. Word("chlist") = 2 /\ Word("dev_idx") = 3 /\ WORDS = 3
  BY BootAssumption DEF BootAssumption, Word
<1>3. FfList \in Lists
  BY DEF FfList, Lists, ChannelBytes
<1>4. page.data \in DeviceData /\ DeviceFf \in DeviceData /\ DeviceFf.dev_idx = Ff
  BY <1>3 DEF DeviceFf, DeviceData, Ff
<1>5. ds \in DeviceData
  <2> HIDE DEF ds
  <2>1. /\ ds.chlist \in Lists /\ ds.dev_idx \in 0 .. Ff
    BY <1>1, <1>4 DEF DeviceData
  <2>2. ds = [chlist |-> ds.chlist, dev_idx |-> ds.dev_idx]
    BY <1>1
  <2> QED  BY <2>1, <2>2 DEF DeviceData
<1>6. ASSUME page.words = WORDS PROVE ds = page.data
  <2> HIDE DEF ds
  <2>1. ds = [field \in {"chlist", "dev_idx"} |-> page.data[field]]
    BY <1>1, <1>2, <1>6
  <2> QED  BY <1>4, <2>1 DEF DeviceData
<1>7. ASSUME page.words # WORDS PROVE ds.dev_idx = Ff
  <2> HIDE DEF ds
  <2> QED  BY <1>1, <1>2, <1>4, <1>7
<1> QED  BY <1>5, <1>6, <1>7

\* The beginning of a setup, and its end, give the data of devices new labels and
\* leave them as they are.
LEMMA RelabelNew ==
  ASSUME HistTyped, NEW h, h = Relabelled(NewSetup)
  PROVE  /\ h \in [cuts : 0 .. MAX_CUTS, stored : BoxData,
                   given : [DEVICES -> SUBSET Givens]]
         /\ h.stored = hist.stored /\ h.cuts = hist.cuts
         /\ \A d \in DEVICES :
              /\ \A g \in h.given[d] :
                   \E f \in hist.given[d] : g.ds = f.ds /\ g.setup = NewSetup(f.setup)
              /\ \A f \in hist.given[d] : \E g \in h.given[d] : g.ds = f.ds
<1> DEFINE New(d) == {[g EXCEPT !.setup = NewSetup(g.setup)] : g \in hist.given[d]}
<1>1. h = [hist EXCEPT !.given = [d \in DEVICES |-> New(d)]]
  BY DEF Relabelled
<1>2. \A g \in Givens : LET f == [g EXCEPT !.setup = NewSetup(g.setup)]
                       IN f \in Givens /\ f.ds = g.ds /\ f.setup = NewSetup(g.setup)
  BY DEF Givens, NewSetup
<1>3. \A d \in DEVICES :
        /\ New(d) \subseteq Givens
        /\ \A g \in New(d) :
             \E f \in hist.given[d] : g.ds = f.ds /\ g.setup = NewSetup(f.setup)
        /\ \A f \in hist.given[d] : \E g \in New(d) : g.ds = f.ds
  <2> SUFFICES ASSUME NEW d \in DEVICES
               PROVE  /\ New(d) \subseteq Givens
                      /\ \A g \in New(d) :
                           \E f \in hist.given[d] :
                             g.ds = f.ds /\ g.setup = NewSetup(f.setup)
                      /\ \A f \in hist.given[d] : \E g \in New(d) : g.ds = f.ds
    OBVIOUS
  <2>1. hist.given[d] \subseteq Givens
    BY DEF HistTyped
  <2>2. \A g \in New(d) : \E f \in hist.given[d] : g = [f EXCEPT !.setup = NewSetup(f.setup)]
    OBVIOUS
  <2>3. \A f \in hist.given[d] : [f EXCEPT !.setup = NewSetup(f.setup)] \in New(d)
    OBVIOUS
  <2> HIDE DEF New
  <2> QED  BY <1>2, <2>1, <2>2, <2>3
<1> HIDE DEF New
<1> QED  BY <1>1, <1>3 DEF HistTyped

LEMMA RelabelStored ==
  ASSUME HistTyped, NEW h, h = Relabelled(StoredSetup)
  PROVE  /\ h \in [cuts : 0 .. MAX_CUTS, stored : BoxData,
                   given : [DEVICES -> SUBSET Givens]]
         /\ h.stored = hist.stored /\ h.cuts = hist.cuts
         /\ \A d \in DEVICES :
              /\ \A g \in h.given[d] :
                   \E f \in hist.given[d] : g.ds = f.ds /\ g.setup = StoredSetup(f.setup)
              /\ \A f \in hist.given[d] : \E g \in h.given[d] : g.ds = f.ds
<1> DEFINE New(d) == {[g EXCEPT !.setup = StoredSetup(g.setup)] : g \in hist.given[d]}
<1>1. h = [hist EXCEPT !.given = [d \in DEVICES |-> New(d)]]
  BY DEF Relabelled
<1>2. \A g \in Givens : LET f == [g EXCEPT !.setup = StoredSetup(g.setup)]
                       IN f \in Givens /\ f.ds = g.ds /\ f.setup = StoredSetup(g.setup)
  BY DEF Givens, StoredSetup
<1>3. \A d \in DEVICES :
        /\ New(d) \subseteq Givens
        /\ \A g \in New(d) :
             \E f \in hist.given[d] : g.ds = f.ds /\ g.setup = StoredSetup(f.setup)
        /\ \A f \in hist.given[d] : \E g \in New(d) : g.ds = f.ds
  <2> SUFFICES ASSUME NEW d \in DEVICES
               PROVE  /\ New(d) \subseteq Givens
                      /\ \A g \in New(d) :
                           \E f \in hist.given[d] :
                             g.ds = f.ds /\ g.setup = StoredSetup(f.setup)
                      /\ \A f \in hist.given[d] : \E g \in New(d) : g.ds = f.ds
    OBVIOUS
  <2>1. hist.given[d] \subseteq Givens
    BY DEF HistTyped
  <2>2. \A g \in New(d) :
          \E f \in hist.given[d] : g = [f EXCEPT !.setup = StoredSetup(f.setup)]
    OBVIOUS
  <2>3. \A f \in hist.given[d] : [f EXCEPT !.setup = StoredSetup(f.setup)] \in New(d)
    OBVIOUS
  <2> HIDE DEF New
  <2> QED  BY <1>2, <2>1, <2>2, <2>3
<1> HIDE DEF New
<1> QED  BY <1>1, <1>3 DEF HistTyped

-----------------------------------------------------------------------------
(* Steps of devices *)

BoxStates ==
  [mode : Modes, display : 0 .. Ff, controller : 0 .. Ff,
   mask : SUBSET Bits, page : [words : 0 .. WORDS, data : BoxData]]
DeviceStates ==
  [mode : {"off", "pairing", "erase", "write", "normal"}, ds : DeviceData,
   page : [words : 0 .. WORDS, data : DeviceData]]

LEMMA PickUnchanged ==
  ASSUME PickInv, UNCHANGED pickVars
  PROVE  PickInv'
  BY DEF pickVars, PickInv, PickTypeOK, SumsBounded, Taken, HighestIsMaximum

\* One device changes: what has to be said of its new state.
LEMMA DeviceStep ==
  ASSUME Inv, NEW d \in DEVICES, NEW w \in DeviceStates,
         device' = [device EXCEPT ![d] = w],
         w.mode \in {"erase", "write", "normal"} =>
           \E g \in hist.given[d] : g.ds = w.ds,
         w.page.words = WORDS => \E g \in hist.given[d] : g.ds = w.page.data,
         w.mode = "write" => w.page.words < WORDS,
         UNCHANGED <<pickVars, box>>,
         HistTyped', hist'.given = hist.given, hist'.stored = hist.stored
  PROVE  Inv'
<1>1. device' \in [DEVICES -> DeviceStates]
      /\ device'[d] = w /\ \A e \in DEVICES : e # d => device'[e] = device[e]
  BY DEF Inv, TypeOK, DeviceStates
<1>2. PickInv'
  BY PickUnchanged DEF Inv
<1>3. TypeOK'
  BY <1>1, <1>2 DEF Inv, TypeOK, DeviceStates, PickInv, HistTyped
<1>4. DeviceKeepsGiven' /\ NotAllWritten'
  BY <1>1 DEF Inv, DeviceKeepsGiven, NotAllWritten
<1>5. BoxResumesWhole' /\ PageIsStored' /\ GivenInSetup' /\ MaskOfSlots'
  BY DEF Inv, BoxResumesWhole, BoxData0, Torn, PageIsStored, GivenInSetup, MaskOfSlots,
         pickVars
<1> QED  BY <1>2, <1>3, <1>4, <1>5 DEF Inv

LEMMA DeviceBootInv ==
  ASSUME Inv, NEW d \in DEVICES, DeviceBoot(d)
  PROVE  Inv'
<1> DEFINE v == device[d]
           ds == DsGet(v.page, DeviceFf)
<1>1. v \in DeviceStates /\ v.mode = "off" /\ UNCHANGED <<pickVars, box, hist>>
  BY DEF Inv, TypeOK, DeviceStates, DeviceBoot
<1>2. /\ ds \in DeviceData
      /\ v.page.words = WORDS => ds = v.page.data
      /\ v.page.words # WORDS => ds.dev_idx = Ff
  BY <1>1, DsGetDevice DEF DeviceStates
<1> HIDE DEF ds
<1>3. PICK mode \in {"pairing", "normal"} :
        /\ ds.dev_idx = Ff => mode = "pairing"
        /\ device' = [device EXCEPT ![d].mode = mode, ![d].ds = ds]
  BY DEF DeviceBoot, ds
<1> DEFINE w == [v EXCEPT !.mode = mode, !.ds = ds]
<1>4. device' = [device EXCEPT ![d] = w]
  BY <1>3 DEF Inv, TypeOK
<1>5. w \in DeviceStates /\ w.mode = mode /\ w.ds = ds /\ w.page = v.page
  BY <1>1, <1>2 DEF DeviceStates
<1>6. v.page.words = WORDS => \E g \in hist.given[d] : g.ds = v.page.data
  BY DEF Inv, DeviceKeepsGiven
<1> HIDE DEF w
<1>7. mode = "normal" => \E g \in hist.given[d] : g.ds = ds
  BY <1>2, <1>3, <1>6
<1>8. HistTyped' /\ hist'.given = hist.given /\ hist'.stored = hist.stored
  BY <1>1 DEF Inv, HistTyped
<1>9. mode # "write" /\ mode # "erase"
  BY <1>3
<1>10. w.mode \in {"erase", "write", "normal"} => \E g \in hist.given[d] : g.ds = w.ds
  BY <1>5, <1>7, <1>9
<1>11. w.page.words = WORDS => \E g \in hist.given[d] : g.ds = w.page.data
  BY <1>5, <1>6
<1>12. w.mode = "write" => w.page.words < WORDS
  BY <1>5, <1>9
<1> QED  BY <1>1, <1>4, <1>5, <1>8, <1>10, <1>11, <1>12, DeviceStep

LEMMA DeviceEraseInv ==
  ASSUME Inv, NEW d \in DEVICES, DeviceErase(d)
  PROVE  Inv'
<1> DEFINE v == device[d]
           w == [v EXCEPT !.mode = "write", !.page = Erased(DeviceFf)]
<1>1. v \in DeviceStates /\ v.mode = "erase" /\ UNCHANGED <<pickVars, box, hist>>
  BY DEF Inv, TypeOK, DeviceStates, DeviceErase
<1>2. device' = [device EXCEPT ![d] = w]
  BY DEF DeviceErase, Inv, TypeOK
<1>3. Erased(DeviceFf) \in [words : 0 .. WORDS, data : DeviceData]
      /\ Erased(DeviceFf).words = 0 /\ WORDS = 3
  BY BootAssumption
  DEF BootAssumption, Erased, DeviceFf, DeviceData, FfList, Lists, ChannelBytes, Ff
<1>4. w \in DeviceStates /\ w.mode = "write" /\ w.ds = v.ds /\ w.page = Erased(DeviceFf)
  BY <1>1, <1>3 DEF DeviceStates
<1>5. \E g \in hist.given[d] : g.ds = v.ds
  BY <1>1 DEF Inv, DeviceKeepsGiven
<1>6. HistTyped' /\ hist'.given = hist.given /\ hist'.stored = hist.stored
  BY <1>1 DEF Inv, HistTyped
<1> HIDE DEF w
<1>10. w.mode \in {"erase", "write", "normal"} => \E g \in hist.given[d] : g.ds = w.ds
  BY <1>4, <1>5
<1>11. w.page.words = WORDS => \E g \in hist.given[d] : g.ds = w.page.data
  BY <1>3, <1>4
<1>12. w.mode = "write" => w.page.words < WORDS
  BY <1>3, <1>4
<1> QED  BY <1>1, <1>2, <1>4, <1>6, <1>10, <1>11, <1>12, DeviceStep

LEMMA DeviceWriteInv ==
  ASSUME Inv, NEW d \in DEVICES, DeviceWrite(d)
  PROVE  Inv'
<1> DEFINE v == device[d]
           page == [words |-> v.page.words + 1, data |-> v.ds]
           mode == IF v.page.words + 1 = WORDS THEN "normal" ELSE v.mode
           w == [v EXCEPT !.page = page, !.mode = mode]
<1>1. v \in DeviceStates /\ v.mode = "write" /\ UNCHANGED <<pickVars, box, hist>>
  BY DEF Inv, TypeOK, DeviceStates, DeviceWrite
<1>2. device' = [device EXCEPT ![d] = w]
  BY DEF DeviceWrite, Inv, TypeOK
<1>3. WORDS = 3 /\ v.page.words < WORDS
  BY <1>1, BootAssumption DEF BootAssumption, Inv, NotAllWritten
<1>4. page \in [words : 0 .. WORDS, data : DeviceData]
      /\ page.words = v.page.words + 1 /\ page.data = v.ds
  BY <1>1, <1>3 DEF DeviceStates
<1> HIDE DEF page
<1>5. w \in DeviceStates /\ w.ds = v.ds /\ w.page = page /\ w.mode = mode
  BY <1>1, <1>4 DEF DeviceStates
<1>6. \E g \in hist.given[d] : g.ds = v.ds
  BY <1>1 DEF Inv, DeviceKeepsGiven
<1>7. mode = "write" => page.words < WORDS
  BY <1>1, <1>3, <1>4 DEF DeviceStates
<1>8. HistTyped' /\ hist'.given = hist.given /\ hist'.stored = hist.stored
  BY <1>1 DEF Inv, HistTyped
<1> HIDE DEF w, mode
<1>10. w.mode \in {"erase", "write", "normal"} => \E g \in hist.given[d] : g.ds = w.ds
  BY <1>5, <1>6
<1>11. w.page.words = WORDS => \E g \in hist.given[d] : g.ds = w.page.data
  BY <1>4, <1>5, <1>6
<1>12. w.mode = "write" => w.page.words < WORDS
  BY <1>5, <1>7
<1> QED  BY <1>1, <1>2, <1>5, <1>8, <1>10, <1>11, <1>12, DeviceStep

\* A device that is off, after a loss of power or a reset.
LEMMA DeviceOffInv ==
  ASSUME Inv, NEW d \in DEVICES, DeviceHopFails(d) \/ DeviceCut(d)
  PROVE  Inv'
<1> DEFINE v == device[d]
           w == [v EXCEPT !.mode = "off", !.ds = DeviceFf]
<1>1. v \in DeviceStates /\ UNCHANGED <<pickVars, box>>
  BY DEF Inv, TypeOK, DeviceStates, DeviceHopFails, DeviceCut
<1>2. device' = [device EXCEPT ![d] = w]
  BY DEF DeviceHopFails, DeviceCut, Inv, TypeOK
<1>3. DeviceFf \in DeviceData
  BY DEF DeviceFf, DeviceData, FfList, Lists, ChannelBytes, Ff
<1>4. w \in DeviceStates /\ w.mode = "off" /\ w.page = v.page
  BY <1>1, <1>3 DEF DeviceStates
<1>5. v.page.words = WORDS => \E g \in hist.given[d] : g.ds = v.page.data
  BY DEF Inv, DeviceKeepsGiven
<1>6. HistTyped' /\ hist'.given = hist.given /\ hist'.stored = hist.stored
  BY BootAssumption DEF BootAssumption, Inv, HistTyped, DeviceHopFails, DeviceCut
<1> HIDE DEF w
<1> QED  BY <1>1, <1>2, <1>4, <1>5, <1>6, DeviceStep

-----------------------------------------------------------------------------
(* Steps of the box *)

\* The loops of the channel choice before they begin, and when they are over.
LEMMA PickAtRest ==
  ASSUME i' \in 1 .. REGIONS + 1, samples' = 0, k' = 1, rssi' = ZeroSums,
         highest_rssi' = 0, selected_ch' \in ChannelBytes, chlist' \in Lists
  PROVE  PickInv'
<1>1. PickTypeOK'
  BY SizeAssumption DEF SizeAssumption, PickTypeOK, Indexes, ZeroSums, Lists
<1>2. SumsBounded'
  BY SizeAssumption, SMT DEF SizeAssumption, SumsBounded, Taken, ZeroSums, Indexes
<1>3. HighestIsMaximum'
  BY DEF HighestIsMaximum, ZeroSums
<1> QED  BY <1>1, <1>2, <1>3 DEF PickInv

LEMMA IdlePick ==
  ASSUME Idle, chlist' \in Lists
  PROVE  PickInv'
<1>1. i' \in 1 .. REGIONS + 1 /\ selected_ch' \in ChannelBytes
  BY SizeAssumption DEF SizeAssumption, Idle, ChannelBytes
<1> QED  BY <1>1, PickAtRest DEF Idle

\* What devices were given is theirs still when only labels have changed.
LEMMA KeptByDevices ==
  ASSUME DeviceKeepsGiven, UNCHANGED device,
         \A d \in DEVICES : \A f \in hist.given[d] : \E g \in hist'.given[d] : g.ds = f.ds
  PROVE  DeviceKeepsGiven'
  BY DEF DeviceKeepsGiven

\* The bits of the slots are bits of a byte, and main sets the same bits again.
LEMMA SlotBitsFit ==
  ASSUME NEW display \in 0 .. MAXIMUM_DISPLAY_DEV,
         NEW controller \in 0 .. MAXIMUM_CONTROLLER_DEV
  PROVE  SlotBits(display, controller) \subseteq Bits
  BY BootAssumption DEF BootAssumption, SlotBits, Bits

LEMMA StoredMaskBits ==
  ASSUME NEW mask \in StoredMask(MAXIMUM_DISPLAY_DEV, MAXIMUM_CONTROLLER_DEV)
  PROVE  SlotBits(MAXIMUM_DISPLAY_DEV, MAXIMUM_CONTROLLER_DEV) \subseteq mask
<1> DEFINE D == MAXIMUM_DISPLAY_DEV
           C == MAXIMUM_CONTROLLER_DEV
           shifts == {5 - n : n \in 0 .. D - 1} \cup {1 - n : n \in 0 .. C - 1}
<1>1. D = 4 /\ C \in 1 .. 2
  BY BootAssumption DEF BootAssumption
<1>2. shifts \subseteq Bits
  BY <1>1 DEF Bits
<1>3. mask = shifts
  BY <1>2 DEF StoredMask
<1>4. ASSUME NEW n \in 1 .. D PROVE 6 - n \in shifts
  <2>1. n - 1 \in 0 .. D - 1 /\ 6 - n = 5 - (n - 1)
    BY <1>1
  <2> QED  BY <2>1
<1>5. ASSUME NEW n \in 1 .. C PROVE 2 - n \in shifts
  <2>1. n - 1 \in 0 .. C - 1 /\ 2 - n = 1 - (n - 1)
    BY <1>1
  <2> QED  BY <2>1
<1> QED  BY <1>3, <1>4, <1>5 DEF SlotBits

LEMMA BoxSetupInv ==
  ASSUME Inv, UNCHANGED device, hist' = Relabelled(NewSetup),
         box' = [box EXCEPT !.mode = "picking"], PickInv'
  PROVE  Inv'
<1>1. /\ HistTyped' /\ hist'.stored = hist.stored
      /\ \A d \in DEVICES :
           /\ \A g \in hist'.given[d] :
                \E f \in hist.given[d] : g.ds = f.ds /\ g.setup = NewSetup(f.setup)
           /\ \A f \in hist.given[d] : \E g \in hist'.given[d] : g.ds = f.ds
  <2>1. HistTyped
    BY DEF Inv
  <2>2. /\ hist' \in [cuts : 0 .. MAX_CUTS, stored : BoxData,
                     given : [DEVICES -> SUBSET Givens]]
        /\ hist'.stored = hist.stored
        /\ \A d \in DEVICES :
             /\ \A g \in hist'.given[d] :
                  \E f \in hist.given[d] : g.ds = f.ds /\ g.setup = NewSetup(f.setup)
             /\ \A f \in hist.given[d] : \E g \in hist'.given[d] : g.ds = f.ds
    BY <2>1, RelabelNew, Zenon
  <2> QED  BY <2>2 DEF HistTyped
<1>2. box' \in BoxStates /\ box'.mode = "picking" /\ box'.page = box.page
  BY DEF Inv, TypeOK, BoxStates, Modes
<1>3. TypeOK'
  BY <1>1, <1>2 DEF Inv, TypeOK, PickInv, BoxStates, HistTyped
<1>4. DeviceKeepsGiven'
  BY <1>1, KeptByDevices DEF Inv
<1>5. BoxResumesWhole' /\ NotAllWritten' /\ PageIsStored' /\ MaskOfSlots'
  BY <1>1, <1>2 DEF Inv, BoxResumesWhole, NotAllWritten, PageIsStored, MaskOfSlots
<1>6. GivenInSetup'
  <2> SUFFICES ASSUME NEW d \in DEVICES, NEW g \in hist'.given[d]
               PROVE  /\ g.setup # "current"
                      /\ g.setup = "stored" =>
                           /\ g.ds.chlist = hist.stored.chlist
                           /\ Holds(g.ds, hist.stored.display, hist.stored.controller)
    BY <1>1, <1>2 DEF GivenInSetup
  <2>1. PICK f \in hist.given[d] : g.ds = f.ds /\ g.setup = NewSetup(f.setup)
    BY <1>1
  <2>2. g.setup # "current" /\ (g.setup = "stored" => f.setup = "stored")
    BY <2>1 DEF NewSetup
  <2> QED  BY <2>1, <2>2 DEF Inv, GivenInSetup
<1> QED  BY <1>1, <1>3, <1>4, <1>5, <1>6 DEF Inv

LEMMA BoxBootInv == Inv /\ BoxBoot => Inv'
<1> SUFFICES ASSUME Inv, BoxBoot PROVE Inv'
  OBVIOUS
<1> DEFINE ds == DsGet(box.page, BoxFf)
<1>1. /\ box \in BoxStates /\ UNCHANGED device
  BY DEF Inv, TypeOK, BoxStates, BoxBoot
<1>2. ds \in BoxData /\ (box.page.words = WORDS => ds = box.page.data)
  BY <1>1, DsGetBox DEF BoxStates
<1> HIDE DEF ds
<1>3. \/ /\ box' = [box EXCEPT !.mode = "picking"] /\ hist' = Relabelled(NewSetup)
         /\ i' = 1 /\ samples' = 0 /\ k' = 1 /\ rssi' = ZeroSums /\ highest_rssi' = 0
         /\ selected_ch' \in ChannelBytes /\ chlist' = ds.chlist
      \/ /\ Signed(box.page)
         /\ \E mask \in StoredMask(ds.display, ds.controller) :
              box' = [box EXCEPT !.mode = "normal", !.display = ds.display,
                                 !.controller = ds.controller, !.mask = mask]
         /\ Idle /\ chlist' = ds.chlist /\ UNCHANGED hist
  BY DEF BoxBoot, ds
<1>4. ds.chlist \in Lists /\ ds.display \in 0 .. Ff /\ ds.controller \in 0 .. Ff
  BY <1>2 DEF BoxData
<1>5. CASE box' = [box EXCEPT !.mode = "picking"] /\ hist' = Relabelled(NewSetup)
           /\ i' = 1 /\ samples' = 0 /\ k' = 1 /\ rssi' = ZeroSums /\ highest_rssi' = 0
           /\ selected_ch' \in ChannelBytes /\ chlist' = ds.chlist
  <2>1. PickInv'
    BY <1>4, <1>5, SizeAssumption, PickAtRest DEF SizeAssumption
  <2> QED  BY <1>1, <1>5, <2>1, BoxSetupInv
<1>6. CASE /\ Signed(box.page)
           /\ \E mask \in StoredMask(ds.display, ds.controller) :
                box' = [box EXCEPT !.mode = "normal", !.display = ds.display,
                                   !.controller = ds.controller, !.mask = mask]
           /\ Idle /\ chlist' = ds.chlist /\ UNCHANGED hist
  <2>1. PICK mask \in StoredMask(ds.display, ds.controller) :
          box' = [box EXCEPT !.mode = "normal", !.display = ds.display,
                             !.controller = ds.controller, !.mask = mask]
    BY <1>6
  <2>2. mask \in SUBSET Bits
    BY <2>1 DEF StoredMask
  <2>3. /\ box' \in BoxStates
        /\ box'.mode = "normal" /\ box'.page = box.page /\ box'.mask = mask
        /\ box'.display = ds.display /\ box'.controller = ds.controller
    BY <1>1, <1>4, <2>1, <2>2 DEF BoxStates, Modes
  <2>4. PickInv'
    BY <1>4, <1>6, IdlePick
  <2>5. TypeOK' /\ HistTyped'
    BY <1>1, <1>6, <2>3, <2>4 DEF Inv, TypeOK, PickInv, BoxStates, HistTyped
  <2>6. ASSUME box.page.words = WORDS
        PROVE  /\ ds = hist.stored
               /\ ds.display = MAXIMUM_DISPLAY_DEV
               /\ ds.controller = MAXIMUM_CONTROLLER_DEV
    BY <1>2, <2>6 DEF Inv, PageIsStored, Full
  <2>7. BoxResumesWhole'
    <3>1. ~Torn(box.page) => box.page.words = WORDS
      BY <1>1, <1>6, BootAssumption DEF BootAssumption, Torn, Signed, BoxStates
    <3>2. BoxData0' = ds
      BY <1>2, <1>6, <2>3 DEF BoxData0, BoxData
    <3> QED  BY <1>6, <2>3, <2>6, <3>1, <3>2 DEF BoxResumesWhole
  <2>8. MaskOfSlots'
    BY <2>1, <2>3, <2>6, StoredMaskBits DEF MaskOfSlots
  <2>9. PageIsStored' /\ NotAllWritten' /\ DeviceKeepsGiven' /\ GivenInSetup'
    BY <1>1, <1>6, <2>3
    DEF Inv, PageIsStored, NotAllWritten, DeviceKeepsGiven, GivenInSetup
  <2> QED  BY <2>4, <2>5, <2>7, <2>8, <2>9 DEF Inv
<1> QED  BY <1>3, <1>5, <1>6

LEMMA BoxPickInv == Inv /\ BoxPick => Inv'
<1> SUFFICES ASSUME Inv, BoxPick PROVE Inv'
  OBVIOUS
<1>1. box.mode = "picking" /\ PickNext /\ UNCHANGED <<box, device, hist>>
  BY DEF BoxPick
<1>2. PickInv'
  BY <1>1, NextPick DEF Inv
<1>3. TypeOK' /\ HistTyped'
  BY <1>1, <1>2 DEF Inv, TypeOK, PickInv, HistTyped
<1>4. /\ BoxResumesWhole' /\ DeviceKeepsGiven' /\ NotAllWritten'
      /\ PageIsStored' /\ GivenInSetup' /\ MaskOfSlots'
  BY <1>1
  DEF Inv, BoxResumesWhole, DeviceKeepsGiven, NotAllWritten, PageIsStored, GivenInSetup,
      MaskOfSlots
<1> QED  BY <1>2, <1>3, <1>4 DEF Inv

LEMMA BoxPairsInv == Inv /\ BoxPairs => Inv'
<1> SUFFICES ASSUME Inv, BoxPairs PROVE Inv'
  OBVIOUS
<1>1. /\ box.mode = "picking" /\ Idle /\ UNCHANGED <<chlist, device, hist>>
      /\ box \in BoxStates /\ chlist \in Lists
  BY DEF BoxPairs, Inv, TypeOK, PickTypeOK, BoxStates, Lists
<1>2. /\ box' \in BoxStates /\ box'.mode = "pairing" /\ box'.page = box.page
      /\ box'.display = 0 /\ box'.controller = 0 /\ box'.mask = {}
  <2>1. 0 \in 0 .. Ff /\ {} \in SUBSET Bits /\ "pairing" \in Modes
    BY DEF Ff, Modes
  <2> QED  BY <1>1, <2>1 DEF BoxPairs, BoxStates
<1>3. PickInv'
  BY <1>1, IdlePick
<1>4. TypeOK' /\ HistTyped'
  BY <1>1, <1>2, <1>3 DEF Inv, TypeOK, PickInv, BoxStates, HistTyped
<1>5. SlotBits(0, 0) = {}
  BY DEF SlotBits
<1>6. /\ BoxResumesWhole' /\ DeviceKeepsGiven' /\ NotAllWritten'
      /\ PageIsStored' /\ GivenInSetup' /\ MaskOfSlots'
  BY <1>1, <1>2, <1>5
  DEF Inv, BoxResumesWhole, DeviceKeepsGiven, NotAllWritten, PageIsStored, GivenInSetup,
      MaskOfSlots
<1> QED  BY <1>3, <1>4, <1>6 DEF Inv

\* A device that is given an index has it, and keeps what it has stored before.
LEMMA GivenFacts ==
  ASSUME Inv, NEW idx \in 1 .. 6, Given(idx)
  PROVE  /\ device' \in [DEVICES -> DeviceStates]
         /\ HistTyped' /\ hist'.stored = hist.stored
         /\ DeviceKeepsGiven'
         /\ \A d \in DEVICES : device'[d].mode = "write" => device'[d].page.words < WORDS
         /\ \A d \in DEVICES : \A g \in hist'.given[d] :
              \/ g \in hist.given[d]
              \/ g.setup = "current" /\ g.ds.chlist = chlist /\ g.ds.dev_idx = idx
<1>1. device \in [DEVICES -> DeviceStates] /\ chlist \in Lists
  BY DEF Inv, TypeOK, DeviceStates, PickTypeOK, Lists
<1>2. CASE UNCHANGED <<device, hist>>
  BY <1>1, <1>2 DEF Inv, HistTyped, DeviceKeepsGiven, NotAllWritten
<1> DEFINE ds == [chlist |-> chlist, dev_idx |-> idx]
<1>3. ASSUME NEW d \in DEVICES, device[d].mode = "pairing",
             device' = [device EXCEPT ![d].mode = "erase", ![d].ds = ds],
             hist' = [hist EXCEPT !.given[d] =
                        {[setup |-> "current", ds |-> ds]} \cup
                        {g \in @ : g.ds = DsGet(device[d].page, DeviceFf)}]
      PROVE  /\ device' \in [DEVICES -> DeviceStates]
             /\ HistTyped' /\ hist'.stored = hist.stored
             /\ DeviceKeepsGiven'
             /\ \A e \in DEVICES : device'[e].mode = "write" => device'[e].page.words < WORDS
             /\ \A e \in DEVICES : \A g \in hist'.given[e] :
                  \/ g \in hist.given[e]
                  \/ g.setup = "current" /\ g.ds.chlist = chlist /\ g.ds.dev_idx = idx
  <2> DEFINE new == [setup |-> "current", ds |-> ds]
             kept == {g \in hist.given[d] : g.ds = DsGet(device[d].page, DeviceFf)}
  <2>1. idx \in 0 .. Ff
    BY DEF Ff
  <2>2. ds \in DeviceData /\ ds.chlist = chlist /\ ds.dev_idx = idx
    BY <1>1, <2>1 DEF DeviceData
  <2> HIDE DEF ds
  <2>3. new \in Givens /\ new.setup = "current" /\ new.ds = ds
    BY <2>2 DEF Givens
  <2> HIDE DEF new
  <2>4. hist' = [hist EXCEPT !.given[d] = {new} \cup kept]
    BY <1>3 DEF new
  <2>5. kept \subseteq hist.given[d] /\ hist.given[d] \subseteq Givens
    BY DEF Inv, HistTyped
  <2>6. /\ hist'.given[d] = {new} \cup kept
        /\ \A e \in DEVICES : e # d => hist'.given[e] = hist.given[e]
        /\ hist'.stored = hist.stored
    BY <2>4 DEF Inv, HistTyped
  <2>7. device[d].page.words = WORDS => \E g \in kept : g.ds = device[d].page.data
    <3>1. device[d].page \in [words : 0 .. WORDS, data : DeviceData]
      BY <1>1 DEF DeviceStates
    <3>2. ASSUME device[d].page.words = WORDS
          PROVE  \E g \in kept : g.ds = device[d].page.data
      <4>1. PICK g \in hist.given[d] : g.ds = device[d].page.data
        BY <3>2 DEF Inv, DeviceKeepsGiven
      <4>2. DsGet(device[d].page, DeviceFf) = device[d].page.data
        BY <3>1, <3>2, DsGetDevice
      <4> QED  BY <4>1, <4>2
    <3> QED  BY <3>2
  <2>8. {new} \cup kept \in SUBSET Givens
    BY <2>3, <2>5
  <2> HIDE DEF kept
  <2>9. HistTyped'
    BY <2>4, <2>8 DEF Inv, HistTyped
  <2>10. /\ device' \in [DEVICES -> DeviceStates]
         /\ device'[d].mode = "erase" /\ device'[d].ds = ds
         /\ device'[d].page = device[d].page
         /\ \A e \in DEVICES : e # d => device'[e] = device[e]
    BY <1>1, <1>3, <2>2 DEF DeviceStates
  <2>11. DeviceKeepsGiven'
    <3>1. \A e \in DEVICES : e # d =>
            /\ device'[e].mode \in {"erase", "write", "normal"} =>
                 \E g \in hist'.given[e] : g.ds = device'[e].ds
            /\ device'[e].page.words = WORDS =>
                 \E g \in hist'.given[e] : g.ds = device'[e].page.data
      BY <2>6, <2>10 DEF Inv, DeviceKeepsGiven
    <3>2. \E g \in hist'.given[d] : g.ds = device'[d].ds
      BY <2>3, <2>6, <2>10
    <3>3. device'[d].page.words = WORDS =>
            \E g \in hist'.given[d] : g.ds = device'[d].page.data
      BY <2>6, <2>7, <2>10
    <3> QED  BY <3>1, <3>2, <3>3 DEF DeviceKeepsGiven
  <2>12. \A e \in DEVICES : device'[e].mode = "write" => device'[e].page.words < WORDS
    BY <2>10 DEF Inv, NotAllWritten
  <2>13. \A e \in DEVICES : \A g \in hist'.given[e] :
           \/ g \in hist.given[e]
           \/ g.setup = "current" /\ g.ds.chlist = chlist /\ g.ds.dev_idx = idx
    BY <2>2, <2>3, <2>5, <2>6
  <2> QED  BY <2>6, <2>9, <2>10, <2>11, <2>12, <2>13
<1> QED  BY <1>2, <1>3 DEF Given

\* The box counts a slot and gives its index to a device: what has to be said of the
\* slots and the mask after it.
LEMMA PairStep ==
  ASSUME Inv, box.mode = "pairing", NEW idx \in 1 .. 6, Given(idx), UNCHANGED pickVars,
         box' \in BoxStates, box'.mode = ModeOf(box'.display, box'.controller),
         box'.page = box.page,
         SlotBits(box'.display, box'.controller) \subseteq box'.mask,
         idx \in 1 .. box'.display
                 \cup MAXIMUM_DISPLAY_DEV + 1 .. MAXIMUM_DISPLAY_DEV + box'.controller,
         box.display <= box'.display, box.controller <= box'.controller
  PROVE  Inv'
<1>1. /\ device' \in [DEVICES -> DeviceStates]
      /\ HistTyped' /\ hist'.stored = hist.stored
      /\ DeviceKeepsGiven'
      /\ \A d \in DEVICES : device'[d].mode = "write" => device'[d].page.words < WORDS
      /\ \A d \in DEVICES : \A g \in hist'.given[d] :
           \/ g \in hist.given[d]
           \/ g.setup = "current" /\ g.ds.chlist = chlist /\ g.ds.dev_idx = idx
  BY GivenFacts
<1>2. PickInv' /\ chlist' = chlist
  BY PickUnchanged DEF Inv, pickVars
<1>3. box'.mode \in {"pairing", "erase"}
      /\ (box'.mode = "erase" => Full(box'.display, box'.controller))
  BY DEF ModeOf
<1>4. TypeOK'
  BY <1>1, <1>2 DEF TypeOK, PickInv, BoxStates, DeviceStates, HistTyped
<1>5. BoxResumesWhole' /\ NotAllWritten' /\ MaskOfSlots'
  BY <1>1, <1>3 DEF BoxResumesWhole, NotAllWritten, MaskOfSlots
<1>6. PageIsStored'
  BY <1>1, <1>3 DEF Inv, PageIsStored
<1>7. GivenInSetup'
  <2> SUFFICES ASSUME NEW d \in DEVICES, NEW g \in hist'.given[d]
               PROVE  /\ g.setup = "current" =>
                           g.ds.chlist = chlist /\ Holds(g.ds, box'.display, box'.controller)
                      /\ g.setup = "stored" =>
                           /\ g.ds.chlist = hist.stored.chlist
                           /\ Holds(g.ds, hist.stored.display, hist.stored.controller)
    BY <1>1, <1>2, <1>3 DEF GivenInSetup
  <2>1. CASE g \in hist.given[d]
    <3>1. g.setup = "current" =>
            g.ds.chlist = chlist /\ Holds(g.ds, box.display, box.controller)
      BY <2>1 DEF Inv, GivenInSetup
    <3>2. box.display \in Nat /\ box.controller \in Nat
          /\ box'.display \in Nat /\ box'.controller \in Nat /\ MAXIMUM_DISPLAY_DEV = 4
      BY BootAssumption DEF BootAssumption, Inv, TypeOK, BoxStates, Ff
    <3>3. 1 .. box.display \subseteq 1 .. box'.display
          /\ 5 .. 4 + box.controller \subseteq 5 .. 4 + box'.controller
      BY <3>2
    <3>4. Holds(g.ds, box.display, box.controller) =>
            Holds(g.ds, box'.display, box'.controller)
      BY <3>2, <3>3 DEF Holds
    <3> QED  BY <2>1, <3>1, <3>4 DEF Inv, GivenInSetup
  <2>2. CASE g.setup = "current" /\ g.ds.chlist = chlist /\ g.ds.dev_idx = idx
    BY <2>2 DEF Holds
  <2> QED  BY <1>1, <2>1, <2>2
<1> QED  BY <1>1, <1>2, <1>4, <1>5, <1>6, <1>7 DEF Inv

LEMMA PairDisplayInv == Inv /\ PairDisplay => Inv'
<1> SUFFICES ASSUME Inv, PairDisplay PROVE Inv'
  OBVIOUS
<1> DEFINE slot == box.display + 1
<1>1. MAXIMUM_DISPLAY_DEV = 4
  BY BootAssumption DEF BootAssumption
<1>2. /\ box \in BoxStates /\ box.mode = "pairing" /\ slot \in 1 .. 4
      /\ Given(slot) /\ UNCHANGED pickVars
      /\ box.display \in Nat /\ box.controller \in Nat
  BY <1>1 DEF Inv, TypeOK, BoxStates, PairDisplay, Ff
<1>3. box' = [box EXCEPT !.display = slot, !.mask = @ \cup {6 - slot},
                         !.mode = ModeOf(slot, box.controller)]
  BY DEF PairDisplay
<1>4. slot \in 0 .. Ff /\ ModeOf(slot, box.controller) \in Modes
      /\ box.mask \cup {6 - slot} \in SUBSET Bits
  BY <1>2 DEF Ff, ModeOf, Modes, BoxStates, Bits
<1>5. slot = box.display + 1
  OBVIOUS
<1> HIDE DEF slot
<1>6. /\ box' \in BoxStates /\ box'.mode = ModeOf(slot, box.controller)
      /\ box'.display = slot /\ box'.controller = box.controller
      /\ box'.page = box.page /\ box'.mask = box.mask \cup {6 - slot}
  BY <1>2, <1>3, <1>4 DEF BoxStates
<1>7. SlotBits(box'.display, box'.controller) \subseteq box'.mask
  <2>1. SlotBits(box.display, box.controller) \subseteq box.mask
    BY <1>2 DEF Inv, MaskOfSlots
  <2>2. \A n \in 1 .. slot : n \in 1 .. box.display \/ n = slot
    BY <1>2, <1>5
  <2> QED  BY <1>6, <2>1, <2>2 DEF SlotBits
<1>8. slot \in 1 .. 6 /\ box.display <= box'.display /\ box.controller <= box'.controller
      /\ slot \in 1 .. box'.display
  BY <1>2, <1>5, <1>6
<1>9. slot \in 1 .. box'.display
             \cup MAXIMUM_DISPLAY_DEV + 1 .. MAXIMUM_DISPLAY_DEV + box'.controller
  BY <1>8
<1>10. box'.mode = ModeOf(box'.display, box'.controller)
  BY <1>6
<1> QED  BY <1>2, <1>6, <1>7, <1>8, <1>9, <1>10, PairStep

LEMMA PairControllerInv == Inv /\ PairController => Inv'
<1> SUFFICES ASSUME Inv, PairController PROVE Inv'
  OBVIOUS
<1> DEFINE slot == box.controller + 1
<1>1. MAXIMUM_DISPLAY_DEV = 4 /\ MAXIMUM_CONTROLLER_DEV \in 1 .. 2
  BY BootAssumption DEF BootAssumption
<1>2. /\ box \in BoxStates /\ box.mode = "pairing" /\ slot \in 1 .. 2
      /\ Given(4 + slot) /\ UNCHANGED pickVars
      /\ box.display \in Nat /\ box.controller \in Nat
  BY <1>1 DEF Inv, TypeOK, BoxStates, PairController, Ff
<1>3. box' = [box EXCEPT !.controller = slot, !.mask = @ \cup {2 - slot},
                         !.mode = ModeOf(box.display, slot)]
  BY DEF PairController
<1>4. slot \in 0 .. Ff /\ ModeOf(box.display, slot) \in Modes
      /\ box.mask \cup {2 - slot} \in SUBSET Bits
  BY <1>2 DEF Ff, ModeOf, Modes, BoxStates, Bits
<1>5. slot = box.controller + 1
  OBVIOUS
<1> HIDE DEF slot
<1>6. /\ box' \in BoxStates /\ box'.mode = ModeOf(box.display, slot)
      /\ box'.controller = slot /\ box'.display = box.display
      /\ box'.page = box.page /\ box'.mask = box.mask \cup {2 - slot}
  BY <1>2, <1>3, <1>4 DEF BoxStates
<1>7. SlotBits(box'.display, box'.controller) \subseteq box'.mask
  <2>1. SlotBits(box.display, box.controller) \subseteq box.mask
    BY <1>2 DEF Inv, MaskOfSlots
  <2>2. \A n \in 1 .. slot : n \in 1 .. box.controller \/ n = slot
    BY <1>2, <1>5
  <2> QED  BY <1>6, <2>1, <2>2 DEF SlotBits
<1>8. 4 + slot \in 1 .. 6 /\ box.display <= box'.display
      /\ box.controller <= box'.controller
  BY <1>2, <1>5, <1>6
<1>9. 4 + slot \in 1 .. box'.display
             \cup MAXIMUM_DISPLAY_DEV + 1 .. MAXIMUM_DISPLAY_DEV + box'.controller
  BY <1>1, <1>2, <1>6
<1>10. box'.mode = ModeOf(box'.display, box'.controller)
  BY <1>6
<1> QED  BY <1>2, <1>6, <1>7, <1>8, <1>9, <1>10, PairStep

LEMMA BoxEraseInv == Inv /\ BoxErase => Inv'
<1> SUFFICES ASSUME Inv, BoxErase PROVE Inv'
  OBVIOUS
<1>1. /\ box \in BoxStates /\ box.mode = "erase" /\ UNCHANGED <<pickVars, device, hist>>
      /\ box' = [box EXCEPT !.mode = "write", !.page = Erased(BoxFf)]
  BY DEF Inv, TypeOK, BoxStates, BoxErase
<1>2. FfList \in Lists /\ Ff \in 0 .. Ff
  BY DEF FfList, Lists, ChannelBytes, Ff
<1>3. BoxFf \in BoxData
  BY <1>2 DEF BoxFf, BoxData
<1>4. /\ Erased(BoxFf) \in [words : 0 .. WORDS, data : BoxData]
      /\ Erased(BoxFf).words = 0 /\ WORDS = 3
  BY <1>3, BootAssumption DEF BootAssumption, Erased
<1>5. /\ box' \in BoxStates /\ box'.mode = "write" /\ box'.page.words = 0
      /\ box'.display = box.display /\ box'.controller = box.controller
      /\ box'.mask = box.mask
  BY <1>1, <1>4 DEF BoxStates, Modes
<1>6. PickInv' /\ chlist' = chlist
  BY <1>1, PickUnchanged DEF Inv, pickVars
<1>7. TypeOK' /\ HistTyped'
  BY <1>1, <1>5, <1>6 DEF Inv, TypeOK, PickInv, BoxStates, HistTyped
<1>8. BoxResumesWhole' /\ DeviceKeepsGiven' /\ NotAllWritten'
  BY <1>1, <1>4, <1>5 DEF Inv, BoxResumesWhole, DeviceKeepsGiven, NotAllWritten
<1>9. PageIsStored' /\ GivenInSetup' /\ MaskOfSlots'
  BY <1>1, <1>4, <1>5, <1>6 DEF Inv, PageIsStored, GivenInSetup, MaskOfSlots
<1> QED  BY <1>6, <1>7, <1>8, <1>9 DEF Inv

LEMMA BoxWriteInv == Inv /\ BoxWrite => Inv'
<1> SUFFICES ASSUME Inv, BoxWrite PROVE Inv'
  OBVIOUS
<1> DEFINE words == box.page.words + 1
           page == [words |-> words, data |-> BoxData0]
           mode == IF words = WORDS THEN "normal" ELSE box.mode
<1>1. /\ box \in BoxStates /\ box.mode = "write" /\ UNCHANGED <<pickVars, device>>
      /\ box' = [box EXCEPT !.page = page, !.mode = mode]
  BY DEF Inv, TypeOK, BoxStates, BoxWrite
<1>2. WORDS = 3 /\ words \in 1 .. WORDS
  BY <1>1, BootAssumption DEF BootAssumption, Inv, NotAllWritten, BoxStates
<1>3. PickInv' /\ chlist' = chlist /\ chlist \in Lists
  BY <1>1, PickUnchanged DEF Inv, pickVars, PickInv, PickTypeOK, Lists
<1>4. /\ BoxData0 \in BoxData
      /\ BoxData0.chlist = chlist /\ BoxData0.display = box.display
      /\ BoxData0.controller = box.controller
  BY <1>1, <1>3 DEF BoxStates, BoxData, BoxData0
<1>5. /\ hist' = IF words = WORDS
                 THEN [Relabelled(StoredSetup) EXCEPT !.stored = BoxData0]
                 ELSE hist
  BY DEF BoxWrite
<1>6. /\ page \in [words : 0 .. WORDS, data : BoxData]
      /\ page.words = words /\ page.data = BoxData0
  BY <1>2, <1>4
<1>7. mode \in {"write", "normal"} /\ (mode = "normal" <=> words = WORDS)
  BY <1>1
<1> HIDE DEF words, page, mode
<1>8. /\ box' \in BoxStates /\ box'.mode = mode /\ box'.page = page
      /\ box'.display = box.display /\ box'.controller = box.controller
      /\ box'.mask = box.mask
  BY <1>1, <1>6, <1>7 DEF BoxStates, Modes
<1>9. BoxData0' = BoxData0
  BY <1>3, <1>8 DEF BoxData0
<1>10. Full(box.display, box.controller)
       /\ SlotBits(box.display, box.controller) \subseteq box.mask
  BY <1>1 DEF Inv, PageIsStored, MaskOfSlots
<1>11. NotAllWritten'
  BY <1>1, <1>2, <1>6, <1>7, <1>8 DEF Inv, NotAllWritten
<1>12. MaskOfSlots'
  BY <1>7, <1>8, <1>10 DEF MaskOfSlots, Full
<1>13. CASE words # WORDS
  <2>1. hist' = hist /\ mode = "write"
    BY <1>5, <1>7, <1>13
  <2>2. TypeOK' /\ HistTyped'
    BY <1>1, <1>3, <1>8, <2>1 DEF Inv, TypeOK, PickInv, BoxStates, HistTyped
  <2>3. BoxResumesWhole' /\ DeviceKeepsGiven' /\ PageIsStored'
    BY <1>1, <1>6, <1>8, <1>10, <1>13, <2>1
    DEF Inv, BoxResumesWhole, DeviceKeepsGiven, PageIsStored
  <2>4. GivenInSetup'
    BY <1>1, <1>3, <1>8, <2>1 DEF Inv, GivenInSetup
  <2> QED  BY <1>3, <1>11, <1>12, <2>2, <2>3, <2>4 DEF Inv
<1>14. CASE words = WORDS
  <2> DEFINE h == Relabelled(StoredSetup)
  <2>1. HistTyped
    BY DEF Inv
  <2>2. /\ h \in [cuts : 0 .. MAX_CUTS, stored : BoxData,
                  given : [DEVICES -> SUBSET Givens]]
        /\ \A d \in DEVICES :
             /\ \A g \in h.given[d] :
                  \E f \in hist.given[d] : g.ds = f.ds /\ g.setup = StoredSetup(f.setup)
             /\ \A f \in hist.given[d] : \E g \in h.given[d] : g.ds = f.ds
    BY <2>1, RelabelStored
  <2>3. hist' = [h EXCEPT !.stored = BoxData0]
    BY <1>5, <1>14
  <2> HIDE DEF h
  <2>4. HistTyped' /\ hist'.stored = BoxData0 /\ hist'.given = h.given
    BY <1>4, <2>2, <2>3 DEF HistTyped
  <2>5. TypeOK'
    BY <1>1, <1>3, <1>8, <2>4 DEF Inv, TypeOK, PickInv, BoxStates, HistTyped
  <2>6. BoxResumesWhole'
    BY <1>9, <2>4 DEF BoxResumesWhole
  <2>7. DeviceKeepsGiven'
    <3>1. \A d \in DEVICES : \A f \in hist.given[d] : \E g \in hist'.given[d] : g.ds = f.ds
      BY <2>2, <2>4
    <3> QED  BY <1>1, <3>1, KeptByDevices DEF Inv
  <2>8. PageIsStored'
    <3>1. Full(hist'.stored.display, hist'.stored.controller)
      BY <1>4, <1>10, <2>4
    <3>2. Signed(page)
      BY <1>2, <1>6 DEF Signed
    <3> QED  BY <1>6, <1>7, <1>8, <1>10, <1>14, <2>4, <3>1, <3>2 DEF PageIsStored
  <2>9. GivenInSetup'
    <3> SUFFICES ASSUME NEW d \in DEVICES, NEW g \in hist'.given[d]
                 PROVE  /\ g.setup = "stored" =>
                             /\ g.ds.chlist = BoxData0.chlist
                             /\ Holds(g.ds, BoxData0.display, BoxData0.controller)
      BY <1>7, <1>8, <1>14, <2>4 DEF GivenInSetup
    <3>1. PICK f \in hist.given[d] : g.ds = f.ds /\ g.setup = StoredSetup(f.setup)
      BY <2>2, <2>4
    <3>2. g.setup = "stored" => f.setup = "current"
      BY <3>1 DEF StoredSetup
    <3>3. f.setup = "current" =>
            f.ds.chlist = chlist /\ Holds(f.ds, box.display, box.controller)
      BY <1>1 DEF Inv, GivenInSetup
    <3> QED  BY <1>4, <3>1, <3>2, <3>3
  <2> QED  BY <1>3, <1>11, <1>12, <2>4, <2>5, <2>6, <2>7, <2>8, <2>9 DEF Inv
<1> QED  BY <1>13, <1>14

\* The box is off, after a loss of power or a reset.
LEMMA BoxOffInv ==
  ASSUME Inv, BoxCut \/ BoxHopFails
  PROVE  Inv'
<1>1. /\ box \in BoxStates /\ UNCHANGED device /\ Idle /\ chlist' = FfList
      /\ box' = [box EXCEPT !.mode = "off", !.display = 0, !.controller = 0, !.mask = {}]
  BY DEF Inv, TypeOK, BoxStates, BoxCut, BoxHopFails, BoxOff
<1>2. 0 \in 0 .. Ff /\ {} \in SUBSET Bits /\ "off" \in Modes /\ FfList \in Lists
  BY DEF Ff, Modes, FfList, Lists, ChannelBytes
<1>3. box' \in BoxStates /\ box'.mode = "off" /\ box'.page = box.page
  BY <1>1, <1>2 DEF BoxStates
<1>4. HistTyped' /\ hist'.given = hist.given /\ hist'.stored = hist.stored
  BY BootAssumption DEF BootAssumption, Inv, HistTyped, BoxCut, BoxHopFails
<1>5. PickInv'
  BY <1>1, <1>2, IdlePick
<1>6. TypeOK'
  BY <1>1, <1>3, <1>4, <1>5 DEF Inv, TypeOK, PickInv, BoxStates, HistTyped
<1>7. /\ BoxResumesWhole' /\ DeviceKeepsGiven' /\ NotAllWritten'
      /\ PageIsStored' /\ GivenInSetup' /\ MaskOfSlots'
  BY <1>1, <1>3, <1>4
  DEF Inv, BoxResumesWhole, DeviceKeepsGiven, NotAllWritten, PageIsStored, GivenInSetup,
      MaskOfSlots
<1> QED  BY <1>4, <1>5, <1>6, <1>7 DEF Inv

LEMMA InitInv == Init => Inv
<1> SUFFICES ASSUME Init PROVE Inv
  OBVIOUS
<1>1. FfList \in Lists /\ 0 \in 0 .. Ff /\ Ff \in 0 .. Ff /\ Junk \in ChannelBytes
  BY DEF FfList, Lists, ChannelBytes, Ff
<1>2. BoxFf \in BoxData /\ DeviceFf \in DeviceData
  BY <1>1 DEF BoxFf, BoxData, DeviceFf, DeviceData
<1>3. PickInv
  <2>1. PickTypeOK
    BY <1>1, SizeAssumption
    DEF SizeAssumption, Init, PickTypeOK, Indexes, ZeroSums, Lists
  <2>2. SumsBounded
    BY SizeAssumption, SMT DEF SizeAssumption, Init, SumsBounded, Taken, ZeroSums, Indexes
  <2>3. HighestIsMaximum
    BY DEF Init, HighestIsMaximum, ZeroSums
  <2> QED  BY <2>1, <2>2, <2>3 DEF PickInv
<1>4. /\ Erased(BoxFf) \in [words : 0 .. WORDS, data : BoxData] /\ Erased(BoxFf).words = 0
      /\ Erased(DeviceFf) \in [words : 0 .. WORDS, data : DeviceData]
      /\ Erased(DeviceFf).words = 0 /\ WORDS = 3
  BY <1>2, BootAssumption DEF BootAssumption, Erased
<1>5. /\ box \in BoxStates /\ box.mode = "off" /\ box.page.words = 0
  BY <1>1, <1>4 DEF Init, BoxStates, Modes
<1>6. /\ device \in [DEVICES -> DeviceStates]
      /\ \A d \in DEVICES : device[d].mode = "off" /\ device[d].page.words = 0
  BY <1>2, <1>4 DEF Init, DeviceStates
<1>7. HistTyped /\ \A d \in DEVICES : hist.given[d] = {}
  BY <1>2, BootAssumption DEF BootAssumption, Init, HistTyped
<1>8. TypeOK
  BY <1>3, <1>5, <1>6, <1>7 DEF TypeOK, PickInv, BoxStates, DeviceStates, HistTyped
<1>9. BoxResumesWhole /\ PageIsStored /\ MaskOfSlots
  BY <1>4, <1>5 DEF BoxResumesWhole, PageIsStored, MaskOfSlots
<1>10. DeviceKeepsGiven /\ NotAllWritten /\ GivenInSetup
  BY <1>4, <1>5, <1>6, <1>7 DEF DeviceKeepsGiven, NotAllWritten, GivenInSetup
<1> QED  BY <1>3, <1>7, <1>8, <1>9, <1>10 DEF Inv

LEMMA NextInv == Inv /\ [Next]_bootVars => Inv'
<1> SUFFICES ASSUME Inv, [Next]_bootVars PROVE Inv'
  OBVIOUS
<1>1. CASE BoxSteps
  <2>1. CASE BoxBoot
    BY <2>1, BoxBootInv
  <2>2. CASE BoxPick
    BY <2>2, BoxPickInv
  <2>3. CASE BoxPairs
    BY <2>3, BoxPairsInv
  <2>4. CASE PairDisplay
    BY <2>4, PairDisplayInv
  <2>5. CASE PairController
    BY <2>5, PairControllerInv
  <2>6. CASE BoxErase
    BY <2>6, BoxEraseInv
  <2>7. CASE BoxWrite
    BY <2>7, BoxWriteInv
  <2>8. CASE BoxHopFails
    BY <2>8, BoxOffInv
  <2> QED  BY <1>1, <2>1, <2>2, <2>3, <2>4, <2>5, <2>6, <2>7, <2>8 DEF BoxSteps
<1>2. CASE BoxCut
  BY <1>2, BoxOffInv
<1>3. ASSUME NEW d \in DEVICES, DeviceSteps(d) PROVE Inv'
  <2>1. CASE DeviceBoot(d)
    BY <2>1, DeviceBootInv
  <2>2. CASE DeviceErase(d)
    BY <2>2, DeviceEraseInv
  <2>3. CASE DeviceWrite(d)
    BY <2>3, DeviceWriteInv
  <2>4. CASE DeviceHopFails(d) \/ DeviceCut(d)
    BY <2>4, DeviceOffInv
  <2> QED  BY <1>3, <2>1, <2>2, <2>3, <2>4 DEF DeviceSteps
<1>4. CASE UNCHANGED bootVars
  <2>1. UNCHANGED <<pickVars, box, device, hist>>
    BY <1>4 DEF bootVars
  <2>2. PickInv' /\ chlist' = chlist
    BY <2>1, PickUnchanged DEF Inv, pickVars
  <2>3. TypeOK' /\ HistTyped'
    BY <2>1, <2>2 DEF Inv, TypeOK, PickInv, HistTyped
  <2>4. /\ BoxResumesWhole' /\ DeviceKeepsGiven' /\ NotAllWritten'
        /\ PageIsStored' /\ GivenInSetup' /\ MaskOfSlots'
    BY <2>1, <2>2
    DEF Inv, BoxResumesWhole, BoxData0, DeviceKeepsGiven, NotAllWritten, PageIsStored,
        GivenInSetup, MaskOfSlots
  <2> QED  BY <2>2, <2>3, <2>4 DEF Inv
<1> QED  BY <1>1, <1>2, <1>3, <1>4 DEF Next

-----------------------------------------------------------------------------
(* Theorems *)

\* The invariant of both programs and their data stores: what a device works with is
\* what it was given, a complete page of the box is the setup stored last, and the
\* mask has the bits of the slots.
THEOREM BootInvariant == Spec => []Inv
BY InitInv, NextInv, PTL DEF Spec

\* The type invariant, for any number of devices, regions and losses of power.
THEOREM TypeCorrect == Spec => []TypeOK
<1>1. Inv => TypeOK
  BY DEF Inv
<1> QED  BY <1>1, BootInvariant, PTL

\* main of the box, in normal mode on a page that is complete, has the channel list
\* and the numbers of the setup stored last, wherever the power went before.
THEOREM BoxResumes == Spec => []BoxResumesWhole
<1>1. Inv => BoxResumesWhole
  BY DEF Inv
<1> QED  BY <1>1, BootInvariant, PTL

\* main of a device takes no index without the channel list it was given with it:
\* the index is the last word of the page.
THEOREM DeviceResumes == Spec => []DeviceResumesWhole
<1>1. Inv => DeviceResumesWhole
  BY DEF Inv, DeviceKeepsGiven, DeviceResumesWhole
<1> QED  BY <1>1, BootInvariant, PTL

\* g_devs_paired_mask, rebuilt by main of the box or kept from pairing, asks every
\* device that was given its index in the stored setup, on the channels it has.
THEOREM DevicesAsked == Spec => []PairedDevicesAsked
<1>1. Inv => PairedDevicesAsked
  <2> SUFFICES ASSUME Inv, box.mode = "normal", ~Torn(box.page),
                      NEW d \in DEVICES, NEW ds, ds = device[d].ds,
                      [setup |-> "stored", ds |-> ds] \in hist.given[d]
               PROVE  6 - ds.dev_idx \in box.mask /\ ds.chlist = chlist
    BY DEF PairedDevicesAsked
  <2> DEFINE D == MAXIMUM_DISPLAY_DEV
             C == MAXIMUM_CONTROLLER_DEV
  <2>1. D = 4 /\ C \in 1 .. 2 /\ WORDS = 3 /\ box.page.words \in 0 .. WORDS
    BY BootAssumption DEF BootAssumption, Inv, TypeOK
  <2>2. box.page.words = WORDS
    BY <2>1 DEF Inv, PageIsStored, Signed, Torn
  <2>3. hist.stored.display = D /\ hist.stored.controller = C
    BY <2>2 DEF Inv, PageIsStored, Full
  <2>4. BoxData0 = hist.stored
    BY DEF Inv, BoxResumesWhole
  <2>5. chlist = hist.stored.chlist
    BY <2>4 DEF BoxData0
  <2>6. ds.chlist = hist.stored.chlist /\ Holds(ds, D, C)
    BY <2>3 DEF Inv, GivenInSetup
  <2>7. SlotBits(D, C) \subseteq box.mask
    BY <2>2 DEF Inv, MaskOfSlots
  <2>8. ds.dev_idx \in 1 .. D \/ (ds.dev_idx - 4 \in 1 .. C /\ ds.dev_idx \in 5 .. 6)
    BY <2>1, <2>6 DEF Holds
  <2>9. 6 - ds.dev_idx \in SlotBits(D, C)
    <3>1. ASSUME ds.dev_idx \in 1 .. D PROVE 6 - ds.dev_idx \in SlotBits(D, C)
      BY <3>1 DEF SlotBits
    <3>2. ASSUME ds.dev_idx - 4 \in 1 .. C, ds.dev_idx \in 5 .. 6
          PROVE  6 - ds.dev_idx \in SlotBits(D, C)
      <4>1. 6 - ds.dev_idx = 2 - (ds.dev_idx - 4)
        BY <3>2
      <4> QED  BY <3>2, <4>1 DEF SlotBits
    <3> QED  BY <2>8, <3>1, <3>2
  <2> QED  BY <2>5, <2>6, <2>7, <2>9
<1> QED  BY <1>1, BootInvariant, PTL

\* enter_setup_mode of the box, at its first start or any later one, takes the
\* quietest channel of each region.
THEOREM BootPicksBest == Spec => PickedIsBest
<1>1. Inv /\ [Next]_bootVars =>
        [PickChannel /\ highest_rssi > 0 =>
           \E n \in Indexes :
             chlist'[i] = <<i, n>> /\ \A m \in Indexes : rssi[m] <= rssi[n]]_pickVars
  BY QuietestPicked DEF Inv
<1> QED  BY <1>1, BootInvariant, PTL DEF Spec, PickedIsBest

=============================================================================
