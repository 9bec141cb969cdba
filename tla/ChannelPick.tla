---------------------------- MODULE ChannelPick ----------------------------
(***************************************************************************)
(* do_channel_list_generation of src/examples/proprietary_rf/box/main.c:   *)
(* the box samples the RSSI of every channel of a region, over and over,   *)
(* adds the samples of a channel up and picks one channel of the region.   *)
(* RSSISAMPLE is the attenuation in dB, so the largest sum is that of the  *)
(* quietest channel.                                                       *)
(***************************************************************************)
EXTENDS Integers

CONSTANTS
  REGIONS,          \* MAXIMUM_CHANNEL_LIST_SIZE
  CANDIDATES,       \* MAXIMUM_CHANNELS_PER_REGION
  SAMPLES,          \* MAXIMUM_RSSI_SAMPLES
  RSSI_MAX,         \* largest value of RSSISAMPLE
  UINT16_MAX

ASSUME SizeAssumption ==
  /\ REGIONS \in Nat \ {0} /\ CANDIDATES \in Nat \ {0} /\ SAMPLES \in Nat \ {0}
  /\ RSSI_MAX \in Nat /\ UINT16_MAX \in Nat

\* 256 samples of at most 127 fit in a uint16_t.
ASSUME SumAssumption == SAMPLES * RSSI_MAX <= UINT16_MAX

VARIABLES
  i, samples, k,       \* the loops: region, samples taken, next channel
  rssi,                \* the sum of each channel of the region
  highest_rssi,
  selected_ch,         \* region and index of a channel; not reset with the region
  chlist               \* g_ds.chlist

pickVars == <<i, samples, k, rssi, highest_rssi, selected_ch, chlist>>

Regions  == 1 .. REGIONS
Indexes  == 1 .. CANDIDATES
Channels == Regions \X Indexes

\* A byte of the stack or of erased flash that is no channel of any region.
Junk == <<0, 0>>
ChannelBytes == Channels \cup {Junk}

ZeroSums == [n \in Indexes |-> 0]

\* selected_ch is not initialised, and g_ds holds what was read from flash.
PickStart(list) ==
  /\ i = 1 /\ samples = 0 /\ k = 1
  /\ rssi = ZeroSums /\ highest_rssi = 0
  /\ selected_ch \in ChannelBytes
  /\ chlist = list

\* Faulty variant: one region too many.
PickedLate == i > REGIONS + 1

\* The last step of the loops is over.
Picked == i > REGIONS

-----------------------------------------------------------------------------
\* Faulty variant: the sum is compared before the sample is added.
SelectsEarly(sample) == highest_rssi < rssi[k]

\* highest_rssi < rssi[k], after the sample has been added.
Selects(sample) == highest_rssi < (rssi[k] + sample) % (UINT16_MAX + 1)

\* One sample of one channel.
TakeSample ==
  /\ ~Picked /\ samples < SAMPLES
  /\ \E sample \in 0 .. RSSI_MAX :
       LET sum == (rssi[k] + sample) % (UINT16_MAX + 1)
       IN /\ rssi' = [rssi EXCEPT ![k] = sum]
          /\ IF Selects(sample)
             THEN highest_rssi' = sum /\ selected_ch' = <<i, k>>
             ELSE UNCHANGED <<highest_rssi, selected_ch>>
  /\ k' = IF k = CANDIDATES THEN 1 ELSE k + 1
  /\ samples' = IF k = CANDIDATES THEN samples + 1 ELSE samples
  /\ UNCHANGED <<i, chlist>>

\* The end of a region; the next begins with sums of 0.
PickChannel ==
  /\ ~Picked /\ samples = SAMPLES
  /\ chlist' = [chlist EXCEPT ![i] = selected_ch]
  /\ i' = i + 1 /\ samples' = 0 /\ k' = 1
  /\ rssi' = ZeroSums /\ highest_rssi' = 0
  /\ UNCHANGED selected_ch

PickNext == TakeSample \/ PickChannel

PickSpec == (\E list \in [Regions -> ChannelBytes] : PickStart(list))
            /\ [][PickNext]_pickVars

-----------------------------------------------------------------------------
(* Properties *)

\* Type invariant: the loops stay in the arrays, the sums below 2^16.
PickTypeOK ==
  /\ i \in 1 .. REGIONS + 1 /\ samples \in 0 .. SAMPLES /\ k \in Indexes
  /\ rssi \in [Indexes -> 0 .. UINT16_MAX] /\ highest_rssi \in 0 .. UINT16_MAX
  /\ selected_ch \in ChannelBytes /\ chlist \in [Regions -> ChannelBytes]

\* The channel stored for a region is one of the region and the quietest of it, over
\* all samples, though the comparison runs along with the sums; unless every sample
\* of the region was 0, which leaves the channel of the region before.
PickedIsBest ==
  [][PickChannel /\ highest_rssi > 0 =>
       \E n \in Indexes :
         chlist'[i] = <<i, n>> /\ \A m \in Indexes : rssi[m] <= rssi[n]]_pickVars
=============================================================================
