-------------------------------- MODULE Boot --------------------------------
(***************************************************************************)
(* What survives a loss of power: main of the box and of the devices,      *)
(* src/examples/proprietary_rf/{box,device}/main.c, and the data store,    *)
(* common/app_common.c.                                                    *)
(*                                                                         *)
(* The box picks channels (ChannelPick), pairs devices until every slot is *)
(* taken, stores the setup in its flash page and works with it.  A device  *)
(* stores what it is given.  The page is erased and then written word by   *)
(* word, and the power may go at any point; at the next start main decides *)
(* from what it reads whether there is a setup.                            *)
(*                                                                         *)
(* Pairing is the exchange of module Pairing when nothing goes wrong.      *)
(***************************************************************************)
EXTENDS ChannelPick

CONSTANTS
  DEVICES,
  MAXIMUM_DISPLAY_DEV, MAXIMUM_CONTROLLER_DEV,
  WORDS,            \* sizeof(ds_data_t) / 4, at most 3 in both programs
  MAX_CUTS          \* bound on losses of power

ASSUME BootAssumption ==
  /\ MAXIMUM_DISPLAY_DEV = 4       \* "2 - slot" is the bit of no other number
  /\ MAXIMUM_CONTROLLER_DEV \in 1 .. 2
  /\ WORDS = 3 /\ MAX_CUTS \in Nat

VARIABLES
  box,        \* mode, slots counted, mask of paired devices, page
  device,     \* each device's mode, g_ds and page
  hist        \* setups so far, the one stored last, what devices were given

bootVars == <<pickVars, box, device, hist>>

-----------------------------------------------------------------------------
(* The data store                                                          *)

Ff == 255
FfList == [r \in Regions |-> Junk]
Lists == [Regions -> ChannelBytes]

\* g_ds of the box and of a device.
BoxData    == [chlist : Lists, display : 0 .. Ff, controller : 0 .. Ff]
DeviceData == [chlist : Lists, dev_idx : 0 .. Ff]
BoxFf    == [chlist |-> FfList, display |-> Ff, controller |-> Ff]
DeviceFf == [chlist |-> FfList, dev_idx |-> Ff]

\* Faulty variant: the last word is outside of what is written.
WordCutOff(field) == IF field \in {"chlist", "display"} THEN 2 ELSE WORDS + 1

\* Faulty variant: dev_idx before the channel list.
WordIndexFirst(field) == IF field = "dev_idx" THEN 1 ELSE 2

\* The word of the struct that holds a field; word 1 is the signature.
Word(field) == IF field \in {"chlist", "display"} THEN 2 ELSE 3

\* A page: the words written since it was erased.
Erased(ff) == [words |-> 0, data |-> ff]

\* ds_get: unwritten words are all ones.
DsGet(page, ff) ==
  [field \in DOMAIN ff |-> IF Word(field) <= page.words THEN page.data[field]
                                                        ELSE ff[field]]
Signed(page) == page.words >= 1

-----------------------------------------------------------------------------
(* The box                                                                 *)

Modes == {"off", "picking", "pairing", "erase", "write", "normal"}

\* The picking is over, or has not begun.
Idle == i' = REGIONS + 1 /\ samples' = 0 /\ k' = 1 /\ rssi' = ZeroSums
        /\ highest_rssi' = 0 /\ selected_ch' = Junk

Bits == 0 .. 7

\* What happens to the setup in which a device was given its data, when the box
\* begins a new one and when it has stored the one in hand.
NewSetup(setup)    == IF setup = "current" THEN "old" ELSE setup
StoredSetup(setup) == IF setup = "current" THEN "stored" ELSE "old"

Relabelled(NewLabel(_)) ==
  [hist EXCEPT !.given =
     [d \in DEVICES |-> {[g EXCEPT !.setup = NewLabel(@)] : g \in hist.given[d]}]]

\* Faulty variant: the bits of the slots, not of the indices.
StoredMaskOff(display, controller) ==
  {{6 - n : n \in 0 .. display - 1} \cup {2 - n : n \in 0 .. controller - 1}}

\* g_devs_paired_mask as main sets it.  A shift by less than 0 is undefined, so the
\* mask is then anything with the bits of the shifts that are defined.
StoredMask(display, controller) ==
  LET shifts == {5 - n : n \in 0 .. display - 1} \cup {1 - n : n \in 0 .. controller - 1}
  IN {mask \in SUBSET Bits : shifts \cap Bits \subseteq mask
                             /\ (shifts \subseteq Bits => mask = shifts)}

\* main and enter_setup_mode, or enter_normal_mode, with or without BUTTON_1 held.
BoxBoot ==
  /\ box.mode = "off"
  /\ LET ds == DsGet(box.page, BoxFf)
         force_setup == ~Signed(box.page) \/ (ds.display = 0 /\ ds.controller = 0)
     IN \/ /\ box' = [box EXCEPT !.mode = "picking"]
           /\ hist' = Relabelled(NewSetup)
           /\ i' = 1 /\ samples' = 0 /\ k' = 1
           /\ rssi' = ZeroSums /\ highest_rssi' = 0
           /\ selected_ch' \in ChannelBytes
           /\ chlist' = ds.chlist
        \/ /\ ~force_setup
           /\ \E mask \in StoredMask(ds.display, ds.controller) :
                box' = [box EXCEPT !.mode = "normal", !.display = ds.display,
                                   !.controller = ds.controller, !.mask = mask]
           /\ Idle /\ chlist' = ds.chlist
           /\ UNCHANGED hist
  /\ UNCHANGED device

BoxPick ==
  /\ box.mode = "picking" /\ ~Picked
  /\ PickNext
  /\ UNCHANGED <<box, device, hist>>

\* The rest of enter_setup_mode.
BoxPairs ==
  /\ box.mode = "picking" /\ Picked
  /\ box' = [box EXCEPT !.mode = "pairing", !.display = 0, !.controller = 0,
                        !.mask = {}]
  /\ Idle
  /\ UNCHANGED <<chlist, device, hist>>

Full(display, controller) ==
  display = MAXIMUM_DISPLAY_DEV /\ controller = MAXIMUM_CONTROLLER_DEV

ModeOf(display, controller) == IF Full(display, controller) THEN "erase" ELSE "pairing"

\* The device that is given an index: one of DEVICES, or some other.
Given(idx) ==
  LET ds == [chlist |-> chlist, dev_idx |-> idx]
  IN \/ \E d \in DEVICES :
          /\ device[d].mode = "pairing"
          /\ device' = [device EXCEPT ![d].mode = "erase", ![d].ds = ds]
          /\ hist' = [hist EXCEPT !.given[d] =
                             {[setup |-> "current", ds |-> ds]} \cup
                             {g \in @ : g.ds = DsGet(device[d].page, DeviceFf)}]
     \/ UNCHANGED <<device, hist>>

\* A device is given a slot of its type.  With the last slot the box stores the setup.
PairDisplay ==
  /\ box.mode = "pairing" /\ box.display < MAXIMUM_DISPLAY_DEV
  /\ LET slot == box.display + 1
     IN /\ box' = [box EXCEPT !.display = slot, !.mask = @ \cup {6 - slot},
                              !.mode = ModeOf(slot, box.controller)]
        /\ Given(slot)
  /\ UNCHANGED pickVars

PairController ==
  /\ box.mode = "pairing" /\ box.controller < MAXIMUM_CONTROLLER_DEV
  /\ LET slot == box.controller + 1
     IN /\ box' = [box EXCEPT !.controller = slot, !.mask = @ \cup {2 - slot},
                              !.mode = ModeOf(box.display, slot)]
        /\ Given(MAXIMUM_DISPLAY_DEV + slot)
  /\ UNCHANGED pickVars

\* ds_update of the box, then enter_normal_mode.
BoxData0 == [chlist |-> chlist, display |-> box.display, controller |-> box.controller]

BoxErase ==
  /\ box.mode = "erase"
  /\ box' = [box EXCEPT !.mode = "write", !.page = Erased(BoxFf)]
  /\ UNCHANGED <<pickVars, device, hist>>

BoxWrite ==
  /\ box.mode = "write"
  /\ LET words == box.page.words + 1
     IN /\ box' = [box EXCEPT !.page = [words |-> words, data |-> BoxData0],
                              !.mode = IF words = WORDS THEN "normal" ELSE @]
        /\ hist' = IF words = WORDS
                   THEN [Relabelled(StoredSetup) EXCEPT !.stored = BoxData0]
                   ELSE hist
  /\ UNCHANGED <<pickVars, device>>

BoxOff == box' = [box EXCEPT !.mode = "off", !.display = 0, !.controller = 0, !.mask = {}]

\* Power is lost.
BoxCut ==
  /\ box.mode # "off" /\ hist.cuts < MAX_CUTS
  /\ BoxOff /\ Idle /\ chlist' = FfList
  /\ hist' = [hist EXCEPT !.cuts = @ + 1]
  /\ UNCHANGED device

\* hop_channel: nrf_esb_set_rf_channel refuses what is no channel, and
\* nrf_esb_error_handler resets the chip.
BoxHopFails ==
  /\ box.mode = "normal" /\ \E r \in Regions : chlist[r] = Junk
  /\ BoxOff /\ Idle /\ chlist' = FfList
  /\ UNCHANGED <<device, hist>>

-----------------------------------------------------------------------------
(* Devices                                                                 *)

\* main and do_pairing, or enter_normal_mode, with or without BUTTON_1 held.
DeviceBoot(d) ==
  /\ device[d].mode = "off"
  /\ LET ds == DsGet(device[d].page, DeviceFf)
     IN \E mode \in IF ds.dev_idx = Ff THEN {"pairing"} ELSE {"pairing", "normal"} :
          device' = [device EXCEPT ![d].mode = mode, ![d].ds = ds]
  /\ UNCHANGED <<pickVars, box, hist>>

\* ds_update of a device, then enter_normal_mode.
DeviceErase(d) ==
  /\ device[d].mode = "erase"
  /\ device' = [device EXCEPT ![d].mode = "write", ![d].page = Erased(DeviceFf)]
  /\ UNCHANGED <<pickVars, box, hist>>

DeviceWrite(d) ==
  /\ device[d].mode = "write"
  /\ LET words == device[d].page.words + 1
     IN device' = [device EXCEPT ![d].page = [words |-> words, data |-> device[d].ds],
                                 ![d].mode = IF words = WORDS THEN "normal" ELSE @]
  /\ UNCHANGED <<pickVars, box, hist>>

DeviceHopFails(d) ==
  /\ device[d].mode = "normal" /\ \E r \in Regions : device[d].ds.chlist[r] = Junk
  /\ device' = [device EXCEPT ![d].mode = "off", ![d].ds = DeviceFf]
  /\ UNCHANGED <<pickVars, box, hist>>

DeviceCut(d) ==
  /\ device[d].mode # "off" /\ hist.cuts < MAX_CUTS
  /\ device' = [device EXCEPT ![d].mode = "off", ![d].ds = DeviceFf]
  /\ hist' = [hist EXCEPT !.cuts = @ + 1]
  /\ UNCHANGED <<pickVars, box>>

-----------------------------------------------------------------------------
Init ==
  /\ box = [mode |-> "off", display |-> 0, controller |-> 0, mask |-> {},
            page |-> Erased(BoxFf)]
  /\ device = [d \in DEVICES |->
                 [mode |-> "off", ds |-> DeviceFf, page |-> Erased(DeviceFf)]]
  /\ i = REGIONS + 1 /\ samples = 0 /\ k = 1 /\ rssi = ZeroSums
  /\ highest_rssi = 0 /\ selected_ch = Junk /\ chlist = FfList
  /\ hist = [cuts |-> 0, stored |-> BoxFf,
             given |-> [d \in DEVICES |-> {}]]

BoxSteps == BoxBoot \/ BoxPick \/ BoxPairs \/ PairDisplay \/ PairController
            \/ BoxErase \/ BoxWrite \/ BoxHopFails

\* Devices rest while the box picks its channels: neither notices the other.
DeviceSteps(d) == box.mode # "picking" /\ (DeviceBoot(d) \/ DeviceErase(d) \/ DeviceWrite(d)
                                            \/ DeviceHopFails(d) \/ DeviceCut(d))

Next ==
  \/ BoxSteps \/ BoxCut
  \/ \E d \in DEVICES : DeviceSteps(d)

Spec == Init /\ [][Next]_bootVars

-----------------------------------------------------------------------------
(* Properties *)

\* Type invariant; the picking keeps its own.
TypeOK ==
  /\ PickTypeOK
  /\ box \in [mode : Modes, display : 0 .. Ff, controller : 0 .. Ff,
              mask : SUBSET Bits, page : [words : 0 .. WORDS, data : BoxData]]
  /\ device \in [DEVICES -> [mode : {"off", "pairing", "erase", "write", "normal"},
                             ds : DeviceData,
                             page : [words : 0 .. WORDS, data : DeviceData]]]
  /\ hist.cuts \in 0 .. MAX_CUTS /\ hist.stored \in BoxData

\* A reset in ds_update between the first and the last word.
Torn(page) == page.words \in 1 .. WORDS - 1

\* In normal mode the box has the channel list and the slots of the last setup it
\* stored as a whole, even if it has begun another one since; or the power has gone
\* between the first and the last word of the page, which the signature does not show.
BoxResumesWhole ==
  box.mode = "normal" /\ ~Torn(box.page) => BoxData0 = hist.stored

\* A device in normal mode has an index and a channel list it was given together,
\* wherever the power has gone.
DeviceResumesWhole ==
  \A d \in DEVICES : device[d].mode = "normal" =>
    \E given \in hist.given[d] : given.ds = device[d].ds

\* The box in normal mode asks every device that was given its index in the setup
\* the box works with, by the bit the device looks at, and on the device's channels;
\* whether it has come from pairing or read its store.
PairedDevicesAsked ==
  box.mode = "normal" /\ ~Torn(box.page) =>
    \A d \in DEVICES :
      LET ds == device[d].ds
      IN device[d].mode = "normal"
         /\ [setup |-> "stored", ds |-> ds] \in hist.given[d]
         => 6 - ds.dev_idx \in box.mask /\ ds.chlist = chlist
=============================================================================
