------------------------------- MODULE EsbRing -------------------------------
(***************************************************************************)
(* The two ring buffers of the Enhanced ShockBurst driver (nrf_esb.c):     *)
(* nrf_esb_payload_tx_fifo_t and nrf_esb_payload_rx_fifo_t.  A ring is an  *)
(* array of slots that keep their content after they are read, the index   *)
(* the next payload is written to, the index the next one is read from,    *)
(* and a uint32_t count.  The same operators serve both FIFOs: the code    *)
(* repeats the same statements for each.                                   *)
(***************************************************************************)
EXTENDS Integers, Sequences

CONSTANT UINT32_MAX     \* the largest uint32_t (scaled down for TLC)

ASSUME UInt32Assumption == UINT32_MAX \in Nat \ {0}

-----------------------------------------------------------------------------
\* Faulty variant: the index leaves the array by one.
RingNextLate(i, size) == IF i + 1 > size THEN 0 ELSE i + 1

\* "if (++index >= SIZE) index = 0"
RingNext(i, size) == IF i + 1 >= size THEN 0 ELSE i + 1

\* "n--" and "n++" on a uint32_t
Dec32(n) == IF n = 0 THEN UINT32_MAX ELSE n - 1
Inc32(n) == IF n = UINT32_MAX THEN 0 ELSE n + 1

Ring(size, Slots) ==
  [p_payload   : [0 .. size - 1 -> Slots],
   entry_point : 0 .. size - 1,
   exit_point  : 0 .. size - 1,
   count       : 0 .. UINT32_MAX]

ZeroRing(size, slot) ==
  [p_payload |-> [i \in 0 .. size - 1 |-> slot],
   entry_point |-> 0, exit_point |-> 0, count |-> 0]

\* The payload is copied to the entry slot, then the entry moves on.
Pushed(ring, size, payload) ==
  [ring EXCEPT !.p_payload[ring.entry_point] = payload,
               !.entry_point = RingNext(ring.entry_point, size),
               !.count       = Inc32(ring.count)]

\* The exit moves on; the slot it leaves keeps its content.
HeadRemoved(ring, size) ==
  [ring EXCEPT !.exit_point = RingNext(ring.exit_point, size),
               !.count      = Dec32(ring.count)]

\* Faulty variant: the indices stay where they are.
FlushedCountOnly(ring) == [ring EXCEPT !.count = 0]

\* The slots keep their content.
Flushed(ring) ==
  [ring EXCEPT !.entry_point = 0, !.exit_point = 0, !.count = 0]

-----------------------------------------------------------------------------
(* What the indices must say to each other, and the queue they stand for. *)

Wrap(i, size) == IF i >= size THEN i - size ELSE i

Consistent(ring, size) ==
  /\ ring.count <= size
  /\ ring.entry_point = Wrap(ring.exit_point + ring.count, size)

\* The slot of the k-th oldest payload, k = 1 .. count.
SlotOf(ring, size, k) == Wrap(ring.exit_point + k - 1, size)

Queue(ring, size) ==
  [k \in 1 .. ring.count |-> ring.p_payload[SlotOf(ring, size, k)]]
=============================================================================
