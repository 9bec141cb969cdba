----------------------------- MODULE MCPairing -----------------------------
(* Small instances of Pairing for TLC.                                     *)
EXTENDS Pairing

CONSTANTS d1, d2, c1     \* devices

Devices     == {d1, d2, c1}
Controllers == {c1}
=============================================================================
