------------------------------- MODULE MCBoot -------------------------------
(* A small instance of Boot for TLC.                                       *)
EXTENDS Boot

CONSTANTS d1     \* a device

OneDevice == {d1}
=============================================================================
