------------------------------ MODULE MCFrame ------------------------------
(* An instance of Frame for TLC, with the times of the programs.  Devices  *)
(* have nothing but their bits of the box's mask in common, so one shows   *)
(* what becomes of each; FrameProofs is about any number of them.          *)
EXTENDS Frame, TLC

CONSTANTS d1     \* a device

OneDevice == {d1}
OneOffset == d1 :> 1
=============================================================================
