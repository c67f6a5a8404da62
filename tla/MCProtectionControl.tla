------------------------ MODULE MCProtectionControl ------------------------
(* ProtectionControl for TLC.                                               *)
EXTENDS ProtectionControl, TLC
=============================================================================
