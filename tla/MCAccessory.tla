----------------------------- MODULE MCAccessory -----------------------------
(* Instances of the accessory for TLC.                                     *)
EXTENDS AccessoryProperties
=============================================================================
