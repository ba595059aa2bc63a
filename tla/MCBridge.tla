------------------------------ MODULE MCBridge ------------------------------
(* Instances of Bridge for TLC; the values are in the configurations. *)
EXTENDS Bridge
=============================================================================
