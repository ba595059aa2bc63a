----------------------------- MODULE MCConsole -----------------------------
(* Instances of Console for TLC; the values are in the configurations. *)
EXTENDS Console
=============================================================================
