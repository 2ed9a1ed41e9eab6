---------------------------- MODULE MCConnectionWire ---------------------------
(* Model checking of ConnectionWire. *)
EXTENDS ConnectionWire
=============================================================================
