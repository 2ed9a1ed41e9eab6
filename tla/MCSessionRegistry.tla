----------------------------- MODULE MCSessionRegistry ------------------------
(* Model checking of SessionRegistry. *)
EXTENDS SessionRegistry
=============================================================================
