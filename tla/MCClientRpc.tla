------------------------------ MODULE MCClientRpc ------------------------------
(* Model checking of ClientRpc. *)
EXTENDS ClientRpc
=============================================================================
