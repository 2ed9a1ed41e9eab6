----------------------------- MODULE MCResizeQueue -----------------------------
(* Model checking of ResizeQueue: one pane whose session is replaced, and the *)
(* worker that delivers its sizes.                                            *)
EXTENDS ResizeQueue
=============================================================================
