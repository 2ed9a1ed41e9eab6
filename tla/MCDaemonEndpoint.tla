--------------------------- MODULE MCDaemonEndpoint ---------------------------
(* Model checking of DaemonEndpoint: an old daemon, a window of its release  *)
(* and a newer one.                                                          *)
EXTENDS DaemonEndpoint
CONSTANTS l1, l2, res
MCRelease == [d \in Daemons |-> IF d = l1 THEN 2 ELSE 1]
=============================================================================
