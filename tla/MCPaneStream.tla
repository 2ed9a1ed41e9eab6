----------------------------- MODULE MCPaneStream ------------------------
(* Model checking of PaneStream. *)
EXTENDS PaneStream

(* One session emits up to MaxOut chunks, so that a chunk may follow one    *)
(* that was dropped, and any other a single one.                            *)
Talker == CHOOSE s \in Sessions : TRUE
MCQuota == [s \in Sessions |-> IF s = Talker THEN MaxOut ELSE 1]
=============================================================================
