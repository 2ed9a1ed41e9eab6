----------------------------- MODULE MCPaneLayout -----------------------------
(* Model checking of PaneLayout: two starts, with three panes in one          *)
(* workspace, or two panes in two.                                            *)
EXTENDS PaneLayout

(* The copy of the active workspace is read by the sweep only, the stale      *)
(* panes of the tab in view by nothing: states that differ in these alone     *)
(* behave alike.                                                              *)
Stored == [n \in DOMAIN lay.spaces |-> IF sweep.at # "wait" /\ n = lay.ws THEN {} ELSE lay.spaces[n]]

View ==
  LET s == SaveTab(lay)
  IN  <<Stored, s.ws, s.tabs, s.cur, next, terminals, editors, mapped, shells, file, sweep, synced, run, up, odd>>

(* How far a behaviour is followed.  With two panes: to the first departure,  *)
(* in the first run of a single workspace to any number.  With three: no      *)
(* departure, no document, no dead or missing shell, and no change of the     *)
(* layout between a start and the sweep.                                      *)
Orderly == odd \subseteq {"unsaved"}
Settled == mapped \subseteq shells /\ {k[2] : k \in mapped} = terminals
Unswept == sweep.at = "wait"

Bound ==
  IF next <= 3 THEN Orderly \/ (run <= 1 /\ DOMAIN lay.spaces = {1})
  ELSE /\ odd = {} /\ editors = {} /\ DOMAIN lay.spaces = {1} /\ Settled
       /\ Unswept => SaveTab(lay).tabs = lay.spaces[lay.ws]
=============================================================================
