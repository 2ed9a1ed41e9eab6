----------------------------- MODULE KeyedShells ------------------------------
(***************************************************************************)
(* What the daemon promises about the shells it keeps for its clients: a    *)
(* (workspace, pane) key has at most one shell, a shell is started only for *)
(* a key that has none, an id names one shell for ever, and once the daemon *)
(* is shut nothing runs and nothing starts. SessionRegistry implements it.  *)
(***************************************************************************)
EXTENDS Naturals

CONSTANT Keys

VARIABLES
  shell,    \* per key: the id of its running shell, 0 for none
  last,     \* the last id handed out
  door      \* "open", or "shut" for good

vars == <<shell, last, door>>

Init ==
  /\ shell = [k \in Keys |-> 0]
  /\ last = 0
  /\ door = "open"

Start(k) ==
  /\ door = "open"
  /\ shell[k] = 0
  /\ last' = last + 1
  /\ shell' = [shell EXCEPT ![k] = last + 1]
  /\ UNCHANGED door

(* A start that failed uses up its id. *)
Burn ==
  /\ door = "open"
  /\ last' = last + 1
  /\ UNCHANGED <<shell, door>>

End(k) ==
  /\ shell[k] # 0
  /\ shell' = [shell EXCEPT ![k] = 0]
  /\ UNCHANGED <<last, door>>

Shut ==
  /\ door' = "shut"
  /\ shell' = [k \in Keys |-> 0]
  /\ UNCHANGED last

Next == Burn \/ Shut \/ \E k \in Keys : Start(k) \/ End(k)

Spec == Init /\ [][Next]_vars
=============================================================================
