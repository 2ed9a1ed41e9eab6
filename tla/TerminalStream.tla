---------------------------- MODULE TerminalStream ----------------------------
(***************************************************************************)
(* What the daemon promises the clients of one terminal. The output is one  *)
(* sequence of chunks. An attachment starts with a snapshot of the chunks   *)
(* so far; every later chunk is due to the attachment that is the viewer    *)
(* when it appears, and to no other. What is due is delivered oldest first  *)
(* or lost, and only for two reasons: a full channel loses the newest, and  *)
(* an attachment that departs loses what it has not taken. The viewer       *)
(* changes only when a newer one attaches, it departs, or the terminal      *)
(* closes. PtySession implements it.                                        *)
(***************************************************************************)
EXTENDS Naturals

CONSTANT Viewers    \* the attachments that can be made, 1 .. n

VARIABLES
  count,    \* chunks the terminal has shown
  ended,    \* no further chunk appears
  open,     \* attachments are accepted
  viewer,   \* the attachment the next chunk is due to, 0 for none
  last,     \* the newest attachment
  start,    \* per attachment: the chunks in its snapshot
  due,      \* per attachment: the chunks it is to receive
  got,      \* per attachment: the chunks it received
  lost,     \* per attachment: the chunks it will never receive
  gone      \* the attachments that departed

vars == <<count, ended, open, viewer, last, start, due, got, lost, gone>>

Init ==
  /\ count = 0
  /\ ended = FALSE /\ open = TRUE
  /\ viewer = 1 /\ last = 1
  /\ start = [t \in Viewers |-> 0]
  /\ due = [t \in Viewers |-> {}]
  /\ got = [t \in Viewers |-> {}]
  /\ lost = [t \in Viewers |-> {}]
  /\ gone = {}

Output ==
  /\ ~ended
  /\ count' = count + 1
  /\ due' = [t \in Viewers |-> IF t = viewer THEN due[t] \union {count + 1} ELSE due[t]]
  /\ UNCHANGED <<ended, open, viewer, last, start, got, lost, gone>>

(* The emulator fails on a chunk: nobody is sent it, and it is the last.    *)
Fault ==
  /\ ~ended
  /\ count' = count + 1
  /\ ended' = TRUE
  /\ UNCHANGED <<open, viewer, last, start, due, got, lost, gone>>

EndOutput ==
  /\ ended' = TRUE
  /\ UNCHANGED <<count, open, viewer, last, start, due, got, lost, gone>>

Close ==
  /\ open' = FALSE
  /\ viewer' = 0
  /\ UNCHANGED <<count, ended, last, start, due, got, lost, gone>>

(* A new viewer takes over: its snapshot is exactly what has been shown.    *)
Attach ==
  /\ open
  /\ last + 1 \in Viewers
  /\ last' = last + 1
  /\ viewer' = last + 1
  /\ start' = [start EXCEPT ![last + 1] = count]
  /\ UNCHANGED <<count, ended, open, due, got, lost, gone>>

(* The viewer is detached, which only a departed one is.                    *)
Leave ==
  /\ viewer \in gone
  /\ viewer' = 0
  /\ UNCHANGED <<count, ended, open, last, start, due, got, lost, gone>>

Deliver(t) ==
  /\ t \notin gone
  /\ \E c \in due[t] :
       /\ \A d \in due[t] : c <= d
       /\ due' = [due EXCEPT ![t] = @ \ {c}]
       /\ got' = [got EXCEPT ![t] = @ \union {c}]
  /\ UNCHANGED <<count, ended, open, viewer, last, start, lost, gone>>

LoseNewest(t) ==
  /\ \E c \in due[t] :
       /\ \A d \in due[t] : d <= c
       /\ due' = [due EXCEPT ![t] = @ \ {c}]
       /\ lost' = [lost EXCEPT ![t] = @ \union {c}]
  /\ UNCHANGED <<count, ended, open, viewer, last, start, got, gone>>

(* A superseded attachment that received everything is finished.            *)
Finish(t) ==
  /\ t \in 1 .. last
  /\ viewer # t
  /\ due[t] = {}
  /\ gone' = gone \union {t}
  /\ UNCHANGED <<count, ended, open, viewer, last, start, due, got, lost>>

(* An attachment departs early and loses what it had not taken; a chunk on  *)
(* its way to the attachment is lost a step later.                          *)
Depart(t) ==
  /\ t \in 1 .. last
  /\ gone' = gone \union {t}
  /\ \E S \in SUBSET due[t] :
       /\ due' = [due EXCEPT ![t] = @ \ S]
       /\ lost' = [lost EXCEPT ![t] = @ \union S]
  /\ UNCHANGED <<count, ended, open, viewer, last, start, got>>

Next ==
  \/ Output \/ Fault \/ EndOutput \/ Close \/ Attach \/ Leave
  \/ \E t \in Viewers : Deliver(t) \/ LoseNewest(t) \/ Finish(t) \/ Depart(t)

Spec == Init /\ [][Next]_vars
=============================================================================
