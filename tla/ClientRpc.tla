------------------------------- MODULE ClientRpc -------------------------------
(***************************************************************************)
(* The daemon client (client/mod.rs): one caller at a time issues requests  *)
(* over a connection, a background reader_loop routes the responses to      *)
(* them through a map of oneshot senders, and pushes the server's events    *)
(* into a bounded channel.                                                  *)
(***************************************************************************)
EXTENDS Naturals, Sequences

CONSTANTS
  MaxId,      \* bound: requests issued
  MaxFrames,  \* bound: events and undecodable frames the peer sends
  EventCap    \* capacity of the event channel, 64 in the code

ASSUME BoundsAssumption == MaxId \in Nat /\ MaxFrames \in Nat /\ EventCap \in Nat \ {0}

VARIABLES
  pending,    \* the ids in the pending map
  slot,       \* per id: "unused", "waiting", "sent" or "dropped"
  nextId,     \* RequestIds.next
  call,       \* the next step of the roundtrip: "none", "write", "undo", "await"
  callId,     \* its id
  watched,    \* history: the reader ran when the request was registered
  client,     \* "live", or "dropped"
  reader,     \* the reader task: "reading", "clearing" or "gone"
  events,     \* events in the channel
  receiver,   \* its receiver: "held" or "dropped"
  peer,       \* the daemon's end: "open" or "closed"
  asked,      \* the requests it has received
  wire,       \* frames it has sent
  frames      \* how many of them were no responses

callVars  == <<nextId, call, callId, watched>>
eventVars == <<events, receiver>>
peerVars  == <<peer, asked, frames>>
vars == <<pending, slot, callVars, client, reader, eventVars, peerVars, wire>>

Ids == 1 .. MaxId
(* The frames that are no responses.                                        *)
Event   == MaxId + 1
Garbled == MaxId + 2

(* connect keeps no receiver, connect_with_events hands it to the caller.   *)
Init ==
  /\ pending = {} /\ slot = [i \in Ids |-> "unused"]
  /\ nextId = 1 /\ call = "none" /\ callId = 0 /\ watched = FALSE
  /\ client = "live" /\ reader = "reading"
  /\ events = 0 /\ receiver \in {"held", "dropped"}
  /\ peer = "open" /\ asked = {} /\ wire = <<>> /\ frames = 0

-----------------------------------------------------------------------------
(* roundtrip registers the request first ...                                *)
Begin ==
  /\ client = "live" /\ call = "none" /\ nextId <= MaxId
  /\ pending' = pending \union {nextId}
  /\ slot' = [slot EXCEPT ![nextId] = "waiting"]
  /\ call' = "write" /\ callId' = nextId /\ nextId' = nextId + 1
  /\ watched' = (reader = "reading")
  /\ UNCHANGED <<client, reader, eventVars, peerVars, wire>>

(* ... writes it ...                                                        *)
Write ==
  /\ call = "write" /\ peer = "open"
  /\ asked' = asked \union {callId}
  /\ call' = "await"
  /\ UNCHANGED <<pending, slot, nextId, callId, watched, client, reader, eventVars, peer, frames, wire>>

WriteFails ==
  /\ call = "write" /\ peer = "closed"
  /\ call' = "undo"
  /\ UNCHANGED <<pending, slot, nextId, callId, watched, client, reader, eventVars, peerVars, wire>>

Return == call' = "none" /\ callId' = 0 /\ watched' = FALSE /\ UNCHANGED nextId

(* Mutant: the failed write leaves its slot behind. *)
UndoNothing ==
  /\ call = "undo"
  /\ Return
  /\ UNCHANGED <<pending, slot, client, reader, eventVars, peerVars, wire>>

(* ... takes its slot back when that failed ...                             *)
Undo ==
  /\ call = "undo"
  /\ pending' = pending \ {callId}
  /\ slot' = [slot EXCEPT ![callId] = "dropped"]
  /\ Return
  /\ UNCHANGED <<client, reader, eventVars, peerVars, wire>>

(* ... or waits for its response, or for its sender to be dropped.          *)
Resolve ==
  /\ call = "await" /\ slot[callId] # "waiting"
  /\ Return
  /\ UNCHANGED <<pending, slot, client, reader, eventVars, peerVars, wire>>

(* A timeout around the calls drops the client, and its Drop aborts the     *)
(* reader.                                                                  *)
DropClient ==
  /\ client = "live"
  /\ client' = "dropped" /\ reader' = "gone"
  /\ pending' = {} /\ slot' = [i \in Ids |-> IF i \in pending THEN "dropped" ELSE slot[i]]
  /\ Return
  /\ peer' = "closed" /\ wire' = <<>>
  /\ UNCHANGED <<eventVars, asked, frames>>

Consume ==
  /\ receiver = "held" /\ events > 0
  /\ events' = events - 1
  /\ UNCHANGED <<pending, slot, callVars, client, reader, receiver, peerVars, wire>>

DropReceiver ==
  /\ receiver = "held"
  /\ receiver' = "dropped" /\ events' = 0
  /\ UNCHANGED <<pending, slot, callVars, client, reader, peerVars, wire>>

-----------------------------------------------------------------------------
Stop == reader' = "clearing"

(* reader_loop: a response is routed to the slot of its id ...              *)
Route ==
  /\ reader = "reading" /\ wire # <<>> /\ Head(wire) \in Ids
  /\ pending' = pending \ {Head(wire)}
  /\ slot' = IF Head(wire) \in pending THEN [slot EXCEPT ![Head(wire)] = "sent"] ELSE slot
  /\ wire' = Tail(wire)
  /\ UNCHANGED <<callVars, client, reader, eventVars, peerVars>>

(* ... an event waits for room in the channel, and ends the loop when its   *)
(* receiver is gone ...                                                     *)
PushEvent ==
  /\ reader = "reading" /\ wire # <<>> /\ Head(wire) = Event
  /\ \/ receiver = "held" /\ events < EventCap /\ events' = events + 1 /\ UNCHANGED reader
     \/ receiver = "dropped" /\ Stop /\ UNCHANGED events
  /\ wire' = Tail(wire)
  /\ UNCHANGED <<pending, slot, callVars, client, receiver, peerVars>>

(* ... as do a frame it cannot decode and the end of the stream.            *)
BadFrame ==
  /\ reader = "reading" /\ wire # <<>> /\ Head(wire) = Garbled
  /\ Stop
  /\ wire' = Tail(wire)
  /\ UNCHANGED <<pending, slot, callVars, client, eventVars, peerVars>>

Eof ==
  /\ reader = "reading" /\ wire = <<>> /\ peer = "closed"
  /\ Stop
  /\ UNCHANGED <<pending, slot, callVars, client, eventVars, peerVars, wire>>

(* Mutant: the senders stay in the map. *)
ClearNothing ==
  /\ reader = "clearing"
  /\ reader' = "gone"
  /\ UNCHANGED <<pending, slot, callVars, client, eventVars, peerVars, wire>>

(* Every pending sender is dropped.                                         *)
Clear ==
  /\ reader = "clearing"
  /\ pending' = {} /\ slot' = [i \in Ids |-> IF i \in pending THEN "dropped" ELSE slot[i]]
  /\ reader' = "gone"
  /\ UNCHANGED <<callVars, client, eventVars, peerVars, wire>>

-----------------------------------------------------------------------------
(* The daemon answers each request once, and may send events, a frame this  *)
(* client does not know, or close.                                          *)
Answer(i) ==
  /\ peer = "open" /\ i \in asked
  /\ asked' = asked \ {i} /\ wire' = Append(wire, i)
  /\ UNCHANGED <<pending, slot, callVars, client, reader, eventVars, peer, frames>>

SendFrame ==
  /\ peer = "open" /\ frames < MaxFrames
  /\ frames' = frames + 1
  /\ \E f \in {Event, Garbled} : wire' = Append(wire, f)
  /\ UNCHANGED <<pending, slot, callVars, client, reader, eventVars, peer, asked>>

Close ==
  /\ peer = "open"
  /\ peer' = "closed"
  /\ UNCHANGED <<pending, slot, callVars, client, reader, eventVars, asked, frames, wire>>

-----------------------------------------------------------------------------
Roundtrip == Write \/ WriteFails \/ Undo \/ Resolve
ReaderLoop == Route \/ PushEvent \/ BadFrame \/ Eof \/ Clear
Peer == (\E i \in Ids : Answer(i)) \/ SendFrame \/ Close

Next == Begin \/ Roundtrip \/ DropClient \/ Consume \/ DropReceiver \/ ReaderLoop \/ Peer

Spec == Init /\ [][Next]_vars

(* The caller and the reader task run, a held receiver is drained, and the  *)
(* daemon answers what it received.                                         *)
Fairness ==
  /\ WF_vars(Roundtrip) /\ WF_vars(ReaderLoop) /\ WF_vars(Consume)
  /\ \A i \in Ids : WF_vars(Answer(i))
FairSpec == Spec /\ Fairness

-----------------------------------------------------------------------------
(* The variables have their types, and a slot waits exactly while its       *)
(* sender is in the map.                                                    *)
TypeOK ==
  /\ slot \in [Ids -> {"unused", "waiting", "sent", "dropped"}]
  /\ pending = {i \in Ids : slot[i] = "waiting"}
  /\ nextId \in 1 .. (MaxId + 1) /\ callId \in 0 .. MaxId
  /\ call \in {"none", "write", "undo", "await"} /\ (call = "none" <=> callId = 0)
  /\ watched \in BOOLEAN /\ client \in {"live", "dropped"}
  /\ reader \in {"reading", "clearing", "gone"}
  /\ events \in 0 .. EventCap /\ receiver \in {"held", "dropped"}
  /\ peer \in {"open", "closed"} /\ asked \subseteq Ids
  /\ wire \in Seq(Ids \union {Event, Garbled}) /\ frames \in 0 .. MaxFrames

(* No slot outlives its request: between requests the map is empty, however *)
(* the last one ended.                                                      *)
NoSlotLeaks == pending \subseteq {callId}

(* A request that was registered while the reader ran returns: with its     *)
(* response, or with an error once the connection is dead.                  *)
WatchedReturns == (call # "none" /\ watched) ~> call = "none"

(* reader_loop's comment: dropping every pending sender unblocks the calls  *)
(* "instead of deadlocking on rx.await". Refuted for the next request: it   *)
(* is registered after the reader cleared the map, on a connection that is  *)
(* still open, and nobody will ever complete it.                            *)
EveryCallReturns == call # "none" ~> call = "none"
=============================================================================
