--------------------------- MODULE ClientRpc_proofs ---------------------------
(***************************************************************************)
(* Proofs about ClientRpc, for every number of requests and frames and      *)
(* every capacity of the event channel.                                     *)
(***************************************************************************)
EXTENDS ClientRpc, TLAPS

(* Whoever waits for a response the reader was to route has a reader that   *)
(* will route it or drop its sender.                                        *)
WatchedHasReader == watched /\ callId \in pending => reader # "gone"

IInv == TypeOK /\ NoSlotLeaks /\ WatchedHasReader

USE BoundsAssumption

-----------------------------------------------------------------------------
LEMMA IInvInit == Init => IInv
<1>. SUFFICES ASSUME Init PROVE IInv
  OBVIOUS
<1>1. /\ nextId \in 1 .. (MaxId + 1) /\ callId \in 0 .. MaxId /\ events \in 0 .. EventCap
      /\ frames \in 0 .. MaxFrames /\ asked \subseteq Ids
      /\ wire \in Seq(Ids \union {Event, Garbled})
  BY DEF Init
<1>2. pending = {i \in Ids : slot[i] = "waiting"}
  BY DEF Init
<1>3. TypeOK
  BY <1>1, <1>2 DEF Init, TypeOK
<1>4. NoSlotLeaks /\ WatchedHasReader
  BY DEF Init, NoSlotLeaks, WatchedHasReader
<1>. QED
  BY <1>3, <1>4 DEF IInv

LEMMA Returned ==
  ASSUME Return, TypeOK
  PROVE  /\ nextId' \in 1 .. (MaxId + 1) /\ callId' \in 0 .. MaxId /\ watched' \in BOOLEAN
         /\ call' \in {"none", "write", "undo", "await"} /\ (call' = "none" <=> callId' = 0)
<1>1. callId' = 0 /\ 0 \in 0 .. MaxId /\ nextId' \in 1 .. (MaxId + 1)
  BY DEF Return, TypeOK
<1>2. watched' \in BOOLEAN
  BY Zenon DEF Return
<1>. QED
  BY <1>1, <1>2 DEF Return

(* The wire only loses its head or grows by a frame at its end.             *)
LEMMA TypeStep == ASSUME TypeOK, [Next]_vars PROVE TypeOK'
<1>. USE DEF TypeOK, Ids
<1>1. CASE Begin
  BY <1>1 DEF Begin, eventVars, peerVars
<1>2. CASE Write
  BY <1>2 DEF Write, eventVars
<1>3. CASE WriteFails
  BY <1>3 DEF WriteFails, eventVars, peerVars
<1>4. CASE Undo
  BY <1>4, Returned DEF Undo, eventVars, peerVars
<1>5. CASE Resolve
  BY <1>5, Returned DEF Resolve, eventVars, peerVars
<1>6. CASE DropClient
  BY <1>6, Returned DEF DropClient, eventVars
<1>7. CASE Consume
  BY <1>7 DEF Consume, callVars, peerVars
<1>8. CASE DropReceiver
  BY <1>8 DEF DropReceiver, callVars, peerVars
<1>9. CASE Route
  <2>1. wire' \in Seq(Ids \union {Event, Garbled})
    BY <1>9 DEF Route
  <2>. QED
    BY <1>9, <2>1 DEF Route, callVars, eventVars, peerVars
<1>10. CASE PushEvent
  <2>1. wire' \in Seq(Ids \union {Event, Garbled})
    BY <1>10 DEF PushEvent
  <2>. QED
    BY <1>10, <2>1 DEF PushEvent, Stop, callVars, peerVars
<1>11. CASE BadFrame
  <2>1. wire' \in Seq(Ids \union {Event, Garbled})
    BY <1>11 DEF BadFrame
  <2>. QED
    BY <1>11, <2>1 DEF BadFrame, Stop, callVars, eventVars, peerVars
<1>12. CASE Eof
  BY <1>12 DEF Eof, Stop, callVars, eventVars, peerVars
<1>13. CASE Clear
  BY <1>13 DEF Clear, callVars, eventVars, peerVars
<1>14. ASSUME NEW i \in Ids, Answer(i) PROVE TypeOK'
  <2>1. wire' \in Seq(Ids \union {Event, Garbled})
    BY <1>14 DEF Answer
  <2>. QED
    BY <1>14, <2>1 DEF Answer, callVars, eventVars
<1>15. CASE SendFrame
  <2>1. wire' \in Seq(Ids \union {Event, Garbled})
    BY <1>15 DEF SendFrame
  <2>. QED
    BY <1>15, <2>1 DEF SendFrame, callVars, eventVars
<1>16. CASE Close
  BY <1>16 DEF Close, callVars, eventVars
<1>17. CASE UNCHANGED vars
  BY <1>17 DEF vars, callVars, eventVars, peerVars
<1>. QED
  BY <1>1, <1>2, <1>3, <1>4, <1>5, <1>6, <1>7, <1>8, <1>9, <1>10, <1>11, <1>12, <1>13,
     <1>14, <1>15, <1>16, <1>17 DEF Next, Roundtrip, ReaderLoop, Peer

(* The sender of a request leaves the map before its call ends: with the    *)
(* response, with the reader, with the client, or because the write failed. *)
LEMMA LeakStep == ASSUME TypeOK, NoSlotLeaks, [Next]_vars PROVE NoSlotLeaks'
<1>. USE DEF NoSlotLeaks, TypeOK, Ids
<1>1. CASE Begin
  BY <1>1 DEF Begin
<1>2. CASE Undo
  BY <1>2 DEF Undo, Return
<1>3. CASE Resolve
  BY <1>3 DEF Resolve, Return
<1>4. CASE DropClient
  BY <1>4 DEF DropClient
<1>5. CASE Route
  BY <1>5 DEF Route, callVars
<1>6. CASE Clear
  BY <1>6 DEF Clear
<1>7. CASE UNCHANGED <<pending, callId>>
  BY <1>7
<1>. QED
  BY <1>1, <1>2, <1>3, <1>4, <1>5, <1>6, <1>7
  DEF Next, Roundtrip, ReaderLoop, Peer, Write, WriteFails, Consume, DropReceiver,
      PushEvent, BadFrame, Eof, Answer, SendFrame, Close, vars, callVars

(* The reader clears the map before it is gone.                             *)
LEMMA ReaderStep ==
  ASSUME TypeOK, WatchedHasReader, [Next]_vars PROVE WatchedHasReader'
<1>. USE DEF WatchedHasReader, TypeOK, Ids
<1>1. CASE Begin
  BY <1>1 DEF Begin
<1>2. CASE Undo \/ Resolve \/ DropClient
  BY <1>2 DEF Undo, Resolve, DropClient, Return
<1>3. CASE Route
  BY <1>3 DEF Route, callVars
<1>4. CASE PushEvent \/ BadFrame \/ Eof
  BY <1>4 DEF PushEvent, BadFrame, Eof, Stop, callVars
<1>5. CASE Clear
  BY <1>5 DEF Clear, callVars
<1>6. CASE UNCHANGED <<watched, pending, callId, reader>>
  BY <1>6
<1>. QED
  BY <1>1, <1>2, <1>3, <1>4, <1>5, <1>6
  DEF Next, Roundtrip, ReaderLoop, Peer, Write, WriteFails, Consume, DropReceiver,
      Answer, SendFrame, Close, vars, callVars

LEMMA Invariant == Spec => []IInv
<1>1. IInv /\ [Next]_vars => IInv'
  BY TypeStep, LeakStep, ReaderStep DEF IInv
<1>. QED
  BY IInvInit, <1>1, PTL DEF Spec

-----------------------------------------------------------------------------
(* The variables keep their types, and a slot waits exactly while its       *)
(* sender is in the map.                                                    *)
THEOREM TypeCorrect == Spec => []TypeOK
<1>1. IInv => TypeOK
  BY DEF IInv
<1>. QED
  BY Invariant, <1>1, PTL

(* However a request ends, its slot leaves the pending map with it.         *)
THEOREM SlotsReturned == Spec => []NoSlotLeaks
<1>1. IInv => NoSlotLeaks
  BY DEF IInv
<1>. QED
  BY Invariant, <1>1, PTL

(* A request registered while the reader loop ran never waits for a reader  *)
(* that is gone.                                                            *)
THEOREM NeverStranded == Spec => []WatchedHasReader
<1>1. IInv => WatchedHasReader
  BY DEF IInv
<1>. QED
  BY Invariant, <1>1, PTL

-----------------------------------------------------------------------------
(* The requests the daemon has received, answered or not yet.                *)
OnWire(i) == \E k \in 1 .. Len(wire) : wire[k] = i
Written == {i \in Ids : i \in asked \/ OnWire(i)}

(* The daemon knows only ids that were issued, and not the one that is still *)
(* to be written, or could not be; so nothing has answered that one.         *)
Fresh ==
  /\ callId < nextId
  /\ \A i \in Written : i < nextId
  /\ \A i \in Ids : i >= nextId => slot[i] = "unused"
  /\ call \in {"write", "undo"} => callId \notin Written /\ slot[callId] \in {"waiting", "dropped"}

(* The wire changes at its ends only.                                        *)
LEMMA Shorter ==
  ASSUME TypeOK, wire # <<>>, wire' = Tail(wire), asked' = asked
  PROVE  Written' \subseteq Written
<1>. SUFFICES ASSUME NEW i \in Ids, NEW k \in 1 .. Len(Tail(wire)), Tail(wire)[k] = i
              PROVE  OnWire(i)
  BY DEF Written, OnWire
<1>1. wire \in Seq(Ids \union {Event, Garbled})
  BY DEF TypeOK
<1>2. k + 1 \in 1 .. Len(wire) /\ wire[k + 1] = i
  BY <1>1
<1>. QED
  BY <1>2 DEF OnWire

LEMMA Longer ==
  ASSUME TypeOK, NEW f \in Ids \union {Event, Garbled}, wire' = Append(wire, f), asked' \subseteq asked
  PROVE  Written' \subseteq Written \union {f}
<1>. SUFFICES ASSUME NEW i \in Ids, NEW k \in 1 .. Len(Append(wire, f)), Append(wire, f)[k] = i, i # f
              PROVE  OnWire(i)
  BY DEF Written, OnWire
<1>1. wire \in Seq(Ids \union {Event, Garbled})
  BY DEF TypeOK
<1>2. k \in 1 .. Len(wire) /\ wire[k] = i
  BY <1>1
<1>. QED
  BY <1>2 DEF OnWire

(* A step that issues no id and writes no request.                           *)
LEMMA FreshKept ==
  ASSUME TypeOK, Fresh, UNCHANGED <<nextId, call, callId>>, Written' \subseteq Written,
         \A i \in Ids : slot'[i] = slot[i] \/ (slot[i] = "waiting" /\ slot'[i] = "dropped")
  PROVE  Fresh'
<1>1. callId \in Ids \union {0}
  BY DEF TypeOK, Ids
<1>2. call \in {"write", "undo"} => callId \in Ids
  BY <1>1 DEF TypeOK
<1>3. \A i \in Ids : i >= nextId => slot'[i] = "unused"
  BY DEF Fresh
<1>4. call \in {"write", "undo"} => slot'[callId] \in {"waiting", "dropped"}
  BY <1>2 DEF Fresh
<1>. QED
  BY <1>3, <1>4 DEF Fresh

LEMMA FreshStep == IInv /\ Fresh /\ [Next]_vars => Fresh'
<1>. SUFFICES ASSUME IInv, Fresh, [Next]_vars PROVE Fresh'
  OBVIOUS
<1>0. TypeOK /\ NoSlotLeaks
  BY DEF IInv
<1>1. CASE Begin
  <2>1. /\ nextId \in Ids /\ nextId' = nextId + 1 /\ callId' = nextId /\ call' = "write"
        /\ slot' = [slot EXCEPT ![nextId] = "waiting"] /\ asked' = asked /\ wire' = wire
    BY <1>0, <1>1 DEF Begin, TypeOK, Ids, peerVars
  <2>2. Written' = Written
    BY <2>1 DEF Written, OnWire
  <2>3. nextId \notin Written
    BY <2>1 DEF Fresh, Ids
  <2>5. slot'[nextId] = "waiting" /\ \A i \in Ids : i # nextId => slot'[i] = slot[i]
    BY <1>0, <2>1 DEF TypeOK
  <2>6. \A i \in Written : i \in Ids
    BY DEF Written
  <2>. QED
    BY <2>1, <2>2, <2>3, <2>5, <2>6 DEF Fresh, Ids
<1>2. CASE Write
  <2>1. /\ call = "write" /\ call' = "await" /\ UNCHANGED <<nextId, callId, slot, wire>>
        /\ asked' = asked \union {callId}
    BY <1>2 DEF Write
  <2>2. Written' \subseteq Written \union {callId}
    BY <2>1 DEF Written, OnWire
  <2>. QED
    BY <2>1, <2>2 DEF Fresh
<1>3. CASE WriteFails
  BY <1>3 DEF WriteFails, Fresh, Written, OnWire, peerVars
<1>4. CASE Undo \/ Resolve \/ DropClient
  <2>1. call' = "none" /\ callId' = 0 /\ nextId' = nextId /\ asked' = asked
    BY <1>4 DEF Undo, Resolve, DropClient, Return, peerVars
  <2>2. wire' = wire \/ wire' = <<>>
    BY <1>4 DEF Undo, Resolve, DropClient
  <2>3. Written' \subseteq Written
    BY <2>1, <2>2 DEF Written, OnWire
  <2>4. call = "undo" => callId \in Ids /\ callId < nextId
    BY <1>0 DEF TypeOK, Ids, Fresh
  <2>5. \A i \in Ids : i >= nextId => slot'[i] = slot[i]
    <3>1. CASE Undo
      BY <1>0, <2>4, <3>1 DEF Undo, TypeOK, Ids
    <3>2. CASE Resolve
      BY <3>2 DEF Resolve
    <3>3. CASE DropClient
      BY <1>0, <3>3 DEF DropClient, TypeOK, Fresh
    <3>. QED
      BY <1>4, <3>1, <3>2, <3>3
  <2>6. 0 < nextId
    BY <1>0 DEF TypeOK
  <2>. QED
    BY <2>1, <2>3, <2>5, <2>6 DEF Fresh
<1>5. CASE Route
  <2>1. /\ UNCHANGED <<nextId, call, callId, asked>> /\ wire # <<>> /\ wire' = Tail(wire)
        /\ Head(wire) \in Ids
    BY <1>5 DEF Route, callVars, peerVars
  <2>2. Written' \subseteq Written
    BY <1>0, <2>1, Shorter
  <2>3. CASE Head(wire) \notin pending
    BY <1>0, <1>5, <2>1, <2>2, <2>3, FreshKept DEF Route
  <2>4. CASE Head(wire) \in pending
    <3>. DEFINE h == Head(wire)
    <3>1. h = callId /\ h \in Written
      <4>1. wire[1] = h /\ 1 \in 1 .. Len(wire)
        BY <1>0, <2>1 DEF TypeOK
      <4>. QED
        BY <1>0, <2>1, <2>4, <4>1 DEF NoSlotLeaks, Written, OnWire
    <3>2. call \notin {"write", "undo"} /\ h < nextId
      BY <3>1 DEF Fresh
    <3>3. \A i \in Ids : i # h => slot'[i] = slot[i]
      BY <1>0, <1>5, <2>1, <2>4 DEF Route, TypeOK
    <3>4. nextId \in Nat /\ h \in Nat
      BY <1>0, <2>1 DEF TypeOK, Ids
    <3>5. \A i \in Ids : i >= nextId => i # h
      BY <3>2, <3>4 DEF Ids
    <3>. QED
      BY <2>1, <2>2, <3>2, <3>3, <3>5 DEF Fresh
  <2>. QED
    BY <2>3, <2>4
<1>6. CASE PushEvent \/ BadFrame
  <2>1. /\ UNCHANGED <<nextId, call, callId, asked, slot>> /\ wire # <<>> /\ wire' = Tail(wire)
    BY <1>6 DEF PushEvent, BadFrame, callVars, peerVars
  <2>. QED
    BY <1>0, <2>1, Shorter, FreshKept
<1>7. CASE Clear
  <2>1. UNCHANGED <<nextId, call, callId, asked, wire>>
    BY <1>7 DEF Clear, callVars, peerVars
  <2>2. Written' \subseteq Written
    BY <2>1 DEF Written, OnWire
  <2>3. \A i \in Ids : slot'[i] = slot[i] \/ (slot[i] = "waiting" /\ slot'[i] = "dropped")
    BY <1>0, <1>7 DEF Clear, TypeOK
  <2>. QED
    BY <1>0, <2>1, <2>2, <2>3, FreshKept
<1>8. ASSUME NEW i \in Ids, Answer(i) PROVE Fresh'
  <2>1. /\ UNCHANGED <<nextId, call, callId, slot>> /\ wire' = Append(wire, i) /\ asked' \subseteq asked
        /\ i \in Written
    BY <1>8 DEF Answer, callVars, Written
  <2>2. Written' \subseteq Written
    BY <1>0, <2>1, Longer
  <2>. QED
    BY <1>0, <2>1, <2>2, FreshKept
<1>9. CASE SendFrame
  <2>1. PICK f \in {Event, Garbled} : wire' = Append(wire, f)
    BY <1>9 DEF SendFrame
  <2>2. UNCHANGED <<nextId, call, callId, slot, asked>> /\ f \notin Ids
    BY <1>9 DEF SendFrame, callVars, Event, Garbled, Ids
  <2>3. Written' \subseteq Written
    BY <1>0, <2>1, <2>2, Longer DEF Written
  <2>. QED
    BY <1>0, <2>2, <2>3, FreshKept
<1>10. CASE UNCHANGED <<nextId, call, callId, slot, asked, wire>>
  BY <1>10 DEF Fresh, Written, OnWire
<1>. QED
  BY <1>1, <1>2, <1>3, <1>4, <1>5, <1>6, <1>7, <1>8, <1>9, <1>10
  DEF Next, Roundtrip, ReaderLoop, Peer, Consume, DropReceiver, Eof, Close, vars, callVars, peerVars

(* A response resolves the request that waits for it and no other, however   *)
(* late it comes: not the next one, nor one that is still to be written. And *)
(* a slot that was resolved or dropped is never used again.                  *)
ToItsOwnCall == [][\A i \in Ids :
  /\ slot'[i] = "sent" /\ slot[i] # "sent" => call = "await" /\ callId = i
  /\ slot[i] \in {"sent", "dropped"} => slot'[i] = slot[i]]_vars

(* For every number of requests and frames, in whatever order the daemon     *)
(* answers, the connection breaks and the client is dropped.                 *)
THEOREM ResponsesFindTheirCall == Spec => ToItsOwnCall
<1>. DEFINE Own(i) == /\ slot'[i] = "sent" /\ slot[i] # "sent" => call = "await" /\ callId = i
                      /\ slot[i] \in {"sent", "dropped"} => slot'[i] = slot[i]
<1>1. Init => Fresh
  <2>. SUFFICES ASSUME Init PROVE Fresh
    OBVIOUS
  <2>1. wire = <<>> /\ asked = {} /\ callId = 0 /\ nextId = 1 /\ call = "none"
        /\ \A i \in Ids : slot[i] = "unused"
    BY DEF Init
  <2>. QED
    BY <2>1 DEF Fresh, Written, OnWire
<1>2. IInv /\ Fresh /\ [Next]_vars => [\A i \in Ids : Own(i)]_vars
  <2>. SUFFICES ASSUME IInv, Fresh, Next, NEW i \in Ids PROVE Own(i)
    OBVIOUS
  <2>0. TypeOK /\ NoSlotLeaks
    BY DEF IInv
  <2>1. CASE Begin
    <3>1. slot' = [slot EXCEPT ![nextId] = "waiting"] /\ nextId \in Ids /\ slot[nextId] = "unused"
      BY <2>0, <2>1 DEF Begin, TypeOK, Ids, Fresh
    <3>. QED
      BY <2>0, <3>1 DEF TypeOK
  <2>2. CASE Undo
    <3>1. slot' = [slot EXCEPT ![callId] = "dropped"] /\ slot[callId] \in {"waiting", "dropped"}
      BY <2>2 DEF Undo, Fresh
    <3>. QED
      BY <2>0, <3>1 DEF TypeOK
  <2>3. CASE Route
    <3>1. CASE Head(wire) \notin pending
      BY <2>3, <3>1 DEF Route
    <3>2. CASE Head(wire) \in pending
      <4>. DEFINE h == Head(wire)
      <4>1. wire # <<>> /\ h \in Ids /\ slot' = [slot EXCEPT ![h] = "sent"]
        BY <2>3, <3>2 DEF Route
      <4>2. wire[1] = h /\ 1 \in 1 .. Len(wire)
        BY <2>0, <4>1 DEF TypeOK
      <4>3. h = callId /\ h \in Written
        BY <2>0, <3>2, <4>1, <4>2 DEF NoSlotLeaks, Written, OnWire
      <4>4. call = "await" /\ slot[h] = "waiting"
        BY <2>0, <3>2, <4>1, <4>3 DEF Fresh, TypeOK, Ids
      <4>. QED
        BY <2>0, <4>1, <4>3, <4>4 DEF TypeOK
    <3>. QED
      BY <3>1, <3>2
  <2>4. CASE DropClient \/ Clear
    BY <2>0, <2>4 DEF DropClient, Clear, TypeOK
  <2>5. CASE UNCHANGED slot
    BY <2>5
  <2>. QED
    BY <2>1, <2>2, <2>3, <2>4, <2>5
    DEF Next, Roundtrip, ReaderLoop, Peer, Write, WriteFails, Resolve, Consume, DropReceiver,
        PushEvent, BadFrame, Eof, Answer, SendFrame, Close
<1>. QED
  BY <1>1, <1>2, FreshStep, Invariant, PTL DEF Spec, ToItsOwnCall
=============================================================================
