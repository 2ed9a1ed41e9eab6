----------------------------- MODULE ConnectionWire ----------------------------
(***************************************************************************)
(* The write half of one connection of the daemon (daemon/handler.rs): the  *)
(* request loop answers requests and one forwarder per attachment writes    *)
(* output frames, serialized by a fair mutex. A forwarder is a task that    *)
(* the loop aborts when its session is killed, detached or attached anew,   *)
(* and when the connection ends.                                            *)
(*                                                                          *)
(* A frame is FrameSize pieces. Writing waits when the socket is full, so   *)
(* a task may be suspended in the middle of a frame, with the mutex held.   *)
(* An attachment is a session and the number of its token; other            *)
(* connections attach to the same sessions.                                 *)
(***************************************************************************)
EXTENDS Naturals, Sequences, SequencesExt, FiniteSetsExt

CONSTANTS
  Sessions,
  MaxAttach,  \* bound: attachments of a session
  MaxTotal,   \* bound: attachments of all sessions
  ChanCap,    \* capacity of an attachment's channel, 64 in the code
  FrameSize,  \* pieces of a frame
  SockCap     \* pieces the socket buffers

ASSUME BoundsAssumption ==
  /\ MaxAttach \in Nat /\ MaxTotal \in Nat /\ ChanCap \in Nat \ {0}
  /\ FrameSize \in Nat \ {0} /\ SockCap \in Nat \ {0}

VARIABLES
  count,     \* attachments of a session so far
  current,   \* its current one, 0 for none
  dead,      \* sessions that ended
  ours,      \* the attachments this connection made
  chan,      \* chunks in an attachment's channel
  forwarder, \* "none", "recv", "write" or "gone", per attachment
  map,       \* forwarders: the keys of the map
  queue,     \* the mutex: its holder and those that wait, in order
  frame,     \* who wrote the last piece, and how many of its frame so far
  torn,      \* history: that frame was abandoned by an abort
  room,      \* free pieces of the socket
  loop,      \* "read", "abort", "respond", "cleanup" or "gone"
  request,   \* what the loop works on
  fence,     \* per session, the attachments the client was told have ended
  peer       \* "open", or "closed" by the client

sessionVars == <<count, current, dead, ours>>
taskVars    == <<chan, forwarder, map>>
wireVars    == <<frame, torn, room>>
loopVars    == <<loop, request, fence>>
vars == <<sessionVars, taskVars, queue, wireVars, loopVars, peer>>

Atts == Sessions \X (1 .. MaxAttach)
Loop == <<"loop", 0>>
NoRequest == [op |-> "none", att |-> Loop]
Att(s) == <<s, current[s]>>

Init ==
  /\ count = [s \in Sessions |-> 0] /\ current = [s \in Sessions |-> 0]
  /\ dead = {} /\ ours = {}
  /\ chan = [a \in Atts |-> 0] /\ forwarder = [a \in Atts |-> "none"] /\ map = {}
  /\ queue = <<>>
  /\ frame = [by |-> Loop, done |-> FrameSize] /\ torn = FALSE /\ room = SockCap
  /\ loop = "read" /\ request = NoRequest /\ fence = [s \in Sessions |-> 0]
  /\ peer = "open"

-----------------------------------------------------------------------------
(* The sessions. Output goes into the channel of the current attachment.    *)
Emit(s) ==
  /\ Att(s) \in ours /\ chan[Att(s)] < ChanCap
  /\ chan' = [chan EXCEPT ![Att(s)] = @ + 1]
  /\ UNCHANGED <<sessionVars, forwarder, map, queue, wireVars, loopVars, peer>>

Exit(s) ==
  /\ s \notin dead /\ count[s] > 0
  /\ dead' = dead \union {s} /\ current' = [current EXCEPT ![s] = 0]
  /\ UNCHANGED <<count, ours, taskVars, queue, wireVars, loopVars, peer>>

NewAttachment(s) ==
  /\ s \notin dead
  /\ count[s] < MaxAttach /\ SumFunction(count) < MaxTotal
  /\ count' = [count EXCEPT ![s] = @ + 1]
  /\ current' = [current EXCEPT ![s] = count[s] + 1]
  /\ UNCHANGED dead

OtherAttaches(s) ==
  /\ NewAttachment(s)
  /\ UNCHANGED <<ours, taskVars, queue, wireVars, loopVars, peer>>

-----------------------------------------------------------------------------
(* Whoever holds the mutex writes what fits; a frame is complete or its     *)
(* writer waits for room.                                                   *)
Started(p) == IF frame.by = p /\ frame.done < FrameSize THEN frame.done ELSE 0
Write(p) ==
  LET n == Min({room, FrameSize - Started(p)}) IN
  /\ room > 0 /\ peer = "open"
  /\ frame' = [by |-> p, done |-> Started(p) + n]
  /\ room' = room - n
  /\ torn' = FALSE
  /\ queue' = IF Started(p) + n = FrameSize THEN Tail(queue) ELSE queue
Completed == frame'.done = FrameSize
Holds(p) == queue # <<>> /\ Head(queue) = p

(* Mutant: a forwarder overtakes all that wait for the mutex. *)
ForwardRecvBarging(a) ==
  /\ forwarder[a] = "recv" /\ chan[a] > 0
  /\ chan' = [chan EXCEPT ![a] = @ - 1]
  /\ forwarder' = [forwarder EXCEPT ![a] = "write"]
  /\ queue' = IF queue = <<>> THEN <<a>> ELSE <<Head(queue), a>> \o Tail(queue)
  /\ UNCHANGED <<sessionVars, map, wireVars, loopVars, peer>>

(* forward_output takes a chunk and queues for the mutex ...                *)
ForwardRecv(a) ==
  /\ forwarder[a] = "recv" /\ chan[a] > 0
  /\ chan' = [chan EXCEPT ![a] = @ - 1]
  /\ forwarder' = [forwarder EXCEPT ![a] = "write"]
  /\ queue' = Append(queue, a)
  /\ UNCHANGED <<sessionVars, map, wireVars, loopVars, peer>>

(* ... writes its frame ...                                                 *)
ForwardWrite(a) ==
  /\ Holds(a)
  /\ Write(a)
  /\ forwarder' = IF Completed THEN [forwarder EXCEPT ![a] = "recv"] ELSE forwarder
  /\ UNCHANGED <<sessionVars, chan, map, loopVars, peer>>

(* ... and ends, on an error or when the sender is dropped and the channel  *)
(* empty, without leaving the map.                                          *)
ForwardEnd(a) ==
  /\ \/ Holds(a) /\ peer = "closed" /\ queue' = Tail(queue)
     \/ forwarder[a] = "recv" /\ chan[a] = 0 /\ Att(a[1]) # a /\ UNCHANGED queue
  /\ forwarder' = [forwarder EXCEPT ![a] = "gone"]
  /\ UNCHANGED <<sessionVars, chan, map, wireVars, loopVars, peer>>

-----------------------------------------------------------------------------
(* Mutant: the loop does not wait for the task it aborted. *)
AbortWithoutWait(a) ==
  /\ a \in map
  /\ map' = map \ {a}
  /\ UNCHANGED <<queue, forwarder, chan, wireVars>>

(* A task that is dropped no longer waits for the mutex, or gives it back.  *)
Leave(q, p) == IF p \in Range(q) THEN RemoveAt(q, CHOOSE i \in DOMAIN q : q[i] = p) ELSE q

(* handle.abort and handle.await: the task is dropped wherever it waits,    *)
(* in the middle of a frame too, and gives the mutex back.                  *)
Abort(a) ==
  /\ a \in map
  /\ map' = map \ {a}
  /\ forwarder' = [forwarder EXCEPT ![a] = "gone"]
  /\ chan' = [chan EXCEPT ![a] = 0]
  /\ queue' = Leave(queue, a)
  /\ torn' = (torn \/ (frame.by = a /\ frame.done < FrameSize))
  /\ UNCHANGED <<frame, room>>

(* Mutant: whose attachment is current is not checked. *)
ReleaseAny(a) ==
  /\ current' = [current EXCEPT ![a[1]] = 0]
  /\ UNCHANGED <<count, dead, ours>>

(* registry.detach clears the attachment only if it is the current one.     *)
Release(a) ==
  /\ current' = IF Att(a[1]) = a THEN [current EXCEPT ![a[1]] = 0] ELSE current
  /\ UNCHANGED <<count, dead, ours>>

Handle(op, a) == loop = "read" /\ peer = "open" /\ request' = [op |-> op, att |-> a]
Respond == loop' = "respond" /\ queue' = Append(queue, Loop)

(* A request that does not concern the forwarders, or fails.                *)
Serve ==
  /\ Handle("serve", Loop)
  /\ Respond
  /\ UNCHANGED <<sessionVars, taskVars, wireVars, fence, peer>>

(* AttachSession, EnsureSession and SpawnSession: the registry attaches,    *)
(* then the session's former forwarders are aborted.                        *)
Attach(s) ==
  /\ Handle("attach", <<s, count[s] + 1>>)
  /\ NewAttachment(s)
  /\ ours' = ours \union {<<s, count[s] + 1>>}
  /\ loop' = "abort"
  /\ UNCHANGED <<taskVars, queue, wireVars, fence, peer>>

(* KillSession: the session is removed first.                               *)
Kill(s) ==
  /\ Handle("kill", <<s, count[s]>>)
  /\ count[s] > 0
  /\ dead' = dead \union {s} /\ current' = [current EXCEPT ![s] = 0]
  /\ loop' = "abort"
  /\ UNCHANGED <<count, ours, taskVars, queue, wireVars, fence, peer>>

DetachRequest(s) ==
  /\ Handle("detach", <<s, count[s]>>)
  /\ loop' = "abort"
  /\ UNCHANGED <<sessionVars, taskVars, queue, wireVars, fence, peer>>

(* One forwarder of the session after the other ...                         *)
AbortOne(a) ==
  /\ loop = "abort" /\ a[1] = request.att[1]
  /\ Abort(a)
  /\ IF request.op = "detach" THEN Release(a) ELSE UNCHANGED sessionVars
  /\ UNCHANGED <<loopVars, peer>>

(* ... then a new attachment's forwarder is spawned, and the response sent. *)
AbortDone ==
  /\ loop = "abort" /\ \A a \in map : a[1] # request.att[1]
  /\ IF request.op = "attach"
       THEN /\ forwarder' = [forwarder EXCEPT ![request.att] = "recv"]
            /\ map' = map \union {request.att}
       ELSE UNCHANGED <<forwarder, map>>
  /\ Respond
  /\ UNCHANGED <<sessionVars, chan, wireVars, request, fence, peer>>

(* What the response to the request tells the client has ended.             *)
Ended == IF request.op = "attach" THEN request.att[2] - 1 ELSE request.att[2]
Answer ==
  IF Completed
    THEN /\ loop' = "read" /\ request' = NoRequest
         /\ fence' = IF request.op \in {"attach", "kill", "detach"}
                       THEN [fence EXCEPT ![request.att[1]] = Max({@, Ended})] ELSE fence
    ELSE UNCHANGED loopVars

(* Mutant: the response is written without the mutex. *)
SendResponseUnlocked ==
  /\ loop = "respond" /\ room > 0 /\ peer = "open"
  /\ LET n == Min({room, FrameSize - Started(Loop)}) IN
       /\ frame' = [by |-> Loop, done |-> Started(Loop) + n] /\ room' = room - n
  /\ torn' = FALSE
  /\ queue' = IF Completed THEN Leave(queue, Loop) ELSE queue
  /\ Answer
  /\ UNCHANGED <<sessionVars, taskVars, peer>>

(* send_response.                                                           *)
SendResponse ==
  /\ Holds(Loop)
  /\ Write(Loop)
  /\ Answer
  /\ UNCHANGED <<sessionVars, taskVars, peer>>

(* The loop ends with a response it cannot write, with the client's end of  *)
(* the stream, and with the daemon's shutdown broadcast.                    *)
LoopEnds ==
  /\ \/ Holds(Loop) /\ peer = "closed" /\ queue' = Tail(queue)
     \/ loop = "read" /\ UNCHANGED queue
  /\ loop' = "cleanup" /\ request' = NoRequest
  /\ UNCHANGED <<sessionVars, taskVars, wireVars, fence, peer>>

(* Mutant: the session keeps the attachment of a connection that is gone. *)
CleanupOneKeepsAttachment(a) ==
  /\ loop = "cleanup"
  /\ Abort(a)
  /\ UNCHANGED <<sessionVars, loopVars, peer>>

(* Mutant: the tasks are awaited and not aborted. *)
CleanupOneAwaitsOnly(a) ==
  /\ loop = "cleanup" /\ a \in map /\ forwarder[a] = "gone"
  /\ map' = map \ {a}
  /\ Release(a)
  /\ UNCHANGED <<chan, forwarder, queue, wireVars, loopVars, peer>>

(* cleanup_forwarders.                                                      *)
CleanupOne(a) ==
  /\ loop = "cleanup"
  /\ Abort(a)
  /\ Release(a)
  /\ UNCHANGED <<loopVars, peer>>

CleanupDone ==
  /\ loop = "cleanup" /\ map = {}
  /\ loop' = "gone"
  /\ UNCHANGED <<sessionVars, taskVars, queue, wireVars, request, fence, peer>>

-----------------------------------------------------------------------------
(* The client.                                                              *)
Read ==
  /\ peer = "open" /\ room < SockCap
  /\ room' = room + 1
  /\ UNCHANGED <<sessionVars, taskVars, queue, frame, torn, loopVars, peer>>

Close ==
  /\ peer = "open"
  /\ peer' = "closed"
  /\ UNCHANGED <<sessionVars, taskVars, queue, wireVars, loopVars>>

-----------------------------------------------------------------------------
Requests == Serve \/ \E s \in Sessions : Attach(s) \/ Kill(s) \/ DetachRequest(s)
Forwarder(a) == ForwardRecv(a) \/ ForwardWrite(a) \/ ForwardEnd(a)
RequestLoop ==
  \/ AbortDone \/ SendResponse \/ (loop # "read" /\ LoopEnds) \/ CleanupDone
  \/ \E a \in Atts : AbortOne(a) \/ CleanupOne(a)

Next == \/ \E s \in Sessions : Emit(s) \/ Exit(s) \/ OtherAttaches(s)
        \/ Requests \/ RequestLoop \/ LoopEnds
        \/ \E a \in Atts : Forwarder(a)
        \/ Read \/ Close

Spec == Init /\ [][Next]_vars

(* The runtime runs the tasks, and the client reads until it closes.        *)
Fairness ==
  /\ WF_vars(RequestLoop) /\ \A a \in Atts : WF_vars(Forwarder(a))
  /\ WF_vars(Read) /\ WF_vars(peer = "closed" /\ LoopEnds)
FairSpec == Spec /\ Fairness

-----------------------------------------------------------------------------
(* The variables have their types; who waits for the mutex is in its queue  *)
(* exactly once, and no other is.                                           *)
TypeOK ==
  /\ count \in [Sessions -> 0 .. MaxAttach] /\ current \in [Sessions -> 0 .. MaxAttach]
  /\ dead \subseteq Sessions /\ ours \subseteq Atts /\ map \subseteq ours
  /\ chan \in [Atts -> 0 .. ChanCap]
  /\ forwarder \in [Atts -> {"none", "recv", "write", "gone"}]
  /\ loop \in {"read", "abort", "respond", "cleanup", "gone"}
  /\ request \in [op : {"serve", "attach", "kill", "detach"},
                  att : (Sessions \X (0 .. MaxAttach)) \union {Loop}] \union {NoRequest}
  /\ queue \in Seq(Atts \union {Loop}) /\ IsInjective(queue)
  /\ Range(queue) = {a \in Atts : forwarder[a] = "write"}
                    \union (IF loop = "respond" THEN {Loop} ELSE {})
  /\ frame \in [by : Atts \union {Loop}, done : 1 .. FrameSize]
  /\ torn \in BOOLEAN /\ room \in 0 .. SockCap
  /\ fence \in [Sessions -> 0 .. MaxAttach] /\ peer \in {"open", "closed"}

StartsFrame == frame' # frame /\ (frame'.by # frame.by \/ frame.done = FrameSize)

(* A frame starts only after the one before is complete, unless an abort    *)
(* tore that one: the mutex keeps frames of tasks that run apart.           *)
TornOnlyByAbort == [][StartsFrame => frame.done = FrameSize \/ torn]_vars

(* The module's doc says that serializing writes on a mutex "keeps frame    *)
(* bytes from interleaving on the wire". Refuted: an aborted forwarder      *)
(* leaves half a frame, and the response follows it.                        *)
FramesWhole == [][StartsFrame => frame.done = FrameSize]_vars

(* Once the client was told that an attachment has ended - killed, detached *)
(* or replaced - no output of it starts on the wire.                        *)
NoLateOutput ==
  [][\A a \in Atts : StartsFrame /\ frame'.by = a => a[2] > fence[a[1]]]_vars

(* A connection that is gone leaves no forwarder running and no session     *)
(* attached to it.                                                          *)
CleanDisconnect == loop = "gone" =>
  /\ \A a \in Atts : forwarder[a] \in {"none", "gone"}
  /\ \A s \in Sessions : Att(s) \notin ours

(* Only the end of its session takes another connection's attachment away,  *)
(* whatever this connection aborts, detaches and cleans up.                 *)
OthersStayAttached ==
  [][\A s \in Sessions :
       current[s] # 0 /\ Att(s) \notin ours /\ current'[s] = 0 => s \in dead']_vars

(* Output never starves the responses, and a request always comes to its    *)
(* end ...                                                                  *)
RequestsFinish == loop \in {"abort", "respond"} ~> loop \in {"read", "cleanup"}

(* ... as does a connection the client closed.                              *)
ClosedIsCleaned == peer = "closed" ~> loop = "gone"
=============================================================================
