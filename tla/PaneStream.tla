------------------------------- MODULE PaneStream ------------------------------
(***************************************************************************)
(* The way of a session's output from the daemon to the reader of a pane:   *)
(* the forwarder of the connection's attachment (daemon/handler.rs), the    *)
(* wire, the client's reader_loop (client/mod.rs), the bounded event        *)
(* channel, and the shim's event_loop with its OutputRoutes (src/pty.rs).   *)
(* Responses overtake outputs: reader_loop hands them straight to the       *)
(* waiting worker, outputs queue up in the event channel first.             *)
(*                                                                          *)
(* A chunk is named by its number in its session's output; a snapshot holds *)
(* every chunk up to the number it was taken at. One connection is          *)
(* modelled; its k-th attachment of a session feeds the k-th reader. Frames *)
(* arrive whole here: ConnectionWire shows when they do not.                *)
(***************************************************************************)
EXTENDS Naturals, Sequences, Functions, FiniteSets

CONSTANTS
  Sessions,
  MaxOut,       \* bound: chunks any session emits
  Quota,        \* bound: chunks each session emits
  MaxAttach,    \* attachments of a session on this connection
  ChanCap,      \* capacity of an attachment's channel, 64 in the code
  WireCap,      \* frames the connection's socket holds
  EventCap,     \* capacity of the event channel, 64 in the code
  Budget,       \* MAX_PENDING_BYTES, in chunks
  ChunkLimit    \* MAX_PENDING_CHUNKS_PER_SESSION

ASSUME QuotaAssumption == Quota \in [Sessions -> 1 .. MaxOut]
ASSUME BoundsAssumption ==
  /\ MaxOut \in Nat \ {0} /\ MaxAttach \in Nat \ {0} /\ ChanCap \in Nat \ {0}
  /\ WireCap \in Nat \ {0} /\ EventCap \in Nat \ {0} /\ Budget \in Nat \ {0} /\ ChunkLimit \in Nat \ {0}

VARIABLES
  shell,        \* daemon: "none", "live" or "dead", per session
  out,          \* daemon: chunks emitted so far
  chan,         \* daemon: chunks in the channel of the current attachment
  attached,     \* daemon: number of that attachment, 0 for none
  request,      \* the worker's request: "none", "sent", "ok" or "failed"
  wire,         \* frames from the daemon
  events,       \* the event channel
  sink,         \* OutputRoutes.sinks: number of the reader, 0 for none
  pending,      \* OutputRoutes.pending
  pendingBytes, \* OutputRoutes.pending_bytes
  work,         \* the command the worker carries out
  answer,       \* the response it received
  count,        \* readers made for a session
  reader,       \* per reader: "none", "open" or "dropped"
  base,         \* per reader: its snapshot's last chunk
  got,          \* per reader: the chunks it was sent
  lost          \* history: chunks dropped at a full channel or evicted from pending

daemonVars == <<shell, out, chan, attached>>
routeVars  == <<sink, pending, pendingBytes>>
readerVars == <<count, reader, base, got>>
rpcVars    == <<request, work, answer>>
vars == <<daemonVars, rpcVars, wire, events, routeVars, readerVars, lost>>

Readers == 1 .. MaxAttach
(* usize::saturating_sub.                                                   *)
SaturatingSub(m, n) == IF m >= n THEN m - n ELSE 0

NoWork == [op |-> "none", session |-> "none"]
Busy(op) == work.op = op

Init ==
  /\ shell \in [Sessions -> {"none", "live"}]
  /\ out = [s \in Sessions |-> IF shell[s] = "live" THEN 1 ELSE 0]
  /\ chan = [s \in Sessions |-> <<>>] /\ attached = [s \in Sessions |-> 0]
  /\ request = "none" /\ work = NoWork /\ answer = "none"
  /\ wire = <<>> /\ events = <<>>
  /\ sink = [s \in Sessions |-> 0]
  /\ pending = [s \in Sessions |-> <<>>] /\ pendingBytes = 0
  /\ count = [s \in Sessions |-> 0]
  /\ reader = [s \in Sessions |-> [k \in Readers |-> "none"]]
  /\ base = [s \in Sessions |-> [k \in Readers |-> 0]]
  /\ got = [s \in Sessions |-> [k \in Readers |-> <<>>]]
  /\ lost = [s \in Sessions |-> {}]

-----------------------------------------------------------------------------
(* try_send: a chunk that finds the channel of its attachment full is       *)
(* dropped.                                                                 *)
Offer(s, n) ==
  IF Len(chan[s]) < ChanCap
    THEN chan' = [chan EXCEPT ![s] = Append(@, n)] /\ UNCHANGED lost
    ELSE lost' = [lost EXCEPT ![s] = @ \union {n}] /\ UNCHANGED chan

(* The daemon's side. A session parses a chunk and offers it to its current *)
(* attachment, if it has one (PtySession has the detail).                   *)
Emit(s) ==
  /\ shell[s] = "live" /\ out[s] < Quota[s]
  /\ out' = [out EXCEPT ![s] = @ + 1]
  /\ IF attached[s] = 0 THEN UNCHANGED <<chan, lost>> ELSE Offer(s, out[s] + 1)
  /\ UNCHANGED <<shell, attached, rpcVars, wire, events, routeVars, readerVars>>

(* forward_output writes a frame, once the socket has room.                 *)
Forward(s) ==
  /\ chan[s] # <<>> /\ Len(wire) < WireCap
  /\ wire' = Append(wire, [kind |-> "output", session |-> s, chunk |-> Head(chan[s])])
  /\ chan' = [chan EXCEPT ![s] = Tail(@)]
  /\ UNCHANGED <<shell, out, attached, rpcVars, events, routeVars, readerVars, lost>>

Exit(s) ==
  /\ shell[s] = "live"
  /\ shell' = [shell EXCEPT ![s] = "dead"]
  /\ UNCHANGED <<out, chan, attached, rpcVars, wire, events, routeVars, readerVars, lost>>

(* EnsureSession and AttachSession: a new attachment and its snapshot in    *)
(* one step, the old forwarder aborted, a new one spawned. A spawned shell  *)
(* starts with an empty screen.                                             *)
DaemonAttach ==
  /\ request = "sent" /\ work.op \in {"ensure", "attach"}
  /\ LET s == work.session IN
     IF shell[s] = "live" \/ (Busy("ensure") /\ shell[s] = "none")
       THEN /\ shell' = [shell EXCEPT ![s] = "live"]
            /\ attached' = [attached EXCEPT ![s] = count[s]]
            /\ chan' = [chan EXCEPT ![s] = <<>>]
            /\ base' = [base EXCEPT ![s][count[s]] = out[s]]
            /\ request' = "ok"
       ELSE request' = "failed" /\ UNCHANGED <<shell, attached, chan, base>>
  /\ UNCHANGED <<out, work, answer, wire, events, routeVars, count, reader, got, lost>>

(* KillSession: the session is removed and its forwarders aborted.          *)
DaemonKill ==
  /\ request = "sent" /\ Busy("kill")
  /\ LET s == work.session IN
       /\ shell' = [shell EXCEPT ![s] = IF @ = "live" THEN "dead" ELSE @]
       /\ attached' = [attached EXCEPT ![s] = 0]
       /\ chan' = [chan EXCEPT ![s] = <<>>]
  /\ request' = "ok"
  /\ UNCHANGED <<out, work, answer, wire, events, routeVars, readerVars, lost>>

(* send_response, after the forwarder was spawned.                          *)
Respond ==
  /\ request \in {"ok", "failed"} /\ Len(wire) < WireCap
  /\ wire' = Append(wire, [kind |-> "response", result |-> request])
  /\ request' = "none"
  /\ UNCHANGED <<daemonVars, work, answer, events, routeVars, readerVars, lost>>

-----------------------------------------------------------------------------
(* reader_loop: a response completes its request, an output waits for room  *)
(* in the event channel.                                                    *)
ReadFrame ==
  /\ wire # <<>>
  /\ \/ Head(wire).kind = "response" /\ answer' = Head(wire).result /\ UNCHANGED events
     \/ /\ Head(wire).kind = "output" /\ Len(events) < EventCap
        /\ events' = Append(events, Head(wire))
        /\ UNCHANGED answer
  /\ wire' = Tail(wire)
  /\ UNCHANGED <<daemonVars, request, work, routeVars, readerVars, lost>>

(* A chunk for a session with a sink; a dropped reader takes its sink along *)
(* and the chunk.                                                           *)
ToSink(s, n) ==
  LET k == sink[s] IN
  /\ IF reader[s][k] = "open"
       THEN got' = [got EXCEPT ![s][k] = Append(@, n)] /\ UNCHANGED sink
       ELSE sink' = [sink EXCEPT ![s] = 0] /\ UNCHANGED got
  /\ UNCHANGED <<pending, pendingBytes, lost>>

(* The pending chunks after one was evicted for lack of budget: of any      *)
(* session, since the map's first entry is arbitrary.                       *)
Evicted == IF pendingBytes < Budget THEN {pending}
           ELSE {[pending EXCEPT ![t] = Tail(@)] : t \in {u \in Sessions : pending[u] # <<>>}}

(* ... and for one without: kept, within the budget and the chunk limit.    *)
ToPending(s, n) ==
  \E p \in Evicted :
    LET full == Len(p[s]) >= ChunkLimit
        kept == IF full THEN Tail(p[s]) ELSE p[s] IN
    /\ pending' = [p EXCEPT ![s] = Append(kept, n)]
    /\ LET left == SaturatingSub(pendingBytes, IF p = pending THEN 0 ELSE 1) IN
         pendingBytes' = SaturatingSub(left, IF full THEN 1 ELSE 0) + 1
    /\ lost' = [t \in Sessions |-> lost[t] \union
                  (Range(pending[t]) \ (IF t = s THEN Range(kept) ELSE Range(p[t])))]
    /\ UNCHANGED <<sink, got>>

(* Mutant: a chunk without a sink waits for one. *)
EventLoopWaits ==
  /\ events # <<>>
  /\ LET s == Head(events).session  n == Head(events).chunk IN
       sink[s] # 0 /\ ToSink(s, n)
  /\ events' = Tail(events)
  /\ UNCHANGED <<daemonVars, rpcVars, wire, count, reader, base>>

(* event_loop: the next output goes to its sink, or is kept for it.         *)
EventLoop ==
  /\ events # <<>>
  /\ LET s == Head(events).session  n == Head(events).chunk IN
       IF sink[s] # 0 THEN ToSink(s, n) ELSE ToPending(s, n)
  /\ events' = Tail(events)
  /\ UNCHANGED <<daemonVars, rpcVars, wire, count, reader, base>>

-----------------------------------------------------------------------------
(* Mutant: the pending chunks are dropped. *)
InstallDiscards(s, k) ==
  /\ sink' = [sink EXCEPT ![s] = k]
  /\ pending' = [pending EXCEPT ![s] = <<>>]
  /\ pendingBytes' = SaturatingSub(pendingBytes, Len(pending[s]))
  /\ UNCHANGED got

(* install_output_sink: the sink is registered and the pending chunks are   *)
(* drained into it; a dropped reader loses both.                            *)
Install(s, k) ==
  /\ IF reader[s][k] = "open"
       THEN /\ sink' = [sink EXCEPT ![s] = k]
            /\ got' = [got EXCEPT ![s][k] = @ \o pending[s]]
       ELSE /\ sink' = [sink EXCEPT ![s] = IF pending[s] = <<>> THEN k ELSE 0]
            /\ UNCHANGED got
  /\ pending' = [pending EXCEPT ![s] = <<>>]
  /\ pendingBytes' = SaturatingSub(pendingBytes, Len(pending[s]))

(* Mutant: removing a route forgets what was buffered for it. *)
RemoveRouteKeepsBytes(s) ==
  /\ sink' = [sink EXCEPT ![s] = 0]
  /\ pending' = [pending EXCEPT ![s] = <<>>]
  /\ UNCHANGED pendingBytes

(* remove_output_route.                                                     *)
RemoveRoute(s) ==
  /\ sink' = [sink EXCEPT ![s] = 0]
  /\ pending' = [pending EXCEPT ![s] = <<>>]
  /\ pendingBytes' = SaturatingSub(pendingBytes, Len(pending[s]))

Send(op, s) ==
  /\ work' = [op |-> op, session |-> s]
  /\ request' = "sent"
  /\ UNCHANGED <<daemonVars, answer, wire, events, base, lost>>

NewReader(s) ==
  /\ count[s] < MaxAttach
  /\ count' = [count EXCEPT ![s] = @ + 1]

(* Command::Ensure: the session is known only with the response.            *)
EnsureBegin(s) ==
  /\ Busy("none") /\ shell[s] # "dead"
  /\ NewReader(s)
  /\ reader' = [reader EXCEPT ![s][count[s] + 1] = "open"]
  /\ Send("ensure", s)
  /\ UNCHANGED <<routeVars, got>>

(* Mutant: the chunks buffered for the session are not drained. *)
EnsureDoneUninstalled ==
  /\ Busy("ensure") /\ answer # "none"
  /\ work' = NoWork /\ answer' = "none"
  /\ IF answer = "ok"
       THEN LET s == work.session IN
            /\ sink' = [sink EXCEPT ![s] = count[s]]
            /\ UNCHANGED <<pending, pendingBytes, got, reader>>
       ELSE /\ reader' = [reader EXCEPT ![work.session][count[work.session]] = "dropped"]
            /\ UNCHANGED <<routeVars, got>>
  /\ UNCHANGED <<daemonVars, request, wire, events, count, base, lost>>

(* SessionEnsured, or an error: the reader is dropped with the call.        *)
EnsureDone ==
  /\ Busy("ensure") /\ answer # "none"
  /\ work' = NoWork /\ answer' = "none"
  /\ IF answer = "ok"
       THEN Install(work.session, count[work.session]) /\ UNCHANGED reader
       ELSE /\ reader' = [reader EXCEPT ![work.session][count[work.session]] = "dropped"]
            /\ UNCHANGED <<routeVars, got>>
  /\ UNCHANGED <<daemonVars, request, wire, events, count, base, lost>>

(* Command::Attach, of a session the connecting shim has listed, once: its  *)
(* sink is registered before the request. The new reader is open.           *)
AttachBegin(s) ==
  /\ Busy("none") /\ shell[s] # "none" /\ count[s] = 0
  /\ NewReader(s)
  /\ reader' = [reader EXCEPT ![s][count[s] + 1] = "open"]
  /\ sink' = [sink EXCEPT ![s] = count[s] + 1]
  /\ got' = [got EXCEPT ![s][count[s] + 1] = pending[s]]
  /\ pending' = [pending EXCEPT ![s] = <<>>]
  /\ pendingBytes' = SaturatingSub(pendingBytes, Len(pending[s]))
  /\ Send("attach", s)

(* SessionAttached, or an error: the route is removed.                      *)
AttachDone ==
  /\ Busy("attach") /\ answer # "none"
  /\ work' = NoWork /\ answer' = "none"
  /\ IF answer = "ok"
       THEN UNCHANGED <<routeVars, reader>>
       ELSE /\ RemoveRoute(work.session)
            /\ reader' = [reader EXCEPT ![work.session][count[work.session]] = "dropped"]
  /\ UNCHANGED <<daemonVars, request, wire, events, count, base, got, lost>>

(* Command::Kill and KillAck: the route goes before the request.            *)
KillBegin(s) ==
  /\ Busy("none") /\ shell[s] # "none"
  /\ RemoveRoute(s)
  /\ Send("kill", s)
  /\ UNCHANGED <<count, reader, got>>

KillDone ==
  /\ Busy("kill") /\ answer # "none"
  /\ work' = NoWork /\ answer' = "none"
  /\ UNCHANGED <<daemonVars, request, wire, events, routeVars, readerVars, lost>>

(* A pane drops the reader a call returned to it, at any time.              *)
DropReader(s, k) ==
  /\ reader[s][k] = "open"
  /\ ~(work.op \in {"ensure", "attach"} /\ work.session = s /\ count[s] = k)
  /\ reader' = [reader EXCEPT ![s][k] = "dropped"]
  /\ UNCHANGED <<daemonVars, rpcVars, wire, events, routeVars, count, base, got, lost>>

-----------------------------------------------------------------------------
Daemon == (\E s \in Sessions : Forward(s)) \/ DaemonAttach \/ DaemonKill \/ Respond
Shim == EnsureDone \/ AttachDone \/ KillDone

Next == \/ \E s \in Sessions : Emit(s) \/ Exit(s) \/ EnsureBegin(s) \/ AttachBegin(s) \/ KillBegin(s)
        \/ \E s \in Sessions, k \in Readers : DropReader(s, k)
        \/ Daemon \/ ReadFrame \/ EventLoop \/ Shim

Spec == Init /\ [][Next]_vars

(* The daemon serves the connection, and the tasks of the client run. The   *)
(* writer's mutex is first come, first served (ConnectionWire has it): a    *)
(* forwarder gets its turn although responses take the room meanwhile.      *)
Fairness ==
  /\ \A s \in Sessions : SF_vars(Forward(s))
  /\ WF_vars(DaemonAttach \/ DaemonKill \/ Respond)
  /\ WF_vars(ReadFrame) /\ WF_vars(EventLoop) /\ WF_vars(Shim)
FairSpec == Spec /\ Fairness

-----------------------------------------------------------------------------
Chunks == 1 .. MaxOut
Outputs == [kind : {"output"}, session : Sessions, chunk : Chunks]
Frames == Outputs \union [kind : {"response"}, result : {"ok", "failed"}]
Responses == {i \in DOMAIN wire : wire[i].kind = "response"}

(* The variables have their types, and at most one response is under way,   *)
(* for the one request the worker waits for.                                *)
TypeOK ==
  /\ shell \in [Sessions -> {"none", "live", "dead"}] /\ out \in [Sessions -> 0 .. MaxOut]
  /\ chan \in [Sessions -> Seq(Chunks)] /\ \A s \in Sessions : Len(chan[s]) <= ChanCap
  /\ attached \in [Sessions -> 0 .. MaxAttach]
  /\ work \in [op : {"ensure", "attach", "kill"}, session : Sessions] \union {NoWork}
  /\ request \in {"none", "sent", "ok", "failed"} /\ answer \in {"none", "ok", "failed"}
  /\ wire \in Seq(Frames) /\ Len(wire) <= WireCap
  /\ \A i, j \in Responses : i = j
  /\ ~Busy("none") <=> (request # "none" \/ Responses # {} \/ answer # "none")
  /\ events \in Seq(Outputs) /\ Len(events) <= EventCap
  /\ sink \in [Sessions -> 0 .. MaxAttach] /\ pending \in [Sessions -> Seq(Chunks)]
  /\ pendingBytes \in Nat
  /\ count \in [Sessions -> 0 .. MaxAttach]
  /\ reader \in [Sessions -> [Readers -> {"none", "open", "dropped"}]]
  /\ base \in [Sessions -> [Readers -> 0 .. MaxOut]]
  /\ got \in [Sessions -> [Readers -> Seq(Chunks)]]
  /\ lost \in [Sessions -> SUBSET Chunks]

(* Every buffered chunk, as its session and its place in the buffer p.      *)
Buffers(p) == UNION {{s} \X DOMAIN p[s] : s \in Sessions}

(* The count of buffered bytes is what is buffered, within the budget and   *)
(* the limit per session, and a session that has a sink buffers nothing.    *)
PendingAccounted ==
  /\ pendingBytes = Cardinality(Buffers(pending))
  /\ pendingBytes <= Budget
  /\ \A s \in Sessions : Len(pending[s]) <= ChunkLimit /\ (sink[s] # 0 => pending[s] = <<>>)

Before(s, k, i) == IF i = 1 THEN base[s][k] ELSE got[s][k][i - 1]

(* What a reader is sent follows its snapshot without a gap or a repetition *)
(* but for chunks dropped at a full channel and chunks that overran the     *)
(* buffer, as long as the session was not attached a second time on the     *)
(* connection.                                                              *)
ExactStream == \A s \in Sessions : count[s] <= 1 => \A i \in DOMAIN got[s][1] :
  /\ got[s][1][i] > Before(s, 1, i)
  /\ (Before(s, 1, i) + 1) .. (got[s][1][i] - 1) \subseteq lost[s]

(* attach_with_snapshot promises that a chunk is either in the snapshot or  *)
(* delivered to the new attachment, never both. Refuted for the second      *)
(* attachment on a connection: chunks of the first one, still in the event  *)
(* channel or buffered, reach the new sink, and until Ensure's response is  *)
(* handled the new attachment's chunks go to the sink of the first.         *)
ReattachExact == \A s \in Sessions, k \in Readers :
  LET new == {n \in Range(got[s][k]) : n > base[s][k]} IN
  /\ Range(got[s][k]) = new
  /\ attached[s] = k => \A n \in new : (base[s][k] + 1) .. n \subseteq new \union lost[s]

(* The worker's request is always answered: outputs ahead of the response   *)
(* never block it, full event channel or not.                               *)
RequestAnswered == ~Busy("none") ~> Busy("none")

(* Every chunk of an attachment reaches its reader, unless the reader is    *)
(* dropped, the session killed, or the chunk found the attachment's channel *)
(* full or overran the buffer.                                              *)
ChunksArrive == \A s \in Sessions, n \in Chunks :
  (attached[s] = 1 /\ base[s][1] < n /\ n <= out[s])
    ~> (n \in Range(got[s][1]) \/ reader[s][1] = "dropped" \/ attached[s] = 0 \/ n \in lost[s])
=============================================================================
