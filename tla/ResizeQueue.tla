------------------------------ MODULE ResizeQueue ------------------------------
(***************************************************************************)
(* The UI's shim of the daemon (DaemonPty in src/pty.rs) as far as a pane's *)
(* geometry is concerned: the sizes the UI records, the sessions it maps    *)
(* panes to, the latest-wins map of resizes that were not delivered yet,    *)
(* and the worker thread that talks to the daemon.                          *)
(*                                                                          *)
(* Every method of the shim runs under the lock of the UI's state, so the   *)
(* UI is one process. It shares only the map of pending resizes, behind a   *)
(* mutex, and the command channel with the worker. The connection is up.    *)
(***************************************************************************)
EXTENDS Naturals, Sequences

CONSTANTS
  Panes,        \* pane ids, one workspace
  Sizes,        \* geometries
  NoPane,       \* the pane of a session id that does not exist yet
  NoSize,       \* a pane whose size was never requested
  MaxSession,   \* bound: sessions of the daemon
  MaxQueue      \* bound: commands in the channel

ASSUME NoPaneAssumption == NoPane \notin Panes
ASSUME NoSizeAssumption == NoSize \notin Sizes
ASSUME BoundsAssumption == MaxSession \in Nat \ {0} /\ MaxQueue \in Nat

VARIABLES
  size,         \* pane_sizes
  mapped,       \* Inner.sessions, 0 for none
  cache,        \* reattach_cache, 0 for none
  pending,      \* PendingResizes.by_pane
  flushQueued,  \* PendingResizes.flush_queued
  queue,        \* the command channel
  ui,           \* what the UI thread does next
  asked,        \* the pane and size of the blocking call it waits for
  reply,        \* the session the worker answered with, 0 for an error
  lister,       \* a SessionLister of a background thread
  worker,       \* what the worker does next
  batch,        \* the requests it took
  owner,        \* daemon: per session id the pane key it was spawned for
  live,         \* daemon: the sessions that run
  geometry      \* daemon: the size of each session's terminal

uiVars     == <<size, mapped, cache, ui, asked>>
resizeVars == <<pending, flushQueued>>
workVars   == <<worker, batch>>
daemonVars == <<owner, live, geometry>>
vars == <<uiVars, resizeVars, queue, reply, lister, workVars, daemonVars>>

Ids   == 1 .. MaxSession
NoReq == [session |-> 0, size |-> NoSize]
NoAsk == [pane |-> NoPane, size |-> NoSize]
Flush == [op |-> "flush", session |-> 0]

(* The daemon may already run a session of a pane, from an earlier run of   *)
(* the UI, and the connecting shim has cached it.                           *)
Init ==
  /\ \E p \in Panes \union {NoPane}, g \in Sizes :
       /\ owner = [s \in Ids |-> IF s = 1 THEN p ELSE NoPane]
       /\ live = IF p = NoPane THEN {} ELSE {1}
       /\ geometry = [s \in Ids |-> IF s = 1 /\ p # NoPane THEN g ELSE NoSize]
       /\ cache = [q \in Panes |-> IF q = p THEN 1 ELSE 0]
  /\ size = [p \in Panes |-> NoSize] /\ mapped = [p \in Panes |-> 0]
  /\ pending = [p \in Panes |-> NoReq] /\ flushQueued = FALSE
  /\ queue = <<>> /\ reply = 0 /\ lister = "none"
  /\ ui = "idle" /\ asked = NoAsk
  /\ worker = "idle" /\ batch = [p \in Panes |-> NoReq]

-----------------------------------------------------------------------------
(* Mutant: every resize sends a flush. *)
EnqueueAlwaysSends(p, s, g) ==
  /\ pending' = [pending EXCEPT ![p] = [session |-> s, size |-> g]]
  /\ flushQueued' = TRUE
  /\ ui' = "send"

(* enqueue_latest_resize, up to the release of the mutex: the newest size   *)
(* replaces the pane's, and who finds no flush queued will send one.        *)
Enqueue(p, s, g) ==
  /\ pending' = [pending EXCEPT ![p] = [session |-> s, size |-> g]]
  /\ flushQueued' = TRUE
  /\ ui' = IF flushQueued THEN "idle" ELSE "send"

NoEnqueue == UNCHANGED resizeVars /\ ui' = "idle"

(* ... and its send.                                                        *)
SendFlush ==
  /\ ui = "send"
  /\ queue' = Append(queue, Flush)
  /\ ui' = "idle"
  /\ UNCHANGED <<size, mapped, cache, asked, resizeVars, reply, lister, workVars, daemonVars>>

(* resize: recorded in any case, enqueued when it is a change for a pane    *)
(* that has a session.                                                      *)
Resize(p, g) ==
  /\ ui = "idle"
  /\ size' = [size EXCEPT ![p] = g]
  /\ IF mapped[p] # 0 /\ size[p] # g THEN Enqueue(p, mapped[p], g) ELSE NoEnqueue
  /\ UNCHANGED <<mapped, cache, asked, queue, reply, lister, workVars, daemonVars>>

(* A blocking call: its command is queued and the UI waits for the reply.   *)
Call(op, s, p, g) ==
  /\ Len(queue) < MaxQueue
  /\ queue' = Append(queue, [op |-> op, session |-> s])
  /\ asked' = [pane |-> p, size |-> g]
  /\ ui' = op
  /\ UNCHANGED <<size, mapped, resizeVars, reply, lister, workVars, daemonVars>>

(* spawn_in, with the size the caller measured.                             *)
Spawn(p, g) == ui = "idle" /\ Call("spawn", 0, p, g) /\ UNCHANGED cache

(* attach_or_spawn: a cached session is attached, else Ensure decides.      *)
AttachOrSpawn(p, g) ==
  /\ ui = "idle"
  /\ cache' = [cache EXCEPT ![p] = 0]
  /\ Call(IF cache[p] # 0 THEN "attach" ELSE "ensure", cache[p], p, g)

(* The cached session no longer exists (NotFound): Ensure decides.          *)
AttachMissed ==
  /\ ui = "attached" /\ reply = 0
  /\ Call("ensure", 0, asked.pane, asked.size)
  /\ UNCHANGED cache

(* Mutant: a queued resize of the former session survives the remap. *)
ReplaceSessionKeepsPending(p, s) ==
  /\ mapped' = [mapped EXCEPT ![p] = s]
  /\ UNCHANGED pending

(* replace_pane_session: the pending resize of another session is dropped.  *)
ReplaceSession(p, s) ==
  /\ mapped' = [mapped EXCEPT ![p] = s]
  /\ pending' = IF mapped[p] \notin {0, s} THEN [pending EXCEPT ![p] = NoReq] ELSE pending

(* Mutant: what the call was made with counts as the session's size. *)
MustPushTrusting(p, spawnedWith) == size[p] # NoSize /\ spawnedWith = NoSize

(* push_recorded_size: the size on record differs from the session's size,  *)
(* or nothing is known of that one.                                         *)
MustPush(p, spawnedWith) == size[p] \notin {NoSize, spawnedWith}

(* The reply of Spawn, Ensure or Attach: the pane is mapped, and the size   *)
(* on record pushed. Attach does not say which size the session has.        *)
Reply ==
  /\ ui \in {"spawned", "ensured", "attached"} /\ reply # 0
  /\ LET p == asked.pane
         spawnedWith == IF ui = "attached" THEN NoSize ELSE asked.size IN
       \/ /\ MustPush(p, spawnedWith)
          /\ mapped' = [mapped EXCEPT ![p] = reply]
          /\ Enqueue(p, reply, size[p])
       \/ /\ ~MustPush(p, spawnedWith)
          /\ ReplaceSession(p, reply)
          /\ UNCHANGED flushQueued
          /\ ui' = "idle"
  /\ asked' = NoAsk /\ reply' = 0
  /\ UNCHANGED <<size, cache, queue, lister, workVars, daemonVars>>

(* Spawn and Ensure failed: nothing was mapped.                             *)
ReplyError ==
  /\ ui \in {"spawned", "ensured"} /\ reply = 0
  /\ ui' = "idle" /\ asked' = NoAsk
  /\ UNCHANGED <<size, mapped, cache, resizeVars, queue, reply, lister, workVars, daemonVars>>

(* destroy: the pane is forgotten and its session's kill queued.            *)
Destroy(p) ==
  /\ ui = "idle" /\ Len(queue) < MaxQueue
  /\ size' = [size EXCEPT ![p] = NoSize]
  /\ pending' = [pending EXCEPT ![p] = NoReq]
  /\ mapped' = [mapped EXCEPT ![p] = 0]
  /\ queue' = IF mapped[p] = 0 THEN queue
                               ELSE Append(queue, [op |-> "kill", session |-> mapped[p]])
  /\ UNCHANGED <<cache, ui, asked, flushQueued, reply, lister, workVars, daemonVars>>

Unmap(s)  == [p \in Panes |-> IF mapped[p] = s THEN 0 ELSE mapped[p]]
Discard(s) == [p \in Panes |-> IF pending[p].session = s THEN NoReq ELSE pending[p]]

(* kill_session_id: the panes keep their recorded size.                     *)
KillSession(s) ==
  /\ ui = "idle" /\ Len(queue) < MaxQueue
  /\ owner[s] # NoPane
  /\ mapped' = Unmap(s) /\ pending' = Discard(s)
  /\ queue' = Append(queue, [op |-> "kill", session |-> s])
  /\ UNCHANGED <<size, cache, ui, asked, flushQueued, reply, lister, workVars, daemonVars>>

(* kill_session_id_blocking.                                                *)
KillBlocking(s) ==
  /\ ui = "idle" /\ owner[s] # NoPane
  /\ Call("killack", s, NoPane, NoSize)
  /\ UNCHANGED cache

(* Acknowledged: only now are the panes unmapped.                           *)
KillAcked ==
  /\ ui = "killed"
  /\ mapped' = Unmap(reply) /\ pending' = Discard(reply)
  /\ ui' = "idle" /\ asked' = NoAsk /\ reply' = 0
  /\ UNCHANGED <<size, cache, flushQueued, queue, lister, workVars, daemonVars>>

(* After two seconds the caller gives up; the kill stays queued.            *)
KillTimeout ==
  /\ ui \in {"killack", "killed"}
  /\ ui' = "idle" /\ asked' = NoAsk /\ reply' = 0
  /\ UNCHANGED <<size, mapped, cache, resizeVars, queue, lister, workVars, daemonVars>>

(* Drop for DaemonPty: the sender goes, and the worker is joined.           *)
Drop ==
  /\ ui = "idle"
  /\ ui' = "joining"
  /\ UNCHANGED <<size, mapped, cache, asked, resizeVars, queue, reply, lister, workVars, daemonVars>>

(* A background thread takes a clone of the sender, lists, and drops it     *)
(* with the answer or after two seconds.                                    *)
TakeLister ==
  /\ ui = "idle" /\ lister = "none"
  /\ lister' = "held"
  /\ UNCHANGED <<uiVars, resizeVars, queue, reply, workVars, daemonVars>>

ListerSend ==
  /\ lister = "held" /\ Len(queue) < MaxQueue
  /\ lister' = "sent"
  /\ queue' = Append(queue, [op |-> "list", session |-> 0])
  /\ UNCHANGED <<uiVars, resizeVars, reply, workVars, daemonVars>>

ListerDrop ==
  /\ lister = "sent"
  /\ lister' = "none"
  /\ UNCHANGED <<uiVars, resizeVars, queue, reply, workVars, daemonVars>>

-----------------------------------------------------------------------------
Command(op) == worker = "idle" /\ queue # <<>> /\ Head(queue).op = op
Answered(state, s) == ui' = state /\ reply' = s
(* The daemon knows the session of a pane's key.                            *)
LiveOf(p) == {s \in live : owner[s] = p}

(* The registry of the daemon starts a session under the next id.           *)
CreateSession(p, g) ==
  \E s \in Ids :
    /\ owner[s] = NoPane /\ \A t \in 1 .. (s - 1) : owner[t] # NoPane
    /\ owner' = [owner EXCEPT ![s] = p]
    /\ live' = live \union {s}
    /\ geometry' = [geometry EXCEPT ![s] = g]
    /\ reply' = s

WorkSpawn ==
  /\ Command("spawn")
  /\ queue' = Tail(queue)
  /\ ui' = "spawned"
  /\ \/ LiveOf(asked.pane) = {} /\ CreateSession(asked.pane, asked.size)
     \/ reply' = 0 /\ UNCHANGED daemonVars
  /\ UNCHANGED <<size, mapped, cache, asked, resizeVars, lister, workVars>>

(* Ensure resizes the session it finds to the size of the call.             *)
WorkEnsure ==
  /\ Command("ensure")
  /\ queue' = Tail(queue)
  /\ ui' = "ensured"
  /\ \/ LiveOf(asked.pane) = {} /\ CreateSession(asked.pane, asked.size)
     \/ \E s \in LiveOf(asked.pane) :
          /\ geometry' = [geometry EXCEPT ![s] = asked.size]
          /\ reply' = s
          /\ UNCHANGED <<owner, live>>
     \/ reply' = 0 /\ UNCHANGED daemonVars
  /\ UNCHANGED <<size, mapped, cache, asked, resizeVars, lister, workVars>>

WorkAttach ==
  /\ Command("attach")
  /\ queue' = Tail(queue)
  /\ Answered("attached", IF Head(queue).session \in live THEN Head(queue).session ELSE 0)
  /\ UNCHANGED <<size, mapped, cache, asked, resizeVars, lister, workVars, daemonVars>>

WorkKill ==
  /\ Command("kill")
  /\ queue' = Tail(queue)
  /\ live' = live \ {Head(queue).session}
  /\ UNCHANGED <<uiVars, resizeVars, reply, lister, workVars, owner, geometry>>

(* The acknowledgement goes to the caller unless it gave up waiting for     *)
(* this kill.                                                               *)
WorkKillAck ==
  /\ Command("killack")
  /\ queue' = Tail(queue)
  /\ live' = live \ {Head(queue).session}
  /\ IF ui = "killack" /\ \A i \in 2 .. Len(queue) : queue[i].op # "killack"
       THEN Answered("killed", Head(queue).session)
       ELSE UNCHANGED <<ui, reply>>
  /\ UNCHANGED <<size, mapped, cache, asked, resizeVars, lister, workVars, owner, geometry>>

WorkList ==
  /\ Command("list")
  /\ queue' = Tail(queue)
  /\ UNCHANGED <<uiVars, resizeVars, reply, lister, workVars, daemonVars>>

(* FlushResizes takes the whole map and leaves flush_queued set ...         *)
TakeBatch ==
  /\ Command("flush")
  /\ queue' = Tail(queue)
  /\ batch' = pending
  /\ pending' = [p \in Panes |-> NoReq]
  /\ worker' = "deliver"
  /\ UNCHANGED <<uiVars, flushQueued, reply, lister, daemonVars>>

(* ... delivers one request after the other; a session that is gone refuses *)
(* its resize ...                                                           *)
Deliver(p) ==
  /\ worker = "deliver" /\ batch[p] # NoReq
  /\ geometry' = IF batch[p].session \in live
                   THEN [geometry EXCEPT ![batch[p].session] = batch[p].size]
                   ELSE geometry
  /\ batch' = [batch EXCEPT ![p] = NoReq]
  /\ UNCHANGED <<uiVars, resizeVars, queue, reply, lister, worker, owner, live>>

(* Mutant: flush_queued is cleared without a look at the map. *)
SettleForgets ==
  /\ worker = "deliver" /\ \A p \in Panes : batch[p] = NoReq
  /\ flushQueued' = FALSE /\ worker' = "idle"
  /\ UNCHANGED <<uiVars, pending, queue, reply, lister, batch, daemonVars>>

(* Mutant: a follow-up is sent whether or not it is needed. *)
SettleAlwaysFollows ==
  /\ worker = "deliver" /\ \A p \in Panes : batch[p] = NoReq
  /\ UNCHANGED flushQueued /\ worker' = "follow"
  /\ UNCHANGED <<uiVars, pending, queue, reply, lister, batch, daemonVars>>

(* ... and looks, under the mutex, whether a follow-up is needed.           *)
Settle ==
  /\ worker = "deliver" /\ \A p \in Panes : batch[p] = NoReq
  /\ IF \A p \in Panes : pending[p] = NoReq
       THEN flushQueued' = FALSE /\ worker' = "idle"
       ELSE UNCHANGED flushQueued /\ worker' = "follow"
  /\ UNCHANGED <<uiVars, pending, queue, reply, lister, batch, daemonVars>>

SendFollowUp ==
  /\ worker = "follow"
  /\ queue' = Append(queue, Flush)
  /\ worker' = "idle"
  /\ UNCHANGED <<uiVars, resizeVars, reply, lister, batch, daemonVars>>

(* The channel is closed: no sender is left, neither the UI's, nor one a    *)
(* lister holds, nor one a queued flush carries.                            *)
WorkerEnds ==
  /\ worker = "idle" /\ queue = <<>>
  /\ ui = "joining" /\ lister = "none"
  /\ worker' = "gone"
  /\ UNCHANGED <<uiVars, resizeVars, queue, reply, lister, batch, daemonVars>>

(* A shell exits, or another client kills it.                               *)
SessionEnds(s) ==
  /\ s \in live
  /\ live' = live \ {s}
  /\ UNCHANGED <<uiVars, resizeVars, queue, reply, lister, workVars, owner, geometry>>

-----------------------------------------------------------------------------
User == \/ \E p \in Panes, g \in Sizes : Resize(p, g) \/ Spawn(p, g) \/ AttachOrSpawn(p, g)
        \/ \E p \in Panes : Destroy(p)
        \/ \E s \in Ids : KillSession(s) \/ KillBlocking(s)
        \/ KillTimeout \/ Drop \/ TakeLister
(* What the UI thread does without the user.                                *)
UiThread == SendFlush \/ Reply \/ ReplyError \/ AttachMissed \/ KillAcked
Lister == ListerSend \/ ListerDrop
Worker == \/ WorkSpawn \/ WorkEnsure \/ WorkAttach \/ WorkKill \/ WorkKillAck \/ WorkList
          \/ TakeBatch \/ (\E p \in Panes : Deliver(p)) \/ Settle \/ SendFollowUp
          \/ WorkerEnds

Next == User \/ UiThread \/ Lister \/ Worker \/ \E s \in Ids : SessionEnds(s)

Spec == Init /\ [][Next]_vars

(* The threads run, and the daemon answers.                                 *)
Fairness == WF_vars(Worker) /\ WF_vars(UiThread) /\ WF_vars(Lister)
FairSpec == Spec /\ Fairness

-----------------------------------------------------------------------------
Requests == [session : Ids, size : Sizes] \union {NoReq}
Ops == {"flush", "spawn", "ensure", "attach", "kill", "killack", "list"}

(* The variables have their types, and the UI's blocking call is known      *)
(* exactly while it waits.                                                  *)
TypeOK ==
  /\ size \in [Panes -> Sizes \union {NoSize}]
  /\ mapped \in [Panes -> Ids \union {0}] /\ cache \in [Panes -> Ids \union {0}]
  /\ pending \in [Panes -> Requests] /\ batch \in [Panes -> Requests]
  /\ flushQueued \in BOOLEAN
  /\ queue \in Seq([op : Ops, session : Ids \union {0}])
  /\ ui \in {"idle", "send", "spawn", "ensure", "attach", "killack",
             "spawned", "ensured", "attached", "killed", "joining"}
  /\ asked \in [pane : Panes, size : Sizes] \union {NoAsk}
  /\ ui \in {"spawn", "ensure", "attach", "spawned", "ensured", "attached"} <=> asked # NoAsk
  /\ reply \in Ids \union {0}
  /\ lister \in {"none", "held", "sent"}
  /\ worker \in {"idle", "deliver", "follow", "gone"}
  /\ owner \in [Ids -> Panes \union {NoPane}]
  /\ live \subseteq {s \in Ids : owner[s] # NoPane}
  /\ geometry \in [Ids -> Sizes \union {NoSize}]

(* Flushes that are queued, about to be sent, or being carried out.         *)
Flushes ==
  {i \in 1 .. Len(queue) : queue[i].op = "flush"}
  \union (IF ui = "send" THEN {0} ELSE {})
  \union (IF worker \in {"deliver", "follow"} THEN {Len(queue) + 1} ELSE {})

(* No wakeup is lost and none is doubled: flush_queued says exactly that    *)
(* one flush is on its way or in progress, and a resize waits only then.    *)
OneFlush ==
  /\ flushQueued <=> Flushes # {}
  /\ \A i, j \in Flushes : i = j
  /\ (\E p \in Panes : pending[p] # NoReq) => flushQueued

(* A pending resize is for the session its pane shows and has the size on   *)
(* record, whatever was remapped, killed, reattached or destroyed since.    *)
PendingIsCurrent == \A p \in Panes :
  pending[p] # NoReq => pending[p] = [session |-> mapped[p], size |-> size[p]]

(* When no flush is on its way and the UI waits for nothing, every session  *)
(* a pane shows has the geometry the pane asked for last.                   *)
SettledGeometry == ~flushQueued /\ ui \in {"idle", "joining"} =>
  \A p \in Panes : mapped[p] \in live /\ size[p] # NoSize => geometry[mapped[p]] = size[p]

(* The last requested geometry reaches the session the pane shows, unless   *)
(* the pane asks for another, shows another session, or the session ends.   *)
LastSizeArrives == \A p \in Panes, g \in Sizes, s \in Ids :
  (mapped[p] = s /\ size[p] = g /\ s \in live)
    ~> (geometry[s] = g \/ mapped[p] # s \/ size[p] # g \/ s \notin live)

(* Dropping the shim never hangs on the join: the worker ends, although     *)
(* flushes carry senders and reschedule themselves.                         *)
DropJoins == ui = "joining" ~> worker = "gone"
=============================================================================
