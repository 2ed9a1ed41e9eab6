--------------------------- MODULE ResizeQueue_proofs ---------------------------
(***************************************************************************)
(* Proofs about ResizeQueue, for every set of panes and sizes and every     *)
(* bound on sessions and commands.                                          *)
(*                                                                          *)
(* The invariant says what the worker's steps may rely on while the UI      *)
(* thread waits for a reply, and where a size that has not arrived yet is.  *)
(***************************************************************************)
EXTENDS ResizeQueue, TLAPS

Blocking == {"spawn", "ensure", "attach"}

(* The UI waits for the one blocking command in the channel.                *)
QueueShape ==
  /\ \A i \in 1 .. Len(queue) :
       /\ queue[i].op \in Blocking => ui = queue[i].op
       /\ queue[i].op \in {"attach", "kill", "killack"} => queue[i].session \in Ids
       /\ queue[i].op = "attach" => owner[queue[i].session] = asked.pane
  /\ \A i, j \in 1 .. Len(queue) :
       queue[i].op \in Blocking /\ queue[j].op \in Blocking => i = j

(* A session a pane shows, remembers, is being given or sends a size to is  *)
(* of that pane.                                                            *)
OwnerShape ==
  /\ \A p \in Panes :
       /\ mapped[p] # 0 => owner[mapped[p]] = p
       /\ cache[p] # 0 => owner[cache[p]] = p
       /\ batch[p] # NoReq => owner[batch[p].session] = p
  /\ ui \in {"spawned", "ensured", "attached"} /\ reply # 0 => owner[reply] = asked.pane

BatchShape == worker # "deliver" => \A p \in Panes : batch[p] = NoReq

(* A size is in the map, in the worker's hands, or at the session, or the   *)
(* UI thread is about to learn that Ensure resized the session.             *)
OnItsWay(p) ==
  \/ pending[p] # NoReq
  \/ batch[p] = [session |-> mapped[p], size |-> size[p]]
  \/ geometry[mapped[p]] = size[p] /\ batch[p].session # mapped[p]
  \/ ui = "ensured" /\ reply = mapped[p]
SizeShape == \A p \in Panes : mapped[p] \in live /\ size[p] # NoSize => OnItsWay(p)

(* A session the daemon has just answered with has the size of the call, or *)
(* the size on record if a batch went by since.                             *)
ReplyShape ==
  ui \in {"spawned", "ensured"} /\ reply # 0 =>
    /\ geometry[reply] \in {asked.size, size[asked.pane]}
    /\ batch[asked.pane].session = reply => batch[asked.pane].size = size[asked.pane]

IInv == /\ TypeOK /\ QueueShape /\ OwnerShape /\ BatchShape /\ OneFlush /\ PendingIsCurrent
        /\ SizeShape /\ ReplyShape

USE BoundsAssumption, NoPaneAssumption, NoSizeAssumption

-----------------------------------------------------------------------------
LEMMA TypeInit == Init => TypeOK
<1>. SUFFICES ASSUME Init PROVE TypeOK
  OBVIOUS
<1>. USE DEF Init
<1>1. /\ size \in [Panes -> Sizes \union {NoSize}] /\ mapped \in [Panes -> Ids \union {0}]
      /\ cache \in [Panes -> Ids \union {0}]
  <2>1. ASSUME NEW p \in Panes \union {NoPane},
               cache = [q \in Panes |-> IF q = p THEN 1 ELSE 0], p # NoPane => 1 \in Ids
        PROVE  cache \in [Panes -> Ids \union {0}]
    BY <2>1
  <2>. QED
    BY <2>1 DEF Ids
<1>2. /\ pending \in [Panes -> Requests] /\ batch \in [Panes -> Requests]
      /\ queue \in Seq([op : Ops, session : Ids \union {0}])
  BY DEF Requests
<1>3. /\ owner \in [Ids -> Panes \union {NoPane}]
      /\ live \subseteq {s \in Ids : owner[s] # NoPane}
      /\ geometry \in [Ids -> Sizes \union {NoSize}]
  BY DEF Ids
<1>. QED
  BY <1>1, <1>2, <1>3 DEF TypeOK, NoAsk

(* A session that is created gets an id nobody has, and touches no other.   *)
LEMMA Created ==
  ASSUME TypeOK, NEW p \in Panes, NEW g \in Sizes, CreateSession(p, g)
  PROVE  /\ reply' \in Ids /\ owner[reply'] = NoPane /\ reply' \notin live
         /\ owner' = [owner EXCEPT ![reply'] = p] /\ owner' \in [Ids -> Panes \union {NoPane}]
         /\ live' = live \union {reply'} /\ live' \subseteq {s \in Ids : owner'[s] # NoPane}
         /\ geometry' = [geometry EXCEPT ![reply'] = g]
         /\ geometry' \in [Ids -> Sizes \union {NoSize}]
BY DEF CreateSession, TypeOK

(* Types rest on the shape of the queue: the worker that takes a blocking   *)
(* command knows that the UI waits for it.                                  *)
LEMMA TypeStep == TypeOK /\ QueueShape /\ [Next]_vars => TypeOK'
<1>. SUFFICES ASSUME TypeOK, QueueShape, [Next]_vars PROVE TypeOK'
  OBVIOUS
<1>. USE DEF TypeOK, uiVars, resizeVars, workVars, daemonVars
<1>. DEFINE Commands == [op : Ops, session : Ids \union {0}]
<1>0. /\ 0 \notin Ids /\ NoReq \in Requests /\ NoAsk \notin [pane : Panes, size : Sizes]
      /\ Flush \in Commands
  BY DEF Ids, NoReq, Requests, NoAsk, Flush, Ops
<1>1. ASSUME NEW p \in Panes, NEW g \in Sizes, Resize(p, g) PROVE TypeOK'
  <2>1. CASE mapped[p] # 0 /\ size[p] # g
    BY <1>0, <1>1, <2>1 DEF Resize, Enqueue, Requests
  <2>2. CASE ~(mapped[p] # 0 /\ size[p] # g)
    BY <1>0, <1>1, <2>2 DEF Resize, NoEnqueue
  <2>. QED
    BY <2>1, <2>2
<1>2. ASSUME NEW p \in Panes, NEW g \in Sizes, Spawn(p, g) PROVE TypeOK'
  BY <1>0, <1>2 DEF Spawn, Call, Ops
<1>3. ASSUME NEW p \in Panes, NEW g \in Sizes, AttachOrSpawn(p, g) PROVE TypeOK'
  BY <1>0, <1>3 DEF AttachOrSpawn, Call, Ops
<1>4. ASSUME NEW p \in Panes, Destroy(p) PROVE TypeOK'
  <2>1. CASE mapped[p] = 0
    BY <1>0, <1>4, <2>1 DEF Destroy
  <2>2. CASE mapped[p] # 0
    BY <1>0, <1>4, <2>2 DEF Destroy, Ops
  <2>. QED
    BY <2>1, <2>2
<1>5. ASSUME NEW s \in Ids, KillSession(s) PROVE TypeOK'
  BY <1>0, <1>5 DEF KillSession, Unmap, Discard, Ops
<1>6. ASSUME NEW s \in Ids, KillBlocking(s) PROVE TypeOK'
  BY <1>0, <1>6 DEF KillBlocking, Call, NoAsk, Ops
<1>7. CASE KillTimeout
  BY <1>0, <1>7 DEF KillTimeout
<1>8. CASE Drop \/ TakeLister \/ ListerDrop
  BY <1>0, <1>8 DEF Drop, TakeLister, ListerDrop
<1>9. CASE SendFlush
  BY <1>0, <1>9 DEF SendFlush
<1>10. CASE Reply
  <2>. DEFINE p == asked.pane
  <2>1. p \in Panes /\ reply \in Ids
    BY <1>10 DEF Reply
  <2>2. ASSUME Enqueue(p, reply, size[p]), size[p] # NoSize, mapped' = [mapped EXCEPT ![p] = reply]
        PROVE  TypeOK'
    BY <1>0, <1>10, <2>1, <2>2 DEF Reply, Enqueue, Requests
  <2>3. ASSUME ReplaceSession(p, reply), UNCHANGED flushQueued, ui' = "idle"
        PROVE  TypeOK'
    BY <1>0, <1>10, <2>1, <2>3 DEF Reply, ReplaceSession
  <2>. QED
    BY <1>10, <2>2, <2>3 DEF Reply, MustPush
<1>11. CASE ReplyError
  BY <1>0, <1>11 DEF ReplyError
<1>12. CASE AttachMissed
  BY <1>0, <1>12 DEF AttachMissed, Call, Ops
<1>13. CASE KillAcked
  BY <1>0, <1>13 DEF KillAcked, Unmap, Discard
<1>14. CASE ListerSend
  BY <1>0, <1>14 DEF ListerSend, Ops
<1>15. CASE WorkSpawn
  <2>1. ui = "spawn" /\ asked \in [pane : Panes, size : Sizes] /\ queue' \in Seq(Commands)
    BY <1>15 DEF WorkSpawn, Command, QueueShape, Blocking
  <2>2. CASE CreateSession(asked.pane, asked.size)
    BY <1>0, <1>15, <2>1, <2>2, Created DEF WorkSpawn
  <2>3. CASE reply' = 0 /\ UNCHANGED daemonVars
    BY <1>0, <1>15, <2>1, <2>3 DEF WorkSpawn
  <2>. QED
    BY <1>15, <2>2, <2>3 DEF WorkSpawn
<1>16. CASE WorkEnsure
  <2>1. ui = "ensure" /\ asked \in [pane : Panes, size : Sizes] /\ queue' \in Seq(Commands)
    BY <1>16 DEF WorkEnsure, Command, QueueShape, Blocking
  <2>2. CASE CreateSession(asked.pane, asked.size)
    BY <1>0, <1>16, <2>1, <2>2, Created DEF WorkEnsure
  <2>3. ASSUME NEW s \in LiveOf(asked.pane), geometry' = [geometry EXCEPT ![s] = asked.size],
               reply' = s, UNCHANGED <<owner, live>>
        PROVE  TypeOK'
    BY <1>0, <1>16, <2>1, <2>3 DEF WorkEnsure, LiveOf
  <2>4. CASE reply' = 0 /\ UNCHANGED daemonVars
    BY <1>0, <1>16, <2>1, <2>4 DEF WorkEnsure
  <2>. QED
    BY <1>16, <2>2, <2>3, <2>4 DEF WorkEnsure
<1>17. CASE WorkAttach
  BY <1>0, <1>17 DEF WorkAttach, Command, Answered, QueueShape, Blocking
<1>18. CASE WorkKill \/ WorkList
  <2>1. Tail(queue) \in Seq(Commands)
    BY <1>18 DEF WorkKill, WorkList, Command
  <2>2. CASE WorkKill
    BY <1>0, <2>1, <2>2 DEF WorkKill
  <2>3. CASE WorkList
    BY <1>0, <2>1, <2>3 DEF WorkList
  <2>. QED
    BY <1>18, <2>2, <2>3
<1>19. CASE WorkKillAck
  BY <1>0, <1>19 DEF WorkKillAck, Command, Answered, QueueShape
<1>20. CASE TakeBatch
  BY <1>0, <1>20 DEF TakeBatch, Command
<1>21. ASSUME NEW p \in Panes, Deliver(p) PROVE TypeOK'
  BY <1>0, <1>21 DEF Deliver, Requests, NoReq
<1>22. CASE Settle
  BY <1>0, <1>22 DEF Settle
<1>23. CASE SendFollowUp
  BY <1>0, <1>23 DEF SendFollowUp
<1>24. CASE WorkerEnds
  BY <1>0, <1>24 DEF WorkerEnds
<1>25. ASSUME NEW s \in Ids, SessionEnds(s) PROVE TypeOK'
  BY <1>0, <1>25 DEF SessionEnds
<1>26. CASE UNCHANGED vars
  BY <1>26 DEF vars
<1>. QED
  BY <1>1, <1>2, <1>3, <1>4, <1>5, <1>6, <1>7, <1>8, <1>9, <1>10, <1>11, <1>12, <1>13,
     <1>14, <1>15, <1>16, <1>17, <1>18, <1>19, <1>20, <1>21, <1>22, <1>23, <1>24, <1>25,
     <1>26 DEF Next, User, UiThread, Lister, Worker
-----------------------------------------------------------------------------
(* The owner of a session never changes. *)
OwnersKept == \A s \in Ids : owner[s] # NoPane => owner'[s] = owner[s]

LEMMA OwnersStep == TypeOK /\ QueueShape /\ [Next]_vars => OwnersKept
<1>. SUFFICES ASSUME TypeOK, QueueShape, [Next]_vars PROVE OwnersKept
  OBVIOUS
<1>1. CASE WorkSpawn
  <2>1. asked.pane \in Panes /\ asked.size \in Sizes
    BY <1>1 DEF WorkSpawn, Command, QueueShape, Blocking, TypeOK
  <2>2. CASE UNCHANGED daemonVars
    BY <2>2 DEF OwnersKept, daemonVars
  <2>3. CASE CreateSession(asked.pane, asked.size)
    BY <2>1, <2>3, Created DEF OwnersKept, TypeOK
  <2>. QED
    BY <1>1, <2>2, <2>3 DEF WorkSpawn
<1>2. CASE WorkEnsure
  <2>1. asked.pane \in Panes /\ asked.size \in Sizes
    BY <1>2 DEF WorkEnsure, Command, QueueShape, Blocking, TypeOK
  <2>. QED
    BY <1>2, <2>1, Created DEF WorkEnsure, OwnersKept, daemonVars, TypeOK
<1>3. CASE UNCHANGED owner
  BY <1>3 DEF OwnersKept
<1>4. User \/ UiThread \/ Lister => UNCHANGED owner
  BY DEF User, Resize, Spawn, AttachOrSpawn, Call, Destroy, KillSession, KillBlocking,
     KillTimeout, Drop, TakeLister, UiThread, SendFlush, Reply, ReplyError, AttachMissed,
     KillAcked, Lister, ListerSend, ListerDrop, daemonVars
<1>5. Worker => WorkSpawn \/ WorkEnsure \/ UNCHANGED owner
  BY DEF Worker, WorkAttach, WorkKill, WorkKillAck, WorkList, TakeBatch, Deliver, Settle,
     SendFollowUp, WorkerEnds, daemonVars
<1>. QED
  BY <1>1, <1>2, <1>3, <1>4, <1>5 DEF Next, SessionEnds, vars, daemonVars

(* The UI waits for the command it waited for, or for none before. *)
Waiting == UNCHANGED <<ui, asked>> \/ ui \notin Blocking

LEMMA QueueKept ==
  ASSUME TypeOK, QueueShape, OwnersKept, Waiting, UNCHANGED queue
  PROVE  QueueShape'
BY DEF TypeOK, QueueShape, OwnersKept, Waiting, Blocking

LEMMA QueueTaken ==
  ASSUME TypeOK, QueueShape, OwnersKept, queue # <<>>, queue' = Tail(queue),
         Waiting \/ Head(queue).op \in Blocking
  PROVE  QueueShape'
<1>1. /\ Len(queue') = Len(queue) - 1
      /\ \A i \in 1 .. Len(queue') : queue'[i] = queue[i + 1] /\ i + 1 \in 1 .. Len(queue)
      /\ 1 \in 1 .. Len(queue) /\ Head(queue) = queue[1]
  BY DEF TypeOK
<1>2. ASSUME NEW i \in 1 .. Len(queue') 
      PROVE /\ queue'[i].op \in Blocking => ui' = queue'[i].op
            /\ queue'[i].op \in {"attach", "kill", "killack"} => queue'[i].session \in Ids
            /\ queue'[i].op = "attach" => owner'[queue'[i].session] = asked'.pane
  <2>1. queue'[i].op \in Blocking => UNCHANGED <<ui, asked>>
    BY <1>1 DEF QueueShape, Waiting
  <2>2. queue'[i].op = "attach" => asked.pane \in Panes
    BY <1>1 DEF QueueShape, Blocking, TypeOK
  <2>. QED
    BY <1>1, <2>1, <2>2 DEF QueueShape, Blocking, OwnersKept
<1>. QED
  BY <1>1, <1>2 DEF QueueShape

LEMMA QueueAppended ==
  ASSUME TypeOK, QueueShape, OwnersKept, NEW c \in [op : Ops, session : Ids \union {0}],
         queue' = Append(queue, c),
         c.op \in {"attach", "kill", "killack"} => c.session \in Ids,
         \/ c.op \notin Blocking /\ Waiting
         \/ /\ c.op \in Blocking /\ ui \notin Blocking /\ ui' = c.op
            /\ c.op = "attach" => owner'[c.session] = asked'.pane
  PROVE  QueueShape'
<1>1. /\ Len(queue') = Len(queue) + 1 /\ queue'[Len(queue')] = c
      /\ \A i \in 1 .. Len(queue) : queue'[i] = queue[i]
      /\ \A i \in 1 .. Len(queue') : i \in 1 .. Len(queue) \/ i = Len(queue')
  BY DEF TypeOK
<1>2. ASSUME NEW i \in 1 .. Len(queue') 
      PROVE /\ queue'[i].op \in Blocking => ui' = queue'[i].op
            /\ queue'[i].op \in {"attach", "kill", "killack"} => queue'[i].session \in Ids
            /\ queue'[i].op = "attach" => owner'[queue'[i].session] = asked'.pane
  <2>1. CASE i = Len(queue')
    BY <1>1, <2>1 DEF Blocking
  <2>2. CASE i \in 1 .. Len(queue)
    <3>1. queue'[i].op \in Blocking => UNCHANGED <<ui, asked>>
      BY <1>1, <2>2 DEF QueueShape, Waiting
    <3>2. queue'[i].op = "attach" => asked.pane \in Panes
      BY <1>1, <2>2 DEF QueueShape, Blocking, TypeOK
    <3>. QED
      BY <1>1, <2>2, <3>1, <3>2 DEF QueueShape, Blocking, OwnersKept
  <2>. QED
    BY <1>1, <2>1, <2>2
<1>3. ASSUME NEW i \in 1 .. Len(queue'), NEW j \in 1 .. Len(queue'),
             queue'[i].op \in Blocking, queue'[j].op \in Blocking
      PROVE i = j
  BY <1>1, <1>3 DEF QueueShape
<1>. QED
  BY <1>2, <1>3 DEF QueueShape
(* Who waits for what: at most one blocking command is in the channel, and  *)
(* the session of an attach is the asking pane's.                           *)
LEMMA QueueStep == TypeOK /\ QueueShape /\ OwnerShape /\ [Next]_vars => QueueShape'
<1>. SUFFICES ASSUME TypeOK, QueueShape, OwnerShape, [Next]_vars PROVE QueueShape'
  OBVIOUS
<1>0. OwnersKept
  BY OwnersStep
<1>. USE <1>0
<1>. DEFINE Commands == [op : Ops, session : Ids \union {0}]
<1>1. ASSUME NEW p \in Panes, NEW g \in Sizes, Resize(p, g) PROVE QueueShape'
  BY <1>1, QueueKept DEF Resize, Waiting, Blocking
<1>2. ASSUME NEW p \in Panes, NEW g \in Sizes, Spawn(p, g) PROVE QueueShape'
  BY <1>2, QueueAppended DEF Spawn, Call, Blocking, Ops
<1>3. ASSUME NEW p \in Panes, NEW g \in Sizes, AttachOrSpawn(p, g) PROVE QueueShape'
  <2>1. cache[p] # 0 => cache[p] \in Ids /\ owner[cache[p]] = p /\ owner'[cache[p]] = p
    BY <1>3 DEF TypeOK, OwnerShape, OwnersKept
  <2>2. /\ [op |-> "attach", session |-> cache[p]] \in Commands
        /\ [op |-> "ensure", session |-> cache[p]] \in Commands
    BY DEF TypeOK, Ops
  <2>. QED
    BY <1>3, <2>1, <2>2, QueueAppended DEF AttachOrSpawn, Call, Blocking
<1>4. ASSUME NEW p \in Panes, Destroy(p) PROVE QueueShape'
  <2>1. CASE mapped[p] = 0
    BY <1>4, <2>1, QueueKept DEF Destroy, Waiting
  <2>2. CASE mapped[p] # 0
    BY <1>4, <2>2, QueueAppended DEF Destroy, Waiting, Blocking, Ops, TypeOK
  <2>. QED
    BY <2>1, <2>2
<1>5. ASSUME NEW s \in Ids, KillSession(s) PROVE QueueShape'
  BY <1>5, QueueAppended DEF KillSession, Waiting, Blocking, Ops
<1>6. ASSUME NEW s \in Ids, KillBlocking(s) PROVE QueueShape'
  BY <1>6, QueueAppended DEF KillBlocking, Call, Waiting, Blocking, Ops
<1>7. CASE KillTimeout \/ Drop \/ TakeLister \/ Reply \/ ReplyError \/ KillAcked \/ ListerDrop
  BY <1>7, QueueKept DEF KillTimeout, Drop, TakeLister, uiVars, Reply, ReplyError, KillAcked,
     ListerDrop, Waiting, Blocking
<1>8. CASE SendFlush
  BY <1>8, QueueAppended DEF SendFlush, Flush, Waiting, Blocking, Ops
<1>9. CASE AttachMissed
  BY <1>9, QueueAppended DEF AttachMissed, Call, Blocking, Ops
<1>10. CASE ListerSend
  BY <1>10, QueueAppended DEF ListerSend, uiVars, Waiting, Blocking, Ops
<1>11. CASE WorkSpawn \/ WorkEnsure \/ WorkAttach
  BY <1>11, QueueTaken DEF WorkSpawn, WorkEnsure, WorkAttach, Command, Blocking
<1>12. CASE WorkKill \/ WorkList \/ TakeBatch
  BY <1>12, QueueTaken DEF WorkKill, WorkList, TakeBatch, Command, uiVars, Waiting
<1>13. CASE WorkKillAck
  BY <1>13, QueueTaken DEF WorkKillAck, Command, Answered, Waiting, Blocking
<1>14. ASSUME NEW p \in Panes, Deliver(p) PROVE QueueShape'
  BY <1>14, QueueKept DEF Deliver, uiVars, Waiting
<1>15. CASE SendFollowUp
  BY <1>15, QueueAppended DEF SendFollowUp, Flush, uiVars, Waiting, Blocking, Ops
<1>16. CASE Settle \/ WorkerEnds \/ UNCHANGED vars
  BY <1>16, QueueKept DEF Settle, WorkerEnds, vars, uiVars, Waiting
<1>17. ASSUME NEW s \in Ids, SessionEnds(s) PROVE QueueShape'
  BY <1>17, QueueKept DEF SessionEnds, uiVars, Waiting
<1>. QED
  BY <1>1, <1>2, <1>3, <1>4, <1>5, <1>6, <1>7, <1>8, <1>9, <1>10, <1>11, <1>12, <1>13, <1>14,
     <1>15, <1>16, <1>17 DEF Next, User, UiThread, Lister, Worker

-----------------------------------------------------------------------------
LEMMA OwnerKept ==
  ASSUME TypeOK, OwnerShape, OwnersKept,
         \A p \in Panes : /\ mapped'[p] \in {mapped[p], 0} /\ cache'[p] \in {cache[p], 0}
                          /\ batch'[p] \in {batch[p], NoReq},
         \/ UNCHANGED <<ui, asked, reply>>
         \/ ui' \notin {"spawned", "ensured", "attached"} \/ reply' = 0
  PROVE  OwnerShape'
<1>1. ASSUME NEW p \in Panes
      PROVE  /\ mapped'[p] # 0 => owner'[mapped'[p]] = p
             /\ cache'[p] # 0 => owner'[cache'[p]] = p
             /\ batch'[p] # NoReq => owner'[batch'[p].session] = p
  <2>1. /\ mapped'[p] # 0 => mapped'[p] \in Ids /\ owner[mapped'[p]] = p
        /\ cache'[p] # 0 => cache'[p] \in Ids /\ owner[cache'[p]] = p
        /\ batch'[p] # NoReq => batch'[p].session \in Ids /\ owner[batch'[p].session] = p
    BY DEF TypeOK, OwnerShape, Requests
  <2>. QED
    BY <2>1 DEF OwnersKept
<1>2. ui' \in {"spawned", "ensured", "attached"} /\ reply' # 0 => owner'[reply'] = asked'.pane
  BY DEF TypeOK, OwnerShape, OwnersKept
<1>. QED
  BY <1>1, <1>2 DEF OwnerShape

LEMMA OwnerAnswered ==
  ASSUME TypeOK, OwnerShape, OwnersKept, UNCHANGED <<mapped, cache, batch, asked>>,
         reply' # 0 => owner'[reply'] = asked.pane
  PROVE  OwnerShape'
<1>1. ASSUME NEW p \in Panes
      PROVE  /\ mapped[p] # 0 => owner'[mapped[p]] = p
             /\ cache[p] # 0 => owner'[cache[p]] = p
             /\ batch[p] # NoReq => owner'[batch[p].session] = p
  BY DEF TypeOK, OwnerShape, OwnersKept, Requests
<1>. QED
  BY <1>1 DEF OwnerShape

LEMMA OwnerStep ==
  TypeOK /\ QueueShape /\ OwnerShape /\ PendingIsCurrent /\ [Next]_vars => OwnerShape'
<1>. SUFFICES ASSUME TypeOK, QueueShape, OwnerShape, PendingIsCurrent, [Next]_vars
              PROVE  OwnerShape'
  OBVIOUS
<1>0. OwnersKept
  BY OwnersStep
<1>. USE <1>0
<1>1. ASSUME NEW p \in Panes, NEW g \in Sizes, Resize(p, g) PROVE OwnerShape'
  BY <1>1, OwnerKept DEF Resize, Enqueue, NoEnqueue, workVars
<1>2. ASSUME NEW p \in Panes, NEW g \in Sizes, Spawn(p, g) PROVE OwnerShape'
  BY <1>2, OwnerKept DEF Spawn, Call, workVars
<1>3. ASSUME NEW p \in Panes, NEW g \in Sizes, AttachOrSpawn(p, g) PROVE OwnerShape'
  BY <1>3, OwnerKept DEF AttachOrSpawn, Call, workVars, TypeOK
<1>4. ASSUME NEW p \in Panes, Destroy(p) PROVE OwnerShape'
  BY <1>4, OwnerKept DEF Destroy, workVars, TypeOK
<1>5. ASSUME NEW s \in Ids, KillSession(s) PROVE OwnerShape'
  BY <1>5, OwnerKept DEF KillSession, Unmap, workVars
<1>6. ASSUME NEW s \in Ids, KillBlocking(s) PROVE OwnerShape'
  BY <1>6, OwnerKept DEF KillBlocking, Call, workVars
<1>7. CASE KillTimeout \/ Drop \/ TakeLister \/ SendFlush \/ ReplyError \/ ListerSend \/ ListerDrop
  BY <1>7, OwnerKept DEF KillTimeout, Drop, TakeLister, SendFlush, ReplyError, ListerSend,
     ListerDrop, uiVars, workVars
<1>8. CASE Reply
  <2>1. /\ asked.pane \in Panes /\ reply \in Ids /\ owner'[reply] = asked.pane
        /\ mapped' = [mapped EXCEPT ![asked.pane] = reply]
        /\ UNCHANGED <<cache, batch>> /\ reply' = 0
    BY <1>8 DEF Reply, ReplaceSession, TypeOK, OwnerShape, OwnersKept, workVars
  <2>2. ASSUME NEW p \in Panes
        PROVE  /\ mapped'[p] # 0 => owner'[mapped'[p]] = p
               /\ cache[p] # 0 => owner'[cache[p]] = p
               /\ batch[p] # NoReq => owner'[batch[p].session] = p
    BY <2>1 DEF TypeOK, OwnerShape, OwnersKept, Requests
  <2>. QED
    BY <2>1, <2>2 DEF OwnerShape
<1>9. CASE AttachMissed
  BY <1>9, OwnerKept DEF AttachMissed, Call, workVars
<1>10. CASE KillAcked
  BY <1>10, OwnerKept DEF KillAcked, Unmap, workVars
<1>11. CASE WorkSpawn
  <2>1. asked.pane \in Panes /\ asked.size \in Sizes
    BY <1>11 DEF WorkSpawn, Command, QueueShape, Blocking, TypeOK
  <2>2. reply' # 0 => owner'[reply'] = asked.pane
    BY <1>11, <2>1, Created DEF WorkSpawn, TypeOK
  <2>. QED
    BY <1>11, <2>2, OwnerAnswered DEF WorkSpawn, workVars
<1>12. CASE WorkEnsure
  <2>1. asked.pane \in Panes /\ asked.size \in Sizes
    BY <1>12 DEF WorkEnsure, Command, QueueShape, Blocking, TypeOK
  <2>2. reply' # 0 => owner'[reply'] = asked.pane
    BY <1>12, <2>1, Created DEF WorkEnsure, LiveOf, TypeOK
  <2>. QED
    BY <1>12, <2>2, OwnerAnswered DEF WorkEnsure, workVars
<1>13. CASE WorkAttach
  <2>1. reply' # 0 => owner'[reply'] = asked.pane
    BY <1>13 DEF WorkAttach, Command, Answered, QueueShape, TypeOK, daemonVars
  <2>. QED
    BY <1>13, <2>1, OwnerAnswered DEF WorkAttach, workVars
<1>14. CASE WorkKill \/ WorkKillAck \/ WorkList
  BY <1>14, OwnerKept DEF WorkKill, WorkKillAck, WorkList, Answered, uiVars, workVars
<1>15. CASE TakeBatch
  <2>1. UNCHANGED <<mapped, cache, ui, asked, reply>> /\ batch' = pending
    BY <1>15 DEF TakeBatch, uiVars
  <2>2. \A p \in Panes : pending[p] # NoReq => mapped[p] \in Ids /\ pending[p].session = mapped[p]
    BY DEF TypeOK, PendingIsCurrent, Requests, NoReq
  <2>3. ASSUME NEW p \in Panes
        PROVE  /\ mapped[p] # 0 => owner'[mapped[p]] = p
               /\ cache[p] # 0 => owner'[cache[p]] = p
               /\ pending[p] # NoReq => owner'[pending[p].session] = p
    BY <2>2 DEF TypeOK, OwnerShape, OwnersKept, Ids
  <2>4. ui \in {"spawned", "ensured", "attached"} /\ reply # 0 => owner'[reply] = asked.pane
    BY DEF TypeOK, OwnerShape, OwnersKept
  <2>. QED
    BY <2>1, <2>3, <2>4 DEF OwnerShape
<1>16. ASSUME NEW p \in Panes, Deliver(p) PROVE OwnerShape'
  BY <1>16, OwnerKept DEF Deliver, uiVars, TypeOK
<1>17. CASE Settle \/ SendFollowUp \/ WorkerEnds \/ UNCHANGED vars
  BY <1>17, OwnerKept DEF Settle, SendFollowUp, WorkerEnds, vars, uiVars, workVars
<1>18. ASSUME NEW s \in Ids, SessionEnds(s) PROVE OwnerShape'
  BY <1>18, OwnerKept DEF SessionEnds, uiVars, workVars
<1>. QED
  BY <1>1, <1>2, <1>3, <1>4, <1>5, <1>6, <1>7, <1>8, <1>9, <1>10, <1>11, <1>12, <1>13, <1>14,
     <1>15, <1>16, <1>17, <1>18 DEF Next, User, UiThread, Lister, Worker
-----------------------------------------------------------------------------
(* The worker's hands are empty unless it is delivering. *)
LEMMA BatchStep == TypeOK /\ BatchShape /\ [Next]_vars => BatchShape'
<1>. SUFFICES ASSUME TypeOK, BatchShape, [Next]_vars PROVE BatchShape'
  OBVIOUS
<1>1. CASE TakeBatch
  BY <1>1 DEF TakeBatch, BatchShape
<1>2. ASSUME NEW p \in Panes, Deliver(p) PROVE BatchShape'
  BY <1>2 DEF Deliver, BatchShape
<1>3. CASE Settle \/ SendFollowUp \/ WorkerEnds
  BY <1>3 DEF Settle, SendFollowUp, WorkerEnds, BatchShape
<1>4. CASE UNCHANGED workVars
  BY <1>4 DEF workVars, BatchShape
<1>5. User \/ UiThread \/ Lister => UNCHANGED workVars
  BY DEF User, Resize, Spawn, AttachOrSpawn, Call, Destroy, KillSession, KillBlocking,
     KillTimeout, Drop, TakeLister, UiThread, SendFlush, Reply, ReplyError, AttachMissed,
     KillAcked, Lister, ListerSend, ListerDrop
<1>6. WorkSpawn \/ WorkEnsure \/ WorkAttach \/ WorkKill \/ WorkKillAck \/ WorkList => UNCHANGED workVars
  BY DEF WorkSpawn, WorkEnsure, WorkAttach, WorkKill, WorkKillAck, WorkList
<1>. QED
  BY <1>1, <1>2, <1>3, <1>4, <1>5, <1>6 DEF Next, Worker, SessionEnds, vars

-----------------------------------------------------------------------------
(* OneFlush, place by place: a flush is in the channel, about to be sent by *)
(* the UI thread, or in the worker's hands.                                 *)
InQueue == {i \in 1 .. Len(queue) : queue[i].op = "flush"}
AtUi == ui = "send"
AtWorker == worker \in {"deliver", "follow"}
FlushShape ==
  /\ flushQueued <=> InQueue # {} \/ AtUi \/ AtWorker
  /\ \A i, j \in InQueue : i = j
  /\ AtUi => ~AtWorker /\ InQueue = {}
  /\ AtWorker => InQueue = {}
  /\ (\E p \in Panes : pending[p] # NoReq) => flushQueued

LEMMA FlushPlaces == ASSUME TypeOK PROVE OneFlush <=> FlushShape
<1>1. /\ Len(queue) \in Nat /\ 0 \notin InQueue /\ Len(queue) + 1 \notin InQueue
      /\ 0 # Len(queue) + 1
  BY DEF TypeOK, InQueue
<1>2. Flushes = InQueue \union (IF AtUi THEN {0} ELSE {})
                        \union (IF AtWorker THEN {Len(queue) + 1} ELSE {})
  BY DEF Flushes, InQueue, AtUi, AtWorker
<1>3. CASE AtUi /\ AtWorker
  BY <1>1, <1>2, <1>3 DEF OneFlush, FlushShape
<1>4. CASE AtUi /\ ~AtWorker
  BY <1>1, <1>2, <1>4 DEF OneFlush, FlushShape
<1>5. CASE ~AtUi /\ AtWorker
  BY <1>1, <1>2, <1>5 DEF OneFlush, FlushShape
<1>6. CASE ~AtUi /\ ~AtWorker
  BY <1>1, <1>2, <1>6 DEF OneFlush, FlushShape
<1>. QED
  BY <1>3, <1>4, <1>5, <1>6

(* What the channel holds after a send and after a receive. *)
LEMMA InQueueAppended ==
  ASSUME TypeOK, NEW c \in [op : Ops, session : Ids \union {0}], queue' = Append(queue, c)
  PROVE  /\ c.op # "flush" => InQueue' = InQueue
         /\ c.op = "flush" /\ InQueue = {} => InQueue' = {Len(queue) + 1}
<1>1. /\ Len(queue') = Len(queue) + 1 /\ queue'[Len(queue) + 1] = c /\ Len(queue) \in Nat
      /\ \A i \in 1 .. Len(queue) : queue'[i] = queue[i]
      /\ \A i : i \in 1 .. Len(queue') <=> i \in 1 .. Len(queue) \/ i = Len(queue) + 1
      /\ Len(queue) + 1 \notin 1 .. Len(queue)
  BY DEF TypeOK
<1>. QED
  BY <1>1 DEF InQueue

LEMMA InQueueTaken ==
  ASSUME TypeOK, queue # <<>>, queue' = Tail(queue)
  PROVE  /\ Head(queue).op # "flush" => (InQueue' = {} <=> InQueue = {})
         /\ (\A i, j \in InQueue : i = j) =>
               /\ \A i, j \in InQueue' : i = j
               /\ Head(queue).op = "flush" => InQueue # {} /\ InQueue' = {}
<1>1. /\ \A i \in 1 .. Len(queue') : queue'[i] = queue[i + 1] /\ i + 1 \in 1 .. Len(queue)
      /\ \A i \in 1 .. Len(queue) : i = 1 \/ (i - 1 \in 1 .. Len(queue') /\ queue'[i - 1] = queue[i])
      /\ 1 \in 1 .. Len(queue) /\ Head(queue) = queue[1]
  BY DEF TypeOK
<1>2. \A i \in InQueue' : i + 1 \in InQueue /\ i \in Nat /\ i + 1 # 1
  BY <1>1 DEF InQueue
<1>3. \A i \in InQueue : i = 1 \/ i - 1 \in InQueue'
  BY <1>1 DEF InQueue
<1>4. 1 \in InQueue <=> Head(queue).op = "flush"
  BY <1>1 DEF InQueue
<1>5. Head(queue).op # "flush" => (InQueue' = {} <=> InQueue = {})
  BY <1>2, <1>3, <1>4
<1>6. ASSUME \A i, j \in InQueue : i = j
      PROVE  /\ \A i, j \in InQueue' : i = j
             /\ Head(queue).op = "flush" => InQueue # {} /\ InQueue' = {}
  <2>1. ASSUME NEW i \in InQueue', NEW j \in InQueue' PROVE i = j
    <3>1. i + 1 = j + 1 /\ i \in Nat /\ j \in Nat
      BY <1>2, <1>6
    <3>. QED
      BY <3>1
  <2>. QED
    BY <1>2, <1>4, <1>6, <2>1
<1>. QED
  BY <1>5, <1>6

(* The steps that neither make nor move a flush. *)
SameFlush ==
  /\ flushQueued' = flushQueued /\ AtUi' = AtUi /\ AtWorker' = AtWorker
  /\ \A p \in Panes : pending'[p] \in {pending[p], NoReq}

LEMMA FlushKept ==
  ASSUME FlushShape, SameFlush, UNCHANGED queue
  PROVE  FlushShape'
BY DEF FlushShape, SameFlush, InQueue

LEMMA FlushAppended ==
  ASSUME TypeOK, FlushShape, SameFlush, NEW c \in [op : Ops, session : Ids \union {0}],
         queue' = Append(queue, c), c.op # "flush"
  PROVE  FlushShape'
BY InQueueAppended DEF FlushShape, SameFlush

LEMMA FlushTaken ==
  ASSUME TypeOK, FlushShape, SameFlush, queue # <<>>, queue' = Tail(queue), Head(queue).op # "flush"
  PROVE  FlushShape'
BY InQueueTaken DEF FlushShape, SameFlush

LEMMA FlushEnqueued ==
  ASSUME TypeOK, FlushShape, NEW p \in Panes, NEW s, NEW g, Enqueue(p, s, g),
         ~AtUi, UNCHANGED <<queue, worker>>
  PROVE  FlushShape'
BY DEF FlushShape, Enqueue, InQueue, AtUi, AtWorker
LEMMA FlushStep == TypeOK /\ QueueShape /\ FlushShape /\ [Next]_vars => FlushShape'
<1>. SUFFICES ASSUME TypeOK, QueueShape, FlushShape, [Next]_vars PROVE FlushShape'
  OBVIOUS
<1>. USE DEF SameFlush, AtUi, AtWorker, uiVars, resizeVars, workVars
<1>1. ASSUME NEW p \in Panes, NEW g \in Sizes, Resize(p, g) PROVE FlushShape'
  <2>1. CASE mapped[p] # 0 /\ size[p] # g
    BY <1>1, <2>1, FlushEnqueued DEF Resize
  <2>2. CASE ~(mapped[p] # 0 /\ size[p] # g)
    BY <1>1, <2>2, FlushKept DEF Resize, NoEnqueue
  <2>. QED
    BY <2>1, <2>2
<1>2. ASSUME NEW p \in Panes, NEW g \in Sizes, Spawn(p, g) PROVE FlushShape'
  BY <1>2, FlushAppended DEF Spawn, Call, Ops
<1>3. ASSUME NEW p \in Panes, NEW g \in Sizes, AttachOrSpawn(p, g) PROVE FlushShape'
  <2>1. /\ [op |-> "attach", session |-> cache[p]] \in [op : Ops, session : Ids \union {0}]
        /\ [op |-> "ensure", session |-> cache[p]] \in [op : Ops, session : Ids \union {0}]
    BY DEF TypeOK, Ops
  <2>. QED
    BY <1>3, <2>1, FlushAppended DEF AttachOrSpawn, Call
<1>4. ASSUME NEW p \in Panes, Destroy(p) PROVE FlushShape'
  <2>1. \A q \in Panes : pending'[q] \in {pending[q], NoReq}
    BY <1>4 DEF Destroy, TypeOK
  <2>2. CASE mapped[p] = 0
    BY <1>4, <2>1, <2>2, FlushKept DEF Destroy
  <2>3. CASE mapped[p] # 0
    BY <1>4, <2>1, <2>3, FlushAppended DEF Destroy, Ops, TypeOK
  <2>. QED
    BY <2>2, <2>3
<1>5. ASSUME NEW s \in Ids, KillSession(s) PROVE FlushShape'
  BY <1>5, FlushAppended DEF KillSession, Discard, Ops
<1>6. ASSUME NEW s \in Ids, KillBlocking(s) PROVE FlushShape'
  BY <1>6, FlushAppended DEF KillBlocking, Call, Ops
<1>7. CASE KillTimeout \/ Drop \/ TakeLister \/ ReplyError \/ ListerDrop
  BY <1>7, FlushKept DEF KillTimeout, Drop, TakeLister, ReplyError, ListerDrop
<1>8. CASE SendFlush
  <2>1. Flush \in [op : Ops, session : Ids \union {0}] /\ Flush.op = "flush"
    BY DEF Flush, Ops
  <2>2. InQueue' = {Len(queue) + 1}
    BY <1>8, <2>1, InQueueAppended DEF SendFlush, FlushShape
  <2>. QED
    BY <1>8, <2>2 DEF SendFlush, FlushShape
<1>9. CASE Reply
  <2>1. asked.pane \in Panes
    BY <1>9 DEF Reply, TypeOK
  <2>2. CASE Enqueue(asked.pane, reply, size[asked.pane])
    BY <1>9, <2>1, <2>2, FlushEnqueued DEF Reply
  <2>3. CASE ReplaceSession(asked.pane, reply) /\ UNCHANGED flushQueued /\ ui' = "idle"
    <3>1. \A q \in Panes : pending'[q] \in {pending[q], NoReq}
      BY <2>3 DEF ReplaceSession, TypeOK
    <3>. QED
      BY <1>9, <2>3, <3>1, FlushKept DEF Reply
  <2>. QED
    BY <1>9, <2>2, <2>3 DEF Reply
<1>10. CASE AttachMissed
  BY <1>10, FlushAppended DEF AttachMissed, Call, Ops
<1>11. CASE KillAcked
  BY <1>11, FlushKept DEF KillAcked, Discard
<1>12. CASE ListerSend
  BY <1>12, FlushAppended DEF ListerSend, Ops
<1>13. CASE WorkSpawn \/ WorkEnsure \/ WorkAttach
  <2>1. Command("spawn") \/ Command("ensure") \/ Command("attach")
    BY <1>13 DEF WorkSpawn, WorkEnsure, WorkAttach
  <2>2. ui \in Blocking
    BY <2>1 DEF Command, QueueShape, Blocking, TypeOK
  <2>. QED
    BY <1>13, <2>1, <2>2, FlushTaken
    DEF WorkSpawn, WorkEnsure, WorkAttach, Command, Answered, Blocking
<1>14. CASE WorkKill \/ WorkKillAck \/ WorkList
  BY <1>14, FlushTaken DEF WorkKill, WorkKillAck, WorkList, Command, Answered
<1>15. CASE TakeBatch
  BY <1>15, InQueueTaken DEF TakeBatch, Command, FlushShape
<1>16. ASSUME NEW p \in Panes, Deliver(p) PROVE FlushShape'
  BY <1>16, FlushKept DEF Deliver
<1>17. CASE Settle
  <2>1. InQueue' = InQueue
    BY <1>17 DEF Settle, InQueue
  <2>. QED
    BY <1>17, <2>1 DEF Settle, FlushShape
<1>18. CASE SendFollowUp
  <2>1. Flush \in [op : Ops, session : Ids \union {0}] /\ Flush.op = "flush"
    BY DEF Flush, Ops
  <2>2. InQueue' = {Len(queue) + 1}
    BY <1>18, <2>1, InQueueAppended DEF SendFollowUp, FlushShape
  <2>. QED
    BY <1>18, <2>2 DEF SendFollowUp, FlushShape
<1>19. CASE WorkerEnds \/ UNCHANGED vars
  BY <1>19, FlushKept DEF WorkerEnds, vars
<1>20. ASSUME NEW s \in Ids, SessionEnds(s) PROVE FlushShape'
  BY <1>20, FlushKept DEF SessionEnds
<1>. QED
  BY <1>1, <1>2, <1>3, <1>4, <1>5, <1>6, <1>7, <1>8, <1>9, <1>10, <1>11, <1>12, <1>13, <1>14,
     <1>15, <1>16, <1>17, <1>18, <1>19, <1>20 DEF Next, User, UiThread, Lister, Worker

-----------------------------------------------------------------------------
LEMMA PendingStep == TypeOK /\ PendingIsCurrent /\ [Next]_vars => PendingIsCurrent'
<1>. SUFFICES ASSUME TypeOK, PendingIsCurrent, [Next]_vars PROVE PendingIsCurrent'
  OBVIOUS
<1>0. /\ \A p \in Panes : pending[p] # NoReq => pending[p].session = mapped[p] /\ mapped[p] \in Ids
      /\ 0 \notin Ids
  BY DEF TypeOK, PendingIsCurrent, Requests, Ids
<1>1. ASSUME NEW p \in Panes, NEW g \in Sizes, Resize(p, g) PROVE PendingIsCurrent'
  BY <1>0, <1>1 DEF Resize, Enqueue, NoEnqueue, resizeVars, TypeOK, PendingIsCurrent
<1>2. ASSUME NEW p \in Panes, Destroy(p) PROVE PendingIsCurrent'
  BY <1>2 DEF Destroy, TypeOK, PendingIsCurrent
<1>3. ASSUME NEW s \in Ids, KillSession(s) PROVE PendingIsCurrent'
  BY <1>0, <1>3 DEF KillSession, Unmap, Discard, PendingIsCurrent
<1>4. CASE KillAcked
  BY <1>0, <1>4 DEF KillAcked, Unmap, Discard, PendingIsCurrent
<1>5. CASE Reply
  <2>1. asked.pane \in Panes /\ UNCHANGED size
    BY <1>5 DEF Reply, TypeOK
  <2>2. ASSUME Enqueue(asked.pane, reply, size[asked.pane]),
               mapped' = [mapped EXCEPT ![asked.pane] = reply]
        PROVE  PendingIsCurrent'
    BY <2>1, <2>2 DEF Enqueue, TypeOK, PendingIsCurrent
  <2>3. CASE ReplaceSession(asked.pane, reply)
    BY <1>0, <2>1, <2>3 DEF ReplaceSession, TypeOK, PendingIsCurrent
  <2>. QED
    BY <1>5, <2>2, <2>3 DEF Reply
<1>6. CASE TakeBatch
  BY <1>6 DEF TakeBatch, PendingIsCurrent
<1>7. CASE UNCHANGED <<pending, mapped, size>>
  BY <1>7 DEF PendingIsCurrent
<1>8. ASSUME NEW p \in Panes, NEW g \in Sizes, Spawn(p, g) \/ AttachOrSpawn(p, g)
      PROVE  UNCHANGED <<pending, mapped, size>>
  BY <1>8 DEF Spawn, AttachOrSpawn, Call, resizeVars
<1>9. ASSUME NEW s \in Ids, KillBlocking(s) PROVE UNCHANGED <<pending, mapped, size>>
  BY <1>9 DEF KillBlocking, Call, resizeVars
<1>10. KillTimeout \/ Drop \/ TakeLister \/ SendFlush \/ ReplyError \/ AttachMissed \/ Lister
         => UNCHANGED <<pending, mapped, size>>
  BY DEF KillTimeout, Drop, TakeLister, SendFlush, ReplyError, AttachMissed, Call, Lister,
     ListerSend, ListerDrop, uiVars, resizeVars
<1>11. Worker => TakeBatch \/ UNCHANGED <<pending, mapped, size>>
  BY DEF Worker, WorkSpawn, WorkEnsure, WorkAttach, WorkKill, WorkKillAck, WorkList, Deliver,
     Settle, SendFollowUp, WorkerEnds, uiVars, resizeVars
<1>12. ASSUME NEW s \in Ids, SessionEnds(s) PROVE UNCHANGED <<pending, mapped, size>>
  BY <1>12 DEF SessionEnds, uiVars, resizeVars
<1>. QED
  BY <1>1, <1>2, <1>3, <1>4, <1>5, <1>6, <1>7, <1>8, <1>9, <1>10, <1>11, <1>12
     DEF Next, User, UiThread, vars, uiVars, resizeVars
-----------------------------------------------------------------------------
(* What the worker takes from the map is current. *)
LEMMA TakenIsCurrent ==
  ASSUME TypeOK, BatchShape, PendingIsCurrent, TakeBatch, NEW p \in Panes
  PROVE  /\ batch[p] = NoReq
         /\ batch'[p] = IF pending[p] = NoReq THEN NoReq
                         ELSE [session |-> mapped[p], size |-> size[p]]
         /\ UNCHANGED <<mapped, size, live, geometry, ui, reply, asked>>
BY DEF TakeBatch, Command, BatchShape, PendingIsCurrent, uiVars, daemonVars

LEMMA ReplyStep ==
  TypeOK /\ QueueShape /\ OwnerShape /\ BatchShape /\ PendingIsCurrent /\ ReplyShape /\ [Next]_vars
    => ReplyShape'
<1>. SUFFICES ASSUME TypeOK, QueueShape, OwnerShape, BatchShape, PendingIsCurrent, ReplyShape,
                     [Next]_vars
              PROVE  ReplyShape'
  OBVIOUS
<1>1. CASE WorkSpawn \/ WorkEnsure
  <2>1. /\ asked.pane \in Panes /\ asked.size \in Sizes /\ worker = "idle"
        /\ UNCHANGED <<asked, size, batch>>
    BY <1>1 DEF WorkSpawn, WorkEnsure, Command, QueueShape, Blocking, TypeOK, workVars
  <2>2. batch[asked.pane] = NoReq
    BY <2>1 DEF BatchShape
  <2>3. reply' # 0 => reply' \in Ids /\ geometry'[reply'] = asked.size
    BY <1>1, <2>1, Created DEF WorkSpawn, WorkEnsure, LiveOf, TypeOK
  <2>. QED
    BY <2>1, <2>2, <2>3 DEF ReplyShape, NoReq, Ids
<1>2. ASSUME ui \in {"spawned", "ensured"}, reply # 0,
             UNCHANGED <<ui, reply, asked, size>>
      PROVE  asked.pane \in Panes /\ reply \in Ids /\ owner[reply] = asked.pane
  BY <1>2 DEF TypeOK, OwnerShape
<1>3. CASE TakeBatch
  <2>1. ASSUME ui \in {"spawned", "ensured"}, reply # 0
        PROVE  batch'[asked.pane] # NoReq => batch'[asked.pane].size = size[asked.pane]
    <3>1. asked.pane \in Panes
      BY <2>1 DEF TypeOK
    <3>2. batch'[asked.pane] # NoReq
            => batch'[asked.pane] = [session |-> mapped[asked.pane], size |-> size[asked.pane]]
      BY <1>3, <3>1, TakenIsCurrent
    <3>. QED
      BY <3>2
  <2>2. UNCHANGED <<ui, reply, asked, size, geometry>>
    BY <1>3 DEF TakeBatch, uiVars, daemonVars
  <2>. QED
    BY <2>1, <2>2 DEF ReplyShape, NoReq
<1>4. ASSUME NEW p \in Panes, Deliver(p) PROVE ReplyShape'
  <2>1. UNCHANGED <<ui, reply, asked, size>>
    BY <1>4 DEF Deliver, uiVars
  <2>2. ASSUME ui \in {"spawned", "ensured"}, reply # 0
        PROVE  /\ geometry'[reply] \in {asked.size, size[asked.pane]}
               /\ batch'[asked.pane].session = reply => batch'[asked.pane].size = size[asked.pane]
    <3>1. asked.pane \in Panes /\ reply \in Ids /\ owner[reply] = asked.pane
      BY <1>2, <2>1, <2>2
    <3>2. /\ batch[p] # NoReq /\ owner[batch[p].session] = p
          /\ batch' = [batch EXCEPT ![p] = NoReq]
      BY <1>4 DEF Deliver, OwnerShape
    <3>3. batch[p].session = reply => p = asked.pane /\ batch[p].size = size[asked.pane]
      BY <2>2, <3>1, <3>2 DEF ReplyShape
    <3>4. geometry'[reply] \in {geometry[reply], size[asked.pane]}
      BY <1>4, <3>1, <3>2, <3>3 DEF Deliver, TypeOK, Requests
    <3>5. batch'[asked.pane] \in {batch[asked.pane], NoReq}
      BY <3>1, <3>2 DEF TypeOK
    <3>. QED
      BY <2>2, <3>1, <3>4, <3>5 DEF ReplyShape, NoReq, Ids
  <2>. QED
    BY <2>1, <2>2 DEF ReplyShape
<1>5. CASE UNCHANGED <<ui, reply, asked, size, batch, geometry>>
  BY <1>5 DEF ReplyShape
<1>6. CASE ui' \notin {"spawned", "ensured"}
  BY <1>6 DEF ReplyShape
<1>7. User \/ UiThread => \/ UNCHANGED <<ui, reply, asked, size, batch, geometry>>
                          \/ ui' \notin {"spawned", "ensured"}
  BY DEF User, Resize, Enqueue, NoEnqueue, Spawn, AttachOrSpawn, Call, Destroy, KillSession,
     KillBlocking, KillTimeout, Drop, TakeLister, UiThread, SendFlush, Reply, ReplyError,
     AttachMissed, KillAcked, uiVars, workVars, daemonVars
<1>8. Lister \/ WorkKill \/ WorkList \/ Settle \/ SendFollowUp \/ WorkerEnds
        => UNCHANGED <<ui, reply, asked, size, batch, geometry>>
  BY DEF Lister, ListerSend, ListerDrop, WorkKill, WorkList, Settle, SendFollowUp, WorkerEnds,
     uiVars, workVars, daemonVars
<1>9. WorkAttach \/ WorkKillAck => \/ UNCHANGED <<ui, reply, asked, size, batch, geometry>>
                                   \/ ui' \notin {"spawned", "ensured"}
  BY DEF WorkAttach, WorkKillAck, Answered, workVars
<1>10. ASSUME NEW s \in Ids, SessionEnds(s)
       PROVE  UNCHANGED <<ui, reply, asked, size, batch, geometry>>
  BY <1>10 DEF SessionEnds, uiVars, workVars
<1>. QED
  BY <1>1, <1>3, <1>4, <1>5, <1>6, <1>7, <1>8, <1>9, <1>10
     DEF Next, Worker, vars, uiVars, workVars, daemonVars
-----------------------------------------------------------------------------
(* A size on its way stays on its way, or arrives.                          *)
LEMMA SizeStep ==
  TypeOK /\ QueueShape /\ OwnerShape /\ BatchShape /\ PendingIsCurrent /\ SizeShape /\ ReplyShape
    /\ [Next]_vars => SizeShape'
<1>. SUFFICES ASSUME TypeOK, QueueShape, OwnerShape, BatchShape, PendingIsCurrent, SizeShape,
                     ReplyShape, [Next]_vars, NEW q \in Panes
              PROVE  mapped'[q] \in live' /\ size'[q] # NoSize => OnItsWay(q)'
  BY DEF SizeShape
<1>. DEFINE Good == mapped'[q] \in live' /\ size'[q] # NoSize => OnItsWay(q)'
<1>0. /\ mapped[q] \in live /\ size[q] # NoSize => OnItsWay(q)
      /\ 0 \notin Ids /\ live \subseteq Ids /\ NoReq.session = 0
      /\ \A s \in Ids : \A g : [session |-> s, size |-> g] # NoReq
  BY DEF SizeShape, Ids, TypeOK, NoReq
<1>1. ASSUME NEW p \in Panes, NEW g \in Sizes, Resize(p, g) PROVE Good
  <2>1. CASE mapped[p] # 0 /\ size[p] # g
    <3>1. /\ size' = [size EXCEPT ![p] = g] /\ pending'[p] # NoReq
          /\ p # q => pending'[q] = pending[q]
          /\ UNCHANGED <<mapped, batch, live, geometry, reply>> /\ ui # "ensured"
      BY <1>0, <1>1, <2>1 DEF Resize, Enqueue, TypeOK, workVars, daemonVars
    <3>2. CASE p = q
      BY <3>1, <3>2 DEF OnItsWay
    <3>3. CASE p # q
      BY <1>0, <3>1, <3>3 DEF OnItsWay, TypeOK
    <3>. QED
      BY <3>2, <3>3
  <2>2. CASE mapped[p] = 0
    BY <1>0, <1>1, <2>2 DEF Resize, NoEnqueue, TypeOK, OnItsWay, resizeVars, workVars, daemonVars
  <2>3. CASE size[p] = g
    BY <1>0, <1>1, <2>3 DEF Resize, NoEnqueue, TypeOK, OnItsWay, resizeVars, workVars, daemonVars
  <2>. QED
    BY <2>1, <2>2, <2>3
<1>2. ASSUME NEW p \in Panes, Destroy(p) PROVE Good
  <2>1. /\ p = q => mapped'[q] = 0
        /\ p # q => mapped'[q] = mapped[q] /\ size'[q] = size[q] /\ pending'[q] = pending[q]
        /\ UNCHANGED <<batch, live, geometry, ui, reply>>
    BY <1>2 DEF Destroy, TypeOK, workVars, daemonVars
  <2>. QED
    BY <1>0, <2>1 DEF OnItsWay
<1>3. ASSUME NEW s \in Ids, KillSession(s) PROVE Good
  <2>1. /\ mapped[q] = s => mapped'[q] = 0
        /\ mapped[q] # s => mapped'[q] = mapped[q] /\ (pending[q] # NoReq => pending'[q] = pending[q])
        /\ UNCHANGED <<size, batch, live, geometry, ui, reply>>
    <3>1. pending[q] # NoReq => pending[q].session = mapped[q]
      <4>1. pending[q] # NoReq => pending[q] = [session |-> mapped[q], size |-> size[q]]
        BY DEF PendingIsCurrent
      <4>. QED
        BY <4>1
    <3>. QED
      BY <1>3, <3>1 DEF KillSession, Unmap, Discard, workVars, daemonVars
  <2>. QED
    BY <1>0, <2>1 DEF OnItsWay
<1>4. CASE KillAcked
  <2>1. /\ mapped[q] = reply => mapped'[q] = 0
        /\ mapped[q] # reply => mapped'[q] = mapped[q] /\ (pending[q] # NoReq => pending'[q] = pending[q])
        /\ UNCHANGED <<size, batch, live, geometry>> /\ ui = "killed"
    <3>1. pending[q] # NoReq => pending[q].session = mapped[q]
      <4>1. pending[q] # NoReq => pending[q] = [session |-> mapped[q], size |-> size[q]]
        BY DEF PendingIsCurrent
      <4>. QED
        BY <4>1
    <3>. QED
      BY <1>4, <3>1 DEF KillAcked, Unmap, Discard, workVars, daemonVars
  <2>. QED
    BY <1>0, <2>1 DEF OnItsWay
<1>5. CASE Reply
  <2>. DEFINE p == asked.pane
  <2>1. /\ p \in Panes /\ reply \in Ids /\ owner[reply] = p
        /\ mapped' = [mapped EXCEPT ![p] = reply]
        /\ UNCHANGED <<size, batch, live, geometry>>
    BY <1>5 DEF Reply, ReplaceSession, TypeOK, OwnerShape, workVars, daemonVars
  <2>2. CASE p # q
    <3>1. mapped[q] # reply
      BY <2>1, <2>2 DEF OwnerShape, Ids
    <3>2. pending'[q] = pending[q] /\ mapped'[q] = mapped[q]
      BY <1>5, <2>1, <2>2 DEF Reply, Enqueue, ReplaceSession, TypeOK
    <3>. QED
      BY <1>0, <2>1, <3>1, <3>2 DEF OnItsWay
  <2>3. CASE p = q /\ Enqueue(p, reply, size[p])
    BY <1>0, <2>1, <2>3 DEF Enqueue, OnItsWay, TypeOK
  <2>4. CASE p = q /\ ~MustPush(p, IF ui = "attached" THEN NoSize ELSE asked.size)
                  /\ ReplaceSession(p, reply)
    <3>1. CASE size[p] = NoSize
      BY <2>1, <2>4, <3>1
    <3>2. CASE size[p] # NoSize
      <4>1. ui \in {"spawned", "ensured"} /\ size[p] = asked.size
        BY <1>5, <2>4, <3>2 DEF MustPush, Reply
      <4>2. /\ geometry[reply] = size[p]
            /\ batch[p].session = reply => batch[p].size = size[p]
        BY <2>1, <4>1 DEF ReplyShape, Ids
      <4>3. batch[p].session = reply => batch[p] = [session |-> reply, size |-> size[p]]
        BY <1>0, <2>1, <4>2 DEF TypeOK, Requests
      <4>4. mapped'[p] = reply
        BY <2>1 DEF TypeOK
      <4>. QED
        BY <2>1, <2>4, <4>2, <4>3, <4>4 DEF OnItsWay
    <3>. QED
      BY <3>1, <3>2
  <2>. QED
    BY <1>5, <2>2, <2>3, <2>4 DEF Reply
<1>6. CASE WorkSpawn \/ WorkEnsure
  <2>1. /\ asked.pane \in Panes /\ asked.size \in Sizes /\ ui \notin {"spawned", "ensured"}
        /\ UNCHANGED <<mapped, size, pending, batch>>
    BY <1>6 DEF WorkSpawn, WorkEnsure, Command, QueueShape, Blocking, TypeOK, workVars, resizeVars
  <2>2. CASE CreateSession(asked.pane, asked.size)
    <3>1. mapped[q] # reply' /\ (mapped[q] \in live' => mapped[q] \in live /\ geometry'[mapped[q]] = geometry[mapped[q]])
      BY <2>1, <2>2, Created, <1>0 DEF OwnerShape, TypeOK
    <3>. QED
      BY <1>0, <2>1, <3>1 DEF OnItsWay
  <2>3. CASE UNCHANGED daemonVars
    BY <1>0, <2>1, <2>3 DEF OnItsWay, daemonVars
  <2>4. ASSUME WorkEnsure, NEW s \in LiveOf(asked.pane),
               geometry' = [geometry EXCEPT ![s] = asked.size], reply' = s, UNCHANGED <<owner, live>>
        PROVE  Good
    <3>1. mapped[q] # s => geometry'[mapped[q]] = geometry[mapped[q]]
      BY <2>4 DEF TypeOK
    <3>2. ui' = "ensured"
      BY <2>4 DEF WorkEnsure
    <3>. QED
      BY <1>0, <2>1, <2>4, <3>1, <3>2 DEF OnItsWay
  <2>. QED
    BY <1>6, <2>2, <2>3, <2>4 DEF WorkSpawn, WorkEnsure
<1>7. CASE TakeBatch
  <2>1. batch[q] = NoReq
    BY <1>7, TakenIsCurrent
  <2>2. batch'[q] = IF pending[q] = NoReq THEN NoReq ELSE [session |-> mapped[q], size |-> size[q]]
    BY <1>7, TakenIsCurrent
  <2>3. UNCHANGED <<mapped, size, live, geometry, ui, reply>>
    BY <1>7 DEF TakeBatch, uiVars, daemonVars
  <2>4. mapped[q] \in live => [session |-> mapped[q], size |-> size[q]] # NoReq
    BY <1>0
  <2>. QED
    BY <1>0, <2>1, <2>2, <2>3, <2>4 DEF OnItsWay
<1>8. ASSUME NEW p \in Panes, Deliver(p) PROVE Good
  <2>1. /\ UNCHANGED <<mapped, size, pending, live, ui, reply>>
        /\ batch[p] # NoReq /\ batch[p].session \in Ids /\ owner[batch[p].session] = p
        /\ batch' = [batch EXCEPT ![p] = NoReq]
    BY <1>8 DEF Deliver, OwnerShape, TypeOK, Requests, uiVars, resizeVars
  <2>2. CASE p # q
    <3>1. mapped[q] # batch[p].session
      BY <2>1, <2>2 DEF OwnerShape, Ids
    <3>2. mapped[q] \in live => geometry'[mapped[q]] = geometry[mapped[q]]
      BY <1>8, <3>1 DEF Deliver, TypeOK
    <3>3. batch'[q] = batch[q]
      BY <2>1, <2>2 DEF TypeOK
    <3>. QED
      BY <1>0, <2>1, <3>2, <3>3 DEF OnItsWay
  <2>3. CASE p = q
    <3>1. batch'[q] = NoReq
      BY <2>1, <2>3 DEF TypeOK
    <3>2. CASE batch[q] = [session |-> mapped[q], size |-> size[q]]
      <4>1. mapped[q] \in live => geometry'[mapped[q]] = size[q]
        BY <1>8, <2>3, <3>2 DEF Deliver, TypeOK
      <4>. QED
        BY <1>0, <2>1, <3>1, <4>1 DEF OnItsWay
    <3>3. CASE geometry[mapped[q]] = size[q] /\ batch[q].session # mapped[q]
      <4>1. mapped[q] \in live => geometry'[mapped[q]] = size[q]
        BY <1>8, <2>3, <3>3 DEF Deliver, TypeOK
      <4>. QED
        BY <1>0, <2>1, <3>1, <4>1 DEF OnItsWay
    <3>. QED
      BY <1>0, <2>1, <3>2, <3>3 DEF OnItsWay
  <2>. QED
    BY <2>2, <2>3
<1>9. CASE /\ UNCHANGED <<mapped, size, batch, pending, geometry>> /\ live' \subseteq live
           /\ UNCHANGED <<ui, reply>> \/ ui # "ensured" \/ reply = 0
  BY <1>0, <1>9 DEF OnItsWay
<1>10. ASSUME NEW p \in Panes, NEW g \in Sizes, Spawn(p, g) \/ AttachOrSpawn(p, g) PROVE Good
  BY <1>9, <1>10 DEF Spawn, AttachOrSpawn, Call, resizeVars, workVars, daemonVars
<1>11. ASSUME NEW s \in Ids, KillBlocking(s) PROVE Good
  BY <1>9, <1>11 DEF KillBlocking, Call, resizeVars, workVars, daemonVars
<1>12. ASSUME KillTimeout \/ Drop \/ TakeLister \/ SendFlush \/ ReplyError \/ AttachMissed \/ Lister
       PROVE  Good
  BY <1>9, <1>12 DEF KillTimeout, Drop, TakeLister, SendFlush, ReplyError, AttachMissed, Call,
     Lister, ListerSend, ListerDrop, uiVars, resizeVars, workVars, daemonVars
<1>13. CASE WorkAttach
  <2>1. ui = "attach"
    BY <1>13 DEF WorkAttach, Command, QueueShape, Blocking, TypeOK
  <2>. QED
    BY <1>9, <1>13, <2>1 DEF WorkAttach, resizeVars, workVars, daemonVars
<1>14. CASE WorkKill \/ WorkKillAck \/ WorkList \/ Settle \/ SendFollowUp \/ WorkerEnds
  BY <1>9, <1>14 DEF WorkKill, WorkKillAck, WorkList, Settle, SendFollowUp, WorkerEnds, Answered,
     uiVars, resizeVars, workVars, daemonVars
<1>15. ASSUME NEW s \in Ids, SessionEnds(s) PROVE Good
  BY <1>9, <1>15 DEF SessionEnds, uiVars, resizeVars, workVars
<1>16. CASE UNCHANGED vars
  BY <1>9, <1>16 DEF vars, uiVars, resizeVars, workVars, daemonVars
<1>. QED
  BY <1>1, <1>2, <1>3, <1>4, <1>5, <1>6, <1>7, <1>8, <1>10, <1>11, <1>12, <1>13, <1>14, <1>15,
     <1>16 DEF Next, User, UiThread, Worker
-----------------------------------------------------------------------------
LEMMA IInvInit == Init => IInv
<1>. SUFFICES ASSUME Init PROVE IInv
  OBVIOUS
<1>1. TypeOK
  BY TypeInit
<1>2. QueueShape /\ BatchShape /\ PendingIsCurrent /\ ReplyShape /\ SizeShape
  BY DEF Init, QueueShape, BatchShape, PendingIsCurrent, ReplyShape, SizeShape
<1>3. FlushShape
  BY DEF Init, FlushShape, InQueue, AtUi, AtWorker
<1>4. OwnerShape
  BY DEF Init, OwnerShape, Ids
<1>. QED
  BY <1>1, <1>2, <1>3, <1>4, FlushPlaces DEF IInv

LEMMA IInvStep == IInv /\ [Next]_vars => IInv'
<1>. SUFFICES ASSUME IInv, [Next]_vars PROVE IInv'
  OBVIOUS
<1>1. TypeOK'
  BY TypeStep DEF IInv
<1>2. OneFlush'
  <2>1. FlushShape'
    BY FlushPlaces, FlushStep DEF IInv
  <2>2. OneFlush' <=> FlushShape'
    BY <1>1, FlushPlaces, PTL
  <2>. QED
    BY <2>1, <2>2
<1>. QED
  BY <1>1, <1>2, QueueStep, OwnerStep, BatchStep, PendingStep, SizeStep, ReplyStep DEF IInv

LEMMA IInvInvariant == Spec => []IInv
BY IInvInit, IInvStep, PTL DEF Spec

(* The variables of the shim, its worker and the daemon keep their types.   *)
THEOREM TypeCorrect == Spec => []TypeOK
<1>1. IInv => TypeOK
  BY DEF IInv
<1>. QED
  BY <1>1, IInvInvariant, PTL

(* The wakeup of enqueue_latest_resize and of the worker's follow-up is     *)
(* never lost and never doubled.                                            *)
THEOREM WakeupExact == Spec => []OneFlush
<1>1. IInv => OneFlush
  BY DEF IInv
<1>. QED
  BY <1>1, IInvInvariant, PTL

(* No resize waits for a session its pane has left, nor with an old size.   *)
THEOREM PendingCurrent == Spec => []PendingIsCurrent
<1>1. IInv => PendingIsCurrent
  BY DEF IInv
<1>. QED
  BY <1>1, IInvInvariant, PTL

(* At rest every pane's session has the geometry the pane asked for last,   *)
(* whatever was spawned, reattached, resized and killed before.             *)
THEOREM GeometrySettles == Spec => []SettledGeometry
<1>1. IInv => SettledGeometry
  <2>. SUFFICES ASSUME IInv, ~flushQueued, ui \in {"idle", "joining"},
                       NEW p \in Panes, mapped[p] \in live, size[p] # NoSize
                PROVE  geometry[mapped[p]] = size[p]
    BY DEF SettledGeometry
  <2>1. FlushShape
    BY FlushPlaces DEF IInv
  <2>2. pending[p] = NoReq /\ worker # "deliver"
    BY <2>1 DEF FlushShape, AtWorker
  <2>3. batch[p] = NoReq
    BY <2>2 DEF IInv, BatchShape
  <2>4. mapped[p] # 0
    BY DEF IInv, TypeOK, Ids
  <2>5. OnItsWay(p)
    BY DEF IInv, SizeShape
  <2>6. batch[p] # [session |-> mapped[p], size |-> size[p]]
    BY <2>3, <2>4 DEF NoReq
  <2>. QED
    BY <2>2, <2>5, <2>6 DEF OnItsWay
<1>. QED
  BY <1>1, IInvInvariant, PTL

-----------------------------------------------------------------------------
(* Once the worker has ended nobody can reach it: the shim is being dropped, *)
(* no lister holds a sender, and nothing is in the channel.                  *)
Unreachable == worker = "gone" => ui = "joining" /\ lister = "none" /\ queue = <<>>

LEMMA UnreachableStep == TypeOK /\ Unreachable /\ [Next]_vars => Unreachable'
<1>. SUFFICES ASSUME TypeOK, Unreachable, [Next]_vars PROVE Unreachable'
  OBVIOUS
<1>. USE DEF Unreachable, uiVars, resizeVars, workVars, daemonVars
<1>1. CASE worker = "gone"
  <2>1. ui = "joining" /\ lister = "none" /\ queue = <<>>
    BY <1>1
  <2>2. \A op : ~Command(op)
    BY <1>1 DEF Command
  <2>3. ASSUME NEW p \in Panes, NEW g \in Sizes
        PROVE  ~Resize(p, g) /\ ~Spawn(p, g) /\ ~AttachOrSpawn(p, g)
    BY <2>1 DEF Resize, Spawn, AttachOrSpawn
  <2>4. ASSUME NEW p \in Panes PROVE ~Destroy(p) /\ ~Deliver(p)
    BY <1>1, <2>1 DEF Destroy, Deliver
  <2>5. ASSUME NEW s \in Ids PROVE ~KillSession(s) /\ ~KillBlocking(s)
    BY <2>1 DEF KillSession, KillBlocking
  <2>6. ~KillTimeout /\ ~Drop /\ ~TakeLister /\ ~UiThread
    BY <2>1 DEF KillTimeout, Drop, TakeLister, UiThread, SendFlush, Reply, ReplyError,
                AttachMissed, KillAcked
  <2>7. ~Lister /\ ~Worker
    BY <1>1, <2>1, <2>2, <2>4 DEF Lister, ListerSend, ListerDrop, Worker, WorkSpawn, WorkEnsure,
         WorkAttach, WorkKill, WorkKillAck, WorkList, TakeBatch, Settle, SendFollowUp, WorkerEnds
  <2>8. CASE \E s \in Ids : SessionEnds(s)
    BY <2>1, <2>8 DEF SessionEnds
  <2>9. CASE UNCHANGED vars
    BY <2>1, <2>9 DEF vars
  <2>. QED
    BY <2>3, <2>4, <2>5, <2>6, <2>7, <2>8, <2>9 DEF Next, User
<1>2. CASE worker # "gone" /\ worker' # "gone"
  BY <1>2
<1>3. CASE worker # "gone" /\ worker' = "gone"
  <2>1. CASE WorkerEnds
    BY <2>1 DEF WorkerEnds
  <2>2. ~Lister /\ ~UiThread /\ ~User /\ ~(\E s \in Ids : SessionEnds(s)) /\ ~UNCHANGED vars
    BY <1>3 DEF Lister, ListerSend, ListerDrop, UiThread, SendFlush, Reply, ReplyError,
         AttachMissed, KillAcked, User, Resize, Spawn, AttachOrSpawn, Destroy, KillSession,
         KillBlocking, KillTimeout, Drop, TakeLister, SessionEnds, Call, vars
  <2>3. Worker => WorkerEnds
    BY <1>3 DEF Worker, WorkSpawn, WorkEnsure, WorkAttach, WorkKill, WorkKillAck, WorkList,
         TakeBatch, Deliver, Settle, SendFollowUp
  <2>. QED
    BY <2>1, <2>2, <2>3 DEF Next
<1>. QED
  BY <1>1, <1>2, <1>3

(* A pane never shows, remembers or resizes the session of another pane,     *)
(* whatever was spawned, reattached, killed and destroyed: attach_or_spawn   *)
(* and the worker go by ids, and only the daemon knows the keys behind them. *)
KeepsToItsOwn == \A p \in Panes :
  /\ mapped[p] # 0 => owner[mapped[p]] = p
  /\ cache[p] # 0 => owner[cache[p]] = p
  /\ pending[p] # NoReq => owner[pending[p].session] = p
  /\ batch[p] # NoReq => owner[batch[p].session] = p

(* For any number of panes and sessions, from OwnerShape: a pending size is  *)
(* for the session the pane shows, and that one is of its key.               *)
THEOREM NoOthersSession == Spec => []KeepsToItsOwn
<1>1. IInv => KeepsToItsOwn
  <2>. SUFFICES ASSUME IInv, NEW p \in Panes, pending[p] # NoReq
                PROVE  owner[pending[p].session] = p
    BY DEF KeepsToItsOwn, IInv, OwnerShape
  <2>1. pending[p] = [session |-> mapped[p], size |-> size[p]] /\ pending[p] \in Requests
    BY DEF IInv, PendingIsCurrent, TypeOK
  <2>2. pending[p].session = mapped[p] /\ mapped[p] # 0
    BY <2>1 DEF Requests, Ids
  <2>. QED
    BY <2>2 DEF IInv, OwnerShape
<1>. QED
  BY <1>1, IInvInvariant, PTL

(* The size a pane asked for last is never forgotten, at any moment: while   *)
(* the session it shows does not have it, it is in the map, in the worker's  *)
(* hands, or the UI thread is about to push it after an Ensure. The safety   *)
(* part of LastSizeArrives.                                                  *)
THEOREM SizeNeverForgotten == Spec => []SizeShape
<1>1. IInv => SizeShape
  BY DEF IInv
<1>. QED
  BY <1>1, IInvInvariant, PTL

(* When the worker of a dropped shim has ended, it did everything it was     *)
(* asked: no command is left, no resize waits, and every session a pane      *)
(* shows has the size the pane asked for last. The safety part of DropJoins: *)
(* a flush carries a sender, so the channel closes after the last size.      *)
LeavesNothing ==
  worker = "gone" =>
    /\ queue = <<>> /\ ~flushQueued
    /\ \A p \in Panes :
         /\ pending[p] = NoReq /\ batch[p] = NoReq
         /\ mapped[p] \in live /\ size[p] # NoSize => geometry[mapped[p]] = size[p]

(* The join in Drop for DaemonPty returns to a shim without loose ends, for  *)
(* any number of panes, sizes and commands.                                  *)
THEOREM DropLeavesNothing == Spec => []LeavesNothing
<1>1. Init => Unreachable
  BY DEF Init, Unreachable
<1>2. IInv /\ Unreachable /\ [Next]_vars => Unreachable'
  BY UnreachableStep DEF IInv
<1>3. IInv /\ SettledGeometry /\ Unreachable => LeavesNothing
  <2>. SUFFICES ASSUME IInv, SettledGeometry, Unreachable, worker = "gone" PROVE LeavesNothing
    BY DEF LeavesNothing
  <2>1. queue = <<>> /\ ui = "joining"
    BY DEF Unreachable
  <2>2. FlushShape
    BY FlushPlaces DEF IInv
  <2>3. InQueue = {}
    BY <2>1 DEF InQueue
  <2>4. ~flushQueued
    BY <2>1, <2>2, <2>3 DEF FlushShape, AtUi, AtWorker
  <2>5. \A p \in Panes : pending[p] = NoReq /\ batch[p] = NoReq
    BY <2>2, <2>4 DEF FlushShape, IInv, BatchShape
  <2>6. \A p \in Panes : mapped[p] \in live /\ size[p] # NoSize => geometry[mapped[p]] = size[p]
    BY <2>1, <2>4 DEF SettledGeometry
  <2>. QED
    BY <2>1, <2>4, <2>5, <2>6 DEF LeavesNothing
<1>. QED
  BY <1>1, <1>2, <1>3, IInvInvariant, GeometrySettles, PTL DEF Spec
=============================================================================
