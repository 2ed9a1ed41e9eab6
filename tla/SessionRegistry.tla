--------------------------- MODULE SessionRegistry ----------------------------
(***************************************************************************)
(* The daemon's session registry (session/registry.rs), the connections it  *)
(* serves (serve_connection in daemon/handler.rs) and the accept loop       *)
(* (daemon/mod.rs).                                                         *)
(*                                                                          *)
(* Every registry call runs under one mutex. Calls that look at a session   *)
(* more than once are split at each look, because the children and the      *)
(* reader threads do not take the mutex: a shell may exit, and its output   *)
(* close, between two steps of the call that holds it.                      *)
(***************************************************************************)
EXTENDS Naturals, FiniteSets

CONSTANTS
  Keys,     \* (workspace_id, pane_id) pairs
  Conns,    \* client connections
  NoKey,    \* the key of an id that was never spawned
  NoConn,   \* the caller when the mutex is free
  MaxId     \* bound: ids handed out during a behaviour

ASSUME ConnsAssumption  == IsFiniteSet(Conns)
ASSUME NoKeyAssumption  == NoKey \notin Keys
ASSUME NoConnAssumption == NoConn \notin Conns
ASSUME MaxIdAssumption  == MaxId \in Nat \ {0}

VARIABLES
  sessions,     \* the ids in the map
  key,          \* per id: the key it was spawned for
  child,        \* per id: its shell process
  reader,       \* per id: OutputState.reader_open
  nextId,       \* next_id
  failed,       \* history: the ids whose spawn failed
  phase,        \* stopping: "accepting", or "stopping" for good
  connections,  \* the counter of served connections
  call,         \* the next step of the call that holds the mutex
  caller,       \* its connection
  callKey,      \* Ensure and Spawn: the key
  callId,       \* Ensure: the live session found
  callKind,     \* Shutdown and RetireIfIdle: "ask", "force" or "retire"
  conn,         \* per connection: where serve_connection is
  nudge,        \* the shutdown broadcast
  daemon        \* daemon::run

sessionVars == <<sessions, key, child, reader, nextId, failed>>
stopVars    == <<phase, callKind>>
callVars    == <<call, caller, callKey, callId>>
connVars    == <<connections, conn>>
runVars     == <<nudge, daemon>>
vars == <<sessionVars, stopVars, callVars, connVars, runVars>>

Ids == 1 .. MaxId

Init ==
  /\ sessions = {} /\ nextId = 1 /\ failed = {}
  /\ key    = [i \in Ids |-> NoKey]
  /\ child  = [i \in Ids |-> "none"]
  /\ reader = [i \in Ids |-> "closed"]
  /\ phase = "accepting" /\ connections = 0
  /\ call = "none" /\ caller = NoConn /\ callKey = NoKey /\ callId = 0
  /\ callKind = "ask"
  /\ conn = [c \in Conns |-> "closed"]
  /\ nudge = "no" /\ daemon = "running"

-----------------------------------------------------------------------------
(* Session::alive: the reader is open and the child has not exited.         *)
Alive(i) == child[i] = "running" /\ reader[i] = "open"

(* Session::child_exit_confirmed: the reader does not count.                *)
ExitConfirmed(i) == child[i] # "running"

Matching(k) == {i \in sessions : key[i] = k}
Live(k)     == {i \in Matching(k) : Alive(i)}

(* Mutant: dropping a session does not kill. *)
DropSessionsKeepsChild(S) ==
  /\ sessions' = sessions \ S
  /\ reader' = [i \in Ids |-> IF i \in S THEN "closed" ELSE reader[i]]
  /\ UNCHANGED <<key, child, nextId, failed>>

(* Removing a session from the map drops it, and Session::drop kills: the   *)
(* child is terminated and the output closed.                               *)
DropSessions(S) ==
  /\ sessions' = sessions \ S
  /\ child'  = [i \in Ids |-> IF i \in S /\ child[i] = "running" THEN "exited" ELSE child[i]]
  /\ reader' = [i \in Ids |-> IF i \in S THEN "closed" ELSE reader[i]]
  /\ UNCHANGED <<key, nextId, failed>>

(* A connection may take the registry mutex for its next request.           *)
Idle(c) == daemon = "running" /\ call = "none" /\ conn[c] = "served"

Take(c, step) == call' = step /\ caller' = c
Release == call' = "none" /\ caller' = NoConn /\ callKey' = NoKey /\ callId' = 0

-----------------------------------------------------------------------------
(* The shell exits by itself, or at the hangup of its terminal when its     *)
(* spawn failed.                                                            *)
ChildExit(i) ==
  /\ child[i] = "running"
  /\ child' = [child EXCEPT ![i] = "exited"]
  /\ UNCHANGED <<sessions, key, reader, nextId, failed, stopVars, callVars, connVars, runVars>>

(* close_output: EOF, a panic of the emulator, or the exit watcher.         *)
ReaderEnds(i) ==
  /\ reader[i] = "open"
  /\ reader' = [reader EXCEPT ![i] = "closed"]
  /\ UNCHANGED <<sessions, key, child, nextId, failed, stopVars, callVars, connVars, runVars>>

-----------------------------------------------------------------------------
(* Mutant: a stopping registry is not checked. *)
EnsureLookupWhileStopping(c, k) ==
  /\ Idle(c)
  /\ nextId <= MaxId
  /\ callKey' = k
  /\ \/ \E i \in Ids : Live(k) = {i} /\ callId' = i /\ Take(c, "attach")
     \/ Live(k) = {} /\ callId' = 0 /\ Take(c, "purge")
  /\ UNCHANGED <<sessionVars, stopVars, connVars, runVars>>

(* ensure_with_context looks for a live session of the key. More than one   *)
(* is the error session_key_ambiguous. MaxId bounds the ids.                *)
EnsureLookup(c, k) ==
  /\ Idle(c)
  /\ phase = "accepting" /\ nextId <= MaxId
  /\ callKey' = k
  /\ \/ \E i \in Ids : Live(k) = {i} /\ callId' = i /\ Take(c, "attach")
     \/ Live(k) = {} /\ callId' = 0 /\ Take(c, "purge")
  /\ UNCHANGED <<sessionVars, stopVars, connVars, runVars>>

(* Attach to the session found, unless its reader or its child ended since  *)
(* the lookup: then it is removed and the same call goes on to spawn.       *)
EnsureAttach ==
  /\ call = "attach"
  /\ IF Alive(callId)
       THEN Release /\ UNCHANGED sessionVars
       ELSE /\ call' = "purge"
            /\ DropSessions({callId})
            /\ UNCHANGED <<caller, callKey, callId>>
  /\ UNCHANGED <<stopVars, connVars, runVars>>

(* Mutant: Spawn does not look for a live session of its key. *)
SpawnLookupUnchecked(c, k) ==
  /\ Idle(c)
  /\ phase = "accepting" /\ nextId <= MaxId
  /\ callKey' = k /\ callId' = 0
  /\ Take(c, "purge")
  /\ UNCHANGED <<sessionVars, stopVars, connVars, runVars>>

(* spawn_with_context refuses a key that has a live session.                *)
SpawnLookup(c, k) ==
  /\ Idle(c)
  /\ phase = "accepting" /\ nextId <= MaxId
  /\ Live(k) = {}
  /\ callKey' = k /\ callId' = 0
  /\ Take(c, "purge")
  /\ UNCHANGED <<sessionVars, stopVars, connVars, runVars>>

(* Mutant: the purge forgets to compare the key. *)
PurgeDeadAnyKey ==
  /\ call = "purge"
  /\ call' = "spawn"
  /\ DropSessions(sessions \ Live(callKey))
  /\ UNCHANGED <<caller, callKey, callId, stopVars, connVars, runVars>>

(* Both remove the sessions of the key that are not alive, a closed reader  *)
(* with a running child included.                                           *)
PurgeDead ==
  /\ call = "purge"
  /\ call' = "spawn"
  /\ DropSessions(Matching(callKey) \ Live(callKey))
  /\ UNCHANGED <<caller, callKey, callId, stopVars, connVars, runVars>>

(* Mutant: the id is not consumed. *)
SpawnChildReusesId ==
  /\ call = "spawn"
  /\ sessions' = sessions \union {nextId}
  /\ key'    = [key EXCEPT ![nextId] = callKey]
  /\ child'  = [child EXCEPT ![nextId] = "running"]
  /\ reader' = [reader EXCEPT ![nextId] = "open"]
  /\ Release
  /\ UNCHANGED <<nextId, failed, stopVars, connVars, runVars>>

(* Session::spawn_with_context, and the insertion.                          *)
SpawnChild ==
  /\ call = "spawn"
  /\ sessions' = sessions \union {nextId}
  /\ key'    = [key EXCEPT ![nextId] = callKey]
  /\ child'  = [child EXCEPT ![nextId] = "running"]
  /\ reader' = [reader EXCEPT ![nextId] = "open"]
  /\ nextId' = nextId + 1
  /\ Release
  /\ UNCHANGED <<failed, stopVars, connVars, runVars>>

(* It fails: before the child exists, or after, when the PTY's reader or    *)
(* writer cannot be had. The child is then dropped without a kill: it runs  *)
(* on without a session. The id is used up either way.                      *)
SpawnFails ==
  /\ call = "spawn"
  /\ \E c \in {"none", "running"} : child' = [child EXCEPT ![nextId] = c]
  /\ key' = [key EXCEPT ![nextId] = callKey]
  /\ nextId' = nextId + 1
  /\ failed' = failed \union {nextId}
  /\ Release
  /\ UNCHANGED <<sessions, reader, stopVars, connVars, runVars>>

(* attach_with_snapshot removes a session it cannot attach to.              *)
AttachRefused(c, i) ==
  /\ Idle(c)
  /\ i \in sessions /\ ~Alive(i)
  /\ DropSessions({i})
  /\ UNCHANGED <<stopVars, callVars, connVars, runVars>>

(* remove, for KillSession.                                                 *)
Remove(c, i) ==
  /\ Idle(c)
  /\ i \in sessions
  /\ DropSessions({i})
  /\ UNCHANGED <<stopVars, callVars, connVars, runVars>>

-----------------------------------------------------------------------------
(* stop: refused while a child may run, unless forced ...                   *)
StopBegin(c, kind) ==
  /\ Idle(c)
  /\ kind = "force" \/ \A i \in sessions : ExitConfirmed(i)
  /\ callKind' = kind
  /\ Take(c, IF kind = "retire" THEN "count" ELSE "commit")
  /\ UNCHANGED <<sessionVars, phase, callKey, callId, connVars, runVars>>

(* ... and for a retirement while another connection is served.             *)
StopCount ==
  /\ call = "count"
  /\ IF connections > 1 THEN Release
                        ELSE call' = "commit" /\ UNCHANGED <<caller, callKey, callId>>
  /\ UNCHANGED <<sessionVars, stopVars, connVars, runVars>>

(* Accepted: nothing is admitted any more and every session is dropped.     *)
StopCommit ==
  /\ call = "commit"
  /\ phase' = "stopping"
  /\ DropSessions(sessions)
  /\ conn' = [conn EXCEPT ![caller] = "acking"]
  /\ Release
  /\ UNCHANGED <<callKind, connections, runVars>>

-----------------------------------------------------------------------------
(* daemon::run accepts a connection and spawns serve_connection.            *)
Accept(c) ==
  /\ daemon = "running"
  /\ conn[c] = "closed"
  /\ conn' = [conn EXCEPT ![c] = "accepted"]
  /\ UNCHANGED <<sessionVars, stopVars, callVars, connections, runVars>>

(* Mutant: connections register without the mutex. *)
RegisterConnectionUnlocked(c) ==
  /\ daemon = "running"
  /\ conn[c] = "accepted"
  /\ IF phase = "accepting"
       THEN conn' = [conn EXCEPT ![c] = "served"] /\ connections' = connections + 1
       ELSE conn' = [conn EXCEPT ![c] = "closed"] /\ UNCHANGED connections
  /\ UNCHANGED <<sessionVars, stopVars, callVars, runVars>>

(* register_connection, under the mutex: refused once the daemon stops.     *)
RegisterConnection(c) ==
  /\ daemon = "running"
  /\ conn[c] = "accepted"
  /\ call = "none"
  /\ IF phase = "accepting"
       THEN conn' = [conn EXCEPT ![c] = "served"] /\ connections' = connections + 1
       ELSE conn' = [conn EXCEPT ![c] = "closed"] /\ UNCHANGED connections
  /\ UNCHANGED <<sessionVars, stopVars, callVars, runVars>>

(* The request loop ends: the client is gone, or the broadcast was heard.   *)
Leave(c) ==
  /\ daemon = "running"
  /\ conn[c] = "served" /\ caller # c
  /\ conn' = [conn EXCEPT ![c] = "leaving"]
  /\ UNCHANGED <<sessionVars, stopVars, callVars, connections, runVars>>

(* The response to a request of c could not be written.                     *)
ResponseFails(c) ==
  /\ daemon = "running"
  /\ conn[c] = "served" /\ caller # c
  /\ conn' = [conn EXCEPT ![c] = "leaving"]
  /\ nudge' = IF phase = "stopping" THEN "sent" ELSE nudge
  /\ UNCHANGED <<sessionVars, stopVars, callVars, connections, daemon>>

(* The acknowledgement of an accepted stop was written: broadcast.          *)
AckDelivered(c) ==
  /\ daemon = "running"
  /\ conn[c] = "acking"
  /\ conn' = [conn EXCEPT ![c] = "leaving"]
  /\ nudge' = "sent"
  /\ UNCHANGED <<sessionVars, stopVars, callVars, connections, daemon>>

(* Mutant: a lost acknowledgement only ends its connection. *)
AckLostSilently(c) ==
  /\ daemon = "running"
  /\ conn[c] = "acking"
  /\ conn' = [conn EXCEPT ![c] = "leaving"]
  /\ UNCHANGED <<sessionVars, stopVars, callVars, connections, runVars>>

(* It could not be written; the registry is stopping, so broadcast as well. *)
AckLost(c) ==
  /\ daemon = "running"
  /\ conn[c] = "acking"
  /\ conn' = [conn EXCEPT ![c] = "leaving"]
  /\ nudge' = IF phase = "stopping" THEN "sent" ELSE nudge
  /\ UNCHANGED <<sessionVars, stopVars, callVars, connections, daemon>>

(* cleanup_forwarders is done and the ConnectionGuard drops, without the    *)
(* mutex.                                                                   *)
Disconnect(c) ==
  /\ daemon = "running"
  /\ conn[c] = "leaving"
  /\ conn' = [conn EXCEPT ![c] = "closed"]
  /\ connections' = connections - 1
  /\ UNCHANGED <<sessionVars, stopVars, callVars, runVars>>

(* daemon::run hears the broadcast and returns.                             *)
RunReturns ==
  /\ daemon = "running"
  /\ nudge = "sent"
  /\ daemon' = "returned"
  /\ UNCHANGED <<sessionVars, stopVars, callVars, connVars, nudge>>

(* accept failed: daemon::run returns, the runtime drops every task, and    *)
(* the registry is dropped with its last owner.                             *)
AcceptFails ==
  /\ daemon = "running"
  /\ call = "none"
  /\ daemon' = "returned"
  /\ DropSessions(sessions)
  /\ UNCHANGED <<stopVars, callVars, connVars, nudge>>

-----------------------------------------------------------------------------
Registry(c) ==
  \/ \E k \in Keys : EnsureLookup(c, k) \/ SpawnLookup(c, k)
  \/ \E i \in Ids : AttachRefused(c, i) \/ Remove(c, i)
  \/ \E kind \in {"ask", "force", "retire"} : StopBegin(c, kind)
Holder == \/ EnsureAttach \/ PurgeDead \/ SpawnChild \/ SpawnFails
          \/ StopCount \/ StopCommit
Connection(c) == \/ Accept(c) \/ RegisterConnection(c) \/ Leave(c) \/ ResponseFails(c)
                 \/ AckDelivered(c) \/ AckLost(c) \/ Disconnect(c)
Session(i) == ChildExit(i) \/ ReaderEnds(i)

Next == \/ \E c \in Conns : Registry(c) \/ Connection(c)
        \/ \E i \in Ids : Session(i)
        \/ Holder \/ RunReturns \/ AcceptFails

Spec == Init /\ [][Next]_vars

(* A held mutex is released, an acknowledgement is written or fails, and    *)
(* the accept loop, which holds a receiver of its own, hears the broadcast. *)
Fairness ==
  /\ WF_vars(Holder)
  /\ \A c \in Conns : WF_vars(AckDelivered(c) \/ AckLost(c))
  /\ WF_vars(RunReturns)

FairSpec == Spec /\ Fairness

-----------------------------------------------------------------------------
SessionTypes ==
  /\ sessions \subseteq Ids
  /\ key \in [Ids -> Keys \union {NoKey}]
  /\ child \in [Ids -> {"none", "running", "exited"}]
  /\ reader \in [Ids -> {"open", "closed"}]
  /\ nextId \in 1 .. (MaxId + 1) /\ failed \subseteq Ids

CallTypes ==
  /\ phase \in {"accepting", "stopping"}
  /\ call \in {"none", "attach", "purge", "spawn", "count", "commit"}
  /\ callKind \in {"ask", "force", "retire"}
  /\ caller \in Conns \union {NoConn}
  /\ callKey \in Keys \union {NoKey}
  /\ callId \in Ids \union {0}
  /\ caller = NoConn <=> call = "none"
  /\ call \in {"attach", "purge", "spawn"} => callKey \in Keys /\ nextId <= MaxId
  /\ call = "attach" => callId \in sessions

ConnTypes ==
  /\ connections \in Nat
  /\ conn \in [Conns -> {"closed", "accepted", "served", "acking", "leaving"}]
  /\ nudge \in {"no", "sent"}
  /\ daemon \in {"running", "returned"}
  /\ caller \in Conns => conn[caller] = "served"

(* The variables have their types, the locals of a registry call are set    *)
(* exactly while it holds the mutex, and the caller is a served connection. *)
TypeOK == SessionTypes /\ CallTypes /\ ConnTypes

(* A key never has two running shells, whatever clients ensure, spawn,      *)
(* attach and kill and whenever shells exit and readers break: a session    *)
(* whose reader ended is killed before its key is spawned again. A shell    *)
(* that a failed spawn left running is not counted: the key may get another.*)
OneShellPerKey == \A i, j \in Ids \ failed :
  /\ child[i] = "running" /\ child[j] = "running"
  /\ key[i] = key[j]
  => i = j

(* The daemon loses track of a shell in one way only, a spawn that failed   *)
(* after the child was started. Every other shell that runs is in the map,  *)
(* so that a client can kill it and a stop counts it; one whose spawn       *)
(* failed is never in the map.                                              *)
OnlyFailedSpawnsStray == \A i \in Ids :
  child[i] = "running" => (i \notin sessions <=> i \in failed)

(* Once a stop was accepted the registry is empty for good, and no call     *)
(* that was admitted before can still insert a session.                     *)
StoppedStaysEmpty ==
  phase = "stopping" => sessions = {} /\ call \notin {"attach", "purge", "spawn"}

(* Ensure and Spawn never end a session that is alive, of their key or of   *)
(* another.                                                                 *)
SparesLive ==
  call' # call /\ call \in {"attach", "purge", "spawn"}
    => \A i \in Ids : Alive(i) => child'[i] = "running" /\ reader'[i] = "open"
EnsureSparesLive == [][SparesLive]_vars

(* Accepting a stop that was not forced ends no running shell, not even one *)
(* whose output reader is broken or whose spawn failed.                     *)
GentleStop ==
  call = "commit" /\ call' # call /\ callKind # "force"
    => \A i \in Ids : child[i] = "running" => child'[i] = "running"
UnforcedStopKillsNothing == [][GentleStop]_vars

Counted == {c \in Conns : conn[c] \in {"served", "acking", "leaving"}}

(* A retirement is accepted only for the last client: no other connection   *)
(* is being served when the registry stops.                                 *)
AloneWhenRetiring ==
  call = "commit" /\ callKind = "retire" /\ phase' = "stopping" => Counted = {caller}
RetiresAlone == [][AloneWhenRetiring]_vars

(* An accepted stop always ends the daemon, also when its acknowledgement   *)
(* is lost.                                                                 *)
StopEndsDaemon == phase = "stopping" ~> daemon = "returned"

(* The module doc of the daemon: a shutdown request tells the accept loop   *)
(* to "exit once in-flight handlers finish". Refuted: it returns at once,   *)
(* while another connection still has its acknowledgement to write.         *)
WaitsForHandlers ==
  nudge = "sent" /\ daemon' # daemon => \A c \in Conns : conn[c] # "acking"
ShutdownWaitsForHandlers == [][WaitsForHandlers]_vars

(* The registry implements the abstract keyed shells: a key's shell is the  *)
(* running child of a spawn for it that did not fail, and the door shuts    *)
(* with an accepted stop or the end of the accept loop.                     *)
Running == [k \in Keys |-> {i \in Ids \ failed : child[i] = "running" /\ key[i] = k}]
OneOf(R) == IF R = {} THEN 0 ELSE CHOOSE i \in R : TRUE
ShellOf == [k \in Keys |-> OneOf(Running[k])]
Door == IF phase = "stopping" \/ daemon = "returned" THEN "shut" ELSE "open"
Shells == INSTANCE KeyedShells WITH shell <- ShellOf, last <- nextId - 1, door <- Door
ImplementsKeyedShells == Shells!Spec
=============================================================================
