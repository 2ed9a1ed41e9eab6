------------------------ MODULE SessionRegistry_proofs ------------------------
(***************************************************************************)
(* Proofs about SessionRegistry, for every set of keys, finite set of       *)
(* connections and bound on ids. The inductive invariant IInv says what the *)
(* holder of the mutex may rely on between its looks at the sessions.       *)
(***************************************************************************)
EXTENDS SessionRegistry, FiniteSetTheorems, TLAPS

(* An id that was not handed out names nothing.                             *)
FreshIds == \A i \in Ids : i >= nextId =>
  child[i] = "none" /\ i \notin sessions /\ i \notin failed

SessionFacts == OnlyFailedSpawnsStray /\ OneShellPerKey /\ FreshIds

(* What a lookup found stays true until its call releases the mutex:        *)
(* sessions only end behind its back.                                       *)
LookupHolds ==
  /\ call = "attach" => \A i \in sessions : key[i] = callKey /\ i # callId => ~Alive(i)
  /\ call = "purge"  => \A i \in sessions : key[i] = callKey => ~Alive(i)
  /\ call = "spawn"  => \A i \in sessions : key[i] # callKey
StopHolds ==
  /\ call \in {"count", "commit"} /\ callKind # "force" => \A i \in sessions : ExitConfirmed(i)
  /\ call = "commit" /\ callKind = "retire" => Counted = {caller}
  /\ call = "count" => callKind = "retire"

Counting == connections = Cardinality(Counted)

(* An acknowledgement is under way, and the broadcast sent, only after a    *)
(* stop; and the daemon never returns under a call that may spawn.          *)
StopNews ==
  /\ \A c \in Conns : conn[c] = "acking" => phase = "stopping"
  /\ nudge = "sent" => phase = "stopping"
  /\ daemon = "returned" => call \notin {"attach", "purge", "spawn"}

IInv == TypeOK /\ SessionFacts /\ LookupHolds /\ StopHolds /\ StoppedStaysEmpty /\ Counting
        /\ StopNews

(* Steps that start no session: sessions may end, none comes up.            *)
Fewer ==
  /\ UNCHANGED <<key, nextId, failed>>
  /\ sessions' \subseteq sessions
  /\ \A i \in Ids :
       /\ child'[i] = "running" => child[i] = "running"
       /\ child'[i] = "running" /\ i \in sessions => i \in sessions'
       /\ child[i] = "none" => child'[i] = "none"
       /\ child'[i] = "running" /\ reader'[i] = "open" => reader[i] = "open"

-----------------------------------------------------------------------------
(* What dropping sessions does, child by child.                             *)
LEMMA DropFacts ==
  ASSUME SessionTypes, NEW S \in SUBSET Ids, DropSessions(S)
  PROVE  /\ SessionTypes'
         /\ Fewer
         /\ sessions' = sessions \ S
         /\ \A i \in Ids : child'[i] = "running" <=> child[i] = "running" /\ i \notin S
         /\ \A i \in Ids : i \notin S => reader'[i] = reader[i]
  BY DEF SessionTypes, DropSessions, Fewer, Ids

LEMMA SameIsFewer == UNCHANGED sessionVars => Fewer
  BY DEF sessionVars, Fewer

LEMMA FewerKeepsFacts ==
  ASSUME SessionTypes, SessionTypes', SessionFacts, Fewer
  PROVE  SessionFacts'
<1>1. OnlyFailedSpawnsStray'
  BY DEF SessionFacts, OnlyFailedSpawnsStray, Fewer, SessionTypes
<1>2. OneShellPerKey'
  BY DEF SessionFacts, OneShellPerKey, Fewer, SessionTypes
<1>3. FreshIds'
  BY DEF SessionFacts, FreshIds, Fewer, SessionTypes, Ids
<1>. QED BY <1>1, <1>2, <1>3 DEF SessionFacts

LEMMA FewerKeepsLookup ==
  ASSUME SessionTypes, LookupHolds, Fewer, UNCHANGED <<call, callKey, callId>>
  PROVE  LookupHolds'
  BY DEF SessionTypes, LookupHolds, Fewer, Alive

LEMMA FewerKeepsStopped ==
  ASSUME StoppedStaysEmpty, Fewer, UNCHANGED <<call, phase>>
  PROVE  StoppedStaysEmpty'
  BY DEF StoppedStaysEmpty, Fewer

LEMMA FewerKeepsStop ==
  ASSUME SessionTypes, StopHolds, Fewer, UNCHANGED <<call, callKind, caller, conn>>
  PROVE  StopHolds'
  BY DEF SessionTypes, StopHolds, Fewer, ExitConfirmed, Counted

-----------------------------------------------------------------------------
(* Types.                                                                   *)
LEMMA TypeInit == Init => TypeOK
  BY NoConnAssumption, MaxIdAssumption
  DEF Init, TypeOK, SessionTypes, CallTypes, ConnTypes, Ids

(* Only SpawnChild starts a session; every other step keeps or ends some.   *)
LEMMA SessionStep ==
  ASSUME SessionTypes, CallTypes, [Next]_vars
  PROVE  SessionTypes' /\ (Fewer \/ SpawnChild \/ SpawnFails)
<1>. DEFINE Goal == SessionTypes' /\ (Fewer \/ SpawnChild \/ SpawnFails)
<1>1. ASSUME UNCHANGED sessionVars PROVE Goal
  BY <1>1, SameIsFewer DEF SessionTypes, Ids, sessionVars
<1>2. ASSUME NEW S \in SUBSET Ids, DropSessions(S) PROVE Goal
  BY <1>2, DropFacts
<1>3. ASSUME NEW c \in Conns, Registry(c) PROVE Goal
  <2>1. ASSUME NEW k \in Keys, EnsureLookup(c, k) \/ SpawnLookup(c, k) PROVE Goal
    BY <2>1, <1>1 DEF EnsureLookup, SpawnLookup
  <2>2. ASSUME NEW i \in Ids, AttachRefused(c, i) \/ Remove(c, i) PROVE Goal
    <3>1. DropSessions({i}) BY <2>2 DEF AttachRefused, Remove
    <3>. QED BY <3>1, <1>2
  <2>3. ASSUME NEW kind \in {"ask", "force", "retire"}, StopBegin(c, kind) PROVE Goal
    BY <2>3, <1>1 DEF StopBegin
  <2>. QED BY <1>3, <2>1, <2>2, <2>3 DEF Registry
<1>4. ASSUME NEW c \in Conns, Connection(c) PROVE Goal
  <2>1. UNCHANGED sessionVars
    BY <1>4 DEF Connection, Accept, RegisterConnection, Leave, ResponseFails,
                AckDelivered, AckLost, Disconnect
  <2>. QED BY <2>1, <1>1
<1>5. ASSUME NEW i \in Ids, Session(i) PROVE Goal
  BY <1>5 DEF Session, ChildExit, ReaderEnds, SessionTypes, Fewer, Ids
<1>6. CASE EnsureAttach
  <2>1. CASE Alive(callId) BY <1>6, <2>1, <1>1 DEF EnsureAttach
  <2>2. CASE ~Alive(callId)
    <3>1. DropSessions({callId}) BY <1>6, <2>2 DEF EnsureAttach
    <3>2. callId \in Ids BY <1>6 DEF EnsureAttach, CallTypes, SessionTypes
    <3>. QED BY <3>1, <3>2, <1>2
  <2>. QED BY <2>1, <2>2
<1>7. CASE PurgeDead
  <2>1. DropSessions(Matching(callKey) \ Live(callKey)) BY <1>7 DEF PurgeDead
  <2>2. Matching(callKey) \ Live(callKey) \in SUBSET Ids BY DEF Matching, SessionTypes
  <2>. QED BY <2>1, <2>2, <1>2
<1>8. CASE SpawnChild
  <2>1. nextId \in Ids /\ callKey \in Keys /\ nextId + 1 \in 1 .. (MaxId + 1)
    BY <1>8, MaxIdAssumption DEF SpawnChild, CallTypes, SessionTypes, Ids
  <2>2. SessionTypes' BY <1>8, <2>1 DEF SpawnChild, SessionTypes
  <2>. QED BY <1>8, <2>2
<1>9. CASE SpawnFails
  <2>1. nextId \in Ids /\ callKey \in Keys /\ nextId + 1 \in 1 .. (MaxId + 1)
    BY <1>9, MaxIdAssumption DEF SpawnFails, CallTypes, SessionTypes, Ids
  <2>2. SessionTypes' BY <1>9, <2>1 DEF SpawnFails, SessionTypes
  <2>. QED BY <1>9, <2>2
<1>10. CASE StopCount BY <1>10, <1>1 DEF StopCount
<1>11. CASE StopCommit
  <2>1. DropSessions(sessions) BY <1>11 DEF StopCommit
  <2>. QED BY <2>1, <1>2 DEF SessionTypes
<1>12. CASE RunReturns BY <1>12, <1>1 DEF RunReturns
<1>13. CASE AcceptFails
  <2>1. DropSessions(sessions) BY <1>13 DEF AcceptFails
  <2>. QED BY <2>1, <1>2 DEF SessionTypes
<1>14. CASE UNCHANGED vars BY <1>14, <1>1 DEF vars
<1>. QED BY <1>3, <1>4, <1>5, <1>6, <1>7, <1>8, <1>9, <1>10, <1>11, <1>12, <1>13, <1>14
         DEF Next, Holder

(* A new shell is the only one of its key.                                  *)
LEMMA FactsStep ==
  ASSUME SessionTypes, CallTypes, SessionFacts, LookupHolds, [Next]_vars
  PROVE  SessionFacts'
<1>1. SessionTypes' /\ (Fewer \/ SpawnChild \/ SpawnFails)
  BY SessionStep
<1>2. CASE Fewer
  BY <1>1, <1>2, FewerKeepsFacts
<1>3. CASE SpawnChild
  <2>1. nextId \in Ids /\ \A i \in Ids : i >= nextId + 1 => i >= nextId
    BY <1>3 DEF SpawnChild, CallTypes, SessionTypes, Ids
  <2>2. \A i \in sessions : key[i] # callKey
    BY <1>3 DEF SpawnChild, LookupHolds
  <2>3. \A i \in Ids : i # nextId => child'[i] = child[i] /\ key'[i] = key[i]
    BY <1>3 DEF SpawnChild, SessionTypes
  <2>4. key'[nextId] = callKey
    BY <1>3, <2>1 DEF SpawnChild, SessionTypes
  <2>9. nextId \notin failed /\ failed' = failed
    BY <1>3, <2>1 DEF SpawnChild, SessionFacts, FreshIds, Ids
  <2>5. OnlyFailedSpawnsStray'
    BY <1>3, <2>3, <2>9 DEF SpawnChild, SessionFacts, OnlyFailedSpawnsStray
  <2>6. ASSUME NEW i \in Ids \ failed, i # nextId, child'[i] = "running"
        PROVE  key'[i] # key'[nextId]
    BY <2>2, <2>3, <2>4, <2>6 DEF SessionFacts, OnlyFailedSpawnsStray
  <2>7. OneShellPerKey'
    BY <2>3, <2>6, <2>9 DEF SessionFacts, OneShellPerKey
  <2>8. FreshIds'
    BY <1>3, <2>1, <2>3 DEF SpawnChild, SessionFacts, FreshIds, SessionTypes, Ids
  <2>. QED BY <2>5, <2>7, <2>8 DEF SessionFacts
<1>4. CASE SpawnFails
  <2>1. nextId \in Ids /\ \A i \in Ids : i >= nextId + 1 => i >= nextId /\ i # nextId
    BY <1>4 DEF SpawnFails, CallTypes, SessionTypes, Ids
  <2>2. \A i \in Ids : i # nextId => child'[i] = child[i] /\ key'[i] = key[i]
    BY <1>4 DEF SpawnFails, SessionTypes
  <2>3. nextId \notin sessions
    BY <2>1 DEF SessionFacts, FreshIds, Ids
  <2>4. sessions' = sessions /\ failed' = failed \union {nextId} /\ nextId' = nextId + 1
    BY <1>4 DEF SpawnFails
  <2>5. OnlyFailedSpawnsStray'
    BY <2>2, <2>3, <2>4 DEF SessionFacts, OnlyFailedSpawnsStray
  <2>6. OneShellPerKey'
    BY <2>2, <2>4 DEF SessionFacts, OneShellPerKey
  <2>7. FreshIds'
    BY <2>1, <2>2, <2>4 DEF SessionFacts, FreshIds, SessionTypes, Ids
  <2>. QED BY <2>5, <2>6, <2>7 DEF SessionFacts
<1>. QED BY <1>1, <1>2, <1>3, <1>4
-----------------------------------------------------------------------------
(* Steps of the sessions, of the connections and of the accept loop leave   *)
(* the call that holds the mutex where it is.                               *)
LEMMA CallTypesStep ==
  ASSUME TypeOK, [Next]_vars
  PROVE  CallTypes'
<1>. USE DEF TypeOK, CallTypes
<1>1. ASSUME UNCHANGED <<callVars, stopVars, nextId>>, call = "attach" => sessions' = sessions
      PROVE  CallTypes'
  BY <1>1 DEF callVars, stopVars
<1>2. ASSUME NEW c \in Conns, Registry(c) PROVE CallTypes'
  <2>0. c # NoConn BY NoConnAssumption
  <2>1. ASSUME NEW k \in Keys, EnsureLookup(c, k) PROVE CallTypes'
    BY <2>0, <2>1 DEF EnsureLookup, Take, sessionVars, stopVars, Live, Matching, SessionTypes, Ids
  <2>2. ASSUME NEW k \in Keys, SpawnLookup(c, k) PROVE CallTypes'
    BY <2>0, <2>2 DEF SpawnLookup, Take, sessionVars, stopVars
  <2>3. ASSUME NEW i \in Ids, AttachRefused(c, i) \/ Remove(c, i) PROVE CallTypes'
    BY <2>3, <1>1 DEF AttachRefused, Remove, Idle, DropSessions
  <2>4. ASSUME NEW kind \in {"ask", "force", "retire"}, StopBegin(c, kind) PROVE CallTypes'
    BY <2>0, <2>4 DEF StopBegin, Take, sessionVars
  <2>. QED BY <1>2, <2>1, <2>2, <2>3, <2>4 DEF Registry
<1>3. ASSUME NEW c \in Conns, Connection(c) PROVE CallTypes'
  <2>1. UNCHANGED <<callVars, stopVars, sessionVars>>
    BY <1>3 DEF Connection, Accept, RegisterConnection, Leave, ResponseFails,
                AckDelivered, AckLost, Disconnect
  <2>. QED BY <2>1, <1>1 DEF sessionVars
<1>4. ASSUME NEW i \in Ids, Session(i) PROVE CallTypes'
  BY <1>4, <1>1 DEF Session, ChildExit, ReaderEnds
<1>5. CASE EnsureAttach
  BY <1>5 DEF EnsureAttach, Release, DropSessions, stopVars, sessionVars
<1>6. CASE PurgeDead
  BY <1>6 DEF PurgeDead, DropSessions, stopVars
<1>7. CASE SpawnChild BY <1>7 DEF SpawnChild, Release, stopVars
<1>8. CASE SpawnFails BY <1>8 DEF SpawnFails, Release, stopVars
<1>9. CASE StopCount BY <1>9 DEF StopCount, Release, stopVars, sessionVars
<1>10. CASE StopCommit BY <1>10 DEF StopCommit, Release, DropSessions
<1>11. CASE RunReturns BY <1>11, <1>1 DEF RunReturns, sessionVars
<1>12. CASE AcceptFails BY <1>12, <1>1 DEF AcceptFails, DropSessions
<1>13. CASE UNCHANGED vars BY <1>13, <1>1 DEF vars, sessionVars
<1>. QED BY <1>2, <1>3, <1>4, <1>5, <1>6, <1>7, <1>8, <1>9, <1>10, <1>11, <1>12, <1>13
         DEF Next, Holder

(* A session found dead stays dead, and only the holder starts sessions.    *)
LEMMA LookupStep ==
  ASSUME TypeOK, LookupHolds, [Next]_vars
  PROVE  LookupHolds'
<1>. USE DEF TypeOK
<1>0. Fewer \/ SpawnChild \/ SpawnFails
  BY SessionStep
<1>1. ASSUME UNCHANGED <<call, callKey, callId>> PROVE LookupHolds'
  <2>1. CASE Fewer BY <1>1, <2>1, FewerKeepsLookup
  <2>2. CASE SpawnChild \/ SpawnFails
    BY <1>1, <2>2 DEF SpawnChild, SpawnFails, Release
  <2>. QED BY <1>0, <2>1, <2>2
<1>2. ASSUME NEW c \in Conns, Registry(c) PROVE LookupHolds'
  <2>1. ASSUME NEW k \in Keys, EnsureLookup(c, k) PROVE LookupHolds'
    BY <2>1 DEF EnsureLookup, Take, sessionVars, Live, Matching, LookupHolds, Alive
  <2>2. ASSUME NEW k \in Keys, SpawnLookup(c, k) PROVE LookupHolds'
    BY <2>2 DEF SpawnLookup, Take, sessionVars, Live, Matching, LookupHolds, Alive
  <2>3. ASSUME NEW i \in Ids, AttachRefused(c, i) \/ Remove(c, i) PROVE LookupHolds'
    BY <2>3, <1>1 DEF AttachRefused, Remove, callVars
  <2>4. ASSUME NEW kind \in {"ask", "force", "retire"}, StopBegin(c, kind) PROVE LookupHolds'
    BY <2>4 DEF StopBegin, Take, LookupHolds
  <2>. QED BY <1>2, <2>1, <2>2, <2>3, <2>4 DEF Registry
<1>3. ASSUME NEW c \in Conns, Connection(c) PROVE LookupHolds'
  BY <1>3, <1>1 DEF Connection, Accept, RegisterConnection, Leave, ResponseFails,
                    AckDelivered, AckLost, Disconnect, callVars
<1>4. ASSUME NEW i \in Ids, Session(i) PROVE LookupHolds'
  BY <1>4, <1>1 DEF Session, ChildExit, ReaderEnds, callVars
<1>5. CASE EnsureAttach
  <2>1. CASE Alive(callId) BY <1>5, <2>1 DEF EnsureAttach, Release, LookupHolds
  <2>2. CASE ~Alive(callId)
    <3>1. call' = "purge" /\ callKey' = callKey /\ DropSessions({callId}) /\ callId \in Ids
      BY <1>5, <2>2 DEF EnsureAttach, CallTypes, SessionTypes
    <3>2. Fewer /\ sessions' = sessions \ {callId} BY <3>1, DropFacts
    <3>3. \A i \in sessions : key[i] = callKey /\ i # callId => ~Alive(i)
      BY <1>5 DEF EnsureAttach, LookupHolds
    <3>4. \A i \in sessions' : key'[i] = callKey' => ~Alive(i)'
      BY <3>1, <3>2, <3>3 DEF Fewer, Alive, SessionTypes
    <3>. QED BY <3>1, <3>4 DEF LookupHolds
  <2>. QED BY <2>1, <2>2
<1>6. CASE PurgeDead
  <2>1. call' = "spawn" /\ callKey' = callKey /\ DropSessions(Matching(callKey) \ Live(callKey))
    BY <1>6 DEF PurgeDead
  <2>2. \A i \in sessions : key[i] = callKey => ~Alive(i)
    BY <1>6 DEF PurgeDead, LookupHolds
  <2>3. Live(callKey) = {} BY <2>2 DEF Live, Matching
  <2>4. sessions' = sessions \ Matching(callKey) /\ key' = key
    BY <2>1, <2>3 DEF DropSessions
  <2>5. \A i \in sessions' : key'[i] # callKey' BY <2>1, <2>4 DEF Matching
  <2>. QED BY <2>1, <2>5 DEF LookupHolds
<1>7. CASE SpawnChild \/ SpawnFails BY <1>7 DEF SpawnChild, SpawnFails, Release, LookupHolds
<1>8. CASE StopCount BY <1>8 DEF StopCount, Release, LookupHolds
<1>9. CASE StopCommit BY <1>9 DEF StopCommit, Release, LookupHolds
<1>10. CASE RunReturns \/ AcceptFails \/ UNCHANGED vars
  BY <1>10, <1>1 DEF RunReturns, AcceptFails, vars, callVars
<1>. QED BY <1>2, <1>3, <1>4, <1>5, <1>6, <1>7, <1>8, <1>9, <1>10 DEF Next, Holder

(* A stopping registry admits no call that could insert a session.          *)
LEMMA StoppedStep ==
  ASSUME TypeOK, StoppedStaysEmpty, [Next]_vars
  PROVE  StoppedStaysEmpty'
<1>. USE DEF TypeOK
<1>0. Fewer \/ SpawnChild \/ SpawnFails
  BY SessionStep
<1>1. CASE Fewer
  <2>1. sessions' \subseteq sessions BY <1>1 DEF Fewer
  <2>2. CASE call' \in {"none", "count", "commit"} /\ (phase' = phase \/ sessions' = {})
    BY <2>1, <2>2 DEF StoppedStaysEmpty
  <2>3. CASE phase' = phase /\ call' \in {"attach", "purge", "spawn"}
             /\ (phase = "accepting" \/ call \in {"attach", "purge", "spawn"})
    BY <2>1, <2>3 DEF StoppedStaysEmpty
  <2>4. \/ call' \in {"none", "count", "commit"} /\ (phase' = phase \/ sessions' = {})
        \/ phase' = phase /\ (phase = "accepting" \/ call \in {"attach", "purge", "spawn"})
           /\ call' \in {"attach", "purge", "spawn"}
    <3>1. CASE StopCommit BY <3>1 DEF StopCommit, DropSessions, Release
    <3>2. CASE ~StopCommit
      <4>1. phase' = phase
        BY <3>2 DEF Next, Registry, Connection, Session, Holder, EnsureLookup, SpawnLookup,
           AttachRefused, Remove, StopBegin, EnsureAttach, PurgeDead, SpawnChild, SpawnFails,
           StopCount, Accept, RegisterConnection, Leave, ResponseFails, AckDelivered, AckLost,
           Disconnect, ChildExit, ReaderEnds, RunReturns, AcceptFails, vars, stopVars
      <4>2. \/ call' \in {"none", "count", "commit"} \/ call' = call
            \/ phase = "accepting" /\ call' \in {"attach", "purge"}
            \/ call \in {"attach", "purge"} /\ call' \in {"purge", "spawn"}
        BY <3>2 DEF Next, Registry, Connection, Session, Holder, EnsureLookup, SpawnLookup,
           AttachRefused, Remove, StopBegin, EnsureAttach, PurgeDead, SpawnChild, SpawnFails,
           StopCount, Accept, RegisterConnection, Leave, ResponseFails, AckDelivered, AckLost,
           Disconnect, ChildExit, ReaderEnds, RunReturns, AcceptFails, vars, callVars,
           Take, Release
      <4>. QED BY <4>1, <4>2 DEF CallTypes
    <3>. QED BY <3>1, <3>2
  <2>. QED BY <2>2, <2>3, <2>4
<1>2. CASE SpawnChild \/ SpawnFails
  BY <1>2 DEF SpawnChild, SpawnFails, StoppedStaysEmpty, CallTypes, stopVars
<1>. QED BY <1>0, <1>1, <1>2
-----------------------------------------------------------------------------
(* The connections: the counter counts the served ones.                     *)
LEMMA CountedFinite == IsFiniteSet(Counted)
<1>1. Counted \in SUBSET Conns BY DEF Counted
<1>. QED BY <1>1, ConnsAssumption, FS_Subset

(* The steps that touch neither a connection nor the caller.                *)
LEMMA ConnQuiet ==
  ASSUME ConnTypes, CallTypes, Counting,
         UNCHANGED connVars,
         caller' \in {caller, NoConn} \/ conn[caller'] = "served",
         nudge' = nudge, daemon' \in {"running", "returned"}
  PROVE  ConnTypes' /\ Counting'
<1>1. Counting' BY DEF Counting, Counted, connVars
<1>2. ConnTypes' BY NoConnAssumption DEF ConnTypes, CallTypes, connVars
<1>. QED BY <1>1, <1>2

LEMMA ConnStep ==
  ASSUME TypeOK, Counting, [Next]_vars
  PROVE  ConnTypes' /\ Counting'
<1>. DEFINE Goal == ConnTypes' /\ Counting'
<1>. USE DEF TypeOK
<1>1. ASSUME NEW c \in Conns, Registry(c) PROVE Goal
  <2>1. conn[c] = "served" BY <1>1 DEF Registry, EnsureLookup, SpawnLookup, AttachRefused,
                                       Remove, StopBegin, Idle
  <2>2. UNCHANGED <<connVars, runVars>> /\ caller' \in {caller, c}
    BY <1>1 DEF Registry, EnsureLookup, SpawnLookup, AttachRefused,
                                       Remove, StopBegin, Take, callVars
  <2>3. nudge' = nudge /\ daemon' \in {"running", "returned"}
    BY <2>2 DEF runVars, ConnTypes
  <2>. QED BY <2>1, <2>2, <2>3, ConnQuiet
<1>2. ASSUME NEW c \in Conns, Connection(c) PROVE Goal
  <2>1. \A x \in {"closed", "accepted", "served", "acking", "leaving"} :
          [conn EXCEPT ![c] = x] \in [Conns -> {"closed", "accepted", "served", "acking", "leaving"}]
    BY DEF ConnTypes
  <2>2. /\ conn' \in [Conns -> {"closed", "accepted", "served", "acking", "leaving"}]
        /\ nudge' \in {"no", "sent"} /\ daemon' \in {"running", "returned"}
        /\ caller' = caller
        /\ caller # c \/ conn'[c] = conn[c]
        /\ \A d \in Conns \ {c} : conn'[d] = conn[d]
    BY <1>2, <2>1 DEF Connection, Accept, RegisterConnection, Leave, ResponseFails,
       AckDelivered, AckLost, Disconnect, ConnTypes, runVars, callVars
  <2>3. Counting'
    <3>1. CASE RegisterConnection(c) /\ phase = "accepting"
      <4>1. Counted' = Counted \union {c} /\ c \notin Counted
        BY <3>1, <2>2 DEF RegisterConnection, Counted, ConnTypes
      <4>2. connections' = connections + 1 BY <3>1 DEF RegisterConnection
      <4>. QED BY <4>1, <4>2, CountedFinite, FS_AddElement DEF Counting
    <3>2. CASE Disconnect(c)
      <4>1. Counted' = Counted \ {c} /\ c \in Counted
        BY <3>2, <2>2 DEF Disconnect, Counted, ConnTypes
      <4>2. connections' = connections - 1 BY <3>2 DEF Disconnect
      <4>. QED BY <4>1, <4>2, CountedFinite, FS_RemoveElement DEF Counting
    <3>3. CASE ~(RegisterConnection(c) /\ phase = "accepting") /\ ~Disconnect(c)
      <4>1. connections' = connections
        BY <1>2, <3>3 DEF Connection, Accept, RegisterConnection, Leave, ResponseFails,
           AckDelivered, AckLost
      <4>2. conn'[c] \in {"served", "acking", "leaving"} <=> conn[c] \in {"served", "acking", "leaving"}
        BY <1>2, <3>3 DEF Connection, Accept, RegisterConnection, Leave, ResponseFails,
           AckDelivered, AckLost, ConnTypes, CallTypes
      <4>3. Counted' = Counted BY <2>2, <4>2 DEF Counted
      <4>. QED BY <4>1, <4>3 DEF Counting
    <3>. QED BY <3>1, <3>2, <3>3
  <2>4. Counted' \in SUBSET Conns BY DEF Counted
  <2>5. connections' \in Nat
    BY <2>3, <2>4, ConnsAssumption, FS_Subset, FS_CardinalityType DEF Counting
  <2>6. caller' \in Conns => conn'[caller'] = "served"
    BY <2>2 DEF ConnTypes
  <2>7. ConnTypes' BY <2>2, <2>5, <2>6 DEF ConnTypes
  <2>. QED BY <2>3, <2>7
<1>3. CASE StopCommit
  <2>1. caller \in Conns BY <1>3 DEF StopCommit, CallTypes
  <2>2. conn' = [conn EXCEPT ![caller] = "acking"] /\ conn[caller] = "served"
    BY <1>3, <2>1 DEF StopCommit, ConnTypes
  <2>3. caller' = NoConn /\ UNCHANGED <<connections, nudge, daemon>>
    BY <1>3 DEF StopCommit, Release, runVars
  <2>4. Counted' = Counted BY <2>1, <2>2 DEF Counted, ConnTypes
  <2>5. Counting' BY <2>3, <2>4 DEF Counting
  <2>6. ConnTypes' BY <2>1, <2>2, <2>3, NoConnAssumption DEF ConnTypes
  <2>. QED BY <2>5, <2>6
<1>4. CASE RunReturns \/ AcceptFails
  BY <1>4, ConnQuiet DEF RunReturns, AcceptFails, callVars
<1>5. ASSUME NEW i \in Ids, Session(i) PROVE Goal
  <2>1. UNCHANGED <<connVars, callVars, runVars>>
    BY <1>5 DEF Session, ChildExit, ReaderEnds
  <2>. QED BY <2>1, ConnQuiet DEF callVars, runVars, ConnTypes
<1>6. CASE EnsureAttach \/ PurgeDead \/ SpawnChild \/ SpawnFails \/ StopCount
  <2>1. UNCHANGED <<connVars, runVars>> /\ caller' \in {caller, NoConn}
    BY <1>6 DEF EnsureAttach, PurgeDead, SpawnChild, SpawnFails, StopCount, Release
  <2>. QED BY <2>1, ConnQuiet DEF runVars, ConnTypes
<1>7. CASE UNCHANGED vars
  BY <1>7, ConnQuiet DEF vars, callVars, runVars, ConnTypes
<1>. QED BY <1>1, <1>2, <1>3, <1>4, <1>5, <1>6, <1>7 DEF Next, Holder

-----------------------------------------------------------------------------
(* What stop checked holds until it commits: no session is added, no child  *)
(* comes back, and no connection registers while it holds the mutex.        *)
LEMMA StopStep ==
  ASSUME TypeOK, Counting, StopHolds, [Next]_vars
  PROVE  StopHolds'
<1>. USE DEF TypeOK
<1>1. CASE call' \notin {"count", "commit"}
  BY <1>1 DEF StopHolds
<1>2. ASSUME NEW c \in Conns, NEW kind \in {"ask", "force", "retire"}, StopBegin(c, kind)
      PROVE  StopHolds'
  BY <1>2 DEF StopBegin, Take, StopHolds, ExitConfirmed, sessionVars
<1>3. CASE StopCount
  <2>1. UNCHANGED <<sessionVars, callKind, connVars>> /\ callKind = "retire"
    BY <1>3 DEF StopCount, StopHolds, stopVars
  <2>2. CASE connections > 1
    BY <1>3, <2>2 DEF StopCount, Release, StopHolds
  <2>3. CASE ~(connections > 1)
    <3>1. call' = "commit" /\ caller' = caller /\ caller \in Counted
      BY <1>3, <2>3 DEF StopCount, CallTypes, ConnTypes, Counted
    <3>2. Cardinality(Counted) = 1
      <4>1. Cardinality(Counted) \in Nat /\ Cardinality(Counted) <= 1
        BY <2>3 DEF Counting, ConnTypes
      <4>2. Cardinality(Counted) # 0
        BY <3>1, CountedFinite, FS_EmptySet
      <4>. QED BY <4>1, <4>2
    <3>3. PICK x : Counted = {x}
      BY <3>2, CountedFinite, FS_Singleton
    <3>4. Counted' = {caller'} BY <2>1, <3>1, <3>3 DEF Counted, connVars
    <3>5. \A i \in sessions' : ExitConfirmed(i)'
      BY <1>3, <2>1 DEF StopCount, StopHolds, ExitConfirmed, sessionVars
    <3>. QED BY <3>1, <3>4, <3>5 DEF StopHolds
  <2>. QED BY <2>2, <2>3
<1>4. ASSUME UNCHANGED <<call, caller, callKind>>, call \in {"count", "commit"}, Fewer,
             Counted' \subseteq Counted, caller \in Counted'
      PROVE  StopHolds'
  BY <1>4 DEF StopHolds, Fewer, ExitConfirmed, SessionTypes
<1>5. CASE ~StopCount /\ call' \in {"count", "commit"}
           /\ ~\E c \in Conns, kind \in {"ask", "force", "retire"} : StopBegin(c, kind)
  <2>1. UNCHANGED <<call, caller, callKind>> /\ call \in {"count", "commit"}
    BY <1>5 DEF Next, Registry, Connection, Session, Holder, EnsureLookup, SpawnLookup,
       AttachRefused, Remove, EnsureAttach, PurgeDead, SpawnChild, SpawnFails,
       StopCommit, Accept, RegisterConnection, Leave, ResponseFails, AckDelivered, AckLost,
       Disconnect, ChildExit, ReaderEnds, RunReturns, AcceptFails, vars, callVars, stopVars,
       Take, Release
  <2>2. Fewer
    BY <2>1, SessionStep DEF SpawnChild, SpawnFails
  <2>3. Counted' \subseteq Counted
    <3>1. \A c \in Conns : conn'[c] \in {"served", "acking", "leaving"}
                           => conn[c] \in {"served", "acking", "leaving"}
      BY <1>5, <2>1 DEF Next, Registry, Connection, Session, Holder, EnsureLookup, SpawnLookup,
       AttachRefused, Remove, EnsureAttach, PurgeDead, SpawnChild, SpawnFails,
       StopCommit, Accept, RegisterConnection, Leave, ResponseFails, AckDelivered, AckLost,
       Disconnect, ChildExit, ReaderEnds, RunReturns, AcceptFails, vars, connVars, Idle,
       Release, ConnTypes
    <3>. QED BY <3>1 DEF Counted
  <2>4. caller \in Counted'
    BY <2>1, ConnStep DEF CallTypes, ConnTypes, Counted
  <2>. QED BY <1>4, <2>1, <2>2, <2>3, <2>4
<1>. QED BY <1>1, <1>2, <1>3, <1>5
-----------------------------------------------------------------------------
(* The stop is announced after it was accepted.                             *)
LEMMA StopNewsStep ==
  ASSUME TypeOK, StoppedStaysEmpty, StopNews, [Next]_vars
  PROVE  StopNews'
<1>. USE DEF TypeOK
<1>1. ASSUME UNCHANGED <<conn, nudge>>, phase' = phase, daemon' = daemon,
             daemon = "returned" => call' \notin {"attach", "purge", "spawn"}
      PROVE  StopNews'
  BY <1>1 DEF StopNews
<1>2. ASSUME NEW c \in Conns, Registry(c) PROVE StopNews'
  <2>1. daemon = "running" /\ UNCHANGED <<phase, connVars, runVars>>
    BY <1>2 DEF Registry, EnsureLookup, SpawnLookup, AttachRefused, Remove, StopBegin, Idle,
       stopVars
  <2>. QED BY <1>1, <2>1 DEF connVars, runVars
<1>3. ASSUME NEW c \in Conns, Connection(c) PROVE StopNews'
  <2>1. UNCHANGED <<phase, daemon, call>>
    BY <1>3 DEF Connection, Accept, RegisterConnection, Leave, ResponseFails, AckDelivered,
       AckLost, Disconnect, stopVars, callVars, runVars
  <2>2. \A d \in Conns : conn'[d] = "acking" => conn[d] = "acking"
    BY <1>3 DEF Connection, Accept, RegisterConnection, Leave, ResponseFails, AckDelivered,
       AckLost, Disconnect, ConnTypes
  <2>3. nudge' = "sent" => phase = "stopping"
    BY <1>3 DEF Connection, Accept, RegisterConnection, Leave, ResponseFails, AckDelivered,
       AckLost, Disconnect, StopNews, runVars
  <2>. QED BY <2>1, <2>2, <2>3 DEF StopNews
<1>4. ASSUME NEW i \in Ids, Session(i) PROVE StopNews'
  BY <1>1, <1>4 DEF Session, ChildExit, ReaderEnds, StopNews, stopVars, callVars, connVars, runVars
<1>5. CASE EnsureAttach \/ PurgeDead \/ SpawnChild \/ SpawnFails \/ StopCount
  <2>1. UNCHANGED <<phase, connVars, runVars>>
    BY <1>5 DEF EnsureAttach, PurgeDead, SpawnChild, SpawnFails, StopCount, stopVars
  <2>2. daemon = "returned" => call' \notin {"attach", "purge", "spawn"}
    BY <1>5 DEF EnsureAttach, PurgeDead, SpawnChild, SpawnFails, StopCount, Release, StopNews
  <2>. QED BY <1>1, <2>1, <2>2 DEF connVars, runVars
<1>6. CASE StopCommit
  BY <1>6 DEF StopCommit, Release, StopNews
<1>7. CASE RunReturns
  BY <1>7 DEF RunReturns, StopNews, StoppedStaysEmpty, stopVars, callVars, connVars
<1>8. CASE AcceptFails
  BY <1>8 DEF AcceptFails, StopNews, stopVars, callVars, connVars
<1>9. CASE UNCHANGED vars
  BY <1>1, <1>9 DEF vars, StopNews, stopVars, callVars, connVars, runVars
<1>. QED BY <1>2, <1>3, <1>4, <1>5, <1>6, <1>7, <1>8, <1>9 DEF Next, Holder

-----------------------------------------------------------------------------
LEMMA IInvInit == Init => IInv
<1>. SUFFICES ASSUME Init PROVE IInv OBVIOUS
<1>1. TypeOK BY TypeInit
<1>2. SessionFacts /\ LookupHolds /\ StopHolds /\ StoppedStaysEmpty
  BY DEF Init, SessionFacts, OnlyFailedSpawnsStray, OneShellPerKey, FreshIds, LookupHolds,
         StopHolds, StoppedStaysEmpty
<1>5. StopNews BY DEF Init, StopNews
<1>3. Counted = {} /\ connections = 0 BY DEF Init, Counted
<1>4. Counting BY <1>3, FS_EmptySet DEF Counting
<1>. QED BY <1>1, <1>2, <1>4, <1>5 DEF IInv

LEMMA IInvStep == IInv /\ [Next]_vars => IInv'
<1>. SUFFICES ASSUME IInv, [Next]_vars PROVE IInv' OBVIOUS
<1>1. TypeOK'
  BY SessionStep, CallTypesStep, ConnStep DEF IInv, TypeOK
<1>2. SessionFacts' BY FactsStep DEF IInv, TypeOK
<1>3. LookupHolds' /\ StopHolds' BY LookupStep, StopStep DEF IInv
<1>4. StoppedStaysEmpty' BY StoppedStep DEF IInv
<1>5. Counting' BY ConnStep DEF IInv
<1>6. StopNews' BY StopNewsStep DEF IInv
<1>. QED BY <1>1, <1>2, <1>3, <1>4, <1>5, <1>6 DEF IInv

(* The inductive invariant holds in every reachable state.                  *)
THEOREM Invariant == Spec => []IInv
  BY IInvInit, IInvStep, PTL DEF Spec

(* The registry's variables have their types; in particular the counter of  *)
(* connections never goes below zero.                                       *)
THEOREM TypeCorrect == Spec => []TypeOK
<1>1. IInv => TypeOK BY DEF IInv
<1>. QED BY <1>1, Invariant, PTL

(* A (workspace, pane) key never has two running shells.                    *)
THEOREM OneShell == Spec => []OneShellPerKey
<1>1. IInv => OneShellPerKey BY DEF IInv, SessionFacts
<1>. QED BY <1>1, Invariant, PTL

(* The shells the daemon loses track of are exactly those that a failed     *)
(* spawn left running: any other that runs is in the map.                   *)
THEOREM OnlyFailuresStray == Spec => []OnlyFailedSpawnsStray
<1>1. IInv => OnlyFailedSpawnsStray BY DEF IInv, SessionFacts
<1>. QED BY <1>1, Invariant, PTL

(* An accepted stop leaves the registry empty for good.                     *)
THEOREM StoppedEmpty == Spec => []StoppedStaysEmpty
<1>1. IInv => StoppedStaysEmpty BY DEF IInv
<1>. QED BY <1>1, Invariant, PTL

(* No Ensure and no Spawn ends a live session.                              *)
THEOREM EnsureSpares == Spec => EnsureSparesLive
<1>1. ASSUME IInv, [Next]_vars PROVE SparesLive
  <2>. SUFFICES ASSUME call' # call, call \in {"attach", "purge", "spawn"},
                       NEW i \in Ids, Alive(i)
                PROVE  child'[i] = "running" /\ reader'[i] = "open"
    BY DEF SparesLive
  <2>. USE DEF IInv, TypeOK
  <2>0. ASSUME NEW S \in SUBSET Ids, DropSessions(S), i \notin S
        PROVE  child'[i] = "running" /\ reader'[i] = "open"
    BY <1>1, <2>0, DropFacts DEF Alive
  <2>1. EnsureAttach \/ PurgeDead \/ SpawnChild \/ SpawnFails
    BY <1>1 DEF Next, Registry, Connection, Session, Holder, EnsureLookup, SpawnLookup,
       AttachRefused, Remove, StopBegin, Idle, StopCount, StopCommit, Accept,
       RegisterConnection, Leave, ResponseFails, AckDelivered, AckLost, Disconnect,
       ChildExit, ReaderEnds, RunReturns, AcceptFails, vars, callVars
  <2>2. CASE EnsureAttach
    <3>1. CASE Alive(callId) BY <2>2, <3>1 DEF EnsureAttach, sessionVars, Alive
    <3>2. CASE ~Alive(callId)
      <4>1. DropSessions({callId}) /\ callId \in Ids
        BY <1>1, <2>2, <3>2 DEF EnsureAttach, CallTypes, SessionTypes
      <4>. QED BY <2>0, <3>2, <4>1
    <3>. QED BY <3>1, <3>2
  <2>3. CASE PurgeDead
    <3>1. DropSessions(Matching(callKey) \ Live(callKey)) BY <2>3 DEF PurgeDead
    <3>2. Matching(callKey) \ Live(callKey) \in SUBSET Ids
      BY <1>1 DEF Matching, SessionTypes
    <3>3. i \notin Matching(callKey) \ Live(callKey) BY DEF Matching, Live
    <3>. QED BY <2>0, <3>1, <3>2, <3>3
  <2>4. CASE SpawnChild \/ SpawnFails
    <3>1. nextId \in Ids /\ i # nextId
      BY <1>1, <2>4 DEF SpawnChild, SpawnFails, CallTypes, SessionTypes, SessionFacts,
         FreshIds, Alive, Ids
    <3>. QED BY <1>1, <2>4, <3>1 DEF SpawnChild, SpawnFails, SessionTypes, Alive
  <2>. QED BY <2>1, <2>2, <2>3, <2>4
<1>. QED BY <1>1, Invariant, PTL DEF Spec, EnsureSparesLive

(* A stop that is not forced ends no running shell.                         *)
THEOREM GentleStopProved == Spec => UnforcedStopKillsNothing
<1>1. ASSUME IInv, [Next]_vars PROVE GentleStop
  <2>. SUFFICES ASSUME call = "commit", callKind # "force", call' # call,
                       NEW i \in Ids, child[i] = "running"
                PROVE  child'[i] = "running"
    BY DEF GentleStop
  <2>. USE DEF IInv, TypeOK
  <2>1. i \notin sessions
    BY <1>1 DEF StopHolds, ExitConfirmed
  <2>2. StopCommit
    BY <1>1 DEF Next, Registry, Connection, Session, Holder, EnsureLookup, SpawnLookup,
       AttachRefused, Remove, StopBegin, Idle, EnsureAttach, PurgeDead, SpawnChild, SpawnFails,
       StopCount, Accept, RegisterConnection, Leave, ResponseFails, AckDelivered, AckLost,
       Disconnect, ChildExit, ReaderEnds, RunReturns, AcceptFails, vars, callVars
  <2>4. DropSessions(sessions)
    BY <2>2 DEF StopCommit
  <2>. QED BY <1>1, <2>1, <2>4, DropFacts DEF SessionTypes
<1>. QED BY <1>1, Invariant, PTL DEF Spec, UnforcedStopKillsNothing

(* A retirement is accepted only while its requester is the one connection. *)
THEOREM RetiresAloneProved == Spec => RetiresAlone
<1>1. ASSUME IInv PROVE AloneWhenRetiring
  BY <1>1 DEF IInv, StopHolds, AloneWhenRetiring
<1>. QED BY <1>1, Invariant, PTL DEF Spec, RetiresAlone

(* What the safety of StopEndsDaemon rests on: whoever accepted a stop has  *)
(* its acknowledgement to write or to lose, or the broadcast is out.        *)
StopIsHeard ==
  phase = "stopping" => daemon = "returned" \/ nudge = "sent" \/ \E c \in Conns : conn[c] = "acking"

(* What has ended stays ended: an id handed out keeps its key, and neither  *)
(* a shell nor a map entry ever comes back under it.                        *)
Final == \A i \in 1 .. (nextId - 1) :
  /\ key'[i] = key[i]
  /\ child[i] # "running" => child'[i] # "running"
  /\ i \notin sessions => i \notin sessions'

(* The safety part of StopEndsDaemon: no order of acknowledgements, lost    *)
(* responses and departures loses the news of an accepted stop.             *)
THEOREM StopHeard == Spec => []StopIsHeard
<1>1. Init => StopIsHeard
  BY DEF Init, StopIsHeard
<1>2. IInv /\ StopIsHeard /\ [Next]_vars => StopIsHeard'
  <2> SUFFICES ASSUME IInv, StopIsHeard, [Next]_vars PROVE StopIsHeard'
    OBVIOUS
  <2>1. ASSUME UNCHANGED <<phase, daemon, nudge, conn>> PROVE StopIsHeard'
    BY <2>1 DEF StopIsHeard
  <2>2. ASSUME nudge' = "sent" \/ daemon' = "returned" PROVE StopIsHeard'
    BY <2>2 DEF StopIsHeard
  <2>3. ASSUME UNCHANGED <<phase, daemon, nudge>>, \A c \in Conns : conn[c] = "acking" => conn'[c] = "acking"
        PROVE  StopIsHeard'
    BY <2>3 DEF StopIsHeard
  <2>4. ASSUME NEW c \in Conns, Connection(c) PROVE StopIsHeard'
    <3>1. CASE AckDelivered(c)
      BY <3>1, <2>2 DEF AckDelivered
    <3>2. CASE AckLost(c)
      <4>1. phase = "stopping"
        BY <3>2 DEF IInv, StopNews, AckLost
      <4>2. QED BY <3>2, <4>1, <2>2 DEF AckLost
    <3>3. CASE ResponseFails(c)
      <4>1. \A d \in Conns : conn[d] = "acking" => conn'[d] = "acking"
        BY <3>3 DEF ResponseFails, IInv, TypeOK, ConnTypes
      <4>2. phase' = phase /\ daemon' = daemon /\ nudge' \in {nudge, "sent"}
        BY <3>3 DEF ResponseFails, stopVars
      <4>3. QED BY <4>1, <4>2, <2>2, <2>3
    <3>4. CASE Accept(c) \/ RegisterConnection(c) \/ Leave(c) \/ Disconnect(c)
      <4>1. \A d \in Conns : conn[d] = "acking" => conn'[d] = "acking"
        BY <3>4 DEF Accept, RegisterConnection, Leave, Disconnect, IInv, TypeOK, ConnTypes
      <4>2. UNCHANGED <<phase, daemon, nudge>>
        BY <3>4 DEF Accept, RegisterConnection, Leave, Disconnect, stopVars, runVars
      <4>3. QED BY <4>1, <4>2, <2>3
    <3>5. QED BY <2>4, <3>1, <3>2, <3>3, <3>4 DEF Connection
  <2>5. CASE StopCommit
    <3>1. caller \in Conns
      BY <2>5 DEF StopCommit, IInv, TypeOK, CallTypes
    <3>2. conn'[caller] = "acking"
      BY <2>5, <3>1 DEF StopCommit, IInv, TypeOK, ConnTypes
    <3>3. QED BY <3>1, <3>2 DEF StopIsHeard
  <2>6. CASE RunReturns \/ AcceptFails
    BY <2>6, <2>2 DEF RunReturns, AcceptFails
  <2>7. QED
    BY <2>1, <2>4, <2>5, <2>6 DEF Next, Registry, Session, Holder, EnsureLookup, SpawnLookup, AttachRefused,
       Remove, StopBegin, StopCount, EnsureAttach, PurgeDead, SpawnChild, SpawnFails, ChildExit, ReaderEnds,
       vars, stopVars, connVars, runVars
<1>3. QED BY <1>1, <1>2, Invariant, PTL DEF Spec

(* No call brings a session back or uses an id twice, failed spawns included. *)
THEOREM EndedIsFinal == Spec => [][Final]_vars
<1>1. ASSUME IInv, [Next]_vars PROVE Final
  <2> SUFFICES ASSUME NEW i \in 1 .. (nextId - 1)
               PROVE  /\ key'[i] = key[i]
                      /\ child[i] # "running" => child'[i] # "running"
                      /\ i \notin sessions => i \notin sessions'
    BY DEF Final
  <2>0. i \in Ids /\ i # nextId /\ nextId \in Nat /\ MaxId \in Nat
    BY <1>1, MaxIdAssumption DEF IInv, TypeOK, SessionTypes, Ids
  <2>1. CASE Fewer
    BY <2>0, <2>1 DEF Fewer
  <2>2. CASE SpawnChild \/ SpawnFails
    BY <1>1, <2>0, <2>2 DEF SpawnChild, SpawnFails, IInv, TypeOK, SessionTypes
  <2>3. QED BY <1>1, <2>1, <2>2, SessionStep DEF IInv, TypeOK
<1>2. QED BY <1>1, Invariant, PTL DEF Spec

-----------------------------------------------------------------------------
(* The refinement. A key's abstract shell is its one running child.         *)
LEMMA ShellValue ==
  ASSUME OneShellPerKey, NEW k \in Keys
  PROVE  /\ ShellOf[k] = 0 <=> Running[k] = {}
         /\ \A i \in Running[k] : ShellOf[k] = i
<1>1. \A i \in Ids : i # 0 BY DEF Ids
<1>2. \A i, j \in Running[k] : i = j BY DEF Running, OneShellPerKey
<1>3. Running[k] # {} => (CHOOSE i \in Running[k] : TRUE) \in Running[k]
  OBVIOUS
<1>. QED BY <1>1, <1>2, <1>3 DEF ShellOf, OneOf, Running

(* The same children run: the same shells. *)
LEMMA SameShells ==
  ASSUME \A k \in Keys : Running'[k] = Running[k]
  PROVE  ShellOf' = ShellOf
  BY DEF ShellOf

(* One key's children change: its shell changes. *)
LEMMA OneOfNone == OneOf({}) = 0
  BY DEF OneOf

LEMMA OneShellChanges ==
  ASSUME NEW k0 \in Keys, \A k \in Keys : k # k0 => Running'[k] = Running[k]
  PROVE  ShellOf' = [ShellOf EXCEPT ![k0] = OneOf(Running'[k0])]
  BY DEF ShellOf

LEMMA DropRunning ==
  ASSUME SessionTypes, NEW S \in SUBSET Ids, DropSessions(S), NEW k \in Keys
  PROVE  Running'[k] = Running[k] \ S
<1>1. \A i \in Ids : child'[i] = "running" <=> child[i] = "running" /\ i \notin S
  BY DropFacts
<1>2. key' = key /\ failed' = failed BY DropFacts DEF Fewer
<1>. QED BY <1>1, <1>2 DEF Running

(* Dropping sessions of one key ends at most its shell.                     *)
LEMMA DropEnds ==
  ASSUME SessionTypes, OneShellPerKey, NEW S \in SUBSET Ids, DropSessions(S),
         NEW k0, \A i \in S : key[i] = k0
  PROVE  \/ ShellOf' = ShellOf
         \/ k0 \in Keys /\ ShellOf[k0] # 0 /\ ShellOf' = [ShellOf EXCEPT ![k0] = 0]
<1>1. \A k \in Keys : Running'[k] = Running[k] \ S
  BY DropRunning
<1>2. \A k \in Keys : k # k0 => Running'[k] = Running[k]
  BY <1>1 DEF Running
<1>3. CASE k0 \notin Keys \/ Running[k0] \intersect S = {}
  <2>1. \A k \in Keys : Running'[k] = Running[k] BY <1>1, <1>2, <1>3
  <2>. QED BY <2>1, SameShells
<1>4. CASE k0 \in Keys /\ Running[k0] \intersect S # {}
  <2>1. \A i, j \in Running[k0] : i = j BY <1>4 DEF Running, OneShellPerKey
  <2>2. PICK x \in Running[k0] : x \in S BY <1>4
  <2>5. Running[k0] = {x} BY <2>1, <2>2
  <2>6. Running'[k0] = {} BY <1>1, <1>4, <2>2, <2>5
  <2>3. ShellOf[k0] # 0 BY <1>4, ShellValue
  <2>4. ShellOf' = [ShellOf EXCEPT ![k0] = 0] BY <1>2, <1>4, <2>6, OneShellChanges, OneOfNone
  <2>. QED BY <1>4, <2>3, <2>4
<1>. QED BY <1>3, <1>4

(* Dropping every session ends every shell.                                 *)
LEMMA DropAll ==
  ASSUME SessionTypes, OnlyFailedSpawnsStray, DropSessions(sessions)
  PROVE  ShellOf' = [k \in Keys |-> 0]
<1>1. \A k \in Keys : Running'[k] = Running[k] \ sessions BY DropRunning DEF SessionTypes
<1>2. \A k \in Keys : Running'[k] = {} BY <1>1 DEF Running, OnlyFailedSpawnsStray
<1>. QED BY <1>2 DEF ShellOf, OneOf

LEMMA RefinesInit == Init => Shells!Init
<1>. SUFFICES ASSUME Init PROVE Shells!Init OBVIOUS
<1>1. ShellOf = [k \in Keys |-> 0]
  BY DEF Init, ShellOf, OneOf, Running
<1>2. nextId - 1 = 0 BY DEF Init
<1>3. Door = "open" BY DEF Init, Door
<1>. QED BY <1>1, <1>2, <1>3 DEF Shells!Init

LEMMA RefinesStep ==
  ASSUME IInv, IInv', [Next]_vars
  PROVE  [Shells!Next]_(Shells!vars)
<1>. DEFINE Goal == [Shells!Next]_(Shells!vars)
<1>. USE DEF IInv, TypeOK, SessionFacts
<1>1. ASSUME ShellOf' = ShellOf, nextId' = nextId, Door' = Door PROVE Goal
  BY <1>1 DEF Shells!vars
<1>2. ASSUME NEW S \in SUBSET Ids, DropSessions(S), NEW k0, \A i \in S : key[i] = k0,
             UNCHANGED <<phase, daemon>>
      PROVE  Goal
  <2>1. nextId' = nextId /\ Door' = Door BY <1>2 DEF DropSessions, Door
  <2>2. CASE ShellOf' = ShellOf BY <1>1, <2>1, <2>2
  <2>3. CASE k0 \in Keys /\ ShellOf[k0] # 0 /\ ShellOf' = [ShellOf EXCEPT ![k0] = 0]
    BY <2>1, <2>3 DEF Shells!Next, Shells!End
  <2>. QED BY <1>2, <2>2, <2>3, DropEnds
<1>3. ASSUME DropSessions(sessions), Door' = "shut" PROVE Goal
  <2>1. nextId' = nextId BY <1>3 DEF DropSessions
  <2>2. ShellOf' = [k \in Keys |-> 0] BY <1>3, DropAll
  <2>. QED BY <1>3, <2>1, <2>2 DEF Shells!Next, Shells!Shut
<1>4. ASSUME UNCHANGED sessionVars, Door' = Door PROVE Goal
  <2>1. ShellOf' = ShellOf /\ nextId' = nextId BY <1>4 DEF sessionVars, ShellOf, Running
  <2>. QED BY <1>1, <1>4, <2>1
<1>5. ASSUME NEW c \in Conns, Registry(c) PROVE Goal
  <2>1. ASSUME NEW i \in Ids, AttachRefused(c, i) \/ Remove(c, i) PROVE Goal
    <3>1. DropSessions({i}) /\ UNCHANGED <<phase, daemon>>
      BY <2>1 DEF AttachRefused, Remove, stopVars, runVars
    <3>2. \A j \in {i} : key[j] = key[i] OBVIOUS
    <3>. QED BY <1>2, <3>1, <3>2
  <2>2. CASE ~\E i \in Ids : AttachRefused(c, i) \/ Remove(c, i)
    <3>1. UNCHANGED <<sessionVars, phase, daemon>>
      BY <1>5, <2>2 DEF Registry, EnsureLookup, SpawnLookup, StopBegin, stopVars, runVars
    <3>. QED BY <1>4, <3>1 DEF Door
  <2>. QED BY <2>1, <2>2
<1>6. ASSUME NEW c \in Conns, Connection(c) PROVE Goal
  <2>1. UNCHANGED <<sessionVars, phase, daemon>>
    BY <1>6 DEF Connection, Accept, RegisterConnection, Leave, ResponseFails, AckDelivered,
       AckLost, Disconnect, stopVars, runVars
  <2>. QED BY <1>4, <2>1 DEF Door
<1>7. ASSUME NEW i \in Ids, ChildExit(i) PROVE Goal
  <2>1. UNCHANGED <<key, nextId, failed, phase, daemon>> /\ child' = [child EXCEPT ![i] = "exited"]
    BY <1>7 DEF ChildExit, stopVars, runVars
  <2>2. \A k \in Keys : Running'[k] = Running[k] \ {i}
    BY <2>1 DEF Running, SessionTypes
  <2>3. Door' = Door BY <2>1 DEF Door
  <2>4. CASE \A k \in Keys : i \notin Running[k]
    <3>1. \A k \in Keys : Running'[k] = Running[k] BY <2>2, <2>4
    <3>. QED BY <1>1, <2>1, <2>3, <3>1, SameShells
  <2>5. ASSUME NEW k0 \in Keys, i \in Running[k0] PROVE Goal
    <3>1. \A j \in Running[k0] : j = i BY <2>5 DEF Running, OneShellPerKey
    <3>2. Running'[k0] = {} BY <2>2, <3>1
    <3>3. \A k \in Keys : k # k0 => Running'[k] = Running[k]
      BY <2>2, <2>5 DEF Running
    <3>4. ShellOf[k0] # 0 BY <2>5, ShellValue
    <3>5. ShellOf' = [ShellOf EXCEPT ![k0] = 0] BY <3>2, <3>3, OneShellChanges, OneOfNone
    <3>. QED BY <2>1, <2>3, <3>4, <3>5 DEF Shells!Next, Shells!End
  <2>. QED BY <2>4, <2>5
<1>8. ASSUME NEW i \in Ids, ReaderEnds(i) PROVE Goal
  <2>1. ShellOf' = ShellOf /\ nextId' = nextId /\ Door' = Door
    BY <1>8 DEF ReaderEnds, ShellOf, Running, Door, stopVars, runVars
  <2>. QED BY <1>1, <2>1
<1>9. CASE EnsureAttach
  <2>1. CASE Alive(callId)
    BY <1>4, <1>9, <2>1 DEF EnsureAttach, Door, stopVars, runVars
  <2>2. CASE ~Alive(callId)
    <3>1. DropSessions({callId}) /\ callId \in Ids /\ UNCHANGED <<phase, daemon>>
      BY <1>9, <2>2 DEF EnsureAttach, CallTypes, SessionTypes, stopVars, runVars
    <3>2. \A j \in {callId} : key[j] = key[callId] OBVIOUS
    <3>. QED BY <1>2, <3>1, <3>2
  <2>. QED BY <2>1, <2>2
<1>10. CASE PurgeDead
  <2>1. DropSessions(Matching(callKey) \ Live(callKey)) /\ UNCHANGED <<phase, daemon>>
    BY <1>10 DEF PurgeDead, stopVars, runVars
  <2>2. Matching(callKey) \ Live(callKey) \in SUBSET Ids BY DEF Matching, SessionTypes
  <2>3. \A i \in Matching(callKey) \ Live(callKey) : key[i] = callKey BY DEF Matching
  <2>. QED BY <1>2, <2>1, <2>2, <2>3
<1>11. CASE SpawnChild
  <2>1. phase = "accepting" /\ daemon = "running" /\ UNCHANGED <<phase, daemon>>
    BY <1>11 DEF SpawnChild, CallTypes, ConnTypes, StoppedStaysEmpty, StopNews, stopVars, runVars
  <2>2. Door = "open" /\ Door' = "open" BY <2>1 DEF Door
  <2>3. callKey \in Keys /\ nextId \in Ids
    BY <1>11 DEF SpawnChild, CallTypes, SessionTypes, Ids
  <2>4. child[nextId] = "none" /\ nextId \notin failed BY <2>3 DEF FreshIds, Ids
  <2>5. Running[callKey] = {}
    BY <1>11, <2>3 DEF SpawnChild, LookupHolds, OnlyFailedSpawnsStray, Running
  <2>6. Running'[callKey] = {nextId}
    BY <1>11, <2>3, <2>4, <2>5 DEF SpawnChild, Running, SessionTypes
  <2>7. \A k \in Keys : k # callKey => Running'[k] = Running[k]
    BY <1>11, <2>3, <2>4 DEF SpawnChild, Running, SessionTypes
  <2>8. ShellOf' = [ShellOf EXCEPT ![callKey] = nextId]
    <3>1. OneOf({nextId}) = nextId BY DEF OneOf
    <3>. QED BY <2>3, <2>6, <2>7, <3>1, OneShellChanges
  <2>9. ShellOf[callKey] = 0 BY <2>3, <2>5 DEF ShellOf, OneOf
  <2>10. nextId \in Nat /\ nextId' = nextId + 1
    BY <1>11, <2>3 DEF SpawnChild, Ids
  <2>11. (nextId - 1)' = (nextId - 1) + 1 /\ (nextId - 1) + 1 = nextId
    BY <2>10
  <2>12. Shells!Start(callKey)
    BY <2>2, <2>8, <2>9, <2>11 DEF Shells!Start
  <2>. QED BY <2>3, <2>12 DEF Shells!Next
<1>12. CASE SpawnFails
  <2>1. phase = "accepting" /\ daemon = "running" /\ UNCHANGED <<phase, daemon>>
    BY <1>12 DEF SpawnFails, CallTypes, ConnTypes, StoppedStaysEmpty, StopNews, stopVars, runVars
  <2>2. Door = "open" /\ Door' = "open" BY <2>1 DEF Door
  <2>3. nextId \in Ids
    BY <1>12 DEF SpawnFails, CallTypes, SessionTypes, Ids
  <2>4. child[nextId] = "none" /\ nextId \notin failed BY <2>3 DEF FreshIds, Ids
  <2>5. \A k \in Keys : Running'[k] = Running[k]
    BY <1>12, <2>3, <2>4 DEF SpawnFails, Running, SessionTypes
  <2>6. nextId \in Nat /\ nextId' = nextId + 1
    BY <1>12, <2>3 DEF SpawnFails, Ids
  <2>7. (nextId - 1)' = (nextId - 1) + 1 BY <2>6
  <2>8. Shells!Burn BY <2>2, <2>5, <2>7, SameShells DEF Shells!Burn
  <2>. QED BY <2>8 DEF Shells!Next
<1>13. CASE StopCount
  BY <1>4, <1>13 DEF StopCount, Door, stopVars, runVars
<1>14. CASE StopCommit
  BY <1>3, <1>14 DEF StopCommit, Door
<1>15. CASE RunReturns
  BY <1>4, <1>15 DEF RunReturns, Door, StopNews, stopVars
<1>16. CASE AcceptFails
  BY <1>3, <1>16 DEF AcceptFails, Door
<1>17. CASE UNCHANGED vars
  BY <1>4, <1>17 DEF vars, Door, stopVars, runVars
<1>. QED BY <1>5, <1>6, <1>7, <1>8, <1>9, <1>10, <1>11, <1>12, <1>13, <1>14, <1>15, <1>16, <1>17
         DEF Next, Holder, Session

(* The registry implements the abstract keyed shells.                       *)
THEOREM Implements == Spec => ImplementsKeyedShells
<1>1. IInv /\ IInv' /\ [Next]_vars => [Shells!Next]_(Shells!vars)
  BY RefinesStep
<1>. QED BY <1>1, RefinesInit, Invariant, PTL
         DEF Spec, ImplementsKeyedShells, Shells!Spec
-----------------------------------------------------------------------------
(* Once a stop was accepted or the accept loop returned, no shell runs but  *)
(* those a failed spawn left behind, which no kill and no stop reaches.     *)
ShutIsEmpty ==
  phase = "stopping" \/ daemon = "returned" => \A i \in Ids \ failed : child[i] # "running"

(* A shell is spawned for a key. *)
RunsForKey == \A i \in Ids : child[i] = "running" => key[i] \in Keys

(* The abstract shells: a shut door is behind nobody, and stays shut.       *)
ShutAbstract == Door = "shut" => \A k \in Keys : ShellOf[k] = 0

LEMMA ShutStep ==
  ASSUME ShutAbstract, [Shells!Next]_(Shells!vars)
  PROVE  ShutAbstract'
<1>1. CASE Shells!Burn
  BY <1>1 DEF Shells!Burn, ShutAbstract
<1>2. CASE Shells!Shut
  BY <1>2 DEF Shells!Shut, ShutAbstract
<1>3. ASSUME NEW k \in Keys, Shells!Start(k) PROVE ShutAbstract'
  BY <1>3 DEF Shells!Start, ShutAbstract
<1>4. ASSUME NEW k \in Keys, Shells!End(k) PROVE ShutAbstract'
  <2>1. Door' = Door /\ ShellOf' = [ShellOf EXCEPT ![k] = 0]
    BY <1>4 DEF Shells!End
  <2>2. \A m \in Keys : ShellOf'[m] = 0 \/ ShellOf'[m] = ShellOf[m]
    <3>1. DOMAIN ShellOf = Keys
      BY DEF ShellOf
    <3>2. QED BY <2>1, <3>1
  <2>3. QED BY <2>1, <2>2 DEF ShutAbstract
<1>5. CASE UNCHANGED Shells!vars
  BY <1>5 DEF Shells!vars, ShutAbstract
<1>6. QED BY <1>1, <1>2, <1>3, <1>4, <1>5 DEF Shells!Next

(* No shell of a successful spawn outlives a stop or the accept loop:       *)
(* proved of KeyedShells, it holds of the registry because that implements  *)
(* it.                                                                      *)
THEOREM NothingRunsWhenShut == Spec => []ShutIsEmpty
<1>1. Init => ShutAbstract /\ RunsForKey
  BY DEF Init, ShutAbstract, Door, RunsForKey
<1>2. IInv /\ IInv' /\ ShutAbstract /\ [Next]_vars => ShutAbstract'
  BY RefinesStep, ShutStep
<1>3. IInv /\ RunsForKey /\ [Next]_vars => RunsForKey'
  <2> SUFFICES ASSUME IInv, RunsForKey, [Next]_vars PROVE RunsForKey'
    OBVIOUS
  <2>1. CASE Fewer
    BY <2>1 DEF Fewer, RunsForKey
  <2>2. CASE SpawnChild
    BY <2>2 DEF SpawnChild, RunsForKey, IInv, TypeOK, SessionTypes, CallTypes
  <2>3. CASE SpawnFails
    BY <2>3 DEF SpawnFails, RunsForKey, IInv, TypeOK, SessionTypes, CallTypes
  <2>4. QED BY <2>1, <2>2, <2>3, SessionStep DEF IInv, TypeOK
<1>4. IInv /\ ShutAbstract /\ RunsForKey => ShutIsEmpty
  <2> SUFFICES ASSUME IInv, ShutAbstract, RunsForKey, phase = "stopping" \/ daemon = "returned",
                      NEW i \in Ids \ failed, child[i] = "running"
               PROVE  FALSE
    BY DEF ShutIsEmpty
  <2>1. key[i] \in Keys /\ i \in Running[key[i]]
    BY DEF RunsForKey, Running
  <2>2. ShellOf[key[i]] = i
    BY <2>1, ShellValue DEF IInv, SessionFacts
  <2>3. ShellOf[key[i]] = 0
    BY <2>1 DEF ShutAbstract, Door
  <2>4. QED BY <2>2, <2>3 DEF Ids
<1>5. QED BY <1>1, <1>2, <1>3, <1>4, Invariant, PTL DEF Spec
=============================================================================
