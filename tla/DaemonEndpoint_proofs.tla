------------------------- MODULE DaemonEndpoint_proofs -------------------------
(***************************************************************************)
(* Proofs about DaemonEndpoint, for every set of launchers, releases and    *)
(* number of attempts.                                                      *)
(***************************************************************************)
EXTENDS DaemonEndpoint, TLAPS

(* Before the window has a connection its record holds none.                *)
Unconnected == {"connect", "spawn", "failed"}

(* A launcher that dials, greets, retires or is up has a connection.        *)
ConnKept == \A l \in Launchers :
              ui[l].at \in {"verify", "hello", "retire", "up"} => ui[l].conn \in Daemons

(* Only a daemon that lost its file gets to undo its bind.                  *)
NoUndo == ~stolen => \A d \in Daemons : pc[d] # "undo"

(* Without a crash, a registered connection is one to a daemon that serves. *)
ServedWhileUp == ~ended => \A l \in Launchers :
                   ui[l].at \in {"retire", "up"} => pc[ui[l].conn] = "serving"

(* Until it has spawned its daemon a launcher probes or awaits, and it does  *)
(* not return to that: it spawns once.                                       *)
Starting == {"probe", "await"}
SpawnsOnce == \A l \in Launchers :
                /\ ui[l].goal \in Starting => pc[l] = "unborn"
                /\ ui[l].at \in {"spawn", "retire"} => ui[l].goal \in Starting

Follows(q, r) == /\ q.goal \in Starting => r.goal \in Starting
                 /\ q.at \in {"spawn", "retire"} => q.goal \in Starting

IInv == TypeOK /\ ConnKept /\ GuardHolds /\ NoUndo /\ ServedWhileUp /\ SpawnsOnce

(* Every failed dial leaves a launcher without a connection.                *)
LEMMA FailedDial ==
  ASSUME NEW r \in Launcher, NEW b \in BOOLEAN
  PROVE  /\ NoEndpoint(r) \in Launcher /\ NoEndpoint(r).at \in Unconnected /\ Follows(NoEndpoint(r), r)
         /\ Retried(r, b) \in Launcher /\ Retried(r, b).at \in Unconnected /\ Follows(Retried(r, b), r)
         /\ Denied(r) \in Launcher /\ Denied(r).at \in Unconnected /\ Follows(Denied(r), r)
         /\ Attached(r) \in Launcher /\ Attached(r).at \in Unconnected /\ Follows(Attached(r), r)
<1>1. r.attempt < Attempts => r.attempt + 1 \in 0 .. Attempts
  BY EndpointAssumption DEF Launcher
<1>2. r.attempt < Attempts \/ r.attempt = Attempts
  BY EndpointAssumption DEF Launcher
<1>3. NoEndpoint(r) \in Launcher /\ NoEndpoint(r).at \in Unconnected /\ Follows(NoEndpoint(r), r)
  BY DEF NoEndpoint, Launcher, Unconnected, Follows, Starting
<1>4. Retried(r, b) \in Launcher /\ Retried(r, b).at \in Unconnected /\ Follows(Retried(r, b), r)
  <2>1. CASE r.goal # "probe"
    <3>1. Retried(r, b) = [r EXCEPT !.at = "connect", !.conn = None]
      BY <2>1 DEF Retried
    <3>2. QED BY <2>1, <3>1 DEF Launcher, Unconnected, Follows, Starting
  <2>2. CASE r.goal = "probe" /\ r.attempt < Attempts
    <3>1. r.attempt # Attempts
      BY <2>2, EndpointAssumption DEF Launcher
    <3>2. Retried(r, b) = [r EXCEPT !.at = "connect", !.conn = None, !.attempt = r.attempt + 1]
      BY <2>2, <3>1 DEF Retried
    <3>3. QED BY <3>2, <1>1, <2>2 DEF Launcher, Unconnected, Follows, Starting
  <2>3. CASE r.goal = "probe" /\ r.attempt = Attempts
    <3>1. Retried(r, b) = [r EXCEPT !.at = IF b THEN "spawn" ELSE "failed", !.conn = None]
      BY <2>3, EndpointAssumption DEF Retried
    <3>2. QED BY <2>3, <3>1 DEF Launcher, Unconnected, Follows, Starting
  <2>4. QED BY <1>2, <2>1, <2>2, <2>3
<1>5. Denied(r) \in Launcher /\ Denied(r).at \in Unconnected /\ Follows(Denied(r), r)
  BY DEF Denied, Launcher, Unconnected, Follows, Starting
<1>6. Attached(r) \in Launcher /\ Attached(r).at \in Unconnected /\ Follows(Attached(r), r)
  BY DEF Attached, Launcher, Unconnected, Follows, Starting
<1>7. QED BY <1>3, <1>4, <1>5, <1>6

LEMMA InitInv == Init => IInv
<1>1. SUFFICES ASSUME Init PROVE IInv
  OBVIOUS
<1>2. file \in Daemons \union {None} /\ pc \in [Daemons -> Steps]
  BY <1>1 DEF Init, Daemons, Steps
<1>3. ui \in [Launchers -> Launcher]
  BY <1>1, EndpointAssumption DEF Init, Launcher
<1>4. TypeOK
  BY <1>1, <1>2, <1>3 DEF Init, TypeOK
<1>5. ConnKept /\ ServedWhileUp
  BY <1>1 DEF Init, ConnKept, ServedWhileUp
<1>6. GuardHolds /\ NoUndo
  BY <1>1 DEF Init, GuardHolds, NoUndo, Owners
<1>7. SpawnsOnce
  BY <1>1, EndpointAssumption DEF Init, SpawnsOnce, Starting, Daemons
<1>8. QED BY <1>4, <1>5, <1>6, <1>7 DEF IInv

(* A step of a launcher that leaves the daemons alone keeps the invariant    *)
(* if its new record is well-formed and it registers only with a daemon that *)
(* serves.                                                                   *)
LEMMA LauncherMoves ==
  ASSUME IInv, NEW l \in Launchers, NEW r \in Launcher, Set(l, r), UNCHANGED pc,
         Follows(r, ui[l]),
         r.at \in {"verify", "hello", "retire", "up"} => r.conn \in Daemons,
         r.at \in {"retire", "up"} => pc[r.conn] = "serving"
  PROVE  IInv'
<1>1. /\ ui' = [ui EXCEPT ![l] = r]
      /\ UNCHANGED <<file, private, pc, stolen, ended>>
  BY DEF Set
<1>2. ui \in [Launchers -> Launcher]
  BY DEF IInv, TypeOK
<1>3. TypeOK'
  BY <1>1, <1>2 DEF IInv, TypeOK
<1>4. ConnKept' /\ ServedWhileUp'
  BY <1>1, <1>2 DEF IInv, ConnKept, ServedWhileUp
<1>5. GuardHolds' /\ NoUndo'
  BY <1>1 DEF IInv, GuardHolds, NoUndo, Owners
<1>6. SpawnsOnce'
  BY <1>1, <1>2 DEF IInv, SpawnsOnce, Follows
<1>7. QED BY <1>3, <1>4, <1>5, <1>6 DEF IInv

(* A step of a daemon that never was in service, or leaves it.               *)
LEMMA DaemonStepInv ==
  ASSUME IInv, NEW d \in Daemons, DaemonStep(d) \/ RunEnds(d) \/ Crash(d)
  PROVE  IInv'
<1>1. /\ pc \in [Daemons -> Steps] /\ ui \in [Launchers -> Launcher]
      /\ file \in Daemons \union {None} /\ None \notin Daemons
      /\ private \in BOOLEAN /\ stolen \in BOOLEAN /\ ended \in BOOLEAN
  BY EndpointAssumption DEF IInv, TypeOK
<1>2. ui' = ui
  BY DEF DaemonStep, Stat, ProbeBeforeBind, Restat, RemoveStale, Bind, Listen,
         SetPermissions, UndoBind, DropServer, RunEnds, Crash
<1>3. \E s \in Steps : pc' = [pc EXCEPT ![d] = s]
  BY <1>1 DEF DaemonStep, Stat, ProbeBeforeBind, Restat, RemoveStale, Bind, Listen,
         SetPermissions, UndoBind, DropServer, RunEnds, Crash, Goes, Steps
<1>4. TypeOK'
  BY <1>1, <1>2, <1>3 DEF TypeOK, DaemonStep, Stat, ProbeBeforeBind, Restat, RemoveStale, Bind,
         Listen, SetPermissions, UndoBind, DropServer, RunEnds, Crash
<1>5. ConnKept'
  BY <1>2 DEF IInv, ConnKept
<1>6. ServedWhileUp'
  <2>1. ended' \/ (ended' = ended /\ (pc[d] = "serving" => pc'[d] = "serving"))
    BY <1>1 DEF DaemonStep, Stat, ProbeBeforeBind, Restat, RemoveStale, Bind, Listen,
         SetPermissions, UndoBind, DropServer, RunEnds, Crash
  <2>2. \A e \in Daemons : e # d => pc'[e] = pc[e]
    BY <1>1, <1>3
  <2>3. ASSUME NEW l \in Launchers, ui[l].at \in {"retire", "up"} PROVE ui[l].conn \in Daemons
    BY <2>3 DEF IInv, ConnKept
  <2>4. QED BY <1>2, <2>1, <2>2, <2>3 DEF IInv, ServedWhileUp
<1>7. GuardHolds' /\ NoUndo'
  <2>1. SUFFICES ASSUME ~stolen'
                 PROVE  /\ \A e \in Owners' : file' = e
                        /\ \A e \in Daemons : pc'[e] # "undo"
    BY DEF GuardHolds, NoUndo
  <2>2. ~stolen
    BY <2>1 DEF DaemonStep, Stat, ProbeBeforeBind, Restat, RemoveStale, Bind, Listen,
         SetPermissions, UndoBind, DropServer, RunEnds, Crash
  <2>3. (\A e \in Owners : file = e) /\ \A e \in Daemons : pc[e] # "undo"
    BY <2>2 DEF IInv, GuardHolds, NoUndo
  <2>4. CASE Stat(d) \/ ProbeBeforeBind(d) \/ Restat(d) \/ RunEnds(d) \/ Crash(d)
    BY <1>1, <2>3, <2>4 DEF Stat, ProbeBeforeBind, Restat, RunEnds, Crash, Goes, Owners
  <2>5. CASE RemoveStale(d)
    <3>1. file \notin Owners
      BY <2>1, <2>5 DEF RemoveStale
    <3>2. Owners = {}
      BY <3>1, <2>3 DEF Owners
    <3>3. QED BY <1>1, <2>3, <2>5, <3>2 DEF RemoveStale, Goes, Owners
  <2>6. CASE Bind(d)
    <3>1. CASE file = None
      <4>1. Owners = {}
        BY <3>1, <2>3, <1>1 DEF Owners
      <4>2. QED BY <1>1, <2>3, <2>6, <3>1, <4>1 DEF Bind, Goes, Owners
    <3>2. CASE file # None
      BY <1>1, <2>3, <2>6, <3>2 DEF Bind, Goes, Owners
    <3>3. QED BY <3>1, <3>2
  <2>7. CASE Listen(d)
    BY <1>1, <2>3, <2>7 DEF Listen, Goes, Owners
  <2>8. CASE SetPermissions(d)
    <3>1. file = d
      BY <2>3, <2>8 DEF SetPermissions, Owners
    <3>2. QED BY <1>1, <2>3, <2>8, <3>1 DEF SetPermissions, Goes, Owners
  <2>9. CASE UndoBind(d)
    BY <2>3, <2>9 DEF UndoBind
  <2>10. CASE DropServer(d)
    <3>1. file = d
      BY <2>3, <2>10 DEF DropServer, Owners
    <3>2. \A e \in Owners : e = d
      BY <3>1, <2>3
    <3>3. QED BY <1>1, <2>3, <2>10, <3>2 DEF DropServer, Goes, Owners
  <2>11. QED BY <2>4, <2>5, <2>6, <2>7, <2>8, <2>9, <2>10 DEF DaemonStep
<1>8. SpawnsOnce'
  <2>1. pc[d] # "unborn" /\ \A e \in Daemons : e # d => pc'[e] = pc[e]
    BY <1>1, <1>3 DEF DaemonStep, Stat, ProbeBeforeBind, Restat, RemoveStale, Bind, Listen,
         SetPermissions, UndoBind, DropServer, RunEnds, Crash
  <2>2. QED BY <1>2, <2>1 DEF IInv, SpawnsOnce, Daemons
<1>9. QED BY <1>4, <1>5, <1>6, <1>7, <1>8 DEF IInv

LEMMA LauncherStepInv ==
  ASSUME IInv, NEW l \in Launchers, LauncherStep(l) \/ Deadline(l) \/ Quit(l)
  PROVE  IInv'
<1> DEFINE r == ui[l]
<1>1. /\ r \in Launcher /\ ui \in [Launchers -> Launcher] /\ pc \in [Daemons -> Steps]
      /\ file \in Daemons \union {None} /\ None \notin Listening
      /\ r.at \in {"verify", "hello", "retire", "up"} => r.conn \in Daemons
  BY EndpointAssumption DEF IInv, TypeOK, ConnKept, Listening
<1>2. ASSUME NEW q \in Launcher, q.at \in Unconnected, Follows(q, r), Set(l, q), UNCHANGED pc
      PROVE  IInv'
  BY <1>2, LauncherMoves DEF Unconnected
<1>3. CASE Connect(l)
  <2>1. CASE file = None
    <3>1. Set(l, NoEndpoint(r)) /\ UNCHANGED pc
      BY <1>1, <1>3, <2>1 DEF Connect
    <3>2. QED BY <3>1, <1>1, <1>2, FailedDial
  <2>2. CASE file # None /\ file \in Listening
    <3>1. Set(l, [r EXCEPT !.at = "verify", !.conn = file]) /\ UNCHANGED pc
      BY <1>3, <2>2 DEF Connect
    <3>2. /\ [r EXCEPT !.at = "verify", !.conn = file] \in Launcher
          /\ [r EXCEPT !.at = "verify", !.conn = file].at = "verify"
          /\ [r EXCEPT !.at = "verify", !.conn = file].conn \in Daemons
          /\ Follows([r EXCEPT !.at = "verify", !.conn = file], r)
      BY <1>1, <2>2 DEF Launcher, Listening, Follows
    <3>3. QED BY <3>1, <3>2, LauncherMoves
  <2>3. CASE file # None /\ file \notin Listening
    <3>1. Set(l, Retried(r, TRUE)) /\ UNCHANGED pc
      BY <1>3, <2>3 DEF Connect
    <3>2. QED BY <3>1, <1>1, <1>2, FailedDial
  <2>4. QED BY <2>1, <2>2, <2>3
<1>4. CASE Verify(l)
  <2>1. CASE file = None
    <3>1. Set(l, NoEndpoint(r)) /\ UNCHANGED pc
      BY <1>4, <2>1 DEF Verify
    <3>2. QED BY <3>1, <1>1, <1>2, FailedDial
  <2>2. CASE file # None /\ private
    <3>1. Set(l, [r EXCEPT !.at = "hello"]) /\ UNCHANGED pc
      BY <1>4, <2>2 DEF Verify
    <3>2. /\ [r EXCEPT !.at = "hello"] \in Launcher
          /\ [r EXCEPT !.at = "hello"].at = "hello"
          /\ [r EXCEPT !.at = "hello"].conn \in Daemons
          /\ Follows([r EXCEPT !.at = "hello"], r)
      BY <1>1, <1>4 DEF Launcher, Verify, Follows
    <3>3. QED BY <3>1, <3>2, LauncherMoves
  <2>3. CASE file # None /\ ~private
    <3>1. Set(l, Denied(r)) /\ UNCHANGED pc
      BY <1>4, <2>3 DEF Verify
    <3>2. QED BY <3>1, <1>1, <1>2, FailedDial
  <2>4. QED BY <2>1, <2>2, <2>3
<1>5. CASE Hello(l)
  <2> DEFINE d == r.conn
  <2>1. r.at = "hello" /\ d \in Daemons /\ pc[d] = "serving" /\ UNCHANGED pc
    BY <1>1, <1>5 DEF Hello
  <2>2. CASE r.goal = "bridge"
    <3>1. Set(l, [r EXCEPT !.at = "up"])
      BY <1>5, <2>2 DEF Hello
    <3>2. /\ [r EXCEPT !.at = "up"] \in Launcher
          /\ [r EXCEPT !.at = "up"].conn = d
          /\ Follows([r EXCEPT !.at = "up"], r)
      BY <1>1 DEF Launcher, Follows
    <3>3. QED BY <2>1, <3>1, <3>2, LauncherMoves
  <2>3. CASE r.goal = "probe" /\ Release[d] < Release[l]
    <3>1. Set(l, [r EXCEPT !.at = "retire", !.old = d])
      BY <1>5, <2>3 DEF Hello
    <3>2. /\ [r EXCEPT !.at = "retire", !.old = d] \in Launcher
          /\ [r EXCEPT !.at = "retire", !.old = d].conn = d
          /\ Follows([r EXCEPT !.at = "retire", !.old = d], r)
      BY <1>1, <2>1, <2>3 DEF Launcher, Follows, Starting
    <3>3. QED BY <2>1, <3>1, <3>2, LauncherMoves
  <2>4. CASE r.goal = "await" /\ Release[d] = Release[r.old]
    <3>1. Set(l, Retried(r, FALSE))
      BY <1>5, <2>4 DEF Hello
    <3>2. QED BY <2>1, <3>1, <1>1, <1>2, FailedDial
  <2>5. CASE /\ r.goal # "bridge" /\ ~(r.goal = "probe" /\ Release[d] < Release[l])
             /\ ~(r.goal = "await" /\ Release[d] = Release[r.old])
    <3>1. Set(l, Attached(r))
      BY <1>5, <2>5 DEF Hello
    <3>2. QED BY <2>1, <3>1, <1>1, <1>2, FailedDial
  <2>6. QED BY <2>2, <2>3, <2>4, <2>5
<1>6. CASE HangUp(l)
  <2>1. Set(l, Retried(r, FALSE)) /\ UNCHANGED pc
    BY <1>6 DEF HangUp
  <2>2. QED BY <2>1, <1>1, <1>2, FailedDial
<1>7. CASE Retire(l)
  <2> DEFINE d == r.conn
             q == [r EXCEPT !.at = "connect", !.goal = "await", !.conn = None]
  <2>1. r.at = "retire" /\ d \in Daemons /\ pc[d] = "serving"
    BY <1>1, <1>7 DEF Retire
  <2>2. q \in Launcher /\ q.at \in Unconnected /\ Follows(q, r)
    BY <1>1, <2>1 DEF Launcher, Unconnected, Follows, IInv, SpawnsOnce
  <2>3. CASE Set(l, Attached(r)) /\ UNCHANGED pc
    BY <2>3, <1>1, <1>2, FailedDial
  <2>4. CASE Registered(d) = {l} /\ Goes(d, "leaving") /\ (Set(l, q) \/ Set(l, Retried(r, FALSE)))
    <3>1. PICK n \in Launcher : n.at \in Unconnected /\ Follows(n, r) /\ Set(l, n)
      BY <2>2, <2>4, <1>1, FailedDial
    <3>2. /\ ui' = [ui EXCEPT ![l] = n] /\ pc' = [pc EXCEPT ![d] = "leaving"]
          /\ UNCHANGED <<file, private, stolen, ended>>
      BY <3>1, <2>4 DEF Set, Goes
    <3>3. TypeOK'
      BY <3>2, <1>1, <2>1 DEF IInv, TypeOK, Steps
    <3>4. ConnKept'
      BY <3>1, <3>2, <1>1 DEF IInv, ConnKept, Unconnected
    <3>5. ServedWhileUp'
      <4>1. ASSUME NEW m \in Launchers, ui'[m].at \in {"retire", "up"}
            PROVE  m # l /\ ui'[m] = ui[m] /\ ui[m].conn \in Daemons /\ ui[m].conn # d
        <5>1. m # l
          BY <4>1, <3>1, <3>2, <1>1 DEF Unconnected
        <5>2. ui'[m] = ui[m]
          BY <5>1, <3>2, <1>1
        <5>3. ui[m].conn # d
          BY <5>1, <5>2, <4>1, <2>4 DEF Registered
        <5>4. QED BY <4>1, <5>1, <5>2, <5>3 DEF IInv, ConnKept
      <4>2. QED BY <4>1, <3>2, <1>1 DEF IInv, ServedWhileUp
    <3>6. GuardHolds' /\ NoUndo'
      <4>1. Owners' = Owners
        BY <3>2, <2>1, <1>1 DEF Owners
      <4>2. QED BY <4>1, <3>2, <1>1, <2>1 DEF IInv, GuardHolds, NoUndo
    <3>7. SpawnsOnce'
      <4>1. r.goal \in Starting
        BY <2>1 DEF IInv, SpawnsOnce
      <4>2. ASSUME NEW m \in Launchers, ui'[m].goal \in Starting PROVE pc'[m] = "unborn"
        <5>1. ui[m].goal \in Starting
          BY <4>1, <4>2, <3>2, <1>1
        <5>2. pc[m] = "unborn"
          BY <5>1 DEF IInv, SpawnsOnce
        <5>3. QED BY <5>2, <2>1, <3>2, <1>1 DEF Daemons
      <4>3. QED BY <4>2, <3>1, <3>2, <1>1 DEF IInv, SpawnsOnce, Follows
    <3>8. QED BY <3>3, <3>4, <3>5, <3>6, <3>7 DEF IInv
  <2>5. QED BY <1>7, <2>3, <2>4 DEF Retire
<1>8. CASE Spawn(l)
  <2>1. CASE Set(l, [r EXCEPT !.at = "failed"]) /\ UNCHANGED pc
    <3>1. /\ [r EXCEPT !.at = "failed"] \in Launcher /\ [r EXCEPT !.at = "failed"].at \in Unconnected
          /\ Follows([r EXCEPT !.at = "failed"], r)
      BY <1>1 DEF Launcher, Unconnected, Follows
    <3>2. QED BY <2>1, <3>1, <1>2
  <2>2. CASE Goes(l, "stat") /\ Set(l, [r EXCEPT !.at = "connect", !.goal = "wait"])
    <3> DEFINE n == [r EXCEPT !.at = "connect", !.goal = "wait"]
    <3>1. n \in Launcher /\ n.at = "connect" /\ n.goal \notin Starting
      BY <1>1 DEF Launcher, Starting
    <3>2. /\ ui' = [ui EXCEPT ![l] = n] /\ pc' = [pc EXCEPT ![l] = "stat"]
          /\ UNCHANGED <<file, private, stolen, ended>>
      BY <2>2 DEF Set, Goes
    <3>3. l \in Daemons /\ pc[l] = "unborn"
      BY <1>8 DEF Daemons, Spawn, IInv, SpawnsOnce
    <3>4. TypeOK'
      BY <3>1, <3>2, <3>3, <1>1 DEF IInv, TypeOK, Steps
    <3>5. ConnKept'
      BY <3>1, <3>2, <1>1 DEF IInv, ConnKept
    <3>6. ServedWhileUp'
      <4>1. ASSUME NEW m \in Launchers, ui'[m].at \in {"retire", "up"}
            PROVE  m # l /\ ui'[m] = ui[m] /\ ui[m].conn \in Daemons
        BY <4>1, <3>1, <3>2, <1>1 DEF IInv, ConnKept
      <4>2. QED BY <4>1, <3>2, <3>3, <1>1 DEF IInv, ServedWhileUp
    <3>7. GuardHolds' /\ NoUndo'
      BY <3>2, <3>3, <1>1 DEF IInv, GuardHolds, NoUndo, Owners
    <3>8. SpawnsOnce'
      BY <3>1, <3>2, <1>1 DEF IInv, SpawnsOnce, Daemons
    <3>9. QED BY <3>4, <3>5, <3>6, <3>7, <3>8 DEF IInv
  <2>3. QED BY <1>8, <2>1, <2>2 DEF Spawn
<1>9. CASE Deadline(l)
  <2> DEFINE p == [r EXCEPT !.goal = "probe"]
             q == [r EXCEPT !.at = "failed", !.conn = None]
  <2>1. p \in Launcher
    BY <1>1 DEF Launcher, Starting
  <2>2. CASE r.goal \in Starting
    <3>1. Set(l, Retried(p, FALSE)) /\ UNCHANGED pc
      BY <1>9, <2>2 DEF Deadline, Starting
    <3>2. Follows(Retried(p, FALSE), r)
      BY <2>1, <2>2, FailedDial DEF Follows
    <3>3. QED BY <3>1, <3>2, <2>1, <1>2, FailedDial
  <2>3. CASE r.goal \notin Starting
    <3>1. Set(l, q) /\ UNCHANGED pc
      BY <1>9, <2>3 DEF Deadline, Starting
    <3>2. q \in Launcher /\ q.at \in Unconnected /\ Follows(q, r)
      BY <1>1 DEF Launcher, Unconnected, Follows
    <3>3. QED BY <3>1, <3>2, <1>2
  <2>4. QED BY <2>2, <2>3
<1>10. CASE Quit(l)
  <2>1. /\ [r EXCEPT !.at = "quit", !.conn = None] \in Launcher
        /\ [r EXCEPT !.at = "quit", !.conn = None].at = "quit"
        /\ Follows([r EXCEPT !.at = "quit", !.conn = None], r)
    BY <1>1 DEF Launcher, Follows
  <2>2. QED BY <1>10, <2>1, LauncherMoves DEF Quit
<1>11. QED BY <1>3, <1>4, <1>5, <1>6, <1>7, <1>8, <1>9, <1>10 DEF LauncherStep

(* The invariant holds in every reachable state.                            *)
THEOREM Inductive == Spec => []IInv
<1>1. IInv /\ [Next]_vars => IInv'
  <2>1. SUFFICES ASSUME IInv, [Next]_vars PROVE IInv'
    OBVIOUS
  <2>2. CASE UNCHANGED vars
    BY <2>1, <2>2 DEF vars, IInv, TypeOK, ConnKept, GuardHolds, NoUndo, ServedWhileUp, SpawnsOnce,
                      Owners
  <2>3. ASSUME NEW d \in Daemons, DaemonStep(d) \/ RunEnds(d) \/ Crash(d) PROVE IInv'
    BY <2>1, <2>3, DaemonStepInv
  <2>4. ASSUME NEW l \in Launchers, LauncherStep(l) \/ Deadline(l) \/ Quit(l) PROVE IInv'
    BY <2>1, <2>4, LauncherStepInv
  <2>5. QED BY <2>1, <2>2, <2>3, <2>4 DEF Next
<1>2. QED BY InitInv, <1>1, PTL DEF Spec

(* The variables keep their types, for every set of launchers, releases and  *)
(* number of attempts.                                                       *)
THEOREM TypeCorrect == Spec => []TypeOK
<1>1. IInv => TypeOK
  BY DEF IInv
<1>2. QED BY <1>1, Inductive, PTL

(* Unless a daemon removed the socket file of a living one, every daemon in  *)
(* service owns the file at the path: Server::bind is a guard that crashes,  *)
(* upgrades and racing launchers do not break.                               *)
THEOREM GuardProved == Spec => []GuardHolds
<1>1. IInv => GuardHolds
  BY DEF IInv
<1>2. QED BY <1>1, Inductive, PTL

(* All windows that are up talk to one daemon, unless a file was stolen or a *)
(* daemon crashed or was ended: probing, retirement and the bridge's retries *)
(* of any number of launchers leave no window on a daemon that was replaced. *)
THEOREM OneForAll == Spec => []OneDaemonForAll
<1>1. IInv => OneDaemonForAll
  BY DEF IInv, OneDaemonForAll, ServedWhileUp, GuardHolds, ConnKept, Owners
<1>2. QED BY <1>1, Inductive, PTL

-----------------------------------------------------------------------------
(* How far a start has got: it looks for a daemon, waits for the one it      *)
(* spawned, or opens its window.                                             *)
Stage(goal) == CASE goal = "probe" -> 0 [] goal = "await" -> 0
                 [] goal = "wait" -> 1 [] goal = "bridge" -> 2

(* A launcher comes no step closer to where it has been: what is over stays  *)
(* over, failed probes are not forgotten, no earlier stage returns, and who  *)
(* awaited the end of a daemon probes again only at the price of an attempt. *)
Advances(q, r) ==
  /\ r.at \in {"quit", "failed"} => q = r
  /\ r.at = "up" => q = r \/ q.at = "quit"
  /\ q.attempt >= r.attempt
  /\ Stage(q.goal) >= Stage(r.goal)
  /\ r.goal = "await" /\ q.goal = "probe" => q.attempt > r.attempt \/ q.at = "failed"

(* ... at any step of any process.                                           *)
StartsForward == [][\A l \in Launchers : Advances(ui'[l], ui[l])]_vars

Running == {"connect", "verify", "hello", "retire", "spawn"}

LEMMA Still == ASSUME NEW r \in Launcher PROVE Advances(r, r)
BY EndpointAssumption DEF Advances, Stage, Launcher

LEMMA RetriedAdvances ==
  ASSUME NEW r \in Launcher, NEW b \in BOOLEAN, r.at \in Running
  PROVE  Advances(Retried(r, b), r)
<1>1. r.attempt \in Nat /\ Attempts \in Nat /\ (r.attempt < Attempts \/ r.attempt = Attempts)
  BY EndpointAssumption DEF Launcher
<1>2. CASE r.goal # "probe"
  <2>1. Retried(r, b) = [r EXCEPT !.at = "connect", !.conn = None]
    BY <1>2 DEF Retried
  <2>2. Retried(r, b).goal = r.goal /\ Retried(r, b).attempt = r.attempt
    BY <2>1 DEF Launcher
  <2>. QED
    BY <1>1, <1>2, <2>2 DEF Advances, Running, Launcher, Stage
<1>3. CASE r.goal = "probe" /\ r.attempt < Attempts
  <2>1. Retried(r, b) = [r EXCEPT !.at = "connect", !.conn = None, !.attempt = r.attempt + 1]
    BY <1>1, <1>3 DEF Retried
  <2>2. Retried(r, b).goal = "probe" /\ Retried(r, b).attempt = r.attempt + 1
    BY <1>3, <2>1 DEF Launcher
  <2>. QED
    BY <1>1, <1>3, <2>2 DEF Advances, Running, Stage
<1>4. CASE r.goal = "probe" /\ r.attempt = Attempts
  <2>1. Retried(r, b) = [r EXCEPT !.at = IF b THEN "spawn" ELSE "failed", !.conn = None]
    BY <1>1, <1>4 DEF Retried
  <2>2. Retried(r, b).goal = "probe" /\ Retried(r, b).attempt = r.attempt
    BY <1>4, <2>1 DEF Launcher
  <2>. QED
    BY <1>1, <1>4, <2>2 DEF Advances, Running, Stage
<1>. QED
  BY <1>1, <1>2, <1>3, <1>4

(* The other ends of a dial keep the number of attempts.                     *)
LEMMA DialAdvances ==
  ASSUME NEW r \in Launcher, r.at \in Running
  PROVE  Advances(NoEndpoint(r), r) /\ Advances(Denied(r), r) /\ Advances(Attached(r), r)
<1>1. r.attempt \in Nat
  BY EndpointAssumption DEF Launcher
<1>2. /\ NoEndpoint(r).goal = r.goal /\ NoEndpoint(r).attempt = r.attempt
      /\ Denied(r).goal = r.goal /\ Denied(r).attempt = r.attempt
      /\ Attached(r).goal = "bridge" /\ Attached(r).attempt = r.attempt
  BY DEF NoEndpoint, Denied, Attached, Launcher
<1>3. Stage(r.goal) \in 0 .. 2 /\ Stage("bridge") = 2
  BY DEF Stage, Launcher
<1>. QED
  BY <1>1, <1>2, <1>3 DEF Advances, Running

(* A launcher that runs keeps its attempts and its goal, or gets to a later  *)
(* one.                                                                      *)
LEMMA Later ==
  ASSUME NEW r \in Launcher, NEW q \in Launcher, r.at \in Running,
         q.attempt = r.attempt, Stage(q.goal) >= Stage(r.goal),
         r.goal = "await" => q.goal # "probe" \/ q.at = "failed"
  PROVE  Advances(q, r)
<1>1. r.attempt \in Nat
  BY EndpointAssumption DEF Launcher
<1>. QED
  BY <1>1 DEF Advances, Running

(* A launcher that goes back to probing pays for it, or has failed.          *)
LEMMA Paid ==
  ASSUME NEW r \in Launcher, NEW q, r.at \in Running, r.goal \in Starting, q.goal = "probe",
         \/ q.attempt = r.attempt + 1
         \/ q.attempt = r.attempt /\ q.at = "failed"
  PROVE  Advances(q, r)
<1>1. r.attempt \in Nat
  BY EndpointAssumption DEF Launcher
<1>2. Stage(r.goal) = 0 /\ Stage(q.goal) = 0
  BY DEF Stage, Starting
<1>. QED
  BY <1>1, <1>2 DEF Advances, Running

LEMMA DeadlineAdvances ==
  ASSUME NEW r \in Launcher, r.at \in Running, r.goal \in Starting
  PROVE  Advances(Retried([r EXCEPT !.goal = "probe"], FALSE), r)
<1>. DEFINE p == [r EXCEPT !.goal = "probe"]
<1>1. r.attempt \in Nat /\ Attempts \in Nat /\ (r.attempt < Attempts \/ r.attempt = Attempts)
  BY EndpointAssumption DEF Launcher
<1>2. p \in Launcher /\ p.goal = "probe" /\ p.attempt = r.attempt
  BY DEF Launcher
<1>3. CASE r.attempt < Attempts
  <2>1. Retried(p, FALSE) = [p EXCEPT !.at = "connect", !.conn = None, !.attempt = r.attempt + 1]
    BY <1>1, <1>2, <1>3 DEF Retried
  <2>2. Retried(p, FALSE).goal = "probe" /\ Retried(p, FALSE).attempt = r.attempt + 1
    BY <1>2, <2>1 DEF Launcher
  <2>. QED
    BY <2>2, Paid
<1>4. CASE r.attempt = Attempts
  <2>1. Retried(p, FALSE) = [p EXCEPT !.at = "failed", !.conn = None]
    BY <1>1, <1>2, <1>4 DEF Retried
  <2>2. /\ Retried(p, FALSE).goal = "probe" /\ Retried(p, FALSE).attempt = r.attempt
        /\ Retried(p, FALSE).at = "failed"
    BY <1>2, <2>1 DEF Launcher
  <2>. QED
    BY <2>2, Paid
<1>. QED
  BY <1>1, <1>3, <1>4

LEMMA LauncherAdvances ==
  ASSUME IInv, NEW l \in Launchers, LauncherStep(l) \/ Deadline(l) \/ Quit(l)
  PROVE  \E q : ui' = [ui EXCEPT ![l] = q] /\ Advances(q, ui[l])
<1>. DEFINE r == ui[l]
<1>1. r \in Launcher
  BY DEF IInv, TypeOK
<1>2. ASSUME NEW q, Set(l, q), Advances(q, r)
      PROVE  \E n : ui' = [ui EXCEPT ![l] = n] /\ Advances(n, r)
  BY <1>2 DEF Set
<1>3. CASE Connect(l)
  <2>1. r.at \in Running
    BY <1>3 DEF Connect, Running
  <2>2. CASE file = None
    <3>1. Set(l, NoEndpoint(r))
      BY <1>3, <2>2, EndpointAssumption DEF Connect, Listening
    <3>. QED  BY <1>1, <1>2, <2>1, <3>1, DialAdvances
  <2>3. CASE file # None /\ file \in Listening
    <3>. DEFINE q == [r EXCEPT !.at = "verify", !.conn = file]
    <3>1. Set(l, q)
      BY <1>3, <2>3 DEF Connect
    <3>2. q \in Launcher /\ q.attempt = r.attempt /\ q.goal = r.goal
      BY <1>1, <2>3 DEF Launcher, Listening
    <3>3. Stage(r.goal) \in 0 .. 2
      BY <1>1 DEF Launcher, Stage
    <3>. HIDE DEF q
    <3>4. Advances(q, r)
      BY <1>1, <2>1, <3>2, <3>3, Later
    <3>. QED  BY <1>2, <3>1, <3>4
  <2>4. CASE file # None /\ file \notin Listening
    <3>1. Set(l, Retried(r, TRUE))
      BY <1>3, <2>4 DEF Connect
    <3>. QED  BY <1>1, <1>2, <2>1, <3>1, RetriedAdvances
  <2>. QED  BY <2>2, <2>3, <2>4
<1>4. CASE Verify(l)
  <2>1. r.at \in Running
    BY <1>4 DEF Verify, Running
  <2>2. CASE file = None
    <3>1. Set(l, NoEndpoint(r))
      BY <1>4, <2>2 DEF Verify
    <3>. QED  BY <1>1, <1>2, <2>1, <3>1, DialAdvances
  <2>3. CASE file # None /\ private
    <3>. DEFINE q == [r EXCEPT !.at = "hello"]
    <3>1. Set(l, q)
      BY <1>4, <2>3 DEF Verify
    <3>2. q \in Launcher /\ q.attempt = r.attempt /\ q.goal = r.goal
      BY <1>1 DEF Launcher
    <3>3. Stage(r.goal) \in 0 .. 2
      BY <1>1 DEF Launcher, Stage
    <3>. HIDE DEF q
    <3>4. Advances(q, r)
      BY <1>1, <2>1, <3>2, <3>3, Later
    <3>. QED  BY <1>2, <3>1, <3>4
  <2>4. CASE file # None /\ ~private
    <3>1. Set(l, Denied(r))
      BY <1>4, <2>4 DEF Verify
    <3>. QED  BY <1>1, <1>2, <2>1, <3>1, DialAdvances
  <2>. QED  BY <2>2, <2>3, <2>4
<1>5. CASE Hello(l)
  <2>. DEFINE d == r.conn
  <2>1. r.at = "hello" /\ r.at \in Running /\ d \in Daemons
    BY <1>5 DEF Hello, Running, IInv, ConnKept
  <2>2. Stage(r.goal) \in 0 .. 2
    BY <1>1 DEF Launcher, Stage
  <2>3. CASE r.goal = "bridge"
    <3>. DEFINE q == [r EXCEPT !.at = "up"]
    <3>1. Set(l, q)
      BY <1>5, <2>3 DEF Hello
    <3>2. q \in Launcher /\ q.attempt = r.attempt /\ q.goal = r.goal
      BY <1>1 DEF Launcher
    <3>. HIDE DEF q
    <3>3. Advances(q, r)
      BY <1>1, <2>1, <2>2, <2>3, <3>2, Later
    <3>. QED  BY <1>2, <3>1, <3>3
  <2>4. CASE r.goal = "probe" /\ Release[d] < Release[l]
    <3>. DEFINE q == [r EXCEPT !.at = "retire", !.old = d]
    <3>1. Set(l, q)
      BY <1>5, <2>4 DEF Hello
    <3>2. q \in Launcher /\ q.attempt = r.attempt /\ q.goal = r.goal
      BY <1>1, <2>1 DEF Launcher
    <3>. HIDE DEF q
    <3>3. Advances(q, r)
      BY <1>1, <2>1, <2>2, <2>4, <3>2, Later
    <3>. QED  BY <1>2, <3>1, <3>3
  <2>5. CASE r.goal = "await" /\ Release[d] = Release[r.old]
    <3>1. Set(l, Retried(r, FALSE))
      BY <1>5, <2>5 DEF Hello
    <3>. QED  BY <1>1, <1>2, <2>1, <3>1, RetriedAdvances
  <2>6. CASE /\ r.goal # "bridge" /\ ~(r.goal = "probe" /\ Release[d] < Release[l])
             /\ ~(r.goal = "await" /\ Release[d] = Release[r.old])
    <3>1. Set(l, Attached(r))
      BY <1>5, <2>6 DEF Hello
    <3>. QED  BY <1>1, <1>2, <2>1, <3>1, DialAdvances
  <2>. QED  BY <2>3, <2>4, <2>5, <2>6
<1>6. CASE HangUp(l)
  <2>1. r.at \in Running /\ Set(l, Retried(r, FALSE))
    BY <1>6 DEF HangUp, Running
  <2>. QED  BY <1>1, <1>2, <2>1, RetriedAdvances
<1>7. CASE Retire(l)
  <2>. DEFINE q == [r EXCEPT !.at = "connect", !.goal = "await", !.conn = None]
  <2>1. r.at = "retire" /\ r.at \in Running /\ r.goal \in Starting
    BY <1>7 DEF Retire, Running, IInv, SpawnsOnce
  <2>2. /\ q \in Launcher /\ q.attempt = r.attempt /\ q.goal = "await"
        /\ Stage(q.goal) = 0 /\ Stage(r.goal) = 0
    BY <1>1, <2>1 DEF Launcher, Starting, Stage
  <2>3. Set(l, q) \/ Set(l, Retried(r, FALSE)) \/ Set(l, Attached(r))
    BY <1>7 DEF Retire
  <2>. HIDE DEF q
  <2>4. Advances(q, r)
    BY <1>1, <2>1, <2>2, Later
  <2>. QED  BY <1>1, <1>2, <2>1, <2>3, <2>4, RetriedAdvances, DialAdvances
<1>8. CASE Spawn(l)
  <2>. DEFINE q == [r EXCEPT !.at = "connect", !.goal = "wait"]
              n == [r EXCEPT !.at = "failed"]
  <2>1. r.at \in Running /\ r.goal \in Starting /\ (Set(l, q) \/ Set(l, n))
    BY <1>8 DEF Spawn, Running, IInv, SpawnsOnce
  <2>2. /\ q \in Launcher /\ q.attempt = r.attempt /\ q.goal = "wait"
        /\ n \in Launcher /\ n.attempt = r.attempt /\ n.goal = r.goal
        /\ Stage(q.goal) = 1 /\ Stage(r.goal) = 0
    BY <1>1, <2>1 DEF Launcher, Starting, Stage
  <2>. HIDE DEF q, n
  <2>3. Advances(q, r) /\ Advances(n, r)
    BY <1>1, <2>1, <2>2, Later
  <2>. QED  BY <1>2, <2>1, <2>3
<1>9. CASE Deadline(l)
  <2>1. r.at \in Running
    BY <1>9 DEF Deadline, Running
  <2>2. CASE r.goal \in Starting
    <3>1. Set(l, Retried([r EXCEPT !.goal = "probe"], FALSE))
      BY <1>9, <2>2 DEF Deadline, Starting
    <3>. QED  BY <1>1, <1>2, <2>1, <2>2, <3>1, DeadlineAdvances
  <2>3. CASE r.goal \notin Starting
    <3>. DEFINE q == [r EXCEPT !.at = "failed", !.conn = None]
    <3>1. Set(l, q)
      BY <1>9, <2>3 DEF Deadline, Starting
    <3>2. q \in Launcher /\ q.attempt = r.attempt /\ q.goal = r.goal /\ q.at = "failed"
      BY <1>1 DEF Launcher
    <3>3. Stage(r.goal) \in 0 .. 2
      BY <1>1 DEF Launcher, Stage
    <3>. HIDE DEF q
    <3>4. Advances(q, r)
      BY <1>1, <2>1, <3>2, <3>3, Later
    <3>. QED  BY <1>2, <3>1, <3>4
  <2>. QED  BY <2>2, <2>3
<1>10. CASE Quit(l)
  <2>. DEFINE q == [r EXCEPT !.at = "quit", !.conn = None]
  <2>1. Set(l, q) /\ r.at = "up"
    BY <1>10 DEF Quit
  <2>2. q.attempt = r.attempt /\ q.goal = r.goal /\ q.at = "quit" /\ r.attempt \in Nat
    BY <1>1, EndpointAssumption DEF Launcher
  <2>3. Stage(r.goal) \in 0 .. 2
    BY <1>1 DEF Launcher, Stage
  <2>4. Advances(q, r)
    BY <2>1, <2>2, <2>3 DEF Advances
  <2>. QED  BY <1>2, <2>1, <2>4
<1>. QED  BY <1>3, <1>4, <1>5, <1>6, <1>7, <1>8, <1>9, <1>10 DEF LauncherStep

(* A start never runs in circles, for any number of windows, releases and    *)
(* attempts: connect_or_spawn spawns at most one daemon, retires at most one *)
(* per attempt, and does not leave a result again. The safety part of        *)
(* StartEnds.                                                                *)
THEOREM StartsProceed == Spec => StartsForward
<1>1. IInv /\ [Next]_vars => [\A l \in Launchers : Advances(ui'[l], ui[l])]_vars
  <2>. SUFFICES ASSUME IInv, Next, NEW l \in Launchers PROVE Advances(ui'[l], ui[l])
    OBVIOUS
  <2>1. ui \in [Launchers -> Launcher] /\ ui[l] \in Launcher
    BY DEF IInv, TypeOK
  <2>2. CASE ui' = ui
    BY <2>1, <2>2, Still
  <2>3. ASSUME NEW d \in Daemons, DaemonStep(d) \/ RunEnds(d) \/ Crash(d) PROVE ui' = ui
    BY <2>3 DEF DaemonStep, Stat, ProbeBeforeBind, Restat, RemoveStale, Bind, Listen,
         SetPermissions, UndoBind, DropServer, RunEnds, Crash
  <2>4. ASSUME NEW m \in Launchers, LauncherStep(m) \/ Deadline(m) \/ Quit(m)
        PROVE  Advances(ui'[l], ui[l])
    <3>1. PICK q : ui' = [ui EXCEPT ![m] = q] /\ Advances(q, ui[m])
      BY <2>4, LauncherAdvances
    <3>2. CASE m = l
      BY <2>1, <3>1, <3>2
    <3>3. CASE m # l
      BY <2>1, <3>1, <3>3, Still
    <3>. QED  BY <3>2, <3>3
  <2>. QED
    BY <2>2, <2>3, <2>4 DEF Next
<1>. QED
  BY <1>1, Inductive, PTL DEF Spec, StartsForward
=============================================================================
