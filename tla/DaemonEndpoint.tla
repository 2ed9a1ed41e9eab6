---------------------------- MODULE DaemonEndpoint ----------------------------
(***************************************************************************)
(* The endpoint of the daemon on Unix: the socket file at the well-known   *)
(* path (transport/socket_unix.rs), the daemons that take it over           *)
(* (Server::bind, daemon/mod.rs), and the windows that find, upgrade or     *)
(* start a daemon through it (connect_or_spawn and connect_ui_client in     *)
(* daemon.rs).  Every call on the file system is a step of its own.         *)
(***************************************************************************)
EXTENDS Naturals, FiniteSets

CONSTANTS
  Launchers,     \* processes of the user interface that start
  Resident,      \* the daemon that an earlier run may have left
  Release,       \* per daemon: its release; a launcher spawns its own
  Attempts,      \* REBIND_RETRY_ATTEMPTS, 8 in the code
  None           \* no file, or no connection

Daemons == Launchers \union {Resident}

ASSUME EndpointAssumption ==
  /\ Resident \notin Launchers /\ None \notin Daemons
  /\ Release \in [Daemons -> Nat] /\ Attempts \in Nat

VARIABLES
  file,      \* the daemon whose socket file is at the path, or None
  private,   \* its mode is 0600
  pc,        \* per daemon: its next step
  ui,        \* per launcher: see Launcher
  stolen,    \* history: a socket file was removed while its daemon lived
  ended      \* history: a daemon ended other than by retirement

vars == <<file, private, pc, ui, stolen, ended>>

(* A launcher dials the endpoint with a goal: to probe for a daemon, to     *)
(* await the end of the one it retired, to wait for the one it spawned, or  *)
(* to bridge the window to it.                                              *)
Launcher == [at: {"connect", "verify", "hello", "retire", "spawn", "up", "quit", "failed"},
             goal: {"probe", "await", "wait", "bridge"},
             attempt: 0 .. Attempts, conn: Daemons \union {None}, old: Daemons \union {None}]

Steps == {"unborn", "stat", "probe", "restat", "remove", "bind", "listen",
          "chmod", "undo", "serving", "leaving", "gone", "crashed"}

(* The path is free, holds what a crashed daemon left, or a daemon serves.  *)
Init ==
  /\ \/ file = None /\ pc = [d \in Daemons |-> "unborn"]
     \/ file = Resident /\ pc \in {[d \in Daemons |-> IF d = Resident THEN s ELSE "unborn"] :
                                      s \in {"crashed", "serving"}}
  /\ private = TRUE
  /\ ui = [l \in Launchers |-> [at |-> "connect", goal |-> "probe", attempt |-> 0,
                                conn |-> None, old |-> None]]
  /\ stolen = FALSE /\ ended = FALSE

(* From the bind of the socket to the drop of the server.                   *)
Owners == {d \in Daemons : pc[d] \in {"listen", "chmod", "serving", "leaving"}}
(* Connections are queued from listen on, also before accept.               *)
Listening == {d \in Daemons : pc[d] \in {"chmod", "serving", "leaving"}}

Goes(d, s) == pc' = [pc EXCEPT ![d] = s]

-----------------------------------------------------------------------------
(* Server::bind: a file at the path is probed, and what does not answer is   *)
(* removed as stale, after a second look at it.                              *)
Stat(d) ==
  /\ pc[d] = "stat"
  /\ Goes(d, IF file = None THEN "bind" ELSE "probe")
  /\ UNCHANGED <<file, private, ui, stolen, ended>>

ProbeBeforeBind(d) ==
  /\ pc[d] = "probe"
  /\ Goes(d, IF file \in Listening THEN "gone" ELSE "restat")
  /\ UNCHANGED <<file, private, ui, stolen, ended>>

Restat(d) ==
  /\ pc[d] = "restat"
  /\ Goes(d, IF file = None THEN "gone" ELSE "remove")
  /\ UNCHANGED <<file, private, ui, stolen, ended>>

RemoveStale(d) ==
  /\ pc[d] = "remove"
  /\ Goes(d, IF file = None THEN "gone" ELSE "bind")
  /\ file' = None
  /\ stolen' = (stolen \/ file \in Owners)
  /\ UNCHANGED <<private, ui, ended>>

(* Mutant: the server guard is built before the bind, so its drop unlinks    *)
(* the path also when the bind was refused.                                  *)
BindGuardFirst(d) ==
  /\ pc[d] = "bind"
  /\ IF file = None THEN file' = d /\ private' = FALSE /\ Goes(d, "listen")
                    ELSE Goes(d, "leaving") /\ UNCHANGED <<file, private>>
  /\ UNCHANGED <<ui, stolen, ended>>

(* UnixListener::bind: bind(2), which refuses a path that exists, and       *)
(* listen(2); until then a connection is refused.                            *)
Bind(d) ==
  /\ pc[d] = "bind"
  /\ IF file = None THEN file' = d /\ private' = FALSE /\ Goes(d, "listen")
                    ELSE Goes(d, "gone") /\ UNCHANGED <<file, private>>
  /\ UNCHANGED <<ui, stolen, ended>>

Listen(d) ==
  /\ pc[d] = "listen" /\ Goes(d, "chmod")
  /\ UNCHANGED <<file, private, ui, stolen, ended>>

(* The mode is set by path: without a file the listener is dropped and what  *)
(* is at the path removed.                                                   *)
SetPermissions(d) ==
  /\ pc[d] = "chmod"
  /\ Goes(d, IF file = None THEN "undo" ELSE "serving")
  /\ private' = (private \/ file # None)
  /\ UNCHANGED <<file, ui, stolen, ended>>

UndoBind(d) ==
  /\ pc[d] = "undo" /\ Goes(d, "gone")
  /\ file' = None
  /\ UNCHANGED <<private, ui, stolen, ended>>

(* run ends: the server is dropped, which removes the file at the path.      *)
DropServer(d) ==
  /\ pc[d] = "leaving" /\ Goes(d, "gone")
  /\ file' = None
  /\ UNCHANGED <<private, ui, stolen, ended>>

(* The loop ends on a failed accept or a Shutdown of another client.         *)
RunEnds(d) ==
  /\ pc[d] = "serving" /\ Goes(d, "leaving")
  /\ ended' = TRUE
  /\ UNCHANGED <<file, private, ui, stolen>>

Crash(d) ==
  /\ pc[d] \notin {"unborn", "gone", "crashed"} /\ Goes(d, "crashed")
  /\ ended' = TRUE
  /\ UNCHANGED <<file, private, ui, stolen>>

-----------------------------------------------------------------------------
(* What a launcher does next, by its goal, when the endpoint does not exist, *)
(* fails in a way that is retried, or is not an owner-only socket.           *)
NoEndpoint(r) == [r EXCEPT !.at = IF r.goal \in {"probe", "await"} THEN "spawn" ELSE "connect",
                           !.conn = None]

Retried(r, refused) ==
  CASE r.goal # "probe"      -> [r EXCEPT !.at = "connect", !.conn = None]
    [] r.goal = "probe" /\ r.attempt < Attempts
                             -> [r EXCEPT !.at = "connect", !.conn = None, !.attempt = r.attempt + 1]
    [] r.goal = "probe" /\ r.attempt = Attempts
                             -> [r EXCEPT !.at = IF refused THEN "spawn" ELSE "failed", !.conn = None]

Denied(r) == [r EXCEPT !.at = IF r.goal = "wait" THEN "connect" ELSE "failed", !.conn = None]

(* The probe is over: its client is dropped, the window opens its own.       *)
Attached(r) == [r EXCEPT !.at = "connect", !.goal = "bridge", !.conn = None]

Set(l, r) == ui' = [ui EXCEPT ![l] = r] /\ UNCHANGED <<file, private, stolen, ended>>

Connect(l) ==
  /\ ui[l].at = "connect"
  /\ Set(l, CASE file = None        -> NoEndpoint(ui[l])
              [] file \in Listening -> [ui[l] EXCEPT !.at = "verify", !.conn = file]
              [] OTHER              -> Retried(ui[l], TRUE))
  /\ UNCHANGED pc

(* verify_server_owner looks at the path, not at the connection.             *)
Verify(l) ==
  /\ ui[l].at = "verify"
  /\ Set(l, CASE file = None              -> NoEndpoint(ui[l])
              [] file # None /\ private   -> [ui[l] EXCEPT !.at = "hello"]
              [] file # None /\ ~private  -> Denied(ui[l]))
  /\ UNCHANGED pc

(* The greeting of a daemon that serves; the connection is registered with   *)
(* it from here to its end.                                                  *)
Hello(l) ==
  LET r == ui[l]  d == r.conn IN
  /\ r.at = "hello" /\ pc[d] = "serving"
  /\ Set(l, CASE r.goal = "bridge" -> [r EXCEPT !.at = "up"]
              [] r.goal = "probe" /\ Release[d] < Release[l]  -> [r EXCEPT !.at = "retire", !.old = d]
              [] r.goal = "await" /\ Release[d] = Release[r.old] -> Retried(r, FALSE)
              [] OTHER             -> Attached(r))
  /\ UNCHANGED pc

(* The daemon ended before it answered.                                      *)
HangUp(l) ==
  /\ ui[l].at \in {"hello", "retire"} /\ pc[ui[l].conn] \in {"undo", "leaving", "gone", "crashed"}
  /\ Set(l, Retried(ui[l], FALSE))
  /\ UNCHANGED pc

Registered(d) == {l \in Launchers : ui[l].at \in {"retire", "up"} /\ ui[l].conn = d}

(* Mutant: a daemon retires without counting its other connections.          *)
RetireBusy(l) ==
  LET d == ui[l].conn IN
  /\ ui[l].at = "retire" /\ pc[d] = "serving" /\ Goes(d, "leaving")
  /\ Set(l, [ui[l] EXCEPT !.at = "connect", !.goal = "await", !.conn = None])

(* retire_if_idle: accepted only by a daemon without sessions and without    *)
(* another connection; the acknowledgement may be lost.                      *)
Retire(l) ==
  LET d == ui[l].conn IN
  /\ ui[l].at = "retire" /\ pc[d] = "serving"
  /\ \/ /\ Registered(d) = {l} /\ Goes(d, "leaving")
        /\ \/ Set(l, [ui[l] EXCEPT !.at = "connect", !.goal = "await", !.conn = None])
           \/ Set(l, Retried(ui[l], FALSE))
     \/ Set(l, Attached(ui[l])) /\ UNCHANGED pc

Spawn(l) ==
  /\ ui[l].at = "spawn"
  /\ \/ Goes(l, "stat") /\ Set(l, [ui[l] EXCEPT !.at = "connect", !.goal = "wait"])
     \/ Set(l, [ui[l] EXCEPT !.at = "failed"]) /\ UNCHANGED pc

(* Mutant: the wait for the retired daemon has no deadline.                  *)
DeadlineNotAwaiting(l) ==
  LET r == ui[l] IN
  /\ r.at \in {"connect", "verify", "hello", "retire"} /\ r.goal # "await"
  /\ Set(l, IF r.goal = "probe" THEN Retried(r, FALSE)
                               ELSE [r EXCEPT !.at = "failed", !.conn = None])
  /\ UNCHANGED pc

(* The time runs out: that of a probe is one more failed attempt, that of    *)
(* the others the end of the start.                                          *)
Deadline(l) ==
  LET r == ui[l] IN
  /\ r.at \in {"connect", "verify", "hello", "retire"}
  /\ Set(l, IF r.goal \in {"probe", "await"}
              THEN Retried([r EXCEPT !.goal = "probe"], FALSE)
              ELSE [r EXCEPT !.at = "failed", !.conn = None])
  /\ UNCHANGED pc

Quit(l) ==
  /\ ui[l].at = "up" /\ Set(l, [ui[l] EXCEPT !.at = "quit", !.conn = None])
  /\ UNCHANGED pc

-----------------------------------------------------------------------------
DaemonStep(d) == \/ Stat(d) \/ ProbeBeforeBind(d) \/ Restat(d) \/ RemoveStale(d) \/ Bind(d)
                 \/ Listen(d) \/ SetPermissions(d) \/ UndoBind(d) \/ DropServer(d)
LauncherStep(l) == Connect(l) \/ Verify(l) \/ Hello(l) \/ HangUp(l) \/ Retire(l) \/ Spawn(l)

Next == \/ \E d \in Daemons : DaemonStep(d) \/ RunEnds(d) \/ Crash(d)
        \/ \E l \in Launchers : LauncherStep(l) \/ Deadline(l) \/ Quit(l)

Spec == Init /\ [][Next]_vars

(* Processes are scheduled and timers expire; nothing has to end or crash.   *)
FairSpec ==
  /\ Spec
  /\ \A d \in Daemons : WF_vars(DaemonStep(d))
  /\ \A l \in Launchers : WF_vars(LauncherStep(l)) /\ WF_vars(Deadline(l))

-----------------------------------------------------------------------------
TypeOK ==
  /\ file \in Daemons \union {None} /\ private \in BOOLEAN
  /\ pc \in [Daemons -> Steps]
  /\ ui \in [Launchers -> Launcher]
  /\ stolen \in BOOLEAN /\ ended \in BOOLEAN

(* As long as no daemon removed the file of a living one, every daemon from  *)
(* its bind to the drop of its server owns the file at the path: two daemons *)
(* never serve, and a leaving daemon unlinks its own file only, whatever     *)
(* crashes.  The theft this excludes is real: a daemon whose probe found a   *)
(* stale file, or one between bind and listen, removes whatever is at the    *)
(* path later.                                                               *)
GuardHolds == ~stolen => \A d \in Owners : file = d

(* Without such a theft, and unless a daemon crashed or was ended, all       *)
(* windows that are up talk to the same daemon, through any upgrade that ran *)
(* in between (daemon.rs: spawning a second daemon over a healthy one would  *)
(* be wrong).                                                                *)
OneDaemonForAll ==
  ~stolen /\ ~ended =>
    \A l, m \in Launchers : ui[l].at = "up" /\ ui[m].at = "up" => ui[l].conn = ui[m].conn

(* Every launcher comes to an end, with a window that is up or a failed      *)
(* start, whatever daemons and other launchers do: the loop that awaits the  *)
(* end of a retired daemon does not wait for ever for one that stays.        *)
StartEnds == \A l \in Launchers : <>(ui[l].at \in {"up", "quit", "failed"})
=============================================================================
