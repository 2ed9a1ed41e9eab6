# Verification of the terminal manager

The repository holds a desktop terminal manager. A UI process shows panes; each
pane is a shell. The shells belong to a daemon, `unshit-ptyd`, that outlives the
UI: the UI may crash, close, or be upgraded, and the next one attaches to the
shells that still run. This directory holds TLA+ models of that core, the TLC
configurations that check them, and proofs of the most important results with
TLAPS.

    tlc -workers 2 -config MCPtySession.cfg MCPtySession.tla     model-check
    tlapm PtySession_proofs.tla                                  check proofs

## 1. Inventory

Paths are relative to the repository. `ptyd` stands for
`crates/unshit-ptyd/src`.

### The core: shells that survive their client

| Part | State | Operations | Talks to | Hard |
|---|---|---|---|---|
| PTY session (`ptyd/session/mod.rs`) | terminal grid, output sink with its token, child, reader thread, exit watcher | spawn, attach with snapshot, detach, write, resize, rename, kill; read loop; exit poll | registry calls it, forwarders receive its chunks | two locks taken by four kinds of threads, chunks sent outside any lock, panics, a child that exits while its PTY stays open |
| Session registry (`ptyd/session/registry.rs`) | sessions by id, next id, stop flag, connection count | ensure, spawn, attach, detach, remove, list, shutdown, retire, register a connection | every connection's handler | decisions on children that exit without the lock; stop racing spawn; retirement racing a new connection |
| Connection handler (`ptyd/daemon/handler.rs`) | forwarder tasks by session and token, the shared writer | one per request kind; forward; abort; cleanup | registry, client | tasks aborted at any await, also in the middle of a frame |
| Accept loop (`ptyd/daemon/mod.rs`) | listener, shutdown broadcast | accept, stop | handlers | lost acknowledgement, requests in flight when it returns |
| Client (`ptyd/client/mod.rs`) | pending responses by id, event channel, reader task | a round trip per request kind; reader loop; drop | daemon, shim | requests racing the end of the reader; full event channel |
| PTY shim (`src/pty.rs`) | panes to sessions, sizes, pending resizes, command channel; routes of output | spawn, attach or spawn, resize, destroy, kill, list, drop; worker; event loop | UI thread, client | latest-wins map shared by two threads; output that arrives before the response that names its session |
| Launcher (`src/daemon.rs`), transport (`ptyd/transport`) | socket file and its mode, daemon binary | probe, retire, spawn, connect; bind, unlink | daemon | two launchers, a stale file, a retiring daemon and its successor; every call on the file system races the others |
| Panes and workspaces (`src/state.rs`), their file (`src/persist.rs`), restoration (`src/pane_restore.rs`, `src/bridge.rs`, `src/main.rs`) | panes in view, tabs of the active workspace, tabs per workspace; terminals; layout file; sweep | open, split, close, move, extract, switch, kill; save and restore; attach at the start, sweep in the background, deferred spawn | shim, file | the layout is kept three times; a crash between a change and its save; a sweep that collected panes closed since |

What makes the core correct:

- a session: a chunk of output reaches a client by exactly one way, the snapshot
  or the stream, in order; the end of the shell always ends the stream;
- the registry: one shell per pane key, none lost but by a spawn that fails half
  way, none killed by who did not ask for it; after a stop nothing starts; a stop
  always ends the daemon;
- a connection: what a client reads is what was written; an ended attachment is
  silent; a closed connection leaves nothing behind and takes nothing of others;
- the client: every request returns;
- the shim: the last size asked for is the size a pane's shell has; output goes
  to the pane it belongs to; dropping the shim ends;
- the endpoint: a daemon owns the file at the path from its bind to its end, all
  windows reach the same daemon, and every start of a window comes to an end;
- the layout: a pane is in one tab of one workspace, a shell is in a pane that is
  shown somewhere or saved, and after a restart every pane has its terminal.

### Around the core

The terminal core (`crates/unshit-terminal-core`) is a sequential VT parser with
grid and scrollback. `src/state.rs` (22,800 lines) and `src/bridge.rs` are the
UI's state, behind one lock; of it the panes and workspaces above are modelled,
and settings, search, palettes and dialogs are not. Workers beside it: `src/git_watch.rs` (branches),
`src/updater` (check, download, verify, hand over), `src/voice` (recording and
transcription), `src/resource_monitor` (a sampler once a second),
`src/notifications.rs` (local IPC), `src/agent_restore` and `src/agents`
(resuming agent sessions), `src/telemetry_sink.rs` and the diagnostics crate
(rotating files). `src/editor`, `src/diff`, `src/diff_review`,
`src/flow_explorer`, `src/quick_prompt` and `src/ui` are views and data
structures. `crates/unshit-framework` is the UI toolkit; `xtask`, `scripts`,
`tools`, `plugins` and `packaging` build and release. PROJECT.json names each
with the reason why it is not modelled, or the plan.

## 2. The modules

    KeyedShells <---- implements --- SessionRegistry   sessions, connections
    TerminalStream <- implements --- PtySession        one session's threads
                |
          ConnectionWire  one connection's tasks and its socket
                |
          ClientRpc       requests, pending map, reader loop
                |
          PaneStream      output: forwarder, wire, event loop, reader
          ResizeQueue     resizes: UI thread, worker, daemon
                |
          PaneLayout      panes, tabs, workspaces, their file and shells

          DaemonEndpoint  socket file, daemons, and windows that look for one

Each module looks at one interaction and abstracts its neighbours to what they
promise it. The seams: SessionRegistry uses of a session whether its child runs
and its reader is open, and PtySession shows how these change. PtySession gives
every attachment a forwarder that may be aborted; ConnectionWire shows how a
connection uses and aborts forwarders. PaneStream takes frames to be whole;
ConnectionWire shows when they are not. ClientRpc follows one connection to its
end; PaneStream and ResizeQueue keep the connection up. DaemonEndpoint takes of
a daemon that it serves, retires when SessionRegistry says so, or ends; PaneLayout
takes of the registry that a key has one shell (OneShellPerKey).

**PtySession** (`ptyd/session/mod.rs`). Reader, watcher and the callers of
attach, detach and kill take steps between which the code releases a lock:
`ReaderParse` takes the terminal lock and parses, `ReaderPick` reads the sink
under the output lock, `ReaderSend` is the `try_send` outside both, which drops
the chunk when the channel is full. `AttachBegin` / `AttachCommit` is
attach_with_snapshot. Chunks are numbers, a snapshot is the number of chunks it
holds. `got`, `lost` and `snapAt` are history. `ReaderPanic` is a panic of the
parser, which poisons the terminal lock; run_reader then closes the output.

**TerminalStream** is what a session promises the clients of its terminal: an
attachment starts with a snapshot of exactly the chunks shown so far; every later
chunk is due to the attachment that is the viewer when it is shown and to no
other; what is due is delivered oldest first or lost, the newest to a full
channel or the rest to a departure; and a viewer is replaced only by a newer one,
by its own departure or by the end of the output. It knows no locks, channels or
program counters. PtySession implements it (`ImplementsTerminalStream`): `Shown`
counts a chunk when its sink is chosen, `Due` is what the channel holds and the
chunk the reader is about to send.

**SessionRegistry** (`ptyd/session/registry.rs`, the loops of `handler.rs` and
`daemon/mod.rs`). The mutex over the sessions has one holder, `call`; between
its looks (`EnsureLookup`, `PurgeDead`, `SpawnChild`, ...) children exit and
readers end. A stop is `StopBegin`, `StopCount` (for a retirement),
`StopCommit`; connections register, are served, acknowledge, leave. Write,
resize, rename, list and snapshot change nothing of this state. A kill is taken
to be effective, and ids stop at MaxId instead of saturating.
`SpawnFails` is a spawn that fails before its child exists, or after: then the
child runs on (`session/mod.rs:262-266` returns without a kill) and no map holds
it. The history `failed` names these ids. Such a shell is out of the reach of
every client, a kill and a stop; it ends by itself (`ChildExit`).
OnlyFailedSpawnsStray says that the daemon loses no other shell, and OneShellPerKey
counts the shells of the other spawns: after a failed spawn its key may get a
second process.

**KeyedShells** is what the registry promises: a shell starts for a key that has
none, under an id never used before, and ends once. SessionRegistry implements
it (`ImplementsKeyedShells`).

**ConnectionWire** (`handler.rs`, `protocol/codec.rs`). A frame is FrameSize
pieces and the socket buffers SockCap, so a writer may be suspended with half a
frame written. The tokio mutex is fair: a queue. Aborting drops a task wherever
it waits: `Abort`. `fence` records what the client was told has ended. Requests
that do not touch forwarders are `Serve`. That other connections attach to the
same sessions is `OtherAttaches`.

**ClientRpc** (`ptyd/client/mod.rs`). `roundtrip` takes `&mut self`, so there is
one call at a time: `Begin` registers the slot, `Write` or `WriteFails`,
`Return`. The reader loop routes responses and events, and ends on the end of
the stream, on an undecodable frame, or when nobody holds the receiver; `Clear`
drops the slots.

**PaneStream** (`session/mod.rs`, `handler.rs`, `client/mod.rs`, `src/pty.rs`). A
chunk goes through the attachment's channel, the wire, the event channel and
`OutputRoutes` to a pane's reader. Each of these queues is bounded, and a full
one holds up the queue before it, but for two that drop: the reader thread's
`try_send` drops a chunk that finds the attachment's channel full (`Offer`), and
the buffer of output without a sink evicts. `lost` records both. The socket holds
WireCap frames; the chunk in a forwarder's hands is taken to be still in the
channel. `EventLoop` is a whole turn of event_loop: to the sink, or
into `pending` with its eviction. `EnsureDone` and `AttachDone` install the sink.
An eviction takes any session, as the iteration of a hash map may.

**ResizeQueue** (`src/pty.rs`). Every method of `DaemonPty` runs under the lock
of the UI's state, so the UI is one process; a blocking call is a command and a
reply. `Resize` records and enqueues, `TakeBatch`, `Deliver` and `Settle` are
the worker's flush, `Spawn` and `AttachOrSpawn` with `Reply` replace a pane's
session and push the recorded size, `KillTimeout` is the caller that stops
waiting. The connection is up; a resize the daemon refuses is dropped, as in
the code. A key is held by at most one live session (SessionRegistry:
OneShellPerKey), so ambiguous keys are left out, and so are errors of attach
other than not found: on a connection that is up the daemon answers a failed
attach with nothing else. destroy_all is a Destroy for every pane, and
attach_to and replace_or_spawn are sequences of the modelled calls.

**DaemonEndpoint** (`ptyd/transport/socket_unix.rs`, `ptyd/daemon/mod.rs`,
`src/daemon.rs`, `ptyd/client/mod.rs`). Daemons and windows share a path; every
call on the file system is an action. A daemon looks for a file (`Stat`), probes
it, looks again, removes it as stale, binds, listens, sets the mode, and unlinks
the path at the end (`UndoBind`, `DropServer`). A window dials with a goal: to
probe (probe_daemon), to await the end of the daemon it retired, to wait for the
one it spawned, to bridge (connect_ui_client); `Retried`, `NoEndpoint` and
`Denied` say what the errors of each goal lead to. Daemons crash or are shut down
by others. `stolen` and `ended` are history. The Windows pipe has no file to be
stale and is left out; so are the search for the binary and a daemon of
another protocol.

**PaneLayout** (`src/state.rs`, `src/persist.rs`, `src/pane_restore.rs`,
`src/bridge.rs`, `src/main.rs`). The panes in view, the tabs of the active
workspace and the tabs per workspace are three copies, and `SaveTab`,
`SaveSpace`, `Shown` and `LoadSpace` are the code's four functions between them.
Every operation that changes which tab or workspace holds a pane is an action,
with its terminals, the keys the shim tracks, the shells of the daemon and the
file if it saves. `Crash`, `CloseKeeping` and `CloseKilling` end the window,
`Start` restores; `Collect` and `AttachOne` are the sweep. Left out: the order of
tabs and workspaces, what is selected out of view, ratios, a failed save, an
unreadable file; a kill command is carried out at once. `odd` is history: each
member is a way in which the code is known to lose track of a pane (below).

## 3. Runs

| Run | Bounds | States | What it shows |
|---|---|---|---|
| session | 3 attachments, 3 chunks, channels of 2 | 73 k | OneSurface, NoSilentGap, DeliverInOrder, ClosedIsDetached, NewestStaysConnected, ImplementsTerminalStream; ExitClosesOutput, ClosedEndsForwarders |
| registry | 2 keys, 2 connections, 3 ids | 270 k | OneShellPerKey, OnlyFailedSpawnsStray, StoppedStaysEmpty, EnsureSparesLive, RetiresAlone, ImplementsKeyedShells; StopEndsDaemon |
| registry_inflight | 1 key, 2 connections, 1 id | violation | ShutdownWaitsForHandlers is false |
| resize | 1 pane, 2 sizes, 2 sessions, 3 commands | 693 k | OneFlush, PendingIsCurrent, SettledGeometry; LastSizeArrives, DropJoins |
| stream | 2 sessions, 3 chunks of one and 1 of the other, 1 attachment each, attachment channels, wire and event channel of 1, buffer of 2, 1 a session | 166 k | ExactStream, PendingAccounted; RequestAnswered, ChunksArrive |
| stream_reattach | 1 session, 3 chunks, 2 attachments | violation | ReattachExact is false |
| rpc | 3 requests, 3 frames, event channel 1 | 12 k | NoSlotLeaks; WatchedReturns |
| rpc_stranded | the same | violation | EveryCallReturns is false |
| wire | 2 sessions, 3 attachments, channels of 1, frames of 2 pieces, socket of 1 | 337 k | TornOnlyByAbort, NoLateOutput, OthersStayAttached, CleanDisconnect; RequestsFinish, ClosedIsCleaned |
| wire_torn | 1 session, 2 attachments | violation | FramesWhole is false |
| endpoint | an old daemon, a window of its release and a newer one, 1 retry of a probe, crashes | 508 k | GuardHolds, OneDaemonForAll; StartEnds |
| layout | 3 panes, 2 workspaces, 2 starts, cut by `Bound` | 282 k | PlacedOnce, ShellsHavePanes, PanesHaveTerminals, PanesStayPut |

The type invariants are proved (section 4) and, but for PaneLayout's, not run
again; so are InOrder and UnforcedStopKillsNothing.

**Why the bounds are enough.** Two attachments make a stale one; the third lets
a token be stale twice over and the sink change while a chunk is between pick
and send. Channels of 1 or 2 are full after the first chunks. Three ids let a
key be spawned, lost and spawned again while the other key holds a session. Two
connections are what a retirement, a duplicate ensure and a takeover need. Two
sizes tell the last from the one before, two sessions let a pane move on while a
resize for the first is pending. One pane is enough for liveness because panes
share only the flush; a batch of several panes is covered by the proofs, which
hold for any set of panes. Frames of two pieces
with a socket of one suspend a writer in every frame. Queues of 1 are
full with every chunk, and three chunks of a session are enough for one to be
dropped at its channel and a later one delivered, while the other session's
chunk competes for the wire; a buffer of 2 with 1 a session has both limits bite. Two
windows of different releases and a daemon of an earlier run are three daemons:
the one that is stale or retired, its successor, and a rival. Two starts are a
restart. PaneLayout's `Bound` follows two panes in two workspaces to the first
departure of `odd` (in the first run of one workspace to any number of them), and
three panes in one workspace as long as nothing departs, no document is open, every
pane has its shell, and the layout does not change between a start and the
sweep; three panes make a tab of two beside another. Its `View` leaves out two
stale copies that nothing reads, so that states which behave alike are one.
The bounds cut behaviour only where a counter would grow: attachments, chunks,
ids, requests, commands of the UI. Deadlock is not checked, as every model may
come to rest: the sessions ended, the daemon returned, the bound reached.

**Fairness.** PtySession: the watcher polls on its own thread, the reader and
the callers leave the regions they hold a lock in, and a forwarder whose client
reads makes progress; no fairness for reads of the PTY, its end of file, or
callers that start something, so ExitClosesOutput rests on the watcher alone.
SessionRegistry: the holder of the mutex goes on, an acknowledgement is
delivered or fails, and the accept loop hears the broadcast. ResizeQueue: the
worker thread, the UI thread inside a call, and the lister. PaneStream: the
tasks of the daemon and of the client; strong fairness of a forwarder, because
the wire has room again and again while other forwarders write, and the writer's
mutex is first come first served (ConnectionWire has the queue). ClientRpc: the call, the reader loop, the
event consumer, and the daemon's answers. ConnectionWire: request loop, each
forwarder, the client's reads, and the request loop's noticing that the client
closed. DaemonEndpoint: processes are scheduled and the launcher's deadlines
expire; no daemon has to end. PaneLayout states no fairness: its properties are
about what is there, not about what must come. All are tasks of a runtime or threads that block on nothing but
what the models contain.

**Findings.** Four statements of the repository's documentation do not hold.

1. *Shutdown does not wait* (`daemon/mod.rs:43`). The accept loop returns on the
   broadcast, and the runtime ends with it. A second client whose stop was
   accepted may lose its acknowledgement. The module doc says the loop exits
   once in-flight handlers finish.
2. *An aborted forwarder tears a frame* (`handler.rs:394`). When the socket is
   full, a forwarder waits inside write_all with the mutex held. Killing,
   detaching or attaching the session anew aborts it; the response follows half
   a frame, and the client reads the response as the rest of that output. The
   doc says the mutex keeps frame bytes from interleaving. TornOnlyByAbort, which
   passes, shows that this is the only way.
3. *A request may wait forever* (`client/mod.rs:443`). A request registered after
   the reader loop cleared the map has nobody to answer or drop it while the
   connection stays open. `Client::connect` drops the event receiver, so one
   event suffices to end the reader. WatchedReturns, which passes, shows that
   requests registered before are safe.
4. *A second attachment on one connection is not exact* (`src/pty.rs:1399`).
   Chunks of the first attachment that are still in the event channel reach the
   second one's reader, whose snapshot holds them. EnsureSession, unlike
   AttachSession, does not remove the old route first. ExactStream, which passes and is proved, is for a session attached once.

**Departures the histories record.** Where the code is known to break what a
property says, the property excludes exactly that step, which a history variable
marks. Such a property holds up to that
step and does not catch it; the hazard's note in PROJECT.json says so. In
DaemonEndpoint `stolen`: a daemon that probed a stale file, or probed
between another's bind(2) and listen(2), removes whatever is at the path later,
also the file of a daemon that lives. In PaneLayout, `odd`:

- *mixed*: a tab is named after the pane it was made for. After that pane is
  extracted, two tabs have one name, and a reorder selects the first of them; the
  panes of the other are overwritten at the next save. The doc
  (`src/state.rs:4036`) says the selection follows the tab that moved.
- *unsaved*, *lost*: the split buttons in a pane's header
  (`src/ui/terminal_grid.rs:562`) and the kill of a session from the panel do not
  save the layout; a crash before the next save leaves it behind the shells.
- *skipped*: the sweep leaves out the pane in focus when it collects, which by
  then may be another than the one attached before the window was shown.
- *raced*, *failed*, *leaked*: the sweep attaches a pane closed since it
  collected; its attach fails; a pane closed before it was attached leaves its
  shell, which the shim does not know.
- *ghost*: the kill from the panel leaves the pane in the active workspace's tabs
  that are not in view.

## 4. Proofs

Proved for every value of the constants that satisfies the named assumptions of
the modules (Nat, Nat without 0, finite set of connections, a model value not in
the set).

**PtySession_proofs.** `TypeCorrect` needs no strengthening. The stream
properties are not inductive: that a chunk about to be sent belongs to the
attachment it was picked for depends on who holds which lock. `Discipline` says
so: `LockHeld` (the terminal lock is held exactly in the reader's and an
attach's regions), `SinkShape` (a closed output has no sink, a sink is of the
newest token), `StreamShape` (tokens not issued have no stream), `SnapshotShape`
(no snapshot holds a chunk not yet routed). With `Discipline`, `OneSurface`,
`NoSilentGap` and `InOrder` are each preserved (`OneSurfaceStep`, ...), and
`IInv` is their conjunction. `NeverReplayed`, `NeverSilentGap`,
`ClosedSessionDetached`, `NewestConnected` and, as an action property,
`DeliveredInOrder` follow. `Implements` shows the refinement of TerminalStream,
one lemma per kind of step: `RefinesPick` (a chunk becomes due where the sink is
chosen), `RefinesSend`, `RefinesAttach` (`LockHeld` makes the snapshot exact),
`RefinesRecv` and `RefinesEnd` (`InOrder` makes the head the oldest), `RefinesClose`.
`OneFateEach`: what an attachment received, what it lost and what is due to it are
disjoint, and together a run without a gap that starts behind its snapshot; the
run of the current attachment ends at the last chunk whose sink was chosen. That
no chunk has two fates is proved of the abstract stream (`FateStep`) and carried
over by the refinement; that none is without is the session's (`UnbrokenStep`). `ExitIsActedOn` and `ClosedDrains` are what holds of the two liveness
properties at every moment: somebody is at work on closing the output of a shell
that exited, and after the close every forwarder's backlog only shrinks.

**SessionRegistry_proofs.** What the holder of the mutex found at its last look
must still be of use at its next step although sessions end behind its back:
`LookupHolds` and `StopHolds`. `Fewer` is the common shape of all steps that
start nothing, and the lemmas `FewerKeeps...` show once for all that they keep
those facts. `Counting` relates the connection counter to the connections,
`StopNews` an acknowledgement or broadcast to the stop. From `IInv` follow
`TypeCorrect`, `OneShell`, `OnlyFailuresStray`, `StoppedEmpty`, and the action
properties `EnsureSpares`, `GentleStopProved`, `RetiresAloneProved`; and that
the registry implements KeyedShells: `RefinesInit`, `RefinesStep` (each action
is a step of the abstract shells or a stutter; that one session at a time ends,
or all at once, is `DropRunning`, `DropAll`), `Implements`. From the refinement
follow `EndedIsFinal` (a shell that ended never comes back, an id keeps its key)
and `NothingRunsWhenShut` (but what a failed spawn left); `StopHeard` is the safety part of StopEndsDaemon: after
an accepted stop the broadcast was sent, or whoever sends it is on the way.

**ResizeQueue_proofs.** The heart is where the last size of a pane can be when
its session does not have it yet. `OnItsWay` lists the places: the pending map,
the batch in the worker's hands, or, for an Ensure, the reply that the UI thread
is about to take and push the recorded size after; `SizeShape` says that there
is no other. It is inductive only with facts on who holds what: `QueueShape`
(the UI waits for the one blocking command in the channel, and a kill or attach
there names a session), `OwnerShape` (a session that a pane shows, remembers or
sends a size to was created for that pane, so a size never goes to a session of
another pane), `BatchShape` (a batch exists only while it is delivered) and
`ReplyShape` (the session of a reply has the size of the call or of a batch that
went by). The lemma `FlushPlaces` restates OneFlush by the place of the flush,
which the prover can follow through sends and receives. From `IInv` follow
`TypeCorrect`, `WakeupExact`, `PendingCurrent` and `GeometrySettles`; from
`OwnerShape` also `NoOthersSession`. `SizeNeverForgotten` (SizeShape in every
state) is the safety part of LastSizeArrives. That of DropJoins is
`DropLeavesNothing`: a worker that has ended cannot be reached (`Unreachable`),
hence by `FlushPlaces` no flush and no resize is left, and the sizes have settled.

**ClientRpc_proofs.** The type invariant holds the heart, that a slot waits
exactly while its sender is in the map; with it NoSlotLeaks is inductive.
`WatchedHasReader`, a request registered while the reader ran never waits for a
reader that is gone, is the safety part of WatchedReturns: `NeverStranded`. `Fresh` says that the
daemon knows only ids that were issued, and never the one still to be written;
with NoSlotLeaks it gives the action property `ResponsesFindTheirCall`: a late
response never resolves a newer request, and no slot is used twice.

**PaneStream_proofs.** A chunk of a session is in one of five places: with the
reader, in the buffer, in the event channel, on the wire, or in the attachment's
channel. As long as the session was attached at most once, `Path` holds of it:
each place is in ascending order (`Placed`) and before those behind it
(`Queues`); every chunk is above the snapshot and not above what was emitted
(`Limits`); while the reader can still be sent more (`Feeding`), no chunk between
two known ones is missing, nor any up to the last emitted, unless it was dropped at the full channel or
evicted (`Covered`); and before the daemon has answered the attach there is none
(`Unfed`). `Drained` (a session with a sink buffers nothing) makes handing a
chunk to the sink keep the order; `Stage` (the request is in one place, and a
session that is being killed has no sink) makes the kill harmless. The lemma
`Moves` shows once that chunks that move on along the path keep `Path`; each
action is then a move (`ForwardKept`, `ReadFrameKept`, `EventLoopKept`,
`EnsureDoneKept`, ...). From `IInv` follow `TypeCorrect` and `StreamExact`. The
condition on the number of attachments is needed: finding 4.

What holds for any number of attachments is `ReadersInTurn`: each reader is given
its chunks in order and after all chunks of the readers before it. A late chunk
can go to the wrong reader, but none goes to two, or to one twice. Its invariant
`OneLine` leaves out the snapshots and the gaps: all that the readers of a session
were given is below all that is on its way (`Line`), and nobody after the reader
whose turn it is was given anything (`Latest`). `PendingCounted` takes the buffered
chunks as a set of places, `Buffers`; the lemmas `BuffersAppend`, `BuffersTail` and
`BuffersCleared` say how many of them a step adds or takes, so that no sum has to
be unfolded. `ChunksKept` is the safety part of ChunksArrive: while a reader is
open its chunks have a place to go to (`Routed`), so `Covered` applies and every
chunk after the snapshot is at a known place, unless it was dropped at the full
channel or overran the buffer.

**ConnectionWire_proofs.** What a torn frame needs is a task that is suspended
in the middle of one and loses the mutex. `HalfHeld` says that the wire ends in
half a frame that nobody tore only while its writer holds the mutex. So the proof
is about the mutex's queue, which TypeOK equates with the tasks that wait, each
once; the lemmas `Joined`, `GivenBack` and `Left` say what the queue is after a
task joins it, gives the mutex back, or is dropped from its middle. The other
parts follow a request: `RequestShape` and `Aborting` (what it is about while
forwarders are aborted for it), `Answering` (when the answer is written, what it
ends is gone from the map), `Numbers` and `Tasks` (attachments are numbered in
order, and a running forwarder is in the map), `Followed` (a current attachment
has its forwarder, or is about to get it). From `IInv` follow `TypeCorrect`,
`DisconnectClean`, and the action properties `TornOnlyByAborts`, `EndedIsSilent`
and `OthersKeepAttached`. `MutexIsFair` is the safety part of RequestsFinish: who
waits for the mutex is not overtaken, also when a task is dropped from its queue.

**DaemonEndpoint_proofs.** For every number of windows, releases and retries.
GuardHolds is inductive with `NoUndo` (only a daemon that lost its file undoes its
bind). That all windows reach one daemon needs in addition `ConnKept` (a window
that is up has a connection), `ServedWhileUp` (a registered connection keeps its
daemon from retiring) and `SpawnsOnce`; two daemons that serve would both own
the file. `TypeCorrect`, `GuardProved`, `OneForAll`. `StartsProceed` is the safety
part of StartEnds: no step of a launcher leads back (`Advances`), and a launcher
that awaits the end of a daemon it retired returns to its probe only at the price
of one of its attempts.

**PaneLayout_proofs.** For every number of workspaces, panes and starts. The
layout exists three times, so the argument is about the one that would be saved
now, `Whole`. From it an action may take panes away, or add the pane that
next_id has just named: `Follows`. Each helper of the code (`SaveTabIs`,
`SaveSpaceIs`, `LoadSpaceIs`, `PruneIs`, ...) has one lemma on what it does to the
three copies, and each operation one on `Follows` (`FollowsSwap`, `FollowsExtract`,
...). PlacedOnce is inductive with `Sound` (no pane is in two tabs, and a copy that
is behind agrees with the others but for the tab in view), with the same of the
file, from which the next start restores, and with next_id above all panes.

What becomes of the shells is shown for three kinds of actions: panes are taken
off (`Removed`), change their places (`RestedSame`), or one is new
(`SpawnedActs`). The rest of the invariant is what an action relies on and keeps:
a key the shim tracks, the sweep has collected or a workspace still stores is of
no pane that is somewhere else by now (`Tracked`, `AtHome`), so a late attach or
a kill never hits another pane's session; while the window runs every shell and
mapping is of a pane of the layout, and every pane is a document, or in what a
start would make of the file, or a change is known to be unsaved (`Tied`,
`Safe`); and a pane without terminal is collected or still stored where the
sweep will look (`Covered`). This is where the stale copies matter: the sweep
reads the stored ones, so no operation may take a pane out of them that stays in
the layout (`Keeps`). `TypeCorrect`, `PaneHasOnePlace`, `NoShellIsLost`,
`EveryPaneServed`, and the action property `NothingReturns`.

Only model-checked are the eleven liveness properties, since the prover has
neither ENABLED nor fairness: ExitClosesOutput, ClosedEndsForwarders,
StopEndsDaemon, LastSizeArrives, DropJoins, RequestAnswered, ChunksArrive,
WatchedReturns, RequestsFinish, ClosedIsCleaned and StartEnds. For all but
RequestAnswered and ClosedIsCleaned a theorem above says what part of them is
safety: that no step makes impossible what is awaited (for ClosedIsCleaned,
`DisconnectClean` says what a clean end is). Every invariant and every action
property of the passing runs is proved.

## 5. Plan

In this order; done so far: 1 to 10.

1. PtySession, with its proof. 2. SessionRegistry and KeyedShells, with proofs
and refinement. 3. ResizeQueue. 4. PaneStream. 5. ClientRpc. 6. ConnectionWire.
7. DaemonEndpoint, with its proof. 8. PaneLayout: persist and pane_restore with
the operations on panes of state.rs.
9. **Proofs** of ConnectionWire, PaneStream and PaneLayout, and of the safety part
   of the liveness properties.
10. **Abstract stream**: TerminalStream, with PtySession shown to implement it.
11. git_watch (stale results for a workspace number used again), updater
   (hand-over), voice (worker and cancellation).
12. Algorithms: scrollback ring of the terminal core, editor buffer, layout of
   splits, each against a reference definition.

Not planned: drawing, theming, markdown, views, build tooling, the UI toolkit.
