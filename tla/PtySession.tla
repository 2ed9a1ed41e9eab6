------------------------------ MODULE PtySession ------------------------------
(***************************************************************************)
(* One PTY session of the daemon (crates/unshit-ptyd/src/session/mod.rs):   *)
(* the shell child, the blocking reader thread that parses every chunk      *)
(* into the daemon's terminal and offers it to the attached client, the     *)
(* task that watches the child's exit, the forwarder of each attachment     *)
(* (daemon/handler.rs), and the caller that attaches, detaches and kills.   *)
(* Every call of the caller is made under the registry's mutex, so one      *)
(* caller stands for all connections.                                       *)
(*                                                                          *)
(* A chunk is the number of the read that returned it; a snapshot is the    *)
(* number of chunks the terminal had parsed when it was taken.              *)
(*                                                                          *)
(* Lock regions: the terminal lock is a variable, because the reader and    *)
(* the caller hold it across several steps; every region of the output      *)
(* lock is one action.                                                      *)
(***************************************************************************)
EXTENDS Naturals, Sequences, Functions

CONSTANTS
  MaxToken,   \* bound: attachments made during a behaviour
  MaxChunk,   \* bound: chunks the child's terminal produces
  ChanCap     \* mpsc::channel capacity, 64 in the code

ASSUME MaxTokenAssumption == MaxToken \in Nat \ {0}
ASSUME MaxChunkAssumption == MaxChunk \in Nat
ASSUME ChanCapAssumption  == ChanCap \in Nat \ {0}

VARIABLES
  child,        \* the child process: "running" or "exited"
  watchPc,      \* watch_child_exit
  readerPc,     \* run_reader
  parsed,       \* chunks processed by the terminal
  target,       \* the token whose sender the reader cloned, 0 for none
  termLock,     \* who holds the terminal mutex
  output,       \* OutputState.reader_open: "open" or "closed" for good
  current,      \* OutputState.current: the token of the sink, 0 for None
  nextToken,    \* OutputState.next_token
  callerPc,     \* the call being made under the registry mutex
  chan,         \* per token: the chunks buffered in its mpsc channel
  fwd,          \* per token: its forwarder, which owns the receiver
  snapAt,       \* per token: the snapshot returned with it   (history)
  got,          \* per token: chunks its forwarder received   (history)
  lost          \* per token: chunks routed to it but dropped (history)

watchVars  == <<child, watchPc>>
readerVars == <<readerPc, parsed, target>>
outputVars == <<output, current, nextToken>>
streamVars == <<chan, fwd, snapAt, got, lost>>
vars == <<watchVars, readerVars, termLock, outputVars, callerPc, streamVars>>

Tokens == 1 .. MaxToken
Issued == 1 .. (nextToken - 1)

-----------------------------------------------------------------------------
(* spawn_with_context: the session starts with attachment 1 installed.      *)
Init ==
  /\ child = "running"
  /\ watchPc = "poll"
  /\ readerPc = "read" /\ parsed = 0 /\ target = 0
  /\ termLock = "free"
  /\ output = "open" /\ current = 1 /\ nextToken = 2
  /\ callerPc = "idle"
  /\ chan = [t \in Tokens |-> <<>>]
  /\ fwd = [t \in Tokens |-> IF t = 1 THEN "running" ELSE "none"]
  /\ snapAt = [t \in Tokens |-> 0]
  /\ got = [t \in Tokens |-> {}]
  /\ lost = [t \in Tokens |-> {}]

(* Mutant: the flag is cleared but the sink is kept. *)
CloseOutputKeepsSink ==
  /\ output' = "closed"
  /\ UNCHANGED <<current, nextToken>>

(* close_output, one region of the output lock.                             *)
CloseOutput ==
  /\ output' = "closed"
  /\ current' = 0
  /\ UNCHANGED nextToken

-----------------------------------------------------------------------------
(* The child exits by itself. Descendants may keep the PTY open and write.  *)
ChildExit ==
  /\ child = "running"
  /\ child' = "exited"
  /\ UNCHANGED <<watchPc, readerVars, termLock, outputVars, callerPc, streamVars>>

(* watch_child_exit: a poll that sees the exit starts the drain window ...  *)
WatchPoll ==
  /\ watchPc = "poll"
  /\ child = "exited"
  /\ watchPc' = "drain"
  /\ UNCHANGED <<child, readerVars, termLock, outputVars, callerPc, streamVars>>

(* Mutant: the watcher leaves the close to the reader's EOF. *)
WatchCloseTrustsEof ==
  /\ watchPc = "drain"
  /\ watchPc' = "done"
  /\ UNCHANGED <<child, readerVars, termLock, outputVars, callerPc, streamVars>>

(* ... after which it closes the output, whether or not the reader ended.   *)
WatchClose ==
  /\ watchPc = "drain"
  /\ watchPc' = "done"
  /\ CloseOutput
  /\ UNCHANGED <<child, readerVars, termLock, callerPc, streamVars>>

-----------------------------------------------------------------------------
(* run_reader_inner: read returned a chunk; parse it under the terminal     *)
(* lock. MaxChunk bounds the child's output.                                *)
ReaderParse ==
  /\ readerPc = "read"
  /\ termLock = "free"
  /\ parsed < MaxChunk
  /\ readerPc' = "parsed"
  /\ parsed' = parsed + 1
  /\ termLock' = "reader"
  /\ UNCHANGED <<watchVars, target, outputVars, callerPc, streamVars>>

(* Mutant: the panic is caught per chunk and the reader goes on. *)
ReaderPanicContinues ==
  /\ readerPc = "parsed"
  /\ readerPc' = "read"
  /\ termLock' = "free"
  /\ UNCHANGED <<watchVars, parsed, target, outputVars, callerPc, streamVars>>

(* The emulator panics inside process_bytes: catch_unwind releases (and     *)
(* poisons) the terminal lock, which attach recovers with into_inner.       *)
ReaderPanic ==
  /\ readerPc = "parsed"
  /\ readerPc' = "unwinding"
  /\ termLock' = "free"
  /\ UNCHANGED <<watchVars, parsed, target, outputVars, callerPc, streamVars>>

(* Still under the terminal lock: clone the sender of the current sink.     *)
ReaderPick ==
  /\ readerPc = "parsed"
  /\ target' = current
  /\ readerPc' = IF current = 0 THEN "read" ELSE "send"
  /\ termLock' = "free"
  /\ UNCHANGED <<watchVars, parsed, outputVars, callerPc, streamVars>>

(* Mutant: a full channel evicts its oldest chunk for the new one. *)
ReaderSendEvictsOldest ==
  /\ readerPc = "send"
  /\ fwd[target] = "running"
  /\ IF Len(chan[target]) = ChanCap
       THEN /\ chan' = [chan EXCEPT ![target] = Append(Tail(@), parsed)]
            /\ lost' = [lost EXCEPT ![target] = @ \union {Head(chan[target])}]
       ELSE /\ chan' = [chan EXCEPT ![target] = Append(@, parsed)]
            /\ UNCHANGED lost
  /\ readerPc' = "read"
  /\ target' = 0
  /\ UNCHANGED <<watchVars, parsed, termLock, outputVars, callerPc, fwd, snapAt, got>>

(* try_send: the chunk is dropped when the channel is full or its receiver  *)
(* is gone.                                                                 *)
ReaderSend ==
  /\ readerPc = "send"
  /\ IF fwd[target] = "running" /\ Len(chan[target]) < ChanCap
       THEN /\ chan' = [chan EXCEPT ![target] = Append(@, parsed)]
            /\ UNCHANGED lost
       ELSE /\ lost' = [lost EXCEPT ![target] = @ \union {parsed}]
            /\ UNCHANGED chan
  /\ readerPc' = "read"
  /\ target' = 0
  /\ UNCHANGED <<watchVars, parsed, termLock, outputVars, callerPc, fwd, snapAt, got>>

(* read returned EOF or an error. Nothing makes it do so: ConPTY may leave  *)
(* the read pending after the child's exit.                                 *)
ReaderEof ==
  /\ readerPc = "read"
  /\ readerPc' = "closing"
  /\ UNCHANGED <<watchVars, parsed, target, termLock, outputVars, callerPc, streamVars>>

(* The end of run_reader, after a return or a caught panic.                 *)
ReaderClose ==
  /\ readerPc \in {"closing", "unwinding"}
  /\ readerPc' = "done"
  /\ CloseOutput
  /\ UNCHANGED <<watchVars, parsed, target, termLock, callerPc, streamVars>>

-----------------------------------------------------------------------------
(* Mutant: attach takes the output lock only. *)
AttachBeginNoTerminalLock ==
  /\ callerPc = "idle"
  /\ nextToken <= MaxToken
  /\ callerPc' = "attaching"
  /\ UNCHANGED <<watchVars, readerVars, termLock, outputVars, streamVars>>

(* attach_with_snapshot takes the terminal lock, then the output lock.      *)
AttachBegin ==
  /\ callerPc = "idle"
  /\ termLock = "free"
  /\ nextToken <= MaxToken
  /\ callerPc' = "attaching"
  /\ termLock' = "caller"
  /\ UNCHANGED <<watchVars, readerVars, outputVars, streamVars>>

(* Mutant: the reader_open flag is not checked under the output lock. *)
AttachCommitUnchecked ==
  /\ callerPc = "attaching"
  /\ child = "running"
  /\ current' = nextToken
  /\ nextToken' = nextToken + 1
  /\ snapAt' = [snapAt EXCEPT ![nextToken] = parsed]
  /\ fwd' = [fwd EXCEPT ![nextToken] = "running"]
  /\ termLock' = "free"
  /\ callerPc' = "idle"
  /\ UNCHANGED <<watchVars, readerVars, output, chan, got, lost>>

(* The reader is open and the child runs: a new token, sink and snapshot,   *)
(* and a forwarder for the new receiver.                                    *)
AttachCommit ==
  /\ callerPc = "attaching"
  /\ output = "open" /\ child = "running"
  /\ current' = nextToken
  /\ nextToken' = nextToken + 1
  /\ snapAt' = [snapAt EXCEPT ![nextToken] = parsed]
  /\ fwd' = [fwd EXCEPT ![nextToken] = "running"]
  /\ termLock' = "free"
  /\ callerPc' = "idle"
  /\ UNCHANGED <<watchVars, readerVars, output, chan, got, lost>>

(* Otherwise the attach closes the output and fails, and the registry       *)
(* removes the session in the same call.                                    *)
AttachRefuse ==
  /\ callerPc = "attaching"
  /\ ~(output = "open" /\ child = "running")
  /\ CloseOutput
  /\ termLock' = "free"
  /\ callerPc' = "refused"
  /\ UNCHANGED <<watchVars, readerVars, streamVars>>

(* Mutant: detach ignores who owns the sink. *)
DetachAnyOwner(t) ==
  /\ callerPc = "idle"
  /\ fwd[t] = "ended"
  /\ current' = 0
  /\ UNCHANGED <<watchVars, readerVars, termLock, output, nextToken, callerPc, streamVars>>

(* detach: only the owner of the sink clears it. The handler ends its       *)
(* forwarder before it detaches the token.                                  *)
Detach(t) ==
  /\ callerPc = "idle"
  /\ fwd[t] = "ended"
  /\ current' = IF current = t THEN 0 ELSE current
  /\ UNCHANGED <<watchVars, readerVars, termLock, output, nextToken, callerPc, streamVars>>

(* kill: abort the watcher, kill and reap the child, drop the PTY ends ...  *)
KillBegin ==
  /\ callerPc \in {"idle", "refused"}
  /\ callerPc' = "killing"
  /\ child' = "exited"
  /\ watchPc' = IF watchPc = "done" THEN "done" ELSE "aborted"
  /\ UNCHANGED <<readerVars, termLock, outputVars, streamVars>>

(* ... and close the output. Aborting the blocking reader has no effect.    *)
KillClose ==
  /\ callerPc = "killing"
  /\ callerPc' = "gone"
  /\ CloseOutput
  /\ UNCHANGED <<watchVars, readerVars, termLock, streamVars>>

-----------------------------------------------------------------------------
(* Mutant: the newest buffered chunk is delivered first. *)
ForwardRecvNewest(t) ==
  /\ fwd[t] = "running"
  /\ chan[t] # <<>>
  /\ got' = [got EXCEPT ![t] = @ \union {chan[t][Len(chan[t])]}]
  /\ chan' = [chan EXCEPT ![t] = SubSeq(@, 1, Len(@) - 1)]
  /\ UNCHANGED <<watchVars, readerVars, termLock, outputVars, callerPc, fwd, snapAt, lost>>

(* forward_output: receive the next chunk (and write it to the connection). *)
ForwardRecv(t) ==
  /\ fwd[t] = "running"
  /\ chan[t] # <<>>
  /\ got' = [got EXCEPT ![t] = @ \union {Head(chan[t])}]
  /\ chan' = [chan EXCEPT ![t] = Tail(@)]
  /\ UNCHANGED <<watchVars, readerVars, termLock, outputVars, callerPc, fwd, snapAt, lost>>

(* recv returns None: the channel is empty and every sender is gone, the    *)
(* sink's and the clone the reader may hold.                                *)
ForwardEnd(t) ==
  /\ fwd[t] = "running"
  /\ chan[t] = <<>>
  /\ current # t /\ target # t
  /\ fwd' = [fwd EXCEPT ![t] = "ended"]
  /\ UNCHANGED <<watchVars, readerVars, termLock, outputVars, callerPc, chan, snapAt, got, lost>>

(* The forwarder is aborted by its connection, or a write failed: the       *)
(* receiver is dropped with what its channel holds.                         *)
ForwardAbort(t) ==
  /\ fwd[t] = "running"
  /\ fwd' = [fwd EXCEPT ![t] = "ended"]
  /\ lost' = [lost EXCEPT ![t] = @ \union Range(chan[t])]
  /\ chan' = [chan EXCEPT ![t] = <<>>]
  /\ UNCHANGED <<watchVars, readerVars, termLock, outputVars, callerPc, snapAt, got>>

-----------------------------------------------------------------------------
Reader  == ReaderParse \/ ReaderPanic \/ ReaderPick \/ ReaderSend \/ ReaderEof \/ ReaderClose
Watcher == WatchPoll \/ WatchClose
Caller  == \/ AttachBegin \/ AttachCommit \/ AttachRefuse
           \/ KillBegin \/ KillClose
           \/ \E t \in Tokens : Detach(t)
Forwarder(t) == ForwardRecv(t) \/ ForwardEnd(t) \/ ForwardAbort(t)

Next == ChildExit \/ Watcher \/ Reader \/ Caller \/ \E t \in Tokens : Forwarder(t)

Spec == Init /\ [][Next]_vars

(* Every thread that is not waiting for something runs: the watcher's timer *)
(* fires, locked regions are left, and a forwarder whose client reads takes *)
(* what its channel holds. Nothing is assumed of the PTY read, of the child *)
(* or of the callers.                                                       *)
Fairness ==
  /\ WF_vars(Watcher)
  /\ WF_vars(ReaderPick) /\ WF_vars(ReaderSend) /\ WF_vars(ReaderClose)
  /\ WF_vars(AttachCommit \/ AttachRefuse) /\ WF_vars(KillClose)
  /\ \A t \in Tokens : WF_vars(ForwardRecv(t) \/ ForwardEnd(t))

FairSpec == Spec /\ Fairness

-----------------------------------------------------------------------------
(* The values of the program counters, of the locks and of the sink: the    *)
(* reader holds a sender exactly while it is about to send a chunk, and an  *)
(* attach under way has a token to take.                                    *)
ControlTypes ==
  /\ child \in {"running", "exited"}
  /\ watchPc \in {"poll", "drain", "done", "aborted"}
  /\ readerPc \in {"read", "parsed", "send", "closing", "unwinding", "done"}
  /\ parsed \in 0 .. MaxChunk
  /\ readerPc \in {"parsed", "unwinding", "send"} => parsed > 0
  /\ target \in 0 .. MaxToken
  /\ readerPc = "send" <=> target # 0
  /\ termLock \in {"free", "reader", "caller"}
  /\ output \in {"open", "closed"}
  /\ current \in 0 .. MaxToken
  /\ nextToken \in 2 .. (MaxToken + 1)
  /\ callerPc \in {"idle", "attaching", "refused", "killing", "gone"}
  /\ callerPc = "attaching" => nextToken <= MaxToken

(* The streams of the attachments.                                          *)
StreamTypes ==
  /\ chan \in [Tokens -> Seq(1 .. MaxChunk)]
  /\ fwd \in [Tokens -> {"none", "running", "ended"}]
  /\ snapAt \in [Tokens -> 0 .. MaxChunk]
  /\ got \in [Tokens -> SUBSET (1 .. MaxChunk)]
  /\ lost \in [Tokens -> SUBSET (1 .. MaxChunk)]

(* The variables have their types, in every interleaving of reader,         *)
(* watcher, caller and forwarders.                                          *)
TypeOK == ControlTypes /\ StreamTypes

(* The chunks whose sink was chosen: the one under the terminal lock, or    *)
(* the one that made the emulator panic, was parsed and not routed.         *)
Picked == IF readerPc \in {"parsed", "unwinding"} THEN parsed - 1 ELSE parsed

(* Every chunk the reader offered to attachment t, whatever became of it.   *)
Routed(t) ==
  got[t] \union lost[t] \union Range(chan[t]) \union (IF target = t THEN {parsed} ELSE {})

(* The last chunk attachment t may see: the next snapshot holds the rest.   *)
Boundary(t) == IF t + 1 \in Issued THEN snapAt[t + 1] ELSE Picked

(* A chunk reaches a client through one surface only: the attachment it was *)
(* routed to saw it neither in its own snapshot nor after the snapshot of   *)
(* the next attachment, whatever the reader and attach_with_snapshot        *)
(* interleave.                                                              *)
OneSurface == \A t \in Issued : Routed(t) \subseteq (snapAt[t] + 1) .. Boundary(t)

(* The attached client misses nothing silently: every chunk parsed since    *)
(* its snapshot was offered to it and was received, is buffered, or was     *)
(* dropped by try_send.                                                     *)
NoSilentGap == current # 0 => Routed(current) = (snapAt[current] + 1) .. Picked

(* A channel keeps the order of the reads: what it holds ascends, is newer  *)
(* than everything received, and older than the chunk about to be sent.     *)
Ordered(t) ==
  /\ \A i, j \in DOMAIN chan[t] : i < j => chan[t][i] < chan[t][j]
  /\ \A c \in got[t], d \in Range(chan[t]) : c < d
  /\ target = t => \A c \in got[t] \union Range(chan[t]) : c < parsed
InOrder == \A t \in Tokens : Ordered(t)

(* A forwarder never delivers a chunk older than one it delivered.          *)
DeliverNewer == \A t \in Tokens : \A c \in got'[t] \ got[t], d \in got[t] : d < c
DeliverInOrder == [][DeliverNewer]_vars

(* Once the output is closed, by whichever of reader, watcher, attach and   *)
(* kill came first, no client is left attached to it.                       *)
ClosedIsDetached == output = "closed" => current = 0

(* The newest attachment stays connected while its forwarder runs and the   *)
(* output is open: no late detach of a stale connection takes its sink.     *)
NewestStaysConnected ==
  output = "open" /\ fwd[nextToken - 1] = "running" => current = nextToken - 1

(* The exit of the child always closes the output, even when the PTY read   *)
(* never returns and whoever kills or attaches meanwhile.                   *)
ExitClosesOutput == child = "exited" ~> output = "closed"

(* Once the output is closed every forwarder ends, so that no connection    *)
(* waits for a session that is gone.                                        *)
ClosedEndsForwarders == output = "closed" ~> \A t \in Tokens : fwd[t] # "running"

(* The terminal as its clients see it: a chunk is shown once its sink was   *)
(* chosen (or it made the emulator panic); what is due to an attachment is  *)
(* what its channel holds, and the chunk the reader is about to send it.    *)
Shown    == IF readerPc = "parsed" THEN parsed - 1 ELSE parsed
Silent   == readerPc \in {"closing", "unwinding", "done"}
Accepts  == output = "open"
Due      == [t \in Tokens |-> Range(chan[t]) \union (IF target = t THEN {parsed} ELSE {})]
Departed == {t \in Tokens : fwd[t] = "ended"}

Stream == INSTANCE TerminalStream WITH
  Viewers <- Tokens, count <- Shown, ended <- Silent, open <- Accepts,
  viewer <- current, last <- nextToken - 1, start <- snapAt, due <- Due, gone <- Departed

(* The session implements the promise TerminalStream, whatever the reader,  *)
(* the watcher, the forwarders, attach_with_snapshot, detach and kill       *)
(* interleave: a snapshot holds exactly the chunks the viewer before it was *)
(* responsible for, and every later chunk is delivered in order or lost for *)
(* one of the two reasons TerminalStream names.                             *)
ImplementsTerminalStream == Stream!Spec
=============================================================================
