--------------------------- MODULE PtySession_proofs ---------------------------
(***************************************************************************)
(* Proofs about PtySession for every number of attachments, chunks and      *)
(* channel slots.                                                           *)
(*                                                                          *)
(* Discipline is what the locks and the program counters guarantee; it is   *)
(* what makes the stream invariants inductive.                              *)
(***************************************************************************)
EXTENDS PtySession, TLAPS

(* The terminal lock is held exactly while a chunk is parsed and picked, or *)
(* while an attach is under way.                                            *)
LockHeld ==
  /\ termLock = "reader" <=> readerPc = "parsed"
  /\ termLock = "caller" <=> callerPc = "attaching"

(* A closed output has no sink, a reader that ended closed it, and the sink *)
(* is never that of an older attachment.                                    *)
SinkShape ==
  /\ output = "closed" => current = 0
  /\ readerPc = "done" => output = "closed"
  /\ current \in {0, nextToken - 1}
  /\ target < nextToken

(* A token not yet issued has no stream.                                    *)
StreamShape ==
  \A t \in Tokens \ Issued :
    /\ chan[t] = <<>> /\ got[t] = {} /\ lost[t] = {}
    /\ fwd[t] = "none"

(* No snapshot holds a chunk that is not routed yet.                        *)
SnapshotShape ==
  \A t \in Issued :
    /\ snapAt[t] <= parsed
    /\ readerPc = "parsed" => snapAt[t] < parsed

Discipline == LockHeld /\ SinkShape /\ StreamShape /\ SnapshotShape

(* The constants and the named index sets, in the form the steps use. *)
USE MaxTokenAssumption, MaxChunkAssumption, ChanCapAssumption DEF Tokens, Issued

-----------------------------------------------------------------------------
(* What a channel holds after a send and after a receive. *)
LEMMA RangeOfAppend ==
  ASSUME NEW S, NEW s \in Seq(S), NEW e \in S
  PROVE  Range(Append(s, e)) = Range(s) \union {e}
BY DEF Range

LEMMA AppendKeepsOrder ==
  ASSUME NEW s \in Seq(Nat), NEW e \in Nat,
         \A i, j \in DOMAIN s : i < j => s[i] < s[j],
         \A c \in Range(s) : c < e
  PROVE  \A i, j \in DOMAIN Append(s, e) : i < j => Append(s, e)[i] < Append(s, e)[j]
<1>1. /\ Len(s) \in Nat /\ DOMAIN s = 1 .. Len(s) /\ DOMAIN Append(s, e) = 1 .. Len(s) + 1
      /\ Append(s, e)[Len(s) + 1] = e
      /\ \A i \in 1 .. Len(s) : Append(s, e)[i] = s[i]
  OBVIOUS
<1>2. \A i \in DOMAIN s : s[i] < e
  BY DEF Range
<1> QED BY <1>1, <1>2

LEMMA TailKeepsOrder ==
  ASSUME NEW s \in Seq(Nat), s # <<>>,
         \A i, j \in DOMAIN s : i < j => s[i] < s[j]
  PROVE  /\ \A i, j \in DOMAIN Tail(s) : i < j => Tail(s)[i] < Tail(s)[j]
         /\ \A c \in Range(Tail(s)) : Head(s) < c
         /\ Range(Tail(s)) \subseteq Range(s)
<1>1. /\ Len(s) \in Nat \ {0} /\ DOMAIN s = 1 .. Len(s) /\ Head(s) = s[1]
      /\ DOMAIN Tail(s) = 1 .. Len(s) - 1
      /\ \A i \in 1 .. Len(s) - 1 : Tail(s)[i] = s[i + 1]
  OBVIOUS
<1>2. \A i \in 1 .. Len(s) - 1 : i + 1 \in DOMAIN s /\ 1 < i + 1 /\ 1 \in DOMAIN s
  BY <1>1
<1>3. \A i, j \in DOMAIN Tail(s) : i < j => Tail(s)[i] < Tail(s)[j]
  BY <1>1, <1>2
<1>4. \A i \in DOMAIN Tail(s) : Head(s) < Tail(s)[i] /\ Tail(s)[i] \in Range(s)
  BY <1>1, <1>2 DEF Range
<1> QED BY <1>3, <1>4 DEF Range

LEMMA RangeOfTail ==
  ASSUME NEW S, NEW s \in Seq(S), s # <<>>
  PROVE  Range(s) = Range(Tail(s)) \union {Head(s)}
<1>1. Head(s) = s[1] /\ Len(s) \in Nat \ {0} /\ DOMAIN s = 1 .. Len(s)
  OBVIOUS
<1>2. DOMAIN Tail(s) = 1 .. Len(s) - 1 /\ \A i \in 1 .. Len(s) - 1 : Tail(s)[i] = s[i + 1]
  OBVIOUS
<1>3. \A i \in DOMAIN s : i = 1 \/ (i - 1 \in DOMAIN Tail(s) /\ Tail(s)[i - 1] = s[i])
  BY <1>1, <1>2
<1> QED
  BY <1>1, <1>2, <1>3 DEF Range

-----------------------------------------------------------------------------
(* The variables keep their types. *)
LEMMA TypeInit == Init => TypeOK
BY DEF Init, TypeOK, ControlTypes, StreamTypes

LEMMA TypeStep == TypeOK /\ [Next]_vars => TypeOK'
<1> SUFFICES ASSUME TypeOK, [Next]_vars PROVE TypeOK'
  OBVIOUS
<1> USE DEF TypeOK, ControlTypes, StreamTypes
<1>1. CASE ChildExit
  BY <1>1 DEF ChildExit, readerVars, outputVars, streamVars
<1>2. CASE Watcher
  <2>1. CASE WatchPoll
    BY <2>1 DEF WatchPoll, readerVars, outputVars, streamVars
  <2>2. CASE WatchClose
    BY <2>2 DEF WatchClose, CloseOutput, readerVars, streamVars
  <2> QED BY <1>2, <2>1, <2>2 DEF Watcher
<1>3. CASE Reader
  <2>1. CASE ReaderParse
    BY <2>1 DEF ReaderParse, watchVars, outputVars, streamVars
  <2>2. CASE ReaderPanic
    BY <2>2 DEF ReaderPanic, watchVars, outputVars, streamVars
  <2>3. CASE ReaderPick
    BY <2>3 DEF ReaderPick, watchVars, outputVars, streamVars
  <2>4. CASE ReaderSend
    <3>1. target \in Tokens /\ parsed \in 1 .. MaxChunk
      BY <2>4 DEF ReaderSend
    <3>2. chan' \in [Tokens -> Seq(1 .. MaxChunk)]
      <4>1. Append(chan[target], parsed) \in Seq(1 .. MaxChunk)
        BY <3>1
      <4> QED BY <2>4, <3>1, <4>1 DEF ReaderSend
    <3>3. lost' \in [Tokens -> SUBSET (1 .. MaxChunk)]
      <4>1. lost \in [Tokens -> SUBSET (1 .. MaxChunk)]
        OBVIOUS
      <4>2. lost[target] \union {parsed} \in SUBSET (1 .. MaxChunk)
        BY <3>1, <4>1
      <4> HIDE DEF TypeOK, ControlTypes, StreamTypes
      <4> QED BY <2>4, <3>1, <4>1, <4>2 DEF ReaderSend
    <3>4. StreamTypes'
      BY <2>4, <3>2, <3>3 DEF ReaderSend
    <3>5. ControlTypes'
      BY <2>4 DEF ReaderSend, watchVars, outputVars
    <3> QED BY <3>4, <3>5
  <2>5. CASE ReaderEof
    BY <2>5 DEF ReaderEof, watchVars, outputVars, streamVars
  <2>6. CASE ReaderClose
    BY <2>6 DEF ReaderClose, CloseOutput, watchVars, streamVars
  <2> QED BY <1>3, <2>1, <2>2, <2>3, <2>4, <2>5, <2>6 DEF Reader
<1>4. CASE Caller
  <2>1. CASE AttachBegin
    BY <2>1 DEF AttachBegin, watchVars, readerVars, outputVars, streamVars
  <2>2. CASE AttachCommit
    <3>1. ControlTypes'
      BY <2>2 DEF AttachCommit, watchVars, readerVars
    <3>2. StreamTypes'
      BY <2>2 DEF AttachCommit
    <3> QED BY <3>1, <3>2
  <2>3. CASE AttachRefuse
    BY <2>3 DEF AttachRefuse, CloseOutput, watchVars, readerVars, streamVars
  <2>4. CASE KillBegin
    BY <2>4 DEF KillBegin, readerVars, outputVars, streamVars
  <2>5. CASE KillClose
    BY <2>5 DEF KillClose, CloseOutput, watchVars, readerVars, streamVars
  <2>6. CASE \E t \in Tokens : Detach(t)
    BY <2>6 DEF Detach, watchVars, readerVars, streamVars
  <2> QED BY <1>4, <2>1, <2>2, <2>3, <2>4, <2>5, <2>6 DEF Caller
<1>5. CASE \E t \in Tokens : Forwarder(t)
  <2> PICK t \in Tokens : Forwarder(t)
    BY <1>5
  <2>1. CASE ForwardRecv(t)
    <3>1. ControlTypes'
      BY <2>1 DEF ForwardRecv, watchVars, readerVars, outputVars
    <3>2. Head(chan[t]) \in 1 .. MaxChunk /\ Tail(chan[t]) \in Seq(1 .. MaxChunk)
      BY <2>1 DEF ForwardRecv
    <3>3. StreamTypes'
      BY <2>1, <3>2 DEF ForwardRecv
    <3> QED BY <3>1, <3>3
  <2>2. CASE ForwardEnd(t)
    <3>1. ControlTypes'
      BY <2>2 DEF ForwardEnd, watchVars, readerVars, outputVars
    <3>2. StreamTypes'
      BY <2>2 DEF ForwardEnd
    <3> QED BY <3>1, <3>2
  <2>3. CASE ForwardAbort(t)
    <3>1. ControlTypes'
      BY <2>3 DEF ForwardAbort, watchVars, readerVars, outputVars
    <3>2. Range(chan[t]) \subseteq 1 .. MaxChunk
      BY DEF Range
    <3>3. StreamTypes'
      BY <2>3, <3>2 DEF ForwardAbort
    <3> QED BY <3>1, <3>3
  <2> QED BY <2>1, <2>2, <2>3 DEF Forwarder
<1>6. CASE UNCHANGED vars
  BY <1>6 DEF vars, watchVars, readerVars, outputVars, streamVars
<1> QED BY <1>1, <1>2, <1>3, <1>4, <1>5, <1>6 DEF Next

(* Type correctness, for every instance. *)
THEOREM TypeCorrect == Spec => []TypeOK
BY TypeInit, TypeStep, PTL DEF Spec
-----------------------------------------------------------------------------
(* What the locks and program counters guarantee. *)
LEMMA DisciplineInit == Init => Discipline
BY DEF Init, Discipline, LockHeld, SinkShape, StreamShape, SnapshotShape

(* The locks and the sink. *)
LEMMA SinkStep == TypeOK /\ LockHeld /\ SinkShape /\ [Next]_vars => LockHeld' /\ SinkShape'
<1> SUFFICES ASSUME TypeOK, LockHeld, SinkShape, [Next]_vars PROVE LockHeld' /\ SinkShape'
  OBVIOUS
<1> USE DEF TypeOK, ControlTypes, LockHeld, SinkShape, watchVars, readerVars, outputVars, streamVars
<1>1. CASE ChildExit
  BY <1>1 DEF ChildExit
<1>2. CASE WatchPoll
  BY <1>2 DEF WatchPoll
<1>3. CASE WatchClose
  BY <1>3 DEF WatchClose, CloseOutput
<1>4. CASE ReaderParse
  BY <1>4 DEF ReaderParse
<1>5. CASE ReaderPanic
  BY <1>5 DEF ReaderPanic
<1>6. CASE ReaderPick
  BY <1>6 DEF ReaderPick
<1>7. CASE ReaderSend
  BY <1>7 DEF ReaderSend
<1>8. CASE ReaderEof
  BY <1>8 DEF ReaderEof
<1>9. CASE ReaderClose
  BY <1>9 DEF ReaderClose, CloseOutput
<1>10. CASE AttachBegin
  BY <1>10 DEF AttachBegin
<1>11. CASE AttachCommit
  BY <1>11 DEF AttachCommit
<1>12. CASE AttachRefuse
  BY <1>12 DEF AttachRefuse, CloseOutput
<1>13. CASE KillBegin
  BY <1>13 DEF KillBegin
<1>14. CASE KillClose
  BY <1>14 DEF KillClose, CloseOutput
<1>15. ASSUME NEW t \in Tokens, Detach(t) PROVE LockHeld' /\ SinkShape'
  BY <1>15 DEF Detach
<1>16. ASSUME NEW t \in Tokens, ForwardRecv(t) PROVE LockHeld' /\ SinkShape'
  BY <1>16 DEF ForwardRecv
<1>17. ASSUME NEW t \in Tokens, ForwardEnd(t) PROVE LockHeld' /\ SinkShape'
  BY <1>17 DEF ForwardEnd
<1>18. ASSUME NEW t \in Tokens, ForwardAbort(t) PROVE LockHeld' /\ SinkShape'
  BY <1>18 DEF ForwardAbort
<1>19. CASE UNCHANGED vars
  BY <1>19 DEF vars
<1> QED BY <1>1, <1>2, <1>3, <1>4, <1>5, <1>6, <1>7, <1>8, <1>9, <1>10, <1>11, <1>12, <1>13, <1>14, <1>15, <1>16, <1>17, <1>18, <1>19
       DEF Next, Watcher, Reader, Caller, Forwarder

(* Only issued tokens have a stream: a sender or a forwarder is theirs. *)
LEMMA StreamShapeStep == TypeOK /\ TypeOK' /\ SinkShape /\ StreamShape /\ [Next]_vars => StreamShape'
<1> SUFFICES ASSUME TypeOK, TypeOK', SinkShape, StreamShape, [Next]_vars PROVE StreamShape'
  OBVIOUS
<1> USE DEF TypeOK, ControlTypes, StreamTypes, SinkShape, StreamShape, watchVars, readerVars, outputVars, streamVars
<1>1. CASE ChildExit
  BY <1>1 DEF ChildExit
<1>2. CASE WatchPoll
  BY <1>2 DEF WatchPoll
<1>3. CASE WatchClose
  BY <1>3 DEF WatchClose, CloseOutput
<1>4. CASE ReaderParse
  BY <1>4 DEF ReaderParse
<1>5. CASE ReaderPanic
  BY <1>5 DEF ReaderPanic
<1>6. CASE ReaderPick
  BY <1>6 DEF ReaderPick
<1>7. CASE ReaderSend
  <2>1. target \in Issued /\ nextToken' = nextToken /\ fwd' = fwd /\ got' = got
    BY <1>7 DEF ReaderSend
  <2>2. \A t \in Tokens \ Issued : chan'[t] = chan[t] /\ lost'[t] = lost[t]
    BY <1>7, <2>1 DEF ReaderSend
  <2> QED BY <2>1, <2>2
<1>8. CASE ReaderEof
  BY <1>8 DEF ReaderEof
<1>9. CASE ReaderClose
  BY <1>9 DEF ReaderClose, CloseOutput
<1>10. CASE AttachBegin
  BY <1>10 DEF AttachBegin
<1>11. CASE AttachCommit
  <2>1. Issued \subseteq Issued' /\ nextToken \in Issued'
    BY <1>11 DEF AttachCommit
  <2>2. \A t \in Tokens \ Issued' : fwd'[t] = fwd[t]
    BY <1>11, <2>1 DEF AttachCommit
  <2> QED BY <1>11, <2>1, <2>2 DEF AttachCommit
<1>12. CASE AttachRefuse
  BY <1>12 DEF AttachRefuse, CloseOutput
<1>13. CASE KillBegin
  BY <1>13 DEF KillBegin
<1>14. CASE KillClose
  BY <1>14 DEF KillClose, CloseOutput
<1>15. ASSUME NEW t \in Tokens, Detach(t) PROVE StreamShape'
  BY <1>15 DEF Detach
<1>16. ASSUME NEW t \in Tokens, ForwardRecv(t) PROVE StreamShape'
  BY <1>16 DEF ForwardRecv
<1>17. ASSUME NEW t \in Tokens, ForwardEnd(t) PROVE StreamShape'
  BY <1>17 DEF ForwardEnd
<1>18. ASSUME NEW t \in Tokens, ForwardAbort(t) PROVE StreamShape'
  <2>1. t \in Issued /\ nextToken' = nextToken /\ got' = got
    BY <1>18 DEF ForwardAbort
  <2>2. \A u \in Tokens \ Issued : chan'[u] = chan[u] /\ lost'[u] = lost[u] /\ fwd'[u] = fwd[u]
    BY <1>18, <2>1 DEF ForwardAbort
  <2> QED BY <2>1, <2>2
<1>19. CASE UNCHANGED vars
  BY <1>19 DEF vars
<1> QED BY <1>1, <1>2, <1>3, <1>4, <1>5, <1>6, <1>7, <1>8, <1>9, <1>10, <1>11, <1>12, <1>13, <1>14, <1>15, <1>16, <1>17, <1>18, <1>19
       DEF Next, Watcher, Reader, Caller, Forwarder

(* The terminal lock keeps an attach from taking a snapshot that holds the
   chunk being parsed. *)
LEMMA SnapshotStep == TypeOK /\ TypeOK' /\ LockHeld /\ SnapshotShape /\ [Next]_vars => SnapshotShape'
<1> SUFFICES ASSUME TypeOK, TypeOK', LockHeld, SnapshotShape, [Next]_vars PROVE SnapshotShape'
  OBVIOUS
<1> USE DEF TypeOK, ControlTypes, StreamTypes, LockHeld, SnapshotShape, watchVars, readerVars, outputVars, streamVars
<1>1. CASE ChildExit
  BY <1>1 DEF ChildExit
<1>2. CASE WatchPoll
  BY <1>2 DEF WatchPoll
<1>3. CASE WatchClose
  BY <1>3 DEF WatchClose, CloseOutput
<1>4. CASE ReaderParse
  BY <1>4 DEF ReaderParse
<1>5. CASE ReaderPanic
  BY <1>5 DEF ReaderPanic
<1>6. CASE ReaderPick
  BY <1>6 DEF ReaderPick
<1>7. CASE ReaderSend
  BY <1>7 DEF ReaderSend
<1>8. CASE ReaderEof
  BY <1>8 DEF ReaderEof
<1>9. CASE ReaderClose
  BY <1>9 DEF ReaderClose, CloseOutput
<1>10. CASE AttachBegin
  BY <1>10 DEF AttachBegin
<1>11. CASE AttachCommit
  BY <1>11 DEF AttachCommit
<1>12. CASE AttachRefuse
  BY <1>12 DEF AttachRefuse, CloseOutput
<1>13. CASE KillBegin
  BY <1>13 DEF KillBegin
<1>14. CASE KillClose
  BY <1>14 DEF KillClose, CloseOutput
<1>15. ASSUME NEW t \in Tokens, Detach(t) PROVE SnapshotShape'
  BY <1>15 DEF Detach
<1>16. ASSUME NEW t \in Tokens, ForwardRecv(t) PROVE SnapshotShape'
  BY <1>16 DEF ForwardRecv
<1>17. ASSUME NEW t \in Tokens, ForwardEnd(t) PROVE SnapshotShape'
  BY <1>17 DEF ForwardEnd
<1>18. ASSUME NEW t \in Tokens, ForwardAbort(t) PROVE SnapshotShape'
  BY <1>18 DEF ForwardAbort
<1>19. CASE UNCHANGED vars
  BY <1>19 DEF vars
<1> QED BY <1>1, <1>2, <1>3, <1>4, <1>5, <1>6, <1>7, <1>8, <1>9, <1>10, <1>11, <1>12, <1>13, <1>14, <1>15, <1>16, <1>17, <1>18, <1>19
       DEF Next, Watcher, Reader, Caller, Forwarder

LEMMA DisciplineInvariant == Spec => [](TypeOK /\ Discipline)
<1>1. Init => TypeOK /\ Discipline
  BY TypeInit, DisciplineInit
<1>2. TypeOK /\ Discipline /\ [Next]_vars => (TypeOK /\ Discipline)'
  BY TypeStep, SinkStep, StreamShapeStep, SnapshotStep DEF Discipline
<1> QED BY <1>1, <1>2, PTL DEF Spec
-----------------------------------------------------------------------------
(* What a step does to the chunks routed to an attachment: only the pick    *)
(* adds one; sending, receiving and dropping move chunks around.            *)
LEMMA RoutedKept ==
  ASSUME TypeOK, [Next]_vars, ~ReaderPick, NEW u \in Tokens
  PROVE  Routed(u)' = Routed(u)
<1> USE DEF TypeOK, ControlTypes, StreamTypes, Routed, watchVars, readerVars, outputVars, streamVars
<1>1. CASE ReaderParse
  BY <1>1 DEF ReaderParse
<1>2. CASE ReaderSend
  <2>1. target \in Tokens /\ parsed \in 1 .. MaxChunk /\ target' = 0 /\ parsed' = parsed /\ got' = got
    BY <1>2 DEF ReaderSend
  <2>2. CASE u # target
    <3>1. chan'[u] = chan[u] /\ lost'[u] = lost[u]
      BY <1>2, <2>1, <2>2 DEF ReaderSend
    <3> QED BY <2>1, <2>2, <3>1
  <2>3. CASE u = target
    <3>1. Range(Append(chan[u], parsed)) = Range(chan[u]) \union {parsed}
      <4>1. chan[u] \in Seq(1 .. MaxChunk)
        OBVIOUS
      <4> HIDE DEF TypeOK, ControlTypes, StreamTypes, Routed
      <4> QED BY <2>1, <4>1, RangeOfAppend
    <3>2. \/ chan'[u] = Append(chan[u], parsed) /\ lost'[u] = lost[u]
          \/ chan'[u] = chan[u] /\ lost'[u] = lost[u] \union {parsed}
      BY <1>2, <2>1, <2>3 DEF ReaderSend
    <3> QED BY <2>1, <2>3, <3>1, <3>2
  <2> QED BY <2>2, <2>3
<1>3. ASSUME NEW t \in Tokens, ForwardRecv(t) PROVE Routed(u)' = Routed(u)
  <2>1. target' = target /\ parsed' = parsed /\ lost' = lost
    BY <1>3 DEF ForwardRecv
  <2>2. CASE u # t
    BY <1>3, <2>1, <2>2 DEF ForwardRecv
  <2>3. CASE u = t
    <3>1. Range(chan[u]) = Range(Tail(chan[u])) \union {Head(chan[u])}
      BY <1>3, <2>3, RangeOfTail DEF ForwardRecv
    <3>2. chan'[u] = Tail(chan[u]) /\ got'[u] = got[u] \union {Head(chan[u])}
      BY <1>3, <2>3 DEF ForwardRecv
    <3> QED BY <2>1, <3>1, <3>2
  <2> QED BY <2>2, <2>3
<1>4. ASSUME NEW t \in Tokens, ForwardAbort(t) PROVE Routed(u)' = Routed(u)
  <2>1. Range(<<>>) = {}
    BY DEF Range
  <2>2. target' = target /\ parsed' = parsed /\ got' = got
    BY <1>4 DEF ForwardAbort
  <2>3. \/ chan'[u] = chan[u] /\ lost'[u] = lost[u]
        \/ chan'[u] = <<>> /\ lost'[u] = lost[u] \union Range(chan[u])
    BY <1>4 DEF ForwardAbort
  <2> QED BY <2>1, <2>2, <2>3
<1>5. CASE AttachCommit
  BY <1>5 DEF AttachCommit
<1>6. CASE \/ ChildExit \/ Watcher \/ ReaderPanic \/ ReaderEof \/ ReaderClose
           \/ AttachBegin \/ AttachRefuse \/ KillBegin \/ KillClose
           \/ \E t \in Tokens : Detach(t) \/ ForwardEnd(t)
           \/ UNCHANGED vars
  <2>1. UNCHANGED <<target, parsed, chan, got, lost>>
    BY <1>6 DEF ChildExit, Watcher, WatchPoll, WatchClose, ReaderPanic, ReaderEof, ReaderClose,
                AttachBegin, AttachRefuse, KillBegin, KillClose, Detach, ForwardEnd, vars
  <2> QED BY <2>1
<1> QED BY <1>1, <1>2, <1>3, <1>4, <1>5, <1>6 DEF Next, Watcher, Reader, Caller, Forwarder

LEMMA RoutedPicked ==
  ASSUME TypeOK, ReaderPick, NEW u \in Tokens
  PROVE  /\ current = u => Routed(u)' = Routed(u) \union {parsed}
         /\ current # u => Routed(u)' = Routed(u)
BY DEF TypeOK, ControlTypes, StreamTypes, Routed, ReaderPick, watchVars, outputVars, streamVars

(* Every other step keeps the snapshots, lets the boundary only grow, and   *)
(* moves it past an unrouted chunk only when the output is closed.          *)
LEMMA QuietStep ==
  ASSUME TypeOK, [Next]_vars, ~ReaderPick, ~AttachCommit
  PROVE  /\ snapAt' = snapAt /\ nextToken' = nextToken
         /\ Picked \in Int /\ Picked' \in Int /\ Picked <= Picked'
         /\ current' \in {0, current}
         /\ current' # 0 => Picked' = Picked
<1> USE DEF TypeOK, ControlTypes, StreamTypes, Picked, watchVars, readerVars, outputVars, streamVars
<1>1. CASE ReaderParse
  BY <1>1 DEF ReaderParse
<1>2. CASE ReaderSend
  BY <1>2 DEF ReaderSend
<1>3. CASE ReaderPanic \/ ReaderEof
  BY <1>3 DEF ReaderPanic, ReaderEof
<1>4. CASE ReaderClose
  BY <1>4 DEF ReaderClose, CloseOutput
<1>5. CASE ChildExit \/ Watcher
  BY <1>5 DEF ChildExit, Watcher, WatchPoll, WatchClose, CloseOutput
<1>6. CASE AttachBegin \/ AttachRefuse \/ KillBegin \/ KillClose
  BY <1>6 DEF AttachBegin, AttachRefuse, KillBegin, KillClose, CloseOutput
<1>7. ASSUME NEW t \in Tokens, Detach(t)
      PROVE  /\ UNCHANGED <<snapAt, nextToken, parsed, readerPc>>
             /\ current' \in {0, current}
  BY <1>7 DEF Detach
<1>8. ASSUME NEW t \in Tokens, Forwarder(t)
      PROVE  UNCHANGED <<snapAt, nextToken, parsed, readerPc, current>>
  BY <1>8 DEF Forwarder, ForwardRecv, ForwardEnd, ForwardAbort
<1>9. CASE UNCHANGED vars
  BY <1>9 DEF vars
<1> QED BY <1>1, <1>2, <1>3, <1>4, <1>5, <1>6, <1>7, <1>8, <1>9 DEF Next, Reader, Caller

-----------------------------------------------------------------------------
(* The stream invariants. *)
LEMMA Widen ==
  ASSUME NEW R, NEW a \in Int, NEW b \in Int, NEW c \in Int, R \subseteq a .. b, b <= c
  PROVE  R \subseteq a .. c
OBVIOUS

LEMMA OneSurfaceStep ==
  ASSUME TypeOK, TypeOK', Discipline, OneSurface, [Next]_vars
  PROVE  OneSurface'
<1>1. Issued' \subseteq Tokens
  <2> DEFINE n == nextToken'
  <2>1. n \in 2 .. (MaxToken + 1)
    BY DEF TypeOK, ControlTypes
  <2> HIDE DEF n
  <2>2. 1 .. (n - 1) \subseteq Tokens
    BY <2>1
  <2> QED BY <2>2 DEF n
<1> SUFFICES ASSUME NEW u \in Tokens, u \in Issued'
             PROVE  Routed(u)' \subseteq ((snapAt[u] + 1) .. Boundary(u))'
  BY <1>1 DEF OneSurface
<1>n. /\ parsed \in Nat /\ current \in Nat /\ target \in Nat /\ nextToken \in Nat \ {0, 1}
      /\ snapAt \in [Tokens -> Nat]
      /\ Issued \subseteq Tokens
      /\ Picked \in Int /\ Picked <= parsed
  <2>1. parsed \in Nat /\ current \in Nat /\ target \in Nat /\ nextToken \in 2 .. (MaxToken + 1)
    BY DEF TypeOK, ControlTypes
  <2>2. snapAt \in [Tokens -> Nat]
    BY DEF TypeOK, StreamTypes
  <2> QED BY <2>1, <2>2 DEF Picked
<1>2. CASE ReaderPick
  <2>1. u \in Issued /\ UNCHANGED <<snapAt, nextToken, parsed>>
    BY <1>2 DEF ReaderPick, outputVars, streamVars
  <2>2. Picked = parsed - 1 /\ Picked' = parsed
    BY <1>2 DEF ReaderPick, Picked
  <2>3. Routed(u) \subseteq (snapAt[u] + 1) .. Boundary(u)
    BY <2>1 DEF OneSurface
  <2>4. CASE current = u
    <3>1. Boundary(u) = Picked /\ Boundary(u)' = Picked'
      BY <1>n, <2>1, <2>4 DEF Boundary, Discipline, SinkShape
    <3>2. snapAt[u] < parsed
      BY <1>2, <2>1 DEF ReaderPick, Discipline, SnapshotShape
    <3>3. Routed(u)' = Routed(u) \union {parsed}
      BY <1>2, <2>4, RoutedPicked
    <3> QED BY <1>n, <2>1, <2>2, <2>3, <3>1, <3>2, <3>3
  <2>5. CASE current # u
    <3>1. Routed(u)' = Routed(u)
      BY <1>2, <2>5, RoutedPicked
    <3>2. Boundary(u) \in Int /\ Boundary(u)' \in Int /\ Boundary(u) <= Boundary(u)'
      BY <1>n, <2>1, <2>2 DEF Boundary
    <3> QED BY <1>n, <2>1, <2>3, <3>1, <3>2, Widen
  <2> QED BY <2>4, <2>5
<1>3. CASE AttachCommit
  <2>1. nextToken' = nextToken + 1 /\ parsed' = parsed /\ Picked' = Picked
    BY <1>3 DEF AttachCommit, readerVars, Picked
  <2>2. snapAt' = [snapAt EXCEPT ![nextToken] = parsed]
    BY <1>3 DEF AttachCommit
  <2>3. Routed(u)' = Routed(u)
    BY <1>3, RoutedKept DEF AttachCommit, ReaderPick, Discipline, LockHeld, TypeOK, ControlTypes
  <2>4. CASE u = nextToken
    <3>1. u \in Tokens \ Issued
      BY <1>n, <2>4
    <3>2. chan[u] = <<>> /\ got[u] = {} /\ lost[u] = {}
      BY <3>1 DEF Discipline, StreamShape
    <3>3. target # u
      BY <1>n, <2>4 DEF Discipline, SinkShape
    <3>4. Routed(u) = {}
      BY <3>2, <3>3 DEF Routed, Range
    <3> QED BY <2>3, <3>4
  <2>5. CASE u # nextToken
    <3>1. u \in Issued /\ snapAt'[u] = snapAt[u]
      BY <1>n, <2>1, <2>2, <2>5
    <3>2. Boundary(u) \in Int /\ Boundary(u)' \in Int /\ Boundary(u) <= Boundary(u)'
      <4>1. CASE u + 1 = nextToken
        <5>1. nextToken \in Tokens /\ u + 1 \notin Issued /\ u + 1 \in Issued'
          BY <1>n, <1>1, <2>1, <4>1
        <5>2. snapAt'[nextToken] = parsed
          BY <1>n, <2>2, <5>1
        <5>3. Boundary(u) = Picked /\ Boundary(u)' = parsed
          BY <4>1, <5>1, <5>2 DEF Boundary
        <5> QED BY <1>n, <5>3
      <4>2. CASE u + 1 # nextToken
        <5>1. u + 1 \in Issued /\ u + 1 \in Issued' /\ u + 1 \in Tokens
          BY <1>n, <1>1, <2>1, <3>1, <4>2
        <5>2. Boundary(u) = snapAt[u + 1] /\ Boundary(u)' = snapAt'[u + 1]
          BY <5>1 DEF Boundary
        <5>3. snapAt'[u + 1] = snapAt[u + 1]
          BY <1>n, <2>2, <4>2, <5>1
        <5> QED BY <1>n, <5>1, <5>2, <5>3
      <4> QED BY <4>1, <4>2
    <3>3. Routed(u) \subseteq (snapAt[u] + 1) .. Boundary(u)
      BY <3>1 DEF OneSurface
    <3>4. snapAt[u] + 1 \in Int
      BY <1>n
    <3> QED BY <2>3, <3>1, <3>2, <3>3, <3>4, Widen
  <2> QED BY <2>4, <2>5
<1>4. CASE ~ReaderPick /\ ~AttachCommit
  <2>1. Routed(u)' = Routed(u)
    BY <1>4, RoutedKept
  <2>2. /\ snapAt' = snapAt /\ nextToken' = nextToken
        /\ Picked \in Int /\ Picked' \in Int /\ Picked <= Picked'
    BY <1>4, QuietStep
  <2>3. Boundary(u) \in Int /\ Boundary(u)' \in Int /\ Boundary(u) <= Boundary(u)'
    BY <1>n, <2>2 DEF Boundary
  <2>4. Routed(u) \subseteq (snapAt[u] + 1) .. Boundary(u)
    BY <2>2 DEF OneSurface
  <2>5. snapAt[u] + 1 \in Int
    BY <1>n
  <2> QED BY <2>1, <2>2, <2>3, <2>4, <2>5, Widen
<1> QED BY <1>2, <1>3, <1>4

LEMMA NoSilentGapStep ==
  ASSUME TypeOK, Discipline, OneSurface, NoSilentGap, [Next]_vars
  PROVE  NoSilentGap'
<1> SUFFICES ASSUME current' # 0
             PROVE  Routed(current)' = ((snapAt[current] + 1) .. Picked)'
  BY DEF NoSilentGap
<1> USE DEF TypeOK, ControlTypes, StreamTypes, Discipline, SinkShape, SnapshotShape
<1>1. CASE ReaderPick
  <2>1. current' = current /\ current \in Issued /\ snapAt' = snapAt
    BY <1>1 DEF ReaderPick, outputVars, streamVars
  <2>2. Picked = parsed - 1 /\ Picked' = parsed /\ snapAt[current] < parsed
    BY <1>1, <2>1 DEF ReaderPick, Picked
  <2>3. Routed(current) = (snapAt[current] + 1) .. Picked
    BY <2>1 DEF NoSilentGap
  <2>4. Routed(current)' = Routed(current) \union {parsed}
    <3>1. Routed(current)' = got'[current] \union lost'[current] \union Range(chan'[current])
                               \union (IF target' = current THEN {parsed'} ELSE {})
      BY <2>1 DEF Routed
    <3>2. Routed(current) = got[current] \union lost[current] \union Range(chan[current])
      BY <1>1, <2>1 DEF Routed, ReaderPick
    <3> QED BY <1>1, <2>1, <3>1, <3>2 DEF ReaderPick, streamVars
  <2>5. snapAt[current] \in Nat /\ parsed \in Nat
    BY <2>1
  <2> HIDE DEF TypeOK, Discipline
  <2> QED BY <2>1, <2>2, <2>3, <2>4, <2>5
<1>2. CASE AttachCommit
  <2>1. current' = nextToken /\ nextToken \in Tokens \ Issued /\ snapAt'[nextToken] = parsed /\ Picked' <= parsed
    BY <1>2 DEF AttachCommit, readerVars, Picked
  <2>2. Routed(current)' = {}
    <3>1. chan'[nextToken] = <<>> /\ got'[nextToken] = {} /\ lost'[nextToken] = {}
      BY <1>2, <2>1 DEF AttachCommit, StreamShape
    <3>2. target' = target /\ target # nextToken
      BY <1>2 DEF AttachCommit, readerVars
    <3> QED BY <2>1, <3>1, <3>2 DEF Routed, Range
  <2>3. Picked' \in Int /\ parsed \in Int
    BY <1>2 DEF AttachCommit, readerVars, Picked
  <2>4. ((snapAt[current] + 1) .. Picked)' = (parsed + 1) .. Picked'
    BY <2>1
  <2> DEFINE k == Picked'
  <2> HIDE DEF k
  <2>5. (parsed + 1) .. k = {}
    BY <2>1, <2>3 DEF k
  <2> QED BY <2>2, <2>4, <2>5 DEF k
<1>3. CASE ~ReaderPick /\ ~AttachCommit
  <2>1. current' = current /\ current \in Tokens /\ snapAt' = snapAt /\ Picked' = Picked
    BY <1>3, QuietStep
  <2>2. ASSUME NEW u \in Tokens PROVE Routed(u)' = Routed(u)
    BY <1>3, RoutedKept
  <2>3. Routed(current) = (snapAt[current] + 1) .. Picked
    BY <2>1 DEF NoSilentGap
  <2>4. Routed(current)' = Routed(current)
    <3> DEFINE u == current
    <3>1. u \in Tokens /\ u = current'
      BY <2>1
    <3> QED BY <2>1, <2>2, <3>1 DEF Routed
  <2> QED BY <2>1, <2>3, <2>4
<1> QED BY <1>1, <1>2, <1>3

LEMMA InOrderStep ==
  ASSUME TypeOK, Discipline, OneSurface, InOrder, [Next]_vars
  PROVE  InOrder'
<1> SUFFICES ASSUME NEW u \in Tokens PROVE Ordered(u)'
  BY DEF InOrder
<1>0. Ordered(u)
  BY DEF InOrder
<1> USE DEF TypeOK, ControlTypes, StreamTypes
<1>1. CASE ReaderParse
  BY <1>0, <1>1 DEF ReaderParse, Ordered, outputVars, streamVars
<1>2. CASE ReaderPick
  <2>1. chan' = chan /\ got' = got /\ parsed' = parsed /\ target' = current
    BY <1>2 DEF ReaderPick, streamVars
  <2>2. ASSUME current = u PROVE \A c \in got[u] \union Range(chan[u]) : c < parsed
    <3>1. u \in Issued /\ Boundary(u) = Picked /\ Picked = parsed - 1
      BY <1>2, <2>2 DEF ReaderPick, Boundary, Picked, Discipline, SinkShape
    <3>2. got[u] \union Range(chan[u]) \subseteq (snapAt[u] + 1) .. Picked
      BY <3>1 DEF OneSurface, Routed
    <3> HIDE DEF TypeOK
    <3>3. snapAt[u] \in Nat /\ parsed \in Nat
      BY DEF TypeOK
    <3> QED BY <3>1, <3>2, <3>3
  <2> QED BY <1>0, <2>1, <2>2 DEF Ordered
<1>3. CASE ReaderSend
  <2>1. got' = got /\ target' # u
    BY <1>3 DEF ReaderSend
  <2>2. CASE chan'[u] = chan[u]
    BY <1>0, <2>1, <2>2 DEF Ordered
  <2>3. CASE u = target /\ chan'[u] = Append(chan[u], parsed)
    <3>1. chan[u] \in Seq(1 .. MaxChunk) /\ parsed \in 1 .. MaxChunk
      BY <1>3 DEF ReaderSend
    <3>2. chan[u] \in Seq(Nat) /\ parsed \in Nat
      BY <3>1
    <3>3. \A i, j \in DOMAIN chan[u] : i < j => chan[u][i] < chan[u][j]
      BY <1>0 DEF Ordered
    <3>4. \A c \in got[u] \union Range(chan[u]) : c < parsed
      BY <1>0, <2>3 DEF Ordered
    <3>5. Range(chan'[u]) = Range(chan[u]) \union {parsed}
      <4> HIDE DEF TypeOK, ControlTypes, StreamTypes
      <4> QED BY <2>3, <3>2, RangeOfAppend
    <3> HIDE DEF TypeOK, ControlTypes, StreamTypes
    <3>6. \A i, j \in DOMAIN chan'[u] : i < j => chan'[u][i] < chan'[u][j]
      BY <2>3, <3>2, <3>3, <3>4, AppendKeepsOrder
    <3>7. \A c \in got[u], d \in Range(chan'[u]) : c < d
      BY <1>0, <3>4, <3>5 DEF Ordered
    <3> QED BY <2>1, <3>6, <3>7 DEF Ordered
  <2>4. chan'[u] = chan[u] \/ (u = target /\ chan'[u] = Append(chan[u], parsed))
    BY <1>3 DEF ReaderSend
  <2> QED BY <2>2, <2>3, <2>4
<1>4. ASSUME NEW t \in Tokens, ForwardRecv(t) PROVE Ordered(u)'
  <2>1. target' = target /\ parsed' = parsed
    BY <1>4 DEF ForwardRecv, readerVars
  <2>2. CASE u # t
    <3>1. chan'[u] = chan[u] /\ got'[u] = got[u]
      BY <1>4, <2>2 DEF ForwardRecv
    <3> QED BY <1>0, <2>1, <3>1 DEF Ordered
  <2>3. CASE u = t
    <3>1. chan[u] # <<>> /\ chan'[u] = Tail(chan[u]) /\ got'[u] = got[u] \union {Head(chan[u])}
      BY <1>4, <2>3 DEF ForwardRecv
    <3>2. chan[u] \in Seq(Nat)
      OBVIOUS
    <3>3. /\ \A i, j \in DOMAIN chan[u] : i < j => chan[u][i] < chan[u][j]
          /\ \A c \in got[u], d \in Range(chan[u]) : c < d
          /\ target = u => \A c \in got[u] \union Range(chan[u]) : c < parsed
      BY <1>0 DEF Ordered
    <3>4. Range(chan[u]) = Range(Tail(chan[u])) \union {Head(chan[u])}
      BY <3>1, <3>2, RangeOfTail
    <3> HIDE DEF TypeOK, ControlTypes, StreamTypes
    <3>5. /\ \A i, j \in DOMAIN chan'[u] : i < j => chan'[u][i] < chan'[u][j]
          /\ \A c \in Range(chan'[u]) : Head(chan[u]) < c
      BY <3>1, <3>2, <3>3, TailKeepsOrder
    <3>6. \A c \in got'[u], d \in Range(chan'[u]) : c < d
      BY <3>1, <3>3, <3>4, <3>5
    <3>7. target' = u => \A c \in got'[u] \union Range(chan'[u]) : c < parsed'
      BY <2>1, <3>1, <3>3, <3>4
    <3> QED BY <3>5, <3>6, <3>7 DEF Ordered
  <2> QED BY <2>2, <2>3
<1>5. ASSUME NEW t \in Tokens, ForwardAbort(t) PROVE Ordered(u)'
  <2>1. target' = target /\ parsed' = parsed /\ got' = got
    BY <1>5 DEF ForwardAbort, readerVars
  <2>2. chan'[u] = chan[u] \/ chan'[u] = <<>>
    BY <1>5 DEF ForwardAbort
  <2> HIDE DEF TypeOK, ControlTypes, StreamTypes
  <2>3. CASE chan'[u] = chan[u]
    BY <1>0, <2>1, <2>3 DEF Ordered
  <2>4. CASE chan'[u] = <<>>
    <3>1. DOMAIN chan'[u] = {} /\ Range(chan'[u]) = {}
      BY <2>4 DEF Range
    <3> QED BY <1>0, <2>1, <3>1 DEF Ordered
  <2> QED BY <2>2, <2>3, <2>4
<1>6. CASE \/ ChildExit \/ Watcher \/ ReaderPanic \/ ReaderEof \/ ReaderClose
           \/ AttachBegin \/ AttachCommit \/ AttachRefuse \/ KillBegin \/ KillClose
           \/ \E t \in Tokens : Detach(t) \/ ForwardEnd(t)
           \/ UNCHANGED vars
  <2>1. UNCHANGED <<target, parsed, chan, got>>
    BY <1>6 DEF ChildExit, Watcher, WatchPoll, WatchClose, ReaderPanic, ReaderEof, ReaderClose,
                AttachBegin, AttachCommit, AttachRefuse, KillBegin, KillClose, Detach, ForwardEnd,
                vars, readerVars, streamVars
  <2> QED BY <1>0, <2>1 DEF Ordered
<1> QED BY <1>1, <1>2, <1>3, <1>4, <1>5, <1>6 DEF Next, Watcher, Reader, Caller, Forwarder

-----------------------------------------------------------------------------
(* The inductive invariant of the session, and what follows from it. *)
IInv == TypeOK /\ Discipline /\ OneSurface /\ NoSilentGap /\ InOrder

LEMMA IInvInit == Init => IInv
<1> SUFFICES ASSUME Init PROVE IInv
  OBVIOUS
<1>1. TypeOK /\ Discipline
  BY TypeInit, DisciplineInit
<1>2. \A t \in Tokens : Routed(t) = {} /\ Ordered(t)
  BY DEF Init, Routed, Ordered, Range
<1>3. OneSurface /\ InOrder
  <2>1. Issued \subseteq Tokens
    BY DEF Init
  <2> QED BY <1>2, <2>1 DEF OneSurface, InOrder
<1>4. NoSilentGap
  <2>1. current = 1 /\ 1 \in Tokens /\ snapAt[1] = 0 /\ Picked = 0
    BY DEF Init, Picked
  <2> QED BY <1>2, <2>1 DEF NoSilentGap
<1> QED BY <1>1, <1>3, <1>4 DEF IInv

LEMMA IInvStep == IInv /\ [Next]_vars => IInv'
<1> SUFFICES ASSUME IInv, [Next]_vars PROVE IInv'
  OBVIOUS
<1>1. TypeOK'
  BY TypeStep DEF IInv
<1>2. Discipline'
  BY <1>1, SinkStep, StreamShapeStep, SnapshotStep DEF IInv, Discipline
<1>3. OneSurface'
  BY <1>1, OneSurfaceStep DEF IInv
<1>4. NoSilentGap'
  BY NoSilentGapStep DEF IInv
<1>5. InOrder'
  BY InOrderStep DEF IInv
<1> QED BY <1>1, <1>2, <1>3, <1>4, <1>5 DEF IInv

LEMMA IInvInvariant == Spec => []IInv
BY IInvInit, IInvStep, PTL DEF Spec

(* A chunk is never replayed through two surfaces: whatever attach and the  *)
(* reader interleave, an attachment receives no chunk of its own snapshot   *)
(* and none of the next attachment's.                                       *)
THEOREM NeverReplayed == Spec => []OneSurface
<1>1. IInv => OneSurface
  BY DEF IInv
<1> QED BY <1>1, IInvInvariant, PTL

(* The attached client's stream starts right after its snapshot and has no  *)
(* hole but the chunks try_send dropped.                                    *)
THEOREM NeverSilentGap == Spec => []NoSilentGap
<1>1. IInv => NoSilentGap
  BY DEF IInv
<1> QED BY <1>1, IInvInvariant, PTL

(* No client stays attached to an output that was closed. *)
THEOREM ClosedSessionDetached == Spec => []ClosedIsDetached
<1>1. IInv => ClosedIsDetached
  BY DEF IInv, Discipline, SinkShape, ClosedIsDetached
<1> QED BY <1>1, IInvInvariant, PTL

(* Chunks leave a channel in the order they were read. *)
THEOREM DeliveredInOrder == Spec => DeliverInOrder
<1>1. IInv /\ [Next]_vars => [DeliverNewer]_vars
  <2> SUFFICES ASSUME IInv, [Next]_vars, NEW t \in Tokens PROVE
        \A c \in got'[t] \ got[t], d \in got[t] : d < c
    BY DEF DeliverNewer
  <2>1. got[t] = got'[t] \/ ForwardRecv(t)
    <3>1. CASE got' = got
      BY <3>1
    <3>2. ASSUME NEW u \in Tokens, ForwardRecv(u) PROVE got[t] = got'[t] \/ ForwardRecv(t)
      BY <3>2 DEF ForwardRecv, IInv, TypeOK, StreamTypes
    <3>3. got' = got \/ \E u \in Tokens : ForwardRecv(u)
      BY DEF Next, Watcher, Reader, Caller, Forwarder, ChildExit, WatchPoll, WatchClose, ReaderParse,
             ReaderPanic, ReaderPick, ReaderSend, ReaderEof, ReaderClose, AttachBegin, AttachCommit,
             AttachRefuse, KillBegin, KillClose, Detach, ForwardEnd, ForwardAbort, vars, streamVars
    <3> QED BY <3>1, <3>2, <3>3
  <2>2. ASSUME ForwardRecv(t) PROVE \A c \in got'[t] \ got[t], d \in got[t] : d < c
    <3>1. chan[t] \in Seq(1 .. MaxChunk) /\ chan[t] # <<>> /\ got'[t] = got[t] \union {Head(chan[t])}
      BY <2>2 DEF ForwardRecv, IInv, TypeOK, StreamTypes
    <3>2. Head(chan[t]) \in Range(chan[t])
      BY <3>1, RangeOfTail
    <3> QED BY <3>1, <3>2 DEF IInv, InOrder, Ordered
  <2> QED BY <2>1, <2>2
<1> QED BY <1>1, IInvInvariant, PTL DEF Spec, DeliverInOrder

(* A stale connection never takes the sink of a newer one: the newest       *)
(* attachment is connected as long as its forwarder runs.                   *)
THEOREM NewestConnected == Spec => []NewestStaysConnected
<1>1. Init => NewestStaysConnected
  BY DEF Init, NewestStaysConnected
<1>2. IInv /\ IInv' /\ NewestStaysConnected /\ [Next]_vars => NewestStaysConnected'
  <2> SUFFICES ASSUME IInv, NewestStaysConnected, [Next]_vars PROVE NewestStaysConnected'
    OBVIOUS
  <2> USE DEF IInv, TypeOK, ControlTypes, StreamTypes, NewestStaysConnected
  <2>1. CASE UNCHANGED <<nextToken, current, fwd>>
    <3>1. output' = output \/ output' = "closed"
      BY DEF Next, Watcher, Reader, Caller, Forwarder, CloseOutput, ChildExit, WatchPoll, WatchClose,
             ReaderParse, ReaderPanic, ReaderPick, ReaderSend, ReaderEof, ReaderClose, AttachBegin,
             AttachCommit, AttachRefuse, KillBegin, KillClose, Detach, ForwardRecv, ForwardEnd,
             ForwardAbort, vars, outputVars
    <3> QED BY <2>1, <3>1
  <2>2. CASE output' = "closed"
    BY <2>2
  <2>3. CASE AttachCommit
    BY <2>3 DEF AttachCommit
  <2>4. ASSUME NEW t \in Tokens, Detach(t) PROVE NewestStaysConnected'
    BY <2>4 DEF Detach, streamVars
  <2>5. ASSUME NEW t \in Tokens, ForwardEnd(t) \/ ForwardAbort(t) PROVE NewestStaysConnected'
    <3>1. UNCHANGED <<output, current, nextToken>> /\ fwd' = [fwd EXCEPT ![t] = "ended"]
      BY <2>5 DEF ForwardEnd, ForwardAbort, outputVars
    <3>2. \A u \in Tokens : fwd'[u] = "running" => fwd[u] = "running"
      BY <3>1
    <3> nextToken - 1 \in Tokens
      OBVIOUS
    <3> QED BY <3>1, <3>2
  <2>6. \/ UNCHANGED <<nextToken, current, fwd>> \/ output' = "closed" \/ AttachCommit
        \/ \E t \in Tokens : Detach(t) \/ ForwardEnd(t) \/ ForwardAbort(t)
    BY DEF Next, Watcher, Reader, Caller, Forwarder, CloseOutput, ChildExit, WatchPoll, WatchClose,
           ReaderParse, ReaderPanic, ReaderPick, ReaderSend, ReaderEof, ReaderClose, AttachBegin,
           AttachRefuse, KillBegin, KillClose, ForwardRecv, vars, outputVars, streamVars
  <2> QED BY <2>1, <2>2, <2>3, <2>4, <2>5, <2>6
<1> QED BY <1>1, <1>2, IInvInvariant, PTL DEF Spec
-----------------------------------------------------------------------------
(* Once the child exited, somebody is about to close the output: the        *)
(* watcher, which was not aborted before it did, or the kill that aborted it. *)
CloserRuns == child = "exited" /\ output = "open" => watchPc \in {"poll", "drain"} \/ callerPc = "killing"

ClosersShape ==
  /\ watchPc = "done" => output = "closed"
  /\ watchPc = "aborted" /\ output = "open" => callerPc = "killing"
  /\ watchPc = "drain" => child = "exited"

(* What an attachment still has to be sent, or may be.                      *)
Backlog(t) == Len(chan[t]) + (IF target = t THEN 1 ELSE 0)

(* After the output was closed it stays closed, no forwarder is started and *)
(* none is given another chunk; one that runs has a chunk to take, or the   *)
(* reader is about to let go of its sender, or it can end.                  *)
Drains ==
  output = "closed" =>
    /\ output' = "closed"
    /\ \A t \in Tokens : /\ Backlog(t)' <= Backlog(t)
                         /\ fwd'[t] = "running" => fwd[t] = "running"
CanEnd == output = "closed" => \A t \in Tokens : fwd[t] = "running" =>
  \/ chan[t] # <<>>
  \/ chan[t] = <<>> /\ current # t /\ target # t
  \/ target = t /\ readerPc = "send"

(* The safety part of ExitClosesOutput: no abort, kill or attach leaves the *)
(* output of a child that exited to a PTY read that may never return.       *)
THEOREM ExitIsActedOn == Spec => []CloserRuns
<1>1. Init => ClosersShape
  BY DEF Init, ClosersShape
<1>2. TypeOK /\ ClosersShape /\ [Next]_vars => ClosersShape'
  <2> SUFFICES ASSUME TypeOK, ClosersShape, [Next]_vars PROVE ClosersShape'
    OBVIOUS
  <2> USE DEF ClosersShape
  <2>1. CASE UNCHANGED <<watchPc, child, callerPc, output>>
    BY <2>1
  <2>2. CASE CloseOutput /\ UNCHANGED <<child, watchPc>>
    BY <2>2 DEF CloseOutput
  <2>3. CASE ChildExit
    BY <2>3 DEF ChildExit, outputVars
  <2>4. CASE WatchPoll
    BY <2>4 DEF WatchPoll, outputVars
  <2>5. CASE WatchClose
    BY <2>5 DEF WatchClose, CloseOutput
  <2>6. CASE KillBegin
    BY <2>6 DEF KillBegin, outputVars
  <2>7. CASE AttachBegin \/ AttachCommit
    BY <2>7 DEF AttachBegin, AttachCommit, watchVars, outputVars
  <2>8. CASE AttachRefuse \/ KillClose \/ ReaderClose
    BY <2>8, <2>2 DEF AttachRefuse, KillClose, ReaderClose, watchVars
  <2>9. QED
    BY <2>1, <2>3, <2>4, <2>5, <2>6, <2>7, <2>8 DEF Next, Watcher, Reader, Caller, Forwarder, ReaderParse,
       ReaderPanic, ReaderPick, ReaderSend, ReaderEof, Detach, ForwardRecv, ForwardEnd, ForwardAbort,
       vars, watchVars, outputVars
<1>3. TypeOK /\ ClosersShape => CloserRuns
  BY DEF TypeOK, ControlTypes, ClosersShape, CloserRuns
<1>4. QED BY <1>1, <1>2, <1>3, TypeCorrect, PTL DEF Spec

(* The safety part of ClosedEndsForwarders: a forwarder of a closed output  *)
(* is never stuck, and what keeps it from its end only shrinks.             *)
THEOREM ClosedDrains == Spec => []CanEnd /\ [][Drains]_vars
<1>0. IInv => CanEnd
  BY DEF IInv, Discipline, SinkShape, TypeOK, ControlTypes, CanEnd
<1>1. IInv /\ [Next]_vars => [Drains]_vars
  <2> SUFFICES ASSUME IInv, [Next]_vars, output = "closed"
               PROVE  /\ output' = "closed"
                      /\ \A t \in Tokens : /\ Backlog(t)' <= Backlog(t)
                                           /\ fwd'[t] = "running" => fwd[t] = "running"
    BY DEF Drains
  <2>0. /\ current = 0 /\ chan \in [Tokens -> Seq(1 .. MaxChunk)] /\ target \in 0 .. MaxToken
        /\ fwd \in [Tokens -> {"none", "running", "ended"}] /\ (readerPc = "send" <=> target # 0)
    BY DEF IInv, Discipline, SinkShape, TypeOK, ControlTypes, StreamTypes
  <2>1. output' = "closed" /\ ~AttachCommit
    BY DEF Next, Watcher, Reader, Caller, Forwarder, CloseOutput, ChildExit, WatchPoll, WatchClose,
       ReaderParse, ReaderPanic, ReaderPick, ReaderSend, ReaderEof, ReaderClose, AttachBegin,
       AttachCommit, AttachRefuse, KillBegin, KillClose, Detach, ForwardRecv, ForwardEnd,
       ForwardAbort, vars, outputVars
  <2>2. CASE UNCHANGED <<chan, target, fwd>>
    <3>1. \A t \in Tokens : Len(chan[t]) \in Nat
      BY <2>0
    <3>2. QED BY <2>1, <2>2, <3>1 DEF Backlog
  <2>3. CASE ReaderPick
    <3>1. target = 0 /\ target' = 0 /\ chan' = chan /\ fwd' = fwd
      BY <2>0, <2>3 DEF ReaderPick, streamVars
    <3>2. QED BY <2>2, <3>1
  <2>4. CASE ReaderSend
    <3>1. target \in Tokens /\ target' = 0 /\ fwd' = fwd
      BY <2>0, <2>4 DEF ReaderSend
    <3>2. chan' = chan \/ chan' = [chan EXCEPT ![target] = Append(@, parsed)]
      BY <2>4 DEF ReaderSend
    <3>3. ASSUME NEW t \in Tokens PROVE Backlog(t)' <= Backlog(t)
      <4>1. chan[t] \in Seq(1 .. MaxChunk) /\ Len(chan[t]) \in Nat
        BY <2>0
      <4>2. CASE t = target
        <5>1. Len(Append(chan[t], parsed)) = Len(chan[t]) + 1
          BY <4>1
        <5>2. chan'[t] = chan[t] \/ chan'[t] = Append(chan[t], parsed)
          BY <2>0, <3>1, <3>2, <4>2
        <5>3. Len(chan'[t]) <= Len(chan[t]) + 1
          BY <4>1, <5>1, <5>2
        <5>4. target' # t
          BY <3>1, <4>2
        <5>5. Len(chan'[t]) \in Nat
          BY <4>1, <5>1, <5>2
        <5>6. QED BY <4>1, <4>2, <5>3, <5>4, <5>5 DEF Backlog
      <4>3. CASE t # target
        <5>1. chan'[t] = chan[t]
          BY <2>0, <3>2, <4>3
        <5>2. target' # t
          BY <3>1
        <5>3. QED BY <4>1, <4>3, <5>1, <5>2 DEF Backlog
      <4>4. QED BY <4>2, <4>3
    <3>4. QED BY <2>1, <3>1, <3>3
  <2>5. ASSUME NEW u \in Tokens, ForwardRecv(u) \/ ForwardAbort(u) \/ ForwardEnd(u)
        PROVE  \A t \in Tokens : /\ Backlog(t)' <= Backlog(t)
                                 /\ fwd'[t] = "running" => fwd[t] = "running"
    <3>1. target' = target /\ fwd' \in {fwd, [fwd EXCEPT ![u] = "ended"]}
      BY <2>5 DEF ForwardRecv, ForwardAbort, ForwardEnd, readerVars
    <3>2. \/ chan' = chan \/ chan' = [chan EXCEPT ![u] = <<>>]
          \/ chan[u] # <<>> /\ chan' = [chan EXCEPT ![u] = Tail(@)]
      BY <2>5 DEF ForwardRecv, ForwardAbort, ForwardEnd
    <3>3. ASSUME NEW t \in Tokens PROVE Len(chan'[t]) \in Nat /\ Len(chan'[t]) <= Len(chan[t])
      <4>1. chan[t] \in Seq(1 .. MaxChunk) /\ Len(chan[t]) \in Nat /\ Len(<<>>) = 0
        BY <2>0
      <4>2. chan[t] # <<>> => Len(Tail(chan[t])) \in Nat /\ Len(Tail(chan[t])) <= Len(chan[t])
        BY <4>1
      <4>3. \/ chan'[t] = chan[t] \/ chan'[t] = <<>>
            \/ chan[t] # <<>> /\ chan'[t] = Tail(chan[t])
        BY <2>0, <3>2
      <4>4. CASE chan'[t] = chan[t] \/ chan'[t] = <<>>
        BY <4>1, <4>4
      <4>5. CASE chan[t] # <<>> /\ chan'[t] = Tail(chan[t])
        BY <4>2, <4>5
      <4>6. QED BY <4>3, <4>4, <4>5
    <3>4. \A t \in Tokens : Len(chan[t]) \in Nat
      BY <2>0
    <3>5. \A t \in Tokens : Backlog(t)' <= Backlog(t)
      BY <3>1, <3>3, <3>4 DEF Backlog
    <3>6. \A t \in Tokens : fwd'[t] = "running" => fwd[t] = "running"
      BY <2>0, <3>1
    <3>7. QED BY <3>5, <3>6
  <2>6. QED
    BY <2>1, <2>2, <2>3, <2>4, <2>5 DEF Next, Watcher, Reader, Caller, Forwarder, ChildExit, WatchPoll,
       WatchClose, ReaderParse, ReaderPanic, ReaderEof, ReaderClose, AttachBegin, AttachRefuse, KillBegin,
       KillClose, Detach, vars, readerVars, streamVars
<1>2. QED BY <1>0, <1>1, IInvInvariant, PTL DEF Spec

-----------------------------------------------------------------------------
(* The session implements TerminalStream. *)
LEMMA RefinesInit == Init => Stream!Init
<1> SUFFICES ASSUME Init PROVE Stream!Init
  OBVIOUS
<1>1. Shown = 0 /\ ~Silent /\ Accepts
  BY DEF Init, Shown, Silent, Accepts
<1>2. Due = [t \in Tokens |-> {}]
  <2>1. \A t \in Tokens : Range(chan[t]) = {} /\ target # t
    BY DEF Init, Range
  <2> QED BY <2>1 DEF Due
<1>3. Departed = {}
  BY DEF Init, Departed
<1> QED BY <1>1, <1>2, <1>3 DEF Init, Stream!Init

(* A step that touches no stream leaves what is due alone. *)
LEMMA SameDue ==
  ASSUME UNCHANGED <<parsed, target, chan>>
  PROVE  Due' = Due
BY DEF Due

LEMMA SameShown ==
  ASSUME UNCHANGED <<readerPc, parsed>>
  PROVE  Shown' = Shown /\ Silent' = Silent
BY DEF Shown, Silent

LEMMA SameDeparted ==
  ASSUME fwd' = fwd
  PROVE  Departed' = Departed
BY DEF Departed

(* Closing the output is the abstract Close, whoever does it. *)
LEMMA RefinesClose ==
  ASSUME CloseOutput, Shown' = Shown, Silent' = Silent, UNCHANGED <<parsed, target, streamVars>>
  PROVE  Stream!Close
<1>1. Accepts' = FALSE /\ current' = 0 /\ nextToken' = nextToken
  BY DEF CloseOutput, Accepts
<1>2. UNCHANGED <<chan, fwd, snapAt, got, lost>>
  BY DEF streamVars
<1>3. Due' = Due /\ Departed' = Departed
  BY <1>2, SameDue, SameDeparted
<1> QED BY <1>1, <1>2, <1>3 DEF Stream!Close

(* The pick routes the chunk: from now on it is due to the current viewer.  *)
LEMMA RefinesPick ==
  ASSUME TypeOK, LockHeld, ReaderPick
  PROVE  Stream!Output
<1>1. /\ parsed \in Nat \ {0} /\ target = 0
      /\ UNCHANGED <<parsed, output, current, nextToken, chan, fwd, snapAt, got, lost>>
      /\ target' = current
  BY DEF ReaderPick, TypeOK, ControlTypes, outputVars, streamVars
<1>2. Shown = parsed - 1 /\ Shown' = parsed /\ Silent = FALSE /\ Silent' = FALSE
  BY DEF ReaderPick, Shown, Silent
<1>3. Shown + 1 = parsed
  BY <1>1, <1>2
<1>4. Due' = [t \in Tokens |-> IF t = current THEN Due[t] \union {Shown + 1} ELSE Due[t]]
  <2>1. \A t \in Tokens : Due[t] = Range(chan[t])
    BY <1>1 DEF Due
  <2>2. \A t \in Tokens : Due'[t] = Range(chan[t]) \union (IF current = t THEN {parsed} ELSE {})
    BY <1>1 DEF Due
  <2>3. \A t \in Tokens : Due'[t] = IF t = current THEN Due[t] \union {Shown + 1} ELSE Due[t]
    BY <1>3, <2>1, <2>2
  <2> QED BY <2>3 DEF Due
<1>5. Silent' = Silent /\ Accepts' = Accepts /\ Departed' = Departed
  BY <1>1, <1>2, SameDeparted DEF Accepts
<1> QED BY <1>1, <1>2, <1>3, <1>4, <1>5 DEF Stream!Output

(* A send that the channel takes changes nothing for the clients; one it    *)
(* does not take loses the newest chunk that was due.                       *)
LEMMA RefinesSend ==
  ASSUME IInv, ReaderSend
  PROVE  \/ UNCHANGED Stream!vars
         \/ \E t \in Tokens : Stream!LoseNewest(t)
<1>1. /\ target \in Tokens /\ parsed \in 1 .. MaxChunk /\ target' = 0
      /\ UNCHANGED <<parsed, output, current, nextToken, fwd, snapAt, got>>
      /\ readerPc = "send" /\ readerPc' = "read"
  BY DEF ReaderSend, IInv, TypeOK, ControlTypes, outputVars
<1>2. UNCHANGED <<Shown, Silent, Accepts, Departed>>
  <2>1. Shown' = Shown
    BY <1>1 DEF Shown
  <2>2. Silent = FALSE /\ Silent' = FALSE
    BY <1>1 DEF Silent
  <2> QED BY <1>1, <2>1, <2>2, SameDeparted DEF Accepts
<1>t. chan \in [Tokens -> Seq(1 .. MaxChunk)] /\ lost \in [Tokens -> SUBSET (1 .. MaxChunk)]
  BY DEF IInv, TypeOK, StreamTypes
<1>3. Due[target] = Range(chan[target]) \union {parsed}
  BY <1>1 DEF Due
<1>4. \A t \in Tokens : t # target => Due[t] = Range(chan[t])
  BY DEF Due
<1>5. \A t \in Tokens : Due'[t] = Range(chan'[t])
  BY <1>1 DEF Due
<1>6. CASE chan' = [chan EXCEPT ![target] = Append(@, parsed)] /\ lost' = lost
  <2>1. Range(chan'[target]) = Range(chan[target]) \union {parsed}
    <3>1. chan'[target] = Append(chan[target], parsed)
      BY <1>1, <1>6, <1>t
    <3>2. chan[target] \in Seq(1 .. MaxChunk)
      BY <1>1, <1>t
    <3> QED BY <1>1, <3>1, <3>2, RangeOfAppend
  <2>2. \A t \in Tokens : t # target => chan'[t] = chan[t]
    BY <1>6, <1>t
  <2>3. \A t \in Tokens : Due'[t] = Due[t]
    BY <1>3, <1>4, <1>5, <2>1, <2>2
  <2>4. Due' = Due
    BY <2>3 DEF Due
  <2> QED BY <1>1, <1>2, <1>6, <2>4 DEF Stream!vars
<1>7. CASE lost' = [lost EXCEPT ![target] = @ \union {parsed}] /\ chan' = chan
  <2>1. \A c \in Range(chan[target]) : c \in Nat /\ c < parsed
    <3>1. \A c \in Range(chan[target]) : c \in Nat
      BY <1>1, <1>t DEF Range
    <3>2. \A c \in Range(chan[target]) : c < parsed
      BY <1>1 DEF IInv, InOrder, Ordered
    <3> QED BY <3>1, <3>2
  <2>2. \A d \in Due[target] : d <= parsed
    BY <1>1, <1>3, <2>1
  <2>3. Due' = [Due EXCEPT ![target] = @ \ {parsed}]
    <3>1. Range(chan[target]) = Due[target] \ {parsed}
      BY <1>1, <1>3, <2>1
    <3>2. \A t \in Tokens : Due'[t] = IF t = target THEN Due[t] \ {parsed} ELSE Due[t]
      BY <1>4, <1>5, <1>7, <3>1
    <3> QED BY <3>2 DEF Due
  <2>4. parsed \in Due[target]
    BY <1>3
  <2>5. Stream!LoseNewest(target)
    BY <1>1, <1>2, <1>7, <2>2, <2>3, <2>4 DEF Stream!LoseNewest
  <2> QED BY <1>1, <2>5
<1> QED BY <1>6, <1>7 DEF ReaderSend

(* The snapshot of a new attachment holds exactly what has been shown: the  *)
(* terminal lock keeps the reader from having parsed a chunk it has not     *)
(* routed.                                                                  *)
LEMMA RefinesAttach ==
  ASSUME IInv, AttachCommit
  PROVE  Stream!Attach
<1>1. /\ nextToken \in Tokens /\ current' = nextToken /\ nextToken' = nextToken + 1
      /\ output = "open" /\ readerPc # "parsed"
      /\ snapAt' = [snapAt EXCEPT ![nextToken] = parsed]
      /\ UNCHANGED <<readerPc, parsed, target, output, chan, got, lost>>
  <2>1. callerPc = "attaching" /\ readerPc # "parsed"
    BY DEF AttachCommit, IInv, Discipline, LockHeld
  <2> QED BY <2>1 DEF AttachCommit, IInv, TypeOK, ControlTypes, readerVars
<1>2. Shown = parsed /\ Accepts /\ Accepts' = Accepts
  BY <1>1 DEF Shown, Accepts
<1>3. UNCHANGED <<Shown, Silent, Due>>
  BY <1>1, SameShown, SameDue
<1>4. Departed' = Departed
  <2>1. nextToken \in Tokens \ Issued
    BY <1>1
  <2>2. fwd[nextToken] = "none"
    BY <2>1 DEF IInv, Discipline, StreamShape
  <2>3. \A t \in Tokens : fwd'[t] = "ended" <=> fwd[t] = "ended"
    BY <1>1, <2>2 DEF AttachCommit, IInv, TypeOK, StreamTypes
  <2> QED BY <2>3 DEF Departed
<1>5. nextToken \in Nat /\ nextToken - 1 + 1 = nextToken /\ (nextToken - 1)' = nextToken
  BY <1>1
<1> QED BY <1>1, <1>2, <1>3, <1>4, <1>5 DEF Stream!Attach

(* A forwarder takes the oldest chunk that is due. *)
LEMMA RefinesRecv ==
  ASSUME IInv, NEW t \in Tokens, ForwardRecv(t)
  PROVE  Stream!Deliver(t)
<1> DEFINE c == Head(chan[t])
<1>1. /\ chan[t] \in Seq(1 .. MaxChunk) /\ chan[t] # <<>> /\ fwd[t] = "running"
      /\ chan' = [chan EXCEPT ![t] = Tail(@)] /\ got' = [got EXCEPT ![t] = @ \union {c}]
      /\ UNCHANGED <<readerPc, parsed, target, output, current, nextToken, fwd, snapAt, lost>>
      /\ chan \in [Tokens -> Seq(1 .. MaxChunk)] /\ parsed \in Nat
  BY DEF ForwardRecv, IInv, TypeOK, ControlTypes, StreamTypes, readerVars, outputVars
<1>2. UNCHANGED <<Shown, Silent, Accepts, Departed>>
  BY <1>1, SameShown, SameDeparted DEF Accepts
<1>3. /\ Range(chan[t]) = Range(Tail(chan[t])) \union {c}
      /\ Range(chan[t]) \subseteq Nat
  <2>1. Range(chan[t]) \subseteq Nat
    BY <1>1 DEF Range
  <2> QED BY <1>1, <2>1, RangeOfTail
<1>4. \A d \in Range(Tail(chan[t])) : c < d
  <2>1. chan[t] \in Seq(Nat)
    BY <1>1
  <2>2. \A i, j \in DOMAIN chan[t] : i < j => chan[t][i] < chan[t][j]
    BY DEF IInv, InOrder, Ordered
  <2> QED BY <1>1, <2>1, <2>2, TailKeepsOrder
<1>5. target = t => c < parsed
  BY <1>3 DEF IInv, InOrder, Ordered
<1> HIDE DEF c
<1>6. Due[t] = Range(chan[t]) \union (IF target = t THEN {parsed} ELSE {})
  BY DEF Due
<1>7. c \in Due[t] /\ \A d \in Due[t] : c <= d
  <2>1. c \in Nat /\ parsed \in Nat
    BY <1>1, <1>3
  <2>2. \A d \in Range(Tail(chan[t])) : d \in Nat
    BY <1>3
  <2>3. \A d \in Due[t] : d = c \/ d \in Range(Tail(chan[t])) \/ (target = t /\ d = parsed)
    BY <1>3, <1>6
  <2>4. \A d \in Due[t] : c <= d
    BY <1>4, <1>5, <2>1, <2>2, <2>3
  <2> QED BY <1>3, <1>6, <2>4
<1>8. Due' = [Due EXCEPT ![t] = @ \ {c}]
  <2>1. c \in Nat /\ c \notin Range(Tail(chan[t]))
    <3>1. c \in Nat
      BY <1>3
    <3> QED BY <1>4, <3>1
  <2>2. Range(Tail(chan[t])) \union (IF target = t THEN {parsed} ELSE {}) = Due[t] \ {c}
    BY <1>1, <1>3, <1>5, <1>6, <2>1
  <2>3. Due'[t] = Range(Tail(chan[t])) \union (IF target = t THEN {parsed} ELSE {})
    BY <1>1 DEF Due
  <2>4. \A u \in Tokens : u # t => Due'[u] = Due[u]
    BY <1>1 DEF Due
  <2>5. \A u \in Tokens : Due'[u] = IF u = t THEN Due[u] \ {c} ELSE Due[u]
    BY <2>2, <2>3, <2>4
  <2> QED BY <2>5 DEF Due
<1>9. t \notin Departed
  BY <1>1 DEF Departed
<1> QED BY <1>1, <1>2, <1>7, <1>8, <1>9 DEF Stream!Deliver

(* A forwarder that is aborted loses what its channel holds; one whose      *)
(* channel is empty and has no sender left is finished.                     *)
LEMMA RefinesEnd ==
  ASSUME IInv, NEW t \in Tokens, ForwardEnd(t) \/ ForwardAbort(t)
  PROVE  Stream!Finish(t) \/ Stream!Depart(t)
<1>1. /\ fwd[t] = "running" /\ fwd' = [fwd EXCEPT ![t] = "ended"]
      /\ UNCHANGED <<readerPc, parsed, target, output, current, nextToken, snapAt, got>>
  BY DEF ForwardEnd, ForwardAbort, readerVars, outputVars
<1>2. UNCHANGED <<Shown, Silent, Accepts>>
  BY <1>1, SameShown DEF Accepts
<1>3. Departed' = Departed \union {t}
  <2>1. \A u \in Tokens : fwd'[u] = "ended" <=> fwd[u] = "ended" \/ u = t
    BY <1>1 DEF IInv, TypeOK, StreamTypes
  <2> QED BY <2>1 DEF Departed
<1>4. t \in 1 .. (nextToken - 1)
  BY <1>1 DEF IInv, Discipline, StreamShape
<1>5. CASE ForwardEnd(t)
  <2>1. Range(<<>>) = {}
    BY DEF Range
  <2>2. Due[t] = {} /\ current # t
    BY <1>5, <2>1 DEF ForwardEnd, Due
  <2>3. chan' = chan /\ lost' = lost
    BY <1>5 DEF ForwardEnd
  <2>4. Due' = Due
    BY <1>1, <2>3, SameDue
  <2>5. Stream!Finish(t)
    BY <1>1, <1>2, <1>3, <1>4, <2>2, <2>3, <2>4 DEF Stream!Finish
  <2> QED BY <2>5
<1>6. CASE ForwardAbort(t)
  <2> DEFINE S == Range(chan[t])
  <2>1. target = t => parsed \notin S
    <3>1. parsed \in Nat
      BY DEF IInv, TypeOK, ControlTypes
    <3>2. target = t => \A c \in Range(chan[t]) : c < parsed
      BY DEF IInv, InOrder, Ordered
    <3> QED BY <3>1, <3>2
  <2> HIDE DEF S
  <2>2. chan' = [chan EXCEPT ![t] = <<>>] /\ lost' = [lost EXCEPT ![t] = @ \union S]
    BY <1>6 DEF ForwardAbort, S
  <2>3. Due[t] = S \union (IF target = t THEN {parsed} ELSE {})
    BY DEF Due, S
  <2>4. S \in SUBSET Due[t]
    BY <2>3
  <2>5. Due' = [Due EXCEPT ![t] = @ \ S]
    <3>1. Range(<<>>) = {}
      BY DEF Range
    <3>2. chan \in [Tokens -> Seq(1 .. MaxChunk)]
      BY DEF IInv, TypeOK, StreamTypes
    <3>3. chan'[t] = <<>> /\ \A u \in Tokens : u # t => chan'[u] = chan[u]
      BY <2>2, <3>2
    <3>4. Due'[t] = IF target = t THEN {parsed} ELSE {}
      BY <1>1, <3>1, <3>3 DEF Due
    <3>5. Due'[t] = Due[t] \ S
      BY <2>1, <2>3, <3>4
    <3>6. \A u \in Tokens : u # t => Due'[u] = Due[u]
      BY <1>1, <3>3 DEF Due
    <3>7. \A u \in Tokens : Due'[u] = IF u = t THEN Due[u] \ S ELSE Due[u]
      BY <3>5, <3>6
    <3> QED BY <3>7 DEF Due
  <2>6. Stream!Depart(t)
    BY <1>1, <1>2, <1>3, <1>4, <2>2, <2>4, <2>5 DEF Stream!Depart
  <2> QED BY <2>6
<1> QED BY <1>5, <1>6

LEMMA RefinesStep ==
  ASSUME IInv, [Next]_vars
  PROVE  [Stream!Next]_(Stream!vars)
<1> DEFINE Goal == [Stream!Next]_(Stream!vars)
<1>1. ASSUME UNCHANGED <<Shown, Silent, output, current, nextToken, parsed, target, streamVars>>
      PROVE  Goal
  <2>1. UNCHANGED <<chan, fwd, snapAt, got, lost>> /\ Accepts' = Accepts
    BY <1>1 DEF streamVars, Accepts
  <2>2. Due' = Due /\ Departed' = Departed
    BY <1>1, <2>1, SameDue, SameDeparted
  <2> QED BY <1>1, <2>1, <2>2 DEF Stream!vars
<1>2. ASSUME CloseOutput, UNCHANGED <<Shown, Silent, parsed, target, streamVars>> PROVE Goal
  BY <1>2, RefinesClose DEF Stream!Next
<1>3. CASE ChildExit \/ WatchPoll \/ AttachBegin \/ KillBegin \/ UNCHANGED vars
  <2>1. UNCHANGED <<readerVars, outputVars, streamVars>>
    BY <1>3 DEF ChildExit, WatchPoll, AttachBegin, KillBegin, vars
  <2> QED BY <1>1, <2>1, SameShown DEF readerVars, outputVars
<1>4. CASE WatchClose \/ AttachRefuse \/ KillClose
  <2>1. CloseOutput /\ UNCHANGED <<readerVars, streamVars>>
    BY <1>4 DEF WatchClose, AttachRefuse, KillClose
  <2> QED BY <1>2, <2>1, SameShown DEF readerVars
<1>5. CASE ReaderClose
  <2>1. CloseOutput /\ UNCHANGED <<parsed, target, streamVars>>
    BY <1>5 DEF ReaderClose
  <2>2. Shown' = Shown /\ Silent' = Silent
    BY <1>5 DEF ReaderClose, Shown, Silent
  <2> QED BY <1>2, <2>1, <2>2
<1>6. CASE ReaderParse
  <2>1. parsed \in Nat
    BY DEF IInv, TypeOK, ControlTypes
  <2>2. Shown' = Shown
    BY <1>6, <2>1 DEF ReaderParse, Shown
  <2>3. Silent = FALSE /\ Silent' = FALSE
    BY <1>6 DEF ReaderParse, Silent
  <2>4. UNCHANGED <<output, current, nextToken, target, chan, fwd, snapAt, got, lost>> /\ target = 0
    BY <1>6 DEF ReaderParse, outputVars, streamVars, IInv, TypeOK, ControlTypes
  <2>5. Due' = Due
    BY <2>4 DEF Due
  <2>6. Accepts' = Accepts /\ Departed' = Departed
    BY <2>4, SameDeparted DEF Accepts
  <2> QED BY <2>2, <2>3, <2>4, <2>5, <2>6 DEF Stream!vars
<1>7. CASE ReaderPanic
  <2>1. UNCHANGED <<parsed, target, output, current, nextToken, chan, fwd, snapAt, got, lost>>
        /\ parsed \in Nat
    BY <1>7 DEF ReaderPanic, outputVars, streamVars, IInv, TypeOK, ControlTypes
  <2>2. Shown' = Shown + 1 /\ ~Silent /\ Silent' = TRUE
    BY <1>7, <2>1 DEF ReaderPanic, Shown, Silent
  <2>3. Due' = Due /\ Departed' = Departed /\ Accepts' = Accepts
    BY <2>1, SameDue, SameDeparted DEF Accepts
  <2> QED BY <2>1, <2>2, <2>3 DEF Stream!Fault, Stream!Next
<1>8. CASE ReaderEof
  <2>1. UNCHANGED <<parsed, target, output, current, nextToken, chan, fwd, snapAt, got, lost>>
    BY <1>8 DEF ReaderEof, outputVars, streamVars
  <2>2. Shown' = Shown /\ Silent' = TRUE
    BY <1>8 DEF ReaderEof, Shown, Silent
  <2>3. Due' = Due /\ Departed' = Departed /\ Accepts' = Accepts
    BY <2>1, SameDue, SameDeparted DEF Accepts
  <2> QED BY <2>1, <2>2, <2>3 DEF Stream!EndOutput, Stream!Next
<1>9. CASE ReaderPick
  BY <1>9, RefinesPick DEF IInv, Discipline, Stream!Next
<1>10. CASE ReaderSend
  BY <1>10, RefinesSend DEF Stream!Next
<1>11. CASE AttachCommit
  BY <1>11, RefinesAttach DEF Stream!Next
<1>12. ASSUME NEW t \in Tokens, Detach(t) PROVE Goal
  <2>1. /\ fwd[t] = "ended" /\ current' \in {current, 0}
        /\ current' # current => current = t /\ current' = 0
        /\ UNCHANGED <<readerPc, parsed, target, output, nextToken, chan, fwd, snapAt, got, lost>>
    BY <1>12 DEF Detach, readerVars, streamVars
  <2>2. UNCHANGED <<Shown, Silent, Due, Departed, Accepts>>
    BY <2>1, SameShown, SameDue, SameDeparted DEF Accepts
  <2>3. CASE current' = current
    BY <2>1, <2>2, <2>3 DEF Stream!vars
  <2>4. CASE current' # current
    <3>1. current \in Departed
      BY <2>1, <2>4 DEF Departed
    <3> QED BY <2>1, <2>2, <2>4, <3>1 DEF Stream!Leave, Stream!Next
  <2> QED BY <2>3, <2>4
<1>13. ASSUME NEW t \in Tokens, Forwarder(t) PROVE Goal
  BY <1>13, RefinesRecv, RefinesEnd DEF Forwarder, Stream!Next
<1> QED BY <1>3, <1>4, <1>5, <1>6, <1>7, <1>8, <1>9, <1>10, <1>11, <1>12, <1>13
        DEF Next, Watcher, Reader, Caller

(* The session implements the abstract stream: a snapshot, then every later *)
(* chunk once, in order, or lost to a full channel or a departure.          *)
THEOREM Implements == Spec => ImplementsTerminalStream
<1>1. IInv /\ [Next]_vars => [Stream!Next]_(Stream!vars)
  BY RefinesStep
<1> QED BY <1>1, RefinesInit, IInvInvariant, PTL
        DEF Spec, ImplementsTerminalStream, Stream!Spec
-----------------------------------------------------------------------------
(* A chunk of an attachment is after its snapshot and has no two fates:     *)
(* received, lost and still due exclude each other.                         *)
AtMostOneFate == \A t \in Tokens :
  /\ got[t] \intersect lost[t] = {} /\ Due[t] \intersect (got[t] \union lost[t]) = {}
  /\ got[t] \union lost[t] \union Due[t] \subseteq (snapAt[t] + 1) .. Shown

(* What the abstract stream counts has its types.                           *)
StreamRanges ==
  /\ Shown \in Nat /\ DOMAIN Due = Tokens /\ snapAt \in [Tokens -> Nat]
  /\ got \in [Tokens -> SUBSET Nat] /\ lost \in [Tokens -> SUBSET Nat] /\ Due \in [Tokens -> SUBSET Nat]
  /\ \A t \in Tokens : t > nextToken - 1 => got[t] = {} /\ lost[t] = {} /\ Due[t] = {}
  /\ current \in 0 .. MaxToken /\ current <= nextToken - 1 /\ nextToken \in Nat
  /\ current # 0 => snapAt[current] <= Shown

(* ... in every state of the session. *)
LEMMA RangesHold == IInv => StreamRanges
<1> SUFFICES ASSUME IInv PROVE StreamRanges
  OBVIOUS
<1>1. Shown \in Nat /\ nextToken \in Nat /\ current \in 0 .. MaxToken /\ current <= nextToken - 1
  BY DEF IInv, TypeOK, ControlTypes, Discipline, SinkShape, Shown
<1>2. ASSUME NEW t \in Tokens PROVE Due[t] \in SUBSET Nat /\ (t > nextToken - 1 => Due[t] = {})
  <2>1. chan[t] \in Seq(1 .. MaxChunk) /\ Due[t] = Range(chan[t]) \union (IF target = t THEN {parsed} ELSE {})
    BY DEF IInv, TypeOK, StreamTypes, Due
  <2>2. Range(chan[t]) \subseteq Nat /\ parsed \in Nat
    <3>1. \A i \in DOMAIN chan[t] : chan[t][i] \in 1 .. MaxChunk
      BY <2>1
    <3>2. parsed \in Nat
      BY DEF IInv, TypeOK, ControlTypes
    <3>3. QED BY <3>1, <3>2 DEF Range
  <2>3. ASSUME t > nextToken - 1 PROVE Due[t] = {}
    <3>1. chan[t] = <<>> /\ target # t
      <4>1. t \in Tokens \ Issued /\ target # t
        BY <2>3, <1>1 DEF IInv, Discipline, SinkShape, TypeOK, ControlTypes
      <4>2. QED BY <4>1 DEF IInv, Discipline, StreamShape
    <3>2. QED BY <2>1, <3>1 DEF Range
  <2>4. QED BY <2>1, <2>2, <2>3
<1>3. Due \in [Tokens -> SUBSET Nat] /\ DOMAIN Due = Tokens
  <2>1. Due = [t \in Tokens |-> Due[t]]
    BY DEF Due
  <2>2. QED BY <1>2, <2>1
<1>4. snapAt \in [Tokens -> Nat] /\ got \in [Tokens -> SUBSET Nat] /\ lost \in [Tokens -> SUBSET Nat]
  BY DEF IInv, TypeOK, StreamTypes
<1>5. \A t \in Tokens : t > nextToken - 1 => got[t] = {} /\ lost[t] = {}
  <2>1. \A t \in Tokens : t > nextToken - 1 => t \in Tokens \ Issued
    BY <1>1
  <2>2. QED BY <2>1 DEF IInv, Discipline, StreamShape
<1>6. current # 0 => snapAt[current] <= Shown
  <2> SUFFICES ASSUME current # 0 PROVE snapAt[current] <= Shown
    OBVIOUS
  <2>1. current \in Issued /\ parsed \in Nat /\ snapAt[current] \in Nat
    <3>1. current \in Issued
      BY <1>1
    <3>2. current \in Tokens
      BY <1>1
    <3>3. QED BY <3>1, <3>2, <1>4 DEF IInv, TypeOK, ControlTypes
  <2>2. QED BY <2>1 DEF IInv, Discipline, SnapshotShape, Shown
<1>7. QED BY <1>1, <1>2, <1>3, <1>4, <1>5, <1>6 DEF StreamRanges

(* A chunk moves from one set to another, in the stream of one attachment.  *)
LEMMA FateMoves ==
  ASSUME StreamRanges, AtMostOneFate, NEW t \in Tokens, NEW S, S \subseteq Due[t],
         Shown' = Shown, snapAt' = snapAt, Due' = [Due EXCEPT ![t] = @ \ S],
         \/ got' = [got EXCEPT ![t] = @ \union S] /\ lost' = lost
         \/ lost' = [lost EXCEPT ![t] = @ \union S] /\ got' = got
  PROVE  AtMostOneFate'
<1>1. ASSUME NEW u \in Tokens, u # t PROVE Due'[u] = Due[u] /\ got'[u] = got[u] /\ lost'[u] = lost[u]
  BY <1>1 DEF StreamRanges
<1>2. /\ Due'[t] = Due[t] \ S
      /\ \/ got'[t] = got[t] \union S /\ lost'[t] = lost[t]
         \/ lost'[t] = lost[t] \union S /\ got'[t] = got[t]
  BY DEF StreamRanges
<1>3. ASSUME NEW u \in Tokens
      PROVE  /\ got'[u] \intersect lost'[u] = {} /\ Due'[u] \intersect (got'[u] \union lost'[u]) = {}
             /\ got'[u] \union lost'[u] \union Due'[u] \subseteq (snapAt[u] + 1) .. Shown
  <2>1. /\ got[u] \intersect lost[u] = {} /\ Due[u] \intersect (got[u] \union lost[u]) = {}
        /\ got[u] \union lost[u] \union Due[u] \subseteq (snapAt[u] + 1) .. Shown
    BY DEF AtMostOneFate
  <2> DEFINE R == (snapAt[u] + 1) .. Shown
  <2> HIDE DEF R
  <2>2. CASE u # t
    BY <1>1, <2>1, <2>2
  <2>3. CASE u = t
    BY <1>2, <2>1, <2>3 DEF R
  <2>4. QED BY <2>2, <2>3
<1>4. QED BY <1>3 DEF AtMostOneFate

(* Every step of the abstract stream gives each chunk at most one fate.     *)
LEMMA FateStep ==
  ASSUME StreamRanges, AtMostOneFate, [Stream!Next]_(Stream!vars)
  PROVE  AtMostOneFate'
<1>0. Shown \in Nat /\ snapAt \in [Tokens -> Nat]
  BY DEF StreamRanges
<1>1. CASE UNCHANGED <<Shown, snapAt, Due, got, lost>>
  BY <1>1 DEF AtMostOneFate
<1>2. CASE Stream!Output
  <2>1. /\ Shown' = Shown + 1 /\ UNCHANGED <<snapAt, got, lost>>
        /\ Due' = [t \in Tokens |-> IF t = current THEN Due[t] \union {Shown + 1} ELSE Due[t]]
    BY <1>2 DEF Stream!Output
  <2>2. ASSUME NEW t \in Tokens
        PROVE  /\ got[t] \intersect lost[t] = {} /\ Due'[t] \intersect (got[t] \union lost[t]) = {}
               /\ got[t] \union lost[t] \union Due'[t] \subseteq (snapAt[t] + 1) .. (Shown + 1)
    <3>1. /\ got[t] \intersect lost[t] = {} /\ Due[t] \intersect (got[t] \union lost[t]) = {}
          /\ got[t] \union lost[t] \union Due[t] \subseteq (snapAt[t] + 1) .. Shown
      BY DEF AtMostOneFate
    <3>2. /\ Shown + 1 \notin (snapAt[t] + 1) .. Shown
          /\ (snapAt[t] + 1) .. Shown \subseteq (snapAt[t] + 1) .. (Shown + 1)
          /\ t = current => Shown + 1 \in (snapAt[t] + 1) .. (Shown + 1)
      <4>1. snapAt[t] \in Nat /\ (t = current => snapAt[t] <= Shown)
        BY <1>0 DEF StreamRanges
      <4>2. QED BY <4>1, <1>0
    <3>3. Due'[t] = Due[t] \/ (t = current /\ Due'[t] = Due[t] \union {Shown + 1})
      <4>1. Due'[t] = IF t = current THEN Due[t] \union {Shown + 1} ELSE Due[t]
        BY <2>1
      <4>2. QED BY <4>1
    <3> DEFINE R == (snapAt[t] + 1) .. Shown
               Q == (snapAt[t] + 1) .. (Shown + 1)
    <3> HIDE DEF R, Q
    <3>4. QED BY <3>1, <3>2, <3>3 DEF R, Q
  <2>3. QED BY <2>1, <2>2 DEF AtMostOneFate
<1>3. CASE Stream!Fault
  <2>1. Shown' = Shown + 1 /\ UNCHANGED <<snapAt, Due, got, lost>>
    BY <1>3 DEF Stream!Fault
  <2>2. \A t \in Tokens : (snapAt[t] + 1) .. Shown \subseteq (snapAt[t] + 1) .. (Shown + 1)
    BY <1>0
  <2>3. QED BY <2>1, <2>2 DEF AtMostOneFate
<1>4. CASE Stream!Attach
  <2>1. /\ Shown' = Shown /\ UNCHANGED <<Due, got, lost>> /\ nextToken \in Tokens
        /\ snapAt' = [snapAt EXCEPT ![nextToken] = Shown]
    BY <1>4 DEF Stream!Attach, StreamRanges
  <2>2. got[nextToken] = {} /\ lost[nextToken] = {} /\ Due[nextToken] = {}
    BY <2>1 DEF StreamRanges
  <2>3. \A t \in Tokens : t # nextToken => snapAt'[t] = snapAt[t]
    BY <2>1, <1>0
  <2>4. QED BY <2>1, <2>2, <2>3 DEF AtMostOneFate
<1>5. ASSUME NEW t \in Tokens, Stream!Deliver(t) PROVE AtMostOneFate'
  <2>1. PICK c \in Due[t] : Due' = [Due EXCEPT ![t] = @ \ {c}] /\ got' = [got EXCEPT ![t] = @ \union {c}]
    BY <1>5 DEF Stream!Deliver
  <2>2. PICK S \in SUBSET Due[t] : Due' = [Due EXCEPT ![t] = @ \ S] /\ got' = [got EXCEPT ![t] = @ \union S]
    <3>1. {c} \in SUBSET Due[t]
      OBVIOUS
    <3>2. QED BY <2>1, <3>1
  <2>3. Shown' = Shown /\ snapAt' = snapAt /\ lost' = lost
    BY <1>5 DEF Stream!Deliver
  <2>4. S \subseteq Due[t]
    OBVIOUS
  <2>5. QED BY <2>2, <2>3, <2>4, FateMoves
<1>6. ASSUME NEW t \in Tokens, Stream!LoseNewest(t) PROVE AtMostOneFate'
  <2>1. PICK c \in Due[t] : Due' = [Due EXCEPT ![t] = @ \ {c}] /\ lost' = [lost EXCEPT ![t] = @ \union {c}]
    BY <1>6 DEF Stream!LoseNewest
  <2>2. PICK S \in SUBSET Due[t] : Due' = [Due EXCEPT ![t] = @ \ S] /\ lost' = [lost EXCEPT ![t] = @ \union S]
    <3>1. {c} \in SUBSET Due[t]
      OBVIOUS
    <3>2. QED BY <2>1, <3>1
  <2>3. Shown' = Shown /\ snapAt' = snapAt /\ got' = got
    BY <1>6 DEF Stream!LoseNewest
  <2>4. S \subseteq Due[t]
    OBVIOUS
  <2>5. QED BY <2>2, <2>3, <2>4, FateMoves
<1>7. ASSUME NEW t \in Tokens, Stream!Depart(t) PROVE AtMostOneFate'
  <2>1. PICK S \in SUBSET Due[t] : Due' = [Due EXCEPT ![t] = @ \ S] /\ lost' = [lost EXCEPT ![t] = @ \union S]
    BY <1>7 DEF Stream!Depart
  <2>2. Shown' = Shown /\ snapAt' = snapAt /\ got' = got
    BY <1>7 DEF Stream!Depart
  <2>3. QED BY <2>1, <2>2, FateMoves
<1>8. QED
  BY <1>1, <1>2, <1>3, <1>4, <1>5, <1>6, <1>7 DEF Stream!Next, Stream!vars, Stream!EndOutput, Stream!Close,
     Stream!Leave, Stream!Finish

(* The first n chunks after the snapshot of t, and no other, were sent to t. *)
UpTo(t, n) == Routed(t) = (snapAt[t] + 1) .. n
Unbroken == \A t \in Issued : \E n \in Nat : UpTo(t, n)

(* What an attachment was sent is one run of chunks right after its         *)
(* snapshot: the run of the current one is extended by the pick, and that   *)
(* of any other stays as it is.                                             *)
LEMMA UnbrokenStep ==
  ASSUME IInv, Unbroken, [Next]_vars
  PROVE  Unbroken'
<1>0. TypeOK /\ Discipline /\ NoSilentGap' /\ TypeOK'
  BY IInvStep DEF IInv
<1>1. Picked' \in Nat
  <2>1. parsed' \in Nat /\ (readerPc' \in {"parsed", "unwinding"} => parsed' > 0)
    BY <1>0 DEF TypeOK, ControlTypes
  <2>2. Picked' = IF readerPc' \in {"parsed", "unwinding"} THEN parsed' - 1 ELSE parsed'
    BY DEF Picked
  <2>3. \A p \in Nat : p > 0 => p - 1 \in Nat
    OBVIOUS
  <2>4. CASE readerPc' \in {"parsed", "unwinding"}
    BY <2>1, <2>2, <2>3, <2>4
  <2>5. CASE readerPc' \notin {"parsed", "unwinding"}
    BY <2>1, <2>2, <2>5
  <2>6. QED BY <2>4, <2>5
<1>2. ASSUME NEW t \in Issued', t = current' PROVE UpTo(t, Picked)'
  BY <1>0, <1>2 DEF NoSilentGap, UpTo, Routed, TypeOK, ControlTypes
<1>3. ASSUME NEW t \in Issued', t # current' PROVE \E n \in Nat : UpTo(t, n)'
  <2>1. t \in Issued /\ t \in Tokens /\ snapAt'[t] = snapAt[t]
    <3>1. CASE AttachCommit
      BY <1>0, <1>3, <3>1 DEF AttachCommit, TypeOK, ControlTypes, StreamTypes
    <3>2. CASE ReaderPick
      BY <1>0, <1>3, <3>2 DEF ReaderPick, outputVars, streamVars, TypeOK, ControlTypes
    <3>3. CASE ~ReaderPick /\ ~AttachCommit
      <4>1. snapAt' = snapAt /\ nextToken' = nextToken
        BY <1>0, <3>3, QuietStep
      <4>2. QED BY <1>0, <1>3, <4>1 DEF TypeOK, ControlTypes
    <3>4. QED BY <3>1, <3>2, <3>3
  <2>2. Routed(t)' = Routed(t)
    <3>1. CASE ReaderPick
      BY <1>0, <1>3, <2>1, <3>1, RoutedPicked DEF ReaderPick, outputVars
    <3>2. CASE ~ReaderPick
      BY <1>0, <2>1, <3>2, RoutedKept
    <3>3. QED BY <3>1, <3>2
  <2>3. PICK n \in Nat : UpTo(t, n)
    BY <2>1 DEF Unbroken
  <2>4. UpTo(t, n)'
    BY <2>1, <2>2, <2>3 DEF UpTo
  <2>5. QED BY <2>4
<1>4. QED BY <1>1, <1>2, <1>3 DEF Unbroken

(* Every chunk after an attachment's snapshot, up to the last one sent to   *)
(* it, has exactly one fate: it was received, or it is lost, or it is still *)
(* due. Of the current attachment the last one is the last chunk whose sink *)
(* was chosen, so that no chunk is without a fate.                          *)
OneFate == \A t \in Issued :
  /\ got[t] \intersect lost[t] = {} /\ Due[t] \intersect (got[t] \union lost[t]) = {}
  /\ \E n \in Nat : /\ got[t] \union lost[t] \union Due[t] = (snapAt[t] + 1) .. n
                   /\ t = current => n = Picked

(* Proved of the abstract stream, exclusion holds of the session because    *)
(* that implements it; that no chunk is missing is the session's own.       *)
THEOREM OneFateEach == Spec => []OneFate
<1>1. Init => AtMostOneFate /\ Unbroken
  <2> SUFFICES ASSUME Init PROVE AtMostOneFate /\ Unbroken
    OBVIOUS
  <2>1. \A t \in Tokens : got[t] = {} /\ lost[t] = {} /\ Due[t] = {}
    BY RefinesInit DEF Stream!Init
  <2>2. AtMostOneFate
    BY <2>1 DEF AtMostOneFate
  <2>3. Issued = {1} /\ UpTo(1, 0)
    <3>1. Routed(1) = {} /\ snapAt[1] = 0 /\ nextToken = 2
      BY DEF Init, Routed, Range
    <3>2. QED BY <3>1 DEF UpTo
  <2>4. QED BY <2>2, <2>3 DEF Unbroken
<1>2. IInv /\ AtMostOneFate /\ Unbroken /\ [Next]_vars => AtMostOneFate' /\ Unbroken'
  BY RangesHold, RefinesStep, FateStep, UnbrokenStep
<1>3. IInv /\ AtMostOneFate /\ Unbroken => OneFate
  <2> SUFFICES ASSUME IInv, AtMostOneFate, Unbroken, NEW t \in Issued
               PROVE  /\ got[t] \intersect lost[t] = {} /\ Due[t] \intersect (got[t] \union lost[t]) = {}
                      /\ \E n \in Nat : /\ got[t] \union lost[t] \union Due[t] = (snapAt[t] + 1) .. n
                                       /\ t = current => n = Picked
    BY DEF OneFate
  <2>1. t \in Tokens /\ Picked \in Nat
    BY DEF IInv, TypeOK, ControlTypes, Picked
  <2>2. got[t] \union lost[t] \union Due[t] = Routed(t)
    BY <2>1 DEF Due, Routed
  <2>3. PICK n \in Nat : UpTo(t, n)
    BY DEF Unbroken
  <2>4. t = current => UpTo(t, Picked)
    BY <2>1 DEF IInv, NoSilentGap, UpTo
  <2>5. \E m \in Nat : UpTo(t, m) /\ (t = current => m = Picked)
    BY <2>1, <2>3, <2>4
  <2>6. QED BY <2>1, <2>2, <2>5 DEF AtMostOneFate, UpTo
<1>4. QED BY <1>1, <1>2, <1>3, IInvInvariant, PTL DEF Spec
=============================================================================
