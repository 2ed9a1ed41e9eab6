----------------------- MODULE ConnectionWire_proofs -----------------------
(***************************************************************************)
(* Proofs about ConnectionWire, for every set of sessions, number of        *)
(* attachments, channel capacity, frame size and socket buffer.  First what *)
(* the queue of the mutex is after it is joined, given back or left; then   *)
(* the parts of the inductive invariant, each kept by every step.           *)
(***************************************************************************)
EXTENDS ConnectionWire, TLAPS

(* The elements of two sequences in a row.                                  *)
LEMMA Concatenation ==
  ASSUME NEW S, NEW u \in Seq(S), NEW v \in Seq(S)
  PROVE  /\ u \o v \in Seq(S) /\ Len(u \o v) = Len(u) + Len(v)
         /\ \A j \in 1 .. Len(u) + Len(v) : (u \o v)[j] = IF j <= Len(u) THEN u[j] ELSE v[j - Len(u)]
OBVIOUS

(* What is left of a sequence without its element at a place.               *)
LEMMA RemoveAtFacts ==
  ASSUME NEW S, NEW q \in Seq(S), NEW i \in 1 .. Len(q)
  PROVE  /\ RemoveAt(q, i) \in Seq(S)
         /\ Len(RemoveAt(q, i)) = Len(q) - 1
         /\ \A j \in 1 .. Len(q) - 1 : RemoveAt(q, i)[j] = IF j < i THEN q[j] ELSE q[j + 1]
<1> DEFINE u == SubSeq(q, 1, i - 1)
           v == SubSeq(q, i + 1, Len(q))
<1>1. u \in Seq(S) /\ Len(u) = i - 1 /\ \A j \in 1 .. i - 1 : u[j] = q[j]
  OBVIOUS
<1>2. v \in Seq(S) /\ Len(v) = Len(q) - i /\ \A j \in 1 .. Len(q) - i : v[j] = q[i + j]
  OBVIOUS
<1>3. RemoveAt(q, i) = u \o v
  BY DEF RemoveAt
<1> HIDE DEF u, v
<1>4. /\ u \o v \in Seq(S) /\ Len(u \o v) = Len(u) + Len(v)
      /\ \A j \in 1 .. Len(u) + Len(v) : (u \o v)[j] = IF j <= Len(u) THEN u[j] ELSE v[j - Len(u)]
  BY <1>1, <1>2, Concatenation
<1>5. Len(u) + Len(v) = Len(q) - 1
  BY <1>1, <1>2
<1>6. ASSUME NEW j \in 1 .. Len(q) - 1
      PROVE  (u \o v)[j] = IF j < i THEN q[j] ELSE q[j + 1]
  <2>1. CASE j < i
    BY <2>1, <1>1, <1>4, <1>5
  <2>2. CASE ~(j < i)
    <3>1. (u \o v)[j] = v[j - (i - 1)]
      BY <2>2, <1>1, <1>4, <1>5
    <3>2. j - (i - 1) \in 1 .. Len(q) - i /\ i + (j - (i - 1)) = j + 1
      BY <2>2
    <3>3. v[j - (i - 1)] = q[i + (j - (i - 1))]
      BY <3>2, <1>2
    <3>4. QED BY <3>1, <3>2, <3>3, <2>2
  <2>3. QED BY <2>1, <2>2
<1>7. QED BY <1>3, <1>4, <1>5, <1>6

(* The queue of the mutex: who joins it last, who gives it back, who leaves. *)
LEMMA Joined ==
  ASSUME NEW S, NEW q \in Seq(S), IsInjective(q), NEW p \in S, p \notin Range(q)
  PROVE  /\ Append(q, p) \in Seq(S) /\ IsInjective(Append(q, p))
         /\ Range(Append(q, p)) = Range(q) \union {p}
         /\ q # <<>> => Append(q, p) # <<>> /\ Head(Append(q, p)) = Head(q)
<1> DEFINE r == Append(q, p)
<1>1. r \in Seq(S) /\ Len(r) = Len(q) + 1 /\ r[Len(q) + 1] = p /\ \A i \in 1 .. Len(q) : r[i] = q[i]
  OBVIOUS
<1>2. DOMAIN q = 1 .. Len(q) /\ DOMAIN r = 1 .. Len(q) + 1
  BY <1>1
<1> HIDE DEF r
<1>3. \A i \in DOMAIN q : q[i] # p
  BY DEF Range
<1>4. IsInjective(r)
  BY <1>1, <1>2, <1>3 DEF IsInjective
<1>5. Range(r) = Range(q) \union {p}
  BY <1>1, <1>2 DEF Range
<1>6. q # <<>> => r # <<>> /\ Head(r) = Head(q)
  <2>1. q # <<>> => Len(q) \in Nat \ {0}
    OBVIOUS
  <2>2. q # <<>> => Head(r) = r[1] /\ Head(q) = q[1]
    BY <1>1
  <2>3. QED BY <2>1, <2>2, <1>1
<1>7. QED BY <1>1, <1>4, <1>5, <1>6 DEF r

LEMMA GivenBack ==
  ASSUME NEW S, NEW q \in Seq(S), IsInjective(q), q # <<>>
  PROVE  /\ Head(q) \in Range(q)
         /\ Tail(q) \in Seq(S) /\ IsInjective(Tail(q))
         /\ Range(Tail(q)) = Range(q) \ {Head(q)}
<1> DEFINE t == Tail(q)
<1>1. Len(q) \in Nat \ {0} /\ Head(q) = q[1] /\ DOMAIN q = 1 .. Len(q)
  OBVIOUS
<1>2. t \in Seq(S) /\ Len(t) = Len(q) - 1 /\ \A i \in 1 .. Len(q) - 1 : t[i] = q[i + 1]
  BY <1>1
<1>3. DOMAIN t = 1 .. Len(q) - 1
  BY <1>2
<1> HIDE DEF t
<1>4. Head(q) \in Range(q)
  BY <1>1 DEF Range
<1>5. IsInjective(t)
  <2>1. ASSUME NEW i \in 1 .. Len(q) - 1, NEW j \in 1 .. Len(q) - 1, t[i] = t[j] PROVE i = j
    <3>1. i + 1 \in DOMAIN q /\ j + 1 \in DOMAIN q /\ q[i + 1] = q[j + 1]
      BY <1>1, <1>2, <2>1
    <3>2. i + 1 = j + 1
      BY <3>1 DEF IsInjective
    <3>3. QED BY <3>2
  <2>2. QED BY <1>3, <2>1 DEF IsInjective
<1>6. Range(t) = Range(q) \ {Head(q)}
  <2>1. ASSUME NEW x \in Range(t) PROVE x \in Range(q) \ {Head(q)}
    BY <1>1, <1>2, <1>3 DEF Range, IsInjective
  <2>2. ASSUME NEW x \in Range(q) \ {Head(q)} PROVE x \in Range(t)
    <3>1. PICK i \in 1 .. Len(q) : q[i] = x
      BY <1>1 DEF Range
    <3>2. i - 1 \in DOMAIN t /\ t[i - 1] = x
      BY <3>1, <1>1, <1>2, <1>3
    <3>3. QED BY <3>2 DEF Range
  <2>3. QED BY <2>1, <2>2
<1>7. QED BY <1>2, <1>4, <1>5, <1>6 DEF t

LEMMA Left ==
  ASSUME NEW S, NEW q \in Seq(S), IsInjective(q), NEW p \in S
  PROVE  /\ Leave(q, p) \in Seq(S) /\ IsInjective(Leave(q, p))
         /\ Range(Leave(q, p)) = Range(q) \ {p}
         /\ q # <<>> /\ Head(q) # p => Leave(q, p) # <<>> /\ Head(Leave(q, p)) = Head(q)
<1>1. CASE p \notin Range(q)
  BY <1>1 DEF Leave
<1>2. CASE p \in Range(q)
  <2> DEFINE i == CHOOSE j \in DOMAIN q : q[j] = p
             r == RemoveAt(q, i)
  <2>1. DOMAIN q = 1 .. Len(q) /\ Len(q) \in Nat
    OBVIOUS
  <2>2. i \in 1 .. Len(q) /\ q[i] = p
    BY <1>2, <2>1 DEF Range
  <2>3. Leave(q, p) = r
    BY <1>2 DEF Leave
  <2> HIDE DEF i
  <2>4. /\ r \in Seq(S) /\ Len(r) = Len(q) - 1
        /\ \A j \in 1 .. Len(q) - 1 : r[j] = IF j < i THEN q[j] ELSE q[j + 1]
    BY <2>2, RemoveAtFacts
  <2>5. DOMAIN r = 1 .. Len(q) - 1
    BY <2>4
  <2> HIDE DEF r
  <2>6. ASSUME NEW j \in 1 .. Len(q) - 1, NEW k \in 1 .. Len(q) - 1, r[j] = r[k] PROVE j = k
    <3> DEFINE e(l) == IF l < i THEN l ELSE l + 1
    <3>1. e(j) \in DOMAIN q /\ e(k) \in DOMAIN q /\ q[e(j)] = q[e(k)]
      BY <2>1, <2>2, <2>4, <2>6
    <3>2. e(j) = e(k)
      BY <3>1 DEF IsInjective
    <3>3. QED BY <2>2, <3>2
  <2>7. IsInjective(r)
    BY <2>5, <2>6 DEF IsInjective
  <2>8. ASSUME NEW x \in Range(r) PROVE x \in Range(q) \ {p}
    <3>1. PICK j \in 1 .. Len(q) - 1 : r[j] = x
      BY <2>5 DEF Range
    <3>2. PICK k \in 1 .. Len(q) : k # i /\ q[k] = x
      BY <2>1, <2>2, <2>4, <3>1
    <3>3. QED BY <2>1, <2>2, <3>2 DEF Range, IsInjective
  <2>9. ASSUME NEW x \in Range(q) \ {p} PROVE x \in Range(r)
    <3>1. PICK j \in 1 .. Len(q) : q[j] = x
      BY <2>1 DEF Range
    <3>2. CASE j < i
      BY <2>1, <2>2, <2>4, <2>5, <3>1, <3>2 DEF Range
    <3>3. CASE j > i
      <4>1. j - 1 \in DOMAIN r /\ r[j - 1] = x
        BY <2>1, <2>2, <2>4, <2>5, <3>1, <3>3
      <4>2. QED BY <4>1 DEF Range
    <3>4. QED BY <2>2, <3>1, <3>2, <3>3
  <2>10. ASSUME q # <<>>, Head(q) # p PROVE r # <<>> /\ Head(r) = Head(q)
    <3>1. Head(q) = q[1]
      BY <2>10
    <3>2. i > 1 /\ Len(q) > 1
      BY <2>1, <2>2, <2>10, <3>1
    <3>3. r[1] = q[1] /\ Len(r) > 0
      BY <2>1, <2>4, <3>2
    <3>4. QED BY <2>4, <3>1, <3>3
  <2>11. QED BY <2>3, <2>4, <2>7, <2>8, <2>9, <2>10
<1>3. QED BY <1>1, <1>2

-----------------------------------------------------------------------------
Members == Atts \union {Loop}
Ending == {"attach", "kill", "detach"}

Waiting == {a \in Atts : forwarder[a] = "write"} \union (IF loop = "respond" THEN {Loop} ELSE {})
QueueShape == queue \in Seq(Members) /\ IsInjective(queue) /\ Range(queue) = Waiting

(* Tokens count up; a session that ended has no attachment.                 *)
Numbers ==
  /\ \A s \in Sessions : current[s] <= count[s] /\ fence[s] <= count[s]
  /\ \A a \in ours : a[2] <= count[a[1]]
  /\ \A s \in dead : current[s] = 0

(* A forwarder that runs is in the map, and nothing in the map belongs to an *)
(* attachment the client was told has ended.                                *)
Tasks ==
  /\ \A a \in Atts : forwarder[a] # "none" => a \in ours
  /\ \A a \in Atts : forwarder[a] \in {"recv", "write"} => a \in map
  /\ \A a \in map : forwarder[a] # "none" /\ a[2] > fence[a[1]]
  /\ loop = "gone" => map = {}

(* What a request that ends forwarders is about.                            *)
RequestShape ==
  /\ loop = "abort" => request.op \in Ending
  /\ request.op \in Ending =>
       request.att \in Sessions \X (0 .. MaxAttach) /\ request.att[2] <= count[request.att[1]]
  /\ request.op = "attach" => request.att \in ours /\ request.att[2] > fence[request.att[1]]

(* While it aborts them: the session of a kill has ended; a new attachment  *)
(* has no forwarder yet, and none of the connection's is newer.             *)
Aborting == loop = "abort" =>
  /\ request.op = "kill" => request.att[1] \in dead
  /\ request.op = "attach" =>
       /\ forwarder[request.att] = "none"
       /\ Att(request.att[1]) \in ours => Att(request.att[1]) = request.att

(* While it answers: what the client will be told has ended is not in the   *)
(* map any more.                                                            *)
Answering == loop = "respond" /\ request.op \in Ending =>
  \A a \in map : a[1] = request.att[1] => a[2] > Ended

(* An attachment of this connection that is current has its forwarder, or   *)
(* is about to get it.                                                      *)
Followed == \A s \in Sessions : Att(s) \in ours =>
  \/ Att(s) \in map
  \/ loop = "abort" /\ request.op = "attach" /\ request.att = Att(s)

(* Half a frame that nobody tore is of the holder of the mutex.             *)
HalfHeld == peer = "open" /\ frame.done # FrameSize /\ ~torn => Holds(frame.by)

IInv == TypeOK /\ Numbers /\ Tasks /\ RequestShape /\ Aborting /\ Answering /\ Followed /\ HalfHeld

-----------------------------------------------------------------------------
LEMMA LoopApart == Loop \notin Atts
BY DEF Loop, Atts

LEMMA AttShape ==
  ASSUME NEW a \in Atts
  PROVE  a[1] \in Sessions /\ a[2] \in 1 .. MaxAttach /\ a = <<a[1], a[2]>>
BY DEF Atts

LEMMA MaxOfTwo ==
  ASSUME NEW i \in Nat, NEW j \in Nat
  PROVE  Max({i, j}) \in {i, j} /\ Max({i, j}) >= i /\ Max({i, j}) >= j
<1>1. \E x \in {i, j} : \A y \in {i, j} : x >= y
  OBVIOUS
<1>2. QED BY <1>1 DEF Max

LEMMA MinOfTwo ==
  ASSUME NEW i \in Nat, NEW j \in Nat
  PROVE  Min({i, j}) \in {i, j} /\ Min({i, j}) <= i /\ Min({i, j}) <= j
<1>1. \E x \in {i, j} : \A y \in {i, j} : x =< y
  OBVIOUS
<1>2. QED BY <1>1 DEF Min

LEMMA Written ==
  ASSUME TypeOK, NEW p \in Members, Write(p)
  PROVE  /\ frame' \in [by : Members, done : 1 .. FrameSize] /\ frame'.by = p
         /\ room' \in 0 .. SockCap /\ torn' = FALSE /\ peer = "open"
         /\ queue' = IF Completed THEN Tail(queue) ELSE queue
<1>1. FrameSize \in Nat \ {0} /\ SockCap \in Nat \ {0} /\ room \in 1 .. SockCap
  BY BoundsAssumption DEF TypeOK, Write
<1>2. Started(p) \in 0 .. FrameSize - 1
  BY <1>1 DEF TypeOK, Started
<1> DEFINE n == Min({room, FrameSize - Started(p)})
<1>3. n \in {room, FrameSize - Started(p)} /\ n <= room /\ n <= FrameSize - Started(p)
  BY <1>1, <1>2, MinOfTwo
<1>4. n \in 1 .. FrameSize - Started(p) /\ room - n \in 0 .. SockCap
  BY <1>1, <1>2, <1>3
<1> HIDE DEF n
<1>5. /\ frame' = [by |-> p, done |-> Started(p) + n] /\ room' = room - n /\ torn' = FALSE /\ peer = "open"
      /\ queue' = IF Started(p) + n = FrameSize THEN Tail(queue) ELSE queue
  BY DEF Write, n
<1>6. QED BY <1>1, <1>2, <1>4, <1>5 DEF Completed, Members

(* The queue holds who waits, each once, after every step.                  *)
LEMMA QueueKept ==
  ASSUME TypeOK, Aborting, RequestShape, [Next]_vars
  PROVE  QueueShape'
<1>0. QueueShape
  BY DEF TypeOK, QueueShape, Waiting, Members
<1>1. CASE (\E s \in Sessions : Emit(s)) \/ (\E s \in Sessions : Exit(s))
            \/ (\E s \in Sessions : OtherAttaches(s))
            \/ (\E s \in Sessions : Attach(s)) \/ (\E s \in Sessions : Kill(s))
            \/ (\E s \in Sessions : DetachRequest(s)) \/ CleanupDone \/ Read
            \/ Close \/ UNCHANGED vars
  BY <1>1, <1>0 DEF QueueShape, Waiting, Emit, Exit, OtherAttaches, Attach, Kill, DetachRequest,
       Handle, CleanupDone, Read, Close, sessionVars, taskVars, wireVars, loopVars, vars
<1>2. ASSUME Serve PROVE QueueShape'
  <2>1. Loop \notin Range(queue)
    BY <1>2, LoopApart, <1>0 DEF Serve, Handle, QueueShape, Waiting
  <2>2. Waiting' = Waiting \union {Loop}
    BY <1>2 DEF Serve, Handle, Respond, Waiting, taskVars
  <2>3. QED BY <1>2, <1>0, <2>1, <2>2, Joined DEF Serve, Respond, QueueShape, Members
<1>3. ASSUME NEW a \in Atts, AbortOne(a) PROVE QueueShape'
  <2>1. Waiting' = Waiting \ {a}
    BY <1>3, LoopApart DEF AbortOne, Abort, Waiting, loopVars, TypeOK
  <2>2. QED BY <1>3, <1>0, <2>1, Left DEF AbortOne, Abort, QueueShape, Members
<1>4. ASSUME AbortDone PROVE QueueShape'
  <2>1. Loop \notin Range(queue)
    BY <1>4, LoopApart, <1>0 DEF AbortDone, QueueShape, Waiting
  <2>2. \A a \in Atts : forwarder'[a] = "write" <=> forwarder[a] = "write"
    BY <1>4 DEF AbortDone, TypeOK, Aborting, RequestShape
  <2>3. Waiting' = Waiting \union {Loop}
    BY <1>4, <2>2 DEF AbortDone, Respond, Waiting
  <2>4. QED BY <1>4, <1>0, <2>1, <2>3, Joined DEF AbortDone, Respond, QueueShape, Members
<1>5. ASSUME SendResponse PROVE QueueShape'
  <2>1. Loop \in Members /\ queue # <<>> /\ Head(queue) = Loop
    BY <1>5 DEF SendResponse, Holds, Members
  <2>2. queue' = IF Completed THEN Tail(queue) ELSE queue
    BY <1>5, <2>1, Written DEF SendResponse
  <2>3. loop = "respond"
    BY <2>1, <1>0, GivenBack, LoopApart DEF QueueShape, Waiting
  <2>4. Waiting' = IF Completed THEN Waiting \ {Loop} ELSE Waiting
    BY <1>5, <2>3, LoopApart DEF SendResponse, Answer, Waiting, taskVars, loopVars
  <2>5. QED BY <1>0, <2>1, <2>2, <2>4, GivenBack DEF QueueShape
<1>6. ASSUME LoopEnds PROVE QueueShape'
  <2>1. CASE loop = "read" /\ UNCHANGED queue
    BY <1>6, <1>0, <2>1 DEF LoopEnds, QueueShape, Waiting, taskVars
  <2>2. CASE Holds(Loop) /\ peer = "closed" /\ queue' = Tail(queue)
    <3>1. queue # <<>> /\ Head(queue) = Loop
      BY <2>2 DEF Holds
    <3>2. Waiting' = Waiting \ {Loop}
      BY <1>6, LoopApart DEF LoopEnds, Waiting, taskVars
    <3>3. QED BY <1>0, <2>2, <3>1, <3>2, GivenBack DEF QueueShape
  <2>3. QED BY <1>6, <2>1, <2>2 DEF LoopEnds
<1>7. ASSUME NEW a \in Atts, CleanupOne(a) PROVE QueueShape'
  <2>1. Waiting' = Waiting \ {a}
    BY <1>7, LoopApart DEF CleanupOne, Abort, Waiting, loopVars, TypeOK
  <2>2. QED BY <1>7, <1>0, <2>1, Left DEF CleanupOne, Abort, QueueShape, Members
<1>8. ASSUME NEW a \in Atts, ForwardRecv(a) PROVE QueueShape'
  <2>1. a \notin Range(queue) /\ a \in Members
    BY <1>8, LoopApart, <1>0 DEF ForwardRecv, QueueShape, Waiting, Members
  <2>2. Waiting' = Waiting \union {a}
    BY <1>8 DEF ForwardRecv, Waiting, loopVars, TypeOK
  <2>3. QED BY <1>8, <1>0, <2>1, <2>2, Joined DEF ForwardRecv, QueueShape
<1>9. ASSUME NEW a \in Atts, ForwardWrite(a) PROVE QueueShape'
  <2>1. a \in Members /\ queue # <<>> /\ Head(queue) = a
    BY <1>9 DEF ForwardWrite, Holds, Members
  <2>2. queue' = IF Completed THEN Tail(queue) ELSE queue
    BY <1>9, <2>1, Written DEF ForwardWrite
  <2>3. Waiting' = IF Completed THEN Waiting \ {a} ELSE Waiting
    BY <1>9, LoopApart DEF ForwardWrite, Waiting, loopVars, TypeOK
  <2>4. QED BY <1>0, <2>1, <2>2, <2>3, GivenBack DEF QueueShape
<1>10. ASSUME NEW a \in Atts, ForwardEnd(a) PROVE QueueShape'
  <2>1. Waiting' = Waiting \ {a}
    BY <1>10, LoopApart DEF ForwardEnd, Waiting, loopVars, TypeOK
  <2>2. CASE Holds(a) /\ queue' = Tail(queue)
    BY <1>0, <2>1, <2>2, GivenBack DEF Holds, QueueShape
  <2>3. CASE forwarder[a] = "recv" /\ UNCHANGED queue
    BY <1>0, <2>1, <2>3, LoopApart DEF QueueShape, Waiting
  <2>4. QED BY <1>10, <2>2, <2>3 DEF ForwardEnd
<1>11. QED
  BY <1>1, <1>2, <1>3, <1>4, <1>5, <1>6, <1>7, <1>8, <1>9, <1>10 DEF Next,
     Requests, RequestLoop, Forwarder

(* The rest of the type invariant.                                          *)
SessionTypes ==
  /\ count \in [Sessions -> 0 .. MaxAttach] /\ current \in [Sessions -> 0 .. MaxAttach]
  /\ dead \subseteq Sessions /\ ours \subseteq Atts
TaskTypes ==
  /\ map \subseteq ours /\ chan \in [Atts -> 0 .. ChanCap]
  /\ forwarder \in [Atts -> {"none", "recv", "write", "gone"}]
WireTypes ==
  frame \in [by : Members, done : 1 .. FrameSize] /\ torn \in BOOLEAN /\ room \in 0 .. SockCap
Request == [op : {"serve", "attach", "kill", "detach"},
            att : (Sessions \X (0 .. MaxAttach)) \union {Loop}] \union {NoRequest}
LoopTypes ==
  /\ loop \in {"read", "abort", "respond", "cleanup", "gone"} /\ request \in Request
  /\ fence \in [Sessions -> 0 .. MaxAttach]

LEMMA Types ==
  TypeOK <=> /\ QueueShape /\ SessionTypes /\ TaskTypes /\ WireTypes /\ LoopTypes
             /\ peer \in {"open", "closed"}
BY DEF TypeOK, QueueShape, Waiting, SessionTypes, TaskTypes, WireTypes, Request, LoopTypes, Members

LEMMA TypesNext ==
  TypeOK' <=> /\ QueueShape' /\ SessionTypes' /\ TaskTypes' /\ WireTypes' /\ LoopTypes'
              /\ peer' \in {"open", "closed"}
BY DEF TypeOK, QueueShape, Waiting, SessionTypes, TaskTypes, WireTypes, Request, LoopTypes, Members

(* ... each part of it.                                                     *)
LEMMA SessionTypesKept ==
  ASSUME TypeOK, [Next]_vars
  PROVE  SessionTypes'
<1>0. SessionTypes
  BY Types
<1>1. CASE (\E s \in Sessions : Emit(s)) \/ Serve
            \/ (\E s \in Sessions : DetachRequest(s)) \/ AbortDone \/ SendResponse
            \/ LoopEnds \/ CleanupDone \/ (\E a \in Atts : ForwardRecv(a))
            \/ (\E a \in Atts : ForwardWrite(a)) \/ (\E a \in Atts : ForwardEnd(a))
            \/ Read \/ Close \/ UNCHANGED vars
  BY <1>1, <1>0 DEF SessionTypes, Emit, Serve, DetachRequest, AbortDone, SendResponse, LoopEnds,
       CleanupDone, ForwardRecv, ForwardWrite, ForwardEnd, Read, Close, sessionVars, vars
<1>2. ASSUME NEW s \in Sessions, Exit(s) PROVE SessionTypes'
  BY <1>2, <1>0, BoundsAssumption DEF Exit, SessionTypes
<1>3. ASSUME NEW s \in Sessions, OtherAttaches(s) PROVE SessionTypes'
  <2>1. count[s] \in 0 .. MaxAttach /\ count[s] < MaxAttach /\ MaxAttach \in Nat
    BY <1>3, <1>0, BoundsAssumption DEF OtherAttaches, NewAttachment, SessionTypes
  <2>2. count[s] + 1 \in 1 .. MaxAttach
    BY <2>1
  <2>3. QED BY <1>3, <1>0, <2>2 DEF OtherAttaches, NewAttachment, SessionTypes
<1>4. ASSUME NEW s \in Sessions, Attach(s) PROVE SessionTypes'
  <2>1. count[s] \in 0 .. MaxAttach /\ count[s] < MaxAttach /\ MaxAttach \in Nat
    BY <1>4, <1>0, BoundsAssumption DEF Attach, NewAttachment, SessionTypes
  <2>2. count[s] + 1 \in 1 .. MaxAttach
    BY <2>1
  <2>3. QED BY <1>4, <1>0, <2>2 DEF Attach, NewAttachment, SessionTypes, Atts
<1>5. ASSUME NEW s \in Sessions, Kill(s) PROVE SessionTypes'
  BY <1>5, <1>0, BoundsAssumption DEF Kill, SessionTypes
<1>6. ASSUME NEW a \in Atts, AbortOne(a) PROVE SessionTypes'
  BY <1>6, <1>0, BoundsAssumption DEF AbortOne, Release, SessionTypes, sessionVars
<1>7. ASSUME NEW a \in Atts, CleanupOne(a) PROVE SessionTypes'
  <2>1. 0 \in 0 .. MaxAttach /\ a[1] \in Sessions
    BY BoundsAssumption, AttShape
  <2>2. UNCHANGED <<count, dead, ours>> /\ current' \in {current, [current EXCEPT ![a[1]] = 0]}
    BY <1>7 DEF CleanupOne, Release
  <2>3. QED BY <1>0, <2>1, <2>2 DEF SessionTypes
<1>8. QED
  BY <1>1, <1>2, <1>3, <1>4, <1>5, <1>6, <1>7 DEF Next, Requests,
     RequestLoop, Forwarder

LEMMA TaskTypesKept ==
  ASSUME TypeOK, RequestShape, Aborting, [Next]_vars
  PROVE  TaskTypes'
<1>0. TaskTypes /\ SessionTypes
  BY Types
<1>1. CASE (\E s \in Sessions : Exit(s)) \/ (\E s \in Sessions : OtherAttaches(s))
            \/ Serve \/ (\E s \in Sessions : Kill(s))
            \/ (\E s \in Sessions : DetachRequest(s)) \/ SendResponse \/ LoopEnds
            \/ CleanupDone \/ Read \/ Close \/ UNCHANGED vars
  BY <1>1, <1>0 DEF TaskTypes, Exit, OtherAttaches, Serve, Kill, DetachRequest, SendResponse,
       LoopEnds, CleanupDone, Read, Close, sessionVars, taskVars, vars
<1>2. ASSUME NEW s \in Sessions, Emit(s) PROVE TaskTypes'
  <2>1. Att(s) \in Atts /\ chan[Att(s)] \in 0 .. ChanCap /\ chan[Att(s)] < ChanCap /\ ChanCap \in Nat
    BY <1>2, <1>0, BoundsAssumption DEF Emit, SessionTypes, TaskTypes
  <2>2. chan[Att(s)] + 1 \in 0 .. ChanCap
    BY <2>1
  <2>3. QED BY <1>2, <1>0, <2>2 DEF Emit, TaskTypes, sessionVars
<1>3. ASSUME NEW s \in Sessions, Attach(s) PROVE TaskTypes'
  BY <1>3, <1>0 DEF Attach, TaskTypes, taskVars
<1>4. ASSUME NEW a \in Atts, AbortOne(a) PROVE TaskTypes'
  BY <1>4, <1>0, BoundsAssumption DEF AbortOne, Abort, Release, TaskTypes, sessionVars
<1>5. ASSUME AbortDone PROVE TaskTypes'
  BY <1>5, <1>0 DEF AbortDone, TaskTypes, RequestShape, Aborting, sessionVars
<1>6. ASSUME NEW a \in Atts, CleanupOne(a) PROVE TaskTypes'
  BY <1>6, <1>0, BoundsAssumption DEF CleanupOne, Abort, Release, TaskTypes
<1>7. ASSUME NEW a \in Atts, ForwardRecv(a) PROVE TaskTypes'
  <2>1. chan[a] - 1 \in 0 .. ChanCap
    BY <1>7, <1>0, BoundsAssumption DEF ForwardRecv, TaskTypes
  <2>2. QED BY <1>7, <1>0, <2>1 DEF ForwardRecv, TaskTypes, sessionVars
<1>8. ASSUME NEW a \in Atts, ForwardWrite(a) PROVE TaskTypes'
  BY <1>8, <1>0 DEF ForwardWrite, TaskTypes, sessionVars
<1>9. ASSUME NEW a \in Atts, ForwardEnd(a) PROVE TaskTypes'
  BY <1>9, <1>0 DEF ForwardEnd, TaskTypes, sessionVars
<1>10. QED
  BY <1>1, <1>2, <1>3, <1>4, <1>5, <1>6, <1>7, <1>8, <1>9 DEF Next,
     Requests, RequestLoop, Forwarder

LEMMA WireTypesKept ==
  ASSUME TypeOK, [Next]_vars
  PROVE  WireTypes'
<1>0. WireTypes
  BY Types
<1>1. CASE (\E s \in Sessions : Emit(s)) \/ (\E s \in Sessions : Exit(s))
            \/ (\E s \in Sessions : OtherAttaches(s)) \/ Serve
            \/ (\E s \in Sessions : Attach(s)) \/ (\E s \in Sessions : Kill(s))
            \/ (\E s \in Sessions : DetachRequest(s)) \/ AbortDone \/ LoopEnds
            \/ CleanupDone \/ (\E a \in Atts : ForwardRecv(a))
            \/ (\E a \in Atts : ForwardEnd(a)) \/ Close \/ UNCHANGED vars
  BY <1>1, <1>0 DEF WireTypes, Emit, Exit, OtherAttaches, Serve, Attach, Kill, DetachRequest,
       AbortDone, LoopEnds, CleanupDone, ForwardRecv, ForwardEnd, Close, wireVars, vars
<1>2. ASSUME NEW a \in Atts, AbortOne(a) PROVE WireTypes'
  BY <1>2, <1>0 DEF AbortOne, Abort, WireTypes
<1>3. ASSUME SendResponse PROVE WireTypes'
  BY <1>3, Written DEF SendResponse, Members, WireTypes
<1>4. ASSUME NEW a \in Atts, CleanupOne(a) PROVE WireTypes'
  BY <1>4, <1>0 DEF CleanupOne, Abort, WireTypes
<1>5. ASSUME NEW a \in Atts, ForwardWrite(a) PROVE WireTypes'
  BY <1>5, Written DEF ForwardWrite, Members, WireTypes
<1>6. ASSUME Read PROVE WireTypes'
  BY <1>6, <1>0, BoundsAssumption DEF Read, WireTypes
<1>7. QED
  BY <1>1, <1>2, <1>3, <1>4, <1>5, <1>6 DEF Next, Requests, RequestLoop,
     Forwarder

LEMMA LoopTypesKept ==
  ASSUME TypeOK, RequestShape, [Next]_vars
  PROVE  LoopTypes' /\ peer' \in {"open", "closed"}
<1>0. LoopTypes /\ SessionTypes /\ peer \in {"open", "closed"}
  BY Types
<1>1. CASE (\E s \in Sessions : Emit(s)) \/ (\E s \in Sessions : Exit(s))
            \/ (\E s \in Sessions : OtherAttaches(s))
            \/ (\E a \in Atts : AbortOne(a)) \/ AbortDone
            \/ (\E a \in Atts : CleanupOne(a)) \/ CleanupDone
            \/ (\E a \in Atts : ForwardRecv(a))
            \/ (\E a \in Atts : ForwardWrite(a)) \/ (\E a \in Atts : ForwardEnd(a))
            \/ Read \/ Close \/ UNCHANGED vars
  BY <1>1, <1>0 DEF LoopTypes, Emit, Exit, OtherAttaches, AbortOne, AbortDone, Respond, CleanupOne,
       CleanupDone, ForwardRecv, ForwardWrite, ForwardEnd, Read, Close, loopVars, vars
<1>2. ASSUME Serve PROVE LoopTypes' /\ peer' \in {"open", "closed"}
  BY <1>2, <1>0 DEF Serve, Handle, Respond, LoopTypes, Request
<1>3. ASSUME NEW s \in Sessions, Attach(s) PROVE LoopTypes' /\ peer' \in {"open", "closed"}
  <2>1. count[s] \in 0 .. MaxAttach /\ count[s] < MaxAttach /\ MaxAttach \in Nat
    BY <1>3, <1>0, BoundsAssumption DEF Attach, NewAttachment, SessionTypes
  <2>2. count[s] + 1 \in 1 .. MaxAttach
    BY <2>1
  <2>3. <<s, count[s] + 1>> \in Sessions \X (0 .. MaxAttach)
    BY <2>2
  <2>4. QED BY <1>3, <1>0, <2>3 DEF Attach, Handle, LoopTypes, Request
<1>4. ASSUME NEW s \in Sessions, Kill(s) PROVE LoopTypes' /\ peer' \in {"open", "closed"}
  BY <1>4, <1>0 DEF Kill, Handle, LoopTypes, Request, SessionTypes
<1>5. ASSUME NEW s \in Sessions, DetachRequest(s) PROVE LoopTypes' /\ peer' \in {"open", "closed"}
  BY <1>5, <1>0 DEF DetachRequest, Handle, LoopTypes, Request, SessionTypes
<1>6. ASSUME SendResponse PROVE LoopTypes' /\ peer' \in {"open", "closed"}
  <2>1. CASE Completed /\ request.op \in Ending
    <3>1. request.att[1] \in Sessions /\ fence[request.att[1]] \in 0 .. MaxAttach /\ Ended \in 0 .. MaxAttach
      BY <1>6, <1>0, <2>1, AttShape, BoundsAssumption DEF RequestShape, SessionTypes, LoopTypes, Ended
    <3>2. Max({fence[request.att[1]], Ended}) \in 0 .. MaxAttach
      BY <3>1, MaxOfTwo, BoundsAssumption
    <3>3. QED BY <1>6, <1>0, <2>1, <3>2 DEF SendResponse, Answer, LoopTypes, Request, Ending
  <2>2. CASE Completed /\ request.op \notin Ending
    BY <1>6, <1>0, <2>2 DEF SendResponse, Answer, LoopTypes, Request, Ending
  <2>3. CASE ~Completed
    BY <1>6, <1>0, <2>3 DEF SendResponse, Answer, LoopTypes, loopVars
  <2>4. QED BY <2>1, <2>2, <2>3
<1>7. ASSUME LoopEnds PROVE LoopTypes' /\ peer' \in {"open", "closed"}
  BY <1>7, <1>0 DEF LoopEnds, LoopTypes, Request
<1>8. QED
  BY <1>1, <1>2, <1>3, <1>4, <1>5, <1>6, <1>7 DEF Next, Requests,
     RequestLoop, Forwarder

(* Tokens keep their order.                                                 *)
LEMMA NumbersKept ==
  ASSUME TypeOK, Numbers, RequestShape, [Next]_vars
  PROVE  Numbers'
<1>0. SessionTypes /\ LoopTypes /\ Numbers
  BY Types
<1>1. CASE (\E s \in Sessions : Emit(s)) \/ Serve
            \/ (\E s \in Sessions : DetachRequest(s)) \/ AbortDone \/ LoopEnds
            \/ CleanupDone \/ (\E a \in Atts : ForwardRecv(a))
            \/ (\E a \in Atts : ForwardWrite(a)) \/ (\E a \in Atts : ForwardEnd(a))
            \/ Read \/ Close \/ UNCHANGED vars
  BY <1>1, <1>0 DEF Numbers, Emit, Serve, DetachRequest, AbortDone, LoopEnds, CleanupDone, ForwardRecv,
       ForwardWrite, ForwardEnd, Read, Close, sessionVars, loopVars, vars
<1>2. ASSUME NEW s \in Sessions, Exit(s) PROVE Numbers'
  BY <1>2, <1>0, BoundsAssumption DEF Exit, Numbers, SessionTypes, loopVars
<1>3. ASSUME NEW s \in Sessions, OtherAttaches(s) PROVE Numbers'
  <2>1. count' = [count EXCEPT ![s] = count[s] + 1] /\ current' = [current EXCEPT ![s] = count[s] + 1] /\ s \notin dead
    BY <1>3 DEF OtherAttaches, NewAttachment
  <2>2. count'[s] = count[s] + 1 /\ current'[s] = count[s] + 1
    BY <1>0, <2>1 DEF SessionTypes
  <2>3. \A t \in Sessions : count'[t] \in Nat /\ count[t] \in Nat /\ count'[t] >= count[t]
    BY <1>0, <2>1, BoundsAssumption DEF SessionTypes
  <2>4. \A t \in Sessions : current'[t] <= count'[t] /\ fence[t] <= count'[t]
    BY <1>0, <2>1, <2>2, <2>3, BoundsAssumption DEF Numbers, SessionTypes, LoopTypes
  <2>5. \A b \in ours : b[2] <= count'[b[1]]
    BY <1>0, <2>3, AttShape, BoundsAssumption DEF Numbers, SessionTypes
  <2>6. \A t \in dead : current'[t] = 0
    BY <1>0, <2>1 DEF Numbers, SessionTypes
  <2>7. QED BY <1>3, <2>4, <2>5, <2>6 DEF OtherAttaches, NewAttachment, Numbers, loopVars
<1>4. ASSUME NEW s \in Sessions, Attach(s) PROVE Numbers'
  <2>1. count' = [count EXCEPT ![s] = count[s] + 1] /\ current' = [current EXCEPT ![s] = count[s] + 1] /\ s \notin dead
    BY <1>4 DEF Attach, NewAttachment
  <2>2. count'[s] = count[s] + 1 /\ current'[s] = count[s] + 1
    BY <1>0, <2>1 DEF SessionTypes
  <2>3. \A t \in Sessions : count'[t] \in Nat /\ count[t] \in Nat /\ count'[t] >= count[t]
    BY <1>0, <2>1, BoundsAssumption DEF SessionTypes
  <2>4. \A t \in Sessions : current'[t] <= count'[t] /\ fence[t] <= count'[t]
    BY <1>0, <2>1, <2>2, <2>3, BoundsAssumption DEF Numbers, SessionTypes, LoopTypes
  <2>5. \A b \in ours : b[2] <= count'[b[1]]
    BY <1>0, <2>3, AttShape, BoundsAssumption DEF Numbers, SessionTypes
  <2>6. \A t \in dead : current'[t] = 0
    BY <1>0, <2>1 DEF Numbers, SessionTypes
  <2>7. ours' = ours \union {<<s, count[s] + 1>>} /\ UNCHANGED <<dead, fence>>
    BY <1>4 DEF Attach, NewAttachment
  <2>8. QED BY <2>2, <2>4, <2>5, <2>6, <2>7 DEF Numbers
<1>5. ASSUME NEW s \in Sessions, Kill(s) PROVE Numbers'
  BY <1>5, <1>0, BoundsAssumption DEF Kill, Numbers, SessionTypes
<1>6. ASSUME NEW a \in Atts, AbortOne(a) PROVE Numbers'
  <2>1. UNCHANGED <<count, dead, ours, fence>> /\ current' \in {current, [current EXCEPT ![a[1]] = 0]}
    BY <1>6 DEF AbortOne, Release, sessionVars, loopVars
  <2>2. QED BY <1>0, <2>1, BoundsAssumption DEF Numbers, SessionTypes
<1>7. ASSUME SendResponse PROVE Numbers'
  <2>1. CASE Completed /\ request.op \in Ending
    <3> DEFINE t == request.att[1]
    <3>1. /\ t \in Sessions /\ fence[t] \in Nat /\ Ended \in Nat /\ count[t] \in Nat
          /\ fence[t] <= count[t] /\ Ended <= count[t]
      BY <1>0, <2>1, AttShape, BoundsAssumption DEF RequestShape, SessionTypes, LoopTypes, Ended, Numbers
    <3>2. Max({fence[t], Ended}) <= count[t]
      BY <3>1, MaxOfTwo
    <3>3. fence' = [fence EXCEPT ![t] = Max({fence[t], Ended})] /\ UNCHANGED sessionVars
      BY <1>7, <2>1 DEF SendResponse, Answer, Ending
    <3>4. QED BY <1>0, <3>1, <3>2, <3>3 DEF Numbers, LoopTypes, sessionVars
  <2>2. CASE ~(Completed /\ request.op \in Ending)
    BY <1>7, <1>0, <2>2 DEF SendResponse, Answer, Ending, Numbers, loopVars, sessionVars
  <2>3. QED BY <2>1, <2>2
<1>8. ASSUME NEW a \in Atts, CleanupOne(a) PROVE Numbers'
  <2>1. UNCHANGED <<count, dead, ours, fence>> /\ current' \in {current, [current EXCEPT ![a[1]] = 0]}
    BY <1>8 DEF CleanupOne, Release, loopVars
  <2>2. QED BY <1>0, <2>1, BoundsAssumption DEF Numbers, SessionTypes
<1>9. QED
  BY <1>1, <1>2, <1>3, <1>4, <1>5, <1>6, <1>7, <1>8 DEF Next, Requests,
     RequestLoop, Forwarder

(* The request keeps its shape while it is worked on.                       *)
LEMMA RequestShapeKept ==
  ASSUME TypeOK, Numbers, RequestShape, [Next]_vars
  PROVE  RequestShape'
<1>0. SessionTypes /\ LoopTypes /\ Numbers /\ RequestShape
  BY Types
<1>1. CASE (\E s \in Sessions : Emit(s)) \/ (\E s \in Sessions : Exit(s))
            \/ AbortDone \/ CleanupDone \/ (\E a \in Atts : ForwardRecv(a))
            \/ (\E a \in Atts : ForwardWrite(a)) \/ (\E a \in Atts : ForwardEnd(a))
            \/ Read \/ Close \/ UNCHANGED vars
  BY <1>1, <1>0 DEF RequestShape, Emit, Exit, AbortDone, Respond, CleanupDone, ForwardRecv,
       ForwardWrite, ForwardEnd, Read, Close, sessionVars, loopVars, vars
<1>2. ASSUME NEW s \in Sessions, OtherAttaches(s) PROVE RequestShape'
  <2>3. \A t \in Sessions : count'[t] \in Nat /\ count[t] \in Nat /\ count'[t] >= count[t]
    BY <1>2, <1>0, BoundsAssumption DEF OtherAttaches, NewAttachment, SessionTypes
  <2>4. UNCHANGED <<ours, loop, request, fence>>
    BY <1>2 DEF OtherAttaches, loopVars
  <2>5. QED BY <1>0, <2>3, <2>4, BoundsAssumption DEF RequestShape
<1>3. ASSUME Serve PROVE RequestShape'
  BY <1>3, <1>0 DEF Serve, Handle, Respond, RequestShape, Ending
<1>4. ASSUME NEW s \in Sessions, Attach(s) PROVE RequestShape'
  <2>1. count[s] \in 0 .. MaxAttach /\ count[s] < MaxAttach /\ MaxAttach \in Nat
    BY <1>4, <1>0, BoundsAssumption DEF Attach, NewAttachment, SessionTypes
  <2>2. count[s] + 1 \in 1 .. MaxAttach
    BY <2>1
  <2>3. <<s, count[s] + 1>> \in Sessions \X (0 .. MaxAttach)
    BY <2>2
  <2>4. count'[s] = count[s] + 1 /\ fence[s] \in Nat /\ fence[s] < count[s] + 1
    BY <1>4, <1>0, <2>1, BoundsAssumption DEF Attach, NewAttachment, SessionTypes, LoopTypes, Numbers
  <2>5. /\ request' = [op |-> "attach", att |-> <<s, count[s] + 1>>] /\ fence' = fence
        /\ ours' = ours \union {<<s, count[s] + 1>>}
    BY <1>4 DEF Attach, Handle
  <2>6. QED BY <2>1, <2>2, <2>3, <2>4, <2>5 DEF RequestShape, Ending
<1>5. ASSUME NEW s \in Sessions, Kill(s) PROVE RequestShape'
  BY <1>5, <1>0, BoundsAssumption DEF Kill, Handle, RequestShape, Ending, SessionTypes
<1>6. ASSUME NEW s \in Sessions, DetachRequest(s) PROVE RequestShape'
  BY <1>6, <1>0, BoundsAssumption DEF DetachRequest, Handle, RequestShape, Ending, SessionTypes, sessionVars
<1>7. ASSUME NEW a \in Atts, AbortOne(a) PROVE RequestShape'
  BY <1>7, <1>0 DEF AbortOne, Release, RequestShape, sessionVars, loopVars
<1>8. ASSUME SendResponse PROVE RequestShape'
  BY <1>8, <1>0 DEF SendResponse, Answer, RequestShape, Ending, NoRequest, sessionVars, loopVars
<1>9. ASSUME LoopEnds PROVE RequestShape'
  BY <1>9, <1>0 DEF LoopEnds, RequestShape, Ending, NoRequest, sessionVars
<1>10. ASSUME NEW a \in Atts, CleanupOne(a) PROVE RequestShape'
  BY <1>10, <1>0 DEF CleanupOne, Release, RequestShape, loopVars
<1>11. QED
  BY <1>1, <1>2, <1>3, <1>4, <1>5, <1>6, <1>7, <1>8, <1>9, <1>10 DEF Next,
     Requests, RequestLoop, Forwarder

(* Who holds the mutex is in the middle of writing.                         *)
LEMMA HolderWrites ==
  ASSUME TypeOK, NEW p \in Members, Holds(p)
  PROVE  /\ p = Loop => loop = "respond"
         /\ p \in Atts => forwarder[p] = "write"
<1>1. QueueShape
  BY Types
<1>2. p \in Range(queue)
  BY <1>1, GivenBack DEF Holds, QueueShape
<1>3. QED BY <1>1, <1>2, LoopApart DEF QueueShape, Waiting

(* What runs is in the map, and no more than may.                           *)
LEMMA TasksKept ==
  ASSUME TypeOK, Tasks, RequestShape, Aborting, Answering, [Next]_vars
  PROVE  Tasks'
<1>0. SessionTypes /\ TaskTypes /\ LoopTypes /\ Tasks /\ RequestShape
  BY Types
<1>1. CASE (\E s \in Sessions : Emit(s)) \/ (\E s \in Sessions : Exit(s))
            \/ (\E s \in Sessions : OtherAttaches(s)) \/ Serve
            \/ (\E s \in Sessions : Kill(s))
            \/ (\E s \in Sessions : DetachRequest(s)) \/ LoopEnds \/ CleanupDone
            \/ Read \/ Close \/ UNCHANGED vars
  BY <1>1, <1>0 DEF Tasks, Emit, Exit, OtherAttaches, Serve, Respond, Kill, DetachRequest, LoopEnds,
       CleanupDone, Read, Close, sessionVars, taskVars, loopVars, vars
<1>2. ASSUME NEW s \in Sessions, Attach(s) PROVE Tasks'
  BY <1>2, <1>0 DEF Attach, Tasks, taskVars
<1>3. ASSUME NEW a \in Atts, AbortOne(a) PROVE Tasks'
  <2>1. /\ map' = map \ {a} /\ forwarder' = [forwarder EXCEPT ![a] = "gone"] /\ a \in map
        /\ UNCHANGED <<ours, loop, fence>> /\ loop = "abort"
    BY <1>3 DEF AbortOne, Abort, Release, sessionVars, loopVars
  <2>2. QED BY <1>0, <2>1 DEF Tasks, TaskTypes
<1>4. ASSUME AbortDone PROVE Tasks'
  <2>1. CASE request.op = "attach"
    <3>1. /\ forwarder' = [forwarder EXCEPT ![request.att] = "recv"] /\ map' = map \union {request.att}
          /\ UNCHANGED <<ours, fence>> /\ loop' = "respond"
      BY <1>4, <2>1 DEF AbortDone, Respond, sessionVars
    <3>2. request.att \in ours /\ request.att \in Atts /\ request.att[2] > fence[request.att[1]]
      BY <1>0, <2>1 DEF RequestShape, SessionTypes
    <3>3. QED BY <1>0, <3>1, <3>2 DEF Tasks, TaskTypes
  <2>2. CASE request.op # "attach"
    BY <1>4, <1>0, <2>2 DEF AbortDone, Respond, Tasks, sessionVars
  <2>3. QED BY <2>1, <2>2
<1>5. ASSUME SendResponse PROVE Tasks'
  <2>1. UNCHANGED <<ours, forwarder, map>> /\ Holds(Loop) /\ (loop' = "gone" => loop = "gone")
    BY <1>5 DEF SendResponse, Answer, sessionVars, taskVars, loopVars
  <2>2. loop = "respond"
    BY <2>1, HolderWrites DEF Members
  <2>3. CASE Completed /\ request.op \in Ending
    <3> DEFINE t == request.att[1]
    <3>1. t \in Sessions /\ fence[t] \in Nat /\ Ended \in Nat
      BY <1>0, <2>3, AttShape, BoundsAssumption DEF RequestShape, SessionTypes, LoopTypes, Ended
    <3>2. fence' = [fence EXCEPT ![t] = Max({fence[t], Ended})]
      BY <1>5, <2>3 DEF SendResponse, Answer, Ending
    <3>3. ASSUME NEW b \in map PROVE b[2] > fence'[b[1]]
      <4>1. b \in Atts /\ b[2] > fence[b[1]]
        BY <1>0 DEF Tasks, TaskTypes, SessionTypes
      <4>2. CASE b[1] = t
        <5>1. b[2] > Ended
          BY <2>2, <2>3, <4>2 DEF Answering
        <5>2. fence'[t] \in {fence[t], Ended}
          BY <1>0, <3>1, <3>2, MaxOfTwo DEF LoopTypes
        <5>3. QED BY <4>1, <4>2, <5>1, <5>2
      <4>3. CASE b[1] # t
        BY <1>0, <3>2, <4>1, <4>3, AttShape DEF LoopTypes
      <4>4. QED BY <4>2, <4>3
    <3>4. QED BY <1>0, <2>1, <3>3 DEF Tasks
  <2>4. CASE ~(Completed /\ request.op \in Ending)
    BY <1>5, <1>0, <2>1, <2>4 DEF SendResponse, Answer, Ending, Tasks, loopVars
  <2>5. QED BY <2>3, <2>4
<1>6. ASSUME NEW a \in Atts, CleanupOne(a) PROVE Tasks'
  <2>1. /\ map' = map \ {a} /\ forwarder' = [forwarder EXCEPT ![a] = "gone"] /\ a \in map
        /\ UNCHANGED <<ours, loop, fence>> /\ loop = "cleanup"
    BY <1>6 DEF CleanupOne, Abort, Release, loopVars
  <2>2. QED BY <1>0, <2>1 DEF Tasks, TaskTypes
<1>7. ASSUME NEW a \in Atts, ForwardRecv(a) PROVE Tasks'
  BY <1>7, <1>0 DEF ForwardRecv, Tasks, TaskTypes, sessionVars, loopVars
<1>8. ASSUME NEW a \in Atts, ForwardWrite(a) PROVE Tasks'
  <2>1. forwarder[a] = "write"
    BY <1>8, HolderWrites DEF ForwardWrite, Members
  <2>2. QED BY <1>8, <1>0, <2>1 DEF ForwardWrite, Tasks, TaskTypes, sessionVars, loopVars
<1>9. ASSUME NEW a \in Atts, ForwardEnd(a) PROVE Tasks'
  <2>1. forwarder[a] # "none"
    BY <1>9, HolderWrites DEF ForwardEnd, Members
  <2>2. QED BY <1>9, <1>0, <2>1 DEF ForwardEnd, Tasks, TaskTypes, sessionVars, loopVars
<1>10. QED
  BY <1>1, <1>2, <1>3, <1>4, <1>5, <1>6, <1>7, <1>8, <1>9 DEF Next,
     Requests, RequestLoop, Forwarder

(* What is true while a request aborts forwarders.                          *)
LEMMA AbortingKept ==
  ASSUME TypeOK, Numbers, Tasks, RequestShape, Aborting, [Next]_vars
  PROVE  Aborting'
<1>0. SessionTypes /\ TaskTypes /\ LoopTypes /\ Numbers /\ Tasks /\ RequestShape /\ Aborting
  BY Types
<1>1. CASE Serve \/ AbortDone \/ LoopEnds \/ CleanupDone
  BY <1>1 DEF Aborting, Serve, Respond, AbortDone, LoopEnds, CleanupDone
<1>2. CASE (\E s \in Sessions : Emit(s)) \/ Read \/ Close \/ UNCHANGED vars
  <2>1. UNCHANGED <<current, dead, ours, forwarder, loop, request>>
    BY <1>2 DEF Emit, Read, Close, sessionVars, taskVars, loopVars, vars
  <2>2. QED BY <1>0, <2>1 DEF Aborting, Att
<1>3. ASSUME NEW s \in Sessions, Exit(s) PROVE Aborting'
  BY <1>3, <1>0 DEF Exit, Aborting, Att, SessionTypes, Ending, RequestShape, taskVars, loopVars, Atts
<1>4. ASSUME NEW s \in Sessions, OtherAttaches(s) PROVE Aborting'
  <2>1. /\ count[s] \in Nat /\ current' = [current EXCEPT ![s] = count[s] + 1]
        /\ UNCHANGED <<dead, ours, loop, request, forwarder>>
    BY <1>4, <1>0, BoundsAssumption DEF OtherAttaches, NewAttachment, SessionTypes, taskVars, loopVars
  <2>2. <<s, count[s] + 1>> \notin ours
    BY <1>0, <2>1, BoundsAssumption DEF Numbers
  <2>3. \A t \in Sessions : Att(t)' \in ours => Att(t)' = Att(t)
    BY <1>0, <2>1, <2>2 DEF Att, SessionTypes
  <2>4. QED BY <1>0, <2>1, <2>3 DEF Aborting, RequestShape, Ending
<1>5. ASSUME NEW s \in Sessions, Attach(s) PROVE Aborting'
  <2>1. /\ request' = [op |-> "attach", att |-> <<s, count[s] + 1>>] /\ UNCHANGED forwarder
        /\ current' = [current EXCEPT ![s] = count[s] + 1]
    BY <1>5 DEF Attach, Handle, NewAttachment, taskVars
  <2>2. count[s] \in Nat /\ count[s] + 1 \in 1 .. MaxAttach
    BY <1>5, <1>0, BoundsAssumption DEF Attach, NewAttachment, SessionTypes
  <2>3. <<s, count[s] + 1>> \in Atts /\ <<s, count[s] + 1>> \notin ours
    BY <1>0, <2>2 DEF Numbers, Atts
  <2>4. forwarder[<<s, count[s] + 1>>] = "none"
    BY <1>0, <2>3 DEF Tasks
  <2>5. current'[s] = count[s] + 1
    BY <1>0, <2>1 DEF SessionTypes
  <2>6. QED BY <2>1, <2>4, <2>5 DEF Aborting, Att
<1>6. ASSUME NEW s \in Sessions, Kill(s) PROVE Aborting'
  BY <1>6 DEF Kill, Handle, Aborting
<1>7. ASSUME NEW s \in Sessions, DetachRequest(s) PROVE Aborting'
  BY <1>7 DEF DetachRequest, Handle, Aborting
<1>8. ASSUME NEW a \in Atts, AbortOne(a) PROVE Aborting'
  <2>1. /\ forwarder' = [forwarder EXCEPT ![a] = "gone"] /\ a \in map /\ loop = "abort"
        /\ UNCHANGED <<dead, ours, loop, request>>
        /\ request.op # "detach" => UNCHANGED current
    BY <1>8 DEF AbortOne, Abort, Release, sessionVars, loopVars
  <2>2. forwarder[a] # "none"
    BY <1>0, <2>1 DEF Tasks
  <2>3. QED BY <1>0, <2>1, <2>2 DEF Aborting, Att, TaskTypes
<1>9. ASSUME SendResponse PROVE Aborting'
  <2>1. loop = "respond"
    BY <1>9, HolderWrites DEF SendResponse, Members
  <2>2. QED BY <1>9, <2>1 DEF SendResponse, Answer, Aborting, loopVars
<1>10. ASSUME NEW a \in Atts, CleanupOne(a) PROVE Aborting'
  BY <1>10 DEF CleanupOne, Aborting, loopVars
<1>11. ASSUME NEW a \in Atts, ForwardRecv(a) PROVE Aborting'
  BY <1>11, <1>0 DEF ForwardRecv, Aborting, Att, TaskTypes, sessionVars, loopVars
<1>12. ASSUME NEW a \in Atts, ForwardWrite(a) PROVE Aborting'
  <2>1. forwarder[a] = "write"
    BY <1>12, HolderWrites DEF ForwardWrite, Members
  <2>2. QED BY <1>12, <1>0, <2>1 DEF ForwardWrite, Aborting, Att, TaskTypes, sessionVars, loopVars
<1>13. ASSUME NEW a \in Atts, ForwardEnd(a) PROVE Aborting'
  <2>1. forwarder[a] # "none"
    BY <1>13, HolderWrites DEF ForwardEnd, Members
  <2>2. QED BY <1>13, <1>0, <2>1 DEF ForwardEnd, Aborting, Att, TaskTypes, sessionVars, loopVars
<1>14. QED
  BY <1>1, <1>2, <1>3, <1>4, <1>5, <1>6, <1>7, <1>8, <1>9, <1>10, <1>11,
     <1>12, <1>13 DEF Next, Requests, RequestLoop, Forwarder

(* What is true while a request is answered.                                *)
LEMMA AnsweringKept ==
  ASSUME TypeOK, Numbers, Tasks, RequestShape, Aborting, Answering, [Next]_vars
  PROVE  Answering'
<1>0. SessionTypes /\ TaskTypes /\ LoopTypes /\ Tasks /\ RequestShape /\ Answering
  BY Types
<1>1. CASE (\E s \in Sessions : Attach(s)) \/ (\E s \in Sessions : Kill(s))
            \/ (\E s \in Sessions : DetachRequest(s)) \/ LoopEnds \/ CleanupDone
  BY <1>1 DEF Attach, Kill, DetachRequest, LoopEnds, CleanupDone, Answering
<1>2. CASE (\E s \in Sessions : Emit(s)) \/ (\E s \in Sessions : Exit(s))
            \/ (\E s \in Sessions : OtherAttaches(s))
            \/ (\E a \in Atts : ForwardRecv(a))
            \/ (\E a \in Atts : ForwardWrite(a)) \/ (\E a \in Atts : ForwardEnd(a))
            \/ Read \/ Close \/ UNCHANGED vars
  <2>1. UNCHANGED <<map, loop, request>>
    BY <1>2 DEF Emit, Exit, OtherAttaches, ForwardRecv, ForwardWrite, ForwardEnd, Read, Close,
         taskVars, loopVars, vars
  <2>2. QED BY <1>0, <2>1 DEF Answering, Ended
<1>3. ASSUME Serve PROVE Answering'
  BY <1>3 DEF Serve, Handle, Answering, Ending
<1>4. ASSUME NEW a \in Atts, AbortOne(a) PROVE Answering'
  BY <1>4 DEF AbortOne, Answering, loopVars
<1>5. ASSUME AbortDone PROVE Answering'
  <2>1. /\ UNCHANGED request /\ request.op \in Ending /\ \A a \in map : a[1] # request.att[1]
        /\ map' = IF request.op = "attach" THEN map \union {request.att} ELSE map
    BY <1>5, <1>0 DEF AbortDone, RequestShape
  <2>2. request.op = "attach" => request.att[2] > Ended
    BY <1>0, AttShape, BoundsAssumption DEF RequestShape, SessionTypes, Ended
  <2>3. Ended' = Ended
    BY <2>1 DEF Ended
  <2>4. QED BY <2>1, <2>2, <2>3 DEF Answering
<1>6. ASSUME SendResponse PROVE Answering'
  BY <1>6, <1>0 DEF SendResponse, Answer, Answering, Ending, NoRequest, Ended, taskVars, loopVars
<1>7. ASSUME NEW a \in Atts, CleanupOne(a) PROVE Answering'
  BY <1>7 DEF CleanupOne, Answering, loopVars
<1>8. QED
  BY <1>1, <1>2, <1>3, <1>4, <1>5, <1>6, <1>7 DEF Next, Requests,
     RequestLoop, Forwarder

(* The attachments of the connection that are current have their forwarders. *)
LEMMA FollowedKept ==
  ASSUME TypeOK, Numbers, RequestShape, Aborting, Followed, [Next]_vars
  PROVE  Followed'
<1>0. SessionTypes /\ TaskTypes /\ LoopTypes /\ Numbers /\ RequestShape /\ Aborting /\ Followed
  BY Types
<1>1. CASE Serve \/ CleanupDone
  <2>1. loop # "abort" /\ UNCHANGED <<current, ours, map>>
    BY <1>1 DEF Serve, Handle, CleanupDone, sessionVars, taskVars
  <2>2. QED BY <1>0, <2>1 DEF Followed, Att
<1>2. CASE (\E s \in Sessions : Emit(s)) \/ (\E a \in Atts : ForwardRecv(a))
            \/ (\E a \in Atts : ForwardWrite(a)) \/ (\E a \in Atts : ForwardEnd(a))
            \/ Read \/ Close \/ UNCHANGED vars
  <2>1. UNCHANGED <<current, ours, map, loop, request>>
    BY <1>2 DEF Emit, ForwardRecv, ForwardWrite, ForwardEnd, Read, Close, sessionVars, taskVars, loopVars, vars
  <2>2. QED BY <1>0, <2>1 DEF Followed, Att
<1>3. ASSUME NEW s \in Sessions, Exit(s) PROVE Followed'
  <2>1. current' = [current EXCEPT ![s] = 0] /\ UNCHANGED <<ours, map, loop, request>>
    BY <1>3 DEF Exit, taskVars, loopVars
  <2>2. Att(s)' \notin ours
    BY <1>0, <2>1 DEF Att, SessionTypes, Atts
  <2>3. QED BY <1>0, <2>1, <2>2 DEF Followed, Att, SessionTypes
<1>4. ASSUME NEW s \in Sessions, OtherAttaches(s) PROVE Followed'
  <2>1. /\ current' = [current EXCEPT ![s] = count[s] + 1] /\ count[s] \in Nat
        /\ UNCHANGED <<ours, map, loop, request>>
    BY <1>4, <1>0, BoundsAssumption DEF OtherAttaches, NewAttachment, SessionTypes, taskVars, loopVars
  <2>2. Att(s)' \notin ours
    BY <1>0, <2>1, BoundsAssumption DEF Att, SessionTypes, Numbers
  <2>3. QED BY <1>0, <2>1, <2>2 DEF Followed, Att, SessionTypes
<1>5. ASSUME NEW s \in Sessions, Attach(s) PROVE Followed'
  <2>1. /\ current' = [current EXCEPT ![s] = count[s] + 1] /\ count[s] \in Nat
        /\ ours' = ours \union {<<s, count[s] + 1>>} /\ UNCHANGED map
        /\ loop = "read" /\ loop' = "abort"
        /\ request' = [op |-> "attach", att |-> <<s, count[s] + 1>>]
    BY <1>5, <1>0, BoundsAssumption DEF Attach, Handle, NewAttachment, SessionTypes, taskVars
  <2>2. Att(s)' = <<s, count[s] + 1>>
    BY <1>0, <2>1 DEF Att, SessionTypes
  <2>3. ASSUME NEW t \in Sessions, t # s PROVE Att(t)' = Att(t) /\ (Att(t) \in ours' => Att(t) \in ours)
    BY <1>0, <2>1, <2>3 DEF Att, SessionTypes
  <2>4. QED BY <1>0, <2>1, <2>2, <2>3 DEF Followed
<1>6. ASSUME NEW s \in Sessions, Kill(s) PROVE Followed'
  <2>1. current' = [current EXCEPT ![s] = 0] /\ UNCHANGED <<ours, map>> /\ loop = "read"
    BY <1>6 DEF Kill, Handle, taskVars
  <2>2. Att(s)' \notin ours
    BY <1>0, <2>1 DEF Att, SessionTypes, Atts
  <2>3. QED BY <1>0, <2>1, <2>2 DEF Followed, Att, SessionTypes
<1>7. ASSUME NEW s \in Sessions, DetachRequest(s) PROVE Followed'
  BY <1>7, <1>0 DEF DetachRequest, Handle, Followed, Att, sessionVars, taskVars
<1>8. ASSUME NEW a \in Atts, AbortOne(a) PROVE Followed'
  <2>1. /\ loop = "abort" /\ a[1] = request.att[1] /\ a \in map /\ map' = map \ {a}
        /\ UNCHANGED <<ours, loop, request, count, dead>>
        /\ IF request.op = "detach" THEN Release(a) ELSE UNCHANGED current
    BY <1>8 DEF AbortOne, Abort, Release, sessionVars, loopVars
  <2>2. CASE request.op = "detach"
    <3>1. Att(a[1])' # a
      BY <1>0, <2>1, <2>2, AttShape DEF Release, Att, SessionTypes
    <3>2. ASSUME NEW t \in Sessions, Att(t)' \in ours PROVE Att(t)' = Att(t) /\ Att(t)' # a
      BY <1>0, <2>1, <2>2, <3>1, <3>2, AttShape DEF Release, Att, SessionTypes, Atts
    <3>3. QED BY <1>0, <2>1, <2>2, <3>2 DEF Followed
  <2>3. CASE request.op = "kill"
    <3>1. current[a[1]] = 0
      BY <1>0, <2>1, <2>3 DEF Aborting, Numbers
    <3>2. \A t \in Sessions : Att(t) # a
      BY <3>1, AttShape, BoundsAssumption DEF Att
    <3>3. QED BY <1>0, <2>1, <2>3, <3>2 DEF Followed, Att
  <2>4. CASE request.op = "attach"
    <3>1. ASSUME NEW t \in Sessions, Att(t) \in ours, Att(t) = a PROVE Att(t) = request.att
      BY <1>0, <2>1, <2>4, <3>1 DEF Aborting, Att
    <3>2. QED BY <1>0, <2>1, <2>4, <3>1 DEF Followed, Att
  <2>5. QED BY <1>0, <2>1, <2>2, <2>3, <2>4 DEF RequestShape, Ending
<1>9. ASSUME AbortDone PROVE Followed'
  <2>1. /\ UNCHANGED <<current, ours, request>> /\ loop = "abort"
        /\ map' = IF request.op = "attach" THEN map \union {request.att} ELSE map
    BY <1>9 DEF AbortDone, sessionVars
  <2>2. QED BY <1>0, <2>1 DEF Followed, Att
<1>10. ASSUME SendResponse PROVE Followed'
  <2>1. loop = "respond" /\ UNCHANGED <<current, ours, map>>
    BY <1>10, HolderWrites DEF SendResponse, Members, sessionVars, taskVars
  <2>2. QED BY <1>0, <2>1 DEF Followed, Att
<1>11. ASSUME LoopEnds PROVE Followed'
  <2>1. loop # "abort" /\ UNCHANGED <<current, ours, map>>
    BY <1>11, HolderWrites DEF LoopEnds, Members, sessionVars, taskVars
  <2>2. QED BY <1>0, <2>1 DEF Followed, Att
<1>12. ASSUME NEW a \in Atts, CleanupOne(a) PROVE Followed'
  <2>1. /\ loop = "cleanup" /\ map' = map \ {a} /\ UNCHANGED ours /\ Release(a)
    BY <1>12 DEF CleanupOne, Abort, Release
  <2>2. Att(a[1])' # a
    BY <1>0, <2>1, AttShape DEF Release, Att, SessionTypes
  <2>3. ASSUME NEW t \in Sessions, Att(t)' \in ours PROVE Att(t)' = Att(t) /\ Att(t)' # a
    BY <1>0, <2>1, <2>2, <2>3, AttShape DEF Release, Att, SessionTypes, Atts
  <2>4. QED BY <1>0, <2>1, <2>3 DEF Followed
<1>13. QED
  BY <1>1, <1>2, <1>3, <1>4, <1>5, <1>6, <1>7, <1>8, <1>9, <1>10, <1>11,
     <1>12 DEF Next, Requests, RequestLoop, Forwarder

(* Half a frame keeps its writer at the head of the queue.                  *)
LEMMA HalfHeldKept ==
  ASSUME TypeOK, HalfHeld, [Next]_vars
  PROVE  HalfHeld'
<1>0. QueueShape /\ WireTypes /\ HalfHeld
  BY Types
<1>1. CASE (\E s \in Sessions : Emit(s)) \/ (\E s \in Sessions : Exit(s))
            \/ (\E s \in Sessions : OtherAttaches(s))
            \/ (\E s \in Sessions : Attach(s)) \/ (\E s \in Sessions : Kill(s))
            \/ (\E s \in Sessions : DetachRequest(s)) \/ CleanupDone \/ Read
            \/ Close \/ UNCHANGED vars
  BY <1>1, <1>0 DEF HalfHeld, Holds, Emit, Exit, OtherAttaches, Attach, Kill, DetachRequest, CleanupDone,
       Read, Close, wireVars, vars
<1>2. ASSUME Serve PROVE HalfHeld'
  <2>1. Loop \notin Range(queue)
    BY <1>2, <1>0, LoopApart DEF Serve, Handle, QueueShape, Waiting
  <2>2. QED BY <1>2, <1>0, <2>1, Joined DEF Serve, Respond, HalfHeld, Holds, wireVars, QueueShape, Members
<1>3. ASSUME NEW a \in Atts, AbortOne(a) PROVE HalfHeld'
  <2>1. Abort(a) /\ a \in Members /\ UNCHANGED peer
    BY <1>3 DEF AbortOne, Members
  <2>2. SUFFICES ASSUME peer' = "open", frame'.done # FrameSize, ~torn' PROVE Holds(frame.by)'
    BY <2>1 DEF Abort, HalfHeld, Holds
  <2>3. frame' = frame /\ ~torn /\ ~(frame.by = a /\ frame.done < FrameSize) /\ queue' = Leave(queue, a)
    BY <2>1, <2>2 DEF Abort
  <2>4. frame.by # a
    BY <1>0, <2>2, <2>3, BoundsAssumption DEF WireTypes
  <2>5. queue # <<>> /\ Head(queue) = frame.by
    BY <1>0, <2>1, <2>2, <2>3 DEF HalfHeld, Holds
  <2>6. queue \in Seq(Members) /\ IsInjective(queue)
    BY <1>0 DEF QueueShape
  <2>7. Leave(queue, a) # <<>> /\ Head(Leave(queue, a)) = frame.by
    <3>1. a \in Members /\ Head(queue) # a
      BY <2>1, <2>4, <2>5
    <3>2. QED BY <2>5, <2>6, <3>1, Left, Zenon
  <2>8. queue' # <<>> /\ Head(queue') = frame'.by
    BY <2>3, <2>7
  <2>9. QED BY <2>3, <2>8 DEF Holds
<1>4. ASSUME AbortDone PROVE HalfHeld'
  <2>1. Loop \notin Range(queue)
    BY <1>4, <1>0, LoopApart DEF AbortDone, QueueShape, Waiting
  <2>2. QED BY <1>4, <1>0, <2>1, Joined DEF AbortDone, Respond, HalfHeld, Holds, wireVars, QueueShape, Members
<1>5. ASSUME SendResponse PROVE HalfHeld'
  <2>1. Holds(Loop) /\ frame'.by = Loop /\ queue' = IF Completed THEN Tail(queue) ELSE queue
    BY <1>5, Written DEF SendResponse, Members
  <2>2. QED BY <2>1 DEF HalfHeld, Holds, Completed
<1>6. ASSUME LoopEnds PROVE HalfHeld'
  BY <1>6, <1>0 DEF LoopEnds, HalfHeld, Holds, wireVars
<1>7. ASSUME NEW a \in Atts, CleanupOne(a) PROVE HalfHeld'
  <2>1. Abort(a) /\ a \in Members /\ UNCHANGED peer
    BY <1>7 DEF CleanupOne, Members
  <2>2. SUFFICES ASSUME peer' = "open", frame'.done # FrameSize, ~torn' PROVE Holds(frame.by)'
    BY <2>1 DEF Abort, HalfHeld, Holds
  <2>3. frame' = frame /\ ~torn /\ ~(frame.by = a /\ frame.done < FrameSize) /\ queue' = Leave(queue, a)
    BY <2>1, <2>2 DEF Abort
  <2>4. frame.by # a
    BY <1>0, <2>2, <2>3, BoundsAssumption DEF WireTypes
  <2>5. queue # <<>> /\ Head(queue) = frame.by
    BY <1>0, <2>1, <2>2, <2>3 DEF HalfHeld, Holds
  <2>6. queue \in Seq(Members) /\ IsInjective(queue)
    BY <1>0 DEF QueueShape
  <2>7. Leave(queue, a) # <<>> /\ Head(Leave(queue, a)) = frame.by
    <3>1. a \in Members /\ Head(queue) # a
      BY <2>1, <2>4, <2>5
    <3>2. QED BY <2>5, <2>6, <3>1, Left, Zenon
  <2>8. queue' # <<>> /\ Head(queue') = frame'.by
    BY <2>3, <2>7
  <2>9. QED BY <2>3, <2>8 DEF Holds
<1>8. ASSUME NEW a \in Atts, ForwardRecv(a) PROVE HalfHeld'
  <2>1. a \notin Range(queue) /\ a \in Members
    BY <1>8, <1>0, LoopApart DEF ForwardRecv, QueueShape, Waiting, Members
  <2>2. QED BY <1>8, <1>0, <2>1, Joined DEF ForwardRecv, HalfHeld, Holds, wireVars, QueueShape
<1>9. ASSUME NEW a \in Atts, ForwardWrite(a) PROVE HalfHeld'
  <2>1. Holds(a) /\ frame'.by = a /\ queue' = IF Completed THEN Tail(queue) ELSE queue
    BY <1>9, Written DEF ForwardWrite, Members
  <2>2. QED BY <2>1 DEF HalfHeld, Holds, Completed
<1>10. ASSUME NEW a \in Atts, ForwardEnd(a) PROVE HalfHeld'
  BY <1>10, <1>0 DEF ForwardEnd, HalfHeld, Holds, wireVars
<1>11. QED
  BY <1>1, <1>2, <1>3, <1>4, <1>5, <1>6, <1>7, <1>8, <1>9, <1>10 DEF Next,
     Requests, RequestLoop, Forwarder

-----------------------------------------------------------------------------
LEMMA InitInv == Init => IInv
<1>1. SUFFICES ASSUME Init PROVE IInv
  OBVIOUS
<1>2. SessionTypes
  BY <1>1, BoundsAssumption DEF Init, SessionTypes
<1>3. TaskTypes
  BY <1>1, BoundsAssumption DEF Init, TaskTypes
<1>4. WireTypes
  <2>1. FrameSize \in 1 .. FrameSize /\ SockCap \in 0 .. SockCap
    BY BoundsAssumption
  <2>2. QED BY <1>1, <2>1 DEF Init, WireTypes, Members
<1>5. LoopTypes /\ peer \in {"open", "closed"}
  BY <1>1, BoundsAssumption DEF Init, LoopTypes, Request
<1>6. QueueShape
  BY <1>1 DEF Init, QueueShape, Waiting, IsInjective, Range
<1>7. Numbers /\ Tasks /\ RequestShape /\ Aborting /\ Answering
  BY <1>1, BoundsAssumption DEF Init, Numbers, Tasks, RequestShape, Aborting, Answering, Ending, NoRequest
<1>8. Followed /\ HalfHeld
  BY <1>1 DEF Init, Followed, HalfHeld
<1>9. QED BY <1>2, <1>3, <1>4, <1>5, <1>6, <1>7, <1>8, Types DEF IInv

LEMMA NextInv == IInv /\ [Next]_vars => IInv'
<1>1. SUFFICES ASSUME IInv, [Next]_vars PROVE IInv'
  OBVIOUS
<1>2. TypeOK /\ Numbers /\ Tasks /\ RequestShape /\ Aborting /\ Answering /\ Followed /\ HalfHeld
  BY <1>1 DEF IInv
<1>3. TypeOK'
  BY <1>1, <1>2, TypesNext, QueueKept, SessionTypesKept, TaskTypesKept, WireTypesKept, LoopTypesKept
<1>4. Numbers' /\ RequestShape'
  BY <1>1, <1>2, NumbersKept, RequestShapeKept
<1>5. Tasks' /\ Aborting' /\ Answering'
  BY <1>1, <1>2, TasksKept, AbortingKept, AnsweringKept
<1>6. Followed' /\ HalfHeld'
  BY <1>1, <1>2, FollowedKept, HalfHeldKept
<1>7. QED BY <1>3, <1>4, <1>5, <1>6 DEF IInv

LEMMA Inductive == Spec => []IInv
BY InitInv, NextInv, PTL DEF Spec

(* A frame on the wire starts only in a write of the holder of the mutex.   *)
LEMMA FrameStarts ==
  ASSUME IInv, [Next]_vars, frame' # frame
  PROVE  \E p \in Members : Holds(p) /\ Write(p)
<1>1. CASE SendResponse
  BY <1>1 DEF SendResponse, Members
<1>2. ASSUME NEW a \in Atts, ForwardWrite(a) PROVE Holds(a) /\ Write(a) /\ a \in Members
  BY <1>2 DEF ForwardWrite, Members
<1>3. ASSUME ~SendResponse, \A a \in Atts : ~ForwardWrite(a) PROVE FALSE
  BY <1>3 DEF Next, Requests, RequestLoop, Forwarder, Emit, Exit, OtherAttaches, Serve, Attach, Kill,
       DetachRequest, AbortOne, Abort, AbortDone, LoopEnds, CleanupOne, CleanupDone, ForwardRecv,
       ForwardEnd, Read, Close, wireVars, vars
<1>4. QED BY <1>1, <1>2, <1>3

-----------------------------------------------------------------------------
(* The variables keep their types, and the queue of the mutex holds exactly  *)
(* the tasks that wait, for any number of sessions, attachments, chunks and  *)
(* pieces of a frame.                                                        *)
THEOREM TypeCorrect == Spec => []TypeOK
BY Inductive, PTL DEF IInv

(* A connection that is gone has no forwarder and no attachment.             *)
THEOREM DisconnectClean == Spec => []CleanDisconnect
<1>1. IInv => CleanDisconnect
  <2>1. SUFFICES ASSUME IInv, loop = "gone"
                 PROVE  /\ \A a \in Atts : forwarder[a] \in {"none", "gone"}
                        /\ \A s \in Sessions : Att(s) \notin ours
    BY DEF CleanDisconnect
  <2>2. map = {} /\ TaskTypes
    BY <2>1, Types DEF IInv, Tasks
  <2>3. \A a \in Atts : forwarder[a] \in {"none", "gone"}
    BY <2>1, <2>2 DEF IInv, Tasks, TaskTypes
  <2>4. \A s \in Sessions : Att(s) \notin ours
    BY <2>1, <2>2 DEF IInv, Followed
  <2>5. QED BY <2>3, <2>4
<1>2. QED BY <1>1, Inductive, PTL

(* The mutex keeps frames apart but for a frame that an abort tore: what the *)
(* socket's writer left half done is of the holder or was torn.              *)
THEOREM TornOnlyByAborts == Spec => TornOnlyByAbort
<1>1. IInv /\ [Next]_vars => [StartsFrame => frame.done = FrameSize \/ torn]_vars
  <2>1. SUFFICES ASSUME IInv, [Next]_vars, StartsFrame, frame.done # FrameSize, ~torn PROVE FALSE
    OBVIOUS
  <2>2. frame' # frame /\ frame'.by # frame.by
    BY <2>1 DEF StartsFrame
  <2>3. PICK p \in Members : Holds(p) /\ Write(p)
    BY <2>1, <2>2, FrameStarts
  <2>4. frame'.by = p /\ peer = "open"
    BY <2>1, <2>3, Written DEF IInv
  <2>5. Holds(frame.by)
    BY <2>1, <2>4 DEF IInv, HalfHeld
  <2>6. QED BY <2>2, <2>3, <2>4, <2>5 DEF Holds
<1>2. QED BY <1>1, Inductive, PTL DEF Spec, TornOnlyByAbort

(* What the client was told has ended stays silent.                          *)
THEOREM EndedIsSilent == Spec => NoLateOutput
<1>1. IInv /\ [Next]_vars =>
        [\A a \in Atts : StartsFrame /\ frame'.by = a => a[2] > fence[a[1]]]_vars
  <2>1. SUFFICES ASSUME IInv, [Next]_vars, NEW a \in Atts, StartsFrame, frame'.by = a
                 PROVE  a[2] > fence[a[1]]
    OBVIOUS
  <2>2. PICK p \in Members : Holds(p) /\ Write(p)
    BY <2>1, FrameStarts DEF StartsFrame
  <2>3. p = a
    BY <2>1, <2>2, Written DEF IInv
  <2>4. forwarder[a] = "write"
    BY <2>1, <2>2, <2>3, HolderWrites DEF IInv
  <2>5. QED BY <2>1, <2>4 DEF IInv, Tasks
<1>2. QED BY <1>1, Inductive, PTL DEF Spec, NoLateOutput

(* No abort, detach or cleanup of this connection takes the attachment of    *)
(* another one away.                                                         *)
THEOREM OthersKeepAttached == Spec => OthersStayAttached
<1> DEFINE Taken(s) == current[s] # 0 /\ Att(s) \notin ours /\ current'[s] = 0
<1>1. ASSUME IInv, [Next]_vars, NEW s \in Sessions, Taken(s) PROVE s \in dead'
  <2>1. SessionTypes /\ TaskTypes
    BY <1>1, Types DEF IInv
  <2>2. current' # current
    BY <1>1
  <2>3. ASSUME NEW t \in Sessions, NewAttachment(t) PROVE s \in dead'
    <3>1. count[t] + 1 # 0
      BY <2>1, BoundsAssumption DEF SessionTypes
    <3>2. QED BY <1>1, <2>1, <2>3, <3>1 DEF NewAttachment, SessionTypes
  <2>4. ASSUME NEW a \in Atts, a \in map, Release(a) PROVE s \in dead'
    BY <1>1, <2>1, <2>4, AttShape DEF Release, TaskTypes, SessionTypes, Att
  <2>5. ASSUME NEW t \in Sessions, dead' = dead \union {t}, current' = [current EXCEPT ![t] = 0]
        PROVE  s \in dead'
    BY <1>1, <2>1, <2>5 DEF SessionTypes
  <2>6. CASE \E t \in Sessions : Exit(t) \/ OtherAttaches(t) \/ Attach(t) \/ Kill(t)
    BY <2>6, <2>3, <2>5 DEF Exit, OtherAttaches, Attach, Kill
  <2>7. CASE \E a \in Atts : AbortOne(a) \/ CleanupOne(a)
    BY <2>7, <2>2, <2>4 DEF AbortOne, CleanupOne, Abort, sessionVars
  <2>8. CASE /\ ~(\E t \in Sessions : Exit(t) \/ OtherAttaches(t) \/ Attach(t) \/ Kill(t))
             /\ ~(\E a \in Atts : AbortOne(a) \/ CleanupOne(a))
    BY <1>1, <2>2, <2>8 DEF Next, Requests, RequestLoop, Forwarder, Emit, Serve, DetachRequest, AbortDone,
         SendResponse, LoopEnds, CleanupDone, ForwardRecv, ForwardWrite, ForwardEnd, Read, Close,
         sessionVars, vars
  <2>9. QED BY <2>6, <2>7, <2>8
<1>2. IInv /\ [Next]_vars => [\A s \in Sessions : Taken(s) => s \in dead']_vars
  BY <1>1
<1>3. QED BY <1>2, Inductive, PTL DEF Spec, OthersStayAttached

-----------------------------------------------------------------------------
(* Who is served before a task that waits for the mutex.                    *)
Ahead(q, p) == {x \in Range(q) : \E i \in DOMAIN q, j \in DOMAIN q : i < j /\ q[i] = x /\ q[j] = p}

(* The mutex is fair: nobody comes to stand before a task that waits.       *)
NoOvertaking ==
  [][\A p \in Members : p \in Range(queue) /\ p \in Range(queue') => Ahead(queue', p) \subseteq Ahead(queue, p)]_vars

(* No task gets before another when one joins the queue ...                 *)
LEMMA AheadAppend ==
  ASSUME NEW S, NEW q \in Seq(S), NEW p \in S, p \notin Range(q), NEW r \in Range(q)
  PROVE  Ahead(Append(q, p), r) \subseteq Ahead(q, r)
<1> DEFINE t == Append(q, p)
<1>1. t \in Seq(S) /\ Len(t) = Len(q) + 1 /\ t[Len(q) + 1] = p /\ \A i \in 1 .. Len(q) : t[i] = q[i]
  OBVIOUS
<1>2. DOMAIN q = 1 .. Len(q) /\ DOMAIN t = 1 .. Len(q) + 1 /\ Len(q) \in Nat
  BY <1>1
<1>3. r # p
  OBVIOUS
<1> HIDE DEF t
<1>4. SUFFICES ASSUME NEW i \in DOMAIN t, NEW j \in DOMAIN t, i < j, t[j] = r PROVE t[i] \in Ahead(q, r)
  BY DEF Ahead, t
<1>5. j # Len(q) + 1
  BY <1>1, <1>3, <1>4
<1>6. i \in DOMAIN q /\ j \in DOMAIN q
  BY <1>2, <1>4, <1>5
<1>7. t[i] = q[i] /\ q[j] = r
  BY <1>1, <1>2, <1>4, <1>6
<1>8. QED BY <1>4, <1>6, <1>7 DEF Ahead, Range

(* ... when the first one gives the mutex back ...                          *)
LEMMA AheadTail ==
  ASSUME NEW S, NEW q \in Seq(S), q # <<>>, NEW r \in S
  PROVE  Ahead(Tail(q), r) \subseteq Ahead(q, r)
<1> DEFINE t == Tail(q)
<1>1. Len(q) \in Nat \ {0} /\ DOMAIN q = 1 .. Len(q)
  OBVIOUS
<1>2. t \in Seq(S) /\ Len(t) = Len(q) - 1 /\ \A i \in 1 .. Len(q) - 1 : t[i] = q[i + 1]
  BY <1>1
<1>3. DOMAIN t = 1 .. Len(q) - 1
  BY <1>2
<1> HIDE DEF t
<1>4. SUFFICES ASSUME NEW i \in DOMAIN t, NEW j \in DOMAIN t, i < j, t[j] = r PROVE t[i] \in Ahead(q, r)
  BY DEF Ahead, t
<1>5. i + 1 \in DOMAIN q /\ j + 1 \in DOMAIN q /\ i + 1 < j + 1
  BY <1>1, <1>3, <1>4
<1>6. t[i] = q[i + 1] /\ q[j + 1] = r
  BY <1>2, <1>3, <1>4
<1>7. QED BY <1>5, <1>6 DEF Ahead, Range

(* ... and when one that was dropped leaves it.                             *)
LEMMA AheadLeave ==
  ASSUME NEW S, NEW q \in Seq(S), NEW p \in S, NEW r \in S
  PROVE  Ahead(Leave(q, p), r) \subseteq Ahead(q, r)
<1>1. CASE p \notin Range(q)
  BY <1>1 DEF Leave
<1>2. CASE p \in Range(q)
  <2> DEFINE k == CHOOSE j \in DOMAIN q : q[j] = p
             t == RemoveAt(q, k)
  <2>1. DOMAIN q = 1 .. Len(q) /\ Len(q) \in Nat
    OBVIOUS
  <2>2. k \in 1 .. Len(q)
    BY <1>2, <2>1 DEF Range
  <2>3. Leave(q, p) = t
    BY <1>2 DEF Leave
  <2> HIDE DEF k
  <2>4. /\ t \in Seq(S) /\ Len(t) = Len(q) - 1
        /\ \A j \in 1 .. Len(q) - 1 : t[j] = IF j < k THEN q[j] ELSE q[j + 1]
    BY <2>2, RemoveAtFacts
  <2>5. DOMAIN t = 1 .. Len(q) - 1
    BY <2>4
  <2> HIDE DEF t
  <2>6. ASSUME NEW i \in DOMAIN t, NEW j \in DOMAIN t, i < j, t[j] = r PROVE t[i] \in Ahead(q, r)
    <3> DEFINE e(l) == IF l < k THEN l ELSE l + 1
    <3>1. e(i) \in DOMAIN q /\ e(j) \in DOMAIN q /\ e(i) < e(j)
      BY <2>1, <2>2, <2>5, <2>6
    <3>2. t[i] = q[e(i)] /\ q[e(j)] = r
      BY <2>4, <2>5, <2>6
    <3> HIDE DEF e
    <3>3. QED BY <3>1, <3>2 DEF Ahead, Range
  <2>7. QED BY <2>3, <2>6 DEF Ahead, Range
<1>3. QED BY <1>1, <1>2

(* What a step does to the queue of the mutex.                              *)
LEMMA QueueSteps ==
  ASSUME IInv, [Next]_vars
  PROVE  \/ queue' = queue
         \/ \E p \in Members : p \notin Range(queue) /\ queue' = Append(queue, p)
         \/ queue # <<>> /\ queue' = Tail(queue)
         \/ \E a \in Members : queue' = Leave(queue, a)
<1>0. QueueShape /\ TypeOK
  BY Types DEF IInv
<1>1. CASE Serve \/ AbortDone
  <2>1. Loop \notin Range(queue)
    BY <1>1, LoopApart, <1>0 DEF Serve, Handle, AbortDone, QueueShape, Waiting
  <2>2. QED BY <1>1, <2>1 DEF Serve, AbortDone, Respond, Members
<1>2. CASE \E a \in Atts : ForwardRecv(a)
  <2>1. PICK a \in Atts : ForwardRecv(a)
    BY <1>2
  <2>2. a \notin Range(queue)
    BY <2>1, LoopApart, <1>0 DEF ForwardRecv, QueueShape, Waiting
  <2>3. QED BY <2>1, <2>2 DEF ForwardRecv, Members
<1>3. CASE \E a \in Atts : AbortOne(a) \/ CleanupOne(a)
  BY <1>3 DEF AbortOne, CleanupOne, Abort, Members
<1>4. CASE SendResponse \/ \E a \in Atts : ForwardWrite(a)
  <2>1. PICK p \in Members : Holds(p) /\ Write(p)
    BY <1>4 DEF SendResponse, ForwardWrite, Members
  <2>2. QED BY <1>0, <2>1, Written DEF Holds
<1>5. CASE LoopEnds \/ \E a \in Atts : ForwardEnd(a)
  BY <1>5 DEF LoopEnds, ForwardEnd, Holds
<1>6. CASE (\E s \in Sessions : Emit(s)) \/ (\E s \in Sessions : Exit(s))
            \/ (\E s \in Sessions : OtherAttaches(s))
            \/ (\E s \in Sessions : Attach(s)) \/ (\E s \in Sessions : Kill(s))
            \/ (\E s \in Sessions : DetachRequest(s)) \/ CleanupDone \/ Read
            \/ Close \/ UNCHANGED vars
  BY <1>6 DEF Emit, Exit, OtherAttaches, Attach, Kill, DetachRequest, CleanupDone, Read, Close,
       sessionVars, taskVars, wireVars, loopVars, vars
<1>7. QED
  BY <1>1, <1>2, <1>3, <1>4, <1>5, <1>6 DEF Next, Requests, RequestLoop, Forwarder

(* The mutex serves its waiters in the order they came: what a forwarder    *)
(* writes never delays a response by more than who waited before it.        *)
THEOREM MutexIsFair == Spec => NoOvertaking
<1>1. ASSUME IInv, [Next]_vars, NEW r \in Members, r \in Range(queue)
      PROVE  Ahead(queue', r) \subseteq Ahead(queue, r)
  <2>1. queue \in Seq(Members)
    BY <1>1 DEF IInv, TypeOK, Members
  <2>2. CASE queue' = queue
    BY <2>2
  <2>3. CASE \E p \in Members : p \notin Range(queue) /\ queue' = Append(queue, p)
    BY <1>1, <2>1, <2>3, AheadAppend
  <2>4. CASE queue # <<>> /\ queue' = Tail(queue)
    BY <1>1, <2>1, <2>4, AheadTail
  <2>5. CASE \E a \in Members : queue' = Leave(queue, a)
    BY <1>1, <2>1, <2>5, AheadLeave
  <2>6. QED BY <1>1, <2>2, <2>3, <2>4, <2>5, QueueSteps
<1>2. IInv /\ [Next]_vars =>
        [\A p \in Members : p \in Range(queue) /\ p \in Range(queue')
                              => Ahead(queue', p) \subseteq Ahead(queue, p)]_vars
  BY <1>1
<1>3. QED BY <1>2, Inductive, PTL DEF Spec, NoOvertaking
=============================================================================
