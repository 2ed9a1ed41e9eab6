-------------------------- MODULE PaneStream_proofs -------------------------
(***************************************************************************)
(* Proofs about PaneStream, for every number of sessions, chunks and        *)
(* attachments and every capacity: a session attached once on a connection  *)
(* has an exact stream, and the buffer for output without a sink is counted *)
(* right.  First what a queue is after a chunk leaves or joins it; then, per *)
(* action, where the chunks of a session are; then how many are buffered.   *)
(***************************************************************************)
EXTENDS PaneStream, FiniteSetTheorems, TLAPS

(* Orders of a sequence of chunks, of those of one session in a queue of    *)
(* frames, and of two sets.                                                 *)
Rising(q) == \A i, j \in DOMAIN q : i < j => q[i] < q[j]

OutputOf(f, s) == f.kind = "output" /\ f.session = s
RisingFor(q, s) ==
  \A i, j \in DOMAIN q : i < j /\ OutputOf(q[i], s) /\ OutputOf(q[j], s) => q[i].chunk < q[j].chunk
Carried(q, s) == {q[i].chunk : i \in {j \in DOMAIN q : OutputOf(q[j], s)}}

Below(S, T) == \A m \in S, n \in T : m < n

(* Where a chunk of the first attachment can be, from its reader back to    *)
(* the daemon.                                                              *)
Got(s) == Range(got[s][1])
Buffered(s) == Range(pending[s])
Queued(s) == Carried(events, s)
OnWire(s) == Carried(wire, s)
Ahead(s) == Range(chan[s])
Known(s) == Got(s) \union Buffered(s) \union Queued(s) \union OnWire(s) \union Ahead(s)

(* There is one request, and it is in one place.                            *)
Stage ==
  /\ request # "none" => answer = "none" /\ Responses = {}
  /\ answer # "none" => Responses = {}
  /\ Busy("ensure") \/ Busy("attach") => count[work.session] \in Readers
  /\ Busy("kill") => sink[work.session] = 0

(* A session with a sink buffers nothing.                                   *)
Drained == \A s \in Sessions :
  /\ sink[s] <= count[s] /\ attached[s] <= count[s]
  /\ sink[s] # 0 => pending[s] = <<>>

(* What is buffered is what is counted, within the limits.                  *)
Accounted ==
  /\ IsFiniteSet(Buffers(pending)) /\ pendingBytes = Cardinality(Buffers(pending))
  /\ pendingBytes <= Budget
  /\ \A s \in Sessions : Len(pending[s]) <= ChunkLimit

(* The daemon has not answered the first attach yet: nothing is under way.  *)
Fresh(s) == \/ count[s] = 0
            \/ count[s] = 1 /\ work.op \in {"ensure", "attach"} /\ work.session = s /\ request = "sent"
Unfed(s) == Fresh(s) => attached[s] = 0 /\ Known(s) = {}

(* Every place is in order, and so is each with those before it.            *)
Placed(s) == /\ Rising(got[s][1]) /\ Rising(pending[s]) /\ Rising(chan[s])
             /\ RisingFor(events, s) /\ RisingFor(wire, s)
Queues(s) ==
  /\ Below(Got(s), Buffered(s) \union Queued(s) \union OnWire(s) \union Ahead(s))
  /\ Below(Buffered(s), Queued(s) \union OnWire(s) \union Ahead(s))
  /\ Below(Queued(s), OnWire(s) \union Ahead(s))
  /\ Below(OnWire(s), Ahead(s))
Limits(s) == base[s][1] <= out[s] /\ \A n \in Known(s) : base[s][1] < n /\ n <= out[s]

(* As long as the reader can be sent more, no chunk before one that is under *)
(* way is missing, nor one that the session has emitted.                    *)
Feeding(s) == /\ count[s] = 1 /\ reader[s][1] = "open"
              /\ sink[s] = 1 \/ (Busy("ensure") /\ work.session = s)
Covered(s) == Feeding(s) =>
  /\ \A n \in Known(s) : (base[s][1] + 1) .. n \subseteq Known(s) \union lost[s]
  /\ attached[s] = 1 => (base[s][1] + 1) .. out[s] \subseteq Known(s) \union lost[s]

Exact(s) == \A i \in DOMAIN got[s][1] :
  /\ got[s][1][i] > Before(s, 1, i)
  /\ (Before(s, 1, i) + 1) .. (got[s][1][i] - 1) \subseteq lost[s]

Path(s) == Unfed(s) /\ Placed(s) /\ Queues(s) /\ Limits(s) /\ Covered(s) /\ Exact(s)
Paths == \A s \in Sessions : count[s] <= 1 => Path(s)

IInv == TypeOK /\ Stage /\ Drained /\ Paths
-----------------------------------------------------------------------------
(* What the tail, an added element and a concatenation do to an order.      *)
LEMMA RisingTail ==
  ASSUME NEW q \in Seq(Nat), q # <<>>, Rising(q)
  PROVE  /\ Tail(q) \in Seq(Nat) /\ Rising(Tail(q)) /\ Head(q) \in Nat
         /\ Range(q) = {Head(q)} \union Range(Tail(q))
         /\ \A n \in Range(Tail(q)) : Head(q) < n
<1> DEFINE t == Tail(q)
<1>1. Len(q) \in Nat /\ Len(q) >= 1 /\ DOMAIN q = 1 .. Len(q) /\ Head(q) = q[1] /\ q[1] \in Nat
  OBVIOUS
<1>2. t \in Seq(Nat) /\ Len(t) = Len(q) - 1 /\ DOMAIN t = 1 .. Len(q) - 1
  BY <1>1
<1>3. \A i \in DOMAIN t : t[i] = q[i + 1] /\ i + 1 \in DOMAIN q
  BY <1>1, <1>2
<1> HIDE DEF t
<1>4. Rising(t)
  BY <1>1, <1>2, <1>3 DEF Rising
<1>5. \A n \in Range(t) : Head(q) < n
  <2>1. ASSUME NEW i \in DOMAIN t PROVE q[1] < t[i]
    <3>1. i + 1 \in DOMAIN q /\ 1 \in DOMAIN q /\ 1 < i + 1 /\ t[i] = q[i + 1]
      BY <1>1, <1>2, <1>3
    <3>2. q[1] < q[i + 1]
      BY <3>1 DEF Rising
    <3>3. QED BY <3>1, <3>2
  <2>2. QED BY <1>1, <2>1 DEF Range
<1>6. Range(q) = {Head(q)} \union Range(t)
  <2>1. ASSUME NEW i \in DOMAIN q, i # 1 PROVE i - 1 \in DOMAIN t /\ t[i - 1] = q[i]
    <3>1. i - 1 \in DOMAIN t /\ (i - 1) + 1 = i
      BY <2>1, <1>1, <1>2
    <3>2. QED BY <3>1, <1>3
  <2>2. QED BY <1>1, <1>3, <2>1 DEF Range
<1>7. QED BY <1>1, <1>2, <1>4, <1>5, <1>6 DEF t

LEMMA RisingAppend ==
  ASSUME NEW q \in Seq(Nat), NEW n \in Nat, Rising(q), \A m \in Range(q) : m < n
  PROVE  /\ Append(q, n) \in Seq(Nat) /\ Rising(Append(q, n))
         /\ Range(Append(q, n)) = Range(q) \union {n}
<1> DEFINE a == Append(q, n)
<1>1. a \in Seq(Nat) /\ Len(q) \in Nat /\ DOMAIN q = 1 .. Len(q) /\ DOMAIN a = 1 .. Len(q) + 1
  OBVIOUS
<1>2. (\A i \in DOMAIN q : a[i] = q[i]) /\ a[Len(q) + 1] = n
  OBVIOUS
<1> HIDE DEF a
<1>3. ASSUME NEW i \in DOMAIN a, NEW j \in DOMAIN a, i < j PROVE a[i] < a[j]
  <2>1. CASE j \in DOMAIN q
    <3>1. i \in DOMAIN q
      BY <2>1, <1>1, <1>3
    <3>2. q[i] < q[j]
      BY <2>1, <3>1, <1>3 DEF Rising
    <3>3. QED BY <2>1, <3>1, <3>2, <1>2
  <2>2. CASE j \notin DOMAIN q
    <3>1. j = Len(q) + 1 /\ i \in DOMAIN q
      BY <2>2, <1>1, <1>3
    <3>2. q[i] < n
      BY <3>1 DEF Range
    <3>3. QED BY <3>1, <3>2, <1>2
  <2>3. QED BY <2>1, <2>2
<1>4. Range(a) = Range(q) \union {n}
  <2>1. DOMAIN a = DOMAIN q \union {Len(q) + 1}
    BY <1>1
  <2>2. QED BY <1>2, <2>1 DEF Range
<1>5. QED BY <1>1, <1>3, <1>4 DEF a, Rising

LEMMA RisingConcat ==
  ASSUME NEW q \in Seq(Nat), NEW r \in Seq(Nat), Rising(q), Rising(r), Below(Range(q), Range(r))
  PROVE  /\ q \o r \in Seq(Nat) /\ Rising(q \o r)
         /\ Range(q \o r) = Range(q) \union Range(r)
<1> DEFINE c == q \o r
<1>1. /\ c \in Seq(Nat) /\ Len(q) \in Nat /\ Len(r) \in Nat /\ DOMAIN q = 1 .. Len(q)
      /\ DOMAIN r = 1 .. Len(r) /\ DOMAIN c = 1 .. Len(q) + Len(r)
  OBVIOUS
<1>2. \A i \in DOMAIN c : c[i] = IF i <= Len(q) THEN q[i] ELSE r[i - Len(q)]
  OBVIOUS
<1> HIDE DEF c
<1>3. \A i \in DOMAIN q : i \in DOMAIN c /\ c[i] = q[i]
  BY <1>1, <1>2
<1>4. ASSUME NEW i \in DOMAIN r PROVE Len(q) + i \in DOMAIN c /\ c[Len(q) + i] = r[i]
  <2>1. Len(q) + i \in DOMAIN c /\ ~(Len(q) + i <= Len(q)) /\ (Len(q) + i) - Len(q) = i
    BY <1>1
  <2>2. c[Len(q) + i] = r[(Len(q) + i) - Len(q)]
    BY <2>1, <1>2
  <2>3. QED BY <2>1, <2>2
<1>5. \A i \in DOMAIN c : i \in DOMAIN q \/ i - Len(q) \in DOMAIN r
  BY <1>1
<1>6. Range(c) = Range(q) \union Range(r)
  <2>1. ASSUME NEW x \in Range(c) PROVE x \in Range(q) \union Range(r)
    <3>1. PICK i \in DOMAIN c : c[i] = x
      BY <2>1 DEF Range
    <3>2. CASE i \in DOMAIN q
      BY <3>1, <3>2, <1>3 DEF Range
    <3>3. CASE i - Len(q) \in DOMAIN r
      <4>1. c[Len(q) + (i - Len(q))] = r[i - Len(q)] /\ Len(q) + (i - Len(q)) = i
        BY <3>3, <1>1, <1>4
      <4>2. QED BY <3>1, <3>3, <4>1 DEF Range
    <3>4. QED BY <3>2, <3>3, <1>5
  <2>2. Range(q) \subseteq Range(c) /\ Range(r) \subseteq Range(c)
    BY <1>3, <1>4 DEF Range
  <2>3. QED BY <2>1, <2>2
<1>7. ASSUME NEW i \in DOMAIN c, NEW j \in DOMAIN c, i < j PROVE c[i] < c[j]
  <2>1. CASE j <= Len(q)
    BY <2>1, <1>1, <1>2, <1>7 DEF Rising
  <2>2. CASE i <= Len(q) /\ ~(j <= Len(q))
    <3>0. i \in 1 .. Len(q) /\ j \in Nat /\ j - Len(q) \in 1 .. Len(r)
      <4>1. i \in 1 .. Len(q) + Len(r) /\ j \in 1 .. Len(q) + Len(r)
        BY <1>1
      <4>2. i \in Nat /\ j \in Nat /\ 1 <= i /\ j <= Len(q) + Len(r)
        BY <4>1, <1>1
      <4> DEFINE m == Len(q)  n == Len(r)
      <4>m. m \in Nat /\ n \in Nat /\ i <= m /\ ~(j <= m) /\ j <= m + n
        BY <1>1, <2>2, <4>2
      <4> HIDE DEF m, n
      <4>3. i \in 1 .. m /\ j - m \in 1 .. n
        BY <4>2, <4>m
      <4>4. QED BY <4>2, <4>3 DEF m, n
    <3>1. i \in DOMAIN q /\ j - Len(q) \in DOMAIN r /\ c[i] = q[i] /\ c[j] = r[j - Len(q)]
      <4>1. c[i] = q[i]
        BY <3>0, <1>1, <1>3
      <4>2. c[j] = r[j - Len(q)]
        BY <2>2, <1>2
      <4>3. QED BY <3>0, <4>1, <4>2, <1>1
    <3>2. q[i] \in Range(q) /\ r[j - Len(q)] \in Range(r)
      BY <3>1 DEF Range
    <3>3. QED BY <3>1, <3>2 DEF Below
  <2>3. CASE ~(i <= Len(q))
    <3>1. /\ i - Len(q) \in DOMAIN r /\ j - Len(q) \in DOMAIN r /\ i - Len(q) < j - Len(q)
          /\ ~(j <= Len(q))
      <4>0. i \in 1 .. Len(q) + Len(r) /\ j \in 1 .. Len(q) + Len(r)
        BY <1>1
      <4>1. i \in Nat /\ j \in Nat /\ i <= Len(q) + Len(r) /\ j <= Len(q) + Len(r) /\ Len(q) < i /\ Len(q) < j
        BY <4>0, <2>3, <1>1, <1>7
      <4> DEFINE m == Len(q)  n == Len(r)
      <4>m. m \in Nat /\ n \in Nat
        BY <1>1
      <4> HIDE DEF m, n
      <4>2. i - m \in 1 .. n /\ j - m \in 1 .. n /\ i - m < j - m
        BY <1>7, <4>1, <4>m DEF m, n
      <4>3. QED BY <1>1, <4>1, <4>2 DEF m, n
    <3>2. r[i - Len(q)] < r[j - Len(q)]
      BY <3>1 DEF Rising
    <3>3. QED BY <2>3, <3>1, <3>2, <1>2
  <2>4. QED BY <2>1, <2>2, <2>3, <1>1
<1>8. QED BY <1>1, <1>6, <1>7 DEF c, Rising

(* The same for the frames of one session.                                  *)
LEMMA FramesTail ==
  ASSUME NEW q \in Seq(Frames), q # <<>>, NEW s \in Sessions, RisingFor(q, s)
  PROVE  /\ Tail(q) \in Seq(Frames) /\ RisingFor(Tail(q), s) /\ Head(q) \in Frames
         /\ OutputOf(Head(q), s) =>
              /\ Carried(q, s) = {Head(q).chunk} \union Carried(Tail(q), s)
              /\ \A n \in Carried(Tail(q), s) : Head(q).chunk < n
         /\ ~OutputOf(Head(q), s) => Carried(Tail(q), s) = Carried(q, s)
<1> DEFINE t == Tail(q)
<1>1. Len(q) \in Nat /\ Len(q) >= 1 /\ DOMAIN q = 1 .. Len(q) /\ Head(q) = q[1] /\ q[1] \in Frames
  OBVIOUS
<1>2. t \in Seq(Frames) /\ Len(t) = Len(q) - 1 /\ DOMAIN t = 1 .. Len(q) - 1
  BY <1>1
<1>3. \A i \in DOMAIN t : t[i] = q[i + 1] /\ i + 1 \in DOMAIN q
  BY <1>1, <1>2
<1> HIDE DEF t
<1>4. RisingFor(t, s)
  BY <1>1, <1>2, <1>3 DEF RisingFor
<1>5. OutputOf(q[1], s) => \A n \in Carried(t, s) : q[1].chunk < n
  BY <1>1, <1>2, <1>3 DEF RisingFor, Carried
<1>6. \A i \in DOMAIN q : i # 1 => i - 1 \in DOMAIN t /\ t[i - 1] = q[i]
  BY <1>1, <1>2, <1>3
<1>7. Carried(q, s) = Carried(t, s) \union (IF OutputOf(q[1], s) THEN {q[1].chunk} ELSE {})
  BY <1>1, <1>3, <1>6 DEF Carried
<1>8. QED BY <1>1, <1>2, <1>4, <1>5, <1>7 DEF t

LEMMA FramesAppend ==
  ASSUME NEW q \in Seq(Frames), NEW f \in Frames, NEW s \in Sessions, RisingFor(q, s),
         OutputOf(f, s) => \A m \in Carried(q, s) : m < f.chunk
  PROVE  /\ Append(q, f) \in Seq(Frames) /\ RisingFor(Append(q, f), s)
         /\ OutputOf(f, s) => Carried(Append(q, f), s) = Carried(q, s) \union {f.chunk}
         /\ ~OutputOf(f, s) => Carried(Append(q, f), s) = Carried(q, s)
<1> DEFINE a == Append(q, f)
<1>1. a \in Seq(Frames) /\ Len(q) \in Nat /\ DOMAIN q = 1 .. Len(q) /\ DOMAIN a = 1 .. Len(q) + 1
  OBVIOUS
<1>2. (\A i \in DOMAIN q : a[i] = q[i]) /\ a[Len(q) + 1] = f
  OBVIOUS
<1> HIDE DEF a
<1>3. RisingFor(a, s)
  BY <1>1, <1>2 DEF RisingFor, Carried
<1>4. Carried(a, s) = Carried(q, s) \union (IF OutputOf(f, s) THEN {f.chunk} ELSE {})
  BY <1>1, <1>2 DEF Carried
<1>5. QED BY <1>1, <1>3, <1>4 DEF a
-----------------------------------------------------------------------------
DaemonTypes ==
  /\ shell \in [Sessions -> {"none", "live", "dead"}] /\ out \in [Sessions -> 0 .. MaxOut]
  /\ chan \in [Sessions -> Seq(Chunks)] /\ attached \in [Sessions -> 0 .. MaxAttach]
Work == [op : {"ensure", "attach", "kill"}, session : Sessions] \union {NoWork}
RpcTypes ==
  /\ work \in Work
  /\ request \in {"none", "sent", "ok", "failed"} /\ answer \in {"none", "ok", "failed"}
WireTypes ==
  /\ wire \in Seq(Frames) /\ events \in Seq(Outputs) /\ Len(events) <= EventCap
OneRequest ==
  /\ \A i, j \in Responses : i = j
  /\ ~Busy("none") <=> (request # "none" \/ Responses # {} \/ answer # "none")
RouteTypes ==
  /\ sink \in [Sessions -> 0 .. MaxAttach] /\ pending \in [Sessions -> Seq(Chunks)]
  /\ pendingBytes \in Nat
ReaderTypes ==
  /\ count \in [Sessions -> 0 .. MaxAttach]
  /\ reader \in [Sessions -> [Readers -> {"none", "open", "dropped"}]]
  /\ base \in [Sessions -> [Readers -> 0 .. MaxOut]]
  /\ got \in [Sessions -> [Readers -> Seq(Chunks)]]
  /\ lost \in [Sessions -> SUBSET Chunks]
Capacities == (\A s \in Sessions : Len(chan[s]) <= ChanCap) /\ Len(wire) <= WireCap

LEMMA Types ==
  TypeOK <=> DaemonTypes /\ RpcTypes /\ WireTypes /\ OneRequest /\ RouteTypes /\ ReaderTypes /\ Capacities
BY DEF TypeOK, DaemonTypes, RpcTypes, WireTypes, OneRequest, RouteTypes, ReaderTypes, Capacities, Work

LEMMA TypesNext ==
  TypeOK' <=> DaemonTypes' /\ RpcTypes' /\ WireTypes' /\ OneRequest' /\ RouteTypes' /\ ReaderTypes' /\ Capacities'
BY DEF TypeOK, DaemonTypes, RpcTypes, WireTypes, OneRequest, RouteTypes, ReaderTypes, Capacities, Work

(* A sequence of chunks is one of numbers, and the parts of one.            *)
LEMMA ChunkSequence ==
  ASSUME NEW q \in Seq(Chunks)
  PROVE  /\ q \in Seq(Nat) /\ Range(q) \subseteq Chunks /\ Chunks \subseteq Nat
         /\ q # <<>> => Tail(q) \in Seq(Chunks) /\ Head(q) \in Chunks
         /\ \A n \in Chunks : Append(q, n) \in Seq(Chunks)
<1>1. Chunks \subseteq Nat
  BY DEF Chunks
<1>2. q \in Seq(Nat)
  <2>1. Len(q) \in Nat /\ DOMAIN q = 1 .. Len(q) /\ \A i \in DOMAIN q : q[i] \in Chunks
    OBVIOUS
  <2>2. q = [i \in 1 .. Len(q) |-> q[i]]
    OBVIOUS
  <2>3. QED BY <1>1, <2>1, <2>2
<1>3. Range(q) \subseteq Chunks
  BY DEF Range
<1>4. QED BY <1>1, <1>2, <1>3

LEMMA WorkShape ==
  ASSUME RpcTypes, ~Busy("none")
  PROVE  work.session \in Sessions /\ work.op \in {"ensure", "attach", "kill"}
BY DEF RpcTypes, Work, NoWork, Busy

LEMMA DaemonTypesKept ==
  ASSUME TypeOK, [Next]_vars
  PROVE  DaemonTypes'
<1>0. DaemonTypes /\ RpcTypes /\ ReaderTypes /\ MaxOut \in Nat /\ MaxAttach \in Nat
  BY Types, BoundsAssumption
<1>1. CASE UNCHANGED daemonVars
  BY <1>1, <1>0 DEF DaemonTypes, daemonVars
<1>2. ASSUME NEW s \in Sessions, Emit(s) PROVE DaemonTypes'
  <2>1. out[s] + 1 \in 0 .. MaxOut /\ out[s] + 1 \in Chunks
    <3>1. Quota[s] \in 1 .. MaxOut /\ out[s] \in Nat /\ out[s] < Quota[s]
      BY <1>2, <1>0, QuotaAssumption DEF Emit, DaemonTypes
    <3>2. QED BY <3>1, <1>0 DEF Chunks
  <2>2. Append(chan[s], out[s] + 1) \in Seq(Chunks)
    BY <2>1, <1>0 DEF DaemonTypes
  <2>3. chan' = chan \/ chan' = [chan EXCEPT ![s] = Append(chan[s], out[s] + 1)]
    BY <1>2 DEF Emit, Offer
  <2>4. chan' \in [Sessions -> Seq(Chunks)]
    BY <2>2, <2>3, <1>0 DEF DaemonTypes
  <2>5. QED BY <1>2, <1>0, <2>1, <2>4 DEF Emit, DaemonTypes
<1>3. ASSUME NEW s \in Sessions, Forward(s) PROVE DaemonTypes'
  <2>1. Tail(chan[s]) \in Seq(Chunks)
    BY <1>3, <1>0 DEF Forward, DaemonTypes
  <2>2. QED BY <1>3, <1>0, <2>1 DEF Forward, DaemonTypes
<1>4. ASSUME NEW s \in Sessions, Exit(s) PROVE DaemonTypes'
  BY <1>4, <1>0 DEF Exit, DaemonTypes
<1>5. CASE DaemonAttach
  <2>1. work.session \in Sessions
    BY <1>5, <1>0, WorkShape DEF DaemonAttach, Busy
  <2>2. count[work.session] \in 0 .. MaxAttach /\ <<>> \in Seq(Chunks)
    BY <2>1, <1>0 DEF ReaderTypes
  <2>3. QED BY <1>5, <1>0, <2>1, <2>2 DEF DaemonAttach, DaemonTypes
<1>6. CASE DaemonKill
  <2>1. 0 \in 0 .. MaxAttach /\ <<>> \in Seq(Chunks)
    BY <1>0
  <2>2. /\ out' = out /\ chan' = [chan EXCEPT ![work.session] = <<>>]
        /\ attached' = [attached EXCEPT ![work.session] = 0]
        /\ \E x \in {"live", "dead", "none"} : shell' \in {shell, [shell EXCEPT ![work.session] = x]}
    BY <1>6, <1>0 DEF DaemonKill, DaemonTypes
  <2>3. QED BY <2>1, <2>2, <1>0 DEF DaemonTypes
<1>7. QED
  BY <1>1, <1>2, <1>3, <1>4, <1>5, <1>6 DEF Next, Daemon, Shim, EnsureBegin, AttachBegin, KillBegin,
     Send, DropReader, Respond, ReadFrame, EventLoop, EnsureDone, AttachDone, KillDone, daemonVars, vars

(* Chunks and frames are added only where there is room.                    *)
LEMMA CapacitiesKept ==
  ASSUME TypeOK, [Next]_vars
  PROVE  Capacities'
<1>0. Capacities /\ DaemonTypes /\ wire \in Seq(Frames) /\ ChanCap \in Nat \ {0} /\ WireCap \in Nat \ {0}
  BY Types, BoundsAssumption DEF WireTypes
<1> DEFINE Added(f) == Len(wire) < WireCap /\ wire' = Append(wire, f)
<1>1. (\A s \in Sessions : chan[s] \in Seq(Chunks)) /\ DOMAIN chan = Sessions
  BY <1>0 DEF DaemonTypes
<1>2. ASSUME NEW s \in Sessions, NEW q \in Seq(Chunks), Len(q) <= ChanCap, chan' = [chan EXCEPT ![s] = q]
      PROVE  \A t \in Sessions : Len(chan'[t]) <= ChanCap
  BY <1>2, <1>0, <1>1 DEF Capacities
<1>3. (\E f : Added(f)) => Len(wire') <= WireCap
  <2>1. ASSUME NEW f, Added(f) PROVE Len(wire') = Len(wire) + 1 /\ Len(wire) \in Nat
    BY <2>1, <1>0
  <2>2. QED BY <2>1, <1>0
<1>4. (\E s \in Sessions : Emit(s)) => Capacities'
  <2> SUFFICES ASSUME NEW s \in Sessions, Emit(s) PROVE Capacities'
    OBVIOUS
  <2>1. wire' = wire
    BY DEF Emit
  <2>2. CASE chan' = chan
    BY <2>1, <2>2, <1>0 DEF Capacities
  <2>3. CASE Len(chan[s]) < ChanCap /\ chan' = [chan EXCEPT ![s] = Append(chan[s], out[s] + 1)]
    <3>1. out[s] + 1 \in Chunks
      <4>1. Quota[s] \in 1 .. MaxOut /\ out[s] \in Nat /\ out[s] < Quota[s] /\ MaxOut \in Nat
        BY <1>0, QuotaAssumption, BoundsAssumption DEF Emit, DaemonTypes
      <4>2. QED BY <4>1 DEF Chunks
    <3>2. Append(chan[s], out[s] + 1) \in Seq(Chunks) /\ Len(Append(chan[s], out[s] + 1)) = Len(chan[s]) + 1
      BY <3>1, <1>1
    <3>3. Len(Append(chan[s], out[s] + 1)) <= ChanCap
      BY <3>2, <2>3, <1>0, <1>1
    <3>4. QED BY <2>1, <2>3, <3>2, <3>3, <1>0, <1>2 DEF Capacities
  <2>4. QED BY <2>2, <2>3 DEF Emit, Offer
<1>5. (\E s \in Sessions : Forward(s)) => Capacities'
  <2> SUFFICES ASSUME NEW s \in Sessions, Forward(s) PROVE Capacities'
    OBVIOUS
  <2>1. chan[s] # <<>> /\ chan' = [chan EXCEPT ![s] = Tail(chan[s])] /\ \E f : Added(f)
    BY DEF Forward
  <2>2. Tail(chan[s]) \in Seq(Chunks) /\ Len(Tail(chan[s])) = Len(chan[s]) - 1 /\ Len(chan[s]) \in Nat
    BY <2>1, <1>1
  <2>3. Len(Tail(chan[s])) <= ChanCap
    BY <2>2, <1>0 DEF Capacities
  <2>4. \A t \in Sessions : Len(chan'[t]) <= ChanCap
    BY <2>1, <2>2, <2>3, <1>2
  <2>5. QED BY <2>1, <2>4, <1>3 DEF Capacities
<1>6. DaemonAttach \/ DaemonKill => Capacities'
  <2> SUFFICES ASSUME DaemonAttach \/ DaemonKill PROVE Capacities'
    OBVIOUS
  <2>1. wire' = wire /\ (chan' = chan \/ chan' = [chan EXCEPT ![work.session] = <<>>])
    BY DEF DaemonAttach, DaemonKill
  <2>2. work.session \in Sessions
    BY Types, WorkShape DEF DaemonAttach, DaemonKill, Busy
  <2>3. <<>> \in Seq(Chunks) /\ Len(<<>>) <= ChanCap
    BY <1>0
  <2>4. \A t \in Sessions : Len(chan'[t]) <= ChanCap
    BY <2>1, <2>2, <2>3, <1>2, <1>0 DEF Capacities
  <2>5. QED BY <2>1, <2>4, <1>0 DEF Capacities
<1>7. Respond => Capacities'
  <2>1. Respond => chan' = chan /\ \E f : Added(f)
    BY DEF Respond, daemonVars
  <2>2. QED BY <2>1, <1>0, <1>3 DEF Capacities
<1>8. ReadFrame => Capacities'
  <2> SUFFICES ASSUME ReadFrame PROVE Capacities'
    OBVIOUS
  <2>1. chan' = chan /\ wire # <<>> /\ wire' = Tail(wire)
    BY DEF ReadFrame, daemonVars
  <2>2. Len(wire') = Len(wire) - 1 /\ Len(wire) \in Nat
    BY <2>1, <1>0
  <2>3. QED BY <2>1, <2>2, <1>0 DEF Capacities
<1>9. CASE UNCHANGED <<chan, wire>>
  BY <1>9, <1>0 DEF Capacities
<1>10. QED
  BY <1>4, <1>5, <1>6, <1>7, <1>8, <1>9 DEF Next, Daemon, Shim, Exit, EnsureBegin, AttachBegin, KillBegin,
     Send, DropReader, EventLoop, EnsureDone, AttachDone, KillDone, daemonVars, vars

(* An output appended to the wire, a response, and a frame read from it.    *)
LEMMA WireTypesKept ==
  ASSUME TypeOK, [Next]_vars
  PROVE  WireTypes'
<1>0. WireTypes /\ DaemonTypes /\ RpcTypes
  BY Types
<1>1. CASE UNCHANGED <<wire, events>>
  BY <1>1, <1>0 DEF WireTypes
<1>2. ASSUME NEW s \in Sessions, Forward(s) PROVE WireTypes'
  <2>1. Head(chan[s]) \in Chunks
    BY <1>2, <1>0 DEF Forward, DaemonTypes
  <2>2. [kind |-> "output", session |-> s, chunk |-> Head(chan[s])] \in Frames
    BY <2>1 DEF Frames, Outputs
  <2>3. QED BY <1>2, <1>0, <2>2 DEF Forward, WireTypes
<1>3. CASE Respond
  <2>1. [kind |-> "response", result |-> request] \in Frames
    BY <1>3, <1>0 DEF Respond, Frames
  <2>2. QED BY <1>3, <1>0, <2>1 DEF Respond, WireTypes
<1>4. CASE ReadFrame
  <2>1. Head(wire) \in Frames /\ Tail(wire) \in Seq(Frames)
    BY <1>4, <1>0 DEF ReadFrame, WireTypes
  <2>2. CASE events' = events
    BY <1>4, <1>0, <2>1, <2>2 DEF ReadFrame, WireTypes
  <2>3. CASE Head(wire).kind = "output" /\ Len(events) < EventCap /\ events' = Append(events, Head(wire))
    <3>1. Head(wire) \in Outputs
      BY <2>1, <2>3 DEF Frames
    <3>2. events' \in Seq(Outputs) /\ Len(events') = Len(events) + 1
      BY <3>1, <2>3, <1>0 DEF WireTypes
    <3>3. Len(events') <= EventCap
      BY <3>2, <2>3, <1>0, BoundsAssumption DEF WireTypes
    <3>4. QED BY <1>4, <2>1, <3>2, <3>3 DEF ReadFrame, WireTypes
  <2>4. QED BY <1>4, <2>2, <2>3 DEF ReadFrame
<1>5. CASE EventLoop
  <2>1. events # <<>> /\ events' = Tail(events) /\ wire' = wire
    BY <1>5 DEF EventLoop
  <2>2. events' \in Seq(Outputs) /\ Len(events') = Len(events) - 1
    BY <2>1, <1>0 DEF WireTypes
  <2>3. QED BY <2>1, <2>2, <1>0, BoundsAssumption DEF WireTypes
<1>6. QED
  BY <1>1, <1>2, <1>3, <1>4, <1>5 DEF Next, Daemon, Shim, Emit, Exit, DaemonAttach, DaemonKill,
     EnsureBegin, AttachBegin, KillBegin, Send, DropReader, EnsureDone, AttachDone, KillDone, vars

(* A sequence saturates at nothing.                                         *)
LEMMA Saturates ==
  ASSUME NEW m \in Nat, NEW n \in Nat
  PROVE  SaturatingSub(m, n) \in Nat
BY DEF SaturatingSub

(* What a buffered chunk does to the buffer: the first chunk of any session *)
(* may leave, then the first of its own.                                    *)
LEMMA Evictions ==
  ASSUME RouteTypes, NEW p \in Evicted
  PROVE  /\ p \in [Sessions -> Seq(Chunks)]
         /\ \A t \in Sessions : p[t] = pending[t] \/ (pending[t] # <<>> /\ p[t] = Tail(pending[t]))
<1>1. CASE p = pending
  BY <1>1 DEF RouteTypes
<1>2. CASE p # pending
  <2>1. PICK u \in Sessions : pending[u] # <<>> /\ p = [pending EXCEPT ![u] = Tail(@)]
    BY <1>2 DEF Evicted
  <2>2. Tail(pending[u]) \in Seq(Chunks)
    BY <2>1 DEF RouteTypes
  <2>3. QED BY <2>1, <2>2 DEF RouteTypes
<1>3. QED BY <1>1, <1>2
LEMMA RouteTypesKept ==
  ASSUME TypeOK, Stage, [Next]_vars
  PROVE  RouteTypes'
<1>0. RouteTypes /\ WireTypes /\ RpcTypes /\ ReaderTypes /\ MaxAttach \in Nat \ {0}
  BY Types, BoundsAssumption
<1>1. CASE UNCHANGED routeVars
  BY <1>1, <1>0 DEF RouteTypes, routeVars
<1>2. CASE EventLoop
  <2> DEFINE s == Head(events).session
             n == Head(events).chunk
  <2>1. s \in Sessions /\ n \in Chunks
    <3>1. Head(events) \in Outputs
      BY <1>2, <1>0 DEF EventLoop, WireTypes
    <3>2. QED BY <3>1 DEF Outputs
  <2> HIDE DEF s, n
  <2>2. CASE sink[s] # 0 /\ ToSink(s, n)
    <3>1. (sink' = sink \/ sink' = [sink EXCEPT ![s] = 0]) /\ UNCHANGED <<pending, pendingBytes>>
      BY <2>2 DEF ToSink
    <3>2. 0 \in 0 .. MaxAttach
      BY <1>0
    <3>3. QED BY <2>1, <3>1, <3>2, <1>0 DEF RouteTypes
  <2>3. CASE ToPending(s, n)
    <3>1. PICK p \in Evicted :
            LET full == Len(p[s]) >= ChunkLimit
                kept == IF full THEN Tail(p[s]) ELSE p[s]
                left == SaturatingSub(pendingBytes, IF p = pending THEN 0 ELSE 1) IN
            /\ pending' = [p EXCEPT ![s] = Append(kept, n)]
            /\ pendingBytes' = SaturatingSub(left, IF full THEN 1 ELSE 0) + 1
            /\ UNCHANGED sink
      BY <2>3 DEF ToPending
    <3>2. p \in [Sessions -> Seq(Chunks)]
      BY <1>0, Evictions
    <3> DEFINE kept == IF Len(p[s]) >= ChunkLimit THEN Tail(p[s]) ELSE p[s]
    <3>3. kept \in Seq(Chunks)
      <4>1. p[s] \in Seq(Chunks) /\ Len(p[s]) \in Nat /\ (p[s] = <<>> => Len(p[s]) = 0) /\ ChunkLimit >= 1
        BY <2>1, <3>2, BoundsAssumption
      <4>2. QED BY <4>1, BoundsAssumption
    <3>4. Append(kept, n) \in Seq(Chunks)
      BY <3>3, <2>1
    <3>5. pending' \in [Sessions -> Seq(Chunks)]
      BY <3>1, <3>2, <3>4
    <3>6. pendingBytes' \in Nat
      <4>1. SaturatingSub(pendingBytes, IF p = pending THEN 0 ELSE 1) \in Nat
        BY <1>0, Saturates DEF RouteTypes
      <4>2. SaturatingSub(SaturatingSub(pendingBytes, IF p = pending THEN 0 ELSE 1),
                          IF Len(p[s]) >= ChunkLimit THEN 1 ELSE 0) \in Nat
        BY <4>1, Saturates
      <4>3. QED BY <3>1, <4>2
    <3>7. QED BY <3>1, <3>5, <3>6, <1>0 DEF RouteTypes
  <2>4. QED BY <1>2, <2>2, <2>3 DEF EventLoop, s, n
<1>3. ASSUME NEW s \in Sessions, NEW k \in {0} \union Readers,
             pending' = [pending EXCEPT ![s] = <<>>],
             pendingBytes' = SaturatingSub(pendingBytes, Len(pending[s])),
             sink' = [sink EXCEPT ![s] = k]
      PROVE  RouteTypes'
  <2>1. pendingBytes' \in Nat
    <3>1. Len(pending[s]) \in Nat
      BY <1>0 DEF RouteTypes
    <3>2. QED BY <1>3, <3>1, <1>0, Saturates DEF RouteTypes
  <2>2. k \in 0 .. MaxAttach /\ <<>> \in Seq(Chunks)
    BY <1>0 DEF Readers
  <2>3. QED BY <1>3, <2>1, <2>2, <1>0 DEF RouteTypes
<1>4. ASSUME NEW s \in Sessions, RemoveRoute(s) PROVE RouteTypes'
  BY <1>4, <1>3 DEF RemoveRoute
<1>5. CASE EnsureDone
  <2>1. work.session \in Sessions /\ count[work.session] \in Readers
    BY <1>5, <1>0, WorkShape DEF EnsureDone, Busy, Stage
  <2>2. CASE Install(work.session, count[work.session])
    BY <2>1, <2>2, <1>3 DEF Install
  <2>3. QED BY <1>5, <2>2, <1>1 DEF EnsureDone
<1>6. CASE AttachDone
  <2>1. work.session \in Sessions
    BY <1>6, <1>0, WorkShape DEF AttachDone, Busy
  <2>2. QED BY <1>6, <2>1, <1>1, <1>4 DEF AttachDone, routeVars
<1>7. ASSUME NEW s \in Sessions, AttachBegin(s) PROVE RouteTypes'
  <2>1. count[s] + 1 \in Readers
    BY <1>7, <1>0 DEF AttachBegin, NewReader, ReaderTypes, Readers
  <2>2. QED BY <1>7, <2>1, <1>3 DEF AttachBegin
<1>8. ASSUME NEW s \in Sessions, KillBegin(s) PROVE RouteTypes'
  BY <1>8, <1>4 DEF KillBegin
<1>9. QED
  BY <1>1, <1>2, <1>5, <1>6, <1>7, <1>8 DEF Next, Daemon, Shim, Emit, Exit, EnsureBegin, Forward,
     DaemonAttach, DaemonKill, Respond, ReadFrame, DropReader, KillDone, routeVars, vars

(* A table of a value per session and reader with one value replaced.       *)
LEMMA OneCell ==
  ASSUME NEW D, NEW f \in [Sessions -> [Readers -> D]], NEW s \in Sessions, NEW k \in Readers, NEW v \in D
  PROVE  /\ [f EXCEPT ![s][k] = v] \in [Sessions -> [Readers -> D]]
         /\ [f EXCEPT ![s][k] = v][s][k] = v
         /\ \A t \in Sessions, l \in Readers :
              <<t, l>> # <<s, k>> => [f EXCEPT ![s][k] = v][t][l] = f[t][l]
<1>1. f[s] \in [Readers -> D]
  OBVIOUS
<1>2. [f[s] EXCEPT ![k] = v] \in [Readers -> D]
  BY <1>1
<1>3. QED BY <1>1, <1>2

LEMMA ReaderTypesKept ==
  ASSUME TypeOK, Stage, [Next]_vars
  PROVE  ReaderTypes'
<1>0. /\ RouteTypes /\ WireTypes /\ RpcTypes /\ ReaderTypes /\ DaemonTypes
      /\ MaxAttach \in Nat \ {0} /\ MaxOut \in Nat
  BY Types, BoundsAssumption
<1>1. CASE UNCHANGED <<readerVars, lost>>
  BY <1>1, <1>0 DEF ReaderTypes, readerVars
<1>2. CASE DaemonAttach
  <2>1. work.session \in Sessions
    BY <1>2, <1>0, WorkShape DEF DaemonAttach, Busy
  <2>2. out[work.session] \in 0 .. MaxOut
    BY <2>1, <1>0 DEF DaemonTypes
  <2>3. base' = base \/ base' = [base EXCEPT ![work.session][count[work.session]] = out[work.session]]
    BY <1>2 DEF DaemonAttach
  <2>4. base' \in [Sessions -> [Readers -> 0 .. MaxOut]]
    <3>1. count[work.session] \in Readers
      BY <1>2 DEF DaemonAttach, Stage, Busy
    <3>2. base \in [Sessions -> [Readers -> 0 .. MaxOut]]
      BY <1>0 DEF ReaderTypes
    <3>3. [base EXCEPT ![work.session][count[work.session]] = out[work.session]]
            \in [Sessions -> [Readers -> 0 .. MaxOut]]
      BY <2>1, <2>2, <3>1, <3>2, OneCell
    <3>4. QED BY <2>3, <3>2, <3>3
  <2>5. QED BY <1>2, <2>4, <1>0 DEF DaemonAttach, ReaderTypes
<1>3. CASE EventLoop
  <2> DEFINE s == Head(events).session
             n == Head(events).chunk
  <2>1. s \in Sessions /\ n \in Chunks
    <3>1. Head(events) \in Outputs
      BY <1>3, <1>0 DEF EventLoop, WireTypes
    <3>2. QED BY <3>1 DEF Outputs
  <2> HIDE DEF s, n
  <2>2. UNCHANGED <<count, reader, base>>
    BY <1>3 DEF EventLoop
  <2>3. CASE sink[s] # 0 /\ ToSink(s, n)
    <3>1. sink[s] \in Readers
      BY <2>1, <2>3, <1>0 DEF RouteTypes, Readers
    <3>2. Append(got[s][sink[s]], n) \in Seq(Chunks)
      BY <2>1, <3>1, <1>0 DEF ReaderTypes
    <3>3. got' = got \/ got' = [got EXCEPT ![s][sink[s]] = Append(got[s][sink[s]], n)]
      BY <2>3 DEF ToSink
    <3>4. got' \in [Sessions -> [Readers -> Seq(Chunks)]]
      <4>1. got \in [Sessions -> [Readers -> Seq(Chunks)]]
        BY <1>0 DEF ReaderTypes
      <4>2. [got EXCEPT ![s][sink[s]] = Append(got[s][sink[s]], n)] \in [Sessions -> [Readers -> Seq(Chunks)]]
        BY <2>1, <3>1, <3>2, <4>1, OneCell
      <4>3. QED BY <3>3, <4>1, <4>2
    <3>5. QED BY <2>2, <2>3, <3>4, <1>0 DEF ToSink, ReaderTypes
  <2>4. CASE ToPending(s, n)
    <3>1. got' = got
      BY <2>4 DEF ToPending
    <3>2. lost' \in [Sessions -> SUBSET Chunks]
      <4>1. PICK L \in [Sessions -> SUBSET Chunks] : lost' = [t \in Sessions |-> lost[t] \union L[t]]
        <5>1. PICK p \in Evicted :
                LET kept == IF Len(p[s]) >= ChunkLimit THEN Tail(p[s]) ELSE p[s] IN
                lost' = [t \in Sessions |-> lost[t] \union
                           (Range(pending[t]) \ (IF t = s THEN Range(kept) ELSE Range(p[t])))]
          BY <2>4 DEF ToPending
        <5> DEFINE kept == IF Len(p[s]) >= ChunkLimit THEN Tail(p[s]) ELSE p[s]
                   L == [t \in Sessions |-> Range(pending[t]) \ (IF t = s THEN Range(kept) ELSE Range(p[t]))]
        <5>2. \A t \in Sessions : Range(pending[t]) \subseteq Chunks
          BY <1>0, ChunkSequence DEF RouteTypes
        <5>3. L \in [Sessions -> SUBSET Chunks]
          BY <5>2
        <5>4. lost' = [t \in Sessions |-> lost[t] \union L[t]]
          BY <5>1
        <5>5. QED BY <5>3, <5>4
      <4>2. QED BY <4>1, <1>0 DEF ReaderTypes
    <3>3. QED BY <2>2, <3>1, <3>2, <1>0 DEF ReaderTypes
  <2>5. QED BY <1>3, <2>3, <2>4 DEF EventLoop, s, n
<1>4. CASE EnsureDone
  <2>1. work.session \in Sessions /\ count[work.session] \in Readers
    BY <1>4, <1>0, WorkShape DEF EnsureDone, Busy, Stage
  <2>2. got[work.session][count[work.session]] \o pending[work.session] \in Seq(Chunks)
    BY <2>1, <1>0 DEF ReaderTypes, RouteTypes
  <2>3. UNCHANGED <<count, base, lost>>
    BY <1>4 DEF EnsureDone
  <2>4. CASE Install(work.session, count[work.session]) /\ UNCHANGED reader
    <3> DEFINE s == work.session
               k == count[s]
    <3>1. got' = got \/ got' = [got EXCEPT ![s][k] = got[s][k] \o pending[s]]
      BY <2>4 DEF Install
    <3>2. got' \in [Sessions -> [Readers -> Seq(Chunks)]]
      <4>1. got \in [Sessions -> [Readers -> Seq(Chunks)]]
        BY <1>0 DEF ReaderTypes
      <4>2. [got EXCEPT ![s][k] = got[s][k] \o pending[s]] \in [Sessions -> [Readers -> Seq(Chunks)]]
        BY <2>1, <2>2, <4>1, OneCell
      <4>3. QED BY <3>1, <4>1, <4>2
    <3>3. QED BY <2>3, <2>4, <3>2, <1>0 DEF ReaderTypes
  <2>5. CASE UNCHANGED got /\ reader' = [reader EXCEPT ![work.session][count[work.session]] = "dropped"]
    <3>1. reader' \in [Sessions -> [Readers -> {"none", "open", "dropped"}]]
      BY <2>1, <2>5, <1>0, OneCell DEF ReaderTypes
    <3>2. QED BY <2>3, <2>5, <3>1, <1>0 DEF ReaderTypes
  <2>6. QED BY <1>4, <2>4, <2>5 DEF EnsureDone
<1>5. CASE AttachDone
  <2>1. work.session \in Sessions /\ count[work.session] \in Readers
    BY <1>5, <1>0, WorkShape DEF AttachDone, Busy, Stage
  <2>2. UNCHANGED <<count, base, got, lost>>
    BY <1>5 DEF AttachDone
  <2>3. reader' = reader \/ reader' = [reader EXCEPT ![work.session][count[work.session]] = "dropped"]
    BY <1>5 DEF AttachDone
  <2>4. reader' \in [Sessions -> [Readers -> {"none", "open", "dropped"}]]
    <3>1. reader \in [Sessions -> [Readers -> {"none", "open", "dropped"}]]
      BY <1>0 DEF ReaderTypes
    <3>2. [reader EXCEPT ![work.session][count[work.session]] = "dropped"]
            \in [Sessions -> [Readers -> {"none", "open", "dropped"}]]
      BY <2>1, <3>1, OneCell
    <3>3. QED BY <2>3, <3>1, <3>2
  <2>5. QED BY <2>2, <2>4, <1>0 DEF ReaderTypes
<1>6. ASSUME NEW s \in Sessions, AttachBegin(s) PROVE ReaderTypes'
  <2>1. count[s] + 1 \in Readers
    BY <1>6, <1>0 DEF AttachBegin, NewReader, ReaderTypes, Readers
  <2>2. count' \in [Sessions -> 0 .. MaxAttach]
    BY <1>6, <2>1, <1>0 DEF AttachBegin, NewReader, ReaderTypes, Readers
  <2>3. pending[s] \in Seq(Chunks) /\ UNCHANGED <<base, lost>>
    BY <1>6, <1>0 DEF AttachBegin, Send, RouteTypes
  <2>4. QED BY <1>6, <2>1, <2>2, <2>3, <1>0 DEF AttachBegin, ReaderTypes
<1>7. ASSUME NEW s \in Sessions, EnsureBegin(s) PROVE ReaderTypes'
  <2>1. count[s] + 1 \in Readers
    BY <1>7, <1>0 DEF EnsureBegin, NewReader, ReaderTypes, Readers
  <2>2. count' \in [Sessions -> 0 .. MaxAttach]
    BY <1>7, <2>1, <1>0 DEF EnsureBegin, NewReader, ReaderTypes, Readers
  <2>3. QED BY <1>7, <2>1, <2>2, <1>0 DEF EnsureBegin, Send, ReaderTypes
<1>8. ASSUME NEW s \in Sessions, NEW k \in Readers, DropReader(s, k) PROVE ReaderTypes'
  BY <1>8, <1>0 DEF DropReader, ReaderTypes
<1>9. ASSUME NEW s \in Sessions, Emit(s) PROVE ReaderTypes'
  <2>1. out[s] + 1 \in Chunks
    <3>1. Quota[s] \in 1 .. MaxOut /\ out[s] \in Nat /\ out[s] < Quota[s]
      BY <1>9, <1>0, QuotaAssumption DEF Emit, DaemonTypes
    <3>2. QED BY <3>1, <1>0 DEF Chunks
  <2>2. lost' = lost \/ lost' = [lost EXCEPT ![s] = @ \union {out[s] + 1}]
    BY <1>9 DEF Emit, Offer
  <2>3. lost' \in [Sessions -> SUBSET Chunks]
    BY <2>1, <2>2, <1>0 DEF ReaderTypes
  <2>4. QED BY <1>9, <2>3, <1>0 DEF Emit, ReaderTypes, readerVars
<1>10. QED
  BY <1>1, <1>2, <1>3, <1>4, <1>5, <1>6, <1>7, <1>8, <1>9 DEF Next, Daemon, Shim, Exit, KillBegin, Send,
     Forward, DaemonKill, Respond, ReadFrame, KillDone, readerVars, vars
-----------------------------------------------------------------------------
(* The responses on the wire, after a frame is added and after one is read. *)
LEMMA ResponsesAppend ==
  ASSUME wire \in Seq(Frames), NEW f, wire' = Append(wire, f)
  PROVE  Responses' = Responses \union (IF f.kind = "response" THEN {Len(wire) + 1} ELSE {})
<1>1. DOMAIN wire = 1 .. Len(wire) /\ DOMAIN wire' = DOMAIN wire \union {Len(wire) + 1} /\ Len(wire) \in Nat
  OBVIOUS
<1>2. (\A i \in DOMAIN wire : wire'[i] = wire[i]) /\ wire'[Len(wire) + 1] = f
  OBVIOUS
<1>3. QED BY <1>1, <1>2 DEF Responses

LEMMA ResponsesTail ==
  ASSUME wire \in Seq(Frames), wire # <<>>, wire' = Tail(wire), \A i, j \in Responses : i = j
  PROVE  /\ \A i, j \in Responses' : i = j
         /\ Head(wire).kind = "response" => Responses # {} /\ Responses' = {}
         /\ Head(wire).kind # "response" => (Responses' = {} <=> Responses = {})
<1>1. Len(wire) \in Nat /\ Len(wire) >= 1 /\ DOMAIN wire = 1 .. Len(wire) /\ Head(wire) = wire[1]
  OBVIOUS
<1>2. DOMAIN wire' = 1 .. Len(wire) - 1 /\ \A i \in 1 .. Len(wire) - 1 : wire'[i] = wire[i + 1]
  BY <1>1
<1>3. \A i \in Responses' : i \in 1 .. Len(wire) - 1 /\ i + 1 \in Responses
  BY <1>1, <1>2 DEF Responses
<1>4. \A i \in Responses : i = 1 \/ i - 1 \in Responses'
  BY <1>1, <1>2 DEF Responses
<1>5. ASSUME NEW i \in Responses', NEW j \in Responses' PROVE i = j
  <2>1. i + 1 = j + 1 /\ i \in Nat /\ j \in Nat
    BY <1>3, <1>1
  <2>2. QED BY <2>1
<1>6. Head(wire).kind = "response" <=> 1 \in Responses
  BY <1>1 DEF Responses
<1>7. ASSUME 1 \in Responses PROVE Responses' = {}
  <2>1. SUFFICES ASSUME NEW i \in Responses' PROVE FALSE
    OBVIOUS
  <2>2. i + 1 = 1 /\ i \in 1 .. Len(wire) - 1
    BY <1>3, <1>7
  <2>3. QED BY <2>2, <1>1
<1>8. ASSUME 1 \notin Responses PROVE Responses' = {} <=> Responses = {}
  BY <1>3, <1>4, <1>8
<1>9. QED BY <1>5, <1>6, <1>7, <1>8

(* ... and so the request is always in one place.                           *)
LEMMA RpcKept ==
  ASSUME TypeOK, Stage, Drained, [Next]_vars
  PROVE  RpcTypes' /\ OneRequest' /\ Stage'
<1>0. /\ WireTypes /\ RpcTypes /\ OneRequest /\ ReaderTypes /\ RouteTypes /\ DaemonTypes
      /\ MaxAttach \in Nat \ {0} /\ wire \in Seq(Frames)
  BY Types, BoundsAssumption DEF WireTypes
<1>1. ASSUME UNCHANGED <<work, request, answer>>,
             Responses' = {} <=> Responses = {}, \A i, j \in Responses' : i = j,
             ~Busy("none") => count'[work.session] = count[work.session],
             Busy("kill") => sink'[work.session] = 0
      PROVE  RpcTypes' /\ OneRequest' /\ Stage'
  BY <1>1, <1>0 DEF RpcTypes, Work, OneRequest, Stage, Busy, Readers
<1>2. ASSUME UNCHANGED <<work, request, answer, wire, count>>, Busy("kill") => sink'[work.session] = 0
      PROVE  RpcTypes' /\ OneRequest' /\ Stage'
  <2>1. Responses' = Responses
    BY <1>2 DEF Responses
  <2>2. QED BY <1>1, <1>2, <2>1, <1>0 DEF OneRequest
<1>3. CASE UNCHANGED <<rpcVars, wire, count, sink>>
  BY <1>3, <1>2 DEF rpcVars, Stage
<1>4. ASSUME NEW s \in Sessions, Forward(s) PROVE RpcTypes' /\ OneRequest' /\ Stage'
  <2>1. Responses' = Responses
    <3>1. PICK f : f.kind = "output" /\ wire' = Append(wire, f)
      BY <1>4 DEF Forward
    <3>2. QED BY <3>1, <1>0, ResponsesAppend
  <2>2. QED BY <1>4, <2>1, <1>1, <1>0 DEF Forward, rpcVars, routeVars, readerVars, OneRequest, Stage
<1>5. CASE EventLoop
  <2>1. UNCHANGED <<work, request, answer, wire, count>>
    BY <1>5 DEF EventLoop, rpcVars
  <2>2. ASSUME NEW t \in Sessions, sink[t] = 0 PROVE sink'[t] = 0
    BY <1>5, <1>0, <2>2 DEF EventLoop, ToSink, ToPending, RouteTypes
  <2>3. Busy("kill") => sink'[work.session] = 0
    BY <2>2, <1>0, WorkShape DEF Stage, Busy
  <2>4. QED BY <2>1, <2>3, <1>2
<1>6. CASE ReadFrame
  <2>1. UNCHANGED <<work, request, count, sink>> /\ wire # <<>> /\ wire' = Tail(wire)
    BY <1>6 DEF ReadFrame, routeVars, readerVars
  <2>2. /\ \A i, j \in Responses' : i = j
        /\ Head(wire).kind = "response" => Responses # {} /\ Responses' = {}
        /\ Head(wire).kind # "response" => (Responses' = {} <=> Responses = {})
    BY <2>1, <1>0, ResponsesTail DEF OneRequest
  <2>3. CASE Head(wire).kind = "output" /\ answer' = answer
    BY <2>1, <2>2, <2>3, <1>1 DEF Stage
  <2>4. CASE Head(wire).kind = "response" /\ answer' = Head(wire).result
    <3>1. answer' \in {"ok", "failed"}
      <4>1. Head(wire) \in Frames
        BY <2>1, <1>0
      <4>2. QED BY <4>1, <2>4 DEF Frames, Outputs
    <3>2. Responses # {} /\ Responses' = {} /\ request = "none" /\ answer = "none"
      BY <2>2, <2>4, <1>0 DEF Stage, RpcTypes
    <3>3. RpcTypes'
      BY <2>1, <3>1, <1>0 DEF RpcTypes, Work
    <3>4. OneRequest'
      BY <2>1, <2>2, <3>1, <3>2, <1>0 DEF OneRequest, Busy
    <3>5. Stage'
      BY <2>1, <3>2 DEF Stage, Busy, Readers
    <3>6. QED BY <3>3, <3>4, <3>5
  <2>5. QED BY <1>6, <2>3, <2>4 DEF ReadFrame
<1>7. CASE Respond
  <2>1. Responses = {} /\ answer = "none" /\ request \in {"ok", "failed"}
    BY <1>7 DEF Respond, Stage
  <2>2. Responses' = {Len(wire) + 1}
    BY <1>7, <2>1, <1>0, ResponsesAppend DEF Respond
  <2>3. request' = "none" /\ UNCHANGED <<work, answer, count, sink>>
    BY <1>7 DEF Respond, routeVars, readerVars
  <2>4. QED BY <2>1, <2>2, <2>3, <1>0 DEF RpcTypes, Work, OneRequest, Stage, Busy, Readers
<1>8. CASE DaemonAttach \/ DaemonKill
  <2>1. /\ request = "sent" /\ request' \in {"ok", "failed"}
        /\ UNCHANGED <<work, answer, wire, count, sink>>
    BY <1>8 DEF DaemonAttach, DaemonKill, routeVars, readerVars
  <2>2. Responses' = Responses
    BY <2>1 DEF Responses
  <2>3. QED BY <2>1, <2>2, <1>0 DEF RpcTypes, Work, OneRequest, Stage, Busy, Readers
<1>9. CASE Shim
  <2>1. answer # "none" /\ work' = NoWork /\ answer' = "none" /\ UNCHANGED <<request, wire>>
    BY <1>9 DEF Shim, EnsureDone, AttachDone, KillDone
  <2>2. Responses' = Responses
    BY <2>1 DEF Responses
  <2>3. request = "none" /\ Responses = {}
    BY <2>1, <1>0 DEF Stage, RpcTypes
  <2>4. QED BY <2>1, <2>2, <2>3, <1>0 DEF RpcTypes, Work, NoWork, OneRequest, Stage, Busy
<1>10. ASSUME NEW s \in Sessions, NEW op \in {"ensure", "attach", "kill"}, Busy("none"), Send(op, s),
              op # "kill" => count'[s] \in Readers, op = "kill" => sink'[s] = 0
       PROVE  RpcTypes' /\ OneRequest' /\ Stage'
  <2>1. request = "none" /\ answer = "none" /\ Responses = {}
    BY <1>10, <1>0 DEF OneRequest
  <2>2. work' = [op |-> op, session |-> s] /\ request' = "sent" /\ UNCHANGED <<answer, wire>>
    BY <1>10 DEF Send
  <2>3. Responses' = Responses
    BY <2>2 DEF Responses
  <2>4. QED BY <1>10, <2>1, <2>2, <2>3, <1>0 DEF RpcTypes, Work, OneRequest, Stage, Busy, Readers
<1>11. ASSUME NEW s \in Sessions, EnsureBegin(s) \/ AttachBegin(s) PROVE RpcTypes' /\ OneRequest' /\ Stage'
  <2>1. count'[s] \in Readers
    BY <1>11, <1>0 DEF EnsureBegin, AttachBegin, NewReader, ReaderTypes, Readers
  <2>2. QED BY <2>1, <1>10, <1>11 DEF EnsureBegin, AttachBegin
<1>12. ASSUME NEW s \in Sessions, KillBegin(s) PROVE RpcTypes' /\ OneRequest' /\ Stage'
  <2>1. sink'[s] = 0
    BY <1>12, <1>0 DEF KillBegin, RemoveRoute, RouteTypes
  <2>2. QED BY <2>1, <1>10, <1>12 DEF KillBegin
<1>13. QED
  BY <1>3, <1>4, <1>5, <1>6, <1>7, <1>8, <1>9, <1>11, <1>12 DEF Next, Daemon, Emit, Exit, DropReader,
     rpcVars, routeVars, readerVars, vars

LEMMA DrainedKept ==
  ASSUME TypeOK, Stage, Drained, [Next]_vars
  PROVE  Drained'
<1>0. /\ WireTypes /\ RpcTypes /\ ReaderTypes /\ RouteTypes /\ DaemonTypes
      /\ MaxAttach \in Nat \ {0}
  BY Types, BoundsAssumption
<1>1. ASSUME UNCHANGED <<sink, pending, attached>>, \A s \in Sessions : count'[s] >= count[s] /\ count'[s] \in Nat
      PROVE  Drained'
  BY <1>1, <1>0 DEF Drained, ReaderTypes, RouteTypes, DaemonTypes
<1>2. CASE UNCHANGED <<sink, pending, attached, count>>
  BY <1>2 DEF Drained
<1>3. CASE DaemonAttach
  <2>1. work.session \in Sessions
    BY <1>3, <1>0, WorkShape DEF DaemonAttach, Busy
  <2>2. UNCHANGED <<sink, pending, count>>
    BY <1>3 DEF DaemonAttach, routeVars
  <2>3. attached' = attached \/ attached' = [attached EXCEPT ![work.session] = count[work.session]]
    BY <1>3 DEF DaemonAttach
  <2>4. ASSUME NEW t \in Sessions PROVE attached'[t] <= count[t]
    <3>1. attached'[t] \in {attached[t], count[t]}
      BY <2>1, <2>3, <1>0 DEF DaemonTypes
    <3>2. QED BY <3>1, <1>0 DEF Drained, ReaderTypes
  <2>5. QED BY <2>2, <2>4 DEF Drained
<1>4. CASE DaemonKill
  <2>1. UNCHANGED <<sink, pending, count>> /\ attached' = [attached EXCEPT ![work.session] = 0]
    BY <1>4 DEF DaemonKill, routeVars, readerVars
  <2>2. QED BY <2>1, <1>0 DEF Drained, DaemonTypes, ReaderTypes
<1>5. CASE EventLoop
  <2> DEFINE s == Head(events).session
             n == Head(events).chunk
  <2>1. s \in Sessions /\ n \in Chunks
    <3>1. Head(events) \in Outputs
      BY <1>5, <1>0 DEF EventLoop, WireTypes
    <3>2. QED BY <3>1 DEF Outputs
  <2> HIDE DEF s, n
  <2>2. UNCHANGED <<count, attached>>
    BY <1>5 DEF EventLoop, daemonVars
  <2>3. CASE sink[s] # 0 /\ ToSink(s, n)
    <3>1. UNCHANGED pending /\ sink' \in {sink, [sink EXCEPT ![s] = 0]}
      BY <2>3 DEF ToSink
    <3>2. QED BY <2>2, <3>1, <1>0 DEF Drained, RouteTypes, ReaderTypes
  <2>4. CASE sink[s] = 0 /\ ToPending(s, n)
    <3>1. PICK p \in Evicted : (\E q : pending' = [p EXCEPT ![s] = q]) /\ UNCHANGED sink
      BY <2>4 DEF ToPending
    <3>2. ASSUME NEW t \in Sessions, sink[t] # 0 PROVE pending'[t] = <<>>
      <4>1. pending[t] = <<>> /\ t # s
        BY <3>2, <2>4 DEF Drained
      <4>2. p \in [Sessions -> Seq(Chunks)] /\ p[t] = <<>>
        BY <4>1, <1>0, Evictions
      <4>3. QED BY <3>1, <4>1, <4>2
    <3>3. QED BY <2>2, <3>1, <3>2 DEF Drained
  <2>5. QED BY <1>5, <2>3, <2>4 DEF EventLoop, s, n
<1>6. ASSUME NEW s \in Sessions, pending' = [pending EXCEPT ![s] = <<>>], UNCHANGED attached,
             \A t \in Sessions : count'[t] >= count[t] /\ count'[t] \in Nat,
             NEW k \in Nat, k <= count'[s], sink' = [sink EXCEPT ![s] = k]
      PROVE  Drained'
  <2>1. ASSUME NEW t \in Sessions
        PROVE  sink'[t] <= count'[t] /\ attached'[t] <= count'[t] /\ (sink'[t] # 0 => pending'[t] = <<>>)
    <3>1. CASE t = s
      BY <3>1, <1>6, <1>0 DEF Drained, RouteTypes, ReaderTypes, DaemonTypes
    <3>2. CASE t # s
      BY <3>2, <1>6, <1>0 DEF Drained, RouteTypes, ReaderTypes, DaemonTypes
    <3>3. QED BY <3>1, <3>2
  <2>2. QED BY <2>1 DEF Drained
<1>7. ASSUME NEW s \in Sessions, RemoveRoute(s), UNCHANGED <<attached, count>> PROVE Drained'
  <2>1. pending' = [pending EXCEPT ![s] = <<>>] /\ sink' = [sink EXCEPT ![s] = 0]
    BY <1>7 DEF RemoveRoute
  <2>2. \A t \in Sessions : count'[t] >= count[t] /\ count'[t] \in Nat /\ 0 <= count'[t]
    BY <1>7, <1>0 DEF ReaderTypes
  <2>3. QED BY <1>6, <1>7, <2>1, <2>2
<1>8. CASE EnsureDone
  <2>1. work.session \in Sessions /\ count[work.session] \in Nat /\ UNCHANGED <<attached, count>>
    BY <1>8, <1>0, WorkShape DEF EnsureDone, Busy, daemonVars, ReaderTypes
  <2>2. CASE Install(work.session, count[work.session])
    <3>1. \A t \in Sessions : count'[t] >= count[t] /\ count'[t] \in Nat /\ 0 <= count'[t]
      BY <2>1, <1>0 DEF ReaderTypes
    <3>2. PICK k \in {0, count[work.session]} : sink' = [sink EXCEPT ![work.session] = k]
      BY <2>2 DEF Install
    <3>3. k \in Nat /\ k <= count'[work.session]
      BY <2>1, <3>1, <3>2
    <3>4. pending' = [pending EXCEPT ![work.session] = <<>>]
      BY <2>2 DEF Install
    <3>5. QED BY <1>6, <2>1, <3>1, <3>2, <3>3, <3>4
  <2>3. QED BY <1>8, <2>1, <2>2, <1>2 DEF EnsureDone, routeVars
<1>9. CASE AttachDone
  <2>1. work.session \in Sessions /\ UNCHANGED <<attached, count>>
    BY <1>9, <1>0, WorkShape DEF AttachDone, Busy, daemonVars
  <2>2. QED BY <1>9, <2>1, <1>2, <1>7 DEF AttachDone, routeVars
<1>10. ASSUME NEW s \in Sessions, EnsureBegin(s) PROVE Drained'
  <2>1. UNCHANGED <<sink, pending, attached>> /\ count' = [count EXCEPT ![s] = @ + 1]
    BY <1>10 DEF EnsureBegin, NewReader, Send, routeVars, daemonVars
  <2>2. QED BY <2>1, <1>1, <1>0 DEF ReaderTypes
<1>11. ASSUME NEW s \in Sessions, AttachBegin(s) PROVE Drained'
  <2>1. /\ pending' = [pending EXCEPT ![s] = <<>>] /\ UNCHANGED attached
        /\ sink' = [sink EXCEPT ![s] = count[s] + 1] /\ count' = [count EXCEPT ![s] = count[s] + 1]
    BY <1>11 DEF AttachBegin, NewReader, Send, daemonVars
  <2>2. \A t \in Sessions : count'[t] >= count[t] /\ count'[t] \in Nat
    BY <2>1, <1>0 DEF ReaderTypes
  <2>3. count[s] + 1 \in Nat /\ count[s] + 1 <= count'[s]
    BY <2>1, <1>0 DEF ReaderTypes
  <2>4. QED BY <2>1, <2>2, <2>3, <1>6
<1>12. ASSUME NEW s \in Sessions, KillBegin(s) PROVE Drained'
  BY <1>12, <1>7 DEF KillBegin, Send, daemonVars
<1>13. QED
  BY <1>2, <1>3, <1>4, <1>5, <1>8, <1>9, <1>10, <1>11, <1>12 DEF Next, Daemon, Shim, Emit, Exit,
     Forward, Respond, ReadFrame, KillDone, DropReader, daemonVars, routeVars, readerVars, vars
-----------------------------------------------------------------------------
(* What the parts of the path of a session are.                             *)
LEMMA PathTypes ==
  ASSUME TypeOK, NEW s \in Sessions
  PROVE  /\ got[s][1] \in Seq(Chunks) /\ pending[s] \in Seq(Chunks) /\ chan[s] \in Seq(Chunks)
         /\ got[s][1] \in Seq(Nat) /\ pending[s] \in Seq(Nat) /\ chan[s] \in Seq(Nat)
         /\ events \in Seq(Frames) /\ wire \in Seq(Frames)
         /\ Known(s) \subseteq Nat /\ out[s] \in Nat /\ base[s][1] \in Nat
         /\ count[s] \in Nat /\ 1 \in Readers
<1>0. DaemonTypes /\ WireTypes /\ RouteTypes /\ ReaderTypes
  BY Types
<1>1. 1 \in Readers
  BY BoundsAssumption DEF Readers
<1>2. got[s][1] \in Seq(Chunks) /\ pending[s] \in Seq(Chunks) /\ chan[s] \in Seq(Chunks)
  BY <1>0, <1>1 DEF DaemonTypes, RouteTypes, ReaderTypes
<1>3. wire \in Seq(Frames) /\ events \in Seq(Frames)
  <2>1. Outputs \subseteq Frames /\ events \in Seq(Outputs)
    BY <1>0 DEF Frames, WireTypes
  <2>2. Len(events) \in Nat /\ \A i \in 1 .. Len(events) : events[i] \in Frames
    BY <2>1
  <2>3. events = [i \in 1 .. Len(events) |-> events[i]]
    BY <2>1
  <2>4. QED BY <2>2, <2>3, <1>0 DEF WireTypes
<1>4. ASSUME NEW q \in Seq(Frames) PROVE Carried(q, s) \subseteq Nat
  <2>1. ASSUME NEW i \in DOMAIN q, OutputOf(q[i], s) PROVE q[i].chunk \in Nat
    BY <2>1 DEF OutputOf, Frames, Outputs, Chunks
  <2>2. QED BY <2>1 DEF Carried
<1>5. Known(s) \subseteq Nat
  <2>1. Got(s) \subseteq Nat /\ Buffered(s) \subseteq Nat /\ Ahead(s) \subseteq Nat
    BY <1>2, ChunkSequence DEF Got, Buffered, Ahead
  <2>2. Queued(s) \subseteq Nat /\ OnWire(s) \subseteq Nat
    BY <1>3, <1>4 DEF Queued, OnWire
  <2>3. QED BY <2>1, <2>2 DEF Known
<1>6. out[s] \in Nat /\ base[s][1] \in Nat /\ count[s] \in Nat
  BY <1>0, <1>1, BoundsAssumption DEF DaemonTypes, ReaderTypes
<1>7. QED BY <1>1, <1>2, <1>3, <1>5, <1>6, ChunkSequence

LEMMA PathTypesNext ==
  ASSUME TypeOK', NEW s \in Sessions
  PROVE  /\ got'[s][1] \in Seq(Nat) /\ Known(s)' \subseteq Nat /\ out'[s] \in Nat /\ base'[s][1] \in Nat
<1>0. DaemonTypes' /\ WireTypes' /\ RouteTypes' /\ ReaderTypes' /\ 1 \in Readers
  BY TypesNext, BoundsAssumption DEF Readers
<1>1. got'[s][1] \in Seq(Chunks) /\ pending'[s] \in Seq(Chunks) /\ chan'[s] \in Seq(Chunks)
  BY <1>0 DEF DaemonTypes, RouteTypes, ReaderTypes
<1>2. ASSUME NEW q, q \in Seq(Frames) \/ q \in Seq(Outputs) PROVE Carried(q, s) \subseteq Nat
  <2>1. ASSUME NEW i \in DOMAIN q, OutputOf(q[i], s) PROVE q[i].chunk \in Nat
    <3>1. q[i] \in Frames
      BY <1>2, <2>1 DEF Frames
    <3>2. QED BY <2>1, <3>1 DEF OutputOf, Frames, Outputs, Chunks
  <2>2. QED BY <2>1 DEF Carried
<1>3. Known(s)' \subseteq Nat
  <2>1. Got(s)' \subseteq Nat /\ Buffered(s)' \subseteq Nat /\ Ahead(s)' \subseteq Nat
    BY <1>1, ChunkSequence DEF Got, Buffered, Ahead
  <2>2. Queued(s)' \subseteq Nat /\ OnWire(s)' \subseteq Nat
    BY <1>0, <1>2 DEF Queued, OnWire, WireTypes
  <2>3. QED BY <2>1, <2>2 DEF Known
<1>4. out'[s] \in Nat /\ base'[s][1] \in Nat
  BY <1>0, BoundsAssumption DEF DaemonTypes, ReaderTypes
<1>5. QED BY <1>1, <1>3, <1>4, ChunkSequence

(* A reader that has a part in front of chunks without a gap has an exact   *)
(* stream.                                                                  *)
LEMMA ExactFrom ==
  ASSUME NEW g \in Seq(Nat), NEW b \in Nat, NEW K \in SUBSET Nat, NEW L, Rising(g), Range(g) \subseteq K,
         Below(Range(g), K \ Range(g)), \A n \in K : b < n /\ (b + 1) .. n \subseteq K \union L
  PROVE  \A i \in DOMAIN g :
           LET before == IF i = 1 THEN b ELSE g[i - 1] IN
           g[i] > before /\ (before + 1) .. (g[i] - 1) \subseteq L
<1> SUFFICES ASSUME NEW i \in DOMAIN g
             PROVE  LET before == IF i = 1 THEN b ELSE g[i - 1] IN
                    g[i] > before /\ (before + 1) .. (g[i] - 1) \subseteq L
  OBVIOUS
<1> DEFINE before == IF i = 1 THEN b ELSE g[i - 1]
<1>1. DOMAIN g = 1 .. Len(g) /\ Len(g) \in Nat /\ i \in 1 .. Len(g) /\ \A j \in DOMAIN g : g[j] \in Nat /\ g[j] \in K
  BY DEF Range
<1>2. before \in Nat /\ b <= before /\ g[i] > before
  <2>1. CASE i = 1
    BY <2>1, <1>1
  <2>2. CASE i # 1
    <3>1. i - 1 \in DOMAIN g /\ i - 1 < i
      BY <2>2, <1>1
    <3>2. g[i - 1] < g[i] /\ b < g[i - 1]
      BY <3>1, <1>1 DEF Rising
    <3>3. QED BY <2>2, <3>1, <3>2, <1>1
  <2>3. QED BY <2>1, <2>2
<1>3. ASSUME NEW m \in (before + 1) .. (g[i] - 1) PROVE m \in L
  <2>1. m \in Nat /\ before < m /\ m < g[i] /\ m \in (b + 1) .. g[i]
    BY <1>1, <1>2
  <2>2. m \in K \union L
    BY <2>1, <1>1
  <2>3. ASSUME NEW j \in DOMAIN g, g[j] = m PROVE FALSE
    <3>1. CASE j < i
      <4>1. i # 1 /\ i - 1 \in DOMAIN g /\ before = g[i - 1] /\ (j = i - 1 \/ j < i - 1)
        BY <3>1, <1>1
      <4>2. g[j] <= g[i - 1]
        BY <4>1, <1>1 DEF Rising
      <4>3. QED BY <4>1, <4>2, <2>1, <2>3, <1>1
    <3>2. CASE j = i
      BY <3>2, <2>1, <2>3, <1>1
    <3>3. CASE i < j
      <4>1. g[i] < g[j]
        BY <3>3 DEF Rising
      <4>2. QED BY <4>1, <2>1, <2>3, <1>1
    <3>4. QED BY <3>1, <3>2, <3>3, <1>1
  <2>4. ASSUME m \in K \ Range(g) PROVE FALSE
    <3>1. g[i] \in Range(g)
      BY DEF Range
    <3>2. g[i] < m
      BY <2>4, <3>1 DEF Below
    <3>3. QED BY <3>2, <2>1, <1>1
  <2>5. QED BY <2>2, <2>3, <2>4 DEF Range
<1>4. QED BY <1>2, <1>3

(* A session of which nothing is under way.                                 *)
LEMMA Nothing ==
  ASSUME TypeOK', NEW s \in Sessions, Known(s)' = {}, Fresh(s)' => attached'[s] = 0,
         base'[s][1] <= out'[s], attached'[s] = 0 \/ base'[s][1] = out'[s]
  PROVE  Path(s)'
<1>1. base'[s][1] \in Nat
  BY PathTypesNext
<1>2. DOMAIN got'[s][1] = {} /\ DOMAIN pending'[s] = {} /\ DOMAIN chan'[s] = {}
  BY DEF Known, Got, Buffered, Ahead, Range
<1>3. Carried(events', s) = {} /\ Carried(wire', s) = {}
  BY DEF Known, Queued, OnWire
<1>4. Placed(s)'
  BY <1>2, <1>3 DEF Placed, Rising, RisingFor, Carried
<1>5. Queues(s)' /\ Limits(s)'
  BY DEF Known, Queues, Below, Limits
<1>6. Exact(s)'
  BY <1>2 DEF Exact
<1>7. Covered(s)'
  <2>1. (base'[s][1] + 1) .. base'[s][1] = {}
    BY <1>1
  <2>2. QED BY <2>1 DEF Covered
<1>8. QED BY <1>4, <1>5, <1>6, <1>7 DEF Path, Unfed

(* Chunks move along the path, and none is lost as long as the reader is    *)
(* fed.                                                                     *)
LEMMA Moves ==
  ASSUME TypeOK, TypeOK', NEW s \in Sessions, Path(s),
         count'[s] = count[s], base'[s][1] = base[s][1], out'[s] = out[s],
         attached'[s] \in {attached[s], 0}, Fresh(s)' => Fresh(s),
         Known(s)' \subseteq Known(s), lost[s] \subseteq lost'[s],
         Feeding(s)' => Feeding(s) /\ Known(s) \subseteq Known(s)' \union lost'[s],
         Placed(s)', Queues(s)', got'[s][1] = got[s][1] \/ Feeding(s)'
  PROVE  Path(s)'
<1>0. Unfed(s) /\ Limits(s) /\ Covered(s) /\ Exact(s)
  BY DEF Path
<1>1. Unfed(s)'
  BY <1>0 DEF Unfed
<1>2. Limits(s)'
  BY <1>0 DEF Limits
<1>3. Covered(s)'
  <2>1. SUFFICES ASSUME Feeding(s)' PROVE Covered(s)'
    BY DEF Covered
  <2>2. Feeding(s) /\ Known(s) \union lost[s] \subseteq Known(s)' \union lost'[s]
    BY <2>1
  <2>3. ASSUME NEW n \in Known(s)' PROVE (base'[s][1] + 1) .. n \subseteq Known(s)' \union lost'[s]
    BY <2>2, <1>0 DEF Covered
  <2>4. ASSUME attached'[s] = 1 PROVE (base'[s][1] + 1) .. out'[s] \subseteq Known(s)' \union lost'[s]
    BY <2>2, <2>4, <1>0 DEF Covered
  <2>5. QED BY <2>3, <2>4 DEF Covered
<1>4. Exact(s)'
  <2>1. CASE got'[s][1] = got[s][1]
    BY <2>1, <1>0 DEF Exact, Before
  <2>2. CASE Feeding(s)'
    <3> DEFINE g == got'[s][1]
               b == base'[s][1]
               K == Known(s)'
               L == lost'[s]
    <3>1. g \in Seq(Nat) /\ b \in Nat /\ K \in SUBSET Nat
      BY PathTypesNext
    <3>2. Rising(g) /\ Range(g) \subseteq K
      BY DEF Placed, Known, Got
    <3>3. Below(Range(g), K \ Range(g))
      BY DEF Queues, Known, Got, Below
    <3>4. \A n \in K : b < n /\ (b + 1) .. n \subseteq K \union L
      BY <2>2, <1>2, <1>3 DEF Limits, Covered
    <3> HIDE DEF g, b, K, L
    <3>5. \A i \in DOMAIN g :
            LET before == IF i = 1 THEN b ELSE g[i - 1] IN
            g[i] > before /\ (before + 1) .. (g[i] - 1) \subseteq L
      BY <3>1, <3>2, <3>3, <3>4, ExactFrom
    <3>6. QED BY <3>5 DEF Exact, Before, g, b, L
  <2>3. QED BY <2>1, <2>2
<1>5. QED BY <1>1, <1>2, <1>3, <1>4 DEF Path

(* Nothing of a session moves.                                              *)
LEMMA Still ==
  ASSUME TypeOK, TypeOK', NEW s \in Sessions, Path(s),
         UNCHANGED <<count[s], base[s][1], out[s], attached[s], got[s][1], pending[s], chan[s], lost[s]>>,
         RisingFor(events', s), RisingFor(wire', s), Queued(s)' = Queued(s), OnWire(s)' = OnWire(s),
         Fresh(s)' => Fresh(s), Feeding(s)' => Feeding(s)
  PROVE  Path(s)'
<1>1. Got(s)' = Got(s) /\ Buffered(s)' = Buffered(s) /\ Ahead(s)' = Ahead(s)
  BY DEF Got, Buffered, Ahead
<1>2. Known(s)' = Known(s)
  BY <1>1 DEF Known
<1>3. Queues(s)'
  BY <1>1 DEF Path, Queues
<1>4. Placed(s)'
  BY DEF Path, Placed
<1>5. QED BY <1>2, <1>3, <1>4, Moves
LEMMA StillQueues ==
  ASSUME TypeOK, TypeOK', NEW s \in Sessions, Path(s), UNCHANGED <<wire, events>>,
         UNCHANGED <<count[s], base[s][1], out[s], attached[s], got[s][1], pending[s], chan[s], lost[s]>>,
         Fresh(s)' => Fresh(s), Feeding(s)' => Feeding(s)
  PROVE  Path(s)'
<1>1. RisingFor(events', s) /\ RisingFor(wire', s) /\ Queued(s)' = Queued(s) /\ OnWire(s)' = OnWire(s)
  BY DEF Path, Placed, Queued, OnWire
<1>2. QED BY <1>1, Still

-----------------------------------------------------------------------------
(* The daemon's actions.                                                    *)
LEMMA EmitKept ==
  ASSUME TypeOK, TypeOK', Drained, NEW s \in Sessions, Path(s), count[s] <= 1, NEW t \in Sessions, Emit(t)
  PROVE  Path(s)'
<1>0. DaemonTypes /\ ReaderTypes
  BY Types
<1>1. UNCHANGED <<shell, attached, work, request, answer, wire, events, sink, pending, count, reader, base, got>>
  BY DEF Emit, rpcVars, routeVars, readerVars
<1>2. (Fresh(s)' <=> Fresh(s)) /\ (Feeding(s)' <=> Feeding(s))
  BY <1>1 DEF Fresh, Feeding, Busy
<1>3. CASE t # s
  <2>1. out'[s] = out[s] /\ chan'[s] = chan[s] /\ lost'[s] = lost[s]
    BY <1>3, <1>0 DEF Emit, Offer, DaemonTypes, ReaderTypes
  <2>2. QED BY <1>1, <1>2, <2>1, StillQueues
<1>4. CASE t = s
  <2> DEFINE n == out[s] + 1
  <2>1. out'[s] = n /\ out[s] \in Nat /\ Known(s) \subseteq Nat /\ base[s][1] \in Nat /\ chan[s] \in Seq(Nat)
    BY <1>4, <1>0, PathTypes DEF Emit, DaemonTypes
  <2>2. Unfed(s) /\ Placed(s) /\ Queues(s) /\ Limits(s) /\ Covered(s) /\ Exact(s)
    BY DEF Path
  <2>3. /\ Got(s)' = Got(s) /\ Buffered(s)' = Buffered(s)
        /\ Queued(s)' = Queued(s) /\ OnWire(s)' = OnWire(s)
    BY <1>1 DEF Got, Buffered, Queued, OnWire
  <2>4. lost[s] \subseteq lost'[s] /\ (chan' = chan /\ attached[s] # 0 => n \in lost'[s])
    <3>1. CASE attached[s] = 0
      BY <1>4, <3>1 DEF Emit
    <3>2. CASE attached[s] # 0 /\ Len(chan[s]) < ChanCap
      <4>1. lost' = lost /\ chan'[s] = Append(chan[s], n)
        BY <1>4, <3>2, <1>0 DEF Emit, Offer, DaemonTypes
      <4>2. Append(chan[s], n) # chan[s]
        <5>1. Len(Append(chan[s], n)) = Len(chan[s]) + 1 /\ Len(chan[s]) \in Nat
          BY <2>1
        <5>2. QED BY <5>1
      <4>3. QED BY <4>1, <4>2
    <3>3. CASE attached[s] # 0 /\ ~(Len(chan[s]) < ChanCap)
      BY <1>4, <3>3, <1>0 DEF Emit, Offer, ReaderTypes
    <3>4. QED BY <3>1, <3>2, <3>3
  <2>5. Exact(s)'
    BY <1>1, <2>2, <2>4 DEF Exact, Before
  <2>6. CASE chan' = chan
    <3>1. Ahead(s)' = Ahead(s) /\ Known(s)' = Known(s)
      BY <2>3, <2>6 DEF Ahead, Known
    <3>2. Unfed(s)' /\ Placed(s)' /\ Queues(s)'
      BY <1>1, <1>2, <2>2, <2>3, <2>6, <3>1 DEF Unfed, Placed, Queues
    <3>3. Limits(s)'
      BY <1>1, <2>1, <2>2, <3>1 DEF Limits
    <3>4. Covered(s)'
      <4>1. SUFFICES ASSUME Feeding(s)' PROVE Covered(s)'
        BY DEF Covered
      <4>2. \A m \in Known(s)' : (base[s][1] + 1) .. m \subseteq Known(s)' \union lost'[s]
        BY <1>2, <4>1, <2>2, <2>4, <3>1 DEF Covered
      <4>3. ASSUME attached[s] = 1 PROVE (base[s][1] + 1) .. n \subseteq Known(s)' \union lost'[s]
        <5>1. (base[s][1] + 1) .. out[s] \subseteq Known(s) \union lost[s]
          BY <1>2, <4>1, <4>3, <2>2 DEF Covered
        <5>2. (base[s][1] + 1) .. n \subseteq (base[s][1] + 1) .. out[s] \union {n}
          BY <2>1
        <5>3. n \in lost'[s]
          BY <2>4, <2>6, <4>3
        <5> HIDE DEF n
        <5>4. QED BY <5>1, <5>2, <5>3, <2>4, <3>1
      <4>4. QED BY <1>1, <2>1, <4>2, <4>3 DEF Covered
    <3>5. QED BY <2>5, <3>2, <3>3, <3>4 DEF Path
  <2>7. CASE attached[s] # 0 /\ chan'[s] = Append(chan[s], n)
    <3>1. chan'[s] = Append(chan[s], n)
      BY <2>7
    <3>2. attached[s] = 1 /\ ~Fresh(s)
      BY <2>7, <2>2, <1>0, PathTypes DEF Drained, Unfed, DaemonTypes
    <3>3. \A m \in Known(s) : m \in Nat /\ m < n
      BY <2>1, <2>2 DEF Limits
    <3>4. Rising(chan'[s]) /\ Ahead(s)' = Ahead(s) \union {n}
      <4>1. \A m \in Range(chan[s]) : m < n
        BY <3>3 DEF Known, Ahead
      <4>2. QED BY <2>1, <2>2, <3>1, <4>1, RisingAppend DEF Placed, Ahead
    <3>5. Known(s)' = Known(s) \union {n}
      BY <2>3, <3>4 DEF Known
    <3>6. Placed(s)' /\ Unfed(s)'
      BY <1>1, <1>2, <2>2, <3>2, <3>4 DEF Placed, Unfed
    <3>7. Queues(s)'
      BY <2>2, <2>3, <3>3, <3>4 DEF Queues, Below, Known
    <3>8. Limits(s)'
      <4>1. base[s][1] < n
        BY <2>1, <2>2 DEF Limits
      <4>2. QED BY <1>1, <2>1, <2>2, <3>3, <3>5, <4>1 DEF Limits
    <3>9. Covered(s)'
      <4>1. SUFFICES ASSUME Feeding(s)' PROVE Covered(s)'
        BY DEF Covered
      <4>2. (base[s][1] + 1) .. out[s] \subseteq Known(s) \union lost[s]
        BY <1>2, <4>1, <2>2, <3>2 DEF Covered
      <4>6. (base[s][1] + 1) .. n \subseteq ((base[s][1] + 1) .. out[s]) \union {n}
        BY <2>1
      <4>3. (base[s][1] + 1) .. n \subseteq Known(s)' \union lost'[s]
        BY <4>2, <4>6, <2>4, <3>5, Zenon
      <4>4. \A m \in Known(s)' : (base[s][1] + 1) .. m \subseteq Known(s)' \union lost'[s]
        BY <1>2, <4>1, <4>3, <2>2, <2>4, <3>5 DEF Covered
      <4>5. QED BY <1>1, <2>1, <4>3, <4>4 DEF Covered
    <3>10. QED BY <2>5, <3>6, <3>7, <3>8, <3>9 DEF Path
  <2>8. QED BY <1>4, <2>6, <2>7, <1>0 DEF Emit, Offer, DaemonTypes
<1>5. QED BY <1>3, <1>4

(* A chunk goes from the channel to the wire.                               *)
LEMMA ForwardKept ==
  ASSUME TypeOK, TypeOK', NEW s \in Sessions, Path(s), NEW t \in Sessions, Forward(t)
  PROVE  Path(s)'
<1>0. DaemonTypes /\ WireTypes /\ chan[t] \in Seq(Chunks) /\ chan[t] \in Seq(Nat)
  BY Types, PathTypes
<1> DEFINE h == Head(chan[t])
           f == [kind |-> "output", session |-> t, chunk |-> h]
<1>1. UNCHANGED <<shell, out, attached, work, request, answer, events, sink, pending, count, reader, base, got, lost>>
  BY DEF Forward, rpcVars, routeVars, readerVars
<1>2. (Fresh(s)' <=> Fresh(s)) /\ (Feeding(s)' <=> Feeding(s))
  BY <1>1 DEF Fresh, Feeding, Busy
<1>3. wire' = Append(wire, f) /\ wire \in Seq(Frames) /\ h \in Chunks /\ f \in Frames /\ chan[t] # <<>>
  BY <1>0, ChunkSequence DEF Forward, WireTypes, Frames, Outputs
<1>4. f.kind = "output" /\ f.session = t /\ f.chunk = h
  OBVIOUS
<1> HIDE DEF f
<1>5. Placed(s) /\ Queues(s)
  BY DEF Path
<1>6. /\ Got(s)' = Got(s) /\ Buffered(s)' = Buffered(s) /\ Queued(s)' = Queued(s)
      /\ RisingFor(events', s)
  BY <1>1, <1>5 DEF Got, Buffered, Queued, Placed
<1>7. CASE t # s
  <2>1. RisingFor(wire', s) /\ OnWire(s)' = OnWire(s)
    BY <1>3, <1>4, <1>5, <1>7, FramesAppend DEF OutputOf, OnWire, Placed
  <2>2. chan'[s] = chan[s]
    BY <1>7, <1>0 DEF Forward, DaemonTypes
  <2>3. QED BY <1>1, <1>2, <1>6, <2>1, <2>2, Still
<1>8. CASE t = s
  <2>1. chan'[s] = Tail(chan[s])
    BY <1>8, <1>0 DEF Forward, DaemonTypes
  <2>2. /\ Rising(chan'[s]) /\ h \in Nat
        /\ Ahead(s) = {h} \union Ahead(s)' /\ \A n \in Ahead(s)' : h < n
    BY <1>0, <1>3, <1>5, <1>8, <2>1, RisingTail DEF Ahead, Placed
  <2>3. \A m \in OnWire(s) : m < h
    BY <1>5, <2>2 DEF Queues, Below
  <2>4. RisingFor(wire', s) /\ OnWire(s)' = OnWire(s) \union {h}
    BY <1>3, <1>4, <1>5, <1>8, <2>3, FramesAppend DEF OutputOf, OnWire, Placed
  <2>5. Known(s)' = Known(s)
    BY <1>6, <2>2, <2>4 DEF Known
  <2>6. Placed(s)'
    BY <1>1, <1>5, <1>6, <2>2, <2>4 DEF Placed
  <2>7. Queues(s)'
    BY <1>5, <1>6, <2>2, <2>4 DEF Queues, Below
  <2>8. QED BY <1>1, <1>2, <2>5, <2>6, <2>7, Moves
<1>9. QED BY <1>7, <1>8

LEMMA DaemonAttachKept ==
  ASSUME TypeOK, TypeOK', Stage, NEW s \in Sessions, Path(s), count[s] <= 1, DaemonAttach
  PROVE  Path(s)'
<1>0. /\ DaemonTypes /\ ReaderTypes /\ RpcTypes /\ work.session \in Sessions /\ 1 \in Readers
      /\ count[work.session] \in Readers
  BY Types, WorkShape, PathTypes DEF DaemonAttach, Busy, Stage
<1>1. /\ UNCHANGED <<out, work, answer, wire, events, sink, pending, count, reader, got, lost>>
      /\ request = "sent" /\ request' # "sent"
  BY DEF DaemonAttach, routeVars
<1>2. (Fresh(s)' => Fresh(s)) /\ (Feeding(s)' <=> Feeding(s))
  BY <1>1 DEF Fresh, Feeding, Busy
<1>3. CASE UNCHANGED <<attached, chan, base>>
  BY <1>1, <1>2, <1>3, StillQueues
<1>4. CASE /\ attached' = [attached EXCEPT ![work.session] = count[work.session]]
           /\ chan' = [chan EXCEPT ![work.session] = <<>>]
           /\ base' = [base EXCEPT ![work.session][count[work.session]] = out[work.session]]
  <2>1. CASE work.session # s
    <3>1. attached'[s] = attached[s] /\ chan'[s] = chan[s] /\ base'[s] = base[s]
      BY <1>0, <1>4, <2>1 DEF DaemonTypes, ReaderTypes
    <3>2. QED BY <1>1, <1>2, <3>1, StillQueues
  <2>2. CASE work.session = s
    <3>1. count[s] = 1
      BY <1>0, <2>2, PathTypes DEF Readers
    <3>2. Fresh(s) /\ ~Fresh(s)'
      BY <1>1, <2>2, <3>1 DEF Fresh, DaemonAttach, Busy
    <3>3. Known(s) = {}
      BY <3>2 DEF Path, Unfed
    <3>4. chan'[s] = <<>> /\ base'[s][1] = out[s]
      BY <1>0, <1>4, <2>2, <3>1 DEF DaemonTypes, ReaderTypes
    <3>5. Known(s)' = {}
      <4>1. Ahead(s)' = {}
        BY <3>4 DEF Ahead, Range
      <4>2. QED BY <1>1, <3>3, <4>1 DEF Known, Got, Buffered, Queued, OnWire
    <3>6. base'[s][1] = out'[s] /\ base'[s][1] <= out'[s]
      BY <1>1, <3>4, PathTypes
    <3>7. QED BY <3>2, <3>5, <3>6, Nothing
  <2>3. QED BY <2>1, <2>2
<1>5. QED BY <1>3, <1>4 DEF DaemonAttach

LEMMA DaemonKillKept ==
  ASSUME TypeOK, TypeOK', Stage, NEW s \in Sessions, Path(s), DaemonKill
  PROVE  Path(s)'
<1>0. DaemonTypes /\ RpcTypes /\ work.session \in Sessions
  BY Types, WorkShape DEF DaemonKill, Busy
<1>1. /\ UNCHANGED <<out, work, answer, wire, events, sink, pending, count, reader, base, got, lost>>
      /\ request = "sent" /\ request' # "sent"
      /\ attached' = [attached EXCEPT ![work.session] = 0]
      /\ chan' = [chan EXCEPT ![work.session] = <<>>]
  BY DEF DaemonKill, routeVars, readerVars
<1>2. (Fresh(s)' => Fresh(s)) /\ (Feeding(s)' <=> Feeding(s))
  BY <1>1 DEF Fresh, Feeding, Busy
<1>3. CASE work.session # s
  <2>1. attached'[s] = attached[s] /\ chan'[s] = chan[s]
    BY <1>0, <1>1, <1>3 DEF DaemonTypes
  <2>2. QED BY <1>1, <1>2, <2>1, StillQueues
<1>4. CASE work.session = s
  <2>1. attached'[s] = 0 /\ chan'[s] = <<>>
    BY <1>0, <1>1, <1>4 DEF DaemonTypes
  <2>2. ~Feeding(s)'
    BY <1>2, <1>4 DEF Feeding, DaemonKill, Busy, Stage
  <2>3. /\ Got(s)' = Got(s) /\ Buffered(s)' = Buffered(s) /\ Queued(s)' = Queued(s)
        /\ OnWire(s)' = OnWire(s) /\ Ahead(s)' = {}
    BY <1>1, <2>1 DEF Got, Buffered, Queued, OnWire, Ahead, Range
  <2>4. Known(s)' \subseteq Known(s)
    BY <2>3 DEF Known
  <2>5. Placed(s)'
    BY <1>1, <2>1 DEF Path, Placed, Rising
  <2>6. Queues(s)'
    BY <2>3 DEF Path, Queues, Below
  <2>7. QED BY <1>1, <1>2, <2>1, <2>2, <2>4, <2>5, <2>6, Moves
<1>5. QED BY <1>3, <1>4

LEMMA RespondKept ==
  ASSUME TypeOK, TypeOK', NEW s \in Sessions, Path(s), Respond
  PROVE  Path(s)'
<1>1. /\ UNCHANGED <<out, chan, attached, work, answer, events, sink, pending, count, reader, base, got, lost>>
      /\ request \in {"ok", "failed"} /\ request' = "none"
  BY DEF Respond, daemonVars, routeVars, readerVars
<1>2. (Fresh(s)' => Fresh(s)) /\ (Feeding(s)' <=> Feeding(s))
  BY <1>1 DEF Fresh, Feeding, Busy
<1>3. PICK f \in Frames : f.kind = "response" /\ wire' = Append(wire, f)
  BY <1>1 DEF Respond, Frames
<1>4. wire \in Seq(Frames) /\ RisingFor(wire, s) /\ RisingFor(events, s)
  BY PathTypes DEF Path, Placed
<1>5. RisingFor(wire', s) /\ OnWire(s)' = OnWire(s)
  BY <1>3, <1>4, FramesAppend DEF OutputOf, OnWire
<1>6. RisingFor(events', s) /\ Queued(s)' = Queued(s)
  BY <1>1, <1>4 DEF Queued
<1>7. QED BY <1>1, <1>2, <1>5, <1>6, Still

-----------------------------------------------------------------------------
(* The client's actions: a frame is read from the wire.                     *)
LEMMA ReadFrameKept ==
  ASSUME TypeOK, TypeOK', NEW s \in Sessions, Path(s), ReadFrame
  PROVE  Path(s)'
<1> DEFINE f == Head(wire)
<1>1. UNCHANGED <<shell, out, chan, attached, work, request, sink, pending, count, reader, base, got, lost>>
  BY DEF ReadFrame, daemonVars, routeVars, readerVars
<1>2. (Fresh(s)' <=> Fresh(s)) /\ (Feeding(s)' <=> Feeding(s))
  BY <1>1 DEF Fresh, Feeding, Busy
<1>3. Placed(s) /\ Queues(s)
  BY DEF Path
<1>4. /\ wire \in Seq(Frames) /\ events \in Seq(Frames) /\ RisingFor(wire, s) /\ RisingFor(events, s)
      /\ wire # <<>> /\ wire' = Tail(wire) /\ f \in Frames
  BY <1>3, PathTypes DEF ReadFrame, Placed
<1>5. events' = events \/ (f.kind = "output" /\ events' = Append(events, f))
  BY DEF ReadFrame
<1>6. events' = events => f.kind = "response"
  <2>1. Len(Append(events, f)) = Len(events) + 1 /\ Len(events) \in Nat
    BY <1>4
  <2>2. Append(events, f) # events
    BY <2>1
  <2>3. QED BY <2>2 DEF ReadFrame
<1>7. /\ RisingFor(wire', s)
      /\ OutputOf(f, s) => OnWire(s) = {f.chunk} \union OnWire(s)' /\ \A n \in OnWire(s)' : f.chunk < n
      /\ ~OutputOf(f, s) => OnWire(s)' = OnWire(s)
  BY <1>4, FramesTail DEF OnWire
<1>8. Got(s)' = Got(s) /\ Buffered(s)' = Buffered(s) /\ Ahead(s)' = Ahead(s)
  BY <1>1 DEF Got, Buffered, Ahead
<1> HIDE DEF f
<1>9. CASE ~OutputOf(f, s)
  <2>1. RisingFor(events', s) /\ Queued(s)' = Queued(s)
    <3>1. CASE events' = events
      BY <1>4, <3>1 DEF Queued
    <3>2. CASE events' = Append(events, f)
      BY <1>4, <1>9, <3>2, FramesAppend DEF Queued
    <3>3. QED BY <1>5, <3>1, <3>2
  <2>2. QED BY <1>1, <1>2, <1>7, <1>9, <2>1, Still
<1>10. CASE OutputOf(f, s)
  <2>1. events' = Append(events, f)
    BY <1>5, <1>6, <1>10 DEF OutputOf
  <2>2. \A m \in Queued(s) : m < f.chunk
    BY <1>3, <1>7, <1>10 DEF Queues, Below
  <2>3. RisingFor(events', s) /\ Queued(s)' = Queued(s) \union {f.chunk}
    BY <1>4, <1>10, <2>1, <2>2, FramesAppend DEF Queued
  <2>4. Known(s)' = Known(s)
    BY <1>7, <1>8, <1>10, <2>3 DEF Known
  <2>5. Placed(s)'
    BY <1>1, <1>3, <1>7, <2>3 DEF Placed
  <2>6. Queues(s)'
    BY <1>3, <1>7, <1>8, <1>10, <2>3 DEF Queues, Below
  <2>7. QED BY <1>1, <1>2, <2>4, <2>5, <2>6, Moves
<1>11. QED BY <1>9, <1>10

(* The buffer of a session after a step of the event loop that had no sink   *)
(* for a chunk.                                                             *)
LEMMA Overrun ==
  ASSUME TypeOK, NEW s \in Sessions, Rising(pending[s]), NEW t \in Sessions, NEW n \in Chunks,
         ToPending(t, n), t = s => \A m \in Buffered(s) : m < n
  PROVE  /\ Rising(pending'[s])
         /\ Buffered(s)' \subseteq Buffered(s) \union (IF t = s THEN {n} ELSE {})
         /\ Buffered(s) \subseteq Buffered(s)' \union lost'[s] /\ lost[s] \subseteq lost'[s]
         /\ t = s => n \in Buffered(s)'
<1>0. RouteTypes /\ ReaderTypes /\ pending[s] \in Seq(Nat) /\ n \in Nat
  BY Types, PathTypes, ChunkSequence DEF Chunks
<1>1. PICK p \in Evicted :
        LET kept == IF Len(p[t]) >= ChunkLimit THEN Tail(p[t]) ELSE p[t] IN
        /\ pending' = [p EXCEPT ![t] = Append(kept, n)]
        /\ lost' = [u \in Sessions |-> lost[u] \union
                     (Range(pending[u]) \ (IF u = t THEN Range(kept) ELSE Range(p[u])))]
  BY DEF ToPending
<1>2. p \in [Sessions -> Seq(Chunks)] /\ (p[s] = pending[s] \/ (pending[s] # <<>> /\ p[s] = Tail(pending[s])))
  BY <1>0, Evictions
<1>3. p[s] \in Seq(Nat) /\ Rising(p[s]) /\ Range(p[s]) \subseteq Range(pending[s])
  <2>1. CASE p[s] = pending[s]
    BY <1>0, <2>1
  <2>2. CASE pending[s] # <<>> /\ p[s] = Tail(pending[s])
    BY <1>0, <2>2, RisingTail
  <2>3. QED BY <1>2, <2>1, <2>2
<1>4. CASE t # s
  <2>1. pending'[s] = p[s] /\ lost'[s] = lost[s] \union (Range(pending[s]) \ Range(p[s]))
    BY <1>1, <1>2, <1>4
  <2>2. QED BY <1>3, <1>4, <2>1 DEF Buffered
<1>5. CASE t = s
  <2> DEFINE kept == IF Len(p[s]) >= ChunkLimit THEN Tail(p[s]) ELSE p[s]
  <2>1. pending'[s] = Append(kept, n) /\ lost'[s] = lost[s] \union (Range(pending[s]) \ Range(kept))
    BY <1>1, <1>2, <1>5
  <2>2. kept \in Seq(Nat) /\ Rising(kept) /\ Range(kept) \subseteq Range(p[s])
    <3>1. CASE p[s] = <<>>
      <4>1. Len(p[s]) = 0 /\ ChunkLimit >= 1 /\ ChunkLimit \in Nat
        BY <3>1, BoundsAssumption
      <4>2. QED BY <1>3, <4>1
    <3>2. CASE p[s] # <<>>
      BY <1>3, <3>2, RisingTail
    <3>3. QED BY <3>1, <3>2
  <2> HIDE DEF kept
  <2>3. \A m \in Range(kept) : m < n
    BY <1>3, <1>5, <2>2 DEF Buffered
  <2>4. Rising(pending'[s]) /\ Buffered(s)' = Range(kept) \union {n}
    BY <1>0, <2>1, <2>2, <2>3, RisingAppend DEF Buffered
  <2>5. QED BY <1>3, <1>5, <2>1, <2>2, <2>4 DEF Buffered
<1>6. QED BY <1>4, <1>5

(* ... and is handed to the routes.                                         *)
LEMMA EventLoopKept ==
  ASSUME TypeOK, TypeOK', Drained, NEW s \in Sessions, Path(s), count[s] <= 1, EventLoop
  PROVE  Path(s)'
<1> DEFINE f == Head(events)
           t == f.session
           n == f.chunk
<1>0. RouteTypes /\ ReaderTypes /\ WireTypes /\ 1 \in Readers
  BY Types, PathTypes
<1>1. /\ UNCHANGED <<shell, out, chan, attached, work, request, wire, count, reader, base>>
      /\ events # <<>> /\ events' = Tail(events)
  BY DEF EventLoop, daemonVars, rpcVars
<1>2. f \in Outputs /\ f \in Frames /\ t \in Sessions /\ n \in Chunks /\ n \in Nat
  <2>1. f \in Outputs
    BY <1>0, <1>1 DEF WireTypes
  <2>2. QED BY <2>1 DEF Outputs, Frames, Chunks
<1>3. OutputOf(f, s) <=> t = s
  BY <1>2 DEF OutputOf, Outputs
<1>4. Placed(s) /\ Queues(s)
  BY DEF Path
<1>5. /\ RisingFor(events', s)
      /\ t = s => Queued(s) = {n} \union Queued(s)' /\ \A m \in Queued(s)' : n < m
      /\ t # s => Queued(s)' = Queued(s)
  <2>1. events \in Seq(Frames) /\ RisingFor(events, s)
    BY <1>4, PathTypes DEF Placed
  <2>2. QED BY <1>1, <1>3, <2>1, FramesTail DEF Queued
<1>6. OnWire(s)' = OnWire(s) /\ Ahead(s)' = Ahead(s) /\ RisingFor(wire', s) /\ Rising(chan'[s])
  BY <1>1, <1>4 DEF OnWire, Ahead, Placed
<1>7. Fresh(s)' <=> Fresh(s)
  BY <1>1 DEF Fresh
<1>8. (sink[t] # 0 /\ ToSink(t, n)) \/ (sink[t] = 0 /\ ToPending(t, n))
  BY DEF EventLoop
<1> HIDE DEF f, t, n
<1>9. CASE sink[t] # 0 /\ reader[t][sink[t]] = "open" /\ ToSink(t, n)
  <2>1. /\ got' = [got EXCEPT ![t][sink[t]] = Append(got[t][sink[t]], n)]
        /\ UNCHANGED <<sink, pending, lost>>
    BY <1>9 DEF ToSink
  <2>2. Feeding(s)' <=> Feeding(s)
    BY <1>1, <2>1 DEF Feeding, Busy
  <2>3. Buffered(s)' = Buffered(s)
    BY <2>1 DEF Buffered
  <2>4. CASE t # s
    <3>1. got'[s] = got[s]
      BY <1>0, <1>2, <2>1, <2>4 DEF ReaderTypes
    <3>2. QED BY <1>1, <1>5, <1>6, <1>7, <2>1, <2>2, <2>4, <3>1, Still
  <2>5. CASE t = s
    <3>1. sink[s] = 1
      <4>1. sink[s] \in Nat /\ sink[s] <= count[s] /\ count[s] \in Nat /\ sink[s] # 0
        BY <1>0, <1>9, <2>5, PathTypes, BoundsAssumption DEF Drained, RouteTypes
      <4>2. QED BY <4>1
    <3>2. got'[s][1] = Append(got[s][1], n)
      BY <1>0, <2>1, <2>5, <3>1 DEF ReaderTypes
    <3>3. Feeding(s)'
      <4>1. count[s] = 1
        BY <3>1, PathTypes DEF Drained
      <4>2. QED BY <1>9, <2>2, <2>5, <3>1, <4>1 DEF Feeding
    <3>4. Buffered(s) = {}
      BY <3>1 DEF Drained, Buffered, Range
    <3>5. \A m \in Got(s) : m < n
      BY <1>4, <1>5, <2>5 DEF Queues, Below
    <3>6. Rising(got'[s][1]) /\ Got(s)' = Got(s) \union {n}
      <4>1. got[s][1] \in Seq(Nat) /\ Rising(got[s][1]) /\ \A m \in Range(got[s][1]) : m < n
        BY <1>4, <3>5, PathTypes DEF Placed, Got
      <4>2. QED BY <1>2, <3>2, <4>1, RisingAppend DEF Got
    <3>7. Known(s)' = Known(s)
      BY <1>5, <1>6, <2>3, <2>5, <3>6 DEF Known
    <3>8. Placed(s)'
      BY <1>4, <1>5, <1>6, <2>1, <3>6 DEF Placed
    <3>9. Queues(s)'
      BY <1>4, <1>5, <1>6, <2>3, <2>5, <3>4, <3>6 DEF Queues, Below
    <3>10. QED BY <1>1, <1>7, <2>1, <2>2, <3>3, <3>7, <3>8, <3>9, Moves
  <2>6. QED BY <2>4, <2>5
<1>10. CASE sink[t] # 0 /\ reader[t][sink[t]] # "open" /\ ToSink(t, n)
  <2>1. sink' = [sink EXCEPT ![t] = 0] /\ UNCHANGED <<got, pending, lost>>
    BY <1>10 DEF ToSink
  <2>2. Got(s)' = Got(s) /\ Buffered(s)' = Buffered(s)
    BY <2>1 DEF Got, Buffered
  <2>3. CASE t # s
    <3>1. sink'[s] = sink[s]
      BY <1>0, <1>2, <2>1, <2>3 DEF RouteTypes
    <3>2. Feeding(s)' <=> Feeding(s)
      BY <1>1, <3>1 DEF Feeding, Busy
    <3>3. QED BY <1>1, <1>5, <1>6, <1>7, <2>1, <2>3, <3>2, Still
  <2>4. CASE t = s
    <3>1. ~Feeding(s)'
      <4>1. sink[s] \in Nat /\ sink[s] <= count[s] /\ count[s] \in Nat /\ sink[s] # 0
        BY <1>0, <1>10, <2>4, PathTypes, BoundsAssumption DEF Drained, RouteTypes
      <4>2. sink[s] = 1 /\ reader[s][1] # "open"
        BY <1>10, <2>4, <4>1
      <4>3. QED BY <1>1, <4>2 DEF Feeding
    <3>2. Known(s)' \subseteq Known(s)
      BY <1>5, <1>6, <2>2, <2>4 DEF Known
    <3>3. Placed(s)'
      BY <1>4, <1>5, <1>6, <2>1 DEF Placed
    <3>4. Queues(s)'
      BY <1>4, <1>5, <1>6, <2>2, <2>4 DEF Queues, Below
    <3>5. QED BY <1>1, <1>7, <2>1, <3>1, <3>2, <3>3, <3>4, Moves
  <2>5. QED BY <2>3, <2>4
<1>11. CASE sink[t] = 0 /\ ToPending(t, n)
  <2>1. UNCHANGED <<sink, got>>
    BY <1>11 DEF ToPending
  <2>2. Got(s)' = Got(s) /\ (Feeding(s)' <=> Feeding(s))
    BY <1>1, <2>1 DEF Got, Feeding, Busy
  <2>3. t = s => \A m \in Buffered(s) : m < n
    BY <1>4, <1>5 DEF Queues, Below
  <2>4. /\ Rising(pending'[s])
        /\ Buffered(s)' \subseteq Buffered(s) \union (IF t = s THEN {n} ELSE {})
        /\ Buffered(s) \subseteq Buffered(s)' \union lost'[s] /\ lost[s] \subseteq lost'[s]
        /\ t = s => n \in Buffered(s)'
    BY <1>2, <1>4, <1>11, <2>3, Overrun DEF Placed
  <2>5. Known(s)' \subseteq Known(s) /\ Known(s) \subseteq Known(s)' \union lost'[s]
    BY <1>5, <1>6, <2>2, <2>4 DEF Known
  <2>6. Placed(s)'
    BY <1>4, <1>5, <1>6, <2>1, <2>4 DEF Placed
  <2>7. Queues(s)'
    <3>1. \A m \in Got(s) : t = s => m < n
      BY <1>4, <1>5 DEF Queues, Below
    <3>2. QED BY <1>4, <1>5, <1>6, <2>2, <2>4, <3>1 DEF Queues, Below
  <2>8. QED BY <1>1, <1>7, <2>1, <2>2, <2>4, <2>5, <2>6, <2>7, Moves
<1>12. QED BY <1>8, <1>9, <1>10, <1>11

-----------------------------------------------------------------------------
(* The shim's actions. Those that move nothing and leave the session fed as *)
(* it was, or not any more.                                                 *)
LEMMA StillRouted ==
  ASSUME TypeOK, TypeOK', NEW s \in Sessions, Path(s), UNCHANGED <<daemonVars, wire, events, base, lost>>,
         UNCHANGED <<count[s], got[s][1], pending[s]>>, Fresh(s)' => Fresh(s), Feeding(s)' => Feeding(s)
  PROVE  Path(s)'
BY StillQueues DEF daemonVars

LEMMA EnsureBeginKept ==
  ASSUME TypeOK, TypeOK', NEW s \in Sessions, Path(s), count'[s] <= 1, NEW t \in Sessions, EnsureBegin(t)
  PROVE  Path(s)'
<1>0. ReaderTypes /\ count[s] \in Nat
  BY Types, PathTypes
<1>1. /\ UNCHANGED <<daemonVars, wire, events, base, lost, routeVars, got>> /\ Busy("none")
      /\ count' = [count EXCEPT ![t] = @ + 1] /\ reader' = [reader EXCEPT ![t][count[t] + 1] = "open"]
      /\ work' = [op |-> "ensure", session |-> t]
  BY DEF EnsureBegin, NewReader, Send
<1>2. CASE t # s
  <2>1. count'[s] = count[s] /\ reader'[s] = reader[s]
    BY <1>0, <1>1, <1>2 DEF ReaderTypes
  <2>2. (Fresh(s)' => Fresh(s)) /\ (Feeding(s)' => Feeding(s))
    BY <1>1, <1>2, <2>1 DEF Fresh, Feeding, Busy, routeVars
  <2>3. QED BY <1>1, <2>1, <2>2, StillRouted DEF routeVars
<1>3. CASE t = s
  <2>1. count[s] = 0
    BY <1>0, <1>1, <1>3 DEF ReaderTypes
  <2>2. attached[s] = 0 /\ Known(s) = {} /\ base[s][1] <= out[s]
    BY <2>1 DEF Path, Unfed, Fresh, Limits
  <2>3. Known(s)' = {} /\ attached'[s] = 0 /\ base'[s][1] <= out'[s]
    BY <1>1, <2>2 DEF Known, Got, Buffered, Queued, OnWire, Ahead, daemonVars, routeVars
  <2>4. QED BY <2>3, Nothing
<1>4. QED BY <1>2, <1>3

LEMMA AttachBeginKept ==
  ASSUME TypeOK, TypeOK', NEW s \in Sessions, Path(s), NEW t \in Sessions, AttachBegin(t)
  PROVE  Path(s)'
<1>0. ReaderTypes /\ RouteTypes /\ 1 \in Readers
  BY Types, PathTypes
<1>1. /\ UNCHANGED <<daemonVars, wire, events, base, lost>> /\ Busy("none") /\ count[t] = 0
      /\ count' = [count EXCEPT ![t] = @ + 1] /\ reader' = [reader EXCEPT ![t][count[t] + 1] = "open"]
      /\ got' = [got EXCEPT ![t][count[t] + 1] = pending[t]]
      /\ sink' = [sink EXCEPT ![t] = count[t] + 1] /\ pending' = [pending EXCEPT ![t] = <<>>]
      /\ work' = [op |-> "attach", session |-> t]
  BY DEF AttachBegin, NewReader, Send
<1>2. CASE t # s
  <2>1. /\ count'[s] = count[s] /\ reader'[s] = reader[s] /\ got'[s] = got[s]
        /\ sink'[s] = sink[s] /\ pending'[s] = pending[s]
    BY <1>0, <1>1, <1>2 DEF ReaderTypes, RouteTypes
  <2>2. (Fresh(s)' => Fresh(s)) /\ (Feeding(s)' => Feeding(s))
    BY <1>1, <1>2, <2>1 DEF Fresh, Feeding, Busy
  <2>3. QED BY <1>1, <2>1, <2>2, StillRouted
<1>3. CASE t = s
  <2>1. attached[s] = 0 /\ Known(s) = {} /\ base[s][1] <= out[s]
    BY <1>1, <1>3 DEF Path, Unfed, Fresh, Limits
  <2>2. Range(pending[s]) = {}
    BY <2>1 DEF Known, Buffered
  <2>3. got'[s][1] = pending[s] /\ pending'[s] = <<>>
    BY <1>0, <1>1, <1>3 DEF ReaderTypes, RouteTypes
  <2>4. Got(s)' = {} /\ Buffered(s)' = {}
    <3>1. Got(s)' = Range(pending[s])
      BY <2>3 DEF Got
    <3>2. Buffered(s)' = {}
      BY <2>3 DEF Buffered, Range
    <3>3. QED BY <2>2, <3>1, <3>2
  <2>5. Known(s)' = {} /\ attached'[s] = 0 /\ base'[s][1] <= out'[s]
    BY <1>1, <2>1, <2>4 DEF Known, Queued, OnWire, Ahead, daemonVars
  <2>6. QED BY <2>5, Nothing
<1>4. QED BY <1>2, <1>3

(* The route of a session that is fed no more is removed.                   *)
LEMMA RouteRemoved ==
  ASSUME TypeOK, TypeOK', NEW s \in Sessions, Path(s), NEW t \in Sessions, RemoveRoute(t),
         UNCHANGED <<daemonVars, wire, events, base, got, lost, count>>,
         Fresh(s)' => Fresh(s), t = s => ~Feeding(s)', t # s /\ Feeding(s)' => Feeding(s)
  PROVE  Path(s)'
<1>0. RouteTypes
  BY Types
<1>1. CASE t # s
  <2>1. pending'[s] = pending[s]
    BY <1>0, <1>1 DEF RemoveRoute, RouteTypes
  <2>2. QED BY <1>1, <2>1, StillRouted
<1>2. CASE t = s
  <2>1. pending'[s] = <<>>
    BY <1>0, <1>2 DEF RemoveRoute, RouteTypes
  <2>2. /\ Got(s)' = Got(s) /\ Buffered(s)' = {} /\ Queued(s)' = Queued(s)
        /\ OnWire(s)' = OnWire(s) /\ Ahead(s)' = Ahead(s)
    BY <2>1 DEF Got, Buffered, Queued, OnWire, Ahead, Range, daemonVars
  <2>3. Known(s)' \subseteq Known(s)
    BY <2>2 DEF Known
  <2>4. Placed(s)'
    BY <2>1 DEF Path, Placed, Rising, daemonVars
  <2>5. Queues(s)'
    BY <2>2 DEF Path, Queues, Below
  <2>6. UNCHANGED <<count[s], base[s][1], out[s], attached[s], got[s][1], lost[s]>>
    BY DEF daemonVars
  <2>7. ~Feeding(s)' /\ (Fresh(s)' => Fresh(s))
    BY <1>2
  <2>8. QED BY <2>3, <2>4, <2>5, <2>6, <2>7, Moves
<1>3. QED BY <1>1, <1>2

LEMMA KillBeginKept ==
  ASSUME TypeOK, TypeOK', NEW s \in Sessions, Path(s), NEW t \in Sessions, KillBegin(t)
  PROVE  Path(s)'
<1>0. RouteTypes
  BY Types
<1>1. /\ UNCHANGED <<daemonVars, wire, events, base, got, lost, count, reader>> /\ RemoveRoute(t)
      /\ work' = [op |-> "kill", session |-> t] /\ sink' = [sink EXCEPT ![t] = 0]
  BY DEF KillBegin, Send, RemoveRoute
<1>2. Fresh(s)' => Fresh(s)
  BY <1>1 DEF Fresh
<1>3. Feeding(s)' => sink'[s] = 1
  BY <1>1 DEF Feeding, Busy
<1>4. t = s => ~Feeding(s)'
  BY <1>0, <1>1, <1>3 DEF RouteTypes
<1>5. t # s /\ Feeding(s)' => Feeding(s)
  BY <1>0, <1>1, <1>3 DEF Feeding, RouteTypes
<1>6. QED BY <1>1, <1>2, <1>4, <1>5, RouteRemoved

LEMMA AttachDoneKept ==
  ASSUME TypeOK, TypeOK', Stage, NEW s \in Sessions, Path(s), AttachDone
  PROVE  Path(s)'
<1>0. RouteTypes /\ ReaderTypes /\ RpcTypes /\ work.session \in Sessions /\ count[work.session] \in Readers
  BY Types, WorkShape DEF AttachDone, Busy, Stage
<1>1. /\ UNCHANGED <<daemonVars, wire, events, base, got, lost, count>> /\ work' = NoWork /\ Busy("attach")
  BY DEF AttachDone
<1>2. ~Fresh(s)' \/ Fresh(s)
  BY <1>1 DEF Fresh, NoWork
<1>3. Feeding(s)' => sink'[s] = 1 /\ count[s] = 1 /\ reader'[s][1] = "open"
  BY <1>1 DEF Feeding, Busy, NoWork
<1>4. CASE UNCHANGED <<routeVars, reader>>
  <2>1. Feeding(s)' => Feeding(s)
    BY <1>3, <1>4 DEF Feeding, routeVars
  <2>2. QED BY <1>1, <1>2, <1>4, <2>1, StillRouted DEF routeVars
<1>5. CASE /\ RemoveRoute(work.session)
           /\ reader' = [reader EXCEPT ![work.session][count[work.session]] = "dropped"]
  <2>1. sink' = [sink EXCEPT ![work.session] = 0]
    BY <1>5 DEF RemoveRoute
  <2>2. work.session = s => ~Feeding(s)'
    BY <1>0, <1>3, <2>1 DEF RouteTypes
  <2>3. work.session # s /\ Feeding(s)' => Feeding(s)
    BY <1>0, <1>3, <1>5, <2>1 DEF Feeding, RouteTypes, ReaderTypes
  <2>4. QED BY <1>0, <1>1, <1>2, <1>5, <2>2, <2>3, RouteRemoved
<1>6. QED BY <1>4, <1>5 DEF AttachDone

LEMMA EnsureDoneKept ==
  ASSUME TypeOK, TypeOK', Stage, NEW s \in Sessions, Path(s), count[s] <= 1, EnsureDone
  PROVE  Path(s)'
<1> DEFINE t == work.session
<1>0. /\ RouteTypes /\ ReaderTypes /\ RpcTypes /\ t \in Sessions /\ count[t] \in Readers
      /\ 1 \in Readers
  BY Types, WorkShape, PathTypes DEF EnsureDone, Busy, Stage
<1>1. UNCHANGED <<daemonVars, wire, events, base, lost, count>> /\ work' = NoWork /\ Busy("ensure")
  BY DEF EnsureDone
<1>2. ~Fresh(s)' \/ Fresh(s)
  BY <1>1 DEF Fresh, NoWork
<1>3. Feeding(s)' => sink'[s] = 1 /\ count[s] = 1 /\ reader'[s][1] = "open"
  BY <1>1 DEF Feeding, Busy, NoWork
<1>4. CASE reader' = [reader EXCEPT ![t][count[t]] = "dropped"] /\ UNCHANGED <<routeVars, got>>
  <2>1. Feeding(s)' => Feeding(s)
    <3>1. CASE t # s
      BY <1>0, <1>3, <1>4, <3>1 DEF Feeding, ReaderTypes, routeVars
    <3>2. CASE t = s
      BY <1>0, <1>3, <1>4, <3>2 DEF ReaderTypes
    <3>3. QED BY <3>1, <3>2
  <2>2. QED BY <1>1, <1>2, <1>4, <2>1, StillRouted DEF routeVars
<1>5. CASE Install(t, count[t]) /\ UNCHANGED reader
  <2>1. CASE t # s
    <3>1. /\ pending'[s] = pending[s] /\ sink'[s] = sink[s]
      BY <1>0, <1>5, <2>1 DEF Install, RouteTypes
    <3>2. got'[s] = got[s]
      BY <1>0, <1>5, <2>1 DEF Install, ReaderTypes
    <3>3. Feeding(s)' => Feeding(s)
      BY <1>3, <1>5, <3>1 DEF Feeding
    <3>4. QED BY <1>1, <1>2, <3>1, <3>2, <3>3, StillRouted
  <2>2. CASE t = s
    <3>1. count[s] = 1
      BY <1>0, <2>2, PathTypes DEF Readers
    <3>2. pending'[s] = <<>>
      BY <1>0, <1>5, <2>2 DEF Install, RouteTypes
    <3>3. Placed(s) /\ Queues(s)
      BY DEF Path
    <3>4. Buffered(s)' = {} /\ Queued(s)' = Queued(s) /\ OnWire(s)' = OnWire(s) /\ Ahead(s)' = Ahead(s)
      BY <1>1, <3>2 DEF Buffered, Queued, OnWire, Ahead, Range, daemonVars
    <3>5. UNCHANGED <<count[s], base[s][1], out[s], attached[s], lost[s]>>
      BY <1>1 DEF daemonVars
    <3>6. CASE reader[s][1] = "open"
      <4>1. got'[s][1] = got[s][1] \o pending[s]
        <5>1. got' = [got EXCEPT ![s][1] = got[s][1] \o pending[s]]
          BY <1>5, <2>2, <3>1, <3>6 DEF Install
        <5>2. got \in [Sessions -> [Readers -> Seq(Chunks)]]
          BY <1>0 DEF ReaderTypes
        <5>3. QED BY <1>0, <5>1, <5>2
      <4>2. sink'[s] = 1
        BY <1>0, <1>5, <2>2, <3>1, <3>6 DEF Install, RouteTypes
      <4>3. Feeding(s)' /\ Feeding(s)
        BY <1>1, <1>5, <2>2, <3>1, <3>6, <4>2 DEF Feeding
      <4>4. Rising(got'[s][1]) /\ Got(s)' = Got(s) \union Buffered(s)
        <5>1. /\ got[s][1] \in Seq(Nat) /\ pending[s] \in Seq(Nat) /\ Rising(got[s][1])
              /\ Rising(pending[s]) /\ Below(Range(got[s][1]), Range(pending[s]))
          BY <3>3, PathTypes DEF Placed, Queues, Got, Buffered, Below
        <5>2. QED BY <4>1, <5>1, RisingConcat DEF Got, Buffered
      <4>5. Known(s)' = Known(s)
        BY <3>4, <4>4 DEF Known
      <4>6. Placed(s)'
        BY <1>1, <3>2, <3>3, <4>4 DEF Placed, Rising, daemonVars
      <4>7. Queues(s)'
        BY <3>3, <3>4, <4>4 DEF Queues, Below
      <4>8. QED BY <1>2, <3>5, <4>3, <4>5, <4>6, <4>7, Moves
    <3>7. CASE reader[s][1] # "open"
      <4>1. got'[s][1] = got[s][1]
        BY <1>0, <1>5, <2>2, <3>1, <3>7 DEF Install
      <4>2. ~Feeding(s)'
        BY <1>3, <1>5, <3>7
      <4>3. Got(s)' = Got(s)
        BY <4>1 DEF Got
      <4>4. Known(s)' \subseteq Known(s)
        BY <3>4, <4>3 DEF Known
      <4>5. Placed(s)'
        BY <1>1, <3>2, <3>3, <4>1 DEF Placed, Rising, daemonVars
      <4>6. Queues(s)'
        BY <3>3, <3>4, <4>3 DEF Queues, Below
      <4>7. QED BY <1>2, <3>5, <4>1, <4>2, <4>4, <4>5, <4>6, Moves
    <3>8. QED BY <3>6, <3>7
  <2>3. QED BY <2>1, <2>2
<1>6. QED BY <1>4, <1>5 DEF EnsureDone

(* The others: an exit, the end of a kill, a reader that is dropped.        *)
LEMMA RestKept ==
  ASSUME TypeOK, TypeOK', NEW s \in Sessions, Path(s),
         (\E t \in Sessions : Exit(t)) \/ KillDone \/ UNCHANGED vars
           \/ \E t \in Sessions, k \in Readers : DropReader(t, k)
  PROVE  Path(s)'
<1>0. ReaderTypes /\ 1 \in Readers
  BY Types, PathTypes
<1>1. UNCHANGED <<out, chan, attached, wire, events, sink, pending, count, base, got, lost, request>>
  BY DEF Exit, KillDone, DropReader, rpcVars, daemonVars, routeVars, readerVars, vars
<1>2. work' = work \/ work' = NoWork
  BY DEF Exit, KillDone, DropReader, rpcVars, vars
<1>3. reader'[s][1] = "open" => reader[s][1] = "open"
  <2>1. CASE reader' = reader
    BY <2>1
  <2>2. ASSUME NEW t \in Sessions, NEW k \in Readers, DropReader(t, k)
        PROVE  reader'[s][1] = "open" => reader[s][1] = "open"
    <3>1. reader' = [reader EXCEPT ![t][k] = "dropped"]
      BY <2>2 DEF DropReader
    <3>2. reader \in [Sessions -> [Readers -> {"none", "open", "dropped"}]]
      BY <1>0 DEF ReaderTypes
    <3>3. reader'[s][1] \in {reader[s][1], "dropped"}
      BY <1>0, <3>1, <3>2
    <3>4. QED BY <3>3
  <2>3. QED BY <2>1, <2>2 DEF Exit, KillDone, readerVars, vars
<1>4. Fresh(s)' => Fresh(s)
  BY <1>1, <1>2 DEF Fresh, NoWork
<1>5. Feeding(s)' => Feeding(s)
  BY <1>1, <1>2, <1>3 DEF Feeding, Busy, NoWork
<1>6. QED BY <1>1, <1>4, <1>5, StillQueues

-----------------------------------------------------------------------------
LEMMA PathsKept ==
  ASSUME TypeOK, TypeOK', Stage, Drained, Paths, [Next]_vars
  PROVE  Paths'
<1> SUFFICES ASSUME NEW s \in Sessions, count'[s] <= 1 PROVE Path(s)'
  BY DEF Paths
<1>1. count[s] <= 1
  <2>1. count[s] \in Nat /\ ReaderTypes
    BY Types, PathTypes
  <2>2. count'[s] >= count[s]
    <3>1. count' = count \/ \E t \in Sessions : count' = [count EXCEPT ![t] = @ + 1]
      BY DEF Next, Daemon, Shim, Emit, Exit, Forward, DaemonAttach, DaemonKill, Respond, ReadFrame,
         EventLoop, EnsureBegin, AttachBegin, NewReader, KillBegin, DropReader, EnsureDone, AttachDone,
         KillDone, readerVars, vars
    <3>2. DOMAIN count = Sessions
      BY <2>1 DEF ReaderTypes
    <3>3. count'[s] \in {count[s], count[s] + 1}
      BY <3>1, <3>2
    <3>4. QED BY <2>1, <3>3
  <2>3. count'[s] \in Nat
    BY TypesNext, BoundsAssumption DEF ReaderTypes
  <2>4. QED BY <2>1, <2>2, <2>3
<1>2. Path(s)
  BY <1>1 DEF Paths
<1>3. CASE \E t \in Sessions : Emit(t)
  BY <1>1, <1>2, <1>3, EmitKept
<1>4. CASE \E t \in Sessions : Forward(t)
  BY <1>2, <1>4, ForwardKept
<1>5. CASE DaemonAttach \/ DaemonKill \/ Respond
  BY <1>1, <1>2, <1>5, DaemonAttachKept, DaemonKillKept, RespondKept
<1>6. CASE ReadFrame \/ EventLoop
  BY <1>1, <1>2, <1>6, ReadFrameKept, EventLoopKept
<1>7. CASE \E t \in Sessions : EnsureBegin(t) \/ AttachBegin(t) \/ KillBegin(t)
  BY <1>2, <1>7, EnsureBeginKept, AttachBeginKept, KillBeginKept
<1>8. CASE EnsureDone \/ AttachDone
  BY <1>1, <1>2, <1>8, EnsureDoneKept, AttachDoneKept
<1>9. CASE (\E t \in Sessions : Exit(t)) \/ KillDone \/ UNCHANGED vars
             \/ \E t \in Sessions, k \in Readers : DropReader(t, k)
  BY <1>2, <1>9, RestKept
<1>10. QED
  BY <1>3, <1>4, <1>5, <1>6, <1>7, <1>8, <1>9 DEF Next, Daemon, Shim

LEMMA InitInv == Init => IInv
<1> SUFFICES ASSUME Init PROVE IInv
  OBVIOUS
<1>1. 0 \in 0 .. MaxAttach /\ 0 \in 0 .. MaxOut /\ 1 \in 0 .. MaxOut /\ 1 \in Readers
  BY BoundsAssumption DEF Readers
<1>2. <<>> \in Seq(Chunks) /\ <<>> \in Seq(Frames) /\ <<>> \in Seq(Outputs) /\ Len(<<>>) = 0
  OBVIOUS
<1>3. Responses = {} /\ Busy("none") /\ ~Busy("ensure") /\ ~Busy("attach") /\ ~Busy("kill")
  BY DEF Init, Responses, Busy, NoWork
<1>4. DaemonTypes /\ RpcTypes /\ WireTypes /\ OneRequest /\ Capacities
  BY <1>1, <1>2, <1>3, BoundsAssumption
     DEF Init, DaemonTypes, RpcTypes, Work, WireTypes, OneRequest, Capacities
<1>5. RouteTypes /\ ReaderTypes
  BY <1>1, <1>2 DEF Init, RouteTypes, ReaderTypes
<1>6. Stage /\ Drained
  BY <1>3 DEF Init, Stage, Drained
<1>7. ASSUME NEW s \in Sessions PROVE Path(s)
  <2>1. /\ got[s][1] = <<>> /\ pending[s] = <<>> /\ chan[s] = <<>> /\ events = <<>> /\ wire = <<>>
        /\ count[s] = 0 /\ attached[s] = 0 /\ base[s][1] = 0 /\ out[s] \in {0, 1}
    BY <1>1 DEF Init
  <2>2. Known(s) = {}
    BY <2>1 DEF Known, Got, Buffered, Queued, OnWire, Ahead, Range, Carried
  <2>3. Placed(s)
    BY <2>1 DEF Placed, Rising, RisingFor
  <2>4. Queues(s)
    BY <2>2 DEF Queues, Known, Below
  <2>5. Unfed(s) /\ Limits(s) /\ Covered(s)
    BY <2>1, <2>2 DEF Unfed, Limits, Covered, Feeding
  <2>6. Exact(s)
    BY <2>1 DEF Exact
  <2>7. QED BY <2>3, <2>4, <2>5, <2>6 DEF Path
<1>8. QED BY <1>4, <1>5, <1>6, <1>7, Types DEF IInv, Paths

LEMMA NextInv == IInv /\ [Next]_vars => IInv'
<1> SUFFICES ASSUME IInv, [Next]_vars PROVE IInv'
  OBVIOUS
<1>1. TypeOK /\ Stage /\ Drained /\ Paths
  BY DEF IInv
<1>2. TypeOK' /\ Stage'
  BY <1>1, TypesNext, CapacitiesKept, DaemonTypesKept, WireTypesKept, RpcKept, RouteTypesKept, ReaderTypesKept
<1>3. Drained' /\ Paths'
  BY <1>1, <1>2, DrainedKept, PathsKept
<1>4. QED BY <1>2, <1>3 DEF IInv

LEMMA Inductive == Spec => []IInv
BY InitInv, NextInv, PTL DEF Spec

-----------------------------------------------------------------------------
(* The variables keep their types, and the worker's request is in one place, *)
(* for any number of sessions, attachments and chunks.                      *)
THEOREM TypeCorrect == Spec => []TypeOK
BY Inductive, PTL DEF IInv

(* A reader is sent exactly what follows its snapshot, in order, but for the *)
(* chunks that found the attachment's channel full or overran the buffer    *)
(* for output without a sink, however the frames, the response and the      *)
(* steps of worker and event loop interleave.                               *)
THEOREM StreamExact == Spec => []ExactStream
<1>1. IInv => ExactStream
  BY DEF IInv, Paths, Path, Exact, ExactStream
<1>2. QED BY <1>1, Inductive, PTL

-----------------------------------------------------------------------------
(* The number of chunks buffered, when one joins, when one leaves and when  *)
(* a session's buffer goes.                                                 *)
LEMMA InBuffers ==
  ASSUME NEW p, NEW s \in Sessions, NEW i
  PROVE  <<s, i>> \in Buffers(p) <=> i \in DOMAIN p[s]
BY DEF Buffers

LEMMA BuffersArePairs ==
  ASSUME NEW p, NEW c \in Buffers(p)
  PROVE  \E s \in Sessions : \E i \in DOMAIN p[s] : c = <<s, i>>
BY DEF Buffers

LEMMA NothingBuffered ==
  Buffers([s \in Sessions |-> <<>>]) = {}
<1>1. ASSUME NEW c \in Buffers([s \in Sessions |-> <<>>]) PROVE FALSE
  <2>1. PICK s \in Sessions : \E i \in DOMAIN [t \in Sessions |-> <<>>][s] : c = <<s, i>>
    BY BuffersArePairs
  <2>2. DOMAIN <<>> = 1 .. 0
    OBVIOUS
  <2>3. QED BY <2>1, <2>2
<1>2. QED BY <1>1

(* A chunk joins.                                                           *)
LEMMA BuffersAppend ==
  ASSUME NEW p \in [Sessions -> Seq(Chunks)], NEW s \in Sessions, NEW n \in Chunks,
         IsFiniteSet(Buffers(p))
  PROVE  LET q == [p EXCEPT ![s] = Append(p[s], n)] IN
         IsFiniteSet(Buffers(q)) /\ Cardinality(Buffers(q)) = Cardinality(Buffers(p)) + 1
<1> DEFINE q == [p EXCEPT ![s] = Append(p[s], n)]
           c == <<s, Len(p[s]) + 1>>
<1>1. /\ Len(p[s]) \in Nat /\ DOMAIN p[s] = 1 .. Len(p[s])
      /\ DOMAIN q[s] = 1 .. Len(p[s]) + 1 /\ \A t \in Sessions \ {s} : q[t] = p[t]
  OBVIOUS
<1>2. DOMAIN q[s] = DOMAIN p[s] \union {Len(p[s]) + 1} /\ Len(p[s]) + 1 \notin DOMAIN p[s]
  BY <1>1
<1> HIDE DEF q
<1>3. c \notin Buffers(p)
  BY <1>2, InBuffers
<1>4. Buffers(q) = Buffers(p) \union {c}
  <2>1. ASSUME NEW d \in Buffers(q) PROVE d \in Buffers(p) \union {c}
    <3>1. PICK t \in Sessions : \E i \in DOMAIN q[t] : d = <<t, i>>
      BY BuffersArePairs
    <3>2. PICK i \in DOMAIN q[t] : d = <<t, i>>
      BY <3>1
    <3>3. CASE t = s
      BY <3>2, <3>3, <1>2, InBuffers
    <3>4. CASE t # s
      BY <3>2, <3>4, <1>1, InBuffers
    <3>5. QED BY <3>3, <3>4
  <2>2. ASSUME NEW d \in Buffers(p) PROVE d \in Buffers(q)
    <3>1. PICK t \in Sessions : \E i \in DOMAIN p[t] : d = <<t, i>>
      BY BuffersArePairs
    <3>2. PICK i \in DOMAIN p[t] : d = <<t, i>>
      BY <3>1
    <3>3. i \in DOMAIN q[t]
      BY <1>1, <1>2
    <3>4. QED BY <3>2, <3>3, InBuffers
  <2>3. c \in Buffers(q)
    BY <1>2, InBuffers
  <2>4. QED BY <2>1, <2>2, <2>3
<1>5. IsFiniteSet(Buffers(q)) /\ Cardinality(Buffers(q)) = Cardinality(Buffers(p)) + 1
  <2> HIDE DEF c
  <2>1. QED BY <1>3, <1>4, FS_AddElement
<1>6. QED BY <1>5 DEF q

(* A chunk leaves.                                                          *)
LEMMA BuffersTail ==
  ASSUME NEW p \in [Sessions -> Seq(Chunks)], NEW s \in Sessions, p[s] # <<>>,
         IsFiniteSet(Buffers(p))
  PROVE  LET q == [p EXCEPT ![s] = Tail(p[s])] IN
         /\ q # p /\ IsFiniteSet(Buffers(q))
         /\ Cardinality(Buffers(p)) \in Nat /\ Cardinality(Buffers(p)) >= 1
         /\ Cardinality(Buffers(q)) = Cardinality(Buffers(p)) - 1
<1> DEFINE q == [p EXCEPT ![s] = Tail(p[s])]
           c == <<s, Len(p[s])>>
<1>1. /\ Len(p[s]) \in Nat /\ Len(p[s]) >= 1 /\ DOMAIN p[s] = 1 .. Len(p[s])
      /\ DOMAIN q[s] = 1 .. Len(p[s]) - 1 /\ \A t \in Sessions \ {s} : q[t] = p[t]
  OBVIOUS
<1>2. DOMAIN q[s] = DOMAIN p[s] \ {Len(p[s])} /\ Len(p[s]) \in DOMAIN p[s]
  BY <1>1
<1> HIDE DEF q
<1>3. c \in Buffers(p)
  BY <1>2, InBuffers
<1>4. Buffers(q) = Buffers(p) \ {c}
  <2>1. ASSUME NEW d \in Buffers(p), d # c PROVE d \in Buffers(q)
    <3>1. PICK t \in Sessions : \E i \in DOMAIN p[t] : d = <<t, i>>
      BY BuffersArePairs
    <3>2. PICK i \in DOMAIN p[t] : d = <<t, i>>
      BY <3>1
    <3>3. i \in DOMAIN q[t]
      BY <3>2, <2>1, <1>1, <1>2
    <3>4. QED BY <3>2, <3>3, InBuffers
  <2>2. ASSUME NEW d \in Buffers(q) PROVE d \in Buffers(p) /\ d # c
    <3>1. PICK t \in Sessions : \E i \in DOMAIN q[t] : d = <<t, i>>
      BY BuffersArePairs
    <3>2. PICK i \in DOMAIN q[t] : d = <<t, i>>
      BY <3>1
    <3>3. i \in DOMAIN p[t] /\ d # c
      BY <3>2, <1>1, <1>2
    <3>4. QED BY <3>2, <3>3, InBuffers
  <2>3. QED BY <2>1, <2>2
<1>5. /\ IsFiniteSet(Buffers(q)) /\ Cardinality(Buffers(p)) \in Nat
      /\ Cardinality(Buffers(q)) = Cardinality(Buffers(p)) - 1
  <2> HIDE DEF c
  <2>1. QED BY <1>3, <1>4, FS_RemoveElement, FS_CardinalityType
<1>6. Cardinality(Buffers(p)) >= 1
  BY <1>3, <1>5, FS_EmptySet
<1>7. q # p
  BY <1>2
<1>8. QED BY <1>5, <1>6, <1>7 DEF q

(* A session's whole buffer goes.                                           *)
LEMMA BuffersCleared ==
  ASSUME NEW p \in [Sessions -> Seq(Chunks)], NEW s \in Sessions, IsFiniteSet(Buffers(p))
  PROVE  LET q == [p EXCEPT ![s] = <<>>] IN
         /\ IsFiniteSet(Buffers(q)) /\ Cardinality(Buffers(q)) \in Nat
         /\ Len(p[s]) \in Nat /\ Cardinality(Buffers(p)) = Cardinality(Buffers(q)) + Len(p[s])
<1> DEFINE q == [p EXCEPT ![s] = <<>>]
           C == {s} \X (1 .. Len(p[s]))
<1>1. /\ Len(p[s]) \in Nat /\ DOMAIN p[s] = 1 .. Len(p[s])
      /\ DOMAIN q[s] = {} /\ \A t \in Sessions \ {s} : q[t] = p[t]
  <2>1. DOMAIN <<>> = 1 .. 0 /\ 1 .. 0 = {}
    OBVIOUS
  <2>2. QED BY <2>1
<1> HIDE DEF q
<1>2. Buffers(p) = Buffers(q) \union C
  <2>1. ASSUME NEW d \in Buffers(p) PROVE d \in Buffers(q) \union C
    <3>1. PICK t \in Sessions : \E i \in DOMAIN p[t] : d = <<t, i>>
      BY BuffersArePairs
    <3>2. PICK i \in DOMAIN p[t] : d = <<t, i>>
      BY <3>1
    <3>3. CASE t = s
      BY <3>2, <3>3, <1>1
    <3>4. CASE t # s
      BY <3>2, <3>4, <1>1, InBuffers
    <3>5. QED BY <3>3, <3>4
  <2>2. C \subseteq Buffers(p)
    BY <1>1, InBuffers
  <2>3. ASSUME NEW d \in Buffers(q) PROVE d \in Buffers(p)
    <3>1. PICK t \in Sessions : \E i \in DOMAIN q[t] : d = <<t, i>>
      BY BuffersArePairs
    <3>2. QED BY <3>1, <1>1, InBuffers
  <2>4. QED BY <2>1, <2>2, <2>3
<1>3. Buffers(q) \intersect C = {}
  <2>1. ASSUME NEW d \in Buffers(q), d \in C PROVE FALSE
    <3>1. PICK i \in 1 .. Len(p[s]) : d = <<s, i>>
      BY <2>1
    <3>2. QED BY <2>1, <3>1, <1>1, InBuffers
  <2>2. QED BY <2>1
<1>4. IsFiniteSet(C) /\ Cardinality(C) = Len(p[s])
  <2> DEFINE n == Len(p[s])
  <2>1. IsFiniteSet(1 .. n) /\ Cardinality(1 .. n) = n
    <3>1. n \in Int /\ 1 \in Int /\ (IF 1 > n THEN 0 ELSE n - 1 + 1) = n
      BY <1>1
    <3> HIDE DEF n
    <3>2. QED BY <3>1, FS_Interval
  <2>2. IsFiniteSet({s}) /\ Cardinality({s}) = 1
    BY FS_Singleton
  <2>3. IsFiniteSet(C) /\ Cardinality(C) = 1 * n
    <3> DEFINE T == 1 .. n
    <3>1. IsFiniteSet(T) /\ Cardinality(T) = n
      BY <2>1
    <3> HIDE DEF T, n
    <3>2. IsFiniteSet({s} \X T) /\ Cardinality({s} \X T) = Cardinality({s}) * Cardinality(T)
      BY <2>2, <3>1, FS_Product
    <3>3. QED BY <2>2, <3>1, <3>2 DEF T, n
  <2>4. 1 * n = n
    <3>1. n \in Nat
      BY <1>1
    <3> HIDE DEF n
    <3>2. QED BY <3>1
  <2>5. QED BY <2>3, <2>4
<1> HIDE DEF C
<1>5. IsFiniteSet(Buffers(q)) /\ Cardinality(Buffers(q)) \in Nat
  BY <1>2, FS_Subset, FS_CardinalityType
<1>6. Cardinality(Buffers(p)) = Cardinality(Buffers(q)) + Len(p[s])
  <2>1. Cardinality(Buffers(p)) = Cardinality(Buffers(q)) + Cardinality(C) - Cardinality({})
    BY <1>2, <1>3, <1>4, <1>5, FS_Union
  <2>2. QED BY <2>1, <1>1, <1>4, <1>5, FS_EmptySet
<1>7. QED BY <1>1, <1>5, <1>6 DEF q

(* A chunk is buffered: one leaves for lack of budget, one of the session   *)
(* for lack of room, and it joins.                                          *)
LEMMA ToPendingAccounted ==
  ASSUME RouteTypes, Accounted, NEW s \in Sessions, NEW n \in Chunks, ToPending(s, n)
  PROVE  Accounted'
<1>0. /\ pending \in [Sessions -> Seq(Chunks)] /\ pendingBytes \in Nat
      /\ Budget \in Nat \ {0} /\ ChunkLimit \in Nat \ {0}
  BY BoundsAssumption DEF RouteTypes
<1>1. PICK p \in Evicted :
        LET full == Len(p[s]) >= ChunkLimit
            kept == IF full THEN Tail(p[s]) ELSE p[s]
            left == SaturatingSub(pendingBytes, IF p = pending THEN 0 ELSE 1) IN
        /\ pending' = [p EXCEPT ![s] = Append(kept, n)]
        /\ pendingBytes' = SaturatingSub(left, IF full THEN 1 ELSE 0) + 1
  BY DEF ToPending
<1> DEFINE full == Len(p[s]) >= ChunkLimit
           kept == IF full THEN Tail(p[s]) ELSE p[s]
           left == SaturatingSub(pendingBytes, IF p = pending THEN 0 ELSE 1)
           q == [p EXCEPT ![s] = kept]
           rest == SaturatingSub(left, IF full THEN 1 ELSE 0)
<1>2. /\ p \in [Sessions -> Seq(Chunks)] /\ IsFiniteSet(Buffers(p))
      /\ left = Cardinality(Buffers(p)) /\ left \in Nat /\ left < Budget
      /\ \A t \in Sessions : Len(p[t]) <= ChunkLimit
  <2>1. CASE pendingBytes < Budget
    <3>1. p = pending
      BY <2>1 DEF Evicted
    <3>2. left = pendingBytes
      BY <3>1, <1>0 DEF SaturatingSub
    <3>3. QED BY <2>1, <3>1, <3>2, <1>0 DEF Accounted
  <2>2. CASE ~(pendingBytes < Budget)
    <3>1. PICK u \in Sessions : pending[u] # <<>> /\ p = [pending EXCEPT ![u] = Tail(pending[u])]
      BY <2>2 DEF Evicted
    <3>2. /\ p # pending /\ IsFiniteSet(Buffers(p)) /\ Cardinality(Buffers(pending)) >= 1
          /\ Cardinality(Buffers(p)) = Cardinality(Buffers(pending)) - 1
      BY <3>1, <1>0, BuffersTail DEF Accounted
    <3>3. left = Cardinality(Buffers(p)) /\ left \in Nat /\ left < Budget
      BY <3>2, <1>0 DEF Accounted, SaturatingSub
    <3>4. Tail(pending[u]) \in Seq(Chunks) /\ Len(Tail(pending[u])) = Len(pending[u]) - 1
      BY <3>1, <1>0
    <3>5. p \in [Sessions -> Seq(Chunks)] /\ p[u] = Tail(pending[u])
          /\ \A t \in Sessions \ {u} : p[t] = pending[t]
      BY <3>1, <3>4, <1>0
    <3>6. \A t \in Sessions : Len(p[t]) <= ChunkLimit
      <4>1. Len(pending[u]) \in Nat /\ Len(pending[u]) <= ChunkLimit
        BY <1>0 DEF Accounted
      <4>2. Len(p[u]) <= ChunkLimit
        BY <4>1, <3>4, <3>5, <1>0
      <4>3. QED BY <4>2, <3>5 DEF Accounted
    <3>7. QED BY <3>2, <3>3, <3>5, <3>6
  <2>3. QED BY <2>1, <2>2
<1> HIDE DEF left
<1>3. /\ q \in [Sessions -> Seq(Chunks)] /\ q[s] = kept /\ kept \in Seq(Chunks)
      /\ IsFiniteSet(Buffers(q)) /\ rest = Cardinality(Buffers(q)) /\ rest \in Nat /\ rest < Budget
      /\ Len(kept) \in Nat /\ Len(kept) < ChunkLimit
      /\ \A t \in Sessions \ {s} : q[t] = p[t]
  <2>0. p[s] \in Seq(Chunks) /\ Len(p[s]) \in Nat /\ Len(p[s]) <= ChunkLimit
    BY <1>2
  <2>1. CASE full
    <3>1. p[s] # <<>>
      BY <2>0, <2>1, <1>0
    <3>2. kept = Tail(p[s]) /\ kept \in Seq(Chunks) /\ Len(kept) = Len(p[s]) - 1
      BY <2>0, <2>1, <3>1
    <3>3. /\ IsFiniteSet(Buffers(q)) /\ Cardinality(Buffers(p)) >= 1
          /\ Cardinality(Buffers(q)) = Cardinality(Buffers(p)) - 1
      BY <2>1, <3>1, <1>2, BuffersTail
    <3>4. rest = Cardinality(Buffers(q)) /\ rest \in Nat /\ rest < Budget
      BY <2>1, <3>3, <1>0, <1>2 DEF SaturatingSub
    <3>5. Len(kept) \in Nat /\ Len(kept) < ChunkLimit
      BY <2>0, <2>1, <3>2, <1>0
    <3>6. q \in [Sessions -> Seq(Chunks)] /\ q[s] = kept /\ \A t \in Sessions \ {s} : q[t] = p[t]
      BY <3>2, <1>2
    <3>7. QED BY <3>2, <3>3, <3>4, <3>5, <3>6
  <2>2. CASE ~full
    <3>1. q = p /\ kept = p[s]
      BY <2>2, <1>2
    <3>2. rest = left
      BY <2>2, <1>2 DEF SaturatingSub
    <3>3. Len(p[s]) < ChunkLimit
      BY <2>0, <2>2, <1>0
    <3>4. QED BY <3>1, <3>2, <3>3, <2>0, <1>2
  <2>3. QED BY <2>1, <2>2
<1>4. pending' = [q EXCEPT ![s] = Append(q[s], n)] /\ pendingBytes' = rest + 1
  <2>1. pending' = [p EXCEPT ![s] = Append(kept, n)] /\ pendingBytes' = rest + 1
    BY <1>1 DEF left
  <2>2. QED BY <2>1, <1>2, <1>3
<1> HIDE DEF q, kept, rest, full
<1>5. IsFiniteSet(Buffers(pending')) /\ Cardinality(Buffers(pending')) = rest + 1
  BY <1>3, <1>4, BuffersAppend
<1>6. rest + 1 <= Budget
  BY <1>0, <1>3
<1>7. \A t \in Sessions : Len(pending'[t]) <= ChunkLimit
  <2>1. Len(pending'[s]) <= ChunkLimit
    BY <1>0, <1>3, <1>4
  <2>2. \A t \in Sessions \ {s} : pending'[t] = p[t]
    BY <1>3, <1>4
  <2>3. QED BY <2>1, <2>2, <1>2
<1>8. QED BY <1>4, <1>5, <1>6, <1>7 DEF Accounted, Buffers

(* Every other step leaves the buffers alone or gives one back whole.       *)
LEMMA AccountedKept ==
  ASSUME TypeOK, Stage, Accounted, [Next]_vars
  PROVE  Accounted'
<1>0. /\ RouteTypes /\ WireTypes /\ RpcTypes
      /\ pending \in [Sessions -> Seq(Chunks)] /\ pendingBytes \in Nat /\ Budget \in Nat /\ ChunkLimit \in Nat
  BY Types, BoundsAssumption DEF RouteTypes
<1>1. CASE UNCHANGED <<pending, pendingBytes>>
  BY <1>1 DEF Accounted, Buffers
<1>2. ASSUME NEW s \in Sessions,
             pending' = [pending EXCEPT ![s] = <<>>],
             pendingBytes' = SaturatingSub(pendingBytes, Len(pending[s]))
      PROVE  Accounted'
  <2> DEFINE q == [pending EXCEPT ![s] = <<>>]
             c == Cardinality(Buffers(q))
             l == Len(pending[s])
  <2>1. IsFiniteSet(Buffers(q)) /\ c \in Nat /\ l \in Nat /\ Cardinality(Buffers(pending)) = c + l
    BY <1>0, BuffersCleared DEF Accounted
  <2>2. \A t \in Sessions : Len(q[t]) <= ChunkLimit
    BY <1>0 DEF Accounted
  <2>3. pending' = q /\ pendingBytes' = SaturatingSub(pendingBytes, l)
    BY <1>2
  <2>4. pendingBytes = c + l /\ pendingBytes <= Budget
    BY <2>1 DEF Accounted
  <2> HIDE DEF q, c, l
  <2>5. pendingBytes' = c /\ c <= Budget
    BY <2>1, <2>3, <2>4, <1>0 DEF SaturatingSub
  <2>6. QED BY <2>1, <2>2, <2>3, <2>5 DEF Accounted, Buffers, c
<1>3. CASE EventLoop
  <2> DEFINE s == Head(events).session
             n == Head(events).chunk
  <2>1. s \in Sessions /\ n \in Chunks
    <3>1. Head(events) \in Outputs
      BY <1>3, <1>0 DEF EventLoop, WireTypes
    <3>2. QED BY <3>1 DEF Outputs
  <2> HIDE DEF s, n
  <2>2. CASE ToSink(s, n)
    BY <2>2, <1>1 DEF ToSink
  <2>3. CASE ToPending(s, n)
    BY <2>1, <2>3, <1>0, ToPendingAccounted
  <2>4. QED BY <1>3, <2>2, <2>3 DEF EventLoop, s, n
<1>4. CASE EnsureDone
  <2>1. work.session \in Sessions
    BY <1>4, <1>0, WorkShape DEF EnsureDone, Busy
  <2>2. CASE Install(work.session, count[work.session])
    BY <2>1, <2>2, <1>2 DEF Install
  <2>3. QED BY <1>4, <2>2, <1>1 DEF EnsureDone, routeVars
<1>5. CASE AttachDone
  <2>1. work.session \in Sessions
    BY <1>5, <1>0, WorkShape DEF AttachDone, Busy
  <2>2. CASE RemoveRoute(work.session)
    BY <2>1, <2>2, <1>2 DEF RemoveRoute
  <2>3. QED BY <1>5, <2>2, <1>1 DEF AttachDone, routeVars
<1>6. ASSUME NEW s \in Sessions, AttachBegin(s) PROVE Accounted'
  BY <1>6, <1>2 DEF AttachBegin
<1>7. ASSUME NEW s \in Sessions, KillBegin(s) PROVE Accounted'
  BY <1>7, <1>2 DEF KillBegin, RemoveRoute
<1>8. QED
  BY <1>1, <1>3, <1>4, <1>5, <1>6, <1>7 DEF Next, Daemon, Shim, Emit, Exit, EnsureBegin, Forward,
     DaemonAttach, DaemonKill, Respond, ReadFrame, DropReader, KillDone, routeVars, vars

(* The count of buffered chunks never drifts from what is buffered, and     *)
(* neither limit is passed, whatever is evicted, drained or removed.        *)
THEOREM PendingCounted == Spec => []PendingAccounted
<1>1. Init => Accounted
  <2> SUFFICES ASSUME Init PROVE Accounted
    OBVIOUS
  <2>1. pending = [s \in Sessions |-> <<>>] /\ pendingBytes = 0
    BY DEF Init
  <2>2. IsFiniteSet(Buffers(pending)) /\ Cardinality(Buffers(pending)) = 0
    BY <2>1, NothingBuffered, FS_EmptySet
  <2>3. QED BY <2>1, <2>2, BoundsAssumption DEF Accounted
<1>2. IInv /\ Accounted /\ [Next]_vars => Accounted'
  BY AccountedKept DEF IInv
<1>3. IInv /\ Accounted => PendingAccounted
  BY DEF IInv, Drained, Accounted, PendingAccounted
<1>4. QED BY <1>1, <1>2, <1>3, Inductive, PTL DEF Spec

-----------------------------------------------------------------------------
(* However often a session is attached: what its readers were given, one    *)
(* after the other, and what is on its way to the one whose turn it is.     *)
Delivered(s) == UNION {Range(got[s][k]) : k \in Readers}
Behind(s) == Buffered(s) \union Queued(s) \union OnWire(s) \union Ahead(s)

(* Every reader gets its chunks in order, and after the readers before it.  *)
Turns(s) ==
  /\ \A k \in Readers : Rising(got[s][k])
  /\ \A k, l \in Readers : k < l => Below(Range(got[s][k]), Range(got[s][l]))
InTurn == \A s \in Sessions : Turns(s)

(* No reader after the one that has the sink was given anything, nor the    *)
(* one that an Ensure under way is to install.                              *)
Ensuring(s) == Busy("ensure") /\ work.session = s
Latest(s) ==
  /\ sink[s] <= count[s] /\ (Ensuring(s) => sink[s] < count[s])
  /\ \A k \in Readers : got[s][k] # <<>> =>
       /\ k <= count[s] /\ (sink[s] # 0 => k <= sink[s])
       /\ Ensuring(s) => k < count[s]

(* What is on its way is in order, place by place.                          *)
Ordered(s) == /\ Rising(pending[s]) /\ Rising(chan[s])
              /\ RisingFor(events, s) /\ RisingFor(wire, s)
Nearer(s) ==
  /\ Below(Buffered(s), Queued(s) \union OnWire(s) \union Ahead(s))
  /\ Below(Queued(s), OnWire(s) \union Ahead(s))
  /\ Below(OnWire(s), Ahead(s))
Line(s) ==
  /\ Ordered(s) /\ Nearer(s) /\ Below(Delivered(s), Behind(s))
  /\ \A n \in Delivered(s) \union Behind(s) : n <= out[s]

OneLine(s) == Turns(s) /\ Latest(s) /\ Line(s)
Lines == \A s \in Sessions : OneLine(s)

LEMMA LineTypes ==
  ASSUME TypeOK, NEW s \in Sessions
  PROVE  /\ got \in [Sessions -> [Readers -> Seq(Chunks)]] /\ \A k \in Readers : got[s][k] \in Seq(Nat)
         /\ pending[s] \in Seq(Nat) /\ chan[s] \in Seq(Nat)
         /\ wire \in Seq(Frames) /\ events \in Seq(Frames)
         /\ Delivered(s) \subseteq Nat /\ Behind(s) \subseteq Nat
         /\ out[s] \in Nat /\ count[s] \in Nat /\ sink[s] \in Nat
<1>1. RouteTypes /\ ReaderTypes
  BY Types
<1>2. got \in [Sessions -> [Readers -> Seq(Chunks)]]
  BY <1>1 DEF ReaderTypes
<1>3. ASSUME NEW k \in Readers PROVE got[s][k] \in Seq(Nat) /\ Range(got[s][k]) \subseteq Nat
  <2>1. got[s][k] \in Seq(Chunks)
    BY <1>2
  <2>2. QED BY <2>1, ChunkSequence
<1>4. Delivered(s) \subseteq Nat
  BY <1>3 DEF Delivered
<1>5. Behind(s) \subseteq Nat
  BY PathTypes DEF Behind, Known
<1>6. sink[s] \in Nat
  BY <1>1, BoundsAssumption DEF RouteTypes
<1>7. QED BY <1>2, <1>3, <1>4, <1>5, <1>6, PathTypes

(* Nothing is delivered, and nothing new comes on its way.                  *)
LEMMA LineMoves ==
  ASSUME TypeOK, NEW s \in Sessions, OneLine(s), got'[s] = got[s], out'[s] = out[s],
         count'[s] \in {count[s], count[s] + 1}, sink'[s] \in {sink[s], 0},
         Ensuring(s)' => count'[s] = count[s] + 1 \/ Ensuring(s),
         Ordered(s)', Nearer(s)', Behind(s)' \subseteq Behind(s)
  PROVE  OneLine(s)'
<1>1. Delivered(s)' = Delivered(s)
  BY DEF Delivered
<1>2. Turns(s)'
  BY DEF OneLine, Turns
<1>3. Latest(s)'
  <2>1. ASSUME NEW k \in Readers, got[s][k] # <<>>
        PROVE  k <= count'[s] /\ (sink'[s] # 0 => k <= sink'[s]) /\ (Ensuring(s)' => k < count'[s])
    <3>1. k <= count[s] /\ (sink[s] # 0 => k <= sink[s]) /\ (Ensuring(s) => k < count[s])
      BY <2>1 DEF OneLine, Latest
    <3>2. k \in Nat /\ count[s] \in Nat
      BY LineTypes DEF Readers
    <3>3. QED BY <3>1, <3>2
  <2>2. sink'[s] <= count'[s] /\ (Ensuring(s)' => sink'[s] < count'[s])
    <3>1. sink[s] <= count[s] /\ (Ensuring(s) => sink[s] < count[s])
      BY DEF OneLine, Latest
    <3>2. sink[s] \in Nat /\ count[s] \in Nat
      BY LineTypes
    <3>3. QED BY <3>1, <3>2
  <2>3. QED BY <2>1, <2>2 DEF Latest
<1>4. Line(s)'
  <2>1. Below(Delivered(s), Behind(s)) /\ \A n \in Delivered(s) \union Behind(s) : n <= out[s]
    BY DEF OneLine, Line
  <2>2. QED BY <1>1, <2>1 DEF Line, Below
<1>5. QED BY <1>2, <1>3, <1>4 DEF OneLine

(* Nothing of the session moves.                                            *)
LEMMA LineStill ==
  ASSUME TypeOK, NEW s \in Sessions, OneLine(s),
         UNCHANGED <<got[s], out[s], pending[s], chan[s]>>,
         RisingFor(events', s), RisingFor(wire', s), Queued(s)' = Queued(s), OnWire(s)' = OnWire(s),
         count'[s] \in {count[s], count[s] + 1}, sink'[s] \in {sink[s], 0},
         Ensuring(s)' => count'[s] = count[s] + 1 \/ Ensuring(s)
  PROVE  OneLine(s)'
<1>1. Buffered(s)' = Buffered(s) /\ Ahead(s)' = Ahead(s) /\ Ordered(s) /\ Nearer(s)
  BY DEF Buffered, Ahead, OneLine, Line
<1>2. Ordered(s)'
  BY <1>1 DEF Ordered
<1>3. Nearer(s)' /\ Behind(s)' = Behind(s)
  BY <1>1 DEF Nearer, Behind
<1>4. QED BY <1>2, <1>3, LineMoves

LEMMA LineStillQueues ==
  ASSUME TypeOK, NEW s \in Sessions, OneLine(s), UNCHANGED <<wire, events>>,
         UNCHANGED <<got[s], out[s], pending[s], chan[s]>>,
         count'[s] \in {count[s], count[s] + 1}, sink'[s] \in {sink[s], 0},
         Ensuring(s)' => count'[s] = count[s] + 1 \/ Ensuring(s)
  PROVE  OneLine(s)'
<1>1. RisingFor(events', s) /\ RisingFor(wire', s) /\ Queued(s)' = Queued(s) /\ OnWire(s)' = OnWire(s)
  BY DEF OneLine, Line, Ordered, Queued, OnWire
<1>2. QED BY <1>1, LineStill

LEMMA EmitLine ==
  ASSUME TypeOK, NEW s \in Sessions, OneLine(s), NEW t \in Sessions, Emit(t)
  PROVE  OneLine(s)'
<1>0. DaemonTypes
  BY Types
<1>1. UNCHANGED <<work, wire, events, sink, pending, count, got>>
  BY DEF Emit, rpcVars, routeVars, readerVars
<1>2. Ensuring(s)' <=> Ensuring(s)
  BY <1>1 DEF Ensuring, Busy
<1>3. CASE t # s
  <2>1. out'[s] = out[s] /\ chan'[s] = chan[s]
    BY <1>3, <1>0 DEF Emit, Offer, DaemonTypes
  <2>2. QED BY <1>1, <1>2, <2>1, LineStillQueues
<1>4. CASE t = s
  <2> DEFINE n == out[s] + 1
  <2>1. out'[s] = n /\ out[s] \in Nat /\ chan[s] \in Seq(Nat) /\ Delivered(s) \union Behind(s) \subseteq Nat
    BY <1>4, <1>0, LineTypes DEF Emit, DaemonTypes
  <2>2. Turns(s) /\ Latest(s) /\ Ordered(s) /\ Nearer(s) /\ Below(Delivered(s), Behind(s))
    BY DEF OneLine, Line
  <2>3. \A m \in Delivered(s) \union Behind(s) : m < n /\ m <= n
    BY <2>1 DEF OneLine, Line
  <2>4. /\ Delivered(s)' = Delivered(s) /\ Buffered(s)' = Buffered(s)
        /\ Queued(s)' = Queued(s) /\ OnWire(s)' = OnWire(s)
    BY <1>1 DEF Delivered, Buffered, Queued, OnWire
  <2>5. Turns(s)' /\ Latest(s)'
    BY <1>1, <1>2, <2>2 DEF Turns, Latest
  <2> HIDE DEF n
  <2>6. CASE chan' = chan
    <3>1. Ahead(s)' = Ahead(s) /\ Behind(s)' = Behind(s)
      BY <2>4, <2>6 DEF Ahead, Behind
    <3>2. Ordered(s)' /\ Nearer(s)'
      BY <1>1, <2>2, <2>4, <2>6, <3>1 DEF Ordered, Nearer
    <3>3. Line(s)'
      BY <2>1, <2>2, <2>3, <2>4, <3>1, <3>2 DEF Line
    <3>4. QED BY <2>5, <3>3 DEF OneLine
  <2>7. CASE chan'[s] = Append(chan[s], n)
    <3>1. \A m \in Range(chan[s]) : m < n
      BY <2>3 DEF Behind, Ahead
    <3>2. n \in Nat
      BY <2>1 DEF n
    <3>3. Rising(chan'[s]) /\ Ahead(s)' = Ahead(s) \union {n}
      BY <2>1, <2>2, <2>7, <3>1, <3>2, RisingAppend DEF Ordered, Ahead
    <3>4. Behind(s)' = Behind(s) \union {n}
      BY <2>4, <3>3 DEF Behind
    <3>5. Ordered(s)'
      BY <1>1, <2>2, <3>3 DEF Ordered
    <3>6. Nearer(s)'
      BY <2>2, <2>3, <2>4, <3>3 DEF Nearer, Below, Behind
    <3>7. Below(Delivered(s), Behind(s) \union {n})
      BY <2>2, <2>3 DEF Below
    <3>8. \A m \in Delivered(s) \union Behind(s) \union {n} : m <= n
      BY <2>3, <3>2
    <3>9. Line(s)'
      BY <2>1, <2>4, <3>4, <3>5, <3>6, <3>7, <3>8 DEF Line
    <3>10. QED BY <2>5, <3>9 DEF OneLine
  <2>8. QED BY <1>0, <1>4, <2>6, <2>7 DEF Emit, Offer, DaemonTypes, n
<1>5. QED BY <1>3, <1>4

LEMMA ForwardLine ==
  ASSUME TypeOK, NEW s \in Sessions, OneLine(s), NEW t \in Sessions, Forward(t)
  PROVE  OneLine(s)'
<1>0. DaemonTypes /\ WireTypes /\ chan[t] \in Seq(Chunks) /\ chan[t] \in Seq(Nat)
  BY Types, PathTypes
<1> DEFINE h == Head(chan[t])
           f == [kind |-> "output", session |-> t, chunk |-> h]
<1>1. UNCHANGED <<out, work, events, sink, pending, count, got>>
  BY DEF Forward, rpcVars, routeVars, readerVars
<1>2. Ensuring(s)' <=> Ensuring(s)
  BY <1>1 DEF Ensuring, Busy
<1>3. wire' = Append(wire, f) /\ wire \in Seq(Frames) /\ h \in Chunks /\ f \in Frames /\ chan[t] # <<>>
  BY <1>0, ChunkSequence DEF Forward, WireTypes, Frames, Outputs
<1>4. f.kind = "output" /\ f.session = t /\ f.chunk = h
  OBVIOUS
<1> HIDE DEF f
<1>5. Ordered(s) /\ Nearer(s)
  BY DEF OneLine, Line
<1>6. Buffered(s)' = Buffered(s) /\ Queued(s)' = Queued(s) /\ RisingFor(events', s)
  BY <1>1, <1>5 DEF Buffered, Queued, Ordered
<1>7. CASE t # s
  <2>1. RisingFor(wire', s) /\ OnWire(s)' = OnWire(s)
    BY <1>3, <1>4, <1>5, <1>7, FramesAppend DEF OutputOf, OnWire, Ordered
  <2>2. chan'[s] = chan[s]
    BY <1>7, <1>0 DEF Forward, DaemonTypes
  <2>3. QED BY <1>1, <1>2, <1>6, <2>1, <2>2, LineStill
<1>8. CASE t = s
  <2>1. chan'[s] = Tail(chan[s])
    BY <1>8, <1>0 DEF Forward, DaemonTypes
  <2>2. /\ Rising(chan'[s]) /\ h \in Nat
        /\ Ahead(s) = {h} \union Ahead(s)' /\ \A n \in Ahead(s)' : h < n
    BY <1>0, <1>3, <1>5, <1>8, <2>1, RisingTail DEF Ahead, Ordered
  <2>3. \A m \in OnWire(s) : m < h
    BY <1>5, <2>2 DEF Nearer, Below
  <2>4. RisingFor(wire', s) /\ OnWire(s)' = OnWire(s) \union {h}
    BY <1>3, <1>4, <1>5, <1>8, <2>3, FramesAppend DEF OutputOf, OnWire, Ordered
  <2>5. Behind(s)' = Behind(s)
    BY <1>6, <2>2, <2>4 DEF Behind
  <2>6. Ordered(s)'
    BY <1>1, <1>5, <1>6, <2>2, <2>4 DEF Ordered
  <2>7. Nearer(s)'
    BY <1>5, <1>6, <2>2, <2>4 DEF Nearer, Below
  <2>8. QED BY <1>1, <1>2, <2>5, <2>6, <2>7, LineMoves
<1>9. QED BY <1>7, <1>8

(* An attach or a kill empties the channel of the session, or leaves it.    *)
LEMMA AttachKillLine ==
  ASSUME TypeOK, NEW s \in Sessions, OneLine(s), DaemonAttach \/ DaemonKill
  PROVE  OneLine(s)'
<1>0. DaemonTypes
  BY Types
<1>1. UNCHANGED <<out, work, wire, events, sink, pending, count, got>>
  BY DEF DaemonAttach, DaemonKill, routeVars, readerVars
<1>2. Ensuring(s)' <=> Ensuring(s)
  BY <1>1 DEF Ensuring, Busy
<1>3. chan' = chan \/ \E t \in {work.session} : chan' = [chan EXCEPT ![t] = <<>>]
  BY DEF DaemonAttach, DaemonKill
<1>4. chan'[s] = chan[s] \/ chan'[s] = <<>>
  BY <1>0, <1>3 DEF DaemonTypes
<1>5. CASE chan'[s] = chan[s]
  BY <1>1, <1>2, <1>5, LineStillQueues
<1>6. CASE chan'[s] = <<>>
  <2>1. Ordered(s) /\ Nearer(s)
    BY DEF OneLine, Line
  <2>2. /\ Buffered(s)' = Buffered(s) /\ Queued(s)' = Queued(s) /\ OnWire(s)' = OnWire(s)
        /\ Ahead(s)' = {}
    BY <1>1, <1>6 DEF Buffered, Queued, OnWire, Ahead, Range
  <2>3. Ordered(s)'
    BY <1>1, <1>6, <2>1 DEF Ordered, Rising
  <2>4. Nearer(s)' /\ Behind(s)' \subseteq Behind(s)
    BY <2>1, <2>2 DEF Nearer, Below, Behind
  <2>5. QED BY <1>1, <1>2, <2>3, <2>4, LineMoves
<1>7. QED BY <1>4, <1>5, <1>6

LEMMA RespondLine ==
  ASSUME TypeOK, NEW s \in Sessions, OneLine(s), Respond
  PROVE  OneLine(s)'
<1>1. UNCHANGED <<out, chan, work, events, sink, pending, count, got>> /\ request \in {"ok", "failed"}
  BY DEF Respond, daemonVars, routeVars, readerVars
<1>2. Ensuring(s)' <=> Ensuring(s)
  BY <1>1 DEF Ensuring, Busy
<1>3. PICK f \in Frames : f.kind = "response" /\ wire' = Append(wire, f)
  BY <1>1 DEF Respond, Frames
<1>4. wire \in Seq(Frames) /\ RisingFor(wire, s) /\ RisingFor(events, s)
  BY LineTypes DEF OneLine, Line, Ordered
<1>5. RisingFor(wire', s) /\ OnWire(s)' = OnWire(s)
  BY <1>3, <1>4, FramesAppend DEF OutputOf, OnWire
<1>6. RisingFor(events', s) /\ Queued(s)' = Queued(s)
  BY <1>1, <1>4 DEF Queued
<1>7. QED BY <1>1, <1>2, <1>5, <1>6, LineStill

LEMMA ReadFrameLine ==
  ASSUME TypeOK, NEW s \in Sessions, OneLine(s), ReadFrame
  PROVE  OneLine(s)'
<1> DEFINE f == Head(wire)
<1>1. UNCHANGED <<out, chan, work, sink, pending, count, got>>
  BY DEF ReadFrame, daemonVars, routeVars, readerVars
<1>2. Ensuring(s)' <=> Ensuring(s)
  BY <1>1 DEF Ensuring, Busy
<1>3. Ordered(s) /\ Nearer(s)
  BY DEF OneLine, Line
<1>4. /\ wire \in Seq(Frames) /\ events \in Seq(Frames) /\ RisingFor(wire, s) /\ RisingFor(events, s)
      /\ wire # <<>> /\ wire' = Tail(wire) /\ f \in Frames
  BY <1>3, LineTypes DEF ReadFrame, Ordered
<1>5. \/ f.kind = "response" /\ events' = events
      \/ f.kind = "output" /\ events' = Append(events, f)
  BY DEF ReadFrame
<1>6. /\ RisingFor(wire', s)
      /\ OutputOf(f, s) => OnWire(s) = {f.chunk} \union OnWire(s)' /\ \A n \in OnWire(s)' : f.chunk < n
      /\ ~OutputOf(f, s) => OnWire(s)' = OnWire(s)
  BY <1>4, FramesTail DEF OnWire
<1>7. Buffered(s)' = Buffered(s) /\ Ahead(s)' = Ahead(s)
  BY <1>1 DEF Buffered, Ahead
<1> HIDE DEF f
<1>8. CASE ~OutputOf(f, s)
  <2>1. RisingFor(events', s) /\ Queued(s)' = Queued(s)
    <3>1. CASE events' = events
      BY <1>4, <3>1 DEF Queued
    <3>2. CASE events' = Append(events, f)
      BY <1>4, <1>8, <3>2, FramesAppend DEF Queued
    <3>3. QED BY <1>5, <3>1, <3>2
  <2>2. QED BY <1>1, <1>2, <1>6, <1>8, <2>1, LineStill
<1>9. CASE OutputOf(f, s)
  <2>1. events' = Append(events, f)
    BY <1>5, <1>9 DEF OutputOf
  <2>2. \A m \in Queued(s) : m < f.chunk
    BY <1>3, <1>6, <1>9 DEF Nearer, Below
  <2>3. RisingFor(events', s) /\ Queued(s)' = Queued(s) \union {f.chunk}
    BY <1>4, <1>9, <2>1, <2>2, FramesAppend DEF Queued
  <2>4. Behind(s)' = Behind(s)
    BY <1>6, <1>7, <1>9, <2>3 DEF Behind
  <2>5. Ordered(s)'
    BY <1>1, <1>3, <1>6, <2>3 DEF Ordered
  <2>6. Nearer(s)'
    BY <1>3, <1>6, <1>7, <1>9, <2>3 DEF Nearer, Below
  <2>7. QED BY <1>1, <1>2, <2>4, <2>5, <2>6, LineMoves
<1>10. QED BY <1>8, <1>9

(* Chunks that were next in the line go to the reader whose turn it is.     *)
LEMMA HandOver ==
  ASSUME TypeOK, NEW s \in Sessions, OneLine(s), NEW k \in Readers, NEW C,
         \A l \in Readers : l # k => got'[s][l] = got[s][l],
         \A l \in Readers : l > k => got[s][l] = <<>>,
         Rising(got'[s][k]), Range(got'[s][k]) = Range(got[s][k]) \union C,
         C \subseteq Behind(s), Behind(s)' \subseteq Behind(s), Below(C, Behind(s)'),
         out'[s] = out[s], Ordered(s)', Nearer(s)', Latest(s)'
  PROVE  OneLine(s)'
<1>1. /\ Turns(s) /\ Below(Delivered(s), Behind(s))
      /\ \A n \in Delivered(s) \union Behind(s) : n <= out[s]
  BY DEF OneLine, Line
<1>2. \A l \in Readers : Range(got[s][l]) \subseteq Delivered(s)
  BY DEF Delivered
<1>3. Delivered(s)' \subseteq Delivered(s) \union C
  <2>1. \A l \in Readers : Range(got'[s][l]) \subseteq Delivered(s) \union C
    BY <1>2
  <2>2. QED BY <2>1 DEF Delivered
<1>4. Turns(s)'
  <2>1. \A l \in Readers : Rising(got'[s][l])
    BY <1>1 DEF Turns
  <2>2. ASSUME NEW i \in Readers, NEW j \in Readers, i < j
        PROVE  Below(Range(got'[s][i]), Range(got'[s][j]))
    <3>1. Below(Range(got[s][i]), Range(got[s][j]))
      BY <1>1, <2>2 DEF Turns
    <3>2. CASE i # k /\ j # k
      BY <3>1, <3>2
    <3>3. CASE j = k
      <4>1. i # k
        BY <2>2, <3>3 DEF Readers
      <4>2. Below(Range(got[s][i]), C)
        BY <1>1, <1>2 DEF Below
      <4>3. QED BY <3>1, <3>3, <4>1, <4>2 DEF Below
    <3>4. CASE i = k
      <4>1. j # k /\ j > k
        BY <2>2, <3>4 DEF Readers
      <4>2. got'[s][j] = <<>>
        BY <4>1
      <4>3. QED BY <4>2 DEF Below, Range
    <3>5. QED BY <3>2, <3>3, <3>4
  <2>3. QED BY <2>1, <2>2 DEF Turns
<1>5. Line(s)'
  <2>1. Below(Delivered(s)', Behind(s)')
    BY <1>1, <1>3 DEF Below
  <2>2. \A n \in Delivered(s)' \union Behind(s)' : n <= out'[s]
    BY <1>1, <1>3
  <2>3. QED BY <2>1, <2>2 DEF Line
<1>6. QED BY <1>4, <1>5 DEF OneLine

LEMMA EventLoopLine ==
  ASSUME TypeOK, Drained, NEW s \in Sessions, OneLine(s), EventLoop
  PROVE  OneLine(s)'
<1> DEFINE f == Head(events)
           t == f.session
           n == f.chunk
<1>0. RouteTypes /\ ReaderTypes /\ WireTypes
  BY Types
<1>1. UNCHANGED <<out, chan, work, wire, count>> /\ events # <<>> /\ events' = Tail(events)
  BY DEF EventLoop, daemonVars, rpcVars
<1>2. f \in Outputs /\ f \in Frames /\ t \in Sessions /\ n \in Chunks /\ n \in Nat
  <2>1. f \in Outputs
    BY <1>0, <1>1 DEF WireTypes
  <2>2. QED BY <2>1 DEF Outputs, Frames, Chunks
<1>3. OutputOf(f, s) <=> t = s
  BY <1>2 DEF OutputOf, Outputs
<1>4. Ordered(s) /\ Nearer(s) /\ Latest(s) /\ Below(Delivered(s), Behind(s))
  BY DEF OneLine, Line
<1>5. /\ RisingFor(events', s)
      /\ t = s => Queued(s) = {n} \union Queued(s)' /\ \A m \in Queued(s)' : n < m
      /\ t # s => Queued(s)' = Queued(s)
  <2>1. events \in Seq(Frames) /\ RisingFor(events, s)
    BY <1>4, LineTypes DEF Ordered
  <2>2. QED BY <1>1, <1>3, <2>1, FramesTail DEF Queued
<1>6. OnWire(s)' = OnWire(s) /\ Ahead(s)' = Ahead(s) /\ RisingFor(wire', s) /\ Rising(chan'[s])
  BY <1>1, <1>4 DEF OnWire, Ahead, Ordered
<1>7. Ensuring(s)' <=> Ensuring(s)
  BY <1>1 DEF Ensuring, Busy
<1>8. (sink[t] # 0 /\ ToSink(t, n)) \/ (sink[t] = 0 /\ ToPending(t, n))
  BY DEF EventLoop
<1> HIDE DEF f, t, n
<1>9. CASE sink[t] # 0 /\ reader[t][sink[t]] = "open" /\ ToSink(t, n)
  <2>1. /\ got' = [got EXCEPT ![t][sink[t]] = Append(got[t][sink[t]], n)]
        /\ UNCHANGED <<sink, pending>>
    BY <1>9 DEF ToSink
  <2>2. Buffered(s)' = Buffered(s) /\ Rising(pending'[s])
    BY <2>1, <1>4 DEF Buffered, Ordered
  <2>3. CASE t # s
    <3>1. got'[s] = got[s]
      BY <1>0, <1>2, <2>1, <2>3 DEF ReaderTypes
    <3>2. QED BY <1>1, <1>5, <1>6, <1>7, <2>1, <2>3, <3>1, LineStill
  <2>4. CASE t = s
    <3> DEFINE k == sink[s]
    <3>1. k \in Readers /\ k \in Nat
      BY <1>0, <1>9, <2>4, BoundsAssumption DEF RouteTypes, Readers
    <3>2. got'[s][k] = Append(got[s][k], n) /\ \A l \in Readers : l # k => got'[s][l] = got[s][l]
      <4>1. got \in [Sessions -> [Readers -> Seq(Chunks)]]
        BY LineTypes
      <4>2. QED BY <2>1, <2>4, <3>1, <4>1
    <3>3. \A l \in Readers : l > k => got[s][l] = <<>>
      <4>1. \A l \in Readers : got[s][l] # <<>> => l <= k
        BY <1>4, <1>9, <2>4 DEF Latest
      <4>2. QED BY <3>1, <4>1 DEF Readers
    <3>4. n \in Behind(s)
      BY <1>5, <2>4 DEF Behind
    <3>5. \A m \in Range(got[s][k]) : m < n
      BY <1>4, <3>1, <3>4 DEF Below, Delivered
    <3>6. Rising(got'[s][k]) /\ Range(got'[s][k]) = Range(got[s][k]) \union {n}
      <4>1. got[s][k] \in Seq(Nat) /\ Rising(got[s][k])
        BY <3>1, LineTypes DEF OneLine, Turns
      <4>2. QED BY <1>2, <3>2, <3>5, <4>1, RisingAppend
    <3>7. Buffered(s) = {}
      <4>1. pending[s] = <<>>
        BY <1>9, <2>4 DEF Drained
      <4>2. QED BY <4>1 DEF Buffered, Range
    <3>8. Behind(s)' \subseteq Behind(s) /\ \A m \in Behind(s)' : n < m
      <4>1. \A m \in OnWire(s) \union Ahead(s) : n < m
        BY <1>4, <1>5, <2>4 DEF Nearer, Below
      <4>2. QED BY <1>5, <1>6, <2>2, <2>4, <3>7, <4>1 DEF Behind
    <3>9. Ordered(s)'
      BY <1>5, <1>6, <2>2 DEF Ordered
    <3>10. Nearer(s)'
      BY <1>4, <1>5, <1>6, <2>2, <2>4 DEF Nearer, Below
    <3>11. Latest(s)'
      <4>1. sink[s] <= count[s] /\ (Ensuring(s) => sink[s] < count[s])
        BY <1>4 DEF Latest
      <4>2. UNCHANGED <<sink, count>>
        BY <1>1, <2>1
      <4>3. \A l \in Readers : l # k => got'[s][l] = got[s][l]
        BY <3>2
      <4>4. QED BY <1>4, <1>7, <3>1, <4>1, <4>2, <4>3 DEF Latest
    <3> HIDE DEF k
    <3>12. Below({n}, Behind(s)') /\ {n} \subseteq Behind(s)
      BY <3>4, <3>8 DEF Below
    <3>13. QED BY <1>1, <3>1, <3>2, <3>3, <3>6, <3>8, <3>9, <3>10, <3>11, <3>12, HandOver
  <2>5. QED BY <2>3, <2>4
<1>10. CASE sink[t] # 0 /\ reader[t][sink[t]] # "open" /\ ToSink(t, n)
  <2>1. sink' = [sink EXCEPT ![t] = 0] /\ UNCHANGED <<got, pending>>
    BY <1>10 DEF ToSink
  <2>2. Buffered(s)' = Buffered(s) /\ sink'[s] \in {sink[s], 0}
    BY <1>0, <2>1 DEF Buffered, RouteTypes
  <2>3. Queued(s)' \subseteq Queued(s)
    BY <1>5
  <2>4. Ordered(s)'
    BY <1>4, <1>5, <1>6, <2>1 DEF Ordered
  <2>5. Nearer(s)' /\ Behind(s)' \subseteq Behind(s)
    BY <1>4, <1>6, <2>2, <2>3 DEF Nearer, Below, Behind
  <2>6. QED BY <1>1, <1>7, <2>1, <2>2, <2>4, <2>5, LineMoves
<1>11. CASE sink[t] = 0 /\ ToPending(t, n)
  <2>1. UNCHANGED <<sink, got>>
    BY <1>11 DEF ToPending
  <2>2. t = s => \A m \in Buffered(s) : m < n
    BY <1>4, <1>5 DEF Nearer, Below
  <2>3. Rising(pending'[s]) /\ Buffered(s)' \subseteq Buffered(s) \union (IF t = s THEN {n} ELSE {})
    BY <1>2, <1>4, <1>11, <2>2, Overrun DEF Ordered
  <2>4. Ordered(s)'
    BY <1>4, <1>5, <1>6, <2>3 DEF Ordered
  <2>5. Nearer(s)'
    BY <1>4, <1>5, <1>6, <2>3 DEF Nearer, Below
  <2>6. Behind(s)' \subseteq Behind(s)
    BY <1>5, <1>6, <2>3 DEF Behind
  <2>7. QED BY <1>1, <1>7, <2>1, <2>4, <2>5, <2>6, LineMoves
<1>12. QED BY <1>8, <1>9, <1>10, <1>11

(* The buffer goes, or becomes the start of what a new reader is given.     *)
LEMMA RouteLine ==
  ASSUME TypeOK, NEW s \in Sessions, OneLine(s), NEW t \in Sessions, RemoveRoute(t),
         UNCHANGED <<daemonVars, wire, events, count, got>>, ~Ensuring(s)'
  PROVE  OneLine(s)'
<1>0. RouteTypes
  BY Types
<1>1. sink'[s] \in {sink[s], 0} /\ pending'[s] \in {pending[s], <<>>}
  BY <1>0 DEF RemoveRoute, RouteTypes
<1>2. Ordered(s) /\ Nearer(s) /\ UNCHANGED <<out, chan, wire, events, count, got>>
  BY DEF OneLine, Line, daemonVars
<1>3. Buffered(s)' \subseteq Buffered(s) /\ Rising(pending'[s])
  BY <1>1, <1>2 DEF Buffered, Range, Ordered, Rising
<1>4. Queued(s)' = Queued(s) /\ OnWire(s)' = OnWire(s) /\ Ahead(s)' = Ahead(s)
  BY <1>2 DEF Queued, OnWire, Ahead
<1>5. Ordered(s)'
  BY <1>2, <1>3 DEF Ordered
<1>6. Nearer(s)' /\ Behind(s)' \subseteq Behind(s)
  BY <1>2, <1>3, <1>4 DEF Nearer, Below, Behind
<1>7. QED BY <1>1, <1>2, <1>5, <1>6, LineMoves

LEMMA DrainLine ==
  ASSUME TypeOK, NEW s \in Sessions, OneLine(s), NEW k \in Readers, got[s][k] = <<>>,
         UNCHANGED <<daemonVars, wire, events>>, pending'[s] = <<>>, Latest(s)',
         \A l \in Readers : l # k => got'[s][l] = got[s][l],
         \A l \in Readers : l > k => got[s][l] = <<>>,
         got'[s][k] \in {pending[s], <<>>}
  PROVE  OneLine(s)'
<1>1. Ordered(s) /\ Nearer(s) /\ UNCHANGED <<out, chan, wire, events>>
  BY DEF OneLine, Line, daemonVars
<1>2. /\ Buffered(s)' = {} /\ Queued(s)' = Queued(s) /\ OnWire(s)' = OnWire(s)
      /\ Ahead(s)' = Ahead(s)
  BY <1>1 DEF Buffered, Queued, OnWire, Ahead, Range
<1>3. Rising(pending'[s])
  BY DEF Rising
<1>4. Ordered(s)'
  BY <1>1, <1>3 DEF Ordered
<1>5. Nearer(s)' /\ Behind(s)' \subseteq Behind(s) /\ Below(Buffered(s), Behind(s)')
  BY <1>1, <1>2 DEF Nearer, Below, Behind
<1>6. PICK C \in SUBSET Buffered(s) : Range(got'[s][k]) = C
  <2>1. Range(got'[s][k]) \in {Range(pending[s]), {}}
    BY DEF Range
  <2>2. QED BY <2>1 DEF Buffered
<1>7. Range(got'[s][k]) = Range(got[s][k]) \union C
  BY <1>6 DEF Range
<1>8. Rising(got'[s][k])
  BY <1>1 DEF Ordered, Rising
<1>9. C \subseteq Behind(s) /\ Below(C, Behind(s)')
  BY <1>5 DEF Behind, Below
<1>10. out'[s] = out[s]
  BY <1>1
<1>11. QED BY <1>4, <1>5, <1>7, <1>8, <1>9, <1>10, HandOver

LEMMA EnsureBeginLine ==
  ASSUME TypeOK, NEW s \in Sessions, OneLine(s), NEW t \in Sessions, EnsureBegin(t)
  PROVE  OneLine(s)'
<1>0. ReaderTypes
  BY Types
<1>1. /\ UNCHANGED <<daemonVars, wire, events, routeVars, got>>
      /\ count' = [count EXCEPT ![t] = @ + 1] /\ work' = [op |-> "ensure", session |-> t]
  BY DEF EnsureBegin, NewReader, Send
<1>2. count'[s] \in {count[s], count[s] + 1} /\ (t = s => count'[s] = count[s] + 1)
  BY <1>0, <1>1 DEF ReaderTypes
<1>3. Ensuring(s)' => t = s
  BY <1>1 DEF Ensuring
<1>4. QED BY <1>1, <1>2, <1>3, LineStillQueues DEF daemonVars, routeVars

LEMMA AttachBeginLine ==
  ASSUME TypeOK, NEW s \in Sessions, OneLine(s), NEW t \in Sessions, AttachBegin(t)
  PROVE  OneLine(s)'
<1>0. ReaderTypes /\ RouteTypes /\ 1 \in Readers
  BY Types, PathTypes
<1>1. /\ UNCHANGED <<daemonVars, wire, events>> /\ count[t] = 0
      /\ count' = [count EXCEPT ![t] = @ + 1] /\ got' = [got EXCEPT ![t][count[t] + 1] = pending[t]]
      /\ sink' = [sink EXCEPT ![t] = count[t] + 1] /\ pending' = [pending EXCEPT ![t] = <<>>]
      /\ work' = [op |-> "attach", session |-> t]
  BY DEF AttachBegin, NewReader, Send
<1>2. ~Ensuring(s)'
  BY <1>1 DEF Ensuring, Busy
<1>3. CASE t # s
  <2>1. UNCHANGED <<count[s], got[s], sink[s], pending[s]>>
    BY <1>0, <1>1, <1>3 DEF ReaderTypes, RouteTypes
  <2>2. QED BY <1>1, <1>2, <2>1, LineStillQueues DEF daemonVars
<1>4. CASE t = s
  <2>1. got' = [got EXCEPT ![s][1] = pending[s]]
    BY <1>1, <1>4
  <2>2. got'[s][1] = pending[s] /\ \A l \in Readers : l # 1 => got'[s][l] = got[s][l]
    <3>1. got \in [Sessions -> [Readers -> Seq(Chunks)]]
      BY LineTypes
    <3>2. QED BY <1>0, <2>1, <3>1
  <2>3. \A l \in Readers : got[s][l] = <<>>
    BY <1>1, <1>4 DEF OneLine, Latest, Readers
  <2>4. count'[s] = 1 /\ sink'[s] = 1 /\ pending'[s] = <<>>
    BY <1>0, <1>1, <1>4 DEF ReaderTypes, RouteTypes
  <2>5. Latest(s)'
    <3>1. \A l \in Readers : got'[s][l] # <<>> => l = 1
      BY <2>2, <2>3
    <3>2. QED BY <1>2, <2>4, <3>1 DEF Latest
  <2>6. QED BY <1>0, <1>1, <2>2, <2>3, <2>4, <2>5, DrainLine
<1>5. QED BY <1>3, <1>4

LEMMA EnsureDoneLine ==
  ASSUME TypeOK, Stage, NEW s \in Sessions, OneLine(s), EnsureDone
  PROVE  OneLine(s)'
<1> DEFINE t == work.session
<1>0. RouteTypes /\ ReaderTypes /\ t \in Sessions /\ count[t] \in Readers
  BY Types, WorkShape DEF EnsureDone, Busy, Stage
<1>1. /\ UNCHANGED <<daemonVars, wire, events, count>> /\ Busy("ensure") /\ ~Ensuring(s)'
      /\ UNCHANGED <<out, chan>>
  BY DEF EnsureDone, Ensuring, Busy, NoWork, daemonVars
<1>2. CASE UNCHANGED <<sink[s], pending[s], got[s]>>
  BY <1>1, <1>2, LineStillQueues
<1>3. CASE Install(t, count[t]) /\ t = s
  <2> DEFINE k == count[s]
  <2>1. \A l \in Readers : got[s][l] # <<>> => l < k
    BY <1>1, <1>3 DEF OneLine, Latest, Ensuring
  <2>2. k \in Readers /\ \A l \in Readers : ~(l < k) => got[s][l] = <<>>
    BY <1>0, <1>3, <2>1
  <2>3. got[s][k] = <<>> /\ \A l \in Readers : l > k => got[s][l] = <<>>
    BY <2>2 DEF Readers
  <2>4. pending'[s] = <<>> /\ sink'[s] \in {k, 0}
    BY <1>0, <1>3 DEF Install, RouteTypes
  <2>5. got'[s][k] \in {pending[s], <<>>} /\ \A l \in Readers : l # k => got'[s][l] = got[s][l]
    <3>1. got' = got \/ got' = [got EXCEPT ![s][k] = got[s][k] \o pending[s]]
      BY <1>3 DEF Install
    <3>2. got \in [Sessions -> [Readers -> Seq(Chunks)]] /\ pending[s] \in Seq(Nat)
      BY LineTypes
    <3>3. got[s][k] \o pending[s] = pending[s]
      BY <2>3, <3>2
    <3>4. QED BY <2>2, <2>3, <3>1, <3>2, <3>3
  <2>6. Latest(s)'
    <3>1. \A l \in Readers : got'[s][l] # <<>> => l <= k
      BY <2>1, <2>2, <2>5 DEF Readers
    <3>2. count'[s] = k /\ k \in Nat /\ k # 0
      BY <1>1, <2>2 DEF Readers
    <3>3. QED BY <1>1, <2>4, <3>1, <3>2 DEF Latest
  <2> HIDE DEF k
  <2>7. QED BY <1>1, <2>2, <2>3, <2>4, <2>5, <2>6, DrainLine
<1>4. CASE Install(t, count[t]) /\ t # s
  <2>1. pending'[s] = pending[s] /\ sink'[s] = sink[s]
    BY <1>0, <1>4 DEF Install, RouteTypes
  <2>2. got'[s] = got[s]
    BY <1>0, <1>4 DEF Install, ReaderTypes
  <2>3. QED BY <1>2, <2>1, <2>2
<1>5. QED BY <1>2, <1>3, <1>4 DEF EnsureDone, routeVars

LEMMA RouteRestLine ==
  ASSUME TypeOK, NEW s \in Sessions, OneLine(s), AttachDone \/ \E t \in Sessions : KillBegin(t)
  PROVE  OneLine(s)'
<1>1. UNCHANGED <<daemonVars, wire, events, count, got, out, chan>> /\ ~Ensuring(s)'
  BY DEF AttachDone, KillBegin, Send, Ensuring, Busy, NoWork, daemonVars
<1>2. CASE UNCHANGED routeVars
  BY <1>1, <1>2, LineStillQueues DEF routeVars
<1>3. CASE \E t \in Sessions : RemoveRoute(t)
  BY <1>1, <1>3, RouteLine
<1>4. CASE AttachDone /\ ~UNCHANGED routeVars
  <2>1. work.session \in Sessions
    BY <1>4, Types, WorkShape DEF AttachDone, Busy
  <2>2. QED BY <1>3, <1>4, <2>1 DEF AttachDone
<1>5. QED BY <1>2, <1>3, <1>4 DEF KillBegin

LEMMA RestLine ==
  ASSUME TypeOK, NEW s \in Sessions, OneLine(s),
         (\E t \in Sessions : Exit(t)) \/ KillDone \/ UNCHANGED vars
           \/ \E t \in Sessions, k \in Readers : DropReader(t, k)
  PROVE  OneLine(s)'
<1>1. UNCHANGED <<out, chan, wire, events, sink, pending, count, got>>
  BY DEF Exit, KillDone, DropReader, rpcVars, daemonVars, routeVars, readerVars, vars
<1>2. work' = work \/ work' = NoWork
  BY DEF Exit, KillDone, DropReader, rpcVars, vars
<1>3. Ensuring(s)' => Ensuring(s)
  BY <1>2 DEF Ensuring, Busy, NoWork
<1>4. QED BY <1>1, <1>3, LineStillQueues

(* However often the pane attaches again to a session on one connection, its *)
(* readers together are given chunks in the order the shell wrote them: none *)
(* twice, none to an older reader after a newer one was served.             *)
THEOREM ReadersInTurn == Spec => []InTurn
<1>1. Init => Lines
  <2> SUFFICES ASSUME Init, NEW s \in Sessions PROVE OneLine(s)
    BY DEF Lines
  <2>1. /\ \A k \in Readers : got[s][k] = <<>>
        /\ pending[s] = <<>> /\ chan[s] = <<>> /\ events = <<>> /\ wire = <<>>
        /\ count[s] = 0 /\ sink[s] = 0
    BY DEF Init
  <2>2. Delivered(s) = {} /\ Behind(s) = {}
    <3>1. Delivered(s) = {}
      BY <2>1 DEF Delivered, Range
    <3>2. Behind(s) = {}
      BY <2>1 DEF Behind, Buffered, Queued, OnWire, Ahead, Range, Carried
    <3>3. QED BY <3>1, <3>2
  <2>3. Turns(s)
    BY <2>1 DEF Turns, Rising, Below, Range
  <2>4. Ordered(s)
    BY <2>1 DEF Ordered, Rising, RisingFor
  <2>5. Line(s)
    BY <2>2, <2>4 DEF Line, Nearer, Behind, Below
  <2>6. Latest(s)
    BY <2>1 DEF Latest, Ensuring, Busy, Init, NoWork
  <2>7. QED BY <2>3, <2>5, <2>6 DEF OneLine
<1>2. ASSUME IInv, Lines, [Next]_vars, NEW s \in Sessions PROVE OneLine(s)'
  <2>0. TypeOK /\ Stage /\ Drained /\ OneLine(s)
    BY <1>2 DEF IInv, Lines
  <2>1. CASE \E t \in Sessions : Emit(t) \/ Forward(t)
    BY <2>0, <2>1, EmitLine, ForwardLine
  <2>2. CASE DaemonAttach \/ DaemonKill \/ Respond
    BY <2>0, <2>2, AttachKillLine, RespondLine
  <2>3. CASE ReadFrame \/ EventLoop
    BY <2>0, <2>3, ReadFrameLine, EventLoopLine
  <2>4. CASE EnsureDone \/ \E t \in Sessions : EnsureBegin(t) \/ AttachBegin(t)
    BY <2>0, <2>4, EnsureDoneLine, EnsureBeginLine, AttachBeginLine
  <2>5. CASE AttachDone \/ \E t \in Sessions : KillBegin(t)
    BY <2>0, <2>5, RouteRestLine
  <2>6. CASE (\E t \in Sessions : Exit(t)) \/ KillDone \/ UNCHANGED vars
               \/ \E t \in Sessions, k \in Readers : DropReader(t, k)
    BY <2>0, <2>6, RestLine
  <2>7. QED BY <1>2, <2>1, <2>2, <2>3, <2>4, <2>5, <2>6 DEF Next, Daemon, Shim
<1>3. IInv /\ Lines /\ [Next]_vars => Lines'
  BY <1>2 DEF Lines
<1>4. Lines => InTurn
  BY DEF Lines, OneLine, InTurn
<1>5. QED BY <1>1, <1>3, <1>4, Inductive, PTL DEF Spec

-----------------------------------------------------------------------------
(* What the first attachment is sent has a place to go to: its sink is       *)
(* registered, or about to be, unless the session is being killed.           *)
Killing(s) == Busy("kill") /\ work.session = s
Routed(s) ==
  /\ count[s] = 1 /\ attached[s] = 1 /\ reader[s][1] = "open" =>
       sink[s] = 1 \/ Ensuring(s) \/ Killing(s)
  /\ Busy("attach") /\ work.session = s => count[s] = 1 /\ sink[s] = 1 /\ reader[s][1] = "open"
  /\ Killing(s) /\ request # "sent" => attached[s] = 0

(* Steps that leave the routes and the worker alone.                         *)
LEMMA RoutedStill ==
  ASSUME NEW s \in Sessions, Routed(s), UNCHANGED <<work, request, answer>>,
         count'[s] = count[s], attached'[s] = attached[s], sink'[s] = sink[s],
         reader'[s][1] = reader[s][1]
  PROVE  Routed(s)'
BY DEF Routed, Ensuring, Killing, Busy

LEMMA RoutedStep ==
  ASSUME TypeOK, Stage, Drained, [Next]_vars, NEW s \in Sessions, Routed(s)
  PROVE  Routed(s)'
<1>a. RpcTypes /\ OneRequest /\ ReaderTypes /\ RouteTypes /\ DaemonTypes
  BY Types
<1>b. 1 \in Readers /\ count \in [Sessions -> 0 .. MaxAttach] /\ attached \in [Sessions -> 0 .. MaxAttach]
  BY <1>a, BoundsAssumption DEF Readers, ReaderTypes, DaemonTypes
<1>0. /\ RpcTypes /\ OneRequest /\ ReaderTypes /\ RouteTypes /\ DaemonTypes
      /\ MaxAttach \in Nat \ {0} /\ 1 \in Readers /\ count[s] \in Nat /\ attached[s] \in Nat
  BY <1>a, <1>b, BoundsAssumption
<1>1. CASE (\E t \in Sessions : Emit(t) \/ Exit(t) \/ Forward(t)) \/ ReadFrame
  <2>1. UNCHANGED <<work, request, attached, sink, count, reader>>
    BY <1>1 DEF Emit, Exit, Forward, ReadFrame, rpcVars, routeVars, readerVars, daemonVars
  <2>2. QED BY <2>1 DEF Routed, Ensuring, Killing, Busy
<1>2. ASSUME NEW t \in Sessions, NEW k \in Readers, DropReader(t, k) PROVE Routed(s)'
  <2>1. /\ UNCHANGED <<work, request, answer, attached, sink, count>>
        /\ reader' = [reader EXCEPT ![t][k] = "dropped"]
    BY <1>2 DEF DropReader, rpcVars, routeVars, daemonVars
  <2>2. CASE t = s /\ k = 1
    <3>1. reader'[s][1] = "dropped"
      BY <2>1, <2>2, <1>0 DEF ReaderTypes
    <3>2. ~(Busy("attach") /\ work.session = s)
      BY <1>2, <2>2 DEF DropReader, Routed, Busy
    <3>3. QED BY <2>1, <3>1, <3>2 DEF Routed, Ensuring, Killing, Busy
  <2>3. CASE ~(t = s /\ k = 1)
    <3>1. reader'[s][1] = reader[s][1]
      BY <2>1, <2>3, <1>0 DEF ReaderTypes
    <3>2. QED BY <2>1, <3>1, RoutedStill
  <2>4. QED BY <2>2, <2>3
<1>3. CASE Respond
  <2>1. UNCHANGED <<work, attached, sink, count, reader>> /\ request' = "none" /\ request # "sent"
    BY <1>3 DEF Respond, routeVars, readerVars, daemonVars
  <2>2. QED BY <2>1 DEF Routed, Ensuring, Killing, Busy
<1>4. CASE DaemonAttach
  <2>1. /\ work.op \in {"ensure", "attach"} /\ UNCHANGED <<work, sink, count, reader>>
        /\ attached' = attached \/ attached' = [attached EXCEPT ![work.session] = count[work.session]]
    BY <1>4 DEF DaemonAttach, routeVars
  <2>2. ~Killing(s) /\ work' = work
    BY <2>1 DEF Killing, Busy
  <2>3. CASE work.session = s
    BY <2>1, <2>2, <2>3 DEF Routed, Ensuring, Killing, Busy
  <2>4. CASE work.session # s
    <3>1. attached'[s] = attached[s]
      BY <2>1, <2>4, <1>0 DEF DaemonTypes
    <3>2. QED BY <2>1, <2>2, <3>1 DEF Routed, Ensuring, Killing, Busy
  <2>5. QED BY <2>3, <2>4
<1>5. CASE DaemonKill
  <2>1. /\ Busy("kill") /\ UNCHANGED <<work, sink, count, reader>> /\ request' = "ok"
        /\ attached' = [attached EXCEPT ![work.session] = 0]
    BY <1>5 DEF DaemonKill, routeVars, readerVars
  <2>2. CASE work.session = s
    <3>1. attached'[s] = 0
      BY <2>1, <2>2, <1>0 DEF DaemonTypes
    <3>2. QED BY <2>1, <2>2, <3>1 DEF Routed, Ensuring, Killing, Busy
  <2>3. CASE work.session # s
    <3>1. attached'[s] = attached[s]
      BY <2>1, <2>3, <1>0 DEF DaemonTypes
    <3>2. QED BY <2>1, <2>3, <3>1 DEF Routed, Ensuring, Killing, Busy
  <2>4. QED BY <2>2, <2>3
<1>6. CASE EventLoop
  <2>1. UNCHANGED <<work, request, answer, attached, count, reader>>
    BY <1>6 DEF EventLoop, rpcVars, daemonVars
  <2>2. sink'[s] = sink[s] \/ (sink[s] # 0 /\ reader[s][sink[s]] # "open" /\ sink'[s] = 0)
    <3>1. CASE sink' = sink
      BY <3>1
    <3>2. ASSUME NEW t \in Sessions, sink[t] # 0, reader[t][sink[t]] # "open",
                 sink' = [sink EXCEPT ![t] = 0]
          PROVE  sink'[s] = sink[s] \/ (sink[s] # 0 /\ reader[s][sink[s]] # "open" /\ sink'[s] = 0)
      BY <3>2, <1>0 DEF RouteTypes
    <3>3. Head(events).session \in Sessions
      <4>1. events \in Seq(Outputs) /\ events # <<>>
        BY <1>6 DEF EventLoop, TypeOK
      <4>2. Head(events) \in Outputs
        BY <4>1
      <4>3. QED BY <4>2 DEF Outputs
    <3>4. QED BY <1>6, <3>1, <3>2, <3>3 DEF EventLoop, ToSink, ToPending
  <2>3. CASE sink'[s] = sink[s]
    BY <2>1, <2>3, RoutedStill
  <2>4. CASE sink[s] # 0 /\ reader[s][sink[s]] # "open" /\ sink'[s] = 0
    <3>1. count[s] = 1 => reader[s][1] # "open"
      <4>1. sink[s] <= count[s] /\ sink[s] \in Nat
        BY <1>0 DEF Drained, RouteTypes
      <4>2. count[s] = 1 => sink[s] = 1
        BY <4>1, <2>4
      <4>3. QED BY <4>2, <2>4
    <3>2. QED BY <2>1, <3>1 DEF Routed, Ensuring, Killing, Busy
  <2>5. QED BY <2>2, <2>3, <2>4
<1>7. ASSUME NEW t \in Sessions, EnsureBegin(t) PROVE Routed(s)'
  <2>1. /\ Busy("none") /\ work' = [op |-> "ensure", session |-> t] /\ UNCHANGED <<attached, sink>>
        /\ count' = [count EXCEPT ![t] = count[t] + 1]
        /\ reader' = [reader EXCEPT ![t][count[t] + 1] = "open"]
    BY <1>7 DEF EnsureBegin, Send, NewReader, daemonVars, routeVars
  <2>2. ~Ensuring(s) /\ ~Killing(s) /\ ~(Busy("kill") \/ Busy("attach"))'
    BY <2>1 DEF Ensuring, Killing, Busy
  <2>3. CASE t = s
    BY <2>1, <2>2, <2>3 DEF Routed, Ensuring, Killing, Busy
  <2>4. CASE t # s
    <3>1. count'[s] = count[s] /\ reader'[s] = reader[s]
      BY <2>1, <2>4, <1>0 DEF ReaderTypes
    <3>2. QED BY <2>1, <2>2, <3>1 DEF Routed, Ensuring, Killing, Busy
  <2>5. QED BY <2>3, <2>4
<1>8. ASSUME NEW t \in Sessions, AttachBegin(t) PROVE Routed(s)'
  <2>1. /\ Busy("none") /\ work' = [op |-> "attach", session |-> t] /\ count[t] = 0 /\ attached' = attached
        /\ count' = [count EXCEPT ![t] = count[t] + 1] /\ sink' = [sink EXCEPT ![t] = count[t] + 1]
        /\ reader' = [reader EXCEPT ![t][count[t] + 1] = "open"]
    BY <1>8 DEF AttachBegin, Send, NewReader, daemonVars
  <2>2. ~Ensuring(s) /\ ~Killing(s) /\ ~(Busy("kill") \/ Busy("ensure"))'
    BY <2>1 DEF Ensuring, Killing, Busy
  <2>3. CASE t = s
    <3>1. count'[s] = 1 /\ sink'[s] = 1 /\ reader'[s][1] = "open"
      BY <2>1, <2>3, <1>0 DEF ReaderTypes, RouteTypes
    <3>2. QED BY <2>2, <3>1 DEF Routed, Ensuring, Killing, Busy
  <2>4. CASE t # s
    <3>1. count'[s] = count[s] /\ sink'[s] = sink[s] /\ reader'[s] = reader[s]
      BY <2>1, <2>4, <1>0 DEF ReaderTypes, RouteTypes
    <3>2. QED BY <2>1, <2>2, <2>4, <3>1 DEF Routed, Ensuring, Killing, Busy
  <2>5. QED BY <2>3, <2>4
<1>9. ASSUME NEW t \in Sessions, KillBegin(t) PROVE Routed(s)'
  <2>1. /\ Busy("none") /\ work' = [op |-> "kill", session |-> t] /\ request' = "sent"
        /\ UNCHANGED <<attached, count, reader>> /\ sink' = [sink EXCEPT ![t] = 0]
    BY <1>9 DEF KillBegin, Send, RemoveRoute, daemonVars
  <2>2. ~Ensuring(s) /\ ~Killing(s) /\ ~(Busy("attach") \/ Busy("ensure"))'
    BY <2>1 DEF Ensuring, Killing, Busy
  <2>3. CASE t = s
    BY <2>1, <2>2, <2>3 DEF Routed, Ensuring, Killing, Busy
  <2>4. CASE t # s
    <3>1. sink'[s] = sink[s]
      BY <2>1, <2>4, <1>0 DEF RouteTypes
    <3>2. QED BY <2>1, <2>2, <2>4, <3>1 DEF Routed, Ensuring, Killing, Busy
  <2>5. QED BY <2>3, <2>4
<1>10. CASE EnsureDone \/ AttachDone \/ KillDone
  <2>1. /\ work' = NoWork /\ ~Busy("none") /\ request = "none" /\ UNCHANGED <<attached, count>>
        /\ ~(Busy("attach") \/ Busy("ensure") \/ Busy("kill"))'
    BY <1>10, <1>0 DEF EnsureDone, AttachDone, KillDone, NoWork, Busy, Stage, RpcTypes, daemonVars, readerVars
  <2>2. work.session \in Sessions
    BY <1>0, <2>1, WorkShape
  <2>3. SUFFICES ASSUME count[s] = 1, attached[s] = 1, reader'[s][1] = "open" PROVE sink'[s] = 1
    BY <2>1 DEF Routed, Killing
  <2>4. CASE EnsureDone
    <3>1. CASE reader' = [reader EXCEPT ![work.session][count[work.session]] = "dropped"] /\ sink' = sink
      <4>1. work.session # s /\ reader'[s] = reader[s]
        BY <2>2, <2>3, <3>1, <1>0 DEF ReaderTypes
      <4>2. ~Ensuring(s) /\ ~Killing(s)
        BY <4>1 DEF Ensuring, Killing
      <4>3. QED BY <2>3, <3>1, <4>1, <4>2 DEF Routed
    <3>2. CASE Install(work.session, count[work.session]) /\ reader' = reader
      <4>1. CASE work.session = s
        <5>1. sink' = [sink EXCEPT ![s] = 1]
          BY <2>3, <3>2, <4>1 DEF Install
        <5>2. QED BY <5>1, <1>0 DEF RouteTypes
      <4>2. CASE work.session # s
        <5>1. sink'[s] = sink[s]
          BY <2>2, <3>2, <4>2, <1>0 DEF Install, RouteTypes
        <5>2. ~Ensuring(s) /\ ~Killing(s)
          BY <4>2 DEF Ensuring, Killing
        <5>3. QED BY <2>3, <3>2, <5>1, <5>2 DEF Routed
      <4>3. QED BY <4>1, <4>2
    <3>3. QED BY <2>4, <3>1, <3>2 DEF EnsureDone, routeVars
  <2>5. CASE AttachDone
    <3>1. Busy("attach") /\ ~Ensuring(s) /\ ~Killing(s)
      BY <2>5 DEF AttachDone, Ensuring, Killing, Busy
    <3>2. CASE UNCHANGED <<sink, reader>>
      BY <2>3, <3>1, <3>2 DEF Routed
    <3>3. CASE /\ sink' = [sink EXCEPT ![work.session] = 0]
               /\ reader' = [reader EXCEPT ![work.session][count[work.session]] = "dropped"]
      <4>1. work.session # s /\ reader'[s] = reader[s]
        BY <2>2, <2>3, <3>3, <1>0 DEF ReaderTypes
      <4>2. sink'[s] = sink[s]
        BY <2>2, <3>3, <4>1, <1>0 DEF RouteTypes
      <4>3. QED BY <2>3, <3>1, <4>1, <4>2 DEF Routed
    <3>4. QED BY <2>5, <3>2, <3>3 DEF AttachDone, RemoveRoute, routeVars
  <2>6. CASE KillDone
    <3>1. Busy("kill") /\ UNCHANGED <<sink, reader>>
      BY <2>6 DEF KillDone, routeVars, readerVars
    <3>2. ~Killing(s) /\ ~Ensuring(s)
      BY <2>1, <2>3, <3>1 DEF Routed, Killing, Ensuring, Busy
    <3>3. QED BY <2>3, <3>1, <3>2 DEF Routed
  <2>7. QED BY <1>10, <2>4, <2>5, <2>6
<1>11. CASE UNCHANGED vars
  BY <1>11, RoutedStill DEF vars, rpcVars, daemonVars, routeVars, readerVars
<1>12. QED
  BY <1>1, <1>2, <1>3, <1>4, <1>5, <1>6, <1>7, <1>8, <1>9, <1>10, <1>11 DEF Next, Daemon, Shim

(* Nothing of an attachment vanishes: as long as its reader is open and the  *)
(* session is not being killed, every chunk after the snapshot is with the   *)
(* reader, buffered, in the event channel, on the wire or in the             *)
(* attachment's channel, unless it found that channel full or overran the    *)
(* buffer. No step of worker, event loop and reader_loop leaves a moment in  *)
(* which a chunk has no place to go to.                                      *)
NothingVanishes == \A s \in Sessions :
  count[s] = 1 /\ attached[s] = 1 /\ reader[s][1] = "open" /\ ~Killing(s) =>
    (base[s][1] + 1) .. out[s] \subseteq Known(s) \union lost[s]

(* The safety part of ChunksArrive, for any number of sessions and chunks:   *)
(* what remains is that the steps are taken.                                 *)
THEOREM ChunksKept == Spec => []NothingVanishes
<1> DEFINE All == \A s \in Sessions : Routed(s)
<1>1. Init => All
  BY DEF Init, Routed, Killing, Ensuring, Busy, NoWork
<1>2. IInv /\ All /\ [Next]_vars => All'
  BY RoutedStep DEF IInv
<1>3. IInv /\ All => NothingVanishes
  <2> SUFFICES ASSUME IInv, All, NEW s \in Sessions, count[s] = 1, attached[s] = 1,
                      reader[s][1] = "open", ~Killing(s)
               PROVE  (base[s][1] + 1) .. out[s] \subseteq Known(s) \union lost[s]
    BY DEF NothingVanishes
  <2>1. sink[s] = 1 \/ Ensuring(s)
    BY DEF Routed
  <2>2. Feeding(s)
    BY <2>1 DEF Feeding, Ensuring
  <2>3. Covered(s)
    BY DEF IInv, Paths, Path
  <2>4. QED BY <2>2, <2>3 DEF Covered
<1>4. QED BY <1>1, <1>2, <1>3, Inductive, PTL DEF Spec
=============================================================================
