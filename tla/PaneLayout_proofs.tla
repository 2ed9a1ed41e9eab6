-------------------------- MODULE PaneLayout_proofs --------------------------
(***************************************************************************)
(* Proofs about PaneLayout, for every number of workspaces, panes and       *)
(* starts.  The layout exists three times, so the argument is about the      *)
(* layout as it would be saved now (Whole): an action either keeps it,       *)
(* takes panes off it, or adds the pane that next_id has just named.  What   *)
(* an action does to the copies is reduced to that by the lemmas on SaveTab, *)
(* SaveSpace, Shown, LoadSpace and RetainPanes, each stated once: Rests.     *)
(* Above that come the kinds of actions (Removed, RestedSame, SpawnedActs),  *)
(* which say what becomes of terminals, sessions and the file: Acts.         *)
(***************************************************************************)
EXTENDS PaneLayout, WellFoundedInduction, TLAPS

(* The workspaces with their tabs, as functions.                             *)
Spaces == UNION {[D -> SUBSET Tab] : D \in SUBSET Nums}

(* A layout whose copies need not agree: what the helpers pass around.       *)
Raw == [spaces: Spaces, ws: Nums, tabs: SUBSET Tab, cur: Tab \union {NoTab}, panes: SUBSET Panes]

Framed(s) ==
  /\ s.ws \in DOMAIN s.spaces
  /\ IF s.tabs = {} THEN s.cur = NoTab /\ s.panes = {} ELSE s.cur \in s.tabs

Layout == {s \in Raw : Framed(s)}

(* The tabs of the active workspace and the workspaces, all brought up to    *)
(* date.                                                                     *)
Tabs(s) == SaveTab(s).tabs
Whole(s) == SaveSpace(s).spaces

(* No pane is in two tabs.                                                   *)
OnceIn(ts) == \A a, b \in ts : a = b \/ a.panes \intersect b.panes = {}
Apart(f) == \A n, m \in DOMAIN f : n = m \/ PanesOf(f[n]) \intersect PanesOf(f[m]) = {}
Once(f) == (\A n \in DOMAIN f : OnceIn(f[n])) /\ Apart(f)

(* From f to g tabs only lose panes, but that workspace w may get those of x. *)
Had(f, n) == IF n \in DOMAIN f THEN PanesOf(f[n]) ELSE {}
Moves(f, g, w, x) ==
  \A n \in DOMAIN g : OnceIn(g[n]) /\ PanesOf(g[n]) \subseteq Had(f, n) \union (IF n = w THEN x ELSE {})

-----------------------------------------------------------------------------
(* Numbers: the maximum of a set that is not empty and has an upper bound.   *)
LEMMA MaxBounds ==
  ASSUME NEW N \in Nat, NEW S \in SUBSET (0 .. N), S # {}
  PROVE  Max(S) \in S /\ \A y \in S : Max(S) >= y
<1> DEFINE T == {n \in Nat : \E x \in S : n = N - x}
<1>1. T \subseteq Nat /\ T # {}
  <2>1. PICK x \in S : TRUE  OBVIOUS
  <2>2. x \in 0 .. N /\ N - x \in Nat  BY <2>1
  <2>. QED  BY <2>1, <2>2
<1>2. PICK n \in T : \A m \in T : <<m, n>> \notin OpToRel(<, Nat)
  <2>. HIDE DEF T
  <2>. QED  BY <1>1, WFMin, NatLessThanWellFounded, Zenon
<1>3. PICK x \in S : n = N - x  BY <1>2
<1>4. ASSUME NEW y \in S PROVE x >= y
  <2>1. x \in 0 .. N /\ y \in 0 .. N  OBVIOUS
  <2>2. N - y \in T  BY <2>1
  <2>3. ~(N - y < n)
    <3>1. n \in Nat /\ N - y \in Nat  BY <1>2, <2>2
    <3>. QED  BY <1>2, <2>2, <3>1 DEF OpToRel
  <2>. QED  BY <1>3, <2>1, <2>3
<1>. QED  BY <1>3, <1>4 DEF Max

-----------------------------------------------------------------------------
(* Functions of workspaces.                                                  *)
LEMMA SpacesAre ==
  ASSUME NEW f \in Spaces
  PROVE  /\ DOMAIN f \subseteq Nums /\ \A n \in DOMAIN f : f[n] \subseteq Tab
         /\ f = [n \in DOMAIN f |-> f[n]]
         /\ IsSpaces(f)
<1>1. PICK D \in SUBSET Nums : f \in [D -> SUBSET Tab]  BY DEF Spaces
<1>. QED  BY <1>1 DEF IsSpaces

LEMMA SpacesMade ==
  ASSUME NEW D \in SUBSET Nums, NEW f \in [D -> SUBSET Tab]
  PROVE  f \in Spaces
BY DEF Spaces

LEMMA TabIs ==
  ASSUME NEW t \in Tab
  PROVE  /\ t.id \in Panes /\ t.panes \subseteq Panes /\ t # NoTab
         /\ [t EXCEPT !.panes = t.panes] = t
         /\ \A ps \in SUBSET Panes : [t EXCEPT !.panes = ps] \in Tab /\ [t EXCEPT !.panes = ps].panes = ps
<1>1. t.id # 0  BY DEF Tab, Panes
<1>. QED  BY <1>1 DEF Tab, NoTab

LEMMA KeysOf ==
  ASSUME NEW f \in Spaces
  PROVE  /\ \A k \in Keyed(f) : k \in Keys /\ k[1] \in DOMAIN f /\ k[2] \in PanesOf(f[k[1]])
         /\ \A n \in DOMAIN f : \A p \in PanesOf(f[n]) : <<n, p>> \in Keyed(f) /\ p \in Panes
<1>1. ASSUME NEW n \in DOMAIN f, NEW p \in PanesOf(f[n]) PROVE <<n, p>> \in Keyed(f) /\ p \in Panes /\ n \in Nums
  <2>1. n \in Nums /\ f[n] \subseteq Tab  BY SpacesAre
  <2>2. PICK t \in f[n] : p \in t.panes  BY DEF PanesOf
  <2>3. p \in Panes  BY <2>1, <2>2, TabIs
  <2>4. <<n, p>> \in {n} \X PanesOf(f[n])  OBVIOUS
  <2>. QED  BY <2>1, <2>3, <2>4 DEF Keyed
<1>2. ASSUME NEW k \in Keyed(f) PROVE k \in Keys /\ k[1] \in DOMAIN f /\ k[2] \in PanesOf(f[k[1]])
  <2>1. PICK n \in DOMAIN f : k \in {n} \X PanesOf(f[n])  BY DEF Keyed
  <2>2. k = <<n, k[2]>> /\ k[1] = n /\ k[2] \in PanesOf(f[n])  BY <2>1
  <2>. QED  BY <1>1, <2>2 DEF Keys
<1>. QED  BY <1>1, <1>2

LEMMA KeyedBy ==
  ASSUME NEW f
  PROVE  \A k : k \in Keyed(f) <=> k = <<k[1], k[2]>> /\ k[1] \in DOMAIN f /\ k[2] \in PanesOf(f[k[1]])
<1>1. ASSUME NEW k \in Keyed(f) PROVE k = <<k[1], k[2]>> /\ k[1] \in DOMAIN f /\ k[2] \in PanesOf(f[k[1]])
  <2>1. PICK n \in DOMAIN f : k \in {n} \X PanesOf(f[n])  BY DEF Keyed
  <2>. QED  BY <2>1
<1>2. ASSUME NEW k, k = <<k[1], k[2]>>, k[1] \in DOMAIN f, k[2] \in PanesOf(f[k[1]]) PROVE k \in Keyed(f)
  <2>1. k \in {k[1]} \X PanesOf(f[k[1]])  BY <1>2
  <2>. QED  BY <1>2, <2>1 DEF Keyed
<1>. QED  BY <1>1, <1>2

LEMMA OnceMoves ==
  ASSUME NEW f \in Spaces, NEW g \in Spaces, NEW w, NEW x, Once(f), Moves(f, g, w, x),
         \A n \in DOMAIN f : PanesOf(f[n]) \intersect x = {}
  PROVE  /\ Once(g)
         /\ Keyed(g) \subseteq Keyed(f) \union ({w} \X x)
<1>1. ASSUME NEW n \in DOMAIN g, NEW m \in DOMAIN g, n # m
      PROVE  PanesOf(g[n]) \intersect PanesOf(g[m]) = {}
  <2>1. Had(f, n) \intersect Had(f, m) = {}  BY <1>1 DEF Once, Apart, Had
  <2>2. Had(f, n) \intersect x = {} /\ Had(f, m) \intersect x = {}  BY DEF Had
  <2>. HIDE DEF PanesOf
  <2>. QED  BY <1>1, <2>1, <2>2 DEF Moves
<1>2. ASSUME NEW k \in Keyed(g) PROVE k \in Keyed(f) \union ({w} \X x)
  <2>1. PICK n \in DOMAIN g : k \in {n} \X PanesOf(g[n])  BY <1>2 DEF Keyed
  <2>2. k[2] \in Had(f, n) \union (IF n = w THEN x ELSE {}) /\ k = <<n, k[2]>>  BY <2>1 DEF Moves
  <2>3. CASE k[2] \in Had(f, n)
    <3>1. n \in DOMAIN f /\ k[2] \in PanesOf(f[n])  BY <2>3 DEF Had
    <3>2. k \in {n} \X PanesOf(f[n])  BY <2>2, <3>1
    <3>. QED  BY <3>1, <3>2 DEF Keyed
  <2>4. CASE n = w /\ k[2] \in x  BY <2>2, <2>4
  <2>. QED  BY <2>2, <2>3, <2>4
<1>. QED  BY <1>1, <1>2 DEF Once, Apart, Moves

-----------------------------------------------------------------------------
(* The copies.                                                               *)
LEMMA RawIs ==
  ASSUME NEW s \in Raw
  PROVE  /\ s.spaces \in Spaces /\ s.ws \in Nums /\ s.tabs \subseteq Tab
         /\ s.cur \in Tab \union {NoTab} /\ s.panes \subseteq Panes
BY DEF Raw

(* A layout made from its five parts.                                        *)
LEMMA RawMade ==
  ASSUME NEW f \in Spaces, NEW n \in Nums, NEW ts \in SUBSET Tab, NEW c \in Tab \union {NoTab},
         NEW ps \in SUBSET Panes
  PROVE  LET r == [spaces |-> f, ws |-> n, tabs |-> ts, cur |-> c, panes |-> ps]
         IN  r \in Raw /\ r.spaces = f /\ r.ws = n /\ r.tabs = ts /\ r.cur = c /\ r.panes = ps
BY DEF Raw

(* The stored panes of the tab in view are among those in view.              *)
Behind(s) == s.cur.panes \subseteq s.panes

LEMMA SaveTabIs ==
  ASSUME NEW s \in Layout
  PROVE  /\ SaveTab(s) \in Layout
         /\ SaveTab(s).spaces = s.spaces /\ SaveTab(s).ws = s.ws /\ SaveTab(s).panes = s.panes
         /\ SaveTab(s).tabs = IF s.cur = NoTab THEN {} ELSE (s.tabs \ {s.cur}) \union {[s.cur EXCEPT !.panes = s.panes]}
         /\ SaveTab(s).cur = IF s.cur = NoTab THEN NoTab ELSE [s.cur EXCEPT !.panes = s.panes]
         /\ SaveTab(SaveTab(s)) = SaveTab(s)
         /\ Behind(SaveTab(s))
<1>. s \in Raw /\ Framed(s)  BY DEF Layout
<1>1. CASE s.cur = NoTab
  <2>1. s.tabs = {}  BY <1>1, TabIs, RawIs DEF Framed
  <2>. QED  BY <1>1, <2>1 DEF SaveTab, Behind, NoTab
<1>2. CASE s.cur # NoTab
  <2> DEFINE t == [s.cur EXCEPT !.panes = s.panes]
  <2>1. s.cur \in s.tabs /\ s.cur \in Tab /\ s.tabs # {} /\ s.panes \subseteq Panes  BY <1>2, RawIs DEF Framed
  <2>2. t \in Tab /\ t # NoTab /\ t.panes = s.panes /\ [t EXCEPT !.panes = s.panes] = t  BY <2>1, TabIs
  <2>3. SaveTab(s) = [s EXCEPT !.tabs = (s.tabs \ {s.cur}) \union {t}, !.cur = t]  BY <1>2 DEF SaveTab
  <2>. HIDE DEF t
  <2> DEFINE r == [s EXCEPT !.tabs = (s.tabs \ {s.cur}) \union {t}, !.cur = t]
  <2>4. /\ r \in Raw /\ r.spaces = s.spaces /\ r.ws = s.ws /\ r.panes = s.panes /\ r.cur = t
        /\ r.tabs = (s.tabs \ {s.cur}) \union {t}
    BY <2>1, <2>2 DEF Raw
  <2>5. r \in Layout  BY <2>4 DEF Layout, Framed
  <2>6. SaveTab(r) = r
    <3>1. r.cur # NoTab /\ [r.cur EXCEPT !.panes = r.panes] = t  BY <2>2, <2>4
    <3>2. (r.tabs \ {r.cur}) \union {t} = r.tabs  BY <2>4
    <3>3. SaveTab(r) = [r EXCEPT !.tabs = (r.tabs \ {r.cur}) \union {t}, !.cur = t]  BY <3>1 DEF SaveTab
    <3>4. SaveTab(r) = [r EXCEPT !.tabs = r.tabs, !.cur = r.cur]  BY <2>4, <3>2, <3>3
    <3>. HIDE DEF r
    <3>. QED  BY <2>4, <3>4 DEF Raw
  <2>7. Behind(r)  BY <2>2, <2>4 DEF Behind
  <2>. QED  BY <1>2, <2>3, <2>4, <2>5, <2>6, <2>7 DEF t
<1>. QED  BY <1>1, <1>2

LEMMA WithIs ==
  ASSUME NEW s \in Raw, NEW n \in Nums, NEW ts \in SUBSET Tab
  PROVE  /\ With(s, n, ts) \in Raw
         /\ With(s, n, ts).spaces = [m \in DOMAIN s.spaces \union {n} |-> IF m = n THEN ts ELSE s.spaces[m]]
         /\ With(s, n, ts).ws = s.ws /\ With(s, n, ts).tabs = s.tabs
         /\ With(s, n, ts).cur = s.cur /\ With(s, n, ts).panes = s.panes
<1> DEFINE f == [m \in DOMAIN s.spaces \union {n} |-> IF m = n THEN ts ELSE s.spaces[m]]
<1>1. f \in [DOMAIN s.spaces \union {n} -> SUBSET Tab] /\ DOMAIN s.spaces \union {n} \subseteq Nums
  BY RawIs, SpacesAre
<1>2. f \in Spaces  BY <1>1, SpacesMade
<1>3. With(s, n, ts) = [s EXCEPT !.spaces = f]  BY DEF With
<1>. HIDE DEF f
<1>4. [s EXCEPT !.spaces = f] \in Raw /\ [s EXCEPT !.spaces = f].spaces = f  BY <1>2 DEF Raw
<1>. QED  BY <1>3, <1>4 DEF f, Raw

LEMMA SaveSpaceIs ==
  ASSUME NEW s \in Layout
  PROVE  /\ SaveSpace(s) \in Layout /\ Whole(s) \in Spaces
         /\ SaveSpace(s).ws = s.ws /\ SaveSpace(s).panes = s.panes
         /\ SaveSpace(s).tabs = Tabs(s) /\ SaveSpace(s).cur = SaveTab(s).cur
         /\ DOMAIN Whole(s) = DOMAIN s.spaces /\ s.ws \in DOMAIN s.spaces
         /\ Whole(s) = [m \in DOMAIN s.spaces |-> IF m = s.ws THEN Tabs(s) ELSE s.spaces[m]]
<1> DEFINE t == SaveTab(s)
<1>1. t \in Layout /\ t \in Raw /\ Framed(t) /\ Framed(s) /\ t.spaces = s.spaces /\ t.ws = s.ws /\ t.panes = s.panes
  BY SaveTabIs DEF Layout
<1>2. SaveSpace(s) = With(t, t.ws, t.tabs)  BY DEF SaveSpace
<1>. HIDE DEF t
<1>3. t.ws \in Nums /\ t.tabs \in SUBSET Tab /\ t.ws \in DOMAIN t.spaces  BY <1>1, RawIs DEF Framed
<1> DEFINE w == With(t, t.ws, t.tabs)
<1>4. /\ w \in Raw /\ w.ws = t.ws /\ w.tabs = t.tabs /\ w.cur = t.cur /\ w.panes = t.panes
      /\ w.spaces = [m \in DOMAIN t.spaces \union {t.ws} |-> IF m = t.ws THEN t.tabs ELSE t.spaces[m]]
  BY <1>1, <1>3, WithIs
<1>. HIDE DEF w
<1>5. DOMAIN t.spaces \union {t.ws} = DOMAIN t.spaces  BY <1>3
<1>6. w.spaces = [m \in DOMAIN t.spaces |-> IF m = t.ws THEN t.tabs ELSE t.spaces[m]]  BY <1>4, <1>5
<1>7. w.ws \in DOMAIN w.spaces  BY <1>3, <1>4, <1>6
<1>8. w \in Layout  BY <1>1, <1>4, <1>7 DEF Layout, Framed
<1>9. w = SaveSpace(s)  BY <1>2 DEF w
<1>. QED  BY <1>1, <1>3, <1>4, <1>6, <1>8, <1>9, RawIs DEF Whole, Tabs, t

(* What comes after a save is the same layout.                               *)
LEMMA SavedIs ==
  ASSUME NEW s \in Layout
  PROVE  /\ Tabs(SaveTab(s)) = Tabs(s) /\ Whole(SaveTab(s)) = Whole(s)
         /\ Tabs(SaveSpace(s)) = Tabs(s) /\ Whole(SaveSpace(s)) = Whole(s)
<1>1. SaveTab(s) \in Layout /\ SaveTab(SaveTab(s)) = SaveTab(s) /\ SaveTab(s).spaces = s.spaces /\ SaveTab(s).ws = s.ws
  BY SaveTabIs
<1>2. Tabs(SaveTab(s)) = Tabs(s)  BY <1>1 DEF Tabs
<1>3. Whole(SaveTab(s)) = Whole(s)
  <2>1. SaveSpace(SaveTab(s)) = SaveSpace(s)  BY <1>1 DEF SaveSpace
  <2>. QED  BY <2>1 DEF Whole
<1> DEFINE w == SaveSpace(s)
<1>4. /\ w \in Layout /\ w.cur = SaveTab(s).cur /\ w.tabs = Tabs(s) /\ w.panes = s.panes /\ w.ws = s.ws
      /\ w.spaces = Whole(s)
  BY SaveSpaceIs DEF Whole
<1>. HIDE DEF w
<1>5. Tabs(w) = Tabs(s)
  <2>1. Tabs(w) = IF w.cur = NoTab THEN {} ELSE (w.tabs \ {w.cur}) \union {[w.cur EXCEPT !.panes = w.panes]}
    BY <1>4, SaveTabIs DEF Tabs
  <2>2. Tabs(SaveTab(s)) =
          IF SaveTab(s).cur = NoTab THEN {}
          ELSE (SaveTab(s).tabs \ {SaveTab(s).cur}) \union {[SaveTab(s).cur EXCEPT !.panes = SaveTab(s).panes]}
    BY <1>1, SaveTabIs DEF Tabs
  <2>3. SaveTab(s).panes = s.panes  BY SaveTabIs
  <2>. QED  BY <1>2, <1>4, <2>1, <2>2, <2>3 DEF Tabs
<1>6. Whole(w) = Whole(s)
  <2>1. Whole(w) = [m \in DOMAIN w.spaces |-> IF m = w.ws THEN Tabs(w) ELSE w.spaces[m]]  BY <1>4, SaveSpaceIs
  <2>2. Whole(s) = [m \in DOMAIN s.spaces |-> IF m = s.ws THEN Tabs(s) ELSE s.spaces[m]]
        /\ DOMAIN Whole(s) = DOMAIN s.spaces
    BY SaveSpaceIs
  <2>. QED  BY <1>4, <1>5, <2>1, <2>2
<1>. QED  BY <1>2, <1>3, <1>5, <1>6 DEF w

LEMMA ShownIs ==
  ASSUME NEW s \in Raw, s.ws \in DOMAIN s.spaces, NEW t \in s.tabs
  PROVE  /\ Shown(s, t) \in Layout /\ Tabs(Shown(s, t)) = s.tabs
         /\ Shown(s, t).spaces = s.spaces /\ Shown(s, t).ws = s.ws /\ Shown(s, t).tabs = s.tabs
         /\ Shown(s, t).cur = t /\ Shown(s, t).panes = t.panes /\ Behind(Shown(s, t))
<1> DEFINE r == Shown(s, t)
<1>1. t \in Tab /\ t.panes \subseteq Panes /\ t # NoTab /\ [t EXCEPT !.panes = t.panes] = t
  BY RawIs, TabIs
<1>2. /\ r \in Raw /\ r.spaces = s.spaces /\ r.ws = s.ws /\ r.tabs = s.tabs /\ r.cur = t /\ r.panes = t.panes
  BY <1>1 DEF Raw, Shown
<1>. HIDE DEF r
<1>3. r \in Layout  BY <1>2 DEF Layout, Framed
<1>4. Tabs(r) = (r.tabs \ {r.cur}) \union {[r.cur EXCEPT !.panes = r.panes]}
  BY <1>1, <1>2, <1>3, SaveTabIs DEF Tabs
<1>5. Tabs(r) = s.tabs  BY <1>1, <1>2, <1>4
<1>. QED  BY <1>2, <1>3, <1>5 DEF r, Behind

LEMMA EmptiedIs ==
  ASSUME NEW s \in Raw, s.ws \in DOMAIN s.spaces
  PROVE  /\ Emptied(s) \in Layout /\ Tabs(Emptied(s)) = {}
         /\ Emptied(s).spaces = s.spaces /\ Emptied(s).ws = s.ws
         /\ Emptied(s).tabs = {} /\ Emptied(s).cur = NoTab /\ Emptied(s).panes = {} /\ Behind(Emptied(s))
<1> DEFINE r == Emptied(s)
<1>1. r \in Raw /\ r.spaces = s.spaces /\ r.ws = s.ws /\ r.tabs = {} /\ r.cur = NoTab /\ r.panes = {}
  BY DEF Raw, Emptied
<1>. HIDE DEF r
<1>2. r \in Layout  BY <1>1 DEF Layout, Framed
<1>3. Tabs(r) = {}  BY <1>1, <1>2, SaveTabIs DEF Tabs
<1>. QED  BY <1>1, <1>2, <1>3 DEF r, Behind, NoTab

(* A workspace comes into view as it was stored.                             *)
LEMMA LoadSpaceIs ==
  ASSUME NEW s \in Raw, s.ws \in DOMAIN s.spaces, NEW r \in LoadSpace(s)
  PROVE  /\ r \in Layout /\ Whole(r) = s.spaces /\ r.spaces = s.spaces /\ r.ws = s.ws
         /\ r.tabs = s.spaces[s.ws] /\ Tabs(r) = s.spaces[s.ws] /\ Behind(r)
<1> DEFINE ts == s.spaces[s.ws]
<1>1. s.spaces \in Spaces /\ ts \subseteq Tab  BY RawIs, SpacesAre
<1>2. r \in Layout /\ r.spaces = s.spaces /\ r.ws = s.ws /\ r.tabs = ts /\ Tabs(r) = ts /\ Behind(r)
  <2>1. CASE ts = {}
    <3>1. r = Emptied(s)  BY <2>1 DEF LoadSpace
    <3>. QED  BY <2>1, <3>1, EmptiedIs
  <2>2. CASE ts # {}
    <3> DEFINE u == [s EXCEPT !.tabs = ts]
    <3>1. PICK t \in ts : r = Shown(u, t)  BY <2>2 DEF LoadSpace
    <3>2. u \in Raw /\ u.tabs = ts /\ u.spaces = s.spaces /\ u.ws = s.ws  BY <1>1 DEF Raw
    <3>. HIDE DEF u, ts
    <3>. QED  BY <3>1, <3>2, ShownIs
  <2>. QED  BY <2>1, <2>2
<1>. HIDE DEF ts
<1>3. Whole(r) = [m \in DOMAIN r.spaces |-> IF m = r.ws THEN Tabs(r) ELSE r.spaces[m]]  BY <1>2, SaveSpaceIs
<1>4. Whole(r) = s.spaces  BY <1>1, <1>2, <1>3, SpacesAre DEF ts
<1>. QED  BY <1>2, <1>4 DEF ts

LEMMA RetainIs ==
  ASSUME NEW ts \in SUBSET Tab, NEW kept
  PROVE  /\ RetainPanes(ts, kept) \subseteq Tab
         /\ OnceIn(ts) => OnceIn(RetainPanes(ts, kept))
         /\ PanesOf(RetainPanes(ts, kept)) = PanesOf(ts) \intersect kept
<1>1. ASSUME NEW u \in RetainPanes(ts, kept)
      PROVE  \E t \in ts : u = [t EXCEPT !.panes = t.panes \intersect kept] /\ u \in Tab /\ u.panes = t.panes \intersect kept
  <2>1. PICK t \in ts : u = [t EXCEPT !.panes = t.panes \intersect kept]  BY DEF RetainPanes
  <2>2. t.panes \intersect kept \in SUBSET Panes /\ t \in Tab  BY TabIs
  <2>. QED  BY <2>1, <2>2, TabIs
<1>2. RetainPanes(ts, kept) \subseteq Tab  BY <1>1
<1>3. ASSUME OnceIn(ts), NEW u \in RetainPanes(ts, kept), NEW v \in RetainPanes(ts, kept)
      PROVE  u = v \/ u.panes \intersect v.panes = {}
  <2>1. PICK a \in ts : u = [a EXCEPT !.panes = a.panes \intersect kept] /\ u.panes = a.panes \intersect kept  BY <1>1
  <2>2. PICK b \in ts : v = [b EXCEPT !.panes = b.panes \intersect kept] /\ v.panes = b.panes \intersect kept  BY <1>1
  <2>3. a = b \/ a.panes \intersect b.panes = {}  BY <1>3 DEF OnceIn
  <2>. QED  BY <2>1, <2>2, <2>3
<1>4. PanesOf(RetainPanes(ts, kept)) \subseteq PanesOf(ts) \intersect kept
  <2>1. ASSUME NEW p \in PanesOf(RetainPanes(ts, kept)) PROVE p \in PanesOf(ts) /\ p \in kept
    <3>1. PICK u \in RetainPanes(ts, kept) : p \in u.panes  BY DEF PanesOf
    <3>2. PICK t \in ts : u.panes = t.panes \intersect kept  BY <1>1
    <3>. QED  BY <3>1, <3>2 DEF PanesOf
  <2>. QED  BY <2>1
<1>5. ASSUME NEW p \in PanesOf(ts), p \in kept PROVE p \in PanesOf(RetainPanes(ts, kept))
  <2>1. PICK t \in ts : p \in t.panes  BY DEF PanesOf
  <2> DEFINE u == [t EXCEPT !.panes = t.panes \intersect kept]
  <2>2. t \in Tab /\ t.panes \intersect kept \in SUBSET Panes  BY TabIs
  <2>3. u.panes = t.panes \intersect kept  BY <2>2, TabIs
  <2>4. \A v \in ts : [v EXCEPT !.panes = {}].panes = {}  BY TabIs
  <2>5. u \in RetainPanes(ts, kept)  BY <1>5, <2>1, <2>3, <2>4 DEF RetainPanes
  <2>6. p \in u.panes  BY <1>5, <2>1, <2>3
  <2>. HIDE DEF u
  <2>. QED  BY <2>5, <2>6 DEF PanesOf
<1>. QED  BY <1>2, <1>3, <1>4, <1>5 DEF OnceIn

LEMMA RetainedIs ==
  ASSUME NEW f \in Spaces, NEW kept
  PROVE  /\ Retained(f, kept) \in Spaces /\ DOMAIN Retained(f, kept) = DOMAIN f
         /\ \A n \in DOMAIN f : /\ Retained(f, kept)[n] = RetainPanes(f[n], kept)
                                /\ PanesOf(Retained(f, kept)[n]) = PanesOf(f[n]) \intersect kept
         /\ Once(f) => Once(Retained(f, kept))
         /\ \A k : k \in Keyed(Retained(f, kept)) <=> k \in Keyed(f) /\ k[2] \in kept
<1> DEFINE g == Retained(f, kept)
<1>1. DOMAIN f \subseteq Nums /\ \A n \in DOMAIN f : f[n] \subseteq Tab  BY SpacesAre
<1>2. g = [n \in DOMAIN f |-> RetainPanes(f[n], kept)]  BY DEF Retained
<1>3. g \in [DOMAIN f -> SUBSET Tab]
  <2>1. \A n \in DOMAIN f : RetainPanes(f[n], kept) \in SUBSET Tab  BY <1>1, RetainIs
  <2>. QED  BY <1>2, <2>1
<1>4. \A n \in DOMAIN f : PanesOf(g[n]) = PanesOf(f[n]) \intersect kept  BY <1>1, <1>2, RetainIs, Zenon
<1>5. ASSUME Once(f) PROVE Once(g)
  <2>1. ASSUME NEW n \in DOMAIN f PROVE OnceIn(g[n])  BY <1>1, <1>2, <1>5, RetainIs DEF Once
  <2>2. ASSUME NEW n \in DOMAIN f, NEW m \in DOMAIN f, n # m PROVE PanesOf(g[n]) \intersect PanesOf(g[m]) = {}
    <3>1. PanesOf(f[n]) \intersect PanesOf(f[m]) = {}  BY <1>5, <2>2 DEF Once, Apart
    <3>. QED  BY <1>4, <3>1
  <2>3. DOMAIN g = DOMAIN f  BY <1>2
  <2>. HIDE DEF g
  <2>. QED  BY <2>1, <2>2, <2>3 DEF Once, Apart
<1>6. ASSUME NEW k PROVE k \in Keyed(g) <=> k \in Keyed(f) /\ k[2] \in kept
  <2>1. g \in Spaces /\ DOMAIN g = DOMAIN f  BY <1>1, <1>2, <1>3, SpacesMade
  <2>. HIDE DEF g
  <2>. QED  BY <1>4, <2>1, KeyedBy
<1>. QED  BY <1>1, <1>2, <1>3, <1>4, <1>5, <1>6, SpacesMade

LEMMA PruneIs ==
  ASSUME NEW s \in Layout, NEW kept, NEW r \in Prune(s, kept)
  PROVE  r \in Layout /\ Whole(r) = Retained(Whole(s), kept) /\ r.ws = s.ws
<1> DEFINE w == SaveSpace(s)  f == Retained(Whole(s), kept)  u == [w EXCEPT !.spaces = f]
<1>1. w \in Layout /\ w \in Raw /\ w.ws = s.ws /\ w.spaces = Whole(s) /\ Whole(s) \in Spaces /\ s.ws \in DOMAIN Whole(s)
  BY SaveSpaceIs DEF Whole, Layout
<1>2. f \in Spaces /\ DOMAIN f = DOMAIN Whole(s)  BY <1>1, RetainedIs
<1>3. r \in LoadSpace(u)  BY DEF Prune, Whole
<1>. HIDE DEF f, w
<1>4. u \in Raw /\ u.spaces = f /\ u.ws = s.ws  BY <1>1, <1>2 DEF Raw
<1>. HIDE DEF u
<1>. QED  BY <1>1, <1>2, <1>3, <1>4, LoadSpaceIs DEF f

(* What is written to the file.                                              *)
FileOK(f) ==
  /\ f \in [ws: Nums, spaces: Spaces]
  /\ DOMAIN f.spaces = {} \/ f.ws \in DOMAIN f.spaces

LEMMA PersistedIs ==
  ASSUME NEW s \in Layout, NEW docs
  PROVE  /\ FileOK(Persisted(s, docs))
         /\ Once(Whole(s)) => Once(Persisted(s, docs).spaces)
<1>1. Whole(s) \in Spaces /\ s.ws \in DOMAIN Whole(s) /\ s.ws \in Nums  BY SaveSpaceIs, RawIs DEF Layout
<1> DEFINE f == IF docs = {} THEN Whole(s) ELSE Retained(Whole(s), Panes \ docs)
<1>2. f \in Spaces /\ DOMAIN f = DOMAIN Whole(s) /\ (Once(Whole(s)) => Once(f))  BY <1>1, RetainedIs
<1>3. Persisted(s, docs) = [ws |-> s.ws, spaces |-> f]  BY DEF Persisted, Whole
<1>. HIDE DEF f
<1>. QED  BY <1>1, <1>2, <1>3 DEF FileOK

-----------------------------------------------------------------------------
(* Adding and dropping tabs.                                                 *)
LEMMA OnceSub ==
  ASSUME NEW ts, NEW us \in SUBSET ts
  PROVE  (OnceIn(ts) => OnceIn(us)) /\ PanesOf(us) \subseteq PanesOf(ts)
BY DEF OnceIn, PanesOf

LEMMA PanesAdd ==
  ASSUME NEW ts, NEW u
  PROVE  PanesOf(ts \union {u}) = PanesOf(ts) \union u.panes
BY DEF PanesOf

LEMMA OnceAdd ==
  ASSUME NEW ts, NEW u, OnceIn(ts), u.panes \intersect PanesOf(ts) = {}
  PROVE  OnceIn(ts \union {u})
<1>1. \A a \in ts : a.panes \subseteq PanesOf(ts)  BY DEF PanesOf
<1>. QED  BY <1>1 DEF OnceIn

(* A layout in order: no pane is in two tabs, and no other tab than the one   *)
(* in view holds a pane in view.                                             *)
Others(s) == s.tabs \ {s.cur}
Fresh(s) == s.panes \intersect PanesOf(Others(s)) = {}
Sound(s) == Fresh(s) /\ Once(Whole(s))

(* From s to r no pane is doubled or moved, and x is what appears.            *)
Follows(s, r, x) ==
  /\ r \in Layout
  /\ Sound(s) /\ (\A n \in DOMAIN Whole(s) : PanesOf(Whole(s)[n]) \intersect x = {}) =>
       Fresh(r) /\ Moves(Whole(s), Whole(r), s.ws, x)

(* From s to r only the panes of gone leave the layout, and they do; a pane   *)
(* that stays and was stored is stored.                                      *)
Keeps(s, r, gone) ==
  /\ Sound(s) => /\ Keyed(Whole(s)) \subseteq Keyed(Whole(r)) \union gone
                 /\ \A k \in Keyed(Whole(r)) : \A g \in gone : k[2] # g[2]
  /\ Keyed(s.spaces) \intersect Keyed(Whole(r)) \subseteq Keyed(r.spaces)

(* What is stored was stored, or in the layout.                              *)
Stores(s, r) == Keyed(r.spaces) \subseteq Keyed(s.spaces) \union Keyed(Whole(s))

Rests(s, r, x, gone) == Follows(s, r, x) /\ Keeps(s, r, gone) /\ Stores(s, r) /\ (Behind(s) => Behind(r))

LEMMA TabsAre ==
  ASSUME NEW s \in Layout
  PROVE  /\ s.cur # NoTab => /\ s.cur \in s.tabs /\ s.cur \in Tab
                             /\ Tabs(s) = Others(s) \union {[s.cur EXCEPT !.panes = s.panes]}
                             /\ [s.cur EXCEPT !.panes = s.panes] \in Tab
                             /\ [s.cur EXCEPT !.panes = s.panes].panes = s.panes
         /\ s.cur = NoTab => s.tabs = {} /\ s.panes = {} /\ Others(s) = {} /\ Tabs(s) = {}
         /\ PanesOf(Tabs(s)) = PanesOf(Others(s)) \union s.panes
         /\ Others(s) \subseteq Tab /\ Others(s) \subseteq Tabs(s)
         /\ Sound(s) => OnceIn(Tabs(s)) /\ OnceIn(Others(s)) /\ Fresh(s)
<1>1. s \in Raw /\ Framed(s) /\ s.tabs \subseteq Tab /\ s.panes \subseteq Panes  BY RawIs DEF Layout
<1>2. s.cur # NoTab => s.cur \in s.tabs /\ s.cur \in Tab  BY <1>1, RawIs DEF Framed
<1>3. s.cur = NoTab => s.tabs = {} /\ s.panes = {}  BY <1>1, TabIs DEF Framed
<1>4. Tabs(s) = IF s.cur = NoTab THEN {} ELSE Others(s) \union {[s.cur EXCEPT !.panes = s.panes]}
  BY SaveTabIs DEF Tabs, Others
<1>5. PanesOf(Tabs(s)) = PanesOf(Others(s)) \union s.panes
  <2>1. CASE s.cur = NoTab  BY <1>3, <1>4, <2>1 DEF Others, PanesOf
  <2>2. CASE s.cur # NoTab
    <3>1. [s.cur EXCEPT !.panes = s.panes].panes = s.panes  BY <1>1, <1>2, <2>2, TabIs
    <3>. QED  BY <1>4, <2>2, <3>1, PanesAdd
  <2>. QED  BY <2>1, <2>2
<1>6. Sound(s) => OnceIn(Tabs(s))
  <2>1. s.ws \in DOMAIN Whole(s) /\ Whole(s)[s.ws] = Tabs(s)  BY SaveSpaceIs
  <2>. QED  BY <2>1 DEF Sound, Once
<1>7. Others(s) \subseteq Tab /\ Others(s) \subseteq Tabs(s)  BY <1>1, <1>3, <1>4 DEF Others
<1>8. OnceIn(Tabs(s)) => OnceIn(Others(s))  BY <1>7, OnceSub
<1>9. s.cur # NoTab => [s.cur EXCEPT !.panes = s.panes] \in Tab /\ [s.cur EXCEPT !.panes = s.panes].panes = s.panes
  BY <1>1, <1>2, TabIs
<1>. QED  BY <1>2, <1>3, <1>4, <1>5, <1>6, <1>7, <1>8, <1>9 DEF Sound, Others

LEMMA FreshShown ==
  ASSUME NEW s \in Raw, s.ws \in DOMAIN s.spaces, NEW t \in s.tabs, OnceIn(s.tabs)
  PROVE  Fresh(Shown(s, t))
<1>1. Shown(s, t).cur = t /\ Shown(s, t).tabs = s.tabs /\ Shown(s, t).panes = t.panes  BY ShownIs
<1>. QED  BY <1>1 DEF Fresh, Others, OnceIn, PanesOf

LEMMA FreshSave ==
  ASSUME NEW s \in Layout, Fresh(s)
  PROVE  Fresh(SaveTab(s))
<1>1. Others(SaveTab(s)) \subseteq Others(s) /\ SaveTab(s).panes = s.panes  BY SaveTabIs DEF Others
<1>. QED  BY <1>1, OnceSub DEF Fresh

LEMMA WholeSame ==
  ASSUME NEW s \in Layout, NEW r \in Layout, r.spaces = s.spaces, r.ws = s.ws, Tabs(r) = Tabs(s)
  PROVE  Whole(r) = Whole(s)
BY SaveSpaceIs

LEMMA FollowsSame ==
  ASSUME NEW s \in Layout, NEW r \in Layout, Whole(r) = Whole(s), Sound(s) => Fresh(r)
  PROVE  Follows(s, r, {})
<1>1. Sound(s) => \A n \in DOMAIN Whole(s) : OnceIn(Whole(s)[n])  BY DEF Sound, Once
<1>. QED  BY <1>1 DEF Follows, Moves, Had

LEMMA KeepsSame ==
  ASSUME NEW s, NEW r, Whole(r) = Whole(s), r.spaces = s.spaces \/ r.spaces = Whole(r)
  PROVE  Keeps(s, r, {})
BY DEF Keeps

LEMMA KeepsTabs ==
  ASSUME NEW s \in Layout, NEW r \in Layout, r.spaces = s.spaces, r.ws = s.ws,
         NEW ps \in SUBSET PanesOf(Tabs(s)),
         PanesOf(Tabs(s)) \subseteq PanesOf(Tabs(r)) \union ps,
         Sound(s) => PanesOf(Tabs(r)) \intersect ps = {}
  PROVE  Keeps(s, r, {s.ws} \X ps)
<1> DEFINE f == Whole(s)  g == Whole(r)
<1>1. /\ DOMAIN f = DOMAIN s.spaces /\ s.ws \in DOMAIN f
      /\ \A n \in DOMAIN f : f[n] = IF n = s.ws THEN Tabs(s) ELSE s.spaces[n]
  BY SaveSpaceIs
<1>2. /\ DOMAIN g = DOMAIN f
      /\ \A n \in DOMAIN f : g[n] = IF n = s.ws THEN Tabs(r) ELSE s.spaces[n]
  BY <1>1, SaveSpaceIs
<1>3. Sound(s) => Apart(f)  BY DEF Sound, Once
<1>. HIDE DEF f, g
<1>4. ASSUME NEW k \in Keyed(f) PROVE k \in Keyed(g) \union ({s.ws} \X ps)
  <2>1. k = <<k[1], k[2]>> /\ k[1] \in DOMAIN f /\ k[2] \in PanesOf(f[k[1]])  BY KeyedBy
  <2>2. CASE k[2] \in PanesOf(g[k[1]])  BY <1>2, <2>1, <2>2, KeyedBy
  <2>3. CASE k[2] \notin PanesOf(g[k[1]])
    <3>1. k[1] = s.ws /\ k[2] \in ps  BY <1>1, <1>2, <2>1, <2>3
    <3>. QED  BY <2>1, <3>1
  <2>. QED  BY <2>2, <2>3
<1>5. ASSUME Sound(s), NEW k \in Keyed(g), NEW p \in ps PROVE k[2] # p
  <2>1. k[1] \in DOMAIN f /\ k[2] \in PanesOf(g[k[1]])  BY <1>2, KeyedBy
  <2>2. CASE k[1] = s.ws  BY <1>1, <1>2, <1>5, <2>1, <2>2
  <2>3. CASE k[1] # s.ws
    <3>1. PanesOf(f[k[1]]) \intersect PanesOf(f[s.ws]) = {}  BY <1>1, <1>3, <1>5, <2>1, <2>3 DEF Apart
    <3>2. p \in PanesOf(f[s.ws]) /\ k[2] \in PanesOf(f[k[1]])  BY <1>1, <1>2, <2>1, <2>3
    <3>. QED  BY <3>1, <3>2
  <2>. QED  BY <2>2, <2>3
<1>6. \A gone \in {s.ws} \X ps : gone[2] \in ps  OBVIOUS
<1>. QED  BY <1>4, <1>5, <1>6 DEF Keeps, f, g

LEMMA KeepsAll ==
  ASSUME NEW s \in Layout, NEW r \in Layout, r.spaces = s.spaces, r.ws = s.ws,
         PanesOf(Tabs(s)) \subseteq PanesOf(Tabs(r))
  PROVE  Keeps(s, r, {})
<1>1. Keeps(s, r, {s.ws} \X {})  BY KeepsTabs
<1>2. {s.ws} \X {} = {}  OBVIOUS
<1>. QED  BY <1>1, <1>2

LEMMA FollowsTabs ==
  ASSUME NEW s \in Layout, NEW r \in Layout, NEW x, r.spaces = s.spaces, r.ws = s.ws,
         Sound(s) /\ PanesOf(Tabs(s)) \intersect x = {} =>
           Fresh(r) /\ OnceIn(Tabs(r)) /\ PanesOf(Tabs(r)) \subseteq PanesOf(Tabs(s)) \union x
  PROVE  Follows(s, r, x)
<1>1. /\ DOMAIN Whole(s) = DOMAIN s.spaces /\ s.ws \in DOMAIN Whole(s)
      /\ \A n \in DOMAIN s.spaces : Whole(s)[n] = IF n = s.ws THEN Tabs(s) ELSE s.spaces[n]
  BY SaveSpaceIs
<1>2. /\ DOMAIN Whole(r) = DOMAIN s.spaces
      /\ \A n \in DOMAIN s.spaces : Whole(r)[n] = IF n = s.ws THEN Tabs(r) ELSE s.spaces[n]
  BY SaveSpaceIs
<1>3. ASSUME Sound(s), \A n \in DOMAIN Whole(s) : PanesOf(Whole(s)[n]) \intersect x = {}
      PROVE  Fresh(r) /\ Moves(Whole(s), Whole(r), s.ws, x)
  <2>1. Fresh(r) /\ OnceIn(Tabs(r)) /\ PanesOf(Tabs(r)) \subseteq PanesOf(Tabs(s)) \union x
    BY <1>1, <1>3
  <2>2. ASSUME NEW n \in DOMAIN Whole(r)
        PROVE  OnceIn(Whole(r)[n]) /\ PanesOf(Whole(r)[n]) \subseteq Had(Whole(s), n) \union (IF n = s.ws THEN x ELSE {})
    <3>1. CASE n = s.ws  BY <1>1, <1>2, <2>1, <3>1 DEF Had
    <3>2. CASE n # s.ws
      <4>1. Whole(r)[n] = Whole(s)[n] /\ n \in DOMAIN Whole(s)  BY <1>1, <1>2, <3>2
      <4>2. OnceIn(Whole(s)[n])  BY <1>3, <4>1 DEF Sound, Once
      <4>. QED  BY <3>2, <4>1, <4>2 DEF Had
    <3>. QED  BY <3>1, <3>2
  <2>. QED  BY <2>1, <2>2 DEF Moves
<1>. QED  BY <1>3 DEF Follows

-----------------------------------------------------------------------------
(* What each operation makes of the layout.                                  *)
LEMMA FollowsSave ==
  ASSUME NEW s \in Layout
  PROVE  Rests(s, SaveTab(s), {}, {})
<1>1. /\ SaveTab(s) \in Layout /\ Whole(SaveTab(s)) = Whole(s) /\ SaveTab(s).spaces = s.spaces
      /\ Behind(SaveTab(s))
  BY SaveTabIs, SavedIs
<1>. QED  BY <1>1, FreshSave, FollowsSame, KeepsSame DEF Sound, Rests, Stores

LEMMA FollowsSwitchTab ==
  ASSUME NEW s \in Layout, NEW t \in s.tabs \ {s.cur}
  PROVE  Rests(s, Shown(SaveTab(s), t), {}, {})
<1> DEFINE u == SaveTab(s)
<1>1. u \in Layout /\ u \in Raw /\ u.ws \in DOMAIN u.spaces /\ u.ws = s.ws /\ u.spaces = s.spaces /\ u.tabs = Tabs(s)
  BY SaveTabIs DEF Layout, Framed, Tabs
<1>2. t \in u.tabs
  <2>1. t \in Others(s) /\ Others(s) \subseteq Tabs(s)  BY TabsAre DEF Others
  <2>. HIDE DEF u
  <2>. QED  BY <1>1, <2>1
<1>3. Sound(s) => OnceIn(u.tabs)  BY <1>1, TabsAre
<1>. HIDE DEF u
<1>4. Shown(u, t) \in Layout /\ Tabs(Shown(u, t)) = u.tabs /\ Shown(u, t).spaces = u.spaces /\ Shown(u, t).ws = u.ws
  BY <1>1, <1>2, ShownIs
<1>5. Whole(Shown(u, t)) = Whole(s)  BY <1>1, <1>4, WholeSame
<1>6. Sound(s) => Fresh(Shown(u, t))  BY <1>1, <1>2, <1>3, FreshShown
<1>7. Shown(u, t).spaces = s.spaces /\ Behind(Shown(u, t))  BY <1>1, <1>2, <1>4, ShownIs
<1>. QED  BY <1>4, <1>5, <1>6, <1>7, FollowsSame, KeepsSame DEF u, Rests, Stores

LEMMA LoadFresh ==
  ASSUME NEW s \in Raw, s.ws \in DOMAIN s.spaces, NEW r \in LoadSpace(s), Once(s.spaces)
  PROVE  Fresh(r)
<1> DEFINE ts == s.spaces[s.ws]  u == [s EXCEPT !.tabs = ts]
<1>1. ts \subseteq Tab /\ OnceIn(ts)  BY RawIs, SpacesAre DEF Once
<1>2. CASE ts = {}
  <2>1. r = Emptied(s)  BY <1>2 DEF LoadSpace
  <2>. QED  BY <2>1, EmptiedIs DEF Fresh
<1>3. CASE ts # {}
  <2>1. PICK t \in ts : r = Shown(u, t)  BY <1>3 DEF LoadSpace
  <2>2. u \in Raw /\ u.tabs = ts /\ u.spaces = s.spaces /\ u.ws = s.ws  BY <1>1 DEF Raw
  <2>. HIDE DEF u, ts
  <2>. QED  BY <1>1, <2>1, <2>2, FreshShown
<1>. QED  BY <1>2, <1>3

LEMMA FollowsSwitchSpace ==
  ASSUME NEW s \in Layout, NEW n \in DOMAIN s.spaces, NEW r \in LoadSpace([SaveSpace(s) EXCEPT !.ws = n])
  PROVE  Rests(s, r, {}, {})
<1> DEFINE w == SaveSpace(s)  u == [w EXCEPT !.ws = n]
<1>1. w \in Raw /\ w.spaces = Whole(s) /\ n \in DOMAIN Whole(s) /\ Whole(s) \in Spaces /\ n \in Nums
  BY SaveSpaceIs, SpacesAre DEF Layout, Whole
<1>. HIDE DEF w
<1>2. u \in Raw /\ u.spaces = Whole(s) /\ u.ws = n  BY <1>1 DEF Raw
<1>3. r \in LoadSpace(u)  BY DEF w
<1>. HIDE DEF u
<1>4. r \in Layout /\ Whole(r) = Whole(s) /\ r.spaces = Whole(r) /\ Behind(r)  BY <1>1, <1>2, <1>3, LoadSpaceIs
<1>5. Sound(s) => Fresh(r)  BY <1>1, <1>2, <1>3, LoadFresh DEF Sound
<1>. QED  BY <1>4, <1>5, FollowsSame, KeepsSame DEF Rests, Stores

LEMMA FollowsPrune ==
  ASSUME NEW s \in Layout, NEW kept, NEW r \in Prune(s, kept)
  PROVE  /\ Rests(s, r, {}, {k \in Keyed(Whole(s)) : k[2] \notin kept})
         /\ Sound(s) => Sound(r)
         /\ \A k : k \in Keyed(Whole(r)) <=> k \in Keyed(Whole(s)) /\ k[2] \in kept
<1> DEFINE w == SaveSpace(s)  f == Retained(Whole(s), kept)  u == [w EXCEPT !.spaces = f]
<1>1. w \in Raw /\ w.ws = s.ws /\ s.ws \in DOMAIN Whole(s) /\ Whole(s) \in Spaces
  BY SaveSpaceIs DEF Layout
<1>2. /\ f \in Spaces /\ DOMAIN f = DOMAIN Whole(s) /\ (Once(Whole(s)) => Once(f))
      /\ \A n \in DOMAIN f : PanesOf(f[n]) \subseteq PanesOf(Whole(s)[n])
      /\ \A k : k \in Keyed(f) <=> k \in Keyed(Whole(s)) /\ k[2] \in kept
  BY <1>1, RetainedIs
<1>3. r \in LoadSpace(u)  BY DEF Prune, Whole
<1>4. r \in Layout /\ Whole(r) = f  BY PruneIs
<1>. HIDE DEF f, w
<1>5. u \in Raw /\ u.spaces = f /\ u.ws = s.ws  BY <1>1, <1>2 DEF Raw
<1>. HIDE DEF u
<1>6. Sound(s) => Fresh(r) /\ Once(f)  BY <1>1, <1>2, <1>3, <1>5, LoadFresh DEF Sound
<1>7. Sound(s) => Moves(Whole(s), f, s.ws, {})
  <2>. HIDE DEF PanesOf
  <2>. QED  BY <1>2, <1>6 DEF Moves, Had, Once
<1>8. r.spaces = f /\ Behind(r)  BY <1>1, <1>2, <1>3, <1>5, LoadSpaceIs
<1>10. \A k : k \in Keyed(Whole(r)) <=> k \in Keyed(Whole(s)) /\ k[2] \in kept
  <2>1. \A k : k \in Keyed(f) <=> k \in Keyed(Whole(s)) /\ k[2] \in kept  BY <1>2
  <2>. QED  BY <1>4, <2>1
<1>9. Keeps(s, r, {k \in Keyed(Whole(s)) : k[2] \notin kept})
  <2> DEFINE gone == {k \in Keyed(Whole(s)) : k[2] \notin kept}
  <2>1. Keyed(Whole(s)) \subseteq Keyed(Whole(r)) \union gone  BY <1>10
  <2>2. \A k \in Keyed(Whole(r)) : \A g \in gone : k[2] # g[2]  BY <1>10
  <2>3. Keyed(s.spaces) \intersect Keyed(Whole(r)) \subseteq Keyed(r.spaces)  BY <1>4, <1>8
  <2>. QED  BY <2>1, <2>2, <2>3 DEF Keeps
<1>. QED  BY <1>4, <1>6, <1>7, <1>8, <1>9, <1>10 DEF Follows, Sound, Rests, Stores

(* A pane gets a tab of its own, which is shown.                             *)
LEMMA FollowsNewTab ==
  ASSUME NEW s \in Layout, NEW u \in Layout, NEW new \in Tab, NEW x,
         u.spaces = s.spaces, u.ws = s.ws,
         Sound(s) /\ PanesOf(Tabs(s)) \intersect x = {} =>
           /\ OnceIn(u.tabs) /\ PanesOf(u.tabs) \subseteq PanesOf(Tabs(s)) \union x
           /\ new.panes \subseteq PanesOf(Tabs(s)) \union x /\ new.panes \intersect PanesOf(u.tabs) = {},
         PanesOf(Tabs(s)) \subseteq PanesOf(u.tabs) \union new.panes
  PROVE  Rests(s, Shown([u EXCEPT !.tabs = u.tabs \union {new}], new), x, {})
<1> DEFINE v == [u EXCEPT !.tabs = u.tabs \union {new}]  r == Shown(v, new)
<1>1. u \in Raw /\ u.ws \in DOMAIN u.spaces /\ u.tabs \subseteq Tab  BY RawIs DEF Layout, Framed
<1>2. v \in Raw /\ v.tabs = u.tabs \union {new} /\ v.spaces = s.spaces /\ v.ws = s.ws  BY <1>1 DEF Raw
<1>. HIDE DEF v
<1>3. r \in Layout /\ Tabs(r) = v.tabs /\ r.spaces = s.spaces /\ r.ws = s.ws /\ Behind(r)  BY <1>1, <1>2, ShownIs
<1>4. ASSUME Sound(s), PanesOf(Tabs(s)) \intersect x = {}
      PROVE  OnceIn(v.tabs) /\ PanesOf(v.tabs) \subseteq PanesOf(Tabs(s)) \union x
  <2>1. OnceIn(u.tabs \union {new})  BY <1>4, OnceAdd
  <2>2. PanesOf(u.tabs \union {new}) = PanesOf(u.tabs) \union new.panes  BY PanesAdd
  <2>. QED  BY <1>2, <1>4, <2>1, <2>2
<1>5. Sound(s) /\ PanesOf(Tabs(s)) \intersect x = {} => Fresh(r)  BY <1>1, <1>2, <1>4, FreshShown
<1>. HIDE DEF r
<1>6. Follows(s, r, x)  BY <1>3, <1>4, <1>5, FollowsTabs
<1>7. PanesOf(Tabs(r)) = PanesOf(u.tabs) \union new.panes  BY <1>2, <1>3, PanesAdd
<1>8. Keeps(s, r, {})  BY <1>3, <1>7, KeepsAll
<1>. QED  BY <1>3, <1>6, <1>8 DEF r, v, Rests, Stores

LEMMA FollowsWithTab ==
  ASSUME NEW s \in Layout, next \in Panes
  PROVE  Rests(s, WithTab(s), {next}, {})
<1> DEFINE new == [id |-> next, panes |-> {next}]  u == SaveTab(s)
<1>1. new \in Tab /\ new.panes = {next}  BY DEF Tab
<1>2. u \in Layout /\ u.spaces = s.spaces /\ u.ws = s.ws /\ u.tabs = Tabs(s)  BY SaveTabIs DEF Tabs
<1>3. Sound(s) => OnceIn(Tabs(s))  BY TabsAre
<1>4. WithTab(s) = Shown([u EXCEPT !.tabs = u.tabs \union {new}], new)  BY DEF WithTab
<1>. HIDE DEF new, u
<1>. QED  BY <1>1, <1>2, <1>3, <1>4, FollowsNewTab

(* The panes in view change.                                                 *)
LEMMA RepanedIs ==
  ASSUME NEW s \in Layout, NEW ps \in SUBSET Panes, s.tabs # {}
  PROVE  LET r == [s EXCEPT !.panes = ps]
         IN  /\ r \in Layout /\ r.spaces = s.spaces /\ r.ws = s.ws /\ r.panes = ps
             /\ r.tabs = s.tabs /\ r.cur = s.cur /\ Others(r) = Others(s) /\ s.cur # NoTab
             /\ Tabs(r) = Others(s) \union {[s.cur EXCEPT !.panes = ps]}
             /\ [s.cur EXCEPT !.panes = ps] \in Tab /\ [s.cur EXCEPT !.panes = ps].panes = ps
<1> DEFINE r == [s EXCEPT !.panes = ps]
<1>1. s \in Raw /\ Framed(s) /\ s.cur # NoTab /\ s.cur \in Tab  BY TabsAre DEF Layout
<1>2. r \in Raw /\ r.spaces = s.spaces /\ r.ws = s.ws /\ r.panes = ps /\ r.tabs = s.tabs /\ r.cur = s.cur
  BY <1>1 DEF Raw
<1>. HIDE DEF r
<1>3. r \in Layout  BY <1>1, <1>2 DEF Layout, Framed
<1>4. Tabs(r) = Others(s) \union {[s.cur EXCEPT !.panes = ps]}  BY <1>1, <1>2, <1>3, TabsAre DEF Others
<1>5. [s.cur EXCEPT !.panes = ps] \in Tab /\ [s.cur EXCEPT !.panes = ps].panes = ps  BY <1>1, TabIs
<1>6. Others(r) = Others(s)  BY <1>2 DEF Others
<1>. QED  BY <1>1, <1>2, <1>3, <1>4, <1>5, <1>6 DEF r

LEMMA FollowsRepaned ==
  ASSUME NEW s \in Layout, NEW ps \in SUBSET Panes, s.tabs # {}, NEW x,
         ps \subseteq s.panes \union x
  PROVE  Follows(s, [s EXCEPT !.panes = ps], x) /\ Keeps(s, [s EXCEPT !.panes = ps], {s.ws} \X (s.panes \ ps))
<1> DEFINE r == [s EXCEPT !.panes = ps]  t == [s.cur EXCEPT !.panes = ps]
<1>1. /\ r \in Layout /\ r.spaces = s.spaces /\ r.ws = s.ws /\ r.panes = ps /\ Others(r) = Others(s)
      /\ Tabs(r) = Others(s) \union {t} /\ t.panes = ps
  BY RepanedIs
<1>. HIDE DEF r, t
<1>2. PanesOf(Tabs(s)) = PanesOf(Others(s)) \union s.panes  BY TabsAre
<1>3. ASSUME Sound(s), PanesOf(Tabs(s)) \intersect x = {}
      PROVE  Fresh(r) /\ OnceIn(Tabs(r)) /\ PanesOf(Tabs(r)) \subseteq PanesOf(Tabs(s)) \union x
  <2>1. OnceIn(Others(s)) /\ s.panes \intersect PanesOf(Others(s)) = {}  BY <1>3, TabsAre DEF Fresh
  <2>2. ps \intersect PanesOf(Others(s)) = {}  BY <1>2, <1>3, <2>1
  <2>3. OnceIn(Others(s) \union {t})  BY <1>1, <2>1, <2>2, OnceAdd
  <2>4. PanesOf(Others(s) \union {t}) = PanesOf(Others(s)) \union ps  BY <1>1, PanesAdd
  <2>. QED  BY <1>1, <1>2, <2>2, <2>3, <2>4 DEF Fresh
<1>4. Follows(s, r, x)  BY <1>1, <1>3, FollowsTabs
<1>5. Keeps(s, r, {s.ws} \X (s.panes \ ps))
  <2>1. PanesOf(Tabs(r)) = PanesOf(Others(s)) \union ps  BY <1>1, PanesAdd
  <2>2. PanesOf(Tabs(s)) \subseteq PanesOf(Tabs(r)) \union (s.panes \ ps)  BY <1>2, <2>1
  <2>3. s.panes \ ps \in SUBSET PanesOf(Tabs(s))  BY <1>2
  <2>4. Sound(s) => PanesOf(Tabs(r)) \intersect (s.panes \ ps) = {}  BY <2>1 DEF Sound, Fresh
  <2>. QED  BY <1>1, <2>2, <2>3, <2>4, KeepsTabs
<1>. QED  BY <1>4, <1>5 DEF r

(* One operation after the other, the second adding nothing.                 *)
LEMMA FollowsOn ==
  ASSUME NEW s \in Layout, NEW u \in Layout, NEW r \in Layout, NEW x,
         Follows(s, u, x), Whole(r) = Whole(u), Fresh(u) /\ OnceIn(Tabs(u)) => Fresh(r)
  PROVE  Follows(s, r, x)
<1>1. u.ws \in DOMAIN Whole(u) /\ Whole(u)[u.ws] = Tabs(u)  BY SaveSpaceIs
<1>. QED  BY <1>1 DEF Follows, Moves

LEMMA FollowsRepanedSave ==
  ASSUME NEW s \in Layout, NEW ps \in SUBSET Panes, s.tabs # {}, ps \subseteq s.panes,
         NEW t \in SaveTab([s EXCEPT !.panes = ps]).tabs
  PROVE  Rests(s, Shown(SaveTab([s EXCEPT !.panes = ps]), t), {}, {s.ws} \X (s.panes \ ps))
<1> DEFINE r == [s EXCEPT !.panes = ps]  u == SaveTab(r)
<1>1. r \in Layout /\ r.spaces = s.spaces /\ Follows(s, r, {}) /\ Keeps(s, r, {s.ws} \X (s.panes \ ps))
  BY RepanedIs, FollowsRepaned
<1>. HIDE DEF r
<1>2. u \in Layout /\ u \in Raw /\ u.ws \in DOMAIN u.spaces /\ u.spaces = r.spaces /\ u.ws = r.ws
      /\ u.tabs = Tabs(r)
  BY <1>1, SaveTabIs DEF Layout, Framed, Tabs
<1>3. t \in u.tabs  BY DEF r
<1>. HIDE DEF u
<1>4. Shown(u, t) \in Layout /\ Tabs(Shown(u, t)) = u.tabs /\ Shown(u, t).spaces = u.spaces /\ Shown(u, t).ws = u.ws
  BY <1>2, <1>3, ShownIs
<1>5. Whole(Shown(u, t)) = Whole(r)  BY <1>1, <1>2, <1>4, WholeSame
<1>6. OnceIn(Tabs(r)) => Fresh(Shown(u, t))  BY <1>2, <1>3, FreshShown
<1>7. Follows(s, Shown(u, t), {})  BY <1>1, <1>4, <1>5, <1>6, FollowsOn
<1>8. Shown(u, t).spaces = r.spaces /\ Behind(Shown(u, t))  BY <1>2, <1>3, <1>4, ShownIs
<1>9. Keeps(s, Shown(u, t), {s.ws} \X (s.panes \ ps))  BY <1>1, <1>5, <1>8 DEF Keeps
<1>10. Shown(u, t).spaces = s.spaces  BY <1>1, <1>8
<1>. QED  BY <1>7, <1>8, <1>9, <1>10 DEF u, r, Rests, Stores

LEMMA FollowsCloseTab ==
  ASSUME NEW s \in Layout, NEW t \in s.tabs, NEW r,
         LET v == [s EXCEPT !.tabs = s.tabs \ {t}]
         IN  r \in IF v.tabs = {} THEN {Emptied(v)}
                   ELSE IF t = s.cur THEN {Shown(v, u) : u \in v.tabs} ELSE {v}
  PROVE  Rests(s, r, {}, {s.ws} \X (IF t = s.cur THEN s.panes ELSE t.panes))
<1> DEFINE v == [s EXCEPT !.tabs = s.tabs \ {t}]
<1>1. /\ s \in Raw /\ Framed(s) /\ v \in Raw /\ v.tabs = s.tabs \ {t} /\ v.spaces = s.spaces /\ v.ws = s.ws
      /\ v.cur = s.cur /\ v.panes = s.panes /\ v.ws \in DOMAIN v.spaces
  BY DEF Layout, Raw, Framed
<1>2. r \in IF v.tabs = {} THEN {Emptied(v)} ELSE IF t = s.cur THEN {Shown(v, u) : u \in v.tabs} ELSE {v}
  OBVIOUS
<1>. HIDE DEF v
<1>3. s.cur # NoTab /\ s.cur \in s.tabs  BY TabsAre
<1>7. /\ PanesOf(Tabs(s)) = PanesOf(Others(s)) \union s.panes
      /\ Sound(s) => s.panes \intersect PanesOf(Others(s)) = {} /\ OnceIn(Others(s))
  BY TabsAre DEF Fresh
<1>4. CASE v.tabs = {}
  <2>1. r = Emptied(v)  BY <1>2, <1>4
  <2>2. r \in Layout /\ Tabs(r) = {} /\ r.spaces = s.spaces /\ r.ws = s.ws /\ Fresh(r) /\ Behind(r)
    BY <1>1, <2>1, EmptiedIs DEF Fresh
  <2>3. t = s.cur /\ Others(s) = {}  BY <1>1, <1>3, <1>4 DEF Others
  <2>4. PanesOf(Tabs(s)) = s.panes /\ PanesOf(Tabs(r)) = {}  BY <1>7, <2>2, <2>3 DEF PanesOf
  <2>5. Keeps(s, r, {s.ws} \X s.panes)  BY <2>2, <2>4, KeepsTabs
  <2>6. Follows(s, r, {})  BY <2>2, FollowsTabs DEF OnceIn, PanesOf
  <2>. QED  BY <2>2, <2>3, <2>5, <2>6 DEF Rests, Stores
<1>5. CASE v.tabs # {} /\ t = s.cur
  <2>1. PICK u \in v.tabs : r = Shown(v, u)  BY <1>2, <1>5
  <2>2. r \in Layout /\ Tabs(r) = v.tabs /\ r.spaces = s.spaces /\ r.ws = s.ws /\ Behind(r)  BY <1>1, <2>1, ShownIs
  <2>3. v.tabs = Others(s)  BY <1>1, <1>5 DEF Others
  <2>4. Sound(s) => OnceIn(v.tabs) /\ Fresh(r)  BY <1>1, <2>1, <2>3, TabsAre, FreshShown
  <2>5. PanesOf(v.tabs) \subseteq PanesOf(Tabs(s))  BY <2>3, TabsAre
  <2>6. PanesOf(Tabs(s)) \subseteq PanesOf(Tabs(r)) \union s.panes /\ s.panes \in SUBSET PanesOf(Tabs(s))
        /\ (Sound(s) => PanesOf(Tabs(r)) \intersect s.panes = {})
    BY <1>7, <2>2, <2>3
  <2>7. Keeps(s, r, {s.ws} \X s.panes)  BY <2>2, <2>6, KeepsTabs
  <2>8. Follows(s, r, {})  BY <2>2, <2>4, <2>5, FollowsTabs
  <2>. QED  BY <1>5, <2>2, <2>7, <2>8 DEF Rests, Stores
<1>6. CASE v.tabs # {} /\ t # s.cur
  <2>1. r = v  BY <1>2, <1>6
  <2>2. v \in Layout  BY <1>1, <1>3, <1>6 DEF Layout, Framed
  <2>3. Others(v) \subseteq Others(s)  BY <1>1 DEF Others
  <2>4. Tabs(v) \subseteq Tabs(s)
    <3>1. Tabs(v) = Others(v) \union {[s.cur EXCEPT !.panes = s.panes]}  BY <1>1, <1>3, <2>2, TabsAre
    <3>2. Tabs(s) = Others(s) \union {[s.cur EXCEPT !.panes = s.panes]}  BY <1>3, TabsAre
    <3>. QED  BY <2>3, <3>1, <3>2
  <2>5. Sound(s) => OnceIn(Tabs(v)) /\ Fresh(v)
    <3>1. PanesOf(Others(v)) \subseteq PanesOf(Others(s))  BY <2>3, OnceSub
    <3>2. Sound(s) => Fresh(v)  BY <1>1, <3>1 DEF Fresh, Sound
    <3>. QED  BY <2>4, <3>2, OnceSub, TabsAre
  <2>6. PanesOf(Tabs(v)) \subseteq PanesOf(Tabs(s))  BY <2>4, OnceSub
  <2>7. Follows(s, r, {})  BY <1>1, <2>1, <2>2, <2>5, <2>6, FollowsTabs
  <2>8. Keeps(s, r, {s.ws} \X t.panes)
    <3>1. t \in Others(s) /\ Others(v) = Others(s) \ {t}  BY <1>1, <1>6 DEF Others
    <3>2. PanesOf(Tabs(v)) = PanesOf(Others(v)) \union s.panes  BY <1>1, <2>2, TabsAre
    <3>3. PanesOf(Others(s)) = PanesOf(Others(v)) \union t.panes  BY <3>1 DEF PanesOf
    <3>4. Sound(s) => PanesOf(Others(v)) \intersect t.panes = {}  BY <1>7, <3>1 DEF OnceIn, PanesOf
    <3>5. Sound(s) => PanesOf(Tabs(v)) \intersect t.panes = {}  BY <1>7, <3>2, <3>3, <3>4
    <3>6. PanesOf(Tabs(s)) \subseteq PanesOf(Tabs(v)) \union t.panes /\ t.panes \in SUBSET PanesOf(Tabs(s))
      BY <1>7, <3>2, <3>3
    <3>7. Keeps(s, v, {s.ws} \X t.panes)  BY <1>1, <2>2, <3>5, <3>6, KeepsTabs
    <3>. QED  BY <2>1, <3>7
  <2>9. Behind(s) => Behind(r)  BY <1>1, <2>1 DEF Behind
  <2>. QED  BY <1>1, <1>6, <2>1, <2>7, <2>8, <2>9 DEF Rests, Stores
<1>. QED  BY <1>4, <1>5, <1>6

LEMMA FollowsExtract ==
  ASSUME NEW s \in Layout, NEW p \in s.panes, NEW r,
         LET new == [id |-> p, panes |-> {p}]
             v == IF s.panes = {p} THEN [s EXCEPT !.tabs = s.tabs \ {s.cur}]
                  ELSE SaveTab([s EXCEPT !.panes = s.panes \ {p}])
         IN  r = Shown([v EXCEPT !.tabs = v.tabs \union {new}], new)
  PROVE  Rests(s, r, {}, {})
<1> DEFINE new == [id |-> p, panes |-> {p}]
<1>1. s \in Raw /\ Framed(s) /\ s.panes \subseteq Panes /\ s.cur # NoTab /\ s.tabs # {} /\ s.cur \in s.tabs
  BY RawIs, TabsAre DEF Layout
<1>2. new \in Tab /\ new.panes = {p}  BY <1>1 DEF Tab
<1>3. PanesOf(Tabs(s)) = PanesOf(Others(s)) \union s.panes /\ (Sound(s) => OnceIn(Others(s)) /\ Fresh(s))
  BY TabsAre
<1>4. CASE s.panes = {p}
  <2> DEFINE v == [s EXCEPT !.tabs = s.tabs \ {s.cur}]  w == [v EXCEPT !.tabs = v.tabs \union {new}]
  <2>1. r = Shown(w, new)  BY <1>4
  <2>2. w \in Raw /\ w.tabs = Others(s) \union {new} /\ w.spaces = s.spaces /\ w.ws = s.ws
    BY <1>1, <1>2 DEF Raw, Others
  <2>. HIDE DEF w, new
  <2>3. r \in Layout /\ Tabs(r) = w.tabs /\ r.spaces = s.spaces /\ r.ws = s.ws /\ Behind(r)
    <3>1. w.ws \in DOMAIN w.spaces /\ new \in w.tabs  BY <1>1, <2>2 DEF Framed
    <3>2. /\ Shown(w, new) \in Layout /\ Tabs(Shown(w, new)) = w.tabs
          /\ Shown(w, new).spaces = w.spaces /\ Shown(w, new).ws = w.ws /\ Behind(Shown(w, new))
      BY <2>2, <3>1, ShownIs
    <3>. QED  BY <2>1, <2>2, <3>2
  <2>4. PanesOf(w.tabs) = PanesOf(Others(s)) \union {p}  BY <1>2, <2>2, PanesAdd
  <2>5. ASSUME Sound(s) PROVE OnceIn(w.tabs)
    <3>1. OnceIn(Others(s)) /\ new.panes \intersect PanesOf(Others(s)) = {}  BY <1>2, <1>3, <1>4, <2>5 DEF Fresh
    <3>. QED  BY <2>2, <3>1, OnceAdd
  <2>6. Sound(s) => Fresh(r)
    <3>1. w.ws \in DOMAIN w.spaces /\ new \in w.tabs  BY <1>1, <2>2 DEF Framed
    <3>. QED  BY <2>1, <2>2, <2>5, <3>1, FreshShown
  <2>7. Follows(s, r, {})  BY <1>3, <2>3, <2>4, <2>5, <2>6, FollowsTabs
  <2>8. Keeps(s, r, {})  BY <1>3, <1>4, <2>3, <2>4, KeepsAll
  <2>. QED  BY <2>3, <2>7, <2>8 DEF Rests, Stores
<1>5. CASE s.panes # {p}
  <2> DEFINE ps == s.panes \ {p}  q == [s EXCEPT !.panes = ps]  v == SaveTab(q)  t == [s.cur EXCEPT !.panes = ps]
  <2>1. r = Shown([v EXCEPT !.tabs = v.tabs \union {new}], new)  BY <1>5
  <2>2. /\ q \in Layout /\ q.spaces = s.spaces /\ q.ws = s.ws /\ Tabs(q) = Others(s) \union {t} /\ t.panes = ps
    <3>1. ps \in SUBSET Panes /\ s.tabs # {}  BY <1>1
    <3>. HIDE DEF ps
    <3>. QED  BY <3>1, RepanedIs
  <2>. HIDE DEF q, t
  <2>3. v \in Layout /\ v.tabs = Tabs(q) /\ v.spaces = s.spaces /\ v.ws = s.ws  BY <2>2, SaveTabIs DEF Tabs
  <2>. HIDE DEF v, new
  <2>4. PanesOf(v.tabs) = PanesOf(Others(s)) \union ps  BY <2>2, <2>3, PanesAdd
  <2>5. ASSUME Sound(s) PROVE OnceIn(v.tabs) /\ new.panes \intersect PanesOf(v.tabs) = {}
    <3>1. OnceIn(Others(s)) /\ s.panes \intersect PanesOf(Others(s)) = {}  BY <1>3, <2>5 DEF Fresh
    <3>2. t.panes \intersect PanesOf(Others(s)) = {}  BY <2>2, <3>1
    <3>3. OnceIn(Others(s) \union {t})  BY <3>1, <3>2, OnceAdd
    <3>. QED  BY <1>2, <2>2, <2>3, <2>4, <3>1, <3>3
  <2>6. PanesOf(v.tabs) \subseteq PanesOf(Tabs(s)) /\ new.panes \subseteq PanesOf(Tabs(s))  BY <1>2, <1>3, <2>4
  <2>7. PanesOf(Tabs(s)) \subseteq PanesOf(v.tabs) \union new.panes  BY <1>2, <1>3, <2>4
  <2>. QED  BY <1>2, <2>1, <2>3, <2>5, <2>6, <2>7, FollowsNewTab
<1>. QED  BY <1>4, <1>5

LEMMA FollowsDropSplit ==
  ASSUME NEW s \in Layout, NEW t \in Others(s)
  PROVE  Rests(s, SaveTab([s EXCEPT !.tabs = s.tabs \ {t}, !.panes = s.panes \union t.panes]), {}, {})
<1> DEFINE v == [s EXCEPT !.tabs = s.tabs \ {t}]  ps == s.panes \union t.panes  q == [v EXCEPT !.panes = ps]
           c == [s.cur EXCEPT !.panes = ps]  r == SaveTab(q)
<1>1. /\ s \in Raw /\ Framed(s) /\ s.panes \subseteq Panes /\ s.cur # NoTab /\ s.cur \in s.tabs
      /\ t \in s.tabs /\ t # s.cur /\ t \in Tab /\ t.panes \subseteq Panes
  BY RawIs, TabsAre, TabIs DEF Layout, Others
<1>2. v \in Raw /\ v.tabs = s.tabs \ {t} /\ v.spaces = s.spaces /\ v.ws = s.ws /\ v.cur = s.cur /\ v.panes = s.panes
  BY <1>1 DEF Raw
<1>. HIDE DEF v
<1>3. v \in Layout /\ v.tabs # {} /\ Others(v) = Others(s) \ {t}  BY <1>1, <1>2 DEF Layout, Framed, Others
<1>4. q \in Layout /\ q.spaces = s.spaces /\ q.ws = s.ws /\ q.panes = ps /\ Others(q) = Others(s) \ {t}
      /\ Tabs(q) = (Others(s) \ {t}) \union {c} /\ c.panes = ps
  <2>1. ps \in SUBSET Panes  BY <1>1
  <2>. HIDE DEF ps
  <2>2. /\ q \in Layout /\ q.spaces = v.spaces /\ q.ws = v.ws /\ q.panes = ps /\ Others(q) = Others(v)
        /\ Tabs(q) = Others(v) \union {[v.cur EXCEPT !.panes = ps]}
        /\ [v.cur EXCEPT !.panes = ps].panes = ps
    BY <1>3, <2>1, RepanedIs
  <2>3. [v.cur EXCEPT !.panes = ps] = c  BY <1>2
  <2>. QED  BY <1>2, <1>3, <2>2, <2>3
<1>. HIDE DEF q, c
<1>5. r \in Layout /\ r.spaces = s.spaces /\ r.ws = s.ws /\ Tabs(r) = Tabs(q) /\ Behind(r)  BY <1>4, SaveTabIs, SavedIs
<1>6. PanesOf(Tabs(q)) = PanesOf(Others(s) \ {t}) \union ps  BY <1>4, PanesAdd
<1>7. PanesOf(Tabs(s)) = PanesOf(Others(s)) \union s.panes /\ (Sound(s) => OnceIn(Others(s)) /\ Fresh(s))
  BY TabsAre
<1>8. t.panes \subseteq PanesOf(Others(s)) /\ PanesOf(Others(s) \ {t}) \subseteq PanesOf(Others(s))
  BY DEF PanesOf
<1>9. ASSUME Sound(s) PROVE OnceIn(Tabs(q)) /\ Fresh(r)
  <2>1. t.panes \intersect PanesOf(Others(s) \ {t}) = {}  BY <1>7, <1>9 DEF OnceIn, PanesOf
  <2>2. ps \intersect PanesOf(Others(s) \ {t}) = {}  BY <1>7, <1>8, <1>9, <2>1 DEF Fresh
  <2>3. OnceIn(Others(s) \ {t})  BY <1>7, <1>9, OnceSub
  <2>4. OnceIn((Others(s) \ {t}) \union {c})  BY <1>4, <2>2, <2>3, OnceAdd
  <2>5. Fresh(q)  BY <1>4, <2>2 DEF Fresh
  <2>. QED  BY <1>4, <2>4, <2>5, FreshSave
<1>10. Follows(s, r, {})  BY <1>5, <1>6, <1>7, <1>8, <1>9, FollowsTabs
<1>11. q = [s EXCEPT !.tabs = s.tabs \ {t}, !.panes = s.panes \union t.panes]  BY DEF q, v
<1>12. PanesOf(Others(s)) = PanesOf(Others(s) \ {t}) \union t.panes  BY DEF PanesOf
<1>13. PanesOf(Tabs(s)) \subseteq PanesOf(Tabs(r))  BY <1>5, <1>6, <1>7, <1>12
<1>14. Keeps(s, r, {})  BY <1>5, <1>13, KeepsAll
<1>. QED  BY <1>5, <1>10, <1>11, <1>14 DEF Rests, Stores

LEMMA FollowsSwap ==
  ASSUME NEW s \in Layout, NEW t \in Others(s), NEW p \in s.panes,
         NEW u, u = [t EXCEPT !.panes = {p}],
         NEW c, c = [s.cur EXCEPT !.panes = (s.panes \ {p}) \union t.panes]
  PROVE  Rests(s, Shown([s EXCEPT !.tabs = (s.tabs \ {t, s.cur}) \union {u, c}], c), {}, {})
<1> DEFINE rest == s.tabs \ {t, s.cur}  v == [s EXCEPT !.tabs = rest \union {u, c}]
           r == Shown(v, c)
<1>1. /\ s \in Raw /\ Framed(s) /\ s.panes \subseteq Panes /\ s.cur \in Tab /\ t \in Tab /\ t.panes \subseteq Panes
      /\ s.tabs \subseteq Tab /\ rest = Others(s) \ {t}
  BY RawIs, TabsAre, TabIs DEF Layout, Others
<1>2. u \in Tab /\ u.panes = {p} /\ c \in Tab /\ c.panes = (s.panes \ {p}) \union t.panes
  BY <1>1, TabIs
<1>3. v \in Raw /\ v.tabs = rest \union {u, c} /\ v.spaces = s.spaces /\ v.ws = s.ws /\ v.ws \in DOMAIN v.spaces
  BY <1>1, <1>2 DEF Raw, Framed
<1>. HIDE DEF v, rest
<1>4. c \in v.tabs  BY <1>3
<1>5. r \in Layout /\ Tabs(r) = v.tabs /\ r.spaces = s.spaces /\ r.ws = s.ws /\ Behind(r)
  <2>1. /\ Shown(v, c) \in Layout /\ Tabs(Shown(v, c)) = v.tabs
        /\ Shown(v, c).spaces = v.spaces /\ Shown(v, c).ws = v.ws /\ Behind(Shown(v, c))
    BY <1>3, <1>4, ShownIs
  <2>. QED  BY <1>3, <2>1
<1>6. PanesOf(Tabs(s)) = PanesOf(Others(s)) \union s.panes /\ (Sound(s) => OnceIn(Others(s)) /\ Fresh(s))
  BY TabsAre
<1>7. t.panes \subseteq PanesOf(Others(s)) /\ PanesOf(rest) \subseteq PanesOf(Others(s))
  BY <1>1 DEF PanesOf
<1>8. PanesOf(rest \union {u}) = PanesOf(rest) \union {p}  BY <1>2, PanesAdd
<1>9. PanesOf((rest \union {u}) \union {c}) = PanesOf(rest) \union {p} \union c.panes
  <2>1. PanesOf((rest \union {u}) \union {c}) = PanesOf(rest \union {u}) \union c.panes  BY PanesAdd
  <2>. QED  BY <1>8, <2>1
<1>10. v.tabs = (rest \union {u}) \union {c}  BY <1>3
<1>11. PanesOf(v.tabs) \subseteq PanesOf(Tabs(s))  BY <1>2, <1>6, <1>7, <1>9, <1>10
<1>12. ASSUME Sound(s) PROVE OnceIn(v.tabs)
  <2>1. OnceIn(rest)  BY <1>1, <1>6, <1>12, OnceSub
  <2>2. t.panes \intersect PanesOf(rest) = {}  BY <1>1, <1>6, <1>12 DEF OnceIn, PanesOf
  <2>3. s.panes \intersect PanesOf(Others(s)) = {}  BY <1>6, <1>12 DEF Fresh
  <2>4. u.panes \intersect PanesOf(rest) = {}  BY <1>2, <1>7, <2>3
  <2>5. OnceIn(rest \union {u})  BY <2>1, <2>4, OnceAdd
  <2>6. c.panes \intersect PanesOf(rest \union {u}) = {}  BY <1>2, <1>7, <1>8, <2>2, <2>3
  <2>7. OnceIn((rest \union {u}) \union {c})  BY <2>5, <2>6, OnceAdd
  <2>. QED  BY <1>10, <2>7
<1>13. Sound(s) => Fresh(r)  BY <1>3, <1>4, <1>12, FreshShown
<1>. HIDE DEF r
<1>14. Follows(s, r, {})  BY <1>5, <1>11, <1>12, <1>13, FollowsTabs
<1>15. PanesOf(Others(s)) = PanesOf(rest) \union t.panes  BY <1>1 DEF PanesOf
<1>16. PanesOf(Tabs(s)) \subseteq PanesOf(Tabs(r))  BY <1>2, <1>5, <1>6, <1>9, <1>10, <1>15
<1>17. Keeps(s, r, {})  BY <1>5, <1>16, KeepsAll
<1>. QED  BY <1>5, <1>14, <1>17 DEF r, v, rest, Rests, Stores

(* Whole workspaces come and go.                                             *)
LEMMA FollowsSpaces ==
  ASSUME NEW s \in Layout, NEW r \in Layout, Sound(s) => Fresh(r),
         \A n \in DOMAIN Whole(r) : Whole(r)[n] = {} \/ (n \in DOMAIN Whole(s) /\ Whole(r)[n] = Whole(s)[n])
  PROVE  Follows(s, r, {})
<1>1. ASSUME Sound(s), NEW n \in DOMAIN Whole(r)
      PROVE  OnceIn(Whole(r)[n]) /\ PanesOf(Whole(r)[n]) \subseteq Had(Whole(s), n)
  <2>1. CASE Whole(r)[n] = {}  BY <2>1 DEF OnceIn, PanesOf
  <2>2. CASE n \in DOMAIN Whole(s) /\ Whole(r)[n] = Whole(s)[n]
    <3>1. OnceIn(Whole(s)[n])  BY <1>1, <2>2 DEF Sound, Once
    <3>. QED  BY <2>2, <3>1 DEF Had
  <2>. QED  BY <2>1, <2>2
<1>. QED  BY <1>1 DEF Follows, Moves

LEMMA KeyedSub ==
  ASSUME NEW f, NEW g, \A n \in DOMAIN f : PanesOf(f[n]) \subseteq Had(g, n)
  PROVE  Keyed(f) \subseteq Keyed(g)
<1>1. ASSUME NEW k \in Keyed(f) PROVE k \in Keyed(g)
  <2>1. k = <<k[1], k[2]>> /\ k[1] \in DOMAIN f /\ k[2] \in PanesOf(f[k[1]])  BY KeyedBy
  <2>2. k[1] \in DOMAIN g /\ k[2] \in PanesOf(g[k[1]])  BY <2>1 DEF Had
  <2>. QED  BY <2>1, <2>2, KeyedBy
<1>. QED  BY <1>1

LEMMA KeepsOthers ==
  ASSUME NEW s \in Layout, NEW r \in Layout, NEW n \in DOMAIN Whole(s),
         \A m \in DOMAIN Whole(r) :
           PanesOf(Whole(r)[m]) = {} \/ (m \in DOMAIN Whole(s) /\ m # n /\ Whole(r)[m] = Whole(s)[m]),
         \A m \in DOMAIN Whole(s) \ {n} : m \in DOMAIN Whole(r) /\ Whole(r)[m] = Whole(s)[m],
         \/ r.spaces = Whole(r)
         \/ \A m \in DOMAIN s.spaces \ {n} : m \in DOMAIN r.spaces /\ r.spaces[m] = s.spaces[m]
  PROVE  Keeps(s, r, {n} \X PanesOf(Whole(s)[n]))
<1> DEFINE f == Whole(s)  g == Whole(r)
<1>1. ASSUME NEW k \in Keyed(f) PROVE k \in Keyed(g) \union ({n} \X PanesOf(f[n]))
  <2>1. k = <<k[1], k[2]>> /\ k[1] \in DOMAIN f /\ k[2] \in PanesOf(f[k[1]])  BY KeyedBy
  <2>2. CASE k[1] = n  BY <2>1, <2>2
  <2>3. CASE k[1] # n
    <3>1. k[1] \in DOMAIN g /\ g[k[1]] = f[k[1]]  BY <2>1, <2>3
    <3>2. k \in Keyed(g)  BY <2>1, <3>1, KeyedBy
    <3>. QED  BY <3>2
  <2>. QED  BY <2>2, <2>3
<1>2. ASSUME NEW k \in Keyed(g)
      PROVE  k = <<k[1], k[2]>> /\ k[1] \in DOMAIN g /\ k[1] \in DOMAIN f /\ k[1] # n /\ k[2] \in PanesOf(f[k[1]])
  <2>1. k = <<k[1], k[2]>> /\ k[1] \in DOMAIN g /\ k[2] \in PanesOf(g[k[1]])  BY KeyedBy
  <2>. QED  BY <2>1
<1>3. ASSUME Sound(s), NEW k \in Keyed(g), NEW p \in PanesOf(f[n]) PROVE k[2] # p
  <2>1. PanesOf(f[k[1]]) \intersect PanesOf(f[n]) = {}  BY <1>2, <1>3 DEF Sound, Once, Apart
  <2>. QED  BY <1>2, <1>3, <2>1
<1>4. ASSUME NEW k \in Keyed(g), k \in Keyed(s.spaces) PROVE k \in Keyed(r.spaces)
  <2>1. CASE r.spaces = g  BY <1>4, <2>1
  <2>2. CASE \A m \in DOMAIN s.spaces \ {n} : m \in DOMAIN r.spaces /\ r.spaces[m] = s.spaces[m]
    <3>1. k = <<k[1], k[2]>> /\ k[1] \in DOMAIN s.spaces /\ k[2] \in PanesOf(s.spaces[k[1]])  BY <1>4, KeyedBy
    <3>2. k[1] # n  BY <1>2
    <3>3. k[1] \in DOMAIN r.spaces /\ r.spaces[k[1]] = s.spaces[k[1]]  BY <2>2, <3>1, <3>2
    <3>. QED  BY <3>1, <3>3, KeyedBy
  <2>. QED  BY <2>1, <2>2
<1>5. \A k \in {n} \X PanesOf(f[n]) : k[2] \in PanesOf(f[n])  OBVIOUS
<1>. HIDE DEF f, g
<1>6. Keyed(f) \subseteq Keyed(g) \union ({n} \X PanesOf(f[n]))  BY <1>1
<1>7. Sound(s) => \A k \in Keyed(g) : \A q \in {n} \X PanesOf(f[n]) : k[2] # q[2]  BY <1>3, <1>5
<1>8. Keyed(s.spaces) \intersect Keyed(g) \subseteq Keyed(r.spaces)  BY <1>4
<1>. QED  BY <1>6, <1>7, <1>8 DEF Keeps, f, g

LEMMA FollowsAddSpace ==
  ASSUME NEW s \in Layout, NEW num \in Nums \ DOMAIN s.spaces
  PROVE  Rests(s, Emptied([With(SaveSpace(s), num, {}) EXCEPT !.ws = num]), {}, {})
<1> DEFINE none == {}  w == SaveSpace(s)  a == With(w, num, none)  b == [a EXCEPT !.ws = num]  r == Emptied(b)
<1>1. w \in Raw /\ w.spaces = Whole(s) /\ num \notin DOMAIN Whole(s)  BY SaveSpaceIs DEF Layout, Whole
<1>. HIDE DEF w
<1>2. a \in Raw /\ a.spaces = [m \in DOMAIN Whole(s) \union {num} |-> IF m = num THEN {} ELSE Whole(s)[m]]
  <2>1. w \in Raw /\ num \in Nums /\ none \in SUBSET Tab  BY <1>1
  <2>. HIDE DEF none
  <2>2. a \in Raw /\ a.spaces = [m \in DOMAIN w.spaces \union {num} |-> IF m = num THEN none ELSE w.spaces[m]]
    BY <2>1, WithIs
  <2>. QED  BY <1>1, <2>2 DEF none
<1>. HIDE DEF a
<1>3. b \in Raw /\ b.spaces = a.spaces /\ b.ws = num /\ b.ws \in DOMAIN b.spaces  BY <1>2 DEF Raw
<1>. HIDE DEF b
<1>4. r \in Layout /\ Tabs(r) = {} /\ r.spaces = a.spaces /\ r.ws = num /\ Fresh(r) /\ Behind(r)
  BY <1>3, EmptiedIs DEF Fresh
<1>. HIDE DEF r
<1>5. DOMAIN Whole(r) = DOMAIN a.spaces /\ \A n \in DOMAIN a.spaces : Whole(r)[n] = IF n = num THEN {} ELSE a.spaces[n]
  <2>1. Whole(r) = [m \in DOMAIN r.spaces |-> IF m = r.ws THEN Tabs(r) ELSE r.spaces[m]]  BY <1>4, SaveSpaceIs
  <2>. QED  BY <1>4, <2>1
<1>6. Follows(s, r, {})  BY <1>2, <1>4, <1>5, FollowsSpaces
<1>7. \A n \in DOMAIN Whole(s) : n \in DOMAIN Whole(r) /\ Whole(r)[n] = Whole(s)[n]  BY <1>1, <1>2, <1>5
<1>8. Keyed(Whole(s)) \subseteq Keyed(Whole(r))  BY <1>7, KeyedBy
<1>9. \A n \in DOMAIN Whole(r) : n \in DOMAIN r.spaces /\ Whole(r)[n] = r.spaces[n]  BY <1>2, <1>4, <1>5
<1>10. Keyed(Whole(r)) \subseteq Keyed(r.spaces)  BY <1>9, KeyedBy
<1>11. Keeps(s, r, {})  BY <1>8, <1>10 DEF Keeps
<1>12. Keyed(r.spaces) \subseteq Keyed(Whole(s))
  <2>1. PanesOf({}) = {}  BY DEF PanesOf
  <2>2. \A n \in DOMAIN r.spaces : PanesOf(r.spaces[n]) \subseteq Had(Whole(s), n)  BY <1>2, <1>4, <2>1 DEF Had
  <2>. QED  BY <2>2, KeyedSub
<1>. QED  BY <1>4, <1>6, <1>11, <1>12 DEF r, b, a, w, Rests, Stores

LEMMA FollowsRemoveSpace ==
  ASSUME NEW s \in Layout, NEW n, NEW ws, NEW r,
         LET t == SaveSpace(s)
             left == [m \in DOMAIN t.spaces \ {n} |-> t.spaces[m]]
         IN  ws \in DOMAIN left /\ r \in LoadSpace([t EXCEPT !.spaces = left, !.ws = ws]),
         n \in DOMAIN Whole(s)
  PROVE  Rests(s, r, {}, {n} \X PanesOf(Whole(s)[n]))
<1> DEFINE t == SaveSpace(s)  left == [m \in DOMAIN t.spaces \ {n} |-> t.spaces[m]]
           u == [t EXCEPT !.spaces = left, !.ws = ws]
<1>1. t \in Raw /\ t.spaces = Whole(s) /\ Whole(s) \in Spaces  BY SaveSpaceIs DEF Layout, Whole
<1>2. ws \in DOMAIN left /\ r \in LoadSpace(u)  OBVIOUS
<1>. HIDE DEF t
<1>3. left \in [DOMAIN Whole(s) \ {n} -> SUBSET Tab] /\ DOMAIN Whole(s) \ {n} \subseteq Nums
  BY <1>1, SpacesAre
<1>4. left \in Spaces /\ DOMAIN left = DOMAIN Whole(s) \ {n} /\ \A m \in DOMAIN left : left[m] = Whole(s)[m]
  BY <1>1, <1>3, SpacesMade
<1>. HIDE DEF left
<1>5. ws \in Nums  BY <1>2, <1>3, <1>4
<1>6. u \in Raw /\ u.spaces = left /\ u.ws = ws  BY <1>1, <1>4, <1>5 DEF Raw
<1>. HIDE DEF u
<1>7. r \in Layout /\ Whole(r) = left /\ r.spaces = Whole(r) /\ Behind(r)  BY <1>2, <1>6, LoadSpaceIs
<1>8. ASSUME Sound(s) PROVE Fresh(r)
  <2>1. Once(left)  BY <1>4, <1>8 DEF Sound, Once, Apart
  <2>. QED  BY <1>2, <1>6, <2>1, LoadFresh
<1>9. Follows(s, r, {})  BY <1>4, <1>7, <1>8, FollowsSpaces
<1>10. \A m \in DOMAIN Whole(r) : m \in DOMAIN Whole(s) /\ m # n /\ Whole(r)[m] = Whole(s)[m]  BY <1>4, <1>7
<1>11. \A m \in DOMAIN Whole(s) \ {n} : m \in DOMAIN Whole(r) /\ Whole(r)[m] = Whole(s)[m]  BY <1>4, <1>7
<1>12. Keeps(s, r, {n} \X PanesOf(Whole(s)[n]))  BY <1>7, <1>10, <1>11, KeepsOthers
<1>13. \A m \in DOMAIN Whole(r) : PanesOf(Whole(r)[m]) \subseteq Had(Whole(s), m)  BY <1>10 DEF Had
<1>14. Keyed(r.spaces) \subseteq Keyed(Whole(s))  BY <1>7, <1>13, KeyedSub
<1>. QED  BY <1>7, <1>9, <1>12, <1>14 DEF Rests, Stores

LEMMA FollowsKillWorkspace ==
  ASSUME NEW s \in Layout, NEW n \in DOMAIN s.spaces, NEW q, q = IF n = s.ws THEN Emptied(s) ELSE s
  PROVE  Rests(s, With(q, n, {}), {}, {n} \X PanesOf(Whole(s)[n]))
<1> DEFINE none == {}  r == With(q, n, none)
<1>1. s \in Raw /\ s.ws \in DOMAIN s.spaces /\ n \in Nums  BY RawIs, SpacesAre DEF Layout, Framed
<1>2. q \in Layout /\ q \in Raw /\ q.spaces = s.spaces /\ q.ws = s.ws
  BY <1>1, EmptiedIs DEF Layout
<1>3. /\ r \in Raw /\ r.ws = q.ws /\ r.tabs = q.tabs /\ r.cur = q.cur /\ r.panes = q.panes
      /\ r.spaces = [m \in DOMAIN s.spaces \union {n} |-> IF m = n THEN {} ELSE s.spaces[m]]
  <2>1. /\ r \in Raw /\ r.ws = q.ws /\ r.tabs = q.tabs /\ r.cur = q.cur /\ r.panes = q.panes
        /\ r.spaces = [m \in DOMAIN q.spaces \union {n} |-> IF m = n THEN none ELSE q.spaces[m]]
    <3>1. q \in Raw /\ n \in Nums /\ none \in SUBSET Tab  BY <1>1, <1>2
    <3>. HIDE DEF none
    <3>. QED  BY <3>1, WithIs
  <2>. QED  BY <1>2, <2>1
<1>. HIDE DEF r
<1>4. r \in Layout  BY <1>1, <1>2, <1>3 DEF Layout, Framed
<1>5. Tabs(r) = Tabs(q)
  <2>1. r.cur = NoTab <=> q.cur = NoTab  BY <1>3
  <2>2. Others(r) = Others(q)  BY <1>3 DEF Others
  <2>3. CASE q.cur = NoTab
    <3>1. Tabs(q) = {}  BY <1>2, <2>3, TabsAre
    <3>2. Tabs(r) = {}  BY <1>4, <2>1, <2>3, TabsAre
    <3>. QED  BY <3>1, <3>2
  <2>4. CASE q.cur # NoTab
    <3>1. Tabs(q) = Others(q) \union {[q.cur EXCEPT !.panes = q.panes]}  BY <1>2, <2>4, TabsAre
    <3>2. Tabs(r) = Others(r) \union {[r.cur EXCEPT !.panes = r.panes]}  BY <1>4, <2>1, <2>4, TabsAre
    <3>3. r.cur = q.cur /\ r.panes = q.panes  BY <1>3
    <3>. QED  BY <2>2, <3>1, <3>2, <3>3
  <2>. QED  BY <2>3, <2>4
<1>6. Fresh(q) => Fresh(r)  BY <1>3 DEF Fresh, Others
<1>7. Fresh(s) => Fresh(q)  BY <1>1, EmptiedIs DEF Fresh
<1>8. n = s.ws => Tabs(q) = {}  BY <1>1, EmptiedIs
<1>9. /\ DOMAIN Whole(r) = DOMAIN s.spaces
      /\ \A m \in DOMAIN s.spaces : Whole(r)[m] = IF m = s.ws THEN Tabs(q) ELSE IF m = n THEN {} ELSE s.spaces[m]
  <2>1. Whole(r) = [m \in DOMAIN r.spaces |-> IF m = r.ws THEN Tabs(r) ELSE r.spaces[m]]  BY <1>4, SaveSpaceIs
  <2>2. DOMAIN r.spaces = DOMAIN s.spaces /\ r.ws = s.ws
        /\ \A m \in DOMAIN s.spaces : r.spaces[m] = IF m = n THEN {} ELSE s.spaces[m]
    BY <1>1, <1>2, <1>3
  <2>. QED  BY <1>5, <2>1, <2>2
<1>10. DOMAIN Whole(s) = DOMAIN s.spaces /\ \A m \in DOMAIN s.spaces : Whole(s)[m] = IF m = s.ws THEN Tabs(s) ELSE s.spaces[m]
  BY SaveSpaceIs
<1>11. \A m \in DOMAIN Whole(r) : Whole(r)[m] = {} \/ (m \in DOMAIN Whole(s) /\ Whole(r)[m] = Whole(s)[m])
  BY <1>8, <1>9, <1>10
<1>12. Follows(s, r, {})  BY <1>4, <1>6, <1>7, <1>11, FollowsSpaces DEF Sound
<1>13. q.tabs = Tabs(q) \/ n # s.ws  BY <1>1, EmptiedIs
<1>14. n # s.ws => Tabs(q) = Tabs(s)  OBVIOUS
<1>15. Whole(r)[n] = {}  BY <1>8, <1>9, <1>13
<1>16. \A m \in DOMAIN Whole(s) \ {n} : m \in DOMAIN Whole(r) /\ Whole(r)[m] = Whole(s)[m]  BY <1>9, <1>10, <1>14
<1>17. \A m \in DOMAIN Whole(r) :
         PanesOf(Whole(r)[m]) = {} \/ (m \in DOMAIN Whole(s) /\ m # n /\ Whole(r)[m] = Whole(s)[m])
  <2>1. PanesOf({}) = {}  BY DEF PanesOf
  <2>2. ASSUME NEW m \in DOMAIN Whole(r), m # n PROVE m \in DOMAIN Whole(s) /\ Whole(r)[m] = Whole(s)[m]
    <3>1. m \in DOMAIN Whole(s) \ {n}  BY <1>9, <1>10, <2>2
    <3>. QED  BY <1>16, <3>1
  <2>3. PanesOf(Whole(r)[n]) = {}  BY <1>15, <2>1
  <2>. QED  BY <2>2, <2>3
<1>18. \A m \in DOMAIN s.spaces \ {n} : m \in DOMAIN r.spaces /\ r.spaces[m] = s.spaces[m]  BY <1>3
<1>19. Keeps(s, r, {n} \X PanesOf(Whole(s)[n]))  BY <1>4, <1>10, <1>16, <1>17, <1>18, KeepsOthers
<1>20. Behind(q) => Behind(r)  BY <1>3 DEF Behind
<1>21. Behind(s) => Behind(q)  BY <1>1, EmptiedIs
<1>22. Keyed(r.spaces) \subseteq Keyed(s.spaces)
  <2>1. PanesOf({}) = {}  BY DEF PanesOf
  <2>2. \A m \in DOMAIN r.spaces : PanesOf(r.spaces[m]) \subseteq Had(s.spaces, m)  BY <1>1, <1>3, <2>1 DEF Had
  <2>. QED  BY <2>2, KeyedSub
<1>. QED  BY <1>12, <1>19, <1>20, <1>21, <1>22 DEF r, Rests, Stores

LEMMA FollowsAllEmptied ==
  ASSUME lay \in Layout
  PROVE  /\ Whole(AllEmptied) = [n \in DOMAIN lay.spaces |-> {}]
         /\ Keyed(Whole(AllEmptied)) = {}
         /\ \A gone : Keyed(Whole(lay)) \subseteq gone => Rests(lay, AllEmptied, {}, gone)
<1> DEFINE f == [n \in DOMAIN lay.spaces |-> {}]  u == [lay EXCEPT !.spaces = f]  r == Emptied(u)
<1>1. lay \in Raw /\ lay.ws \in DOMAIN lay.spaces /\ lay.spaces \in Spaces /\ DOMAIN lay.spaces \subseteq Nums
  BY RawIs, SpacesAre DEF Layout, Framed
<1>2. f \in Spaces /\ DOMAIN f = DOMAIN lay.spaces
  <2>1. f \in [DOMAIN lay.spaces -> SUBSET Tab]  OBVIOUS
  <2>. QED  BY <1>1, <2>1, SpacesMade
<1>3. \A n \in DOMAIN f : f[n] = {}  OBVIOUS
<1>. HIDE DEF f
<1>4. u \in Raw /\ u.spaces = f /\ u.ws = lay.ws /\ u.ws \in DOMAIN u.spaces  BY <1>1, <1>2 DEF Raw
<1>. HIDE DEF u
<1>5. r \in Layout /\ Tabs(r) = {} /\ r.spaces = f /\ r.ws = lay.ws /\ Fresh(r) /\ Behind(r)  BY <1>4, EmptiedIs DEF Fresh
<1>6. AllEmptied = r  BY DEF AllEmptied, r, u, f
<1>. HIDE DEF r
<1>7. Whole(r) = [m \in DOMAIN r.spaces |-> IF m = r.ws THEN Tabs(r) ELSE r.spaces[m]]  BY <1>5, SaveSpaceIs
<1>8. DOMAIN Whole(r) = DOMAIN f /\ \A n \in DOMAIN f : Whole(r)[n] = {}  BY <1>3, <1>5, <1>7
<1>9. Follows(lay, r, {})  BY <1>1, <1>5, <1>8, FollowsSpaces
<1>10. Whole(r) = [n \in DOMAIN lay.spaces |-> {}]  BY <1>2, <1>3, <1>5, <1>7
<1>11. Keyed(Whole(r)) = {}
  <2>1. ASSUME NEW k \in Keyed(Whole(r)) PROVE FALSE
    <3>1. k[1] \in DOMAIN Whole(r) /\ k[2] \in PanesOf(Whole(r)[k[1]])  BY KeyedBy
    <3>. QED  BY <1>8, <3>1 DEF PanesOf
  <2>. QED  BY <2>1
<1>12. Keyed(r.spaces) \subseteq Keyed(lay.spaces)
  <2>1. PanesOf({}) = {}  BY DEF PanesOf
  <2>2. \A m \in DOMAIN r.spaces : PanesOf(r.spaces[m]) \subseteq Had(lay.spaces, m)  BY <1>2, <1>3, <1>5, <2>1 DEF Had
  <2>. QED  BY <2>2, KeyedSub
<1>13. ASSUME NEW gone, Keyed(Whole(lay)) \subseteq gone PROVE Keeps(lay, r, gone)
  BY <1>11, <1>13 DEF Keeps
<1>14. \A gone : Keyed(Whole(lay)) \subseteq gone => Rests(lay, r, {}, gone)
  BY <1>5, <1>9, <1>12, <1>13 DEF Rests, Stores
<1>. QED  BY <1>6, <1>10, <1>11, <1>14

LEMMA WithoutIs ==
  ASSUME NEW ts \in SUBSET Tab, NEW p
  PROVE  /\ Without(p, ts) \subseteq Tab
         /\ OnceIn(ts) => OnceIn(Without(p, ts))
         /\ PanesOf(Without(p, ts)) = PanesOf(ts) \ {p}
<1>1. ASSUME NEW u \in Without(p, ts)
      PROVE  \E t \in ts : u = [t EXCEPT !.panes = t.panes \ {p}] /\ u \in Tab /\ u.panes = t.panes \ {p}
  <2>1. PICK t \in ts : u = [t EXCEPT !.panes = t.panes \ {p}]  BY DEF Without
  <2>2. t.panes \ {p} \in SUBSET Panes /\ t \in Tab  BY TabIs
  <2>. QED  BY <2>1, <2>2, TabIs
<1>2. ASSUME OnceIn(ts), NEW u \in Without(p, ts), NEW v \in Without(p, ts)
      PROVE  u = v \/ u.panes \intersect v.panes = {}
  <2>1. PICK a \in ts : u = [a EXCEPT !.panes = a.panes \ {p}] /\ u.panes = a.panes \ {p}  BY <1>1
  <2>2. PICK b \in ts : v = [b EXCEPT !.panes = b.panes \ {p}] /\ v.panes = b.panes \ {p}  BY <1>1
  <2>3. a = b \/ a.panes \intersect b.panes = {}  BY <1>2 DEF OnceIn
  <2>. QED  BY <2>1, <2>2, <2>3
<1>4. ASSUME NEW q \in PanesOf(ts), q # p PROVE q \in PanesOf(Without(p, ts))
  <2>1. PICK t \in ts : q \in t.panes  BY DEF PanesOf
  <2> DEFINE u == [t EXCEPT !.panes = t.panes \ {p}]
  <2>2. u \in Without(p, ts)  BY DEF Without
  <2>3. t \in Tab /\ t.panes \ {p} \in SUBSET Panes  BY TabIs
  <2>4. u.panes = t.panes \ {p}  BY <2>3, TabIs
  <2>. HIDE DEF u
  <2>. QED  BY <1>4, <2>1, <2>2, <2>4 DEF PanesOf
<1>3. ASSUME NEW q \in PanesOf(Without(p, ts)) PROVE q \in PanesOf(ts) /\ q # p
  <2>1. PICK u \in Without(p, ts) : q \in u.panes  BY DEF PanesOf
  <2>2. PICK t \in ts : u.panes = t.panes \ {p}  BY <1>1
  <2>. QED  BY <2>1, <2>2 DEF PanesOf
<1>. QED  BY <1>1, <1>2, <1>3, <1>4 DEF OnceIn

(* From s to r only the pane p is lost.                                      *)
Loses(s, r, p) ==
  /\ Sound(s) /\ Behind(s) => \A k \in Keyed(Whole(s)) : k[2] # p => k \in Keyed(Whole(r))
  /\ \A k \in Keyed(s.spaces) : k[2] # p => k \in Keyed(r.spaces)
  /\ Stores(s, r) /\ (Behind(s) => Behind(r))

(* The kill of a tracked session in the panel takes its pane off the view.    *)
LEMMA FollowsKilled ==
  ASSUME NEW s \in Layout, NEW p, NEW cur, cur = [s.cur EXCEPT !.panes = s.cur.panes \ {p}],
         NEW r, r = [s EXCEPT !.panes = s.panes \ {p}, !.cur = cur,
                              !.tabs = IF s.cur = NoTab THEN s.tabs ELSE (s.tabs \ {s.cur}) \union {cur},
                              !.spaces = [n \in DOMAIN s.spaces |-> Without(p, s.spaces[n])]]
  PROVE  Follows(s, r, {}) /\ Loses(s, r, p)
<1> DEFINE f == [n \in DOMAIN s.spaces |-> Without(p, s.spaces[n])]  ps == s.panes \ {p}
           ts == IF s.cur = NoTab THEN s.tabs ELSE (s.tabs \ {s.cur}) \union {cur}
<1>1. /\ s \in Raw /\ Framed(s) /\ s.panes \subseteq Panes /\ s.tabs \subseteq Tab
      /\ s.spaces \in Spaces /\ DOMAIN s.spaces \subseteq Nums /\ \A n \in DOMAIN s.spaces : s.spaces[n] \subseteq Tab
  BY RawIs, SpacesAre DEF Layout
<1>2. s.cur = NoTab => cur = NoTab /\ s.tabs = {} /\ s.panes = {}
  <2>1. [NoTab EXCEPT !.panes = {}] = NoTab /\ NoTab.panes \ {p} = {}  BY DEF NoTab
  <2>. QED  BY <2>1, TabsAre
<1>3. s.cur # NoTab => cur \in Tab /\ s.cur \in s.tabs /\ cur # NoTab
  <2>1. ASSUME s.cur # NoTab PROVE cur \in Tab /\ s.cur \in s.tabs
    <3>1. s.cur \in Tab /\ s.cur \in s.tabs /\ s.cur.panes \ {p} \in SUBSET Panes  BY <2>1, TabsAre, TabIs
    <3>. QED  BY <3>1, TabIs
  <2>. QED  BY <2>1, TabIs
<1>4. f \in Spaces /\ DOMAIN f = DOMAIN s.spaces /\ \A n \in DOMAIN f : f[n] = Without(p, s.spaces[n])
  <2>1. \A n \in DOMAIN s.spaces : Without(p, s.spaces[n]) \in SUBSET Tab  BY <1>1, WithoutIs
  <2>2. f \in [DOMAIN s.spaces -> SUBSET Tab]  BY <2>1
  <2>. QED  BY <1>1, <2>2, SpacesMade
<1>5. ts \subseteq Tab /\ ps \subseteq Panes /\ cur \in Tab \union {NoTab}  BY <1>1, <1>2, <1>3
<1>6. r = [s EXCEPT !.panes = ps, !.cur = cur, !.tabs = ts, !.spaces = f]  OBVIOUS
<1>7. ts = IF s.cur = NoTab THEN {} ELSE Others(s) \union {cur}  BY <1>2 DEF Others
<1>. HIDE DEF f, ts
<1>8. r \in Raw /\ r.panes = ps /\ r.cur = cur /\ r.tabs = ts /\ r.spaces = f /\ r.ws = s.ws
  <2>. HIDE DEF ps
  <2>1. r = [spaces |-> f, ws |-> s.ws, tabs |-> ts, cur |-> cur, panes |-> ps]  BY <1>1, <1>6 DEF Raw
  <2>2. s.ws \in Nums /\ ts \in SUBSET Tab /\ ps \in SUBSET Panes  BY <1>1, <1>5, RawIs
  <2> DEFINE q == [spaces |-> f, ws |-> s.ws, tabs |-> ts, cur |-> cur, panes |-> ps]
  <2>3. q \in Raw /\ q.panes = ps /\ q.cur = cur /\ q.tabs = ts /\ q.spaces = f /\ q.ws = s.ws
    <3>1. f \in Spaces /\ s.ws \in Nums /\ ts \in SUBSET Tab /\ cur \in Tab \union {NoTab} /\ ps \in SUBSET Panes
      BY <1>4, <1>5, <2>2
    <3>. QED  BY <3>1, RawMade
  <2>. HIDE DEF q
  <2>4. r = q  BY <2>1 DEF q
  <2>. QED  BY <2>3, <2>4
<1>9. r \in Layout  BY <1>1, <1>2, <1>3, <1>4, <1>7, <1>8 DEF Layout, Framed
<1>10. Others(r) \subseteq Others(s) /\ PanesOf(Others(r)) \subseteq PanesOf(Others(s))
  <2>1. Others(r) \subseteq Others(s)  BY <1>7, <1>8 DEF Others
  <2>. QED  BY <2>1, OnceSub
<1>11. Sound(s) => Fresh(r)  BY <1>8, <1>10 DEF Sound, Fresh
<1>12. PanesOf(Tabs(r)) \subseteq PanesOf(Tabs(s))
  <2>1. PanesOf(Tabs(r)) = PanesOf(Others(r)) \union r.panes  BY <1>9, TabsAre
  <2>2. PanesOf(Tabs(s)) = PanesOf(Others(s)) \union s.panes  BY TabsAre
  <2>. QED  BY <1>8, <1>10, <2>1, <2>2
<1>13. ASSUME Sound(s) PROVE OnceIn(Tabs(r))
  <2>1. OnceIn(Others(r))  BY <1>10, <1>13, TabsAre, OnceSub
  <2>2. CASE r.cur = NoTab
    <3>1. Tabs(r) = {}  BY <1>9, <2>2, TabsAre
    <3>. QED  BY <3>1 DEF OnceIn
  <2>3. CASE r.cur # NoTab
    <3> DEFINE t == [r.cur EXCEPT !.panes = r.panes]
    <3>1. Tabs(r) = Others(r) \union {t} /\ t.panes = r.panes  BY <1>9, <2>3, TabsAre
    <3>. HIDE DEF t
    <3>2. t.panes \intersect PanesOf(Others(r)) = {}  BY <1>11, <1>13, <3>1 DEF Fresh
    <3>3. OnceIn(Others(r) \union {t})  BY <2>1, <3>2, OnceAdd
    <3>. QED  BY <3>1, <3>3
  <2>. QED  BY <2>2, <2>3
<1>14. Whole(r) = [m \in DOMAIN r.spaces |-> IF m = r.ws THEN Tabs(r) ELSE r.spaces[m]]  BY <1>9, SaveSpaceIs
<1>15. DOMAIN Whole(s) = DOMAIN s.spaces /\ \A m \in DOMAIN s.spaces : Whole(s)[m] = IF m = s.ws THEN Tabs(s) ELSE s.spaces[m]
  BY SaveSpaceIs
<1>16. ASSUME Sound(s), NEW n \in DOMAIN Whole(r)
       PROVE  OnceIn(Whole(r)[n]) /\ PanesOf(Whole(r)[n]) \subseteq Had(Whole(s), n)
  <2>1. n \in DOMAIN s.spaces /\ n \in DOMAIN Whole(s)  BY <1>4, <1>8, <1>14, <1>15
  <2>2. CASE n = s.ws
    <3>1. Whole(r)[n] = Tabs(r) /\ Whole(s)[n] = Tabs(s)  BY <1>4, <1>8, <1>14, <1>15, <2>1, <2>2
    <3>. QED  BY <1>12, <1>13, <1>16, <2>1, <3>1 DEF Had
  <2>3. CASE n # s.ws
    <3>1. Whole(r)[n] = Without(p, s.spaces[n]) /\ Whole(s)[n] = s.spaces[n]
      BY <1>4, <1>8, <1>14, <1>15, <2>1, <2>3
    <3>2. OnceIn(s.spaces[n])  BY <1>16, <2>1, <3>1 DEF Sound, Once
    <3>3. OnceIn(Without(p, s.spaces[n])) /\ PanesOf(Without(p, s.spaces[n])) \subseteq PanesOf(s.spaces[n])
      BY <1>1, <2>1, <3>2, WithoutIs
    <3>. QED  BY <2>1, <3>1, <3>3 DEF Had
  <2>. QED  BY <2>2, <2>3
<1>17. ASSUME NEW k \in Keyed(s.spaces), k[2] # p PROVE k \in Keyed(r.spaces)
  <2>1. k = <<k[1], k[2]>> /\ k[1] \in DOMAIN s.spaces /\ k[2] \in PanesOf(s.spaces[k[1]])  BY KeyedBy
  <2>2. k[1] \in DOMAIN r.spaces /\ r.spaces[k[1]] = Without(p, s.spaces[k[1]])  BY <1>4, <1>8, <2>1
  <2>3. k[2] \in PanesOf(r.spaces[k[1]])  BY <1>1, <1>17, <2>1, <2>2, WithoutIs
  <2>. QED  BY <2>1, <2>2, <2>3, KeyedBy
<1>18. ASSUME Sound(s), Behind(s) PROVE PanesOf(Tabs(s)) \ {p} \subseteq PanesOf(Tabs(r))
  <2>1. PanesOf(Tabs(r)) = PanesOf(Others(r)) \union r.panes  BY <1>9, TabsAre
  <2>2. PanesOf(Tabs(s)) = PanesOf(Others(s)) \union s.panes  BY TabsAre
  <2>3. CASE s.cur = NoTab
    <3>1. Tabs(s) = {}  BY <2>3, TabsAre
    <3>. QED  BY <3>1 DEF PanesOf
  <2>4. CASE s.cur # NoTab
    <3>1. r.tabs = Others(s) \union {cur} /\ r.cur = cur  BY <1>7, <1>8, <2>4
    <3>2. Others(r) = Others(s) \ {cur}  BY <3>1 DEF Others
    <3>3. cur \in Others(s) => cur.panes = {}
      <4>1. s.cur \in Tab /\ s.cur.panes \subseteq Panes  BY <2>4, TabsAre, TabIs
      <4>2. cur.panes = s.cur.panes \ {p}  BY <4>1, TabIs
      <4>3. cur \in Others(s) => cur.panes \subseteq PanesOf(Others(s))  BY DEF PanesOf
      <4>. QED  BY <1>18, <4>2, <4>3 DEF Behind, Sound, Fresh
    <3>4. PanesOf(Others(r)) = PanesOf(Others(s))
      <4>1. PanesOf(Others(r)) \subseteq PanesOf(Others(s))  BY <1>10
      <4>2. ASSUME NEW q \in PanesOf(Others(s)) PROVE q \in PanesOf(Others(r))
        <5>1. PICK u \in Others(s) : q \in u.panes  BY DEF PanesOf
        <5>2. u # cur  BY <3>3, <5>1
        <5>. QED  BY <3>2, <5>1, <5>2 DEF PanesOf
      <4>. QED  BY <4>1, <4>2
    <3>. QED  BY <1>8, <2>1, <2>2, <3>4
  <2>. QED  BY <2>3, <2>4
<1>19. ASSUME Sound(s), Behind(s), NEW k \in Keyed(Whole(s)), k[2] # p PROVE k \in Keyed(Whole(r))
  <2>1. k = <<k[1], k[2]>> /\ k[1] \in DOMAIN s.spaces /\ k[2] \in PanesOf(Whole(s)[k[1]])  BY <1>15, KeyedBy
  <2>2. k[1] \in DOMAIN Whole(r)  BY <1>4, <1>8, <1>14, <2>1
  <2>3. CASE k[1] = s.ws
    <3>1. Whole(r)[k[1]] = Tabs(r)
      <4>0. DOMAIN r.spaces = DOMAIN s.spaces /\ r.ws = s.ws /\ r.spaces = f  BY <1>4, <1>8
      <4>2. \A m \in DOMAIN r.spaces : Whole(r)[m] = IF m = r.ws THEN Tabs(r) ELSE r.spaces[m]  BY <1>14
      <4>1. \A m \in DOMAIN s.spaces : Whole(r)[m] = IF m = s.ws THEN Tabs(r) ELSE f[m]  BY <4>0, <4>2
      <4>. QED  BY <2>1, <2>3, <4>1
    <3>3. Whole(s)[k[1]] = Tabs(s)
      <4>1. \A m \in DOMAIN s.spaces : m = s.ws => Whole(s)[m] = Tabs(s)  BY <1>15
      <4>. QED  BY <2>1, <2>3, <4>1
    <3>2. k[2] \in PanesOf(Whole(r)[k[1]])  BY <1>18, <1>19, <2>1, <3>1, <3>3
    <3>. QED  BY <2>1, <2>2, <3>2, KeyedBy
  <2>4. CASE k[1] # s.ws
    <3>1. Whole(r)[k[1]] = Without(p, s.spaces[k[1]]) /\ Whole(s)[k[1]] = s.spaces[k[1]]
      <4>0. k[1] \in DOMAIN r.spaces /\ r.ws = s.ws /\ r.spaces[k[1]] = Without(p, s.spaces[k[1]])
        BY <1>4, <1>8, <2>1
      <4>1. \A m \in DOMAIN r.spaces : m # r.ws => Whole(r)[m] = r.spaces[m]  BY <1>14
      <4>2. \A m \in DOMAIN s.spaces : m # s.ws => Whole(s)[m] = s.spaces[m]  BY <1>15
      <4>3. Whole(r)[k[1]] = r.spaces[k[1]]  BY <2>4, <4>0, <4>1
      <4>4. Whole(s)[k[1]] = s.spaces[k[1]]  BY <2>1, <2>4, <4>2
      <4>. QED  BY <4>0, <4>3, <4>4
    <3>2. k[2] \in PanesOf(Whole(r)[k[1]])  BY <1>1, <1>19, <2>1, <3>1, WithoutIs
    <3>. QED  BY <2>1, <2>2, <3>2, KeyedBy
  <2>. QED  BY <2>3, <2>4
<1>20. Behind(s) => Behind(r)
  <2>1. CASE s.cur = NoTab  BY <1>2, <1>8, <2>1 DEF Behind, NoTab
  <2>2. CASE s.cur # NoTab
    <3>1. s.cur \in Tab /\ s.cur.panes \subseteq Panes  BY <2>2, TabsAre, TabIs
    <3>2. cur.panes = s.cur.panes \ {p}  BY <3>1, TabIs
    <3>. QED  BY <1>8, <3>2 DEF Behind
  <2>. QED  BY <2>1, <2>2
<1>21. Follows(s, r, {})  BY <1>9, <1>11, <1>16 DEF Follows, Moves
<1>22. Stores(s, r)
  <2>1. \A n \in DOMAIN r.spaces : PanesOf(r.spaces[n]) \subseteq Had(s.spaces, n)
    BY <1>1, <1>4, <1>8, WithoutIs DEF Had
  <2>. QED  BY <2>1, KeyedSub DEF Stores
<1>. QED  BY <1>17, <1>19, <1>20, <1>21, <1>22 DEF Loses

-----------------------------------------------------------------------------
(* The invariant.                                                            *)
Types ==
  /\ lay \in Layout /\ FileOK(file)
  /\ next \in 1 .. MaxPane + 1
  /\ terminals \subseteq Panes /\ editors \subseteq Panes
  /\ mapped \subseteq Keys /\ shells \subseteq Keys
  /\ sweep \in Sweep /\ synced \in BOOLEAN /\ run \in 0 .. Runs /\ up \in BOOLEAN
  /\ odd \subseteq Odd
  /\ up \/ (mapped = {} /\ editors = {})
  /\ sweep.at = "done" => sweep.left = {}

Numbered(s, n) == \A k \in Keyed(Whole(s)) : k[2] < n

(* What the shim tracks, the sweep has collected and the workspaces store may *)
(* be of panes that are gone, but never of a pane that is somewhere else.    *)
AtHome(keys, s, n) == \A k \in keys : k[2] < n /\ \A j \in Keyed(Whole(s)) : k[2] = j[2] => k = j
Tracked == mapped \union sweep.left \union Keyed(lay.spaces)

InOrder ==
  "mixed" \notin odd =>
    /\ Sound(lay) /\ Behind(lay) /\ Numbered(lay, next) /\ AtHome(Tracked, lay, next)
    /\ Once(file.spaces)

(* Shells and panes.  While the window runs every shell and mapping is of a   *)
(* pane of the layout, and what is not in the file is known to be unsaved.   *)
Fine == odd \intersect {"lost", "leaked", "raced", "mixed"} = {}

Tied ==
  /\ shells \union mapped \subseteq Placed(lay)
  /\ \A k \in mapped : k[2] \in terminals
  /\ \A k \in shells \union mapped : k[2] \notin editors
  /\ \A e \in editors : e < next

Safe ==
  "unsaved" \notin odd => \A b \in Begun : \A k \in Placed(lay) : k[2] \in editors \/ k \in Placed(b)

Reach == Fine => IF up THEN Tied /\ Safe ELSE \A b \in Begun : shells \subseteq Placed(b)

(* A pane without terminal or document is still to be swept.                 *)
Due == IF sweep.at = "wait" THEN Keyed(lay.spaces) ELSE sweep.left

Covered ==
  up /\ odd \intersect {"failed", "skipped", "ghost", "mixed"} = {} =>
    \A k \in Placed(lay) : k[2] \in terminals \union editors \/ k \in Due

Inv == Types /\ InOrder /\ Reach /\ Covered

-----------------------------------------------------------------------------
(* Keys.                                                                     *)
LEMMA PlacedIs ==
  ASSUME NEW s
  PROVE  Placed(s) = Keyed(Whole(s))
BY DEF Placed, Whole

LEMMA OnceKeys ==
  ASSUME NEW f, Once(f), NEW k \in Keyed(f), NEW j \in Keyed(f), k[2] = j[2]
  PROVE  k = j
<1>1. k = <<k[1], k[2]>> /\ k[1] \in DOMAIN f /\ k[2] \in PanesOf(f[k[1]])  BY KeyedBy
<1>2. j = <<j[1], j[2]>> /\ j[1] \in DOMAIN f /\ j[2] \in PanesOf(f[j[1]])  BY KeyedBy
<1>3. k[1] = j[1]  BY <1>1, <1>2 DEF Once, Apart
<1>. QED  BY <1>1, <1>2, <1>3

(* The panes in view are in the layout.                                      *)
LEMMA InView ==
  ASSUME NEW s \in Layout
  PROVE  {s.ws} \X s.panes \subseteq Keyed(Whole(s))
<1>1. s.ws \in DOMAIN Whole(s) /\ Whole(s)[s.ws] = Tabs(s)  BY SaveSpaceIs
<1>2. s.panes \subseteq PanesOf(Tabs(s))  BY TabsAre
<1>3. ASSUME NEW k \in {s.ws} \X s.panes PROVE k \in Keyed(Whole(s))
  <2>1. k = <<k[1], k[2]>> /\ k[1] = s.ws /\ k[2] \in s.panes  OBVIOUS
  <2>. QED  BY <1>1, <1>2, <2>1, KeyedBy
<1>. QED  BY <1>3

LEMMA KeepsWhen ==
  ASSUME NEW s, NEW r, NEW gone, NEW keys, Keeps(s, r, gone), Sound(s) => gone = keys
  PROVE  Keeps(s, r, keys)
BY DEF Keeps

-----------------------------------------------------------------------------
(* Starts.                                                                   *)
LEMMA TopIs ==
  ASSUME NEW f \in Spaces
  PROVE  Top(f) \in 0 .. MaxPane /\ \A k \in Keyed(f) : k[2] <= Top(f)
<1> DEFINE S == {0} \union {k[2] : k \in Keyed(f)}
<1>1. MaxPane \in Nat  BY LayoutAssumption
<1>2. \A k \in Keyed(f) : k[2] \in Panes  BY KeysOf DEF Keys
<1>3. S \in SUBSET (0 .. MaxPane) /\ S # {}  BY <1>1, <1>2 DEF Panes
<1>4. \A k \in Keyed(f) : k[2] \in S  OBVIOUS
<1>5. Top(f) = Max(S)  BY DEF Top
<1>. HIDE DEF S
<1>6. Max(S) \in S /\ \A y \in S : Max(S) >= y  BY <1>1, <1>3, MaxBounds
<1>. QED  BY <1>1, <1>2, <1>3, <1>4, <1>5, <1>6 DEF Panes

LEMMA SeedIs ==
  /\ Seed \in Layout /\ Sound(Seed) /\ Numbered(Seed, 2)
  /\ Seed.ws = 1 /\ Seed.panes = {1} /\ Behind(Seed) /\ Keyed(Seed.spaces) = {}
  /\ \A k \in Placed(Seed) : k[2] = 1
<1> DEFINE t == [id |-> 1, panes |-> {1}]  f == [n \in 1 .. SeedSpaces |-> {}]
<1>1. 1 \in Panes /\ 1 .. SeedSpaces \subseteq Nums /\ 1 \in 1 .. SeedSpaces /\ 1 \in Nums
  BY LayoutAssumption DEF Panes, Nums
<1>2. t \in Tab /\ t.panes = {1} /\ [t EXCEPT !.panes = {1}] = t  BY <1>1 DEF Tab
<1>3. f \in [1 .. SeedSpaces -> SUBSET Tab]  OBVIOUS
<1>4. f \in Spaces /\ DOMAIN f = 1 .. SeedSpaces /\ \A n \in DOMAIN f : f[n] = {}  BY <1>1, <1>3, SpacesMade
<1>5. Seed = [spaces |-> f, ws |-> 1, tabs |-> {t}, cur |-> t, panes |-> {1}]  BY DEF Seed
<1>. HIDE DEF f, t
<1>6. /\ Seed \in Raw /\ Seed.spaces = f /\ Seed.ws = 1 /\ Seed.tabs = {t} /\ Seed.cur = t /\ Seed.panes = {1}
  BY <1>1, <1>2, <1>4, <1>5 DEF Raw
<1>7. Seed \in Layout  BY <1>1, <1>4, <1>6 DEF Layout, Framed
<1>8. Others(Seed) = {} /\ t # NoTab  BY <1>2, <1>6, TabIs DEF Others
<1>9. Tabs(Seed) = {t}  BY <1>2, <1>6, <1>7, <1>8, TabsAre
<1>10. Fresh(Seed)  BY <1>8 DEF Fresh, PanesOf
<1>11. Whole(Seed) = [m \in DOMAIN Seed.spaces |-> IF m = Seed.ws THEN Tabs(Seed) ELSE Seed.spaces[m]]
  BY <1>7, SaveSpaceIs
<1> DEFINE g == Whole(Seed)
<1>12. DOMAIN g = 1 .. SeedSpaces /\ \A n \in DOMAIN g : g[n] = IF n = 1 THEN {t} ELSE {}
  BY <1>4, <1>6, <1>9, <1>11
<1>13. g \in Spaces  BY <1>7, SaveSpaceIs
<1>. HIDE DEF g
<1>14. \A n \in DOMAIN g : PanesOf(g[n]) \subseteq {1} /\ (n # 1 => PanesOf(g[n]) = {}) /\ OnceIn(g[n])
  BY <1>2, <1>12 DEF PanesOf, OnceIn
<1>15. Once(g)  BY <1>14 DEF Once, Apart
<1>16. ASSUME NEW k \in Keyed(g) PROVE k[2] = 1
  <2>1. k[1] \in DOMAIN g /\ k[2] \in PanesOf(g[k[1]])  BY <1>13, KeysOf
  <2>. QED  BY <1>14, <2>1
<1>17. Behind(Seed)  BY <1>2, <1>6 DEF Behind
<1>18. Keyed(Seed.spaces) = {}
  <2>1. \A n \in DOMAIN f : PanesOf(f[n]) = {}  BY <1>4 DEF PanesOf
  <2>. QED  BY <1>6, <2>1, KeyedBy
<1>19. Placed(Seed) = Keyed(g)  BY DEF Placed, Whole, g
<1>20. Numbered(Seed, 2)
  <2>1. \A k \in Keyed(g) : k[2] < 2  BY <1>16
  <2>. QED  BY <2>1 DEF Numbered, g
<1>. QED  BY <1>6, <1>7, <1>10, <1>15, <1>16, <1>17, <1>18, <1>19, <1>20 DEF Sound, g

LEMMA DefaultTabIs ==
  ASSUME NEW s \in Raw, s.ws \in DOMAIN s.spaces, s.spaces[s.ws] = {}, NEW p \in Panes,
         \A n \in DOMAIN s.spaces : p \notin PanesOf(s.spaces[n])
  PROVE  /\ WithDefaultTab(s, p) \in Layout /\ Behind(WithDefaultTab(s, p))
         /\ Once(s.spaces) => Sound(WithDefaultTab(s, p))
<1> DEFINE t == [id |-> p, panes |-> {p}]  w == With(s, s.ws, {t})  u == [w EXCEPT !.tabs = {t}]  r == Shown(u, t)
<1>1. t \in Tab /\ t.panes = {p}  BY DEF Tab
<1>2. r = WithDefaultTab(s, p)  BY DEF WithDefaultTab
<1>. HIDE DEF t
<1>3. s.ws \in Nums  BY RawIs
<1>4. w \in Raw /\ w.ws = s.ws /\ w.spaces = [m \in DOMAIN s.spaces \union {s.ws} |-> IF m = s.ws THEN {t} ELSE s.spaces[m]]
  BY <1>1, <1>3, WithIs
<1>. HIDE DEF w
<1>5. DOMAIN s.spaces \union {s.ws} = DOMAIN s.spaces  OBVIOUS
<1>6. u \in Raw /\ u.tabs = {t} /\ u.ws = s.ws /\ u.spaces = [m \in DOMAIN s.spaces |-> IF m = s.ws THEN {t} ELSE s.spaces[m]]
  BY <1>1, <1>4, <1>5 DEF Raw
<1>. HIDE DEF u
<1>7. u.ws \in DOMAIN u.spaces /\ t \in u.tabs /\ OnceIn(u.tabs)  BY <1>6 DEF OnceIn
<1>8. r \in Layout /\ Tabs(r) = u.tabs /\ r.spaces = u.spaces /\ r.ws = u.ws /\ Behind(r)  BY <1>6, <1>7, ShownIs
<1>9. Fresh(r)  BY <1>6, <1>7, FreshShown
<1>. HIDE DEF r
<1>10. Whole(r) = [m \in DOMAIN r.spaces |-> IF m = r.ws THEN Tabs(r) ELSE r.spaces[m]]  BY <1>8, SaveSpaceIs
<1>11. /\ DOMAIN Whole(r) = DOMAIN s.spaces
       /\ \A n \in DOMAIN s.spaces : Whole(r)[n] = IF n = s.ws THEN {t} ELSE s.spaces[n]
  BY <1>6, <1>8, <1>10
<1>12. PanesOf({t}) = {p} /\ OnceIn({t})  BY <1>1 DEF PanesOf, OnceIn
<1>13. ASSUME Once(s.spaces) PROVE Once(Whole(r))
  <2>1. \A n \in DOMAIN Whole(r) : OnceIn(Whole(r)[n])  BY <1>11, <1>12, <1>13 DEF Once
  <2>2. ASSUME NEW n \in DOMAIN Whole(r), NEW m \in DOMAIN Whole(r), n # m
        PROVE  PanesOf(Whole(r)[n]) \intersect PanesOf(Whole(r)[m]) = {}
    <3>1. CASE n = s.ws  BY <1>11, <1>12, <2>2, <3>1
    <3>2. CASE m = s.ws  BY <1>11, <1>12, <2>2, <3>2
    <3>3. CASE n # s.ws /\ m # s.ws  BY <1>11, <1>13, <2>2, <3>3 DEF Once, Apart
    <3>. QED  BY <3>1, <3>2, <3>3
  <2>. QED  BY <2>1, <2>2 DEF Once, Apart
<1>. QED  BY <1>2, <1>8, <1>9, <1>13 DEF Sound

LEMMA BegunIs ==
  ASSUME FileOK(file), NEW s \in Begun, NEW p \in s.panes, p <= MaxPane
  PROVE  s \in Layout /\ Behind(s) /\ (Once(file.spaces) => Sound(s))
<1>1. CASE DOMAIN file.spaces = {}
  BY <1>1, SeedIs DEF Begun
<1>2. CASE DOMAIN file.spaces # {}
  <2> DEFINE f == Retained(file.spaces, Panes)
             u == [spaces |-> f, ws |-> file.ws, tabs |-> {}, cur |-> NoTab, panes |-> {}]
  <2>1. file.spaces \in Spaces /\ file.ws \in Nums /\ file.ws \in DOMAIN file.spaces  BY <1>2 DEF FileOK
  <2>2. f \in Spaces /\ DOMAIN f = DOMAIN file.spaces /\ (Once(file.spaces) => Once(f))  BY <2>1, RetainedIs
  <2>3. s \in IF u.spaces[u.ws] = {} THEN {WithDefaultTab(u, Top(u.spaces) + 1)} ELSE LoadSpace(u)
    BY <1>2 DEF Begun, Restored
  <2>. HIDE DEF f
  <2>4. u \in Raw /\ u.spaces = f /\ u.ws = file.ws  BY <2>1, <2>2 DEF Raw
  <2>. HIDE DEF u
  <2>5. CASE f[file.ws] = {}
    <3> DEFINE q == Top(f) + 1
    <3>1. s = WithDefaultTab(u, q)  BY <2>3, <2>4, <2>5
    <3>2. s.panes = {q}
      <4> DEFINE t == [id |-> q, panes |-> {q}]
      <4>1. s = Shown([With(u, u.ws, {t}) EXCEPT !.tabs = {t}], t)  BY <3>1 DEF WithDefaultTab
      <4>2. t.panes = {q}  OBVIOUS
      <4>3. With(u, u.ws, {t}) =
              [u EXCEPT !.spaces = [m \in DOMAIN u.spaces \union {u.ws} |-> IF m = u.ws THEN {t} ELSE u.spaces[m]]]
        BY DEF With
      <4>. HIDE DEF t
      <4>. QED  BY <2>4, <4>1, <4>2, <4>3 DEF Shown, Raw
    <3>3. Top(f) \in 0 .. MaxPane /\ \A k \in Keyed(f) : k[2] <= Top(f)  BY <2>2, TopIs
    <3>4. q \in Panes  BY <3>2, <3>3, LayoutAssumption DEF Panes
    <3>5. ASSUME NEW n \in DOMAIN f PROVE q \notin PanesOf(f[n])
      <4>1. ASSUME q \in PanesOf(f[n]) PROVE FALSE
        <5>1. <<n, q>> \in Keyed(f)  BY <2>2, <4>1, KeysOf
        <5>2. <<n, q>>[2] <= Top(f)  BY <3>3, <5>1
        <5>. QED  BY <3>3, <5>2
      <4>. QED  BY <4>1
    <3>. HIDE DEF q
    <3>6. u.ws \in DOMAIN u.spaces /\ u.spaces[u.ws] = {} /\ \A n \in DOMAIN u.spaces : q \notin PanesOf(u.spaces[n])
      BY <2>1, <2>2, <2>4, <2>5, <3>5
    <3>. QED  BY <2>2, <2>4, <3>1, <3>4, <3>6, DefaultTabIs
  <2>6. CASE f[file.ws] # {}
    <3>1. s \in LoadSpace(u) /\ u.ws \in DOMAIN u.spaces  BY <2>1, <2>2, <2>3, <2>4, <2>6
    <3>2. s \in Layout /\ Whole(s) = f /\ Behind(s)  BY <2>4, <3>1, LoadSpaceIs
    <3>3. Once(f) => Fresh(s)  BY <2>4, <3>1, LoadFresh
    <3>. QED  BY <2>2, <3>2, <3>3 DEF Sound
  <2>. QED  BY <2>5, <2>6
<1>. QED  BY <1>1, <1>2

(* What the next start makes of a file.                                      *)
BegunFrom(f) ==
  LET u == [spaces |-> Retained(f.spaces, Panes), ws |-> f.ws, tabs |-> {}, cur |-> NoTab, panes |-> {}]
  IN  IF DOMAIN f.spaces = {} THEN {Seed}
      ELSE IF u.spaces[u.ws] = {} THEN {WithDefaultTab(u, Top(u.spaces) + 1)} ELSE LoadSpace(u)

LEMMA BegunIsFrom == Begun = BegunFrom(file)
BY DEF Begun, BegunFrom, Restored

LEMMA BegunNext == Begun' = BegunFrom(file')
BY DEF Begun, BegunFrom, Restored

LEMMA DefaultPlaces ==
  ASSUME NEW s \in Raw, s.ws \in DOMAIN s.spaces, s.spaces[s.ws] = {}, NEW p \in Nat \ {0}
  PROVE  LET r == WithDefaultTab(s, p)
         IN  Keyed(Whole(r)) = Keyed(r.spaces) /\ Keyed(s.spaces) \subseteq Keyed(Whole(r))
<1> DEFINE t == [id |-> p, panes |-> {p}]  r == WithDefaultTab(s, p)
           g == [m \in DOMAIN s.spaces \union {s.ws} |-> IF m = s.ws THEN {t} ELSE s.spaces[m]]
<1>1. t.panes = {p} /\ t # NoTab /\ [t EXCEPT !.panes = {p}] = t  BY DEF NoTab
<1>2. r = Shown([With(s, s.ws, {t}) EXCEPT !.tabs = {t}], t)  BY DEF WithDefaultTab
<1>3. With(s, s.ws, {t}) = [s EXCEPT !.spaces = g]  BY DEF With
<1>4. DOMAIN s.spaces \union {s.ws} = DOMAIN s.spaces  OBVIOUS
<1>5. g = [m \in DOMAIN s.spaces |-> IF m = s.ws THEN {t} ELSE s.spaces[m]]  BY <1>4
<1>. HIDE DEF t, g
<1>6. r = [spaces |-> g, ws |-> s.ws, tabs |-> {t}, cur |-> t, panes |-> {p}]
  BY <1>1, <1>2, <1>3 DEF Shown, Raw
<1>. HIDE DEF r
<1>7. SaveTab(r) = r
  <2>1. [r.cur EXCEPT !.panes = r.panes] = t  BY <1>1, <1>6
  <2>2. SaveTab(r) = [r EXCEPT !.tabs = (r.tabs \ {r.cur}) \union {t}, !.cur = t]  BY <1>1, <1>6, <2>1 DEF SaveTab
  <2>3. (r.tabs \ {r.cur}) \union {t} = {t}  BY <1>6
  <2>. QED  BY <1>6, <2>2, <2>3
<1>8. Whole(r) = [m \in DOMAIN g \union {s.ws} |-> IF m = s.ws THEN {t} ELSE g[m]]
  BY <1>6, <1>7 DEF Whole, SaveSpace, With
<1>9. DOMAIN g \union {s.ws} = DOMAIN g /\ DOMAIN g = DOMAIN s.spaces  BY <1>5
<1>10. Whole(r) = g  BY <1>5, <1>8, <1>9
<1>11. Keyed(s.spaces) \subseteq Keyed(g)
  <2>1. PanesOf({}) = {}  BY DEF PanesOf
  <2>2. \A n \in DOMAIN s.spaces : PanesOf(s.spaces[n]) \subseteq Had(g, n)  BY <1>5, <2>1 DEF Had
  <2>. QED  BY <2>2, KeyedSub
<1>. QED  BY <1>6, <1>10, <1>11 DEF r

LEMMA BegunPlaces ==
  ASSUME NEW f, FileOK(f), NEW b \in BegunFrom(f)
  PROVE  /\ Keyed(f.spaces) \subseteq Placed(b)
         /\ \A c \in BegunFrom(f) : Placed(c) = Placed(b)
         /\ IF b = Seed THEN Keyed(b.spaces) = {} /\ b.panes = {1} /\ b.ws = 1 /\ \A k \in Placed(b) : k[2] = 1
            ELSE Keyed(b.spaces) = Placed(b)
<1>1. CASE DOMAIN f.spaces = {}
  <2>1. BegunFrom(f) = {Seed} /\ b = Seed  BY <1>1 DEF BegunFrom
  <2>2. Keyed(f.spaces) = {}  BY <1>1 DEF Keyed
  <2>. QED  BY <2>1, <2>2, SeedIs
<1>2. CASE DOMAIN f.spaces # {}
  <2> DEFINE g == Retained(f.spaces, Panes)
             u == [spaces |-> g, ws |-> f.ws, tabs |-> {}, cur |-> NoTab, panes |-> {}]
  <2>1. f.spaces \in Spaces /\ f.ws \in Nums /\ f.ws \in DOMAIN f.spaces  BY <1>2 DEF FileOK
  <2>2. g \in Spaces /\ DOMAIN g = DOMAIN f.spaces  BY <2>1, RetainedIs
  <2>3. Keyed(g) = Keyed(f.spaces)
    <3>1. \A k : k \in Keyed(g) <=> k \in Keyed(f.spaces) /\ k[2] \in Panes  BY <2>1, RetainedIs
    <3>2. \A k \in Keyed(f.spaces) : k[2] \in Panes  BY <2>1, KeysOf DEF Keys
    <3>. QED  BY <3>1, <3>2
  <2>4. BegunFrom(f) = IF u.spaces[u.ws] = {} THEN {WithDefaultTab(u, Top(u.spaces) + 1)} ELSE LoadSpace(u)
    BY <1>2 DEF BegunFrom
  <2>. HIDE DEF g
  <2>5. u \in Raw /\ u.spaces = g /\ u.ws = f.ws /\ u.ws \in DOMAIN u.spaces  BY <2>1, <2>2 DEF Raw
  <2>. HIDE DEF u
  <2>6. Keyed(Whole(b)) = Keyed(b.spaces) /\ Keyed(g) \subseteq Keyed(Whole(b))
        /\ \A c \in BegunFrom(f) : Keyed(Whole(c)) = Keyed(Whole(b))
    <3>1. CASE u.spaces[u.ws] = {}
      <4> DEFINE q == Top(u.spaces) + 1
      <4>1. q \in Nat \ {0}
        <5>1. Top(g) \in 0 .. MaxPane  BY <2>2, TopIs
        <5>. QED  BY <2>5, <5>1, LayoutAssumption
      <4>2. BegunFrom(f) = {WithDefaultTab(u, q)}  BY <2>4, <3>1
      <4>. HIDE DEF q
      <4>. QED  BY <2>5, <3>1, <4>1, <4>2, DefaultPlaces
    <3>2. CASE u.spaces[u.ws] # {}
      <4>1. \A c \in LoadSpace(u) : Whole(c) = u.spaces /\ c.spaces = u.spaces  BY <2>5, LoadSpaceIs
      <4>. QED  BY <2>4, <2>5, <3>2, <4>1
    <3>. QED  BY <3>1, <3>2
  <2>7. b # Seed
    <3>1. Keyed(Whole(Seed)) # Keyed(Seed.spaces)
      <4>1. <<1, 1>> \in Placed(Seed) /\ Keyed(Seed.spaces) = {}
        <5>1. Seed \in Layout /\ Seed.ws = 1 /\ Seed.panes = {1} /\ Keyed(Seed.spaces) = {}  BY SeedIs
        <5>2. <<1, 1>> \in {Seed.ws} \X Seed.panes  BY <5>1
        <5>. QED  BY <5>1, <5>2, InView, PlacedIs
      <4>. QED  BY <4>1, PlacedIs
    <3>. QED  BY <2>6, <3>1
  <2>. QED  BY <2>3, <2>6, <2>7, PlacedIs
<1>. QED  BY <1>1, <1>2

(* What is not a document is in the file after a save, and is brought back.  *)
LEMMA SavedPlaces ==
  ASSUME NEW s \in Layout, NEW docs \in SUBSET Panes, file' = Persisted(s, docs),
         NEW b \in Begun', NEW k \in Keyed(Whole(s)), k[2] \notin docs
  PROVE  k \in Placed(b)
<1>1. FileOK(file')  BY PersistedIs
<1>2. k \in Keyed(file'.spaces)
  <2>1. Whole(s) \in Spaces  BY SaveSpaceIs
  <2>2. k[2] \in Panes  BY <2>1, KeysOf DEF Keys
  <2>3. file'.spaces = IF docs = {} THEN Whole(s) ELSE Retained(Whole(s), Panes \ docs)  BY DEF Persisted, Whole
  <2>4. k \in Keyed(Retained(Whole(s), Panes \ docs))  BY <2>1, <2>2, RetainedIs
  <2>. QED  BY <2>3, <2>4
<1>3. b \in BegunFrom(file')  BY BegunNext
<1>. QED  BY <1>1, <1>2, <1>3, BegunPlaces

-----------------------------------------------------------------------------
(* What the user's actions do: x is the pane that is new.                    *)
Numbers(x) ==
  \/ x = {} /\ next' = next
  \/ x = {next} /\ next \in Panes /\ next' = next + 1

(* The layout, the file and the numbers.                                     *)
Grows(x) ==
  /\ lay' \in Layout /\ FileOK(file') /\ odd' \subseteq Odd /\ odd \ {"unsaved"} \subseteq odd'
  /\ Numbers(x)
  /\ "mixed" \notin odd' =>
       /\ Follows(lay, lay', x) /\ Stores(lay, lay') /\ (Behind(lay) => Behind(lay'))
       /\ mapped' \subseteq mapped \union ({lay.ws} \X x)
       /\ Once(file.spaces) /\ Once(Whole(lay')) => Once(file'.spaces)

(* A new pane is served, one that stays keeps what it has, and what is still  *)
(* to be swept stays stored.                                                 *)
Serves ==
  odd' \intersect {"ghost", "mixed"} = {} =>
    /\ \A k \in Placed(lay') :
         k \notin Placed(lay) \/ k[2] \in terminals \union editors => k[2] \in terminals' \union editors'
    /\ Keyed(lay.spaces) \intersect Placed(lay') \subseteq Keyed(lay'.spaces)

(* Shells stay with their panes, and the file with the layout.               *)
Binds == Tied /\ Safe /\ Fine' => Tied' /\ Safe'

PtyTypes ==
  /\ terminals \subseteq Panes /\ editors \subseteq Panes
  /\ mapped \subseteq Keys /\ shells \subseteq Keys

Acts(x) == Grows(x) /\ PtyTypes' /\ Serves /\ Binds

LEMMA Within ==
  ASSUME Inv, "mixed" \notin odd, NEW x \in SUBSET {next}, NEW s, Follows(lay, s, x)
  PROVE  /\ s \in Layout /\ Sound(s)
         /\ Placed(s) \subseteq Placed(lay) \union ({lay.ws} \X x)
         /\ \A k \in Placed(lay) : k[2] < next
<1>1. Sound(lay) /\ Numbered(lay, next) /\ lay \in Layout /\ s \in Layout
  BY DEF Inv, InOrder, Types, Follows
<1> DEFINE f == Whole(lay)  g == Whole(s)
<1>2. f \in Spaces /\ g \in Spaces  BY <1>1, SaveSpaceIs
<1>3. next \in Nat  BY DEF Inv, Types
<1>4. \A k \in Keyed(f) : k[2] < next  BY <1>1 DEF Numbered
<1>. HIDE DEF f, g
<1>5. \A n \in DOMAIN f : PanesOf(f[n]) \intersect x = {}
  <2>1. ASSUME NEW n \in DOMAIN f, NEW p \in PanesOf(f[n]) PROVE p < next /\ p \in Nat
    <3>1. <<n, p>> \in Keyed(f) /\ p \in Panes  BY <1>2, KeysOf
    <3>2. <<n, p>>[2] < next  BY <1>4, <3>1
    <3>. QED  BY <3>1, <3>2 DEF Panes
  <2>. QED  BY <1>3, <2>1
<1>6. Fresh(s) /\ Moves(f, g, lay.ws, x)  BY <1>1, <1>5 DEF Follows, f, g
<1>7. Once(f)  BY <1>1 DEF Sound, f
<1>8. Once(g) /\ Keyed(g) \subseteq Keyed(f) \union ({lay.ws} \X x)  BY <1>2, <1>5, <1>6, <1>7, OnceMoves
<1>9. Placed(lay) = Keyed(f) /\ Placed(s) = Keyed(g)  BY PlacedIs DEF f, g
<1>. QED  BY <1>1, <1>4, <1>6, <1>8, <1>9 DEF Sound, g

LEMMA GrowsOrder ==
  ASSUME Inv, NEW x, Grows(x), sweep' = sweep
  PROVE  /\ InOrder'
         /\ "mixed" \notin odd' => \A k \in Placed(lay') \ Placed(lay) : k[2] >= next
<1>1. ASSUME "mixed" \notin odd'
      PROVE  Sound(lay') /\ Behind(lay') /\ Numbered(lay', next') /\ AtHome(Tracked', lay', next')
             /\ Once(file'.spaces)
             /\ \A k \in Placed(lay') \ Placed(lay) : k[2] >= next
  <2>1. /\ "mixed" \notin odd /\ Follows(lay, lay', x) /\ Stores(lay, lay') /\ (Behind(lay) => Behind(lay'))
        /\ mapped' \subseteq mapped \union ({lay.ws} \X x)
        /\ Once(file.spaces) /\ Once(Whole(lay')) => Once(file'.spaces)
    BY <1>1 DEF Grows
  <2>2. /\ Sound(lay) /\ Behind(lay) /\ Numbered(lay, next) /\ AtHome(Tracked, lay, next) /\ Once(file.spaces)
        /\ lay \in Layout /\ lay' \in Layout
    BY <2>1 DEF Grows, Inv, InOrder, Types
  <2>3. x \in SUBSET {next}  BY DEF Grows, Numbers
  <2> DEFINE a == Placed(lay)  b == Placed(lay')  w == {lay.ws} \X x
  <2>4. lay' \in Layout /\ Sound(lay') /\ b \subseteq a \union w /\ \A k \in a : k[2] < next
    BY <2>1, <2>3, Within
  <2>5. a \subseteq Keys /\ mapped \subseteq Keys /\ sweep.left \subseteq Keys /\ Keyed(lay.spaces) \subseteq Keys
    <3>1. Whole(lay) \in Spaces /\ lay.spaces \in Spaces  BY <2>2, SaveSpaceIs, RawIs DEF Layout
    <3>2. mapped \subseteq Keys /\ sweep.left \subseteq Keys  BY DEF Inv, Types, Sweep
    <3>. QED  BY <3>1, <3>2, KeysOf, PlacedIs
  <2>6. a = Keyed(Whole(lay)) /\ b = Keyed(Whole(lay'))  BY PlacedIs
  <2>7. Once(Whole(lay))  BY <2>2 DEF Sound
  <2>8. next \in Nat /\ next' \in Nat /\ next <= next' /\ (x = {} \/ next < next')
    BY DEF Inv, Types, Grows, Numbers
  <2>9. \A k \in w : k = <<lay.ws, next>> /\ x # {}  BY <2>3
  <2>10. Tracked' \subseteq Tracked \union a \union w  BY <2>1, <2>6 DEF Tracked, Stores
  <2>11. \A k \in Tracked : k[2] < next /\ \A j \in a : k[2] = j[2] => k = j  BY <2>2, <2>6 DEF AtHome
  <2>12. \A k, j \in a : k[2] = j[2] => k = j  BY <2>6, <2>7, OnceKeys
  <2>13. Tracked \subseteq Keys  BY <2>5 DEF Tracked
  <2>. HIDE DEF a, b, w
  <2>14. \A k \in Tracked \union a : k \in Keys /\ k[2] \in Nat /\ k[2] < next
    BY <2>4, <2>5, <2>11, <2>13 DEF Keys, Panes
  <2>15. ASSUME NEW k \in b PROVE k[2] < next' /\ (k \notin a => k[2] >= next)
    BY <2>4, <2>8, <2>9, <2>14
  <2>16. ASSUME NEW k \in Tracked', NEW j \in b, k[2] = j[2] PROVE k = j
    <3>1. CASE k \in w /\ j \in w  BY <2>9, <3>1
    <3>2. CASE k \notin w /\ j \notin w  BY <2>4, <2>10, <2>11, <2>12, <2>16, <3>2
    <3>3. CASE k \in w /\ j \notin w
      <4>1. k[2] = next /\ j \in a  BY <2>4, <2>9, <3>3
      <4>2. j[2] \in Nat /\ j[2] < next  BY <2>14, <4>1
      <4>. QED  BY <2>8, <2>16, <4>1, <4>2
    <3>4. CASE k \notin w /\ j \in w
      <4>1. j[2] = next /\ k \in Tracked \union a  BY <2>9, <2>10, <3>4
      <4>2. k[2] \in Nat /\ k[2] < next  BY <2>14, <4>1
      <4>. QED  BY <2>8, <2>16, <4>1, <4>2
    <3>. QED  BY <3>1, <3>2, <3>3, <3>4
  <2>17. ASSUME NEW k \in Tracked' PROVE k[2] < next'
    <3>1. CASE k \in w  BY <2>8, <2>9, <3>1
    <3>2. CASE k \notin w
      <4>1. k \in Tracked \union a  BY <2>10, <3>2
      <4>. QED  BY <2>8, <2>14, <4>1
    <3>. QED  BY <3>1, <3>2
  <2>18. Numbered(lay', next') /\ AtHome(Tracked', lay', next')
    BY <2>6, <2>15, <2>16, <2>17 DEF Numbered, AtHome
  <2>19. Once(file'.spaces)  BY <2>1, <2>2, <2>4 DEF Sound
  <2>. QED  BY <2>1, <2>2, <2>4, <2>15, <2>18, <2>19 DEF a, b
<1>. QED  BY <1>1 DEF InOrder

(* A layout that follows, saved or not.                                      *)
LEMMA SavedGrows ==
  ASSUME Inv, NEW x, NEW gone, Rests(lay, lay', x, gone) \/ "mixed" \in odd', lay' \in Layout,
         Numbers(x), mapped' \subseteq mapped \union ({lay.ws} \X x),
         file' = file \/ \E docs : file' = Persisted(lay', docs),
         odd' \subseteq Odd, odd \ {"unsaved"} \subseteq odd'
  PROVE  Grows(x)
<1>1. FileOK(file') /\ (Once(file.spaces) /\ Once(Whole(lay')) => Once(file'.spaces))
  <2>1. CASE file' = file  BY <2>1 DEF Inv, Types
  <2>2. CASE \E docs : file' = Persisted(lay', docs)
    <3>1. PICK docs : file' = Persisted(lay', docs)  BY <2>2
    <3>. QED  BY <3>1, PersistedIs
  <2>. QED  BY <2>1, <2>2
<1>. QED  BY <1>1 DEF Grows, Rests

(* After a save, and when neither layout nor file changes.                    *)
LEMMA SavedSafe ==
  ASSUME lay' \in Layout, editors' \in SUBSET Panes, file' = Persisted(lay', editors')
  PROVE  Safe'
<1>1. ASSUME NEW b \in Begun', NEW k \in Placed(lay'), k[2] \notin editors' PROVE k \in Placed(b)
  <2>1. k \in Keyed(Whole(lay'))  BY PlacedIs
  <2>. QED  BY <1>1, <2>1, SavedPlaces
<1>. QED  BY <1>1 DEF Safe

LEMMA KeptSafe ==
  ASSUME Safe, file' = file, odd \subseteq odd', editors \subseteq editors',
         \A k \in Placed(lay') : k \in Placed(lay) \/ k[2] \in editors'
  PROVE  Safe'
<1>1. Begun' = Begun  BY BegunIsFrom, BegunNext
<1>2. ASSUME "unsaved" \notin odd', NEW b \in Begun', NEW k \in Placed(lay') PROVE k[2] \in editors' \/ k \in Placed(b)
  BY <1>1, <1>2 DEF Safe
<1>. QED  BY <1>2 DEF Safe

-----------------------------------------------------------------------------
(* The kinds of actions.  Panes are taken off the layout.                    *)
LEMMA Removed ==
  ASSUME Inv, NEW keys, NEW s, RemoveAndSave(keys, s), Rests(lay, s, {}, keys)
  PROVE  Acts({})
<1> DEFINE ps == {k[2] : k \in keys}  tracked == {k \in mapped : k[2] \in ps \ editors}
<1>1. /\ terminals' = terminals \ (ps \ editors) /\ editors' = editors \ ps
      /\ mapped' = mapped \ tracked /\ shells' = shells \ tracked
      /\ lay' = s /\ file' = Persisted(s, editors')
      /\ odd' = (odd \ {"unsaved"}) \union Leaked(keys)
      /\ next' = next
  BY DEF RemoveAndSave
<1>2. \A k \in keys : k[2] \in ps  OBVIOUS
<1>3. \A p \in ps : \E k \in keys : p = k[2]  OBVIOUS
<1>4. \A k : k \in tracked <=> k \in mapped /\ k[2] \in ps /\ k[2] \notin editors  OBVIOUS
<1>. HIDE DEF ps, tracked
<1>5. PtyTypes'  BY <1>1 DEF Inv, Types, PtyTypes
<1>6. odd' \subseteq Odd /\ odd \ {"unsaved"} \subseteq odd'  BY <1>1 DEF Inv, Types, Leaked, Odd
<1>7. Follows(lay, s, {}) /\ Keeps(lay, s, keys) /\ s \in Layout  BY DEF Rests, Follows
<1>8. Grows({})
  <2>1. Numbers({}) /\ mapped' \subseteq mapped \union ({lay.ws} \X {})  BY <1>1 DEF Numbers
  <2>2. file' = file \/ \E docs : file' = Persisted(lay', docs)  BY <1>1
  <2>3. Rests(lay, lay', {}, keys) /\ lay' \in Layout  BY <1>1, <1>7
  <2>. QED  BY <1>6, <2>1, <2>2, <2>3, SavedGrows
<1>9. ASSUME "mixed" \notin odd'
      PROVE  /\ Placed(s) \subseteq Placed(lay) /\ Placed(lay) \subseteq Placed(s) \union keys
             /\ \A k \in Placed(s) : k[2] \notin ps
             /\ Keyed(lay.spaces) \intersect Placed(s) \subseteq Keyed(s.spaces)
  <2>1. "mixed" \notin odd  BY <1>6, <1>9
  <2>2. Sound(lay)  BY <2>1 DEF Inv, InOrder
  <2>3. Placed(s) \subseteq Placed(lay) \union ({lay.ws} \X {})  BY <1>7, <2>1, Within
  <2>4. Placed(s) = Keyed(Whole(s)) /\ Placed(lay) = Keyed(Whole(lay))  BY PlacedIs
  <2>5. /\ Placed(lay) \subseteq Placed(s) \union keys
        /\ \A k \in Placed(s) : \A g \in keys : k[2] # g[2]
        /\ Keyed(lay.spaces) \intersect Placed(s) \subseteq Keyed(s.spaces)
    BY <1>7, <2>2, <2>4 DEF Keeps
  <2>. QED  BY <1>3, <2>3, <2>5
<1>10. Serves
  <2>1. SUFFICES ASSUME odd' \intersect {"ghost", "mixed"} = {}
                 PROVE  /\ \A k \in Placed(lay') :
                             k \notin Placed(lay) \/ k[2] \in terminals \union editors => k[2] \in terminals' \union editors'
                        /\ Keyed(lay.spaces) \intersect Placed(lay') \subseteq Keyed(lay'.spaces)
    BY DEF Serves
  <2>. QED  BY <1>1, <1>9, <2>1
<1>11. ASSUME Tied, Safe, Fine' PROVE Tied' /\ Safe'
  <2>1. "mixed" \notin odd' /\ "leaked" \notin odd'  BY <1>11 DEF Fine
  <2>2. (keys \intersect shells) \ mapped = {}  BY <1>1, <2>1 DEF Leaked
  <2>3. shells' \union mapped' \subseteq Placed(lay')
    <3>1. ASSUME NEW h \in shells' \union mapped', h \notin Placed(s) PROVE FALSE
      <4>1. h \in keys /\ h[2] \notin editors  BY <1>1, <1>9, <1>11, <2>1, <3>1 DEF Tied
      <4>2. h \in mapped  BY <1>1, <2>2, <3>1, <4>1
      <4>. QED  BY <1>1, <1>2, <1>4, <3>1, <4>1, <4>2
    <3>. QED  BY <1>1, <3>1
  <2>4. \A k \in mapped' : k[2] \in terminals'  BY <1>1, <1>4, <1>11 DEF Tied
  <2>5. \A k \in shells' \union mapped' : k[2] \notin editors'  BY <1>1, <1>11 DEF Tied
  <2>6. \A e \in editors' : e < next'  BY <1>1, <1>11 DEF Tied
  <2>7. Safe'
    <3>1. lay' \in Layout /\ editors' \in SUBSET Panes  BY <1>1, <1>5, <1>7 DEF PtyTypes
    <3>2. file' = Persisted(lay', editors')  BY <1>1
    <3>. QED  BY <3>1, <3>2, SavedSafe
  <2>. QED  BY <2>3, <2>4, <2>5, <2>6, <2>7 DEF Tied
<1>. QED  BY <1>5, <1>8, <1>10, <1>11 DEF Acts, Binds

(* Panes change their places.                                                *)
LEMMA RestedSame ==
  ASSUME Inv, NEW s, Saved(s) \/ Unsaved(s), Rests(lay, s, {}, {}), UNCHANGED Pty
  PROVE  Acts({})
<1>1. /\ lay' = s /\ next' = next /\ terminals' = terminals /\ editors' = editors
      /\ mapped' = mapped /\ shells' = shells
  BY DEF Pty, Saved, Unsaved
<1>2. \/ file' = Persisted(s, editors) /\ odd' = odd \ {"unsaved"}
      \/ file' = file /\ odd' = odd
  BY DEF Saved, Unsaved
<1>3. PtyTypes'  BY <1>1 DEF Inv, Types, PtyTypes
<1>4. odd' \subseteq Odd /\ odd \ {"unsaved"} \subseteq odd'  BY <1>2 DEF Inv, Types
<1>5. Follows(lay, s, {}) /\ Keeps(lay, s, {}) /\ s \in Layout  BY DEF Rests, Follows
<1>6. Grows({})
  <2>1. Numbers({}) /\ mapped' \subseteq mapped \union ({lay.ws} \X {})  BY <1>1 DEF Numbers
  <2>2. file' = file \/ \E docs : file' = Persisted(lay', docs)  BY <1>1, <1>2
  <2>3. Rests(lay, lay', {}, {}) /\ lay' \in Layout  BY <1>1, <1>5
  <2>. QED  BY <1>4, <2>1, <2>2, <2>3, SavedGrows
<1>7. ASSUME "mixed" \notin odd'
      PROVE  Placed(s) = Placed(lay) /\ Keyed(lay.spaces) \intersect Placed(s) \subseteq Keyed(s.spaces)
  <2>1. "mixed" \notin odd  BY <1>4, <1>7
  <2>2. Sound(lay)  BY <2>1 DEF Inv, InOrder
  <2>3. Placed(s) \subseteq Placed(lay) \union ({lay.ws} \X {})  BY <1>5, <2>1, Within
  <2>4. Placed(s) = Keyed(Whole(s)) /\ Placed(lay) = Keyed(Whole(lay))  BY PlacedIs
  <2>5. Placed(lay) \subseteq Placed(s) /\ Keyed(lay.spaces) \intersect Placed(s) \subseteq Keyed(s.spaces)
    BY <1>5, <2>2, <2>4 DEF Keeps
  <2>. QED  BY <2>3, <2>5
<1>8. Serves  BY <1>1, <1>7 DEF Serves
<1>9. ASSUME Tied, Safe, Fine' PROVE Tied' /\ Safe'
  <2>1. "mixed" \notin odd'  BY <1>9 DEF Fine
  <2>2. Tied'  BY <1>1, <1>7, <1>9, <2>1 DEF Tied
  <2>3. CASE file' = Persisted(s, editors)
    <3>1. lay' \in Layout /\ editors' \in SUBSET Panes  BY <1>1, <1>3, <1>5 DEF PtyTypes
    <3>2. file' = Persisted(lay', editors')  BY <1>1, <2>3
    <3>. QED  BY <2>2, <3>1, <3>2, SavedSafe
  <2>4. CASE file' = file /\ odd' = odd
    <3>1. \A k \in Placed(lay') : k \in Placed(lay) \/ k[2] \in editors'  BY <1>1, <1>7, <2>1
    <3>2. odd \subseteq odd' /\ editors \subseteq editors'  BY <1>1, <2>4
    <3>. QED  BY <1>9, <2>2, <2>4, <3>1, <3>2, KeptSafe
  <2>. QED  BY <1>2, <2>3, <2>4
<1>. QED  BY <1>3, <1>6, <1>8, <1>9 DEF Acts, Binds

(* A new pane, with a terminal, comes into view.                             *)
LEMMA SpawnedActs ==
  ASSUME Inv, SpawnPane, NEW s, next \in s.panes, s.ws = lay.ws, Rests(lay, s, {next}, {}),
         Saved(s) \/ (lay' = s /\ odd' = odd \union {"unsaved"} /\ UNCHANGED file)
  PROVE  Acts({next})
<1> DEFINE new == <<lay.ws, next>>
<1>1. next \in Panes /\ next' = next + 1  BY LayoutAssumption DEF Inv, Types, SpawnPane, Panes
<1>2. /\ lay' = s /\ editors' = editors /\ terminals' = terminals \union {next}
      /\ mapped \subseteq mapped' /\ mapped' \subseteq mapped \union {new}
      /\ shells' \subseteq shells \union {new}
  BY DEF SpawnPane, Saved
<1>3. \/ file' = Persisted(s, editors) /\ odd' = odd \ {"unsaved"}
      \/ file' = file /\ odd' = odd \union {"unsaved"}
  BY DEF Saved
<1>4. new \in Keys /\ new[2] = next  BY <1>1, RawIs DEF Inv, Types, Layout, Keys
<1>5. {lay.ws} \X {next} = {new}  OBVIOUS
<1>. HIDE DEF new
<1>6. PtyTypes'  BY <1>1, <1>2, <1>4 DEF Inv, Types, PtyTypes
<1>7. odd' \subseteq Odd /\ odd \ {"unsaved"} \subseteq odd'  BY <1>3 DEF Inv, Types, Odd
<1>8. Follows(lay, s, {next}) /\ Keeps(lay, s, {}) /\ s \in Layout  BY DEF Rests, Follows
<1>9. Grows({next})
  <2>1. Numbers({next}) /\ mapped' \subseteq mapped \union ({lay.ws} \X {next})  BY <1>1, <1>2, <1>5 DEF Numbers
  <2>2. file' = file \/ \E docs : file' = Persisted(lay', docs)  BY <1>2, <1>3
  <2>3. Rests(lay, lay', {next}, {}) /\ lay' \in Layout  BY <1>2, <1>8
  <2>. QED  BY <1>7, <2>1, <2>2, <2>3, SavedGrows
<1>10. ASSUME "mixed" \notin odd'
       PROVE  /\ Placed(s) \subseteq Placed(lay) \union {new} /\ Placed(lay) \subseteq Placed(s)
              /\ Keyed(lay.spaces) \intersect Placed(s) \subseteq Keyed(s.spaces)
  <2>1. "mixed" \notin odd  BY <1>7, <1>10
  <2>2. Sound(lay)  BY <2>1 DEF Inv, InOrder
  <2>3. Placed(s) \subseteq Placed(lay) \union {new}  BY <1>5, <1>8, <2>1, Within
  <2>4. Placed(s) = Keyed(Whole(s)) /\ Placed(lay) = Keyed(Whole(lay))  BY PlacedIs
  <2>5. Placed(lay) \subseteq Placed(s) /\ Keyed(lay.spaces) \intersect Placed(s) \subseteq Keyed(s.spaces)
    BY <1>8, <2>2, <2>4 DEF Keeps
  <2>. QED  BY <2>3, <2>5
<1>11. new \in Placed(s)
  <2>1. {s.ws} \X s.panes \subseteq Keyed(Whole(s))  BY <1>8, InView
  <2>2. new \in {s.ws} \X s.panes  BY DEF new
  <2>. QED  BY <2>1, <2>2, PlacedIs
<1>12. Serves
  <2>1. SUFFICES ASSUME odd' \intersect {"ghost", "mixed"} = {}
                 PROVE  /\ \A k \in Placed(lay') :
                             k \notin Placed(lay) \/ k[2] \in terminals \union editors => k[2] \in terminals' \union editors'
                        /\ Keyed(lay.spaces) \intersect Placed(lay') \subseteq Keyed(lay'.spaces)
    BY DEF Serves
  <2>. QED  BY <1>2, <1>4, <1>10, <2>1
<1>13. ASSUME Tied, Safe, Fine' PROVE Tied' /\ Safe'
  <2>1. "mixed" \notin odd'  BY <1>13 DEF Fine
  <2>2. shells' \union mapped' \subseteq Placed(lay')  BY <1>2, <1>10, <1>11, <1>13, <2>1 DEF Tied
  <2>3. \A k \in mapped' : k[2] \in terminals'  BY <1>2, <1>4, <1>13 DEF Tied
  <2>4. next \notin editors
    <3>1. \A e \in editors : e < next  BY <1>13 DEF Tied
    <3>. QED  BY <1>1, <3>1 DEF Panes
  <2>5. \A k \in shells' \union mapped' : k[2] \notin editors'  BY <1>2, <1>4, <1>13, <2>4 DEF Tied
  <2>6. \A e \in editors' : e < next'
    <3>1. \A e \in editors : e < next /\ e \in Nat  BY <1>13 DEF Tied, Inv, Types, Panes
    <3>. QED  BY <1>1, <1>2, <3>1 DEF Panes
  <2>7. Safe'
    <3>1. CASE file' = Persisted(s, editors)
      <4>1. lay' \in Layout /\ editors' \in SUBSET Panes  BY <1>2, <1>6, <1>8 DEF PtyTypes
      <4>2. file' = Persisted(lay', editors')  BY <1>2, <3>1
      <4>. QED  BY <4>1, <4>2, SavedSafe
    <3>2. CASE odd' = odd \union {"unsaved"}  BY <3>2 DEF Safe
    <3>. QED  BY <1>3, <3>1, <3>2
  <2>. QED  BY <2>2, <2>3, <2>5, <2>6, <2>7 DEF Tied
<1>. QED  BY <1>6, <1>9, <1>12, <1>13 DEF Acts, Binds

(* A document gets a tab: it is stripped from the file.                      *)
LEMMA AddEditorTabActs ==
  ASSUME Inv, AddEditorTab
  PROVE  Acts({next})
<1> DEFINE new == <<lay.ws, next>>  s == WithTab(lay)
<1>. lay \in Layout  BY DEF Inv, Types
<1>1. next \in Panes /\ next' = next + 1  BY LayoutAssumption DEF Inv, Types, AddEditorTab, Panes
<1>2. /\ lay' = s /\ editors' = editors \union {next} /\ terminals' = terminals
      /\ mapped' = mapped /\ shells' = shells /\ file' = file /\ odd' = odd
  BY DEF AddEditorTab, Unsaved
<1>3. Rests(lay, s, {next}, {})  BY <1>1, FollowsWithTab
<1>4. {lay.ws} \X {next} = {new} /\ new[2] = next  OBVIOUS
<1>. HIDE DEF new, s
<1>5. PtyTypes' /\ odd' \subseteq Odd /\ odd \ {"unsaved"} \subseteq odd'  BY <1>1, <1>2 DEF Inv, Types, PtyTypes
<1>6. Follows(lay, s, {next}) /\ Keeps(lay, s, {}) /\ s \in Layout  BY <1>3 DEF Rests, Follows
<1>7. Grows({next})
  <2>1. Numbers({next}) /\ mapped' \subseteq mapped \union ({lay.ws} \X {next})  BY <1>1, <1>2 DEF Numbers
  <2>2. Rests(lay, lay', {next}, {}) /\ lay' \in Layout  BY <1>2, <1>3, <1>6
  <2>. QED  BY <1>2, <1>5, <2>1, <2>2, SavedGrows
<1>8. ASSUME "mixed" \notin odd'
      PROVE  /\ Placed(s) \subseteq Placed(lay) \union {new} /\ Placed(lay) \subseteq Placed(s)
             /\ Keyed(lay.spaces) \intersect Placed(s) \subseteq Keyed(s.spaces)
             /\ \A k \in Placed(lay) : k[2] < next
  <2>1. "mixed" \notin odd  BY <1>2, <1>8
  <2>2. Sound(lay)  BY <2>1 DEF Inv, InOrder
  <2>3. Placed(s) \subseteq Placed(lay) \union {new} /\ \A k \in Placed(lay) : k[2] < next
    BY <1>4, <1>6, <2>1, Within
  <2>4. Placed(s) = Keyed(Whole(s)) /\ Placed(lay) = Keyed(Whole(lay))  BY PlacedIs
  <2>5. Placed(lay) \subseteq Placed(s) /\ Keyed(lay.spaces) \intersect Placed(s) \subseteq Keyed(s.spaces)
    BY <1>6, <2>2, <2>4 DEF Keeps
  <2>. QED  BY <2>3, <2>5
<1>9. Serves
  <2>1. SUFFICES ASSUME odd' \intersect {"ghost", "mixed"} = {}
                 PROVE  /\ \A k \in Placed(lay') :
                             k \notin Placed(lay) \/ k[2] \in terminals \union editors => k[2] \in terminals' \union editors'
                        /\ Keyed(lay.spaces) \intersect Placed(lay') \subseteq Keyed(lay'.spaces)
    BY DEF Serves
  <2>. QED  BY <1>2, <1>4, <1>8, <2>1
<1>10. ASSUME Tied, Safe, Fine' PROVE Tied' /\ Safe'
  <2>1. "mixed" \notin odd'  BY <1>10 DEF Fine
  <2>2. shells' \union mapped' \subseteq Placed(lay')  BY <1>2, <1>8, <1>10, <2>1 DEF Tied
  <2>3. \A k \in mapped' : k[2] \in terminals'  BY <1>2, <1>10 DEF Tied
  <2>4. \A k \in shells' \union mapped' : k[2] \notin editors'
    <3>1. \A k \in Placed(lay) : k[2] # next  BY <1>1, <1>8, <2>1 DEF Panes
    <3>. QED  BY <1>2, <1>10, <3>1 DEF Tied
  <2>5. \A e \in editors' : e < next'
    <3>1. \A e \in editors : e < next /\ e \in Nat  BY <1>10 DEF Tied, Inv, Types, Panes
    <3>. QED  BY <1>1, <1>2, <3>1 DEF Panes
  <2>6. \A k \in Placed(lay') : k \in Placed(lay) \/ k[2] \in editors'  BY <1>2, <1>4, <1>8, <2>1
  <2>7. odd \subseteq odd' /\ editors \subseteq editors'  BY <1>2
  <2>8. Safe'  BY <1>2, <1>10, <2>6, <2>7, KeptSafe
  <2>. QED  BY <2>2, <2>3, <2>4, <2>5, <2>8 DEF Tied
<1>. QED  BY <1>5, <1>7, <1>9, <1>10 DEF Acts, Binds

(* The kill from the panel of sessions: where its pane was is not asked.      *)
LEMMA KillSessionActs ==
  ASSUME Inv, NEW k \in shells, KillSession(k)
  PROVE  Acts({})
<1> DEFINE p == k[2]
           cur == [lay.cur EXCEPT !.panes = lay.cur.panes \ {p}]
           s == [lay EXCEPT !.panes = lay.panes \ {p}, !.cur = cur,
                            !.tabs = IF lay.cur = NoTab THEN lay.tabs ELSE (lay.tabs \ {lay.cur}) \union {cur},
                            !.spaces = [n \in DOMAIN lay.spaces |-> Without(p, lay.spaces[n])]]
<1>. lay \in Layout  BY DEF Inv, Types
<1>1. /\ shells' = shells \ {k} /\ next' = next /\ editors' = editors /\ file' = file
      /\ \/ /\ k \in mapped /\ mapped' = mapped \ {k} /\ terminals' = terminals \ {p} /\ lay' = s
            /\ odd' = odd \union {"unsaved"} \union (IF k \in Placed(s) THEN {"ghost"} ELSE {})
         \/ mapped' = mapped /\ terminals' = terminals /\ lay' = lay /\ odd' = odd
  BY DEF KillSession
<1>0. /\ cur = [lay.cur EXCEPT !.panes = lay.cur.panes \ {p}]
      /\ s = [lay EXCEPT !.panes = lay.panes \ {p}, !.cur = cur,
                         !.tabs = IF lay.cur = NoTab THEN lay.tabs ELSE (lay.tabs \ {lay.cur}) \union {cur},
                         !.spaces = [n \in DOMAIN lay.spaces |-> Without(p, lay.spaces[n])]]
  OBVIOUS
<1>. HIDE DEF s, cur, p
<1>10. Follows(lay, s, {})  BY <1>0, FollowsKilled
<1>11. Loses(lay, s, p)  BY <1>0, FollowsKilled
<1>2. /\ Follows(lay, s, {}) /\ Stores(lay, s) /\ (Behind(lay) => Behind(s))
      /\ Sound(lay) /\ Behind(lay) => \A j \in Keyed(Whole(lay)) : j[2] # p => j \in Keyed(Whole(s))
      /\ \A j \in Keyed(lay.spaces) : j[2] # p => j \in Keyed(s.spaces)
  BY <1>10, <1>11 DEF Loses
<1>3. PtyTypes' /\ odd' \subseteq Odd /\ odd \subseteq odd'  BY <1>1 DEF Inv, Types, PtyTypes, Odd
<1>4. Follows(lay, lay, {}) /\ Stores(lay, lay)  BY FollowsSame DEF Sound, Stores
<1>5. s \in Layout  BY <1>2 DEF Follows
<1>6. Grows({})
  <2>1. Numbers({}) /\ mapped' \subseteq mapped \union ({lay.ws} \X {})  BY <1>1 DEF Numbers
  <2>2. /\ lay' \in Layout /\ Follows(lay, lay', {}) /\ Stores(lay, lay') /\ (Behind(lay) => Behind(lay'))
    BY <1>1, <1>2, <1>4, <1>5
  <2>3. FileOK(file') /\ (Once(file.spaces) => Once(file'.spaces))  BY <1>1 DEF Inv, Types
  <2>. QED  BY <1>3, <2>1, <2>2, <2>3 DEF Grows
<1>7. ASSUME "mixed" \notin odd'
      PROVE  /\ Sound(lay) /\ Behind(lay) /\ AtHome(Tracked, lay, next) /\ Placed(s) \subseteq Placed(lay)
             /\ \A i, j \in Placed(lay) : i[2] = j[2] => i = j
  <2>1. "mixed" \notin odd  BY <1>3, <1>7
  <2>2. Sound(lay) /\ Behind(lay) /\ AtHome(Tracked, lay, next)  BY <2>1 DEF Inv, InOrder
  <2>3. Placed(s) \subseteq Placed(lay) \union ({lay.ws} \X {})  BY <1>2, <2>1, Within
  <2>4. \A i, j \in Keyed(Whole(lay)) : i[2] = j[2] => i = j  BY <2>2, OnceKeys DEF Sound
  <2>. QED  BY <2>2, <2>3, <2>4, PlacedIs
<1>8. CASE k \in mapped /\ mapped' = mapped \ {k} /\ terminals' = terminals \ {p} /\ lay' = s
           /\ odd' = odd \union {"unsaved"} \union (IF k \in Placed(s) THEN {"ghost"} ELSE {})
  <2>1. ASSUME odd' \intersect {"ghost", "mixed"} = {}, NEW j \in Placed(s) PROVE j[2] # p /\ j \in Placed(lay)
    <3>1. k \notin Placed(s) /\ k \in mapped /\ "mixed" \notin odd'  BY <1>8, <2>1
    <3>2. AtHome(Tracked, lay, next) /\ j \in Placed(lay)  BY <1>7, <2>1, <3>1
    <3>3. k \in Tracked  BY <3>1 DEF Tracked
    <3>4. k[2] = j[2] => k = j  BY <3>2, <3>3, PlacedIs DEF AtHome
    <3>. QED  BY <2>1, <3>1, <3>2, <3>4 DEF p
  <2>2. Placed(s) = Keyed(Whole(s)) /\ Placed(lay) = Keyed(Whole(lay))  BY PlacedIs
  <2>3. Serves
    <3>1. SUFFICES ASSUME odd' \intersect {"ghost", "mixed"} = {}
                   PROVE  /\ \A j \in Placed(lay') :
                               j \notin Placed(lay) \/ j[2] \in terminals \union editors => j[2] \in terminals' \union editors'
                          /\ Keyed(lay.spaces) \intersect Placed(lay') \subseteq Keyed(lay'.spaces)
      BY DEF Serves
    <3>2. \A j \in Placed(s) : j[2] # p /\ j \in Placed(lay)  BY <2>1, <3>1
    <3>. QED  BY <1>1, <1>2, <1>8, <3>2
  <2>4. ASSUME Tied, Safe, Fine' PROVE Tied' /\ Safe'
    <3>1. "mixed" \notin odd'  BY <2>4 DEF Fine
    <3>2. Sound(lay) /\ Behind(lay) /\ \A i, j \in Placed(lay) : i[2] = j[2] => i = j  BY <1>7, <3>1
    <3>3. ASSUME NEW h \in shells' \union mapped' PROVE h \in Placed(lay) /\ h[2] # p
      <4>1. h \in Placed(lay) /\ k \in Placed(lay) /\ h # k  BY <1>1, <1>8, <2>4, <3>3 DEF Tied
      <4>. QED  BY <3>2, <4>1 DEF p
    <3>4. shells' \union mapped' \subseteq Placed(lay')  BY <1>2, <1>8, <2>2, <3>2, <3>3
    <3>5. \A j \in mapped' : j[2] \in terminals'  BY <1>8, <2>4, <3>3 DEF Tied
    <3>6. \A j \in shells' \union mapped' : j[2] \notin editors'  BY <1>1, <1>8, <2>4 DEF Tied
    <3>7. \A e \in editors' : e < next'  BY <1>1, <2>4 DEF Tied
    <3>8. Safe'  BY <1>8 DEF Safe
    <3>. QED  BY <3>4, <3>5, <3>6, <3>7, <3>8 DEF Tied
  <2>. QED  BY <1>3, <1>6, <2>3, <2>4 DEF Acts, Binds
<1>9. CASE mapped' = mapped /\ terminals' = terminals /\ lay' = lay /\ odd' = odd
  <2>1. Serves  BY <1>1, <1>9 DEF Serves
  <2>2. ASSUME Tied, Safe, Fine' PROVE Tied' /\ Safe'
    <3>1. Tied'  BY <1>1, <1>9, <2>2 DEF Tied
    <3>2. Safe'  BY <1>1, <1>9, <2>2, KeptSafe
    <3>. QED  BY <3>1, <3>2
  <2>. QED  BY <1>3, <1>6, <2>1, <2>2 DEF Acts, Binds
<1>. QED  BY <1>1, <1>8, <1>9

(* A reorder is a save, unless it selects another tab.                       *)
LEMMA ReorderActs ==
  ASSUME Inv, Reorder
  PROVE  Acts({})
<1>. lay \in Layout  BY DEF Inv, Types
<1>1. PICK t \in lay.tabs : /\ t.id = lay.cur.id
                            /\ lay' = [lay EXCEPT !.cur = t]
                            /\ file' = Persisted(lay', editors)
                            /\ odd' = (odd \ {"unsaved"}) \union (IF t # lay.cur THEN {"mixed"} ELSE {})
  BY DEF Reorder
<1>2. UNCHANGED Pty  BY DEF Reorder
<1>3. CASE t = lay.cur
  <2>1. lay' = lay  BY <1>1, <1>3 DEF Layout, Raw
  <2>2. Saved(lay)  BY <1>1, <1>3, <2>1 DEF Saved
  <2>3. Follows(lay, lay, {})  BY FollowsSame DEF Sound
  <2>4. Keeps(lay, lay, {}) /\ Stores(lay, lay)  BY KeepsSame DEF Stores
  <2>. QED  BY <1>2, <2>2, <2>3, <2>4, RestedSame DEF Rests
<1>4. CASE t # lay.cur
  <2>1. "mixed" \in odd' /\ odd' \subseteq Odd /\ odd \ {"unsaved"} \subseteq odd'
    BY <1>1, <1>4 DEF Inv, Types, Odd
  <2>2. lay' \in Layout
    <3>1. lay \in Raw /\ Framed(lay) /\ t \in Tab  BY RawIs DEF Layout
    <3>. QED  BY <1>1, <3>1 DEF Layout, Framed, Raw
  <2>3. FileOK(file')  BY <1>1, <2>2, PersistedIs
  <2>4. Numbers({}) /\ PtyTypes'  BY <1>2 DEF Numbers, Pty, Inv, Types, PtyTypes
  <2>5. Grows({})  BY <2>1, <2>2, <2>3, <2>4 DEF Grows
  <2>6. Serves  BY <2>1 DEF Serves
  <2>7. Binds  BY <2>1 DEF Binds, Fine
  <2>. QED  BY <2>4, <2>5, <2>6, <2>7 DEF Acts
<1>. QED  BY <1>3, <1>4

-----------------------------------------------------------------------------
(* One lemma for each group of actions.                                      *)
LEMMA RearrangingActs ==
  ASSUME Inv, Rearranging
  PROVE  Acts({})
<1>. lay \in Layout  BY DEF Inv, Types
<1>1. CASE Rearrange
  <2>1. Saved(SaveTab(lay)) \/ Unsaved(SaveTab(lay))  BY <1>1 DEF Rearrange
  <2>2. UNCHANGED Pty  BY <1>1 DEF Rearrange
  <2>3. Rests(lay, SaveTab(lay), {}, {})  BY FollowsSave
  <2>. QED  BY <2>1, <2>2, <2>3, RestedSame
<1>2. CASE Reorder  BY <1>2, ReorderActs
<1>3. ASSUME NEW p \in lay.panes, Extract(p) PROVE Acts({})
  <2> DEFINE new == [id |-> p, panes |-> {p}]
             v == IF lay.panes = {p} THEN [lay EXCEPT !.tabs = lay.tabs \ {lay.cur}]
                  ELSE SaveTab([lay EXCEPT !.panes = lay.panes \ {p}])
             r == Shown([v EXCEPT !.tabs = v.tabs \union {new}], new)
  <2>1. Saved(r) /\ UNCHANGED Pty  BY <1>3 DEF Extract
  <2>2. Rests(lay, r, {}, {})  BY FollowsExtract
  <2>. HIDE DEF r
  <2>. QED  BY <2>1, <2>2, RestedSame
<1>4. ASSUME NEW t \in lay.tabs, DropSplit(t) PROVE Acts({})
  <2> DEFINE r == SaveTab([lay EXCEPT !.tabs = lay.tabs \ {t}, !.panes = lay.panes \union t.panes])
  <2>1. Saved(r) /\ UNCHANGED Pty /\ t \in Others(lay)  BY <1>4 DEF DropSplit, Single, Others
  <2>2. Rests(lay, r, {}, {})  BY <2>1, FollowsDropSplit
  <2>. HIDE DEF r
  <2>. QED  BY <2>1, <2>2, RestedSame
<1>5. ASSUME NEW t \in lay.tabs, NEW p \in lay.panes, SwapFromTab(t, p) PROVE Acts({})
  <2> DEFINE u == [t EXCEPT !.panes = {p}]
             c == [lay.cur EXCEPT !.panes = (lay.panes \ {p}) \union t.panes]
             r == Shown([lay EXCEPT !.tabs = (lay.tabs \ {t, lay.cur}) \union {u, c}], c)
  <2>1. Saved(r) /\ UNCHANGED Pty /\ t \in Others(lay)  BY <1>5 DEF SwapFromTab, Single, Others
  <2>2. Rests(lay, r, {}, {})  BY <2>1, FollowsSwap
  <2>. HIDE DEF r
  <2>. QED  BY <2>1, <2>2, RestedSame
<1>. QED  BY <1>1, <1>2, <1>3, <1>4, <1>5 DEF Rearranging

LEMMA SwitchingActs ==
  ASSUME Inv, Switching
  PROVE  Acts({})
<1>. lay \in Layout  BY DEF Inv, Types
<1>1. ASSUME NEW t \in lay.tabs, SwitchTab(t) PROVE Acts({})
  <2> DEFINE r == Shown(SaveTab(lay), t)
  <2>1. Unsaved(r) /\ UNCHANGED Pty /\ t \in lay.tabs \ {lay.cur}  BY <1>1 DEF SwitchTab
  <2>2. Rests(lay, r, {}, {})  BY <2>1, FollowsSwitchTab
  <2>. HIDE DEF r
  <2>. QED  BY <2>1, <2>2, RestedSame
<1>2. ASSUME NEW n \in Nums, SwitchSpace(n) PROVE Acts({})
  <2>1. PICK r \in LoadSpace([SaveSpace(lay) EXCEPT !.ws = n]) : Unsaved(r)  BY <1>2 DEF SwitchSpace
  <2>2. UNCHANGED Pty /\ n \in DOMAIN lay.spaces  BY <1>2 DEF SwitchSpace
  <2>3. Rests(lay, r, {}, {})  BY <2>1, <2>2, FollowsSwitchSpace
  <2>. QED  BY <2>1, <2>2, <2>3, RestedSame
<1>. QED  BY <1>1, <1>2 DEF Switching

LEMMA OpeningActs ==
  ASSUME Inv, Opening
  PROVE  Acts({}) \/ Acts({next})
<1>. lay \in Layout /\ lay \in Raw  BY DEF Inv, Types, Layout
<1>1. CASE AddTab
  <2>1. SpawnPane /\ Saved(WithTab(lay))  BY <1>1 DEF AddTab
  <2>2. next \in Panes  BY <2>1, LayoutAssumption DEF Inv, Types, SpawnPane, Panes
  <2>3. Rests(lay, WithTab(lay), {next}, {})  BY <2>2, FollowsWithTab
  <2>4. next \in WithTab(lay).panes /\ WithTab(lay).ws = lay.ws
    <3> DEFINE new == [id |-> next, panes |-> {next}]  u == [SaveTab(lay) EXCEPT !.tabs = SaveTab(lay).tabs \union {new}]
    <3>1. new.panes = {next} /\ new \in Tab  BY <2>2 DEF Tab
    <3>2. WithTab(lay) = Shown(u, new)  BY DEF WithTab
    <3>3. SaveTab(lay) \in Raw /\ SaveTab(lay).ws = lay.ws /\ SaveTab(lay).spaces = lay.spaces
          /\ lay.ws \in DOMAIN lay.spaces
      BY SaveTabIs DEF Layout, Framed
    <3>. HIDE DEF new
    <3>4. u \in Raw /\ u.ws = lay.ws /\ u.spaces = lay.spaces /\ new \in u.tabs  BY <3>1, <3>3 DEF Raw
    <3>. HIDE DEF u
    <3>5. Shown(u, new).ws = u.ws /\ Shown(u, new).panes = new.panes  BY <3>3, <3>4, ShownIs
    <3>. QED  BY <3>1, <3>2, <3>4, <3>5
  <2>. QED  BY <2>1, <2>3, <2>4, SpawnedActs
<1>2. CASE AddEditorTab  BY <1>2, AddEditorTabActs
<1>3. CASE Split
  <2> DEFINE ps == lay.panes \union {next}  s == [lay EXCEPT !.panes = ps]
  <2>1. SpawnPane /\ next \in Panes  BY <1>3, LayoutAssumption DEF Split, Inv, Types, SpawnPane, Panes
  <2>2. lay.tabs # {} /\ lay.panes \subseteq Panes  BY <1>3, RawIs DEF Split, Layout, Framed
  <2>3. s.panes = ps /\ s.ws = lay.ws /\ s.spaces = lay.spaces /\ s.cur = lay.cur /\ s \in Layout
    <3>1. ps \in SUBSET Panes  BY <2>1, <2>2
    <3>. HIDE DEF ps
    <3>. QED  BY <2>2, <3>1, RepanedIs
  <2>4. Rests(lay, s, {next}, {})
    <3>1. ps \in SUBSET Panes /\ ps \subseteq lay.panes \union {next}  BY <2>1, <2>2
    <3>2. lay.panes \ ps = {} /\ {lay.ws} \X {} = {}  OBVIOUS
    <3>. HIDE DEF ps
    <3>3. Follows(lay, s, {next}) /\ Keeps(lay, s, {lay.ws} \X (lay.panes \ ps))  BY <2>2, <3>1, FollowsRepaned
    <3>4. Behind(lay) => Behind(s)  BY <2>3 DEF Behind, ps
    <3>5. Stores(lay, s)  BY <2>3 DEF Stores
    <3>. QED  BY <3>2, <3>3, <3>4, <3>5 DEF Rests
  <2>5. Saved(s) \/ (lay' = s /\ odd' = odd \union {"unsaved"} /\ UNCHANGED file)  BY <1>3 DEF Split
  <2>6. next \in s.panes  BY <2>3
  <2>. HIDE DEF s
  <2>. QED  BY <2>1, <2>3, <2>4, <2>5, <2>6, SpawnedActs
<1>4. CASE AddSpace
  <2> DEFINE num == 1 + Max(DOMAIN lay.spaces)
             r == Emptied([With(SaveSpace(lay), num, {}) EXCEPT !.ws = num])
  <2>1. num <= MaxSpaces /\ Saved(r) /\ UNCHANGED Pty  BY <1>4 DEF AddSpace
  <2>2. num \in Nums \ DOMAIN lay.spaces
    <3>1. DOMAIN lay.spaces \subseteq Nums /\ lay.ws \in DOMAIN lay.spaces  BY RawIs, SpacesAre DEF Layout, Framed
    <3>2. DOMAIN lay.spaces \in SUBSET (0 .. MaxSpaces) /\ MaxSpaces \in Nat
      BY <3>1, LayoutAssumption DEF Nums
    <3>3. Max(DOMAIN lay.spaces) \in DOMAIN lay.spaces /\ \A m \in DOMAIN lay.spaces : Max(DOMAIN lay.spaces) >= m
      BY <3>1, <3>2, MaxBounds
    <3>4. num \in Nums  BY <2>1, <3>1, <3>2, <3>3 DEF Nums
    <3>5. num \notin DOMAIN lay.spaces  BY <3>1, <3>3 DEF Nums
    <3>. QED  BY <3>4, <3>5
  <2>. HIDE DEF num
  <2>3. Rests(lay, r, {}, {})  BY <2>2, FollowsAddSpace
  <2>. HIDE DEF r
  <2>. QED  BY <2>1, <2>3, RestedSame
<1>. QED  BY <1>1, <1>2, <1>3, <1>4 DEF Opening

LEMMA CloseTabActs ==
  ASSUME Inv, NEW t \in lay.tabs, CloseTab(t)
  PROVE  Acts({})
<1> DEFINE v == [lay EXCEPT !.tabs = lay.tabs \ {t}]
           ps == IF t = lay.cur THEN lay.panes ELSE t.panes
<1>. lay \in Layout  BY DEF Inv, Types
<1>1. PICK r \in IF v.tabs = {} THEN {Emptied(v)}
                 ELSE IF t = lay.cur THEN {Shown(v, u) : u \in v.tabs} ELSE {v} :
           RemoveAndSave({lay.ws} \X ps, r)
  BY DEF CloseTab
<1>2. Rests(lay, r, {}, {lay.ws} \X ps)  BY FollowsCloseTab
<1>. QED  BY <1>1, <1>2, Removed

LEMMA ClosingActs ==
  ASSUME Inv, Closing
  PROVE  Acts({})
<1>. lay \in Layout  BY DEF Inv, Types
<1>1. ASSUME NEW t \in lay.tabs, CloseTab(t) PROVE Acts({})  BY <1>1, CloseTabActs
<1>2. ASSUME NEW p \in lay.panes, ClosePane(p) PROVE Acts({})
  <2> DEFINE ps == lay.panes \ {p}  s == SaveTab([lay EXCEPT !.panes = ps])
  <2>1. lay.tabs # {} /\ lay.cur \in lay.tabs /\ lay.panes \subseteq Panes
    BY RawIs, TabsAre DEF Layout, Framed
  <2>2. CASE lay.panes = {p}
    <3>1. CloseTab(lay.cur)  BY <1>2, <2>2 DEF ClosePane
    <3>. QED  BY <2>1, <3>1, CloseTabActs
  <2>3. CASE lay.panes # {p}
    <3>1. PICK t \in s.tabs : RemoveAndSave({<<lay.ws, p>>}, Shown(s, t))  BY <1>2, <2>3 DEF ClosePane
    <3>2. Rests(lay, Shown(s, t), {}, {lay.ws} \X (lay.panes \ ps))  BY <2>1, FollowsRepanedSave
    <3>3. {lay.ws} \X (lay.panes \ ps) = {<<lay.ws, p>>}
      <4>1. lay.panes \ ps = {p}  OBVIOUS
      <4>. QED  BY <4>1
    <3>. HIDE DEF s, ps
    <3>. QED  BY <3>1, <3>2, <3>3, Removed
  <2>. QED  BY <2>2, <2>3
<1>3. ASSUME NEW n \in Nums, RemoveSpace(n) PROVE Acts({})
  <2> DEFINE t == SaveSpace(lay)  left == [m \in DOMAIN t.spaces \ {n} |-> t.spaces[m]]
  <2>1. PICK ws \in IF n = lay.ws THEN DOMAIN left ELSE {lay.ws} :
          \E s \in LoadSpace([t EXCEPT !.spaces = left, !.ws = ws]) : RemoveAndSave({n} \X PanesOf(t.spaces[n]), s)
    BY <1>3 DEF RemoveSpace
  <2>2. PICK s \in LoadSpace([t EXCEPT !.spaces = left, !.ws = ws]) : RemoveAndSave({n} \X PanesOf(t.spaces[n]), s)
    BY <2>1
  <2>3. ws \in DOMAIN left
    <3>1. lay.ws \in DOMAIN t.spaces  BY SaveSpaceIs DEF Whole
    <3>. QED  BY <2>1, <3>1
  <2>4. Rests(lay, s, {}, {n} \X PanesOf(Whole(lay)[n]))
    <3>1. n \in DOMAIN Whole(lay)  BY <1>3 DEF RemoveSpace, Whole
    <3>. QED  BY <2>2, <2>3, <3>1, FollowsRemoveSpace
  <2>5. {n} \X PanesOf(t.spaces[n]) = {n} \X PanesOf(Whole(lay)[n])  BY DEF Whole
  <2>. QED  BY <2>2, <2>4, <2>5, Removed
<1>4. ASSUME NEW n \in Nums, KillWorkspace(n) PROVE Acts({})
  <2> DEFINE q == IF n = lay.ws THEN Emptied(lay) ELSE lay
  <2>1. n \in DOMAIN lay.spaces /\ RemoveAndSave({n} \X PanesOf(SaveSpace(lay).spaces[n]), With(q, n, {}))
    BY <1>4 DEF KillWorkspace
  <2>2. Rests(lay, With(q, n, {}), {}, {n} \X PanesOf(Whole(lay)[n]))  BY <2>1, FollowsKillWorkspace
  <2>3. {n} \X PanesOf(SaveSpace(lay).spaces[n]) = {n} \X PanesOf(Whole(lay)[n])  BY DEF Whole
  <2>. HIDE DEF q
  <2>. QED  BY <2>1, <2>2, <2>3, Removed
<1>5. ASSUME NEW n \in Nums, KillAgents(n) PROVE Acts({})
  <2>1. PICK ps \in SUBSET (PanesOf(SaveSpace(lay).spaces[n]) \ editors) \ {{}} :
          \E s \in Prune(lay, Panes \ ps) : RemoveAndSave({n} \X ps, s)
    BY <1>5 DEF KillAgents
  <2>2. PICK s \in Prune(lay, Panes \ ps) : RemoveAndSave({n} \X ps, s)  BY <2>1
  <2> DEFINE gone == {k \in Keyed(Whole(lay)) : k[2] \notin Panes \ ps}
  <2>3. Rests(lay, s, {}, gone)  BY <2>2, FollowsPrune
  <2>4. ASSUME Sound(lay) PROVE gone = {n} \X ps
    <3>1. Whole(lay) \in Spaces /\ n \in DOMAIN Whole(lay) /\ ps \subseteq PanesOf(Whole(lay)[n])
      BY <1>5, <2>1, SaveSpaceIs DEF KillAgents, Whole
    <3>2. \A p \in ps : <<n, p>> \in Keyed(Whole(lay)) /\ p \in Panes  BY <3>1, KeysOf
    <3>3. \A k \in Keyed(Whole(lay)) : k[2] \in Panes  BY <3>1, KeysOf DEF Keys
    <3>4. \A j, k \in Keyed(Whole(lay)) : j[2] = k[2] => j = k  BY <2>4, OnceKeys DEF Sound
    <3>5. ASSUME NEW k \in gone PROVE k \in {n} \X ps
      <4>1. k \in Keyed(Whole(lay)) /\ k[2] \in ps  BY <3>3, <3>5
      <4>2. <<n, k[2]>> \in Keyed(Whole(lay)) /\ <<n, k[2]>>[2] = k[2]  BY <3>2, <4>1
      <4>3. k = <<n, k[2]>>  BY <3>4, <4>1, <4>2
      <4>. QED  BY <4>1, <4>3
    <3>6. ASSUME NEW p \in ps PROVE <<n, p>> \in gone
      <4>1. <<n, p>>[2] = p  OBVIOUS
      <4>. QED  BY <3>2, <3>6, <4>1
    <3>. QED  BY <3>5, <3>6
  <2>. HIDE DEF gone
  <2>5. Keeps(lay, s, {n} \X ps)  BY <2>3, <2>4, KeepsWhen DEF Rests
  <2>6. Rests(lay, s, {}, {n} \X ps)  BY <2>3, <2>5 DEF Rests
  <2>. QED  BY <2>2, <2>6, Removed
<1>6. CASE KillAll
  <2> DEFINE gone == Placed(lay) \union {k \in mapped : k[2] \in terminals}
  <2>1. RemoveAndSave(gone, AllEmptied)  BY <1>6 DEF KillAll
  <2>2. Keyed(Whole(lay)) \subseteq gone  BY PlacedIs
  <2>. HIDE DEF gone
  <2>3. Rests(lay, AllEmptied, {}, gone)  BY <2>2, FollowsAllEmptied
  <2>. QED  BY <2>1, <2>3, Removed
<1>7. ASSUME NEW k \in shells, KillSession(k) PROVE Acts({})  BY <1>7, KillSessionActs
<1>. QED  BY <1>1, <1>2, <1>3, <1>4, <1>5, <1>6, <1>7 DEF Closing

-----------------------------------------------------------------------------
(* The steps that leave the layout alone.                                    *)
LEMMA StayOrder ==
  ASSUME Inv, lay' = lay, file' = file, next' = next, "mixed" \notin odd' => "mixed" \notin odd,
         Tracked' \subseteq Tracked \union Placed(lay)
  PROVE  InOrder'
<1>1. ASSUME "mixed" \notin odd'
      PROVE  Sound(lay) /\ Behind(lay) /\ Numbered(lay, next) /\ AtHome(Tracked', lay, next) /\ Once(file.spaces)
  <2>1. Sound(lay) /\ Behind(lay) /\ Numbered(lay, next) /\ AtHome(Tracked, lay, next) /\ Once(file.spaces)
    BY <1>1 DEF Inv, InOrder
  <2>2. \A j, k \in Keyed(Whole(lay)) : j[2] = k[2] => j = k  BY <2>1, OnceKeys DEF Sound
  <2>3. \A k \in Keyed(Whole(lay)) : k[2] < next  BY <2>1 DEF Numbered
  <2>4. Tracked' \subseteq Tracked \union Keyed(Whole(lay))  BY PlacedIs
  <2>5. AtHome(Tracked', lay, next)  BY <2>1, <2>2, <2>3, <2>4 DEF AtHome
  <2>. QED  BY <2>1, <2>5
<1>2. "mixed" \notin odd' => AtHome(Tracked', lay', next')  BY <1>1
<1>. HIDE DEF Tracked
<1>. QED  BY <1>1, <1>2 DEF InOrder

LEMMA StaySafe ==
  ASSUME Safe, lay' = lay, file' = file, editors' = editors, odd \subseteq odd'
  PROVE  Safe'
BY KeptSafe

LEMMA BackgroundInv ==
  ASSUME Inv, up, Background
  PROVE  Inv' /\ lay' = lay /\ next' = next
<1>. Types /\ lay \in Layout /\ lay \in Raw  BY DEF Inv, Types, Layout
<1>0. lay.spaces \in Spaces /\ lay.ws \in Nums /\ lay.panes \subseteq Panes /\ Whole(lay) \in Spaces
  BY RawIs, SaveSpaceIs
<1>00. Fine => Tied /\ Safe  BY DEF Inv, Reach
<1>000. odd \intersect {"failed", "skipped", "ghost", "mixed"} = {} =>
           \A k \in Placed(lay) : k[2] \in terminals \union editors \/ k \in Due
  BY DEF Inv, Covered
<1>1. CASE Collect
  <2>1. PICK f \in IF lay.panes = {} THEN {0} ELSE lay.panes :
          LET left == {k \in Keyed(lay.spaces) : k[2] # f}
          IN  /\ sweep' = [at |-> IF left = {} THEN "done" ELSE "run", left |-> left]
              /\ odd' = odd \union (IF f \in Panes \ (terminals \union editors) THEN {"skipped"} ELSE {})
    BY <1>1 DEF Collect
  <2> DEFINE left == {k \in Keyed(lay.spaces) : k[2] # f}
  <2>2. left \subseteq Keys /\ left \subseteq Keyed(lay.spaces) /\ \A k \in Keyed(lay.spaces) : k \in left \/ k[2] = f
    BY <1>0, KeysOf
  <2>3. sweep' = [at |-> IF left = {} THEN "done" ELSE "run", left |-> left]  BY <2>1
  <2>. HIDE DEF left
  <2>4. sweep' \in Sweep /\ sweep'.left = left /\ sweep'.at # "wait" /\ (sweep'.at = "done" => sweep'.left = {})
    BY <2>2, <2>3 DEF Sweep
  <2>5. odd' \subseteq Odd /\ odd \subseteq odd'  BY <2>1 DEF Types, Odd
  <2>6. UNCHANGED <<lay, next, terminals, editors, mapped, shells, file, synced, run, up>>  BY <1>1 DEF Collect
  <2>7. Types'  BY <2>4, <2>5, <2>6 DEF Types, FileOK, Layout
  <2>8. InOrder'
    <3>1. Tracked' \subseteq Tracked \union Placed(lay)  BY <2>2, <2>4, <2>6 DEF Tracked
    <3>. QED  BY <2>5, <2>6, <3>1, StayOrder
  <2>9. Reach'
    <3>1. ASSUME Fine' PROVE Tied' /\ Safe'
      <4>1. Tied /\ Safe  BY <1>00, <2>5, <3>1 DEF Fine
      <4>2. Tied'  BY <2>6, <4>1 DEF Tied
      <4>. QED  BY <2>5, <2>6, <4>1, <4>2, StaySafe
    <3>. QED  BY <2>6, <3>1 DEF Reach
  <2>10. Covered'
    <3>1. ASSUME odd' \intersect {"failed", "skipped", "ghost", "mixed"} = {}, NEW k \in Placed(lay),
                 k[2] \notin terminals \union editors
          PROVE  k \in left
      <4>1. k \in Due  BY <1>000, <2>5, <3>1
      <4>2. k \in Keyed(lay.spaces)  BY <1>1, <4>1 DEF Due, Collect
      <4>3. k[2] \in Panes  BY <1>0, <4>2, KeysOf DEF Keys
      <4>4. f \notin Panes \ (terminals \union editors)  BY <2>1, <3>1
      <4>. QED  BY <2>2, <3>1, <4>2, <4>3, <4>4
    <3>2. Due' = left  BY <2>4 DEF Due
    <3>. QED  BY <2>6, <3>1, <3>2 DEF Covered
  <2>. QED  BY <2>6, <2>7, <2>8, <2>9, <2>10 DEF Inv
<1>2. ASSUME NEW k \in sweep.left, AttachOne(k) PROVE Inv' /\ lay' = lay /\ next' = next
  <2>1. sweep.left \subseteq Keys /\ k \in Keys /\ k[2] \in Panes  BY DEF Types, Sweep, Keys
  <2>2. sweep' = [at |-> IF sweep.left = {k} THEN "done" ELSE "run", left |-> sweep.left \ {k}]
    BY <1>2 DEF AttachOne
  <2>3. /\ sweep' \in Sweep /\ sweep'.left = sweep.left \ {k} /\ sweep'.at # "wait"
        /\ sweep'.at = "done" => sweep'.left = {}
    BY <2>1, <2>2 DEF Sweep
  <2>4. /\ terminals' \subseteq Panes /\ mapped' \subseteq Keys /\ shells' \subseteq Keys
        /\ odd' \subseteq Odd /\ odd \subseteq odd'
    BY <1>2, <2>1 DEF AttachOne, Attach, Types, Odd
  <2>5. UNCHANGED <<lay, next, editors, file, synced, run, up>>  BY <1>2 DEF AttachOne
  <2>6. Types'  BY <2>3, <2>4, <2>5 DEF Types, FileOK, Layout
  <2>7. InOrder'
    <3>1. mapped' \subseteq mapped \union sweep.left  BY <1>2 DEF AttachOne, Attach
    <3>2. Tracked' \subseteq Tracked \union Placed(lay)  BY <2>3, <2>5, <3>1 DEF Tracked
    <3>. QED  BY <2>4, <2>5, <3>2, StayOrder
  <2>8. Reach'
    <3>1. ASSUME Fine' PROVE Tied' /\ Safe'
      <4>1. Tied /\ Safe /\ "raced" \notin odd'  BY <1>00, <2>4, <3>1 DEF Fine
      <4>2. \/ mapped' = mapped /\ shells' = shells /\ terminals' = terminals
            \/ /\ mapped' = mapped \union {k} /\ shells' = shells \union {k} /\ terminals' = terminals \union {k[2]}
               /\ k[2] \notin editors /\ k \in Placed(lay)
        BY <1>2, <4>1 DEF AttachOne, Attach
      <4>3. Tied'  BY <2>5, <4>1, <4>2 DEF Tied
      <4>. QED  BY <2>4, <2>5, <4>1, <4>3, StaySafe
    <3>. QED  BY <2>5, <3>1 DEF Reach
  <2>9. Covered'
    <3>1. ASSUME odd' \intersect {"failed", "skipped", "ghost", "mixed"} = {}, NEW j \in Placed(lay),
                 j[2] \notin terminals' \union editors
          PROVE  j \in sweep.left \ {k}
      <4>1. terminals \subseteq terminals'  BY <1>2 DEF AttachOne
      <4>2. j \in Due  BY <1>000, <2>4, <3>1, <4>1
      <4>3. j \in sweep.left  BY <1>2, <4>2 DEF Due, AttachOne
      <4>4. k[2] \in terminals' \union editors  BY <1>2, <3>1 DEF AttachOne
      <4>. QED  BY <3>1, <4>3, <4>4
    <3>2. Due' = sweep.left \ {k}  BY <2>3 DEF Due
    <3>. QED  BY <2>5, <3>1, <3>2 DEF Covered
  <2>. QED  BY <2>5, <2>6, <2>7, <2>8, <2>9 DEF Inv
<1>3. CASE DeferredSpawn
  <2> DEFINE ps == lay.panes \ (terminals \union editors)
  <2>1. PICK ok \in SUBSET ps : Attach({lay.ws} \X ok)  BY <1>3 DEF DeferredSpawn
  <2> DEFINE new == {lay.ws} \X ok
  <2>2. new \subseteq Keys  BY <1>0, <2>1 DEF Keys
  <2>3. mapped' = mapped \union new /\ shells' = shells \union new  BY <2>1 DEF Attach
  <2>4. terminals' = terminals \union ps /\ synced' = TRUE  BY <1>3 DEF DeferredSpawn
  <2>5. UNCHANGED <<lay, next, editors, file, sweep, run, up, odd>>  BY <1>3 DEF DeferredSpawn
  <2>6. new \subseteq Placed(lay) /\ \A k \in new : k[2] \in ps
    <3>1. {lay.ws} \X lay.panes \subseteq Placed(lay)  BY InView, PlacedIs
    <3>. QED  BY <2>1, <3>1
  <2>7. ps \subseteq Panes /\ ps \intersect editors = {}  BY <1>0
  <2>. HIDE DEF ps, new
  <2>8. Types'  BY <2>2, <2>3, <2>4, <2>5, <2>7 DEF Types, FileOK, Layout
  <2>9. InOrder'
    <3>1. Tracked' \subseteq Tracked \union Placed(lay)  BY <2>3, <2>5, <2>6 DEF Tracked
    <3>. QED  BY <2>5, <3>1, StayOrder
  <2>10. Reach'
    <3>1. ASSUME Fine PROVE Tied' /\ Safe'
      <4>1. Tied /\ Safe  BY <1>00, <3>1
      <4>2. Tied'  BY <2>3, <2>4, <2>5, <2>6, <2>7, <4>1 DEF Tied
      <4>. QED  BY <2>5, <4>1, <4>2, StaySafe
    <3>. QED  BY <2>5, <3>1 DEF Reach, Fine
  <2>11. Covered'
    <3>1. Due' = Due  BY <2>5 DEF Due
    <3>2. terminals \subseteq terminals'  BY <2>4
    <3>. QED  BY <1>000, <2>5, <3>1, <3>2 DEF Covered
  <2>. QED  BY <2>5, <2>8, <2>9, <2>10, <2>11 DEF Inv
<1>. QED  BY <1>1, <1>2, <1>3 DEF Background

LEMMA ExitsShellInv ==
  ASSUME Inv, NEW k \in shells, ShellExits(k)
  PROVE  Inv' /\ lay' = lay
<1>1. /\ UNCHANGED <<lay, next, terminals, editors, mapped, file, sweep, synced, run, up, odd>>
      /\ shells' \subseteq shells
  BY DEF ShellExits
<1>2. Types'  BY <1>1 DEF Inv, Types, FileOK
<1>3. InOrder'
  <2>1. Tracked' \subseteq Tracked \union Placed(lay)  BY <1>1 DEF Tracked
  <2>. QED  BY <1>1, <2>1, StayOrder
<1>4. Begun' = Begun  BY <1>1, BegunIsFrom, BegunNext
<1>5. Reach'
  <2>1. ASSUME Fine, up PROVE Tied' /\ Safe'
    <3>1. Tied /\ Safe  BY <2>1 DEF Inv, Reach
    <3>2. Tied'  BY <1>1, <3>1 DEF Tied
    <3>. QED  BY <1>1, <3>1, <3>2, StaySafe
  <2>2. ASSUME Fine, ~up PROVE \A b \in Begun : shells' \subseteq Placed(b)  BY <1>1, <2>2 DEF Inv, Reach
  <2>. QED  BY <1>1, <1>4, <2>1, <2>2 DEF Reach, Fine
<1>6. Covered'
  <2>1. Due' = Due  BY <1>1 DEF Due
  <2>. QED  BY <1>1, <2>1 DEF Inv, Covered
<1>. QED  BY <1>1, <1>2, <1>3, <1>5, <1>6 DEF Inv

-----------------------------------------------------------------------------
(* The steps that begin or end a run.                                        *)
LEMMA StartInv ==
  ASSUME Inv, Start
  PROVE  Inv'
<1>. Types  BY DEF Inv
<1>1. PICK s \in Begun : \E p \in s.panes :
        /\ p <= MaxPane
        /\ lay' = s /\ next' = Max({2, 1 + Top(SaveSpace(s).spaces)})
        /\ terminals' = {p}
        /\ Attach({<<s.ws, p>>}) \/ UNCHANGED <<mapped, shells>>
  BY DEF Start
<1>2. PICK p \in s.panes :
        /\ p <= MaxPane
        /\ lay' = s /\ next' = Max({2, 1 + Top(SaveSpace(s).spaces)})
        /\ terminals' = {p}
        /\ Attach({<<s.ws, p>>}) \/ UNCHANGED <<mapped, shells>>
  BY <1>1
<1>3. /\ UNCHANGED <<editors, file, odd>> /\ sweep' = Waiting /\ synced' = FALSE
      /\ ~up /\ up' = TRUE /\ run < Runs /\ run' = run + 1
  BY DEF Start
<1>4. s \in Layout /\ Behind(s) /\ (Once(file.spaces) => Sound(s))  BY <1>2, BegunIs DEF Types
<1>5. Whole(s) \in Spaces /\ s.ws \in Nums /\ p \in Panes /\ s.panes \subseteq Panes
  BY <1>4, SaveSpaceIs, RawIs DEF Layout
<1> DEFINE top == Top(Whole(s))
<1>6. top \in 0 .. MaxPane /\ \A k \in Keyed(Whole(s)) : k[2] <= top /\ k[2] \in Panes  BY <1>5, TopIs, KeysOf DEF Keys
<1>7. next' \in 1 .. MaxPane + 1 /\ next' >= 1 + top
  <2>1. MaxPane \in Nat \ {0}  BY LayoutAssumption
  <2>2. next' = Max({2, 1 + top})  BY <1>2 DEF Whole
  <2>. HIDE DEF top
  <2>3. {2, 1 + top} \in SUBSET (0 .. MaxPane + 1) /\ MaxPane + 1 \in Nat  BY <1>6, <2>1
  <2>4. Max({2, 1 + top}) \in {2, 1 + top} /\ \A y \in {2, 1 + top} : Max({2, 1 + top}) >= y  BY <2>3, MaxBounds
  <2>. QED  BY <1>6, <2>1, <2>2, <2>4
<1>8. Numbered(s, next')
  <2>. HIDE DEF top
  <2>1. \A k \in Keyed(Whole(s)) : k[2] < next'  BY <1>6, <1>7 DEF Panes
  <2>. QED  BY <2>1 DEF Numbered
<1> DEFINE new == <<s.ws, p>>
<1>9. new \in Keys /\ new[2] = p /\ new \in Keyed(Whole(s))
  <2>1. {s.ws} \X s.panes \subseteq Keyed(Whole(s))  BY <1>4, InView
  <2>. QED  BY <1>5, <2>1 DEF Keys
<1>10. /\ mapped = {} /\ editors = {}
       /\ mapped' \subseteq {new} /\ shells' \subseteq shells \union {new}
  BY <1>2, <1>3 DEF Attach, Types
<1>. HIDE DEF new, top
<1>11. sweep' \in Sweep /\ sweep'.at = "wait" /\ sweep'.left = {} /\ run' \in 0 .. Runs
  <2>1. sweep' \in Sweep /\ sweep'.at = "wait" /\ sweep'.left = {}  BY <1>3 DEF Waiting, Sweep
  <2>2. run' \in 0 .. Runs  BY <1>3, LayoutAssumption DEF Types
  <2>. QED  BY <2>1, <2>2
<1>12. Types'
  BY <1>2, <1>3, <1>4, <1>5, <1>7, <1>9, <1>10, <1>11 DEF Types, FileOK
<1>13. /\ Placed(s) = Keyed(Whole(s))
       /\ \A b \in Begun : Placed(b) = Placed(s)
       /\ IF s = Seed THEN Keyed(s.spaces) = {} /\ s.panes = {1} /\ \A k \in Placed(s) : k[2] = 1
          ELSE Keyed(s.spaces) = Placed(s)
  <2>1. s \in BegunFrom(file) /\ FileOK(file)  BY <1>1, BegunIsFrom DEF Types
  <2>. QED  BY <2>1, BegunPlaces, BegunIsFrom, PlacedIs
<1>14. InOrder'
  <2>1. Tracked' \subseteq Keyed(Whole(s))
    <3>1. Tracked' = mapped' \union {} \union Keyed(s.spaces)  BY <1>2, <1>11 DEF Tracked
    <3>. QED  BY <1>9, <1>10, <1>13, <3>1
  <2>2. ASSUME "mixed" \notin odd' PROVE Sound(s) /\ Once(file'.spaces) /\ AtHome(Tracked', s, next')
    <3>1. Once(file.spaces) /\ Sound(s)  BY <1>3, <1>4, <2>2 DEF Inv, InOrder
    <3>2. \A j, k \in Keyed(Whole(s)) : j[2] = k[2] => j = k  BY <3>1, OnceKeys DEF Sound
    <3>3. \A k \in Keyed(Whole(s)) : k[2] < next'  BY <1>8 DEF Numbered
    <3>4. AtHome(Tracked', s, next')  BY <2>1, <3>2, <3>3 DEF AtHome
    <3>. QED  BY <1>3, <3>1, <3>4
  <2>. HIDE DEF Tracked
  <2>. QED  BY <1>2, <1>4, <1>8, <2>2 DEF InOrder
<1>15. Begun' = Begun  BY <1>3, BegunIsFrom, BegunNext
<1>16. ASSUME Fine' PROVE Tied' /\ Safe'
  <2>1. \A b \in Begun : shells \subseteq Placed(b)  BY <1>3, <1>16 DEF Inv, Reach, Fine
  <2>2. shells' \union mapped' \subseteq Placed(lay')  BY <1>1, <1>2, <1>9, <1>10, <1>13, <2>1
  <2>3. Tied'  BY <1>2, <1>3, <1>9, <1>10, <2>2 DEF Tied
  <2>4. Safe'
    <3>1. \A b \in Begun' : \A k \in Placed(lay') : k \in Placed(b)  BY <1>2, <1>13, <1>15
    <3>. QED  BY <3>1 DEF Safe
  <2>. QED  BY <2>3, <2>4
<1>17. Reach'  BY <1>3, <1>16 DEF Reach
<1>18. Covered'
  <2>1. Due' = Keyed(s.spaces)  BY <1>2, <1>11 DEF Due
  <2>2. \A k \in Placed(s) : k[2] \in terminals' \/ k \in Keyed(s.spaces)  BY <1>2, <1>13
  <2>. QED  BY <1>2, <2>1, <2>2 DEF Covered
<1>. QED  BY <1>12, <1>14, <1>17, <1>18 DEF Inv

(* The end of a run, however it comes: what has to be shown of the file.     *)
LEMMA GoneInv ==
  ASSUME Inv, up, Gone, shells' \subseteq shells, odd' \subseteq Odd, odd \ {"unsaved"} \subseteq odd',
         FileOK(file'), Once(file.spaces) /\ Sound(lay) => Once(file'.spaces),
         Tied /\ Safe /\ Fine' => \A b \in Begun' : shells' \subseteq Placed(b)
  PROVE  Inv'
<1>1. 2 \in 1 .. MaxPane + 1  BY LayoutAssumption
<1>2. Waiting \in Sweep /\ Waiting.at = "wait" /\ Waiting.left = {}  BY DEF Waiting, Sweep
<1>3. Types'  BY <1>1, <1>2, SeedIs DEF Gone, Inv, Types
<1>4. InOrder'
  <2>1. Tracked' = {}  BY <1>2, SeedIs DEF Gone, Tracked
  <2>2. AtHome({}, Seed, 2)  BY DEF AtHome
  <2>3. "mixed" \notin odd' => Sound(lay) /\ Once(file.spaces)  BY DEF Inv, InOrder
  <2>4. lay' = Seed /\ next' = 2  BY DEF Gone
  <2>. HIDE DEF Tracked
  <2>. QED  BY <2>1, <2>2, <2>3, <2>4, SeedIs DEF InOrder
<1>5. Reach'
  <2>1. Fine' => Tied /\ Safe  BY DEF Inv, Reach, Fine
  <2>. QED  BY <2>1 DEF Gone, Reach
<1>6. Covered'  BY DEF Gone, Covered
<1>. QED  BY <1>3, <1>4, <1>5, <1>6 DEF Inv

LEMMA ExitInv ==
  ASSUME Inv, up, Exit
  PROVE  Inv'
<1>. Types /\ lay \in Layout  BY DEF Inv, Types
<1>1. CASE CloseKeeping
  <2>1. PICK kept \in SUBSET {k[2] : k \in Placed(lay)} :
          LET keys == {k \in Placed(lay) : k[2] \notin kept}
          IN  /\ Gone
              /\ shells' = shells \ (keys \intersect mapped)
              /\ \E s \in Prune(lay, kept) : file' = Persisted(s, editors)
              /\ odd' = (odd \ {"unsaved"}) \union Leaked(keys)
    BY <1>1 DEF CloseKeeping
  <2>2. PICK s \in Prune(lay, kept) : file' = Persisted(s, editors)  BY <2>1
  <2>3. /\ s \in Layout /\ (Sound(lay) => Sound(s))
        /\ \A k : k \in Keyed(Whole(s)) <=> k \in Keyed(Whole(lay)) /\ k[2] \in kept
    BY <2>2, PruneIs, FollowsPrune
  <2>4. FileOK(file') /\ (Sound(lay) => Once(file'.spaces))  BY <2>2, <2>3, PersistedIs DEF Sound
  <2> DEFINE keys == {k \in Placed(lay) : k[2] \notin kept}
  <2>5. /\ Gone /\ shells' = shells \ (keys \intersect mapped)
        /\ odd' = (odd \ {"unsaved"}) \union Leaked(keys)
        /\ \A k \in Placed(lay) : k \in keys \/ k[2] \in kept
    BY <2>1
  <2>. HIDE DEF keys
  <2>6. odd' \subseteq Odd /\ odd \ {"unsaved"} \subseteq odd'  BY <2>5 DEF Leaked, Types, Odd
  <2>7. ASSUME Tied, Fine', NEW b \in Begun', NEW h \in shells' PROVE h \in Placed(b)
    <3>1. "leaked" \notin odd'  BY <2>7 DEF Fine
    <3>2. (keys \intersect shells) \ mapped = {}  BY <2>5, <3>1 DEF Leaked
    <3>3. h \in Placed(lay) /\ h[2] \notin editors  BY <2>5, <2>7 DEF Tied
    <3>4. h[2] \in kept  BY <2>5, <2>7, <3>2, <3>3
    <3>5. h \in Keyed(Whole(s))  BY <2>3, <3>3, <3>4, PlacedIs
    <3>6. editors \in SUBSET Panes  BY DEF Types
    <3>. QED  BY <2>2, <2>3, <2>7, <3>3, <3>5, <3>6, SavedPlaces
  <2>8. shells' \subseteq shells  BY <2>5
  <2>. QED  BY <2>4, <2>5, <2>6, <2>7, <2>8, GoneInv
<1>2. CASE CloseKilling
  <2>1. /\ Gone /\ shells' = shells \ {k \in mapped : k[2] \in terminals}
        /\ file' = Persisted(AllEmptied, {})
        /\ odd' = (odd \ {"unsaved"}) \union Leaked(Placed(lay))
    BY <1>2 DEF CloseKilling
  <2>2. odd' \subseteq Odd /\ odd \ {"unsaved"} \subseteq odd'  BY <2>1 DEF Leaked, Types, Odd
  <2>3. AllEmptied \in Layout /\ Whole(AllEmptied) = [n \in DOMAIN lay.spaces |-> {}]
    <3>1. Keyed(Whole(lay)) \subseteq Keyed(Whole(lay))  OBVIOUS
    <3>2. Rests(lay, AllEmptied, {}, Keyed(Whole(lay)))  BY <3>1, FollowsAllEmptied
    <3>. QED  BY <3>2, FollowsAllEmptied DEF Rests, Follows
  <2>4. Once(Whole(AllEmptied))
    <3> DEFINE f == [n \in DOMAIN lay.spaces |-> {}]
    <3>1. \A n \in DOMAIN f : f[n] = {}  OBVIOUS
    <3>. HIDE DEF f
    <3>2. Once(f)  BY <3>1 DEF Once, Apart, OnceIn, PanesOf
    <3>. QED  BY <2>3, <3>2 DEF f
  <2>5. FileOK(file') /\ Once(file'.spaces)  BY <2>1, <2>3, <2>4, PersistedIs
  <2>6. ASSUME Tied, Fine' PROVE shells' = {}
    <3>1. "leaked" \notin odd'  BY <2>6 DEF Fine
    <3>2. (Placed(lay) \intersect shells) \ mapped = {}  BY <2>1, <3>1 DEF Leaked
    <3>. QED  BY <2>1, <2>6, <3>2 DEF Tied
  <2>7. shells' \subseteq shells  BY <2>1
  <2>. QED  BY <2>1, <2>2, <2>5, <2>6, <2>7, GoneInv
<1>3. CASE Crash
  <2>1. /\ Gone /\ shells' = shells /\ file' = file
        /\ odd' = IF "unsaved" \in odd THEN (odd \ {"unsaved"}) \union {"lost"} ELSE odd
    BY <1>3 DEF Crash
  <2>2. odd' \subseteq Odd /\ odd \ {"unsaved"} \subseteq odd'  BY <2>1 DEF Types, Odd
  <2>3. ASSUME Tied, Safe, Fine', NEW b \in Begun' PROVE shells' \subseteq Placed(b)
    <3>1. "unsaved" \notin odd  BY <2>1, <2>3 DEF Fine
    <3>2. b \in Begun  BY <2>1, <2>3, BegunIsFrom, BegunNext
    <3>3. \A k \in Placed(lay) : k[2] \in editors \/ k \in Placed(b)  BY <2>3, <3>1, <3>2 DEF Safe
    <3>. QED  BY <2>1, <2>3, <3>3 DEF Tied
  <2>4. FileOK(file')  BY <2>1 DEF Types
  <2>. QED  BY <2>1, <2>2, <2>3, <2>4, GoneInv
<1>. QED  BY <1>1, <1>2, <1>3 DEF Exit

LEMMA UserInv ==
  ASSUME Inv, up, User
  PROVE  /\ Inv'
         /\ "mixed" \notin odd' => \A k \in Placed(lay') \ Placed(lay) : k[2] >= next
<1>1. Acts({}) \/ Acts({next})
  BY RearrangingActs, OpeningActs, ClosingActs, SwitchingActs DEF User
<1>2. PICK x : Acts(x)  BY <1>1
<1>3. sweep' = sweep /\ synced' = synced /\ run' = run /\ up' = up  BY DEF User, Life
<1>4. Grows(x) /\ PtyTypes' /\ Serves /\ Binds  BY <1>2 DEF Acts
<1>5. /\ InOrder'
      /\ "mixed" \notin odd' => \A k \in Placed(lay') \ Placed(lay) : k[2] >= next
  BY <1>3, <1>4, GrowsOrder
<1>6. /\ lay' \in Layout /\ FileOK(file') /\ next' \in 1 .. MaxPane + 1
      /\ odd' \subseteq Odd /\ odd \ {"unsaved"} \subseteq odd'
  BY <1>4, LayoutAssumption DEF Grows, Numbers, Inv, Types, Panes
<1>7. Types'  BY <1>3, <1>4, <1>6 DEF Inv, Types, PtyTypes
<1>8. Reach'
  <2>1. Fine' => Tied /\ Safe  BY <1>6 DEF Inv, Reach, Fine
  <2>. QED  BY <1>3, <1>4, <2>1 DEF Binds, Reach
<1>9. Covered'
  <2>1. SUFFICES ASSUME odd' \intersect {"failed", "skipped", "ghost", "mixed"} = {}, NEW k \in Placed(lay'),
                        k[2] \notin terminals' \union editors'
                 PROVE  k \in Due'
    BY DEF Covered
  <2>2. odd \intersect {"failed", "skipped", "ghost", "mixed"} = {}  BY <1>6, <2>1
  <2>3. k \in Placed(lay) /\ k[2] \notin terminals \union editors
        /\ Keyed(lay.spaces) \intersect Placed(lay') \subseteq Keyed(lay'.spaces)
    BY <1>4, <2>1 DEF Serves
  <2>4. k \in Due  BY <2>2, <2>3 DEF Inv, Covered
  <2>. QED  BY <1>3, <2>1, <2>3, <2>4 DEF Due
<1>. QED  BY <1>5, <1>7, <1>8, <1>9 DEF Inv

-----------------------------------------------------------------------------
LEMMA InitInv == Init => Inv
<1>. SUFFICES ASSUME Init PROVE Inv  OBVIOUS
<1>1. file.ws \in Nums /\ 2 \in 1 .. MaxPane + 1 /\ 0 \in 0 .. Runs  BY LayoutAssumption DEF Init, Nums
<1> DEFINE f == [n \in {} |-> {}]
<1>2. f \in [{} -> SUBSET Tab] /\ DOMAIN f = {}  OBVIOUS
<1>3. f \in Spaces  BY <1>2, SpacesMade
<1>4. file = [ws |-> 1, spaces |-> f]  BY DEF Init
<1>5. Once(f)  BY <1>2 DEF Once, Apart
<1>. HIDE DEF f
<1>6. FileOK(file) /\ file.spaces = f  BY <1>1, <1>2, <1>3, <1>4 DEF FileOK
<1>7. Waiting \in Sweep /\ Waiting.at = "wait" /\ Waiting.left = {}  BY DEF Waiting, Sweep
<1>8. Types  BY <1>1, <1>6, <1>7, SeedIs DEF Init, Types
<1>9. InOrder
  <2>1. Tracked = {}  BY <1>7, SeedIs DEF Init, Tracked
  <2>2. AtHome(Tracked, lay, next)  BY <2>1 DEF AtHome
  <2>3. lay = Seed /\ next = 2  BY DEF Init
  <2>. QED  BY <1>5, <1>6, <2>2, <2>3, SeedIs DEF InOrder
<1>10. Reach /\ Covered  BY DEF Init, Reach, Covered
<1>. QED  BY <1>8, <1>9, <1>10 DEF Inv

LEMMA StutterInv ==
  ASSUME Inv, UNCHANGED vars
  PROVE  Inv'
<1>1. /\ lay' = lay /\ next' = next /\ terminals' = terminals /\ editors' = editors /\ mapped' = mapped
      /\ shells' = shells /\ file' = file /\ sweep' = sweep /\ synced' = synced /\ run' = run /\ up' = up
      /\ odd' = odd
  BY DEF vars
<1>2. Types'  BY <1>1 DEF Inv, Types, FileOK
<1>3. InOrder'
  <2>1. Tracked' \subseteq Tracked \union Placed(lay)  BY <1>1 DEF Tracked
  <2>. QED  BY <1>1, <2>1, StayOrder
<1>4. Begun' = Begun  BY <1>1, BegunIsFrom, BegunNext
<1>5. Reach'
  <2>1. ASSUME Tied, Safe PROVE Tied' /\ Safe'
    <3>1. Tied'  BY <1>1, <2>1 DEF Tied
    <3>. QED  BY <1>1, <2>1, <3>1, StaySafe
  <2>. QED  BY <1>1, <1>4, <2>1 DEF Inv, Reach, Fine
<1>6. Covered'
  <2>1. Due' = Due  BY <1>1 DEF Due
  <2>. QED  BY <1>1, <2>1 DEF Inv, Covered
<1>. QED  BY <1>2, <1>3, <1>5, <1>6 DEF Inv

LEMMA NextInv == Inv /\ [Next]_vars => Inv'
<1>. SUFFICES ASSUME Inv, [Next]_vars PROVE Inv'  OBVIOUS
<1>1. CASE Start  BY <1>1, StartInv
<1>2. ASSUME NEW k \in shells, ShellExits(k) PROVE Inv'  BY <1>2, ExitsShellInv
<1>3. CASE up /\ User  BY <1>3, UserInv
<1>4. CASE up /\ Background  BY <1>4, BackgroundInv
<1>5. CASE up /\ Exit  BY <1>5, ExitInv
<1>6. CASE UNCHANGED vars  BY <1>6, StutterInv
<1>. QED  BY <1>1, <1>2, <1>3, <1>4, <1>5, <1>6 DEF Next

(* What the properties below follow from holds in every reachable state, for *)
(* any number of workspaces, panes and starts.                               *)
THEOREM AlwaysInv == Spec => []Inv
BY InitInv, NextInv, PTL DEF Spec

(* Every variable has its type; the copies of the layout agree about what is  *)
(* in view, and the file names an active workspace it holds.                 *)
THEOREM TypeCorrect == Spec => []TypeOK
<1>1. Inv => TypeOK
  <2>. SUFFICES ASSUME Inv PROVE TypeOK  OBVIOUS
  <2>1. lay \in Raw /\ Framed(lay) /\ Types  BY DEF Inv, Types, Layout
  <2>2. IsSpaces(lay.spaces) /\ lay.tabs \subseteq Tab /\ lay.panes \subseteq Panes  BY <2>1, RawIs, SpacesAre
  <2>3. DOMAIN lay = {"spaces", "ws", "tabs", "cur", "panes"}  BY <2>1 DEF Raw
  <2>4. IsLayout(lay)  BY <2>1, <2>2, <2>3 DEF IsLayout, Framed
  <2>5. IsSpaces(file.spaces) /\ file.ws \in Nums  BY <2>1, SpacesAre DEF Types, FileOK
  <2>. QED  BY <2>1, <2>4, <2>5 DEF Types, TypeOK
<1>. QED  BY <1>1, AlwaysInv, PTL

(* A pane is in one tab of one workspace, through every split, drag, close,   *)
(* switch, kill, crash and restart, unless a reorder selected another tab of  *)
(* the same name.                                                            *)
THEOREM PaneHasOnePlace == Spec => []PlacedOnce
<1>1. Inv => PlacedOnce
  <2>. SUFFICES ASSUME Inv, "mixed" \notin odd PROVE PlacedOnce  BY DEF PlacedOnce
  <2> DEFINE f == Whole(lay)  slots == UNION {{n} \X f[n] : n \in DOMAIN f}
  <2>1. Once(f)  BY DEF Inv, InOrder, Sound
  <2>. HIDE DEF f
  <2>2. ASSUME NEW a \in slots, NEW b \in slots, a # b PROVE a[2].panes \intersect b[2].panes = {}
    <3>1. PICK n \in DOMAIN f : a \in {n} \X f[n]  OBVIOUS
    <3>2. PICK m \in DOMAIN f : b \in {m} \X f[m]  OBVIOUS
    <3>3. a = <<n, a[2]>> /\ a[2] \in f[n] /\ b = <<m, b[2]>> /\ b[2] \in f[m]  BY <3>1, <3>2
    <3>4. CASE n = m
      <4>1. a[2] # b[2]  BY <2>2, <3>3, <3>4
      <4>2. OnceIn(f[n])  BY <2>1 DEF Once
      <4>. QED  BY <3>3, <3>4, <4>1, <4>2 DEF OnceIn
    <3>5. CASE n # m
      <4>1. PanesOf(f[n]) \intersect PanesOf(f[m]) = {}  BY <2>1, <3>5 DEF Once, Apart
      <4>2. a[2].panes \subseteq PanesOf(f[n]) /\ b[2].panes \subseteq PanesOf(f[m])  BY <3>3 DEF PanesOf
      <4>. QED  BY <4>1, <4>2
    <3>. QED  BY <3>4, <3>5
  <2>. QED  BY <2>2 DEF PlacedOnce, f, Whole
<1>. QED  BY <1>1, AlwaysInv, PTL

(* No close, kill, drag, restart or crash leaves a shell that no pane of the  *)
(* layout, or of any layout a start would bring back, holds; but for the four *)
(* ways the property names.                                                  *)
THEOREM NoShellIsLost == Spec => []ShellsHavePanes
<1>1. Inv => ShellsHavePanes
  <2>. SUFFICES ASSUME Inv, Fine PROVE \A s \in IF up THEN {lay} ELSE Begun : shells \subseteq Placed(s)
    BY DEF ShellsHavePanes, Fine
  <2>1. CASE up
    <3>1. shells \subseteq Placed(lay)  BY <2>1 DEF Inv, Reach, Tied
    <3>. QED  BY <2>1, <3>1
  <2>2. CASE ~up
    <3>1. \A b \in Begun : shells \subseteq Placed(b)  BY <2>2 DEF Inv, Reach
    <3>. QED  BY <2>2, <3>1
  <2>. QED  BY <2>1, <2>2
<1>. QED  BY <1>1, AlwaysInv, PTL

(* When the sweep is done every pane has a terminal or a document, though the *)
(* layout changed under the sweep: a pane without was collected, or is still  *)
(* stored where the sweep will look.                                         *)
THEOREM EveryPaneServed == Spec => []PanesHaveTerminals
<1>1. Inv => PanesHaveTerminals
  <2>. SUFFICES ASSUME Inv, up, sweep.at = "done", odd \intersect {"failed", "skipped", "ghost", "mixed"} = {},
                       NEW k \in Placed(lay)
                PROVE  k[2] \in terminals \union editors
    BY DEF PanesHaveTerminals
  <2>1. sweep.left = {}  BY DEF Inv, Types
  <2>2. Due = {}  BY <2>1 DEF Due
  <2>. QED  BY <2>2 DEF Inv, Covered
<1>. QED  BY <1>1, AlwaysInv, PTL

(* While the window runs a pane never changes its workspace and none comes    *)
(* back: what appears has the number next_id has just given out.             *)
THEOREM NothingReturns == Spec => PanesStayPut
<1>1. Inv /\ [Next]_vars =>
        [up /\ up' /\ "mixed" \notin odd' => \A k \in Placed(lay)' \ Placed(lay) : k[2] >= next]_vars
  <2>. SUFFICES ASSUME Inv, [Next]_vars, up, up', "mixed" \notin odd', ~UNCHANGED vars
                PROVE  \A k \in Placed(lay)' \ Placed(lay) : k[2] >= next
    OBVIOUS
  <2>1. CASE Start  BY <2>1 DEF Start
  <2>2. ASSUME NEW k \in shells, ShellExits(k) PROVE lay' = lay  BY <2>2, ExitsShellInv
  <2>3. CASE User  BY <2>3, UserInv
  <2>4. CASE Background  BY <2>4, BackgroundInv
  <2>5. CASE Exit  BY <2>5 DEF Exit, CloseKeeping, CloseKilling, Crash, Gone
  <2>. QED  BY <2>1, <2>2, <2>3, <2>4, <2>5 DEF Next
<1>. QED  BY <1>1, AlwaysInv, PTL DEF Spec, PanesStayPut
=============================================================================
