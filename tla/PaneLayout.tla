------------------------------ MODULE PaneLayout ------------------------------
(***************************************************************************)
(* The panes of the window: which tab and workspace holds each (state.rs),  *)
(* the layout file (persist.rs), the sessions the daemon keeps for them      *)
(* under (workspace, pane), and their reattachment after a restart (main.rs, *)
(* bridge.rs, pane_restore.rs).  The layout exists three times: the panes in *)
(* view, the tabs of the active workspace, and the tabs stored per           *)
(* workspace; each copy is stale until it is saved back.                     *)
(* Every action runs under the lock of the shared state.  Left out: rows,    *)
(* columns and ratios, the order of tabs and workspaces, and what is         *)
(* selected but not in view: the focus may be on any pane in view, and a     *)
(* workspace may come into view with any of its tabs.                        *)
(***************************************************************************)
EXTENDS Naturals, FiniteSets, FiniteSetsExt

CONSTANTS
  SeedSpaces,    \* workspaces of a first run, 4 in the code
  MaxPane,       \* bound: pane ids
  MaxSpaces,     \* bound: workspace numbers
  Runs           \* bound: starts of the window

ASSUME LayoutAssumption ==
  /\ MaxPane \in Nat \ {0} /\ MaxSpaces \in Nat /\ Runs \in Nat
  /\ SeedSpaces \in 1 .. MaxSpaces

VARIABLES
  lay,         \* see IsLayout
  next,        \* next_id
  terminals,   \* panes with a terminal
  editors,     \* panes that show a document, not a shell
  mapped,      \* keys whose session the shim tracks
  shells,      \* keys whose shell lives in the daemon
  file,        \* the saved tabs of every workspace and the active one; none: no file
  sweep,       \* the background sweep: see Sweep
  synced,      \* the one deferred spawn of the panes in view has run
  run,         \* starts so far
  up,          \* the window runs
  odd          \* history of departures: see Odd

vars == <<lay, next, terminals, editors, mapped, shells, file, sweep, synced, run, up, odd>>

Panes == 1 .. MaxPane
Nums == 1 .. MaxSpaces
Keys == Nums \X Panes

(* A tab is named after the pane it was made for.                            *)
Tab == [id: Panes, panes: SUBSET Panes]
NoTab == [id |-> 0, panes |-> {}]
IsSpaces(f) == DOMAIN f \subseteq Nums /\ f \in [DOMAIN f -> SUBSET Tab]
(* The workspaces, the active one, its tabs, the tab in view and its panes.  *)
IsLayout(s) ==
  /\ DOMAIN s = {"spaces", "ws", "tabs", "cur", "panes"}
  /\ IsSpaces(s.spaces) /\ s.ws \in DOMAIN s.spaces /\ s.tabs \subseteq Tab
  /\ IF s.tabs = {} THEN s.cur = NoTab /\ s.panes = {} ELSE s.cur \in s.tabs /\ s.panes \subseteq Panes
Sweep == [at: {"wait", "run", "done"}, left: SUBSET Keys]

(* What has happened that breaks the tie between panes and shells: a split   *)
(* or a kill that was not saved, and a crash after it; a pane closed before  *)
(* it was attached; an attach of a pane no longer there; one that failed;    *)
(* a pane that was neither attached at the start nor swept; a reorder that   *)
(* selects another tab of the same name; a pane left in a tab after the kill *)
(* of its session.                                                           *)
Odd == {"unsaved", "lost", "leaked", "raced", "failed", "skipped", "mixed", "ghost"}

-----------------------------------------------------------------------------
(* The copies of the layout.                                                 *)
SaveTab(s) ==
  LET t == [s.cur EXCEPT !.panes = s.panes]
  IN  IF s.cur = NoTab THEN s ELSE [s EXCEPT !.tabs = (@ \ {s.cur}) \union {t}, !.cur = t]

Shown(s, t) == [s EXCEPT !.cur = t, !.panes = t.panes]

With(s, n, ts) ==
  [s EXCEPT !.spaces = [m \in DOMAIN s.spaces \union {n} |-> IF m = n THEN ts ELSE s.spaces[m]]]

SaveSpace(s) == LET t == SaveTab(s) IN With(t, t.ws, t.tabs)

Emptied(s) == [s EXCEPT !.tabs = {}, !.cur = NoTab, !.panes = {}]

LoadSpace(s) ==
  LET ts == s.spaces[s.ws]
  IN  IF ts = {} THEN {Emptied(s)} ELSE {Shown([s EXCEPT !.tabs = ts], t) : t \in ts}

PanesOf(ts) == UNION {t.panes : t \in ts}
Keyed(spaces) == UNION {{n} \X PanesOf(spaces[n]) : n \in DOMAIN spaces}

(* The panes that are somewhere in the layout, the copy in view counting.    *)
Placed(s) == Keyed(SaveSpace(s).spaces)

RetainPanes(ts, kept) == {[t EXCEPT !.panes = @ \intersect kept] : t \in ts} \ {[t EXCEPT !.panes = {}] : t \in ts}
Retained(spaces, kept) == [n \in DOMAIN spaces |-> RetainPanes(spaces[n], kept)]

Prune(s, kept) == LoadSpace([SaveSpace(s) EXCEPT !.spaces = Retained(SaveSpace(s).spaces, kept)])

(* PersistedState::from_state: documents are stripped, with the tabs they    *)
(* leave empty.                                                              *)
Persisted(s, docs) ==
  LET spaces == SaveSpace(s).spaces
  IN  [ws |-> s.ws, spaces |-> IF docs = {} THEN spaces ELSE Retained(spaces, Panes \ docs)]

-----------------------------------------------------------------------------
(* What most actions end with: the new layout, saved or not.                 *)
Saved(s) == lay' = s /\ file' = Persisted(s, editors) /\ odd' = odd \ {"unsaved"}
Unsaved(s) == lay' = s /\ UNCHANGED <<file, odd>>

Pty == <<next, terminals, editors, mapped, shells>>
Life == <<sweep, synced, run, up>>

(* spawn_in of a new pane: the daemon refuses a key that lives, and may fail; *)
(* the pane has a terminal in any case.                                      *)
SpawnPane ==
  LET k == <<lay.ws, next>> IN
  /\ next <= MaxPane /\ next' = next + 1
  /\ terminals' = terminals \union {next}
  /\ \/ k \notin shells /\ mapped' = mapped \union {k} /\ shells' = shells \union {k}
     \/ UNCHANGED <<mapped, shells>>
  /\ UNCHANGED editors

(* What is taken off the layout: a document is dropped, of another pane the  *)
(* session the shim tracks is killed; a shell it does not track lives on.    *)
Leaked(keys) == IF (keys \intersect shells) \ mapped # {} THEN {"leaked"} ELSE {}

RemoveAndSave(keys, s) ==
  LET ps == {k[2] : k \in keys}
      tracked == {k \in mapped : k[2] \in ps \ editors}
  IN  /\ terminals' = terminals \ (ps \ editors)
      /\ editors' = editors \ ps
      /\ mapped' = mapped \ tracked /\ shells' = shells \ tracked
      /\ lay' = s /\ file' = Persisted(s, editors')
      /\ odd' = (odd \ {"unsaved"}) \union Leaked(keys)
      /\ UNCHANGED next

-----------------------------------------------------------------------------
(* Mutant: the tab in view is left without bringing it up to date.           *)
SwitchTabUnsaved(t) ==
  /\ t \in lay.tabs \ {lay.cur}
  /\ Unsaved(Shown(lay, t))
  /\ UNCHANGED Pty

(* Tabs and workspaces.                                                      *)
SwitchTab(t) ==
  /\ t \in lay.tabs \ {lay.cur}
  /\ Unsaved(Shown(SaveTab(lay), t))
  /\ UNCHANGED Pty

SwitchSpace(n) ==
  /\ n \in DOMAIN lay.spaces \ {lay.ws}
  /\ \E s \in LoadSpace([SaveSpace(lay) EXCEPT !.ws = n]) : Unsaved(s)
  /\ UNCHANGED Pty

(* A new pane in a new tab, which is shown.                                  *)
WithTab(s) ==
  LET t == SaveTab(s)  new == [id |-> next, panes |-> {next}]
  IN  Shown([t EXCEPT !.tabs = @ \union {new}], new)

AddTab == SpawnPane /\ Saved(WithTab(lay))

AddEditorTab ==
  /\ next <= MaxPane /\ next' = next + 1
  /\ editors' = editors \union {next}
  /\ Unsaved(WithTab(lay))
  /\ UNCHANGED <<terminals, mapped, shells>>

(* The copy in view gets the pane; its tab is not brought up to date.  The   *)
(* buttons in the pane's header do not save, the commands do.                *)
Split ==
  LET s == [lay EXCEPT !.panes = @ \union {next}] IN
  /\ lay.panes # {}
  /\ SpawnPane
  /\ \/ Saved(s)
     \/ lay' = s /\ odd' = odd \union {"unsaved"} /\ UNCHANGED file

(* The tab in view is followed by any that is left.                          *)
CloseTab(t) ==
  LET ps == IF t = lay.cur THEN lay.panes ELSE t.panes
      s == [lay EXCEPT !.tabs = @ \ {t}]
  IN  /\ t \in lay.tabs
      /\ \E r \in IF s.tabs = {} THEN {Emptied(s)}
                  ELSE IF t = lay.cur THEN {Shown(s, u) : u \in s.tabs} ELSE {s} :
           RemoveAndSave({lay.ws} \X ps, r)

ClosePane(p) ==
  LET s == SaveTab([lay EXCEPT !.panes = @ \ {p}]) IN
  /\ p \in lay.panes
  /\ IF lay.panes = {p} THEN CloseTab(lay.cur)
     ELSE \E t \in s.tabs : RemoveAndSave({<<lay.ws, p>>}, Shown(s, t))

(* Mutant: the pane that gets a tab of its own stays where it was.           *)
ExtractKeepsPane(p) ==
  LET new == [id |-> p, panes |-> {p}]
  IN  /\ p \in lay.panes
      /\ Saved(Shown([SaveTab(lay) EXCEPT !.tabs = @ \union {new}], new))
      /\ UNCHANGED Pty

(* Focus moves, moves to an edge and swaps in view bring the tab up to date; *)
(* the moves of the focus are not saved.                                     *)
Rearrange ==
  /\ Saved(SaveTab(lay)) \/ Unsaved(SaveTab(lay))
  /\ UNCHANGED Pty

Extract(p) ==
  LET new == [id |-> p, panes |-> {p}]
      s == IF lay.panes = {p} THEN [lay EXCEPT !.tabs = @ \ {lay.cur}]
                              ELSE SaveTab([lay EXCEPT !.panes = @ \ {p}])
  IN  /\ p \in lay.panes
      /\ Saved(Shown([s EXCEPT !.tabs = @ \union {new}], new))
      /\ UNCHANGED Pty

(* The selection follows by name, to the first tab that has it, and the copy *)
(* in view is not loaded again.                                              *)
Reorder ==
  /\ lay.cur # NoTab
  /\ \E t \in lay.tabs :
       /\ t.id = lay.cur.id
       /\ lay' = [lay EXCEPT !.cur = t]
       /\ file' = Persisted(lay', editors)
       /\ odd' = (odd \ {"unsaved"}) \union (IF t # lay.cur THEN {"mixed"} ELSE {})
  /\ UNCHANGED Pty

(* A tab with one pane is dropped on the edge or the centre of a pane.       *)
Single(t) == t \in lay.tabs \ {lay.cur} /\ Cardinality(t.panes) = 1

DropSplit(t) ==
  /\ Single(t) /\ lay.panes \ t.panes # {}
  /\ Saved(SaveTab([lay EXCEPT !.tabs = @ \ {t}, !.panes = @ \union t.panes]))
  /\ UNCHANGED Pty

SwapFromTab(t, p) ==
  LET cur == [lay.cur EXCEPT !.panes = (lay.panes \ {p}) \union t.panes]
  IN  /\ Single(t) /\ p \in lay.panes \ t.panes
      /\ Saved(Shown([lay EXCEPT !.tabs = (@ \ {t, lay.cur}) \union {[t EXCEPT !.panes = {p}], cur}], cur))
      /\ UNCHANGED Pty

(* Mutant: the new workspace comes into view with the tabs of the old one.   *)
AddSpaceKeepsTabs ==
  LET num == 1 + Max(DOMAIN lay.spaces)
  IN  /\ num <= MaxSpaces
      /\ Saved([With(SaveSpace(lay), num, {}) EXCEPT !.ws = num])
      /\ UNCHANGED Pty

(* The number of a new workspace is above all others.                        *)
AddSpace ==
  LET num == 1 + Max(DOMAIN lay.spaces)
  IN  /\ num <= MaxSpaces
      /\ Saved(Emptied([With(SaveSpace(lay), num, {}) EXCEPT !.ws = num]))
      /\ UNCHANGED Pty

(* Mutant: the active workspace goes and none comes into view.               *)
RemoveSpaceInView(n) ==
  LET t == SaveSpace(lay)
      left == [m \in DOMAIN t.spaces \ {n} |-> t.spaces[m]]
  IN  /\ n \in DOMAIN t.spaces /\ DOMAIN left # {}
      /\ RemoveAndSave({n} \X PanesOf(t.spaces[n]), [t EXCEPT !.spaces = left])

(* Another workspace comes into view when the active one goes.               *)
RemoveSpace(n) ==
  LET t == SaveSpace(lay)
      left == [m \in DOMAIN t.spaces \ {n} |-> t.spaces[m]]
  IN  /\ n \in DOMAIN t.spaces /\ DOMAIN left # {}
      /\ \E ws \in IF n = lay.ws THEN DOMAIN left ELSE {lay.ws} :
           \E s \in LoadSpace([t EXCEPT !.spaces = left, !.ws = ws]) :
             RemoveAndSave({n} \X PanesOf(t.spaces[n]), s)

(* The terminals of a workspace, its agents, or all terminals are killed.    *)
KillWorkspace(n) ==
  LET s == IF n = lay.ws THEN Emptied(lay) ELSE lay IN
  /\ n \in DOMAIN lay.spaces
  /\ RemoveAndSave({n} \X PanesOf(SaveSpace(lay).spaces[n]), With(s, n, {}))

KillAgents(n) ==
  /\ n \in DOMAIN lay.spaces
  /\ \E ps \in SUBSET (PanesOf(SaveSpace(lay).spaces[n]) \ editors) \ {{}} :
       \E s \in Prune(lay, Panes \ ps) : RemoveAndSave({n} \X ps, s)

AllEmptied == Emptied([lay EXCEPT !.spaces = [n \in DOMAIN lay.spaces |-> {}]])

KillAll == RemoveAndSave(Placed(lay) \union {k \in mapped : k[2] \in terminals}, AllEmptied)

(* Kill in the panel of sessions.  A tracked one is taken off the layout but *)
(* for the tabs of the active workspace that are not in view; not saved.     *)
Without(p, ts) == {[t EXCEPT !.panes = @ \ {p}] : t \in ts}

KillSession(k) ==
  LET p == k[2]
      cur == [lay.cur EXCEPT !.panes = @ \ {p}]
      s == [lay EXCEPT !.panes = @ \ {p}, !.cur = cur,
                       !.tabs = IF lay.cur = NoTab THEN @ ELSE (@ \ {lay.cur}) \union {cur},
                       !.spaces = [n \in DOMAIN lay.spaces |-> Without(p, lay.spaces[n])]]
  IN  /\ k \in shells
      /\ shells' = shells \ {k}
      /\ \/ /\ k \in mapped /\ mapped' = mapped \ {k} /\ terminals' = terminals \ {p}
            /\ lay' = s
            /\ odd' = odd \union {"unsaved"} \union (IF k \in Placed(s) THEN {"ghost"} ELSE {})
         \/ k \notin mapped /\ UNCHANGED <<mapped, terminals, lay, odd>>
      /\ UNCHANGED <<next, editors, file>>

-----------------------------------------------------------------------------
(* attach_or_spawn: a shell that lives is attached, else one is started.     *)
Attach(keys) == mapped' = mapped \union keys /\ shells' = shells \union keys

(* Mutant: the sweep looks at the active workspace only.                     *)
CollectActive ==
  /\ sweep.at = "wait"
  /\ \E f \in IF lay.panes = {} THEN {0} ELSE lay.panes :
       LET left == {lay.ws} \X (PanesOf(lay.spaces[lay.ws]) \ {f})
       IN  /\ sweep' = [at |-> IF left = {} THEN "done" ELSE "run", left |-> left]
           /\ odd' = odd \union (IF f \in Panes \ (terminals \union editors) THEN {"skipped"} ELSE {})
  /\ UNCHANGED <<lay, next, terminals, editors, mapped, shells, file, synced, run, up>>

(* collect_targets reads the stored copies, and leaves out the pane in focus. *)
Collect ==
  /\ sweep.at = "wait"
  /\ \E f \in IF lay.panes = {} THEN {0} ELSE lay.panes :
       LET left == {k \in Keyed(lay.spaces) : k[2] # f}
       IN  /\ sweep' = [at |-> IF left = {} THEN "done" ELSE "run", left |-> left]
           /\ odd' = odd \union (IF f \in Panes \ (terminals \union editors) THEN {"skipped"} ELSE {})
  /\ UNCHANGED <<lay, next, terminals, editors, mapped, shells, file, synced, run, up>>

(* attach_one: whatever became of the pane since, unless it has a terminal.  *)
AttachOne(k) ==
  /\ sweep.at = "run" /\ k \in sweep.left
  /\ sweep' = [at |-> IF sweep.left = {k} THEN "done" ELSE "run", left |-> sweep.left \ {k}]
  /\ \/ k[2] \in terminals \union editors /\ UNCHANGED <<terminals, mapped, shells, odd>>
     \/ /\ k[2] \notin terminals \union editors
        /\ Attach({k}) /\ terminals' = terminals \union {k[2]}
        /\ odd' = odd \union (IF k \notin Placed(lay) THEN {"raced"} ELSE {})
     \/ /\ k[2] \notin terminals \union editors
        /\ odd' = odd \union {"failed"} /\ UNCHANGED <<terminals, mapped, shells>>
  /\ UNCHANGED <<lay, next, editors, file, synced, run, up>>

(* Once the cell metrics are known, the panes in view without a terminal get *)
(* one, and a shell unless the daemon fails.                                 *)
DeferredSpawn ==
  /\ ~synced /\ synced' = TRUE
  /\ LET ps == lay.panes \ (terminals \union editors)
     IN  /\ terminals' = terminals \union ps
         /\ \E ok \in SUBSET ps : Attach({lay.ws} \X ok)
  /\ UNCHANGED <<lay, next, editors, file, sweep, run, up, odd>>

-----------------------------------------------------------------------------
(* restore_layout: tabs without panes are dropped, and the active workspace  *)
(* gets a tab when it has none.                                              *)
Top(spaces) == Max({0} \union {k[2] : k \in Keyed(spaces)})

WithDefaultTab(s, p) ==
  LET t == [id |-> p, panes |-> {p}]
  IN  Shown([With(s, s.ws, {t}) EXCEPT !.tabs = {t}], t)

Restored ==
  LET s == [spaces |-> Retained(file.spaces, Panes), ws |-> file.ws,
            tabs |-> {}, cur |-> NoTab, panes |-> {}]
  IN  IF s.spaces[s.ws] = {} THEN {WithDefaultTab(s, Top(s.spaces) + 1)} ELSE LoadSpace(s)

(* seed_state: a pane in view that no stored workspace holds.                *)
Seed == LET t == [id |-> 1, panes |-> {1}]
        IN  [spaces |-> [n \in 1 .. SeedSpaces |-> {}], ws |-> 1, tabs |-> {t}, cur |-> t, panes |-> {1}]

Begun == IF DOMAIN file.spaces = {} THEN {Seed} ELSE Restored
Waiting == [at |-> "wait", left |-> {}]

(* main: the pane with the focus is attached before there is a window.       *)
Start ==
  /\ ~up /\ up' = TRUE
  /\ run < Runs /\ run' = run + 1
  /\ \E s \in Begun : \E p \in s.panes :
       /\ p <= MaxPane
       /\ lay' = s /\ next' = Max({2, 1 + Top(SaveSpace(s).spaces)})
       /\ terminals' = {p}
       /\ \/ Attach({<<s.ws, p>>})
          \/ UNCHANGED <<mapped, shells>>
  /\ sweep' = Waiting /\ synced' = FALSE
  /\ UNCHANGED <<editors, file, odd>>

(* What the process held is gone.                                            *)
Gone ==
  /\ up' = FALSE
  /\ lay' = Seed /\ next' = 2
  /\ terminals' = {} /\ editors' = {} /\ mapped' = {}
  /\ sweep' = Waiting /\ synced' = FALSE
  /\ UNCHANGED run

(* The window is closed: chosen panes are killed and pruned, or none, or all. *)
CloseKeeping ==
  \E kept \in SUBSET {k[2] : k \in Placed(lay)} :
    LET keys == {k \in Placed(lay) : k[2] \notin kept}
    IN  /\ Gone
        /\ shells' = shells \ (keys \intersect mapped)
        /\ \E s \in Prune(lay, kept) : file' = Persisted(s, editors)
        /\ odd' = (odd \ {"unsaved"}) \union Leaked(keys)

CloseKilling ==
  /\ Gone
  /\ shells' = shells \ {k \in mapped : k[2] \in terminals}
  /\ file' = Persisted(AllEmptied, {})
  /\ odd' = (odd \ {"unsaved"}) \union Leaked(Placed(lay))

Crash ==
  /\ Gone
  /\ odd' = IF "unsaved" \in odd THEN (odd \ {"unsaved"}) \union {"lost"} ELSE odd
  /\ UNCHANGED <<shells, file>>

(* A shell ends by itself; its pane and its mapping stay.                    *)
ShellExits(k) ==
  /\ k \in shells /\ shells' = shells \ {k}
  /\ UNCHANGED <<lay, next, terminals, editors, mapped, file, sweep, synced, run, up, odd>>

-----------------------------------------------------------------------------
Rearranging ==
  \/ Rearrange \/ Reorder
  \/ \E p \in lay.panes : Extract(p)
  \/ \E t \in lay.tabs : DropSplit(t) \/ \E p \in lay.panes : SwapFromTab(t, p)

Opening == AddTab \/ AddEditorTab \/ Split \/ AddSpace

Closing ==
  \/ \E t \in lay.tabs : CloseTab(t)
  \/ \E p \in lay.panes : ClosePane(p)
  \/ \E n \in Nums : RemoveSpace(n) \/ KillWorkspace(n) \/ KillAgents(n)
  \/ KillAll
  \/ \E k \in shells : KillSession(k)

Switching == (\E t \in lay.tabs : SwitchTab(t)) \/ (\E n \in Nums : SwitchSpace(n))

User == (Rearranging \/ Opening \/ Closing \/ Switching) /\ UNCHANGED Life
Background == Collect \/ (\E k \in sweep.left : AttachOne(k)) \/ DeferredSpawn
Exit == CloseKeeping \/ CloseKilling \/ Crash

Init ==
  /\ lay = Seed /\ next = 2
  /\ terminals = {} /\ editors = {} /\ mapped = {} /\ shells = {}
  /\ file = [ws |-> 1, spaces |-> [n \in {} |-> {}]]
  /\ sweep = Waiting /\ synced = FALSE /\ run = 0 /\ up = FALSE /\ odd = {}

Next ==
  \/ Start
  \/ \E k \in shells : ShellExits(k)
  \/ up /\ (User \/ Background \/ Exit)

Spec == Init /\ [][Next]_vars

-----------------------------------------------------------------------------
TypeOK ==
  /\ IsLayout(lay) /\ IsSpaces(file.spaces) /\ file.ws \in Nums
  /\ next \in 1 .. MaxPane + 1
  /\ terminals \subseteq Panes /\ editors \subseteq Panes
  /\ mapped \subseteq Keys /\ shells \subseteq Keys
  /\ sweep \in Sweep /\ synced \in BOOLEAN /\ run \in 0 .. Runs /\ up \in BOOLEAN
  /\ odd \subseteq Odd

(* Unless a reorder selected another tab, a pane is in one tab of one         *)
(* workspace: neither the stale copies nor any drag, close or restart         *)
(* doubles a pane or shows it in two places.                                  *)
PlacedOnce ==
  LET spaces == SaveSpace(lay).spaces
      slots == UNION {{n} \X spaces[n] : n \in DOMAIN spaces}
  IN  "mixed" \notin odd => \A a, b \in slots : a # b => a[2].panes \intersect b[2].panes = {}

(* Every live shell belongs to a pane of the layout, or of any layout that a *)
(* start would bring back while no window runs: no close, kill, drag,        *)
(* restart or crash leaves a shell nobody can reach, but in the ways named:  *)
(* a crash after a split from the pane's header, a pane closed before it was *)
(* attached, an attach that comes after the close, and a reorder that        *)
(* overwrites another tab.                                                   *)
ShellsHavePanes ==
  odd \intersect {"lost", "leaked", "raced", "mixed"} = {} =>
    \A s \in IF up THEN {lay} ELSE Begun : shells \subseteq Placed(s)

(* After the sweep every pane has its terminal or document, whatever was     *)
(* opened, moved, closed or shown meanwhile, and whether or not the deferred *)
(* spawn has run; what escapes is a pane that got the focus before the sweep *)
(* began, a failed attach, and a pane whose session was killed from the panel. *)
PanesHaveTerminals ==
  up /\ sweep.at = "done" /\ odd \intersect {"failed", "skipped", "ghost", "mixed"} = {} =>
    \A k \in Placed(lay) : k[2] \in terminals \union editors

(* While a window runs a pane never changes its workspace, and what appears  *)
(* is new: no rearrangement, switch or close brings back or migrates a pane. *)
PanesStayPut ==
  [][up /\ up' /\ "mixed" \notin odd' =>
       \A k \in Placed(lay)' \ Placed(lay) : k[2] >= next]_vars
=============================================================================
