------------------------- MODULE CommandsProofs -------------------------
(***************************************************************************)
(* Proofs about what the handlers of the state store answer and what they  *)
(* leave alone, for every number of monitors, workspaces, columns and      *)
(* windows.                                                                *)
(*                                                                         *)
(* What they answer: no handler fails after its first assignment, no step  *)
(* of a drag fails while its workspace and its column are there, and a     *)
(* platform event ends the daemon only with a workspace.  A handler ends   *)
(* by laying out the workspace it worked on, and in a state that is in     *)
(* order every workspace that exists can be laid out.  What is left to     *)
(* show of each handler is that this workspace survives the normalisations *)
(* before: it is the one its monitor shows.                                *)
(*                                                                         *)
(* What they leave alone: a window that closes while another has the focus *)
(* moves nothing, a key leaves the monitors alone that are not managed,    *)
(* and the overview's mark stays on what its monitor shows.  Every         *)
(* operator of the store is given the set M of monitors it may touch; what *)
(* it keeps of the others composes, so a handler keeps what its steps do.  *)
(*                                                                         *)
(* What they keep in order: normalising twice is normalising once, and     *)
(* workspaces that hold something stay in their order.  The order of a     *)
(* sequence is reasoned about as the relation Before.                      *)
(***************************************************************************)
EXTENDS PlacementProofs

---------------------------------------------------------------------------
(* The end of a handler. *)

\* Every workspace of an arranged state can be laid out.
LEMMA LaysOut ==
  ASSUME NEW s, Arranged(s, {}), NEW w \in DOMAIN s.workspaces
  PROVE  CanLayout(s, w) /\ Settle(s, w).ok /\ Settle(s, w).st = s
<1>1. \A i \in DOMAIN s.workspaces[w].cols :
        LET c == s.workspaces[w].cols[i]
        IN  c \in DOMAIN s.columns /\ ToSet(s.columns[c].wins) \subseteq DOMAIN s.windows
  <2>1. TAKE i \in DOMAIN s.workspaces[w].cols
  <2> DEFINE c == s.workspaces[w].cols[i]
  <2>2. c \in ToSet(s.workspaces[w].cols)
    BY DEF ToSet
  <2> HIDE DEF c
  <2>3. c \in DOMAIN s.columns
    BY <2>2 DEF Arranged, Placed, WorkspaceFits
  <2>4. ToSet(s.columns[c].wins) \subseteq DOMAIN s.windows
    BY <2>3 DEF Arranged, Placed, ColumnFits
  <2>5. QED
    BY <2>3, <2>4 DEF c
<1>2. ToSet(s.workspaces[w].flt) \subseteq DOMAIN s.windows
  BY DEF Arranged, Placed, WorkspaceFits
<1>3. QED
  BY <1>1, <1>2 DEF CanLayout, Settle, Ok

\* A handler that ends in order has found the workspace it lays out, or it is gone.
LEMMA SettlesWhenThere ==
  ASSUME NEW t, InOrder(t), NEW w
  PROVE  Settle(t, w).ok \/ w \notin DOMAIN t.workspaces
BY LaysOut DEF InOrder

---------------------------------------------------------------------------
(* What focusing and normalising do to the workspaces.                     *)

\* Monitor m shows workspace w; no workspace, window and mark moves.
Shows(s, t, m, w) ==
  /\ t.sets = Put(s.sets, m, [order |-> s.sets[m].order, active |-> w])
  /\ t.focus.activeBy = Put(s.focus.activeBy, m, w)
  /\ t.windows = s.windows /\ t.overview = s.overview
  /\ DOMAIN t.workspaces = DOMAIN s.workspaces

\* set_focus_to_window
LEMMA FocusWindowShows ==
  ASSUME NEW s, Shape(s), NEW m, NEW w, NEW x, NEW c
  PROVE  Shows(s, FocusWindow(s, m, w, x, c), m, w)
BY DEF Shape, Shows, FocusWindow, SetFocus, PutActive, SelectInColumn, Remember

\* set_active_workspace_without_focus
LEMMA FocusNoWindowShows ==
  ASSUME NEW s, Shape(s), NEW m, NEW w
  PROVE  Shows(s, FocusNoWindow(s, m, w), m, w)
BY DEF Shape, Shows, FocusNoWindow, SetFocus, PutActive

\* sync_overview_selection writes the mark of one monitor only.
LEMMA SyncOverviewWrites ==
  ASSUME NEW s, Shape(s), NEW m
  PROVE  LET t == SyncOverview(s, m)
         IN  /\ t.sets = s.sets /\ t.windows = s.windows
             /\ t.workspaces = s.workspaces /\ t.focus = s.focus
             /\ t.overview = IF s.overview.open /\ s.overview.mon = m
                             THEN [s.overview EXCEPT !.sel = ActiveWorkspace(s, m)]
                             ELSE s.overview
BY DEF Shape, SyncOverview

\* Monitor m shows workspace w, and the overview marks it if it is open there.
Activates(s, t, m, w) ==
  /\ t.sets = Put(s.sets, m, [order |-> s.sets[m].order, active |-> w])
  /\ t.focus.activeBy = Put(s.focus.activeBy, m, w)
  /\ t.windows = s.windows
  /\ DOMAIN t.workspaces = DOMAIN s.workspaces
  /\ t.overview = IF s.overview.open /\ s.overview.mon = m
                  THEN [s.overview EXCEPT !.sel = w] ELSE s.overview

\* activate_workspace
LEMMA ActivateActivates ==
  ASSUME NEW s, Shape(s), NEW m, NEW w
  PROVE  Activates(s, ActivateWorkspace(s, m, w), m, w)
<1> DEFINE g == WorkspaceFocusTarget(s, w)
           f == IF g.win # None THEN FocusWindow(s, m, w, g.win, g.col) ELSE FocusNoWindow(s, m, w)
<1>1. ActivateWorkspace(s, m, w) = SyncOverview(f, m)
  BY DEF ActivateWorkspace
<1> HIDE DEF g
<1>2. Shows(s, f, m, w)
  <2>1. CASE g.win # None
    BY <2>1, FocusWindowShows
  <2>2. CASE g.win = None
    BY <2>2, FocusNoWindowShows
  <2>3. QED
    BY <2>1, <2>2
<1>3. DOMAIN f = DOMAIN s
  BY DEF FocusWindow, FocusNoWindow, SetFocus, PutActive, SelectInColumn, Remember
<1> HIDE DEF f
<1>4. ActiveWorkspace(f, m) = w
  BY <1>2 DEF ActiveWorkspace, Shows, Put
<1>5. /\ SyncOverview(f, m).sets = f.sets /\ SyncOverview(f, m).windows = f.windows
      /\ SyncOverview(f, m).workspaces = f.workspaces /\ SyncOverview(f, m).focus = f.focus
      /\ SyncOverview(f, m).overview = IF f.overview.open /\ f.overview.mon = m
                                       THEN [f.overview EXCEPT !.sel = ActiveWorkspace(f, m)]
                                       ELSE f.overview
  BY <1>3 DEF Shape, SyncOverview
<1>6. QED
  BY <1>1, <1>2, <1>4, <1>5 DEF Shows, Activates

\* A workspace a monitor shows survives the normalisation of any monitor.
LEMMA ShownStays ==
  ASSUME NEW s, Sound(s), NEW m \in DOMAIN s.sets, NEW k \in DOMAIN s.sets
  PROVE  LET n == NormalizeWorkspaceSet(s, k)
         IN  /\ Sound(n) /\ DOMAIN n.sets = DOMAIN s.sets
             /\ n.sets[m].active = s.sets[m].active
             /\ s.sets[m].active \in DOMAIN n.workspaces
<1> DEFINE n == NormalizeWorkspaceSet(s, k)
<1>1. Sound(n) /\ DOMAIN n.sets = DOMAIN s.sets /\ n.sets[m].active = s.sets[m].active
  BY NormalizeSound
<1> HIDE DEF n
<1>2. n.sets[m].active \in DOMAIN n.workspaces
  BY <1>1, SoundLookups
<1>3. QED
  BY <1>1, <1>2 DEF n

\* activate_workspace leaves the workspace shown.
LEMMA ActivateShown ==
  ASSUME NEW s, Sound(s), Arranged(s, {}), NEW m \in DOMAIN s.sets, NEW w \in ToSet(s.sets[m].order)
  PROVE  LET a == ActivateWorkspace(s, m, w)
         IN  InOrder(a) /\ DOMAIN a.sets = DOMAIN s.sets /\ a.sets[m].active = w
<1> DEFINE a == ActivateWorkspace(s, m, w)
<1>1. InOrder(a) /\ DOMAIN a.sets = DOMAIN s.sets
  BY ActivateInOrder
<1>2. Activates(s, a, m, w)
  BY ActivateActivates DEF Arranged
<1> HIDE DEF a
<1>3. a.sets[m].active = w
  BY <1>2 DEF Activates, Put
<1>4. QED
  BY <1>1, <1>3 DEF a

---------------------------------------------------------------------------
(* Errors leave the state as it was.                                       *)

Harmless(s, r) == r.ok \/ r.st = s

\* A handler that ends in order, with a workspace that is there.
LEMMA SettlesHarmless ==
  ASSUME NEW s, NEW t, InOrder(t), NEW w \in DOMAIN t.workspaces
  PROVE  Harmless(s, Settle(t, w))
BY LaysOut DEF InOrder, Harmless

\* handle_focus_navigation
LEMMA NavigationHarmless ==
  ASSUME NEW s, InOrder(s), NEW forward \in BOOLEAN, NEW tabs \in BOOLEAN
  PROVE  Harmless(s, FocusNavigation(s, forward, tabs))
<1> DEFINE w == CommandWorkspace(s)
           r == FocusNavigation(s, forward, tabs)
<1>1. InOrder(r.st)
  BY FocusNavigationInOrder
<1>2. CASE w \notin DOMAIN s.workspaces
  BY <1>2 DEF FocusNavigation, Err, Harmless
<1>3. Shape(s)
  BY DEF InOrder, Arranged
<1>4. CASE w \in DOMAIN s.workspaces
  <2>1. \E m, x, c : r \in {Settle(s, w), Settle(FocusWindow(s, m, w, x, c), w)}
    BY <1>4 DEF FocusNavigation
  <2>2. PICK m, x, c : r \in {Settle(s, w), Settle(FocusWindow(s, m, w, x, c), w)}
    BY <2>1
  <2> DEFINE f == FocusWindow(s, m, w, x, c)
  <2>3. Shows(s, f, m, w)
    BY <1>3, FocusWindowShows
  <2>4. r = Settle(s, w) \/ r = Settle(f, w)
    BY <2>2
  <2> HIDE DEF f, w, r
  <2>5. w \in DOMAIN f.workspaces
    BY <1>4, <2>3 DEF Shows
  <2>6. r = Settle(f, w) => InOrder(f)
    BY <1>1, SettleState
  <2>7. Harmless(s, r)
    BY <1>4, <2>4, <2>5, <2>6, SettlesHarmless
  <2>8. QED
    BY <2>7 DEF r
<1>5. QED
  BY <1>2, <1>4

\* handle_focus_workspace
LEMMA FocusWorkspaceHarmless ==
  ASSUME NEW s, InOrder(s), NEW forward \in BOOLEAN, NEW requested
  PROVE  Harmless(s, FocusWorkspace(s, forward, requested))
<1> DEFINE m     == CommandMonitor(s, requested)
           n     == NormalizeWorkspaceSet(s, m)
           order == n.sets[m].order
           w     == ActiveWorkspace(n, m)
           to    == order[StepWithin(Position(order, w), forward, Len(order))]
           a     == ActivateWorkspace(n, m, to)
           t     == NormalizeWorkspaceSet(a, m)
           r     == FocusWorkspace(s, forward, requested)
<1>1. CASE m = None
  BY <1>1 DEF FocusWorkspace, Err, Harmless
<1>2. CASE m # None
  <2>1. r = IF to = w THEN Settle(n, w) ELSE Settle(t, to)
    BY <1>2 DEF FocusWorkspace
  <2>2. InOrder(r.st)
    BY FocusWorkspaceInOrder
  <2>3. m \in DOMAIN s.sets
    BY <1>2, CommandMonitorKnown
  <2> HIDE DEF m, r
  <2>4. InOrder(n) /\ Sound(n) /\ Arranged(n, {}) /\ m \in DOMAIN n.sets
    BY <2>3, NormalizeInOrder, NormalizeSound DEF InOrder
  <2> HIDE DEF n
  <2>5. w \in ToSet(n.sets[m].order) /\ w \in DOMAIN n.workspaces
    BY <2>4, SoundLookups
  <2> HIDE DEF w
  <2>6. to \in ToSet(n.sets[m].order)
    BY <2>4, <2>5, NeighbourInOrder
  <2> HIDE DEF to
  <2>7. Sound(a) /\ m \in DOMAIN a.sets /\ a.sets[m].active = to
    BY <2>4, <2>6, ActivateShown DEF InOrder
  <2> HIDE DEF a
  <2>8. to \in DOMAIN t.workspaces
    BY <2>7, ShownStays
  <2> HIDE DEF t
  <2>9. r = Settle(n, w) \/ r = Settle(t, to)
    BY <2>1
  <2>10. r = Settle(t, to) => InOrder(t)
    BY <2>2, SettleState
  <2>11. Harmless(s, r)
    BY <2>4, <2>5, <2>8, <2>9, <2>10, SettlesHarmless
  <2>12. QED
    BY <2>11 DEF r
<1>3. QED
  BY <1>1, <1>2

\* handle_move_workspace_within_monitor
LEMMA MoveWorkspaceHarmless ==
  ASSUME NEW s, InOrder(s), NEW forward \in BOOLEAN, NEW requested
  PROVE  Harmless(s, MoveWorkspaceWithinMonitor(s, forward, requested))
<1> DEFINE m     == CommandMonitor(s, requested)
           n     == NormalizeWorkspaceSet(s, m)
           order == n.sets[m].order
           w     == ActiveWorkspace(n, m)
           i     == Position(order, w)
           j     == StepWithin(i, forward, Len(order))
           moved == PutOrder(n, m, Swapped(order, i, j))
           tidy  == NormalizeWorkspaceSet(moved, m)
           t     == SyncOverview(tidy, m)
           r     == MoveWorkspaceWithinMonitor(s, forward, requested)
<1>1. CASE m = None
  BY <1>1 DEF MoveWorkspaceWithinMonitor, Err, Harmless
<1>2. CASE m # None
  <2>1. r = Settle(n, w) \/ r = Settle(t, w)
    BY <1>2 DEF MoveWorkspaceWithinMonitor
  <2>2. InOrder(r.st)
    BY MoveWorkspaceInOrder
  <2>3. m \in DOMAIN s.sets
    BY <1>2, CommandMonitorKnown
  <2> HIDE DEF m, r
  <2>4. InOrder(n) /\ Sound(n) /\ Arranged(n, {}) /\ m \in DOMAIN n.sets
    BY <2>3, NormalizeInOrder, NormalizeSound DEF InOrder
  <2> HIDE DEF n
  <2>5. w \in ToSet(n.sets[m].order) /\ w \in DOMAIN n.workspaces /\ w = n.sets[m].active
    BY <2>4, SoundLookups
  <2> HIDE DEF w
  <2>6. i \in DOMAIN n.sets[m].order /\ j \in DOMAIN n.sets[m].order
    BY <2>4, <2>5, NeighbourInOrder
  <2> HIDE DEF i, j
  <2>7. Sound(moved) /\ m \in DOMAIN moved.sets
    BY <2>4, <2>6, SwappedOrderSound
  <2>8. moved.sets[m].active = w
    BY <2>4, <2>5, SoundShape DEF Shape, PutOrder, Put
  <2> HIDE DEF moved
  <2>9. w \in DOMAIN tidy.workspaces /\ Sound(tidy)
    BY <2>7, <2>8, ShownStays
  <2> HIDE DEF tidy
  <2>10. w \in DOMAIN t.workspaces
    BY <2>9, SoundShape, SyncOverviewWrites
  <2> HIDE DEF t
  <2>11. r = Settle(t, w) => InOrder(t)
    BY <2>2, SettleState
  <2>12. Harmless(s, r)
    BY <2>1, <2>4, <2>5, <2>10, <2>11, SettlesHarmless
  <2>13. QED
    BY <2>12 DEF r
<1>3. QED
  BY <1>1, <1>2

\* handle_move_workspace_to_adjacent_monitor
LEMMA MoveWorkspaceToMonitorHarmless ==
  ASSUME NEW s, InOrder(s), NEW forward \in BOOLEAN, NEW requested
  PROVE  Harmless(s, MoveWorkspaceToMonitor(s, forward, requested))
<1> DEFINE from == CommandMonitor(s, requested)
           to   == AdjacentMonitor(s, from, forward)
           w    == ActiveWorkspace(s, from)
           u    == NormalizeBoth(RehostWorkspace(NormalizeBoth(s, from, to), from, to, w), from, to)
           a    == ActivateWorkspace(u, to, w)
           t    == SyncOverview(a, from)
           r    == MoveWorkspaceToMonitor(s, forward, requested)
<1>1. CASE from = None
  BY <1>1 DEF MoveWorkspaceToMonitor, Err, Harmless
<1>2. CASE from # None
  <2>1. from \in DOMAIN s.sets
    BY <1>2, CommandMonitorKnown
  <2>2. w \in DOMAIN s.workspaces
    BY <2>1, SoundLookups DEF InOrder
  <2>3. InOrder(r.st)
    BY MoveWorkspaceToMonitorInOrder
  <2>4. CASE from = to
    <3>1. r = Settle(s, w)
      BY <1>2, <2>4 DEF MoveWorkspaceToMonitor
    <3>2. QED
      BY <2>2, <3>1, SettlesHarmless
  <2>5. CASE from # to
    <3>1. r = Settle(t, w)
      BY <1>2, <2>5 DEF MoveWorkspaceToMonitor
    <3>2. to \in DOMAIN s.sets /\ from # to /\ w = s.sets[from].active
      BY <2>1, <2>5, AdjacentMonitorKnown, SoundLookups DEF InOrder
    <3> HIDE DEF from, to, w, r
    <3>3. Sound(u) /\ Arranged(u, {}) /\ to \in DOMAIN u.sets /\ w \in ToSet(u.sets[to].order)
      BY <2>1, <3>2, CrossingArranged
    <3> HIDE DEF u
    <3>4. Sound(a) /\ to \in DOMAIN a.sets /\ a.sets[to].active = w
      BY <3>3, ActivateShown DEF InOrder
    <3> HIDE DEF a
    <3>5. w \in DOMAIN a.workspaces /\ Shape(a)
      BY <3>4, SoundLookups, SoundShape
    <3>6. w \in DOMAIN t.workspaces
      BY <3>5, SyncOverviewWrites
    <3> HIDE DEF t
    <3>7. InOrder(t)
      BY <2>3, <3>1, SettleState
    <3>8. Harmless(s, r)
      BY <3>1, <3>6, <3>7, SettlesHarmless
    <3>9. QED
      BY <3>8 DEF r
  <2>6. QED
    BY <2>4, <2>5
<1>3. QED
  BY <1>1, <1>2

\* A column moves to the end of a workspace: nothing can fail.
LEMMA MoveColumnToEnds ==
  ASSUME NEW s, InOrder(s), NEW c \in DOMAIN s.columns, NEW to \in DOMAIN s.workspaces
  PROVE  MoveColumnTo(s, c, to, None).ok
<1> DEFINE from == ColumnWorkspace(s, c)
           m1   == s.workspaces[from].mon
           m2   == s.workspaces[to].mon
           k    == TransferColumn(s, c, from, to, None)
           a    == ActivateWorkspace(k, m2, to)
           n1   == NormalizeWorkspaceSet(a, m1)
           n2   == NormalizeWorkspaceSet(n1, m2)
           o    == SyncOverview(n2, m1)
           r    == MoveColumnTo(s, c, to, None)
<1>1. Sound(s) /\ Arranged(s, {})
  BY DEF InOrder
<1>2. from \in DOMAIN s.workspaces /\ from = ColumnWorkspace(s, c)
  BY <1>1, ColumnStands
<1>3. r \in {Settle(s, to), Settle(n1, to), Settle(o, to)}
  BY <1>2 DEF MoveColumnTo, NormalizeBoth
<1>4. m1 \in DOMAIN s.sets /\ m2 \in DOMAIN s.sets /\ to \in ToSet(s.sets[m2].order)
  BY <1>1, <1>2, SoundLookups
<1>5. InOrder(r.st)
  BY MoveColumnToInOrder
<1> HIDE DEF m1, m2, from, r
<1>6. Alike(s, k)
  BY <1>1, <1>2, TransferColumnAlike, SoundShape
<1>7. Arranged(k, {})
  BY <1>1, <1>2, TransferArranged
<1> HIDE DEF k
<1>8. Sound(k) /\ k.sets = s.sets
  BY <1>1, <1>6, AlikeSound DEF Alike
<1>9. Sound(a) /\ DOMAIN a.sets = DOMAIN s.sets /\ a.sets[m2].active = to
  BY <1>4, <1>7, <1>8, ActivateShown DEF InOrder
<1> HIDE DEF a
<1>10. /\ Sound(n1) /\ DOMAIN n1.sets = DOMAIN s.sets /\ n1.sets[m2].active = to
       /\ to \in DOMAIN n1.workspaces
  BY <1>4, <1>9, ShownStays
<1> HIDE DEF n1
<1>11. Sound(n2) /\ to \in DOMAIN n2.workspaces
  BY <1>4, <1>10, ShownStays
<1> HIDE DEF n2
<1>12. to \in DOMAIN o.workspaces
  BY <1>11, SoundShape, SyncOverviewWrites
<1> HIDE DEF o
<1>13. (r = Settle(n1, to) => InOrder(n1)) /\ (r = Settle(o, to) => InOrder(o))
  BY <1>5, SettleState
<1>14. r.ok
  BY <1>1, <1>2, <1>3, <1>10, <1>12, <1>13, LaysOut DEF InOrder
<1>15. QED
  BY <1>14 DEF r

\* A tiled window is in a column of the workspace it names.
LEMMA TiledStands ==
  ASSUME NEW s, Arranged(s, {}), NEW x \in DOMAIN s.windows, s.windows[x].col # None
  PROVE  LET r == s.windows[x]
         IN  r.col \in DOMAIN s.columns /\ x \in ToSet(s.columns[r.col].wins) /\ r.ws \in DOMAIN s.workspaces
<1>1. s.windows[x].col \in DOMAIN s.columns /\ x \in ToSet(s.columns[s.windows[x].col].wins)
  BY DEF Arranged, Placed, WindowFits
<1>2. s.windows[x].ws \in DOMAIN s.workspaces
  BY <1>1 DEF Arranged, Placed, ColumnFits
<1>3. QED
  BY <1>1, <1>2

\* handle_move_column_to_workspace normalises before it moves the column, which
\* then cannot fail.
LEMMA MoveColumnHarmless ==
  ASSUME NEW s, InOrder(s), NEW forward \in BOOLEAN, NEW requested
  PROVE  Harmless(s, MoveColumnToWorkspace(s, forward, requested))
<1> DEFINE m     == CommandMonitor(s, requested)
           from  == ActiveWorkspace(s, m)
           x     == FocusedWindowIn(s, from)
           n     == NormalizeWorkspaceSet(s, m)
           order == n.sets[m].order
           to    == order[StepWithin(Position(order, from), forward, Len(order))]
           c     == s.windows[x].col
           r     == MoveColumnToWorkspace(s, forward, requested)
<1>1. CASE m = None \/ ~IsTiled(s, x)
  BY <1>1 DEF MoveColumnToWorkspace, Err, Harmless
<1>2. CASE m # None /\ IsTiled(s, x)
  <2>1. r \in {Settle(n, from), MoveColumnTo(n, c, to, None)}
    BY <1>2 DEF MoveColumnToWorkspace
  <2>2. m \in DOMAIN s.sets
    BY <1>2, CommandMonitorKnown
  <2>3. x \in DOMAIN s.windows /\ c # None
    BY <1>2 DEF IsTiled, FocusedWindowIn
  <2>4. from = s.sets[m].active
    BY <2>2, SoundLookups DEF InOrder
  <2> HIDE DEF m, from, x, r
  <2>5. c \in DOMAIN s.columns
    BY <2>3, TiledStands DEF InOrder
  <2> HIDE DEF c
  <2>6. InOrder(n) /\ Sound(n) /\ m \in DOMAIN n.sets /\ n.sets[m].active = from
    BY <2>2, <2>4, NormalizeInOrder, NormalizeSound DEF InOrder
  <2>7. n.columns = s.columns
    BY <2>2, NormalizeArranged DEF InOrder, Sound, Tidied, SameLists
  <2> HIDE DEF n
  <2>8. from \in ToSet(n.sets[m].order) /\ from \in DOMAIN n.workspaces
    BY <2>6, SoundLookups
  <2>9. to \in ToSet(n.sets[m].order)
    BY <2>6, <2>8, NeighbourInOrder
  <2> HIDE DEF to
  <2>10. to \in DOMAIN n.workspaces
    BY <2>6, <2>9, SoundLookups
  <2>11. MoveColumnTo(n, c, to, None).ok
    BY <2>5, <2>6, <2>7, <2>10, MoveColumnToEnds
  <2>12. Harmless(s, r)
    BY <2>1, <2>6, <2>8, <2>11, SettlesHarmless DEF Harmless
  <2>13. QED
    BY <2>12 DEF r
<1>3. QED
  BY <1>1, <1>2

\* handle_toggle_floating, handle_toggle_fullscreen: the restore target is in the
\* window's own workspace, so the error after the window was detached is out of
\* reach.
LEMMA ToggleLayerHarmless ==
  ASSUME NEW s, InOrder(s), NEW requested, NEW layer \in Layers
  PROVE  Harmless(s, ToggleLayer(s, requested, layer))
<1> DEFINE x == CommandWindow(s, requested)
           w == s.windows[x].ws
           r == ToggleLayer(s, requested, layer)
<1>1. CASE x \notin DOMAIN s.windows \/ w \notin DOMAIN s.workspaces
  BY <1>1 DEF ToggleLayer, Err, Harmless
<1>2. CASE x \in DOMAIN s.windows /\ w \in DOMAIN s.workspaces
  <2> HIDE DEF x
  <2>1. RestoreOf(s, x).ws = w
    BY <1>2, RestoreOfFits DEF InOrder
  <2>2. r \in {Settle(LeavePlace(s, x, layer), w), Settle(ReturnToPlace(s, x, layer), w)}
    BY <1>2, <2>1 DEF ToggleLayer, x
  <2>3. InOrder(LeavePlace(s, x, layer)) /\ InOrder(ReturnToPlace(s, x, layer))
    BY <1>2, LeavePlaceInOrder, ReturnToPlaceInOrder
  <2>4. w \in DOMAIN LeavePlace(s, x, layer).workspaces
    <3>1. PICK t, m : Alike(s, t) /\ LeavePlace(s, x, layer) = FocusWindow(t, m, w, x, None)
      BY <1>2, LeavePlaceAlike DEF InOrder, Arranged
    <3>2. Shows(t, FocusWindow(t, m, w, x, None), m, w)
      BY <3>1, FocusWindowShows DEF Alike
    <3>3. QED
      BY <1>2, <3>1, <3>2 DEF Shows, Alike
  <2>5. w \in DOMAIN ReturnToPlace(s, x, layer).workspaces
    <3>1. PICK t, m, c : Alike(s, t) /\ ReturnToPlace(s, x, layer) = FocusWindow(t, m, w, x, c)
      BY <1>2, <2>1, ReturnToPlaceAlike DEF InOrder, Arranged
    <3>2. Shows(t, FocusWindow(t, m, w, x, c), m, w)
      BY <3>1, FocusWindowShows DEF Alike
    <3>3. QED
      BY <1>2, <3>1, <3>2 DEF Shows, Alike
  <2> HIDE DEF r
  <2>6. Harmless(s, r)
    BY <2>2, <2>3, <2>4, <2>5, SettlesHarmless
  <2>7. QED
    BY <2>6 DEF r
<1>3. QED
  BY <1>1, <1>2

\* handle_toggle_tabbed
LEMMA ToggleTabbedHarmless ==
  ASSUME NEW s, InOrder(s), NEW requested
  PROVE  Harmless(s, ToggleTabbed(s, requested))
<1> DEFINE x == CommandWindow(s, requested)
           c == s.windows[x].col
           w == s.windows[x].ws
           r == ToggleTabbed(s, requested)
<1>1. CASE x \notin DOMAIN s.windows
  BY <1>1 DEF ToggleTabbed, Err, Harmless
<1>2. CASE x \in DOMAIN s.windows /\ c = None
  BY <1>2, SettleState DEF ToggleTabbed, Harmless
<1>3. CASE x \in DOMAIN s.windows /\ c # None
  <2>1. \E k : r = Settle(SetColumn(s, c, k), w)
    BY <1>3 DEF ToggleTabbed
  <2>2. PICK k : r = Settle(SetColumn(s, c, k), w)
    BY <2>1
  <2> DEFINE t == SetColumn(s, c, k)
  <2>3. InOrder(r.st)
    BY ToggleTabbedInOrder
  <2>4. w \in DOMAIN s.workspaces
    BY <1>3, TiledStands DEF InOrder
  <2>5. w \in DOMAIN t.workspaces
    BY <2>4 DEF SetColumn, InOrder, Arranged, Shape
  <2> HIDE DEF x, r, t
  <2>6. InOrder(t)
    BY <2>2, <2>3, SettleState DEF t
  <2>7. Harmless(s, r)
    BY <2>2, <2>5, <2>6, SettlesHarmless DEF t
  <2>8. QED
    BY <2>7 DEF r
<1>4. QED
  BY <1>1, <1>2, <1>3

\* No request fails after it has changed something.
LEMMA InOrderIsHarmless ==
  ASSUME InOrder(st)
  PROVE  FailedRequestsChangeNothing
<1>1. \A x : \A layer \in Layers : Harmless(st, ToggleLayer(st, x, layer))
  BY ToggleLayerHarmless
<1>2. \A x : Harmless(st, ToggleFloating(st, x)) /\ Harmless(st, ToggleFullscreen(st, x))
  BY <1>1 DEF ToggleFloating, ToggleFullscreen, Layers
<1>3. \A x : Harmless(st, ToggleTabbed(st, x))
  BY ToggleTabbedHarmless
<1>4. \A forward \in BOOLEAN : Harmless(st, FocusNavigation(st, forward, FALSE))
  BY NavigationHarmless
<1>5. \A forward \in BOOLEAN : \A m :
        /\ Harmless(st, FocusWorkspace(st, forward, m))
        /\ Harmless(st, MoveWorkspaceWithinMonitor(st, forward, m))
        /\ Harmless(st, MoveWorkspaceToMonitor(st, forward, m))
        /\ Harmless(st, MoveColumnToWorkspace(st, forward, m))
  BY FocusWorkspaceHarmless, MoveWorkspaceHarmless, MoveWorkspaceToMonitorHarmless,
     MoveColumnHarmless
<1>6. ASSUME NEW x
      PROVE  /\ ToggleFloating(st, x).ok \/ ToggleFloating(st, x).st = st
             /\ ToggleFullscreen(st, x).ok \/ ToggleFullscreen(st, x).st = st
             /\ ToggleTabbed(st, x).ok \/ ToggleTabbed(st, x).st = st
  BY <1>2, <1>3 DEF Harmless
<1>7. ASSUME NEW forward \in BOOLEAN, NEW m
      PROVE  /\ FocusNavigation(st, forward, FALSE).ok \/ FocusNavigation(st, forward, FALSE).st = st
             /\ FocusWorkspace(st, forward, m).ok \/ FocusWorkspace(st, forward, m).st = st
             /\ MoveWorkspaceWithinMonitor(st, forward, m).ok \/ MoveWorkspaceWithinMonitor(st, forward, m).st = st
             /\ MoveWorkspaceToMonitor(st, forward, m).ok \/ MoveWorkspaceToMonitor(st, forward, m).st = st
             /\ MoveColumnToWorkspace(st, forward, m).ok \/ MoveColumnToWorkspace(st, forward, m).st = st
  BY <1>4, <1>5 DEF Harmless
<1>8. QED
  BY <1>6, <1>7 DEF FailedRequestsChangeNothing

\* A request that is answered with an error has changed nothing, so the client may
\* send it again: every handler finds its errors before its first assignment.
THEOREM FailedRequestsStayHarmless == Spec => []FailedRequestsChangeNothing
BY StoreIsInOrder, InOrderIsHarmless, PTL

---------------------------------------------------------------------------
(* Drags of column widths.                                                 *)

\* A drag fails only without its workspace or its column.
LEMMA InOrderEndsDrags ==
  ASSUME InOrder(st)
  PROVE  DragEndsWell
<1> DEFINE v == st.session.ws
           t == [st EXCEPT !.session = NoSession]
<1>1. ASSUME v \in DOMAIN st.workspaces, st.session.col \in DOMAIN st.columns
      PROVE  UpdateResize(st).ok /\ CommitResize(st).ok /\ CancelResize(st).ok
  <2>1. InOrder(t) /\ t.workspaces = st.workspaces
    <3>1. NoSession \in ResizeSession
      BY DEF NoSession, ResizeSession, Option
    <3>2. QED
      BY <3>1, SetSessionInOrder DEF InOrder, Arranged, Shape
  <2> HIDE DEF t
  <2>2. Settle(st, v).ok /\ Settle(t, v).ok
    BY <1>1, <2>1, LaysOut DEF InOrder
  <2>3. QED
    BY <1>1, <2>2 DEF UpdateResize, CommitResize, CancelResize, Ok, t
<1>2. ASSUME HasWidthTarget(st) PROVE BeginResize(st).ok
  <2> DEFINE w == CommandWorkspace(st)
             x == FocusedWindowIn(st, w)
             r == [ws |-> w, col |-> st.windows[x].col, win |-> x]
             b == [st EXCEPT !.session = r]
  <2>1. InOrder(BeginResize(st).st) /\ BeginResize(st) = Settle(b, w)
    BY <1>2, ResizeInOrder DEF BeginResize
  <2>2. x \in DOMAIN st.windows /\ w = st.windows[x].ws /\ st.windows[x].col # None
    BY <1>2, WidthTargetType, NoneIsNoId DEF InOrder, Arranged
  <2> HIDE DEF w, x
  <2>3. w \in DOMAIN st.workspaces
    BY <2>2, TiledStands DEF InOrder
  <2>4. w \in DOMAIN b.workspaces
    BY <2>3 DEF InOrder, Arranged, Shape
  <2> HIDE DEF b
  <2>5. InOrder(b)
    BY <2>1, SettleState
  <2>6. QED
    BY <2>1, <2>4, <2>5, LaysOut DEF InOrder
<1>3. QED
  BY <1>1, <1>2 DEF DragEndsWell

\* As long as the workspace and the column a drag began on exist, no step of the
\* drag fails, whatever happened to the windows meanwhile.
THEOREM DragsEndWell == Spec => []DragEndsWell
BY StoreIsInOrder, InOrderEndsDrags, PTL

---------------------------------------------------------------------------
(* Errors of platform events.                                              *)

\* A discovery is laid out on the workspace its monitor shows.
LEMMA DiscoveryAnswers ==
  ASSUME NEW s, InOrder(s), NEW d, d.mon \in DOMAIN s.sets, Payload(d)
  PROVE  WindowDiscovered(s, d).ok
<1> DEFINE m      == d.mon
           w      == ActiveWorkspace(s, m)
           x      == FreshWindow(s)
           placed == PlaceDiscovered(s, w, x, d)
           node   == [layer |-> d.layer, ws |-> w, col |-> placed.col, managed |-> d.managed,
                      flt |-> d.layer = "Floating", full |-> d.layer = "Fullscreen",
                      restore |-> NoRestore]
           added  == SetWindow(placed.st, x, node)
           active == PutActive(added, m, w)
           focused == IF d.managed /\ ~KeepsFocus(s, w, d)
                      THEN FocusWindow(active, m, w, x, placed.col) ELSE active
           final  == NormalizeWorkspaceSet(focused, m)
<1>1. InOrder(WindowDiscovered(s, d).st)
  BY WindowDiscoveredInOrder
<1>2. CASE ~d.managed
  BY <1>2 DEF WindowDiscovered, Ok
<1>3. CASE d.managed
  <2>1. WindowDiscovered(s, d) = Settle(final, w)
    BY <1>3 DEF WindowDiscovered
  <2>2. Sound(s) /\ Shape(s) /\ m \in DOMAIN s.sets
    BY SoundShape DEF InOrder
  <2>3. w = s.sets[m].active /\ w \in ToSet(s.sets[m].order) /\ w \in DOMAIN s.workspaces
        /\ s.workspaces[w].mon = m
    BY <2>2, SoundLookups
  <2> HIDE DEF x, w
  <2>4. Alike(s, placed.st)
    BY <2>2, <2>3, PlaceDiscoveredAlike
  <2> HIDE DEF placed, node
  <2>5. Alike(placed.st, added)
    BY <2>4, SetWindowAlike DEF Alike
  <2> HIDE DEF added
  <2>6. Sound(added) /\ added.sets = s.sets /\ DOMAIN added.workspaces = DOMAIN s.workspaces
        /\ added.workspaces[w].mon = m
    BY <2>2, <2>3, <2>4, <2>5, AlikeTransitive, AlikeSound DEF Alike
  <2>7. /\ Sound(active) /\ DOMAIN active.sets = DOMAIN s.sets
        /\ active.workspaces = added.workspaces
    BY <2>2, <2>3, <2>6, PutActiveSound
  <2>8. active.sets[m].active = w
    BY <2>6, SoundShape DEF Shape, PutActive, Put
  <2> HIDE DEF active, m
  <2> DEFINE f == FocusWindow(active, m, w, x, placed.col)
  <2>9. Sound(f) /\ DOMAIN f.sets = DOMAIN s.sets
    <3>1. w \in DOMAIN active.workspaces /\ m = active.workspaces[w].mon
      BY <2>3, <2>6, <2>7
    <3>2. Sound(f) /\ DOMAIN f.sets = DOMAIN active.sets
      BY <2>7, <3>1, FocusWindowSound
    <3>3. QED
      BY <2>7, <3>2
  <2>10. Shows(active, f, m, w)
    BY <2>7, SoundShape, FocusWindowShows
  <2>11. focused \in {f, active}
    OBVIOUS
  <2> HIDE DEF f, focused
  <2>12. f.sets[m].active = w
    BY <2>10 DEF Shows, Put
  <2>13. Sound(focused) /\ m \in DOMAIN focused.sets /\ focused.sets[m].active = w
    BY <2>2, <2>7, <2>8, <2>9, <2>11, <2>12
  <2>14. w \in DOMAIN final.workspaces
    BY <2>13, ShownStays
  <2> HIDE DEF final
  <2>15. InOrder(final)
    BY <1>1, <2>1, SettleState
  <2>16. QED
    BY <2>1, <2>14, <2>15, LaysOut DEF InOrder
<1>4. QED
  BY <1>2, <1>3

\* A focus that is observed is laid out on the window's workspace.
LEMMA FocusObservedAnswers ==
  ASSUME NEW s, InOrder(s), NEW x \in DOMAIN s.windows, s.windows[x].ws \in DOMAIN s.workspaces
  PROVE  WindowFocusObserved(s, x).ok
<1> DEFINE w == s.windows[x].ws
           m == s.workspaces[w].mon
           f == FocusWindow(s, m, w, x, s.windows[x].col)
<1>1. WindowFocusObserved(s, x) = Settle(f, w)
  BY DEF WindowFocusObserved
<1>2. InOrder(f)
  BY FocusWindowInOrder
<1>3. Shows(s, f, m, w)
  BY FocusWindowShows DEF InOrder, Arranged
<1> HIDE DEF f
<1>4. w \in DOMAIN f.workspaces
  BY <1>3 DEF Shows
<1>5. QED
  BY <1>1, <1>2, <1>4, LaysOut DEF InOrder

\* A window that closes is laid out on its workspace, if that is still there.
LEMMA DestroyAnswers ==
  ASSUME NEW s, InOrder(s), NEW x \in DOMAIN s.windows
  PROVE  LET r == WindowDestroyed(s, x)
         IN  r.ok \/ s.windows[x].ws \notin DOMAIN r.st.workspaces
<1> DEFINE w == s.windows[x].ws
           r == WindowDestroyed(s, x)
<1>1. InOrder(r.st)
  BY WindowDestroyedInOrder
<1>2. CASE w \notin DOMAIN s.workspaces
  BY <1>2 DEF WindowDestroyed, Err
<1>3. CASE w \in DOMAIN s.workspaces
  <2>1. \E t : r = Settle(t, w)
    BY <1>3 DEF WindowDestroyed
  <2>2. PICK t : r = Settle(t, w)
    BY <2>1
  <2> HIDE DEF r
  <2>3. r.st = t /\ InOrder(t)
    BY <1>1, <2>2, SettleState
  <2>4. r.ok \/ w \notin DOMAIN r.st.workspaces
    BY <2>2, <2>3, SettlesWhenThere
  <2>5. QED
    BY <2>4 DEF r
<1>4. QED
  BY <1>2, <1>3

\* A step of the platform that ends the daemon closes a window.
LEMMA PlatformEnds ==
  ASSUME InOrder(st), Platform, ~up'
  PROVE  \E x \in DOMAIN st.windows : Destroy(x) /\ st.windows[x].ws \notin DOMAIN st'.workspaces
<1>1. \/ \E m \in Monitors : PlugMonitor(m) \/ RefreshMonitor(m)
      \/ \E m \in Monitors, d \in Discoveries : Discover(m, d)
      \/ \E x \in DOMAIN st.windows : Destroy(x)
      \/ \E x \in DOMAIN st.windows : ObserveFocus(x)
  BY DEF Platform
<1>2. CASE \E m \in Monitors : PlugMonitor(m) \/ RefreshMonitor(m)
  BY <1>2 DEF PlugMonitor, RefreshMonitor
<1>3. CASE \E m \in Monitors, d \in Discoveries : Discover(m, d)
  <2>1. PICK m \in Monitors, d \in Discoveries : Discover(m, d)
    BY <1>3
  <2> DEFINE p == [mon |-> m, managed |-> d.managed, layer |-> d.layer, mode |-> d.mode,
                   preserve |-> d.preserve, placement |-> d.placement]
  <2>2. p.mon \in DOMAIN st.sets /\ Payload(p)
    BY <2>1, DiscoveriesArePayloads DEF Discover, Known, Payload
  <2>3. up' = WindowDiscovered(st, p).ok
    BY <2>1 DEF Discover, Fatal
  <2> HIDE DEF p
  <2>4. QED
    BY <2>2, <2>3, DiscoveryAnswers
<1>4. CASE \E x \in DOMAIN st.windows : Destroy(x)
  <2>1. PICK x \in DOMAIN st.windows : Destroy(x)
    BY <1>4
  <2> DEFINE r == WindowDestroyed(st, x)
  <2>2. r.ok \/ st.windows[x].ws \notin DOMAIN r.st.workspaces
    BY DestroyAnswers
  <2>3. up' = r.ok /\ st' = r.st
    BY <2>1 DEF Destroy, Fatal
  <2> HIDE DEF r
  <2>4. QED
    BY <2>1, <2>2, <2>3
<1>5. CASE \E x \in DOMAIN st.windows : ObserveFocus(x)
  <2>1. PICK x \in DOMAIN st.windows : ObserveFocus(x)
    BY <1>5
  <2>2. up' = WindowFocusObserved(st, x).ok /\ st.windows[x].ws \in DOMAIN st.workspaces
    BY <2>1 DEF ObserveFocus, Fatal
  <2>3. QED
    BY <2>2, FocusObservedAnswers
<1>6. QED
  BY <1>1, <1>2, <1>3, <1>4, <1>5

\* A platform event ends the daemon in one case only: the window that closed was on
\* a workspace that is gone, or goes with it.
THEOREM PlatformEndsOnlyWithAWorkspace == Spec => EndsOnlyWithAWorkspace
<1>1. InOrder(st) /\ [Next]_vars
        => [~up' /\ Platform =>
              \E x \in DOMAIN st.windows :
                Destroy(x) /\ st.windows[x].ws \notin DOMAIN st'.workspaces]_vars
  BY PlatformEnds
<1>2. QED
  BY <1>1, StoreIsInOrder, PTL DEF Spec, EndsOnlyWithAWorkspace

---------------------------------------------------------------------------
(* What a handler leaves alone.                                            *)

\* The state, its focus and its overview are records.
Records(s) ==
  /\ DOMAIN s = {"sets", "workspaces", "columns", "windows", "focus", "overview", "session"}
  /\ s.focus = [k \in {"mon", "win", "col", "activeBy"} |-> s.focus[k]]
  /\ s.overview = [k \in {"open", "mon", "sel"} |-> s.overview[k]]

\* A step that works on the monitors M: the others keep their workspaces and what
\* they show, and the overview stays on its monitor.
Affects(s, t, M) ==
  /\ Records(t)
  /\ DOMAIN s.sets \subseteq DOMAIN t.sets
  /\ DOMAIN t.sets \subseteq DOMAIN s.sets \union M
  /\ \A k \in DOMAIN s.sets \ M : t.sets[k] = s.sets[k]
  /\ t.focus.mon # s.focus.mon => t.focus.mon \in M
  /\ t.overview.open = s.overview.open /\ t.overview.mon = s.overview.mon

\* A step that changes no window either.
Spares(s, t, M) == Affects(s, t, M) /\ t.windows = s.windows

\* What such steps leave alone together.
LEMMA TouchesTransitive ==
  ASSUME NEW s, NEW t, NEW u, NEW M, Affects(s, t, M), Affects(t, u, M)
  PROVE  Affects(s, u, M)
BY DEF Affects

\* The same for steps that change no window.
LEMMA SparesTransitive ==
  ASSUME NEW s, NEW t, NEW u, NEW M, Spares(s, t, M), Spares(t, u, M)
  PROVE  Spares(s, u, M)
BY TouchesTransitive DEF Spares

\* A step that does nothing.
LEMMA SparesReflexive ==
  ASSUME NEW s, NEW M, Records(s)
  PROVE  Spares(s, s, M)
BY DEF Spares, Affects

\* A step that moves no mark of the overview either.
Quiet(s, t, M) == Spares(s, t, M) /\ t.overview = s.overview

\* What such steps leave alone together.
LEMMA QuietTransitive ==
  ASSUME NEW s, NEW t, NEW u, NEW M, Quiet(s, t, M), Quiet(t, u, M)
  PROVE  Quiet(s, u, M)
BY SparesTransitive DEF Quiet

\* A step that does nothing.
LEMMA QuietReflexive ==
  ASSUME NEW s, NEW M, Records(s)
  PROVE  Quiet(s, s, M)
BY SparesReflexive DEF Quiet

\* The assignments normalize_workspace_set is made of.
LEMMA AssignmentsQuiet ==
  ASSUME NEW s, Records(s), NEW M, NEW m \in M
  PROVE  /\ \A order : Quiet(s, PutOrder(s, m, order), M)
         /\ \A w : Quiet(s, PutActive(s, m, w), M)
         /\ \A f : Quiet(s, [s EXCEPT !.workspaces = f], M)
<1>1. \A order : Quiet(s, PutOrder(s, m, order), M)
  BY DEF Records, Affects, Spares, Quiet, PutOrder, Put
<1>2. \A w : Quiet(s, PutActive(s, m, w), M)
  BY DEF Records, Affects, Spares, Quiet, PutActive, Put
<1>3. \A f : Quiet(s, [s EXCEPT !.workspaces = f], M)
  BY DEF Records, Affects, Spares, Quiet
<1>4. QED
  BY <1>1, <1>2, <1>3

\* normalize_workspace_set
LEMMA NormalizeQuiet ==
  ASSUME NEW s, Records(s), NEW M, NEW m \in M
  PROVE  Quiet(s, NormalizeWorkspaceSet(s, m), M)
<1>1. ASSUME NEW t, Records(t) PROVE Quiet(t, AppendEmptyWorkspace(t, m), M)
  <2> DEFINE u == [t EXCEPT !.workspaces = Put(t.workspaces, FreshWorkspace(t), EmptyWorkspace(m))]
             o == Append(t.sets[m].order, FreshWorkspace(t))
  <2>1. AppendEmptyWorkspace(t, m) = PutOrder(u, m, o)
    BY DEF AppendEmptyWorkspace
  <2>2. Quiet(t, u, M)
    BY <1>1, AssignmentsQuiet
  <2> HIDE DEF u, o
  <2>3. Quiet(u, PutOrder(u, m, o), M)
    BY <2>2, AssignmentsQuiet DEF Quiet, Spares, Affects
  <2>4. QED
    BY <2>1, <2>2, <2>3, QuietTransitive
<1>2. ASSUME NEW t, Records(t), NEW gone PROVE Quiet(t, RemoveFromSet(t, m, gone), M)
  <2> DEFINE u == [t EXCEPT !.workspaces = Drop(t.workspaces, gone)]
             o == Without(t.sets[m].order, gone)
  <2>1. RemoveFromSet(t, m, gone) = PutOrder(u, m, o)
    BY DEF RemoveFromSet
  <2>2. Quiet(t, u, M)
    BY <1>2, AssignmentsQuiet
  <2> HIDE DEF u, o
  <2>3. Quiet(u, PutOrder(u, m, o), M)
    BY <2>2, AssignmentsQuiet DEF Quiet, Spares, Affects
  <2>4. QED
    BY <2>1, <2>2, <2>3, QuietTransitive
<1>3. ASSUME NEW t, Records(t) PROVE Quiet(t, RefreshWorkspaces(t, m), M)
  <2>1. \E f : RefreshWorkspaces(t, m) = [t EXCEPT !.workspaces = f]
    BY DEF RefreshWorkspaces
  <2>2. QED
    BY <1>3, <2>1, AssignmentsQuiet
<1>4. ASSUME NEW t, Records(t) PROVE Quiet(t, ChooseActive(t, m), M)
  BY <1>4, AssignmentsQuiet DEF ChooseActive
<1> DEFINE a == NonEmptySet(s, m)
           b == RetainOccupied(a, m)
           c == CollapseTail(b, m)
           d == EnsureEmptyTail(c, m)
           e == RefreshWorkspaces(d, m)
<1>5. NormalizeWorkspaceSet(s, m) = ChooseActive(e, m)
  BY DEF NormalizeWorkspaceSet
<1>6. Quiet(s, a, M)
  BY <1>1, QuietReflexive DEF NonEmptySet
<1> HIDE DEF a
<1>7. Quiet(a, b, M)
  BY <1>2, <1>6 DEF RetainOccupied, Quiet, Spares, Affects
<1> HIDE DEF b
<1>8. Quiet(b, c, M)
  BY <1>2, <1>7 DEF CollapseTail, Quiet, Spares, Affects
<1> HIDE DEF c
<1>9. Quiet(c, d, M)
  <2>1. Records(c)
    BY <1>8 DEF Quiet, Spares, Affects
  <2>2. QED
    BY <1>1, <2>1, QuietReflexive DEF EnsureEmptyTail
<1> HIDE DEF d
<1>10. Quiet(d, e, M)
  BY <1>3, <1>9 DEF Quiet, Spares, Affects
<1> HIDE DEF e
<1>11. Quiet(e, ChooseActive(e, m), M)
  BY <1>4, <1>10 DEF Quiet, Spares, Affects
<1>12. QED
  BY <1>5, <1>6, <1>7, <1>8, <1>9, <1>10, <1>11, QuietTransitive

\* The same without the mark.
LEMMA NormalizeSpares ==
  ASSUME NEW s, Records(s), NEW M, NEW m \in M
  PROVE  Spares(s, NormalizeWorkspaceSet(s, m), M)
BY NormalizeQuiet DEF Quiet

\* The same of the single assignments.
LEMMA AssignmentsSpare ==
  ASSUME NEW s, Records(s), NEW M, NEW m \in M
  PROVE  /\ \A order : Spares(s, PutOrder(s, m, order), M)
         /\ \A w : Spares(s, PutActive(s, m, w), M)
         /\ \A f : Spares(s, [s EXCEPT !.workspaces = f], M)
BY AssignmentsQuiet DEF Quiet

\* Two monitors are normalised.
LEMMA NormalizeBothQuiet ==
  ASSUME NEW s, Records(s), NEW M, NEW m1 \in M, NEW m2 \in M
  PROVE  Quiet(s, NormalizeBoth(s, m1, m2), M)
<1> DEFINE n == NormalizeWorkspaceSet(s, m1)
<1>1. Quiet(s, n, M) /\ Records(n)
  BY NormalizeQuiet DEF Quiet, Spares, Affects
<1> HIDE DEF n
<1>2. Quiet(n, NormalizeWorkspaceSet(n, m2), M)
  BY <1>1, NormalizeQuiet
<1>3. QED
  BY <1>1, <1>2, QuietTransitive DEF NormalizeBoth, n

\* The same without the mark.
LEMMA NormalizeBothSpares ==
  ASSUME NEW s, Records(s), NEW M, NEW m1 \in M, NEW m2 \in M
  PROVE  Spares(s, NormalizeBoth(s, m1, m2), M)
BY NormalizeBothQuiet DEF Quiet

\* set_focus_to_window, set_active_workspace_without_focus
LEMMA FocusSpares ==
  ASSUME NEW s, Records(s), NEW M, NEW m \in M
  PROVE  /\ \A w, x, c : Spares(s, FocusWindow(s, m, w, x, c), M)
         /\ \A w : Spares(s, FocusNoWindow(s, m, w), M)
         /\ \A x, c : Spares(s, SetFocus(s, m, x, c), M)
<1>1. ASSUME NEW t, Records(t), NEW x, NEW c PROVE Spares(t, SetFocus(t, m, x, c), M)
  BY <1>1 DEF Records, Affects, Spares, SetFocus
<1>2. ASSUME NEW t, Records(t), NEW w PROVE Spares(t, PutActive(t, m, w), M)
  BY <1>2, AssignmentsSpare
<1>3. ASSUME NEW w, NEW x, NEW c PROVE Spares(s, FocusWindow(s, m, w, x, c), M)
  <2> DEFINE r == Remember(s, w, x, c)
             q == SelectInColumn(r, c, x)
             p == PutActive(q, m, w)
  <2>1. FocusWindow(s, m, w, x, c) = SetFocus(p, m, x, c)
    BY DEF FocusWindow
  <2>2. Spares(s, r, M)
    BY AssignmentsSpare DEF Remember
  <2> HIDE DEF r
  <2>3. Spares(r, q, M)
    BY <2>2 DEF Records, Spares, Affects, SelectInColumn
  <2> HIDE DEF q
  <2>4. Spares(q, p, M)
    BY <1>2, <2>3 DEF Spares, Affects
  <2> HIDE DEF p
  <2>5. Spares(p, SetFocus(p, m, x, c), M)
    BY <1>1, <2>4 DEF Spares, Affects
  <2>6. QED
    BY <2>1, <2>2, <2>3, <2>4, <2>5, SparesTransitive
<1>4. ASSUME NEW w PROVE Spares(s, FocusNoWindow(s, m, w), M)
  <2> DEFINE p == PutActive(s, m, w)
  <2>1. Spares(s, p, M)
    BY <1>2
  <2> HIDE DEF p
  <2>2. Spares(p, SetFocus(p, m, None, None), M)
    BY <1>1, <2>1 DEF Spares, Affects
  <2>3. QED
    BY <2>1, <2>2, SparesTransitive DEF FocusNoWindow, p
<1>5. QED
  BY <1>1, <1>3, <1>4

\* sync_overview_selection
LEMMA SyncOverviewSpares ==
  ASSUME NEW s, Records(s), NEW M, NEW m
  PROVE  Spares(s, SyncOverview(s, m), M)
BY DEF Records, Affects, Spares, SyncOverview

\* activate_workspace
LEMMA ActivateSpares ==
  ASSUME NEW s, Records(s), NEW M, NEW m \in M, NEW w
  PROVE  Spares(s, ActivateWorkspace(s, m, w), M)
<1> DEFINE g == WorkspaceFocusTarget(s, w)
           f == IF g.win # None THEN FocusWindow(s, m, w, g.win, g.col) ELSE FocusNoWindow(s, m, w)
<1>1. ActivateWorkspace(s, m, w) = SyncOverview(f, m)
  BY DEF ActivateWorkspace
<1>2. Spares(s, f, M)
  BY FocusSpares
<1> HIDE DEF f
<1>3. Spares(f, SyncOverview(f, m), M)
  <2>1. Records(f)
    BY <1>2 DEF Spares, Affects
  <2>2. QED
    BY <2>1, SyncOverviewSpares
<1>4. QED
  BY <1>1, <1>2, <1>3, SparesTransitive

\* A step that moves windows and columns between lists only.
Rearranges(s, t) ==
  /\ Records(t)
  /\ t.sets = s.sets /\ t.focus = s.focus /\ t.overview = s.overview

\* It touches no monitor.
LEMMA RearrangingTouches ==
  ASSUME NEW s, NEW t, Rearranges(s, t), NEW M
  PROVE  Affects(s, t, M)
BY DEF Rearranges, Affects

\* Two of them.
LEMMA RearrangesTransitive ==
  ASSUME NEW s, NEW t, NEW u, Rearranges(s, t), Rearranges(t, u)
  PROVE  Rearranges(s, u)
BY DEF Rearranges

\* The assignments they are made of.
LEMMA WritesRearrange ==
  ASSUME NEW s, Records(s)
  PROVE  /\ \A w, r : Rearranges(s, SetWorkspace(s, w, r)) /\ SetWorkspace(s, w, r).windows = s.windows
         /\ \A c, r : Rearranges(s, SetColumn(s, c, r)) /\ SetColumn(s, c, r).windows = s.windows
         /\ \A x, r : Rearranges(s, SetWindow(s, x, r))
                      /\ SetWindow(s, x, r).windows = Put(s.windows, x, r)
         /\ \A f : Rearranges(s, [s EXCEPT !.columns = f]) /\ [s EXCEPT !.columns = f].windows = s.windows
         /\ \A f : Rearranges(s, [s EXCEPT !.windows = f]) /\ [s EXCEPT !.windows = f].windows = f
BY DEF Records, Rearranges, SetWorkspace, SetColumn, SetWindow

\* A window enters a column of its own, a column, or the floating layer.
LEMMA EnteringRearranges ==
  ASSUME NEW s, Records(s), NEW w, NEW x
  PROVE  /\ \A mode, at : Rearranges(s, InsertNewColumn(s, w, x, mode, at))
                          /\ InsertNewColumn(s, w, x, mode, at).windows = s.windows
         /\ \A c : Rearranges(s, JoinColumn(s, c, x)) /\ JoinColumn(s, c, x).windows = s.windows
         /\ Rearranges(s, PushFloating(s, w, x)) /\ PushFloating(s, w, x).windows = s.windows
<1>1. ASSUME NEW mode, NEW at
      PROVE  Rearranges(s, InsertNewColumn(s, w, x, mode, at))
             /\ InsertNewColumn(s, w, x, mode, at).windows = s.windows
  <2> DEFINE t == SetColumn(s, FreshColumn(s), NewColumn(mode, x))
  <2>1. \E r : InsertNewColumn(s, w, x, mode, at) = SetWorkspace(t, w, r)
    BY DEF InsertNewColumn
  <2>2. Rearranges(s, t) /\ t.windows = s.windows
    BY WritesRearrange
  <2> HIDE DEF t
  <2>3. QED
    BY <2>1, <2>2, WritesRearrange, RearrangesTransitive DEF Rearranges
<1>2. ASSUME NEW c PROVE Rearranges(s, JoinColumn(s, c, x)) /\ JoinColumn(s, c, x).windows = s.windows
  <2>1. \E r : JoinColumn(s, c, x) = SetColumn(s, c, r)
    BY DEF JoinColumn
  <2>2. QED
    BY <2>1, WritesRearrange
<1>3. Rearranges(s, PushFloating(s, w, x)) /\ PushFloating(s, w, x).windows = s.windows
  <2>1. \E r : PushFloating(s, w, x) = SetWorkspace(s, w, r)
    BY DEF PushFloating
  <2>2. QED
    BY <2>1, WritesRearrange
<1>4. QED
  BY <1>1, <1>2, <1>3

\* A window leaves the list it is in.
LEMMA DetachingRearranges ==
  ASSUME NEW s, Records(s), NEW x
  PROVE  Rearranges(s, DetachWindow(s, x)) /\ DetachWindow(s, x).windows = s.windows
<1>1. ASSUME NEW w PROVE Rearranges(s, LeaveFloating(s, w, x)) /\ LeaveFloating(s, w, x).windows = s.windows
  <2>1. \E r : LeaveFloating(s, w, x) = SetWorkspace(s, w, r)
    BY DEF LeaveFloating
  <2>2. QED
    BY <2>1, WritesRearrange
<1>2. ASSUME NEW c PROVE Rearranges(s, LeaveSharedColumn(s, c, x))
                         /\ LeaveSharedColumn(s, c, x).windows = s.windows
  <2>1. \E r : LeaveSharedColumn(s, c, x) = SetColumn(s, c, r)
    BY DEF LeaveSharedColumn
  <2>2. QED
    BY <2>1, WritesRearrange
<1>3. ASSUME NEW w, NEW c PROVE Rearranges(s, LeaveOwnColumn(s, w, c))
                                /\ LeaveOwnColumn(s, w, c).windows = s.windows
  <2> DEFINE t == [s EXCEPT !.columns = Drop(s.columns, {c})]
  <2>1. \E r : LeaveOwnColumn(s, w, c) = SetWorkspace(t, w, r)
    BY DEF LeaveOwnColumn
  <2>2. Rearranges(s, t) /\ t.windows = s.windows
    BY WritesRearrange
  <2> HIDE DEF t
  <2>3. QED
    BY <2>1, <2>2, WritesRearrange, RearrangesTransitive DEF Rearranges
<1>4. QED
  BY <1>1, <1>2, <1>3 DEF DetachWindow

\* What a step that only rearranges answers.
Placing(s, p) == Rearranges(s, p.st) /\ p.st.windows = s.windows

\* A window comes back to its place.
LEMMA RestoringRearranges ==
  ASSUME NEW s, Records(s), NEW x, NEW target
  PROVE  Placing(s, RestoreWindow(s, x, target))
<1> DEFINE p == RestoreWindow(s, x, target)
           w == target.ws
<1>1. \/ p.st = PushFloating(s, w, x)
      \/ \E c : p.st = JoinColumn(s, c, x)
      \/ \E mode, at : p.st = InsertNewColumn(s, w, x, mode, at)
  BY DEF RestoreWindow
<1> HIDE DEF p, w
<1>2. Placing(s, p)
  BY <1>1, EnteringRearranges DEF Placing
<1>3. QED
  BY <1>2 DEF p

\* A discovered window finds its place.
LEMMA PlacingRearranges ==
  ASSUME NEW s, Records(s), NEW w, NEW x, NEW d
  PROVE  Placing(s, PlaceDiscovered(s, w, x, d))
<1> DEFINE p == PlaceDiscovered(s, w, x, d)
<1>1. \/ PlaceTiled(s, w, x, d).st \in {JoinColumn(s, c, x) : c \in {FocusedColumnIn(s, w)}}
      \/ \E mode, at : PlaceTiled(s, w, x, d).st = InsertNewColumn(s, w, x, mode, at)
  BY DEF PlaceTiled
<1>2. \/ p.st = s
      \/ p.st = PushFloating(s, w, x)
      \/ p.st = PlaceTiled(s, w, x, d).st
  BY DEF PlaceDiscovered
<1> HIDE DEF p
<1>3. Rearranges(s, s)
  BY DEF Rearranges
<1>4. Placing(s, p)
  BY <1>1, <1>2, <1>3, EnteringRearranges DEF Placing
<1>5. QED
  BY <1>4 DEF p

\* A step that works on the monitors M and closes no window.
Keeps(s, t, M) == Affects(s, t, M) /\ DOMAIN s.windows \subseteq DOMAIN t.windows

\* Such steps compose, and sparing ones are among them.
LEMMA KeepsTransitive ==
  ASSUME NEW s, NEW t, NEW u, NEW M, Keeps(s, t, M), Keeps(t, u, M)
  PROVE  Keeps(s, u, M)
BY TouchesTransitive DEF Keeps

\* A step that spares the windows closes none.
LEMMA SparesKeeps ==
  ASSUME NEW s, NEW t, NEW M, Spares(s, t, M)
  PROVE  Keeps(s, t, M)
BY DEF Spares, Keeps

\* So are those that only move windows between lists.
LEMMA RearrangesSpares ==
  ASSUME NEW s, NEW t, Rearranges(s, t), t.windows = s.windows, NEW M
  PROVE  Spares(s, t, M)
BY RearrangingTouches DEF Spares

\* add_monitor
LEMMA PlugQuiet ==
  ASSUME NEW s, Records(s), NEW m, m \notin DOMAIN s.sets
  PROVE  Quiet(s, AddMonitor(s, m), {m})
<1> DEFINE w == FreshWorkspace(s)
           a == [s EXCEPT
                   !.workspaces = Put(s.workspaces, w, EmptyWorkspace(m)),
                   !.sets = Put(s.sets, m, [order |-> <<w>>, active |-> w]),
                   !.focus = [s.focus EXCEPT
                                !.activeBy = Put(s.focus.activeBy, m, w),
                                !.mon = IF s.focus.mon = None THEN m ELSE s.focus.mon]]
<1>1. AddMonitor(s, m) = NormalizeWorkspaceSet(a, m)
  BY DEF AddMonitor
<1>2. a.focus.mon \in {m, s.focus.mon}
  BY DEF Records
<1>3. Records(a)
  BY DEF Records
<1>4. /\ a.sets = Put(s.sets, m, [order |-> <<w>>, active |-> w])
      /\ a.windows = s.windows /\ a.overview = s.overview
  BY DEF Records
<1> HIDE DEF a
<1>5. Quiet(s, a, {m})
  BY <1>2, <1>3, <1>4 DEF Quiet, Spares, Affects, Put
<1>6. Quiet(a, NormalizeWorkspaceSet(a, m), {m})
  BY <1>3, NormalizeQuiet
<1>7. QED
  BY <1>1, <1>5, <1>6, QuietTransitive

\* handle_window_discovered
LEMMA DiscoverKeeps ==
  ASSUME NEW s, Records(s), NEW d, NEW M, NEW m \in M, m = d.mon
  PROVE  Keeps(s, WindowDiscovered(s, d).st, M)
<1> DEFINE w       == ActiveWorkspace(s, m)
           x       == FreshWindow(s)
           placed  == PlaceDiscovered(s, w, x, d)
           node    == [layer |-> d.layer, ws |-> w, col |-> placed.col, managed |-> d.managed,
                       flt |-> d.layer = "Floating", full |-> d.layer = "Fullscreen",
                       restore |-> NoRestore]
           added   == SetWindow(placed.st, x, node)
           active  == PutActive(added, m, w)
           focused == IF d.managed /\ ~KeepsFocus(s, w, d)
                      THEN FocusWindow(active, m, w, x, placed.col) ELSE active
           final   == NormalizeWorkspaceSet(focused, m)
<1>1. WindowDiscovered(s, d).st = final
  BY SettleState DEF WindowDiscovered, Ok
<1> HIDE DEF w, x, node
<1>2. Placing(s, placed)
  BY PlacingRearranges
<1>3. Keeps(s, placed.st, M)
  BY <1>2, RearrangesSpares, SparesKeeps DEF Placing
<1> HIDE DEF placed
<1>4. Keeps(placed.st, added, M)
  <2>1. Records(placed.st)
    BY <1>2 DEF Placing, Rearranges
  <2>2. Rearranges(placed.st, added) /\ added.windows = Put(placed.st.windows, x, node)
    BY <2>1, WritesRearrange
  <2>3. QED
    BY <2>2, RearrangingTouches DEF Keeps, Put
<1> HIDE DEF added
<1>5. Keeps(added, active, M)
  BY <1>4, AssignmentsSpare, SparesKeeps DEF Keeps, Affects
<1> HIDE DEF active
<1>6. Keeps(active, focused, M)
  <2>1. Records(active)
    BY <1>5 DEF Keeps, Affects
  <2>2. Keeps(active, active, M)
    BY <2>1, SparesReflexive, SparesKeeps
  <2>3. Keeps(active, FocusWindow(active, m, w, x, placed.col), M)
    BY <2>1, FocusSpares, SparesKeeps
  <2>4. QED
    BY <2>2, <2>3
<1> HIDE DEF focused
<1>7. Keeps(focused, final, M)
  BY <1>6, NormalizeSpares, SparesKeeps DEF Keeps, Affects
<1> HIDE DEF final
<1>8. QED
  BY <1>1, <1>3, <1>4, <1>5, <1>6, <1>7, KeepsTransitive

\* handle_window_focus_observed
LEMMA FocusObservedSpares ==
  ASSUME NEW s, Records(s), NEW x, NEW M, s.workspaces[s.windows[x].ws].mon \in M
  PROVE  Spares(s, WindowFocusObserved(s, x).st, M)
<1> DEFINE w == s.windows[x].ws
           m == s.workspaces[w].mon
           c == s.windows[x].col
<1>1. WindowFocusObserved(s, x).st = FocusWindow(s, m, w, x, c)
  BY SettleState DEF WindowFocusObserved
<1> HIDE DEF m, w, c
<1>2. m \in M
  BY DEF m, w
<1>3. QED
  BY <1>1, <1>2, FocusSpares

\* handle_focus_navigation
LEMMA NavigationSpares ==
  ASSUME NEW s, Records(s), NEW forward, NEW tabs, NEW M,
         CommandWorkspace(s) \in DOMAIN s.workspaces => s.workspaces[CommandWorkspace(s)].mon \in M
  PROVE  Spares(s, FocusNavigation(s, forward, tabs).st, M)
<1> DEFINE w == CommandWorkspace(s)
           m == s.workspaces[w].mon
           t == FocusNavigation(s, forward, tabs).st
<1>1. t = s \/ (w \in DOMAIN s.workspaces /\ \E x, c : t = FocusWindow(s, m, w, x, c))
  BY SettleState DEF FocusNavigation, Err
<1>2. w \in DOMAIN s.workspaces => m \in M
  OBVIOUS
<1> HIDE DEF w, m, t
<1>3. Spares(s, t, M)
  BY <1>1, <1>2, FocusSpares, SparesReflexive
<1>4. QED
  BY <1>3 DEF t

\* handle_focus_workspace changes nothing, or normalises the monitor, or also
\* shows another of its workspaces.
LEMMA FocusWorkspaceState ==
  ASSUME NEW s, NEW forward, NEW requested
  PROVE  LET m     == CommandMonitor(s, requested)
             n     == NormalizeWorkspaceSet(s, m)
             order == n.sets[m].order
             w     == ActiveWorkspace(n, m)
             to    == order[StepWithin(Position(order, w), forward, Len(order))]
             u     == NormalizeWorkspaceSet(ActivateWorkspace(n, m, to), m)
             t     == FocusWorkspace(s, forward, requested).st
         IN  t = s \/ (m # None /\ (t = n \/ t = u))
<1> DEFINE m     == CommandMonitor(s, requested)
           n     == NormalizeWorkspaceSet(s, m)
           order == n.sets[m].order
           w     == ActiveWorkspace(n, m)
           to    == order[StepWithin(Position(order, w), forward, Len(order))]
           u     == NormalizeWorkspaceSet(ActivateWorkspace(n, m, to), m)
           r     == FocusWorkspace(s, forward, requested)
<1>1. r = Err(s) \/ (m # None /\ (r = Settle(n, w) \/ r = Settle(u, to)))
  BY DEF FocusWorkspace
<1>2. Err(s).st = s
  BY DEF Err
<1> HIDE DEF m, n, order, w, to, u, r
<1>3. r.st = s \/ (m # None /\ (r.st = n \/ r.st = u))
  BY <1>1, <1>2, SettleState
<1>4. QED
  BY <1>3 DEF m, n, order, w, to, u, r

\* handle_toggle_tabbed changes nothing but the column of its window.
LEMMA ToggleTabbedState ==
  ASSUME NEW s, NEW requested
  PROVE  LET t == ToggleTabbed(s, requested).st
         IN  t = s \/ \E r : t = SetColumn(s, s.windows[CommandWindow(s, requested)].col, r)
<1> DEFINE x == CommandWindow(s, requested)
           c == s.windows[x].col
           w == s.windows[x].ws
           t == ToggleTabbed(s, requested)
<1>1. t = Err(s) \/ t = Settle(s, w) \/ \E r : t = Settle(SetColumn(s, c, r), w)
  BY DEF ToggleTabbed
<1>2. Err(s).st = s
  BY DEF Err
<1> HIDE DEF x, c, w, t
<1>3. t.st = s \/ \E r : t.st = SetColumn(s, c, r)
  BY <1>1, <1>2, SettleState
<1>4. QED
  BY <1>3 DEF x, c, t

\* handle_focus_workspace
LEMMA FocusWorkspaceSpares ==
  ASSUME NEW s, Records(s), NEW forward, NEW requested, NEW M,
         CommandMonitor(s, requested) # None => CommandMonitor(s, requested) \in M
  PROVE  Spares(s, FocusWorkspace(s, forward, requested).st, M)
<1> DEFINE m     == CommandMonitor(s, requested)
           n     == NormalizeWorkspaceSet(s, m)
           order == n.sets[m].order
           w     == ActiveWorkspace(n, m)
           to    == order[StepWithin(Position(order, w), forward, Len(order))]
           a     == ActivateWorkspace(n, m, to)
           u     == NormalizeWorkspaceSet(a, m)
           t     == FocusWorkspace(s, forward, requested).st
<1>1. t = s \/ (m # None /\ (t = n \/ t = u))
  BY FocusWorkspaceState
<1>2. m # None => m \in M
  OBVIOUS
<1> HIDE DEF m, t
<1>3. ASSUME m \in M PROVE Spares(s, n, M) /\ Spares(s, u, M)
  <2>1. Spares(s, n, M)
    BY <1>3, NormalizeSpares
  <2> HIDE DEF n, to
  <2>2. Spares(n, a, M)
    BY <1>3, <2>1, ActivateSpares DEF Spares, Affects
  <2> HIDE DEF a
  <2>3. Spares(a, u, M)
    BY <1>3, <2>2, NormalizeSpares DEF Spares, Affects
  <2> HIDE DEF u
  <2>4. QED
    BY <2>1, <2>2, <2>3, SparesTransitive
<1> HIDE DEF n, u
<1>4. Spares(s, t, M)
  BY <1>1, <1>2, <1>3, SparesReflexive
<1>5. QED
  BY <1>4 DEF t

\* handle_move_workspace_within_monitor
LEMMA MoveWorkspaceSpares ==
  ASSUME NEW s, Records(s), NEW forward, NEW requested, NEW M,
         CommandMonitor(s, requested) # None => CommandMonitor(s, requested) \in M
  PROVE  Spares(s, MoveWorkspaceWithinMonitor(s, forward, requested).st, M)
<1> DEFINE m     == CommandMonitor(s, requested)
           n     == NormalizeWorkspaceSet(s, m)
           order == n.sets[m].order
           w     == ActiveWorkspace(n, m)
           i     == Position(order, w)
           j     == StepWithin(i, forward, Len(order))
           o     == Swapped(order, i, j)
           a     == PutOrder(n, m, o)
           u     == NormalizeWorkspaceSet(a, m)
           v     == SyncOverview(u, m)
           t     == MoveWorkspaceWithinMonitor(s, forward, requested).st
<1>1. t = s \/ (m # None /\ (t = n \/ t = v))
  BY SettleState DEF MoveWorkspaceWithinMonitor, Err
<1>2. m # None => m \in M
  OBVIOUS
<1> HIDE DEF m, t
<1>3. ASSUME m \in M PROVE Spares(s, n, M) /\ Spares(s, v, M)
  <2>1. Spares(s, n, M)
    BY <1>3, NormalizeSpares
  <2> HIDE DEF n, o
  <2>2. Spares(n, a, M)
    BY <1>3, <2>1, AssignmentsSpare DEF Spares, Affects
  <2> HIDE DEF a
  <2>3. Spares(a, u, M)
    BY <1>3, <2>2, NormalizeSpares DEF Spares, Affects
  <2> HIDE DEF u
  <2>4. Spares(u, v, M)
    <3>1. Records(u)
      BY <2>3 DEF Spares, Affects
    <3>2. QED
      BY <3>1, SyncOverviewSpares
  <2> HIDE DEF v
  <2>5. QED
    BY <2>1, <2>2, <2>3, <2>4, SparesTransitive
<1> HIDE DEF n, v
<1>4. Spares(s, t, M)
  BY <1>1, <1>2, <1>3, SparesReflexive
<1>5. QED
  BY <1>4 DEF t

\* A workspace crosses from one monitor to another.
LEMMA RehostQuiet ==
  ASSUME NEW s, Records(s), NEW M, NEW from \in M, NEW to \in M, NEW w
  PROVE  Quiet(s, RehostWorkspace(s, from, to, w), M)
<1> DEFINE o == Without(s.sets[from].order, {w})
           left == PutOrder(s, from, o)
           e == [order |-> InsertAt(s.sets[to].order, TailPosition(s, to), w), active |-> w]
           placed == [left EXCEPT !.sets = Put(left.sets, to, e)]
           f == [k \in DOMAIN s.workspaces |->
                   IF k = w THEN Hosted(s.workspaces[k], to) ELSE s.workspaces[k]]
<1>1. RehostWorkspace(s, from, to, w) = [placed EXCEPT !.workspaces = f]
  BY DEF RehostWorkspace
<1> HIDE DEF o, e, f
<1>2. Quiet(s, left, M)
  BY AssignmentsQuiet
<1> HIDE DEF left
<1>3. Quiet(left, placed, M)
  BY <1>2 DEF Quiet, Spares, Affects, Records, Put
<1> HIDE DEF placed
<1>4. Quiet(placed, [placed EXCEPT !.workspaces = f], M)
  <2>1. Records(placed)
    BY <1>3 DEF Quiet, Spares, Affects
  <2>2. QED
    BY <2>1, AssignmentsQuiet
<1>5. QED
  BY <1>1, <1>2, <1>3, <1>4, QuietTransitive

\* handle_move_workspace_to_adjacent_monitor
LEMMA MoveWorkspaceToMonitorSpares ==
  ASSUME NEW s, Records(s), NEW forward, NEW requested, NEW M,
         LET from == CommandMonitor(s, requested)
         IN  from # None => from \in M /\ AdjacentMonitor(s, from, forward) \in M
  PROVE  Spares(s, MoveWorkspaceToMonitor(s, forward, requested).st, M)
<1> DEFINE from == CommandMonitor(s, requested)
           to   == AdjacentMonitor(s, from, forward)
           w    == ActiveWorkspace(s, from)
           n    == NormalizeBoth(s, from, to)
           h    == RehostWorkspace(n, from, to, w)
           u    == NormalizeBoth(h, from, to)
           a    == ActivateWorkspace(u, to, w)
           v    == SyncOverview(a, from)
           t    == MoveWorkspaceToMonitor(s, forward, requested).st
<1>1. t = s \/ (from # None /\ t = v)
  BY SettleState DEF MoveWorkspaceToMonitor, Err
<1>2. from # None => from \in M /\ to \in M
  OBVIOUS
<1> HIDE DEF from, to, w, t
<1>3. ASSUME from \in M, to \in M PROVE Spares(s, v, M)
  <2>1. Spares(s, n, M)
    BY <1>3, NormalizeBothSpares
  <2> HIDE DEF n
  <2>2. Spares(n, h, M)
    BY <1>3, <2>1, RehostQuiet DEF Quiet, Spares, Affects
  <2> HIDE DEF h
  <2>3. Spares(h, u, M)
    BY <1>3, <2>2, NormalizeBothSpares DEF Spares, Affects
  <2> HIDE DEF u
  <2>4. Spares(u, a, M)
    BY <1>3, <2>3, ActivateSpares DEF Spares, Affects
  <2> HIDE DEF a
  <2>5. Spares(a, v, M)
    <3>1. Records(a)
      BY <2>4 DEF Spares, Affects
    <3>2. QED
      BY <3>1, SyncOverviewSpares
  <2> HIDE DEF v
  <2>6. QED
    BY <2>1, <2>2, <2>3, <2>4, <2>5, SparesTransitive
<1> HIDE DEF v
<1>4. Spares(s, t, M)
  BY <1>1, <1>2, <1>3, SparesReflexive
<1>5. QED
  BY <1>4 DEF t

\* The windows of a column that goes to workspace `to`.
Transferred(s, c, to) ==
  [x \in DOMAIN s.windows |->
     IF x \in ToSet(s.columns[c].wins) THEN [s.windows[x] EXCEPT !.ws = to, !.col = c]
     ELSE s.windows[x]]

\* A column changes its workspace with its windows.
LEMMA TransferRearranges ==
  ASSUME NEW s, Records(s), NEW c, NEW from, NEW to, NEW after
  PROVE  /\ Rearranges(s, TransferColumn(s, c, from, to, after))
         /\ TransferColumn(s, c, from, to, after).windows = Transferred(s, c, to)
<1> DEFINE wins == ToSet(s.columns[c].wins)
           x    == ColumnActiveWindow(s.columns[c])
           r    == ForgetColumn(s.workspaces[from], c, wins)
           left == SetWorkspace(s, from, r)
           q    == TakeColumn(left.workspaces[to], c, after, x)
           in   == SetWorkspace(left, to, q)
           f    == [k \in DOMAIN s.windows |->
                      IF k \in wins THEN [s.windows[k] EXCEPT !.ws = to, !.col = c] ELSE s.windows[k]]
<1>1. TransferColumn(s, c, from, to, after) = [in EXCEPT !.windows = f]
  BY DEF TransferColumn
<1> HIDE DEF f, r, q
<1>2. Rearranges(s, left) /\ left.windows = s.windows
  BY WritesRearrange
<1> HIDE DEF left
<1>3. Rearranges(left, in) /\ in.windows = left.windows
  BY <1>2, WritesRearrange DEF Rearranges
<1> HIDE DEF in
<1>4. Rearranges(in, [in EXCEPT !.windows = f]) /\ [in EXCEPT !.windows = f].windows = f
  BY <1>3, WritesRearrange DEF Rearranges
<1>5. Rearranges(s, [in EXCEPT !.windows = f])
  BY <1>2, <1>3, <1>4, RearrangesTransitive
<1>6. QED
  BY <1>1, <1>4, <1>5 DEF f, Transferred

\* So every monitor keeps what it has.
LEMMA TransferKeeps ==
  ASSUME NEW s, Records(s), NEW c, NEW from, NEW to, NEW after, NEW M
  PROVE  Keeps(s, TransferColumn(s, c, from, to, after), M)
<1> DEFINE k == TransferColumn(s, c, from, to, after)
<1>1. Rearranges(s, k) /\ k.windows = Transferred(s, c, to)
  BY TransferRearranges
<1> HIDE DEF k
<1>2. Keeps(s, k, M)
  BY <1>1, RearrangingTouches DEF Keeps, Transferred
<1>3. QED
  BY <1>2 DEF k

\* move_column_to_workspace_target_internal
LEMMA MoveColumnToSpares ==
  ASSUME NEW s, Records(s), NEW c, NEW to, NEW after, NEW M,
         s.workspaces[ColumnWorkspace(s, c)].mon \in M, s.workspaces[to].mon \in M
  PROVE  \/ MoveColumnTo(s, c, to, after).st = s
         \/ Spares(TransferColumn(s, c, ColumnWorkspace(s, c), to, after),
                   MoveColumnTo(s, c, to, after).st, M)
<1> DEFINE from == ColumnWorkspace(s, c)
           m1   == s.workspaces[from].mon
           m2   == s.workspaces[to].mon
           k    == TransferColumn(s, c, from, to, after)
           a    == ActivateWorkspace(k, m2, to)
           n1   == NormalizeWorkspaceSet(a, m1)
           n2   == NormalizeBoth(a, m1, m2)
           v    == SyncOverview(n2, m1)
           t    == MoveColumnTo(s, c, to, after).st
<1>1. t \in {s, n1, v}
  BY SettleState DEF MoveColumnTo, Err
<1>2. m1 \in M /\ m2 \in M
  OBVIOUS
<1> HIDE DEF m1, m2, t
<1>3. Records(k)
  <2>1. Keeps(s, k, M)
    BY TransferKeeps
  <2>2. QED
    BY <2>1 DEF Keeps, Affects
<1> HIDE DEF k
<1>4. Spares(k, a, M) /\ Records(a)
  BY <1>2, <1>3, ActivateSpares DEF Spares, Affects
<1> HIDE DEF a
<1>5. Spares(a, n1, M)
  BY <1>2, <1>4, NormalizeSpares
<1>6. Spares(a, n2, M) /\ Records(n2)
  BY <1>2, <1>4, NormalizeBothSpares DEF Spares, Affects
<1> HIDE DEF n1, n2
<1>7. Spares(n2, v, M)
  BY <1>6, SyncOverviewSpares
<1> HIDE DEF v
<1>8. t = s \/ Spares(k, t, M)
  BY <1>1, <1>4, <1>5, <1>6, <1>7, SparesTransitive
<1>9. QED
  BY <1>8 DEF k, t

\* So the column's windows change their workspace, and nothing else does.
LEMMA MoveColumnToKeeps ==
  ASSUME NEW s, Records(s), NEW c, NEW to, NEW after, NEW M,
         s.workspaces[ColumnWorkspace(s, c)].mon \in M, s.workspaces[to].mon \in M
  PROVE  Keeps(s, MoveColumnTo(s, c, to, after).st, M)
<1> DEFINE k == TransferColumn(s, c, ColumnWorkspace(s, c), to, after)
           t == MoveColumnTo(s, c, to, after).st
<1>1. t = s \/ Spares(k, t, M)
  BY MoveColumnToSpares
<1>2. Keeps(s, k, M)
  BY TransferKeeps
<1> HIDE DEF k, t
<1>3. Keeps(s, t, M)
  BY <1>1, <1>2, SparesReflexive, SparesKeeps, KeepsTransitive
<1>4. QED
  BY <1>3 DEF t

\* A column that is dropped where it came from, or at the end of another
\* workspace, works on two monitors.
LEMMA MoveColumnKeeps ==
  ASSUME NEW s, InOrder(s), Records(s), NEW forward \in BOOLEAN, NEW requested, NEW M,
         CommandMonitor(s, requested) # None => CommandMonitor(s, requested) \in M
  PROVE  Keeps(s, MoveColumnToWorkspace(s, forward, requested).st, M)
<1> DEFINE m     == CommandMonitor(s, requested)
           from  == ActiveWorkspace(s, m)
           x     == FocusedWindowIn(s, from)
           n     == NormalizeWorkspaceSet(s, m)
           order == n.sets[m].order
           to    == order[StepWithin(Position(order, from), forward, Len(order))]
           c     == s.windows[x].col
           t     == MoveColumnToWorkspace(s, forward, requested).st
<1>1. CASE m = None \/ ~IsTiled(s, x)
  <2>1. t = s
    BY <1>1 DEF MoveColumnToWorkspace, Err
  <2>2. QED
    BY <2>1, SparesReflexive, SparesKeeps
<1>2. CASE m # None /\ IsTiled(s, x)
  <2>1. t = n \/ t = MoveColumnTo(n, c, to, None).st
    BY <1>2, SettleState DEF MoveColumnToWorkspace
  <2>2. m \in DOMAIN s.sets /\ m \in M
    BY <1>2, CommandMonitorKnown
  <2>3. x \in DOMAIN s.windows /\ c # None /\ s.windows[x].ws = from
    BY <1>2 DEF IsTiled, FocusedWindowIn
  <2>4. from = s.sets[m].active
    BY <2>2, SoundLookups DEF InOrder
  <2> HIDE DEF m, from, x, t
  <2>5. c \in DOMAIN s.columns /\ x \in ToSet(s.columns[c].wins)
    BY <2>3, TiledStands DEF InOrder
  <2>6. ColumnWorkspace(s, c) = from
    BY <2>3, <2>5, ColumnStands DEF InOrder
  <2> HIDE DEF c
  <2>7. InOrder(n) /\ Sound(n) /\ m \in DOMAIN n.sets /\ n.sets[m].active = from
    BY <2>2, <2>4, NormalizeInOrder, NormalizeSound DEF InOrder
  <2>8. n.columns = s.columns
    BY <2>2, NormalizeArranged DEF InOrder, Sound, Tidied, SameLists
  <2>9. Spares(s, n, M) /\ Records(n)
    BY <2>2, NormalizeSpares DEF Spares, Affects
  <2>10. ColumnWorkspace(n, c) = from
    BY <2>6, <2>8, <2>9 DEF ColumnWorkspace, Spares
  <2> HIDE DEF n
  <2>11. from \in ToSet(n.sets[m].order)
    BY <2>7, SoundLookups
  <2>12. to \in ToSet(n.sets[m].order)
    BY <2>7, <2>11, NeighbourInOrder
  <2> HIDE DEF to
  <2>13. n.workspaces[to].mon = m /\ n.workspaces[from].mon = m
    BY <2>7, <2>11, <2>12, SoundLookups
  <2>14. Keeps(n, MoveColumnTo(n, c, to, None).st, M)
    BY <2>2, <2>9, <2>10, <2>13, MoveColumnToKeeps
  <2>15. Keeps(s, t, M)
    BY <2>1, <2>9, <2>14, SparesKeeps, KeepsTransitive
  <2>16. QED
    BY <2>15 DEF t
<1>3. QED
  BY <1>1, <1>2

\* A window leaves its place, or comes back to it.
LEMMA PlaceKeeps ==
  ASSUME NEW s, Records(s), NEW x, NEW layer, NEW M,
         s.workspaces[s.windows[x].ws].mon \in M
  PROVE  Keeps(s, LeavePlace(s, x, layer), M) /\ Keeps(s, ReturnToPlace(s, x, layer), M)
<1> DEFINE w == s.windows[x].ws
           m == s.workspaces[w].mon
           d == DetachWindow(s, x)
<1>1. Rearranges(s, d) /\ d.windows = s.windows
  BY DetachingRearranges
<1>2. ASSUME NEW u, Rearranges(d, u), u.windows = d.windows, NEW node, NEW c
      PROVE  Keeps(s, FocusWindow(SetWindow(u, x, node), m, w, x, c), M)
  <2> DEFINE v == SetWindow(u, x, node)
             f == FocusWindow(v, m, w, x, c)
  <2>1. Records(u) /\ m \in M
    BY <1>2 DEF Rearranges
  <2>2. Rearranges(u, v) /\ v.windows = Put(u.windows, x, node)
    BY <2>1, WritesRearrange
  <2> HIDE DEF v, m, w, d
  <2>3. Rearranges(s, v) /\ DOMAIN s.windows \subseteq DOMAIN v.windows
    BY <1>1, <1>2, <2>2, RearrangesTransitive DEF Put
  <2>4. Keeps(s, v, M) /\ Records(v)
    BY <2>3, RearrangingTouches DEF Keeps, Rearranges
  <2>5. Keeps(v, f, M)
    BY <2>1, <2>4, FocusSpares, SparesKeeps
  <2> HIDE DEF f
  <2>6. Keeps(s, f, M)
    BY <2>4, <2>5, KeepsTransitive
  <2>7. QED
    BY <2>6 DEF f, v, m, w
<1>3. Keeps(s, LeavePlace(s, x, layer), M)
  <2>1. \E node : LeavePlace(s, x, layer)
                    = FocusWindow(SetWindow(PushFloating(d, w, x), x, node), m, w, x, None)
    BY DEF LeavePlace
  <2>2. Rearranges(d, PushFloating(d, w, x)) /\ PushFloating(d, w, x).windows = d.windows
    BY <1>1, EnteringRearranges DEF Rearranges
  <2> HIDE DEF d, m, w
  <2>3. QED
    BY <1>2, <2>1, <2>2
<1>4. Keeps(s, ReturnToPlace(s, x, layer), M)
  <2> DEFINE p == RestoreWindow(d, x, RestoreOf(s, x))
  <2>1. \E node : ReturnToPlace(s, x, layer)
                    = FocusWindow(SetWindow(p.st, x, node), m, w, x, p.col)
    BY DEF ReturnToPlace
  <2>2. Placing(d, p)
    BY <1>1, RestoringRearranges DEF Rearranges
  <2> HIDE DEF d, m, w, p
  <2>3. QED
    BY <1>2, <2>1, <2>2 DEF Placing
<1>5. QED
  BY <1>3, <1>4

\* handle_toggle_floating, handle_toggle_fullscreen
LEMMA ToggleLayerKeeps ==
  ASSUME NEW s, Records(s), NEW requested, NEW layer, NEW M,
         LET x == CommandWindow(s, requested)
         IN  x \in DOMAIN s.windows /\ s.windows[x].ws \in DOMAIN s.workspaces
               => s.workspaces[s.windows[x].ws].mon \in M
  PROVE  Keeps(s, ToggleLayer(s, requested, layer).st, M)
<1> DEFINE x == CommandWindow(s, requested)
           w == s.windows[x].ws
           t == ToggleLayer(s, requested, layer).st
<1>1. Keeps(s, s, M)
  BY SparesReflexive, SparesKeeps
<1>2. Keeps(s, DetachWindow(s, x), M)
  BY DetachingRearranges, RearrangesSpares, SparesKeeps
<1>3. CASE x \in DOMAIN s.windows /\ w \in DOMAIN s.workspaces
  <2>1. t \in {DetachWindow(s, x), LeavePlace(s, x, layer), ReturnToPlace(s, x, layer)}
    BY <1>3, SettleState DEF ToggleLayer, Err
  <2>2. s.workspaces[w].mon \in M
    BY <1>3
  <2> HIDE DEF x, t
  <2>3. Keeps(s, LeavePlace(s, x, layer), M) /\ Keeps(s, ReturnToPlace(s, x, layer), M)
    BY <2>2, PlaceKeeps
  <2>4. Keeps(s, t, M)
    BY <1>2, <2>1, <2>3
  <2>5. QED
    BY <2>4 DEF t
<1>4. CASE ~(x \in DOMAIN s.windows /\ w \in DOMAIN s.workspaces)
  BY <1>1, <1>4 DEF ToggleLayer, Err
<1>5. QED
  BY <1>3, <1>4

\* handle_toggle_tabbed
LEMMA ToggleTabbedSpares ==
  ASSUME NEW s, Records(s), NEW requested, NEW M
  PROVE  Spares(s, ToggleTabbed(s, requested).st, M)
<1> DEFINE t == ToggleTabbed(s, requested).st
           c == s.windows[CommandWindow(s, requested)].col
<1>1. t = s \/ \E r : t = SetColumn(s, c, r)
  BY ToggleTabbedState
<1> HIDE DEF t, c
<1>2. Spares(s, t, M)
  BY <1>1, WritesRearrange, RearrangesSpares, SparesReflexive
<1>3. QED
  BY <1>2 DEF t

---------------------------------------------------------------------------
(* A window that closes.                                                   *)

\* Normalising a state in order writes the active workspace again that the focus
\* already names: the focus stays as it is.
LEMMA NormalizeKeepsFocusRecord ==
  ASSUME NEW s, Sound(s), Arranged(s, {}), Records(s), NEW m \in DOMAIN s.sets
  PROVE  NormalizeWorkspaceSet(s, m).focus = s.focus
<1> DEFINE n == NormalizeWorkspaceSet(s, m)
<1>1. /\ Sound(n) /\ DOMAIN n.sets = DOMAIN s.sets
      /\ \A j \in DOMAIN s.sets : n.sets[j].active = s.sets[j].active
  BY NormalizeSound
<1>2. Tidied(s, n) /\ Arranged(n, {})
  BY NormalizeArranged DEF Sound
<1>3. Spares(s, n, {m})
  BY NormalizeSpares
<1> HIDE DEF n
<1>4. IsMap(n.focus.activeBy, Monitors, Nat) /\ IsMap(s.focus.activeBy, Monitors, Nat)
  BY <1>2 DEF Arranged, StateType
<1>5. DOMAIN n.focus.activeBy = DOMAIN s.focus.activeBy
      /\ \A k \in DOMAIN s.focus.activeBy : n.focus.activeBy[k] = s.focus.activeBy[k]
  BY <1>1 DEF Sound, Ring, Settled
<1>6. n.focus.activeBy = s.focus.activeBy
  BY <1>4, <1>5 DEF IsMap
<1>7. Records(n)
  BY <1>3 DEF Spares, Affects
<1>8. n.focus = s.focus
  BY <1>2, <1>6, <1>7 DEF Records, Tidied
<1>9. QED
  BY <1>8 DEF n

\* A step after which window x is gone, and nothing else.
ClosesOnly(s, t, x) ==
  /\ Affects(s, t, {})
  /\ t.windows = Drop(s.windows, {x}) /\ t.overview = s.overview

\* The window is taken out of its list and forgotten.
LEMMA ForgettingCloses ==
  ASSUME NEW s, Records(s), NEW x, NEW w, NEW c
  PROVE  ClosesOnly(s, Forget(DetachWindow(s, x), w, x, c), x)
<1> DEFINE d == DetachWindow(s, x)
           u == [d EXCEPT !.windows = Drop(d.windows, {x})]
<1>1. Rearranges(s, d) /\ d.windows = s.windows
  BY DetachingRearranges
<1>2. \E r : Forget(d, w, x, c) = SetWorkspace(u, w, r)
  BY DEF Forget
<1> HIDE DEF d
<1>3. Rearranges(d, u) /\ u.windows = Drop(d.windows, {x})
  BY <1>1, WritesRearrange DEF Rearranges
<1> HIDE DEF u
<1>4. \A r : Rearranges(u, SetWorkspace(u, w, r)) /\ SetWorkspace(u, w, r).windows = u.windows
  BY <1>3, WritesRearrange DEF Rearranges
<1>5. Rearranges(s, Forget(d, w, x, c)) /\ Forget(d, w, x, c).windows = Drop(s.windows, {x})
  BY <1>1, <1>2, <1>3, <1>4, RearrangesTransitive
<1>6. QED
  BY <1>5, RearrangingTouches DEF d, ClosesOnly, Rearranges

\* handle_window_destroyed: the focus goes elsewhere only if the window had it.
LEMMA DestroyTouches ==
  ASSUME NEW s, Records(s), NEW x, NEW M,
         s.windows[x].ws \in DOMAIN s.workspaces => s.workspaces[s.windows[x].ws].mon \in M,
         LET g == Forget(DetachWindow(s, x), s.windows[x].ws, x, s.windows[x].col)
         IN  s.windows[x].ws \in DOMAIN s.workspaces => g.workspaces[s.windows[x].ws].mon \in M
  PROVE  /\ Affects(s, WindowDestroyed(s, x).st, M)
         /\ DOMAIN s.windows \ {x} \subseteq DOMAIN WindowDestroyed(s, x).st.windows
         /\ \A y \in DOMAIN WindowDestroyed(s, x).st.windows :
              y \in DOMAIN s.windows /\ WindowDestroyed(s, x).st.windows[y] = s.windows[y]
<1> DEFINE w == s.windows[x].ws
           c == s.windows[x].col
           m == s.workspaces[w].mon
           g == Forget(DetachWindow(s, x), w, x, c)
           f == RetargetFrom(g, w, x, c)
           n == NormalizeWorkspaceSet(f, m)
           t == WindowDestroyed(s, x).st
<1>1. t = s \/ (w \in DOMAIN s.workspaces /\ t = n)
  BY SettleState DEF WindowDestroyed, Err
<1>2. w \in DOMAIN s.workspaces => m \in M /\ g.workspaces[w].mon \in M
  OBVIOUS
<1>3. Affects(s, g, M) /\ g.windows = Drop(s.windows, {x})
  <2>1. ClosesOnly(s, g, x)
    BY ForgettingCloses
  <2>2. QED
    BY <2>1 DEF ClosesOnly, Affects
<1> HIDE DEF t, m, c
<1> HIDE DEF g
<1>4. ASSUME w \in DOMAIN s.workspaces PROVE Spares(g, f, M)
  <2> DEFINE k == g.workspaces[w].mon
  <2>1. \/ f = g
        \/ \E y, e : f \in {FocusWindow(g, k, w, y, e), SetFocus(g, k, None, None)}
    BY DEF RetargetFrom, RetargetFocus
  <2>2. Records(g) /\ k \in M
    BY <1>2, <1>3, <1>4 DEF Affects
  <2> HIDE DEF f, k, w
  <2>3. QED
    BY <2>1, <2>2, FocusSpares, SparesReflexive
<1> HIDE DEF f
<1>5. ASSUME w \in DOMAIN s.workspaces PROVE Affects(s, n, M) /\ n.windows = Drop(s.windows, {x})
  <2>1. Affects(s, f, M) /\ f.windows = Drop(s.windows, {x})
    BY <1>3, <1>4, <1>5, TouchesTransitive DEF Spares
  <2>2. Records(f) /\ m \in M
    BY <1>2, <1>5, <2>1 DEF Affects
  <2>3. Spares(f, n, M)
    BY <2>2, NormalizeSpares
  <2> HIDE DEF n
  <2>4. QED
    BY <2>1, <2>3, TouchesTransitive DEF Spares
<1> HIDE DEF n, w
<1>6. Affects(s, t, M) /\ t.windows \in {s.windows, Drop(s.windows, {x})}
  BY <1>1, <1>5, SparesReflexive DEF Spares
<1>7. QED
  BY <1>6 DEF t, Drop

\* A window that has not the focus is forgotten, and normalising its monitor keeps
\* what every monitor shows.
LEMMA DestroyQuietly ==
  ASSUME NEW s, InOrder(s), Records(s), NEW x \in DOMAIN s.windows, x # s.focus.win
  PROVE  LET t == WindowDestroyed(s, x).st
         IN  /\ t.focus = s.focus
             /\ \A m \in DOMAIN s.sets : t.sets[m].active = s.sets[m].active
<1> DEFINE w == s.windows[x].ws
           c == s.windows[x].col
           m == s.workspaces[w].mon
           g == Forget(DetachWindow(s, x), w, x, c)
           n == NormalizeWorkspaceSet(g, m)
           t == WindowDestroyed(s, x).st
<1>1. CASE w \notin DOMAIN s.workspaces
  BY <1>1 DEF WindowDestroyed, Err
<1>2. CASE w \in DOMAIN s.workspaces
  <2>1. m \in DOMAIN s.sets
    BY <1>2, SoundLookups DEF InOrder
  <2>2. Sound(g) /\ Arranged(g, {}) /\ g.sets = s.sets /\ g.focus = s.focus
    BY <1>2, ForgottenArranged
  <2>3. RetargetFrom(g, w, x, c) = g
    BY <2>2 DEF RetargetFrom
  <2>4. t = n
    BY <1>2, <2>3, SettleState DEF WindowDestroyed
  <2>5. Records(g)
    <3>1. ClosesOnly(s, g, x)
      BY ForgettingCloses
    <3>2. QED
      BY <3>1 DEF ClosesOnly, Affects
  <2> HIDE DEF g, m
  <2>6. n.focus = g.focus /\ \A k \in DOMAIN g.sets : n.sets[k].active = g.sets[k].active
    BY <2>1, <2>2, <2>5, NormalizeKeepsFocusRecord, NormalizeSound
  <2> HIDE DEF n, t
  <2>7. t.focus = s.focus /\ \A k \in DOMAIN s.sets : t.sets[k].active = s.sets[k].active
    BY <2>2, <2>4, <2>6
  <2>8. QED
    BY <2>7 DEF t
<1>3. QED
  BY <1>1, <1>2

---------------------------------------------------------------------------
(* Every step. *)

\* A column that is dragged or moved stands on a workspace that is there.
LEMMA DropKeeps ==
  ASSUME NEW s, InOrder(s), Records(s), NEW x \in DOMAIN s.windows, IsTiled(s, x),
         NEW to \in DOMAIN s.workspaces, NEW after
  PROVE  Keeps(s, MoveColumnTo(s, s.windows[x].col, to, after).st, DOMAIN s.sets)
<1> DEFINE c == s.windows[x].col
           from == ColumnWorkspace(s, c)
<1>1. c \in DOMAIN s.columns
  BY TiledStands DEF IsTiled, InOrder
<1>2. from \in DOMAIN s.workspaces
  BY <1>1, ColumnStands DEF InOrder
<1>3. s.workspaces[from].mon \in DOMAIN s.sets /\ s.workspaces[to].mon \in DOMAIN s.sets
  BY <1>2, SoundLookups DEF InOrder
<1>4. QED
  BY <1>3, MoveColumnToKeeps

\* The windows' commands work on the monitor the window's workspace is on.
LEMMA ToggleKeeps ==
  ASSUME NEW s, InOrder(s), Records(s), NEW x
  PROVE  /\ Keeps(s, ToggleFloating(s, x).st, DOMAIN s.sets)
         /\ Keeps(s, ToggleFullscreen(s, x).st, DOMAIN s.sets)
         /\ Keeps(s, ToggleTabbed(s, x).st, DOMAIN s.sets)
<1>1. \A w \in DOMAIN s.workspaces : s.workspaces[w].mon \in DOMAIN s.sets
  BY SoundLookups DEF InOrder
<1>2. \A layer : Keeps(s, ToggleLayer(s, x, layer).st, DOMAIN s.sets)
  BY <1>1, ToggleLayerKeeps
<1>3. Keeps(s, ToggleTabbed(s, x).st, DOMAIN s.sets)
  BY ToggleTabbedSpares, SparesKeeps
<1>4. QED
  BY <1>2, <1>3 DEF ToggleFloating, ToggleFullscreen

\* What a step is, by what it leaves alone.
LEMMA StepKeeps ==
  ASSUME InOrder(st), Records(st), Next
  PROVE  \/ \E m \in Monitors : PlugMonitor(m)
         \/ Keeps(st, st', DOMAIN st.sets)
         \/ (\E x \in DOMAIN st.windows : Destroy(x)) /\ Affects(st, st', DOMAIN st.sets)
         \/ OverviewCommand
         \/ ResizeCommand
<1> DEFINE M == DOMAIN st.sets
<1>1. CASE Platform
  <2>1. CASE \E m \in Monitors : PlugMonitor(m)
    BY <2>1
  <2>2. CASE \E m \in Monitors : RefreshMonitor(m)
    BY <2>2, NormalizeSpares, SparesKeeps DEF RefreshMonitor, Known
  <2>3. CASE \E m \in Monitors, d \in Discoveries : Discover(m, d)
    <3>1. PICK m \in Monitors, d \in Discoveries : Discover(m, d)
      BY <2>3
    <3> DEFINE e == [mon |-> m, managed |-> d.managed, layer |-> d.layer,
                     mode |-> d.mode, preserve |-> d.preserve, placement |-> d.placement]
    <3>2. m \in M /\ st' = WindowDiscovered(st, e).st
      BY <3>1 DEF Discover, Fatal, Known
    <3>3. e.mon = m
      OBVIOUS
    <3> HIDE DEF e
    <3>4. QED
      BY <3>2, <3>3, DiscoverKeeps
  <2>4. CASE \E x \in DOMAIN st.windows : Destroy(x)
    <3>1. PICK x \in DOMAIN st.windows : Destroy(x)
      BY <2>4
    <3> DEFINE w == st.windows[x].ws
               g == Forget(DetachWindow(st, x), w, x, st.windows[x].col)
    <3>2. w \in DOMAIN st.workspaces => st.workspaces[w].mon \in M
      BY SoundLookups DEF InOrder
    <3>3. w \in DOMAIN st.workspaces => g.workspaces[w].mon \in M
      BY <3>2, ForgottenArranged
    <3>4. Affects(st, WindowDestroyed(st, x).st, M)
      BY <3>2, <3>3, DestroyTouches
    <3>5. QED
      BY <3>1, <3>4 DEF Destroy, Fatal
  <2>5. CASE \E x \in DOMAIN st.windows : ObserveFocus(x)
    <3>1. PICK x \in DOMAIN st.windows : ObserveFocus(x)
      BY <2>5
    <3>2. st.workspaces[st.windows[x].ws].mon \in M
      BY <3>1, SoundLookups DEF InOrder, ObserveFocus
    <3>3. Keeps(st, WindowFocusObserved(st, x).st, M)
      BY <3>2, FocusObservedSpares, SparesKeeps
    <3>4. QED
      BY <3>1, <3>3 DEF ObserveFocus, Fatal
  <2>6. QED
    BY <1>1, <2>1, <2>2, <2>3, <2>4, <2>5 DEF Platform
<1>2. CASE \E forward, tabs \in BOOLEAN : CmdFocusNavigation(forward, tabs)
  <2>1. PICK forward \in BOOLEAN, tabs \in BOOLEAN : CmdFocusNavigation(forward, tabs)
    BY <1>2
  <2>2. \A w \in DOMAIN st.workspaces : st.workspaces[w].mon \in M
    BY SoundLookups DEF InOrder
  <2>3. Keeps(st, FocusNavigation(st, forward, tabs).st, M)
    BY <2>2, NavigationSpares, SparesKeeps
  <2>4. QED
    BY <2>1, <2>3 DEF CmdFocusNavigation, Command, Fatal, Answered
<1>3. CASE WorkspaceCommand
  <2>1. PICK forward \in BOOLEAN, m \in MonitorRequests :
          \/ CmdFocusWorkspace(forward, m)
          \/ CmdMoveWorkspace(forward, m)
          \/ CmdMoveWorkspaceToMonitor(forward, m)
          \/ CmdMoveColumnToWorkspace(forward, m)
    BY <1>3 DEF WorkspaceCommand
  <2> DEFINE k == CommandMonitor(st, m)
  <2>2. k # None => k \in M /\ AdjacentMonitor(st, k, forward) \in M
    BY CommandMonitorKnown, AdjacentMonitorKnown
  <2>3. /\ Keeps(st, FocusWorkspace(st, forward, m).st, M)
        /\ Keeps(st, MoveWorkspaceWithinMonitor(st, forward, m).st, M)
    BY <2>2, FocusWorkspaceSpares, MoveWorkspaceSpares, SparesKeeps
  <2>4. Keeps(st, MoveWorkspaceToMonitor(st, forward, m).st, M)
    BY <2>2, MoveWorkspaceToMonitorSpares, SparesKeeps
  <2>5. Keeps(st, MoveColumnToWorkspace(st, forward, m).st, M)
    BY <2>2, MoveColumnKeeps
  <2>6. st' \in {FocusWorkspace(st, forward, m).st, MoveWorkspaceWithinMonitor(st, forward, m).st,
                 MoveWorkspaceToMonitor(st, forward, m).st, MoveColumnToWorkspace(st, forward, m).st}
    BY <2>1 DEF CmdFocusWorkspace, CmdMoveWorkspace, CmdMoveWorkspaceToMonitor,
                CmdMoveColumnToWorkspace, Command, Fatal, Answered
  <2>7. QED
    BY <2>3, <2>4, <2>5, <2>6
<1>4. CASE ColumnDrop
  <2>1. PICK x \in DOMAIN st.windows, to \in DOMAIN st.workspaces, y \in Option(DOMAIN st.windows) :
          CmdDropColumn(x, to, y)
    BY <1>4 DEF ColumnDrop
  <2>2. \E after : st' = MoveColumnTo(st, st.windows[x].col, to, after).st
    BY <2>1 DEF CmdDropColumn, Fatal
  <2>3. IsTiled(st, x)
    BY <2>1 DEF CmdDropColumn, OnOverview
  <2>4. QED
    BY <2>2, <2>3, DropKeeps
<1>5. CASE WindowCommand
  <2>1. PICK x \in WindowRequests :
          CmdToggleFloating(x) \/ CmdToggleFullscreen(x) \/ CmdToggleTabbed(x)
    BY <1>5 DEF WindowCommand
  <2>2. st' \in {ToggleFloating(st, x).st, ToggleFullscreen(st, x).st, ToggleTabbed(st, x).st}
    BY <2>1 DEF CmdToggleFloating, CmdToggleFullscreen, CmdToggleTabbed, Command, Fatal, Answered
  <2>3. QED
    BY <2>2, ToggleKeeps
<1>6. QED
  BY <1>1, <1>2, <1>3, <1>4, <1>5 DEF Next

\* The focus and the overview are on monitors that are there.
Grounded(s) ==
  /\ Records(s)
  /\ IF DOMAIN s.sets = {} THEN s.focus.mon = None ELSE s.focus.mon \in DOMAIN s.sets
  /\ s.overview.open => s.overview.mon \in DOMAIN s.sets

\* A step on monitors that are there keeps it so.
LEMMA TouchesGrounded ==
  ASSUME NEW s, NEW t, Grounded(s), Affects(s, t, DOMAIN s.sets)
  PROVE  Grounded(t)
BY DEF Grounded, Affects

\* The first monitor gets the focus.
LEMMA PlugGrounded ==
  ASSUME NEW s, Grounded(s), NEW m \in Monitors, m \notin DOMAIN s.sets
  PROVE  Grounded(AddMonitor(s, m))
<1> DEFINE w == FreshWorkspace(s)
           a == [s EXCEPT
                   !.workspaces = Put(s.workspaces, w, EmptyWorkspace(m)),
                   !.sets = Put(s.sets, m, [order |-> <<w>>, active |-> w]),
                   !.focus = [s.focus EXCEPT
                                !.activeBy = Put(s.focus.activeBy, m, w),
                                !.mon = IF s.focus.mon = None THEN m ELSE s.focus.mon]]
           t == AddMonitor(s, m)
<1>1. t = NormalizeWorkspaceSet(a, m)
  BY DEF AddMonitor
<1>2. /\ Records(a) /\ a.overview = s.overview
      /\ a.focus.mon = IF s.focus.mon = None THEN m ELSE s.focus.mon
      /\ a.sets = Put(s.sets, m, [order |-> <<w>>, active |-> w])
  BY DEF Grounded, Records
<1>3. DOMAIN a.sets = DOMAIN s.sets \union {m}
  BY <1>2 DEF Put
<1>4. a.focus.mon \in DOMAIN a.sets
  BY <1>2, <1>3 DEF Grounded
<1> HIDE DEF a
<1>5. Grounded(a)
  BY <1>2, <1>3, <1>4 DEF Grounded
<1>6. m \in DOMAIN a.sets
  BY <1>3
<1>7. Affects(a, NormalizeWorkspaceSet(a, m), DOMAIN a.sets)
  <2>1. Spares(a, NormalizeWorkspaceSet(a, m), DOMAIN a.sets)
    BY <1>2, <1>6, NormalizeSpares
  <2>2. QED
    BY <2>1 DEF Spares
<1>8. QED
  BY <1>1, <1>5, <1>7, TouchesGrounded

\* The overview opens on a monitor that is there; nothing else moves.
LEMMA OverviewGrounded ==
  ASSUME Grounded(st), OverviewCommand
  PROVE  /\ Grounded(st') /\ st'.sets = st.sets /\ st'.windows = st.windows
         /\ st'.focus = st.focus
         /\ st'.overview.open => st'.overview.sel = ActiveWorkspace(st, st'.overview.mon)
                                 \/ st' = st
<1> DEFINE closed == [st EXCEPT !.overview = [open |-> FALSE, mon |-> None, sel |-> None]]
<1>1. \E m : st' \in {OpenOverview(st, m).st, CloseOverview(st).st}
  BY DEF OverviewCommand, CmdOpenOverview, CmdCloseOverview, CmdToggleOverview, ToggleOverview,
         Command, Fatal, Answered
<1>2. PICK m : st' \in {OpenOverview(st, m).st, CloseOverview(st).st}
  BY <1>1
<1> DEFINE k == CommandMonitor(st, m)
<1>3. \/ st' = st
      \/ st' = closed
      \/ k # None /\ st' = OpenOverviewOn(st, k)
  BY <1>2 DEF OpenOverview, CloseOverview, Ok, Err
<1>4. k # None => k \in DOMAIN st.sets
  BY CommandMonitorKnown
<1> HIDE DEF k
<1>5. QED
  BY <1>3, <1>4 DEF Grounded, Records, OpenOverviewOn

\* A drag of a width moves nothing.
LEMMA ResizeMovesNothing ==
  ASSUME Records(st), ResizeCommand
  PROVE  Spares(st, st', {}) /\ st'.focus = st.focus /\ st'.overview = st.overview
<1>1. \/ st' \in {BeginResize(st).st, UpdateResize(st).st, CommitResize(st).st, CancelResize(st).st}
      \/ st' = CycleWidth(st).st
  BY DEF ResizeCommand, CmdBeginResize, CmdUpdateResize, CmdCommitResize, CmdCancelResize,
         CmdCycleWidth, Command, Fatal, Answered
<1>2. UpdateResize(st).st = st /\ CycleWidth(st).st = st
  BY SettleState DEF UpdateResize, CycleWidth, Ok, Err
<1>3. \E r : BeginResize(st).st \in {st, [st EXCEPT !.session = r]}
  <2> DEFINE w == CommandWorkspace(st)
             x == FocusedWindowIn(st, w)
             r == [ws |-> w, col |-> st.windows[x].col, win |-> x]
  <2>1. BeginResize(st).st \in {st, [st EXCEPT !.session = r]}
    BY SettleState DEF BeginResize, Err
  <2> HIDE DEF r
  <2>2. QED
    BY <2>1
<1>4. {CommitResize(st).st, CancelResize(st).st} \subseteq {st, [st EXCEPT !.session = NoSession]}
  BY SettleState DEF CommitResize, CancelResize, Ok, Err
<1>5. \E r : st' \in {st, [st EXCEPT !.session = r]}
  BY <1>1, <1>2, <1>3, <1>4
<1>6. QED
  BY <1>5 DEF Records, Spares, Affects

\* Every step keeps the focus and the overview on monitors that are there.
LEMMA NextGrounded ==
  ASSUME InOrder(st), Grounded(st), Next
  PROVE  Grounded(st')
<1>1. Records(st)
  BY DEF Grounded
<1>2. CASE \E m \in Monitors : PlugMonitor(m)
  BY <1>2, PlugGrounded DEF PlugMonitor, Known
<1>3. CASE Affects(st, st', DOMAIN st.sets)
  BY <1>3, TouchesGrounded
<1>4. CASE OverviewCommand
  BY <1>4, OverviewGrounded
<1>5. CASE ResizeCommand
  BY <1>1, <1>5, ResizeMovesNothing DEF Grounded, Spares, Affects
<1>6. QED
  BY <1>1, <1>2, <1>3, <1>4, <1>5, StepKeeps DEF Keeps

\* The store, in order, with its focus and its overview on monitors that are there.
THEOREM StoreIsGrounded == Spec => [](InOrder(st) /\ Grounded(st))
<1>1. Init => Grounded(st)
  BY DEF Init, InitState, Grounded, Records
<1>2. InOrder(st) /\ Grounded(st) /\ [Next]_vars => Grounded(st)'
  <2>1. CASE Next
    BY <2>1, NextGrounded
  <2>2. CASE UNCHANGED vars
    BY <2>2 DEF vars
  <2>3. QED
    BY <2>1, <2>2
<1>3. QED
  BY <1>1, <1>2, StoreIsInOrder, PTL DEF Spec

\* Only a window that closes leaves the map of windows.
LEMMA OnlyDestroyCloses ==
  ASSUME InOrder(st), Grounded(st), Next, NEW x \in DOMAIN st.windows \ DOMAIN st'.windows
  PROVE  Destroy(x)
<1>1. Records(st)
  BY DEF Grounded
<1>2. ~Keeps(st, st', DOMAIN st.sets)
  BY DEF Keeps
<1>3. ~OverviewCommand
  BY OverviewGrounded
<1>4. ~ResizeCommand
  BY <1>1, ResizeMovesNothing DEF Spares
<1>5. ~ \E m \in Monitors : PlugMonitor(m)
  <2>1. SUFFICES ASSUME NEW m \in Monitors, PlugMonitor(m) PROVE FALSE
    OBVIOUS
  <2>2. Quiet(st, AddMonitor(st, m), {m})
    BY <1>1, <2>1, PlugQuiet DEF PlugMonitor, Known
  <2>3. QED
    BY <2>1, <2>2 DEF Quiet, Spares, PlugMonitor
<1>6. PICK y \in DOMAIN st.windows : Destroy(y)
  BY <1>1, <1>2, <1>3, <1>4, <1>5, StepKeeps
<1>7. x = y
  <2> DEFINE w == st.windows[y].ws
             g == Forget(DetachWindow(st, y), w, y, st.windows[y].col)
  <2>1. w \in DOMAIN st.workspaces =>
          st.workspaces[w].mon \in DOMAIN st.sets /\ g.workspaces[w].mon \in DOMAIN st.sets
    <3>1. w \in DOMAIN st.workspaces => st.workspaces[w].mon \in DOMAIN st.sets
      BY SoundLookups DEF InOrder
    <3>2. QED
      BY <3>1, ForgottenArranged
  <2>2. DOMAIN st.windows \ {y} \subseteq DOMAIN WindowDestroyed(st, y).st.windows
    BY <1>1, <2>1, DestroyTouches
  <2>3. QED
    BY <1>6, <2>2 DEF Destroy, Fatal
<1>8. QED
  BY <1>6, <1>7

\* A window that closes while another has the focus moves neither the focus nor
\* what any monitor shows.
THEOREM OthersAlwaysCloseQuietly == Spec => OthersCloseQuietly
<1>1. ASSUME InOrder(st), Grounded(st), [Next]_vars
      PROVE  [\A x \in DOMAIN st.windows \ DOMAIN st'.windows :
                x # st.focus.win =>
                  /\ st'.focus = st.focus
                  /\ \A m \in Known(st) : st'.sets[m].active = st.sets[m].active]_vars
  <2>1. SUFFICES ASSUME Next, NEW x \in DOMAIN st.windows \ DOMAIN st'.windows, x # st.focus.win
                 PROVE  /\ st'.focus = st.focus
                        /\ \A m \in Known(st) : st'.sets[m].active = st.sets[m].active
    BY <1>1
  <2>2. st' = WindowDestroyed(st, x).st
    BY <1>1, <2>1, OnlyDestroyCloses DEF Destroy, Fatal
  <2>3. QED
    BY <1>1, <2>1, <2>2, DestroyQuietly DEF Grounded, Known
<1>2. QED
  BY <1>1, StoreIsGrounded, PTL DEF Spec, OthersCloseQuietly

---------------------------------------------------------------------------
(* Keys and ordinary monitors. *)

\* The monitors the configuration manages.
Managed(s) == {m \in DOMAIN s.sets : MonitorIsManaged(s, m)}

\* A command without a target works on a managed monitor, and so do its neighbours.
LEMMA CommandMonitorManaged ==
  ASSUME NEW s
  PROVE  /\ CommandMonitor(s, None) # None => CommandMonitor(s, None) \in Managed(s)
         /\ \A m \in Managed(s), forward \in BOOLEAN : AdjacentMonitor(s, m, forward) \in Managed(s)
<1> DEFINE others == {m \in Monitors : ~MonitorIsManaged(s, m)}
           order == CommandMonitors(s)
<1>1. ToSet(NavOrder) \subseteq Monitors
  BY NavOrderAssumption DEF ToSet
<1>2. ToSet(order) = ToSet(NavOrder) \ others /\ order \in Seq(Monitors) /\ IsInjective(order)
  BY NavOrderAssumption, WithoutKeeps DEF CommandMonitors
<1>3. ToSet(order) \subseteq Managed(s)
  BY <1>1, <1>2 DEF MonitorIsManaged, Known, Managed
<1> HIDE DEF order
<1>4. \A i \in DOMAIN order : order[i] \in Managed(s)
  BY <1>3 DEF ToSet
<1>5. order # <<>> => order[1] \in Managed(s)
  <2>1. order # <<>> => 1 \in DOMAIN order
    BY <1>2
  <2>2. QED
    BY <1>4, <2>1
<1>6. CommandMonitor(s, None) # None => CommandMonitor(s, None) \in Managed(s)
  BY <1>5 DEF CommandMonitor, Managed, MonitorIsManaged, Known, order
<1>7. ASSUME NEW m \in Managed(s), NEW forward \in BOOLEAN
      PROVE  AdjacentMonitor(s, m, forward) \in Managed(s)
  <2> DEFINE i == Position(order, m)
  <2>1. AdjacentMonitor(s, m, forward)
          = IF i = None THEN m ELSE order[StepWithin(i, forward, Len(order))]
    BY DEF AdjacentMonitor, order
  <2>2. CASE m \notin ToSet(order)
    <3>1. i = None
      BY <2>2 DEF Position, ToSet
    <3>2. QED
      BY <2>1, <3>1
  <2>3. CASE m \in ToSet(order)
    <3>1. i \in DOMAIN order /\ DOMAIN order = 1..Len(order) /\ Len(order) \in Nat
      BY <1>2, <2>3, PositionFinds
    <3>2. StepWithin(i, forward, Len(order)) \in DOMAIN order
      BY <3>1, StepStays
    <3>3. QED
      BY <1>4, <2>1, <3>2
  <2>4. QED
    BY <2>2, <2>3
<1>8. QED
  BY <1>6, <1>7

\* The workspace commands work on is the one a monitor shows.
LEMMA CommandWorkspaceShown ==
  ASSUME NEW s, InOrder(s), Grounded(s), DOMAIN s.sets # {}
  PROVE  LET w == CommandWorkspace(s)
         IN  /\ w \in DOMAIN s.workspaces
             /\ s.workspaces[w].mon \in DOMAIN s.sets
             /\ s.sets[s.workspaces[w].mon].active = w
<1> DEFINE w == CommandWorkspace(s)
           x == s.focus.win
           k == IF CommandMonitor(s, None) # None THEN CommandMonitor(s, None) ELSE s.focus.mon
<1>1. CASE x \in DOMAIN s.windows /\ s.windows[x].managed
  <2>1. w = s.windows[x].ws
    BY <1>1 DEF CommandWorkspace
  <2>2. x # None
    BY <1>1, TypeLookups, NoneIsNoId DEF InOrder, Arranged
  <2>3. w \in DOMAIN s.workspaces /\ s.workspaces[w].mon = s.focus.mon
        /\ s.sets[s.focus.mon].active = w
    BY <2>1, <2>2 DEF InOrder, FocusFits
  <2>4. QED
    BY <2>3 DEF Grounded
<1>2. CASE ~(x \in DOMAIN s.windows /\ s.windows[x].managed)
  <2>1. w = ActiveWorkspace(s, k)
    BY <1>2 DEF CommandWorkspace
  <2>2. k \in DOMAIN s.sets
    BY CommandMonitorKnown DEF Grounded
  <2> HIDE DEF k
  <2>3. w = s.sets[k].active /\ w \in ToSet(s.sets[k].order)
    BY <2>1, <2>2, SoundLookups DEF InOrder
  <2>4. w \in DOMAIN s.workspaces /\ s.workspaces[w].mon = k
    BY <2>2, <2>3, SoundLookups DEF InOrder
  <2>5. QED
    BY <2>2, <2>3, <2>4
<1>3. QED
  BY <1>1, <1>2

\* handle_focus_navigation writes the active workspace that is there already.
LEMMA NavigationKeepsSets ==
  ASSUME NEW s, InOrder(s), Grounded(s), DOMAIN s.sets # {}, NEW forward, NEW tabs
  PROVE  FocusNavigation(s, forward, tabs).st.sets = s.sets
<1> DEFINE w == CommandWorkspace(s)
           m == s.workspaces[w].mon
           t == FocusNavigation(s, forward, tabs).st
<1>1. w \in DOMAIN s.workspaces /\ m \in DOMAIN s.sets /\ s.sets[m].active = w
  BY CommandWorkspaceShown
<1>2. t = s \/ \E x, c : t = FocusWindow(s, m, w, x, c)
  BY SettleState DEF FocusNavigation, Err
<1>3. IsMap(s.sets, Monitors, WorkspaceSet)
  BY DEF InOrder, Arranged, StateType
<1> HIDE DEF w, m, t
<1>4. \A x, c : FocusWindow(s, m, w, x, c).sets = Put(s.sets, m, [order |-> s.sets[m].order, active |-> w])
  BY FocusWindowShows DEF Shows, InOrder, Arranged
<1>5. [order |-> s.sets[m].order, active |-> w] = s.sets[m]
  BY <1>1, <1>3 DEF IsMap, WorkspaceSet
<1>6. Put(s.sets, m, s.sets[m]) = s.sets
  BY <1>1, <1>3 DEF Put, IsMap
<1>7. t.sets = s.sets
  BY <1>2, <1>4, <1>5, <1>6
<1>8. QED
  BY <1>7 DEF t

\* A key command leaves the sets of ordinary monitors alone.
LEMMA KeyCommandKeeps ==
  ASSUME InOrder(st), Grounded(st), KeyCommand
  PROVE  \A m \in Known(st) : ~MonitorIsManaged(st, m) => st'.sets[m] = st.sets[m]
<1> DEFINE M == Managed(st)
           k == CommandMonitor(st, None)
<1>1. Records(st)
  BY DEF Grounded
<1>2. ASSUME Affects(st, st', M)
      PROVE  \A m \in Known(st) : ~MonitorIsManaged(st, m) => st'.sets[m] = st.sets[m]
  BY <1>2 DEF Affects, Managed, Known
<1>3. CASE \E forward, tabs \in BOOLEAN : CmdFocusNavigation(forward, tabs)
  <2>1. PICK forward \in BOOLEAN, tabs \in BOOLEAN : CmdFocusNavigation(forward, tabs)
    BY <1>3
  <2>2. st' = FocusNavigation(st, forward, tabs).st /\ DOMAIN st.sets # {}
    BY <2>1 DEF CmdFocusNavigation, Command, Fatal, Answered, Known
  <2>3. QED
    BY <2>2, NavigationKeepsSets
<1>4. CASE \E forward \in BOOLEAN :
             \/ CmdFocusWorkspace(forward, None)
             \/ CmdMoveWorkspace(forward, None)
             \/ CmdMoveWorkspaceToMonitor(forward, None)
             \/ CmdMoveColumnToWorkspace(forward, None)
  <2>1. PICK forward \in BOOLEAN :
             \/ CmdFocusWorkspace(forward, None)
             \/ CmdMoveWorkspace(forward, None)
             \/ CmdMoveWorkspaceToMonitor(forward, None)
             \/ CmdMoveColumnToWorkspace(forward, None)
    BY <1>4
  <2>2. k # None => k \in M /\ AdjacentMonitor(st, k, forward) \in M
    BY CommandMonitorManaged
  <2> HIDE DEF M
  <2>3. /\ Affects(st, FocusWorkspace(st, forward, None).st, M)
        /\ Affects(st, MoveWorkspaceWithinMonitor(st, forward, None).st, M)
    BY <1>1, <2>2, FocusWorkspaceSpares, MoveWorkspaceSpares DEF Spares
  <2>4. Affects(st, MoveWorkspaceToMonitor(st, forward, None).st, M)
    BY <1>1, <2>2, MoveWorkspaceToMonitorSpares DEF Spares
  <2>5. Affects(st, MoveColumnToWorkspace(st, forward, None).st, M)
    BY <1>1, <2>2, MoveColumnKeeps DEF Keeps
  <2>6. st' \in {FocusWorkspace(st, forward, None).st,
                 MoveWorkspaceWithinMonitor(st, forward, None).st,
                 MoveWorkspaceToMonitor(st, forward, None).st,
                 MoveColumnToWorkspace(st, forward, None).st}
    BY <2>1 DEF CmdFocusWorkspace, CmdMoveWorkspace, CmdMoveWorkspaceToMonitor,
                CmdMoveColumnToWorkspace, Command, Fatal, Answered
  <2>7. QED
    BY <1>2, <2>3, <2>4, <2>5, <2>6
<1>5. QED
  BY <1>3, <1>4 DEF KeyCommand

\* A key command works on the monitors the configuration manages: an ordinary
\* monitor keeps its workspaces, their order and the one it shows.
THEOREM OrdinaryMonitorsStayAlone == Spec => OrdinaryMonitorsLeftAlone
<1>1. InOrder(st) /\ Grounded(st) /\ [Next]_vars
        => [\/ \A m \in Known(st) : ~MonitorIsManaged(st, m) => st'.sets[m] = st.sets[m]
            \/ ~KeyCommand]_vars
  BY KeyCommandKeeps
<1>2. QED
  BY <1>1, StoreIsGrounded, PTL DEF Spec, OrdinaryMonitorsLeftAlone

---------------------------------------------------------------------------
(* The mark of the overview. *)

\* An open overview is on a monitor that is there and marks what it shows.
Marks(s) ==
  s.overview.open => /\ s.overview.mon \in DOMAIN s.sets
                     /\ s.overview.sel = s.sets[s.overview.mon].active

\* In a sound state that is what OverviewShowsActive says.
LEMMA MarksShowActive ==
  ASSUME NEW s, Sound(s), Grounded(s)
  PROVE  Marks(s) <=> (s.overview.open => s.overview.sel = ActiveWorkspace(s, s.overview.mon))
BY SoundLookups DEF Marks, Grounded

\* The mark does not move, nor does what a monitor shows.
Still(s, t) ==
  /\ t.overview = s.overview
  /\ DOMAIN s.sets \subseteq DOMAIN t.sets
  /\ \A k \in DOMAIN s.sets : t.sets[k].active = s.sets[k].active

\* Such steps keep the mark where it belongs.
LEMMA StillMarks ==
  ASSUME NEW s, NEW t, Marks(s), Still(s, t)
  PROVE  Marks(t)
BY DEF Marks, Still

\* They compose.
LEMMA StillTransitive ==
  ASSUME NEW s, NEW t, NEW u, Still(s, t), Still(t, u)
  PROVE  Still(s, u)
BY DEF Still

\* normalize_workspace_set
LEMMA NormalizeStill ==
  ASSUME NEW s, Sound(s), Records(s), NEW m \in DOMAIN s.sets
  PROVE  Still(s, NormalizeWorkspaceSet(s, m))
<1> DEFINE n == NormalizeWorkspaceSet(s, m)
<1>1. Quiet(s, n, {m})
  BY NormalizeQuiet
<1>2. DOMAIN n.sets = DOMAIN s.sets /\ \A k \in DOMAIN s.sets : n.sets[k].active = s.sets[k].active
  BY NormalizeSound
<1> HIDE DEF n
<1>3. Still(s, n)
  BY <1>1, <1>2 DEF Quiet, Still
<1>4. QED
  BY <1>3 DEF n

\* set_focus_to_window on the workspace its monitor shows.
LEMMA FocusWindowStill ==
  ASSUME NEW s, Shape(s), NEW m, NEW w, NEW x, NEW c,
         m \in DOMAIN s.sets => s.sets[m].active = w
  PROVE  Still(s, FocusWindow(s, m, w, x, c))
<1> DEFINE f == FocusWindow(s, m, w, x, c)
<1>1. Shows(s, f, m, w)
  BY FocusWindowShows
<1> HIDE DEF f
<1>2. Still(s, f)
  BY <1>1 DEF Shows, Still, Put
<1>3. QED
  BY <1>2 DEF f

\* activate_workspace moves the mark with what its monitor shows.
LEMMA ActivateMarks ==
  ASSUME NEW s, Shape(s), Records(s), NEW m \in DOMAIN s.sets, NEW w,
         s.overview.open /\ s.overview.mon # m => Marks(s)
  PROVE  Marks(ActivateWorkspace(s, m, w))
<1> DEFINE a == ActivateWorkspace(s, m, w)
<1>1. Activates(s, a, m, w)
  BY ActivateActivates
<1> HIDE DEF a
<1>2. DOMAIN a.sets = DOMAIN s.sets /\ a.sets[m].active = w
      /\ \A k \in DOMAIN s.sets \ {m} : a.sets[k] = s.sets[k]
  BY <1>1 DEF Activates, Put
<1>3. CASE s.overview.open /\ s.overview.mon = m
  <2>1. a.overview.mon = m /\ a.overview.sel = w
    BY <1>1, <1>3 DEF Activates, Records
  <2>2. QED
    BY <1>2, <2>1 DEF Marks, a
<1>4. CASE ~(s.overview.open /\ s.overview.mon = m)
  <2>1. a.overview = s.overview
    BY <1>1, <1>4 DEF Activates
  <2>2. QED
    BY <1>2, <1>4, <2>1 DEF Marks, a
<1>5. QED
  BY <1>3, <1>4

\* sync_overview_selection moves the mark to what the monitor shows.
LEMMA SyncMarks ==
  ASSUME NEW s, Sound(s), Records(s), NEW m \in DOMAIN s.sets,
         s.overview.open /\ s.overview.mon # m => Marks(s)
  PROVE  Marks(SyncOverview(s, m))
<1> DEFINE t == SyncOverview(s, m)
<1>1. /\ t.sets = s.sets
      /\ t.overview = IF s.overview.open /\ s.overview.mon = m
                      THEN [s.overview EXCEPT !.sel = ActiveWorkspace(s, m)]
                      ELSE s.overview
  BY SyncOverviewWrites, SoundShape
<1>2. ActiveWorkspace(s, m) = s.sets[m].active
  BY SoundLookups
<1> HIDE DEF t
<1>3. CASE s.overview.open /\ s.overview.mon = m
  <2>1. t.overview.mon = m /\ t.overview.sel = s.sets[m].active
    BY <1>1, <1>2, <1>3 DEF Records
  <2>2. QED
    BY <1>1, <2>1 DEF Marks, t
<1>4. CASE ~(s.overview.open /\ s.overview.mon = m)
  BY <1>1, <1>4 DEF Marks, t
<1>5. QED
  BY <1>3, <1>4

\* add_monitor
LEMMA PlugMarks ==
  ASSUME NEW s, InOrder(s), Grounded(s), Marks(s), NEW m \in Monitors, m \notin DOMAIN s.sets
  PROVE  Marks(AddMonitor(s, m))
<1> DEFINE t == AddMonitor(s, m)
<1>1. Quiet(s, t, {m})
  BY PlugQuiet DEF Grounded
<1> HIDE DEF t
<1>2. Marks(t)
  BY <1>1 DEF Marks, Quiet, Spares, Affects
<1>3. QED
  BY <1>2 DEF t

\* handle_window_discovered shows what is shown.
LEMMA DiscoverStill ==
  ASSUME NEW s, InOrder(s), Records(s), NEW d, d.mon \in DOMAIN s.sets
  PROVE  Still(s, WindowDiscovered(s, d).st)
<1> DEFINE m       == d.mon
           w       == ActiveWorkspace(s, m)
           x       == FreshWindow(s)
           placed  == PlaceDiscovered(s, w, x, d)
           node    == [layer |-> d.layer, ws |-> w, col |-> placed.col, managed |-> d.managed,
                       flt |-> d.layer = "Floating", full |-> d.layer = "Fullscreen",
                       restore |-> NoRestore]
           added   == SetWindow(placed.st, x, node)
           active  == PutActive(added, m, w)
           focused == IF d.managed /\ ~KeepsFocus(s, w, d)
                      THEN FocusWindow(active, m, w, x, placed.col) ELSE active
           final   == NormalizeWorkspaceSet(focused, m)
<1>1. WindowDiscovered(s, d).st = final
  BY SettleState DEF WindowDiscovered, Ok
<1>2. w = s.sets[m].active /\ w \in ToSet(s.sets[m].order) /\ w \in DOMAIN s.workspaces
      /\ s.workspaces[w].mon = m
  BY SoundLookups DEF InOrder
<1>3. Sound(s) /\ Shape(s)
  BY SoundShape DEF InOrder
<1> HIDE DEF w, x
<1>4. Placing(s, placed) /\ Alike(s, placed.st)
  BY <1>2, <1>3, PlacingRearranges, PlaceDiscoveredAlike
<1> HIDE DEF placed, node
<1>5. Alike(placed.st, added) /\ Rearranges(placed.st, added)
  <2>1. Records(placed.st) /\ Shape(placed.st)
    BY <1>4 DEF Placing, Rearranges, Alike
  <2>2. QED
    BY <2>1, SetWindowAlike, WritesRearrange
<1> HIDE DEF added
<1>6. Sound(added) /\ Still(s, added) /\ Records(added) /\ added.sets = s.sets
      /\ added.workspaces[w].mon = m /\ w \in DOMAIN added.workspaces
  <2>1. Alike(s, added) /\ Rearranges(s, added)
    BY <1>4, <1>5, AlikeTransitive, RearrangesTransitive DEF Placing
  <2>2. QED
    BY <1>2, <1>3, <2>1, AlikeSound DEF Alike, Rearranges, Still
<1>7. Sound(active) /\ Still(added, active) /\ Records(active)
      /\ active.workspaces = added.workspaces /\ active.sets[m].active = w
  <2>1. Sound(active) /\ DOMAIN active.sets = DOMAIN added.sets
        /\ active.workspaces = added.workspaces
    BY <1>2, <1>6, PutActiveSound
  <2>2. Quiet(added, active, {m})
    BY <1>6, AssignmentsQuiet
  <2>3. \A k \in DOMAIN added.sets : active.sets[k].active = added.sets[k].active
        /\ active.sets[m].active = w
    BY <1>2, <1>6, SoundShape DEF Shape, PutActive, Put
  <2> HIDE DEF active
  <2>4. QED
    BY <1>2, <1>6, <2>1, <2>2, <2>3 DEF Still, Quiet, Spares, Affects
<1> HIDE DEF active
<1>8. Sound(focused) /\ Still(active, focused) /\ Records(focused)
  <2> DEFINE f == FocusWindow(active, m, w, x, placed.col)
  <2>1. w \in DOMAIN active.workspaces /\ m = active.workspaces[w].mon
    BY <1>6, <1>7
  <2> HIDE DEF m
  <2>2. Sound(f)
    BY <1>7, <2>1, FocusWindowSound
  <2>3. Still(active, f)
    BY <1>7, SoundShape, FocusWindowStill
  <2>4. Spares(active, f, {m})
    BY <1>7, FocusSpares
  <2>5. focused \in {f, active}
    OBVIOUS
  <2> HIDE DEF f, focused
  <2>6. QED
    BY <1>7, <2>2, <2>3, <2>4, <2>5 DEF Spares, Affects, Still
<1> HIDE DEF focused
<1>9. m \in DOMAIN focused.sets
  BY <1>6, <1>7, <1>8 DEF Still
<1> HIDE DEF m
<1>10. Still(focused, final)
  BY <1>8, <1>9, NormalizeStill
<1> HIDE DEF final
<1>11. QED
  BY <1>1, <1>6, <1>7, <1>8, <1>10, StillTransitive

\* handle_window_destroyed: the window that had the focus was on the workspace its
\* monitor shows.
LEMMA DestroyStill ==
  ASSUME NEW s, InOrder(s), Records(s), NEW x \in DOMAIN s.windows
  PROVE  Still(s, WindowDestroyed(s, x).st)
<1> DEFINE w == s.windows[x].ws
           c == s.windows[x].col
           m == s.workspaces[w].mon
           g == Forget(DetachWindow(s, x), w, x, c)
           f == RetargetFrom(g, w, x, c)
           n == NormalizeWorkspaceSet(f, m)
<1>1. CASE w \notin DOMAIN s.workspaces
  BY <1>1 DEF WindowDestroyed, Err, Still
<1>2. CASE w \in DOMAIN s.workspaces
  <2>1. m \in DOMAIN s.sets
    BY <1>2, SoundLookups DEF InOrder
  <2>2. /\ Sound(g) /\ Arranged(g, {}) /\ g.sets = s.sets /\ g.focus = s.focus
        /\ w \in DOMAIN g.workspaces /\ g.workspaces[w].mon = m
        /\ c \in DOMAIN g.columns => c \in ToSet(g.workspaces[w].cols)
    BY <1>2, ForgottenArranged
  <2>3. Records(g) /\ Still(s, g)
    <3>1. ClosesOnly(s, g, x)
      BY ForgettingCloses
    <3>2. QED
      BY <2>2, <3>1 DEF ClosesOnly, Affects, Still
  <2>4. WindowDestroyed(s, x).st = n
    BY <1>2, SettleState DEF WindowDestroyed
  <2>5. s.focus.win = x => s.sets[m].active = w
    BY <1>2, TypeLookups, NoneIsNoId DEF InOrder, Arranged, FocusFits
  <2> HIDE DEF g, c
  <2>6. Sound(f) /\ DOMAIN f.sets = DOMAIN g.sets /\ Records(f) /\ Still(g, f)
    <3>1. CASE s.focus.win # x
      BY <2>2, <2>3, <3>1 DEF RetargetFrom, Still
    <3>2. CASE s.focus.win = x
      <4> DEFINE k == g.workspaces[w].mon
      <4>1. f = RetargetFocus(g, w, c)
        BY <2>2, <3>2 DEF RetargetFrom
      <4>2. \E y, e : f \in {FocusWindow(g, k, w, y, e), SetFocus(g, k, None, None)}
        BY <4>1 DEF RetargetFocus
      <4>3. Sound(f) /\ DOMAIN f.sets = DOMAIN g.sets
        BY <2>2, <4>1, RetargetSound
      <4>4. k \in DOMAIN g.sets => g.sets[k].active = w
        BY <2>2, <2>5, <3>2
      <4> HIDE DEF f, k, w, m
      <4>5. \A y, e : Still(g, FocusWindow(g, k, w, y, e))
        BY <2>2, <4>4, SoundShape, FocusWindowStill
      <4>6. Still(g, SetFocus(g, k, None, None))
        BY <2>3 DEF Records, Still, SetFocus
      <4>7. \A y, e : Spares(g, FocusWindow(g, k, w, y, e), {k}) /\ Spares(g, SetFocus(g, k, None, None), {k})
        BY <2>3, FocusSpares
      <4>8. QED
        BY <4>2, <4>3, <4>5, <4>6, <4>7 DEF Spares, Affects
    <3>3. QED
      BY <3>1, <3>2
  <2> HIDE DEF f
  <2>7. m \in DOMAIN f.sets
    BY <2>1, <2>2, <2>6
  <2> HIDE DEF m
  <2>8. Still(f, n)
    BY <2>6, <2>7, NormalizeStill
  <2> HIDE DEF n
  <2>9. QED
    BY <2>3, <2>4, <2>6, <2>8, StillTransitive
<1>3. QED
  BY <1>1, <1>2

\* handle_focus_navigation
LEMMA NavigationStill ==
  ASSUME NEW s, InOrder(s), Grounded(s), DOMAIN s.sets # {}, NEW forward, NEW tabs
  PROVE  Still(s, FocusNavigation(s, forward, tabs).st)
<1> DEFINE w == CommandWorkspace(s)
           m == s.workspaces[w].mon
           t == FocusNavigation(s, forward, tabs).st
<1>1. s.sets[m].active = w
  BY CommandWorkspaceShown
<1>2. t = s \/ \E x, c : t = FocusWindow(s, m, w, x, c)
  BY SettleState DEF FocusNavigation, Err
<1>3. Shape(s)
  BY DEF InOrder, Arranged
<1> HIDE DEF w, m, t
<1>4. Still(s, t)
  BY <1>1, <1>2, <1>3, FocusWindowStill DEF Still
<1>5. QED
  BY <1>4 DEF t

\* handle_focus_workspace
LEMMA FocusWorkspaceMarks ==
  ASSUME NEW s, InOrder(s), Records(s), Marks(s), NEW forward \in BOOLEAN, NEW requested
  PROVE  Marks(FocusWorkspace(s, forward, requested).st)
<1> DEFINE m     == CommandMonitor(s, requested)
           n     == NormalizeWorkspaceSet(s, m)
           order == n.sets[m].order
           w     == ActiveWorkspace(n, m)
           to    == order[StepWithin(Position(order, w), forward, Len(order))]
           a     == ActivateWorkspace(n, m, to)
           u     == NormalizeWorkspaceSet(a, m)
           t     == FocusWorkspace(s, forward, requested).st
<1>1. t = s \/ (m # None /\ (t = n \/ t = u))
  BY FocusWorkspaceState
<1>2. m # None => m \in DOMAIN s.sets
  BY CommandMonitorKnown
<1> HIDE DEF m, t
<1>3. ASSUME m \in DOMAIN s.sets PROVE Marks(n) /\ Marks(u)
  <2>1. InOrder(n) /\ Sound(n) /\ Arranged(n, {}) /\ m \in DOMAIN n.sets
    BY <1>3, NormalizeInOrder, NormalizeSound DEF InOrder
  <2>2. Marks(n) /\ Records(n)
    <3>1. Still(s, n) /\ Quiet(s, n, {m})
      BY <1>3, NormalizeStill, NormalizeQuiet DEF InOrder
    <3>2. QED
      BY <3>1, StillMarks DEF Quiet, Spares, Affects
  <2> HIDE DEF n
  <2>3. w \in ToSet(n.sets[m].order)
    BY <2>1, SoundLookups
  <2> HIDE DEF w
  <2>4. to \in ToSet(n.sets[m].order)
    BY <2>1, <2>3, NeighbourInOrder
  <2> HIDE DEF to
  <2>5. Sound(a) /\ m \in DOMAIN a.sets
    BY <2>1, <2>4, ActivateShown DEF InOrder
  <2>6. Marks(a)
    BY <2>1, <2>2, SoundShape, ActivateMarks
  <2>7. Spares(n, a, {m})
    BY <2>2, ActivateSpares
  <2> HIDE DEF a
  <2>8. Records(a)
    BY <2>7 DEF Spares, Affects
  <2>9. Still(a, u)
    BY <2>5, <2>8, NormalizeStill
  <2> HIDE DEF u
  <2>10. QED
    BY <2>2, <2>6, <2>9, StillMarks
<1> HIDE DEF n, u
<1>4. Marks(t)
  BY <1>1, <1>2, <1>3
<1>5. QED
  BY <1>4 DEF t

\* handle_move_workspace_within_monitor
LEMMA MoveWorkspaceMarks ==
  ASSUME NEW s, InOrder(s), Records(s), Marks(s), NEW forward \in BOOLEAN, NEW requested
  PROVE  Marks(MoveWorkspaceWithinMonitor(s, forward, requested).st)
<1> DEFINE m     == CommandMonitor(s, requested)
           n     == NormalizeWorkspaceSet(s, m)
           order == n.sets[m].order
           w     == ActiveWorkspace(n, m)
           i     == Position(order, w)
           j     == StepWithin(i, forward, Len(order))
           o     == Swapped(order, i, j)
           a     == PutOrder(n, m, o)
           u     == NormalizeWorkspaceSet(a, m)
           v     == SyncOverview(u, m)
           t     == MoveWorkspaceWithinMonitor(s, forward, requested).st
<1>1. t = s \/ (m # None /\ (t = n \/ t = v))
  BY SettleState DEF MoveWorkspaceWithinMonitor, Err
<1>2. m # None => m \in DOMAIN s.sets
  BY CommandMonitorKnown
<1> HIDE DEF m, t
<1>3. ASSUME m \in DOMAIN s.sets PROVE Marks(n) /\ Marks(v)
  <2>1. Sound(n) /\ m \in DOMAIN n.sets
    BY <1>3, NormalizeSound DEF InOrder
  <2>2. Marks(n) /\ Records(n)
    <3>1. Still(s, n) /\ Quiet(s, n, {m})
      BY <1>3, NormalizeStill, NormalizeQuiet DEF InOrder
    <3>2. QED
      BY <3>1, StillMarks DEF Quiet, Spares, Affects
  <2> HIDE DEF n
  <2>3. w \in ToSet(n.sets[m].order)
    BY <2>1, SoundLookups
  <2> HIDE DEF w
  <2>4. i \in DOMAIN n.sets[m].order /\ j \in DOMAIN n.sets[m].order
    BY <2>1, <2>3, NeighbourInOrder
  <2> HIDE DEF i, j
  <2>5. Sound(a) /\ m \in DOMAIN a.sets
    BY <2>1, <2>4, SwappedOrderSound
  <2>6. Quiet(n, a, {m})
    BY <2>2, AssignmentsQuiet
  <2>7. \A k \in DOMAIN n.sets : a.sets[k].active = n.sets[k].active
    BY <2>2 DEF Records, PutOrder, Put
  <2> HIDE DEF a
  <2>8. Still(n, a) /\ Records(a)
    BY <2>6, <2>7 DEF Still, Quiet, Spares, Affects
  <2>9. Still(a, u) /\ Quiet(a, u, {m})
    BY <2>5, <2>8, NormalizeStill, NormalizeQuiet
  <2>10. Sound(u) /\ m \in DOMAIN u.sets
    BY <2>5, NormalizeSound
  <2> HIDE DEF u
  <2>11. Marks(u) /\ Records(u)
    BY <2>2, <2>8, <2>9, StillMarks DEF Quiet, Spares, Affects
  <2>12. Marks(v)
    BY <2>10, <2>11, SyncMarks
  <2>13. QED
    BY <2>2, <2>12
<1> HIDE DEF n, v
<1>4. Marks(t)
  BY <1>1, <1>2, <1>3
<1>5. QED
  BY <1>4 DEF t

\* handle_move_workspace_to_adjacent_monitor: what the monitor it leaves shows is
\* chosen anew, and marked last.
LEMMA MoveWorkspaceToMonitorMarks ==
  ASSUME NEW s, InOrder(s), Records(s), Marks(s), NEW forward \in BOOLEAN, NEW requested
  PROVE  Marks(MoveWorkspaceToMonitor(s, forward, requested).st)
<1> DEFINE from == CommandMonitor(s, requested)
           to   == AdjacentMonitor(s, from, forward)
           w    == ActiveWorkspace(s, from)
           n    == NormalizeBoth(s, from, to)
           h    == RehostWorkspace(n, from, to, w)
           u    == NormalizeBoth(h, from, to)
           a    == ActivateWorkspace(u, to, w)
           v    == SyncOverview(a, from)
           t    == MoveWorkspaceToMonitor(s, forward, requested).st
           M    == {from, to}
<1>1. t = s \/ (from # None /\ from # to /\ t = v)
  BY SettleState DEF MoveWorkspaceToMonitor, Err
<1>2. from # None => from \in DOMAIN s.sets /\ to \in DOMAIN s.sets /\ w = s.sets[from].active
  BY CommandMonitorKnown, AdjacentMonitorKnown, SoundLookups DEF InOrder
<1>3. from \in M /\ to \in M
  OBVIOUS
<1> HIDE DEF from, to, w, t
<1>4. ASSUME from \in DOMAIN s.sets, to \in DOMAIN s.sets, from # to, w = s.sets[from].active
      PROVE  Marks(v)
  <2>1. Sound(u) /\ Arranged(u, {}) /\ to \in DOMAIN u.sets /\ w \in ToSet(u.sets[to].order)
    BY <1>4, CrossingArranged
  <2>2. Quiet(s, u, M)
    <3> HIDE DEF M
    <3>1. Quiet(s, n, M) /\ Records(n)
      BY <1>3, NormalizeBothQuiet DEF Quiet, Spares, Affects
    <3> HIDE DEF n
    <3>2. Quiet(n, h, M) /\ Records(h)
      BY <1>3, <3>1, RehostQuiet DEF Quiet, Spares, Affects
    <3> HIDE DEF h
    <3>3. Quiet(h, u, M)
      BY <1>3, <3>2, NormalizeBothQuiet
    <3> HIDE DEF u
    <3>4. QED
      BY <3>1, <3>2, <3>3, QuietTransitive
  <2> HIDE DEF u
  <2>3. Records(u) /\ from \in DOMAIN u.sets /\ u.overview = s.overview
    BY <1>4, <2>2 DEF Quiet, Spares, Affects
  <2>4. u.overview.mon \notin M => Marks(u)
    BY <2>2 DEF Quiet, Spares, Affects, Marks
  <2>5. Sound(a) /\ from \in DOMAIN a.sets
    BY <2>1, <2>3, ActivateShown DEF InOrder
  <2>6. Spares(u, a, {to})
    BY <2>3, ActivateSpares
  <2>7. u.overview.mon # from => Marks(a)
    BY <2>1, <2>3, <2>4, SoundShape, ActivateMarks
  <2> HIDE DEF a
  <2>8. Records(a) /\ a.overview.mon = u.overview.mon
    BY <2>6 DEF Spares, Affects
  <2>9. QED
    BY <2>5, <2>7, <2>8, SyncMarks
<1> HIDE DEF v
<1>5. Marks(t)
  BY <1>1, <1>2, <1>4
<1>6. QED
  BY <1>5 DEF t

\* move_column_to_workspace_target_internal activates the workspace the column goes
\* to.
LEMMA MoveColumnToMarks ==
  ASSUME NEW s, InOrder(s), Records(s), Marks(s), NEW c \in DOMAIN s.columns,
         NEW to \in DOMAIN s.workspaces, NEW after
  PROVE  Marks(MoveColumnTo(s, c, to, after).st)
<1> DEFINE from == ColumnWorkspace(s, c)
           m1   == s.workspaces[from].mon
           m2   == s.workspaces[to].mon
           k    == TransferColumn(s, c, from, to, after)
           a    == ActivateWorkspace(k, m2, to)
           n1   == NormalizeWorkspaceSet(a, m1)
           n2   == NormalizeWorkspaceSet(n1, m2)
           v    == SyncOverview(n2, m1)
           t    == MoveColumnTo(s, c, to, after).st
<1>1. t = s \/ (~(from = to /\ after = c) /\ t \in {n1, v})
  BY SettleState DEF MoveColumnTo, NormalizeBoth, Err
<1>2. Sound(s) /\ Arranged(s, {})
  BY DEF InOrder
<1>3. from \in DOMAIN s.workspaces /\ from = ColumnWorkspace(s, c)
  BY <1>2, ColumnStands
<1>4. m1 \in DOMAIN s.sets /\ m2 \in DOMAIN s.sets /\ to \in ToSet(s.sets[m2].order)
  BY <1>2, <1>3, SoundLookups
<1> HIDE DEF m1, m2, from, t
<1>5. ASSUME ~(from = to /\ after = c) PROVE Marks(n1) /\ Marks(v)
  <2>1. Alike(s, k)
    BY <1>2, <1>3, TransferColumnAlike, SoundShape
  <2>2. Arranged(k, {})
    BY <1>2, <1>3, <1>5, TransferArranged
  <2>3. Records(k) /\ k.overview = s.overview
    <3>1. Rearranges(s, k)
      BY TransferRearranges
    <3> HIDE DEF k
    <3>2. Keeps(s, k, {})
      BY TransferKeeps DEF k
    <3>3. QED
      BY <3>1, <3>2 DEF Keeps, Affects, Rearranges
  <2> HIDE DEF k
  <2>4. Sound(k) /\ k.sets = s.sets /\ Shape(k)
    BY <1>2, <2>1, AlikeSound DEF Alike
  <2>5. Marks(k)
    BY <2>3, <2>4 DEF Marks
  <2>6. Sound(a) /\ DOMAIN a.sets = DOMAIN s.sets
    BY <1>4, <2>2, <2>4, ActivateShown DEF InOrder
  <2>7. Marks(a)
    BY <1>4, <2>3, <2>4, <2>5, ActivateMarks
  <2>8. Spares(k, a, {m2})
    BY <2>3, ActivateSpares
  <2> HIDE DEF a
  <2>9. Records(a)
    BY <2>8 DEF Spares, Affects
  <2>10. Still(a, n1) /\ Quiet(a, n1, {m1}) /\ Sound(n1) /\ DOMAIN n1.sets = DOMAIN s.sets
    BY <1>4, <2>6, <2>9, NormalizeStill, NormalizeQuiet, NormalizeSound
  <2> HIDE DEF n1
  <2>11. Marks(n1) /\ Records(n1)
    BY <2>7, <2>10, StillMarks DEF Quiet, Spares, Affects
  <2>12. Still(n1, n2) /\ Quiet(n1, n2, {m2}) /\ Sound(n2) /\ DOMAIN n2.sets = DOMAIN s.sets
    BY <1>4, <2>10, <2>11, NormalizeStill, NormalizeQuiet, NormalizeSound
  <2> HIDE DEF n2
  <2>13. Marks(n2) /\ Records(n2)
    BY <2>11, <2>12, StillMarks DEF Quiet, Spares, Affects
  <2>14. Marks(v)
    BY <1>4, <2>12, <2>13, SyncMarks
  <2>15. QED
    BY <2>11, <2>14
<1> HIDE DEF n1, v
<1>6. Marks(t)
  BY <1>1, <1>5
<1>7. QED
  BY <1>6 DEF t

\* handle_move_column_to_workspace
LEMMA MoveColumnMarks ==
  ASSUME NEW s, InOrder(s), Records(s), Marks(s), NEW forward \in BOOLEAN, NEW requested
  PROVE  Marks(MoveColumnToWorkspace(s, forward, requested).st)
<1> DEFINE m     == CommandMonitor(s, requested)
           from  == ActiveWorkspace(s, m)
           x     == FocusedWindowIn(s, from)
           n     == NormalizeWorkspaceSet(s, m)
           order == n.sets[m].order
           to    == order[StepWithin(Position(order, from), forward, Len(order))]
           c     == s.windows[x].col
           t     == MoveColumnToWorkspace(s, forward, requested).st
<1>1. CASE m = None \/ ~IsTiled(s, x)
  BY <1>1 DEF MoveColumnToWorkspace, Err
<1>2. CASE m # None /\ IsTiled(s, x)
  <2>1. t = n \/ t = MoveColumnTo(n, c, to, None).st
    BY <1>2, SettleState DEF MoveColumnToWorkspace
  <2>2. m \in DOMAIN s.sets
    BY <1>2, CommandMonitorKnown
  <2>3. x \in DOMAIN s.windows /\ c # None
    BY <1>2 DEF IsTiled, FocusedWindowIn
  <2>4. from = s.sets[m].active
    BY <2>2, SoundLookups DEF InOrder
  <2> HIDE DEF m, from, x, t
  <2>5. c \in DOMAIN s.columns
    BY <2>3, TiledStands DEF InOrder
  <2> HIDE DEF c
  <2>6. InOrder(n) /\ Sound(n) /\ m \in DOMAIN n.sets /\ n.sets[m].active = from
    BY <2>2, <2>4, NormalizeInOrder, NormalizeSound DEF InOrder
  <2>7. n.columns = s.columns
    BY <2>2, NormalizeArranged DEF InOrder, Sound, Tidied, SameLists
  <2>8. Still(s, n) /\ Quiet(s, n, {m})
    BY <2>2, NormalizeStill, NormalizeQuiet DEF InOrder
  <2> HIDE DEF n
  <2>9. Marks(n) /\ Records(n)
    BY <2>8, StillMarks DEF Quiet, Spares, Affects
  <2>10. from \in ToSet(n.sets[m].order)
    BY <2>6, SoundLookups
  <2>11. to \in ToSet(n.sets[m].order)
    BY <2>6, <2>10, NeighbourInOrder
  <2> HIDE DEF to
  <2>12. to \in DOMAIN n.workspaces
    BY <2>6, <2>11, SoundLookups
  <2>13. Marks(MoveColumnTo(n, c, to, None).st)
    BY <2>5, <2>6, <2>7, <2>9, <2>12, MoveColumnToMarks
  <2>14. Marks(t)
    BY <2>1, <2>9, <2>13
  <2>15. QED
    BY <2>14 DEF t
<1>3. QED
  BY <1>1, <1>2

\* No other step but a direct focus misplaces the mark.
LEMMA NextMarks ==
  ASSUME InOrder(st), Grounded(st), Marks(st), Next
  PROVE  \/ Marks(st')
         \/ \E x \in DOMAIN st.windows : ObserveFocus(x)
         \/ WindowCommand
<1>1. Records(st)
  BY DEF Grounded
<1>2. CASE Platform
  <2>1. CASE \E m \in Monitors : PlugMonitor(m)
    BY <2>1, PlugMarks DEF PlugMonitor, Known
  <2>2. CASE \E m \in Monitors : RefreshMonitor(m)
    <3>1. PICK m \in Monitors : RefreshMonitor(m)
      BY <2>2
    <3>2. m \in DOMAIN st.sets /\ st' = NormalizeWorkspaceSet(st, m)
      BY <3>1 DEF RefreshMonitor, Known
    <3>3. Still(st, NormalizeWorkspaceSet(st, m))
      BY <1>1, <3>2, NormalizeStill DEF InOrder
    <3>4. QED
      BY <3>2, <3>3, StillMarks
  <2>3. CASE \E m \in Monitors, d \in Discoveries : Discover(m, d)
    <3>1. PICK m \in Monitors, d \in Discoveries : Discover(m, d)
      BY <2>3
    <3> DEFINE e == [mon |-> m, managed |-> d.managed, layer |-> d.layer,
                     mode |-> d.mode, preserve |-> d.preserve, placement |-> d.placement]
    <3>2. m \in DOMAIN st.sets /\ st' = WindowDiscovered(st, e).st
      BY <3>1 DEF Discover, Fatal, Known
    <3>3. e.mon = m
      OBVIOUS
    <3> HIDE DEF e
    <3>4. Still(st, WindowDiscovered(st, e).st)
      BY <1>1, <3>2, <3>3, DiscoverStill
    <3>5. QED
      BY <3>2, <3>4, StillMarks
  <2>4. CASE \E x \in DOMAIN st.windows : Destroy(x)
    <3>1. PICK x \in DOMAIN st.windows : Destroy(x)
      BY <2>4
    <3>2. Still(st, WindowDestroyed(st, x).st)
      BY <1>1, DestroyStill
    <3>3. QED
      BY <3>1, <3>2, StillMarks DEF Destroy, Fatal
  <2>5. QED
    BY <1>2, <2>1, <2>2, <2>3, <2>4 DEF Platform
<1>3. CASE \E forward, tabs \in BOOLEAN : CmdFocusNavigation(forward, tabs)
  <2>1. PICK forward \in BOOLEAN, tabs \in BOOLEAN : CmdFocusNavigation(forward, tabs)
    BY <1>3
  <2>2. st' = FocusNavigation(st, forward, tabs).st /\ DOMAIN st.sets # {}
    BY <2>1 DEF CmdFocusNavigation, Command, Fatal, Answered, Known
  <2>3. Still(st, FocusNavigation(st, forward, tabs).st)
    BY <2>2, NavigationStill
  <2>4. QED
    BY <2>2, <2>3, StillMarks
<1>4. CASE WorkspaceCommand
  <2>1. PICK forward \in BOOLEAN, m \in MonitorRequests :
          \/ CmdFocusWorkspace(forward, m)
          \/ CmdMoveWorkspace(forward, m)
          \/ CmdMoveWorkspaceToMonitor(forward, m)
          \/ CmdMoveColumnToWorkspace(forward, m)
    BY <1>4 DEF WorkspaceCommand
  <2>2. st' \in {FocusWorkspace(st, forward, m).st, MoveWorkspaceWithinMonitor(st, forward, m).st,
                 MoveWorkspaceToMonitor(st, forward, m).st, MoveColumnToWorkspace(st, forward, m).st}
    BY <2>1 DEF CmdFocusWorkspace, CmdMoveWorkspace, CmdMoveWorkspaceToMonitor,
                CmdMoveColumnToWorkspace, Command, Fatal, Answered
  <2>3. QED
    BY <1>1, <2>2, FocusWorkspaceMarks, MoveWorkspaceMarks, MoveWorkspaceToMonitorMarks,
       MoveColumnMarks
<1>5. CASE ColumnDrop
  <2>1. PICK x \in DOMAIN st.windows, to \in DOMAIN st.workspaces, y \in Option(DOMAIN st.windows) :
          CmdDropColumn(x, to, y)
    BY <1>5 DEF ColumnDrop
  <2>2. \E after : st' = MoveColumnTo(st, st.windows[x].col, to, after).st
    BY <2>1 DEF CmdDropColumn, Fatal
  <2>3. IsTiled(st, x)
    BY <2>1 DEF CmdDropColumn, OnOverview
  <2>4. st.windows[x].col \in DOMAIN st.columns
    BY <2>3, TiledStands DEF IsTiled, InOrder
  <2>5. QED
    BY <1>1, <2>2, <2>4, MoveColumnToMarks
<1>6. CASE OverviewCommand
  <2>1. /\ Grounded(st') /\ st'.sets = st.sets
        /\ st'.overview.open => st'.overview.sel = ActiveWorkspace(st, st'.overview.mon)
                                \/ st' = st
    BY <1>6, OverviewGrounded
  <2>2. st'.overview.open => st'.overview.mon \in DOMAIN st.sets
    BY <2>1 DEF Grounded
  <2>3. \A k \in DOMAIN st.sets : ActiveWorkspace(st, k) = st.sets[k].active
    BY SoundLookups DEF InOrder
  <2>4. QED
    BY <2>1, <2>2, <2>3 DEF Marks
<1>7. CASE ResizeCommand
  <2>1. Spares(st, st', {}) /\ st'.overview = st.overview
    BY <1>1, <1>7, ResizeMovesNothing
  <2>2. Still(st, st')
    BY <2>1 DEF Spares, Affects, Still
  <2>3. QED
    BY <2>2, StillMarks
<1>8. QED
  BY <1>2, <1>3, <1>4, <1>5, <1>6, <1>7 DEF Next

\* The overview marks the workspace its monitor shows, and only focusing a window
\* of another workspace directly leaves the mark behind.
THEOREM OnlyDirectFocusMisplacesTheMark == Spec => OnlyDirectFocusMisplacesMark
<1>1. ASSUME InOrder(st), Grounded(st), [Next]_vars
      PROVE  [OverviewShowsActive =>
                \/ OverviewShowsActive'
                \/ \E x \in DOMAIN st.windows : ObserveFocus(x)
                \/ WindowCommand]_vars
  <2>1. SUFFICES ASSUME Next, OverviewShowsActive,
                        ~ \E x \in DOMAIN st.windows : ObserveFocus(x), ~WindowCommand
                 PROVE  OverviewShowsActive'
    BY <1>1
  <2>2. Marks(st)
    BY <1>1, <2>1, MarksShowActive DEF InOrder, OverviewShowsActive
  <2>3. Marks(st')
    BY <1>1, <2>1, <2>2, NextMarks
  <2>4. Sound(st') /\ Grounded(st')
    BY <1>1, <2>1, NextInOrder, NextGrounded DEF InOrder
  <2>5. QED
    BY <2>3, <2>4, MarksShowActive DEF OverviewShowsActive
<1>2. QED
  BY <1>1, StoreIsGrounded, PTL DEF Spec, OnlyDirectFocusMisplacesMark

---------------------------------------------------------------------------
(* Layers and flags. *)

\* The layer of a window, its flags and its being in a column say the same.
FlagsFit(r) ==
  /\ r.flt = (r.layer = "Floating")
  /\ r.full = (r.layer = "Fullscreen")
  /\ r.managed => (r.layer = "Tiled") = (r.col # None)

\* A window goes back to another layer than the one it is on.
GoesBack(r) == r.restore # NoRestore => r.restore.layer # r.layer

WindowsGoBack(s) == \A x \in DOMAIN s.windows : GoesBack(s.windows[x])

\* Two records that differ in what neither of the two speaks of.
SameMode(r, q) ==
  /\ q.layer = r.layer /\ q.flt = r.flt /\ q.full = r.full
  /\ q.managed = r.managed /\ q.restore = r.restore
  /\ (q.col = None) = (r.col = None)

\* A step that writes only records that fit.
FitsWhatItWrites(s, t) ==
  \A x \in DOMAIN t.windows :
    \/ FlagsFit(t.windows[x]) /\ GoesBack(t.windows[x])
    \/ x \in DOMAIN s.windows /\ SameMode(s.windows[x], t.windows[x])

\* Such steps keep both.
LEMMA FittingKeeps ==
  ASSUME NEW s, NEW t, FitsWhatItWrites(s, t)
  PROVE  /\ WindowsGoBack(s) => WindowsGoBack(t)
         /\ LayerFlagsAgree(s) => LayerFlagsAgree(t)
<1>1. ASSUME NEW r, NEW q, SameMode(r, q)
      PROVE  (FlagsFit(r) => FlagsFit(q)) /\ (GoesBack(r) => GoesBack(q))
  BY <1>1 DEF SameMode, FlagsFit, GoesBack
<1>2. LayerFlagsAgree(s) = \A x \in DOMAIN s.windows : FlagsFit(s.windows[x])
  BY DEF LayerFlagsAgree, FlagsFit
<1>3. LayerFlagsAgree(t) = \A x \in DOMAIN t.windows : FlagsFit(t.windows[x])
  BY DEF LayerFlagsAgree, FlagsFit
<1>4. QED
  BY <1>1, <1>2, <1>3 DEF FitsWhatItWrites, WindowsGoBack

\* A step that changes no window, or drops some.
LEMMA SameWindowsFit ==
  ASSUME NEW s, NEW t,
         \A x \in DOMAIN t.windows : x \in DOMAIN s.windows /\ t.windows[x] = s.windows[x]
  PROVE  FitsWhatItWrites(s, t)
BY DEF FitsWhatItWrites, SameMode

\* A step that writes one record that fits.
LEMMA WrittenFits ==
  ASSUME NEW s, NEW t, NEW x, NEW r, FlagsFit(r), GoesBack(r), t.windows = Put(s.windows, x, r)
  PROVE  FitsWhatItWrites(s, t)
BY DEF FitsWhatItWrites, SameMode, Put

\* What a window is written as and where the focus goes are independent.
LEMMA RefocusedWindows ==
  ASSUME NEW s, Records(s), NEW m, NEW w, NEW x, NEW c, NEW r
  PROVE  FocusWindow(SetWindow(s, x, r), m, w, x, c).windows = Put(s.windows, x, r)
<1> DEFINE v == SetWindow(s, x, r)
<1>1. Rearranges(s, v) /\ v.windows = Put(s.windows, x, r)
  BY WritesRearrange
<1> HIDE DEF v
<1>2. Spares(v, FocusWindow(v, m, w, x, c), {m})
  BY <1>1, FocusSpares DEF Rearranges
<1>3. FocusWindow(v, m, w, x, c).windows = Put(s.windows, x, r)
  BY <1>1, <1>2 DEF Spares
<1>4. QED
  BY <1>3 DEF v

\* A window that is discovered is in a column exactly when it is managed and tiled.
LEMMA DiscoverFits ==
  ASSUME NEW s, InOrder(s), Records(s), NEW d, Payload(d)
  PROVE  FitsWhatItWrites(s, WindowDiscovered(s, d).st)
<1> DEFINE m       == d.mon
           w       == ActiveWorkspace(s, m)
           x       == FreshWindow(s)
           placed  == PlaceDiscovered(s, w, x, d)
           node    == [layer |-> d.layer, ws |-> w, col |-> placed.col, managed |-> d.managed,
                       flt |-> d.layer = "Floating", full |-> d.layer = "Fullscreen",
                       restore |-> NoRestore]
           added   == SetWindow(placed.st, x, node)
           active  == PutActive(added, m, w)
           focused == IF d.managed /\ ~KeepsFocus(s, w, d)
                      THEN FocusWindow(active, m, w, x, placed.col) ELSE active
           final   == NormalizeWorkspaceSet(focused, m)
<1>1. WindowDiscovered(s, d).st = final
  BY SettleState DEF WindowDiscovered, Ok
<1>2. StateType(s) /\ Arranged(s, {})
  BY DEF InOrder, Arranged
<1> HIDE DEF w, x
<1>3. d.managed => (d.layer = "Tiled") = (placed.col # None)
  <2>1. FreshColumn(s) # None
    BY <1>2, FreshColumnIsNew, NoneIsNoId
  <2>2. d.managed => placed.col = IF d.layer # "Tiled" THEN None
                                  ELSE IF d.placement = "Join" /\ FocusedColumnIn(s, w) # None
                                  THEN FocusedColumnIn(s, w) ELSE FreshColumn(s)
    BY DEF PlaceDiscovered, PlaceTiled
  <2>3. QED
    BY <2>1, <2>2
<1>4. FlagsFit(node) /\ GoesBack(node)
  BY <1>3 DEF FlagsFit, GoesBack
<1>5. Rearranges(s, placed.st) /\ placed.st.windows = s.windows
  BY PlacingRearranges DEF Placing
<1> HIDE DEF node, placed
<1>6. Records(added) /\ added.windows = Put(s.windows, x, node)
  BY <1>5, WritesRearrange DEF Rearranges
<1> HIDE DEF added, m
<1>7. Spares(added, active, {m})
  BY <1>6, AssignmentsSpare
<1> HIDE DEF active
<1>8. Spares(active, focused, {m})
  <2>1. Records(active)
    BY <1>7 DEF Spares, Affects
  <2>2. QED
    BY <2>1, FocusSpares, SparesReflexive
<1> HIDE DEF focused
<1>9. Spares(focused, final, {m})
  BY <1>8, NormalizeSpares DEF Spares, Affects
<1> HIDE DEF final
<1>10. final.windows = Put(s.windows, x, node)
  BY <1>6, <1>7, <1>8, <1>9 DEF Spares
<1>11. FitsWhatItWrites(s, final)
  BY <1>4, <1>10, WrittenFits
<1>12. QED
  BY <1>1, <1>11

\* The windows of a column that moves stay in it.
LEMMA TransferFits ==
  ASSUME NEW s, Records(s), Arranged(s, {}), NEW c \in DOMAIN s.columns, NEW from, NEW to, NEW after
  PROVE  FitsWhatItWrites(s, TransferColumn(s, c, from, to, after))
<1> DEFINE wins == ToSet(s.columns[c].wins)
           k    == TransferColumn(s, c, from, to, after)
           f    == Transferred(s, c, to)
<1>1. k.windows = f
  BY TransferRearranges
<1>2. c # None
  BY TypeLookups, NoneIsNoId DEF Arranged
<1>3. ASSUME NEW x \in DOMAIN s.windows PROVE SameMode(s.windows[x], f[x])
  <2>1. CASE x \in wins
    <3>1. s.windows[x].col = c
      BY <2>1 DEF Arranged, Placed, ColumnFits
    <3>2. s.windows[x] \in Window
      BY TypeLookups DEF Arranged
    <3>3. f[x] = [s.windows[x] EXCEPT !.ws = to, !.col = c]
      BY <2>1 DEF Transferred
    <3> HIDE DEF f, wins
    <3>4. QED
      BY <1>2, <3>1, <3>2, <3>3 DEF SameMode, Window
  <2>2. CASE x \notin wins
    BY <2>2 DEF SameMode, Transferred
  <2>3. QED
    BY <2>1, <2>2
<1>4. DOMAIN f = DOMAIN s.windows
  BY DEF Transferred
<1> HIDE DEF f, k
<1>5. FitsWhatItWrites(s, k)
  BY <1>1, <1>3, <1>4 DEF FitsWhatItWrites
<1>6. QED
  BY <1>5 DEF k

\* move_column_to_workspace_target_internal
LEMMA MoveColumnToFits ==
  ASSUME NEW s, InOrder(s), Records(s), NEW c \in DOMAIN s.columns, NEW to, NEW after
  PROVE  FitsWhatItWrites(s, MoveColumnTo(s, c, to, after).st)
<1> DEFINE from == ColumnWorkspace(s, c)
           M    == {s.workspaces[from].mon, s.workspaces[to].mon}
           k    == TransferColumn(s, c, from, to, after)
           t    == MoveColumnTo(s, c, to, after).st
<1>1. t = s \/ Spares(k, t, M)
  <2>1. s.workspaces[from].mon \in M /\ s.workspaces[to].mon \in M
    OBVIOUS
  <2> HIDE DEF M
  <2>2. QED
    BY <2>1, MoveColumnToSpares
<1>2. FitsWhatItWrites(s, k)
  BY TransferFits DEF InOrder
<1> HIDE DEF k, t
<1>3. FitsWhatItWrites(s, t)
  BY <1>1, <1>2 DEF Spares, FitsWhatItWrites, SameMode
<1>4. QED
  BY <1>3 DEF t

\* handle_move_column_to_workspace
LEMMA MoveColumnFits ==
  ASSUME NEW s, InOrder(s), Records(s), NEW forward, NEW requested
  PROVE  FitsWhatItWrites(s, MoveColumnToWorkspace(s, forward, requested).st)
<1> DEFINE m     == CommandMonitor(s, requested)
           from  == ActiveWorkspace(s, m)
           x     == FocusedWindowIn(s, from)
           n     == NormalizeWorkspaceSet(s, m)
           order == n.sets[m].order
           to    == order[StepWithin(Position(order, from), forward, Len(order))]
           c     == s.windows[x].col
           t     == MoveColumnToWorkspace(s, forward, requested).st
<1>1. CASE m = None \/ ~IsTiled(s, x)
  BY <1>1, SameWindowsFit DEF MoveColumnToWorkspace, Err
<1>2. CASE m # None /\ IsTiled(s, x)
  <2>1. t = n \/ t = MoveColumnTo(n, c, to, None).st
    BY <1>2, SettleState DEF MoveColumnToWorkspace
  <2>2. m \in DOMAIN s.sets
    BY <1>2, CommandMonitorKnown
  <2>3. x \in DOMAIN s.windows /\ c # None
    BY <1>2 DEF IsTiled, FocusedWindowIn
  <2> HIDE DEF m, from, x, t
  <2>4. c \in DOMAIN s.columns
    BY <2>3, TiledStands DEF InOrder
  <2> HIDE DEF c
  <2>5. InOrder(n) /\ n.columns = s.columns
    BY <2>2, NormalizeInOrder, NormalizeArranged DEF InOrder, Sound, Tidied, SameLists
  <2>6. Spares(s, n, {m})
    BY NormalizeSpares
  <2> HIDE DEF n, to
  <2>7. Records(n) /\ n.windows = s.windows
    BY <2>6 DEF Spares, Affects
  <2>8. FitsWhatItWrites(n, MoveColumnTo(n, c, to, None).st)
    BY <2>4, <2>5, <2>7, MoveColumnToFits
  <2>9. FitsWhatItWrites(s, t)
    BY <2>1, <2>7, <2>8, SameWindowsFit DEF FitsWhatItWrites
  <2>10. QED
    BY <2>9 DEF t
<1>3. QED
  BY <1>1, <1>2

\* A window that leaves its place knows the way back to another layer.
LEMMA LeavePlaceFits ==
  ASSUME NEW s, InOrder(s), Records(s), NEW x \in DOMAIN s.windows,
         s.windows[x].ws \in DOMAIN s.workspaces,
         NEW layer \in {"Floating", "Fullscreen"}, s.windows[x].layer # layer
  PROVE  FitsWhatItWrites(s, LeavePlace(s, x, layer))
<1> DEFINE w    == s.windows[x].ws
           p    == PlaceOf(s, x)
           out  == PushFloating(DetachWindow(s, x), w, x)
           node == [s.windows[x] EXCEPT
                      !.layer = layer, !.col = None, !.flt = layer = "Floating",
                      !.full = layer = "Fullscreen", !.restore = p]
           t    == LeavePlace(s, x, layer)
<1>1. t = FocusWindow(SetWindow(out, x, node), s.workspaces[w].mon, w, x, None)
  BY DEF LeavePlace
<1>2. s.windows[x] \in Window
  BY TypeLookups DEF InOrder, Arranged
<1>3. p.layer = s.windows[x].layer
  BY PlaceOfFits DEF InOrder
<1>4. Records(out) /\ out.windows = s.windows
  <2> DEFINE d == DetachWindow(s, x)
  <2>1. Rearranges(s, d) /\ d.windows = s.windows
    BY DetachingRearranges
  <2> HIDE DEF d, w
  <2>2. Rearranges(d, PushFloating(d, w, x)) /\ PushFloating(d, w, x).windows = d.windows
    BY <2>1, EnteringRearranges DEF Rearranges
  <2>3. QED
    BY <2>1, <2>2 DEF d, Rearranges
<1> HIDE DEF p, out
<1>5. FlagsFit(node) /\ GoesBack(node)
  <2>1. /\ node.layer = layer /\ node.col = None /\ node.restore = p
        /\ node.flt = (layer = "Floating") /\ node.full = (layer = "Fullscreen")
    BY <1>2 DEF Window
  <2> HIDE DEF node
  <2>2. QED
    BY <1>3, <2>1 DEF FlagsFit, GoesBack
<1> HIDE DEF node, t, w
<1>6. t.windows = Put(s.windows, x, node)
  BY <1>1, <1>4, RefocusedWindows
<1>7. FitsWhatItWrites(s, t)
  BY <1>5, <1>6, WrittenFits
<1>8. QED
  BY <1>7 DEF t

\* A window that comes back fits, but for one that was floated out of fullscreen.
LEMMA ReturnToPlaceFits ==
  ASSUME NEW s, InOrder(s), Records(s), WindowsGoBack(s), NEW x \in DOMAIN s.windows,
         s.windows[x].ws \in DOMAIN s.workspaces,
         NEW layer \in {"Floating", "Fullscreen"}, s.windows[x].layer = layer
  PROVE  /\ WindowsGoBack(ReturnToPlace(s, x, layer))
         /\ \/ FitsWhatItWrites(s, ReturnToPlace(s, x, layer))
            \/ layer = "Floating" /\ s.windows[x].restore.layer = "Fullscreen"
<1> DEFINE w        == s.windows[x].ws
           target   == RestoreOf(s, x)
           d        == DetachWindow(s, x)
           restored == RestoreWindow(d, x, target)
           back     == target.layer
           c        == restored.col
           node     == Returned(s.windows[x], layer, back, c)
           t        == ReturnToPlace(s, x, layer)
<1>1. t = FocusWindow(SetWindow(restored.st, x, node), s.workspaces[w].mon, w, x, c)
  BY DEF ReturnToPlace
<1>2. s.windows[x] \in Window
  BY TypeLookups DEF InOrder, Arranged
<1>3. Rearranges(s, d) /\ d.windows = s.windows
  BY DetachingRearranges
<1>4. Arranged(d, {x}) /\ Leaves(s, d)
  BY DetachArranged DEF InOrder
<1>5. back \in Layers /\ target.ws = w
  BY RestoreOfFits DEF InOrder
<1>6. back # layer /\ (back # "Tiled" => back = s.windows[x].restore.layer)
  <2>1. GoesBack(s.windows[x])
    BY DEF WindowsGoBack
  <2>2. CASE s.windows[x].restore # NoRestore
    BY <2>1, <2>2 DEF GoesBack, RestoreOf
  <2>3. CASE s.windows[x].restore = NoRestore
    <3> DEFINE q == PlaceOf(s, x)
    <3>1. q \in RestoreTarget
      BY PlaceOfFits DEF InOrder
    <3>2. target = [q EXCEPT !.col = FocusedColumnIn(s, w), !.layer = "Tiled"]
      BY <2>3 DEF RestoreOf
    <3> HIDE DEF q, target
    <3>3. target.layer = "Tiled"
      BY <3>1, <3>2 DEF RestoreTarget
    <3>4. QED
      BY <3>3
  <2>4. QED
    BY <2>2, <2>3
<1> HIDE DEF target
<1>7. Placing(d, restored)
  BY <1>3, RestoringRearranges DEF Rearranges
<1>8. back = "Tiled" => c # None
  <2>1. FreshColumn(d) # None
    BY <1>4, FreshColumnIsNew, NoneIsNoId
  <2>2. CASE target.col \in ToSet(d.workspaces[target.ws].cols)
    <3>1. w \in DOMAIN d.workspaces
      BY <1>4 DEF Leaves
    <3>2. d.workspaces[w].cols \in Seq(Nat)
      BY <1>4, <3>1, ListTypes DEF Arranged
    <3>3. target.col # None
      <4>1. target.col \in ToSet(d.workspaces[w].cols)
        BY <1>5, <2>2
      <4>2. ToSet(d.workspaces[w].cols) \subseteq Nat
        BY <3>2 DEF ToSet
      <4>3. QED
        BY <4>1, <4>2, NoneIsNoId
    <3>4. QED
      BY <2>2, <3>3 DEF RestoreWindow
  <2>3. CASE target.col \notin ToSet(d.workspaces[target.ws].cols)
    BY <2>1, <2>3 DEF RestoreWindow
  <2>4. QED
    BY <2>2, <2>3
<1>9. back = "Floating" => c = None
  BY DEF RestoreWindow
<1> HIDE DEF d, restored, back, c
<1>10. GoesBack(node)
  <2>1. node.restore = NoRestore
    BY <1>2 DEF Window, Returned
  <2>2. QED
    BY <2>1 DEF GoesBack
<1>11. FlagsFit(node) \/ (layer = "Floating" /\ back = "Fullscreen")
  <2>1. /\ node.layer = back /\ node.col = c /\ node.full = FALSE
        /\ node.flt = (layer = "Fullscreen" /\ back = "Floating")
    BY <1>2 DEF Window, Returned
  <2> HIDE DEF node
  <2>2. CASE back = "Tiled"
    BY <1>8, <2>1, <2>2 DEF FlagsFit
  <2>3. CASE back = "Floating"
    BY <1>6, <1>9, <2>1, <2>3 DEF FlagsFit
  <2>4. CASE back = "Fullscreen"
    BY <1>6, <2>4
  <2>5. QED
    BY <1>5, <2>2, <2>3, <2>4 DEF Layers
<1> HIDE DEF node, t, w
<1>12. t.windows = Put(s.windows, x, node)
  <2>1. Records(restored.st) /\ restored.st.windows = s.windows
    BY <1>3, <1>7 DEF Placing, Rearranges
  <2>2. QED
    BY <1>1, <2>1, RefocusedWindows
<1>13. WindowsGoBack(t)
  BY <1>10, <1>12 DEF WindowsGoBack, Put
<1>14. FitsWhatItWrites(s, t) \/ (layer = "Floating" /\ back = "Fullscreen")
  BY <1>10, <1>11, <1>12, WrittenFits
<1>15. QED
  BY <1>6, <1>13, <1>14 DEF t

\* The toggles of floating and of fullscreen.
LEMMA ToggleLayerFits ==
  ASSUME NEW s, InOrder(s), Records(s), WindowsGoBack(s), NEW requested,
         NEW layer \in {"Floating", "Fullscreen"}
  PROVE  /\ WindowsGoBack(ToggleLayer(s, requested, layer).st)
         /\ \/ FitsWhatItWrites(s, ToggleLayer(s, requested, layer).st)
            \/ \E x \in DOMAIN s.windows :
                 /\ layer = "Floating" /\ s.windows[x].restore.layer = "Fullscreen"
                 /\ x = CommandWindow(s, requested)
<1> DEFINE x == CommandWindow(s, requested)
           w == s.windows[x].ws
           t == ToggleLayer(s, requested, layer).st
<1>1. CASE ~(x \in DOMAIN s.windows /\ w \in DOMAIN s.workspaces)
  BY <1>1, SameWindowsFit DEF ToggleLayer, Err
<1>2. CASE x \in DOMAIN s.windows /\ w \in DOMAIN s.workspaces
  <2>1. \/ t = DetachWindow(s, x)
        \/ s.windows[x].layer # layer /\ t = LeavePlace(s, x, layer)
        \/ s.windows[x].layer = layer /\ t = ReturnToPlace(s, x, layer)
    BY <1>2, SettleState DEF ToggleLayer, Err
  <2> HIDE DEF t
  <2>2. CASE t = DetachWindow(s, x)
    <3>1. t.windows = s.windows
      BY <2>2, DetachingRearranges
    <3>2. FitsWhatItWrites(s, t)
      BY <3>1, SameWindowsFit
    <3>3. QED
      BY <3>2, FittingKeeps DEF t
  <2> HIDE DEF x
  <2>3. CASE s.windows[x].layer # layer /\ t = LeavePlace(s, x, layer)
    <3>1. FitsWhatItWrites(s, t)
      BY <1>2, <2>3, LeavePlaceFits
    <3>2. QED
      BY <3>1, FittingKeeps DEF t
  <2>4. CASE s.windows[x].layer = layer /\ t = ReturnToPlace(s, x, layer)
    <3>1. /\ WindowsGoBack(t)
          /\ \/ FitsWhatItWrites(s, t)
             \/ layer = "Floating" /\ s.windows[x].restore.layer = "Fullscreen"
      BY <1>2, <2>4, ReturnToPlaceFits
    <3>2. QED
      BY <1>2, <3>1 DEF t, x
  <2>5. QED
    BY <2>1, <2>2, <2>3, <2>4
<1>3. QED
  BY <1>1, <1>2

\* A window that was fullscreen when it was floated, and is no more.
MixesFlags ==
  \E x \in DOMAIN st.windows :
    /\ st.windows[x].restore.layer = "Fullscreen"
    /\ st'.windows = ToggleFloating(st, x).st.windows

\* The commands on windows.
LEMMA WindowCommandFits ==
  ASSUME InOrder(st), Records(st), WindowsGoBack(st), WindowCommand
  PROVE  WindowsGoBack(st') /\ (FitsWhatItWrites(st, st') \/ MixesFlags)
<1>1. PICK y \in WindowRequests :
        CmdToggleFloating(y) \/ CmdToggleFullscreen(y) \/ CmdToggleTabbed(y)
  BY DEF WindowCommand
<1>2. CASE CmdToggleFloating(y)
  <2>1. st' = ToggleLayer(st, y, "Floating").st
    BY <1>2 DEF CmdToggleFloating, Command, Fatal, Answered, ToggleFloating
  <2>2. /\ WindowsGoBack(st')
        /\ \/ FitsWhatItWrites(st, st')
           \/ \E x \in DOMAIN st.windows :
                st.windows[x].restore.layer = "Fullscreen" /\ x = CommandWindow(st, y)
    BY <2>1, ToggleLayerFits
  <2>3. ASSUME NEW x \in DOMAIN st.windows, x = CommandWindow(st, y)
        PROVE  ToggleFloating(st, x).st = ToggleLayer(st, y, "Floating").st
    <3>1. x # None
      BY TypeLookups, NoneIsNoId DEF InOrder, Arranged
    <3>2. CommandWindow(st, x) = CommandWindow(st, y)
      BY <2>3, <3>1 DEF CommandWindow
    <3>3. QED
      BY <3>2 DEF ToggleFloating, ToggleLayer
  <2>4. QED
    BY <2>1, <2>2, <2>3 DEF MixesFlags
<1>3. CASE CmdToggleFullscreen(y)
  <2>1. st' = ToggleLayer(st, y, "Fullscreen").st
    BY <1>3 DEF CmdToggleFullscreen, Command, Fatal, Answered, ToggleFullscreen
  <2>2. QED
    BY <2>1, ToggleLayerFits
<1>4. CASE CmdToggleTabbed(y)
  <2>1. st' = ToggleTabbed(st, y).st
    BY <1>4 DEF CmdToggleTabbed, Command, Fatal, Answered
  <2>2. st'.windows = st.windows
    BY <2>1, ToggleTabbedSpares DEF Spares
  <2>3. QED
    BY <2>2, SameWindowsFit, FittingKeeps
<1>5. QED
  BY <1>1, <1>2, <1>3, <1>4

\* Every other step writes only records that fit.
LEMMA NextFits ==
  ASSUME InOrder(st), Grounded(st), Next, ~WindowCommand
  PROVE  FitsWhatItWrites(st, st')
<1>1. Records(st)
  BY DEF Grounded
<1>2. ASSUME st'.windows = st.windows PROVE FitsWhatItWrites(st, st')
  BY <1>2, SameWindowsFit
<1>3. CASE Platform
  <2>1. CASE \E m \in Monitors : PlugMonitor(m)
    <3>1. PICK m \in Monitors : PlugMonitor(m)
      BY <2>1
    <3>2. Quiet(st, AddMonitor(st, m), {m})
      BY <1>1, <3>1, PlugQuiet DEF PlugMonitor, Known
    <3>3. QED
      BY <1>2, <3>1, <3>2 DEF PlugMonitor, Quiet, Spares
  <2>2. CASE \E m \in Monitors : RefreshMonitor(m)
    <3>1. PICK m \in Monitors : RefreshMonitor(m)
      BY <2>2
    <3>2. Spares(st, NormalizeWorkspaceSet(st, m), {m})
      BY <1>1, NormalizeSpares
    <3>3. QED
      BY <1>2, <3>1, <3>2 DEF RefreshMonitor, Spares
  <2>3. CASE \E m \in Monitors, d \in Discoveries : Discover(m, d)
    <3>1. PICK m \in Monitors, d \in Discoveries : Discover(m, d)
      BY <2>3
    <3> DEFINE e == [mon |-> m, managed |-> d.managed, layer |-> d.layer,
                     mode |-> d.mode, preserve |-> d.preserve, placement |-> d.placement]
    <3>2. st' = WindowDiscovered(st, e).st
      BY <3>1 DEF Discover, Fatal
    <3>3. Payload(e)
      BY DiscoveriesArePayloads
    <3> HIDE DEF e
    <3>4. QED
      BY <1>1, <3>2, <3>3, DiscoverFits
  <2>4. CASE \E x \in DOMAIN st.windows : Destroy(x)
    <3>1. PICK x \in DOMAIN st.windows : Destroy(x)
      BY <2>4
    <3> DEFINE w == st.windows[x].ws
               g == Forget(DetachWindow(st, x), w, x, st.windows[x].col)
               t == WindowDestroyed(st, x).st
    <3>2. w \in DOMAIN st.workspaces =>
            st.workspaces[w].mon \in DOMAIN st.sets /\ g.workspaces[w].mon \in DOMAIN st.sets
      <4>1. w \in DOMAIN st.workspaces => st.workspaces[w].mon \in DOMAIN st.sets
        BY SoundLookups DEF InOrder
      <4>2. QED
        BY <4>1, ForgottenArranged
    <3>3. \A y \in DOMAIN t.windows : y \in DOMAIN st.windows /\ t.windows[y] = st.windows[y]
      BY <1>1, <3>2, DestroyTouches
    <3>4. st' = t
      BY <3>1 DEF Destroy, Fatal
    <3> HIDE DEF t
    <3>5. QED
      BY <3>3, <3>4, SameWindowsFit
  <2>5. CASE \E x \in DOMAIN st.windows : ObserveFocus(x)
    <3>1. PICK x \in DOMAIN st.windows : ObserveFocus(x)
      BY <2>5
    <3> DEFINE m == st.workspaces[st.windows[x].ws].mon
    <3>2. m \in {m}
      OBVIOUS
    <3>3. Spares(st, WindowFocusObserved(st, x).st, {m})
      BY <1>1, FocusObservedSpares
    <3>4. QED
      BY <1>2, <3>1, <3>3 DEF ObserveFocus, Fatal, Spares
  <2>6. QED
    BY <1>3, <2>1, <2>2, <2>3, <2>4, <2>5 DEF Platform
<1>4. CASE \E forward, tabs \in BOOLEAN : CmdFocusNavigation(forward, tabs)
  <2>1. PICK forward \in BOOLEAN, tabs \in BOOLEAN : CmdFocusNavigation(forward, tabs)
    BY <1>4
  <2>2. \A w \in DOMAIN st.workspaces : st.workspaces[w].mon \in DOMAIN st.sets
    BY SoundLookups DEF InOrder
  <2>3. Spares(st, FocusNavigation(st, forward, tabs).st, DOMAIN st.sets)
    BY <1>1, <2>2, NavigationSpares
  <2>4. QED
    BY <1>2, <2>1, <2>3 DEF CmdFocusNavigation, Command, Fatal, Answered, Spares
<1>5. CASE WorkspaceCommand
  <2>1. PICK forward \in BOOLEAN, m \in MonitorRequests :
          \/ CmdFocusWorkspace(forward, m)
          \/ CmdMoveWorkspace(forward, m)
          \/ CmdMoveWorkspaceToMonitor(forward, m)
          \/ CmdMoveColumnToWorkspace(forward, m)
    BY <1>5 DEF WorkspaceCommand
  <2> DEFINE M == DOMAIN st.sets
             k == CommandMonitor(st, m)
  <2>2. k # None => k \in M /\ AdjacentMonitor(st, k, forward) \in M
    BY CommandMonitorKnown, AdjacentMonitorKnown
  <2>3. /\ Spares(st, FocusWorkspace(st, forward, m).st, M)
        /\ Spares(st, MoveWorkspaceWithinMonitor(st, forward, m).st, M)
    BY <1>1, <2>2, FocusWorkspaceSpares, MoveWorkspaceSpares
  <2>4. Spares(st, MoveWorkspaceToMonitor(st, forward, m).st, M)
    BY <1>1, <2>2, MoveWorkspaceToMonitorSpares
  <2>5. FitsWhatItWrites(st, MoveColumnToWorkspace(st, forward, m).st)
    BY <1>1, MoveColumnFits
  <2>6. st' \in {FocusWorkspace(st, forward, m).st, MoveWorkspaceWithinMonitor(st, forward, m).st,
                 MoveWorkspaceToMonitor(st, forward, m).st, MoveColumnToWorkspace(st, forward, m).st}
    BY <2>1 DEF CmdFocusWorkspace, CmdMoveWorkspace, CmdMoveWorkspaceToMonitor,
                CmdMoveColumnToWorkspace, Command, Fatal, Answered
  <2>7. QED
    BY <1>2, <2>3, <2>4, <2>5, <2>6 DEF Spares
<1>6. CASE ColumnDrop
  <2>1. PICK x \in DOMAIN st.windows, to \in DOMAIN st.workspaces, y \in Option(DOMAIN st.windows) :
          CmdDropColumn(x, to, y)
    BY <1>6 DEF ColumnDrop
  <2>2. \E after : st' = MoveColumnTo(st, st.windows[x].col, to, after).st
    BY <2>1 DEF CmdDropColumn, Fatal
  <2>3. IsTiled(st, x)
    BY <2>1 DEF CmdDropColumn, OnOverview
  <2>4. st.windows[x].col \in DOMAIN st.columns
    BY <2>3, TiledStands DEF IsTiled, InOrder
  <2>5. QED
    BY <1>1, <2>2, <2>4, MoveColumnToFits
<1>7. CASE OverviewCommand
  BY <1>2, <1>7, OverviewGrounded
<1>8. CASE ResizeCommand
  BY <1>1, <1>2, <1>8, ResizeMovesNothing DEF Spares
<1>9. QED
  BY <1>3, <1>4, <1>5, <1>6, <1>7, <1>8 DEF Next

\* No window ever goes back to the layer it is on.
THEOREM StoreGoesBack == Spec => [](InOrder(st) /\ Grounded(st) /\ WindowsGoBack(st))
<1>1. Init => WindowsGoBack(st)
  BY DEF Init, InitState, WindowsGoBack
<1>2. InOrder(st) /\ Grounded(st) /\ WindowsGoBack(st) /\ [Next]_vars => WindowsGoBack(st)'
  <2>1. SUFFICES ASSUME InOrder(st), Grounded(st), WindowsGoBack(st), [Next]_vars
                 PROVE  WindowsGoBack(st')
    OBVIOUS
  <2>2. CASE WindowCommand
    BY <2>1, <2>2, WindowCommandFits DEF Grounded
  <2>3. CASE Next /\ ~WindowCommand
    BY <2>1, <2>3, NextFits, FittingKeeps
  <2>4. CASE UNCHANGED vars
    BY <2>1, <2>4 DEF vars
  <2>5. QED
    BY <2>1, <2>2, <2>3, <2>4
<1>3. QED
  BY <1>1, <1>2, StoreIsGrounded, PTL DEF Spec

\* The layer of a window, its flags and its being in a column say the same, and
\* only floating a fullscreen window, and back, upsets that.
THEOREM OnlyFloatedFullscreenMixes == Spec => OnlyFloatedFullscreenMixesFlags
<1>1. ASSUME InOrder(st), Grounded(st), WindowsGoBack(st), [Next]_vars
      PROVE  [LayerFlagsAgree(st) =>
                \/ LayerFlagsAgree(st')
                \/ \E x \in DOMAIN st.windows :
                     /\ st.windows[x].restore.layer = "Fullscreen"
                     /\ st'.windows = ToggleFloating(st, x).st.windows]_vars
  <2>1. CASE WindowCommand
    <3>1. FitsWhatItWrites(st, st') \/ MixesFlags
      BY <1>1, <2>1, WindowCommandFits DEF Grounded
    <3>2. FitsWhatItWrites(st, st') => (LayerFlagsAgree(st) => LayerFlagsAgree(st'))
      BY FittingKeeps
    <3>3. QED
      BY <3>1, <3>2 DEF MixesFlags
  <2>2. CASE Next /\ ~WindowCommand
    BY <1>1, <2>2, NextFits, FittingKeeps
  <2>3. QED
    BY <1>1, <2>1, <2>2
<1>2. QED
  BY <1>1, StoreGoesBack, PTL DEF Spec, OnlyFloatedFullscreenMixesFlags

---------------------------------------------------------------------------
(* The order of a sequence.                                                *)

\* One element stands somewhere before another.
Before(seq, a, b) == \E i, j \in DOMAIN seq : i < j /\ seq[i] = a /\ seq[j] = b

\* A strictly ascending list of n of the first n naturals is the whole list.
LEMMA AscendingIsIdentity ==
  ASSUME NEW n \in Nat, NEW f \in [1..n -> 1..n],
         \A i, j \in 1..n : i < j => f[i] < f[j]
  PROVE  \A i \in 1..n : f[i] = i
<1>1. TAKE i \in 1..n
<1> DEFINE k == f[i]
           low  == [j \in 1..i |-> f[j]]
           high == [j \in i..n |-> f[j]]
<1>2. k \in 1..n /\ k \in Nat /\ i \in Nat
  OBVIOUS
<1>3. \A j \in 1..n : f[j] \in 1..n /\ (j < i => f[j] < k) /\ (i < j => k < f[j])
  BY <1>1
<1>4. \A a, b \in 1..n : f[a] = f[b] => a = b
  <2>1. SUFFICES ASSUME NEW a \in 1..n, NEW b \in 1..n, f[a] = f[b], a < b PROVE FALSE
    OBVIOUS
  <2>2. QED
    BY <2>1
<1> HIDE DEF k
<1>5. low \in Injection(1..i, 1..k)
  <2>1. \A j \in 1..i : j \in 1..n /\ f[j] \in 1..k
    <3>1. TAKE j \in 1..i
    <3>2. j \in 1..n /\ (j = i \/ j < i)
      BY <1>2
    <3>3. f[j] \in 1..n /\ f[j] <= k
      BY <1>2, <1>3, <3>2 DEF k
    <3>4. QED
      BY <1>2, <3>2, <3>3
  <2>2. low \in [1..i -> 1..k] /\ \A j \in 1..i : low[j] = f[j]
    BY <2>1
  <2>3. \A a, b \in 1..i : low[a] = low[b] => a = b
    BY <1>4, <2>1, <2>2
  <2> HIDE DEF low
  <2>4. QED
    BY <2>2, <2>3 DEF Injection, IsInjective
<1>6. high \in Injection(i..n, k..n)
  <2>1. ASSUME NEW j \in i..n PROVE j \in 1..n /\ f[j] \in k..n
    <3>1. j \in 1..n /\ (j = i \/ i < j)
      BY <1>2
    <3>2. f[j] \in 1..n /\ k <= f[j]
      BY <1>2, <1>3, <3>1 DEF k
    <3>3. QED
      BY <1>2, <3>1, <3>2
  <2>2. QED
    BY <1>4, <2>1 DEF Injection, IsInjective
<1>7. /\ IsFiniteSet(1..k) /\ Cardinality(1..k) = k /\ Cardinality(1..i) = i
      /\ IsFiniteSet(k..n) /\ Cardinality(k..n) = n - k + 1 /\ Cardinality(i..n) = n - i + 1
  <2>1. \A a, b \in 1..n : IsFiniteSet(a..b) /\ (a <= b => Cardinality(a..b) = b - a + 1)
    BY FS_Interval
  <2>2. 1 \in 1..n /\ n \in 1..n /\ 1 <= k /\ 1 <= i /\ k <= n /\ i <= n
    BY <1>2
  <2>3. Cardinality(1..k) = k - 1 + 1 /\ Cardinality(1..i) = i - 1 + 1
    BY <1>2, <2>1, <2>2
  <2>4. QED
    BY <1>2, <2>1, <2>2, <2>3
<1>8. i <= k /\ n - i + 1 <= n - k + 1
  BY <1>5, <1>6, <1>7, FS_Injection
<1>9. k = i
  BY <1>2, <1>8
<1>10. QED
  BY <1>9 DEF k

\* A sequence that repeats nothing is no longer than one that has its elements.
LEMMA RangeBoundsLength ==
  ASSUME NEW T, NEW u \in Seq(T), NEW v \in Seq(T), IsInjective(u), ToSet(u) \subseteq ToSet(v)
  PROVE  Len(u) <= Len(v)
<1> DEFINE n == Len(u)
           p == Len(v)
           f == [i \in 1..n |-> CHOOSE j \in 1..p : v[j] = u[i]]
<1>1. n \in Nat /\ p \in Nat /\ DOMAIN u = 1..n /\ DOMAIN v = 1..p
  OBVIOUS
<1>2. \A i \in 1..n : f[i] \in 1..p /\ v[f[i]] = u[i]
  BY <1>1 DEF ToSet
<1> HIDE DEF n, p
<1>3. f \in [1..n -> 1..p]
  BY <1>2
<1> HIDE DEF f
<1>4. \A a, b \in 1..n : f[a] = f[b] => a = b
  BY <1>1, <1>2 DEF IsInjective
<1>5. f \in Injection(1..n, 1..p)
  BY <1>3, <1>4 DEF Injection, IsInjective
<1>6. IsFiniteSet(1..p) /\ Cardinality(1..p) = p /\ Cardinality(1..n) = n
  BY <1>1, FS_Interval
<1>7. QED
  BY <1>5, <1>6, FS_Injection DEF n, p

\* Two sequences of the same elements, each there once and in the same order,
\* are the same.
LEMMA SameOrderSameSequence ==
  ASSUME NEW T, NEW u \in Seq(T), NEW v \in Seq(T), IsInjective(u), IsInjective(v),
         ToSet(u) = ToSet(v), \A a, b \in ToSet(u) : Before(u, a, b) => Before(v, a, b)
  PROVE  u = v
<1> DEFINE n == Len(u)
           f == [i \in 1..n |-> CHOOSE j \in 1..n : v[j] = u[i]]
<1>1. n \in Nat /\ Len(v) = n /\ DOMAIN u = 1..n /\ DOMAIN v = 1..n
  BY RangeBoundsLength
<1>2. \A i \in 1..n : f[i] \in 1..n /\ v[f[i]] = u[i]
  BY <1>1 DEF ToSet
<1> HIDE DEF n
<1>3. f \in [1..n -> 1..n]
  BY <1>2
<1> HIDE DEF f
<1>4. ASSUME NEW i \in 1..n, NEW j \in 1..n, i < j PROVE f[i] < f[j]
  <2>1. u[i] \in ToSet(u) /\ u[j] \in ToSet(u) /\ Before(u, u[i], u[j])
    BY <1>1, <1>4 DEF ToSet, Before
  <2>2. PICK a \in 1..n, b \in 1..n : a < b /\ v[a] = u[i] /\ v[b] = u[j]
    BY <1>1, <2>1 DEF Before
  <2>3. a = f[i] /\ b = f[j]
    BY <1>1, <1>2, <2>2 DEF IsInjective
  <2>4. QED
    BY <2>2, <2>3
<1>5. \A i \in 1..n : f[i] = i
  BY <1>1, <1>3, <1>4, AscendingIsIdentity
<1>6. \A i \in 1..n : u[i] = v[i]
  BY <1>2, <1>5
<1>7. QED
  BY <1>1, <1>6

\* Leaving elements out does not reorder the others.
LEMMA WithoutBefore ==
  ASSUME NEW T, NEW seq \in Seq(T), NEW S
  PROVE  \A a, b : Before(Without(seq, S), a, b) <=> Before(seq, a, b) /\ a \notin S /\ b \notin S
<1>0. Picks(Without(seq, S), seq, S)
  BY WithoutEnumerates
<1> DEFINE n == Len(seq)
           w == Without(seq, S)
<1>1. n \in Nat /\ DOMAIN seq = 1..n
  OBVIOUS
<1>2. PICK N \in Nat : \E f \in [1..N -> DOMAIN seq] :
        /\ w = [j \in 1..N |-> seq[f[j]]]
        /\ \A i, j \in 1..N : i < j => f[i] < f[j]
        /\ \A j \in 1..N : seq[f[j]] \notin S
        /\ \A i \in DOMAIN seq : seq[i] \notin S => \E j \in 1..N : f[j] = i
  BY <1>0 DEF Picks
<1>3. PICK f \in [1..N -> DOMAIN seq] :
        /\ w = [j \in 1..N |-> seq[f[j]]]
        /\ \A i, j \in 1..N : i < j => f[i] < f[j]
        /\ \A j \in 1..N : seq[f[j]] \notin S
        /\ \A i \in DOMAIN seq : seq[i] \notin S => \E j \in 1..N : f[j] = i
  BY <1>2
<1> HIDE DEF w
<1>4. DOMAIN w = 1..N /\ \A j \in 1..N : f[j] \in 1..n /\ w[j] = seq[f[j]]
  BY <1>1, <1>3
<1>5. TAKE a, b
<1>6. ASSUME Before(w, a, b) PROVE Before(seq, a, b) /\ a \notin S /\ b \notin S
  BY <1>1, <1>3, <1>4, <1>6 DEF Before
<1>7. ASSUME Before(seq, a, b), a \notin S, b \notin S PROVE Before(w, a, b)
  <2>1. PICK i \in 1..n, j \in 1..n : i < j /\ seq[i] = a /\ seq[j] = b
    BY <1>1, <1>7 DEF Before
  <2>2. PICK p \in 1..N, q \in 1..N : f[p] = i /\ f[q] = j
    BY <1>1, <1>3, <1>7, <2>1
  <2>3. p < q
    <3>1. ~ (q < p) /\ p # q
      BY <1>3, <2>1, <2>2
    <3>2. QED
      BY <1>2, <3>1
  <2>4. QED
    BY <1>4, <2>1, <2>2, <2>3 DEF Before
<1>8. QED
  BY <1>6, <1>7 DEF w

\* Elements of a sequence that repeats nothing stand one before the other.
LEMMA BeforeIsTotal ==
  ASSUME NEW T, NEW seq \in Seq(T), NEW a \in ToSet(seq), NEW b \in ToSet(seq), a # b
  PROVE  Before(seq, a, b) \/ Before(seq, b, a)
<1>1. DOMAIN seq = 1..Len(seq) /\ Len(seq) \in Nat
  OBVIOUS
<1>2. PICK i \in DOMAIN seq, j \in DOMAIN seq : seq[i] = a /\ seq[j] = b
  BY DEF ToSet
<1>3. i < j \/ j < i
  BY <1>1, <1>2
<1>4. QED
  BY <1>2, <1>3 DEF Before

\* Only elements of the sequence stand before each other.
LEMMA BeforeIsInside ==
  ASSUME NEW seq, NEW a, NEW b, Before(seq, a, b)
  PROVE  a \in ToSet(seq) /\ b \in ToSet(seq)
BY DEF Before, ToSet

\* An element at the end comes after the others.
LEMMA AppendBefore ==
  ASSUME NEW T, NEW seq \in Seq(T), NEW e \in T
  PROVE  /\ ToSet(Append(seq, e)) = ToSet(seq) \union {e}
         /\ \A a, b : Before(Append(seq, e), a, b) <=>
              Before(seq, a, b) \/ (a \in ToSet(seq) /\ b = e)
<1> DEFINE n == Len(seq)
           w == Append(seq, e)
<1>1. /\ n \in Nat /\ DOMAIN seq = 1..n /\ DOMAIN w = 1..(n + 1)
      /\ w[n + 1] = e /\ \A k \in 1..n : w[k] = seq[k]
  OBVIOUS
<1> HIDE DEF w, n
<1>2. ToSet(w) = ToSet(seq) \union {e}
  BY <1>1 DEF ToSet
<1>3. ASSUME NEW a, NEW b, Before(w, a, b)
      PROVE  Before(seq, a, b) \/ (a \in ToSet(seq) /\ b = e)
  BY <1>1, <1>3 DEF Before, ToSet
<1>4. ASSUME NEW a, NEW b, Before(seq, a, b) \/ (a \in ToSet(seq) /\ b = e)
      PROVE  Before(w, a, b)
  BY <1>1, <1>4 DEF Before, ToSet
<1>5. QED
  BY <1>2, <1>3, <1>4 DEF w

---------------------------------------------------------------------------
(* Normalising and the workspaces that hold something.                     *)

\* What a step of normalising monitor m keeps: what is empty, which workspaces
\* that hold something are in its order, and how these stand.
KeepsOccupied(s, t, m) ==
  /\ \A w : IsWorkspaceEmpty(t, w) <=> IsWorkspaceEmpty(s, w)
  /\ \A w : ~ IsWorkspaceEmpty(s, w) =>
       (w \in ToSet(t.sets[m].order) <=> w \in ToSet(s.sets[m].order))
  /\ \A a, b : ~ IsWorkspaceEmpty(s, a) /\ ~ IsWorkspaceEmpty(s, b) =>
       (Before(t.sets[m].order, a, b) <=> Before(s.sets[m].order, a, b))

\* What such steps keep together.
LEMMA KeepsOccupiedTransitive ==
  ASSUME NEW s, NEW t, NEW u, NEW m, KeepsOccupied(s, t, m), KeepsOccupied(t, u, m)
  PROVE  KeepsOccupied(s, u, m)
BY DEF KeepsOccupied

\* Workspaces that exist in both states and hold the same are empty in both.
LEMMA SameHoldings ==
  ASSUME NEW s, NEW t, NEW w, t.columns = s.columns,
         w \in DOMAIN s.workspaces <=> w \in DOMAIN t.workspaces,
         w \in DOMAIN s.workspaces => /\ t.workspaces[w].flt = s.workspaces[w].flt
                                      /\ t.workspaces[w].cols = s.workspaces[w].cols
  PROVE  IsWorkspaceEmpty(t, w) <=> IsWorkspaceEmpty(s, w)
BY DEF IsWorkspaceEmpty

\* A step that leaves the order and what the workspaces hold alone.
LEMMA SameOrderKeepsOccupied ==
  ASSUME NEW s, NEW t, NEW m, t.sets[m].order = s.sets[m].order, t.columns = s.columns,
         DOMAIN t.workspaces = DOMAIN s.workspaces,
         \A w \in DOMAIN s.workspaces : /\ t.workspaces[w].flt = s.workspaces[w].flt
                                        /\ t.workspaces[w].cols = s.workspaces[w].cols
  PROVE  KeepsOccupied(s, t, m)
<1>1. \A w : IsWorkspaceEmpty(t, w) <=> IsWorkspaceEmpty(s, w)
  BY SameHoldings
<1>2. QED
  BY <1>1 DEF KeepsOccupied

\* Empty workspaces are removed.
LEMMA RemoveKeepsOccupied ==
  ASSUME NEW s, NEW m \in DOMAIN s.sets, Shape(s), Homes(s),
         NEW gone \in SUBSET ToSet(s.sets[m].order), \A w \in gone : IsWorkspaceEmpty(s, w)
  PROVE  KeepsOccupied(s, RemoveFromSet(s, m, gone), m)
<1> DEFINE t == RemoveFromSet(s, m, gone)
           order == s.sets[m].order
<1>1. /\ t.sets[m].order = Without(order, gone)
      /\ \A w \in DOMAIN s.workspaces \ gone : t.workspaces[w] = s.workspaces[w]
      /\ t.columns = s.columns
  BY RemoveFromSetNearby
<1>2. DOMAIN t.workspaces = DOMAIN s.workspaces \ gone
  BY DEF Shape, RemoveFromSet, PutOrder, Drop
<1> HIDE DEF t
<1>3. order \in Seq(DOMAIN s.workspaces)
  BY DEF Homes, Housed
<1>4. ASSUME NEW w PROVE IsWorkspaceEmpty(t, w) <=> IsWorkspaceEmpty(s, w)
  <2>1. CASE w \in gone
    BY <1>2, <2>1 DEF IsWorkspaceEmpty
  <2>2. CASE w \notin gone
    BY <1>1, <1>2, <2>2, SameHoldings
  <2>3. QED
    BY <2>1, <2>2
<1>5. ToSet(t.sets[m].order) = ToSet(order) \ gone
  BY <1>1, <1>3, WithoutKeeps
<1>6. \A a, b : Before(t.sets[m].order, a, b) <=> Before(order, a, b) /\ a \notin gone /\ b \notin gone
  BY <1>1, <1>3, WithoutBefore
<1>7. QED
  BY <1>4, <1>5, <1>6 DEF KeepsOccupied, t

\* A new empty workspace is appended, and empty it is.
LEMMA AppendKeepsOccupied ==
  ASSUME NEW s, NEW m \in DOMAIN s.sets, Shape(s), Homes(s)
  PROVE  LET t == AppendEmptyWorkspace(s, m)
             v == FreshWorkspace(s)
         IN  /\ KeepsOccupied(s, t, m)
             /\ v \notin DOMAIN s.workspaces
             /\ t.sets[m].order = Append(s.sets[m].order, v)
             /\ IsWorkspaceEmpty(t, v)
<1> DEFINE t == AppendEmptyWorkspace(s, m)
           v == FreshWorkspace(s)
           order == s.sets[m].order
<1>1. v \in Nat /\ v \notin DOMAIN s.workspaces
  BY FreshWorkspaceIsNew
<1>2. /\ t.columns = s.columns
      /\ t.workspaces = Put(s.workspaces, v, EmptyWorkspace(m))
      /\ t.sets = Put(s.sets, m, [order |-> Append(order, v), active |-> s.sets[m].active])
  BY DEF Shape, AppendEmptyWorkspace, PutOrder
<1>3. order \in Seq(DOMAIN s.workspaces \union {v})
  <2>1. order \in Seq(DOMAIN s.workspaces)
    BY DEF Homes, Housed
  <2>2. QED
    BY <2>1
<1> HIDE DEF t, v
<1>4. /\ DOMAIN t.workspaces = DOMAIN s.workspaces \union {v}
      /\ t.workspaces[v].flt = <<>> /\ t.workspaces[v].cols = <<>>
      /\ \A w \in DOMAIN s.workspaces : t.workspaces[w] = s.workspaces[w]
      /\ t.sets[m].order = Append(order, v)
  BY <1>1, <1>2 DEF Put, EmptyWorkspace
<1>5. IsWorkspaceEmpty(t, v) /\ IsWorkspaceEmpty(s, v)
  BY <1>1, <1>4 DEF IsWorkspaceEmpty
<1>6. ASSUME NEW w PROVE IsWorkspaceEmpty(t, w) <=> IsWorkspaceEmpty(s, w)
  <2>1. CASE w = v
    BY <1>5, <2>1
  <2>2. CASE w # v
    BY <1>2, <1>4, <2>2, SameHoldings
  <2>3. QED
    BY <2>1, <2>2
<1>7. /\ ToSet(t.sets[m].order) = ToSet(order) \union {v}
      /\ \A a, b : Before(t.sets[m].order, a, b) <=>
           Before(order, a, b) \/ (a \in ToSet(order) /\ b = v)
  <2>1. v \in DOMAIN s.workspaces \union {v}
    OBVIOUS
  <2>2. QED
    BY <1>3, <1>4, <2>1, AppendBefore
<1>8. KeepsOccupied(s, t, m)
  BY <1>5, <1>6, <1>7 DEF KeepsOccupied
<1>9. QED
  BY <1>1, <1>4, <1>5, <1>8 DEF t, v

\* Leaving nothing out leaves the sequence.
LEMMA WithoutNothing ==
  ASSUME NEW seq, NEW S, \A i \in DOMAIN seq : seq[i] \notin S
  PROVE  Without(seq, S) = seq
<1>1. {i \in DOMAIN seq : seq[i] \notin S} = DOMAIN seq
  OBVIOUS
<1>2. QED
  BY <1>1 DEF Without

\* Leaving the last element out leaves the front.
LEMMA WithoutLast ==
  ASSUME NEW T, NEW seq \in Seq(T), IsInjective(seq), seq # <<>>
  PROVE  Without(seq, {seq[Len(seq)]}) = SubSeq(seq, 1, Len(seq) - 1)
<1> DEFINE n == Len(seq)
           f == SubSeq(seq, 1, n - 1)
           w == Without(seq, {seq[n]})
<1>1. n \in Nat /\ n > 0 /\ DOMAIN seq = 1..n
  OBVIOUS
<1>2. f \in Seq(T) /\ DOMAIN f = 1..(n - 1) /\ \A k \in 1..(n - 1) : f[k] = seq[k]
  BY <1>1
<1> HIDE DEF f, w
<1>3. w \in Seq(T) /\ IsInjective(w) /\ ToSet(w) = ToSet(seq) \ {seq[n]}
  BY WithoutKeeps DEF w
<1>4. \A a, b : Before(w, a, b) <=> Before(seq, a, b) /\ a # seq[n] /\ b # seq[n]
  BY WithoutBefore DEF w
<1>5. \A i, j \in 1..n : seq[i] = seq[j] => i = j
  BY <1>1 DEF IsInjective
<1> HIDE DEF n
<1>6. IsInjective(f)
  BY <1>1, <1>2, <1>5 DEF IsInjective
<1>7. ToSet(f) = ToSet(seq) \ {seq[n]}
  <2>1. \A k \in 1..(n - 1) : k \in 1..n /\ k # n
    BY <1>1
  <2>2. \A k \in 1..n : k # n => k \in 1..(n - 1)
    BY <1>1
  <2>3. n \in 1..n
    BY <1>1
  <2>4. QED
    BY <1>1, <1>2, <1>5, <2>1, <2>2, <2>3 DEF ToSet
<1>8. ASSUME NEW a, NEW b, Before(f, a, b) PROVE Before(w, a, b)
  <2>1. PICK i \in 1..(n - 1), j \in 1..(n - 1) : i < j /\ f[i] = a /\ f[j] = b
    BY <1>2, <1>8 DEF Before
  <2>2. i \in 1..n /\ j \in 1..n /\ i # n /\ j # n /\ n \in 1..n /\ seq[i] = a /\ seq[j] = b
    BY <1>1, <1>2, <2>1
  <2>3. a # seq[n] /\ b # seq[n]
    BY <1>5, <2>2
  <2>4. Before(seq, a, b)
    BY <1>1, <2>1, <2>2 DEF Before
  <2>5. QED
    BY <1>4, <2>3, <2>4
<1>9. f = w
  BY <1>2, <1>3, <1>6, <1>7, <1>8, SameOrderSameSequence
<1>10. QED
  BY <1>9 DEF f, w, n

\* The while loop over the tail: nothing is popped, or just the last workspace,
\* behind an empty one.
LEMMA CollapseShape ==
  ASSUME NEW s, NEW m \in DOMAIN s.sets, Shape(s), Homes(s), s.sets[m].order # <<>>,
         \A w \in ToSet(s.sets[m].order) :
           IsWorkspaceEmpty(s, w) => w = s.sets[m].active \/ w = Last(s.sets[m].order)
  PROVE  LET o == s.sets[m].order
             p == CollapseTail(s, m).sets[m].order
             n == Len(o)
         IN  /\ \A w \in CollapsedTail(s, m) : w \in ToSet(o) /\ IsWorkspaceEmpty(s, w)
             /\ \/ p = o /\ (n > 1 /\ IsWorkspaceEmpty(s, o[n]) => ~ IsWorkspaceEmpty(s, o[n - 1]))
                \/ /\ n > 1 /\ p = SubSeq(o, 1, n - 1)
                   /\ IsWorkspaceEmpty(s, o[n - 1]) /\ o[n - 1] = s.sets[m].active
<1> DEFINE o == s.sets[m].order
           n == Len(o)
           gone == CollapsedTail(s, m)
           p == CollapseTail(s, m).sets[m].order
           a == s.sets[m].active
           twoEmpty == n > 1 /\ IsWorkspaceEmpty(s, o[n]) /\ IsWorkspaceEmpty(s, o[n - 1])
<1>1. /\ o \in Seq(DOMAIN s.workspaces) /\ IsInjective(o)
      /\ n \in Nat /\ n > 0 /\ DOMAIN o = 1..n
  BY DEF Homes, Housed
<1>2. \A i, j \in 1..n : o[i] = o[j] => i = j
  BY <1>1 DEF IsInjective
<1>3. \A i \in 1..n : IsWorkspaceEmpty(s, o[i]) => o[i] = a \/ i = n
  BY <1>1, <1>2 DEF ToSet, Last
<1>4. \A k \in 2..n : k - 1 \in EmptySuffix(s, m) <=> \A j \in (k - 1)..n : IsWorkspaceEmpty(s, o[j])
  BY <1>1 DEF EmptySuffix
<1>5. gone = {o[i] : i \in {k \in 2..n : k - 1 \in EmptySuffix(s, m)}}
  BY DEF CollapsedTail
<1>6. ASSUME NEW k \in 2..n, k - 1 \in EmptySuffix(s, m)
      PROVE  k = n /\ twoEmpty /\ o[n - 1] = a
  <2>1. \A j \in (k - 1)..n : IsWorkspaceEmpty(s, o[j])
    BY <1>4, <1>6
  <2>2. /\ k - 1 \in (k - 1)..n /\ n - 1 \in (k - 1)..n /\ n \in (k - 1)..n
        /\ k - 1 \in 1..n /\ n - 1 \in 1..n /\ n > 1 /\ k - 1 # n /\ n - 1 # n
    BY <1>1
  <2>3. o[k - 1] = a /\ o[n - 1] = a /\ twoEmpty
    BY <1>3, <2>1, <2>2
  <2>4. k - 1 = n - 1
    BY <1>2, <2>2, <2>3
  <2>5. QED
    BY <1>1, <2>3, <2>4
<1>7. ASSUME twoEmpty PROVE n \in 2..n /\ n - 1 \in EmptySuffix(s, m)
  <2>1. n \in 2..n
    BY <1>1, <1>7
  <2>2. \A j \in (n - 1)..n : j = n - 1 \/ j = n
    BY <1>1
  <2>3. QED
    BY <1>4, <1>7, <2>1, <2>2
<1>8. gone = IF twoEmpty THEN {o[n]} ELSE {}
  <2>1. CASE twoEmpty
    BY <1>5, <1>6, <1>7, <2>1
  <2>2. CASE ~ twoEmpty
    BY <1>5, <1>6, <2>2
  <2>3. QED
    BY <2>1, <2>2
<1> HIDE DEF gone
<1>9. p = Without(o, gone)
  <2>1. gone \in SUBSET ToSet(o)
    BY <1>1, <1>8 DEF ToSet
  <2>2. QED
    BY <2>1, RemoveFromSetNearby DEF CollapseTail, gone
<1>10. CASE twoEmpty
  <2>1. o[n - 1] = a
    BY <1>6, <1>7, <1>10
  <2>2. p = SubSeq(o, 1, n - 1)
    BY <1>1, <1>8, <1>9, <1>10, WithoutLast
  <2>3. \A w \in gone : w \in ToSet(o) /\ IsWorkspaceEmpty(s, w)
    BY <1>1, <1>8, <1>10 DEF ToSet
  <2>4. QED
    BY <1>10, <2>1, <2>2, <2>3 DEF gone
<1>11. CASE ~ twoEmpty
  <2>1. gone = {}
    BY <1>8, <1>11
  <2>2. p = o
    BY <1>9, <2>1, WithoutNothing
  <2>3. QED
    BY <1>11, <2>1, <2>2 DEF gone
<1>12. QED
  BY <1>10, <1>11

\* The order of a normalised monitor: it ends with an empty workspace, the one before
\* holds something, and any other empty one is the active one.
TailFits(s, m) ==
  LET order == s.sets[m].order
      n     == Len(order)
  IN  /\ order # <<>>
      /\ IsWorkspaceEmpty(s, order[n])
      /\ n > 1 => ~ IsWorkspaceEmpty(s, order[n - 1])
      /\ \A i \in 1..(n - 1) : IsWorkspaceEmpty(s, order[i]) => order[i] = s.sets[m].active

\* After the loop over the tail the last two are not both empty.
LEMMA CollapseFits ==
  ASSUME NEW s, NEW m \in DOMAIN s.sets, Shape(s), Homes(s), s.sets[m].order # <<>>,
         \A w \in ToSet(s.sets[m].order) :
           IsWorkspaceEmpty(s, w) => w = s.sets[m].active \/ w = Last(s.sets[m].order)
  PROVE  LET c == CollapseTail(s, m)
             p == c.sets[m].order
             k == Len(p)
         IN  /\ KeepsOccupied(s, c, m)
             /\ k > 1 /\ IsWorkspaceEmpty(c, p[k]) => ~ IsWorkspaceEmpty(c, p[k - 1])
             /\ \A i \in 1..(k - 1) : IsWorkspaceEmpty(c, p[i]) => p[i] = s.sets[m].active
<1> DEFINE o == s.sets[m].order
           n == Len(o)
           c == CollapseTail(s, m)
           p == c.sets[m].order
           k == Len(p)
           a == s.sets[m].active
<1>1. /\ o \in Seq(DOMAIN s.workspaces) /\ IsInjective(o)
      /\ n \in Nat /\ n > 0 /\ DOMAIN o = 1..n
  BY DEF Homes, Housed
<1>2. \A i, j \in 1..n : o[i] = o[j] => i = j
  BY <1>1 DEF IsInjective
<1>3. \A i \in 1..n : IsWorkspaceEmpty(s, o[i]) => o[i] = a \/ i = n
  BY <1>1, <1>2 DEF ToSet, Last
<1>4. /\ \A w \in CollapsedTail(s, m) : w \in ToSet(o) /\ IsWorkspaceEmpty(s, w)
      /\ \/ p = o /\ (n > 1 /\ IsWorkspaceEmpty(s, o[n]) => ~ IsWorkspaceEmpty(s, o[n - 1]))
         \/ /\ n > 1 /\ p = SubSeq(o, 1, n - 1)
            /\ IsWorkspaceEmpty(s, o[n - 1]) /\ o[n - 1] = a
  BY CollapseShape
<1>5. KeepsOccupied(s, c, m)
  <2>1. CollapsedTail(s, m) \in SUBSET ToSet(o)
    BY <1>4
  <2>2. QED
    BY <1>4, <2>1, RemoveKeepsOccupied DEF CollapseTail
<1> HIDE DEF c
<1>6. \A w : IsWorkspaceEmpty(c, w) <=> IsWorkspaceEmpty(s, w)
  BY <1>5 DEF KeepsOccupied
<1>7. CASE p = o /\ (n > 1 /\ IsWorkspaceEmpty(s, o[n]) => ~ IsWorkspaceEmpty(s, o[n - 1]))
  <2>1. k = n
    BY <1>7
  <2>2. \A i \in 1..(n - 1) : i \in 1..n /\ i # n
    BY <1>1
  <2>3. \A i \in 1..(k - 1) : IsWorkspaceEmpty(c, p[i]) => p[i] = a
    BY <1>3, <1>6, <1>7, <2>1, <2>2
  <2>4. k > 1 /\ IsWorkspaceEmpty(c, p[k]) => ~ IsWorkspaceEmpty(c, p[k - 1])
    BY <1>6, <1>7, <2>1
  <2>5. QED
    BY <1>5, <2>3, <2>4 DEF c
<1>8. CASE n > 1 /\ p = SubSeq(o, 1, n - 1) /\ IsWorkspaceEmpty(s, o[n - 1]) /\ o[n - 1] = a
  <2>1. k = n - 1 /\ \A i \in 1..(n - 1) : p[i] = o[i]
    BY <1>1, <1>8
  <2>2. \A i \in 1..(n - 1) : i \in 1..n /\ i # n
    BY <1>1
  <2>3. \A i \in 1..(k - 1) : IsWorkspaceEmpty(c, p[i]) => p[i] = a
    <3>1. TAKE i \in 1..(k - 1)
    <3>2. i \in 1..(n - 1)
      BY <1>1, <2>1
    <3>3. QED
      BY <1>3, <1>6, <2>1, <2>2, <3>2
  <2>4. ASSUME k > 1, IsWorkspaceEmpty(c, p[k - 1]) PROVE FALSE
    <3>1. k - 1 \in 1..(n - 1) /\ k - 1 \in 1..n /\ n - 1 \in 1..n /\ k - 1 # n - 1 /\ k - 1 # n
      <4> HIDE DEF n, k
      <4>1. k = n - 1 /\ k > 1
        BY <2>1, <2>4
      <4>2. QED
        BY <1>1, <4>1
    <3>2. o[k - 1] = a
      BY <1>3, <1>6, <2>1, <2>4, <3>1
    <3>3. QED
      BY <1>2, <1>8, <3>1, <3>2
  <2>5. QED
    BY <1>5, <2>3, <2>4 DEF c
<1>9. QED
  BY <1>4, <1>7, <1>8

\* An occupied tail gets an empty workspace after it.
LEMMA EnsureFits ==
  ASSUME NEW s, NEW m \in DOMAIN s.sets, Shape(s), Homes(s), s.sets[m].order # <<>>,
         LET p == s.sets[m].order
             k == Len(p)
         IN  /\ k > 1 /\ IsWorkspaceEmpty(s, p[k]) => ~ IsWorkspaceEmpty(s, p[k - 1])
             /\ \A i \in 1..(k - 1) : IsWorkspaceEmpty(s, p[i]) => p[i] = s.sets[m].active
  PROVE  LET t == EnsureEmptyTail(s, m)
         IN  KeepsOccupied(s, t, m) /\ TailFits(t, m)
<1> DEFINE p == s.sets[m].order
           k == Len(p)
           t == EnsureEmptyTail(s, m)
<1>1. p \in Seq(DOMAIN s.workspaces) /\ k \in Nat /\ k > 0
  BY DEF Homes, Housed
<1>2. CASE IsWorkspaceEmpty(s, Last(p))
  <2>1. t = s
    BY <1>2 DEF EnsureEmptyTail
  <2>2. KeepsOccupied(s, s, m)
    BY DEF KeepsOccupied
  <2>3. TailFits(s, m)
    BY <1>2 DEF TailFits, Last
  <2>4. QED
    BY <2>1, <2>2, <2>3
<1>3. CASE ~ IsWorkspaceEmpty(s, Last(p))
  <2> DEFINE v == FreshWorkspace(s)
  <2>1. t = AppendEmptyWorkspace(s, m)
    BY <1>3 DEF EnsureEmptyTail
  <2>2. /\ KeepsOccupied(s, t, m) /\ IsWorkspaceEmpty(t, v)
        /\ t.sets[m].order = Append(p, v) /\ t.sets[m].active = s.sets[m].active
    BY <2>1, AppendKeepsOccupied, AppendEmptyNearby DEF Nearby
  <2> HIDE DEF t, v
  <2>3. /\ Len(Append(p, v)) = k + 1 /\ Append(p, v)[k + 1] = v
        /\ \A i \in 1..k : Append(p, v)[i] = p[i]
    BY <1>1
  <2>4. \A w : IsWorkspaceEmpty(t, w) <=> IsWorkspaceEmpty(s, w)
    BY <2>2 DEF KeepsOccupied
  <2>5. ~ IsWorkspaceEmpty(s, p[k])
    BY <1>3 DEF Last
  <2> DEFINE q == Append(p, v)
  <2> HIDE DEF q
  <2>6. ASSUME NEW i \in 1..k, IsWorkspaceEmpty(t, q[i]) PROVE q[i] = s.sets[m].active
    <3>1. IsWorkspaceEmpty(s, p[i]) /\ i # k
      BY <2>3, <2>4, <2>5, <2>6 DEF q
    <3>2. i \in 1..(k - 1)
      BY <1>1, <3>1
    <3>3. QED
      BY <2>3, <3>1, <3>2 DEF q
  <2>7. k + 1 - 1 = k /\ k \in 1..k /\ q # <<>>
    BY <1>1, <2>3 DEF q
  <2>8. ~ IsWorkspaceEmpty(t, q[k])
    BY <2>3, <2>4, <2>5, <2>7 DEF q
  <2>9. TailFits(t, m)
    <3>1. t.sets[m].order = q /\ Len(q) = k + 1 /\ q[k + 1] = v
      BY <2>2, <2>3 DEF q
    <3>2. IsWorkspaceEmpty(t, q[k + 1])
      BY <2>2, <3>1
    <3>3. \A i \in 1..(k + 1 - 1) : IsWorkspaceEmpty(t, q[i]) => q[i] = t.sets[m].active
      BY <2>2, <2>6, <2>7
    <3>4. ~ IsWorkspaceEmpty(t, q[k + 1 - 1])
      BY <2>7, <2>8
    <3>5. QED
      BY <2>7, <3>1, <3>2, <3>3, <3>4 DEF TailFits
  <2>10. QED
    BY <2>2, <2>9 DEF t
<1>4. QED
  BY <1>2, <1>3

\* The final loop has written the monitor and the tail flag of each workspace.
Marked(s, m) ==
  LET order == s.sets[m].order
  IN  \A w \in ToSet(order) :
        /\ s.workspaces[w].mon = m
        /\ s.workspaces[w].tail = (w = Last(order) /\ IsWorkspaceEmpty(s, w))

\* normalize_workspace_set: what holds something stays where it is, on every
\* monitor, and the normalised one ends as it should.
LEMMA NormalizeFits ==
  ASSUME NEW s, NEW U, Ring(s, U), NEW m \in DOMAIN s.sets
  PROVE  LET n == NormalizeWorkspaceSet(s, m)
         IN  /\ \A k \in DOMAIN s.sets : KeepsOccupied(s, n, k)
             /\ TailFits(n, m)
             /\ Marked(n, m)
<1> DEFINE a == s.sets[m].active
           e == NonEmptySet(s, m)
           r == RetainOccupied(e, m)
           c == CollapseTail(r, m)
           n == EnsureEmptyTail(c, m)
           f == RefreshWorkspaces(n, m)
           active == IF f.sets[m].active \in ToSet(f.sets[m].order)
                     THEN f.sets[m].active ELSE f.sets[m].order[1]
           g == PutActive(f, m, active)
<1>1. NormalizeWorkspaceSet(s, m) = g
  BY DEF NormalizeWorkspaceSet, ChooseActive
<1>2. Nearby(s, e, m) /\ e.sets[m].order # <<>> /\ KeepsOccupied(s, e, m)
  <2>1. KeepsOccupied(s, s, m)
    BY DEF KeepsOccupied
  <2>2. KeepsOccupied(s, e, m)
    BY <2>1, AppendKeepsOccupied DEF Ring, NonEmptySet
  <2>3. QED
    BY <2>2, NonEmptyNearby DEF Ring
<1> HIDE DEF e
<1>3. m \in DOMAIN e.sets /\ Shape(e) /\ Homes(e) /\ e.sets[m].active = a
  BY <1>2 DEF Nearby
<1>4. /\ Nearby(e, r, m) /\ r.sets[m].order # <<>>
      /\ \A w \in ToSet(r.sets[m].order) :
           IsWorkspaceEmpty(r, w) => w = a \/ w = Last(r.sets[m].order)
  BY <1>2, <1>3, RetainNearby
<1>5. KeepsOccupied(e, r, m)
  <2>1. StrayEmpties(e, m) \in SUBSET ToSet(e.sets[m].order)
        /\ \A w \in StrayEmpties(e, m) : IsWorkspaceEmpty(e, w)
    BY DEF StrayEmpties
  <2>2. QED
    BY <1>3, <2>1, RemoveKeepsOccupied DEF RetainOccupied
<1> HIDE DEF r
<1>6. m \in DOMAIN r.sets /\ Shape(r) /\ Homes(r) /\ r.sets[m].active = a
  BY <1>3, <1>4 DEF Nearby
<1>7. Nearby(r, c, m) /\ c.sets[m].order # <<>>
  BY <1>4, <1>6, CollapseNearby
<1>8. LET p == c.sets[m].order
          k == Len(p)
      IN  /\ KeepsOccupied(r, c, m)
          /\ k > 1 /\ IsWorkspaceEmpty(c, p[k]) => ~ IsWorkspaceEmpty(c, p[k - 1])
          /\ \A i \in 1..(k - 1) : IsWorkspaceEmpty(c, p[i]) => p[i] = r.sets[m].active
  BY <1>4, <1>6, CollapseFits
<1> HIDE DEF c
<1>9. m \in DOMAIN c.sets /\ Shape(c) /\ Homes(c) /\ c.sets[m].active = a
  BY <1>6, <1>7 DEF Nearby
<1>10. KeepsOccupied(c, n, m) /\ TailFits(n, m)
  BY <1>6, <1>7, <1>8, <1>9, EnsureFits
<1>11. Nearby(c, n, m)
  BY <1>7, <1>9, EnsureTailNearby
<1> HIDE DEF n
<1>12. m \in DOMAIN n.sets /\ Shape(n) /\ Homes(n)
  BY <1>9, <1>11 DEF Nearby
<1>13. Nearby(s, n, m) /\ Ring(n, U \union {m})
  <2>1. Nearby(s, r, m)
    BY <1>2, <1>3, <1>4, NearbyTransitive
  <2>2. Nearby(s, c, m)
    BY <1>7, <2>1, NearbyTransitive, <1>6
  <2>3. Nearby(s, n, m)
    BY <1>9, <1>11, <2>2, NearbyTransitive
  <2>4. QED
    BY <2>3, NearbyRing
<1>14. KeepsOccupied(s, n, m)
  BY <1>2, <1>5, <1>8, <1>10, KeepsOccupiedTransitive
<1>15. /\ f.columns = n.columns /\ f.sets = n.sets
       /\ DOMAIN f.workspaces = DOMAIN n.workspaces
       /\ \A w \in DOMAIN n.workspaces :
            f.workspaces[w].flt = n.workspaces[w].flt /\ f.workspaces[w].cols = n.workspaces[w].cols
  BY <1>12 DEF Shape, RefreshWorkspaces
<1>16. \A w \in ToSet(n.sets[m].order) :
         /\ f.workspaces[w].mon = m
         /\ f.workspaces[w].tail = (w = Last(n.sets[m].order) /\ IsWorkspaceEmpty(n, w))
  <2>1. \A w \in ToSet(n.sets[m].order) : w \in DOMAIN n.workspaces
    BY <1>12, HousedExists
  <2>2. QED
    BY <1>12, <2>1 DEF Shape, RefreshWorkspaces
<1> HIDE DEF f, active
<1>17. /\ g.columns = f.columns /\ g.workspaces = f.workspaces
       /\ g.sets = Put(f.sets, m, [order |-> f.sets[m].order, active |-> active])
  <2>1. DOMAIN f = DOMAIN n
    BY DEF f, RefreshWorkspaces
  <2>2. QED
    BY <1>12, <2>1 DEF Shape, PutActive
<1> HIDE DEF g
<1>18. g.sets[m].order = n.sets[m].order /\ g.sets[m].active = active
  BY <1>15, <1>17 DEF Put
<1>19. \A w : IsWorkspaceEmpty(g, w) <=> IsWorkspaceEmpty(n, w)
  BY <1>15, <1>17, SameHoldings
<1>20. KeepsOccupied(n, g, m)
  BY <1>18, <1>19 DEF KeepsOccupied
<1>21. KeepsOccupied(s, g, m)
  BY <1>14, <1>20, KeepsOccupiedTransitive
<1>22. ASSUME NEW k \in DOMAIN s.sets, k # m PROVE KeepsOccupied(s, g, k)
  <2>1. g.sets[k] = s.sets[k]
    BY <1>13, <1>15, <1>17, <1>22 DEF Nearby, Put
  <2>2. QED
    BY <1>21, <2>1 DEF KeepsOccupied
<1>23. active = IF n.sets[m].active \in ToSet(n.sets[m].order)
                THEN n.sets[m].active ELSE n.sets[m].order[1]
  BY <1>15 DEF active
<1>24. TailFits(g, m)
  <2> DEFINE o == n.sets[m].order
             k == Len(o)
  <2>1. o \in Seq(DOMAIN n.workspaces) /\ k \in Nat
    BY <1>12 DEF Homes, Housed
  <2>2. \A i \in 1..(k - 1) : IsWorkspaceEmpty(n, o[i]) => o[i] = n.sets[m].active
    BY <1>10 DEF TailFits
  <2>3. \A i \in 1..(k - 1) : IsWorkspaceEmpty(n, o[i]) => o[i] = active
    <3>1. \A i \in 1..(k - 1) : i \in 1..k /\ o[i] \in ToSet(o)
      BY <2>1 DEF ToSet
    <3>2. QED
      BY <1>23, <2>2, <3>1
  <2>4. QED
    BY <1>10, <1>18, <1>19, <2>3 DEF TailFits
<1>25. Marked(g, m)
  BY <1>16, <1>17, <1>18, <1>19 DEF Marked
<1>26. QED
  BY <1>1, <1>21, <1>22, <1>24, <1>25

\* A record of the state is written as it already is.
LEMMA WriteAsIs ==
  ASSUME NEW s, s = [k \in DOMAIN s |-> s[k]], s.focus = [k \in DOMAIN s.focus |-> s.focus[k]],
         Shape(s), StateType(s), NEW m \in DOMAIN s.sets
  PROVE  /\ PutOrder(s, m, s.sets[m].order) = s
         /\ s.focus.activeBy[m] = s.sets[m].active /\ m \in DOMAIN s.focus.activeBy =>
              PutActive(s, m, s.sets[m].active) = s
         /\ RemoveFromSet(s, m, {}) = s
<1>1. Put(s.sets, m, [order |-> s.sets[m].order, active |-> s.sets[m].active]) = s.sets
  <2>1. s.sets \in [DOMAIN s.sets -> WorkspaceSet]
    BY DEF StateType, IsMap
  <2>2. [order |-> s.sets[m].order, active |-> s.sets[m].active] = s.sets[m]
    BY <2>1 DEF WorkspaceSet
  <2>3. QED
    BY <2>1, <2>2 DEF Put
<1>2. PutOrder(s, m, s.sets[m].order) = s
  BY <1>1 DEF PutOrder, Shape
<1>3. ASSUME s.focus.activeBy[m] = s.sets[m].active, m \in DOMAIN s.focus.activeBy
      PROVE  PutActive(s, m, s.sets[m].active) = s
  <2>1. s.focus.activeBy \in [DOMAIN s.focus.activeBy -> Nat]
    BY DEF StateType, IsMap
  <2>2. Put(s.focus.activeBy, m, s.sets[m].active) = s.focus.activeBy
    BY <1>3, <2>1 DEF Put
  <2>3. [s.focus EXCEPT !.activeBy = s.focus.activeBy] = s.focus
    BY <1>3 DEF Shape
  <2>4. QED
    BY <1>1, <2>2, <2>3 DEF PutActive, Shape
<1>4. Drop(s.workspaces, {}) = s.workspaces
  BY DEF StateType, IsMap, Drop
<1>5. [s EXCEPT !.workspaces = s.workspaces] = s
  BY DEF Shape
<1>6. Without(s.sets[m].order, {}) = s.sets[m].order
  BY WithoutNothing
<1>7. RemoveFromSet(s, m, {}) = s
  BY <1>2, <1>4, <1>5, <1>6 DEF RemoveFromSet
<1>8. QED
  BY <1>2, <1>3, <1>7

\* A monitor that ends as it should is normalised already.
LEMMA NormalizedStays ==
  ASSUME NEW s, s = [k \in DOMAIN s |-> s[k]], s.focus = [k \in DOMAIN s.focus |-> s.focus[k]],
         Sound(s), StateType(s), NEW m \in DOMAIN s.sets, TailFits(s, m), Marked(s, m)
  PROVE  NormalizeWorkspaceSet(s, m) = s
<1> DEFINE order == s.sets[m].order
           n == Len(order)
           last(w) == w = Last(order) /\ IsWorkspaceEmpty(s, w)
           fresh(w) == [s.workspaces[w] EXCEPT !.mon = m, !.tail = last(w)]
<1>1. Shape(s)
  BY SoundShape
<1>2. /\ order \in Seq(DOMAIN s.workspaces) /\ s.sets[m].active \in ToSet(order)
      /\ n \in Nat /\ DOMAIN order = 1..n
      /\ \A w \in ToSet(order) : w \in DOMAIN s.workspaces
  BY SoundLookups
<1>3. /\ order # <<>> /\ n > 0
      /\ IsWorkspaceEmpty(s, order[n])
      /\ n > 1 => ~ IsWorkspaceEmpty(s, order[n - 1])
      /\ \A i \in 1..(n - 1) : IsWorkspaceEmpty(s, order[i]) => order[i] = s.sets[m].active
  BY <1>2 DEF TailFits
<1>4. NonEmptySet(s, m) = s
  BY <1>3 DEF NonEmptySet
<1>5. RetainOccupied(s, m) = s
  <2>1. ASSUME NEW w \in StrayEmpties(s, m) PROVE FALSE
    <3>1. w \in ToSet(order) /\ IsWorkspaceEmpty(s, w) /\ w # s.sets[m].active /\ w # order[n]
      BY DEF StrayEmpties, Last
    <3>2. PICK i \in 1..n : order[i] = w
      BY <1>2, <3>1 DEF ToSet
    <3>3. i \in 1..(n - 1)
      BY <1>2, <3>1, <3>2
    <3>4. QED
      BY <1>3, <3>1, <3>2, <3>3
  <2>2. StrayEmpties(s, m) = {}
    BY <2>1
  <2>3. QED
    BY <1>1, <2>2, WriteAsIs DEF RetainOccupied
<1>6. CollapseTail(s, m) = s
  <2>1. ASSUME NEW k \in 2..n, k - 1 \in EmptySuffix(s, m) PROVE FALSE
    <3>1. n - 1 \in (k - 1)..n /\ n > 1
      BY <1>2
    <3>2. IsWorkspaceEmpty(s, order[n - 1])
      BY <2>1, <3>1 DEF EmptySuffix
    <3>3. QED
      BY <1>3, <3>1, <3>2
  <2>2. CollapsedTail(s, m) = {}
    BY <2>1 DEF CollapsedTail
  <2>3. QED
    BY <1>1, <2>2, WriteAsIs DEF CollapseTail
<1>7. EnsureEmptyTail(s, m) = s
  BY <1>3 DEF EnsureEmptyTail, Last
<1>8. RefreshWorkspaces(s, m) = s
  <2>1. s.workspaces \in [DOMAIN s.workspaces -> Workspace]
    BY DEF StateType, IsMap
  <2>2. ASSUME NEW w \in ToSet(order) PROVE fresh(w) = s.workspaces[w]
    <3>1. s.workspaces[w] \in Workspace
      BY <1>2, <2>1
    <3>2. s.workspaces[w].mon = m /\ s.workspaces[w].tail = last(w)
      BY DEF Marked
    <3> HIDE DEF last
    <3>3. QED
      BY <3>1, <3>2 DEF Workspace
  <2> HIDE DEF fresh
  <2>3. [w \in DOMAIN s.workspaces |-> IF w \in ToSet(order) THEN fresh(w) ELSE s.workspaces[w]]
          = s.workspaces
    BY <2>1, <2>2
  <2>4. RefreshWorkspaces(s, m) = [s EXCEPT !.workspaces = s.workspaces]
    BY <2>3 DEF RefreshWorkspaces, fresh
  <2>5. QED
    BY <1>1, <2>4 DEF Shape
<1>9. ChooseActive(s, m) = s
  <2>1. s.focus.activeBy[m] = s.sets[m].active /\ m \in DOMAIN s.focus.activeBy
    BY DEF Sound, Ring, Settled
  <2>2. QED
    BY <1>1, <1>2, <2>1, WriteAsIs DEF ChooseActive
<1>10. QED
  BY <1>4, <1>5, <1>6, <1>7, <1>8, <1>9 DEF NormalizeWorkspaceSet

\* What normalize_workspace_set returns is a record.
LEMMA NormalizeRecord ==
  ASSUME NEW s, Records(s), NEW m
  PROVE  LET n == NormalizeWorkspaceSet(s, m)
         IN  n = [k \in DOMAIN n |-> n[k]] /\ n.focus = [k \in DOMAIN n.focus |-> n.focus[k]]
<1> DEFINE n == NormalizeWorkspaceSet(s, m)
<1>1. \E f, w : n = PutActive(f, m, w)
  BY DEF NormalizeWorkspaceSet, ChooseActive
<1>2. n = [k \in DOMAIN n |-> n[k]]
  BY <1>1 DEF PutActive
<1>3. Records(n)
  BY NormalizeQuiet DEF Quiet, Spares, Affects
<1>4. QED
  BY <1>2, <1>3 DEF Records

\* Normalising gives the normal form.
LEMMA OrderedIsNormal ==
  ASSUME NEW s, InOrder(s), Records(s), NEW m \in DOMAIN s.sets
  PROVE  LET n      == NormalizeWorkspaceSet(s, m)
             order  == n.sets[m].order
             vacant == {w \in DOMAIN s.workspaces : IsWorkspaceEmpty(s, w)}
         IN  /\ NormalizeWorkspaceSet(n, m) = n
             /\ IsWorkspaceEmpty(n, Last(order))
             /\ \A i \in 1..(Len(order) - 1) :
                  IsWorkspaceEmpty(n, order[i]) => order[i] = n.sets[m].active
             /\ Without(s.sets[m].order, vacant) = Without(order, vacant \union {Last(order)})
<1> DEFINE n      == NormalizeWorkspaceSet(s, m)
           was    == s.sets[m].order
           order  == n.sets[m].order
           vacant == {w \in DOMAIN s.workspaces : IsWorkspaceEmpty(s, w)}
           rest   == vacant \union {Last(order)}
<1>1. Sound(s) /\ Arranged(s, {})
  BY DEF InOrder
<1>2. /\ \A k \in DOMAIN s.sets : KeepsOccupied(s, n, k)
      /\ TailFits(n, m) /\ Marked(n, m)
  BY <1>1, NormalizeFits DEF Sound
<1>3. Sound(n) /\ DOMAIN n.sets = DOMAIN s.sets /\ n.sets[m].active = s.sets[m].active
  BY <1>1, NormalizeSound
<1>4. StateType(n)
  BY <1>1, NormalizeArranged DEF Sound, Arranged
<1>5. n = [k \in DOMAIN n |-> n[k]] /\ n.focus = [k \in DOMAIN n.focus |-> n.focus[k]]
  BY NormalizeRecord
<1> HIDE DEF n
<1>6. NormalizeWorkspaceSet(n, m) = n
  BY <1>2, <1>3, <1>4, <1>5, NormalizedStays
<1>7. KeepsOccupied(s, n, m)
  BY <1>2
<1>8. /\ was \in Seq(DOMAIN s.workspaces) /\ IsInjective(was)
      /\ s.sets[m].active \in DOMAIN s.workspaces
      /\ \A w \in ToSet(was) : w \in DOMAIN s.workspaces
  BY <1>1, SoundLookups
<1>9. /\ order \in Seq(DOMAIN n.workspaces) /\ IsInjective(order)
      /\ DOMAIN order = 1..Len(order) /\ Len(order) \in Nat
  BY <1>3, SoundLookups
<1>10. /\ IsWorkspaceEmpty(n, Last(order))
       /\ \A i \in 1..(Len(order) - 1) :
            IsWorkspaceEmpty(n, order[i]) => order[i] = n.sets[m].active
  BY <1>2 DEF TailFits, Last
<1>11. ASSUME NEW w \in ToSet(order), IsWorkspaceEmpty(n, w) PROVE w \in rest
  <2>1. PICK i \in 1..Len(order) : order[i] = w
    BY <1>9 DEF ToSet
  <2>2. CASE i = Len(order)
    BY <2>1, <2>2 DEF Last
  <2>3. CASE i # Len(order)
    <3>1. i \in 1..(Len(order) - 1)
      BY <1>9, <2>3
    <3>2. w = s.sets[m].active /\ IsWorkspaceEmpty(s, w)
      BY <1>3, <1>7, <1>10, <1>11, <2>1, <3>1 DEF KeepsOccupied
    <3>3. QED
      BY <1>8, <3>2
  <2>4. QED
    BY <2>2, <2>3
<1>12. ASSUME NEW w \in ToSet(order) PROVE w \in rest <=> IsWorkspaceEmpty(s, w)
  <2>1. w \in vacant => IsWorkspaceEmpty(s, w)
    OBVIOUS
  <2>2. w = Last(order) => IsWorkspaceEmpty(s, w)
    BY <1>7, <1>10 DEF KeepsOccupied
  <2>3. QED
    BY <1>7, <1>11, <2>1, <2>2 DEF KeepsOccupied
<1>13. \A w \in ToSet(was) : w \in vacant <=> IsWorkspaceEmpty(s, w)
  BY <1>8
<1> HIDE DEF vacant, rest, was, order
<1> DEFINE u == Without(was, vacant)
           v == Without(order, rest)
<1>14. u \in Seq(DOMAIN s.workspaces) /\ IsInjective(u) /\ ToSet(u) = ToSet(was) \ vacant
  BY <1>8, WithoutKeeps
<1>15. v \in Seq(DOMAIN n.workspaces) /\ IsInjective(v) /\ ToSet(v) = ToSet(order) \ rest
  BY <1>9, WithoutKeeps
<1>16. ToSet(u) = ToSet(v)
  BY <1>7, <1>12, <1>13, <1>14, <1>15 DEF KeepsOccupied, was, order
<1>17. v \in Seq(DOMAIN s.workspaces)
  <2>1. \A i \in DOMAIN v : v[i] \in DOMAIN s.workspaces
    <3>1. \A i \in DOMAIN v : v[i] \in ToSet(u)
      BY <1>16 DEF ToSet
    <3>2. QED
      BY <1>8, <1>14, <3>1
  <2>2. QED
    BY <1>15, <2>1
<1>18. ASSUME NEW a \in ToSet(u), NEW b \in ToSet(u), Before(u, a, b) PROVE Before(v, a, b)
  <2>1. Before(was, a, b)
    BY <1>8, <1>18, WithoutBefore
  <2>2. ~ IsWorkspaceEmpty(s, a) /\ ~ IsWorkspaceEmpty(s, b)
    BY <1>13, <1>14
  <2>3. Before(order, a, b)
    BY <1>7, <2>1, <2>2 DEF KeepsOccupied, was, order
  <2>4. a \notin rest /\ b \notin rest
    BY <1>15, <1>16
  <2>5. QED
    BY <1>9, <2>3, <2>4, WithoutBefore
<1> HIDE DEF u, v
<1>19. u = v
  BY <1>14, <1>15, <1>16, <1>17, <1>18, SameOrderSameSequence
<1>20. QED
  BY <1>6, <1>10, <1>19 DEF u, v, n, was, order, vacant, rest

\* Normalising is idempotent, and keeps what is occupied in its place
\* (normalize_workspace_set, which runs after every structural event).
THEOREM NormalFormIsReached == Spec => []NormalForm
<1>1. InOrder(st) /\ Grounded(st) => NormalForm
  BY OrderedIsNormal DEF NormalForm, Known, Grounded
<1>2. QED
  BY <1>1, StoreIsInOrder, StoreIsGrounded, PTL

---------------------------------------------------------------------------
(* The order of the workspaces that hold something.                        *)

\* Normalising: every monitor keeps what KeepsOccupied says.
Normalises(s, t) ==
  DOMAIN t.sets = DOMAIN s.sets /\ \A k \in DOMAIN s.sets : KeepsOccupied(s, t, k)

\* The monitors of s are still there, and what is still in the order of one of
\* them stands as before.
InSequence(s, t) ==
  /\ DOMAIN s.sets \subseteq DOMAIN t.sets
  /\ \A k \in DOMAIN s.sets : \A a, b \in ToSet(t.sets[k].order) :
       Before(s.sets[k].order, a, b) => Before(t.sets[k].order, a, b)

\* No order changes.
SameOrders(s, t) ==
  /\ DOMAIN t.sets = DOMAIN s.sets
  /\ \A k \in DOMAIN s.sets : t.sets[k].order = s.sets[k].order

\* What holds something before and after, and stays on its monitor, stands as
\* before.
OccupiedFollow(s, t) ==
  /\ DOMAIN s.sets \subseteq DOMAIN t.sets
  /\ \A k \in DOMAIN s.sets : \A a, b \in ToSet(t.sets[k].order) :
       /\ ~ IsWorkspaceEmpty(s, a) /\ ~ IsWorkspaceEmpty(s, b)
       /\ ~ IsWorkspaceEmpty(t, a) /\ ~ IsWorkspaceEmpty(t, b)
       /\ Before(s.sets[k].order, a, b)
       => Before(t.sets[k].order, a, b)

\* Doing nothing normalises nothing.
LEMMA NormalisesReflexive ==
  ASSUME NEW s
  PROVE  Normalises(s, s)
BY DEF Normalises, KeepsOccupied

\* One normalisation after the other.
LEMMA NormalisesTransitive ==
  ASSUME NEW s, NEW t, NEW u, Normalises(s, t), Normalises(t, u)
  PROVE  Normalises(s, u)
<1>1. \A k \in DOMAIN s.sets : KeepsOccupied(s, u, k)
  BY KeepsOccupiedTransitive DEF Normalises
<1>2. QED
  BY <1>1 DEF Normalises

\* Where no order changes, everything stands as before.
LEMMA SameOrdersFollow ==
  ASSUME NEW s, NEW t, SameOrders(s, t)
  PROVE  InSequence(s, t)
BY DEF SameOrders, InSequence

\* Orders stay the same through several steps.
LEMMA SameOrdersTransitive ==
  ASSUME NEW s, NEW t, NEW u, SameOrders(s, t), SameOrders(t, u)
  PROVE  SameOrders(s, u)
BY DEF SameOrders

\* What Alike keeps includes the orders.
LEMMA AlikeSameOrders ==
  ASSUME NEW s, NEW t, Alike(s, t)
  PROVE  SameOrders(s, t)
BY DEF Alike, SameOrders

\* The shape of every handler: some normalising, one change, more normalising.
LEMMA NormalisedStepFollows ==
  ASSUME NEW s, NEW n, NEW t, NEW u, Normalises(s, n), InSequence(n, t), Normalises(t, u)
  PROVE  OccupiedFollow(s, u)
<1>1. DOMAIN s.sets \subseteq DOMAIN u.sets
  BY DEF Normalises, InSequence
<1>2. ASSUME NEW k \in DOMAIN s.sets, NEW a \in ToSet(u.sets[k].order), NEW b \in ToSet(u.sets[k].order),
             ~ IsWorkspaceEmpty(s, a), ~ IsWorkspaceEmpty(s, b),
             ~ IsWorkspaceEmpty(u, a), ~ IsWorkspaceEmpty(u, b),
             Before(s.sets[k].order, a, b)
      PROVE  Before(u.sets[k].order, a, b)
  <2>1. k \in DOMAIN n.sets /\ k \in DOMAIN t.sets
    BY DEF Normalises, InSequence
  <2>2. KeepsOccupied(s, n, k) /\ KeepsOccupied(t, u, k)
    BY <2>1 DEF Normalises
  <2>3. Before(n.sets[k].order, a, b)
    BY <1>2, <2>2 DEF KeepsOccupied
  <2>4. /\ ~ IsWorkspaceEmpty(t, a) /\ ~ IsWorkspaceEmpty(t, b)
        /\ a \in ToSet(t.sets[k].order) /\ b \in ToSet(t.sets[k].order)
    BY <1>2, <2>2 DEF KeepsOccupied
  <2>5. Before(t.sets[k].order, a, b)
    BY <2>1, <2>3, <2>4 DEF InSequence
  <2>6. QED
    BY <2>2, <2>4, <2>5 DEF KeepsOccupied
<1>3. QED
  BY <1>1, <1>2 DEF OccupiedFollow

\* Handlers that only change something, or only normalise.
LEMMA StepFollows ==
  ASSUME NEW s, NEW t, NEW u
  PROVE  /\ InSequence(s, t) /\ Normalises(t, u) => OccupiedFollow(s, u)
         /\ InSequence(s, t) => OccupiedFollow(s, t)
         /\ Normalises(s, u) => OccupiedFollow(s, u)
         /\ SameOrders(s, t) => OccupiedFollow(s, t)
<1>1. Normalises(s, s) /\ Normalises(t, t) /\ Normalises(u, u) /\ InSequence(u, u) /\ InSequence(s, s)
  BY NormalisesReflexive DEF InSequence
<1>2. InSequence(s, t) /\ Normalises(t, u) => OccupiedFollow(s, u)
  BY <1>1, NormalisedStepFollows
<1>3. InSequence(s, t) => OccupiedFollow(s, t)
  BY <1>1, NormalisedStepFollows
<1>4. Normalises(s, u) => OccupiedFollow(s, u)
  BY <1>1, NormalisedStepFollows
<1>5. QED
  BY <1>2, <1>3, <1>4, SameOrdersFollow

\* normalize_workspace_set is such a normalising step.
LEMMA NormalizeNormalises ==
  ASSUME NEW s, NEW U, Ring(s, U), NEW m \in DOMAIN s.sets
  PROVE  Normalises(s, NormalizeWorkspaceSet(s, m))
<1> DEFINE n == NormalizeWorkspaceSet(s, m)
<1>1. DOMAIN n.sets = DOMAIN s.sets
  BY NormalizeRing
<1>2. \A k \in DOMAIN s.sets : KeepsOccupied(s, n, k)
  BY NormalizeFits
<1> HIDE DEF n
<1>3. QED
  BY <1>1, <1>2 DEF Normalises, n

\* Only the mark of the overview moves.
LEMMA SyncOverviewNormalises ==
  ASSUME NEW s, NEW m, Shape(s)
  PROVE  Normalises(s, SyncOverview(s, m))
<1> DEFINE t == SyncOverview(s, m)
<1>1. t.sets = s.sets /\ t.workspaces = s.workspaces /\ t.columns = s.columns
  BY DEF SyncOverview, Shape
<1> HIDE DEF t
<1>2. \A w : IsWorkspaceEmpty(t, w) <=> IsWorkspaceEmpty(s, w)
  BY <1>1, SameHoldings
<1>3. QED
  BY <1>1, <1>2 DEF Normalises, KeepsOccupied, t

\* The workspaces of a monitor that hold something, in their order.
LEMMA OccupiedStand ==
  ASSUME NEW s, Sound(s), NEW m \in DOMAIN s.sets
  PROVE  LET o == Occupied(s, m)
             p == s.sets[m].order
         IN  /\ o \in Seq(DOMAIN s.workspaces) /\ IsInjective(o)
             /\ \A w : w \in ToSet(o) <=> w \in ToSet(p) /\ ~ IsWorkspaceEmpty(s, w)
             /\ \A a, b : Before(o, a, b) <=> Before(p, a, b) /\ a \in ToSet(o) /\ b \in ToSet(o)
<1> DEFINE p == s.sets[m].order
           E == {w \in ToSet(p) : IsWorkspaceEmpty(s, w)}
           o == Without(p, E)
<1>1. Occupied(s, m) = o
  BY DEF Occupied
<1>2. p \in Seq(DOMAIN s.workspaces) /\ IsInjective(p)
  BY SoundLookups
<1>3. \A w \in ToSet(p) : w \in E <=> IsWorkspaceEmpty(s, w)
  OBVIOUS
<1> HIDE DEF p, E
<1>4. o \in Seq(DOMAIN s.workspaces) /\ IsInjective(o) /\ ToSet(o) = ToSet(p) \ E
  BY <1>2, WithoutKeeps
<1>5. \A a, b : Before(o, a, b) <=> Before(p, a, b) /\ a \notin E /\ b \notin E
  BY <1>2, WithoutBefore
<1>6. \A w : w \in ToSet(o) <=> w \in ToSet(p) /\ ~ IsWorkspaceEmpty(s, w)
  BY <1>3, <1>4
<1>7. \A a, b : Before(o, a, b) <=> Before(p, a, b) /\ a \in ToSet(o) /\ b \in ToSet(o)
  BY <1>4, <1>5, BeforeIsInside
<1> HIDE DEF o
<1>8. QED
  BY <1>1, <1>4, <1>6, <1>7 DEF p

\* Two sequences agree on what both hold when it stands alike in both.
LEMMA SharedStandAlike ==
  ASSUME NEW T, NEW was \in Seq(T), NEW is \in Seq(T), IsInjective(was), IsInjective(is),
         \A a, b \in ToSet(was) \intersect ToSet(is) : Before(was, a, b) => Before(is, a, b)
  PROVE  Without(was, ToSet(was) \ ToSet(is)) = Without(is, ToSet(is) \ ToSet(was))
<1> DEFINE G == ToSet(was) \ ToSet(is)
           H == ToSet(is) \ ToSet(was)
           u == Without(was, G)
           v == Without(is, H)
<1>1. \A a \in ToSet(was) : a \notin G <=> a \in ToSet(is)
  OBVIOUS
<1>2. \A a \in ToSet(is) : a \notin H <=> a \in ToSet(was)
  OBVIOUS
<1> HIDE DEF G, H
<1>3. u \in Seq(T) /\ IsInjective(u) /\ ToSet(u) = ToSet(was) \ G
  BY WithoutKeeps
<1>4. v \in Seq(T) /\ IsInjective(v) /\ ToSet(v) = ToSet(is) \ H
  BY WithoutKeeps
<1>5. ToSet(u) = ToSet(was) \intersect ToSet(is) /\ ToSet(v) = ToSet(u)
  BY <1>1, <1>2, <1>3, <1>4
<1>6. \A a, b : Before(u, a, b) <=> Before(was, a, b) /\ a \notin G /\ b \notin G
  BY WithoutBefore
<1>7. \A a, b : Before(v, a, b) <=> Before(is, a, b) /\ a \notin H /\ b \notin H
  BY WithoutBefore
<1> HIDE DEF u, v
<1>8. ASSUME NEW a \in ToSet(u), NEW b \in ToSet(u), Before(u, a, b) PROVE Before(v, a, b)
  <2>1. Before(is, a, b)
    BY <1>5, <1>6, <1>8
  <2>2. a \notin H /\ b \notin H
    BY <1>2, <1>5, <1>8
  <2>3. QED
    BY <1>7, <2>1, <2>2
<1>9. u = v
  BY <1>3, <1>4, <1>5, <1>8, SameOrderSameSequence
<1>10. QED
  BY <1>9 DEF u, v, G, H

\* A step after which everything that holds something stands as before keeps
\* the order, as the property says it.
LEMMA FollowingKeepsOrder ==
  ASSUME NEW s, NEW t, Sound(s), Sound(t), OccupiedFollow(s, t), NEW m \in DOMAIN s.sets
  PROVE  LET was == Occupied(s, m)
             is  == Occupied(t, m)
         IN  Without(was, ToSet(was) \ ToSet(is)) = Without(is, ToSet(is) \ ToSet(was))
<1> DEFINE was == Occupied(s, m)
           is  == Occupied(t, m)
           T   == DOMAIN s.workspaces \union DOMAIN t.workspaces
<1>1. m \in DOMAIN t.sets
  BY DEF OccupiedFollow
<1>2. /\ was \in Seq(DOMAIN s.workspaces) /\ IsInjective(was)
      /\ \A w : w \in ToSet(was) <=> w \in ToSet(s.sets[m].order) /\ ~ IsWorkspaceEmpty(s, w)
      /\ \A a, b : Before(was, a, b) <=>
           Before(s.sets[m].order, a, b) /\ a \in ToSet(was) /\ b \in ToSet(was)
  BY OccupiedStand
<1>3. /\ is \in Seq(DOMAIN t.workspaces) /\ IsInjective(is)
      /\ \A w : w \in ToSet(is) <=> w \in ToSet(t.sets[m].order) /\ ~ IsWorkspaceEmpty(t, w)
      /\ \A a, b : Before(is, a, b) <=>
           Before(t.sets[m].order, a, b) /\ a \in ToSet(is) /\ b \in ToSet(is)
  BY <1>1, OccupiedStand
<1> HIDE DEF was, is
<1>4. was \in Seq(T) /\ is \in Seq(T)
  BY <1>2, <1>3
<1> HIDE DEF T
<1>5. ASSUME NEW a \in ToSet(was) \intersect ToSet(is), NEW b \in ToSet(was) \intersect ToSet(is),
             Before(was, a, b)
      PROVE  Before(is, a, b)
  <2>1. Before(s.sets[m].order, a, b)
    BY <1>2, <1>5
  <2>2. /\ a \in ToSet(t.sets[m].order) /\ b \in ToSet(t.sets[m].order)
        /\ ~ IsWorkspaceEmpty(s, a) /\ ~ IsWorkspaceEmpty(s, b)
        /\ ~ IsWorkspaceEmpty(t, a) /\ ~ IsWorkspaceEmpty(t, b)
    BY <1>2, <1>3
  <2>3. Before(t.sets[m].order, a, b)
    BY <2>1, <2>2 DEF OccupiedFollow
  <2>4. QED
    BY <1>3, <2>3
<1>6. Without(was, ToSet(was) \ ToSet(is)) = Without(is, ToSet(is) \ ToSet(was))
  BY <1>2, <1>3, <1>4, <1>5, SharedStandAlike
<1>7. QED
  BY <1>6 DEF was, is

\* The active workspace is written: no order changes.
LEMMA PutActiveOrders ==
  ASSUME NEW s, Shape(s), NEW m \in DOMAIN s.sets, NEW w
  PROVE  LET t == PutActive(s, m, w)
         IN  /\ Shape(t) /\ SameOrders(s, t)
             /\ t.workspaces = s.workspaces /\ t.columns = s.columns
<1> DEFINE t == PutActive(s, m, w)
<1>1. /\ DOMAIN t = DOMAIN s
      /\ t.workspaces = s.workspaces /\ t.columns = s.columns
      /\ t.windows = s.windows
      /\ DOMAIN t.focus = DOMAIN s.focus
      /\ t.sets = Put(s.sets, m, [order |-> s.sets[m].order, active |-> w])
  BY DEF Shape, PutActive
<1> HIDE DEF t
<1>2. Shape(t)
  BY <1>1 DEF Shape
<1>3. SameOrders(s, t)
  BY <1>1 DEF SameOrders, Put
<1>4. QED
  BY <1>1, <1>2, <1>3 DEF t

\* A window is focused, or none: no order changes, and nothing becomes empty.
LEMMA FocusWindowOrders ==
  ASSUME NEW s, Shape(s), NEW m \in DOMAIN s.sets, NEW w, NEW x, NEW c
  PROVE  LET t == FocusWindow(s, m, w, x, c)
         IN  /\ Shape(t) /\ SameOrders(s, t)
             /\ StateType(s) => \A v : IsWorkspaceEmpty(t, v) <=> IsWorkspaceEmpty(s, v)
<1> DEFINE r == Remember(s, w, x, c)
           k == SelectInColumn(r, c, x)
           a == PutActive(k, m, w)
           t == SetFocus(a, m, x, c)
<1>1. Alike(s, r)
  BY RememberAlike
<1>2. /\ r.columns = s.columns
      /\ \A v \in DOMAIN s.workspaces : /\ r.workspaces[v].flt = s.workspaces[v].flt
                                        /\ r.workspaces[v].cols = s.workspaces[v].cols
  BY DEF Shape, Remember
<1> HIDE DEF r
<1>3. Alike(r, k)
  BY <1>1, SelectInColumnAlike DEF Alike
<1>4. /\ k.workspaces = r.workspaces
      /\ DOMAIN k.columns = DOMAIN r.columns
      /\ \A d \in DOMAIN r.columns : "wins" \in DOMAIN r.columns[d] =>
           k.columns[d].wins = r.columns[d].wins
  BY <1>1 DEF Alike, Shape, SelectInColumn
<1> HIDE DEF k
<1>5. Alike(s, k) /\ m \in DOMAIN k.sets
  BY <1>1, <1>3, AlikeTransitive DEF Alike
<1>6. /\ Shape(a) /\ SameOrders(k, a)
      /\ a.workspaces = k.workspaces /\ a.columns = k.columns
  BY <1>5, PutActiveOrders DEF Alike
<1> HIDE DEF a
<1>7. Alike(a, t) /\ t.workspaces = a.workspaces /\ t.columns = a.columns
  BY <1>6, SetFocusAlike DEF Shape, SetFocus
<1> HIDE DEF t
<1>8. SameOrders(s, t)
  <2>1. SameOrders(s, k) /\ SameOrders(a, t)
    BY <1>5, <1>7, AlikeSameOrders
  <2>2. QED
    BY <1>6, <2>1, SameOrdersTransitive
<1>9. ASSUME StateType(s), NEW v PROVE IsWorkspaceEmpty(t, v) <=> IsWorkspaceEmpty(s, v)
  <2>1. \A d \in DOMAIN s.columns : "wins" \in DOMAIN s.columns[d]
    <3>1. \A d \in DOMAIN s.columns : s.columns[d] \in Column
      BY <1>9 DEF StateType, IsMap
    <3>2. QED
      BY <3>1 DEF Column
  <2>2. /\ DOMAIN t.columns = DOMAIN s.columns
        /\ \A d \in DOMAIN s.columns : t.columns[d].wins = s.columns[d].wins
    BY <1>2, <1>4, <1>6, <1>7, <2>1
  <2>3. /\ DOMAIN t.workspaces = DOMAIN s.workspaces
        /\ \A y \in DOMAIN s.workspaces : /\ t.workspaces[y].flt = s.workspaces[y].flt
                                          /\ t.workspaces[y].cols = s.workspaces[y].cols
    BY <1>1, <1>2, <1>4, <1>6, <1>7 DEF Alike
  <2>4. QED
    BY <2>2, <2>3 DEF IsWorkspaceEmpty
<1>10. Shape(t)
  BY <1>7 DEF Alike
<1>11. QED
  BY <1>8, <1>9, <1>10 DEF FocusWindow, t, a, k, r

\* A monitor shows a workspace without a window to focus.
LEMMA FocusNoWindowOrders ==
  ASSUME NEW s, Shape(s), NEW m \in DOMAIN s.sets, NEW w
  PROVE  LET t == FocusNoWindow(s, m, w)
         IN  /\ Shape(t) /\ SameOrders(s, t)
             /\ \A v : IsWorkspaceEmpty(t, v) <=> IsWorkspaceEmpty(s, v)
<1> DEFINE a == PutActive(s, m, w)
           t == SetFocus(a, m, None, None)
<1>1. /\ Shape(a) /\ SameOrders(s, a)
      /\ a.workspaces = s.workspaces /\ a.columns = s.columns
  BY PutActiveOrders
<1> HIDE DEF a
<1>2. Alike(a, t) /\ t.workspaces = a.workspaces /\ t.columns = a.columns
  BY <1>1, SetFocusAlike DEF Shape, SetFocus
<1> HIDE DEF t
<1>3. SameOrders(s, t) /\ Shape(t)
  BY <1>1, <1>2, AlikeSameOrders, SameOrdersTransitive DEF Alike
<1>4. \A v : IsWorkspaceEmpty(t, v) <=> IsWorkspaceEmpty(s, v)
  BY <1>1, <1>2, SameHoldings
<1>5. QED
  BY <1>3, <1>4 DEF FocusNoWindow, t, a

\* activate_workspace: no order changes, and what is empty stays so.
LEMMA ActivateOrders ==
  ASSUME NEW s, Shape(s), NEW m \in DOMAIN s.sets, NEW w
  PROVE  LET t == ActivateWorkspace(s, m, w)
         IN  /\ Shape(t) /\ SameOrders(s, t)
             /\ StateType(s) => Normalises(s, t)
<1> DEFINE target == WorkspaceFocusTarget(s, w)
           f == IF target.win # None THEN FocusWindow(s, m, w, target.win, target.col)
                ELSE FocusNoWindow(s, m, w)
           t == SyncOverview(f, m)
<1>1. /\ Shape(f) /\ SameOrders(s, f)
      /\ StateType(s) => \A v : IsWorkspaceEmpty(f, v) <=> IsWorkspaceEmpty(s, v)
  BY FocusWindowOrders, FocusNoWindowOrders
<1> HIDE DEF f
<1>2. Shape(t) /\ t.sets = f.sets
  BY <1>1 DEF SyncOverview, Shape
<1>3. Normalises(f, t)
  BY <1>1, SyncOverviewNormalises
<1> HIDE DEF t
<1>4. SameOrders(s, t)
  BY <1>1, <1>2 DEF SameOrders
<1>5. ASSUME StateType(s) PROVE Normalises(s, t)
  <2>1. Normalises(s, f)
    BY <1>1, <1>5 DEF Normalises, SameOrders, KeepsOccupied
  <2>2. QED
    BY <1>3, <2>1, NormalisesTransitive
<1>6. QED
  BY <1>2, <1>4, <1>5 DEF ActivateWorkspace, t, f, target

\* The focus is retargeted within a workspace.
LEMMA RetargetOrders ==
  ASSUME NEW s, Shape(s), NEW w, s.workspaces[w].mon \in DOMAIN s.sets, NEW x, NEW c
  PROVE  SameOrders(s, RetargetFrom(s, w, x, c))
<1> DEFINE r == s.workspaces[w]
           k == IF c \in DOMAIN s.columns THEN c ELSE IF r.cols # <<>> THEN r.cols[1] ELSE None
           y == ColumnActiveWindow(s.columns[k])
<1>1. SameOrders(s, SetFocus(s, r.mon, None, None)) /\ SameOrders(s, s)
  BY SetFocusAlike, AlikeSameOrders DEF SameOrders
<1>2. \A z, j : SameOrders(s, FocusWindow(s, r.mon, w, z, j))
  BY FocusWindowOrders
<1>3. RetargetFrom(s, w, x, c) \in
        {s, SetFocus(s, r.mon, None, None), FocusWindow(s, r.mon, w, y, k),
         FocusWindow(s, r.mon, w, r.flt[1], None)}
  BY DEF RetargetFrom, RetargetFocus
<1> HIDE DEF k, y
<1>4. QED
  BY <1>1, <1>2, <1>3

\* Inserting an element does not reorder the others.
LEMMA InsertAtBefore ==
  ASSUME NEW T, NEW seq \in Seq(T), NEW i \in 1..(Len(seq) + 1), NEW e \in T,
         NEW a, NEW b, Before(seq, a, b)
  PROVE  Before(InsertAt(seq, i, e), a, b)
<1>0. Spliced(InsertAt(seq, i, e), T, seq, i, e)
  BY InsertAtReads
<1> DEFINE n == Len(seq)
           w == InsertAt(seq, i, e)
           at(k) == IF k < i THEN k ELSE k + 1
<1>1. n \in Nat /\ DOMAIN seq = 1..n /\ i \in 1..(n + 1)
  OBVIOUS
<1>2. /\ DOMAIN w = 1..(n + 1)
      /\ \A k \in 1..(n + 1) : w[k] = IF k < i THEN seq[k] ELSE IF k = i THEN e ELSE seq[k - 1]
  <2>1. /\ w \in Seq(T) /\ Len(w) = n + 1
        /\ \A k \in 1..(n + 1) : w[k] = IF k < i THEN seq[k] ELSE IF k = i THEN e ELSE seq[k - 1]
    BY <1>0 DEF Spliced
  <2> HIDE DEF w, n
  <2>2. QED
    BY <1>1, <2>1
<1> HIDE DEF w, n
<1>3. ASSUME NEW k \in 1..n PROVE at(k) \in 1..(n + 1) /\ w[at(k)] = seq[k]
  <2>1. CASE k < i
    BY <1>1, <1>2, <2>1
  <2>2. CASE ~ (k < i)
    <3>1. k + 1 \in 1..(n + 1) /\ ~ (k + 1 < i) /\ k + 1 # i /\ k + 1 - 1 = k
      BY <1>1, <2>2
    <3>2. QED
      BY <1>2, <2>2, <3>1
  <2>3. QED
    BY <2>1, <2>2
<1>4. \A j, k \in 1..n : j < k => at(j) < at(k)
  BY <1>1
<1>5. PICK j \in 1..n, k \in 1..n : j < k /\ seq[j] = a /\ seq[k] = b
  BY <1>1 DEF Before
<1>6. at(j) \in DOMAIN w /\ at(k) \in DOMAIN w /\ w[at(j)] = a /\ w[at(k)] = b /\ at(j) < at(k)
  BY <1>2, <1>3, <1>4, <1>5
<1> HIDE DEF at
<1>7. QED
  BY <1>6 DEF Before, w

\* A workspace crosses to another monitor: the others stand as before on both.
LEMMA RehostFollows ==
  ASSUME NEW s, Sound(s), NEW from \in DOMAIN s.sets, NEW to \in DOMAIN s.sets, from # to,
         NEW w \in ToSet(s.sets[from].order)
  PROVE  InSequence(s, RehostWorkspace(s, from, to, w))
<1> DEFINE source == s.sets[from].order
           target == s.sets[to].order
           left == Without(source, {w})
           joined == InsertAt(target, TailPosition(s, to), w)
           t == RehostWorkspace(s, from, to, w)
<1>1. /\ source \in Seq(DOMAIN s.workspaces)
      /\ target \in Seq(DOMAIN s.workspaces)
      /\ w \in DOMAIN s.workspaces
  BY SoundLookups
<1>2. TailPosition(s, to) \in 1..(Len(target) + 1)
  BY <1>1, TailPositionInside
<1>3. ToSet(left) = ToSet(source) \ {w}
  BY <1>1, WithoutKeeps
<1>4. \A a, b : Before(left, a, b) <=> Before(source, a, b) /\ a \notin {w} /\ b \notin {w}
  BY <1>1, WithoutBefore
<1>5. \A a, b : Before(target, a, b) => Before(joined, a, b)
  BY <1>1, <1>2, InsertAtBefore
<1> HIDE DEF left, joined
<1>6. /\ DOMAIN t.sets = DOMAIN s.sets
      /\ t.sets[from].order = left
      /\ t.sets[to].order = joined
      /\ \A k \in DOMAIN s.sets \ {from, to} : t.sets[k] = s.sets[k]
  <2>1. t.sets = Put(Put(s.sets, from, [order |-> left, active |-> s.sets[from].active]),
                     to, [order |-> joined, active |-> w])
    BY SoundShape DEF Shape, RehostWorkspace, PutOrder, left, joined
  <2> HIDE DEF t
  <2>2. QED
    BY <2>1 DEF Put
<1> HIDE DEF t
<1>7. ASSUME NEW k \in DOMAIN s.sets,
             NEW a \in ToSet(t.sets[k].order), NEW b \in ToSet(t.sets[k].order),
             Before(s.sets[k].order, a, b)
      PROVE  Before(t.sets[k].order, a, b)
  <2>1. CASE k = from
    BY <1>3, <1>4, <1>6, <1>7, <2>1
  <2>2. CASE k = to
    BY <1>5, <1>6, <1>7, <2>2
  <2>3. CASE k \notin {from, to}
    BY <1>6, <1>7, <2>3
  <2>4. QED
    BY <2>1, <2>2, <2>3
<1>8. QED
  BY <1>6, <1>7 DEF InSequence, t

---------------------------------------------------------------------------
(* The handlers keep the order.                                            *)

\* add_monitor: the monitors that were there keep their orders.
LEMMA AddMonitorFollows ==
  ASSUME NEW s, Sound(s), NEW m, m \notin DOMAIN s.sets
  PROVE  OccupiedFollow(s, AddMonitor(s, m))
<1> DEFINE t == Plugged(s, m)
<1>1. Ring(t, {}) /\ m \in DOMAIN t.sets
  BY PluggedSound DEF Sound
<1>2. InSequence(s, t)
  <2>1. DOMAIN t.sets = DOMAIN s.sets \union {m} /\ \A k \in DOMAIN s.sets : t.sets[k] = s.sets[k]
    BY SoundShape DEF Shape, Plugged, Put
  <2> HIDE DEF t
  <2>2. QED
    BY <2>1 DEF InSequence
<1>3. AddMonitor(s, m) = NormalizeWorkspaceSet(t, m)
  BY DEF AddMonitor, Plugged
<1> HIDE DEF t
<1>4. Normalises(t, NormalizeWorkspaceSet(t, m))
  BY <1>1, NormalizeNormalises
<1>5. QED
  BY <1>2, <1>3, <1>4, StepFollows

\* handle_window_discovered
LEMMA DiscoverFollows ==
  ASSUME NEW s, Sound(s), NEW d, d.mon \in DOMAIN s.sets
  PROVE  OccupiedFollow(s, WindowDiscovered(s, d).st)
<1> DEFINE w      == ActiveWorkspace(s, d.mon)
           x      == FreshWindow(s)
           placed == PlaceDiscovered(s, w, x, d)
           node   == [layer |-> d.layer, ws |-> w, col |-> placed.col, managed |-> d.managed,
                      flt |-> d.layer = "Floating", full |-> d.layer = "Fullscreen",
                      restore |-> NoRestore]
           added  == SetWindow(placed.st, x, node)
           active == PutActive(added, d.mon, w)
           focused == IF d.managed /\ ~KeepsFocus(s, w, d)
                      THEN FocusWindow(active, d.mon, w, x, placed.col) ELSE active
           final  == NormalizeWorkspaceSet(focused, d.mon)
<1>1. WindowDiscovered(s, d).st = final
  BY SettleState DEF WindowDiscovered, Ok
<1>2. w \in ToSet(s.sets[d.mon].order) /\ w \in DOMAIN s.workspaces
  BY SoundLookups
<1> HIDE DEF w, x
<1>3. Alike(s, placed.st)
  BY <1>2, PlaceDiscoveredAlike, SoundShape
<1> HIDE DEF placed, node
<1>4. Alike(placed.st, added)
  BY <1>3, SetWindowAlike DEF Alike
<1> HIDE DEF added
<1>5. Alike(s, added)
  BY <1>3, <1>4, AlikeTransitive
<1>6. Sound(added) /\ added.sets = s.sets /\ w \in DOMAIN added.workspaces
  BY <1>2, <1>5, AlikeSound DEF Alike
<1>7. Sound(active) /\ d.mon \in DOMAIN active.sets /\ active.workspaces = added.workspaces
  BY <1>2, <1>6, PutActiveSound
<1>8. SameOrders(added, active)
  BY <1>6, PutActiveOrders, SoundShape
<1> HIDE DEF active
<1>9. d.mon = active.workspaces[w].mon
  BY <1>2, <1>6, <1>7, SoundLookups
<1>10. Ring(focused, {}) /\ d.mon \in DOMAIN focused.sets
  BY <1>6, <1>7, <1>9, FocusWindowSound DEF Sound
<1>11. SameOrders(active, focused)
  BY <1>7, FocusWindowOrders, SoundShape DEF SameOrders
<1> HIDE DEF focused
<1>12. InSequence(s, focused)
  BY <1>5, <1>8, <1>11, AlikeSameOrders, SameOrdersTransitive, SameOrdersFollow
<1>13. Normalises(focused, final)
  BY <1>10, NormalizeNormalises
<1>14. QED
  BY <1>1, <1>12, <1>13, StepFollows

\* handle_window_destroyed
LEMMA DestroyFollows ==
  ASSUME NEW s, Sound(s), NEW x
  PROVE  OccupiedFollow(s, WindowDestroyed(s, x).st)
<1> DEFINE w == s.windows[x].ws
           c == s.windows[x].col
           m == s.workspaces[w].mon
           k == DetachWindow(s, x)
           g == Forget(k, w, x, c)
           f == RetargetFrom(g, w, x, c)
<1>1. CASE w \notin DOMAIN s.workspaces
  BY <1>1, StepFollows DEF WindowDestroyed, Err, SameOrders
<1>2. CASE w \in DOMAIN s.workspaces
  <2>1. Alike(s, k)
    BY <1>2, DetachWindowAlike, SoundShape
  <2> HIDE DEF k
  <2>2. Alike(k, g)
    BY <1>2, <2>1, ForgetAlike DEF Alike
  <2> HIDE DEF g
  <2>3. Alike(s, g)
    BY <2>1, <2>2, AlikeTransitive
  <2>4. Sound(g) /\ w \in DOMAIN g.workspaces /\ m \in DOMAIN g.sets /\ g.workspaces[w].mon = m
    BY <1>2, <2>3, AlikeSound, SoundLookups DEF Alike
  <2>5. Ring(f, {}) /\ DOMAIN f.sets = DOMAIN g.sets
    BY <2>4, RetargetSound DEF RetargetFrom, Sound
  <2>6. SameOrders(g, f)
    BY <2>4, RetargetOrders, SoundShape
  <2> HIDE DEF f
  <2>7. Normalises(f, NormalizeWorkspaceSet(f, m))
    BY <2>4, <2>5, NormalizeNormalises
  <2>8. InSequence(s, f)
    BY <2>3, <2>6, AlikeSameOrders, SameOrdersTransitive, SameOrdersFollow
  <2>9. WindowDestroyed(s, x).st = NormalizeWorkspaceSet(f, m)
    BY <1>2, SettleState DEF WindowDestroyed, f, g, k
  <2>10. QED
    BY <2>7, <2>8, <2>9, StepFollows
<1>3. QED
  BY <1>1, <1>2

\* The focus moves along a workspace, or to a window the platform names.
LEMMA FocusMoveFollows ==
  ASSUME NEW s, Sound(s), NEW forward, NEW tabs
  PROVE  /\ OccupiedFollow(s, FocusNavigation(s, forward, tabs).st)
         /\ \A x : s.windows[x].ws \in DOMAIN s.workspaces =>
              OccupiedFollow(s, WindowFocusObserved(s, x).st)
<1>1. ASSUME NEW w \in DOMAIN s.workspaces, NEW y, NEW c
      PROVE  OccupiedFollow(s, FocusWindow(s, s.workspaces[w].mon, w, y, c))
  <2>1. s.workspaces[w].mon \in DOMAIN s.sets
    BY SoundLookups
  <2>2. QED
    BY <2>1, FocusWindowOrders, StepFollows, SoundShape
<1>2. OccupiedFollow(s, s)
  BY StepFollows DEF SameOrders
<1>3. OccupiedFollow(s, FocusNavigation(s, forward, tabs).st)
  <2> DEFINE w == CommandWorkspace(s)
             m == s.workspaces[w].mon
             t == FocusNavigation(s, forward, tabs).st
  <2>1. t = s \/ (w \in DOMAIN s.workspaces /\ \E y, c : t = FocusWindow(s, m, w, y, c))
    BY SettleState DEF FocusNavigation, Err
  <2> HIDE DEF w, t
  <2>2. OccupiedFollow(s, t)
    BY <1>1, <1>2, <2>1
  <2>3. QED
    BY <2>2 DEF t
<1>4. ASSUME NEW x, s.windows[x].ws \in DOMAIN s.workspaces
      PROVE  OccupiedFollow(s, WindowFocusObserved(s, x).st)
  BY <1>1, <1>4, SettleState DEF WindowFocusObserved
<1>5. QED
  BY <1>3, <1>4

\* handle_focus_workspace
LEMMA FocusWorkspaceFollows ==
  ASSUME NEW s, Sound(s), NEW forward \in BOOLEAN, NEW requested
  PROVE  OccupiedFollow(s, FocusWorkspace(s, forward, requested).st)
<1> DEFINE m     == CommandMonitor(s, requested)
           n     == NormalizeWorkspaceSet(s, m)
           order == n.sets[m].order
           w     == ActiveWorkspace(n, m)
           to    == order[StepWithin(Position(order, w), forward, Len(order))]
           a     == ActivateWorkspace(n, m, to)
           u     == NormalizeWorkspaceSet(a, m)
           t     == FocusWorkspace(s, forward, requested).st
<1>1. t = s \/ (m # None /\ (t = n \/ t = u))
  BY FocusWorkspaceState
<1>2. m # None => m \in DOMAIN s.sets
  BY CommandMonitorKnown
<1>3. OccupiedFollow(s, s)
  BY StepFollows DEF SameOrders
<1> HIDE DEF m, t
<1>4. ASSUME m \in DOMAIN s.sets PROVE OccupiedFollow(s, n) /\ OccupiedFollow(s, u)
  <2>1. Sound(n) /\ m \in DOMAIN n.sets
    BY <1>4, NormalizeSound
  <2>2. Normalises(s, n)
    BY <1>4, NormalizeNormalises DEF Sound
  <2> HIDE DEF n
  <2>3. w \in ToSet(n.sets[m].order)
    BY <2>1, SoundLookups
  <2> HIDE DEF w
  <2>4. to \in ToSet(n.sets[m].order)
    BY <2>1, <2>3, NeighbourInOrder
  <2> HIDE DEF to
  <2>5. Ring(a, {}) /\ m \in DOMAIN a.sets
    BY <2>1, <2>4, ActivateWorkspaceSound DEF Sound
  <2>6. SameOrders(n, a)
    BY <2>1, ActivateOrders, SoundShape
  <2> HIDE DEF a
  <2>7. Normalises(a, u)
    BY <2>5, NormalizeNormalises
  <2> HIDE DEF u
  <2>8. QED
    BY <2>2, <2>6, <2>7, NormalisedStepFollows, StepFollows, SameOrdersFollow
<1> HIDE DEF n, u
<1>5. OccupiedFollow(s, t)
  BY <1>1, <1>2, <1>3, <1>4
<1>6. QED
  BY <1>5 DEF t

\* After a crossing two monitors need normalising, call them U.
LEMMA RehostRingNamed ==
  ASSUME NEW s, Sound(s), NEW from \in DOMAIN s.sets, NEW to \in DOMAIN s.sets, from # to,
         NEW w \in ToSet(s.sets[from].order), NEW U, U = {from, to}
  PROVE  /\ Ring(RehostWorkspace(s, from, to, w), U)
         /\ DOMAIN RehostWorkspace(s, from, to, w).sets = DOMAIN s.sets
<1> DEFINE t == RehostWorkspace(s, from, to, w)
<1>1. /\ Ring(t, {from, to})
      /\ DOMAIN t.sets = DOMAIN s.sets
      /\ t.sets[to].active = w
      /\ w \in ToSet(t.sets[to].order)
  BY RehostRing
<1> HIDE DEF t
<1>2. QED
  BY <1>1 DEF t

\* Both monitors of a crossing are normalised, once it is decided and once it
\* is done; what stays on either of them stands as before.
LEMMA CrossingFollows ==
  ASSUME NEW s, InOrder(s), NEW from \in DOMAIN s.sets, NEW to \in DOMAIN s.sets, from # to,
         NEW w, w = s.sets[from].active
  PROVE  LET n == NormalizeBoth(s, from, to)
             t == RehostWorkspace(n, from, to, w)
         IN  /\ Normalises(s, n)
             /\ InSequence(n, t)
             /\ Normalises(t, NormalizeBoth(t, from, to))
<1> DEFINE n1 == NormalizeWorkspaceSet(s, from)
           n2 == NormalizeWorkspaceSet(n1, to)
           t  == RehostWorkspace(n2, from, to, w)
           t1 == NormalizeWorkspaceSet(t, from)
           t2 == NormalizeWorkspaceSet(t1, to)
<1>1. NormalizeBoth(s, from, to) = n2 /\ NormalizeBoth(t, from, to) = t2
  BY DEF NormalizeBoth
<1>0. Sound(s)
  BY DEF InOrder
<1>2. Sound(n1) /\ DOMAIN n1.sets = DOMAIN s.sets /\ n1.sets[from].active = w
  BY <1>0, NormalizeSound
<1>3. Normalises(s, n1)
  BY <1>0, NormalizeNormalises DEF Sound
<1> HIDE DEF n1
<1>4. Sound(n2) /\ DOMAIN n2.sets = DOMAIN s.sets /\ n2.sets[from].active = w
  BY <1>2, NormalizeSound
<1>5. Normalises(n1, n2)
  BY <1>2, NormalizeNormalises DEF Sound
<1> HIDE DEF n2
<1>6. w \in ToSet(n2.sets[from].order)
  BY <1>4, SoundLookups
<1> DEFINE U == {from, to}
           V == U \ {from}
<1>7. U = {from, to}
  OBVIOUS
<1> HIDE DEF U
<1>8. InSequence(n2, t)
  BY <1>4, <1>6, RehostFollows
<1>9. Ring(t, U) /\ from \in DOMAIN t.sets /\ DOMAIN t.sets = DOMAIN s.sets
  BY <1>4, <1>6, <1>7, RehostRingNamed
<1> HIDE DEF t
<1>10. Ring(t1, V) /\ DOMAIN t1.sets = DOMAIN t.sets
  BY <1>9, NormalizeRing
<1>11. Normalises(t, t1)
  BY <1>9, NormalizeNormalises
<1> HIDE DEF t1, V
<1>12. to \in DOMAIN t1.sets
  BY <1>9, <1>10
<1>13. Normalises(t1, t2)
  BY <1>10, <1>12, NormalizeNormalises
<1> HIDE DEF t2
<1>14. Normalises(s, n2) /\ Normalises(t, t2)
  BY <1>3, <1>5, <1>11, <1>13, NormalisesTransitive
<1>15. QED
  BY <1>1, <1>8, <1>14 DEF t, t2, t1

\* handle_move_workspace_to_adjacent_monitor
LEMMA MoveWorkspaceToMonitorFollows ==
  ASSUME NEW s, InOrder(s), NEW forward \in BOOLEAN, NEW requested
  PROVE  OccupiedFollow(s, MoveWorkspaceToMonitor(s, forward, requested).st)
<1> DEFINE from == CommandMonitor(s, requested)
           to   == AdjacentMonitor(s, from, forward)
           w    == ActiveWorkspace(s, from)
           n    == NormalizeBoth(s, from, to)
           t    == RehostWorkspace(n, from, to, w)
           u    == NormalizeBoth(t, from, to)
           a    == ActivateWorkspace(u, to, w)
           o    == SyncOverview(a, from)
           r    == MoveWorkspaceToMonitor(s, forward, requested).st
<1>1. r = s \/ (from # None /\ from # to /\ r = o)
  BY SettleState DEF MoveWorkspaceToMonitor, Err
<1>2. Sound(s)
  BY DEF InOrder
<1>3. OccupiedFollow(s, s)
  BY StepFollows DEF SameOrders
<1>4. ASSUME from # None, from # to PROVE OccupiedFollow(s, o)
  <2>1. from \in DOMAIN s.sets
    BY <1>4, CommandMonitorKnown
  <2>2. to \in DOMAIN s.sets /\ from # to
    BY <1>4, <2>1, AdjacentMonitorKnown
  <2>3. w = s.sets[from].active
    BY <1>2, <2>1, SoundLookups
  <2> HIDE DEF from, to, w
  <2>4. Normalises(s, n) /\ InSequence(n, t) /\ Normalises(t, u)
    BY <2>1, <2>2, <2>3, CrossingFollows
  <2>5. Sound(u) /\ Arranged(u, {}) /\ DOMAIN u.sets = DOMAIN s.sets
    BY <2>1, <2>2, <2>3, CrossingArranged
  <2> HIDE DEF n, t, u
  <2>6. Shape(a) /\ Normalises(u, a)
    BY <2>2, <2>5, ActivateOrders DEF Arranged
  <2> HIDE DEF a
  <2>7. Normalises(a, o)
    BY <2>6, SyncOverviewNormalises
  <2> HIDE DEF o
  <2>8. Normalises(t, o)
    BY <2>4, <2>6, <2>7, NormalisesTransitive
  <2>9. QED
    BY <2>4, <2>8, NormalisedStepFollows
<1> HIDE DEF from, to, o, r
<1>5. OccupiedFollow(s, r)
  BY <1>1, <1>3, <1>4
<1>6. QED
  BY <1>5 DEF r

\* move_column_to_workspace_target_internal, after what a handler may have
\* normalised before.
LEMMA MoveColumnToFollows ==
  ASSUME NEW s, NEW n, Normalises(s, n), Sound(n), NEW c, NEW to, NEW after
  PROVE  OccupiedFollow(s, MoveColumnTo(n, c, to, after).st)
<1> DEFINE from == ColumnWorkspace(n, c)
           m1   == n.workspaces[from].mon
           m2   == n.workspaces[to].mon
           k    == TransferColumn(n, c, from, to, after)
           a    == ActivateWorkspace(k, m2, to)
           n1   == NormalizeWorkspaceSet(a, m1)
           n2   == NormalizeWorkspaceSet(n1, m2)
           o    == SyncOverview(n2, m1)
           t    == MoveColumnTo(n, c, to, after).st
<1>1. t = n \/ (from \in DOMAIN n.workspaces /\ to \in DOMAIN n.workspaces /\ t \in {n1, o})
  BY SettleState DEF MoveColumnTo, NormalizeBoth, Err
<1>2. OccupiedFollow(s, n)
  BY StepFollows
<1>3. ASSUME from \in DOMAIN n.workspaces, to \in DOMAIN n.workspaces
      PROVE  OccupiedFollow(s, n1) /\ OccupiedFollow(s, o)
  <2>1. m1 \in DOMAIN n.sets /\ m2 \in DOMAIN n.sets /\ to \in ToSet(n.sets[m2].order)
    BY <1>3, SoundLookups
  <2> HIDE DEF m1, m2, from
  <2>2. Alike(n, k)
    BY <1>3, TransferColumnAlike, SoundShape
  <2> HIDE DEF k
  <2>3. Sound(k) /\ k.sets = n.sets
    BY <2>2, AlikeSound DEF Alike
  <2>4. Ring(a, {}) /\ Sound(a) /\ DOMAIN a.sets = DOMAIN n.sets
    BY <2>1, <2>3, ActivateWorkspaceSound DEF Sound
  <2>5. SameOrders(k, a)
    BY <2>1, <2>3, ActivateOrders, SoundShape
  <2> HIDE DEF a
  <2>6. InSequence(n, a)
    BY <2>2, <2>5, AlikeSameOrders, SameOrdersTransitive, SameOrdersFollow
  <2>7. Ring(n1, {}) /\ Sound(n1) /\ DOMAIN n1.sets = DOMAIN n.sets
    BY <2>1, <2>4, NormalizeSound DEF Sound
  <2>8. Normalises(a, n1)
    BY <2>1, <2>4, NormalizeNormalises
  <2> HIDE DEF n1
  <2>9. Sound(n2)
    BY <2>1, <2>7, NormalizeSound
  <2>10. Normalises(n1, n2)
    BY <2>1, <2>7, NormalizeNormalises
  <2> HIDE DEF n2
  <2>11. Normalises(n2, o)
    BY <2>9, SyncOverviewNormalises, SoundShape
  <2> HIDE DEF o
  <2>12. Normalises(a, o)
    BY <2>8, <2>10, <2>11, NormalisesTransitive
  <2>13. QED
    BY <2>6, <2>8, <2>12, NormalisedStepFollows
<1> HIDE DEF from, n1, o, t
<1>4. OccupiedFollow(s, t)
  BY <1>1, <1>2, <1>3
<1>5. QED
  BY <1>4 DEF t

\* handle_move_column_to_workspace
LEMMA MoveColumnFollows ==
  ASSUME NEW s, Sound(s), NEW forward \in BOOLEAN, NEW requested
  PROVE  OccupiedFollow(s, MoveColumnToWorkspace(s, forward, requested).st)
<1> DEFINE m == CommandMonitor(s, requested)
           n == NormalizeWorkspaceSet(s, m)
           t == MoveColumnToWorkspace(s, forward, requested).st
<1>1. t = s \/ (m # None /\ (t = n \/ \E c, to : t = MoveColumnTo(n, c, to, None).st))
  BY SettleState DEF MoveColumnToWorkspace, Err
<1>2. m # None => m \in DOMAIN s.sets
  BY CommandMonitorKnown
<1>3. OccupiedFollow(s, s)
  BY StepFollows DEF SameOrders
<1> HIDE DEF m, t
<1>4. ASSUME m \in DOMAIN s.sets
      PROVE  OccupiedFollow(s, n) /\ \A c, to : OccupiedFollow(s, MoveColumnTo(n, c, to, None).st)
  <2>1. Normalises(s, n) /\ Sound(n)
    BY <1>4, NormalizeNormalises, NormalizeSound DEF Sound
  <2> HIDE DEF n
  <2>2. QED
    BY <2>1, StepFollows, MoveColumnToFollows
<1> HIDE DEF n
<1>5. OccupiedFollow(s, t)
  BY <1>1, <1>2, <1>3, <1>4
<1>6. QED
  BY <1>5 DEF t

\* Windows change layer, columns are tabbed: no order changes.
LEMMA WindowCommandFollows ==
  ASSUME NEW s, Sound(s), NEW requested, NEW layer
  PROVE  /\ OccupiedFollow(s, ToggleLayer(s, requested, layer).st)
         /\ OccupiedFollow(s, ToggleTabbed(s, requested).st)
<1>1. OccupiedFollow(s, s)
  BY StepFollows DEF SameOrders
<1>2. ASSUME NEW t, Alike(s, t) PROVE OccupiedFollow(s, t)
  BY <1>2, AlikeSameOrders, StepFollows
<1>3. ASSUME NEW t, Alike(s, t), NEW w \in DOMAIN s.workspaces, NEW x, NEW c
      PROVE  OccupiedFollow(s, FocusWindow(t, s.workspaces[w].mon, w, x, c))
  <2>1. s.workspaces[w].mon \in DOMAIN t.sets /\ Shape(t)
    BY <1>3, SoundLookups DEF Alike
  <2>2. SameOrders(t, FocusWindow(t, s.workspaces[w].mon, w, x, c))
    BY <2>1, FocusWindowOrders
  <2>3. QED
    BY <1>3, <2>2, AlikeSameOrders, SameOrdersTransitive, StepFollows
<1>4. OccupiedFollow(s, ToggleLayer(s, requested, layer).st)
  <2> DEFINE x == CommandWindow(s, requested)
             w == s.windows[x].ws
             r == ToggleLayer(s, requested, layer)
  <2>1. \/ r.st = s
        \/ /\ w \in DOMAIN s.workspaces
           /\ r.st \in {LeavePlace(s, x, layer), DetachWindow(s, x)}
        \/ /\ w \in DOMAIN s.workspaces /\ RestoreOf(s, x).ws \in DOMAIN s.workspaces
           /\ r.st = ReturnToPlace(s, x, layer)
    BY SettleState DEF ToggleLayer, Err
  <2> HIDE DEF x, r
  <2>2. ASSUME w \in DOMAIN s.workspaces
        PROVE  OccupiedFollow(s, LeavePlace(s, x, layer)) /\ OccupiedFollow(s, DetachWindow(s, x))
    <3>1. PICK t : /\ Alike(s, t)
                   /\ LeavePlace(s, x, layer) = FocusWindow(t, s.workspaces[w].mon, w, x, None)
      BY <2>2, LeavePlaceAlike, SoundShape
    <3>2. OccupiedFollow(s, DetachWindow(s, x))
      BY <1>2, <2>2, DetachWindowAlike, SoundShape
    <3>3. OccupiedFollow(s, LeavePlace(s, x, layer))
      BY <1>3, <2>2, <3>1
    <3>4. QED
      BY <3>2, <3>3
  <2>3. ASSUME w \in DOMAIN s.workspaces, RestoreOf(s, x).ws \in DOMAIN s.workspaces
        PROVE  OccupiedFollow(s, ReturnToPlace(s, x, layer))
    <3>1. PICK t, c : /\ Alike(s, t)
                      /\ ReturnToPlace(s, x, layer) = FocusWindow(t, s.workspaces[w].mon, w, x, c)
      BY <2>3, ReturnToPlaceAlike, SoundShape
    <3>2. QED
      BY <1>3, <2>3, <3>1
  <2>4. OccupiedFollow(s, r.st)
    BY <1>1, <2>1, <2>2, <2>3
  <2>5. QED
    BY <2>4 DEF r
<1>5. OccupiedFollow(s, ToggleTabbed(s, requested).st)
  <2>1. \/ ToggleTabbed(s, requested).st = s
        \/ \E c, r : ToggleTabbed(s, requested).st = SetColumn(s, c, r)
    BY ToggleTabbedState
  <2>2. \A c, r : OccupiedFollow(s, SetColumn(s, c, r))
    BY <1>2, SetColumnAlike, SoundShape
  <2>3. QED
    BY <1>1, <2>1, <2>2
<1>6. QED
  BY <1>4, <1>5

\* Every step but a move along the monitor keeps the order of what holds
\* something.
LEMMA NextFollows ==
  ASSUME InOrder(st), Grounded(st), Next
  PROVE  \/ OccupiedFollow(st, st')
         \/ \E forward \in BOOLEAN, m \in MonitorRequests : CmdMoveWorkspace(forward, m)
<1>1. Sound(st)
  BY DEF InOrder
<1>2. CASE Platform
  <2>1. CASE \E m \in Monitors : PlugMonitor(m)
    BY <1>1, <2>1, AddMonitorFollows DEF PlugMonitor, Known
  <2>2. CASE \E m \in Monitors : RefreshMonitor(m)
    <3>1. PICK m \in Monitors : RefreshMonitor(m)
      BY <2>2
    <3>2. m \in DOMAIN st.sets /\ st' = NormalizeWorkspaceSet(st, m)
      BY <3>1 DEF RefreshMonitor, Known
    <3>3. Normalises(st, NormalizeWorkspaceSet(st, m))
      BY <1>1, <3>2, NormalizeNormalises DEF Sound
    <3>4. QED
      BY <3>2, <3>3, StepFollows
  <2>3. CASE \E m \in Monitors, d \in Discoveries : Discover(m, d)
    <3>1. PICK m \in Monitors, d \in Discoveries : Discover(m, d)
      BY <2>3
    <3> DEFINE e == [mon |-> m, managed |-> d.managed, layer |-> d.layer,
                     mode |-> d.mode, preserve |-> d.preserve, placement |-> d.placement]
    <3>2. m \in DOMAIN st.sets /\ st' = WindowDiscovered(st, e).st
      BY <3>1 DEF Discover, Fatal, Known
    <3>3. e.mon = m
      OBVIOUS
    <3> HIDE DEF e
    <3>4. QED
      BY <1>1, <3>2, <3>3, DiscoverFollows
  <2>4. CASE \E x \in DOMAIN st.windows : Destroy(x)
    <3>1. PICK x \in DOMAIN st.windows : Destroy(x)
      BY <2>4
    <3>2. st' = WindowDestroyed(st, x).st
      BY <3>1 DEF Destroy, Fatal
    <3>3. QED
      BY <1>1, <3>2, DestroyFollows
  <2>5. CASE \E x \in DOMAIN st.windows : ObserveFocus(x)
    <3>1. PICK x \in DOMAIN st.windows : ObserveFocus(x)
      BY <2>5
    <3>2. st' = WindowFocusObserved(st, x).st /\ st.windows[x].ws \in DOMAIN st.workspaces
      BY <3>1 DEF ObserveFocus, Fatal
    <3>3. QED
      BY <1>1, <3>2, FocusMoveFollows
  <2>6. QED
    BY <1>2, <2>1, <2>2, <2>3, <2>4, <2>5 DEF Platform
<1>3. CASE \E forward, tabs \in BOOLEAN : CmdFocusNavigation(forward, tabs)
  <2>1. PICK forward \in BOOLEAN, tabs \in BOOLEAN : CmdFocusNavigation(forward, tabs)
    BY <1>3
  <2>2. st' = FocusNavigation(st, forward, tabs).st
    BY <2>1 DEF CmdFocusNavigation, Command, Fatal, Answered
  <2>3. QED
    BY <1>1, <2>2, FocusMoveFollows
<1>4. CASE WorkspaceCommand
  <2>1. PICK forward \in BOOLEAN, m \in MonitorRequests :
          \/ CmdFocusWorkspace(forward, m)
          \/ CmdMoveWorkspace(forward, m)
          \/ CmdMoveWorkspaceToMonitor(forward, m)
          \/ CmdMoveColumnToWorkspace(forward, m)
    BY <1>4 DEF WorkspaceCommand
  <2>2. \/ CmdMoveWorkspace(forward, m)
        \/ st' \in {FocusWorkspace(st, forward, m).st, MoveWorkspaceToMonitor(st, forward, m).st,
                    MoveColumnToWorkspace(st, forward, m).st}
    BY <2>1 DEF CmdFocusWorkspace, CmdMoveWorkspaceToMonitor, CmdMoveColumnToWorkspace,
                Command, Fatal, Answered
  <2>3. QED
    BY <1>1, <2>2, FocusWorkspaceFollows, MoveWorkspaceToMonitorFollows, MoveColumnFollows
<1>5. CASE ColumnDrop
  <2>1. PICK x \in DOMAIN st.windows, to \in DOMAIN st.workspaces, y \in Option(DOMAIN st.windows) :
          CmdDropColumn(x, to, y)
    BY <1>5 DEF ColumnDrop
  <2>2. \E after : st' = MoveColumnTo(st, st.windows[x].col, to, after).st
    BY <2>1 DEF CmdDropColumn, Fatal
  <2>3. Normalises(st, st)
    BY NormalisesReflexive
  <2>4. QED
    BY <1>1, <2>2, <2>3, MoveColumnToFollows
<1>6. CASE WindowCommand
  <2>1. PICK x \in WindowRequests : CmdToggleFloating(x) \/ CmdToggleFullscreen(x) \/ CmdToggleTabbed(x)
    BY <1>6 DEF WindowCommand
  <2>2. st' \in {ToggleLayer(st, x, "Floating").st, ToggleLayer(st, x, "Fullscreen").st,
                 ToggleTabbed(st, x).st}
    BY <2>1 DEF CmdToggleFloating, CmdToggleFullscreen, CmdToggleTabbed, ToggleFloating,
                ToggleFullscreen, Command, Fatal, Answered
  <2>3. QED
    BY <1>1, <2>2, WindowCommandFollows
<1>7. CASE OverviewCommand
  <2>1. st'.sets = st.sets
    BY <1>7, OverviewGrounded
  <2>2. QED
    BY <2>1, StepFollows DEF SameOrders
<1>8. CASE ResizeCommand
  <2>1. Spares(st, st', {})
    BY <1>8, ResizeMovesNothing DEF Grounded
  <2>2. DOMAIN st'.sets = DOMAIN st.sets /\ \A k \in DOMAIN st.sets : st'.sets[k] = st.sets[k]
    BY <2>1 DEF Spares, Affects
  <2>3. SameOrders(st, st')
    BY <2>2 DEF SameOrders
  <2>4. QED
    BY <2>3, StepFollows
<1>9. QED
  BY <1>2, <1>3, <1>4, <1>5, <1>6, <1>7, <1>8 DEF Next

\* Only the commands that move workspaces reorder them: occupied workspaces that
\* stay on a monitor stay in the same order, whatever empties come and go.
THEOREM OrderStays == Spec => OrderIsKept
<1>1. ASSUME InOrder(st), Grounded(st), InOrder(st)', [Next]_vars
      PROVE  [\/ \A m \in Known(st) :
                   LET was == Occupied(st, m)
                       is  == Occupied(st', m)
                   IN  Without(was, ToSet(was) \ ToSet(is)) = Without(is, ToSet(is) \ ToSet(was))
              \/ \E forward \in BOOLEAN, n \in MonitorRequests : CmdMoveWorkspace(forward, n)]_vars
  <2>1. SUFFICES ASSUME Next, ~ \E forward \in BOOLEAN, n \in MonitorRequests : CmdMoveWorkspace(forward, n),
                        NEW m \in Known(st)
                 PROVE  LET was == Occupied(st, m)
                            is  == Occupied(st', m)
                        IN  Without(was, ToSet(was) \ ToSet(is)) = Without(is, ToSet(is) \ ToSet(was))
    BY <1>1
  <2>2. OccupiedFollow(st, st')
    BY <1>1, <2>1, NextFollows
  <2>3. Sound(st) /\ Sound(st') /\ m \in DOMAIN st.sets
    BY <1>1 DEF InOrder, Known
  <2>4. QED
    BY <2>2, <2>3, FollowingKeepsOrder
<1>2. QED
  BY <1>1, StoreIsGrounded, PTL DEF Spec, OrderIsKept
---------------------------------------------------------------------------
(* A window that leaves the strip and comes back.                          *)

\* A sequence without the element at position i.
LEMMA WithoutOne ==
  ASSUME NEW T, NEW q \in Seq(T), IsInjective(q), NEW i \in DOMAIN q
  PROVE  Without(q, {q[i]}) = [j \in 1..(Len(q) - 1) |-> IF j < i THEN q[j] ELSE q[j + 1]]
<1> DEFINE n == Len(q)
           v == [j \in 1..(n - 1) |-> IF j < i THEN q[j] ELSE q[j + 1]]
           w == Without(q, {q[i]})
<1>1. n \in Nat /\ DOMAIN q = 1..n /\ i \in 1..n /\ n - 1 \in Nat
  OBVIOUS
<1>2. \A j \in 1..n : q[j] \in T
  OBVIOUS
<1>3. \A a, b \in 1..n : q[a] = q[b] => a = b
  BY <1>1 DEF IsInjective
<1>4. \A j \in 1..(n - 1) : j \in 1..n /\ j + 1 \in 1..n
  BY <1>1
<1>5. v \in Seq(T) /\ DOMAIN v = 1..(n - 1)
  BY <1>1, <1>2, <1>4
<1>6. \A j \in 1..(n - 1) : v[j] = IF j < i THEN q[j] ELSE q[j + 1]
  OBVIOUS
<1> HIDE DEF n, v
<1>7. IsInjective(v)
  BY <1>1, <1>3, <1>4, <1>5, <1>6 DEF IsInjective
<1>8. \A k \in 1..n : k # i => \E j \in 1..(n - 1) : v[j] = q[k] /\ (j = k \/ j = k - 1)
  <2>1. SUFFICES ASSUME NEW k \in 1..n, k # i
                 PROVE  \E j \in 1..(n - 1) : v[j] = q[k] /\ (j = k \/ j = k - 1)
    OBVIOUS
  <2>2. CASE k < i
    <3>1. k \in 1..(n - 1)
      BY <1>1, <2>2
    <3>2. QED
      BY <1>6, <2>2, <3>1
  <2>3. CASE i < k
    <3>1. k - 1 \in 1..(n - 1) /\ ~ (k - 1 < i) /\ (k - 1) + 1 = k
      BY <1>1, <2>3
    <3>2. v[k - 1] = q[k]
      BY <1>6, <3>1
    <3>3. QED
      BY <3>1, <3>2
  <2>4. QED
    BY <1>1, <2>1, <2>2, <2>3
<1>9. ToSet(v) = ToSet(q) \ {q[i]}
  <2>1. ASSUME NEW j \in 1..(n - 1) PROVE v[j] \in ToSet(q) /\ v[j] # q[i]
    <3>1. \E k \in 1..n : v[j] = q[k] /\ k # i
      BY <1>1, <1>4, <1>6
    <3>2. QED
      BY <1>1, <1>3, <3>1 DEF ToSet
  <2>2. ASSUME NEW e \in ToSet(q), e # q[i] PROVE e \in ToSet(v)
    <3>1. PICK k \in 1..n : q[k] = e
      BY <1>1 DEF ToSet
    <3>2. QED
      BY <1>5, <1>8, <2>2, <3>1 DEF ToSet
  <2>3. \A e \in ToSet(v) : \E j \in 1..(n - 1) : v[j] = e
    BY <1>5 DEF ToSet
  <2>4. QED
    BY <2>1, <2>2, <2>3
<1>10. w \in Seq(T) /\ IsInjective(w) /\ ToSet(w) = ToSet(q) \ {q[i]}
  BY WithoutKeeps
<1>11. ASSUME NEW a, NEW b, Before(w, a, b) PROVE Before(v, a, b)
  <2>1. Before(q, a, b) /\ a # q[i] /\ b # q[i]
    BY <1>11, WithoutBefore
  <2>2. PICK k \in 1..n, l \in 1..n : k < l /\ q[k] = a /\ q[l] = b
    BY <1>1, <2>1 DEF Before
  <2>3. PICK j \in 1..(n - 1) : v[j] = a /\ (j = k \/ j = k - 1)
    BY <1>8, <2>1, <2>2
  <2>4. PICK p \in 1..(n - 1) : v[p] = b /\ (p = l \/ p = l - 1)
    BY <1>8, <2>1, <2>2
  <2>5. a # b
    BY <1>3, <2>2
  <2>6. j < p
    BY <1>1, <2>2, <2>3, <2>4, <2>5
  <2>7. QED
    BY <1>5, <2>3, <2>4, <2>6 DEF Before
<1> HIDE DEF w
<1>12. w = v
  BY <1>5, <1>7, <1>9, <1>10, <1>11, SameOrderSameSequence
<1>13. QED
  BY <1>12 DEF w, v, n

\* r is q with e at position i.
Exchanged(r, T, q, i, e) ==
  /\ r \in Seq(T) /\ DOMAIN r = DOMAIN q
  /\ \A k \in DOMAIN q : r[k] = IF k = i THEN e ELSE q[k]

\* Taking the element at position i out and putting e in its place.
LEMMA PutBack ==
  ASSUME NEW T, NEW q \in Seq(T), IsInjective(q), NEW i \in DOMAIN q, NEW e \in T
  PROVE  /\ Exchanged(InsertAt(Without(q, {q[i]}), i, e), T, q, i, e)
         /\ \/ i < Len(Without(q, {q[i]})) + 1
            \/ i = Len(Without(q, {q[i]})) + 1
<1> DEFINE n == Len(q)
           w == Without(q, {q[i]})
           r == InsertAt(w, i, e)
<1>1. n \in Nat /\ DOMAIN q = 1..n /\ i \in 1..n /\ n - 1 \in Nat
  OBVIOUS
<1>2. w = [j \in 1..(n - 1) |-> IF j < i THEN q[j] ELSE q[j + 1]]
  BY WithoutOne
<1>3. w \in Seq(T)
  BY WithoutKeeps
<1> HIDE DEF w, n
<1>4. Len(w) = n - 1 /\ \A j \in 1..(n - 1) : w[j] = IF j < i THEN q[j] ELSE q[j + 1]
  BY <1>1, <1>2, <1>3
<1>5. i \in 1..(Len(w) + 1)
  BY <1>1, <1>4
<1>6. Spliced(r, T, w, i, e)
  BY <1>3, <1>5, InsertAtReads
<1> HIDE DEF r
<1>7. r \in Seq(T) /\ Len(r) = n
  BY <1>1, <1>4, <1>6 DEF Spliced
<1>8. Len(w) + 1 = n
  BY <1>1, <1>4
<1>9. ASSUME NEW k \in 1..n PROVE r[k] = IF k = i THEN e ELSE q[k]
  <2>0. /\ k < i => r[k] = w[k]
        /\ k = i => r[k] = e
        /\ i < k => r[k] = w[k - 1]
    <3>1. k \in 1..(Len(w) + 1)
      BY <1>8
    <3>2. r[k] = IF k < i THEN w[k] ELSE IF k = i THEN e ELSE w[k - 1]
      BY <1>6, <3>1 DEF Spliced
    <3>3. k \in Nat /\ i \in Nat
      BY <1>1
    <3>4. QED
      BY <3>2, <3>3
  <2>1. CASE k < i
    <3>1. k \in 1..(n - 1)
      BY <1>1, <2>1
    <3>2. QED
      BY <1>1, <1>4, <2>0, <2>1, <3>1
  <2>2. CASE k = i
    BY <2>0, <2>2
  <2>3. CASE i < k
    <3>1. k - 1 \in 1..(n - 1) /\ ~ (k - 1 < i) /\ (k - 1) + 1 = k
      BY <1>1, <2>3
    <3>2. QED
      BY <1>1, <1>4, <2>0, <2>3, <3>1
  <2>4. QED
    BY <1>1, <2>1, <2>2, <2>3
<1>10. DOMAIN r = 1..n
  BY <1>1, <1>7
<1>11. i < Len(w) + 1 \/ i = Len(w) + 1
  BY <1>1, <1>5
<1>12. QED
  BY <1>1, <1>7, <1>9, <1>10, <1>11 DEF Exchanged, w, r

\* Two states with the same columns of the same windows in the same strips.
SameStrips(s, t) ==
  /\ DOMAIN t.columns = DOMAIN s.columns
  /\ \A k \in DOMAIN s.columns : t.columns[k].wins = s.columns[k].wins
  /\ DOMAIN t.workspaces = DOMAIN s.workspaces
  /\ \A v \in DOMAIN s.workspaces : t.workspaces[v].cols = s.workspaces[v].cols

\* What is the same strip by strip is the same over two steps.
LEMMA SameStripsTransitive ==
  ASSUME NEW s, NEW t, NEW u, SameStrips(s, t), SameStrips(t, u)
  PROVE  SameStrips(s, u)
BY DEF SameStrips

\* The same strips have the same shape.
LEMMA SameStripsShape ==
  ASSUME NEW s, NEW L, Arranged(s, L), NEW t, SameStrips(s, t), NEW w \in DOMAIN s.workspaces
  PROVE  StripShape(t, w) = StripShape(s, w)
<1> DEFINE cols == s.workspaces[w].cols
<1>1. t.workspaces[w].cols = cols
  BY DEF SameStrips
<1>2. ASSUME NEW i \in DOMAIN cols PROVE t.columns[cols[i]].wins = s.columns[cols[i]].wins
  <2>1. cols[i] \in ToSet(cols)
    BY DEF ToSet
  <2>2. cols[i] \in DOMAIN s.columns
    BY <2>1 DEF Arranged, Placed, WorkspaceFits
  <2>3. QED
    BY <2>2 DEF SameStrips
<1> HIDE DEF cols
<1>3. \A i \in DOMAIN cols : ToSet(t.columns[cols[i]].wins) = ToSet(s.columns[cols[i]].wins)
  BY <1>2
<1>4. /\ StripShape(t, w) = [i \in DOMAIN cols |-> ToSet(t.columns[cols[i]].wins)]
      /\ StripShape(s, w) = [i \in DOMAIN cols |-> ToSet(s.columns[cols[i]].wins)]
  BY <1>1 DEF StripShape, cols
<1>5. QED
  BY <1>3, <1>4

\* Floating lists are no part of a strip.
LEMMA FloatingKeepsStrips ==
  ASSUME NEW s, NEW L, Arranged(s, L), NEW w \in DOMAIN s.workspaces, NEW x, NEW node
  PROVE  /\ SameStrips(s, LeaveFloating(s, w, x))
         /\ SameStrips(s, SetWindow(PushFloating(s, w, x), x, node))
<1>1. Shape(s) /\ s.workspaces[w] \in Workspace
  BY TypeLookups DEF Arranged
<1>2. ASSUME NEW flt, NEW t, t.columns = s.columns,
             t.workspaces = Put(s.workspaces, w, [s.workspaces[w] EXCEPT !.flt = flt])
      PROVE  SameStrips(s, t)
  BY <1>1, <1>2 DEF SameStrips, Put, Workspace
<1>3. /\ LeaveFloating(s, w, x).columns = s.columns
      /\ \E flt : LeaveFloating(s, w, x).workspaces
                    = Put(s.workspaces, w, [s.workspaces[w] EXCEPT !.flt = flt])
  BY <1>1 DEF LeaveFloating, SetWorkspace, Shape
<1> DEFINE t == SetWindow(PushFloating(s, w, x), x, node)
<1>4. /\ t.columns = s.columns
      /\ \E flt : t.workspaces = Put(s.workspaces, w, [s.workspaces[w] EXCEPT !.flt = flt])
  BY <1>1 DEF PushFloating, SetWindow, SetWorkspace, Shape
<1> HIDE DEF t
<1>5. SameStrips(s, LeaveFloating(s, w, x)) /\ SameStrips(s, t)
  BY <1>2, <1>3, <1>4
<1>6. QED
  BY <1>5 DEF t

\* The same strips of the same windows.
SameStripsAndWindows(s, t) == SameStrips(s, t) /\ t.windows = s.windows

\* Focusing a window leaves the strips as they are.
LEMMA FocusKeepsStrips ==
  ASSUME NEW s, Sound(s), Arranged(s, {}), NEW x \in DOMAIN s.windows, NEW w \in DOMAIN s.workspaces,
         NEW m, m = s.workspaces[w].mon, NEW c, c = s.windows[x].col
  PROVE  SameStripsAndWindows(s, FocusWindow(s, m, w, x, c))
<1>1. m \in DOMAIN s.sets /\ x \in DOMAIN s.windows \ {}
  BY SoundLookups
<1>2. FocusOnly(s, FocusWindow(s, m, w, x, c))
  BY <1>1, FocusWindowArranged
<1>3. QED
  BY <1>2 DEF FocusOnly, SameStrips, SameStripsAndWindows

\* A window that left its place, for a layer off the strip.
WentAway(s, t, x, to) ==
  /\ InOrder(t)
  /\ SameStrips(DetachWindow(s, x), t)
  /\ DOMAIN t.workspaces = DOMAIN s.workspaces
  /\ x \in DOMAIN t.windows
  /\ t.windows[x].layer = to /\ t.windows[x].col = None
  /\ t.windows[x].ws = s.windows[x].ws
  /\ t.windows[x].restore = PlaceOf(s, x)

\* Leaving the strip takes the window out of it and notes where it was.
LEMMA LeavePlaceGoesAway ==
  ASSUME NEW s, InOrder(s), NEW x \in DOMAIN s.windows, s.windows[x].ws \in DOMAIN s.workspaces,
         NEW to \in Layers
  PROVE  WentAway(s, LeavePlace(s, x, to), x, to)
<1> DEFINE w    == s.windows[x].ws
           m    == s.workspaces[w].mon
           d    == DetachWindow(s, x)
           p    == PlaceOf(s, x)
           node == [s.windows[x] EXCEPT
                      !.layer = to, !.col = None, !.flt = to = "Floating",
                      !.full = to = "Fullscreen", !.restore = p]
           t    == SetWindow(PushFloating(d, w, x), x, node)
           b    == LeavePlace(s, x, to)
<1>1. b = FocusWindow(t, m, w, x, None)
  BY DEF LeavePlace
<1>2. InOrder(b)
  BY LeavePlaceInOrder
<1>3. Sound(s) /\ Arranged(s, {}) /\ w \in DOMAIN s.workspaces
  BY DEF InOrder
<1>4. s.windows[x] \in Window /\ x \in Nat
  BY <1>3, TypeLookups DEF Arranged
<1>5. p \in RestoreTarget /\ p.ws = w /\ p.layer \in Layers /\ p.idx \in Option(Nat \ {0})
  BY <1>3, <1>4, PlaceOfFits DEF Window
<1> HIDE DEF p
<1>6. node \in Window /\ node.ws = w /\ node.col = None /\ node.restore = p /\ node.layer = to
  <2> DEFINE f1 == to = "Floating"
             f2 == to = "Fullscreen"
  <2>1. f1 \in BOOLEAN /\ f2 \in BOOLEAN
    OBVIOUS
  <2> HIDE DEF f1, f2
  <2>2. [s.windows[x] EXCEPT !.layer = to, !.col = None, !.flt = f1,
                             !.full = f2, !.restore = p] = node
    BY DEF f1, f2
  <2>3. QED
    BY <1>4, <1>5, <2>1, <2>2 DEF Window, Option
<1> HIDE DEF node
<1>7. RestoreFits(node)
  <2>1. p.idx # 0
    BY <1>5, NoneIsNoId DEF Option
  <2>2. QED
    BY <1>5, <1>6, <2>1 DEF RestoreFits
<1>8. Arranged(d, {x}) /\ Leaves(s, d)
  BY <1>3, DetachArranged
<1>9. w \in DOMAIN d.workspaces /\ DOMAIN d.workspaces = DOMAIN s.workspaces
  BY <1>3, <1>8 DEF Leaves
<1> HIDE DEF d
<1>10. Arranged(t, {}) /\ Enters(d, t, x, node)
  BY <1>4, <1>6, <1>7, <1>8, <1>9, PushArranged
<1>11. SameStrips(d, t)
  BY <1>8, <1>9, FloatingKeepsStrips
<1> HIDE DEF t
<1>12. Sound(t)
  <2>1. Alike(s, d)
    BY <1>3, <1>8 DEF Arranged, Leaves, Alike
  <2>2. Alike(d, t)
    BY <1>10, EntersAlike
  <2>3. QED
    BY <1>3, <2>1, <2>2, AlikeTransitive, AlikeSound
<1>13. x \in DOMAIN t.windows /\ t.windows[x] = node
  BY <1>10 DEF Enters, Put
<1>14. w \in DOMAIN t.workspaces /\ m = t.workspaces[w].mon
  BY <1>3, <1>8, <1>9, <1>10 DEF Enters, Leaves
<1>15. SameStrips(t, b) /\ b.windows = t.windows
  <2>1. None = t.windows[x].col
    BY <1>6, <1>13
  <2>2. SameStripsAndWindows(t, FocusWindow(t, m, w, x, None))
    BY <1>10, <1>12, <1>13, <1>14, <2>1, FocusKeepsStrips
  <2>3. QED
    BY <1>1, <2>2 DEF SameStripsAndWindows
<1> HIDE DEF b
<1>16. SameStrips(d, b)
  BY <1>11, <1>15, SameStripsTransitive
<1>17. DOMAIN b.workspaces = DOMAIN s.workspaces
  BY <1>9, <1>16 DEF SameStrips
<1>18. WentAway(s, b, x, to)
  BY <1>2, <1>6, <1>13, <1>15, <1>16, <1>17 DEF WentAway, d, p
<1>19. QED
  BY <1>18 DEF b

\* A window that goes back where PlaceOf found it restores the shape of its strip:
\* its column is there still, or a new one takes the position of the old.
LEMMA RestoredInPlace ==
  ASSUME NEW s, Arranged(s, {}), NEW x \in DOMAIN s.windows, NEW w \in DOMAIN s.workspaces,
         w = s.windows[x].ws, NEW c, c = s.windows[x].col, c # None,
         NEW e, Arranged(e, {x}), SameStrips(DetachWindow(s, x), e),
         NEW p, p.ws = w, p.col = c, p.layer = "Tiled",
         p.idx = Position(s.workspaces[w].cols, c)
  PROVE  LET u == RestoreWindow(e, x, p)
         IN  u.col # None /\ StripShape(u.st, w) = StripShape(s, w)
<1> DEFINE cols == s.workspaces[w].cols
           wins(k) == s.columns[k].wins
           i == Position(cols, c)
           u == RestoreWindow(e, x, p)
           d == DetachWindow(s, x)
<1>1. c \in DOMAIN s.columns /\ x \in ToSet(s.columns[c].wins)
  BY DEF Arranged, Placed, WindowFits
<1>2. c \in ToSet(cols)
  <2>1. ColumnFits(s, c, {})
    BY <1>1 DEF Arranged, Placed
  <2>2. QED
    BY <1>1, <2>1 DEF ColumnFits
<1>3. /\ cols \in Seq(Nat) /\ IsInjective(cols)
      /\ \A k \in DOMAIN cols : cols[k] \in DOMAIN s.columns
  <2>1. cols \in Seq(Nat)
    BY ListTypes DEF Arranged
  <2>2. WorkspaceFits(s, w, {})
    BY DEF Arranged, Placed
  <2>3. ASSUME NEW k \in DOMAIN cols PROVE cols[k] \in DOMAIN s.columns
    <3>1. cols[k] \in ToSet(cols)
      BY DEF ToSet
    <3>2. QED
      BY <2>2, <3>1 DEF WorkspaceFits
  <2>4. QED
    BY <2>1, <2>2, <2>3 DEF WorkspaceFits
<1>4. i \in DOMAIN cols /\ cols[i] = c
  BY <1>2, <1>3, PositionFinds
<1>5. StripShape(s, w) = [k \in DOMAIN cols |-> ToSet(wins(cols[k]))]
  BY DEF StripShape
<1>6. /\ \A k \in DOMAIN s.columns : k \in Nat /\ s.columns[k] \in Column
      /\ \A k \in DOMAIN e.columns : k \in Nat /\ e.columns[k] \in Column
      /\ \A v \in DOMAIN e.workspaces : e.workspaces[v] \in Workspace
      /\ Shape(s) /\ Shape(e) /\ s.workspaces[w] \in Workspace
  BY TypeLookups DEF Arranged
<1>7. c # None /\ p.idx = i /\ i \in Nat
  <2>1. p.idx = i
    BY Zenon
  <2>2. DOMAIN cols \subseteq Nat
    <3>1. cols \in Seq(Nat)
      BY <1>3
    <3> HIDE DEF cols
    <3>2. QED
      BY <3>1
  <2>3. QED
    BY <1>4, <2>1, <2>2
<1> HIDE DEF i
<1>8. CASE ToSet(wins(c)) \subseteq {x}
  <2> DEFINE left == Without(cols, {c})
             f == FreshColumn(e)
             at == InsertPosition(e, w, i, None, FALSE)
             r == InsertAt(left, i, f)
  <2>1. d = LeaveOwnColumn(s, w, c)
    BY <1>8 DEF DetachWindow
  <2>2. /\ d.columns = Drop(s.columns, {c})
        /\ d.workspaces = Put(s.workspaces, w, [s.workspaces[w] EXCEPT !.cols = left])
    BY <1>6, <2>1 DEF LeaveOwnColumn, SetWorkspace, Shape
  <2>3. w \in DOMAIN d.workspaces /\ d.workspaces[w].cols = left
    BY <1>6, <2>2 DEF Put, Workspace
  <2>4. /\ DOMAIN d.columns = DOMAIN s.columns \ {c}
        /\ \A k \in DOMAIN s.columns \ {c} : d.columns[k] = s.columns[k]
    BY <2>2 DEF Drop
  <2>5. w \in DOMAIN e.workspaces /\ e.workspaces[w].cols = left
    BY <2>3 DEF SameStrips, d
  <2>6. /\ DOMAIN e.columns = DOMAIN s.columns \ {c}
        /\ \A k \in DOMAIN s.columns \ {c} : e.columns[k].wins = wins(k)
    <3>1. /\ DOMAIN e.columns = DOMAIN d.columns
          /\ \A k \in DOMAIN d.columns : e.columns[k].wins = d.columns[k].wins
      BY DEF SameStrips, d
    <3> HIDE DEF d, left
    <3>2. \A k \in DOMAIN s.columns \ {c} : e.columns[k].wins = wins(k)
      <4> TAKE k \in DOMAIN s.columns \ {c}
      <4>1. k \in DOMAIN d.columns /\ d.columns[k] = s.columns[k]
        BY <2>4
      <4>2. e.columns[k].wins = d.columns[k].wins
        BY <3>1, <4>1
      <4>3. QED
        BY <4>1, <4>2
    <3>3. DOMAIN e.columns = DOMAIN s.columns \ {c}
      BY <2>4, <3>1
    <3>4. QED
      BY <3>2, <3>3
  <2>7. c \notin ToSet(left)
    <3>1. cols \in Seq(Nat)
      BY <1>3
    <3> HIDE DEF cols
    <3>2. ToSet(Without(cols, {c})) = ToSet(cols) \ {c}
      BY <3>1, WithoutKeeps
    <3>3. QED
      BY <3>2 DEF left
  <2>8. f \in Nat /\ f \notin DOMAIN e.columns
    BY FreshColumnIsNew
  <2> HIDE DEF f, left, d
  <2>9. /\ r \in Seq(Nat) /\ DOMAIN r = DOMAIN cols
        /\ \A k \in DOMAIN cols : r[k] = IF k = i THEN f ELSE cols[k]
        /\ i < Len(left) + 1 \/ i = Len(left) + 1
    <3>1. left = Without(cols, {cols[i]})
      BY <1>4 DEF left
    <3> HIDE DEF cols, r
    <3>2. cols \in Seq(Nat) /\ IsInjective(cols) /\ i \in DOMAIN cols /\ f \in Nat
      BY <1>3, <1>4, <2>8
    <3>3. /\ Exchanged(InsertAt(Without(cols, {cols[i]}), i, f), Nat, cols, i, f)
          /\ \/ i < Len(Without(cols, {cols[i]})) + 1
             \/ i = Len(Without(cols, {cols[i]})) + 1
      BY <3>2, PutBack
    <3>4. Exchanged(r, Nat, cols, i, f) /\ (i < Len(left) + 1 \/ i = Len(left) + 1)
      BY <3>1, <3>3 DEF r
    <3>5. QED
      BY <3>4 DEF Exchanged
  <2>10. at = i
    <3>1. at = IF i < Len(left) + 1 THEN i ELSE Len(left) + 1
      BY <1>7, <2>5, NoneIsNoId DEF InsertPosition
    <3>2. QED
      BY <2>9, <3>1
  <2>11. /\ u.st = InsertNewColumn(e, w, x, DefaultMode, at)
         /\ u.col = f
    BY <1>7, <2>5, <2>7 DEF RestoreWindow, f
  <2> HIDE DEF at
  <2>12. /\ u.st.columns = Put(e.columns, f, NewColumn(DefaultMode, x))
         /\ u.st.workspaces = Put(e.workspaces, w, [e.workspaces[w] EXCEPT !.cols = r])
    BY <1>6, <2>5, <2>10, <2>11 DEF InsertNewColumn, SetWorkspace, SetColumn, Shape, f
  <2> HIDE DEF u, r
  <2>13. u.st.workspaces[w].cols = r
    BY <1>6, <2>5, <2>12 DEF Put, Workspace
  <2>14. ASSUME NEW k \in DOMAIN cols PROVE ToSet(u.st.columns[r[k]].wins) = ToSet(wins(cols[k]))
    <3>1. CASE k = i
      <4>0. r[k] = f /\ u.st.columns[f] = NewColumn(DefaultMode, x)
        BY <2>9, <2>12, <3>1 DEF Put
      <4>1. u.st.columns[r[k]].wins = <<x>>
        BY <4>0 DEF NewColumn
      <4>2. ToSet(<<x>>) = {x}
        BY DEF ToSet
      <4>3. ToSet(wins(cols[k])) = {x}
        BY <1>1, <1>4, <1>8, <3>1
      <4>4. QED
        BY <4>1, <4>2, <4>3
    <3>2. CASE k # i
      <4>1. cols[k] # c /\ cols[k] \in DOMAIN s.columns
        BY <1>3, <1>4, <3>2 DEF IsInjective
      <4>2. r[k] = cols[k] /\ cols[k] \in DOMAIN e.columns
        BY <2>6, <2>9, <3>2, <4>1
      <4>3. u.st.columns[r[k]].wins = wins(cols[k])
        <5>1. u.st.columns[r[k]] = e.columns[cols[k]]
          <6>1. cols[k] # f
            BY <2>8, <4>2
          <6>2. u.st.columns[cols[k]] = e.columns[cols[k]]
            BY <2>12, <4>2, <6>1 DEF Put
          <6>3. QED
            BY <4>2, <6>2
        <5>2. QED
          BY <2>6, <4>1, <5>1
      <4>4. QED
        BY <4>3
    <3>3. QED
      BY <3>1, <3>2
  <2>15. StripShape(u.st, w) = [k \in DOMAIN cols |-> ToSet(u.st.columns[r[k]].wins)]
    BY <2>9, <2>13 DEF StripShape
  <2> HIDE DEF cols, wins
  <2>16. StripShape(u.st, w) = StripShape(s, w)
    BY <1>5, <2>14, <2>15
  <2>17. QED
    BY <2>8, <2>11, <2>16, NoneIsNoId DEF u
<1>9. CASE ~ (ToSet(wins(c)) \subseteq {x})
  <2> DEFINE left == Without(wins(c), {x})
             now == IF x \in ToSet(e.columns[c].wins) THEN e.columns[c].wins
                    ELSE Append(e.columns[c].wins, x)
  <2>1. d = LeaveSharedColumn(s, c, x)
    BY <1>7, <1>9 DEF DetachWindow
  <2>2. /\ d.workspaces = s.workspaces
        /\ \E tab, active : d.columns = Put(s.columns, c, [s.columns[c] EXCEPT
                                 !.wins = left, !.tab = tab, !.active = active])
    <3> DEFINE row == s.columns[c]
               tab == IF row.tab = x THEN left[1] ELSE row.tab
               active == IF row.active = x THEN tab ELSE row.active
    <3>1. d = SetColumn(s, c, [row EXCEPT !.wins = left, !.tab = tab, !.active = active])
      BY <2>1 DEF LeaveSharedColumn
    <3> HIDE DEF tab, active, left, d
    <3>2. QED
      BY <1>6, <3>1 DEF SetColumn, Shape
  <2>3. /\ DOMAIN d.columns = DOMAIN s.columns
        /\ d.columns[c].wins = left
        /\ \A k \in DOMAIN s.columns \ {c} : d.columns[k] = s.columns[k]
    BY <1>1, <1>6, <2>2 DEF Put, Column
  <2>4. w \in DOMAIN e.workspaces /\ e.workspaces[w].cols = cols
    BY <2>2 DEF SameStrips, d
  <2>5. /\ DOMAIN e.columns = DOMAIN s.columns
        /\ e.columns[c].wins = left
        /\ \A k \in DOMAIN s.columns \ {c} : e.columns[k].wins = wins(k)
    BY <1>1, <2>3 DEF SameStrips, d
  <2>6. left \in Seq(Nat) /\ ToSet(left) = ToSet(wins(c)) \ {x}
    <3>1. wins(c) \in Seq(Nat)
      BY <1>1, <1>6 DEF Column
    <3>2. QED
      BY <3>1, WithoutKeeps
  <2>7. x \in Nat
    BY TypeLookups DEF Arranged
  <2> HIDE DEF left, d
  <2>8. now = Append(left, x)
    BY <2>5, <2>6
  <2>9. ToSet(now) = ToSet(wins(c))
    <3>1. ToSet(Append(left, x)) = ToSet(left) \union {x}
      BY <2>6, <2>7, AppendAdds
    <3>2. QED
      BY <1>1, <2>6, <2>8, <3>1
  <2>10. u.st = JoinColumn(e, c, x) /\ u.col = c
    BY <1>2, <2>4 DEF RestoreWindow
  <2>11. /\ u.st.workspaces = e.workspaces
         /\ \E tab : u.st.columns = Put(e.columns, c, [e.columns[c] EXCEPT !.wins = now, !.tab = tab])
    BY <1>6, <2>10 DEF JoinColumn, SetColumn, Shape
  <2> HIDE DEF u, now
  <2>12. /\ u.st.columns[c].wins = now
         /\ \A k \in DOMAIN e.columns \ {c} : u.st.columns[k] = e.columns[k]
    BY <1>1, <1>6, <2>5, <2>11 DEF Put, Column
  <2>13. ASSUME NEW k \in DOMAIN cols
         PROVE  ToSet(u.st.columns[cols[k]].wins) = ToSet(wins(cols[k]))
    <3>1. CASE cols[k] = c
      BY <2>9, <2>12, <3>1
    <3>2. CASE cols[k] # c
      <4>1. cols[k] \in DOMAIN s.columns \ {c} /\ cols[k] \in DOMAIN e.columns \ {c}
        BY <1>3, <2>5, <3>2
      <4>2. u.st.columns[cols[k]].wins = wins(cols[k])
        BY <2>5, <2>12, <4>1
      <4>3. QED
        BY <4>2
    <3>3. QED
      BY <3>1, <3>2
  <2>14. StripShape(u.st, w) = [k \in DOMAIN cols |-> ToSet(u.st.columns[cols[k]].wins)]
    BY <2>4, <2>11 DEF StripShape
  <2> HIDE DEF cols, wins
  <2>15. StripShape(u.st, w) = StripShape(s, w)
    BY <1>5, <2>13, <2>14
  <2>16. QED
    BY <1>7, <2>10, <2>15 DEF u
<1>10. QED
  BY <1>8, <1>9

\* Where a tiled window was.
LEMMA PlaceOfTiled ==
  ASSUME NEW s, InOrder(s), NEW x \in DOMAIN s.windows, IsTiled(s, x)
  PROVE  LET p == PlaceOf(s, x)
             w == s.windows[x].ws
         IN  /\ w \in DOMAIN s.workspaces
             /\ p.ws = w /\ p.col = s.windows[x].col /\ p.layer = "Tiled"
             /\ p.idx = Position(s.workspaces[w].cols, s.windows[x].col)
             /\ p.idx \in Option(Nat \ {0}) /\ p # NoRestore
<1> DEFINE w == s.windows[x].ws
           c == s.windows[x].col
           p == PlaceOf(s, x)
<1>1. Arranged(s, {}) /\ c # None /\ s.windows[x].layer = "Tiled"
  BY DEF InOrder, IsTiled
<1>2. c \in DOMAIN s.columns /\ x \in ToSet(s.columns[c].wins)
  BY <1>1 DEF Arranged, Placed, WindowFits
<1>3. w \in DOMAIN s.workspaces
  BY <1>1, <1>2 DEF Arranged, Placed, ColumnFits
<1>4. p.idx \in Option(Nat \ {0})
  BY <1>1, <1>3, PlaceOfFits
<1>5. /\ p.ws = w /\ p.col = c /\ p.layer = "Tiled"
      /\ p.idx = Position(s.workspaces[w].cols, c)
  BY <1>1 DEF PlaceOf
<1>6. w # None
  BY <1>1, <1>3, TypeLookups, NoneIsNoId DEF Arranged
<1> HIDE DEF p
<1>7. p # NoRestore
  BY <1>5, <1>6 DEF NoRestore
<1>8. QED
  BY <1>3, <1>4, <1>5, <1>7 DEF p

\* A tiled window that went away comes back to its place.
LEMMA ComesBackInPlace ==
  ASSUME NEW s, InOrder(s), NEW x \in DOMAIN s.windows, IsTiled(s, x),
         NEW L \in {"Floating", "Fullscreen"}, NEW t, WentAway(s, t, x, L)
  PROVE  LET b == ReturnToPlace(t, x, L)
             w == s.windows[x].ws
         IN  /\ InOrder(b) /\ w \in DOMAIN b.workspaces
             /\ IsTiled(b, x) /\ StripShape(b, w) = StripShape(s, w)
<1> DEFINE w    == s.windows[x].ws
           m    == t.workspaces[w].mon
           p    == PlaceOf(s, x)
           e    == DetachWindow(t, x)
           u    == RestoreWindow(e, x, p)
           c    == u.col
           node == Returned(t.windows[x], L, "Tiled", c)
           v    == SetWindow(u.st, x, node)
           b    == ReturnToPlace(t, x, L)
<1>1. /\ w \in DOMAIN s.workspaces
      /\ p.ws = w /\ p.col = s.windows[x].col /\ p.layer = "Tiled"
      /\ p.idx = Position(s.workspaces[w].cols, s.windows[x].col)
      /\ p.idx \in Option(Nat \ {0}) /\ p # NoRestore
  BY PlaceOfTiled
<1>2. Arranged(s, {}) /\ s.windows[x].col # None
  BY DEF InOrder, IsTiled
<1>3. /\ InOrder(t) /\ Sound(t) /\ Arranged(t, {})
      /\ SameStrips(DetachWindow(s, x), t)
      /\ DOMAIN t.workspaces = DOMAIN s.workspaces
      /\ x \in DOMAIN t.windows
      /\ t.windows[x].layer = L /\ t.windows[x].col = None
      /\ t.windows[x].ws = w /\ t.windows[x].restore = p
  BY DEF WentAway, InOrder
<1>4. t.windows[x] \in Window /\ x \in Nat /\ x # None
  BY <1>3, TypeLookups, NoneIsNoId DEF Arranged
<1>5. RestoreOf(t, x) = p
  BY <1>1, <1>3 DEF RestoreOf
<1>6. b = FocusWindow(v, m, w, x, c)
  BY <1>1, <1>3, <1>5 DEF ReturnToPlace
<1>7. InOrder(b)
  BY <1>1, <1>3, ReturnToPlaceInOrder
<1> HIDE DEF p, b
<1>8. e = LeaveFloating(t, w, x)
  BY <1>3 DEF DetachWindow
<1>9. Arranged(e, {x}) /\ Leaves(t, e)
  BY <1>1, <1>3, DetachArranged
<1>10. SameStrips(t, e)
  BY <1>1, <1>3, <1>8, FloatingKeepsStrips
<1> HIDE DEF e
<1>11. SameStrips(DetachWindow(s, x), e)
  BY <1>3, <1>10, SameStripsTransitive
<1>12. c # None /\ StripShape(u.st, w) = StripShape(s, w)
  BY <1>1, <1>2, <1>9, <1>11, RestoredInPlace
<1>13. w \in DOMAIN e.workspaces
  BY <1>1, <1>3, <1>9 DEF Leaves
<1>14. c \in Option(Nat) /\ c = RestoreWindow(e, x, p).col
  BY <1>1, <1>9, <1>13, RestoredColumnType
<1> HIDE DEF c
<1>15. /\ node \in Window /\ node.ws = w /\ node.col = c /\ node.restore = NoRestore
       /\ node.layer = "Tiled" /\ node.full = FALSE /\ node.flt = FALSE
  <2>1. node = [t.windows[x] EXCEPT !.layer = "Tiled", !.col = c, !.full = FALSE,
                                    !.restore = NoRestore, !.flt = FALSE]
    BY DEF Returned
  <2>2. NoRestore \in RestoreTarget
    BY DEF NoRestore, RestoreTarget, Option
  <2> HIDE DEF node
  <2>3. QED
    BY <1>3, <1>4, <1>14, <2>1, <2>2 DEF Window, Layers
<1> HIDE DEF node
<1>16. Arranged(v, {}) /\ Enters(e, v, x, node)
  <2>1. p.layer \in Layers
    BY <1>1 DEF Layers
  <2>2. QED
    BY <1>1, <1>4, <1>9, <1>13, <1>14, <1>15, <2>1, RestoreArranged
<1>17. v.columns = u.st.columns /\ v.workspaces = u.st.workspaces
  <2>1. DOMAIN v = DOMAIN u.st
    BY DEF SetWindow
  <2>2. {"columns", "workspaces"} \subseteq DOMAIN u.st
    BY <1>16, <2>1 DEF Arranged, Shape
  <2>3. QED
    BY <2>2 DEF SetWindow
<1>18. StripShape(v, w) = StripShape(s, w)
  BY <1>12, <1>17 DEF StripShape
<1> HIDE DEF v, u
<1>19. Sound(v)
  <2>1. Alike(t, e)
    BY <1>3, <1>9 DEF Arranged, Leaves, Alike
  <2>2. Alike(e, v)
    BY <1>16, EntersAlike
  <2>3. QED
    BY <1>3, <2>1, <2>2, AlikeTransitive, AlikeSound
<1>20. x \in DOMAIN v.windows /\ v.windows[x] = node
  BY <1>16 DEF Enters, Put
<1>21. w \in DOMAIN v.workspaces /\ m = v.workspaces[w].mon
  BY <1>9, <1>13, <1>16 DEF Enters, Leaves
<1>22. SameStrips(v, b) /\ b.windows = v.windows
  <2>1. c = v.windows[x].col
    BY <1>15, <1>20
  <2>2. SameStripsAndWindows(v, FocusWindow(v, m, w, x, c))
    BY <1>16, <1>19, <1>20, <1>21, <2>1, FocusKeepsStrips
  <2>3. QED
    BY <1>6, <2>2 DEF SameStripsAndWindows
<1>23. StripShape(b, w) = StripShape(s, w)
  BY <1>16, <1>18, <1>21, <1>22, SameStripsShape
<1>24. IsTiled(b, x)
  BY <1>4, <1>12, <1>15, <1>20, <1>22 DEF IsTiled
<1>25. w \in DOMAIN b.workspaces
  BY <1>21, <1>22 DEF SameStrips
<1>26. QED
  BY <1>7, <1>23, <1>24, <1>25 DEF b

\* Toggling a layer on and off again.
LEMMA TwoTogglesReturn ==
  ASSUME NEW s, InOrder(s), NEW x \in DOMAIN s.windows, IsTiled(s, x),
         NEW L \in {"Floating", "Fullscreen"}
  PROVE  LET there == ToggleLayer(s, x, L)
         IN  ReturnsToItsPlace(s, x, there, ToggleLayer(there.st, x, L))
<1> DEFINE w == s.windows[x].ws
           t == LeavePlace(s, x, L)
           b == ReturnToPlace(t, x, L)
           there == ToggleLayer(s, x, L)
<1>1. /\ x # None /\ L # "Tiled" /\ L \in Layers /\ s.windows[x].layer = "Tiled"
      /\ Arranged(s, {})
  BY DEF IsTiled, Layers, InOrder
<1>2. w \in DOMAIN s.workspaces /\ PlaceOf(s, x).ws = w /\ PlaceOf(s, x) # NoRestore
  BY PlaceOfTiled
<1>3. there = Settle(t, w)
  BY <1>1, <1>2 DEF ToggleLayer, CommandWindow
<1>4. WentAway(s, t, x, L)
  BY <1>1, <1>2, LeavePlaceGoesAway
<1>5. /\ InOrder(b) /\ w \in DOMAIN b.workspaces
      /\ IsTiled(b, x) /\ StripShape(b, w) = StripShape(s, w)
  BY <1>4, ComesBackInPlace
<1> HIDE DEF t
<1>6. /\ Arranged(t, {}) /\ w \in DOMAIN t.workspaces /\ x \in DOMAIN t.windows
      /\ t.windows[x].layer = L /\ t.windows[x].ws = w
      /\ t.windows[x].restore = PlaceOf(s, x)
  BY <1>2, <1>4 DEF WentAway, InOrder
<1>7. Settle(t, w).ok /\ Settle(t, w).st = t
  BY <1>6, LaysOut
<1>8. RestoreOf(t, x).ws \in DOMAIN t.workspaces
  BY <1>2, <1>6 DEF RestoreOf
<1>9. ToggleLayer(t, x, L) = Settle(b, w)
  BY <1>1, <1>6, <1>8 DEF ToggleLayer, CommandWindow
<1> HIDE DEF b
<1>10. Settle(b, w).ok /\ Settle(b, w).st = b
  BY <1>5, LaysOut DEF InOrder
<1> HIDE DEF there
<1>11. there.ok /\ there.st = t
  BY <1>3, <1>7
<1>12. ReturnsToItsPlace(s, x, there, ToggleLayer(there.st, x, L))
  BY <1>5, <1>9, <1>10, <1>11 DEF ReturnsToItsPlace
<1>13. QED
  BY <1>12 DEF there

\* A window that is toggled to floating or to fullscreen and back is tiled again at
\* the same place of the strip, among the same neighbours.
THEOREM ModesAlwaysRoundTrip == Spec => []ModesRoundTrip
<1>1. ASSUME InOrder(st) PROVE ModesRoundTrip
  BY <1>1, TwoTogglesReturn DEF ModesRoundTrip, ToggleFloating, ToggleFullscreen
<1>2. QED
  BY <1>1, StoreIsInOrder, PTL
===========================================================================
