--------------------------- MODULE StateStore ---------------------------
(***************************************************************************)
(* The reducer of crates/wm-core/src/state_store*: every handler of        *)
(* StateStore::apply_event that changes the structure of the state, as an  *)
(* operator from a state to a result [st, ok, ws].  ok is FALSE when the   *)
(* handler, or the layout recomputation that dispatch runs on the affected *)
(* workspace ws, returns Err; st is the state left behind in both cases    *)
(* (the code does not roll back).                                          *)
(*                                                                         *)
(* Scrolling and widths are not modelled.  reveal_column_in_workspace,     *)
(* clamp_scroll_offset and recompute_workspace therefore appear only as    *)
(* their error condition, CanLayout, evaluated where a handler runs them   *)
(* last; where a handler goes on afterwards the workspace has just been    *)
(* looked up.                                                              *)
(***************************************************************************)
EXTENDS WmState

CONSTANTS NavOrder,         \* the monitors by position of their work areas
          ManagedBindings,  \* managed_monitor_bindings; {} manages them all
          DefaultMode       \* default_column_mode of the configuration

ASSUME NavOrderAssumption ==
  /\ NavOrder \in Seq(Monitors)
  /\ \A m \in Monitors : \E i \in DOMAIN NavOrder : NavOrder[i] = m
  /\ IsInjective(NavOrder)
ASSUME BindingsAssumption == ManagedBindings \subseteq Monitors
ASSUME DefaultModeAssumption == DefaultMode \in Modes

VARIABLES st,   \* WmState
          up    \* the daemon runs

Ok(s, w) == [st |-> s, ok |-> TRUE, ws |-> w]
Err(s)   == [st |-> s, ok |-> FALSE, ws |-> None]

\* recompute_workspace finds the workspace, its columns and their windows.
CanLayout(s, w) ==
  /\ w \in DOMAIN s.workspaces
  /\ \A i \in DOMAIN s.workspaces[w].cols :
       LET c == s.workspaces[w].cols[i]
       IN  c \in DOMAIN s.columns /\ ToSet(s.columns[c].wins) \subseteq DOMAIN s.windows
  /\ ToSet(s.workspaces[w].flt) \subseteq DOMAIN s.windows

\* The end of a handler that scrolls or lays out workspace w.
Settle(s, w) == IF CanLayout(s, w) THEN Ok(s, w) ELSE Err(s)

SetColumn(s, c, r)    == [s EXCEPT !.columns    = Put(s.columns, c, r)]
SetWindow(s, x, r)    == [s EXCEPT !.windows    = Put(s.windows, x, r)]
SetWorkspace(s, w, r) == [s EXCEPT !.workspaces = Put(s.workspaces, w, r)]

\* One step along a list of n entries, staying within it.
StepWithin(i, forward, n) ==
  IF forward THEN (IF i < n THEN i + 1 ELSE n) ELSE (IF i > 1 THEN i - 1 ELSE 1)

---------------------------------------------------------------------------
(* Lookups. *)

FocusedWindowIn(s, w) ==
  IF s.focus.win \in DOMAIN s.windows /\ s.windows[s.focus.win].ws = w
  THEN s.focus.win ELSE None

FocusedColumnIn(s, w) ==
  IF w \in DOMAIN s.workspaces /\ s.focus.col \in ToSet(s.workspaces[w].cols)
  THEN s.focus.col ELSE None

FullscreenFocusIn(s, w) ==
  LET x == FocusedWindowIn(s, w)
  IN  x # None /\ (s.windows[x].layer = "Fullscreen" \/ s.windows[x].full)

\* The restore target of the focused fullscreen window of workspace w.
FullscreenRestore(s, w) ==
  IF FullscreenFocusIn(s, w) /\ s.windows[s.focus.win].restore.ws = w
  THEN s.windows[s.focus.win].restore ELSE NoRestore

\* The column a discovered window goes next to.
DiscoveryAnchor(s, w) ==
  IF FocusedColumnIn(s, w) # None THEN FocusedColumnIn(s, w)
  ELSE IF FullscreenRestore(s, w).col \in ToSet(s.workspaces[w].cols)
       THEN FullscreenRestore(s, w).col
       ELSE None

\* The window a column shows (both selections are set while it has windows).
ColumnActiveWindow(col) == IF col.mode = "Tabbed" THEN col.tab ELSE col.active

Known(s) == DOMAIN s.sets

ExplicitlyManaged == ManagedBindings # {}
MonitorIsManaged(s, m) ==
  m \in Known(s) /\ (ExplicitlyManaged => m \in ManagedBindings)

\* The known monitors commands walk through, in navigation order.
\* Mistake: ordinary monitors are not skipped.
AnyMonitors(s) == Without(NavOrder, Monitors \ Known(s))

CommandMonitors(s) ==
  Without(NavOrder, {m \in Monitors : ~MonitorIsManaged(s, m)})

\* focused_monitor_id is set by the first add_monitor and never cleared, so
\* the code's fallback to the first monitor of the map is out of reach.
CommandMonitor(s, requested) ==
  IF requested # None THEN (IF requested \in Known(s) THEN requested ELSE None)
  ELSE IF MonitorIsManaged(s, s.focus.mon) THEN s.focus.mon
  ELSE IF CommandMonitors(s) # <<>> THEN CommandMonitors(s)[1] ELSE None

AdjacentMonitor(s, m, forward) ==
  LET order == CommandMonitors(s)
      i     == Position(order, m)
  IN  IF i = None THEN m ELSE order[StepWithin(i, forward, Len(order))]

\* active_workspace_id_for_commands
CommandWorkspace(s) ==
  IF s.focus.win \in DOMAIN s.windows /\ s.windows[s.focus.win].managed
  THEN s.windows[s.focus.win].ws
  ELSE LET m == IF CommandMonitor(s, None) # None THEN CommandMonitor(s, None)
                ELSE s.focus.mon
       IN  ActiveWorkspace(s, m)

CommandWindow(s, requested) == IF requested = None THEN s.focus.win ELSE requested

---------------------------------------------------------------------------
(* Building blocks: focus, overview selection, columns, floating layer. *)

\* Mistake: the mark stays where it was.
LeaveMark(s, m) == s

\* sync_overview_selection
SyncOverview(s, m) ==
  IF s.overview.open /\ s.overview.mon = m
  THEN [s EXCEPT !.overview.sel = ActiveWorkspace(s, m)]
  ELSE s

\* Mistake: the focused column is forgotten.
SetFocusOnly(s, m, x, c) ==
  [s EXCEPT !.focus = [s.focus EXCEPT !.mon = m, !.win = x]]

SetFocus(s, m, x, c) ==
  [s EXCEPT !.focus = [s.focus EXCEPT !.mon = m, !.win = x, !.col = c]]

\* A column selects window x, a workspace remembers its focus.
SelectInColumn(s, c, x) ==
  LET selected(r) == [r EXCEPT !.active = x, !.tab = IF r.mode = "Tabbed" THEN x ELSE r.tab]
  IN  [s EXCEPT !.columns = [k \in DOMAIN s.columns |->
                               IF k = c THEN selected(s.columns[k]) ELSE s.columns[k]]]

Remember(s, w, x, c) ==
  LET remembering(r) == [r EXCEPT !.remWin = x, !.remCol = c]
  IN  [s EXCEPT !.workspaces = [k \in DOMAIN s.workspaces |->
                                  IF k = w THEN remembering(s.workspaces[k])
                                  ELSE s.workspaces[k]]]

\* set_focus_to_window: column c may be None.
FocusWindow(s, m, w, x, c) ==
  SetFocus(PutActive(SelectInColumn(Remember(s, w, x, c), c, x), m, w), m, x, c)

\* set_active_workspace_without_focus
FocusNoWindow(s, m, w) == SetFocus(PutActive(s, m, w), m, None, None)

\* insert_new_column of window x before position at; its id is FreshColumn(s).
InsertNewColumn(s, w, x, mode, at) ==
  LET c == FreshColumn(s)
      r == s.workspaces[w]
  IN  SetWorkspace(SetColumn(s, c, NewColumn(mode, x)), w,
                   [r EXCEPT !.cols = InsertAt(r.cols, at, c)])

\* The insert position: the override (clipped), beside the anchor, or an end.
InsertPosition(s, w, override, anchor, before) ==
  LET cols == s.workspaces[w].cols
      end  == Len(cols) + 1
  IN  IF override # None THEN (IF override < end THEN override ELSE end)
      ELSE IF anchor \in ToSet(cols)
           THEN Position(cols, anchor) + (IF before THEN 0 ELSE 1)
           ELSE IF before THEN 1 ELSE end

JoinColumn(s, c, x) ==
  LET r == s.columns[c]
  IN  SetColumn(s, c, [r EXCEPT
        !.wins = IF x \in ToSet(r.wins) THEN r.wins ELSE Append(r.wins, x),
        !.tab  = IF r.mode = "Tabbed" THEN x ELSE r.tab])

\* push_window_to_floating_layer
PushFloating(s, w, x) ==
  LET r == s.workspaces[w]
  IN  SetWorkspace(s, w,
        [r EXCEPT !.flt = IF x \in ToSet(r.flt) THEN r.flt ELSE Append(r.flt, x)])

\* Mistake: the window stays in the floating list.
StayFloating(s, w, x) == s

\* detach_window_membership, its three cases.
LeaveFloating(s, w, x) ==
  LET r == s.workspaces[w]
  IN  SetWorkspace(s, w, [r EXCEPT !.flt = Without(r.flt, {x})])

\* Mistakes: the column keeps its tab, or the window.
LeaveOnTab(s, c, x) ==
  LET r == s.columns[c]
  IN  SetColumn(s, c, [r EXCEPT !.wins = Without(r.wins, {x})])

StayInColumn(s, c, x) == s

LeaveSharedColumn(s, c, x) ==
  LET r    == s.columns[c]
      left == Without(r.wins, {x})
      tab  == IF r.tab = x THEN left[1] ELSE r.tab
  IN  SetColumn(s, c, [r EXCEPT !.wins = left, !.tab = tab,
                                !.active = IF r.active = x THEN tab ELSE r.active])

LeaveOwnColumn(s, w, c) ==
  LET r == s.workspaces[w]
  IN  SetWorkspace([s EXCEPT !.columns = Drop(s.columns, {c})], w,
                   [r EXCEPT !.cols = Without(r.cols, {c})])

DetachWindow(s, x) ==
  LET c == s.windows[x].col
      w == s.windows[x].ws
  IN  IF c = None THEN LeaveFloating(s, w, x)
      ELSE IF ToSet(s.columns[c].wins) \subseteq {x} THEN LeaveOwnColumn(s, w, c)
      ELSE LeaveSharedColumn(s, c, x)

\* restore_window_to_target: the new state and the window's column.
RestoreWindow(s, x, target) ==
  IF target.layer = "Floating"
  THEN [st |-> PushFloating(s, target.ws, x), col |-> None]
  ELSE IF target.col \in ToSet(s.workspaces[target.ws].cols)
  THEN [st |-> JoinColumn(s, target.col, x), col |-> target.col]
  ELSE [st  |-> InsertNewColumn(s, target.ws, x, DefaultMode,
                                InsertPosition(s, target.ws, target.idx, None, FALSE)),
        col |-> FreshColumn(s)]

---------------------------------------------------------------------------
(* Platform events: windows discovered, destroyed and focused.            *)

\* handle_window_discovered.  d = [mon, managed, layer, placement, mode,
\* preserve]; placement is After | Before (a new column next to the anchor),
\* End (a new last column) or Join (the focused column).
NextToAnchor(d) == d.placement \in {"After", "Before"}

PlaceTiled(s, w, x, d) ==
  LET anchor   == IF NextToAnchor(d) THEN DiscoveryAnchor(s, w) ELSE None
      override == IF NextToAnchor(d) /\ anchor = None
                  THEN FullscreenRestore(s, w).idx ELSE None
      mode     == IF d.placement = "Join" THEN "Normal" ELSE d.mode
  IN  IF d.placement = "Join" /\ FocusedColumnIn(s, w) # None
      THEN [st |-> JoinColumn(s, FocusedColumnIn(s, w), x), col |-> FocusedColumnIn(s, w)]
      ELSE [st |-> InsertNewColumn(s, w, x, mode,
                     InsertPosition(s, w, override, anchor, d.placement = "Before")),
            col |-> FreshColumn(s)]

PlaceDiscovered(s, w, x, d) ==
  IF ~d.managed THEN [st |-> s, col |-> None]
  ELSE IF d.layer = "Tiled" THEN PlaceTiled(s, w, x, d)
  ELSE [st |-> PushFloating(s, w, x), col |-> None]

\* A window that opens behind the user's back leaves a focused, not fullscreen,
\* window of its workspace alone.
KeepsFocus(s, w, d) == d.preserve /\ FocusedWindowIn(s, w) # None /\ ~FullscreenFocusIn(s, w)

WindowDiscovered(s, d) ==
  LET w      == ActiveWorkspace(s, d.mon)
      x      == FreshWindow(s)
      placed == PlaceDiscovered(s, w, x, d)
      node   == [layer |-> d.layer, ws |-> w, col |-> placed.col, managed |-> d.managed,
                 flt |-> d.layer = "Floating", full |-> d.layer = "Fullscreen",
                 restore |-> NoRestore]
      added  == SetWindow(placed.st, x, node)
      active == PutActive(added, d.mon, w)
      focused == IF d.managed /\ ~KeepsFocus(s, w, d)
                 THEN FocusWindow(active, d.mon, w, x, placed.col) ELSE active
      final  == NormalizeWorkspaceSet(focused, d.mon)
  IN  IF d.managed THEN Settle(final, w) ELSE Ok(final, None)

\* retarget_focus_after_destroy: the preferred column (where the window was),
\* the first column, the first floating window, or no window at all.
RetargetFocus(s, w, preferred) ==
  LET r == s.workspaces[w]
      c == IF preferred \in DOMAIN s.columns THEN preferred
           ELSE IF r.cols # <<>> THEN r.cols[1] ELSE None
  IN  IF c # None THEN FocusWindow(s, r.mon, w, ColumnActiveWindow(s.columns[c]), c)
      ELSE IF r.flt # <<>> THEN FocusWindow(s, r.mon, w, r.flt[1], None)
      ELSE SetFocus(s, r.mon, None, None)

\* Forgetting a destroyed window (and its column, if it went too).
Forget(s, w, x, c) ==
  LET r == s.workspaces[w]
  IN  SetWorkspace([s EXCEPT !.windows = Drop(s.windows, {x})], w,
        [r EXCEPT !.remWin = IF r.remWin = x THEN None ELSE r.remWin,
                  !.remCol = IF r.remCol = c /\ c \notin ToSet(r.cols)
                             THEN None ELSE r.remCol])

\* Mistake: the focus moves whichever window closed.
AlwaysRetarget(s, w, x, c) == RetargetFocus(s, w, c)

RetargetFrom(s, w, x, c) == IF s.focus.win = x THEN RetargetFocus(s, w, c) ELSE s

WindowDestroyed(s, x) ==
  LET w == s.windows[x].ws
      c == s.windows[x].col
      m == s.workspaces[w].mon
      focused == RetargetFrom(Forget(DetachWindow(s, x), w, x, c), w, x, c)
  IN  IF w \notin DOMAIN s.workspaces THEN Err(s)
      ELSE Settle(NormalizeWorkspaceSet(focused, m), w)

\* handle_window_focus_observed, with the monitor of the window's workspace as
\* observe_focus passes it.
WindowFocusObserved(s, x) ==
  LET w == s.windows[x].ws
  IN  Settle(FocusWindow(s, s.workspaces[w].mon, w, x, s.windows[x].col), w)

---------------------------------------------------------------------------
(* Commands on the focus and on workspaces.  The active workspace of a     *)
(* normalised set is in its order, so the code's "position not found"      *)
(* errors are out of reach there.                                          *)

\* navigation_sequence_for_workspace, as records [win, col].
NavigationSequence(s, w) ==
  LET r == s.workspaces[w]
  IN  IF r.cols # <<>>
      THEN [i \in DOMAIN r.cols |-> [win |-> ColumnActiveWindow(s.columns[r.cols[i]]),
                                     col |-> r.cols[i]]]
      ELSE [i \in DOMAIN r.flt |-> [win |-> r.flt[i], col |-> None]]

NavigationIndex(seq, x) ==
  IF \E i \in DOMAIN seq : seq[i].win = x
  THEN CHOOSE i \in DOMAIN seq : seq[i].win = x /\ \A k \in 1..(i - 1) : seq[k].win # x
  ELSE 1

\* try_cycle_tabbed_focus applies.
CyclesTabs(s, w, tabs) ==
  /\ tabs
  /\ FocusedColumnIn(s, w) # None
  /\ s.columns[FocusedColumnIn(s, w)].mode = "Tabbed"
  /\ Len(s.columns[FocusedColumnIn(s, w)].wins) > 1

NextTab(col, forward) ==
  LET n == Len(col.wins)
      i == Position(col.wins, col.tab)
  IN  IF forward THEN col.wins[(i % n) + 1]
      ELSE col.wins[IF i = 1 THEN n ELSE i - 1]

\* handle_focus_navigation
FocusNavigation(s, forward, tabs) ==
  LET w   == CommandWorkspace(s)
      c   == FocusedColumnIn(s, w)
      m   == s.workspaces[w].mon
      seq == NavigationSequence(s, w)
      x   == FocusedWindowIn(s, w)
      i   == IF x # None THEN StepWithin(NavigationIndex(seq, x), forward, Len(seq))
             ELSE IF forward THEN 1 ELSE Len(seq)
  IN  IF w \notin DOMAIN s.workspaces THEN Err(s)
      ELSE IF CyclesTabs(s, w, tabs)
      THEN Settle(FocusWindow(s, m, w, NextTab(s.columns[c], forward), c), w)
      ELSE IF seq = <<>> THEN Settle(s, w)
      ELSE Settle(FocusWindow(s, m, w, seq[i].win, seq[i].col), w)

\* workspace_focus_target: the remembered window, the remembered column, the
\* first column, the first floating window.
WorkspaceFocusTarget(s, w) ==
  LET r == s.workspaces[w]
      inStrip(c) == IF c \in ToSet(r.cols) THEN c ELSE None
      shown(c) == [win |-> ColumnActiveWindow(s.columns[c]), col |-> c]
  IN  IF r.remWin \in DOMAIN s.windows /\ s.windows[r.remWin].ws = w
      THEN [win |-> r.remWin, col |-> inStrip(s.windows[r.remWin].col)]
      ELSE IF r.cols # <<>>
      THEN shown(IF r.remCol \in ToSet(r.cols) THEN r.remCol ELSE r.cols[1])
      ELSE [win |-> IF r.flt # <<>> THEN r.flt[1] ELSE None, col |-> None]

\* activate_workspace
ActivateWorkspace(s, m, w) ==
  LET target == WorkspaceFocusTarget(s, w)
  IN  SyncOverview(IF target.win # None THEN FocusWindow(s, m, w, target.win, target.col)
                   ELSE FocusNoWindow(s, m, w), m)

\* handle_focus_workspace
FocusWorkspace(s, forward, requested) ==
  LET m     == CommandMonitor(s, requested)
      n     == NormalizeWorkspaceSet(s, m)
      order == n.sets[m].order
      w     == ActiveWorkspace(n, m)
      to    == order[StepWithin(Position(order, w), forward, Len(order))]
  IN  IF m = None THEN Err(s)
      ELSE IF to = w THEN Settle(n, w)
      ELSE Settle(NormalizeWorkspaceSet(ActivateWorkspace(n, m, to), m), to)

Swapped(seq, i, j) == [seq EXCEPT ![i] = seq[j], ![j] = seq[i]]

\* handle_move_workspace_within_monitor
MoveWorkspaceWithinMonitor(s, forward, requested) ==
  LET m     == CommandMonitor(s, requested)
      n     == NormalizeWorkspaceSet(s, m)
      order == n.sets[m].order
      w     == ActiveWorkspace(n, m)
      i     == Position(order, w)
      j     == StepWithin(i, forward, Len(order))
      moved == PutOrder(n, m, Swapped(order, i, j))
  IN  IF m = None THEN Err(s)
      ELSE IF i = j THEN Settle(n, w)
      ELSE Settle(SyncOverview(NormalizeWorkspaceSet(moved, m), m), w)

\* Where a workspace enters the order of monitor m: at the first empty tail,
\* after the workspaces none of which is one.
TailPosition(s, m) ==
  LET order == s.sets[m].order
      isTail(w) == w \in DOMAIN s.workspaces /\ s.workspaces[w].tail
      before == {i \in DOMAIN order : \A k \in 1..i : ~isTail(order[k])}
  IN  Cardinality(before) + 1

Hosted(r, m) == [r EXCEPT !.mon = m]

\* Mistake: the workspace stays in the order of the monitor it leaves.
RehostTwice(s, from, to, w) ==
  [s EXCEPT !.sets = Put(s.sets, to,
     [order |-> InsertAt(s.sets[to].order, TailPosition(s, to), w), active |-> w])]

RehostWorkspace(s, from, to, w) ==
  LET left   == PutOrder(s, from, Without(s.sets[from].order, {w}))
      target == s.sets[to].order
      placed == [left EXCEPT !.sets = Put(left.sets, to,
                   [order |-> InsertAt(target, TailPosition(s, to), w), active |-> w])]
  IN  [placed EXCEPT !.workspaces = [k \in DOMAIN s.workspaces |->
                                       IF k = w THEN Hosted(s.workspaces[k], to)
                                       ELSE s.workspaces[k]]]

NormalizeBoth(s, m1, m2) == NormalizeWorkspaceSet(NormalizeWorkspaceSet(s, m1), m2)

\* handle_move_workspace_to_adjacent_monitor
MoveWorkspaceToMonitor(s, forward, requested) ==
  LET from  == CommandMonitor(s, requested)
      to    == AdjacentMonitor(s, from, forward)
      w     == ActiveWorkspace(s, from)
      moved == NormalizeBoth(RehostWorkspace(NormalizeBoth(s, from, to), from, to, w), from, to)
  IN  IF from = None THEN Err(s)
      ELSE IF from = to THEN Settle(s, w)
      ELSE Settle(SyncOverview(ActivateWorkspace(moved, to, w), from), w)

---------------------------------------------------------------------------
(* Moving a column to another workspace.                                   *)

\* Mistake: the strip the column leaves keeps it.
ForgetFocusOnly(r, c, wins) ==
  [r EXCEPT !.remCol = None, !.remWin = None]

ForgetColumn(r, c, wins) ==
  [r EXCEPT !.cols   = Without(r.cols, {c}),
            !.remCol = IF r.remCol = c THEN None ELSE r.remCol,
            !.remWin = IF r.remWin \in wins THEN None ELSE r.remWin]

\* The column after column `after`, at the end when it is not there.
TakeColumn(r, c, after, x) ==
  LET cols == Without(r.cols, {c})
      at   == IF after \in ToSet(cols) THEN Position(cols, after) + 1 ELSE Len(cols) + 1
  IN  [r EXCEPT !.cols = InsertAt(cols, at, c), !.remCol = c, !.remWin = x]

TransferColumn(s, c, from, to, after) ==
  LET wins == ToSet(s.columns[c].wins)
      x    == ColumnActiveWindow(s.columns[c])
      left == SetWorkspace(s, from, ForgetColumn(s.workspaces[from], c, wins))
      in   == SetWorkspace(left, to, TakeColumn(left.workspaces[to], c, after, x))
  IN  [in EXCEPT !.windows = [k \in DOMAIN s.windows |->
                                IF k \in wins THEN [s.windows[k] EXCEPT !.ws = to, !.col = c]
                                ELSE s.windows[k]]]

ColumnWorkspace(s, c) == s.windows[s.columns[c].wins[1]].ws

\* move_column_to_workspace_target_internal
MoveColumnTo(s, c, to, after) ==
  LET from  == ColumnWorkspace(s, c)
      m1    == s.workspaces[from].mon
      m2    == s.workspaces[to].mon
      active == ActivateWorkspace(TransferColumn(s, c, from, to, after), m2, to)
      moved == IF m1 = m2 THEN NormalizeWorkspaceSet(active, m1)
               ELSE SyncOverview(NormalizeBoth(active, m1, m2), m1)
      known == /\ c \in DOMAIN s.columns
               /\ from \in DOMAIN s.workspaces
               /\ to \in DOMAIN s.workspaces
               /\ after # None => after \in DOMAIN s.columns
  IN  IF ~known THEN Err(s)
      ELSE IF from = to /\ after = c THEN Settle(s, to)
      ELSE IF after # None /\ ColumnWorkspace(s, after) # to THEN Err(s)
      ELSE Settle(moved, to)

\* A plainly tiled window, the only kind whose column the keyboard moves or
\* resizes.
IsTiled(s, x) ==
  /\ x # None
  /\ s.windows[x].col # None
  /\ s.windows[x].layer = "Tiled"
  /\ ~s.windows[x].flt
  /\ ~s.windows[x].full

\* handle_move_column_to_workspace
MoveColumnToWorkspace(s, forward, requested) ==
  LET m     == CommandMonitor(s, requested)
      from  == ActiveWorkspace(s, m)
      x     == FocusedWindowIn(s, from)
      n     == NormalizeWorkspaceSet(s, m)
      order == n.sets[m].order
      to    == order[StepWithin(Position(order, from), forward, Len(order))]
  IN  IF m = None THEN Err(s)
      ELSE IF ~IsTiled(s, x) THEN Err(s)
      ELSE IF to = from THEN Settle(n, from)
      ELSE MoveColumnTo(n, s.windows[x].col, to, None)

---------------------------------------------------------------------------
(* Window modes.                                                           *)

\* Mistakes: no layer, no workspace, or the position after.
PlaceWithoutLayer(s, x) ==
  LET r == s.windows[x]
  IN  [ws |-> r.ws, col |-> r.col, layer |-> None,
       idx |-> IF r.col = None THEN None ELSE Position(s.workspaces[r.ws].cols, r.col)]

PlaceNowhere(s, x) ==
  LET r == s.windows[x]
  IN  [ws |-> None, col |-> r.col, layer |-> r.layer, idx |-> None]

PlaceAfter(s, x) ==
  LET r == s.windows[x]
  IN  [ws |-> r.ws, col |-> r.col, layer |-> r.layer,
       idx |-> IF r.col = None THEN None ELSE Position(s.workspaces[r.ws].cols, r.col) + 1]

\* The restore target of a window that leaves its place ...
PlaceOf(s, x) ==
  LET r == s.windows[x]
  IN  [ws |-> r.ws, col |-> r.col, layer |-> r.layer,
       idx |-> IF r.col = None THEN None ELSE Position(s.workspaces[r.ws].cols, r.col)]

\* ... and the one of a window that comes back.
RestoreOf(s, x) ==
  LET r == s.windows[x]
  IN  IF r.restore # NoRestore THEN r.restore
      ELSE [PlaceOf(s, x) EXCEPT !.col = FocusedColumnIn(s, r.ws), !.layer = "Tiled"]

\* Mistake: the fullscreen flag stays.
ReturnedFullscreen(r, from, layer, c) ==
  [r EXCEPT !.layer = layer, !.col = c, !.restore = NoRestore,
            !.flt = from = "Fullscreen" /\ layer = "Floating"]

\* Coming back from the layer `from`: only the fullscreen handler restores the
\* floating flag of a window that floated before.
Returned(r, from, layer, c) ==
  [r EXCEPT !.layer = layer, !.col = c, !.full = FALSE, !.restore = NoRestore,
            !.flt = from = "Fullscreen" /\ layer = "Floating"]

ReturnToPlace(s, x, from) ==
  LET w        == s.windows[x].ws
      target   == RestoreOf(s, x)
      restored == RestoreWindow(DetachWindow(s, x), x, target)
      node     == Returned(s.windows[x], from, target.layer, restored.col)
  IN  FocusWindow(SetWindow(restored.st, x, node), s.workspaces[w].mon, w, x, restored.col)

\* Leaving the strip (or the other off-strip layer) for the layer `to`.
LeavePlace(s, x, to) ==
  LET w    == s.windows[x].ws
      out  == PushFloating(DetachWindow(s, x), w, x)
      node == [s.windows[x] EXCEPT
                 !.layer = to, !.col = None, !.flt = to = "Floating",
                 !.full = to = "Fullscreen", !.restore = PlaceOf(s, x)]
  IN  FocusWindow(SetWindow(out, x, node), s.workspaces[w].mon, w, x, None)

\* The shape handle_toggle_floating and handle_toggle_fullscreen share.
ToggleLayer(s, requested, layer) ==
  LET x == CommandWindow(s, requested)
      w == s.windows[x].ws
  IN  IF x \notin DOMAIN s.windows THEN Err(s)
      ELSE IF w \notin DOMAIN s.workspaces THEN Err(s)
      ELSE IF s.windows[x].layer # layer THEN Settle(LeavePlace(s, x, layer), w)
      ELSE IF RestoreOf(s, x).ws \notin DOMAIN s.workspaces THEN Err(DetachWindow(s, x))
      ELSE Settle(ReturnToPlace(s, x, layer), w)

ToggleFloating(s, requested)   == ToggleLayer(s, requested, "Floating")
ToggleFullscreen(s, requested) == ToggleLayer(s, requested, "Fullscreen")

\* handle_toggle_tabbed
ToggleTabbed(s, requested) ==
  LET x == CommandWindow(s, requested)
      c == s.windows[x].col
      w == s.windows[x].ws
      r == s.columns[c]
      toggled == IF r.mode = "Tabbed"
                 THEN [r EXCEPT !.mode = "Normal", !.tab = r.wins[1], !.active = x]
                 ELSE [r EXCEPT !.mode = "Tabbed", !.tab = x, !.active = x]
  IN  IF x \notin DOMAIN s.windows THEN Err(s)
      ELSE IF c = None THEN Settle(s, w)
      ELSE Settle(SetColumn(s, c, toggled), w)

---------------------------------------------------------------------------
(* Overview.                                                               *)

OpenOverviewOn(s, m) ==
  [s EXCEPT !.overview = [open |-> TRUE, mon |-> m, sel |-> ActiveWorkspace(s, m)]]

OpenOverview(s, requested) ==
  LET m == CommandMonitor(s, requested)
  IN  IF m = None THEN Err(s) ELSE Ok(OpenOverviewOn(s, m), None)

CloseOverview(s) ==
  Ok([s EXCEPT !.overview = [open |-> FALSE, mon |-> None, sel |-> None]], None)

ToggleOverview(s, requested) ==
  LET m == CommandMonitor(s, requested)
  IN  IF m # None /\ s.overview.open /\ s.overview.mon = m
      THEN CloseOverview(s) ELSE OpenOverview(s, requested)

---------------------------------------------------------------------------
(* The column-width resize session (its arithmetic is left out).           *)

\* active_tiled_width_target succeeds.
HasWidthTarget(s) == IsTiled(s, FocusedWindowIn(s, CommandWorkspace(s)))

BeginResize(s) ==
  LET w == CommandWorkspace(s)
      x == FocusedWindowIn(s, w)
  IN  IF ~HasWidthTarget(s) THEN Err(s)
      ELSE Settle([s EXCEPT !.session = [ws |-> w, col |-> s.windows[x].col, win |-> x]], w)

UpdateResize(s) == IF s.session = NoSession THEN Ok(s, None) ELSE Settle(s, s.session.ws)

CommitResize(s) ==
  IF s.session = NoSession THEN Ok(s, None)
  ELSE IF s.session.ws \notin DOMAIN s.workspaces \/ s.session.col \notin DOMAIN s.columns
  THEN Err(s)
  ELSE Settle([s EXCEPT !.session = NoSession], s.session.ws)

CancelResize(s) ==
  IF s.session = NoSession THEN Ok(s, None)
  ELSE Settle([s EXCEPT !.session = NoSession], s.session.ws)

CycleWidth(s) == IF HasWidthTarget(s) THEN Settle(s, CommandWorkspace(s)) ELSE Err(s)
===========================================================================
