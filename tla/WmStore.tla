----------------------------- MODULE WmStore -----------------------------
(***************************************************************************)
(* The state store of the daemon as a state machine: which events reach    *)
(* StateStore::dispatch, from whom, and what the daemon does with an error.*)
(*                                                                         *)
(* Events come from three sides, in any order, because they reach the one  *)
(* main loop of apps/core-daemon/src/watch.rs through independent threads: *)
(* the platform snapshot (monitors, windows discovered, destroyed, focused)*)
(* keys, touchpad and mouse (no arguments), and IPC or the overview        *)
(* surface (with explicit identifiers).  An Err of a snapshot, of a key    *)
(* command or of the mouse drag ends the daemon; an Err of an IPC command  *)
(* is answered and the daemon goes on with the state as it was left.       *)
(***************************************************************************)
EXTENDS StateStore

CONSTANTS MaxWindows,        \* bound: windows open at once
          Discoveries,       \* payloads of WindowDiscovered, without the monitor
          Clients,           \* who issues commands: "keys", "ipc"
          Commands           \* the groups of commands issued

ASSUME MaxWindowsAssumption == MaxWindows \in Nat
ASSUME DiscoveriesAssumption ==
  Discoveries \subseteq [managed : BOOLEAN, layer : Layers, mode : Modes, preserve : BOOLEAN,
                         placement : {"After", "Before", "End", "Join"}]

vars == <<st, up>>

Init == st = InitState /\ up = TRUE

\* An error ends the daemon.
Fatal(r) == st' = r.st /\ up' = r.ok

\* An error is answered to the IPC client.
Answered(r) == st' = r.st /\ UNCHANGED up

\* A command without arguments is a key or an IPC request; one that names its
\* target comes over IPC.
Command(group, r, requested) ==
  /\ up
  /\ group \in Commands
  /\ Known(st) # {}
  /\ \/ "keys" \in Clients /\ requested = None /\ Fatal(r)
     \/ "ipc" \in Clients /\ Answered(r)

Requests(T)     == {None} \union {t \in T : "ipc" \in Clients}
WindowRequests  == Requests(DOMAIN st.windows)
MonitorRequests == Requests(Known(st))

---------------------------------------------------------------------------
(* Platform snapshots: sync_monitors, discoveries, prune, observe_focus.   *)

PlugMonitor(m) ==
  /\ up
  /\ m \notin Known(st)
  /\ st' = AddMonitor(st, m)
  /\ UNCHANGED up

\* refresh_workspace_set_monitor_projection, for every monitor on every sync.
RefreshMonitor(m) ==
  /\ up
  /\ m \in Known(st)
  /\ st' = NormalizeWorkspaceSet(st, m)
  /\ UNCHANGED up

Discover(m, d) ==
  /\ up
  /\ m \in Known(st)
  /\ Cardinality(DOMAIN st.windows) < MaxWindows
  /\ Fatal(WindowDiscovered(st, [mon |-> m, managed |-> d.managed, layer |-> d.layer,
                                 mode |-> d.mode, preserve |-> d.preserve,
                                 placement |-> d.placement]))

Destroy(x) ==
  /\ up
  /\ x \in DOMAIN st.windows
  /\ Fatal(WindowDestroyed(st, x))

\* observe_focus drops windows that are not managed or have no workspace.
ObserveFocus(x) ==
  /\ up
  /\ x \in DOMAIN st.windows
  /\ st.windows[x].managed
  /\ st.windows[x].ws \in DOMAIN st.workspaces
  /\ Fatal(WindowFocusObserved(st, x))

---------------------------------------------------------------------------
(* Commands. *)

\* NavigationScope::ColumnTabs is the reducer's, no command of the daemon has it.
CmdFocusNavigation(forward, tabs) ==
  Command(IF tabs THEN "tabs" ELSE "navigation", FocusNavigation(st, forward, tabs), None)
CmdFocusWorkspace(forward, m) ==
  Command("activation", FocusWorkspace(st, forward, m), m)
CmdMoveWorkspace(forward, m) ==
  Command("order", MoveWorkspaceWithinMonitor(st, forward, m), m)
CmdMoveWorkspaceToMonitor(forward, m) ==
  Command("monitors", MoveWorkspaceToMonitor(st, forward, m), m)
CmdMoveColumnToWorkspace(forward, m) ==
  Command("columns", MoveColumnToWorkspace(st, forward, m), m)

\* overview_drag_source_column_id and overview_drop_anchor_column_id accept
\* plainly tiled windows of the overview's monitor.
OnOverview(x) ==
  /\ x \in DOMAIN st.windows
  /\ st.windows[x].managed
  /\ st.windows[x].ws \in DOMAIN st.workspaces
  /\ st.workspaces[st.windows[x].ws].mon = st.overview.mon
  /\ IsTiled(st, x)

\* handle_overview_move_column: window x is dragged onto workspace to, perhaps
\* onto window y of it.
CmdDropColumn(x, to, y) ==
  /\ up
  /\ "overview" \in Commands
  /\ st.overview.open
  /\ st.workspaces[to].mon = st.overview.mon
  /\ OnOverview(x)
  /\ y # None => OnOverview(y) /\ st.windows[y].ws = to
  /\ Fatal(MoveColumnTo(st, st.windows[x].col, to,
                        IF y = None THEN None ELSE st.windows[y].col))

CmdToggleFloating(x)   == Command("floating", ToggleFloating(st, x), x)
CmdToggleFullscreen(x) == Command("fullscreen", ToggleFullscreen(st, x), x)
CmdToggleTabbed(x)     == Command("tabs", ToggleTabbed(st, x), x)

CmdOpenOverview(m)   == Command("overview", OpenOverview(st, m), m)
CmdCloseOverview     == Command("overview", CloseOverview(st), None)
CmdToggleOverview(m) == Command("overview", ToggleOverview(st, m), m)

\* The mouse drag of manual_resize.rs: begins a session only when none is
\* open; every error ends the daemon.
CmdBeginResize  == /\ up /\ "resize" \in Commands /\ st.session = NoSession
                   /\ HasWidthTarget(st) /\ Fatal(BeginResize(st))
CmdUpdateResize == up /\ "resize" \in Commands /\ Fatal(UpdateResize(st))
CmdCommitResize == up /\ "resize" \in Commands /\ Fatal(CommitResize(st))
CmdCancelResize == up /\ "resize" \in Commands /\ Fatal(CancelResize(st))
CmdCycleWidth   == Command("resize", CycleWidth(st), None)

---------------------------------------------------------------------------

Platform ==
  \/ \E m \in Monitors : PlugMonitor(m)
  \/ \E m \in Monitors : RefreshMonitor(m)
  \/ \E m \in Monitors, d \in Discoveries : Discover(m, d)
  \/ \E x \in DOMAIN st.windows : Destroy(x)
  \/ \E x \in DOMAIN st.windows : ObserveFocus(x)

WorkspaceCommand ==
  \E forward \in BOOLEAN, m \in MonitorRequests :
    \/ CmdFocusWorkspace(forward, m)
    \/ CmdMoveWorkspace(forward, m)
    \/ CmdMoveWorkspaceToMonitor(forward, m)
    \/ CmdMoveColumnToWorkspace(forward, m)

ColumnDrop ==
  \E x \in DOMAIN st.windows, to \in DOMAIN st.workspaces, y \in Option(DOMAIN st.windows) :
    CmdDropColumn(x, to, y)

WindowCommand ==
  \E x \in WindowRequests :
    \/ CmdToggleFloating(x)
    \/ CmdToggleFullscreen(x)
    \/ CmdToggleTabbed(x)

OverviewCommand ==
  \/ \E m \in MonitorRequests : CmdOpenOverview(m) \/ CmdToggleOverview(m)
  \/ CmdCloseOverview

ResizeCommand ==
  \/ CmdBeginResize
  \/ CmdUpdateResize
  \/ CmdCommitResize
  \/ CmdCancelResize
  \/ CmdCycleWidth

Next ==
  \/ Platform
  \/ \E forward, tabs \in BOOLEAN : CmdFocusNavigation(forward, tabs)
  \/ WorkspaceCommand
  \/ ColumnDrop
  \/ WindowCommand
  \/ OverviewCommand
  \/ ResizeCommand

Spec == Init /\ [][Next]_vars

---------------------------------------------------------------------------
(* Types. *)

IsMap(f, K, V) == DOMAIN f \subseteq K /\ f \in [DOMAIN f -> V]

StateType(s) ==
  /\ IsMap(s.sets, Monitors, WorkspaceSet)
  /\ IsMap(s.workspaces, Nat, Workspace)
  /\ IsMap(s.columns, Nat, Column)
  /\ IsMap(s.windows, Nat, Window)
  /\ IsMap(s.focus.activeBy, Monitors, Nat)
  /\ s.focus.mon \in Option(Monitors)
  /\ s.focus.win \in Option(Nat)
  /\ s.focus.col \in Option(Nat)
  /\ s.overview \in OverviewState
  /\ s.session \in ResizeSession

\* The state stays well typed: the records of model.rs, whichever handlers have
\* written them.
TypeOK == StateType(st) /\ up \in BOOLEAN

---------------------------------------------------------------------------
(* Safety. *)

\* Every workspace stands exactly once in the order of exactly one monitor,
\* the one it names, whatever sequence of normalisations, moves within a
\* monitor and moves between monitors has run.
WorkspacesPartitioned ==
  /\ \A m \in Known(st) :
       /\ st.sets[m].order # <<>>
       /\ IsInjective(st.sets[m].order)
       /\ \A w \in ToSet(st.sets[m].order) :
            w \in DOMAIN st.workspaces /\ st.workspaces[w].mon = m
  /\ \A w \in DOMAIN st.workspaces :
       /\ st.workspaces[w].mon \in Known(st)
       /\ w \in ToSet(st.sets[st.workspaces[w].mon].order)

\* The focus map and the workspace set name the same active workspace of a
\* monitor, and it is one of that monitor's: the two copies are written by
\* different handlers.
ActiveCopiesAgree ==
  /\ DOMAIN st.focus.activeBy = Known(st)
  /\ \A m \in Known(st) :
       /\ st.focus.activeBy[m] = st.sets[m].active
       /\ st.sets[m].active \in ToSet(st.sets[m].order)

\* Both at once: through every normalisation, move and crossing to another monitor a
\* workspace has one home, and both copies say which one is shown there.
WorkspacesCohere == WorkspacesPartitioned /\ ActiveCopiesAgree

\* Every column stands exactly once in exactly one strip and holds windows.
ColumnsPartitioned ==
  /\ \A w \in DOMAIN st.workspaces :
       /\ IsInjective(st.workspaces[w].cols)
       /\ ToSet(st.workspaces[w].cols) \subseteq DOMAIN st.columns
  /\ \A c \in DOMAIN st.columns :
       /\ st.columns[c].wins # <<>>
       /\ \E w \in DOMAIN st.workspaces :
            /\ c \in ToSet(st.workspaces[w].cols)
            /\ \A v \in DOMAIN st.workspaces \ {w} : c \notin ToSet(st.workspaces[v].cols)

\* A managed window is held by exactly one list, the one its record names; an
\* unmanaged one by at most that one.  No list holds a window that is gone.
WindowsPlacedOnce ==
  /\ \A c \in DOMAIN st.columns :
       /\ IsInjective(st.columns[c].wins)
       /\ \A x \in ToSet(st.columns[c].wins) :
            /\ x \in DOMAIN st.windows
            /\ st.windows[x].col = c
            /\ st.windows[x].ws \in DOMAIN st.workspaces
            /\ c \in ToSet(st.workspaces[st.windows[x].ws].cols)
  /\ \A w \in DOMAIN st.workspaces :
       /\ IsInjective(st.workspaces[w].flt)
       /\ \A x \in ToSet(st.workspaces[w].flt) :
            /\ x \in DOMAIN st.windows
            /\ st.windows[x].col = None
            /\ st.windows[x].ws = w
  /\ \A x \in DOMAIN st.windows :
       /\ st.windows[x].col # None =>
            /\ st.windows[x].col \in DOMAIN st.columns
            /\ x \in ToSet(st.columns[st.windows[x].col].wins)
       /\ st.windows[x].managed =>
            /\ st.windows[x].ws \in DOMAIN st.workspaces
            /\ st.windows[x].col = None => x \in ToSet(st.workspaces[st.windows[x].ws].flt)

\* A column's selections are windows it holds, through every detach, restore,
\* tab cycle and mode switch.
ColumnSelection ==
  \A c \in DOMAIN st.columns :
    {st.columns[c].active, st.columns[c].tab} \subseteq ToSet(st.columns[c].wins)

\* The focus is coherent: the focused window exists, its column and its
\* monitor are the focused ones, and its workspace is the one its monitor shows.
FocusCoherent ==
  /\ st.focus.win = None => st.focus.col = None
  /\ st.focus.win # None =>
       LET x == st.focus.win
       IN  /\ x \in DOMAIN st.windows
           /\ st.windows[x].col = st.focus.col
           /\ st.windows[x].ws \in DOMAIN st.workspaces
           /\ st.workspaces[st.windows[x].ws].mon = st.focus.mon
           /\ st.sets[st.focus.mon].active = st.windows[x].ws

\* Normalising once is enough, and what it leaves is in normal form: the last
\* workspace is empty, any other empty one is the active one, and every
\* occupied workspace keeps its place in the order.
NormalForm ==
  \A m \in Known(st) :
    LET n      == NormalizeWorkspaceSet(st, m)
        order  == n.sets[m].order
        vacant == {w \in DOMAIN st.workspaces : IsWorkspaceEmpty(st, w)}
    IN  /\ NormalizeWorkspaceSet(n, m) = n
        /\ IsWorkspaceEmpty(n, Last(order))
        /\ \A i \in 1..(Len(order) - 1) :
             IsWorkspaceEmpty(n, order[i]) => order[i] = n.sets[m].active
        /\ Without(st.sets[m].order, vacant)
             = Without(order, vacant \union {Last(order)})

\* A window that is toggled to floating or to fullscreen and back is tiled again at
\* the same place of the strip, among the same neighbours.
StripShape(s, w) ==
  [i \in DOMAIN s.workspaces[w].cols |-> ToSet(s.columns[s.workspaces[w].cols[i]].wins)]

ReturnsToItsPlace(s, x, there, back) ==
  /\ there.ok /\ back.ok
  /\ IsTiled(back.st, x)
  /\ StripShape(back.st, s.windows[x].ws) = StripShape(s, s.windows[x].ws)

ModesRoundTrip ==
  \A x \in DOMAIN st.windows :
    IsTiled(st, x) =>
      LET floated == ToggleFloating(st, x)
          filled  == ToggleFullscreen(st, x)
      IN  /\ ReturnsToItsPlace(st, x, floated, ToggleFloating(floated.st, x))
          /\ ReturnsToItsPlace(st, x, filled, ToggleFullscreen(filled.st, x))

\* The workspaces of a monitor that hold something, in their order.
Occupied(s, m) ==
  Without(s.sets[m].order, {w \in ToSet(s.sets[m].order) : IsWorkspaceEmpty(s, w)})

\* Only the commands that move workspaces reorder them: whatever empties are
\* removed or appended meanwhile, occupied workspaces that stay on a monitor
\* stay in the same order.
OrderIsKept ==
  [][\/ \A m \in Known(st) :
          LET was == Occupied(st, m)
              is  == Occupied(st', m)
          IN  Without(was, ToSet(was) \ ToSet(is)) = Without(is, ToSet(is) \ ToSet(was))
     \/ \E forward \in BOOLEAN, n \in MonitorRequests : CmdMoveWorkspace(forward, n)]_vars

\* A window that closes while another has the focus moves neither the focus nor
\* what any monitor shows.
OthersCloseQuietly ==
  [][\A x \in DOMAIN st.windows \ DOMAIN st'.windows :
       x # st.focus.win => /\ st'.focus = st.focus
                           /\ \A m \in Known(st) : st'.sets[m].active = st.sets[m].active]_vars

\* The layer of a window, its flags and its being in a column say the same,
\* and only floating a fullscreen window upsets that: coming back from there
\* it is in a column with the layer Fullscreen and without the flag.
LayerFlagsAgree(s) ==
  \A x \in DOMAIN s.windows :
    LET r == s.windows[x]
    IN  /\ r.flt = (r.layer = "Floating")
        /\ r.full = (r.layer = "Fullscreen")
        /\ r.managed => (r.layer = "Tiled") = (r.col # None)

OnlyFloatedFullscreenMixesFlags ==
  [][LayerFlagsAgree(st) =>
       \/ LayerFlagsAgree(st')
       \/ \E x \in DOMAIN st.windows :
            /\ st.windows[x].restore.layer = "Fullscreen"
            /\ st'.windows = ToggleFloating(st, x).st.windows]_vars

\* The overview marks the workspace its monitor shows.  Only focusing a window
\* of another workspace directly leaves the mark behind: the operating system
\* does, and so do the requests that toggle a window they name.
OverviewShowsActive ==
  st.overview.open => st.overview.sel = ActiveWorkspace(st, st.overview.mon)

OnlyDirectFocusMisplacesMark ==
  [][OverviewShowsActive =>
       \/ OverviewShowsActive'
       \/ \E x \in DOMAIN st.windows : ObserveFocus(x)
       \/ WindowCommand]_vars

\* A key command works on the monitors the configuration manages: an ordinary
\* monitor keeps its workspaces, their order and the one it shows.
KeyCommand ==
  \/ \E forward, tabs \in BOOLEAN : CmdFocusNavigation(forward, tabs)
  \/ \E forward \in BOOLEAN :
       \/ CmdFocusWorkspace(forward, None)
       \/ CmdMoveWorkspace(forward, None)
       \/ CmdMoveWorkspaceToMonitor(forward, None)
       \/ CmdMoveColumnToWorkspace(forward, None)

OrdinaryMonitorsLeftAlone ==
  [][\/ \A m \in Known(st) : ~MonitorIsManaged(st, m) => st'.sets[m] = st.sets[m]
     \/ ~KeyCommand]_vars

\* A request that is answered with an error has changed nothing: the client may
\* send it again.  The reducer does not roll back, so every handler has to find
\* its errors before its first assignment.
FailedRequestsChangeNothing ==
  LET harmless(r) == r.ok \/ r.st = st
  IN  Known(st) # {} =>
        /\ \A x \in WindowRequests :
             /\ harmless(ToggleFloating(st, x))
             /\ harmless(ToggleFullscreen(st, x))
             /\ harmless(ToggleTabbed(st, x))
        /\ \A forward \in BOOLEAN, m \in MonitorRequests :
             /\ harmless(FocusNavigation(st, forward, FALSE))
             /\ harmless(FocusWorkspace(st, forward, m))
             /\ harmless(MoveWorkspaceWithinMonitor(st, forward, m))
             /\ harmless(MoveWorkspaceToMonitor(st, forward, m))
             /\ harmless(MoveColumnToWorkspace(st, forward, m))

\* As long as the workspace and the column a drag began on exist, no step of
\* the drag can fail, whatever happened to the windows between its steps.
DragEndsWell ==
  LET alive == st.session.ws \in DOMAIN st.workspaces /\ st.session.col \in DOMAIN st.columns
  IN  /\ alive => UpdateResize(st).ok /\ CommitResize(st).ok /\ CancelResize(st).ok
      /\ Known(st) # {} /\ HasWidthTarget(st) => BeginResize(st).ok

\* The daemon is ended by a platform event in one case only: the window that
\* closed was on a workspace that is gone, or goes with it.
EndsOnlyWithAWorkspace ==
  [][~up' /\ Platform =>
       \E x \in DOMAIN st.windows :
         Destroy(x) /\ st.windows[x].ws \notin DOMAIN st'.workspaces]_vars

\* A window that closes leaves the daemon running, whichever window it is: what
\* the tests of sync_snapshot expect of a snapshot that misses a window.
SurvivesDestroy ==
  [][(\E x \in DOMAIN st.windows : Destroy(x)) => up']_vars
===========================================================================
