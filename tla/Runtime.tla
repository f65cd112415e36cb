------------------------------ MODULE Runtime ------------------------------
(***************************************************************************)
(* CoreDaemonRuntime (crates/wm-core/src/runtime.rs, runtime/observation.rs*)
(* and runtime/config.rs) on top of the store: how snapshots of the desktop*)
(* become events of the store, who decides about the focus, and what a     *)
(* command and a reload do.                                                *)
(*                                                                         *)
(* Snapshots of the observer wait in a channel, so the main loop may sync  *)
(* with one that is older than the scan of a command it has just run.      *)
(*                                                                         *)
(* A snapshot is the desktop at one moment: [wins, fg, mons], the monitor  *)
(* of every window, the foreground handle (0 for none) and the monitors.   *)
(* Rectangles are abstracted to the monitor a window is on, so a plan is   *)
(* "move the managed windows to the monitors of their workspaces, activate *)
(* the focused one"; the retries after an apply are module Recovery.  What *)
(* the adapter rejects (module Discovery) is no handle here.  Flags, traces*)
(* and reports are left out.                                               *)
(*                                                                         *)
(* The main loop does one job at a time, in steps: a snapshot enters, its  *)
(* windows are discovered, the missing ones pruned, its focus observed, the*)
(* command dispatched, the plan applied.  Deadlines pass between any two   *)
(* steps; the desktop also changes between the snapshot and the apply.     *)
(***************************************************************************)
EXTENDS StateStore

CONSTANTS Handles,       \* window handles, not 0
          Class,           \* what PlatformDiscoveryAssessment and the rules say
          UserCommands,    \* the commands issued
          MaxChanges,      \* bound: changes of the desktop
          MaxCommands,     \* bound: commands and reloads
          MaxChannel       \* bound: snapshots on the way

ASSUME RuntimeHandlesAssumption == Handles \subseteq Nat \ {0}
ASSUME ClassAssumption ==
  Class \in [Handles -> [promotable : BOOLEAN, fallback : BOOLEAN, layer : Layers]]
ASSUME UserCommandsAssumption ==
  UserCommands \subseteq {"focus-next", "focus-workspace-down", "move-to-monitor",
                         "toggle-fullscreen", "cycle-column-width"}

VARIABLES hw,       \* current_hwnd_binding of every window
          pend,     \* pending_discoveries: stable_ticks of a handle
          seen,     \* last_snapshot: whether there is one, and its foreground
          claim,    \* pending_focus_claim
          cand,     \* pending_platform_focus_candidate
          settle,   \* pending_geometry_settle_until
          ruled,    \* the handles the active rules manage
          job,      \* the handler that runs, and how far it is
          os,       \* the desktop
          channel,  \* the observer's snapshots on their way
          left      \* changes and commands left

runtimeVars == <<st, up, hw, pend, seen, claim, cand, settle, ruled, job, os, channel, left>>

\* What jobs change.
loopVars == <<st, up, hw, pend, seen, claim, cand, settle, ruled, job>>

Primary == CHOOSE m \in Monitors : \A n \in Monitors : m <= n

NoClaim == [win |-> None, live |-> FALSE]
Idle    == [pc |-> "idle"]

RuntimeInit ==
  /\ st = InitState /\ up = TRUE
  /\ hw = <<>> /\ pend = <<>>
  /\ seen = [any |-> FALSE, fg |-> 0]
  /\ claim = NoClaim /\ cand = None
  /\ settle = "none"
  /\ ruled = Handles
  /\ job = Idle
  /\ os = [wins |-> <<>>, fg |-> 0, mons |-> Monitors]
  /\ channel = <<>>
  /\ left = [changes |-> MaxChanges, commands |-> MaxCommands]

---------------------------------------------------------------------------
(* The desktop (external): the user and the programs. *)

Changes(d) ==
  /\ left.changes > 0
  /\ job.pc \in {"idle", "apply"}
  /\ os' = d
  /\ left' = [left EXCEPT !.changes = @ - 1]
  /\ UNCHANGED <<loopVars, channel>>

Opens(h, m) == /\ h \notin DOMAIN os.wins /\ m \in os.mons
               /\ \E fg \in {os.fg, h} : Changes([os EXCEPT !.wins = Put(@, h, m), !.fg = fg])
Closes(h)   == /\ h \in DOMAIN os.wins
               /\ Changes([os EXCEPT !.wins = Drop(@, {h}), !.fg = IF @ = h THEN 0 ELSE @])
Clicks(h)   == /\ h \in DOMAIN os.wins \ {os.fg}
               /\ Changes([os EXCEPT !.fg = h])
Plugs(m)    == /\ m \notin os.mons
               /\ Changes([os EXCEPT !.mons = @ \union {m}])
Unplugs(m)  == /\ m \in os.mons \ {Primary}
               /\ Changes([os EXCEPT !.mons = @ \ {m},
                                     !.wins = [h \in DOMAIN @ |-> IF @[h] = m THEN Primary ELSE @[h]]])

\* The observer sends what it sees (module Observer says when).
Captures ==
  /\ Len(channel) < MaxChannel
  /\ left.changes > 0 /\ job = Idle
  /\ \E moved \in BOOLEAN : channel' = Append(channel, [shot |-> os, moved |-> moved])
  /\ left' = [left EXCEPT !.changes = @ - 1]
  /\ UNCHANGED <<loopVars, os>>

\* FOCUS_OBSERVATION_GRACE and GEOMETRY_SETTLE_GRACE pass.
ClaimExpires ==
  /\ claim.live
  /\ claim' = [claim EXCEPT !.live = FALSE]
  /\ UNCHANGED <<st, up, hw, pend, seen, cand, settle, ruled, job, os, channel, left>>
SettleExpires ==
  /\ settle = "armed"
  /\ settle' = "expired"
  /\ UNCHANGED <<st, up, hw, pend, seen, claim, cand, ruled, job, os, channel, left>>

---------------------------------------------------------------------------
(* What a step does to the store, the bindings and the pending discoveries, *)
(* as one record r.                                                         *)

Now == [st |-> st, ok |-> TRUE, hw |-> hw, pend |-> pend]

\* A step goes on only as long as the store accepts its events.
Then(r, Step(_)) == IF r.ok THEN Step(r) ELSE r

\* The store's answer q to an event; bindings go with their windows.
Dispatched(r, q) ==
  [r EXCEPT !.st = q.st, !.ok = q.ok, !.hw = Drop(@, DOMAIN @ \ DOMAIN q.st.windows)]

\* An error of the store ends the daemon; otherwise the job goes on at pc.
Becomes(r, pc) ==
  /\ st' = r.st /\ hw' = r.hw /\ pend' = r.pend
  /\ up' = r.ok
  /\ job' = IF r.ok THEN [job EXCEPT !.pc = pc] ELSE Idle

\* find_window_id_by_hwnd, current_focused_hwnd
Bound(r, h) == \E x \in DOMAIN r.hw : r.hw[x] = h
WindowOf(r, h) == CHOOSE x \in DOMAIN r.hw : r.hw[x] = h
FocusedHandle(r) == IF r.st.focus.win \in DOMAIN r.hw THEN r.hw[r.st.focus.win] ELSE None

\* Identifiers in ascending order (BTreeMap, BTreeSet).
Ascending(ids) ==
  CHOOSE q \in SetToSeqs(ids) : \A i, j \in DOMAIN q : i < j => q[i] < q[j]

\* The handles of a snapshot in its order: the foreground first.
Ordered(S) ==
  LET before(g, h) == \/ g = S.fg
                      \/ /\ h # S.fg
                         /\ \/ S.wins[g] < S.wins[h]
                            \/ S.wins[g] = S.wins[h] /\ g <= h
  IN  CHOOSE q \in SetToSeqs(DOMAIN S.wins) : \A i, j \in DOMAIN q : i < j => before(q[i], q[j])

---------------------------------------------------------------------------
(* sync_monitors_from_snapshot: new monitors are added, all known ones are *)
(* normalised, the missing ones too, and stay known.                       *)

SyncMonitor(s, m) == IF m \in Known(s) THEN NormalizeWorkspaceSet(s, m) ELSE AddMonitor(s, m)

SyncEach(s, ms) == FoldLeft(SyncMonitor, s, ms)

SyncMonitors(r, S) ==
  [r EXCEPT !.st = SyncEach(@, Ascending(S.mons) \o Ascending(Known(r.st) \ S.mons))]

---------------------------------------------------------------------------
(* Windows that go. *)

DestroyWindow(r, x) == Then(r, LAMBDA q : Dispatched(q, WindowDestroyed(q.st, x)))

DestroyEach(r, xs) == FoldLeft(DestroyWindow, r, xs)
DestroyAll(r, X)   == DestroyEach(r, Ascending(X))

\* Whether the rules and the monitor a window is on want it managed.
WantedManaged(r, S, h) == h \in ruled /\ MonitorIsManaged(r.st, S.wins[h])

\* reclassify_state_windows_for_monitor_policy
Reclassify(r, S) ==
  DestroyAll(r, {x \in DOMAIN r.hw : /\ r.hw[x] \in DOMAIN S.wins
                                     /\ S.wins[r.hw[x]] \in Known(r.st)
                                     /\ r.st.windows[x].managed # WantedManaged(r, S, r.hw[x])})

\* Mistake: the windows of an unplugged monitor go with it.
PruneUnplugged(r, S) ==
  DestroyAll(r, {x \in DOMAIN r.hw : \/ r.hw[x] \notin DOMAIN S.wins
                                     \/ r.st.workspaces[r.st.windows[x].ws].mon \notin S.mons})

\* ingest_destroyed_windows and prune_state_windows_missing_from_snapshot: what
\* the diff reports as destroyed is missing from the snapshot.
Prune(r, S) == DestroyAll(r, {x \in DOMAIN r.hw : r.hw[x] \notin DOMAIN S.wins})

---------------------------------------------------------------------------
(* Windows that come. *)

\* pending_discovery_required_stable_ticks
RequiredTicks(h, focused, previous) ==
  IF Class[h].promotable THEN (IF Class[h].fallback /\ ~focused THEN 2 ELSE 1)
  ELSE (IF ~previous \/ focused THEN 2 ELSE 3) + (IF Class[h].fallback THEN 1 ELSE 0)

\* discovery_target_monitor_id; the focused monitor is always known.
TargetMonitor(r, actual, managed) ==
  LET f == r.st.focus
      context == IF f.win \in DOMAIN r.st.windows /\ r.st.windows[f.win].ws \in DOMAIN r.st.workspaces
                 THEN r.st.workspaces[r.st.windows[f.win].ws].mon ELSE f.mon
  IN  IF ~managed THEN actual
      ELSE IF MonitorIsManaged(r.st, context) THEN context
      ELSE actual

ContextWindow(r, m) == FocusedWindowIn(r.st, ActiveWorkspace(r.st, m))

\* discovery_placement_for_window
Placement(r, m, tiled) ==
  IF seen.any /\ tiled /\ ContextWindow(r, m) # None THEN "After" ELSE "End"

\* discovery_focus_behavior_for_window
Follows(r, S, h, m, tiled) ==
  h = S.fg \/ (tiled /\ FullscreenFocusIn(r.st, ActiveWorkspace(r.st, m)))

\* promote_pending_window_discovery
Promote(r, S, h) ==
  LET managed == WantedManaged(r, S, h)
      tiled   == managed /\ Class[h].layer = "Tiled"
      m       == IF seen.any THEN TargetMonitor(r, S.wins[h], managed) ELSE S.wins[h]
      q       == WindowDiscovered(r.st, [mon |-> m, managed |-> managed, layer |-> Class[h].layer,
                                         mode |-> DefaultMode,
                                         preserve |-> ~Follows(r, S, h, m, tiled),
                                         placement |-> Placement(r, m, tiled)])
  IN  [r EXCEPT !.st = q.st, !.ok = q.ok,
                !.hw = Put(@, FreshWindow(r.st), h),
                !.pend = Drop(@, {h})]

\* Mistake: every sighting is the first.
AlwaysFirst(r, h, moved) == 1

\* stable_ticks after a sighting.  The first sighting makes an entry of 1 and at
\* once counts as a stable tick; a move by more than 24 pixels starts again.
Ticks(r, h, moved) ==
  IF h \notin DOMAIN r.pend THEN 2
  ELSE IF moved THEN 1
  ELSE r.pend[h] + 1

\* The loop body of reconcile_pending_window_discoveries.
Reconcile(r, S, moved, h) ==
  IF Bound(r, h) THEN [r EXCEPT !.pend = Drop(@, {h})]
  ELSE IF S.wins[h] \notin Known(r.st) THEN r
  ELSE IF Ticks(r, h, moved) >= RequiredTicks(h, h = S.fg, seen.any) THEN Promote(r, S, h)
  ELSE [r EXCEPT !.pend = Put(@, h, Ticks(r, h, moved))]

ReconcileEach(r, S, moved, hs) ==
  FoldLeft(LAMBDA q, h : Then(q, LAMBDA p : Reconcile(p, S, moved, h)), r, hs)

ReconcileAll(r, S, moved) ==
  LET gone == {h \in DOMAIN r.pend : h \notin DOMAIN S.wins \/ Bound(r, h)}
  IN  ReconcileEach([r EXCEPT !.pend = Drop(@, gone)], S, moved, Ordered(S))

---------------------------------------------------------------------------
(* The focus. *)

ManagedTiled(r, x) == r.st.windows[x].managed /\ r.st.windows[x].layer = "Tiled"

\* managed_tiled_window_monitor_id, None when h is no such window.
TiledMonitor(r, h) ==
  IF /\ Bound(r, h) /\ ManagedTiled(r, WindowOf(r, h))
     /\ r.st.windows[WindowOf(r, h)].ws \in DOMAIN r.st.workspaces
  THEN r.st.workspaces[r.st.windows[WindowOf(r, h)].ws].mon
  ELSE None

\* should_stage_platform_focus_observation: the foreground is a tiled window of
\* another monitor than the focused one, and no command claims the focus.
Apart(r, claimed, h) ==
  LET f == FocusedHandle(r)
  IN  /\ ~claimed
      /\ f # None /\ f # h
      /\ TiledMonitor(r, f) # None
      /\ TiledMonitor(r, h) # None
      /\ TiledMonitor(r, f) # TiledMonitor(r, h)

\* observe_focus: unmanaged windows are left alone.
ObserveForeground(r, h) ==
  IF /\ Bound(r, h)
     /\ r.st.windows[WindowOf(r, h)].managed
     /\ r.st.windows[WindowOf(r, h)].ws \in DOMAIN r.st.workspaces
  THEN Dispatched(r, WindowFocusObserved(r.st, WindowOf(r, h)))
  ELSE r

---------------------------------------------------------------------------
(* Jobs.  A job begins with a snapshot S. *)

Job(S, moved, what) == [pc |-> "enter", shot |-> S, moved |-> moved, what |-> what, before |-> None]

\* apply_observation of a snapshot; one that reports a move is dropped whole
\* while a column width settles.
Observe ==
  /\ up /\ job = Idle /\ channel # <<>>
  /\ channel' = Tail(channel)
  /\ job' = IF settle = "armed" /\ Head(channel).moved THEN Idle
            ELSE Job(Head(channel).shot, Head(channel).moved, "sync")
  /\ settle' = IF settle = "expired" THEN "none" ELSE settle
  /\ UNCHANGED <<st, up, hw, pend, seen, claim, cand, ruled, os, left>>

\* scan_and_sync of the polling loop, and of a Resume.
Poll ==
  /\ up /\ job = Idle
  /\ job' = Job(os, FALSE, "sync")
  /\ UNCHANGED <<st, up, hw, pend, seen, claim, cand, settle, ruled, os, channel, left>>

Requested ==
  /\ up /\ job = Idle
  /\ left.commands > 0
  /\ left' = [left EXCEPT !.commands = @ - 1]

\* dispatch_command
DispatchCommand(c) ==
  /\ Requested
  /\ Known(st) # {}
  /\ job' = Job(os, FALSE, c)
  /\ UNCHANGED <<st, up, hw, pend, seen, claim, cand, settle, ruled, os, channel>>

\* The configuration is replaced before the report.
Replaced(hs) == hs

\* reload_config: the configuration, then a report that is a command which
\* changes nothing.  If its scan fails the caller is told of an error, and the
\* new rules stay.
ReloadConfig(hs) ==
  /\ Requested
  /\ hs # ruled
  /\ ruled' = Replaced(hs)
  /\ job' \in {Job(os, FALSE, "reload"), Idle}
  /\ UNCHANGED <<st, up, hw, pend, seen, claim, cand, settle, os, channel>>

---------------------------------------------------------------------------
(* The steps of sync_snapshot_with_reason. *)

Enter ==
  /\ job.pc = "enter"
  /\ Becomes(Reclassify(SyncMonitors(Now, job.shot), job.shot), "discover")
  /\ UNCHANGED <<seen, claim, cand, settle, ruled, os, channel, left>>

ReconcileDiscoveries ==
  /\ job.pc = "discover"
  /\ Becomes(ReconcileAll(Now, job.shot, job.moved), "prune")
  /\ UNCHANGED <<seen, claim, cand, settle, ruled, os, channel, left>>

PruneMissing ==
  /\ job.pc = "prune"
  /\ Becomes(Prune(Now, job.shot), "claims")
  /\ UNCHANGED <<seen, claim, cand, settle, ruled, os, channel, left>>

\* refresh_pending_focus_claim and refresh_pending_platform_focus_candidate: a
\* candidate that is still in the foreground, on another monitor, has been seen
\* twice.
RefreshClaims ==
  LET kept  == IF claim.live THEN claim ELSE NoClaim
      twice == cand # None /\ job.shot.fg = cand /\ Apart(Now, kept # NoClaim, cand)
  IN  /\ job.pc = "claims"
      /\ claim' = kept
      /\ cand' = None
      /\ Becomes(IF twice THEN ObserveForeground(Now, cand) ELSE Now, "follow")
      /\ UNCHANGED <<seen, settle, ruled, os, channel, left>>

\* diff.focused_hwnd
ForegroundIsNews == /\ ~seen.any \/ seen.fg # job.shot.fg
                    /\ FocusedHandle(Now) # job.shot.fg

AfterSync == IF job.what = "sync" THEN "apply" ELSE "dispatch"

\* Mistake: a claim does not keep other windows from taking the focus.
FollowAnyForeground ==
  /\ job.pc = "follow"
  /\ Becomes(IF ForegroundIsNews THEN ObserveForeground(Now, job.shot.fg) ELSE Now, AfterSync)
  /\ seen' = [any |-> TRUE, fg |-> job.shot.fg]
  /\ settle' = "none"
  /\ UNCHANGED <<claim, cand, ruled, os, channel, left>>

\* should_defer_platform_focus_observation and observe_focus; last_snapshot is
\* replaced.
FollowForeground ==
  LET fg     == job.shot.fg
      held   == claim.live /\ fg # claim.win
      staged == ~claim.live /\ Apart(Now, FALSE, fg)
  IN  /\ job.pc = "follow"
      /\ IF ~ForegroundIsNews
         THEN Becomes(Now, AfterSync) /\ UNCHANGED <<claim, cand>>
         ELSE /\ claim' = IF claim.live THEN claim ELSE NoClaim
              /\ cand' = IF claim.live THEN cand ELSE IF staged THEN fg ELSE None
              /\ Becomes(IF held \/ staged THEN Now ELSE ObserveForeground(Now, fg), AfterSync)
      /\ seen' = [any |-> TRUE, fg |-> fg]
      /\ settle' = "none"
      /\ UNCHANGED <<ruled, os, channel, left>>

---------------------------------------------------------------------------
(* The command. *)

CommandResult(s, c) ==
  CASE c = "focus-next"           -> FocusNavigation(s, TRUE, FALSE)
    [] c = "focus-workspace-down" -> FocusWorkspace(s, TRUE, None)
    [] c = "move-to-monitor"      -> MoveWorkspaceToMonitor(s, TRUE, None)
    [] c = "toggle-fullscreen"    -> ToggleFullscreen(s, None)
    [] c = "cycle-column-width"   -> CycleWidth(s)
    [] c = "reload"               -> [st |-> s, ok |-> TRUE, ws |-> None]

RunCommand ==
  /\ job.pc = "dispatch"
  /\ LET r == Dispatched(Now, CommandResult(st, job.what))
     IN  /\ st' = r.st /\ hw' = r.hw /\ up' = r.ok
         /\ job' = IF r.ok THEN [job EXCEPT !.pc = "claim", !.before = FocusedHandle(Now)] ELSE Idle
  /\ UNCHANGED <<pend, seen, claim, cand, settle, ruled, os, channel, left>>

\* arm_pending_focus_claim: the command has moved the focus.
ArmClaim ==
  LET f == FocusedHandle(Now)
  IN  /\ job.pc = "claim"
      /\ job' = [job EXCEPT !.pc = "apply"]
      /\ claim' = CASE f = None       -> NoClaim
                   [] f = job.before -> claim
                   [] OTHER          -> [win |-> f, live |-> TRUE]
      /\ cand' = IF f # None /\ f = job.before THEN cand ELSE None
      /\ UNCHANGED <<st, up, hw, pend, seen, settle, ruled, os, channel, left>>

---------------------------------------------------------------------------
(* The plan and its application. *)

\* should_attempt_activation_reassert
MayActivate ==
  \/ claim # NoClaim
  \/ Bound(Now, job.shot.fg) /\ st.windows[WindowOf(Now, job.shot.fg)].managed

\* The handle plan_apply_operations_with_context activates, None for none.
Activated ==
  LET f == st.focus.win
      h == FocusedHandle(Now)
  IN  IF /\ h \in DOMAIN job.shot.wins /\ h # job.shot.fg
         /\ st.windows[f].managed
         /\ ~st.overview.open
         /\ ~Apart(Now, claim # NoClaim, job.shot.fg)
         /\ MayActivate
      THEN h ELSE None

\* The monitor a window of the snapshot is placed on: a managed one on that of
\* its workspace, or on the fallback when that one is unplugged.
PlacedOn(h) ==
  IF Bound(Now, h) /\ st.windows[WindowOf(Now, h)].managed
  THEN LET m == st.workspaces[st.windows[WindowOf(Now, h)].ws].mon
       IN  IF m \in job.shot.mons THEN m ELSE Primary
  ELSE job.shot.wins[h]

\* arm_pending_geometry_settle: only a command on the width that has something
\* to apply waits for the geometry to settle.
Settling == IF job.what = "cycle-column-width" /\ HasWidthTarget(st) THEN {"armed", "none"} ELSE {"none"}

\* apply_operations: each operation may be refused; windows that closed since
\* the snapshot are missed.
Apply ==
  /\ job.pc = "apply"
  /\ \E obeys \in {{}, DOMAIN job.shot.wins}, activates \in BOOLEAN :
       os' = [os EXCEPT !.wins = [h \in DOMAIN @ |-> IF h \in obeys /\ PlacedOn(h) \in os.mons
                                                     THEN PlacedOn(h) ELSE @[h]],
                        !.fg = IF activates /\ Activated \in DOMAIN os.wins THEN Activated ELSE @]
  /\ settle' \in Settling
  /\ job' = Idle
  /\ UNCHANGED <<st, up, hw, pend, seen, claim, cand, ruled, channel, left>>

---------------------------------------------------------------------------

DesktopChanges ==
  \/ \E h \in Handles : Closes(h) \/ Clicks(h) \/ (\E m \in Monitors : Opens(h, m))
  \/ \E m \in Monitors : Plugs(m) \/ Unplugs(m)

Works == \/ Enter \/ ReconcileDiscoveries \/ PruneMissing \/ RefreshClaims \/ FollowForeground
         \/ RunCommand \/ ArmClaim \/ Apply

RuntimeNext ==
  \/ DesktopChanges
  \/ Captures
  \/ ClaimExpires \/ SettleExpires
  \/ Observe
  \/ Poll
  \/ \E c \in UserCommands : DispatchCommand(c)
  \/ \E hs \in SUBSET Handles : ReloadConfig(hs)
  \/ Works

\* The main loop ends every job it begins (its steps are always enabled), and
\* scans when it has nothing to do.
RuntimeFairness == []<>(job = Idle) /\ WF_runtimeVars(Poll)

RuntimeSpec == RuntimeInit /\ [][RuntimeNext]_runtimeVars /\ RuntimeFairness

---------------------------------------------------------------------------

\* While the claim of a command lives, no snapshot gives the focus to another
\* window the user clicked or the system raised late: the focused window stays,
\* unless it goes or a window that was not there before takes the focus.
LiveClaimHolds ==
  [][job.pc \in {"claims", "follow"} /\ claim.live /\ FocusedHandle(Now) = claim.win =>
       st'.focus = st.focus]_runtimeVars

\* A window that is still open is forgotten for two reasons only: the snapshot
\* is older than the window, or rules or monitors changed their mind about it.
\* In particular the windows of an unplugged monitor are kept.
OnlyStaleSnapshotsForget ==
  [][\A x \in DOMAIN hw \ DOMAIN hw' :
       hw[x] \in DOMAIN os.wins =>
         \/ hw[x] \notin DOMAIN job.shot.wins
         \/ st.windows[x].managed #
              (hw[x] \in ruled /\ MonitorIsManaged(st', job.shot.wins[hw[x]]))]_runtimeVars

\* A daemon that scans ends up tracking exactly the windows that are open, each
\* as the rules in force and its monitor want it, whatever snapshots came late
\* and whether or not the last reload was reported as failed.
DesktopIsCaughtUp ==
  <>[](up => /\ {hw[x] : x \in DOMAIN hw} = DOMAIN os.wins
             /\ \A x \in DOMAIN hw :
                  st.windows[x].managed = WantedManaged(Now, os, hw[x]))
=========================================================================
