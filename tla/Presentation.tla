---------------------------- MODULE Presentation ----------------------------
(***************************************************************************)
(* How windows are put on the screen: native_apply.rs, the worker threads  *)
(* it talks to (clipped_window_surrogate.rs, window_monitor_scene.rs,      *)
(* browser_dim_overlay.rs) and the registry of clipped windows             *)
(* (visual_effects.rs), driven by the planning of wm-core/runtime.rs.      *)
(*                                                                         *)
(* A tiled window that is visible but not focused is parked outside the    *)
(* monitors and replaced by a live copy, which a worker owns; slices of a  *)
(* window on another monitor and the dimming of browsers are hosts of      *)
(* other workers.                                                          *)
(* The main loop sends a worker one command at a time and waits for the    *)
(* answer, at most RESPONSE_TIMEOUT: a worker that was too slow executes   *)
(* the command all the same.                                               *)
(*                                                                         *)
(* browser_visual_surrogate.rs is left out: normalized_visual_emphasis     *)
(* turns every request for it into a dim overlay, so it is never started.  *)
(***************************************************************************)
EXTENDS Naturals, Sequences, FiniteSets, SequencesExt

CONSTANTS Owners,        \* window handles, numbered
          Ineligible,    \* the classifier refuses a copy of these
          MaxTurns,      \* bound: changes of the layout, the focus, the windows
          MaxMishaps     \* bound: failed or slow calls

ASSUME OwnersAssumption ==
  Owners \subseteq Nat \ {0} /\ IsFiniteSet(Owners) /\ Ineligible \subseteq Owners

Kinds == {"copy", "scene", "dim"}

VARIABLES
  status,    \* "managed", "unmanaged" (in the snapshot), "unseen" (not in it) or "gone"
  want,      \* what the layout wants of each window
  place,     \* "home" (its place in the layout), "parked", or parked in the "band" of
             \* another workspace
  fore,      \* the handle whose window, or a popup of it, has the foreground; or 0
  popups,    \* handles that have a popup, or a transient of their process has the foreground
  hosts,     \* per kind and owner: "none", "bare" (never shown), "blank" (on the screen,
             \* without its picture), "shown", "stray", "dead"
  tracked,   \* per kind, the ACTIVE_OWNERS registry
  override,  \* PRESENTATION_OVERRIDES: "none", "fallback", "escape", "handoff"
  masked,    \* NATIVE_CLIP_MASKED_HWNDS
  started,   \* kinds whose controller is initialised
  queue,     \* per kind, the command channel
  managing,  \* management_enabled
  loop,      \* the main loop: the programs left, the answer it waits for
  spare      \* turns and mishaps left

screen == <<status, want, place, fore, popups>>
worker == <<hosts, tracked, queue>>
presentationVars == <<screen, worker, override, masked, started, managing, loop, spare>>

Materialized == masked \union UNION {tracked[k] : k \in Kinds}
InSnapshot   == {h \in Owners : status[h] \in {"managed", "unmanaged"}}
ManagedOnes  == {h \in Owners : status[h] = "managed"}
Alive        == {h \in Owners : status[h] # "gone"}

\* determine_desktop_window_presentation.  focused: tiled and active; native: not
\* tiled; spilled: active, clipped to its monitor, with a slice on another one;
\* copied: visible and not active; hidden: scrolled out of its monitor; banded:
\* hidden too, in another workspace.
Wants == {"focused", "native", "spilled", "copied", "hidden", "banded"}

\* park_rect_outside_desktop keeps the vertical position and the size.
WantedPlace(w) == CASE w \in {"copied", "hidden"} -> "parked"
                    [] w = "banded" -> "band"
                    [] OTHER -> "home"

PresentationInit ==
  /\ status = [h \in Owners |-> "managed"]
  /\ want = [h \in Owners |-> "native"]
  /\ place = [h \in Owners |-> "home"]
  /\ fore = 0 /\ popups = {}
  /\ hosts = [k \in Kinds |-> [h \in Owners |-> "none"]]
  /\ tracked = [k \in Kinds |-> {}]
  /\ override = [h \in Owners |-> "none"]
  /\ masked = {} /\ started = {}
  /\ queue = [k \in Kinds |-> <<>>]
  /\ managing = TRUE
  /\ loop = [stage |-> "idle", todo |-> <<>>, answer |-> "none", failed |-> FALSE, owed |-> {}]
  /\ spare = [turns |-> MaxTurns, mishaps |-> MaxMishaps]

Mishap == spare.mishaps > 0 /\ spare' = [spare EXCEPT !.mishaps = @ - 1]
Turn   == spare.turns > 0 /\ spare' = [spare EXCEPT !.turns = @ - 1]

---------------------------------------------------------------------------
(* The desktop and the layout (external). *)

\* One window at most is the focused one.
LayoutTurns(h, w) ==
  /\ Turn /\ want[h] # w
  /\ w \in {"focused", "spilled"} => \A g \in Owners \ {h} : want[g] \notin {"focused", "spilled"}
  /\ want' = [want EXCEPT ![h] = w]
  /\ UNCHANGED <<status, place, fore, popups, worker, override, masked, started, managing, loop>>

ForegroundTurns(h) ==
  /\ Turn /\ fore # h
  /\ fore' = h
  /\ UNCHANGED <<status, want, place, popups, worker, override, masked, started, managing, loop>>

PopupTurns(h) ==
  /\ Turn /\ h \in Alive
  /\ popups' = IF h \in popups THEN popups \ {h} ELSE popups \union {h}
  /\ UNCHANGED <<status, want, place, fore, worker, override, masked, started, managing, loop>>

\* A copy is a window owned by its owner: it is destroyed with it.
StatusTurns(h, s) ==
  /\ Turn /\ status[h] \notin {"gone", s}
  /\ status' = [status EXCEPT ![h] = s]
  /\ hosts' = [k \in Kinds |-> IF s = "gone" /\ hosts[k][h] # "none"
                               THEN [hosts[k] EXCEPT ![h] = "dead"] ELSE hosts[k]]
  /\ fore' = IF s \in {"gone", "unseen"} /\ fore = h THEN 0 ELSE fore
  /\ popups' = IF s = "gone" THEN popups \ {h} ELSE popups
  /\ UNCHANGED <<want, place, tracked, queue, override, masked, started, managing, loop>>

---------------------------------------------------------------------------
(* The workers. *)

Sets(k, h, v) == hosts' = [hosts EXCEPT ![k][h] = v]
Tracks(k, h)   == tracked' = [tracked EXCEPT ![k] = @ \union {h}]
Untracks(k, h) == tracked' = [tracked EXCEPT ![k] = @ \ {h}]

\* hide_clipped_window_surrogate_internal; the hiding of the other kinds alike.
HideHost(k, h) ==
  IF hosts[k][h] = "none" THEN UNCHANGED <<hosts, tracked>> ELSE Sets(k, h, "none") /\ Untracks(k, h)

\* The picture of a copy cannot be unregistered: the call fails when the copy is gone.
HidesBadly(k, h) == k = "copy" /\ hosts[k][h] \in {"shown", "stray", "dead"} /\ HideHost(k, h)

\* No host can be created: what is there stays, but the slices of a scene.
Uncreated(k, h) ==
  /\ k # "scene" /\ hosts[k][h] \in {"none", "dead"}
  /\ UNCHANGED <<hosts, tracked, override>>

\* Its picture cannot be registered, its window not be shown, or the shown window
\* not get its picture: the host stays in the map of the worker, its owner is not
\* registered.
Unshown(k, h) ==
  /\ \/ hosts[k][h] \in {"none", "bare", "dead"} /\ Sets(k, h, "bare")
     \/ hosts[k][h] \in {"none", "bare", "dead"} /\ k # "dim" /\ Sets(k, h, "blank")
     \/ hosts[k][h] \in {"blank", "shown", "stray"} /\ UNCHANGED hosts
  /\ UNCHANGED <<tracked, override>>

\* The owner of a copy is registered by the call that creates it: a copy left by a
\* failed first call is shown by the next one and registered by none.
CopyShown(h) ==
  /\ Sets("copy", h, IF hosts["copy"][h] = "none" \/ h \in tracked["copy"] THEN "shown" ELSE "stray")
  /\ IF hosts["copy"][h] = "none" THEN Tracks("copy", h) ELSE UNCHANGED tracked
  /\ override' = [override EXCEPT ![h] = "none"]

SceneShown(h) == Sets("scene", h, "shown") /\ Tracks("scene", h) /\ UNCHANGED override
DimShown(h) == Sets("dim", h, "shown") /\ Tracks("dim", h) /\ UNCHANGED override

\* show_clipped_window_surrogate_internal; the showing of the other kinds alike.
Show(k, h) ==
  IF h \notin Alive THEN HideHost(k, h) /\ UNCHANGED override
  ELSE CASE k = "copy" -> CopyShown(h) [] k = "scene" -> SceneShown(h) [] k = "dim" -> DimShown(h)

Answers(c, a) == loop' = IF c.live THEN [loop EXCEPT !.answer = a] ELSE loop

\* One command of run_clipped_window_surrogate_loop.
WorkerObeys(k) ==
  /\ queue[k] # <<>>
  /\ LET c == Head(queue[k])
     IN  /\ queue' = [queue EXCEPT ![k] = Tail(@)]
         /\ \/ /\ c.do = "hide" /\ HideHost(k, c.win) /\ UNCHANGED <<override, spare>>
               /\ Answers(c, "ok")
            \/ /\ c.do = "show" /\ Show(k, c.win) /\ UNCHANGED spare
               /\ Answers(c, "ok")
            \/ /\ c.do = "show" /\ c.win \in Alive /\ Mishap
               /\ Uncreated(k, c.win) \/ Unshown(k, c.win)
               /\ Answers(c, "err")
            \/ /\ c.do = "hide" \/ c.win \notin Alive
               /\ Mishap /\ HidesBadly(k, c.win) /\ UNCHANGED override
               /\ Answers(c, "err")
  /\ UNCHANGED <<screen, masked, started, managing>>

\* promote_clipped_window_surrogate_owner_to_native: put in its place, clipped to
\* what the copy showed, and activated.
Promotes(h, works) ==
  /\ place' = [place EXCEPT ![h] = "home"]
  /\ masked' = masked \union {h}
  /\ fore' = IF works THEN h ELSE fore

\* What there is of a copy to be seen and clicked.
OnScreen(k, h) == hosts[k][h] \in {"blank", "shown", "stray"}

\* A click on a copy: clipped_window_surrogate_window_proc.  The copy is
\* destroyed whether or not its owner could be promoted.
CopyClicked(h, works) ==
  /\ OnScreen("copy", h)
  /\ Turn /\ Promotes(h, works)
  /\ override' = IF works THEN [override EXCEPT ![h] = "handoff"] ELSE override
  /\ Sets("copy", h, "dead")
  /\ UNCHANGED <<status, want, popups, tracked, queue, started, managing, loop>>

\* prune_stale_clipped_window_surrogates
PruneDeadCopy(h) ==
  /\ hosts["copy"][h] = "dead"
  /\ Sets("copy", h, "none") /\ Untracks("copy", h)
  /\ override' = [override EXCEPT ![h] = "none"]
  /\ UNCHANGED <<screen, queue, masked, started, managing, loop, spare>>

\* should_escape_clipped_window_surrogate
Escapes(h) == fore = h \/ h \in popups

\* Its owner escapes: the promotion, of what the copy knows, is attempted; the copy
\* is hidden in any case.  One pass may take several copies, each as here.
PruneEscapedCopy(h, works) ==
  /\ hosts["copy"][h] \notin {"none", "dead"} /\ Escapes(h)
  /\ HideHost("copy", h)
  /\ \/ hosts["copy"][h] = "bare" /\ UNCHANGED <<place, masked, fore, override>>
     \/ Promotes(h, works) /\ override' = [override EXCEPT ![h] = "escape"]
  /\ UNCHANGED <<status, want, popups, queue, started, managing, loop, spare>>

\* prune_stale_window_monitor_scene_hosts, prune_stale_browser_dim_overlays
PruneDeadHost(k, h) ==
  /\ k # "copy" /\ hosts[k][h] = "dead"
  /\ HideHost(k, h)
  /\ UNCHANGED <<screen, queue, override, masked, started, managing, loop, spare>>

Prunes(h) == \/ PruneDeadCopy(h)
             \/ \E works \in BOOLEAN : PruneEscapedCopy(h, works)
             \/ \E k \in Kinds : PruneDeadHost(k, h)

---------------------------------------------------------------------------
(* Programs of the main loop: the calls an operation makes, in order.  A call
   that fails ends its operation.                                           *)

Call(do, kind, h) == [do |-> do, kind |-> kind, win |-> h]
SceneCall(h, w) == Call(IF w = "spilled" THEN "show" ELSE "hide", "scene", h)

\* sync_window_presentation, native
SyncNative(h, w) ==
  <<Call("hide", "copy", h),
    Call(IF w = "spilled" \/ w = "copied" THEN "mask" ELSE "unmask", "mask", h),
    SceneCall(h, w)>> \o
  (IF w = "copied" THEN <<>> ELSE <<Call("restore", "override", h)>>)

\* sync_window_presentation, surrogate
SyncCopy(h) == <<Call("unmask", "mask", h), Call("show", "copy", h), Call("hide", "scene", h)>>

\* normalize_surrogate_presentation_operation: what no copy may be made of stays
\* native, clipped to what the copy would have shown.
Normalized(h) == <<Call("fallback", "override", h)>> \o SyncNative(h, "copied")
TargetPlace(h) == IF want[h] = "copied" /\ h \in Ineligible THEN "home" ELSE WantedPlace(want[h])

\* build_visual_emphasis: the inactive windows of browsers are dimmed; the
\* appearance of the others has no host.
Dims(h) == want[h] # "focused" /\ want[h] # "spilled"

\* apply_window_browser_visual_surface
Emphasis(h) == IF want[h] \in {"focused", "native", "spilled"} /\ h \in Ineligible
               THEN <<Call(IF Dims(h) THEN "show" ELSE "hide", "dim", h)>> ELSE <<>>

NeedsGeometry(h) == place[h] # WantedPlace(want[h])
NeedsActivation(h) == want[h] = "focused" /\ fore # h

\* apply_operation; with the geometry applied for all at once
\* finalize_apply_without_animation.
OperationOf(h, moved) ==
  (IF NeedsGeometry(h) /\ ~moved THEN <<Call("move", TargetPlace(h), h)>> ELSE <<>>) \o
  (IF want[h] = "copied" THEN (IF h \in Ineligible THEN Normalized(h) ELSE SyncCopy(h))
                         ELSE SyncNative(h, want[h])) \o
  (IF NeedsGeometry(h) \/ NeedsActivation(h) THEN Emphasis(h) ELSE <<>>) \o
  (IF NeedsActivation(h) THEN <<Call("activate", "window", h)>> ELSE <<>>)

\* should_sync_presentation
\* Mistake: only windows something is already shown for are synchronised.
NeedsSyncIfShown(h) == h \in Materialized
NeedsSync(h) == h \in Materialized \/ want[h] \notin {"focused", "native"}
Planned(h) == status[h] = "managed" /\ (NeedsGeometry(h) \/ NeedsActivation(h) \/ NeedsSync(h))

\* materialized_presentation_cleanup_operations
CleansUp(h) == h \in InSnapshot /\ h \in Materialized /\ ~Planned(h)

\* presentation_apply_priority
Priority(h) ==
  CASE ~Planned(h) -> 1
    [] want[h] = "focused" -> 0
    [] want[h] = "copied" /\ h \notin Ineligible -> 2
    [] want[h] \in {"hidden", "banded"} -> 3
    [] OTHER -> 1

\* ordered_operations_for_presentation: a stable sort of the windows.
Before(g, h) == Priority(g) < Priority(h) \/ (Priority(g) = Priority(h) /\ g <= h)
InOrder(hs) == CHOOSE q \in SetToSeqs(hs) : \A i, j \in DOMAIN q : i < j => Before(q[i], q[j])

\* plan_apply_operations_with_context
Movers == {h \in Owners : Planned(h) /\ NeedsGeometry(h)}
Others == {h \in Owners : (Planned(h) /\ ~NeedsGeometry(h)) \/ CleansUp(h)}

\* apply_operations_direct
ProgramsOf(hs, moved) ==
  LET order == InOrder(hs)
  IN  [i \in DOMAIN order |-> IF Planned(order[i]) THEN OperationOf(order[i], moved)
                              ELSE SyncNative(order[i], "native")]
PlannedPrograms(moved) == ProgramsOf(Movers, moved) \o ProgramsOf(Others, FALSE)

\* try_apply_operations_batched: the windows are moved at once or not at all.
Batchable == Cardinality(Movers) > 1 /\ Movers \subseteq Alive
MoveTogether == place' = [h \in Owners |-> IF h \in Movers THEN TargetPlace(h) ELSE place[h]]

\* clear_window_presentations
Clearing(h) ==
  <<Call("hide", "copy", h), Call("hide", "scene", h), Call("hide", "dim", h),
    Call("restore", "override", h)>> \o
  (IF h \in Alive THEN <<Call("unmask", "mask", h)>> ELSE <<>>)

\* Of all windows, by their handles.
Ascending(hs) == CHOOSE q \in SetToSeqs(hs) : \A i, j \in DOMAIN q : i < j => q[i] < q[j]
ClearingAll(hs) ==
  LET order == Ascending(hs)
  IN  FlattenSeq([i \in DOMAIN order |-> Clearing(order[i])])

\* stale_materialized_presentation_hwnds
StaleHandles == Materialized \ InSnapshot

\* presentation_cleanup_hwnds
\* Mistake: only the windows the state knows are cleared.
CleanupOfManaged == ManagedOnes
CleanupHandles == ManagedOnes \union Materialized

---------------------------------------------------------------------------
(* The main loop. *)

Begins(stage, programs) ==
  loop' = [loop EXCEPT !.stage = stage, !.todo = programs]

\* sync_snapshot_with_reason, its cleanup ...
CycleBegins ==
  /\ loop.stage = "idle"
  /\ Begins("cleaning", <<ClearingAll(StaleHandles)>>)
  /\ UNCHANGED <<screen, worker, override, masked, started, managing, spare>>

\* ... and its plan
CyclePlans ==
  /\ loop.stage = "cleaning" /\ loop.todo = <<>>
  /\ IF ~managing THEN Begins("applying", <<>>) /\ UNCHANGED place
     ELSE LET together == Batchable
          IN  /\ Begins("applying", PlannedPrograms(together))
              /\ IF together THEN MoveTogether ELSE UNCHANGED place
  /\ UNCHANGED <<status, want, fore, popups, worker, override, masked, started, managing, spare>>

\* Refused together, the windows are moved one by one.
CyclePlansApart ==
  /\ loop.stage = "cleaning" /\ loop.todo = <<>> /\ managing /\ Batchable /\ Mishap
  /\ Begins("applying", PlannedPrograms(FALSE))
  /\ UNCHANGED <<screen, worker, override, masked, started, managing>>

CycleEnds ==
  /\ loop.stage \in {"applying", "unwinding"} /\ loop.todo = <<>>
  /\ loop' = [loop EXCEPT !.stage = "idle"]
  /\ UNCHANGED <<screen, worker, override, masked, started, managing, spare>>

\* request_emergency_unwind
Unwind ==
  /\ loop.stage = "idle" /\ managing /\ Turn
  /\ managing' = FALSE
  /\ loop' = [loop EXCEPT !.stage = "unwinding", !.todo = <<ClearingAll(CleanupHandles)>>,
                           !.owed = ManagedOnes \union Materialized]
  /\ UNCHANGED <<screen, worker, override, masked, started>>

Program == Head(loop.todo)
Ready == loop.todo # <<>> /\ loop.answer = "none"

ProgramEnds ==
  /\ Ready /\ Program = <<>>
  /\ loop' = [loop EXCEPT !.todo = Tail(@)]
  /\ UNCHANGED <<screen, worker, override, masked, started, managing, spare>>

NextCall == [loop EXCEPT !.todo = <<Tail(Head(@))>> \o Tail(@), !.answer = "none"]
GivesUp  == [loop EXCEPT !.todo = Tail(@), !.answer = "none",
                         !.failed = @ \/ loop.stage = "unwinding"]

\* A call of the window system.
LocalCall ==
  /\ Ready /\ Program # <<>>
  /\ LET c == Head(Program)
     IN  \/ /\ c.do = "unmask" \/ (c.do = "mask" /\ c.win \in Alive)
            /\ masked' = IF c.do = "mask" THEN masked \union {c.win} ELSE masked \ {c.win}
            /\ loop' = NextCall
            /\ UNCHANGED <<place, fore, override, spare>>
         \/ /\ c.do \in {"restore", "fallback"}
            /\ override' = [override EXCEPT ![c.win] = IF c.do = "restore" THEN "none" ELSE "fallback"]
            /\ loop' = NextCall
            /\ UNCHANGED <<place, fore, masked, spare>>
         \/ /\ c.do = "move" /\ c.win \in Alive
            /\ place' = [place EXCEPT ![c.win] = c.kind]
            /\ loop' = NextCall
            /\ UNCHANGED <<fore, override, masked, spare>>
         \/ /\ c.do = "activate" /\ c.win \in Alive
            /\ fore' = c.win
            /\ loop' = NextCall
            /\ UNCHANGED <<place, override, masked, spare>>
         \/ /\ c.do \in {"mask", "move", "activate"} /\ c.win \notin Alive
            /\ loop' = GivesUp
            /\ UNCHANGED <<place, fore, override, masked, spare>>
  /\ UNCHANGED <<status, want, popups, worker, started, managing>>

\* SetWindowPos, the region or the activation is refused; an activation is attempted even
\* though access to the window is denied.
LocalCallFails ==
  /\ Ready /\ Program # <<>> /\ Head(Program).do \in {"mask", "move", "activate"}
  /\ Mishap
  /\ \/ loop' = GivesUp
     \/ Head(Program).do = "move" /\ NeedsActivation(Head(Program).win) /\ loop' = NextCall
  /\ UNCHANGED <<screen, worker, override, masked, started, managing>>

\* The first call of a worker starts its thread.
Starts(k) == started' = started \union {k}

\* The call of a worker: hide is no call before the worker is started.
WorkerCall ==
  /\ Ready /\ Program # <<>>
  /\ LET c == Head(Program)
     IN  /\ c.do \in {"show", "hide"}
         /\ IF c.do = "hide" /\ c.kind \notin started
            THEN loop' = NextCall /\ UNCHANGED <<queue, started>>
            ELSE /\ Starts(c.kind)
                 /\ queue' = [queue EXCEPT ![c.kind] =
                                Append(@, [do |-> c.do, win |-> c.win, live |-> TRUE])]
                 /\ loop' = [loop EXCEPT !.answer = "awaited"]
  /\ UNCHANGED <<screen, hosts, tracked, override, masked, managing, spare>>

AnswerComes ==
  /\ loop.answer \in {"ok", "err"}
  /\ loop' = IF loop.answer = "ok" THEN NextCall ELSE GivesUp
  /\ UNCHANGED <<screen, worker, override, masked, started, managing, spare>>

\* recv_timeout elapses: the command stays in the channel.
AnswerIsLate ==
  /\ loop.answer = "awaited" /\ Mishap
  /\ LET k == Head(Program).kind
     IN  queue' = [queue EXCEPT ![k] = [@ EXCEPT ![Len(@)].live = FALSE]]
  /\ loop' = GivesUp
  /\ UNCHANGED <<screen, hosts, tracked, override, masked, started, managing>>

---------------------------------------------------------------------------

DesktopTurns ==
  \/ \E h \in Owners, w \in Wants : LayoutTurns(h, w)
  \/ \E h \in Owners \union {0} : ForegroundTurns(h)
  \/ \E h \in Owners : PopupTurns(h)
  \/ \E h \in Owners, s \in {"managed", "unmanaged", "unseen", "gone"} : StatusTurns(h, s)
  \/ \E h \in Owners, works \in BOOLEAN : CopyClicked(h, works)

WorkersTurn == (\E k \in Kinds : WorkerObeys(k)) \/ (\E h \in Owners : Prunes(h))

CycleGoesOn == CyclePlans \/ CycleEnds \/ ProgramEnds \/ LocalCall \/ WorkerCall \/ AnswerComes
CycleFails  == CyclePlansApart \/ LocalCallFails \/ AnswerIsLate

PresentationNext == DesktopTurns \/ WorkersTurn \/ CycleBegins \/ CycleGoesOn \/ Unwind \/ CycleFails

\* What the main loop has begun goes on, and the workers run.  No cycle has to begin:
\* live, only an observation or a command brings one.
PresentationFairness ==
  /\ WF_presentationVars(CycleGoesOn)
  /\ \A k \in Kinds : WF_presentationVars(WorkerObeys(k))
  /\ \A h \in Owners : WF_presentationVars(Prunes(h))

PresentationSpec == PresentationInit /\ [][PresentationNext]_presentationVars /\ PresentationFairness

---------------------------------------------------------------------------

Visible(k, h) == hosts[k][h] \in {"shown", "stray"}

\* What the user sees of a managed window is what the layout wants: a copy of the
\* windows to be copied and of no other (but for a stray or a blank one, which
\* nothing hides until the window needs another operation), slices and a clipped window where
\* it spills.
Dressed(h) ==
  /\ want[h] = "copied" /\ h \notin Ineligible => Visible("copy", h)
  /\ hosts["copy"][h] = "shown" => want[h] = "copied" /\ h \notin Ineligible
  /\ IF want[h] = "spilled" THEN Visible("scene", h) ELSE ~OnScreen("scene", h)
  /\ h \in masked <=> (want[h] = "spilled" \/ (want[h] = "copied" /\ h \in Ineligible))

\* Nothing changes any more.  What escapes its copy is not itself to be copied: the
\* worker would promote it as often as it is shown.
Calm == managing /\ \A h \in Owners : Escapes(h) => want[h] # "copied"

\* Whatever was late, refused, clicked or promoted behind the main loop's back,
\* once nothing changes any more and cycles still come every managed window is in its
\* place and dressed for it.  (But for the place of what no copy may be made of: nothing
\* brings that home.)
PresentationSettles ==
  <>[]Calm /\ []<>(loop.stage = "cleaning") => <>[](\A h \in ManagedOnes :
                     /\ Dressed(h)
                     /\ (want[h] = "copied" => h \notin Ineligible) => place[h] = TargetPlace(h))

\* An unwinding that reports no failure leaves nothing behind of the windows it
\* answers for, managed ones and owners of hosts, whatever commands were late: no
\* host of any kind, no clipped window, and nothing comes back.
UnwindLeavesNothing ==
  ~managing /\ loop.stage # "unwinding" /\ ~loop.failed =>
    \A h \in loop.owed : /\ \A k \in Kinds : ~OnScreen(k, h)
                        /\ h \in Alive => h \notin masked
=============================================================================
