------------------------------ MODULE Overview ------------------------------
(***************************************************************************)
(* The overview surface (apps/core-daemon/src/overview_controller.rs,      *)
(* overview_surface.rs, overview_surface/worker.rs and watch/support.rs):  *)
(* the main loop keeps it in step with the state, a worker thread draws    *)
(* and animates, and the keyboard hook asks the worker to make room for    *)
(* the screenshot tool of the shell.                                       *)
(*                                                                         *)
(* The main loop waits for the worker's answer, two seconds at most, and   *)
(* gives the surface up when there is none.  The hook goes on when there   *)
(* is none.  A picture is abstracted to the scene it shows (an animation   *)
(* shows the scene it leads to), `how` says whether it is drawn live or is *)
(* a frozen copy of the screen behind the screenshot tool.  A failure is a *)
(* call of the system that fails, or a wait that ends without an answer.   *)
(***************************************************************************)
EXTENDS Naturals, Sequences

CONSTANTS Scenes,      \* OverviewScene
          Nothing,     \* no scene
          MaxAsks,     \* bound: changes of the state
          MaxBreaks,   \* bound: failures
          MaxShots     \* bound: screenshots

ASSUME NothingAssumption == Nothing \notin Scenes

VARIABLES
  state,   \* [scene, managing]: build_overview_scene of the state, and management_enabled
  controller,    \* the main loop: [step, last, target]; step: "idle" without or "held" with a
           \* controller, "waiting" for an answer or "joining" the worker
  worker,  \* [stage, scene, target]; stage: "none", "waiting", "showing" or "closing"
  inbox,   \* the channel to the worker: <<kind, scene>>
  answer,  \* what the worker has answered: "none", "ok" or "error"
  screen,  \* [scene, how]; how: "hidden", "live" or "frozen"
  escape,  \* ShellOverlayEscapeState: [on, seen, gone, base]
  known,   \* OVERVIEW_VISUAL_SENDER: whether it is the one of this worker
  tool,    \* the screenshot tool: "away", "overlay" or "result"
  called,  \* keys that call the tool are held back by the hook, or on their way to it
  bounds    \* what the bounds leave

loopVars     == <<state, controller>>
workerVars   == <<worker, screen, escape>>
overviewVars == <<loopVars, workerVars, inbox, answer, known, tool, called, bounds>>

NoEscape == [on |-> FALSE, seen |-> FALSE, gone |-> FALSE, base |-> FALSE]
Hidden   == [scene |-> Nothing, how |-> "hidden"]
NoWorker == [stage |-> "none", scene |-> Nothing, target |-> Nothing]
Rested   == [NoWorker EXCEPT !.stage = "waiting"]

\* The daemon starts with a controller, and with a worker the hook knows.
OverviewInit ==
  /\ state = [scene |-> Nothing, managing |-> TRUE]
  /\ controller = [step |-> "held", last |-> Nothing, target |-> Nothing]
  /\ worker = Rested /\ inbox = <<>> /\ answer = "none"
  /\ screen = Hidden /\ escape = NoEscape
  /\ known = TRUE /\ tool = "away" /\ called = FALSE
  /\ bounds = [asks |-> MaxAsks, breaks |-> MaxBreaks, shots |-> MaxShots]

Breaks == bounds.breaks > 0 /\ bounds' = [bounds EXCEPT !.breaks = @ - 1]
Works  == UNCHANGED bounds

---------------------------------------------------------------------------
(* The main loop: sync_visual_surfaces after every report. *)

\* Events and commands, between two reports.
StateChanges ==
  /\ controller.step \in {"idle", "held"} /\ bounds.asks > 0
  /\ \E s \in Scenes \union {Nothing}, b \in BOOLEAN : state' = [scene |-> s, managing |-> b]
  /\ bounds' = [bounds EXCEPT !.asks = @ - 1]
  /\ UNCHANGED <<controller, workerVars, inbox, answer, known, tool, called>>

Wanted == IF state.managing THEN state.scene ELSE Nothing

\* ensure_overview_surface: the sender of the first worker stays the one that the
\* hook knows, the OnceLock keeps it.
Spawns ==
  /\ controller.step = "idle" /\ Wanted # Nothing
  /\ \/ /\ controller' = [controller EXCEPT !.step = "held", !.last = Nothing]
        /\ worker' = Rested /\ Works
     \/ Breaks /\ UNCHANGED <<controller, worker>>
  /\ known' = FALSE /\ inbox' = <<>> /\ answer' = "none"
  /\ UNCHANGED <<state, screen, escape, tool, called>>

\* OverviewSurfaceController::sync
Syncs ==
  /\ controller.step = "held" /\ controller.last # Wanted
  /\ IF worker.stage = "none"
     THEN controller' = [controller EXCEPT !.step = "idle"] /\ UNCHANGED inbox
     ELSE /\ controller' = [step |-> "waiting", target |-> Wanted,
                      last |-> IF state.managing THEN controller.last ELSE Nothing]
          /\ inbox' = Append(inbox, IF Wanted = Nothing THEN <<"hide", Nothing>>
                                                        ELSE <<"show", Wanted>>)
  /\ answer' = "none"
  /\ UNCHANGED <<state, workerVars, known, tool, called, bounds>>

Answered ==
  /\ controller.step = "waiting" /\ answer = "ok"
  /\ controller' = [controller EXCEPT !.step = "held", !.last = controller.target]
  /\ UNCHANGED <<state, workerVars, inbox, answer, known, tool, called, bounds>>

\* Drop of the overlay: the worker is told to end and joined.
GivesUp == controller' = [controller EXCEPT !.step = "joining"] /\ inbox' = Append(inbox, <<"shutdown", Nothing>>)

\* build_overview_scene finds no layout for the open overview.
SceneFails ==
  /\ controller.step = "held" /\ Wanted # Nothing /\ Breaks
  /\ GivesUp
  /\ UNCHANGED <<state, workerVars, answer, known, tool, called>>

\* Mistake: the surface stays when the worker is late.
StaysWhenLate ==
  /\ controller.step = "waiting" /\ answer # "ok"
  /\ \/ (answer = "error" \/ worker.stage = "none") /\ Works /\ GivesUp
     \/ answer = "none" /\ Breaks /\ controller' = [controller EXCEPT !.step = "held"] /\ UNCHANGED inbox
  /\ UNCHANGED <<state, workerVars, answer, known, tool, called>>

\* An error, a worker that is gone, or two seconds without an answer.
Unanswered ==
  /\ controller.step = "waiting" /\ answer # "ok"
  /\ \/ (answer = "error" \/ worker.stage = "none") /\ Works
     \/ answer = "none" /\ Breaks
  /\ GivesUp
  /\ UNCHANGED <<state, workerVars, answer, known, tool, called>>

Joined ==
  /\ controller.step = "joining" /\ worker.stage = "none"
  /\ controller' = [controller EXCEPT !.step = "idle"]
  /\ inbox' = <<>>
  /\ UNCHANGED <<state, workerVars, answer, known, tool, called, bounds>>

---------------------------------------------------------------------------
(* The worker: run_overlay_loop. *)

Next1(kind) == worker.stage = "waiting" /\ inbox # <<>> /\ Head(inbox)[1] = kind

Says(a) == answer' = a /\ UNCHANGED <<controller, state, known, tool, called>>

\* A scene that is already there is there.  Otherwise the first frame of the
\* animation, of the opening or from the scene before.
ShowBegins ==
  /\ Next1("show") /\ inbox' = Tail(inbox)
  /\ LET s == Head(inbox)[2]
     IN  \/ /\ worker.scene = s /\ Says("ok") /\ Works
            /\ UNCHANGED workerVars
         \/ /\ worker.scene # s /\ Says(answer) /\ Works
            /\ worker' = [worker EXCEPT !.stage = "showing", !.target = s]
            /\ screen' = [scene |-> s, how |-> "live"]
            /\ UNCHANGED escape
         \/ /\ worker.scene # s /\ Says("error") /\ Breaks
            /\ screen' \in {screen, [scene |-> s, how |-> "live"]}
            /\ UNCHANGED <<worker, escape>>

\* The last frame; behind a screenshot it is frozen again.
ShowEnds ==
  /\ worker.stage = "showing"
  /\ \/ /\ Says("ok") /\ Works
        /\ worker' = [worker EXCEPT !.stage = "waiting", !.scene = worker.target]
        /\ screen' = IF escape.on THEN [screen EXCEPT !.how = "frozen"] ELSE screen
     \/ /\ Says("error") /\ Breaks
        /\ worker' = [worker EXCEPT !.stage = "waiting"]
        /\ UNCHANGED screen
  /\ UNCHANGED <<escape, inbox>>

\* The scene is taken before the animation; without one there is none.
HideBegins ==
  /\ Next1("hide") /\ inbox' = Tail(inbox)
  /\ escape' = NoEscape
  /\ IF worker.scene = Nothing
     THEN /\ screen' = Hidden /\ Says("ok")
          /\ UNCHANGED worker
     ELSE /\ worker' = [worker EXCEPT !.stage = "closing", !.scene = Nothing]
          /\ screen' = [screen EXCEPT !.how = "live"] /\ Says(answer)
  /\ Works

HideEnds ==
  /\ worker.stage = "closing"
  /\ worker' = [worker EXCEPT !.stage = "waiting"]
  /\ \/ Says("ok") /\ Works /\ screen' = Hidden
     \/ Says("error") /\ Breaks /\ UNCHANGED screen
  /\ UNCHANGED <<escape, inbox>>

\* LowerForShellOverlay: a frozen copy of the screen, below the screenshot tool.  What
\* fails may leave the copy there, and no session that ends it.
Lowers ==
  /\ Next1("lower") /\ inbox' = Tail(inbox)
  /\ \/ /\ worker.scene # Nothing /\ Works
        /\ screen' = [screen EXCEPT !.how = "frozen"]
        /\ escape' = [NoEscape EXCEPT !.on = TRUE, !.base = (tool = "result")]
     \/ worker.scene = Nothing /\ Works /\ UNCHANGED <<screen, escape>>
     \/ /\ worker.scene # Nothing /\ Breaks
        /\ screen' \in {screen, [screen EXCEPT !.how = "frozen"]}
        /\ UNCHANGED escape
  /\ Says(answer)
  /\ UNCHANGED worker

ShutsDown ==
  /\ Next1("shutdown")
  /\ worker' = NoWorker /\ screen' = Hidden /\ escape' = NoEscape /\ inbox' = <<>>
  /\ Says(answer) /\ Works

\* should_restore, while there is a scene.  Windows of the tool that were there
\* before do not count.
Sighted  == tool = "overlay" \/ (tool = "result" /\ ~escape.base)

\* Mistake: a tool that was there before the screenshot is waited for in vain.
RestoresWhenSeen == ~Sighted /\ escape.seen /\ escape.gone

\* What was there before is enough when nothing else came in time.
Restores == ~Sighted /\ IF escape.seen THEN escape.gone ELSE escape.base

Watches == worker.stage = "waiting" /\ escape.on /\ worker.scene # Nothing

Polls ==
  /\ Watches
  /\ escape' = [escape EXCEPT !.seen = @ \/ Sighted,
                              !.gone = ~Sighted /\ (@ \/ escape.seen)]
  /\ UNCHANGED <<loopVars, worker, screen, inbox, answer, known, tool, called, bounds>>

\* The time of SHELL_OVERLAY_RESTORE_SETTLE or of the baseline recovery is over.  A
\* failure ends the thread, and with it its windows.
Thaws ==
  /\ Watches /\ Restores
  /\ \/ /\ screen' = [screen EXCEPT !.how = "live"] /\ Works
        /\ UNCHANGED <<worker, inbox>>
     \/ /\ Breaks
        /\ screen' = Hidden /\ worker' = NoWorker /\ inbox' = <<>>
  /\ escape' = NoEscape
  /\ Says(answer)

---------------------------------------------------------------------------
(* The keyboard hook and the user. *)

\* lower_overview_surface_for_shell_overlay: the hook waits a moment for the worker and
\* then replays the keys.  Without a worker at the other end of the sender the hook
\* knows, only the replay.
ScreenshotKeys ==
  /\ ~called /\ called' = TRUE
  /\ bounds.shots > 0 /\ bounds' = [bounds EXCEPT !.shots = @ - 1]
  /\ inbox' = IF known /\ worker.stage # "none" THEN Append(inbox, <<"lower", Nothing>>) ELSE inbox
  /\ UNCHANGED <<loopVars, workerVars, answer, known, tool>>

\* The tool comes up behind the replayed keys, or does not.
ToolComes ==
  /\ called /\ called' = FALSE
  /\ tool' \in {tool, "overlay"}
  /\ UNCHANGED <<loopVars, workerVars, inbox, answer, known, bounds>>

ToolMoves ==
  /\ tool # "away"
  /\ tool' \in IF tool = "overlay" THEN {"result", "away"} ELSE {"away"}
  /\ UNCHANGED <<loopVars, workerVars, inbox, answer, known, called, bounds>>

---------------------------------------------------------------------------

MainActs   == Spawns \/ Syncs \/ Answered \/ Unanswered \/ Joined
WorkerActs == ShowBegins \/ ShowEnds \/ HideBegins \/ HideEnds \/ Lowers \/ ShutsDown

OverviewNext == \/ StateChanges \/ MainActs \/ SceneFails \/ WorkerActs \/ Polls \/ Thaws
                \/ ScreenshotKeys \/ ToolComes \/ ToolMoves

\* The main loop and the worker run, and time passes.  No scene has to fail.
OverviewFairness ==
  /\ WF_overviewVars(MainActs)
  /\ WF_overviewVars(WorkerActs)
  /\ WF_overviewVars(Polls)
  /\ WF_overviewVars(Thaws)

OverviewSpec == OverviewInit /\ [][OverviewNext]_overviewVars /\ OverviewFairness

---------------------------------------------------------------------------

Promise == INSTANCE OverviewPromise WITH asked <- Wanted, seen <- screen.scene

\* The surface keeps the promise of OverviewPromise: whatever answer is late or
\* fails, a scene is drawn only while the state asks for it, and one that is not
\* asked for any more does not stay on the screen.
KeepsPromise == Promise!PromiseSpec

\* A frozen overview is drawn live again once the screenshot tool is gone, unless
\* the worker never saw a window of the tool.
ThawsInTheEnd ==
  <>[](tool = "away") => []<>(screen.how # "frozen" \/ ~(escape.seen \/ escape.base))
=============================================================================
