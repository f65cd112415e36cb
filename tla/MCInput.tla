------------------------------ MODULE MCInput ------------------------------
(* The input of the daemon, and the overview it works on: one hook on a     *)
(* keyboard, the listeners under reloads, the touchpad, the mouse, and the  *)
(* surface of the overview.  One of them takes its steps, the others rest   *)
(* in one of their initial states.                                          *)
EXTENDS MCHotkeys, Listeners, Touchpad, Overview, ManualResize

VARIABLE part  \* the part that takes steps

inputParts == <<part, vars, listenerVars, touchVars, overviewVars, dragVars>>

ThreeChords == {[mods |-> {"Win"}, repeats |-> FALSE],
                [mods |-> {"Win", "Ctrl"}, repeats |-> TRUE],
                [mods |-> {"Ctrl"}, repeats |-> FALSE]}
NoChords    == {}

SmallSteps    == {<<0, 0>>, <<1, 0>>, <<1, 1>>, <<0, 1>>}
BoundGestures == (3..4) \X {"Left", "Right", "Up"}

InputInit ==
  /\ part \in {"hook", "listeners", "touchpad", "mouse", "overview"}
  /\ Init /\ ListenersInit /\ TouchpadInit /\ OverviewInit /\ ManualResizeInit

HookPart      == part = "hook" /\ Next
                 /\ UNCHANGED <<part, listenerVars, touchVars, overviewVars, dragVars>>
ListenersPart == part = "listeners" /\ ListenersNext
                 /\ UNCHANGED <<part, vars, touchVars, overviewVars, dragVars>>
TouchpadPart  == part = "touchpad" /\ TouchpadNext
                 /\ UNCHANGED <<part, vars, listenerVars, overviewVars, dragVars>>
MousePart     == part = "mouse" /\ ManualResizeNext
                 /\ UNCHANGED <<part, vars, listenerVars, touchVars, overviewVars>>
OverviewPart  == part = "overview" /\ OverviewNext
                 /\ UNCHANGED <<part, vars, listenerVars, touchVars, dragVars>>

InputNext == HookPart \/ ListenersPart \/ TouchpadPart \/ MousePart \/ OverviewPart

\* The fairness of the overview and of the mouse resize, when they take
\* the steps.
InputFairness ==
  /\ WF_overviewVars(part = "overview" /\ MainActs)
  /\ WF_overviewVars(part = "overview" /\ WorkerActs)
  /\ WF_overviewVars(part = "overview" /\ Polls)
  /\ WF_overviewVars(part = "overview" /\ Thaws)
  /\ WF_dragVars(part = "mouse" /\ ControllerTurns)
  /\ WF_dragVars(part = "mouse" /\ Draws)

InputSpec == InputInit /\ [][InputNext]_inputParts /\ InputFairness
============================================================================
