-------------------------- MODULE OverviewPromise --------------------------
(* What the overview surface promises to the rest of the daemon: whatever   *)
(* it puts on the screen is what the state asks for at that moment, and a   *)
(* picture nobody asks for any more does not stay.  It may show nothing at  *)
(* any time: the overview can fail.                                         *)
CONSTANTS Scenes,  \* the pictures of an open overview
          Nothing  \* the overview is closed

VARIABLES asked,   \* what the state asks for
          seen     \* what is on the screen

promiseVars == <<asked, seen>>

Pictures == Scenes \union {Nothing}

PromiseInit == asked = Nothing /\ seen = Nothing

\* The state changes.
Asks == asked' \in Pictures /\ UNCHANGED seen

\* The screen changes.
Follows == seen' \in {asked, Nothing} /\ UNCHANGED asked

Clears == seen \notin {asked, Nothing} /\ Follows

PromiseSafety == PromiseInit /\ [][Asks \/ Follows]_promiseVars
PromiseSpec   == PromiseSafety /\ WF_promiseVars(Clears)
============================================================================
