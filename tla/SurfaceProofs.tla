---------------------------- MODULE SurfaceProofs ----------------------------
(***************************************************************************)
(* Proofs about the two surfaces a thread of their own draws, for any      *)
(* scenes, screen, tolerance and bounds.                                   *)
(*                                                                         *)
(* The overview shows nothing the state does not ask for, however often    *)
(* anything changes, fails or is late: the safety of OverviewPromise.      *)
(* Whatever is on its way to the screen is what the state asks for, because*)
(* the main loop waits, and changes no state, while a scene is on its way: *)
(* that is the inductive invariant InStep.                                 *)
(*                                                                         *)
(* The mouse resize lets no click reach the applications by half.          *)
(* ClicksStayWhole is not inductive: it says nothing while the hook is not *)
(* in place, and a hook that starts must find the button as the            *)
(* applications know it; nor that the hook keeps a release only after a    *)
(* press it has kept.  HookAgrees adds both.  While the daemon ends the    *)
(* hook goes with a kept press: it never comes back.  DragAgrees says what *)
(* the main loop can rely on when it takes the hook's events: presses and  *)
(* releases alternate, the last one is what the hook holds, and a drag that*)
(* runs still has the release of its own press ahead.                      *)
(***************************************************************************)
EXTENDS Overview, ManualResize, TLAPS
---------------------------------------------------------------------------
(* The overview. *)

Pictures == Scenes \union {Nothing}
Messages == {"show", "hide", "lower", "shutdown"} \X Pictures

\* The messages the main loop waits for an answer to.
IsOrder(m) == m[1] \in {"show", "hide"}

OneOrder(q)        == \A i, j \in 1..Len(q) : IsOrder(q[i]) /\ IsOrder(q[j]) => i = j
NoOrder(q)         == \A i \in 1..Len(q) : ~IsOrder(q[i])
ShowsOnly(q, s)    == \A i \in 1..Len(q) : q[i][1] = "show" => q[i][2] = s

\* The records have their fields, the scenes are scenes.
Shape ==
  /\ state \in [scene : Pictures, managing : BOOLEAN]
  /\ controller \in [step : {"idle", "held", "waiting", "joining"}, last : Pictures, target : Pictures]
  /\ worker \in [stage : {"none", "waiting", "showing", "closing"}, scene : Pictures, target : Pictures]
  /\ screen \in [scene : Pictures, how : {"hidden", "live", "frozen"}]
  /\ inbox \in Seq(Messages)

Animates == worker.stage \in {"showing", "closing"}

\* There is one order at a time, in the channel or carried out, and while there is
\* one the main loop waits for it; a scene on its way is the one asked for.
InStep ==
  /\ OneOrder(inbox)
  /\ Animates => NoOrder(inbox)
  /\ Animates \/ ~NoOrder(inbox) =>
       /\ controller.step \in {"waiting", "joining"}
       /\ controller.step = "waiting" => answer = "none"
  /\ ShowsOnly(inbox, Wanted)
  /\ worker.stage = "showing" => worker.target = Wanted

---------------------------------------------------------------------------
(* The channel. *)

\* What is left of the channel when its first message is taken.
LEMMA Taken ==
  ASSUME NEW q \in Seq(Messages), q # <<>>, NEW s, OneOrder(q), ShowsOnly(q, s)
  PROVE  /\ Head(q) \in Messages /\ Tail(q) \in Seq(Messages)
         /\ OneOrder(Tail(q)) /\ ShowsOnly(Tail(q), s)
         /\ NoOrder(q) => NoOrder(Tail(q))
         /\ IsOrder(Head(q)) => NoOrder(Tail(q))
         /\ Head(q)[1] = "show" => Head(q)[2] = s
         /\ IsOrder(Head(q)) => ~NoOrder(q)
<1>1. Head(q) = q[1] /\ Head(q) \in Messages /\ Tail(q) \in Seq(Messages) /\ 1 \in 1..Len(q)
  OBVIOUS
<1>2. \A i \in 1..Len(Tail(q)) : Tail(q)[i] = q[i + 1] /\ i + 1 \in 1..Len(q) /\ i + 1 # 1
  OBVIOUS
<1>3. OneOrder(Tail(q))
  <2>1. SUFFICES ASSUME NEW i \in 1..Len(Tail(q)), NEW j \in 1..Len(Tail(q)),
                        IsOrder(Tail(q)[i]), IsOrder(Tail(q)[j])
                 PROVE  i = j
    BY DEF OneOrder
  <2>2. i + 1 = j + 1
    BY <1>2, <2>1 DEF OneOrder
  <2> QED  BY <2>2
<1>4. ShowsOnly(Tail(q), s)
  BY <1>2 DEF ShowsOnly
<1>5. NoOrder(q) => NoOrder(Tail(q))
  BY <1>2 DEF NoOrder
<1>6. IsOrder(Head(q)) => NoOrder(Tail(q)) /\ ~NoOrder(q)
  BY <1>1, <1>2 DEF NoOrder, OneOrder
<1> QED
  BY <1>1, <1>3, <1>4, <1>5, <1>6 DEF ShowsOnly

\* A message that is no order changes nothing about the orders.
LEMMA Added ==
  ASSUME NEW q \in Seq(Messages), NEW m \in Messages, ~IsOrder(m),
         NEW s, OneOrder(q), ShowsOnly(q, s)
  PROVE  /\ Append(q, m) \in Seq(Messages)
         /\ OneOrder(Append(q, m)) /\ ShowsOnly(Append(q, m), s)
         /\ NoOrder(Append(q, m)) <=> NoOrder(q)
<1> DEFINE r == Append(q, m)
<1>1. r \in Seq(Messages) /\ Len(r) = Len(q) + 1 /\ r[Len(r)] = m
  OBVIOUS
<1>2. \A i \in 1..Len(r) : i # Len(r) => i \in 1..Len(q) /\ r[i] = q[i]
  OBVIOUS
<1>3. \A i \in 1..Len(q) : i \in 1..Len(r) /\ r[i] = q[i]
  OBVIOUS
<1> HIDE DEF r
<1>4. OneOrder(r)
  BY <1>1, <1>2 DEF OneOrder
<1>5. ShowsOnly(r, s)
  BY <1>1, <1>2 DEF ShowsOnly, IsOrder
<1>6. NoOrder(r) <=> NoOrder(q)
  BY <1>1, <1>2, <1>3 DEF NoOrder
<1> QED
  BY <1>1, <1>4, <1>5, <1>6 DEF r

\* The first order.
LEMMA Ordered ==
  ASSUME NEW q \in Seq(Messages), NEW m \in Messages, NoOrder(q), NEW s,
         m[1] = "show" => m[2] = s
  PROVE  Append(q, m) \in Seq(Messages) /\ OneOrder(Append(q, m)) /\ ShowsOnly(Append(q, m), s)
<1> DEFINE r == Append(q, m)
<1>1. r \in Seq(Messages) /\ Len(r) = Len(q) + 1 /\ r[Len(r)] = m
  OBVIOUS
<1>2. \A i \in 1..Len(r) : i # Len(r) => i \in 1..Len(q) /\ r[i] = q[i]
  OBVIOUS
<1> HIDE DEF r
<1>3. OneOrder(r)
  BY <1>2 DEF OneOrder, NoOrder
<1>4. ShowsOnly(r, s)
  BY <1>1, <1>2 DEF ShowsOnly, NoOrder, IsOrder
<1> QED
  BY <1>1, <1>3, <1>4 DEF r

\* An empty channel holds no order.
LEMMA Emptied == <<>> \in Seq(Messages) /\ NoOrder(<<>>) /\ OneOrder(<<>>) /\ \A s : ShowsOnly(<<>>, s)
BY DEF NoOrder, OneOrder, ShowsOnly

---------------------------------------------------------------------------
(* The invariant. *)

\* The surface starts with nothing on its way.
LEMMA StartsInStep == OverviewInit => Shape /\ InStep
BY Emptied DEF OverviewInit, Shape, InStep, Animates, Rested, NoWorker, Hidden, Pictures

\* The steps of the main loop, of the hook and of the user.
LEMMA MainKeepsStep ==
  ASSUME Shape, InStep,
         \/ StateChanges \/ Spawns \/ Syncs \/ SceneFails \/ Answered \/ Unanswered \/ Joined
         \/ ScreenshotKeys \/ ToolComes \/ ToolMoves
  PROVE  Shape' /\ InStep'
<1> USE DEF Pictures
<1>w. Wanted \in Pictures
  BY DEF Wanted, Shape
<1>1. CASE StateChanges
  <2>1. NoOrder(inbox) /\ ~Animates
    BY <1>1 DEF StateChanges, InStep
  <2>2. Shape'
    BY <1>1 DEF StateChanges, workerVars, Shape
  <2>3. inbox' = inbox /\ worker' = worker /\ ShowsOnly(inbox, Wanted')
    BY <1>1, <2>1 DEF StateChanges, workerVars, NoOrder, ShowsOnly, IsOrder
  <2> QED
    BY <2>1, <2>2, <2>3 DEF InStep, Animates
<1>2. CASE Spawns
  <2>1. inbox' = <<>> /\ controller'.step # "waiting" /\ Wanted' = Wanted
    BY <1>2 DEF Spawns, Shape, Wanted
  <2>2. ~Animates'
    BY <1>2 DEF Spawns, InStep, Animates, Rested, NoWorker
  <2>3. Shape'
    BY <1>2, Emptied DEF Spawns, Shape, Rested, NoWorker
  <2> QED
    BY <2>1, <2>2, <2>3, Emptied DEF InStep, Animates
<1>3. CASE Syncs
  <2>1. NoOrder(inbox) /\ ~Animates /\ worker' = worker /\ Wanted' = Wanted /\ answer' = "none"
    BY <1>3 DEF Syncs, InStep, workerVars, Wanted, Animates
  <2>2. CASE worker.stage = "none"
    <3>1. inbox' = inbox /\ controller' = [controller EXCEPT !.step = "idle"]
      BY <1>3, <2>2 DEF Syncs
    <3>2. Shape'
      BY <1>3, <3>1 DEF Syncs, workerVars, Shape
    <3> QED
      BY <2>1, <3>1, <3>2 DEF InStep, Animates
  <2>3. CASE worker.stage # "none"
    <3> DEFINE m == IF Wanted = Nothing THEN <<"hide", Nothing>> ELSE <<"show", Wanted>>
    <3>1. inbox' = Append(inbox, m) /\ controller'.step = "waiting" /\ inbox \in Seq(Messages)
      BY <1>3, <2>3 DEF Syncs, Shape
    <3>2. m \in Messages /\ (m[1] = "show" => m[2] = Wanted)
      BY <1>w DEF Messages
    <3> HIDE DEF m
    <3>3. inbox' \in Seq(Messages) /\ OneOrder(inbox') /\ ShowsOnly(inbox', Wanted)
      BY <2>1, <3>1, <3>2, Ordered
    <3>4. Shape'
      BY <1>3, <1>w, <2>3, <3>3 DEF Syncs, workerVars, Shape
    <3> QED
      BY <2>1, <3>1, <3>3, <3>4 DEF InStep, Animates
  <2> QED
    BY <2>2, <2>3
<1>4. CASE Answered
  <2>1. NoOrder(inbox) /\ ~Animates
    BY <1>4 DEF Answered, InStep
  <2>2. Shape'
    BY <1>4 DEF Answered, workerVars, Shape
  <2>3. inbox' = inbox /\ worker' = worker /\ Wanted' = Wanted
    BY <1>4 DEF Answered, workerVars, Wanted
  <2> QED
    BY <2>1, <2>2, <2>3 DEF InStep, Animates
<1>5. CASE Unanswered \/ SceneFails
  <2>1. /\ inbox' = Append(inbox, <<"shutdown", Nothing>>) /\ controller'.step = "joining"
        /\ worker' = worker /\ Wanted' = Wanted /\ inbox \in Seq(Messages)
    BY <1>5 DEF Unanswered, SceneFails, GivesUp, workerVars, Wanted, Shape
  <2>2. <<"shutdown", Nothing>> \in Messages /\ ~IsOrder(<<"shutdown", Nothing>>)
    BY DEF Messages, IsOrder
  <2>3. /\ inbox' \in Seq(Messages) /\ OneOrder(inbox') /\ ShowsOnly(inbox', Wanted)
        /\ NoOrder(inbox') <=> NoOrder(inbox)
    BY <2>1, <2>2, Added DEF InStep
  <2>4. Shape'
    BY <1>5, <2>3 DEF Unanswered, SceneFails, GivesUp, workerVars, Shape
  <2> QED
    BY <2>1, <2>3, <2>4 DEF InStep, Animates
<1>6. CASE Joined
  <2>1. inbox' = <<>> /\ worker' = worker /\ ~Animates /\ Wanted' = Wanted
    BY <1>6 DEF Joined, workerVars, Animates, Wanted
  <2>2. Shape'
    BY <1>6, Emptied DEF Joined, workerVars, Shape
  <2> QED
    BY <2>1, <2>2, Emptied DEF InStep, Animates
<1>7. CASE ScreenshotKeys
  <2>1. <<"lower", Nothing>> \in Messages /\ ~IsOrder(<<"lower", Nothing>>)
    BY DEF Messages, IsOrder
  <2>2. /\ inbox' = inbox \/ inbox' = Append(inbox, <<"lower", Nothing>>)
        /\ controller' = controller /\ answer' = answer /\ worker' = worker /\ Wanted' = Wanted
        /\ inbox \in Seq(Messages)
    BY <1>7 DEF ScreenshotKeys, loopVars, workerVars, Wanted, Shape
  <2>3. /\ inbox' \in Seq(Messages) /\ OneOrder(inbox') /\ ShowsOnly(inbox', Wanted)
        /\ NoOrder(inbox') <=> NoOrder(inbox)
    BY <2>1, <2>2, Added DEF InStep
  <2>4. Shape'
    BY <1>7, <2>3 DEF ScreenshotKeys, loopVars, workerVars, Shape
  <2> QED
    BY <2>2, <2>3, <2>4 DEF InStep, Animates
<1>8. CASE ToolComes \/ ToolMoves
  BY <1>8 DEF ToolComes, ToolMoves, loopVars, workerVars, Shape, InStep, Animates, Wanted
<1> QED
  BY <1>1, <1>2, <1>3, <1>4, <1>5, <1>6, <1>7, <1>8

\* The steps of the worker.
LEMMA WorkerKeepsStep ==
  ASSUME Shape, InStep, WorkerActs \/ Polls \/ Thaws
  PROVE  Shape' /\ InStep'
<1> USE DEF Pictures
<1>w. Wanted' = Wanted
  BY DEF WorkerActs, ShowBegins, ShowEnds, HideBegins, HideEnds, Lowers, ShutsDown, Polls, Thaws,
         Says, loopVars, Wanted
<1>c. controller' = controller
  BY DEF WorkerActs, ShowBegins, ShowEnds, HideBegins, HideEnds, Lowers, ShutsDown, Polls, Thaws,
         Says, loopVars
<1>t. ASSUME NEW kind, Next1(kind)
      PROVE  /\ Head(inbox) \in Messages /\ Tail(inbox) \in Seq(Messages)
             /\ OneOrder(Tail(inbox)) /\ ShowsOnly(Tail(inbox), Wanted)
             /\ NoOrder(inbox) => NoOrder(Tail(inbox))
             /\ IsOrder(Head(inbox)) => NoOrder(Tail(inbox)) /\ ~NoOrder(inbox)
             /\ Head(inbox)[1] = "show" => Head(inbox)[2] = Wanted
  BY <1>t, Taken DEF Next1, Shape, InStep
<1>1. CASE ShowBegins
  <2>1. /\ Next1("show") /\ inbox' = Tail(inbox) /\ Head(inbox)[1] = "show" /\ IsOrder(Head(inbox))
    BY <1>1 DEF ShowBegins, Next1, IsOrder
  <2>2. /\ NoOrder(inbox') /\ inbox' \in Seq(Messages) /\ OneOrder(inbox') /\ ShowsOnly(inbox', Wanted)
        /\ ~NoOrder(inbox) /\ Head(inbox)[2] = Wanted /\ Wanted \in Pictures
    BY <1>t, <2>1 DEF Messages
  <2>3. /\ worker' = worker \/ worker' = [worker EXCEPT !.stage = "showing", !.target = Wanted]
        /\ worker' # worker => answer' = answer
    BY <1>1, <2>2 DEF ShowBegins, Says, workerVars
  <2>s. /\ screen' = screen \/ screen' = [scene |-> Wanted, how |-> "live"]
        /\ state' = state
    BY <1>1, <2>2 DEF ShowBegins, Says, workerVars
  <2>p. screen' \in [scene : Pictures, how : {"hidden", "live", "frozen"}]
    BY <2>2, <2>s DEF Shape
  <2>q. worker' \in [stage : {"none", "waiting", "showing", "closing"}, scene : Pictures, target : Pictures]
    BY <2>2, <2>3 DEF Shape
  <2>4. Shape'
    BY <1>c, <2>2, <2>s, <2>p, <2>q DEF Shape
  <2>5. ~Animates
    BY <2>2 DEF InStep
  <2> QED
    BY <1>w, <1>c, <2>2, <2>3, <2>4, <2>5 DEF InStep, Animates, Shape
<1>2. CASE ShowEnds
  <2>1. /\ inbox' = inbox /\ worker'.stage = "waiting" /\ NoOrder(inbox)
    BY <1>2 DEF ShowEnds, Shape, InStep, Animates
  <2>2. Shape'
    BY <1>2 DEF ShowEnds, Says, Shape
  <2> QED
    BY <1>w, <1>c, <2>1, <2>2 DEF InStep, Animates
<1>3. CASE HideBegins
  <2>1. /\ Next1("hide") /\ inbox' = Tail(inbox) /\ IsOrder(Head(inbox))
    BY <1>3 DEF HideBegins, Next1, IsOrder
  <2>2. /\ NoOrder(inbox') /\ inbox' \in Seq(Messages) /\ OneOrder(inbox') /\ ShowsOnly(inbox', Wanted)
        /\ ~NoOrder(inbox)
    BY <1>t, <2>1
  <2>3. /\ worker' = worker \/ worker' = [worker EXCEPT !.stage = "closing", !.scene = Nothing]
        /\ worker' # worker => answer' = answer
    BY <1>3 DEF HideBegins, Says
  <2>s. /\ screen' = Hidden \/ screen' = [screen EXCEPT !.how = "live"]
        /\ state' = state
    BY <1>3 DEF HideBegins, Says
  <2>p. screen' \in [scene : Pictures, how : {"hidden", "live", "frozen"}]
    BY <2>s DEF Hidden, Shape
  <2>q. worker' \in [stage : {"none", "waiting", "showing", "closing"}, scene : Pictures, target : Pictures]
    BY <2>3 DEF Shape
  <2>4. Shape'
    BY <1>c, <2>2, <2>s, <2>p, <2>q DEF Shape
  <2>5. ~Animates
    BY <2>2 DEF InStep
  <2> QED
    BY <1>w, <1>c, <2>2, <2>3, <2>4, <2>5 DEF InStep, Animates, Shape
<1>4. CASE HideEnds
  <2>1. /\ inbox' = inbox /\ worker'.stage = "waiting" /\ NoOrder(inbox)
    BY <1>4 DEF HideEnds, Shape, InStep, Animates
  <2>2. Shape'
    BY <1>4 DEF HideEnds, Says, Hidden, Shape
  <2> QED
    BY <1>w, <1>c, <2>1, <2>2 DEF InStep, Animates
<1>5. CASE Lowers
  <2>1. /\ Next1("lower") /\ inbox' = Tail(inbox) /\ worker' = worker /\ answer' = answer
        /\ worker.stage = "waiting"
    BY <1>5 DEF Lowers, Next1, Says
  <2>2. /\ inbox' \in Seq(Messages) /\ OneOrder(inbox') /\ ShowsOnly(inbox', Wanted)
        /\ NoOrder(inbox) => NoOrder(inbox')
    BY <1>t, <2>1
  <2>3. Shape'
    BY <1>5, <2>2 DEF Lowers, Says, Shape
  <2> QED
    BY <1>w, <1>c, <2>1, <2>2, <2>3 DEF InStep, Animates
<1>6. CASE ShutsDown
  <2>1. inbox' = <<>> /\ worker' = NoWorker
    BY <1>6 DEF ShutsDown
  <2>2. Shape'
    BY <1>6, Emptied DEF ShutsDown, NoWorker, Hidden, Says, Shape
  <2> QED
    BY <1>w, <2>1, <2>2, Emptied DEF InStep, Animates, NoWorker
<1>7. CASE Polls
  BY <1>7 DEF Polls, loopVars, Shape, InStep, Animates, Wanted
<1>8. CASE Thaws
  <2>1. CASE worker' = worker /\ inbox' = inbox
    <3>1. Shape'
      BY <1>8, <2>1 DEF Thaws, Watches, Says, Hidden, Shape
    <3>2. answer' = answer
      BY <1>8 DEF Thaws, Says
    <3> QED
      BY <1>w, <1>c, <2>1, <3>1, <3>2 DEF InStep, Animates
  <2>2. CASE worker' = NoWorker /\ inbox' = <<>>
    <3>1. Shape'
      BY <1>8, <2>2, Emptied DEF Thaws, NoWorker, Says, Hidden, Shape
    <3> QED
      BY <1>w, <2>2, <3>1, Emptied DEF InStep, Animates, NoWorker
  <2> QED
    BY <1>8, <2>1, <2>2 DEF Thaws
<1> QED
  BY <1>1, <1>2, <1>3, <1>4, <1>5, <1>6, <1>7, <1>8 DEF WorkerActs

\* Whatever is on its way to the screen is what the state asks for: the surface is
\* in step with the main loop in every reachable state.
THEOREM AlwaysInStep == OverviewSpec => [](Shape /\ InStep)
<1>1. OverviewInit => Shape /\ InStep
  BY StartsInStep
<1>2. Shape /\ InStep /\ [OverviewNext]_overviewVars => (Shape /\ InStep)'
  <2>1. SUFFICES ASSUME Shape, InStep, [OverviewNext]_overviewVars  PROVE Shape' /\ InStep'
    OBVIOUS
  <2>2. CASE OverviewNext
    BY <2>1, <2>2, MainKeepsStep, WorkerKeepsStep DEF OverviewNext, MainActs
  <2>3. CASE UNCHANGED overviewVars
    BY <2>1, <2>3 DEF overviewVars, loopVars, workerVars, Shape, InStep, Animates, Wanted
  <2> QED
    BY <2>1, <2>2, <2>3
<1> QED
  BY <1>1, <1>2, PTL DEF OverviewSpec

---------------------------------------------------------------------------
(* The refinement. *)

\* A step of the overview is a step of the promise, or none.
LEMMA StepsArePromised ==
  ASSUME Shape, InStep, [OverviewNext]_overviewVars
  PROVE  [Promise!Asks \/ Promise!Follows]_(Promise!promiseVars)
<1> USE DEF Promise!promiseVars, Promise!Asks, Promise!Follows, Promise!Pictures
<1>1. CASE StateChanges
  <2>1. Wanted' \in Scenes \union {Nothing} /\ screen' = screen
    BY <1>1 DEF StateChanges, workerVars, Wanted
  <2> QED
    BY <2>1
<1>2. CASE Wanted' = Wanted /\ screen'.scene \in {screen.scene, Wanted, Nothing}
  BY <1>2
<1>3. CASE UNCHANGED overviewVars
  BY <1>3 DEF overviewVars, loopVars, workerVars, Wanted
<1>4. CASE \/ Spawns \/ Syncs \/ SceneFails \/ Answered \/ Unanswered \/ Joined \/ Polls
           \/ ScreenshotKeys \/ ToolComes \/ ToolMoves
  <2>1. Wanted' = Wanted /\ screen' = screen
    BY <1>4 DEF Spawns, Syncs, SceneFails, Answered, Unanswered, Joined, Polls, ScreenshotKeys,
                ToolComes, ToolMoves, GivesUp, loopVars, workerVars, Wanted
  <2> QED
    BY <2>1, <1>2
<1>5. CASE WorkerActs \/ Thaws
  <2>1. Wanted' = Wanted
    BY <1>5 DEF WorkerActs, ShowBegins, ShowEnds, HideBegins, HideEnds, Lowers, ShutsDown, Thaws,
                Says, Wanted
  <2>2. CASE ShowBegins
    <3>1. inbox # <<>> /\ Head(inbox)[1] = "show"
      BY <2>2 DEF ShowBegins, Next1
    <3>2. Head(inbox)[2] = Wanted
      BY <3>1, Taken DEF Shape, InStep
    <3> QED
      BY <1>2, <2>1, <2>2, <3>2 DEF ShowBegins, workerVars
  <2>3. CASE ShowEnds \/ HideBegins \/ HideEnds \/ Lowers \/ ShutsDown \/ Thaws
    BY <1>2, <2>1, <2>3 DEF ShowEnds, HideBegins, HideEnds, Lowers, ShutsDown, Thaws, Says, Hidden, Shape
  <2> QED
    BY <1>5, <2>2, <2>3 DEF WorkerActs
<1> QED
  BY <1>1, <1>3, <1>4, <1>5 DEF OverviewNext, MainActs

\* The surface implements the safety of OverviewPromise: it puts nothing on the
\* screen but what the state asks for at that moment.
THEOREM ImplementsPromise == OverviewSpec => Promise!PromiseSafety
<1>1. OverviewInit => Promise!PromiseInit
  BY DEF OverviewInit, Promise!PromiseInit, Wanted, Hidden
<1>2. Shape /\ InStep /\ [OverviewNext]_overviewVars
        => [Promise!Asks \/ Promise!Follows]_(Promise!promiseVars)
  BY StepsArePromised
<1> QED
  BY <1>1, <1>2, AlwaysInStep, PTL DEF OverviewSpec, Promise!PromiseSafety
---------------------------------------------------------------------------
(* The mouse resize. *)

Sides  == Spans \union {<<>>}
Edges  == {"None", "Left", "Right"}
Orders == {"Show", "Hide", "Shutdown"}
Clicks == [kind : {"BeginDrag"}, edge : Edges \ {"None"}] \union [kind : {"Release"}, x : 0..Screen]
Stages == {"preview", "hook", "idle", "drain", "follow", "closing", "gone"}

MouseTypes ==
  /\ mouse \in [button : BOOLEAN, super : BOOLEAN, at : 0..Screen, sees : BOOLEAN]
  /\ mouseHook \in [up : BOOLEAN, target : Sides, intercepted : BOOLEAN]

DragTypes ==
  /\ drag \in [pc : Stages, active : BOOLEAN, session : [edge : Edges, span : Sides],
               lost : BOOLEAN, focus : Sides]
  /\ preview \in [up : BOOLEAN, shown : BOOLEAN]
  /\ clicks \in Seq(Clicks)
  /\ orders \in Seq(Orders)
  /\ faults \in Nat

\* Types of the mouse, the hook, the controller and the channels.
ManualResizeTypes == MouseTypes /\ DragTypes

\* Before the hook starts the applications know the button; while it is in place
\* it has kept a press exactly when they do not.
HookAgrees ==
  /\ drag.pc \in {"preview", "hook"} =>
       ~mouseHook.up /\ ~mouseHook.intercepted /\ mouse.sees = mouse.button
  /\ mouseHook.up =>
       /\ mouse.sees => mouse.button
       /\ mouseHook.intercepted = (mouse.button /\ ~mouse.sees)

HookInv == ManualResizeTypes /\ HookAgrees

\* Presses and releases alternate; the last one on its way, if any, is what the hook
\* holds; while a drag runs, the next one is the release of its own press.
InTurn(queue, kept, runs) ==
  /\ \A i \in DOMAIN queue : i > 1 => queue[i].kind # queue[i - 1].kind
  /\ IF queue = <<>> THEN runs => kept
     ELSE /\ queue[Len(queue)].kind = "BeginDrag" <=> kept
          /\ runs => queue[1].kind = "Release"

\* A drag the main loop carries on with.
Resizing == drag.active /\ drag.pc \notin {"closing", "gone"}

\* The store has a session, of an edge and a column, exactly while a drag is on.
SessionOf(d) ==
  IF d.active THEN d.session.edge # "None" /\ d.session.span \in Spans
  ELSE d.session = NoSession

\* The events on their way, the hook, the drag and the store's session agree.
DragAgrees ==
  /\ InTurn(clicks, mouseHook.intercepted, Resizing)
  /\ drag.pc \in {"preview", "hook"} => ~drag.active /\ clicks = <<>>
  /\ SessionOf(drag)
-----------------------------------------------------------------------------
(* Steps that leave the mouse and the hook's promise alone.                 *)

\* What a step may do to the stage of the controller without starting a hook.
StaysStarted == drag'.pc \in {"preview", "hook"} => drag'.pc = drag.pc

\* Channels: what is sent and what is taken.
LEMMA ChannelTypes ==
  ASSUME NEW S, NEW queue \in Seq(S)
  PROVE  /\ \A item \in S : Append(queue, item) \in Seq(S)
         /\ queue # <<>> => Head(queue) \in S /\ Tail(queue) \in Seq(S)
OBVIOUS

\* The promise only looks at the mouse, the hook but for its target, and whether
\* the hook has yet to start.
LEMMA AgreementKept ==
  ASSUME HookAgrees, UNCHANGED mouse, StaysStarted,
         mouseHook'.up = mouseHook.up, mouseHook'.intercepted = mouseHook.intercepted
  PROVE  HookAgrees'
BY DEF HookAgrees, StaysStarted

\* Aiming changes nothing but the target.
LEMMA RetargetsKeeps ==
  ASSUME MouseTypes, DragTypes, Retargets
  PROVE  /\ mouseHook' \in [up : BOOLEAN, target : Sides, intercepted : BOOLEAN]
         /\ mouseHook'.up = mouseHook.up
         /\ mouseHook'.intercepted = mouseHook.intercepted
BY DEF MouseTypes, DragTypes, Retargets, HitRects, Sides

\* The daemon ends: the controller closes.
LEMMA EndsCloses ==
  ASSUME DragTypes, Ends
  PROVE  drag' = [drag EXCEPT !.pc = "closing"] /\ orders' \in Seq(Orders)
<1>1. "Shutdown" \in Orders
  BY DEF Orders
<1>2. QED
  BY <1>1, ChannelTypes DEF DragTypes, Ends

\* A call that fails is counted.
LEMMA FaultCounts ==
  ASSUME faults \in Nat, Fault
  PROVE  faults' \in Nat
BY DEF Fault

\* A command is sent, or the daemon ends.
LEMMA SendsTypes ==
  ASSUME DragTypes, NEW order \in Orders, NEW after, Sends(order, after)
  PROVE  /\ drag' = after \/ drag' = [drag EXCEPT !.pc = "closing"]
         /\ orders' \in Seq(Orders)
<1>1. CASE preview.up
  BY <1>1, ChannelTypes DEF DragTypes, Sends
<1>2. CASE ~preview.up
  BY <1>2, EndsCloses DEF Sends
<1>3. QED
  BY <1>1, <1>2

\* An edge is left, right or none.
LEMMA EdgeType ==
  ASSUME NEW rect, NEW x
  PROVE  ResizeEdge(rect, x) \in Edges
BY DEF ResizeEdge, Edges
-----------------------------------------------------------------------------
(* One lemma per part of the next-state relation.                           *)

\* A press the hook keeps sets both sides of the promise, one it passes on neither.
LEMMA PressesInv ==
  ASSUME HookInv, Presses
  PROVE  HookInv'
<1>1. PICK within \in BOOLEAN :
        IF Grabs(within)
        THEN /\ clicks' = Append(clicks,
                  [kind |-> "BeginDrag", edge |-> ResizeEdge(mouseHook.target, mouse.at)])
             /\ mouseHook' = [mouseHook EXCEPT !.intercepted = TRUE]
             /\ mouse' = [mouse EXCEPT !.button = TRUE]
        ELSE /\ mouse' = [mouse EXCEPT !.button = TRUE, !.sees = TRUE]
             /\ UNCHANGED <<mouseHook, clicks>>
  BY DEF Presses
<1>2. ~mouse.button /\ UNCHANGED <<drag, preview, orders, faults>>
  BY DEF Presses
<1>3. ManualResizeTypes'
  <2>1. Grabs(within) =>
          [kind |-> "BeginDrag", edge |-> ResizeEdge(mouseHook.target, mouse.at)] \in Clicks
    BY EdgeType DEF Clicks, Grabs
  <2>2. clicks' \in Seq(Clicks)
    <3> DEFINE press == [kind |-> "BeginDrag", edge |-> ResizeEdge(mouseHook.target, mouse.at)]
    <3>1. (clicks' = Append(clicks, press) /\ press \in Clicks) \/ UNCHANGED clicks
      BY <1>1, <2>1
    <3> HIDE DEF press
    <3>2. clicks \in Seq(Clicks)
      BY DEF HookInv, ManualResizeTypes, DragTypes
    <3>3. press \in Clicks => Append(clicks, press) \in Seq(Clicks)
      BY <3>2, ChannelTypes
    <3>4. QED
      BY <3>1, <3>2, <3>3
  <2>3. QED
    BY <1>1, <1>2, <2>2 DEF HookInv, ManualResizeTypes, MouseTypes, DragTypes
<1>4. HookAgrees'
  BY <1>1, <1>2 DEF HookInv, HookAgrees, ManualResizeTypes, MouseTypes, Grabs
<1>5. QED
  BY <1>3, <1>4 DEF HookInv

\* A release is kept exactly when its press was.
LEMMA ReleasesInv ==
  ASSUME HookInv, Releases
  PROVE  HookInv'
<1> DEFINE release == [kind |-> "Release", x |-> mouse.at]
<1>1. /\ UNCHANGED <<drag, preview, orders, faults>>
      /\ \/ /\ mouseHook.up /\ mouseHook.intercepted
            /\ clicks' = Append(clicks, release)
            /\ mouseHook' = [mouseHook EXCEPT !.intercepted = FALSE]
            /\ mouse' = [mouse EXCEPT !.button = FALSE]
         \/ /\ ~(mouseHook.up /\ mouseHook.intercepted)
            /\ mouse' = [mouse EXCEPT !.button = FALSE, !.sees = FALSE]
            /\ UNCHANGED <<mouseHook, clicks>>
      /\ mouse.button
  BY DEF Releases, KeepsRelease
<1>2. MouseTypes /\ DragTypes /\ HookAgrees
  BY DEF HookInv, ManualResizeTypes
<1>3. clicks' \in Seq(Clicks)
  <2>1. release \in Clicks /\ clicks \in Seq(Clicks)
    BY <1>2 DEF MouseTypes, DragTypes, Clicks
  <2> HIDE DEF release
  <2>2. QED
    BY <1>1, <2>1, ChannelTypes
<1> HIDE DEF release
<1>4. DragTypes'
  BY <1>1, <1>2, <1>3 DEF DragTypes
<1>5. MouseTypes'
  BY <1>1, <1>2 DEF MouseTypes
<1>6. HookAgrees'
  <2>1. CASE mouseHook.up /\ mouseHook.intercepted
    <3>1. /\ mouse'.button = FALSE /\ mouse'.sees = mouse.sees
          /\ mouseHook'.up = mouseHook.up /\ mouseHook'.intercepted = FALSE
      BY <1>1, <1>2, <2>1 DEF MouseTypes
    <3>2. drag' = drag
      BY <1>1
    <3>3. QED
      BY <1>2, <2>1, <3>1, <3>2 DEF HookAgrees
  <2>2. CASE ~(mouseHook.up /\ mouseHook.intercepted)
    <3>1. mouse'.button = FALSE /\ mouse'.sees = FALSE /\ mouseHook' = mouseHook
      BY <1>1, <1>2, <2>2 DEF MouseTypes
    <3>2. drag' = drag
      BY <1>1
    <3>3. QED
      BY <1>2, <2>2, <3>1, <3>2 DEF HookAgrees
  <2>3. QED
    BY <2>1, <2>2
<1>7. QED
  BY <1>4, <1>5, <1>6 DEF HookInv, ManualResizeTypes

\* The pointer and the Super key are not part of the promise.
LEMMA MovesInv ==
  ASSUME HookInv, Moves
  PROVE  HookInv'
<1>1. UNCHANGED <<mouseHook, clicks, drag, preview, orders, faults>>
  BY DEF Moves
<1>2. /\ mouse' \in [button : BOOLEAN, super : BOOLEAN, at : 0..Screen, sees : BOOLEAN]
      /\ mouse'.button = mouse.button
      /\ mouse'.sees = mouse.sees
  BY DEF Moves, HookInv, ManualResizeTypes, MouseTypes
<1>3. QED
  BY <1>1, <1>2 DEF HookInv, HookAgrees, ManualResizeTypes, MouseTypes, DragTypes

\* The preview starts before the hook.
LEMMA PreviewStartsInv ==
  ASSUME HookInv, PreviewStarts
  PROVE  HookInv'
<1>1. ManualResizeTypes'
  <2>1. faults' \in Nat
    BY FaultCounts DEF PreviewStarts, HookInv, ManualResizeTypes, DragTypes
  <2>2. UNCHANGED <<mouse, mouseHook, clicks, orders>>
    BY DEF PreviewStarts
  <2>3. preview' \in [up : BOOLEAN, shown : BOOLEAN]
    BY DEF PreviewStarts, HookInv, ManualResizeTypes, DragTypes
  <2>4. drag' \in [pc : Stages, active : BOOLEAN, session : [edge : Edges, span : Sides],
                   lost : BOOLEAN, focus : Sides]
    BY DEF PreviewStarts, HookInv, ManualResizeTypes, DragTypes, Stages
  <2>5. QED
    BY <2>1, <2>2, <2>3, <2>4 DEF HookInv, ManualResizeTypes, MouseTypes, DragTypes
<1>2. HookAgrees'
  BY DEF PreviewStarts, HookInv, HookAgrees, ManualResizeTypes, DragTypes, MouseTypes
<1>3. QED
  BY <1>1, <1>2 DEF HookInv

\* The hook starts with nothing kept, or the daemon ends.
LEMMA HookStartsInv ==
  ASSUME HookInv, HookStarts
  PROVE  HookInv'
<1>1. drag.pc = "hook" /\ UNCHANGED <<mouse, clicks, preview>>
  BY DEF HookStarts
<1>2. CASE mouseHook' = [mouseHook EXCEPT !.up = TRUE] /\ drag' = [drag EXCEPT !.pc = "idle"]
           /\ UNCHANGED <<orders, faults>>
  BY <1>1, <1>2
  DEF HookInv, HookAgrees, ManualResizeTypes, MouseTypes, DragTypes, Stages
<1>3. CASE Fault /\ Ends /\ UNCHANGED mouseHook
  <2>1. drag' = [drag EXCEPT !.pc = "closing"] /\ orders' \in Seq(Orders)
    BY <1>3, EndsCloses DEF HookInv, ManualResizeTypes
  <2>2. faults' \in Nat
    BY <1>3, FaultCounts DEF HookInv, ManualResizeTypes, DragTypes
  <2>3. ManualResizeTypes'
    BY <1>1, <1>3, <2>1, <2>2 DEF HookInv, ManualResizeTypes, MouseTypes, DragTypes, Stages
  <2>4. drag'.pc = "closing"
    BY <2>1 DEF HookInv, ManualResizeTypes, DragTypes
  <2>5. HookAgrees'
    BY <1>1, <1>3, <2>4 DEF HookInv, HookAgrees
  <2>6. QED
    BY <2>3, <2>5 DEF HookInv
<1>4. QED
  BY <1>2, <1>3 DEF HookStarts

\* The hook goes for good.
LEMMA HookEndsInv ==
  ASSUME HookInv, HookEnds
  PROVE  HookInv'
<1>1. MouseTypes /\ DragTypes
  BY DEF HookInv, ManualResizeTypes
<1>2. /\ drag' = [drag EXCEPT !.pc = "gone"]
      /\ mouseHook' = [mouseHook EXCEPT !.up = FALSE]
      /\ UNCHANGED <<mouse, clicks, preview, orders, faults>>
  BY DEF HookEnds
<1>3. DragTypes' /\ drag'.pc = "gone"
  BY <1>1, <1>2 DEF DragTypes, Stages
<1>4. MouseTypes' /\ mouseHook'.up = FALSE
  BY <1>1, <1>2 DEF MouseTypes
<1>5. QED
  BY <1>3, <1>4 DEF HookInv, HookAgrees, ManualResizeTypes

\* Moves of the focus, and the steps of the controller that send nothing.
LEMMA QuietStepsInv ==
  ASSUME HookInv, FocusMoves \/ Aims \/ DrainsOut
  PROVE  HookInv'
<1>1. CASE FocusMoves
  <2>1. PICK f \in Sides, l \in BOOLEAN : drag' = [drag EXCEPT !.focus = f, !.lost = l]
    BY <1>1 DEF FocusMoves, Sides
  <2>2. UNCHANGED <<mouse, mouseHook, clicks, preview, orders, faults>>
    BY <1>1 DEF FocusMoves
  <2>3. MouseTypes /\ DragTypes /\ HookAgrees
    BY DEF HookInv, ManualResizeTypes
  <2>4. DragTypes' /\ drag'.pc = drag.pc
    BY <2>1, <2>2, <2>3 DEF DragTypes
  <2>5. MouseTypes' /\ HookAgrees'
    BY <2>2, <2>3, <2>4 DEF MouseTypes, HookAgrees
  <2>6. QED
    BY <2>4, <2>5 DEF HookInv, ManualResizeTypes
<1>2. CASE Aims
  <2>1. /\ mouseHook' \in [up : BOOLEAN, target : Sides, intercepted : BOOLEAN]
        /\ mouseHook'.up = mouseHook.up
        /\ mouseHook'.intercepted = mouseHook.intercepted
    BY <1>2, RetargetsKeeps DEF Aims, HookInv, ManualResizeTypes, MouseTypes
  <2>2. drag' = [drag EXCEPT !.pc = "drain"] /\ UNCHANGED <<mouse, clicks, preview, orders, faults>>
    BY <1>2 DEF Aims
  <2>3. StaysStarted
    BY <2>2 DEF StaysStarted, HookInv, ManualResizeTypes, DragTypes
  <2>4. QED
    BY <2>1, <2>2, <2>3, AgreementKept
    DEF HookInv, ManualResizeTypes, MouseTypes, DragTypes, Stages
<1>3. CASE DrainsOut
  BY <1>3 DEF DrainsOut, HookInv, HookAgrees, ManualResizeTypes, MouseTypes, DragTypes, Stages
<1>4. QED
  BY <1>1, <1>2, <1>3

\* The steps of the controller that send a command.
LEMMA SendingStepsInv ==
  ASSUME HookInv, TakesBegin \/ TakesRelease \/ Cancels \/ Follows \/ Rests
  PROVE  HookInv'
<1> DEFINE Drags == [pc : Stages, active : BOOLEAN, session : [edge : Edges, span : Sides],
                     lost : BOOLEAN, focus : Sides]
<1>1. UNCHANGED <<mouse, preview>>
  BY DEF TakesBegin, TakesRelease, Cancels, Follows, Rests
<1>2. drag.pc \in {"drain", "follow"}
  BY DEF TakesBegin, TakesRelease, Cancels, Follows, Rests
<1>3. clicks' \in Seq(Clicks)
  <2>1. UNCHANGED clicks \/ (clicks # <<>> /\ clicks' = Tail(clicks))
    BY DEF TakesBegin, TakesRelease, Cancels, Follows, Rests
  <2>2. QED
    BY <2>1, ChannelTypes DEF HookInv, ManualResizeTypes, DragTypes
<1>4. faults' \in Nat
  <2>1. UNCHANGED faults \/ Fault
    BY DEF TakesBegin, TakesRelease, Cancels, Follows, Rests
  <2>2. QED
    BY <2>1, FaultCounts DEF HookInv, ManualResizeTypes, DragTypes
<1>5. /\ mouseHook' \in [up : BOOLEAN, target : Sides, intercepted : BOOLEAN]
      /\ mouseHook'.up = mouseHook.up
      /\ mouseHook'.intercepted = mouseHook.intercepted
  BY RetargetsKeeps
  DEF TakesBegin, TakesRelease, Cancels, Follows, Rests, HookInv, ManualResizeTypes, MouseTypes
<1>6. drag' \in Drags /\ StaysStarted /\ orders' \in Seq(Orders)
  <2>1. drag \in Drags /\ [drag EXCEPT !.pc = "closing"] \in Drags
    BY DEF HookInv, ManualResizeTypes, DragTypes, Stages
  <2>2. {"Show", "Hide"} \subseteq Orders
    BY DEF Orders
  <2>3. NoSession \in [edge : Edges, span : Sides]
    BY DEF NoSession, Edges, Sides
  <2>4. \A after, order : order \in {"Show", "Hide"} /\ Sends(order, after)
          /\ after \in Drags /\ after.pc \notin {"preview", "hook"} =>
            drag' \in Drags /\ StaysStarted /\ orders' \in Seq(Orders)
    BY <2>1, <2>2, SendsTypes DEF StaysStarted, HookInv, ManualResizeTypes
  <2>5. Ends => drag' \in Drags /\ StaysStarted /\ orders' \in Seq(Orders)
    BY <2>1, EndsCloses DEF StaysStarted, HookInv, ManualResizeTypes
  <2>6. UNCHANGED <<drag, orders>> => drag' \in Drags /\ StaysStarted /\ orders' \in Seq(Orders)
    BY <2>1 DEF StaysStarted, HookInv, ManualResizeTypes, DragTypes
  <2>7. CASE TakesBegin
    <3>1. CASE ~drag.active /\ drag.focus # <<>>
      <4> DEFINE after == [drag EXCEPT !.active = TRUE, !.lost = FALSE,
                             !.session = [edge |-> Head(clicks).edge, span |-> drag.focus]]
      <4>1. Sends("Show", after)
        BY <2>7, <3>1 DEF TakesBegin
      <4>2. clicks # <<>> /\ Head(clicks) \in Clicks /\ Head(clicks).kind = "BeginDrag"
        BY <2>7 DEF TakesBegin, HookInv, ManualResizeTypes, DragTypes
      <4>3. Head(clicks).edge \in Edges
        BY <4>2 DEF Clicks
      <4>4. after \in Drags /\ after.pc = drag.pc
        BY <2>1, <4>3
      <4>5. QED
        BY <1>2, <2>4, <4>1, <4>4
    <3>2. CASE ~(~drag.active /\ drag.focus # <<>>)
      BY <2>6, <2>7, <3>2 DEF TakesBegin
    <3>3. QED
      BY <3>1, <3>2
  <2>8. CASE TakesRelease
    <3>1. CASE ~drag.active /\ UNCHANGED <<mouseHook, drag, orders, faults>>
      BY <2>6, <3>1
    <3>2. ASSUME NEW placed \in Spans,
                 Sends("Hide", [drag EXCEPT !.active = FALSE, !.session = NoSession,
                                  !.pc = "idle", !.focus = placed])
          PROVE  drag' \in Drags /\ StaysStarted /\ orders' \in Seq(Orders)
      <4> DEFINE after == [drag EXCEPT !.active = FALSE, !.session = NoSession,
                             !.pc = "idle", !.focus = placed]
      <4>1. after \in Drags /\ after.pc = "idle"
        BY <2>1, <2>3 DEF Sides, Stages
      <4>2. QED
        BY <2>4, <3>2, <4>1
    <3>3. QED
      BY <2>5, <2>8, <3>1, <3>2 DEF TakesRelease
  <2>9. CASE Cancels
    <3> DEFINE after == [drag EXCEPT !.active = FALSE, !.session = NoSession, !.pc = "idle"]
    <3>1. after \in Drags /\ after.pc = "idle"
      BY <2>1, <2>3 DEF Stages
    <3>2. Sends("Hide", after)
      BY <2>9 DEF Cancels
    <3>3. QED
      BY <2>4, <3>1, <3>2
  <2>10. CASE Follows \/ Rests
    <3> DEFINE after == [drag EXCEPT !.pc = "idle"]
    <3>1. after \in Drags /\ after.pc = "idle"
      BY <2>1 DEF Stages
    <3>2. Sends("Show", after) \/ Sends("Hide", after) \/ Ends
      BY <2>10 DEF Follows, Rests
    <3>3. QED
      BY <2>4, <2>5, <3>1, <3>2
  <2>11. QED
    BY <2>7, <2>8, <2>9, <2>10
<1>7. HookAgrees'
  BY <1>1, <1>5, <1>6, AgreementKept DEF HookInv
<1>8. QED
  BY <1>1, <1>3, <1>4, <1>5, <1>6, <1>7 DEF HookInv, ManualResizeTypes, MouseTypes, DragTypes

\* The preview thread.
LEMMA DrawsInv ==
  ASSUME HookInv, Draws
  PROVE  HookInv'
<1>1. UNCHANGED <<mouse, mouseHook, clicks, drag>> /\ orders # <<>>
  BY DEF Draws
<1>2. faults' \in Nat
  <2>1. UNCHANGED faults \/ Fault
    BY DEF Draws, Shows, Hides, ClosesPreview
  <2>2. QED
    BY <2>1, FaultCounts DEF HookInv, ManualResizeTypes, DragTypes
<1>3. orders' \in Seq(Orders)
  <2>1. orders' = <<>> \/ orders' = Tail(orders)
    BY DEF Draws, Shows, Hides, ClosesPreview, PreviewDown
  <2>2. QED
    <3>1. orders \in Seq(Orders)
      BY DEF HookInv, ManualResizeTypes, DragTypes
    <3>2. Tail(orders) \in Seq(Orders)
      BY <1>1, <3>1, ChannelTypes
    <3>3. <<>> \in Seq(Orders)
      OBVIOUS
    <3>4. QED
      BY <2>1, <3>2, <3>3
<1>4. preview' \in [up : BOOLEAN, shown : BOOLEAN]
  <2>1. \/ preview' = [preview EXCEPT !.shown = TRUE]
        \/ preview' = [preview EXCEPT !.shown = FALSE]
        \/ preview' = [up |-> FALSE, shown |-> FALSE]
    BY DEF Draws, Shows, Hides, ClosesPreview, PreviewDown
  <2>2. preview \in [up : BOOLEAN, shown : BOOLEAN]
    BY DEF HookInv, ManualResizeTypes, DragTypes
  <2>3. [preview EXCEPT !.shown = TRUE] \in [up : BOOLEAN, shown : BOOLEAN]
    BY <2>2
  <2>4. [preview EXCEPT !.shown = FALSE] \in [up : BOOLEAN, shown : BOOLEAN]
    BY <2>2
  <2>5. [up |-> FALSE, shown |-> FALSE] \in [up : BOOLEAN, shown : BOOLEAN]
    OBVIOUS
  <2>6. QED
    BY <2>1, <2>3, <2>4, <2>5, Zenon
<1>5. QED
  BY <1>1, <1>2, <1>3, <1>4
  DEF HookInv, HookAgrees, ManualResizeTypes, MouseTypes, DragTypes
-----------------------------------------------------------------------------
\* The inductive invariant holds at the start.
LEMMA ManualResizeInitInv ==
  ASSUME ManualResizeInit
  PROVE  HookInv
BY ScreenAssumption
DEF ManualResizeInit, HookInv, HookAgrees, ManualResizeTypes, MouseTypes, DragTypes,
    NoSession, Sides, Edges, Stages

\* Every step of the mouse, the hook, the controller and the preview keeps it.
LEMMA ManualResizeNextInv ==
  ASSUME HookInv, [ManualResizeNext]_dragVars
  PROVE  HookInv'
<1>1. CASE UNCHANGED dragVars
  BY <1>1 DEF dragVars, HookInv, HookAgrees, ManualResizeTypes, MouseTypes, DragTypes
<1>2. CASE ManualResizeNext
  BY <1>2, PressesInv, ReleasesInv, MovesInv, QuietStepsInv, PreviewStartsInv, HookStartsInv,
     HookEndsInv, SendingStepsInv, DrawsInv
  DEF ManualResizeNext, ControllerTurns
<1>3. QED
  BY <1>1, <1>2

(* The events on their way.                                                 *)

\* An event is a press or a release.
LEMMA ClickKinds ==
  ASSUME NEW m \in Clicks
  PROVE  m.kind \in {"BeginDrag", "Release"} /\ (m.kind = "BeginDrag" => m.edge \in Edges \ {"None"})
BY DEF Clicks

\* A press follows a release, and a release a press.
LEMMA SentInTurn ==
  ASSUME NEW queue \in Seq(Clicks), NEW m \in Clicks, NEW kept \in BOOLEAN, NEW runs \in BOOLEAN,
         InTurn(queue, kept, runs), kept <=> m.kind = "Release"
  PROVE  InTurn(Append(queue, m), ~kept, runs)
<1> DEFINE sent == Append(queue, m)
<1>1. /\ sent \in Seq(Clicks) /\ Len(sent) = Len(queue) + 1 /\ sent[Len(sent)] = m
      /\ sent # <<>> /\ DOMAIN sent = 1..Len(sent) /\ DOMAIN queue = 1..Len(queue)
  OBVIOUS
<1>2. \A i \in 1..Len(sent) : i # Len(sent) => i \in 1..Len(queue) /\ sent[i] = queue[i]
  OBVIOUS
<1>3. Len(queue) \in Nat /\ (queue = <<>> <=> Len(queue) = 0)
  OBVIOUS
<1>4. m.kind \in {"BeginDrag", "Release"} /\ (~kept <=> m.kind = "BeginDrag")
  BY ClickKinds
<1> HIDE DEF sent
<1>5. ASSUME NEW i \in DOMAIN sent, i > 1
      PROVE  sent[i].kind # sent[i - 1].kind
  <2>0. i \in 1..Len(sent) /\ i - 1 \in 1..Len(sent) /\ i - 1 # Len(sent) /\ sent[i - 1] = queue[i - 1]
    BY <1>1, <1>2, <1>3, <1>5
  <2>1. CASE i # Len(sent)
    BY <1>1, <1>2, <1>5, <2>0, <2>1 DEF InTurn
  <2>2. CASE i = Len(sent)
    <3>1. i - 1 = Len(queue) /\ queue # <<>>
      BY <1>1, <1>3, <1>5, <2>2
    <3>2. queue[Len(queue)].kind = "BeginDrag" <=> kept
      BY <3>1 DEF InTurn
    <3> QED
      BY <1>1, <1>4, <2>0, <2>2, <3>1, <3>2
  <2> QED
    BY <2>1, <2>2
<1>6. sent[Len(sent)].kind = "BeginDrag" <=> ~kept
  BY <1>1, <1>4
<1>7. runs => sent[1].kind = "Release"
  <2>1. CASE queue = <<>>
    BY <1>1, <1>3, <2>1 DEF InTurn
  <2>2. CASE queue # <<>>
    <3>1. 1 \in 1..Len(sent) /\ 1 # Len(sent)
      BY <1>1, <1>3, <2>2
    <3> QED
      BY <1>2, <2>2, <3>1 DEF InTurn
  <2> QED
    BY <2>1, <2>2
<1>8. InTurn(sent, ~kept, runs)
  BY <1>1, <1>5, <1>6, <1>7 DEF InTurn
<1> QED
  BY <1>8 DEF sent

\* A press is taken while no drag runs, and its own release comes next; after a
\* release no drag runs.
LEMMA TakenInTurn ==
  ASSUME NEW queue \in Seq(Clicks), queue # <<>>, NEW kept \in BOOLEAN, NEW runs \in BOOLEAN,
         InTurn(queue, kept, runs)
  PROVE  /\ Head(queue).kind = "BeginDrag" =>
              ~runs /\ InTurn(Tail(queue), kept, TRUE) /\ InTurn(Tail(queue), kept, FALSE)
         /\ InTurn(Tail(queue), kept, FALSE)
<1> DEFINE rest == Tail(queue)
<1>1. /\ rest \in Seq(Clicks) /\ Len(queue) = Len(rest) + 1 /\ Head(queue) = queue[1]
      /\ DOMAIN rest = 1..Len(rest) /\ DOMAIN queue = 1..Len(queue) /\ Len(rest) \in Nat
      /\ (rest = <<>> <=> Len(rest) = 0)
  <2>1. rest \in Seq(Clicks) /\ Len(queue) = Len(rest) + 1 /\ Head(queue) = queue[1]
    OBVIOUS
  <2>2. DOMAIN queue = 1..Len(queue)
    OBVIOUS
  <2> HIDE DEF rest
  <2>3. DOMAIN rest = 1..Len(rest) /\ Len(rest) \in Nat /\ (rest = <<>> <=> Len(rest) = 0)
    BY <2>1
  <2> QED
    BY <2>1, <2>2, <2>3
<1>2. \A i \in 1..Len(rest) : rest[i] = queue[i + 1] /\ i + 1 \in 1..Len(queue)
  OBVIOUS
<1> HIDE DEF rest
<1>3. ASSUME NEW i \in DOMAIN rest, i > 1
      PROVE  rest[i].kind # rest[i - 1].kind
  <2>1. /\ i \in 1..Len(rest) /\ i - 1 \in 1..Len(rest) /\ (i - 1) + 1 = i
        /\ i + 1 \in DOMAIN queue /\ i + 1 > 1 /\ (i + 1) - 1 = i
    BY <1>1, <1>3
  <2>2. queue[i + 1].kind # queue[(i + 1) - 1].kind
    BY <2>1 DEF InTurn
  <2> QED
    BY <1>2, <2>1, <2>2
<1>4. rest # <<>> => rest[Len(rest)] = queue[Len(queue)]
  BY <1>1, <1>2
<1>5. InTurn(rest, kept, FALSE)
  BY <1>3, <1>4 DEF InTurn
<1>6. ASSUME Head(queue).kind = "BeginDrag"
      PROVE  ~runs /\ InTurn(rest, kept, TRUE)
  <2>1. ~runs
    BY <1>1, <1>6 DEF InTurn
  <2>2. CASE rest = <<>>
    <3>1. Len(queue) = 1
      BY <1>1, <2>2
    <3>2. kept
      BY <1>1, <1>6, <3>1 DEF InTurn
    <3> QED
      BY <1>5, <2>1, <2>2, <3>2 DEF InTurn
  <2>3. CASE rest # <<>>
    <3>1. 1 \in 1..Len(rest) /\ 2 \in DOMAIN queue
      BY <1>1, <2>3
    <3>2. queue[2].kind # queue[1].kind
      <4>1. \A i \in DOMAIN queue : i > 1 => queue[i].kind # queue[i - 1].kind
        BY DEF InTurn
      <4>2. 2 > 1 /\ 2 - 1 = 1
        OBVIOUS
      <4> QED
        BY <3>1, <4>1, <4>2
    <3>3. rest[1] = queue[2] /\ rest[1] \in Clicks
      BY <1>1, <1>2, <3>1
    <3>4. rest[1].kind = "Release"
      BY <1>1, <1>6, <3>2, <3>3, ClickKinds
    <3> QED
      BY <1>5, <2>1, <2>3, <3>4 DEF InTurn
  <2> QED
    BY <2>2, <2>3
<1> QED
  BY <1>5, <1>6 DEF rest

\* A drag may end at any time.
LEMMA EndsInTurn ==
  ASSUME NEW queue, NEW kept, NEW runs, InTurn(queue, kept, runs)
  PROVE  InTurn(queue, kept, FALSE)
BY DEF InTurn
-----------------------------------------------------------------------------
(* The drag.                                                                *)

\* The events and the hook do not move, and no drag begins.
LEMMA DragKept ==
  ASSUME HookInv, DragAgrees, clicks' = clicks, mouseHook'.intercepted = mouseHook.intercepted,
         Resizing' => Resizing, StaysStarted, SessionOf(drag'),
         drag'.pc \in {"preview", "hook"} => drag'.active = drag.active
  PROVE  DragAgrees'
<1>1. Resizing \in BOOLEAN /\ Resizing' \in BOOLEAN
  BY DEF Resizing
<1>2. InTurn(clicks, mouseHook.intercepted, Resizing')
  BY <1>1, EndsInTurn DEF DragAgrees, InTurn
<1>3. SessionOf(drag)'
  BY DEF SessionOf, Spans, NoSession
<1> QED
  BY <1>2, <1>3 DEF DragAgrees, StaysStarted, InTurn

\* The user presses and releases.
LEMMA UserInTurn ==
  ASSUME HookInv, DragAgrees, Presses \/ Releases
  PROVE  DragAgrees'
<1>1. drag' = drag /\ (mouseHook'.up <=> mouseHook.up)
  BY DEF Presses, Releases, HookInv, ManualResizeTypes, MouseTypes
<1>2. CASE clicks' = clicks /\ mouseHook' = mouseHook
  BY <1>1, <1>2, DragKept DEF StaysStarted, Resizing, DragAgrees
<1>3. CASE ~(clicks' = clicks /\ mouseHook' = mouseHook)
  <2>1. PICK m \in Clicks : /\ clicks' = Append(clicks, m) /\ mouseHook.up
                            /\ mouseHook.intercepted <=> m.kind = "Release"
                            /\ mouseHook'.intercepted = ~mouseHook.intercepted
    <3>1. CASE Presses
      <4> DEFINE m == [kind |-> "BeginDrag", edge |-> ResizeEdge(mouseHook.target, mouse.at)]
      <4>1. PICK within \in BOOLEAN :
               /\ Grabs(within) /\ clicks' = Append(clicks, m)
               /\ mouseHook' = [mouseHook EXCEPT !.intercepted = TRUE] /\ ~mouse.button
        BY <1>3, <3>1 DEF Presses
      <4>2. mouseHook.up /\ ~mouseHook.intercepted /\ mouseHook'.intercepted
        BY <4>1 DEF Grabs, HookInv, HookAgrees, ManualResizeTypes, MouseTypes
      <4>3. m \in Clicks
        BY <4>1, EdgeType DEF Grabs, Clicks
      <4>4. m.kind = "BeginDrag"
        OBVIOUS
      <4> HIDE DEF m
      <4>5. mouseHook.intercepted \in BOOLEAN /\ mouseHook'.intercepted = TRUE
        BY <4>1 DEF HookInv, ManualResizeTypes, MouseTypes
      <4> QED
        BY <4>1, <4>2, <4>3, <4>4, <4>5
    <3>2. CASE Releases
      <4> DEFINE m == [kind |-> "Release", x |-> mouse.at]
      <4>1. /\ mouseHook.up /\ mouseHook.intercepted /\ clicks' = Append(clicks, m)
            /\ mouseHook' = [mouseHook EXCEPT !.intercepted = FALSE]
        BY <1>3, <3>2 DEF Releases, KeepsRelease
      <4>2. m \in Clicks
        BY DEF Clicks, HookInv, ManualResizeTypes, MouseTypes
      <4>3. m.kind = "Release"
        OBVIOUS
      <4> HIDE DEF m
      <4>4. mouseHook.intercepted = TRUE /\ mouseHook'.intercepted = FALSE
        BY <4>1 DEF HookInv, ManualResizeTypes, MouseTypes
      <4> QED
        BY <4>1, <4>2, <4>3, <4>4
    <3> QED
      BY <3>1, <3>2
  <2>2. /\ clicks \in Seq(Clicks) /\ mouseHook.intercepted \in BOOLEAN /\ Resizing \in BOOLEAN
        /\ Resizing' = Resizing
    BY <1>1 DEF HookInv, ManualResizeTypes, MouseTypes, DragTypes, Resizing
  <2>3. InTurn(Append(clicks, m), ~mouseHook.intercepted, Resizing)
    BY <2>1, <2>2, SentInTurn DEF DragAgrees
  <2>4. InTurn(clicks', mouseHook'.intercepted, Resizing')
    BY <2>1, <2>2, <2>3
  <2>5. drag.pc \notin {"preview", "hook"}
    BY <2>1 DEF HookInv, HookAgrees
  <2>6. SessionOf(drag)'
    BY <1>1 DEF SessionOf, Spans, NoSession, DragAgrees
  <2> QED
    BY <1>1, <2>4, <2>5, <2>6 DEF DragAgrees, InTurn
<1> QED
  BY <1>2, <1>3

\* The steps of the main loop that take no event and begin no drag, those of the
\* preview thread, and the pointer.
LEMMA OthersInTurn ==
  ASSUME HookInv, DragAgrees,
         \/ Moves \/ FocusMoves \/ PreviewStarts \/ HookStarts \/ HookEnds
         \/ Aims \/ DrainsOut \/ Follows \/ Rests \/ Draws
  PROVE  DragAgrees'
<1> DEFINE Drags == [pc : Stages, active : BOOLEAN, session : [edge : Edges, span : Sides],
                     lost : BOOLEAN, focus : Sides]
<1>1. clicks' = clicks /\ drag \in Drags
  BY DEF Moves, FocusMoves, PreviewStarts, HookStarts, HookEnds, Aims, DrainsOut, Follows, Rests,
         Draws, HookInv, ManualResizeTypes, DragTypes
<1>2. mouseHook'.intercepted = mouseHook.intercepted
  BY RetargetsKeeps
  DEF Moves, FocusMoves, PreviewStarts, HookStarts, HookEnds, Aims, DrainsOut, Follows, Rests,
      Draws, HookInv, ManualResizeTypes, MouseTypes
<1>3. \/ drag' = drag
      \/ \E f \in Sides, l \in BOOLEAN : drag' = [drag EXCEPT !.focus = f, !.lost = l]
      \/ \E to \in Stages : /\ drag' = [drag EXCEPT !.pc = to]
                            /\ to \in {"preview", "hook"} => drag.pc \in {"preview", "hook"}
                            /\ drag.pc \in {"closing", "gone"} => to \in {"closing", "gone"}
  <2>1. CASE Moves \/ Draws
    BY <2>1 DEF Moves, Draws
  <2>2. CASE FocusMoves
    <3>1. PICK f \in Spans \cup {<<>>}, l \in BOOLEAN : drag' = [drag EXCEPT !.focus = f, !.lost = l]
      BY <2>2 DEF FocusMoves
    <3> QED
      BY <3>1 DEF Sides
  <2>3. CASE PreviewStarts \/ HookStarts \/ HookEnds \/ Aims \/ DrainsOut \/ Follows \/ Rests
    BY <2>3
    DEF PreviewStarts, HookStarts, HookEnds, Aims, DrainsOut, Follows, Rests, Sends, Ends, Stages
  <2> QED
    BY <2>1, <2>2, <2>3
<1>4. drag'.active = drag.active /\ drag'.session = drag.session
  BY <1>1, <1>3
<1>5. drag'.pc \in {"preview", "hook"} => drag.pc \in {"preview", "hook"}
  BY <1>1, <1>3
<1>6. Resizing' => Resizing
  <2>1. drag.pc \in {"closing", "gone"} => drag'.pc \in {"closing", "gone"}
    BY <1>1, <1>3
  <2> QED
    BY <1>4, <2>1 DEF Resizing
<1>7. Resizing \in BOOLEAN /\ InTurn(clicks, mouseHook.intercepted, Resizing')
  BY <1>6 DEF DragAgrees, InTurn, Resizing
<1>8. SessionOf(drag)'
  BY <1>4 DEF SessionOf, Spans, NoSession, DragAgrees
<1>9. (drag.pc \in {"preview", "hook"} => ~drag.active /\ clicks = <<>>)'
  BY <1>1, <1>4, <1>5 DEF DragAgrees
<1> QED
  BY <1>1, <1>2, <1>7, <1>8, <1>9 DEF DragAgrees, InTurn

\* An event is taken: a press begins a drag, a release ends it.
LEMMA TakingInTurn ==
  ASSUME HookInv, DragAgrees, TakesBegin \/ TakesRelease \/ Cancels
  PROVE  DragAgrees'
<1> DEFINE Drags == [pc : Stages, active : BOOLEAN, session : [edge : Edges, span : Sides],
                     lost : BOOLEAN, focus : Sides]
<1>1. drag \in Drags /\ drag.pc \in {"drain", "follow"} /\ clicks \in Seq(Clicks)
      /\ mouseHook.intercepted \in BOOLEAN /\ Resizing \in BOOLEAN /\ (Resizing <=> drag.active)
  BY DEF TakesBegin, TakesRelease, Cancels, HookInv, ManualResizeTypes, MouseTypes, DragTypes, Resizing
<1>2. mouseHook'.intercepted = mouseHook.intercepted
  BY RetargetsKeeps
  DEF TakesBegin, TakesRelease, Cancels, HookInv, ManualResizeTypes, MouseTypes
<1>3. Ends => drag' = [drag EXCEPT !.pc = "closing"]
  BY DEF Ends
<1>e. ASSUME NEW events \in Seq(Clicks), clicks' = events,
             InTurn(events, mouseHook.intercepted, FALSE), Ends
      PROVE  DragAgrees'
  <2>1. ~Resizing' /\ drag'.pc = "closing" /\ drag'.active = drag.active /\ drag'.session = drag.session
    BY <1>1, <1>3, <1>e DEF Resizing
  <2>2. SessionOf(drag)'
    BY <2>1 DEF SessionOf, Spans, NoSession, DragAgrees
  <2>3. InTurn(clicks', mouseHook'.intercepted, Resizing')
    BY <1>2, <1>e, <2>1 DEF InTurn
  <2> QED
    BY <2>1, <2>2, <2>3 DEF DragAgrees, InTurn
<1>o. ASSUME NEW events \in Seq(Clicks), clicks' = events,
             InTurn(events, mouseHook.intercepted, FALSE),
             ~drag'.active, drag'.session = NoSession, drag'.pc = "idle"
      PROVE  DragAgrees'
  <2>1. ~Resizing'
    BY <1>o DEF Resizing
  <2>2. SessionOf(drag)'
    BY <1>o DEF SessionOf, NoSession
  <2>3. InTurn(clicks', mouseHook'.intercepted, Resizing')
    BY <1>2, <1>o, <2>1 DEF InTurn
  <2> QED
    BY <1>o, <2>1, <2>2, <2>3 DEF DragAgrees, InTurn
<1>4. CASE TakesBegin
  <2>1. clicks # <<>> /\ Head(clicks).kind = "BeginDrag" /\ clicks' = Tail(clicks)
        /\ Head(clicks) \in Clicks /\ Tail(clicks) \in Seq(Clicks)
    BY <1>1, <1>4, ChannelTypes DEF TakesBegin
  <2>2. /\ ~drag.active /\ InTurn(Tail(clicks), mouseHook.intercepted, TRUE)
        /\ InTurn(Tail(clicks), mouseHook.intercepted, FALSE)
    BY <1>1, <2>1, TakenInTurn DEF DragAgrees
  <2>3. CASE UNCHANGED <<drag, orders>>
    <3>1. ~Resizing' /\ SessionOf(drag)'
      BY <2>2, <2>3 DEF Resizing, SessionOf, NoSession, DragAgrees
    <3>2. InTurn(clicks', mouseHook'.intercepted, Resizing')
      BY <1>2, <2>1, <2>2, <3>1 DEF InTurn
    <3> QED
      BY <1>1, <2>3, <3>1, <3>2 DEF DragAgrees, InTurn
  <2>4. CASE Ends
    BY <1>e, <2>1, <2>2, <2>4
  <2>5. CASE drag.focus # <<>> /\
             drag' = [drag EXCEPT !.active = TRUE, !.lost = FALSE,
                        !.session = [edge |-> Head(clicks).edge, span |-> drag.focus]]
    <3>1. drag'.active /\ drag'.pc = drag.pc
          /\ drag'.session = [edge |-> Head(clicks).edge, span |-> drag.focus]
      BY <1>1, <2>5
    <3>2. Head(clicks).edge # "None" /\ drag.focus \in Spans
      BY <1>1, <2>1, <2>5, ClickKinds DEF Sides
    <3>3. SessionOf(drag)'
      BY <3>1, <3>2 DEF SessionOf, Spans
    <3>4. Resizing' = TRUE
      BY <1>1, <3>1 DEF Resizing
    <3>5. InTurn(clicks', mouseHook'.intercepted, Resizing')
      BY <1>2, <2>1, <2>2, <3>4 DEF InTurn
    <3> QED
      BY <1>1, <3>1, <3>3, <3>5 DEF DragAgrees, InTurn
  <2> QED
    BY <1>4, <2>3, <2>4, <2>5 DEF TakesBegin, Sends
<1>5. CASE TakesRelease
  <2>1. clicks # <<>> /\ clicks' = Tail(clicks) /\ Tail(clicks) \in Seq(Clicks)
    BY <1>1, <1>5, ChannelTypes DEF TakesRelease
  <2>2. InTurn(Tail(clicks), mouseHook.intercepted, FALSE)
    BY <1>1, <2>1, TakenInTurn DEF DragAgrees
  <2>3. CASE ~drag.active /\ UNCHANGED <<mouseHook, drag, orders, faults>>
    <3>1. ~Resizing' /\ SessionOf(drag)'
      BY <2>3 DEF Resizing, SessionOf, NoSession, DragAgrees
    <3>2. InTurn(clicks', mouseHook'.intercepted, Resizing')
      BY <1>2, <2>1, <2>2, <3>1 DEF InTurn
    <3> QED
      BY <1>1, <2>3, <3>1, <3>2 DEF DragAgrees, InTurn
  <2>4. CASE Ends
    BY <1>e, <2>1, <2>2, <2>4
  <2>5. ASSUME NEW placed \in Spans,
               drag' = [drag EXCEPT !.active = FALSE, !.session = NoSession,
                          !.pc = "idle", !.focus = placed]
        PROVE  DragAgrees'
    <3>1. ~drag'.active /\ drag'.session = NoSession /\ drag'.pc = "idle"
      BY <1>1, <2>5
    <3> QED
      BY <1>o, <2>1, <2>2, <3>1
  <2> QED
    BY <1>5, <2>3, <2>4, <2>5 DEF TakesRelease, Sends
<1>6. CASE Cancels
  <2>1. clicks' = clicks /\ InTurn(clicks, mouseHook.intercepted, FALSE)
    BY <1>6, EndsInTurn DEF Cancels, DragAgrees
  <2>2. CASE Ends
    BY <1>1, <1>e, <2>1, <2>2
  <2>3. CASE drag' = [drag EXCEPT !.active = FALSE, !.session = NoSession, !.pc = "idle"]
    <3>1. ~drag'.active /\ drag'.session = NoSession /\ drag'.pc = "idle"
      BY <1>1, <2>3
    <3> QED
      BY <1>1, <1>o, <2>1, <3>1
  <2> QED
    BY <1>6, <2>2, <2>3 DEF Cancels, Sends
<1> QED
  BY <1>4, <1>5, <1>6

\* Events, hook and drag agree after every step.
LEMMA DragNext ==
  ASSUME HookInv, DragAgrees, [ManualResizeNext]_dragVars
  PROVE  DragAgrees'
<1>1. CASE UNCHANGED dragVars
  <2>1. Resizing' = Resizing /\ SessionOf(drag)'
    BY <1>1 DEF dragVars, Resizing, SessionOf, Spans, NoSession, DragAgrees
  <2> QED
    BY <1>1, <2>1 DEF dragVars, DragAgrees, InTurn
<1>2. CASE ManualResizeNext
  BY <1>2, UserInTurn, OthersInTurn, TakingInTurn DEF ManualResizeNext, ControllerTurns
<1> QED
  BY <1>1, <1>2

\* The invariant of the mouse resize: types, what the hook has kept, and that the
\* events on their way, the hook, the drag and the store's session agree.
THEOREM ResizeInvariant == ManualResizeSpec => [](HookInv /\ DragAgrees)
<1>1. ManualResizeInit => HookInv /\ DragAgrees
  BY ManualResizeInitInv
  DEF ManualResizeInit, DragAgrees, InTurn, Resizing, SessionOf, NoSession
<1>2. HookInv /\ DragAgrees /\ [ManualResizeNext]_dragVars => (HookInv /\ DragAgrees)'
  BY ManualResizeNextInv, DragNext
<1>3. QED
  BY <1>1, <1>2, PTL DEF ManualResizeSpec

\* While the hook is in place no click reaches the applications by half, whatever
\* Super, the focus and the main loop do between press and release, and however
\* starting and ending of the two threads interleave with the user.
THEOREM ClicksAreWhole == ManualResizeSpec => []ClicksStayWhole
<1>1. HookInv => ClicksStayWhole
  BY DEF HookInv, HookAgrees, ClicksStayWhole
<1>2. QED
  BY <1>1, ResizeInvariant, PTL
=============================================================================
