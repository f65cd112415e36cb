---------------------------- MODULE ManualResize ----------------------------
(* The resize of a column with Super and the left mouse button: a mouse     *)
(* hook thread that takes the clicks on an edge of the focused column away  *)
(* from the applications, the controller the main loop ticks, and a thread  *)
(* that owns the translucent preview window.  Horizontal positions are      *)
(* 0 .. Screen, a rectangle is <<left, right>>, <<>> is none; the vertical  *)
(* part of a hit is a choice, the rectangle shown is left out.  Of the      *)
(* store's session, which StateStore models, it keeps the edge and the      *)
(* column's first rectangle.                                                *)
EXTENDS Integers, Sequences

CONSTANTS Screen,      \* the width of the viewport
          Grab,        \* EDGE_GRAB_TOLERANCE_PX
          MaxClicks,   \* bound: mouse events in the channel to the main loop
          MaxOrders,   \* bound: commands in the channel to the preview thread
          MaxFaults    \* bound: calls that fail

ASSUME ScreenAssumption == Screen \in Nat \ {0} /\ Grab \in Nat

VARIABLES
  mouse,      \* [button, super, at], and sees: the button as applications know it
  mouseHook,  \* [up, target, intercepted]: the hook and its shared state
  clicks,     \* MouseHookEvents on their way
  drag,       \* [pc, active, session, lost, focus]: main loop, controller, store
  preview,    \* [up, shown]: the preview thread and its window
  orders,     \* OverlayCommands on their way
  faults      \* how many calls have failed

dragVars == <<mouse, mouseHook, clicks, drag, preview, orders, faults>>

Spans     == {s \in (0..Screen) \X (0..Screen) : s[1] < s[2]}
NoSession == [edge |-> "None", span |-> <<>>]

ManualResizeInit ==
  /\ mouse = [button |-> FALSE, super |-> FALSE, at |-> 0, sees |-> FALSE]
  /\ mouseHook = [up |-> FALSE, target |-> <<>>, intercepted |-> FALSE]
  /\ drag = [pc |-> "preview", active |-> FALSE, session |-> NoSession,
             lost |-> FALSE, focus |-> <<>>]
  /\ preview = [up |-> FALSE, shown |-> FALSE]
  /\ clicks = <<>> /\ orders = <<>> /\ faults = 0
-----------------------------------------------------------------------------
(* The hook, called by the system before the applications.                  *)
DistanceOf(x, y) == IF x < y THEN y - x ELSE x - y

\* The nearest edge within the tolerance, the left one of two equally near.
ResizeEdge(rect, x) ==
  LET left  == DistanceOf(x, rect[1])
      right == DistanceOf(x, rect[2])
  IN  IF left <= Grab /\ left <= right THEN "Left"
      ELSE IF right <= Grab THEN "Right"
      ELSE "None"

Grabs(within) ==
  /\ mouseHook.up /\ mouse.super /\ within
  /\ mouseHook.target # <<>> /\ ResizeEdge(mouseHook.target, mouse.at) # "None"

\* Plausible bug: a release is kept only while the key is still held.
KeepsUnderSuper == mouseHook.intercepted /\ mouse.super

KeepsRelease == mouseHook.intercepted

Presses ==
  /\ ~mouse.button
  /\ \E within \in BOOLEAN :
       IF Grabs(within)
       THEN /\ Len(clicks) < MaxClicks
            /\ clicks' = Append(clicks,
                 [kind |-> "BeginDrag", edge |-> ResizeEdge(mouseHook.target, mouse.at)])
            /\ mouseHook' = [mouseHook EXCEPT !.intercepted = TRUE]
            /\ mouse' = [mouse EXCEPT !.button = TRUE]
       ELSE /\ mouse' = [mouse EXCEPT !.button = TRUE, !.sees = TRUE]
            /\ UNCHANGED <<mouseHook, clicks>>
  /\ UNCHANGED <<drag, preview, orders, faults>>

Releases ==
  /\ mouse.button
  /\ IF mouseHook.up /\ KeepsRelease
     THEN /\ Len(clicks) < MaxClicks
          /\ clicks' = Append(clicks, [kind |-> "Release", x |-> mouse.at])
          /\ mouseHook' = [mouseHook EXCEPT !.intercepted = FALSE]
          /\ mouse' = [mouse EXCEPT !.button = FALSE]
     ELSE /\ mouse' = [mouse EXCEPT !.button = FALSE, !.sees = FALSE]
          /\ UNCHANGED <<mouseHook, clicks>>
  /\ UNCHANGED <<drag, preview, orders, faults>>

\* The pointer moves, the Super key goes down or up.
Moves ==
  /\ \/ \E x \in 0..Screen : mouse' = [mouse EXCEPT !.at = x]
     \/ mouse' = [mouse EXCEPT !.super = ~@]
  /\ UNCHANGED <<mouseHook, clicks, drag, preview, orders, faults>>
-----------------------------------------------------------------------------
(* Starting and ending: the main thread waits for each of the two threads.  *)
Fault == faults < MaxFaults /\ faults' = faults + 1

\* An error ends the daemon: its controller is dropped, and the preview
\* thread asked to end and waited for, while the hook is still in place.
Ends ==
  /\ drag' = [drag EXCEPT !.pc = "closing"]
  /\ orders' = IF preview.up THEN Append(orders, "Shutdown") ELSE orders

PreviewStarts ==
  /\ drag.pc = "preview"
  /\ \/ /\ preview' = [preview EXCEPT !.up = TRUE]
        /\ drag' = [drag EXCEPT !.pc = "hook"] /\ UNCHANGED faults
     \/ Fault /\ drag' = [drag EXCEPT !.pc = "gone"] /\ UNCHANGED preview
  /\ UNCHANGED <<mouse, mouseHook, clicks, orders>>

HookStarts ==
  /\ drag.pc = "hook"
  /\ \/ /\ mouseHook' = [mouseHook EXCEPT !.up = TRUE]
        /\ drag' = [drag EXCEPT !.pc = "idle"] /\ UNCHANGED <<orders, faults>>
     \/ Fault /\ Ends /\ UNCHANGED mouseHook
  /\ UNCHANGED <<mouse, clicks, preview>>

HookEnds ==
  /\ drag.pc = "closing" /\ ~preview.up
  /\ drag' = [drag EXCEPT !.pc = "gone"]
  /\ mouseHook' = [mouseHook EXCEPT !.up = FALSE]
  /\ UNCHANGED <<mouse, clicks, preview, orders, faults>>

\* The rest of the main loop moves the focus to a tiled column, or to none;
\* the column that is dragged may close.
FocusMoves ==
  /\ drag.pc = "idle"
  /\ \E f \in Spans \cup {<<>>}, l \in BOOLEAN :
       /\ l => drag.active
       /\ drag.lost => l
       /\ drag' = [drag EXCEPT !.focus = f, !.lost = l]
  /\ UNCHANGED <<mouse, mouseHook, clicks, preview, orders, faults>>
-----------------------------------------------------------------------------
(* The controller: one tick reads the target, takes the events, and then    *)
(* follows the pointer.                                                     *)

\* The rectangle of the window on the screen, wherever it is by now, or the
\* one of the layout.
HitRects == IF drag.focus = <<>> THEN {<<>>} ELSE Spans

Retargets == \E rect \in HitRects : mouseHook' = [mouseHook EXCEPT !.target = rect]

\* The command reaches the preview thread, or the tick fails.
Sends(order, after) ==
  IF preview.up
  THEN /\ Len(orders) < MaxOrders
       /\ orders' = Append(orders, order)
       /\ drag' = after
  ELSE Ends

NewWidth(session, x) ==
  LET least   == IF Screen \div 6 > 0 THEN Screen \div 6 ELSE 1
      clamp(v, lo, hi) == IF v < lo THEN lo ELSE IF v > hi THEN hi ELSE v
      l       == session.span[1]
      r       == session.span[2]
      pointer == clamp(IF session.edge = "Right" THEN clamp(x, l + least, l + Screen)
                       ELSE clamp(x, r - Screen, r - least), 0, Screen)
  IN  clamp(IF session.edge = "Right" THEN pointer - l ELSE r - pointer, least, Screen)

Aims ==
  /\ drag.pc = "idle"
  /\ IF drag.active THEN UNCHANGED mouseHook ELSE Retargets
  /\ drag' = [drag EXCEPT !.pc = "drain"]
  /\ UNCHANGED <<mouse, clicks, preview, orders, faults>>

TakesBegin ==
  /\ drag.pc = "drain" /\ clicks # <<>> /\ Head(clicks).kind = "BeginDrag"
  /\ clicks' = Tail(clicks)
  /\ IF ~drag.active /\ drag.focus # <<>>
     THEN Sends("Show", [drag EXCEPT !.active = TRUE, !.lost = FALSE,
                    !.session = [edge |-> Head(clicks).edge, span |-> drag.focus]])
     ELSE UNCHANGED <<drag, orders>>
  /\ UNCHANGED <<mouse, mouseHook, preview, faults>>

\* The commit reports, and the events behind the release wait for the next
\* tick; it fails when the column has closed, or when its cycle does.
TakesRelease ==
  /\ drag.pc = "drain" /\ clicks # <<>> /\ Head(clicks).kind = "Release"
  /\ clicks' = Tail(clicks)
  /\ \/ /\ ~drag.active
        /\ UNCHANGED <<mouseHook, drag, orders, faults>>
     \/ /\ drag.active /\ ~drag.lost
        /\ \E placed \in Spans :
             /\ placed[2] - placed[1] = NewWidth(drag.session, Head(clicks).x)
             /\ Sends("Hide", [drag EXCEPT !.active = FALSE, !.session = NoSession,
                                 !.pc = "idle", !.focus = placed])
        /\ Retargets /\ UNCHANGED faults
     \/ /\ drag.active /\ (IF drag.lost THEN UNCHANGED faults ELSE Fault)
        /\ Ends /\ UNCHANGED mouseHook
  /\ UNCHANGED <<mouse, preview>>

DrainsOut ==
  /\ drag.pc = "drain" /\ clicks = <<>>
  /\ drag' = [drag EXCEPT !.pc = "follow"]
  /\ UNCHANGED <<mouse, mouseHook, clicks, preview, orders, faults>>

\* Plausible bug: only the release of the button ends a drag.
NeverLetsGo == FALSE

LetsGo == ~mouse.super

Cancels ==
  /\ drag.pc = "follow" /\ drag.active /\ LetsGo
  /\ Sends("Hide", [drag EXCEPT !.active = FALSE, !.session = NoSession, !.pc = "idle"])
  /\ Retargets
  /\ UNCHANGED <<mouse, clicks, preview, faults>>

\* The preview follows the pointer.  The position may be unreadable, and the
\* workspace of a column that closed may have gone with it.
Follows ==
  /\ drag.pc = "follow" /\ drag.active /\ ~LetsGo
  /\ \/ Sends("Show", [drag EXCEPT !.pc = "idle"]) /\ UNCHANGED faults
     \/ (IF drag.lost THEN UNCHANGED faults ELSE Fault) /\ Ends
  /\ UNCHANGED <<mouse, mouseHook, clicks, preview>>

Rests ==
  /\ drag.pc = "follow" /\ ~drag.active
  /\ Sends("Hide", [drag EXCEPT !.pc = "idle"])
  /\ UNCHANGED <<mouse, mouseHook, clicks, preview, faults>>
-----------------------------------------------------------------------------
(* The preview thread: it ends with an error when its window cannot be      *)
(* shown, and takes the window with it.                                     *)
PreviewDown == preview' = [up |-> FALSE, shown |-> FALSE] /\ orders' = <<>>

Shows ==
  /\ Head(orders) = "Show"
  /\ \/ /\ preview' = [preview EXCEPT !.shown = TRUE]
        /\ orders' = Tail(orders) /\ UNCHANGED faults
     \/ Fault /\ PreviewDown

Hides ==
  /\ Head(orders) = "Hide"
  /\ preview' = [preview EXCEPT !.shown = FALSE]
  /\ orders' = Tail(orders) /\ UNCHANGED faults

ClosesPreview == Head(orders) = "Shutdown" /\ PreviewDown /\ UNCHANGED faults

Draws ==
  /\ preview.up /\ orders # <<>>
  /\ Shows \/ Hides \/ ClosesPreview
  /\ UNCHANGED <<mouse, mouseHook, clicks, drag>>
-----------------------------------------------------------------------------
ControllerTurns ==
  \/ PreviewStarts \/ HookStarts \/ HookEnds
  \/ Aims \/ TakesBegin \/ TakesRelease \/ DrainsOut
  \/ Cancels \/ Follows \/ Rests

ManualResizeNext ==
  \/ Presses \/ Releases \/ Moves \/ FocusMoves
  \/ ControllerTurns
  \/ Draws

\* The main loop ticks the controller in every round, the preview thread
\* waits for commands; the user owes nothing.
ManualResizeFairness == WF_dragVars(ControllerTurns) /\ WF_dragVars(Draws)

ManualResizeSpec ==
  ManualResizeInit /\ [][ManualResizeNext]_dragVars /\ ManualResizeFairness
-----------------------------------------------------------------------------
\* While the hook is in place the applications know the button as it is,
\* except for a press the hook has kept: no click reaches them by half,
\* whatever Super, the focus and the main loop do between press and release.
ClicksStayWhole ==
  mouseHook.up => /\ (mouse.sees => mouse.button)
                  /\ (mouse.button /\ ~mouse.sees => mouseHook.intercepted)

\* Once button and Super are not held together any more, the resize is over
\* and its preview off the screen for good, also when the daemon ends on the
\* way.
PreviewEndsWithDrag ==
  <>[]~(mouse.button /\ mouse.super) =>
    <>[](~preview.shown /\ (drag.pc = "gone" \/ ~drag.active))
=============================================================================
