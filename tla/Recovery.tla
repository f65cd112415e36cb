------------------------------ MODULE Recovery ------------------------------
(***************************************************************************)
(* What happens after a layout has been applied: validation.rs with the    *)
(* policies it asks (apply_policy.rs) and the stabilisation of the focus   *)
(* (runtime.rs).  The desktop is scanned again, what is still out of place *)
(* is applied once more, and a desktop that keeps diverging costs the      *)
(* daemon its management.                                                  *)
(*                                                                         *)
(* A window is where the layout wants it ("right"), elsewhere ("off"), or  *)
(* has an edge right and is too wide for its column ("wide").              *)
(***************************************************************************)
EXTENDS Naturals, FiniteSets

CONSTANTS Windows,     \* tiled windows
          Lenient,     \* their geometry is not validated: browsers, terminals, unsafe surfaces
          Unruly,      \* these may refuse to be moved
          Narrow,      \* these have a minimum width above their column's
          Far,         \* these are on the second monitor
          MaxStirs     \* bound: what the desktop does

NoWindow == 0

ASSUME RecoveryAssumption ==
  /\ IsFiniteSet(Windows) /\ NoWindow \notin Windows
  /\ Lenient \union Unruly \union Narrow \union Far \subseteq Windows

VARIABLES
  there,      \* windows on the desktop
  known,      \* windows in the state
  spot,       \* "right", "off" or "wide"
  refusing,   \* windows that refuse to be moved now
  widened,    \* Narrow windows whose column was given their width
  target,     \* the window with the focus in the state
  front,      \* the foreground window, or none
  claim,      \* pending_focus_claim
  enabled,    \* management_enabled
  desync,     \* consecutive_desync_cycles
  cycle,      \* the cycle of the main loop
  turns,      \* turns the desktop has left
  defiant,    \* history: windows that ever refused to be moved or moved themselves
  shunned     \* history: windows that ever lost the foreground, were refused it, or
              \* came back before a scan had missed them

desktopVars  == <<there, spot, refusing, front, turns, defiant, shunned>>
recoveryVars == <<desktopVars, known, widened, target, claim, enabled, desync, cycle>>

DesyncLimit == 3
Rest == [stage |-> "idle", reason |-> "poll", planned |-> FALSE, seen |-> 0, churn |-> FALSE,
         checked |-> 0]

\* Where a window gets that is moved to its place.
Best(h) == IF h \in Narrow \ widened THEN "wide" ELSE "right"

RecoveryInit ==
  /\ there = Windows /\ known = Windows
  /\ widened \in SUBSET Narrow
  /\ spot = [h \in Windows |-> Best(h)]
  /\ refusing = {} /\ defiant = {} /\ shunned = {}
  /\ target \in Windows /\ front = target
  /\ claim = FALSE /\ enabled = TRUE /\ desync = 0
  /\ cycle = Rest
  /\ turns = MaxStirs

---------------------------------------------------------------------------
(* The desktop (external), at any time. *)

DeskTurn == turns > 0 /\ turns' = turns - 1
LeavesCycle == UNCHANGED <<known, widened, target, claim, enabled, desync, cycle>>

WindowStrays(h) ==
  /\ DeskTurn /\ h \in there /\ spot[h] = "right"
  /\ spot' = [spot EXCEPT ![h] = "off"]
  /\ defiant' = defiant \union {h}
  /\ UNCHANGED <<there, refusing, front, shunned>> /\ LeavesCycle

WindowReturns(h) ==
  /\ DeskTurn /\ h \in there /\ spot[h] = "off"
  /\ spot' = [spot EXCEPT ![h] = Best(h)]
  /\ defiant' = defiant \union {h}
  /\ UNCHANGED <<there, refusing, front, shunned>> /\ LeavesCycle

MoodTurns(hs) ==
  /\ DeskTurn /\ refusing # hs
  /\ refusing' = hs /\ defiant' = defiant \union hs
  /\ UNCHANGED <<there, spot, front, shunned>> /\ LeavesCycle

WindowComesOrGoes(h) ==
  /\ DeskTurn
  /\ there' = IF h \in there THEN there \ {h} ELSE there \union {h}
  /\ spot' = [spot EXCEPT ![h] = "off"]
  /\ front' = IF front = h THEN NoWindow ELSE front
  /\ shunned' = shunned \union (IF front = h THEN {target} ELSE {h} \intersect (known \ there))
  /\ UNCHANGED <<refusing, defiant>> /\ LeavesCycle

FrontTurns(h) ==
  /\ DeskTurn /\ h \in there /\ front # h
  /\ front' = h /\ shunned' = shunned \union {target}
  /\ UNCHANGED <<there, spot, refusing, defiant>> /\ LeavesCycle

---------------------------------------------------------------------------
(* Planning. *)

Tracked(h) == h \in known \intersect there

\* focus_stabilization_hold: without a claim, the focus and the foreground are
\* managed windows of different monitors.
Held == IF ~claim /\ Tracked(target) /\ Tracked(front) /\ front # target
           /\ ((front \in Far) # (target \in Far))
        THEN {front, target} ELSE {}

\* should_attempt_activation_reassert; a scan that sees no foreground window reports
\* the handle 0, which is no window of the state.
Reasserts == claim \/ front \in known
Activates(h) == h = target /\ Tracked(h) /\ Held = {} /\ Reasserts /\ front # h

\* A window held in its place is planned like any other.
Misplaced == {h \in Windows : Tracked(h) /\ spot[h] # "right"}
Operations == Misplaced \union {h \in Windows : Activates(h)}

\* filter_validatable_operations_for_snapshot: an activation is kept without
\* its geometry.
Remaining == {h \in Operations : h \notin Lenient \/ Activates(h)}

\* SetWindowPos on each window: a narrow one stays wider than its column.
Moved(hs) ==
  spot' = [h \in Windows |-> IF h \notin hs \/ h \in refusing THEN spot[h] ELSE Best(h)]

\* The foreground may be refused to the daemon.
Fronted(hs) ==
  IF \E h \in hs : Activates(h)
  THEN \/ front' = target /\ UNCHANGED shunned
       \/ UNCHANGED front /\ shunned' = shunned \union {target}
  ELSE UNCHANGED <<front, shunned>>

---------------------------------------------------------------------------
(* The cycle. *)

\* The focus after a scan: it stays, or follows the foreground.
Followed == IF target \in there \/ there = {} THEN {target} \union ({front} \intersect there)
            ELSE there

\* sync_snapshot_with_reason
CycleStarts ==
  /\ cycle.stage = "idle"
  /\ known' = there
  /\ target' \in Followed
  /\ claim' \in {claim, FALSE}
  /\ cycle' = [Rest EXCEPT !.stage = "planning", !.seen = Cardinality(there), !.churn = known # there]
  /\ UNCHANGED <<desktopVars, widened, enabled, desync>>

\* dispatch_command, after a scan of its own: the width of the column is cycled, every
\* window gets a new place; the focus is moved with a claim.
CommandStarts(t, resizes) ==
  /\ cycle.stage = "idle" /\ DeskTurn /\ t \in there
  /\ known' = there
  /\ target' = t
  /\ \E focus \in Followed : claim' \in IF t = focus THEN {claim, FALSE} ELSE {TRUE}
  /\ IF resizes
     THEN /\ spot' = [h \in Windows |-> "off"] /\ widened' = {}
          /\ cycle' = [Rest EXCEPT !.stage = "planning", !.reason = "width", !.seen = Cardinality(there)]
     ELSE /\ UNCHANGED <<spot, widened>>
          /\ cycle' = [Rest EXCEPT !.stage = "planning", !.seen = Cardinality(there)]
  /\ UNCHANGED <<there, refusing, front, defiant, shunned, enabled, desync>>

\* Some operation may only concern the appearance of a window.
Applies(also) ==
  /\ cycle.stage = "planning"
  /\ IF enabled
     THEN /\ Moved(Operations) /\ Fronted(Operations)
          /\ cycle' = [cycle EXCEPT !.stage = "applied", !.planned = also \/ Operations # {}]
     ELSE /\ cycle' = Rest /\ UNCHANGED <<spot, front, shunned>>
  /\ UNCHANGED <<there, refusing, turns, defiant, known, widened, target, claim, enabled, desync>>

\* operations_are_activation_only
ActivationOnly(hs) == hs # {} /\ \A h \in hs : Activates(h) /\ spot[h] = "right"

\* should_hold_post_apply_for_focus_stabilization
HoldsOff(hs) == hs # {} /\ hs \subseteq Held

\* adapt_to_platform_min_widths
\* Mistake: the column keeps its width.
NeverAdapts(hs) == {}
Adapts(hs) == {h \in hs \ Lenient : spot[h] = "wide"} \ widened

\* A wider column shifts the windows of its monitor, its own among them.
Shifts(fits) ==
  LET beside == {h \in Windows : spot[h] = "right" /\ \E f \in fits : h \in Far <=> f \in Far}
  IN  \E shifted \in SUBSET (fits \union beside) :
        spot' = [h \in Windows |-> IF h \in shifted THEN "off"
                                   ELSE IF h \in fits THEN "right" ELSE spot[h]]

\* validate_after_apply ends here and counts from the start.
Settles == Remaining = {} \/ ActivationOnly(Remaining) \/ HoldsOff(Remaining)

\* validate_after_apply, up to the retry.  Skipped, it leaves the count alone.
Validates ==
  /\ cycle.stage = "applied"
  /\ UNCHANGED <<there, refusing, front, turns, defiant, shunned, known, target, claim, enabled>>
  /\ IF ~cycle.planned
     THEN cycle' = Rest /\ UNCHANGED <<spot, widened, desync>>
     ELSE LET fits == Adapts(Remaining)
          IN  /\ widened' = widened \union fits
              /\ Shifts(fits)
              /\ IF Settles' \/ (fits = {} /\ cycle.reason = "width")
                 THEN cycle' = Rest /\ desync' = 0
                 ELSE /\ cycle' = [cycle EXCEPT !.stage = "retrying", !.checked = Cardinality(there)]
                      /\ UNCHANGED desync

\* targeted-retry
Retries ==
  /\ cycle.stage = "retrying"
  /\ Moved(Remaining) /\ Fronted(Remaining)
  /\ cycle' = [cycle EXCEPT !.stage = "judging"]
  /\ UNCHANGED <<there, refusing, turns, defiant, known, widened, target, claim, enabled, desync>>

\* has_transient_topology_churn
Churns == cycle.churn \/ cycle.checked # cycle.seen \/ Cardinality(there) # cycle.checked

\* should_auto_unwind_after_desync
\* Mistake: one diverging window is enough.
UnwindsForAny(hs, count) == count >= DesyncLimit /\ hs # {}
Unwinds(hs, count) == count >= DesyncLimit /\ Cardinality(hs) > 1

\* The count of diverging cycles after one more.
\* Mistake: a cycle without a recovery starts from nothing.
AlwaysOne == 1
OneMore == IF desync < DesyncLimit THEN desync + 1 ELSE DesyncLimit

\* validate_after_apply, after the retry
Judges ==
  /\ cycle.stage = "judging"
  /\ cycle' = Rest
  /\ IF Remaining = {} \/ ActivationOnly(Remaining) \/ Churns
     THEN desync' = 0 /\ UNCHANGED enabled
     ELSE /\ desync' = OneMore
          /\ enabled' = (enabled /\ ~Unwinds(Remaining, OneMore))
  /\ UNCHANGED <<desktopVars, known, widened, target, claim>>

---------------------------------------------------------------------------

DesktopStirs ==
  \/ \E h \in Windows : WindowStrays(h) \/ WindowReturns(h) \/ WindowComesOrGoes(h) \/ FrontTurns(h)
  \/ \E hs \in SUBSET Unruly : MoodTurns(hs)
CycleTurns == (\E also \in BOOLEAN : Applies(also)) \/ Validates \/ Retries \/ Judges
CommandComes == \E t \in Windows, resizes \in BOOLEAN : CommandStarts(t, resizes)

RecoveryNext == DesktopStirs \/ CycleStarts \/ CycleTurns \/ CommandComes

\* A cycle goes on to its end.  None has to start: live, only an observation or a
\* command starts one.
RecoveryFairness == WF_recoveryVars(CycleTurns)
RecoverySpec == RecoveryInit /\ [][RecoveryNext]_recoveryVars /\ RecoveryFairness

---------------------------------------------------------------------------

\* Management is given up by recovery only when two windows kept out of the place
\* or of the foreground they should have, or left and came back between two scans:
\* never for one of them alone, for windows whose geometry is not validated, for
\* narrow windows, or for windows a scan saw come or go.
OnlyDefianceUnwinds == ~enabled => Cardinality((defiant \ Lenient) \union shunned) > 1

\* Two such windows are out of place and stay there, whatever has the foreground
\* on their monitor.
Diverged == /\ Held = {} /\ there = known
            /\ Cardinality({h \in known : h \in refusing \ Lenient /\ spot[h] = "off"}) > 1

\* A desktop that keeps diverging is given up in the end, if cycles come.
DivergenceUnwinds == <>[]Diverged /\ []<>(cycle.stage = "planning") => <>[]~enabled

\* Once no window refuses to be moved, and if cycles come, either management was given up or every
\* window that is validated gets and keeps its place.
ObedienceSettles ==
  <>[](refusing = {} /\ turns = 0) /\ []<>(cycle.stage = "planning") =>
    <>[](~enabled \/ \A h \in known \intersect there : spot[h] = "right" \/ h \in Lenient)
=============================================================================
