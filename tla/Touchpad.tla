------------------------------ MODULE Touchpad ------------------------------
(***************************************************************************)
(* Touchpad gestures of apps/core-daemon/src/touchpad: the reports of the  *)
(* device, their assembly into frames and the recognition of swipes        *)
(* (recognizer.rs), and the worker that turns a gesture into a command     *)
(* (runtime.rs, bindings.rs).  When the listener runs is in Listeners.     *)
(*                                                                         *)
(* The device scans the hand and sends one report per finger, each with the*)
(* time of the scan and the number of fingers, or one report of no finger  *)
(* when the last was lifted.  A report may be lost.                        *)
(***************************************************************************)
EXTENDS Naturals, Integers, Sequences, FiniteSets, SequencesExt

CONSTANTS Fingers,     \* the contacts of the device, naturals
          Steps,       \* places of the hand, in steps: pairs of naturals
          Step, Gap,   \* device units: a step of the hand, and between two fingers
          GestureKeys, \* the bound gestures: <<fingers, direction>>
          MaxScans,    \* bound: scans of the device
          MaxLost      \* bound: lost reports

ASSUME TouchpadAssumption ==
  /\ Fingers \subseteq Nat /\ IsFiniteSet(Fingers)
  /\ Steps \subseteq Nat \X Nat /\ Steps # {} /\ Step \in Nat /\ Gap \in Nat

VARIABLES
  hand,      \* the fingers down and where the hand is: [down, at]
  reports,   \* of the last scan: [time, count, contact], a contact being {} or {<<id, x, y>>}
  frame,     \* active_scan_time (a set), expected_contacts and contacts
  session,   \* SwipeSession, a set: [fingers, from, to]
  obeyed,    \* the commands sent to the main loop: bound gestures, in order
  stroke,    \* history: the hand's own swipe, a set: [fingers, from, to]
  meant,     \* history: the bound swipes the hand has made
  trouble,   \* history: a report was lost, and no frame of less than three fingers
             \* came through since
  scans, losses

touchVars == <<hand, reports, frame, session, obeyed, stroke, meant, trouble, scans, losses>>

NoFrame == [time |-> {}, expected |-> 0, contacts |-> {}]

TouchpadInit ==
  /\ hand = [down |-> {}, at |-> CHOOSE s \in Steps : TRUE]
  /\ reports = <<>>
  /\ frame = NoFrame /\ session = {} /\ obeyed = <<>>
  /\ stroke = {} /\ meant = <<>> /\ trouble = FALSE
  /\ scans = 0 /\ losses = 0

---------------------------------------------------------------------------
(* recognize_swipe *)

Threshold == 120
Abs(n)    == IF n < 0 THEN -n ELSE n

Swipe(s) ==
  LET dx == s.to[1] - s.from[1]
      dy == s.to[2] - s.from[2]
      far == Abs(dx) >= Threshold \/ Abs(dy) >= Threshold
      horizontal == Abs(dx) * 2 >= Abs(dy) * 3
      vertical   == Abs(dy) * 2 >= Abs(dx) * 3
      side == IF horizontal /\ ~vertical THEN IF dx > 0 THEN {"Right"} ELSE {"Left"}
              ELSE IF vertical /\ ~horizontal THEN IF dy > 0 THEN {"Down"} ELSE {"Up"}
              ELSE {}
  IN  IF far THEN {<<s.fingers, d>> : d \in side} ELSE {}

\* centroid_for_contacts
Centroid(contacts) ==
  LET mean(i) == MapThenSumSet(LAMBDA c : c[i], contacts) \div Cardinality(contacts)
  IN  <<mean(2), mean(3)>>

Larger(m, n) == IF m < n THEN n ELSE m

\* process_contacts: the session it leaves and the gesture it gives.
Recognized(contacts) ==
  IF Cardinality(contacts) \notin 3..4
  THEN [session |-> {}, gesture |-> UNION {Swipe(s) : s \in session}]
  ELSE LET n == Cardinality(contacts)
           c == Centroid(contacts)
       IN  [session |-> IF session = {} THEN {[fingers |-> n, from |-> c, to |-> c]}
                        ELSE {[fingers |-> Larger(s.fingers, n), from |-> s.from, to |-> c] : s \in session},
            gesture |-> {}]

---------------------------------------------------------------------------
(* The device (external). *)

Hands == [down : SUBSET Fingers, at : Steps]

\* The fingers of a hand lie side by side.
Place(h, f) == <<f, h.at[1] * Step + f * Gap, h.at[2] * Step>>
Contacts(h) == {Place(h, f) : f \in h.down}
Spot(h)     == <<h.at[1] * Step, h.at[2] * Step>>
Swiping(h)  == Cardinality(h.down) \in 3..4

\* The hand moves by steps that are clear, and its fingers lie closer to each other
\* than the threshold: one more or less moves the centroid by half their distance,
\* which makes no swipe of none and none of another direction.
ASSUME GeometryAssumption ==
  \A h, k \in Hands, n \in 3..4 : Swiping(h) /\ Swiping(k) =>
    Swipe([fingers |-> n, from |-> Centroid(Contacts(h)), to |-> Centroid(Contacts(k))]) =
    Swipe([fingers |-> n, from |-> Spot(h), to |-> Spot(k)])

\* The fingers are reported in an order of the device.
ReportsOf(h, t) ==
  IF h.down = {} THEN <<[time |-> t, count |-> 0, contact |-> {}]>>
  ELSE [i \in 1..Cardinality(h.down) |->
          [time |-> t, count |-> Cardinality(h.down), contact |-> {Place(h, SetToSeq(h.down)[i])}]]

\* What the hand itself does: a swipe of three or four fingers, from where they were
\* put down to where so many touched last.
Starts(h) ==
  IF Swiping(h) THEN {[fingers |-> Cardinality(h.down), from |-> Spot(h), to |-> Spot(h)]} ELSE {}

Follow(h) ==
  IF Swiping(h)
  THEN /\ stroke' = IF stroke = {} THEN Starts(h)
                    ELSE {[fingers |-> Larger(s.fingers, Cardinality(h.down)), from |-> s.from,
                           to |-> Spot(h)] : s \in stroke}
       /\ UNCHANGED meant
  ELSE /\ stroke' = {}
       /\ meant' = meant \o SetToSeq((UNION {Swipe(s) : s \in stroke}) \intersect GestureKeys)

\* The hand moves, or fingers are put down or lifted.
Scan(h) ==
  /\ reports = <<>> /\ scans < MaxScans /\ scans' = scans + 1
  /\ h # hand /\ (h.at # hand.at => h.down = hand.down)
  /\ hand' = h
  /\ reports' = ReportsOf(h, scans)
  /\ IF trouble /\ session = {} /\ frame.contacts = {} /\ Cardinality(hand.down) < 3
     THEN meant' = <<>> /\ obeyed' = <<>> /\ trouble' = FALSE /\ stroke' = Starts(h)
     ELSE Follow(h) /\ UNCHANGED <<obeyed, trouble>>
  /\ UNCHANGED <<frame, session, losses>>

ReportLost ==
  /\ reports # <<>> /\ losses < MaxLost /\ losses' = losses + 1
  /\ reports' = Tail(reports) /\ trouble' = TRUE
  /\ UNCHANGED <<hand, frame, session, obeyed, stroke, meant, scans>>

---------------------------------------------------------------------------
(* RawTouchpadFrameAssembler, and the worker. *)

\* begin_frame, when there is none of that time, and the contact of the report
Added(f, r) ==
  IF f.time = {r.time} THEN [f EXCEPT !.contacts = @ \union r.contact]
  ELSE [time |-> {r.time}, expected |-> r.count, contacts |-> r.contact]

\* should_flush_current_frame
\* Mistake: the report of no finger is waited for like another.
FlushesFull(f, r) == f.expected > 0 /\ Cardinality(f.contacts) >= f.expected
Flushes(f, r) == r.count = 0 \/ (f.expected > 0 /\ Cardinality(f.contacts) >= f.expected)

\* command_for: a gesture that is not bound is nothing.
Obeys(gesture) == obeyed' = obeyed \o SetToSeq(gesture \intersect GestureKeys)

\* process_report: the rest of the frame
Completes(f, r) ==
  IF Flushes(f, r)
  THEN LET done == Recognized(f.contacts)
       IN  frame' = NoFrame /\ session' = done.session /\ Obeys(done.gesture)
  ELSE frame' = f /\ UNCHANGED <<session, obeyed>>

\* A report of the frame that is there, or of a new one.
ReportContinues ==
  /\ reports # <<>>
  /\ frame.time \in {{}, {Head(reports).time}}
  /\ Completes(Added(frame, Head(reports)), Head(reports))
  /\ reports' = Tail(reports)
  /\ UNCHANGED <<hand, stroke, meant, trouble, scans, losses>>

\* A report of a later scan: what is there of the frame is all there will be.  If
\* that gives a gesture, the new frame waits even if it is complete.
ReportSupersedes ==
  /\ reports # <<>>
  /\ frame.time \notin {{}, {Head(reports).time}}
  /\ LET r == Head(reports)
         ended == Recognized(frame.contacts)
         f == Added(NoFrame, r)
     IN  IF ended.gesture = {} /\ Flushes(f, r)
         THEN \* the contacts of one report are less than three
              /\ frame' = NoFrame /\ session' = {}
              /\ Obeys(UNION {Swipe(s) : s \in ended.session})
         ELSE frame' = f /\ session' = ended.session /\ Obeys(ended.gesture)
  /\ reports' = Tail(reports)
  /\ UNCHANGED <<hand, stroke, meant, trouble, scans, losses>>

---------------------------------------------------------------------------

TouchpadNext == (\E h \in Hands : Scan(h)) \/ ReportLost \/ ReportContinues \/ ReportSupersedes

TouchpadSpec == TouchpadInit /\ [][TouchpadNext]_touchVars

---------------------------------------------------------------------------

\* The commands sent are those of the swipes the hand has made, each once and in
\* order, fingers put down and lifted one after the other included: as soon as the
\* last finger is lifted, and again after lost reports once a frame of less than
\* three fingers has come through.
SwipesAreObeyed ==
  ~trouble /\ reports = <<>> => obeyed = meant
=============================================================================
