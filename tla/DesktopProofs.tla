---------------------------- MODULE DesktopProofs ----------------------------
(***************************************************************************)
(* Proofs about what the daemon does to the desktop: validation and        *)
(* recovery, for any set of windows, any mix of their kinds and any number *)
(* of turns of the desktop, and the unwinding of what is put on the screen,*)
(* however many commands are late, refused or clicked away.                *)
(*                                                                         *)
(* OnlyDefianceUnwinds (management is given up only for two windows that   *)
(* really kept away) is not inductive: it says nothing of the windows a    *)
(* cycle has found out of place before the count is full.  RecoveryInv     *)
(* adds, for every stage behind an apply, that a window still off its      *)
(* place, or still too wide, or still without the foreground it should     *)
(* have, is in the history for a reason.                                   *)
(*                                                                         *)
(* UnwindLeavesNothing is not inductive either: it says nothing of commands*)
(* on their way.  PresentationInv adds that a host that is cleared has no  *)
(* command left that would show it again, that the worker an answer comes  *)
(* from has obeyed all earlier commands, and, while the unwinding goes on, *)
(* that what is not cleared yet is still among the calls to be made.       *)
(***************************************************************************)
EXTENDS Recovery, Presentation, FiniteSetTheorems, SequenceTheorems, DataProofs, TLAPS

Spots   == {"right", "off", "wide"}
Checks  == {"applied", "retrying", "judging"}
Excused == defiant \union shunned

\* Types of the desktop, the state and the histories.
RecoveryTypes ==
  /\ there \subseteq Windows /\ known \subseteq Windows
  /\ spot \in [Windows -> Spots]
  /\ refusing \subseteq defiant
  /\ defiant \subseteq Windows /\ shunned \subseteq Windows
  /\ target \in Windows /\ front \in there \union {NoWindow}
  /\ enabled \in BOOLEAN
  /\ cycle \in [stage : {"idle", "planning"} \union Checks, reason : {"poll", "width"},
                planned : BOOLEAN, seen : Nat, churn : BOOLEAN, checked : Nat]

\* A window too wide for its column has not given the column its width yet.
WideIsNew == \A h \in Windows : spot[h] = "wide" => h \notin widened

\* A window in its place needs no more width than its column has.
RightFits == \A h \in Windows : spot[h] = "right" => h \notin Narrow \ widened

\* After an apply a tracked window is off its place only when it keeps away, after the
\* validation also when a column made wider has shifted it.
OffIsExcused ==
  /\ cycle.stage = "applied" =>
       \A h \in known \intersect there : spot[h] = "off" => h \in Excused
  /\ cycle.stage = "retrying" =>
       \A h \in (known \intersect there) \ Lenient :
         spot[h] = "off" => h \in Excused \/ h \notin Narrow \ widened
  /\ cycle.stage = "judging" =>
       \A h \in (known \intersect there) \ Lenient : spot[h] = "off" => h \in Excused

\* After the validation a validated window is too wide only when it kept away.
WideIsExcused ==
  cycle.stage \in {"retrying", "judging"} =>
    \A h \in (known \intersect there) \ Lenient : spot[h] = "wide" => h \in Excused

\* After an apply the focus is without the foreground only when it was denied it.
FrontIsExcused ==
  cycle.stage \in Checks => (Activates(target) => target \in shunned)

RecoveryInv ==
  /\ RecoveryTypes /\ WideIsNew /\ RightFits /\ OffIsExcused /\ WideIsExcused /\ FrontIsExcused
  /\ OnlyDefianceUnwinds
Stays == UNCHANGED <<known, widened, target, claim, enabled, cycle>>
-----------------------------------------------------------------------------
(* The histories.                                                           *)

\* The histories only grow: what has cost the management stays in them.
LEMMA DefianceStays ==
  ASSUME OnlyDefianceUnwinds, enabled' = enabled,
         defiant \subseteq defiant', shunned \subseteq shunned',
         defiant' \subseteq Windows, shunned' \subseteq Windows
  PROVE  OnlyDefianceUnwinds'
<1> DEFINE before == (defiant \ Lenient) \union shunned
           after  == (defiant' \ Lenient) \union shunned'
<1>1. before \subseteq after /\ after \subseteq Windows
  OBVIOUS
<1>2. IsFiniteSet(after)
  BY <1>1, RecoveryAssumption, FS_Subset
<1>3. IsFiniteSet(before) /\ Cardinality(before) <= Cardinality(after)
  BY <1>1, <1>2, FS_Subset
<1>4. Cardinality(before) \in Nat /\ Cardinality(after) \in Nat
  BY <1>2, <1>3, FS_CardinalityType
<1> HIDE DEF before, after
<1>5. Cardinality(before) > 1 => Cardinality(after) > 1
  BY <1>3, <1>4
<1>6. QED
  BY <1>5 DEF OnlyDefianceUnwinds, before, after

-----------------------------------------------------------------------------
(* The desktop.                                                             *)

\* A turn of the desktop takes the foreground from the focus, or brings it back
\* before a scan has missed it, only with a mark in the history.
LEMMA FrontStays ==
  ASSUME RecoveryTypes, FrontIsExcused, Stays, shunned \subseteq shunned',
         \/ target \in shunned'
         \/ front' = front /\ there' = there
         \/ \E h \in Windows : front' = front /\ h # front /\ there' = there \ {h}
         \/ \E h \in Windows : /\ front' = front /\ h \notin there /\ there' = there \union {h}
                               /\ h \in known => h \in shunned'
  PROVE  FrontIsExcused'
<1> SUFFICES ASSUME cycle.stage \in Checks, Activates(target)', target \notin shunned'
             PROVE  FALSE
  BY DEF FrontIsExcused, Stays
<1>1. ~Activates(target)
  BY DEF FrontIsExcused
<1>2. CASE front' = front /\ there' = there
  BY <1>1, <1>2 DEF Activates, Held, Reasserts, Tracked, Stays
<1>3. ASSUME NEW h \in Windows, front' = front, h # front, there' = there \ {h}
      PROVE  FALSE
  <2>1. target \in there' /\ target \in there
    BY <1>3 DEF Activates, Tracked, Stays
  <2>2. front \in there' <=> front \in there
    BY <1>3
  <2>3. QED
    BY <1>1, <1>3, <2>1, <2>2 DEF Activates, Held, Reasserts, Tracked, Stays
<1>4. ASSUME NEW h \in Windows, front' = front, h \notin there, there' = there \union {h},
             h \in known => h \in shunned'
      PROVE  FALSE
  <2>1. h # front
    BY <1>4, RecoveryAssumption DEF RecoveryTypes
  <2>2. h # target \/ h \notin known
    BY <1>4
  <2>3. target \in known \intersect there
    BY <1>4, <2>2 DEF Activates, Tracked, Stays
  <2>4. front \in there' <=> front \in there
    BY <1>4, <2>1
  <2>5. QED
    BY <1>1, <1>4, <2>3, <2>4 DEF Activates, Held, Reasserts, Tracked, Stays
<1>5. QED
  BY <1>2, <1>3, <1>4

\* Nor does it move a tracked window off its place without one.
LEMMA PlacesStay ==
  ASSUME RecoveryTypes, WideIsNew, RightFits, OffIsExcused, WideIsExcused, Stays,
         there' \subseteq Windows, spot' \in [Windows -> Spots],
         defiant \subseteq defiant', shunned \subseteq shunned',
         \A h \in there' : \/ h \in there /\ spot'[h] = spot[h]
                           \/ spot'[h] # "right" /\ h \in known => h \in Excused',
         \A h \in Windows : spot'[h] \in {spot[h], "off", Best(h)}
  PROVE  WideIsNew' /\ RightFits' /\ OffIsExcused' /\ WideIsExcused'
<1>1. WideIsNew' /\ RightFits'
  BY DEF WideIsNew, RightFits, Best, Stays
<1>2. OffIsExcused'
  BY DEF OffIsExcused, Excused, Stays
<1>3. WideIsExcused'
  BY DEF WideIsExcused, Excused, Stays
<1>4. QED
  BY <1>1, <1>2, <1>3

\* Every turn of the desktop keeps the invariant.
LEMMA DesktopStirsInv ==
  ASSUME RecoveryInv, DesktopStirs
  PROVE  RecoveryInv'
<1> USE DEF RecoveryInv
<1>1. Stays
  BY DEF DesktopStirs, WindowStrays, WindowReturns, WindowComesOrGoes, FrontTurns, MoodTurns,
         LeavesCycle, Stays
<1>2. SUFFICES /\ RecoveryTypes'
               /\ WideIsNew' /\ RightFits' /\ OffIsExcused' /\ WideIsExcused'
               /\ FrontIsExcused'
               /\ defiant \subseteq defiant' /\ shunned \subseteq shunned'
  <2>1. enabled' = enabled
    BY <1>1 DEF Stays
  <2>2. QED
    BY <2>1, DefianceStays DEF RecoveryTypes
<1>3. ASSUME NEW h \in Windows, WindowStrays(h) \/ WindowReturns(h)
      PROVE  /\ RecoveryTypes'
             /\ WideIsNew' /\ RightFits' /\ OffIsExcused' /\ WideIsExcused'
             /\ FrontIsExcused'
             /\ defiant \subseteq defiant' /\ shunned \subseteq shunned'
  <2>1. /\ UNCHANGED <<there, refusing, front, shunned>>
        /\ defiant \subseteq defiant' /\ defiant' \subseteq Windows
    BY <1>3 DEF WindowStrays, WindowReturns, RecoveryTypes
  <2>2. spot' \in [Windows -> Spots]
    BY <1>3 DEF WindowStrays, WindowReturns, RecoveryTypes, Spots, Best
  <2>3. RecoveryTypes'
    BY <1>1, <2>1, <2>2 DEF RecoveryTypes, Stays
  <2>4. \A w \in Windows : spot'[w] = spot[w] \/ (spot'[w] \in {"off", Best(w)} /\ w \in defiant')
    BY <1>3 DEF WindowStrays, WindowReturns, RecoveryTypes
  <2>5. WideIsNew' /\ RightFits' /\ OffIsExcused' /\ WideIsExcused'
    BY <1>1, <2>1, <2>2, <2>4, PlacesStay DEF RecoveryTypes, Excused
  <2>6. QED
    BY <1>1, <2>1, <2>3, <2>5, FrontStays
<1>4. ASSUME NEW h \in Windows, WindowComesOrGoes(h)
      PROVE  /\ RecoveryTypes'
             /\ WideIsNew' /\ RightFits' /\ OffIsExcused' /\ WideIsExcused'
             /\ FrontIsExcused'
             /\ defiant \subseteq defiant' /\ shunned \subseteq shunned'
  <2>1. /\ UNCHANGED <<refusing, defiant>>
        /\ there' = IF h \in there THEN there \ {h} ELSE there \union {h}
        /\ spot' = [spot EXCEPT ![h] = "off"]
        /\ front' = IF front = h THEN NoWindow ELSE front
        /\ shunned' = shunned \union (IF front = h THEN {target} ELSE {h} \intersect (known \ there))
    BY <1>4 DEF WindowComesOrGoes
  <2>2. /\ spot' \in [Windows -> Spots] /\ spot'[h] = "off"
        /\ \A w \in Windows \ {h} : spot'[w] = spot[w]
    BY <2>1 DEF RecoveryTypes, Spots
  <2>3. shunned \subseteq shunned' /\ shunned' \subseteq Windows /\ there' \subseteq Windows
    BY <2>1 DEF RecoveryTypes
  <2>4. front' \in there' \union {NoWindow}
    BY <2>1 DEF RecoveryTypes
  <2>5. RecoveryTypes'
    BY <1>1, <2>1, <2>2, <2>3, <2>4 DEF RecoveryTypes, Stays
  <2>6. h \in there' => front # h /\ h \notin there
    BY <2>1, RecoveryAssumption DEF RecoveryTypes
  <2>7. h \in there' /\ h \in known => h \in shunned'
    BY <2>1, <2>6
  <2>8. WideIsNew' /\ RightFits' /\ OffIsExcused' /\ WideIsExcused'
    <3>1. \A w \in there' : \/ w \in there /\ spot'[w] = spot[w]
                            \/ spot'[w] # "right" /\ w \in known => w \in Excused'
      BY <2>1, <2>2, <2>3, <2>7 DEF Excused
    <3>2. \A w \in Windows : spot'[w] \in {spot[w], "off", Best(w)}
      BY <2>2
    <3>3. QED
      BY <1>1, <2>1, <2>2, <2>3, <3>1, <3>2, PlacesStay
  <2>9. FrontIsExcused'
    BY <1>1, <2>1, <2>3, <2>6, <2>7, FrontStays
  <2>10. QED
    BY <2>1, <2>3, <2>5, <2>8, <2>9
<1>5. ASSUME NEW h \in Windows, FrontTurns(h)
      PROVE  /\ RecoveryTypes'
             /\ WideIsNew' /\ RightFits' /\ OffIsExcused' /\ WideIsExcused'
             /\ FrontIsExcused'
             /\ defiant \subseteq defiant' /\ shunned \subseteq shunned'
  <2>1. /\ UNCHANGED <<there, spot, refusing, defiant>>
        /\ h \in there /\ front' = h /\ shunned' = shunned \union {target}
    BY <1>5 DEF FrontTurns
  <2>2. RecoveryTypes'
    BY <1>1, <2>1 DEF RecoveryTypes, Stays
  <2>3. WideIsNew' /\ RightFits' /\ OffIsExcused' /\ WideIsExcused'
    BY <1>1, <2>1, <2>2, PlacesStay DEF RecoveryTypes
  <2>4. QED
    BY <1>1, <2>1, <2>2, <2>3, FrontStays
<1>6. ASSUME NEW hs \in SUBSET Unruly, MoodTurns(hs)
      PROVE  /\ RecoveryTypes'
             /\ WideIsNew' /\ RightFits' /\ OffIsExcused' /\ WideIsExcused'
             /\ FrontIsExcused'
             /\ defiant \subseteq defiant' /\ shunned \subseteq shunned'
  <2>1. /\ UNCHANGED <<there, spot, front, shunned>>
        /\ refusing' = hs /\ defiant' = defiant \union hs
    BY <1>6 DEF MoodTurns
  <2>2. RecoveryTypes'
    BY <1>1, <2>1, RecoveryAssumption DEF RecoveryTypes, Stays
  <2>3. WideIsNew' /\ RightFits' /\ OffIsExcused' /\ WideIsExcused'
    BY <1>1, <2>1, <2>2, PlacesStay DEF RecoveryTypes
  <2>4. QED
    BY <1>1, <2>1, <2>2, <2>3, FrontStays
<1>7. QED
  BY <1>3, <1>4, <1>5, <1>6 DEF DesktopStirs
-----------------------------------------------------------------------------
(* The cycle.                                                               *)

Kept == UNCHANGED <<there, refusing, defiant, known, target, enabled>>

\* A cycle starts, with nothing to answer for until it has applied its layout.
LEMMA StartsInv ==
  ASSUME RecoveryInv, CycleStarts \/ CommandComes
  PROVE  RecoveryInv'
<1>1. /\ UNCHANGED <<there, refusing, front, defiant, shunned, enabled>>
      /\ cycle'.stage = "planning"
      /\ known' \subseteq Windows /\ target' \in Windows
      /\ spot' \in [Windows -> Spots]
      /\ WideIsNew' /\ RightFits'
      /\ cycle' \in [stage : {"idle", "planning"} \union Checks, reason : {"poll", "width"},
                     planned : BOOLEAN, seen : Nat, churn : BOOLEAN, checked : Nat]
  <2>1. Cardinality(there) \in Nat /\ Cardinality(known) \in Nat
    BY RecoveryAssumption, FS_Subset, FS_CardinalityType DEF RecoveryInv, RecoveryTypes
  <2>2. CASE CycleStarts
    BY <2>1, <2>2
    DEF CycleStarts, Followed, desktopVars, Rest, RecoveryInv, RecoveryTypes, WideIsNew, RightFits
  <2>3. ASSUME NEW t \in Windows, NEW resizes \in BOOLEAN, CommandStarts(t, resizes)
        PROVE  <1>1!:
    <3>1. /\ UNCHANGED <<there, refusing, front, defiant, shunned, enabled>>
          /\ target' = t /\ known' = there
      BY <2>3 DEF CommandStarts
    <3>2. CASE resizes
      <4>1. spot' = [h \in Windows |-> "off"]
            /\ cycle' = [Rest EXCEPT !.stage = "planning", !.reason = "width",
                         !.seen = Cardinality(there)]
        BY <2>3, <3>2 DEF CommandStarts
      <4>2. spot' \in [Windows -> Spots] /\ WideIsNew' /\ RightFits'
        BY <4>1 DEF WideIsNew, RightFits, Spots
      <4>3. QED
        BY <2>1, <3>1, <4>1, <4>2 DEF Rest, RecoveryInv, RecoveryTypes
    <3>3. CASE ~resizes
      <4>1. UNCHANGED <<spot, widened>>
            /\ cycle' = [Rest EXCEPT !.stage = "planning", !.seen = Cardinality(there)]
        BY <2>3, <3>3 DEF CommandStarts
      <4>2. QED
        BY <2>1, <3>1, <4>1 DEF Rest, RecoveryInv, RecoveryTypes, WideIsNew, RightFits
    <3>4. QED
      BY <3>2, <3>3
  <2>4. QED
    BY <2>2, <2>3 DEF CommandComes
<1>2. RecoveryTypes'
  BY <1>1 DEF RecoveryInv, RecoveryTypes
<1>3. OffIsExcused' /\ WideIsExcused' /\ FrontIsExcused'
  BY <1>1 DEF OffIsExcused, WideIsExcused, FrontIsExcused, Checks
<1>4. OnlyDefianceUnwinds'
  BY <1>1 DEF RecoveryInv, OnlyDefianceUnwinds
<1>5. QED
  BY <1>1, <1>2, <1>3, <1>4 DEF RecoveryInv

\* What an attempt to move windows leaves: it never makes a window worse, and only
\* the ones that refuse are still off their place.
LEMMA MovedLeaves ==
  ASSUME RecoveryTypes, WideIsNew, RightFits, NEW hs \in SUBSET Windows, Moved(hs)
  PROVE  /\ spot' \in [Windows -> Spots]
         /\ \A h \in Windows : spot'[h] = "wide" => h \notin widened
         /\ \A h \in Windows : spot'[h] = "right" => h \notin Narrow \ widened
         /\ \A h \in Windows \ hs : spot'[h] = spot[h]
         /\ \A h \in hs : spot'[h] # "off" \/ (h \in refusing /\ spot'[h] = spot[h])
<1>1. \A h \in Windows :
        spot'[h] = IF h \notin hs \/ h \in refusing THEN spot[h]
                   ELSE IF h \in Narrow \ widened THEN "wide" ELSE "right"
  BY DEF Moved, Best
<1>2. \A h \in Windows : spot'[h] \in Spots
  BY <1>1 DEF RecoveryTypes, Spots
<1>3. spot' \in [Windows -> Spots]
  <2>1. spot' = [h \in Windows |-> spot'[h]]
    BY DEF Moved
  <2>2. QED
    BY <1>2, <2>1
<1>4. \A h \in Windows : /\ spot'[h] = "wide" => h \notin widened
                         /\ spot'[h] = "right" => h \notin Narrow \ widened
  BY <1>1 DEF WideIsNew, RightFits
<1>5. \A h \in Windows \ hs : spot'[h] = spot[h]
  BY <1>1
<1>6. \A h \in hs : spot'[h] # "off" \/ (h \in refusing /\ spot'[h] = spot[h])
  <2> SUFFICES ASSUME NEW h \in hs
               PROVE  spot'[h] # "off" \/ (h \in refusing /\ spot'[h] = spot[h])
    OBVIOUS
  <2>1. h \in Windows
    OBVIOUS
  <2>2. QED
    BY <1>1, <2>1
<1>7. QED
  BY <1>3, <1>4, <1>5, <1>6

\* After an attempt the focus has the foreground, or was refused it, or should not
\* have had it.
LEMMA FrontedLeaves ==
  ASSUME RecoveryTypes, NEW hs, Fronted(hs), UNCHANGED <<there, known, target, claim>>,
         Activates(target) => target \in hs \/ target \in shunned
  PROVE  /\ front' \in there' \union {NoWindow}
         /\ shunned \subseteq shunned' /\ shunned' \subseteq Windows
         /\ Activates(target)' => target \in shunned'
<1>1. CASE \E h \in hs : Activates(h)
  <2>1. target \in there
    BY <1>1 DEF Activates, Tracked
  <2>2. QED
    BY <1>1, <2>1 DEF Fronted, RecoveryTypes, Activates
<1>2. CASE ~(\E h \in hs : Activates(h))
  <2>1. UNCHANGED <<front, shunned>>
    BY <1>2 DEF Fronted
  <2>2. Activates(target)' <=> Activates(target)
    BY <2>1 DEF Activates, Held, Reasserts, Tracked
  <2>3. QED
    BY <1>2, <2>1, <2>2 DEF RecoveryTypes
<1>3. QED
  BY <1>1, <1>2

\* The apply: everything misplaced is moved.
LEMMA AppliesInv ==
  ASSUME RecoveryInv, NEW also \in BOOLEAN, Applies(also)
  PROVE  RecoveryInv'
<1> USE DEF RecoveryInv
<1>1. Kept /\ UNCHANGED <<widened, claim>>
  BY DEF Applies, Kept
<1>2. CASE enabled
  <2>1. Moved(Operations) /\ Fronted(Operations)
        /\ cycle' = [cycle EXCEPT !.stage = "applied", !.planned = also \/ Operations # {}]
    BY <1>2 DEF Applies
  <2>2. Operations \subseteq Windows
    BY DEF Operations, Misplaced
  <2>3. Activates(target) => target \in Operations
    BY DEF Operations, RecoveryTypes
  <2>4. /\ spot' \in [Windows -> Spots]
        /\ WideIsNew' /\ RightFits'
        /\ \A h \in Windows \ Operations : spot'[h] = spot[h]
        /\ \A h \in Operations : spot'[h] # "off" \/ h \in refusing
    BY <1>1, <2>1, <2>2, MovedLeaves DEF WideIsNew, RightFits
  <2>5. /\ front' \in there' \union {NoWindow}
        /\ shunned \subseteq shunned' /\ shunned' \subseteq Windows
        /\ Activates(target)' => target \in shunned'
    BY <1>1, <2>1, <2>3, FrontedLeaves DEF Kept
  <2>6. cycle'.stage = "applied"
        /\ cycle' \in [stage : {"idle", "planning"} \union Checks, reason : {"poll", "width"},
                       planned : BOOLEAN, seen : Nat, churn : BOOLEAN, checked : Nat]
    BY <2>1 DEF RecoveryTypes, Checks
  <2>7. RecoveryTypes'
    BY <1>1, <2>4, <2>5, <2>6 DEF RecoveryTypes, Kept
  <2>8. \A h \in known \intersect there : spot[h] # "right" => h \in Operations
    BY DEF Operations, Misplaced, Tracked, RecoveryTypes
  <2>9. OffIsExcused'
    BY <1>1, <2>4, <2>6, <2>8 DEF OffIsExcused, Excused, RecoveryTypes, Kept
  <2>10. WideIsExcused' /\ FrontIsExcused'
    BY <1>1, <2>5, <2>6 DEF WideIsExcused, FrontIsExcused, Kept
  <2>11. OnlyDefianceUnwinds'
    BY <1>1, <2>5, DefianceStays DEF RecoveryTypes, Kept
  <2>12. QED
    BY <2>4, <2>7, <2>9, <2>10, <2>11
<1>3. CASE ~enabled
  <2>1. cycle' = Rest /\ UNCHANGED <<spot, front, shunned>>
    BY <1>3 DEF Applies
  <2>2. RecoveryTypes'
    BY <1>1, <2>1 DEF RecoveryTypes, Rest, Kept
  <2>3. OffIsExcused' /\ WideIsExcused' /\ FrontIsExcused'
    BY <2>1 DEF OffIsExcused, WideIsExcused, FrontIsExcused, Checks, Rest
  <2>4. WideIsNew' /\ RightFits' /\ OnlyDefianceUnwinds'
    BY <1>1, <2>1 DEF WideIsNew, RightFits, OnlyDefianceUnwinds, Kept
  <2>5. QED
    BY <2>2, <2>3, <2>4
<1>4. QED
  BY <1>2, <1>3

\* The validation: what is too wide for its column widens the column.
LEMMA ValidatesInv ==
  ASSUME RecoveryInv, Validates
  PROVE  RecoveryInv'
<1> USE DEF RecoveryInv
<1>1. Kept /\ UNCHANGED <<front, shunned, claim>> /\ cycle.stage = "applied"
  BY DEF Validates, Kept
<1>2. OnlyDefianceUnwinds'
  BY <1>1 DEF OnlyDefianceUnwinds, Kept
<1>3. CASE ~cycle.planned
  <2>1. cycle' = Rest /\ UNCHANGED <<spot, widened>>
    BY <1>3 DEF Validates
  <2>2. RecoveryTypes'
    BY <1>1, <2>1 DEF RecoveryTypes, Rest, Kept
  <2>3. WideIsNew' /\ RightFits' /\ OffIsExcused' /\ WideIsExcused' /\ FrontIsExcused'
    BY <2>1 DEF WideIsNew, RightFits, OffIsExcused, WideIsExcused, FrontIsExcused, Checks, Rest
  <2>4. QED
    BY <1>2, <2>2, <2>3
<1>4. CASE cycle.planned
  <2> DEFINE fits == Adapts(Remaining)
  <2>1. /\ widened' = widened \union fits
        /\ Shifts(fits)
        /\ \/ cycle' = Rest
           \/ cycle' = [cycle EXCEPT !.stage = "retrying", !.checked = Cardinality(there)]
    BY <1>4 DEF Validates
  <2>2. /\ cycle'.stage \in {"idle", "retrying"}
        /\ cycle' \in [stage : {"idle", "planning"} \union Checks, reason : {"poll", "width"},
                       planned : BOOLEAN, seen : Nat, churn : BOOLEAN, checked : Nat]
    <3>1. Cardinality(there) \in Nat
      BY RecoveryAssumption, FS_Subset, FS_CardinalityType DEF RecoveryTypes
    <3>2. CASE cycle' = Rest
      BY <3>2 DEF Rest
    <3>3. CASE cycle' = [cycle EXCEPT !.stage = "retrying", !.checked = Cardinality(there)]
      BY <3>1, <3>3 DEF RecoveryTypes, Checks
    <3>4. QED
      BY <2>1, <3>2, <3>3
  <2>3. fits \subseteq Windows
    BY DEF Adapts, Remaining, Operations, Misplaced
  <2>4. \A h \in (known \intersect there) \ Lenient : spot[h] = "wide" => h \in fits
    BY DEF Adapts, Remaining, Operations, Misplaced, Tracked, RecoveryTypes, WideIsNew
  <2>12. \A h \in fits : h \in Windows /\ spot[h] = "wide"
    BY <2>3 DEF Adapts
  <2> HIDE DEF fits
  <2>13. PICK shifted : /\ \A h \in shifted : h \in fits \/ (h \in Windows /\ spot[h] = "right")
                        /\ spot' = [h \in Windows |-> IF h \in shifted THEN "off"
                                                      ELSE IF h \in fits THEN "right" ELSE spot[h]]
    BY <2>1 DEF Shifts
  <2>14. \A h \in Windows : spot'[h] = IF h \in shifted THEN "off"
                                       ELSE IF h \in fits THEN "right" ELSE spot[h]
    BY <2>13
  <2>5. spot' \in [Windows -> Spots]
    BY <2>13 DEF RecoveryTypes, Spots
  <2>6. RecoveryTypes'
    BY <1>1, <2>2, <2>5 DEF RecoveryTypes, Kept
  <2>7. WideIsNew' /\ RightFits'
    BY <2>1, <2>14 DEF WideIsNew, RightFits
  <2>8. OffIsExcused'
    <3>1. SUFFICES ASSUME NEW h \in (known \intersect there) \ Lenient, spot'[h] = "off"
                   PROVE  h \in Excused' \/ h \notin Narrow \ widened'
      BY <1>1, <2>2 DEF OffIsExcused, Kept
    <3>2. h \in Windows
      BY <3>1 DEF RecoveryTypes
    <3>3. CASE h \in shifted
      BY <2>1, <2>13, <3>2, <3>3 DEF RightFits
    <3>4. CASE h \notin shifted
      <4>1. spot[h] = "off"
        BY <2>14, <3>1, <3>2, <3>4
      <4>2. QED
        BY <1>1, <3>1, <4>1 DEF OffIsExcused, Excused, Kept
    <3>5. QED
      BY <3>3, <3>4
  <2>9. WideIsExcused'
    <3>1. \A h \in (known \intersect there) \ Lenient : spot'[h] # "wide"
      BY <2>4, <2>14 DEF RecoveryTypes
    <3>2. QED
      BY <1>1, <3>1 DEF WideIsExcused, Kept
  <2>10. FrontIsExcused'
    <3>1. Activates(target)' <=> Activates(target)
      BY <1>1 DEF Activates, Held, Reasserts, Tracked, Kept
    <3>2. QED
      BY <1>1, <3>1 DEF FrontIsExcused, Kept, Checks
  <2>11. QED
    BY <1>2, <2>6, <2>7, <2>8, <2>9, <2>10
<1>5. QED
  BY <1>3, <1>4

\* The retry moves only windows that are in the history already.
LEMMA RetriesInv ==
  ASSUME RecoveryInv, Retries
  PROVE  RecoveryInv'
<1> USE DEF RecoveryInv
<1>1. /\ Kept /\ UNCHANGED <<widened, claim>> /\ cycle.stage = "retrying"
      /\ Moved(Remaining) /\ Fronted(Remaining)
      /\ cycle' = [cycle EXCEPT !.stage = "judging"]
  BY DEF Retries, Kept
<1>2. Remaining \subseteq Windows
  BY DEF Remaining, Operations, Misplaced
<1>3. Activates(target) => target \in Remaining
  BY DEF Remaining, Operations, RecoveryTypes
<1>4. /\ spot' \in [Windows -> Spots]
      /\ WideIsNew' /\ RightFits'
      /\ \A h \in Windows \ Remaining : spot'[h] = spot[h]
      /\ \A h \in Remaining : spot'[h] # "off" \/ (h \in refusing /\ spot'[h] = spot[h])
  BY <1>1, <1>2, MovedLeaves DEF WideIsNew, RightFits
<1>5. /\ front' \in there' \union {NoWindow}
      /\ shunned \subseteq shunned' /\ shunned' \subseteq Windows
      /\ Activates(target)' => target \in shunned'
  BY <1>1, <1>3, FrontedLeaves DEF Kept
<1>6. cycle'.stage = "judging"
      /\ cycle' \in [stage : {"idle", "planning"} \union Checks, reason : {"poll", "width"},
                     planned : BOOLEAN, seen : Nat, churn : BOOLEAN, checked : Nat]
  BY <1>1 DEF RecoveryTypes, Checks
<1>7. RecoveryTypes'
  BY <1>1, <1>4, <1>5, <1>6 DEF RecoveryTypes, Kept
<1>8. OffIsExcused'
  <2>1. SUFFICES ASSUME NEW h \in (known \intersect there) \ Lenient, spot'[h] = "off"
                 PROVE  h \in Excused'
    BY <1>1, <1>6 DEF OffIsExcused, Kept
  <2>2. h \in Windows
    BY <2>1 DEF RecoveryTypes
  <2>3. spot[h] = "off" => h \in Remaining
    BY <2>1, <2>2 DEF Remaining, Operations, Misplaced, Tracked
  <2>4. h \in Remaining
    BY <1>4, <2>1, <2>2, <2>3
  <2>5. h \in refusing
    BY <1>4, <2>1, <2>4
  <2>6. QED
    BY <1>1, <2>5 DEF Excused, RecoveryTypes, Kept
<1>9. WideIsExcused'
  <2> SUFFICES ASSUME NEW h \in (known \intersect there) \ Lenient, spot'[h] = "wide"
               PROVE  h \in Excused'
    BY <1>1 DEF WideIsExcused, Kept
  <2>1. CASE spot[h] # "right"
    <3>1. spot[h] \in {"off", "wide"}
      BY <2>1 DEF RecoveryTypes, Spots
    <3>2. h \in Excused \/ (spot[h] = "off" /\ h \notin Narrow \ widened)
      BY <1>1, <3>1 DEF OffIsExcused, WideIsExcused
    <3>3. CASE h \in Excused
      BY <1>1, <1>5, <3>3 DEF Excused, Kept
    <3>4. CASE spot[h] = "off" /\ h \notin Narrow \ widened
      BY <1>1, <3>4 DEF Moved, Best, RecoveryTypes
    <3>5. QED
      BY <3>2, <3>3, <3>4
  <2>2. CASE spot[h] = "right"
    <3>1. h \in Remaining
      BY <1>4, <2>2 DEF RecoveryTypes
    <3>2. Activates(h) /\ h = target
      BY <2>2, <3>1 DEF Remaining, Operations, Misplaced, Activates
    <3>3. target \in shunned
      BY <1>1, <3>2 DEF FrontIsExcused, Checks
    <3>4. QED
      BY <1>5, <3>2, <3>3 DEF Excused
  <2>3. QED
    BY <2>1, <2>2
<1>10. FrontIsExcused' /\ OnlyDefianceUnwinds'
  BY <1>1, <1>5, DefianceStays DEF FrontIsExcused, RecoveryTypes, Kept
<1>11. QED
  BY <1>4, <1>7, <1>8, <1>9, <1>10

\* The verdict: every window that still counts is in the history.
LEMMA JudgesInv ==
  ASSUME RecoveryInv, Judges
  PROVE  RecoveryInv'
<1> USE DEF RecoveryInv
<1>1. /\ cycle.stage = "judging" /\ cycle' = Rest
      /\ UNCHANGED <<there, spot, refusing, front, defiant, shunned>>
      /\ UNCHANGED <<known, widened, target, claim>>
      /\ enabled' = enabled \/ enabled' = (enabled /\ ~Unwinds(Remaining, OneMore))
  BY DEF Judges, desktopVars
<1>2. RecoveryTypes'
  BY <1>1 DEF RecoveryTypes, Rest
<1>3. WideIsNew' /\ RightFits' /\ OffIsExcused' /\ WideIsExcused' /\ FrontIsExcused'
  BY <1>1 DEF WideIsNew, RightFits, OffIsExcused, WideIsExcused, FrontIsExcused, Checks, Rest
<1>4. Remaining \subseteq (defiant \ Lenient) \union shunned
  <2> SUFFICES ASSUME NEW h \in Remaining PROVE h \in (defiant \ Lenient) \union shunned
    OBVIOUS
  <2>1. CASE Activates(h)
    <3>1. h = target
      BY <2>1 DEF Activates
    <3>2. QED
      BY <1>1, <2>1, <3>1 DEF FrontIsExcused, Checks
  <2>2. CASE ~Activates(h)
    <3>1. h \in (known \intersect there) \ Lenient /\ spot[h] # "right" /\ h \in Windows
      BY <2>2 DEF Remaining, Operations, Misplaced, Tracked
    <3>2. spot[h] \in {"off", "wide"}
      BY <3>1 DEF RecoveryTypes, Spots
    <3>3. h \in Excused
      BY <1>1, <3>1, <3>2 DEF OffIsExcused, WideIsExcused
    <3>4. QED
      BY <3>1, <3>3 DEF Excused
  <2>3. QED
    BY <2>1, <2>2
<1>5. Unwinds(Remaining, OneMore) => Cardinality((defiant \ Lenient) \union shunned) > 1
  <2> DEFINE history == (defiant \ Lenient) \union shunned
  <2>1. IsFiniteSet(history)
    BY RecoveryAssumption, FS_Subset DEF RecoveryTypes
  <2>2. /\ IsFiniteSet(Remaining) /\ Cardinality(Remaining) <= Cardinality(history)
        /\ Cardinality(Remaining) \in Nat /\ Cardinality(history) \in Nat
    BY <1>4, <2>1, FS_Subset, FS_CardinalityType
  <2>3. Unwinds(Remaining, OneMore) => Cardinality(Remaining) > 1
    BY DEF Unwinds
  <2> HIDE DEF history
  <2>4. Unwinds(Remaining, OneMore) => Cardinality(history) > 1
    BY <2>2, <2>3
  <2>5. QED
    BY <2>4 DEF history
<1>6. OnlyDefianceUnwinds'
  BY <1>1, <1>5 DEF OnlyDefianceUnwinds
<1>7. QED
  BY <1>2, <1>3, <1>6
-----------------------------------------------------------------------------
\* The inductive invariant holds at the start.
LEMMA RecoveryInitInv ==
  ASSUME RecoveryInit
  PROVE  RecoveryInv
BY DEF RecoveryInit, Best, RecoveryInv, RecoveryTypes, WideIsNew, RightFits, OffIsExcused,
       WideIsExcused, FrontIsExcused, OnlyDefianceUnwinds, Spots, Checks, Rest

\* Every step of the desktop, the cycle and the user keeps it.
LEMMA RecoveryNextInv ==
  ASSUME RecoveryInv, [RecoveryNext]_recoveryVars
  PROVE  RecoveryInv'
<1>1. CASE UNCHANGED recoveryVars
  BY <1>1
  DEF recoveryVars, desktopVars, RecoveryInv, RecoveryTypes, WideIsNew, RightFits, OffIsExcused,
      WideIsExcused, FrontIsExcused, OnlyDefianceUnwinds, Excused, Activates, Held,
      Reasserts, Tracked
<1>2. CASE RecoveryNext
  BY <1>2, DesktopStirsInv, StartsInv, AppliesInv, ValidatesInv, RetriesInv, JudgesInv
  DEF RecoveryNext, CycleTurns
<1>3. QED
  BY <1>1, <1>2

\* The invariant of validation and recovery: what a cycle finds out of place after
\* its apply is out of place for a reason.
THEOREM RecoveryInvariant == RecoverySpec => []RecoveryInv
<1>1. RecoveryInit => RecoveryInv
  BY RecoveryInitInv
<1>2. RecoveryInv /\ [RecoveryNext]_recoveryVars => RecoveryInv'
  BY RecoveryNextInv
<1>3. QED
  BY <1>1, <1>2, PTL DEF RecoverySpec

\* Recovery gives the management up only when two windows kept out of the place or
\* of the foreground they should have, or left and came back between two scans: it
\* is never the verdict on one window, on windows whose geometry is not validated,
\* on narrow windows, or on what the daemon itself has moved.
THEOREM OnlyDefianceEndsManagement == RecoverySpec => []OnlyDefianceUnwinds
<1>1. RecoveryInv => OnlyDefianceUnwinds
  BY DEF RecoveryInv
<1>2. QED
  BY <1>1, RecoveryInvariant, PTL
---------------------------------------------------------------------------
(* The unwinding of what is on the screen (Presentation). *)

HostStates == {"none", "bare", "blank", "shown", "stray", "dead"}
Topics     == {"mask", "override", "window", "home", "parked", "band"}

\* The calls of programs: those of workers, and those of the window system.
WorkerCalls   == [do : {"show", "hide"}, kind : Kinds, win : Owners]
LocalCalls    == [do : {"mask", "unmask", "restore", "fallback", "move", "activate"},
                  kind : Topics, win : Owners]
Calls         == WorkerCalls \union LocalCalls
ClearingCalls == {c \in Calls : c.do \in {"hide", "unmask", "restore"}}

\* What stands in the channel of a worker.
Commands == [do : {"show", "hide"}, win : Owners, live : BOOLEAN]

PresentationTypes ==
  /\ status \in [Owners -> {"managed", "unmanaged", "unseen", "gone"}]
  /\ hosts \in [Kinds -> [Owners -> HostStates]]
  /\ tracked \in [Kinds -> SUBSET Owners]
  /\ masked \subseteq Owners /\ started \subseteq Kinds
  /\ queue \in [Kinds -> Seq(Commands)]
  /\ managing \in BOOLEAN
  /\ loop \in [stage : {"idle", "cleaning", "applying", "unwinding"}, todo : Seq(Seq(Calls)),
               answer : {"none", "awaited", "ok", "err"}, failed : BOOLEAN, owed : SUBSET Owners]

\* A worker that was never called has no command and no host.
Unstarted ==
  \A k \in Kinds \ started : queue[k] = <<>> /\ \A h \in Owners : hosts[k][h] = "none"

\* The call the main loop is at.
Asked == Head(Head(loop.todo))

\* There is one command the main loop waits for at most: the last one of the worker
\* it has called.
OneIsAwaited ==
  /\ loop.answer # "none" =>
       loop.todo # <<>> /\ Head(loop.todo) # <<>> /\ Asked \in WorkerCalls
  /\ loop.answer = "awaited" =>
       /\ queue[Asked.kind] # <<>>
       /\ queue[Asked.kind][Len(queue[Asked.kind])] = [do |-> Asked.do, win |-> Asked.win, live |-> TRUE]
  /\ \A k \in Kinds : \A i \in 1..Len(queue[k]) :
       queue[k][i].live => loop.answer = "awaited" /\ k = Asked.kind /\ i = Len(queue[k])

\* No host is there to be seen or promoted, and no command on its way shows it.
Cleared(k, h) ==
  /\ hosts[k][h] \in {"none", "dead"}
  /\ \A i \in 1..Len(queue[k]) : queue[k][i].do = "show" => queue[k][i].win # h

\* A host whose hiding has been answered is cleared.
AnsweredIsCleared ==
  loop.answer = "ok" /\ Asked.do = "hide" => Cleared(Asked.kind, Asked.win)

\* Without management there is nothing to do but to clear.
OnlyClears == ~managing => loop.todo \in Seq(Seq(ClearingCalls))

\* The calls left of the first program.
Left == IF loop.todo = <<>> THEN {} ELSE ToSet(Head(loop.todo))

\* A program takes the mask off a window after it has hidden its copy.
HidesFirst(p) ==
  \A i, j \in 1..Len(p) : \A h \in Owners :
    p[i] = Call("unmask", "mask", h) /\ p[j] = Call("hide", "copy", h) => j < i

\* What the unwinding owes is cleared, or there is a call left that clears it.
Bare(h) == h \in Alive => h \notin masked /\ Cleared("copy", h)
Unwinding ==
  /\ loop.todo # <<>> => HidesFirst(Head(loop.todo)) /\ Tail(loop.todo) = <<>>
  /\ \A h \in loop.owed :
       /\ \A k \in Kinds : Cleared(k, h) \/ Call("hide", k, h) \in Left
       /\ Bare(h) \/ Call("unmask", "mask", h) \in Left
Unwound ==
  \A h \in loop.owed : (\A k \in Kinds : Cleared(k, h)) /\ Bare(h)

UnwindKeepsItsWord ==
  ~managing /\ ~loop.failed => IF loop.stage = "unwinding" THEN Unwinding ELSE Unwound

PresentationInv ==
  /\ PresentationTypes /\ Unstarted /\ OneIsAwaited /\ AnsweredIsCleared /\ OnlyClears
  /\ (loop.stage = "idle" => loop.todo = <<>>)
  /\ (managing => loop.stage # "unwinding")
  /\ UnwindKeepsItsWord

---------------------------------------------------------------------------
(* Programs and channels. *)

\* The first call of a program, and what is left when it is made or given up.
LEMMA ProgramsShrink ==
  ASSUME NEW S, NEW todo \in Seq(Seq(S)), todo # <<>>
  PROVE  /\ Head(todo) \in Seq(S) /\ Tail(todo) \in Seq(Seq(S))
         /\ Head(todo) # <<>> =>
              LET rest == <<Tail(Head(todo))>> \o Tail(todo)
              IN  /\ Head(Head(todo)) \in S
                  /\ rest \in Seq(Seq(S)) /\ rest # <<>> /\ Head(rest) = Tail(Head(todo))
<1>1. Head(todo) \in Seq(S) /\ Tail(todo) \in Seq(Seq(S))
  OBVIOUS
<1> DEFINE p == Head(todo)
           q == Tail(todo)
<1>2. p \in Seq(S) /\ q \in Seq(Seq(S))
  BY <1>1
<1> HIDE DEF p, q
<1>3. ASSUME p # <<>>
      PROVE  /\ Head(p) \in S
             /\ <<Tail(p)>> \o q \in Seq(Seq(S)) /\ <<Tail(p)>> \o q # <<>>
             /\ Head(<<Tail(p)>> \o q) = Tail(p)
  <2>1. Head(p) \in S /\ Tail(p) \in Seq(S)
    BY <1>2, <1>3
  <2> DEFINE r == Tail(p)
  <2>2. r \in Seq(S)
    BY <2>1
  <2> HIDE DEF r
  <2>3. <<r>> \in Seq(Seq(S)) /\ Len(<<r>>) = 1 /\ <<r>>[1] = r
    BY <2>2
  <2> DEFINE z == <<r>> \o q
  <2>4. z \in Seq(Seq(S)) /\ Len(z) = 1 + Len(q) /\ z[1] = r
    BY <1>2, <2>3
  <2>5. z # <<>> /\ Head(z) = z[1]
    BY <1>2, <2>4
  <2>6. QED
    BY <2>1, <2>4, <2>5 DEF r
<1>4. QED
  BY <1>1, <1>3 DEF p, q

\* A program loses its first call, and no other.
LEMMA ProgramRest ==
  ASSUME NEW S, NEW p \in Seq(S), p # <<>>
  PROVE  /\ ToSet(p) = {Head(p)} \union ToSet(Tail(p))
         /\ HidesFirst(p) => HidesFirst(Tail(p))
<1> DEFINE q == Tail(p)
<1>1. /\ Len(q) = Len(p) - 1 /\ Len(p) \in Nat /\ Len(p) # 0 /\ Head(p) = p[1]
      /\ \A i \in 1..Len(q) : q[i] = p[i + 1] /\ i + 1 \in 1..Len(p)
      /\ \A i \in 1..Len(p) : i # 1 => i - 1 \in 1..Len(q) /\ p[i] = q[i - 1]
  OBVIOUS
<1>2. DOMAIN p = 1..Len(p) /\ DOMAIN q = 1..Len(q)
  OBVIOUS
<1> HIDE DEF q
<1>3. ToSet(p) = {p[i] : i \in 1..Len(p)} /\ ToSet(q) = {q[i] : i \in 1..Len(q)}
  BY <1>2 DEF ToSet
<1>4. ToSet(p) = {Head(p)} \union ToSet(q)
  <2>1. 1 \in 1..Len(p)
    BY <1>1
  <2>2. QED
    BY <1>1, <1>3, <2>1
<1>5. ASSUME HidesFirst(p) PROVE HidesFirst(q)
  <2>1. SUFFICES ASSUME NEW i \in 1..Len(q), NEW j \in 1..Len(q), NEW h \in Owners,
                        q[i] = Call("unmask", "mask", h), q[j] = Call("hide", "copy", h)
                 PROVE  j < i
    BY DEF HidesFirst
  <2>2. p[i + 1] = Call("unmask", "mask", h) /\ p[j + 1] = Call("hide", "copy", h)
    BY <1>1, <2>1
  <2>3. j + 1 < i + 1
    BY <1>1, <1>5, <2>2 DEF HidesFirst
  <2>4. QED
    BY <1>1, <2>3
<1>6. QED
  BY <1>4, <1>5 DEF q

\* Two programs after each other, about different windows.
LEMMA HidesFirstJoins ==
  ASSUME NEW p \in Seq(Calls), NEW q \in Seq(Calls), HidesFirst(p), HidesFirst(q),
         \A i \in 1..Len(p), j \in 1..Len(q) : p[i].win # q[j].win
  PROVE  p \o q \in Seq(Calls) /\ HidesFirst(p \o q) /\ ToSet(p \o q) = ToSet(p) \union ToSet(q)
<1> DEFINE r == p \o q
           n == Len(p)
           m == Len(q)
<1>1. /\ r \in Seq(Calls) /\ Len(r) = n + m /\ n \in Nat /\ m \in Nat
      /\ \A i \in 1..n : r[i] = p[i] /\ i \in 1..Len(r)
      /\ \A i \in 1..m : r[n + i] = q[i] /\ n + i \in 1..Len(r)
      /\ \A i \in 1..Len(r) : i \in 1..n \/ (i - n \in 1..m /\ r[i] = q[i - n])
  OBVIOUS
<1>2. DOMAIN p = 1..n /\ DOMAIN q = 1..m /\ DOMAIN r = 1..Len(r)
  OBVIOUS
<1>0. \A i \in 1..n, j \in 1..m : p[i].win # q[j].win
  OBVIOUS
<1> HIDE DEF r, n, m
<1>3. ToSet(r) = ToSet(p) \union ToSet(q)
  <2>1. /\ ToSet(p) = {p[i] : i \in 1..n} /\ ToSet(q) = {q[i] : i \in 1..m}
        /\ ToSet(r) = {r[i] : i \in 1..Len(r)}
    BY <1>2 DEF ToSet
  <2>2. ToSet(r) \subseteq ToSet(p) \union ToSet(q)
    BY <1>1, <2>1
  <2>3. ToSet(p) \union ToSet(q) \subseteq ToSet(r)
    BY <1>1, <2>1
  <2>4. QED
    BY <2>2, <2>3
<1>4. HidesFirst(r)
  <2>1. SUFFICES ASSUME NEW i \in 1..Len(r), NEW j \in 1..Len(r), NEW h \in Owners,
                        r[i] = Call("unmask", "mask", h), r[j] = Call("hide", "copy", h)
                 PROVE  j < i
    BY DEF HidesFirst
  <2>2. r[i].win = h /\ r[j].win = h
    BY <2>1 DEF Call
  <2>3. CASE i \in 1..n /\ j \in 1..n
    BY <1>1, <2>1, <2>3 DEF HidesFirst, n
  <2>4. CASE i - n \in 1..m /\ r[i] = q[i - n] /\ j - n \in 1..m /\ r[j] = q[j - n]
    <3>1. j - n < i - n
      BY <2>1, <2>4 DEF HidesFirst, m
    <3>2. QED
      BY <1>1, <3>1
  <2>5. CASE i \in 1..n /\ j - n \in 1..m /\ r[j] = q[j - n]
    <3>1. p[i].win = h /\ q[j - n].win = h
      BY <1>1, <2>2, <2>5
    <3>2. QED
      BY <1>0, <2>5, <3>1
  <2>6. CASE j \in 1..n /\ i - n \in 1..m /\ r[i] = q[i - n]
    <3>1. p[j].win = h /\ q[i - n].win = h
      BY <1>1, <2>2, <2>6
    <3>2. QED
      BY <1>0, <2>6, <3>1
  <2>7. QED
    BY <1>1, <2>1, <2>3, <2>4, <2>5, <2>6
<1>5. QED
  BY <1>1, <1>3, <1>4 DEF r

\* The calls that clear a window, in both cases.
LEMMA ClearingIs ==
  ASSUME NEW h \in Owners
  PROVE  Clearing(h) = IF h \in Alive
                       THEN <<Call("hide", "copy", h), Call("hide", "scene", h), Call("hide", "dim", h),
                              Call("restore", "override", h), Call("unmask", "mask", h)>>
                       ELSE <<Call("hide", "copy", h), Call("hide", "scene", h), Call("hide", "dim", h),
                              Call("restore", "override", h)>>
<1> DEFINE a == Call("hide", "copy", h)
           b == Call("hide", "scene", h)
           c == Call("hide", "dim", h)
           d == Call("restore", "override", h)
           e == Call("unmask", "mask", h)
<1>1. Clearing(h) = <<a, b, c, d>> \o (IF h \in Alive THEN <<e>> ELSE <<>>)
  BY DEF Clearing
<1> HIDE DEF a, b, c, d, e
<1> DEFINE S == {a, b, c, d, e}
           p == <<a, b, c, d>>
           q == <<a, b, c, d, e>>
<1>2. p \o <<e>> = q /\ p \o <<>> = p
  <2>1. /\ p \in Seq(S) /\ <<e>> \in Seq(S) /\ q \in Seq(S)
        /\ Len(p) = 4 /\ Len(<<e>>) = 1 /\ Len(q) = 5
        /\ <<e>>[1] = e /\ q[5] = e /\ \A i \in 1..4 : q[i] = p[i]
    OBVIOUS
  <2> DEFINE r == p \o <<e>>
  <2>2. /\ r \in Seq(S) /\ Len(r) = 5 /\ r[5] = e /\ \A i \in 1..4 : r[i] = p[i]
    BY <2>1
  <2> HIDE DEF r, p, q, S
  <2>3. \A i \in 1..5 : r[i] = q[i]
    BY <2>1, <2>2
  <2>4. r = q
    BY <2>1, <2>2, <2>3, SeqEqual
  <2>5. QED
    BY <2>1, <2>4, ConcatEmptySeq DEF r
<1>3. QED
  BY <1>1, <1>2 DEF a, b, c, d, e

\* A call that clears.
LEMMA ClearingCallTypes ==
  ASSUME NEW h \in Owners
  PROVE  /\ \A k \in Kinds : Call("hide", k, h) \in ClearingCalls
         /\ Call("restore", "override", h) \in ClearingCalls
         /\ Call("unmask", "mask", h) \in ClearingCalls
BY DEF Call, ClearingCalls, Calls, WorkerCalls, LocalCalls, Topics

\* What clears a window hides all its hosts and, if the window is there, takes its
\* mask off when its copy is hidden.
LEMMA ClearingClears ==
  ASSUME NEW h \in Owners
  PROVE  /\ Clearing(h) \in Seq(ClearingCalls)
         /\ \A i \in 1..Len(Clearing(h)) : Clearing(h)[i].win = h
         /\ \A k \in Kinds : Call("hide", k, h) \in ToSet(Clearing(h))
         /\ h \in Alive => Call("unmask", "mask", h) \in ToSet(Clearing(h))
         /\ HidesFirst(Clearing(h))
<1> DEFINE a == Call("hide", "copy", h)
           b == Call("hide", "scene", h)
           c == Call("hide", "dim", h)
           d == Call("restore", "override", h)
           e == Call("unmask", "mask", h)
           p == Clearing(h)
           four == <<a, b, c, d>>
           five == <<a, b, c, d, e>>
<1>1. p = IF h \in Alive THEN five ELSE four
  BY ClearingIs
<1>2. /\ \A x \in {a, b, c, d, e} : x \in ClearingCalls /\ x.win = h
      /\ Kinds = {"copy", "scene", "dim"}
      /\ \A k \in Kinds : Call("hide", k, h) \in {a, b, c}
  <2>1. \A x \in {a, b, c, d, e} : x.win = h
    BY DEF Call
  <2>2. QED
    BY <2>1, ClearingCallTypes DEF Kinds
<1>3. \A x \in {a, b, c, d}, g \in Owners : x # Call("unmask", "mask", g)
  BY DEF Call
<1>4. \A g \in Owners : e # Call("hide", "copy", g)
  BY DEF Call
<1> HIDE DEF a, b, c, d, e, p
<1>5. /\ four \in Seq(ClearingCalls) /\ Len(four) = 4 /\ DOMAIN four = 1..4
      /\ four[1] = a /\ four[2] = b /\ four[3] = c /\ four[4] = d
  BY <1>2
<1>6. /\ five \in Seq(ClearingCalls) /\ Len(five) = 5 /\ DOMAIN five = 1..5
      /\ five[1] = a /\ five[2] = b /\ five[3] = c /\ five[4] = d /\ five[5] = e
  BY <1>2
<1> HIDE DEF four, five
<1>7. CASE h \in Alive
  <2>1. p = five
    BY <1>1, <1>7
  <2>2. \A i \in 1..5 : five[i] \in {a, b, c, d, e}
    BY <1>6
  <2>3. {a, b, c, e} \subseteq ToSet(five)
    BY <1>6 DEF ToSet
  <2>4. HidesFirst(five)
    <3>1. SUFFICES ASSUME NEW i \in 1..Len(five), NEW j \in 1..Len(five), NEW g \in Owners,
                          five[i] = Call("unmask", "mask", g), five[j] = Call("hide", "copy", g)
                   PROVE  j < i
      BY DEF HidesFirst
    <3>2. i = 5 /\ j \in 1..4
      BY <1>3, <1>4, <1>6, <3>1
    <3>3. QED
      BY <3>2
  <2>5. QED
    BY <1>2, <1>6, <2>1, <2>2, <2>3, <2>4 DEF p, e
<1>8. CASE h \notin Alive
  <2>1. p = four
    BY <1>1, <1>8
  <2>2. \A i \in 1..4 : four[i] \in {a, b, c, d}
    BY <1>5
  <2>3. {a, b, c} \subseteq ToSet(four)
    BY <1>5 DEF ToSet
  <2>4. HidesFirst(four)
    BY <1>3, <1>5, <2>2 DEF HidesFirst
  <2>5. QED
    BY <1>2, <1>5, <1>8, <2>1, <2>2, <2>3, <2>4 DEF p
<1>9. QED
  BY <1>7, <1>8

\* What the main loop clears, it clears for each of the windows.
LEMMA ClearingAllClears ==
  ASSUME NEW hs, hs \subseteq Owners
  PROVE  /\ ClearingAll(hs) \in Seq(ClearingCalls)
         /\ \A h \in hs : \A k \in Kinds : Call("hide", k, h) \in ToSet(ClearingAll(hs))
         /\ \A h \in hs : h \in Alive => Call("unmask", "mask", h) \in ToSet(ClearingAll(hs))
         /\ HidesFirst(ClearingAll(hs))
<1> DEFINE order == Ascending(hs)
           seqs  == [i \in DOMAIN order |-> Clearing(order[i])]
           n     == Len(order)
<1>1. IsFiniteSet(hs) /\ hs \subseteq Nat
  BY OwnersAssumption, FS_Subset
<1>2. Lists(order, hs)
  <2>1. order \in SetToSeqs(hs)
    BY <1>1, AscendingExists DEF Ascending
  <2>2. QED
    BY <1>1, <2>1, Enumerates
<1>3. ClearingAll(hs) = FlattenSeq(seqs)
  BY DEF ClearingAll
<1> HIDE DEF order
<1>4. /\ n \in Nat /\ DOMAIN order = 1..n
      /\ \A i \in 1..n : order[i] \in hs
      /\ \A i, j \in 1..n : i # j => order[i] # order[j]
      /\ \A h \in hs : \E i \in 1..n : order[i] = h
  BY <1>2 DEF Lists
<1> HIDE DEF n
<1>5. Len(seqs) = n /\ \A i \in 1..n : seqs[i] = Clearing(order[i])
  BY <1>4
<1>6. n = 0 => seqs = <<>>
  BY <1>4
<1> HIDE DEF seqs
<1>7. CASE n = 0
  <2>1. FlattenSeq(seqs) = <<>>
    BY <1>5, <1>6, <1>7 DEF FlattenSeq
  <2>2. hs = {}
    BY <1>4, <1>7
  <2>3. HidesFirst(<<>>)
    BY DEF HidesFirst
  <2>4. QED
    BY <1>3, <2>1, <2>2, <2>3
<1>8. CASE n # 0
  <2>0. n \in Nat \ {0} /\ Len(seqs) = n
    BY <1>4, <1>5, <1>8
  <2>10. PICK c : Gathers(c, seqs, n) /\ FlattenSeq(seqs) = c[n]
    BY <2>0, FlattenRuns
  <2>1. /\ c[1] = seqs[1]
        /\ \A i \in 2..n : c[i] = c[i - 1] \o seqs[i]
        /\ FlattenSeq(seqs) = c[n]
    BY <2>10 DEF Gathers
  <2> DEFINE Good(i) == /\ c[i] \in Seq(ClearingCalls) /\ HidesFirst(c[i])
                        /\ \A x \in 1..Len(c[i]) : \E j \in 1..i : c[i][x].win = order[j]
                        /\ \A j \in 1..i : ToSet(seqs[j]) \subseteq ToSet(c[i])
             T == {i \in Nat : i < n => Good(i + 1)}
  <2>2. 0 \in T
    <3>1. Good(1)
      <4>1. 1 \in 1..n /\ order[1] \in Owners
        BY <1>4, <1>8
      <4>2. c[1] = Clearing(order[1]) /\ seqs[1] = c[1]
        BY <1>5, <2>1, <4>1
      <4>3. \A j \in 1..1 : j = 1
        OBVIOUS
      <4>4. 1 \in 1..1
        OBVIOUS
      <4>5. QED
        BY <4>1, <4>2, <4>3, <4>4, ClearingClears
    <3>2. 0 + 1 = 1
      OBVIOUS
    <3>3. QED
      BY <3>1, <3>2
  <2>3. ASSUME NEW i \in Nat, i < n - 1, i \in T PROVE i + 1 \in T
    <3> DEFINE k == i + 1
               m == k + 1
    <3>1. k \in 1..n /\ m \in 2..n /\ m \in 1..n /\ m - 1 = k /\ m \notin 1..k
          /\ 1..m = (1..k) \union {m}
      BY <1>4, <2>3
    <3>2. Good(k)
      BY <1>4, <2>3
    <3>3. c[m] = c[k] \o seqs[m] /\ seqs[m] = Clearing(order[m]) /\ order[m] \in Owners
      BY <1>4, <1>5, <2>1, <3>1
    <3> HIDE DEF k, m
    <3> DEFINE p == c[k]
               q == Clearing(order[m])
    <3>4. /\ q \in Seq(ClearingCalls) /\ HidesFirst(q)
          /\ \A x \in 1..Len(q) : q[x].win = order[m]
      BY <3>3, ClearingClears
    <3>5. /\ p \in Seq(ClearingCalls) /\ HidesFirst(p)
          /\ \A x \in 1..Len(p) : \E j \in 1..k : p[x].win = order[j]
          /\ \A j \in 1..k : ToSet(seqs[j]) \subseteq ToSet(p)
      BY <3>2
    <3>6. c[m] = p \o q /\ seqs[m] = q
      BY <3>3
    <3> HIDE DEF p, q, Good
    <3>7. p \in Seq(Calls) /\ q \in Seq(Calls)
      BY <3>4, <3>5 DEF ClearingCalls
    <3>8. \A j \in 1..k : j \in 1..n /\ order[j] # order[m]
      BY <1>4, <3>1
    <3>9. \A x \in 1..Len(p), y \in 1..Len(q) : p[x].win # q[y].win
      BY <3>4, <3>5, <3>8
    <3>10. HidesFirst(p \o q) /\ ToSet(p \o q) = ToSet(p) \union ToSet(q)
      BY <3>4, <3>5, <3>7, <3>9, HidesFirstJoins
    <3>11. /\ p \o q \in Seq(ClearingCalls)
           /\ \A x \in 1..Len(p \o q) : (x \in 1..Len(p) /\ (p \o q)[x] = p[x])
                                        \/ (x - Len(p) \in 1..Len(q) /\ (p \o q)[x] = q[x - Len(p)])
      BY <3>4, <3>5
    <3>12. \A x \in 1..Len(c[m]) : \E j \in 1..m : c[m][x].win = order[j]
      <4>1. SUFFICES ASSUME NEW x \in 1..Len(p \o q) PROVE \E j \in 1..m : (p \o q)[x].win = order[j]
        BY <3>6
      <4>2. CASE x \in 1..Len(p) /\ (p \o q)[x] = p[x]
        BY <3>1, <3>5, <4>2
      <4>3. CASE x - Len(p) \in 1..Len(q) /\ (p \o q)[x] = q[x - Len(p)]
        BY <3>1, <3>4, <4>3
      <4>4. QED
        BY <3>11, <4>2, <4>3
    <3>13. \A j \in 1..m : ToSet(seqs[j]) \subseteq ToSet(c[m])
      BY <3>1, <3>5, <3>6, <3>10
    <3>14. Good(m)
      BY <3>6, <3>10, <3>11, <3>12, <3>13 DEF Good
    <3>15. QED
      BY <3>14 DEF m, k
  <2>4. n - 1 \in Nat /\ (n - 1) + 1 = n /\ n - 1 < n /\ n - 1 \in 0..(n - 1)
    BY <1>4, <1>8
  <2>5. n - 1 \in T
    <3> HIDE DEF T
    <3>1. \A i \in 0..(n - 1) : i \in T
      BY <2>2, <2>3, <2>4, UpTo
    <3>2. QED
      BY <2>4, <3>1
  <2>6. Good(n)
    BY <2>4, <2>5
  <2>7. ASSUME NEW h \in hs
        PROVE  /\ \A k \in Kinds : Call("hide", k, h) \in ToSet(c[n])
               /\ h \in Alive => Call("unmask", "mask", h) \in ToSet(c[n])
    <3>1. PICK i \in 1..n : order[i] = h
      BY <1>4
    <3>2. ToSet(Clearing(h)) \subseteq ToSet(c[n])
      BY <1>5, <2>6, <3>1
    <3>3. QED
      BY <3>2, ClearingClears
  <2>8. QED
    BY <1>3, <2>1, <2>6, <2>7
<1>9. QED
  BY <1>7, <1>8

\* Calls of a worker and of the window system.
LEMMA CallTypes ==
  ASSUME NEW h \in Owners
  PROVE  /\ \A k \in Kinds : Call("show", k, h) \in Calls /\ Call("hide", k, h) \in Calls
         /\ \A do \in {"mask", "unmask", "restore", "fallback", "move", "activate"}, topic \in Topics :
              Call(do, topic, h) \in Calls
BY DEF Call, Calls, WorkerCalls, LocalCalls

\* The programs of the operations are sequences of calls.
LEMMA OperationTypes ==
  ASSUME NEW h \in Owners, NEW moved
  PROVE  OperationOf(h, moved) \in Seq(Calls) /\ SyncNative(h, "native") \in Seq(Calls)
<1>1. \A k \in Kinds : Call("show", k, h) \in Calls /\ Call("hide", k, h) \in Calls
  BY CallTypes
<1>2. /\ Call("mask", "mask", h) \in Calls /\ Call("unmask", "mask", h) \in Calls
      /\ Call("restore", "override", h) \in Calls /\ Call("fallback", "override", h) \in Calls
      /\ Call("activate", "window", h) \in Calls /\ Call("move", TargetPlace(h), h) \in Calls
  <2>1. TargetPlace(h) \in Topics
    BY DEF TargetPlace, WantedPlace, Topics
  <2>2. {"mask", "override", "window"} \subseteq Topics
    BY DEF Topics
  <2>3. QED
    BY <2>1, <2>2, CallTypes
<1>3. {"copy", "scene", "dim"} = Kinds
  BY DEF Kinds
<1>4. ASSUME NEW w PROVE SyncNative(h, w) \in Seq(Calls)
  <2> DEFINE a == Call("hide", "copy", h)
             b == Call(IF w = "spilled" \/ w = "copied" THEN "mask" ELSE "unmask", "mask", h)
             c == SceneCall(h, w)
             d == IF w = "copied" THEN <<>> ELSE <<Call("restore", "override", h)>>
  <2>1. SyncNative(h, w) = <<a, b, c>> \o d
    BY DEF SyncNative
  <2>2. a \in Calls /\ c \in Calls
    BY <1>1, <1>3 DEF SceneCall
  <2>3. b \in Calls
    BY <1>2
  <2>4. d \in Seq(Calls)
    BY <1>2
  <2> HIDE DEF a, b, c, d
  <2>5. <<a, b, c>> \in Seq(Calls)
    BY <2>2, <2>3
  <2> DEFINE p == <<a, b, c>>
  <2>6. p \in Seq(Calls)
    BY <2>5
  <2> HIDE DEF p
  <2>7. p \o d \in Seq(Calls)
    BY <2>4, <2>6
  <2>8. QED
    BY <2>1, <2>7 DEF p
<1>5. SyncCopy(h) \in Seq(Calls)
  BY <1>1, <1>2, <1>3 DEF SyncCopy
<1>6. Normalized(h) \in Seq(Calls)
  <2> DEFINE p == <<Call("fallback", "override", h)>>
             q == SyncNative(h, "copied")
  <2>1. p \in Seq(Calls)
    BY <1>2
  <2>2. q \in Seq(Calls)
    BY <1>4
  <2> HIDE DEF p, q
  <2>3. p \o q \in Seq(Calls)
    BY <2>1, <2>2
  <2>4. QED
    BY <2>3 DEF Normalized, p, q
<1>7. Emphasis(h) \in Seq(Calls)
  <2>1. Call(IF Dims(h) THEN "show" ELSE "hide", "dim", h) \in Calls
    BY <1>1, <1>3
  <2>2. QED
    BY <2>1 DEF Emphasis
<1> DEFINE a == IF NeedsGeometry(h) /\ ~moved THEN <<Call("move", TargetPlace(h), h)>> ELSE <<>>
           b == IF want[h] = "copied" THEN (IF h \in Ineligible THEN Normalized(h) ELSE SyncCopy(h))
                                      ELSE SyncNative(h, want[h])
           c == IF NeedsGeometry(h) \/ NeedsActivation(h) THEN Emphasis(h) ELSE <<>>
           d == IF NeedsActivation(h) THEN <<Call("activate", "window", h)>> ELSE <<>>
<1>8. OperationOf(h, moved) = a \o b \o c \o d
  BY DEF OperationOf
<1>9. a \in Seq(Calls)
  BY <1>2
<1>10. b \in Seq(Calls)
  BY <1>4, <1>5, <1>6
<1>11. c \in Seq(Calls)
  BY <1>7
<1>12. d \in Seq(Calls)
  BY <1>2
<1> HIDE DEF a, b, c, d
<1>13. a \o b \o c \o d \in Seq(Calls)
  BY <1>9, <1>10, <1>11, <1>12
<1>14. QED
  BY <1>4, <1>8, <1>13

\* Before puts windows in a row, whatever their priorities.
LEMMA InOrderLists ==
  ASSUME NEW hs, hs \subseteq Owners
  PROVE  Lists(InOrder(hs), hs)
<1> DEFINE R == {p \in Owners \X Owners : Before(p[1], p[2])}
<1>1. IsFiniteSet(hs) /\ hs \subseteq Nat
  BY OwnersAssumption, FS_Subset
<1>2. \A g, h \in Owners : <<g, h>> \in R <=> Before(g, h)
  OBVIOUS
<1>3. \A h \in Owners : Priority(h) \in 0..3
  BY DEF Priority
<1> HIDE DEF R
<1>4. Orders(R, hs)
  <2>1. ASSUME NEW g \in hs, NEW h \in hs PROVE Before(g, h) \/ Before(h, g)
    <3>1. g \in Nat /\ h \in Nat /\ Priority(g) \in Nat /\ Priority(h) \in Nat
      BY <1>1, <1>3
    <3>2. QED
      BY <3>1 DEF Before
  <2>2. ASSUME NEW f \in hs, NEW g \in hs, NEW h \in hs, Before(f, g), Before(g, h)
        PROVE  Before(f, h)
    <3>1. /\ f \in Nat /\ g \in Nat /\ h \in Nat
          /\ Priority(f) \in Nat /\ Priority(g) \in Nat /\ Priority(h) \in Nat
      BY <1>1, <1>3
    <3>2. QED
      BY <2>2, <3>1 DEF Before
  <2>3. QED
    BY <1>2, <2>1, <2>2 DEF Orders
<1>5. PICK q \in SetToSeqs(hs) : \A i, j \in DOMAIN q : i < j => <<q[i], q[j]>> \in R
  BY <1>1, <1>4, SortedExists
<1>6. \A i \in DOMAIN q : q[i] \in Owners
  <2>1. Lists(q, hs)
    BY <1>1, Enumerates
  <2>2. q \in Seq(hs) /\ DOMAIN q = 1..Len(q)
    BY <2>1 DEF Lists
  <2>3. \A i \in 1..Len(q) : q[i] \in hs
    BY <2>2
  <2>4. QED
    BY <2>2, <2>3
<1>7. \A i, j \in DOMAIN q : i < j => Before(q[i], q[j])
  BY <1>2, <1>5, <1>6
<1>8. InOrder(hs) \in SetToSeqs(hs)
  BY <1>7 DEF InOrder
<1>9. QED
  BY <1>1, <1>8, Enumerates

\* The plan is made of programs.
LEMMA PlannedProgramsTypes ==
  ASSUME NEW moved
  PROVE  PlannedPrograms(moved) \in Seq(Seq(Calls))
<1>1. ASSUME NEW hs, hs \subseteq Owners, NEW m PROVE ProgramsOf(hs, m) \in Seq(Seq(Calls))
  <2> DEFINE order == InOrder(hs)
             n == Len(order)
             program(i) == IF Planned(order[i]) THEN OperationOf(order[i], m)
                           ELSE SyncNative(order[i], "native")
  <2>1. n \in Nat /\ DOMAIN order = 1..n /\ \A i \in 1..n : order[i] \in Owners
    <3>1. Lists(order, hs)
      BY <1>1, InOrderLists
    <3>2. order \in Seq(hs) /\ DOMAIN order = 1..n /\ n \in Nat
      BY <3>1 DEF Lists
    <3>3. \A i \in 1..n : order[i] \in hs
      BY <3>2
    <3>4. QED
      BY <1>1, <3>2, <3>3
  <2>2. ProgramsOf(hs, m) = [i \in DOMAIN order |-> program(i)]
    BY DEF ProgramsOf
  <2> HIDE DEF order, n
  <2>3. \A i \in 1..n : program(i) \in Seq(Calls)
    BY <2>1, OperationTypes
  <2> HIDE DEF program
  <2>4. [i \in 1..n |-> program(i)] \in Seq(Seq(Calls))
    BY <2>1, <2>3
  <2>5. QED
    BY <2>1, <2>2, <2>4
<1>2. Movers \subseteq Owners /\ Others \subseteq Owners
  BY DEF Movers, Others
<1> DEFINE p == ProgramsOf(Movers, moved)
           q == ProgramsOf(Others, FALSE)
<1>3. p \in Seq(Seq(Calls)) /\ q \in Seq(Seq(Calls))
  BY <1>1, <1>2
<1> HIDE DEF p, q
<1>4. p \o q \in Seq(Seq(Calls))
  BY <1>3
<1>5. QED
  BY <1>4 DEF PlannedPrograms, p, q

---------------------------------------------------------------------------
(* Steps beside the main loop. *)

\* Steps that change nothing the invariant speaks of.
LEMMA QuietTurnInv ==
  ASSUME PresentationInv,
         UNCHANGED <<status, hosts, tracked, masked, started, queue, managing, loop>>
  PROVE  PresentationInv'
<1>1. PresentationTypes' /\ Unstarted'
  BY DEF PresentationInv, PresentationTypes, Unstarted
<1>2. Asked' = Asked /\ Left' = Left /\ Alive' = Alive
  BY DEF Asked, Left, Alive
<1>3. \A k, h : Cleared(k, h)' <=> Cleared(k, h)
  BY DEF Cleared
<1>4. \A h : Bare(h)' <=> Bare(h)
  BY DEF Bare, Alive, Cleared
<1>5. OneIsAwaited' /\ AnsweredIsCleared' /\ OnlyClears'
  BY DEF PresentationInv, OneIsAwaited, AnsweredIsCleared, OnlyClears, Asked, Cleared
<1>6. UnwindKeepsItsWord'
  BY <1>2, <1>3, <1>4 DEF PresentationInv, UnwindKeepsItsWord, Unwinding, Unwound
<1>7. QED
  BY <1>1, <1>5, <1>6 DEF PresentationInv

\* Hosts go, windows go, masks are put on windows whose copy was there.
HostsGo ==
  /\ UNCHANGED <<started, queue, managing, loop>>
  /\ status' \in [Owners -> {"managed", "unmanaged", "unseen", "gone"}]
  /\ hosts' \in [Kinds -> [Owners -> HostStates]]
  /\ tracked' \in [Kinds -> SUBSET Owners]
  /\ masked' \subseteq Owners
  /\ Alive' \subseteq Alive
  /\ \A k \in Kinds, h \in Owners :
       /\ hosts[k][h] \in {"none", "dead"} => hosts'[k][h] \in {"none", "dead"}
       /\ hosts[k][h] = "none" => hosts'[k][h] = "none"
  /\ \A h \in masked' \ masked : hosts["copy"][h] \notin {"none", "dead"}

\* Such steps bring nothing back.
LEMMA HostsGoInv ==
  ASSUME PresentationInv, HostsGo
  PROVE  PresentationInv'
<1>1. PresentationTypes /\ PresentationTypes'
  BY DEF PresentationInv, PresentationTypes, HostsGo
<1>2. Unstarted'
  BY DEF PresentationInv, Unstarted, HostsGo
<1>3. OneIsAwaited' /\ Asked' = Asked /\ Left' = Left
  BY DEF PresentationInv, OneIsAwaited, HostsGo, Asked, Left
<1>4. \A k \in Kinds, h \in Owners : Cleared(k, h) => Cleared(k, h)'
  BY DEF HostsGo, Cleared
<1>5. \A h \in Owners : Bare(h) => Bare(h)'
  <2>1. SUFFICES ASSUME NEW h \in Owners, Bare(h), h \in Alive' PROVE h \notin masked' /\ Cleared("copy", h)'
    BY DEF Bare
  <2>2. h \notin masked /\ Cleared("copy", h)
    BY <2>1 DEF Bare, HostsGo
  <2>3. "copy" \in Kinds
    BY DEF Kinds
  <2>4. QED
    BY <1>4, <2>2, <2>3 DEF HostsGo, Cleared
<1>6. AnsweredIsCleared'
  <2>1. SUFFICES ASSUME loop.answer = "ok", Asked.do = "hide" PROVE Cleared(Asked.kind, Asked.win)'
    BY <1>3 DEF AnsweredIsCleared, HostsGo
  <2>2. Asked \in WorkerCalls
    BY <2>1 DEF PresentationInv, OneIsAwaited
  <2>3. Asked.kind \in Kinds /\ Asked.win \in Owners
    BY <2>2 DEF WorkerCalls
  <2>4. Cleared(Asked.kind, Asked.win)
    BY <2>1 DEF PresentationInv, AnsweredIsCleared
  <2>5. QED
    BY <1>3, <1>4, <2>3, <2>4 DEF Cleared
<1>7. OnlyClears'
  BY DEF PresentationInv, OnlyClears, HostsGo
<1>8. UnwindKeepsItsWord'
  <2>1. SUFFICES ASSUME ~managing, ~loop.failed
                 PROVE  IF loop.stage = "unwinding" THEN Unwinding' ELSE Unwound'
    BY DEF UnwindKeepsItsWord, HostsGo
  <2>2. loop.owed \subseteq Owners /\ loop' = loop
    BY <1>1 DEF PresentationTypes, HostsGo
  <2>3. CASE loop.stage = "unwinding"
    <3>1. Unwinding
      BY <2>1, <2>3 DEF PresentationInv, UnwindKeepsItsWord
    <3>2. QED
      BY <1>3, <1>4, <1>5, <2>2, <2>3, <3>1 DEF Unwinding
  <2>4. CASE loop.stage # "unwinding"
    <3>1. Unwound
      BY <2>1, <2>4 DEF PresentationInv, UnwindKeepsItsWord
    <3>2. QED
      BY <1>4, <1>5, <2>2, <2>4, <3>1 DEF Unwound
  <2>5. QED
    BY <2>3, <2>4
<1>9. QED
  BY <1>1, <1>2, <1>3, <1>6, <1>7, <1>8 DEF PresentationInv, HostsGo

\* A host that is set, and what a hidden one becomes.
LEMMA HostTypes ==
  ASSUME PresentationTypes, NEW k \in Kinds, NEW h \in Owners
  PROVE  /\ \A v \in HostStates :
              /\ [hosts EXCEPT ![k][h] = v] \in [Kinds -> [Owners -> HostStates]]
              /\ \A l \in Kinds, g \in Owners :
                   [hosts EXCEPT ![k][h] = v][l][g] = IF l = k /\ g = h THEN v ELSE hosts[l][g]
         /\ [tracked EXCEPT ![k] = @ \union {h}] \in [Kinds -> SUBSET Owners]
         /\ [tracked EXCEPT ![k] = @ \ {h}] \in [Kinds -> SUBSET Owners]
BY DEF PresentationTypes

\* Hiding a host leaves none, and the others alone.
LEMMA HideHostHides ==
  ASSUME PresentationTypes, NEW k \in Kinds, NEW h \in Owners, HideHost(k, h)
  PROVE  /\ hosts' \in [Kinds -> [Owners -> HostStates]] /\ tracked' \in [Kinds -> SUBSET Owners]
         /\ \A l \in Kinds, g \in Owners :
              hosts'[l][g] = IF l = k /\ g = h THEN "none" ELSE hosts[l][g]
<1>1. CASE hosts[k][h] = "none"
  BY <1>1 DEF HideHost, PresentationTypes
<1>2. CASE hosts[k][h] # "none"
  <2>1. /\ hosts' = [hosts EXCEPT ![k][h] = "none"]
        /\ tracked' = [tracked EXCEPT ![k] = @ \ {h}]
    BY <1>2 DEF HideHost, Sets, Untracks
  <2>2. "none" \in HostStates
    BY DEF HostStates
  <2>3. QED
    BY <2>1, <2>2, HostTypes
<1>3. QED
  BY <1>1, <1>2

\* A window that appears, goes or closes takes its hosts with it.
LEMMA StatusTurnsInv ==
  ASSUME PresentationInv, NEW h \in Owners, NEW s \in {"managed", "unmanaged", "unseen", "gone"},
         StatusTurns(h, s)
  PROVE  PresentationInv'
<1>1. PresentationTypes
  BY DEF PresentationInv
<1>2. /\ status' = [status EXCEPT ![h] = s] /\ status[h] # "gone"
      /\ hosts' = [k \in Kinds |-> IF s = "gone" /\ hosts[k][h] # "none"
                                   THEN [hosts[k] EXCEPT ![h] = "dead"] ELSE hosts[k]]
      /\ UNCHANGED <<tracked, queue, masked, started, managing, loop>>
  BY DEF StatusTurns
<1>3. status' \in [Owners -> {"managed", "unmanaged", "unseen", "gone"}]
  BY <1>1, <1>2 DEF PresentationTypes
<1>4. /\ hosts' \in [Kinds -> [Owners -> HostStates]]
      /\ \A k \in Kinds, g \in Owners :
           /\ hosts[k][g] \in {"none", "dead"} => hosts'[k][g] \in {"none", "dead"}
           /\ hosts[k][g] = "none" => hosts'[k][g] = "none"
  BY <1>1, <1>2 DEF PresentationTypes, HostStates
<1>5. Alive' \subseteq Alive
  BY <1>1, <1>2 DEF Alive, PresentationTypes
<1>6. HostsGo
  BY <1>1, <1>2, <1>3, <1>4, <1>5 DEF HostsGo, PresentationTypes
<1>7. QED
  BY <1>6, HostsGoInv

\* A click on a copy destroys it.
LEMMA CopyClickedInv ==
  ASSUME PresentationInv, NEW h \in Owners, NEW works, CopyClicked(h, works)
  PROVE  PresentationInv'
<1>1. PresentationTypes /\ "copy" \in Kinds /\ "dead" \in HostStates
  BY DEF PresentationInv, Kinds, HostStates
<1>2. /\ hosts["copy"][h] \notin {"none", "dead"}
      /\ hosts' = [hosts EXCEPT !["copy"][h] = "dead"]
      /\ masked' = masked \union {h}
      /\ UNCHANGED <<status, tracked, queue, started, managing, loop>>
  BY DEF CopyClicked, OnScreen, Sets, Promotes
<1>3. /\ hosts' \in [Kinds -> [Owners -> HostStates]]
      /\ \A k \in Kinds, g \in Owners :
           hosts'[k][g] = IF k = "copy" /\ g = h THEN "dead" ELSE hosts[k][g]
  BY <1>1, <1>2, HostTypes
<1>4. Alive' = Alive
  BY <1>2 DEF Alive
<1>5. HostsGo
  BY <1>1, <1>2, <1>3, <1>4 DEF HostsGo, PresentationTypes
<1>6. QED
  BY <1>5, HostsGoInv

\* A worker that tidies up hides hosts.
LEMMA PrunesInv ==
  ASSUME PresentationInv, NEW h \in Owners, Prunes(h)
  PROVE  PresentationInv'
<1>1. PresentationTypes /\ "copy" \in Kinds /\ "none" \in HostStates
  BY DEF PresentationInv, Kinds, HostStates
<1>2. CASE PruneDeadCopy(h)
  <2>1. /\ hosts' = [hosts EXCEPT !["copy"][h] = "none"]
        /\ tracked' = [tracked EXCEPT !["copy"] = @ \ {h}]
        /\ UNCHANGED <<status, queue, masked, started, managing, loop>>
    BY <1>2 DEF PruneDeadCopy, Sets, Untracks, screen
  <2>2. /\ hosts' \in [Kinds -> [Owners -> HostStates]] /\ tracked' \in [Kinds -> SUBSET Owners]
        /\ \A k \in Kinds, g \in Owners :
             hosts'[k][g] = IF k = "copy" /\ g = h THEN "none" ELSE hosts[k][g]
    BY <1>1, <2>1, HostTypes
  <2>3. Alive' = Alive
    BY <2>1 DEF Alive
  <2>4. HostsGo
    BY <1>1, <2>1, <2>2, <2>3 DEF HostsGo, PresentationTypes
  <2>5. QED
    BY <2>4, HostsGoInv
<1>3. ASSUME NEW works \in BOOLEAN, PruneEscapedCopy(h, works) PROVE PresentationInv'
  <2>1. /\ HideHost("copy", h)
        /\ masked' = masked \/ (masked' = masked \union {h} /\ hosts["copy"][h] \notin {"none", "dead"})
        /\ UNCHANGED <<status, queue, started, managing, loop>>
    BY <1>3 DEF PruneEscapedCopy, Promotes
  <2>2. /\ hosts' \in [Kinds -> [Owners -> HostStates]] /\ tracked' \in [Kinds -> SUBSET Owners]
        /\ \A k \in Kinds, g \in Owners :
             hosts'[k][g] = IF k = "copy" /\ g = h THEN "none" ELSE hosts[k][g]
    BY <1>1, <2>1, HideHostHides
  <2>3. Alive' = Alive
    BY <2>1 DEF Alive
  <2>4. HostsGo
    BY <1>1, <2>1, <2>2, <2>3 DEF HostsGo, PresentationTypes
  <2>5. QED
    BY <2>4, HostsGoInv
<1>4. ASSUME NEW k \in Kinds, PruneDeadHost(k, h) PROVE PresentationInv'
  <2>1. HideHost(k, h) /\ UNCHANGED <<status, queue, masked, started, managing, loop>>
    BY <1>4 DEF PruneDeadHost, screen
  <2>2. /\ hosts' \in [Kinds -> [Owners -> HostStates]] /\ tracked' \in [Kinds -> SUBSET Owners]
        /\ \A l \in Kinds, g \in Owners :
             hosts'[l][g] = IF l = k /\ g = h THEN "none" ELSE hosts[l][g]
    BY <1>1, <2>1, HideHostHides
  <2>3. Alive' = Alive
    BY <2>1 DEF Alive
  <2>4. HostsGo
    BY <1>1, <2>1, <2>2, <2>3 DEF HostsGo, PresentationTypes
  <2>5. QED
    BY <2>4, HostsGoInv
<1>5. QED
  BY <1>2, <1>3, <1>4 DEF Prunes

---------------------------------------------------------------------------
(* A worker obeys a command. *)

\* What a command does to the hosts of a worker.
LEMMA ObeyedHosts ==
  ASSUME PresentationTypes, NEW k \in Kinds, NEW h \in Owners,
         \/ HideHost(k, h)
         \/ Show(k, h)
         \/ Uncreated(k, h) \/ Unshown(k, h) \/ HidesBadly(k, h)
  PROVE  /\ hosts' \in [Kinds -> [Owners -> HostStates]] /\ tracked' \in [Kinds -> SUBSET Owners]
         /\ \A l \in Kinds, g \in Owners : l # k \/ g # h => hosts'[l][g] = hosts[l][g]
<1> USE DEF HostStates
<1>1. CASE HideHost(k, h) \/ HidesBadly(k, h)
  BY <1>1, HideHostHides DEF HidesBadly
<1>2. CASE Uncreated(k, h)
  BY <1>2 DEF Uncreated, PresentationTypes
<1>3. CASE Unshown(k, h)
  <2>1. tracked' = tracked
    BY <1>3 DEF Unshown
  <2>2. CASE UNCHANGED hosts
    BY <2>1, <2>2 DEF PresentationTypes
  <2>3. CASE hosts' # hosts
    <3>1. PICK v \in HostStates : hosts' = [hosts EXCEPT ![k][h] = v]
      BY <1>3, <2>3 DEF Unshown, Sets
    <3>2. QED
      BY <2>1, <3>1, HostTypes DEF PresentationTypes
  <2>4. QED
    BY <2>2, <2>3
<1>4. CASE Show(k, h) /\ h \in Alive
  <2>1. PICK v \in HostStates : hosts' = [hosts EXCEPT ![k][h] = v]
    BY <1>4 DEF Show, CopyShown, SceneShown, DimShown, Sets, Kinds
  <2>2. tracked' = tracked \/ tracked' = [tracked EXCEPT ![k] = @ \union {h}]
    <3>1. CASE k = "copy"
      BY <1>4, <3>1 DEF Show, CopyShown, Tracks
    <3>2. CASE k = "scene"
      BY <1>4, <3>2 DEF Show, SceneShown, Tracks
    <3>3. CASE k = "dim"
      BY <1>4, <3>3 DEF Show, DimShown, Tracks
    <3>4. QED
      BY <3>1, <3>2, <3>3 DEF Kinds
  <2>3. tracked' \in [Kinds -> SUBSET Owners]
    BY <2>2, HostTypes DEF PresentationTypes
  <2>4. QED
    BY <2>1, <2>3, HostTypes
<1>5. CASE Show(k, h) /\ h \notin Alive
  BY <1>5, HideHostHides DEF Show
<1>6. QED
  BY <1>1, <1>2, <1>3, <1>4, <1>5

\* A channel loses its first command.
LEMMA ChannelShrinks ==
  ASSUME NEW q \in Seq(Commands), q # <<>>
  PROVE  /\ Head(q) = q[1] /\ Head(q) \in Commands /\ Tail(q) \in Seq(Commands)
         /\ 1 \in 1..Len(q) /\ Len(Tail(q)) = Len(q) - 1 /\ Len(q) \in Nat
         /\ \A i \in 1..Len(Tail(q)) : Tail(q)[i] = q[i + 1] /\ i + 1 \in 1..Len(q)
OBVIOUS

\* A worker obeys its commands in their order: what it shows is nothing that is
\* cleared, and what it has hidden when the main loop hears of it, no command left
\* shows again.
LEMMA WorkerObeysInv ==
  ASSUME PresentationInv, NEW k \in Kinds, WorkerObeys(k)
  PROVE  PresentationInv'
<1>1. /\ PresentationTypes /\ Unstarted /\ OneIsAwaited /\ AnsweredIsCleared /\ OnlyClears
      /\ UnwindKeepsItsWord /\ (loop.stage = "idle" => loop.todo = <<>>)
      /\ (managing => loop.stage # "unwinding")
  BY DEF PresentationInv
<1>2. PICK q \in Seq(Commands) : q = queue[k] /\ q # <<>>
  BY <1>1 DEF WorkerObeys, PresentationTypes
<1>3. PICK c \in Commands :
        /\ c = Head(q) /\ c = q[1] /\ Tail(q) \in Seq(Commands)
        /\ 1 \in 1..Len(q) /\ Len(Tail(q)) = Len(q) - 1 /\ Len(q) \in Nat
        /\ \A i \in 1..Len(Tail(q)) : Tail(q)[i] = q[i + 1] /\ i + 1 \in 1..Len(q)
  BY <1>2, ChannelShrinks
<1>4. PICK h \in Owners : h = c.win /\ c.do \in {"show", "hide"} /\ c.live \in BOOLEAN
  BY <1>3 DEF Commands
<1>5. /\ queue' = [queue EXCEPT ![k] = Tail(q)]
      /\ UNCHANGED <<status, masked, started, managing>>
      /\ \/ HideHost(k, h) \/ Show(k, h) \/ Uncreated(k, h) \/ Unshown(k, h) \/ HidesBadly(k, h)
      /\ c.do = "hide" => HideHost(k, h)
      /\ \E a \in {"ok", "err"} : loop' = IF c.live THEN [loop EXCEPT !.answer = a] ELSE loop
  BY <1>2, <1>3, <1>4 DEF WorkerObeys, HidesBadly, Answers, screen
<1>6. /\ hosts' \in [Kinds -> [Owners -> HostStates]] /\ tracked' \in [Kinds -> SUBSET Owners]
      /\ \A l \in Kinds, g \in Owners : l # k \/ g # h => hosts'[l][g] = hosts[l][g]
      /\ c.do = "hide" => hosts'[k][h] = "none"
  BY <1>1, <1>5, ObeyedHosts, HideHostHides
<1>7. /\ queue' \in [Kinds -> Seq(Commands)] /\ queue'[k] = Tail(q)
      /\ \A l \in Kinds \ {k} : queue'[l] = queue[l]
  BY <1>1, <1>3, <1>5 DEF PresentationTypes
<1>8. /\ loop' \in [stage : {"idle", "cleaning", "applying", "unwinding"}, todo : Seq(Seq(Calls)),
                    answer : {"none", "awaited", "ok", "err"}, failed : BOOLEAN, owed : SUBSET Owners]
      /\ loop'.stage = loop.stage /\ loop'.todo = loop.todo /\ loop'.failed = loop.failed
      /\ loop'.owed = loop.owed
      /\ c.live => loop'.answer \in {"ok", "err"}
      /\ ~c.live => loop' = loop
  BY <1>1, <1>5 DEF PresentationTypes
<1>9. PresentationTypes'
  <2>1. UNCHANGED <<status, masked, started, managing>>
    BY <1>5
  <2>2. QED
    BY <1>1, <1>6, <1>7, <1>8, <2>1 DEF PresentationTypes
<1>10. Asked' = Asked /\ Left' = Left /\ Alive' = Alive
  BY <1>5, <1>8 DEF Asked, Left, Alive
<1>11. Unstarted'
  <2>1. k \in started
    BY <1>1, <1>2 DEF Unstarted
  <2>2. started' = started
    BY <1>5
  <2>3. SUFFICES ASSUME NEW l \in Kinds \ started
                 PROVE  queue'[l] = <<>> /\ \A g \in Owners : hosts'[l][g] = "none"
    BY <2>2 DEF Unstarted
  <2>4. l # k /\ queue[l] = <<>> /\ \A g \in Owners : hosts[l][g] = "none"
    BY <1>1, <2>1 DEF Unstarted
  <2>5. QED
    BY <1>6, <1>7, <2>4
<1>12. ASSUME NEW l \in Kinds, NEW g \in Owners, Cleared(l, g) PROVE Cleared(l, g)'
  <2>1. CASE l # k
    BY <1>6, <1>7, <1>12, <2>1 DEF Cleared
  <2>2. CASE l = k
    <3>1. c.do = "show" => h # g
      BY <1>2, <1>3, <1>4, <1>12, <2>2 DEF Cleared
    <3>2. hosts'[k][g] \in {"none", "dead"}
      BY <1>4, <1>6, <1>12, <2>2, <3>1 DEF Cleared
    <3>3. \A i \in 1..Len(queue'[k]) : queue'[k][i].do = "show" => queue'[k][i].win # g
      BY <1>2, <1>3, <1>7, <1>12, <2>2 DEF Cleared
    <3>4. QED
      BY <2>2, <3>2, <3>3 DEF Cleared
  <2>3. QED
    BY <2>1, <2>2
<1>13. \A g \in Owners : Bare(g) => Bare(g)'
  BY <1>5, <1>10, <1>12 DEF Bare, Kinds
<1>14. ASSUME c.live PROVE OneIsAwaited' /\ AnsweredIsCleared'
  <2>1. loop.answer = "awaited" /\ k = Asked.kind /\ 1 = Len(q)
    BY <1>1, <1>2, <1>3, <1>14 DEF OneIsAwaited
  <2>2. c = [do |-> Asked.do, win |-> Asked.win, live |-> TRUE] /\ Asked \in WorkerCalls
    BY <1>1, <1>2, <1>3, <2>1 DEF OneIsAwaited
  <2>3. 1..Len(queue'[k]) = {}
    BY <1>3, <1>7, <2>1
  <2>4. \A l \in Kinds : \A i \in 1..Len(queue'[l]) : ~queue'[l][i].live
    BY <1>1, <1>7, <2>1, <2>3 DEF OneIsAwaited
  <2>5. OneIsAwaited'
    BY <1>1, <1>8, <1>10, <1>14, <2>1, <2>2, <2>4 DEF OneIsAwaited
  <2>6. AnsweredIsCleared'
    <3>1. SUFFICES ASSUME Asked.do = "hide" PROVE Cleared(Asked.kind, Asked.win)'
      BY <1>10 DEF AnsweredIsCleared
    <3>2. c.do = "hide" /\ h = Asked.win
      BY <1>4, <2>2, <3>1
    <3>3. hosts'[k][h] = "none"
      BY <1>6, <3>2
    <3>4. QED
      BY <1>10, <2>1, <2>3, <3>2, <3>3 DEF Cleared
  <2>7. QED
    BY <2>5, <2>6
<1>15. ASSUME ~c.live PROVE OneIsAwaited' /\ AnsweredIsCleared'
  <2>1. loop' = loop
    BY <1>8, <1>15
  <2>2. OneIsAwaited'
    <3>1. ASSUME loop.answer = "awaited"
          PROVE  /\ queue'[Asked.kind] # <<>>
                 /\ queue'[Asked.kind][Len(queue'[Asked.kind])]
                      = [do |-> Asked.do, win |-> Asked.win, live |-> TRUE]
      <4>1. /\ Asked \in WorkerCalls
            /\ queue[Asked.kind] # <<>>
            /\ queue[Asked.kind][Len(queue[Asked.kind])]
                 = [do |-> Asked.do, win |-> Asked.win, live |-> TRUE]
        BY <1>1, <3>1 DEF OneIsAwaited
      <4>2. Asked.kind \in Kinds
        BY <4>1 DEF WorkerCalls
      <4>3. CASE Asked.kind # k
        BY <1>7, <4>1, <4>2, <4>3
      <4>4. CASE Asked.kind = k
        <5>1. q[Len(q)].live
          BY <1>2, <4>1, <4>4
        <5>2. Len(q) # 1
          BY <1>3, <1>15, <5>1
        <5>3. Len(Tail(q)) \in 1..Len(Tail(q)) /\ Len(Tail(q)) + 1 = Len(q)
          BY <1>3, <5>2
        <5>4. Tail(q)[Len(Tail(q))] = q[Len(q)] /\ Tail(q) # <<>>
          BY <1>3, <5>3
        <5>5. QED
          BY <1>2, <1>7, <4>1, <4>4, <5>4
      <4>5. QED
        BY <4>3, <4>4
    <3>2. ASSUME NEW l \in Kinds, NEW i \in 1..Len(queue'[l]), queue'[l][i].live
          PROVE  loop.answer = "awaited" /\ l = Asked.kind /\ i = Len(queue'[l])
      <4>1. CASE l # k
        BY <1>1, <1>7, <3>2, <4>1 DEF OneIsAwaited
      <4>2. CASE l = k
        <5>1. i + 1 \in 1..Len(q) /\ q[i + 1].live
          BY <1>3, <1>7, <3>2, <4>2
        <5>2. loop.answer = "awaited" /\ k = Asked.kind /\ i + 1 = Len(q)
          BY <1>1, <1>2, <5>1 DEF OneIsAwaited
        <5>3. i = Len(Tail(q))
          BY <1>3, <1>7, <3>2, <4>2, <5>2
        <5>4. QED
          BY <1>7, <4>2, <5>2, <5>3
      <4>3. QED
        BY <4>1, <4>2
    <3>3. QED
      BY <1>1, <1>10, <2>1, <3>1, <3>2 DEF OneIsAwaited
  <2>3. AnsweredIsCleared'
    <3>1. SUFFICES ASSUME loop.answer = "ok", Asked.do = "hide" PROVE Cleared(Asked.kind, Asked.win)'
      BY <1>10, <2>1 DEF AnsweredIsCleared
    <3>2. Asked.kind \in Kinds /\ Asked.win \in Owners
      BY <1>1, <3>1 DEF OneIsAwaited, WorkerCalls
    <3>3. Cleared(Asked.kind, Asked.win)
      BY <1>1, <3>1 DEF AnsweredIsCleared
    <3>4. QED
      BY <1>10, <1>12, <3>2, <3>3 DEF Cleared
  <2>4. QED
    BY <2>2, <2>3
<1>16. OnlyClears'
  BY <1>1, <1>5, <1>8 DEF OnlyClears
<1>17. UnwindKeepsItsWord'
  <2>1. SUFFICES ASSUME ~managing, ~loop.failed
                 PROVE  IF loop.stage = "unwinding" THEN Unwinding' ELSE Unwound'
    BY <1>5, <1>8 DEF UnwindKeepsItsWord
  <2>2. loop.owed \subseteq Owners
    BY <1>1 DEF PresentationTypes
  <2>3. CASE loop.stage = "unwinding"
    <3>1. Unwinding
      BY <1>1, <2>1, <2>3 DEF UnwindKeepsItsWord
    <3>2. QED
      BY <1>8, <1>10, <1>12, <1>13, <2>2, <2>3, <3>1 DEF Unwinding
  <2>4. CASE loop.stage # "unwinding"
    <3>1. Unwound
      BY <1>1, <2>1, <2>4 DEF UnwindKeepsItsWord
    <3>2. QED
      BY <1>8, <1>12, <1>13, <2>2, <2>4, <3>1 DEF Unwound
  <2>5. QED
    BY <2>3, <2>4
<1>18. QED
  BY <1>1, <1>5, <1>8, <1>9, <1>11, <1>14, <1>15, <1>16, <1>17 DEF PresentationInv

---------------------------------------------------------------------------
(* Steps of the main loop. *)

LoopTypes == [stage : {"idle", "cleaning", "applying", "unwinding"}, todo : Seq(Seq(Calls)),
              answer : {"none", "awaited", "ok", "err"}, failed : BOOLEAN, owed : SUBSET Owners]

\* Nothing is awaited when nothing is left to do.
LEMMA NothingIsAwaited ==
  ASSUME PresentationInv, loop.todo = <<>>
  PROVE  loop.answer = "none"
BY DEF PresentationInv, OneIsAwaited, PresentationTypes

\* The main loop turns to other calls while the workers wait for none.
LEMMA LoopTurnsInv ==
  ASSUME PresentationInv, loop.answer = "none", UNCHANGED <<status, hosts, tracked, masked, started, queue>>,
         managing' \in BOOLEAN, loop' \in LoopTypes, loop'.answer = "none",
         ~managing' => loop'.todo \in Seq(Seq(ClearingCalls)),
         loop'.stage = "idle" => loop'.todo = <<>>,
         managing' => loop'.stage # "unwinding",
         UnwindKeepsItsWord'
  PROVE  PresentationInv'
<1>1. PresentationTypes'
  BY DEF PresentationInv, PresentationTypes, LoopTypes
<1>2. Unstarted'
  BY DEF PresentationInv, Unstarted
<1>3. OneIsAwaited'
  BY DEF PresentationInv, OneIsAwaited
<1>4. QED
  BY <1>1, <1>2, <1>3 DEF PresentationInv, AnsweredIsCleared, OnlyClears

\* As long as nothing is shown and nothing clipped, what is cleared stays so.
LEMMA UnwoundStays ==
  ASSUME Unwound, UNCHANGED <<status, hosts, masked, queue>>, loop'.owed = loop.owed
  PROVE  Unwound'
BY DEF Unwound, Bare, Cleared, Alive

\* What is materialized are windows.
LEMMA MaterializedTypes ==
  ASSUME PresentationTypes
  PROVE  Materialized \subseteq Owners
<1>1. \A k \in Kinds : tracked[k] \subseteq Owners
  BY DEF PresentationTypes
<1>2. masked \subseteq Owners
  BY DEF PresentationTypes
<1>3. SUFFICES ASSUME NEW h \in Materialized PROVE h \in Owners
  OBVIOUS
<1>4. h \in masked \/ \E k \in Kinds : h \in tracked[k]
  BY DEF Materialized
<1>5. QED
  BY <1>1, <1>2, <1>4

\* A cycle begins: it clears what it does not see any more.
LEMMA CycleBeginsInv ==
  ASSUME PresentationInv, CycleBegins
  PROVE  PresentationInv'
<1>1. /\ loop.stage = "idle" /\ loop.todo = <<>> /\ loop.answer = "none" /\ loop \in LoopTypes
      /\ UNCHANGED <<status, hosts, tracked, masked, started, queue, managing>>
  BY NothingIsAwaited DEF PresentationInv, PresentationTypes, LoopTypes, CycleBegins, screen, worker
<1>2. StaleHandles \subseteq Owners
  BY MaterializedTypes DEF PresentationInv, StaleHandles
<1> DEFINE p == ClearingAll(StaleHandles)
<1>3. p \in Seq(ClearingCalls)
  BY <1>2, ClearingAllClears
<1>4. loop' = [loop EXCEPT !.stage = "cleaning", !.todo = <<p>>]
  BY DEF CycleBegins, Begins
<1> HIDE DEF p
<1>5. <<p>> \in Seq(Seq(ClearingCalls)) /\ <<p>> \in Seq(Seq(Calls))
  BY <1>3 DEF ClearingCalls
<1>6. /\ loop' \in LoopTypes /\ loop'.answer = "none" /\ loop'.stage = "cleaning"
      /\ loop'.todo = <<p>> /\ loop'.failed = loop.failed /\ loop'.owed = loop.owed
  BY <1>1, <1>4, <1>5 DEF LoopTypes
<1>7. UnwindKeepsItsWord'
  BY <1>1, <1>6, UnwoundStays DEF PresentationInv, UnwindKeepsItsWord
<1>8. managing' \in BOOLEAN
  BY <1>1 DEF PresentationInv, PresentationTypes
<1>9. QED
  BY <1>1, <1>5, <1>6, <1>7, <1>8, LoopTurnsInv

\* It plans: without management nothing.
LEMMA CyclePlansInv ==
  ASSUME PresentationInv, CyclePlans \/ CyclePlansApart
  PROVE  PresentationInv'
<1>1. /\ loop.stage = "cleaning" /\ loop.answer = "none" /\ loop \in LoopTypes
      /\ UNCHANGED <<status, hosts, tracked, masked, started, queue, managing>>
  BY NothingIsAwaited DEF PresentationInv, PresentationTypes, LoopTypes, CyclePlans, CyclePlansApart,
     screen, worker
<1>2. PICK p \in Seq(Seq(Calls)) :
        /\ loop' = [loop EXCEPT !.stage = "applying", !.todo = p]
        /\ ~managing => p = <<>>
  <2>1. CASE managing
    BY <2>1, PlannedProgramsTypes DEF CyclePlans, CyclePlansApart, Begins
  <2>2. CASE ~managing
    <3>1. <<>> \in Seq(Seq(Calls))
      OBVIOUS
    <3>2. loop' = [loop EXCEPT !.stage = "applying", !.todo = <<>>]
      BY <2>2 DEF CyclePlans, CyclePlansApart, Begins
    <3>3. QED
      BY <3>1, <3>2
  <2>3. QED
    BY <2>1, <2>2
<1>3. /\ loop' \in LoopTypes /\ loop'.answer = "none" /\ loop'.stage = "applying"
      /\ loop'.todo = p /\ loop'.failed = loop.failed /\ loop'.owed = loop.owed
  BY <1>1, <1>2 DEF LoopTypes
<1>4. UnwindKeepsItsWord'
  BY <1>1, <1>3, UnwoundStays DEF PresentationInv, UnwindKeepsItsWord
<1>5. managing' \in BOOLEAN /\ (~managing' => loop'.todo \in Seq(Seq(ClearingCalls)))
  BY <1>1, <1>2, <1>3 DEF PresentationInv, PresentationTypes
<1>6. QED
  BY <1>1, <1>3, <1>4, <1>5, LoopTurnsInv

\* It ends: an unwinding with nothing left to do has cleared what it owes.
LEMMA CycleEndsInv ==
  ASSUME PresentationInv, CycleEnds
  PROVE  PresentationInv'
<1>1. /\ loop.todo = <<>> /\ loop.answer = "none" /\ loop \in LoopTypes
      /\ UNCHANGED <<status, hosts, tracked, masked, started, queue, managing>>
      /\ loop' = [loop EXCEPT !.stage = "idle"]
  BY NothingIsAwaited DEF PresentationInv, PresentationTypes, LoopTypes, CycleEnds, screen, worker
<1>2. /\ loop' \in LoopTypes /\ loop'.answer = "none" /\ loop'.stage = "idle"
      /\ loop'.todo = <<>> /\ loop'.failed = loop.failed /\ loop'.owed = loop.owed
  BY <1>1 DEF LoopTypes
<1>3. Unwinding => Unwound
  BY <1>1 DEF Unwinding, Unwound, Left
<1>4. UnwindKeepsItsWord'
  BY <1>1, <1>2, <1>3, UnwoundStays DEF PresentationInv, UnwindKeepsItsWord
<1>5. managing' \in BOOLEAN /\ <<>> \in Seq(Seq(ClearingCalls))
  BY <1>1 DEF PresentationInv, PresentationTypes
<1>6. QED
  BY <1>1, <1>2, <1>4, <1>5, LoopTurnsInv

\* The unwinding begins: what it owes it is about to clear.
LEMMA UnwindInv ==
  ASSUME PresentationInv, Unwind
  PROVE  PresentationInv'
<1> DEFINE owed == ManagedOnes \union Materialized
           p == ClearingAll(owed)
<1>1. /\ loop.todo = <<>> /\ loop.answer = "none" /\ loop \in LoopTypes
      /\ UNCHANGED <<status, hosts, tracked, masked, started, queue>>
      /\ managing' = FALSE
  BY NothingIsAwaited DEF PresentationInv, PresentationTypes, LoopTypes, Unwind, screen, worker
<1>2. loop' = [loop EXCEPT !.stage = "unwinding", !.todo = <<p>>, !.owed = owed]
  BY DEF Unwind, CleanupHandles
<1>3. owed \subseteq Owners
  BY MaterializedTypes DEF PresentationInv, ManagedOnes
<1>4. /\ p \in Seq(ClearingCalls) /\ HidesFirst(p)
      /\ \A h \in owed : \A k \in Kinds : Call("hide", k, h) \in ToSet(p)
      /\ \A h \in owed : h \in Alive => Call("unmask", "mask", h) \in ToSet(p)
  BY <1>3, ClearingAllClears
<1> HIDE DEF p, owed
<1>5. /\ <<p>> \in Seq(Seq(ClearingCalls)) /\ <<p>> \in Seq(Seq(Calls))
      /\ <<p>> # <<>> /\ Head(<<p>>) = p /\ Tail(<<p>>) = <<>>
  BY <1>4 DEF ClearingCalls
<1>6. /\ loop' \in LoopTypes /\ loop'.answer = "none" /\ loop'.stage = "unwinding"
      /\ loop'.todo = <<p>> /\ loop'.owed = owed
  BY <1>1, <1>2, <1>3, <1>5 DEF LoopTypes
<1>7. Left' = ToSet(p) /\ Alive' = Alive
  BY <1>1, <1>5, <1>6 DEF Left, Alive
<1>8. Unwinding'
  <2>1. ASSUME NEW h \in owed PROVE Bare(h)' \/ Call("unmask", "mask", h) \in Left'
    BY <1>4, <1>7, <2>1 DEF Bare
  <2>2. QED
    BY <1>4, <1>5, <1>6, <1>7, <2>1 DEF Unwinding
<1>9. UnwindKeepsItsWord'
  BY <1>6, <1>8 DEF UnwindKeepsItsWord
<1>10. QED
  BY <1>1, <1>5, <1>6, <1>9, LoopTurnsInv

\* A program that is done makes room for the next.
LEMMA ProgramEndsInv ==
  ASSUME PresentationInv, ProgramEnds
  PROVE  PresentationInv'
<1>1. /\ loop.todo # <<>> /\ Head(loop.todo) = <<>> /\ loop.answer = "none" /\ loop \in LoopTypes
      /\ UNCHANGED <<status, hosts, tracked, masked, started, queue, managing>>
      /\ loop' = [loop EXCEPT !.todo = Tail(@)]
      /\ loop.stage # "idle"
  BY DEF PresentationInv, PresentationTypes, LoopTypes, ProgramEnds, Ready, Program, screen, worker
<1>2. Tail(loop.todo) \in Seq(Seq(Calls))
  BY <1>1, ProgramsShrink DEF LoopTypes
<1>3. /\ loop' \in LoopTypes /\ loop'.answer = "none" /\ loop'.stage = loop.stage
      /\ loop'.todo = Tail(loop.todo) /\ loop'.failed = loop.failed /\ loop'.owed = loop.owed
  BY <1>1, <1>2 DEF LoopTypes
<1>4. ~managing => Tail(loop.todo) \in Seq(Seq(ClearingCalls))
  BY <1>1, ProgramsShrink DEF PresentationInv, OnlyClears
<1>5. ASSUME Unwinding PROVE Unwinding'
  <2>1. Left = {} /\ Tail(loop.todo) = <<>>
    BY <1>1, <1>5 DEF Unwinding, Left, ToSet
  <2>2. Unwound
    BY <1>5, <2>1 DEF Unwinding, Unwound
  <2>3. Unwound'
    BY <1>1, <1>3, <2>2, UnwoundStays
  <2>4. loop'.todo = <<>>
    BY <1>3, <2>1
  <2>5. QED
    BY <2>3, <2>4 DEF Unwinding, Unwound
<1>6. UnwindKeepsItsWord'
  BY <1>1, <1>3, <1>5, UnwoundStays DEF PresentationInv, UnwindKeepsItsWord
<1>7. managing' \in BOOLEAN /\ (managing' => loop'.stage # "unwinding")
  BY <1>1, <1>3 DEF PresentationInv, PresentationTypes
<1>8. QED
  BY <1>1, <1>3, <1>4, <1>6, <1>7, LoopTurnsInv

\* What stands in the channels is what it was, but for the main loop's waiting.
SameCommands ==
  \A k \in Kinds : /\ Len(queue'[k]) = Len(queue[k])
                   /\ \A i \in 1..Len(queue[k]) : /\ queue'[k][i].do = queue[k][i].do
                                                  /\ queue'[k][i].win = queue[k][i].win

\* A call that is given up ends its program; an unwinding has failed.
LEMMA GivesUpInv ==
  ASSUME PresentationInv, loop.todo # <<>>, loop' = GivesUp,
         UNCHANGED <<status, hosts, tracked, masked, started, managing>>,
         queue' \in [Kinds -> Seq(Commands)], SameCommands,
         \A k \in Kinds : \A i \in 1..Len(queue'[k]) : ~queue'[k][i].live
  PROVE  PresentationInv'
<1>1. loop \in LoopTypes /\ loop.stage # "idle"
  BY DEF PresentationInv, PresentationTypes, LoopTypes
<1>2. Tail(loop.todo) \in Seq(Seq(Calls))
  BY <1>1, ProgramsShrink DEF LoopTypes
<1>3. /\ loop' \in LoopTypes /\ loop'.answer = "none" /\ loop'.stage = loop.stage
      /\ loop'.todo = Tail(loop.todo) /\ loop'.owed = loop.owed
      /\ loop'.failed = (loop.failed \/ loop.stage = "unwinding")
  BY <1>1, <1>2 DEF LoopTypes, GivesUp
<1>4. PresentationTypes'
  BY <1>3 DEF PresentationInv, PresentationTypes, LoopTypes
<1>5. Unstarted'
  <2>1. SUFFICES ASSUME NEW k \in Kinds \ started
                 PROVE  queue'[k] = <<>> /\ \A h \in Owners : hosts[k][h] = "none"
    BY DEF Unstarted
  <2>2. queue[k] = <<>> /\ \A h \in Owners : hosts[k][h] = "none"
    BY DEF PresentationInv, Unstarted
  <2>3. Len(queue'[k]) = 0 /\ queue'[k] \in Seq(Commands)
    BY <2>2 DEF SameCommands
  <2>4. QED
    BY <2>2, <2>3
<1>6. OneIsAwaited'
  BY <1>3 DEF OneIsAwaited
<1>7. AnsweredIsCleared'
  BY <1>3 DEF AnsweredIsCleared
<1>8. OnlyClears'
  <2>1. ~managing => Tail(loop.todo) \in Seq(Seq(ClearingCalls))
    BY ProgramsShrink DEF PresentationInv, OnlyClears
  <2>2. QED
    BY <1>3, <2>1 DEF OnlyClears
<1>9. UnwindKeepsItsWord'
  <2>1. SUFFICES ASSUME ~managing, ~loop.failed, loop.stage # "unwinding" PROVE Unwound'
    BY <1>3 DEF UnwindKeepsItsWord
  <2>2. Unwound
    BY <2>1 DEF PresentationInv, UnwindKeepsItsWord
  <2>3. \A k \in Kinds, h \in Owners : Cleared(k, h) => Cleared(k, h)'
    BY DEF Cleared, SameCommands
  <2>4. "copy" \in Kinds /\ loop.owed \subseteq Owners
    BY <1>1 DEF Kinds, LoopTypes
  <2>5. \A h \in Owners : Bare(h) => Bare(h)'
    BY <2>3, <2>4 DEF Bare, Alive
  <2>6. QED
    BY <1>3, <2>2, <2>3, <2>4, <2>5 DEF Unwound
<1>10. QED
  BY <1>1, <1>3, <1>4, <1>5, <1>6, <1>7, <1>8, <1>9 DEF PresentationInv

\* A call that is made makes room for the next: a host it hides is cleared, and a
\* mask it takes off is off.
LEMMA NextCallInv ==
  ASSUME PresentationInv, loop.todo # <<>>, Head(loop.todo) # <<>>, loop' = NextCall,
         UNCHANGED <<status, hosts, tracked, queue, started, managing>>,
         loop.answer # "awaited", masked' \subseteq Owners, ~managing => masked' \subseteq masked,
         Asked.do = "hide" => Cleared(Asked.kind, Asked.win),
         Asked.do = "unmask" => Asked.win \notin masked'
  PROVE  PresentationInv'
<1>1. loop \in LoopTypes /\ loop.stage # "idle"
  BY DEF PresentationInv, PresentationTypes, LoopTypes
<1> DEFINE p == Head(loop.todo)
           rest == <<Tail(Head(loop.todo))>> \o Tail(loop.todo)
<1>2. rest \in Seq(Seq(Calls)) /\ rest # <<>> /\ Head(rest) = Tail(p) /\ p \in Seq(Calls)
  BY <1>1, ProgramsShrink DEF LoopTypes
<1>3. loop' = [loop EXCEPT !.todo = rest, !.answer = "none"]
  BY DEF NextCall
<1>4. ~managing => rest \in Seq(Seq(ClearingCalls))
  BY ProgramsShrink DEF PresentationInv, OnlyClears
<1>5. Tail(loop.todo) = <<>> => Tail(rest) = <<>>
  <2>1. Tail(p) \in Seq(Calls)
    BY <1>2
  <2> DEFINE r == Tail(p)
  <2>2. r \in Seq(Calls)
    BY <2>1
  <2> HIDE DEF r
  <2>3. <<r>> \in Seq(Seq(Calls))
    BY <2>2
  <2>4. <<r>> \o <<>> = <<r>>
    BY <2>3, ConcatEmptySeq
  <2>5. Tail(<<r>>) = <<>>
    BY <2>3
  <2>6. QED
    BY <2>4, <2>5 DEF r
<1> HIDE DEF p, rest
<1>6. /\ loop' \in LoopTypes /\ loop'.answer = "none" /\ loop'.stage = loop.stage
      /\ loop'.todo = rest /\ loop'.failed = loop.failed /\ loop'.owed = loop.owed
  BY <1>1, <1>2, <1>3 DEF LoopTypes
<1>7. PresentationTypes' /\ Unstarted'
  BY <1>6 DEF PresentationInv, PresentationTypes, LoopTypes, Unstarted
<1>8. \A k \in Kinds : \A i \in 1..Len(queue[k]) : ~queue[k][i].live
  BY DEF PresentationInv, OneIsAwaited
<1>9. OneIsAwaited' /\ AnsweredIsCleared'
  BY <1>6, <1>8 DEF OneIsAwaited, AnsweredIsCleared
<1>10. OnlyClears'
  BY <1>4, <1>6 DEF OnlyClears
<1>11. UnwindKeepsItsWord'
  <2>1. SUFFICES ASSUME ~managing, ~loop.failed
                 PROVE  IF loop.stage = "unwinding" THEN Unwinding' ELSE Unwound'
    BY <1>6 DEF UnwindKeepsItsWord
  <2>2. \A k \in Kinds, h \in Owners : Cleared(k, h) => Cleared(k, h)'
    BY DEF Cleared
  <2>3. "copy" \in Kinds /\ loop.owed \subseteq Owners /\ masked' \subseteq masked /\ Alive' = Alive
    BY <1>1, <2>1 DEF Kinds, LoopTypes, Alive
  <2>4. \A h \in Owners : Bare(h) => Bare(h)'
    BY <2>2, <2>3 DEF Bare
  <2>5. CASE loop.stage = "unwinding"
    <3>1. Unwinding
      BY <2>1, <2>5 DEF PresentationInv, UnwindKeepsItsWord
    <3>2. HidesFirst(p) /\ Tail(loop.todo) = <<>>
      BY <3>1 DEF Unwinding, p
    <3>3. p # <<>> /\ Asked = Head(p) /\ Left = ToSet(p)
      BY DEF Asked, Left, p
    <3>4. ToSet(p) = {Head(p)} \union ToSet(Tail(p)) /\ HidesFirst(Tail(p))
      BY <1>2, <3>2, <3>3, ProgramRest
    <3>5. Left' = ToSet(Tail(p)) /\ loop'.todo # <<>> /\ Head(loop'.todo) = Tail(p)
      BY <1>2, <1>6 DEF Left
    <3>6. Tail(loop'.todo) = <<>>
      BY <1>5, <1>6, <3>2
    <3>7. ASSUME NEW h \in loop.owed, NEW k \in Kinds
          PROVE  Cleared(k, h)' \/ Call("hide", k, h) \in Left'
      <4>1. CASE Cleared(k, h)
        BY <2>2, <2>3, <4>1
      <4>2. CASE Call("hide", k, h) = Head(p)
        <5>1. Asked.do = "hide" /\ Asked.kind = k /\ Asked.win = h
          BY <3>3, <4>2 DEF Call
        <5>2. QED
          BY <2>2, <2>3, <5>1
      <4>3. CASE Call("hide", k, h) \in ToSet(Tail(p))
        BY <3>5, <4>3
      <4>4. QED
        BY <3>1, <3>3, <3>4, <4>1, <4>2, <4>3 DEF Unwinding
    <3>8. ASSUME NEW h \in loop.owed PROVE Bare(h)' \/ Call("unmask", "mask", h) \in Left'
      <4>1. CASE Bare(h)
        BY <2>3, <2>4, <4>1
      <4>2. CASE Call("unmask", "mask", h) = Head(p)
        <5>1. Asked.do = "unmask" /\ Asked.win = h
          BY <3>3, <4>2 DEF Call
        <5>2. Call("hide", "copy", h) \notin ToSet(p)
          <6>1. SUFFICES ASSUME Call("hide", "copy", h) \in ToSet(p) PROVE FALSE
            OBVIOUS
          <6>2. PICK j \in 1..Len(p) : p[j] = Call("hide", "copy", h)
            BY <1>2, <6>1 DEF ToSet
          <6>3. 1 \in 1..Len(p) /\ p[1] = Call("unmask", "mask", h)
            BY <1>2, <3>3, <4>2
          <6>4. j < 1
            BY <2>3, <3>2, <6>2, <6>3 DEF HidesFirst
          <6>5. QED
            BY <6>4
        <5>3. Cleared("copy", h)
          BY <2>3, <3>1, <3>3, <5>2 DEF Unwinding
        <5>4. h \notin masked' /\ Cleared("copy", h)'
          BY <2>2, <2>3, <5>1, <5>3
        <5>5. QED
          BY <5>4 DEF Bare
      <4>3. CASE Call("unmask", "mask", h) \in ToSet(Tail(p))
        BY <3>5, <4>3
      <4>4. QED
        BY <3>1, <3>3, <3>4, <4>1, <4>2, <4>3 DEF Unwinding
    <3>9. Unwinding'
      BY <1>6, <3>4, <3>5, <3>6, <3>7, <3>8 DEF Unwinding
    <3>10. QED
      BY <2>5, <3>9
  <2>6. CASE loop.stage # "unwinding"
    <3>1. Unwound
      BY <2>1, <2>6 DEF PresentationInv, UnwindKeepsItsWord
    <3>2. QED
      BY <1>6, <2>2, <2>3, <2>4, <2>6, <3>1 DEF Unwound
  <2>7. QED
    BY <2>5, <2>6
<1>12. QED
  BY <1>1, <1>6, <1>7, <1>9, <1>10, <1>11 DEF PresentationInv

\* Calls of the window system.
LEMMA LocalCallInv ==
  ASSUME PresentationInv, LocalCall
  PROVE  PresentationInv'
<1>1. /\ loop.todo # <<>> /\ Head(loop.todo) # <<>> /\ loop.answer = "none"
      /\ UNCHANGED <<status, hosts, tracked, queue, started, managing>>
  BY DEF LocalCall, Ready, Program, worker
<1>2. /\ masked \subseteq Owners /\ queue \in [Kinds -> Seq(Commands)]
      /\ \A k \in Kinds : \A i \in 1..Len(queue[k]) : ~queue[k][i].live
  BY <1>1 DEF PresentationInv, PresentationTypes, OneIsAwaited
<1>3. Asked \in Calls /\ (~managing => Asked \in ClearingCalls)
  <2>1. Asked \in Calls
    BY <1>1, ProgramsShrink DEF PresentationInv, PresentationTypes, Asked
  <2>2. ~managing => Asked \in ClearingCalls
    BY <1>1, ProgramsShrink DEF PresentationInv, OnlyClears, Asked
  <2>3. QED
    BY <2>1, <2>2
<1> DEFINE c == Asked
<1>4. c.win \in Owners /\ (~managing => c.do \in {"hide", "unmask", "restore"})
  BY <1>3 DEF Calls, WorkerCalls, LocalCalls, ClearingCalls
<1>5. /\ c.do \in {"mask", "unmask", "restore", "fallback", "move", "activate"}
      /\ loop' = NextCall \/ (loop' = GivesUp /\ masked' = masked)
      /\ c.do = "mask" => masked' = masked \union {c.win} \/ masked' = masked
      /\ c.do = "unmask" => masked' = masked \ {c.win}
      /\ c.do \notin {"mask", "unmask"} => masked' = masked
  BY DEF LocalCall, Program, Asked
<1> HIDE DEF c
<1>6. /\ masked' \subseteq Owners /\ (~managing => masked' \subseteq masked)
      /\ c.do = "unmask" => c.win \notin masked'
      /\ c.do # "hide"
  BY <1>2, <1>4, <1>5
<1>7. CASE loop' = NextCall
  BY <1>1, <1>6, <1>7, NextCallInv DEF c
<1>8. CASE loop' = GivesUp /\ masked' = masked
  BY <1>1, <1>2, <1>8, GivesUpInv DEF SameCommands
<1>9. QED
  BY <1>5, <1>7, <1>8

\* A call the window system refuses.
LEMMA LocalCallFailsInv ==
  ASSUME PresentationInv, LocalCallFails
  PROVE  PresentationInv'
<1>1. /\ loop.todo # <<>> /\ Head(loop.todo) # <<>> /\ loop.answer = "none"
      /\ UNCHANGED <<status, hosts, tracked, queue, started, managing, masked>>
      /\ Asked.do \in {"mask", "move", "activate"}
      /\ loop' = NextCall \/ loop' = GivesUp
  BY DEF LocalCallFails, Ready, Program, Asked, worker, screen
<1>2. /\ masked \subseteq Owners /\ queue \in [Kinds -> Seq(Commands)]
      /\ \A k \in Kinds : \A i \in 1..Len(queue[k]) : ~queue[k][i].live
  BY <1>1 DEF PresentationInv, PresentationTypes, OneIsAwaited
<1>3. CASE loop' = NextCall
  BY <1>1, <1>2, <1>3, NextCallInv
<1>4. CASE loop' = GivesUp
  BY <1>1, <1>2, <1>4, GivesUpInv DEF SameCommands
<1>5. QED
  BY <1>1, <1>3, <1>4

\* A channel that gets a command, and one whose last command nobody waits for.
LEMMA ChannelGrows ==
  ASSUME NEW q \in Seq(Commands), NEW c \in Commands
  PROVE  /\ Append(q, c) \in Seq(Commands) /\ Append(q, c) # <<>>
         /\ Len(Append(q, c)) = Len(q) + 1 /\ Len(q) \in Nat
         /\ Append(q, c)[Len(q) + 1] = c
         /\ \A i \in 1..Len(q) : Append(q, c)[i] = q[i]
         /\ \A i \in 1..Len(Append(q, c)) : i \in 1..Len(q) \/ i = Len(q) + 1
<1> DEFINE r == Append(q, c)
<1>1. r \in Seq(Commands) /\ Len(r) = Len(q) + 1 /\ Len(q) \in Nat
  OBVIOUS
<1>2. r[Len(q) + 1] = c /\ \A i \in 1..Len(q) : r[i] = q[i]
  OBVIOUS
<1> HIDE DEF r
<1>3. r # <<>> /\ \A i \in 1..Len(r) : i \in 1..Len(q) \/ i = Len(q) + 1
  BY <1>1
<1>4. QED
  BY <1>1, <1>2, <1>3 DEF r

LEMMA ChannelForgets ==
  ASSUME NEW q \in Seq(Commands), q # <<>>
  PROVE  LET r == [q EXCEPT ![Len(q)].live = FALSE]
         IN  /\ r \in Seq(Commands) /\ Len(r) = Len(q)
             /\ \A i \in 1..Len(q) : r[i].do = q[i].do /\ r[i].win = q[i].win
             /\ \A i \in 1..Len(q) : r[i].live => q[i].live /\ i # Len(q)
<1> DEFINE n == Len(q)
           last == [q[n] EXCEPT !.live = FALSE]
           r == [i \in 1..n |-> IF i = n THEN last ELSE q[i]]
<1>1. n \in Nat /\ n \in 1..n /\ DOMAIN q = 1..n /\ q[n] \in Commands
  OBVIOUS
<1>2. [q EXCEPT ![Len(q)].live = FALSE] = r
  BY <1>1
<1>3. last \in Commands /\ last.do = q[n].do /\ last.win = q[n].win /\ last.live = FALSE
  BY <1>1 DEF Commands
<1>4. \A i \in 1..n : q[i] \in Commands
  OBVIOUS
<1> HIDE DEF last
<1>5. \A i \in 1..n : r[i] = IF i = n THEN last ELSE q[i]
  OBVIOUS
<1>6. r \in Seq(Commands) /\ Len(r) = n
  <2>1. r \in [1..n -> Commands]
    BY <1>3, <1>4
  <2> HIDE DEF r, n
  <2>2. QED
    BY <1>1, <2>1
<1> HIDE DEF r, n
<1>7. \A i \in 1..n : /\ r[i].do = q[i].do /\ r[i].win = q[i].win
                      /\ r[i].live => q[i].live /\ i # n
  BY <1>3, <1>5
<1>8. QED
  BY <1>2, <1>6, <1>7 DEF n

\* The call of a worker: what no worker ever did needs no hiding.
LEMMA WorkerCallInv ==
  ASSUME PresentationInv, WorkerCall
  PROVE  PresentationInv'
<1>1. /\ loop.todo # <<>> /\ Head(loop.todo) # <<>> /\ loop.answer = "none" /\ loop \in LoopTypes
      /\ UNCHANGED <<status, hosts, tracked, managing, masked>>
      /\ Asked.do \in {"show", "hide"}
  BY DEF WorkerCall, Ready, Program, Asked, screen, PresentationInv, PresentationTypes, LoopTypes
<1>2. /\ masked \subseteq Owners /\ queue \in [Kinds -> Seq(Commands)] /\ started \subseteq Kinds
      /\ \A k \in Kinds : \A i \in 1..Len(queue[k]) : ~queue[k][i].live
  BY <1>1 DEF PresentationInv, PresentationTypes, OneIsAwaited
<1>3. Asked \in WorkerCalls /\ (~managing => Asked.do # "show")
  <2>1. Asked \in Calls
    BY <1>1, ProgramsShrink DEF PresentationInv, PresentationTypes, Asked
  <2>2. ~managing => Asked \in ClearingCalls
    BY <1>1, ProgramsShrink DEF PresentationInv, OnlyClears, Asked
  <2>3. QED
    BY <1>1, <2>1, <2>2 DEF Calls, WorkerCalls, LocalCalls, ClearingCalls
<1>4. PICK k \in Kinds : k = Asked.kind
  BY <1>3 DEF WorkerCalls
<1>5. PICK h \in Owners : h = Asked.win
  BY <1>3 DEF WorkerCalls
<1>6. CASE Asked.do = "hide" /\ k \notin started
  <2>1. loop' = NextCall /\ UNCHANGED <<queue, started>>
    BY <1>4, <1>6 DEF WorkerCall, Program, Asked
  <2>2. queue[k] = <<>> /\ hosts[k][h] = "none"
    BY <1>6 DEF PresentationInv, Unstarted
  <2>3. Cleared(Asked.kind, Asked.win)
    BY <1>4, <1>5, <2>2 DEF Cleared
  <2>4. QED
    BY <1>1, <1>2, <1>6, <2>1, <2>3, NextCallInv
<1>7. CASE ~(Asked.do = "hide" /\ k \notin started)
  <2>1. PICK c \in Commands : c = [do |-> Asked.do, win |-> h, live |-> TRUE]
    BY <1>1 DEF Commands
  <2>2. PICK q \in Seq(Commands) : q = queue[k]
    BY <1>2
  <2>3. /\ started' = started \union {k}
        /\ queue' = [queue EXCEPT ![k] = Append(q, c)]
        /\ loop' = [loop EXCEPT !.answer = "awaited"]
    BY <1>4, <1>5, <1>7, <2>1, <2>2 DEF WorkerCall, Program, Asked, Starts
  <2>4. /\ Append(q, c) \in Seq(Commands) /\ Append(q, c) # <<>>
        /\ Len(Append(q, c)) = Len(q) + 1 /\ Len(q) \in Nat
        /\ Append(q, c)[Len(q) + 1] = c
        /\ \A i \in 1..Len(q) : Append(q, c)[i] = q[i]
        /\ \A i \in 1..Len(Append(q, c)) : i \in 1..Len(q) \/ i = Len(q) + 1
    BY ChannelGrows
  <2>5. /\ queue' \in [Kinds -> Seq(Commands)] /\ queue'[k] = Append(q, c)
        /\ \A l \in Kinds \ {k} : queue'[l] = queue[l]
    BY <1>2, <2>3, <2>4
  <2>6. /\ loop' \in LoopTypes /\ loop'.answer = "awaited" /\ loop'.stage = loop.stage
        /\ loop'.todo = loop.todo /\ loop'.failed = loop.failed /\ loop'.owed = loop.owed
    BY <1>1, <2>3 DEF LoopTypes
  <2>7. Asked' = Asked /\ Left' = Left /\ Alive' = Alive
    BY <1>1, <2>6 DEF Asked, Left, Alive
  <2>8. PresentationTypes'
    BY <1>1, <1>2, <2>3, <2>5, <2>6 DEF PresentationInv, PresentationTypes, LoopTypes
  <2>9. Unstarted'
    <3>1. SUFFICES ASSUME NEW l \in Kinds \ started, l # k
                   PROVE  queue'[l] = <<>> /\ \A g \in Owners : hosts[l][g] = "none"
      BY <1>1, <2>3 DEF Unstarted
    <3>2. queue[l] = <<>> /\ \A g \in Owners : hosts[l][g] = "none"
      BY DEF PresentationInv, Unstarted
    <3>3. QED
      BY <2>5, <3>1, <3>2
  <2>10. OneIsAwaited'
    <3>1. /\ loop'.todo # <<>> /\ Head(loop'.todo) # <<>> /\ Asked' \in WorkerCalls
      BY <1>1, <1>3, <2>6, <2>7
    <3>2. /\ queue'[k] # <<>>
          /\ queue'[k][Len(queue'[k])] = [do |-> Asked.do, win |-> Asked.win, live |-> TRUE]
      BY <1>5, <2>1, <2>4, <2>5
    <3>3. ASSUME NEW l \in Kinds, NEW i \in 1..Len(queue'[l]), queue'[l][i].live
          PROVE  l = k /\ i = Len(queue'[l])
      <4>1. l = k
        BY <1>2, <2>5, <3>3
      <4>2. i \in 1..Len(q) \/ i = Len(q) + 1
        BY <2>4, <2>5, <3>3, <4>1
      <4>3. i \notin 1..Len(q)
        BY <1>2, <2>2, <2>4, <2>5, <3>3, <4>1
      <4>4. QED
        BY <2>4, <2>5, <4>1, <4>2, <4>3
    <3>4. QED
      BY <1>4, <2>6, <2>7, <3>1, <3>2, <3>3 DEF OneIsAwaited
  <2>11. AnsweredIsCleared'
    BY <2>6 DEF AnsweredIsCleared
  <2>12. OnlyClears'
    BY <1>1, <2>6 DEF PresentationInv, OnlyClears
  <2>13. UnwindKeepsItsWord'
    <3>1. SUFFICES ASSUME ~managing, ~loop.failed
                   PROVE  IF loop.stage = "unwinding" THEN Unwinding' ELSE Unwound'
      BY <1>1, <2>6 DEF UnwindKeepsItsWord
    <3>2. c.do # "show"
      BY <1>3, <2>1, <3>1
    <3>3. ASSUME NEW l \in Kinds, NEW g \in Owners, Cleared(l, g) PROVE Cleared(l, g)'
      <4>1. CASE l # k
        BY <1>1, <2>5, <3>3, <4>1 DEF Cleared
      <4>2. CASE l = k
        BY <1>1, <2>2, <2>4, <2>5, <3>2, <3>3, <4>2 DEF Cleared
      <4>3. QED
        BY <4>1, <4>2
    <3>4. "copy" \in Kinds /\ loop.owed \subseteq Owners
      BY <1>1 DEF Kinds, LoopTypes
    <3>5. \A g \in Owners : Bare(g) => Bare(g)'
      BY <1>1, <2>7, <3>3, <3>4 DEF Bare
    <3>6. CASE loop.stage = "unwinding"
      <4>1. Unwinding
        BY <3>1, <3>6 DEF PresentationInv, UnwindKeepsItsWord
      <4>2. QED
        BY <2>6, <2>7, <3>3, <3>4, <3>5, <3>6, <4>1 DEF Unwinding
    <3>7. CASE loop.stage # "unwinding"
      <4>1. Unwound
        BY <3>1, <3>7 DEF PresentationInv, UnwindKeepsItsWord
      <4>2. QED
        BY <2>6, <3>3, <3>4, <3>5, <3>7, <4>1 DEF Unwound
    <3>8. QED
      BY <3>6, <3>7
  <2>14. QED
    BY <1>1, <2>6, <2>8, <2>9, <2>10, <2>11, <2>12, <2>13 DEF PresentationInv
<1>8. QED
  BY <1>6, <1>7

\* The answer of a worker.
LEMMA AnswerComesInv ==
  ASSUME PresentationInv, AnswerComes
  PROVE  PresentationInv'
<1>1. /\ loop.answer \in {"ok", "err"} /\ loop.todo # <<>> /\ Head(loop.todo) # <<>>
      /\ Asked \in WorkerCalls
      /\ UNCHANGED <<status, hosts, tracked, queue, started, managing, masked>>
      /\ (loop' = NextCall /\ loop.answer = "ok") \/ loop' = GivesUp
  BY DEF AnswerComes, screen, worker, PresentationInv, OneIsAwaited
<1>2. /\ masked \subseteq Owners /\ queue \in [Kinds -> Seq(Commands)]
      /\ \A k \in Kinds : \A i \in 1..Len(queue[k]) : ~queue[k][i].live
  BY <1>1 DEF PresentationInv, PresentationTypes, OneIsAwaited
<1>3. CASE loop' = NextCall /\ loop.answer = "ok"
  <2>1. Asked.do # "unmask"
    BY <1>1 DEF WorkerCalls
  <2>2. Asked.do = "hide" => Cleared(Asked.kind, Asked.win)
    BY <1>3 DEF PresentationInv, AnsweredIsCleared
  <2>3. QED
    BY <1>1, <1>2, <1>3, <2>1, <2>2, NextCallInv
<1>4. CASE loop' = GivesUp
  BY <1>1, <1>2, <1>4, GivesUpInv DEF SameCommands
<1>5. QED
  BY <1>1, <1>3, <1>4

\* The main loop waits no longer: the command stays in the channel.
LEMMA AnswerIsLateInv ==
  ASSUME PresentationInv, AnswerIsLate
  PROVE  PresentationInv'
<1>1. /\ loop.answer = "awaited" /\ loop.todo # <<>> /\ Head(loop.todo) # <<>>
      /\ Asked \in WorkerCalls /\ queue[Asked.kind] # <<>>
      /\ queue \in [Kinds -> Seq(Commands)]
  BY DEF AnswerIsLate, PresentationInv, PresentationTypes, OneIsAwaited
<1>2. PICK k \in Kinds : k = Asked.kind
  BY <1>1 DEF WorkerCalls
<1>3. PICK q \in Seq(Commands) : q = queue[k] /\ q # <<>>
  BY <1>1, <1>2
<1>4. PICK r \in Seq(Commands) :
        /\ r = [q EXCEPT ![Len(q)].live = FALSE] /\ Len(r) = Len(q)
        /\ \A i \in 1..Len(q) : r[i].do = q[i].do /\ r[i].win = q[i].win
        /\ \A i \in 1..Len(q) : r[i].live => q[i].live /\ i # Len(q)
  BY <1>3, ChannelForgets
<1>5. /\ queue' = [queue EXCEPT ![k] = r] /\ loop' = GivesUp
      /\ UNCHANGED <<status, hosts, tracked, started, managing, masked>>
  BY <1>2, <1>3, <1>4 DEF AnswerIsLate, Program, Asked, screen
<1>6. /\ queue' \in [Kinds -> Seq(Commands)] /\ queue'[k] = r
      /\ \A l \in Kinds \ {k} : queue'[l] = queue[l]
  BY <1>1, <1>5
<1>7. SameCommands
  <2>1. ASSUME NEW l \in Kinds
        PROVE  /\ Len(queue'[l]) = Len(queue[l])
               /\ \A i \in 1..Len(queue[l]) : /\ queue'[l][i].do = queue[l][i].do
                                              /\ queue'[l][i].win = queue[l][i].win
    <3>1. CASE l = k
      <4>1. queue'[l] = r /\ queue[l] = q
        BY <1>3, <1>6, <3>1
      <4>2. QED
        BY <1>4, <4>1
    <3>2. CASE l # k
      BY <1>6, <3>2
    <3>3. QED
      BY <3>1, <3>2
  <2>2. QED
    BY <2>1 DEF SameCommands
<1>8. ASSUME NEW l \in Kinds, NEW i \in 1..Len(queue'[l]) PROVE ~queue'[l][i].live
  <2>1. CASE l # k
    BY <1>2, <1>6, <2>1 DEF PresentationInv, OneIsAwaited
  <2>2. CASE l = k
    <3>1. i \in 1..Len(q) /\ queue'[l][i] = r[i]
      BY <1>4, <1>6, <2>2
    <3>2. q[i].live => i = Len(q)
      BY <1>3, <3>1 DEF PresentationInv, OneIsAwaited
    <3>3. QED
      BY <1>4, <3>1, <3>2
  <2>3. QED
    BY <2>1, <2>2
<1>9. QED
  BY <1>1, <1>5, <1>6, <1>7, <1>8, GivesUpInv

---------------------------------------------------------------------------
(* The unwinding is thorough. *)

LEMMA InitPresentation ==
  ASSUME PresentationInit
  PROVE  PresentationInv
<1> USE DEF PresentationInit
<1>1. \A k \in Kinds, h \in Owners : hosts[k][h] = "none" /\ queue[k] = <<>> /\ tracked[k] = {}
  OBVIOUS
<1>2. /\ loop.stage = "idle" /\ loop.todo = <<>> /\ loop.answer = "none"
      /\ loop \in LoopTypes /\ managing = TRUE
  BY DEF LoopTypes
<1>3. PresentationTypes
  BY <1>2 DEF PresentationTypes, HostStates, LoopTypes
<1>4. Unstarted /\ OneIsAwaited
  BY <1>2 DEF Unstarted, OneIsAwaited
<1>5. AnsweredIsCleared /\ OnlyClears /\ UnwindKeepsItsWord
  BY <1>2 DEF AnsweredIsCleared, OnlyClears, UnwindKeepsItsWord
<1>6. QED
  BY <1>2, <1>3, <1>4, <1>5 DEF PresentationInv

LEMMA NextPresentation ==
  ASSUME PresentationInv, [PresentationNext]_presentationVars
  PROVE  PresentationInv'
<1>1. CASE UNCHANGED presentationVars
  BY <1>1, QuietTurnInv DEF presentationVars, screen, worker
<1>2. CASE DesktopTurns
  <2>1. ASSUME NEW h \in Owners, NEW w \in Wants, LayoutTurns(h, w) PROVE PresentationInv'
    BY <2>1, QuietTurnInv DEF LayoutTurns, worker
  <2>2. ASSUME NEW h \in Owners \union {0}, ForegroundTurns(h) PROVE PresentationInv'
    BY <2>2, QuietTurnInv DEF ForegroundTurns, worker
  <2>3. ASSUME NEW h \in Owners, PopupTurns(h) PROVE PresentationInv'
    BY <2>3, QuietTurnInv DEF PopupTurns, worker
  <2>4. QED
    BY <1>2, <2>1, <2>2, <2>3, StatusTurnsInv, CopyClickedInv DEF DesktopTurns
<1>3. CASE WorkersTurn
  BY <1>3, WorkerObeysInv, PrunesInv DEF WorkersTurn
<1>4. CASE CycleGoesOn
  BY <1>4, CyclePlansInv, CycleEndsInv, ProgramEndsInv, LocalCallInv, WorkerCallInv,
     AnswerComesInv DEF CycleGoesOn
<1>5. CASE CycleBegins \/ Unwind \/ CycleFails
  BY <1>5, CycleBeginsInv, UnwindInv, CyclePlansInv, LocalCallFailsInv, AnswerIsLateInv DEF CycleFails
<1>6. QED
  BY <1>1, <1>2, <1>3, <1>4, <1>5 DEF PresentationNext

\* The invariant of the presentation.
THEOREM PresentationInvariant == PresentationSpec => []PresentationInv
<1>1. PresentationInit => PresentationInv
  BY InitPresentation
<1>2. PresentationInv /\ [PresentationNext]_presentationVars => PresentationInv'
  BY NextPresentation
<1>3. QED
  BY <1>1, <1>2, PTL DEF PresentationSpec

\* An unwinding that reports no failure leaves nothing on the screen: neither what
\* a worker was still to show when its answer was late, nor a window clipped by a
\* promotion behind the main loop's back.
THEOREM UnwindingIsThorough == PresentationSpec => []UnwindLeavesNothing
<1>1. PresentationInv => UnwindLeavesNothing
  <2>1. SUFFICES ASSUME PresentationInv, ~managing, loop.stage # "unwinding", ~loop.failed,
                        NEW h \in loop.owed
                 PROVE  (\A k \in Kinds : ~OnScreen(k, h)) /\ (h \in Alive => h \notin masked)
    BY DEF UnwindLeavesNothing
  <2>2. (\A k \in Kinds : Cleared(k, h)) /\ Bare(h)
    BY <2>1 DEF PresentationInv, UnwindKeepsItsWord, Unwound
  <2>3. QED
    BY <2>2 DEF Cleared, Bare, OnScreen
<1>2. QED
  BY <1>1, PresentationInvariant, PTL
=============================================================================
