--------------------------- MODULE KeyboardProofs ---------------------------
(***************************************************************************)
(* Proofs about the keyboard and the touchpad: the hook, for every keyboard*)
(* and every set of registrations, the input listeners under reloads, for  *)
(* any chords, any number of reloads and any order of the keyboard, the    *)
(* main loop and the threads, and the recogniser, for any fingers and      *)
(* steps: no modifier sticks, no chord is lost, no command repeats after   *)
(* its key is up, and every swipe is obeyed.                               *)
(***************************************************************************)
EXTENDS Hotkeys, Listeners, Touchpad, DataProofs

---------------------------------------------------------------------------
(* The hook (Hotkeys). *)

AnyModifier(k) == IsWin(k) \/ IsModifier(k)

\* The hook's picture of the keyboard: what it holds pressed is down or has gone up
\* where it saw nothing, and what it waits for or fires on is pressed.
Pressed ==
  /\ pressed \subseteq Held
  /\ repeating # None => repeating \in down
  /\ trigger # None => trigger.key \in pressed /\ trigger.mods \subseteq Mask(pressed)
  /\ superHeld => \E k \in pressed : IsWin(k)
  /\ pending # None => IsWin(pending) /\ pending \in pressed /\ trigger = None

\* What the applications know of the modifiers.  What they have seen is held, and the hook
\* holds it too if it is no Win key or the one being repeated (a Win key alone may be
\* forgotten, when the workstation is to be locked); a release still to be swallowed is
\* of a pressed modifier that they have not seen and that is not repeated; and a prefix is
\* hidden whole.  A key whose release was missed is excepted throughout, and behind a lock
\* they see nothing.
Hidden ==
  /\ locked => seen = {}
  /\ \A k \in seen : AnyModifier(k) => k \in Held
  /\ \A k \in seen : IsModifier(k) \/ (IsWin(k) /\ k = repeating) => k \in pressed \union missed
  /\ \A k \in suppressedHeld : ~AnyModifier(k)
  /\ \A k \in suppressedReleases :
       AnyModifier(k) => k \in pressed /\ (k \in missed \/ (k \notin seen /\ k # repeating))
  /\ pending # None => \A k \in seen : k = pending \/ IsModifier(k) => k \in missed

KeyInv == TypeOK /\ Pressed /\ Hidden

\* A larger set of keys holds more modifiers.
LEMMA MaskGrows ==
  ASSUME NEW S, NEW T, S \subseteq T
  PROVE  Mask(S) \subseteq Mask(T)
  BY DEF Mask

\* The keyboard hook starts with nothing pressed.
LEMMA KeyInvInit == Init => KeyInv
  BY DEF Init, KeyInv, Held, TypeOK, Pressed, Hidden

\* A key-down, first of the press or of the auto-repeat, outside a prefix.
LEMMA OutsidePrefixKeepsInv ==
  ASSUME KeyInv, NEW k \in Keys, ~locked, OutsidePrefix(k),
         down' = down \union {k}, repeating' = k,
         k \in down => repeating = k
  PROVE  KeyInv'
<1> USE NoneAssumption, ModifierAssumption, BindingsAssumption
<1> DEFINE now == pressed \union {k}
<1>1. Mask(pressed) \subseteq Mask(now)
  BY MaskGrows
<1>2. pending = None /\ k \in now /\ now \subseteq down' \union missed
  BY DEF OutsidePrefix, KeyInv, Pressed, Held
<1>3. \A b \in Matching(k, Mask(now)) :
        b \in Bindings /\ b.key = k /\ b.mods = Mask(now) /\ ~AnyModifier(k)
  BY DEF Matching, Modifiers, AnyModifier, IsWin, IsModifier
<1>4. CASE BeginPrefix(k)
  <2>1. (k \in seen => k \in missed) /\ trigger = None /\ IsWin(k)
    BY <1>4 DEF BeginPrefix, BeginsPrefix, KeyInv, Hidden, AnyModifier, Held
  <2>2. \A m \in now : ~IsModifier(m)
    BY <1>4 DEF BeginPrefix, BeginsPrefix, Mask, Modifiers, IsModifier
  <2>3. TypeOK'
    BY <1>4 DEF BeginPrefix, Insert, Swallow, KeyInv, TypeOK
  <2>4. Pressed'
    BY <1>2, <1>4, <2>1 DEF BeginPrefix, Insert, Swallow, KeyInv, Held, TypeOK, Pressed, IsWin
  <2>5. Hidden'
    BY <1>4, <2>1, <2>2 DEF BeginPrefix, BeginsPrefix, Insert, Swallow, KeyInv, Held, TypeOK, Pressed, Hidden,
                       AnyModifier, IsWin, IsModifier
  <2>6. QED
    BY <2>3, <2>4, <2>5 DEF KeyInv
<1>5. CASE SwallowRepeat(k)
  <2>1. TypeOK'
    BY <1>5 DEF SwallowRepeat, Insert, Swallow, KeyInv, TypeOK
  <2>2. Pressed'
    BY <1>1, <1>2, <1>5 DEF SwallowRepeat, Insert, Swallow, KeyInv, Held, TypeOK, Pressed, IsWin
  <2>3. Hidden'
    BY <1>2, <1>5 DEF SwallowRepeat, Insert, Swallow, KeyInv, Held, TypeOK, Pressed, Hidden,
                       AnyModifier, IsWin, IsModifier
  <2>4. QED
    BY <2>1, <2>2, <2>3 DEF KeyInv
<1>6. CASE Fire(k)
  <2>1. PICK b \in Matching(k, Mask(now)) : trigger' = b
    BY <1>6 DEF Fire
  <2>2. trigger' \in Bindings /\ trigger'.key = k /\ trigger'.mods = Mask(now) /\ ~AnyModifier(k)
    BY <1>3, <2>1
  <2>3. TypeOK'
    BY <1>6, <2>2 DEF Fire, Insert, KeyInv, TypeOK
  <2>4. Pressed'
    BY <1>2, <1>6, <2>2 DEF Fire, Insert, KeyInv, Held, TypeOK, Pressed, IsWin
  <2>5. Hidden'
    BY <1>2, <1>6, <2>2 DEF Fire, Insert, KeyInv, Held, TypeOK, Pressed, Hidden, AnyModifier, IsWin,
                            IsModifier
  <2>6. QED
    BY <2>3, <2>4, <2>5 DEF KeyInv
<1>7. CASE Pass(k)
  <2>1. k \in suppressedReleases /\ AnyModifier(k) => k \in missed
    BY DEF KeyInv, Hidden, Pressed, Held
  <2>2. TypeOK'
    BY <1>7 DEF Pass, Insert, KeyInv, TypeOK
  <2>3. Pressed'
    BY <1>1, <1>2, <1>7 DEF Pass, Insert, KeyInv, Held, TypeOK, Pressed, IsWin
  <2>4. Hidden'
    BY <1>2, <1>7, <2>1 DEF Pass, Insert, KeyInv, Held, TypeOK, Pressed, Hidden, AnyModifier, IsWin,
                            IsModifier
  <2>5. QED
    BY <2>2, <2>3, <2>4 DEF KeyInv
<1>8. QED
  BY <1>4, <1>5, <1>6, <1>7 DEF OutsidePrefix

\* A key-down while a Win key waits for its chord.
LEMMA DuringPrefixKeepsInv ==
  ASSUME KeyInv, NEW k \in Keys, ~locked, DuringPrefix(k),
         down' = down \union {k}, repeating' = k,
         k \in down => repeating = k
  PROVE  KeyInv'
<1> USE NoneAssumption, ModifierAssumption, BindingsAssumption
<1>1. /\ pending \in Keys /\ IsWin(pending) /\ pending \in pressed /\ trigger = None
      /\ pressed \subseteq down \union missed
  BY DEF DuringPrefix, KeyInv, TypeOK, Pressed, Held
<1>2. \A m \in PrefixKeys : m \in pressed /\ (m \in seen => m \in missed)
  BY <1>1 DEF PrefixKeys, KeyInv, Held, Hidden, DuringPrefix
<1>3. PrefixKeys \subseteq Keys
  BY <1>2 DEF KeyInv, TypeOK
<1>4. CASE ExtendPrefix(k)
  <2>1. TypeOK'
    BY <1>4 DEF ExtendPrefix, Insert, Swallow, KeyInv, TypeOK
  <2>2. Pressed'
    BY <1>1, <1>4 DEF ExtendPrefix, Insert, Swallow, KeyInv, Held, TypeOK, Pressed, IsWin
  <2>3. Hidden'
    BY <1>1, <1>4 DEF ExtendPrefix, Insert, Swallow, KeyInv, Held, TypeOK, Pressed, Hidden,
                 AnyModifier, IsWin, IsModifier, DuringPrefix
  <2>4. QED
    BY <2>1, <2>2, <2>3 DEF KeyInv
<1>5. CASE MatchPrefix(k)
  <2>1. /\ trigger' \in Bindings /\ trigger'.key = k
        /\ trigger'.mods \subseteq Mask(pressed \union {k})
    BY <1>5, MaskGrows DEF MatchPrefix, Matching
  <2>2. TypeOK'
    BY <1>3, <1>5, <2>1 DEF MatchPrefix, Insert, KeyInv, TypeOK
  <2>3. Pressed'
    BY <1>1, <1>5, <2>1 DEF MatchPrefix, Insert, KeyInv, Held, TypeOK, Pressed, IsWin
  <2>4. Hidden'
    BY <1>1, <1>2, <1>3, <1>5 DEF MatchPrefix, Insert, KeyInv, Held, TypeOK, Hidden, AnyModifier, IsWin,
                            IsModifier
  <2>5. QED
    BY <2>2, <2>3, <2>4 DEF KeyInv
<1>6. CASE TransferToStart(k)
  <2>1. TypeOK'
    BY <1>1, <1>6 DEF TransferToStart, Insert, KeyInv, TypeOK
  <2>2. Pressed'
    BY <1>1, <1>6 DEF TransferToStart, Insert, KeyInv, Held, TypeOK, Pressed, IsWin
  <2>3. Hidden'
    BY <1>1, <1>6 DEF TransferToStart, Unmatched, Insert, KeyInv, Held, TypeOK, Hidden, AnyModifier,
                            IsWin, IsModifier
  <2>4. QED
    BY <2>1, <2>2, <2>3 DEF KeyInv
<1>7. CASE LockWorkstation(k)
  <2>1. \A m \in seen' : m \in seen /\ (m \in missed => m \in missed')
    BY <1>7 DEF LockWorkstation
  <2>2. \A m \in seen : m = pending \/ IsModifier(m) => m \in missed
    BY DEF KeyInv, Hidden, DuringPrefix
  <2>3. ~AnyModifier(k)
    BY <1>7 DEF LockWorkstation, Unmatched, AnyModifier
  <2>4. TypeOK'
    BY <1>7 DEF LockWorkstation, KeyInv, TypeOK
  <2>5. Pressed'
    BY <1>7 DEF LockWorkstation, KeyInv, Pressed, Held
  <2>6. Hidden'
    BY <1>7, <2>1, <2>2, <2>3 DEF LockWorkstation, KeyInv, Held, Hidden, AnyModifier, IsWin, IsModifier
  <2>7. QED
    BY <2>4, <2>5, <2>6 DEF KeyInv
<1>8. CASE ReplayChord(k)
  <2>1. TypeOK'
    BY <1>3, <1>8 DEF ReplayChord, Insert, KeyInv, TypeOK
  <2>2. Pressed'
    BY <1>1, <1>8 DEF ReplayChord, Insert, KeyInv, Held, TypeOK, Pressed, IsWin
  <2>3. Hidden'
    BY <1>1, <1>2, <1>3, <1>8 DEF ReplayChord, Unmatched, Insert, KeyInv, Held, TypeOK, Hidden,
                            AnyModifier, IsWin, IsModifier
  <2>4. QED
    BY <2>1, <2>2, <2>3 DEF KeyInv
<1>9. QED
  BY <1>4, <1>5, <1>6, <1>7, <1>8 DEF DuringPrefix

\* A key-up.
LEMMA KeyUpKeepsInv ==
  ASSUME KeyInv, NEW k \in Keys, ~locked, KeyUp(k), down' = down \ {k},
         repeating' = IF repeating = k THEN None ELSE repeating
  PROVE  KeyInv'
<1> USE NoneAssumption, ModifierAssumption, BindingsAssumption
<1>1. trigger # None => ~AnyModifier(trigger.key)
  BY DEF KeyInv, TypeOK, Modifiers, AnyModifier, IsWin, IsModifier
<1>2. AnyModifier(k) /\ k \in seen \ missed => ~SwallowsUp(k)
  BY <1>1 DEF SwallowsUp, TriggerOwns, PrefixOwns, KeyInv, Held, Pressed, Hidden, AnyModifier
<1>3. AnyModifier(k) => (k \in seen' => k \in missed) /\ k \notin suppressedReleases'
  BY <1>1, <1>2 DEF KeyUp, TriggerOwns, KeyInv, Held, Hidden
<1>4. TypeOK'
  BY DEF KeyUp, KeyInv, TypeOK
<1>5. Pressed'
  BY DEF KeyUp, TriggerLives, KeyInv, Held, TypeOK, Pressed, IsWin
<1>6. Hidden'
  BY <1>3 DEF KeyUp, KeyInv, Held, TypeOK, Pressed, Hidden, AnyModifier, IsWin, IsModifier
<1>7. QED
  BY <1>4, <1>5, <1>6 DEF KeyInv

\* Every step of the keyboard keeps the invariant.
LEMMA KeyInvNext == KeyInv /\ [Next]_vars => KeyInv'
<1> SUFFICES ASSUME KeyInv, [Next]_vars
             PROVE  KeyInv'
  OBVIOUS
<1>1. ASSUME NEW k \in Keys, Press(k)
      PROVE  KeyInv'
  BY <1>1, OutsidePrefixKeepsInv, DuringPrefixKeepsInv DEF Press, KeyDown
<1>2. ASSUME NEW k \in Keys, Repeat(k)
      PROVE  KeyInv'
  <2>1. k \in down /\ down' = down \union {k} /\ repeating' = k
    BY <1>2, NoneAssumption DEF Repeat, KeyInv, Held, Pressed
  <2>2. QED
    BY <1>2, <2>1, OutsidePrefixKeepsInv, DuringPrefixKeepsInv DEF Repeat, KeyDown
<1>3. ASSUME NEW k \in Keys, Release(k)
      PROVE  KeyInv'
  BY <1>3, KeyUpKeepsInv DEF Release
<1>4. ASSUME NEW k \in Keys, UnseenPress(k)
      PROVE  KeyInv'
  <2>1. k \in pressed => k \in missed
    BY <1>4 DEF UnseenPress, KeyInv, Pressed, Held
  <2>2. seen = {}
    BY <1>4 DEF UnseenPress, KeyInv, Hidden
  <2>3. TypeOK'
    BY <1>4 DEF UnseenPress, hook, KeyInv, TypeOK
  <2>4. Pressed'
    BY <1>4 DEF UnseenPress, hook, KeyInv, Pressed, Held, IsWin, Mask
  <2>5. Hidden'
    BY <1>4, <2>1, <2>2 DEF UnseenPress, hook, KeyInv, Hidden, Held, AnyModifier, IsWin, IsModifier
  <2>6. QED
    BY <2>3, <2>4, <2>5 DEF KeyInv
<1>5. ASSUME NEW k \in Keys, UnseenRelease(k)
      PROVE  KeyInv'
  <2>1. missed \subseteq missed' /\ (k \in pressed => k \in missed')
    BY <1>5 DEF UnseenRelease
  <2>2. seen = {}
    BY <1>5 DEF UnseenRelease, KeyInv, Hidden
  <2>3. TypeOK'
    BY <1>5 DEF UnseenRelease, hook, KeyInv, TypeOK
  <2>4. Pressed'
    <3>1. pressed' \subseteq Held'
      BY <1>5, <2>1 DEF UnseenRelease, hook, KeyInv, Pressed, Held
    <3>2. repeating' # None => repeating' \in down'
      BY <1>5 DEF UnseenRelease, KeyInv, Pressed
    <3>3. UNCHANGED <<pressed, trigger, superHeld, pending>>
      BY <1>5 DEF UnseenRelease, hook
    <3>4. QED
      BY <3>1, <3>2, <3>3 DEF KeyInv, Pressed, IsWin, Mask
  <2>5. Hidden'
    <3>1. \A m \in Keys : m # repeating => m # repeating'
      BY <1>5, NoneAssumption DEF UnseenRelease
    <3>2. UNCHANGED <<pressed, seen, pending, suppressedHeld, suppressedReleases>>
      BY <1>5 DEF UnseenRelease, hook
    <3>3. QED
      BY <2>1, <2>2, <3>1, <3>2 DEF KeyInv, TypeOK, Hidden, AnyModifier, IsWin, IsModifier
  <2>6. QED
    BY <2>3, <2>4, <2>5 DEF KeyInv
<1>6. CASE SwitchesAway \/ Unlock
  <2>1. TypeOK'
    BY <1>6 DEF SwitchesAway, Unlock, hook, KeyInv, TypeOK
  <2>2. Pressed'
    BY <1>6 DEF SwitchesAway, Unlock, hook, KeyInv, Pressed, Held, IsWin, Mask
  <2>3. Hidden'
    BY <1>6 DEF SwitchesAway, Unlock, hook, KeyInv, Hidden, Held, AnyModifier, IsWin, IsModifier
  <2>4. QED
    BY <2>1, <2>2, <2>3 DEF KeyInv
<1>7. CASE UNCHANGED vars
  BY <1>7 DEF vars, hook, world, KeyInv, Held, TypeOK, Pressed, Hidden, AnyModifier, IsWin,
              IsModifier, Mask
<1>8. QED
  BY <1>1, <1>2, <1>3, <1>4, <1>5, <1>6, <1>7 DEF Next

\* The invariant holds in every reachable state.
THEOREM HookInvariant == Spec => []KeyInv
  BY KeyInvInit, KeyInvNext, PTL DEF Spec

\* Every variable keeps its type.
THEOREM HookTypes == Spec => []TypeOK
<1>1. KeyInv => TypeOK
  BY DEF KeyInv
<1>2. QED
  BY <1>1, HookInvariant, PTL

\* For the applications no modifier is ever left down.
THEOREM NoStuckModifier == Spec => []ModifiersNeverStick
<1>1. KeyInv => ModifiersNeverStick
  BY DEF KeyInv, Held, Pressed, Hidden, ModifiersNeverStick, AnyModifier
<1>2. QED
  BY <1>1, HookInvariant, PTL

\* A repeating command stops with its chord, unless a lock or a secure desktop hides the
\* end of the chord from the hook.
THEOREM TriggerHeld == Spec => []TriggerIsHeld
<1>1. KeyInv => Mask(pressed) \subseteq Mask(Held)
  BY MaskGrows DEF KeyInv, Pressed
<1>2. KeyInv => TriggerIsHeld
  BY <1>1 DEF KeyInv, Pressed, TriggerIsHeld
<1>3. QED
  BY <1>2, HookInvariant, PTL

\* The Win key of a mouse drag is down, unless its release was hidden from the hook.
THEOREM SuperHeld == Spec => []SuperIsHeld
<1>1. KeyInv => SuperIsHeld
  BY DEF KeyInv, Pressed, SuperIsHeld
<1>2. QED
  BY <1>1, HookInvariant, PTL

\* A waiting Win key is held, unseen, and alone with the hook.
THEOREM PrefixHidden == Spec => []PrefixIsHidden
<1>1. KeyInv => PrefixIsHidden
  BY DEF KeyInv, Pressed, Hidden, PrefixIsHidden
<1>2. QED
  BY <1>1, HookInvariant, PTL

\* While a Win key waits for its chord nothing but a modifier is repeated, of the keys the
\* hook is right to hold pressed.
Repeated ==
  repeating \in pressed \ missed /\ pending # None => AnyModifier(repeating)

\* Only a modifier leaves a prefix waiting.
LEMMA KeyDownHolds ==
  ASSUME NEW k \in Keys, KeyDown(k), pending' # None
  PROVE  AnyModifier(k)
<1>1. CASE DuringPrefix(k)
  BY <1>1 DEF DuringPrefix, ExtendPrefix, MatchPrefix, TransferToStart, LockWorkstation, ReplayChord,
              AnyModifier
<1>2. CASE OutsidePrefix(k)
  BY <1>2 DEF OutsidePrefix, BeginPrefix, BeginsPrefix, SwallowRepeat, Fire, Pass, AnyModifier
<1>3. QED
  BY <1>1, <1>2 DEF KeyDown

\* Every step leaves only a modifier repeated.  A key that goes down where the hook sees
\* nothing is none it holds, or one whose release it missed.
LEMMA RepeatedNext == KeyInv /\ Repeated /\ [Next]_vars => Repeated'
<1> SUFFICES ASSUME KeyInv, Repeated, [Next]_vars PROVE Repeated'
  OBVIOUS
<1> USE NoneAssumption
<1>1. ASSUME NEW k \in Keys, Press(k) PROVE Repeated'
  BY <1>1, KeyDownHolds DEF Press, Repeated
<1>2. ASSUME NEW k \in Keys, Repeat(k) PROVE Repeated'
  BY <1>2, KeyDownHolds DEF Repeat, Repeated
<1>3. ASSUME NEW k \in Keys, Release(k) PROVE Repeated'
  <2>1. repeating' \in pressed' => repeating' = repeating /\ repeating # k /\ repeating \in pressed
    BY <1>3 DEF Release, KeyUp, KeyInv, TypeOK
  <2>2. repeating # k => (repeating \in missed <=> repeating \in missed')
    BY <1>3 DEF Release, KeyUp
  <2>3. pending' # None => pending # None
    BY <1>3 DEF Release, KeyUp
  <2>4. QED
    BY <2>1, <2>2, <2>3 DEF Repeated
<1>4. ASSUME NEW k \in Keys, UnseenPress(k) PROVE Repeated'
  BY <1>4 DEF UnseenPress, hook, Repeated, KeyInv, Pressed, Held
<1>5. ASSUME NEW k \in Keys, UnseenRelease(k) PROVE Repeated'
  BY <1>5 DEF UnseenRelease, hook, Repeated, KeyInv, TypeOK
<1>6. CASE SwitchesAway \/ Unlock
  BY <1>6 DEF SwitchesAway, Unlock, hook, Repeated
<1>7. CASE UNCHANGED vars
  BY <1>7 DEF vars, hook, world, Repeated
<1>8. QED
  BY <1>1, <1>2, <1>3, <1>4, <1>5, <1>6, <1>7 DEF Next

\* A key that the hook is right to hold pressed fires nothing when it is repeated.
LEMMA HeldFiresNothing ==
  ASSUME Repeated, NEW k \in Keys, Repeat(k), k \in pressed \ missed
  PROVE  trigger' = trigger
<1>1. (pending # None => AnyModifier(k)) /\ KeyDown(k)
  BY DEF Repeat, Repeated
<1>2. CASE DuringPrefix(k)
  BY <1>1, <1>2 DEF DuringPrefix, ExtendPrefix, MatchPrefix, TransferToStart, LockWorkstation, ReplayChord,
                    Unmatched, AnyModifier
<1>3. CASE OutsidePrefix(k)
  BY <1>3 DEF OutsidePrefix, BeginPrefix, BeginsPrefix, SwallowRepeat, Fire, Fires, Pass
<1>4. QED
  BY <1>1, <1>2, <1>3 DEF KeyDown

\* The auto-repeat of a held key issues no command (active_trigger and pressed_keys of
\* low_level.rs), although the second half of a chord is looked up without asking whether
\* its key was pressed already.
THEOREM HeldKeysFireOnce == Spec => RepeatsFireNothing
<1>1. Init => KeyInv /\ Repeated
  BY KeyInvInit DEF Init, Repeated
<1>2. Repeated /\ [Next]_vars
        => [\A k \in Keys : Repeat(k) /\ k \in pressed \ missed => trigger' = trigger]_vars
  BY HeldFiresNothing
<1>3. QED
  BY <1>1, <1>2, KeyInvNext, RepeatedNext, PTL DEF Spec, RepeatsFireNothing

---------------------------------------------------------------------------
(* The listeners (Listeners).                                              *)
(*                                                                         *)
(* NoChordIsLost says nothing until it is too late.  The invariant names   *)
(* the generation that serves the keyboard: the last one whose thread has  *)
(* registered its chords.  It has a registration or a hook for each of     *)
(* them, its hook is the newest and knows every modifier that went down    *)
(* since, and nobody has told it to quit; and a message an older thread    *)
(* still owes an answer stands before the one that tells it to quit.       *)

ThreadStages == {"none", "registering", "running", "unhooking", "unregistering", "ended"}
MainStages   == {"hotkeys", "touchpad", "dropping", "looping", "exited"}
Message      == {Quit} \union (BoundChords \X BOOLEAN)

\* A message whose chord must not be lost.
Due(message) == \E c \in BoundChords : message = <<c, TRUE>>

NeverQuits(queue)   == \A i \in DOMAIN queue : queue[i] # Quit
OwesNothing(queue)  == \A i \in DOMAIN queue : ~Due(queue[i])
OwesBeforeQuit(queue) ==
  \A i, j \in DOMAIN queue : i < j /\ queue[i] = Quit => ~Due(queue[j])

\* Types of the main loop, the threads and the keyboard.
ListenersTypes ==
  /\ main \in MainStages /\ gen \in Generations
  /\ thread \in [Generations -> ThreadStages]
  /\ table \in [BoundChords -> Generations \union {0}]
  /\ hooks \subseteq Generations
  /\ caught \in [Generations -> SUBSET BoundChords]
  /\ knows \in [Generations -> SUBSET Mods]
  /\ messages \in [Generations -> Seq(Message)]
  /\ keys \in [down : SUBSET Mods, held : SUBSET BoundChords]
  /\ spare \in [presses : Nat, fails : Nat, deaf : BOOLEAN]
  /\ unseen \subseteq keys.down

\* A generation that has not registered yet has nothing.
FreshHasNothing ==
  \A g \in Generations : thread[g] \in {"none", "registering"} =>
    /\ messages[g] = <<>> /\ knows[g] = {} /\ g \notin hooks
    /\ \A c \in BoundChords : table[c] # g

\* The newest generation is the one that starts, and it runs when it has started.
Progress ==
  /\ \A g \in Generations : /\ g > gen => thread[g] = "none"
                            /\ thread[g] = "registering" => g = gen
  /\ Lives => /\ NeverQuits(messages[gen])
              /\ \/ thread[gen] = "running"
                 \/ main = "hotkeys" /\ thread[gen] = "registering"
                 \/ main = "hotkeys" /\ thread[gen] = "ended" /\ spare.deaf

\* What a thread still owes stands before the message that ends it.
DebtsArePaid ==
  \A g \in Generations :
    /\ OwesBeforeQuit(messages[g])
    /\ thread[g] \in {"unhooking", "unregistering"} => OwesNothing(messages[g])

\* The generation that serves the keyboard, 0 before the first has registered.
Server == IF thread[gen] = "registering" THEN gen - 1 ELSE gen

Serves(g) ==
  /\ thread[g] = "running" /\ NeverQuits(messages[g])
  /\ \A c \in BoundChords : c \in caught[g] \/ table[c] = g
  /\ caught[g] # {} => /\ g \in hooks /\ \A h \in hooks : h <= g
                       /\ knows[g] = keys.down \ unseen

KeyboardIsServed == Lives /\ ~spare.deaf /\ Server > 0 => Serves(Server)

\* A loop that repeats belongs to the hook that ends it.
LoopsAreOwned == \A l \in loops : l.chord \in keys.held /\ l.gen \in hooks

\* Of all hooks one at most waits with a Win key, which is down and unknown to the
\* system; Win chords are caught by hooks, never registered.
PrefixInv ==
  /\ waits \subseteq hooks /\ passed \subseteq Mods
  /\ "Win" \in passed => "Win" \in keys.down
  /\ \A h \in waits : /\ "Win" \in keys.down \ passed
                      /\ \E c \in BoundChords : Forced(c)
                      /\ \A i \in waits : i = h
  /\ \A c \in BoundChords : table[c] # 0 => ~Forced(c)

ListenersInv ==
  /\ ListenersTypes /\ FreshHasNothing /\ Progress /\ DebtsArePaid /\ KeyboardIsServed
  /\ LoopsAreOwned /\ NoChordIsLost
-----------------------------------------------------------------------------
(* Queues of messages.                                                      *)

\* A message that asks to quit is none of a chord.
LEMMA QuitOwesNothing == Message # {} /\ ~Due(Quit)
<1>1. \A c \in BoundChords : <<c, TRUE>> # <<>>
  OBVIOUS
<1>2. QED
  BY <1>1 DEF Due, Quit, Message

\* What is sent to a thread stands behind everything else.
LEMMA SendKeeps ==
  ASSUME NEW queue \in Seq(Message), NEW message \in Message
  PROVE  /\ Append(queue, message) \in Seq(Message)
         /\ NeverQuits(queue) /\ message # Quit => NeverQuits(Append(queue, message))
         /\ NeverQuits(queue) => OwesBeforeQuit(Append(queue, message))
         /\ OwesBeforeQuit(queue) /\ ~Due(message) => OwesBeforeQuit(Append(queue, message))
         /\ OwesNothing(queue) /\ ~Due(message) => OwesNothing(Append(queue, message))
<1> DEFINE sent == Append(queue, message)
<1>1. /\ sent \in Seq(Message) /\ Len(sent) = Len(queue) + 1 /\ Len(queue) \in Nat
      /\ DOMAIN sent = 1..(Len(queue) + 1) /\ DOMAIN queue = 1..Len(queue)
      /\ sent[Len(queue) + 1] = message
      /\ \A i \in DOMAIN queue : sent[i] = queue[i]
  OBVIOUS
<1> HIDE DEF sent
<1>2. NeverQuits(queue) /\ message # Quit => NeverQuits(sent)
  BY <1>1 DEF NeverQuits
<1>3. NeverQuits(queue) => OwesBeforeQuit(sent)
  BY <1>1 DEF NeverQuits, OwesBeforeQuit
<1>4. OwesBeforeQuit(queue) /\ ~Due(message) => OwesBeforeQuit(sent)
  BY <1>1 DEF OwesBeforeQuit
<1>5. OwesNothing(queue) /\ ~Due(message) => OwesNothing(sent)
  BY <1>1 DEF OwesNothing
<1>6. QED
  BY <1>1, <1>2, <1>3, <1>4, <1>5 DEF sent

\* A thread that has taken its next message owes no more than before, and nothing
\* behind the message that ends it.
LEMMA TakeKeeps ==
  ASSUME NEW queue \in Seq(Message), queue # <<>>
  PROVE  /\ Tail(queue) \in Seq(Message)
         /\ NeverQuits(queue) => NeverQuits(Tail(queue)) /\ Head(queue) # Quit
         /\ OwesBeforeQuit(queue) => OwesBeforeQuit(Tail(queue))
         /\ OwesBeforeQuit(queue) /\ Head(queue) = Quit => OwesNothing(Tail(queue))
<1> DEFINE rest == Tail(queue)
<1>1. /\ rest \in Seq(Message) /\ Len(queue) \in Nat /\ Len(queue) > 0
      /\ DOMAIN rest = 1..(Len(queue) - 1) /\ DOMAIN queue = 1..Len(queue)
      /\ Head(queue) = queue[1]
      /\ \A i \in DOMAIN rest : rest[i] = queue[i + 1]
  OBVIOUS
<1> HIDE DEF rest
<1>2. NeverQuits(queue) => NeverQuits(rest) /\ Head(queue) # Quit
  BY <1>1 DEF NeverQuits
<1>3. OwesBeforeQuit(queue) => OwesBeforeQuit(rest)
  BY <1>1 DEF OwesBeforeQuit
<1>4. OwesBeforeQuit(queue) /\ Head(queue) = Quit => OwesNothing(rest)
  <2>1. \A i \in DOMAIN rest : 1 < i + 1 /\ 1 \in DOMAIN queue /\ i + 1 \in DOMAIN queue
    BY <1>1
  <2>2. QED
    BY <1>1, <2>1 DEF OwesBeforeQuit, OwesNothing
<1>5. QED
  BY <1>1, <1>2, <1>3, <1>4 DEF rest

\* An empty queue.
LEMMA EmptyOwesNothing ==
  /\ <<>> \in Seq(Message) /\ NeverQuits(<<>>) /\ OwesBeforeQuit(<<>>) /\ OwesNothing(<<>>)
BY DEF NeverQuits, OwesBeforeQuit, OwesNothing

\* The generation that serves the keyboard is one of them, or none.
LEMMA ServerIs ==
  ASSUME ListenersTypes
  PROVE  Server \in Nat /\ (Server > 0 => Server \in Generations)
BY BoundAssumption DEF Server, ListenersTypes, Generations

\* A step that leaves the keyboard alone keeps it served, if it leaves the serving
\* thread, its hook and its registrations alone and does not tell it to quit.
LEMMA ServingKept ==
  ASSUME ListenersTypes, KeyboardIsServed,
         Lives' => Lives, spare'.deaf = spare.deaf,
         UNCHANGED <<gen, caught, knows, keys, unseen>>,
         thread'[gen] = thread[gen], hooks' \subseteq hooks,
         Lives /\ Server > 0 /\ Serves(Server) =>
           /\ thread'[Server] = "running" /\ NeverQuits(messages'[Server])
           /\ Server \in hooks => Server \in hooks'
           /\ \A c \in BoundChords : table[c] = Server => table'[c] = Server
  PROVE  KeyboardIsServed'
<1>1. Server' = Server
  BY DEF Server
<1> SUFFICES ASSUME Lives', ~spare.deaf, Server > 0 PROVE Serves(Server)'
  BY <1>1 DEF KeyboardIsServed
<1>2. Serves(Server)
  BY DEF KeyboardIsServed
<1>3. QED
  BY <1>1, <1>2 DEF Serves
-----------------------------------------------------------------------------
(* The threads.                                                             *)

\* A thread that registers its chords serves the keyboard from then on: what it
\* could not register its hook catches, and its hook is the newest.
LEMMA RegistersInv ==
  ASSUME ListenersInv, NEW g \in Generations, NEW hooking \in BOOLEAN, Registers(g, hooking)
  PROVE  ListenersInv'
<1> USE DEF ListenersInv
<1> DEFINE mine == Registrable
<1>1. /\ thread[g] = "registering" /\ Lives
      /\ table' = [c \in BoundChords |-> IF c \in mine /\ table[c] = 0 THEN g ELSE table[c]]
      /\ caught' = [caught EXCEPT ![g] = IF hooking THEN BoundChords \ mine ELSE {}]
      /\ hooks' = IF hooking THEN hooks \union {g} ELSE hooks
      /\ unseen' = IF hooking THEN keys.down ELSE unseen
      /\ thread' = [thread EXCEPT ![g] = IF ~hooking /\ mine = {} THEN "ended" ELSE "running"]
      /\ UNCHANGED <<main, gen, knows, messages, loops, touch, target, keys, lost>>
      /\ \/ spare' = spare /\ (mine = BoundChords \/ hooking)
         \/ ~hooking /\ Fails /\ spare' = [spare EXCEPT !.fails = @ - 1, !.deaf = TRUE]
  BY DEF Registers
<1>2. /\ g = gen /\ main = "hotkeys"
      /\ messages[g] = <<>> /\ knows[g] = {} /\ \A h \in hooks : h <= g
  <2>1. g = gen
    BY <1>1 DEF Progress
  <2>2. \A h \in hooks : h <= g
    BY <2>1 DEF Progress, FreshHasNothing, ListenersTypes, Generations
  <2>3. QED
    BY <1>1, <2>1, <2>2 DEF Progress, FreshHasNothing
<1>3. /\ mine \subseteq BoundChords
      /\ \A c \in mine : table[c] = 0
      /\ BoundChords # {}
  BY BoundAssumption DEF Registrable
<1> HIDE DEF mine
<1>4. /\ spare' \in [presses : Nat, fails : Nat, deaf : BOOLEAN]
      /\ spare'.deaf \/ (spare'.deaf = spare.deaf /\ (mine = BoundChords \/ hooking))
  <2>1. CASE spare' = spare /\ (mine = BoundChords \/ hooking)
    BY <2>1 DEF ListenersTypes
  <2>2. CASE Fails /\ spare' = [spare EXCEPT !.fails = @ - 1, !.deaf = TRUE]
    <3>1. spare.fails \in Nat /\ spare.fails > 0
      BY <2>2 DEF Fails, ListenersTypes
    <3>2. spare.fails - 1 \in Nat
      BY <3>1
    <3>3. QED
      BY <2>2, <3>2 DEF ListenersTypes
  <2>3. QED
    BY <1>1, <2>1, <2>2
<1>5. ListenersTypes'
  <2>1. thread' \in [Generations -> ThreadStages]
    BY <1>1 DEF ListenersTypes, ThreadStages
  <2>2. caught' \in [Generations -> SUBSET BoundChords]
    BY <1>1, <1>3 DEF ListenersTypes
  <2>3. table' \in [BoundChords -> Generations \union {0}]
    BY <1>1 DEF ListenersTypes
  <2>4. QED
    BY <1>1, <1>4, <2>1, <2>2, <2>3 DEF ListenersTypes
<1>6. /\ thread'[g] = IF ~hooking /\ mine = {} THEN "ended" ELSE "running"
      /\ \A h \in Generations \ {g} : thread'[h] = thread[h]
      /\ caught'[g] = IF hooking THEN BoundChords \ mine ELSE {}
      /\ \A c \in BoundChords : table'[c] = IF c \in mine THEN g ELSE table[c]
  BY <1>1, <1>3 DEF ListenersTypes
<1>7. FreshHasNothing'
  BY <1>1, <1>6 DEF FreshHasNothing
<1>8. Progress'
  <2>1. thread'[g] = "ended" => spare'.deaf
    BY <1>3, <1>4, <1>6
  <2>2. NeverQuits(messages'[gen'])
    BY <1>1, <1>2, EmptyOwesNothing
  <2>3. thread'[gen'] \in {"ended", "running"}
    BY <1>1, <1>2, <1>6
  <2>4. \A h \in Generations : /\ h > gen' => thread'[h] = "none"
                               /\ thread'[h] = "registering" => h = gen'
    BY <1>1, <1>2, <1>6 DEF Progress, ListenersTypes, Generations
  <2>5. QED
    BY <1>1, <1>2, <2>1, <2>2, <2>3, <2>4 DEF Progress
<1>9. DebtsArePaid'
  BY <1>1, <1>6 DEF DebtsArePaid
<1>10. KeyboardIsServed'
  <2> SUFFICES ASSUME ~spare'.deaf PROVE Serves(Server)'
    BY DEF KeyboardIsServed
  <2>1. mine = BoundChords \/ hooking
    BY <1>4
  <2>2. thread'[gen'] = "running" /\ Server' = g
    BY <1>1, <1>2, <1>3, <1>6, <2>1 DEF Server
  <2>3. NeverQuits(messages'[g])
    BY <1>1, <1>2, EmptyOwesNothing
  <2>4. \A c \in BoundChords : c \in caught'[g] \/ table'[c] = g
    BY <1>6, <2>1
  <2>5. caught'[g] # {} => /\ g \in hooks' /\ \A h \in hooks' : h <= g
                           /\ knows'[g] = keys'.down \ unseen'
    BY <1>1, <1>2, <1>6 DEF Generations
  <2> HIDE DEF ListenersInv
  <2>6. Serves(g)'
    BY <1>1, <1>2, <2>2, <2>3, <2>4, <2>5 DEF Serves
  <2>7. QED
    BY <2>2, <2>6 DEF Serves
<1>11. LoopsAreOwned' /\ NoChordIsLost'
  BY <1>1 DEF LoopsAreOwned, NoChordIsLost
<1>12. QED
  BY <1>5, <1>7, <1>8, <1>9, <1>10, <1>11

\* A thread that takes a message pays what it owes.
LEMMA HotkeyHandledInv ==
  ASSUME ListenersInv, NEW g \in Generations, HotkeyHandled(g)
  PROVE  ListenersInv'
<1> USE DEF ListenersInv
<1>1. /\ messages[g] # <<>> /\ messages' = [messages EXCEPT ![g] = Tail(@)]
      /\ UNCHANGED <<main, gen, thread, caught, knows, loops, touch, systemVars, unseen, lost, spare>>
      /\ thread[g] = "running"
  BY DEF HotkeyHandled
<1>2. /\ messages'[g] = Tail(messages[g]) /\ messages[g] \in Seq(Message)
      /\ \A h \in Generations \ {g} : messages'[h] = messages[h]
  BY <1>1 DEF ListenersTypes
<1>3. /\ Tail(messages[g]) \in Seq(Message)
      /\ NeverQuits(messages[g]) => NeverQuits(Tail(messages[g]))
      /\ OwesBeforeQuit(messages[g]) => OwesBeforeQuit(Tail(messages[g]))
  BY <1>1, <1>2, TakeKeeps
<1>4. ListenersTypes'
  <2>1. messages' \in [Generations -> Seq(Message)]
    BY <1>1, <1>3 DEF ListenersTypes
  <2>2. QED
    BY <1>1, <2>1 DEF ListenersTypes, systemVars
<1>5. \A h \in Generations : /\ NeverQuits(messages[h]) => NeverQuits(messages'[h])
                             /\ OwesBeforeQuit(messages[h]) => OwesBeforeQuit(messages'[h])
  BY <1>2, <1>3
<1>6. FreshHasNothing'
  BY <1>1, <1>2 DEF FreshHasNothing, systemVars
<1>7. Progress'
  BY <1>1, <1>5 DEF Progress, ListenersTypes, Lives
<1>8. DebtsArePaid'
  BY <1>1, <1>2, <1>5 DEF DebtsArePaid
<1>9. KeyboardIsServed'
  <2>1. Server > 0 /\ Serves(Server) => NeverQuits(messages'[Server])
    BY <1>5, ServerIs DEF Serves
  <2>2. QED
    BY <1>1, <2>1, ServingKept DEF Serves, Lives, systemVars
<1>10. LoopsAreOwned' /\ NoChordIsLost'
  BY <1>1 DEF LoopsAreOwned, NoChordIsLost, systemVars
<1>11. QED
  BY <1>4, <1>6, <1>7, <1>8, <1>9, <1>10

\* A thread that quits owes nothing any more, and it is not the one that serves.
LEMMA QuitHandledInv ==
  ASSUME ListenersInv, NEW g \in Generations, QuitHandled(g)
  PROVE  ListenersInv'
<1> USE DEF ListenersInv
<1>1. /\ thread[g] = "running" /\ messages[g] # <<>> /\ Head(messages[g]) = Quit
      /\ messages' = [messages EXCEPT ![g] = Tail(@)]
      /\ thread' = [thread EXCEPT ![g] = "unhooking"]
      /\ UNCHANGED <<main, gen, caught, knows, loops, touch, systemVars, unseen, lost, spare>>
  BY DEF QuitHandled
<1>2. /\ messages'[g] = Tail(messages[g]) /\ messages[g] \in Seq(Message)
      /\ thread'[g] = "unhooking"
      /\ \A h \in Generations \ {g} : messages'[h] = messages[h] /\ thread'[h] = thread[h]
  BY <1>1 DEF ListenersTypes
<1>3. /\ Tail(messages[g]) \in Seq(Message) /\ ~NeverQuits(messages[g])
      /\ OwesBeforeQuit(messages[g]) =>
           OwesBeforeQuit(Tail(messages[g])) /\ OwesNothing(Tail(messages[g]))
  BY <1>1, <1>2, TakeKeeps
<1>4. ListenersTypes'
  <2>1. messages' \in [Generations -> Seq(Message)]
    BY <1>1, <1>3 DEF ListenersTypes
  <2>2. thread' \in [Generations -> ThreadStages]
    BY <1>1 DEF ListenersTypes, ThreadStages
  <2>3. QED
    BY <1>1, <2>1, <2>2 DEF ListenersTypes, systemVars
<1>5. Lives => g # gen
  BY <1>3 DEF Progress
<1>6. FreshHasNothing'
  BY <1>1, <1>2 DEF FreshHasNothing, systemVars
<1>7. Progress'
  BY <1>1, <1>2, <1>5 DEF Progress, ListenersTypes, Lives
<1>8. DebtsArePaid'
  BY <1>1, <1>2, <1>3 DEF DebtsArePaid
<1>9. KeyboardIsServed'
  <2>1. Serves(g) => FALSE
    BY <1>3 DEF Serves
  <2>2. Lives /\ Server > 0 /\ Serves(Server) => Server \in Generations \ {g} /\ gen \in Generations \ {g}
    BY <1>5, <2>1, ServerIs DEF ListenersTypes
  <2>3. CASE Lives /\ Server > 0 /\ Serves(Server)
    <3>1. thread'[gen] = thread[gen] /\ thread'[Server] = "running" /\ NeverQuits(messages'[Server])
      BY <1>2, <2>2, <2>3 DEF Serves
    <3>2. QED
      BY <1>1, <3>1, ServingKept DEF Lives, systemVars
  <2>4. CASE ~(Lives /\ Server > 0 /\ Serves(Server))
    <3>1. Lives => Server' = Server
      BY <1>1, <1>2, <1>5 DEF Server, ListenersTypes
    <3>2. QED
      BY <1>1, <2>4, <3>1 DEF KeyboardIsServed, Lives, systemVars
  <2>5. QED
    BY <2>3, <2>4
<1>10. LoopsAreOwned' /\ NoChordIsLost'
  BY <1>1 DEF LoopsAreOwned, NoChordIsLost, systemVars
<1>11. QED
  BY <1>4, <1>6, <1>7, <1>8, <1>9, <1>10

\* A thread that ends takes its hook with it, and the loops of that hook.
LEMMA UnhooksInv ==
  ASSUME ListenersInv, NEW g \in Generations, Unhooks(g)
  PROVE  ListenersInv'
<1> USE DEF ListenersInv
<1>1. /\ thread[g] = "unhooking"
      /\ hooks' = hooks \ {g} /\ loops' = {l \in loops : l.gen # g}
      /\ thread' = [thread EXCEPT ![g] = "unregistering"]
      /\ UNCHANGED <<main, gen, caught, knows, messages, touch, table, target, keys, unseen, lost, spare>>
  BY DEF Unhooks
<1>2. /\ thread'[g] = "unregistering"
      /\ \A h \in Generations \ {g} : thread'[h] = thread[h]
  BY <1>1 DEF ListenersTypes
<1>3. ListenersTypes'
  <2>1. thread' \in [Generations -> ThreadStages]
    BY <1>1 DEF ListenersTypes, ThreadStages
  <2>2. QED
    BY <1>1, <2>1 DEF ListenersTypes
<1>4. Lives => g # gen
  BY <1>1 DEF Progress
<1>5. FreshHasNothing' /\ DebtsArePaid'
  BY <1>1, <1>2 DEF FreshHasNothing, DebtsArePaid
<1>6. Progress'
  BY <1>1, <1>2, <1>4 DEF Progress, ListenersTypes, Lives
<1>7. KeyboardIsServed'
  <2>1. CASE Lives
    <3>1. thread'[gen] = thread[gen]
      BY <1>2, <1>4, <2>1 DEF ListenersTypes
    <3>2. Server > 0 /\ Serves(Server) => /\ thread'[Server] = "running"
                                          /\ Server \in hooks => Server \in hooks'
      BY <1>1, <1>2, ServerIs DEF Serves
    <3>3. Serves(Server) => NeverQuits(messages'[Server])
      BY <1>1 DEF Serves
    <3>4. QED
      BY <1>1, <3>1, <3>2, <3>3, ServingKept DEF Lives
  <2>2. CASE ~Lives
    BY <1>1, <2>2 DEF KeyboardIsServed, Lives
  <2>3. QED
    BY <2>1, <2>2
<1>8. LoopsAreOwned' /\ NoChordIsLost'
  BY <1>1 DEF LoopsAreOwned, NoChordIsLost
<1>9. QED
  BY <1>3, <1>5, <1>6, <1>7, <1>8

\* A thread that ends gives up its registrations, and nothing is lost with it.
LEMMA UnregistersInv ==
  ASSUME ListenersInv, NEW g \in Generations, Unregisters(g)
  PROVE  ListenersInv'
<1> USE DEF ListenersInv
<1>1. /\ thread[g] = "unregistering"
      /\ table' = [c \in BoundChords |-> IF table[c] = g THEN 0 ELSE table[c]]
      /\ thread' = [thread EXCEPT ![g] = "ended"]
      /\ lost' = lost \union {c \in BoundChords : \E i \in DOMAIN messages[g] : messages[g][i] = <<c, TRUE>>}
      /\ messages' = [messages EXCEPT ![g] = <<>>]
      /\ UNCHANGED <<main, gen, caught, knows, loops, touch, hooks, target, keys, unseen, spare>>
  BY DEF Unregisters
<1>2. /\ thread'[g] = "ended" /\ messages'[g] = <<>>
      /\ \A h \in Generations \ {g} : thread'[h] = thread[h] /\ messages'[h] = messages[h]
      /\ \A c \in BoundChords : table'[c] = IF table[c] = g THEN 0 ELSE table[c]
  BY <1>1 DEF ListenersTypes
<1>3. ListenersTypes'
  <2>1. thread' \in [Generations -> ThreadStages]
    BY <1>1 DEF ListenersTypes, ThreadStages
  <2>2. messages' \in [Generations -> Seq(Message)]
    BY <1>1, EmptyOwesNothing DEF ListenersTypes
  <2>3. table' \in [BoundChords -> Generations \union {0}]
    BY <1>1 DEF ListenersTypes
  <2>4. QED
    BY <1>1, <2>1, <2>2, <2>3 DEF ListenersTypes
<1>4. Lives => g # gen
  BY <1>1 DEF Progress
<1>5. FreshHasNothing'
  BY <1>1, <1>2 DEF FreshHasNothing, Generations
<1>6. Progress'
  BY <1>1, <1>2, <1>4 DEF Progress, ListenersTypes, Lives
<1>7. DebtsArePaid'
  BY <1>2, EmptyOwesNothing DEF DebtsArePaid
<1>8. KeyboardIsServed'
  <2>1. CASE Lives
    <3>1. thread'[gen] = thread[gen]
      BY <1>2, <1>4, <2>1 DEF ListenersTypes
    <3>2. Server > 0 /\ Serves(Server) =>
            /\ thread'[Server] = "running" /\ NeverQuits(messages'[Server])
            /\ \A c \in BoundChords : table[c] = Server => table'[c] = Server
      BY <1>1, <1>2, ServerIs DEF Serves
    <3>3. QED
      BY <1>1, <3>1, <3>2, ServingKept DEF Lives
  <2>2. CASE ~Lives
    BY <1>1, <2>2 DEF KeyboardIsServed, Lives
  <2>3. QED
    BY <2>1, <2>2
<1>9. LoopsAreOwned'
  BY <1>1 DEF LoopsAreOwned
<1>10. NoChordIsLost'
  BY <1>1 DEF NoChordIsLost, DebtsArePaid, OwesNothing, Due
<1>11. QED
  BY <1>3, <1>5, <1>6, <1>7, <1>8, <1>9, <1>10
-----------------------------------------------------------------------------
(* The main loop.                                                           *)

\* What the main loop does leaves the threads, the hooks and the keyboard alone.
LEMMA MainStepInv ==
  ASSUME ListenersInv, main' \in MainStages, Lives' => Lives,
         UNCHANGED <<gen, thread, table, hooks, caught, knows, messages, loops, keys, unseen, lost>>,
         spare' \in [presses : Nat, fails : Nat, deaf : BOOLEAN], spare'.deaf = spare.deaf,
         Lives' /\ main' # "hotkeys" => thread[gen] = "running"
  PROVE  ListenersInv'
<1> USE DEF ListenersInv
<1>1. ListenersTypes' /\ FreshHasNothing' /\ DebtsArePaid' /\ LoopsAreOwned' /\ NoChordIsLost'
  BY DEF ListenersTypes, FreshHasNothing, DebtsArePaid, LoopsAreOwned, NoChordIsLost
<1>2. Progress'
  BY DEF Progress, Lives
<1>3. KeyboardIsServed'
  BY ServingKept DEF Serves
<1>4. QED
  BY <1>1, <1>2, <1>3

\* Starting the listeners: the daemon goes on only with a thread that runs.
LEMMA StartsInv ==
  ASSUME ListenersInv,
         \/ HotkeysStarted \/ TouchpadDropped
         \/ \E enabled, bindings, setting : TouchpadStarted(enabled, bindings, setting)
  PROVE  ListenersInv'
<1>1. spare' = spare \/ (Fails /\ spare' = [spare EXCEPT !.fails = @ - 1])
  BY DEF HotkeysStarted, TouchpadDropped, TouchpadStarted
<1>2. spare' \in [presses : Nat, fails : Nat, deaf : BOOLEAN] /\ spare'.deaf = spare.deaf
  <2>1. spare \in [presses : Nat, fails : Nat, deaf : BOOLEAN]
    BY DEF ListenersInv, ListenersTypes
  <2>2. Fails => spare.fails - 1 \in Nat
    BY <2>1 DEF Fails
  <2>3. QED
    BY <1>1, <2>1, <2>2
<1>3. /\ UNCHANGED <<gen, thread, table, hooks, caught, knows, messages, loops, keys, unseen, lost>>
      /\ main \in {"hotkeys", "touchpad", "dropping"}
      /\ main' \in {"touchpad", "dropping", "looping", "exited"}
      /\ main = "hotkeys" /\ main' # "exited" => thread[gen] = "running"
  BY DEF HotkeysStarted, TouchpadDropped, TouchpadStarted, threadVars, systemVars
<1>4. main # "hotkeys" => thread[gen] = "running"
  BY <1>3 DEF ListenersInv, Progress, Lives
<1>5. QED
  BY <1>2, <1>3, <1>4, MainStepInv DEF MainStages, Lives

\* Only older generations are told to quit, behind what they still owe.
LEMMA HotkeysDroppedInv ==
  ASSUME ListenersInv, HotkeysDropped
  PROVE  ListenersInv'
<1> USE DEF ListenersInv
<1>1. PICK g \in Generations \ {gen} :
        /\ thread[g] = "running" /\ \A i \in DOMAIN messages[g] : messages[g][i] # Quit
        /\ messages' = [messages EXCEPT ![g] = Append(@, Quit)]
  BY DEF HotkeysDropped
<1>2. /\ main = "dropping"
      /\ UNCHANGED <<main, gen, thread, caught, knows, loops, touch, systemVars, unseen, lost, spare>>
  BY DEF HotkeysDropped
<1>3. messages[g] \in Seq(Message) /\ Quit \in Message /\ NeverQuits(messages[g])
  BY <1>1 DEF ListenersTypes, Message, NeverQuits
<1>4. Append(messages[g], Quit) \in Seq(Message) /\ OwesBeforeQuit(Append(messages[g], Quit))
  BY <1>3, SendKeeps
<1>5. /\ messages'[g] = Append(messages[g], Quit)
      /\ \A h \in Generations \ {g} : messages'[h] = messages[h]
  BY <1>1 DEF ListenersTypes
<1>6. ListenersTypes'
  <2>1. messages' \in [Generations -> Seq(Message)]
    BY <1>1, <1>4 DEF ListenersTypes
  <2>2. QED
    BY <1>2, <2>1 DEF ListenersTypes, systemVars
<1>7. FreshHasNothing'
  BY <1>1, <1>2, <1>5 DEF FreshHasNothing, systemVars
<1>8. Progress'
  BY <1>2, <1>5, <1>1 DEF Progress, ListenersTypes, Lives
<1>9. DebtsArePaid'
  BY <1>1, <1>2, <1>4, <1>5 DEF DebtsArePaid
<1>10. KeyboardIsServed'
  <2>1. Server = gen
    BY <1>2 DEF Server, Progress, Lives
  <2>2. Serves(Server) => NeverQuits(messages'[Server])
    BY <1>5, <2>1 DEF Serves, ListenersTypes
  <2>3. QED
    BY <1>2, <2>2, ServingKept DEF Serves, Lives, systemVars
<1>11. LoopsAreOwned' /\ NoChordIsLost'
  BY <1>2 DEF LoopsAreOwned, NoChordIsLost, systemVars
<1>12. QED
  BY <1>6, <1>7, <1>8, <1>9, <1>10, <1>11

\* A reload starts a generation, and the one before it serves until it has registered.
LEMMA ReloadsInv ==
  ASSUME ListenersInv, Reloads
  PROVE  ListenersInv'
<1> USE DEF ListenersInv
<1>1. /\ main = "looping" /\ gen < MaxGen /\ main' = "hotkeys" /\ gen' = gen + 1
      /\ thread' = [thread EXCEPT ![gen + 1] = "registering"]
      /\ UNCHANGED <<caught, knows, messages, loops, touch, systemVars, unseen, lost, spare>>
  BY DEF Reloads
<1>2. /\ gen \in Generations /\ gen' \in Generations /\ gen # gen'
      /\ gen \in Nat /\ gen' > gen /\ gen' - 1 = gen
  BY <1>1, BoundAssumption DEF ListenersTypes, Generations
<1>3. thread[gen] = "running" /\ thread[gen'] = "none"
  BY <1>1, <1>2 DEF Progress, Lives
<1>4. /\ thread'[gen'] = "registering" /\ thread'[gen] = "running"
      /\ \A h \in Generations \ {gen'} : thread'[h] = thread[h]
  BY <1>1, <1>2, <1>3 DEF ListenersTypes
<1>5. ListenersTypes'
  <2>1. thread' \in [Generations -> ThreadStages]
    BY <1>1 DEF ListenersTypes, ThreadStages
  <2>2. QED
    BY <1>1, <1>2, <2>1 DEF ListenersTypes, systemVars, MainStages
<1>6. FreshHasNothing'
  BY <1>1, <1>3, <1>4 DEF FreshHasNothing, systemVars
<1>7. messages'[gen'] = <<>>
  BY <1>1, <1>2, <1>3 DEF FreshHasNothing
<1>8. Progress'
  <2>1. \A h \in Generations : /\ h > gen' => thread'[h] = "none"
                               /\ thread'[h] = "registering" => h = gen'
    <3> SUFFICES ASSUME NEW h \in Generations
                 PROVE  /\ h > gen' => thread'[h] = "none"
                        /\ thread'[h] = "registering" => h = gen'
      OBVIOUS
    <3>1. h \in Nat
      BY BoundAssumption DEF Generations
    <3>2. CASE h = gen'
      BY <1>2, <3>2
    <3>3. CASE h # gen'
      <4>1. thread'[h] = thread[h]
        BY <1>4, <3>3
      <4>2. h > gen' => h > gen
        BY <1>1, <1>2, <3>1
      <4>3. thread[h] # "registering"
        BY <1>3 DEF Progress
      <4>4. QED
        BY <4>1, <4>2, <4>3 DEF Progress
    <3>4. QED
      BY <3>2, <3>3
  <2>2. QED
    BY <1>1, <1>4, <1>7, <2>1, EmptyOwesNothing DEF Progress
<1>9. DebtsArePaid'
  BY <1>1, <1>4 DEF DebtsArePaid
<1>10. KeyboardIsServed'
  <2>1. Server = gen /\ Server' = gen
    BY <1>1, <1>2, <1>3, <1>4 DEF Server
  <2>2. ~spare.deaf /\ gen > 0 => Serves(gen)
    BY <1>1, <2>1 DEF KeyboardIsServed, Lives
  <2>3. Serves(gen) => /\ thread'[gen] = "running" /\ NeverQuits(messages'[gen])
                       /\ \A c \in BoundChords : c \in caught'[gen] \/ table'[c] = gen
                       /\ caught'[gen] # {} => /\ gen \in hooks' /\ \A h \in hooks' : h <= gen
                                               /\ knows'[gen] = keys'.down \ unseen'
    BY <1>1, <1>4 DEF Serves, systemVars
  <2>4. QED
    BY <1>1, <2>1, <2>2, <2>3 DEF KeyboardIsServed, Serves, systemVars
<1>11. LoopsAreOwned' /\ NoChordIsLost'
  BY <1>1 DEF LoopsAreOwned, NoChordIsLost, systemVars
<1>12. QED
  BY <1>5, <1>6, <1>8, <1>9, <1>10, <1>11
-----------------------------------------------------------------------------
(* The keyboard.                                                            *)

\* Pressing a key spends one press.
LEMMA PressSpent ==
  ASSUME ListenersTypes, Pressing
  PROVE  /\ spare' \in [presses : Nat, fails : Nat, deaf : BOOLEAN]
         /\ spare'.deaf = spare.deaf /\ Lives
<1>1. spare.presses - 1 \in Nat
  BY DEF ListenersTypes, Pressing
<1>2. QED
  BY <1>1 DEF ListenersTypes, Pressing

\* Of two hooks one is newer.
LEMMA HooksInOrder ==
  ASSUME NEW S \in SUBSET Generations, hooks = S
  PROVE  /\ \A h, i \in hooks : h = i \/ h \in Newer(i) \/ i \in Newer(h)
         /\ \A h \in hooks : (\A i \in hooks : i <= h) <=> Newer(h) = {}
         /\ \A h \in hooks : Newer(h) \subseteq hooks /\ h \notin Newer(h)
<1>1. \A h \in hooks : h \in Nat
  BY BoundAssumption DEF Generations
<1>2. \A h, i \in hooks : h \in Newer(i) <=> h > i
  BY DEF Newer
<1>3. \A h : Newer(h) \subseteq hooks
  BY DEF Newer
<1>4. \A h \in hooks : (\A i \in hooks : i <= h) <=> Newer(h) = {}
  <2> TAKE h \in hooks
  <2>1. \A i \in hooks : i <= h <=> i \notin Newer(h)
    BY <1>1, <1>2
  <2>2. QED
    BY <1>3, <2>1
<1>5. QED
  BY <1>1, <1>2, <1>3, <1>4

\* A modifier that goes down or up reaches the hook that serves.
LEMMA ModifiersInv ==
  ASSUME ListenersInv, NEW m \in Mods, ModifierPressed(m) \/ ModifierReleased(m)
  PROVE  ListenersInv'
<1> USE DEF ListenersInv
<1>1. /\ UNCHANGED <<main, gen, thread, caught, messages, touch, table, hooks, target, lost>>
      /\ loops' \subseteq loops /\ keys'.held = keys.held
  BY DEF ModifierPressed, ModifierReleased, ListenersTypes
<1>2. spare' \in [presses : Nat, fails : Nat, deaf : BOOLEAN] /\ spare'.deaf = spare.deaf
  BY PressSpent DEF ModifierPressed, ModifierReleased, ListenersTypes
<1>3. /\ knows' \in [Generations -> SUBSET Mods]
      /\ \A g \in Generations : knows[g] = {} /\ g \notin hooks => knows'[g] = {}
  <2>1. \/ knows' = [g \in Generations |-> IF g \in Told(m) THEN knows[g] \union {m} ELSE knows[g]]
        \/ knows' = [g \in Generations |-> IF g \in ToldRelease THEN knows[g] \ {m} ELSE knows[g]]
    BY DEF ModifierPressed, ModifierReleased
  <2>2. Told(m) \subseteq hooks
    BY DEF Told
  <2>3. \A g \in Generations : knows[g] = {} /\ g \notin hooks => knows'[g] = {}
    BY <2>1, <2>2 DEF ListenersTypes
  <2>4. knows' \in [Generations -> SUBSET Mods]
    <3>1. CASE knows' = [g \in Generations |-> IF g \in Told(m) THEN knows[g] \union {m} ELSE knows[g]]
      BY <3>1 DEF ListenersTypes
    <3>2. CASE knows' = [g \in Generations |-> IF g \in ToldRelease THEN knows[g] \ {m} ELSE knows[g]]
      BY <3>2 DEF ListenersTypes
    <3>3. QED
      BY <2>1, <3>1, <3>2
  <2>5. QED
    BY <2>3, <2>4
<1>4. /\ keys' \in [down : SUBSET Mods, held : SUBSET BoundChords]
      /\ unseen' \subseteq keys'.down
  <2>1. CASE ModifierPressed(m)
    <3>1. keys' = [keys EXCEPT !.down = @ \union {m}] /\ unseen' = unseen
      BY <2>1 DEF ModifierPressed
    <3>2. QED
      BY <3>1 DEF ListenersTypes
  <2>2. CASE ModifierReleased(m)
    <3>1. keys' = [keys EXCEPT !.down = @ \ {m}] /\ unseen' = unseen \ {m}
      BY <2>2 DEF ModifierReleased
    <3>2. QED
      BY <3>1 DEF ListenersTypes
  <2>3. QED
    BY <2>1, <2>2
<1>5. ListenersTypes'
  BY <1>1, <1>2, <1>3, <1>4 DEF ListenersTypes
<1>6. FreshHasNothing' /\ Progress' /\ DebtsArePaid'
  BY <1>1, <1>2, <1>3 DEF FreshHasNothing, Progress, DebtsArePaid, Lives
<1>7. \A g \in Generations : g \in hooks /\ (\A h \in hooks : h <= g) /\ knows[g] = keys.down \ unseen
        => knows'[g] = keys'.down \ unseen'
  <2> SUFFICES ASSUME NEW g \in Generations, g \in hooks, \A h \in hooks : h <= g,
                      knows[g] = keys.down \ unseen
               PROVE  knows'[g] = keys'.down \ unseen'
    OBVIOUS
  <2>1. CASE ModifierPressed(m)
    <3>1. g \in Told(m)
      BY HooksInOrder DEF Told, ListenersTypes
    <3>2. QED
      BY <2>1, <3>1 DEF ModifierPressed, ListenersTypes
  <2>2. CASE ModifierReleased(m)
    <3>1. g \in ToldRelease
      BY HooksInOrder DEF ToldRelease, ListenersTypes
    <3>2. QED
      BY <2>2, <3>1 DEF ModifierReleased, ListenersTypes
  <2>3. QED
    BY <2>1, <2>2
<1>8. KeyboardIsServed'
  <2>1. Server' = Server
    BY <1>1 DEF Server
  <2> SUFFICES ASSUME Lives, ~spare.deaf, Server > 0 PROVE Serves(Server)'
    BY <1>1, <1>2, <2>1 DEF KeyboardIsServed, Lives
  <2>2. Serves(Server) /\ Server \in Generations
    BY ServerIs DEF KeyboardIsServed
  <2>3. QED
    BY <1>1, <1>7, <2>1, <2>2 DEF Serves
<1>9. LoopsAreOwned' /\ NoChordIsLost'
  BY <1>1 DEF LoopsAreOwned, NoChordIsLost
<1>10. QED
  BY <1>5, <1>6, <1>8, <1>9

\* One hook at most is the first to stop a key.
LEMMA FirstIsOne ==
  ASSUME ListenersTypes, NEW c \in BoundChords, NEW h \in hooks, NEW i \in hooks,
         FirstToStop(h, c), FirstToStop(i, c)
  PROVE  h = i
BY HooksInOrder DEF FirstToStop, ListenersTypes

\* A press of a chord that everybody is informed of and no hook takes reaches the system
\* with its modifiers, and is registered by the generation that serves.
LEMMA ChordIsTaken ==
  ASSUME ListenersInv, PrefixInv, NEW c \in BoundChords, Lives, c.mods = keys.down, Informed(c),
         table[c] # 0 \/ gen > 1 \/ main # "hotkeys",
         \A h \in hooks : FirstToStop(h, c) => ~Takes(h, c)
  PROVE  /\ table[c] \in Generations /\ NeverQuits(messages[table[c]]) /\ thread[table[c]] = "running"
         /\ (\A h \in hooks : ~Stops(h, c)) => passed = c.mods
         /\ \A h \in hooks : FirstToStop(h, c) => passed \union knows[h] = c.mods
<1> USE DEF ListenersInv
<1>1. ~spare.deaf /\ c.mods \intersect unseen = {}
  BY DEF Informed
<1>2. Server > 0
  <2>1. CASE thread[gen] = "running"
    BY <2>1, BoundAssumption DEF Server, ListenersTypes, Generations
  <2>2. CASE thread[gen] = "registering"
    <3>1. main = "hotkeys"
      BY <1>1, <2>2 DEF Progress
    <3>2. gen # 1
      <4>1. gen = 1 => table[c] # 0
        BY <3>1
      <4>2. table[c] # 0 => table[c] \in Generations /\ table[c] # gen /\ table[c] <= gen
        BY <2>2, BoundAssumption DEF FreshHasNothing, Progress, ListenersTypes, Generations
      <4>3. QED
        BY <4>1, <4>2, BoundAssumption DEF Generations
    <3>3. QED
      BY <2>2, <3>2, BoundAssumption DEF Server, ListenersTypes, Generations
  <2>3. QED
    BY <1>1, <2>1, <2>2 DEF Progress
<1>3. Serves(Server) /\ Server \in Generations
  BY <1>1, <1>2, ServerIs DEF KeyboardIsServed
<1>4. caught[Server] # {} => /\ Server \in hooks /\ Newer(Server) = {} /\ knows[Server] = c.mods
                            /\ \A h \in hooks : Newer(h) = {} => h = Server
  <2>1. hooks \subseteq Generations
    BY DEF ListenersTypes
  <2>2. caught[Server] # {} => /\ Server \in hooks /\ Newer(Server) = {}
                              /\ knows[Server] = keys.down \ unseen
    BY <1>3, <2>1, HooksInOrder DEF Serves
  <2>3. \A h \in hooks : Server \in hooks /\ Newer(Server) = {} /\ Newer(h) = {} => h = Server
    BY <2>1, HooksInOrder
  <2>4. QED
    BY <1>1, <2>2, <2>3
<1>5. c \notin caught[Server]
  <2> SUFFICES ASSUME c \in caught[Server] PROVE FALSE
    OBVIOUS
  <2>1. Server \in hooks /\ Newer(Server) = {} /\ knows[Server] = c.mods
    BY <1>4
  <2>2. FirstToStop(Server, c) /\ Takes(Server, c)
    BY <2>1 DEF FirstToStop, Stops, Takes
  <2>3. QED
    BY <2>1, <2>2
<1>6. table[c] = Server
  BY <1>3, <1>5 DEF Serves
<1>7. Shown
  BY <1>2, <1>6 DEF Informed
<1>8. ASSUME NEW h \in hooks, FirstToStop(h, c)
      PROVE  passed \union knows[h] = c.mods
  <2>1. h \in waits
    BY <1>8 DEF FirstToStop, Stops
  <2>2. PICK f \in BoundChords : Forced(f)
    BY <2>1 DEF PrefixInv
  <2>3. f \in caught[Server]
    BY <1>2, <1>3, <2>2 DEF PrefixInv, Serves
  <2>4. passed \subseteq keys.down /\ Newer(h) = {}
    BY <1>7, <2>1 DEF Shown, PrefixInv
  <2>5. QED
    BY <1>4, <2>3, <2>4
<1>9. (\A h \in hooks : ~Stops(h, c)) => passed = c.mods
  BY <1>7 DEF Stops, Shown, PrefixInv
<1>10. QED
  BY <1>3, <1>6, <1>8, <1>9 DEF Serves

\* No press is lost, and what is owed for it stands before the thread is told to quit.
LEMMA ChordPressedInv ==
  ASSUME ListenersInv, PrefixInv, NEW c \in BoundChords, ChordPressed(c)
  PROVE  ListenersInv'
<1> USE DEF ListenersInv
<1>1. /\ UNCHANGED <<main, gen, thread, caught, knows, touch, table, hooks, target, unseen>>
      /\ keys.held = {} /\ keys' = [keys EXCEPT !.held = {c}]
      /\ c.mods = keys.down
  BY DEF ChordPressed
<1>2. spare' \in [presses : Nat, fails : Nat, deaf : BOOLEAN] /\ spare'.deaf = spare.deaf /\ Lives
  BY PressSpent DEF ChordPressed
<1>3. keys' \in [down : SUBSET Mods, held : SUBSET BoundChords] /\ keys'.down = keys.down
      /\ keys'.held = {c}
  BY <1>1 DEF ListenersTypes
<1>4. loops = {}
  BY <1>1 DEF LoopsAreOwned
<1>5. LoopsAreOwned'
  <2>1. \A l \in loops' : l.gen \in hooks /\ l.chord = c
    <3>1. loops' = loops \/ \E h \in hooks : loops' = loops \union {[gen |-> h, chord |-> c]}
      BY DEF ChordPressed, ChordTaken, ChordReplayed, ChordPassedOn
    <3>2. QED
      BY <1>4, <3>1
  <2>2. QED
    BY <1>1, <1>3, <2>1 DEF LoopsAreOwned
<1>6. \/ UNCHANGED <<messages, lost>>
      \/ /\ \A h \in hooks : FirstToStop(h, c) => ~Takes(h, c)
         /\ \E mods \in {passed} \union {passed \union knows[h] : h \in hooks} :
              /\ SystemHears(c, mods)
              /\ \/ mods = passed /\ \A h \in hooks : ~Stops(h, c)
                 \/ \E h \in hooks : FirstToStop(h, c) /\ mods = passed \union knows[h]
  <2>1. CASE \E h \in hooks : ChordTaken(h, c)
    BY <2>1 DEF ChordTaken
  <2>2. CASE \E h \in hooks : ChordReplayed(h, c)
    <3>1. PICK h \in hooks : ChordReplayed(h, c)
      BY <2>2
    <3>2. FirstToStop(h, c) /\ ~Takes(h, c) /\ SystemHears(c, passed \union knows[h])
      BY <3>1 DEF ChordReplayed
    <3>3. \A i \in hooks : FirstToStop(i, c) => ~Takes(i, c)
      BY <3>2, FirstIsOne
    <3>4. QED
      BY <3>2, <3>3
  <2>3. CASE ChordPassedOn(c)
    BY <2>3 DEF ChordPassedOn, FirstToStop
  <2>4. QED
    BY <2>1, <2>2, <2>3 DEF ChordPressed
<1>7. /\ NoChordIsLost'
      /\ \/ messages' = messages
         \/ /\ table[c] # 0
            /\ Informed(c) => NeverQuits(messages[table[c]]) /\ thread[table[c]] = "running"
            /\ messages' = [messages EXCEPT ![table[c]] = Append(@, <<c, Informed(c)>>)]
  <2>1. CASE UNCHANGED <<messages, lost>>
    BY <2>1 DEF NoChordIsLost
  <2>2. ASSUME NEW mods, SystemHears(c, mods),
               \A h \in hooks : FirstToStop(h, c) => ~Takes(h, c),
               \/ mods = passed /\ \A h \in hooks : ~Stops(h, c)
               \/ \E h \in hooks : FirstToStop(h, c) /\ mods = passed \union knows[h]
        PROVE  /\ NoChordIsLost'
               /\ \/ messages' = messages
                  \/ /\ table[c] # 0
                     /\ Informed(c) => NeverQuits(messages[table[c]]) /\ thread[table[c]] = "running"
                     /\ messages' = [messages EXCEPT ![table[c]] = Append(@, <<c, Informed(c)>>)]
    <3>1. Informed(c) /\ (table[c] # 0 \/ gen > 1 \/ main # "hotkeys")
            => /\ mods = c.mods /\ table[c] # 0
               /\ NeverQuits(messages[table[c]]) /\ thread[table[c]] = "running"
      <4> SUFFICES ASSUME Informed(c), table[c] # 0 \/ gen > 1 \/ main # "hotkeys"
                   PROVE  /\ mods = c.mods /\ table[c] # 0
                          /\ NeverQuits(messages[table[c]]) /\ thread[table[c]] = "running"
        OBVIOUS
      <4>1. /\ table[c] \in Generations /\ NeverQuits(messages[table[c]]) /\ thread[table[c]] = "running"
            /\ (\A h \in hooks : ~Stops(h, c)) => passed = c.mods
            /\ \A h \in hooks : FirstToStop(h, c) => passed \union knows[h] = c.mods
        BY <1>1, <1>2, <2>2, ChordIsTaken
      <4>2. mods = c.mods
        BY <2>2, <4>1
      <4>3. table[c] # 0
        BY <4>1, BoundAssumption DEF Generations
      <4>4. QED
        BY <4>1, <4>2, <4>3
    <3>2. QED
      BY <2>2, <3>1 DEF SystemHears, NoChordIsLost
  <2>3. QED
    BY <1>6, <2>1, <2>2
<1>8. /\ messages' \in [Generations -> Seq(Message)]
      /\ \A g \in Generations :
           /\ thread[g] \in {"none", "registering"} => messages'[g] = messages[g]
           /\ NeverQuits(messages[g]) => NeverQuits(messages'[g])
           /\ OwesBeforeQuit(messages[g]) => OwesBeforeQuit(messages'[g])
           /\ OwesNothing(messages[g]) /\ thread[g] # "running" => OwesNothing(messages'[g])
  <2>1. CASE messages' = messages
    BY <2>1 DEF ListenersTypes
  <2>2. CASE /\ table[c] # 0
             /\ Informed(c) => NeverQuits(messages[table[c]]) /\ thread[table[c]] = "running"
             /\ messages' = [messages EXCEPT ![table[c]] = Append(@, <<c, Informed(c)>>)]
    <3> DEFINE to == table[c]
               message == <<c, Informed(c)>>
    <3>1. to \in Generations /\ messages[to] \in Seq(Message)
      BY <2>2 DEF ListenersTypes
    <3>2. message \in Message /\ message # Quit
      <4>1. Informed(c) \in BOOLEAN
        BY DEF Informed
      <4>2. QED
        BY <4>1 DEF Message, Quit
    <3>3. Due(message) => Informed(c)
      BY DEF Due
    <3>4. Due(message) => NeverQuits(messages[to]) /\ thread[to] = "running"
      BY <2>2, <3>3
    <3>5. messages'[to] = Append(messages[to], message)
          /\ \A g \in Generations \ {to} : messages'[g] = messages[g]
      BY <2>2, <3>1 DEF ListenersTypes
    <3>6. messages' = [messages EXCEPT ![to] = Append(messages[to], message)]
      BY <2>2
    <3>7. thread[to] \notin {"none", "registering"}
      BY <3>1 DEF FreshHasNothing
    <3> HIDE DEF message, to
    <3>8. /\ Append(messages[to], message) \in Seq(Message)
          /\ NeverQuits(messages[to]) => NeverQuits(messages'[to])
          /\ OwesBeforeQuit(messages[to]) => OwesBeforeQuit(messages'[to])
          /\ OwesNothing(messages[to]) /\ thread[to] # "running" => OwesNothing(messages'[to])
      BY <3>1, <3>2, <3>4, <3>5, SendKeeps
    <3>9. messages' \in [Generations -> Seq(Message)]
      BY <3>1, <3>6, <3>8 DEF ListenersTypes
    <3>10. QED
      BY <3>5, <3>7, <3>8, <3>9
  <2>3. QED
    BY <1>7, <2>1, <2>2
<1>9. ListenersTypes'
  BY <1>1, <1>2, <1>3, <1>8 DEF ListenersTypes
<1>10. FreshHasNothing' /\ DebtsArePaid'
  BY <1>1, <1>8 DEF FreshHasNothing, DebtsArePaid
<1>11. Progress'
  BY <1>1, <1>2, <1>8 DEF Progress, Lives, ListenersTypes
<1>12. KeyboardIsServed'
  <2>1. Server' = Server
    BY <1>1 DEF Server
  <2> SUFFICES ASSUME ~spare.deaf, Server > 0 PROVE Serves(Server)'
    BY <1>2, <2>1 DEF KeyboardIsServed
  <2>2. Serves(Server) /\ Server \in Generations
    BY <1>2, ServerIs DEF KeyboardIsServed
  <2>3. QED
    BY <1>1, <1>3, <1>8, <2>1, <2>2 DEF Serves
<1>13. QED
  BY <1>5, <1>7, <1>9, <1>10, <1>11, <1>12

\* The release of the key ends every loop.
LEMMA ChordReleasedInv ==
  ASSUME ListenersInv, ChordReleased
  PROVE  ListenersInv'
<1> USE DEF ListenersInv
<1>1. /\ Lives /\ keys' = [keys EXCEPT !.held = {}]
      /\ loops' = {l \in loops : l.gen \notin hooks \/ l.chord \notin keys.held}
      /\ UNCHANGED <<main, gen, thread, caught, knows, messages, touch, table, hooks, target, unseen, lost, spare>>
  BY DEF ChordReleased
<1>2. keys' \in [down : SUBSET Mods, held : SUBSET BoundChords] /\ keys'.down = keys.down
  BY <1>1 DEF ListenersTypes
<1>3. ListenersTypes' /\ FreshHasNothing' /\ Progress' /\ DebtsArePaid'
  BY <1>1, <1>2 DEF ListenersTypes, FreshHasNothing, Progress, DebtsArePaid, Lives
<1>4. KeyboardIsServed'
  BY <1>1, <1>2 DEF KeyboardIsServed, Server, Serves, Lives
<1>5. LoopsAreOwned' /\ NoChordIsLost'
  BY <1>1 DEF LoopsAreOwned, NoChordIsLost
<1>6. QED
  BY <1>3, <1>4, <1>5
-----------------------------------------------------------------------------
\* A key that is nobody's changes only what waits.
LEMMA OtherKeyInv ==
  ASSUME ListenersInv, OtherKeyPressed
  PROVE  ListenersInv'
<1> USE DEF ListenersInv
<1>1. /\ UNCHANGED <<main, gen, thread, caught, knows, messages, loops, touch, table, hooks, target>>
      /\ UNCHANGED <<keys, unseen, lost>>
  BY DEF OtherKeyPressed
<1>2. spare' \in [presses : Nat, fails : Nat, deaf : BOOLEAN] /\ spare'.deaf = spare.deaf
  BY PressSpent DEF OtherKeyPressed
<1>3. ListenersTypes' /\ FreshHasNothing' /\ Progress' /\ DebtsArePaid'
  BY <1>1, <1>2 DEF ListenersTypes, FreshHasNothing, Progress, DebtsArePaid, Lives
<1>4. KeyboardIsServed'
  BY <1>1, <1>2 DEF KeyboardIsServed, Server, Serves, Lives
<1>5. LoopsAreOwned' /\ NoChordIsLost'
  BY <1>1 DEF LoopsAreOwned, NoChordIsLost
<1>6. QED
  BY <1>3, <1>4, <1>5

-----------------------------------------------------------------------------
(* The prefix.                                                              *)

\* A modifier that goes down or up: a Win key makes one hook wait at most, the first that
\* may, and its release ends the waiting.
LEMMA ModifiersPrefix ==
  ASSUME ListenersTypes, PrefixInv, NEW m \in Mods, ModifierPressed(m) \/ ModifierReleased(m)
  PROVE  PrefixInv'
<1>1. hooks' = hooks /\ table' = table /\ hooks \subseteq Generations
  BY DEF ModifierPressed, ModifierReleased, ListenersTypes
<1>2. CASE ModifierPressed(m)
  <2>1. /\ m \notin keys.down /\ keys'.down = keys.down \union {m}
        /\ waits' = waits \union {h \in Told(m) : BeginsPrefixAt(h, m)}
        /\ passed' = IF \E h \in hooks : SwallowsModifier(h, m) THEN passed ELSE passed \union {m}
    BY <1>2 DEF ModifierPressed, ListenersTypes
  <2>2. CASE m = "Win"
    <3>1. waits = {} /\ "Win" \notin passed
      BY <2>1, <2>2 DEF PrefixInv
    <3>2. \A h, i \in Told(m) : BeginsPrefixAt(h, m) /\ BeginsPrefixAt(i, m) => h = i
      BY <1>1, HooksInOrder DEF Told, SwallowsModifier
    <3>3. \A h \in Told(m) : BeginsPrefixAt(h, m) =>
            h \in hooks /\ SwallowsModifier(h, m) /\ \E c \in BoundChords : Forced(c)
      BY <1>1 DEF Told, SwallowsModifier, BeginsPrefixAt, ListenersTypes
    <3>4. \A h \in waits' : h \in Told(m) /\ BeginsPrefixAt(h, m)
      BY <2>1, <3>1
    <3>5. waits' # {} => passed' = passed
      BY <2>1, <3>3, <3>4
    <3>6. passed' \subseteq Mods /\ "Win" \in keys'.down
      BY <2>1, <2>2 DEF PrefixInv
    <3>7. QED
      BY <1>1, <3>1, <3>2, <3>3, <3>4, <3>5, <3>6 DEF PrefixInv
  <2>3. CASE m # "Win"
    <3>1. waits' = waits /\ passed' \in {passed, passed \union {m}}
      BY <2>1, <2>3 DEF BeginsPrefixAt
    <3>2. QED
      BY <1>1, <2>1, <2>3, <3>1 DEF PrefixInv
  <2>4. QED
    BY <2>2, <2>3
<1>3. CASE ModifierReleased(m)
  <2>1. /\ keys'.down = keys.down \ {m}
        /\ waits' = IF m = "Win" THEN waits \ ToldRelease ELSE waits
        /\ passed' = IF waits = {} THEN passed \ {m} ELSE passed
    BY <1>3 DEF ModifierReleased, ListenersTypes
  <2>2. waits \subseteq ToldRelease
    BY <1>1, HooksInOrder DEF PrefixInv, ToldRelease
  <2>3. waits # {} => "Win" \notin passed
    BY DEF PrefixInv
  <2>4. CASE m = "Win"
    BY <1>1, <2>1, <2>2, <2>3, <2>4 DEF PrefixInv
  <2>5. CASE m # "Win"
    BY <1>1, <2>1, <2>3, <2>5 DEF PrefixInv
  <2>6. QED
    BY <2>4, <2>5
<1>4. QED
  BY <1>2, <1>3

\* Every step keeps it.
LEMMA PrefixNext ==
  ASSUME ListenersTypes, PrefixInv, [ListenersNext]_listenerVars
  PROVE  PrefixInv'
<1> USE DEF PrefixInv
<1>1. CASE UNCHANGED <<waits, passed, keys, table>> /\ hooks \subseteq hooks'
  BY <1>1
<1>2. ASSUME NEW g \in Generations, NEW hooking \in BOOLEAN, Registers(g, hooking)
      PROVE  PrefixInv'
  <2>1. table' = [c \in BoundChords |-> IF c \in Registrable /\ table[c] = 0 THEN g ELSE table[c]]
    BY <1>2 DEF Registers
  <2>2. UNCHANGED <<waits, passed, keys>> /\ hooks \subseteq hooks'
    BY <1>2 DEF Registers
  <2>3. \A c \in BoundChords : table'[c] # 0 => ~Forced(c)
    BY <2>1 DEF Registrable
  <2>4. QED
    BY <2>2, <2>3
<1>3. ASSUME NEW g \in Generations, Unhooks(g) \/ Unregisters(g)
      PROVE  PrefixInv'
  <2>1. CASE Unhooks(g)
    BY <2>1 DEF Unhooks
  <2>2. CASE Unregisters(g)
    BY <2>2 DEF Unregisters
  <2>3. QED
    BY <1>3, <2>1, <2>2
<1>4. CASE ThreadTurns
  <2>1. ASSUME NEW g \in Generations, HotkeyHandled(g) \/ QuitHandled(g)
        PROVE  PrefixInv'
    BY <1>1, <2>1 DEF HotkeyHandled, QuitHandled, systemVars
  <2>2. QED
    BY <1>2, <1>3, <1>4, <2>1 DEF ThreadTurns
<1>5. CASE MainTurns \/ Reloads
  BY <1>1, <1>5 DEF MainTurns, Reloads, HotkeysStarted, HotkeysDropped, TouchpadDropped,
                    TouchpadStarted, threadVars, systemVars
<1>6. ASSUME NEW c \in BoundChords, ChordPressed(c)
      PROVE  PrefixInv'
  <2>1. keys'.down = keys.down /\ hooks' = hooks /\ table' = table
    BY <1>6 DEF ChordPressed, ListenersTypes
  <2>2. waits' \subseteq waits /\ passed' \subseteq passed
    BY <1>6 DEF ChordPressed, ChordTaken, ChordReplayed, ChordPassedOn
  <2>3. QED
    BY <2>1, <2>2
<1>7. CASE ChordReleased \/ OtherKeyPressed
  <2>1. keys'.down = keys.down /\ hooks' = hooks /\ table' = table
    BY <1>7 DEF ChordReleased, OtherKeyPressed, ListenersTypes
  <2>2. waits' \subseteq waits /\ passed' \subseteq passed
    BY <1>7 DEF ChordReleased, OtherKeyPressed
  <2>3. QED
    BY <2>1, <2>2
<1>8. CASE KeyboardTurns
  BY <1>6, <1>7, <1>8, ModifiersPrefix DEF KeyboardTurns
<1>9. CASE UNCHANGED listenerVars
  BY <1>1, <1>9 DEF listenerVars, threadVars, systemVars
<1>10. QED
  BY <1>4, <1>5, <1>8, <1>9 DEF ListenersNext

-----------------------------------------------------------------------------
\* The inductive invariant holds at the start.
LEMMA ListenersInitInv ==
  ASSUME ListenersInit
  PROVE  ListenersInv
<1>1. gen = 1 /\ 1 \in Generations
  BY BoundAssumption DEF ListenersInit, Generations
<1>2. ListenersTypes
  <2>1. /\ thread \in [Generations -> ThreadStages]
        /\ table \in [BoundChords -> Generations \union {0}]
        /\ caught \in [Generations -> SUBSET BoundChords]
        /\ knows \in [Generations -> SUBSET Mods]
    BY DEF ListenersInit, ThreadStages
  <2>2. messages \in [Generations -> Seq(Message)]
    BY EmptyOwesNothing DEF ListenersInit
  <2>3. /\ keys \in [down : SUBSET Mods, held : SUBSET BoundChords]
        /\ spare \in [presses : Nat, fails : Nat, deaf : BOOLEAN]
    BY BoundAssumption DEF ListenersInit
  <2>4. main \in MainStages /\ hooks \subseteq Generations /\ unseen \subseteq keys.down
    BY DEF ListenersInit, MainStages
  <2>5. QED
    BY <1>1, <2>1, <2>2, <2>3, <2>4 DEF ListenersTypes
<1>3. FreshHasNothing /\ Progress /\ DebtsArePaid
  <2>1. \A g \in Generations : messages[g] = <<>> /\ knows[g] = {} /\ g \notin hooks
    BY DEF ListenersInit
  <2>2. \A g \in Generations : thread[g] = IF g = 1 THEN "registering" ELSE "none"
    BY DEF ListenersInit
  <2>3. \A c \in BoundChords, g \in Generations : table[c] # g
    BY BoundAssumption DEF ListenersInit, Generations
  <2>4. main = "hotkeys" /\ gen = 1
    BY DEF ListenersInit
  <2>5. FreshHasNothing
    BY <2>1, <2>3 DEF FreshHasNothing
  <2>6. Progress
    BY <1>1, <2>1, <2>2, <2>4, EmptyOwesNothing DEF Progress, Generations
  <2>7. DebtsArePaid
    BY <2>1, EmptyOwesNothing DEF DebtsArePaid
  <2>8. QED
    BY <2>5, <2>6, <2>7
<1>4. KeyboardIsServed /\ LoopsAreOwned /\ NoChordIsLost
  BY <1>1 DEF ListenersInit, KeyboardIsServed, Server, LoopsAreOwned, NoChordIsLost
<1>5. QED
  BY <1>2, <1>3, <1>4 DEF ListenersInv

\* Every step of the threads, the main loop and the keyboard keeps it.
LEMMA ListenersNextInv ==
  ASSUME ListenersInv, PrefixInv, [ListenersNext]_listenerVars
  PROVE  ListenersInv'
<1>1. CASE UNCHANGED listenerVars
  BY <1>1
  DEF listenerVars, threadVars, systemVars, ListenersInv, ListenersTypes, FreshHasNothing,
      Progress, DebtsArePaid, KeyboardIsServed, Server, Serves, LoopsAreOwned, NoChordIsLost,
      Lives
<1>2. CASE ThreadTurns
  BY <1>2, RegistersInv, HotkeyHandledInv, QuitHandledInv, UnhooksInv, UnregistersInv
  DEF ThreadTurns
<1>3. CASE MainTurns \/ Reloads
  BY <1>3, StartsInv, HotkeysDroppedInv, ReloadsInv DEF MainTurns
<1>4. CASE KeyboardTurns
  BY <1>4, ModifiersInv, ChordPressedInv, OtherKeyInv, ChordReleasedInv DEF KeyboardTurns
<1>5. QED
  BY <1>1, <1>2, <1>3, <1>4 DEF ListenersNext

\* The invariant of the listeners: the keyboard is always served, and one hook at most
\* keeps a Win key from the others.
THEOREM ListenersInvariant == ListenersSpec => [](ListenersInv /\ PrefixInv)
<1>1. ListenersInit => ListenersInv /\ PrefixInv
  BY ListenersInitInv DEF ListenersInit, PrefixInv
<1>2. ListenersInv /\ PrefixInv /\ [ListenersNext]_listenerVars => ListenersInv' /\ PrefixInv'
  BY ListenersNextInv, PrefixNext DEF ListenersInv
<1>3. QED
  BY <1>1, <1>2, PTL DEF ListenersSpec

\* However reloads, threads and keyboard interleave, no press of a bound chord is lost
\* once its modifiers went down under the newest hook and no hook has failed, and, for
\* a registered chord, no hook has kept one of them from the system.
THEOREM ChordsAreKept == ListenersSpec => []NoChordIsLost
<1>1. ListenersInv => NoChordIsLost
  BY DEF ListenersInv
<1>2. QED
  BY <1>1, ListenersInvariant, PTL

\* No repeat loop outlives the key that started it, whichever generation owns it.
THEOREM LoopsEndWithTheKey == ListenersSpec => []RepeatsEnd
<1>1. ListenersInv => RepeatsEnd
  BY DEF ListenersInv, LoopsAreOwned, RepeatsEnd
<1>2. QED
  BY <1>1, ListenersInvariant, PTL

---------------------------------------------------------------------------
(* The touchpad (Touchpad). *)

Points == Nat \X Nat \X Nat

\* A finite set in an order: every element once.
LEMMA SetToSeqLists ==
  ASSUME NEW S, IsFiniteSet(S)
  PROVE  Lists(SetToSeq(S), S) /\ Len(SetToSeq(S)) = Cardinality(S)
<1> DEFINE n == Cardinality(S)
<1>1. n \in Nat /\ ExistsBijection(1..n, S)
  BY FS_CardinalityType
<1>2. PICK f \in Bijection(1..n, S) : TRUE
  BY <1>1 DEF ExistsBijection
<1>3. f \in [1..n -> S] /\ IsInjective(f)
  BY <1>2 DEF Bijection, Injection, IsInjective
<1>4. SetToSeq(S) \in [1..n -> S] /\ IsInjective(SetToSeq(S))
  BY <1>3 DEF SetToSeq
<1>5. SetToSeq(S) \in SetToSeqs(S)
  BY <1>4 DEF SetToSeqs, IsInjective
<1>6. Len(SetToSeq(S)) = n
  BY <1>1, <1>4
<1>7. QED
  BY <1>5, <1>6, Enumerates

\* No element is listed by nothing.
LEMMA NothingListed == SetToSeq({}) = <<>>
<1>1. Lists(SetToSeq({}), {}) /\ Len(SetToSeq({})) = 0
  BY SetToSeqLists, FS_EmptySet
<1>2. SetToSeq({}) \in Seq({})
  BY <1>1 DEF Lists
<1>3. QED
  BY <1>1, <1>2

\* A stretch swiped is one swipe at most.
LEMMA SwipesAreFinite ==
  ASSUME NEW s
  PROVE  IsFiniteSet(Swipe(s))
<1>1. Swipe(s) = {} \/ \E x : Swipe(s) = {x}
  BY DEF Swipe
<1>2. ASSUME NEW x, Swipe(s) = {x} PROVE IsFiniteSet(Swipe(s))
  BY <1>2, FS_Singleton
<1>3. QED
  BY <1>1, <1>2, FS_EmptySet

\* A hand has finitely many fingers, each at a place of its own.
LEMMA FingersHavePlaces ==
  ASSUME NEW h \in Hands
  PROVE  /\ IsFiniteSet(h.down) /\ Cardinality(h.down) \in Nat
         /\ Cardinality(h.down) = 0 <=> h.down = {}
         /\ \A f \in h.down : Place(h, f) \in Points
         /\ \A f, g \in h.down : Place(h, f) = Place(h, g) => f = g
         /\ Cardinality(Contacts(h)) = Cardinality(h.down)
<1>1. h.down \subseteq Fingers /\ h.at \in Steps
  BY DEF Hands
<1>2. IsFiniteSet(h.down) /\ h.down \subseteq Nat
  BY <1>1, FS_Subset, TouchpadAssumption
<1>3. Cardinality(h.down) \in Nat /\ (Cardinality(h.down) = 0 <=> h.down = {})
  BY <1>2, FS_CardinalityType, FS_EmptySet
<1>4. h.at[1] \in Nat /\ h.at[2] \in Nat /\ Step \in Nat /\ Gap \in Nat
  BY <1>1, TouchpadAssumption
<1>5. \A f \in h.down : Place(h, f) \in Points
  BY <1>2, <1>4 DEF Place, Points
<1>6. \A f, g \in h.down : Place(h, f) = Place(h, g) => f = g
  BY DEF Place
<1>7. Cardinality(Contacts(h)) = Cardinality(h.down)
  <2> DEFINE at == [f \in h.down |-> Place(h, f)]
  <2>1. at \in Bijection(h.down, Contacts(h))
    BY <1>6 DEF Bijection, Injection, Surjection, IsInjective, Contacts
  <2>2. ExistsBijection(h.down, Contacts(h))
    BY <2>1 DEF ExistsBijection
  <2>3. QED
    BY <1>2, <2>2, FS_Bijection
<1>8. QED
  BY <1>2, <1>3, <1>5, <1>6, <1>7

\* The contacts of the first k reports.
Reached(h, k) == {Place(h, SetToSeq(h.down)[i]) : i \in 1..k}

\* As many reports, as many contacts: the last completes the hand.
LEMMA ReportsReach ==
  ASSUME NEW h \in Hands, NEW k \in 0..Cardinality(h.down)
  PROVE  /\ IsFiniteSet(Reached(h, k)) /\ Cardinality(Reached(h, k)) = k
         /\ Reached(h, k) \in SUBSET Points
         /\ k = Cardinality(h.down) => Reached(h, k) = Contacts(h)
<1>1. PICK n \in Nat : n = Cardinality(h.down)
  BY FingersHavePlaces
<1>2. PICK o : o = SetToSeq(h.down)
  OBVIOUS
<1>3. Lists(o, h.down) /\ Len(o) = n
  BY <1>1, <1>2, FingersHavePlaces, SetToSeqLists
<1>4. /\ \A i \in 1..n : o[i] \in h.down
      /\ \A i, j \in 1..n : i # j => o[i] # o[j]
      /\ \A f \in h.down : \E i \in 1..n : o[i] = f
  <2>1. o \in Seq(h.down)
    BY <1>3 DEF Lists
  <2>2. QED
    BY <1>3, <2>1 DEF Lists
<1>5. Reached(h, k) = {Place(h, o[i]) : i \in 1..k}
  BY <1>2 DEF Reached
<1>6. \A i \in 1..k : i \in 1..n
  BY <1>1
<1>7. IsFiniteSet(1..k) /\ Cardinality(1..k) = k
  BY <1>1, FS_Interval
<1> DEFINE at == [i \in 1..k |-> Place(h, o[i])]
<1>8. at \in Bijection(1..k, Reached(h, k))
  <2>1. ASSUME NEW i \in 1..k, NEW j \in 1..k, Place(h, o[i]) = Place(h, o[j]) PROVE i = j
    <3>1. o[i] = o[j]
      BY <1>4, <1>6, <2>1, FingersHavePlaces
    <3>2. QED
      BY <1>4, <1>6, <3>1
  <2>2. QED
    BY <1>5, <2>1 DEF Bijection, Injection, Surjection, IsInjective
<1>9. IsFiniteSet(Reached(h, k)) /\ Cardinality(Reached(h, k)) = k
  <2>1. ExistsBijection(1..k, Reached(h, k))
    BY <1>8 DEF ExistsBijection
  <2>2. QED
    BY <1>7, <2>1, FS_Bijection
<1>10. Reached(h, k) \in SUBSET Points
  BY <1>4, <1>5, <1>6, FingersHavePlaces
<1>11. k = n => Reached(h, k) = Contacts(h)
  BY <1>4, <1>5 DEF Contacts
<1>12. QED
  BY <1>1, <1>9, <1>10, <1>11

\* A session that is what the hand does, seen by the centroids.
Matches(S, R) ==
  \/ S = {} /\ R = {}
  \/ \E h, k \in Hands, n \in 3..4 :
       /\ Swiping(h) /\ Swiping(k)
       /\ S = {[fingers |-> n, from |-> Centroid(Contacts(h)), to |-> Centroid(Contacts(k))]}
       /\ R = {[fingers |-> n, from |-> Spot(h), to |-> Spot(k)]}

\* What matches is the same swipe.
LEMMA MatchesSwipe ==
  ASSUME NEW S, NEW R, Matches(S, R)
  PROVE  UNION {Swipe(s) : s \in S} = UNION {Swipe(r) : r \in R} /\ IsFiniteSet(UNION {Swipe(r) : r \in R})
<1>1. CASE S = {} /\ R = {}
  BY <1>1, FS_EmptySet
<1>2. CASE \E h, k \in Hands, n \in 3..4 :
             /\ Swiping(h) /\ Swiping(k)
             /\ S = {[fingers |-> n, from |-> Centroid(Contacts(h)), to |-> Centroid(Contacts(k))]}
             /\ R = {[fingers |-> n, from |-> Spot(h), to |-> Spot(k)]}
  <2>1. PICK h \in Hands, k \in Hands, n \in 3..4 :
             /\ Swiping(h) /\ Swiping(k)
             /\ S = {[fingers |-> n, from |-> Centroid(Contacts(h)), to |-> Centroid(Contacts(k))]}
             /\ R = {[fingers |-> n, from |-> Spot(h), to |-> Spot(k)]}
    BY <1>2
  <2>2. PICK s : s = [fingers |-> n, from |-> Centroid(Contacts(h)), to |-> Centroid(Contacts(k))]
    OBVIOUS
  <2>3. PICK r : r = [fingers |-> n, from |-> Spot(h), to |-> Spot(k)]
    OBVIOUS
  <2>4. S = {s} /\ R = {r}
    BY <2>1, <2>2, <2>3
  <2>5. Swipe(s) = Swipe(r)
    BY <2>1, <2>2, <2>3, GeometryAssumption
  <2>6. UNION {Swipe(x) : x \in S} = Swipe(s) /\ UNION {Swipe(x) : x \in R} = Swipe(r)
    BY <2>4
  <2>7. QED
    BY <2>5, <2>6, SwipesAreFinite
<1>3. QED
  BY <1>1, <1>2 DEF Matches

\* What the recogniser makes of a frame, in a session.
Done(S, contacts) ==
  IF Cardinality(contacts) \notin 3..4
  THEN [session |-> {}, gesture |-> UNION {Swipe(s) : s \in S}]
  ELSE LET n == Cardinality(contacts)
           c == Centroid(contacts)
       IN  [session |-> IF S = {} THEN {[fingers |-> n, from |-> c, to |-> c]}
                        ELSE {[fingers |-> Larger(s.fingers, n), from |-> s.from, to |-> c] : s \in S},
            gesture |-> {}]

\* The stroke once the hand is h.
Stroke(R, h) ==
  IF ~Swiping(h) THEN {}
  ELSE IF R = {} THEN Starts(h)
  ELSE {[fingers |-> Larger(s.fingers, Cardinality(h.down)), from |-> s.from, to |-> Spot(h)] : s \in R}

\* What the hand obtains by being h.
Obtained(R, h) ==
  IF Swiping(h) THEN <<>> ELSE SetToSeq((UNION {Swipe(s) : s \in R}) \intersect GestureKeys)

\* A whole frame of the hand leaves session and stroke matching, and gives what the hand obtained.
LEMMA WholeFramesMatch ==
  ASSUME NEW S, NEW R, Matches(S, R), NEW h \in Hands
  PROVE  /\ Matches(Done(S, Contacts(h)).session, Stroke(R, h))
         /\ SetToSeq(Done(S, Contacts(h)).gesture \intersect GestureKeys) = Obtained(R, h)
         /\ Obtained(R, h) \in Seq(GestureKeys)
<1>1. PICK n \in Nat : n = Cardinality(h.down) /\ n = Cardinality(Contacts(h))
  BY FingersHavePlaces
<1>2. Swiping(h) <=> n \in 3..4
  BY <1>1 DEF Swiping
<1>3. CASE ~Swiping(h)
  <2>1. Done(S, Contacts(h)) = [session |-> {}, gesture |-> UNION {Swipe(s) : s \in S}]
    BY <1>1, <1>2, <1>3 DEF Done
  <2>2. Matches({}, {})
    BY DEF Matches
  <2>3. Stroke(R, h) = {} /\ Obtained(R, h) = SetToSeq((UNION {Swipe(s) : s \in R}) \intersect GestureKeys)
    BY <1>3 DEF Stroke, Obtained
  <2>4. PICK G : G = (UNION {Swipe(s) : s \in R}) \intersect GestureKeys
    OBVIOUS
  <2>5. IsFiniteSet(G)
    BY <2>4, MatchesSwipe, FS_Subset
  <2>6. SetToSeq(G) \in Seq(G) /\ G \subseteq GestureKeys
    <3>1. Lists(SetToSeq(G), G)
      BY <2>5, SetToSeqLists
    <3>2. G \subseteq GestureKeys
      BY <2>4
    <3>3. QED
      BY <3>1, <3>2 DEF Lists
  <2>7. SetToSeq(G) \in Seq(GestureKeys)
    BY <2>6
  <2>8. Done(S, Contacts(h)).session = {} /\ Done(S, Contacts(h)).gesture \intersect GestureKeys = G
    <3>1. UNION {Swipe(s) : s \in S} = UNION {Swipe(r) : r \in R}
      BY MatchesSwipe
    <3>2. QED
      BY <2>1, <2>4, <3>1
  <2>9. QED
    BY <2>2, <2>3, <2>4, <2>7, <2>8
<1>4. CASE Swiping(h)
  <2>1. PICK c : c = Centroid(Contacts(h))
    OBVIOUS
  <2>2. /\ Done(S, Contacts(h)).gesture = {}
        /\ Done(S, Contacts(h)).session =
             IF S = {} THEN {[fingers |-> n, from |-> c, to |-> c]}
             ELSE {[fingers |-> Larger(s.fingers, n), from |-> s.from, to |-> c] : s \in S}
    BY <1>1, <1>2, <1>4, <2>1 DEF Done
  <2>3. Obtained(R, h) = <<>> /\ SetToSeq({}) = <<>>
    BY <1>4, NothingListed DEF Obtained
  <2>4. /\ SetToSeq(Done(S, Contacts(h)).gesture \intersect GestureKeys) = Obtained(R, h)
        /\ Obtained(R, h) \in Seq(GestureKeys)
    <3>1. Done(S, Contacts(h)).gesture \intersect GestureKeys = {}
      BY <2>2
    <3>2. SetToSeq(Done(S, Contacts(h)).gesture \intersect GestureKeys) = SetToSeq({})
      BY <3>1
    <3>3. <<>> \in Seq(GestureKeys)
      OBVIOUS
    <3>4. QED
      BY <2>3, <3>2, <3>3
  <2>5. CASE S = {} /\ R = {}
    <3>1. Stroke(R, h) = {[fingers |-> n, from |-> Spot(h), to |-> Spot(h)]}
      BY <1>1, <1>4, <2>5 DEF Stroke, Starts
    <3>2. Done(S, Contacts(h)).session = {[fingers |-> n, from |-> c, to |-> c]}
      BY <2>2, <2>5
    <3>3. Matches(Done(S, Contacts(h)).session, Stroke(R, h))
      BY <1>2, <1>4, <2>1, <3>1, <3>2 DEF Matches
    <3>4. QED
      BY <2>4, <3>3
  <2>6. CASE S # {} \/ R # {}
    <3>1. PICK a \in Hands, b \in Hands, m \in 3..4 :
             /\ Swiping(a) /\ Swiping(b)
             /\ S = {[fingers |-> m, from |-> Centroid(Contacts(a)), to |-> Centroid(Contacts(b))]}
             /\ R = {[fingers |-> m, from |-> Spot(a), to |-> Spot(b)]}
      BY <2>6 DEF Matches
    <3>2. PICK l \in 3..4 : l = Larger(m, n)
      BY <1>2, <1>4 DEF Larger
    <3>3. Stroke(R, h) = {[fingers |-> l, from |-> Spot(a), to |-> Spot(h)]}
      BY <1>1, <1>4, <3>1, <3>2 DEF Stroke
    <3>4. Done(S, Contacts(h)).session = {[fingers |-> l, from |-> Centroid(Contacts(a)), to |-> c]}
      BY <2>2, <3>1, <3>2
    <3>5. Matches(Done(S, Contacts(h)).session, Stroke(R, h))
      BY <1>4, <2>1, <3>1, <3>3, <3>4 DEF Matches
    <3>6. QED
      BY <2>4, <3>5
  <2>7. QED
    BY <2>5, <2>6
<1>5. QED
  BY <1>3, <1>4

\* How many reports a hand takes.
Reports(h) == IF h.down = {} THEN 1 ELSE Cardinality(h.down)

Report(t) == [time : {t}, count : Nat, contact : SUBSET Points]

\* The reports of a hand: one for each finger, or one of none.
LEMMA ReportsAre ==
  ASSUME NEW h \in Hands, NEW t
  PROVE  /\ ReportsOf(h, t) \in Seq(Report(t)) /\ Len(ReportsOf(h, t)) = Reports(h)
         /\ Reports(h) \in Nat \ {0} /\ Cardinality(h.down) \in Nat
         /\ \A i \in 1..Reports(h) :
              /\ ReportsOf(h, t)[i].time = t /\ ReportsOf(h, t)[i].count = Cardinality(h.down)
              /\ h.down = {} => ReportsOf(h, t)[i].contact = {}
              /\ h.down # {} => ReportsOf(h, t)[i].contact = {Place(h, SetToSeq(h.down)[i])}
<1>1. PICK n \in Nat : n = Cardinality(h.down) /\ (n = 0 <=> h.down = {})
  BY FingersHavePlaces
<1>2. CASE h.down = {}
  <2>1. ReportsOf(h, t) = <<[time |-> t, count |-> 0, contact |-> {}]>> /\ Reports(h) = 1 /\ n = 0
    BY <1>1, <1>2 DEF ReportsOf, Reports
  <2>2. [time |-> t, count |-> 0, contact |-> {}] \in Report(t)
    BY DEF Report
  <2>3. QED
    BY <1>1, <1>2, <2>1, <2>2
<1>3. CASE h.down # {}
  <2>1. ReportsOf(h, t) = [i \in 1..n |-> [time |-> t, count |-> n, contact |-> {Place(h, SetToSeq(h.down)[i])}]]
    BY <1>1, <1>3 DEF ReportsOf
  <2>2. Reports(h) = n /\ n # 0
    BY <1>1, <1>3 DEF Reports
  <2>3. ASSUME NEW i \in 1..n PROVE {Place(h, SetToSeq(h.down)[i])} \in SUBSET Points
    <3>1. Reached(h, n) \in SUBSET Points
      BY <1>1, ReportsReach
    <3>2. Place(h, SetToSeq(h.down)[i]) \in Reached(h, n)
      BY <2>3 DEF Reached
    <3>3. QED
      BY <3>1, <3>2
  <2>4. ReportsOf(h, t) \in [1..n -> Report(t)]
    BY <2>1, <2>3 DEF Report
  <2>5. ReportsOf(h, t) \in Seq(Report(t)) /\ Len(ReportsOf(h, t)) = n
    <3>1. PICK q : q = ReportsOf(h, t)
      OBVIOUS
    <3>2. q \in [1..n -> Report(t)] /\ n \in Nat
      BY <2>4, <3>1
    <3>3. q \in Seq(Report(t)) /\ Len(q) = n
      BY <3>2
    <3>4. QED
      BY <3>1, <3>3
  <2>6. ASSUME NEW i \in 1..n
        PROVE  /\ ReportsOf(h, t)[i].time = t /\ ReportsOf(h, t)[i].count = n
               /\ ReportsOf(h, t)[i].contact = {Place(h, SetToSeq(h.down)[i])}
    BY <2>1, <2>6
  <2>7. QED
    BY <1>1, <1>3, <2>2, <2>5, <2>6
<1>4. QED
  BY <1>2, <1>3

\* A frame with k reports of the hand.
Frame(h, t, k) == [time |-> {t}, expected |-> Cardinality(h.down), contacts |-> Reached(h, k)]

\* The next report of the hand completes the frame exactly when it is the last.
LEMMA ReportsComplete ==
  ASSUME NEW h \in Hands, NEW t, NEW k \in 0..(Reports(h) - 1), NEW r, r = ReportsOf(h, t)[k + 1],
         NEW f, k = 0 => f = NoFrame, k # 0 => f = Frame(h, t, k)
  PROVE  /\ Flushes(Added(f, r), r) <=> k + 1 = Reports(h)
         /\ k + 1 = Reports(h) => Added(f, r).contacts = Contacts(h)
         /\ k + 1 # Reports(h) => Added(f, r) = Frame(h, t, k + 1) /\ k + 1 \in 0..(Reports(h) - 1)
<1>1. PICK n \in Nat : n = Cardinality(h.down) /\ (n = 0 <=> h.down = {})
  BY FingersHavePlaces
<1>2. Reports(h) \in Nat \ {0}
  BY ReportsAre
<1>3. k + 1 \in 1..Reports(h)
  BY <1>2
<1>4. /\ r.time = t /\ r.count = n
      /\ h.down = {} => r.contact = {}
      /\ h.down # {} => r.contact = {Place(h, SetToSeq(h.down)[k + 1])}
  BY <1>1, <1>3, ReportsAre
<1>5. CASE h.down = {}
  <2>1. Reports(h) = 1 /\ k = 0 /\ n = 0
    BY <1>1, <1>5 DEF Reports
  <2>2. Flushes(Added(f, r), r)
    BY <1>4, <2>1 DEF Flushes
  <2>3. f.time # {r.time}
    BY <2>1 DEF NoFrame
  <2>4. Added(f, r).contacts = {}
    BY <1>4, <1>5, <2>3 DEF Added
  <2>5. Contacts(h) = {}
    BY <1>5 DEF Contacts
  <2>6. QED
    BY <2>1, <2>2, <2>4, <2>5
<1>6. CASE h.down # {}
  <2>1. Reports(h) = n /\ n # 0
    BY <1>1, <1>6 DEF Reports
  <2>2. Added(f, r) = Frame(h, t, k + 1)
    <3>1. CASE k = 0
      <4>1. f.time # {r.time}
        BY <3>1 DEF NoFrame
      <4>2. 1..(k + 1) = {1} /\ k + 1 = 1
        BY <3>1
      <4>3. Reached(h, k + 1) = {Place(h, SetToSeq(h.down)[1])}
        BY <4>2 DEF Reached
      <4>4. QED
        BY <1>1, <1>4, <1>6, <4>1, <4>2, <4>3 DEF Added, Frame
    <3>2. CASE k # 0
      <4>1. f = [time |-> {t}, expected |-> n, contacts |-> Reached(h, k)]
        BY <1>1, <3>2 DEF Frame
      <4>2. Added(f, r) = [time |-> {t}, expected |-> n, contacts |-> Reached(h, k) \union r.contact]
        BY <1>4, <4>1 DEF Added
      <4>3. 1..(k + 1) = (1..k) \union {k + 1}
        OBVIOUS
      <4>4. Reached(h, k + 1) = Reached(h, k) \union {Place(h, SetToSeq(h.down)[k + 1])}
        BY <4>3 DEF Reached
      <4>5. QED
        BY <1>1, <1>4, <1>6, <4>2, <4>4 DEF Frame
    <3>3. QED
      BY <3>1, <3>2
  <2>3. k + 1 \in 0..n
    BY <2>1
  <2>4. Cardinality(Reached(h, k + 1)) = k + 1 /\ (k + 1 = n => Reached(h, k + 1) = Contacts(h))
    BY <1>1, <2>3, ReportsReach
  <2>5. Flushes(Added(f, r), r) <=> k + 1 >= n
    BY <1>1, <1>4, <2>1, <2>2, <2>4 DEF Flushes, Frame
  <2>6. Added(f, r).contacts = Reached(h, k + 1)
    BY <2>2 DEF Frame
  <2>7. QED
    BY <2>1, <2>2, <2>3, <2>4, <2>5, <2>6
<1>7. QED
  BY <1>5, <1>6

\* What was reported so far of the hand is in the frame; nothing older is.
Assembled ==
  \E k \in 0..(Reports(hand) - 1) :
    /\ Len(reports) = Reports(hand) - k
    /\ \A i \in 1..Len(reports) : reports[i] = ReportsOf(hand, scans - 1)[k + i]
    /\ k = 0 => frame.contacts = {} /\ frame.time # {scans - 1} /\ (frame.time = {} \/ session = {})
    /\ k # 0 => frame = Frame(hand, scans - 1, k)

\* What the recogniser makes of the whole frame is what the hand did.
Pending ==
  /\ Matches(Done(session, Contacts(hand)).session, stroke)
  /\ meant = obeyed \o SetToSeq(Done(session, Contacts(hand)).gesture \intersect GestureKeys)

TouchTypes ==
  /\ hand \in Hands /\ scans \in Nat
  /\ reports \in Seq(Report(scans - 1))
  /\ frame \in [time : SUBSET Int, expected : Nat, contacts : SUBSET Points]
  /\ \A t \in frame.time : t < scans
  /\ frame.time = {} => frame = NoFrame

InTouch ==
  /\ obeyed \in Seq(GestureKeys) /\ meant \in Seq(GestureKeys)
  /\ reports = <<>> => frame = NoFrame /\ Matches(session, stroke) /\ obeyed = meant
  /\ reports # <<>> => Assembled /\ Pending

\* Without trouble the recogniser is in touch with the hand, report by report.
TouchInv == TouchTypes /\ (~trouble => InTouch)

\* The recogniser makes of a frame what it makes in its session.
LEMMA RecognizedIs ==
  ASSUME NEW contacts
  PROVE  Recognized(contacts) = Done(session, contacts)
BY DEF Recognized, Done

\* The hand puts nothing down before it is there.
LEMMA TouchBegins == TouchpadInit => TouchInv
<1> SUFFICES ASSUME TouchpadInit PROVE TouchInv
  OBVIOUS
<1>1. PICK a \in Steps : a = CHOOSE x \in Steps : TRUE
  BY TouchpadAssumption
<1>2. hand \in Hands /\ scans = 0 /\ reports = <<>> /\ frame = NoFrame
  BY <1>1 DEF TouchpadInit, Hands
<1>3. reports \in Seq(Report(scans - 1))
  BY <1>2
<1>4. TouchTypes
  BY <1>2, <1>3 DEF TouchTypes, NoFrame
<1>5. obeyed = <<>> /\ meant = <<>> /\ session = {} /\ stroke = {}
  BY DEF TouchpadInit
<1>6. InTouch
  BY <1>2, <1>5 DEF InTouch, Matches
<1>7. QED
  BY <1>4, <1>6 DEF TouchInv

\* A new hand is all to be reported, of what is there and of trouble that is over.
LEMMA ScanKeepsTouch ==
  ASSUME TouchInv, NEW h \in Hands, Scan(h)
  PROVE  TouchInv'
<1>1. /\ reports = <<>> /\ scans \in Nat /\ scans' = scans + 1 /\ hand' = h
      /\ reports' = ReportsOf(h, scans) /\ frame' = frame /\ session' = session
  BY DEF TouchInv, TouchTypes, Scan
<1>2. scans' - 1 = scans
  BY <1>1
<1>3. /\ reports' \in Seq(Report(scans)) /\ Len(reports') = Reports(h)
      /\ Reports(h) \in Nat \ {0} /\ reports' # <<>>
  BY <1>1, ReportsAre
<1>4. TouchTypes'
  <2>1. \A t \in frame.time : t < scans /\ t \in Int
    BY DEF TouchInv, TouchTypes
  <2>2. \A t \in frame.time : t < scans + 1
    BY <1>1, <2>1
  <2>3. reports' \in Seq(Report(scans' - 1))
    BY <1>2, <1>3
  <2>4. scans' \in Nat /\ hand' \in Hands
    BY <1>1
  <2>5. QED
    BY <1>1, <2>2, <2>3, <2>4 DEF TouchInv, TouchTypes
<1>5. ASSUME NEW S, NEW R, NEW o \in Seq(GestureKeys),
             Matches(S, R), session = S, frame.contacts = {}, frame.time = {} \/ S = {},
             stroke' = Stroke(R, h), obeyed' = o, meant' = o \o Obtained(R, h)
      PROVE  InTouch'
  <2>1. Assembled'
    <3>1. 0 \in 0..(Reports(h) - 1) /\ Len(reports') = Reports(h) - 0
      BY <1>3
    <3>2. \A i \in 1..Len(reports') : reports'[i] = ReportsOf(h, scans' - 1)[0 + i]
      BY <1>1, <1>2, <1>3
    <3>3. frame'.contacts = {} /\ (frame'.time = {} \/ session' = {})
      BY <1>1, <1>5
    <3>4. frame'.time # {scans' - 1}
      <4>1. scans \notin frame.time
        BY <1>1 DEF TouchInv, TouchTypes
      <4>2. QED
        BY <1>1, <1>2, <4>1
    <3>5. QED
      BY <1>1, <3>1, <3>2, <3>3, <3>4 DEF Assembled
  <2>2. Pending'
    <3>1. /\ Matches(Done(S, Contacts(h)).session, Stroke(R, h))
          /\ SetToSeq(Done(S, Contacts(h)).gesture \intersect GestureKeys) = Obtained(R, h)
      BY <1>5, WholeFramesMatch
    <3>2. session' = S
      BY <1>1, <1>5
    <3>3. QED
      BY <1>1, <1>5, <3>1, <3>2 DEF Pending
  <2>3. Obtained(R, h) \in Seq(GestureKeys)
    BY <1>5, WholeFramesMatch
  <2>4. meant' \in Seq(GestureKeys) /\ obeyed' \in Seq(GestureKeys)
    BY <1>5, <2>3
  <2>5. QED
    BY <1>3, <2>1, <2>2, <2>4 DEF InTouch
<1>6. CASE trouble /\ session = {} /\ frame.contacts = {} /\ Cardinality(hand.down) < 3
  <2>1. meant' = <<>> /\ obeyed' = <<>> /\ stroke' = Starts(h)
    BY <1>6 DEF Scan
  <2>2. Stroke({}, h) = Starts(h)
    BY DEF Stroke, Starts
  <2>3. Obtained({}, h) = <<>>
    <3>1. (UNION {Swipe(s) : s \in {}}) \intersect GestureKeys = {}
      OBVIOUS
    <3>2. QED
      BY <3>1, NothingListed DEF Obtained
  <2>4. Matches({}, {}) /\ <<>> \in Seq(GestureKeys) /\ <<>> \o <<>> = <<>>
    BY DEF Matches
  <2>5. InTouch'
    <3>1. stroke' = Stroke({}, h) /\ obeyed' = <<>> /\ meant' = <<>> \o Obtained({}, h)
      BY <2>1, <2>2, <2>3, <2>4
    <3>2. QED
      BY <1>5, <1>6, <2>4, <3>1
  <2>6. QED
    BY <1>4, <2>5 DEF TouchInv
<1>7. CASE ~(trouble /\ session = {} /\ frame.contacts = {} /\ Cardinality(hand.down) < 3) /\ ~trouble
  <2>1. Follow(h) /\ obeyed' = obeyed /\ trouble' = trouble
    BY <1>7 DEF Scan
  <2>2. frame = NoFrame /\ Matches(session, stroke) /\ obeyed = meant /\ obeyed \in Seq(GestureKeys)
    BY <1>1, <1>7 DEF TouchInv, InTouch
  <2>3. stroke' = Stroke(stroke, h)
    BY <2>1 DEF Follow, Stroke
  <2>4. meant' = meant \o Obtained(stroke, h)
    <3>1. meant \o <<>> = meant
      BY <2>2
    <3>2. QED
      BY <2>1, <3>1 DEF Follow, Obtained
  <2>5. frame.contacts = {} /\ frame.time = {}
    BY <2>2 DEF NoFrame
  <2>6. meant' = obeyed \o Obtained(stroke, h)
    BY <2>2, <2>4
  <2>7. InTouch'
    BY <1>5, <2>1, <2>2, <2>3, <2>5, <2>6
  <2>8. QED
    BY <1>4, <2>7 DEF TouchInv
<1>8. CASE ~(trouble /\ session = {} /\ frame.contacts = {} /\ Cardinality(hand.down) < 3) /\ trouble
  <2>1. trouble' = trouble
    BY <1>8 DEF Scan
  <2>2. QED
    BY <1>4, <1>8, <2>1 DEF TouchInv
<1>9. QED
  BY <1>6, <1>7, <1>8

\* The report at the head, and what is left.
LEMMA HeadOfReports ==
  ASSUME TouchTypes, reports # <<>>
  PROVE  /\ Head(reports) \in Report(scans - 1) /\ Tail(reports) \in Seq(Report(scans - 1))
         /\ Head(reports) = reports[1] /\ Len(reports) \in Nat \ {0}
         /\ Len(Tail(reports)) = Len(reports) - 1
         /\ \A i \in 1..Len(Tail(reports)) : Tail(reports)[i] = reports[i + 1]
         /\ Tail(reports) = <<>> <=> Len(reports) = 1
<1>1. PICK T : T = Report(scans - 1)
  OBVIOUS
<1>2. PICK q \in Seq(T) : q = reports /\ q # <<>>
  BY <1>1 DEF TouchTypes
<1>3. /\ Head(q) \in T /\ Tail(q) \in Seq(T) /\ Head(q) = q[1] /\ Len(q) \in Nat \ {0}
      /\ Len(Tail(q)) = Len(q) - 1
      /\ \A i \in 1..Len(Tail(q)) : Tail(q)[i] = q[i + 1]
  BY <1>2
<1>4. Tail(q) = <<>> <=> Len(q) = 1
  <2>1. PICK u \in Seq(T) : u = Tail(q)
    BY <1>3
  <2>2. u = <<>> => Len(u) = 0
    OBVIOUS
  <2>3. Len(u) = 0 => u = <<>>
    BY <2>1
  <2>4. QED
    BY <1>3, <2>1, <2>2, <2>3
<1>5. q = reports /\ T = Report(scans - 1)
  BY <1>1, <1>2
<1>6. QED
  BY <1>3, <1>4, <1>5

\* A frame with one report more is a frame.
LEMMA AddedIsAFrame ==
  ASSUME TouchTypes, NEW f, f = frame \/ f = NoFrame, NEW r \in Report(scans - 1)
  PROVE  /\ Added(f, r) \in [time : SUBSET Int, expected : Nat, contacts : SUBSET Points]
         /\ Added(f, r).time = {scans - 1} /\ scans - 1 < scans
<1>1. /\ f \in [time : SUBSET Int, expected : Nat, contacts : SUBSET Points]
      /\ scans \in Nat /\ r.time = scans - 1 /\ r.count \in Nat /\ r.contact \in SUBSET Points
  BY DEF TouchTypes, NoFrame, Report
<1>2. CASE f.time = {r.time}
  BY <1>1, <1>2 DEF Added
<1>3. CASE f.time # {r.time}
  BY <1>1, <1>3 DEF Added
<1>4. QED
  BY <1>2, <1>3

\* Whatever becomes of the frame, one report less is left.
LEMMA ReportKeepsTypes ==
  ASSUME TouchTypes, reports # <<>>, reports' = Tail(reports), scans' = scans, hand' = hand,
         \/ frame' = frame \/ frame' = NoFrame
         \/ \E f \in {frame, NoFrame} : frame' = Added(f, Head(reports))
  PROVE  TouchTypes'
<1>1. hand' \in Hands /\ scans' \in Nat /\ reports' \in Seq(Report(scans' - 1))
  BY HeadOfReports DEF TouchTypes
<1>2. /\ frame' \in [time : SUBSET Int, expected : Nat, contacts : SUBSET Points]
      /\ \A t \in frame'.time : t < scans'
      /\ frame'.time = {} => frame' = NoFrame
  <2>1. CASE frame' = frame
    BY <2>1 DEF TouchTypes
  <2>2. CASE frame' = NoFrame
    BY <2>2 DEF NoFrame
  <2>3. CASE \E f \in {frame, NoFrame} : frame' = Added(f, Head(reports))
    <3>1. PICK f : (f = frame \/ f = NoFrame) /\ frame' = Added(f, Head(reports))
      BY <2>3
    <3>2. PICK r \in Report(scans - 1) : r = Head(reports)
      BY HeadOfReports
    <3>3. /\ frame' \in [time : SUBSET Int, expected : Nat, contacts : SUBSET Points]
          /\ frame'.time = {scans - 1} /\ scans - 1 < scans
      BY <3>1, <3>2, AddedIsAFrame
    <3>4. QED
      BY <3>3
  <2>4. QED
    BY <2>1, <2>2, <2>3
<1>3. QED
  BY <1>1, <1>2 DEF TouchTypes

\* A report is for a frame of its scan that is there, or for a new one.
LEMMA ReportKeepsTouch ==
  ASSUME TouchInv, ReportContinues \/ ReportSupersedes
  PROVE  TouchInv'
<1>1. /\ TouchTypes /\ reports # <<>> /\ reports' = Tail(reports)
      /\ scans' = scans /\ hand' = hand /\ stroke' = stroke /\ meant' = meant /\ trouble' = trouble
  BY DEF TouchInv, ReportContinues, ReportSupersedes
<1>2. PICK r \in Report(scans - 1) : r = Head(reports)
  BY <1>1, HeadOfReports
<1>3. r.time = scans - 1
  BY <1>2 DEF Report
<1>4. \/ frame' = NoFrame
      \/ frame' = Added(frame, r) /\ frame.time \in {{}, {scans - 1}}
      \/ frame' = Added(NoFrame, r)
  BY <1>2, <1>3 DEF ReportContinues, ReportSupersedes, Completes
<1>5. TouchTypes'
  BY <1>1, <1>2, <1>4, ReportKeepsTypes
<1>6. CASE trouble
  BY <1>1, <1>5, <1>6 DEF TouchInv
<1>7. CASE ~trouble
  <2>1. obeyed \in Seq(GestureKeys) /\ meant \in Seq(GestureKeys) /\ Assembled /\ Pending
    BY <1>1, <1>7 DEF TouchInv, InTouch
  <2>2. PICK k \in 0..(Reports(hand) - 1) :
          /\ Len(reports) = Reports(hand) - k
          /\ \A i \in 1..Len(reports) : reports[i] = ReportsOf(hand, scans - 1)[k + i]
          /\ k = 0 => frame.contacts = {} /\ frame.time # {scans - 1} /\ (frame.time = {} \/ session = {})
          /\ k # 0 => frame = Frame(hand, scans - 1, k)
    BY <2>1 DEF Assembled
  <2>3. PICK D : D = Done(session, Contacts(hand))
    OBVIOUS
  <2>4. /\ Matches(D.session, stroke)
        /\ meant = obeyed \o SetToSeq(D.gesture \intersect GestureKeys)
    BY <2>1, <2>3 DEF Pending
  <2>5. hand \in Hands /\ scans \in Nat
    BY <1>1 DEF TouchTypes
  <2>6. Reports(hand) \in Nat \ {0}
    BY <2>5, ReportsAre
  <2>7. r = ReportsOf(hand, scans - 1)[k + 1]
    BY <1>1, <1>2, <2>2, HeadOfReports
  <2>8. PICK f : f = IF k = 0 THEN NoFrame ELSE frame
    OBVIOUS
  <2>9. PICK a : a = Added(f, r)
    OBVIOUS
  <2>10. /\ Flushes(a, r) <=> k + 1 = Reports(hand)
         /\ k + 1 = Reports(hand) => a.contacts = Contacts(hand)
         /\ k + 1 # Reports(hand) => a = Frame(hand, scans - 1, k + 1) /\ k + 1 \in 0..(Reports(hand) - 1)
    <3>1. (k = 0 => f = NoFrame) /\ (k # 0 => f = Frame(hand, scans - 1, k))
      BY <2>2, <2>8
    <3>2. QED
      BY <2>5, <2>7, <2>9, <3>1, ReportsComplete
  <2>11. /\ Len(reports') = Reports(hand) - (k + 1)
         /\ \A i \in 1..Len(reports') : reports'[i] = ReportsOf(hand, scans - 1)[(k + 1) + i]
         /\ reports' = <<>> <=> k + 1 = Reports(hand)
    <3>1. Len(reports') = Len(reports) - 1 /\ (reports' = <<>> <=> Len(reports) = 1)
      BY <1>1, HeadOfReports
    <3>2. ASSUME NEW i \in 1..Len(reports') PROVE reports'[i] = ReportsOf(hand, scans - 1)[(k + 1) + i]
      <4>1. reports'[i] = reports[i + 1]
        BY <1>1, <3>2, HeadOfReports
      <4>2. i + 1 \in 1..Len(reports) /\ k + (i + 1) = (k + 1) + i
        BY <2>2, <2>6, <3>1
      <4>3. QED
        BY <2>2, <4>1, <4>2
    <3>3. QED
      BY <2>2, <2>6, <3>1, <3>2
  <2>12. /\ Flushes(a, r) => frame' = NoFrame /\ session' = D.session
                             /\ obeyed' = obeyed \o SetToSeq(D.gesture \intersect GestureKeys)
         /\ ~Flushes(a, r) => frame' = a /\ session' = session /\ obeyed' = obeyed
    <3>1. CASE ReportContinues
      <4>1. frame = f
        <5>1. CASE k = 0
          <6>1. frame.time = {}
            BY <1>2, <1>3, <2>2, <3>1, <5>1 DEF ReportContinues
          <6>2. QED
            BY <1>1, <2>8, <5>1, <6>1 DEF TouchTypes
        <5>2. CASE k # 0
          BY <2>8, <5>2
        <5>3. QED
          BY <5>1, <5>2
      <4>2. Completes(a, r)
        BY <1>2, <2>9, <3>1, <4>1 DEF ReportContinues
      <4>3. CASE Flushes(a, r)
        <5>1. Recognized(a.contacts) = D
          BY <2>3, <2>10, <4>3, RecognizedIs
        <5>2. QED
          BY <4>2, <4>3, <5>1 DEF Completes, Obeys
      <4>4. CASE ~Flushes(a, r)
        BY <4>2, <4>4 DEF Completes
      <4>5. QED
        BY <4>3, <4>4
    <3>2. CASE ReportSupersedes
      <4>1. k = 0 /\ frame.contacts = {} /\ session = {}
        <5>1. frame.time \notin {{}, {scans - 1}}
          BY <1>2, <1>3, <3>2 DEF ReportSupersedes
        <5>2. k = 0
          BY <2>2, <5>1 DEF Frame
        <5>3. QED
          BY <2>2, <5>1, <5>2
      <4>2. a = Added(NoFrame, r)
        BY <2>8, <2>9, <4>1
      <4>3. \A c : Cardinality(c) \notin 3..4 => Done({}, c) = [session |-> {}, gesture |-> {}]
        BY DEF Done
      <4>4. Recognized({}) = [session |-> {}, gesture |-> {}]
        <5>1. Cardinality({}) \notin 3..4
          BY FS_EmptySet
        <5>2. QED
          BY <4>1, <4>3, <5>1, RecognizedIs
      <4>5. Recognized(frame.contacts).gesture = {} /\ Recognized(frame.contacts).session = {}
        BY <4>1, <4>4
      <4>6. IF Recognized(frame.contacts).gesture = {} /\ Flushes(a, r)
             THEN /\ frame' = NoFrame /\ session' = {}
                  /\ Obeys(UNION {Swipe(s) : s \in Recognized(frame.contacts).session})
             ELSE /\ frame' = a /\ session' = Recognized(frame.contacts).session
                  /\ Obeys(Recognized(frame.contacts).gesture)
        BY <1>2, <3>2, <4>2 DEF ReportSupersedes
      <4>7. UNION {Swipe(s) : s \in {}} = {} /\ {} \intersect GestureKeys = {} /\ obeyed \o <<>> = obeyed
        BY <2>1
      <4>8. CASE Flushes(a, r)
        <5>1. /\ frame' = NoFrame /\ session' = {}
              /\ obeyed' = obeyed \o SetToSeq((UNION {Swipe(s) : s \in {}}) \intersect GestureKeys)
          <6>1. frame' = NoFrame /\ session' = {} /\ Obeys(UNION {Swipe(s) : s \in {}})
            BY <4>8, <4>5, <4>6
          <6>2. QED
            BY <6>1 DEF Obeys
        <5>2. SetToSeq((UNION {Swipe(s) : s \in {}}) \intersect GestureKeys) = SetToSeq({})
          BY <4>7
        <5>3. Cardinality(Contacts(hand)) \notin 3..4
          <6>1. Reports(hand) = 1
            BY <2>6, <2>10, <4>1, <4>8
          <6>2. Cardinality(hand.down) \in {0, 1}
            BY <2>5, <6>1, FingersHavePlaces DEF Reports
          <6>3. QED
            BY <2>5, <6>2, FingersHavePlaces
        <5>4. D = [session |-> {}, gesture |-> {}]
          BY <2>3, <4>1, <4>3, <5>3
        <5>5. D.session = {} /\ SetToSeq(D.gesture \intersect GestureKeys) = SetToSeq({})
          BY <4>7, <5>4
        <5>6. QED
          BY <4>8, <5>1, <5>2, <5>5
      <4>9. CASE ~Flushes(a, r)
        <5>1. frame' = a /\ session' = {} /\ obeyed' = obeyed \o SetToSeq({} \intersect GestureKeys)
          <6>1. frame' = a /\ session' = {} /\ Obeys({})
            BY <4>9, <4>5, <4>6
          <6>2. QED
            BY <6>1 DEF Obeys
        <5>2. SetToSeq({} \intersect GestureKeys) = <<>>
          BY <4>7, NothingListed
        <5>3. QED
          BY <4>1, <4>7, <4>9, <5>1, <5>2
      <4>10. QED
        BY <4>8, <4>9
    <3>3. QED
      BY <3>1, <3>2
  <2>13. CASE k + 1 = Reports(hand)
    <3>1. frame' = NoFrame /\ session' = D.session /\ obeyed' = meant
      BY <2>4, <2>10, <2>12, <2>13
    <3>2. reports' = <<>>
      BY <2>11, <2>13
    <3>3. InTouch'
      BY <1>1, <2>1, <2>4, <3>1, <3>2 DEF InTouch
    <3>4. QED
      BY <1>5, <3>3 DEF TouchInv
  <2>14. CASE k + 1 # Reports(hand)
    <3>1. /\ frame' = Frame(hand, scans - 1, k + 1) /\ session' = session /\ obeyed' = obeyed
          /\ k + 1 \in 0..(Reports(hand) - 1)
      BY <2>10, <2>12, <2>14
    <3>2. reports' # <<>>
      BY <2>11, <2>14
    <3>3. Assembled'
      <4>1. k + 1 # 0
        OBVIOUS
      <4>2. QED
        BY <1>1, <2>11, <3>1, <4>1 DEF Assembled
    <3>4. Pending'
      BY <1>1, <2>1, <3>1 DEF Pending
    <3>5. InTouch'
      BY <1>1, <2>1, <3>1, <3>2, <3>3, <3>4 DEF InTouch
    <3>6. QED
      BY <1>5, <3>5 DEF TouchInv
  <2>15. QED
    BY <2>13, <2>14
<1>8. QED
  BY <1>6, <1>7

\* Every step, and none, keeps touch.
LEMMA TouchSteps == TouchInv /\ [TouchpadNext]_touchVars => TouchInv'
<1> SUFFICES ASSUME TouchInv, [TouchpadNext]_touchVars PROVE TouchInv'
  OBVIOUS
<1>1. CASE \E h \in Hands : Scan(h)
  BY <1>1, ScanKeepsTouch
<1>2. CASE ReportLost
  <2>1. TouchTypes'
    BY <1>2, ReportKeepsTypes DEF TouchInv, ReportLost
  <2>2. QED
    BY <1>2, <2>1 DEF TouchInv, ReportLost
<1>3. CASE ReportContinues \/ ReportSupersedes
  BY <1>3, ReportKeepsTouch
<1>4. CASE UNCHANGED touchVars
  BY <1>4 DEF touchVars, TouchInv, TouchTypes, InTouch, Assembled, Pending
<1>5. QED
  BY <1>1, <1>2, <1>3, <1>4 DEF TouchpadNext

\* Report by report, what the recogniser has of the hand is what the hand has done: the
\* frame holds the reports that came, and completing it gives the hand's own swipe
\* (RawTouchpadFrameAssembler and process_contacts of recognizer.rs).
THEOREM RecogniserStaysInTouch == TouchpadSpec => []TouchInv
<1>1. QED
  BY TouchBegins, TouchSteps, PTL DEF TouchpadSpec

\* The swipes obeyed are those the hand has made, each once and in order, as soon as
\* the last finger is lifted, and again once trouble is over (recognizer.rs).
THEOREM EverySwipeIsObeyed == TouchpadSpec => []SwipesAreObeyed
<1>1. TouchInv => SwipesAreObeyed
  BY DEF TouchInv, InTouch, SwipesAreObeyed
<1>2. QED
  BY <1>1, RecogniserStaysInTouch, PTL
=============================================================================
