---------------------------- MODULE Hotkeys ----------------------------
(***************************************************************************)
(* The low-level keyboard hook of apps/core-daemon/src/hotkeys/low_level.rs*)
(* between the keyboard and the applications.  The hook sees every key-down*)
(* (also those of the keyboard's auto-repeat) and key-up, and either passes*)
(* it on or swallows it; a Win key that may begin a chord is swallowed     *)
(* until the chord is known, and replayed to the shell if it is nobody's.  *)
(*                                                                         *)
(* Injected events, which the hook passes on untouched, are left out: the  *)
(* hook's own replays press and release the keys of a chord at once, so for*)
(* the applications they only leave those keys up.  What a command does is *)
(* the business of the daemon's main loop; here it is its registration.    *)
(***************************************************************************)
EXTENDS Naturals, FiniteSets

CONSTANTS Keys,       \* virtual keys
          ModifierOf, \* the modifier each key is, or None
          Bindings,   \* the registrations: [key, mods, repeats]
          StartKey,   \* S: Win+S opens the start menu
          LockKey,    \* L: Win+L locks the workstation
          MaxDown,    \* bound: keys physically down at a time
          MaxMissed,  \* bound: keys whose release the hook has missed, at a time
          None

Modifiers == {"Ctrl", "Alt", "Shift", "Win"}

\* parse_trigger accepts no modifier as the key of a trigger.  Of two
\* registrations of one chord only the first can fire; the second is left out.
ASSUME NoneAssumption == None \notin Keys /\ None \notin Bindings /\ None \notin Modifiers
ASSUME ModifierAssumption == ModifierOf \in [Keys -> Modifiers \union {None}]
ASSUME BindingsAssumption ==
  /\ \A b \in Bindings : b \in [key : Keys, mods : SUBSET Modifiers, repeats : BOOLEAN]
  /\ \A b \in Bindings : ModifierOf[b.key] = None
  /\ \A b, c \in Bindings : b.key = c.key /\ b.mods = c.mods => b = c

VARIABLES
  \* LowLevelHotkeyState and SUPER_HELD
  pressed,             \* pressed_keys
  trigger,             \* active_trigger: a registration or None
  pending,             \* pending_win_prefix: a Win key or None
  suppressedHeld,      \* suppressed_held_keys
  suppressedReleases,  \* suppressed_key_releases
  superHeld,
  \* The world
  down,       \* keys physically down
  repeating,  \* the key the keyboard repeats: the last one pressed
  seen,       \* keys the applications believe down
  fired,      \* keys down whose present press issued a command
  locked,     \* the workstation is locked or shows a secure desktop: the hook sees nothing
  missed      \* keys the hook holds pressed although they went up where it saw nothing

hook  == <<pressed, trigger, pending, suppressedHeld, suppressedReleases, superHeld>>
world == <<down, repeating, seen, fired, locked, missed>>
vars  == <<hook, world>>

IsWin(k)      == ModifierOf[k] = "Win"
IsModifier(k) == ModifierOf[k] \in {"Ctrl", "Alt", "Shift"}
Mask(keys)    == {ModifierOf[k] : k \in keys} \ {None}

HasPureWinBindings == \E b \in Bindings : b.mods = {"Win"}
Matching(k, mask)  == {b \in Bindings : b.key = k /\ b.mods = mask}

Init ==
  /\ pressed = {} /\ trigger = None /\ pending = None
  /\ suppressedHeld = {} /\ suppressedReleases = {} /\ superHeld = FALSE
  /\ down = {} /\ repeating = None /\ seen = {} /\ fired = {} /\ locked = FALSE
  /\ missed = {}

\* A definition marked "mistake" is a wrong variant of the one after it: the
\* properties are exercised by putting it in its place.

Insert(k) == /\ pressed' = pressed \union {k}
             /\ superHeld' = (superHeld \/ IsWin(k))
             /\ UNCHANGED <<locked, missed>>

Swallow == UNCHANGED <<seen, fired>>

---------------------------------------------------------------------------
(* handle_pending_win_key_down: a Win key has been swallowed and waits for *)
(* the rest of its chord.                                                  *)

\* Further modifiers wait with it.
ExtendPrefix(k) ==
  /\ IsWin(k) \/ IsModifier(k)
  /\ Insert(k) /\ Swallow
  /\ UNCHANGED <<trigger, pending, suppressedHeld, suppressedReleases>>

\* suppress_pending_modifier_releases
PrefixKeys == {pending} \union {m \in pressed : IsModifier(m)}

MatchPrefix(k) ==
  /\ ~IsWin(k) /\ ~IsModifier(k)
  /\ \E b \in Matching(k, Mask(pressed)) : trigger' = b
  /\ pending' = None
  /\ suppressedReleases' = suppressedReleases \union PrefixKeys
  /\ fired' = fired \union {k}
  /\ Insert(k)
  /\ UNCHANGED <<suppressedHeld, seen>>

\* A chord that is nobody's.
Unmatched(k) == ~IsWin(k) /\ ~IsModifier(k) /\ Matching(k, Mask(pressed)) = {}

\* Win alone is tapped for the shell, the key itself is swallowed.
TransferToStart(k) ==
  /\ Unmatched(k) /\ Mask(pressed) = {"Win"} /\ k = StartKey
  /\ pending' = None
  /\ suppressedHeld' = suppressedHeld \union {k}
  /\ suppressedReleases' = suppressedReleases \union {k, pending}
  /\ seen' = seen \ {pending}
  /\ Insert(k)
  /\ UNCHANGED <<trigger, fired>>

\* The hook forgets everything and asks the system to lock, which a policy may
\* forbid and which happens later otherwise (SwitchesAway).
LockWorkstation(k) ==
  /\ Unmatched(k) /\ Mask(pressed) = {"Win"} /\ k # StartKey /\ k = LockKey
  /\ pressed' = {} /\ trigger' = None /\ pending' = None
  /\ suppressedHeld' = {} /\ suppressedReleases' = {} /\ superHeld' = FALSE
  /\ locked' \in BOOLEAN
  /\ seen' = IF locked' THEN {} ELSE seen
  /\ missed' = missed \intersect seen'
  /\ UNCHANGED fired

\* The whole chord is pressed and released for the shell.
ReplayChord(k) ==
  /\ Unmatched(k) /\ (Mask(pressed) = {"Win"} => k \notin {StartKey, LockKey})
  /\ pending' = None
  /\ suppressedHeld' = suppressedHeld \union {k}
  /\ suppressedReleases' = suppressedReleases \union {k} \union PrefixKeys
  /\ seen' = seen \ ({k} \union PrefixKeys)
  /\ Insert(k)
  /\ UNCHANGED <<trigger, fired>>

DuringPrefix(k) ==
  /\ pending # None
  /\ \/ ExtendPrefix(k)
     \/ MatchPrefix(k)
     \/ TransferToStart(k)
     \/ LockWorkstation(k)
     \/ ReplayChord(k)

---------------------------------------------------------------------------
(* The rest of handle_key_event for a key-down, in the order of the code.  *)

\* Mistake: the auto-repeat of Win is not excluded.
BeginsPrefixOnRepeat(k) ==
  IsWin(k) /\ HasPureWinBindings /\ Mask(pressed \union {k}) = {"Win"} /\ trigger = None

BeginsPrefix(k) ==
  /\ k \notin pressed
  /\ IsWin(k)
  /\ HasPureWinBindings
  /\ Mask(pressed \union {k}) = {"Win"}
  /\ trigger = None

BeginPrefix(k) ==
  /\ BeginsPrefix(k)
  /\ pending' = k
  /\ Insert(k) /\ Swallow
  /\ UNCHANGED <<trigger, suppressedHeld, suppressedReleases>>

\* The auto-repeat of a swallowed key, and of the key of the active trigger.
SwallowsRepeat(k) ==
  \/ k \in pressed /\ k \in suppressedHeld
  \/ trigger # None /\ trigger.key = k

SwallowRepeat(k) ==
  /\ ~BeginsPrefix(k) /\ SwallowsRepeat(k)
  /\ Insert(k) /\ Swallow
  /\ UNCHANGED <<trigger, pending, suppressedHeld, suppressedReleases>>

Fires(k) == k \notin pressed /\ Matching(k, Mask(pressed \union {k})) # {}

Fire(k) ==
  /\ ~BeginsPrefix(k) /\ ~SwallowsRepeat(k) /\ Fires(k)
  /\ \E b \in Matching(k, Mask(pressed \union {k})) : trigger' = b
  /\ fired' = fired \union {k}
  /\ Insert(k)
  /\ UNCHANGED <<pending, suppressedHeld, suppressedReleases, seen>>

Pass(k) ==
  /\ ~BeginsPrefix(k) /\ ~SwallowsRepeat(k) /\ ~Fires(k)
  /\ seen' = seen \union {k}
  /\ Insert(k)
  /\ UNCHANGED <<trigger, pending, suppressedHeld, suppressedReleases, fired>>

OutsidePrefix(k) ==
  /\ pending = None
  /\ \/ BeginPrefix(k)
     \/ SwallowRepeat(k)
     \/ Fire(k)
     \/ Pass(k)

KeyDown(k) == DuringPrefix(k) \/ OutsidePrefix(k)

---------------------------------------------------------------------------
(* A key-up: handle_pending_win_key_up and the rest of handle_key_event.   *)
(* The three reasons to swallow it are evaluated with a short-circuiting   *)
(* or, so the sets keep the key when an earlier reason holds already.      *)

TriggerOwns(k)   == trigger # None /\ trigger.key = k
PrefixOwns(k)    == pending # None /\ (k = pending \/ IsModifier(k))
SwallowsUp(k)    == \/ TriggerOwns(k) \/ PrefixOwns(k)
                    \/ k \in suppressedHeld \/ k \in suppressedReleases

\* Mistake: the modifiers are not looked at.
TriggerLivesByKey(keys) == trigger.key \in keys

TriggerLives(keys) == trigger.key \in keys /\ trigger.mods \subseteq Mask(keys)

KeyUp(k) ==
  /\ pressed' = pressed \ {k}
  /\ suppressedHeld' = IF TriggerOwns(k) THEN suppressedHeld ELSE suppressedHeld \ {k}
  /\ suppressedReleases' = IF TriggerOwns(k) \/ k \in suppressedHeld THEN suppressedReleases
                           ELSE suppressedReleases \ {k}
  /\ trigger' = IF trigger # None /\ TriggerLives(pressed \ {k}) THEN trigger ELSE None
  /\ pending' = IF pending = k THEN None ELSE pending
  /\ superHeld' = (superHeld /\ ~IsWin(k))
  /\ seen' = IF SwallowsUp(k) THEN seen ELSE seen \ {k}
  /\ fired' = fired \ {k}
  /\ missed' = IF k \in seen' THEN missed ELSE missed \ {k}
  /\ UNCHANGED locked

---------------------------------------------------------------------------
(* The keyboard.  A key that goes down is repeated until it goes up or     *)
(* another one goes down.  While the workstation is locked, or a secure    *)
(* desktop is shown, the hook does not run; nothing tells it afterwards    *)
(* what it has missed.                                                     *)

Press(k) ==
  /\ ~locked /\ k \notin down /\ Cardinality(down) < MaxDown
  /\ down' = down \union {k} /\ repeating' = k
  /\ KeyDown(k)

Repeat(k) ==
  /\ ~locked /\ repeating = k
  /\ KeyDown(k)
  /\ UNCHANGED <<down, repeating>>

Release(k) ==
  /\ ~locked /\ k \in down
  /\ down' = down \ {k} /\ repeating' = IF repeating = k THEN None ELSE repeating
  /\ KeyUp(k)

\* The workstation is locked (Win+L that was passed on, an idle lock) or the
\* secure desktop appears (Ctrl+Alt+Del, UAC): the hook keeps what it holds, and
\* the applications lose the keyboard.
SwitchesAway ==
  /\ ~locked /\ locked' = TRUE /\ seen' = {}
  /\ UNCHANGED <<hook, down, repeating, fired, missed>>

UnseenPress(k) ==
  /\ locked /\ k \notin down /\ Cardinality(down) < MaxDown
  /\ down' = down \union {k} /\ repeating' = k
  /\ UNCHANGED <<hook, seen, fired, locked, missed>>

UnseenRelease(k) ==
  /\ locked /\ k \in down /\ down' = down \ {k} /\ fired' = fired \ {k}
  /\ repeating' = IF repeating = k THEN None ELSE repeating
  /\ missed' = missed \union ({k} \intersect pressed)
  /\ Cardinality(missed') <= MaxMissed
  /\ UNCHANGED <<hook, seen, locked>>

Unlock ==
  /\ locked /\ locked' = FALSE
  /\ UNCHANGED <<hook, down, repeating, seen, fired, missed>>

Next ==
  \/ \E k \in Keys : Press(k)
  \/ \E k \in Keys : Repeat(k)
  \/ \E k \in Keys : Release(k)
  \/ SwitchesAway
  \/ \E k \in Keys : UnseenPress(k)
  \/ \E k \in Keys : UnseenRelease(k)
  \/ Unlock

Spec == Init /\ [][Next]_vars

---------------------------------------------------------------------------

TypeOK ==
  /\ pressed \subseteq Keys
  /\ trigger \in Bindings \union {None}
  /\ pending \in Keys \union {None}
  /\ suppressedHeld \subseteq Keys
  /\ suppressedReleases \subseteq Keys
  /\ superHeld \in BOOLEAN
  /\ down \subseteq Keys
  /\ repeating \in Keys \union {None}
  /\ seen \subseteq Keys
  /\ fired \subseteq Keys
  /\ locked \in BOOLEAN
  /\ missed \subseteq Keys

\* What the hook has to take for down: the keys that are, and those whose release
\* it was not shown and that have not gone up before its eyes since.
Held == down \union missed

\* A command that repeats while held repeats only while its key and each of its
\* modifiers are held; a lock or a secure desktop alone hides the end of it.
TriggerIsHeld ==
  trigger # None =>
    /\ trigger.key \in Held
    /\ trigger.mods \subseteq Mask(Held)

\* A mouse drag with the Win key is possible only while one is held.
SuperIsHeld == superHeld => \E k \in Held : IsWin(k)

\* A Win key that waits for its chord is held and the applications have not seen
\* it, and no trigger is active meanwhile.
PrefixIsHidden ==
  pending # None => /\ IsWin(pending) /\ pending \in Held
                    /\ pending \notin seen \/ pending \in missed
                    /\ trigger = None

\* Modifiers never stick: for the applications a Win, Ctrl, Alt or Shift key is
\* down only while it is held, although the hook swallows some of their presses
\* and some of their releases.
ModifiersNeverStick ==
  \A k \in seen : IsWin(k) \/ IsModifier(k) => k \in Held

\* No key sticks: what the applications believe down is held.
KeysNeverStick == seen \subseteq Held

\* The key of a chord does not leak into the applications while it is held.
ChordKeysNeverLeak == fired \intersect seen = {}

\* A key that is held fires once: what the keyboard repeats of a key the hook holds
\* pressed fires nothing, neither the command of its press again nor, when a modifier was
\* released or a prefix has begun since, that of another chord.
RepeatsFireNothing ==
  [][\A k \in Keys : Repeat(k) /\ k \in pressed \ missed => trigger' = trigger]_vars
===========================================================================
