----------------------------- MODULE Listeners -----------------------------
(***************************************************************************)
(* The input listeners of the daemon and their restart by a reload of the  *)
(* configuration (watch/support.rs): the thread of hotkeys/native.rs with  *)
(* its registered hotkeys, its low-level hook and the repeat loop of that  *)
(* hook (hotkeys/low_level.rs), and the touchpad listener                  *)
(* (touchpad/runtime.rs, native.rs, assessment.rs).                        *)
(*                                                                         *)
(* A reload starts the new generation while the old one still listens.  A  *)
(* hotkey the old one has registered cannot be registered again, and goes  *)
(* to the hook of the new one instead.  The system calls the newest hook   *)
(* first, an older one only with what the newer ones passed on, and a      *)
(* hotkey only when the key and its modifiers have passed every hook.      *)
(*                                                                         *)
(* What one hook makes of the keys is in Hotkeys; here a hook knows which  *)
(* modifiers went down since it was installed, and may wait with a Win key *)
(* for the rest of its chord.  Each chord has a key of its own and at least*)
(* one modifier, each modifier is one key; locks, auto-repeat and the Start*)
(* key are left to Hotkeys.                                                *)
(***************************************************************************)
EXTENDS Naturals, Sequences, FiniteSets

CONSTANTS BoundChords,   \* bound chords: [mods, repeats]
          Foreign,  \* chords another application has registered
          MaxGen,   \* bound: generations of listeners
          MaxPress, \* bound: presses of chords and modifiers
          MaxFails  \* bound: calls of the system that fail

Generations == 1..MaxGen
Mods        == UNION {c.mods : c \in BoundChords}

ASSUME BoundAssumption ==
  /\ BoundChords # {} /\ (\A c \in BoundChords : c.mods # {}) /\ Foreign \subseteq BoundChords
  /\ MaxGen \in Nat \ {0} /\ MaxPress \in Nat /\ MaxFails \in Nat

VARIABLES
  main,      \* "hotkeys" or "touchpad" (starting them), "dropping", "looping" or "exited"
  gen,       \* the generation that is being or was last started
  thread,    \* per generation: "none", "registering", "running", "unhooking",
             \* "unregistering" or "ended"
  table,     \* the registered hotkeys of the system: the generation of each chord, or 0
  hooks,     \* the generations with an installed hook
  caught,    \* per generation: fallback_registrations of its hook
  knows,     \* per generation: the modifiers among pressed_keys of its hook
  waits,     \* the hooks with a pending_win_prefix
  messages,  \* per generation, the messages of its thread: <<chord, due>>, or <<>> to
             \* quit; due: see Informed
  loops,     \* repeat loops: [gen, chord]
  touch,     \* the generations whose touchpad thread runs
  target,    \* the window raw input goes to: a generation or 0
  keys,      \* [down, held]: modifiers down, and the set of the chord whose key is down
  passed,    \* the modifiers the system believes down
  unseen,    \* history: modifiers down since before the newest hook
  lost,      \* history: chords pressed in vain
  spare      \* presses and failures left

systemVars    == <<table, hooks, target, keys, passed>>
threadVars    == <<thread, caught, knows, waits, messages, loops, touch>>
listenerVars  == <<main, gen, threadVars, systemVars, unseen, lost, spare>>

\* should_force_low_level_hook
Forced(c) == c.mods = {"Win"}
Quit      == <<>>

ListenersInit ==
  /\ main = "hotkeys" /\ gen = 1
  /\ thread = [g \in Generations |-> IF g = 1 THEN "registering" ELSE "none"]
  /\ table = [c \in BoundChords |-> 0]
  /\ hooks = {} /\ loops = {} /\ touch = {} /\ target = 0
  /\ caught = [g \in Generations |-> {}] /\ knows = [g \in Generations |-> {}]
  /\ messages = [g \in Generations |-> <<>>]
  /\ keys = [down |-> {}, held |-> {}]
  /\ waits = {} /\ passed = {} /\ unseen = {} /\ lost = {}
  /\ spare = [presses |-> MaxPress, fails |-> MaxFails, deaf |-> FALSE]

Fails == spare.fails > 0
Lives == main # "exited"

---------------------------------------------------------------------------
(* The thread of a generation: run_hotkey_thread. *)

\* What RegisterHotKey refuses falls back to the hook.
\* Mistake: what an older generation has registered does not.
Unowned == {c \in BoundChords : ~Forced(c) /\ c \notin Foreign}
Registrable == {c \in BoundChords : ~Forced(c) /\ c \notin Foreign /\ table[c] = 0}

Registers(g, hooking) ==
  /\ thread[g] = "registering" /\ Lives
  /\ LET mine == Registrable
     IN  /\ table' = [c \in BoundChords |-> IF c \in mine /\ table[c] = 0 THEN g ELSE table[c]]
         /\ caught' = [caught EXCEPT ![g] = IF hooking THEN BoundChords \ mine ELSE {}]
         /\ hooks' = IF hooking THEN hooks \union {g} ELSE hooks
         /\ unseen' = IF hooking THEN keys.down ELSE unseen
         \* "no hotkeys could be activated"
         /\ thread' = [thread EXCEPT ![g] = IF ~hooking /\ mine = {} THEN "ended" ELSE "running"]
         /\ IF hooking
            THEN mine # BoundChords /\ UNCHANGED spare
            ELSE \/ mine = BoundChords /\ UNCHANGED spare
                 \/ mine # BoundChords /\ Fails
                    /\ spare' = [spare EXCEPT !.fails = @ - 1, !.deaf = TRUE]
  /\ UNCHANGED <<main, gen, knows, waits, messages, loops, touch, target, keys, passed, lost>>

\* WM_HOTKEY: the command is sent.
HotkeyHandled(g) ==
  /\ thread[g] = "running" /\ messages[g] # <<>> /\ Head(messages[g]) # Quit
  /\ messages' = [messages EXCEPT ![g] = Tail(@)]
  /\ UNCHANGED <<main, gen, thread, caught, knows, waits, loops, touch, systemVars, unseen, lost, spare>>

QuitHandled(g) ==
  /\ thread[g] = "running" /\ messages[g] # <<>> /\ Head(messages[g]) = Quit
  /\ messages' = [messages EXCEPT ![g] = Tail(@)]
  /\ thread' = [thread EXCEPT ![g] = "unhooking"]
  /\ UNCHANGED <<main, gen, caught, knows, waits, loops, touch, systemVars, unseen, lost, spare>>

\* shutdown_low_level_hook: the hook goes, and with its runtime the repeat loop.
\* Mistake: the repeat loop is left running.
UnhooksOnly(g) ==
  /\ thread[g] = "unhooking"
  /\ hooks' = hooks \ {g}
  /\ thread' = [thread EXCEPT ![g] = "unregistering"]
  /\ waits' = waits \ {g}
  /\ UNCHANGED <<main, gen, caught, knows, messages, loops, touch, table, target, keys, passed, unseen, lost, spare>>
Unhooks(g) ==
  /\ thread[g] = "unhooking"
  /\ hooks' = hooks \ {g}
  /\ loops' = {l \in loops : l.gen # g}
  /\ thread' = [thread EXCEPT ![g] = "unregistering"]
  /\ waits' = waits \ {g}
  /\ UNCHANGED <<main, gen, caught, knows, messages, touch, table, target, keys, passed, unseen, lost, spare>>

\* A message that comes after the loop is lost with the thread.
Unregisters(g) ==
  /\ thread[g] = "unregistering"
  /\ table' = [c \in BoundChords |-> IF table[c] = g THEN 0 ELSE table[c]]
  /\ thread' = [thread EXCEPT ![g] = "ended"]
  /\ lost' = lost \union {c \in BoundChords : \E i \in DOMAIN messages[g] : messages[g][i] = <<c, TRUE>>}
  /\ messages' = [messages EXCEPT ![g] = <<>>]
  /\ UNCHANGED <<main, gen, caught, knows, waits, loops, touch, hooks, target, keys, passed, unseen, spare>>

---------------------------------------------------------------------------
(* The main loop. *)

\* spawn_native has the answer of the thread; without one in five seconds, or
\* without a hotkey, the daemon ends.
HotkeysStarted ==
  /\ main = "hotkeys"
  /\ \/ thread[gen] = "running" /\ main' = "touchpad" /\ UNCHANGED spare
     \/ thread[gen] = "ended" /\ main' = "exited" /\ UNCHANGED spare
     \/ thread[gen] = "registering" /\ Fails /\ main' = "exited"
        /\ spare' = [spare EXCEPT !.fails = @ - 1]
  /\ UNCHANGED <<gen, threadVars, systemVars, unseen, lost>>

\* assess_touchpad_override
Assess(enabled, bindings, setting) ==
  CASE ~enabled -> "disabled"
    [] enabled /\ bindings # "valid" -> "invalid-config"
    [] enabled /\ bindings = "valid" /\ setting = "enabled" -> "windows-touch-gestures-enabled"
    [] enabled /\ bindings = "valid" /\ setting = "unknown" -> "windows-touch-gesture-setting-unknown"
    [] OTHER -> "ready"

\* ensure_touchpad_override_supported
Supported(assessment) == assessment \in {"disabled", "ready"}

\* TouchpadListener::spawn: the window of the new one takes over the raw input.
TouchpadStarted(enabled, bindings, setting) ==
  /\ main = "touchpad"
  /\ LET status == Assess(enabled, bindings, setting)
     IN  IF Supported(status)
         THEN /\ main' = "dropping"
              /\ IF status = "ready" THEN touch' = touch \union {gen} /\ target' = gen
                 ELSE UNCHANGED <<touch, target>>
              /\ UNCHANGED spare
         ELSE /\ Fails /\ spare' = [spare EXCEPT !.fails = @ - 1]
              /\ main' = "exited" /\ UNCHANGED <<touch, target>>
  /\ UNCHANGED <<gen, thread, caught, knows, waits, messages, loops, table, hooks, keys, passed, unseen, lost>>

\* The old listeners are dropped, the hotkeys first: each is told to quit and
\* joined.
OldOnesEnded == \A g \in Generations \ {gen} : thread[g] \in {"none", "ended"}
HotkeysDropped ==
  /\ main = "dropping"
  /\ \E g \in Generations \ {gen} :
       /\ thread[g] = "running" /\ \A i \in DOMAIN messages[g] : messages[g][i] # Quit
       /\ messages' = [messages EXCEPT ![g] = Append(@, Quit)]
  /\ UNCHANGED <<main, gen, thread, caught, knows, waits, loops, touch, systemVars, unseen, lost, spare>>

TouchpadDropped ==
  /\ main = "dropping" /\ OldOnesEnded
  /\ main' = "looping"
  /\ touch' = touch \intersect {gen}
  /\ target' = IF target \in touch \intersect {gen} THEN target ELSE 0
  /\ UNCHANGED <<gen, thread, caught, knows, waits, messages, loops, table, hooks, keys, passed, unseen, lost, spare>>

Reloads ==
  /\ main = "looping" /\ gen < MaxGen
  /\ main' = "hotkeys" /\ gen' = gen + 1
  /\ thread' = [thread EXCEPT ![gen + 1] = "registering"]
  /\ UNCHANGED <<caught, knows, waits, messages, loops, touch, systemVars, unseen, lost, spare>>

---------------------------------------------------------------------------
(* The keyboard (external). *)

Pressing == Lives /\ spare.presses > 0 /\ spare' = [spare EXCEPT !.presses = @ - 1]

Newer(h) == {n \in hooks : n > h}

\* A Win key may begin a chord of the hook; it and what follows wait.
BeginsPrefixAt(h, m)  == m = "Win" /\ knows[h] = {} /\ \E c \in caught[h] : Forced(c)
SwallowsModifier(h, m) == h \in waits \/ BeginsPrefixAt(h, m)

\* The hooks that are told that a modifier went down or up.
Told(m)      == {h \in hooks : \A n \in Newer(h) : ~SwallowsModifier(n, m)}
ToldRelease  == {h \in hooks : Newer(h) \intersect waits = {}}

ModifierPressed(m) ==
  /\ Pressing /\ m \notin keys.down
  /\ keys' = [keys EXCEPT !.down = @ \union {m}]
  /\ knows' = [g \in Generations |-> IF g \in Told(m) THEN knows[g] \union {m} ELSE knows[g]]
  /\ waits' = waits \union {h \in Told(m) : BeginsPrefixAt(h, m)}
  /\ passed' = IF \E h \in hooks : SwallowsModifier(h, m) THEN passed ELSE passed \union {m}
  /\ UNCHANGED <<main, gen, thread, caught, messages, loops, touch, table, hooks, target, unseen, lost>>

\* A waiting hook swallows it; with the Win key the prefix ends.  (The releases a hook
\* swallows after a chord are of modifiers that nobody behind it saw go down.)  The repeat
\* loop of a chord ends with its modifiers, and is joined.
ModifierReleased(m) ==
  /\ Lives /\ m \in keys.down
  /\ keys' = [keys EXCEPT !.down = @ \ {m}]
  /\ knows' = [g \in Generations |-> IF g \in ToldRelease THEN knows[g] \ {m} ELSE knows[g]]
  /\ waits' = IF m = "Win" THEN waits \ ToldRelease ELSE waits
  /\ passed' = IF waits = {} THEN passed \ {m} ELSE passed
  /\ loops' = {l \in loops : l.gen \notin ToldRelease \/ m \notin l.chord.mods}
  /\ unseen' = unseen \ {m}
  /\ UNCHANGED <<main, gen, thread, caught, messages, touch, table, hooks, target, lost, spare>>

\* A hook takes the key of a chord for one of its own, or stops it because it is waiting.
Takes(h, c) == c \in caught[h] /\ knows[h] = c.mods
Stops(h, c) == h \in waits \/ Takes(h, c)
FirstToStop(h, c) == h \in hooks /\ Stops(h, c) /\ \A n \in Newer(h) : ~Stops(n, c)

\* The system has been shown the modifiers that are down, or the newest hook has them
\* waiting and nothing is left down that it would replay them onto.
Shown ==
  \/ passed = keys.down
  \/ passed \subseteq keys.down /\ \E h \in waits : Newer(h) = {}

\* The newest hook has seen the modifiers go down, and so has the system if the chord is
\* registered with it.
Informed(c) == c.mods \intersect unseen = {} /\ ~spare.deaf /\ (table[c] # 0 => Shown)

\* WM_HOTKEY goes to the thread that registered the key with just these modifiers.
SystemHears(c, mods) ==
  IF table[c] # 0 /\ mods = c.mods
  THEN messages' = [messages EXCEPT ![table[c]] = Append(@, <<c, Informed(c)>>)] /\ UNCHANGED lost
  ELSE /\ UNCHANGED messages
       /\ lost' = IF Informed(c) /\ (gen > 1 \/ main # "hotkeys") THEN lost \union {c} ELSE lost

ChordTaken(h, c) ==
  /\ FirstToStop(h, c) /\ Takes(h, c)
  /\ loops' = IF c.repeats THEN loops \union {[gen |-> h, chord |-> c]} ELSE loops
  /\ waits' = waits \ {h}
  /\ UNCHANGED <<messages, passed, lost>>

\* ReplayWinChord: a waiting hook replays modifiers and key, and lets all of them go.
ChordReplayed(h, c) ==
  /\ FirstToStop(h, c) /\ ~Takes(h, c)
  /\ SystemHears(c, passed \union knows[h])
  /\ passed' = passed \ knows[h]
  /\ waits' = waits \ {h}
  /\ UNCHANGED loops

ChordPassedOn(c) ==
  /\ \A h \in hooks : ~Stops(h, c)
  /\ SystemHears(c, passed)
  /\ UNCHANGED <<loops, waits, passed>>

ChordPressed(c) ==
  /\ Pressing /\ keys.held = {} /\ c.mods = keys.down
  /\ keys' = [keys EXCEPT !.held = {c}]
  /\ \/ \E h \in hooks : ChordTaken(h, c) \/ ChordReplayed(h, c)
     \/ ChordPassedOn(c)
  /\ UNCHANGED <<main, gen, thread, caught, knows, touch, table, hooks, target, unseen>>

\* A key that is nobody's ends the waiting of the newest hook that waits.
OtherKeyPressed ==
  /\ Pressing
  /\ \E h \in waits : /\ Newer(h) \intersect waits = {}
                      /\ waits' = waits \ {h} /\ passed' = passed \ knows[h]
  /\ UNCHANGED <<main, gen, thread, caught, knows, messages, loops, touch, table, hooks, target,
                 keys, unseen, lost>>

\* stop_repeat_loop
ChordReleased ==
  /\ Lives /\ keys.held # {}
  /\ keys' = [keys EXCEPT !.held = {}]
  /\ loops' = {l \in loops : l.gen \notin hooks \/ l.chord \notin keys.held}
  /\ UNCHANGED <<main, gen, thread, caught, knows, waits, messages, touch, table, hooks, target, passed,
                 unseen, lost, spare>>

---------------------------------------------------------------------------

ThreadTurns == \E g \in Generations :
  \/ \E hooking \in BOOLEAN : Registers(g, hooking)
  \/ HotkeyHandled(g) \/ QuitHandled(g) \/ Unhooks(g) \/ Unregisters(g)

MainTurns ==
  \/ HotkeysStarted \/ HotkeysDropped \/ TouchpadDropped
  \/ \E enabled \in BOOLEAN, bindings \in {"valid", "none", "duplicate", "unknown"},
        setting \in {"disabled", "enabled", "unknown"} : TouchpadStarted(enabled, bindings, setting)

KeyboardTurns ==
  \/ \E m \in Mods : ModifierPressed(m) \/ ModifierReleased(m)
  \/ \E c \in BoundChords : ChordPressed(c)
  \/ OtherKeyPressed
  \/ ChordReleased

ListenersNext == ThreadTurns \/ MainTurns \/ Reloads \/ KeyboardTurns

ListenersSpec == ListenersInit /\ [][ListenersNext]_listenerVars

---------------------------------------------------------------------------

\* No press of a bound chord is lost during and after a reload, if its modifiers
\* went down after the newest hook was installed, no hook failed and, for a chord
\* registered with the system, no hook has kept a modifier that is down from it
\* (low_level.rs swallows the Win key and what follows it, and lets all of it go
\* after one replay): there is always a hook or a registration for the chord, and
\* a thread that still listens.
NoChordIsLost == lost = {}

\* A command repeats only while its key is down, whichever generation repeats it.
RepeatsEnd == \A l \in loops : l.chord \in keys.held
=============================================================================
