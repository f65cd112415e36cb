# FlowtileWM in TLA+

TLA+ models of FlowtileWM, the scrolling tiling window manager for Windows kept
in `src/`: what is modelled, what TLC checks, what TLAPS proves, and what is
left. The reference is the Rust code; every definition that models code is
listed with its lines in `PROJECT.json` under "map".

## 1. The system

One daemon process (`apps/core-daemon`) owns one `StateStore`
(`crates/wm-core`), whose state is a `WmState` (`crates/domain`). One thread
runs the main loop (`watch.rs`); everything else feeds it, or is told by it what
to draw.

| component | state | operations | modelled in |
|---|---|---|---|
| Window-manager state, `domain/model.rs` | monitors, one workspace set per monitor (order, active), workspaces (columns, floating windows, remembered focus, empty-tail mark, scroll offset), columns (mode, width, windows, selections), windows (layer, flags, restore target), focus, overview, resize session | `add_monitor`, `normalize_workspace_set`, allocation of identifiers | `WmState`, `Strip` |
| State store, `wm-core/state_store*` | the `WmState` | `dispatch`: one handler per event, then the layout of the workspace; no rollback | `StateStore`, `WmStore`, `Strip` |
| Layout engine, `layout-engine` | none | widths, scroll range, geometry of a workspace | `Strip` |
| Runtime: observation, `runtime/observation.rs` | last snapshot, pending discoveries with stable ticks, focus candidates | `sync_snapshot`: monitors, discoveries, prune, focus | `Runtime`, `Discovery` |
| Runtime: commands, `runtime.rs`, `apply_policy.rs` | focus claim, settle window, registry of what is shown | `dispatch_command`, plan, apply | `Runtime`, `Presentation` |
| Runtime: validation, `validation.rs` | count of desyncs, known minimum widths, degraded flag | `validate_after_apply`: rescan, retry, adapt, unwind | `Recovery` |
| Configuration, `runtime/config.rs`, `config-rules` | projection, rules, bindings, generation | `reload_config` | `Runtime`, `Daemon`, `Listeners` |
| Main loop, `watch*` | control channel, subscribers, surfaces, version told last | a turn: control messages, listeners' health, observation, broadcast | `Daemon` |
| IPC, `ipc.rs`, `crates/ipc` | one thread per connection, channels of subscribers | requests, event stream | `Daemon` |
| Observer, `windows-adapter/native_observer*` | its own snapshot, last event, interval | WinEvent callback, refresh, scan | `Observer` |
| Window filter, `native_snapshot*`, `windows-adapter/lib.rs` | none | which windows are captured, kept, candidates | `Discovery` |
| Presentation, `native_apply*` | three worker threads with hosts, registry of clipped windows | ordered or batched operations, clean-up | `Presentation` |
| Registered hotkeys and triggers, `hotkeys*` | registrations, thread | start, stop, forward | `Listeners` |
| Low-level keyboard hook, `hotkeys/low_level.rs` | pressed keys, active trigger, pending Win prefix, two sets of suppressed keys, repeat loop | `handle_key_event` | `Hotkeys`, `Listeners` |
| Touchpad, `touchpad*` | frame being assembled, gesture, commands | reports to frames to swipes | `Touchpad`, `Listeners` |
| Mouse resize, `manual_resize.rs` | hook flags, drag, preview thread | tick, press, release, commit, cancel | `ManualResize`, `WmStore` |
| Overview surface, `overview_*` | worker thread, scene, animations, freeze | show, update, hide, freeze, thaw | `Overview` |

Events of the platform, keys, the touchpad, the mouse, requests and timers reach
the store in any order: each has a thread of its own and channels join them. A
handler of the store runs alone. Two kinds of difficulty follow:

- inside the store, **long sequences of legal events from independent parties**
  meet state copied in several places: the active workspace (twice), the column
  of a window (window, column, strip), the place a window returns to, the mark of
  the overview, the session of a drag, the scroll offset of a strip whose columns
  others change. The reducer does not roll back, and whether an error ends the
  daemon depends on who caused it;
- around the store, **every neighbour answers late, partly or not at all**:
  snapshots wait in a channel while commands run, the observer keeps only the
  last event, three worker threads obey orders the main loop has given up waiting
  for, a reload starts new listeners before it stops the old ones, clients leave
  while their answer is written, windows refuse to be moved.

What makes each component correct:

- state and store: every workspace, column and window is in one place; copies
  agree; the set of workspaces keeps its normal form and its order; modes can be
  undone; an error changes nothing; what the user works on is in sight;
- hooks: a trigger, a prefix and a flag mean keys that are really down; no key,
  click or repeating command is left behind; chords survive a reload;
- runtime: a live focus claim is not overridden by late news; what is open is
  tracked and what is tracked is open; a lasting desync ends in the unwind and
  nothing else does;
- presentation and overview: what is shown is what is wanted, and what is not
  wanted any more goes away, also when the answer came too late;
- daemon: every request is answered and every subscriber learns the last version.

`PROJECT.json` lists every component with its status and every hazard at its
line.

## 2. Modules

| module | models | kind |
|---|---|---|
| `WmState` | `WmState` of `domain/model.rs` | operators on one state record |
| `StateStore` (extends `WmState`) | the handlers of `state_store.rs`, `workspace.rs`, `window_modes.rs`, `overview.rs`, `width_resize.rs`; declares the variables `st` and `up` for the two modules that use them | operators from a state to a result `[st, ok, ws]` |
| `WmStore` (extends `StateStore`) | the daemon's use of the store: events, their sources, what an error does | state machine |
| `Strip` | widths, scroll offset and geometry of one workspace | state machine |
| `Runtime` (extends `StateStore`) | `sync_snapshot`, commands, claims and reload on the handlers of the store | state machine, liveness |
| `Discovery` | capture, filter of embedded windows, candidates, stable ticks | state machine, liveness |
| `Observer` | the observer thread, its channel, the fall-back to polling | state machine, liveness |
| `Presentation` | plan, apply and the worker threads of copies, slices and dimming | state machine, liveness |
| `Recovery` | validation, retry, adaptation, unwind | state machine, liveness |
| `Daemon` | main loop, IPC threads, event stream, surfaces, reload | state machine, liveness |
| `Hotkeys` | `LowLevelHotkeyState` with keyboard, applications and lock screen | state machine |
| `Listeners` | generations of listeners under reload, repeat loops | state machine |
| `Touchpad` | device, frame assembly, recogniser, commands | state machine |
| `ManualResize` | mouse hook, controller, preview thread | state machine, liveness |
| `OverviewPromise` | what the overview surface promises | abstract specification |
| `Overview` | main loop, worker, animations, freeze; refines `OverviewPromise` | state machine, liveness, refinement |
| `WmStoreProofs`, `PlacementProofs`, `CommandsProofs`, each on the one before | theorems about `WmStore` | proofs |
| `KeyboardProofs` | theorems about `Hotkeys` and `Listeners` | proofs |
| `SurfaceProofs` | theorems about `Overview` and `ManualResize` | proofs |
| `DesktopProofs` | theorems about `Recovery` and `Presentation` | proofs |
| `RuntimeProofs` | theorems about `Runtime` and `Discovery` | proofs |
| `DataProofs` | lemmas about lists, orders and folds the others cite | proofs |
| `MCWmStore`, `MCHotkeys`, `MCDiscovery` | payloads, monitors, keyboards, looks for TLC | instances |
| `MCRuntime`, `MCDesktop`, `MCInput` | several parts, each for itself | instances |

`Runtime` and `WmStore` are compositions: both run the handlers of `StateStore`,
one under the snapshots, deadlines and plans of the runtime, the other under
every source of events. The other parts meet the store through narrow
interfaces (a snapshot, a plan, a command that succeeds or fails), and each
models the other side of its interface as freely as the code allows: `Observer`
delivers to a main loop that may stop reading, `Daemon` runs commands that may
fail, `Listeners` knows of a hook only which modifiers it has seen and whether it
waits with a Win key for the rest of a chord.

`MCRuntime`, `MCDesktop` and `MCInput` check several such parts in one run. The
variable `part` says which of them takes steps, the others rest in one of their
initial states; the state space is the sum of the parts and not their product.
Every property mentions the variables of one part only, so for the other parts
it is checked on their resting state. A fairness condition of a part is
restricted to the behaviours in which the part takes steps.

### WmState, StateStore, WmStore

The state is one record `st` with the maps of the Rust struct (`sets`,
`workspaces`, `columns`, `windows`, `focus`, `overview`, `session`) and `up`,
whether the daemon runs. A handler is an operator because Rust handlers call
each other; one action of `WmStore` is one event with the whole of its handler:
detaching, inserting, focusing, normalising and the layout at the end.

What is abstracted, and why it is sound:

- *Workspace sets are identified with their monitor*: `add_monitor` creates one
  for each, and neither is ever deleted.
- *Identifiers.* The counters of the code only grow; the model takes the least
  number nothing in the state refers to, dangling references included. The code
  only compares identifiers for equality, so a number nobody refers to is as
  good as a new one, and the state space is finite.
- *Rectangles, widths, scroll offsets, the maximised flag* are in `Strip`: no
  handler that changes the structure reads them. Workspace names and z hints are
  left out (a z hint is written and never read to order windows). `NavOrder`
  gives the order of monitors that follows from their positions.
- *Layout and scrolling* appear as their error condition, `CanLayout`. `Settle`
  is the end of a handler under it.
- *Errors.* `Err(s)` keeps the state at the point of failure. `Fatal` is an error
  that ends the daemon (snapshot, key, mouse drag, drop), `Answered` one that is
  returned to a client while the daemon goes on.
- *The projection* (managed monitors, default column mode) is constant in
  `WmStore`; `Runtime` reloads it.

### Strip

One workspace seen from its scroll offset: `strip` holds the viewport's width,
the columns with width and maximised flag, the offset, the focus (a column, the
floating window, nothing), whether the focus is in this workspace, and what is on
the floating layer. Coordinates are relative to the tiled viewport, so gaps and
padding that a reload changes are changes of the viewport. A column holds one
window, as the rules of the configuration place it; the floating layer holds one
at most. A new window opens with the width a rule gives it, or with the one it had,
bounded by the viewport (`WidthsOfNew`); a column of another workspace brings its own
(`OtherColumns`). A mouse resize may commit any width to any column that exists; the
least one is enumerated, `CyclesWidth` brings the wider ones. Each action ends
with the clamp, the reveal or the lack of one of its handler: that is the matter
of the module.

### Runtime and Discovery

`Runtime` cuts a job of the main loop (`job.pc`) where deadlines can pass or the
desktop can change: a snapshot enters, windows are discovered, missing ones
pruned, claims and focus settled, a command dispatched, the plan applied.
Snapshots wait in a channel, so a job may run with one that is older than the
last command. A window's rectangle is the monitor it is on.

`Discovery` holds the windows of the desktop as *looks* (kind, program, class,
title, rectangle, shadow up to what the code asks of them), the observer's
picture and the pending discoveries. The ratios of `window_filtering.rs` are
compared by cross multiplication. Which monitor a window is on
(`MonitorFromWindow`) and rounding at a ratio's boundary are abstracted, and an
envelope is consumed at once (late ones are the matter of `Runtime`).

### Observer

The desktop changes with or without a WinEvent; the callback keeps only the last
event; the thread refreshes one window of its own snapshot or scans everything,
at intervals that double. Calls fail, the thread dies, its start times out, the
main loop joins it and polls.

### Presentation and Recovery

`Presentation` plans for each managed window where it should be (in place, parked behind a
live copy, spilling onto another monitor) and applies it through the workers. A worker obeys
late or refuses; a show that fails half-way can leave a copy on the screen without its
picture ("blank"), a hiding can fail although it hides; and a worker promotes the owner of a
copy of its own accord, when the owner or a popup of it is in front. Clean-up and unwind run
through the same channels. In live mode a quiet desktop has no cycle
(`runtime_cycle.rs:87`): no cycle has to begin, one that has begun goes on. Windows of
classes no copy may be made of, copies that have no slices and the clip registry are kept
apart; animated operations are left out, and so is an open overview.

`Recovery` is one cycle after an apply: scan, compare, retry, adapt to minimum widths,
count, unwind. A column that is made wider shifts its neighbours, which are then to be moved
by the retry; a command scans before it dispatches. Cycles need not come either. A window is
right, off or too wide; windows refuse to be moved or activated, come and go, and are of the
kind whose geometry is validated or not.

### Daemon

The step of the turn (`step`) is explicit. Clients connect, write, read late or
leave; subscribers have a channel and a thread each; orders of the hooks, the
touchpad and the surfaces arrive on the control channel; every command, apply,
surface or write may fail. Only the outcome and the state version of a command
are kept. The channels are unbounded in the code, as here; the number of orders
is the bound.

### Hotkeys, Listeners, Touchpad, ManualResize

The variables `pressed`, `trigger`, `pending`, `suppressedHeld`,
`suppressedReleases` and `superHeld` of `Hotkeys` are the hook's; `down`,
`repeating`, `seen`, `fired`, `locked` and `missed` are the world. Key-downs are split along
the early returns of `handle_key_event`, one action each; a key-up is one action,
with the short-circuiting `||` of the code kept. A lock or a secure desktop may come at any
moment (`SwitchesAway`: an idle lock, Ctrl+Alt+Del, a UAC prompt, a Win+L the hook passed
on), and keys go down and up behind it unseen. Nothing resets the hook then, so a key it
has not seen go up stays in `pressed`, and with it a trigger or the Super flag. `missed` is
the set of these keys, until they go up before its eyes; `Held` is what the hook has
to take for down, `down \union missed`. Injected events are passed on untouched and not
modelled.

`Listeners` keeps every generation of listeners with its registrations, its hook
and its repeat loops. The newest hook hears first, an older one what the newer ones pass on, the
system with its registered hotkeys what all of them pass on. A hook with Win bindings
swallows a Win key and the modifiers behind it (`waits`), so neither older hooks nor the system
are told of them; at a key that is none of its chords it replays all of them, releases
included, so that afterwards the system believes up what is still down (`passed` is what it
believes). Locks, auto-repeat and the letters with a meaning of their own are in `Hotkeys` only.

`Touchpad` is the device (one report per finger, each with scan time and
number of contacts; a report may be lost), the assembly of frames, the gesture and
its command. Positions are multiples of `Step` with an offset `Gap` between
fingers. `stroke` and `meant` are the hand's own swipes and know nothing of reports and
frames.

`ManualResize` has the user (button, Super, pointer), the hook thread's flags, the
controller's tick in the steps between which they can change, and the preview
thread. A rectangle is its left and right edge. The timeouts at start, poisoned
locks and what is drawn are left out.

### Overview and OverviewPromise

The main loop sends scene after scene and waits two seconds; the worker opens, animates,
fails, dies; the hook asks it to freeze behind the screenshot tool and replays the keys that
call the tool after that; a freeze that fails may leave its copy of the screen; a scene that
cannot be built drops the surface; polls thaw it. `OverviewPromise` says what is promised of
all that: what comes onto the screen is what the state asks for at that moment, nothing may
be shown at any time, and what is not asked for any more does not stay. `asked` is mapped to
`Wanted`, `seen` to the scene on the screen. Not modelled: the pointer on the previews, and
a worker that starts after its start was given up.

### Mistakes

A definition marked "mistake" is a wrong variant of the definition after it: a
dropped guard, a missing write, a swapped order. Nothing uses them. Replacing the
right one by it must break the property named with it in `PROJECT.json`
("mutants"): that is how each property shows that it depends on the code.

## 3. Runs

The deadlock check is off where the system may really stop: an event that fails
ends the daemon, and a bounded environment comes to rest. `hotkeys_stick` and
`hotkeys_leak` leave it on.

| run | instance | question |
|---|---|---|
| `store_modes` | 1 monitor, 2 windows of any kind, keys and requests; floating, fullscreen, tabs, navigation | `WindowsPlacedOnce`: lists and records agree. `ModesRoundTrip`: a window floated or made fullscreen and back is among the same neighbours. `FailedRequestsChangeNothing`: no half-done handler. `OnlyFloatedFullscreenMixesFlags`: the only way to upset layer and flags |
| `store_monitors` | 2 monitors, 2 tiled windows, keys and requests; navigation, workspaces activated and moved between monitors, columns | `WorkspacesCohere`, `ColumnsPartitioned`, `FocusCoherent`: one place for everything, and copies agree. `OthersCloseQuietly` |
| `store_strip` | 2 monitors, one of them managed, 2 windows, tiled before the focused column or floating, keys; activation, order, monitors | `NormalForm` (normalising is idempotent and keeps what is occupied), `OrderIsKept`, `EndsOnlyWithAWorkspace`: the one way a platform event ends the daemon. `OrdinaryMonitorsLeftAlone`: keys leave the other monitor as it is |
| `store_overview` | 1 monitor, 2 windows, keys and requests; overview, columns, a mouse resize | `OnlyDirectFocusMisplacesMark`; `DragEndsWell`: no step of a resize fails because of what happened between them |
| `store_tabs` | 1 monitor, 3 windows in tabbed and shared columns, keys; navigation, tabs, floating | `ColumnSelection` |
| `runtime` | `MCRuntime`: 2 handles, 2 monitors, a channel of 1 old snapshot, 3 changes of the desktop, 1 command, a reload; 2 windows with 9 looks each; a strip of 3 windows that open with 2 widths | `LiveClaimHolds`, `OnlyStaleSnapshotsForget`, `DesktopIsCaughtUp` (liveness); `OnlySurfacesAreDropped`, `CandidatesAreTracked` (liveness); `OnlyReturnsStrandTheStrip`, `OnlyOthersHideTheFocus` |
| `desktop` | `MCDesktop`: 2 handles and 2 changes for the observer; 2 owners, 3 turns, 1 mishap for the presentation; 3 windows of different kinds for the recovery; a client and a subscriber, 1 order, 1 failure for the daemon | `ObserverCatchesUp`; `PresentationSettles`, `UnwindLeavesNothing`; `DivergenceUnwinds`, `ObedienceSettles`, `OnlyDefianceUnwinds` (what settles does so while cycles come); `RequestsAreAnswered`, `WatchersCatchUp` |
| `input` | `MCInput`: 6 keys and 3 chords, locks, 1 release missed at a time; 3 generations and 3 chords under reload; 3 fingers and 4 scans; a screen of 3 positions and 1 order; 2 scenes, 3 changes, 2 failures, 2 screenshots | `TriggerIsHeld`, `ModifiersNeverStick`; `NoChordIsLost`, `RepeatsEnd`; `SwipesAreObeyed`; `ClicksStayWhole`, `PreviewEndsWithDrag`; `KeepsPromise` (refinement), `ThawsInTheEnd` |
| `store_survives` | 1 monitor, 1 window; activation | violated: `SurvivesDestroy` |
| `discovery_quiet` | 2 windows, 1 change | violated: `StableWindowsAreTracked` |
| `hotkeys_stick` | one Win key | violated: `KeysNeverStick` |
| `hotkeys_leak` | one Win key | violated: `ChordKeysNeverLeak` |

### Bounds, and why they are enough

*Store.* `MaxWindows` windows at once, the monitors, the payloads of discoveries,
the groups of commands and who issues them. Workspaces and columns are not
bounded: a monitor never keeps more empty workspaces than the active one and the
tail, and a column is never empty. Each run takes the groups of commands its
properties are about; platform events happen in all of them. Two windows are
enough for a column to be shared, left and joined, for one window to close behind
the other, for a workspace before and after another; three are needed for a
shared column that keeps two windows after one leaves. `store_monitors` leaves out
the order of workspaces: with it the state space of two managed monitors is several
times larger, and order is what `store_strip` is about. There is no bound on the length
of a run.

*Strip.* Three windows are the least that have a middle column; a viewport of 2
or 3 with a gap of 1 makes strips that are narrower than the viewport, as wide,
and wider, and windows too wide for it. Windows open with the default width, a
narrower and a wider one (`OpenWidths`).

*Runtime.* Two handles on two monitors, three changes of the desktop and one
command: one change before, between and after a stale snapshot and the command.
More snapshots in the channel only repeat an old one.

*Discovery.* Two windows are one pair of a surface and its anchor; the looks cover
every rule of the filter (titled, titleless, engine-internal and transient
windows, thin strips, equal, contained and overlapping rectangles).

*Observer.* Two windows, two changes and one fault, so that an event of one window
overwrites that of the other and a fault meets each. `MaxInterval` is 8 in the
code; a smaller multiplier only shortens the wait.

*Presentation.* One owner a copy may be made of and one it may not, three turns and one
late, refused or failed call. *Recovery.* Three windows, one of them lenient, one narrow,
one on the other monitor, two of them able to refuse; three stirs of the desktop, and no
bound on cycles. *Daemon.* A client, a subscriber, one order and one failure: a failure
meets every call, at every step of a request and of a subscription.

*Hotkeys.* Two Win keys because several rules speak of *a* Win key, a modifier of
another kind to extend a prefix, the two letters with a meaning of their own (Win+S,
Win+L), and a chord of each kind: pure Win, Win and more, without Win; no bound
on the length. Three keys are down at a time (`MaxDown`), the most a chord needs, and one is
missed (`MaxMissed`; none in `hotkeys_stick` and `hotkeys_leak`, whose
behaviours need no lock). *Listeners.* Three generations: after the first reload every
registered hotkey is in the hook, after the second it is registered again.
*Touchpad.* Four scans are a whole swipe and one frame more. *ManualResize.*
Two presses, and one order of the main loop at a time in the preview's channel.
*Overview.* Two scenes and nothing, three changes, two failures, two screenshots.

### Fairness, and what in the code justifies it

Only what threads of the daemon do is fair. Nobody need press a key, close a
window, send a request or raise an event, and nothing that fails need succeed.

- `Runtime`: a job that has begun ends (its steps are always enabled in the one
  thread), and a loop without work polls. This is the polling mode of the
  observation; in live mode the loop is told of changes (`Observer`).
- `Discovery`: the observer's first snapshot, its periodic scans, the polls.
- `Observer`: the thread starts, waits at most 100 ms for a message and handles
  what it has; intervals pass; the main loop receives, falls back and polls.
- `Presentation`: what the main loop has begun goes on (`CycleGoesOn`), each worker thread,
  and the workers' timers that prune dead hosts. An answer may still come too late. No cycle
  is assumed to begin: on a quiet desktop in live mode `run_runtime_cycle` times out and
  does nothing (`runtime_cycle.rs:87`), and what was refused or late waits for the next
  observation or command. `PresentationSettles` therefore has as a premise that cycles come.
- `Recovery`: a cycle that has started goes on (`CycleTurns`). `DivergenceUnwinds` and
  `ObedienceSettles` have the same premise. `Daemon`: the main loop and the threads of
  the pipes; that a client reads is not assumed for the command pipe, a
  subscriber's thread writes to one that reads or finds out that it has gone.
- `ManualResize`: the controller is ticked in every round, the preview thread
  handles its messages. `Overview`: the main loop, the worker, its polls for the
  screenshot tool, and the timer that thaws.

### Findings

Four runs show the code disagree with its own tests:

- `store_survives`: the last window of a workspace that is not shown closes;
  `ensure_tail_workspace` removes the workspace, and the scroll clamp of the same
  handler fails on it with `UnknownWorkspace`, which ends the daemon.
- `discovery_quiet`: a window that must be seen twice is counted once per snapshot,
  and the observer sends no scan that equals the one before; on a desktop that no
  longer changes the window is never managed.
- `hotkeys_stick`: a Win chord that is nobody's marks its key in two sets and its
  release empties one; the next ordinary press of the key is passed on and its
  release is swallowed.
- `hotkeys_leak`: releasing the modifier of a chord first forgets the chord while
  its key is still down; the auto-repeat of the key reaches the applications.

`EndsOnlyWithAWorkspace`, `CandidatesAreTracked` (while the loop polls),
`ModifiersNeverStick` and `TriggerIsHeld` state what does hold around them.

Where a property excludes a case, the exclusion is a behaviour of the code a
reader should know of. No document says otherwise, so they are not findings:

- *Strip.* A left neighbour that closes, or a neighbour that is widened, can push the
  focused column out of sight: `handle_window_destroyed` clamps the offset and reveals only
  a new focus (`OnlyOthersHideTheFocus`). The reveal of a column wider than the viewport
  goes to its other end each time it is repeated. A changed viewport, and a focused floating
  window of a hidden workspace that has lost a column, leave the offset beyond the content
  until the next clamp (`OnlyReturnsStrandTheStrip`).
- *Discovery.* Two same-rectangle windows of a browser or terminal class declare
  each other auxiliary while neither has the focus; the focus a refresh filters
  with is that of the last scan (`OnlySurfacesAreDropped`). A window that is cloaked
  and back without an event, with a command's scan between, is pruned and not
  found again while the observer's picture is unchanged.
- *Presentation.* A tiled window no copy may be made of that is scrolled out of
  sight and back without getting the focus stays parked (`PresentationSettles`).
  `clear_window_presentations` stops at the first handle that fails.
- *Recovery.* Cycles that plan nothing do not reset the count of desyncs; one desync
  with one refused activation can unwind (`OnlyDefianceUnwinds`).
- *Daemon.* In live mode on a quiet desktop the version a failed command has moved is
  not broadcast until something succeeds (`WatchersCatchUp` is about polling). A
  reload whose listeners do not start ends the daemon, and its client gets no
  answer but the end.
- *Keyboard hook.* Only its own Win+L resets the hook. After any other lock or secure
  desktop a key that went up behind it stays pressed for the hook until it goes up again:
  its trigger goes on repeating, and a Win key leaves the flag for mouse drags set (`Held`
  in `TriggerIsHeld`).
- *Listeners.* A hook that replays a Win prefix to the system releases it there too
  (`low_level.rs:318`). While the modifiers are held a second press of a registered chord
  with Win comes to the system bare and is lost; so is a registered chord whose modifier
  went down behind a Win key that is up again (`NoChordIsLost` excludes both with `Shown`).
  A modifier that was down before the hook was there and is released behind a Win key sticks
  for the system.
- *Presentation and Recovery.* On a quiet desktop in live mode nothing is retried (see
  Fairness).
- *Touchpad.* When the last report of a touch is lost, the next touch continues the
  old swipe until a frame of fewer than three fingers (`SwipesAreObeyed`).
- *ManualResize.* The edge is judged with the rectangle of the previous tick, so just
  after a focus change the newly focused column is resized. A drag whose column has
  closed ends the daemon at its commit.
- *Overview.* After the worker was restarted, Win+Shift+S reaches the first worker's
  channel only, and no longer lowers the overview. A freeze during which no
  window of the tool was ever seen stays until the overview is hidden
  (`ThawsInTheEnd`).

## 4. Proofs

TLAPS proves the following for every value of the constants that satisfies the named
assumptions: any monitors, any number of windows, keys, scenes or turns. Each
module's theorems are at its end, after the lemmas they rest on; `PROJECT.json`
lists them with the property each one states.

| module | about | properties proved |
|---|---|---|
| `WmStoreProofs` | where workspaces are | `WorkspacesCohere` |
| `PlacementProofs` (extends it) | where columns and windows are, types, focus | `TypeOK`, `WindowsPlacedOnce`, `ColumnsPartitioned`, `ColumnSelection`, `FocusCoherent` |
| `CommandsProofs` (extends both) | what handlers answer, and what they leave alone | `FailedRequestsChangeNothing`, `DragEndsWell`, `EndsOnlyWithAWorkspace`, `OthersCloseQuietly`, `OrdinaryMonitorsLeftAlone`, `OnlyDirectFocusMisplacesMark`, `OnlyFloatedFullscreenMixesFlags`, `NormalForm`, `OrderIsKept`, `ModesRoundTrip` |
| `KeyboardProofs` | the keyboard hook; listeners under reloads; the touchpad | `ModifiersNeverStick`, `TriggerIsHeld`; `NoChordIsLost`, `RepeatsEnd`; `SwipesAreObeyed` |
| `SurfaceProofs` | the overview surface; the mouse resize | every step of `KeepsPromise`; `ClicksStayWhole` |
| `DesktopProofs` | validation and recovery; what is on the screen | `OnlyDefianceUnwinds`; `UnwindLeavesNothing` |
| `RuntimeProofs` | the runtime on snapshots; the strip | `LiveClaimHolds`, `OnlySurfacesAreDropped`, `OnlyStaleSnapshotsForget`; `OnlyReturnsStrandTheStrip`, `OnlyOthersHideTheFocus` |

`DataProofs` holds what several of them need about data: a finite set has an ascending
enumeration and, for a total order, a sorted one (`AscendingExists`, `SortedExists`); what
`FlattenSeq` computes (`FlattenRuns`); that a property passed on from each number to the next
holds up to a bound (`UpTo`). None of these is an induction theorem with an operator as its
parameter: each goes by the least number, or a smallest subset, that would be an exception.

### The store: workspaces

`Sound` adds to `WorkspacesCohere` the shape of the records and that the maps of
workspaces and windows are finite, so that a fresh identifier exists. It cannot be
shown assignment by assignment, because handlers break it half-way: moving a
workspace takes the active workspace from one monitor and gives the other one it
does not show yet. `Ring(s, U)` is the invariant but for the monitors `U`, and the
central lemma, `NormalizeRing`, says that `normalize_workspace_set` takes a
monitor out of `U`, whatever state it was in, leaves all others alone, and never
drops an active workspace that is one of the monitor's. That last part is why
the removal of empty workspaces comes before the collapse of the tail: after it
an empty workspace is the active one or the last, so the collapse cannot reach
the active one. The rest of each handler is shown to leave the state `Alike`: it
moves columns, windows and focus, but no workspace. The assumption used is
`NavOrderAssumption` (every monitor stands once in the navigation order).

### The store: columns, windows, focus

The five properties of `PlacementProofs` need each other, and more. A window that is
toggled goes where its restore target says, a workspace that is activated focuses
the window it remembers, normalisation removes the workspaces it finds empty: each
is harmless only because of what the others say. The invariant is `InOrder`:

- `Sound`;
- `Arranged(s, {})`: every column holds windows that name it and selects among
  them, every strip and floating list holds what names it, every window stands
  where its record says, and a restore target points into the window's own
  workspace (`RestoreFits`). A window that stands in a column has no restore target:
  otherwise a column that is moved to another workspace would leave one behind that
  points into the old one;
- `FocusFits`: a focused window exists, stands where the focus says, and its
  workspace is the one its monitor shows.

A handler breaks `Arranged` between taking a window out of one list and putting it
into another. `Arranged(s, L)` is the invariant but for the *loose* windows `L`, which
stand in no list: `DetachArranged` makes a window loose, `NewColumnArranged`,
`JoinArranged` and `PushArranged` find it a place, and `TransferArranged` moves a
whole column. `Tidied` says what normalisation keeps: every list but those of
workspaces that hold nothing.

### The store: what handlers answer

The reducer does not roll back, so an error is harmless only if it comes before the
first assignment. The late errors are those of the layout that ends a handler. In a
state that is in order every workspace that exists can be laid out (`LaysOut`); so a
handler fails late only if the workspace it lays out is gone, and each handler lays
out one its monitor shows, which normalisation never drops (`ShownStays`). The one
exception is the handler of a window that closes: its workspace may be one that is
not shown, and this is what `EndsOnlyWithAWorkspace` says (and the finding of
`store_survives`).

### The store: what handlers leave alone

The action properties compare two states. Every operator of the store is given the
set `M` of monitors it may touch. `Affects(s, t, M)` says that the other monitors keep
their workspaces and what they show, that the focus moves only to a monitor of `M`,
and that the overview stays on its monitor; `Spares` adds that no window changes,
`Quiet` that the mark of the overview does not move either, `Keeps` that no window
goes. They compose, so a handler keeps what its steps keep. `Grounded` is the
invariant beside `InOrder`: the focus and the overview are on monitors that are
there.

- `OthersCloseQuietly`: only `Destroy` takes a window out of the map
  (`OnlyDestroyCloses`), and it retargets the focus only if the window had it.
- `OrdinaryMonitorsLeftAlone`: the monitors a key command works on are managed
  (`CommandMonitorManaged`); a navigation, which goes by the focused window, writes the
  active workspace of its monitor, but with what it already is.
- `OnlyDirectFocusMisplacesMark`: `Marks` says that an open overview marks what its
  monitor shows. Steps are either `Still` (neither moves) or end with
  `sync_overview_selection` for each monitor whose active workspace they change.
- `OnlyFloatedFullscreenMixesFlags`: every step but the one named writes only records
  that fit (`FitsWhatItWrites`). It needs the invariant `WindowsGoBack`: no window
  returns to the layer it is on. Without it a floating window could come back to
  the floating layer without its flag.

### The store: the order of workspaces

`NormalForm` and `OrderIsKept` are about what filtering an order gives (`Vec::retain`, here
`Without`). `WithoutEnumerates` says it once: the result is the ascending list of the kept
positions. An order is then reasoned about as a relation, `Before`: leaving elements out,
appending and inserting keep it among the others (`WithoutBefore`, `AppendBefore`,
`InsertAtBefore`), and two sequences that hold the same elements once and in the same relation
are equal (`SameOrderSameSequence`).

Normalisation removes a workspace because it is empty, so what it does to the order shows
only in workspaces that hold something: `KeepsOccupied` says that each step leaves the same
ones empty, and those that are not on the same monitor and in the same relation. Identifiers
may be used again, but only for an empty workspace, which is what a removed one was.

- `NormalForm`: every normalisation ends with one empty workspace, no second one at
  the end and no empty one elsewhere unless it is the active one (`TailFits`), and with the
  monitor and the tail flag of each written (`Marked`). A state in which
  both hold is the one normalisation gives back (`NormalizedStays`), so normalising twice is
  normalising once.
- `OrderIsKept`: every handler is some normalising, one change that keeps the relation in
  each order (`InSequence`: most change no order, `RehostWorkspace` takes one workspace out
  of one and inserts it into another), and more normalising; `NormalisedStepFollows` puts
  the three together. `MoveWorkspaceWithinMonitor` swaps two, and is the exception
  the property names.

### The store: there and back

`ModesRoundTrip` follows from `InOrder` alone, but through five states: the window is taken
out of its column, put on the other layer, taken from there, put back, focused. Most of
these steps keep `SameStrips`. The two that do not undo each other. Either the column goes
with its last window: then the strip without position `i`, with a new column put in at `i`,
is the strip with that column in the place of the old one (`WithoutOne`, `PutBack`). Or
others stay in the column: then it is still there, and the window joins it. That `PlaceOf`
notes the position the column *had*, and that `InsertPosition` would clip one beyond the
end, is what the proof turns on: the position is at most one past the end of what is left.

### The keyboard hook

Assumptions: `NoneAssumption` (None is no key), `ModifierAssumption` (a key is at
most one modifier), `BindingsAssumption` (no registration has a modifier as its
key, which `parse_trigger` guarantees, and no chord is registered twice: only the
first could fire).

`KeyInv` adds to the types what the properties rest on. `Pressed`: the hook believes no key
down that is not held, the trigger and the Super flag are backed by pressed keys, the prefix
excludes a trigger. "Down" is `Held`: a release behind a lock or a secure desktop, whoever
asked for it, leaves its key in `missed`. `Hidden`: behind a lock the applications see
nothing; a modifier they have seen is held, and the hook holds it pressed as well (but for a
Win key that Win+L has made it forget); a release still to be swallowed is of a pressed
modifier they have not seen and that is not being repeated; a prefix is hidden whole; missed
keys are excepted where they have to be. `ModifiersNeverStick` alone is not inductive: it
says nothing of a mark left in `suppressedReleases`, which would swallow the release of a
modifier pressed later. The clause about the repeated key is needed because an auto-repeat
is passed on like a press. `HeldKeysFireOnce` proves one property more that no run checks
(`RepeatsFireNothing`): the repetition of a key fires nothing. Outside a prefix the code
asks whether the key was down already; behind a waiting Win key it does not, and need not,
since only modifiers can be repeated there (`Repeated`).

### The listeners

`NoChordIsLost` says nothing until a press has been lost. The invariant names the
generation that serves the keyboard, the last one whose thread has registered its
chords (`Server`): it has a registration or a hook for each of them, its hook is the
newest and knows every modifier that went down since (`Serves`), and nobody has told
it to quit. `DebtsArePaid`: what an older thread still owes stands before the message
that ends it, so a reload cannot cut off a press that was already forwarded. `PrefixInv`: of all
hooks one at most waits with a Win key, which is down and which the system has not been
shown, since the hook that waits keeps it from all behind it; so a Win chord is always a
hook's, and a registered chord is heard if the system was shown its modifiers or the one
hook that waits, the newest, shows it all of them with the key. Nothing is assumed of the
order of keyboard, main loop and threads.

### The touchpad

`SwipesAreObeyed` compares two histories when no report is outstanding, and says nothing
between. `TouchInv` says what holds from report to report while there was no trouble: the
frame holds the contacts of the reports that have come, and nothing of an older scan; and
what the recogniser *would* make of the whole hand is what the hand has done (`Pending`). So
the report that completes the frame, and no earlier one, brings the commands up with `meant`
(`ReportsComplete`: as many reports, as many different contacts), also when it supersedes a
frame that was begun and never filled. A hand and the recogniser agree on a swipe by
`GeometryAssumption`: between any two hands of three or four fingers the centroid makes the
swipe the hand makes. It is an assumption on the device and the user: one finger more or
less moves the centroid, and the division in it loses up to a unit, so a step of the hand
just short of the threshold of 120 units could count as a swipe or not, and no recogniser
that sees only centroids can tell. TLC evaluates the assumption for the hands of the run.
After a lost report the invariant is void until the hand starts anew with nothing left in
the recogniser, which is the guard under which `Scan` ends the trouble.

### The mouse resize

`ClicksStayWhole` is not inductive: it says nothing while the hook is not in place. A
hook that starts must find the button as the applications know it, and one that is in
place has kept a press exactly when they do not know of it (`HookAgrees`). `ResizeInvariant`
also has what the main loop relies on (`DragAgrees`): presses and releases alternate in the
queue of the listener, the last one is what the hook has kept, a drag that runs still has the
release of its own press before it, and the store has a session of an edge and a column
exactly while a drag is on. A queue that is emptied with a drag, a hook that goes
with a kept press and a daemon that ends are the steps that make it hard.

### Validation and recovery

`RecoveryInv` says, for every stage behind an apply, that a window still off its place,
still too wide, or still without the foreground it should have, is in one of the two
histories: `defiant` (it refused) or `shunned` (it was denied the foreground, or it
left and came back between two scans). The one exception is a window that a
column shifts which was just adapted: the retry has still to move it (`OffIsExcused`), and
moves it into place, because a window in its place needs no more width than its
column has (`RightFits`).

The part about windows that come back was missing from the property at first. TLC had not
seen it with fewer than eight turns of the desktop; the proof did not go through, and for a
reason: the daemon takes two scans with the same *number* of windows for the same windows,
so two that leave and come back in the right moments count as desyncs of a desktop that did
not change. `OnlyDefianceUnwinds` now names them.

### What is on the screen

`UnwindLeavesNothing` speaks of the state after an unwinding, and of commands sent long before.
`PresentationInv` is what holds on the way there:

- `OneIsAwaited`: of all commands in the channels the main loop waits for one at most,
  the last one of the worker it has called. A command that was too late stays
  in front of the ones sent after it, so what a worker answers last is what its host is.
- `AnsweredIsCleared`: when a hiding is answered no host is there to be seen *and no command
  before it in the channel is left* that would show one again.
- `Unstarted`: the daemon does not call a worker that was never started just to hide something;
  such a worker has no host and no command.
- `OnlyClears`: once management has ended, the programs hold nothing but clearing calls.
- `Unwinding`: of each window owed, each kind is cleared or the call that clears it is
  still in the program; its mask is off or the call that takes it off is. The mask is
  the hard part: clicking a copy puts a mask on its owner behind the main loop's back. It can only
  come from a copy, and the program hides the copy first (`HidesFirst`); with
  the two calls swapped the invariant fails, and so does the property.

That the program clears each window it should (`ClearingAllClears`) is a fact about
concatenations, from `DataProofs`. It uses `OwnersAssumption` (handles are positive
numbers, and there are finitely many at a time).

### The runtime on snapshots

`LiveClaimHolds` and `OnlySurfacesAreDropped` are shown action by action. The first rests on which
steps look at the foreground at all (`RefreshClaims`, `FollowForeground`) and with what condition;
the other steps of a job are at another stage. The attempt to prove the second one showed that it
looked at the wrong rectangle: the filter sees a window as it is captured, with the visible part
of its frame (`Capture`), and not as it is on the screen. A small window may look like a
surface only because of that; the property now says so.

`OnlyStaleSnapshotsForget` needs to know what a whole job may do to the store, and that is
`RuntimeInv`: the store is in the order that `PlacementProofs` and `CommandsProofs` keep
(`InOrder`, `Grounded`); while the daemon is up every binding is of a window of the store; a
running job, the desktop and the channel hold well-formed snapshots. The bindings are the
reason for it: a handler that leaves the windows of the store alone leaves the bindings
alone, so that only the destruction of a window lets go of one; and in the list of the windows
to destroy each one is still there at its turn, since the list names none twice. The
runtime works through lists with `FoldLeft`; the proof follows such a fold as a function
from the positions of the list to what is reached there (`FoldRuns`), and one property
goes along all of them (`Tracks`: the store in order, every binding of one of its windows,
or an error). Each handler of the store that a job calls is used by its theorem from
`CommandsProofs`, none is looked into again. The windows of a snapshot and the monitors
are finitely many numbers, so the lists exist (`AscendingLists`, `OrderedLists`). Assumed are
those of the store, `MonitorsAssumption`, `RuntimeHandlesAssumption` (handles are positive),
and `UserCommandsAssumption` (the commands are among those `CommandResult` knows). That the
store stays in order under arbitrarily old snapshots is the theorem `RuntimeKeepsTheStore`.

### The strip

`StripFits` (theorem `StripStaysInOrder`) is short: there is room for every column, and the
focus is on a window of the workspace. The work is in what one step does to the geometry.
Where a column begins is the sum of the widths before it, a recursive function; the facts about
it (`SpansAscend`, `ColumnsLie`, `SpansCompare`) are passed on from one column to the next
up to the number of columns with `UpTo`. From them follow the two lemmas the
properties rest on:

- `RevealingShows`: wherever the offset was, also beyond the content, revealing a column ends in
  range and with the column in sight, one wider than the viewport from edge to edge.
- `InsertingLengthens` and `WiderKeepsRange`: a column that is put in, or made wider, only makes
  the strip longer, so an offset in range stays in range; what is removed needs the clamp.

`OnlyReturnsStrand` and `OnlyOthersHide` then go through the steps one by one
(`StripSteps`). The only delicate one is a new column behind the focused one
(`ExtendingKeepsSight`): a strip shorter than the viewport is placed by its number of
columns and the focus, and moves when it grows without its offset changing. Assumed is
`StripAssumption`: widths are positive, gap and step natural numbers.

### The overview surface

`ImplementsPromise` is the safety part of `KeepsPromise`: each step of `Overview` is a step
of `OverviewPromise` or leaves it alone. The refinement rests on `AlwaysInStep`: there is
one order at most in the channel, and none while the worker animates; as long as an order is
on its way or being obeyed the main loop waits for it, or for the thread's end; and every
scene on its way is the one the state asks for. So what the worker puts up is asked for at
that moment, also when the main loop has given up waiting: it then waits for the thread's
end before it changes anything. `Shape` keeps the types the steps need. The only assumption
is `NothingAssumption` (no scene is the closed overview).

### Model-checked only

Every invariant and every action property of the runs is a theorem. What is left is
liveness: `DesktopIsCaughtUp`, `CandidatesAreTracked`, `ObserverCatchesUp`,
`PresentationSettles`, `DivergenceUnwinds`, `ObedienceSettles`, `RequestsAreAnswered`,
`WatchersCatchUp`, `ThawsInTheEnd`, `PreviewEndsWithDrag` and the liveness part of
`KeepsPromise`. It needs fairness and with it ENABLED, which are out of the prover's reach.

## 5. Not modelled, and what is left

| part | why |
|---|---|
| Win32 plumbing: window rectangles and frames, DPI, activation calls, the animation of a window switch, `browser_visual_surrogate.rs` | single calls and arithmetic on rectangles; the last is not called by anything |
| Rendering: tab indicator, overlays, backdrop, thumbnails, dimming colours | drawing; that it may fail is in `Daemon` and `Overview` |
| Parsers: configuration, triggers, HID reports, IPC payloads | text and bytes; their results are the constants and inputs of the models |
| Projections, diagnostics, command line, touchpad helper process | read-only, or formatting |
| Columns of several windows in `Strip`, heights, floating rectangles | the structure of such columns is in `StateStore`; their horizontal place is that of the column |
| The pointer on the previews of the overview | hit tests on rectangles; the drop it ends in is an event of `WmStore` |
| Injected keyboard events, poisoned locks, start-up timeouts of the preview thread | passed on untouched, or impossible unless a thread panics |

Partly modelled components name what they leave out in `PROJECT.json`.

Worth doing next, in order:

1. An abstract specification of the store (the workspace each window is on, the
   monitor of each workspace, what each monitor shows), refined by `WmStore`.
2. `Runtime` on top of `Observer` instead of a channel of arbitrary old snapshots.
3. `diff_snapshots` as an operator against a reference definition.
