---------------------------- MODULE Observer ----------------------------
(***************************************************************************)
(* The observer thread of crates/windows-adapter/src/native_observer*, the *)
(* snapshots of native_snapshot.rs it keeps up to date, and the end of the *)
(* channel the main loop reads (watch/runtime_cycle.rs).                   *)
(*                                                                         *)
(* The desktop changes by itself.  A change raises a WinEvent or none (a   *)
(* cloaked window, a monitor); the callback keeps only the last event.     *)
(* The thread refreshes one window of its own snapshot per event, or scans *)
(* everything: after a suspend, when an event does not fit its snapshot,   *)
(* and at intervals that double while nothing changes.                     *)
(*                                                                         *)
(* A snapshot is [wins, fg, mons]: the monitor of every window, the        *)
(* foreground handle (0 for none) and the monitors.  Time is counted in    *)
(* units of the fallback interval; the debounce is shorter than one.       *)
(***************************************************************************)
EXTENDS Naturals, Sequences, FiniteSets

CONSTANTS Handles,      \* window handles, not 0
          Screens,      \* monitors; the least is the primary, always there
          MaxChanges,   \* bound: changes of the desktop
          MaxFaults,    \* bound: failed queries and thread deaths
          MaxEnvelopes, \* bound: envelopes on the way
          MaxInterval   \* MAX_PERIODIC_SCAN_INTERVAL_MULTIPLIER, 8 in the code

ASSUME ScreensAssumption == Screens # {} /\ Screens \subseteq Nat
ASSUME HandlesAssumption == Handles \subseteq Nat \ {0}

VARIABLES desk,    \* what a full scan would return
          shot,    \* the snapshot of the observer thread
          signal,  \* ObserverSignalState: the last event not yet handled
          channel, \* envelopes on their way to the main loop
          thread,  \* "starting", "running" or "stopped", and a requested stop
          clock,   \* what the thread's Instants say: see IntervalPasses
          link,    \* "startup", "live", "joining" or "polling"
          told,    \* the last snapshot the main loop was given
          budget   \* changes and faults left

observerVars == <<desk, shot, signal, channel, thread, clock, link, told, budget>>

PrimaryScreen   == CHOOSE m \in Screens : \A n \in Screens : m <= n
NoSignal  == [pending |-> FALSE, kind |-> "none", win |-> 0]
NoPicture     == [wins |-> <<>>, fg |-> 0, mons |-> {}]

SnapshotEnvelope(shown) == [kind |-> "Snapshot", shown |-> shown]
WarningEnvelope         == [kind |-> "WarningEnvelope", shown |-> NoPicture]

FreshClock == [age |-> 0, interval |-> 1, settled |-> FALSE, slept |-> FALSE]

ObserverInit ==
  /\ desk \in {[wins |-> w, fg |-> 0, mons |-> Screens] :
                 w \in UNION {[hs -> Screens] : hs \in SUBSET Handles}}
  /\ shot = NoPicture /\ told = NoPicture
  /\ signal = NoSignal
  /\ channel = <<>>
  /\ thread = [state |-> "starting", stop |-> FALSE]
  /\ clock = FreshClock
  /\ link = "startup"
  /\ budget = [changes |-> MaxChanges, faults |-> MaxFaults]

---------------------------------------------------------------------------
(* The desktop and its events (external). *)

\* win_event_callback: each event overwrites the one before.
RaiseEvent(kind, h) ==
  signal' = IF kind = "none" THEN signal
            ELSE [pending |-> TRUE, kind |-> kind, win |-> h]

Alters(d, kinds, h) ==
  /\ budget.changes > 0
  /\ desk' = d
  /\ \E kind \in kinds : RaiseEvent(kind, h)
  /\ budget' = [budget EXCEPT !.changes = @ - 1]
  /\ UNCHANGED <<shot, channel, thread, clock, link, told>>

WindowAppears(h, m) ==
  /\ h \notin DOMAIN desk.wins
  /\ m \in desk.mons
  /\ Alters([desk EXCEPT !.wins = [g \in DOMAIN @ \union {h} |->
                                      IF g = h THEN m ELSE @[g]]],
             {"create", "show", "none"}, h)

WindowVanishes(h) ==
  /\ h \in DOMAIN desk.wins
  /\ Alters([desk EXCEPT !.wins = [g \in DOMAIN @ \ {h} |-> @[g]],
                          !.fg = IF @ = h THEN 0 ELSE @],
             {"destroy", "hide", "none"}, h)

ForegroundMoves(h) ==
  /\ h \in DOMAIN desk.wins \ {desk.fg}
  /\ Alters([desk EXCEPT !.fg = h], {"foreground"}, h)

\* ... or to a window no snapshot holds, which the event names.
ForegroundLeaves(h) ==
  /\ h \notin DOMAIN desk.wins /\ desk.fg # 0
  /\ Alters([desk EXCEPT !.fg = 0], {"foreground"}, h)

WindowMoves(h, m) ==
  /\ h \in DOMAIN desk.wins
  /\ m \in desk.mons \ {desk.wins[h]}
  /\ Alters([desk EXCEPT !.wins[h] = m], {"location"}, h)

\* The windows of an unplugged monitor move to the primary one.
MonitorUnplugged(m) ==
  /\ m \in desk.mons \ {PrimaryScreen}
  /\ Alters([desk EXCEPT !.mons = @ \ {m},
                          !.wins = [h \in DOMAIN @ |-> IF @[h] = m THEN PrimaryScreen ELSE @[h]]],
             {"none"}, 0)

DesktopChanges ==
  \/ \E h \in Handles :
       \/ WindowVanishes(h) \/ ForegroundMoves(h) \/ ForegroundLeaves(h)
       \/ \E m \in Screens : WindowAppears(h, m) \/ WindowMoves(h, m)
  \/ \E m \in Screens : MonitorUnplugged(m)

\* One fallback interval passes.
IntervalPasses ==
  /\ thread.state = "running"
  /\ clock.age < MaxInterval \/ ~clock.settled
  /\ clock' = [clock EXCEPT !.age = IF @ < MaxInterval THEN @ + 1 ELSE @, !.settled = TRUE]
  /\ UNCHANGED <<desk, shot, signal, channel, thread, link, told, budget>>

\* The debounce passes, the interval does not.
DebouncePasses ==
  /\ thread.state = "running" /\ ~clock.settled
  /\ clock' = [clock EXCEPT !.settled = TRUE]
  /\ UNCHANGED <<desk, shot, signal, channel, thread, link, told, budget>>

\* The system is suspended for RESUME_REVALIDATION_MULTIPLIER intervals or more.
SystemSlept ==
  /\ thread.state = "running" /\ ~clock.slept
  /\ budget.changes > 0
  /\ clock' = [clock EXCEPT !.age = MaxInterval, !.settled = TRUE, !.slept = TRUE]
  /\ budget' = [budget EXCEPT !.changes = @ - 1]
  /\ UNCHANGED <<desk, shot, signal, channel, thread, link, told>>

---------------------------------------------------------------------------
(* Snapshots. *)

\* refresh_focus
RefreshFocus(s) == [s EXCEPT !.fg = desk.fg]

\* remove_window
RemoveWindow(s, h) == [s EXCEPT !.wins = [g \in DOMAIN @ \ {h} |-> @[g]]]

\* refresh_window: the window and its monitor are put in or replaced, or the
\* window removed when it is not (no longer) a window of the user.
RefreshWindow(s, h) ==
  IF h \notin DOMAIN desk.wins THEN RefreshFocus(RemoveWindow(s, h))
  ELSE RefreshFocus([s EXCEPT !.mons = @ \union {desk.wins[h]},
                              !.wins = [g \in DOMAIN @ \union {h} |->
                                          IF g = h THEN desk.wins[h] ELSE @[g]]])

\* The refresh an event asks for, by its kind.
RefreshedBy(kind, h) ==
  IF kind \in {"destroy", "hide"} THEN RefreshFocus(RemoveWindow(shot, h))
  ELSE RefreshWindow(shot, h)

\* should_rescan_after_incremental_event
RescansAfter(kind, before, after) ==
  \/ kind \in {"show", "hide"} /\ ~(before /\ after)
  \/ kind \in {"create", "destroy", "foreground"} /\ ~before /\ ~after

\* next_periodic_scan_interval
\* Mistake: the interval doubles without an end.
NeverScansAgain(i) == MaxInterval + 1

NextInterval(i) == IF 2 * i <= MaxInterval THEN 2 * i ELSE MaxInterval

---------------------------------------------------------------------------
(* The thread. *)

ChannelRoom == Len(channel) < MaxEnvelopes
SendUp(e) == channel' = Append(channel, e)

\* rescan_snapshot on the snapshot s the thread has by then: an unchanged one
\* is not sent, a failed scan is reported.
ScanFindsNothing(s) == s = desk /\ UNCHANGED channel /\ shot' = s /\ UNCHANGED budget
ScanFindsChange(s)  == s # desk /\ SendUp(SnapshotEnvelope(desk)) /\ shot' = desk /\ UNCHANGED budget
ScanFails(s) ==
  /\ budget.faults > 0
  /\ SendUp(WarningEnvelope) /\ shot' = s
  /\ budget' = [budget EXCEPT !.faults = @ - 1]

\* run_observer up to the handshake.
ThreadStarts ==
  /\ thread.state = "starting" /\ ChannelRoom
  /\ shot' = desk
  /\ SendUp(SnapshotEnvelope(desk))
  /\ thread' = [thread EXCEPT !.state = "running"]
  /\ UNCHANGED <<desk, signal, clock, link, told, budget>>

ThreadTurn == thread.state = "running" /\ ~thread.stop /\ ChannelRoom

\* The thread has slept: a full scan, and the events that came meanwhile are
\* dropped.
Revalidate ==
  /\ ThreadTurn /\ clock.slept
  /\ \/ /\ ScanFindsNothing(shot)
        /\ clock' = [clock EXCEPT !.age = 0, !.interval = 1, !.slept = FALSE]
     \/ /\ ScanFindsChange(shot) \/ ScanFails(shot)
        /\ clock' = FreshClock
  /\ signal' = NoSignal
  /\ UNCHANGED <<desk, thread, link, told>>

EventDue == signal.pending /\ clock.settled
KnownTo(s, h) == h \in DOMAIN s.wins

\* apply_incremental_event, the refresh having succeeded.
HandleEvent ==
  LET new == RefreshedBy(signal.kind, signal.win)
      escalates == RescansAfter(signal.kind, KnownTo(shot, signal.win), KnownTo(new, signal.win))
  IN  /\ ThreadTurn /\ ~clock.slept /\ EventDue
      /\ signal' = NoSignal
      /\ \/ /\ escalates
            /\ ScanFindsNothing(new) \/ ScanFindsChange(new) \/ ScanFails(new)
            /\ clock' = [clock EXCEPT !.age = 0, !.interval = 1, !.settled = FALSE]
         \/ /\ ~escalates
            /\ shot' = new /\ SendUp(SnapshotEnvelope(new)) /\ UNCHANGED budget
            /\ clock' = [clock EXCEPT !.interval = 1, !.settled = FALSE]
      /\ UNCHANGED <<desk, thread, link, told>>

\* The refresh fails: a warning, then a full scan (which does not fail too).
HandleEventFails ==
  /\ ThreadTurn /\ ~clock.slept /\ EventDue
  /\ budget.faults > 0
  /\ budget' = [budget EXCEPT !.faults = @ - 1]
  /\ signal' = NoSignal
  /\ shot' = desk
  /\ channel' = Append(channel, WarningEnvelope) \o (IF shot = desk THEN <<>> ELSE <<SnapshotEnvelope(desk)>>)
  /\ clock' = [clock EXCEPT !.age = 0, !.interval = 1, !.settled = FALSE]
  /\ UNCHANGED <<desk, thread, link, told>>

\* periodic-full-scan
PeriodicScan ==
  /\ ThreadTurn /\ ~clock.slept /\ ~EventDue
  /\ clock.age >= clock.interval
  /\ \/ /\ ScanFindsNothing(shot)
        /\ clock' = [clock EXCEPT !.age = 0, !.interval = NextInterval(@)]
     \/ /\ ScanFindsChange(shot) \/ ScanFails(shot)
        /\ clock' = [clock EXCEPT !.age = 0, !.interval = 1, !.settled = FALSE]
  /\ UNCHANGED <<desk, signal, thread, link, told>>

\* The loop ends: on request, or the thread dies.
ThreadEnds ==
  /\ thread.state = "running"
  /\ \/ thread.stop /\ UNCHANGED budget
     \/ budget.faults > 0 /\ budget' = [budget EXCEPT !.faults = @ - 1]
  /\ thread' = [thread EXCEPT !.state = "stopped"]
  /\ UNCHANGED <<desk, shot, signal, channel, clock, link, told>>

---------------------------------------------------------------------------
(* The main loop. *)

\* apply_observation, as far as the observer is concerned.
TakeEnvelope(e) == told' = IF e.kind = "Snapshot" THEN e.shown ELSE told

\* recv_timeout of process_initial_live_snapshot and run_runtime_cycle.
MainLoopReceives ==
  /\ link \in {"startup", "live"} /\ thread.state # "starting"
  /\ channel # <<>>
  /\ TakeEnvelope(Head(channel))
  /\ channel' = Tail(channel)
  /\ link' = "live"
  /\ UNCHANGED <<desk, shot, signal, thread, clock, budget>>

\* The first snapshot does not come in time: the stream is dropped.
StartupTimesOut ==
  /\ link = "startup" /\ thread.state # "starting" /\ budget.faults > 0
  /\ link' = "joining"
  /\ channel' = <<>>
  /\ thread' = [thread EXCEPT !.stop = TRUE]
  /\ budget' = [budget EXCEPT !.faults = @ - 1]
  /\ UNCHANGED <<desk, shot, signal, clock, told>>

\* The thread is gone and the channel is empty: one scan, then the stream is
\* dropped.
FallBack ==
  /\ link \in {"startup", "live"}
  /\ thread.state = "stopped" /\ channel = <<>>
  /\ told' = IF link = "live" THEN desk ELSE told
  /\ link' = "joining"
  /\ thread' = [thread EXCEPT !.stop = TRUE]
  /\ UNCHANGED <<desk, shot, signal, channel, clock, budget>>

\* shutdown has joined the thread.
ThreadJoined ==
  /\ link = "joining" /\ thread.state = "stopped"
  /\ link' = "polling"
  /\ UNCHANGED <<desk, shot, signal, channel, thread, clock, told, budget>>

PollDesktop ==
  /\ link = "polling"
  /\ told' = desk
  /\ UNCHANGED <<desk, shot, signal, channel, thread, clock, link, budget>>

---------------------------------------------------------------------------

ThreadTurns == ThreadStarts \/ Revalidate \/ HandleEvent \/ HandleEventFails \/ PeriodicScan \/ ThreadEnds
LoopTurns   == MainLoopReceives \/ StartupTimesOut \/ FallBack \/ ThreadJoined \/ PollDesktop

ObserverNext == DesktopChanges \/ IntervalPasses \/ DebouncePasses \/ SystemSlept \/ ThreadTurns \/ LoopTurns

\* The thread waits at most 100 ms for a message, the main loop one slice for
\* an envelope, and time passes.
ObserverFairness ==
  /\ WF_observerVars(ThreadStarts) /\ WF_observerVars(IntervalPasses)
  /\ WF_observerVars(Revalidate) /\ WF_observerVars(HandleEvent)
  /\ WF_observerVars(PeriodicScan)
  /\ WF_observerVars(ThreadEnds /\ thread.stop)
  /\ WF_observerVars(MainLoopReceives) /\ WF_observerVars(FallBack)
  /\ WF_observerVars(ThreadJoined) /\ WF_observerVars(PollDesktop)

ObserverSpec == ObserverInit /\ [][ObserverNext]_observerVars /\ ObserverFairness

---------------------------------------------------------------------------

\* Whatever is overwritten, dropped after a suspend or lost to a failed query,
\* the thread's own snapshot catches up with the desktop, and a main loop that
\* has fallen back to polling does too.
HasTheDesktop ==
  IF link \in {"joining", "polling"} THEN link = "polling" /\ told = desk ELSE shot = desk
PictureCatchesUp == <>[]HasTheDesktop

=========================================================================
