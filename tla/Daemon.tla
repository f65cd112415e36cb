------------------------------- MODULE Daemon -------------------------------
(***************************************************************************)
(* The main loop of apps/core-daemon (watch.rs and watch/) between its     *)
(* control channel and its clients: the threads of ipc.rs, the named pipes *)
(* of crates/ipc/src/transport.rs, the subscribers of the event stream, the*)
(* visual surfaces and the reload of the configuration (runtime/config.rs).*)
(*                                                                         *)
(* What a command does to the windows is the matter of Runtime and WmStore;*)
(* here it succeeds or fails, moves the state version or does not.  The    *)
(* lines of one broadcast, and those of an initial snapshot, are one batch.*)
(* The input listeners a reload restarts are in Listeners.  The limit of   *)
(* iterations, a switch for tests, is left out.                            *)
(***************************************************************************)
EXTENDS Naturals, Sequences, FiniteSets

CONSTANTS Clients,     \* each sends one request
          Watchers,    \* each subscribes once to the event stream
          Requests,    \* the kinds of requests sent to the command pipe
          Orders,      \* the kinds of commands of the keyboard and of stdin
          MaxVersion,  \* bound: the state version
          MaxOrders,   \* bound: orders and gestures on the overview
          MaxFailures    \* bound: failures

\* A request that is refused (its version, its command, its payload, a gesture
\* that is not bound) is answered like a query.
RequestKinds == {"query", "dispatch", "reload", "malformed"}

\* A rescan is a dispatch to the main loop.
OrderKinds == {"dispatch", "aside", "reload", "unwind", "quit"}

ASSUME DaemonAssumption ==
  /\ Requests \subseteq RequestKinds /\ Orders \subseteq OrderKinds
  /\ Clients \intersect Watchers = {}

VARIABLES
  step,        \* of the main loop: "starting", "first", "sync", "drain", "cycle" or "exited"
  inbox,       \* the control channel
  state,       \* what the snapshot of a subscriber shows: [version, managing, open]
  streamed,    \* last_streamed_state_version
  subscribers, \* event_subscribers
  surfaces,    \* the running ones among "tabs" and "overview"
  live,        \* the observer is there: the loop does not poll
  config,      \* the file a reload finds: "good", "broken" (it does not load) or
               \* "unworkable" (with it the listeners do not start)
  peer,        \* per client: "out", "connected", "waiting", "replied", "answered", "gone"
  watcher,     \* per watcher: "out", "queued", "in", "gone" or "dead" (its thread has ended)
  line,        \* per watcher, the channel to its thread: state versions
  seen,        \* per watcher, the version of the last batch it has read
  left         \* orders and faults left

loopVars   == <<step, inbox, state, streamed, subscribers, surfaces, live>>
clientVars == <<peer, watcher, line, seen>>
daemonVars == <<loopVars, clientVars, config, left>>

DaemonInit ==
  /\ step = "starting" /\ inbox = <<>>
  /\ state = [version |-> 1, managing |-> TRUE, open |-> FALSE]
  /\ streamed = 1 /\ subscribers = {} /\ surfaces = {}
  /\ live \in BOOLEAN
  /\ config \in {"good", "broken", "unworkable"}
  /\ peer = [c \in Clients |-> "out"]
  /\ watcher = [w \in Watchers |-> "out"]
  /\ line = [w \in Watchers |-> <<>>] /\ seen = [w \in Watchers |-> 0]
  /\ left = [orders |-> MaxOrders, faults |-> MaxFailures]

Faulty(times) == left.faults >= times /\ left' = [left EXCEPT !.faults = @ - times]
Sound         == UNCHANGED left
Running       == step # "exited"
Accepting     == Running /\ step # "starting"

Message(kind, from) == [kind |-> kind, from |-> from]

---------------------------------------------------------------------------
(* The pipes and their threads.  When the daemon exits, they are gone.     *)

\* accept, by one instance of the pipe at a time.
ClientConnects(c) ==
  /\ Accepting /\ peer[c] = "out"
  /\ peer' = [peer EXCEPT ![c] = "connected"]
  /\ UNCHANGED <<loopVars, watcher, line, seen, config, left>>

\* The thread of the connection reads the request: what is no request is
\* answered by the thread.
ClientAsks(c, kind) ==
  /\ Running /\ peer[c] = "connected"
  /\ IF kind = "malformed"
     THEN peer' = [peer EXCEPT ![c] = "replied"] /\ UNCHANGED inbox
     ELSE peer' = [peer EXCEPT ![c] = "waiting"] /\ inbox' = Append(inbox, Message(kind, c))
  /\ UNCHANGED <<step, state, streamed, subscribers, surfaces, live, watcher, line, seen, config, left>>

ReplyWritten(c) ==
  /\ Running /\ peer[c] = "replied"
  /\ peer' = [peer EXCEPT ![c] = "answered"]
  /\ UNCHANGED <<loopVars, watcher, line, seen, config, left>>

ClientLeaves(c) ==
  /\ peer[c] \in {"connected", "waiting", "replied"} /\ Faulty(1)
  /\ peer' = [peer EXCEPT ![c] = "gone"]
  /\ UNCHANGED <<loopVars, watcher, line, seen, config>>

WatcherConnects(w) ==
  /\ Accepting /\ watcher[w] = "out"
  /\ watcher' = [watcher EXCEPT ![w] = "queued"]
  /\ inbox' = Append(inbox, Message("subscribe", w))
  /\ UNCHANGED <<step, state, streamed, subscribers, surfaces, live, peer, line, seen, config, left>>

\* write_message returns when the subscriber has read.
WatcherReads(w) ==
  /\ Running /\ watcher[w] \in {"queued", "in"} /\ line[w] # <<>>
  /\ seen' = [seen EXCEPT ![w] = Head(line[w])]
  /\ line' = [line EXCEPT ![w] = Tail(@)]
  /\ UNCHANGED <<loopVars, peer, watcher, config, left>>

WatcherLeaves(w) ==
  /\ watcher[w] \in {"queued", "in"} /\ Faulty(1)
  /\ watcher' = [watcher EXCEPT ![w] = "gone"]
  /\ UNCHANGED <<loopVars, peer, line, seen, config>>

\* Only a write shows the thread that its subscriber has left.
WatcherThreadEnds(w) ==
  /\ Running /\ watcher[w] = "gone" /\ line[w] # <<>>
  /\ watcher' = [watcher EXCEPT ![w] = "dead"]
  /\ line' = [line EXCEPT ![w] = <<>>]
  /\ UNCHANGED <<loopVars, peer, seen, config, left>>

---------------------------------------------------------------------------
(* Inputs. *)

OrderComes(kind) ==
  /\ Accepting /\ left.orders > 0
  /\ inbox' = Append(inbox, Message(kind, "keyboard"))
  /\ left' = [left EXCEPT !.orders = @ - 1]
  /\ UNCHANGED <<step, state, streamed, subscribers, surfaces, live, clientVars, config>>

\* A click, a drop or Escape on the overview surface.
OverviewTouched(kind) ==
  /\ Running /\ "overview" \in surfaces /\ left.orders > 0
  /\ inbox' = Append(inbox, Message(kind, "surface"))
  /\ left' = [left EXCEPT !.orders = @ - 1]
  /\ UNCHANGED <<step, state, streamed, subscribers, surfaces, live, clientVars, config>>

---------------------------------------------------------------------------
(* Parts of the main loop. *)

\* broadcast_runtime_delta
Broadcast(version) ==
  /\ line' = [w \in Watchers |-> IF w \in subscribers /\ watcher[w] # "dead"
                                 THEN Append(line[w], version) ELSE line[w]]
  /\ subscribers' = {w \in subscribers : watcher[w] # "dead"}

\* maybe_broadcast_state, of the state after the command.
\* Mistake: only what this command changed.
BroadcastChange ==
  IF state'.version = state.version
  THEN UNCHANGED <<streamed, line, subscribers>>
  ELSE Broadcast(state'.version) /\ streamed' = state'.version
MaybeBroadcast ==
  IF state'.version = streamed
  THEN UNCHANGED <<streamed, line, subscribers>>
  ELSE Broadcast(state'.version) /\ streamed' = state'.version

Untold == UNCHANGED <<streamed, line, subscribers>>

Versions == {state.version} \union {v \in {state.version + 1} : v <= MaxVersion}

\* dispatch_command of some event: the version moves before the apply fails.
Dispatches == \E v \in Versions, open \in BOOLEAN :
                /\ open # state.open => v > state.version
                /\ state' = [state EXCEPT !.version = v, !.open = open]

\* dispatch_command of close_overview
Closes == \E v \in Versions : state' = [state EXCEPT !.version = v, !.open = FALSE]

Exits == step' = "exited"
Stays == UNCHANGED step

\* ensure_overview_surface and the sync of the surfaces: one that fails is
\* dropped, and only the overview is started again.
Surfaces(given) ==
  IF state'.open /\ state'.managing THEN given \union {"overview"} ELSE given

SyncSurfaces ==
  \/ surfaces' = Surfaces(surfaces) /\ Sound
  \/ /\ \E s \in Surfaces(surfaces) : surfaces' = Surfaces(surfaces) \ {s}
     /\ Faulty(1)

\* reload_config: a configuration that does not load leaves the last valid one
\* and an event that says so.
Loads == config # "broken"
ReloadMoves == \E v \in Versions : state' = [state EXCEPT !.version = v]

\* restart_input_listeners
ListenersStart == config # "unworkable"

---------------------------------------------------------------------------
(* One message of the control channel. *)

Takes(kinds) == step = "drain" /\ inbox # <<>> /\ Head(inbox).kind \in kinds /\ inbox' = Tail(inbox)
FromPipe     == Head(inbox).from \in Clients
LeavesRest   == UNCHANGED <<live, seen, watcher, config>>

\* The answer to one who left is lost.
Replies == peer' = IF peer[Head(inbox).from] = "waiting"
                   THEN [peer EXCEPT ![Head(inbox).from] = "replied"] ELSE peer

\* handle_ipc_request, except the reload: a failed command is answered and not
\* broadcast.
\* Mistake: only what succeeds is answered.
AnswersSuccess ==
  /\ Takes({"query", "dispatch"}) /\ FromPipe
  /\ \/ Head(inbox).kind = "query" /\ UNCHANGED state /\ Untold /\ Sound /\ Replies
     \/ Head(inbox).kind = "dispatch" /\ Dispatches /\ MaybeBroadcast /\ Sound /\ Replies
     \/ Head(inbox).kind = "dispatch" /\ Dispatches /\ Untold /\ Faulty(1) /\ UNCHANGED peer
  /\ Stays /\ UNCHANGED surfaces /\ LeavesRest
AnswersRequest ==
  /\ Takes({"query", "dispatch"}) /\ FromPipe
  /\ \/ Head(inbox).kind = "query" /\ UNCHANGED state /\ Untold /\ Sound
     \/ Head(inbox).kind = "dispatch" /\ Dispatches /\ MaybeBroadcast /\ Sound
     \/ Head(inbox).kind = "dispatch" /\ Dispatches /\ Untold /\ Faulty(1)
  /\ Replies /\ Stays /\ UNCHANGED surfaces /\ LeavesRest

\* reload_config by a client: what does not load, or fails to be applied, is
\* answered and touches no listener; listeners that do not start end the daemon
\* before the answer.
AnswersReload ==
  /\ Takes({"reload"}) /\ FromPipe
  /\ ReloadMoves
  /\ \/ Loads /\ ListenersStart /\ Replies /\ MaybeBroadcast /\ Stays /\ Sound
     \/ Loads /\ Replies /\ Untold /\ Stays /\ Faulty(1)
     \/ ~Loads /\ Replies /\ Untold /\ Stays /\ Sound
     \/ Loads /\ ~ListenersStart /\ Exits /\ Untold /\ UNCHANGED peer /\ Sound
  /\ UNCHANGED surfaces /\ LeavesRest

\* handle_watch_command: a command that fails ends the daemon.
ObeysOrder ==
  /\ Takes({"dispatch"}) /\ ~FromPipe
  /\ \/ Dispatches /\ MaybeBroadcast /\ Stays /\ Sound
     \/ Dispatches /\ Untold /\ Exits /\ Faulty(1)
  /\ UNCHANGED <<peer, surfaces>> /\ LeavesRest

\* Starting a program, closing a window, printing the state: a failure is logged.
ObeysAside ==
  /\ Takes({"aside"}) /\ UNCHANGED state /\ Untold /\ Stays /\ Sound
  /\ UNCHANGED <<peer, surfaces>> /\ LeavesRest

ObeysReload ==
  /\ Takes({"reload"}) /\ ~FromPipe
  /\ ReloadMoves
  /\ \/ Loads /\ ListenersStart /\ MaybeBroadcast /\ Stays /\ Sound
     \/ ~(Loads /\ ListenersStart) /\ Exits /\ Untold /\ Sound
     \/ Loads /\ Exits /\ Untold /\ Faulty(1)
  /\ UNCHANGED <<peer, surfaces>> /\ LeavesRest

\* request_emergency_unwind, of which the subscribers are not told.
ObeysUnwind ==
  /\ Takes({"unwind"})
  /\ state' = [state EXCEPT !.managing = FALSE]
  /\ Untold /\ Stays /\ Sound /\ UNCHANGED <<peer, surfaces>> /\ LeavesRest

ObeysQuit ==
  /\ Takes({"quit"}) /\ Exits
  /\ UNCHANGED state /\ Untold /\ Sound /\ UNCHANGED <<peer, surfaces>> /\ LeavesRest

\* handle_overview_activate_window, _dismiss and _move_column: what no longer fits
\* the state is ignored.
OverviewObeyed ==
  /\ Takes({"activate", "dismiss", "move-column"})
  /\ \/ /\ state.open => Head(inbox).kind # "dismiss"
        /\ UNCHANGED <<state, surfaces>> /\ Untold /\ Stays /\ Sound
     \/ /\ state.open
        /\ IF Head(inbox).kind = "move-column" THEN Dispatches ELSE Closes
        /\ \/ MaybeBroadcast /\ Stays /\ SyncSurfaces
           \/ Untold /\ Exits /\ Faulty(1) /\ UNCHANGED surfaces
  /\ UNCHANGED peer /\ LeavesRest

\* EventSubscribe: the initial snapshot, and from then on what is broadcast.
Subscribes ==
  /\ Takes({"subscribe"})
  /\ LET w == Head(inbox).from
     IN  /\ line' = [line EXCEPT ![w] = Append(@, state.version)]
         /\ subscribers' = subscribers \union {w}
         /\ watcher' = [watcher EXCEPT ![w] = IF @ = "queued" THEN "in" ELSE @]
  /\ Stays /\ Sound
  /\ UNCHANGED <<state, streamed, surfaces, live, peer, seen, config>>

Handling == \/ AnswersRequest \/ AnswersReload \/ ObeysOrder \/ ObeysAside \/ ObeysReload
           \/ ObeysUnwind \/ ObeysQuit \/ OverviewObeyed \/ Subscribes

---------------------------------------------------------------------------
(* The main loop. *)

\* initialize_watch_startup: without hotkeys, touchpad or resizing there is no
\* daemon, without the surfaces there is.
DaemonStarts ==
  /\ step = "starting"
  /\ \/ step' = "first" /\ surfaces' = {"tabs", "overview"} /\ Sound
     \/ /\ step' = "first" /\ Faulty(1)
        /\ \E s \in {"tabs", "overview"} : surfaces' = {s}
     \/ Exits /\ UNCHANGED surfaces /\ Faulty(1)
  /\ UNCHANGED <<inbox, state, streamed, subscribers, live, clientVars, config>>

\* process_initial_live_snapshot
FirstSnapshot ==
  /\ step = "first"
  /\ \/ step' = "sync" /\ UNCHANGED <<live, state>> /\ Untold /\ Sound
     \/ live /\ Dispatches /\ MaybeBroadcast /\ step' = "sync" /\ UNCHANGED live /\ Sound
     \/ live /\ live' = FALSE /\ step' = "sync" /\ UNCHANGED state /\ Untold /\ Faulty(1)
     \/ live /\ Dispatches /\ Exits /\ UNCHANGED live /\ Untold /\ Faulty(1)
  /\ UNCHANGED <<inbox, surfaces, peer, watcher, seen, config>>

Syncs ==
  /\ step = "sync" /\ UNCHANGED state /\ SyncSurfaces
  /\ step' = "drain"
  /\ UNCHANGED <<inbox, streamed, subscribers, live, clientVars, config>>

\* The channel is empty: the resizing ticks, then a runtime cycle.
Drained ==
  /\ step = "drain" /\ inbox = <<>>
  /\ \/ step' = "cycle" /\ UNCHANGED state /\ Untold /\ Sound
     \/ Dispatches /\ MaybeBroadcast /\ step' = "cycle" /\ Sound
     \/ Dispatches /\ Untold /\ Exits /\ Faulty(1)
  /\ UNCHANGED <<inbox, surfaces, live, peer, watcher, seen, config>>

\* run_runtime_cycle of the observer: there may be no envelope, or only a
\* warning.  Its loss is a scan, then polling.
CycleWithoutWork ==
  /\ step = "cycle" /\ live /\ step' = "sync" /\ Sound
  /\ UNCHANGED <<state, live, inbox, surfaces, peer, watcher, seen, config>> /\ Untold

\* ... of an envelope or a scan.
CycleWorks ==
  /\ step = "cycle" /\ Dispatches
  /\ \/ MaybeBroadcast /\ step' = "sync" /\ UNCHANGED live /\ Sound
     \/ live /\ live' = FALSE /\ MaybeBroadcast /\ step' = "sync" /\ Faulty(1)
     \/ Untold /\ Exits /\ UNCHANGED live /\ Faulty(1)
  /\ UNCHANGED <<inbox, surfaces, peer, watcher, seen, config>>

---------------------------------------------------------------------------

MainLoop == DaemonStarts \/ FirstSnapshot \/ Syncs \/ Handling \/ Drained \/ CycleWithoutWork \/ CycleWorks

ClientTurns ==
  \/ \E c \in Clients : ClientConnects(c) \/ ReplyWritten(c) \/ ClientLeaves(c)
  \/ \E c \in Clients, kind \in Requests : ClientAsks(c, kind)
  \/ \E w \in Watchers : WatcherConnects(w) \/ WatcherReads(w) \/ WatcherLeaves(w) \/ WatcherThreadEnds(w)

Inputs ==
  \/ \E kind \in Orders : OrderComes(kind)
  \/ \E kind \in {"activate", "dismiss", "move-column"} : OverviewTouched(kind)

DaemonNext == MainLoop \/ ClientTurns \/ Inputs

\* The main loop and the threads of the pipes run.
DaemonFairness ==
  /\ WF_daemonVars(MainLoop)
  /\ \A c \in Clients : WF_daemonVars(ReplyWritten(c))
  /\ \A w \in Watchers : WF_daemonVars(WatcherReads(w))

DaemonSpec == DaemonInit /\ [][DaemonNext]_daemonVars /\ DaemonFairness

---------------------------------------------------------------------------

\* Whatever fails, no client whose request the daemon has read waits for ever: it is
\* answered, or it leaves, or the daemon ends.
RequestsAreAnswered ==
  \A c \in Clients : []<>(peer[c] \notin {"waiting", "replied"} \/ step = "exited")

\* While the loop polls, a subscriber that reads has the current state version in
\* the end, also after a failed command whose change was not broadcast.
WatchersCatchUp ==
  <>[](step # "exited" /\ ~live /\ left.orders = 0) =>
     <>[](\A w \in Watchers : watcher[w] = "in" => seen[w] = state.version)

=============================================================================
