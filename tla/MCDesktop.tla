---------------------------- MODULE MCDesktop ----------------------------
(* The parts that stand between the state of the windows and the desktop,   *)
(* each for itself: one of them takes its steps, the others rest in one of  *)
(* their initial states.                                                    *)
EXTENDS Observer, Presentation, Recovery, Daemon

VARIABLE part  \* the part that takes steps

desktopParts == <<part, observerVars, presentationVars, recoveryVars, daemonVars>>

ObserverRests == desk = [wins |-> <<>>, fg |-> 0, mons |-> Screens]
RecoveryRests == widened = {} /\ target = CHOOSE h \in Windows : \A g \in Windows : h <= g
DaemonRests   == live /\ config = "good"

DesktopInit ==
  /\ part \in {"observer", "presentation", "recovery", "daemon"}
  /\ ObserverInit /\ PresentationInit /\ RecoveryInit /\ DaemonInit
  /\ part # "observer" => ObserverRests
  /\ part # "recovery" => RecoveryRests
  /\ part # "daemon" => DaemonRests

ObserverPart     == part = "observer" /\ ObserverNext
                    /\ UNCHANGED <<part, presentationVars, recoveryVars, daemonVars>>
PresentationPart == part = "presentation" /\ PresentationNext
                    /\ UNCHANGED <<part, observerVars, recoveryVars, daemonVars>>
RecoveryPart     == part = "recovery" /\ RecoveryNext
                    /\ UNCHANGED <<part, observerVars, presentationVars, daemonVars>>
DaemonPart       == part = "daemon" /\ DaemonNext
                    /\ UNCHANGED <<part, observerVars, presentationVars, recoveryVars>>

DesktopNext == ObserverPart \/ PresentationPart \/ RecoveryPart \/ DaemonPart

\* The fairness of each part, for the part that takes steps.
DesktopFairness ==
  /\ WF_observerVars(part = "observer" /\ ThreadStarts)
  /\ WF_observerVars(part = "observer" /\ IntervalPasses)
  /\ WF_observerVars(part = "observer" /\ Revalidate)
  /\ WF_observerVars(part = "observer" /\ HandleEvent)
  /\ WF_observerVars(part = "observer" /\ PeriodicScan)
  /\ WF_observerVars(part = "observer" /\ ThreadEnds /\ thread.stop)
  /\ WF_observerVars(part = "observer" /\ MainLoopReceives)
  /\ WF_observerVars(part = "observer" /\ FallBack)
  /\ WF_observerVars(part = "observer" /\ ThreadJoined)
  /\ WF_observerVars(part = "observer" /\ PollDesktop)
  /\ WF_presentationVars(part = "presentation" /\ CycleGoesOn)
  /\ \A k \in Kinds : WF_presentationVars(part = "presentation" /\ WorkerObeys(k))
  /\ \A h \in Owners : WF_presentationVars(part = "presentation" /\ Prunes(h))
  /\ WF_recoveryVars(part = "recovery" /\ CycleTurns)
  /\ WF_daemonVars(part = "daemon" /\ MainLoop)
  /\ \A c \in Clients : WF_daemonVars(part = "daemon" /\ ReplyWritten(c))
  /\ \A w \in Watchers : WF_daemonVars(part = "daemon" /\ WatcherReads(w))

DesktopSpec == DesktopInit /\ [][DesktopNext]_desktopParts /\ DesktopFairness

\* PictureCatchesUp of Observer, when its parts take the steps: whatever is lost, the
\* observer thread's snapshot and a polling main loop catch up with the desktop.
ObserverCatchesUp == <>[](part = "observer" => HasTheDesktop)
==========================================================================
