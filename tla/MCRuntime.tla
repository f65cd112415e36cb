----------------------------- MODULE MCRuntime -----------------------------
(* How windows of the desktop get to their place, in three parts: what a    *)
(* snapshot holds of them and which of them are windows of their own        *)
(* (Discovery), what the runtime makes of such windows (Runtime), and where *)
(* the columns of a workspace are shown (Strip).  One part takes its steps, *)
(* the others rest in one of their initial states.                          *)
EXTENDS Runtime, MCDiscovery, Strip

VARIABLE part  \* the part that takes steps

runtimeParts == <<part, runtimeVars, discoveryVars, strip>>

\* One handle is a candidate at once, the other must be seen more often.
PlainAndHeld ==
  [h \in Handles |-> IF h = 1 THEN [promotable |-> TRUE, fallback |-> FALSE, layer |-> "Tiled"]
                     ELSE [promotable |-> FALSE, fallback |-> TRUE, layer |-> "Tiled"]]
LeftToRight == <<1, 2>>

DiscoveryRests == screen = <<>> /\ polling
StripRests     == \A view \in Views : strip.view <= view

PartsInit ==
  /\ part \in {"runtime", "discovery", "strip"}
  /\ RuntimeInit /\ DiscoveryInit /\ StripInit
  /\ part # "discovery" => DiscoveryRests
  /\ part # "strip" => StripRests

RuntimePart   == part = "runtime" /\ RuntimeNext /\ UNCHANGED <<part, discoveryVars, strip>>
DiscoveryPart == part = "discovery" /\ DiscoveryNext /\ UNCHANGED <<part, runtimeVars, strip>>
StripPart     == part = "strip" /\ StripNext /\ UNCHANGED <<part, runtimeVars, discoveryVars>>

PartsNext == RuntimePart \/ DiscoveryPart \/ StripPart

\* The fairness of each part, for the part that takes steps.
PartsFairness ==
  /\ []<>(job = Idle) /\ WF_runtimeVars(part = "runtime" /\ Poll)
  /\ WF_discoveryVars(part = "discovery" /\ FirstSnapshot)
  /\ WF_discoveryVars(part = "discovery" /\ RescanFinds)
  /\ WF_discoveryVars(part = "discovery" /\ PollSyncs)

PartsSpec == PartsInit /\ [][PartsNext]_runtimeParts /\ PartsFairness
============================================================================
