---------------------------- MODULE ComposeState ----------------------------
(***************************************************************************)
(* What a Compose project is said to be in, from the containers that the   *)
(* inventory found in it: aggregate_compose_state and                      *)
(* aggregate_health_status; and what an action on it takes for success     *)
(* from the same containers: _desired_state_observed. An observation is    *)
(* the state and the health of one container.                              *)
(***************************************************************************)
EXTENDS Naturals

ContainerStates ==
  {"created", "running", "paused", "restarting", "removing", "exited", "dead",
   "unknown"}
Healths == {"none", "starting", "healthy", "unhealthy", "unknown"}
ProjectStates ==
  {"unknown", "stopped", "partial", "degraded", "starting", "running"}

Observations == [state : ContainerStates, health : Healths]

Stopped == {"created", "exited"}
Active == {"running", "restarting", "paused"}
Unclear == {"unknown", "removing", "dead"}

StatesOf(members) == {m.state : m \in members}
HealthsOf(members) == {m.health : m \in members}

(* The first rule that applies decides. *)
AggregateState(members) ==
  LET states == StatesOf(members)
      healths == HealthsOf(members)
  IN IF states = {} \/ states \cap Unclear # {} \/ "unknown" \in healths THEN "unknown"
     ELSE IF states \subseteq Stopped THEN "stopped"
     ELSE IF states \cap Stopped # {} /\ states \cap Active # {} THEN "partial"
     ELSE IF "unhealthy" \in healths \/ "paused" \in states THEN "degraded"
     ELSE IF "restarting" \in states \/ "starting" \in healths THEN "starting"
     ELSE IF states = {"running"} THEN "running"
     ELSE "unknown"

AggregateHealth(members) ==
  LET healths == HealthsOf(members)
  IN IF healths = {} \/ "unknown" \in healths THEN "unknown"
     ELSE IF "unhealthy" \in healths THEN "unhealthy"
     ELSE IF "starting" \in healths THEN "starting"
     ELSE IF healths = {"none"} THEN "none"
     ELSE "healthy"

Aggregate(members) ==
  [state |-> AggregateState(members), health |-> AggregateHealth(members)]

(* The goal of an action, in the states of the containers it reaches. *)
Goal(action) == IF action = "start" THEN {"running"} ELSE Stopped

(* A project's containers decide, not the state it is shown in. *)
DesiredStateObserved(members, action) ==
  members # {} /\ StatesOf(members) \subseteq Goal(action)
=============================================================================
