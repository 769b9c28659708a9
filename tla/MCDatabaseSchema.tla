------------------------- MODULE MCDatabaseSchema -------------------------
(* A process of the Controller and two scripts, on a database of the lot before
   the inventory and on a complete one. *)
EXTENDS DatabaseSchema, TLC

CONSTANTS controller, operator1, operator2

Sync ==
  {"jobs", "jobs.operation_id", "agent_connections",
   "agent_connections.agent_id", "targets", "service_targets", "events",
   "jobs.target_id", "jobs_one_active_per_service",
   "reject_target_identity_update", "targets_identity_immutable"}

UpgradedAndNew == {Sync, Complete}

WhoDoesWhat ==
  [s \in Sessions |->
    IF s = controller THEN {"request", "claim", "job", "status", "event"}
    ELSE {"target", "policy", "bind", "sync"}]

Symmetry == Permutations({operator1, operator2})
=============================================================================
