---------------------------- MODULE PolicyStore ----------------------------
(***************************************************************************)
(* The management policies of the Docker Agent: the SQLite tables          *)
(* resource_policies and resource_policy_audit, the handlers that change a *)
(* policy, and the inventory, which writes to the same table whenever      *)
(* somebody looks at the resources.                                        *)
(*                                                                         *)
(* Handlers run on the threads of the server, without a lock: one action   *)
(* is one SQLite transaction, or what a thread does between two of them.   *)
(* A body is what the code compares to recognise a repeated operation: the *)
(* kind of the target, the target, the policy and the actor. Names and     *)
(* dates are left out, but not the order of the audit.                     *)
(***************************************************************************)
EXTENDS Naturals, Sequences

CONSTANTS
  Targets,      \* typed identities of resources
  NoTarget,     \* no protected target is configured
  NoRow,        \* nothing: no row, no operation
  Ops,          \* operation_ids
  Bodies,
  TargetOf,     \* the target a body names
  PolicyOf,     \* the policy a body asks for
  Legacy,       \* container_policies, the table of the Agent's first version
  Threads,
  MaxRequests,  \* bound: requests handled, inventories included
  MaxRestarts   \* bound

Policies == {"discovered", "managed", "protected"}

ASSUME PolicyAssumption ==
  /\ NoTarget \notin Targets
  /\ NoRow \notin Policies \cup Ops \cup Bodies
  /\ TargetOf \in [Bodies -> Targets]
  /\ PolicyOf \in [Bodies -> Policies]
  /\ Legacy \in [Targets -> Policies \cup {NoRow}]
  /\ MaxRequests \in Nat
  /\ MaxRestarts \in Nat

Requests == [op : Ops, body : Bodies]

(* What a client that lists the resources asks for. *)
Inventory == [op |-> NoRow, body |-> NoRow]

VARIABLES
  policy,      \* resource_policies.management_policy
  audit,       \* resource_policy_audit, in the order of the insertions
  configured,  \* protected_target of this process
  present,     \* what an inventory finds in Docker as operational
  pc,          \* where a thread stands
  asked,       \* what its client asked for
  found,       \* the resources its inventory has listed
  todo,        \* those it has not yet looked up in the table
  enforced,    \* targets whose protection this process has written
  everForced,  \* the same for all processes so far
  requests,
  restarts

store == <<policy, audit, enforced, everForced>>
threads == <<pc, asked, found, todo>>
world == <<configured, present>>
vars == <<store, threads, world, requests, restarts>>

Row == [op : Ops, body : Bodies, previous : Policies]

TypeOK ==
  /\ policy \in [Targets -> Policies \cup {NoRow}]
  /\ audit \in Seq(Row)
  /\ configured \in Targets \cup {NoTarget}
  /\ present \in SUBSET Targets
  /\ pc \in [Threads -> {"idle", "replay", "list", "observe", "set"}]
  /\ asked \in [Threads -> Requests \cup {Inventory}]
  /\ found \in [Threads -> SUBSET Targets]
  /\ todo \in [Threads -> SUBSET Targets]
  /\ enforced \in SUBSET {configured}
  /\ everForced \in SUBSET Targets
  /\ requests \in 0..MaxRequests
  /\ restarts \in 0..MaxRestarts

Rows(op) == {i \in DOMAIN audit : audit[i].op = op}

(* The policy column of a row that _observe_in_transaction has upserted. *)
Observed(t) == IF policy[t] = NoRow THEN "discovered" ELSE policy[t]

-----------------------------------------------------------------------------
(* Start *)

(* INSERT OR IGNORE of the rows of the former table, at every start. *)
Migrated(rows) ==
  [t \in Targets |-> IF rows[t] = NoRow THEN Legacy[t] ELSE rows[t]]

Init ==
  /\ policy = Migrated([t \in Targets |-> NoRow])
  /\ audit = <<>>
  /\ configured \in Targets \cup {NoTarget}
  /\ present \in SUBSET Targets
  /\ pc = [h \in Threads |-> "idle"]
  /\ asked = [h \in Threads |-> Inventory]
  /\ found = [h \in Threads |-> {}]
  /\ todo = [h \in Threads |-> {}]
  /\ enforced = {}
  /\ everForced = {}
  /\ requests = 0
  /\ restarts = 0

(* The Agent stops anywhere and starts with another configuration. *)
Restart ==
  /\ restarts < MaxRestarts
  /\ restarts' = restarts + 1
  /\ configured' \in Targets \cup {NoTarget}
  /\ policy' = Migrated(policy)
  /\ enforced' = {}
  /\ pc' = [h \in Threads |-> "idle"]
  /\ asked' = [h \in Threads |-> Inventory]
  /\ found' = [h \in Threads |-> {}]
  /\ todo' = [h \in Threads |-> {}]
  /\ UNCHANGED <<audit, everForced, present, requests>>

(* Docker: resources come and go. *)
DockerChanges ==
  /\ present' \in SUBSET Targets
  /\ UNCHANGED <<store, threads, configured, requests, restarts>>

-----------------------------------------------------------------------------
(* update_policy, and the inventory it builds like every listing. A definition
   named X_Fault is X with a plausible fault; Next uses none of them, they show
   that the properties notice the fault. *)

GoTo(h, place) == pc' = [pc EXCEPT ![h] = place]

(* A request is answered, well or not. *)
Answer(h) ==
  /\ GoTo(h, "idle")
  /\ asked' = [asked EXCEPT ![h] = Inventory]
  /\ found' = [found EXCEPT ![h] = {}]
  /\ todo' = [todo EXCEPT ![h] = {}]

Receive(h) ==
  /\ pc[h] = "idle"
  /\ requests < MaxRequests
  /\ requests' = requests + 1
  /\ \/ \E r \in Requests : asked' = [asked EXCEPT ![h] = r] /\ GoTo(h, "replay")
     \/ GoTo(h, "list") /\ UNCHANGED asked
  /\ UNCHANGED <<store, found, todo, world, restarts>>

RefusedByConfiguration_Never(body) == FALSE

RefusedByConfiguration(body) ==
  /\ configured = TargetOf[body]
  /\ PolicyOf[body] # "protected"

(* replay_operation, then the test of the configured protection. *)
Replay(h) ==
  /\ pc[h] = "replay"
  /\ \/ /\ \/ Rows(asked[h].op) # {}    \* the recorded answer, or a conflict
           \/ RefusedByConfiguration(asked[h].body)
        /\ Answer(h)
     \/ /\ Rows(asked[h].op) = {}
        /\ ~RefusedByConfiguration(asked[h].body)
        /\ GoTo(h, "list")
        /\ UNCHANGED <<asked, found, todo>>
  /\ UNCHANGED <<store, world, requests, restarts>>

(* The containers are listed. *)
List(h) ==
  /\ pc[h] = "list"
  /\ GoTo(h, "observe")
  /\ found' = [found EXCEPT ![h] = present]
  /\ todo' = [todo EXCEPT ![h] = present]
  /\ UNCHANGED <<store, asked, world, requests, restarts>>

ForceProtected(t) ==
  /\ policy' = [policy EXCEPT ![t] = "protected"]
  /\ enforced' = enforced \cup {t}
  /\ everForced' = everForced \cup {t}

ObserveRow(t) ==
  /\ policy' = [policy EXCEPT ![t] = Observed(t)]
  /\ UNCHANGED <<enforced, everForced>>

(* _policy, for one resource of the listing. *)
Observe(h, t) ==
  /\ pc[h] = "observe"
  /\ t \in todo[h]
  /\ todo' = [todo EXCEPT ![h] = @ \ {t}]
  /\ \/ t = configured /\ ForceProtected(t)
     \/ t # configured /\ ObserveRow(t)
  /\ UNCHANGED <<audit, pc, asked, found, world, requests, restarts>>

(* The listing is complete: an inventory is answered, a change goes on if its
   target is among the resources. *)
Listed(h) ==
  /\ pc[h] = "observe"
  /\ todo[h] = {}
  /\ \/ asked[h] = Inventory /\ Answer(h)
     \/ /\ asked[h] # Inventory
        /\ TargetOf[asked[h].body] \notin found[h]
        /\ Answer(h)
     \/ /\ asked[h] # Inventory
        /\ TargetOf[asked[h].body] \in found[h]
        /\ GoTo(h, "set")
        /\ UNCHANGED <<asked, found, todo>>
  /\ UNCHANGED <<store, world, requests, restarts>>

(* The UPDATE and the audit row that keeps the policy it replaces. *)
WritePolicy(request) ==
  LET t == TargetOf[request.body] IN
  /\ policy' = [policy EXCEPT ![t] = PolicyOf[request.body]]
  /\ audit' = Append(audit, [op |-> request.op, body |-> request.body,
                             previous |-> Observed(t)])

SetPolicy_ReappliesReplay(h) ==
  /\ pc[h] = "set"
  /\ \/ /\ Rows(asked[h].op) # {}
        /\ policy' = [policy EXCEPT ![TargetOf[asked[h].body]] = PolicyOf[asked[h].body]]
        /\ UNCHANGED audit
     \/ Rows(asked[h].op) = {} /\ WritePolicy(asked[h])
  /\ Answer(h)
  /\ UNCHANGED <<enforced, everForced, world, requests, restarts>>

(* set_policy: under BEGIN IMMEDIATE the operation is looked up again. *)
SetPolicy(h) ==
  /\ pc[h] = "set"
  /\ \/ Rows(asked[h].op) # {} /\ UNCHANGED <<policy, audit>>
     \/ Rows(asked[h].op) = {} /\ WritePolicy(asked[h])
  /\ Answer(h)
  /\ UNCHANGED <<enforced, everForced, world, requests, restarts>>

(* Docker or SQLite raises: the transaction under way is rolled back, what
   the thread committed before stays. *)
Raises(h) ==
  /\ pc[h] # "idle"
  /\ Answer(h)
  /\ UNCHANGED <<store, world, requests, restarts>>

ThreadStep(h) ==
  \/ Receive(h) \/ Replay(h) \/ List(h) \/ Listed(h) \/ SetPolicy(h) \/ Raises(h)
  \/ \E t \in Targets : Observe(h, t)

Next ==
  \/ \E h \in Threads : ThreadStep(h)
  \/ Restart
  \/ DockerChanges

Spec == Init /\ [][Next]_vars
-----------------------------------------------------------------------------
(* What the audit says *)

First(t) == IF Legacy[t] = NoRow THEN "discovered" ELSE Legacy[t]

About(i) == TargetOf[audit[i].body]

(* The first n rows of the audit say that the policy of t is p. *)
Recorded(t, n, p) ==
  \/ p = First(t) /\ \A i \in 1..n : About(i) # t
  \/ \E i \in 1..n : /\ About(i) = t
                     /\ PolicyOf[audit[i].body] = p
                     /\ \A j \in (i + 1)..n : About(j) # t

(* Only a configured protection changes a policy without a row of audit. *)
Explained(t, n, p) == Recorded(t, n, p) \/ (t \in everForced /\ p = "protected")

(* The audit tells the whole history of every policy: each row replaced the
   policy that the row before it had set, and the policy in force is the one
   of the last row, unless a configured protection was written in between.
   Inventories, restarts, repeated operations and handlers of the same target
   that overlap leave no other trace (set_policy, observe, force_protected and
   the migration at start). *)
AuditExplains ==
  /\ \A i \in DOMAIN audit :
       Explained(About(i), i - 1, audit[i].previous)
  /\ \A t \in Targets :
       policy[t] # NoRow => Explained(t, Len(audit), policy[t])

(* Once an inventory of this process has come across the target configured as
   protected, the table says protected until the configuration is changed:
   no change of policy received before or after, on any thread, undoes it
   (update_policy's test and force_protected). *)
EnforcedHolds == \A t \in enforced : policy[t] = "protected"
=============================================================================
