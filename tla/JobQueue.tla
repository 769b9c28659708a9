------------------------------ MODULE JobQueue ------------------------------
(***************************************************************************)
(* The durable queue of service actions of the NodeConductor backend: the  *)
(* tables services, targets, service_targets and jobs, and the threads     *)
(* that read and write them one SQL statement at a time.                   *)
(*                                                                         *)
(* A request thread asks for a start or a stop; an automatic worker claims *)
(* a pending job and a thread runs it; an administrator cancels a job or   *)
(* completes one by hand; the inventory synchronisation flips the          *)
(* is_pilotable flag of a target under all of them.                        *)
(*                                                                         *)
(* One action is one SQL statement (PostgreSQL runs READ COMMITTED, so a   *)
(* statement sees what was committed when it began) or, where the row lock *)
(* of the service makes the difference invisible, two adjacent ones.       *)
(*                                                                         *)
(* Requests are numbered by the instant their transaction begins. That is  *)
(* the value of created_at (now() is the transaction's start), hence the   *)
(* order in which workers take jobs; the job that request r inserts, if it *)
(* inserts one, is job r.                                                  *)
(***************************************************************************)
EXTENDS Naturals, FiniteSets, ServiceActions

CONSTANTS
  Services,          \* rows of services
  Targets,           \* rows of targets
  NoTarget,          \* NULL in a target_id column
  Connections,       \* rows of agent_connections
  ConnectionOf,      \* targets.connection_id, immutable by trigger
  Instances,         \* backend processes whose worker loop is enabled
  Admins,            \* handler threads of the cancel and complete endpoints
  MaxRequests,       \* bound: number of action requests ever received
  MaxConcurrency,    \* worker_max_concurrency
  MaxPerConnection,  \* worker_max_concurrency_per_connection
  MaxFailures        \* bound: number of runs whose thread dies half-way

ASSUME QueueAssumption ==
  /\ Services # {}
  /\ NoTarget \notin Targets
  /\ ConnectionOf \in [Targets -> Connections]
  /\ MaxRequests \in Nat
  /\ MaxConcurrency \in Nat \ {0}
  /\ MaxPerConnection \in Nat \ {0}
  /\ MaxFailures \in Nat

Requests == 1..MaxRequests
Nobody   == 0        \* no request holds the row lock
NoOne    == 0        \* no job in an administrator's hands
JobStatus == {"none", "pending", "running", "succeeded", "failed",
              "indeterminate", "cancelled"}

VARIABLES
  svc,        \* services.status
  bound,      \* service_targets: the target of a service, or NoTarget
  pilotable,  \* targets.is_pilotable
  owner,      \* the request holding the row lock of a service
  pc,         \* where a request transaction stands
  ask,        \* the service and the action a request is about
  seen,       \* the service status the request read under the lock
  target,     \* jobs.target_id, the request's snapshot of the binding
  status,     \* jobs.status; "none" while there is no such row
  opid,       \* jobs.operation_id: NULL, or where its UUID was drawn
  auto,       \* jobs claimed by the automatic worker
  run,        \* how far the thread running a job has come
  outcome,    \* what the executor answered that thread
  counted,    \* claimers past the capacity check (they hold the advisory lock)
  admin       \* what an administrator's thread is about to UPDATE

rows     == <<svc, bound, pilotable, owner>>
requests == <<pc, ask, seen, target>>
jobs     == <<status, opid, auto>>
runs     == <<run, outcome>>
vars     == <<rows, requests, jobs, runs, counted, admin>>

-----------------------------------------------------------------------------
(* What the SQL statements compute. A definition named X_Fault is X with a
   plausible fault; Next uses none of them, they only serve to show that the
   properties notice the fault. *)

Active(r)  == status[r] \in {"pending", "running"}
Running    == {r \in Requests : status[r] = "running"}
RunningOn(c) ==
  {r \in Running : target[r] # NoTarget /\ ConnectionOf[target[r]] = c}

(* _target_is_pilotable, and the same test in the claim's WHERE clause. *)
Pilotable(t) == t # NoTarget => pilotable[t]

(* _fetch_active_job, and the two unique partial indexes. *)
ActiveFor(s, t) ==
  {r \in Requests : Active(r) /\ (\/ ask[r].service = s
                                  \/ t # NoTarget /\ target[r] = t)}

GlobalCapacityAvailable == Cardinality(Running) < MaxConcurrency

ConnectionCapacityAvailable(t) ==
  t # NoTarget =>
    Cardinality(RunningOn(ConnectionOf[t])) < MaxPerConnection

(* The rows the claim's candidate query may return ... *)
Eligible(r) ==
  /\ status[r] = "pending"
  /\ Pilotable(target[r])
  /\ ConnectionCapacityAvailable(target[r])

(* ... and the ones SKIP LOCKED may pass over: another UPDATE is under way. *)
BeingUpdated(r) == \E a \in Admins : admin[a].job = r

Claimable_HeadOfLine(r) == Eligible(r) /\ \A q \in Requests :
                                             q < r => status[q] # "pending"

(* The oldest candidate that is not skipped. *)
Claimable(r) == Eligible(r) /\ \A q \in Requests :
                                 q < r /\ Eligible(q) => BeingUpdated(q)

(* An administrator's thread with nothing to do. *)
Idle == [op |-> "idle", job |-> NoOne]

-----------------------------------------------------------------------------
TypeOK ==
  /\ svc \in [Services -> ServiceStatus]
  /\ bound \in [Services -> Targets \cup {NoTarget}]
  /\ pilotable \in [Targets -> BOOLEAN]
  /\ owner \in [Services -> Requests \cup {Nobody}]
  /\ pc \in [Requests -> {"idle", "begun", "locked", "checked", "clear",
                          "done", "violated"}]
  /\ ask \in [Requests -> [service : Services, action : Actions]]
  /\ seen \in [Requests -> ServiceStatus \cup {"none"}]
  /\ target \in [Requests -> Targets \cup {NoTarget}]
  /\ status \in [Requests -> JobStatus]
  /\ opid \in [Requests -> {"none", "claim", "run"}]
  /\ auto \in SUBSET Requests
  /\ run \in [Requests -> {"none", "claimed", "identified", "started",
                           "executed", "finished", "done", "lost"}]
  /\ outcome \in [Requests -> Outcomes \cup {"none"}]
  /\ counted \in SUBSET Instances
  /\ admin \in [Admins -> {Idle} \cup [op  : {"cancel", "complete"},
                                      job : Requests]]

(* A database with services in their seeded statuses, some already bound, and
   no job. What a request that has not arrived asks for is immaterial. *)
Init ==
  /\ svc \in [Services -> {"off", "on"}]
  /\ bound \in [Services -> Targets \cup {NoTarget}]
  /\ \A s, q \in Services : bound[s] = bound[q] => s = q \/ bound[s] = NoTarget
  /\ pilotable = [t \in Targets |-> TRUE]
  /\ owner = [s \in Services |-> Nobody]
  /\ pc = [r \in Requests |-> "idle"]
  /\ ask = [r \in Requests |-> [service |-> CHOOSE s \in Services : TRUE,
                               action |-> "start"]]
  /\ seen = [r \in Requests |-> "none"]
  /\ target = [r \in Requests |-> NoTarget]
  /\ status = [r \in Requests |-> "none"]
  /\ opid = [r \in Requests |-> "none"]
  /\ auto = {}
  /\ run = [r \in Requests |-> "none"]
  /\ outcome = [r \in Requests |-> "none"]
  /\ counted = {}
  /\ admin = [a \in Admins |-> Idle]

-----------------------------------------------------------------------------
(* request_job_for_service_atomically *)

(* The transaction begins: now() is fixed, and with it the place in line. *)
RequestBegin(r, s, a) ==
  /\ pc[r] = "idle"
  /\ \A q \in Requests : q < r => pc[q] # "idle"
  /\ pc' = [pc EXCEPT ![r] = "begun"]
  /\ ask' = [ask EXCEPT ![r] = [service |-> s, action |-> a]]
  /\ UNCHANGED <<rows, seen, target, jobs, runs, counted, admin>>

RequestLock_NoForUpdate(r) ==
  /\ pc[r] = "begun"
  /\ seen' = [seen EXCEPT ![r] = svc[ask[r].service]]
  /\ pc' = [pc EXCEPT ![r] = "locked"]
  /\ UNCHANGED <<rows, ask, target, jobs, runs, counted, admin>>

(* SELECT id, status FROM services ... FOR UPDATE *)
RequestLock(r) ==
  /\ pc[r] = "begun"
  /\ owner[ask[r].service] = Nobody
  /\ owner' = [owner EXCEPT ![ask[r].service] = r]
  /\ seen' = [seen EXCEPT ![r] = svc[ask[r].service]]
  /\ pc' = [pc EXCEPT ![r] = "locked"]
  /\ UNCHANGED <<svc, bound, pilotable, ask, target, jobs, runs, counted,
                 admin>>

Release_KeepsLock(r, end) ==
  /\ pc' = [pc EXCEPT ![r] = end]
  /\ UNCHANGED <<owner, seen>>

(* The end of the transaction, with a row inserted or not. *)
Release(r, end) ==
  /\ owner' = [owner EXCEPT ![ask[r].service] =
                 IF owner[ask[r].service] = r THEN Nobody ELSE @]
  /\ seen' = [seen EXCEPT ![r] = "none"]
  /\ pc' = [pc EXCEPT ![r] = end]

(* _fetch_target_id then _target_is_pilotable. The binding is written once
   and under the same row lock, so nothing can come between the two. *)
RequestReadTarget(r) ==
  LET t == bound[ask[r].service] IN
  /\ pc[r] = "locked"
  /\ \/ /\ Pilotable(t)
        /\ target' = [target EXCEPT ![r] = t]
        /\ pc' = [pc EXCEPT ![r] = "checked"]
        /\ UNCHANGED <<owner, seen>>
     \/ /\ ~ Pilotable(t)                        \* "target_not_pilotable"
        /\ Release(r, "done")
        /\ UNCHANGED target
  /\ UNCHANGED <<svc, bound, pilotable, ask, jobs, runs, counted, admin>>

(* _fetch_active_job, then the comparison with the status read first. *)
RequestCheckActive(r) ==
  LET s == ask[r].service IN
  /\ pc[r] = "checked"
  /\ \/ /\ ActiveFor(s, target[r]) = {}
        /\ seen[r] = Required(ask[r].action)
        /\ pc' = [pc EXCEPT ![r] = "clear"]
        /\ UNCHANGED <<owner, seen, target>>
     \/ /\ \/ ActiveFor(s, target[r]) # {}       \* "active"
           \/ seen[r] # Required(ask[r].action)  \* "state"
        /\ Release(r, "done")
        /\ target' = [target EXCEPT ![r] = NoTarget]
  /\ UNCHANGED <<svc, bound, pilotable, ask, jobs, runs, counted, admin>>

(* INSERT INTO jobs ... and commit. jobs_one_active_per_service and
   jobs_one_active_per_target refuse a second active row: the statement
   would raise, which no caller expects. *)
RequestInsert(r) ==
  LET clash == ActiveFor(ask[r].service, target[r]) # {} IN
  /\ pc[r] = "clear"
  /\ status' = [status EXCEPT ![r] = IF clash THEN "none" ELSE "pending"]
  /\ Release(r, IF clash THEN "violated" ELSE "done")
  /\ UNCHANGED <<svc, bound, pilotable, ask, target, opid, auto, runs,
                 counted, admin>>

(* statement_timeout, lock_timeout, a lost connection: ROLLBACK. *)
RequestAbort(r) ==
  /\ pc[r] \in {"begun", "locked", "checked", "clear"}
  /\ Release(r, "done")
  /\ target' = [target EXCEPT ![r] = NoTarget]
  /\ UNCHANGED <<svc, bound, pilotable, ask, jobs, runs, counted, admin>>

-----------------------------------------------------------------------------
(* claim_next_pending_job. A claim transaction that fails rolls back and is
   one that never began; what that does to the loop is in WorkerLoop. *)

ClaimBegin_NoAdvisoryLock(i) ==
  /\ GlobalCapacityAvailable
  /\ counted' = counted \cup {i}
  /\ UNCHANGED <<rows, requests, jobs, runs, admin>>

(* pg_advisory_xact_lock, then _global_capacity_available. *)
ClaimBegin(i) ==
  /\ counted = {}
  /\ GlobalCapacityAvailable
  /\ counted' = counted \cup {i}
  /\ UNCHANGED <<rows, requests, jobs, runs, admin>>

(* status = 'running', operation_id = COALESCE(operation_id, uuid4()) *)
StartRunning(r) ==
  /\ status' = [status EXCEPT ![r] = "running"]
  /\ opid' = [opid EXCEPT ![r] = IF @ = "none" THEN "claim" ELSE @]
  /\ run' = [run EXCEPT ![r] = "claimed"]
  /\ UNCHANGED outcome

(* WITH candidate ... UPDATE jobs ... and commit. *)
ClaimTake(i) ==
  /\ i \in counted
  /\ counted' = counted \ {i}
  /\ \/ \E r \in Requests : /\ Claimable(r)
                            /\ StartRunning(r)
                            /\ auto' = auto \cup {r}
     \/ /\ \A r \in Requests : Eligible(r) => BeingUpdated(r)
        /\ UNCHANGED <<jobs, runs>>
  /\ UNCHANGED <<rows, requests, admin>>

-----------------------------------------------------------------------------
(* run_claimed_job: each step is a transaction of its own. *)

RunIdentify_NoCoalesce(r) ==
  /\ run[r] = "claimed"
  /\ opid' = [opid EXCEPT ![r] = "run"]
  /\ run' = [run EXCEPT ![r] = "identified"]
  /\ UNCHANGED <<rows, requests, status, auto, outcome, counted, admin>>

(* ensure_running_job_operation_id *)
RunIdentify(r) ==
  /\ run[r] = "claimed"
  /\ opid' = [opid EXCEPT ![r] = IF @ = "none" THEN "run" ELSE @]
  /\ run' = [run EXCEPT ![r] = IF status[r] = "running" THEN "identified"
                                                         ELSE "lost"]
  /\ UNCHANGED <<rows, requests, status, auto, outcome, counted, admin>>

(* _record_job_started: update_service_status_row waits for the row lock. *)
RunMarkStarted(r) ==
  LET s == ask[r].service IN
  /\ run[r] = "identified"
  /\ owner[s] = Nobody
  /\ svc' = [svc EXCEPT ![s] = Transitional(ask[r].action)]
  /\ run' = [run EXCEPT ![r] = "started"]
  /\ UNCHANGED <<bound, pilotable, owner, requests, jobs, outcome, counted,
                 admin>>

(* _execute_cooperatively: every exception becomes one of three outcomes. *)
RunExecute(r) ==
  /\ run[r] = "started"
  /\ \E o \in Outcomes : outcome' = [outcome EXCEPT ![r] = o]
  /\ run' = [run EXCEPT ![r] = "executed"]
  /\ UNCHANGED <<rows, requests, jobs, counted, admin>>

(* finish_running_job *)
RunFinish(r) ==
  LET held == status[r] = "running" IN
  /\ run[r] = "executed"
  /\ status' = [status EXCEPT ![r] = IF held THEN outcome[r] ELSE @]
  /\ run' = [run EXCEPT ![r] = IF held THEN "finished" ELSE "lost"]
  /\ UNCHANGED <<rows, requests, opid, auto, outcome, counted, admin>>

RunSettle_OnSuccessOnly(r) ==
  LET s == ask[r].service IN
  /\ run[r] = "finished"
  /\ svc' = [svc EXCEPT ![s] = IF outcome[r] = "succeeded"
                               THEN Final(ask[r].action, outcome[r]) ELSE @]
  /\ run' = [run EXCEPT ![r] = "done"]
  /\ outcome' = [outcome EXCEPT ![r] = "none"]
  /\ UNCHANGED <<bound, pilotable, owner, requests, jobs, counted, admin>>

(* The final update_service_status_row. *)
RunSettle(r) ==
  LET s == ask[r].service IN
  /\ run[r] = "finished"
  /\ owner[s] = Nobody
  /\ svc' = [svc EXCEPT ![s] = Final(ask[r].action, outcome[r])]
  /\ run' = [run EXCEPT ![r] = "done"]
  /\ outcome' = [outcome EXCEPT ![r] = "none"]
  /\ UNCHANGED <<bound, pilotable, owner, requests, jobs, counted, admin>>

(* The process stops, or a statement raises between two steps (writing an
   event is one such statement): nothing resumes the run, and _job_done
   swallows the exception. *)
RunLost(r) ==
  /\ run[r] \in {"claimed", "identified", "started", "executed", "finished"}
  /\ Cardinality({q \in Requests : run[q] = "lost"}) < MaxFailures
  /\ run' = [run EXCEPT ![r] = "lost"]
  /\ outcome' = [outcome EXCEPT ![r] = "none"]
  /\ UNCHANGED <<rows, requests, jobs, counted, admin>>

-----------------------------------------------------------------------------
(* cancel_job and simulate_job_completion *)

(* fetch_job_by_id found the job pending; otherwise the answer is given at
   once and nothing changes. *)
CancelFetch(a, r) ==
  /\ admin[a].op = "idle"
  /\ status[r] = "pending"
  /\ admin' = [admin EXCEPT ![a] = [op |-> "cancel", job |-> r]]
  /\ UNCHANGED <<rows, requests, jobs, runs, counted>>

CancelUpdate_AnyStatus(a) ==
  LET r == admin[a].job IN
  /\ admin[a].op = "cancel"
  /\ status' = [status EXCEPT ![r] = "cancelled"]
  /\ admin' = [admin EXCEPT ![a] = Idle]
  /\ UNCHANGED <<rows, requests, opid, auto, runs, counted>>

(* cancel_pending_job *)
CancelUpdate(a) ==
  LET r == admin[a].job IN
  /\ admin[a].op = "cancel"
  /\ status[r] = "pending"
  /\ status' = [status EXCEPT ![r] = "cancelled"]
  /\ admin' = [admin EXCEPT ![a] = Idle]
  /\ UNCHANGED <<rows, requests, opid, auto, runs, counted>>

(* The UPDATE matched no row: the job is fetched again and, whatever its
   status, the answer is 409. *)
CancelConflict(a) ==
  /\ admin[a].op = "cancel"
  /\ status[admin[a].job] # "pending"
  /\ admin' = [admin EXCEPT ![a] = Idle]
  /\ UNCHANGED <<rows, requests, jobs, runs, counted>>

(* simulate-complete names a job; claim_pending_job is about to run. *)
CompleteBegin(a, r) ==
  /\ admin[a].op = "idle"
  /\ status[r] # "none"
  /\ admin' = [admin EXCEPT ![a] = [op |-> "complete", job |-> r]]
  /\ UNCHANGED <<rows, requests, jobs, runs, counted>>

CompleteClaim_AnyStatus(a) ==
  LET r == admin[a].job IN
  /\ admin[a].op = "complete"
  /\ StartRunning(r)
  /\ admin' = [admin EXCEPT ![a] = Idle]
  /\ UNCHANGED <<rows, requests, auto, counted>>

(* claim_pending_job: by id, with no quota and no look at the target. The
   handler's thread then runs the job like any other. *)
CompleteClaim(a) ==
  LET r == admin[a].job IN
  /\ admin[a].op = "complete"
  /\ status[r] = "pending"
  /\ StartRunning(r)
  /\ admin' = [admin EXCEPT ![a] = Idle]
  /\ UNCHANGED <<rows, requests, auto, counted>>

(* Not pending any more: WorkerJobConflictError. *)
CompleteConflict(a) ==
  /\ admin[a].op = "complete"
  /\ status[admin[a].job] # "pending"
  /\ admin' = [admin EXCEPT ![a] = Idle]
  /\ UNCHANGED <<rows, requests, jobs, runs, counted>>

-----------------------------------------------------------------------------
(* create_service_target_binding_row: the service row is locked, the unique
   columns and the trigger service_targets_pilotable are checked. *)
Bind(s, t) ==
  /\ owner[s] = Nobody
  /\ bound[s] = NoTarget
  /\ \A q \in Services : bound[q] # t
  /\ pilotable[t]
  /\ bound' = [bound EXCEPT ![s] = t]
  /\ UNCHANGED <<svc, pilotable, owner, requests, jobs, runs, counted, admin>>

(* A synchronisation marks the target pilotable (_upsert_resource) or finds
   that it is a Compose member (_disable_legacy_member_targets). *)
SetPilotable(t, b) ==
  /\ pilotable[t] # b
  /\ pilotable' = [pilotable EXCEPT ![t] = b]
  /\ UNCHANGED <<svc, bound, owner, requests, jobs, runs, counted, admin>>

-----------------------------------------------------------------------------
RequestStep(r) == \/ RequestLock(r)
                  \/ RequestReadTarget(r)
                  \/ RequestCheckActive(r)
                  \/ RequestInsert(r)

RunStep(r) == \/ RunIdentify(r)
              \/ RunMarkStarted(r)
              \/ RunExecute(r)
              \/ RunFinish(r)
              \/ RunSettle(r)

AdminStep(a) == \/ CancelUpdate(a)
                \/ CancelConflict(a)
                \/ CompleteClaim(a)
                \/ CompleteConflict(a)

Next ==
  \/ \E r \in Requests : \/ \E s \in Services, a \in Actions :
                              RequestBegin(r, s, a)
                         \/ RequestStep(r)
                         \/ RequestAbort(r)
                         \/ RunStep(r)
                         \/ RunLost(r)
  \/ \E i \in Instances : ClaimBegin(i) \/ ClaimTake(i)
  \/ \E a \in Admins : \/ AdminStep(a)
                       \/ \E r \in Requests : \/ CancelFetch(a, r)
                                              \/ CompleteBegin(a, r)
  \/ \E t \in Targets : \/ \E s \in Services : Bind(s, t)
                        \/ \E b \in BOOLEAN : SetPilotable(t, b)

Spec == Init /\ [][Next]_vars

(* Threads of the backend run to their next statement, and the worker loop
   polls for ever; clients, administrators and the inventory owe nothing. *)
Fairness ==
  /\ \A r \in Requests : WF_vars(RequestStep(r)) /\ WF_vars(RunStep(r))
  /\ \A i \in Instances : WF_vars(ClaimBegin(i)) /\ WF_vars(ClaimTake(i))
  /\ \A a \in Admins : WF_vars(AdminStep(a))

FairSpec == Spec /\ Fairness

-----------------------------------------------------------------------------
(* Safety *)

(* The two unique indexes on active jobs are a net nobody falls into: the row
   lock of the service and the search for an active job are enough for an
   INSERT of request_job_for_service_atomically never to be refused. *)
IndexNeverFires == \A r \in Requests : pc[r] # "violated"

(* As long as a job is pending, or running without having touched its service,
   the service is in the status the job was accepted for; from there until its
   thread writes the final status, the service shows the transitional status
   of that very job (a thread that died leaves it in one of the two). *)
JobMatchesService ==
  \A r \in Requests :
    LET s == svc[ask[r].service]
        a == ask[r].action IN
    /\ status[r] = "pending" \/ run[r] \in {"claimed", "identified"}
         => s = Required(a)
    /\ run[r] \in {"started", "executed", "finished"} => s = Transitional(a)

(* A service is shown starting or stopping only while one run, and only one,
   is responsible for it, and no other job of the service is waiting: the
   final status is written by that run or, if its thread died, by nobody. *)
InTransition(s) == svc[s] \in {"starting", "stopping"}
Responsible(s) ==
  {r \in Requests : /\ ask[r].service = s
                    /\ run[r] \in {"started", "executed", "finished", "lost"}
                    /\ svc[s] = Transitional(ask[r].action)}
TransitionHasOneRun ==
  \A s \in Services : InTransition(s) =>
    /\ Cardinality(Responsible(s)) = 1
    /\ \A r \in Requests : ask[r].service = s => status[r] # "pending"

(* worker_max_concurrency bounds the jobs that automatic workers run at the
   same time, whatever the number of instances, and although the count and the
   claim are two statements between which an administrator may start a job. *)
GlobalQuota == Cardinality(Running \cap auto) <= MaxConcurrency

(* worker_max_concurrency_per_connection does the same for each Agent. *)
ConnectionQuota ==
  \A c \in Connections : Cardinality(RunningOn(c) \cap auto) <= MaxPerConnection

(* Both limits of the configuration, at every moment. *)
Quotas == GlobalQuota /\ ConnectionQuota

(* Nobody can wait for ever behind a row lock whose owner is gone: a lock is
   held exactly by a request that is between its SELECT and its commit. *)
LockHeldByItsRequest ==
  \A s \in Services : owner[s] # Nobody =>
    /\ ask[owner[s]].service = s
    /\ pc[owner[s]] \in {"locked", "checked", "clear"}

-----------------------------------------------------------------------------
(* The inductive invariant behind the properties above *)

InTransaction(r) == pc[r] \in {"locked", "checked", "clear"}

(* Under its row lock a request cannot be overtaken: what it read still holds. *)
LockInv ==
  /\ LockHeldByItsRequest
  /\ \A r \in Requests : InTransaction(r) =>
       /\ owner[ask[r].service] = r
       /\ seen[r] = svc[ask[r].service]

(* Two services never share a target, and a job's target is its service's. *)
BindingInv ==
  /\ \A s, q \in Services : bound[s] = bound[q] /\ bound[s] # NoTarget => s = q
  /\ \A r \in Requests :
       /\ target[r] # NoTarget => target[r] = bound[ask[r].service]
       /\ pc[r] \in {"idle", "begun", "locked"} => target[r] = NoTarget

(* How the transaction, the row and the thread of one job go together. *)
StageInv ==
  \A r \in Requests :
    /\ pc[r] # "done" => status[r] = "none"
    /\ status[r] \in {"none", "pending", "cancelled"} => run[r] = "none"
    /\ status[r] = "running" => run[r] \in {"claimed", "identified", "started",
                                           "executed", "lost"}
    /\ status[r] \in Outcomes => run[r] \in {"finished", "done", "lost"}
    /\ run[r] \in {"executed", "finished"} => outcome[r] \in Outcomes
    /\ run[r] # "none" => opid[r] # "none"

(* Having looked for an active job, a request may insert one. *)
ClearInv ==
  \A r \in Requests : pc[r] = "clear" =>
    /\ seen[r] = Required(ask[r].action)
    /\ ActiveFor(ask[r].service, target[r]) = {}

(* A job holds its service until the final status is written, for ever if its
   thread died. *)
Holds(r) == Active(r) \/ run[r] \in {"finished", "lost"}

OneHolder ==
  \A q, r \in Requests :
    Holds(q) /\ Holds(r) /\ ask[q].service = ask[r].service => q = r

(* What a dead thread left behind. *)
LostInv ==
  \A r \in Requests : run[r] = "lost" =>
    \/ svc[ask[r].service] = Transitional(ask[r].action)
    \/ /\ status[r] = "running"
       /\ svc[ask[r].service] = Required(ask[r].action)

TransitionInv ==
  \A s \in Services : InTransition(s) => Responsible(s) # {}

QueueInv == /\ IndexNeverFires
            /\ LockInv
            /\ BindingInv
            /\ StageInv
            /\ ClearInv
            /\ OneHolder
            /\ JobMatchesService
            /\ LostInv
            /\ TransitionInv

-----------------------------------------------------------------------------
(* Action properties *)

(* The life of a jobs row: a job nobody took may be cancelled, a job somebody
   took is never cancelled, and a terminal status is never rewritten. *)
JobMoves == {<<"none", "pending">>, <<"pending", "running">>,
             <<"pending", "cancelled">>, <<"running", "succeeded">>,
             <<"running", "failed">>, <<"running", "indeterminate">>}
JobLifeCycle ==
  [][\A r \in Requests :
       status'[r] # status[r] => <<status[r], status'[r]>> \in JobMoves]_vars

(* "start: off -> starting -> on, stop: on -> stopping -> off" with the two
   failure exits: no late or repeated write of a worker ever breaks the chain
   of statuses a service goes through. *)
ServiceMoves ==
  {<<"off", "starting">>, <<"starting", "on">>, <<"on", "stopping">>,
   <<"stopping", "off">>} \cup
  ({"starting", "stopping"} \X {"error", "unknown"})
ServiceLifeCycle ==
  [][\A s \in Services :
       svc'[s] # svc[s] => <<svc[s], svc'[s]>> \in ServiceMoves]_vars

(* A job has one operation_id: it is set before the job reaches its executor
   and no later statement replaces it, which is what lets an Agent recognise
   a repeated operation. *)
OneOperationId ==
  [][\A r \in Requests :
       /\ opid[r] # "none" => opid'[r] = opid[r]
       /\ run'[r] = "started" => opid[r] # "none"]_vars

-----------------------------------------------------------------------------
(* Refinement: seen from one service, the queue is the one-place slot of
   ServiceSlot. The job in the slot is the one that is pending, or whose
   thread has not written the service's final status. *)

Stage(r) ==
  CASE status[r] = "pending"                   -> "waiting"
    [] run[r] \in {"claimed", "identified"}    -> "taken"
    [] run[r] \in {"started", "executed"}      -> "working"
    [] run[r] = "finished"                     -> "over"
    [] run[r] = "lost"                         -> "abandoned"
    [] OTHER                                   -> "gone"

Current(s) == {r \in Requests : ask[r].service = s /\ Stage(r) # "gone"}

slot == [s \in Services |-> {<<ask[r].action, Stage(r)>> : r \in Current(s)}]

Slot == INSTANCE ServiceSlot WITH shown <- svc

SlotSpec == Slot!Spec

-----------------------------------------------------------------------------
(* Liveness *)

(* A job taken by a thread that does not die reaches a terminal status, and
   its service leaves the transitional status. *)
RunsEnd ==
  \A r \in Requests : (run[r] = "claimed") ~> (run[r] \in {"done", "lost"})

(* A pending job does not wait for ever while its target stays pilotable, behind
   an older one that cannot be claimed; but a run that died keeps its place in
   the quotas for ever. *)
PendingServed ==
  \A r \in Requests :
    (status[r] = "pending") ~>
      \/ status[r] # "pending" \/ ~ Pilotable(target[r])
      \/ \E q \in Running : run[q] = "lost"

-----------------------------------------------------------------------------
(* What the documentation says and the code does not do *)

(* "cancelled | 200 OK | aucun changement, le job est deja annule": a cancel
   request is not answered 409 when the job is already cancelled. *)
CancelledAnswersOk ==
  [][\A a \in Admins :
       CancelConflict(a) => status[admin[a].job] # "cancelled"]_vars

(* "la creation d'une association, d'un job ou le claim d'un job sur une telle
   cible est refuse": no job is claimed on a target that is not pilotable. *)
NoClaimOnUnpilotableTarget ==
  [][\A r \in Requests :
       status[r] = "pending" /\ status'[r] = "running"
         => Pilotable(target[r])]_vars
=============================================================================
