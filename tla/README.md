# NodeConductor in TLA+

Specifications, model-checking configurations and machine-checked proofs of the
parts of NodeConductor that run concurrently: the durable job queue of the
backend, its worker loop, the catalogue of services behind the HTTP interface,
the schema that every operation of the backend brings up to date before it does
anything, the restricted actions of the Docker Agent, the management policies
the Agent keeps, and the synchronisation of its inventory.
Paths below are relative to the root of the repository; `backend/…` stands for
`backend/src/nodeconductor/…` and `agent/…` for `agent/src/nodeconductor_agent/…`.

    tlc -workers 2 -config JobQueueLife.cfg MCJobQueue.tla
    tlapm JobQueueProofs.tla

## 1. The system

| Component | State it keeps | Operations | Hard behaviours |
|---|---|---|---|
| **Job queue**: `backend/repositories/jobs_repository.py`, `services/jobs.py`, `services/jobs_worker.py` | tables `services`, `targets`, `service_targets`, `jobs` of PostgreSQL | request a start or a stop, claim, run, cancel, complete by hand | requests, workers, administrators and the inventory change the same rows, each in transactions of one or a few statements; a run is five transactions and may die between any two |
| **Worker loop**: `backend/services/worker_loop.py`, `main.py` | `_task`, `_active_tasks`, `_stop_event`, the thread pool | start, fill the places, wait, stop | a stop while a claim is under way, a claim that raises, a pool smaller than the number of places |
| **Agent actions**: `agent/action_service.py`, `action_repository.py`, `docker_gateway.py`, `compose_runner.py` | SQLite journal `resource_action_operations`, `_active_operations`, `_resource_locks` | execute an action on a container or a Compose project, replay, recover at start | repeated and concurrent operations, a crash after dispatch, timeouts of adapters, a policy withdrawn meanwhile |
| **Agent inventory and policies**: `agent/inventory_service.py`, `policy_repository.py` | SQLite `resource_policies` and its audit, four cached snapshots | list a page, change a policy, force a protection | snapshots evicted between two pages, containers that vanish during a listing, repeated policy changes |
| **Inventory synchronisation**: `backend/services/agent_inventory_sync.py`, `repositories/agent_inventory_repository.py` | rows of `targets`, `compose_members`, `docker_inventory_issues` | fetch all pages, validate, replace the rows | two synchronisations at once, applied in the other order |
| **Service catalogue**: `backend/services/register.py`, `repositories/services_repository.py`, `core/middleware.py` | table `services`, its sequence and unique index, the events about services | create, change, list page by page, behind the two middlewares | a name checked and then inserted by two requests; the 504 of a request whose thread goes on; an event recorded after the commit it tells of; a list that changes between two pages |
| **Database schema**: the `ensure_*` functions of `backend/repositories/*_repository.py` | tables, columns, indexes, functions and triggers of PostgreSQL | a chain of transactions of DDL before each operation | the chains of several sessions at once, on a database an older version made; table locks taken in different orders; an object that is not there yet |
| Worker contracts, events, other HTTP routes, Agent client, Compose registry, configuration | see `PROJECT.json` | single statements, I/O and parsing | those of the parts they belong to |

How they interact. An HTTP handler inserts a job for a service. The worker loop
of any backend instance claims it and runs it on a pool thread, which writes the
transitional status of the service, calls an executor with the job's
`operation_id`, ends the job and writes the final status. The Agent receives an
operation by `operation_id`, records it, sends one command to Docker or Docker
Compose, and answers a verdict. The synchronisation of an Agent's inventory
updates `targets.is_pilotable`, which requests and claims read. In the present
code the executors are a simulation and a placeholder: the backend does not call
the Agent's actions yet, so the two halves are specified separately and meet in
the `operation_id`, which one half keeps stable and the other uses only once.

What makes each part correct:

* job queue: a service shows the status its job is accountable for, at every
  moment; one job at a time per service and per target without ever relying on
  the unique indexes; the quotas; terminal rows are final; no pending job is
  starved;
* worker loop: places, no abandoned thread, no forgotten job, a stop that ends;
* Agent actions: one command per operation, known to the journal before it
  leaves; verdicts that are true; one answer per operation; every caller answered;
* inventory: the rows are those of one complete snapshot, and say of each
  container something it has been since the synchronisation began; a forced
  protection is never undone; a policy change is applied once;
* service catalogue: an answer, once given, stays true; a name refused by the
  index and not by the lookup had been free meanwhile; a client that reads all
  pages is shown every service there was; every request is answered, even one
  whose thread hangs;
* database schema: an operation begins only when the index or trigger it relies on
  is committed; transactions wait for one another in an order; an error about a
  missing object has a cause.

`PROJECT.json` lists the places of the code where these can go wrong
(`hazards`), with the properties that watch them.

## 2. Modules

| Module | Role |
|---|---|
| `ServiceActions` | start and stop, the statuses of a service, and which follow from an action and its outcome |
| `ServiceSlot` | abstract specification of the queue: a slot per service with one action in it |
| `JobQueue` | the queue, one SQL statement per action |
| `JobQueueProofs`, `JobQueueRefinement` | its theorems: invariants, action properties and quotas; implementation of `ServiceSlot` |
| `OperationLedger` | abstract specification of the Agent's actions: a record, at most one command and one verdict per operation |
| `AgentActions` | `ActionService.execute` on concurrent threads, the journal, restarts |
| `AgentActionsProofs` | its theorems: invariants; implementation of `OperationLedger` |
| `WorkerLoop` | the asyncio loop, the tasks of the jobs, the thread pool, the lifespan |
| `WorkerLoopProofs` | its theorems |
| `PolicyStore` | policies of the Agent's resources, their audit, `update_policy` on concurrent threads, the inventories that write to the same table |
| `PolicyStoreProofs` | its theorems |
| `ComposeState` | as operators: state and health of a Compose project from those of its containers, and what an action on it takes for success |
| `InventoryCopy` | abstract specification of the synchronisation: a copy of what the containers are, written by overlapping readers |
| `InventorySync` | the Agent's snapshots and their pages, and the Controller that reads them and replaces its rows; uses `ComposeState` |
| `InventorySyncProofs` | its theorems: invariants, implementation of `InventoryCopy`, and what the rules of `ComposeState` guarantee |
| `NameRegister` | abstract specification of the catalogue: named rows that each request changes at most once, in one step |
| `ServiceCatalogue` | requests that create and change services, from the middlewares to the event, and a client that lists them |
| `ServiceCatalogueProofs` | its theorems: invariants, the pages, implementation of `NameRegister` |
| `DatabaseSchema` | the transactions of all operations of the backend as the locks they take and the objects they need or make |
| `DatabaseSchemaProofs` | its theorems |
| `MCJobQueue`, `MCAgentActions`, `MCWorkerLoop`, `MCPolicyStore`, `MCInventorySync`, `MCServiceCatalogue`, `MCDatabaseSchema` | instances for TLC |

A definition named `X_Something` next to a definition `X` is `X` with a
plausible fault (a missing `FOR UPDATE`, a forgotten reset). No specification
uses it; replacing `X` by it makes TLC find the property violated that is
recorded with it in `PROJECT.json` (`mutants`).

### JobQueue

Requests are numbered by the start of their transaction, which is the
`created_at` of the job they insert and so the order of claims; job `r` is the
one request `r` inserted. `svc`, `bound`, `pilotable`, `status`, `target`,
`opid` are columns. `owner` is the row lock that `SELECT … FOR UPDATE` takes on
a service; an `UPDATE` of the service waits for it. `pc` and `seen` are what a
request's transaction has done and read; `run` and `outcome` belong to the
thread that runs a job; `counted` are the claimers that hold the advisory lock;
`admin` is what an administrator's thread has decided on and not yet written.

| Actions | Code |
|---|---|
| `RequestBegin`, `RequestLock`, `RequestReadTarget`, `RequestCheckActive`, `RequestInsert`, `RequestAbort` | `request_job_for_service_atomically`, statement by statement, and its rollback |
| `ClaimBegin`, `ClaimTake` | `claim_next_pending_job`: the count under the advisory lock, then the `UPDATE` with `SKIP LOCKED` |
| `RunIdentify`, `RunMarkStarted`, `RunExecute`, `RunFinish`, `RunSettle` | the steps of `run_claimed_job` |
| `RunLost` | the process stops, or a statement (that of an event included) raises, between two of these steps; nothing in the code takes the job up again |
| `CancelFetch`, `CancelUpdate`, `CancelConflict` | `cancel_job` |
| `CompleteBegin`, `CompleteClaim`, `CompleteConflict` | `simulate_job_completion`, `run_job`, `claim_pending_job` |
| `Bind` | `create_service_target_binding_row` |
| `SetPilotable` | what a synchronisation does to a target |

PostgreSQL runs READ COMMITTED, so a statement is atomic and reads what was
committed before it; two statements are merged into one action only where the
row lock hides what is between them.

### AgentActions

A request's body stands for target kind, target, actor and action, the tuple the
code compares; a verdict stands for the result codes that say the same about the
command (the table is in the module's header). `journal`, `what` and
`dispatched` are the row; `leader` is `_active_operations`; `lock` is
`_resource_locks`; `pc`, `op`, `body`, `reply` are the locals of a handler
thread. `sent`, `flying`, `answers` and `late` observe the world: commands sent,
commands that may still act, what clients were told, and commands that left
after the policy of their target was withdrawn.

| Actions | Code |
|---|---|
| `Receive`, `Leave`, `Replay` | `execute`: leader, followers, the event, the replay |
| `Begin`, `BeginRaises` | `ActionRepository.begin`: started, busy, replay, conflict |
| `TakeLock`, `Observe`, `MarkDispatched`, `Send`, `Return`, `Check`, `Unlock` | `_execute_leader`, in its order |
| `Finish`, `FinishRaises`, `MarkDispatchedRaises` | `ActionRepository.finish` and the `except` clauses |
| `Land` | Docker carries out, or drops, a command (external) |
| `SetPolicy` | a policy changes, or a protection is forced, at any moment |
| `Restart` | the process dies anywhere; `ActionRepository.__init__` closes the open rows |

What Docker shows is a free choice of `Observe` and `Check`. An adapter that
returns normally, or with an error of the engine or of the Compose process,
knows that its command has ended; one that times out knows nothing (`Return`).

### WorkerLoop

One action is what the event loop runs between two awaits, or one call on a
thread of the default executor. `loop` is the place of the coroutine `_loop`,
`active` is `_active_tasks`, `claim` and `got` are the awaited call of
`claim_next_job` and its result, `task` is the asyncio task of a job, `queue`
and `busy` are the executor. The claim is abstract: it takes any pending job
while less than `MaxConcurrency` are running. A job's task submits its call only
after the coroutine has suspended, hence behind the next claim (`TaskStarts`).
A claim may raise, before or after its commit; a run may raise half-way.

### PolicyStore

`policy` and `audit` are the two SQLite tables, `audit` in the order of its
insertions; `pc`, `asked`, `found` and `todo` are the locals of a handler thread
that changes a policy or lists the resources. `enforced` and `everForced` are
observations: the targets whose configured protection this process, or any
process, has written. A transaction is one action; there is no lock between two
of them.

| Actions | Code |
|---|---|
| `Receive`, `Replay` | `update_policy` up to the test of the configured protection |
| `List`, `Observe`, `Listed` | the inventory that `update_policy` builds to find its target, which writes a row for each resource it meets: `observe`, or `force_protected` |
| `SetPolicy` | `set_policy`: a second look for the operation, the `UPDATE`, the row of audit |
| `Raises` | any statement or Docker call raises; what was committed stays |
| `Restart` | the migration of the former table, another configuration |
| `DockerChanges` | resources come and go (external) |

### InventorySync

`docker` is the truth. `cache`, `taken`, `lister`, `todo` and `found` are the
Agent's: the snapshots it still has, all it ever took, the client its lock works
for, the containers still to be inspected, what the others showed. `pc`, `snap`,
`got` are a synchronisation's; `targets`, `members`, `issues` the rows. `since`
observes what each container has been since a synchronisation began, `applied`
which snapshot the rows come from, `refused` whether the trigger on protections
has rejected a synchronisation.

| Actions | Code |
|---|---|
| `FirstPage`, `Inspect`, `Take`, `ListFails`, `OtherClient` | `list_resources` under `_snapshot_lock`: the containers are inspected one by one while they change, the snapshot enters the cache and may push another out |
| `NextPage` | the following pages, or 409 when the snapshot is gone |
| `Begin`, `Fails`, `Apply` | `synchronize_agent_inventory`: its failures write nothing, its transaction is `synchronize_inventory_rows` with the trigger `enforce_target_protection` |
| `Restart` | the Agent forgets its snapshots and may have another `protected_target` |
| `CreateTarget`, `UpdatePolicy` | the other writes to `targets` |
| `Change` | a container is created, changes state or is removed (external) |

The policy an unprotected resource is listed with is any of `StoredPolicies`:
which one it is, is the subject of `PolicyStore`. The transaction of a
synchronisation is one action because it begins by locking the row of its
connection.

`InventoryCopy` forgets the Agent, its snapshots and the pages. There, what the
tables show of a container is `ShownOf` of its rows, a synchronisation reads from
`Begin` until it writes or gives up, and `since` is what it may write. Every
action but `Change`, `Begin`, `Apply` and the failures changes nothing there.
`ComposeState` also has the other reader of a project's containers,
`_desired_state_observed` in `agent/action_service.py`, which decides whether an
action has had its effect.

### ServiceCatalogue

`name` holds the committed names by id, `nextId` is the sequence, `changed` and
`logged` are the requests whose change and whose event are committed. `pc`,
`row`, `key` and `result` belong to the handler's thread: the row its transaction
has locked, the name it has written and not committed, how it ended. `awaited`
and `sent` belong to the event loop. `held` observes which names have been taken
without interruption since the handler began. `walk`, `offset` and `shown` are a
client's that lists page by page, `before` what there was when it began.

| Actions | Code |
|---|---|
| `Arrive`, `Refuse`, `Dispatch` | `RequestBodyLimitMiddleware` up to the route, with the validation of the body |
| `Respond`, `Complete`, `TimeOut` | `RequestTimeoutMiddleware`: the response begins, ends, or is a 504 if it had not begun |
| `Lookup` | `fetch_row_by_name` and the 409 that follows from it |
| `Allocate`, `LockRow`, `WriteKey`, `Commit` | the `INSERT` or `UPDATE`, as PostgreSQL carries it out: the id, the row lock, the entry in the unique index |
| `DatabaseFails` | `lock_timeout`, a connection lost; `Commit` may be one that the client is not told of |
| `RecordEvent`, `EventFails` | the event, in a transaction of its own |
| `FetchPage`, `CountRows` | `list_all_services_tolerant`, two statements that do not see the same table |

Only the name matters: no other column conflicts or orders.

In `NameRegister` a request is open from the start of its handler until it
changes the register, finds its name taken or its row missing, or drops out
(`fate`). The step in which it changes it is `Commit`, or `DatabaseFails` when the
commit went through and nobody was told; `Lookup`, `WriteKey` and `LockRow` decide
the refusals, and no other step of a thread is visible. The answers are `sent`.

### DatabaseSchema

An operation is its plan: the `ensure_*` transactions that the function called
first runs, each calling the one of the lot before, and then its own transaction
(`Plan`, `Script`). A transaction is a sequence of statements, and a statement
the table, row or key it locks, the mode, the objects it needs, makes or
replaces. `schema` is what is committed; `held` and `made` are a transaction's
until its end. `CREATE TABLE IF NOT EXISTS` is two steps, since PostgreSQL looks
for the name and inserts it later (`LookForTable`, `CreateTable`). `CancelWait`
is `lock_timeout` or the deadlock detector, `Fail` an error of a statement; both
roll back one transaction and leave the earlier ones of the chain committed. The
modes and what they exclude (`Excludes`) are PostgreSQL's.

## 3. Runs

| Run | Instance | What it shows |
|---|---|---|
| `JobQueueLife` | two services, both off at the beginning, that one target may be bound to; two requests, one instance, concurrency 1, one administrator, one run that dies, fairness; 260 000 states | the statuses of service and job agree, the unique indexes never fire, a transition has exactly one run behind it, rows and services only move forward, an operation keeps its identifier; a pending job is served, a run ends, `ServiceSlot` is implemented |
| `JobQueueQuotas` | three services that each start once, two targets behind one Agent, two instances, manual completions; 2.9 M states | automatic claims exceed neither quota |
| `JobQueueCancelRace` | two administrators | a documented answer that the code does not give (section 6) |
| `JobQueueManualClaim` | one administrator | a documented refusal that the code does not make (section 6) |
| `AgentActionsSafety` | three threads, two operations, two requests for one target, one restart; 2.8 M states | one command per operation, true verdicts, one answer, known overlaps, one late command; `OperationLedger` is implemented |
| `AgentActionsProgress` | two threads, one transaction that raises, fairness | every request is answered, and nothing is left behind but by such an exception |
| `WorkerLoopLife` | four jobs, three places, two pool threads, two lifetimes, two exceptions, fairness; 490 000 states | places are respected, a stop leaves nothing behind and lets at most one more job be claimed; a stop returns, a claimed job is run, a pending one is taken |
| `PolicyStoreSafety` | two threads, three requests, two operations, three bodies for two resources, one of them known to the former table, two restarts; 660 000 states | the audit explains every policy, a configured protection is not undone |
| `InventorySyncSafety` | two synchronisations and one other client, four containers (two of a project, one alone, one ambiguous), a cache of one snapshot, pages of one resource, one change in Docker, two snapshots, one restart, one write of the Controller, one container that runs at the beginning; 1.4 M states | the rows show one whole snapshot, nothing older than the synchronisation that wrote them; `InventoryCopy` is implemented; protections hold and never make a synchronisation fail; containers of a project are not pilotable |
| `ServiceCatalogueRequests` | two requests, three names, one service at the beginning, pages of one service, fairness; 830 000 states | answers stay true, late names are explained, the pages miss nothing, every request is answered; `NameRegister` is implemented |
| `ServiceCatalogueLateName` | the same requests | a documented answer that the code does not give (section 6) |
| `DatabaseSchemaSafety` | a process of the Controller with its five operations and two operators with four, on a database of the lot before the inventory and on a complete one; 1.7 M states | the only deadlocks are those of `OutOfOrder`, every writer finds its guards, every error has its cause |

Why the bounds suffice. A service has one slot, so the conflicts are between a
job and its successor, and a target has one, so they are also between the jobs of
two services: two requests may go to one service, the second before, while or
after the first is run or has died, or to two services that want the same target. Starting and stopping are the same
code with other statuses, so a third request on one service shows nothing that
the second does not; the theorems are for any number. The
quotas need more services than places: three against two global places and one
place per Agent. For the Agent the conflicts are leader against follower,
operation against operation, and before against after a restart: two operations
on one target, with two threads for a leader and a follower and a third for the
other operation. The loop has three places and the
pool two threads, so that a claim or a claimed job waits for a thread while others
have places; four jobs leave one that finds no place. For the policies, two threads
can be between the same two transactions, three requests repeat an operation
after another change of the same target, and two restarts take a protection away
and bring it back. A synchronisation is disturbed by a snapshot taken between two
of its pages, so a cache of one, pages of one resource and two snapshots are
enough for an eviction, an overlap and an older snapshot applied last; containers
that are not there at the beginning keep the number of resources within the two
pages allowed, or beyond it, and both cases occur. Two requests are enough for a
name that is looked up and then taken, given up by one service and taken by
another, and for two ids committed in the other order; three names let a service
be renamed before and after the one the client has just been shown. A cycle of
locks in the schema has two transactions that take the same two tables; the third
session makes the one wait that both wait for, and every operation of the backend
is among the nine. The connection's creation is left out of the run, not of the
module: it waits for nothing but its own key. The theorems of section 5 hold for
every value of these constants.

`CHECK_DEADLOCK FALSE` is said where the instance really stops: after the last
start of the application and the last job (`WorkerLoop`), in the quota run,
where each service starts once, in the two inventory runs, which end with
their last request and their last snapshot, and in the catalogue, which ends with
its last request and its last page.

Fairness. Threads of a process run to their next step (`WF` on the steps of a
request, of a run, of a handler thread, of the event loop and of pool threads),
which is what an operating system gives them; every statement and every adapter
call has a timeout (`statement_timeout`, `lock_timeout`, the timeouts of the
Docker client and of the Compose process), so that none of them lasts for ever.
The worker loop polls for ever, so claims are fair. In `ServiceCatalogue` the
event loop alone is fair, in what begins a response and in its timer: a handler's
thread owes nothing there, because the timeout exists for the case that it hangs.
Clients, administrators,
synchronisations, failures and restarts owe nothing. `PendingServed` excuses a
queue in which a run has died: such a job stays running for ever, keeps its
service and its place in the quotas, and the documentation names its recovery as
a later step (`Docs/Worker-reel-et-Agent-Docker.md`, sections 11 and 14). What it
leaves is `abandoned`, a stage of `ServiceSlot`. `PendingTaken` excuses a loop
that has ended, which an exception in a claim does, and one whose places in the
database are all held by such jobs.

What a run leaves to a theorem. `AgentActionsSafety` has no transaction that
raises, which with its three threads is beyond TLC: `AgentImplementsLedger` covers
it, and `AgentActionsProgress` has one with two threads. `DatabaseSchemaSafety`
begins with databases that have all the first tables, so that its run never
reaches the second half of `FailuresExplained`, two sessions that create one
table: `FailuresAreExplained` covers it.

## 4. Properties worth a word

* `IndexNeverFires`: the two unique partial indexes of `jobs` are never needed.
  That rests on the row lock of the service *and* on a binding being immutable
  and made under the same lock: a job without a target may be pending while its
  service is bound, but then no other service can have that target.
* `TransitionHasOneRun`: a transitional service always has exactly one run
  responsible for it, between `finish_running_job` and the final status
  included, when no job is active any more.
* `OneLateCommand`: withdrawing a policy does not stop the action that had passed
  its preflight; there is at most one such action per target, because at most one
  operation is open on it.
* `OverlapIsKnown`: after a timeout or a restart a new action is admitted while
  the old command may still act. That is by design, and one of the two is then
  recorded as indeterminate.
* `OneClaimAfterStop`: the claim under way when the stop is requested may still
  take a job, and the loop then runs it to its end.
* `NothingIsLeaked`: events, locks and entries of the Agent belong to threads that
  will come to give them back, and a row is open without a thread only if a
  transaction raised. One that raises in the handler of another exception leaves
  such a row, which refuses every operation on its target until a restart.
* `CopySpec`: two synchronisations may write in the other order than they began,
  and either may give up at any page; nobody ever sees half of one, and a forced
  protection survives all of them. `RegisterSpec`: a request consists of several
  transactions and may outlive its answer, yet there is one moment at which
  it takes effect; two requests with one name are serialised by the index even
  when both lookups found it free.
* `Fresh`: a snapshot is no instant of Docker, since containers are inspected one
  after the other, and of two synchronisations the older snapshot may be applied
  last. What remains true is that each row says what its container was at some
  moment since the synchronisation that wrote it had begun; it rests on the first
  page never being served from the cache, and on the 409 that ends a
  synchronisation whose snapshot was evicted.
* `ProtectionStays`: an Agent may be started with another protected target and
  then lists the former one with another policy; the row keeps its protection,
  and the trigger that guards it has nothing to refuse.
* `AuditExplains`: the policy an audit row says it replaced is the one the row
  before it had set, though handlers of one target overlap and every listing
  writes to the same table; only a configured protection goes without a row.
* `AnswersAreKept`: a refusal is final and an acknowledgement durable. What is
  left undecided is named: after a timeout the change may still come, after a
  failure of the database it may have come, and after a failure of the event it
  has come although the client is told 500; the event itself may have come too, if
  only its acknowledgement, or the reading of its row, failed.
* `LateNamesOnly`: the lookup before the `INSERT` is only good manners, the index
  decides. The price is a 500 instead of a 409, and it is paid only by a request
  during which the name had been free.
* `WalkMissesNothing`: the pages are ordered by an id that is never used twice,
  and a page and its count are two statements. Nothing is missed; a service is
  seen twice only when an id given out earlier is committed later.
* `WritesAreGuarded`: nothing checks that the index or the trigger a transaction
  relies on is there. It is, because each operation runs the chain that ends with
  the lot that makes it, also when another session has begun that chain and rolled
  it back.
* `OnlyKnownDeadlocks`: each pair of transactions takes its tables in one order,
  but for the creation of a target, which locks the connection after the key of
  the target where the synchronisation does the contrary, and for the
  transaction that upgrades to the inventory. PostgreSQL ends such a deadlock by
  an error in one of them; nothing retries it but the client.
* `FailuresExplained`: a request or a claim asks for `targets.is_pilotable`, which
  the chain it runs does not make (section 6).
* `StopEnds`, `ClaimedRuns`, `PendingTaken`: exceptions in claims and in runs are
  among the behaviours. One in a run ends only that run, whose job keeps its place in
  the database; one in a claim ends the loop, which then awaits its jobs and takes
  no other until the application is started again.

## 5. Proofs

All theorems are about the specifications as they stand, for any number of
services, targets, requests, threads, operations, restarts and failures, under
the named assumptions of the modules (`QueueAssumption`, `AgentAssumption`,
`PolicyAssumption`, `SyncAssumption`, `RowAssumption`, `CatalogueAssumption`,
`SchemaAssumption`, `LoopAssumption`: constants are sets and naturals of
the obvious shape, the containers and the requests of the catalogue are finitely
many, and a model value is not in the set it stands outside of).

* **JobQueueProofs.** `TypeCorrect`, then `QueueInvariant`: `QueueInv` is
  inductive relative to the types. Its parts are `LockInv` (a request in its
  transaction owns the row lock and what it read is still true), `BindingInv`
  (two services never share a target), `StageInv` (how transaction, row and
  thread go together), `ClearInv` (a request that found no active job may insert
  one), `OneHolder` (one job holds a service from its insertion to the final
  status), `JobMatchesService`, `LostInv` and `TransitionInv`.
  `IndexNeverFires` alone is not inductive: that nothing is active when a request
  inserts follows from `ClearInv`, which only the lock keeps true.
  `TransitionAnswered`, `ServiceAgreesWithJob`, `InsertNeverRefused`, and the
  action properties `JobRowsMoveForward`, `ServicesFollowTheCycle`,
  `IdentifierIsStable` follow.
  `QuotasHold` needs the strengthening that a claimer past its count has room
  until it claims, because the advisory lock excludes other claimers and what
  administrators start does not count as automatic.
* **JobQueueRefinement.** `QueueImplementsSlot`: every step of the queue is a
  step of one slot or changes nothing a service shows.
* **AgentActionsProofs.** `TypeCorrect`, then `JournalInvariant`: `JournalInv` is
  made of `LeaderInv`, `OneOpen` (one open operation per target), `CommandInv`
  (what a thread knows of its command where it stands), `ReplyInv` and
  `AnswerInv` (what is about to be written is true, what was answered is in the
  journal) and `LateInv`. `CommandAtMostOnce`, `JournalIsWrittenAhead`,
  `VerdictsAreTrue`, `OverlapsAreKnown`, `OneAnswer` and `AtMostOneLate` follow,
  and `AgentImplementsLedger`: every step is a step of `OperationLedger` or
  changes nothing it shows. `NothingLeaks` counts the open rows without a thread
  against the exceptions: a thread that loses its row has used one up.
  `RequestsRunDown` is the safety half of `RequestsEnd`: with `StepsLeft`, the
  number of steps a handler thread has before it at most, every step of the
  thread, one that raises included, goes down, and nobody else makes it go up; so
  a thread that the operating system runs answers after at most eleven steps, and
  only the wait of a follower for its leader is left to fairness.
* **WorkerLoopProofs.** `ControllerInvariant`: the place of the coroutine says
  what the awaited claim, the set of tasks and the executor may hold. `LocalBound`
  is not inductive because the claim under way has its place reserved and not yet
  taken; `NothingLeftBehind` needs that the coroutine leaves its loop only with an
  empty `_active_tasks`. `TypeCorrect`, `PlacesRespected`, `StopLeavesNothing` and
  `AtMostOneLateClaim` follow. `NothingIsForgotten` is what `StopEnds`,
  `ClaimedRuns` and `PendingTaken` need of every state, so that fairness is all
  that is left: a call that somebody awaits is in the queue of the pool or on a
  thread (the converse of `PoolInv`), the final gathering waits for no task that
  was not made, and only a stop or an exception makes the coroutine leave its
  loop.
* **PolicyStoreProofs.** `PolicyInvariant`, from which `TypeCorrect`,
  `ProtectionHolds` and `AuditIsComplete` follow. A step writes a policy with its
  row of audit, observes one resource, or leaves both tables alone (`StoreStep`).
  `EnforcedHolds` needs `Admitted`: whoever is past the test of the configured
  protection asks for nothing it forbids, because the configuration only changes
  when the threads are gone. `AuditExplains` needs `NoRowNoHistory`: a resource
  without a row has none in the audit or in the former table, so its first
  observation, and the migration at a restart, surprise nobody.
* **InventorySyncProofs.** `SyncInvariant`: `SnapshotInv` (every snapshot is well
  formed: a resource stands for one container, or for a project and its
  containers, and no two for the same), `ReadInv` (what a synchronisation has
  received is the beginning of the snapshot it names, and that snapshot agrees
  with what each container has been since the synchronisation began; while it is
  being built, this holds of the containers already inspected, and those that
  are neither found nor still to be inspected were absent at some moment since),
  `GuardInv` and `RowInv` (the rows, one by one, against the last snapshot
  applied). `WholeSnapshot`, `FreshRows`, `ProtectionHolds` and `MembersStay`
  follow, and `SyncImplementsCopy`: a step changes nothing that `InventoryCopy`
  shows, or is one of its steps; that what `Apply` writes was watched is `ReadInv`
  for a container in the snapshot, and for one that is not, that it was absent at
  some moment (`RowsShow` says what a replaced table shows of each container).
  `MembersNotPilotable` rests on
  labels that never change: a row that is not pilotable is one of a container
  that belongs to a project, and no snapshot lists it alone. Of `ComposeState`:
  `RunningMeansAllRun`, `StoppedMeansNoneActive`, `UnknownMeansUnclear`, for any
  number of containers; the rules of `aggregate_compose_state` are complete, its
  last line is never reached. `ShownIsObserved`, `ObservedIsShown` and
  `GoalsExclude` relate the state that the inventory shows to the one that
  `_desired_state_observed` takes for the goal of an action: what is shown as
  stopped or running is a goal reached; the converse holds for a stop when every
  health is known, and a start may have succeeded on a project shown as degraded
  or starting.
* **ServiceCatalogueProofs.** `Invariance`, with `IdsInv` (an id belongs to one
  transaction), `KeyInv` (two transactions never hold the same name, committed or
  not), `AnswerInv` (what was sent is what the handler returned) and `HeldInv` (a
  name that was never free is taken by a row that is not the request's own).
  `TypeCorrect`, `AnswersKept` and `LateNames` follow.
  `PagesMissNothing` rests on `WalkInv`. The place of a service in `ORDER BY id`
  is the number of ids up to its own, so a service of the beginning has its id
  for its place whatever is added later (`FirstPlaces`), and a service that came
  later is behind all of those: what is shown is either not beyond what the
  pages have passed, or the pages have passed all that was there.
  `CatalogueImplementsRegister` needs `KnownInv` besides (what a thread at its
  commit is about to write is what its request asked for) and `KeyInv`, which
  makes the name free at the very step of the commit; a thread that waits for the
  holder of a name is refused when the holder has committed, hence at a moment
  when the name is taken.
* **DatabaseSchemaProofs.** `Invariance`: `Committed` (what the transactions of a
  chain before the open one leave is committed), `Kept` (what the statements of
  the open one have promised is visible to it), `MadeByStatements`, `Exclusive`
  (whoever replaces a function holds the lock on the table that excludes the
  others) and `LookedFor`. `TypeCorrect`, `GuardsHold` and
  `FailuresAreExplained` follow, for every database an older version may have
  left. `DeadlocksAreKnown` gives each lock a place in one order (`Place`: the
  names of new tables, connections, events, services, bindings, jobs, targets,
  then the rows and what the inventory writes; on jobs and targets the exclusive
  lock comes first) and shows for each script that a statement that may wait asks
  for a place above that of everyone its transaction keeps waiting, or for a lock
  it already has (`ScriptsAscend`). With `LockInv` (a held lock comes from a
  statement that has run, and no two sessions hold locks that exclude each other)
  every wait goes upwards (`WaitsGoUp`), and of the sessions of a cycle the
  highest would wait for nobody. `CreateTarget` and the last statement of
  `EnsureAgentSync` have no place in any such order; they are `OutOfOrder`.

Only model-checked: the liveness properties (`RunsEnd`, `PendingServed`,
`RequestsEnd`, `StopEnds`, `ClaimedRuns`, `PendingTaken`, `EveryRequestAnswered`),
which are out of the prover's reach; `RequestsRunDown` and `NothingIsForgotten`
prove what can be proved of them without fairness. Every invariant, action
property and refinement of a passing run is proved.

## 6. Where the code and the documentation disagree

* `CancelledAnswersOk`: a cancellation that loses against another cancellation is
  answered 409, where `Docs/Jobs-et-actions.md:436` promises `200 OK` for a
  cancelled job.
* `NoClaimOnUnpilotableTarget`: `claim_pending_job` takes a pending job whose
  target has stopped being pilotable, where
  `Docs/Worker-reel-et-Agent-Docker.md:773` says that the claim is refused.

* `ExistingNameIsConflict`: of two requests that give one name at once, one may be
  answered 500, where `Docs/API-v1.md:161` and `:228` promise 409. `LateNamesOnly`
  says when.

One more, which no run states because a property above contains it: on a
database of the lot before the inventory, requests and claims fail on the missing
column `targets.is_pilotable` until some other operation has upgraded the schema
(`FailuresExplained`), where `Docs/Worker-reel-et-Agent-Docker.md:761` describes
a migration that is strictly additive.

## 7. Not modelled, and the plan

Not modelled: transport, TLS and decoding; configuration; the parsing of the
Compose registry; the texts of events and errors (writing an event is modelled as
something that may raise); `reset_rows`, which only tests call.

In `ServiceCatalogue`, the process does not die: a crash commits or rolls back
each transaction, which is what `DatabaseFails` and `Commit` do already, and
answers nobody. The validation of a body is a choice of `Dispatch`. In
`DatabaseSchema`, one row and one key stand for those of a table; the operations
owe nothing, so nothing is said of an upgrade that ends. An older database than
that of the lot before the inventory is in the theorems, not in the run. The deadlocks of `OutOfOrder` are real:
three sessions reach one during the upgrade to the inventory, and in a complete
schema the creation of a target has one with a synchronisation.

A target row that a former version made for a container whose labels have become
unusable is marked absent but stays pilotable in the Controller
(`_disable_legacy_member_targets` looks at members of projects only); the Agent
refuses an action on it. Pages that the Agent of this repository never sends, and
which the Controller refuses, are not modelled either.

Next, in this order:

1. The safety half of `RunsEnd` and `PendingServed`, as `NothingIsForgotten` is
   for the worker loop: a run always has a next step, and a pending job of a free
   place and a pilotable target is claimable.
2. The calls of the backend to the Agent's actions, once the executors make them:
   the `operation_id` that `JobQueue` keeps stable is the one that `AgentActions`
   uses only once.
