-------------------------- MODULE DatabaseSchema --------------------------
(***************************************************************************)
(* The schema of the Controller's database and the locks of its            *)
(* transactions.                                                           *)
(*                                                                         *)
(* There is no migration tool. Each function of a repository first calls   *)
(* the ensure_* function of its lot, which calls that of the lot before:   *)
(* every operation is a chain of transactions of DDL, that change nothing  *)
(* when the schema is complete but still take their locks, and then the    *)
(* transaction of the operation. Threads of the API, the runs of the       *)
(* worker and the operator's scripts do this at the same time, on a        *)
(* database that an older version may have made.                           *)
(*                                                                         *)
(* A transaction is the sequence of its statements, and a statement is     *)
(* the lock it takes and the objects of the schema it needs or makes.      *)
(* PostgreSQL holds a lock until the end of the transaction, shows its     *)
(* objects to others when it commits, and cancels one that waits too long  *)
(* or in a cycle. One row and one key stand for those of a table: no       *)
(* transaction of this code locks two rows of a table that another one     *)
(* could lock in the other order, but for those of one connection, which   *)
(* synchronize_inventory_rows serialises on the row of the connection.     *)
(***************************************************************************)
EXTENDS Naturals, Sequences, FiniteSets

CONSTANTS
  Sessions,   \* the clients of the database, each with one connection at a time
  Work,       \* the operations a session may ask for
  Bases       \* what the database may hold when this version starts

VARIABLES
  base,       \* what it held, a member of Bases
  schema,     \* the objects that are committed
  op,         \* the operation a session is in, or the last one that failed
  stage,      \* which of its transactions is open, 0 when none is
  at,         \* the next statement of the current transaction
  looked,     \* CREATE TABLE IF NOT EXISTS has found no table
  held,       \* locks of the current transaction, <<object, mode>>
  made,       \* objects it has made or replaced
  answer      \* how the last operation ended

client == <<op, stage, answer>>
transaction == <<at, looked, held, made>>
vars == <<base, schema, client, transaction>>

-----------------------------------------------------------------------------
(* Locks of PostgreSQL: tables, rows, keys being inserted, advisory. *)

(* The modes that exclude a mode. Tables: access share, row share, row
   exclusive, share, share row exclusive, access exclusive. Rows: key share,
   no key update, update. "X" is a lock nobody shares. *)
Excludes ==
  [ AS |-> {"AE"}, RS |-> {"AE"}, RE |-> {"SH", "SRE", "AE"},
    SH |-> {"RE", "SRE", "AE"}, SRE |-> {"RE", "SH", "SRE", "AE"},
    AE |-> {"AS", "RS", "RE", "SH", "SRE", "AE"},
    KS |-> {"UP"}, NK |-> {"NK", "UP"}, UP |-> {"KS", "NK", "UP"},
    X  |-> {"X"} ]

(* A statement names a table, a row or a key and takes its lock in a mode, but
   only if the object "unless" is missing; one that skips goes on without a lock
   that is taken. CREATE TABLE takes no lock that matters to others. *)
Statement(kind, on, mode, unless, needs, makes, replaces) ==
  [ kind |-> kind, on |-> on, mode |-> mode, unless |-> unless,
    needs |-> needs, makes |-> makes, replaces |-> replaces ]

Lock(o, m) == Statement("execute", o, m, "none", {}, {}, {})
TryLock(o, m) == Statement("skip", o, m, "none", {}, {}, {})
Use(o, m, xs) == Statement("execute", o, m, "none", xs, {}, {})
Alter(t, xs) == Statement("execute", t, "AE", "none", {t}, xs, {})
ForeignKey(x, t, xs) == Statement("execute", t, "SRE", x, {}, xs, {})
Trigger(x, t) == Statement("execute", t, "SRE", x, {t}, {x}, {})
Replace(f) == Statement("execute", "none", "none", "none", {}, {}, {f})
Table(t, xs) == Statement("create", t, "none", "none", {}, {t} \cup xs, {})

-----------------------------------------------------------------------------
(* The transactions that bring the schema up to date *)

EnsureJobs ==
  << Table("jobs", {}), ForeignKey("jobs", "services", {}),
     Alter("jobs", {"jobs.operation_id"}) >>

EnsureWorkerContracts ==
  << Table("agent_connections", {"agent_connections.agent_id"}),
     Table("targets", {"targets.is_pilotable"}),
     ForeignKey("targets", "agent_connections", {}),
     Table("service_targets", {}),
     ForeignKey("service_targets", "services", {}),
     ForeignKey("service_targets", "targets", {}) >>

(* EnsureWorkerConcurrency that replaces its functions before it locks *)
EnsureWorkerConcurrency_FunctionsFirst ==
  << Replace("reject_target_identity_update"),
     Use("service_targets", "SH", {"service_targets"}),
     Alter("jobs", {}),
     ForeignKey("jobs.target_id", "targets",
                {"jobs.target_id", "jobs_one_active_per_service"}),
     Trigger("targets_identity_immutable", "targets") >>

EnsureWorkerConcurrency ==
  << Use("service_targets", "SH", {"service_targets"}),
     Alter("jobs", {}),
     ForeignKey("jobs.target_id", "targets",
                {"jobs.target_id", "jobs_one_active_per_service"}),
     Replace("reject_target_identity_update"),
     Trigger("targets_identity_immutable", "targets") >>

EnsureAgentSync ==
  << Alter("agent_connections", {"agent_connections.agent_id"}),
     Alter("targets", {"targets.is_pilotable"}),
     Table("compose_members", {}), Table("docker_inventory_issues", {}),
     Replace("require_pilotable_service_target"),
     Trigger("targets_protection_forced", "targets"),
     Trigger("service_targets_pilotable", "service_targets") >>

EnsureEvents ==
  << Table("events", {}), ForeignKey("events", "services", {}),
     ForeignKey("events", "jobs", {}) >>

(* The objects of the database a new volume starts with: all of them. *)
Complete ==
  {"jobs", "jobs.operation_id", "agent_connections",
   "agent_connections.agent_id", "targets", "targets.is_pilotable",
   "service_targets", "jobs.target_id", "jobs_one_active_per_service",
   "reject_target_identity_update", "targets_identity_immutable",
   "compose_members", "docker_inventory_issues",
   "require_pilotable_service_target", "targets_protection_forced",
   "service_targets_pilotable", "events"}

-----------------------------------------------------------------------------
(* The transactions of the operations *)

RequestJob ==
  << Lock("services", "RS"), Lock("services.row", "UP"),
     Use("service_targets", "AS", {"service_targets"}),
     Use("targets", "AS", {"targets", "targets.is_pilotable"}),
     Use("jobs", "AS", {"jobs", "jobs.target_id"}),
     Use("jobs", "RE", {"jobs", "jobs.target_id"}),
     Lock("targets", "RS"), Lock("targets.row", "KS") >>

ClaimNext ==
  << Lock("claims", "X"), Use("jobs", "AS", {"jobs"}),
     Use("jobs", "RS", {"jobs", "jobs.target_id"}),
     Use("targets", "AS", {"targets", "targets.is_pilotable"}),
     Use("jobs", "RE", {"jobs"}), TryLock("jobs.row", "UP") >>

UpdateJob ==
  << Use("jobs", "RE", {"jobs", "jobs.target_id", "jobs.operation_id"}),
     Lock("jobs.row", "NK") >>

UpdateStatus == << Lock("services", "RE"), Lock("services.row", "NK") >>

CreateEvent ==
  << Use("events", "RE", {"events"}),
     Lock("services", "RS"), Lock("services.row", "KS"),
     Lock("jobs", "RS"), Lock("jobs.row", "KS") >>

CreateConnection ==
  << Use("agent_connections", "RE",
         {"agent_connections", "agent_connections.agent_id"}),
     Lock("agent_connections.key", "X") >>

CreateTarget ==
  << Use("targets", "RE", {"targets", "targets.is_pilotable"}),
     Lock("targets.key", "X"),
     Lock("agent_connections", "RS"), Lock("agent_connections.row", "KS") >>

UpdatePolicy ==
  << Use("targets", "RE", {"targets"}), Lock("targets.row", "NK") >>

BindService ==
  << Lock("services", "RS"), Lock("services.row", "UP"),
     Use("service_targets", "RE", {"service_targets"}),
     Lock("targets", "AS"), Lock("service_targets.key", "X"),
     Lock("targets", "RS"), Lock("targets.row", "KS") >>

(* SynchronizeInventory without SELECT ... FOR UPDATE on the connection, which
   the foreign key of its rows then locks after the targets *)
SynchronizeInventory_NoRowLock ==
  << Use("targets", "AS", {"targets"}),
     Use("targets", "RE", {"targets", "targets.is_pilotable"}),
     Lock("targets.key", "X"),
     Lock("agent_connections", "RS"), Lock("agent_connections.row", "KS"),
     Lock("targets.row", "NK") >>

SynchronizeInventory ==
  << Use("agent_connections", "RS", {"agent_connections"}),
     Lock("agent_connections.row", "UP"),
     Use("targets", "AS", {"targets"}),
     Use("targets", "RE", {"targets", "targets.is_pilotable"}),
     Lock("targets.key", "X"), Lock("targets.row", "NK"),
     Use("compose_members", "RE", {"compose_members"}),
     Lock("compose_members.row", "NK"),
     Use("docker_inventory_issues", "RE", {"docker_inventory_issues"}),
     Lock("docker_inventory_issues.row", "NK") >>

Script ==
  [ ensure_jobs_table |-> EnsureJobs,
    ensure_worker_contracts_schema |-> EnsureWorkerContracts,
    ensure_worker_concurrency_schema |-> EnsureWorkerConcurrency,
    ensure_agent_sync_schema |-> EnsureAgentSync,
    ensure_events_table |-> EnsureEvents,
    request |-> RequestJob, claim |-> ClaimNext, job |-> UpdateJob,
    status |-> UpdateStatus, event |-> CreateEvent,
    connection |-> CreateConnection, target |-> CreateTarget,
    policy |-> UpdatePolicy, bind |-> BindService, sync |-> SynchronizeInventory ]

Operations ==
  {"request", "claim", "job", "status", "event", "connection", "target",
   "policy", "bind", "sync"}

(* Plan with a binding that asks for the schema of the jobs only *)
Plan_BindAsJob(o) ==
  IF o \in {"request", "claim", "job", "bind"}
    THEN <<"ensure_jobs_table", "ensure_worker_contracts_schema",
           "ensure_worker_concurrency_schema", o>>
  ELSE <<"ensure_jobs_table", "ensure_worker_contracts_schema",
         "ensure_worker_concurrency_schema", "ensure_agent_sync_schema", o>>

(* The transactions of an operation: those of the ensure_* that the functions of
   jobs_repository, of events_repository, of services_repository and of the two
   repositories of the inventory call first, and its own. *)
Plan(o) ==
  IF o \in {"request", "claim", "job"}
    THEN <<"ensure_jobs_table", "ensure_worker_contracts_schema",
           "ensure_worker_concurrency_schema", o>>
  ELSE IF o = "event" THEN <<"ensure_jobs_table", "ensure_events_table", o>>
  ELSE IF o = "status" THEN <<o>>
  ELSE <<"ensure_jobs_table", "ensure_worker_contracts_schema",
         "ensure_worker_concurrency_schema", "ensure_agent_sync_schema", o>>

ASSUME SchemaAssumption ==
  /\ Work \in [Sessions -> SUBSET Operations]
  /\ \A b \in Bases : b \subseteq Complete

-----------------------------------------------------------------------------
Init ==
  /\ base \in Bases
  /\ schema = base
  /\ op = [s \in Sessions |-> "none"]
  /\ stage = [s \in Sessions |-> 0]
  /\ answer = [s \in Sessions |-> "none"]
  /\ at = [s \in Sessions |-> 1]
  /\ looked = [s \in Sessions |-> FALSE]
  /\ held = [s \in Sessions |-> {}]
  /\ made = [s \in Sessions |-> {}]

Open(s) == stage[s] # 0
Running(s) == Plan(op[s])[stage[s]]
Steps(s) == Script[Running(s)]
HasNext(s) == Open(s) /\ at[s] <= Len(Steps(s))
Current(s) == Steps(s)[at[s]]
Visible(s) == schema \cup made[s]
Others(s) == Sessions \ {s}

NeedsLock(s) == Current(s).mode # "none" /\ Current(s).unless \notin schema

(* The sessions that hold a lock which excludes the one of the statement. *)
Holders(s) ==
  IF NeedsLock(s)
  THEN {t \in Others(s) : \E m \in Excludes[Current(s).mode] :
          <<Current(s).on, m>> \in held[t]}
  ELSE {}

(* A name that another transaction has just created: its insertion in the
   catalogue waits for the end of that transaction. *)
Creators(s) ==
  IF looked[s]
  THEN {t \in Others(s) : Current(s).on \in made[t]}
  ELSE {}

WaitsFor(s) ==
  IF HasNext(s) /\ Current(s).kind # "skip"
  THEN Holders(s) \cup Creators(s) ELSE {}

(* Sessions each of which waits for one of them: PostgreSQL cancels one. *)
Deadlocked(D) == D # {} /\ \A s \in D : WaitsFor(s) \cap D # {}

Advance(s) ==
  /\ at' = [at EXCEPT ![s] = @ + 1]
  /\ looked' = [looked EXCEPT ![s] = FALSE]

Reset(s) ==
  /\ at' = [at EXCEPT ![s] = 1]
  /\ looked' = [looked EXCEPT ![s] = FALSE]
  /\ held' = [held EXCEPT ![s] = {}]
  /\ made' = [made EXCEPT ![s] = {}]

-----------------------------------------------------------------------------
Begin(s) ==
  /\ ~Open(s)
  /\ \E o \in Work[s] : op' = [op EXCEPT ![s] = o]
  /\ stage' = [stage EXCEPT ![s] = 1]
  /\ answer' = [answer EXCEPT ![s] = "none"]
  /\ UNCHANGED <<base, schema, transaction>>

(* A statement that finds what it names and gets its lock. *)
Execute(s) ==
  /\ HasNext(s)
  /\ LET st == Current(s)
         free == Holders(s) = {}
     IN /\ st.kind # "create"
        /\ free \/ st.kind = "skip"
        /\ st.needs \subseteq Visible(s)
        /\ \A t \in Others(s) : st.replaces \cap made[t] = {}
        /\ held' = [held EXCEPT ![s] =
             IF NeedsLock(s) /\ free THEN @ \cup {<<st.on, st.mode>>} ELSE @]
        /\ made' = [made EXCEPT ![s] =
             @ \cup (st.makes \ schema) \cup st.replaces]
  /\ Advance(s)
  /\ UNCHANGED <<base, schema, client>>

(* CREATE TABLE IF NOT EXISTS looks for the table and does nothing if there is
   one, *)
LookForTable(s) ==
  /\ HasNext(s)
  /\ Current(s).kind = "create" /\ ~looked[s]
  /\ \/ /\ Current(s).on \in Visible(s)
        /\ Advance(s)
     \/ /\ Current(s).on \notin Visible(s)
        /\ looked' = [looked EXCEPT ![s] = TRUE]
        /\ at' = at
  /\ UNCHANGED <<base, schema, client, held, made>>

(* ... and otherwise inserts its name, which must still be free. *)
CreateTable(s) ==
  /\ HasNext(s)
  /\ Current(s).kind = "create" /\ looked[s]
  /\ Creators(s) = {}
  /\ Current(s).on \notin schema
  /\ made' = [made EXCEPT ![s] = @ \cup Current(s).makes]
  /\ Advance(s)
  /\ UNCHANGED <<base, schema, client, held>>

Commit(s) ==
  /\ Open(s) /\ ~HasNext(s)
  /\ schema' = schema \cup made[s]
  /\ IF stage[s] < Len(Plan(op[s]))
     THEN /\ stage' = [stage EXCEPT ![s] = @ + 1]
          /\ op' = op
     ELSE /\ stage' = [stage EXCEPT ![s] = 0]
          /\ op' = [op EXCEPT ![s] = "none"]
  /\ Reset(s)
  /\ UNCHANGED <<base, answer>>

(* The exception leaves the function: the connection rolls back, and what the
   chain has committed before stays. *)
Rollback(s, why) ==
  /\ answer' = [answer EXCEPT ![s] = why]
  /\ stage' = [stage EXCEPT ![s] = 0]
  /\ Reset(s)
  /\ UNCHANGED <<base, schema, op>>

(* An object that is missing, a name that another transaction has just taken,
   or a row of the catalogue that another one replaces. *)
Error(s, why) ==
  LET st == Current(s)
  IN \/ why = "undefined" /\ st.kind # "create" /\ ~(st.needs \subseteq Visible(s))
     \/ why = "duplicate" /\ st.kind = "create" /\ looked[s] /\ st.on \in schema
     \/ why = "concurrent" /\ \E t \in Others(s) : st.replaces \cap made[t] # {}

Fail(s) ==
  /\ HasNext(s)
  /\ \E why \in {"undefined", "duplicate", "concurrent"} :
       Error(s, why) /\ Rollback(s, why)

(* lock_timeout, or the deadlock detector of PostgreSQL. *)
CancelWait(s) ==
  /\ WaitsFor(s) # {}
  /\ Rollback(s, "cancelled")

Next == \E s \in Sessions :
  \/ Begin(s)
  \/ Execute(s)
  \/ LookForTable(s)
  \/ CreateTable(s)
  \/ Commit(s)
  \/ Fail(s)
  \/ CancelWait(s)

Spec == Init /\ [][Next]_vars

-----------------------------------------------------------------------------
(* Types. *)
AllLocks ==
  UNION {{<<Script[x][i].on, Script[x][i].mode>> : i \in 1 .. Len(Script[x])} :
           x \in DOMAIN Script}

TypeOK ==
  /\ base \in Bases
  /\ schema \in SUBSET Complete /\ base \subseteq schema
  /\ op \in [Sessions -> Operations \cup {"none"}]
  /\ stage \in [Sessions -> Nat]
  /\ \A s \in Sessions : Open(s) => /\ op[s] # "none"
                                   /\ stage[s] <= Len(Plan(op[s]))
                                   /\ at[s] <= Len(Steps(s)) + 1
  /\ at \in [Sessions -> Nat \ {0}]
  /\ looked \in [Sessions -> BOOLEAN]
  /\ held \in [Sessions -> SUBSET AllLocks]
  /\ made \in [Sessions -> SUBSET Complete]
  /\ answer \in [Sessions -> {"none", "undefined", "duplicate",
                              "concurrent", "cancelled"}]

(* The transactions take their locks in an order, so that no deadlock is
   possible, but for two of them: the creation of a target, which locks the
   connection after the key of the target, and the upgrade to the inventory,
   which locks service_targets after targets. *)
OutOfOrder(s) ==
  \/ op[s] = "target"
  \/ /\ Open(s) /\ Running(s) = "ensure_agent_sync_schema"
     /\ "service_targets_pilotable" \notin schema

OnlyKnownDeadlocks ==
  \A D \in SUBSET {s \in Sessions : ~OutOfOrder(s)} : ~Deadlocked(D)

(* What each transaction relies on and does not check: the index that allows
   one active job, the triggers that keep the identity of a target, its
   protection, and services away from targets that cannot be piloted. *)
Guards ==
  [ request |-> {"jobs_one_active_per_service"},
    bind    |-> {"service_targets_pilotable"},
    policy  |-> {"targets_protection_forced", "targets_identity_immutable"},
    sync    |-> {"targets_protection_forced", "targets_identity_immutable"} ]

(* Whatever the database held and whoever upgrades it, such a transaction only
   begins when its guards are committed. *)
WritesAreGuarded ==
  \A s \in Sessions : Open(s) /\ Running(s) \in DOMAIN Guards =>
    Guards[Running(s)] \subseteq schema

(* A complete database never answers that an object is missing or already
   there; an older one says so only to the operation that reads a column no
   chain of the jobs adds, or to those that race to make its first tables. No
   database sees two transactions replace a function at the same time. *)
FailuresExplained ==
  \A s \in Sessions :
    /\ answer[s] = "undefined" =>
         /\ op[s] \in {"request", "claim"}
         /\ "targets.is_pilotable" \notin base
    /\ answer[s] = "duplicate" =>
         ~({"jobs", "agent_connections", "targets", "service_targets",
            "events"} \subseteq base)
    /\ answer[s] # "concurrent"
=============================================================================
