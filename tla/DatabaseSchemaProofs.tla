----------------------- MODULE DatabaseSchemaProofs -----------------------
(***************************************************************************)
(* Theorems about DatabaseSchema, for any number of sessions, any choice   *)
(* of their operations and whatever the database held: the guards of the   *)
(* writes are there, what may fail, and which sessions may deadlock.       *)
(***************************************************************************)
EXTENDS DatabaseSchema, WellFoundedInduction, TLAPS

-----------------------------------------------------------------------------
(* What the scripts have in common *)

FirstTables ==
  {"jobs", "agent_connections", "targets", "service_targets", "events"}

(* The functions that are replaced and the tables of the last lot: only one
   script makes them, after an exclusive lock that it takes on this table. *)
Serial ==
  {"reject_target_identity_update", "require_pilotable_service_target",
   "compose_members", "docker_inventory_issues"}

Maker(x) ==
  IF x = "reject_target_identity_update"
  THEN "ensure_worker_concurrency_schema" ELSE "ensure_agent_sync_schema"

Guardian(x) ==
  IF x = "reject_target_identity_update" THEN "jobs" ELSE "agent_connections"

Modes == {"AS", "RS", "RE", "SH", "SRE", "AE", "KS", "NK", "UP", "X"}

Locks(st, t) ==
  st.kind = "execute" /\ st.on = t /\ st.mode = "AE" /\ st.unless = "none"

(* What a statement that has run leaves there: a CREATE TABLE IF NOT EXISTS
   promises the table, not its columns. *)
Promised(st) == IF st.kind = "create" THEN {st.on} ELSE st.makes \cup st.replaces

Yields(steps, x) == \E i \in 1 .. Len(steps) : x \in Promised(steps[i])
Leaves(name, x) == Yields(Script[name], x)

(* What a transaction relies on and does not make itself. *)
Relies(name) ==
  IF name = "ensure_worker_concurrency_schema"
    THEN {"jobs", "service_targets", "targets"}
  ELSE IF name = "ensure_agent_sync_schema"
    THEN {"agent_connections", "service_targets", "targets"}
  ELSE IF name = "request"
    THEN {"service_targets", "targets", "targets.is_pilotable", "jobs",
          "jobs.target_id"}
  ELSE IF name = "claim"
    THEN {"jobs", "jobs.target_id", "targets", "targets.is_pilotable"}
  ELSE IF name = "job" THEN {"jobs", "jobs.target_id", "jobs.operation_id"}
  ELSE IF name = "event" THEN {"events"}
  ELSE IF name = "connection"
    THEN {"agent_connections", "agent_connections.agent_id"}
  ELSE IF name = "target" THEN {"targets", "targets.is_pilotable"}
  ELSE IF name = "policy" THEN {"targets"}
  ELSE IF name = "bind" THEN {"service_targets"}
  ELSE IF name = "sync"
    THEN {"agent_connections", "targets", "targets.is_pilotable",
          "compose_members", "docker_inventory_issues"}
  ELSE {}

(* A statement at its place in the script: it replaces nothing but what is
   serial, makes something serial only in the script of its maker and after the
   lock, and needs only what the script relies on or has made. *)
Sound(steps, i, name) ==
  LET st == steps[i] IN
    /\ st.kind \in {"execute", "create", "skip"}
    /\ st.makes \subseteq Complete /\ st.replaces \subseteq Complete
    /\ st.kind = "create" => /\ st.on \in st.makes /\ st.replaces = {}
                             /\ st.on \in FirstTables \cup Serial
                             /\ st.mode = "none"
    /\ \A x \in st.makes \cap FirstTables : st.kind = "create" /\ st.on = x
    /\ st.mode \in Modes \cup {"none"}
    /\ st.replaces \subseteq Serial
    /\ \A x \in (st.makes \cup st.replaces) \cap Serial :
         /\ name = Maker(x)
         /\ \E j \in 1 .. i - 1 : Locks(steps[j], Guardian(x))
    /\ \A x \in st.needs :
         \/ x \in Relies(name)
         \/ \E j \in 1 .. i - 1 : x \in Promised(steps[j])

SoundScript(steps, name) ==
  Len(steps) \in Nat /\ \A i \in 1 .. Len(steps) : Sound(steps, i, name)

-----------------------------------------------------------------------------
(* The scripts are sound, one by one, and leave what they promise. *)

LEMMA JobsSound ==
  /\ SoundScript(EnsureJobs, "ensure_jobs_table")
  /\ \A x \in {"jobs", "jobs.operation_id"} :
       Yields(EnsureJobs, x)
<1> DEFINE steps == EnsureJobs
<1>1. Len(steps) \in Nat
  BY DEF EnsureJobs
<1>2. ASSUME NEW i \in 1 .. Len(steps)
      PROVE  Sound(steps, i, "ensure_jobs_table")
  BY DEF EnsureJobs, Sound, Promised, Relies, Maker, Guardian, Locks,
         FirstTables, Serial, Complete, Modes, Statement, Table, ForeignKey,
         Alter, Trigger, Replace, Use
<1>3. /\ 1 \in 1 .. Len(steps) /\ "jobs" \in Promised(steps[1])
      /\ 3 \in 1 .. Len(steps) /\ "jobs.operation_id" \in Promised(steps[3])
  BY DEF EnsureJobs, Promised, Statement, Table, ForeignKey, Alter,
         Trigger, Replace, Use
<1> QED
  BY <1>1, <1>2, <1>3 DEF SoundScript, Yields

LEMMA ContractsSound ==
  /\ SoundScript(EnsureWorkerContracts, "ensure_worker_contracts_schema")
  /\ \A x \in {"agent_connections", "targets", "service_targets"} :
       Yields(EnsureWorkerContracts, x)
<1> DEFINE steps == EnsureWorkerContracts
<1>1. Len(steps) \in Nat
  BY DEF EnsureWorkerContracts
<1>2. ASSUME NEW i \in 1 .. Len(steps)
      PROVE  Sound(steps, i, "ensure_worker_contracts_schema")
  BY DEF EnsureWorkerContracts, Sound, Promised, Relies, Maker, Guardian, Locks,
         FirstTables, Serial, Complete, Modes, Statement, Table, ForeignKey,
         Alter, Trigger, Replace, Use
<1>3. /\ 1 \in 1 .. Len(steps) /\ "agent_connections" \in Promised(steps[1])
      /\ 2 \in 1 .. Len(steps) /\ "targets" \in Promised(steps[2])
      /\ 4 \in 1 .. Len(steps) /\ "service_targets" \in Promised(steps[4])
  BY DEF EnsureWorkerContracts, Promised, Statement, Table, ForeignKey, Alter,
         Trigger, Replace, Use
<1> QED
  BY <1>1, <1>2, <1>3 DEF SoundScript, Yields

LEMMA ConcurrencySound ==
  /\ SoundScript(EnsureWorkerConcurrency, "ensure_worker_concurrency_schema")
  /\ \A x \in {"jobs.target_id", "jobs_one_active_per_service",
             "targets_identity_immutable"} :
       Yields(EnsureWorkerConcurrency, x)
<1> DEFINE steps == EnsureWorkerConcurrency
<1>1. Len(steps) \in Nat
  BY DEF EnsureWorkerConcurrency
<1>2. ASSUME NEW i \in 1 .. Len(steps)
      PROVE  Sound(steps, i, "ensure_worker_concurrency_schema")
  BY DEF EnsureWorkerConcurrency, Sound, Promised, Relies, Maker, Guardian, Locks,
         FirstTables, Serial, Complete, Modes, Statement, Table, ForeignKey,
         Alter, Trigger, Replace, Use
<1>3. /\ 3 \in 1 .. Len(steps) /\ "jobs.target_id" \in Promised(steps[3])
      /\ 3 \in 1 .. Len(steps) /\ "jobs_one_active_per_service" \in Promised(steps[3])
      /\ 5 \in 1 .. Len(steps) /\ "targets_identity_immutable" \in Promised(steps[5])
  BY DEF EnsureWorkerConcurrency, Promised, Statement, Table, ForeignKey, Alter,
         Trigger, Replace, Use
<1> QED
  BY <1>1, <1>2, <1>3 DEF SoundScript, Yields

LEMMA AgentSyncSound ==
  /\ SoundScript(EnsureAgentSync, "ensure_agent_sync_schema")
  /\ \A x \in {"agent_connections.agent_id", "targets.is_pilotable",
             "compose_members", "docker_inventory_issues",
             "targets_protection_forced", "service_targets_pilotable"} :
       Yields(EnsureAgentSync, x)
<1> DEFINE steps == EnsureAgentSync
<1>1. Len(steps) \in Nat
  BY DEF EnsureAgentSync
<1>2. ASSUME NEW i \in 1 .. Len(steps)
      PROVE  Sound(steps, i, "ensure_agent_sync_schema")
  BY DEF EnsureAgentSync, Sound, Promised, Relies, Maker, Guardian, Locks,
         FirstTables, Serial, Complete, Modes, Statement, Table, ForeignKey,
         Alter, Trigger, Replace, Use
<1>3. /\ 1 \in 1 .. Len(steps) /\ "agent_connections.agent_id" \in Promised(steps[1])
      /\ 2 \in 1 .. Len(steps) /\ "targets.is_pilotable" \in Promised(steps[2])
      /\ 3 \in 1 .. Len(steps) /\ "compose_members" \in Promised(steps[3])
      /\ 4 \in 1 .. Len(steps) /\ "docker_inventory_issues" \in Promised(steps[4])
      /\ 6 \in 1 .. Len(steps) /\ "targets_protection_forced" \in Promised(steps[6])
      /\ 7 \in 1 .. Len(steps) /\ "service_targets_pilotable" \in Promised(steps[7])
  BY DEF EnsureAgentSync, Promised, Statement, Table, ForeignKey, Alter,
         Trigger, Replace, Use
<1> QED
  BY <1>1, <1>2, <1>3 DEF SoundScript, Yields

LEMMA EventsSound ==
  /\ SoundScript(EnsureEvents, "ensure_events_table")
  /\ \A x \in {"events"} :
       Yields(EnsureEvents, x)
<1> DEFINE steps == EnsureEvents
<1>1. Len(steps) \in Nat
  BY DEF EnsureEvents
<1>2. ASSUME NEW i \in 1 .. Len(steps)
      PROVE  Sound(steps, i, "ensure_events_table")
  BY DEF EnsureEvents, Sound, Promised, Relies, Maker, Guardian, Locks,
         FirstTables, Serial, Complete, Modes, Statement, Table, ForeignKey,
         Alter, Trigger, Replace, Use
<1>3. /\ 1 \in 1 .. Len(steps) /\ "events" \in Promised(steps[1])
  BY DEF EnsureEvents, Promised, Statement, Table, ForeignKey, Alter,
         Trigger, Replace, Use
<1> QED
  BY <1>1, <1>2, <1>3 DEF SoundScript, Yields

LEMMA OperationsSound ==
  /\ SoundScript(RequestJob, "request")
  /\ SoundScript(ClaimNext, "claim")
  /\ SoundScript(UpdateJob, "job")
  /\ SoundScript(UpdateStatus, "status")
  /\ SoundScript(CreateEvent, "event")
  /\ SoundScript(CreateConnection, "connection")
  /\ SoundScript(CreateTarget, "target")
  /\ SoundScript(UpdatePolicy, "policy")
  /\ SoundScript(BindService, "bind")
  /\ SoundScript(SynchronizeInventory, "sync")
<1>1. SoundScript(RequestJob, "request")
  <2>1. Len(RequestJob) \in Nat
    BY DEF RequestJob
  <2>2. ASSUME NEW i \in 1 .. Len(RequestJob)
        PROVE  Sound(RequestJob, i, "request")
    BY DEF RequestJob, Sound, Relies, Complete, Serial, FirstTables,
           Modes, Statement, Use, Lock
  <2> QED BY <2>1, <2>2 DEF SoundScript
<1>2. SoundScript(ClaimNext, "claim")
  <2>1. Len(ClaimNext) \in Nat
    BY DEF ClaimNext
  <2>2. ASSUME NEW i \in 1 .. Len(ClaimNext)
        PROVE  Sound(ClaimNext, i, "claim")
    BY DEF ClaimNext, Sound, Relies, Complete, Serial, FirstTables,
           Modes, Statement, Use, Lock, TryLock
  <2> QED BY <2>1, <2>2 DEF SoundScript
<1>3. SoundScript(UpdateJob, "job")
  <2>1. Len(UpdateJob) \in Nat
    BY DEF UpdateJob
  <2>2. ASSUME NEW i \in 1 .. Len(UpdateJob)
        PROVE  Sound(UpdateJob, i, "job")
    BY DEF UpdateJob, Sound, Relies, Complete, Serial, FirstTables,
           Modes, Statement, Use, Lock
  <2> QED BY <2>1, <2>2 DEF SoundScript
<1>4. SoundScript(UpdateStatus, "status")
  <2>1. Len(UpdateStatus) \in Nat
    BY DEF UpdateStatus
  <2>2. ASSUME NEW i \in 1 .. Len(UpdateStatus)
        PROVE  Sound(UpdateStatus, i, "status")
    BY DEF UpdateStatus, Sound, Relies, Complete, Serial, FirstTables,
           Modes, Statement, Use, Lock
  <2> QED BY <2>1, <2>2 DEF SoundScript
<1>5. SoundScript(CreateEvent, "event")
  <2>1. Len(CreateEvent) \in Nat
    BY DEF CreateEvent
  <2>2. ASSUME NEW i \in 1 .. Len(CreateEvent)
        PROVE  Sound(CreateEvent, i, "event")
    BY DEF CreateEvent, Sound, Relies, Complete, Serial, FirstTables,
           Modes, Statement, Use, Lock
  <2> QED BY <2>1, <2>2 DEF SoundScript
<1>6. SoundScript(CreateConnection, "connection")
  <2>1. Len(CreateConnection) \in Nat
    BY DEF CreateConnection
  <2>2. ASSUME NEW i \in 1 .. Len(CreateConnection)
        PROVE  Sound(CreateConnection, i, "connection")
    BY DEF CreateConnection, Sound, Relies, Complete, Serial, FirstTables,
           Modes, Statement, Use, Lock
  <2> QED BY <2>1, <2>2 DEF SoundScript
<1>7. SoundScript(CreateTarget, "target")
  <2>1. Len(CreateTarget) \in Nat
    BY DEF CreateTarget
  <2>2. ASSUME NEW i \in 1 .. Len(CreateTarget)
        PROVE  Sound(CreateTarget, i, "target")
    BY DEF CreateTarget, Sound, Relies, Complete, Serial, FirstTables,
           Modes, Statement, Use, Lock
  <2> QED BY <2>1, <2>2 DEF SoundScript
<1>8. SoundScript(UpdatePolicy, "policy")
  <2>1. Len(UpdatePolicy) \in Nat
    BY DEF UpdatePolicy
  <2>2. ASSUME NEW i \in 1 .. Len(UpdatePolicy)
        PROVE  Sound(UpdatePolicy, i, "policy")
    BY DEF UpdatePolicy, Sound, Relies, Complete, Serial, FirstTables,
           Modes, Statement, Use, Lock
  <2> QED BY <2>1, <2>2 DEF SoundScript
<1>9. SoundScript(BindService, "bind")
  <2>1. Len(BindService) \in Nat
    BY DEF BindService
  <2>2. ASSUME NEW i \in 1 .. Len(BindService)
        PROVE  Sound(BindService, i, "bind")
    BY DEF BindService, Sound, Relies, Complete, Serial, FirstTables,
           Modes, Statement, Use, Lock
  <2> QED BY <2>1, <2>2 DEF SoundScript
<1>10. SoundScript(SynchronizeInventory, "sync")
  <2>1. Len(SynchronizeInventory) \in Nat
    BY DEF SynchronizeInventory
  <2>2. ASSUME NEW i \in 1 .. Len(SynchronizeInventory)
        PROVE  Sound(SynchronizeInventory, i, "sync")
    BY DEF SynchronizeInventory, Sound, Relies, Complete, Serial, FirstTables,
           Modes, Statement, Use, Lock
  <2> QED BY <2>1, <2>2 DEF SoundScript
<1> QED BY <1>1, <1>2, <1>3, <1>4, <1>5, <1>6, <1>7, <1>8, <1>9, <1>10

LEMMA AllSound == \A name \in DOMAIN Script : SoundScript(Script[name], name)
BY JobsSound, ContractsSound, ConcurrencySound, AgentSyncSound, EventsSound,
   OperationsSound DEF Script

(* What each script of DDL leaves. *)
LEMMA EnsuresLeave ==
  /\ \A x \in {"jobs", "jobs.operation_id"} : Leaves("ensure_jobs_table", x)
  /\ \A x \in {"agent_connections", "targets", "service_targets"} :
       Leaves("ensure_worker_contracts_schema", x)
  /\ \A x \in {"jobs.target_id", "jobs_one_active_per_service",
               "targets_identity_immutable"} :
       Leaves("ensure_worker_concurrency_schema", x)
  /\ \A x \in {"agent_connections.agent_id", "targets.is_pilotable",
               "compose_members", "docker_inventory_issues",
               "targets_protection_forced", "service_targets_pilotable"} :
       Leaves("ensure_agent_sync_schema", x)
  /\ Leaves("ensure_events_table", "events")
<1>1. /\ Script["ensure_jobs_table"] = EnsureJobs
      /\ Script["ensure_worker_contracts_schema"] = EnsureWorkerContracts
      /\ Script["ensure_worker_concurrency_schema"] = EnsureWorkerConcurrency
      /\ Script["ensure_agent_sync_schema"] = EnsureAgentSync
      /\ Script["ensure_events_table"] = EnsureEvents
  BY DEF Script
<1> QED BY <1>1, JobsSound, ContractsSound, ConcurrencySound, AgentSyncSound,
           EventsSound DEF Leaves

-----------------------------------------------------------------------------
(* The order of the locks. A table that is being created is named by "name". *)

(* The place of a lock in the order: a transaction takes its locks upwards. Only
   on jobs and on targets does the mode matter, whose exclusive lock comes
   before the others. *)
Place(o, m) ==
  IF m = "name"
    THEN IF o = "agent_connections" THEN 0 ELSE IF o = "targets" THEN 1 ELSE 3
  ELSE IF o = "agent_connections" THEN 2
  ELSE IF o = "events" THEN 3
  ELSE IF o = "services" THEN 4
  ELSE IF o = "services.row" THEN 5
  ELSE IF o = "service_targets" THEN 6
  ELSE IF o = "claims" THEN 7
  ELSE IF o = "jobs" THEN IF m = "AE" THEN 7 ELSE 8
  ELSE IF o = "targets"
    THEN IF m = "AE" THEN 7 ELSE IF m \in {"SH", "SRE"} THEN 9 ELSE 11
  ELSE IF o \in {"agent_connections.row", "service_targets.key"} THEN 10
  ELSE IF o = "targets.key" THEN 11
  ELSE IF o = "targets.row" THEN 12
  ELSE IF o = "compose_members" THEN 13
  ELSE IF o = "compose_members.row" THEN 14
  ELSE IF o = "docker_inventory_issues" THEN 15
  ELSE 16

PlaceOf(st) == Place(st.on, IF st.kind = "create" THEN "name" ELSE st.mode)

(* The highest place of those who wait for a lock that is held. *)
Highest(o, m) ==
  IF o = "jobs" THEN IF m \in {"AS", "RS"} THEN 7 ELSE 8
  ELSE IF o = "targets"
    THEN IF m \in {"AS", "RS"} THEN 7 ELSE IF m = "RE" THEN 9 ELSE 11
  ELSE Place(o, m)

(* A statement that may wait, if no other session can make the same table. *)
MayWait(st) ==
  IF st.kind = "create" THEN st.on \in FirstTables
  ELSE st.kind = "execute" /\ st.mode # "none"

(* A mode that needs nothing more than one that is held. *)
Within(m, n) == m = n \/ (m = "SRE" /\ n = "AE")

(* Who waits for what statement j has locked or made is below the place of
   statement i, or i asks for the lock of j again. *)
Upwards(steps, j, i) ==
  /\ steps[j].mode # "none" =>
       \/ /\ steps[i].on = steps[j].on /\ steps[i].kind # "create"
          /\ Within(steps[i].mode, steps[j].mode)
       \/ Highest(steps[j].on, steps[j].mode) < PlaceOf(steps[i])
  /\ steps[j].kind = "create" /\ steps[j].on \in FirstTables =>
       Place(steps[j].on, "name") < PlaceOf(steps[i])

Ascending(steps, n) ==
  \A i \in 1 .. n :
    MayWait(steps[i]) => \A j \in 1 .. i - 1 : Upwards(steps, j, i)

(* Where the script of a session stops to be in order: an upgrade to the
   inventory locks service_targets last, for the trigger. *)
Ordered(name) ==
  IF name = "ensure_agent_sync_schema" THEN Len(EnsureAgentSync) - 1
  ELSE Len(Script[name])

LEMMA HighestIsHighest ==
  ASSUME NEW o, NEW m \in DOMAIN Excludes, NEW n \in Excludes[m]
  PROVE  Place(o, n) <= Highest(o, m)
BY DEF Excludes, Highest, Place

LEMMA WithinExcludes ==
  ASSUME NEW m \in DOMAIN Excludes, NEW n \in DOMAIN Excludes, Within(m, n)
  PROVE  Excludes[m] \subseteq Excludes[n]
BY DEF Excludes, Within

(* Statement st waits at place d, if it may wait, and who waits for what it
   locks or makes waits at place c at most. *)
Rung(st, d, c) ==
  /\ MayWait(st) => PlaceOf(st) = d
  /\ st.mode # "none" => Highest(st.on, st.mode) = c
  /\ st.kind = "create" /\ st.on \in FirstTables => Place(st.on, "name") = c

LEMMA ScriptsAscend ==
  /\ Ascending(EnsureJobs, 3)
  /\ Ascending(EnsureWorkerContracts, 6)
  /\ Ascending(EnsureWorkerConcurrency, 5)
  /\ Ascending(EnsureAgentSync, 6)
  /\ Ascending(EnsureEvents, 3)
  /\ Ascending(RequestJob, 8)
  /\ Ascending(ClaimNext, 6)
  /\ Ascending(UpdateJob, 2)
  /\ Ascending(UpdateStatus, 2)
  /\ Ascending(CreateEvent, 5)
  /\ Ascending(CreateConnection, 2)
  /\ Ascending(UpdatePolicy, 2)
  /\ Ascending(BindService, 7)
  /\ Ascending(SynchronizeInventory, 10)
<1>1. Ascending(EnsureJobs, 3)
  <2>1. /\ Rung(EnsureJobs[1], 3, 3) /\ Rung(EnsureJobs[2], 4, 4)
        /\ Rung(EnsureJobs[3], 7, 8)
    BY DEF EnsureJobs, Rung, MayWait, PlaceOf, Place, Highest, FirstTables,
           Statement, Table, ForeignKey, Alter
  <2> QED BY <2>1 DEF Ascending, Upwards, Rung
<1>2. Ascending(EnsureWorkerContracts, 6)
  <2>1. /\ Rung(EnsureWorkerContracts[1], 0, 0)
        /\ Rung(EnsureWorkerContracts[2], 1, 1)
        /\ Rung(EnsureWorkerContracts[3], 2, 2)
        /\ Rung(EnsureWorkerContracts[4], 3, 3)
        /\ Rung(EnsureWorkerContracts[5], 4, 4)
        /\ Rung(EnsureWorkerContracts[6], 9, 11)
    BY DEF EnsureWorkerContracts, Rung, MayWait, PlaceOf, Place, Highest,
           FirstTables, Statement, Table, ForeignKey
  <2> QED BY <2>1 DEF Ascending, Upwards, Rung
<1>3. Ascending(EnsureWorkerConcurrency, 5)
  <2>1. /\ Rung(EnsureWorkerConcurrency[1], 6, 6)
        /\ Rung(EnsureWorkerConcurrency[2], 7, 8)
        /\ Rung(EnsureWorkerConcurrency[3], 9, 11)
        /\ Rung(EnsureWorkerConcurrency[4], 0, 0)
        /\ Rung(EnsureWorkerConcurrency[5], 9, 11)
    BY DEF EnsureWorkerConcurrency, Rung, MayWait, PlaceOf, Place, Highest,
           FirstTables, Statement, Use, Alter, ForeignKey, Replace, Trigger
  <2>2. /\ ~ MayWait(EnsureWorkerConcurrency[4])
        /\ EnsureWorkerConcurrency[4].mode = "none"
        /\ EnsureWorkerConcurrency[4].on \notin FirstTables
        /\ EnsureWorkerConcurrency[5].on = EnsureWorkerConcurrency[3].on
        /\ EnsureWorkerConcurrency[5].kind # "create"
        /\ Within(EnsureWorkerConcurrency[5].mode, EnsureWorkerConcurrency[3].mode)
        /\ EnsureWorkerConcurrency[3].kind # "create"
    BY DEF EnsureWorkerConcurrency, MayWait, Within, FirstTables, Statement,
           Use, Alter, ForeignKey, Replace, Trigger
  <2> QED BY <2>1, <2>2 DEF Ascending, Upwards, Rung
<1>4. Ascending(EnsureAgentSync, 6)
  <2>1. /\ Rung(EnsureAgentSync[1], 2, 2) /\ Rung(EnsureAgentSync[2], 7, 11)
        /\ Rung(EnsureAgentSync[3], 0, 0) /\ Rung(EnsureAgentSync[4], 0, 0)
        /\ Rung(EnsureAgentSync[5], 0, 0) /\ Rung(EnsureAgentSync[6], 9, 11)
    BY DEF EnsureAgentSync, Rung, MayWait, PlaceOf, Place, Highest,
           FirstTables, Statement, Alter, Table, Replace, Trigger
  <2>2. /\ ~ MayWait(EnsureAgentSync[3])
        /\ EnsureAgentSync[3].mode = "none"
        /\ EnsureAgentSync[3].on \notin FirstTables
        /\ ~ MayWait(EnsureAgentSync[4])
        /\ EnsureAgentSync[4].mode = "none"
        /\ EnsureAgentSync[4].on \notin FirstTables
        /\ ~ MayWait(EnsureAgentSync[5])
        /\ EnsureAgentSync[5].mode = "none"
        /\ EnsureAgentSync[5].on \notin FirstTables
        /\ EnsureAgentSync[6].on = EnsureAgentSync[2].on
        /\ EnsureAgentSync[6].kind # "create"
        /\ Within(EnsureAgentSync[6].mode, EnsureAgentSync[2].mode)
        /\ EnsureAgentSync[2].kind # "create"
    BY DEF EnsureAgentSync, MayWait, Within, FirstTables, Statement, Alter,
           Table, Replace, Trigger
  <2> QED BY <2>1, <2>2 DEF Ascending, Upwards, Rung
<1>5. Ascending(EnsureEvents, 3)
  <2>1. /\ Rung(EnsureEvents[1], 3, 3) /\ Rung(EnsureEvents[2], 4, 4)
        /\ Rung(EnsureEvents[3], 8, 8)
    BY DEF EnsureEvents, Rung, MayWait, PlaceOf, Place, Highest, FirstTables,
           Statement, Table, ForeignKey
  <2> QED BY <2>1 DEF Ascending, Upwards, Rung
<1>6. Ascending(RequestJob, 8)
  <2>1. /\ Rung(RequestJob[1], 4, 4) /\ Rung(RequestJob[2], 5, 5)
        /\ Rung(RequestJob[3], 6, 6) /\ Rung(RequestJob[4], 11, 7)
        /\ Rung(RequestJob[5], 8, 7) /\ Rung(RequestJob[6], 8, 8)
        /\ Rung(RequestJob[7], 11, 7) /\ Rung(RequestJob[8], 12, 12)
    BY DEF RequestJob, Rung, MayWait, PlaceOf, Place, Highest, FirstTables,
           Statement, Use, Lock
  <2> QED BY <2>1 DEF Ascending, Upwards, Rung
<1>7. Ascending(ClaimNext, 6)
  <2>1. /\ Rung(ClaimNext[1], 7, 7) /\ Rung(ClaimNext[2], 8, 7)
        /\ Rung(ClaimNext[3], 8, 7) /\ Rung(ClaimNext[4], 11, 7)
        /\ Rung(ClaimNext[5], 8, 8) /\ Rung(ClaimNext[6], 0, 16)
    BY DEF ClaimNext, Rung, MayWait, PlaceOf, Place, Highest, FirstTables,
           Statement, Use, Lock, TryLock
  <2>2. /\ ~ MayWait(ClaimNext[6])
    BY DEF ClaimNext, MayWait, Within, FirstTables, Statement, Use, Lock,
           TryLock
  <2> QED BY <2>1, <2>2 DEF Ascending, Upwards, Rung
<1>8. Ascending(UpdateJob, 2)
  <2>1. /\ Rung(UpdateJob[1], 8, 8) /\ Rung(UpdateJob[2], 16, 16)
    BY DEF UpdateJob, Rung, MayWait, PlaceOf, Place, Highest, FirstTables,
           Statement, Use, Lock
  <2> QED BY <2>1 DEF Ascending, Upwards, Rung
<1>9. Ascending(UpdateStatus, 2)
  <2>1. /\ Rung(UpdateStatus[1], 4, 4) /\ Rung(UpdateStatus[2], 5, 5)
    BY DEF UpdateStatus, Rung, MayWait, PlaceOf, Place, Highest, FirstTables,
           Statement, Lock
  <2> QED BY <2>1 DEF Ascending, Upwards, Rung
<1>10. Ascending(CreateEvent, 5)
  <2>1. /\ Rung(CreateEvent[1], 3, 3) /\ Rung(CreateEvent[2], 4, 4)
        /\ Rung(CreateEvent[3], 5, 5) /\ Rung(CreateEvent[4], 8, 7)
        /\ Rung(CreateEvent[5], 16, 16)
    BY DEF CreateEvent, Rung, MayWait, PlaceOf, Place, Highest, FirstTables,
           Statement, Use, Lock
  <2> QED BY <2>1 DEF Ascending, Upwards, Rung
<1>11. Ascending(CreateConnection, 2)
  <2>1. /\ Rung(CreateConnection[1], 2, 2)
        /\ Rung(CreateConnection[2], 16, 16)
    BY DEF CreateConnection, Rung, MayWait, PlaceOf, Place, Highest,
           FirstTables, Statement, Use, Lock
  <2> QED BY <2>1 DEF Ascending, Upwards, Rung
<1>12. Ascending(UpdatePolicy, 2)
  <2>1. /\ Rung(UpdatePolicy[1], 11, 9) /\ Rung(UpdatePolicy[2], 12, 12)
    BY DEF UpdatePolicy, Rung, MayWait, PlaceOf, Place, Highest, FirstTables,
           Statement, Use, Lock
  <2> QED BY <2>1 DEF Ascending, Upwards, Rung
<1>13. Ascending(BindService, 7)
  <2>1. /\ Rung(BindService[1], 4, 4) /\ Rung(BindService[2], 5, 5)
        /\ Rung(BindService[3], 6, 6) /\ Rung(BindService[4], 11, 7)
        /\ Rung(BindService[5], 10, 10) /\ Rung(BindService[6], 11, 7)
        /\ Rung(BindService[7], 12, 12)
    BY DEF BindService, Rung, MayWait, PlaceOf, Place, Highest, FirstTables,
           Statement, Use, Lock
  <2> QED BY <2>1 DEF Ascending, Upwards, Rung
<1>14. Ascending(SynchronizeInventory, 10)
  <2>1. /\ Rung(SynchronizeInventory[1], 2, 2)
        /\ Rung(SynchronizeInventory[2], 10, 10)
        /\ Rung(SynchronizeInventory[3], 11, 7)
        /\ Rung(SynchronizeInventory[4], 11, 9)
        /\ Rung(SynchronizeInventory[5], 11, 11)
        /\ Rung(SynchronizeInventory[6], 12, 12)
        /\ Rung(SynchronizeInventory[7], 13, 13)
        /\ Rung(SynchronizeInventory[8], 14, 14)
        /\ Rung(SynchronizeInventory[9], 15, 15)
        /\ Rung(SynchronizeInventory[10], 16, 16)
    BY DEF SynchronizeInventory, Rung, MayWait, PlaceOf, Place, Highest,
           FirstTables, Statement, Use, Lock
  <2> QED BY <2>1 DEF Ascending, Upwards, Rung
<1> QED BY <1>1, <1>2, <1>3, <1>4, <1>5, <1>6, <1>7, <1>8, <1>9, <1>10, <1>11,
           <1>12, <1>13, <1>14

LEMMA AllAscend ==
  \A name \in DOMAIN Script \ {"target"} : Ascending(Script[name], Ordered(name))
<1>1. /\ Len(EnsureJobs) = 3 /\ Len(EnsureWorkerContracts) = 6
      /\ Len(EnsureWorkerConcurrency) = 5 /\ Len(EnsureAgentSync) = 7
      /\ Len(EnsureEvents) = 3 /\ Len(RequestJob) = 8 /\ Len(ClaimNext) = 6
      /\ Len(UpdateJob) = 2 /\ Len(UpdateStatus) = 2 /\ Len(CreateEvent) = 5
      /\ Len(CreateConnection) = 2 /\ Len(UpdatePolicy) = 2
      /\ Len(BindService) = 7 /\ Len(SynchronizeInventory) = 10
  BY DEF EnsureJobs, EnsureWorkerContracts, EnsureWorkerConcurrency,
         EnsureAgentSync, EnsureEvents, RequestJob, ClaimNext, UpdateJob,
         UpdateStatus, CreateEvent, CreateConnection, UpdatePolicy, BindService,
         SynchronizeInventory
<1>2. ASSUME NEW name \in DOMAIN Script, name # "ensure_agent_sync_schema",
             name # "target"
      PROVE  \/ Script[name] = EnsureJobs \/ Script[name] = EnsureWorkerContracts
             \/ Script[name] = EnsureWorkerConcurrency \/ Script[name] = EnsureEvents
             \/ Script[name] = RequestJob \/ Script[name] = ClaimNext
             \/ Script[name] = UpdateJob \/ Script[name] = UpdateStatus
             \/ Script[name] = CreateEvent \/ Script[name] = CreateConnection
             \/ Script[name] = UpdatePolicy \/ Script[name] = BindService
             \/ Script[name] = SynchronizeInventory
  BY <1>2 DEF Script
<1>3. Ascending(Script["ensure_agent_sync_schema"], Len(EnsureAgentSync) - 1)
  BY <1>1, ScriptsAscend DEF Script
<1> QED BY <1>1, <1>2, <1>3, ScriptsAscend DEF Ordered

LEMMA ModesExclude == Modes = DOMAIN Excludes
BY DEF Modes, Excludes

-----------------------------------------------------------------------------
(* The chains *)

LEMMA Plans ==
  /\ \A o \in {"request", "claim", "job"} :
       /\ Len(Plan(o)) = 4
       /\ Plan(o)[1] = "ensure_jobs_table"
       /\ Plan(o)[2] = "ensure_worker_contracts_schema"
       /\ Plan(o)[3] = "ensure_worker_concurrency_schema"
       /\ Plan(o)[4] = o
  /\ /\ Len(Plan("event")) = 3
     /\ Plan("event")[1] = "ensure_jobs_table"
     /\ Plan("event")[2] = "ensure_events_table"
     /\ Plan("event")[3] = "event"
  /\ Len(Plan("status")) = 1 /\ Plan("status")[1] = "status"
  /\ \A o \in {"connection", "target", "policy", "bind", "sync"} :
       /\ Len(Plan(o)) = 5
       /\ Plan(o)[1] = "ensure_jobs_table"
       /\ Plan(o)[2] = "ensure_worker_contracts_schema"
       /\ Plan(o)[3] = "ensure_worker_concurrency_schema"
       /\ Plan(o)[4] = "ensure_agent_sync_schema"
       /\ Plan(o)[5] = o
BY DEF Plan

LEMMA PlanRuns ==
  ASSUME NEW o \in Operations
  PROVE  /\ Len(Plan(o)) \in Nat \ {0}
         /\ \A k \in 1 .. Len(Plan(o)) :
              /\ Plan(o)[k] \in DOMAIN Script
              /\ Plan(o)[k] \in Operations => Plan(o)[k] = o
<1>1. /\ Operations \subseteq DOMAIN Script
      /\ {"ensure_jobs_table", "ensure_worker_contracts_schema",
          "ensure_worker_concurrency_schema", "ensure_agent_sync_schema",
          "ensure_events_table"} \subseteq DOMAIN Script \ Operations
  BY DEF Operations, Script
<1>2. CASE o \in {"request", "claim", "job"}
  <2>1. ASSUME NEW k \in 1 .. 4
        PROVE  /\ Plan(o)[k] \in DOMAIN Script
               /\ Plan(o)[k] \in Operations => Plan(o)[k] = o
    <3>1. k = 1 \/ k = 2 \/ k = 3 \/ k = 4
      OBVIOUS
    <3> QED BY <1>1, <1>2, <3>1, Plans
  <2>2. Len(Plan(o)) = 4
    BY <1>2, Plans
  <2> QED BY <2>1, <2>2
<1>3. CASE o = "event" \/ o = "status"
  BY <1>1, <1>3, Plans
<1>4. CASE o \in {"connection", "target", "policy", "bind", "sync"}
  <2>1. ASSUME NEW k \in 1 .. 5
        PROVE  /\ Plan(o)[k] \in DOMAIN Script
               /\ Plan(o)[k] \in Operations => Plan(o)[k] = o
    <3>1. k = 1 \/ k = 2 \/ k = 3 \/ k = 4 \/ k = 5
      OBVIOUS
    <3> QED BY <1>1, <1>4, <3>1, Plans
  <2>2. Len(Plan(o)) = 5
    BY <1>4, Plans
  <2> QED BY <2>1, <2>2
<1> QED BY <1>2, <1>3, <1>4 DEF Operations

(* A transaction relies on what the transactions before it leave, but for the
   column that no chain of the jobs adds. *)
LEMMA ReliedOn ==
  ASSUME NEW o \in Operations, NEW k \in 1 .. Len(Plan(o)),
         NEW x \in Relies(Plan(o)[k])
  PROVE  \/ o \in {"request", "claim"} /\ x = "targets.is_pilotable"
         \/ \E j \in 1 .. k - 1 : Leaves(Plan(o)[j], x)
<1>1. CASE o \in {"request", "claim", "job"}
  BY <1>1, Plans, EnsuresLeave DEF Relies
<1>2. CASE o = "event"
  BY <1>2, Plans, EnsuresLeave DEF Relies
<1>3. CASE o = "status"
  BY <1>3, Plans, EnsuresLeave DEF Relies
<1>4. CASE o \in {"connection", "target", "policy", "bind", "sync"}
  BY <1>4, Plans, EnsuresLeave DEF Relies
<1> QED BY <1>1, <1>2, <1>3, <1>4 DEF Operations

(* The guards of a transaction are left by those before it. *)
LEMMA GuardsLeft ==
  ASSUME NEW o \in Operations, NEW k \in 1 .. Len(Plan(o)),
         Plan(o)[k] \in DOMAIN Guards, NEW x \in Guards[Plan(o)[k]]
  PROVE  \E j \in 1 .. k - 1 : Leaves(Plan(o)[j], x)
<1>1. CASE o \in {"request", "claim", "job"}
  BY <1>1, Plans, EnsuresLeave DEF Guards
<1>2. CASE o = "event" \/ o = "status"
  BY <1>2, Plans DEF Guards
<1>3. CASE o \in {"connection", "target", "policy", "bind", "sync"}
  BY <1>3, Plans, EnsuresLeave DEF Guards
<1> QED BY <1>1, <1>2, <1>3 DEF Operations

-----------------------------------------------------------------------------
(* The invariant *)

(* A session without a transaction has nothing; one with a transaction has not
   been answered. *)
Resting ==
  \A s \in Sessions :
    /\ ~Open(s) => at[s] = 1 /\ held[s] = {} /\ made[s] = {} /\ ~looked[s]
    /\ Open(s) => answer[s] = "none"

(* What its statements have promised is visible, *)
Kept ==
  \A s \in Sessions : Open(s) =>
    \A i \in 1 .. at[s] - 1 : Promised(Steps(s)[i]) \subseteq Visible(s)

(* ... and what the transactions before it have left is committed. *)
Committed ==
  \A s \in Sessions : Open(s) =>
    \A k \in 1 .. stage[s] - 1 : \A x : Leaves(Plan(op[s])[k], x) => x \in schema

(* What a transaction has made, one of its statements makes. *)
MadeByStatements ==
  \A s \in Sessions : \A x \in made[s] :
    /\ Open(s)
    /\ \E i \in 1 .. at[s] - 1 :
         x \in Steps(s)[i].makes \cup Steps(s)[i].replaces

(* An exclusive lock is held until the end, by one session only. *)
Exclusive ==
  /\ \A s \in Sessions : Open(s) =>
       \A i \in 1 .. at[s] - 1 : \A t :
         Locks(Steps(s)[i], t) => <<t, "AE">> \in held[s]
  /\ \A s, u \in Sessions : \A t :
       <<t, "AE">> \in held[s] /\ <<t, "AE">> \in held[u] => s = u

(* The table that was not found was not in the database at first, and one made
   under a lock is still not there. *)
LookedFor ==
  \A s \in Sessions : looked[s] =>
    /\ HasNext(s) /\ Current(s).kind = "create"
    /\ Current(s).on \notin base
    /\ Current(s).on \in Serial => Current(s).on \notin schema

SchemaInv ==
  /\ TypeOK
  /\ Resting
  /\ Kept
  /\ Committed
  /\ MadeByStatements
  /\ Exclusive
  /\ LookedFor
  /\ FailuresExplained

LEMMA RunningIsSound ==
  ASSUME TypeOK, NEW s \in Sessions, Open(s)
  PROVE  /\ op[s] \in Operations
         /\ stage[s] \in 1 .. Len(Plan(op[s])) /\ Len(Plan(op[s])) \in Nat
         /\ Running(s) \in DOMAIN Script
         /\ Len(Steps(s)) \in Nat
         /\ \A i \in 1 .. Len(Steps(s)) : Sound(Steps(s), i, Running(s))
<1>1. op[s] \in Operations
  BY DEF TypeOK
<1>2. stage[s] \in 1 .. Len(Plan(op[s])) /\ Len(Plan(op[s])) \in Nat
  BY <1>1, PlanRuns DEF TypeOK, Open
<1>3. Running(s) \in DOMAIN Script
  BY <1>1, <1>2, PlanRuns DEF Running
<1> QED BY <1>1, <1>2, <1>3, AllSound DEF SoundScript, Steps

(* Who is at a statement that makes something serial, or has made it, holds the
   lock that guards it. *)
LEMMA SerialIsGuarded ==
  ASSUME SchemaInv, NEW s \in Sessions, Open(s), NEW x \in Serial,
         NEW i \in 1 .. Len(Steps(s)), i <= at[s],
         x \in Steps(s)[i].makes \cup Steps(s)[i].replaces
  PROVE  <<Guardian(x), "AE">> \in held[s]
<1>1. PICK j \in 1 .. i - 1 : Locks(Steps(s)[j], Guardian(x))
  BY RunningIsSound DEF Sound, SchemaInv
<1>2. j \in 1 .. at[s] - 1
  BY DEF SchemaInv, TypeOK
<1> QED BY <1>1, <1>2 DEF SchemaInv, Exclusive

LEMMA SerialIsMadeByOne ==
  ASSUME SchemaInv, NEW s \in Sessions, NEW u \in Sessions, NEW x \in Serial,
         HasNext(s), x \in Current(s).makes \cup Current(s).replaces,
         x \in made[u]
  PROVE  s = u
<1>1. <<Guardian(x), "AE">> \in held[s]
  BY SerialIsGuarded DEF HasNext, Current, SchemaInv, TypeOK
<1>2. Open(u)
  BY DEF SchemaInv, MadeByStatements
<1>3. PICK i \in 1 .. at[u] - 1 : x \in Steps(u)[i].makes \cup Steps(u)[i].replaces
  BY DEF SchemaInv, MadeByStatements
<1>4. i \in 1 .. Len(Steps(u)) /\ i <= at[u]
  BY <1>2, RunningIsSound DEF SchemaInv, TypeOK
<1>5. <<Guardian(x), "AE">> \in held[u]
  BY <1>2, <1>3, <1>4, SerialIsGuarded
<1> QED BY <1>1, <1>5 DEF SchemaInv, Exclusive

-----------------------------------------------------------------------------
(* Types *)

LEMMA SchemaInit == Init => SchemaInv
<1> SUFFICES ASSUME Init PROVE SchemaInv
  OBVIOUS
<1> USE DEF Init
<1>1. \A s \in Sessions : ~Open(s)
  BY DEF Open
<1>2. TypeOK
  BY <1>1, SchemaAssumption DEF TypeOK
<1>3. Resting /\ Kept /\ Committed /\ MadeByStatements /\ Exclusive /\ LookedFor
  BY <1>1 DEF Resting, Kept, Committed, MadeByStatements, Exclusive, LookedFor
<1>4. FailuresExplained
  BY DEF FailuresExplained
<1> QED BY <1>2, <1>3, <1>4 DEF SchemaInv

LEMMA Frame ==
  ASSUME NEW u \in Sessions, op'[u] = op[u], stage'[u] = stage[u]
  PROVE  Open(u)' = Open(u) /\ Running(u)' = Running(u) /\ Steps(u)' = Steps(u)
BY DEF Open, Running, Steps

(* A transaction of the session that begins, at its first statement. *)
LEMMA FirstStatement ==
  ASSUME NEW o \in Operations, NEW k \in 1 .. Len(Plan(o))
  PROVE  1 <= Len(Script[Plan(o)[k]]) + 1
BY PlanRuns, AllSound DEF SoundScript

LEMMA BeginType == ASSUME SchemaInv, NEW s \in Sessions, Begin(s) PROVE TypeOK'
<1> USE DEF SchemaInv, TypeOK
<1>1. PICK o \in Work[s] : op' = [op EXCEPT ![s] = o]
  BY DEF Begin
<1>2. o \in Operations
  BY SchemaAssumption
<1>3. /\ stage' = [stage EXCEPT ![s] = 1] /\ answer' = [answer EXCEPT ![s] = "none"]
      /\ UNCHANGED <<base, schema, at, looked, held, made>>
      /\ at[s] = 1
  BY DEF Begin, transaction, Resting
<1>4. ASSUME NEW u \in Sessions, Open(u)'
      PROVE  /\ op'[u] # "none" /\ stage'[u] <= Len(Plan(op'[u]))
             /\ at'[u] <= Len(Steps(u)') + 1
  <2>1. CASE u = s
    <3>1. op'[u] = o /\ stage'[u] = 1 /\ at'[u] = 1
      BY <1>1, <1>3, <2>1
    <3>2. 1 \in 1 .. Len(Plan(o)) /\ o # "none"
      BY <1>2, PlanRuns DEF Operations
    <3>3. Steps(u)' = Script[Plan(o)[1]]
      BY <3>1 DEF Steps, Running
    <3> QED BY <1>2, <3>1, <3>2, <3>3, FirstStatement
  <2>2. CASE u # s
    BY <1>1, <1>3, <1>4, <2>2, Frame
  <2> QED BY <2>1, <2>2
<1> QED BY <1>1, <1>2, <1>3, <1>4

LEMMA StatementType ==
  ASSUME SchemaInv, NEW s \in Sessions,
         Execute(s) \/ LookForTable(s) \/ CreateTable(s)
  PROVE  TypeOK'
<1> USE DEF SchemaInv, TypeOK
<1>1. UNCHANGED <<base, schema, op, stage, answer>> /\ HasNext(s)
  BY DEF Execute, LookForTable, CreateTable, client
<1>2. \A u \in Sessions : Open(u)' = Open(u) /\ Steps(u)' = Steps(u)
  BY <1>1, Frame
<1>3. at[s] \in 1 .. Len(Steps(s)) /\ Len(Steps(s)) \in Nat
  <2>1. Len(Steps(s)) \in Nat
    BY <1>1, RunningIsSound DEF HasNext
  <2> QED BY <1>1, <2>1 DEF HasNext
<1>4. at' = at \/ at' = [at EXCEPT ![s] = @ + 1]
  BY DEF Execute, LookForTable, CreateTable, Advance
<1>5. looked' \in [Sessions -> BOOLEAN]
  BY DEF Execute, LookForTable, CreateTable, Advance
<1>6. made' \in [Sessions -> SUBSET Complete]
  <2>1. Current(s).makes \subseteq Complete /\ Current(s).replaces \subseteq Complete
    BY <1>1, <1>3, RunningIsSound DEF Sound, Current, HasNext
  <2>2. \/ made' = made
        \/ made' = [made EXCEPT ![s] = @ \cup Current(s).makes]
        \/ made' = [made EXCEPT ![s] =
             @ \cup (Current(s).makes \ schema) \cup Current(s).replaces]
    BY ZenonT(30) DEF Execute, LookForTable, CreateTable
  <2>3. made \in [Sessions -> SUBSET Complete]
    OBVIOUS
  <2> HIDE DEF SchemaInv, TypeOK
  <2> QED BY <2>1, <2>2, <2>3
<1>10. held' \in [Sessions -> SUBSET AllLocks]
  <2>1. CASE Execute(s)
    <3>1. Running(s) \in DOMAIN Script /\ at[s] \in 1 .. Len(Script[Running(s)])
      BY <1>1, <1>3, RunningIsSound DEF HasNext, Steps
    <3>2. <<Current(s).on, Current(s).mode>> \in AllLocks
      BY <3>1 DEF AllLocks, Current, Steps
    <3> QED BY <2>1, <3>2 DEF Execute
  <2>2. CASE LookForTable(s) \/ CreateTable(s)
    BY <2>2 DEF LookForTable, CreateTable
  <2> QED BY <2>1, <2>2
<1>7. ASSUME NEW u \in Sessions, Open(u) PROVE at'[u] <= Len(Steps(u)) + 1
  <2>1. CASE u = s
    BY <1>3, <1>4, <2>1
  <2>2. CASE u # s
    BY <1>4, <1>7, <2>2
  <2> QED BY <2>1, <2>2
<1>8. at' \in [Sessions -> Nat \ {0}]
  <2>1. at \in [Sessions -> Nat \ {0}] /\ at[s] + 1 \in Nat \ {0}
    OBVIOUS
  <2>2. CASE at' = at
    BY <2>1, <2>2
  <2>3. CASE at' = [at EXCEPT ![s] = at[s] + 1]
    BY <2>1, <2>3
  <2> QED BY <1>4, <2>2, <2>3
<1>9. ASSUME NEW u \in Sessions, Open(u)'
      PROVE  /\ op'[u] # "none" /\ stage'[u] <= Len(Plan(op'[u]))
             /\ at'[u] <= Len(Steps(u)') + 1
  BY <1>1, <1>2, <1>7, <1>9
<1> QED BY <1>1, <1>5, <1>6, <1>8, <1>9, <1>10

LEMMA CommitType == ASSUME SchemaInv, NEW s \in Sessions, Commit(s) PROVE TypeOK'
<1> USE DEF SchemaInv, TypeOK
<1>1. /\ UNCHANGED <<base, answer>> /\ schema' = schema \cup made[s]
      /\ at' = [at EXCEPT ![s] = 1] /\ looked' = [looked EXCEPT ![s] = FALSE]
      /\ made' = [made EXCEPT ![s] = {}] /\ held' = [held EXCEPT ![s] = {}]
  BY DEF Commit, Reset
<1>2. /\ op' = op \/ op' = [op EXCEPT ![s] = "none"]
      /\ stage' = [stage EXCEPT ![s] = 0] \/ stage' = [stage EXCEPT ![s] = @ + 1]
  BY DEF Commit
<1>3. ASSUME NEW u \in Sessions, Open(u)'
      PROVE  /\ op'[u] # "none" /\ stage'[u] <= Len(Plan(op'[u]))
             /\ at'[u] <= Len(Steps(u)') + 1
  <2>1. CASE u = s
    <3>1. /\ op' = op /\ stage'[s] = stage[s] + 1 /\ stage[s] < Len(Plan(op[s]))
          /\ op[s] \in Operations /\ stage[s] \in Nat /\ Len(Plan(op[s])) \in Nat
      BY <1>3, <2>1, RunningIsSound DEF Commit, Open
    <3>2. stage'[s] \in 1 .. Len(Plan(op[s]))
      BY <3>1
    <3>3. Steps(s)' = Script[Plan(op[s])[stage'[s]]]
      BY <3>1 DEF Steps, Running
    <3> QED BY <1>1, <2>1, <3>1, <3>2, <3>3, FirstStatement DEF Operations
  <2>2. CASE u # s
    BY <1>1, <1>2, <1>3, <2>2, Frame
  <2> QED BY <2>1, <2>2
<1>4. /\ schema' \in SUBSET Complete /\ base' \in Bases /\ base' \subseteq schema'
      /\ made' \in [Sessions -> SUBSET Complete] /\ at' \in [Sessions -> Nat \ {0}]
      /\ looked' \in [Sessions -> BOOLEAN]
      /\ held' \in [Sessions -> SUBSET AllLocks]
  BY <1>1
<1>5. op' \in [Sessions -> Operations \cup {"none"}]
  BY <1>2
<1>6. stage' \in [Sessions -> Nat]
  <2>1. stage \in [Sessions -> Nat] /\ stage[s] + 1 \in Nat
    OBVIOUS
  <2>2. CASE stage' = [stage EXCEPT ![s] = 0]
    BY <2>1, <2>2
  <2>3. CASE stage' = [stage EXCEPT ![s] = stage[s] + 1]
    BY <2>1, <2>3
  <2> QED BY <1>2, <2>2, <2>3
<1> QED BY <1>1, <1>3, <1>4, <1>5, <1>6

LEMMA RollbackType ==
  ASSUME SchemaInv, NEW s \in Sessions,
         NEW why \in {"undefined", "duplicate", "concurrent", "cancelled"},
         Rollback(s, why)
  PROVE  TypeOK'
<1> USE DEF SchemaInv, TypeOK, Rollback, Reset
<1>1. \A u \in Sessions \ {s} : Open(u)' = Open(u) /\ Steps(u)' = Steps(u)
  BY Frame
<1>2. ~Open(s)'
  BY DEF Open
<1> QED BY <1>1, <1>2

-----------------------------------------------------------------------------
(* The steps *)

LEMMA BeginStep == ASSUME SchemaInv, NEW s \in Sessions, Begin(s) PROVE SchemaInv'
<1>1. TypeOK'
  BY BeginType
<1>2. /\ ~Open(s) /\ stage'[s] = 1 /\ answer'[s] = "none"
      /\ UNCHANGED <<base, schema, at, looked, held, made>>
      /\ at[s] = 1 /\ held[s] = {} /\ made[s] = {} /\ ~looked[s]
  BY DEF Begin, transaction, Resting, SchemaInv, TypeOK
<1>3. \A u \in Sessions \ {s} :
        /\ op'[u] = op[u] /\ stage'[u] = stage[u] /\ answer'[u] = answer[u]
        /\ Open(u)' = Open(u) /\ Running(u)' = Running(u) /\ Steps(u)' = Steps(u)
  <2>1. \A u \in Sessions \ {s} :
          op'[u] = op[u] /\ stage'[u] = stage[u] /\ answer'[u] = answer[u]
    BY DEF Begin, SchemaInv, TypeOK
  <2> QED BY <2>1, Frame
<1>4. Resting'
  BY <1>2, <1>3 DEF Resting, SchemaInv, Open
<1>5. Kept'
  BY <1>2, <1>3 DEF Kept, SchemaInv, Visible
<1>6. Committed'
  BY <1>2, <1>3 DEF Committed, SchemaInv
<1>7. MadeByStatements'
  BY <1>2, <1>3 DEF MadeByStatements, SchemaInv
<1>8. Exclusive'
  BY <1>2, <1>3 DEF Exclusive, SchemaInv
<1>9. LookedFor'
  BY <1>2, <1>3 DEF LookedFor, SchemaInv, HasNext, Current
<1>10. FailuresExplained'
  BY <1>2, <1>3 DEF FailuresExplained, SchemaInv
<1> QED BY <1>1, <1>4, <1>5, <1>6, <1>7, <1>8, <1>9, <1>10 DEF SchemaInv

LEMMA StatementStep ==
  ASSUME SchemaInv, NEW s \in Sessions,
         Execute(s) \/ LookForTable(s) \/ CreateTable(s)
  PROVE  SchemaInv'
<1>1. TypeOK'
  BY StatementType
<1>2. UNCHANGED <<base, schema, op, stage, answer>> /\ HasNext(s)
  BY DEF Execute, LookForTable, CreateTable, client
<1>3. \A u \in Sessions :
        Open(u)' = Open(u) /\ Running(u)' = Running(u) /\ Steps(u)' = Steps(u)
  BY <1>2, Frame
<1>4. \A u \in Sessions \ {s} :
        /\ at'[u] = at[u] /\ looked'[u] = looked[u]
        /\ held'[u] = held[u] /\ made'[u] = made[u]
  <2>1. CASE Execute(s)
    BY <2>1 DEF Execute, Advance, SchemaInv, TypeOK
  <2>2. CASE LookForTable(s)
    BY <2>2 DEF LookForTable, Advance, SchemaInv, TypeOK
  <2>3. CASE CreateTable(s)
    BY <2>3 DEF CreateTable, Advance, SchemaInv, TypeOK
  <2> QED BY <2>1, <2>2, <2>3
<1>5. /\ Open(s) /\ at[s] \in 1 .. Len(Steps(s)) /\ Len(Steps(s)) \in Nat
      /\ Sound(Steps(s), at[s], Running(s))
      /\ at'[s] = at[s] \/ at'[s] = at[s] + 1
  <2>1. Open(s) /\ Len(Steps(s)) \in Nat
    BY <1>2, RunningIsSound DEF HasNext, SchemaInv
  <2>2. at[s] \in 1 .. Len(Steps(s))
    BY <1>2, <2>1 DEF HasNext, SchemaInv, TypeOK
  <2>3. at'[s] = at[s] \/ at'[s] = at[s] + 1
    BY DEF Execute, LookForTable, CreateTable, Advance, SchemaInv, TypeOK
  <2> QED BY <2>1, <2>2, <2>3, RunningIsSound DEF SchemaInv
<1>6. made[s] \subseteq made'[s] /\ held[s] \subseteq held'[s]
  <2>1. CASE Execute(s)
    BY <2>1 DEF Execute, SchemaInv, TypeOK
  <2>2. CASE LookForTable(s)
    BY <2>2 DEF LookForTable, SchemaInv, TypeOK
  <2>3. CASE CreateTable(s)
    BY <2>3 DEF CreateTable, SchemaInv, TypeOK
  <2> QED BY <2>1, <2>2, <2>3
<1>7. Resting'
  BY <1>2, <1>3, <1>4, <1>5 DEF Resting, SchemaInv
<1>8. Kept'
  <2>1. ASSUME at'[s] = at[s] + 1
        PROVE  Promised(Steps(s)[at[s]]) \subseteq schema \cup made'[s]
    <3>1. CASE Execute(s)
      BY <3>1 DEF Execute, Promised, Current, SchemaInv, TypeOK
    <3>2. CASE LookForTable(s)
      BY <2>1, <3>2 DEF LookForTable, Promised, Current, Visible, SchemaInv, TypeOK
    <3>3. CASE CreateTable(s)
      BY <1>5, <3>3 DEF CreateTable, Promised, Current, Sound, SchemaInv, TypeOK
    <3> QED BY <3>1, <3>2, <3>3
  <2>2. ASSUME NEW i \in 1 .. at'[s] - 1
        PROVE  Promised(Steps(s)[i]) \subseteq schema \cup made'[s]
    <3>1. CASE i \in 1 .. at[s] - 1
      BY <1>5, <1>6, <3>1 DEF Kept, SchemaInv, Visible
    <3>2. CASE i = at[s] /\ at'[s] = at[s] + 1
      BY <2>1, <3>2
    <3> QED BY <1>5, <2>2, <3>1, <3>2
  <2> QED BY <1>2, <1>3, <1>4, <2>2 DEF Kept, SchemaInv, Visible
<1>9. Committed'
  BY <1>2, <1>3 DEF Committed, SchemaInv
<1>10. MadeByStatements'
  <2>1. ASSUME NEW x \in made'[s], x \notin made[s]
        PROVE  /\ at'[s] = at[s] + 1
               /\ x \in Steps(s)[at[s]].makes \cup Steps(s)[at[s]].replaces
    BY <2>1 DEF Execute, LookForTable, CreateTable, Advance, Current, SchemaInv, TypeOK
  <2>2. ASSUME NEW x \in made'[s]
        PROVE  \E i \in 1 .. at'[s] - 1 :
                 x \in Steps(s)[i].makes \cup Steps(s)[i].replaces
    <3>1. CASE x \in made[s]
      BY <1>5, <3>1 DEF MadeByStatements, SchemaInv
    <3>2. CASE x \notin made[s]
      <4>1. at[s] \in 1 .. at'[s] - 1
        BY <1>5, <2>1, <2>2, <3>2
      <4> QED BY <2>1, <2>2, <3>2, <4>1
    <3> QED BY <3>1, <3>2
  <2> QED BY <1>3, <1>4, <1>5, <2>2 DEF MadeByStatements, SchemaInv
<1>11. Exclusive'
  <2>1. ASSUME NEW t, Locks(Steps(s)[at[s]], t), at'[s] = at[s] + 1
        PROVE  <<t, "AE">> \in held'[s]
    <3>1. Execute(s)
      BY <2>1 DEF LookForTable, CreateTable, Current, Locks
    <3>2. "none" \notin schema
      BY DEF SchemaInv, TypeOK, Complete
    <3>3. NeedsLock(s) /\ Current(s).kind # "skip"
      BY <2>1, <3>2 DEF NeedsLock, Current, Locks
    <3>4. held'[s] = held[s] \cup {<<Current(s).on, Current(s).mode>>}
      BY <3>1, <3>3 DEF Execute, SchemaInv, TypeOK
    <3> QED BY <2>1, <3>4 DEF Current, Locks
  <2>2. ASSUME NEW t, NEW u \in Sessions \ {s}, <<t, "AE">> \in held'[s],
               <<t, "AE">> \notin held[s]
        PROVE  <<t, "AE">> \notin held[u]
    <3>1. /\ Execute(s) /\ Holders(s) = {} /\ NeedsLock(s)
          /\ Current(s).on = t /\ Current(s).mode = "AE"
      <4>1. Execute(s)
        BY <2>2 DEF LookForTable, CreateTable
      <4>2. held'[s] = IF NeedsLock(s) /\ Holders(s) = {}
                       THEN held[s] \cup {<<Current(s).on, Current(s).mode>>}
                       ELSE held[s]
        BY <4>1 DEF Execute, SchemaInv, TypeOK
      <4> QED BY <2>2, <4>1, <4>2
    <3>2. "AE" \in Excludes["AE"]
      BY DEF Excludes
    <3> QED BY <3>1, <3>2 DEF Holders, Others
  <2>3. ASSUME NEW i \in 1 .. at'[s] - 1, NEW t, Locks(Steps(s)[i], t)
        PROVE  <<t, "AE">> \in held'[s]
    <3>1. CASE i \in 1 .. at[s] - 1
      BY <1>5, <1>6, <2>3, <3>1 DEF Exclusive, SchemaInv
    <3>2. CASE i = at[s] /\ at'[s] = at[s] + 1
      BY <2>1, <2>3, <3>2
    <3> QED BY <1>5, <2>3, <3>1, <3>2
  <2>4. ASSUME NEW v \in Sessions, NEW u \in Sessions, NEW t,
               <<t, "AE">> \in held'[v], <<t, "AE">> \in held'[u]
        PROVE  v = u
    BY <1>4, <2>2, <2>4 DEF Exclusive, SchemaInv
  <2> QED BY <1>3, <1>4, <2>3, <2>4 DEF Exclusive, SchemaInv
<1>12. LookedFor'
  <2>1. CASE looked'[s]
    <3>1. LookForTable(s) /\ at' = at /\ Current(s).on \notin schema
      BY <2>1 DEF Execute, LookForTable, CreateTable, Advance, Visible, SchemaInv, TypeOK
    <3>2. HasNext(s)' /\ Current(s)' = Current(s)
      BY <1>2, <1>3, <3>1 DEF HasNext, Current
    <3>3. Current(s).on \notin base /\ Current(s).kind = "create"
      BY <3>1 DEF LookForTable, SchemaInv, TypeOK
    <3>4. \A u \in Sessions \ {s} : looked[u] =>
            HasNext(u)' = HasNext(u) /\ Current(u)' = Current(u)
      BY <1>3, <1>4 DEF HasNext, Current
    <3> QED BY <1>2, <1>4, <3>1, <3>2, <3>3, <3>4 DEF LookedFor, SchemaInv
  <2>2. CASE ~looked'[s]
    <3>1. \A u \in Sessions \ {s} : looked[u] =>
            HasNext(u)' = HasNext(u) /\ Current(u)' = Current(u)
      BY <1>3, <1>4 DEF HasNext, Current
    <3> QED BY <1>2, <1>4, <2>2, <3>1 DEF LookedFor, SchemaInv
  <2> QED BY <2>1, <2>2
<1>13. FailuresExplained'
  BY <1>2 DEF FailuresExplained, SchemaInv
<1> QED BY <1>1, <1>7, <1>8, <1>9, <1>10, <1>11, <1>12, <1>13 DEF SchemaInv

(* A table that another session commits is not one that this session is about to
   make under its lock. *)
LEMMA CommitStep == ASSUME SchemaInv, NEW s \in Sessions, Commit(s) PROVE SchemaInv'
<1>1. TypeOK'
  BY CommitType
<1>2. /\ UNCHANGED <<base, answer>> /\ schema' = schema \cup made[s]
      /\ at'[s] = 1 /\ ~looked'[s] /\ held'[s] = {} /\ made'[s] = {}
      /\ Open(s) /\ ~HasNext(s)
  BY DEF Commit, Reset, SchemaInv, TypeOK
<1>3. \A u \in Sessions \ {s} :
        /\ op'[u] = op[u] /\ stage'[u] = stage[u]
        /\ at'[u] = at[u] /\ looked'[u] = looked[u]
        /\ held'[u] = held[u] /\ made'[u] = made[u]
        /\ Open(u)' = Open(u) /\ Running(u)' = Running(u) /\ Steps(u)' = Steps(u)
  <2>1. \A u \in Sessions \ {s} : op'[u] = op[u] /\ stage'[u] = stage[u]
    BY DEF Commit, SchemaInv, TypeOK
  <2>2. \A u \in Sessions \ {s} :
          /\ at'[u] = at[u] /\ looked'[u] = looked[u]
          /\ held'[u] = held[u] /\ made'[u] = made[u]
    BY DEF Commit, Reset, SchemaInv, TypeOK
  <2> QED BY <2>1, <2>2, Frame
<1>4. Open(s)' => op'[s] = op[s] /\ stage'[s] = stage[s] + 1
  BY DEF Commit, Open, SchemaInv, TypeOK
<1>5. Resting'
  BY <1>2, <1>3 DEF Resting, SchemaInv
<1>6. Kept'
  BY <1>2, <1>3 DEF Kept, SchemaInv, Visible
<1>7. Committed'
  <2>1. ASSUME Open(s)', NEW k \in 1 .. stage'[s] - 1, NEW x,
               Leaves(Plan(op[s])[k], x)
        PROVE  x \in schema'
    <3>1. CASE k \in 1 .. stage[s] - 1
      BY <1>2, <2>1, <3>1 DEF Committed, SchemaInv
    <3>2. CASE k = stage[s]
      <4>1. PICK i \in 1 .. Len(Steps(s)) : x \in Promised(Steps(s)[i])
        BY <2>1, <3>2 DEF Leaves, Yields, Steps, Running
      <4>2. i \in 1 .. at[s] - 1
        BY <1>2, <4>1, RunningIsSound DEF HasNext, SchemaInv, TypeOK
      <4> QED BY <1>2, <4>1, <4>2 DEF Kept, SchemaInv, Visible
    <3> QED BY <1>4, <2>1, <3>1, <3>2 DEF SchemaInv, TypeOK
  <2>2. ASSUME NEW u \in Sessions \ {s}, Open(u), NEW k \in 1 .. stage[u] - 1,
               NEW x, Leaves(Plan(op[u])[k], x)
        PROVE  x \in schema'
    BY <1>2, <2>2 DEF Committed, SchemaInv
  <2>3. ASSUME NEW u \in Sessions, Open(u)', NEW k \in 1 .. stage'[u] - 1,
               NEW x, Leaves(Plan(op'[u])[k], x)
        PROVE  x \in schema'
    BY <1>3, <1>4, <2>1, <2>2, <2>3
  <2> QED BY <2>3 DEF Committed
<1>8. MadeByStatements'
  BY <1>2, <1>3 DEF MadeByStatements, SchemaInv
<1>9. Exclusive'
  BY <1>2, <1>3 DEF Exclusive, SchemaInv
<1>10. LookedFor'
  <2>1. ASSUME NEW u \in Sessions \ {s}, looked[u]
        PROVE  /\ HasNext(u) /\ HasNext(u)' /\ Current(u)' = Current(u)
               /\ Current(u).on \in Serial => Current(u).on \notin schema'
    <3>1. HasNext(u) /\ Current(u).kind = "create"
      BY <2>1 DEF LookedFor, SchemaInv
    <3>2. Open(u) /\ at[u] \in 1 .. Len(Steps(u)) /\ Len(Steps(u)) \in Nat
      BY <3>1, RunningIsSound DEF HasNext, SchemaInv, TypeOK
    <3>3. HasNext(u)' /\ Current(u)' = Current(u)
      BY <1>3, <3>1 DEF HasNext, Current
    <3>4. Current(u).on \in Current(u).makes
      BY <3>1, <3>2, RunningIsSound DEF Sound, Current, SchemaInv
    <3>5. Current(u).on \in Serial => Current(u).on \notin made[s]
      BY <3>1, <3>4, SerialIsMadeByOne
    <3>6. Current(u).on \in Serial => Current(u).on \notin schema
      BY <2>1 DEF LookedFor, SchemaInv
    <3> QED BY <1>2, <3>1, <3>3, <3>5, <3>6
  <2> QED BY <1>2, <1>3, <2>1 DEF LookedFor, SchemaInv
<1>11. FailuresExplained'
  <2>1. answer[s] = "none"
    BY <1>2 DEF Resting, SchemaInv
  <2> QED BY <1>2, <1>3, <2>1 DEF FailuresExplained, SchemaInv
<1> QED BY <1>1, <1>5, <1>6, <1>7, <1>8, <1>9, <1>10, <1>11 DEF SchemaInv

(* A transaction that rolls back leaves nothing; what it answers must be
   explained. *)
LEMMA RollbackStep ==
  ASSUME SchemaInv, NEW s \in Sessions,
         NEW why \in {"undefined", "duplicate", "concurrent", "cancelled"},
         Rollback(s, why),
         why = "undefined" => /\ op[s] \in {"request", "claim"}
                              /\ "targets.is_pilotable" \notin base,
         why = "duplicate" => ~(FirstTables \subseteq base),
         why # "concurrent"
  PROVE  SchemaInv'
<1>1. TypeOK'
  BY RollbackType
<1>2. /\ UNCHANGED <<base, schema, op>> /\ answer'[s] = why
      /\ at'[s] = 1 /\ ~looked'[s] /\ held'[s] = {} /\ made'[s] = {} /\ ~Open(s)'
  BY DEF Rollback, Reset, SchemaInv, TypeOK, Open
<1>3. \A u \in Sessions \ {s} :
        /\ at'[u] = at[u] /\ looked'[u] = looked[u] /\ answer'[u] = answer[u]
        /\ held'[u] = held[u] /\ made'[u] = made[u] /\ stage'[u] = stage[u]
        /\ Open(u)' = Open(u) /\ Running(u)' = Running(u) /\ Steps(u)' = Steps(u)
  <2>1. \A u \in Sessions \ {s} :
          /\ at'[u] = at[u] /\ looked'[u] = looked[u] /\ answer'[u] = answer[u]
          /\ held'[u] = held[u] /\ made'[u] = made[u] /\ stage'[u] = stage[u]
    BY DEF Rollback, Reset, SchemaInv, TypeOK
  <2> QED BY <1>2, <2>1, Frame
<1>4. Resting'
  BY <1>2, <1>3 DEF Resting, SchemaInv
<1>5. Kept'
  BY <1>2, <1>3 DEF Kept, SchemaInv, Visible
<1>6. Committed'
  BY <1>2, <1>3 DEF Committed, SchemaInv
<1>7. MadeByStatements'
  BY <1>2, <1>3 DEF MadeByStatements, SchemaInv
<1>8. Exclusive'
  BY <1>2, <1>3 DEF Exclusive, SchemaInv
<1>9. LookedFor'
  BY <1>2, <1>3 DEF LookedFor, SchemaInv, HasNext, Current
<1>10. FailuresExplained'
  BY <1>2, <1>3 DEF FailuresExplained, FirstTables, SchemaInv
<1> QED BY <1>1, <1>4, <1>5, <1>6, <1>7, <1>8, <1>9, <1>10 DEF SchemaInv

(* What is not found: only the column that no chain of the jobs adds. *)
LEMMA UndefinedStep ==
  ASSUME SchemaInv, NEW s \in Sessions, HasNext(s), Error(s, "undefined"),
         Rollback(s, "undefined")
  PROVE  SchemaInv'
<1>1. HasNext(s) /\ Rollback(s, "undefined")
  OBVIOUS
<1>2. PICK x \in Current(s).needs : x \notin Visible(s)
  BY DEF Error
<1>3. Open(s) /\ at[s] \in 1 .. Len(Steps(s)) /\ Sound(Steps(s), at[s], Running(s))
  BY <1>1, RunningIsSound DEF HasNext, SchemaInv, TypeOK
<1>4. ~\E j \in 1 .. at[s] - 1 : x \in Promised(Steps(s)[j])
  BY <1>2, <1>3 DEF Kept, SchemaInv
<1>5. x \in Relies(Running(s))
  BY <1>2, <1>3, <1>4 DEF Sound, Current
<1>6. ~\E k \in 1 .. stage[s] - 1 : Leaves(Plan(op[s])[k], x)
  BY <1>2, <1>3 DEF Committed, SchemaInv, Visible
<1>7. op[s] \in {"request", "claim"} /\ x = "targets.is_pilotable"
  BY <1>3, <1>5, <1>6, RunningIsSound, ReliedOn DEF Running, SchemaInv
<1>8. "targets.is_pilotable" \notin base
  BY <1>2, <1>7 DEF Visible, SchemaInv, TypeOK
<1> QED BY <1>1, <1>7, <1>8, RollbackStep

(* What is already there: only a table that the first lots make without a lock. *)
LEMMA DuplicateStep ==
  ASSUME SchemaInv, NEW s \in Sessions, HasNext(s), Error(s, "duplicate"),
         Rollback(s, "duplicate")
  PROVE  SchemaInv'
<1>1. /\ HasNext(s) /\ looked[s] /\ Current(s).on \in schema
      /\ Current(s).kind = "create" /\ Rollback(s, "duplicate")
  BY DEF Error
<1>2. Current(s).on \notin base /\ Current(s).on \notin Serial
  BY <1>1 DEF LookedFor, SchemaInv
<1>3. Current(s).on \in FirstTables \cup Serial
  BY <1>1, RunningIsSound DEF Sound, Current, HasNext, SchemaInv, TypeOK
<1> QED BY <1>1, <1>2, <1>3, RollbackStep

(* Nobody replaces a function while another has. *)
LEMMA ConcurrentStep ==
  ASSUME SchemaInv, NEW s \in Sessions, HasNext(s), Error(s, "concurrent")
  PROVE  FALSE
<1>1. HasNext(s)
  OBVIOUS
<1>2. PICK u \in Others(s) : \E f \in made[u] : f \in Current(s).replaces
  BY DEF Error
<1>3. PICK f \in made[u] : f \in Current(s).replaces
  BY <1>2
<1>4. Current(s).replaces \subseteq Serial
  BY <1>1, RunningIsSound DEF Sound, Current, HasNext, SchemaInv, TypeOK
<1>5. s = u
  BY <1>1, <1>2, <1>3, <1>4, SerialIsMadeByOne DEF Others
<1> QED BY <1>2, <1>5 DEF Others

LEMMA SchemaStep == SchemaInv /\ [Next]_vars => SchemaInv'
<1> SUFFICES ASSUME SchemaInv, [Next]_vars PROVE SchemaInv'
  OBVIOUS
<1>1. CASE UNCHANGED vars
  <2>1. UNCHANGED <<base, schema, op, stage, answer, at, looked, held, made>>
    BY <1>1 DEF vars, client, transaction
  <2> QED BY <2>1 DEF SchemaInv, TypeOK, Resting, Kept, Committed, MadeByStatements,
                      Exclusive, LookedFor, FailuresExplained, Open, Running, Steps,
                      Current, HasNext, Visible
<1>2. ASSUME NEW s \in Sessions, Begin(s) PROVE SchemaInv'
  BY <1>2, BeginStep
<1>3. ASSUME NEW s \in Sessions, Execute(s) \/ LookForTable(s) \/ CreateTable(s)
      PROVE  SchemaInv'
  BY <1>3, StatementStep
<1>4. ASSUME NEW s \in Sessions, Fail(s) PROVE SchemaInv'
  <2>1. PICK why \in {"undefined", "duplicate", "concurrent"} :
          HasNext(s) /\ Error(s, why) /\ Rollback(s, why)
    BY <1>4 DEF Fail
  <2> QED BY <2>1, UndefinedStep, DuplicateStep, ConcurrentStep
<1>5. ASSUME NEW s \in Sessions, CancelWait(s) PROVE SchemaInv'
  BY <1>5, RollbackStep DEF CancelWait
<1>6. ASSUME NEW s \in Sessions, Commit(s) PROVE SchemaInv'
  BY <1>6, CommitStep
<1> QED BY <1>1, <1>2, <1>3, <1>4, <1>5, <1>6 DEF Next

THEOREM Invariance == Spec => []SchemaInv
BY SchemaInit, SchemaStep, PTL DEF Spec

-----------------------------------------------------------------------------
(* No deadlock but the known ones *)

(* Every lock was taken by a statement that has run, *)
HeldFromStatements ==
  \A s \in Sessions : \A k \in held[s] :
    /\ Open(s)
    /\ \E j \in 1 .. at[s] - 1 : /\ k = <<Steps(s)[j].on, Steps(s)[j].mode>>
                                 /\ Steps(s)[j].mode # "none"

(* ... and no two sessions hold locks that exclude each other. *)
Compatible ==
  \A s, u \in Sessions : s # u =>
    \A o, m, n : <<o, m>> \in held[s] /\ <<o, n>> \in held[u]
                   => n \notin Excludes[m]

LockInv == HeldFromStatements /\ Compatible

LEMMA ExcludesEachOther ==
  ASSUME NEW m \in DOMAIN Excludes, NEW n \in DOMAIN Excludes, n \in Excludes[m]
  PROVE  m \in Excludes[n]
BY DEF Excludes

(* The mode of a lock that is held is one of PostgreSQL's. *)
LEMMA HeldModes ==
  ASSUME SchemaInv, LockInv, NEW s \in Sessions, NEW o, NEW m, <<o, m>> \in held[s]
  PROVE  m \in DOMAIN Excludes
<1>1. <<o, m>> \in AllLocks /\ m # "none"
  BY DEF SchemaInv, TypeOK, LockInv, HeldFromStatements
<1>2. PICK name \in DOMAIN Script : \E j \in 1 .. Len(Script[name]) :
        m = Script[name][j].mode
  BY <1>1 DEF AllLocks
<1>3. PICK j \in 1 .. Len(Script[name]) : m = Script[name][j].mode
  BY <1>2
<1>4. Sound(Script[name], j, name)
  BY <1>2, <1>3, AllSound DEF SoundScript
<1> QED BY <1>1, <1>3, <1>4, ModesExclude DEF Sound

LEMMA LockInit == Init => LockInv
BY DEF Init, LockInv, HeldFromStatements, Compatible

(* A session that begins, or that ends its transaction, holds nothing. *)
LEMMA LockFree ==
  ASSUME SchemaInv, LockInv, NEW s \in Sessions, held'[s] = {},
         \A u \in Sessions \ {s} :
           /\ at'[u] = at[u] /\ held'[u] = held[u]
           /\ op'[u] = op[u] /\ stage'[u] = stage[u]
  PROVE  LockInv'
<1>1. \A u \in Sessions \ {s} : Open(u)' = Open(u) /\ Steps(u)' = Steps(u)
  BY Frame
<1>2. HeldFromStatements'
  BY <1>1 DEF LockInv, HeldFromStatements
<1>3. Compatible'
  BY DEF LockInv, Compatible
<1> QED BY <1>2, <1>3 DEF LockInv

LEMMA LockExecute ==
  ASSUME SchemaInv, LockInv, NEW s \in Sessions, Execute(s)
  PROVE  LockInv'
<1> DEFINE new == <<Current(s).on, Current(s).mode>>
<1>1. /\ UNCHANGED <<schema, op, stage>> /\ HasNext(s) /\ Open(s)
      /\ at'[s] = at[s] + 1 /\ at[s] \in Nat \ {0}
      /\ \A u \in Sessions \ {s} : at'[u] = at[u] /\ held'[u] = held[u]
      /\ held'[s] = IF NeedsLock(s) /\ Holders(s) = {}
                    THEN held[s] \cup {new} ELSE held[s]
  BY DEF Execute, Advance, client, HasNext, SchemaInv, TypeOK
<1>2. \A u \in Sessions : Open(u)' = Open(u) /\ Steps(u)' = Steps(u)
  BY <1>1, Frame
<1>3. ASSUME NEW k \in held'[s]
      PROVE  \E j \in 1 .. at'[s] - 1 : /\ k = <<Steps(s)[j].on, Steps(s)[j].mode>>
                                        /\ Steps(s)[j].mode # "none"
  <2>1. CASE k \in held[s]
    BY <1>1, <2>1 DEF LockInv, HeldFromStatements
  <2>2. CASE k \notin held[s]
    <3>1. k = new /\ NeedsLock(s)
      BY <1>1, <1>3, <2>2
    <3>2. at[s] \in 1 .. at'[s] - 1
      BY <1>1
    <3> QED BY <3>1, <3>2 DEF NeedsLock, Current
  <2> QED BY <2>1, <2>2
<1>4. HeldFromStatements'
  BY <1>1, <1>2, <1>3 DEF LockInv, HeldFromStatements
<1>5. ASSUME NEW u \in Sessions \ {s}, NEW m, NEW n, NEW o,
             <<o, m>> \in held'[s], <<o, n>> \in held[u]
      PROVE  n \notin Excludes[m]
  <2>1. CASE <<o, m>> \in held[s]
    BY <2>1, <1>5 DEF LockInv, Compatible
  <2>2. CASE <<o, m>> \notin held[s]
    <3>1. <<o, m>> = new /\ NeedsLock(s) /\ Holders(s) = {}
      BY <1>1, <1>5, <2>2
    <3> QED BY <1>5, <3>1 DEF Holders, Others
  <2> QED BY <2>1, <2>2
<1>6. ASSUME NEW u \in Sessions \ {s}, NEW m, NEW n, NEW o,
             <<o, m>> \in held'[s], <<o, n>> \in held[u], m \in Excludes[n]
      PROVE  FALSE
  <2>1. m \in DOMAIN Excludes
    <3>1. CASE <<o, m>> \in held[s]
      BY <3>1, HeldModes
    <3>2. CASE <<o, m>> \notin held[s]
      <4>1. m = Current(s).mode /\ m # "none"
        BY <1>1, <1>6, <3>2 DEF NeedsLock
      <4>2. Sound(Steps(s), at[s], Running(s))
        BY <1>1, RunningIsSound DEF HasNext, SchemaInv, TypeOK
      <4> QED BY <4>1, <4>2, ModesExclude DEF Sound, Current
    <3> QED BY <3>1, <3>2
  <2>2. n \in DOMAIN Excludes
    BY <1>6, HeldModes
  <2> QED BY <1>5, <1>6, <2>1, <2>2, ExcludesEachOther
<1>7. Compatible'
  <2> SUFFICES ASSUME NEW v \in Sessions, NEW u \in Sessions, v # u, NEW o, NEW m, NEW n,
                      <<o, m>> \in held'[v], <<o, n>> \in held'[u]
               PROVE  n \notin Excludes[m]
    BY DEF Compatible
  <2>1. CASE v = s
    BY <1>1, <1>5, <2>1
  <2>2. CASE u = s
    BY <1>1, <1>6, <2>2
  <2>3. CASE v # s /\ u # s
    BY <1>1, <2>3 DEF LockInv, Compatible
  <2> QED BY <2>1, <2>2, <2>3
<1> QED BY <1>4, <1>7 DEF LockInv

LEMMA LockStep == SchemaInv /\ LockInv /\ [Next]_vars => LockInv'
<1> SUFFICES ASSUME SchemaInv, LockInv, [Next]_vars PROVE LockInv'
  OBVIOUS
<1>1. CASE UNCHANGED vars
  <2>1. UNCHANGED <<op, stage, at, held>>
    BY <1>1 DEF vars, client, transaction
  <2> QED BY <2>1 DEF LockInv, HeldFromStatements, Compatible, Open, Steps, Running
<1>2. ASSUME NEW s \in Sessions, Begin(s) PROVE LockInv'
  <2>1. held'[s] = {}
    BY <1>2 DEF Begin, transaction, SchemaInv, Resting
  <2>2. \A u \in Sessions \ {s} : /\ at'[u] = at[u] /\ held'[u] = held[u]
                                  /\ op'[u] = op[u] /\ stage'[u] = stage[u]
    BY <1>2 DEF Begin, transaction, SchemaInv, TypeOK
  <2> QED BY <2>1, <2>2, LockFree
<1>3. ASSUME NEW s \in Sessions, Execute(s) PROVE LockInv'
  BY <1>3, LockExecute
<1>4. ASSUME NEW s \in Sessions, LookForTable(s) \/ CreateTable(s) PROVE LockInv'
  <2>1. UNCHANGED <<op, stage, held>>
    BY <1>4 DEF LookForTable, CreateTable, client
  <2>2. \A u \in Sessions : at'[u] = at[u] \/ at'[u] = at[u] + 1
    BY <1>4 DEF LookForTable, CreateTable, Advance, SchemaInv, TypeOK
  <2>3. at \in [Sessions -> Nat \ {0}]
    BY DEF SchemaInv, TypeOK
  <2>4. \A u \in Sessions : Open(u)' = Open(u) /\ Steps(u)' = Steps(u)
    BY <2>1, Frame
  <2>5. \A u \in Sessions : 1 .. at[u] - 1 \subseteq 1 .. at'[u] - 1
    BY <2>2, <2>3
  <2>6. HeldFromStatements'
    BY <2>1, <2>4, <2>5 DEF LockInv, HeldFromStatements
  <2> QED BY <2>1, <2>6 DEF LockInv, Compatible
<1>5. ASSUME NEW s \in Sessions, Commit(s) PROVE LockInv'
  <2>1. held'[s] = {} /\ \A u \in Sessions \ {s} :
          /\ at'[u] = at[u] /\ held'[u] = held[u]
          /\ op'[u] = op[u] /\ stage'[u] = stage[u]
    BY <1>5 DEF Commit, Reset, SchemaInv, TypeOK
  <2> QED BY <2>1, LockFree
<1>6. ASSUME NEW s \in Sessions, NEW why, Rollback(s, why) PROVE LockInv'
  <2>1. held'[s] = {} /\ \A u \in Sessions \ {s} :
          /\ at'[u] = at[u] /\ held'[u] = held[u]
          /\ op'[u] = op[u] /\ stage'[u] = stage[u]
    BY <1>6 DEF Rollback, Reset, SchemaInv, TypeOK
  <2> QED BY <2>1, LockFree
<1>7. ASSUME NEW s \in Sessions, Fail(s) \/ CancelWait(s) PROVE LockInv'
  BY <1>6, <1>7 DEF Fail, CancelWait
<1> QED BY <1>1, <1>2, <1>3, <1>4, <1>5, <1>7 DEF Next

(* Who waits waits at a statement of its script that is in order. *)
LEMMA WaitingInOrder ==
  ASSUME SchemaInv, LockInv, NEW s \in Sessions, ~OutOfOrder(s), WaitsFor(s) # {}
  PROVE  /\ HasNext(s) /\ Open(s) /\ Current(s).kind # "skip"
         /\ MayWait(Current(s))
         /\ Running(s) \in DOMAIN Script \ {"target"}
         /\ at[s] \in 1 .. Ordered(Running(s))
         /\ Holders(s) # {} => /\ NeedsLock(s) /\ Current(s).kind = "execute"
                               /\ Current(s).mode \in DOMAIN Excludes
         /\ Creators(s) # {} => /\ Current(s).kind = "create"
                                /\ Current(s).on \in FirstTables
<1>1. HasNext(s) /\ Open(s) /\ Current(s).kind # "skip"
  BY DEF WaitsFor, HasNext
<1>2. /\ op[s] \in Operations /\ Running(s) \in DOMAIN Script
      /\ at[s] \in 1 .. Len(Steps(s)) /\ Len(Steps(s)) \in Nat
      /\ Sound(Steps(s), at[s], Running(s))
  <2>1. /\ op[s] \in Operations /\ Running(s) \in DOMAIN Script
        /\ Len(Steps(s)) \in Nat
        /\ \A i \in 1 .. Len(Steps(s)) : Sound(Steps(s), i, Running(s))
    BY <1>1, RunningIsSound DEF SchemaInv
  <2>2. at[s] \in 1 .. Len(Steps(s))
    BY <1>1, <2>1 DEF HasNext, SchemaInv, TypeOK
  <2> QED BY <2>1, <2>2
<1>3. Running(s) # "target"
  BY <1>1, <1>2, RunningIsSound, PlanRuns DEF OutOfOrder, Running, SchemaInv, Operations
<1>4. Creators(s) # {} => Current(s).kind = "create" /\ Current(s).on \in FirstTables
  <2> SUFFICES ASSUME Creators(s) # {}
               PROVE  Current(s).kind = "create" /\ Current(s).on \in FirstTables
    OBVIOUS
  <2>1. looked[s] /\ Current(s).kind = "create"
    BY DEF Creators, LookedFor, SchemaInv
  <2>2. PICK u \in Others(s) : Current(s).on \in made[u]
    BY DEF Creators
  <2>3. Current(s).on \in Current(s).makes /\ Current(s).on \in FirstTables \cup Serial
    BY <1>2, <2>1 DEF Sound, Current
  <2>4. Current(s).on \notin Serial
    BY <1>1, <2>2, <2>3, SerialIsMadeByOne DEF Others
  <2> QED BY <2>1, <2>3, <2>4
<1>5. Holders(s) # {} => NeedsLock(s)
  BY DEF Holders
<1>6. Holders(s) # {} \/ Creators(s) # {}
  BY DEF WaitsFor
<1>7. at[s] \in 1 .. Ordered(Running(s))
  <2>1. CASE Running(s) # "ensure_agent_sync_schema"
    BY <1>2, <2>1 DEF Ordered, Steps
  <2>2. CASE Running(s) = "ensure_agent_sync_schema"
    <3>1. "service_targets_pilotable" \in schema
      BY <1>1, <2>2 DEF OutOfOrder
    <3>2. Steps(s) = EnsureAgentSync /\ Len(EnsureAgentSync) = 7
      BY <2>2 DEF Steps, Script, EnsureAgentSync
    <3>3. at[s] # 7
      <4> SUFFICES ASSUME at[s] = 7 PROVE FALSE
        OBVIOUS
      <4>1. /\ Current(s).unless = "service_targets_pilotable"
            /\ Current(s).kind = "execute"
        BY <3>2 DEF Current, EnsureAgentSync, Trigger, Statement
      <4> QED BY <1>4, <1>5, <1>6, <3>1, <4>1 DEF NeedsLock
    <3> QED BY <1>2, <2>2, <3>2, <3>3 DEF Ordered
  <2> QED BY <2>1, <2>2
<1>8. /\ Current(s).kind = "create" => Current(s).mode = "none"
      /\ Current(s).mode # "none" => Current(s).mode \in DOMAIN Excludes
  BY <1>2, ModesExclude DEF Sound, Current
<1>9. Current(s).kind \in {"execute", "create", "skip"}
  BY <1>2 DEF Sound, Current
<1>10. Holders(s) # {} => /\ NeedsLock(s) /\ Current(s).kind = "execute"
                          /\ Current(s).mode \in DOMAIN Excludes
  BY <1>1, <1>5, <1>8, <1>9 DEF NeedsLock
<1>11. MayWait(Current(s))
  BY <1>4, <1>6, <1>10 DEF MayWait, NeedsLock
<1> QED BY <1>1, <1>2, <1>3, <1>4, <1>7, <1>10, <1>11

(* Waits go upwards. *)
LEMMA WaitsGoUp ==
  ASSUME SchemaInv, LockInv, NEW s \in Sessions, NEW t \in Sessions,
         ~OutOfOrder(s), ~OutOfOrder(t), t \in WaitsFor(s), WaitsFor(t) # {}
  PROVE  PlaceOf(Current(s)) < PlaceOf(Current(t))
<1>1. HasNext(s) /\ t \in Others(s) /\ (t \in Holders(s) \/ t \in Creators(s))
  BY DEF WaitsFor, Holders, Creators
<1>2. \A j \in 1 .. at[t] - 1 : Upwards(Steps(t), j, at[t])
  BY WaitingInOrder, AllAscend DEF Ascending, Current, Steps
<1>3. CASE t \in Holders(s)
  <2>1. PICK m \in Excludes[Current(s).mode] : <<Current(s).on, m>> \in held[t]
    BY <1>3 DEF Holders
  <2>2. PICK j \in 1 .. at[t] - 1 : /\ Steps(t)[j].on = Current(s).on
                                    /\ Steps(t)[j].mode = m /\ m # "none"
    BY <2>1 DEF LockInv, HeldFromStatements
  <2>3. /\ Current(s).kind = "execute" /\ Current(s).mode \in DOMAIN Excludes
        /\ m \in DOMAIN Excludes
    BY <1>3, <2>1, WaitingInOrder, HeldModes
  <2>4. Current(s).mode \in Excludes[m]
    BY <2>1, <2>3, ExcludesEachOther
  <2>5. Highest(Current(s).on, m) < PlaceOf(Current(t))
    <3> SUFFICES ASSUME Current(t).on = Current(s).on, Current(t).kind # "create",
                        Within(Current(t).mode, m)
                 PROVE  FALSE
      BY <1>2, <2>2 DEF Upwards, Current
    <3>1. Holders(t) # {} /\ Current(t).mode \in DOMAIN Excludes
      BY WaitingInOrder DEF WaitsFor
    <3>2. PICK u \in Others(t) : \E n \in Excludes[Current(t).mode] :
                                   <<Current(t).on, n>> \in held[u]
      BY <3>1 DEF Holders
    <3>3. Excludes[Current(t).mode] \subseteq Excludes[m]
      BY <2>3, <3>1, WithinExcludes
    <3> QED BY <2>1, <3>2, <3>3 DEF LockInv, Compatible, Others
  <2>6. Place(Current(s).on, Current(s).mode) <= Highest(Current(s).on, m)
    BY <2>3, <2>4, HighestIsHighest
  <2>7. /\ Place(Current(s).on, Current(s).mode) \in Int
        /\ Highest(Current(s).on, m) \in Int /\ PlaceOf(Current(t)) \in Int
        /\ PlaceOf(Current(s)) = Place(Current(s).on, Current(s).mode)
    BY <2>3 DEF Place, Highest, PlaceOf
  <2> QED BY <2>5, <2>6, <2>7
<1>4. CASE t \in Creators(s)
  <2>1. Current(s).kind = "create" /\ Current(s).on \in FirstTables
    BY <1>4, WaitingInOrder
  <2>2. Current(s).on \in made[t]
    BY <1>4 DEF Creators
  <2>3. PICK j \in 1 .. at[t] - 1 :
          Current(s).on \in Steps(t)[j].makes \cup Steps(t)[j].replaces
    BY <2>2 DEF MadeByStatements, SchemaInv
  <2>4. Sound(Steps(t), j, Running(t))
    <3>1. /\ Open(t) /\ HasNext(t) /\ Len(Steps(t)) \in Nat
          /\ \A i \in 1 .. Len(Steps(t)) : Sound(Steps(t), i, Running(t))
      BY WaitingInOrder, RunningIsSound DEF SchemaInv
    <3>2. j \in 1 .. Len(Steps(t))
      BY <3>1 DEF HasNext, SchemaInv, TypeOK
    <3> QED BY <3>1, <3>2
  <2>5. /\ Current(s).on = Steps(t)[j].on /\ Steps(t)[j].kind = "create"
        /\ Steps(t)[j].on \in FirstTables
    BY <2>1, <2>3, <2>4 DEF Sound, Serial, FirstTables
  <2>6. Place(Current(s).on, "name") < PlaceOf(Current(t))
    BY <1>2, <2>5 DEF Upwards, Current
  <2> QED BY <2>1, <2>6 DEF PlaceOf
<1> QED BY <1>1, <1>3, <1>4

(* Of sessions that wait for each other, the one at the highest place waits for
   nobody of them. *)
LEMMA NoCycle ==
  ASSUME SchemaInv, LockInv, NEW D \in SUBSET {s \in Sessions : ~OutOfOrder(s)},
         Deadlocked(D)
  PROVE  FALSE
<1> DEFINE left(s) == 16 - PlaceOf(Current(s))
           T == {left(s) : s \in D}
<1>1. \A s \in D : left(s) \in Nat
  BY DEF PlaceOf, Place
<1>2. T \subseteq Nat /\ T # {}
  BY <1>1 DEF Deadlocked
<1>3. PICK x \in T : \A y \in T : ~ (<<y, x>> \in OpToRel(<, Nat))
  BY <1>2, NatLessThanWellFounded, WFMin
<1>4. PICK s \in D : x = left(s)
  BY <1>3
<1>5. PICK t \in D : t \in WaitsFor(s)
  BY DEF Deadlocked
<1>6. WaitsFor(s) # {} /\ WaitsFor(t) # {}
  BY DEF Deadlocked
<1>7. PlaceOf(Current(s)) < PlaceOf(Current(t))
  BY <1>5, <1>6, WaitsGoUp
<1>8. PlaceOf(Current(s)) \in 0 .. 16 /\ PlaceOf(Current(t)) \in 0 .. 16
  BY DEF PlaceOf, Place
<1>9. left(t) < left(s)
  BY <1>7, <1>8
<1> QED BY <1>1, <1>3, <1>4, <1>9 DEF OpToRel

-----------------------------------------------------------------------------
(* The theorems *)

(* Every state is well typed; what was in the database stays. *)
THEOREM TypeCorrect == Spec => []TypeOK
<1>1. SchemaInv => TypeOK
  BY DEF SchemaInv
<1> QED BY <1>1, Invariance, PTL

(* A transaction that relies on a constraint or a trigger begins only when it is
   committed, whoever upgrades the database and however far an upgrade that
   failed has come: the chain of ensure_* never skips what it would make. *)
THEOREM GuardsHold == Spec => []WritesAreGuarded
<1>1. SchemaInv => WritesAreGuarded
  <2> SUFFICES ASSUME SchemaInv, NEW s \in Sessions, Open(s),
                      Running(s) \in DOMAIN Guards, NEW x \in Guards[Running(s)]
               PROVE  x \in schema
    BY DEF WritesAreGuarded
  <2>1. op[s] \in Operations /\ stage[s] \in 1 .. Len(Plan(op[s]))
    BY RunningIsSound DEF SchemaInv
  <2>2. PICK k \in 1 .. stage[s] - 1 : Leaves(Plan(op[s])[k], x)
    BY <2>1, GuardsLeft DEF Running
  <2> QED BY <2>2 DEF Committed, SchemaInv
<1> QED BY <1>1, Invariance, PTL

(* What can fail, on a database of any age: two transactions never replace the
   same function or make the same table of the last lot, since each takes an
   exclusive lock before; the tables of the first lots have no such lock. *)
THEOREM FailuresAreExplained == Spec => []FailuresExplained
<1>1. SchemaInv => FailuresExplained
  BY DEF SchemaInv
<1> QED BY <1>1, Invariance, PTL

(* The transactions lock tables, rows, keys and names in one order, so that on a
   database of any age no sessions wait for each other in a cycle, unless one of
   them creates a target or upgrades the schema to the inventory. *)
THEOREM DeadlocksAreKnown == Spec => []OnlyKnownDeadlocks
<1>1. SchemaInv /\ LockInv => OnlyKnownDeadlocks
  BY NoCycle DEF OnlyKnownDeadlocks
<1>2. Init /\ [][Next]_vars /\ []SchemaInv => []LockInv
  BY LockInit, LockStep, PTL
<1> QED BY <1>1, <1>2, Invariance, PTL DEF Spec
=============================================================================
