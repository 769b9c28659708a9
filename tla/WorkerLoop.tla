----------------------------- MODULE WorkerLoop -----------------------------
(***************************************************************************)
(* WorkerLoopController: the asyncio task that fills the free places of one *)
(* backend process with claimed jobs, the thread pool of asyncio.to_thread *)
(* that runs the claims and the jobs, and the lifespan that starts and     *)
(* stops the loop.                                                         *)
(*                                                                         *)
(* One action is what the event loop runs between two awaits, or one call  *)
(* on a pool thread. What a claim may take is JobQueue's subject: here it  *)
(* takes any pending job while the database counts less than               *)
(* MaxConcurrency running ones.                                            *)
(***************************************************************************)
EXTENDS Naturals, FiniteSets, Sequences

CONSTANTS
  Jobs,            \* rows of jobs
  NoJob,           \* None: there was nothing to claim
  Claim,           \* the call to claim_next_job, in the pool's queue
  MaxConcurrency,  \* worker_max_concurrency
  PoolSize,        \* threads of the default executor
  MaxCycles,       \* bound: times the application is started
  MaxFailures      \* bound: statements that raise

ASSUME LoopAssumption ==
  /\ NoJob \notin Jobs /\ Claim \notin Jobs
  /\ MaxConcurrency \in Nat \ {0}
  /\ PoolSize \in Nat \ {0}
  /\ MaxCycles \in Nat
  /\ MaxFailures \in Nat

VARIABLES
  life,     \* where the lifespan stands
  stop,     \* _stop_event
  loop,     \* where the coroutine _loop stands; "ended" when _task is done
  active,   \* _active_tasks
  claim,    \* how far the awaited claim is
  got,      \* the job it returned
  task,     \* how far the asyncio task of a job is
  db,       \* jobs.status
  queue,    \* calls waiting for a pool thread
  busy,     \* calls on a pool thread
  late,     \* claims committed since the stop was requested
  cycles,
  failures

process  == <<life, cycles>>
control  == <<stop, loop, active>>
claiming == <<claim, got, late>>
pool     == <<queue, busy>>
vars == <<process, control, claiming, task, db, pool, failures>>

Unfinished(j) == task[j] \in {"created", "submitted", "returned"}

Running == {j \in Jobs : db[j] = "running"}

TypeOK ==
  /\ life \in {"down", "up", "stopping"}
  /\ stop \in BOOLEAN
  /\ loop \in {"ended", "fill", "claiming", "waiting", "draining"}
  /\ active \in SUBSET Jobs
  /\ claim \in {"none", "called", "returned", "raised"}
  /\ got \in Jobs \cup {NoJob}
  /\ task \in [Jobs -> {"none", "created", "submitted", "returned", "done"}]
  /\ db \in [Jobs -> {"none", "pending", "running", "over"}]
  /\ queue \in Seq(Jobs \cup {Claim})
  /\ busy \in SUBSET (Jobs \cup {Claim})
  /\ late \in Nat
  /\ cycles \in 0..MaxCycles
  /\ failures \in 0..MaxFailures

Init ==
  /\ life = "down"
  /\ stop = FALSE
  /\ loop = "ended"
  /\ active = {}
  /\ claim = "none"
  /\ got = NoJob
  /\ task = [j \in Jobs |-> "none"]
  /\ db = [j \in Jobs |-> "none"]
  /\ queue = <<>>
  /\ busy = {}
  /\ late = 0
  /\ cycles = 0
  /\ failures = 0

Fails == failures < MaxFailures /\ failures' = failures + 1

-----------------------------------------------------------------------------
(* lifespan. A definition named X_Fault is X with a plausible fault; Next uses
   none of them, they show that the properties notice the fault. *)

(* start(): the event is cleared and a new task created. *)
Start ==
  /\ life = "down"
  /\ cycles < MaxCycles
  /\ cycles' = cycles + 1
  /\ life' = "up"
  /\ stop' = FALSE
  /\ loop' = "fill"
  /\ late' = 0
  /\ UNCHANGED <<active, claim, got, task, db, pool, failures>>

RequestStop_NoEvent ==
  /\ life = "up"
  /\ life' = "stopping"
  /\ UNCHANGED <<cycles, control, claiming, task, db, pool, failures>>

(* stop(), up to its await. *)
RequestStop ==
  /\ life = "up"
  /\ life' = "stopping"
  /\ stop' = TRUE
  /\ UNCHANGED <<cycles, loop, active, claiming, task, db, pool, failures>>

(* The awaited task is done; whether it raised makes no difference here. *)
StopReturns ==
  /\ life = "stopping"
  /\ loop = "ended"
  /\ life' = "down"
  /\ UNCHANGED <<cycles, control, claiming, task, db, pool, failures>>

-----------------------------------------------------------------------------
(* _loop, _fill_available_slots, _wait_for_change *)

(* claim_next_job is handed to the pool and awaited. *)
CallClaim ==
  /\ loop' = "claiming"
  /\ claim' = "called"
  /\ queue' = Append(queue, Claim)

GoTo(place) ==
  /\ loop' = place
  /\ claim' = "none"
  /\ UNCHANGED queue

AskForMore_IgnoresStop(places) ==
  \/ Cardinality(places) < MaxConcurrency /\ CallClaim
  \/ Cardinality(places) >= MaxConcurrency /\ GoTo("waiting")

(* The guard of the loop that fills the places, and where it leads. *)
AskForMore(places) ==
  \/ ~ stop /\ Cardinality(places) < MaxConcurrency /\ CallClaim
  \/ ~ stop /\ Cardinality(places) >= MaxConcurrency /\ GoTo("waiting")
  \/ stop /\ GoTo("draining")

DiscardFinished_All == {}

(* _discard_finished_tasks *)
DiscardFinished == {j \in active : task[j] # "done"}

Fill ==
  /\ loop = "fill"
  /\ active' = IF stop THEN active ELSE DiscardFinished
  /\ AskForMore(active')
  /\ UNCHANGED <<process, stop, got, late, task, db, busy, failures>>

NothingMore == GoTo(IF stop THEN "draining" ELSE "waiting")

ClaimReturns_DropsWhenStopped ==
  /\ claim = "returned"
  /\ got' = NoJob
  /\ \/ /\ got = NoJob \/ stop
        /\ NothingMore
        /\ UNCHANGED <<active, task>>
     \/ /\ got # NoJob /\ ~ stop
        /\ active' = active \cup {got}
        /\ task' = [task EXCEPT ![got] = "created"]
        /\ AskForMore(active')
  /\ UNCHANGED <<process, stop, late, db, busy, failures>>

(* The await of the claim is over: nothing to do, or a task for the job and
   the guard again. *)
ClaimReturns ==
  /\ claim = "returned"
  /\ got' = NoJob
  /\ \/ /\ got = NoJob
        /\ NothingMore
        /\ UNCHANGED <<active, task>>
     \/ /\ got # NoJob
        /\ active' = active \cup {got}
        /\ task' = [task EXCEPT ![got] = "created"]
        /\ AskForMore(active')
  /\ UNCHANGED <<process, stop, late, db, busy, failures>>

(* An exception of the claim ends the loop, through its finally clause. *)
ClaimRaises ==
  /\ claim = "raised"
  /\ GoTo("draining")
  /\ UNCHANGED <<process, stop, active, got, late, task, db, busy, failures>>

Wake_OnChangeOnly ==
  /\ loop = "waiting"
  /\ stop \/ \E j \in active : task[j] = "done"
  /\ GoTo("fill")
  /\ UNCHANGED <<process, stop, active, got, late, task, db, busy, failures>>

(* asyncio.wait ends: the stop event, a finished task, or the interval. *)
Wake ==
  /\ loop = "waiting"
  /\ GoTo("fill")
  /\ UNCHANGED <<process, stop, active, got, late, task, db, busy, failures>>

Drain_NoGather ==
  /\ loop = "draining"
  /\ GoTo("ended")
  /\ UNCHANGED <<process, stop, active, got, late, task, db, busy, failures>>

(* The finally clause gathers the tasks, then the coroutine ends. *)
Drain ==
  /\ loop = "draining"
  /\ \A j \in active : task[j] = "done"
  /\ GoTo("ended")
  /\ UNCHANGED <<process, stop, active, got, late, task, db, busy, failures>>

-----------------------------------------------------------------------------
(* The tasks of the jobs and the pool *)

(* A task runs for the first time after the loop's coroutine has suspended. *)
TaskStarts(j) ==
  /\ task[j] = "created"
  /\ task' = [task EXCEPT ![j] = "submitted"]
  /\ queue' = Append(queue, j)
  /\ UNCHANGED <<process, control, claiming, db, busy, failures>>

(* The thread has returned: the task is done, _job_done swallows what it
   raised. *)
TaskEnds(j) ==
  /\ task[j] = "returned"
  /\ task' = [task EXCEPT ![j] = "done"]
  /\ UNCHANGED <<process, control, claiming, db, pool, failures>>

(* A pool thread takes the next call. *)
PoolTake ==
  /\ queue # <<>>
  /\ Cardinality(busy) < PoolSize
  /\ busy' = busy \cup {Head(queue)}
  /\ queue' = Tail(queue)
  /\ UNCHANGED <<process, control, claiming, task, db, failures>>

Admissible == {j \in Jobs : db[j] = "pending" /\
                            Cardinality(Running) < MaxConcurrency}

Commit(j) ==
  /\ j \in Admissible
  /\ db' = [db EXCEPT ![j] = "running"]
  /\ late' = IF stop THEN late + 1 ELSE late

(* claim_next_job on its thread. *)
ClaimRuns ==
  /\ Claim \in busy
  /\ busy' = busy \ {Claim}
  /\ claim' = "returned"
  /\ \/ \E j \in Jobs : Commit(j) /\ got' = j
     \/ Admissible = {} /\ got' = NoJob /\ UNCHANGED <<db, late>>
  /\ UNCHANGED <<process, control, task, queue, failures>>

(* It raises: before anything was written, or while its commit is answered. *)
ClaimFails ==
  /\ Claim \in busy
  /\ Fails
  /\ busy' = busy \ {Claim}
  /\ claim' = "raised"
  /\ (\E j \in Jobs : Commit(j)) \/ UNCHANGED <<db, late>>
  /\ UNCHANGED <<process, control, got, task, queue>>

(* run_claimed_job on its thread, to its end. *)
JobRuns(j) ==
  /\ j \in busy
  /\ busy' = busy \ {j}
  /\ task' = [task EXCEPT ![j] = "returned"]
  /\ db' = [db EXCEPT ![j] = "over"]
  /\ UNCHANGED <<process, control, claiming, queue, failures>>

(* It raises half-way: its job stays running. *)
JobFails(j) ==
  /\ j \in busy
  /\ Fails
  /\ busy' = busy \ {j}
  /\ task' = [task EXCEPT ![j] = "returned"]
  /\ UNCHANGED <<process, control, claiming, db, queue>>

(* A client asks for an action. *)
Post(j) ==
  /\ db[j] = "none"
  /\ db' = [db EXCEPT ![j] = "pending"]
  /\ UNCHANGED <<process, control, claiming, task, pool, failures>>

-----------------------------------------------------------------------------
LoopStep == Fill \/ ClaimReturns \/ ClaimRaises \/ Wake \/ Drain

Next ==
  \/ Start \/ RequestStop \/ StopReturns
  \/ LoopStep
  \/ PoolTake \/ ClaimRuns \/ ClaimFails
  \/ \E j \in Jobs : \/ TaskStarts(j) \/ TaskEnds(j)
                     \/ JobRuns(j) \/ JobFails(j)
                     \/ Post(j)

Spec == Init /\ [][Next]_vars

(* The event loop runs what is ready, a pool thread ends its call, the await of
   stop() is resumed. Nobody owes a start, a stop or a request. *)
Fairness ==
  /\ WF_vars(LoopStep) /\ WF_vars(StopReturns)
  /\ WF_vars(PoolTake) /\ WF_vars(ClaimRuns)
  /\ \A j \in Jobs : /\ WF_vars(TaskStarts(j)) /\ WF_vars(TaskEnds(j))
                     /\ WF_vars(JobRuns(j))

FairSpec == Spec /\ Fairness

-----------------------------------------------------------------------------
(* Safety *)

(* The process never has more than worker_max_concurrency jobs between the
   creation of their task and its end. *)
LocalBound == Cardinality({j \in Jobs : Unfinished(j)}) <= MaxConcurrency

(* "La boucle ... attend les jobs deja lances": when stop() has returned, no
   call of the loop is left on a thread or in the queue, and a job that is
   still running is one whose claim or whose run raised. *)
Orphans == {j \in Running : ~ Unfinished(j) /\ j # got}
NothingLeftBehind ==
  /\ Cardinality(Orphans) <= failures
  /\ life = "down" => /\ queue = <<>> /\ busy = {}
                      /\ \A j \in Jobs : ~ Unfinished(j)
                      /\ got = NoJob

(* "Pendant son arret, la boucle ne commence plus de nouveau claim": the one
   that was under way when the stop was requested may still take a job, no
   other. *)
OneClaimAfterStop == late <= 1

(* What the liveness below needs of every state: a call that is awaited is in
   the pool's queue or on a thread, a task the coroutine counts was created, and
   while the application is up only a stop or an exception ends the coroutine. *)
UnderWay(x) == x \in busy \/ \E i \in 1 .. Len(queue) : queue[i] = x

NothingForgotten ==
  /\ claim = "called" => UnderWay(Claim)
  /\ \A j \in Jobs : task[j] = "submitted" => UnderWay(j)
  /\ \A j \in active : task[j] # "none"
  /\ life # "down" /\ loop \in {"draining", "ended"} => stop \/ failures > 0

-----------------------------------------------------------------------------
(* Liveness *)

(* stop() returns, also when the loop died of a claim that raised and while
   other calls wait for a pool thread. *)
StopEnds == (life = "stopping") ~> (life = "down")

(* A job that a claim has returned is run to its end, also when the stop came
   before its task, or when another job or a later claim raised. *)
ClaimedRuns == \A j \in Jobs : (got = j) ~> (task[j] = "done")

(* A pending job is taken while the application is up, also after a run that
   raised: only a claim that raised, which ends the loop for good, or runs that
   raised and left their jobs in every place keep it waiting. *)
PendingTaken ==
  \A j \in Jobs : (db[j] = "pending")
                   ~> \/ db[j] # "pending"
                      \/ life # "up" \/ loop = "ended"
                      \/ Cardinality(Orphans) >= MaxConcurrency
=============================================================================
