-------------------------- MODULE WorkerLoopProofs --------------------------
(***************************************************************************)
(* Theorems about WorkerLoop, for any number of jobs, places, pool threads, *)
(* lifetimes of the application and statements that raise.                 *)
(***************************************************************************)
EXTENDS WorkerLoop, FiniteSetTheorems, TLAPS

(* Where the coroutine, its awaited claim and the lifespan stand together. *)
LoopInv ==
  /\ life = "down" => loop = "ended"
  /\ loop = "claiming" <=> claim # "none"
  /\ loop = "ended" => \A j \in Jobs : ~ Unfinished(j)
  /\ got # NoJob => claim = "returned"

(* A task is counted as long as it is not done, and its job was claimed; the job
   a claim has returned has no task yet. *)
TaskInv ==
  /\ \A j \in Jobs : Unfinished(j) => j \in active
  /\ \A j \in Jobs : task[j] # "none" => db[j] \in {"running", "over"}
  /\ got # NoJob => db[got] = "running" /\ task[got] = "none"

(* A claim is only asked for when there is a place. *)
PlacesInv ==
  /\ IsFiniteSet(active)
  /\ Cardinality(active) <= MaxConcurrency
  /\ loop = "claiming" => Cardinality(active) < MaxConcurrency

(* A call is in the pool once, and its caller waits for it. *)
Awaited(x) == IF x = Claim THEN claim = "called" ELSE task[x] = "submitted"

PoolInv ==
  /\ \A i \in 1 .. Len(queue) : Awaited(queue[i]) /\ queue[i] \notin busy
  /\ \A i, k \in 1 .. Len(queue) : queue[i] = queue[k] => i = k
  /\ \A x \in busy : Awaited(x)

(* Only the claim under way when the stop came can be late. *)
LateInv ==
  /\ late <= 1
  /\ claim = "called" \/ ~ stop => late = 0

(* Jobs that stay running because a statement raised. *)
Lost ==
  {j \in Running : \/ task[j] \in {"returned", "done"}
                   \/ task[j] = "none" /\ j # got}

LostInv == IsFiniteSet(Lost) /\ Cardinality(Lost) <= failures

ControllerInv ==
  TypeOK /\ LoopInv /\ TaskInv /\ PlacesInv /\ PoolInv /\ LateInv /\ LostInv

-----------------------------------------------------------------------------
LEMMA ControllerInit == Init => ControllerInv
<1> SUFFICES ASSUME Init PROVE ControllerInv
  OBVIOUS
<1> USE LoopAssumption DEF Init
<1>1. TypeOK
  <2>1. queue \in Seq(Jobs \cup {Claim})
    OBVIOUS
  <2>2. stop \in BOOLEAN
    OBVIOUS
  <2>3. task \in [Jobs -> {"none"}] /\ db \in [Jobs -> {"none"}]
    OBVIOUS
  <2> QED BY <2>1, <2>2, <2>3 DEF TypeOK
<1>2. LoopInv /\ TaskInv
  BY DEF LoopInv, TaskInv, Unfinished
<1>3. PlacesInv
  BY FS_EmptySet DEF PlacesInv
<1>4. PoolInv /\ LateInv
  BY DEF PoolInv, LateInv
<1>5. Lost = {}
  BY DEF Lost, Running
<1>6. LostInv
  BY <1>5, FS_EmptySet DEF LostInv
<1> QED BY <1>1, <1>2, <1>3, <1>4, <1>6 DEF ControllerInv

-----------------------------------------------------------------------------
(* Types *)

(* How a filling, or the return of a claim, goes on. *)
LEMMA AskType ==
  ASSUME TypeOK, NEW places, AskForMore(places)
  PROVE  /\ loop' \in {"claiming", "waiting", "draining"}
         /\ claim' = IF loop' = "claiming" THEN "called" ELSE "none"
         /\ queue' = IF loop' = "claiming" THEN Append(queue, Claim) ELSE queue
         /\ loop' = "claiming" => ~ stop /\ Cardinality(places) < MaxConcurrency
BY DEF AskForMore, CallClaim, GoTo

LEMMA TypeStep == TypeOK /\ [Next]_vars => TypeOK'
<1> SUFFICES ASSUME TypeOK, [Next]_vars PROVE TypeOK'
  OBVIOUS
<1> USE LoopAssumption DEF TypeOK, process, control, claiming, pool, GoTo
<1>1. CASE UNCHANGED vars
  BY <1>1 DEF vars
<1>2. CASE Start \/ RequestStop \/ StopReturns
  <2>1. CASE Start
    <3>1. stop' \in BOOLEAN
      BY <2>1 DEF Start
    <3>2. cycles' \in 0 .. MaxCycles /\ late' \in Nat
      BY <2>1 DEF Start
    <3> QED BY <2>1, <3>1, <3>2 DEF Start
  <2>2. CASE RequestStop \/ StopReturns
    BY <2>2 DEF RequestStop, StopReturns
  <2> QED BY <1>2, <2>1, <2>2
<1>3. CASE Fill
  BY <1>3, AskType DEF Fill, DiscardFinished
<1>4. CASE ClaimReturns
  <2>1. CASE got = NoJob
    BY <1>4, <2>1 DEF ClaimReturns, NothingMore
  <2>2. CASE got # NoJob
    <3>1. AskForMore(active')
      BY <1>4, <2>2 DEF ClaimReturns
    <3>2. queue' \in Seq(Jobs \cup {Claim})
      BY <3>1, AskType
    <3> QED BY <1>4, <2>2, <3>1, <3>2, AskType DEF ClaimReturns
  <2> QED BY <2>1, <2>2
<1>5. CASE ClaimRaises \/ Wake \/ Drain
  BY <1>5 DEF ClaimRaises, Wake, Drain
<1>6. CASE PoolTake
  BY <1>6 DEF PoolTake
<1>7. CASE ClaimRuns \/ ClaimFails
  BY <1>7 DEF ClaimRuns, ClaimFails, Commit, Fails, Admissible
<1>8. ASSUME NEW j \in Jobs, TaskStarts(j) \/ TaskEnds(j) PROVE TypeOK'
  <2>1. CASE TaskStarts(j)
    <3>1. queue' \in Seq(Jobs \cup {Claim})
      BY <2>1 DEF TaskStarts
    <3> QED BY <2>1, <3>1 DEF TaskStarts
  <2>2. CASE TaskEnds(j)
    BY <2>2 DEF TaskEnds
  <2> QED BY <1>8, <2>1, <2>2
<1>9. ASSUME NEW j \in Jobs, JobRuns(j) \/ JobFails(j) \/ Post(j) PROVE TypeOK'
  BY <1>9 DEF JobRuns, JobFails, Post, Fails
<1> QED BY <1>1, <1>2, <1>3, <1>4, <1>5, <1>6, <1>7, <1>8, <1>9 DEF Next, LoopStep

-----------------------------------------------------------------------------
(* The calls in the pool *)

LEMMA PoolStepInv ==
  ASSUME TypeOK, LoopInv, TaskInv, PoolInv, [Next]_vars
  PROVE  PoolInv'
<1> USE LoopAssumption DEF TypeOK, PoolInv, Awaited, process, control, claiming, pool
<1>1. CASE UNCHANGED vars
  BY <1>1 DEF vars
<1>2. CASE Start \/ RequestStop \/ StopReturns
  BY <1>2 DEF Start, RequestStop, StopReturns
<1>3. ASSUME NEW places, AskForMore(places), claim # "called", UNCHANGED busy,
             \A j \in Jobs : task[j] = "submitted" => task'[j] = "submitted"
      PROVE  PoolInv'
  <2>1. \A i \in 1 .. Len(queue) : queue[i] \in Jobs /\ queue[i] # Claim
    BY <1>3
  <2>2. Claim \notin busy
    BY <1>3
  <2>3. CASE loop' = "claiming"
    <3>1. claim' = "called" /\ queue' = Append(queue, Claim)
      BY <1>3, <2>3, AskType
    <3>2. Len(queue') = Len(queue) + 1 /\ queue'[Len(queue) + 1] = Claim
      BY <3>1
    <3>3. \A i \in 1 .. Len(queue) : queue'[i] = queue[i]
      BY <3>1
    <3>4. \A i \in 1 .. Len(queue') : i \in 1 .. Len(queue) \/ i = Len(queue) + 1
      BY <3>2
    <3> QED BY <1>3, <2>1, <2>2, <3>1, <3>2, <3>3, <3>4
  <2>4. CASE loop' # "claiming"
    BY <1>3, <2>1, <2>2, <2>4, AskType
  <2> QED BY <2>3, <2>4
<1>4. CASE Fill
  BY <1>3, <1>4 DEF Fill, LoopInv
<1>5. CASE ClaimReturns
  <2>1. CASE got = NoJob
    BY <1>5, <2>1 DEF ClaimReturns, NothingMore, GoTo
  <2>2. CASE got # NoJob
    BY <1>3, <1>5, <2>2 DEF ClaimReturns, TaskInv
  <2> QED BY <2>1, <2>2
<1>6. CASE ClaimRaises \/ Wake \/ Drain
  BY <1>6 DEF ClaimRaises, Wake, Drain, GoTo, LoopInv
<1>7. CASE PoolTake
  <2> DEFINE x == Head(queue)
  <2>1. /\ queue # <<>> /\ queue' = Tail(queue) /\ busy' = busy \cup {x}
        /\ UNCHANGED <<claim, task>>
    BY <1>7 DEF PoolTake
  <2>2. Len(queue) \in Nat \ {0} /\ x = queue[1] /\ 1 \in 1 .. Len(queue)
    BY <2>1
  <2>3. /\ Len(queue') = Len(queue) - 1
        /\ \A i \in 1 .. Len(queue') : queue'[i] = queue[i + 1]
    BY <2>1, <2>2
  <2>4. \A i \in 1 .. Len(queue') : i + 1 \in 1 .. Len(queue) /\ i + 1 # 1
    BY <2>2, <2>3
  <2>5. \A i \in 1 .. Len(queue') : Awaited(queue'[i]) /\ queue'[i] \notin busy'
    <3> SUFFICES ASSUME NEW i \in 1 .. Len(queue')
                 PROVE  Awaited(queue'[i]) /\ queue'[i] \notin busy \cup {x}
      BY <2>1
    <3>1. i + 1 \in 1 .. Len(queue) /\ i + 1 # 1 /\ queue'[i] = queue[i + 1]
      BY <2>3, <2>4
    <3>2. queue[i + 1] # queue[1]
      BY <2>2, <3>1
    <3> QED BY <2>2, <3>1, <3>2
  <2>6. \A i, k \in 1 .. Len(queue') : queue'[i] = queue'[k] => i = k
    BY <2>2, <2>3, <2>4
  <2>7. \A y \in busy' : Awaited(y)
    BY <2>1, <2>2
  <2> QED BY <2>1, <2>5, <2>6, <2>7
<1>8. CASE ClaimRuns \/ ClaimFails
  <2>1. /\ Claim \in busy /\ busy' = busy \ {Claim} /\ UNCHANGED <<task, queue>>
    BY <1>8 DEF ClaimRuns, ClaimFails
  <2>2. \A i \in 1 .. Len(queue) : queue[i] # Claim
    BY <2>1
  <2> QED BY <2>1, <2>2
<1>9. ASSUME NEW j \in Jobs, TaskStarts(j) PROVE PoolInv'
  <2>1. /\ task[j] = "created" /\ task' = [task EXCEPT ![j] = "submitted"]
        /\ queue' = Append(queue, j) /\ UNCHANGED <<claim, busy>>
    BY <1>9 DEF TaskStarts
  <2>2. j \notin busy /\ \A i \in 1 .. Len(queue) : queue[i] # j
    BY <2>1
  <2>3. Len(queue') = Len(queue) + 1 /\ queue'[Len(queue) + 1] = j
    BY <2>1
  <2>4. \A i \in 1 .. Len(queue) : queue'[i] = queue[i]
    BY <2>1
  <2>5. \A i \in 1 .. Len(queue') : i \in 1 .. Len(queue) \/ i = Len(queue) + 1
    BY <2>3
  <2> QED BY <2>1, <2>2, <2>3, <2>4, <2>5
<1>10. ASSUME NEW j \in Jobs, TaskEnds(j) \/ Post(j) PROVE PoolInv'
  BY <1>10 DEF TaskEnds, Post
<1>11. ASSUME NEW j \in Jobs, JobRuns(j) \/ JobFails(j) PROVE PoolInv'
  <2>1. /\ j \in busy /\ busy' = busy \ {j} /\ UNCHANGED <<claim, queue>>
        /\ task' = [task EXCEPT ![j] = "returned"]
    BY <1>11 DEF JobRuns, JobFails
  <2>2. \A i \in 1 .. Len(queue) : queue[i] # j
    BY <2>1
  <2> QED BY <2>1, <2>2
<1> QED BY <1>1, <1>2, <1>4, <1>5, <1>6, <1>7, <1>8, <1>9, <1>10, <1>11
        DEF Next, LoopStep

(* Who returns from the pool was awaited. *)
LEMMA Returning ==
  ASSUME PoolInv
  PROVE  /\ Claim \in busy => claim = "called"
         /\ \A j \in Jobs : j \in busy => task[j] = "submitted"
BY LoopAssumption DEF PoolInv, Awaited

-----------------------------------------------------------------------------
(* The coroutine, the claim it awaits and the tasks it has made *)

LEMMA LoopStepInv ==
  ASSUME TypeOK, LoopInv, TaskInv, PoolInv, [Next]_vars
  PROVE  LoopInv'
<1> USE DEF TypeOK, LoopInv, process, control, claiming, pool, GoTo
<1>1. CASE UNCHANGED vars
  BY <1>1 DEF vars, Unfinished
<1>2. CASE Start \/ RequestStop \/ StopReturns
  BY <1>2 DEF Start, RequestStop, StopReturns, Unfinished
<1>3. CASE Fill
  <2>1. loop = "fill" /\ AskForMore(active') /\ UNCHANGED <<life, got>>
    BY <1>3 DEF Fill
  <2> QED BY <2>1, AskType
<1>4. CASE ClaimReturns
  <2>1. loop = "claiming" /\ life # "down" /\ got' = NoJob /\ life' = life
    BY <1>4 DEF ClaimReturns
  <2>2. CASE got = NoJob
    BY <1>4, <2>1, <2>2 DEF ClaimReturns, NothingMore
  <2>3. CASE got # NoJob
    <3>1. AskForMore(active')
      BY <1>4, <2>3 DEF ClaimReturns
    <3> QED BY <2>1, <3>1, AskType
  <2> QED BY <2>2, <2>3
<1>5. CASE ClaimRaises \/ Wake
  BY <1>5 DEF ClaimRaises, Wake
<1>6. CASE Drain
  BY <1>6 DEF Drain, TaskInv, Unfinished
<1>7. CASE PoolTake
  BY <1>7 DEF PoolTake, Unfinished
<1>8. CASE ClaimRuns \/ ClaimFails
  <2>1. claim = "called" /\ loop = "claiming"
    BY <1>8, Returning DEF ClaimRuns, ClaimFails
  <2>2. UNCHANGED <<life, loop, task>> /\ claim' \in {"returned", "raised"}
    BY <1>8 DEF ClaimRuns, ClaimFails
  <2>3. got' # NoJob => claim' = "returned"
    BY <1>8, <2>1 DEF ClaimRuns, ClaimFails
  <2> QED BY <2>1, <2>2, <2>3 DEF Unfinished
<1>9. ASSUME NEW j \in Jobs, TaskStarts(j) \/ TaskEnds(j) PROVE LoopInv'
  BY <1>9 DEF TaskStarts, TaskEnds, Unfinished
<1>10. ASSUME NEW j \in Jobs, JobRuns(j) \/ JobFails(j) \/ Post(j) PROVE LoopInv'
  <2>1. \A i \in Jobs : Unfinished(i)' => Unfinished(i)
    BY <1>10, Returning DEF JobRuns, JobFails, Post, Unfinished
  <2> QED BY <1>10, <2>1 DEF JobRuns, JobFails, Post
<1> QED BY <1>1, <1>2, <1>3, <1>4, <1>5, <1>6, <1>7, <1>8, <1>9, <1>10 DEF Next, LoopStep

LEMMA TaskStepInv ==
  ASSUME TypeOK, LoopInv, TaskInv, PoolInv, [Next]_vars
  PROVE  TaskInv'
<1> USE LoopAssumption DEF TypeOK, TaskInv, Unfinished, process, control, claiming, pool
<1>1. CASE UNCHANGED vars
  BY <1>1 DEF vars
<1>2. CASE Start \/ RequestStop \/ StopReturns
  BY <1>2 DEF Start, RequestStop, StopReturns
<1>3. CASE Fill
  BY <1>3 DEF Fill, DiscardFinished
<1>4. CASE ClaimReturns
  BY <1>4 DEF ClaimReturns
<1>5. CASE ClaimRaises \/ Wake \/ Drain
  BY <1>5 DEF ClaimRaises, Wake, Drain, GoTo
<1>6. CASE PoolTake
  BY <1>6 DEF PoolTake
<1>7. CASE ClaimRuns \/ ClaimFails
  <2>1. claim = "called" /\ got = NoJob
    BY <1>7, Returning DEF ClaimRuns, ClaimFails, LoopInv
  <2>2. CASE UNCHANGED db
    BY <1>7, <2>1, <2>2 DEF ClaimRuns, ClaimFails, Commit, Admissible
  <2>3. ASSUME NEW j \in Jobs, Commit(j), got' \in {j, NoJob} PROVE TaskInv'
    <3>1. db[j] = "pending" /\ task[j] = "none" /\ db' = [db EXCEPT ![j] = "running"]
      BY <2>3 DEF Commit, Admissible
    <3>2. UNCHANGED <<active, task>>
      BY <1>7 DEF ClaimRuns, ClaimFails
    <3> QED BY <2>3, <3>1, <3>2
  <2> QED BY <1>7, <2>1, <2>2, <2>3 DEF ClaimRuns, ClaimFails
<1>8. ASSUME NEW j \in Jobs, TaskStarts(j) \/ TaskEnds(j) PROVE TaskInv'
  BY <1>8 DEF TaskStarts, TaskEnds
<1>9. ASSUME NEW j \in Jobs, JobRuns(j) \/ JobFails(j) PROVE TaskInv'
  BY <1>9, Returning DEF JobRuns, JobFails
<1>10. ASSUME NEW j \in Jobs, Post(j) PROVE TaskInv'
  BY <1>10 DEF Post
<1> QED BY <1>1, <1>2, <1>3, <1>4, <1>5, <1>6, <1>7, <1>8, <1>9, <1>10 DEF Next, LoopStep

-----------------------------------------------------------------------------
(* Places, late claims and lost jobs *)

LEMMA PlacesStepInv ==
  ASSUME TypeOK, LoopInv, PlacesInv, [Next]_vars
  PROVE  PlacesInv'
<1> USE LoopAssumption DEF PlacesInv, process, control, claiming, pool, GoTo
<1>1. CASE UNCHANGED <<active, loop>>
  BY <1>1
<1>2. ASSUME NEW places, AskForMore(places), active' = places, IsFiniteSet(places),
             Cardinality(places) <= MaxConcurrency
      PROVE  PlacesInv'
  BY <1>2, AskType
<1>3. CASE Fill
  <2>1. active' \subseteq active
    BY <1>3 DEF Fill, DiscardFinished
  <2>2. IsFiniteSet(active') /\ Cardinality(active') <= Cardinality(active)
    BY <2>1, FS_Subset
  <2>3. Cardinality(active) \in Nat /\ Cardinality(active') \in Nat
    BY <2>2, FS_CardinalityType
  <2>4. Cardinality(active') <= MaxConcurrency
    BY <2>2, <2>3
  <2> QED BY <1>2, <1>3, <2>2, <2>4 DEF Fill
<1>4. CASE ClaimReturns
  <2>1. loop = "claiming"
    BY <1>4 DEF ClaimReturns, LoopInv
  <2>2. CASE got = NoJob
    BY <1>4, <2>2 DEF ClaimReturns, NothingMore
  <2>3. CASE got # NoJob
    <3>1. active' = active \cup {got} /\ AskForMore(active')
      BY <1>4, <2>3 DEF ClaimReturns
    <3>2. /\ IsFiniteSet(active')
          /\ Cardinality(active') = Cardinality(active)
             \/ Cardinality(active') = Cardinality(active) + 1
      BY <3>1, FS_AddElement
    <3>3. Cardinality(active) \in Nat
      BY FS_CardinalityType
    <3>4. Cardinality(active') <= MaxConcurrency
      BY <2>1, <3>2, <3>3
    <3> QED BY <1>2, <3>1, <3>2, <3>4
  <2> QED BY <2>2, <2>3
<1>5. CASE Start \/ ClaimRaises \/ Wake \/ Drain
  BY <1>5 DEF Start, ClaimRaises, Wake, Drain
<1>6. CASE RequestStop \/ StopReturns \/ PoolTake \/ ClaimRuns \/ ClaimFails
  BY <1>1, <1>6 DEF RequestStop, StopReturns, PoolTake, ClaimRuns, ClaimFails
<1>7. ASSUME NEW j \in Jobs, TaskStarts(j) \/ TaskEnds(j) \/ JobRuns(j) \/ JobFails(j)
                              \/ Post(j)
      PROVE  PlacesInv'
  BY <1>1, <1>7 DEF TaskStarts, TaskEnds, JobRuns, JobFails, Post
<1>8. CASE UNCHANGED vars
  BY <1>1, <1>8 DEF vars
<1> QED BY <1>3, <1>4, <1>5, <1>6, <1>7, <1>8 DEF Next, LoopStep

LEMMA LateStepInv ==
  ASSUME TypeOK, LoopInv, PoolInv, LateInv, [Next]_vars
  PROVE  LateInv'
<1> USE DEF TypeOK, LateInv, process, control, claiming, pool, GoTo
<1>1. CASE UNCHANGED <<stop, claim, late>>
  BY <1>1
<1>2. ASSUME NEW places, AskForMore(places), UNCHANGED <<stop, late>>
      PROVE  LateInv'
  BY <1>2, AskType
<1>3. CASE Fill
  BY <1>2, <1>3 DEF Fill
<1>4. CASE ClaimReturns
  BY <1>2, <1>4 DEF ClaimReturns, NothingMore
<1>5. CASE Start
  BY <1>5 DEF Start, LoopInv
<1>6. CASE RequestStop \/ StopReturns
  BY <1>6 DEF RequestStop, StopReturns
<1>7. CASE ClaimRaises \/ Wake \/ Drain
  BY <1>7 DEF ClaimRaises, Wake, Drain
<1>8. CASE ClaimRuns \/ ClaimFails
  <2>1. claim = "called" /\ late = 0 /\ UNCHANGED stop
        /\ claim' \in {"returned", "raised"}
    BY <1>8, Returning DEF ClaimRuns, ClaimFails
  <2>2. late' = late \/ late' = IF stop THEN late + 1 ELSE late
    BY <1>8 DEF ClaimRuns, ClaimFails, Commit
  <2> QED BY <2>1, <2>2
<1>9. ASSUME NEW j \in Jobs, TaskStarts(j) \/ TaskEnds(j) \/ JobRuns(j) \/ JobFails(j)
                              \/ Post(j)
      PROVE  LateInv'
  BY <1>1, <1>9 DEF TaskStarts, TaskEnds, JobRuns, JobFails, Post
<1>10. CASE UNCHANGED vars \/ PoolTake
  BY <1>1, <1>10 DEF vars, PoolTake
<1> QED BY <1>3, <1>4, <1>5, <1>6, <1>7, <1>8, <1>9, <1>10 DEF Next, LoopStep

LEMMA LostStepInv ==
  ASSUME TypeOK, LoopInv, TaskInv, PoolInv, LostInv, [Next]_vars
  PROVE  LostInv'
<1> USE LoopAssumption DEF TypeOK, process, control, claiming, pool
<1>1. Cardinality(Lost) \in Nat /\ failures \in Nat
  BY FS_CardinalityType DEF LostInv
<1>2. ASSUME Lost' \subseteq Lost, UNCHANGED failures PROVE LostInv'
  <2>1. IsFiniteSet(Lost') /\ Cardinality(Lost') <= Cardinality(Lost)
    BY <1>2, FS_Subset DEF LostInv
  <2>2. Cardinality(Lost') \in Nat
    BY <2>1, FS_CardinalityType
  <2> QED BY <1>1, <1>2, <2>1, <2>2 DEF LostInv
<1>3. ASSUME NEW j \in Jobs, Lost' \subseteq Lost \cup {j}, Fails PROVE LostInv'
  <2>1. /\ IsFiniteSet(Lost \cup {j})
        /\ Cardinality(Lost \cup {j}) = Cardinality(Lost)
           \/ Cardinality(Lost \cup {j}) = Cardinality(Lost) + 1
    BY FS_AddElement DEF LostInv
  <2>2. IsFiniteSet(Lost') /\ Cardinality(Lost') <= Cardinality(Lost \cup {j})
    BY <1>3, <2>1, FS_Subset
  <2>3. Cardinality(Lost') \in Nat /\ Cardinality(Lost \cup {j}) \in Nat
    BY <2>1, <2>2, FS_CardinalityType
  <2>4. failures' = failures + 1
    BY <1>3 DEF Fails
  <2> QED BY <1>1, <2>1, <2>2, <2>3, <2>4 DEF LostInv
<1>4. CASE UNCHANGED vars
  BY <1>2, <1>4 DEF vars, Lost, Running
<1>5. CASE Start \/ RequestStop \/ StopReturns \/ Fill \/ ClaimRaises \/ Wake \/ Drain
           \/ PoolTake
  BY <1>2, <1>5 DEF Start, RequestStop, StopReturns, Fill, ClaimRaises, Wake, Drain,
                    PoolTake, Lost, Running
<1>6. CASE ClaimReturns
  <2>1. Lost' \subseteq Lost
    BY <1>6 DEF ClaimReturns, Lost, Running, TaskInv
  <2> QED BY <1>2, <1>6, <2>1 DEF ClaimReturns
<1>7. CASE ClaimRuns
  <2>1. got = NoJob
    BY <1>7, Returning DEF ClaimRuns, LoopInv
  <2>2. task' = task /\ \A i \in Jobs : task[i] = "none" /\ db[i] # "running" =>
                          db'[i] # "running" \/ i = got'
    BY <1>7, <2>1 DEF ClaimRuns, Commit
  <2>3. \A i \in Jobs : task[i] # "none" => db[i] # "pending"
    BY DEF TaskInv
  <2>4. \A i \in Jobs : db[i] # "pending" => db'[i] = db[i]
    BY <1>7 DEF ClaimRuns, Commit, Admissible
  <2>5. Lost' \subseteq Lost
    BY <2>1, <2>2, <2>3, <2>4 DEF Lost, Running
  <2> QED BY <1>2, <1>7, <2>5 DEF ClaimRuns
<1>8. CASE ClaimFails
  <2>1. ASSUME NEW j \in Jobs, Commit(j) PROVE LostInv'
    <3>1. Lost' \subseteq Lost \cup {j}
      BY <1>8, <2>1 DEF ClaimFails, Commit, Lost, Running
    <3> QED BY <1>3, <1>8, <3>1 DEF ClaimFails
  <2>2. CASE UNCHANGED db
    <3>1. Lost' = Lost
      BY <1>8, <2>2 DEF ClaimFails, Lost, Running
    <3>2. failures' = failures + 1
      BY <1>8 DEF ClaimFails, Fails
    <3> QED BY <1>1, <3>1, <3>2 DEF LostInv
  <2> QED BY <1>8, <2>1, <2>2 DEF ClaimFails
<1>9. ASSUME NEW j \in Jobs, TaskStarts(j) \/ TaskEnds(j) \/ Post(j) PROVE LostInv'
  <2>1. Lost' \subseteq Lost
    BY <1>9 DEF TaskStarts, TaskEnds, Post, Lost, Running
  <2> QED BY <1>2, <1>9, <2>1 DEF TaskStarts, TaskEnds, Post
<1>10. ASSUME NEW j \in Jobs, JobRuns(j) PROVE LostInv'
  <2>1. Lost' \subseteq Lost
    BY <1>10 DEF JobRuns, Lost, Running
  <2> QED BY <1>2, <1>10, <2>1 DEF JobRuns
<1>11. ASSUME NEW j \in Jobs, JobFails(j) PROVE LostInv'
  <2>1. Lost' \subseteq Lost \cup {j}
    BY <1>11 DEF JobFails, Lost, Running
  <2> QED BY <1>3, <1>11, <2>1 DEF JobFails
<1> QED BY <1>4, <1>5, <1>6, <1>7, <1>8, <1>9, <1>10, <1>11 DEF Next, LoopStep

(* The invariant, and the types with it. *)
THEOREM ControllerInvariant == Spec => []ControllerInv
<1>1. ControllerInv /\ [Next]_vars => ControllerInv'
  BY TypeStep, LoopStepInv, TaskStepInv, PlacesStepInv, PoolStepInv, LateStepInv,
     LostStepInv DEF ControllerInv
<1> QED BY <1>1, ControllerInit, PTL DEF Spec

(* WorkerLoopController.TypeOK: the variables keep their types. *)
THEOREM TypeCorrect == Spec => []TypeOK
<1>1. ControllerInv => TypeOK
  BY DEF ControllerInv
<1> QED BY <1>1, ControllerInvariant, PTL

(* _fill_available_slots never has more tasks under way than places: a finished
   task frees its place at the next filling only, but none is given twice. *)
THEOREM PlacesRespected == Spec => []LocalBound
<1>1. ControllerInv => LocalBound
  <2> SUFFICES ASSUME ControllerInv PROVE LocalBound
    OBVIOUS
  <2> DEFINE U == {j \in Jobs : Unfinished(j)}
  <2>1. U \subseteq active /\ IsFiniteSet(active) /\ Cardinality(active) <= MaxConcurrency
    BY DEF ControllerInv, TaskInv, PlacesInv
  <2>2. IsFiniteSet(U) /\ Cardinality(U) <= Cardinality(active)
    BY <2>1, FS_Subset
  <2>3. Cardinality(U) \in Nat /\ Cardinality(active) \in Nat
    BY <2>1, <2>2, FS_CardinalityType
  <2> QED BY <2>1, <2>2, <2>3, LoopAssumption DEF LocalBound
<1> QED BY <1>1, ControllerInvariant, PTL

(* When stop() has returned, no call of the loop is left in the pool; a job that
   is still running without a task was lost to a statement that raised. *)
THEOREM StopLeavesNothing == Spec => []NothingLeftBehind
<1>1. ControllerInv => NothingLeftBehind
  <2> SUFFICES ASSUME ControllerInv PROVE NothingLeftBehind
    OBVIOUS
  <2>1. Orphans \subseteq Lost
    BY DEF ControllerInv, TypeOK, Orphans, Lost, Unfinished, Running
  <2>2. IsFiniteSet(Lost) /\ Cardinality(Lost) <= failures
    BY DEF ControllerInv, LostInv
  <2>3. IsFiniteSet(Orphans) /\ Cardinality(Orphans) <= Cardinality(Lost)
    BY <2>1, <2>2, FS_Subset
  <2>4. Cardinality(Orphans) \in Nat /\ Cardinality(Lost) \in Nat /\ failures \in Nat
    BY <2>2, <2>3, FS_CardinalityType, LoopAssumption DEF ControllerInv, TypeOK
  <2>5. Cardinality(Orphans) <= failures
    BY <2>2, <2>3, <2>4
  <2>6. ASSUME life = "down"
        PROVE  /\ \A j \in Jobs : ~ Unfinished(j)
               /\ claim = "none" /\ got = NoJob
    BY <2>6 DEF ControllerInv, LoopInv
  <2>7. ASSUME life = "down" PROVE \A x \in Jobs \cup {Claim} : ~ Awaited(x)
    BY <2>6, <2>7, LoopAssumption DEF Awaited, Unfinished
  <2>8. ASSUME life = "down" PROVE queue = <<>> /\ busy = {}
    <3>1. queue \in Seq(Jobs \cup {Claim}) /\ busy \subseteq Jobs \cup {Claim}
      BY DEF ControllerInv, TypeOK
    <3>2. busy = {}
      BY <2>7, <2>8, <3>1 DEF ControllerInv, PoolInv
    <3>3. 1 \notin 1 .. Len(queue)
      BY <2>7, <2>8, <3>1 DEF ControllerInv, PoolInv
    <3>4. queue = <<>>
      BY <3>1, <3>3
    <3> QED BY <3>2, <3>4
  <2> QED BY <2>5, <2>6, <2>8 DEF NothingLeftBehind
<1> QED BY <1>1, ControllerInvariant, PTL

(* After stop() at most the claim under way takes a job. *)
THEOREM AtMostOneLateClaim == Spec => []OneClaimAfterStop
<1>1. ControllerInv => OneClaimAfterStop
  BY DEF ControllerInv, LateInv, OneClaimAfterStop
<1> QED BY <1>1, ControllerInvariant, PTL

-----------------------------------------------------------------------------
(* Nothing is forgotten *)

(* An awaited call has not left the pool. *)
AwaitedInv == \A x \in Jobs \cup {Claim} : Awaited(x) => UnderWay(x)

(* Every counted task was created. *)
CountedInv == \A j \in active : task[j] # "none"

(* Why the coroutine leaves its loop. *)
LeavingInv ==
  /\ claim = "raised" => failures > 0
  /\ life # "down" /\ loop \in {"draining", "ended"} => stop \/ failures > 0

ForgottenInv == AwaitedInv /\ CountedInv /\ LeavingInv

(* What a longer queue and a shorter one keep. *)
LEMMA QueueGrows ==
  ASSUME NEW x, NEW y, queue \in Seq(Jobs \cup {Claim}), queue' = Append(queue, x),
         UNCHANGED busy, UnderWay(y) \/ y = x
  PROVE  UnderWay(y)'
<1>1. Len(queue') = Len(queue) + 1 /\ queue'[Len(queue) + 1] = x
  OBVIOUS
<1>2. \A i \in 1 .. Len(queue) : i \in 1 .. Len(queue') /\ queue'[i] = queue[i]
  BY <1>1
<1>3. Len(queue) + 1 \in 1 .. Len(queue')
  BY <1>1
<1> QED BY <1>1, <1>2, <1>3 DEF UnderWay

LEMMA QueueShrinks ==
  ASSUME NEW y, queue \in Seq(Jobs \cup {Claim}), queue # <<>>, queue' = Tail(queue),
         busy' = busy \cup {Head(queue)}, UnderWay(y)
  PROVE  UnderWay(y)'
<1>1. /\ Len(queue) \in Nat \ {0} /\ Head(queue) = queue[1]
      /\ Len(queue') = Len(queue) - 1
      /\ \A i \in 1 .. Len(queue') : queue'[i] = queue[i + 1]
  OBVIOUS
<1>2. CASE y \in busy \/ y = queue[1]
  BY <1>1, <1>2 DEF UnderWay
<1>3. ASSUME NEW i \in 1 .. Len(queue), queue[i] = y, i # 1 PROVE UnderWay(y)'
  <2>1. i - 1 \in 1 .. Len(queue') /\ (i - 1) + 1 = i
    BY <1>1, <1>3
  <2>2. queue'[i - 1] = y
    BY <1>1, <1>3, <2>1
  <2> QED BY <2>1, <2>2 DEF UnderWay
<1> QED BY <1>2, <1>3 DEF UnderWay

LEMMA AwaitedStepInv ==
  ASSUME TypeOK, LoopInv, TaskInv, PoolInv, AwaitedInv, [Next]_vars
  PROVE  AwaitedInv'
<1> USE LoopAssumption DEF AwaitedInv, Awaited, process, control, claiming, pool
<1>0. queue \in Seq(Jobs \cup {Claim}) /\ task \in [Jobs -> {"none", "created", "submitted", "returned", "done"}]
  BY DEF TypeOK
<1>1. ASSUME UNCHANGED pool, claim' # "called" \/ claim' = claim,
             \A j \in Jobs : task'[j] = "submitted" => task[j] = "submitted"
      PROVE  AwaitedInv'
  BY <1>1 DEF UnderWay
<1>2. CASE UNCHANGED vars
  BY <1>1, <1>2 DEF vars
<1>3. CASE Start \/ RequestStop \/ StopReturns
  BY <1>1, <1>3 DEF Start, RequestStop, StopReturns
<1>4. ASSUME NEW places, AskForMore(places), UNCHANGED busy,
             \A j \in Jobs : task'[j] = "submitted" => task[j] = "submitted"
      PROVE  AwaitedInv'
  <2>1. CASE loop' = "claiming"
    <3>1. queue' = Append(queue, Claim)
      BY <1>4, <2>1, AskType
    <3>2. \A y : UnderWay(y) \/ y = Claim => UnderWay(y)'
      BY <1>0, <1>4, <3>1, QueueGrows
    <3> QED BY <1>4, <3>2
  <2>2. CASE loop' # "claiming"
    <3>1. claim' = "none" /\ queue' = queue
      BY <1>4, <2>2, AskType
    <3> QED BY <1>1, <1>4, <3>1
  <2> QED BY <2>1, <2>2
<1>5. CASE Fill
  BY <1>4, <1>5 DEF Fill
<1>6. CASE ClaimReturns
  <2>1. CASE got = NoJob
    BY <1>1, <1>6, <2>1 DEF ClaimReturns, NothingMore, GoTo
  <2>2. CASE got # NoJob
    <3>1. \A j \in Jobs : task'[j] = "submitted" => task[j] = "submitted"
      BY <1>0, <1>6, <2>2 DEF ClaimReturns
    <3> QED BY <1>4, <1>6, <2>2, <3>1 DEF ClaimReturns
  <2> QED BY <2>1, <2>2
<1>7. CASE ClaimRaises \/ Wake \/ Drain
  BY <1>1, <1>7 DEF ClaimRaises, Wake, Drain, GoTo
<1>8. CASE PoolTake
  <2>1. \A y : UnderWay(y) => UnderWay(y)'
    BY <1>0, <1>8, QueueShrinks DEF PoolTake
  <2> QED BY <1>8, <2>1 DEF PoolTake
<1>9. CASE ClaimRuns \/ ClaimFails
  <2>1. /\ claim' # "called" /\ busy' = busy \ {Claim}
        /\ UNCHANGED <<task, queue>>
    BY <1>9 DEF ClaimRuns, ClaimFails
  <2>2. \A y : UnderWay(y) /\ y # Claim => UnderWay(y)'
    BY <2>1 DEF UnderWay
  <2> QED BY <2>1, <2>2
<1>10. ASSUME NEW j \in Jobs, TaskStarts(j) PROVE AwaitedInv'
  <2>1. \A y : UnderWay(y) \/ y = j => UnderWay(y)'
    BY <1>0, <1>10, QueueGrows DEF TaskStarts
  <2>2. \A i \in Jobs : task'[i] = "submitted" => task[i] = "submitted" \/ i = j
    BY <1>0, <1>10 DEF TaskStarts
  <2> QED BY <1>10, <2>1, <2>2 DEF TaskStarts
<1>11. ASSUME NEW j \in Jobs, TaskEnds(j) \/ Post(j) PROVE AwaitedInv'
  <2>1. \A i \in Jobs : task'[i] = "submitted" => task[i] = "submitted"
    BY <1>0, <1>11 DEF TaskEnds, Post
  <2> QED BY <1>1, <1>11, <2>1 DEF TaskEnds, Post
<1>12. ASSUME NEW j \in Jobs, JobRuns(j) \/ JobFails(j) PROVE AwaitedInv'
  <2>1. /\ busy' = busy \ {j} /\ UNCHANGED <<claim, queue>>
        /\ task' = [task EXCEPT ![j] = "returned"]
    BY <1>12 DEF JobRuns, JobFails
  <2>2. \A y : UnderWay(y) /\ y # j => UnderWay(y)'
    BY <2>1 DEF UnderWay
  <2>3. \A i \in Jobs : task'[i] = "submitted" => task[i] = "submitted" /\ i # j
    BY <1>0, <2>1
  <2> QED BY <2>1, <2>2, <2>3
<1> QED BY <1>2, <1>3, <1>5, <1>6, <1>7, <1>8, <1>9, <1>10, <1>11, <1>12
        DEF Next, LoopStep

LEMMA CountedStepInv ==
  ASSUME TypeOK, CountedInv, [Next]_vars
  PROVE  CountedInv'
<1> USE DEF TypeOK, CountedInv, process, control, claiming, pool
<1>1. CASE UNCHANGED vars
  BY <1>1 DEF vars
<1>2. CASE Start \/ RequestStop \/ StopReturns
  BY <1>2 DEF Start, RequestStop, StopReturns
<1>3. CASE Fill
  BY <1>3 DEF Fill, DiscardFinished
<1>4. CASE ClaimReturns
  BY <1>4 DEF ClaimReturns
<1>5. CASE ClaimRaises \/ Wake \/ Drain
  BY <1>5 DEF ClaimRaises, Wake, Drain
<1>6. CASE PoolTake \/ ClaimRuns \/ ClaimFails
  BY <1>6 DEF PoolTake, ClaimRuns, ClaimFails
<1>7. ASSUME NEW j \in Jobs, TaskStarts(j) \/ TaskEnds(j) \/ JobRuns(j) \/ JobFails(j)
                              \/ Post(j)
      PROVE  CountedInv'
  BY <1>7 DEF TaskStarts, TaskEnds, JobRuns, JobFails, Post
<1> QED BY <1>1, <1>2, <1>3, <1>4, <1>5, <1>6, <1>7 DEF Next, LoopStep

LEMMA LeavingStepInv ==
  ASSUME TypeOK, LoopInv, LeavingInv, [Next]_vars
  PROVE  LeavingInv'
<1> USE DEF LeavingInv, process, control, claiming, pool
<1>0. failures \in Nat
  BY LoopAssumption DEF TypeOK
<1>1. CASE UNCHANGED vars
  BY <1>1 DEF vars
<1>2. CASE Start \/ RequestStop \/ StopReturns
  BY <1>2 DEF Start, RequestStop, StopReturns
<1>3. ASSUME NEW places, AskForMore(places), UNCHANGED <<stop, failures>>
      PROVE  LeavingInv'
  BY <1>3 DEF AskForMore, CallClaim, GoTo
<1>4. CASE Fill
  BY <1>3, <1>4 DEF Fill
<1>5. CASE ClaimReturns
  BY <1>3, <1>5 DEF ClaimReturns, NothingMore, GoTo
<1>6. CASE ClaimRaises \/ Wake \/ Drain
  BY <1>6 DEF ClaimRaises, Wake, Drain, GoTo
<1>7. CASE PoolTake \/ ClaimRuns
  BY <1>7 DEF PoolTake, ClaimRuns
<1>8. CASE ClaimFails
  BY <1>0, <1>8 DEF ClaimFails, Fails
<1>9. ASSUME NEW j \in Jobs, TaskStarts(j) \/ TaskEnds(j) \/ JobRuns(j) \/ Post(j)
      PROVE  LeavingInv'
  BY <1>9 DEF TaskStarts, TaskEnds, JobRuns, Post
<1>10. ASSUME NEW j \in Jobs, JobFails(j) PROVE LeavingInv'
  BY <1>0, <1>10 DEF JobFails, Fails
<1> QED BY <1>1, <1>2, <1>4, <1>5, <1>6, <1>7, <1>8, <1>9, <1>10 DEF Next, LoopStep

(* What StopEnds, ClaimedRuns and PendingTaken need of every state: _loop never
   awaits a call that has left the pool, gathers no task that was not made, and
   ends while the application is up only after a stop or an exception. *)
THEOREM NothingIsForgotten == Spec => []NothingForgotten
<1>1. Init => ForgottenInv
  BY LoopAssumption DEF Init, ForgottenInv, AwaitedInv, Awaited, CountedInv, LeavingInv
<1>2. ControllerInv /\ ForgottenInv /\ [Next]_vars => ForgottenInv'
  BY AwaitedStepInv, CountedStepInv, LeavingStepInv DEF ControllerInv, ForgottenInv
<1>3. ForgottenInv => NothingForgotten
  BY LoopAssumption DEF ForgottenInv, AwaitedInv, Awaited, CountedInv, LeavingInv,
                        NothingForgotten
<1> QED BY <1>1, <1>2, <1>3, ControllerInvariant, PTL DEF Spec
=============================================================================
