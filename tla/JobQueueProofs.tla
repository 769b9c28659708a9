--------------------------- MODULE JobQueueProofs ---------------------------
(***************************************************************************)
(* Theorems about JobQueue, for any number of services, targets, instances, *)
(* administrators and requests.                                            *)
(***************************************************************************)
EXTENDS JobQueue, FiniteSetTheorems, TLAPS

-----------------------------------------------------------------------------
(* Type correctness *)

LEMMA StartRunningType ==
  ASSUME TypeOK, NEW r \in Requests, StartRunning(r)
  PROVE  /\ status' \in [Requests -> JobStatus]
         /\ opid' \in [Requests -> {"none", "claim", "run"}]
         /\ run' \in [Requests -> {"none", "claimed", "identified", "started",
                                   "executed", "finished", "done", "lost"}]
         /\ outcome' = outcome
BY DEF TypeOK, StartRunning, JobStatus

LEMMA TypeStep == TypeOK /\ [Next]_vars => TypeOK'
<1> SUFFICES ASSUME TypeOK, [Next]_vars PROVE TypeOK'
  OBVIOUS
<1> USE QueueAssumption DEF TypeOK, Requests, Nobody, NoOne, Actions,
        ServiceStatus, JobStatus, Outcomes, Idle
<1>1. ASSUME NEW r \in Requests, NEW s \in Services, NEW a \in Actions,
             RequestBegin(r, s, a)
      PROVE  TypeOK'
  BY <1>1 DEF RequestBegin, rows, jobs, runs
<1>2. ASSUME NEW r \in Requests, RequestLock(r) PROVE TypeOK'
  BY <1>2 DEF RequestLock, jobs, runs
<1>3. ASSUME NEW r \in Requests, RequestReadTarget(r) PROVE TypeOK'
  <2>1. bound[ask[r].service] \in Targets \cup {NoTarget}
    OBVIOUS
  <2>2. UNCHANGED <<svc, bound, pilotable, ask, jobs, runs, counted, admin>>
    BY <1>3 DEF RequestReadTarget
  <2>3. CASE /\ target' = [target EXCEPT ![r] = bound[ask[r].service]]
             /\ pc' = [pc EXCEPT ![r] = "checked"]
             /\ UNCHANGED <<owner, seen>>
    BY <2>1, <2>2, <2>3 DEF jobs, runs
  <2>4. CASE Release(r, "done") /\ UNCHANGED target
    BY <2>2, <2>4 DEF Release, jobs, runs
  <2> QED
    BY <1>3, <2>3, <2>4 DEF RequestReadTarget
<1>4. ASSUME NEW r \in Requests, RequestCheckActive(r) PROVE TypeOK'
  <2>1. CASE pc' = [pc EXCEPT ![r] = "clear"] /\ UNCHANGED <<owner, seen, target>>
    BY <1>4, <2>1 DEF RequestCheckActive, jobs, runs
  <2>2. CASE Release(r, "done") /\ target' = [target EXCEPT ![r] = NoTarget]
    BY <1>4, <2>2 DEF RequestCheckActive, Release, jobs, runs
  <2> QED
    BY <1>4, <2>1, <2>2 DEF RequestCheckActive
<1>5. ASSUME NEW r \in Requests, RequestInsert(r) PROVE TypeOK'
  BY <1>5 DEF RequestInsert, Release, jobs, runs
<1>6. ASSUME NEW r \in Requests, RequestAbort(r) PROVE TypeOK'
  BY <1>6 DEF RequestAbort, Release, jobs, runs
<1>7. ASSUME NEW i \in Instances, ClaimBegin(i) PROVE TypeOK'
  BY <1>7 DEF ClaimBegin, rows, requests, jobs, runs
<1>8. ASSUME NEW i \in Instances, ClaimTake(i) PROVE TypeOK'
  <2>1. CASE UNCHANGED <<jobs, runs>>
    BY <1>8, <2>1 DEF ClaimTake, rows, requests, jobs, runs
  <2>2. ASSUME NEW r \in Requests, StartRunning(r), auto' = auto \cup {r}
        PROVE  TypeOK'
    BY <1>8, <2>2, StartRunningType DEF ClaimTake, rows, requests
  <2> QED
    BY <1>8, <2>1, <2>2 DEF ClaimTake
<1>9. ASSUME NEW r \in Requests, RunIdentify(r) PROVE TypeOK'
  BY <1>9 DEF RunIdentify, rows, requests
<1>10. ASSUME NEW r \in Requests, RunMarkStarted(r) PROVE TypeOK'
  BY <1>10 DEF RunMarkStarted, Transitional, requests, jobs
<1>11. ASSUME NEW r \in Requests, RunExecute(r) PROVE TypeOK'
  BY <1>11 DEF RunExecute, rows, requests, jobs
<1>12. ASSUME NEW r \in Requests, RunFinish(r) PROVE TypeOK'
  BY <1>12 DEF RunFinish, rows, requests
<1>13. ASSUME NEW r \in Requests, RunSettle(r) PROVE TypeOK'
  BY <1>13 DEF RunSettle, Final, requests, jobs
<1>14. ASSUME NEW r \in Requests, RunLost(r) PROVE TypeOK'
  BY <1>14 DEF RunLost, rows, requests, jobs
<1>15. ASSUME NEW a \in Admins, NEW r \in Requests,
              CancelFetch(a, r) \/ CompleteBegin(a, r)
       PROVE  TypeOK'
  <2>1. CASE CancelFetch(a, r)
    BY <2>1 DEF CancelFetch, rows, requests, jobs, runs
  <2>2. CASE CompleteBegin(a, r)
    BY <2>2 DEF CompleteBegin, rows, requests, jobs, runs
  <2> QED
    BY <1>15, <2>1, <2>2
<1>16. ASSUME NEW a \in Admins, CancelUpdate(a) PROVE TypeOK'
  BY <1>16 DEF CancelUpdate, Idle, rows, requests, runs
<1>17. ASSUME NEW a \in Admins, CancelConflict(a) \/ CompleteConflict(a)
       PROVE  TypeOK'
  <2>1. admin' = [admin EXCEPT ![a] = Idle]
    BY <1>17 DEF CancelConflict, CompleteConflict
  <2>2. UNCHANGED <<rows, requests, jobs, runs, counted>>
    BY <1>17 DEF CancelConflict, CompleteConflict
  <2> QED
    BY <2>1, <2>2 DEF Idle, rows, requests, jobs, runs
<1>18. ASSUME NEW a \in Admins, CompleteClaim(a) PROVE TypeOK'
  <2>1. admin[a].job \in Requests
    BY <1>18 DEF CompleteClaim
  <2> QED
    BY <1>18, <2>1, StartRunningType DEF CompleteClaim, Idle, rows, requests
<1>19. ASSUME NEW s \in Services, NEW t \in Targets, Bind(s, t)
       PROVE  TypeOK'
  BY <1>19 DEF Bind, requests, jobs, runs
<1>20. ASSUME NEW t \in Targets, NEW b \in BOOLEAN, SetPilotable(t, b)
       PROVE  TypeOK'
  BY <1>20 DEF SetPilotable, requests, jobs, runs
<1>21. CASE UNCHANGED vars
  BY <1>21 DEF vars, rows, requests, jobs, runs
<1> QED
  BY <1>1, <1>2, <1>3, <1>4, <1>5, <1>6, <1>7, <1>8, <1>9, <1>10, <1>11,
     <1>12, <1>13, <1>14, <1>15, <1>16, <1>17, <1>18, <1>19, <1>20, <1>21
     DEF Next, RequestStep, RunStep, AdminStep

LEMMA TypeInit == Init => TypeOK
BY QueueAssumption DEF Init, TypeOK, Requests, Nobody, NoOne, Actions,
   ServiceStatus, JobStatus, Outcomes, Idle

(* Every column and every thread keeps a value of its type. *)
THEOREM TypeCorrect == Spec => []TypeOK
BY TypeInit, TypeStep, PTL DEF Spec

-----------------------------------------------------------------------------
(* The inductive invariant *)

LEMMA NobodyIsNoRequest == Nobody \notin Requests
BY QueueAssumption DEF Nobody, Requests

(* The other jobs of a service whose slot is held are over or not begun. *)
LEMMA OnlyHolder ==
  ASSUME TypeOK, QueueInv, NEW r \in Requests, Holds(r),
         NEW q \in Requests, q # r, ask[q].service = ask[r].service
  PROVE  status[q] \notin {"pending", "running"} /\ run[q] \in {"none", "done"}
<1>1. ~ Holds(q)
  BY DEF QueueInv, OneHolder
<1> QED
  BY <1>1 DEF TypeOK, QueueInv, StageInv, Holds, Active, JobStatus, Outcomes

(* The row lock stays consistent when its holder ends its transaction. *)
LEMMA ReleaseLockInv ==
  ASSUME TypeOK, LockInv, NEW r \in Requests, NEW end,
         end \notin {"locked", "checked", "clear"}, Release(r, end),
         ask' = ask, svc' = svc
  PROVE  LockInv'
BY NobodyIsNoRequest
   DEF TypeOK, LockInv, LockHeldByItsRequest, InTransaction, Release

(* One lemma per action that touches what the invariant speaks of. *)

LEMMA RequestBeginInv ==
  ASSUME TypeOK, QueueInv, NEW r \in Requests, NEW s \in Services, NEW a \in Actions, RequestBegin(r, s, a)
  PROVE  QueueInv'
<1> USE DEF TypeOK, QueueInv, RequestBegin, rows, jobs, runs
<1>0. /\ status[r] = "none" /\ run[r] = "none" /\ target[r] = NoTarget
      /\ pc'[r] = "begun"
  BY DEF StageInv, BindingInv
<1>1. IndexNeverFires'
  BY DEF IndexNeverFires
<1>2. LockInv'
  BY DEF LockInv, LockHeldByItsRequest, InTransaction
<1>3. BindingInv'
  BY DEF BindingInv
<1>4. StageInv'
  BY DEF StageInv
<1>5. ClearInv'
  BY <1>0 DEF ClearInv, ActiveFor, Active
<1>6. OneHolder'
  BY <1>0 DEF OneHolder, Holds, Active
<1>7. JobMatchesService'
  BY <1>0 DEF JobMatchesService
<1>8. LostInv'
  BY <1>0 DEF LostInv
<1>9. TransitionInv'
  BY <1>0 DEF TransitionInv, Responsible, InTransition
<1> QED
  BY <1>1, <1>2, <1>3, <1>4, <1>5, <1>6, <1>7, <1>8, <1>9 DEF QueueInv

LEMMA RequestLockInv ==
  ASSUME TypeOK, QueueInv, NEW r \in Requests, RequestLock(r)
  PROVE  QueueInv'
<1> USE DEF TypeOK, QueueInv, RequestLock, jobs, runs
<1>1. IndexNeverFires'
  BY DEF IndexNeverFires
<1>2. LockInv'
  BY NobodyIsNoRequest DEF LockInv, LockHeldByItsRequest, InTransaction
<1>3. BindingInv'
  BY DEF BindingInv
<1>4. StageInv'
  BY DEF StageInv
<1>5. ClearInv'
  BY DEF ClearInv, ActiveFor, Active
<1>6. OneHolder'
  BY DEF OneHolder, Holds, Active
<1>7. JobMatchesService'
  BY DEF JobMatchesService
<1>8. LostInv'
  BY DEF LostInv
<1>9. TransitionInv'
  BY DEF TransitionInv, Responsible, InTransition
<1> QED
  BY <1>1, <1>2, <1>3, <1>4, <1>5, <1>6, <1>7, <1>8, <1>9 DEF QueueInv

LEMMA RequestReadTargetInv ==
  ASSUME TypeOK, QueueInv, NEW r \in Requests, RequestReadTarget(r)
  PROVE  QueueInv'
<1> USE DEF TypeOK, QueueInv, RequestReadTarget, Release, jobs, runs
<1>0. status[r] = "none"
  BY DEF StageInv
<1>1. IndexNeverFires'
  BY DEF IndexNeverFires
<1>2. LockInv'
  <2>1. CASE UNCHANGED <<owner, seen>>
    BY <2>1 DEF LockInv, LockHeldByItsRequest, InTransaction
  <2>2. CASE Release(r, "done")
    BY <2>2, ReleaseLockInv
  <2> QED
    BY <2>1, <2>2
<1>3. BindingInv'
  BY DEF BindingInv
<1>4. StageInv'
  BY DEF StageInv
<1>5. ClearInv'
  <2>1. \A q \in Requests : target'[q] = target[q] \/ status[q] = "none"
    BY <1>0
  <2>2. \A q \in Requests : pc'[q] = "clear" =>
          pc[q] = "clear" /\ seen'[q] = seen[q] /\ target'[q] = target[q]
    BY DEF LockInv, InTransaction
  <2> QED
    BY <2>1, <2>2 DEF ClearInv, ActiveFor, Active
<1>6. OneHolder'
  BY DEF OneHolder, Holds, Active
<1>7. JobMatchesService'
  BY DEF JobMatchesService
<1>8. LostInv'
  BY DEF LostInv
<1>9. TransitionInv'
  BY DEF TransitionInv, Responsible, InTransition
<1> QED
  BY <1>1, <1>2, <1>3, <1>4, <1>5, <1>6, <1>7, <1>8, <1>9 DEF QueueInv

LEMMA RequestCheckActiveInv ==
  ASSUME TypeOK, QueueInv, NEW r \in Requests, RequestCheckActive(r)
  PROVE  QueueInv'
<1> USE DEF TypeOK, QueueInv, RequestCheckActive, Release, jobs, runs
<1>1. IndexNeverFires'
  BY DEF IndexNeverFires
<1>2. LockInv'
  <2>1. CASE UNCHANGED <<owner, seen>>
    BY <2>1 DEF LockInv, LockHeldByItsRequest, InTransaction
  <2>2. CASE Release(r, "done")
    BY <2>2, ReleaseLockInv
  <2> QED
    BY <2>1, <2>2
<1>3. BindingInv'
  BY DEF BindingInv
<1>4. StageInv'
  BY DEF StageInv
<1>5. ClearInv'
  BY DEF ClearInv, ActiveFor, Active
<1>6. OneHolder'
  BY DEF OneHolder, Holds, Active
<1>7. JobMatchesService'
  BY DEF JobMatchesService
<1>8. LostInv'
  BY DEF LostInv
<1>9. TransitionInv'
  BY DEF TransitionInv, Responsible, InTransition
<1> QED
  BY <1>1, <1>2, <1>3, <1>4, <1>5, <1>6, <1>7, <1>8, <1>9 DEF QueueInv

LEMMA RequestInsertInv ==
  ASSUME TypeOK, QueueInv, NEW r \in Requests, RequestInsert(r)
  PROVE  QueueInv'
<1> USE DEF TypeOK, QueueInv, RequestInsert, Release, jobs, runs
<1>0. /\ ActiveFor(ask[r].service, target[r]) = {}
      /\ status[r] = "none" /\ run[r] = "none"
      /\ svc[ask[r].service] = Required(ask[r].action)
  BY DEF ClearInv, StageInv, LockInv, InTransaction
<1>00. \A q \in Requests : ask[q].service = ask[r].service => ~ Holds(q)
  BY <1>0 DEF ActiveFor, Active, Holds, LostInv, JobMatchesService, Required,
              Transitional
<1>1. IndexNeverFires'
  BY <1>0 DEF IndexNeverFires
<1>2. LockInv'
  BY ReleaseLockInv
<1>3. BindingInv'
  BY DEF BindingInv
<1>4. StageInv'
  BY <1>0 DEF StageInv, Outcomes
<1>5. ClearInv'
  BY <1>0 DEF ClearInv, ActiveFor, Active, LockInv, InTransaction, BindingInv
<1>6. OneHolder'
  BY <1>0, <1>00 DEF OneHolder, Holds, Active
<1>7. JobMatchesService'
  BY <1>0 DEF JobMatchesService
<1>8. LostInv'
  BY <1>0 DEF LostInv
<1>9. TransitionInv'
  BY DEF TransitionInv, Responsible, InTransition
<1> QED
  BY <1>1, <1>2, <1>3, <1>4, <1>5, <1>6, <1>7, <1>8, <1>9 DEF QueueInv

LEMMA RequestAbortInv ==
  ASSUME TypeOK, QueueInv, NEW r \in Requests, RequestAbort(r)
  PROVE  QueueInv'
<1> USE DEF TypeOK, QueueInv, RequestAbort, Release, jobs, runs
<1>1. IndexNeverFires'
  BY DEF IndexNeverFires
<1>2. LockInv'
  BY ReleaseLockInv
<1>3. BindingInv'
  BY DEF BindingInv
<1>4. StageInv'
  BY DEF StageInv
<1>5. ClearInv'
  BY DEF ClearInv, ActiveFor, Active
<1>6. OneHolder'
  BY DEF OneHolder, Holds, Active
<1>7. JobMatchesService'
  BY DEF JobMatchesService
<1>8. LostInv'
  BY DEF LostInv
<1>9. TransitionInv'
  BY DEF TransitionInv, Responsible, InTransition
<1> QED
  BY <1>1, <1>2, <1>3, <1>4, <1>5, <1>6, <1>7, <1>8, <1>9 DEF QueueInv

LEMMA StartRunningInv ==
  ASSUME TypeOK, QueueInv, NEW r \in Requests, status[r] = "pending", StartRunning(r), UNCHANGED <<rows, requests>>
  PROVE  QueueInv'
<1> USE DEF TypeOK, QueueInv, StartRunning, rows, requests
<1>1. IndexNeverFires'
  BY DEF IndexNeverFires
<1>2. LockInv'
  BY DEF LockInv, LockHeldByItsRequest, InTransaction
<1>3. BindingInv'
  BY DEF BindingInv
<1>4. StageInv'
  BY DEF StageInv, Outcomes
<1>5. ClearInv'
  BY DEF ClearInv, ActiveFor, Active
<1>6. OneHolder'
  BY DEF OneHolder, Holds, Active
<1>7. JobMatchesService'
  BY DEF JobMatchesService
<1>8. LostInv'
  BY DEF LostInv
<1>9. TransitionInv'
  BY DEF TransitionInv, Responsible, InTransition, StageInv
<1> QED
  BY <1>1, <1>2, <1>3, <1>4, <1>5, <1>6, <1>7, <1>8, <1>9 DEF QueueInv

LEMMA RunIdentifyInv ==
  ASSUME TypeOK, QueueInv, NEW r \in Requests, RunIdentify(r)
  PROVE  QueueInv'
<1> USE DEF TypeOK, QueueInv, RunIdentify, rows, requests
<1>0. status[r] = "running"
  BY DEF StageInv, JobStatus, Outcomes
<1>1. IndexNeverFires'
  BY DEF IndexNeverFires
<1>2. LockInv'
  BY DEF LockInv, LockHeldByItsRequest, InTransaction
<1>3. BindingInv'
  BY DEF BindingInv
<1>4. StageInv'
  BY DEF StageInv
<1>5. ClearInv'
  BY DEF ClearInv, ActiveFor, Active
<1>6. OneHolder'
  BY <1>0 DEF OneHolder, Holds, Active
<1>7. JobMatchesService'
  BY DEF JobMatchesService
<1>8. LostInv'
  BY <1>0 DEF LostInv
<1>9. TransitionInv'
  BY DEF TransitionInv, Responsible, InTransition
<1> QED
  BY <1>1, <1>2, <1>3, <1>4, <1>5, <1>6, <1>7, <1>8, <1>9 DEF QueueInv

LEMMA RunMarkStartedInv ==
  ASSUME TypeOK, QueueInv, NEW r \in Requests, RunMarkStarted(r)
  PROVE  QueueInv'
<1> USE DEF TypeOK, QueueInv, RunMarkStarted, requests, jobs
<1>0. /\ Holds(r)
      /\ \A q \in Requests :
           q # r /\ ask[q].service = ask[r].service
             => status[q] # "pending" /\ run[q] \in {"none", "done"}
  <2>1. status[r] = "running" \/ run[r] = "finished"
    BY DEF StageInv, JobStatus, Outcomes
  <2>2. Holds(r)
    BY <2>1 DEF Holds, Active
  <2> QED
    BY <2>2, OnlyHolder
<1>1. IndexNeverFires'
  BY DEF IndexNeverFires
<1>2. LockInv'
  BY NobodyIsNoRequest DEF LockInv, LockHeldByItsRequest, InTransaction
<1>3. BindingInv'
  BY DEF BindingInv
<1>4. StageInv'
  BY DEF StageInv
<1>5. ClearInv'
  BY DEF ClearInv, ActiveFor, Active
<1>6. OneHolder'
  BY DEF OneHolder, Holds, Active, StageInv, JobStatus, Outcomes
<1>7. JobMatchesService'
  <2> SUFFICES ASSUME NEW q \in Requests
               PROVE  JobMatchesService!(q)'
    BY DEF JobMatchesService
  <2>1. CASE q = r
    BY <2>1 DEF StageInv
  <2>2. CASE q # r /\ ask[q].service = ask[r].service
    BY <1>0, <2>2
  <2>3. CASE ask[q].service # ask[r].service
    BY <2>3 DEF JobMatchesService
  <2> QED
    BY <2>1, <2>2, <2>3
<1>8. LostInv'
  BY <1>0 DEF LostInv
<1>9. TransitionInv'
  BY DEF TransitionInv, Responsible, InTransition
<1> QED
  BY <1>1, <1>2, <1>3, <1>4, <1>5, <1>6, <1>7, <1>8, <1>9 DEF QueueInv

LEMMA RunExecuteInv ==
  ASSUME TypeOK, QueueInv, NEW r \in Requests, RunExecute(r)
  PROVE  QueueInv'
<1> USE DEF TypeOK, QueueInv, RunExecute, rows, requests, jobs
<1>1. IndexNeverFires'
  BY DEF IndexNeverFires
<1>2. LockInv'
  BY DEF LockInv, LockHeldByItsRequest, InTransaction
<1>3. BindingInv'
  BY DEF BindingInv
<1>4. StageInv'
  BY DEF StageInv
<1>5. ClearInv'
  BY DEF ClearInv, ActiveFor, Active
<1>6. OneHolder'
  BY DEF OneHolder, Holds, Active
<1>7. JobMatchesService'
  BY DEF JobMatchesService
<1>8. LostInv'
  BY DEF LostInv
<1>9. TransitionInv'
  BY DEF TransitionInv, Responsible, InTransition
<1> QED
  BY <1>1, <1>2, <1>3, <1>4, <1>5, <1>6, <1>7, <1>8, <1>9 DEF QueueInv

LEMMA RunFinishInv ==
  ASSUME TypeOK, QueueInv, NEW r \in Requests, RunFinish(r)
  PROVE  QueueInv'
<1> USE DEF TypeOK, QueueInv, RunFinish, rows, requests
<1>0. status[r] = "running"
  BY DEF StageInv, JobStatus, Outcomes
<1>1. IndexNeverFires'
  BY DEF IndexNeverFires
<1>2. LockInv'
  BY DEF LockInv, LockHeldByItsRequest, InTransaction
<1>3. BindingInv'
  BY DEF BindingInv
<1>4. StageInv'
  BY <1>0 DEF StageInv, Outcomes
<1>5. ClearInv'
  BY DEF ClearInv, ActiveFor, Active
<1>6. OneHolder'
  BY <1>0 DEF OneHolder, Holds, Active
<1>7. JobMatchesService'
  BY <1>0 DEF JobMatchesService, Outcomes
<1>8. LostInv'
  BY <1>0 DEF LostInv, Outcomes
<1>9. TransitionInv'
  BY DEF TransitionInv, Responsible, InTransition
<1> QED
  BY <1>1, <1>2, <1>3, <1>4, <1>5, <1>6, <1>7, <1>8, <1>9 DEF QueueInv

LEMMA RunSettleInv ==
  ASSUME TypeOK, QueueInv, NEW r \in Requests, RunSettle(r)
  PROVE  QueueInv'
<1> USE DEF TypeOK, QueueInv, RunSettle, requests, jobs
<1>0. /\ Holds(r)
      /\ \A q \in Requests :
           q # r /\ ask[q].service = ask[r].service
             => status[q] # "pending" /\ run[q] \in {"none", "done"}
  <2>1. status[r] = "running" \/ run[r] = "finished"
    BY DEF StageInv, JobStatus, Outcomes
  <2>2. Holds(r)
    BY <2>1 DEF Holds, Active
  <2> QED
    BY <2>2, OnlyHolder
<1>1. IndexNeverFires'
  BY DEF IndexNeverFires
<1>2. LockInv'
  BY NobodyIsNoRequest DEF LockInv, LockHeldByItsRequest, InTransaction
<1>3. BindingInv'
  BY DEF BindingInv
<1>4. StageInv'
  BY DEF StageInv
<1>5. ClearInv'
  BY DEF ClearInv, ActiveFor, Active
<1>6. OneHolder'
  BY DEF OneHolder, Holds, Active
<1>7. JobMatchesService'
  <2> SUFFICES ASSUME NEW q \in Requests
               PROVE  JobMatchesService!(q)'
    BY DEF JobMatchesService
  <2>1. CASE q = r
    BY <2>1 DEF StageInv
  <2>2. CASE q # r /\ ask[q].service = ask[r].service
    BY <1>0, <2>2
  <2>3. CASE ask[q].service # ask[r].service
    BY <2>3 DEF JobMatchesService
  <2> QED
    BY <2>1, <2>2, <2>3
<1>8. LostInv'
  BY <1>0 DEF LostInv
<1>9. TransitionInv'
  BY DEF TransitionInv, Responsible, InTransition, Final
<1> QED
  BY <1>1, <1>2, <1>3, <1>4, <1>5, <1>6, <1>7, <1>8, <1>9 DEF QueueInv

LEMMA RunLostInv ==
  ASSUME TypeOK, QueueInv, NEW r \in Requests, RunLost(r)
  PROVE  QueueInv'
<1> USE DEF TypeOK, QueueInv, RunLost, rows, requests, jobs
<1>0. \/ svc[ask[r].service] = Transitional(ask[r].action)
      \/ /\ status[r] = "running"
         /\ svc[ask[r].service] = Required(ask[r].action)
  BY DEF StageInv, JobMatchesService, JobStatus, Outcomes
<1>1. IndexNeverFires'
  BY DEF IndexNeverFires
<1>2. LockInv'
  BY DEF LockInv, LockHeldByItsRequest, InTransaction
<1>3. BindingInv'
  BY DEF BindingInv
<1>4. StageInv'
  BY DEF StageInv
<1>5. ClearInv'
  BY DEF ClearInv, ActiveFor, Active
<1>6. OneHolder'
  BY DEF OneHolder, Holds, Active, StageInv, JobStatus, Outcomes
<1>7. JobMatchesService'
  BY DEF JobMatchesService
<1>8. LostInv'
  BY <1>0 DEF LostInv
<1>9. TransitionInv'
  BY DEF TransitionInv, Responsible, InTransition
<1> QED
  BY <1>1, <1>2, <1>3, <1>4, <1>5, <1>6, <1>7, <1>8, <1>9 DEF QueueInv

LEMMA CancelUpdateInv ==
  ASSUME TypeOK, QueueInv, NEW a \in Admins, CancelUpdate(a)
  PROVE  QueueInv'
<1> USE DEF TypeOK, QueueInv, CancelUpdate, rows, requests, runs
<1>1. IndexNeverFires'
  BY DEF IndexNeverFires
<1>2. LockInv'
  BY DEF LockInv, LockHeldByItsRequest, InTransaction
<1>3. BindingInv'
  BY DEF BindingInv
<1>4. StageInv'
  BY DEF StageInv, Outcomes
<1>5. ClearInv'
  BY DEF ClearInv, ActiveFor, Active
<1>6. OneHolder'
  BY DEF OneHolder, Holds, Active
<1>7. JobMatchesService'
  BY DEF JobMatchesService
<1>8. LostInv'
  BY DEF LostInv
<1>9. TransitionInv'
  BY DEF TransitionInv, Responsible, InTransition
<1> QED
  BY <1>1, <1>2, <1>3, <1>4, <1>5, <1>6, <1>7, <1>8, <1>9 DEF QueueInv

LEMMA BindInv ==
  ASSUME TypeOK, QueueInv, NEW s \in Services, NEW t \in Targets, Bind(s, t)
  PROVE  QueueInv'
<1> USE DEF TypeOK, QueueInv, Bind, requests, jobs, runs
<1>1. IndexNeverFires'
  BY DEF IndexNeverFires
<1>2. LockInv'
  BY DEF LockInv, LockHeldByItsRequest, InTransaction
<1>3. BindingInv'
  BY DEF BindingInv
<1>4. StageInv'
  BY DEF StageInv
<1>5. ClearInv'
  BY DEF ClearInv, ActiveFor, Active
<1>6. OneHolder'
  BY DEF OneHolder, Holds, Active
<1>7. JobMatchesService'
  BY DEF JobMatchesService
<1>8. LostInv'
  BY DEF LostInv
<1>9. TransitionInv'
  BY DEF TransitionInv, Responsible, InTransition
<1> QED
  BY <1>1, <1>2, <1>3, <1>4, <1>5, <1>6, <1>7, <1>8, <1>9 DEF QueueInv

(* Actions that touch nothing the invariant speaks of. *)
LEMMA QueueFrame ==
  ASSUME TypeOK, QueueInv, UNCHANGED <<svc, bound, owner, requests, jobs, runs>>
  PROVE  QueueInv'
BY DEF QueueInv, IndexNeverFires, LockInv, LockHeldByItsRequest, InTransaction,
   BindingInv, StageInv, ClearInv, ActiveFor, Active, OneHolder, Holds,
   JobMatchesService, LostInv, TransitionInv, Responsible, InTransition,
   requests, jobs, runs

LEMMA QueueStep == TypeOK /\ QueueInv /\ [Next]_vars => QueueInv'
<1> SUFFICES ASSUME TypeOK, QueueInv, [Next]_vars PROVE QueueInv'
  OBVIOUS
<1>1. ASSUME NEW r \in Requests, NEW s \in Services, NEW a \in Actions,
             RequestBegin(r, s, a)
      PROVE  QueueInv'
  BY <1>1, RequestBeginInv
<1>2. ASSUME NEW r \in Requests, RequestStep(r) \/ RequestAbort(r)
      PROVE  QueueInv'
  BY <1>2, RequestLockInv, RequestReadTargetInv, RequestCheckActiveInv,
     RequestInsertInv, RequestAbortInv DEF RequestStep
<1>3. ASSUME NEW r \in Requests, RunStep(r) \/ RunLost(r) PROVE QueueInv'
  BY <1>3, RunIdentifyInv, RunMarkStartedInv, RunExecuteInv, RunFinishInv,
     RunSettleInv, RunLostInv DEF RunStep
<1>4. ASSUME NEW i \in Instances, ClaimBegin(i) PROVE QueueInv'
  BY <1>4, QueueFrame DEF ClaimBegin, rows
<1>5. ASSUME NEW i \in Instances, ClaimTake(i) PROVE QueueInv'
  <2>1. CASE UNCHANGED <<jobs, runs>>
    BY <1>5, <2>1, QueueFrame DEF ClaimTake, rows
  <2>2. ASSUME NEW r \in Requests, Claimable(r), StartRunning(r)
        PROVE  QueueInv'
    <3>1. status[r] = "pending"
      BY <2>2 DEF Claimable, Eligible
    <3> QED
      BY <1>5, <2>2, <3>1, StartRunningInv DEF ClaimTake
  <2> QED
    BY <1>5, <2>1, <2>2 DEF ClaimTake
<1>6. ASSUME NEW a \in Admins, CompleteClaim(a) PROVE QueueInv'
  <2>1. admin[a].job \in Requests
    BY <1>6 DEF CompleteClaim, TypeOK, Idle
  <2> QED
    BY <1>6, <2>1, StartRunningInv DEF CompleteClaim
<1>7. ASSUME NEW a \in Admins, CancelUpdate(a) PROVE QueueInv'
  BY <1>7, CancelUpdateInv
<1>8. ASSUME NEW a \in Admins, CancelConflict(a) \/ CompleteConflict(a)
      PROVE  QueueInv'
  BY <1>8, QueueFrame DEF CancelConflict, CompleteConflict, rows
<1>9. ASSUME NEW a \in Admins, NEW r \in Requests,
             CancelFetch(a, r) \/ CompleteBegin(a, r)
      PROVE  QueueInv'
  BY <1>9, QueueFrame DEF CancelFetch, CompleteBegin, rows
<1>10. ASSUME NEW s \in Services, NEW t \in Targets, Bind(s, t)
       PROVE  QueueInv'
  BY <1>10, BindInv
<1>11. ASSUME NEW t \in Targets, NEW b \in BOOLEAN, SetPilotable(t, b)
       PROVE  QueueInv'
  BY <1>11, QueueFrame DEF SetPilotable
<1>12. CASE UNCHANGED vars
  BY <1>12, QueueFrame DEF vars, rows
<1> QED
  BY <1>1, <1>2, <1>3, <1>4, <1>5, <1>6, <1>7, <1>8, <1>9, <1>10, <1>11, <1>12
     DEF Next, AdminStep

LEMMA QueueInit == Init => QueueInv
BY NobodyIsNoRequest DEF Init, QueueInv, IndexNeverFires, LockInv,
   LockHeldByItsRequest, InTransaction, BindingInv, StageInv, ClearInv,
   OneHolder, Holds, Active, JobMatchesService, LostInv, TransitionInv,
   InTransition, Outcomes

(* The database stays consistent across every interleaving of requests, runs,
   administrators and synchronisations. *)
THEOREM QueueInvariant == Spec => [](TypeOK /\ QueueInv)
<1>1. Init => TypeOK /\ QueueInv
  BY TypeInit, QueueInit
<1>2. TypeOK /\ QueueInv /\ [Next]_vars => TypeOK' /\ QueueInv'
  BY TypeStep, QueueStep
<1> QED
  BY <1>1, <1>2, PTL DEF Spec

-----------------------------------------------------------------------------
(* What follows from it *)

(* request_job_for_service_atomically never meets a unique index. *)
THEOREM InsertNeverRefused == Spec => []IndexNeverFires
<1>1. QueueInv => IndexNeverFires
  BY DEF QueueInv
<1> QED
  BY <1>1, QueueInvariant, PTL

(* The status of a service is the one its job accounts for. *)
THEOREM ServiceAgreesWithJob == Spec => []JobMatchesService
<1>1. QueueInv => JobMatchesService
  BY DEF QueueInv
<1> QED
  BY <1>1, QueueInvariant, PTL

LEMMA OneResponsible ==
  ASSUME TypeOK, QueueInv PROVE TransitionHasOneRun
<1> SUFFICES ASSUME NEW s \in Services, InTransition(s)
             PROVE  /\ Cardinality(Responsible(s)) = 1
                    /\ \A r \in Requests : ask[r].service = s
                                            => status[r] # "pending"
  BY DEF TransitionHasOneRun
<1>1. PICK r \in Responsible(s) : TRUE
  BY DEF QueueInv, TransitionInv
<1>2. \A q \in Responsible(s) : q \in Requests /\ ask[q].service = s /\ Holds(q)
  BY DEF TypeOK, QueueInv, StageInv, Responsible, Holds, Active, JobStatus,
         Outcomes
<1>3. Responsible(s) = {r}
  BY <1>1, <1>2 DEF QueueInv, OneHolder
<1>4. Cardinality(Responsible(s)) = 1
  BY <1>3, FS_Singleton
<1>5. \A q \in Requests : ask[q].service = s => status[q] # "pending"
  BY DEF TypeOK, QueueInv, JobMatchesService, InTransition, Required
<1> QED
  BY <1>4, <1>5

(* A service in a transitional status has one run answerable for it. *)
THEOREM TransitionAnswered == Spec => []TransitionHasOneRun
<1>1. TypeOK /\ QueueInv => TransitionHasOneRun
  BY OneResponsible
<1> QED
  BY <1>1, QueueInvariant, PTL

-----------------------------------------------------------------------------
(* Action properties *)

(* Only five actions write jobs.status. *)
LEMMA StatusStep ==
  ASSUME TypeOK, QueueInv, [Next]_vars, NEW r \in Requests,
         status'[r] # status[r]
  PROVE  <<status[r], status'[r]>> \in JobMoves
<1>1. ASSUME NEW q \in Requests, RequestInsert(q) PROVE status[r] = "none" /\ status'[r] = "pending"
  BY <1>1 DEF RequestInsert, TypeOK, QueueInv, StageInv
<1>2. ASSUME NEW q \in Requests, StartRunning(q), status[q] = "pending"
      PROVE  status[r] = "pending" /\ status'[r] = "running"
  BY <1>2 DEF StartRunning, TypeOK
<1>3. ASSUME NEW q \in Requests, RunFinish(q)
      PROVE  status[r] = "running" /\ status'[r] \in Outcomes
  BY <1>3 DEF RunFinish, TypeOK, QueueInv, StageInv
<1>4. ASSUME NEW a \in Admins, CancelUpdate(a)
      PROVE  status[r] = "pending" /\ status'[r] = "cancelled"
  BY <1>4 DEF CancelUpdate, TypeOK, Idle
<1>5. ASSUME NEW i \in Instances, ClaimTake(i)
      PROVE  status[r] = "pending" /\ status'[r] = "running"
  BY <1>5, <1>2 DEF ClaimTake, Claimable, Eligible, jobs
<1>6. ASSUME NEW a \in Admins, CompleteClaim(a)
      PROVE  status[r] = "pending" /\ status'[r] = "running"
  <2>1. admin[a].job \in Requests
    BY <1>6 DEF CompleteClaim, TypeOK, Idle
  <2> QED
    BY <1>6, <2>1, <1>2 DEF CompleteClaim
<1>7. CASE UNCHANGED status
  BY <1>7
<1>8. \/ \E q \in Requests : RequestInsert(q) \/ RunFinish(q)
      \/ \E a \in Admins : CancelUpdate(a) \/ CompleteClaim(a)
      \/ \E i \in Instances : ClaimTake(i)
      \/ UNCHANGED status
  BY DEF Next, RequestStep, RunStep, AdminStep, RequestBegin, RequestLock,
         RequestReadTarget, RequestCheckActive, RequestAbort, ClaimBegin,
         RunIdentify, RunMarkStarted, RunExecute, RunSettle, RunLost,
         CancelFetch, CancelConflict, CompleteBegin, CompleteConflict, Bind,
         SetPilotable, vars, jobs
<1> QED
  BY <1>1, <1>3, <1>4, <1>5, <1>6, <1>7, <1>8 DEF JobMoves, Outcomes

(* A jobs row is never taken back from the thread that runs it, nor rewritten
   once it is terminal. *)
THEOREM JobRowsMoveForward == Spec => JobLifeCycle
<1>1. TypeOK /\ QueueInv /\ [Next]_vars =>
        [\A r \in Requests : status'[r] # status[r]
                               => <<status[r], status'[r]>> \in JobMoves]_vars
  BY StatusStep
<1> QED
  BY <1>1, QueueInvariant, PTL DEF Spec, JobLifeCycle

(* Only the thread of a job writes services.status, on entering and on leaving
   the transition. *)
LEMMA ServiceStep ==
  ASSUME TypeOK, QueueInv, [Next]_vars, NEW s \in Services, svc'[s] # svc[s]
  PROVE  <<svc[s], svc'[s]>> \in ServiceMoves
<1>1. ASSUME NEW r \in Requests, RunMarkStarted(r)
      PROVE  <<svc[s], svc'[s]>> \in ServiceMoves
  <2>1. s = ask[r].service /\ svc'[s] = Transitional(ask[r].action)
    BY <1>1 DEF RunMarkStarted, TypeOK
  <2>2. svc[s] = Required(ask[r].action)
    BY <1>1, <2>1 DEF RunMarkStarted, QueueInv, JobMatchesService
  <2> QED
    BY <2>1, <2>2 DEF TypeOK, Actions, Required, Transitional, ServiceMoves
<1>2. ASSUME NEW r \in Requests, RunSettle(r)
      PROVE  <<svc[s], svc'[s]>> \in ServiceMoves
  <2>1. s = ask[r].service /\ svc'[s] = Final(ask[r].action, outcome[r])
    BY <1>2 DEF RunSettle, TypeOK
  <2>2. svc[s] = Transitional(ask[r].action) /\ outcome[r] \in Outcomes
    BY <1>2, <2>1 DEF RunSettle, QueueInv, JobMatchesService, StageInv
  <2> QED
    BY <2>1, <2>2 DEF TypeOK, Actions, Outcomes, Transitional, Final,
                      ServiceMoves
<1>3. \/ \E r \in Requests : RunMarkStarted(r) \/ RunSettle(r)
      \/ UNCHANGED svc
  BY DEF Next, RequestStep, RunStep, AdminStep, RequestBegin, RequestLock,
         RequestReadTarget, RequestCheckActive, RequestInsert, RequestAbort,
         ClaimBegin, ClaimTake, RunIdentify, RunExecute, RunFinish, RunLost,
         CancelFetch, CancelUpdate, CancelConflict, CompleteBegin,
         CompleteClaim, CompleteConflict, Bind, SetPilotable, vars, rows
<1> QED
  BY <1>1, <1>2, <1>3

(* A service goes off, starting, on, stopping, off, or out of the cycle. *)
THEOREM ServicesFollowTheCycle == Spec => ServiceLifeCycle
<1>1. TypeOK /\ QueueInv /\ [Next]_vars =>
        [\A s \in Services : svc'[s] # svc[s]
                               => <<svc[s], svc'[s]>> \in ServiceMoves]_vars
  BY ServiceStep
<1> QED
  BY <1>1, QueueInvariant, PTL DEF Spec, ServiceLifeCycle

(* A thread owns no identifier it did not find or draw once. *)
LEMMA IdentifierStep ==
  ASSUME TypeOK, QueueInv, [Next]_vars, NEW r \in Requests
  PROVE  /\ opid[r] # "none" => opid'[r] = opid[r]
         /\ run'[r] = "started" => opid[r] # "none"
<1>1. ASSUME NEW q \in Requests, StartRunning(q)
      PROVE  /\ opid[r] # "none" => opid'[r] = opid[r]
             /\ run'[r] = "started" => run[r] # "none"
  BY <1>1 DEF StartRunning, TypeOK
<1>2. /\ opid[r] # "none" => opid'[r] = opid[r]
      /\ run'[r] = "started" => run[r] # "none"
  <2>1. ASSUME NEW q \in Requests, RunStep(q) \/ RunLost(q)
        PROVE  /\ opid[r] # "none" => opid'[r] = opid[r]
               /\ run'[r] = "started" => run[r] # "none"
    BY <2>1 DEF RunStep, RunIdentify, RunMarkStarted, RunExecute, RunFinish,
                RunSettle, RunLost, TypeOK, jobs
  <2>2. ASSUME NEW a \in Admins, CompleteClaim(a)
        PROVE  /\ opid[r] # "none" => opid'[r] = opid[r]
               /\ run'[r] = "started" => run[r] # "none"
    <3>1. admin[a].job \in Requests
      BY <2>2 DEF CompleteClaim, TypeOK, Idle
    <3> QED
      BY <2>2, <3>1, <1>1 DEF CompleteClaim
  <2>3. ASSUME NEW i \in Instances, ClaimTake(i)
        PROVE  /\ opid[r] # "none" => opid'[r] = opid[r]
               /\ run'[r] = "started" => run[r] # "none"
    BY <2>3, <1>1 DEF ClaimTake, jobs, runs
  <2>4. CASE UNCHANGED <<opid, run>>
    BY <2>4
  <2>5. \/ \E q \in Requests : RunStep(q) \/ RunLost(q)
        \/ \E a \in Admins : CompleteClaim(a)
        \/ \E i \in Instances : ClaimTake(i)
        \/ UNCHANGED <<opid, run>>
    BY DEF Next, RequestStep, AdminStep, RequestBegin, RequestLock,
           RequestReadTarget, RequestCheckActive, RequestInsert, RequestAbort,
           ClaimBegin, CancelFetch, CancelUpdate, CancelConflict,
           CompleteBegin, CompleteConflict, Bind, SetPilotable, vars, jobs, runs
  <2> QED
    BY <2>1, <2>2, <2>3, <2>4, <2>5
<1> QED
  BY <1>2 DEF QueueInv, StageInv

(* The identifier an Agent sees for a job never changes. *)
THEOREM IdentifierIsStable == Spec => OneOperationId
<1>1. TypeOK /\ QueueInv /\ [Next]_vars =>
        [\A r \in Requests :
           /\ opid[r] # "none" => opid'[r] = opid[r]
           /\ run'[r] = "started" => opid[r] # "none"]_vars
  BY IdentifierStep
<1> QED
  BY <1>1, QueueInvariant, PTL DEF Spec, OneOperationId

-----------------------------------------------------------------------------
(* The count of a claim and the claim are two statements; what makes them enough
   is that the advisory lock lets one claimer at a time stand between the two. *)

(* The quotas of the automatic workers *)

AutoRunning == Running \cap auto

(* A job the automatic worker took does not become pending again. *)
AutoInv == \A r \in auto : status[r] \notin {"none", "pending"}

(* Between the count and the claim, one claimer at most is at work, and it has
   seen room: what others start meanwhile they do not start automatically. *)
RoomInv ==
  /\ \A i, j \in counted : i = j
  /\ counted # {} => Cardinality(AutoRunning) < MaxConcurrency

QuotaInv == AutoInv /\ RoomInv /\ GlobalQuota /\ ConnectionQuota

LEMMA FewJobs ==
  ASSUME NEW S, S \subseteq Requests
  PROVE  IsFiniteSet(S) /\ Cardinality(S) \in Nat
<1>1. IsFiniteSet(Requests)
  BY QueueAssumption, FS_Interval DEF Requests
<1>2. IsFiniteSet(S)
  BY <1>1, FS_Subset
<1> QED
  BY <1>2, FS_CardinalityType

LEMMA FewerJobs ==
  ASSUME NEW S, NEW U, U \subseteq Requests, S \subseteq U
  PROVE  Cardinality(S) <= Cardinality(U)
BY FewJobs, FS_Subset

LEMMA OneMoreJob ==
  ASSUME NEW S, NEW U, NEW r \in Requests, U \subseteq Requests,
         S \subseteq U \cup {r}
  PROVE  Cardinality(S) <= Cardinality(U) + 1
<1>1. Cardinality(U \cup {r}) <= Cardinality(U) + 1
  BY FewJobs, FS_AddElement
<1>2. Cardinality(S) <= Cardinality(U \cup {r})
  BY FewerJobs
<1>3. Cardinality(U) \in Nat /\ Cardinality(U \cup {r}) \in Nat
      /\ Cardinality(S) \in Nat
  BY FewJobs
<1> QED
  BY <1>1, <1>2, <1>3

LEMMA AutoStep ==
  ASSUME TypeOK, QueueInv, AutoInv, [Next]_vars PROVE AutoInv'
<1>1. ASSUME NEW r \in auto PROVE status'[r] \notin {"none", "pending"}
  <2>1. r \in Requests /\ status[r] \notin {"none", "pending"}
    BY DEF TypeOK, AutoInv
  <2>2. status'[r] # status[r] => <<status[r], status'[r]>> \in JobMoves
    BY <2>1, StatusStep
  <2> QED
    BY <2>1, <2>2 DEF JobMoves
<1>2. CASE auto' = auto
  BY <1>1, <1>2 DEF AutoInv
<1>3. ASSUME NEW i \in Instances, ClaimTake(i) PROVE AutoInv'
  BY <1>1, <1>3 DEF AutoInv, ClaimTake, StartRunning, TypeOK, jobs
<1>4. auto' = auto \/ \E i \in Instances : ClaimTake(i)
  BY DEF Next, RequestStep, RunStep, AdminStep, RequestBegin, RequestLock,
         RequestReadTarget, RequestCheckActive, RequestInsert, RequestAbort,
         ClaimBegin, RunIdentify, RunMarkStarted, RunExecute, RunFinish,
         RunSettle, RunLost, CancelFetch, CancelUpdate, CancelConflict,
         CompleteBegin, CompleteClaim, CompleteConflict, Bind, SetPilotable,
         vars, jobs
<1> QED
  BY <1>2, <1>3, <1>4

(* The target of a job stays what the request read. *)
LEMMA TargetStep ==
  ASSUME TypeOK, QueueInv, [Next]_vars, NEW r \in Requests, status[r] # "none"
  PROVE  target'[r] = target[r]
<1>1. pc[r] = "done"
  BY DEF QueueInv, StageInv
<1>2. ASSUME NEW q \in Requests, \/ RequestReadTarget(q)
                                 \/ RequestCheckActive(q)
                                 \/ RequestAbort(q)
      PROVE  target'[r] = target[r]
  <2>1. q # r
    BY <1>1, <1>2 DEF RequestReadTarget, RequestCheckActive, RequestAbort
  <2> QED
    BY <1>2, <2>1 DEF RequestReadTarget, RequestCheckActive, RequestAbort, TypeOK
<1>3. \/ \E q \in Requests : \/ RequestReadTarget(q)
                              \/ RequestCheckActive(q)
                              \/ RequestAbort(q)
      \/ target' = target
  BY DEF Next, RequestStep, RunStep, AdminStep, RequestBegin, RequestLock,
         RequestInsert, ClaimBegin, ClaimTake, RunIdentify, RunMarkStarted,
         RunExecute, RunFinish, RunSettle, RunLost, CancelFetch, CancelUpdate,
         CancelConflict, CompleteBegin, CompleteClaim, CompleteConflict, Bind,
         SetPilotable, vars, requests
<1> QED
  BY <1>2, <1>3

(* Every step but an automatic claim leaves the automatic jobs as they are, or
   ends one; none moves a job to another target. *)
LEMMA OthersStartNothing ==
  ASSUME TypeOK, QueueInv, AutoInv, [Next]_vars, auto' = auto
  PROVE  /\ AutoRunning' \subseteq AutoRunning
         /\ \A c \in Connections :
              (RunningOn(c) \cap auto)' \subseteq RunningOn(c) \cap auto
<1>1. ASSUME NEW r \in Requests, r \in auto, status'[r] = "running"
      PROVE  status[r] = "running" /\ target'[r] = target[r]
  <2>1. status[r] \notin {"none", "pending"}
    BY <1>1 DEF AutoInv
  <2>2. status[r] = "running"
    BY <1>1, <2>1, StatusStep DEF JobMoves
  <2> QED
    BY <2>1, <2>2, TargetStep
<1> QED
  BY <1>1 DEF AutoRunning, Running, RunningOn

LEMMA ClaimAddsOne ==
  ASSUME TypeOK, QueueInv, NEW i \in Instances, ClaimTake(i), ~ (auto' = auto)
  PROVE  \E r \in Requests :
           /\ ConnectionCapacityAvailable(target[r])
           /\ Running' = Running \cup {r}
           /\ auto' = auto \cup {r}
           /\ target' = target
<1>1. PICK r \in Requests : /\ Claimable(r)
                            /\ StartRunning(r)
                            /\ auto' = auto \cup {r}
  BY DEF ClaimTake, jobs
<1>2. Running' = Running \cup {r}
  BY <1>1 DEF StartRunning, Running, TypeOK
<1> QED
  BY <1>1, <1>2 DEF ClaimTake, Claimable, Eligible, requests

LEMMA QuotaStep == TypeOK /\ QueueInv /\ QuotaInv /\ [Next]_vars => QuotaInv'
<1> SUFFICES ASSUME TypeOK, QueueInv, QuotaInv, [Next]_vars PROVE QuotaInv'
  OBVIOUS
<1> USE DEF QuotaInv
<1>1. AutoInv'
  BY AutoStep
<1>2. AutoRunning \subseteq Requests /\ AutoRunning' \subseteq Requests
      /\ Running \subseteq Requests
  BY DEF AutoRunning, Running
<1>3. Cardinality(AutoRunning) \in Nat /\ Cardinality(AutoRunning') \in Nat
      /\ Cardinality(Running) \in Nat
  BY <1>2, FewJobs
<1>4. ASSUME NEW c \in Connections
      PROVE  /\ RunningOn(c) \cap auto \subseteq RunningOn(c)
             /\ RunningOn(c) \subseteq Requests
             /\ (RunningOn(c) \cap auto)' \subseteq Requests
  BY DEF RunningOn, Running
<1>5. CASE auto' = auto
  <2>1. Cardinality(AutoRunning') <= Cardinality(AutoRunning)
    BY <1>2, <1>5, OthersStartNothing, FewerJobs
  <2>2. GlobalQuota'
    BY <1>3, <2>1, QueueAssumption DEF GlobalQuota, AutoRunning
  <2>3. ASSUME NEW c \in Connections
        PROVE  Cardinality((RunningOn(c) \cap auto)') <= MaxPerConnection
    <3>1. Cardinality((RunningOn(c) \cap auto)') <= Cardinality(RunningOn(c) \cap auto)
      BY <1>4, <1>5, OthersStartNothing, FewerJobs
    <3>2. Cardinality(RunningOn(c) \cap auto) <= MaxPerConnection
      BY DEF ConnectionQuota
    <3>3. Cardinality((RunningOn(c) \cap auto)') \in Nat
          /\ Cardinality(RunningOn(c) \cap auto) \in Nat
      BY <1>4, FewJobs
    <3> QED
      BY <3>1, <3>2, <3>3, QueueAssumption
  <2>4. RoomInv'
    <3>1. CASE counted' \subseteq counted
      BY <1>3, <2>1, <3>1, QueueAssumption DEF RoomInv
    <3>2. ASSUME NEW i \in Instances, ClaimBegin(i) PROVE RoomInv'
      <4>1. counted' = {i}
        BY <3>2 DEF ClaimBegin
      <4>2. Cardinality(Running) < MaxConcurrency
        BY <3>2 DEF ClaimBegin, GlobalCapacityAvailable
      <4>3. Cardinality(AutoRunning) <= Cardinality(Running)
        BY <1>2, FewerJobs DEF AutoRunning
      <4> QED
        BY <1>3, <2>1, <4>1, <4>2, <4>3, QueueAssumption DEF RoomInv
    <3>3. counted' \subseteq counted \/ \E i \in Instances : ClaimBegin(i)
      BY DEF Next, RequestStep, RunStep, AdminStep, RequestBegin, RequestLock,
             RequestReadTarget, RequestCheckActive, RequestInsert,
             RequestAbort, ClaimTake, RunIdentify, RunMarkStarted, RunExecute,
             RunFinish, RunSettle, RunLost, CancelFetch, CancelUpdate,
             CancelConflict, CompleteBegin, CompleteClaim, CompleteConflict,
             Bind, SetPilotable, vars
    <3> QED
      BY <3>1, <3>2, <3>3
  <2> QED
    BY <1>1, <2>2, <2>3, <2>4 DEF ConnectionQuota
<1>6. ASSUME NEW i \in Instances, ClaimTake(i), ~ (auto' = auto)
      PROVE  QuotaInv'
  <2>1. PICK r \in Requests : /\ ConnectionCapacityAvailable(target[r])
                              /\ Running' = Running \cup {r}
                              /\ auto' = auto \cup {r}
                              /\ target' = target
    BY <1>6, ClaimAddsOne
  <2>2. RoomInv'
    BY <1>6 DEF RoomInv, ClaimTake
  <2>3. GlobalQuota'
    <3>1. Cardinality(AutoRunning) < MaxConcurrency
      BY <1>6 DEF RoomInv, ClaimTake
    <3>2. Cardinality(AutoRunning') <= Cardinality(AutoRunning) + 1
      BY <1>2, <2>1, OneMoreJob DEF AutoRunning
    <3> QED
      BY <1>3, <3>1, <3>2, QueueAssumption DEF GlobalQuota, AutoRunning
  <2>4. ASSUME NEW c \in Connections
        PROVE  Cardinality((RunningOn(c) \cap auto)') <= MaxPerConnection
    <3>1. Cardinality(RunningOn(c)) \in Nat
          /\ Cardinality(RunningOn(c) \cap auto) \in Nat
          /\ Cardinality((RunningOn(c) \cap auto)') \in Nat
      BY <1>4, FewJobs
    <3>2. CASE target[r] # NoTarget /\ ConnectionOf[target[r]] = c
      <4>1. Cardinality(RunningOn(c)) < MaxPerConnection
        BY <2>1, <3>2 DEF ConnectionCapacityAvailable
      <4>2. (RunningOn(c) \cap auto)' \subseteq RunningOn(c) \cup {r}
        BY <2>1 DEF RunningOn
      <4>3. Cardinality((RunningOn(c) \cap auto)') <= Cardinality(RunningOn(c)) + 1
        BY <1>4, <4>2, OneMoreJob
      <4> QED
        BY <3>1, <4>1, <4>3, QueueAssumption
    <3>3. CASE ~ (target[r] # NoTarget /\ ConnectionOf[target[r]] = c)
      <4>1. (RunningOn(c) \cap auto)' \subseteq RunningOn(c) \cap auto
        BY <2>1, <3>3 DEF RunningOn
      <4>2. Cardinality((RunningOn(c) \cap auto)') <= Cardinality(RunningOn(c) \cap auto)
        BY <1>4, <4>1, FewerJobs
      <4> QED
        BY <3>1, <4>2, QueueAssumption DEF ConnectionQuota
    <3> QED
      BY <3>2, <3>3
  <2> QED
    BY <1>1, <2>2, <2>3, <2>4 DEF ConnectionQuota
<1>7. auto' = auto \/ \E i \in Instances : ClaimTake(i)
  BY DEF Next, RequestStep, RunStep, AdminStep, RequestBegin, RequestLock,
         RequestReadTarget, RequestCheckActive, RequestInsert, RequestAbort,
         ClaimBegin, RunIdentify, RunMarkStarted, RunExecute, RunFinish,
         RunSettle, RunLost, CancelFetch, CancelUpdate, CancelConflict,
         CompleteBegin, CompleteClaim, CompleteConflict, Bind, SetPilotable,
         vars, jobs
<1> QED
  BY <1>5, <1>6, <1>7

LEMMA QuotaInit == Init => QuotaInv
<1> SUFFICES ASSUME Init PROVE QuotaInv
  OBVIOUS
<1>1. AutoRunning = {} /\ \A c \in Connections : RunningOn(c) \cap auto = {}
  BY DEF Init, AutoRunning
<1> QED
  BY <1>1, QueueAssumption, FS_EmptySet
     DEF Init, QuotaInv, AutoInv, RoomInv, GlobalQuota, ConnectionQuota,
         AutoRunning

LEMMA QuotaInvariant == Spec => []QuotaInv
<1>1. TypeOK /\ QueueInv /\ QuotaInv /\ [Next]_vars => QuotaInv'
  BY QuotaStep
<1> QED
  BY QuotaInit, <1>1, QueueInvariant, PTL DEF Spec

(* However many instances claim and whatever an administrator starts between
   a count and its claim, neither limit is exceeded. *)
THEOREM QuotasHold == Spec => []Quotas
<1>1. QuotaInv => Quotas
  BY DEF QuotaInv, Quotas
<1> QED
  BY <1>1, QuotaInvariant, PTL
=============================================================================
