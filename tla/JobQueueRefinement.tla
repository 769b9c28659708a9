------------------------- MODULE JobQueueRefinement -------------------------
(***************************************************************************)
(* JobQueue implements ServiceSlot. The slot of a service is computed from *)
(* the rows and the threads of its jobs; the invariant says that at most   *)
(* one of them fills it, so that every step of the queue fills, advances   *)
(* or empties one slot, or none.                                           *)
(***************************************************************************)
EXTENDS JobQueueProofs

-----------------------------------------------------------------------------
(* The slot as a function of the jobs *)

LEMMA StageOfHolder ==
  TypeOK /\ QueueInv => \A r \in Requests : Stage(r) # "gone" <=> Holds(r)
BY DEF TypeOK, QueueInv, StageInv, Stage, Holds, Active, JobStatus, Outcomes

SlotsFilled ==
  \A r \in Requests : Stage(r) # "gone" =>
    slot[ask[r].service] = {<<ask[r].action, Stage(r)>>}

LEMMA FullSlot == TypeOK /\ QueueInv => SlotsFilled
<1> SUFFICES ASSUME TypeOK, QueueInv, NEW r \in Requests, Stage(r) # "gone"
             PROVE  slot[ask[r].service] = {<<ask[r].action, Stage(r)>>}
  BY DEF SlotsFilled
<1>1. ask[r].service \in Services
  BY DEF TypeOK
<1>2. Current(ask[r].service) = {r}
  BY StageOfHolder DEF QueueInv, OneHolder, Current
<1> QED
  BY <1>1, <1>2 DEF slot

LEMMA FullSlotNext == TypeOK' /\ QueueInv' => SlotsFilled'
BY FullSlot, PTL

LEMMA EmptySlot ==
  \A s \in Services :
    (\A r \in Requests : ask[r].service = s => Stage(r) = "gone")
      => slot[s] = {}
BY DEF slot, Current

(* A step that moves no job moves no slot. *)
LEMMA SlotsKept ==
  ASSUME ask' = ask, \A q \in Requests : Stage(q)' = Stage(q)
  PROVE  slot' = slot
<1>1. ASSUME NEW s \in Services PROVE slot'[s] = slot[s]
  <2>1. Current(s)' = Current(s)
    BY DEF Current
  <2>2. \A q \in Current(s) : Stage(q)' = Stage(q)
    BY DEF Current
  <2> QED
    BY <2>1, <2>2 DEF slot
<1> QED
  BY <1>1 DEF slot

(* A step that moves one job moves the slot of its service. *)
LEMMA OneSlotMoves ==
  ASSUME TypeOK, QueueInv, TypeOK', QueueInv', NEW r \in Requests, ask' = ask,
         Stage(r) # "gone" \/ Stage(r)' # "gone",
         \A q \in Requests \ {r} : Stage(q)' = Stage(q)
  PROVE  slot' = [slot EXCEPT ![ask[r].service] =
                    IF Stage(r)' = "gone" THEN {}
                                          ELSE {<<ask[r].action, Stage(r)'>>}]
<1> DEFINE home == ask[r].service
<1>1. home \in Services
  BY DEF TypeOK
<1>2. ASSUME NEW s \in Services, s # home PROVE slot'[s] = slot[s]
  <2>1. Current(s)' = Current(s)
    BY <1>2 DEF Current
  <2>2. \A q \in Current(s) : Stage(q)' = Stage(q)
    BY <1>2 DEF Current
  <2> QED
    BY <2>1, <2>2 DEF slot
<1>3. CASE Stage(r)' # "gone"
  <2>1. slot'[home] = {<<ask[r].action, Stage(r)'>>}
    BY <1>3, FullSlotNext DEF SlotsFilled
  <2> QED
    BY <1>1, <1>2, <1>3, <2>1 DEF slot
<1>4. CASE Stage(r)' = "gone"
  <2>1. \A q \in Requests : ask'[q].service = home => Stage(q)' = "gone"
    BY <1>4, StageOfHolder DEF QueueInv, OneHolder
  <2>2. slot'[home] = {}
    BY <1>1, <2>1 DEF slot, Current
  <2> QED
    BY <1>1, <1>2, <1>4, <2>2 DEF slot
<1> QED
  BY <1>3, <1>4

-----------------------------------------------------------------------------
(* Every step of the queue is a step of the slots, or none *)

LEMMA StageKept ==
  ASSUME NEW q \in Requests, status'[q] = status[q], run'[q] = run[q]
  PROVE  Stage(q)' = Stage(q)
BY DEF Stage

LEMMA Unmoved ==
  ASSUME ask' = ask, status' = status, run' = run, svc' = svc
  PROVE  UNCHANGED Slot!vars
BY StageKept, SlotsKept DEF Slot!vars

(* r is the only job whose row or thread a step writes. *)
Only(r) == /\ ask' = ask
           /\ \A q \in Requests \ {r} : /\ status'[q] = status[q]
                                        /\ run'[q] = run[q]

LEMMA SlotOfOnly ==
  ASSUME TypeOK, QueueInv, TypeOK', QueueInv', NEW r \in Requests, Only(r),
         Stage(r) # "gone" \/ Stage(r)' # "gone"
  PROVE  slot' = [slot EXCEPT ![ask[r].service] =
                    IF Stage(r)' = "gone" THEN {}
                                          ELSE {<<ask[r].action, Stage(r)'>>}]
<1>1. \A q \in Requests \ {r} : Stage(q)' = Stage(q)
  BY StageKept DEF Only
<1> QED
  BY <1>1, OneSlotMoves DEF Only

(* The job a step moves is the one its service's slot shows. *)
LEMMA SlotBefore ==
  ASSUME TypeOK, QueueInv, NEW r \in Requests, Stage(r) # "gone"
  PROVE  /\ ask[r].service \in Services /\ ask[r].action \in Actions
         /\ slot[ask[r].service] = {<<ask[r].action, Stage(r)>>}
BY FullSlot DEF SlotsFilled, TypeOK

LEMMA BeginUnmoved ==
  ASSUME TypeOK, QueueInv, NEW r \in Requests, NEW s \in Services,
         NEW a \in Actions, RequestBegin(r, s, a)
  PROVE  UNCHANGED Slot!vars
<1>1. Stage(r) = "gone" /\ Stage(r)' = "gone"
  BY DEF RequestBegin, QueueInv, StageInv, Stage, jobs, runs
<1>2. \A q \in Requests : Stage(q)' = Stage(q)
  BY <1>1, StageKept DEF RequestBegin, jobs, runs
<1>3. ASSUME NEW t \in Services PROVE slot'[t] = slot[t]
  <2>1. \A q \in Requests : q # r => ask'[q] = ask[q]
    BY DEF RequestBegin, TypeOK
  <2>2. Current(t)' = Current(t)
    BY <1>1, <1>2, <2>1 DEF Current
  <2>3. \A q \in Current(t) : Stage(q)' = Stage(q) /\ ask'[q] = ask[q]
    BY <1>1, <1>2, <2>1 DEF Current
  <2> QED
    BY <2>2, <2>3 DEF slot
<1> QED
  BY <1>3 DEF slot, Slot!vars, RequestBegin, rows

LEMMA InsertAccepts ==
  ASSUME TypeOK, QueueInv, TypeOK', QueueInv', NEW r \in Requests,
         RequestInsert(r)
  PROVE  Slot!Accept(ask[r].service, ask[r].action)
<1> DEFINE s == ask[r].service
<1>1. s \in Services
  BY DEF TypeOK
<1>2. status'[r] = "pending" /\ Only(r) /\ svc' = svc
  <2>1. ActiveFor(ask[r].service, target[r]) = {}
    BY DEF RequestInsert, QueueInv, ClearInv
  <2>2. status' = [status EXCEPT ![r] = "pending"]
    BY <2>1 DEF RequestInsert
  <2>3. UNCHANGED <<svc, ask, run>>
    BY DEF RequestInsert, runs
  <2> QED
    BY <2>2, <2>3 DEF TypeOK, Only
<1>3. Stage(r)' = "waiting" /\ Stage(r) = "gone"
  BY <1>2 DEF Stage, RequestInsert, QueueInv, StageInv
<1>4. \A q \in Requests : ask[q].service = s => Stage(q) = "gone"
  <2> SUFFICES ASSUME NEW q \in Requests, q # r, ask[q].service = s
               PROVE  ~ Holds(q)
    BY <1>3, StageOfHolder
  <2>1. Holds(r)'
    BY <1>2 DEF Holds, Active
  <2>2. ~ Holds(q)'
    BY <1>2, <2>1 DEF QueueInv, OneHolder, Only
  <2> QED
    BY <1>2, <2>2 DEF Holds, Active, Only
<1>5. slot[s] = {}
  BY <1>1, <1>4, EmptySlot
<1>6. svc[s] = Required(ask[r].action)
  BY DEF RequestInsert, QueueInv, LockInv, InTransaction, ClearInv
<1> QED
  BY <1>2, <1>3, <1>5, <1>6, SlotOfOnly DEF Slot!Accept, Slot!Required, Required

LEMMA StartTakes ==
  ASSUME TypeOK, QueueInv, TypeOK', QueueInv', NEW r \in Requests,
         status[r] = "pending", StartRunning(r), ask' = ask, svc' = svc
  PROVE  Slot!Take(ask[r].service, ask[r].action)
<1>1. Stage(r) = "waiting"
  BY DEF QueueInv, StageInv, Stage
<1>2. status'[r] = "running" /\ run'[r] = "claimed" /\ Only(r)
  BY DEF StartRunning, Only, TypeOK
<1>3. Stage(r)' = "taken"
  BY <1>2 DEF Stage
<1> QED
  BY <1>1, <1>2, <1>3, SlotBefore, SlotOfOnly DEF Slot!Take

LEMMA IdentifyUnmoved ==
  ASSUME TypeOK, QueueInv, NEW r \in Requests, RunIdentify(r)
  PROVE  UNCHANGED Slot!vars
<1>1. status[r] = "running" /\ run'[r] = "identified"
  BY DEF RunIdentify, TypeOK, QueueInv, StageInv, JobStatus, Outcomes
<1>2. Stage(r)' = Stage(r)
  BY <1>1 DEF Stage, RunIdentify
<1>3. \A q \in Requests : Stage(q)' = Stage(q)
  BY <1>2, StageKept DEF RunIdentify, TypeOK
<1> QED
  BY <1>3, SlotsKept DEF RunIdentify, rows, requests, Slot!vars

LEMMA ExecuteUnmoved ==
  ASSUME TypeOK, QueueInv, NEW r \in Requests, RunExecute(r)
  PROVE  UNCHANGED Slot!vars
<1>1. Stage(r)' = Stage(r)
  BY DEF Stage, RunExecute, TypeOK, jobs
<1>2. \A q \in Requests : Stage(q)' = Stage(q)
  BY <1>1, StageKept DEF RunExecute, TypeOK, jobs
<1> QED
  BY <1>2, SlotsKept DEF RunExecute, rows, requests, Slot!vars

LEMMA MarkStartedWorks ==
  ASSUME TypeOK, QueueInv, TypeOK', QueueInv', NEW r \in Requests,
         RunMarkStarted(r)
  PROVE  Slot!Work(ask[r].service, ask[r].action)
<1>1. status[r] = "running"
  BY DEF RunMarkStarted, TypeOK, QueueInv, StageInv, JobStatus, Outcomes
<1>2. Stage(r) = "taken" /\ Stage(r)' = "working" /\ Only(r)
  BY <1>1 DEF RunMarkStarted, Stage, Only, TypeOK, requests, jobs
<1>3. svc[ask[r].service] = Required(ask[r].action)
  BY DEF RunMarkStarted, QueueInv, JobMatchesService
<1> QED
  BY <1>2, <1>3, SlotBefore, SlotOfOnly
     DEF Slot!Work, Slot!Required, Required, Slot!Transitional, Transitional,
         RunMarkStarted

LEMMA FinishConcludes ==
  ASSUME TypeOK, QueueInv, TypeOK', QueueInv', NEW r \in Requests, RunFinish(r)
  PROVE  Slot!Conclude(ask[r].service, ask[r].action)
<1>1. status[r] = "running" /\ outcome[r] \in Outcomes
  BY DEF RunFinish, TypeOK, QueueInv, StageInv, JobStatus, Outcomes
<1>2. Stage(r) = "working" /\ Stage(r)' = "over" /\ Only(r)
  BY <1>1 DEF RunFinish, Stage, Only, TypeOK, requests, Outcomes
<1> QED
  BY <1>2, SlotBefore, SlotOfOnly DEF Slot!Conclude, RunFinish, rows

LEMMA SettleSettles ==
  ASSUME TypeOK, QueueInv, TypeOK', QueueInv', NEW r \in Requests, RunSettle(r)
  PROVE  \E o \in Outcomes : Slot!Settle(ask[r].service, ask[r].action, o)
<1>1. status[r] \in Outcomes /\ outcome[r] \in Outcomes
  BY DEF RunSettle, TypeOK, QueueInv, StageInv, JobStatus, Outcomes
<1>2. Stage(r) = "over" /\ Stage(r)' = "gone" /\ Only(r)
  BY <1>1 DEF RunSettle, Stage, Only, TypeOK, requests, jobs, Outcomes
<1>3. svc[ask[r].service] = Transitional(ask[r].action)
  BY DEF RunSettle, QueueInv, JobMatchesService
<1>4. Slot!Settle(ask[r].service, ask[r].action, outcome[r])
  BY <1>2, <1>3, SlotBefore, SlotOfOnly
     DEF Slot!Settle, Slot!Transitional, Transitional, Slot!Final, Final,
         RunSettle
<1> QED
  BY <1>1, <1>4

LEMMA LostAbandons ==
  ASSUME TypeOK, QueueInv, TypeOK', QueueInv', NEW r \in Requests, RunLost(r)
  PROVE  \E stage \in Slot!Stages :
           Slot!Abandon(ask[r].service, ask[r].action, stage)
<1>1. status[r] # "pending"
  BY DEF RunLost, QueueInv, StageInv
<1>2. Stage(r) \in {"taken", "working", "over"} /\ Stage(r)' = "abandoned"
  BY <1>1 DEF RunLost, Stage, TypeOK, jobs
<1>3. Only(r)
  BY DEF RunLost, Only, TypeOK, requests, jobs
<1>4. Slot!Abandon(ask[r].service, ask[r].action, Stage(r))
  BY <1>2, <1>3, SlotBefore, SlotOfOnly DEF Slot!Abandon, RunLost, rows
<1> QED
  BY <1>2, <1>4 DEF Slot!Stages

LEMMA CancelWithdraws ==
  ASSUME TypeOK, QueueInv, TypeOK', QueueInv', NEW a \in Admins,
         CancelUpdate(a)
  PROVE  \E r \in Requests : Slot!Withdraw(ask[r].service, ask[r].action)
<1>1. PICK r \in Requests : r = admin[a].job
  BY DEF CancelUpdate, TypeOK, Idle
<1>2. status[r] = "pending" /\ run[r] = "none"
  BY <1>1 DEF CancelUpdate, QueueInv, StageInv
<1>3. status' = [status EXCEPT ![r] = "cancelled"] /\ ask' = ask /\ run' = run
  BY <1>1 DEF CancelUpdate, requests, runs
<1>4. Stage(r) = "waiting" /\ Stage(r)' = "gone" /\ Only(r)
  BY <1>2, <1>3 DEF Stage, Only, TypeOK
<1>5. Slot!Withdraw(ask[r].service, ask[r].action)
  BY <1>4, SlotBefore, SlotOfOnly DEF Slot!Withdraw, CancelUpdate, rows
<1> QED
  BY <1>5

LEMMA SlotInit == Init => Slot!Init
<1> SUFFICES ASSUME Init PROVE Slot!Init
  OBVIOUS
<1>1. \A r \in Requests : Stage(r) = "gone"
  BY DEF Init, Stage
<1>2. \A s \in Services : slot[s] = {}
  BY <1>1, EmptySlot
<1> QED
  BY <1>2 DEF Init, Slot!Init, slot

LEMMA SlotStep ==
  TypeOK /\ QueueInv /\ TypeOK' /\ QueueInv' /\ [Next]_vars
    => [Slot!Next]_(Slot!vars)
<1> SUFFICES ASSUME TypeOK, QueueInv, TypeOK', QueueInv', [Next]_vars
             PROVE  [Slot!Next]_(Slot!vars)
  OBVIOUS
<1>0. \A r \in Requests : ask[r].service \in Services /\ ask[r].action \in Actions
  BY DEF TypeOK
<1> USE DEF Slot!Next, Slot!Actions, Actions, Slot!Outcomes, Outcomes
<1>1. CASE UNCHANGED <<svc, ask, status, run>>
  BY <1>1, Unmoved
<1>2. ASSUME NEW r \in Requests, NEW s \in Services, NEW a \in Actions,
             RequestBegin(r, s, a)
      PROVE  UNCHANGED Slot!vars
  BY <1>2, BeginUnmoved
<1>3. ASSUME NEW r \in Requests, RequestInsert(r) PROVE Slot!Next
  BY <1>0, <1>3, InsertAccepts
<1>4. ASSUME NEW r \in Requests, RunStep(r) \/ RunLost(r)
      PROVE  [Slot!Next]_(Slot!vars)
  <2>1. CASE RunIdentify(r) \/ RunExecute(r)
    BY <2>1, IdentifyUnmoved, ExecuteUnmoved
  <2>2. CASE RunMarkStarted(r)
    BY <1>0, <2>2, MarkStartedWorks
  <2>3. CASE RunFinish(r)
    BY <1>0, <2>3, FinishConcludes
  <2>4. CASE RunSettle(r)
    BY <1>0, <2>4, SettleSettles
  <2>5. CASE RunLost(r)
    BY <1>0, <2>5, LostAbandons
  <2> QED
    BY <1>4, <2>1, <2>2, <2>3, <2>4, <2>5 DEF RunStep
<1>5. ASSUME NEW i \in Instances, ClaimTake(i) PROVE [Slot!Next]_(Slot!vars)
  <2>1. CASE UNCHANGED <<jobs, runs>>
    BY <1>1, <1>5, <2>1 DEF ClaimTake, rows, requests, jobs, runs
  <2>2. ASSUME NEW r \in Requests, Claimable(r), StartRunning(r)
        PROVE  Slot!Next
    <3>1. status[r] = "pending" /\ ask' = ask /\ svc' = svc
      BY <1>5, <2>2 DEF ClaimTake, Claimable, Eligible, rows, requests
    <3> QED
      BY <1>0, <2>2, <3>1, StartTakes
  <2> QED
    BY <1>5, <2>1, <2>2 DEF ClaimTake
<1>6. ASSUME NEW a \in Admins, CompleteClaim(a) PROVE Slot!Next
  <2>1. admin[a].job \in Requests
    BY <1>6 DEF CompleteClaim, TypeOK, Idle
  <2>2. PICK r \in Requests : status[r] = "pending" /\ StartRunning(r)
    BY <1>6, <2>1 DEF CompleteClaim
  <2> QED
    BY <1>0, <1>6, <2>2, StartTakes DEF CompleteClaim, rows, requests
<1>7. ASSUME NEW a \in Admins, CancelUpdate(a) PROVE Slot!Next
  BY <1>0, <1>7, CancelWithdraws
<1>8. \/ UNCHANGED <<svc, ask, status, run>>
      \/ \E r \in Requests, s \in Services, a \in Actions :
           RequestBegin(r, s, a)
      \/ \E r \in Requests : RequestInsert(r) \/ RunStep(r) \/ RunLost(r)
      \/ \E i \in Instances : ClaimTake(i)
      \/ \E a \in Admins : CompleteClaim(a) \/ CancelUpdate(a)
  BY DEF Next, RequestStep, AdminStep, RequestLock, RequestReadTarget,
         RequestCheckActive, RequestAbort, ClaimBegin, CancelFetch,
         CancelConflict, CompleteBegin, CompleteConflict, Bind, SetPilotable,
         vars, rows, requests, jobs, runs
<1> QED
  BY <1>1, <1>2, <1>3, <1>4, <1>5, <1>6, <1>7, <1>8

(* Seen from any one service, the whole queue is a slot that holds one action
   at a time and gives it back only with the service's final status. *)
THEOREM QueueImplementsSlot == Spec => SlotSpec
<1>1. TypeOK /\ QueueInv /\ TypeOK' /\ QueueInv' /\ [Next]_vars
        => [Slot!Next]_(Slot!vars)
  BY SlotStep
<1> QED
  BY SlotInit, <1>1, QueueInvariant, PTL DEF Spec, SlotSpec, Slot!Spec
=============================================================================
