---------------------------- MODULE AgentActions ----------------------------
(***************************************************************************)
(* The Docker Agent's restricted actions: ActionService.execute on the     *)
(* threads of the Agent's HTTP server, the SQLite journal of               *)
(* ActionRepository, and the command that goes out to Docker or to Docker  *)
(* Compose.                                                                *)
(*                                                                         *)
(* The Controller repeats a request with the same operation_id when it did *)
(* not get an answer. Threads of one process share _active_operations and  *)
(* the resource locks; a crash wipes both and the threads, while the       *)
(* journal stays and a command that went out may still act.                *)
(*                                                                         *)
(* A request's body stands for (target_kind, target, actor, action), the   *)
(* tuple that _validate_replay and the fingerprint compare. A verdict      *)
(* stands for the result codes that say the same about the command:        *)
(*   rejected       resource_not_found, resource_not_pilotable, protected, *)
(*                  not managed, compose_project_not_registered            *)
(*   busy           resource_busy                                          *)
(*   failed_before  pre_dispatch_failed, compose_registry_unavailable,     *)
(*                  compose_runner_unavailable, container_not_found,       *)
(*                  docker_transport_unavailable,                          *)
(*                  compose_process_unavailable                            *)
(*   already        already_in_desired_state                               *)
(*   completed      action_completed                                       *)
(*   failed_after   container_start_failed, container_stop_failed,         *)
(*                  compose_action_failed, requested_state_not_observed    *)
(*   indeterminate  docker_transport_interrupted, compose_timeout,         *)
(*                  post_dispatch_state_unknown,                           *)
(*                  unexpected_post_dispatch_failure                       *)
(*   recovered      recovered_incomplete_operation                         *)
(***************************************************************************)
EXTENDS Naturals, FiniteSets

CONSTANTS
  Ops,           \* operation_id values
  Bodies,        \* what a request asks for
  Targets,       \* (target_kind, target) identities
  TargetOf,      \* the target a body names
  Threads,       \* handler threads of the Agent's server
  Nobody,        \* no thread
  MaxCrashes,    \* bound: restarts of the Agent
  MaxFailures    \* bound: SQLite transactions that raise

ASSUME AgentAssumption ==
  /\ TargetOf \in [Bodies -> Targets]
  /\ Bodies # {} /\ Ops # {}
  /\ Nobody \notin Threads
  /\ MaxCrashes \in Nat
  /\ MaxFailures \in Nat

Unsent   == {"rejected", "busy", "failed_before", "already"}
Settled  == {"completed", "failed_after"}
Unknown  == {"indeterminate", "recovered"}
Verdicts == Unsent \cup Settled \cup Unknown

VARIABLES
  journal,     \* resource_action_operations.status, "none" without a row
  what,        \* the row's target_kind, target, actor and action
  dispatched,  \* the row's dispatched column
  managed,     \* targets whose policy is "managed", unprotected
  leader,      \* _active_operations: the thread that registered an operation
  lock,        \* _resource_locks: the thread that holds a target's lock
  pc,          \* where a thread stands in execute
  op,          \* the operation_id of its request
  body,        \* what its request asks for
  reply,       \* the verdict it is about to write or to answer
  sent,        \* commands sent on behalf of an operation
  flying,      \* operations whose command may still act
  answers,     \* what clients were answered: bodies and verdicts
  late,        \* commands sent to a target since its policy was withdrawn
  crashes,
  failures

journalVars == <<journal, what, dispatched>>
memory      == <<leader, lock>>
threads     == <<pc, op, body, reply>>
outside     == <<sent, flying, late>>
bounds      == <<crashes, failures>>
vars == <<journalVars, managed, memory, threads, outside, answers, bounds>>

anyOp   == CHOOSE o \in Ops : TRUE
anyBody == CHOOSE b \in Bodies : TRUE

(* From the INSERT of begin to the UPDATE of finish. *)
Working  == {"started", "observing", "ready", "marked", "sent", "checking",
             "concluding", "handling"}
Leading  == Working \cup {"leading", "unlocking", "leaving"}
Stages   == Leading \cup {"idle", "following", "woken"}

TypeOK ==
  /\ journal \in [Ops -> {"none", "in_progress"} \cup Verdicts]
  /\ what \in [Ops -> Bodies]
  /\ dispatched \in [Ops -> BOOLEAN]
  /\ managed \in SUBSET Targets
  /\ leader \in [Ops -> Threads \cup {Nobody}]
  /\ lock \in [Targets -> Threads \cup {Nobody}]
  /\ pc \in [Threads -> Stages]
  /\ op \in [Threads -> Ops]
  /\ body \in [Threads -> Bodies]
  /\ reply \in [Threads -> Verdicts \cup {"none"}]
  /\ sent \in [Ops -> Nat]
  /\ flying \in SUBSET Ops
  /\ answers \in [Ops -> SUBSET (Bodies \X Verdicts)]
  /\ late \in [Targets -> Nat]
  /\ crashes \in 0..MaxCrashes
  /\ failures \in 0..MaxFailures

(* A freshly installed Agent: an empty journal, some policies already set. *)
Init ==
  /\ journal = [o \in Ops |-> "none"]
  /\ what = [o \in Ops |-> anyBody]
  /\ dispatched = [o \in Ops |-> FALSE]
  /\ managed \in SUBSET Targets
  /\ leader = [o \in Ops |-> Nobody]
  /\ lock = [t \in Targets |-> Nobody]
  /\ pc = [h \in Threads |-> "idle"]
  /\ op = [h \in Threads |-> anyOp]
  /\ body = [h \in Threads |-> anyBody]
  /\ reply = [h \in Threads |-> "none"]
  /\ sent = [o \in Ops |-> 0]
  /\ flying = {}
  /\ answers = [o \in Ops |-> {}]
  /\ late = [t \in Targets |-> 0]
  /\ crashes = 0
  /\ failures = 0

Target(h) == TargetOf[body[h]]

Goto(h, stage) == pc' = [pc EXCEPT ![h] = stage]

(* Thread h has its verdict v and goes to the place that writes it. *)
Conclude(h, v, stage) ==
  /\ reply' = [reply EXCEPT ![h] = v]
  /\ Goto(h, stage)
  /\ UNCHANGED <<op, body>>

Proceed(h, stage) == Goto(h, stage) /\ UNCHANGED <<op, body, reply>>

(* An answer is given: the thread is free again. *)
Retire(h) ==
  /\ op' = [op EXCEPT ![h] = anyOp]
  /\ body' = [body EXCEPT ![h] = anyBody]
  /\ reply' = [reply EXCEPT ![h] = "none"]

Answer(h, v) ==
  answers' = IF v = "none" THEN answers
             ELSE [answers EXCEPT ![op[h]] = @ \cup {<<body[h], v>>}]

JournalRaises ==
  /\ failures < MaxFailures
  /\ failures' = failures + 1

-----------------------------------------------------------------------------
(* execute *)

(* Under _coordination_lock: the first thread with an operation_id leads, the
   others with the same request wait for its event. A different request with
   an operation_id in use is answered 409 and changes nothing. *)
Receive(h, o, b) ==
  /\ pc[h] = "idle"
  /\ \/ /\ leader[o] = Nobody
        /\ leader' = [leader EXCEPT ![o] = h]
        /\ Goto(h, "leading")
     \/ /\ leader[o] # Nobody
        /\ body[leader[o]] = b
        /\ Goto(h, "following")
        /\ UNCHANGED leader
  /\ op' = [op EXCEPT ![h] = o]
  /\ body' = [body EXCEPT ![h] = b]
  /\ UNCHANGED <<journalVars, managed, lock, reply, outside, answers, bounds>>

Leave_EventOnAnswerOnly(h) ==
  /\ pc[h] = "leaving"
  /\ Answer(h, reply[h])
  /\ leader' = [leader EXCEPT ![op[h]] = Nobody]
  /\ pc' = [g \in Threads |->
              IF g = h THEN "idle"
              ELSE IF reply[h] # "none" /\ pc[g] = "following" /\ op[g] = op[h]
              THEN "woken" ELSE pc[g]]
  /\ Retire(h)
  /\ UNCHANGED <<journalVars, managed, lock, outside, bounds>>

(* The leader's finally clause: pop, then set the event. *)
Leave(h) ==
  /\ pc[h] = "leaving"
  /\ Answer(h, reply[h])
  /\ leader' = [leader EXCEPT ![op[h]] = Nobody]
  /\ pc' = [g \in Threads |->
              IF g = h THEN "idle"
              ELSE IF pc[g] = "following" /\ op[g] = op[h] THEN "woken"
              ELSE pc[g]]
  /\ Retire(h)
  /\ UNCHANGED <<journalVars, managed, lock, outside, bounds>>

(* A follower reads what the leader left: the verdict, or nothing it may use,
   which is an error 500. *)
Replay(h) ==
  /\ pc[h] = "woken"
  /\ Answer(h, IF /\ journal[op[h]] \in Verdicts
                  /\ what[op[h]] = body[h]
               THEN journal[op[h]] ELSE "none")
  /\ Goto(h, "idle")
  /\ Retire(h)
  /\ UNCHANGED <<journalVars, managed, memory, outside, bounds>>

-----------------------------------------------------------------------------
(* ActionRepository.begin, one BEGIN IMMEDIATE transaction *)

OtherInProgress(t) ==
  \E p \in Ops : journal[p] = "in_progress" /\ TargetOf[what[p]] = t

Begin_Redispatch(h) ==
  LET o == op[h] IN
  /\ pc[h] = "leading"
  /\ journal' = [journal EXCEPT ![o] = "in_progress"]
  /\ what' = [what EXCEPT ![o] = body[h]]
  /\ Proceed(h, "started")
  /\ UNCHANGED <<dispatched, managed, memory, outside, answers, bounds>>

Begin(h) ==
  LET o == op[h] IN
  /\ pc[h] = "leading"
  /\ \/ /\ journal[o] = "none"
        /\ OtherInProgress(Target(h))                    \* "busy"
        /\ journal' = [journal EXCEPT ![o] = "busy"]
        /\ what' = [what EXCEPT ![o] = body[h]]
        /\ Conclude(h, "busy", "leaving")
     \/ /\ journal[o] = "none"
        /\ ~ OtherInProgress(Target(h))                  \* "started"
        /\ journal' = [journal EXCEPT ![o] = "in_progress"]
        /\ what' = [what EXCEPT ![o] = body[h]]
        /\ Proceed(h, "started")
     \/ /\ journal[o] \in Verdicts                          \* "replay"
        /\ what[o] = body[h]
        /\ Conclude(h, journal[o], "leaving")
        /\ UNCHANGED <<journal, what>>
     \/ /\ journal[o] # "none"             \* 409, or "in_progress": error 500
        /\ what[o] # body[h] \/ journal[o] = "in_progress"
        /\ Proceed(h, "leaving")
        /\ UNCHANGED <<journal, what>>
  /\ UNCHANGED <<dispatched, managed, memory, outside, answers, bounds>>

BeginRaises(h) ==
  /\ pc[h] = "leading"
  /\ JournalRaises
  /\ Proceed(h, "leaving")
  /\ UNCHANGED <<journalVars, managed, memory, outside, answers, crashes>>

-----------------------------------------------------------------------------
(* _execute_leader *)

(* acquire(blocking=False); finish is called outside the try here. *)
TakeLock(h) ==
  /\ pc[h] = "started"
  /\ \/ /\ lock[Target(h)] = Nobody
        /\ lock' = [lock EXCEPT ![Target(h)] = h]
        /\ Proceed(h, "observing")
     \/ /\ lock[Target(h)] # Nobody
        /\ Conclude(h, "busy", "concluding")
        /\ UNCHANGED lock
  /\ UNCHANGED <<journalVars, managed, leader, outside, answers, bounds>>

Observe_NoPolicy(h) ==
  /\ pc[h] = "observing"
  /\ Proceed(h, "ready")
  /\ UNCHANGED <<journalVars, managed, memory, outside, answers, bounds>>

(* _current_target, _preflight_rejection, _compose_preflight, the comparison
   with the desired state and is_available. What Docker shows is free. *)
Observe(h) ==
  /\ pc[h] = "observing"
  /\ \/ Conclude(h, "rejected", "concluding")
     \/ Conclude(h, "failed_before", "handling")    \* engine unavailable ...
     \/ /\ Target(h) \in managed
        /\ \/ Conclude(h, "failed_before", "concluding")   \* registry, runner
           \/ Conclude(h, "already", "concluding")
           \/ Proceed(h, "ready")
  /\ UNCHANGED <<journalVars, managed, memory, outside, answers, bounds>>

MarkDispatched_Skipped(h) ==
  /\ pc[h] = "ready"
  /\ Proceed(h, "marked")
  /\ UNCHANGED <<journalVars, managed, memory, outside, answers, bounds>>

(* mark_dispatched *)
MarkDispatched(h) ==
  /\ pc[h] = "ready"
  /\ dispatched' = [dispatched EXCEPT ![op[h]] =
                      IF journal[op[h]] = "in_progress" THEN TRUE ELSE @]
  /\ Proceed(h, "marked")
  /\ UNCHANGED <<journal, what, managed, memory, outside, answers, bounds>>

MarkDispatchedRaises(h) ==
  /\ pc[h] = "ready"
  /\ JournalRaises
  /\ Conclude(h, "failed_before", "handling")
  /\ UNCHANGED <<journalVars, managed, memory, outside, answers, crashes>>

(* start_container, stop_container or the Compose runner: the command leaves,
   or the adapter knows that it did not, or it fails in a way the service does
   not know. *)
Send(h) ==
  /\ pc[h] = "marked"
  /\ \/ /\ sent' = [sent EXCEPT ![op[h]] = @ + 1]
        /\ flying' = flying \cup {op[h]}
        /\ late' = IF Target(h) \in managed THEN late
                   ELSE [late EXCEPT ![Target(h)] = @ + 1]
        /\ Proceed(h, "sent")
     \/ /\ \E v \in {"failed_before", "indeterminate"} :
             Conclude(h, v, "handling")
        /\ UNCHANGED outside
  /\ UNCHANGED <<journalVars, managed, memory, answers, bounds>>

Return_TimeoutIsFailure(h) ==
  /\ pc[h] = "sent"
  /\ Conclude(h, "failed_after", "handling")
  /\ UNCHANGED <<journalVars, managed, memory, outside, answers, bounds>>

(* The adapter comes back: an answer of the engine or the exit of the Compose
   process means that the command has ended, a timeout means nothing. *)
Return(h) ==
  /\ pc[h] = "sent"
  /\ \/ op[h] \notin flying /\ Proceed(h, "checking")
     \/ op[h] \notin flying /\ Conclude(h, "failed_after", "handling")
     \/ Conclude(h, "indeterminate", "handling")
  /\ UNCHANGED <<journalVars, managed, memory, outside, answers, bounds>>

(* _current_target again, and what it shows. *)
Check(h) ==
  /\ pc[h] = "checking"
  /\ \/ \E v \in {"completed", "failed_after", "indeterminate"} :
          Conclude(h, v, "concluding")
     \/ Conclude(h, "indeterminate", "handling")
  /\ UNCHANGED <<journalVars, managed, memory, outside, answers, bounds>>

(* ActionRepository.finish *)
Finish(h) ==
  /\ pc[h] \in {"concluding", "handling"}
  /\ journal' = [journal EXCEPT ![op[h]] =
                   IF @ = "in_progress" THEN reply[h] ELSE @]
  /\ Proceed(h, IF lock[Target(h)] = h THEN "unlocking" ELSE "leaving")
  /\ UNCHANGED <<what, dispatched, managed, memory, outside, answers, bounds>>

FinishRaises_KeepsLock(h) ==
  /\ pc[h] \in {"concluding", "handling"}
  /\ JournalRaises
  /\ Conclude(h, "none", "leaving")
  /\ UNCHANGED <<journalVars, managed, memory, outside, answers, crashes>>

(* Inside the try an exception of finish is caught and finish is called once
   more; in an except clause, or before the try, it goes up to the client and
   the row stays in progress. *)
FinishRaises(h) ==
  /\ pc[h] \in {"concluding", "handling"}
  /\ JournalRaises
  /\ IF pc[h] = "concluding" /\ lock[Target(h)] = h
     THEN Conclude(h, IF dispatched[op[h]] THEN "indeterminate"
                                           ELSE "failed_before", "handling")
     ELSE Conclude(h, "none",
                   IF lock[Target(h)] = h THEN "unlocking" ELSE "leaving")
  /\ UNCHANGED <<journalVars, managed, memory, outside, answers, crashes>>

Unlock(h) ==
  /\ pc[h] = "unlocking"
  /\ lock' = [lock EXCEPT ![Target(h)] = Nobody]
  /\ Proceed(h, "leaving")
  /\ UNCHANGED <<journalVars, managed, leader, outside, answers, bounds>>

-----------------------------------------------------------------------------
(* Around the service *)

(* The engine has carried out, or dropped, the command of an operation. *)
Land(o) ==
  /\ o \in flying
  /\ flying' = flying \ {o}
  /\ UNCHANGED <<journalVars, managed, memory, threads, sent, late, answers,
                 bounds>>

(* PUT .../management-policy, or a target found to host NodeConductor. *)
SetPolicy(t) ==
  /\ managed' = IF t \in managed THEN managed \ {t} ELSE managed \cup {t}
  /\ late' = [late EXCEPT ![t] = 0]
  /\ UNCHANGED <<journalVars, memory, threads, sent, flying, answers, bounds>>

Restart_KeepsOpenRows ==
  /\ crashes < MaxCrashes
  /\ crashes' = crashes + 1
  /\ journal' = [o \in Ops |-> IF journal[o] = "in_progress" THEN "none"
                                                            ELSE journal[o]]
  /\ leader' = [o \in Ops |-> Nobody]
  /\ lock' = [t \in Targets |-> Nobody]
  /\ pc' = [h \in Threads |-> "idle"]
  /\ op' = [h \in Threads |-> anyOp]
  /\ body' = [h \in Threads |-> anyBody]
  /\ reply' = [h \in Threads |-> "none"]
  /\ UNCHANGED <<what, dispatched, managed, outside, answers, failures>>

(* The process dies and comes back: ActionRepository.__init__ closes the rows
   it finds open, __init__ of the service starts with empty tables. *)
Restart ==
  /\ crashes < MaxCrashes
  /\ crashes' = crashes + 1
  /\ journal' = [o \in Ops |-> IF journal[o] = "in_progress" THEN "recovered"
                                                            ELSE journal[o]]
  /\ leader' = [o \in Ops |-> Nobody]
  /\ lock' = [t \in Targets |-> Nobody]
  /\ pc' = [h \in Threads |-> "idle"]
  /\ op' = [h \in Threads |-> anyOp]
  /\ body' = [h \in Threads |-> anyBody]
  /\ reply' = [h \in Threads |-> "none"]
  /\ UNCHANGED <<what, dispatched, managed, outside, answers, failures>>

-----------------------------------------------------------------------------
LeaderStep(h) == \/ Begin(h)
                 \/ TakeLock(h)
                 \/ Observe(h)
                 \/ MarkDispatched(h)
                 \/ Send(h)
                 \/ Return(h)
                 \/ Check(h)
                 \/ Finish(h)
                 \/ Unlock(h)
                 \/ Leave(h)

Raise(h) == \/ BeginRaises(h)
            \/ MarkDispatchedRaises(h)
            \/ FinishRaises(h)

Next ==
  \/ \E h \in Threads : \/ \E o \in Ops, b \in Bodies : Receive(h, o, b)
                        \/ LeaderStep(h)
                        \/ Raise(h)
                        \/ Replay(h)
  \/ \E o \in Ops : Land(o)
  \/ \E t \in Targets : SetPolicy(t)
  \/ Restart

Spec == Init /\ [][Next]_vars

(* A thread runs to its next step; every adapter call has a timeout, so that it
   comes back whether the command has landed or not. *)
Fairness == \A h \in Threads : WF_vars(LeaderStep(h) \/ Replay(h))

FairSpec == Spec /\ Fairness

-----------------------------------------------------------------------------
(* Safety. A definition above named X_Fault is X with a plausible fault, kept to
   show that the properties notice it; Next uses none of them. *)

(* An operation_id sends one command in its life: not two for concurrent
   requests, not one more for a repeated one, nor after a restart. *)
AtMostOnce == \A o \in Ops : sent[o] <= 1

(* The journal is written ahead: a command that left is known to it, which is
   what recovery relies on. *)
WrittenAhead ==
  \A o \in Ops : sent[o] > 0 => journal[o] # "none" /\ dispatched[o]

(* A verdict can be trusted: "rejected", "failed before dispatch" and "already"
   mean that nothing was sent, and "completed" or "failed" that the command
   cannot act any more. *)
VerdictIsTrue ==
  \A o \in Ops : /\ journal[o] \in Unsent => sent[o] = 0
                 /\ journal[o] \in Settled => sent[o] > 0 /\ o \notin flying

(* Two commands may act on one target at the same time only when the older one
   was given up as indeterminate. *)
OverlapIsKnown ==
  \A o, p \in flying :
    o # p /\ TargetOf[what[o]] = TargetOf[what[p]]
      => journal[o] \in Unknown \/ journal[p] \in Unknown

(* Whoever asks, and whenever, an operation has one answer. *)
AnswersAgree == \A o \in Ops : Cardinality(answers[o]) <= 1

(* Withdrawing the policy of a target stops its actions: one command that had
   already passed the preflight may still leave, a second never. *)
OneLateCommand == \A t \in Targets : late[t] <= 1

(* From the acquisition of a target's lock to its release. *)
Locked == (Working \ {"started"}) \cup {"unlocking"}

(* Operations whose row is open and which no thread executes any more. *)
Orphans == {o \in Ops : /\ journal[o] = "in_progress"
                        /\ \A h \in Threads : pc[h] \in Working => op[h] # o}

(* The entries of the tables belong to threads that are still at work for them,
   and who waits for an event waits for a leader with the same request. *)
Attended ==
  /\ \A o \in Ops : leader[o] # Nobody =>
       pc[leader[o]] \in Leading /\ op[leader[o]] = o
  /\ \A t \in Targets : lock[t] # Nobody =>
       pc[lock[t]] \in Locked /\ Target(lock[t]) = t
  /\ \A h \in Threads : pc[h] = "following" =>
       leader[op[h]] # Nobody /\ body[leader[op[h]]] = body[h]

(* Whatever raises, and wherever, no entry of _active_operations, no resource
   lock and no event outlives the thread that answers for it, and a row stays
   open without a thread, which refuses its target until the next start, only
   for a transaction that has raised. *)
NothingIsLeaked == Attended /\ Cardinality(Orphans) <= failures

(* How many steps a handler thread has before it at most. *)
StepsLeft ==
  [idle |-> 0, woken |-> 1, following |-> 2, leaving |-> 1, unlocking |-> 2,
   handling |-> 3, concluding |-> 4, checking |-> 5, sent |-> 6, marked |-> 7,
   ready |-> 8, observing |-> 9, started |-> 10, leading |-> 11]

(* A request is no loop: a step of its thread, also one that raises, brings it
   nearer to its end, and no other thread or client takes it back. *)
HandlersAdvance ==
  [][\A h \in Threads :
       /\ LeaderStep(h) \/ Raise(h) \/ Replay(h)
            => StepsLeft[pc'[h]] < StepsLeft[pc[h]]
       /\ pc[h] # "idle" => StepsLeft[pc'[h]] <= StepsLeft[pc[h]]]_vars

-----------------------------------------------------------------------------
(* The inductive invariant behind the properties above *)

(* Threads that stand at these places have nothing to write or to answer. *)
Undecided == Stages \ {"concluding", "handling", "unlocking", "leaving"}

(* An operation in execution is executed by one thread, the one registered,
   and its row is open and about that thread's request. *)
LeaderInv ==
  \A h \in Threads :
    /\ pc[h] \in Leading => leader[op[h]] = h
    /\ pc[h] \in Working => /\ journal[op[h]] = "in_progress"
                            /\ what[op[h]] = body[h]

(* At most one operation is open on a target. *)
OneOpen ==
  \A o, p \in Ops :
    (/\ journal[o] = "in_progress" /\ journal[p] = "in_progress"
     /\ TargetOf[what[o]] = TargetOf[what[p]])
      => o = p

(* What a thread knows of its command where it stands. *)
CommandInv ==
  /\ AtMostOnce
  /\ WrittenAhead
  /\ VerdictIsTrue
  /\ \A o \in flying : sent[o] > 0
  /\ \A h \in Threads :
       /\ pc[h] \in {"started", "observing", "ready", "marked"}
            => sent[op[h]] = 0
       /\ pc[h] = "marked" => dispatched[op[h]]
       /\ pc[h] \in {"sent", "checking"} => sent[op[h]] = 1
       /\ pc[h] = "checking" => op[h] \notin flying

(* What a thread is about to write is true, and what it is about to answer is
   what the journal says. *)
ReplyInv ==
  \A h \in Threads :
    /\ pc[h] \in Undecided => reply[h] = "none"
    /\ pc[h] \in {"concluding", "handling"} =>
         /\ reply[h] \in Verdicts
         /\ reply[h] \in Unsent => sent[op[h]] = 0
         /\ reply[h] \in Settled => sent[op[h]] = 1 /\ op[h] \notin flying
    /\ pc[h] \in {"unlocking", "leaving"} /\ reply[h] # "none" =>
         journal[op[h]] = reply[h] /\ what[op[h]] = body[h]

AnswerInv ==
  \A o \in Ops : /\ answers[o] \subseteq {<<what[o], journal[o]>>}
                 /\ answers[o] # {} => journal[o] \in Verdicts

(* A command leaves late only if it was past the preflight when the policy was
   withdrawn, and then nothing is past it any more. *)
LateInv ==
  \A t \in Targets :
    /\ late[t] <= 1
    /\ t \in managed => late[t] = 0
    /\ late[t] = 1 => \A h \in Threads :
                        pc[h] \in {"ready", "marked"} => Target(h) # t

JournalInv == /\ LeaderInv
              /\ OneOpen
              /\ CommandInv
              /\ ReplyInv
              /\ AnswerInv
              /\ LateInv

-----------------------------------------------------------------------------
(* Liveness and refinement *)

(* Every request is answered, followers included: no thread waits for ever for
   an event or holds a resource lock for ever. *)
RequestsEnd == \A h \in Threads : (pc[h] # "idle") ~> (pc[h] = "idle")

(* The journal and the answers are those of OperationLedger. *)
Ledger == INSTANCE OperationLedger
            WITH record <- journal, subject <- what, sends <- sent,
                 acting <- flying, told <- answers

LedgerSpec == Ledger!Spec
=============================================================================
