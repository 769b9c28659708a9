------------------------- MODULE AgentActionsProofs -------------------------
(***************************************************************************)
(* Theorems about AgentActions, for any number of threads, operations,     *)
(* requests, targets, restarts and failing transactions.                   *)
(***************************************************************************)
EXTENDS AgentActions, FiniteSetTheorems, TLAPS

-----------------------------------------------------------------------------
(* Type correctness *)

LEMMA Defaults == anyOp \in Ops /\ anyBody \in Bodies
BY AgentAssumption DEF anyOp, anyBody

LEMMA TypeInit == Init => TypeOK
BY Defaults, AgentAssumption DEF Init, TypeOK, Stages

LEMMA TypeStep == TypeOK /\ [Next]_vars => TypeOK'
<1> SUFFICES ASSUME TypeOK, [Next]_vars PROVE TypeOK'
  OBVIOUS
<1> USE AgentAssumption, Defaults
    DEF TypeOK, Stages, Leading, Working, Verdicts, Unsent, Settled, Unknown,
        Goto, Target
<1>1. ASSUME NEW h \in Threads, NEW o \in Ops, NEW b \in Bodies,
             Receive(h, o, b)
      PROVE  TypeOK'
  BY <1>1 DEF Receive, journalVars, outside, bounds
<1>2. ASSUME NEW h \in Threads, Begin(h) PROVE TypeOK'
  <2> USE <1>2 DEF Begin, Conclude, Proceed, memory, outside, bounds
  <2>1. journal' \in [Ops -> {"none", "in_progress"} \cup Verdicts]
    OBVIOUS
  <2>2. what' \in [Ops -> Bodies]
    OBVIOUS
  <2>3. /\ pc' \in [Threads -> Stages]
        /\ reply' \in [Threads -> Verdicts \cup {"none"}]
        /\ UNCHANGED <<op, body>>
    OBVIOUS
  <2> QED
    BY <2>1, <2>2, <2>3
<1>3. ASSUME NEW h \in Threads, BeginRaises(h) PROVE TypeOK'
  BY <1>3 DEF BeginRaises, JournalRaises, Proceed, journalVars, memory, outside
<1>4. ASSUME NEW h \in Threads, TakeLock(h) PROVE TypeOK'
  BY <1>4 DEF TakeLock, Conclude, Proceed, journalVars, outside, bounds
<1>5. ASSUME NEW h \in Threads, Observe(h) PROVE TypeOK'
  BY <1>5 DEF Observe, Conclude, Proceed, journalVars, memory, outside, bounds
<1>6. ASSUME NEW h \in Threads, MarkDispatched(h) PROVE TypeOK'
  BY <1>6 DEF MarkDispatched, Proceed, memory, outside, bounds
<1>7. ASSUME NEW h \in Threads, MarkDispatchedRaises(h) PROVE TypeOK'
  BY <1>7 DEF MarkDispatchedRaises, JournalRaises, Conclude, journalVars,
              memory, outside
<1>8. ASSUME NEW h \in Threads, Send(h) PROVE TypeOK'
  <2>1. /\ pc' \in [Threads -> Stages]
        /\ reply' \in [Threads -> Verdicts \cup {"none"}]
        /\ UNCHANGED <<op, body>>
    BY <1>8 DEF Send, Conclude, Proceed
  <2>2. /\ sent' \in [Ops -> Nat]
        /\ flying' \in SUBSET Ops
        /\ late' \in [Targets -> Nat]
    BY <1>8 DEF Send, outside
  <2> QED
    BY <1>8, <2>1, <2>2 DEF Send, journalVars, memory, bounds
<1>9. ASSUME NEW h \in Threads, Return(h) PROVE TypeOK'
  BY <1>9 DEF Return, Conclude, Proceed, journalVars, memory, outside, bounds
<1>10. ASSUME NEW h \in Threads, Check(h) PROVE TypeOK'
  BY <1>10 DEF Check, Conclude, Proceed, journalVars, memory, outside, bounds
<1>11. ASSUME NEW h \in Threads, Finish(h) PROVE TypeOK'
  BY <1>11 DEF Finish, Proceed, memory, outside, bounds
<1>12. ASSUME NEW h \in Threads, FinishRaises(h) PROVE TypeOK'
  BY <1>12 DEF FinishRaises, JournalRaises, Conclude, journalVars, memory,
               outside
<1>13. ASSUME NEW h \in Threads, Unlock(h) PROVE TypeOK'
  BY <1>13 DEF Unlock, Proceed, journalVars, outside, bounds
<1>14. ASSUME NEW h \in Threads, Leave(h) PROVE TypeOK'
  BY <1>14 DEF Leave, Answer, Retire, journalVars, outside, bounds
<1>15. ASSUME NEW h \in Threads, Replay(h) PROVE TypeOK'
  BY <1>15 DEF Replay, Answer, Retire, journalVars, memory, outside, bounds
<1>16. ASSUME NEW o \in Ops, Land(o) PROVE TypeOK'
  BY <1>16 DEF Land, journalVars, memory, threads, bounds
<1>17. ASSUME NEW t \in Targets, SetPolicy(t) PROVE TypeOK'
  BY <1>17 DEF SetPolicy, journalVars, memory, threads, bounds
<1>18. CASE Restart
  BY <1>18 DEF Restart, outside
<1>19. CASE UNCHANGED vars
  BY <1>19 DEF vars, journalVars, memory, threads, outside, bounds
<1> QED
  BY <1>1, <1>2, <1>3, <1>4, <1>5, <1>6, <1>7, <1>8, <1>9, <1>10, <1>11,
     <1>12, <1>13, <1>14, <1>15, <1>16, <1>17, <1>18, <1>19
     DEF Next, LeaderStep, Raise

(* Every row, table and thread of the Agent keeps a value of its type. *)
THEOREM TypeCorrect == Spec => []TypeOK
BY TypeInit, TypeStep, PTL DEF Spec

-----------------------------------------------------------------------------
(* The inductive invariant *)

LEMMA JournalInit == Init => JournalInv
BY Defaults, AgentAssumption
   DEF Init, JournalInv, LeaderInv, OneOpen, CommandInv, ReplyInv, AnswerInv,
       LateInv, AtMostOnce, WrittenAhead, VerdictIsTrue, Undecided, Stages,
       Leading, Working, Verdicts, Unsent, Settled, Unknown

(* Two threads that lead do not lead the same operation. *)
LEMMA LeadsAlone ==
  ASSUME LeaderInv, NEW g \in Threads, NEW h \in Threads, g # h,
         pc[g] \in Leading, pc[h] \in Leading
  PROVE  op[g] # op[h]
BY DEF LeaderInv

LEMMA ReceiveKeeps ==
  ASSUME TypeOK, TypeOK', JournalInv, NEW h \in Threads, NEW o \in Ops, NEW b
         \in Bodies, Receive(h, o, b)
  PROVE  JournalInv'
<1> USE AgentAssumption
    DEF Receive, Goto, journalVars, outside, bounds, TypeOK, JournalInv,
        Stages, Leading, Working, Undecided
<1>1. \A g \in Threads :
        g # h /\ pc[g] \in Leading /\ pc[h] \in Leading => op[g] # op[h]
  BY LeadsAlone
<1>2. LeaderInv'
  BY <1>1 DEF LeaderInv
<1>3. OneOpen'
  BY DEF OneOpen
<1>4. CommandInv'
  BY <1>1 DEF CommandInv, AtMostOnce, WrittenAhead, VerdictIsTrue
<1>5. ReplyInv'
  BY <1>1 DEF ReplyInv, LeaderInv, CommandInv, WrittenAhead, VerdictIsTrue
<1>6. AnswerInv'
  BY DEF AnswerInv, ReplyInv
<1>7. LateInv'
  BY DEF LateInv, Target
<1> QED
  BY <1>2, <1>3, <1>4, <1>5, <1>6, <1>7

LEMMA BeginKeeps ==
  ASSUME TypeOK, TypeOK', JournalInv, NEW h \in Threads, Begin(h)
  PROVE  JournalInv'
<1> USE AgentAssumption
    DEF Begin, Conclude, Proceed, Goto, memory, outside, bounds, TypeOK,
        JournalInv, Stages, Leading, Working, Undecided, Verdicts, Unsent,
        Settled, Unknown
<1>1. \A g \in Threads :
        g # h /\ pc[g] \in Leading /\ pc[h] \in Leading => op[g] # op[h]
  BY LeadsAlone
<1>2. LeaderInv'
  BY <1>1 DEF LeaderInv
<1>3. OneOpen'
  BY DEF OneOpen, OtherInProgress, Target
<1>4. CommandInv'
  BY <1>1 DEF CommandInv, LeaderInv, AtMostOnce, WrittenAhead, VerdictIsTrue
<1>5. ReplyInv'
  BY <1>1 DEF ReplyInv, LeaderInv, CommandInv, WrittenAhead, VerdictIsTrue
<1>6. AnswerInv'
  BY DEF AnswerInv, ReplyInv
<1>7. LateInv'
  BY DEF LateInv, Target
<1> QED
  BY <1>2, <1>3, <1>4, <1>5, <1>6, <1>7

LEMMA BeginRaisesKeeps ==
  ASSUME TypeOK, TypeOK', JournalInv, NEW h \in Threads, BeginRaises(h)
  PROVE  JournalInv'
<1> USE AgentAssumption
    DEF BeginRaises, JournalRaises, Proceed, Goto, journalVars, memory,
        outside, TypeOK, JournalInv, Stages, Leading, Working, Undecided
<1>1. \A g \in Threads :
        g # h /\ pc[g] \in Leading /\ pc[h] \in Leading => op[g] # op[h]
  BY LeadsAlone
<1>2. LeaderInv'
  BY <1>1 DEF LeaderInv
<1>3. OneOpen'
  BY DEF OneOpen
<1>4. CommandInv'
  BY <1>1 DEF CommandInv, AtMostOnce, WrittenAhead, VerdictIsTrue
<1>5. ReplyInv'
  BY <1>1 DEF ReplyInv, LeaderInv, CommandInv, WrittenAhead, VerdictIsTrue
<1>6. AnswerInv'
  BY DEF AnswerInv, ReplyInv
<1>7. LateInv'
  BY DEF LateInv, Target
<1> QED
  BY <1>2, <1>3, <1>4, <1>5, <1>6, <1>7

LEMMA TakeLockKeeps ==
  ASSUME TypeOK, TypeOK', JournalInv, NEW h \in Threads, TakeLock(h)
  PROVE  JournalInv'
<1> USE AgentAssumption
    DEF TakeLock, Conclude, Proceed, Goto, journalVars, outside, bounds,
        TypeOK, JournalInv, Stages, Leading, Working, Undecided, Verdicts,
        Unsent, Settled, Unknown
<1>1. \A g \in Threads :
        g # h /\ pc[g] \in Leading /\ pc[h] \in Leading => op[g] # op[h]
  BY LeadsAlone
<1>2. LeaderInv'
  BY <1>1 DEF LeaderInv
<1>3. OneOpen'
  BY DEF OneOpen
<1>4. CommandInv'
  BY <1>1 DEF CommandInv, AtMostOnce, WrittenAhead, VerdictIsTrue
<1>5. ReplyInv'
  BY <1>1 DEF ReplyInv, LeaderInv, CommandInv, WrittenAhead, VerdictIsTrue
<1>6. AnswerInv'
  BY DEF AnswerInv, ReplyInv
<1>7. LateInv'
  BY DEF LateInv, Target
<1> QED
  BY <1>2, <1>3, <1>4, <1>5, <1>6, <1>7

LEMMA ObserveKeeps ==
  ASSUME TypeOK, TypeOK', JournalInv, NEW h \in Threads, Observe(h)
  PROVE  JournalInv'
<1> USE AgentAssumption
    DEF Observe, Conclude, Proceed, Goto, Target, journalVars, memory,
        outside, bounds, TypeOK, JournalInv, Stages, Leading, Working,
        Undecided, Verdicts, Unsent, Settled, Unknown
<1>1. \A g \in Threads :
        g # h /\ pc[g] \in Leading /\ pc[h] \in Leading => op[g] # op[h]
  BY LeadsAlone
<1>2. LeaderInv'
  BY <1>1 DEF LeaderInv
<1>3. OneOpen'
  BY DEF OneOpen
<1>4. CommandInv'
  BY <1>1 DEF CommandInv, AtMostOnce, WrittenAhead, VerdictIsTrue
<1>5. ReplyInv'
  BY <1>1 DEF ReplyInv, LeaderInv, CommandInv, WrittenAhead, VerdictIsTrue
<1>6. AnswerInv'
  BY DEF AnswerInv, ReplyInv
<1>7. LateInv'
  BY DEF LateInv
<1> QED
  BY <1>2, <1>3, <1>4, <1>5, <1>6, <1>7

LEMMA MarkDispatchedKeeps ==
  ASSUME TypeOK, TypeOK', JournalInv, NEW h \in Threads, MarkDispatched(h)
  PROVE  JournalInv'
<1> USE AgentAssumption
    DEF MarkDispatched, Proceed, Goto, Target, memory, outside, bounds,
        TypeOK, JournalInv, Stages, Leading, Working, Undecided
<1>1. \A g \in Threads :
        g # h /\ pc[g] \in Leading /\ pc[h] \in Leading => op[g] # op[h]
  BY LeadsAlone
<1>2. LeaderInv'
  BY <1>1 DEF LeaderInv
<1>3. OneOpen'
  BY DEF OneOpen
<1>4. CommandInv'
  BY <1>1 DEF CommandInv, LeaderInv, AtMostOnce, WrittenAhead, VerdictIsTrue
<1>5. ReplyInv'
  BY <1>1 DEF ReplyInv, LeaderInv, CommandInv, WrittenAhead, VerdictIsTrue
<1>6. AnswerInv'
  BY DEF AnswerInv, ReplyInv
<1>7. LateInv'
  BY DEF LateInv
<1> QED
  BY <1>2, <1>3, <1>4, <1>5, <1>6, <1>7

LEMMA MarkDispatchedRaisesKeeps ==
  ASSUME TypeOK, TypeOK', JournalInv, NEW h \in Threads,
         MarkDispatchedRaises(h)
  PROVE  JournalInv'
<1> USE AgentAssumption
    DEF MarkDispatchedRaises, JournalRaises, Conclude, Goto, journalVars,
        memory, outside, TypeOK, JournalInv, Stages, Leading, Working,
        Undecided, Verdicts, Unsent, Settled, Unknown
<1>1. \A g \in Threads :
        g # h /\ pc[g] \in Leading /\ pc[h] \in Leading => op[g] # op[h]
  BY LeadsAlone
<1>2. LeaderInv'
  BY <1>1 DEF LeaderInv
<1>3. OneOpen'
  BY DEF OneOpen
<1>4. CommandInv'
  BY <1>1 DEF CommandInv, AtMostOnce, WrittenAhead, VerdictIsTrue
<1>5. ReplyInv'
  BY <1>1 DEF ReplyInv, LeaderInv, CommandInv, WrittenAhead, VerdictIsTrue
<1>6. AnswerInv'
  BY DEF AnswerInv, ReplyInv
<1>7. LateInv'
  BY DEF LateInv, Target
<1> QED
  BY <1>2, <1>3, <1>4, <1>5, <1>6, <1>7

LEMMA SendKeeps ==
  ASSUME TypeOK, TypeOK', JournalInv, NEW h \in Threads, Send(h)
  PROVE  JournalInv'
<1> USE AgentAssumption
    DEF Send, Conclude, Proceed, Goto, Target, journalVars, memory, outside,
        bounds, TypeOK, JournalInv, Stages, Leading, Working, Undecided,
        Verdicts, Unsent, Settled, Unknown
<1>1. \A g \in Threads :
        g # h /\ pc[g] \in Leading /\ pc[h] \in Leading => op[g] # op[h]
  BY LeadsAlone
<1>2. LeaderInv'
  BY <1>1 DEF LeaderInv
<1>3. OneOpen'
  BY DEF OneOpen
<1>4. CommandInv'
  <2>1. CASE /\ sent' = [sent EXCEPT ![op[h]] = @ + 1]
             /\ flying' = flying \cup {op[h]}
             /\ Proceed(h, "sent")
    <3>1. /\ sent[op[h]] = 0 /\ journal[op[h]] = "in_progress"
          /\ dispatched[op[h]]
      BY DEF CommandInv, LeaderInv
    <3>2. AtMostOnce' /\ WrittenAhead'
      BY <2>1, <3>1 DEF CommandInv, AtMostOnce, WrittenAhead
    <3>3. VerdictIsTrue'
      BY <2>1, <3>1 DEF CommandInv, VerdictIsTrue
    <3>4. \A o \in flying' : sent'[o] > 0
      BY <2>1, <3>1 DEF CommandInv
    <3> QED
      BY <1>1, <2>1, <3>1, <3>2, <3>3, <3>4 DEF CommandInv
  <2>2. CASE /\ \E v \in {"failed_before", "indeterminate"} :
                  Conclude(h, v, "handling")
             /\ UNCHANGED outside
    BY <1>1, <2>2 DEF CommandInv, AtMostOnce, WrittenAhead, VerdictIsTrue
  <2> QED
    BY <2>1, <2>2
<1>5. ReplyInv'
  BY <1>1 DEF ReplyInv, LeaderInv, CommandInv, WrittenAhead, VerdictIsTrue
<1>6. AnswerInv'
  BY DEF AnswerInv, ReplyInv
<1>7. LateInv'
  <2>1. ASSUME NEW g \in Threads, g # h, pc[g] \in {"ready", "marked"}
        PROVE  Target(g) # Target(h)
    BY <1>1, <2>1 DEF LeaderInv, OneOpen
  <2>2. CASE /\ late' = IF Target(h) \in managed THEN late
                        ELSE [late EXCEPT ![Target(h)] = @ + 1]
             /\ Proceed(h, "sent")
    <3>1. Target(h) \in Targets /\ late[Target(h)] \in Nat
      OBVIOUS
    <3>2. late[Target(h)] = 0
      <4>1. LateInv /\ pc[h] = "marked"
        OBVIOUS
      <4>2. late[Target(h)] <= 1 /\ late[Target(h)] # 1
        BY <3>1, <4>1 DEF LateInv
      <4>3. \A n \in Nat : n <= 1 /\ n # 1 => n = 0
        OBVIOUS
      <4> QED
        BY ONLY <3>1, <4>2, <4>3
    <3>3. /\ late' \in [Targets -> Nat]
          /\ \A t \in Targets : t # Target(h) => late'[t] = late[t]
          /\ late'[Target(h)] = IF Target(h) \in managed THEN 0 ELSE 1
      BY <2>2, <3>1, <3>2
    <3>4. \A g \in Threads : pc'[g] \in {"ready", "marked"}
                              => g # h /\ pc[g] \in {"ready", "marked"}
      BY <2>2
    <3>5. managed' = managed /\ body' = body
      BY <2>2
    <3> QED
      BY <2>1, <3>1, <3>3, <3>4, <3>5 DEF LateInv
  <2>3. CASE /\ \E v \in {"failed_before", "indeterminate"} :
                  Conclude(h, v, "handling")
             /\ UNCHANGED outside
    BY <2>3 DEF LateInv
  <2> QED
    BY <2>2, <2>3
<1> QED
  BY <1>2, <1>3, <1>4, <1>5, <1>6, <1>7

LEMMA ReturnKeeps ==
  ASSUME TypeOK, TypeOK', JournalInv, NEW h \in Threads, Return(h)
  PROVE  JournalInv'
<1> USE AgentAssumption
    DEF Return, Conclude, Proceed, Goto, journalVars, memory, outside, bounds,
        TypeOK, JournalInv, Stages, Leading, Working, Undecided, Verdicts,
        Unsent, Settled, Unknown
<1>1. \A g \in Threads :
        g # h /\ pc[g] \in Leading /\ pc[h] \in Leading => op[g] # op[h]
  BY LeadsAlone
<1>2. LeaderInv'
  BY <1>1 DEF LeaderInv
<1>3. OneOpen'
  BY DEF OneOpen
<1>4. CommandInv'
  BY <1>1 DEF CommandInv, AtMostOnce, WrittenAhead, VerdictIsTrue
<1>5. ReplyInv'
  BY <1>1 DEF ReplyInv, LeaderInv, CommandInv, WrittenAhead, VerdictIsTrue
<1>6. AnswerInv'
  BY DEF AnswerInv, ReplyInv
<1>7. LateInv'
  BY DEF LateInv, Target
<1> QED
  BY <1>2, <1>3, <1>4, <1>5, <1>6, <1>7

LEMMA CheckKeeps ==
  ASSUME TypeOK, TypeOK', JournalInv, NEW h \in Threads, Check(h)
  PROVE  JournalInv'
<1> USE AgentAssumption
    DEF Check, Conclude, Proceed, Goto, journalVars, memory, outside, bounds,
        TypeOK, JournalInv, Stages, Leading, Working, Undecided, Verdicts,
        Unsent, Settled, Unknown
<1>1. \A g \in Threads :
        g # h /\ pc[g] \in Leading /\ pc[h] \in Leading => op[g] # op[h]
  BY LeadsAlone
<1>2. LeaderInv'
  BY <1>1 DEF LeaderInv
<1>3. OneOpen'
  BY DEF OneOpen
<1>4. CommandInv'
  BY <1>1 DEF CommandInv, AtMostOnce, WrittenAhead, VerdictIsTrue
<1>5. ReplyInv'
  BY <1>1 DEF ReplyInv, LeaderInv, CommandInv, WrittenAhead, VerdictIsTrue
<1>6. AnswerInv'
  BY DEF AnswerInv, ReplyInv
<1>7. LateInv'
  BY DEF LateInv, Target
<1> QED
  BY <1>2, <1>3, <1>4, <1>5, <1>6, <1>7

LEMMA FinishKeeps ==
  ASSUME TypeOK, TypeOK', JournalInv, NEW h \in Threads, Finish(h)
  PROVE  JournalInv'
<1> USE AgentAssumption
    DEF Finish, Proceed, Goto, memory, outside, bounds, TypeOK, JournalInv,
        Stages, Leading, Working, Undecided, Verdicts, Unsent, Settled,
        Unknown
<1>1. \A g \in Threads :
        g # h /\ pc[g] \in Leading /\ pc[h] \in Leading => op[g] # op[h]
  BY LeadsAlone
<1>2. LeaderInv'
  BY <1>1 DEF LeaderInv
<1>3. OneOpen'
  BY DEF OneOpen
<1>4. CommandInv'
  <2>1. /\ reply[h] \in Verdicts
        /\ reply[h] \in Unsent => sent[op[h]] = 0
        /\ reply[h] \in Settled => sent[op[h]] = 1 /\ op[h] \notin flying
    BY DEF ReplyInv
  <2>2. AtMostOnce' /\ WrittenAhead'
    BY <2>1 DEF CommandInv, AtMostOnce, WrittenAhead
  <2>3. VerdictIsTrue'
    BY <2>1 DEF CommandInv, VerdictIsTrue
  <2> QED
    BY <1>1, <2>2, <2>3 DEF CommandInv
<1>5. ReplyInv'
  BY <1>1 DEF ReplyInv, LeaderInv, CommandInv, WrittenAhead, VerdictIsTrue
<1>6. AnswerInv'
  BY DEF AnswerInv, ReplyInv
<1>7. LateInv'
  BY DEF LateInv, Target
<1> QED
  BY <1>2, <1>3, <1>4, <1>5, <1>6, <1>7

LEMMA FinishRaisesKeeps ==
  ASSUME TypeOK, TypeOK', JournalInv, NEW h \in Threads, FinishRaises(h)
  PROVE  JournalInv'
<1> USE AgentAssumption
    DEF FinishRaises, JournalRaises, Conclude, Goto, journalVars, memory,
        outside, TypeOK, JournalInv, Stages, Leading, Working, Undecided,
        Verdicts, Unsent, Settled, Unknown
<1>1. \A g \in Threads :
        g # h /\ pc[g] \in Leading /\ pc[h] \in Leading => op[g] # op[h]
  BY LeadsAlone
<1>2. LeaderInv'
  BY <1>1 DEF LeaderInv
<1>3. OneOpen'
  BY DEF OneOpen
<1>4. CommandInv'
  BY <1>1 DEF CommandInv, AtMostOnce, WrittenAhead, VerdictIsTrue
<1>5. ReplyInv'
  BY <1>1 DEF ReplyInv, LeaderInv, CommandInv, WrittenAhead, VerdictIsTrue
<1>6. AnswerInv'
  BY DEF AnswerInv, ReplyInv
<1>7. LateInv'
  BY DEF LateInv, Target
<1> QED
  BY <1>2, <1>3, <1>4, <1>5, <1>6, <1>7

LEMMA UnlockKeeps ==
  ASSUME TypeOK, TypeOK', JournalInv, NEW h \in Threads, Unlock(h)
  PROVE  JournalInv'
<1> USE AgentAssumption
    DEF Unlock, Proceed, Goto, journalVars, outside, bounds, TypeOK,
        JournalInv, Stages, Leading, Working, Undecided
<1>1. \A g \in Threads :
        g # h /\ pc[g] \in Leading /\ pc[h] \in Leading => op[g] # op[h]
  BY LeadsAlone
<1>2. LeaderInv'
  BY <1>1 DEF LeaderInv
<1>3. OneOpen'
  BY DEF OneOpen
<1>4. CommandInv'
  BY <1>1 DEF CommandInv, AtMostOnce, WrittenAhead, VerdictIsTrue
<1>5. ReplyInv'
  BY <1>1 DEF ReplyInv, LeaderInv, CommandInv, WrittenAhead, VerdictIsTrue
<1>6. AnswerInv'
  BY DEF AnswerInv, ReplyInv
<1>7. LateInv'
  BY DEF LateInv, Target
<1> QED
  BY <1>2, <1>3, <1>4, <1>5, <1>6, <1>7

LEMMA LeaveKeeps ==
  ASSUME TypeOK, TypeOK', JournalInv, NEW h \in Threads, Leave(h)
  PROVE  JournalInv'
<1> USE AgentAssumption
    DEF Leave, Retire, Answer, journalVars, outside, bounds, TypeOK,
        JournalInv, Stages, Leading, Working, Undecided, Verdicts, Unsent,
        Settled, Unknown
<1>1. \A g \in Threads :
        g # h /\ pc[g] \in Leading /\ pc[h] \in Leading => op[g] # op[h]
  BY LeadsAlone
<1>2. LeaderInv'
  BY <1>1 DEF LeaderInv
<1>3. OneOpen'
  BY DEF OneOpen
<1>4. CommandInv'
  BY <1>1 DEF CommandInv, AtMostOnce, WrittenAhead, VerdictIsTrue
<1>5. ReplyInv'
  BY <1>1 DEF ReplyInv, LeaderInv, CommandInv, WrittenAhead, VerdictIsTrue
<1>6. AnswerInv'
  BY DEF AnswerInv, ReplyInv
<1>7. LateInv'
  BY DEF LateInv, Target
<1> QED
  BY <1>2, <1>3, <1>4, <1>5, <1>6, <1>7

LEMMA ReplayKeeps ==
  ASSUME TypeOK, TypeOK', JournalInv, NEW h \in Threads, Replay(h)
  PROVE  JournalInv'
<1> USE AgentAssumption
    DEF Replay, Retire, Answer, Goto, journalVars, memory, outside, bounds,
        TypeOK, JournalInv, Stages, Leading, Working, Undecided, Verdicts,
        Unsent, Settled, Unknown
<1>1. \A g \in Threads :
        g # h /\ pc[g] \in Leading /\ pc[h] \in Leading => op[g] # op[h]
  BY LeadsAlone
<1>2. LeaderInv'
  BY <1>1 DEF LeaderInv
<1>3. OneOpen'
  BY DEF OneOpen
<1>4. CommandInv'
  BY <1>1 DEF CommandInv, AtMostOnce, WrittenAhead, VerdictIsTrue
<1>5. ReplyInv'
  BY <1>1 DEF ReplyInv, LeaderInv, CommandInv, WrittenAhead, VerdictIsTrue
<1>6. AnswerInv'
  BY DEF AnswerInv, ReplyInv
<1>7. LateInv'
  BY DEF LateInv, Target
<1> QED
  BY <1>2, <1>3, <1>4, <1>5, <1>6, <1>7

LEMMA LandKeeps ==
  ASSUME TypeOK, JournalInv, NEW o \in Ops, Land(o)
  PROVE  JournalInv'
<1> USE DEF Land, TypeOK, JournalInv, journalVars, memory, threads, bounds
<1>1. LeaderInv' /\ OneOpen' /\ AnswerInv' /\ LateInv'
  BY DEF LeaderInv, OneOpen, AnswerInv, LateInv, Target
<1>2. CommandInv' /\ ReplyInv'
  BY DEF CommandInv, AtMostOnce, WrittenAhead, VerdictIsTrue, ReplyInv
<1> QED
  BY <1>1, <1>2

LEMMA SetPolicyKeeps ==
  ASSUME TypeOK, JournalInv, NEW t \in Targets, SetPolicy(t)
  PROVE  JournalInv'
<1> USE DEF SetPolicy, TypeOK, JournalInv, journalVars, memory, threads, bounds
<1>1. LeaderInv' /\ OneOpen' /\ AnswerInv'
  BY DEF LeaderInv, OneOpen, AnswerInv
<1>2. CommandInv' /\ ReplyInv'
  BY DEF CommandInv, AtMostOnce, WrittenAhead, VerdictIsTrue, ReplyInv
<1>3. LateInv'
  BY DEF LateInv, Target
<1> QED
  BY <1>1, <1>2, <1>3

(* A restart keeps no thread, and closes what it finds open. *)
LEMMA RestartKeeps ==
  ASSUME TypeOK, JournalInv, Restart
  PROVE  JournalInv'
<1> USE DEF Restart, TypeOK, JournalInv, outside, Stages, Leading, Working,
            Undecided
<1>1. LeaderInv' /\ OneOpen' /\ ReplyInv'
  BY DEF LeaderInv, OneOpen, ReplyInv
<1>2. CommandInv'
  BY DEF CommandInv, AtMostOnce, WrittenAhead, VerdictIsTrue, Unsent, Settled
<1>3. AnswerInv' /\ LateInv'
  BY DEF AnswerInv, LateInv, Verdicts, Unsent, Settled, Unknown
<1> QED
  BY <1>1, <1>2, <1>3

LEMMA JournalStep == TypeOK /\ TypeOK' /\ JournalInv /\ [Next]_vars => JournalInv'
<1> SUFFICES ASSUME TypeOK, TypeOK', JournalInv, [Next]_vars PROVE JournalInv'
  OBVIOUS
<1>1. CASE UNCHANGED vars
  BY <1>1 DEF vars, journalVars, memory, threads, outside, bounds, JournalInv,
     LeaderInv, OneOpen, CommandInv, ReplyInv, AnswerInv, LateInv, AtMostOnce,
     WrittenAhead, VerdictIsTrue, Target
<1>2. ASSUME NEW h \in Threads,
             \/ \E o \in Ops, b \in Bodies : Receive(h, o, b)
             \/ LeaderStep(h) \/ Raise(h) \/ Replay(h)
      PROVE  JournalInv'
  BY <1>2, ReceiveKeeps, BeginKeeps, BeginRaisesKeeps, TakeLockKeeps,
     ObserveKeeps, MarkDispatchedKeeps, MarkDispatchedRaisesKeeps, SendKeeps,
     ReturnKeeps, CheckKeeps, FinishKeeps, FinishRaisesKeeps, UnlockKeeps,
     LeaveKeeps, ReplayKeeps
     DEF LeaderStep, Raise
<1> QED
  BY <1>1, <1>2, LandKeeps, SetPolicyKeeps, RestartKeeps DEF Next

(* The invariant from which the others follow: who leads what, what is open,
   what a thread knows of its command and what it may answer. *)
THEOREM JournalInvariant == Spec => [](TypeOK /\ JournalInv)
<1>1. Init => TypeOK /\ JournalInv
  BY TypeInit, JournalInit
<1>2. TypeOK /\ JournalInv /\ [Next]_vars => (TypeOK /\ JournalInv)'
  BY TypeStep, JournalStep
<1> QED
  BY <1>1, <1>2, PTL DEF Spec

(* One command per operation_id, whatever repeats or restarts. *)
THEOREM CommandAtMostOnce == Spec => []AtMostOnce
<1>1. JournalInv => AtMostOnce
  BY DEF JournalInv, CommandInv
<1> QED
  BY <1>1, JournalInvariant, PTL

(* No command leaves before the journal says that it may have left. *)
THEOREM JournalIsWrittenAhead == Spec => []WrittenAhead
<1>1. JournalInv => WrittenAhead
  BY DEF JournalInv, CommandInv
<1> QED
  BY <1>1, JournalInvariant, PTL

(* What the journal says of a command is true. *)
THEOREM VerdictsAreTrue == Spec => []VerdictIsTrue
<1>1. JournalInv => VerdictIsTrue
  BY DEF JournalInv, CommandInv
<1> QED
  BY <1>1, JournalInvariant, PTL

(* Two commands on one target overlap only after an unknown outcome. *)
THEOREM OverlapsAreKnown == Spec => []OverlapIsKnown
<1>1. TypeOK /\ JournalInv => OverlapIsKnown
  <2> SUFFICES ASSUME TypeOK, JournalInv, NEW o \in flying, NEW p \in flying,
                      o # p, TargetOf[what[o]] = TargetOf[what[p]]
               PROVE  journal[o] \in Unknown \/ journal[p] \in Unknown
    BY DEF OverlapIsKnown
  <2>1. ASSUME NEW q \in flying
        PROVE  journal[q] \in {"in_progress"} \cup Unknown
    BY <2>1 DEF TypeOK, JournalInv, CommandInv, WrittenAhead, VerdictIsTrue,
       Verdicts, Unsent, Settled
  <2> QED
    BY <2>1 DEF TypeOK, JournalInv, OneOpen
<1> QED
  BY <1>1, JournalInvariant, PTL

(* All the answers ever given for an operation are the same. *)
THEOREM OneAnswer == Spec => []AnswersAgree
<1>1. JournalInv => AnswersAgree
  <2> SUFFICES ASSUME JournalInv, NEW o \in Ops
               PROVE  Cardinality(answers[o]) <= 1
    BY DEF AnswersAgree
  <2>1. answers[o] = {} \/ answers[o] = {<<what[o], journal[o]>>}
    BY DEF JournalInv, AnswerInv
  <2>2. Cardinality({}) = 0 /\ Cardinality({<<what[o], journal[o]>>}) = 1
    BY FS_EmptySet, FS_Singleton
  <2> QED
    BY <2>1, <2>2
<1> QED
  BY <1>1, JournalInvariant, PTL

(* Of the actions that were under way when a policy is withdrawn, at most one
   per target still sends its command. *)
THEOREM AtMostOneLate == Spec => []OneLateCommand
<1>1. JournalInv => OneLateCommand
  BY DEF JournalInv, LateInv, OneLateCommand
<1> QED
  BY <1>1, JournalInvariant, PTL

-----------------------------------------------------------------------------
(* Nothing is leaked: the tables of the process, and the open rows *)

(* The three parts of Attended. *)
Registered == \A o \in Ops : leader[o] # Nobody =>
                pc[leader[o]] \in Leading /\ op[leader[o]] = o
Holding    == \A t \in Targets : lock[t] # Nobody =>
                pc[lock[t]] \in Locked /\ Target(lock[t]) = t
Awaited    == \A h \in Threads : pc[h] = "following" =>
                leader[op[h]] # Nobody /\ body[leader[op[h]]] = body[h]

LEMMA AttendedParts == Attended <=> Registered /\ Holding /\ Awaited
BY DEF Attended, Registered, Holding, Awaited

LEMMA AttendedPartsNext == Attended' <=> Registered' /\ Holding' /\ Awaited'
BY DEF Attended, Registered, Holding, Awaited

LEMMA NotAttending ==
  ASSUME Attended, NEW h \in Threads
  PROVE  /\ pc[h] \notin Leading => \A o \in Ops : leader[o] # h
         /\ pc[h] \notin Locked => \A t \in Targets : lock[t] # h
         /\ \A t \in Targets : lock[t] = h => t = Target(h)
BY AgentAssumption DEF Attended

(* A thread that goes from one place to another keeps its entries, if it goes
   on leading and gives its lock back when it leaves the places that hold it. *)
MovesTo(h, stage) ==
  /\ pc[h] \in Leading /\ pc' = [pc EXCEPT ![h] = stage]
  /\ \A t \in Targets : /\ lock'[t] \in {lock[t], Nobody, h}
                        /\ lock'[t] = h => t = Target(h) /\ stage \in Locked
  /\ leader' = leader /\ op' = op /\ body' = body

LEMMA MoveAttends ==
  ASSUME TypeOK, Attended, NEW h \in Threads, NEW stage \in Leading,
         MovesTo(h, stage)
  PROVE  Attended'
<1> USE DEF MovesTo
<1>1. \A g \in Threads : pc'[g] = IF g = h THEN stage ELSE pc[g]
  BY DEF TypeOK
<1>2. stage # "following"
  BY DEF Leading, Working
<1>3. Registered /\ Holding /\ Awaited
  BY AttendedParts
<1>4. Registered'
  BY <1>1, <1>3, AgentAssumption DEF Registered, TypeOK
<1>5. Holding'
  BY <1>1, <1>3, AgentAssumption DEF Holding, Target, TypeOK
<1>6. Awaited'
  BY <1>1, <1>2, <1>3 DEF Awaited
<1> QED
  BY <1>4, <1>5, <1>6, AttendedPartsNext

LEMMA Places ==
  /\ Leading = Locked \cup {"started", "leading", "leaving"}
  /\ "observing" \in Locked /\ "ready" \in Locked /\ "marked" \in Locked
  /\ "sent" \in Locked /\ "checking" \in Locked /\ "concluding" \in Locked
  /\ "handling" \in Locked /\ "unlocking" \in Locked
  /\ {"started", "leading", "leaving"} \cap Locked = {}
  /\ {"idle", "following", "woken"} \cap Leading = {}
BY DEF Leading, Working, Locked

LEMMA AttendedKept ==
  ASSUME TypeOK, JournalInv, Attended, NEW h \in Threads,
         \/ \E o \in Ops, b \in Bodies : Receive(h, o, b)
         \/ LeaderStep(h) \/ Raise(h) \/ Replay(h)
  PROVE  Attended'
<1> USE Places DEF Conclude, Proceed, Goto, memory, threads
<1>0. Registered /\ Holding /\ Awaited
  BY AttendedParts
<1>1. ASSUME NEW o \in Ops, NEW b \in Bodies, Receive(h, o, b)
      PROVE  Attended'
  <2>1. /\ \A p \in Ops : leader[p] # h
        /\ \A t \in Targets : lock[t] # h
    BY <1>1, NotAttending DEF Receive
  <2>2. Registered'
    BY <1>0, <1>1, <2>1 DEF Receive, Registered, TypeOK
  <2>3. Holding'
    BY <1>0, <1>1, <2>1 DEF Receive, Holding, Target, TypeOK
  <2>4. Awaited'
    BY <1>0, <1>1, <2>1, AgentAssumption DEF Receive, Awaited, TypeOK
  <2> QED
    BY <2>2, <2>3, <2>4, AttendedPartsNext
<1>2. CASE Begin(h) \/ BeginRaises(h)
  <2>1. PICK stage \in Leading :
          /\ pc' = [pc EXCEPT ![h] = stage]
          /\ leader' = leader /\ lock' = lock /\ op' = op /\ body' = body
          /\ pc[h] = "leading"
    BY <1>2 DEF Begin, BeginRaises
  <2>2. \A t \in Targets : lock[t] # h
    BY <2>1, NotAttending
  <2>3. MovesTo(h, stage)
    BY <2>1, <2>2 DEF MovesTo
  <2> QED
    BY <2>3, MoveAttends
<1>3. CASE TakeLock(h)
  <2>1. \A t \in Targets : lock[t] # h
    BY <1>3, NotAttending DEF TakeLock
  <2>2. pc[h] = "started" /\ leader' = leader /\ op' = op /\ body' = body
    BY <1>3 DEF TakeLock
  <2>3. PICK stage \in Locked :
          /\ pc' = [pc EXCEPT ![h] = stage]
          /\ lock' \in {lock, [lock EXCEPT ![Target(h)] = h]}
    BY <1>3 DEF TakeLock
  <2>4. stage \in Leading /\ MovesTo(h, stage)
    BY <2>1, <2>2, <2>3 DEF MovesTo, TypeOK
  <2> QED
    BY <2>4, MoveAttends
<1>4. CASE \/ Observe(h) \/ MarkDispatched(h) \/ MarkDispatchedRaises(h)
           \/ Send(h) \/ Return(h) \/ Check(h)
  <2>1. PICK stage \in Locked :
          /\ pc' = [pc EXCEPT ![h] = stage]
          /\ leader' = leader /\ lock' = lock /\ op' = op /\ body' = body
          /\ pc[h] \in Leading
    BY <1>4 DEF Observe, MarkDispatched, MarkDispatchedRaises, Send, Return,
       Check
  <2>2. stage \in Leading /\ MovesTo(h, stage)
    BY <2>1, NotAttending DEF MovesTo
  <2> QED
    BY <2>2, MoveAttends
<1>5. CASE Finish(h) \/ FinishRaises(h)
  <2>1. PICK stage \in Leading :
          /\ pc' = [pc EXCEPT ![h] = stage]
          /\ stage \in Locked \/ lock[Target(h)] # h
          /\ leader' = leader /\ lock' = lock /\ op' = op /\ body' = body
          /\ pc[h] \in Leading
    BY <1>5 DEF Finish, FinishRaises
  <2>2. MovesTo(h, stage)
    BY <2>1, NotAttending DEF MovesTo
  <2> QED
    BY <2>2, MoveAttends
<1>6. CASE Unlock(h)
  <2>1. /\ pc' = [pc EXCEPT ![h] = "leaving"]
        /\ lock' = [lock EXCEPT ![Target(h)] = Nobody]
        /\ leader' = leader /\ op' = op /\ body' = body
        /\ pc[h] = "unlocking"
    BY <1>6 DEF Unlock
  <2>2. \A t \in Targets : lock'[t] # h /\ lock'[t] \in {lock[t], Nobody, h}
    BY <2>1, NotAttending, AgentAssumption DEF TypeOK
  <2>3. "leaving" \in Leading /\ MovesTo(h, "leaving")
    BY <2>1, <2>2 DEF MovesTo
  <2> QED
    BY <2>3, MoveAttends
<1>7. CASE Leave(h) \/ Replay(h)
  <2>1. \A t \in Targets : lock[t] # h
    BY <1>7, NotAttending DEF Leave, Replay
  <2>2. /\ lock' = lock
        /\ \A g \in Threads \ {h} :
             /\ pc'[g] \in {pc[g], "woken"} /\ (pc'[g] # pc[g] => pc[g] = "following")
             /\ op'[g] = op[g] /\ body'[g] = body[g]
        /\ pc'[h] = "idle"
    BY <1>7 DEF Leave, Replay, Retire, TypeOK
  <2>3. Holding'
    BY <1>0, <2>1, <2>2 DEF Holding, Target, TypeOK
  <2>4. CASE Leave(h)
    <3>1. leader[op[h]] = h /\ leader' = [leader EXCEPT ![op[h]] = Nobody]
      BY <2>4 DEF Leave, JournalInv, LeaderInv
    <3>2. \A o \in Ops : leader'[o] # Nobody =>
            leader'[o] = leader[o] /\ leader[o] # h /\ leader[o] \in Threads
      BY <1>0, <3>1 DEF Registered, TypeOK
    <3>3. \A g \in Threads : pc'[g] = "following" =>
            pc[g] = "following" /\ op[g] # op[h] /\ g # h
      BY <2>4 DEF Leave, TypeOK
    <3>4. Registered'
      BY <1>0, <2>2, <3>2 DEF Registered
    <3>5. Awaited'
      BY <1>0, <2>2, <3>1, <3>2, <3>3 DEF Awaited, TypeOK
    <3> QED
      BY <2>3, <3>4, <3>5, AttendedPartsNext
  <2>5. CASE Replay(h)
    <3>1. leader' = leader /\ \A o \in Ops : leader[o] # h
      BY <2>5, NotAttending DEF Replay
    <3>2. Registered'
      BY <1>0, <2>2, <3>1 DEF Registered, TypeOK
    <3>3. Awaited'
      BY <1>0, <2>2, <3>1 DEF Awaited, TypeOK
    <3> QED
      BY <2>3, <3>2, <3>3, AttendedPartsNext
  <2> QED
    BY <1>7, <2>4, <2>5
<1> QED
  BY <1>1, <1>2, <1>3, <1>4, <1>5, <1>6, <1>7 DEF LeaderStep, Raise

(* A row loses its thread only where finish raises. *)
LEMMA OrphansKept ==
  ASSUME TypeOK, JournalInv, NEW h \in Threads,
         \/ \E o \in Ops, b \in Bodies : Receive(h, o, b)
         \/ LeaderStep(h) \/ BeginRaises(h) \/ MarkDispatchedRaises(h)
         \/ Replay(h)
  PROVE  Orphans' \subseteq Orphans
<1> USE DEF Orphans, TypeOK, Conclude, Proceed, Goto, Retire, journalVars,
            memory, threads, Working
<1>1. ASSUME NEW o \in Ops, NEW b \in Bodies, Receive(h, o, b)
      PROVE  Orphans' \subseteq Orphans
  BY <1>1 DEF Receive
<1>2. CASE Begin(h) \/ BeginRaises(h)
  BY <1>2 DEF Begin, BeginRaises
<1>3. CASE TakeLock(h) \/ Observe(h)
  BY <1>3 DEF TakeLock, Observe
<1>4. CASE MarkDispatched(h) \/ MarkDispatchedRaises(h)
  BY <1>4 DEF MarkDispatched, MarkDispatchedRaises
<1>5. CASE Send(h) \/ Return(h) \/ Check(h)
  BY <1>5 DEF Send, Return, Check
<1>6. CASE Finish(h)
  <2>1. journal'[op[h]] # "in_progress"
    BY <1>6 DEF Finish, JournalInv, ReplyInv, Verdicts, Unsent, Settled,
       Unknown
  <2> QED
    BY <1>6, <2>1 DEF Finish
<1>7. CASE Unlock(h) \/ Leave(h) \/ Replay(h)
  BY <1>7 DEF Unlock, Leave, Replay
<1> QED
  BY <1>1, <1>2, <1>3, <1>4, <1>5, <1>6, <1>7 DEF LeaderStep

LEMMA OrphanAdded ==
  ASSUME TypeOK, NEW h \in Threads, FinishRaises(h)
  PROVE  /\ Orphans' \subseteq Orphans \cup {op[h]}
         /\ failures' = failures + 1
BY DEF FinishRaises, JournalRaises, Conclude, Goto, Orphans, TypeOK,
   journalVars, Working

Leaks == IsFiniteSet(Orphans) /\ Cardinality(Orphans) <= failures

LEMMA LeaksKept ==
  ASSUME TypeOK, TypeOK', JournalInv, Leaks, [Next]_vars
  PROVE  Leaks'
<1> USE DEF Leaks
<1>1. failures \in Nat /\ failures' \in Nat
  BY AgentAssumption DEF TypeOK
<1>2. ASSUME Orphans' \subseteq Orphans, failures' >= failures PROVE Leaks'
  <2>1. /\ IsFiniteSet(Orphans')
        /\ Cardinality(Orphans') <= Cardinality(Orphans)
    BY <1>2, FS_Subset
  <2>2. Cardinality(Orphans') \in Nat /\ Cardinality(Orphans) \in Nat
    BY <2>1, FS_CardinalityType
  <2> QED
    BY <1>1, <1>2, <2>1, <2>2
<1>3. ASSUME NEW h \in Threads, FinishRaises(h) PROVE Leaks'
  <2>1. /\ Orphans' \subseteq Orphans \cup {op[h]}
        /\ failures' = failures + 1
    BY <1>3, OrphanAdded
  <2>2. /\ IsFiniteSet(Orphans \cup {op[h]})
        /\ \/ Cardinality(Orphans \cup {op[h]}) = Cardinality(Orphans)
           \/ Cardinality(Orphans \cup {op[h]}) = Cardinality(Orphans) + 1
    BY FS_AddElement
  <2>3. /\ IsFiniteSet(Orphans')
        /\ Cardinality(Orphans') <= Cardinality(Orphans \cup {op[h]})
    BY <2>1, <2>2, FS_Subset
  <2>4. /\ Cardinality(Orphans') \in Nat
        /\ Cardinality(Orphans) \in Nat
        /\ Cardinality(Orphans \cup {op[h]}) \in Nat
    BY <2>2, <2>3, FS_CardinalityType
  <2> QED
    BY <1>1, <2>1, <2>2, <2>3, <2>4
<1>4. ASSUME NEW h \in Threads,
             \/ \E o \in Ops, b \in Bodies : Receive(h, o, b)
             \/ LeaderStep(h) \/ Raise(h) \/ Replay(h)
      PROVE  Leaks'
  <2>1. failures' \in {failures, failures + 1}
    BY <1>4 DEF Receive, LeaderStep, Begin, TakeLock, Observe,
       MarkDispatched, Send, Return, Check, Finish, Unlock, Leave, Raise,
       BeginRaises, MarkDispatchedRaises, FinishRaises, Replay, JournalRaises,
       bounds
  <2>2. failures' >= failures
    BY <1>1, <2>1
  <2> QED
    BY <1>2, <1>3, <1>4, <2>2, OrphansKept DEF Raise
<1>5. ASSUME NEW o \in Ops, Land(o) PROVE Leaks'
  BY <1>1, <1>2, <1>5 DEF Land, Orphans, journalVars, threads, bounds
<1>6. ASSUME NEW t \in Targets, SetPolicy(t) PROVE Leaks'
  BY <1>1, <1>2, <1>6 DEF SetPolicy, Orphans, journalVars, threads, bounds
<1>7. CASE Restart
  BY <1>1, <1>2, <1>7 DEF Restart, Orphans, TypeOK, Working
<1>8. CASE UNCHANGED vars
  BY <1>1, <1>2, <1>8 DEF vars, Orphans, journalVars, threads, bounds
<1> QED
  BY <1>4, <1>5, <1>6, <1>7, <1>8 DEF Next

LEMMA AttendedStep ==
  ASSUME TypeOK, JournalInv, Attended, [Next]_vars
  PROVE  Attended'
<1>1. ASSUME NEW o \in Ops, Land(o) PROVE Attended'
  BY <1>1 DEF Land, Attended, Target, memory, threads
<1>2. ASSUME NEW t \in Targets, SetPolicy(t) PROVE Attended'
  BY <1>2 DEF SetPolicy, Attended, Target, memory, threads
<1>3. CASE Restart
  BY <1>3 DEF Restart, Attended
<1>4. CASE UNCHANGED vars
  BY <1>4 DEF vars, Attended, Target, memory, threads
<1> QED
  BY <1>1, <1>2, <1>3, <1>4, AttendedKept DEF Next

(* Whatever raises and whoever waits: tables, locks and events are released by
   their owner, and every row left open is owed to a transaction that raised. *)
THEOREM NothingLeaks == Spec => []NothingIsLeaked
<1>1. Init => Attended /\ Leaks
  <2> SUFFICES ASSUME Init PROVE Attended /\ Leaks
    OBVIOUS
  <2>1. Attended
    BY DEF Init, Attended
  <2>2. Orphans = {}
    BY DEF Init, Orphans
  <2>3. Leaks
    BY <2>2, FS_EmptySet DEF Init, Leaks
  <2> QED
    BY <2>1, <2>3
<1>2. TypeOK /\ JournalInv /\ TypeOK' /\ Attended /\ Leaks /\ [Next]_vars
        => Attended' /\ Leaks'
  <2> SUFFICES ASSUME TypeOK, JournalInv, TypeOK', Attended, Leaks, [Next]_vars
               PROVE  Attended' /\ Leaks'
    OBVIOUS
  <2>1. Attended'
    BY AttendedStep
  <2>2. Leaks'
    BY LeaksKept
  <2> QED
    BY <2>1, <2>2
<1>3. Attended /\ Leaks => NothingIsLeaked
  BY DEF Leaks, NothingIsLeaked
<1> QED
  BY <1>1, <1>2, <1>3, JournalInvariant, PTL DEF Spec

-----------------------------------------------------------------------------
(* A request is no loop *)

LEMMA ThreadAdvances ==
  ASSUME TypeOK, NEW h \in Threads, LeaderStep(h) \/ Raise(h) \/ Replay(h)
  PROVE  StepsLeft[pc'[h]] < StepsLeft[pc[h]]
<1> USE DEF TypeOK, Conclude, Proceed, Goto
<1>1. CASE Begin(h) \/ BeginRaises(h)
  BY <1>1 DEF Begin, BeginRaises, StepsLeft
<1>2. CASE TakeLock(h)
  BY <1>2 DEF TakeLock, StepsLeft
<1>3. CASE Observe(h)
  BY <1>3 DEF Observe, StepsLeft
<1>4. CASE MarkDispatched(h)
  BY <1>4 DEF MarkDispatched, StepsLeft
<1>9. CASE MarkDispatchedRaises(h)
  BY <1>9 DEF MarkDispatchedRaises, StepsLeft
<1>5. CASE Send(h) \/ Return(h)
  BY <1>5 DEF Send, Return, StepsLeft
<1>6. CASE Check(h)
  BY <1>6 DEF Check, StepsLeft
<1>7. CASE Finish(h) \/ FinishRaises(h)
  BY <1>7 DEF Finish, FinishRaises, StepsLeft
<1>8. CASE Unlock(h) \/ Leave(h) \/ Replay(h)
  BY <1>8 DEF Unlock, Leave, Replay, StepsLeft
<1> QED
  BY <1>1, <1>2, <1>3, <1>4, <1>5, <1>6, <1>7, <1>8, <1>9
     DEF LeaderStep, Raise

(* What another thread, a client or the engine does to a busy thread: at most
   its leader wakes it. *)
LEMMA OthersWake ==
  ASSUME TypeOK, [Next]_vars, NEW h \in Threads, pc[h] # "idle",
         ~ (LeaderStep(h) \/ Raise(h) \/ Replay(h))
  PROVE  pc'[h] \in {pc[h], "idle"} \/ (pc[h] = "following" /\ pc'[h] = "woken")
<1> USE DEF TypeOK
<1>1. ASSUME NEW g \in Threads, NEW o \in Ops, NEW b \in Bodies,
             Receive(g, o, b)
      PROVE  pc'[h] = pc[h]
  BY <1>1 DEF Receive, Goto
<1>2. ASSUME NEW g \in Threads, g # h, LeaderStep(g) \/ Raise(g) \/ Replay(g)
      PROVE  pc'[h] = pc[h] \/ (pc[h] = "following" /\ pc'[h] = "woken")
  BY <1>2 DEF Conclude, Proceed, Goto, LeaderStep, Raise, Replay, Begin,
     TakeLock, Observe, MarkDispatched, Send, Return, Check, Finish, Unlock,
     Leave, BeginRaises, MarkDispatchedRaises, FinishRaises
<1>3. ASSUME \/ \E o \in Ops : Land(o)
             \/ \E t \in Targets : SetPolicy(t)
             \/ Restart \/ UNCHANGED vars
      PROVE  pc'[h] \in {pc[h], "idle"}
  BY <1>3 DEF Land, SetPolicy, Restart, vars, threads
<1> QED
  BY <1>1, <1>2, <1>3 DEF Next

(* Every step of a thread, one that raises included, brings its request nearer
   to the answer; nothing ever takes it back. With a fair thread this is why a
   request ends. *)
THEOREM RequestsRunDown == Spec => HandlersAdvance
<1>1. TypeOK /\ [Next]_vars =>
        [\A h \in Threads :
           /\ LeaderStep(h) \/ Raise(h) \/ Replay(h)
                => StepsLeft[pc'[h]] < StepsLeft[pc[h]]
           /\ pc[h] # "idle" => StepsLeft[pc'[h]] <= StepsLeft[pc[h]]]_vars
  <2> SUFFICES ASSUME TypeOK, [Next]_vars, NEW h \in Threads
               PROVE  /\ LeaderStep(h) \/ Raise(h) \/ Replay(h)
                           => StepsLeft[pc'[h]] < StepsLeft[pc[h]]
                      /\ pc[h] # "idle" => StepsLeft[pc'[h]] <= StepsLeft[pc[h]]
    OBVIOUS
  <2>1. \A s \in Stages : StepsLeft[s] \in Nat /\ StepsLeft[s] >= StepsLeft["idle"]
    BY DEF Stages, Leading, Working, StepsLeft
  <2>2. pc[h] \in Stages /\ pc'[h] \in Stages
    BY TypeStep DEF TypeOK
  <2>3. StepsLeft["woken"] < StepsLeft["following"]
    BY DEF StepsLeft
  <2> QED
    BY <2>1, <2>2, <2>3, ThreadAdvances, OthersWake
<1> QED
  BY <1>1, TypeCorrect, PTL DEF Spec, HandlersAdvance

-----------------------------------------------------------------------------
(* AgentActions implements OperationLedger: seen from outside, the threads, locks
   and events of the Agent are one ledger of operations. *)

ledgerVars == <<journal, what, sent, flying, answers>>

LEMMA LedgerInit == Init => Ledger!Init
BY Defaults DEF Init, Ledger!Init

(* The steps that write the journal, send a command or give an answer. *)

LEMMA BeginEnters ==
  ASSUME TypeOK, NEW h \in Threads, Begin(h)
  PROVE  Ledger!Next \/ UNCHANGED ledgerVars
<1> USE DEF Begin, TypeOK, memory, outside, bounds
<1>1. CASE UNCHANGED <<journal, what>>
  BY <1>1 DEF ledgerVars
<1>2. CASE /\ journal[op[h]] = "none"
           /\ \E state \in {"in_progress", "busy"} :
                journal' = [journal EXCEPT ![op[h]] = state]
           /\ what' = [what EXCEPT ![op[h]] = body[h]]
  <2>1. PICK state \in {"in_progress", "busy"} :
          journal' = [journal EXCEPT ![op[h]] = state]
    BY <1>2
  <2>2. Ledger!Enter(op[h], body[h], state)
    BY <1>2, <2>1 DEF Ledger!Enter
  <2> QED
    BY <2>2 DEF Ledger!Next
<1> QED
  BY <1>1, <1>2

LEMMA SendSends ==
  ASSUME TypeOK, JournalInv, NEW h \in Threads, Send(h)
  PROVE  Ledger!Next \/ UNCHANGED ledgerVars
<1> USE DEF Send, TypeOK, journalVars, memory, outside, bounds
<1>1. CASE UNCHANGED outside
  BY <1>1 DEF ledgerVars
<1>2. CASE /\ sent' = [sent EXCEPT ![op[h]] = @ + 1]
           /\ flying' = flying \cup {op[h]}
  <2>1. journal[op[h]] = "in_progress" /\ sent[op[h]] = 0
    BY DEF JournalInv, LeaderInv, CommandInv, Working
  <2>2. Ledger!Send(op[h])
    BY <1>2, <2>1 DEF Ledger!Send
  <2> QED
    BY <2>2 DEF Ledger!Next
<1> QED
  BY <1>1, <1>2

LEMMA FinishDecides ==
  ASSUME TypeOK, JournalInv, NEW h \in Threads, Finish(h)
  PROVE  Ledger!Next
<1> USE DEF Finish, TypeOK, memory, outside, bounds
<1>1. /\ journal[op[h]] = "in_progress"
      /\ reply[h] \in Verdicts
      /\ reply[h] \in Unsent => sent[op[h]] = 0
      /\ reply[h] \in Settled => sent[op[h]] = 1 /\ op[h] \notin flying
  BY DEF JournalInv, LeaderInv, ReplyInv, Working
<1>2. Ledger!Truthful(op[h], reply[h])
  BY <1>1 DEF Ledger!Truthful, Ledger!Unsent, Ledger!Settled, Unsent, Settled
<1>3. Ledger!Decide(op[h], reply[h])
  BY <1>1, <1>2 DEF Ledger!Decide
<1> QED
  BY <1>1, <1>3 DEF Ledger!Next, Ledger!Verdicts, Ledger!Unsent,
     Ledger!Settled, Ledger!Unknown, Verdicts, Unsent, Settled, Unknown

(* An answer is none, or what the journal says. *)
LEMMA AnswerTells ==
  ASSUME TypeOK, NEW h \in Threads, NEW v, Answer(h, v),
         v # "none" => /\ v \in Verdicts
                       /\ journal[op[h]] = v
                       /\ what[op[h]] = body[h],
         UNCHANGED <<journalVars, outside>>
  PROVE  Ledger!Next \/ UNCHANGED ledgerVars
<1> USE DEF Answer, TypeOK, journalVars, outside
<1>1. CASE v = "none"
  BY <1>1 DEF ledgerVars
<1>2. CASE v # "none"
  <2>1. Ledger!Tell(op[h])
    BY <1>2 DEF Ledger!Tell, Ledger!Verdicts, Ledger!Unsent, Ledger!Settled,
       Ledger!Unknown, Verdicts, Unsent, Settled, Unknown
  <2> QED
    BY <2>1 DEF Ledger!Next
<1> QED
  BY <1>1, <1>2

LEMMA LeaveTells ==
  ASSUME TypeOK, JournalInv, NEW h \in Threads, Leave(h)
  PROVE  Ledger!Next \/ UNCHANGED ledgerVars
<1>1. reply[h] # "none" => /\ reply[h] \in Verdicts
                           /\ journal[op[h]] = reply[h]
                           /\ what[op[h]] = body[h]
  BY DEF Leave, TypeOK, JournalInv, ReplyInv
<1>2. Answer(h, reply[h]) /\ UNCHANGED <<journalVars, outside>>
  BY DEF Leave
<1> QED
  BY <1>1, <1>2, AnswerTells

LEMMA ReplayTells ==
  ASSUME TypeOK, NEW h \in Threads, Replay(h)
  PROVE  Ledger!Next \/ UNCHANGED ledgerVars
<1>1. PICK v : /\ v = IF journal[op[h]] \in Verdicts /\ what[op[h]] = body[h]
                      THEN journal[op[h]] ELSE "none"
               /\ Answer(h, v)
  BY DEF Replay
<1>2. v # "none" => /\ v \in Verdicts
                    /\ journal[op[h]] = v
                    /\ what[op[h]] = body[h]
  BY <1>1
<1>3. UNCHANGED <<journalVars, outside>>
  BY DEF Replay
<1> QED
  BY <1>1, <1>2, <1>3, AnswerTells

LEMMA QuietSteps ==
  ASSUME NEW h \in Threads,
         \/ \E o \in Ops, b \in Bodies : Receive(h, o, b)
         \/ TakeLock(h) \/ Observe(h) \/ MarkDispatched(h) \/ Return(h)
         \/ Check(h) \/ Unlock(h) \/ Raise(h)
  PROVE  UNCHANGED ledgerVars
BY DEF Receive, TakeLock, Observe, MarkDispatched, Return, Check, Unlock, Raise,
   BeginRaises, MarkDispatchedRaises, FinishRaises, journalVars, outside,
   ledgerVars

LEMMA LedgerStep ==
  TypeOK /\ JournalInv /\ [Next]_vars => [Ledger!Next]_(Ledger!vars)
<1> SUFFICES ASSUME TypeOK, JournalInv, [Next]_vars
             PROVE  Ledger!Next \/ UNCHANGED ledgerVars
  BY DEF Ledger!vars, ledgerVars
<1>1. CASE UNCHANGED vars
  BY <1>1 DEF vars, journalVars, outside, ledgerVars
<1>2. ASSUME NEW h \in Threads,
             \/ \E o \in Ops, b \in Bodies : Receive(h, o, b)
             \/ LeaderStep(h) \/ Raise(h) \/ Replay(h)
      PROVE  Ledger!Next \/ UNCHANGED ledgerVars
  BY <1>2, QuietSteps, BeginEnters, SendSends, FinishDecides, LeaveTells,
     ReplayTells
     DEF LeaderStep
<1>3. ASSUME NEW o \in Ops, Land(o) PROVE Ledger!Next
  <2>1. Ledger!Land(o)
    BY <1>3 DEF Land, Ledger!Land, journalVars
  <2> QED
    BY <2>1 DEF Ledger!Next
<1>4. ASSUME NEW t \in Targets, SetPolicy(t) PROVE UNCHANGED ledgerVars
  BY <1>4 DEF SetPolicy, journalVars, ledgerVars
<1>5. CASE Restart
  <2>1. Ledger!Recover
    BY <1>5 DEF Restart, Ledger!Recover, outside
  <2> QED
    BY <2>1 DEF Ledger!Next
<1> QED
  BY <1>1, <1>2, <1>3, <1>4, <1>5 DEF Next


(* However many threads execute, repeat and survive an operation, a client sees
   one record, one command and one truthful answer. *)
THEOREM AgentImplementsLedger == Spec => LedgerSpec
<1>1. Spec => [](TypeOK /\ JournalInv)
  BY JournalInvariant
<1> QED
  BY <1>1, LedgerInit, LedgerStep, PTL DEF Spec, LedgerSpec, Ledger!Spec
=============================================================================
