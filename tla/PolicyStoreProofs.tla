------------------------- MODULE PolicyStoreProofs -------------------------
(***************************************************************************)
(* Theorems about PolicyStore: its types, that a configured protection is  *)
(* not undone, and that the audit explains every policy.                   *)
(***************************************************************************)
EXTENDS PolicyStore, TLAPS

(* Who is past the test of the configured protection asks for nothing that it
   forbids: the configuration changes only when the threads are gone. *)
Admitted ==
  \A h \in Threads :
    pc[h] \in {"list", "observe", "set"} /\ asked[h] # Inventory
      => ~RefusedByConfiguration(asked[h].body)

(* Only a request for a change reaches the write. *)
WritersAsk ==
  \A h \in Threads : /\ pc[h] = "idle" => asked[h] = Inventory
                     /\ pc[h] \in {"replay", "set"} => asked[h] \in Requests

(* A resource without a row has no history. *)
NoRowNoHistory ==
  \A t \in Targets : policy[t] = NoRow =>
    /\ Legacy[t] = NoRow
    /\ \A i \in DOMAIN audit : About(i) # t

PolicyInv == TypeOK /\ Admitted /\ WritersAsk /\ NoRowNoHistory /\ EnforcedHolds /\ AuditExplains

-----------------------------------------------------------------------------
(* Types *)

LEMMA TypeInit == ASSUME PolicyAssumption, Init PROVE TypeOK
  BY DEF PolicyAssumption, Init, TypeOK, Migrated, Policies

LEMMA TypeThreadStep ==
  ASSUME PolicyAssumption, TypeOK, NEW h \in Threads, ThreadStep(h),
         pc[h] = "set" => asked[h] \in Requests
  PROVE  TypeOK'
<1> USE DEF PolicyAssumption, TypeOK, threads, world, store
<1>1. CASE Receive(h)
  BY <1>1 DEF Receive, GoTo
<1>2. CASE Replay(h)
  BY <1>2 DEF Replay, GoTo, Answer
<1>3. CASE List(h)
  BY <1>3 DEF List, GoTo
<1>4. CASE Listed(h)
  BY <1>4 DEF Listed, GoTo, Answer
<1>5. CASE SetPolicy(h)
  <2>1. Answer(h) /\ UNCHANGED <<enforced, everForced, world, requests, restarts>>
    BY <1>5 DEF SetPolicy
  <2>2. policy' \in [Targets -> Policies \cup {NoRow}] /\ audit' \in Seq(Row)
    <3>1. CASE UNCHANGED <<policy, audit>>
      BY <3>1
    <3>2. CASE WritePolicy(asked[h])
      <4> DEFINE t == TargetOf[asked[h].body]
                 row == [op |-> asked[h].op, body |-> asked[h].body, previous |-> Observed(t)]
      <4>1. asked[h] \in Requests
        BY <1>5 DEF SetPolicy
      <4>2. t \in Targets /\ PolicyOf[asked[h].body] \in Policies /\ Observed(t) \in Policies
        BY <4>1 DEF Requests, Observed, Policies
      <4>3. row \in Row
        BY <4>1, <4>2 DEF Requests, Row
      <4>4. policy' = [policy EXCEPT ![t] = PolicyOf[asked[h].body]] /\ audit' = Append(audit, row)
        BY <3>2 DEF WritePolicy
      <4> QED BY <4>2, <4>3, <4>4
    <3> QED BY <1>5, <3>1, <3>2 DEF SetPolicy
  <2> QED BY <2>1, <2>2 DEF Answer, GoTo
<1>6. CASE Raises(h)
  BY <1>6 DEF Raises, GoTo, Answer
<1>7. CASE \E t \in Targets : Observe(h, t)
  <2> PICK t \in Targets : Observe(h, t)
    BY <1>7
  <2> USE DEF Observe
  <2>1. CASE t = configured /\ ForceProtected(t)
    BY <2>1 DEF ForceProtected, Policies
  <2>2. CASE t # configured /\ ObserveRow(t)
    BY <2>2 DEF ObserveRow, Observed, Policies
  <2> QED BY <2>1, <2>2
<1> QED BY <1>1, <1>2, <1>3, <1>4, <1>5, <1>6, <1>7 DEF ThreadStep

LEMMA TypeRestart == ASSUME PolicyAssumption, TypeOK, Restart PROVE TypeOK'
  BY DEF PolicyAssumption, TypeOK, Restart, Migrated

LEMMA TypeStep ==
  ASSUME PolicyAssumption, TypeOK, WritersAsk, [Next]_vars
  PROVE  TypeOK'
<1>1. CASE UNCHANGED vars
  BY <1>1 DEF TypeOK, vars, store, threads, world
<1>2. CASE \E h \in Threads : ThreadStep(h)
  BY <1>2, TypeThreadStep DEF WritersAsk
<1>3. CASE Restart
  BY <1>3, TypeRestart
<1>4. CASE DockerChanges
  BY <1>4 DEF TypeOK, DockerChanges, store, threads
<1> QED BY <1>1, <1>2, <1>3, <1>4 DEF Next

-----------------------------------------------------------------------------
(* Threads *)

LEMMA WritersAskStep ==
  ASSUME PolicyAssumption, TypeOK, WritersAsk, [Next]_vars
  PROVE  WritersAsk'
<1> USE DEF WritersAsk, TypeOK, threads, world, store
<1>1. CASE UNCHANGED vars
  BY <1>1 DEF vars
<1>2. ASSUME NEW h \in Threads, ThreadStep(h) PROVE WritersAsk'
  <2>1. CASE Receive(h)
    BY <2>1 DEF Receive, GoTo
  <2>2. CASE Replay(h)
    BY <2>2 DEF Replay, GoTo, Answer
  <2>3. CASE List(h)
    BY <2>3 DEF List, GoTo
  <2>4. CASE Listed(h)
    BY <2>4 DEF Listed, GoTo, Answer
  <2>5. CASE SetPolicy(h)
    BY <2>5 DEF SetPolicy, GoTo, Answer
  <2>6. CASE Raises(h)
    BY <2>6 DEF Raises, GoTo, Answer
  <2>7. CASE \E t \in Targets : Observe(h, t)
    BY <2>7 DEF Observe
  <2> QED BY <1>2, <2>1, <2>2, <2>3, <2>4, <2>5, <2>6, <2>7 DEF ThreadStep
<1>3. CASE Restart
  BY <1>3 DEF Restart
<1>4. CASE DockerChanges
  BY <1>4 DEF DockerChanges
<1> QED BY <1>1, <1>2, <1>3, <1>4 DEF Next

LEMMA AdmittedStep ==
  ASSUME PolicyAssumption, TypeOK, WritersAsk, Admitted, [Next]_vars
  PROVE  Admitted'
<1> USE DEF Admitted, WritersAsk, TypeOK, RefusedByConfiguration, threads, world, store
<1>1. CASE UNCHANGED vars
  BY <1>1 DEF vars
<1>2. ASSUME NEW h \in Threads, ThreadStep(h) PROVE Admitted'
  <2>1. CASE Receive(h)
    <3>1. pc[h] = "idle" /\ asked[h] = Inventory /\ UNCHANGED configured
      BY <2>1 DEF Receive
    <3>2. CASE \E r \in Requests : asked' = [asked EXCEPT ![h] = r] /\ GoTo(h, "replay")
      BY <3>1, <3>2 DEF GoTo
    <3>3. CASE GoTo(h, "list") /\ UNCHANGED asked
      BY <3>1, <3>3 DEF GoTo
    <3> QED BY <2>1, <3>2, <3>3 DEF Receive
  <2>2. CASE Replay(h)
    BY <2>2 DEF Replay, GoTo, Answer
  <2>3. CASE List(h)
    BY <2>3 DEF List, GoTo
  <2>4. CASE Listed(h)
    BY <2>4 DEF Listed, GoTo, Answer
  <2>5. CASE SetPolicy(h)
    BY <2>5 DEF SetPolicy, GoTo, Answer
  <2>6. CASE Raises(h)
    BY <2>6 DEF Raises, GoTo, Answer
  <2>7. CASE \E t \in Targets : Observe(h, t)
    BY <2>7 DEF Observe
  <2> QED BY <1>2, <2>1, <2>2, <2>3, <2>4, <2>5, <2>6, <2>7 DEF ThreadStep
<1>3. CASE Restart
  BY <1>3 DEF Restart
<1>4. CASE DockerChanges
  BY <1>4 DEF DockerChanges
<1> QED BY <1>1, <1>2, <1>3, <1>4 DEF Next

-----------------------------------------------------------------------------
(* What a step does to the tables: it writes one policy and its audit row, it
   observes one resource, or it leaves policies and audit alone; the set of
   enforced targets is only extended by an observation and emptied by a
   restart. *)

Writes ==
  \E h \in Threads :
    /\ pc[h] = "set"
    /\ asked[h] \in Requests
    /\ ~RefusedByConfiguration(asked[h].body)
    /\ WritePolicy(asked[h])
    /\ UNCHANGED <<enforced, everForced>>

Observes == /\ UNCHANGED audit
            /\ \E t \in Targets : ForceProtected(t) \/ ObserveRow(t)

Keeps == /\ UNCHANGED <<policy, audit, everForced>>
         /\ enforced' \in {enforced, {}}

LEMMA StoreStep ==
  ASSUME PolicyAssumption, TypeOK, WritersAsk, Admitted, NoRowNoHistory, [Next]_vars
  PROVE  Writes \/ Observes \/ Keeps
<1> USE DEF Keeps, store
<1>1. CASE UNCHANGED vars
  BY <1>1 DEF vars
<1>2. ASSUME NEW h \in Threads, ThreadStep(h) PROVE Writes \/ Observes \/ Keeps
  <2>1. CASE Receive(h) \/ Replay(h) \/ List(h) \/ Listed(h) \/ Raises(h)
    BY <2>1 DEF Receive, Replay, List, Listed, Raises
  <2>2. CASE SetPolicy(h)
    <3>1. CASE UNCHANGED <<policy, audit>>
      BY <2>2, <3>1 DEF SetPolicy
    <3>2. CASE WritePolicy(asked[h])
      <4>1. pc[h] = "set" /\ UNCHANGED <<enforced, everForced>>
        BY <2>2 DEF SetPolicy
      <4>2. asked[h] \in Requests /\ asked[h] # Inventory
        BY <4>1, PolicyAssumption DEF WritersAsk, Requests, Inventory
      <4> QED BY <3>2, <4>1, <4>2 DEF Writes, Admitted
    <3> QED BY <2>2, <3>1, <3>2 DEF SetPolicy
  <2>3. CASE \E t \in Targets : Observe(h, t)
    BY <2>3 DEF Observe, Observes
  <2> QED BY <1>2, <2>1, <2>2, <2>3 DEF ThreadStep
<1>3. CASE Restart
  <2>1. policy' = policy
    BY <1>3 DEF Restart, Migrated, NoRowNoHistory, TypeOK
  <2> QED BY <1>3, <2>1 DEF Restart
<1>4. CASE DockerChanges
  BY <1>4 DEF DockerChanges
<1> QED BY <1>1, <1>2, <1>3, <1>4 DEF Next

(* A write, with its row of audit named. *)
LEMMA WriteAppends ==
  ASSUME PolicyAssumption, TypeOK, Writes
  PROVE  \E row \in Row :
           LET t == TargetOf[row.body] IN
           /\ audit' = Append(audit, row)
           /\ policy' = [policy EXCEPT ![t] = PolicyOf[row.body]]
           /\ row.previous = Observed(t)
           /\ ~RefusedByConfiguration(row.body)
           /\ UNCHANGED <<enforced, everForced>>
<1> PICK h \in Threads : /\ asked[h] \in Requests
                         /\ ~RefusedByConfiguration(asked[h].body)
                         /\ WritePolicy(asked[h])
                         /\ UNCHANGED <<enforced, everForced>>
  BY DEF Writes
<1> DEFINE t == TargetOf[asked[h].body]
           row == [op |-> asked[h].op, body |-> asked[h].body, previous |-> Observed(t)]
<1>1. t \in Targets /\ Observed(t) \in Policies
  BY DEF PolicyAssumption, TypeOK, Requests, Observed, Policies
<1>2. row \in Row /\ row.body = asked[h].body /\ row.previous = Observed(t)
  BY <1>1 DEF Requests, Row
<1>3. audit' = Append(audit, row) /\ policy' = [policy EXCEPT ![t] = PolicyOf[asked[h].body]]
  BY DEF WritePolicy
<1> HIDE DEF row
<1> QED BY <1>2, <1>3

-----------------------------------------------------------------------------
(* Policies *)

LEMMA EnforcedStep ==
  ASSUME PolicyAssumption, TypeOK, EnforcedHolds, Writes \/ Observes \/ Keeps
  PROVE  EnforcedHolds'
<1> USE DEF EnforcedHolds
<1>1. CASE Writes
  <2> PICK row \in Row :
        /\ policy' = [policy EXCEPT ![TargetOf[row.body]] = PolicyOf[row.body]]
        /\ ~RefusedByConfiguration(row.body)
        /\ UNCHANGED enforced
    BY <1>1, WriteAppends
  <2> QED BY DEF TypeOK, RefusedByConfiguration
<1>2. CASE Observes
  <2> PICK t \in Targets : ForceProtected(t) \/ ObserveRow(t)
    BY <1>2 DEF Observes
  <2>1. CASE ForceProtected(t)
    BY <2>1 DEF ForceProtected, TypeOK
  <2>2. CASE ObserveRow(t)
    <3>1. policy[t] = "protected" => Observed(t) = "protected"
      BY PolicyAssumption DEF Observed, PolicyAssumption, Policies
    <3> QED BY <2>2, <3>1 DEF ObserveRow, TypeOK
  <2> QED BY <2>1, <2>2
<1>3. CASE Keeps
  BY <1>3 DEF Keeps
<1> QED BY <1>1, <1>2, <1>3

LEMMA NoRowStep ==
  ASSUME PolicyAssumption, TypeOK, NoRowNoHistory, Writes \/ Observes \/ Keeps
  PROVE  NoRowNoHistory'
<1> USE DEF NoRowNoHistory, About
<1>1. CASE Writes
  <2> PICK row \in Row :
        /\ audit' = Append(audit, row)
        /\ policy' = [policy EXCEPT ![TargetOf[row.body]] = PolicyOf[row.body]]
    BY <1>1, WriteAppends
  <2> SUFFICES ASSUME NEW t \in Targets, policy'[t] = NoRow
               PROVE  Legacy[t] = NoRow /\ \A i \in DOMAIN audit' : TargetOf[audit'[i].body] # t
    OBVIOUS
  <2>1. TargetOf[row.body] # t /\ policy[t] = NoRow
    BY DEF PolicyAssumption, TypeOK, Row
  <2> QED BY <2>1 DEF TypeOK
<1>2. CASE Observes
  BY <1>2 DEF Observes, ForceProtected, ObserveRow, Observed, TypeOK, Policies, PolicyAssumption
<1>3. CASE Keeps
  BY <1>3 DEF Keeps
<1> QED BY <1>1, <1>2, <1>3

-----------------------------------------------------------------------------
(* The audit *)

(* A new row changes nothing in what the rows before it say. *)
LEMMA AppendKeepsRecorded ==
  ASSUME TypeOK, NEW row \in Row, audit' = Append(audit, row),
         NEW t, NEW n \in 0..Len(audit), NEW p, Recorded(t, n, p)
  PROVE  Recorded(t, n, p)'
<1>1. \A i \in 1..n : audit'[i] = audit[i]
  BY DEF TypeOK
<1>2. \A i \in 1..n : About(i)' = About(i) /\ PolicyOf[audit'[i].body] = PolicyOf[audit[i].body]
  BY <1>1 DEF About
<1>3. CASE p = First(t) /\ \A i \in 1..n : About(i) # t
  BY <1>2, <1>3 DEF Recorded, First
<1>4. ASSUME NEW i \in 1..n, About(i) = t, PolicyOf[audit[i].body] = p,
             \A j \in (i + 1)..n : About(j) # t
      PROVE  Recorded(t, n, p)'
  <2>1. \A j \in (i + 1)..n : j \in 1..n
    OBVIOUS
  <2>2. About(i)' = t /\ PolicyOf[audit'[i].body] = p /\ \A j \in (i + 1)..n : About(j)' # t
    BY <1>2, <1>4, <2>1
  <2> QED BY <2>2 DEF Recorded
<1> QED BY <1>3, <1>4 DEF Recorded

(* The new row says what the policy of its target is, and nothing else. *)
LEMMA AppendRecords ==
  ASSUME TypeOK, NEW row \in Row, audit' = Append(audit, row),
         NEW n \in Nat, n = Len(audit), NEW t, NEW p,
         \/ t = TargetOf[row.body] /\ p = PolicyOf[row.body]
         \/ t # TargetOf[row.body] /\ Recorded(t, n, p)
  PROVE  Recorded(t, n + 1, p)'
<1>1. audit'[n + 1] = row
  BY DEF TypeOK
<1>2. About(n + 1)' = TargetOf[row.body]
  BY <1>1 DEF About
<1>3. CASE t = TargetOf[row.body] /\ p = PolicyOf[row.body]
  <2>1. \A j \in (n + 1 + 1)..(n + 1) : FALSE
    OBVIOUS
  <2>2. n + 1 \in 1..(n + 1) /\ About(n + 1)' = t /\ PolicyOf[audit'[n + 1].body] = p
    BY <1>1, <1>2, <1>3
  <2> QED BY <2>1, <2>2 DEF Recorded
<1>4. CASE t # TargetOf[row.body] /\ Recorded(t, n, p)
  <2>1. Recorded(t, n, p)'
    BY <1>4, AppendKeepsRecorded
  <2>2. CASE p = First(t) /\ \A i \in 1..n : About(i)' # t
    <3>1. \A i \in 1..(n + 1) : i \in 1..n \/ i = n + 1
      OBVIOUS
    <3> QED BY <1>2, <1>4, <2>2, <3>1 DEF Recorded, First
  <2>3. ASSUME NEW i \in 1..n, About(i)' = t, PolicyOf[audit'[i].body] = p,
               \A j \in (i + 1)..n : About(j)' # t
        PROVE  Recorded(t, n + 1, p)'
    <3>1. i \in 1..(n + 1) /\ \A j \in (i + 1)..(n + 1) : j \in (i + 1)..n \/ j = n + 1
      OBVIOUS
    <3>2. \A j \in (i + 1)..(n + 1) : About(j)' # t
      BY <1>2, <1>4, <2>3, <3>1
    <3> QED BY <2>3, <3>1, <3>2 DEF Recorded
  <2> QED BY <2>1, <2>2, <2>3 DEF Recorded, First
<1> QED BY <1>3, <1>4

(* Before it has a row, a resource is as its first observation finds it. *)
LEMMA ObservedExplained ==
  ASSUME PolicyAssumption, TypeOK, NoRowNoHistory, AuditExplains, NEW t \in Targets
  PROVE  Explained(t, Len(audit), Observed(t))
<1>1. CASE policy[t] = NoRow
  BY <1>1 DEF NoRowNoHistory, Explained, Recorded, First, Observed, TypeOK
<1>2. CASE policy[t] # NoRow
  BY <1>2 DEF AuditExplains, Observed
<1> QED BY <1>1, <1>2

(* What is explained stays explained. *)
LEMMA ExplainedKept ==
  ASSUME TypeOK, NEW row \in Row, audit' = Append(audit, row), UNCHANGED everForced,
         NEW t, NEW n \in 0..Len(audit), NEW p, Explained(t, n, p)
  PROVE  Explained(t, n, p)'
  BY AppendKeepsRecorded DEF Explained

LEMMA AuditWrites ==
  ASSUME PolicyAssumption, TypeOK, NoRowNoHistory, AuditExplains, Writes
  PROVE  AuditExplains'
<1> PICK row \in Row :
      /\ audit' = Append(audit, row)
      /\ policy' = [policy EXCEPT ![TargetOf[row.body]] = PolicyOf[row.body]]
      /\ row.previous = Observed(TargetOf[row.body])
      /\ UNCHANGED everForced
  BY WriteAppends
<1>1. PICK n \in Nat : n = Len(audit)
  BY DEF TypeOK
<1>2. /\ Len(audit') = n + 1 /\ audit'[n + 1] = row
      /\ DOMAIN audit' = 1..(n + 1) /\ DOMAIN audit = 1..n
      /\ \A i \in 1..n : audit'[i] = audit[i]
  BY <1>1 DEF TypeOK
<1>3. TargetOf[row.body] \in Targets
  BY DEF PolicyAssumption, Row
<1>4. ASSUME NEW i \in 1..n PROVE Explained(About(i), i - 1, audit[i].previous)'
  <2>1. Explained(About(i), i - 1, audit[i].previous)
    BY <1>2 DEF AuditExplains
  <2>2. PICK t, p : t = About(i) /\ p = audit[i].previous
    OBVIOUS
  <2>3. Explained(t, i - 1, p)
    BY <2>1, <2>2
  <2>4. i - 1 \in 0..Len(audit)
    BY <1>1
  <2>5. Explained(t, i - 1, p)'
    BY <2>3, <2>4, ExplainedKept
  <2>6. t = About(i)' /\ p = audit'[i].previous
    BY <1>2, <2>2 DEF About
  <2> QED BY <2>5, <2>6 DEF Explained, Recorded
<1>5. Explained(About(n + 1), n, audit[n + 1].previous)'
  <2>1. PICK t, p : t = TargetOf[row.body] /\ p = Observed(TargetOf[row.body])
    OBVIOUS
  <2>2. Explained(t, n, p)
    BY <1>1, <1>3, <2>1, ObservedExplained
  <2>3. Explained(t, n, p)'
    BY <1>1, <2>2, ExplainedKept
  <2>4. t = About(n + 1)' /\ p = audit'[n + 1].previous
    BY <1>2, <2>1 DEF About
  <2> QED BY <2>3, <2>4 DEF Explained, Recorded
<1>6. ASSUME NEW t \in Targets, policy'[t] # NoRow
      PROVE  Explained(t, n + 1, policy[t])'
  <2>1. CASE t = TargetOf[row.body]
    <3>1. PICK p : p = PolicyOf[row.body] /\ p = policy'[t]
      BY <2>1 DEF TypeOK
    <3>2. Recorded(t, n + 1, p)'
      BY <1>1, <2>1, <3>1, AppendRecords
    <3> QED BY <3>1, <3>2 DEF Explained, Recorded
  <2>2. CASE t # TargetOf[row.body]
    <3>1. PICK p : p = policy[t] /\ p = policy'[t]
      BY <2>2 DEF TypeOK
    <3>2. Explained(t, n, p)
      BY <1>1, <1>6, <3>1 DEF AuditExplains
    <3>3. CASE Recorded(t, n, p)
      <4>1. Recorded(t, n + 1, p)'
        BY <1>1, <2>2, <3>3, AppendRecords
      <4> QED BY <3>1, <4>1 DEF Explained, Recorded
    <3>4. CASE t \in everForced /\ p = "protected"
      BY <3>1, <3>4 DEF Explained
    <3> QED BY <3>2, <3>3, <3>4 DEF Explained
  <2> QED BY <2>1, <2>2
<1>7. \A i \in DOMAIN audit' : Explained(About(i), i - 1, audit[i].previous)'
  <2> SUFFICES ASSUME NEW i \in 1..(n + 1)
               PROVE  Explained(About(i), i - 1, audit[i].previous)'
    BY <1>2
  <2>1. CASE i \in 1..n
    BY <1>4, <2>1 DEF Explained, Recorded, About
  <2>2. CASE i = n + 1
    <3>1. i - 1 = n
      BY <2>2
    <3> QED BY <1>5, <2>2, <3>1 DEF Explained, Recorded, About
  <2>3. i \in 1..n \/ i = n + 1
    OBVIOUS
  <2> QED BY <2>1, <2>2, <2>3
<1>8. \A t \in Targets : policy'[t] # NoRow => Explained(t, Len(audit), policy[t])'
  BY <1>2, <1>6 DEF Explained, Recorded
<1> QED BY <1>7, <1>8 DEF AuditExplains

LEMMA AuditStep ==
  ASSUME PolicyAssumption, TypeOK, NoRowNoHistory, AuditExplains,
         Writes \/ Observes \/ Keeps
  PROVE  AuditExplains'
<1>1. CASE Writes
  BY <1>1, AuditWrites
<1>2. CASE Observes
  <2> PICK u \in Targets : ForceProtected(u) \/ ObserveRow(u)
    BY <1>2 DEF Observes
  <2>1. UNCHANGED audit /\ everForced \subseteq everForced'
    BY <1>2 DEF Observes, ForceProtected, ObserveRow
  <2>2. ASSUME NEW t, NEW n, NEW p, Explained(t, n, p) PROVE Explained(t, n, p)'
    BY <2>1, <2>2 DEF Explained, Recorded, About, First
  <2>3. ASSUME NEW i \in DOMAIN audit PROVE Explained(About(i), i - 1, audit[i].previous)'
    <3>1. Explained(About(i), i - 1, audit[i].previous)
      BY DEF AuditExplains
    <3> QED BY <2>1, <3>1 DEF Explained, Recorded, About, First
  <2>4. ASSUME NEW t \in Targets, policy'[t] # NoRow
        PROVE  Explained(t, Len(audit), policy[t])'
    <3>1. CASE t = u /\ ForceProtected(u)
      BY <3>1 DEF ForceProtected, Explained, TypeOK
    <3>2. CASE t = u /\ ObserveRow(u)
      <4>1. policy'[t] = Observed(t)
        BY <3>2 DEF ObserveRow, TypeOK
      <4>2. Explained(t, Len(audit), Observed(t))
        BY ObservedExplained
      <4> QED BY <2>1, <4>1, <4>2 DEF Explained, Recorded, About, First
    <3>3. CASE t # u
      <4>1. policy'[t] = policy[t]
        BY <3>3 DEF ForceProtected, ObserveRow, TypeOK
      <4>2. Explained(t, Len(audit), policy[t])
        BY <2>4, <4>1 DEF AuditExplains
      <4> QED BY <2>1, <4>1, <4>2 DEF Explained, Recorded, About, First
    <3> QED BY <3>1, <3>2, <3>3
  <2> QED BY <2>1, <2>3, <2>4 DEF AuditExplains
<1>3. CASE Keeps
  BY <1>3 DEF Keeps, AuditExplains, Explained, Recorded, About, First
<1> QED BY <1>1, <1>2, <1>3

-----------------------------------------------------------------------------
(* The invariant *)

LEMMA PolicyInit == ASSUME PolicyAssumption, Init PROVE PolicyInv
<1>1. TypeOK
  BY TypeInit
<1>2. Admitted /\ WritersAsk /\ EnforcedHolds
  BY DEF Init, Admitted, WritersAsk, EnforcedHolds
<1>3. NoRowNoHistory
  BY DEF PolicyAssumption, Init, Migrated, NoRowNoHistory
<1>4. AuditExplains
  <2>1. audit = <<>> /\ Len(audit) = 0 /\ DOMAIN audit = {}
    BY DEF Init
  <2>2. \A t \in Targets : policy[t] # NoRow => policy[t] = First(t)
    BY DEF Init, Migrated, First
  <2> QED BY <2>1, <2>2 DEF AuditExplains, Explained, Recorded
<1> QED BY <1>1, <1>2, <1>3, <1>4 DEF PolicyInv

LEMMA PolicyStep == ASSUME PolicyAssumption, PolicyInv, [Next]_vars PROVE PolicyInv'
<1> USE DEF PolicyInv
<1>1. Writes \/ Observes \/ Keeps
  BY StoreStep
<1> QED BY <1>1, TypeStep, WritersAskStep, AdmittedStep, NoRowStep, EnforcedStep, AuditStep

(* All of the invariant holds in every state: that of the handlers between two
   transactions, that of the tables, and what relates them. *)
THEOREM PolicyInvariant == Spec => []PolicyInv
<1>1. Init => PolicyInv
  BY PolicyAssumption, PolicyInit
<1>2. PolicyInv /\ [Next]_vars => PolicyInv'
  BY PolicyAssumption, PolicyStep
<1> QED BY <1>1, <1>2, PTL DEF Spec

(* Every variable keeps its type (resource_policies, its audit, the threads of
   update_policy). *)
THEOREM TypeCorrect == Spec => []TypeOK
<1>1. PolicyInv => TypeOK
  BY DEF PolicyInv
<1> QED BY <1>1, PolicyInvariant, PTL

(* A protection that force_protected has written is not undone by set_policy on
   any thread, for any number of threads, requests and restarts. *)
THEOREM ProtectionHolds == Spec => []EnforcedHolds
<1>1. PolicyInv => EnforcedHolds
  BY DEF PolicyInv
<1> QED BY <1>1, PolicyInvariant, PTL

(* The audit that set_policy writes explains every policy, whatever observe,
   force_protected and the migration at start do in between. *)
THEOREM AuditIsComplete == Spec => []AuditExplains
<1>1. PolicyInv => AuditExplains
  BY DEF PolicyInv
<1> QED BY <1>1, PolicyInvariant, PTL
=============================================================================
