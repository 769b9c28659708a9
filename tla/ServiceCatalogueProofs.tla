----------------------- MODULE ServiceCatalogueProofs -----------------------
(***************************************************************************)
(* Theorems about ServiceCatalogue, for any number of requests and names:  *)
(* its types, what an answer says of the database, which requests the      *)
(* unique index refuses, and what the pages of the list show.              *)
(***************************************************************************)
EXTENDS ServiceCatalogue, FiniteSetTheorems, SequenceTheorems, TLAPS

(* Requests that have not taken an id of the sequence; each takes one at most. *)
Waiting == {r \in Requests : pc[r] \in {"idle", "body", "lookup", "row"}}

IdsInv ==
  /\ nextId >= 1
  /\ nextId + Cardinality(Waiting) <= Len(First) + 1 + Cardinality(Requests)
  /\ \A i \in Rows(name) : i < nextId
  /\ \A r \in Requests : row[r] < nextId

(* What was sent, and what a handler that is over has left in the database. *)
Said(r) ==
  \/ sent[r] = <<>>
  \/ sent[r] = <<"timeout">>
  \/ pc[r] = "over" /\ result[r] = "none" /\ sent[r] \in {<<"too_large">>, <<"bad_length">>}
  \/ pc[r] = "over" /\ result[r] # "none" /\ sent[r] = <<result[r]>>

Left(r) ==
  /\ result[r] \in {"created", "updated"} => r \in logged
  /\ result[r] = "unconfirmed" => r \in changed
  /\ result[r] = "failed" => r \notin logged
  /\ result[r] \in Refusals \cup {"none"} => r \notin changed

AnswerInv ==
  \A r \in Requests :
    /\ Said(r)
    /\ pc[r] \in {"idle", "body"} => ~ awaited[r] /\ sent[r] = <<>>
    /\ awaited[r] /\ pc[r] = "over" => result[r] # "none"
    /\ pc[r] # "over" => result[r] = "none" /\ r \notin logged
    /\ pc[r] # "over" => (r \in changed <=> pc[r] = "event")
    /\ pc[r] = "over" => Left(r)
    /\ r \in logged => r \in changed

(* A name is committed once; a transaction that has written one, or that has
   taken a row, is alone with it. *)
KeyInv ==
  /\ \A i, j \in Rows(name) : name[i] = name[j] => i = j
  /\ \A q, r \in Requests : row[q] = row[r] /\ row[r] # 0 => q = r
  /\ \A q, r \in Requests : key[q] = key[r] /\ key[r] # NoName => q = r
  /\ \A r \in Requests :
       /\ pc[r] \notin {"key", "commit"} => row[r] = 0
       /\ pc[r] \in {"key", "commit"} => row[r] # 0
       /\ pc[r] # "commit" => key[r] = NoName
       /\ pc[r] \in {"key", "commit"} /\ ask[r].kind = "patch" =>
            row[r] = ask[r].id /\ row[r] \in Rows(name)
       /\ key[r] # NoName =>
            \A i \in Rows(name) : name[i] = key[r] => i = row[r]

(* A name that was always taken and passes the lookup is the request's own. *)
HeldInv ==
  \A r \in Requests :
    /\ held[r] \subseteq Taken(name)
    /\ pc[r] # "idle" => ask[r] \in Asks
    /\ pc[r] = "lookup" => ask[r].name # NoName
    /\ pc[r] \in {"row", "key"} /\ ask[r].name # NoName /\ ask[r].name \in held[r] =>
         ask[r].id \in Rows(name) /\ name[ask[r].id] = ask[r].name
    /\ result[r] = "duplicate" => ask[r].name \notin held[r]

CatalogueInv == TypeOK /\ IdsInv /\ AnswerInv /\ KeyInv /\ HeldInv

-----------------------------------------------------------------------------
LEMMA Constants ==
  /\ Len(First) \in Nat /\ Cardinality(Requests) \in Nat
  /\ Ids = 1 .. Len(First) + Cardinality(Requests)
  /\ \A i \in Ids : i \in Nat /\ i # 0
  /\ NoName \notin Names
  /\ \A i \in 1 .. Len(First) : First[i] \in Names
  /\ \A i, j \in 1 .. Len(First) : First[i] = First[j] => i = j
<1>1. Len(First) \in Nat /\ DOMAIN First = 1 .. Len(First)
  BY CatalogueAssumption
<1>2. Cardinality(Requests) \in Nat
  BY CatalogueAssumption, FS_CardinalityType
<1> QED BY <1>1, <1>2, CatalogueAssumption DEF Ids, IsInjective

LEMMA AskFacts ==
  ASSUME NEW a \in Asks
  PROVE  /\ a.kind \in {"create", "patch"}
         /\ a.name \in Names \cup {NoName}
         /\ a.kind = "create" => a.id = 0 /\ a.name # NoName
         /\ a.kind = "patch" => a.id \in Ids
BY Constants DEF Asks

LEMMA CatalogueInit == Init => CatalogueInv
<1> SUFFICES ASSUME Init PROVE CatalogueInv
  OBVIOUS
<1> USE Constants
<1>1. \A i \in Ids : name[i] = IF i <= Len(First) THEN First[i] ELSE NoName
  BY DEF Init
<1>2. \A i \in Ids : i <= Len(First) => i \in 1 .. Len(First)
  OBVIOUS
<1>3. name \in [Ids -> Names \cup {NoName}]
  BY <1>2 DEF Init
<1>4. \A i \in Rows(name) : i \in Ids /\ i <= Len(First)
  BY <1>1 DEF Rows
<1>5. TypeOK
  <2>1. awaited \in [Requests -> BOOLEAN]
    BY DEF Init
  <2>2. sent \in [Requests -> Seq(Outcomes \cup {"timeout", "too_large", "bad_length"})]
    BY DEF Init
  <2>3. ask \in [Requests -> Asks \cup {Nothing}]
    BY DEF Init
  <2> QED BY <1>3, <2>1, <2>2, <2>3 DEF TypeOK, Init
<1>6. IdsInv
  <2>1. Waiting = Requests
    BY DEF Waiting, Init
  <2> QED BY <1>4, <2>1 DEF IdsInv, Init
<1>7. AnswerInv
  BY DEF AnswerInv, Said, Init
<1>8. KeyInv
  <2>1. \A i, j \in Rows(name) : name[i] = name[j] => i = j
    BY <1>1, <1>2, <1>4
  <2> QED BY <2>1 DEF KeyInv, Init
<1>9. HeldInv
  BY DEF HeldInv, Init
<1> QED BY <1>5, <1>6, <1>7, <1>8, <1>9 DEF CatalogueInv

-----------------------------------------------------------------------------
(* Types and ids *)

LEMMA FewWaiting ==
  ASSUME NEW S, S \subseteq Requests
  PROVE  IsFiniteSet(S) /\ Cardinality(S) \in Nat
BY CatalogueAssumption, FS_Subset, FS_CardinalityType

LEMMA IdsLeft ==
  ASSUME IdsInv, TypeOK, NEW r \in Requests, r \in Waiting
  PROVE  nextId \in Ids
<1>1. Waiting \subseteq Requests
  BY DEF Waiting
<1>2. Cardinality(Waiting) \in Nat /\ Cardinality(Waiting) # 0
  BY <1>1, FewWaiting, FS_EmptySet
<1> QED BY <1>2, Constants DEF IdsInv, TypeOK

LEMMA TypeStep ==
  ASSUME TypeOK, IdsInv, AnswerInv, KeyInv, HeldInv, [Next]_vars
  PROVE  TypeOK'
<1> USE Constants DEF TypeOK, database, thread, loop, listing, Return, Outcomes, Refusals
<1>1. CASE UNCHANGED vars
  BY <1>1 DEF vars
<1>2. ASSUME NEW r \in Requests, Arrive(r) PROVE TypeOK'
  BY <1>2 DEF Arrive
<1>3. ASSUME NEW r \in Requests, Refuse(r) PROVE TypeOK'
  <2>1. PICK why \in {"too_large", "bad_length"} :
          sent' = [sent EXCEPT ![r] = Append(@, why)]
    BY <1>3 DEF Refuse
  <2>2. Append(sent[r], why)
          \in Seq(Outcomes \cup {"timeout", "too_large", "bad_length"})
    OBVIOUS
  <2>3. sent' \in [Requests -> Seq(Outcomes \cup {"timeout", "too_large", "bad_length"})]
    BY <2>1, <2>2
  <2> QED BY <1>3, <2>3 DEF Refuse
<1>4. ASSUME NEW r \in Requests, Dispatch(r) PROVE TypeOK'
  <2>1. Taken(name) \subseteq Names
    BY DEF Taken, Rows
  <2>2. held' \in [Requests -> SUBSET Names]
    BY <1>4, <2>1 DEF Dispatch
  <2>3. awaited' \in [Requests -> BOOLEAN]
    BY <1>4 DEF Dispatch
  <2> QED BY <1>4, <2>2, <2>3 DEF Dispatch
<1>5. ASSUME NEW r \in Requests, Respond(r) PROVE TypeOK'
  <2>1. result[r] \in Outcomes /\ sent' = [sent EXCEPT ![r] = <<result[r]>>]
    BY <1>5 DEF Respond, AnswerInv
  <2>2. <<result[r]>>
          \in Seq(Outcomes \cup {"timeout", "too_large", "bad_length"})
    BY <2>1
  <2>3. sent' \in [Requests -> Seq(Outcomes \cup {"timeout", "too_large", "bad_length"})]
    BY <2>1, <2>2
  <2> QED BY <1>5, <2>3 DEF Respond
<1>6. ASSUME NEW r \in Requests, Complete(r) PROVE TypeOK'
  <2>1. awaited' \in [Requests -> BOOLEAN]
    BY <1>6 DEF Complete
  <2> QED BY <1>6, <2>1 DEF Complete
<1>7. ASSUME NEW r \in Requests, TimeOut(r) PROVE TypeOK'
  <2>1. awaited' \in [Requests -> BOOLEAN]
    BY <1>7 DEF TimeOut
  <2>2. <<"timeout">> \in Seq(Outcomes \cup {"timeout", "too_large", "bad_length"})
    OBVIOUS
  <2>3. sent' \in [Requests -> Seq(Outcomes \cup {"timeout", "too_large", "bad_length"})]
    BY <1>7, <2>2 DEF TimeOut
  <2> QED BY <1>7, <2>1, <2>3 DEF TimeOut
<1>8. ASSUME NEW r \in Requests, Lookup(r) PROVE TypeOK'
  BY <1>8 DEF Lookup
<1>9. ASSUME NEW r \in Requests, Allocate(r) PROVE TypeOK'
  <2>1. nextId \in Ids
    BY <1>9, IdsLeft DEF Allocate, Waiting
  <2> QED BY <1>9, <2>1 DEF Allocate
<1>10. ASSUME NEW r \in Requests, LockRow(r) PROVE TypeOK'
  <2>1. row' \in [Requests -> Ids \cup {0}]
    BY <1>10 DEF LockRow, Rows
  <2> QED BY <1>10, <2>1 DEF LockRow
<1>11. ASSUME NEW r \in Requests, WriteKey(r) PROVE TypeOK'
  <2>1. ask[r].name \in Names \cup {NoName}
    BY <1>11, AskFacts DEF WriteKey, HeldInv
  <2> QED BY <1>11, <2>1 DEF WriteKey
<1>12. ASSUME NEW r \in Requests, DatabaseFails(r) PROVE TypeOK'
  BY <1>12 DEF DatabaseFails
<1>13. ASSUME NEW r \in Requests, Commit(r) PROVE TypeOK'
  <2>1. row[r] \in Ids
    BY <1>13 DEF Commit, KeyInv
  <2>2. name' \in [Ids -> Names \cup {NoName}]
    BY <1>13, <2>1 DEF Commit
  <2>3. held' \in [Requests -> SUBSET Names]
    BY <1>13 DEF Commit
  <2> QED BY <1>13, <2>2, <2>3 DEF Commit
<1>14. ASSUME NEW r \in Requests, RecordEvent(r) \/ EventFails(r) PROVE TypeOK'
  BY <1>14 DEF RecordEvent, EventFails
<1>15. CASE FetchPage
  BY <1>15 DEF FetchPage, ReadPage
<1>16. CASE CountRows
  <2>1. offset' \in Nat
    BY <1>16, CatalogueAssumption DEF CountRows
  <2> QED BY <1>16, <2>1 DEF CountRows
<1> QED BY <1>1, <1>2, <1>3, <1>4, <1>5, <1>6, <1>7, <1>8, <1>9, <1>10, <1>11, <1>12,
           <1>13, <1>14, <1>15, <1>16 DEF Next, Loop, Thread

LEMMA IdsStep ==
  ASSUME TypeOK, IdsInv, AnswerInv, KeyInv, HeldInv, [Next]_vars
  PROVE  IdsInv'
<1> USE Constants DEF database, thread, loop, listing, Return
<1>0. /\ nextId \in Nat /\ Cardinality(Waiting) \in Nat
      /\ pc \in [Requests -> {"idle", "body", "lookup", "row", "key", "commit",
                             "event", "over"}]
      /\ row \in [Requests -> Ids \cup {0}]
  BY FewWaiting DEF TypeOK, Waiting
<1>1. ASSUME UNCHANGED <<nextId, name>>, Waiting' \subseteq Waiting,
             \A r \in Requests : row'[r] < nextId
      PROVE  IdsInv'
  <2>1. IsFiniteSet(Waiting) /\ Waiting \subseteq Requests
    BY FewWaiting DEF Waiting
  <2>2. Cardinality(Waiting') \in Nat /\ Cardinality(Waiting') <= Cardinality(Waiting)
    BY <1>1, <2>1, FS_Subset, FS_CardinalityType
  <2> QED BY <1>0, <1>1, <2>2 DEF IdsInv, Rows
<1>2. CASE UNCHANGED vars \/ FetchPage \/ CountRows
  BY <1>1, <1>2 DEF vars, FetchPage, ReadPage, CountRows, IdsInv, Waiting
<1>3. ASSUME NEW r \in Requests, Loop(r) PROVE IdsInv'
  BY <1>0, <1>1, <1>3
     DEF Loop, Arrive, Refuse, Dispatch, Respond, Complete, TimeOut, IdsInv, Waiting
<1>4. ASSUME NEW r \in Requests,
             Lookup(r) \/ DatabaseFails(r) \/ RecordEvent(r) \/ EventFails(r)
      PROVE  IdsInv'
  BY <1>0, <1>1, <1>4
     DEF Lookup, DatabaseFails, RecordEvent, EventFails, IdsInv, Waiting
<1>5. ASSUME NEW r \in Requests, Allocate(r) PROVE IdsInv'
  <2>1. r \in Waiting /\ Waiting' = Waiting \ {r}
    BY <1>0, <1>5 DEF Allocate, Waiting
  <2>2. Cardinality(Waiting') = Cardinality(Waiting) - 1
    BY <2>1, FewWaiting, FS_RemoveElement DEF Waiting
  <2>3. \A q \in Requests : row'[q] < nextId'
    BY <1>0, <1>5 DEF Allocate, IdsInv
  <2> QED BY <1>0, <1>5, <2>2, <2>3 DEF Allocate, IdsInv, Rows
<1>6. ASSUME NEW r \in Requests, LockRow(r) PROVE IdsInv'
  <2>1. \A q \in Requests : row'[q] < nextId
    <3>1. PICK i \in {0, ask[r].id} : row' = [row EXCEPT ![r] = i] /\ i < nextId
      BY <1>0, <1>6 DEF LockRow, IdsInv
    <3> QED BY <1>0, <3>1 DEF IdsInv
  <2> QED BY <1>0, <1>1, <1>6, <2>1 DEF LockRow, Waiting
<1>7. ASSUME NEW r \in Requests, WriteKey(r) PROVE IdsInv'
  BY <1>0, <1>1, <1>7 DEF WriteKey, IdsInv, Waiting
<1>8. ASSUME NEW r \in Requests, Commit(r) PROVE IdsInv'
  <2>1. Waiting' = Waiting /\ nextId' = nextId
    BY <1>0, <1>8 DEF Commit, Waiting
  <2>2. \A q \in Requests : row'[q] < nextId
    <3>1. row' = [row EXCEPT ![r] = 0] /\ 0 < nextId
      BY <1>0, <1>8 DEF Commit, IdsInv
    <3> QED BY <1>0, <3>1 DEF IdsInv
  <2>3. \A i \in Rows(name)' : i < nextId
    BY <1>0, <1>8 DEF Commit, IdsInv, Rows, TypeOK
  <2> QED BY <1>0, <2>1, <2>2, <2>3 DEF IdsInv
<1> QED BY <1>2, <1>3, <1>4, <1>5, <1>6, <1>7, <1>8 DEF Next, Thread

-----------------------------------------------------------------------------
(* Answers *)

LEMMA AnswerStep ==
  ASSUME TypeOK, AnswerInv, HeldInv, [Next]_vars
  PROVE  AnswerInv'
<1> USE DEF database, thread, loop, listing, Return
<1> DEFINE Answer(q) ==
      /\ Said(q)
      /\ pc[q] \in {"idle", "body"} => ~ awaited[q] /\ sent[q] = <<>>
      /\ awaited[q] /\ pc[q] = "over" => result[q] # "none"
      /\ pc[q] # "over" => result[q] = "none" /\ q \notin logged
      /\ pc[q] # "over" => (q \in changed <=> pc[q] = "event")
      /\ pc[q] = "over" => Left(q)
      /\ q \in logged => q \in changed
<1>0. /\ pc \in [Requests -> {"idle", "body", "lookup", "row", "key", "commit",
                             "event", "over"}]
      /\ result \in [Requests -> Outcomes \cup {"none"}]
      /\ awaited \in [Requests -> BOOLEAN]
      /\ sent \in [Requests -> Seq(Outcomes \cup {"timeout", "too_large", "bad_length"})]
      /\ changed \subseteq Requests /\ logged \subseteq Requests
  BY DEF TypeOK
<1>1. \A q \in Requests : Answer(q)
  BY DEF AnswerInv
<1>2. ASSUME NEW r \in Requests, Answer(r)',
             \A q \in Requests \ {r} :
               /\ pc'[q] = pc[q] /\ result'[q] = result[q]
               /\ sent'[q] = sent[q] /\ awaited'[q] = awaited[q]
               /\ q \in changed' <=> q \in changed
               /\ q \in logged' <=> q \in logged
      PROVE  AnswerInv'
  <2>1. ASSUME NEW q \in Requests \ {r} PROVE Answer(q)'
    BY <1>1, <1>2 DEF Said, Left
  <2> QED BY <1>2, <2>1 DEF AnswerInv
<1>3. CASE UNCHANGED vars \/ FetchPage \/ CountRows
  BY <1>3 DEF vars, FetchPage, ReadPage, CountRows, AnswerInv, Said, Left
<1>4. ASSUME NEW r \in Requests, Arrive(r) PROVE AnswerInv'
  <2>1. Answer(r)'
    BY <1>0, <1>1, <1>4 DEF Arrive, Said
  <2> QED BY <1>0, <1>2, <1>4, <2>1 DEF Arrive
<1>5. ASSUME NEW r \in Requests, Refuse(r) PROVE AnswerInv'
  <2>1. sent'[r] \in {<<"too_large">>, <<"bad_length">>}
    <3>1. PICK why \in {"too_large", "bad_length"} :
            sent' = [sent EXCEPT ![r] = Append(@, why)]
      BY <1>5 DEF Refuse
    <3>2. sent[r] = <<>>
      BY <1>1, <1>5 DEF Refuse
    <3>3. Append(sent[r], why) = <<why>>
      BY <3>2
    <3> QED BY <1>0, <3>1, <3>3
  <2>2. Answer(r)'
    BY <1>0, <1>1, <1>5, <2>1 DEF Refuse, Said, Left, Refusals
  <2> QED BY <1>0, <1>2, <1>5, <2>2 DEF Refuse
<1>6. ASSUME NEW r \in Requests, Dispatch(r) PROVE AnswerInv'
  <2>1. Answer(r)'
    BY <1>0, <1>1, <1>6 DEF Dispatch, Said, Left, Refusals
  <2> QED BY <1>0, <1>2, <1>6, <2>1 DEF Dispatch
<1>7. ASSUME NEW r \in Requests, Respond(r) PROVE AnswerInv'
  <2>1. Answer(r)'
    BY <1>0, <1>1, <1>7 DEF Respond, Said, Left
  <2> QED BY <1>0, <1>2, <1>7, <2>1 DEF Respond
<1>8. ASSUME NEW r \in Requests, Complete(r) PROVE AnswerInv'
  <2>1. Answer(r)'
    BY <1>0, <1>1, <1>8 DEF Complete, Said, Left
  <2> QED BY <1>0, <1>2, <1>8, <2>1 DEF Complete
<1>9. ASSUME NEW r \in Requests, TimeOut(r) PROVE AnswerInv'
  <2>1. Answer(r)'
    BY <1>0, <1>1, <1>9 DEF TimeOut, Said, Left
  <2> QED BY <1>0, <1>2, <1>9, <2>1 DEF TimeOut
<1>10. ASSUME NEW r \in Requests,
              Lookup(r) \/ Allocate(r) \/ LockRow(r) \/ WriteKey(r) \/ DatabaseFails(r)
       PROVE  AnswerInv'
  <2>1. Answer(r)'
    BY <1>0, <1>1, <1>10
       DEF Lookup, Allocate, LockRow, WriteKey, DatabaseFails, Said, Left, Refusals
  <2> QED BY <1>0, <1>2, <1>10, <2>1
             DEF Lookup, Allocate, LockRow, WriteKey, DatabaseFails
<1>11. ASSUME NEW r \in Requests, Commit(r) PROVE AnswerInv'
  <2>1. Answer(r)'
    BY <1>0, <1>1, <1>11 DEF Commit, Said, Left, Refusals
  <2> QED BY <1>0, <1>2, <1>11, <2>1 DEF Commit
<1>12. ASSUME NEW r \in Requests, RecordEvent(r) \/ EventFails(r) PROVE AnswerInv'
  <2>1. Answer(r)'
    BY <1>0, <1>1, <1>12 DEF RecordEvent, EventFails, Said, Left, Refusals
  <2> QED BY <1>0, <1>2, <1>12, <2>1 DEF RecordEvent, EventFails
<1> QED BY <1>3, <1>4, <1>5, <1>6, <1>7, <1>8, <1>9, <1>10, <1>11, <1>12
        DEF Next, Loop, Thread

-----------------------------------------------------------------------------
(* Keys and rows *)

LEMMA KeyStep ==
  ASSUME TypeOK, IdsInv, KeyInv, HeldInv, [Next]_vars
  PROVE  KeyInv'
<1> USE Constants DEF database, thread, loop, listing, Return
<1> DEFINE Alone(r) ==
      /\ pc[r] \notin {"key", "commit"} => row[r] = 0
      /\ pc[r] \in {"key", "commit"} => row[r] # 0
      /\ pc[r] # "commit" => key[r] = NoName
      /\ pc[r] \in {"key", "commit"} /\ ask[r].kind = "patch" =>
           row[r] = ask[r].id /\ row[r] \in Rows(name)
      /\ key[r] # NoName =>
           \A i \in Rows(name) : name[i] = key[r] => i = row[r]
<1>0. /\ pc \in [Requests -> {"idle", "body", "lookup", "row", "key", "commit",
                             "event", "over"}]
      /\ row \in [Requests -> Ids \cup {0}] /\ key \in [Requests -> Names \cup {NoName}]
      /\ ask \in [Requests -> Asks \cup {Nothing}]
      /\ name \in [Ids -> Names \cup {NoName}] /\ nextId \in Nat
  BY DEF TypeOK
<1>1. /\ \A i, j \in Rows(name) : name[i] = name[j] => i = j
      /\ \A q, r \in Requests : row[q] = row[r] /\ row[r] # 0 => q = r
      /\ \A q, r \in Requests : key[q] = key[r] /\ key[r] # NoName => q = r
      /\ \A r \in Requests : Alone(r)
  BY DEF KeyInv
<1>2. ASSUME NEW r \in Requests, name' = name, Alone(r)',
             row'[r] # 0 => \A q \in Requests \ {r} : row[q] # row'[r],
             key'[r] # NoName => \A q \in Requests \ {r} : key[q] # key'[r],
             \A q \in Requests \ {r} :
               /\ pc'[q] = pc[q] /\ row'[q] = row[q]
               /\ key'[q] = key[q] /\ ask'[q] = ask[q]
      PROVE  KeyInv'
  <2>1. \A q \in Requests : Alone(q)'
    BY <1>1, <1>2 DEF Rows
  <2>2. \A p, q \in Requests : row'[p] = row'[q] /\ row'[q] # 0 => p = q
    BY <1>1, <1>2
  <2>3. \A p, q \in Requests : key'[p] = key'[q] /\ key'[q] # NoName => p = q
    BY <1>1, <1>2
  <2> QED BY <1>1, <1>2, <2>1, <2>2, <2>3 DEF KeyInv, Rows
<1>3. ASSUME UNCHANGED <<name, row, key, ask, pc>> PROVE KeyInv'
  BY <1>1, <1>3 DEF KeyInv, Rows
<1>4. ASSUME NEW r \in Requests, name' = name, row'[r] = 0, key'[r] = NoName,
             pc'[r] \notin {"key", "commit"},
             \A q \in Requests \ {r} :
               /\ pc'[q] = pc[q] /\ row'[q] = row[q]
               /\ key'[q] = key[q] /\ ask'[q] = ask[q]
      PROVE  KeyInv'
  BY <1>2, <1>4
<1>5. CASE UNCHANGED vars \/ FetchPage \/ CountRows
  BY <1>3, <1>5 DEF vars, FetchPage, ReadPage, CountRows
<1>6. ASSUME NEW r \in Requests, Respond(r) \/ Complete(r) \/ TimeOut(r) PROVE KeyInv'
  BY <1>3, <1>6 DEF Respond, Complete, TimeOut
<1>7. ASSUME NEW r \in Requests, Arrive(r) \/ Refuse(r) \/ Dispatch(r) PROVE KeyInv'
  BY <1>0, <1>1, <1>4, <1>7 DEF Arrive, Refuse, Dispatch
<1>8. ASSUME NEW r \in Requests,
             Lookup(r) \/ DatabaseFails(r) \/ RecordEvent(r) \/ EventFails(r)
      PROVE  KeyInv'
  BY <1>0, <1>1, <1>4, <1>8 DEF Lookup, DatabaseFails, RecordEvent, EventFails
<1>9. ASSUME NEW r \in Requests, Allocate(r) PROVE KeyInv'
  <2>1. row'[r] # 0 /\ \A q \in Requests : row[q] # row'[r]
    BY <1>0, <1>9 DEF Allocate, IdsInv
  <2>2. Alone(r)'
    BY <1>0, <1>1, <1>9, <2>1 DEF Allocate
  <2> QED BY <1>0, <1>1, <1>2, <1>9, <2>1, <2>2 DEF Allocate
<1>10. ASSUME NEW r \in Requests, LockRow(r) PROVE KeyInv'
  <2>1. CASE ask[r].id \in Rows(name)
    <3>1. row'[r] = ask[r].id /\ row'[r] # 0 /\ key'[r] = NoName
      BY <1>0, <1>1, <1>10, <2>1 DEF LockRow, Rows
    <3>2. Alone(r)'
      BY <1>0, <1>10, <2>1, <3>1 DEF LockRow, Rows
    <3> QED BY <1>0, <1>2, <1>10, <3>1, <3>2 DEF LockRow
  <2>2. CASE ask[r].id \notin Rows(name)
    BY <1>0, <1>4, <1>10, <2>2 DEF LockRow
  <2> QED BY <2>1, <2>2
<1>11. ASSUME NEW r \in Requests, WriteKey(r) PROVE KeyInv'
  <2>1. CASE ask[r].name # NoName /\ \E i \in Rows(name) \ {row[r]} : name[i] = ask[r].name
    BY <1>0, <1>4, <1>11, <2>1 DEF WriteKey
  <2>2. CASE ask[r].name # NoName /\ \A i \in Rows(name) \ {row[r]} : name[i] # ask[r].name
    <3>1. key'[r] = ask[r].name /\ row' = row /\ pc'[r] = "commit"
      BY <1>0, <1>11, <2>2 DEF WriteKey
    <3>2. \A q \in Requests \ {r} : key[q] # key'[r]
      BY <1>11, <2>2, <3>1 DEF WriteKey, Undecided
    <3>3. Alone(r)'
      BY <1>1, <1>11, <2>2, <3>1 DEF WriteKey, Rows
    <3> QED BY <1>0, <1>1, <1>2, <1>11, <2>2, <3>1, <3>2, <3>3 DEF WriteKey
  <2>3. CASE ask[r].name = NoName
    <3>1. Alone(r)'
      BY <1>0, <1>1, <1>11, <2>3 DEF WriteKey, Rows
    <3> QED BY <1>0, <1>1, <1>2, <1>11, <2>3, <3>1 DEF WriteKey
  <2> QED BY <2>1, <2>2, <2>3
<1>12. ASSUME NEW r \in Requests, Commit(r) PROVE KeyInv'
  <2>1. CASE key[r] = NoName
    BY <1>0, <1>4, <1>12, <2>1 DEF Commit
  <2>2. CASE key[r] # NoName
    <3>1. row[r] \in Ids /\ pc[r] = "commit" /\ name' = [name EXCEPT ![row[r]] = key[r]]
      BY <1>0, <1>1, <1>12, <2>2 DEF Commit
    <3>2. /\ row'[r] = 0 /\ key'[r] = NoName /\ pc'[r] \notin {"key", "commit"}
          /\ \A q \in Requests \ {r} :
               pc'[q] = pc[q] /\ row'[q] = row[q] /\ key'[q] = key[q] /\ ask'[q] = ask[q]
      BY <1>0, <1>12 DEF Commit
    <3>3. Rows(name)' = Rows(name) \cup {row[r]}
      BY <1>0, <2>2, <3>1 DEF Rows
    <3>4. \A i \in Rows(name)' : name'[i] = IF i = row[r] THEN key[r] ELSE name[i]
      BY <1>0, <3>1 DEF Rows
    <3>5. \A i, j \in Rows(name)' : name'[i] = name'[j] => i = j
      BY <1>1, <2>2, <3>3, <3>4
    <3>6. ASSUME NEW q \in Requests PROVE Alone(q)'
      <4>1. CASE q = r
        BY <3>2, <4>1
      <4>2. CASE q # r
        <5>1. /\ pc'[q] = pc[q] /\ row'[q] = row[q] /\ key'[q] = key[q] /\ ask'[q] = ask[q]
              /\ Alone(q) /\ (key[q] # NoName => key[q] # key[r])
          BY <1>1, <3>2, <3>6, <4>2
        <5>2. key'[q] # NoName => \A i \in Rows(name)' : name'[i] = key'[q] => i = row'[q]
          BY <3>3, <3>4, <5>1
        <5> QED BY <3>3, <5>1, <5>2
      <4> QED BY <4>1, <4>2
    <3>7. \A p, q \in Requests : row'[p] = row'[q] /\ row'[q] # 0 => p = q
      BY <1>1, <3>2
    <3>8. \A p, q \in Requests : key'[p] = key'[q] /\ key'[q] # NoName => p = q
      BY <1>1, <3>2
    <3> QED BY <3>5, <3>6, <3>7, <3>8 DEF KeyInv
  <2> QED BY <2>1, <2>2
<1> QED BY <1>5, <1>6, <1>7, <1>8, <1>9, <1>10, <1>11, <1>12 DEF Next, Loop, Thread

-----------------------------------------------------------------------------
(* Names that were always taken *)

LEMMA HeldStep ==
  ASSUME TypeOK, KeyInv, HeldInv, AnswerInv, [Next]_vars
  PROVE  HeldInv'
<1> USE Constants DEF database, thread, loop, listing, Return
<1> DEFINE Own(r) == ask[r].id \in Rows(name) /\ name[ask[r].id] = ask[r].name
           Held(r) ==
             /\ held[r] \subseteq Taken(name)
             /\ pc[r] # "idle" => ask[r] \in Asks
             /\ pc[r] = "lookup" => ask[r].name # NoName
             /\ pc[r] \in {"row", "key"} /\ ask[r].name # NoName
                  /\ ask[r].name \in held[r] => Own(r)
             /\ result[r] = "duplicate" => ask[r].name \notin held[r]
<1>0. /\ pc \in [Requests -> {"idle", "body", "lookup", "row", "key", "commit",
                             "event", "over"}]
      /\ row \in [Requests -> Ids \cup {0}] /\ key \in [Requests -> Names \cup {NoName}]
      /\ ask \in [Requests -> Asks \cup {Nothing}]
      /\ held \in [Requests -> SUBSET Names]
      /\ result \in [Requests -> Outcomes \cup {"none"}]
      /\ name \in [Ids -> Names \cup {NoName}]
  BY DEF TypeOK
<1>1. \A r \in Requests : Held(r)
  BY DEF HeldInv
<1>2. ASSUME NEW r \in Requests, name' = name, Held(r)',
             \A q \in Requests \ {r} :
               /\ pc'[q] = pc[q] /\ held'[q] = held[q]
               /\ result'[q] = result[q] /\ ask'[q] = ask[q]
      PROVE  HeldInv'
  <2>1. \A q \in Requests : Held(q)'
    BY <1>1, <1>2 DEF Rows, Taken
  <2> QED BY <2>1 DEF HeldInv
<1>3. ASSUME UNCHANGED <<name, held, result, ask, pc>> PROVE HeldInv'
  BY <1>1, <1>3 DEF HeldInv, Rows, Taken
<1>4. CASE UNCHANGED vars \/ FetchPage \/ CountRows
  BY <1>3, <1>4 DEF vars, FetchPage, ReadPage, CountRows
<1>5. ASSUME NEW r \in Requests, Respond(r) \/ Complete(r) \/ TimeOut(r) PROVE HeldInv'
  BY <1>3, <1>5 DEF Respond, Complete, TimeOut
<1>6. ASSUME NEW r \in Requests, Arrive(r) PROVE HeldInv'
  <2>1. result[r] = "none" /\ pc'[r] = "body"
    BY <1>0, <1>6 DEF Arrive, AnswerInv
  <2> QED BY <1>0, <1>1, <1>2, <1>6, <2>1 DEF Arrive, Rows, Taken
<1>7. ASSUME NEW r \in Requests, Refuse(r) PROVE HeldInv'
  BY <1>0, <1>1, <1>2, <1>7 DEF Refuse, Rows, Taken
<1>8. ASSUME NEW r \in Requests, Dispatch(r) PROVE HeldInv'
  <2>1. result[r] = "none" /\ pc[r] = "body"
    BY <1>8 DEF Dispatch, AnswerInv
  <2>2. held' = [held EXCEPT ![r] = Taken(name)] /\ name' = name /\ ask' = ask
    BY <1>8 DEF Dispatch
  <2>3. Taken(name)' = Taken(name) /\ held'[r] = Taken(name)
    BY <1>0, <2>2 DEF Taken, Rows
  <2>4. \/ pc'[r] = "over" /\ result'[r] = "invalid"
        \/ result'[r] = result[r] /\ pc'[r] = IF ask[r].name = NoName THEN "row" ELSE "lookup"
    BY <1>0, <1>8 DEF Dispatch
  <2>5. Held(r)'
    BY <1>1, <2>1, <2>2, <2>3, <2>4
  <2> QED BY <1>0, <1>2, <1>8, <2>2, <2>5 DEF Dispatch
<1>9. ASSUME NEW r \in Requests, Lookup(r) PROVE HeldInv'
  <2>1. ask[r].name \in held[r] =>
          \E i \in Rows(name) : name[i] = ask[r].name
    BY <1>1 DEF Taken
  <2> QED BY <1>0, <1>1, <1>2, <1>9, <2>1 DEF Lookup, Rows, Taken
<1>10. ASSUME NEW r \in Requests, Allocate(r) PROVE HeldInv'
  BY <1>0, <1>1, <1>2, <1>10 DEF Allocate, Rows, Taken
<1>11. ASSUME NEW r \in Requests, LockRow(r) PROVE HeldInv'
  BY <1>0, <1>1, <1>2, <1>11 DEF LockRow, Rows, Taken
<1>12. ASSUME NEW r \in Requests, WriteKey(r) PROVE HeldInv'
  <2>1. ASSUME NEW i \in Rows(name) \ {row[r]}, name[i] = ask[r].name
        PROVE  ask[r].name \notin held[r]
    <3>1. SUFFICES ASSUME ask[r].name \in held[r] PROVE FALSE
      OBVIOUS
    <3>2. Own(r) /\ ask[r] \in Asks /\ pc[r] = "key"
      BY <1>0, <1>1, <1>12, <2>1, <3>1 DEF WriteKey
    <3>3. i = ask[r].id
      BY <2>1, <3>2 DEF KeyInv
    <3>4. ask[r].kind = "patch"
      BY <3>2, AskFacts DEF Rows
    <3> QED BY <2>1, <3>2, <3>3, <3>4 DEF KeyInv
  <2> QED BY <1>0, <1>1, <1>2, <1>12, <2>1 DEF WriteKey, Rows, Taken
<1>13. ASSUME NEW r \in Requests, DatabaseFails(r) \/ RecordEvent(r) \/ EventFails(r)
       PROVE  HeldInv'
  BY <1>0, <1>1, <1>2, <1>13 DEF DatabaseFails, RecordEvent, EventFails, Rows, Taken
<1>14. ASSUME NEW r \in Requests, Commit(r) PROVE HeldInv'
  <2>1. /\ row[r] \in Ids /\ ask' = ask
        /\ name' = IF key[r] = NoName THEN name ELSE [name EXCEPT ![row[r]] = key[r]]
        /\ \A q \in Requests : held'[q] = held[q] \cap Taken(name')
        /\ pc'[r] \in {"over", "event"} /\ result'[r] \in {"failed", result[r]}
        /\ \A q \in Requests \ {r} : pc'[q] = pc[q] /\ result'[q] = result[q]
    BY <1>0, <1>14 DEF Commit, KeyInv
  <2>2. ASSUME NEW q \in Requests \ {r}, pc[q] \in {"row", "key"}, ask[q].name # NoName,
               ask[q].name \in held'[q]
        PROVE  Own(q)'
    <3>1. Own(q)
      BY <1>1, <2>1, <2>2
    <3>2. CASE name'[ask[q].id] = name[ask[q].id]
      BY <2>1, <2>2, <3>1, <3>2 DEF Rows
    <3>3. CASE name'[ask[q].id] # name[ask[q].id]
      <4>1. ask[q].id = row[r] /\ key[r] # NoName /\ name'[row[r]] = key[r]
        BY <1>0, <2>1, <3>1, <3>3 DEF Rows
      <4>2. PICK i \in Ids : name'[i] = ask[q].name
        BY <2>1, <2>2 DEF Taken, Rows
      <4>3. CASE i = row[r]
        BY <2>1, <2>2, <3>1, <4>1, <4>2, <4>3 DEF Rows
      <4>4. CASE i # row[r]
        <5>1. i \in Rows(name) /\ name[i] = ask[q].name
          BY <1>0, <2>1, <2>2, <4>2, <4>4 DEF Rows
        <5> QED BY <3>1, <4>1, <4>4, <5>1 DEF KeyInv
      <4> QED BY <4>3, <4>4
    <3> QED BY <3>2, <3>3
  <2>3. ASSUME NEW q \in Requests PROVE Held(q)'
    <3>1. held'[q] \subseteq Taken(name)' /\ held'[q] \subseteq held[q]
      BY <2>1, <2>3 DEF Taken, Rows
    <3>2. CASE q = r
      BY <1>0, <1>1, <1>14, <2>1, <3>1, <3>2 DEF Commit
    <3>3. CASE q # r
      BY <1>1, <2>1, <2>2, <2>3, <3>1, <3>3
    <3> QED BY <3>2, <3>3
  <2> QED BY <2>3 DEF HeldInv
<1> QED BY <1>4, <1>5, <1>6, <1>7, <1>8, <1>9, <1>10, <1>11, <1>12, <1>13, <1>14
        DEF Next, Loop, Thread

-----------------------------------------------------------------------------
LEMMA CatalogueStep == CatalogueInv /\ [Next]_vars => CatalogueInv'
BY TypeStep, IdsStep, AnswerStep, KeyStep, HeldStep DEF CatalogueInv

(* The whole invariant: ids and names given once, one transaction per row and
   per written name, answers that match what the database holds. *)
THEOREM Invariance == Spec => []CatalogueInv
BY CatalogueInit, CatalogueStep, PTL DEF Spec

(* Every variable keeps its type, for any number of requests. *)
THEOREM TypeCorrect == Spec => []TypeOK
<1>1. CatalogueInv => TypeOK
  BY DEF CatalogueInv
<1> QED BY <1>1, Invariance, PTL

LEMMA AnswersFollow == TypeOK /\ AnswerInv => AnswersAreKept
<1> SUFFICES ASSUME TypeOK, AnswerInv, NEW r \in Requests
             PROVE  /\ Len(sent[r]) <= 1
                    /\ \A i \in DOMAIN sent[r] :
                         /\ sent[r][i] \in {"created", "updated"} => r \in logged
                         /\ sent[r][i] = "unconfirmed" => r \in changed
                         /\ sent[r][i] = "failed" => pc[r] = "over" /\ r \notin logged
                         /\ sent[r][i] \in Refusals \cup {"too_large", "bad_length"} =>
                              pc[r] = "over" /\ r \notin changed
                    /\ r \in logged => r \in changed
  BY DEF AnswersAreKept
<1>1. Said(r) /\ (pc[r] = "over" => Left(r)) /\ (r \in logged => r \in changed)
  BY DEF AnswerInv
<1>2. CASE sent[r] = <<>>
  BY <1>1, <1>2
<1>3. CASE sent[r] = <<"timeout">>
  BY <1>1, <1>3 DEF Refusals
<1>4. CASE pc[r] = "over" /\ result[r] = "none" /\ sent[r] \in {<<"too_large">>, <<"bad_length">>}
  <2>1. PICK why \in {"too_large", "bad_length"} : sent[r] = <<why>>
    BY <1>4
  <2>2. r \notin changed /\ pc[r] = "over"
    BY <1>1, <1>4 DEF Left
  <2>3. Len(sent[r]) = 1 /\ \A i \in DOMAIN sent[r] : sent[r][i] = why
    BY <2>1
  <2> QED BY <1>1, <2>2, <2>3 DEF Refusals
<1>5. CASE pc[r] = "over" /\ result[r] # "none" /\ sent[r] = <<result[r]>>
  <2>1. result[r] \notin {"too_large", "bad_length"}
    BY DEF TypeOK, Outcomes, Refusals
  <2> QED BY <1>1, <1>5, <2>1 DEF Refusals, Left
<1> QED BY <1>1, <1>2, <1>3, <1>4, <1>5 DEF Said

(* A request is answered at most once, and the answer stays true of the database:
   created and updated are committed with their event, a refusal has changed
   nothing; one that failed after its change is committed all the same, whether or not
   its event is. *)
THEOREM AnswersKept == Spec => []AnswersAreKept
<1>1. CatalogueInv => AnswersAreKept
  BY AnswersFollow DEF CatalogueInv
<1> QED BY <1>1, Invariance, PTL

(* The unique index refuses after the lookup only a name that was free at some
   time since the handler began. *)
THEOREM LateNames == Spec => []LateNamesOnly
<1>1. CatalogueInv => LateNamesOnly
  BY DEF CatalogueInv, HeldInv, LateNamesOnly
<1> QED BY <1>1, Invariance, PTL
-----------------------------------------------------------------------------
(* The listing *)

Services == Rows(name)
Position(i) == Cardinality(UpTo(i))

LEMMA RowsAreFinite ==
  /\ Services \subseteq Ids /\ IsFiniteSet(Services)
  /\ Cardinality(Services) \in Nat
  /\ \A i \in Ids : i \in Nat /\ i # 0
<1>1. Len(First) + Cardinality(Requests) \in Int
  BY Constants
<1>2. IsFiniteSet(Ids) /\ \A i \in Ids : i \in Nat /\ i # 0
  BY <1>1, Constants, FS_Interval
<1>3. Services \subseteq Ids
  BY DEF Services, Rows
<1> QED BY <1>2, <1>3, FS_Subset, FS_CardinalityType

(* Positions count: they go from 1 to the number of the services, in the order of
   the ids, and each is that of a service. *)
LEMMA PositionsCount ==
  /\ \A i \in Services : Position(i) \in 1 .. Cardinality(Services)
  /\ \A i, j \in Services : i < j => Position(i) < Position(j)
<1>1. ASSUME NEW i \in Services
      PROVE  /\ IsFiniteSet(UpTo(i)) /\ Position(i) \in Nat
             /\ Position(i) <= Cardinality(Services) /\ Position(i) # 0
  <2>1. UpTo(i) \in SUBSET Services /\ i \in UpTo(i)
    BY RowsAreFinite DEF UpTo, Services
  <2> QED BY <2>1, RowsAreFinite, FS_Subset, FS_CardinalityType, FS_EmptySet
          DEF Position
<1>2. ASSUME NEW i \in Services, NEW j \in Services, i < j
      PROVE  Position(i) < Position(j)
  <2>1. i \in Nat /\ j \in Nat
    BY RowsAreFinite
  <2>2. UpTo(i) \in SUBSET UpTo(j)
    BY <1>2, <2>1, RowsAreFinite DEF UpTo, Services
  <2>3. j \in UpTo(j) /\ j \notin UpTo(i)
    BY <1>2, <2>1 DEF UpTo, Services
  <2>4. Position(i) <= Position(j) /\ Position(i) # Position(j)
    BY <1>1, <2>2, <2>3, FS_Subset DEF Position
  <2> QED BY <1>1, <2>4
<1> QED BY <1>1, <1>2, RowsAreFinite

LEMMA EveryPosition ==
  ASSUME NEW k \in 1 .. Cardinality(Services)
  PROVE  \E i \in Services : Position(i) = k
<1> DEFINE f == [i \in Services |-> Position(i)]
           all == 1 .. Cardinality(Services)
<1>1. \A i, j \in Services : Position(i) = Position(j) => i = j
  <2> SUFFICES ASSUME NEW i \in Services, NEW j \in Services, i # j
               PROVE  Position(i) # Position(j)
    OBVIOUS
  <2>1. i < j \/ j < i
    BY RowsAreFinite
  <2> QED BY <2>1, PositionsCount, RowsAreFinite
<1>2. f \in Injection(Services, all)
  BY <1>1, PositionsCount DEF Injection, IsInjective
<1>3. IsFiniteSet(all) /\ Cardinality(all) = Cardinality(Services)
  BY RowsAreFinite, FS_Interval
<1>4. f \in Surjection(Services, all)
  BY <1>2, <1>3, FS_Injection
<1> QED BY <1>4 DEF Surjection

(* The sequence of the services by id. *)
LEMMA SortedById ==
  /\ ById \in Seq(Ids) /\ Len(ById) = Cardinality(Services)
  /\ \A k \in 1 .. Len(ById) : ById[k] \in Services /\ Position(ById[k]) = k
  /\ \A k, l \in 1 .. Len(ById) : k < l => ById[k] < ById[l]
<1> DEFINE c == Cardinality(Services)
<1>1. c \in Nat
  BY RowsAreFinite
<1>2. ASSUME NEW k \in 1 .. c
      PROVE  ById[k] \in Services /\ Position(ById[k]) = k
  <2>1. ById[k] = CHOOSE i \in Services : Position(i) = k
    BY DEF ById, Services, Position
  <2> QED BY <2>1, EveryPosition
<1>3. ById \in Seq(Ids) /\ Len(ById) = c
  <2>1. ById = [k \in 1 .. c |-> ById[k]]
    BY DEF ById, Services
  <2>2. \A k \in 1 .. c : ById[k] \in Ids
    BY <1>2, RowsAreFinite
  <2> QED BY <1>1, <2>1, <2>2
<1>4. ASSUME NEW k \in 1 .. c, NEW l \in 1 .. c, k < l
      PROVE  ById[k] < ById[l]
  <2>1. ById[k] \in Nat /\ ById[l] \in Nat
    BY <1>2, RowsAreFinite
  <2>2. ~ (ById[l] < ById[k])
    BY <1>2, <1>4, PositionsCount
  <2>3. ById[l] # ById[k]
    BY <1>2, <1>4
  <2> QED BY <2>1, <2>2, <2>3
<1> QED BY <1>2, <1>3, <1>4

(* The services of the beginning, which are never deleted, stay at their places. *)
LEMMA FirstPlaces ==
  ASSUME 1 .. Len(First) \subseteq Services
  PROVE  /\ Len(First) <= Len(ById)
         /\ \A k \in 1 .. Len(ById) :
              IF k <= Len(First) THEN ById[k] = k ELSE ById[k] > Len(First)
<1>1. ASSUME NEW i \in 1 .. Len(First) PROVE Position(i) = i
  <2>1. i \in Int /\ Len(First) \in Nat
    BY Constants
  <2>2. UpTo(i) = 1 .. i
    BY <2>1, RowsAreFinite DEF UpTo, Services
  <2> QED BY <2>1, <2>2, FS_Interval DEF Position
<1>2. Len(First) <= Len(ById)
  <2>1. CASE Len(First) = 0
    BY <2>1, SortedById, RowsAreFinite
  <2>2. CASE Len(First) # 0
    <3>1. Len(First) \in 1 .. Len(First)
      BY <2>2, Constants
    <3> QED BY <1>1, <3>1, PositionsCount, SortedById, RowsAreFinite
  <2> QED BY <2>1, <2>2
<1>3. ASSUME NEW i \in Services, NEW j \in Services, Position(i) = Position(j)
      PROVE  i = j
  BY <1>3, PositionsCount, RowsAreFinite
<1>4. ASSUME NEW k \in 1 .. Len(ById)
      PROVE  IF k <= Len(First) THEN ById[k] = k ELSE ById[k] > Len(First)
  <2>1. /\ ById[k] \in Services /\ Position(ById[k]) = k
        /\ ById[k] \in Nat /\ ById[k] # 0 /\ Len(First) \in Nat
    BY SortedById, RowsAreFinite, Constants
  <2>2. CASE k <= Len(First)
    BY <1>1, <1>3, <2>1, <2>2
  <2>3. CASE ~ (k <= Len(First))
    <3>1. ById[k] \notin 1 .. Len(First)
      BY <1>1, <2>1, <2>3
    <3> QED BY <2>1, <2>3, <3>1
  <2> QED BY <2>2, <2>3
<1> QED BY <1>2, <1>4

(* What the pages have passed. *)
Passed == IF walk = "count" THEN offset + Limit ELSE offset

(* Services are not deleted; what was there at the beginning and has been passed
   was shown; nothing was shown beyond what was passed, but for a service that
   came later, which is behind all those of the beginning. *)
WalkInv ==
  /\ before = 1 .. Len(First) /\ before \subseteq Services
  /\ shown \in Seq(Ids)
  /\ \A i \in before : i <= Passed => \E k \in 1 .. Len(shown) : shown[k] = i
  /\ \A k \in 1 .. Len(shown) : shown[k] <= Passed \/ Len(First) < Passed
  /\ \A i, j \in 1 .. Len(shown) :
       i < j /\ shown[j] <= shown[i] => \E k \in Services \ before : k < shown[i]
  /\ walk = "done" => Len(First) <= Passed

LEMMA WalkInit == Init => WalkInv
<1> SUFFICES ASSUME Init PROVE WalkInv
  OBVIOUS
<1>1. before = 1 .. Len(First) /\ shown = <<>> /\ Passed = 0 /\ walk # "done"
  BY DEF Init, Passed
<1>2. before \subseteq Services
  BY <1>1, Constants DEF Init, Services, Rows
<1> QED BY <1>1, <1>2, Constants DEF WalkInv

LEMMA RowsStay == [Next]_vars => Services \subseteq Services'
<1> SUFFICES ASSUME [Next]_vars PROVE Services \subseteq Services'
  OBVIOUS
<1>1. \/ name' = name
      \/ \E r \in Requests : key[r] # NoName /\ name' = [name EXCEPT ![row[r]] = key[r]]
  BY DEF Next, Loop, Thread, Arrive, Refuse, Dispatch, Respond, Complete, TimeOut,
         Lookup, Allocate, LockRow, WriteKey, DatabaseFails, Commit, RecordEvent,
         EventFails, FetchPage, ReadPage, CountRows, vars, database
<1>2. CASE name' = name
  BY <1>2 DEF Services, Rows
<1>3. ASSUME NEW r \in Requests, key[r] # NoName,
             name' = [name EXCEPT ![row[r]] = key[r]]
      PROVE  Services \subseteq Services'
  BY <1>3 DEF Services, Rows
<1> QED BY <1>1, <1>2, <1>3

(* A page: the services at the places that follow those passed. *)
LEMMA PageIs ==
  ASSUME TypeOK, WalkInv, FetchPage
  PROVE  /\ shown' \in Seq(Ids) /\ Len(shown) <= Len(shown')
         /\ Passed = offset /\ Passed' = offset + Limit
         /\ \A k \in 1 .. Len(shown) : shown'[k] = shown[k]
         /\ \A k \in 1 .. Len(shown') : k > Len(shown) =>
              /\ offset + (k - Len(shown)) \in 1 .. Len(ById)
              /\ offset + (k - Len(shown)) <= offset + Limit
              /\ shown'[k] = ById[offset + (k - Len(shown))]
         /\ \A p \in 1 .. Len(ById) : offset < p /\ p <= offset + Limit =>
              \E k \in 1 .. Len(shown') : shown'[k] = ById[p]
<1> DEFINE end == IF offset + Limit <= Len(ById) THEN offset + Limit ELSE Len(ById)
           page == SubSeq(ById, offset + 1, end)
<1>1. /\ offset \in Nat /\ Limit \in Nat /\ Limit # 0 /\ Len(ById) \in Nat
      /\ ById \in Seq(Ids) /\ shown \in Seq(Ids) /\ Len(shown) \in Nat
      /\ walk = "page" /\ walk' = "count" /\ offset' = offset
  <2>1. Limit \in Nat /\ Limit # 0
    BY CatalogueAssumption
  <2>2. Len(ById) \in Nat /\ ById \in Seq(Ids)
    BY SortedById, RowsAreFinite
  <2>3. /\ offset \in Nat /\ shown \in Seq(Ids)
        /\ walk = "page" /\ walk' = "count" /\ offset' = offset
    BY DEF TypeOK, WalkInv, FetchPage, ReadPage
  <2> QED BY <2>1, <2>2, <2>3
<1>2. Min({offset + Limit, Len(ById)}) = end
  BY <1>1 DEF Min
<1>3. shown' = shown \o page
  BY <1>2 DEF FetchPage, ReadPage
<1>4. end \in Nat /\ end <= Len(ById) /\ end <= offset + Limit
  BY <1>1
<1>5. \A i \in offset + 1 .. end : ById[i] \in Ids
  BY <1>1, <1>4, SortedById, RowsAreFinite
<1>6. /\ page \in Seq(Ids)
      /\ Len(page) = IF offset + 1 <= end THEN end - offset ELSE 0
      /\ \A i \in 1 .. Len(page) : page[i] = ById[offset + i]
  <2>1. /\ page \in Seq(Ids)
        /\ Len(page) = IF offset + 1 <= end THEN end - (offset + 1) + 1 ELSE 0
        /\ \A i \in 1 .. end - (offset + 1) + 1 : page[i] = ById[offset + 1 + i - 1]
    BY <1>1, <1>4, <1>5, SubSeqProperties
  <2> HIDE DEF page, end
  <2>2. offset \in Nat /\ end \in Nat
    BY <1>1, <1>4
  <2>3. Len(page) = IF offset + 1 <= end THEN end - offset ELSE 0
    BY <2>1, <2>2
  <2>4. ASSUME NEW i \in 1 .. Len(page) PROVE page[i] = ById[offset + i]
    <3>1. i \in 1 .. end - (offset + 1) + 1 /\ offset + 1 + i - 1 = offset + i
      BY <2>2, <2>3
    <3> QED BY <2>1, <3>1
  <2> QED BY <2>1, <2>3, <2>4
<1>7. /\ shown' \in Seq(Ids) /\ Len(shown') = Len(shown) + Len(page)
      /\ \A k \in 1 .. Len(shown) + Len(page) : shown'[k] =
           IF k <= Len(shown) THEN shown[k] ELSE page[k - Len(shown)]
  BY <1>1, <1>3, <1>6, ConcatProperties
<1>8. Len(page) \in Nat
  BY <1>1, <1>4, <1>6
<1> HIDE DEF page
<1>9. ASSUME NEW k \in 1 .. Len(shown'), k > Len(shown)
      PROVE  /\ offset + (k - Len(shown)) \in 1 .. Len(ById)
             /\ offset + (k - Len(shown)) <= offset + Limit
             /\ shown'[k] = ById[offset + (k - Len(shown))]
  <2>1. k - Len(shown) \in 1 .. Len(page)
    BY <1>1, <1>7, <1>8, <1>9
  <2>2. offset + (k - Len(shown)) <= end
    BY <1>1, <1>4, <1>6, <2>1
  <2>3. /\ offset + (k - Len(shown)) \in 1 .. Len(ById)
        /\ offset + (k - Len(shown)) <= offset + Limit
    BY <1>1, <1>4, <1>8, <2>1, <2>2
  <2>4. k \in 1 .. Len(shown) + Len(page) /\ ~ (k <= Len(shown))
    BY <1>1, <1>7, <1>8, <1>9
  <2>5. shown'[k] = page[k - Len(shown)]
    BY <1>7, <2>4
  <2>6. page[k - Len(shown)] = ById[offset + (k - Len(shown))]
    BY <1>6, <2>1
  <2> QED BY <2>3, <2>5, <2>6
<1>10. ASSUME NEW p \in 1 .. Len(ById), offset < p, p <= offset + Limit
       PROVE  \E k \in 1 .. Len(shown') : shown'[k] = ById[p]
  <2>1. p <= end /\ p - offset \in 1 .. Len(page)
    BY <1>1, <1>4, <1>6, <1>10
  <2>2. Len(shown) + (p - offset) \in 1 .. Len(shown')
    BY <1>1, <1>7, <1>8, <2>1
  <2>3. shown'[Len(shown) + (p - offset)] = ById[p]
    <3>1. PICK d \in 1 .. Len(page) : d = p - offset
      BY <2>1
    <3>2. shown'[Len(shown) + d] = page[d]
      <4> DEFINE k == Len(shown) + d
      <4>1. k \in 1 .. Len(shown) + Len(page)
        <5>1. d \in Nat /\ 1 <= d /\ d <= Len(page)
          BY <1>8, <3>1
        <5>2. Len(shown) \in Nat
          BY <1>1
        <5> QED BY <1>8, <5>1, <5>2
      <4>2. ~ (k <= Len(shown)) /\ k - Len(shown) = d
        BY <1>1, <1>8, <4>1
      <4>3. shown'[k] = page[k - Len(shown)]
        BY <1>7, <4>1, <4>2
      <4> QED BY <4>2, <4>3
    <3>3. page[d] = ById[offset + d] /\ offset + d = p
      BY <1>1, <1>6, <3>1
    <3> QED BY <3>1, <3>2, <3>3
  <2> QED BY <2>2, <2>3
<1>11. /\ Len(shown) <= Len(shown')
       /\ \A k \in 1 .. Len(shown) : shown'[k] = shown[k]
  BY <1>1, <1>7, <1>8
<1>12. Passed = offset /\ Passed' = offset + Limit
  BY <1>1 DEF Passed
<1> QED BY <1>7, <1>9, <1>10, <1>11, <1>12

LEMMA PageStep == ASSUME TypeOK, WalkInv, FetchPage PROVE WalkInv'
<1> DEFINE n == Len(First)
<1>1. /\ n \in Nat /\ Limit \in Nat /\ Limit # 0 /\ offset \in Nat
      /\ before' = before /\ before = 1 .. n /\ Services' = Services
      /\ before \subseteq Services /\ walk' # "done"
  BY Constants, CatalogueAssumption
     DEF TypeOK, WalkInv, FetchPage, ReadPage, database, Services, Rows
<1>2. Len(shown') \in Nat /\ Len(shown) \in Nat /\ Len(ById) \in Nat
  BY PageIs, SortedById, RowsAreFinite DEF WalkInv
<1>3. /\ n <= Len(ById)
      /\ \A k \in 1 .. Len(ById) : IF k <= n THEN ById[k] = k ELSE ById[k] > n
  BY <1>1, FirstPlaces
<1>4. \A k \in 1 .. Len(ById) : ById[k] \in Nat /\ ById[k] \in Services
  BY SortedById, RowsAreFinite
<1>5. \A k \in 1 .. Len(shown') : shown'[k] \in Nat
  BY PageIs, RowsAreFinite
<1>6. ASSUME NEW i \in before, i <= Passed'
      PROVE  \E k \in 1 .. Len(shown') : shown'[k] = i
  <2>1. CASE i <= Passed
    <3>1. PICK k \in 1 .. Len(shown) : shown[k] = i
      BY <2>1 DEF WalkInv
    <3> QED BY <1>2, <3>1, PageIs
  <2>2. CASE ~ (i <= Passed)
    <3>1. i \in 1 .. Len(ById) /\ offset < i /\ i <= offset + Limit /\ ById[i] = i
      BY <1>1, <1>2, <1>3, <1>6, <2>2, PageIs
    <3> QED BY <3>1, PageIs
  <2> QED BY <2>1, <2>2
<1>7. ASSUME NEW k \in 1 .. Len(shown')
      PROVE  shown'[k] <= Passed' \/ n < Passed'
  <2>1. CASE k <= Len(shown)
    <3>1. shown'[k] = shown[k] /\ k \in 1 .. Len(shown)
      BY <1>2, <2>1, PageIs
    <3>2. shown[k] <= Passed \/ n < Passed
      BY <3>1 DEF WalkInv
    <3> QED BY <1>1, <1>5, <3>1, <3>2, PageIs
  <2>2. CASE ~ (k <= Len(shown))
    <3> DEFINE p == offset + (k - Len(shown))
    <3>1. p \in 1 .. Len(ById) /\ p <= offset + Limit /\ shown'[k] = ById[p]
      BY <1>2, <2>2, PageIs
    <3>2. Passed' = offset + Limit
      BY PageIs
    <3>3. CASE p <= n
      BY <1>3, <3>1, <3>2, <3>3
    <3>4. CASE n < p
      BY <1>1, <1>2, <3>1, <3>2, <3>4
    <3> QED BY <1>1, <1>2, <3>1, <3>3, <3>4
  <2> QED BY <2>1, <2>2
<1>8. ASSUME NEW i \in 1 .. Len(shown'), NEW j \in 1 .. Len(shown'), i < j,
             shown'[j] <= shown'[i]
      PROVE  \E k \in Services \ before : k < shown'[i]
  <2>1. CASE j <= Len(shown)
    <3>1. /\ i \in 1 .. Len(shown) /\ j \in 1 .. Len(shown)
          /\ shown'[i] = shown[i] /\ shown'[j] = shown[j]
      BY <1>2, <1>8, <2>1, PageIs
    <3> QED BY <1>8, <3>1 DEF WalkInv
  <2>2. CASE i > Len(shown)
    <3> DEFINE p == offset + (i - Len(shown))
               q == offset + (j - Len(shown))
    <3>1. /\ p \in 1 .. Len(ById) /\ shown'[i] = ById[p]
          /\ q \in 1 .. Len(ById) /\ shown'[j] = ById[q] /\ p < q
      BY <1>1, <1>2, <1>8, <2>2, PageIs
    <3>2. ById[p] < ById[q]
      BY <3>1, SortedById
    <3> QED BY <1>4, <1>8, <3>1, <3>2
  <2>3. CASE i <= Len(shown) /\ j > Len(shown)
    <3> DEFINE q == offset + (j - Len(shown))
    <3>1. /\ q \in 1 .. Len(ById) /\ shown'[j] = ById[q] /\ q > offset
          /\ shown'[i] = shown[i] /\ i \in 1 .. Len(shown)
      <4>1. i \in 1 .. Len(shown)
        BY <1>1, <1>2, <1>8, <2>3
      <4>2. shown'[i] = shown[i]
        BY <4>1, PageIs
      <4>3. /\ j \in Len(shown) + 1 .. Len(shown')
            /\ j - Len(shown) \in Nat /\ j - Len(shown) > 0
        BY <1>1, <1>2, <1>8, <2>3
      <4>4. q > offset
        BY <1>1, <4>3
      <4>5. q \in 1 .. Len(ById) /\ shown'[j] = ById[q]
        BY <4>3, PageIs
      <4> QED BY <4>1, <4>2, <4>4, <4>5
    <3>2. shown'[i] <= offset \/ n < offset
      BY <3>1, PageIs DEF WalkInv
    <3>3. n < offset
      <4>1. CASE q <= n
        <5>1. ById[q] = q
          BY <1>3, <3>1, <4>1
        <5>2. q <= shown'[i] /\ shown'[i] \in Nat
          BY <1>5, <1>8, <3>1, <5>1
        <5> QED BY <1>1, <1>2, <3>1, <3>2, <4>1, <5>2
      <4>2. CASE q > n /\ shown'[i] <= offset
        <5>1. ById[q] > n /\ ById[q] <= offset
          <6>1. ~ (q <= n)
            BY <1>1, <1>2, <3>1, <4>2
          <6>2. ById[q] > n
            BY <1>3, <3>1, <6>1
          <6>3. ById[q] <= shown'[i] /\ ById[q] \in Nat /\ shown'[i] \in Nat
            BY <1>4, <1>5, <1>8, <3>1
          <6> QED BY <1>1, <4>2, <6>2, <6>3
        <5> QED BY <1>1, <1>4, <3>1, <5>1
      <4> QED BY <1>1, <1>2, <3>1, <3>2, <4>1, <4>2
    <3>4. n + 1 \in 1 .. Len(ById) /\ n + 1 < q
      BY <1>1, <1>2, <3>1, <3>3
    <3>5. ById[n + 1] < ById[q] /\ ById[n + 1] > n /\ ById[n + 1] \in Services
      BY <1>1, <1>2, <1>3, <3>1, <3>4, SortedById
    <3>6. ById[n + 1] < shown'[i]
      BY <1>4, <1>5, <1>8, <3>1, <3>4, <3>5
    <3>7. ById[n + 1] \notin before
      BY <1>1, <1>4, <3>4, <3>5
    <3> QED BY <3>5, <3>6, <3>7
  <2> QED BY <1>2, <2>1, <2>2, <2>3
<1> QED BY <1>1, <1>6, <1>7, <1>8, PageIs DEF WalkInv

LEMMA CountStep == ASSUME TypeOK, WalkInv, CountRows PROVE WalkInv'
<1>1. /\ before' = before /\ shown' = shown /\ Services' = Services
      /\ walk = "count" /\ offset' = offset + Limit
      /\ walk' = IF offset + Limit < Cardinality(Services) THEN "page" ELSE "done"
  BY DEF CountRows, database, Services, Rows
<1>2. Passed' = Passed
  BY <1>1 DEF Passed
<1>3. walk' = "done" => Len(First) <= Passed'
  <2>1. /\ Len(First) <= Cardinality(Services) /\ Len(First) \in Nat
        /\ Cardinality(Services) \in Nat /\ offset + Limit \in Nat
    BY FirstPlaces, SortedById, RowsAreFinite, Constants, CatalogueAssumption
       DEF WalkInv, TypeOK
  <2> QED BY <1>1, <2>1 DEF Passed
<1> QED BY <1>1, <1>2, <1>3 DEF WalkInv

LEMMA WalkStep == TypeOK /\ WalkInv /\ [Next]_vars => WalkInv'
<1> SUFFICES ASSUME TypeOK, WalkInv, [Next]_vars PROVE WalkInv'
  OBVIOUS
<1>1. CASE FetchPage
  BY <1>1, PageStep
<1>2. CASE CountRows
  BY <1>2, CountStep
<1>3. CASE UNCHANGED listing
  <2>1. UNCHANGED <<walk, shown, offset, before>> /\ Services \subseteq Services'
    BY <1>3, RowsStay DEF listing
  <2> QED BY <2>1 DEF WalkInv, Passed
<1>4. FetchPage \/ CountRows \/ UNCHANGED listing
  BY DEF Next, Loop, Thread, Arrive, Refuse, Dispatch, Respond, Complete, TimeOut,
         Lookup, Allocate, LockRow, WriteKey, DatabaseFails, Commit, RecordEvent,
         EventFails, vars
<1> QED BY <1>1, <1>2, <1>3, <1>4

(* Reading page by page shows every service there was at the beginning, and a
   service twice only when one with a smaller id, given out before, has come. *)
THEOREM PagesMissNothing == Spec => []WalkMissesNothing
<1>1. TypeOK /\ WalkInv => WalkMissesNothing
  <2> SUFFICES ASSUME TypeOK, WalkInv PROVE WalkMissesNothing
    OBVIOUS
  <2>1. DOMAIN shown = 1 .. Len(shown)
    BY DEF WalkInv
  <2>2. ASSUME walk = "done", NEW i \in before PROVE i \in ToSet(shown)
    <3>1. i <= Passed
      BY <2>2, Constants, CatalogueAssumption DEF WalkInv, Passed, TypeOK
    <3>2. PICK k \in 1 .. Len(shown) : shown[k] = i
      BY <3>1 DEF WalkInv
    <3> QED BY <2>1, <3>2 DEF ToSet
  <2> QED BY <2>1, <2>2 DEF WalkMissesNothing, WalkInv, Services
<1>2. CatalogueInv => TypeOK
  BY DEF CatalogueInv
<1> QED BY <1>1, <1>2, WalkInit, WalkStep, Invariance, PTL DEF Spec

-----------------------------------------------------------------------------
(* The catalogue is a register *)

(* What a thread knows of its request and of the row it is to write. *)
KnownInv ==
  \A r \in Requests :
    /\ pc[r] = "idle" => ask[r] = Nothing
    /\ pc[r] = "commit" => key[r] = ask[r].name
    /\ pc[r] \in {"key", "commit"} /\ ask[r].kind = "create" => row[r] \notin Rows(name)
    /\ result[r] = "created" => ask[r].kind = "create"
    /\ result[r] = "updated" => ask[r].kind = "patch"

LEMMA KnownInit == Init => KnownInv
BY DEF Init, KnownInv

LEMMA KnownStep ==
  ASSUME CatalogueInv, KnownInv, [Next]_vars
  PROVE  KnownInv'
<1> USE Constants DEF database, thread, loop, listing, Return
<1> DEFINE Knows(r) ==
      /\ pc[r] = "idle" => ask[r] = Nothing
      /\ pc[r] = "commit" => key[r] = ask[r].name
      /\ pc[r] \in {"key", "commit"} /\ ask[r].kind = "create" => row[r] \notin Rows(name)
      /\ result[r] = "created" => ask[r].kind = "create"
      /\ result[r] = "updated" => ask[r].kind = "patch"
<1>0. /\ pc \in [Requests -> {"idle", "body", "lookup", "row", "key", "commit",
                             "event", "over"}]
      /\ row \in [Requests -> Ids \cup {0}] /\ key \in [Requests -> Names \cup {NoName}]
      /\ ask \in [Requests -> Asks \cup {Nothing}]
      /\ result \in [Requests -> Outcomes \cup {"none"}]
      /\ name \in [Ids -> Names \cup {NoName}] /\ nextId \in Nat
  BY DEF CatalogueInv, TypeOK
<1>1. /\ \A r \in Requests : Knows(r)
      /\ \A r \in Requests : pc[r] # "over" => result[r] = "none"
      /\ \A r \in Requests : pc[r] # "idle" => ask[r] \in Asks
  BY DEF KnownInv, CatalogueInv, AnswerInv, HeldInv
<1>2. ASSUME NEW r \in Requests, name' = name, Knows(r)',
             \A q \in Requests \ {r} :
               /\ pc'[q] = pc[q] /\ row'[q] = row[q] /\ key'[q] = key[q]
               /\ ask'[q] = ask[q] /\ result'[q] = result[q]
      PROVE  KnownInv'
  BY <1>1, <1>2 DEF KnownInv, Rows
<1>3. ASSUME UNCHANGED <<name, row, key, ask, pc, result>> PROVE KnownInv'
  BY <1>1, <1>3 DEF KnownInv, Rows
<1>4. CASE UNCHANGED vars \/ FetchPage \/ CountRows
  BY <1>3, <1>4 DEF vars, FetchPage, ReadPage, CountRows
<1>5. ASSUME NEW r \in Requests, Respond(r) \/ Complete(r) \/ TimeOut(r) PROVE KnownInv'
  BY <1>3, <1>5 DEF Respond, Complete, TimeOut
<1>6. ASSUME NEW r \in Requests, Arrive(r) \/ Refuse(r) \/ Dispatch(r) PROVE KnownInv'
  BY <1>0, <1>1, <1>2, <1>6 DEF Arrive, Refuse, Dispatch
<1>7. ASSUME NEW r \in Requests, Lookup(r) \/ DatabaseFails(r) \/ EventFails(r)
      PROVE  KnownInv'
  BY <1>0, <1>1, <1>2, <1>7 DEF Lookup, DatabaseFails, EventFails
<1>8. ASSUME NEW r \in Requests, RecordEvent(r) PROVE KnownInv'
  <2>1. ask[r].kind \in {"create", "patch"}
    BY <1>1, <1>8, AskFacts DEF RecordEvent
  <2> QED BY <1>0, <1>1, <1>2, <1>8, <2>1 DEF RecordEvent
<1>9. ASSUME NEW r \in Requests, Allocate(r) PROVE KnownInv'
  <2>1. nextId \notin Rows(name)
    BY <1>0 DEF CatalogueInv, IdsInv
  <2>2. Knows(r)'
    BY <1>0, <1>1, <1>9, <2>1 DEF Allocate, Rows
  <2> QED BY <1>0, <1>2, <1>9, <2>2 DEF Allocate
<1>10. ASSUME NEW r \in Requests, LockRow(r) PROVE KnownInv'
  <2>1. Knows(r)'
    BY <1>0, <1>1, <1>10 DEF LockRow, Rows
  <2> QED BY <1>0, <1>2, <1>10, <2>1 DEF LockRow
<1>11. ASSUME NEW r \in Requests, WriteKey(r) PROVE KnownInv'
  <2>1. key[r] = NoName
    BY <1>11 DEF WriteKey, CatalogueInv, KeyInv
  <2>2. Knows(r)'
    BY <1>0, <1>1, <1>11, <2>1 DEF WriteKey, Rows
  <2> QED BY <1>0, <1>2, <1>11, <2>2 DEF WriteKey
<1>12. ASSUME NEW r \in Requests, Commit(r) PROVE KnownInv'
  <2>1. row[r] # 0 /\ \A q \in Requests \ {r} : row[q] # row[r]
    BY <1>12 DEF Commit, CatalogueInv, KeyInv
  <2>2. \A q \in Requests \ {r} : row[q] \notin Rows(name) => row[q] \notin Rows(name)'
    BY <1>0, <1>12, <2>1 DEF Commit, Rows
  <2>3. /\ pc'[r] \notin {"idle", "key", "commit"} /\ ask' = ask
        /\ result'[r] \notin {"created", "updated"}
    BY <1>0, <1>1, <1>12 DEF Commit
  <2>4. \A q \in Requests \ {r} :
          /\ pc'[q] = pc[q] /\ row'[q] = row[q] /\ key'[q] = key[q] /\ result'[q] = result[q]
    BY <1>0, <1>12 DEF Commit
  <2>5. ASSUME NEW q \in Requests PROVE Knows(q)'
    BY <1>1, <2>2, <2>3, <2>4
  <2> QED BY <2>5 DEF KnownInv
<1> QED
  BY <1>4, <1>5, <1>6, <1>7, <1>8, <1>9, <1>10, <1>11, <1>12 DEF Next, Loop, Thread

(* The fate of one request at a time. *)
Aside(r) == \A q \in Requests \ {r} :
              /\ q \in changed' <=> q \in changed
              /\ pc'[q] = pc[q] /\ result'[q] = result[q]

LEMMA FateOf ==
  ASSUME CatalogueInv, NEW r \in Requests
  PROVE  /\ pc[r] \in {"idle", "body"} => fate[r] = "new"
         /\ pc[r] \in {"lookup", "row", "key", "commit"} => fate[r] = "open"
         /\ pc[r] = "event" => fate[r] = "changed"
         /\ pc[r] \notin {"idle", "body"} => fate[r] # "new"
BY DEF CatalogueInv, AnswerInv, fate

LEMMA FateKept ==
  ASSUME NEW r \in Requests, Aside(r), fate'[r] = fate[r]
  PROVE  fate' = fate
BY DEF Aside, fate

LEMMA FateMoves ==
  ASSUME NEW r \in Requests, Aside(r)
  PROVE  fate' = [fate EXCEPT ![r] = fate'[r]]
BY DEF Aside, fate

(* The answer of a handler that is over may be given. *)
LEMMA AnswerMay ==
  ASSUME CatalogueInv, KnownInv, NEW r \in Requests, pc[r] = "over", result[r] # "none"
  PROVE  Register!May(r, result[r])
<1>1. Left(r) /\ (r \in logged => r \in changed)
  BY DEF CatalogueInv, AnswerInv
<1>2. result[r] \in Outcomes
  BY DEF CatalogueInv, TypeOK
<1>3. CASE result[r] \in {"created", "updated", "unconfirmed"}
  <2>1. fate[r] = "changed"
    BY <1>1, <1>3 DEF Left, fate
  <2> QED BY <1>3, <2>1 DEF KnownInv, Register!May
<1>4. CASE result[r] \in Refusals
  <2>1. r \notin changed
    BY <1>1, <1>4 DEF Left
  <2> QED BY <1>4, <2>1 DEF Refusals, Register!May, fate
<1>5. CASE result[r] = "failed"
  <2>1. fate[r] \in {"changed", "dropped"}
    BY <1>5 DEF fate
  <2> QED BY <1>5, <2>1 DEF Register!May
<1> QED BY <1>2, <1>3, <1>4, <1>5 DEF Outcomes

LEMMA OneAnswer ==
  ASSUME CatalogueInv, NEW r \in Requests, NEW answer, Register!May(r, answer),
         sent[r] = <<>>, sent' = [sent EXCEPT ![r] = <<answer>>],
         UNCHANGED <<name, ask, fate>>
  PROVE  Register!Next
<1>1. sent'[r] = <<answer>>
  BY DEF CatalogueInv, TypeOK
<1>2. sent'[r] # <<>> /\ sent'[r][1] = answer
  BY <1>1
<1>3. Register!Tell(r)
  BY <1>2 DEF Register!Tell
<1> QED BY <1>3 DEF Register!Next

(* The event loop. *)
LEMMA LoopMaps ==
  ASSUME CatalogueInv, KnownInv, NEW r \in Requests, Loop(r)
  PROVE  [Register!Next]_(Register!vars)
<1> USE DEF database, thread, loop, listing, Return
<1>0. /\ pc \in [Requests -> {"idle", "body", "lookup", "row", "key", "commit",
                             "event", "over"}]
      /\ result \in [Requests -> Outcomes \cup {"none"}]
      /\ ask \in [Requests -> Asks \cup {Nothing}]
      /\ sent \in [Requests -> Seq(Outcomes \cup {"timeout", "too_large", "bad_length"})]
  BY DEF CatalogueInv, TypeOK
<1>1. CASE Arrive(r)
  <2>1. Aside(r) /\ fate[r] = "new" /\ fate'[r] = "new"
    BY <1>0, <1>1, FateOf DEF Arrive, Aside, CatalogueInv, AnswerInv, fate
  <2>2. fate' = fate /\ ask[r] = Nothing
    BY <1>1, <2>1, FateKept DEF Arrive, KnownInv
  <2> QED BY <1>1, <2>1, <2>2 DEF Arrive, Register!Ask, Register!Next
<1>2. CASE Refuse(r)
  <2>1. Aside(r) /\ fate[r] = "new" /\ fate'[r] = "dropped"
    BY <1>0, <1>2, FateOf DEF Refuse, Aside, CatalogueInv, AnswerInv, fate
  <2>2. fate' = [fate EXCEPT ![r] = "dropped"]
    BY <2>1, FateMoves
  <2>3. sent[r] = <<>>
    BY <1>2 DEF Refuse, CatalogueInv, AnswerInv
  <2>4. PICK why \in {"too_large", "bad_length"} :
          sent' = [sent EXCEPT ![r] = Append(sent[r], why)]
    BY <1>2 DEF Refuse
  <2>5. Append(sent[r], why) = <<why>>
    BY <2>3
  <2> QED
    BY <1>2, <2>1, <2>2, <2>3, <2>4, <2>5
       DEF Refuse, Register!TurnAway, Register!Decide, Register!Next
<1>3. CASE Dispatch(r)
  <2>1. Aside(r) /\ fate[r] = "new" /\ fate'[r] \in {"open", "dropped"}
    BY <1>0, <1>3, FateOf DEF Dispatch, Aside, CatalogueInv, AnswerInv, fate
  <2>2. fate' = [fate EXCEPT ![r] = fate'[r]]
    BY <2>1, FateMoves
  <2>3. ask[r] # Nothing
    <3>1. ask[r] \in Asks
      BY <1>3 DEF Dispatch, CatalogueInv, HeldInv
    <3> QED BY <3>1, AskFacts DEF Nothing
  <2> QED
    BY <1>3, <2>1, <2>2, <2>3
       DEF Dispatch, Register!Begin, Register!Drop, Register!Decide, Register!Next
<1>4. CASE Respond(r)
  <2>1. pc[r] = "over" /\ result[r] # "none" /\ sent[r] = <<>>
    BY <1>4 DEF Respond, CatalogueInv, AnswerInv
  <2>2. sent' = [sent EXCEPT ![r] = <<result[r]>>]
    BY <1>4 DEF Respond
  <2>3. UNCHANGED <<name, ask, fate>>
    BY <1>4 DEF Respond, fate
  <2>4. Register!May(r, result[r])
    BY <2>1, AnswerMay
  <2> QED BY <2>1, <2>2, <2>3, <2>4, OneAnswer
<1>5. CASE Complete(r)
  BY <1>5 DEF Complete, Register!vars, fate
<1>6. CASE TimeOut(r)
  <2>1. UNCHANGED <<name, ask, fate>>
    BY <1>6 DEF TimeOut, fate
  <2>2. CASE sent[r] # <<>>
    BY <1>0, <1>6, <2>1, <2>2 DEF TimeOut, Register!vars
  <2>3. CASE sent[r] = <<>>
    <3>1. sent' = [sent EXCEPT ![r] = <<"timeout">>]
      BY <1>0, <1>6, <2>3 DEF TimeOut
    <3>2. Register!May(r, "timeout")
      BY <1>6, FateOf DEF TimeOut, CatalogueInv, AnswerInv, Register!May
    <3> QED
      BY <2>1, <2>3, <3>1, <3>2, OneAnswer
  <2> QED BY <2>2, <2>3
<1> QED BY <1>1, <1>2, <1>3, <1>4, <1>5, <1>6 DEF Loop

(* The commit is the moment of a change: the row is still there, or still free,
   and nobody else has the name. *)
LEMMA CommitMaps ==
  ASSUME CatalogueInv, KnownInv, NEW r \in Requests, Commit(r)
  PROVE  Register!Change(r)
<1> USE Constants DEF database, thread, loop, listing, Return
<1>1. pc[r] = "commit" /\ changed' = changed \cup {r} /\ UNCHANGED <<ask, sent>>
  BY DEF Commit
<1>2. fate[r] = "open" /\ fate' = [fate EXCEPT ![r] = "changed"]
  <2>1. Aside(r)
    BY DEF Commit, Aside, CatalogueInv, TypeOK
  <2>2. fate'[r] = "changed"
    BY <1>1 DEF fate
  <2> QED BY <1>1, <2>1, <2>2, FateOf, FateMoves
<1>3. row[r] \in Ids /\ key[r] = ask[r].name
  BY <1>1 DEF CatalogueInv, KeyInv, TypeOK, KnownInv
<1>4. ask[r].kind \in {"create", "patch"}
  BY <1>1, AskFacts DEF CatalogueInv, HeldInv
<1>5. ask[r].kind = "create" => name[row[r]] = NoName
  BY <1>1, <1>3 DEF KnownInv, Rows
<1>6. ask[r].kind = "patch" => row[r] = ask[r].id /\ name[row[r]] # NoName
  BY <1>1, <1>3 DEF CatalogueInv, KeyInv, Rows
<1>7. Register!Free(ask[r].name, row[r])
  BY <1>3 DEF Register!Free, CatalogueInv, KeyInv, Rows
<1>8. name' = IF ask[r].name = NoName THEN name
              ELSE [name EXCEPT ![row[r]] = ask[r].name]
  BY <1>3 DEF Commit
<1> QED
  BY <1>1, <1>2, <1>3, <1>4, <1>5, <1>6, <1>7, <1>8
     DEF Register!Change, Register!Decide

(* The other steps of the thread: a refusal is decided when it is true. *)
LEMMA ThreadMaps ==
  ASSUME CatalogueInv, KnownInv, NEW r \in Requests, Thread(r)
  PROVE  [Register!Next]_(Register!vars)
<1> USE Constants DEF database, thread, loop, listing, Return
<1>0. /\ pc \in [Requests -> {"idle", "body", "lookup", "row", "key", "commit",
                             "event", "over"}]
      /\ result \in [Requests -> Outcomes \cup {"none"}]
      /\ name \in [Ids -> Names \cup {NoName}]
  BY DEF CatalogueInv, TypeOK
<1>1. CASE Commit(r)
  BY <1>1, CommitMaps DEF Register!Next
<1>2. ASSUME UNCHANGED <<name, ask, sent>>, Aside(r), fate'[r] = fate[r]
      PROVE  UNCHANGED Register!vars
  BY <1>2, FateKept DEF Register!vars
<1>3. ASSUME UNCHANGED <<name, ask, sent>>, Aside(r), fate[r] = "open", fate'[r] = "taken",
             NEW i \in Rows(name), i # ask[r].id, name[i] = ask[r].name
      PROVE  Register!Next
  <2>1. ~Register!Free(ask[r].name, ask[r].id)
    BY <1>3 DEF Register!Free, Rows
  <2> QED BY <1>3, <2>1, FateMoves DEF Register!Taken, Register!Decide, Register!Next
<1>4. CASE Lookup(r)
  <2>1. /\ UNCHANGED <<name, ask, sent, changed>> /\ Aside(r) /\ fate[r] = "open"
        /\ r \notin changed
    BY <1>0, <1>4, FateOf DEF Lookup, Aside, CatalogueInv, AnswerInv
  <2>2. CASE \E i \in Rows(name) \ {ask[r].id} : name[i] = ask[r].name
    <3>1. fate'[r] = "taken"
      BY <1>0, <1>4, <2>1, <2>2 DEF Lookup, fate
    <3> QED BY <1>3, <2>1, <2>2, <3>1
  <2>3. CASE ~\E i \in Rows(name) \ {ask[r].id} : name[i] = ask[r].name
    <3>1. fate'[r] = "open"
      BY <1>0, <1>4, <2>1, <2>3 DEF Lookup, fate
    <3> QED BY <1>2, <2>1, <3>1
  <2> QED BY <2>2, <2>3
<1>5. CASE Allocate(r)
  <2>1. /\ UNCHANGED <<name, ask, sent>> /\ Aside(r)
        /\ fate[r] = "open" /\ fate'[r] = "open"
    BY <1>0, <1>5, FateOf DEF Allocate, Aside, fate
  <2> QED BY <1>2, <2>1
<1>6. CASE LockRow(r)
  <2>1. /\ UNCHANGED <<name, ask, sent, changed>> /\ Aside(r) /\ fate[r] = "open"
        /\ r \notin changed
    BY <1>0, <1>6, FateOf DEF LockRow, Aside, CatalogueInv, AnswerInv
  <2>2. CASE ask[r].id \in Rows(name)
    <3>1. fate'[r] = "open"
      BY <1>0, <1>6, <2>1, <2>2 DEF LockRow, fate
    <3> QED BY <1>2, <2>1, <3>1
  <2>3. CASE ask[r].id \notin Rows(name)
    <3>1. fate'[r] = "missing"
      BY <1>0, <1>6, <2>1, <2>3 DEF LockRow, fate
    <3>2. ask[r].kind = "patch" /\ ask[r].id \in Ids
      BY <1>6, AskFacts DEF LockRow, CatalogueInv, HeldInv
    <3>3. name[ask[r].id] = NoName
      BY <2>3, <3>2 DEF Rows
    <3> QED
      BY <2>1, <3>1, <3>2, <3>3, FateMoves
         DEF Register!Missing, Register!Decide, Register!Next
  <2> QED BY <2>2, <2>3
<1>7. CASE WriteKey(r)
  <2>1. /\ UNCHANGED <<name, ask, sent, changed>> /\ Aside(r) /\ fate[r] = "open"
        /\ r \notin changed /\ pc[r] = "key"
    BY <1>0, <1>7, FateOf DEF WriteKey, Aside, CatalogueInv, AnswerInv
  <2>2. CASE /\ ask[r].name # NoName
             /\ \E i \in Rows(name) \ {row[r]} : name[i] = ask[r].name
    <3>1. PICK i \in Rows(name) \ {row[r]} : name[i] = ask[r].name
      BY <2>2
    <3>2. fate'[r] = "taken"
      BY <1>0, <1>7, <2>1, <2>2 DEF WriteKey, fate
    <3>3. i # ask[r].id
      <4>1. ask[r] \in Asks
        BY <2>1 DEF CatalogueInv, HeldInv
      <4>2. ask[r].kind = "patch" => row[r] = ask[r].id
        BY <2>1 DEF CatalogueInv, KeyInv
      <4> QED BY <3>1, <4>1, <4>2, AskFacts DEF Rows
    <3> QED BY <1>3, <2>1, <3>1, <3>2, <3>3
  <2>3. CASE \/ ask[r].name = NoName
             \/ ~\E i \in Rows(name) \ {row[r]} : name[i] = ask[r].name
    <3>1. fate'[r] = "open"
      BY <1>0, <1>7, <2>1, <2>3 DEF WriteKey, fate
    <3> QED BY <1>2, <2>1, <3>1
  <2> QED BY <2>2, <2>3
<1>8. CASE DatabaseFails(r)
  <2>1. /\ UNCHANGED <<name, ask, sent, changed>> /\ Aside(r) /\ fate[r] = "open"
        /\ r \notin changed
    BY <1>0, <1>8, FateOf DEF DatabaseFails, Aside, CatalogueInv, AnswerInv
  <2>2. fate'[r] = "dropped"
    BY <1>0, <1>8, <2>1 DEF DatabaseFails, fate
  <2> QED
    BY <2>1, <2>2, FateMoves DEF Register!Drop, Register!Decide, Register!Next
<1>9. CASE RecordEvent(r) \/ EventFails(r)
  <2>1. /\ UNCHANGED <<name, ask, sent, changed>> /\ Aside(r) /\ r \in changed
    BY <1>0, <1>9 DEF RecordEvent, EventFails, Aside, CatalogueInv, AnswerInv
  <2> QED BY <1>2, <2>1 DEF fate
<1> QED
  BY <1>1, <1>4, <1>5, <1>6, <1>7, <1>8, <1>9 DEF Thread

LEMMA RegisterInit == Init => Register!Init
<1> SUFFICES ASSUME Init PROVE Register!Init
  OBVIOUS
<1>1. CatalogueInv
  BY CatalogueInit
<1>2. fate = [r \in Requests |-> "new"]
  BY DEF Init, fate
<1> QED
  BY <1>1, <1>2 DEF Init, Register!Init, CatalogueInv, TypeOK, KeyInv, Rows

LEMMA RegisterStep ==
  ASSUME CatalogueInv, KnownInv, [Next]_vars
  PROVE  [Register!Next]_(Register!vars)
<1>1. CASE UNCHANGED vars \/ FetchPage \/ CountRows
  BY <1>1 DEF vars, FetchPage, ReadPage, CountRows, database, thread, loop,
     Register!vars, fate
<1> QED BY <1>1, LoopMaps, ThreadMaps DEF Next

(* Handlers that overlap, wait for each other in the database, fail or go on after
   their client was given up are together a register that each changes in one step,
   or not at all, and of which each is told what it did. *)
THEOREM CatalogueImplementsRegister == Spec => RegisterSpec
<1>1. CatalogueInv /\ KnownInv /\ [Next]_vars => KnownInv'
  BY KnownStep
<1>2. CatalogueInv /\ KnownInv /\ [Next]_vars => [Register!Next]_(Register!vars)
  BY RegisterStep
<1> QED
  BY <1>1, <1>2, KnownInit, RegisterInit, Invariance, PTL
     DEF Spec, RegisterSpec, Register!Spec
=============================================================================
