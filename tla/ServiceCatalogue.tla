------------------------- MODULE ServiceCatalogue -------------------------
(***************************************************************************)
(* The catalogue of services behind the HTTP interface: requests that      *)
(* create a service or change one, and a client that lists them page by    *)
(* page.                                                                   *)
(*                                                                         *)
(* A request passes the two middlewares on the event loop: the outer one   *)
(* reads the whole body, the inner one waits for the handler, at most for  *)
(* a time. The handler runs on a thread, which nothing stops when the      *)
(* waiting ends: its transactions go on and commit. A transaction is       *)
(* invisible to the others until it commits; a key or a row that another   *)
(* one has not yet committed makes it wait, for lock_timeout at most.      *)
(*                                                                         *)
(* Only the name of a service matters here: another column neither         *)
(* conflicts nor orders. The status is JobQueue's subject.                 *)
(***************************************************************************)
EXTENDS Naturals, Sequences, FiniteSets, SequencesExt

CONSTANTS
  Requests,    \* HTTP requests that write
  Names,
  NoName,      \* no name: no row, or a PATCH of other columns
  First,       \* the names of the services at the beginning, by id
  Limit        \* services per page

ASSUME CatalogueAssumption ==
  /\ IsFiniteSet(Requests)
  /\ NoName \notin Names
  /\ IsInjective(First) /\ First \in Seq(Names)
  /\ Limit \in Nat \ {0}

Ids == 1 .. Len(First) + Cardinality(Requests)

Asks == [kind : {"create"}, id : {0}, name : Names]
        \cup [kind : {"patch"}, id : Ids, name : Names \cup {NoName}]
Nothing == [kind |-> "none", id |-> 0, name |-> NoName]

VARIABLES
  name,      \* services.name of the committed rows
  nextId,    \* the sequence services_id_seq
  changed,   \* requests whose change is committed
  logged,    \* requests whose event is committed
  ask,       \* what a request asks for
  pc,        \* where its thread stands
  row,       \* the row its transaction has locked or is inserting, or 0
  key,       \* the name its transaction has written and not committed
  awaited,   \* the inner middleware waits for the handler
  result,    \* what the handler returned or raised
  sent,      \* the beginnings of responses that the client has been sent
  held,      \* names that were never free since the handler began
  walk,      \* "page", "count" or "done"
  shown,     \* the ids the pages have shown, in order
  offset,
  before     \* the ids there were when the listing began

database == <<name, nextId, changed, logged, held>>
thread == <<pc, row, key, result>>
loop == <<ask, awaited, sent>>
listing == <<walk, shown, offset, before>>
vars == <<database, thread, loop, listing>>

Rows(n) == {i \in Ids : n[i] # NoName}
Taken(n) == {n[i] : i \in Rows(n)}

Init ==
  /\ name = [i \in Ids |-> IF i <= Len(First) THEN First[i] ELSE NoName]
  /\ nextId = Len(First) + 1
  /\ changed = {} /\ logged = {}
  /\ held = [r \in Requests |-> {}]
  /\ ask = [r \in Requests |-> Nothing]
  /\ pc = [r \in Requests |-> "idle"]
  /\ row = [r \in Requests |-> 0]
  /\ key = [r \in Requests |-> NoName]
  /\ awaited = [r \in Requests |-> FALSE]
  /\ result = [r \in Requests |-> "none"]
  /\ sent = [r \in Requests |-> <<>>]
  /\ walk = "page" /\ shown = <<>> /\ offset = 0
  /\ before = 1 .. Len(First)

-----------------------------------------------------------------------------
(* The event loop: RequestBodyLimitMiddleware, RequestTimeoutMiddleware *)

Arrive(r) ==
  /\ pc[r] = "idle"
  /\ pc' = [pc EXCEPT ![r] = "body"]
  /\ \E a \in Asks : ask' = [ask EXCEPT ![r] = a]
  /\ UNCHANGED <<database, row, key, result, awaited, sent, listing>>

(* More than api_max_request_body_bytes have come, or the header that tells is
   no number: nothing is called. *)
Refuse(r) ==
  /\ pc[r] = "body"
  /\ pc' = [pc EXCEPT ![r] = "over"]
  /\ \E why \in {"too_large", "bad_length"} :
       sent' = [sent EXCEPT ![r] = Append(@, why)]
  /\ UNCHANGED <<database, row, key, result, ask, awaited, listing>>

(* The transaction ends, if there is one, with what the handler makes of it. *)
Return(r, what) ==
  /\ pc' = [pc EXCEPT ![r] = "over"]
  /\ result' = [result EXCEPT ![r] = what]
  /\ row' = [row EXCEPT ![r] = 0]
  /\ key' = [key EXCEPT ![r] = NoName]

(* The body is complete, a thread takes the handler. One whose fields are missing
   or null, where they may not be, is refused before it asks the database. *)
Dispatch(r) ==
  /\ pc[r] = "body"
  /\ awaited' = [awaited EXCEPT ![r] = TRUE]
  /\ \/ Return(r, "invalid")
     \/ /\ pc' = [pc EXCEPT ![r] = IF ask[r].name = NoName THEN "row" ELSE "lookup"]
        /\ UNCHANGED <<row, key, result>>
  /\ held' = [held EXCEPT ![r] = Taken(name)]
  /\ UNCHANGED <<name, nextId, changed, logged, ask, sent, listing>>

(* The handler is over and still awaited: its response begins, *)
Respond(r) ==
  /\ pc[r] = "over" /\ awaited[r] /\ sent[r] = <<>>
  /\ sent' = [sent EXCEPT ![r] = <<result[r]>>]
  /\ UNCHANGED <<database, thread, ask, awaited, listing>>

(* ... and ends. *)
Complete(r) ==
  /\ awaited[r] /\ sent[r] # <<>>
  /\ awaited' = [awaited EXCEPT ![r] = FALSE]
  /\ UNCHANGED <<database, thread, ask, sent, listing>>

(* A waiting that goes on until the thread has ended. *)
TimeOut_WhenOver(r) ==
  /\ awaited[r] /\ pc[r] = "over"
  /\ awaited' = [awaited EXCEPT ![r] = FALSE]
  /\ sent' = [sent EXCEPT ![r] = IF @ = <<>> THEN <<"timeout">> ELSE @]
  /\ UNCHANGED <<database, thread, ask, listing>>

(* api_request_timeout_seconds: the waiting is cancelled, the thread is not. *)
TimeOut(r) ==
  /\ awaited[r]
  /\ awaited' = [awaited EXCEPT ![r] = FALSE]
  /\ sent' = [sent EXCEPT ![r] = IF @ = <<>> THEN <<"timeout">> ELSE @]
  /\ UNCHANGED <<database, thread, ask, listing>>

-----------------------------------------------------------------------------
(* The thread: create_service, update_service *)

Lookup_Skipped(r) ==
  /\ pc[r] = "lookup"
  /\ pc' = [pc EXCEPT ![r] = "row"]
  /\ UNCHANGED <<database, row, key, result, loop, listing>>

(* fetch_row_by_name, a transaction of its own. *)
Lookup(r) ==
  /\ pc[r] = "lookup"
  /\ IF \E i \in Rows(name) \ {ask[r].id} : name[i] = ask[r].name
     THEN Return(r, "conflict")
     ELSE /\ pc' = [pc EXCEPT ![r] = "row"]
          /\ UNCHANGED <<row, key, result>>
  /\ UNCHANGED <<database, loop, listing>>

(* INSERT: the sequence gives the id, to this transaction for ever. *)
Allocate(r) ==
  /\ pc[r] = "row" /\ ask[r].kind = "create"
  /\ row' = [row EXCEPT ![r] = nextId]
  /\ nextId' = nextId + 1
  /\ pc' = [pc EXCEPT ![r] = "key"]
  /\ UNCHANGED <<name, changed, logged, held, key, result, loop, listing>>

(* UPDATE: the row is locked, once nobody else has it, or there is none; one that
   another request is inserting is not seen. *)
LockRow(r) ==
  /\ pc[r] = "row" /\ ask[r].kind = "patch"
  /\ \/ /\ ask[r].id \in Rows(name)
        /\ \A q \in Requests : row[q] # ask[r].id
        /\ row' = [row EXCEPT ![r] = ask[r].id]
        /\ pc' = [pc EXCEPT ![r] = "key"]
        /\ UNCHANGED <<key, result>>
     \/ ask[r].id \notin Rows(name) /\ Return(r, "missing")
  /\ UNCHANGED <<database, loop, listing>>

(* Others that have written the name, or written over it, and not committed. *)
Undecided(r) ==
  {q \in Requests \ {r} : \/ key[q] = ask[r].name
                          \/ key[q] # NoName /\ name[row[q]] = ask[r].name}

WriteKey_NoIndex(r) ==
  /\ pc[r] = "key"
  /\ key' = [key EXCEPT ![r] = ask[r].name]
  /\ pc' = [pc EXCEPT ![r] = "commit"]
  /\ UNCHANGED <<row, result, database, loop, listing>>

(* The unique index on the name. *)
WriteKey(r) ==
  /\ pc[r] = "key"
  /\ IF ask[r].name = NoName
     THEN /\ pc' = [pc EXCEPT ![r] = "commit"]
          /\ UNCHANGED <<row, key, result>>
     ELSE /\ Undecided(r) = {}
          /\ IF \E i \in Rows(name) \ {row[r]} : name[i] = ask[r].name
             THEN Return(r, "duplicate")
             ELSE /\ key' = [key EXCEPT ![r] = ask[r].name]
                  /\ pc' = [pc EXCEPT ![r] = "commit"]
                  /\ UNCHANGED <<row, result>>
  /\ UNCHANGED <<database, loop, listing>>

(* lock_timeout, or a connection that is lost or refused. *)
DatabaseFails(r) ==
  /\ pc[r] \in {"lookup", "row", "key", "commit"}
  /\ Return(r, "failed")
  /\ UNCHANGED <<database, loop, listing>>

(* The database commits; the connection may be lost before it says so. *)
Commit(r) ==
  /\ pc[r] = "commit"
  /\ name' = IF key[r] = NoName THEN name ELSE [name EXCEPT ![row[r]] = key[r]]
  /\ changed' = changed \cup {r}
  /\ held' = [q \in Requests |-> held[q] \cap Taken(name')]
  /\ \/ Return(r, "failed")
     \/ /\ pc' = [pc EXCEPT ![r] = "event"]
        /\ row' = [row EXCEPT ![r] = 0]
        /\ key' = [key EXCEPT ![r] = NoName]
        /\ result' = result
  /\ UNCHANGED <<nextId, logged, loop, listing>>

(* An event that is only an attempt. *)
RecordEvent_Lost(r) ==
  /\ pc[r] = "event"
  /\ Return(r, IF ask[r].kind = "create" THEN "created" ELSE "updated")
  /\ \/ logged' = logged
     \/ logged' = logged \cup {r}
  /\ UNCHANGED <<name, nextId, changed, held, loop, listing>>

(* record_event: service.created, service.updated. The database commits; the
   connection may be lost before it says so, and what it returned may not be a
   valid Event or Service. *)
RecordEvent(r) ==
  /\ pc[r] = "event"
  /\ logged' = logged \cup {r}
  /\ \/ Return(r, IF ask[r].kind = "create" THEN "created" ELSE "updated")
     \/ Return(r, "unconfirmed")
  /\ UNCHANGED <<name, nextId, changed, held, loop, listing>>

(* The event's transaction does not commit: the service stays as it is. *)
EventFails(r) ==
  /\ pc[r] = "event"
  /\ Return(r, "unconfirmed")
  /\ UNCHANGED <<database, loop, listing>>

-----------------------------------------------------------------------------
(* list_all_services_tolerant, for a client that reads on until total. *)

(* fetch_rows_page *)
ReadPage(order) ==
  /\ walk = "page"
  /\ shown' = shown \o SubSeq(order, offset + 1, Min({offset + Limit, Len(order)}))
  /\ walk' = "count"
  /\ UNCHANGED <<database, thread, loop, offset, before>>

(* ORDER BY id: as many services as its place are up to the one at that place. *)
UpTo(i) == {j \in Rows(name) : j <= i}

ById ==
  [k \in 1 .. Cardinality(Rows(name)) |->
    CHOOSE i \in Rows(name) : Cardinality(UpTo(i)) = k]

FetchPage_ByName ==
  ReadPage(SetToSortSeq(Rows(name), LAMBDA i, j : name[i] < name[j]))

FetchPage == ReadPage(ById)

(* count_rows *)
CountRows ==
  /\ walk = "count"
  /\ offset' = offset + Limit
  /\ walk' = IF offset + Limit < Cardinality(Rows(name)) THEN "page" ELSE "done"
  /\ UNCHANGED <<database, thread, loop, shown, before>>

-----------------------------------------------------------------------------
Loop(r) == Arrive(r) \/ Refuse(r) \/ Dispatch(r) \/ Respond(r) \/ Complete(r) \/ TimeOut(r)

Thread(r) ==
  \/ Lookup(r) \/ Allocate(r) \/ LockRow(r) \/ WriteKey(r)
  \/ DatabaseFails(r) \/ Commit(r) \/ RecordEvent(r) \/ EventFails(r)

Next ==
  \/ \E r \in Requests : Loop(r) \/ Thread(r)
  \/ FetchPage
  \/ CountRows

Spec == Init /\ [][Next]_vars

(* The event loop is fair; a thread may hang for ever in the database. *)
FairSpec ==
  Spec /\ \A r \in Requests : WF_vars(Respond(r)) /\ WF_vars(TimeOut(r))

-----------------------------------------------------------------------------
(* Types; shown grows by pieces of ById. *)
Refusals == {"invalid", "conflict", "missing", "duplicate"}
Outcomes == Refusals \cup {"created", "updated", "failed", "unconfirmed"}

TypeOK ==
  /\ name \in [Ids -> Names \cup {NoName}] /\ nextId \in Nat
  /\ changed \subseteq Requests /\ logged \subseteq Requests
  /\ held \in [Requests -> SUBSET Names]
  /\ ask \in [Requests -> Asks \cup {Nothing}]
  /\ pc \in [Requests -> {"idle", "body", "lookup", "row", "key", "commit",
                          "event", "over"}]
  /\ row \in [Requests -> Ids \cup {0}] /\ key \in [Requests -> Names \cup {NoName}]
  /\ awaited \in [Requests -> BOOLEAN]
  /\ result \in [Requests -> Outcomes \cup {"none"}]
  /\ sent \in [Requests -> Seq(Outcomes \cup {"timeout", "too_large", "bad_length"})]
  /\ walk \in {"page", "count", "done"} /\ offset \in Nat

(* An answer is given once, and it is kept: what is said to be created or
   changed is committed with its event, and a request that is refused has
   changed nothing and never will. A failure after the service's transaction is
   known to have committed leaves the change, with its event or without. Only a
   timeout and a failure before that say nothing of the change; and that failure
   is never followed by an event. *)
AnswersAreKept ==
  \A r \in Requests :
    /\ Len(sent[r]) <= 1
    /\ \A i \in DOMAIN sent[r] :
         /\ sent[r][i] \in {"created", "updated"} => r \in logged
         /\ sent[r][i] = "unconfirmed" => r \in changed
         /\ sent[r][i] = "failed" => pc[r] = "over" /\ r \notin logged
         /\ sent[r][i] \in Refusals \cup {"too_large", "bad_length"} =>
              pc[r] = "over" /\ r \notin changed
    /\ r \in logged => r \in changed

(* The index of the database answers 500 where the lookup promises 409, but only
   for a name that was free at some time since the handler began: a name that
   was always taken is a conflict for everyone. *)
LateNamesOnly ==
  \A r \in Requests : result[r] = "duplicate" => ask[r].name \notin held[r]

(* Docs/API-v1.md:161 "- **409 (Conflict)** si le nom existe deja :" and :228 "- **409
   (Conflict)** si le nouveau nom existe deja :": a name that exists is answered
   as a conflict, never as the error of the index, which is a 500. *)
ExistingNameIsConflict ==
  \A r \in Requests : "duplicate" \notin ToSet(sent[r])

(* However many services are created or renamed while a client reads the list
   page by page, it is shown every service there was at the beginning; it sees
   one twice only when a service whose id was given out before is committed
   after, which moves the pages. *)
WalkMissesNothing ==
  /\ walk = "done" => before \subseteq ToSet(shown)
  /\ \A i, j \in DOMAIN shown :
       i < j /\ shown[j] <= shown[i] =>
         \E k \in Rows(name) \ before : k < shown[i]

(* A request whose handler has begun is answered, even when its thread hangs in
   the database for ever. *)
EveryRequestAnswered ==
  \A r \in Requests : pc[r] \notin {"idle", "body"} ~> sent[r] # <<>>

-----------------------------------------------------------------------------
(* Refinement: the threads and their transactions are a register that each
   request changes in one step, its commit. *)

fate == [r \in Requests |->
           IF r \in changed THEN "changed"
           ELSE IF pc[r] \in {"idle", "body"} THEN "new"
           ELSE IF pc[r] # "over" THEN "open"
           ELSE IF result[r] \in {"conflict", "duplicate"} THEN "taken"
           ELSE IF result[r] = "missing" THEN "missing"
           ELSE "dropped"]

Register == INSTANCE NameRegister WITH names <- name, told <- sent

(* Whatever threads overlap, wait for one another, fail or are given up by the
   middleware, each changes the catalogue once, in one step, to a name that no
   other service has then, or is refused because one has; and its client is told
   this, or that it is not known. *)
RegisterSpec == Register!Spec
=============================================================================
