---------------------------- MODULE NameRegister ----------------------------
(***************************************************************************)
(* What the catalogue of services promises its writers: a register of      *)
(* named rows, no name twice, that every request changes at most once and  *)
(* in one step, at a moment between its beginning and its end; and answers *)
(* that tell what happened at that moment. How long a request takes, which *)
(* transactions it is made of and on whom it waits is left open.           *)
(***************************************************************************)
CONSTANTS
  Requests,
  Names, NoName,
  Ids,         \* of the rows
  Asks,        \* [kind, id, name]: a row to create, or a row to rename
  Nothing      \* what a request asks for that has not come

VARIABLES
  names,       \* the name of each row, NoName where there is none
  ask,         \* what a request asks for
  fate,        \* what has become of it
  told         \* the answers its client was given

vars == <<names, ask, fate, told>>

Fates == {"new", "open", "changed", "taken", "missing", "dropped"}

Init ==
  /\ names \in [Ids -> Names \cup {NoName}]
  /\ \A i, j \in Ids : names[i] = names[j] /\ names[i] # NoName => i = j
  /\ ask = [r \in Requests |-> Nothing]
  /\ fate = [r \in Requests |-> "new"]
  /\ told = [r \in Requests |-> <<>>]

Decide(r, f) == fate' = [fate EXCEPT ![r] = f]

Ask(r) ==
  /\ fate[r] = "new" /\ ask[r] = Nothing
  /\ \E a \in Asks : ask' = [ask EXCEPT ![r] = a]
  /\ UNCHANGED <<names, fate, told>>

Begin(r) ==
  /\ fate[r] = "new" /\ ask[r] # Nothing
  /\ Decide(r, "open")
  /\ UNCHANGED <<names, ask, told>>

(* It ends without having seen the register. *)
Drop(r) ==
  /\ fate[r] \in {"new", "open"}
  /\ Decide(r, "dropped")
  /\ UNCHANGED <<names, ask, told>>

(* The name belongs to no other row than i. *)
Free(n, i) == n = NoName \/ \A j \in Ids \ {i} : names[j] # n

(* The one moment at which it changes something. *)
Change(r) ==
  /\ fate[r] = "open"
  /\ Decide(r, "changed")
  /\ \E i \in Ids :
       /\ IF ask[r].kind = "create" THEN names[i] = NoName
                                    ELSE i = ask[r].id /\ names[i] # NoName
       /\ Free(ask[r].name, i)
       /\ names' = IF ask[r].name = NoName THEN names
                   ELSE [names EXCEPT ![i] = ask[r].name]
  /\ UNCHANGED <<ask, told>>

(* ... or at which it cannot. *)
Taken(r) ==
  /\ fate[r] = "open"
  /\ ~Free(ask[r].name, ask[r].id)
  /\ Decide(r, "taken")
  /\ UNCHANGED <<names, ask, told>>

Missing(r) ==
  /\ fate[r] = "open"
  /\ ask[r].kind = "patch" /\ names[ask[r].id] = NoName
  /\ Decide(r, "missing")
  /\ UNCHANGED <<names, ask, told>>

(* What may be said of a request. Only a timeout, or a failure, leaves open
   what has become of it. *)
May(r, answer) ==
  \/ answer = "created" /\ fate[r] = "changed" /\ ask[r].kind = "create"
  \/ answer = "updated" /\ fate[r] = "changed" /\ ask[r].kind = "patch"
  \/ answer = "unconfirmed" /\ fate[r] = "changed"
  \/ answer \in {"conflict", "duplicate"} /\ fate[r] = "taken"
  \/ answer = "missing" /\ fate[r] = "missing"
  \/ answer = "invalid" /\ fate[r] = "dropped"
  \/ answer = "failed" /\ fate[r] \in {"dropped", "changed"}
  \/ answer = "timeout" /\ fate[r] # "new"

Tell(r) ==
  /\ told[r] = <<>>
  /\ told'[r] # <<>> /\ May(r, told'[r][1])
  /\ told' = [told EXCEPT ![r] = <<told'[r][1]>>]
  /\ UNCHANGED <<names, ask, fate>>

TurnAway(r) ==
  /\ fate[r] = "new" /\ told[r] = <<>>
  /\ Decide(r, "dropped")
  /\ told' \in {[told EXCEPT ![r] = <<why>>] : why \in {"too_large", "bad_length"}}
  /\ UNCHANGED <<names, ask>>

Next ==
  \E r \in Requests :
    \/ Ask(r) \/ Begin(r) \/ Drop(r)
    \/ Change(r) \/ Taken(r) \/ Missing(r)
    \/ Tell(r) \/ TurnAway(r)

Spec == Init /\ [][Next]_vars
=============================================================================
