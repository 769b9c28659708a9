--------------------------- MODULE OperationLedger ---------------------------
(***************************************************************************)
(* What the Agent promises about one operation_id, however often and by    *)
(* however many threads it is received, and whatever the Agent survives:   *)
(* one record, at most one command sent to the infrastructure, one verdict *)
(* given once, and nobody answered anything else than that verdict.        *)
(***************************************************************************)
CONSTANTS Ops, Bodies

Unsent  == {"rejected", "busy", "failed_before", "already"}
Settled == {"completed", "failed_after"}
Unknown == {"indeterminate", "recovered"}
Verdicts == Unsent \cup Settled \cup Unknown

VARIABLES
  record,   \* "none", "in_progress" or the verdict
  subject,  \* the request the record is about
  sends,    \* commands sent
  acting,   \* operations whose command may still act
  told      \* the answers clients have received

vars == <<record, subject, sends, acting, told>>

Init ==
  /\ record = [o \in Ops |-> "none"]
  /\ subject \in [Ops -> Bodies]
  /\ sends = [o \in Ops |-> 0]
  /\ acting = {}
  /\ told = [o \in Ops |-> {}]

(* A new operation, admitted or refused at once. *)
Enter(o, b, state) ==
  /\ record[o] = "none"
  /\ state \in {"in_progress", "busy"}
  /\ record' = [record EXCEPT ![o] = state]
  /\ subject' = [subject EXCEPT ![o] = b]
  /\ UNCHANGED <<sends, acting, told>>

Send(o) ==
  /\ record[o] = "in_progress"
  /\ sends[o] = 0
  /\ sends' = [sends EXCEPT ![o] = 1]
  /\ acting' = acting \cup {o}
  /\ UNCHANGED <<record, subject, told>>

Land(o) ==
  /\ o \in acting
  /\ acting' = acting \ {o}
  /\ UNCHANGED <<record, subject, sends, told>>

(* A verdict other than "unknown" says what became of the command. *)
Truthful(o, v) ==
  /\ v \in Unsent => sends[o] = 0
  /\ v \in Settled => sends[o] = 1 /\ o \notin acting

Decide(o, v) ==
  /\ record[o] = "in_progress"
  /\ Truthful(o, v)
  /\ record' = [record EXCEPT ![o] = v]
  /\ UNCHANGED <<subject, sends, acting, told>>

(* A restart decides everything that was open. *)
Recover ==
  /\ record' = [o \in Ops |-> IF record[o] = "in_progress" THEN "recovered"
                                                          ELSE record[o]]
  /\ UNCHANGED <<subject, sends, acting, told>>

Tell(o) ==
  /\ record[o] \in Verdicts
  /\ told' = [told EXCEPT ![o] = @ \cup {<<subject[o], record[o]>>}]
  /\ UNCHANGED <<record, subject, sends, acting>>

Next ==
  \/ \E o \in Ops : \/ \E b \in Bodies, state \in {"in_progress", "busy"} :
                         Enter(o, b, state)
                    \/ Send(o)
                    \/ Land(o)
                    \/ \E v \in Verdicts : Decide(o, v)
                    \/ Tell(o)
  \/ Recover

Spec == Init /\ [][Next]_vars
=============================================================================
