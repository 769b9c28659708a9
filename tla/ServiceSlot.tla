----------------------------- MODULE ServiceSlot -----------------------------
(***************************************************************************)
(* What the job queue promises, service by service: one slot, holding at   *)
(* most one action. An action is accepted only into an empty slot and only *)
(* from the status it needs, is withdrawn only before it is taken, and     *)
(* leaves the slot empty again only together with the final status of the  *)
(* service. An abandoned action keeps the slot for ever: nothing in the    *)
(* code recovers it.                                                       *)
(***************************************************************************)
EXTENDS ServiceActions

CONSTANT Services

VARIABLES
  shown,   \* the status of each service
  slot     \* the action in its slot and the stage it has reached, or {}

vars == <<shown, slot>>

Stages == {"waiting", "taken", "working", "over", "abandoned"}

Init ==
  /\ shown \in [Services -> {"off", "on"}]
  /\ slot = [s \in Services |-> {}]

Accept(s, a) ==
  /\ slot[s] = {}
  /\ shown[s] = Required(a)
  /\ slot' = [slot EXCEPT ![s] = {<<a, "waiting">>}]
  /\ UNCHANGED shown

Withdraw(s, a) ==
  /\ slot[s] = {<<a, "waiting">>}
  /\ slot' = [slot EXCEPT ![s] = {}]
  /\ UNCHANGED shown

Take(s, a) ==
  /\ slot[s] = {<<a, "waiting">>}
  /\ slot' = [slot EXCEPT ![s] = {<<a, "taken">>}]
  /\ UNCHANGED shown

Work(s, a) ==
  /\ slot[s] = {<<a, "taken">>}
  /\ shown[s] = Required(a)
  /\ slot' = [slot EXCEPT ![s] = {<<a, "working">>}]
  /\ shown' = [shown EXCEPT ![s] = Transitional(a)]

Conclude(s, a) ==
  /\ slot[s] = {<<a, "working">>}
  /\ slot' = [slot EXCEPT ![s] = {<<a, "over">>}]
  /\ UNCHANGED shown

Settle(s, a, o) ==
  /\ slot[s] = {<<a, "over">>}
  /\ shown[s] = Transitional(a)
  /\ slot' = [slot EXCEPT ![s] = {}]
  /\ shown' = [shown EXCEPT ![s] = Final(a, o)]

Abandon(s, a, stage) ==
  /\ stage \in {"taken", "working", "over"}
  /\ slot[s] = {<<a, stage>>}
  /\ slot' = [slot EXCEPT ![s] = {<<a, "abandoned">>}]
  /\ UNCHANGED shown

Next ==
  \E s \in Services, a \in Actions :
    \/ Accept(s, a)
    \/ Withdraw(s, a)
    \/ Take(s, a)
    \/ Work(s, a)
    \/ Conclude(s, a)
    \/ \E o \in Outcomes : Settle(s, a, o)
    \/ \E stage \in Stages : Abandon(s, a, stage)

Spec == Init /\ [][Next]_vars
=============================================================================
