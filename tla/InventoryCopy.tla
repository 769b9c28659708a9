--------------------------- MODULE InventoryCopy ---------------------------
(***************************************************************************)
(* What the synchronisations promise of the Controller's tables, whatever  *)
(* the Agent, its snapshots and the network do: a copy of Docker that is   *)
(* written by readers, each in one step and at most once, and shows of     *)
(* every container something it has been since that reader began; and      *)
(* protections that are only ever added. A reader that gives up leaves no  *)
(* trace. Readers may overlap: the one that began first may write last.    *)
(***************************************************************************)
CONSTANTS
  Containers,
  Values,      \* what an existing container may show
  Absent,      \* what a container shows before and after its life
  Targets,     \* what may be protected
  Readers

VARIABLES
  truth,       \* what each container is
  copy,        \* what the tables show of it
  guarded,     \* targets whose protection is forced
  reading,     \* readers that have begun
  watched      \* what each container has been since a reader began

vars == <<truth, copy, guarded, reading, watched>>

Shows == [Containers -> Values \cup {Absent}]
Unwatched == [c \in Containers |-> {}]

Init ==
  /\ truth \in Shows
  /\ copy = [c \in Containers |-> Absent]
  /\ guarded = {}
  /\ reading = {}
  /\ watched = [s \in Readers |-> Unwatched]

Change(c) ==
  /\ truth'[c] \in (Values \cup {Absent}) \ {truth[c]}
  /\ truth' = [truth EXCEPT ![c] = truth'[c]]
  /\ watched' = [s \in Readers |->
                   IF s \in reading
                   THEN [watched[s] EXCEPT ![c] = @ \cup {truth'[c]}]
                   ELSE watched[s]]
  /\ UNCHANGED <<copy, guarded, reading>>

Begin(s) ==
  /\ s \notin reading
  /\ reading' = reading \cup {s}
  /\ watched' = [watched EXCEPT ![s] = [c \in Containers |-> {truth[c]}]]
  /\ UNCHANGED <<truth, copy, guarded>>

Leave(s) ==
  /\ s \in reading
  /\ reading' = reading \ {s}
  /\ watched' = [watched EXCEPT ![s] = Unwatched]

Write(s) ==
  /\ Leave(s)
  /\ copy' \in Shows
  /\ \A c \in Containers : copy'[c] \in watched[s][c]
  /\ guarded' \in SUBSET Targets /\ guarded \subseteq guarded'
  /\ UNCHANGED truth

GiveUp(s) == Leave(s) /\ UNCHANGED <<truth, copy, guarded>>

Next ==
  \/ \E s \in Readers : Begin(s) \/ Write(s) \/ GiveUp(s)
  \/ \E c \in Containers : Change(c)

Spec == Init /\ [][Next]_vars
=============================================================================
