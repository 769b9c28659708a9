-------------------------- MODULE MCInventorySync --------------------------
(* InventorySync with one project of two containers, one standalone container
   and one whose labels are unusable. *)
EXTENDS InventorySync

CONSTANT p1

MCContainers == 1..4
MCKindOf == <<p1, p1, Standalone, Ambiguous>>
Running == [state |-> "running", health |-> "none"]
Exited == [state |-> "exited", health |-> "none"]

MCSeen == {Running, Exited}
MCInitially == {Running, Unborn}

(* The standalone container exists from the beginning; the others may not. *)
MCInit == Init /\ docker[3] = Running
MCSpec == MCInit /\ [][Next]_vars

Symmetry == Permutations(Syncs)
=============================================================================
