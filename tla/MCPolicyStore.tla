--------------------------- MODULE MCPolicyStore ---------------------------
(* PolicyStore with two resources, one of which the first version knew. *)
EXTENDS PolicyStore, TLC

CONSTANTS t1, t2, b1, b2, b3

MCTargetOf == b1 :> t1 @@ b2 :> t1 @@ b3 :> t2
MCPolicyOf == b1 :> "managed" @@ b2 :> "protected" @@ b3 :> "managed"
MCLegacy == t1 :> NoRow @@ t2 :> "protected"

Symmetry == Permutations(Threads) \cup Permutations(Ops)
=============================================================================
