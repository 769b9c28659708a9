--------------------------- MODULE MCAgentActions ---------------------------
(* AgentActions on one target that two different requests ask for. *)
EXTENDS AgentActions, TLC

CONSTANTS o1, o2, b1, b2, t1, h1, h2, h3

TwoBodies == (b1 :> t1) @@ (b2 :> t1)

Symmetry == Permutations(Threads)
=============================================================================
