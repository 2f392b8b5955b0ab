----------------------------- MODULE MCReplicas -----------------------------
(* Small instances of the nodes. Sizes are in units of 100 KiB.             *)
EXTENDS Replicas

CONSTANTS wFits, wBig

MCWasmSize == [w \in Wasms |-> IF w = wFits THEN MaxSize ELSE MaxSize + 1]

Symmetry == Permutations(Nodes)
=============================================================================
