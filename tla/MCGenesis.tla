----------------------------- MODULE MCGenesis -----------------------------
(* Export and import on small instances. *)
EXTENDS Querier, TLC

Symmetry == Permutations(Wasms)
============================================================================
