--------------------------- MODULE MCGenesisFiles ---------------------------
(* Testnets of up to three nodes.                                             *)
EXTENDS GenesisFiles, TLC

Symmetry == Permutations(Prefixes)
=============================================================================
