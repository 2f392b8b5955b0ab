----------------------------- MODULE MCKeeper -----------------------------
(***************************************************************************)
(* The keeper on small instances.                                           *)
(***************************************************************************)
EXTENDS KeeperProps, TLC

Symmetry == Permutations(Users)
===========================================================================
