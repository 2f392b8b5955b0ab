---------------------------- MODULE MCZeroHeight ----------------------------
(* Three validators for two places, each with a delegation.                 *)
EXTENDS ZeroHeight

CONSTANTS v1, v2, v3, d1

MCRank == [v \in Validators |-> CASE v = v1 -> 1 [] v = v2 -> 2 [] OTHER -> 3]
MCDelegations == {<<d1, v>> : v \in Validators}
=============================================================================
