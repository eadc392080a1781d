---------------------------- MODULE MCApprovals ----------------------------
(* A few gates over a few tasks. *)
EXTENDS Approvals, TLC

CONSTANTS t1, t2, g1, g2, g3, c1, c2

Perms == Permutations(Tasks) \cup Permutations(Gates) \cup Permutations(Calls)
=============================================================================
