------------------------------- MODULE MCBudget -------------------------------
(* One agent with a few calls at a time. *)
EXTENDS Budget, TLC

CONSTANTS c1, c2

\* What set_budget is called with: an amount below zero too.
SomeGrants == {-1, 0, 1}
=============================================================================
