-------------------------- MODULE MCDecomposition --------------------------
(* Decomposition of one task into a few. *)
EXTENDS Decomposition, TLC

CONSTANTS a, b, c, d, h1, h2, h3

\* The constraint as the migrations leave it, and with the status added.
Shipped == {"pending", "claimed", "in_progress", "completed", "failed", "retrying",
            "awaiting_approval", "rejected", "expired"}
Widened == Shipped \cup {"decomposed"}
Perms == Permutations(Children) \cup Permutations(Handlers)
=============================================================================
