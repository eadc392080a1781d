----------------------------- MODULE MCWorkflow -----------------------------
(* Workflow on small formulas. *)
EXTENDS Workflow, TLC

CONSTANTS t1, t2, t3, t4, t5

\* Three steps in a row, each of which may be retried; the second needs the
\* first one's output.
RowGroup == [s \in 0..2 |-> 0]
RowWhen == (0 :> NoStep) @@ (1 :> 0) @@ (2 :> NoStep)
RowRetries == (0 :> 2) @@ (1 :> 1) @@ (2 :> 1)

\* build-feature in the small: a step, two in parallel of which one is
\* conditional, and a last step.
ParGroup == (0 :> 0) @@ (1 :> 1) @@ (2 :> 1) @@ (3 :> 0)
ParWhen == (0 :> NoStep) @@ (1 :> 0) @@ (2 :> NoStep) @@ (3 :> NoStep)
ParRetries == [s \in 0..3 |-> 0]

\* Two steps that may be retried once.
PairGroup == [s \in 0..1 |-> 0]
PairWhen == [s \in 0..1 |-> NoStep]
PairRetries == [s \in 0..1 |-> 1]

\* Two conditional steps after the first.
SkipGroup == [s \in 0..2 |-> 0]
SkipWhen == (0 :> NoStep) @@ (1 :> 0) @@ (2 :> 0)
SkipRetries == [s \in 0..2 |-> 0]

\* A first step and a group of two, both conditional.
HopGroup == (0 :> 0) @@ (1 :> 1) @@ (2 :> 1) @@ (3 :> 0)
HopWhen == (0 :> NoStep) @@ (1 :> 0) @@ (2 :> 0) @@ (3 :> NoStep)
HopRetries == [s \in 0..3 |-> 0]

\* A formula that begins with a group of two.
HeadGroup == (0 :> 1) @@ (1 :> 1) @@ (2 :> 0)
HeadWhen == [s \in 0..2 |-> NoStep]
HeadRetries == [s \in 0..2 |-> 0]

Perms == Permutations(Tasks) \cup Permutations(Handlers)
=============================================================================
