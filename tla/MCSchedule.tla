----------------------------- MODULE MCSchedule -----------------------------
(* A few scheduled entries over a few ticks. *)
EXTENDS Schedule, TLC

CONSTANTS e1, e2, e3
=============================================================================
