---------------------------- MODULE MCTaskQueue ----------------------------
(* Small instances of TaskQueue for TLC.                                   *)
EXTENDS TaskQueue, TLC

CONSTANTS a1, a2

\* task_queue_status_check as migration 004 leaves it.
ShippedStatuses == {"pending", "claimed", "in_progress", "completed", "failed",
                    "retrying", "awaiting_approval", "rejected", "expired"}
\* The same constraint with the two statuses the coordinator also writes.
WidenedStatuses == ShippedStatuses \cup {"decomposed", "context_requested"}

AllOrNone == {{}, Agents}
AllActive == {Agents}
OneOrTwo == {{a1}, {a1, a2}}

Perms == Permutations(Handlers) \cup Permutations(Rows) \cup Permutations(Agents)
SlotPerms == Permutations(Handlers) \cup Permutations(Rows)
=============================================================================
