------------------------------ MODULE TaskLife ------------------------------
(***************************************************************************)
(* What the task queue promises to its users: the lives a row of           *)
(* task_queue may lead, whatever messages, loops, handlers and tools move  *)
(* it.  TaskQueue implements this specification and Workflow is built on   *)
(* it.                                                                     *)
(***************************************************************************)
CONSTANT Tasks
VARIABLE life

Lives == {"absent", "pending", "held", "paused", "completed", "failed"}

Init == life = [t \in Tasks |-> "absent"]

Move(t, from, to) == /\ life[t] \in from
                     /\ life' = [life EXCEPT ![t] = to]

Create(t)   == Move(t, {"absent"}, "pending")
Claim(t)    == Move(t, {"pending"}, "held")
\* A decline or a timeout.
Release(t)  == Move(t, {"held", "paused"}, "pending")
Pause(t)    == Move(t, {"held"}, "paused")
Complete(t) == Move(t, {"held"}, "completed")
Fail(t)     == Move(t, {"held"}, "failed")
\* Dead-lettered or cancelled: failed without its agent saying so.
Abandon(t)  == Move(t, {"pending", "held"}, "failed")
Retry(t)    == Move(t, {"failed"}, "pending")
\* The operator's manual retry does not look at the status.
Override(t) == Move(t, Lives \ {"absent"}, "pending")

Next == \E t \in Tasks :
    \/ Create(t) \/ Claim(t) \/ Release(t) \/ Pause(t) \/ Complete(t)
    \/ Fail(t) \/ Abandon(t) \/ Retry(t) \/ Override(t)

Spec == Init /\ [][Next]_life
=============================================================================
