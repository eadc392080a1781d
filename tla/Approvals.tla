------------------------------ MODULE Approvals ------------------------------
(***************************************************************************)
(* Approval gates.  An agent asks for one with create_approval_gate, which *)
(* inserts the gate and then parks the task it names; a reviewer decides   *)
(* it with resolve_approval or in the dashboard, which then releases the   *)
(* task; the heartbeat expires what nobody decided and then the tasks      *)
(* behind it.  Each of the three is two statements, and they run side by   *)
(* side.  What else moves the rows is TaskLife, which TaskQueue implements.*)
(***************************************************************************)
EXTENDS Integers, FiniteSets

CONSTANTS
    Tasks,
    Gates,       \* ids of approval_gates (a bound on how many are asked for)
    Calls,       \* tool calls and dashboard requests handled at the same time
    NoTask,      \* a gate without a task_id
    NoGate       \* a task without an approval_id

ASSUME ApprovalsAssumption ==
    /\ NoTask \notin Tasks
    /\ NoGate \notin Gates

VARIABLES
    row,     \* task_queue.status
    link,    \* task_queue.approval_id
    gate,    \* approval_gates
    review,  \* locals of the calls
    sweep,   \* the heartbeat, between its two statements or not
    smooth   \* history: no crash, and no gate decided while it was being made

gateVars == <<row, link, gate, review, sweep, smooth>>

Life == INSTANCE TaskLife WITH life <- row

-----------------------------------------------------------------------------
Verdicts == {"approved", "rejected"}
GateStatuses == Verdicts \cup {"absent", "pending", "expired", "auto_approved"}
GateRows == [status : GateStatuses, task : Tasks \cup {NoTask}]

RowStatuses == Life!Lives \cup {"awaiting", "expired"}

NoReview == [pc |-> "idle", gate |-> NoGate]
Reviews == [pc : {"idle", "park", "unpark", "requeue"}, gate : Gates \cup {NoGate}]

GateInit ==
    /\ Life!Init
    /\ link = [t \in Tasks |-> NoGate]
    /\ gate = [g \in Gates |-> [status |-> "absent", task |-> NoTask]]
    /\ review = [c \in Calls |-> NoReview]
    /\ sweep = "idle"
    /\ smooth = TRUE

Goes(c, pc, g) == review' = [review EXCEPT ![c] = [pc |-> pc, gate |-> g]]
Ends(c) == review' = [review EXCEPT ![c] = NoReview]

\* Between the insert and the parking of the task a gate is listed for review
\* already, though its id was returned to nobody.
InTheMaking(g) == \E c \in Calls : review[c].pc = "park" /\ review[c].gate = g
Decided(gs) == smooth' = (smooth /\ \A g \in gs : ~InTheMaking(g))

-----------------------------------------------------------------------------
(* create_approval_gate.                                                   *)

\* evaluate_approval_policy answers that a person decides, or that a policy
\* approves at once; the row is inserted.
CreateGate(c, g, t) ==
    /\ review[c].pc = "idle"
    /\ gate[g].status = "absent"
    /\ t # NoTask => row[t] # "absent"
    /\ \E status \in {"pending", "auto_approved"} :
         /\ gate' = [gate EXCEPT ![g] = [status |-> status, task |-> t]]
         /\ IF t = NoTask THEN UNCHANGED review
            ELSE Goes(c, IF status = "pending" THEN "park" ELSE "unpark", g)
    /\ UNCHANGED <<row, link, sweep, smooth>>

\* Mutant: the task is parked without the gate's id.
ParkTaskUnlinked(c) ==
    /\ review[c].pc = "park"
    /\ row' = [row EXCEPT ![gate[review[c].gate].task] = "awaiting"]
    /\ Ends(c)
    /\ UNCHANGED <<link, gate, sweep, smooth>>

\* Whatever the task's status is.
ParkTask(c) ==
    LET g == review[c].gate IN
    /\ review[c].pc = "park"
    /\ row' = [row EXCEPT ![gate[g].task] = "awaiting"]
    /\ link' = [link EXCEPT ![gate[g].task] = g]
    /\ Ends(c)
    /\ UNCHANGED <<gate, sweep, smooth>>

\* Auto-approved: the task is pending, whatever its status was.
UnparkTask(c) ==
    /\ review[c].pc = "unpark"
    /\ row' = [row EXCEPT ![gate[review[c].gate].task] = "pending"]
    /\ Ends(c)
    /\ UNCHANGED <<link, gate, sweep, smooth>>

-----------------------------------------------------------------------------
(* resolve_approval and the dashboard's review.                            *)

\* Mutant: the review of a gate that was decided counts as well.
ResolveGateAgain(c, g, verdict) ==
    /\ review[c].pc = "idle"
    /\ gate[g].status # "absent"
    /\ gate' = [gate EXCEPT ![g].status = verdict]
    /\ IF verdict = "approved" THEN Goes(c, "requeue", g) ELSE UNCHANGED review
    /\ Decided({g})
    /\ UNCHANGED <<row, link, sweep>>

\* A gate that is not pending answers "not found"; a rejection does not touch
\* the task.
ResolveGate(c, g, verdict) ==
    /\ review[c].pc = "idle"
    /\ gate[g].status = "pending"
    /\ gate' = [gate EXCEPT ![g].status = verdict]
    /\ IF verdict = "approved" THEN Goes(c, "requeue", g) ELSE UNCHANGED review
    /\ Decided({g})
    /\ UNCHANGED <<row, link, sweep>>

\* The tool's message after it goes to a subject nobody subscribes to and the
\* dashboard sends none, so no message is modelled: an agent's claim_task finds
\* the row (TaskLife's Claim).
RequeueTask(c) ==
    LET g == review[c].gate IN
    /\ review[c].pc = "requeue"
    /\ row' = [t \in Tasks |-> IF link[t] = g /\ row[t] = "awaiting"
                                 THEN "pending" ELSE row[t]]
    /\ Ends(c)
    /\ UNCHANGED <<link, gate, sweep, smooth>>

-----------------------------------------------------------------------------
(* expire_approval_gates, in the heartbeat's cycle.                        *)

\* expires_at passes for some of the pending gates; every gate has one.
ExpireGates ==
    /\ sweep = "idle"
    /\ \E due \in SUBSET {g \in Gates : gate[g].status = "pending"} :
         /\ due # {}
         /\ Decided(due)
         /\ gate' = [g \in Gates |->
              IF g \in due THEN [gate[g] EXCEPT !.status = "expired"] ELSE gate[g]]
    /\ sweep' = "tasks"
    /\ UNCHANGED <<row, link, review>>

\* Mutant: the tasks of the gates are looked up by the gates' own task_id.
ExpireTasksByGate ==
    /\ sweep = "tasks"
    /\ row' = [t \in Tasks |->
         IF row[t] = "awaiting"
              /\ \E g \in Gates : gate[g].task = t /\ gate[g].status = "expired"
           THEN "expired" ELSE row[t]]
    /\ sweep' = "idle"
    /\ UNCHANGED <<link, gate, review, smooth>>

ExpireTasks ==
    /\ sweep = "tasks"
    /\ row' = [t \in Tasks |->
         IF row[t] = "awaiting" /\ link[t] # NoGate /\ gate[link[t]].status = "expired"
           THEN "expired" ELSE row[t]]
    /\ sweep' = "idle"
    /\ UNCHANGED <<link, gate, review, smooth>>

-----------------------------------------------------------------------------
(* The rest of the queue, and faults.                                      *)

QueueMove(t) ==
    /\ \/ Life!Create(t) \/ Life!Claim(t) \/ Life!Release(t) \/ Life!Complete(t)
       \/ Life!Abandon(t) \/ Life!Retry(t)
    /\ UNCHANGED <<link, gate, review, sweep, smooth>>

\* The manual retry of a dead letter and the late retry of a workflow's step
\* reset the row whatever its status is.
ResetTask(t) ==
    /\ row[t] # "absent"
    /\ row' = [row EXCEPT ![t] = "pending"]
    /\ UNCHANGED <<link, gate, review, sweep, smooth>>

CallCrash ==
    /\ \E c \in Calls : review[c] # NoReview
    /\ review' = [c \in Calls |-> NoReview]
    /\ smooth' = FALSE
    /\ UNCHANGED <<row, link, gate, sweep>>

\* Not only a crash: a cycle that takes cycle_timeout_secs is dropped where it is.
SweepTimeout ==
    /\ sweep = "tasks"
    /\ sweep' = "idle"
    /\ smooth' = FALSE
    /\ UNCHANGED <<row, link, gate, review>>

-----------------------------------------------------------------------------
GateCall(c) == ParkTask(c) \/ UnparkTask(c) \/ RequeueTask(c)

GateAsked(c) ==
    \E g \in Gates :
      \/ \E t \in Tasks \cup {NoTask} : CreateGate(c, g, t)
      \/ \E verdict \in Verdicts : ResolveGate(c, g, verdict)

GateSweep == ExpireGates \/ ExpireTasks

GateNext ==
    \/ \E c \in Calls : GateCall(c) \/ GateAsked(c)
    \/ GateSweep
    \/ \E t \in Tasks : QueueMove(t) \/ ResetTask(t)
    \/ CallCrash \/ SweepTimeout

GateSpec == GateInit /\ [][GateNext]_gateVars

\* A call that has begun ends, and the heartbeat's cycles go on.
GateFairSpec ==
    /\ GateSpec
    /\ \A c \in Calls : WF_gateVars(GateCall(c))
    /\ WF_gateVars(ExpireGates) /\ WF_gateVars(ExpireTasks)

-----------------------------------------------------------------------------
(* Properties.                                                             *)

GateTypeOK ==
    /\ row \in [Tasks -> RowStatuses]
    /\ link \in [Tasks -> Gates \cup {NoGate}]
    /\ gate \in [Gates -> GateRows]
    /\ review \in [Calls -> Reviews]
    /\ sweep \in {"idle", "tasks"}
    /\ smooth \in BOOLEAN

\* Who will still move a task parked behind gate g.
Watched(g) ==
    \/ gate[g].status \in {"pending", "rejected"}
    \/ gate[g].status = "approved"
         /\ \E c \in Calls : review[c].pc = "requeue" /\ review[c].gate = g
    \/ gate[g].status = "expired" /\ sweep = "tasks"

\* No parked task is forgotten: the gate it names is still open, or was
\* rejected, or the call that approved it or the sweep that expired it is about
\* to move the task.  Gates asked for twice, decisions that cross the heartbeat
\* and tasks that come and go do not break it (create_approval_gate,
\* resolve_approval, expire_approval_gates).
ParkedIsWatched ==
    smooth =>
      \A t \in Tasks : row[t] = "awaiting" => link[t] # NoGate /\ Watched(link[t])

\* A gate is decided once: of two reviewers and the heartbeat one wins.
DecisionIsFinal ==
    [][\A g \in Gates : gate[g].status \notin {"absent", "pending"}
         => gate'[g] = gate[g]]_gateVars

\* A parked task leaves only with the decision of the gate it names, by a
\* policy that approves it, or because a retry resets it; never because
\* an earlier gate of the same task was decided.
ParkedObeysItsGate ==
    [][\A t \in Tasks : row[t] = "awaiting" /\ row'[t] # "awaiting" =>
         \/ row'[t] = "pending" /\ link[t] # NoGate /\ gate[link[t]].status = "approved"
         \/ row'[t] = "expired" /\ link[t] # NoGate /\ gate[link[t]].status = "expired"
         \/ \E c \in Calls : UnparkTask(c)
         \/ ResetTask(t)]_gateVars

\* As long as no process crashes, a parked task does not stay parked, unless
\* its gate was rejected: somebody reviews it or the heartbeat expires it.
ParkedIsDecided ==
    \A t \in Tasks :
      row[t] = "awaiting" /\ smooth ~>
        \/ row[t] # "awaiting"
        \/ link[t] # NoGate /\ gate[link[t]].status = "rejected"
        \/ ~smooth
=============================================================================
