---------------------------- MODULE Decomposition ----------------------------
(***************************************************************************)
(* A task too large for one agent: the coordinator's router asks an LLM to *)
(* split it, inserts the sub-tasks one by one and marks the parent         *)
(* 'decomposed'; whoever handles a sub-task's task_completed counts the    *)
(* sub-tasks and completes the parent when all are done.  Delegations add  *)
(* sub-tasks of their own and count as well.  What else moves the rows is  *)
(* TaskLife, which TaskQueue implements.                                   *)
(***************************************************************************)
EXTENDS Integers, FiniteSets

CONSTANTS
    Parent,          \* id of the task that may be split
    Children,        \* ids of sub-tasks (a bound on how many are inserted)
    Handlers,        \* messages handled at the same time
    SchemaStatuses   \* what task_queue_status_check accepts

Rows == {Parent} \cup Children

ASSUME DecompositionAssumption ==
    /\ Parent \notin Children
    /\ IsFiniteSet(Children)

VARIABLES
    row,      \* task_queue.status by task; sub-tasks have parent_task_id = Parent
    nats,     \* task_available of the parent, task_completed of all: one
              \* copy of each (a bound)
    handler,  \* locals of the handlers that are running
    mishaps   \* history: whether a message or a handler was lost, and whether
              \* an agent took the parent while it was pending or a tool ended it

vars == <<row, nats, handler, mishaps>>

Queue == INSTANCE TaskLife WITH Tasks <- Rows, life <- row

-----------------------------------------------------------------------------
Available == [kind |-> "task_available", task |-> Parent]
Completed(t) == [kind |-> "task_completed", task |-> t]
Messages == {Available} \cup {Completed(t) : t \in Rows}

Idle == [pc |-> "idle", todo |-> 0]
HandlerStates ==
    [pc : {"idle", "insert", "mark", "route", "count", "close", "publish"},
     todo : 0..Cardinality(Children)]   \* sub-tasks still to insert

Init ==
    /\ Queue!Init
    /\ nats = {}
    /\ handler = [h \in Handlers |-> Idle]
    /\ mishaps = {}

Receive(m) == m \in nats /\ nats' = nats \ {m}
Publish(m) == nats' = nats \cup {m}
Inserted == {c \in Children : row[c] # "absent"}
Moves(h, pc) == handler' = [handler EXCEPT ![h].pc = pc]
Ends(h) == handler' = [handler EXCEPT ![h] = Idle]

-----------------------------------------------------------------------------
(* handle_task_available and create_sub_tasks, for the parent.             *)

\* fetch_task, then decompose_task: the LLM answers with no sub-tasks or with
\* two or more.
Fetch(h) ==
    /\ handler[h].pc = "idle"
    /\ Receive(Available)
    /\ IF row[Parent] = "pending"
         THEN \/ Moves(h, "route")
              \/ \E n \in 2..Cardinality(Children \ Inserted) :
                   handler' = [handler EXCEPT ![h] = [pc |-> "insert", todo |-> n]]
         ELSE UNCHANGED handler
    /\ UNCHANGED <<row, mishaps>>

InsertChild(h) ==
    /\ handler[h].pc = "insert"
    /\ \E c \in Children : Queue!Create(c)
    /\ handler' = IF handler[h].todo = 1
                    THEN [handler EXCEPT ![h] = [pc |-> "mark", todo |-> 0]]
                    ELSE [handler EXCEPT ![h].todo = @ - 1]
    /\ UNCHANGED <<nats, mishaps>>

\* Mutant: the status is written whatever it was.
MarkDecomposedUnguarded(h) ==
    /\ handler[h].pc = "mark"
    /\ row' = [row EXCEPT ![Parent] = "decomposed"]
    /\ Ends(h)
    /\ UNCHANGED <<nats, mishaps>>

\* The UPDATE concerns a pending row only; a status the schema rejects is an
\* error, and the parent is then routed as if it had not been split.
MarkDecomposed(h) ==
    /\ handler[h].pc = "mark"
    /\ IF row[Parent] # "pending" THEN UNCHANGED row /\ Ends(h)
       ELSE IF "decomposed" \in SchemaStatuses
            THEN row' = [row EXCEPT ![Parent] = "decomposed"] /\ Ends(h)
            ELSE UNCHANGED row /\ Moves(h, "route")
    /\ UNCHANGED <<nats, mishaps>>

\* A statement of the split fails: the parent is routed, whatever was inserted.
SplitFails(h) ==
    /\ handler[h].pc \in {"insert", "mark"}
    /\ handler' = [handler EXCEPT ![h] = [pc |-> "route", todo |-> 0]]
    /\ UNCHANGED <<row, nats, mishaps>>

\* try_claim_task, after the scoring TaskQueue details.
RouteParent(h) ==
    /\ handler[h].pc = "route"
    /\ IF row[Parent] = "pending" THEN Queue!Claim(Parent) ELSE UNCHANGED row
    /\ Ends(h)
    /\ UNCHANGED <<nats, mishaps>>

-----------------------------------------------------------------------------
(* handle_task_completed and check_parent_task_completion.                 *)

HandleCompleted(h, t) ==
    /\ handler[h].pc = "idle"
    /\ Receive(Completed(t))
    /\ IF t = Parent THEN UNCHANGED handler ELSE Moves(h, "count")
    /\ UNCHANGED <<row, mishaps>>

AllDone == Inserted # {} /\ \A c \in Inserted : row[c] = "completed"

CountChildren(h) ==
    /\ handler[h].pc = "count"
    /\ IF AllDone THEN Moves(h, "close") ELSE Ends(h)
    /\ UNCHANGED <<row, nats, mishaps>>

\* Mutant: only a parent already marked is completed.
CloseParentMarkedOnly(h) ==
    /\ handler[h].pc = "close"
    /\ row' = [row EXCEPT ![Parent] = IF @ = "decomposed" THEN "completed" ELSE @]
    /\ Moves(h, "publish")
    /\ UNCHANGED <<nats, mishaps>>

CloseParent(h) ==
    /\ handler[h].pc = "close"
    /\ row' = [row EXCEPT ![Parent] =
                 IF @ \in {"pending", "decomposed"} THEN "completed" ELSE @]
    /\ Moves(h, "publish")
    /\ UNCHANGED <<nats, mishaps>>

\* Whether or not the UPDATE found a row.
PublishParent(h) ==
    /\ handler[h].pc = "publish"
    /\ Publish(Completed(Parent))
    /\ Ends(h)
    /\ UNCHANGED <<row, mishaps>>

-----------------------------------------------------------------------------
(* Delegations that name the parent, by whoever, in whatever state it is.  *)

\* handle_delegation_request: the delegated task is a sub-task as well.
Delegate ==
    /\ row[Parent] # "absent"
    /\ \E c \in Children : Queue!Create(c)
    /\ UNCHANGED <<nats, handler, mishaps>>

\* handle_delegation_response with "completed", which tests no status and may
\* be repeated: the sub-tasks are counted.
HandleAnswer(h) ==
    /\ row[Parent] # "absent"
    /\ handler[h].pc = "idle"
    /\ Moves(h, "count")
    /\ UNCHANGED <<row, nats, mishaps>>

-----------------------------------------------------------------------------
(* The rest of the queue.                                                  *)

CreateParent ==
    /\ Queue!Create(Parent)
    /\ Publish(Available)
    /\ UNCHANGED <<handler, mishaps>>

Noted(t) == mishaps' = IF t = Parent /\ row[t] = "pending" THEN mishaps \cup {"agent"}
                                                         ELSE mishaps

\* The router of a sub-task, or claim_task of an agent.
Claim(t) == Queue!Claim(t) /\ Noted(t) /\ UNCHANGED <<nats, handler>>

\* A task goes back to pending; the message of the parent goes out again.
Back(t) ==
    /\ Queue!Release(t) \/ Queue!Retry(t)
    /\ IF t = Parent THEN Publish(Available) ELSE UNCHANGED nats
    /\ UNCHANGED <<handler, mishaps>>

Complete(t) ==
    /\ Queue!Complete(t)
    /\ Publish(Completed(t))
    /\ UNCHANGED <<handler, mishaps>>

\* fail_task, a dead letter or a cancellation.
Drop(t) == Queue!Abandon(t) /\ Noted(t) /\ UNCHANGED <<nats, handler>>

LoseMessage(m) ==
    /\ Receive(m)
    /\ mishaps' = mishaps \cup {"loss"}
    /\ UNCHANGED <<row, handler>>

CoordinatorCrash ==
    /\ \E h \in Handlers : handler[h] # Idle
    /\ handler' = [h \in Handlers |-> Idle]
    /\ mishaps' = mishaps \cup {"loss"}
    /\ UNCHANGED <<row, nats>>

\* The claim, the count or the closing UPDATE fails: the handler ends with the
\* error, its message used up.
HandlerFails(h) ==
    /\ handler[h].pc \in {"route", "count", "close"}
    /\ Ends(h)
    /\ mishaps' = mishaps \cup {"loss"}
    /\ UNCHANGED <<row, nats>>

-----------------------------------------------------------------------------
RouterNext(h) ==
    \/ Fetch(h) \/ InsertChild(h) \/ MarkDecomposed(h) \/ SplitFails(h) \/ RouteParent(h)

CompletionNext(h) ==
    \/ \E t \in Rows : HandleCompleted(h, t)
    \/ CountChildren(h) \/ CloseParent(h) \/ PublishParent(h)

HandlerNext(h) == RouterNext(h) \/ CompletionNext(h)

QueueNext ==
    \/ CreateParent
    \/ \E t \in Rows : Claim(t) \/ Back(t) \/ Complete(t) \/ Drop(t)

FaultNext ==
    \/ \E m \in Messages : LoseMessage(m)
    \/ CoordinatorCrash
    \/ \E h \in Handlers : HandlerFails(h)

DelegationNext == Delegate \/ \E h \in Handlers : HandleAnswer(h)

Next == (\E h \in Handlers : HandlerNext(h)) \/ QueueNext \/ DelegationNext \/ FaultNext

Spec == Init /\ [][Next]_vars

\* tokio runs every handler to its end and NATS delivers.
FairSpec == Spec /\ \A h \in Handlers : WF_vars(HandlerNext(h))

-----------------------------------------------------------------------------
(* Properties.                                                             *)

TypeOK ==
    /\ row \in [Rows -> Queue!Lives \cup {"decomposed"}]
    /\ nats \subseteq Messages
    /\ handler \in [Handlers -> HandlerStates]
    /\ mishaps \subseteq {"loss", "agent"}

Waiting == row[Parent] \in {"pending", "decomposed"} /\ AllDone
Looking ==
    \/ Available \in nats
    \/ \E h \in Handlers : handler[h].pc \notin {"idle", "mark", "publish"}
    \/ \E c \in Children : Completed(c) \in nats

\* When every sub-task is completed and the parent is not, somebody is still
\* going to look: no order of inserts, completions, counts and of the mark
\* leaves the parent waiting for sub-tasks that are all done (unless an agent
\* held it for a part of that time, or something was lost).
ParentIsNotForgotten == mishaps = {} /\ Waiting => Looking

\* Under the handlers' fairness the parent then leaves its wait.
ParentIsClosed == Waiting /\ mishaps = {} ~> ~Waiting \/ mishaps # {}

\* What an agent holds or has ended is not taken back or ended by the
\* coordinator's bookkeeping of sub-tasks: a parent an agent works on is not
\* marked decomposed or completed under it by a stale router or count.
BookkeepingLeavesAgents ==
    [][row[Parent] \in {"held", "completed", "failed"} /\ row'[Parent] # row[Parent]
         => handler' = handler]_vars

-----------------------------------------------------------------------------
(* What the documentation says and the code does not do.                   *)

\* A parent that was split is not routed as well.
SplitIsNotRouted ==
    [][\A h \in Handlers : RouteParent(h) /\ row'[Parent] = "held" => Inserted = {}]_vars

\* The coordinator completes a parent only when all of its sub-tasks are done.
ParentWaitsForAll ==
    [][\A h \in Handlers : CloseParent(h) /\ row' # row
         => \A g \in Handlers : handler[g].pc # "insert"]_vars

\* A parent whose sub-tasks are all done is completed, whatever agents did
\* with it meanwhile, unless something was lost.
ParentIsNeverForgotten == "loss" \notin mishaps /\ Waiting => Looking
=============================================================================
