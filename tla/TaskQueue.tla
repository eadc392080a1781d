----------------------------- MODULE TaskQueue -----------------------------
(***************************************************************************)
(* The life of a row of task_queue: the coordinator's router, decline and  *)
(* context handlers, its timeout and dead-letter loops, the beads-bridge   *)
(* tools agents call, and the two operator endpoints that write the row.   *)
(*                                                                         *)
(* Every NATS message is handled in a tokio task of its own, so handlers   *)
(* interleave at each database statement.  A handler keeps what it read in *)
(* a local record (handler[h]) while other handlers and tools run.  An     *)
(* UPDATE and the publish that follows it are one step: the gap between    *)
(* them is a message that is still in flight, or (Faulty) a lost one.      *)
(*                                                                         *)
(* The rows are tasks of no workflow run and are not split: what           *)
(* handle_task_failed does to the step of a run is in Workflow, the LLM's  *)
(* decomposition (off by default) in Decomposition.                        *)
(***************************************************************************)
EXTENDS Naturals, FiniteSets

CONSTANTS
    Tasks,          \* ids of task_queue rows
    NoTask,
    Agents,         \* agent_id of agent_profiles
    NoAgent,        \* SQL NULL in assigned_agent
    Handlers,       \* coordinator messages handled at the same time
    Rows,           \* ids dead_letter_queue can hand out (a bound)
    NoRow,
    EligibleSets,   \* the answers find_eligible_agents may give
    SchemaStatuses, \* what task_queue_status_check admits
    MaxDeclines,    \* collaboration.max_declines_per_task
    MaxRetries,     \* dlq.max_retries
    ClaimRounds,    \* MAX_CLAIM_RETRIES
    Faulty,         \* messages may be lost, statements fail, the coordinator crash
    MaxInFlight,    \* bound: copies of one message in flight
    DeclineCap      \* bound: declines recorded for one task

ASSUME SetsAssumption ==
    /\ NoTask \notin Tasks
    /\ NoAgent \notin Agents
    /\ NoRow \notin Rows
    /\ EligibleSets \subseteq SUBSET Agents
ASSUME NumbersAssumption ==
    /\ MaxDeclines \in Nat \ {0}
    /\ MaxRetries \in Nat \ {0}
    /\ ClaimRounds \in Nat \ {0}
    /\ MaxInFlight \in Nat \ {0}
    /\ DeclineCap \in Nat
ASSUME FaultyAssumption == Faulty \in BOOLEAN

VARIABLES
    task,      \* task_queue, by id
    dlq,       \* dead_letter_queue, by id
    nats,      \* copies of each message in flight
    handler,   \* locals of the message handlers that are running
    retryLoop, \* locals of check_dlq_retries
    console    \* locals of one retry_dlq_task call

vars == <<task, dlq, nats, handler, retryLoop, console>>

-----------------------------------------------------------------------------
(* Rows, messages and the locals of the processes.                         *)

\* The statuses some statement writes or tests for.  No statement of the
\* repository writes 'in_progress'; the guards still name it.
Statuses == {"absent", "pending", "claimed", "in_progress", "completed",
             "failed", "context_requested"}
Held == {"claimed", "in_progress"}

\* by: who wrote 'failed' last (history, read by no action).
TaskRows == [status   : Statuses,
             agent    : Agents \cup {NoAgent},
             declined : SUBSET Agents,
             declines : Nat,
             by       : {"nobody", "deadletter", "agent", "operator"}]

DlqRows == [task     : Tasks \cup {NoTask},  \* NoTask: not inserted yet
            count    : Nat,                  \* retry_count
            resolved : BOOLEAN]
NoEntry == [task |-> NoTask, count |-> 0, resolved |-> FALSE]

Available(t)         == [kind |-> "task_available", task |-> t, agent |-> NoAgent]
Declined(t, a)       == [kind |-> "task_declined", task |-> t, agent |-> a]
ContextRequest(t, a) == [kind |-> "task_context_request", task |-> t, agent |-> a]

Messages == [kind : {"task_available"}, task : Tasks, agent : {NoAgent}]
       \cup [kind : {"task_declined", "task_context_request"},
             task : Tasks, agent : Agents]

IdleHandler == [pc |-> "idle", task |-> NoTask, seen |-> {}, cands |-> {},
                round |-> 0]
HandlerStates == [pc    : {"idle", "query", "claim", "mark", "insert"},
                  task  : Tasks \cup {NoTask},
                  seen  : SUBSET Agents,    \* TaskRow.declined_agents
                  cands : SUBSET Agents,    \* candidates not yet tried
                  round : 0..ClaimRounds]

IdleLoop == [pc |-> "idle", batch |-> {}, row |-> NoRow]
LoopStates == [pc : {"idle", "scan", "bump", "skip"}, batch : SUBSET Rows,
               row : Rows \cup {NoRow}]

IdleConsole == [pc |-> "idle", row |-> NoRow]
ConsoleStates == [pc : {"idle", "reset", "resolve"}, row : Rows \cup {NoRow}]

Init ==
    /\ task = [t \in Tasks |-> [status |-> "absent", agent |-> NoAgent,
                                declined |-> {}, declines |-> 0,
                                by |-> "nobody"]]
    /\ dlq = [r \in Rows |-> NoEntry]
    /\ nats = [m \in Messages |-> 0]
    /\ handler = [h \in Handlers |-> IdleHandler]
    /\ retryLoop = IdleLoop
    /\ console = IdleConsole

CanPublish(m) == nats[m] < MaxInFlight
Publish(m) == /\ CanPublish(m)
              /\ nats' = [nats EXCEPT ![m] = @ + 1]
InFlight(m) == nats[m] > 0
Consumed(m) == [nats EXCEPT ![m] = @ - 1]

-----------------------------------------------------------------------------
(* handle_task_available: fetch, query, claim, or dead-letter.             *)

\* What fetch_task returns for a pending row: declined_agents is read here,
\* once for the whole handler.
Fetched(t) == [pc |-> "query", task |-> t, seen |-> task[t].declined,
               cands |-> {}, round |-> 0]

\* try_claim_task, and the same UPDATE in tool_claim_task.
Claimed(t, a) == [task EXCEPT ![t].status = "claimed", ![t].agent = a]

\* Only a pending row is routed; the message of any other is dropped.
RouteFetch(h, t) ==
    /\ handler[h].pc = "idle"
    /\ InFlight(Available(t))
    /\ nats' = Consumed(Available(t))
    /\ IF task[t].status = "pending"
         THEN handler' = [handler EXCEPT ![h] = Fetched(t)]
         ELSE UNCHANGED handler
    /\ UNCHANGED <<task, dlq, retryLoop, console>>

\* find_eligible_agents, minus the agents that had declined at fetch time.
RouteQuery(h) ==
    /\ handler[h].pc = "query"
    /\ \E E \in EligibleSets :
         handler' = [handler EXCEPT
            ![h].cands = E \ handler[h].seen,
            ![h].pc = IF E \subseteq handler[h].seen THEN "mark" ELSE "claim"]
    /\ UNCHANGED <<task, dlq, nats, retryLoop, console>>

\* Mutant: the claim's UPDATE forgets AND status = 'pending'.
RouteClaimUnguarded(h, a) ==
    LET t == handler[h].task IN
    /\ handler[h].pc = "claim"
    /\ a \in handler[h].cands
    /\ task' = Claimed(t, a)
    /\ handler' = [handler EXCEPT ![h] = IdleHandler]
    /\ UNCHANGED <<dlq, nats, retryLoop, console>>

\* try_claim_task succeeds for a candidate; the handler dispatches and ends.
RouteClaim(h, a) ==
    LET t == handler[h].task IN
    /\ handler[h].pc = "claim"
    /\ a \in handler[h].cands
    /\ task[t].status = "pending"
    /\ task' = Claimed(t, a)
    /\ handler' = [handler EXCEPT ![h] = IdleHandler]
    /\ UNCHANGED <<dlq, nats, retryLoop, console>>

\* The row was not pending: next candidate; after the last one back off and
\* query again; after the last round dead-letter.
RouteContention(h, a) ==
    LET left == handler[h].cands \ {a}
        next == handler[h].round + 1 IN
    /\ handler[h].pc = "claim"
    /\ a \in handler[h].cands
    /\ task[handler[h].task].status # "pending"
    /\ handler' = [handler EXCEPT
         ![h].cands = left,
         ![h].round = IF left = {} THEN next ELSE @,
         ![h].pc    = IF left # {} THEN "claim"
                      ELSE IF next = ClaimRounds THEN "mark" ELSE "query"]
    /\ UNCHANGED <<task, dlq, nats, retryLoop, console>>

\* publish_dead_letter, first statement: fail the row if it is still pending.
DeadLetterMark(h) ==
    LET t == handler[h].task IN
    /\ handler[h].pc = "mark"
    /\ task' = IF task[t].status = "pending"
                 THEN [task EXCEPT ![t].status = "failed",
                                   ![t].by = "deadletter"]
                 ELSE task
    /\ handler' = [handler EXCEPT ![h].pc = "insert"]
    /\ UNCHANGED <<dlq, nats, retryLoop, console>>

\* publish_dead_letter, second statement: a new entry, whatever the first did.
DeadLetterInsert(h) ==
    /\ handler[h].pc = "insert"
    /\ \E r \in Rows :
         /\ dlq[r].task = NoTask
         /\ dlq' = [dlq EXCEPT ![r] = [task |-> handler[h].task, count |-> 0,
                                       resolved |-> FALSE]]
    /\ handler' = [handler EXCEPT ![h] = IdleHandler]
    /\ UNCHANGED <<task, nats, retryLoop, console>>

-----------------------------------------------------------------------------
(* handle_task_declined and handle_task_context_request.                   *)

\* The row is released whoever holds it now; the last decline dead-letters.
HandleDeclined(h, t, a) ==
    /\ handler[h].pc = "idle"
    /\ InFlight(Declined(t, a))
    /\ task[t].status \in Held
    /\ task[t].declines < DeclineCap
    /\ task' = [task EXCEPT ![t].status = "pending", ![t].agent = NoAgent,
                            ![t].declined = @ \cup {a},
                            ![t].declines = @ + 1]
    /\ IF task[t].declines + 1 >= MaxDeclines
         THEN /\ handler' = [handler EXCEPT ![h].pc = "mark", ![h].task = t]
              /\ nats' = Consumed(Declined(t, a))
         ELSE /\ CanPublish(Available(t))
              /\ nats' = [Consumed(Declined(t, a)) EXCEPT ![Available(t)] = @ + 1]
              /\ UNCHANGED handler
    /\ UNCHANGED <<dlq, retryLoop, console>>

\* The row is not held any more: the message is dropped with a warning.
IgnoreDeclined(t, a) ==
    /\ InFlight(Declined(t, a))
    /\ task[t].status \notin Held
    /\ nats' = Consumed(Declined(t, a))
    /\ UNCHANGED <<task, dlq, handler, retryLoop, console>>

\* The UPDATE writes 'context_requested'; a status the CHECK constraint of
\* the table rejects makes it fail, and the handler ends with the error.
HandleContextRequest(t, a) ==
    /\ InFlight(ContextRequest(t, a))
    /\ nats' = Consumed(ContextRequest(t, a))
    /\ task' = IF /\ task[t].status \in Held
                  /\ "context_requested" \in SchemaStatuses
                 THEN [task EXCEPT ![t].status = "context_requested"]
                 ELSE task
    /\ UNCHANGED <<dlq, handler, retryLoop, console>>

-----------------------------------------------------------------------------
(* task_timeout_loop.                                                      *)

\* Mutant: the timed-out row is not published again.
TimeoutClaimSilent(t) ==
    /\ task[t].status \in Held
    /\ task' = [task EXCEPT ![t].status = "pending", ![t].agent = NoAgent]
    /\ UNCHANGED <<dlq, nats, handler, retryLoop, console>>

\* Mutant: only rows in progress time out.
TimeoutClaimInProgressOnly(t) ==
    /\ task[t].status = "in_progress"
    /\ Publish(Available(t))
    /\ task' = [task EXCEPT ![t].status = "pending", ![t].agent = NoAgent]
    /\ UNCHANGED <<dlq, handler, retryLoop, console>>

\* claimed_at is old enough, which may be the case of any claimed row.
TimeoutClaim(t) ==
    /\ task[t].status \in Held
    /\ Publish(Available(t))
    /\ task' = [task EXCEPT ![t].status = "pending", ![t].agent = NoAgent]
    /\ UNCHANGED <<dlq, handler, retryLoop, console>>

\* Mutant: the row is reset but not published again.
TimeoutContextRequestSilent(t) ==
    /\ task[t].status = "context_requested"
    /\ task' = [task EXCEPT ![t].status = "pending"]
    /\ UNCHANGED <<dlq, nats, handler, retryLoop, console>>

\* assigned_agent is left as it is.
TimeoutContextRequest(t) ==
    /\ task[t].status = "context_requested"
    /\ Publish(Available(t))
    /\ task' = [task EXCEPT ![t].status = "pending"]
    /\ UNCHANGED <<dlq, handler, retryLoop, console>>

-----------------------------------------------------------------------------
(* check_dlq_retries.                                                      *)

\* Mutant: the last attempt is never made.
RetryableOneLess(r) == /\ dlq[r].task # NoTask
                       /\ ~dlq[r].resolved
                       /\ dlq[r].count + 1 < MaxRetries

Retryable(r) == /\ dlq[r].task # NoTask
                /\ ~dlq[r].resolved
                /\ dlq[r].count < MaxRetries

\* The SELECT: some of the retryable entries are due (at most ten are taken).
DlqSelect(batch) ==
    /\ retryLoop.pc = "idle"
    /\ batch # {}
    /\ \A r \in batch : Retryable(r)
    /\ retryLoop' = [pc |-> "scan", batch |-> batch, row |-> NoRow]
    /\ UNCHANGED <<task, dlq, nats, handler, console>>

\* Mutant: the reset forgets AND status = 'failed'.
DlqResetUnguarded(r) ==
    /\ retryLoop.pc = "scan"
    /\ r \in retryLoop.batch
    /\ task' = [task EXCEPT ![dlq[r].task].status = "pending"]
    /\ retryLoop' = [pc |-> "bump", batch |-> retryLoop.batch \ {r}, row |-> r]
    /\ UNCHANGED <<dlq, nats, handler, console>>

\* Reset the task of one entry if it is still failed, else give the entry up.
DlqReset(r) ==
    LET t == dlq[r].task IN
    /\ retryLoop.pc = "scan"
    /\ r \in retryLoop.batch
    /\ task' = IF task[t].status = "failed"
                 THEN [task EXCEPT ![t].status = "pending", ![t].by = "nobody"]
                 ELSE task
    /\ retryLoop' = [pc |-> IF task[t].status = "failed" THEN "bump" ELSE "skip",
                     batch |-> retryLoop.batch \ {r}, row |-> r]
    /\ UNCHANGED <<dlq, nats, handler, console>>

LoopGoesOn == [pc |-> IF retryLoop.batch = {} THEN "idle" ELSE "scan",
               batch |-> retryLoop.batch, row |-> NoRow]

\* Count the retry on the entry and publish.
DlqBump ==
    LET r == retryLoop.row IN
    /\ retryLoop.pc = "bump"
    /\ dlq' = [dlq EXCEPT ![r].count = @ + 1]
    /\ Publish(Available(dlq[r].task))
    /\ retryLoop' = LoopGoesOn
    /\ UNCHANGED <<task, handler, console>>

\* Mutant: the skip resolves by task_id instead of by id.
DlqSkipByTask ==
    /\ retryLoop.pc = "skip"
    /\ dlq' = [r \in Rows |-> IF dlq[r].task = dlq[retryLoop.row].task
                               THEN [dlq[r] EXCEPT !.resolved = TRUE] ELSE dlq[r]]
    /\ retryLoop' = LoopGoesOn
    /\ UNCHANGED <<task, nats, handler, console>>

\* resolved_by = 'auto-skip'.
DlqSkip ==
    /\ retryLoop.pc = "skip"
    /\ dlq' = [dlq EXCEPT ![retryLoop.row].resolved = TRUE]
    /\ retryLoop' = LoopGoesOn
    /\ UNCHANGED <<task, nats, handler, console>>

-----------------------------------------------------------------------------
(* retry_dlq_task, the operator's manual retry: read the entry, reset the  *)
(* task whatever its status, resolve the entry and publish.                *)

ManualSelect(r) ==
    /\ console.pc = "idle"
    /\ dlq[r].task # NoTask
    /\ ~dlq[r].resolved
    /\ console' = [pc |-> "reset", row |-> r]
    /\ UNCHANGED <<task, dlq, nats, handler, retryLoop>>

ManualReset ==
    /\ console.pc = "reset"
    /\ task' = [task EXCEPT ![dlq[console.row].task].status = "pending",
                            ![dlq[console.row].task].by = "nobody"]
    /\ console' = [console EXCEPT !.pc = "resolve"]
    /\ UNCHANGED <<dlq, nats, handler, retryLoop>>

ManualResolve ==
    /\ console.pc = "resolve"
    /\ dlq' = [dlq EXCEPT ![console.row].resolved = TRUE]
    /\ Publish(Available(dlq[console.row].task))
    /\ console' = IdleConsole
    /\ UNCHANGED <<task, handler, retryLoop>>

\* purge_dlq deletes resolved entries.  The code never reuses an id; the model
\* does, once no process refers to it.
PurgeDlq(r) ==
    /\ dlq[r].resolved
    /\ r \notin retryLoop.batch \cup {retryLoop.row, console.row}
    /\ dlq' = [dlq EXCEPT ![r] = NoEntry]
    /\ UNCHANGED <<task, nats, handler, retryLoop, console>>

-----------------------------------------------------------------------------
(* Tools an agent calls through beads-bridge, and the operator's cancel.   *)

CreateTask(t) ==
    /\ task[t].status = "absent"
    /\ Publish(Available(t))
    /\ task' = [task EXCEPT ![t].status = "pending"]
    /\ UNCHANGED <<dlq, handler, retryLoop, console>>

\* By id, or the next one by priority: any pending row, declined or not.
ClaimTask(t, a) ==
    /\ task[t].status = "pending"
    /\ task' = Claimed(t, a)
    /\ UNCHANGED <<dlq, nats, handler, retryLoop, console>>

HeldBy(t, a) == task[t].status \in Held /\ task[t].agent = a

\* Mutant: the UPDATE looks at the assignee and not at the status.
CompleteTaskLate(t, a) ==
    /\ task[t].agent = a
    /\ task' = [task EXCEPT ![t].status = "completed"]
    /\ UNCHANGED <<dlq, nats, handler, retryLoop, console>>

CompleteTask(t, a) ==
    /\ HeldBy(t, a)
    /\ task' = [task EXCEPT ![t].status = "completed"]
    /\ UNCHANGED <<dlq, nats, handler, retryLoop, console>>

FailTask(t, a) ==
    /\ HeldBy(t, a)
    /\ task' = [task EXCEPT ![t].status = "failed", ![t].by = "agent"]
    /\ UNCHANGED <<dlq, nats, handler, retryLoop, console>>

\* The check of the assignee is a SELECT; the row changes when the
\* coordinator handles the message.
DeclineTask(t, a) ==
    /\ HeldBy(t, a)
    /\ Publish(Declined(t, a))
    /\ UNCHANGED <<task, dlq, handler, retryLoop, console>>

RequestTaskContext(t, a) ==
    /\ HeldBy(t, a)
    /\ Publish(ContextRequest(t, a))
    /\ UNCHANGED <<task, dlq, handler, retryLoop, console>>

\* status-api: pending and claimed only, and nothing is published.
CancelTask(t) ==
    /\ task[t].status \in {"pending", "claimed"}
    /\ task' = [task EXCEPT ![t].status = "failed", ![t].by = "operator"]
    /\ UNCHANGED <<dlq, nats, handler, retryLoop, console>>

-----------------------------------------------------------------------------
(* Faults: core NATS delivers at most once, a restarted coordinator has    *)
(* forgotten every handler and the batch of its retry loop, and any        *)
(* statement may fail.  One that fails before anything was read or written *)
(* leaves a message used up, which is a lost message.                      *)

LoseMessage(m) ==
    /\ Faulty
    /\ InFlight(m)
    /\ nats' = Consumed(m)
    /\ UNCHANGED <<task, dlq, handler, retryLoop, console>>

CoordinatorCrash ==
    /\ Faulty
    /\ handler' = [h \in Handlers |-> IdleHandler]
    /\ retryLoop' = IdleLoop
    /\ UNCHANGED <<task, dlq, nats, console>>

\* The query, a claim, or the dead letter's publish or INSERT fails, and that is
\* the end of the handler; a failed INSERT is logged and no more.
HandlerFails(h) ==
    /\ Faulty
    /\ handler[h].pc # "idle"
    /\ handler' = [handler EXCEPT ![h] = IdleHandler]
    /\ UNCHANGED <<task, dlq, nats, retryLoop, console>>

\* The dead letter's UPDATE fails and the INSERT is made all the same.
MarkFails(h) ==
    /\ Faulty
    /\ handler[h].pc = "mark"
    /\ handler' = [handler EXCEPT ![h].pc = "insert"]
    /\ UNCHANGED <<task, dlq, nats, retryLoop, console>>

\* A reset that fails ends the loop's round; an entry that cannot be counted is
\* published all the same, and one that cannot be resolved is left.
DlqFails ==
    /\ Faulty
    /\ \/ retryLoop.pc = "scan" /\ retryLoop' = IdleLoop /\ UNCHANGED nats
       \/ retryLoop.pc = "skip" /\ retryLoop' = LoopGoesOn /\ UNCHANGED nats
       \/ /\ retryLoop.pc = "bump"
          /\ Publish(Available(dlq[retryLoop.row].task))
          /\ retryLoop' = LoopGoesOn
    /\ UNCHANGED <<task, dlq, handler, console>>

\* The tool ends with the error of its statement, or its bridge crashes.
ManualFails ==
    /\ Faulty
    /\ console.pc # "idle"
    /\ console' = IdleConsole
    /\ UNCHANGED <<task, dlq, nats, handler, retryLoop>>

-----------------------------------------------------------------------------

RouterNext(h) ==
    \/ \E t \in Tasks : RouteFetch(h, t)
    \/ RouteQuery(h)
    \/ \E a \in Agents : RouteClaim(h, a)
    \/ \E a \in Agents : RouteContention(h, a)
    \/ DeadLetterMark(h)
    \/ DeadLetterInsert(h)

NegotiationNext ==
    \E t \in Tasks, a \in Agents :
       \/ \E h \in Handlers : HandleDeclined(h, t, a)
       \/ IgnoreDeclined(t, a)
       \/ HandleContextRequest(t, a)

TimeoutNext == \E t \in Tasks : TimeoutClaim(t) \/ TimeoutContextRequest(t)

DlqNext ==
    \/ \E batch \in SUBSET Rows : DlqSelect(batch)
    \/ \E r \in Rows : DlqReset(r)
    \/ DlqBump
    \/ DlqSkip

ConsoleNext ==
    \/ \E r \in Rows : ManualSelect(r)
    \/ ManualReset
    \/ ManualResolve
    \/ \E r \in Rows : PurgeDlq(r)
    \/ \E t \in Tasks : CancelTask(t)

AgentNext ==
    \/ \E t \in Tasks : CreateTask(t)
    \/ \E t \in Tasks, a \in Agents :
         \/ ClaimTask(t, a)
         \/ CompleteTask(t, a)
         \/ FailTask(t, a)
         \/ DeclineTask(t, a)
         \/ RequestTaskContext(t, a)

FaultNext ==
    \/ \E m \in Messages : LoseMessage(m)
    \/ CoordinatorCrash
    \/ \E h \in Handlers : HandlerFails(h) \/ MarkFails(h)
    \/ DlqFails
    \/ ManualFails

Next ==
    \/ \E h \in Handlers : RouterNext(h)
    \/ NegotiationNext
    \/ TimeoutNext
    \/ DlqNext
    \/ ConsoleNext
    \/ AgentNext
    \/ FaultNext

Spec == Init /\ [][Next]_vars

\* tokio runs every spawned handler and both loops, NATS delivers, and a
\* due entry is selected sooner or later; a tool call that started ends.
\* Agents and operators owe no call.
Fairness ==
    /\ \A h \in Handlers : WF_vars(RouterNext(h))
    /\ \A t \in Tasks : SF_vars(\E h \in Handlers : RouteFetch(h, t))
    /\ \A t \in Tasks : WF_vars(TimeoutClaim(t)) /\ WF_vars(TimeoutContextRequest(t))
    /\ WF_vars((\E r \in Rows : DlqReset(r)) \/ DlqBump \/ DlqSkip)
    /\ WF_vars(ManualReset \/ ManualResolve)
    /\ \A r \in Rows : SF_vars(\E batch \in SUBSET Rows : r \in batch /\ DlqSelect(batch))

FairSpec == Spec /\ Fairness

-----------------------------------------------------------------------------
(* Properties.                                                             *)

TypeOK ==
    /\ task \in [Tasks -> TaskRows]
    /\ dlq \in [Rows -> DlqRows]
    /\ nats \in [Messages -> Nat]
    /\ handler \in [Handlers -> HandlerStates]
    /\ retryLoop \in LoopStates
    /\ console \in ConsoleStates

\* Somebody is bound to look at task t again: a task_available message is in
\* flight, a handler is routing or dead-lettering t, or one of the two retry
\* paths has reset t and is about to publish.
Covered(t) ==
    \/ InFlight(Available(t))
    \/ \E h \in Handlers : handler[h].task = t /\ handler[h].pc \in {"query", "claim", "mark"}
    \/ retryLoop.pc = "bump" /\ dlq[retryLoop.row].task = t
    \/ console.pc = "resolve" /\ dlq[console.row].task = t

\* No pending task is forgotten.  The coordinator never scans task_queue for
\* pending rows, so each statement that makes a row pending must lead to a
\* publish, and no handler may consume the last message of a pending row
\* without claiming or failing the row.  Holds while nothing is lost and no
\* statement fails.
PendingIsCovered ==
    ~Faulty => \A t \in Tasks : task[t].status = "pending" => Covered(t)

\* A task that publish_dead_letter failed keeps an entry with attempts left
\* (or is about to get one), however its earlier entries are skipped,
\* exhausted, resolved by hand or purged meanwhile.  Holds while the coordinator
\* does not crash between the two statements and neither fails.
DeadLetteredIsRecoverable ==
    ~Faulty => \A t \in Tasks :
       task[t].status = "failed" /\ task[t].by = "deadletter" =>
          \/ \E h \in Handlers : handler[h].task = t /\ handler[h].pc = "insert"
          \/ \E r \in Rows : dlq[r].task = t /\ Retryable(r)

\* Of all the handlers, loops and tools that act on what they read earlier,
\* only the operator's manual retry takes a task out of 'completed'.  (For a
\* step of a workflow run handle_task_failed does too: see Workflow.)
CompletedIsKept ==
    [][\A t \in Tasks :
         task[t].status = "completed" /\ task'[t].status # "completed" =>
            console.pc = "reset" /\ dlq[console.row].task = t]_vars

\* A task held by an agent is never handed to another one in a step: it is
\* released first, so claim retries of several routers and the agents' own
\* claims never overwrite one another.  Nor does the dead-letter path of a
\* router that lost the race fail the winner's task.
HolderIsKept ==
    [][\A t \in Tasks :
         task[t].status \in Held =>
            /\ task'[t].status \in Held => task'[t].agent = task[t].agent
            /\ task'[t].status = "failed" => task'[t].by # "deadletter"]_vars

\* The row's status as the users of the queue see it.
LifeOf(status) == IF status \in Held THEN "held"
                  ELSE IF status = "context_requested" THEN "paused"
                  ELSE status
Life == INSTANCE TaskLife WITH life <- [t \in Tasks |-> LifeOf(task[t].status)]

\* The queue implements TaskLife: however its parts interleave, a row is
\* claimed only when pending, completed only while its agent holds it, and
\* only a pending or a held one is failed.
ImplementsTaskLife == Life!Spec

\* The model's entry table is full (a bound of the model, not of the code).
RowsFull == \A r \in Rows : dlq[r].task # NoTask

\* Every pending task is claimed or failed in the end.
PendingIsRouted ==
    \A t \in Tasks : task[t].status = "pending" ~> task[t].status # "pending" \/ RowsFull

\* A dead-lettered task is put back in the queue in the end.
DeadLetteredIsRetried ==
    \A t \in Tasks :
       (task[t].status = "failed" /\ task[t].by = "deadletter")
         ~> (task[t].status # "failed" \/ RowsFull)

\* No agent keeps a task for ever: it reports, or the claim times out.
HeldIsReleased ==
    \A t \in Tasks : task[t].status \in Held ~> task[t].status \notin Held \/ RowsFull

-----------------------------------------------------------------------------
(* What the documentation says and the code does not do (each is refuted   *)
(* under a configuration of its own).                                      *)

\* The router excludes the agents that have declined the task.  The list is
\* read once per handler and not again after a backoff.
RouterSkipsDecliners ==
    [][\A t \in Tasks :
         /\ task[t].status = "pending" /\ task'[t].status = "claimed"
         /\ handler' # handler
         => task'[t].agent \notin task[t].declined]_vars

\* An agent declines the task it holds: the bridge checks the assignee, the
\* coordinator acts on the message later and does not.
DeclineIsByHolder ==
    [][\A t \in Tasks :
         task'[t].declines # task[t].declines =>
            task'[t].declined = task[t].declined \cup {task[t].agent}]_vars

\* Failed tasks land in the dead-letter queue.  fail_task writes no entry.
FailedTasksAreDeadLettered ==
    \A t \in Tasks :
       task[t].status = "failed" /\ task[t].by = "agent" =>
          \E r \in Rows : dlq[r].task = t

\* request_task_context pauses the task.  The table's CHECK constraint does
\* not admit the status, so the UPDATE fails and the agent's claim runs on.
ContextRequestPauses ==
    [][\A t \in Tasks, a \in Agents :
         /\ nats'[ContextRequest(t, a)] < nats[ContextRequest(t, a)]
         /\ task[t].status \in Held
         => task'[t].status = "context_requested"]_vars
=============================================================================
