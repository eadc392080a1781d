------------------------------ MODULE Workflow ------------------------------
(***************************************************************************)
(* One workflow run: the coordinator's handlers of workflow_start,         *)
(* task_completed and task_failed chain the steps of a formula as tasks of *)
(* the queue.  What the queue does to a task between two of their messages *)
(* is TaskLife, which TaskQueue implements.                                *)
(*                                                                         *)
(* A handler runs in a tokio task of its own, reads the run once and then  *)
(* writes it statement by statement: its record keeps what it read.        *)
(* current_step, current_task_id and error_handler_task_id are written and *)
(* never read by these handlers, and left out.                             *)
(***************************************************************************)
EXTENDS Integers, FiniteSets, FiniteSetsExt

CONSTANTS
    Tasks,       \* ids of task_queue rows (a bound on the tasks of the run)
    NoTask,
    Handlers,    \* messages handled at the same time
    NSteps,      \* formula.steps.len()
    Group,       \* FormulaStep.group by step, 0 for none
    When,        \* the step whose output FormulaStep.when requires to exist
    NoStep,      \* no condition; SQL NULL in task_queue.step_index
    Retries,     \* FormulaStep.retries by step
    OnFailure,   \* the formula has an on_failure handler
    OnDisk,      \* load_formula finds the formula as a file
    Answers,     \* whether agents send a result when they complete a task
    DlqCounts,   \* retry_counts a dead-letter retry writes, {} if none happens
    Faulty       \* messages may be lost, statements fail, the coordinator crash

Steps == 0..(NSteps - 1)

ASSUME FormulaAssumption ==
    /\ NSteps \in Nat \ {0}
    /\ NoStep \notin Steps
    /\ Group \in [Steps -> Nat]
    /\ When \in [Steps -> Steps \cup {NoStep}]
    /\ Retries \in [Steps -> Nat]
ASSUME SwitchesAssumption ==
    /\ NoTask \notin Tasks
    /\ {OnFailure, OnDisk, Faulty} \subseteq BOOLEAN
    /\ Answers \subseteq BOOLEAN
    /\ DlqCounts \subseteq Nat

VARIABLES
    run,      \* the workflow_runs row
    life,     \* task_queue.status of each task, as TaskLife sees it
    task,     \* the columns of each task the handlers read
    nats,     \* messages in flight, one copy of each (a bound)
    handler,  \* locals of the handlers that are running
    history   \* tasks completed and dropped, failures of each (read by no
              \* guard but DlqRetry's: only dropped tasks have an entry)

vars == <<run, life, task, nats, handler, history>>

Queue == INSTANCE TaskLife

-----------------------------------------------------------------------------
RunRows == [status : {"absent", "pending", "running", "completed", "failed"},
            pending : Int,             \* parallel_pending
            results : SUBSET Steps]    \* keys of step_results
TaskColumns == [step : Steps \cup {NoStep}, retries : Nat]

Start == [kind |-> "workflow_start", task |-> NoTask, data |-> FALSE]
Available(t) == [kind |-> "task_available", task |-> t, data |-> FALSE]
Completed(t, data) == [kind |-> "task_completed", task |-> t, data |-> data]
Failed(t) == [kind |-> "task_failed", task |-> t, data |-> FALSE]
Messages == {Start} \cup {Available(t) : t \in Tasks} \cup {Failed(t) : t \in Tasks}
       \cup {Completed(t, data) : t \in Tasks, data \in BOOLEAN}

IdleHandler == [pc |-> "idle", task |-> NoTask, step |-> 0, results |-> {},
                count |-> 0, todo |-> {}]
HandlerStates ==
    [pc : {"idle", "first", "store", "join", "advance", "fan", "recover", "wake"},
     task : Tasks \cup {NoTask},
     step : Steps,
     results : SUBSET Steps,   \* step_results as read, with this step's output
     count : Nat,              \* retry_count as read
     todo : SUBSET Steps]      \* members of the group still to create

Init ==
    /\ run = [status |-> "absent", pending |-> 0, results |-> {}]
    /\ Queue!Init
    /\ task = [t \in Tasks |-> [step |-> NoStep, retries |-> 0]]
    /\ nats = {}
    /\ handler = [h \in Handlers |-> IdleHandler]
    /\ history = [done |-> {}, dropped |-> {}, failures |-> [t \in Tasks |-> 0]]

Receive(m) == m \in nats
Publish(m) == m \notin nats /\ nats' = nats \cup {m}
Consume(m) == nats' = nats \ {m}

\* The step of a task's row; handle_task_completed reads NULL as 0.
StepOf(t) == IF task[t].step = NoStep THEN 0 ELSE task[t].step

-----------------------------------------------------------------------------
(* The formula.                                                            *)

Grouped(s) == Group[s] # 0

\* The first step after s outside its group; NSteps when there is none.
AdvanceTo(s) ==
    IF ~Grouped(s) THEN s + 1
    ELSE Min({i \in (s + 1)..NSteps : i \in Steps => Group[i] # Group[s]})

\* Mutant: the last member of the group is left out.
MembersShort(s) == s..(AdvanceTo(s) - 2)

\* The contiguous members of the group that starts at s.
Members(s) == s..(AdvanceTo(s) - 1)

\* evaluate_condition, for its form "<output>.exists".
Holds(s, results) == When[s] = NoStep \/ When[s] \in results

\* create_step_task: a new pending row and its task_available message.
Create(t, s) ==
    /\ Queue!Create(t)
    /\ task' = [task EXCEPT ![t] = [step |-> s, retries |-> 0]]
    /\ Publish(Available(t))

-----------------------------------------------------------------------------
(* start_workflow and handle_workflow_start.                               *)

StartWorkflow ==
    /\ run.status = "absent"
    /\ run' = [run EXCEPT !.status = "pending"]
    /\ Publish(Start)
    /\ UNCHANGED <<life, task, handler, history>>

HandleStart(h) ==
    /\ handler[h].pc = "idle"
    /\ Receive(Start) /\ Consume(Start)
    /\ run' = [run EXCEPT !.status = "running"]
    /\ handler' = [handler EXCEPT ![h].pc = "first"]
    /\ UNCHANGED <<life, task, history>>

\* Step 0 alone, whatever its group.
CreateFirst(h) ==
    /\ handler[h].pc = "first"
    /\ \E t \in Tasks : Create(t, 0)
    /\ handler' = [handler EXCEPT ![h] = IdleHandler]
    /\ UNCHANGED <<run, history>>

-----------------------------------------------------------------------------
(* handle_task_completed.                                                  *)

\* Verification, then the reads.  load_formula looks for a file: without one
\* the handler ends with an error.
HandleCompleted(h, t, data) ==
    LET s == StepOf(t) IN
    /\ handler[h].pc = "idle"
    /\ Receive(Completed(t, data)) /\ Consume(Completed(t, data))
    /\ IF OnDisk
         THEN handler' = [handler EXCEPT ![h] =
                [IdleHandler EXCEPT !.pc = "store", !.task = t, !.step = s,
                   !.results = run.results \cup (IF data THEN {s} ELSE {})]]
         ELSE UNCHANGED handler
    /\ UNCHANGED <<run, life, task, history>>

\* Mutant: the row's results are replaced by this step's alone.
StoreResultForgetful(h) ==
    LET s == handler[h].step IN
    /\ handler[h].pc = "store"
    /\ run' = [run EXCEPT !.results = handler[h].results \cap {s},
                          !.pending = IF Grouped(s) THEN @ - 1 ELSE @]
    /\ handler' = [handler EXCEPT ![h].pc = IF Grouped(s) THEN "join" ELSE "advance"]
    /\ UNCHANGED <<life, task, nats, history>>

\* One UPDATE writes the results back whole and, for a member of a group,
\* counts the member down.
StoreResult(h) ==
    LET s == handler[h].step IN
    /\ handler[h].pc = "store"
    /\ run' = [run EXCEPT !.results = handler[h].results,
                          !.pending = IF Grouped(s) THEN @ - 1 ELSE @]
    /\ handler' = [handler EXCEPT ![h].pc = IF Grouped(s) THEN "join" ELSE "advance"]
    /\ UNCHANGED <<life, task, nats, history>>

\* Mutant: the join goes on while one member is still out.
JoinEarly(h) ==
    /\ handler[h].pc = "join"
    /\ handler' = [handler EXCEPT ![h] =
         IF run.pending > 1 THEN IdleHandler ELSE [@ EXCEPT !.pc = "advance"]]
    /\ UNCHANGED <<run, life, task, nats, history>>

\* A SELECT of its own: others may have counted down since.
Join(h) ==
    /\ handler[h].pc = "join"
    /\ handler' = [handler EXCEPT ![h] =
         IF run.pending > 0 THEN IdleHandler ELSE [@ EXCEPT !.pc = "advance"]]
    /\ UNCHANGED <<run, life, task, nats, history>>

\* Set the counter to the size of the group; its tasks come one by one.
AdvanceToGroup(h) ==
    LET next == AdvanceTo(handler[h].step) IN
    /\ handler[h].pc = "advance"
    /\ next < NSteps
    /\ Grouped(next)
    /\ run' = [run EXCEPT !.pending = Cardinality(Members(next))]
    /\ handler' = [handler EXCEPT ![h].pc = "fan", ![h].todo = Members(next)]
    /\ UNCHANGED <<life, task, nats, history>>

FanOn(h, s) ==
    LET left == handler[h].todo \ {s} IN
    handler' = [handler EXCEPT ![h] =
        IF left = {} THEN IdleHandler ELSE [@ EXCEPT !.todo = left]]

FanOutCreate(h) ==
    LET s == Min(handler[h].todo) IN
    /\ handler[h].pc = "fan"
    /\ Holds(s, handler[h].results)
    /\ \E t \in Tasks : Create(t, s)
    /\ FanOn(h, s)
    /\ UNCHANGED <<run, history>>

\* Mutant: a skipped member is not counted down.
FanOutSkipUncounted(h) ==
    LET s == Min(handler[h].todo) IN
    /\ handler[h].pc = "fan"
    /\ ~Holds(s, handler[h].results)
    /\ FanOn(h, s)
    /\ UNCHANGED <<run, life, task, nats, history>>

\* Mutant: a skipped member ends the loop (break for continue).
FanOutSkipBreaks(h) ==
    /\ handler[h].pc = "fan"
    /\ ~Holds(Min(handler[h].todo), handler[h].results)
    /\ run' = [run EXCEPT !.pending = @ - Cardinality(handler[h].todo)]
    /\ handler' = [handler EXCEPT ![h] = IdleHandler]
    /\ UNCHANGED <<life, task, nats, history>>

FanOutSkip(h) ==
    LET s == Min(handler[h].todo) IN
    /\ handler[h].pc = "fan"
    /\ ~Holds(s, handler[h].results)
    /\ run' = [run EXCEPT !.pending = @ - 1]
    /\ FanOn(h, s)
    /\ UNCHANGED <<life, task, nats, history>>

\* A sequential step whose condition is false gives way to the one after it,
\* whose own condition and group are not looked at.
NextStep(h) ==
    LET next == AdvanceTo(handler[h].step) IN
    IF next < NSteps /\ ~Holds(next, handler[h].results) THEN next + 1 ELSE next

AdvanceToStep(h) ==
    LET next == AdvanceTo(handler[h].step) IN
    /\ handler[h].pc = "advance"
    /\ next < NSteps => ~Grouped(next)
    /\ NextStep(h) < NSteps
    /\ \E t \in Tasks : Create(t, NextStep(h))
    /\ handler' = [handler EXCEPT ![h] = IdleHandler]
    /\ UNCHANGED <<run, history>>

CompleteRun(h) ==
    LET next == AdvanceTo(handler[h].step) IN
    /\ handler[h].pc = "advance"
    /\ next < NSteps => ~Grouped(next)
    /\ NextStep(h) >= NSteps
    /\ run' = [run EXCEPT !.status = "completed", !.results = handler[h].results]
    /\ handler' = [handler EXCEPT ![h] = IdleHandler]
    /\ UNCHANGED <<life, task, nats, history>>

-----------------------------------------------------------------------------
(* handle_task_failed.                                                     *)

HandleFailed(h, t) ==
    /\ handler[h].pc = "idle"
    /\ Receive(Failed(t)) /\ Consume(Failed(t))
    /\ IF OnDisk
         THEN handler' = [handler EXCEPT ![h] =
                [IdleHandler EXCEPT !.pc = "recover", !.task = t, !.step = StepOf(t),
                   !.results = run.results, !.count = task[t].retries]]
         ELSE UNCHANGED handler
    /\ UNCHANGED <<run, life, task, history>>

\* Mutant: the run is marked failed before the retries are looked at.
RetryStepFailsRun(h) ==
    LET t == handler[h].task IN
    /\ handler[h].pc = "recover"
    /\ handler[h].count < Retries[handler[h].step]
    /\ life' = [life EXCEPT ![t] = "pending"]
    /\ task' = [task EXCEPT ![t].retries = handler[h].count + 1]
    /\ run' = [run EXCEPT !.status = "failed"]
    /\ handler' = [handler EXCEPT ![h].pc = "wake"]
    /\ UNCHANGED <<nats, history>>

\* The UPDATE resets the row whatever its status is now.
RetryStep(h) ==
    LET t == handler[h].task IN
    /\ handler[h].pc = "recover"
    /\ handler[h].count < Retries[handler[h].step]
    /\ life' = [life EXCEPT ![t] = "pending"]
    /\ task' = [task EXCEPT ![t].retries = handler[h].count + 1]
    /\ handler' = [handler EXCEPT ![h].pc = "wake"]
    /\ UNCHANGED <<run, nats, history>>

\* Mutant: the handler ends when it has slept.
WakeUpSilent(h) ==
    /\ handler[h].pc = "wake"
    /\ handler' = [handler EXCEPT ![h] = IdleHandler]
    /\ UNCHANGED <<run, life, task, nats, history>>

\* After the backoff.
WakeUp(h) ==
    /\ handler[h].pc = "wake"
    /\ Publish(Available(handler[h].task))
    /\ handler' = [handler EXCEPT ![h] = IdleHandler]
    /\ UNCHANGED <<run, life, task, history>>

\* The on_failure step gets a task of the run without a step_index.
CallErrorHandler(h) ==
    /\ handler[h].pc = "recover"
    /\ handler[h].count >= Retries[handler[h].step]
    /\ OnFailure
    /\ \E t \in Tasks : Create(t, NoStep)
    /\ handler' = [handler EXCEPT ![h] = IdleHandler]
    /\ UNCHANGED <<run, history>>

\* Mutant: the run fails while retries are left.
FailRunFirst(h) ==
    /\ handler[h].pc = "recover"
    /\ ~OnFailure
    /\ run' = [run EXCEPT !.status = "failed"]
    /\ handler' = [handler EXCEPT ![h] = IdleHandler]
    /\ UNCHANGED <<life, task, nats, history>>

FailRun(h) ==
    /\ handler[h].pc = "recover"
    /\ handler[h].count >= Retries[handler[h].step]
    /\ ~OnFailure
    /\ run' = [run EXCEPT !.status = "failed"]
    /\ handler' = [handler EXCEPT ![h] = IdleHandler]
    /\ UNCHANGED <<life, task, nats, history>>

-----------------------------------------------------------------------------
(* The queue, as TaskLife lets it act on the run's tasks, and the messages *)
(* its agents' tools publish.  Nothing tells the run of a task that is     *)
(* dead-lettered or cancelled.                                             *)

\* The router: claim a pending row, drop the message of any other.
ClaimStep(t) ==
    /\ Receive(Available(t)) /\ Consume(Available(t))
    /\ IF life[t] = "pending" THEN Queue!Claim(t) ELSE UNCHANGED life
    /\ UNCHANGED <<run, task, handler, history>>

\* claim_task of an agent, which needs no message.
TakeStep(t) ==
    /\ Queue!Claim(t)
    /\ UNCHANGED <<run, task, nats, handler, history>>

ReleaseStep(t) ==
    /\ Queue!Release(t)
    /\ Publish(Available(t))
    /\ UNCHANGED <<run, task, handler, history>>

CompleteStep(t, data) ==
    /\ Queue!Complete(t)
    /\ Publish(Completed(t, data))
    /\ history' = [history EXCEPT !.done = @ \cup {t}]
    /\ UNCHANGED <<run, task, handler>>

FailStep(t) ==
    /\ Queue!Fail(t)
    /\ Publish(Failed(t))
    /\ history' = [history EXCEPT !.failures[t] = Min({@, Retries[StepOf(t)]}) + 1]
    /\ UNCHANGED <<run, task, handler>>

DropStep(t) ==
    /\ Queue!Abandon(t)
    /\ history' = [history EXCEPT !.dropped = @ \cup {t}]
    /\ UNCHANGED <<run, task, nats, handler>>

\* A retry from the dead-letter queue writes the count of its entry over the
\* one of the step.  The loop retries failed tasks, the operator any.
DlqRetry(t) ==
    /\ t \in history.dropped
    /\ Queue!Retry(t) \/ Queue!Override(t)
    /\ \E n \in DlqCounts : task' = [task EXCEPT ![t].retries = n]
    /\ Publish(Available(t))
    /\ UNCHANGED <<run, handler, history>>

LoseMessage(m) ==
    /\ Faulty
    /\ Receive(m) /\ Consume(m)
    /\ UNCHANGED <<run, life, task, handler, history>>

CoordinatorCrash ==
    /\ Faulty
    /\ handler' = [h \in Handlers |-> IdleHandler]
    /\ UNCHANGED <<run, life, task, nats, history>>

\* A statement or a publish fails: the handler ends with the error.
HandlerFails(h) ==
    /\ Faulty
    /\ handler[h].pc # "idle"
    /\ handler' = [handler EXCEPT ![h] = IdleHandler]
    /\ UNCHANGED <<run, life, task, nats, history>>

-----------------------------------------------------------------------------
CompletedNext(h) ==
    \/ \E t \in Tasks, data \in BOOLEAN : HandleCompleted(h, t, data)
    \/ StoreResult(h) \/ Join(h)
    \/ AdvanceToGroup(h) \/ FanOutCreate(h) \/ FanOutSkip(h)
    \/ AdvanceToStep(h) \/ CompleteRun(h)

FailedNext(h) ==
    \/ \E t \in Tasks : HandleFailed(h, t)
    \/ RetryStep(h) \/ WakeUp(h)
    \/ CallErrorHandler(h) \/ FailRun(h)

HandlerNext(h) ==
    HandleStart(h) \/ CreateFirst(h) \/ CompletedNext(h) \/ FailedNext(h)

QueueNext == \E t \in Tasks :
    \/ ClaimStep(t) \/ TakeStep(t) \/ ReleaseStep(t)
    \/ \E data \in Answers : CompleteStep(t, data)
    \/ FailStep(t) \/ DropStep(t) \/ DlqRetry(t)

FaultNext ==
    \/ \E m \in Messages : LoseMessage(m)
    \/ CoordinatorCrash
    \/ \E h \in Handlers : HandlerFails(h)

Next == StartWorkflow \/ (\E h \in Handlers : HandlerNext(h)) \/ QueueNext \/ FaultNext

Spec == Init /\ [][Next]_vars

\* tokio runs every handler and NATS delivers; agents owe nothing.
FairSpec == Spec /\ \A h \in Handlers : WF_vars(HandlerNext(h))

-----------------------------------------------------------------------------
(* Properties.                                                             *)

TypeOK ==
    /\ run \in RunRows
    /\ life \in [Tasks -> Queue!Lives]
    /\ task \in [Tasks -> TaskColumns]
    /\ nats \subseteq Messages
    /\ handler \in [Handlers -> HandlerStates]
    /\ history \in [done : SUBSET Tasks, dropped : SUBSET Tasks,
                    failures : [Tasks -> Nat]]

Created(t, s) == life[t] = "absent" /\ life'[t] = "pending" /\ task'[t].step = s

\* The task of a step is created only when every task of an earlier step,
\* outside its own group, has been completed: the join waits for all the
\* members however their handlers interleave.  With two steps after a group the
\* code does not keep it (two handlers may pass the join), nor with an error
\* handler, whose task counts as step 0's.
StepsInOrder ==
    [][\A t \in Tasks, s \in Steps : Created(t, s) =>
         \A u \in Tasks :
           /\ life[u] # "absent"
           /\ task[u].step \in 0..(s - 1)
           /\ ~(Grouped(s) /\ Group[task[u].step] = Group[s])
           => u \in history.done]_vars

\* A completed run has completed every unconditional step, so no member of a
\* group is left out and no step is jumped over.
NoStepIsMissed ==
    run.status = "completed" =>
       \A s \in Steps : When[s] = NoStep =>
          \E t \in history.done : task[t].step = s

\* A member of a group whose completion has not been counted.
Uncounted(t) ==
    /\ life[t] # "absent"
    /\ task[t].step # NoStep /\ Grouped(task[t].step)
    /\ \/ life[t] # "completed"
       \/ \E data \in BOOLEAN : Completed(t, data) \in nats
       \/ \E h \in Handlers : handler[h].pc = "store" /\ handler[h].task = t

\* parallel_pending is the number of members still to create or to count,
\* whatever the order in which the fan-out, the skips, the completions and
\* the count-downs happen.  With two groups the code does not keep it: two
\* handlers that pass the first join both set the counter.
PendingCountsMembers ==
    ~Faulty /\ DlqCounts = {} =>
       run.pending = Cardinality(UNION {{h} \X handler[h].todo : h \in Handlers})
                     + Cardinality({t \in Tasks : Uncounted(t)})

\* A task of the run that will be heard of again.
Alive(t) ==
    \/ life[t] \in {"held", "paused"}
    \/ life[t] = "pending" /\ Available(t) \in nats

\* A run that has not ended has a task, a message or a handler that carries
\* it on, unless a task of it was dead-lettered or cancelled.  The code does not
\* keep it when the last member of a group is skipped after the others finished.
RunIsNotForgotten ==
    ~Faulty /\ run.status \in {"pending", "running"} =>
       \/ \E t \in Tasks : Alive(t)
       \/ \E m \in nats : m.kind # "task_available"
       \/ \E h \in Handlers : handler[h].pc # "idle"
       \/ \E t \in history.dropped : life[t] = "failed"

\* Of a sequential formula no result once stored is lost, whatever is lost,
\* retried or handled side by side.  With a group the code does not keep it, nor
\* with a dead-letter retry, which may hand a step out twice: the UPDATE writes
\* step_results back whole.
ResultsAreKept == [][run.results \subseteq run'.results]_vars

\* With a group, a result is lost only to a handler of the same step or of a
\* member of its group that read step_results before it was stored: a handler
\* of any other step, however late, has read all that came before its step.
\* With two groups, two steps after one, an error handler or a dead-letter
\* retry the code does not keep it.
OnlyRivalsOverwrite ==
    [][\A s \in run.results \ run'.results : \E h \in Handlers :
         /\ handler[h].pc \in {"store", "advance"}
         /\ s \notin handler[h].results
         /\ \/ handler[h].step = s
            \/ Grouped(s) /\ Group[handler[h].step] = Group[s]]_vars

\* A run that failed never completes.  With a step after a group the code does
\* not keep it: two handlers that pass the join create that step twice, one
\* task of it may fail and the other complete.
FailedRunIsFinal == [][run.status = "failed" => run'.status = "failed"]_vars

\* The run fails, and its error handler gets a task, only when agents have
\* failed some task more often than its step may be retried.
GivesUpAfterRetries ==
    run.status = "failed" \/ (\E t \in Tasks : life[t] # "absent" /\ task[t].step = NoStep) =>
       \E t \in Tasks : history.failures[t] > Retries[StepOf(t)]

Resting == /\ run.status = "running"
           /\ \A t \in Tasks : life[t] \in {"absent", "completed"}

\* When all the tasks of a running run are completed the coordinator creates
\* more or ends the run.
RunMovesOn == Resting ~> ~Resting

-----------------------------------------------------------------------------
(* What the documentation says and the code does not do.                   *)

\* A step is created once: the last member of a group to finish advances the
\* run.  Two that finish together both read the counter at zero.
StepsAreCreatedOnce ==
    \A t, u \in Tasks :
       /\ life[t] # "absent" /\ life[u] # "absent" /\ t # u
       /\ task[t].step # NoStep
       => task[u].step # task[t].step

\* A step whose condition is false is skipped.  The step created in its place
\* is not asked for its own condition.
FalseStepsAreSkipped ==
    [][\A t \in Tasks, s \in Steps \ {0} : Created(t, s) => Holds(s, run.results)]_vars
=============================================================================
