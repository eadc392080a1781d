# Broodlink: specifications, model checking and proofs

Broodlink runs teams of AI agents. Agents call tools of one HTTP service
(beads-bridge); a coordinator routes the tasks they create to other agents,
splits large tasks, chains tasks into workflows and retries what fails. State
lives in Postgres, services talk through NATS, and almost every hard behaviour
comes from the same three facts:

* **every NATS message is handled in a tokio task of its own**, so handlers of
  one row interleave at every `await`, that is, at every SQL statement;
* **no handler uses a transaction**: a handler reads a row, keeps a copy in
  local variables and writes statement by statement, each guarded at most by
  the `WHERE` clause of its own `UPDATE`;
* **NATS is core NATS**: at most once, no redelivery, and the coordinator never
  scans `task_queue` for pending rows. A pending row nobody has a message for
  is forgotten.

Paths below are relative to the repository root; `C` is
`rust/coordinator/src/main.rs`, `B` is `rust/beads-bridge/src/main.rs`, `E` is
`rust/embedding-worker/src/main.rs`, `H` is `rust/heartbeat/src/main.rs`, `R`
is `crates/broodlink-runtime/src/lib.rs`.

## 1. Inventory

| component | state it keeps | operations | what is hard | what makes it correct |
|---|---|---|---|---|
| **Task routing and dead-letter queue** (C, B, dashboard) | `task_queue` rows, `dead_letter_queue` rows, messages in flight, locals of handlers and loops | create, claim, complete, fail, decline, request context, route with five rounds of backoff, time out, dead-letter, automatic and manual retry, purge, cancel | all of them act on one row at the same time; lists read before a loop; lost messages; crash between two statements | no pending task is forgotten; no task is taken from its holder; completion is final; a dead letter can be recovered |
| **Workflow orchestration** (C) | `workflow_runs` row, the step tasks, `step_results`, `parallel_pending` | start, advance, skip by condition, fan out a group, join, retry a step, call `on_failure`, complete, fail | concurrent completions of a group; read-modify-write of `step_results`; a counter decremented and read in two statements; a sleep between a retry and its message | steps in order, none missed, join after all members, the run always moves on |
| **Circuit breaker** (R; used by B and the embedding worker) | three atomics | `is_open`/`check`, `record_success`, `record_failure` | requests interleave at each atomic; late answers | never locks itself; one probe at a time |
| **Task decomposition** (C) | a parent row, its sub-task rows | ask the LLM, insert sub-tasks, mark the parent, count, complete the parent | sub-tasks finish while siblings are being inserted; several counters at once; agents touch the parent | the parent ends exactly when its sub-tasks are done |
| **Delegations** (C, B) | `delegations` row and the task it creates | request, accept, reject, complete | updates that test no status; a delegated task joins the sub-tasks of its parent, and an answer counts them | the parent's bookkeeping survives them |
| **Scheduled tasks** (C, B) | `scheduled_tasks` | schedule, cancel, promote what is due oldest first, recur, stop after `max_runs` | the task is inserted before the run is counted; a round is cut off by any error; dates that were missed | every promotion counted, at most `max_runs` and one per cut, no drift, what is due is promoted |
| **Approval gates** (B, dashboard, heartbeat) | `approval_gates`, status and `approval_id` of the gated task row | request, auto-approve, review by tool or dashboard, expire | gate and task are written in two statements by three parties; a task may get a second gate | decided once; a parked task follows its own gate and is never forgotten |
| **Budgets and rate limits** (B, heartbeat) | `budget_tokens`, `last_seen` and `active` per agent | mark as seen, check, run the tool, deduct, grant, deactivate, replenish | check and deduction around the call; the mark is a task of its own that may come late | debt bounded by the calls in flight; a silent agent is not paid; an exhausted one comes back |
| **Embedding outbox** (E) | `outbox` rows, the batch a worker read | poll, mark, embed, store, set `embedding_ref`, retry, give up | five statements over three stores per row; a batch that is stale when it is worked off; a timeout of a request that was carried out | no row stranded, none given up early, what is done has its vector |
| **Formula registry and sync** (heartbeat, B) | TOML files and `formula_registry` | create, update, two-way sync | file and row edited in between | no edit lost |
| **Chat gateway and Ollama pool** (a2a-gateway) | sessions, reply queue, permits per instance | webhooks, dispatch, deliver replies with retries, health checks | permits under failures; reply delivered twice | permits returned; a reply is delivered |
| **Bootstrap and process manager** (`rust/broodlink`) | stage graph, child processes | order stages, start, restart, stop | cycles; a child that dies during start | dependencies start first |
| **Memory, search, knowledge graph** (B, E, H) | `agent_memory` in Dolt, `memory_search_index`, Qdrant points, entities and edges | store, delete, copy to the index; search, fuse, extract | one call writes three stores without a transaction, beside the heartbeat's copy | undisturbed, the stores agree once the outbox is worked off (ranking and text are not modelled) |
| **Tool API** (B), **heartbeat**, **status-api**, **mcp-server**, **workspace-api**, shared crates, Python SDK, front ends | mostly stateless | see `PROJECT.json` | | |

How they interact. `create_task` inserts a row and publishes `task_available`;
the coordinator claims the row for an agent and dispatches it; the agent's
`complete_task` / `fail_task` updates the row and publishes `task_completed` /
`task_failed`, on which the coordinator advances the workflow run the task
belongs to and completes the parent it is a part of. `decline_task` and
`request_task_context` publish a message only; the coordinator writes the row
when it handles it. Two loops (timeouts, dead letters) and two operator
endpoints (manual retry, cancel) write the same rows.

`PROJECT.json` lists every component and, under "hazards", each place of the
code where these behaviours bite, with the properties that watch it.

## 2. Modules

```
              TaskLife                       what a row of task_queue may do
            /   |    \     \
   implements  use it by INSTANCE
       /        |        \         \
 TaskQueue  Workflow  Decomposition  Approvals    CircuitBreaker  Budget  Schedule  Memory
     |         |           |             |              |            |        |        |
     each with its theorems and proofs in a module of its own: TaskQueueProofs, WorkflowProofs, ...
```

`MC*` modules give the constants of a module small values; each `.cfg` is one
configuration of such a module.

**TaskQueue** is one action per SQL statement of the router
(`RouteFetch`, `RouteQuery`, `RouteClaim`, `RouteContention`, `DeadLetterMark`,
`DeadLetterInsert` are `handle_task_available` with `publish_dead_letter`), per
negotiation handler, per timeout, per statement of the dead-letter loop
(`DlqSelect`, `DlqReset`, `DlqBump`, `DlqSkip`) and of the manual retry
(`ManualSelect`, `ManualReset`, `ManualResolve`), and one per tool call that
is a single statement. A handler's record keeps what it has read (`seen`,
`cands`), and the loop's its `batch`: that is where stale state comes from. An
`UPDATE` and the publish after it are one action; the gap between them shows as
a message in flight, or as a lost one. Scoring is abstracted to the set of
eligible agents `find_eligible_agents` may return; any of them may be tried
next. The rows are tasks of no workflow and are not split. With `Faulty` a
statement may fail as well, each in the way its code treats the error: the router's
query, a claim or the dead letter's publish ends the handler, and so does its
`INSERT`, which is only logged (`HandlerFails`); after a dead letter's failed
`UPDATE` the `INSERT` is made all the same (`MarkFails`); a reset that fails ends
the retry loop's round, an entry that cannot be counted is published uncounted, one
that cannot be resolved is left (`DlqFails`); the manual retry stops where it is
(`ManualFails`). A statement that fails before anything was read or written has used
up its message, which is `LoseMessage`.

**TaskLife** is the abstract specification: six lives of a row and the moves
between them. TaskQueue implements it (checked and proved), and the three modules
above the queue take their steps from it by `INSTANCE`, so that they do not
repeat the router, the loops and the tools. What `handle_task_failed` does to
the step of a run (it resets the row whatever its status is) is in Workflow
itself and not a move of TaskLife, and so is the status 'decomposed' in
Decomposition, and the statuses of an approval in Approvals.

**Workflow** is one run. A formula is data: `Group`, `When` and `Retries` by
step. `handle_task_completed` is five to seven statements: read the run
(`HandleCompleted`), write the results back whole and count the member down
(`StoreResult`), read the counter (`Join`), then fan out a group
(`AdvanceToGroup`, `FanOutCreate`, `FanOutSkip`), create the next step
(`AdvanceToStep`) or end the run (`CompleteRun`). `handle_task_failed` reads
(`HandleFailed`) and then retries (`RetryStep`, `WakeUp` after the sleep),
calls the error handler or fails the run. With `Faulty` messages are lost, a
statement or publish that fails ends its handler (`HandlerFails`), and a crash ends
all of them. A result is reduced to the fact that
the step has one; a condition to the step whose output it asks for.

**Decomposition** is one split: the router inserts sub-tasks one by one and
marks the parent while other handlers count sub-tasks and complete it.
Agents and the operator act on the parent as on any row, and messages and
handlers may be lost; the history `mishaps` records whether either happened, so
that the properties that except it say so, and one instance shows both. A
statement of the split may fail, after which the parent is routed with its
sub-tasks queued (`SplitFails`); a claim, a count or the closing `UPDATE` that fails
ends its handler, and the completion it handled is used up (`HandlerFails`, which
counts as a loss). A delegation adds a sub-task whatever the parent's
state is (`Delegate`) and its answer sets off a count at any time (`HandleAnswer`);
the delegation's own row, which nothing else reads, is left out. A sub-task that
is split again is not modelled.

**CircuitBreaker** has one step per atomic operation, in program order. A
request follows a plan: "call" checks, calls and records; "peek" only asks
`is_open`, as the health endpoints do; "recheck" checks and calls a function
that checks again, as hybrid search does.

**Approvals** is the life of gates and of the tasks they park.
`create_approval_gate` inserts the gate (`CreateGate`) and then parks the task
(`ParkTask`) or, approved by policy, sets it pending (`UnparkTask`);
`resolve_approval` and the dashboard decide (`ResolveGate`) and then release what
names the gate (`RequeueTask`); the heartbeat expires gates (`ExpireGates`) and
then, over a join of both tables, their tasks (`ExpireTasks`). `link` is the
task's `approval_id`, which a second gate overwrites. The rest of the queue acts
on the rows through TaskLife, and `ResetTask` is the manual retry and a step's
retry, which test no status. After a release the tool publishes on
`tasks.task_available`, which nobody subscribes to (the coordinator listens to
`coordinator.task_available`, `C:3276`), and the dashboard publishes nothing: no
message is modelled, so a released task waits for an agent's `claim_task`.

**Budget** is one agent's tokens. A call is admitted, which spawns the `UPDATE`
that marks the agent as seen (`Touch`, at any time later), checked against the
balance, run, and charged in a statement after the tool (`DeductBudget`), or not
when the tool or the deduction fails. The heartbeat's cycle is three statements
(`ActivateRecent`, `DeactivateStale`, `ReplenishBudget`), each of which is only
logged when it fails: a cycle whose deactivation failed (`DeactivateFails`) tops up
all the same, which `beat` remembers as "unchecked". It tops up to the daily amount
in every cycle. `set_budget` is a tool any agent may call, with any integer, a
negative one too (`B:5932`). The history `written` is the amount written last, by
`set_budget` or a top-up, against which the debt is measured.

**Schedule** is the loop over `scheduled_tasks`: `PickDue` reads the oldest due
entries with their `run_count`, then each is inserted (`InsertTask`, which
publishes as well: a failure of that is logged and no more) and counted
(`CountRun`, with the count that was read). An error at any of them aborts the
rest of the round (`CutOff`). A single coordinator is assumed, as it is deployed.

**Memory** is one memory of one agent in all its stores. `store_memory` is three
steps (`StoreMemory` in Dolt, `QueueRow` in the outbox, `IndexMemory` in
Postgres), `delete_memory` three (`DeleteMemory`, `UnindexMemory`,
`WipeVectors`), the heartbeat's copy two (`ReadNewer`, `CopyToIndex`). The worker
reads a batch (`FetchBatch`) whose row locks end with the `SELECT`, and for each
row marks it (`TakeRow`), embeds and stores the vectors (`EmbedRow`), writes
`embedding_ref` (`SetRef`) and marks it done, or counts the failure (`FailRow`).
The content has one vector, several (chunks) or, when it is empty, none: `TakeRow`
marks the row of an empty content done at once (`E:635`), and `EmbedRow` marks a row
of chunks done even if some or all of them failed (`E:719`; `points` is then
"partly"). A content is its version; a vector is known by the row that made it. The history
`mishap` tells a crash from a write that merely failed or requests that
overlapped, and each property says which of them it excepts. The number of
chunks, the entities and the knowledge graph are left out.

## 3. Runs

| run | instance | what it shows |
|---|---|---|
| `task_queue_entries` | 1 task, 1 agent, 2 handlers, 2 dead-letter entries, 2 declines, schema as shipped; 1.1 M states | `PendingIsCovered`: every statement that makes a row pending is followed by a publish and no handler uses up the last message of a pending row without claiming or failing it. `DeadLetteredIsRecoverable`: a task failed by the dead-letter path keeps an entry with attempts left, through skips, exhaustion, manual retry and purges. |
| `task_queue_faults` | 2 agents, 2 handlers, losses, failing statements, crashes, status constraint widened; 1.4 M states | `CompletedIsKept`, `HolderIsKept`, and the refinement `ImplementsTaskLife`. |
| `task_queue_liveness` | 1 handler, 2 entries, fairness; 0.27 M states | `PendingIsRouted`, `DeadLetteredIsRetried`, `HeldIsReleased`. |
| `workflow_errors` | a sequential formula: 3 steps in a row (two, one and one retries, a condition), no `on_failure`; losses, failing statements, crashes, 4 tasks, 2 handlers; 13 k states | `GivesUpAfterRetries`, `ResultsAreKept` (which is about sequential formulas only, section 6), `FailedRunIsFinal`. |
| `workflow_parallel` | a step, a group of two with one conditional member, a last step; 4 tasks, 2 handlers, fairness; 0.45 M states | `PendingCountsMembers`, `NoStepIsMissed`, `RunIsNotForgotten`, `StepsInOrder`, `RunMovesOn`; `OnlyRivalsOverwrite`: a stored result is lost only to a handler of the same group that had read before. |
| `workflow_requeue` | 2 steps with retries, `on_failure`, dead-letter retries in every order, 2 handlers; 0.45 M states | `RunIsNotForgotten` with requeued tasks and error handlers. |
| `breaker_calls` | 3 requests, threshold 2, failures counted to 3, fairness; 32 k states | `ProbeIsOwned`: the probe flag always has an owner that will clear it; `OpenIsTried`: an open breaker is tried again. |
| `decomposition_split` | 3 sub-tasks, 2 handlers, agents and the operator at the parent, delegations, failing statements, losses, crashes, fairness; 0.56 M states | `ParentIsNotForgotten`: without mishap a parent whose sub-tasks are all done has somebody who is going to look; `ParentIsClosed`: and it is then closed; `BookkeepingLeavesAgents`: with any mishap, a stale router or count never overwrites what an agent holds or has ended. |
| `approval_gates` | 2 tasks, 2 gates, 2 calls, the heartbeat, crashes, fairness; 89 k states | `ParkedIsWatched`: a parked task's gate is open or somebody is about to move it; `DecisionIsFinal`; `ParkedObeysItsGate`: an earlier gate of the same task does not release it; `ParkedIsDecided`. |
| `budget_calls` | 2 calls of cost up to 2, 3 a day, grants of -1, 0 and 1, failing statements of the cycle, crashes and a cycle that times out, fairness; 0.13 M states | `OverdraftIsBounded`: below zero or the negative amount written last by no more than a dearest call each; `SilenceIsNotPaid`: a silent agent is topped up only by a cycle whose deactivation failed; `ExhaustionEnds`. |
| `schedule_rounds` | 2 entries, single and recurring, with and without limit, batches of 1, a clock to 2, a cut each, fairness; 0.11 M states | `PromotionsAreCounted`, `NeverTooOften`, `RhythmIsKept`, `DueIsPromoted`. |
| `memory_outbox` | 1 request at a time, 1 worker, 2 attempts, 2 stores (of one vector, of chunks or empty), 2 rows, failures, crashes, fairness; 0.43 M states | `ProcessingIsHeld`, `FailedIsExhausted`, `DoneIsEmbedded`, `SettledIsFinal`, `StoresAgree`: undisturbed, index and vectors have the newest content, unless it is empty, once the outbox is worked off; `PendingIsSettled`. |

The type invariants are theorems (section 4) rather than runs.

Each property of a passing run also has a mutant: the module defines, before
the definition it mutates, the form a plausible mistake would give it
(`TimeoutClaimSilent`, `JoinEarly`, `CloseParentMarkedOnly`, ...), and the
property fails under the same configuration when that form is used.

### Bounds, and why they are enough

* *TaskQueue*: tasks do not share anything but entries and handlers, so one
  task shows the races; two handlers are two routers, or a router and a
  decline; two entries are an exhausted and a fresh one, which is what
  `publish_dead_letter` makes when a task dies twice. `Rows` is a bound of the
  model: the table hands out ids for ever, and a handler that needs an entry
  waits when none is left. `RowsFull` names that state and the liveness
  properties except it. `MaxInFlight` bounds the copies of a message and
  `DeclineCap` the recorded declines; `ClaimRounds` is
  `MAX_CLAIM_RETRIES`, 5 in the code, 1 here (a round does nothing but repeat).
* *Workflow* and *Decomposition*: one copy of each message; `Tasks` and
  `Children` bound the rows that can be created, and a handler that needs
  another one waits. Configurations have as many as the formula's steps, an
  error handler's task and repetitions need.
* *Approvals*: two tasks and two gates are a task with two gates, two tasks
  with one each, and a gate without a task; two calls are two reviewers, or a
  reviewer and a gate in the making. `Gates` bounds how many are asked for.
* *Budget*: two calls that overdraw together; costs, grants (a negative one among
  them) and the daily amount are as small as lets a balance be in debt, short and
  enough. `StaleCycles` is
  the stale limit in cycles. `MaxTimeouts` bounds the cycles that are cut off,
  because when every cycle is cut off nothing is ever replenished.
* *Schedule*: `Horizon` bounds the clock at two ticks, so that an entry of period
  1 has a date that was missed; a batch of 1 makes two due entries wait for each
  other; period 0 is a single run, limit 0 the `max_runs` that still runs once.
* *Memory*: two stores are a content and its successor, two rows the embeddings
  of both (or one and an extraction), in one batch; with one request in flight the
  heartbeat's copy still overlaps it. `MaxAttempts` 2 distinguishes a retry from
  giving up. The proofs lift the instance to any number of each.
* *CircuitBreaker*: `failure_count` stays at `MaxFailures`, above the
  threshold, where only "at least the threshold" matters.
* `CHECK_DEADLOCK FALSE` is set where the system really may stop: an agent may
  never act, a task, run or parent may simply be finished.
* Symmetry over tasks, handlers, agents and callers in the safety runs only;
  never where a liveness property is checked.

### Fairness

tokio runs every spawned handler to its end, NATS delivers (`Faulty` is FALSE in
the liveness runs of TaskQueue and Workflow; in Decomposition `ParentIsClosed` excepts a loss), both loops tick for ever, a due dead-letter entry is
selected sooner or later, and a tool call that has begun ends. Strong fairness is
asked where a handler must be free to receive: a new handler is spawned for every
message, so a message does not wait because others keep the model's few handlers
busy. In CircuitBreaker requests keep coming, each call ends (clients have
timeouts) and time passes; nothing makes a call succeed. In Approvals, Budget,
Schedule and Memory a call that has begun ends and the heartbeat, the
coordinator's loop and the worker go on; strong fairness is asked for a
statement that an error or a crash may pre-empt, but not for ever: the `UPDATE`
of `last_seen`, the top-up of an active agent, and the insert of a scheduled task
(so `DueIsPromoted` says nothing of an oldest entry whose insert always fails). Ollama and Qdrant owe nothing.
In Budget the agent keeps asking, which is the hypothesis of `ExhaustionEnds`.
Otherwise agents, reviewers and operators owe nothing.

### Status constraint as shipped and widened

`task_queue_status_check` (`migrations/004_approval_gates.sql:88`) does not admit
'context_requested' and 'decomposed', which the coordinator writes; no later
migration widens it. `SchemaStatuses` is that constraint. Configurations with the
shipped one show what happens today, those with the widened one what happens in
the code that is there, once the statuses are admitted.

## 4. Proofs

Every theorem holds for any number of tasks, agents, handlers, entries and
requests, and those of Workflow for any formula that meets the hypotheses they
name, under the named assumptions of the modules (ids distinct from the
"none" values, limits positive). TLC evaluates those assumptions in every run.

**TaskQueueProofs.** `TypeCorrect` and `NoPendingTaskIsForgotten`. The inductive
invariant is `TypeOK`, `LocalsOK` and `PendingIsCovered`. `PendingIsCovered` is
not inductive by itself: a handler between two statements must have a task and
a round left to try, and the entry that the retry loop or the manual retry is
working on must be a real entry of a task, so that the publish it is about to
make exists; that is what `LocalsOK` says. The proof has a step per
action; the interesting ones are those that consume a `task_available` (the
handler takes over the cover) and those that make a row pending (they publish, or
their own program counter is the cover).

`DeadLettersAreRecoverable` needs more than an entry with attempts left: the
retry loop or the manual retry may be about to count, skip or resolve just that
one. `SafeEntry` asks for an entry that neither of them has in hand. That is
inductive because both reset the task of the entry they take, or have found it
not failed, before they write to the entry; so an entry in their hands never
belongs to a task that has stayed dead-lettered since, and only the first
statement of `publish_dead_letter` makes a task dead-lettered
(`OnlyMarkDeadLetters`), with an entry of its own to follow.

`QueueImplementsTaskLife` is in the same module: initial states map to initial
states and each step to a move of `TaskLife` or a stutter, with
`LInv` (types of the locals, and that what a handler, message or entry names is a
row that exists). `CompletionIsKept` and `HolderKept` follow the same
step analysis: the guard in the `WHERE` clause of each `UPDATE` is what carries
them, and the proof names the one action without such a guard, the manual retry.
The refinement holds with losses, crashes and failing statements.

**WorkflowProofs.** One lemma per action first says what a step does to row, tasks,
messages and handlers (`StoreResultDoes`, ...); every invariant is then proved
from those, action by action, without opening the actions again. In layers, each
on top of the one before:

* `Base`: the types; a handler between two statements has a task, and fans out as
  long as it has members left; what a message, a handler or the history names is a
  row that exists; a run is started once and has no task before. It holds with
  losses, crashes and dead-letter retries: `TypeCorrect`. The interesting part is
  that no handler ever creates a step beyond the last one.
* `Ledger` (hypothesis `NoDlq`: no dead-letter retry touches the run, as its count
  would land in the step's, section 6): each completion is in one message or with
  one handler and each failure too, and a row's `retry_count` counts the failures.
  `RunGivesUpAfterRetries` follows, with losses and crashes.
* `Single` (no groups): one task goes at a time, so no handler's copy of
  `step_results` is older than the row: `SequentialResultsAreKept`.
* `Chain` (hypothesis `Shape`: `NoDlq`, no error handler, and at most one group, of
  any size, which does not begin the formula and is not preceded by a conditional
  step). Before the group one task is open at a time (`EarlyAlone`), so one handler
  fans out (`FanOK`). The counter is the cardinality of two sets, the members
  still in a handler's loop and the tasks whose completion has not been stored; with a
  loss or a crash it is at least that, and strictly more while an unconditional
  member has no task and nobody is going to make one (`PendingOK`). So the
  counter at zero means that the group is over, which is why what comes after it
  may begin (`LateOK`), and everything before a task is done (`OrderOK`).
  `PendingIsExact` (undisturbed runs), `CompletedRunMissesNoStep` and, with at
  most one step after the group, `StepsFollowInOrder` (with losses, failing
  statements and crashes) follow.
* `FailedOK`: a failed run has a task that failed and that nobody takes up again, and
  such a task keeps the counter above zero or, before the group, everything from
  happening: `FailedRunStaysFailed`, for formulas that end with their group or
  have none.
* `Remembered`: what carries a run on. Without groups nothing else is needed:
  `SequentialRunIsNotForgotten`, with dead-letter retries and error handlers. With a group a
  handler may end at the join because the counter is above zero, and then
  `PendingOK` supplies the member still to create or to count, and `Watched` that
  its task is pending with a message, held, or failed with a handler of its
  failure. That the loop never ends with a skip needs that the last member has no
  condition (`LastIsSure`): `GroupedRunIsNotForgotten`.

Each hypothesis is one the code needs: the formulas it excludes have a
counterexample, in section 6.

**CircuitBreakerProofs.** `BreakerTypeCorrect`, and `FlagHasAnOwner`: when all
requests are of plan "call", the probe flag set implies a request that is between
the compare-exchange and its own clearing of the flag. The assumption on `Plans`
is exactly what the counterexamples of section 6 break.

**DecompositionProofs.** `SplitTypeCorrect`, `AgentsKeepTheParent` and
`ParentRemembered`, for any number of sub-tasks and handlers and any status
constraint. `ParentIsNotForgotten` is not inductive: two routers could each
believe they split the parent. `OneRouter` adds that, as long as nothing is lost
and no agent interferes, the parent has at most one router and its message or
router exists only while it is pending or completed; the handlers' locals supply
that a router that inserts has a sub-task left to insert.

**ApprovalsProofs.** `DecisionsFinal`, `ParkedObeys` and `ParkedWatched`, for any
number of tasks, gates and calls. The strengthening of `ParkedIsWatched` (`WatchInv`)
adds what the calls hold between their two statements: a call that is about to
park a task has a gate that is still undecided, and a call that is about to
release has an approved one. That ties the row's `approval_id` to the gate's
status, which are written apart.

**BudgetProofs.** `OverdraftBounded` for any finite set of calls and any integer
grants and daily amount: the running calls may all have seen the same tokens, so
the invariant is that the balance is at least a base minus the dearest cost for
every call that has *nothing left to charge*; a call that charges joins those. The
base is zero, or the amount written last when that is negative. It is a fact about
cardinalities. `SilenceUnpaid` needs that a cycle that replenishes has just
deactivated, and excepts the cycle whose deactivation failed, in which the code
pays a silent agent.

**ScheduleProofs.** `PromotionsCounted`, `PromotedWithinLimit` and `RhythmKept`, for
any entries, periods, limits and batch sizes. They rest on the count in a round's
hands being the entry's own count: a round takes an entry once, and nobody else
writes it.

**MemoryProofs.** `MemoryTypeCorrect`, `HeldWhileProcessing`, `GivenUpExhausted`,
`EmbeddedWhenDone` for any number of workers fetching the same rows, and
`SettledForOneWorker` under the assumption that there is one. The strengthening
is that no attempt counter, in a row or in a worker's stale copy, runs ahead of
the failures (`CountedOK`), that rows read exist (`KnownOK`) and that a worker past
the embedding has stored its vector, or tried its chunks (`StoredOK`; empty content
passes it by); for one worker, that what it
has left is as it read it (`AsRead`). Requests and heartbeat enter through one
lemma: they append rows and take vectors away, nothing else (`Outside`).

`StoresAgreeAtRest` follows one content through three stores, for any number of
requests and workers. Its invariant, `AgreeOK`, says for a history without a failed write
or an overlap (`mishap` is "none") that one request or copy at a time is under way
and works on the memory as it is (`UpToDate`), that the newest content has a row in
the outbox once its request is past that statement (`NewestIsQueued`), and that
such a row has its vector as soon as a worker is past the embedding
(`NewestIsThere`), but for empty content. The wipe of `delete_memory` does not break the last one, because
the memory is gone by then and one that is stored again has a version no row has yet
(`VersionsOK`); nor do several workers that fetch the same row.

Out of the prover's reach, and left to TLC: liveness and ENABLED. Every invariant
and action property of a passing run is stated by a theorem, but
`OnlyRivalsOverwrite`; for Workflow under the hypotheses named above.

## 5. What is only model-checked, and what is not modelled

All liveness properties
(`RunMovesOn`, `PendingIsRouted`, `DeadLetteredIsRetried`, `HeldIsReleased`, `OpenIsTried`,
`ParentIsClosed`, `ParkedIsDecided`, `ExhaustionEnds`, `DueIsPromoted`,
`PendingIsSettled`) and `OnlyRivalsOverwrite` are checked on the instances above
only. `RunIsNotForgotten`
with a group and dead-letter retries together is neither proved nor checked.

Not modelled: the formula registry and its sync, the Ollama pool and the delivery of
replies, the bootstrap, and the components that keep no state or only format and
rank; `PROJECT.json` gives the reason for each. Within the modelled ones, the scores that order candidates, the
verification of an output by the LLM before a completion is handled (it writes
nothing a handler reads), prompts, audit rows, metrics and traces, and the
columns `current_step`, `current_task_id`, `error_handler_task_id` and
`timeout_at`, which are written and never read. In particular a workflow step's
timeout is stored (`C:1131`) and no statement ever acts on it, so there is no
behaviour to model. The budget's ledger is written and never read back into a
balance. The search watermark is the newest `updated_at` of all memories and the
model has one memory; the knowledge graph's watermark is a maximum of ids, and what
it skips is not modelled.

## 6. Where code and documentation disagree

Each of these configurations, beside the modules, checks one property that a
reader of the documentation, the comments or the names would expect and that TLC
refutes:

| configuration | property | what the code does |
|---|---|---|
| `TaskQueueDecliners` | `RouterSkipsDecliners` | the declined agents are read once and not again after a backoff (`C:2610`) |
| `TaskQueueStaleDecline` | `DeclineIsByHolder` | a decline handled late releases the next holder's claim (`C:2886`) |
| `TaskQueueContextPause` | `ContextRequestPauses` | 'context_requested' is rejected by the constraint (`C:2973`) |
| `TaskQueueFailTask` | `FailedTasksAreDeadLettered` | `fail_task` writes no dead-letter entry (`B:4799`) |
| `WorkflowLostResult` | `ResultsAreKept` | two members of a group that finish together each write back the `step_results` they read (`C:1378`) |
| `WorkflowCustomFormula` | `RunIsNotForgotten` | completions load the formula from a file only (`C:1325`) |
| `WorkflowDoubleAdvance` | `StepsAreCreatedOnce` | the last two members both read the counter at 0 (`C:1387`) |
| `WorkflowSkip` | `FalseStepsAreSkipped` | the step after a skipped one is not asked for its condition (`C:1495`) |
| `WorkflowSkippedGroup` | `RunIsNotForgotten` | a group with all members skipped stops the run (`C:1466`) |
| `WorkflowGroupFirst` | `NoStepIsMissed` | a group at the head of a formula: only its first member is created (`C:1048`) |
| `WorkflowSharedCount` | `GivesUpAfterRetries` | dead-letter retries and step retries share `retry_count` (`C:3417`) |
| `WorkflowResume` | `StepsInOrder` | the `on_failure` task's completion is taken for step 0's (`C:1292`) |
| `BreakerHealth` | `OpenIsTried` | a health check calls `is_open()`, becomes the probe and never records (`B:1507`): every request is rejected until a restart |
| `BreakerRecheck` | `OpenIsTried` | hybrid search checks twice and rejects its own probe (`B:2901`) |
| `BreakerOneProbe` | `OneProbe` | a late answer clears the flag of the probe in flight (`R:99`) |
| `DecompositionRouted` | `SplitIsNotRouted` | the shipped constraint rejects 'decomposed', so a task whose sub-tasks are queued is routed as well (`C:2374`) |
| `DecompositionEarly` | `ParentWaitsForAll` | sub-tasks done before their siblings are inserted complete the parent (`C:3233`) |
| `DecompositionStranded` | `ParentIsNeverForgotten` | a parent an agent held meanwhile is marked after the last count (`C:2374`) |
| `MemoryStaleRef` | `RefIsNewest` | the retry of an older content comes after the newer one and overwrites `embedding_ref` (`E:1371`) |
| `MemoryOrphan` | `DeletedIsGone` | vectors of chunks, and of rows still in the outbox, survive the deletion of their memory (`B:2256`) |
| `MemoryTwoWorkers` | `SettledIsFinal` | two workers read the same batch, and one reopens what the other settled (`E:409`) |

Beyond these, each hypothesis of a Workflow theorem excludes formulas for which TLC
refutes the property, found on the instances of MCWorkflow with another formula:
`RunIsNotForgotten` when the last member of a group is skipped after the others have
finished (nobody looks at the join again, `C:1466`; group of two, `When` on the
second); `StepsInOrder` and, with five tasks, `FailedRunIsFinal` when something follows the
group (the two handlers that pass the join both create it, one copy of the step
fails or lags, `C:1387`); `PendingCountsMembers` with two groups (both set the
counter and fan out); `NoStepIsMissed` when a condition on the step before the
group gives way to its first member, which then runs alone (`C:1495`).

Noted while reading, without a property: `task_completed` is published for a parent
whether or not its row was completed (`C:3249`); a dead-lettered or cancelled step never
fails its run; a run of an unknown formula stays 'pending'; a sub-task that fails
for good leaves its parent 'decomposed' for ever; `on_failure` is validated by the
bridge in another shape than the coordinator reads. A rejected gate leaves its
task 'awaiting' for ever, a completed task can be gated and is pending again once
approved, and a crash between the decision and the release leaves the task parked.
Tokens are replenished in every cycle, not daily, also after a deactivation that
failed (`H:377`), and the ledger records the daily amount instead of the
difference; `set_budget` takes a negative amount. A dead letter whose `INSERT` fails
leaves a failed task without an entry, one whose `UPDATE` fails an entry for a
pending task that nobody has a message for (`C:834`, `C:858`). A scheduled task that was inserted and not
counted is promoted again. A memory with empty content is done without a vector (`E:635`), and one whose
chunks all failed as well (`E:719`). Vectors of an older content stay when a memory is
stored again, so with an empty one they are all there is; a memory whose outbox insert failed never gets an embedding; the
heartbeat's copy may bring back the index entry of a memory deleted meanwhile.

## 7. Plan

Done: TaskQueue with its abstract specification, Workflow, Decomposition and
Approvals on top of that abstraction, CircuitBreaker, Budget, Schedule and Memory,
all with proofs. Next, most important first:

1. **OllamaPool and replies**: permits and delivery.
2. **FormulaSync**, **Bootstrap**: two-way sync; the order of the stage graph as
   a function, against a reference definition.
