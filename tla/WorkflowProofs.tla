--------------------------- MODULE WorkflowProofs ---------------------------
(* Theorems of Workflow, for any formula and any number of tasks and of     *)
(* messages handled at the same time.                                       *)
EXTENDS Workflow, FiniteSetTheorems, WellFoundedInduction, TLAPS

-----------------------------------------------------------------------------
(* What holds of every formula, whatever is lost, retried or crashes.       *)

\* The locals of a handler between two statements.
LocalsOK == \A h \in Handlers :
    /\ handler[h].pc \notin {"idle", "first"} => handler[h].task \in Tasks
    /\ handler[h].pc = "fan" <=> handler[h].todo # {}

\* What a message, a handler or the history names is a row that exists.
PresentOK ==
    /\ \A t \in Tasks : life[t] = "absent" =>
         /\ Available(t) \notin nats /\ Failed(t) \notin nats
         /\ \A data \in BOOLEAN : Completed(t, data) \notin nats
         /\ t \notin history.done \cup history.dropped
         /\ history.failures[t] = 0
    /\ \A h \in Handlers :
         handler[h].pc \notin {"idle", "first"} => life[handler[h].task] # "absent"

\* A run is started once, and has no task before.
StartOK ==
    /\ run.status = "absent" => Start \notin nats
    /\ Start \in nats => run.status = "pending" /\ \A h \in Handlers : handler[h].pc # "first"
    /\ \A h \in Handlers : handler[h].pc = "first" =>
         /\ run.status = "running"
         /\ \A k \in Handlers : handler[k].pc = "first" => k = h
    /\ \/ run.status = "absent"
       \/ Start \in nats
       \/ \E h \in Handlers : handler[h].pc = "first"
       => \A t \in Tasks : life[t] = "absent"

Base == TypeOK /\ LocalsOK /\ PresentOK /\ StartOK

-----------------------------------------------------------------------------
(* The operators of the formula.                                            *)

LEMMA MinIsLeast ==
    ASSUME NEW S \in SUBSET Nat, S # {}
    PROVE  Min(S) \in S /\ \A y \in S : Min(S) <= y
<1> DEFINE R == OpToRel(<, Nat)
<1>1. \A x, y \in Nat : x < y => <<x, y>> \in R
  BY DEF OpToRel
<1>2. IsWellFoundedOn(R, Nat)
  BY NatLessThanWellFounded
<1> HIDE DEF R
<1>3. PICK x \in S : \A y \in S : ~ (<<y, x>> \in R)
  BY <1>2, WFMin
<1>4. ASSUME NEW y \in S PROVE x <= y
  <2>1. x \in Nat /\ y \in Nat
    OBVIOUS
  <2>2. ~(y < x)
    BY <1>1, <1>3, <2>1
  <2> QED BY <2>1, <2>2
<1> QED BY <1>4 DEF Min

LEMMA AdvanceIsNext ==
    ASSUME NEW s \in Steps
    PROVE  /\ AdvanceTo(s) \in (s + 1)..NSteps
           /\ ~Grouped(s) => AdvanceTo(s) = s + 1
           /\ Grouped(s) =>
                /\ \A i \in s..(AdvanceTo(s) - 1) : i \in Steps /\ Group[i] = Group[s]
                /\ AdvanceTo(s) \in Steps => Group[AdvanceTo(s)] # Group[s]
<1> USE FormulaAssumption DEF Steps
<1>1. CASE ~Grouped(s)
  BY <1>1 DEF AdvanceTo
<1>2. CASE Grouped(s)
  <2> DEFINE Ends == {i \in (s + 1)..NSteps : i \in Steps => Group[i] # Group[s]}
  <2>1. NSteps \in Ends /\ Ends \in SUBSET Nat
    OBVIOUS
  <2>2. Min(Ends) \in Ends /\ \A y \in Ends : Min(Ends) <= y
    BY <2>1, MinIsLeast
  <2>3. AdvanceTo(s) = Min(Ends)
    BY <1>2 DEF AdvanceTo
  <2> HIDE DEF Ends
  <2>4. AdvanceTo(s) \in (s + 1)..NSteps
    BY <2>2, <2>3 DEF Ends
  <2>5. AdvanceTo(s) \in Steps => Group[AdvanceTo(s)] # Group[s]
    BY <2>2, <2>3 DEF Ends
  <2>6. ASSUME NEW i \in s..(AdvanceTo(s) - 1) PROVE i \in Steps /\ Group[i] = Group[s]
    <3>1. i \in Steps
      BY <2>4
    <3>2. i # s => i \notin Ends
      BY <2>2, <2>3, <2>4
    <3> QED BY <3>1, <3>2, <2>4 DEF Ends
  <2> QED BY <1>2, <2>4, <2>5, <2>6
<1> QED BY <1>1, <1>2

LEMMA MinOfTwo ==
    ASSUME NEW a \in Nat, NEW b \in Nat
    PROVE  Min({a, b}) \in {a, b} /\ Min({a, b}) <= a /\ Min({a, b}) <= b
BY MinIsLeast

LEMMA MembersAreSteps ==
    ASSUME NEW s \in Steps
    PROVE  /\ Members(s) \subseteq Steps /\ s \in Members(s)
           /\ IsFiniteSet(Members(s)) /\ Cardinality(Members(s)) \in Nat
<1>1. AdvanceTo(s) \in (s + 1)..NSteps
  BY AdvanceIsNext
<1>2. s \in Int /\ AdvanceTo(s) - 1 \in Int
  BY <1>1 DEF Steps
<1>3. IsFiniteSet(Members(s)) /\ Cardinality(Members(s)) \in Nat
  BY <1>2, FS_Interval, FS_CardinalityType DEF Members
<1> QED BY <1>1, <1>3, FormulaAssumption DEF Members, Steps

LEMMA MinOfSteps ==
    ASSUME NEW S \in SUBSET Steps, S # {}
    PROVE  /\ Min(S) \in S /\ Min(S) \in Steps
           /\ \A y \in S : Min(S) <= y
<1>1. S \in SUBSET Nat
  BY FormulaAssumption DEF Steps
<1> QED BY <1>1, MinIsLeast

LEMMA FirstStep == 0 \in Steps /\ NoStep \notin Steps /\ Steps \subseteq Nat
BY FormulaAssumption DEF Steps

LEMMA StepOfType ==
    ASSUME TypeOK, NEW t \in Tasks
    PROVE  StepOf(t) \in Steps
BY FirstStep DEF TypeOK, TaskColumns, StepOf

-----------------------------------------------------------------------------
(* Messages and rows.                                                       *)

LEMMA MessageTypes ==
    /\ Start \in Messages
    /\ \A t \in Tasks : Available(t) \in Messages /\ Failed(t) \in Messages
    /\ \A t \in Tasks, d \in BOOLEAN : Completed(t, d) \in Messages
BY DEF Messages

LEMMA MessagesDiffer ==
    /\ \A t : Start # Available(t) /\ Start # Failed(t)
    /\ \A t, d : Start # Completed(t, d)
    /\ \A t, u : Available(t) # Failed(u)
    /\ \A t, u, d : Available(t) # Completed(u, d) /\ Failed(t) # Completed(u, d)
    /\ \A t, u : Available(t) = Available(u) => t = u
    /\ \A t, u : Failed(t) = Failed(u) => t = u
    /\ \A t, u, d, e : Completed(t, d) = Completed(u, e) => t = u /\ d = e
<1> USE DEF Start, Available, Failed, Completed
<1>1. \A t : Start # Available(t) /\ Start # Failed(t)
  OBVIOUS
<1>2. \A t, d : Start # Completed(t, d)
  OBVIOUS
<1>3. \A t, u : Available(t) # Failed(u)
  OBVIOUS
<1>4. \A t, u, d : Available(t) # Completed(u, d) /\ Failed(t) # Completed(u, d)
  OBVIOUS
<1>5. \A t, u : Available(t) = Available(u) => t = u
  OBVIOUS
<1>6. \A t, u : Failed(t) = Failed(u) => t = u
  OBVIOUS
<1>7. \A t, u, d, e : Completed(t, d) = Completed(u, e) => t = u /\ d = e
  OBVIOUS
<1> QED BY <1>1, <1>2, <1>3, <1>4, <1>5, <1>6, <1>7

\* Everything but the record of h stays.
Others(h) == \A k \in Handlers \ {h} : handler'[k] = handler[k]
Ends(h) == handler'[h] = IdleHandler /\ Others(h)
Goes(h, pc) ==
    /\ handler'[h].pc = pc
    /\ handler'[h].task = handler[h].task
    /\ handler'[h].step = handler[h].step
    /\ handler'[h].results = handler[h].results
    /\ handler'[h].count = handler[h].count
    /\ Others(h)

\* The row of t, and none else, goes from one life to another.
Moves(t, from, to) ==
    /\ life[t] \in from /\ life'[t] = to
    /\ \A u \in Tasks \ {t} : life'[u] = life[u]

NewTask(t, s) ==
    /\ Moves(t, {"absent"}, "pending")
    /\ task'[t].step = s /\ task'[t].retries = 0
    /\ \A u \in Tasks \ {t} : task'[u] = task[u]
    /\ nats' = nats \cup {Available(t)}

KeepsStep == \A t \in Tasks : task'[t].step = task[t].step

LEMMA MoveType ==
    ASSUME TypeOK, NEW t \in Tasks, NEW from, NEW to \in Queue!Lives,
           life[t] \in from, life' = [life EXCEPT ![t] = to]
    PROVE  life' \in [Tasks -> Queue!Lives] /\ Moves(t, from, to)
BY DEF TypeOK, Moves

LEMMA LivesOf ==
    Queue!Lives = {"absent", "pending", "held", "paused", "completed", "failed"}
BY DEF Queue!Lives

LEMMA CreateType ==
    ASSUME TypeOK, NEW t \in Tasks, NEW s \in Steps \cup {NoStep}, Create(t, s)
    PROVE  /\ NewTask(t, s)
           /\ life' \in [Tasks -> Queue!Lives]
           /\ task' \in [Tasks -> TaskColumns]
           /\ nats' \subseteq Messages
<1>1. life[t] \in {"absent"} /\ life' = [life EXCEPT ![t] = "pending"]
  BY DEF Create, Queue!Create, Queue!Move
<1>2. life' \in [Tasks -> Queue!Lives] /\ Moves(t, {"absent"}, "pending")
  BY <1>1, MoveType, LivesOf
<1>3. /\ task' \in [Tasks -> TaskColumns]
      /\ task'[t].step = s /\ task'[t].retries = 0
      /\ \A u \in Tasks \ {t} : task'[u] = task[u]
  BY DEF Create, TypeOK, TaskColumns
<1>4. nats' = nats \cup {Available(t)}
  BY DEF Create, Publish
<1>5. nats' \subseteq Messages
  BY <1>4, MessageTypes DEF TypeOK
<1> QED BY <1>2, <1>3, <1>4, <1>5 DEF NewTask

LEMMA HandlerParts ==
    ASSUME TypeOK, NEW h \in Handlers
    PROVE  /\ handler[h] \in HandlerStates
           /\ handler[h].pc \in {"idle", "first", "store", "join", "advance", "fan",
                                 "recover", "wake"}
           /\ handler[h].task \in Tasks \cup {NoTask}
           /\ handler[h].step \in Steps
           /\ handler[h].results \in SUBSET Steps
           /\ handler[h].count \in Nat
           /\ handler[h].todo \in SUBSET Steps
BY DEF TypeOK, HandlerStates

LEMMA IdleType == IdleHandler \in HandlerStates
BY FirstStep DEF IdleHandler, HandlerStates

LEMMA EndsType ==
    ASSUME TypeOK, NEW h \in Handlers, handler' = [handler EXCEPT ![h] = IdleHandler]
    PROVE  handler' \in [Handlers -> HandlerStates] /\ Ends(h)
BY IdleType DEF TypeOK, Ends, Others

LEMMA GoesType ==
    ASSUME TypeOK, NEW h \in Handlers,
           NEW pc \in {"first", "join", "advance", "wake"},
           handler' = [handler EXCEPT ![h].pc = pc]
    PROVE  /\ handler' \in [Handlers -> HandlerStates] /\ Goes(h, pc)
           /\ handler'[h].todo = handler[h].todo
<1>1. [handler[h] EXCEPT !.pc = pc] \in HandlerStates
  BY HandlerParts DEF HandlerStates
<1>2. handler' = [handler EXCEPT ![h] = [handler[h] EXCEPT !.pc = pc]]
  OBVIOUS
<1>3. handler' \in [Handlers -> HandlerStates] /\ Others(h)
  BY <1>1, <1>2 DEF TypeOK, Others
<1>4. handler'[h] = [handler[h] EXCEPT !.pc = pc]
  BY <1>2 DEF TypeOK
<1>5. /\ handler'[h].pc = pc
      /\ handler'[h].task = handler[h].task
      /\ handler'[h].step = handler[h].step
      /\ handler'[h].results = handler[h].results
      /\ handler'[h].count = handler[h].count
      /\ handler'[h].todo = handler[h].todo
  BY <1>4, HandlerParts DEF HandlerStates
<1> QED BY <1>3, <1>5 DEF Goes

LEMMA RunParts ==
    ASSUME TypeOK
    PROVE  /\ run \in RunRows
           /\ run.status \in {"absent", "pending", "running", "completed", "failed"}
           /\ run.pending \in Int /\ run.results \in SUBSET Steps
BY DEF TypeOK, RunRows

LEMMA StatusType ==
    ASSUME TypeOK, NEW st \in {"absent", "pending", "running", "completed", "failed"},
           run' = [run EXCEPT !.status = st]
    PROVE  /\ run' \in RunRows
           /\ run'.status = st /\ run'.pending = run.pending /\ run'.results = run.results
BY RunParts DEF RunRows

LEMMA PendingType ==
    ASSUME TypeOK, NEW n \in Int, run' = [run EXCEPT !.pending = n]
    PROVE  /\ run' \in RunRows
           /\ run'.status = run.status /\ run'.pending = n /\ run'.results = run.results
BY RunParts DEF RunRows

LEMMA HistoryParts ==
    ASSUME TypeOK
    PROVE  /\ history \in [done : SUBSET Tasks, dropped : SUBSET Tasks, failures : [Tasks -> Nat]]
           /\ history.done \in SUBSET Tasks /\ history.dropped \in SUBSET Tasks
           /\ history.failures \in [Tasks -> Nat]
           /\ \A t \in Tasks : history.failures[t] \in Nat
BY DEF TypeOK

LEMMA TaskParts ==
    ASSUME TypeOK, NEW t \in Tasks
    PROVE  /\ task[t] \in TaskColumns /\ task[t].step \in Steps \cup {NoStep}
           /\ task[t].retries \in Nat /\ life[t] \in Queue!Lives
BY DEF TypeOK, TaskColumns

LEMMA QueueMoves ==
    ASSUME TypeOK, NEW t \in Tasks
    PROVE  /\ Queue!Claim(t) => Moves(t, {"pending"}, "held")
           /\ Queue!Release(t) => Moves(t, {"held", "paused"}, "pending")
           /\ Queue!Complete(t) => Moves(t, {"held"}, "completed")
           /\ Queue!Fail(t) => Moves(t, {"held"}, "failed")
           /\ Queue!Abandon(t) => Moves(t, {"pending", "held"}, "failed")
           /\ Queue!Retry(t) \/ Queue!Override(t)
                => Moves(t, Queue!Lives \ {"absent"}, "pending")
           /\ \/ Queue!Claim(t) \/ Queue!Release(t) \/ Queue!Complete(t) \/ Queue!Fail(t)
              \/ Queue!Abandon(t) \/ Queue!Retry(t) \/ Queue!Override(t)
              => life' \in [Tasks -> Queue!Lives]
<1> USE LivesOf, MoveType DEF Queue!Move
<1>1. Queue!Claim(t) => Moves(t, {"pending"}, "held") /\ life' \in [Tasks -> Queue!Lives]
  BY DEF Queue!Claim
<1>2. Queue!Release(t) =>
        Moves(t, {"held", "paused"}, "pending") /\ life' \in [Tasks -> Queue!Lives]
  BY DEF Queue!Release
<1>3. Queue!Complete(t) => Moves(t, {"held"}, "completed") /\ life' \in [Tasks -> Queue!Lives]
  BY DEF Queue!Complete
<1>4. Queue!Fail(t) => Moves(t, {"held"}, "failed") /\ life' \in [Tasks -> Queue!Lives]
  BY DEF Queue!Fail
<1>5. Queue!Abandon(t) =>
        Moves(t, {"pending", "held"}, "failed") /\ life' \in [Tasks -> Queue!Lives]
  BY DEF Queue!Abandon
<1>6. Queue!Override(t) =>
        Moves(t, Queue!Lives \ {"absent"}, "pending") /\ life' \in [Tasks -> Queue!Lives]
  BY DEF Queue!Override
<1>7. Queue!Retry(t) =>
        Moves(t, Queue!Lives \ {"absent"}, "pending") /\ life' \in [Tasks -> Queue!Lives]
  <2>1. Queue!Retry(t) =>
          Moves(t, {"failed"}, "pending") /\ life' \in [Tasks -> Queue!Lives]
    BY DEF Queue!Retry
  <2>2. {"failed"} \subseteq Queue!Lives \ {"absent"}
    OBVIOUS
  <2> QED BY <2>1, <2>2 DEF Moves
<1> QED BY <1>1, <1>2, <1>3, <1>4, <1>5, <1>6, <1>7

-----------------------------------------------------------------------------
(* What each action does, one lemma for each.                               *)

LEMMA StartWorkflowDoes ==
    ASSUME TypeOK, StartWorkflow
    PROVE  /\ TypeOK'
           /\ run.status = "absent" /\ run'.status = "pending"
           /\ run'.pending = run.pending /\ run'.results = run.results
           /\ nats' = nats \cup {Start}
           /\ life' = life /\ task' = task /\ handler' = handler /\ history' = history
<1>1. /\ run.status = "absent" /\ nats' = nats \cup {Start}
      /\ run' = [run EXCEPT !.status = "pending"]
      /\ life' = life /\ task' = task /\ handler' = handler /\ history' = history
  BY DEF StartWorkflow, Publish
<1>2. /\ run' \in RunRows /\ run'.status = "pending"
      /\ run'.pending = run.pending /\ run'.results = run.results
  BY <1>1, StatusType
<1> QED BY <1>1, <1>2, MessageTypes DEF TypeOK

LEMMA HandleStartDoes ==
    ASSUME TypeOK, NEW h \in Handlers, HandleStart(h)
    PROVE  /\ TypeOK'
           /\ handler[h].pc = "idle" /\ Goes(h, "first") /\ handler'[h].todo = handler[h].todo
           /\ Start \in nats /\ nats' = nats \ {Start}
           /\ run'.status = "running"
           /\ run'.pending = run.pending /\ run'.results = run.results
           /\ life' = life /\ task' = task /\ history' = history
<1>1. /\ handler[h].pc = "idle" /\ Start \in nats /\ nats' = nats \ {Start}
      /\ run' = [run EXCEPT !.status = "running"]
      /\ handler' = [handler EXCEPT ![h].pc = "first"]
      /\ life' = life /\ task' = task /\ history' = history
  BY DEF HandleStart, Receive, Consume
<1>2. /\ run' \in RunRows /\ run'.status = "running"
      /\ run'.pending = run.pending /\ run'.results = run.results
  BY <1>1, StatusType
<1>3. /\ handler' \in [Handlers -> HandlerStates] /\ Goes(h, "first")
      /\ handler'[h].todo = handler[h].todo
  BY <1>1, GoesType
<1> QED BY <1>1, <1>2, <1>3 DEF TypeOK

LEMMA CreateFirstDoes ==
    ASSUME TypeOK, NEW h \in Handlers, CreateFirst(h)
    PROVE  /\ TypeOK'
           /\ handler[h].pc = "first" /\ Ends(h)
           /\ \E t \in Tasks : NewTask(t, 0)
           /\ run' = run /\ history' = history
<1>1. /\ handler[h].pc = "first" /\ run' = run /\ history' = history
      /\ handler' = [handler EXCEPT ![h] = IdleHandler]
  BY DEF CreateFirst
<1>2. PICK t \in Tasks : Create(t, 0)
  BY DEF CreateFirst
<1>3. /\ NewTask(t, 0) /\ life' \in [Tasks -> Queue!Lives]
      /\ task' \in [Tasks -> TaskColumns] /\ nats' \subseteq Messages
  BY <1>2, CreateType, FirstStep
<1>4. handler' \in [Handlers -> HandlerStates] /\ Ends(h)
  BY <1>1, EndsType
<1> QED BY <1>1, <1>3, <1>4 DEF TypeOK

LEMMA HandleCompletedDoes ==
    ASSUME TypeOK, NEW h \in Handlers, NEW t \in Tasks, NEW data \in BOOLEAN,
           HandleCompleted(h, t, data)
    PROVE  /\ TypeOK'
           /\ handler[h].pc = "idle"
           /\ Completed(t, data) \in nats /\ nats' = nats \ {Completed(t, data)}
           /\ run' = run /\ life' = life /\ task' = task /\ history' = history
           /\ IF OnDisk THEN /\ handler'[h].pc = "store" /\ handler'[h].task = t
                             /\ handler'[h].step = StepOf(t) /\ handler'[h].todo = {}
                             /\ run.results \subseteq handler'[h].results
                             /\ Others(h)
                        ELSE handler' = handler
<1> DEFINE s == StepOf(t)
           results == run.results \cup (IF data THEN {s} ELSE {})
           taken == [IdleHandler EXCEPT !.pc = "store", !.task = t, !.step = s,
                                        !.results = results]
<1>1. /\ handler[h].pc = "idle"
      /\ Completed(t, data) \in nats /\ nats' = nats \ {Completed(t, data)}
      /\ run' = run /\ life' = life /\ task' = task /\ history' = history
      /\ IF OnDisk THEN handler' = [handler EXCEPT ![h] = taken] ELSE handler' = handler
  BY DEF HandleCompleted, Receive, Consume
<1>2. s \in Steps /\ results \in SUBSET Steps
  BY StepOfType, RunParts
<1> HIDE DEF s, results
<1>3. /\ taken \in HandlerStates /\ taken.pc = "store" /\ taken.task = t
      /\ taken.step = s /\ taken.results = results /\ taken.todo = {}
  BY <1>2, FirstStep DEF IdleHandler, HandlerStates
<1> HIDE DEF taken
<1>4. /\ handler' \in [Handlers -> HandlerStates]
      /\ OnDisk => handler'[h] = taken /\ Others(h)
  BY <1>1, <1>3 DEF TypeOK, Others
<1>5. TypeOK'
  BY <1>1, <1>4 DEF TypeOK
<1>6. run.results \subseteq results
  BY DEF results
<1>7. handler'[h] = taken => handler'[h].step = StepOf(t)
  BY <1>3 DEF s
<1> QED BY <1>1, <1>3, <1>4, <1>5, <1>6, <1>7

LEMMA StoreResultDoes ==
    ASSUME TypeOK, NEW h \in Handlers, StoreResult(h)
    PROVE  /\ TypeOK'
           /\ handler[h].pc = "store"
           /\ Goes(h, IF Grouped(handler[h].step) THEN "join" ELSE "advance")
           /\ handler'[h].todo = handler[h].todo
           /\ run'.status = run.status /\ run'.results = handler[h].results
           /\ run'.pending = IF Grouped(handler[h].step) THEN run.pending - 1
                                                         ELSE run.pending
           /\ life' = life /\ task' = task /\ nats' = nats /\ history' = history
<1> DEFINE pc == IF Grouped(handler[h].step) THEN "join" ELSE "advance"
           pending == IF Grouped(handler[h].step) THEN run.pending - 1 ELSE run.pending
<1>1. /\ handler[h].pc = "store"
      /\ run' = [run EXCEPT !.results = handler[h].results, !.pending = pending]
      /\ handler' = [handler EXCEPT ![h].pc = pc]
      /\ life' = life /\ task' = task /\ nats' = nats /\ history' = history
  BY DEF StoreResult
<1>2. pc \in {"first", "join", "advance", "wake"} /\ pending \in Int
  BY RunParts
<1>3. pc = (IF Grouped(handler[h].step) THEN "join" ELSE "advance")
  OBVIOUS
<1>4. pending = (IF Grouped(handler[h].step) THEN run.pending - 1 ELSE run.pending)
  OBVIOUS
<1> HIDE DEF pc, pending
<1>5. /\ handler' \in [Handlers -> HandlerStates] /\ Goes(h, pc)
      /\ handler'[h].todo = handler[h].todo
  BY <1>1, <1>2, GoesType
<1>6. /\ run' \in RunRows /\ run'.status = run.status
      /\ run'.results = handler[h].results /\ run'.pending = pending
  BY <1>1, <1>2, RunParts, HandlerParts DEF RunRows
<1> QED BY <1>1, <1>3, <1>4, <1>5, <1>6 DEF TypeOK

LEMMA JoinDoes ==
    ASSUME TypeOK, NEW h \in Handlers, Join(h)
    PROVE  /\ TypeOK'
           /\ handler[h].pc = "join"
           /\ IF run.pending > 0 THEN Ends(h)
                                 ELSE Goes(h, "advance") /\ handler'[h].todo = handler[h].todo
           /\ run' = run /\ life' = life /\ task' = task /\ nats' = nats /\ history' = history
<1>1. /\ handler[h].pc = "join"
      /\ run' = run /\ life' = life /\ task' = task /\ nats' = nats /\ history' = history
  BY DEF Join
<1>2. CASE run.pending > 0
  <2>1. handler' = [handler EXCEPT ![h] = IdleHandler]
    BY <1>2 DEF Join
  <2>2. handler' \in [Handlers -> HandlerStates] /\ Ends(h)
    BY <2>1, EndsType
  <2> QED BY <1>1, <1>2, <2>2 DEF TypeOK
<1>3. CASE ~(run.pending > 0)
  <2>1. handler' = [handler EXCEPT ![h] = [handler[h] EXCEPT !.pc = "advance"]]
    BY <1>3 DEF Join
  <2>2. handler' = [handler EXCEPT ![h].pc = "advance"]
    BY <2>1
  <2>3. /\ handler' \in [Handlers -> HandlerStates] /\ Goes(h, "advance")
        /\ handler'[h].todo = handler[h].todo
    BY <2>2, GoesType
  <2> QED BY <1>1, <1>3, <2>3 DEF TypeOK
<1> QED BY <1>2, <1>3

LEMMA AdvanceToGroupDoes ==
    ASSUME TypeOK, NEW h \in Handlers, AdvanceToGroup(h)
    PROVE  /\ TypeOK'
           /\ handler[h].pc = "advance"
           /\ Goes(h, "fan")
           /\ AdvanceTo(handler[h].step) \in Steps /\ Grouped(AdvanceTo(handler[h].step))
           /\ handler'[h].todo = Members(AdvanceTo(handler[h].step))
           /\ run'.status = run.status /\ run'.results = run.results
           /\ run'.pending = Cardinality(Members(AdvanceTo(handler[h].step)))
           /\ life' = life /\ task' = task /\ nats' = nats /\ history' = history
<1> DEFINE next == AdvanceTo(handler[h].step)
<1>1. /\ handler[h].pc = "advance" /\ next < NSteps /\ Grouped(next)
      /\ run' = [run EXCEPT !.pending = Cardinality(Members(next))]
      /\ handler' = [handler EXCEPT ![h].pc = "fan", ![h].todo = Members(next)]
      /\ life' = life /\ task' = task /\ nats' = nats /\ history' = history
  BY DEF AdvanceToGroup
<1>2. next \in (handler[h].step + 1)..NSteps /\ handler[h].step \in Steps
  BY AdvanceIsNext, HandlerParts
<1>3. next \in Steps
  BY <1>1, <1>2, FormulaAssumption DEF Steps
<1> HIDE DEF next
<1>4. Members(next) \in SUBSET Steps /\ Cardinality(Members(next)) \in Nat
  BY <1>3, MembersAreSteps
<1>5. /\ run' \in RunRows /\ run'.status = run.status /\ run'.results = run.results
      /\ run'.pending = Cardinality(Members(next))
  BY <1>1, <1>4, PendingType
<1>6. handler' = [handler EXCEPT ![h] = [handler[h] EXCEPT !.pc = "fan", !.todo = Members(next)]]
  BY <1>1
<1>7. [handler[h] EXCEPT !.pc = "fan", !.todo = Members(next)] \in HandlerStates
  BY <1>4, HandlerParts DEF HandlerStates
<1>8. /\ handler' \in [Handlers -> HandlerStates] /\ Others(h)
      /\ handler'[h] = [handler[h] EXCEPT !.pc = "fan", !.todo = Members(next)]
  BY <1>6, <1>7 DEF TypeOK, Others
<1>9. Goes(h, "fan") /\ handler'[h].todo = Members(next)
  BY <1>8, HandlerParts DEF HandlerStates, Goes
<1> QED BY <1>1, <1>3, <1>5, <1>8, <1>9 DEF TypeOK, next

LEMMA FanOnDoes ==
    ASSUME TypeOK, NEW h \in Handlers, handler[h].pc = "fan", NEW s \in handler[h].todo,
           FanOn(h, s)
    PROVE  /\ handler' \in [Handlers -> HandlerStates]
           /\ Others(h)
           /\ handler'[h].todo = handler[h].todo \ {s}
           /\ IF handler[h].todo = {s} THEN Ends(h) ELSE Goes(h, "fan")
<1> DEFINE left == handler[h].todo \ {s}
<1>1. handler' = [handler EXCEPT ![h] =
        IF left = {} THEN IdleHandler ELSE [handler[h] EXCEPT !.todo = left]]
  BY DEF FanOn
<1>2. left = {} <=> handler[h].todo = {s}
  OBVIOUS
<1>3. left \in SUBSET Steps
  BY HandlerParts
<1>4. left = handler[h].todo \ {s}
  OBVIOUS
<1> HIDE DEF left
<1>5. CASE left = {}
  <2>1. handler' = [handler EXCEPT ![h] = IdleHandler]
    BY <1>1, <1>5
  <2>2. handler' \in [Handlers -> HandlerStates] /\ Ends(h)
    BY <2>1, EndsType
  <2> QED BY <1>2, <1>4, <1>5, <2>2 DEF Ends, IdleHandler
<1>6. CASE left # {}
  <2>1. handler' = [handler EXCEPT ![h] = [handler[h] EXCEPT !.todo = left]]
    BY <1>1, <1>6
  <2>2. [handler[h] EXCEPT !.todo = left] \in HandlerStates
    BY <1>3, HandlerParts DEF HandlerStates
  <2>3. /\ handler' \in [Handlers -> HandlerStates] /\ Others(h)
        /\ handler'[h] = [handler[h] EXCEPT !.todo = left]
    BY <2>1, <2>2 DEF TypeOK, Others
  <2>4. Goes(h, "fan") /\ handler'[h].todo = left
    BY <2>3, HandlerParts DEF HandlerStates, Goes
  <2> QED BY <1>2, <1>4, <1>6, <2>3, <2>4
<1> QED BY <1>5, <1>6

\* The fan-out's next member.
LEMMA FanOutMember ==
    ASSUME TypeOK, LocalsOK, NEW h \in Handlers, handler[h].pc = "fan"
    PROVE  /\ Min(handler[h].todo) \in handler[h].todo /\ Min(handler[h].todo) \in Steps
           /\ \A i \in handler[h].todo : Min(handler[h].todo) <= i
<1>1. handler[h].todo \in SUBSET Steps /\ handler[h].todo # {}
  BY HandlerParts DEF LocalsOK
<1> QED BY <1>1, MinOfSteps

LEMMA FanOutCreateDoes ==
    ASSUME TypeOK, LocalsOK, NEW h \in Handlers, FanOutCreate(h)
    PROVE  /\ TypeOK'
           /\ handler[h].pc = "fan"
           /\ run' = run /\ history' = history
           /\ \E s \in handler[h].todo, t \in Tasks :
                /\ s \in Steps /\ \A i \in handler[h].todo : s <= i
                /\ Holds(s, handler[h].results)
                /\ NewTask(t, s)
                /\ Others(h)
                /\ handler'[h].todo = handler[h].todo \ {s}
                /\ IF handler[h].todo = {s} THEN Ends(h) ELSE Goes(h, "fan")
<1> DEFINE s == Min(handler[h].todo)
<1>1. /\ handler[h].pc = "fan" /\ Holds(s, handler[h].results) /\ FanOn(h, s)
      /\ run' = run /\ history' = history
  BY DEF FanOutCreate
<1>2. s \in handler[h].todo /\ s \in Steps /\ \A i \in handler[h].todo : s <= i
  BY <1>1, FanOutMember
<1>3. PICK t \in Tasks : Create(t, s)
  BY DEF FanOutCreate
<1> HIDE DEF s
<1>4. /\ NewTask(t, s) /\ life' \in [Tasks -> Queue!Lives]
      /\ task' \in [Tasks -> TaskColumns] /\ nats' \subseteq Messages
  BY <1>2, <1>3, CreateType
<1>5. /\ handler' \in [Handlers -> HandlerStates] /\ Others(h)
      /\ handler'[h].todo = handler[h].todo \ {s}
      /\ IF handler[h].todo = {s} THEN Ends(h) ELSE Goes(h, "fan")
  BY <1>1, <1>2, FanOnDoes
<1>6. TypeOK'
  BY <1>1, <1>4, <1>5 DEF TypeOK
<1> QED BY <1>1, <1>2, <1>4, <1>5, <1>6

LEMMA FanOutSkipDoes ==
    ASSUME TypeOK, LocalsOK, NEW h \in Handlers, FanOutSkip(h)
    PROVE  /\ TypeOK'
           /\ handler[h].pc = "fan"
           /\ run'.status = run.status /\ run'.results = run.results
           /\ run'.pending = run.pending - 1
           /\ life' = life /\ task' = task /\ nats' = nats /\ history' = history
           /\ \E s \in handler[h].todo :
                /\ s \in Steps
                /\ ~Holds(s, handler[h].results)
                /\ Others(h)
                /\ handler'[h].todo = handler[h].todo \ {s}
                /\ IF handler[h].todo = {s} THEN Ends(h) ELSE Goes(h, "fan")
<1> DEFINE s == Min(handler[h].todo)
<1>1. /\ handler[h].pc = "fan" /\ ~Holds(s, handler[h].results) /\ FanOn(h, s)
      /\ run' = [run EXCEPT !.pending = run.pending - 1]
      /\ life' = life /\ task' = task /\ nats' = nats /\ history' = history
  BY DEF FanOutSkip
<1>2. s \in handler[h].todo /\ s \in Steps
  BY <1>1, FanOutMember
<1> HIDE DEF s
<1>3. /\ run' \in RunRows /\ run'.status = run.status /\ run'.results = run.results
      /\ run'.pending = run.pending - 1
  BY <1>1, PendingType, RunParts
<1>4. /\ handler' \in [Handlers -> HandlerStates] /\ Others(h)
      /\ handler'[h].todo = handler[h].todo \ {s}
      /\ IF handler[h].todo = {s} THEN Ends(h) ELSE Goes(h, "fan")
  BY <1>1, <1>2, FanOnDoes
<1>5. TypeOK'
  BY <1>1, <1>3, <1>4 DEF TypeOK
<1> QED BY <1>1, <1>2, <1>3, <1>4, <1>5

LEMMA NextStepType ==
    ASSUME TypeOK, NEW h \in Handlers
    PROVE  /\ NextStep(h) \in {AdvanceTo(handler[h].step), AdvanceTo(handler[h].step) + 1}
           /\ NextStep(h) \in Nat /\ AdvanceTo(handler[h].step) \in Nat
           /\ AdvanceTo(handler[h].step) \in (handler[h].step + 1)..NSteps
           /\ NextStep(h) < NSteps => NextStep(h) \in Steps
<1>1. handler[h].step \in Steps
  BY HandlerParts
<1>2. AdvanceTo(handler[h].step) \in (handler[h].step + 1)..NSteps
  BY <1>1, AdvanceIsNext
<1>3. AdvanceTo(handler[h].step) \in Nat
  BY <1>1, <1>2, FormulaAssumption DEF Steps
<1>4. NextStep(h) \in {AdvanceTo(handler[h].step), AdvanceTo(handler[h].step) + 1}
  BY DEF NextStep
<1> QED BY <1>2, <1>3, <1>4, FormulaAssumption DEF Steps

LEMMA AdvanceToStepDoes ==
    ASSUME TypeOK, NEW h \in Handlers, AdvanceToStep(h)
    PROVE  /\ TypeOK'
           /\ handler[h].pc = "advance" /\ Ends(h)
           /\ AdvanceTo(handler[h].step) \in Steps => ~Grouped(AdvanceTo(handler[h].step))
           /\ NextStep(h) \in Steps
           /\ \E t \in Tasks : NewTask(t, NextStep(h))
           /\ run' = run /\ history' = history
<1> DEFINE s == NextStep(h)
<1>1. /\ handler[h].pc = "advance" /\ s < NSteps
      /\ AdvanceTo(handler[h].step) < NSteps => ~Grouped(AdvanceTo(handler[h].step))
      /\ handler' = [handler EXCEPT ![h] = IdleHandler]
      /\ run' = run /\ history' = history
  BY DEF AdvanceToStep
<1>2. PICK t \in Tasks : Create(t, s)
  BY DEF AdvanceToStep
<1>3. s \in Steps
  BY <1>1, NextStepType
<1>4. AdvanceTo(handler[h].step) \in Steps => AdvanceTo(handler[h].step) < NSteps
  BY FormulaAssumption DEF Steps
<1> HIDE DEF s
<1>5. /\ NewTask(t, s) /\ life' \in [Tasks -> Queue!Lives]
      /\ task' \in [Tasks -> TaskColumns] /\ nats' \subseteq Messages
  BY <1>2, <1>3, CreateType
<1>6. handler' \in [Handlers -> HandlerStates] /\ Ends(h)
  BY <1>1, EndsType
<1>7. TypeOK'
  BY <1>1, <1>5, <1>6 DEF TypeOK
<1> QED BY <1>1, <1>3, <1>4, <1>5, <1>6, <1>7 DEF s

LEMMA CompleteRunDoes ==
    ASSUME TypeOK, NEW h \in Handlers, CompleteRun(h)
    PROVE  /\ TypeOK'
           /\ handler[h].pc = "advance" /\ Ends(h)
           /\ AdvanceTo(handler[h].step) \in Steps => ~Grouped(AdvanceTo(handler[h].step))
           /\ NextStep(h) >= NSteps
           /\ run'.status = "completed" /\ run'.pending = run.pending
           /\ run'.results = handler[h].results
           /\ life' = life /\ task' = task /\ nats' = nats /\ history' = history
<1>1. /\ handler[h].pc = "advance" /\ NextStep(h) >= NSteps
      /\ AdvanceTo(handler[h].step) < NSteps => ~Grouped(AdvanceTo(handler[h].step))
      /\ handler' = [handler EXCEPT ![h] = IdleHandler]
      /\ run' = [run EXCEPT !.status = "completed", !.results = handler[h].results]
      /\ life' = life /\ task' = task /\ nats' = nats /\ history' = history
  BY DEF CompleteRun
<1>2. AdvanceTo(handler[h].step) \in Steps => AdvanceTo(handler[h].step) < NSteps
  BY FormulaAssumption DEF Steps
<1>3. /\ run' \in RunRows /\ run'.status = "completed" /\ run'.pending = run.pending
      /\ run'.results = handler[h].results
  BY <1>1, RunParts, HandlerParts DEF RunRows
<1>4. handler' \in [Handlers -> HandlerStates] /\ Ends(h)
  BY <1>1, EndsType
<1>5. TypeOK'
  BY <1>1, <1>3, <1>4 DEF TypeOK
<1> QED BY <1>1, <1>2, <1>3, <1>4, <1>5

LEMMA HandleFailedDoes ==
    ASSUME TypeOK, NEW h \in Handlers, NEW t \in Tasks, HandleFailed(h, t)
    PROVE  /\ TypeOK'
           /\ handler[h].pc = "idle"
           /\ Failed(t) \in nats /\ nats' = nats \ {Failed(t)}
           /\ run' = run /\ life' = life /\ task' = task /\ history' = history
           /\ IF OnDisk THEN /\ handler'[h].pc = "recover" /\ handler'[h].task = t
                             /\ handler'[h].step = StepOf(t) /\ handler'[h].todo = {}
                             /\ handler'[h].count = task[t].retries
                             /\ Others(h)
                        ELSE handler' = handler
<1> DEFINE s == StepOf(t)
           n == task[t].retries
           results == run.results
           taken == [IdleHandler EXCEPT !.pc = "recover", !.task = t, !.step = s,
                                        !.results = results, !.count = n]
<1>1. /\ handler[h].pc = "idle"
      /\ Failed(t) \in nats /\ nats' = nats \ {Failed(t)}
      /\ run' = run /\ life' = life /\ task' = task /\ history' = history
      /\ IF OnDisk THEN handler' = [handler EXCEPT ![h] = taken] ELSE handler' = handler
  BY DEF HandleFailed, Receive, Consume
<1>2. s \in Steps /\ n \in Nat /\ results \in SUBSET Steps
  BY StepOfType, TaskParts, RunParts
<1>3. s = StepOf(t) /\ n = task[t].retries
  OBVIOUS
<1> HIDE DEF s, n, results
<1>4. /\ taken \in HandlerStates /\ taken.pc = "recover" /\ taken.task = t
      /\ taken.step = s /\ taken.count = n /\ taken.todo = {}
  BY <1>2, FirstStep DEF IdleHandler, HandlerStates
<1> HIDE DEF taken
<1>5. /\ handler' \in [Handlers -> HandlerStates]
      /\ OnDisk => handler'[h] = taken /\ Others(h)
  BY <1>1, <1>4 DEF TypeOK, Others
<1>6. TypeOK'
  BY <1>1, <1>5 DEF TypeOK
<1> QED BY <1>1, <1>3, <1>4, <1>5, <1>6

LEMMA RetryStepDoes ==
    ASSUME TypeOK, LocalsOK, NEW h \in Handlers, RetryStep(h)
    PROVE  /\ TypeOK'
           /\ handler[h].pc = "recover" /\ handler[h].task \in Tasks
           /\ handler[h].count < Retries[handler[h].step]
           /\ Goes(h, "wake") /\ handler'[h].todo = handler[h].todo
           /\ Moves(handler[h].task, Queue!Lives, "pending")
           /\ KeepsStep
           /\ task'[handler[h].task].retries = handler[h].count + 1
           /\ \A u \in Tasks \ {handler[h].task} : task'[u] = task[u]
           /\ run' = run /\ nats' = nats /\ history' = history
<1> DEFINE t == handler[h].task
           n == handler[h].count + 1
<1>1. /\ handler[h].pc = "recover" /\ handler[h].count < Retries[handler[h].step]
      /\ life' = [life EXCEPT ![t] = "pending"]
      /\ task' = [task EXCEPT ![t].retries = n]
      /\ handler' = [handler EXCEPT ![h].pc = "wake"]
      /\ run' = run /\ nats' = nats /\ history' = history
  BY DEF RetryStep
<1>2. t \in Tasks /\ n \in Nat
  BY <1>1, HandlerParts DEF LocalsOK
<1>3. n = handler[h].count + 1
  OBVIOUS
<1> HIDE DEF n
<1>4. life' \in [Tasks -> Queue!Lives] /\ Moves(t, Queue!Lives, "pending")
  BY <1>1, <1>2, MoveType, LivesOf, TaskParts
<1>5. /\ task' \in [Tasks -> TaskColumns] /\ task'[t].retries = n
      /\ task'[t].step = task[t].step
      /\ \A u \in Tasks \ {t} : task'[u] = task[u]
  BY <1>1, <1>2 DEF TypeOK, TaskColumns
<1>6. KeepsStep
  BY <1>5 DEF KeepsStep
<1>7. /\ handler' \in [Handlers -> HandlerStates] /\ Goes(h, "wake")
      /\ handler'[h].todo = handler[h].todo
  BY <1>1, GoesType
<1>8. TypeOK'
  BY <1>1, <1>4, <1>5, <1>7 DEF TypeOK
<1> QED BY <1>1, <1>2, <1>3, <1>4, <1>5, <1>6, <1>7, <1>8

LEMMA WakeUpDoes ==
    ASSUME TypeOK, LocalsOK, NEW h \in Handlers, WakeUp(h)
    PROVE  /\ TypeOK'
           /\ handler[h].pc = "wake" /\ Ends(h) /\ handler[h].task \in Tasks
           /\ nats' = nats \cup {Available(handler[h].task)}
           /\ run' = run /\ life' = life /\ task' = task /\ history' = history
<1>1. /\ handler[h].pc = "wake" /\ handler' = [handler EXCEPT ![h] = IdleHandler]
      /\ nats' = nats \cup {Available(handler[h].task)}
      /\ run' = run /\ life' = life /\ task' = task /\ history' = history
  BY DEF WakeUp, Publish
<1>2. handler[h].task \in Tasks
  BY <1>1 DEF LocalsOK
<1>3. handler' \in [Handlers -> HandlerStates] /\ Ends(h)
  BY <1>1, EndsType
<1>4. TypeOK'
  BY <1>1, <1>2, <1>3, MessageTypes DEF TypeOK
<1> QED BY <1>1, <1>2, <1>3, <1>4

LEMMA CallErrorHandlerDoes ==
    ASSUME TypeOK, NEW h \in Handlers, CallErrorHandler(h)
    PROVE  /\ TypeOK'
           /\ handler[h].pc = "recover" /\ Ends(h)
           /\ handler[h].count >= Retries[handler[h].step] /\ OnFailure
           /\ \E t \in Tasks : NewTask(t, NoStep)
           /\ run' = run /\ history' = history
<1>1. /\ handler[h].pc = "recover" /\ handler' = [handler EXCEPT ![h] = IdleHandler]
      /\ handler[h].count >= Retries[handler[h].step] /\ OnFailure
      /\ run' = run /\ history' = history
  BY DEF CallErrorHandler
<1>2. PICK t \in Tasks : Create(t, NoStep)
  BY DEF CallErrorHandler
<1>3. /\ NewTask(t, NoStep) /\ life' \in [Tasks -> Queue!Lives]
      /\ task' \in [Tasks -> TaskColumns] /\ nats' \subseteq Messages
  BY <1>2, CreateType
<1>4. handler' \in [Handlers -> HandlerStates] /\ Ends(h)
  BY <1>1, EndsType
<1>5. TypeOK'
  BY <1>1, <1>3, <1>4 DEF TypeOK
<1> QED BY <1>1, <1>3, <1>4, <1>5

LEMMA FailRunDoes ==
    ASSUME TypeOK, NEW h \in Handlers, FailRun(h)
    PROVE  /\ TypeOK'
           /\ handler[h].pc = "recover" /\ Ends(h)
           /\ handler[h].count >= Retries[handler[h].step] /\ ~OnFailure
           /\ run'.status = "failed"
           /\ run'.pending = run.pending /\ run'.results = run.results
           /\ life' = life /\ task' = task /\ nats' = nats /\ history' = history
<1>1. /\ handler[h].pc = "recover" /\ handler' = [handler EXCEPT ![h] = IdleHandler]
      /\ handler[h].count >= Retries[handler[h].step] /\ ~OnFailure
      /\ run' = [run EXCEPT !.status = "failed"]
      /\ life' = life /\ task' = task /\ nats' = nats /\ history' = history
  BY DEF FailRun
<1>2. /\ run' \in RunRows /\ run'.status = "failed"
      /\ run'.pending = run.pending /\ run'.results = run.results
  BY <1>1, StatusType
<1>3. handler' \in [Handlers -> HandlerStates] /\ Ends(h)
  BY <1>1, EndsType
<1>4. TypeOK'
  BY <1>1, <1>2, <1>3 DEF TypeOK
<1> QED BY <1>1, <1>2, <1>3, <1>4

LEMMA ClaimStepDoes ==
    ASSUME TypeOK, NEW t \in Tasks, ClaimStep(t)
    PROVE  /\ TypeOK'
           /\ nats' = nats \ {Available(t)}
           /\ IF life[t] = "pending" THEN Moves(t, {"pending"}, "held") ELSE life' = life
           /\ run' = run /\ task' = task /\ handler' = handler /\ history' = history
<1>1. /\ nats' = nats \ {Available(t)}
      /\ run' = run /\ task' = task /\ handler' = handler /\ history' = history
      /\ IF life[t] = "pending" THEN Queue!Claim(t) ELSE life' = life
  BY DEF ClaimStep, Consume
<1>2. /\ IF life[t] = "pending" THEN Moves(t, {"pending"}, "held") ELSE life' = life
      /\ life' \in [Tasks -> Queue!Lives]
  BY <1>1, QueueMoves DEF TypeOK
<1>3. TypeOK'
  BY <1>1, <1>2 DEF TypeOK
<1> QED BY <1>1, <1>2, <1>3

LEMMA TakeStepDoes ==
    ASSUME TypeOK, NEW t \in Tasks, TakeStep(t)
    PROVE  /\ TypeOK'
           /\ Moves(t, {"pending"}, "held")
           /\ run' = run /\ task' = task /\ nats' = nats /\ handler' = handler
           /\ history' = history
<1>1. /\ Queue!Claim(t) /\ run' = run /\ task' = task /\ nats' = nats
      /\ handler' = handler /\ history' = history
  BY DEF TakeStep
<1>2. Moves(t, {"pending"}, "held") /\ life' \in [Tasks -> Queue!Lives]
  BY <1>1, QueueMoves
<1>3. TypeOK'
  BY <1>1, <1>2 DEF TypeOK
<1> QED BY <1>1, <1>2, <1>3

LEMMA ReleaseStepDoes ==
    ASSUME TypeOK, NEW t \in Tasks, ReleaseStep(t)
    PROVE  /\ TypeOK'
           /\ Moves(t, {"held", "paused"}, "pending")
           /\ nats' = nats \cup {Available(t)}
           /\ run' = run /\ task' = task /\ handler' = handler /\ history' = history
<1>1. /\ Queue!Release(t) /\ nats' = nats \cup {Available(t)}
      /\ run' = run /\ task' = task /\ handler' = handler /\ history' = history
  BY DEF ReleaseStep, Publish
<1>2. Moves(t, {"held", "paused"}, "pending") /\ life' \in [Tasks -> Queue!Lives]
  BY <1>1, QueueMoves
<1>3. TypeOK'
  BY <1>1, <1>2, MessageTypes DEF TypeOK
<1> QED BY <1>1, <1>2, <1>3

LEMMA CompleteStepDoes ==
    ASSUME TypeOK, NEW t \in Tasks, NEW data \in Answers, CompleteStep(t, data)
    PROVE  /\ TypeOK'
           /\ data \in BOOLEAN
           /\ Moves(t, {"held"}, "completed")
           /\ nats' = nats \cup {Completed(t, data)}
           /\ history'.done = history.done \cup {t}
           /\ history'.dropped = history.dropped /\ history'.failures = history.failures
           /\ run' = run /\ task' = task /\ handler' = handler
<1>1. /\ Queue!Complete(t) /\ nats' = nats \cup {Completed(t, data)}
      /\ history' = [history EXCEPT !.done = history.done \cup {t}]
      /\ run' = run /\ task' = task /\ handler' = handler
  BY DEF CompleteStep, Publish
<1>2. Moves(t, {"held"}, "completed") /\ life' \in [Tasks -> Queue!Lives]
  BY <1>1, QueueMoves
<1>3. data \in BOOLEAN
  BY SwitchesAssumption
<1>4. history.done \cup {t} \in SUBSET Tasks
  BY HistoryParts
<1>5. /\ history' \in [done : SUBSET Tasks, dropped : SUBSET Tasks, failures : [Tasks -> Nat]]
      /\ history'.done = history.done \cup {t}
      /\ history'.dropped = history.dropped /\ history'.failures = history.failures
  BY <1>1, <1>4, HistoryParts
<1>6. TypeOK'
  BY <1>1, <1>2, <1>3, <1>5, MessageTypes DEF TypeOK
<1> QED BY <1>1, <1>2, <1>3, <1>5, <1>6

LEMMA FailStepDoes ==
    ASSUME TypeOK, NEW t \in Tasks, FailStep(t)
    PROVE  /\ TypeOK'
           /\ Moves(t, {"held"}, "failed")
           /\ nats' = nats \cup {Failed(t)}
           /\ history'.done = history.done /\ history'.dropped = history.dropped
           /\ history'.failures[t]
                = Min({history.failures[t], Retries[StepOf(t)]}) + 1
           /\ \A u \in Tasks \ {t} : history'.failures[u] = history.failures[u]
           /\ run' = run /\ task' = task /\ handler' = handler
<1> DEFINE n == Min({history.failures[t], Retries[StepOf(t)]}) + 1
<1>1. /\ Queue!Fail(t) /\ nats' = nats \cup {Failed(t)}
      /\ history' = [history EXCEPT !.failures[t] = n]
      /\ run' = run /\ task' = task /\ handler' = handler
  BY DEF FailStep, Publish
<1>2. Moves(t, {"held"}, "failed") /\ life' \in [Tasks -> Queue!Lives]
  BY <1>1, QueueMoves
<1>3. n \in Nat
  <2>1. history.failures[t] \in Nat /\ Retries[StepOf(t)] \in Nat
    BY HistoryParts, StepOfType, FormulaAssumption
  <2> QED BY <2>1, MinOfTwo
<1>4. n = Min({history.failures[t], Retries[StepOf(t)]}) + 1
  OBVIOUS
<1> HIDE DEF n
<1>5. history' = [history EXCEPT !.failures = [history.failures EXCEPT ![t] = n]]
  BY <1>1
<1>6. [history.failures EXCEPT ![t] = n] \in [Tasks -> Nat]
  BY <1>3, HistoryParts
<1>7. /\ history' \in [done : SUBSET Tasks, dropped : SUBSET Tasks, failures : [Tasks -> Nat]]
      /\ history'.done = history.done /\ history'.dropped = history.dropped
      /\ history'.failures = [history.failures EXCEPT ![t] = n]
  BY <1>5, <1>6, HistoryParts
<1>8. /\ history'.failures[t] = n
      /\ \A u \in Tasks \ {t} : history'.failures[u] = history.failures[u]
  BY <1>7, HistoryParts
<1>9. TypeOK'
  BY <1>1, <1>2, <1>7, MessageTypes DEF TypeOK
<1> QED BY <1>1, <1>2, <1>4, <1>7, <1>8, <1>9

LEMMA DropStepDoes ==
    ASSUME TypeOK, NEW t \in Tasks, DropStep(t)
    PROVE  /\ TypeOK'
           /\ Moves(t, {"pending", "held"}, "failed")
           /\ history'.dropped = history.dropped \cup {t}
           /\ history'.done = history.done /\ history'.failures = history.failures
           /\ run' = run /\ task' = task /\ nats' = nats /\ handler' = handler
<1>1. /\ Queue!Abandon(t)
      /\ history' = [history EXCEPT !.dropped = history.dropped \cup {t}]
      /\ run' = run /\ task' = task /\ nats' = nats /\ handler' = handler
  BY DEF DropStep
<1>2. Moves(t, {"pending", "held"}, "failed") /\ life' \in [Tasks -> Queue!Lives]
  BY <1>1, QueueMoves
<1>3. history.dropped \cup {t} \in SUBSET Tasks
  BY HistoryParts
<1>4. /\ history' \in [done : SUBSET Tasks, dropped : SUBSET Tasks, failures : [Tasks -> Nat]]
      /\ history'.dropped = history.dropped \cup {t}
      /\ history'.done = history.done /\ history'.failures = history.failures
  BY <1>1, <1>3, HistoryParts
<1>5. TypeOK'
  BY <1>1, <1>2, <1>4 DEF TypeOK
<1> QED BY <1>1, <1>2, <1>4, <1>5

LEMMA DlqRetryDoes ==
    ASSUME TypeOK, NEW t \in Tasks, DlqRetry(t)
    PROVE  /\ TypeOK'
           /\ DlqCounts # {} /\ t \in history.dropped
           /\ Moves(t, Queue!Lives \ {"absent"}, "pending")
           /\ nats' = nats \cup {Available(t)}
           /\ KeepsStep /\ \A u \in Tasks \ {t} : task'[u] = task[u]
           /\ run' = run /\ handler' = handler /\ history' = history
<1>1. /\ t \in history.dropped /\ (Queue!Retry(t) \/ Queue!Override(t))
      /\ nats' = nats \cup {Available(t)}
      /\ run' = run /\ handler' = handler /\ history' = history
  BY DEF DlqRetry, Publish
<1>2. PICK n \in DlqCounts : task' = [task EXCEPT ![t].retries = n]
  BY DEF DlqRetry
<1>3. n \in Nat /\ DlqCounts # {}
  BY SwitchesAssumption
<1>4. /\ task' \in [Tasks -> TaskColumns] /\ task'[t].step = task[t].step
      /\ \A u \in Tasks \ {t} : task'[u] = task[u]
  BY <1>2, <1>3 DEF TypeOK, TaskColumns
<1>5. KeepsStep
  BY <1>4 DEF KeepsStep
<1>6. /\ Moves(t, Queue!Lives \ {"absent"}, "pending")
      /\ life' \in [Tasks -> Queue!Lives]
  BY <1>1, QueueMoves
<1>7. TypeOK'
  BY <1>1, <1>4, <1>6, MessageTypes DEF TypeOK
<1> QED BY <1>1, <1>3, <1>4, <1>5, <1>6, <1>7

LEMMA LoseMessageDoes ==
    ASSUME TypeOK, NEW m \in Messages, LoseMessage(m)
    PROVE  /\ TypeOK' /\ Faulty
           /\ nats' = nats \ {m}
           /\ run' = run /\ life' = life /\ task' = task /\ handler' = handler
           /\ history' = history
<1>1. /\ Faulty /\ nats' = nats \ {m} /\ run' = run /\ life' = life /\ task' = task
      /\ handler' = handler /\ history' = history
  BY DEF LoseMessage, Consume
<1> QED BY <1>1 DEF TypeOK

\* A crash ends all handlers, a statement that fails the one that made it.
Forgetting == CoordinatorCrash \/ \E h \in Handlers : HandlerFails(h)

LEMMA ForgettingDoes ==
    ASSUME TypeOK, Forgetting
    PROVE  /\ TypeOK' /\ Faulty
           /\ \A h \in Handlers : handler'[h] \in {IdleHandler, handler[h]}
           /\ run' = run /\ life' = life /\ task' = task /\ nats' = nats
           /\ history' = history
<1>1. /\ Faulty
      /\ \A h \in Handlers : handler'[h] \in {IdleHandler, handler[h]}
      /\ handler' \in [Handlers -> HandlerStates]
      /\ run' = run /\ life' = life /\ task' = task /\ nats' = nats
      /\ history' = history
  BY IdleType DEF Forgetting, CoordinatorCrash, HandlerFails, TypeOK
<1> QED BY <1>1 DEF TypeOK

\* What FailStep does but for the count it writes.
LEMMA FailStepMoves ==
    ASSUME TypeOK, NEW t \in Tasks, FailStep(t)
    PROVE  /\ Moves(t, {"held"}, "failed")
           /\ nats' = nats \cup {Failed(t)}
           /\ history'.done = history.done /\ history'.dropped = history.dropped
           /\ \A u \in Tasks \ {t} : history'.failures[u] = history.failures[u]
           /\ run' = run /\ task' = task /\ handler' = handler
BY FailStepDoes

-----------------------------------------------------------------------------
(* The base is inductive.                                                   *)

LEMMA BaseInit == Init => Base
<1> SUFFICES ASSUME Init PROVE Base
  OBVIOUS
<1>1. handler \in [Handlers -> HandlerStates]
  BY IdleType DEF Init
<1>2. run \in RunRows /\ life \in [Tasks -> Queue!Lives]
  BY LivesOf DEF Init, RunRows, Queue!Init
<1>3. task \in [Tasks -> TaskColumns] /\ nats \subseteq Messages
  BY DEF Init, TaskColumns
<1>4. history \in [done : SUBSET Tasks, dropped : SUBSET Tasks, failures : [Tasks -> Nat]]
  BY DEF Init
<1>5. LocalsOK
  BY DEF Init, LocalsOK, IdleHandler
<1>6. PresentOK
  BY DEF Init, PresentOK, IdleHandler
<1>7. StartOK
  BY DEF Init, StartOK, IdleHandler, Queue!Init
<1> QED BY <1>1, <1>2, <1>3, <1>4, <1>5, <1>6, <1>7 DEF Base, TypeOK

LEMMA Stutters ==
    ASSUME UNCHANGED vars
    PROVE  /\ run' = run /\ life' = life /\ task' = task /\ nats' = nats
           /\ handler' = handler /\ history' = history
BY DEF vars

LEMMA TypeStep == TypeOK /\ LocalsOK /\ [Next]_vars => TypeOK'
<1> SUFFICES ASSUME TypeOK /\ LocalsOK, [Next]_vars PROVE TypeOK'
  OBVIOUS
<1>1. ASSUME StartWorkflow PROVE TypeOK'
  BY <1>1, StartWorkflowDoes
<1>2. ASSUME NEW h \in Handlers, HandleStart(h) PROVE TypeOK'
  BY <1>2, HandleStartDoes
<1>3. ASSUME NEW h \in Handlers, CreateFirst(h) PROVE TypeOK'
  BY <1>3, CreateFirstDoes
<1>4. ASSUME NEW h \in Handlers, NEW t \in Tasks, NEW data \in BOOLEAN, HandleCompleted(h, t, data)
      PROVE TypeOK'
  BY <1>4, HandleCompletedDoes
<1>5. ASSUME NEW h \in Handlers, StoreResult(h) PROVE TypeOK'
  BY <1>5, StoreResultDoes
<1>6. ASSUME NEW h \in Handlers, Join(h) PROVE TypeOK'
  BY <1>6, JoinDoes
<1>7. ASSUME NEW h \in Handlers, AdvanceToGroup(h) PROVE TypeOK'
  BY <1>7, AdvanceToGroupDoes
<1>8. ASSUME NEW h \in Handlers, FanOutCreate(h) PROVE TypeOK'
  BY <1>8, FanOutCreateDoes
<1>9. ASSUME NEW h \in Handlers, FanOutSkip(h) PROVE TypeOK'
  BY <1>9, FanOutSkipDoes
<1>10. ASSUME NEW h \in Handlers, AdvanceToStep(h) PROVE TypeOK'
  BY <1>10, AdvanceToStepDoes
<1>11. ASSUME NEW h \in Handlers, CompleteRun(h) PROVE TypeOK'
  BY <1>11, CompleteRunDoes
<1>12. ASSUME NEW h \in Handlers, NEW t \in Tasks, HandleFailed(h, t) PROVE TypeOK'
  BY <1>12, HandleFailedDoes
<1>13. ASSUME NEW h \in Handlers, RetryStep(h) PROVE TypeOK'
  BY <1>13, RetryStepDoes
<1>14. ASSUME NEW h \in Handlers, WakeUp(h) PROVE TypeOK'
  BY <1>14, WakeUpDoes
<1>15. ASSUME NEW h \in Handlers, CallErrorHandler(h) PROVE TypeOK'
  BY <1>15, CallErrorHandlerDoes
<1>16. ASSUME NEW h \in Handlers, FailRun(h) PROVE TypeOK'
  BY <1>16, FailRunDoes
<1>17. ASSUME NEW t \in Tasks, ClaimStep(t) PROVE TypeOK'
  BY <1>17, ClaimStepDoes
<1>18. ASSUME NEW t \in Tasks, TakeStep(t) PROVE TypeOK'
  BY <1>18, TakeStepDoes
<1>19. ASSUME NEW t \in Tasks, ReleaseStep(t) PROVE TypeOK'
  BY <1>19, ReleaseStepDoes
<1>20. ASSUME NEW t \in Tasks, NEW data \in Answers, CompleteStep(t, data) PROVE TypeOK'
  BY <1>20, CompleteStepDoes
<1>21. ASSUME NEW t \in Tasks, FailStep(t) PROVE TypeOK'
  BY <1>21, FailStepDoes
<1>22. ASSUME NEW t \in Tasks, DropStep(t) PROVE TypeOK'
  BY <1>22, DropStepDoes
<1>23. ASSUME NEW t \in Tasks, DlqRetry(t) PROVE TypeOK'
  BY <1>23, DlqRetryDoes
<1>24. ASSUME NEW m \in Messages, LoseMessage(m) PROVE TypeOK'
  BY <1>24, LoseMessageDoes
<1>25. ASSUME Forgetting PROVE TypeOK'
  BY <1>25, ForgettingDoes
<1>26. CASE UNCHANGED vars
  BY <1>26, Stutters DEF TypeOK
<1> QED BY <1>1, <1>2, <1>3, <1>4, <1>5, <1>6, <1>7, <1>8, <1>9, <1>10,
           <1>11, <1>12, <1>13, <1>14, <1>15, <1>16, <1>17, <1>18,
           <1>19, <1>20, <1>21, <1>22, <1>23, <1>24, <1>25, <1>26
   DEF Next, HandlerNext, CompletedNext, FailedNext, QueueNext, FaultNext, Forgetting

LEMMA LocalsStep == Base /\ [Next]_vars => LocalsOK'
<1> SUFFICES ASSUME Base, [Next]_vars PROVE LocalsOK'
  OBVIOUS
<1> USE DEF Base
<1>1. ASSUME StartWorkflow PROVE LocalsOK'
  BY <1>1, StartWorkflowDoes
     DEF LocalsOK, Ends, Goes, Others, IdleHandler
<1>2. ASSUME NEW h \in Handlers, HandleStart(h) PROVE LocalsOK'
  BY <1>2, HandleStartDoes
     DEF LocalsOK, Ends, Goes, Others, IdleHandler
<1>3. ASSUME NEW h \in Handlers, CreateFirst(h) PROVE LocalsOK'
  BY <1>3, CreateFirstDoes
     DEF LocalsOK, Ends, Goes, Others, IdleHandler
<1>4. ASSUME NEW h \in Handlers, NEW t \in Tasks, NEW data \in BOOLEAN, HandleCompleted(h, t, data)
      PROVE LocalsOK'
  BY <1>4, HandleCompletedDoes
     DEF LocalsOK, Ends, Goes, Others, IdleHandler
<1>5. ASSUME NEW h \in Handlers, StoreResult(h) PROVE LocalsOK'
  BY <1>5, StoreResultDoes
     DEF LocalsOK, Ends, Goes, Others, IdleHandler
<1>6. ASSUME NEW h \in Handlers, Join(h) PROVE LocalsOK'
  BY <1>6, JoinDoes
     DEF LocalsOK, Ends, Goes, Others, IdleHandler
<1>7. ASSUME NEW h \in Handlers, AdvanceToGroup(h) PROVE LocalsOK'
  BY <1>7, AdvanceToGroupDoes, MembersAreSteps
     DEF Base, LocalsOK, Goes, Others
<1>8. ASSUME NEW h \in Handlers, FanOutCreate(h) PROVE LocalsOK'
  <2>1. PICK s \in handler[h].todo, t \in Tasks :
          /\ Others(h)
          /\ handler'[h].todo = handler[h].todo \ {s}
          /\ IF handler[h].todo = {s} THEN Ends(h) ELSE Goes(h, "fan")
    BY <1>8, FanOutCreateDoes
  <2>2. handler[h].pc = "fan"
    BY <1>8, FanOutCreateDoes
  <2> QED BY <2>1, <2>2 DEF LocalsOK, Ends, Goes, Others, IdleHandler
<1>9. ASSUME NEW h \in Handlers, FanOutSkip(h) PROVE LocalsOK'
  <2>1. PICK s \in handler[h].todo :
          /\ Others(h)
          /\ handler'[h].todo = handler[h].todo \ {s}
          /\ IF handler[h].todo = {s} THEN Ends(h) ELSE Goes(h, "fan")
    BY <1>9, FanOutSkipDoes
  <2>2. handler[h].pc = "fan"
    BY <1>9, FanOutSkipDoes
  <2> QED BY <2>1, <2>2 DEF LocalsOK, Ends, Goes, Others, IdleHandler
<1>10. ASSUME NEW h \in Handlers, AdvanceToStep(h) PROVE LocalsOK'
  BY <1>10, AdvanceToStepDoes
     DEF LocalsOK, Ends, Goes, Others, IdleHandler
<1>11. ASSUME NEW h \in Handlers, CompleteRun(h) PROVE LocalsOK'
  BY <1>11, CompleteRunDoes
     DEF LocalsOK, Ends, Goes, Others, IdleHandler
<1>12. ASSUME NEW h \in Handlers, NEW t \in Tasks, HandleFailed(h, t) PROVE LocalsOK'
  BY <1>12, HandleFailedDoes
     DEF LocalsOK, Ends, Goes, Others, IdleHandler
<1>13. ASSUME NEW h \in Handlers, RetryStep(h) PROVE LocalsOK'
  BY <1>13, RetryStepDoes
     DEF LocalsOK, Ends, Goes, Others, IdleHandler
<1>14. ASSUME NEW h \in Handlers, WakeUp(h) PROVE LocalsOK'
  BY <1>14, WakeUpDoes
     DEF LocalsOK, Ends, Goes, Others, IdleHandler
<1>15. ASSUME NEW h \in Handlers, CallErrorHandler(h) PROVE LocalsOK'
  BY <1>15, CallErrorHandlerDoes
     DEF LocalsOK, Ends, Goes, Others, IdleHandler
<1>16. ASSUME NEW h \in Handlers, FailRun(h) PROVE LocalsOK'
  BY <1>16, FailRunDoes
     DEF LocalsOK, Ends, Goes, Others, IdleHandler
<1>17. ASSUME NEW t \in Tasks, ClaimStep(t) PROVE LocalsOK'
  BY <1>17, ClaimStepDoes
     DEF LocalsOK, Ends, Goes, Others, IdleHandler
<1>18. ASSUME NEW t \in Tasks, TakeStep(t) PROVE LocalsOK'
  BY <1>18, TakeStepDoes
     DEF LocalsOK, Ends, Goes, Others, IdleHandler
<1>19. ASSUME NEW t \in Tasks, ReleaseStep(t) PROVE LocalsOK'
  BY <1>19, ReleaseStepDoes
     DEF LocalsOK, Ends, Goes, Others, IdleHandler
<1>20. ASSUME NEW t \in Tasks, NEW data \in Answers, CompleteStep(t, data) PROVE LocalsOK'
  BY <1>20, CompleteStepDoes
     DEF LocalsOK, Ends, Goes, Others, IdleHandler
<1>21. ASSUME NEW t \in Tasks, FailStep(t) PROVE LocalsOK'
  BY <1>21, FailStepDoes
     DEF LocalsOK, Ends, Goes, Others, IdleHandler
<1>22. ASSUME NEW t \in Tasks, DropStep(t) PROVE LocalsOK'
  BY <1>22, DropStepDoes
     DEF LocalsOK, Ends, Goes, Others, IdleHandler
<1>23. ASSUME NEW t \in Tasks, DlqRetry(t) PROVE LocalsOK'
  BY <1>23, DlqRetryDoes
     DEF LocalsOK, Ends, Goes, Others, IdleHandler
<1>24. ASSUME NEW m \in Messages, LoseMessage(m) PROVE LocalsOK'
  BY <1>24, LoseMessageDoes
     DEF LocalsOK, Ends, Goes, Others, IdleHandler
<1>25. ASSUME Forgetting PROVE LocalsOK'
  BY <1>25, ForgettingDoes
     DEF LocalsOK, Ends, Goes, Others, IdleHandler
<1>26. CASE UNCHANGED vars
  BY <1>26, Stutters DEF LocalsOK
<1> QED BY <1>1, <1>2, <1>3, <1>4, <1>5, <1>6, <1>7, <1>8, <1>9, <1>10,
           <1>11, <1>12, <1>13, <1>14, <1>15, <1>16, <1>17, <1>18,
           <1>19, <1>20, <1>21, <1>22, <1>23, <1>24, <1>25, <1>26
   DEF Next, HandlerNext, CompletedNext, FailedNext, QueueNext, FaultNext, Forgetting
LEMMA PresentStep == Base /\ [Next]_vars => PresentOK'
<1> SUFFICES ASSUME Base, [Next]_vars PROVE PresentOK'
  OBVIOUS
<1> USE DEF Base
<1>1. ASSUME StartWorkflow PROVE PresentOK'
  BY <1>1, StartWorkflowDoes, MessagesDiffer
     DEF PresentOK, LocalsOK, Ends, Goes, Others, IdleHandler, Moves, NewTask
<1>2. ASSUME NEW h \in Handlers, HandleStart(h) PROVE PresentOK'
  BY <1>2, HandleStartDoes, MessagesDiffer
     DEF PresentOK, LocalsOK, Ends, Goes, Others, IdleHandler, Moves, NewTask
<1>3. ASSUME NEW h \in Handlers, CreateFirst(h) PROVE PresentOK'
  BY <1>3, CreateFirstDoes, MessagesDiffer
     DEF PresentOK, LocalsOK, Ends, Goes, Others, IdleHandler, Moves, NewTask
<1>4. ASSUME NEW h \in Handlers, NEW t \in Tasks, NEW data \in BOOLEAN, HandleCompleted(h, t, data)
      PROVE PresentOK'
  BY <1>4, HandleCompletedDoes, MessagesDiffer
     DEF PresentOK, LocalsOK, Ends, Goes, Others, IdleHandler, Moves, NewTask
<1>5. ASSUME NEW h \in Handlers, StoreResult(h) PROVE PresentOK'
  BY <1>5, StoreResultDoes, MessagesDiffer
     DEF PresentOK, LocalsOK, Ends, Goes, Others, IdleHandler, Moves, NewTask
<1>6. ASSUME NEW h \in Handlers, Join(h) PROVE PresentOK'
  BY <1>6, JoinDoes, MessagesDiffer
     DEF PresentOK, LocalsOK, Ends, Goes, Others, IdleHandler, Moves, NewTask
<1>7. ASSUME NEW h \in Handlers, AdvanceToGroup(h) PROVE PresentOK'
  BY <1>7, AdvanceToGroupDoes, MessagesDiffer
     DEF PresentOK, LocalsOK, Ends, Goes, Others, IdleHandler, Moves, NewTask
<1>8. ASSUME NEW h \in Handlers, FanOutCreate(h) PROVE PresentOK'
  BY <1>8, FanOutCreateDoes, MessagesDiffer
     DEF PresentOK, LocalsOK, Ends, Goes, Others, IdleHandler, Moves, NewTask
<1>9. ASSUME NEW h \in Handlers, FanOutSkip(h) PROVE PresentOK'
  BY <1>9, FanOutSkipDoes, MessagesDiffer
     DEF PresentOK, LocalsOK, Ends, Goes, Others, IdleHandler, Moves, NewTask
<1>10. ASSUME NEW h \in Handlers, AdvanceToStep(h) PROVE PresentOK'
  BY <1>10, AdvanceToStepDoes, MessagesDiffer
     DEF PresentOK, LocalsOK, Ends, Goes, Others, IdleHandler, Moves, NewTask
<1>11. ASSUME NEW h \in Handlers, CompleteRun(h) PROVE PresentOK'
  BY <1>11, CompleteRunDoes, MessagesDiffer
     DEF PresentOK, LocalsOK, Ends, Goes, Others, IdleHandler, Moves, NewTask
<1>12. ASSUME NEW h \in Handlers, NEW t \in Tasks, HandleFailed(h, t) PROVE PresentOK'
  BY <1>12, HandleFailedDoes, MessagesDiffer
     DEF PresentOK, LocalsOK, Ends, Goes, Others, IdleHandler, Moves, NewTask
<1>13. ASSUME NEW h \in Handlers, RetryStep(h) PROVE PresentOK'
  BY <1>13, RetryStepDoes, MessagesDiffer
     DEF PresentOK, LocalsOK, Ends, Goes, Others, IdleHandler, Moves, NewTask
<1>14. ASSUME NEW h \in Handlers, WakeUp(h) PROVE PresentOK'
  BY <1>14, WakeUpDoes, MessagesDiffer
     DEF PresentOK, LocalsOK, Ends, Goes, Others, IdleHandler, Moves, NewTask
<1>15. ASSUME NEW h \in Handlers, CallErrorHandler(h) PROVE PresentOK'
  BY <1>15, CallErrorHandlerDoes, MessagesDiffer
     DEF PresentOK, LocalsOK, Ends, Goes, Others, IdleHandler, Moves, NewTask
<1>16. ASSUME NEW h \in Handlers, FailRun(h) PROVE PresentOK'
  BY <1>16, FailRunDoes, MessagesDiffer
     DEF PresentOK, LocalsOK, Ends, Goes, Others, IdleHandler, Moves, NewTask
<1>17. ASSUME NEW t \in Tasks, ClaimStep(t) PROVE PresentOK'
  BY <1>17, ClaimStepDoes, MessagesDiffer
     DEF PresentOK, LocalsOK, Ends, Goes, Others, IdleHandler, Moves, NewTask
<1>18. ASSUME NEW t \in Tasks, TakeStep(t) PROVE PresentOK'
  BY <1>18, TakeStepDoes, MessagesDiffer
     DEF PresentOK, LocalsOK, Ends, Goes, Others, IdleHandler, Moves, NewTask
<1>19. ASSUME NEW t \in Tasks, ReleaseStep(t) PROVE PresentOK'
  BY <1>19, ReleaseStepDoes, MessagesDiffer
     DEF PresentOK, LocalsOK, Ends, Goes, Others, IdleHandler, Moves, NewTask
<1>20. ASSUME NEW t \in Tasks, NEW data \in Answers, CompleteStep(t, data) PROVE PresentOK'
  BY <1>20, CompleteStepDoes, MessagesDiffer
     DEF PresentOK, LocalsOK, Ends, Goes, Others, IdleHandler, Moves, NewTask
<1>21. ASSUME NEW t \in Tasks, FailStep(t) PROVE PresentOK'
  <2>1. /\ life[t] # "absent" /\ life'[t] = "failed"
        /\ \A u \in Tasks \ {t} : life'[u] = life[u]
        /\ nats' = nats \cup {Failed(t)} /\ handler' = handler
        /\ history'.done = history.done /\ history'.dropped = history.dropped
        /\ \A u \in Tasks \ {t} : history'.failures[u] = history.failures[u]
    BY <1>21, FailStepMoves DEF Moves
  <2>2. ASSUME NEW u \in Tasks, life'[u] = "absent"
        PROVE  /\ Available(u) \notin nats' /\ Failed(u) \notin nats'
               /\ \A data \in BOOLEAN : Completed(u, data) \notin nats'
               /\ u \notin history'.done \cup history'.dropped
               /\ history'.failures[u] = 0
    <3>1. u # t /\ life[u] = "absent"
      BY <2>1, <2>2
    <3> QED BY <2>1, <3>1, MessagesDiffer DEF PresentOK
  <2> QED BY <2>1, <2>2 DEF PresentOK, LocalsOK
<1>22. ASSUME NEW t \in Tasks, DropStep(t) PROVE PresentOK'
  BY <1>22, DropStepDoes, MessagesDiffer
     DEF PresentOK, LocalsOK, Ends, Goes, Others, IdleHandler, Moves, NewTask
<1>23. ASSUME NEW t \in Tasks, DlqRetry(t) PROVE PresentOK'
  BY <1>23, DlqRetryDoes, MessagesDiffer
     DEF PresentOK, LocalsOK, Ends, Goes, Others, IdleHandler, Moves, NewTask
<1>24. ASSUME NEW m \in Messages, LoseMessage(m) PROVE PresentOK'
  BY <1>24, LoseMessageDoes, MessagesDiffer
     DEF PresentOK, LocalsOK, Ends, Goes, Others, IdleHandler, Moves, NewTask
<1>25. ASSUME Forgetting PROVE PresentOK'
  BY <1>25, ForgettingDoes, MessagesDiffer
     DEF PresentOK, LocalsOK, Ends, Goes, Others, IdleHandler, Moves, NewTask
<1>26. CASE UNCHANGED vars
  BY <1>26, Stutters DEF PresentOK
<1> QED BY <1>1, <1>2, <1>3, <1>4, <1>5, <1>6, <1>7, <1>8, <1>9, <1>10,
           <1>11, <1>12, <1>13, <1>14, <1>15, <1>16, <1>17, <1>18,
           <1>19, <1>20, <1>21, <1>22, <1>23, <1>24, <1>25, <1>26
   DEF Next, HandlerNext, CompletedNext, FailedNext, QueueNext, FaultNext, Forgetting

LEMMA StartStep == Base /\ [Next]_vars => StartOK'
<1> SUFFICES ASSUME Base, [Next]_vars PROVE StartOK'
  OBVIOUS
<1> USE DEF Base
<1>1. ASSUME StartWorkflow PROVE StartOK'
  BY <1>1, StartWorkflowDoes, MessagesDiffer
     DEF StartOK, PresentOK, LocalsOK, Ends, Goes, Others, IdleHandler, Moves, NewTask
<1>2. ASSUME NEW h \in Handlers, HandleStart(h) PROVE StartOK'
  BY <1>2, HandleStartDoes, MessagesDiffer
     DEF StartOK, PresentOK, LocalsOK, Ends, Goes, Others, IdleHandler, Moves, NewTask
<1>3. ASSUME NEW h \in Handlers, CreateFirst(h) PROVE StartOK'
  BY <1>3, CreateFirstDoes, MessagesDiffer
     DEF StartOK, PresentOK, LocalsOK, Ends, Goes, Others, IdleHandler, Moves, NewTask
<1>4. ASSUME NEW h \in Handlers, NEW t \in Tasks, NEW data \in BOOLEAN, HandleCompleted(h, t, data)
      PROVE StartOK'
  BY <1>4, HandleCompletedDoes, MessagesDiffer
     DEF StartOK, PresentOK, LocalsOK, Ends, Goes, Others, IdleHandler, Moves, NewTask
<1>5. ASSUME NEW h \in Handlers, StoreResult(h) PROVE StartOK'
  BY <1>5, StoreResultDoes, MessagesDiffer
     DEF StartOK, PresentOK, LocalsOK, Ends, Goes, Others, IdleHandler, Moves, NewTask
<1>6. ASSUME NEW h \in Handlers, Join(h) PROVE StartOK'
  BY <1>6, JoinDoes, MessagesDiffer
     DEF StartOK, PresentOK, LocalsOK, Ends, Goes, Others, IdleHandler, Moves, NewTask
<1>7. ASSUME NEW h \in Handlers, AdvanceToGroup(h) PROVE StartOK'
  BY <1>7, AdvanceToGroupDoes, MessagesDiffer
     DEF StartOK, PresentOK, LocalsOK, Ends, Goes, Others, IdleHandler, Moves, NewTask
<1>8. ASSUME NEW h \in Handlers, FanOutCreate(h) PROVE StartOK'
  BY <1>8, FanOutCreateDoes, MessagesDiffer
     DEF StartOK, PresentOK, LocalsOK, Ends, Goes, Others, IdleHandler, Moves, NewTask
<1>9. ASSUME NEW h \in Handlers, FanOutSkip(h) PROVE StartOK'
  BY <1>9, FanOutSkipDoes, MessagesDiffer
     DEF StartOK, PresentOK, LocalsOK, Ends, Goes, Others, IdleHandler, Moves, NewTask
<1>10. ASSUME NEW h \in Handlers, AdvanceToStep(h) PROVE StartOK'
  BY <1>10, AdvanceToStepDoes, MessagesDiffer
     DEF StartOK, PresentOK, LocalsOK, Ends, Goes, Others, IdleHandler, Moves, NewTask
<1>11. ASSUME NEW h \in Handlers, CompleteRun(h) PROVE StartOK'
  BY <1>11, CompleteRunDoes, MessagesDiffer
     DEF StartOK, PresentOK, LocalsOK, Ends, Goes, Others, IdleHandler, Moves, NewTask
<1>12. ASSUME NEW h \in Handlers, NEW t \in Tasks, HandleFailed(h, t) PROVE StartOK'
  BY <1>12, HandleFailedDoes, MessagesDiffer
     DEF StartOK, PresentOK, LocalsOK, Ends, Goes, Others, IdleHandler, Moves, NewTask
<1>13. ASSUME NEW h \in Handlers, RetryStep(h) PROVE StartOK'
  BY <1>13, RetryStepDoes, MessagesDiffer
     DEF StartOK, PresentOK, LocalsOK, Ends, Goes, Others, IdleHandler, Moves, NewTask
<1>14. ASSUME NEW h \in Handlers, WakeUp(h) PROVE StartOK'
  BY <1>14, WakeUpDoes, MessagesDiffer
     DEF StartOK, PresentOK, LocalsOK, Ends, Goes, Others, IdleHandler, Moves, NewTask
<1>15. ASSUME NEW h \in Handlers, CallErrorHandler(h) PROVE StartOK'
  BY <1>15, CallErrorHandlerDoes, MessagesDiffer
     DEF StartOK, PresentOK, LocalsOK, Ends, Goes, Others, IdleHandler, Moves, NewTask
<1>16. ASSUME NEW h \in Handlers, FailRun(h) PROVE StartOK'
  BY <1>16, FailRunDoes, MessagesDiffer
     DEF StartOK, PresentOK, LocalsOK, Ends, Goes, Others, IdleHandler, Moves, NewTask
<1>17. ASSUME NEW t \in Tasks, ClaimStep(t) PROVE StartOK'
  BY <1>17, ClaimStepDoes, MessagesDiffer
     DEF StartOK, PresentOK, LocalsOK, Ends, Goes, Others, IdleHandler, Moves, NewTask
<1>18. ASSUME NEW t \in Tasks, TakeStep(t) PROVE StartOK'
  BY <1>18, TakeStepDoes, MessagesDiffer
     DEF StartOK, PresentOK, LocalsOK, Ends, Goes, Others, IdleHandler, Moves, NewTask
<1>19. ASSUME NEW t \in Tasks, ReleaseStep(t) PROVE StartOK'
  BY <1>19, ReleaseStepDoes, MessagesDiffer
     DEF StartOK, PresentOK, LocalsOK, Ends, Goes, Others, IdleHandler, Moves, NewTask
<1>20. ASSUME NEW t \in Tasks, NEW data \in Answers, CompleteStep(t, data) PROVE StartOK'
  BY <1>20, CompleteStepDoes, MessagesDiffer
     DEF StartOK, PresentOK, LocalsOK, Ends, Goes, Others, IdleHandler, Moves, NewTask
<1>21. ASSUME NEW t \in Tasks, FailStep(t) PROVE StartOK'
  BY <1>21, FailStepMoves, MessagesDiffer DEF StartOK, PresentOK, Moves
<1>22. ASSUME NEW t \in Tasks, DropStep(t) PROVE StartOK'
  BY <1>22, DropStepDoes, MessagesDiffer
     DEF StartOK, PresentOK, LocalsOK, Ends, Goes, Others, IdleHandler, Moves, NewTask
<1>23. ASSUME NEW t \in Tasks, DlqRetry(t) PROVE StartOK'
  BY <1>23, DlqRetryDoes, MessagesDiffer
     DEF StartOK, PresentOK, LocalsOK, Ends, Goes, Others, IdleHandler, Moves, NewTask
<1>24. ASSUME NEW m \in Messages, LoseMessage(m) PROVE StartOK'
  BY <1>24, LoseMessageDoes, MessagesDiffer
     DEF StartOK, PresentOK, LocalsOK, Ends, Goes, Others, IdleHandler, Moves, NewTask
<1>25. ASSUME Forgetting PROVE StartOK'
  BY <1>25, ForgettingDoes, MessagesDiffer
     DEF StartOK, PresentOK, LocalsOK, Ends, Goes, Others, IdleHandler, Moves, NewTask
<1>26. CASE UNCHANGED vars
  BY <1>26, Stutters DEF StartOK
<1> QED BY <1>1, <1>2, <1>3, <1>4, <1>5, <1>6, <1>7, <1>8, <1>9, <1>10,
           <1>11, <1>12, <1>13, <1>14, <1>15, <1>16, <1>17, <1>18,
           <1>19, <1>20, <1>21, <1>22, <1>23, <1>24, <1>25, <1>26
   DEF Next, HandlerNext, CompletedNext, FailedNext, QueueNext, FaultNext, Forgetting

LEMMA BaseStep == Base /\ [Next]_vars => Base'
<1> SUFFICES ASSUME Base, [Next]_vars PROVE Base'
  OBVIOUS
<1>1. TypeOK' /\ LocalsOK'
  BY TypeStep, LocalsStep DEF Base
<1>2. PresentOK' /\ StartOK'
  BY PresentStep, StartStep
<1> QED BY <1>1, <1>2 DEF Base

\* In every state of a run, whatever the formula, the messages lost, the
\* crashes of the coordinator and the retries from the dead-letter queue:
\* what the handlers read, compute and write back keeps its type.
THEOREM TypeCorrect == Spec => []TypeOK
<1>1. Base => TypeOK
  BY DEF Base
<1> QED BY <1>1, BaseInit, BaseStep, PTL DEF Spec

LEMMA BaseHolds == Spec => []Base
BY BaseInit, BaseStep, PTL DEF Spec

-----------------------------------------------------------------------------
(* Without retries from the dead-letter queue a completion, and a failure,  *)
(* is handled once.                                                         *)

NoDlq == DlqCounts = {}

\* A handler that has the completion, or the failure, of a task in hand.
InHand(h, t) == handler[h].pc \in {"store", "join", "advance"} /\ handler[h].task = t
Recovers(h, t) == handler[h].pc = "recover" /\ handler[h].task = t

CompletionsOK ==
    /\ \A t \in Tasks : life[t] = "completed" <=> t \in history.done
    /\ \A t \in Tasks, data \in BOOLEAN : Completed(t, data) \in nats =>
         /\ t \in history.done
         /\ Completed(t, ~data) \notin nats
         /\ \A h \in Handlers : ~InHand(h, t)
    /\ \A t \in Tasks, h \in Handlers : InHand(h, t) =>
         /\ t \in history.done
         /\ \A k \in Handlers : InHand(k, t) => k = h
    /\ \A h \in Handlers : handler[h].pc \in {"store", "join", "advance", "fan"} =>
         /\ handler[h].task \in history.done
         /\ handler[h].step = StepOf(handler[h].task)

FailuresOK == \A t \in Tasks :
    /\ Failed(t) \in nats =>
         /\ life[t] = "failed"
         /\ \A h \in Handlers : ~Recovers(h, t)
         /\ history.failures[t] > task[t].retries
    /\ \A h \in Handlers : Recovers(h, t) =>
         /\ life[t] = "failed"
         /\ handler[h].step = StepOf(t)
         /\ handler[h].count = task[t].retries
         /\ history.failures[t] > task[t].retries
         /\ \A k \in Handlers : Recovers(k, t) => k = h

CountsOK == \A t \in Tasks :
    /\ task[t].retries <= history.failures[t]
    /\ task[t].retries <= Retries[StepOf(t)]

Ledger == NoDlq /\ Base /\ CompletionsOK /\ FailuresOK /\ CountsOK /\ GivesUpAfterRetries
LEMMA CompletionsStep == Ledger /\ [Next]_vars => CompletionsOK'
<1> SUFFICES ASSUME Ledger, [Next]_vars PROVE CompletionsOK'
  OBVIOUS
<1> USE DEF Ledger, Base
<1>1. ASSUME StartWorkflow PROVE CompletionsOK'
  BY <1>1, StartWorkflowDoes, MessagesDiffer
     DEF CompletionsOK, FailuresOK, Recovers, InHand, StepOf, LocalsOK, PresentOK, Ends,
         Goes, Others, IdleHandler, Moves, NewTask
<1>2. ASSUME NEW h \in Handlers, HandleStart(h) PROVE CompletionsOK'
  BY <1>2, HandleStartDoes, MessagesDiffer
     DEF CompletionsOK, FailuresOK, Recovers, InHand, StepOf, LocalsOK, PresentOK, Ends,
         Goes, Others, IdleHandler, Moves, NewTask
<1>3. ASSUME NEW h \in Handlers, CreateFirst(h) PROVE CompletionsOK'
  BY <1>3, CreateFirstDoes, MessagesDiffer
     DEF CompletionsOK, FailuresOK, Recovers, InHand, StepOf, LocalsOK, PresentOK, Ends,
         Goes, Others, IdleHandler, Moves, NewTask
<1>4. ASSUME NEW h \in Handlers, NEW t \in Tasks, NEW data \in BOOLEAN, HandleCompleted(h, t, data)
      PROVE CompletionsOK'
  BY <1>4, HandleCompletedDoes, MessagesDiffer
     DEF CompletionsOK, FailuresOK, Recovers, InHand, StepOf, LocalsOK, PresentOK, Ends,
         Goes, Others, IdleHandler, Moves, NewTask
<1>5. ASSUME NEW h \in Handlers, StoreResult(h) PROVE CompletionsOK'
  BY <1>5, StoreResultDoes, MessagesDiffer
     DEF CompletionsOK, FailuresOK, Recovers, InHand, StepOf, LocalsOK, PresentOK, Ends,
         Goes, Others, IdleHandler, Moves, NewTask
<1>6. ASSUME NEW h \in Handlers, Join(h) PROVE CompletionsOK'
  BY <1>6, JoinDoes, MessagesDiffer
     DEF CompletionsOK, FailuresOK, Recovers, InHand, StepOf, LocalsOK, PresentOK, Ends,
         Goes, Others, IdleHandler, Moves, NewTask
<1>7. ASSUME NEW h \in Handlers, AdvanceToGroup(h) PROVE CompletionsOK'
  BY <1>7, AdvanceToGroupDoes, MessagesDiffer
     DEF CompletionsOK, FailuresOK, Recovers, InHand, StepOf, LocalsOK, PresentOK, Ends,
         Goes, Others, IdleHandler, Moves, NewTask
<1>8. ASSUME NEW h \in Handlers, FanOutCreate(h) PROVE CompletionsOK'
  BY <1>8, FanOutCreateDoes, MessagesDiffer
     DEF CompletionsOK, FailuresOK, Recovers, InHand, StepOf, LocalsOK, PresentOK, Ends,
         Goes, Others, IdleHandler, Moves, NewTask
<1>9. ASSUME NEW h \in Handlers, FanOutSkip(h) PROVE CompletionsOK'
  BY <1>9, FanOutSkipDoes, MessagesDiffer
     DEF CompletionsOK, FailuresOK, Recovers, InHand, StepOf, LocalsOK, PresentOK, Ends,
         Goes, Others, IdleHandler, Moves, NewTask
<1>10. ASSUME NEW h \in Handlers, AdvanceToStep(h) PROVE CompletionsOK'
  BY <1>10, AdvanceToStepDoes, MessagesDiffer
     DEF CompletionsOK, FailuresOK, Recovers, InHand, StepOf, LocalsOK, PresentOK, Ends,
         Goes, Others, IdleHandler, Moves, NewTask
<1>11. ASSUME NEW h \in Handlers, CompleteRun(h) PROVE CompletionsOK'
  BY <1>11, CompleteRunDoes, MessagesDiffer
     DEF CompletionsOK, FailuresOK, Recovers, InHand, StepOf, LocalsOK, PresentOK, Ends,
         Goes, Others, IdleHandler, Moves, NewTask
<1>12. ASSUME NEW h \in Handlers, NEW t \in Tasks, HandleFailed(h, t) PROVE CompletionsOK'
  BY <1>12, HandleFailedDoes, MessagesDiffer
     DEF CompletionsOK, FailuresOK, Recovers, InHand, StepOf, LocalsOK, PresentOK, Ends,
         Goes, Others, IdleHandler, Moves, NewTask
<1>13. ASSUME NEW h \in Handlers, RetryStep(h) PROVE CompletionsOK'
  BY <1>13, RetryStepDoes, MessagesDiffer
     DEF CompletionsOK, FailuresOK, Recovers, InHand, StepOf, LocalsOK, PresentOK, Ends,
         Goes, Others, IdleHandler, Moves, NewTask
<1>14. ASSUME NEW h \in Handlers, WakeUp(h) PROVE CompletionsOK'
  BY <1>14, WakeUpDoes, MessagesDiffer
     DEF CompletionsOK, FailuresOK, Recovers, InHand, StepOf, LocalsOK, PresentOK, Ends,
         Goes, Others, IdleHandler, Moves, NewTask
<1>15. ASSUME NEW h \in Handlers, CallErrorHandler(h) PROVE CompletionsOK'
  BY <1>15, CallErrorHandlerDoes, MessagesDiffer
     DEF CompletionsOK, FailuresOK, Recovers, InHand, StepOf, LocalsOK, PresentOK, Ends,
         Goes, Others, IdleHandler, Moves, NewTask
<1>16. ASSUME NEW h \in Handlers, FailRun(h) PROVE CompletionsOK'
  BY <1>16, FailRunDoes, MessagesDiffer
     DEF CompletionsOK, FailuresOK, Recovers, InHand, StepOf, LocalsOK, PresentOK, Ends,
         Goes, Others, IdleHandler, Moves, NewTask
<1>17. ASSUME NEW t \in Tasks, ClaimStep(t) PROVE CompletionsOK'
  BY <1>17, ClaimStepDoes, MessagesDiffer
     DEF CompletionsOK, FailuresOK, Recovers, InHand, StepOf, LocalsOK, PresentOK, Ends,
         Goes, Others, IdleHandler, Moves, NewTask
<1>18. ASSUME NEW t \in Tasks, TakeStep(t) PROVE CompletionsOK'
  BY <1>18, TakeStepDoes, MessagesDiffer
     DEF CompletionsOK, FailuresOK, Recovers, InHand, StepOf, LocalsOK, PresentOK, Ends,
         Goes, Others, IdleHandler, Moves, NewTask
<1>19. ASSUME NEW t \in Tasks, ReleaseStep(t) PROVE CompletionsOK'
  BY <1>19, ReleaseStepDoes, MessagesDiffer
     DEF CompletionsOK, FailuresOK, Recovers, InHand, StepOf, LocalsOK, PresentOK, Ends,
         Goes, Others, IdleHandler, Moves, NewTask
<1>20. ASSUME NEW t \in Tasks, NEW data \in Answers, CompleteStep(t, data) PROVE CompletionsOK'
  <2>1. /\ life[t] = "held" /\ life'[t] = "completed" /\ data \in BOOLEAN
        /\ \A u \in Tasks \ {t} : life'[u] = life[u]
        /\ nats' = nats \cup {Completed(t, data)} /\ handler' = handler
        /\ history'.done = history.done \cup {t} /\ task' = task
    BY <1>20, CompleteStepDoes DEF Moves
  <2>2. t \notin history.done
    BY <2>1 DEF CompletionsOK
  <2>3. /\ \A e \in BOOLEAN : Completed(t, e) \notin nats
        /\ \A k \in Handlers : ~InHand(k, t)
    BY <2>2 DEF CompletionsOK
  <2>4. \A u \in Tasks : life'[u] = "completed" <=> u \in history'.done
    BY <2>1 DEF CompletionsOK
  <2>5. ASSUME NEW u \in Tasks, NEW e \in BOOLEAN, Completed(u, e) \in nats'
        PROVE  /\ u \in history'.done
               /\ Completed(u, ~e) \notin nats'
               /\ \A k \in Handlers : ~InHand(k, u)
    <3>1. CASE Completed(u, e) \in nats
      BY <2>1, <2>3, <3>1, MessagesDiffer DEF CompletionsOK
    <3>2. CASE u = t /\ e = data
      BY <2>1, <2>3, <3>2, MessagesDiffer
    <3> QED BY <2>1, <2>5, <3>1, <3>2, MessagesDiffer
  <2> QED BY <2>1, <2>4, <2>5 DEF CompletionsOK, InHand, StepOf
<1>21. ASSUME NEW t \in Tasks, FailStep(t) PROVE CompletionsOK'
  BY <1>21, FailStepMoves, MessagesDiffer DEF CompletionsOK, InHand, StepOf, Moves
<1>22. ASSUME NEW t \in Tasks, DropStep(t) PROVE CompletionsOK'
  BY <1>22, DropStepDoes, MessagesDiffer
     DEF CompletionsOK, FailuresOK, Recovers, InHand, StepOf, LocalsOK, PresentOK, Ends,
         Goes, Others, IdleHandler, Moves, NewTask
<1>23. ASSUME NEW t \in Tasks, DlqRetry(t) PROVE CompletionsOK'
  BY <1>23, DlqRetryDoes DEF NoDlq
<1>24. ASSUME NEW m \in Messages, LoseMessage(m) PROVE CompletionsOK'
  BY <1>24, LoseMessageDoes, MessagesDiffer
     DEF CompletionsOK, FailuresOK, Recovers, InHand, StepOf, LocalsOK, PresentOK, Ends,
         Goes, Others, IdleHandler, Moves, NewTask
<1>25. ASSUME Forgetting PROVE CompletionsOK'
  BY <1>25, ForgettingDoes, MessagesDiffer
     DEF CompletionsOK, FailuresOK, Recovers, InHand, StepOf, LocalsOK, PresentOK, Ends,
         Goes, Others, IdleHandler, Moves, NewTask
<1>26. CASE UNCHANGED vars
  BY <1>26, Stutters DEF CompletionsOK, InHand, StepOf
<1> QED BY <1>1, <1>2, <1>3, <1>4, <1>5, <1>6, <1>7, <1>8, <1>9, <1>10,
           <1>11, <1>12, <1>13, <1>14, <1>15, <1>16, <1>17, <1>18,
           <1>19, <1>20, <1>21, <1>22, <1>23, <1>24, <1>25, <1>26
   DEF Next, HandlerNext, CompletedNext, FailedNext, QueueNext, FaultNext, Forgetting

LEMMA NewTaskCounts ==
    ASSUME TypeOK, TypeOK', PresentOK, CountsOK, NEW t \in Tasks, NEW s, NewTask(t, s),
           history' = history
    PROVE  CountsOK'
<1>1. life[t] = "absent" /\ task'[t].retries = 0 /\ \A u \in Tasks \ {t} : task'[u] = task[u]
  BY DEF NewTask, Moves
<1>2. history.failures[t] = 0
  BY <1>1 DEF PresentOK
<1>3. StepOf(t)' \in Steps
  BY FirstStep DEF TypeOK, TaskColumns, StepOf
<1>4. Retries[StepOf(t)'] \in Nat
  BY <1>3, FormulaAssumption
<1>5. \A u \in Tasks \ {t} : StepOf(u)' = StepOf(u)
  BY <1>1 DEF StepOf
<1> QED BY <1>1, <1>2, <1>4, <1>5 DEF CountsOK

LEMMA FailStepCounts ==
    ASSUME TypeOK, CountsOK, NEW t \in Tasks, FailStep(t)
    PROVE  /\ history'.failures[t] > task[t].retries
           /\ history.failures[t] > Retries[StepOf(t)]
                => history'.failures[t] > Retries[StepOf(t)]
<1> DEFINE f == history.failures[t]
           r == Retries[StepOf(t)]
<1>1. history'.failures[t] = Min({f, r}) + 1
  BY FailStepDoes
<1>2. f \in Nat /\ r \in Nat /\ task[t].retries \in Nat
  BY HistoryParts, StepOfType, FormulaAssumption, TaskParts
<1>3. task[t].retries <= f /\ task[t].retries <= r
  BY DEF CountsOK
<1>4. Min({f, r}) \in {f, r} /\ Min({f, r}) <= f /\ Min({f, r}) <= r
  BY <1>2, MinOfTwo
<1> HIDE DEF f, r
<1>5. history'.failures[t] > task[t].retries /\ (f > r => history'.failures[t] > r)
  BY <1>1, <1>2, <1>3, <1>4
<1> QED BY <1>5 DEF f, r

LEMMA NewTaskGivesUp ==
    ASSUME TypeOK, PresentOK, NEW t \in Tasks, NEW s, NewTask(t, s),
           s # NoStep \/ (\E u \in Tasks : history.failures[u] > Retries[StepOf(u)]),
           GivesUpAfterRetries, history' = history, run' = run
    PROVE  GivesUpAfterRetries'
<1>1. /\ life[t] = "absent" /\ task'[t].step = s
      /\ \A u \in Tasks \ {t} : task'[u] = task[u] /\ life'[u] = life[u]
  BY DEF NewTask, Moves
<1>2. history.failures[t] = 0 /\ Retries[StepOf(t)] \in Nat
  BY <1>1, StepOfType, FormulaAssumption DEF PresentOK
<1>3. \A u \in Tasks \ {t} : StepOf(u)' = StepOf(u)
  BY <1>1 DEF StepOf
<1>4. \A u \in Tasks : history.failures[u] > Retries[StepOf(u)] => u # t
  BY <1>2
<1> QED BY <1>1, <1>3, <1>4 DEF GivesUpAfterRetries


LEMMA FailuresStep == Ledger /\ [Next]_vars => FailuresOK'
<1> SUFFICES ASSUME Ledger, [Next]_vars PROVE FailuresOK'
  OBVIOUS
<1> USE DEF Ledger, Base
<1>1. ASSUME StartWorkflow PROVE FailuresOK'
  BY <1>1, StartWorkflowDoes, MessagesDiffer
     DEF FailuresOK, CountsOK, Recovers, StepOf, LocalsOK, PresentOK, Ends, Goes, Others,
         IdleHandler, Moves, NewTask, KeepsStep
<1>2. ASSUME NEW h \in Handlers, HandleStart(h) PROVE FailuresOK'
  BY <1>2, HandleStartDoes, MessagesDiffer
     DEF FailuresOK, CountsOK, Recovers, StepOf, LocalsOK, PresentOK, Ends, Goes, Others,
         IdleHandler, Moves, NewTask, KeepsStep
<1>3. ASSUME NEW h \in Handlers, CreateFirst(h) PROVE FailuresOK'
  BY <1>3, CreateFirstDoes, MessagesDiffer
     DEF FailuresOK, CountsOK, Recovers, StepOf, LocalsOK, PresentOK, Ends, Goes, Others,
         IdleHandler, Moves, NewTask, KeepsStep
<1>4. ASSUME NEW h \in Handlers, NEW t \in Tasks, NEW data \in BOOLEAN, HandleCompleted(h, t, data)
      PROVE FailuresOK'
  BY <1>4, HandleCompletedDoes, MessagesDiffer
     DEF FailuresOK, CountsOK, Recovers, StepOf, LocalsOK, PresentOK, Ends, Goes, Others,
         IdleHandler, Moves, NewTask, KeepsStep
<1>5. ASSUME NEW h \in Handlers, StoreResult(h) PROVE FailuresOK'
  BY <1>5, StoreResultDoes, MessagesDiffer
     DEF FailuresOK, CountsOK, Recovers, StepOf, LocalsOK, PresentOK, Ends, Goes, Others,
         IdleHandler, Moves, NewTask, KeepsStep
<1>6. ASSUME NEW h \in Handlers, Join(h) PROVE FailuresOK'
  BY <1>6, JoinDoes, MessagesDiffer
     DEF FailuresOK, CountsOK, Recovers, StepOf, LocalsOK, PresentOK, Ends, Goes, Others,
         IdleHandler, Moves, NewTask, KeepsStep
<1>7. ASSUME NEW h \in Handlers, AdvanceToGroup(h) PROVE FailuresOK'
  BY <1>7, AdvanceToGroupDoes, MessagesDiffer
     DEF FailuresOK, CountsOK, Recovers, StepOf, LocalsOK, PresentOK, Ends, Goes, Others,
         IdleHandler, Moves, NewTask, KeepsStep
<1>8. ASSUME NEW h \in Handlers, FanOutCreate(h) PROVE FailuresOK'
  BY <1>8, FanOutCreateDoes, MessagesDiffer
     DEF FailuresOK, CountsOK, Recovers, StepOf, LocalsOK, PresentOK, Ends, Goes, Others,
         IdleHandler, Moves, NewTask, KeepsStep
<1>9. ASSUME NEW h \in Handlers, FanOutSkip(h) PROVE FailuresOK'
  BY <1>9, FanOutSkipDoes, MessagesDiffer
     DEF FailuresOK, CountsOK, Recovers, StepOf, LocalsOK, PresentOK, Ends, Goes, Others,
         IdleHandler, Moves, NewTask, KeepsStep
<1>10. ASSUME NEW h \in Handlers, AdvanceToStep(h) PROVE FailuresOK'
  BY <1>10, AdvanceToStepDoes, MessagesDiffer
     DEF FailuresOK, CountsOK, Recovers, StepOf, LocalsOK, PresentOK, Ends, Goes, Others,
         IdleHandler, Moves, NewTask, KeepsStep
<1>11. ASSUME NEW h \in Handlers, CompleteRun(h) PROVE FailuresOK'
  BY <1>11, CompleteRunDoes, MessagesDiffer
     DEF FailuresOK, CountsOK, Recovers, StepOf, LocalsOK, PresentOK, Ends, Goes, Others,
         IdleHandler, Moves, NewTask, KeepsStep
<1>12. ASSUME NEW h \in Handlers, NEW t \in Tasks, HandleFailed(h, t) PROVE FailuresOK'
  BY <1>12, HandleFailedDoes, MessagesDiffer
     DEF FailuresOK, CountsOK, Recovers, StepOf, LocalsOK, PresentOK, Ends, Goes, Others,
         IdleHandler, Moves, NewTask, KeepsStep
<1>13. ASSUME NEW h \in Handlers, RetryStep(h) PROVE FailuresOK'
  BY <1>13, RetryStepDoes, MessagesDiffer
     DEF FailuresOK, CountsOK, Recovers, StepOf, LocalsOK, PresentOK, Ends, Goes, Others,
         IdleHandler, Moves, NewTask, KeepsStep
<1>14. ASSUME NEW h \in Handlers, WakeUp(h) PROVE FailuresOK'
  BY <1>14, WakeUpDoes, MessagesDiffer
     DEF FailuresOK, CountsOK, Recovers, StepOf, LocalsOK, PresentOK, Ends, Goes, Others,
         IdleHandler, Moves, NewTask, KeepsStep
<1>15. ASSUME NEW h \in Handlers, CallErrorHandler(h) PROVE FailuresOK'
  BY <1>15, CallErrorHandlerDoes, MessagesDiffer
     DEF FailuresOK, CountsOK, Recovers, StepOf, LocalsOK, PresentOK, Ends, Goes, Others,
         IdleHandler, Moves, NewTask, KeepsStep
<1>16. ASSUME NEW h \in Handlers, FailRun(h) PROVE FailuresOK'
  BY <1>16, FailRunDoes, MessagesDiffer
     DEF FailuresOK, CountsOK, Recovers, StepOf, LocalsOK, PresentOK, Ends, Goes, Others,
         IdleHandler, Moves, NewTask, KeepsStep
<1>17. ASSUME NEW t \in Tasks, ClaimStep(t) PROVE FailuresOK'
  BY <1>17, ClaimStepDoes, MessagesDiffer
     DEF FailuresOK, CountsOK, Recovers, StepOf, LocalsOK, PresentOK, Ends, Goes, Others,
         IdleHandler, Moves, NewTask, KeepsStep
<1>18. ASSUME NEW t \in Tasks, TakeStep(t) PROVE FailuresOK'
  BY <1>18, TakeStepDoes, MessagesDiffer
     DEF FailuresOK, CountsOK, Recovers, StepOf, LocalsOK, PresentOK, Ends, Goes, Others,
         IdleHandler, Moves, NewTask, KeepsStep
<1>19. ASSUME NEW t \in Tasks, ReleaseStep(t) PROVE FailuresOK'
  BY <1>19, ReleaseStepDoes, MessagesDiffer
     DEF FailuresOK, CountsOK, Recovers, StepOf, LocalsOK, PresentOK, Ends, Goes, Others,
         IdleHandler, Moves, NewTask, KeepsStep
<1>20. ASSUME NEW t \in Tasks, NEW data \in Answers, CompleteStep(t, data) PROVE FailuresOK'
  BY <1>20, CompleteStepDoes, MessagesDiffer
     DEF FailuresOK, CountsOK, Recovers, StepOf, LocalsOK, PresentOK, Ends, Goes, Others,
         IdleHandler, Moves, NewTask, KeepsStep
<1>21. ASSUME NEW t \in Tasks, FailStep(t) PROVE FailuresOK'
  BY <1>21, FailStepMoves, FailStepCounts, MessagesDiffer
     DEF FailuresOK, Recovers, StepOf, Moves
<1>22. ASSUME NEW t \in Tasks, DropStep(t) PROVE FailuresOK'
  BY <1>22, DropStepDoes, MessagesDiffer
     DEF FailuresOK, CountsOK, Recovers, StepOf, LocalsOK, PresentOK, Ends, Goes, Others,
         IdleHandler, Moves, NewTask, KeepsStep
<1>23. ASSUME NEW t \in Tasks, DlqRetry(t) PROVE FailuresOK'
  BY <1>23, DlqRetryDoes DEF NoDlq
<1>24. ASSUME NEW m \in Messages, LoseMessage(m) PROVE FailuresOK'
  BY <1>24, LoseMessageDoes, MessagesDiffer
     DEF FailuresOK, CountsOK, Recovers, StepOf, LocalsOK, PresentOK, Ends, Goes, Others,
         IdleHandler, Moves, NewTask, KeepsStep
<1>25. ASSUME Forgetting PROVE FailuresOK'
  BY <1>25, ForgettingDoes, MessagesDiffer
     DEF FailuresOK, CountsOK, Recovers, StepOf, LocalsOK, PresentOK, Ends, Goes, Others,
         IdleHandler, Moves, NewTask, KeepsStep
<1>26. CASE UNCHANGED vars
  BY <1>26, Stutters DEF FailuresOK, Recovers, StepOf
<1> QED BY <1>1, <1>2, <1>3, <1>4, <1>5, <1>6, <1>7, <1>8, <1>9, <1>10,
           <1>11, <1>12, <1>13, <1>14, <1>15, <1>16, <1>17, <1>18,
           <1>19, <1>20, <1>21, <1>22, <1>23, <1>24, <1>25, <1>26
   DEF Next, HandlerNext, CompletedNext, FailedNext, QueueNext, FaultNext, Forgetting

LEMMA CountsStep == Ledger /\ [Next]_vars => CountsOK'
<1> SUFFICES ASSUME Ledger, [Next]_vars PROVE CountsOK'
  OBVIOUS
<1> USE DEF Ledger, Base
<1>1. ASSUME StartWorkflow PROVE CountsOK'
  BY <1>1, StartWorkflowDoes
     DEF FailuresOK, CountsOK, Recovers, StepOf, LocalsOK, PresentOK, Moves, NewTask, KeepsStep
<1>2. ASSUME NEW h \in Handlers, HandleStart(h) PROVE CountsOK'
  BY <1>2, HandleStartDoes
     DEF FailuresOK, CountsOK, Recovers, StepOf, LocalsOK, PresentOK, Moves, NewTask, KeepsStep
<1>3. ASSUME NEW h \in Handlers, CreateFirst(h) PROVE CountsOK'
  BY <1>3, CreateFirstDoes, NewTaskCounts
<1>4. ASSUME NEW h \in Handlers, NEW t \in Tasks, NEW data \in BOOLEAN, HandleCompleted(h, t, data)
      PROVE CountsOK'
  BY <1>4, HandleCompletedDoes
     DEF FailuresOK, CountsOK, Recovers, StepOf, LocalsOK, PresentOK, Moves, NewTask, KeepsStep
<1>5. ASSUME NEW h \in Handlers, StoreResult(h) PROVE CountsOK'
  BY <1>5, StoreResultDoes
     DEF FailuresOK, CountsOK, Recovers, StepOf, LocalsOK, PresentOK, Moves, NewTask, KeepsStep
<1>6. ASSUME NEW h \in Handlers, Join(h) PROVE CountsOK'
  BY <1>6, JoinDoes
     DEF FailuresOK, CountsOK, Recovers, StepOf, LocalsOK, PresentOK, Moves, NewTask, KeepsStep
<1>7. ASSUME NEW h \in Handlers, AdvanceToGroup(h) PROVE CountsOK'
  BY <1>7, AdvanceToGroupDoes
     DEF FailuresOK, CountsOK, Recovers, StepOf, LocalsOK, PresentOK, Moves, NewTask, KeepsStep
<1>8. ASSUME NEW h \in Handlers, FanOutCreate(h) PROVE CountsOK'
  BY <1>8, FanOutCreateDoes, NewTaskCounts
<1>9. ASSUME NEW h \in Handlers, FanOutSkip(h) PROVE CountsOK'
  BY <1>9, FanOutSkipDoes
     DEF FailuresOK, CountsOK, Recovers, StepOf, LocalsOK, PresentOK, Moves, NewTask, KeepsStep
<1>10. ASSUME NEW h \in Handlers, AdvanceToStep(h) PROVE CountsOK'
  BY <1>10, AdvanceToStepDoes, NewTaskCounts
<1>11. ASSUME NEW h \in Handlers, CompleteRun(h) PROVE CountsOK'
  BY <1>11, CompleteRunDoes
     DEF FailuresOK, CountsOK, Recovers, StepOf, LocalsOK, PresentOK, Moves, NewTask, KeepsStep
<1>12. ASSUME NEW h \in Handlers, NEW t \in Tasks, HandleFailed(h, t) PROVE CountsOK'
  BY <1>12, HandleFailedDoes
     DEF FailuresOK, CountsOK, Recovers, StepOf, LocalsOK, PresentOK, Moves, NewTask, KeepsStep
<1>13. ASSUME NEW h \in Handlers, RetryStep(h) PROVE CountsOK'
  <2> DEFINE t == handler[h].task
  <2>1. /\ t \in Tasks /\ handler[h].pc = "recover"
        /\ handler[h].count < Retries[handler[h].step] /\ KeepsStep
        /\ task'[t].retries = handler[h].count + 1
        /\ \A u \in Tasks \ {t} : task'[u] = task[u]
        /\ history' = history
    BY <1>13, RetryStepDoes
  <2>2. Recovers(h, t)
    BY <2>1 DEF Recovers
  <2>3. /\ handler[h].step = StepOf(t) /\ handler[h].count = task[t].retries
        /\ history.failures[t] > task[t].retries
    BY <2>1, <2>2 DEF FailuresOK
  <2>4. /\ history.failures[t] \in Nat /\ task[t].retries \in Nat
        /\ Retries[StepOf(t)] \in Nat
    BY <2>1, HistoryParts, TaskParts, StepOfType, FormulaAssumption
  <2>5. \A u \in Tasks : StepOf(u)' = StepOf(u)
    BY <2>1 DEF KeepsStep, StepOf
  <2> HIDE DEF t
  <2>6. /\ task'[t].retries <= history.failures[t]
        /\ task'[t].retries <= Retries[StepOf(t)]
    BY <2>1, <2>3, <2>4
  <2> QED BY <2>1, <2>5, <2>6 DEF CountsOK
<1>14. ASSUME NEW h \in Handlers, WakeUp(h) PROVE CountsOK'
  BY <1>14, WakeUpDoes
     DEF FailuresOK, CountsOK, Recovers, StepOf, LocalsOK, PresentOK, Moves, NewTask, KeepsStep
<1>15. ASSUME NEW h \in Handlers, CallErrorHandler(h) PROVE CountsOK'
  BY <1>15, CallErrorHandlerDoes, NewTaskCounts
<1>16. ASSUME NEW h \in Handlers, FailRun(h) PROVE CountsOK'
  BY <1>16, FailRunDoes
     DEF FailuresOK, CountsOK, Recovers, StepOf, LocalsOK, PresentOK, Moves, NewTask, KeepsStep
<1>17. ASSUME NEW t \in Tasks, ClaimStep(t) PROVE CountsOK'
  BY <1>17, ClaimStepDoes
     DEF FailuresOK, CountsOK, Recovers, StepOf, LocalsOK, PresentOK, Moves, NewTask, KeepsStep
<1>18. ASSUME NEW t \in Tasks, TakeStep(t) PROVE CountsOK'
  BY <1>18, TakeStepDoes
     DEF FailuresOK, CountsOK, Recovers, StepOf, LocalsOK, PresentOK, Moves, NewTask, KeepsStep
<1>19. ASSUME NEW t \in Tasks, ReleaseStep(t) PROVE CountsOK'
  BY <1>19, ReleaseStepDoes
     DEF FailuresOK, CountsOK, Recovers, StepOf, LocalsOK, PresentOK, Moves, NewTask, KeepsStep
<1>20. ASSUME NEW t \in Tasks, NEW data \in Answers, CompleteStep(t, data) PROVE CountsOK'
  BY <1>20, CompleteStepDoes
     DEF FailuresOK, CountsOK, Recovers, StepOf, LocalsOK, PresentOK, Moves, NewTask, KeepsStep
<1>21. ASSUME NEW t \in Tasks, FailStep(t) PROVE CountsOK'
  <2>1. /\ task' = task
        /\ \A u \in Tasks \ {t} : history'.failures[u] = history.failures[u]
    BY <1>21, FailStepMoves
  <2>2. history'.failures[t] > task[t].retries
    BY <1>21, FailStepCounts
  <2>3. task[t].retries \in Nat /\ history'.failures[t] \in Nat
    <3>1. TypeOK'
      BY <1>21, FailStepDoes
    <3> QED BY <3>1, TaskParts DEF TypeOK
  <2>4. \A u \in Tasks : StepOf(u)' = StepOf(u)
    BY <2>1 DEF StepOf
  <2> QED BY <2>1, <2>2, <2>3, <2>4 DEF CountsOK
<1>22. ASSUME NEW t \in Tasks, DropStep(t) PROVE CountsOK'
  BY <1>22, DropStepDoes
     DEF FailuresOK, CountsOK, Recovers, StepOf, LocalsOK, PresentOK, Moves, NewTask, KeepsStep
<1>23. ASSUME NEW t \in Tasks, DlqRetry(t) PROVE CountsOK'
  BY <1>23, DlqRetryDoes DEF NoDlq
<1>24. ASSUME NEW m \in Messages, LoseMessage(m) PROVE CountsOK'
  BY <1>24, LoseMessageDoes
     DEF FailuresOK, CountsOK, Recovers, StepOf, LocalsOK, PresentOK, Moves, NewTask, KeepsStep
<1>25. ASSUME Forgetting PROVE CountsOK'
  BY <1>25, ForgettingDoes
     DEF FailuresOK, CountsOK, Recovers, StepOf, LocalsOK, PresentOK, Moves, NewTask, KeepsStep
<1>26. CASE UNCHANGED vars
  BY <1>26, Stutters DEF CountsOK, StepOf
<1> QED BY <1>1, <1>2, <1>3, <1>4, <1>5, <1>6, <1>7, <1>8, <1>9, <1>10,
           <1>11, <1>12, <1>13, <1>14, <1>15, <1>16, <1>17, <1>18,
           <1>19, <1>20, <1>21, <1>22, <1>23, <1>24, <1>25, <1>26
   DEF Next, HandlerNext, CompletedNext, FailedNext, QueueNext, FaultNext, Forgetting

\* A handler of a failure that has no retry left to give.
LEMMA NoneLeft ==
    ASSUME TypeOK, LocalsOK, FailuresOK, NEW h \in Handlers, handler[h].pc = "recover",
           handler[h].count >= Retries[handler[h].step]
    PROVE  \E u \in Tasks : history.failures[u] > Retries[StepOf(u)]
<1> DEFINE t == handler[h].task
<1>1. t \in Tasks /\ Recovers(h, t)
  BY DEF LocalsOK, Recovers
<1>2. /\ handler[h].step = StepOf(t) /\ handler[h].count = task[t].retries
      /\ history.failures[t] > task[t].retries
  BY <1>1 DEF FailuresOK
<1>3. /\ history.failures[t] \in Nat /\ task[t].retries \in Nat
      /\ Retries[StepOf(t)] \in Nat
  BY <1>1, HistoryParts, TaskParts, StepOfType, FormulaAssumption
<1> HIDE DEF t
<1> QED BY <1>1, <1>2, <1>3


LEMMA GivesUpStep == Ledger /\ [Next]_vars => GivesUpAfterRetries'
<1> SUFFICES ASSUME Ledger, [Next]_vars PROVE GivesUpAfterRetries'
  OBVIOUS
<1> USE DEF Ledger, Base
<1>1. ASSUME StartWorkflow PROVE GivesUpAfterRetries'
  BY <1>1, StartWorkflowDoes
     DEF GivesUpAfterRetries, FailuresOK, CountsOK, Recovers, StepOf, LocalsOK, PresentOK,
         Moves, NewTask, KeepsStep
<1>2. ASSUME NEW h \in Handlers, HandleStart(h) PROVE GivesUpAfterRetries'
  BY <1>2, HandleStartDoes
     DEF GivesUpAfterRetries, FailuresOK, CountsOK, Recovers, StepOf, LocalsOK, PresentOK,
         Moves, NewTask, KeepsStep
<1>3. ASSUME NEW h \in Handlers, CreateFirst(h) PROVE GivesUpAfterRetries'
  BY <1>3, CreateFirstDoes, NewTaskGivesUp, FirstStep
<1>4. ASSUME NEW h \in Handlers, NEW t \in Tasks, NEW data \in BOOLEAN, HandleCompleted(h, t, data)
      PROVE GivesUpAfterRetries'
  BY <1>4, HandleCompletedDoes
     DEF GivesUpAfterRetries, FailuresOK, CountsOK, Recovers, StepOf, LocalsOK, PresentOK,
         Moves, NewTask, KeepsStep
<1>5. ASSUME NEW h \in Handlers, StoreResult(h) PROVE GivesUpAfterRetries'
  BY <1>5, StoreResultDoes
     DEF GivesUpAfterRetries, FailuresOK, CountsOK, Recovers, StepOf, LocalsOK, PresentOK,
         Moves, NewTask, KeepsStep
<1>6. ASSUME NEW h \in Handlers, Join(h) PROVE GivesUpAfterRetries'
  BY <1>6, JoinDoes
     DEF GivesUpAfterRetries, FailuresOK, CountsOK, Recovers, StepOf, LocalsOK, PresentOK,
         Moves, NewTask, KeepsStep
<1>7. ASSUME NEW h \in Handlers, AdvanceToGroup(h) PROVE GivesUpAfterRetries'
  BY <1>7, AdvanceToGroupDoes
     DEF GivesUpAfterRetries, FailuresOK, CountsOK, Recovers, StepOf, LocalsOK, PresentOK,
         Moves, NewTask, KeepsStep
<1>8. ASSUME NEW h \in Handlers, FanOutCreate(h) PROVE GivesUpAfterRetries'
  BY <1>8, FanOutCreateDoes, NewTaskGivesUp, FirstStep
<1>9. ASSUME NEW h \in Handlers, FanOutSkip(h) PROVE GivesUpAfterRetries'
  BY <1>9, FanOutSkipDoes
     DEF GivesUpAfterRetries, FailuresOK, CountsOK, Recovers, StepOf, LocalsOK, PresentOK,
         Moves, NewTask, KeepsStep
<1>10. ASSUME NEW h \in Handlers, AdvanceToStep(h) PROVE GivesUpAfterRetries'
  BY <1>10, AdvanceToStepDoes, NewTaskGivesUp, FirstStep
<1>11. ASSUME NEW h \in Handlers, CompleteRun(h) PROVE GivesUpAfterRetries'
  BY <1>11, CompleteRunDoes
     DEF GivesUpAfterRetries, FailuresOK, CountsOK, Recovers, StepOf, LocalsOK, PresentOK,
         Moves, NewTask, KeepsStep
<1>12. ASSUME NEW h \in Handlers, NEW t \in Tasks, HandleFailed(h, t) PROVE GivesUpAfterRetries'
  BY <1>12, HandleFailedDoes
     DEF GivesUpAfterRetries, FailuresOK, CountsOK, Recovers, StepOf, LocalsOK, PresentOK,
         Moves, NewTask, KeepsStep
<1>13. ASSUME NEW h \in Handlers, RetryStep(h) PROVE GivesUpAfterRetries'
  BY <1>13, RetryStepDoes
     DEF GivesUpAfterRetries, FailuresOK, CountsOK, Recovers, StepOf, LocalsOK, PresentOK,
         Moves, NewTask, KeepsStep
<1>14. ASSUME NEW h \in Handlers, WakeUp(h) PROVE GivesUpAfterRetries'
  BY <1>14, WakeUpDoes
     DEF GivesUpAfterRetries, FailuresOK, CountsOK, Recovers, StepOf, LocalsOK, PresentOK,
         Moves, NewTask, KeepsStep
<1>15. ASSUME NEW h \in Handlers, CallErrorHandler(h) PROVE GivesUpAfterRetries'
  <2>1. \E u \in Tasks : history.failures[u] > Retries[StepOf(u)]
    BY <1>15, CallErrorHandlerDoes, NoneLeft
  <2> QED BY <1>15, <2>1, CallErrorHandlerDoes, NewTaskGivesUp
<1>16. ASSUME NEW h \in Handlers, FailRun(h) PROVE GivesUpAfterRetries'
  <2>1. \E u \in Tasks : history.failures[u] > Retries[StepOf(u)]
    BY <1>16, FailRunDoes, NoneLeft
  <2> QED BY <1>16, <2>1, FailRunDoes DEF GivesUpAfterRetries, StepOf
<1>17. ASSUME NEW t \in Tasks, ClaimStep(t) PROVE GivesUpAfterRetries'
  BY <1>17, ClaimStepDoes
     DEF GivesUpAfterRetries, FailuresOK, CountsOK, Recovers, StepOf, LocalsOK, PresentOK,
         Moves, NewTask, KeepsStep
<1>18. ASSUME NEW t \in Tasks, TakeStep(t) PROVE GivesUpAfterRetries'
  BY <1>18, TakeStepDoes
     DEF GivesUpAfterRetries, FailuresOK, CountsOK, Recovers, StepOf, LocalsOK, PresentOK,
         Moves, NewTask, KeepsStep
<1>19. ASSUME NEW t \in Tasks, ReleaseStep(t) PROVE GivesUpAfterRetries'
  BY <1>19, ReleaseStepDoes
     DEF GivesUpAfterRetries, FailuresOK, CountsOK, Recovers, StepOf, LocalsOK, PresentOK,
         Moves, NewTask, KeepsStep
<1>20. ASSUME NEW t \in Tasks, NEW data \in Answers, CompleteStep(t, data)
      PROVE GivesUpAfterRetries'
  BY <1>20, CompleteStepDoes
     DEF GivesUpAfterRetries, FailuresOK, CountsOK, Recovers, StepOf, LocalsOK, PresentOK,
         Moves, NewTask, KeepsStep
<1>21. ASSUME NEW t \in Tasks, FailStep(t) PROVE GivesUpAfterRetries'
  <2>1. /\ task' = task /\ run' = run
        /\ life[t] # "absent"
        /\ \A u \in Tasks \ {t} : history'.failures[u] = history.failures[u]
        /\ \A u \in Tasks \ {t} : life'[u] = life[u]
    BY <1>21, FailStepMoves DEF Moves
  <2>2. history.failures[t] > Retries[StepOf(t)]
          => history'.failures[t] > Retries[StepOf(t)]
    BY <1>21, FailStepCounts
  <2>3. \A u \in Tasks : StepOf(u)' = StepOf(u)
    BY <2>1 DEF StepOf
  <2> QED BY <2>1, <2>2, <2>3 DEF GivesUpAfterRetries
<1>22. ASSUME NEW t \in Tasks, DropStep(t) PROVE GivesUpAfterRetries'
  BY <1>22, DropStepDoes
     DEF GivesUpAfterRetries, FailuresOK, CountsOK, Recovers, StepOf, LocalsOK, PresentOK,
         Moves, NewTask, KeepsStep
<1>23. ASSUME NEW t \in Tasks, DlqRetry(t) PROVE GivesUpAfterRetries'
  BY <1>23, DlqRetryDoes DEF NoDlq
<1>24. ASSUME NEW m \in Messages, LoseMessage(m) PROVE GivesUpAfterRetries'
  BY <1>24, LoseMessageDoes
     DEF GivesUpAfterRetries, FailuresOK, CountsOK, Recovers, StepOf, LocalsOK, PresentOK,
         Moves, NewTask, KeepsStep
<1>25. ASSUME Forgetting PROVE GivesUpAfterRetries'
  BY <1>25, ForgettingDoes
     DEF GivesUpAfterRetries, FailuresOK, CountsOK, Recovers, StepOf, LocalsOK, PresentOK,
         Moves, NewTask, KeepsStep
<1>26. CASE UNCHANGED vars
  BY <1>26, Stutters DEF GivesUpAfterRetries, StepOf
<1> QED BY <1>1, <1>2, <1>3, <1>4, <1>5, <1>6, <1>7, <1>8, <1>9, <1>10,
           <1>11, <1>12, <1>13, <1>14, <1>15, <1>16, <1>17, <1>18,
           <1>19, <1>20, <1>21, <1>22, <1>23, <1>24, <1>25, <1>26
   DEF Next, HandlerNext, CompletedNext, FailedNext, QueueNext, FaultNext, Forgetting

LEMMA LedgerStep == Ledger /\ [Next]_vars => Ledger'
<1> SUFFICES ASSUME Ledger, [Next]_vars PROVE Ledger'
  OBVIOUS
<1>1. NoDlq /\ NoDlq'
  BY DEF Ledger, NoDlq
<1>2. Base'
  BY BaseStep DEF Ledger
<1> QED BY <1>1, <1>2, CompletionsStep, FailuresStep, CountsStep, GivesUpStep DEF Ledger

LEMMA LedgerInit == NoDlq /\ Init => Ledger
<1> SUFFICES ASSUME NoDlq, Init PROVE Ledger
  OBVIOUS
<1>1. Base
  BY BaseInit
<1>2. CompletionsOK
  BY DEF Init, Queue!Init, CompletionsOK, InHand, IdleHandler
<1>3. FailuresOK
  BY DEF Init, FailuresOK, Recovers, IdleHandler
<1>4. CountsOK
  <2>1. \A t \in Tasks : Retries[StepOf(t)] \in Nat
    BY <1>1, StepOfType, FormulaAssumption DEF Base
  <2> QED BY <2>1 DEF Init, CountsOK
<1>5. GivesUpAfterRetries
  BY DEF Init, Queue!Init, GivesUpAfterRetries
<1> QED BY <1>1, <1>2, <1>3, <1>4, <1>5 DEF Ledger

\* handle_task_failed marks the run failed, or calls the error handler, only
\* when agents have failed one task of it more often than its step may be
\* retried: for every formula, with an error handler or not, whatever is
\* lost and whenever the coordinator crashes, as long as no dead-letter retry
\* writes the retry_count of its entry over the one of the step.
THEOREM RunGivesUpAfterRetries ==
    ASSUME NoDlq PROVE Spec => []GivesUpAfterRetries
<1>1. Init => Ledger
  BY LedgerInit
<1>2. Ledger => GivesUpAfterRetries
  BY DEF Ledger
<1> QED BY <1>1, <1>2, LedgerStep, PTL DEF Spec

-----------------------------------------------------------------------------
(* A formula without groups is one task after the other.                    *)

Sequential == \A s \in Steps : ~Grouped(s)

\* A task some message, agent or handler still works for.
Going(t) ==
    \/ life[t] \in {"pending", "held", "paused"}
    \/ Failed(t) \in nats
    \/ \E data \in BOOLEAN : Completed(t, data) \in nats
    \/ \E h \in Handlers : InHand(h, t) \/ Recovers(h, t)

OneGoing == \A t, u \in Tasks : Going(t) /\ Going(u) => t = u

\* No handler's copy of the results lacks one that is stored.
CopiesOK == \A h \in Handlers :
    handler[h].pc \in {"store", "join", "advance"} => run.results \subseteq handler[h].results

NobodyJoins == \A h \in Handlers : handler[h].pc \notin {"join", "fan"}

Single == Sequential /\ Ledger /\ OneGoing /\ CopiesOK /\ NobodyJoins

LEMMA GoingExists ==
    ASSUME Base, NEW t \in Tasks, Going(t)
    PROVE  life[t] # "absent"
BY DEF Base, PresentOK, Going, InHand, Recovers


\* The handler of the one task that goes ends and has created another.
LEMMA OnlyOneGoes ==
    ASSUME Ledger, OneGoing, NEW h \in Handlers, NEW t \in Tasks, NEW s,
           handler[h].pc \in {"advance", "recover"}, NEW v \in Tasks, handler[h].task = v,
           Ends(h), NewTask(t, s),
           history' = history
    PROVE  \A u \in Tasks \ {t} : ~Going(u)'
<1> USE DEF Ledger, Base
<1>1. /\ life[t] = "absent"
      /\ \A u \in Tasks \ {t} : life'[u] = life[u]
      /\ nats' = nats \cup {Available(t)}
  BY DEF NewTask, Moves
<1>2. Going(v) /\ \A u \in Tasks : u # v => ~Going(u)
  BY DEF OneGoing, Going, InHand, Recovers
<1>3. ASSUME NEW u \in Tasks \ {t}, u # v PROVE ~Going(u)'
  BY <1>1, <1>2, <1>3, MessagesDiffer DEF Going, InHand, Recovers, Ends, Others, IdleHandler
<1>4. ASSUME v # t PROVE ~Going(v)'
  <2>1. InHand(h, v) \/ Recovers(h, v)
    BY DEF InHand, Recovers
  <2>2. life[v] \in {"completed", "failed"}
    BY <2>1 DEF CompletionsOK, FailuresOK
  <2>3. life'[v] \in {"completed", "failed"} /\ life'[v] = life[v]
    BY <1>1, <1>4, <2>2
  <2>4. Failed(v) \notin nats /\ \A data \in BOOLEAN : Completed(v, data) \notin nats
    BY <2>1, <2>2 DEF CompletionsOK, FailuresOK
  <2>5. \A k \in Handlers \ {h} : ~InHand(k, v) /\ ~Recovers(k, v)
    BY <2>1, <2>2 DEF CompletionsOK, FailuresOK
  <2>6. Failed(v) \notin nats' /\ \A data \in BOOLEAN : Completed(v, data) \notin nats'
    BY <1>1, <2>4, MessagesDiffer
  <2>7. \A k \in Handlers : ~InHand(k, v)' /\ ~Recovers(k, v)'
    BY <2>5 DEF InHand, Recovers, Ends, Others, IdleHandler
  <2> QED BY <2>3, <2>6, <2>7 DEF Going
<1> QED BY <1>3, <1>4

LEMMA OneGoingStep == Single /\ [Next]_vars => OneGoing'
<1> SUFFICES ASSUME Single, [Next]_vars PROVE OneGoing'
  OBVIOUS
<1> USE DEF Single, Ledger, Base
<1>1. ASSUME StartWorkflow PROVE OneGoing'
  BY <1>1, StartWorkflowDoes, MessagesDiffer
     DEF OneGoing, Going, InHand, Recovers, Goes, Ends, Others, IdleHandler, Moves
<1>2. ASSUME NEW h \in Handlers, HandleStart(h) PROVE OneGoing'
  BY <1>2, HandleStartDoes, MessagesDiffer
     DEF OneGoing, Going, InHand, Recovers, Goes, Ends, Others, IdleHandler, Moves
<1>3. ASSUME NEW h \in Handlers, CreateFirst(h) PROVE OneGoing'
  <2>1. PICK t \in Tasks : NewTask(t, 0)
    BY <1>3, CreateFirstDoes
  <2>2. \A u \in Tasks : life[u] = "absent"
    BY <1>3, CreateFirstDoes DEF StartOK
  <2>3. \A u \in Tasks : ~Going(u)
    BY <2>2, GoingExists
  <2> QED BY <1>3, <2>1, <2>3, CreateFirstDoes, MessagesDiffer
     DEF OneGoing, Going, InHand, Recovers, Ends, Others, IdleHandler, NewTask, Moves
<1>4. ASSUME NEW h \in Handlers, NEW t \in Tasks, NEW data \in BOOLEAN, HandleCompleted(h, t, data)
      PROVE OneGoing'
  BY <1>4, HandleCompletedDoes, MessagesDiffer
     DEF OneGoing, Going, InHand, Recovers, Goes, Ends, Others, IdleHandler, Moves
<1>5. ASSUME NEW h \in Handlers, StoreResult(h) PROVE OneGoing'
  BY <1>5, StoreResultDoes, MessagesDiffer
     DEF OneGoing, Going, InHand, Recovers, Goes, Ends, Others, IdleHandler, Moves
<1>6. ASSUME NEW h \in Handlers, Join(h) PROVE OneGoing'
  BY <1>6, JoinDoes, MessagesDiffer
     DEF OneGoing, Going, InHand, Recovers, Goes, Ends, Others, IdleHandler, Moves
<1>7. ASSUME NEW h \in Handlers, AdvanceToGroup(h) PROVE OneGoing'
  BY <1>7, AdvanceToGroupDoes DEF Sequential
<1>8. ASSUME NEW h \in Handlers, FanOutCreate(h) PROVE OneGoing'
  BY <1>8, FanOutCreateDoes DEF NobodyJoins
<1>9. ASSUME NEW h \in Handlers, FanOutSkip(h) PROVE OneGoing'
  BY <1>9, FanOutSkipDoes, MessagesDiffer
     DEF OneGoing, Going, InHand, Recovers, Goes, Ends, Others, IdleHandler, Moves
<1>10. ASSUME NEW h \in Handlers, AdvanceToStep(h) PROVE OneGoing'
  <2>1. PICK t \in Tasks, s \in Steps \cup {NoStep} : NewTask(t, s)
    BY <1>10, AdvanceToStepDoes, FirstStep
  <2>2. PICK v \in Tasks : handler[h].task = v
    BY <1>10, AdvanceToStepDoes DEF LocalsOK
  <2>3. handler[h].pc \in {"advance", "recover"} /\ Ends(h) /\ history' = history
    BY <1>10, AdvanceToStepDoes
  <2>4. Ledger /\ OneGoing
    OBVIOUS
  <2> HIDE DEF Single, Ledger, Base
  <2>5. \A u \in Tasks \ {t} : ~Going(u)'
    BY <2>1, <2>2, <2>3, <2>4, OnlyOneGoes
  <2> QED BY <2>5 DEF OneGoing
<1>11. ASSUME NEW h \in Handlers, CompleteRun(h) PROVE OneGoing'
  BY <1>11, CompleteRunDoes, MessagesDiffer
     DEF OneGoing, Going, InHand, Recovers, Goes, Ends, Others, IdleHandler, Moves
<1>12. ASSUME NEW h \in Handlers, NEW t \in Tasks, HandleFailed(h, t) PROVE OneGoing'
  BY <1>12, HandleFailedDoes, MessagesDiffer
     DEF OneGoing, Going, InHand, Recovers, Goes, Ends, Others, IdleHandler, Moves
<1>13. ASSUME NEW h \in Handlers, RetryStep(h) PROVE OneGoing'
  BY <1>13, RetryStepDoes, MessagesDiffer
     DEF OneGoing, Going, InHand, Recovers, Goes, Ends, Others, IdleHandler, Moves
<1>14. ASSUME NEW h \in Handlers, WakeUp(h) PROVE OneGoing'
  BY <1>14, WakeUpDoes, MessagesDiffer
     DEF OneGoing, Going, InHand, Recovers, Goes, Ends, Others, IdleHandler, Moves
<1>15. ASSUME NEW h \in Handlers, CallErrorHandler(h) PROVE OneGoing'
  <2>1. PICK t \in Tasks, s \in Steps \cup {NoStep} : NewTask(t, s)
    BY <1>15, CallErrorHandlerDoes, FirstStep
  <2>2. PICK v \in Tasks : handler[h].task = v
    BY <1>15, CallErrorHandlerDoes DEF LocalsOK
  <2>3. handler[h].pc \in {"advance", "recover"} /\ Ends(h) /\ history' = history
    BY <1>15, CallErrorHandlerDoes
  <2>4. Ledger /\ OneGoing
    OBVIOUS
  <2> HIDE DEF Single, Ledger, Base
  <2>5. \A u \in Tasks \ {t} : ~Going(u)'
    BY <2>1, <2>2, <2>3, <2>4, OnlyOneGoes
  <2> QED BY <2>5 DEF OneGoing
<1>16. ASSUME NEW h \in Handlers, FailRun(h) PROVE OneGoing'
  BY <1>16, FailRunDoes, MessagesDiffer
     DEF OneGoing, Going, InHand, Recovers, Goes, Ends, Others, IdleHandler, Moves
<1>17. ASSUME NEW t \in Tasks, ClaimStep(t) PROVE OneGoing'
  BY <1>17, ClaimStepDoes, MessagesDiffer
     DEF OneGoing, Going, InHand, Recovers, Goes, Ends, Others, IdleHandler, Moves
<1>18. ASSUME NEW t \in Tasks, TakeStep(t) PROVE OneGoing'
  BY <1>18, TakeStepDoes, MessagesDiffer
     DEF OneGoing, Going, InHand, Recovers, Goes, Ends, Others, IdleHandler, Moves
<1>19. ASSUME NEW t \in Tasks, ReleaseStep(t) PROVE OneGoing'
  BY <1>19, ReleaseStepDoes, MessagesDiffer
     DEF OneGoing, Going, InHand, Recovers, Goes, Ends, Others, IdleHandler, Moves
<1>20. ASSUME NEW t \in Tasks, NEW data \in Answers, CompleteStep(t, data) PROVE OneGoing'
  BY <1>20, CompleteStepDoes, MessagesDiffer
     DEF OneGoing, Going, InHand, Recovers, Goes, Ends, Others, IdleHandler, Moves
<1>21. ASSUME NEW t \in Tasks, FailStep(t) PROVE OneGoing'
  BY <1>21, FailStepMoves, MessagesDiffer DEF OneGoing, Going, InHand, Recovers, Moves
<1>22. ASSUME NEW t \in Tasks, DropStep(t) PROVE OneGoing'
  BY <1>22, DropStepDoes, MessagesDiffer
     DEF OneGoing, Going, InHand, Recovers, Goes, Ends, Others, IdleHandler, Moves
<1>23. ASSUME NEW t \in Tasks, DlqRetry(t) PROVE OneGoing'
  BY <1>23, DlqRetryDoes DEF NoDlq
<1>24. ASSUME NEW m \in Messages, LoseMessage(m) PROVE OneGoing'
  BY <1>24, LoseMessageDoes, MessagesDiffer
     DEF OneGoing, Going, InHand, Recovers, Goes, Ends, Others, IdleHandler, Moves
<1>25. ASSUME Forgetting PROVE OneGoing'
  BY <1>25, ForgettingDoes, MessagesDiffer
     DEF OneGoing, Going, InHand, Recovers, Goes, Ends, Others, IdleHandler, Moves
<1>26. CASE UNCHANGED vars
  BY <1>26, Stutters DEF OneGoing, Going, InHand, Recovers
<1> QED BY <1>1, <1>2, <1>3, <1>4, <1>5, <1>6, <1>7, <1>8, <1>9, <1>10,
           <1>11, <1>12, <1>13, <1>14, <1>15, <1>16, <1>17, <1>18,
           <1>19, <1>20, <1>21, <1>22, <1>23, <1>24, <1>25, <1>26
   DEF Next, HandlerNext, CompletedNext, FailedNext, QueueNext, FaultNext, Forgetting

LEMMA NobodyJoinsStep == Sequential /\ Base /\ NobodyJoins /\ [Next]_vars => NobodyJoins'
<1> SUFFICES ASSUME Sequential /\ Base /\ NobodyJoins, [Next]_vars PROVE NobodyJoins'
  OBVIOUS
<1> USE DEF Base
<1>1. ASSUME StartWorkflow PROVE NobodyJoins'
  BY <1>1, StartWorkflowDoes
     DEF NobodyJoins, Goes, Ends, Others, IdleHandler
<1>2. ASSUME NEW h \in Handlers, HandleStart(h) PROVE NobodyJoins'
  BY <1>2, HandleStartDoes
     DEF NobodyJoins, Goes, Ends, Others, IdleHandler
<1>3. ASSUME NEW h \in Handlers, CreateFirst(h) PROVE NobodyJoins'
  BY <1>3, CreateFirstDoes
     DEF NobodyJoins, Goes, Ends, Others, IdleHandler
<1>4. ASSUME NEW h \in Handlers, NEW t \in Tasks, NEW data \in BOOLEAN, HandleCompleted(h, t, data)
      PROVE NobodyJoins'
  BY <1>4, HandleCompletedDoes
     DEF NobodyJoins, Goes, Ends, Others, IdleHandler
<1>5. ASSUME NEW h \in Handlers, StoreResult(h) PROVE NobodyJoins'
  BY <1>5, StoreResultDoes, HandlerParts
     DEF NobodyJoins, Sequential, Goes, Others
<1>6. ASSUME NEW h \in Handlers, Join(h) PROVE NobodyJoins'
  BY <1>6, JoinDoes
     DEF NobodyJoins, Goes, Ends, Others, IdleHandler
<1>7. ASSUME NEW h \in Handlers, AdvanceToGroup(h) PROVE NobodyJoins'
  BY <1>7, AdvanceToGroupDoes DEF Sequential
<1>8. ASSUME NEW h \in Handlers, FanOutCreate(h) PROVE NobodyJoins'
  BY <1>8, FanOutCreateDoes DEF NobodyJoins
<1>9. ASSUME NEW h \in Handlers, FanOutSkip(h) PROVE NobodyJoins'
  BY <1>9, FanOutSkipDoes DEF NobodyJoins
<1>10. ASSUME NEW h \in Handlers, AdvanceToStep(h) PROVE NobodyJoins'
  BY <1>10, AdvanceToStepDoes
     DEF NobodyJoins, Goes, Ends, Others, IdleHandler
<1>11. ASSUME NEW h \in Handlers, CompleteRun(h) PROVE NobodyJoins'
  BY <1>11, CompleteRunDoes
     DEF NobodyJoins, Goes, Ends, Others, IdleHandler
<1>12. ASSUME NEW h \in Handlers, NEW t \in Tasks, HandleFailed(h, t) PROVE NobodyJoins'
  BY <1>12, HandleFailedDoes
     DEF NobodyJoins, Goes, Ends, Others, IdleHandler
<1>13. ASSUME NEW h \in Handlers, RetryStep(h) PROVE NobodyJoins'
  BY <1>13, RetryStepDoes
     DEF NobodyJoins, Goes, Ends, Others, IdleHandler
<1>14. ASSUME NEW h \in Handlers, WakeUp(h) PROVE NobodyJoins'
  BY <1>14, WakeUpDoes
     DEF NobodyJoins, Goes, Ends, Others, IdleHandler
<1>15. ASSUME NEW h \in Handlers, CallErrorHandler(h) PROVE NobodyJoins'
  BY <1>15, CallErrorHandlerDoes
     DEF NobodyJoins, Goes, Ends, Others, IdleHandler
<1>16. ASSUME NEW h \in Handlers, FailRun(h) PROVE NobodyJoins'
  BY <1>16, FailRunDoes
     DEF NobodyJoins, Goes, Ends, Others, IdleHandler
<1>17. ASSUME NEW t \in Tasks, ClaimStep(t) PROVE NobodyJoins'
  BY <1>17, ClaimStepDoes
     DEF NobodyJoins, Goes, Ends, Others, IdleHandler
<1>18. ASSUME NEW t \in Tasks, TakeStep(t) PROVE NobodyJoins'
  BY <1>18, TakeStepDoes
     DEF NobodyJoins, Goes, Ends, Others, IdleHandler
<1>19. ASSUME NEW t \in Tasks, ReleaseStep(t) PROVE NobodyJoins'
  BY <1>19, ReleaseStepDoes
     DEF NobodyJoins, Goes, Ends, Others, IdleHandler
<1>20. ASSUME NEW t \in Tasks, NEW data \in Answers, CompleteStep(t, data) PROVE NobodyJoins'
  BY <1>20, CompleteStepDoes
     DEF NobodyJoins, Goes, Ends, Others, IdleHandler
<1>21. ASSUME NEW t \in Tasks, FailStep(t) PROVE NobodyJoins'
  BY <1>21, FailStepDoes
     DEF NobodyJoins, Goes, Ends, Others, IdleHandler
<1>22. ASSUME NEW t \in Tasks, DropStep(t) PROVE NobodyJoins'
  BY <1>22, DropStepDoes
     DEF NobodyJoins, Goes, Ends, Others, IdleHandler
<1>23. ASSUME NEW t \in Tasks, DlqRetry(t) PROVE NobodyJoins'
  BY <1>23, DlqRetryDoes
     DEF NobodyJoins, Goes, Ends, Others, IdleHandler
<1>24. ASSUME NEW m \in Messages, LoseMessage(m) PROVE NobodyJoins'
  BY <1>24, LoseMessageDoes
     DEF NobodyJoins, Goes, Ends, Others, IdleHandler
<1>25. ASSUME Forgetting PROVE NobodyJoins'
  BY <1>25, ForgettingDoes
     DEF NobodyJoins, Goes, Ends, Others, IdleHandler
<1>26. CASE UNCHANGED vars
  BY <1>26, Stutters DEF NobodyJoins
<1> QED BY <1>1, <1>2, <1>3, <1>4, <1>5, <1>6, <1>7, <1>8, <1>9, <1>10,
           <1>11, <1>12, <1>13, <1>14, <1>15, <1>16, <1>17, <1>18,
           <1>19, <1>20, <1>21, <1>22, <1>23, <1>24, <1>25, <1>26
   DEF Next, HandlerNext, CompletedNext, FailedNext, QueueNext, FaultNext, Forgetting

\* The task a handler has in hand is the only one.
LEMMA OneHand ==
    ASSUME Single, NEW h \in Handlers, NEW k \in Handlers,
           handler[h].pc \in {"store", "join", "advance"},
           handler[k].pc \in {"store", "join", "advance"}
    PROVE  h = k
<1>1. handler[h].task \in Tasks /\ handler[k].task \in Tasks
  BY DEF Single, Ledger, Base, LocalsOK
<1>2. InHand(h, handler[h].task) /\ InHand(k, handler[k].task)
  BY DEF InHand
<1>3. handler[h].task = handler[k].task
  BY <1>1, <1>2 DEF Single, OneGoing, Going
<1> QED BY <1>1, <1>2, <1>3 DEF Single, Ledger, CompletionsOK

LEMMA CopiesStep == Single /\ [Next]_vars => CopiesOK'
<1> SUFFICES ASSUME Single, [Next]_vars PROVE CopiesOK'
  OBVIOUS
<1> USE DEF Single, Ledger, Base
<1>1. ASSUME StartWorkflow PROVE CopiesOK'
  BY <1>1, StartWorkflowDoes
     DEF CopiesOK, Goes, Ends, Others, IdleHandler
<1>2. ASSUME NEW h \in Handlers, HandleStart(h) PROVE CopiesOK'
  BY <1>2, HandleStartDoes
     DEF CopiesOK, Goes, Ends, Others, IdleHandler
<1>3. ASSUME NEW h \in Handlers, CreateFirst(h) PROVE CopiesOK'
  BY <1>3, CreateFirstDoes
     DEF CopiesOK, Goes, Ends, Others, IdleHandler
<1>4. ASSUME NEW h \in Handlers, NEW t \in Tasks, NEW data \in BOOLEAN, HandleCompleted(h, t, data)
      PROVE CopiesOK'
  BY <1>4, HandleCompletedDoes
     DEF CopiesOK, Goes, Ends, Others, IdleHandler
<1>5. ASSUME NEW h \in Handlers, StoreResult(h) PROVE CopiesOK'
  BY <1>5, StoreResultDoes, OneHand
     DEF CopiesOK, Goes, Others
<1>6. ASSUME NEW h \in Handlers, Join(h) PROVE CopiesOK'
  BY <1>6, JoinDoes
     DEF CopiesOK, Goes, Ends, Others, IdleHandler
<1>7. ASSUME NEW h \in Handlers, AdvanceToGroup(h) PROVE CopiesOK'
  BY <1>7, AdvanceToGroupDoes DEF Sequential
<1>8. ASSUME NEW h \in Handlers, FanOutCreate(h) PROVE CopiesOK'
  BY <1>8, FanOutCreateDoes DEF NobodyJoins
<1>9. ASSUME NEW h \in Handlers, FanOutSkip(h) PROVE CopiesOK'
  BY <1>9, FanOutSkipDoes DEF NobodyJoins
<1>10. ASSUME NEW h \in Handlers, AdvanceToStep(h) PROVE CopiesOK'
  BY <1>10, AdvanceToStepDoes
     DEF CopiesOK, Goes, Ends, Others, IdleHandler
<1>11. ASSUME NEW h \in Handlers, CompleteRun(h) PROVE CopiesOK'
  BY <1>11, CompleteRunDoes, OneHand
     DEF CopiesOK, Ends, Others, IdleHandler
<1>12. ASSUME NEW h \in Handlers, NEW t \in Tasks, HandleFailed(h, t) PROVE CopiesOK'
  BY <1>12, HandleFailedDoes
     DEF CopiesOK, Goes, Ends, Others, IdleHandler
<1>13. ASSUME NEW h \in Handlers, RetryStep(h) PROVE CopiesOK'
  BY <1>13, RetryStepDoes
     DEF CopiesOK, Goes, Ends, Others, IdleHandler
<1>14. ASSUME NEW h \in Handlers, WakeUp(h) PROVE CopiesOK'
  BY <1>14, WakeUpDoes
     DEF CopiesOK, Goes, Ends, Others, IdleHandler
<1>15. ASSUME NEW h \in Handlers, CallErrorHandler(h) PROVE CopiesOK'
  BY <1>15, CallErrorHandlerDoes
     DEF CopiesOK, Goes, Ends, Others, IdleHandler
<1>16. ASSUME NEW h \in Handlers, FailRun(h) PROVE CopiesOK'
  BY <1>16, FailRunDoes
     DEF CopiesOK, Goes, Ends, Others, IdleHandler
<1>17. ASSUME NEW t \in Tasks, ClaimStep(t) PROVE CopiesOK'
  BY <1>17, ClaimStepDoes
     DEF CopiesOK, Goes, Ends, Others, IdleHandler
<1>18. ASSUME NEW t \in Tasks, TakeStep(t) PROVE CopiesOK'
  BY <1>18, TakeStepDoes
     DEF CopiesOK, Goes, Ends, Others, IdleHandler
<1>19. ASSUME NEW t \in Tasks, ReleaseStep(t) PROVE CopiesOK'
  BY <1>19, ReleaseStepDoes
     DEF CopiesOK, Goes, Ends, Others, IdleHandler
<1>20. ASSUME NEW t \in Tasks, NEW data \in Answers, CompleteStep(t, data) PROVE CopiesOK'
  BY <1>20, CompleteStepDoes
     DEF CopiesOK, Goes, Ends, Others, IdleHandler
<1>21. ASSUME NEW t \in Tasks, FailStep(t) PROVE CopiesOK'
  BY <1>21, FailStepDoes
     DEF CopiesOK, Goes, Ends, Others, IdleHandler
<1>22. ASSUME NEW t \in Tasks, DropStep(t) PROVE CopiesOK'
  BY <1>22, DropStepDoes
     DEF CopiesOK, Goes, Ends, Others, IdleHandler
<1>23. ASSUME NEW t \in Tasks, DlqRetry(t) PROVE CopiesOK'
  BY <1>23, DlqRetryDoes
     DEF CopiesOK, Goes, Ends, Others, IdleHandler
<1>24. ASSUME NEW m \in Messages, LoseMessage(m) PROVE CopiesOK'
  BY <1>24, LoseMessageDoes
     DEF CopiesOK, Goes, Ends, Others, IdleHandler
<1>25. ASSUME Forgetting PROVE CopiesOK'
  BY <1>25, ForgettingDoes
     DEF CopiesOK, Goes, Ends, Others, IdleHandler
<1>26. CASE UNCHANGED vars
  BY <1>26, Stutters DEF CopiesOK
<1> QED BY <1>1, <1>2, <1>3, <1>4, <1>5, <1>6, <1>7, <1>8, <1>9, <1>10,
           <1>11, <1>12, <1>13, <1>14, <1>15, <1>16, <1>17, <1>18,
           <1>19, <1>20, <1>21, <1>22, <1>23, <1>24, <1>25, <1>26
   DEF Next, HandlerNext, CompletedNext, FailedNext, QueueNext, FaultNext, Forgetting

ResultsStay == run.results \subseteq run'.results

LEMMA ResultsStep == Single /\ [Next]_vars => ResultsStay
<1> SUFFICES ASSUME Single, [Next]_vars PROVE ResultsStay
  OBVIOUS
<1> USE DEF ResultsStay, Single, Ledger, Base
<1>1. ASSUME StartWorkflow PROVE ResultsStay
  BY <1>1, StartWorkflowDoes
<1>2. ASSUME NEW h \in Handlers, HandleStart(h) PROVE ResultsStay
  BY <1>2, HandleStartDoes
<1>3. ASSUME NEW h \in Handlers, CreateFirst(h) PROVE ResultsStay
  BY <1>3, CreateFirstDoes
<1>4. ASSUME NEW h \in Handlers, NEW t \in Tasks, NEW data \in BOOLEAN, HandleCompleted(h, t, data)
      PROVE ResultsStay
  BY <1>4, HandleCompletedDoes
<1>5. ASSUME NEW h \in Handlers, StoreResult(h) PROVE ResultsStay
  BY <1>5, StoreResultDoes
     DEF CopiesOK
<1>6. ASSUME NEW h \in Handlers, Join(h) PROVE ResultsStay
  BY <1>6, JoinDoes
<1>7. ASSUME NEW h \in Handlers, AdvanceToGroup(h) PROVE ResultsStay
  BY <1>7, AdvanceToGroupDoes
<1>8. ASSUME NEW h \in Handlers, FanOutCreate(h) PROVE ResultsStay
  BY <1>8, FanOutCreateDoes
<1>9. ASSUME NEW h \in Handlers, FanOutSkip(h) PROVE ResultsStay
  BY <1>9, FanOutSkipDoes
<1>10. ASSUME NEW h \in Handlers, AdvanceToStep(h) PROVE ResultsStay
  BY <1>10, AdvanceToStepDoes
<1>11. ASSUME NEW h \in Handlers, CompleteRun(h) PROVE ResultsStay
  BY <1>11, CompleteRunDoes
     DEF CopiesOK
<1>12. ASSUME NEW h \in Handlers, NEW t \in Tasks, HandleFailed(h, t) PROVE ResultsStay
  BY <1>12, HandleFailedDoes
<1>13. ASSUME NEW h \in Handlers, RetryStep(h) PROVE ResultsStay
  BY <1>13, RetryStepDoes
<1>14. ASSUME NEW h \in Handlers, WakeUp(h) PROVE ResultsStay
  BY <1>14, WakeUpDoes
<1>15. ASSUME NEW h \in Handlers, CallErrorHandler(h) PROVE ResultsStay
  BY <1>15, CallErrorHandlerDoes
<1>16. ASSUME NEW h \in Handlers, FailRun(h) PROVE ResultsStay
  BY <1>16, FailRunDoes
<1>17. ASSUME NEW t \in Tasks, ClaimStep(t) PROVE ResultsStay
  BY <1>17, ClaimStepDoes
<1>18. ASSUME NEW t \in Tasks, TakeStep(t) PROVE ResultsStay
  BY <1>18, TakeStepDoes
<1>19. ASSUME NEW t \in Tasks, ReleaseStep(t) PROVE ResultsStay
  BY <1>19, ReleaseStepDoes
<1>20. ASSUME NEW t \in Tasks, NEW data \in Answers, CompleteStep(t, data) PROVE ResultsStay
  BY <1>20, CompleteStepDoes
<1>21. ASSUME NEW t \in Tasks, FailStep(t) PROVE ResultsStay
  BY <1>21, FailStepDoes
<1>22. ASSUME NEW t \in Tasks, DropStep(t) PROVE ResultsStay
  BY <1>22, DropStepDoes
<1>23. ASSUME NEW t \in Tasks, DlqRetry(t) PROVE ResultsStay
  BY <1>23, DlqRetryDoes
<1>24. ASSUME NEW m \in Messages, LoseMessage(m) PROVE ResultsStay
  BY <1>24, LoseMessageDoes
<1>25. ASSUME Forgetting PROVE ResultsStay
  BY <1>25, ForgettingDoes
<1>26. CASE UNCHANGED vars
  BY <1>26, Stutters
<1> QED BY <1>1, <1>2, <1>3, <1>4, <1>5, <1>6, <1>7, <1>8, <1>9, <1>10,
           <1>11, <1>12, <1>13, <1>14, <1>15, <1>16, <1>17, <1>18,
           <1>19, <1>20, <1>21, <1>22, <1>23, <1>24, <1>25, <1>26
   DEF Next, HandlerNext, CompletedNext, FailedNext, QueueNext, FaultNext, Forgetting

LEMMA SingleStep == Single /\ [Next]_vars => Single'
<1> SUFFICES ASSUME Single, [Next]_vars PROVE Single'
  OBVIOUS
<1>1. Sequential'
  BY DEF Single, Sequential, Grouped
<1>2. NobodyJoins'
  BY NobodyJoinsStep DEF Single, Ledger
<1> QED BY <1>1, <1>2, LedgerStep, OneGoingStep, CopiesStep DEF Single

\* A result stored in step_results stays there until the run ends, in every
\* formula without groups (a step of a group can write an older copy back),
\* as long as no dead-letter retry makes two tasks of the run go at a time.
THEOREM SequentialResultsAreKept ==
    ASSUME Sequential, NoDlq PROVE Spec => ResultsAreKept
<1>1. Init => Single
  <2> SUFFICES ASSUME Init PROVE Single
    OBVIOUS
  <2>1. Ledger
    BY LedgerInit
  <2>2. OneGoing /\ CopiesOK /\ NobodyJoins
    BY DEF Init, Queue!Init, OneGoing, Going, InHand, Recovers, CopiesOK, NobodyJoins,
       IdleHandler
  <2> QED BY <2>1, <2>2 DEF Single
<1>2. Single /\ [Next]_vars => [run.results \subseteq run'.results]_vars
  BY ResultsStep DEF ResultsStay
<1> QED BY <1>1, <1>2, SingleStep, PTL DEF Spec, ResultsAreKept

-----------------------------------------------------------------------------
(* What carries a run on.                                                   *)

\* A message for the router of t is under way, or will be.
Woken(t) ==
    \/ Available(t) \in nats
    \/ \E h \in Handlers : handler[h].pc = "wake" /\ handler[h].task = t

Carried(t) ==
    \/ life[t] \in {"held", "paused"}
    \/ life[t] = "pending" /\ Woken(t)
    \/ life[t] = "failed" /\ t \in history.dropped

Tells(t) == Failed(t) \in nats \/ \E data \in BOOLEAN : Completed(t, data) \in nats

Carries(h) ==
    handler[h].pc \in {"first", "store", "join", "advance", "fan", "recover"}

Carrier ==
    \/ Start \in nats
    \/ \E t \in Tasks : Carried(t) \/ Tells(t)
    \/ \E h \in Handlers : Carries(h)

Runs == run.status \in {"pending", "running"}

LEMMA CarriedIsNotForgotten ==
    ASSUME Base, Carrier
    PROVE  RunIsNotForgotten
<1>1. CASE Start \in nats
  BY <1>1 DEF RunIsNotForgotten, Start
<1>2. ASSUME NEW t \in Tasks, Carried(t) PROVE RunIsNotForgotten
  BY <1>2 DEF RunIsNotForgotten, Carried, Woken, Alive
<1>3. ASSUME NEW t \in Tasks, Tells(t) PROVE RunIsNotForgotten
  BY <1>3 DEF RunIsNotForgotten, Tells, Failed, Completed
<1>4. ASSUME NEW h \in Handlers, Carries(h) PROVE RunIsNotForgotten
  BY <1>4 DEF RunIsNotForgotten, Carries
<1> QED BY <1>1, <1>2, <1>3, <1>4 DEF Carrier

LEMMA NewTaskCarries ==
    ASSUME NEW t \in Tasks, NEW s, NewTask(t, s)
    PROVE  Carrier'
BY DEF NewTask, Moves, Carrier, Carried, Woken

\* The carriers that no move of the queue takes away.
Remembered == ~Faulty /\ Runs => Carrier

LEMMA RememberedAlone ==
    OnDisk /\ Sequential /\ Base /\ NobodyJoins /\ Remembered /\ [Next]_vars => Remembered'
<1> SUFFICES ASSUME OnDisk /\ Sequential /\ Base /\ NobodyJoins /\ Remembered, [Next]_vars
             PROVE Remembered'
  OBVIOUS
<1> USE DEF Base
<1>1. ASSUME StartWorkflow PROVE Remembered'
  BY <1>1, StartWorkflowDoes, MessagesDiffer
     DEF Remembered, Runs, StartOK, LocalsOK, Carrier, Carried, Woken, Tells, Carries,
         Goes, Ends, Others, IdleHandler, Moves
<1>2. ASSUME NEW h \in Handlers, HandleStart(h) PROVE Remembered'
  BY <1>2, HandleStartDoes, MessagesDiffer
     DEF Remembered, Runs, StartOK, LocalsOK, Carrier, Carried, Woken, Tells, Carries,
         Goes, Ends, Others, IdleHandler, Moves
<1>3. ASSUME NEW h \in Handlers, CreateFirst(h) PROVE Remembered'
  BY <1>3, CreateFirstDoes, NewTaskCarries
     DEF Remembered
<1>4. ASSUME NEW h \in Handlers, NEW t \in Tasks, NEW data \in BOOLEAN, HandleCompleted(h, t, data)
      PROVE Remembered'
  BY <1>4, HandleCompletedDoes, MessagesDiffer
     DEF Remembered, Runs, StartOK, LocalsOK, Carrier, Carried, Woken, Tells, Carries,
         Goes, Ends, Others, IdleHandler, Moves
<1>5. ASSUME NEW h \in Handlers, StoreResult(h) PROVE Remembered'
  <2>1. handler'[h].pc = "advance"
    BY <1>5, StoreResultDoes, HandlerParts DEF Sequential, Goes
  <2> QED BY <2>1 DEF Remembered, Carrier, Carries
<1>6. ASSUME NEW h \in Handlers, Join(h) PROVE Remembered'
  BY <1>6, JoinDoes
     DEF NobodyJoins
<1>7. ASSUME NEW h \in Handlers, AdvanceToGroup(h) PROVE Remembered'
  BY <1>7, AdvanceToGroupDoes
     DEF Sequential
<1>8. ASSUME NEW h \in Handlers, FanOutCreate(h) PROVE Remembered'
  BY <1>8, FanOutCreateDoes, NewTaskCarries
     DEF Remembered
<1>9. ASSUME NEW h \in Handlers, FanOutSkip(h) PROVE Remembered'
  BY <1>9, FanOutSkipDoes
     DEF NobodyJoins
<1>10. ASSUME NEW h \in Handlers, AdvanceToStep(h) PROVE Remembered'
  BY <1>10, AdvanceToStepDoes, NewTaskCarries
     DEF Remembered
<1>11. ASSUME NEW h \in Handlers, CompleteRun(h) PROVE Remembered'
  BY <1>11, CompleteRunDoes
     DEF Remembered, Runs
<1>12. ASSUME NEW h \in Handlers, NEW t \in Tasks, HandleFailed(h, t) PROVE Remembered'
  BY <1>12, HandleFailedDoes, MessagesDiffer
     DEF Remembered, Runs, StartOK, LocalsOK, Carrier, Carried, Woken, Tells, Carries,
         Goes, Ends, Others, IdleHandler, Moves
<1>13. ASSUME NEW h \in Handlers, RetryStep(h) PROVE Remembered'
  BY <1>13, RetryStepDoes, MessagesDiffer
     DEF Remembered, Runs, StartOK, LocalsOK, Carrier, Carried, Woken, Tells, Carries,
         Goes, Ends, Others, IdleHandler, Moves
<1>14. ASSUME NEW h \in Handlers, WakeUp(h) PROVE Remembered'
  BY <1>14, WakeUpDoes, MessagesDiffer
     DEF Remembered, Runs, StartOK, LocalsOK, Carrier, Carried, Woken, Tells, Carries,
         Goes, Ends, Others, IdleHandler, Moves
<1>15. ASSUME NEW h \in Handlers, CallErrorHandler(h) PROVE Remembered'
  BY <1>15, CallErrorHandlerDoes, NewTaskCarries
     DEF Remembered
<1>16. ASSUME NEW h \in Handlers, FailRun(h) PROVE Remembered'
  BY <1>16, FailRunDoes
     DEF Remembered, Runs
<1>17. ASSUME NEW t \in Tasks, ClaimStep(t) PROVE Remembered'
  BY <1>17, ClaimStepDoes, MessagesDiffer
     DEF Remembered, Runs, StartOK, LocalsOK, Carrier, Carried, Woken, Tells, Carries,
         Goes, Ends, Others, IdleHandler, Moves
<1>18. ASSUME NEW t \in Tasks, TakeStep(t) PROVE Remembered'
  BY <1>18, TakeStepDoes, MessagesDiffer
     DEF Remembered, Runs, StartOK, LocalsOK, Carrier, Carried, Woken, Tells, Carries,
         Goes, Ends, Others, IdleHandler, Moves
<1>19. ASSUME NEW t \in Tasks, ReleaseStep(t) PROVE Remembered'
  BY <1>19, ReleaseStepDoes, MessagesDiffer
     DEF Remembered, Runs, StartOK, LocalsOK, Carrier, Carried, Woken, Tells, Carries,
         Goes, Ends, Others, IdleHandler, Moves
<1>20. ASSUME NEW t \in Tasks, NEW data \in Answers, CompleteStep(t, data) PROVE Remembered'
  BY <1>20, CompleteStepDoes, MessagesDiffer
     DEF Remembered, Runs, StartOK, LocalsOK, Carrier, Carried, Woken, Tells, Carries,
         Goes, Ends, Others, IdleHandler, Moves
<1>21. ASSUME NEW t \in Tasks, FailStep(t) PROVE Remembered'
  BY <1>21, FailStepMoves, MessagesDiffer
     DEF Remembered, Runs, Carrier, Carried, Woken, Tells, Carries, Goes, Ends, Others,
         IdleHandler, Moves
<1>22. ASSUME NEW t \in Tasks, DropStep(t) PROVE Remembered'
  BY <1>22, DropStepDoes, MessagesDiffer
     DEF Remembered, Runs, StartOK, LocalsOK, Carrier, Carried, Woken, Tells, Carries,
         Goes, Ends, Others, IdleHandler, Moves
<1>23. ASSUME NEW t \in Tasks, DlqRetry(t) PROVE Remembered'
  BY <1>23, DlqRetryDoes, MessagesDiffer
     DEF Remembered, Runs, StartOK, LocalsOK, Carrier, Carried, Woken, Tells, Carries,
         Goes, Ends, Others, IdleHandler, Moves
<1>24. ASSUME NEW m \in Messages, LoseMessage(m) PROVE Remembered'
  BY <1>24, LoseMessageDoes
     DEF Remembered
<1>25. ASSUME Forgetting PROVE Remembered'
  BY <1>25, ForgettingDoes
     DEF Remembered
<1>26. CASE UNCHANGED vars
  BY <1>26, Stutters
     DEF Remembered, Runs, Carrier, Carried, Woken, Tells, Carries, Goes, Ends, Others,
         IdleHandler, Moves
<1> QED BY <1>1, <1>2, <1>3, <1>4, <1>5, <1>6, <1>7, <1>8, <1>9, <1>10,
           <1>11, <1>12, <1>13, <1>14, <1>15, <1>16, <1>17, <1>18,
           <1>19, <1>20, <1>21, <1>22, <1>23, <1>24, <1>25, <1>26
   DEF Next, HandlerNext, CompletedNext, FailedNext, QueueNext, FaultNext, Forgetting

\* A running run of a formula without groups always has a task, a message or
\* a handler that carries it on, or a dead-lettered task, when nothing is
\* lost: with an error handler or not, whatever the conditions, the retries
\* and the dead-letter queue, when the formula is a file.
THEOREM SequentialRunIsNotForgotten ==
    ASSUME Sequential, OnDisk PROVE Spec => []RunIsNotForgotten
<1> DEFINE Inv == Sequential /\ OnDisk /\ Base /\ NobodyJoins /\ Remembered
<1>1. Init => Inv
  <2> SUFFICES ASSUME Init PROVE Inv
    OBVIOUS
  <2>1. Base
    BY BaseInit
  <2>2. NobodyJoins /\ Remembered
    BY DEF Init, NobodyJoins, IdleHandler, Remembered, Runs
  <2> QED BY <2>1, <2>2
<1>2. Inv /\ [Next]_vars => Inv'
  <2> SUFFICES ASSUME Inv, [Next]_vars PROVE Inv'
    OBVIOUS
  <2>1. Sequential'
    BY DEF Sequential, Grouped
  <2> QED BY <2>1, BaseStep, NobodyJoinsStep, RememberedAlone
<1>3. Inv => RunIsNotForgotten
  <2> SUFFICES ASSUME Inv PROVE RunIsNotForgotten
    OBVIOUS
  <2>1. CASE ~Faulty /\ Runs
    BY <2>1, CarriedIsNotForgotten DEF Remembered
  <2>2. CASE ~(~Faulty /\ Runs)
    BY <2>2 DEF RunIsNotForgotten, Runs
  <2> QED BY <2>1, <2>2
<1> HIDE DEF Inv
<1> QED BY <1>1, <1>2, <1>3, PTL DEF Spec

-----------------------------------------------------------------------------
(* A formula with one group, which does not begin it; no error handler, and *)
(* no condition on the step before the group (the step that gives way to    *)
(* the first member would let it run alone).                                *)

OneGroup ==
    /\ ~Grouped(0)
    /\ \A i, j \in Steps : Grouped(i) /\ Grouped(j) =>
         Group[i] = Group[j] /\ \A k \in i..j : Grouped(k)
    /\ \A s \in Steps : s + 1 \in Steps /\ Grouped(s + 1) /\ ~Grouped(s) => When[s] = NoStep

Shape == NoDlq /\ ~OnFailure /\ OneGroup

\* The steps before the group, and those after it.
Early(s) == \A i \in 0..s : ~Grouped(i)
Late(s) == ~Grouped(s) /\ ~Early(s)

GroupSteps == {s \in Steps : Grouped(s)}

LEMMA EarlyFirst ==
    ASSUME OneGroup
    PROVE  Early(0)
BY DEF OneGroup, Early

LEMMA EarlyAdvance ==
    ASSUME OneGroup, NEW s \in Steps, Early(s)
    PROVE  /\ ~Grouped(s) /\ AdvanceTo(s) = s + 1
           /\ \A i \in Steps : i <= s => Early(i)
           /\ \A i \in Steps : Grouped(i) => i > s
           /\ s + 1 \in Steps /\ ~Grouped(s + 1) =>
                /\ Early(s + 1)
                /\ s + 2 \in Steps /\ When[s + 1] # NoStep => Early(s + 2)
<1> USE FormulaAssumption DEF Steps
<1>1. ~Grouped(s) /\ AdvanceTo(s) = s + 1
  BY AdvanceIsNext DEF Early
<1>2. \A i \in Steps : i <= s => Early(i)
  BY DEF Early
<1>3. \A i \in Steps : Grouped(i) => i > s
  BY DEF Early
<1>4. ASSUME s + 1 \in Steps, ~Grouped(s + 1) PROVE Early(s + 1)
  BY <1>4 DEF Early
<1>5. ASSUME s + 1 \in Steps, ~Grouped(s + 1), s + 2 \in Steps, When[s + 1] # NoStep
      PROVE  Early(s + 2)
  <2>1. ~Grouped(s + 2)
    <3>1. s + 2 = (s + 1) + 1
      OBVIOUS
    <3> QED BY <1>5, <3>1 DEF OneGroup
  <2> QED BY <1>4, <1>5, <2>1 DEF Early
<1> QED BY <1>1, <1>2, <1>3, <1>4, <1>5

LEMMA GroupAhead ==
    ASSUME OneGroup, NEW s \in Steps, Early(s), s + 1 \in Steps, Grouped(s + 1)
    PROVE  /\ Members(s + 1) = GroupSteps
           /\ \A i \in Steps, m \in GroupSteps : i < m /\ ~Grouped(i) => i <= s
<1> USE FormulaAssumption DEF Steps
<1> DEFINE f == s + 1
           n == AdvanceTo(f)
<1>1. f \in Steps /\ Grouped(f) /\ f = s + 1
  OBVIOUS
<1> HIDE DEF f
<1>2. /\ \A i \in f..(n - 1) : i \in Steps /\ Group[i] = Group[f]
      /\ n \in (f + 1)..NSteps
      /\ n \in Steps => Group[n] # Group[f]
  BY <1>1, AdvanceIsNext
<1>3. Members(f) = f..(n - 1)
  BY DEF Members
<1> HIDE DEF n
<1>4. \A i \in Members(f) : i \in GroupSteps
  BY <1>1, <1>2, <1>3 DEF GroupSteps, Grouped
<1>5. ASSUME NEW m \in GroupSteps PROVE m \in Members(f)
  <2>1. m \in Steps /\ Grouped(m) /\ m >= f
    BY <1>1, EarlyAdvance DEF GroupSteps
  <2>2. ASSUME n <= m PROVE FALSE
    <3>1. n \in f..m /\ n \in Steps
      BY <1>1, <1>2, <2>1, <2>2
    <3>2. Grouped(n)
      BY <1>1, <2>1, <3>1 DEF OneGroup
    <3> QED BY <1>1, <1>2, <3>1, <3>2 DEF OneGroup
  <2> QED BY <1>1, <1>2, <1>3, <2>1, <2>2
<1>6. ASSUME NEW i \in Steps, NEW m \in GroupSteps, i < m, ~Grouped(i) PROVE i <= s
  <2>1. i >= f => i \in f..m
    BY <1>1, <1>6 DEF GroupSteps
  <2> QED BY <1>1, <1>6, <2>1 DEF OneGroup, GroupSteps
<1>7. Members(f) = GroupSteps
  BY <1>4, <1>5
<1> QED BY <1>6, <1>7 DEF f

LEMMA GroupAdvance ==
    ASSUME OneGroup, NEW s \in Steps, Grouped(s)
    PROVE  /\ AdvanceTo(s) > s
           /\ ~Early(s) /\ ~Late(s)
           /\ \A i \in s..(AdvanceTo(s) - 1) : Grouped(i)
           /\ AdvanceTo(s) \in Steps => Late(AdvanceTo(s))
           /\ AdvanceTo(s) \in Steps /\ AdvanceTo(s) + 1 \in Steps => Late(AdvanceTo(s) + 1)
<1> USE FormulaAssumption DEF Steps
<1> DEFINE n == AdvanceTo(s)
<1>1. /\ \A i \in s..(n - 1) : i \in Steps /\ Group[i] = Group[s]
      /\ n \in (s + 1)..NSteps
      /\ n \in Steps => Group[n] # Group[s]
  BY AdvanceIsNext
<1> HIDE DEF n
<1>2. ~Early(s) /\ ~Late(s) /\ \A i \in s..(n - 1) : Grouped(i)
  BY <1>1 DEF Early, Late, Grouped
<1>3. \A i \in Steps : i >= n => ~Grouped(i)
  <2> SUFFICES ASSUME NEW i \in Steps, i >= n, Grouped(i) PROVE FALSE
    OBVIOUS
  <2>1. n \in s..i /\ n \in Steps
    BY <1>1
  <2>2. Grouped(n)
    BY <2>1 DEF OneGroup
  <2> QED BY <1>1, <2>1, <2>2 DEF OneGroup
<1>4. \A i \in Steps : i > s => ~Early(i)
  BY DEF Early
<1>5. \A i \in Steps : i >= n => Late(i)
  BY <1>1, <1>3, <1>4 DEF Late
<1>6. n > s /\ n + 1 >= n /\ n >= n
  BY <1>1
<1>7. /\ n \in Steps => Late(n)
      /\ n + 1 \in Steps => Late(n + 1)
  BY <1>5, <1>6
<1> QED BY <1>2, <1>6, <1>7 DEF n

LEMMA LateAdvance ==
    ASSUME OneGroup, NEW s \in Steps, Late(s)
    PROVE  /\ AdvanceTo(s) = s + 1
           /\ s + 1 \in Steps => Late(s + 1)
           /\ s + 2 \in Steps => Late(s + 2)
<1> USE FormulaAssumption DEF Steps
<1>1. AdvanceTo(s) = s + 1
  BY AdvanceIsNext DEF Late
<1>2. PICK g \in 0..s : Grouped(g)
  BY DEF Late, Early
<1>3. ~Grouped(s) /\ g < s
  BY <1>2 DEF Late
<1>4. \A i \in Steps : i > s => ~Grouped(i)
  BY <1>2, <1>3 DEF OneGroup
<1>5. \A i \in Steps : i > s => Late(i)
  BY <1>2, <1>4 DEF Late, Early
<1> QED BY <1>1, <1>5

LEMMA Phases ==
    ASSUME NEW s \in Steps
    PROVE  Early(s) \/ Grouped(s) \/ Late(s)
BY DEF Late

-----------------------------------------------------------------------------
(* The invariants of a run of such a formula.                               *)

Exists(t) == life[t] # "absent"

\* A task that is not done, or whose completion is being handled.
Open(t) ==
    \/ life[t] \notin {"absent", "completed"}
    \/ \E data \in BOOLEAN : Completed(t, data) \in nats
    \/ \E h \in Handlers : InHand(h, t)

Fanning == \E h \in Handlers : handler[h].pc = "fan"

\* The group has begun.
Begun == Fanning \/ \E t \in Tasks : Exists(t) /\ ~Early(task[t].step)

StepsKnown == \A t \in Tasks : Exists(t) => task[t].step \in Steps

\* A formula that is not a file gets as far as its first task.
DiskOK == ~OnDisk =>
    /\ \A h \in Handlers : handler[h].pc \in {"idle", "first"}
    /\ \A t \in Tasks : Exists(t) => task[t].step = 0

FiniteOK == IsFiniteSet({t \in Tasks : Exists(t)})

\* Before the group one task is open at a time, the one of the last step.
EarlyAlone == \A u \in Tasks : Exists(u) /\ Early(task[u].step) /\ Open(u) =>
    /\ ~Fanning
    /\ \A t \in Tasks \ {u} : Exists(t) => ~Open(t) /\ task[t].step < task[u].step

\* One handler fans out, coming from the step before the group.
FanOK == \A h \in Handlers : handler[h].pc = "fan" =>
    /\ \A k \in Handlers : handler[k].pc = "fan" => k = h
    /\ Early(handler[h].step)
    /\ handler[h].step + 1 \in GroupSteps
    /\ handler[h].todo \subseteq GroupSteps

UncountedTasks == {t \in Tasks : Uncounted(t)}
ToCreate == UNION {{h} \X handler[h].todo : h \in Handlers}
Count == Cardinality(ToCreate) + Cardinality(UncountedTasks)

\* The unconditional members that have no task and will get none.
Missing == {s \in GroupSteps :
    /\ When[s] = NoStep
    /\ \A t \in Tasks : Exists(t) => task[t].step # s
    /\ \A h \in Handlers : s \notin handler[h].todo}

\* A loss makes the counter too high, and a member that a crash left out keeps
\* it from ever reaching zero.
PendingOK ==
    /\ run.pending >= Count
    /\ ~Faulty => run.pending = Count
    /\ Begun /\ Missing # {} => run.pending > Count

GroupOver == ~Fanning /\ UncountedTasks = {} /\ Missing = {}

\* What comes after the group begins when the group is over.
LateOK ==
    \/ \E h \in Handlers : handler[h].pc = "advance" /\ Grouped(handler[h].step)
    \/ \E t \in Tasks : Exists(t) /\ Late(task[t].step)
    => GroupOver

\* The unconditional steps before s, but for the members of its own group,
\* are done.
BeforeDone(s) == \A i \in Steps : i < s /\ When[i] = NoStep /\ ~(Grouped(i) /\ Grouped(s)) =>
    \E u \in history.done : task[u].step = i

OrderOK == \A t \in Tasks : Exists(t) => BeforeDone(task[t].step)

Chain ==
    /\ Shape /\ Ledger
    /\ StepsKnown /\ DiskOK /\ FiniteOK /\ EarlyAlone /\ FanOK
    /\ PendingOK /\ LateOK /\ OrderOK /\ NoStepIsMissed

\* A step that opens nothing and leaves the group alone.
Quiet ==
    /\ KeepsStep /\ \A t \in Tasks : Exists(t)' <=> Exists(t)
    /\ \A t \in Tasks : Open(t)' => Open(t)
    /\ \A t \in Tasks : Uncounted(t)' <=> Uncounted(t)
    /\ \A h \in Handlers :
         /\ handler'[h].todo = handler[h].todo
         /\ handler'[h].pc = "fan" <=> handler[h].pc = "fan"
         /\ handler[h].pc = "fan" => handler'[h].step = handler[h].step
    /\ history.done \subseteq history'.done
    /\ run'.pending = run.pending

Noisy ==
    \/ \E h \in Handlers :
         \/ CreateFirst(h) \/ AdvanceToGroup(h) \/ FanOutCreate(h) \/ FanOutSkip(h)
         \/ AdvanceToStep(h)
         \/ StoreResult(h) /\ Grouped(handler[h].step)
    \/ \E m \in Messages : LoseMessage(m)
    \/ Forgetting

LEMMA NothingToFan ==
    ASSUME LocalsOK, NEW h \in Handlers, handler[h].pc # "fan"
    PROVE  handler[h].todo = {}
BY DEF LocalsOK

\* A statement of a handler that changes no task.
OnlyHandler(h) ==
    /\ Others(h) /\ life' = life /\ task' = task /\ history' = history
    /\ run'.pending = run.pending
    /\ \A t \in Tasks, data \in BOOLEAN :
         Completed(t, data) \in nats' <=> Completed(t, data) \in nats
    /\ handler[h].pc \notin {"store", "fan"} /\ handler'[h].pc \notin {"store", "fan"}
    /\ handler'[h].todo = handler[h].todo
    /\ handler'[h].pc \in {"join", "advance"} =>
         handler[h].pc = "join" /\ handler'[h].task = handler[h].task

LEMMA HandlerQuiet ==
    ASSUME NEW h \in Handlers, OnlyHandler(h)
    PROVE  Quiet
<1> USE DEF OnlyHandler
<1>1. \A k \in Handlers, t \in Tasks : InHand(k, t)' => InHand(k, t)
  BY DEF InHand, Others
<1>2. \A t \in Tasks : Open(t)' => Open(t)
  BY <1>1 DEF Open
<1>3. \A k \in Handlers, t \in Tasks :
        (handler'[k].pc = "store" /\ handler'[k].task = t)
        <=> (handler[k].pc = "store" /\ handler[k].task = t)
  BY DEF Others
<1>4. \A t \in Tasks : Uncounted(t)' <=> Uncounted(t)
  BY <1>3 DEF Uncounted
<1>5. \A k \in Handlers :
         /\ handler'[k].todo = handler[k].todo
         /\ handler'[k].pc = "fan" <=> handler[k].pc = "fan"
         /\ handler[k].pc = "fan" => handler'[k].step = handler[k].step
  BY DEF Others
<1> QED BY <1>2, <1>4, <1>5 DEF Quiet, KeepsStep, Exists

\* A last statement of a handler, which changes no task.
LastStatement(h) ==
    /\ Ends(h) /\ life' = life /\ task' = task /\ history' = history
    /\ run'.pending = run.pending
    /\ \A t \in Tasks, data \in BOOLEAN :
         Completed(t, data) \in nats' <=> Completed(t, data) \in nats
    /\ handler[h].pc \notin {"store", "fan"}

LEMMA LastQuiet ==
    ASSUME LocalsOK, NEW h \in Handlers, LastStatement(h)
    PROVE  Quiet
<1>1. handler[h].todo = {}
  BY NothingToFan DEF LastStatement
<1>2. handler'[h] = IdleHandler /\ IdleHandler.pc = "idle" /\ IdleHandler.todo = {}
  BY DEF LastStatement, Ends, IdleHandler
<1>3. OnlyHandler(h)
  BY <1>1, <1>2 DEF LastStatement, OnlyHandler, Ends
<1> QED BY <1>3, HandlerQuiet

LEMMA QuietStep == Chain /\ [Next]_vars => Quiet \/ Noisy
<1> SUFFICES ASSUME Chain, [Next]_vars PROVE Quiet \/ Noisy
  OBVIOUS
<1> USE DEF Chain, Ledger, Base
<1>1. ASSUME StartWorkflow PROVE Quiet \/ Noisy
  BY <1>1, StartWorkflowDoes, MessagesDiffer
     DEF Quiet, KeepsStep, Exists, Open, Uncounted, InHand, Recovers, LocalsOK, Goes,
         Ends, Others, IdleHandler, Moves
<1>2. ASSUME NEW h \in Handlers, HandleStart(h) PROVE Quiet \/ Noisy
  BY <1>2, HandleStartDoes, MessagesDiffer
     DEF Quiet, KeepsStep, Exists, Open, Uncounted, InHand, Recovers, LocalsOK, Goes,
         Ends, Others, IdleHandler, Moves
<1>3. ASSUME NEW h \in Handlers, CreateFirst(h) PROVE Quiet \/ Noisy
  BY <1>3 DEF Noisy
<1>4. ASSUME NEW h \in Handlers, NEW t \in Tasks, NEW data \in BOOLEAN, HandleCompleted(h, t, data)
      PROVE Quiet \/ Noisy
  <2>1. /\ handler[h].pc = "idle" /\ handler[h].todo = {}
        /\ Completed(t, data) \in nats /\ nats' = nats \ {Completed(t, data)}
        /\ run' = run /\ life' = life /\ task' = task /\ history' = history
    BY <1>4, HandleCompletedDoes DEF LocalsOK
  <2>2. CASE OnDisk
    <3>1. /\ handler'[h].pc = "store" /\ handler'[h].task = t /\ handler'[h].todo = {}
          /\ Others(h)
      BY <1>4, <2>2, HandleCompletedDoes
    <3>2. \A u \in Tasks : Open(u)' => Open(u)
      BY <2>1, <3>1, MessagesDiffer DEF Open, InHand, Others
    <3>3. \A u \in Tasks : Uncounted(u)' <=> Uncounted(u)
      BY <2>1, <3>1, MessagesDiffer DEF Uncounted, Others
    <3>4. \A k \in Handlers :
             /\ handler'[k].todo = handler[k].todo
             /\ handler'[k].pc = "fan" <=> handler[k].pc = "fan"
             /\ handler[k].pc = "fan" => handler'[k].step = handler[k].step
      BY <2>1, <3>1 DEF Others
    <3> QED BY <2>1, <3>2, <3>3, <3>4 DEF Quiet, KeepsStep, Exists
  <2>3. CASE ~OnDisk
    <3>1. handler' = handler
      BY <1>4, <2>3, HandleCompletedDoes
    <3>2. \A u \in Tasks : ~Uncounted(u)
      BY <2>3 DEF DiskOK, Uncounted, Exists, Shape, OneGroup
    <3>3. \A u \in Tasks : ~Uncounted(u)'
      BY <2>1, <2>3 DEF DiskOK, Uncounted, Exists, Shape, OneGroup
    <3> QED BY <2>1, <3>1, <3>2, <3>3 DEF Quiet, KeepsStep, Exists, Open, InHand
  <2> QED BY <2>2, <2>3
<1>5. ASSUME NEW h \in Handlers, StoreResult(h) PROVE Quiet \/ Noisy
  <2>1. CASE Grouped(handler[h].step)
    BY <1>5, <2>1 DEF Noisy
  <2>2. CASE ~Grouped(handler[h].step)
    <3>1. /\ handler[h].pc = "store" /\ Goes(h, "advance") /\ handler'[h].todo = handler[h].todo
          /\ run'.pending = run.pending
          /\ life' = life /\ task' = task /\ nats' = nats /\ history' = history
      BY <1>5, <2>2, StoreResultDoes
    <3>2. \A u \in Tasks : Open(u)' => Open(u)
      BY <3>1 DEF Open, InHand, Goes, Others
    <3>3. handler[h].step = StepOf(handler[h].task)
      BY <3>1 DEF CompletionsOK
    <3>4. ASSUME NEW u \in Tasks PROVE Uncounted(u)' <=> Uncounted(u)
      <4>1. CASE u # handler[h].task
        BY <3>1, <4>1 DEF Uncounted, Goes, Others
      <4>2. CASE u = handler[h].task
        <5>1. task[u].step # NoStep => ~Grouped(task[u].step)
          BY <2>2, <3>3, <4>2 DEF StepOf
        <5> QED BY <3>1, <5>1 DEF Uncounted
      <4> QED BY <4>1, <4>2
    <3>5. \A k \in Handlers :
             /\ handler'[k].todo = handler[k].todo
             /\ handler'[k].pc = "fan" <=> handler[k].pc = "fan"
             /\ handler[k].pc = "fan" => handler'[k].step = handler[k].step
      BY <3>1 DEF Goes, Others
    <3> QED BY <3>1, <3>2, <3>4, <3>5 DEF Quiet, KeepsStep, Exists
  <2> QED BY <2>1, <2>2
<1>6. ASSUME NEW h \in Handlers, Join(h) PROVE Quiet \/ Noisy
  <2>1. CASE run.pending > 0
    <3>1. LastStatement(h)
      BY <1>6, <2>1, JoinDoes DEF LastStatement
    <3> QED BY <3>1, LastQuiet
  <2>2. CASE ~(run.pending > 0)
    <3>1. OnlyHandler(h)
      BY <1>6, <2>2, JoinDoes DEF OnlyHandler, Goes
    <3> QED BY <3>1, HandlerQuiet
  <2> QED BY <2>1, <2>2
<1>7. ASSUME NEW h \in Handlers, AdvanceToGroup(h) PROVE Quiet \/ Noisy
  BY <1>7 DEF Noisy
<1>8. ASSUME NEW h \in Handlers, FanOutCreate(h) PROVE Quiet \/ Noisy
  BY <1>8 DEF Noisy
<1>9. ASSUME NEW h \in Handlers, FanOutSkip(h) PROVE Quiet \/ Noisy
  BY <1>9 DEF Noisy
<1>10. ASSUME NEW h \in Handlers, AdvanceToStep(h) PROVE Quiet \/ Noisy
  BY <1>10 DEF Noisy
<1>11. ASSUME NEW h \in Handlers, CompleteRun(h) PROVE Quiet \/ Noisy
  <2>1. LastStatement(h)
    BY <1>11, CompleteRunDoes DEF LastStatement
  <2> QED BY <2>1, LastQuiet
<1>12. ASSUME NEW h \in Handlers, NEW t \in Tasks, HandleFailed(h, t) PROVE Quiet \/ Noisy
  <2>1. handler[h].pc = "idle"
    BY <1>12, HandleFailedDoes
  <2>2. handler[h].todo = {}
    BY <2>1, NothingToFan
  <2>3. CASE OnDisk
    <3>1. OnlyHandler(h)
      BY <1>12, <2>1, <2>2, <2>3, HandleFailedDoes, MessagesDiffer DEF OnlyHandler
    <3> QED BY <3>1, HandlerQuiet
  <2>4. CASE ~OnDisk
    BY <1>12, <2>4, HandleFailedDoes, MessagesDiffer
       DEF Quiet, KeepsStep, Exists, Open, Uncounted, InHand
  <2> QED BY <2>3, <2>4
<1>13. ASSUME NEW h \in Handlers, RetryStep(h) PROVE Quiet \/ Noisy
  BY <1>13, RetryStepDoes
     DEF FailuresOK, Quiet, KeepsStep, Exists, Open, Uncounted, InHand, Recovers,
         LocalsOK, Goes, Ends, Others, IdleHandler, Moves
<1>14. ASSUME NEW h \in Handlers, WakeUp(h) PROVE Quiet \/ Noisy
  <2>1. LastStatement(h)
    BY <1>14, WakeUpDoes, MessagesDiffer DEF LastStatement
  <2> QED BY <2>1, LastQuiet
<1>15. ASSUME NEW h \in Handlers, CallErrorHandler(h) PROVE Quiet \/ Noisy
  BY <1>15, CallErrorHandlerDoes DEF Shape
<1>16. ASSUME NEW h \in Handlers, FailRun(h) PROVE Quiet \/ Noisy
  <2>1. LastStatement(h)
    BY <1>16, FailRunDoes DEF LastStatement
  <2> QED BY <2>1, LastQuiet
<1>17. ASSUME NEW t \in Tasks, ClaimStep(t) PROVE Quiet \/ Noisy
  BY <1>17, ClaimStepDoes, MessagesDiffer
     DEF Quiet, KeepsStep, Exists, Open, Uncounted, InHand, Recovers, LocalsOK, Goes,
         Ends, Others, IdleHandler, Moves
<1>18. ASSUME NEW t \in Tasks, TakeStep(t) PROVE Quiet \/ Noisy
  BY <1>18, TakeStepDoes, MessagesDiffer
     DEF Quiet, KeepsStep, Exists, Open, Uncounted, InHand, Recovers, LocalsOK, Goes,
         Ends, Others, IdleHandler, Moves
<1>19. ASSUME NEW t \in Tasks, ReleaseStep(t) PROVE Quiet \/ Noisy
  BY <1>19, ReleaseStepDoes, MessagesDiffer
     DEF Quiet, KeepsStep, Exists, Open, Uncounted, InHand, Recovers, LocalsOK, Goes,
         Ends, Others, IdleHandler, Moves
<1>20. ASSUME NEW t \in Tasks, NEW data \in Answers, CompleteStep(t, data) PROVE Quiet \/ Noisy
  BY <1>20, CompleteStepDoes, MessagesDiffer
     DEF Quiet, KeepsStep, Exists, Open, Uncounted, InHand, Recovers, LocalsOK, Goes,
         Ends, Others, IdleHandler, Moves
<1>21. ASSUME NEW t \in Tasks, FailStep(t) PROVE Quiet \/ Noisy
  BY <1>21, FailStepMoves, MessagesDiffer
     DEF Quiet, KeepsStep, Exists, Open, Uncounted, InHand, Recovers, LocalsOK, Goes,
         Ends, Others, IdleHandler, Moves
<1>22. ASSUME NEW t \in Tasks, DropStep(t) PROVE Quiet \/ Noisy
  BY <1>22, DropStepDoes, MessagesDiffer
     DEF Quiet, KeepsStep, Exists, Open, Uncounted, InHand, Recovers, LocalsOK, Goes,
         Ends, Others, IdleHandler, Moves
<1>23. ASSUME NEW t \in Tasks, DlqRetry(t) PROVE Quiet \/ Noisy
  BY <1>23, DlqRetryDoes DEF NoDlq
<1>24. ASSUME NEW m \in Messages, LoseMessage(m) PROVE Quiet \/ Noisy
  BY <1>24 DEF Noisy
<1>25. ASSUME Forgetting PROVE Quiet \/ Noisy
  BY <1>25 DEF Noisy
<1>26. CASE UNCHANGED vars
  BY <1>26, Stutters
     DEF Quiet, KeepsStep, Exists, Open, Uncounted, InHand, Recovers, LocalsOK, Goes,
         Ends, Others, IdleHandler, Moves
<1> QED BY <1>1, <1>2, <1>3, <1>4, <1>5, <1>6, <1>7, <1>8, <1>9, <1>10,
           <1>11, <1>12, <1>13, <1>14, <1>15, <1>16, <1>17, <1>18,
           <1>19, <1>20, <1>21, <1>22, <1>23, <1>24, <1>25, <1>26
   DEF Next, HandlerNext, CompletedNext, FailedNext, QueueNext, FaultNext, Forgetting

\* What a quiet step leaves as it is.
LEMMA QuietParts ==
    ASSUME Quiet
    PROVE  /\ \A t \in Tasks : task'[t].step = task[t].step /\ (Exists(t)' <=> Exists(t))
           /\ Fanning' <=> Fanning
           /\ ToCreate' = ToCreate /\ UncountedTasks' = UncountedTasks /\ Missing' = Missing
           /\ Count' = Count /\ (Begun' <=> Begun) /\ (GroupOver' <=> GroupOver)
<1>1. \A t \in Tasks : task'[t].step = task[t].step /\ (Exists(t)' <=> Exists(t))
  BY DEF Quiet, KeepsStep
<1>2. Fanning' <=> Fanning
  BY DEF Quiet, Fanning
<1>3. \A h \in Handlers : handler'[h].todo = handler[h].todo
  BY DEF Quiet
<1>4. UncountedTasks' = UncountedTasks
  BY DEF Quiet, UncountedTasks
<1>5. ToCreate' = ToCreate
  BY <1>3 DEF ToCreate
<1>6. Missing' = Missing
  BY <1>1, <1>3 DEF Missing
<1>7. Count' = Count
  BY <1>4, <1>5 DEF Count
<1>8. Begun' <=> Begun
  BY <1>1, <1>2 DEF Begun
<1>9. GroupOver' <=> GroupOver
  BY <1>2, <1>4, <1>6 DEF GroupOver
<1> QED BY <1>1, <1>2, <1>4, <1>5, <1>6, <1>7, <1>8, <1>9

LEMMA QuietKeeps ==
    ASSUME Chain, Quiet
    PROVE  /\ StepsKnown' /\ FiniteOK' /\ EarlyAlone' /\ FanOK'
           /\ PendingOK' /\ OrderOK'
<1>1. /\ \A t \in Tasks : task'[t].step = task[t].step /\ (Exists(t)' <=> Exists(t))
      /\ Fanning' <=> Fanning
      /\ Count' = Count /\ (Begun' <=> Begun) /\ Missing' = Missing
  BY QuietParts
<1>2. StepsKnown'
  BY <1>1 DEF Chain, StepsKnown
<1>3. FiniteOK'
  <2>1. {t \in Tasks : Exists(t)}' = {t \in Tasks : Exists(t)}
    BY <1>1
  <2> QED BY <2>1 DEF Chain, FiniteOK
<1>4. EarlyAlone'
  <2>1. \A t \in Tasks : Open(t)' => Open(t)
    BY DEF Quiet
  <2> QED BY <1>1, <2>1 DEF Chain, EarlyAlone
<1>5. FanOK'
  <2>1. \A h \in Handlers :
         /\ handler'[h].todo = handler[h].todo
         /\ handler'[h].pc = "fan" <=> handler[h].pc = "fan"
         /\ handler[h].pc = "fan" => handler'[h].step = handler[h].step
    BY DEF Quiet
  <2> QED BY <2>1 DEF Chain, FanOK
<1>6. PendingOK'
  <2>1. run'.pending = run.pending
    BY DEF Quiet
  <2> QED BY <1>1, <2>1 DEF Chain, PendingOK
<1>7. OrderOK'
  <2>1. history.done \subseteq history'.done /\ history.done \subseteq Tasks
    BY HistoryParts DEF Quiet, Chain, Ledger, Base
  <2> QED BY <1>1, <2>1 DEF Chain, OrderOK, BeforeDone
<1> QED BY <1>2, <1>3, <1>4, <1>5, <1>6, <1>7

LEMMA StepsFinite == IsFiniteSet(Steps)
<1>1. 0 \in Int /\ NSteps - 1 \in Int
  BY FormulaAssumption
<1> QED BY <1>1, FS_Interval DEF Steps

\* The sets that are counted are finite.
LEMMA CountFinite ==
    ASSUME Chain
    PROVE  /\ IsFiniteSet(ToCreate) /\ IsFiniteSet(UncountedTasks)
           /\ Cardinality(ToCreate) \in Nat /\ Cardinality(UncountedTasks) \in Nat
           /\ run.pending \in Int
<1>1. IsFiniteSet(UncountedTasks)
  <2>1. UncountedTasks \subseteq {t \in Tasks : Exists(t)}
    BY DEF UncountedTasks, Uncounted, Exists
  <2> QED BY <2>1, FS_Subset DEF Chain, FiniteOK
<1>2. IsFiniteSet(ToCreate)
  <2>1. CASE \A h \in Handlers : handler[h].todo = {}
    <3>1. ToCreate = {}
      BY <2>1 DEF ToCreate
    <3> QED BY <3>1, FS_EmptySet
  <2>2. ASSUME NEW h \in Handlers, handler[h].todo # {} PROVE IsFiniteSet(ToCreate)
    <3>1. \A k \in Handlers : handler[k].todo # {} => k = h
      BY <2>2 DEF Chain, Ledger, Base, LocalsOK, FanOK
    <3>2. ToCreate \subseteq {h} \X Steps
      BY <3>1, HandlerParts DEF ToCreate, Chain, Ledger, Base
    <3>3. IsFiniteSet(Steps) /\ IsFiniteSet({h})
      BY StepsFinite, FS_Singleton
    <3>4. IsFiniteSet({h} \X Steps)
      BY <3>3, FS_Product
    <3> QED BY <3>2, <3>4, FS_Subset
  <2> QED BY <2>1, <2>2
<1>3. run.pending \in Int
  BY RunParts DEF Chain, Ledger, Base
<1> QED BY <1>1, <1>2, <1>3, FS_CardinalityType

\* The handler's task is done, and its row has the handler's step.
LEMMA InHandStep ==
    ASSUME Chain, NEW h \in Handlers, handler[h].pc \in {"store", "join", "advance", "fan"}
    PROVE  /\ handler[h].task \in Tasks /\ handler[h].task \in history.done
           /\ Exists(handler[h].task) /\ life[handler[h].task] = "completed"
           /\ task[handler[h].task].step = handler[h].step /\ handler[h].step \in Steps
           /\ handler[h].pc # "fan" => Open(handler[h].task) /\ InHand(h, handler[h].task)
<1> DEFINE t == handler[h].task
<1>1. t \in Tasks /\ t \in history.done /\ handler[h].step = StepOf(t)
  BY HistoryParts DEF Chain, Ledger, Base, LocalsOK, CompletionsOK
<1>2. life[t] = "completed"
  BY <1>1 DEF Chain, Ledger, CompletionsOK
<1>3. Exists(t)
  BY <1>2 DEF Exists
<1>4. task[t].step \in Steps
  BY <1>1, <1>3 DEF Chain, StepsKnown
<1>5. task[t].step = handler[h].step
  BY <1>1, <1>4, FirstStep DEF StepOf
<1>6. handler[h].pc # "fan" => Open(t) /\ InHand(h, t)
  BY DEF Open, InHand
<1> QED BY <1>1, <1>2, <1>3, <1>4, <1>5, <1>6

\* A handler that leaves the last step before the group.
LEMMA EarlyHand ==
    ASSUME Chain, NEW h \in Handlers, handler[h].pc \in {"store", "join", "advance"},
           Early(handler[h].step)
    PROVE  /\ ~Fanning
           /\ \A t \in Tasks : Exists(t) =>
                /\ task[t].step <= handler[h].step /\ Early(task[t].step)
                /\ t # handler[h].task => ~Open(t) /\ task[t].step < handler[h].step
           /\ \A k \in Handlers : handler[k].pc \in {"store", "join", "advance"} => k = h
<1> DEFINE v == handler[h].task
<1>1. v \in Tasks /\ Exists(v) /\ Open(v) /\ task[v].step = handler[h].step
      /\ handler[h].step \in Steps /\ InHand(h, v)
  BY InHandStep
<1>2. /\ ~Fanning
      /\ \A t \in Tasks \ {v} : Exists(t) => ~Open(t) /\ task[t].step < task[v].step
  BY <1>1 DEF Chain, EarlyAlone
<1>3. \A k \in Handlers : handler[k].pc \in {"store", "join", "advance"} => k = h
  <2> SUFFICES ASSUME NEW k \in Handlers, handler[k].pc \in {"store", "join", "advance"}
               PROVE  k = h
    OBVIOUS
  <2>1. /\ handler[k].task \in Tasks /\ Exists(handler[k].task) /\ Open(handler[k].task)
        /\ InHand(k, handler[k].task)
    BY InHandStep
  <2>2. handler[k].task = v
    BY <1>2, <2>1
  <2> QED BY <1>1, <2>1, <2>2 DEF Chain, Ledger, CompletionsOK
<1>4. \A t \in Tasks : Exists(t) => task[t].step \in Steps
  BY DEF Chain, StepsKnown
<1>5. \A t \in Tasks : Exists(t) => task[t].step <= handler[h].step
  <2> SUFFICES ASSUME NEW t \in Tasks, Exists(t) PROVE task[t].step <= handler[h].step
    OBVIOUS
  <2>1. task[t].step \in Nat /\ handler[h].step \in Nat
    BY <1>1, <1>4, FirstStep
  <2> QED BY <1>1, <1>2, <2>1
<1>6. \A t \in Tasks : Exists(t) => Early(task[t].step)
  BY <1>1, <1>4, <1>5, EarlyAdvance DEF Chain, Shape
<1> QED BY <1>1, <1>2, <1>3, <1>5, <1>6

LEMMA LateQuiet ==
    ASSUME Chain, Quiet,
           \A k \in Handlers : handler'[k].pc = "advance" /\ Grouped(handler'[k].step) =>
              GroupOver \/ (handler[k].pc = "advance" /\ Grouped(handler[k].step))
    PROVE  LateOK'
BY QuietParts DEF Chain, LateOK

\* A new task.
LEMMA NewTaskParts ==
    ASSUME Chain, NEW t \in Tasks, NEW s \in Steps, NewTask(t, s), history' = history,
           \A k \in Handlers, u \in Tasks : InHand(k, u)' => InHand(k, u),
           \A k \in Handlers, u \in Tasks :
              (handler'[k].pc = "store" /\ handler'[k].task = u)
              <=> (handler[k].pc = "store" /\ handler[k].task = u)
    PROVE  /\ ~Exists(t) /\ Exists(t)' /\ task'[t].step = s
           /\ \A u \in Tasks \ {t} :
                (Exists(u)' <=> Exists(u)) /\ task'[u].step = task[u].step /\ (Open(u)' => Open(u))
           /\ \A u \in history.done : u \in Tasks \ {t}
           /\ t \notin UncountedTasks
           /\ UncountedTasks' = IF Grouped(s) THEN UncountedTasks \cup {t} ELSE UncountedTasks
           /\ StepsKnown' /\ FiniteOK'
<1>1. /\ life[t] = "absent" /\ life'[t] = "pending" /\ task'[t].step = s
      /\ \A u \in Tasks \ {t} : life'[u] = life[u] /\ task'[u] = task[u]
      /\ nats' = nats \cup {Available(t)}
  BY DEF NewTask, Moves
<1>2. ~Exists(t) /\ Exists(t)' /\ \A u \in Tasks \ {t} : Exists(u)' <=> Exists(u)
  BY <1>1 DEF Exists
<1>3. \A u \in Tasks, data \in BOOLEAN : Completed(u, data) \in nats' <=> Completed(u, data) \in nats
  BY <1>1, MessagesDiffer
<1>4. \A u \in Tasks \ {t} : Open(u)' => Open(u)
  BY <1>1, <1>3 DEF Open
<1>5. \A u \in history.done : u \in Tasks \ {t}
  BY <1>1, HistoryParts DEF Chain, Ledger, Base, PresentOK
<1>6. \A u \in Tasks \ {t} : Uncounted(u)' <=> Uncounted(u)
  BY <1>1, <1>3 DEF Uncounted
<1>7. ~Uncounted(t)
  BY <1>1 DEF Uncounted
<1>8. Uncounted(t)' <=> Grouped(s)
  BY <1>1, FirstStep DEF Uncounted
<1>9. /\ t \notin UncountedTasks
      /\ UncountedTasks' = IF Grouped(s) THEN UncountedTasks \cup {t} ELSE UncountedTasks
  BY <1>6, <1>7, <1>8 DEF UncountedTasks
<1>10. StepsKnown'
  BY <1>1, <1>2 DEF Chain, StepsKnown
<1>11. FiniteOK'
  <2>1. {u \in Tasks : Exists(u)}' = {u \in Tasks : Exists(u)} \cup {t}
    BY <1>2
  <2> QED BY <2>1, FS_AddElement DEF Chain, FiniteOK
<1> QED BY <1>1, <1>2, <1>4, <1>5, <1>9, <1>10, <1>11

\* A handler creates the task of a step outside the group, and ends.
LEMMA AloneKeeps ==
    ASSUME Chain, NEW h \in Handlers, handler[h].pc \in {"first", "advance"}, Ends(h),
           NEW t \in Tasks, NEW s \in Steps, ~Grouped(s), NewTask(t, s),
           run' = run, history' = history,
           Early(s) => /\ ~Fanning
                       /\ \A u \in Tasks : Exists(u) => ~Open(u)' /\ task[u].step < s,
           Late(s) => /\ GroupOver /\ Begun
                      /\ \A u \in Tasks : Exists(u) /\ Early(task[u].step) => ~Open(u),
           BeforeDone(s)
    PROVE  EarlyAlone' /\ FanOK' /\ PendingOK' /\ LateOK' /\ OrderOK'
<1>1. handler[h].todo = {} /\ handler'[h] = IdleHandler
  BY NothingToFan DEF Ends, Chain, Ledger, Base
<1>2. IdleHandler.pc = "idle" /\ IdleHandler.todo = {}
  BY DEF IdleHandler
<1>3. /\ \A k \in Handlers : handler'[k].todo = handler[k].todo
      /\ \A k \in Handlers : k # h => handler'[k] = handler[k]
  BY <1>1, <1>2 DEF Ends, Others
<1>4. /\ \A k \in Handlers, u \in Tasks : InHand(k, u)' => InHand(k, u)
      /\ \A k \in Handlers, u \in Tasks :
            (handler'[k].pc = "store" /\ handler'[k].task = u)
            <=> (handler[k].pc = "store" /\ handler[k].task = u)
  BY <1>1, <1>2, <1>3 DEF InHand
<1>5. /\ ~Exists(t) /\ Exists(t)' /\ task'[t].step = s
      /\ \A u \in Tasks \ {t} :
           (Exists(u)' <=> Exists(u)) /\ task'[u].step = task[u].step /\ (Open(u)' => Open(u))
      /\ \A u \in history.done : u \in Tasks \ {t}
      /\ UncountedTasks' = UncountedTasks
  BY <1>4, NewTaskParts
<1>6. Fanning' <=> Fanning
  BY <1>1, <1>2, <1>3 DEF Fanning
<1>7. ToCreate' = ToCreate /\ Count' = Count
  <2>1. \A k \in Handlers : handler'[k].todo = handler[k].todo
    BY <1>3
  <2>2. ToCreate' = ToCreate
    BY <2>1 DEF ToCreate
  <2> QED BY <1>5, <2>2 DEF Count
<1>8. Missing' = Missing
  BY <1>3, <1>5 DEF Missing, GroupSteps
<1>9. GroupOver' <=> GroupOver
  BY <1>5, <1>6, <1>8 DEF GroupOver
<1>10. Early(s) \/ Late(s)
  BY Phases
<1>11. EarlyAlone'
  <2> SUFFICES ASSUME NEW u \in Tasks, Exists(u)', Early(task'[u].step), Open(u)'
               PROVE  /\ ~Fanning'
                      /\ \A w \in Tasks \ {u} :
                           Exists(w)' => ~Open(w)' /\ task'[w].step < task'[u].step
    BY DEF EarlyAlone
  <2>1. u = t
    BY <1>5, <1>10
  <2> QED BY <1>5, <1>6, <1>10, <2>1 DEF Late
<1>12. FanOK'
  BY <1>1, <1>2, <1>3 DEF Chain, FanOK
<1>13. PendingOK'
  <2>1. Begun' => Begun
    BY <1>5, <1>6, <1>10 DEF Begun
  <2> QED BY <1>7, <1>8, <2>1 DEF Chain, PendingOK
<1>14. LateOK'
  BY <1>1, <1>2, <1>3, <1>5, <1>9 DEF Chain, LateOK
<1>15. OrderOK'
  <2>1. \A i \in Steps : BeforeDone(i) => BeforeDone(i)'
    BY <1>5 DEF BeforeDone
  <2>2. \A u \in Tasks : Exists(u) => task[u].step \in Steps /\ BeforeDone(task[u].step)
    BY DEF Chain, OrderOK, StepsKnown
  <2> SUFFICES ASSUME NEW u \in Tasks, Exists(u)' PROVE BeforeDone(task[u].step)'
    BY DEF OrderOK
  <2>3. PICK i \in Steps : i = task'[u].step /\ BeforeDone(i)
    BY <1>5, <2>2
  <2> QED BY <2>1, <2>3
<1> QED BY <1>11, <1>12, <1>13, <1>14, <1>15

\* The steps a handler has behind it when it creates the next one.
LEMMA AllBefore ==
    ASSUME Chain, NEW h \in Handlers, handler[h].pc = "advance",
           AdvanceTo(handler[h].step) \in Steps => ~Grouped(AdvanceTo(handler[h].step)),
           NEW i \in Steps, i < NextStep(h), When[i] = NoStep
    PROVE  \E u \in history.done : task[u].step = i
<1> DEFINE s == handler[h].step
           v == handler[h].task
<1>1. /\ v \in Tasks /\ v \in history.done /\ Exists(v) /\ task[v].step = s /\ s \in Steps
  BY InHandStep
<1>2. BeforeDone(s)
  BY <1>1 DEF Chain, OrderOK
<1>3. i = s \/ (i < s /\ ~(Grouped(i) /\ Grouped(s))) => \E u \in history.done : task[u].step = i
  BY <1>1, <1>2 DEF BeforeDone
<1>4. /\ AdvanceTo(s) \in Nat /\ AdvanceTo(s) \in (s + 1)..NSteps
      /\ i < AdvanceTo(s) \/ (i = AdvanceTo(s) /\ NextStep(h) = AdvanceTo(s) + 1)
  <2> DEFINE a == AdvanceTo(s)
             n == NextStep(h)
  <2>1. a \in Nat /\ n \in Nat /\ n \in {a, a + 1}
    BY NextStepType DEF Chain, Ledger, Base
  <2>4. a \in (s + 1)..NSteps
    BY NextStepType DEF Chain, Ledger, Base
  <2>2. i \in Nat /\ i < n
    BY FirstStep
  <2> HIDE DEF a, n
  <2>3. i < a \/ (i = a /\ n = a + 1)
    BY <2>1, <2>2
  <2> QED BY <2>1, <2>3, <2>4 DEF a, n
<1>5. NextStep(h) = AdvanceTo(s) + 1 => When[AdvanceTo(s)] # NoStep
  BY <1>4 DEF NextStep, Holds
<1>6. i < AdvanceTo(s)
  BY <1>4, <1>5
<1>7. OneGroup
  BY DEF Chain, Shape
<1>8. s \in Nat /\ i \in Nat
  BY <1>1, FirstStep
<1>9. CASE Early(s)
  <2>1. AdvanceTo(s) = s + 1 /\ ~Grouped(s)
    BY <1>1, <1>7, <1>9, EarlyAdvance
  <2> QED BY <1>3, <1>6, <1>8, <2>1
<1>10. CASE Late(s)
  <2>1. AdvanceTo(s) = s + 1 /\ ~Grouped(s)
    BY <1>1, <1>7, <1>10, LateAdvance DEF Late
  <2> QED BY <1>3, <1>6, <1>8, <2>1
<1>11. CASE Grouped(s)
  <2>1. CASE Grouped(i)
    <3>1. GroupOver
      BY <1>11 DEF Chain, LateOK
    <3>2. PICK t \in Tasks : Exists(t) /\ task[t].step = i
      <4>1. \A k \in Handlers : handler[k].todo = {}
        BY <3>1 DEF GroupOver, Fanning, Chain, Ledger, Base, LocalsOK
      <4>2. i \notin Missing
        BY <3>1 DEF GroupOver
      <4> QED BY <2>1, <4>1, <4>2 DEF Missing, GroupSteps
    <3>3. ~Uncounted(t)
      BY <3>1 DEF GroupOver, UncountedTasks
    <3>4. life[t] = "completed"
      BY <2>1, <3>2, <3>3, FirstStep DEF Uncounted, Exists
    <3>5. t \in history.done
      BY <3>4 DEF Chain, Ledger, CompletionsOK
    <3> QED BY <3>2, <3>5
  <2>2. CASE ~Grouped(i)
    <3>1. \A j \in s..(AdvanceTo(s) - 1) : Grouped(j)
      BY <1>1, <1>7, <1>11, GroupAdvance
    <3>2. i < s
      BY <1>4, <1>6, <1>8, <2>2, <3>1
    <3> QED BY <1>3, <2>2, <3>2
  <2> QED BY <2>1, <2>2
<1> QED BY <1>1, <1>9, <1>10, <1>11, Phases

LEMMA NextPhase ==
    ASSUME Chain, NEW h \in Handlers, handler[h].pc = "advance",
           AdvanceTo(handler[h].step) \in Steps => ~Grouped(AdvanceTo(handler[h].step)),
           NextStep(h) \in Steps
    PROVE  /\ NextStep(h) > handler[h].step
           /\ Early(handler[h].step) => Early(NextStep(h))
           /\ ~Early(handler[h].step) => Late(NextStep(h))
<1> DEFINE s == handler[h].step
           n == NextStep(h)
           a == AdvanceTo(s)
<1>1. s \in Steps /\ OneGroup /\ s \in Nat
  BY InHandStep, FirstStep DEF Chain, Shape
<1>2. /\ n \in {a, a + 1} /\ n \in Nat /\ a \in Nat /\ a \in (s + 1)..NSteps
  BY NextStepType DEF Chain, Ledger, Base
<1>3. n = a + 1 => When[a] # NoStep
  BY <1>2 DEF NextStep, Holds
<1>4. a \in Steps
  BY <1>2, FormulaAssumption DEF Steps
<1>6. ~Grouped(a)
  BY <1>4
<1> HIDE DEF n, a, s
<1>5. n > s
  BY <1>1, <1>2
<1>7. CASE Early(s)
  <2>1. a = s + 1
    BY <1>1, <1>7, EarlyAdvance DEF a, s
  <2>2. a + 1 = s + 2
    BY <1>1, <2>1
  <2>3. n \in Steps
    BY DEF n
  <2> QED BY <1>1, <1>2, <1>3, <1>4, <1>5, <1>6, <1>7, <2>1, <2>2, <2>3, EarlyAdvance DEF n, s
<1>8. CASE Grouped(s)
  <2>1. n \in Steps
    BY DEF n
  <2>2. Late(n)
    BY <1>1, <1>2, <1>4, <1>8, <2>1, GroupAdvance DEF a, s
  <2> QED BY <1>1, <1>5, <1>8, <2>2, GroupAdvance DEF n, s
<1>9. CASE Late(s)
  <2>1. n \in Steps
    BY DEF n
  <2>2. a = s + 1
    BY <1>1, <1>9, LateAdvance DEF a, s
  <2>3. a + 1 = s + 2
    BY <1>1, <2>2
  <2>4. Late(n)
    BY <1>1, <1>2, <1>9, <2>1, <2>2, <2>3, LateAdvance
  <2> QED BY <1>5, <1>9, <2>4 DEF n, s, Late
<1> QED BY <1>1, <1>7, <1>8, <1>9, Phases DEF n, s

\* What an open task of a later step says of the tasks before the group.
LEMMA EarlyClosed ==
    ASSUME Chain, NEW v \in Tasks, Exists(v), ~Early(task[v].step), Open(v)
    PROVE  \A u \in Tasks : Exists(u) /\ Early(task[u].step) => ~Open(u)
BY DEF Chain, EarlyAlone

GroupOK ==
    /\ StepsKnown /\ FiniteOK /\ EarlyAlone /\ FanOK
    /\ PendingOK /\ LateOK /\ OrderOK

LEMMA CreateFirstKeeps ==
    ASSUME Chain, NEW h \in Handlers, CreateFirst(h)
    PROVE  GroupOK'
<1>1. /\ handler[h].pc = "first" /\ Ends(h) /\ run' = run /\ history' = history
  BY CreateFirstDoes DEF Chain, Ledger, Base
<1>2. PICK t \in Tasks : NewTask(t, 0)
  BY CreateFirstDoes DEF Chain, Ledger, Base
<1>3. 0 \in Steps /\ ~Grouped(0) /\ Early(0) /\ ~Late(0)
  BY FirstStep, EarlyFirst DEF Chain, Shape, OneGroup, Late
<1>4. \A u \in Tasks : ~Exists(u)
  BY <1>1 DEF Chain, Ledger, Base, StartOK, Exists
<1>5. ~Fanning
  BY <1>4, InHandStep DEF Fanning
<1>6. BeforeDone(0)
  BY FirstStep DEF BeforeDone
<1>7. EarlyAlone' /\ FanOK' /\ PendingOK' /\ LateOK' /\ OrderOK'
  BY <1>1, <1>2, <1>3, <1>4, <1>5, <1>6, AloneKeeps
<1>8. StepsKnown' /\ FiniteOK'
  <2>1. /\ \A k \in Handlers, u \in Tasks : InHand(k, u)' => InHand(k, u)
        /\ \A k \in Handlers, u \in Tasks :
              (handler'[k].pc = "store" /\ handler'[k].task = u)
              <=> (handler[k].pc = "store" /\ handler[k].task = u)
    BY <1>1 DEF InHand, Ends, Others, IdleHandler
  <2> QED BY <1>1, <1>2, <1>3, <2>1, NewTaskParts
<1> QED BY <1>7, <1>8 DEF GroupOK

LEMMA AdvanceToStepKeeps ==
    ASSUME Chain, NEW h \in Handlers, AdvanceToStep(h)
    PROVE  GroupOK'
<1>1. /\ handler[h].pc = "advance" /\ Ends(h) /\ run' = run /\ history' = history
      /\ AdvanceTo(handler[h].step) \in Steps => ~Grouped(AdvanceTo(handler[h].step))
      /\ NextStep(h) \in Steps
      /\ \E t \in Tasks : NewTask(t, NextStep(h))
  BY AdvanceToStepDoes DEF Chain, Ledger, Base
<1>2. PICK v \in Tasks, s \in Steps :
        /\ v = handler[h].task /\ s = handler[h].step
        /\ Exists(v) /\ Open(v) /\ task[v].step = s
        /\ life[v] = "completed" /\ InHand(h, v)
  BY <1>1, InHandStep
<1>3. PICK n \in Steps : n = NextStep(h)
  BY <1>1
<1>4. n > s /\ (Early(s) => Early(n)) /\ (~Early(s) => Late(n))
  BY <1>1, <1>2, <1>3, NextPhase
<1>5. PICK t \in Tasks : NewTask(t, n)
  BY <1>1, <1>3
<1>6. BeforeDone(n)
  <2>1. ASSUME NEW i \in Steps, i < n, When[i] = NoStep
        PROVE  \E u \in history.done : task[u].step = i
    BY <1>1, <1>3, <2>1, AllBefore
  <2> QED BY <2>1 DEF BeforeDone
<1>7. n \in Nat /\ s \in Nat /\ ~Grouped(n)
  BY <1>4, EarlyAdvance, FirstStep DEF Late, Chain, Shape
<1>8. /\ \A k \in Handlers, u \in Tasks : InHand(k, u)' => InHand(k, u)
      /\ \A k \in Handlers, u \in Tasks :
            (handler'[k].pc = "store" /\ handler'[k].task = u)
            <=> (handler[k].pc = "store" /\ handler[k].task = u)
  BY <1>1 DEF InHand, Ends, Others, IdleHandler
<1>9. /\ ~Exists(t) /\ StepsKnown' /\ FiniteOK'
      /\ \A u \in Tasks \ {t} : (Exists(u)' <=> Exists(u)) /\ (Open(u)' => Open(u))
  BY <1>1, <1>5, <1>8, NewTaskParts
<1>10. ASSUME Early(n)
       PROVE  /\ ~Fanning
              /\ \A u \in Tasks : Exists(u) => ~Open(u)' /\ task[u].step < n
  <2>1. Early(s)
    BY <1>4, <1>10 DEF Late
  <2>2. /\ ~Fanning
        /\ \A u \in Tasks : Exists(u) =>
             /\ task[u].step <= s
             /\ u # v => ~Open(u)
    BY <1>1, <1>2, <2>1, EarlyHand
  <2>3. ~Open(v)'
    <3>1. v # t /\ life'[v] = "completed"
      BY <1>2, <1>5, <1>9 DEF NewTask, Moves
    <3>2. \A data \in BOOLEAN : Completed(v, data) \notin nats'
      BY <1>2, <1>5, MessagesDiffer DEF NewTask, Chain, Ledger, CompletionsOK
    <3>3. \A k \in Handlers : InHand(k, v) => k = h
      BY <1>2 DEF Chain, Ledger, CompletionsOK
    <3>4. \A k \in Handlers : ~InHand(k, v)'
      BY <1>1, <3>3 DEF InHand, Ends, Others, IdleHandler
    <3> QED BY <3>1, <3>2, <3>4 DEF Open
  <2>4. \A u \in Tasks : Exists(u) => u # t /\ task[u].step \in Nat
    BY <1>9, FirstStep DEF Chain, StepsKnown
  <2> QED BY <1>4, <1>7, <1>9, <2>2, <2>3, <2>4
<1>11. ASSUME Late(n)
       PROVE  /\ GroupOver /\ Begun
              /\ \A u \in Tasks : Exists(u) /\ Early(task[u].step) => ~Open(u)
  <2>1. ~Early(s)
    BY <1>4, <1>11 DEF Late
  <2>2. GroupOver
    BY <1>1, <1>2, <2>1, Phases DEF Chain, LateOK
  <2> QED BY <1>2, <2>1, <2>2, EarlyClosed DEF Begun
<1>12. EarlyAlone' /\ FanOK' /\ PendingOK' /\ LateOK' /\ OrderOK'
  BY <1>1, <1>5, <1>6, <1>7, <1>10, <1>11, AloneKeeps
<1> QED BY <1>9, <1>12 DEF GroupOK

\* The last of the tasks before the group ends, and its handler fans out.
LEMMA AdvanceToGroupKeeps ==
    ASSUME Chain, NEW h \in Handlers, AdvanceToGroup(h)
    PROVE  GroupOK'
<1>1. /\ handler[h].pc = "advance" /\ Goes(h, "fan")
      /\ AdvanceTo(handler[h].step) \in Steps /\ Grouped(AdvanceTo(handler[h].step))
      /\ handler'[h].todo = Members(AdvanceTo(handler[h].step))
      /\ run'.pending = Cardinality(Members(AdvanceTo(handler[h].step)))
      /\ life' = life /\ task' = task /\ nats' = nats /\ history' = history
  BY AdvanceToGroupDoes DEF Chain, Ledger, Base
<1>2. PICK v \in Tasks, s \in Steps :
        /\ v = handler[h].task /\ s = handler[h].step
        /\ Exists(v) /\ task[v].step = s
        /\ life[v] = "completed" /\ InHand(h, v)
  BY <1>1, InHandStep
<1>3. OneGroup
  BY DEF Chain, Shape
<1>4. Early(s)
  BY <1>1, <1>2, <1>3, Phases, GroupAdvance, LateAdvance DEF Late
<1>5. s + 1 \in Steps /\ Grouped(s + 1) /\ AdvanceTo(s) = s + 1
  BY <1>1, <1>2, <1>3, <1>4, EarlyAdvance
<1>6. Members(s + 1) = GroupSteps
  BY <1>3, <1>4, <1>5, GroupAhead
<1>7. /\ ~Fanning
      /\ \A t \in Tasks : Exists(t) => Early(task[t].step) /\ (t # v => ~Open(t))
      /\ \A k \in Handlers : handler[k].pc \in {"store", "join", "advance"} => k = h
  BY <1>1, <1>2, <1>4, EarlyHand
<1>8. /\ handler'[h].pc = "fan" /\ handler'[h].step = s /\ handler'[h].todo = GroupSteps
      /\ \A k \in Handlers \ {h} : handler'[k] = handler[k]
      /\ \A k \in Handlers : handler[k].todo = {}
  <2>1. \A k \in Handlers : handler[k].todo = {}
    BY <1>7, NothingToFan DEF Fanning, Chain, Ledger, Base
  <2> QED BY <1>1, <1>2, <1>5, <1>6, <2>1 DEF Goes, Others
<1>9. \A t \in Tasks : (Exists(t)' <=> Exists(t)) /\ ~(Exists(t)' /\ Open(t)')
  <2>1. \A t \in Tasks : Open(t)' => Open(t)
    BY <1>1, <1>8 DEF Open, InHand
  <2>2. ~Open(v)'
    BY <1>1, <1>2, <1>7, <1>8 DEF Open, InHand, Chain, Ledger, CompletionsOK
  <2> QED BY <1>1, <1>7, <2>1, <2>2 DEF Exists
<1>10. StepsKnown' /\ FiniteOK' /\ OrderOK'
  BY <1>1 DEF Chain, StepsKnown, FiniteOK, OrderOK, BeforeDone, Exists
<1>11. EarlyAlone'
  BY <1>9 DEF EarlyAlone
<1>12. FanOK'
  <2>1. s + 1 \in GroupSteps
    BY <1>5 DEF GroupSteps
  <2>2. \A k \in Handlers : handler'[k].pc = "fan" => k = h
    BY <1>7, <1>8 DEF Fanning
  <2> QED BY <1>4, <1>8, <2>1, <2>2 DEF FanOK
<1>13. \A t \in Tasks : Exists(t) => ~Grouped(task[t].step) /\ ~Late(task[t].step)
  BY <1>3, <1>7, EarlyAdvance DEF Chain, StepsKnown, Late
<1>14. UncountedTasks' = {}
  BY <1>1, <1>13 DEF UncountedTasks, Uncounted, Exists
<1>15. ToCreate' = {h} \X GroupSteps
  <2>1. \A k \in Handlers : handler'[k].todo = IF k = h THEN GroupSteps ELSE {}
    BY <1>8
  <2>2. ToCreate' = UNION {{k} \X (IF k = h THEN GroupSteps ELSE {}) : k \in Handlers}
    BY <2>1 DEF ToCreate
  <2> QED BY <2>2
<1>16. Count' = Cardinality(GroupSteps) /\ Count' \in Nat
  <2>1. IsFiniteSet(GroupSteps)
    BY StepsFinite, FS_Subset DEF GroupSteps
  <2>2. Cardinality({h} \X GroupSteps) = Cardinality({h}) * Cardinality(GroupSteps)
    BY <2>1, FS_Singleton, FS_Product
  <2>3. Cardinality({h}) = 1 /\ Cardinality(GroupSteps) \in Nat /\ Cardinality({}) = 0
    BY <2>1, FS_Singleton, FS_CardinalityType, FS_EmptySet
  <2>4. Cardinality({h} \X GroupSteps) = Cardinality(GroupSteps)
    BY <2>2, <2>3
  <2>5. Count' = Cardinality(GroupSteps) + 0
    BY <1>14, <1>15, <2>3, <2>4 DEF Count
  <2> QED BY <2>3, <2>5
<1>17. Missing' = {}
  BY <1>8 DEF Missing
<1>18. PendingOK'
  <2>1. run'.pending = Count'
    BY <1>1, <1>2, <1>5, <1>6, <1>16
  <2> QED BY <1>16, <1>17, <2>1 DEF PendingOK
<1>19. LateOK'
  <2>1. \A k \in Handlers : handler'[k].pc # "advance"
    BY <1>7, <1>8
  <2> QED BY <1>1, <1>13, <2>1 DEF LateOK, Exists
<1> QED BY <1>10, <1>11, <1>12, <1>18, <1>19 DEF GroupOK

\* The fan-out creates the next member.
LEMMA FanOutCreateKeeps ==
    ASSUME Chain, NEW h \in Handlers, FanOutCreate(h)
    PROVE  GroupOK'
<1>1. handler[h].pc = "fan" /\ run' = run /\ history' = history
  BY FanOutCreateDoes DEF Chain, Ledger, Base
<1>2. PICK s \in handler[h].todo, t \in Tasks :
        /\ s \in Steps
        /\ NewTask(t, s)
        /\ Others(h)
        /\ handler'[h].todo = handler[h].todo \ {s}
        /\ IF handler[h].todo = {s} THEN Ends(h) ELSE Goes(h, "fan")
  BY FanOutCreateDoes DEF Chain, Ledger, Base
<1>3. PICK v \in Tasks, e \in Steps :
        /\ v = handler[h].task /\ e = handler[h].step
        /\ Exists(v) /\ task[v].step = e /\ life[v] = "completed" /\ v \in history.done
  BY <1>1, InHandStep
<1>4. /\ Early(e) /\ e + 1 \in Steps /\ Grouped(e + 1)
      /\ handler[h].todo \subseteq GroupSteps
      /\ \A k \in Handlers : handler[k].pc = "fan" => k = h
  BY <1>1, <1>3 DEF Chain, FanOK, GroupSteps
<1>5. OneGroup
  BY DEF Chain, Shape
<1>6. Grouped(s) /\ ~Late(s) /\ ~Early(s)
  BY <1>2, <1>4, <1>5, GroupAdvance DEF GroupSteps
<1>7. \A k \in Handlers : k # h => handler'[k] = handler[k] /\ handler[k].todo = {}
  BY <1>2, <1>4, NothingToFan DEF Others, Chain, Ledger, Base
<1>8. \/ handler'[h].pc = "idle" /\ handler'[h].todo = {}
      \/ handler'[h].pc = "fan" /\ handler'[h].step = e
  BY <1>2, <1>3 DEF Ends, Goes, IdleHandler
<1>9. /\ \A k \in Handlers, u \in Tasks : InHand(k, u)' => InHand(k, u)
      /\ \A k \in Handlers, u \in Tasks :
            (handler'[k].pc = "store" /\ handler'[k].task = u)
            <=> (handler[k].pc = "store" /\ handler[k].task = u)
  BY <1>1, <1>7, <1>8 DEF InHand
<1>10. /\ ~Exists(t) /\ Exists(t)' /\ task'[t].step = s
       /\ \A u \in Tasks \ {t} :
            (Exists(u)' <=> Exists(u)) /\ task'[u].step = task[u].step /\ (Open(u)' => Open(u))
       /\ \A u \in history.done : u \in Tasks \ {t}
       /\ t \notin UncountedTasks
       /\ UncountedTasks' = UncountedTasks \cup {t}
       /\ StepsKnown' /\ FiniteOK'
  BY <1>1, <1>2, <1>6, <1>9, NewTaskParts
<1>11. \A u \in Tasks : Exists(u) /\ Early(task[u].step) => ~Open(u)
  BY <1>1 DEF Chain, EarlyAlone, Fanning
<1>12. EarlyAlone'
  BY <1>6, <1>10, <1>11 DEF EarlyAlone
<1>13. FanOK'
  BY <1>1, <1>2, <1>3, <1>4, <1>7, <1>8 DEF FanOK, GroupSteps
<1>14. ToCreate' = ToCreate \ {<<h, s>>} /\ <<h, s>> \in ToCreate
  <2>1. ToCreate = {h} \X handler[h].todo
    BY <1>7 DEF ToCreate
  <2>2. \A k \in Handlers : k # h => handler'[k].todo = {}
    BY <1>7
  <2>3. ToCreate' = {h} \X handler'[h].todo
    BY <2>2 DEF ToCreate
  <2> QED BY <1>2, <2>1, <2>3
<1>15. Count' = Count
  <2>1. Cardinality(ToCreate') = Cardinality(ToCreate) - 1
    BY <1>14, CountFinite, FS_RemoveElement
  <2>2. Cardinality(UncountedTasks') = Cardinality(UncountedTasks) + 1
    BY <1>10, CountFinite, FS_AddElement
  <2> QED BY <2>1, <2>2, CountFinite DEF Count
<1>16. Missing' = Missing
  <2>1. \A i \in Steps : (\A k \in Handlers : i \notin handler'[k].todo)
          <=> (\A k \in Handlers : i \notin handler[k].todo) \/ (i = s /\ s \notin handler'[h].todo)
    BY <1>2, <1>7
  <2>2. \A i \in Steps : (\A u \in Tasks : Exists(u)' => task'[u].step # i)
          <=> (\A u \in Tasks : Exists(u) => task[u].step # i) /\ i # s
    BY <1>10
  <2>3. \A i \in GroupSteps : i \in Steps
    BY DEF GroupSteps
  <2>4. \E k \in Handlers : s \in handler[k].todo
    BY <1>2
  <2> QED BY <2>1, <2>2, <2>3, <2>4 DEF Missing
<1>17. PendingOK'
  <2>1. Begun
    BY <1>1 DEF Begun, Fanning
  <2> QED BY <1>1, <1>15, <1>16, <2>1 DEF Chain, PendingOK
<1>18. LateOK'
  <2>1. ~GroupOver
    BY <1>1 DEF GroupOver, Fanning
  <2>2. /\ \A k \in Handlers : ~(handler[k].pc = "advance" /\ Grouped(handler[k].step))
        /\ \A u \in Tasks : Exists(u) => ~Late(task[u].step)
    BY <2>1 DEF Chain, LateOK
  <2>3. \A k \in Handlers : ~(handler'[k].pc = "advance" /\ Grouped(handler'[k].step))
    BY <1>7, <1>8, <2>2
  <2>4. \A u \in Tasks : Exists(u)' => ~Late(task'[u].step)
    BY <1>6, <1>10, <2>2
  <2> QED BY <2>3, <2>4 DEF LateOK
<1>19. OrderOK'
  <2>1. \A i \in Steps : BeforeDone(i) => BeforeDone(i)'
    BY <1>1, <1>10 DEF BeforeDone
  <2>2. \A u \in Tasks : Exists(u) => task[u].step \in Steps /\ BeforeDone(task[u].step)
    BY DEF Chain, OrderOK, StepsKnown
  <2>3. BeforeDone(s)
    <3> SUFFICES ASSUME NEW i \in Steps, i < s, When[i] = NoStep, ~(Grouped(i) /\ Grouped(s))
                 PROVE  \E u \in history.done : task[u].step = i
      BY DEF BeforeDone
    <3>1. i <= e /\ ~Grouped(i)
      BY <1>2, <1>4, <1>5, <1>6, GroupAhead DEF GroupSteps
    <3>2. CASE i = e
      BY <1>3, <3>2
    <3>3. CASE i < e
      BY <1>3, <2>2, <3>1, <3>3 DEF BeforeDone
    <3>4. i \in Nat /\ e \in Nat
      BY FirstStep
    <3> QED BY <3>1, <3>2, <3>3, <3>4
  <2> SUFFICES ASSUME NEW u \in Tasks, Exists(u)' PROVE BeforeDone(task[u].step)'
    BY DEF OrderOK
  <2>4. PICK i \in Steps : i = task'[u].step /\ BeforeDone(i)
    BY <1>10, <1>2, <2>2, <2>3
  <2> QED BY <2>1, <2>4
<1> QED BY <1>10, <1>12, <1>13, <1>17, <1>18, <1>19 DEF GroupOK

\* The fan-out skips a member, and counts it down.
LEMMA FanOutSkipKeeps ==
    ASSUME Chain, NEW h \in Handlers, FanOutSkip(h)
    PROVE  GroupOK'
<1>1. /\ handler[h].pc = "fan" /\ run'.pending = run.pending - 1
      /\ life' = life /\ task' = task /\ nats' = nats /\ history' = history
  BY FanOutSkipDoes DEF Chain, Ledger, Base
<1>2. PICK s \in handler[h].todo :
        /\ s \in Steps
        /\ ~Holds(s, handler[h].results)
        /\ Others(h)
        /\ handler'[h].todo = handler[h].todo \ {s}
        /\ IF handler[h].todo = {s} THEN Ends(h) ELSE Goes(h, "fan")
  BY FanOutSkipDoes DEF Chain, Ledger, Base
<1>3. /\ \A k \in Handlers : handler[k].pc = "fan" => k = h
      /\ handler[h].todo \subseteq GroupSteps
  BY <1>1 DEF Chain, FanOK
<1>4. \A k \in Handlers : k # h => handler'[k] = handler[k] /\ handler[k].todo = {}
  BY <1>2, <1>3, NothingToFan DEF Others, Chain, Ledger, Base
<1>5. \/ handler'[h].pc = "idle" /\ handler'[h].todo = {}
      \/ handler'[h].pc = "fan" /\ handler'[h].step = handler[h].step
  BY <1>2 DEF Ends, Goes, IdleHandler
<1>6. \A t \in Tasks : (Exists(t)' <=> Exists(t)) /\ (Open(t)' => Open(t))
  BY <1>1, <1>4, <1>5 DEF Exists, Open, InHand
<1>7. UncountedTasks' = UncountedTasks
  <2>1. \A t \in Tasks : Uncounted(t)' <=> Uncounted(t)
    BY <1>1, <1>4, <1>5 DEF Uncounted
  <2> QED BY <2>1 DEF UncountedTasks
<1>8. StepsKnown' /\ FiniteOK' /\ OrderOK'
  BY <1>1 DEF Chain, StepsKnown, FiniteOK, OrderOK, BeforeDone, Exists
<1>9. \A u \in Tasks : Exists(u) /\ Early(task[u].step) => ~Open(u)
  BY <1>1 DEF Chain, EarlyAlone, Fanning
<1>10. EarlyAlone'
  BY <1>1, <1>6, <1>9 DEF EarlyAlone
<1>11. FanOK'
  BY <1>1, <1>2, <1>3, <1>4, <1>5 DEF Chain, FanOK
<1>12. ToCreate' = ToCreate \ {<<h, s>>} /\ <<h, s>> \in ToCreate
  <2>1. ToCreate = {h} \X handler[h].todo
    BY <1>4 DEF ToCreate
  <2>2. \A k \in Handlers : k # h => handler'[k].todo = {}
    BY <1>4
  <2>3. ToCreate' = {h} \X handler'[h].todo
    BY <2>2 DEF ToCreate
  <2> QED BY <1>2, <2>1, <2>3
<1>13. Count' = Count - 1 /\ Count \in Nat
  <2>1. Cardinality(ToCreate') = Cardinality(ToCreate) - 1
    BY <1>12, CountFinite, FS_RemoveElement
  <2> QED BY <1>7, <2>1, CountFinite DEF Count
<1>14. Missing' = Missing
  <2>1. When[s] # NoStep
    BY <1>2 DEF Holds
  <2>2. \A i \in Steps : i # s =>
          ((\A k \in Handlers : i \notin handler'[k].todo)
           <=> (\A k \in Handlers : i \notin handler[k].todo))
    BY <1>2, <1>4
  <2>3. \A i \in GroupSteps : i \in Steps
    BY DEF GroupSteps
  <2> QED BY <1>1, <1>6, <2>1, <2>2, <2>3 DEF Missing
<1>15. PendingOK'
  <2>1. Begun
    BY <1>1 DEF Begun, Fanning
  <2> QED BY <1>1, <1>13, <1>14, <2>1, CountFinite DEF Chain, PendingOK
<1>16. LateOK'
  <2>1. ~GroupOver
    BY <1>1 DEF GroupOver, Fanning
  <2>2. /\ \A k \in Handlers : ~(handler[k].pc = "advance" /\ Grouped(handler[k].step))
        /\ \A u \in Tasks : Exists(u) => ~Late(task[u].step)
    BY <2>1 DEF Chain, LateOK
  <2>3. \A k \in Handlers : ~(handler'[k].pc = "advance" /\ Grouped(handler'[k].step))
    BY <1>4, <1>5, <2>2
  <2> QED BY <1>1, <1>6, <2>2, <2>3 DEF LateOK
<1> QED BY <1>8, <1>10, <1>11, <1>15, <1>16 DEF GroupOK

\* A member of the group is counted down.
LEMMA StoreResultKeeps ==
    ASSUME Chain, NEW h \in Handlers, StoreResult(h), Grouped(handler[h].step)
    PROVE  GroupOK'
<1>1. /\ handler[h].pc = "store" /\ Goes(h, "join") /\ handler'[h].todo = handler[h].todo
      /\ run'.pending = run.pending - 1
      /\ life' = life /\ task' = task /\ nats' = nats /\ history' = history
  BY StoreResultDoes DEF Chain, Ledger, Base
<1>2. PICK v \in Tasks :
        /\ v = handler[h].task /\ Exists(v) /\ task[v].step = handler[h].step
        /\ handler[h].step \in Steps /\ life[v] = "completed" /\ InHand(h, v)
  BY <1>1, InHandStep
<1>3. /\ \A k \in Handlers : k # h => handler'[k] = handler[k]
      /\ \A k \in Handlers : handler'[k].todo = handler[k].todo
      /\ handler'[h].pc = "join" /\ handler'[h].task = v
  BY <1>1, <1>2 DEF Goes, Others
<1>4. \A t \in Tasks : (Exists(t)' <=> Exists(t)) /\ (Open(t)' => Open(t))
  BY <1>1, <1>2, <1>3 DEF Exists, Open, InHand
<1>5. UncountedTasks' = UncountedTasks \ {v} /\ v \in UncountedTasks
  <2>1. \A t \in Tasks \ {v} : Uncounted(t)' <=> Uncounted(t)
    BY <1>1, <1>2, <1>3 DEF Uncounted
  <2>2. Uncounted(v)
    BY <1>1, <1>2, FirstStep DEF Uncounted, Exists
  <2>3. ~Uncounted(v)'
    <3>1. \A k \in Handlers : InHand(k, v) => k = h
      BY <1>2 DEF Chain, Ledger, CompletionsOK
    <3>2. \A k \in Handlers : ~(handler'[k].pc = "store" /\ handler'[k].task = v)
      BY <1>3, <3>1 DEF InHand
    <3>3. \A data \in BOOLEAN : Completed(v, data) \notin nats'
      BY <1>1, <1>2 DEF Chain, Ledger, CompletionsOK
    <3> QED BY <1>1, <1>2, <3>2, <3>3 DEF Uncounted
  <2> QED BY <2>1, <2>2, <2>3 DEF UncountedTasks
<1>6. Fanning' <=> Fanning
  BY <1>1, <1>3 DEF Fanning
<1>7. ToCreate' = ToCreate
  <2>1. \A k \in Handlers : handler'[k].todo = handler[k].todo
    BY <1>3
  <2> QED BY <2>1 DEF ToCreate
<1>8. Missing' = Missing
  BY <1>1, <1>3, <1>4 DEF Missing
<1>9. StepsKnown' /\ FiniteOK' /\ OrderOK'
  BY <1>1 DEF Chain, StepsKnown, FiniteOK, OrderOK, BeforeDone, Exists
<1>10. EarlyAlone'
  BY <1>1, <1>4, <1>6 DEF Chain, EarlyAlone
<1>11. FanOK'
  BY <1>1, <1>3 DEF Chain, FanOK
<1>12. Count' = Count - 1
  <2>1. Cardinality(UncountedTasks') = Cardinality(UncountedTasks) - 1
    BY <1>5, CountFinite, FS_RemoveElement
  <2> QED BY <1>7, <2>1, CountFinite DEF Count
<1>13. PendingOK'
  <2>1. Begun' => Begun
    BY <1>1, <1>4, <1>6 DEF Begun
  <2>2. Count \in Nat /\ run.pending \in Int
    BY CountFinite DEF Count
  <2> QED BY <1>1, <1>8, <1>12, <2>1, <2>2 DEF Chain, PendingOK
<1>14. LateOK'
  <2>1. ~GroupOver
    BY <1>5 DEF GroupOver
  <2>2. /\ \A k \in Handlers : ~(handler[k].pc = "advance" /\ Grouped(handler[k].step))
        /\ \A u \in Tasks : Exists(u) => ~Late(task[u].step)
    BY <2>1 DEF Chain, LateOK
  <2>3. \A k \in Handlers : ~(handler'[k].pc = "advance" /\ Grouped(handler'[k].step))
    BY <1>3, <2>2
  <2> QED BY <1>1, <1>4, <2>2, <2>3 DEF LateOK
<1> QED BY <1>9, <1>10, <1>11, <1>13, <1>14 DEF GroupOK

\* A step that only loses: a message, or what the handlers had in hand.
LEMMA LossKeeps ==
    ASSUME Chain, Faulty, nats' \subseteq nats,
           run' = run, life' = life, task' = task, history' = history,
           \A k \in Handlers : handler'[k] \in {IdleHandler, handler[k]}
    PROVE  GroupOK'
<1>1. \A k \in Handlers : handler'[k] = handler[k] \/ handler'[k] = IdleHandler
  OBVIOUS
<1>2. IdleHandler.pc = "idle" /\ IdleHandler.todo = {}
  BY DEF IdleHandler
<1>3. \A t \in Tasks : (Exists(t)' <=> Exists(t)) /\ (Open(t)' => Open(t))
  BY <1>1, <1>2 DEF Exists, Open, InHand
<1>4. UncountedTasks' \subseteq UncountedTasks
  BY <1>1, <1>2 DEF UncountedTasks, Uncounted
<1>5. Fanning' => Fanning
  BY <1>1, <1>2 DEF Fanning
<1>6. StepsKnown' /\ FiniteOK' /\ OrderOK'
  BY DEF Chain, StepsKnown, FiniteOK, OrderOK, BeforeDone, Exists
<1>7. EarlyAlone'
  BY <1>3, <1>5 DEF Chain, EarlyAlone
<1>8. FanOK'
  BY <1>1, <1>2 DEF Chain, FanOK
<1>9. Begun' => Begun
  BY <1>3, <1>5 DEF Begun
<1>10. Cardinality(UncountedTasks') <= Cardinality(UncountedTasks)
       /\ Cardinality(UncountedTasks') \in Nat
  BY <1>4, CountFinite, FS_Subset, FS_CardinalityType
<1>11. /\ ToCreate' \subseteq ToCreate
       /\ Cardinality(ToCreate') <= Cardinality(ToCreate)
       /\ Cardinality(ToCreate') \in Nat
       /\ Cardinality(ToCreate') = Cardinality(ToCreate) => ToCreate' = ToCreate
  <2>1. ToCreate' \subseteq ToCreate
    BY <1>1, <1>2 DEF ToCreate
  <2> QED BY <2>1, CountFinite, FS_Subset, FS_CardinalityType
<1>12. \/ Count' <= Count /\ Missing' = Missing
       \/ Count' < Count
  <2>1. CASE \A k \in Handlers : handler'[k].todo = handler[k].todo
    <3>1. Missing' = Missing
      BY <2>1 DEF Missing, Exists
    <3> QED BY <1>10, <1>11, <3>1, CountFinite DEF Count
  <2>2. ASSUME NEW k \in Handlers, handler'[k].todo # handler[k].todo
        PROVE  Count' < Count
    <3>1. handler'[k].todo = {}
      BY <1>1, <1>2, <2>2
    <3>2. PICK i \in handler[k].todo : TRUE
      BY <2>2, <3>1
    <3>3. <<k, i>> \in ToCreate
      <4>1. {k} \X handler[k].todo \subseteq ToCreate
        BY DEF ToCreate
      <4>2. <<k, i>> \in {k} \X handler[k].todo
        BY <3>2
      <4> QED BY <4>1, <4>2
    <3>4. <<k, i>> \notin ToCreate'
      BY <3>1 DEF ToCreate
    <3>5. Cardinality(ToCreate') < Cardinality(ToCreate)
      BY <1>11, <3>3, <3>4, CountFinite
    <3> QED BY <1>10, <1>11, <3>5, CountFinite DEF Count
  <2> QED BY <2>1, <2>2
<1>13. Count \in Nat /\ Count' \in Nat /\ run.pending \in Int
  <2>1. Cardinality(ToCreate') \in Nat
    BY <1>11
  <2> QED BY <1>10, <2>1, CountFinite DEF Count
<1>14. PendingOK'
  BY <1>9, <1>12, <1>13 DEF Chain, PendingOK
<1>15. LateOK'
  <2>1. GroupOver => GroupOver'
    <3> SUFFICES ASSUME GroupOver PROVE GroupOver'
      OBVIOUS
    <3>1. \A k \in Handlers : handler[k].todo = {}
      BY NothingToFan DEF GroupOver, Fanning, Chain, Ledger, Base
    <3>2. Missing' = Missing
      BY <1>1, <1>2, <3>1 DEF Missing, Exists
    <3> QED BY <1>4, <1>5, <3>2 DEF GroupOver
  <2>2. \A k \in Handlers : handler'[k].pc = "advance" /\ Grouped(handler'[k].step) =>
          handler[k].pc = "advance" /\ Grouped(handler[k].step)
    BY <1>1, <1>2
  <2> QED BY <1>3, <2>1, <2>2 DEF Chain, LateOK
<1> QED BY <1>6, <1>7, <1>8, <1>14, <1>15 DEF GroupOK

LEMMA CountZero ==
    ASSUME Chain, Begun, run.pending <= 0
    PROVE  GroupOver
<1>1. Count = 0
  BY CountFinite DEF Chain, PendingOK, Count
<1>2. Cardinality(ToCreate) = 0 /\ Cardinality(UncountedTasks) = 0
  BY <1>1, CountFinite DEF Count
<1>3. ToCreate = {} /\ UncountedTasks = {}
  BY <1>2, CountFinite, FS_EmptySet
<1>4. ~Fanning
  <2> SUFFICES ASSUME NEW k \in Handlers, handler[k].pc = "fan" PROVE FALSE
    BY DEF Fanning
  <2>1. PICK i \in handler[k].todo : TRUE
    BY DEF Chain, Ledger, Base, LocalsOK
  <2>2. {k} \X handler[k].todo \subseteq ToCreate /\ <<k, i>> \in {k} \X handler[k].todo
    BY DEF ToCreate
  <2> QED BY <1>3, <2>2
<1>5. Missing = {}
  BY <1>1, CountFinite DEF Chain, PendingOK
<1> QED BY <1>3, <1>4, <1>5 DEF GroupOver

\* No handler goes on from the group but when the group is over.
Steady == \A k \in Handlers :
    handler'[k].pc = "advance" /\ Grouped(handler'[k].step) =>
       GroupOver \/ (handler[k].pc = "advance" /\ Grouped(handler[k].step))

LEMMA SteadyStep == Chain /\ [Next]_vars => Steady \/ Noisy
<1> SUFFICES ASSUME Chain, [Next]_vars PROVE Steady \/ Noisy
  OBVIOUS
<1> USE DEF Chain, Ledger, Base
<1>1. ASSUME StartWorkflow PROVE Steady \/ Noisy
  BY <1>1, StartWorkflowDoes
     DEF Steady, Goes, Ends, Others, IdleHandler
<1>2. ASSUME NEW h \in Handlers, HandleStart(h) PROVE Steady \/ Noisy
  BY <1>2, HandleStartDoes
     DEF Steady, Goes, Ends, Others, IdleHandler
<1>3. ASSUME NEW h \in Handlers, CreateFirst(h) PROVE Steady \/ Noisy
  BY <1>3 DEF Noisy
<1>4. ASSUME NEW h \in Handlers, NEW t \in Tasks, NEW data \in BOOLEAN, HandleCompleted(h, t, data)
      PROVE Steady \/ Noisy
  BY <1>4, HandleCompletedDoes
     DEF Steady, Goes, Ends, Others, IdleHandler
<1>5. ASSUME NEW h \in Handlers, StoreResult(h) PROVE Steady \/ Noisy
  <2>1. CASE Grouped(handler[h].step)
    BY <1>5, <2>1 DEF Noisy
  <2>2. CASE ~Grouped(handler[h].step)
    BY <1>5, <2>2, StoreResultDoes DEF Steady, Goes, Others
  <2> QED BY <2>1, <2>2
<1>6. ASSUME NEW h \in Handlers, Join(h) PROVE Steady \/ Noisy
  <2>1. CASE run.pending > 0
    BY <1>6, <2>1, JoinDoes DEF Steady, Ends, Others, IdleHandler
  <2>2. CASE ~(run.pending > 0)
    <3>1. handler[h].pc = "join" /\ Goes(h, "advance")
      BY <1>6, <2>2, JoinDoes
    <3>2. \A k \in Handlers \ {h} : handler'[k] = handler[k]
      BY <3>1 DEF Goes, Others
    <3>3. Grouped(handler[h].step) => GroupOver
      <4> SUFFICES ASSUME Grouped(handler[h].step) PROVE GroupOver
        OBVIOUS
      <4>1. /\ handler[h].task \in Tasks /\ Exists(handler[h].task)
            /\ task[handler[h].task].step = handler[h].step /\ handler[h].step \in Steps
        BY <3>1, InHandStep
      <4>2. ~Early(handler[h].step) /\ OneGroup
        BY <4>1, GroupAdvance DEF Chain, Shape
      <4>3. Begun
        BY <4>1, <4>2 DEF Begun
      <4>4. run.pending <= 0
        BY <2>2, RunParts
      <4> QED BY <4>3, <4>4, CountZero
    <3> QED BY <3>1, <3>2, <3>3 DEF Steady, Goes
  <2> QED BY <2>1, <2>2
<1>7. ASSUME NEW h \in Handlers, AdvanceToGroup(h) PROVE Steady \/ Noisy
  BY <1>7 DEF Noisy
<1>8. ASSUME NEW h \in Handlers, FanOutCreate(h) PROVE Steady \/ Noisy
  BY <1>8 DEF Noisy
<1>9. ASSUME NEW h \in Handlers, FanOutSkip(h) PROVE Steady \/ Noisy
  BY <1>9 DEF Noisy
<1>10. ASSUME NEW h \in Handlers, AdvanceToStep(h) PROVE Steady \/ Noisy
  BY <1>10 DEF Noisy
<1>11. ASSUME NEW h \in Handlers, CompleteRun(h) PROVE Steady \/ Noisy
  BY <1>11, CompleteRunDoes
     DEF Steady, Goes, Ends, Others, IdleHandler
<1>12. ASSUME NEW h \in Handlers, NEW t \in Tasks, HandleFailed(h, t) PROVE Steady \/ Noisy
  BY <1>12, HandleFailedDoes
     DEF Steady, Goes, Ends, Others, IdleHandler
<1>13. ASSUME NEW h \in Handlers, RetryStep(h) PROVE Steady \/ Noisy
  BY <1>13, RetryStepDoes
     DEF Steady, Goes, Ends, Others, IdleHandler
<1>14. ASSUME NEW h \in Handlers, WakeUp(h) PROVE Steady \/ Noisy
  BY <1>14, WakeUpDoes
     DEF Steady, Goes, Ends, Others, IdleHandler
<1>15. ASSUME NEW h \in Handlers, CallErrorHandler(h) PROVE Steady \/ Noisy
  BY <1>15, CallErrorHandlerDoes
     DEF Steady, Goes, Ends, Others, IdleHandler
<1>16. ASSUME NEW h \in Handlers, FailRun(h) PROVE Steady \/ Noisy
  BY <1>16, FailRunDoes
     DEF Steady, Goes, Ends, Others, IdleHandler
<1>17. ASSUME NEW t \in Tasks, ClaimStep(t) PROVE Steady \/ Noisy
  BY <1>17, ClaimStepDoes
     DEF Steady, Goes, Ends, Others, IdleHandler
<1>18. ASSUME NEW t \in Tasks, TakeStep(t) PROVE Steady \/ Noisy
  BY <1>18, TakeStepDoes
     DEF Steady, Goes, Ends, Others, IdleHandler
<1>19. ASSUME NEW t \in Tasks, ReleaseStep(t) PROVE Steady \/ Noisy
  BY <1>19, ReleaseStepDoes
     DEF Steady, Goes, Ends, Others, IdleHandler
<1>20. ASSUME NEW t \in Tasks, NEW data \in Answers, CompleteStep(t, data) PROVE Steady \/ Noisy
  BY <1>20, CompleteStepDoes
     DEF Steady, Goes, Ends, Others, IdleHandler
<1>21. ASSUME NEW t \in Tasks, FailStep(t) PROVE Steady \/ Noisy
  BY <1>21, FailStepDoes
     DEF Steady, Goes, Ends, Others, IdleHandler
<1>22. ASSUME NEW t \in Tasks, DropStep(t) PROVE Steady \/ Noisy
  BY <1>22, DropStepDoes
     DEF Steady, Goes, Ends, Others, IdleHandler
<1>23. ASSUME NEW t \in Tasks, DlqRetry(t) PROVE Steady \/ Noisy
  BY <1>23, DlqRetryDoes DEF NoDlq
<1>24. ASSUME NEW m \in Messages, LoseMessage(m) PROVE Steady \/ Noisy
  BY <1>24 DEF Noisy
<1>25. ASSUME Forgetting PROVE Steady \/ Noisy
  BY <1>25 DEF Noisy
<1>26. CASE UNCHANGED vars
  BY <1>26, Stutters DEF Steady
<1> QED BY <1>1, <1>2, <1>3, <1>4, <1>5, <1>6, <1>7, <1>8, <1>9, <1>10,
           <1>11, <1>12, <1>13, <1>14, <1>15, <1>16, <1>17, <1>18,
           <1>19, <1>20, <1>21, <1>22, <1>23, <1>24, <1>25, <1>26
   DEF Next, HandlerNext, CompletedNext, FailedNext, QueueNext, FaultNext, Forgetting

LEMMA DiskStep == Chain /\ [Next]_vars => DiskOK'
<1> SUFFICES ASSUME Chain, [Next]_vars PROVE DiskOK'
  OBVIOUS
<1> USE DEF Chain, Ledger, Base
<1>1. ASSUME StartWorkflow PROVE DiskOK'
  BY <1>1, StartWorkflowDoes
     DEF DiskOK, Exists, Goes, Ends, Others, IdleHandler, Moves, NewTask, KeepsStep
<1>2. ASSUME NEW h \in Handlers, HandleStart(h) PROVE DiskOK'
  BY <1>2, HandleStartDoes
     DEF DiskOK, Exists, Goes, Ends, Others, IdleHandler, Moves, NewTask, KeepsStep
<1>3. ASSUME NEW h \in Handlers, CreateFirst(h) PROVE DiskOK'
  BY <1>3, CreateFirstDoes
     DEF DiskOK, Exists, Goes, Ends, Others, IdleHandler, Moves, NewTask, KeepsStep
<1>4. ASSUME NEW h \in Handlers, NEW t \in Tasks, NEW data \in BOOLEAN, HandleCompleted(h, t, data)
      PROVE DiskOK'
  BY <1>4, HandleCompletedDoes
     DEF DiskOK, Exists, Goes, Ends, Others, IdleHandler, Moves, NewTask, KeepsStep
<1>5. ASSUME NEW h \in Handlers, StoreResult(h) PROVE DiskOK'
  BY <1>5, StoreResultDoes
     DEF DiskOK, Exists, Goes, Ends, Others, IdleHandler, Moves, NewTask, KeepsStep
<1>6. ASSUME NEW h \in Handlers, Join(h) PROVE DiskOK'
  BY <1>6, JoinDoes
     DEF DiskOK, Exists, Goes, Ends, Others, IdleHandler, Moves, NewTask, KeepsStep
<1>7. ASSUME NEW h \in Handlers, AdvanceToGroup(h) PROVE DiskOK'
  BY <1>7, AdvanceToGroupDoes
     DEF DiskOK, Exists, Goes, Ends, Others, IdleHandler, Moves, NewTask, KeepsStep
<1>8. ASSUME NEW h \in Handlers, FanOutCreate(h) PROVE DiskOK'
  BY <1>8, FanOutCreateDoes
     DEF DiskOK, Exists, Goes, Ends, Others, IdleHandler, Moves, NewTask, KeepsStep
<1>9. ASSUME NEW h \in Handlers, FanOutSkip(h) PROVE DiskOK'
  BY <1>9, FanOutSkipDoes
     DEF DiskOK, Exists, Goes, Ends, Others, IdleHandler, Moves, NewTask, KeepsStep
<1>10. ASSUME NEW h \in Handlers, AdvanceToStep(h) PROVE DiskOK'
  BY <1>10, AdvanceToStepDoes
     DEF DiskOK, Exists, Goes, Ends, Others, IdleHandler, Moves, NewTask, KeepsStep
<1>11. ASSUME NEW h \in Handlers, CompleteRun(h) PROVE DiskOK'
  BY <1>11, CompleteRunDoes
     DEF DiskOK, Exists, Goes, Ends, Others, IdleHandler, Moves, NewTask, KeepsStep
<1>12. ASSUME NEW h \in Handlers, NEW t \in Tasks, HandleFailed(h, t) PROVE DiskOK'
  BY <1>12, HandleFailedDoes
     DEF DiskOK, Exists, Goes, Ends, Others, IdleHandler, Moves, NewTask, KeepsStep
<1>13. ASSUME NEW h \in Handlers, RetryStep(h) PROVE DiskOK'
  BY <1>13, RetryStepDoes
     DEF DiskOK, Exists, Goes, Ends, Others, IdleHandler, Moves, NewTask, KeepsStep
<1>14. ASSUME NEW h \in Handlers, WakeUp(h) PROVE DiskOK'
  BY <1>14, WakeUpDoes
     DEF DiskOK, Exists, Goes, Ends, Others, IdleHandler, Moves, NewTask, KeepsStep
<1>15. ASSUME NEW h \in Handlers, CallErrorHandler(h) PROVE DiskOK'
  BY <1>15, CallErrorHandlerDoes
     DEF DiskOK, Exists, Goes, Ends, Others, IdleHandler, Moves, NewTask, KeepsStep
<1>16. ASSUME NEW h \in Handlers, FailRun(h) PROVE DiskOK'
  BY <1>16, FailRunDoes
     DEF DiskOK, Exists, Goes, Ends, Others, IdleHandler, Moves, NewTask, KeepsStep
<1>17. ASSUME NEW t \in Tasks, ClaimStep(t) PROVE DiskOK'
  BY <1>17, ClaimStepDoes
     DEF DiskOK, Exists, Goes, Ends, Others, IdleHandler, Moves, NewTask, KeepsStep
<1>18. ASSUME NEW t \in Tasks, TakeStep(t) PROVE DiskOK'
  BY <1>18, TakeStepDoes
     DEF DiskOK, Exists, Goes, Ends, Others, IdleHandler, Moves, NewTask, KeepsStep
<1>19. ASSUME NEW t \in Tasks, ReleaseStep(t) PROVE DiskOK'
  BY <1>19, ReleaseStepDoes
     DEF DiskOK, Exists, Goes, Ends, Others, IdleHandler, Moves, NewTask, KeepsStep
<1>20. ASSUME NEW t \in Tasks, NEW data \in Answers, CompleteStep(t, data) PROVE DiskOK'
  BY <1>20, CompleteStepDoes
     DEF DiskOK, Exists, Goes, Ends, Others, IdleHandler, Moves, NewTask, KeepsStep
<1>21. ASSUME NEW t \in Tasks, FailStep(t) PROVE DiskOK'
  BY <1>21, FailStepMoves DEF DiskOK, Exists, Moves
<1>22. ASSUME NEW t \in Tasks, DropStep(t) PROVE DiskOK'
  BY <1>22, DropStepDoes
     DEF DiskOK, Exists, Goes, Ends, Others, IdleHandler, Moves, NewTask, KeepsStep
<1>23. ASSUME NEW t \in Tasks, DlqRetry(t) PROVE DiskOK'
  BY <1>23, DlqRetryDoes
     DEF DiskOK, Exists, Goes, Ends, Others, IdleHandler, Moves, NewTask, KeepsStep
<1>24. ASSUME NEW m \in Messages, LoseMessage(m) PROVE DiskOK'
  BY <1>24, LoseMessageDoes
     DEF DiskOK, Exists, Goes, Ends, Others, IdleHandler, Moves, NewTask, KeepsStep
<1>25. ASSUME Forgetting PROVE DiskOK'
  BY <1>25, ForgettingDoes
     DEF DiskOK, Exists, Goes, Ends, Others, IdleHandler, Moves, NewTask, KeepsStep
<1>26. CASE UNCHANGED vars
  BY <1>26, Stutters DEF DiskOK, Exists
<1> QED BY <1>1, <1>2, <1>3, <1>4, <1>5, <1>6, <1>7, <1>8, <1>9, <1>10,
           <1>11, <1>12, <1>13, <1>14, <1>15, <1>16, <1>17, <1>18,
           <1>19, <1>20, <1>21, <1>22, <1>23, <1>24, <1>25, <1>26
   DEF Next, HandlerNext, CompletedNext, FailedNext, QueueNext, FaultNext, Forgetting

LEMMA DoneExist ==
    ASSUME Base
    PROVE  \A t \in history.done : t \in Tasks /\ Exists(t)
BY HistoryParts DEF Base, PresentOK, Exists

LEMMA MissedStep == Chain /\ [Next]_vars => NoStepIsMissed'
<1> SUFFICES ASSUME Chain, [Next]_vars PROVE NoStepIsMissed'
  OBVIOUS
<1> USE DEF Chain, Ledger, Base
<1>1. ASSUME StartWorkflow PROVE NoStepIsMissed'
  BY <1>1, StartWorkflowDoes, DoneExist
     DEF NoStepIsMissed, NewTask, Moves, Exists, KeepsStep
<1>2. ASSUME NEW h \in Handlers, HandleStart(h) PROVE NoStepIsMissed'
  BY <1>2, HandleStartDoes, DoneExist
     DEF NoStepIsMissed, NewTask, Moves, Exists, KeepsStep
<1>3. ASSUME NEW h \in Handlers, CreateFirst(h) PROVE NoStepIsMissed'
  BY <1>3, CreateFirstDoes, DoneExist
     DEF NoStepIsMissed, NewTask, Moves, Exists, KeepsStep
<1>4. ASSUME NEW h \in Handlers, NEW t \in Tasks, NEW data \in BOOLEAN, HandleCompleted(h, t, data)
      PROVE NoStepIsMissed'
  BY <1>4, HandleCompletedDoes, DoneExist
     DEF NoStepIsMissed, NewTask, Moves, Exists, KeepsStep
<1>5. ASSUME NEW h \in Handlers, StoreResult(h) PROVE NoStepIsMissed'
  BY <1>5, StoreResultDoes, DoneExist
     DEF NoStepIsMissed, NewTask, Moves, Exists, KeepsStep
<1>6. ASSUME NEW h \in Handlers, Join(h) PROVE NoStepIsMissed'
  BY <1>6, JoinDoes, DoneExist
     DEF NoStepIsMissed, NewTask, Moves, Exists, KeepsStep
<1>7. ASSUME NEW h \in Handlers, AdvanceToGroup(h) PROVE NoStepIsMissed'
  BY <1>7, AdvanceToGroupDoes, DoneExist
     DEF NoStepIsMissed, NewTask, Moves, Exists, KeepsStep
<1>8. ASSUME NEW h \in Handlers, FanOutCreate(h) PROVE NoStepIsMissed'
  BY <1>8, FanOutCreateDoes, DoneExist
     DEF NoStepIsMissed, NewTask, Moves, Exists, KeepsStep
<1>9. ASSUME NEW h \in Handlers, FanOutSkip(h) PROVE NoStepIsMissed'
  BY <1>9, FanOutSkipDoes, DoneExist
     DEF NoStepIsMissed, NewTask, Moves, Exists, KeepsStep
<1>10. ASSUME NEW h \in Handlers, AdvanceToStep(h) PROVE NoStepIsMissed'
  BY <1>10, AdvanceToStepDoes, DoneExist
     DEF NoStepIsMissed, NewTask, Moves, Exists, KeepsStep
<1>11. ASSUME NEW h \in Handlers, CompleteRun(h) PROVE NoStepIsMissed'
  <2>1. /\ handler[h].pc = "advance" /\ NextStep(h) >= NSteps
        /\ AdvanceTo(handler[h].step) \in Steps => ~Grouped(AdvanceTo(handler[h].step))
        /\ task' = task /\ history' = history
    BY <1>11, CompleteRunDoes
  <2>2. Chain
    OBVIOUS
  <2>3. NextStep(h) \in Nat
    BY NextStepType
  <2> HIDE DEF Chain, Ledger, Base
  <2>4. ASSUME NEW i \in Steps, When[i] = NoStep
        PROVE  \E u \in history.done : task[u].step = i
    <3>1. i < NextStep(h)
      BY <2>1, <2>3, FormulaAssumption DEF Steps
    <3> QED BY <2>1, <2>2, <2>4, <3>1, AllBefore
  <2> QED BY <2>1, <2>4 DEF NoStepIsMissed
<1>12. ASSUME NEW h \in Handlers, NEW t \in Tasks, HandleFailed(h, t) PROVE NoStepIsMissed'
  BY <1>12, HandleFailedDoes, DoneExist
     DEF NoStepIsMissed, NewTask, Moves, Exists, KeepsStep
<1>13. ASSUME NEW h \in Handlers, RetryStep(h) PROVE NoStepIsMissed'
  BY <1>13, RetryStepDoes, DoneExist
     DEF NoStepIsMissed, NewTask, Moves, Exists, KeepsStep
<1>14. ASSUME NEW h \in Handlers, WakeUp(h) PROVE NoStepIsMissed'
  BY <1>14, WakeUpDoes, DoneExist
     DEF NoStepIsMissed, NewTask, Moves, Exists, KeepsStep
<1>15. ASSUME NEW h \in Handlers, CallErrorHandler(h) PROVE NoStepIsMissed'
  BY <1>15, CallErrorHandlerDoes, DoneExist
     DEF NoStepIsMissed, NewTask, Moves, Exists, KeepsStep
<1>16. ASSUME NEW h \in Handlers, FailRun(h) PROVE NoStepIsMissed'
  BY <1>16, FailRunDoes DEF NoStepIsMissed
<1>17. ASSUME NEW t \in Tasks, ClaimStep(t) PROVE NoStepIsMissed'
  BY <1>17, ClaimStepDoes, DoneExist
     DEF NoStepIsMissed, NewTask, Moves, Exists, KeepsStep
<1>18. ASSUME NEW t \in Tasks, TakeStep(t) PROVE NoStepIsMissed'
  BY <1>18, TakeStepDoes, DoneExist
     DEF NoStepIsMissed, NewTask, Moves, Exists, KeepsStep
<1>19. ASSUME NEW t \in Tasks, ReleaseStep(t) PROVE NoStepIsMissed'
  BY <1>19, ReleaseStepDoes, DoneExist
     DEF NoStepIsMissed, NewTask, Moves, Exists, KeepsStep
<1>20. ASSUME NEW t \in Tasks, NEW data \in Answers, CompleteStep(t, data) PROVE NoStepIsMissed'
  BY <1>20, CompleteStepDoes, DoneExist
     DEF NoStepIsMissed, NewTask, Moves, Exists, KeepsStep
<1>21. ASSUME NEW t \in Tasks, FailStep(t) PROVE NoStepIsMissed'
  BY <1>21, FailStepMoves DEF NoStepIsMissed
<1>22. ASSUME NEW t \in Tasks, DropStep(t) PROVE NoStepIsMissed'
  BY <1>22, DropStepDoes, DoneExist
     DEF NoStepIsMissed, NewTask, Moves, Exists, KeepsStep
<1>23. ASSUME NEW t \in Tasks, DlqRetry(t) PROVE NoStepIsMissed'
  BY <1>23, DlqRetryDoes DEF NoDlq
<1>24. ASSUME NEW m \in Messages, LoseMessage(m) PROVE NoStepIsMissed'
  BY <1>24, LoseMessageDoes, DoneExist
     DEF NoStepIsMissed, NewTask, Moves, Exists, KeepsStep
<1>25. ASSUME Forgetting PROVE NoStepIsMissed'
  BY <1>25, ForgettingDoes, DoneExist
     DEF NoStepIsMissed, NewTask, Moves, Exists, KeepsStep
<1>26. CASE UNCHANGED vars
  BY <1>26, Stutters DEF NoStepIsMissed
<1> QED BY <1>1, <1>2, <1>3, <1>4, <1>5, <1>6, <1>7, <1>8, <1>9, <1>10,
           <1>11, <1>12, <1>13, <1>14, <1>15, <1>16, <1>17, <1>18,
           <1>19, <1>20, <1>21, <1>22, <1>23, <1>24, <1>25, <1>26
   DEF Next, HandlerNext, CompletedNext, FailedNext, QueueNext, FaultNext, Forgetting

LEMMA NoisyKeeps ==
    ASSUME Chain, Noisy
    PROVE  GroupOK'
<1>1. ASSUME NEW h \in Handlers,
             \/ CreateFirst(h) \/ AdvanceToGroup(h) \/ FanOutCreate(h) \/ FanOutSkip(h)
             \/ AdvanceToStep(h)
             \/ StoreResult(h) /\ Grouped(handler[h].step)
      PROVE  GroupOK'
  BY <1>1, CreateFirstKeeps, AdvanceToGroupKeeps, FanOutCreateKeeps, FanOutSkipKeeps,
     AdvanceToStepKeeps, StoreResultKeeps
<1>2. ASSUME NEW m \in Messages, LoseMessage(m) PROVE GroupOK'
  <2>1. /\ Faulty /\ nats' \subseteq nats /\ handler' = handler
        /\ run' = run /\ life' = life /\ task' = task /\ history' = history
    BY <1>2, LoseMessageDoes DEF Chain, Ledger, Base
  <2> QED BY <2>1, LossKeeps
<1>3. ASSUME Forgetting PROVE GroupOK'
  <2>1. /\ Faulty /\ nats' \subseteq nats
        /\ \A k \in Handlers : handler'[k] \in {IdleHandler, handler[k]}
        /\ run' = run /\ life' = life /\ task' = task /\ history' = history
    BY <1>3, ForgettingDoes DEF Chain, Ledger, Base
  <2> QED BY <2>1, LossKeeps
<1> QED BY <1>1, <1>2, <1>3 DEF Noisy

LEMMA ChainStep == Chain /\ [Next]_vars => Chain'
<1> SUFFICES ASSUME Chain, [Next]_vars PROVE Chain'
  OBVIOUS
<1>1. GroupOK'
  <2>1. CASE Noisy
    BY <2>1, NoisyKeeps
  <2>2. CASE Quiet /\ Steady
    BY <2>2, QuietKeeps, LateQuiet DEF GroupOK, Steady
  <2> QED BY <2>1, <2>2, QuietStep, SteadyStep
<1>2. Shape'
  BY DEF Chain, Shape, NoDlq, OneGroup, Grouped
<1>3. Ledger'
  BY LedgerStep DEF Chain
<1>4. DiskOK' /\ NoStepIsMissed'
  BY DiskStep, MissedStep
<1> QED BY <1>1, <1>2, <1>3, <1>4 DEF Chain, GroupOK

LEMMA ChainInit == Shape /\ Init => Chain
<1> SUFFICES ASSUME Shape, Init PROVE Chain
  OBVIOUS
<1>1. Ledger
  BY LedgerInit DEF Shape
<1>2. /\ \A t \in Tasks : ~Exists(t)
      /\ \A h \in Handlers : handler[h].pc = "idle" /\ handler[h].todo = {}
      /\ run.status = "absent" /\ run.pending = 0
  BY DEF Init, Queue!Init, Exists, IdleHandler
<1>3. ~Fanning /\ ~Begun
  BY <1>2 DEF Fanning, Begun
<1>4. UncountedTasks = {}
  BY <1>2 DEF UncountedTasks, Uncounted, Exists
<1>5. ToCreate = {}
  BY <1>2 DEF ToCreate
<1>6. Count = 0
  BY <1>4, <1>5, FS_EmptySet DEF Count
<1>7. PendingOK
  BY <1>2, <1>3, <1>6 DEF PendingOK
<1>8. FiniteOK
  <2>1. {t \in Tasks : Exists(t)} = {}
    BY <1>2
  <2> QED BY <2>1, FS_EmptySet DEF FiniteOK
<1>9. StepsKnown /\ DiskOK /\ EarlyAlone /\ OrderOK /\ NoStepIsMissed
  BY <1>2 DEF StepsKnown, DiskOK, EarlyAlone, OrderOK, NoStepIsMissed
<1>10. FanOK /\ LateOK
  BY <1>2 DEF FanOK, LateOK
<1> QED BY <1>1, <1>7, <1>8, <1>9, <1>10 DEF Chain

-----------------------------------------------------------------------------
(* What follows.                                                            *)

LEMMA ChainHolds == ASSUME Shape PROVE Spec => []Chain
BY ChainInit, ChainStep, PTL DEF Spec

\* parallel_pending counts exactly the members of the group that are still to
\* be created or whose completion is still to be counted, in every
\* interleaving of the fan-out, the skips and the completions, as long as no
\* message is lost and no dead-letter retry happens: for every formula with
\* one group that does not begin it, no error handler and no condition on the
\* step before the group.
THEOREM PendingIsExact ==
    ASSUME Shape PROVE Spec => []PendingCountsMembers
<1>1. Chain => PendingCountsMembers
  BY DEF Chain, PendingOK, PendingCountsMembers, Count, ToCreate, UncountedTasks
<1> QED BY <1>1, ChainHolds, PTL

\* A run of such a formula that is marked completed has completed every
\* unconditional step, whatever was lost and whenever the coordinator crashed:
\* a lost member keeps the counter from reaching zero.
THEOREM CompletedRunMissesNoStep ==
    ASSUME Shape PROVE Spec => []NoStepIsMissed
<1>1. Chain => NoStepIsMissed
  BY DEF Chain
<1> QED BY <1>1, ChainHolds, PTL

\* No step follows the first one after the group (two members of the group
\* that both find the counter at zero both create that one).
Tame == \A s \in Steps : Late(s) => s = NSteps - 1

\* A task created for a step finds the tasks before it done.
Ordered == \A t \in Tasks, s \in Steps : Created(t, s) =>
    \A u \in Tasks :
       /\ life[u] # "absent"
       /\ task[u].step \in 0..(s - 1)
       /\ ~(Grouped(s) /\ Group[task[u].step] = Group[s])
       => u \in history.done

LEMMA NewTaskOrdered ==
    ASSUME NEW t \in Tasks, NEW s \in Steps, NewTask(t, s),
           \A u \in Tasks :
              /\ Exists(u)
              /\ task[u].step \in 0..(s - 1)
              /\ ~(Grouped(s) /\ Group[task[u].step] = Group[s])
              => u \in history.done
    PROVE  Ordered
<1>1. \A u \in Tasks, i \in Steps : Created(u, i) => u = t /\ i = s
  BY DEF Created, NewTask, Moves
<1> QED BY <1>1 DEF Ordered, Exists

\* A task that is not open is done.
LEMMA ClosedDone ==
    ASSUME Chain, NEW u \in Tasks, Exists(u), ~Open(u)
    PROVE  u \in history.done
BY DEF Chain, Ledger, CompletionsOK, Open, Exists

LEMMA CreateFirstOrdered ==
    ASSUME Chain, NEW h \in Handlers, CreateFirst(h)
    PROVE  Ordered
<1>1. PICK t \in Tasks : NewTask(t, 0)
  BY CreateFirstDoes DEF Chain, Ledger, Base
<1>2. 0..(0 - 1) = {} /\ 0 \in Steps
  BY FirstStep
<1> QED BY <1>1, <1>2, NewTaskOrdered

LEMMA FanOutCreateOrdered ==
    ASSUME Chain, NEW h \in Handlers, FanOutCreate(h)
    PROVE  Ordered
<1>1. handler[h].pc = "fan"
  BY FanOutCreateDoes DEF Chain, Ledger, Base
<1>2. PICK s \in handler[h].todo, t \in Tasks : s \in Steps /\ NewTask(t, s)
  BY FanOutCreateDoes DEF Chain, Ledger, Base
<1>3. PICK e \in Steps :
        /\ e = handler[h].step
        /\ Early(e) /\ e + 1 \in Steps /\ Grouped(e + 1)
        /\ handler[h].todo \subseteq GroupSteps
  BY <1>1, InHandStep DEF Chain, FanOK, GroupSteps
<1>4. OneGroup /\ s \in GroupSteps /\ s \in Nat
  BY <1>2, <1>3, FirstStep DEF Chain, Shape
<1>5. ASSUME NEW u \in Tasks, Exists(u), task[u].step \in 0..(s - 1),
             ~(Grouped(s) /\ Group[task[u].step] = Group[s])
      PROVE  u \in history.done
  <2>1. task[u].step \in Steps /\ task[u].step < s
    BY <1>4, <1>5 DEF Chain, StepsKnown
  <2>2. ~Grouped(task[u].step)
    BY <1>4, <1>5, <2>1 DEF OneGroup, GroupSteps
  <2>3. task[u].step <= e
    BY <1>3, <1>4, <2>1, <2>2, GroupAhead
  <2>4. Early(task[u].step)
    BY <1>3, <1>4, <2>1, <2>3, EarlyAdvance
  <2>5. ~Open(u)
    BY <1>1, <1>5, <2>4 DEF Chain, EarlyAlone, Fanning
  <2> QED BY <1>5, <2>5, ClosedDone
<1> QED BY <1>2, <1>5, NewTaskOrdered

LEMMA AdvanceToStepOrdered ==
    ASSUME Chain, Tame, NEW h \in Handlers, AdvanceToStep(h)
    PROVE  Ordered
<1>1. /\ handler[h].pc = "advance"
      /\ AdvanceTo(handler[h].step) \in Steps => ~Grouped(AdvanceTo(handler[h].step))
      /\ NextStep(h) \in Steps
      /\ \E t \in Tasks : NewTask(t, NextStep(h))
  BY AdvanceToStepDoes DEF Chain, Ledger, Base
<1>2. PICK v \in Tasks, s \in Steps :
        /\ v = handler[h].task /\ s = handler[h].step
        /\ Exists(v) /\ Open(v) /\ task[v].step = s /\ v \in history.done
  BY <1>1, InHandStep
<1>3. PICK n \in Steps : n = NextStep(h)
  BY <1>1
<1>4. n > s /\ (Early(s) => Early(n)) /\ (~Early(s) => Late(n))
  BY <1>1, <1>2, <1>3, NextPhase
<1>5. PICK t \in Tasks : NewTask(t, n)
  BY <1>1, <1>3
<1>6. n \in Nat /\ s \in Nat
  BY FirstStep
<1>7. ASSUME NEW u \in Tasks, Exists(u), task[u].step \in 0..(n - 1) PROVE u \in history.done
  <2>1. task[u].step \in Steps /\ task[u].step < n
    BY <1>6, <1>7 DEF Chain, StepsKnown
  <2>2. CASE Early(s)
    <3>1. u # v => ~Open(u)
      BY <1>1, <1>2, <1>7, <2>2, EarlyHand
    <3> QED BY <1>2, <1>7, <3>1, ClosedDone
  <2>3. CASE ~Early(s)
    <3>1. CASE Early(task[u].step)
      <4>1. ~Open(u)
        BY <1>2, <1>7, <2>3, <3>1, EarlyClosed
      <4> QED BY <1>7, <4>1, ClosedDone
    <3>2. CASE Late(task[u].step)
      <4>1. task[u].step = NSteps - 1 /\ n = NSteps - 1
        BY <1>4, <2>1, <2>3, <3>2 DEF Tame
      <4> QED BY <1>6, <2>1, <4>1
    <3>3. CASE Grouped(task[u].step)
      <4>1. GroupOver
        BY <1>1, <1>2, <2>3, Phases DEF Chain, LateOK
      <4>2. ~Uncounted(u)
        BY <4>1 DEF GroupOver, UncountedTasks
      <4>3. life[u] = "completed"
        BY <1>7, <2>1, <3>3, <4>2, FirstStep DEF Uncounted, Exists
      <4> QED BY <4>3 DEF Chain, Ledger, CompletionsOK
    <3> QED BY <2>1, <3>1, <3>2, <3>3, Phases
  <2> QED BY <2>2, <2>3
<1> QED BY <1>5, <1>7, NewTaskOrdered

LEMMA OrderedStep == Chain /\ Tame /\ [Next]_vars => Ordered
<1> SUFFICES ASSUME Chain /\ Tame, [Next]_vars PROVE Ordered
  OBVIOUS
<1> USE DEF Chain, Ledger, Base
<1>1. ASSUME StartWorkflow PROVE Ordered
  BY <1>1, StartWorkflowDoes
     DEF Ordered, Created, Moves, Recovers, LocalsOK, PresentOK
<1>2. ASSUME NEW h \in Handlers, HandleStart(h) PROVE Ordered
  BY <1>2, HandleStartDoes
     DEF Ordered, Created, Moves, Recovers, LocalsOK, PresentOK
<1>3. ASSUME NEW h \in Handlers, CreateFirst(h) PROVE Ordered
  BY <1>3, CreateFirstOrdered
<1>4. ASSUME NEW h \in Handlers, NEW t \in Tasks, NEW data \in BOOLEAN, HandleCompleted(h, t, data)
      PROVE Ordered
  BY <1>4, HandleCompletedDoes
     DEF Ordered, Created, Moves, Recovers, LocalsOK, PresentOK
<1>5. ASSUME NEW h \in Handlers, StoreResult(h) PROVE Ordered
  BY <1>5, StoreResultDoes
     DEF Ordered, Created, Moves, Recovers, LocalsOK, PresentOK
<1>6. ASSUME NEW h \in Handlers, Join(h) PROVE Ordered
  BY <1>6, JoinDoes
     DEF Ordered, Created, Moves, Recovers, LocalsOK, PresentOK
<1>7. ASSUME NEW h \in Handlers, AdvanceToGroup(h) PROVE Ordered
  BY <1>7, AdvanceToGroupDoes
     DEF Ordered, Created, Moves, Recovers, LocalsOK, PresentOK
<1>8. ASSUME NEW h \in Handlers, FanOutCreate(h) PROVE Ordered
  BY <1>8, FanOutCreateOrdered
<1>9. ASSUME NEW h \in Handlers, FanOutSkip(h) PROVE Ordered
  BY <1>9, FanOutSkipDoes
     DEF Ordered, Created, Moves, Recovers, LocalsOK, PresentOK
<1>10. ASSUME NEW h \in Handlers, AdvanceToStep(h) PROVE Ordered
  BY <1>10, AdvanceToStepOrdered
<1>11. ASSUME NEW h \in Handlers, CompleteRun(h) PROVE Ordered
  BY <1>11, CompleteRunDoes
     DEF Ordered, Created, Moves, Recovers, LocalsOK, PresentOK
<1>12. ASSUME NEW h \in Handlers, NEW t \in Tasks, HandleFailed(h, t) PROVE Ordered
  BY <1>12, HandleFailedDoes
     DEF Ordered, Created, Moves, Recovers, LocalsOK, PresentOK
<1>13. ASSUME NEW h \in Handlers, RetryStep(h) PROVE Ordered
  BY <1>13, RetryStepDoes
     DEF Ordered, Created, Moves, Recovers, LocalsOK, PresentOK
<1>14. ASSUME NEW h \in Handlers, WakeUp(h) PROVE Ordered
  BY <1>14, WakeUpDoes
     DEF Ordered, Created, Moves, Recovers, LocalsOK, PresentOK
<1>15. ASSUME NEW h \in Handlers, CallErrorHandler(h) PROVE Ordered
  BY <1>15, CallErrorHandlerDoes DEF Shape
<1>16. ASSUME NEW h \in Handlers, FailRun(h) PROVE Ordered
  BY <1>16, FailRunDoes
     DEF Ordered, Created, Moves, Recovers, LocalsOK, PresentOK
<1>17. ASSUME NEW t \in Tasks, ClaimStep(t) PROVE Ordered
  BY <1>17, ClaimStepDoes
     DEF Ordered, Created, Moves, Recovers, LocalsOK, PresentOK
<1>18. ASSUME NEW t \in Tasks, TakeStep(t) PROVE Ordered
  BY <1>18, TakeStepDoes
     DEF Ordered, Created, Moves, Recovers, LocalsOK, PresentOK
<1>19. ASSUME NEW t \in Tasks, ReleaseStep(t) PROVE Ordered
  BY <1>19, ReleaseStepDoes
     DEF Ordered, Created, Moves, Recovers, LocalsOK, PresentOK
<1>20. ASSUME NEW t \in Tasks, NEW data \in Answers, CompleteStep(t, data) PROVE Ordered
  BY <1>20, CompleteStepDoes
     DEF Ordered, Created, Moves, Recovers, LocalsOK, PresentOK
<1>21. ASSUME NEW t \in Tasks, FailStep(t) PROVE Ordered
  BY <1>21, FailStepMoves DEF Ordered, Created, Moves
<1>22. ASSUME NEW t \in Tasks, DropStep(t) PROVE Ordered
  BY <1>22, DropStepDoes
     DEF Ordered, Created, Moves, Recovers, LocalsOK, PresentOK
<1>23. ASSUME NEW t \in Tasks, DlqRetry(t) PROVE Ordered
  BY <1>23, DlqRetryDoes
     DEF Ordered, Created, Moves, Recovers, LocalsOK, PresentOK
<1>24. ASSUME NEW m \in Messages, LoseMessage(m) PROVE Ordered
  BY <1>24, LoseMessageDoes
     DEF Ordered, Created, Moves, Recovers, LocalsOK, PresentOK
<1>25. ASSUME Forgetting PROVE Ordered
  BY <1>25, ForgettingDoes
     DEF Ordered, Created, Moves, Recovers, LocalsOK, PresentOK
<1>26. CASE UNCHANGED vars
  BY <1>26, Stutters DEF Ordered, Created
<1> QED BY <1>1, <1>2, <1>3, <1>4, <1>5, <1>6, <1>7, <1>8, <1>9, <1>10,
           <1>11, <1>12, <1>13, <1>14, <1>15, <1>16, <1>17, <1>18,
           <1>19, <1>20, <1>21, <1>22, <1>23, <1>24, <1>25, <1>26
   DEF Next, HandlerNext, CompletedNext, FailedNext, QueueNext, FaultNext, Forgetting

\* The task of a step is created when every task of an earlier step, but for
\* the members of the step's own group, is completed: the join waits for all
\* the members, for every such formula with at most one step after the group.
THEOREM StepsFollowInOrder ==
    ASSUME Shape, Tame PROVE Spec => StepsInOrder
<1>1. Tame /\ Tame'
  BY DEF Tame, Late, Early, Grouped
<1>2. Chain /\ [Next]_vars => [Ordered]_vars
  BY <1>1, OrderedStep
<1>3. [Ordered]_vars => [\A t \in Tasks, s \in Steps : Created(t, s) =>
         \A u \in Tasks :
           /\ life[u] # "absent"
           /\ task[u].step \in 0..(s - 1)
           /\ ~(Grouped(s) /\ Group[task[u].step] = Group[s])
           => u \in history.done]_vars
  BY DEF Ordered
<1> QED BY <1>2, <1>3, ChainHolds, PTL DEF Spec, StepsInOrder

-----------------------------------------------------------------------------
(* A run that failed.                                                       *)

GroupLast == \A s \in Steps : ~Late(s)

\* A task that failed for good.
Dead(t) ==
    /\ life[t] = "failed"
    /\ Failed(t) \notin nats
    /\ \A h \in Handlers : ~Recovers(h, t)

FailedOK == run.status = "failed" => \E t \in Tasks : Dead(t)

LEMMA FailedStep == Chain /\ FailedOK /\ [Next]_vars => FailedOK'
<1> SUFFICES ASSUME Chain /\ FailedOK, [Next]_vars PROVE FailedOK'
  OBVIOUS
<1> USE DEF Chain, Ledger, Base
<1>1. ASSUME StartWorkflow PROVE FailedOK'
  BY <1>1, StartWorkflowDoes, MessagesDiffer
     DEF FailedOK, Dead, Recovers, Goes, Ends, Others, IdleHandler, Moves, NewTask
<1>2. ASSUME NEW h \in Handlers, HandleStart(h) PROVE FailedOK'
  BY <1>2, HandleStartDoes, MessagesDiffer
     DEF FailedOK, Dead, Recovers, Goes, Ends, Others, IdleHandler, Moves, NewTask
<1>3. ASSUME NEW h \in Handlers, CreateFirst(h) PROVE FailedOK'
  BY <1>3, CreateFirstDoes, MessagesDiffer
     DEF FailedOK, Dead, Recovers, Goes, Ends, Others, IdleHandler, Moves, NewTask
<1>4. ASSUME NEW h \in Handlers, NEW t \in Tasks, NEW data \in BOOLEAN, HandleCompleted(h, t, data)
      PROVE FailedOK'
  BY <1>4, HandleCompletedDoes, MessagesDiffer
     DEF FailedOK, Dead, Recovers, Goes, Ends, Others, IdleHandler, Moves, NewTask
<1>5. ASSUME NEW h \in Handlers, StoreResult(h) PROVE FailedOK'
  BY <1>5, StoreResultDoes, MessagesDiffer
     DEF FailedOK, Dead, Recovers, Goes, Ends, Others, IdleHandler, Moves, NewTask
<1>6. ASSUME NEW h \in Handlers, Join(h) PROVE FailedOK'
  BY <1>6, JoinDoes, MessagesDiffer
     DEF FailedOK, Dead, Recovers, Goes, Ends, Others, IdleHandler, Moves, NewTask
<1>7. ASSUME NEW h \in Handlers, AdvanceToGroup(h) PROVE FailedOK'
  BY <1>7, AdvanceToGroupDoes, MessagesDiffer
     DEF FailedOK, Dead, Recovers, Goes, Ends, Others, IdleHandler, Moves, NewTask
<1>8. ASSUME NEW h \in Handlers, FanOutCreate(h) PROVE FailedOK'
  BY <1>8, FanOutCreateDoes, MessagesDiffer
     DEF FailedOK, Dead, Recovers, Goes, Ends, Others, IdleHandler, Moves, NewTask
<1>9. ASSUME NEW h \in Handlers, FanOutSkip(h) PROVE FailedOK'
  BY <1>9, FanOutSkipDoes, MessagesDiffer
     DEF FailedOK, Dead, Recovers, Goes, Ends, Others, IdleHandler, Moves, NewTask
<1>10. ASSUME NEW h \in Handlers, AdvanceToStep(h) PROVE FailedOK'
  BY <1>10, AdvanceToStepDoes, MessagesDiffer
     DEF FailedOK, Dead, Recovers, Goes, Ends, Others, IdleHandler, Moves, NewTask
<1>11. ASSUME NEW h \in Handlers, CompleteRun(h) PROVE FailedOK'
  BY <1>11, CompleteRunDoes, MessagesDiffer
     DEF FailedOK, Dead, Recovers, Goes, Ends, Others, IdleHandler, Moves, NewTask
<1>12. ASSUME NEW h \in Handlers, NEW t \in Tasks, HandleFailed(h, t) PROVE FailedOK'
  BY <1>12, HandleFailedDoes, MessagesDiffer
     DEF FailedOK, Dead, Recovers, Goes, Ends, Others, IdleHandler, Moves, NewTask
<1>13. ASSUME NEW h \in Handlers, RetryStep(h) PROVE FailedOK'
  BY <1>13, RetryStepDoes, MessagesDiffer
     DEF FailedOK, Dead, Recovers, Goes, Ends, Others, IdleHandler, Moves, NewTask
<1>14. ASSUME NEW h \in Handlers, WakeUp(h) PROVE FailedOK'
  BY <1>14, WakeUpDoes, MessagesDiffer
     DEF FailedOK, Dead, Recovers, Goes, Ends, Others, IdleHandler, Moves, NewTask
<1>15. ASSUME NEW h \in Handlers, CallErrorHandler(h) PROVE FailedOK'
  BY <1>15, CallErrorHandlerDoes, MessagesDiffer
     DEF FailedOK, Dead, Recovers, Goes, Ends, Others, IdleHandler, Moves, NewTask
<1>16. ASSUME NEW h \in Handlers, FailRun(h) PROVE FailedOK'
  <2>1. /\ handler[h].pc = "recover" /\ Ends(h) /\ life' = life /\ nats' = nats
    BY <1>16, FailRunDoes
  <2>2. PICK t \in Tasks : t = handler[h].task
    BY <2>1 DEF LocalsOK
  <2>3. Recovers(h, t)
    BY <2>1, <2>2 DEF Recovers
  <2>4. /\ life[t] = "failed" /\ Failed(t) \notin nats
        /\ \A k \in Handlers : Recovers(k, t) => k = h
    BY <2>3 DEF FailuresOK
  <2>5. \A k \in Handlers : ~Recovers(k, t)'
    BY <2>1, <2>4 DEF Recovers, Ends, Others, IdleHandler
  <2> QED BY <2>1, <2>4, <2>5 DEF FailedOK, Dead
<1>17. ASSUME NEW t \in Tasks, ClaimStep(t) PROVE FailedOK'
  BY <1>17, ClaimStepDoes, MessagesDiffer
     DEF FailedOK, Dead, Recovers, Goes, Ends, Others, IdleHandler, Moves, NewTask
<1>18. ASSUME NEW t \in Tasks, TakeStep(t) PROVE FailedOK'
  BY <1>18, TakeStepDoes, MessagesDiffer
     DEF FailedOK, Dead, Recovers, Goes, Ends, Others, IdleHandler, Moves, NewTask
<1>19. ASSUME NEW t \in Tasks, ReleaseStep(t) PROVE FailedOK'
  BY <1>19, ReleaseStepDoes, MessagesDiffer
     DEF FailedOK, Dead, Recovers, Goes, Ends, Others, IdleHandler, Moves, NewTask
<1>20. ASSUME NEW t \in Tasks, NEW data \in Answers, CompleteStep(t, data) PROVE FailedOK'
  BY <1>20, CompleteStepDoes, MessagesDiffer
     DEF FailedOK, Dead, Recovers, Goes, Ends, Others, IdleHandler, Moves, NewTask
<1>21. ASSUME NEW t \in Tasks, FailStep(t) PROVE FailedOK'
  BY <1>21, FailStepMoves, MessagesDiffer DEF FailedOK, Dead, Recovers, Moves
<1>22. ASSUME NEW t \in Tasks, DropStep(t) PROVE FailedOK'
  BY <1>22, DropStepDoes, MessagesDiffer
     DEF FailedOK, Dead, Recovers, Goes, Ends, Others, IdleHandler, Moves, NewTask
<1>23. ASSUME NEW t \in Tasks, DlqRetry(t) PROVE FailedOK'
  BY <1>23, DlqRetryDoes DEF NoDlq
<1>24. ASSUME NEW m \in Messages, LoseMessage(m) PROVE FailedOK'
  BY <1>24, LoseMessageDoes, MessagesDiffer
     DEF FailedOK, Dead, Recovers, Goes, Ends, Others, IdleHandler, Moves, NewTask
<1>25. ASSUME Forgetting PROVE FailedOK'
  BY <1>25, ForgettingDoes, MessagesDiffer
     DEF FailedOK, Dead, Recovers, Goes, Ends, Others, IdleHandler, Moves, NewTask
<1>26. CASE UNCHANGED vars
  BY <1>26, Stutters DEF FailedOK, Dead, Recovers
<1> QED BY <1>1, <1>2, <1>3, <1>4, <1>5, <1>6, <1>7, <1>8, <1>9, <1>10,
           <1>11, <1>12, <1>13, <1>14, <1>15, <1>16, <1>17, <1>18,
           <1>19, <1>20, <1>21, <1>22, <1>23, <1>24, <1>25, <1>26
   DEF Next, HandlerNext, CompletedNext, FailedNext, QueueNext, FaultNext, Forgetting

\* A task that failed for good keeps the run from being completed.
LEMMA DeadBlocks ==
    ASSUME Chain, GroupLast, NEW t \in Tasks, Dead(t), NEW h \in Handlers
    PROVE  handler[h].pc # "advance"
<1> SUFFICES ASSUME handler[h].pc = "advance" PROVE FALSE
  OBVIOUS
<1>1. PICK v \in Tasks, s \in Steps :
        /\ v = handler[h].task /\ s = handler[h].step
        /\ Exists(v) /\ Open(v) /\ task[v].step = s /\ life[v] = "completed"
  BY InHandStep
<1>2. Exists(t) /\ Open(t) /\ t # v /\ task[t].step \in Steps
  BY <1>1 DEF Dead, Exists, Open, Chain, StepsKnown
<1>3. CASE Early(s)
  BY <1>1, <1>2, <1>3, EarlyHand
<1>4. CASE Grouped(s)
  <2>1. GroupOver
    BY <1>1, <1>4 DEF Chain, LateOK
  <2>2. ~Grouped(task[t].step)
    BY <1>2, <2>1, FirstStep DEF GroupOver, UncountedTasks, Uncounted, Dead
  <2>3. Early(task[t].step)
    BY <1>2, <2>2, Phases DEF GroupLast
  <2>4. ~Early(s)
    BY <1>4, GroupAdvance DEF Chain, Shape
  <2> QED BY <1>1, <1>2, <2>3, <2>4, EarlyClosed
<1> QED BY <1>3, <1>4, Phases DEF GroupLast

StaysFailed == run.status = "failed" => run'.status = "failed"

LEMMA FinalStep == Chain /\ FailedOK /\ GroupLast /\ [Next]_vars => StaysFailed
<1> SUFFICES ASSUME Chain /\ FailedOK /\ GroupLast, [Next]_vars PROVE StaysFailed
  OBVIOUS
<1> USE DEF StaysFailed, Chain, Ledger, Base
<1>1. ASSUME StartWorkflow PROVE StaysFailed
  BY <1>1, StartWorkflowDoes
<1>2. ASSUME NEW h \in Handlers, HandleStart(h) PROVE StaysFailed
  BY <1>2, HandleStartDoes
     DEF StartOK
<1>3. ASSUME NEW h \in Handlers, CreateFirst(h) PROVE StaysFailed
  BY <1>3, CreateFirstDoes
<1>4. ASSUME NEW h \in Handlers, NEW t \in Tasks, NEW data \in BOOLEAN, HandleCompleted(h, t, data)
      PROVE StaysFailed
  BY <1>4, HandleCompletedDoes
<1>5. ASSUME NEW h \in Handlers, StoreResult(h) PROVE StaysFailed
  BY <1>5, StoreResultDoes
<1>6. ASSUME NEW h \in Handlers, Join(h) PROVE StaysFailed
  BY <1>6, JoinDoes
<1>7. ASSUME NEW h \in Handlers, AdvanceToGroup(h) PROVE StaysFailed
  BY <1>7, AdvanceToGroupDoes
<1>8. ASSUME NEW h \in Handlers, FanOutCreate(h) PROVE StaysFailed
  BY <1>8, FanOutCreateDoes
<1>9. ASSUME NEW h \in Handlers, FanOutSkip(h) PROVE StaysFailed
  BY <1>9, FanOutSkipDoes
<1>10. ASSUME NEW h \in Handlers, AdvanceToStep(h) PROVE StaysFailed
  BY <1>10, AdvanceToStepDoes
<1>11. ASSUME NEW h \in Handlers, CompleteRun(h) PROVE StaysFailed
  <2>1. handler[h].pc = "advance"
    BY <1>11, CompleteRunDoes
  <2>2. Chain
    OBVIOUS
  <2> HIDE DEF Chain, Ledger, Base
  <2> QED BY <2>1, <2>2, DeadBlocks DEF FailedOK
<1>12. ASSUME NEW h \in Handlers, NEW t \in Tasks, HandleFailed(h, t) PROVE StaysFailed
  BY <1>12, HandleFailedDoes
<1>13. ASSUME NEW h \in Handlers, RetryStep(h) PROVE StaysFailed
  BY <1>13, RetryStepDoes
<1>14. ASSUME NEW h \in Handlers, WakeUp(h) PROVE StaysFailed
  BY <1>14, WakeUpDoes
<1>15. ASSUME NEW h \in Handlers, CallErrorHandler(h) PROVE StaysFailed
  BY <1>15, CallErrorHandlerDoes
<1>16. ASSUME NEW h \in Handlers, FailRun(h) PROVE StaysFailed
  BY <1>16, FailRunDoes
<1>17. ASSUME NEW t \in Tasks, ClaimStep(t) PROVE StaysFailed
  BY <1>17, ClaimStepDoes
<1>18. ASSUME NEW t \in Tasks, TakeStep(t) PROVE StaysFailed
  BY <1>18, TakeStepDoes
<1>19. ASSUME NEW t \in Tasks, ReleaseStep(t) PROVE StaysFailed
  BY <1>19, ReleaseStepDoes
<1>20. ASSUME NEW t \in Tasks, NEW data \in Answers, CompleteStep(t, data) PROVE StaysFailed
  BY <1>20, CompleteStepDoes
<1>21. ASSUME NEW t \in Tasks, FailStep(t) PROVE StaysFailed
  BY <1>21, FailStepMoves
<1>22. ASSUME NEW t \in Tasks, DropStep(t) PROVE StaysFailed
  BY <1>22, DropStepDoes
<1>23. ASSUME NEW t \in Tasks, DlqRetry(t) PROVE StaysFailed
  BY <1>23, DlqRetryDoes
<1>24. ASSUME NEW m \in Messages, LoseMessage(m) PROVE StaysFailed
  BY <1>24, LoseMessageDoes
<1>25. ASSUME Forgetting PROVE StaysFailed
  BY <1>25, ForgettingDoes
<1>26. CASE UNCHANGED vars
  BY <1>26, Stutters
<1> QED BY <1>1, <1>2, <1>3, <1>4, <1>5, <1>6, <1>7, <1>8, <1>9, <1>10,
           <1>11, <1>12, <1>13, <1>14, <1>15, <1>16, <1>17, <1>18,
           <1>19, <1>20, <1>21, <1>22, <1>23, <1>24, <1>25, <1>26
   DEF Next, HandlerNext, CompletedNext, FailedNext, QueueNext, FaultNext, Forgetting

\* A run that failed never completes: the task that failed for good keeps the
\* join, and every later step, from happening.  For every such formula that
\* ends with its group or has none.
THEOREM FailedRunStaysFailed ==
    ASSUME Shape, GroupLast PROVE Spec => FailedRunIsFinal
<1>1. GroupLast /\ GroupLast'
  BY DEF GroupLast, Late, Early, Grouped
<1>2. Init => FailedOK
  BY DEF Init, FailedOK
<1>3. Chain /\ FailedOK /\ [Next]_vars => FailedOK'
  BY FailedStep
<1>4. Chain /\ FailedOK /\ [Next]_vars
        => [run.status = "failed" => run'.status = "failed"]_vars
  BY <1>1, FinalStep DEF StaysFailed
<1> QED BY <1>2, <1>3, <1>4, ChainHolds, PTL DEF Spec, FailedRunIsFinal

-----------------------------------------------------------------------------
(* A run with a group is not forgotten either.                              *)

\* The last member of the group has no condition.
LastIsSure == \A s \in GroupSteps : (\A i \in GroupSteps : i <= s) => When[s] = NoStep

\* A pending task has its router, a failed one a handler of its failure,
\* unless it was dropped.
Watched == ~Faulty /\ Runs => \A t \in Tasks :
    /\ life[t] = "pending" => Woken(t)
    /\ life[t] = "failed" =>
         \/ Failed(t) \in nats \/ t \in history.dropped
         \/ \E h \in Handlers : Recovers(h, t)

\* The loop over the members has its last turn ahead.
LastToCome == \A h \in Handlers, s \in GroupSteps :
    handler[h].pc = "fan" /\ (\A i \in GroupSteps : i <= s) => s \in handler[h].todo

LEMMA WatchedStep == Shape /\ OnDisk /\ Base /\ Watched /\ [Next]_vars => Watched'
<1> SUFFICES ASSUME Shape /\ OnDisk /\ Base /\ Watched, [Next]_vars PROVE Watched'
  OBVIOUS
<1> USE DEF Base
<1>1. ASSUME StartWorkflow PROVE Watched'
  BY <1>1, StartWorkflowDoes, MessagesDiffer
     DEF Watched, Runs, Woken, Recovers, StartOK, LocalsOK, Goes, Ends, Others,
         IdleHandler, Moves, NewTask
<1>2. ASSUME NEW h \in Handlers, HandleStart(h) PROVE Watched'
  BY <1>2, HandleStartDoes, MessagesDiffer
     DEF Watched, Runs, Woken, Recovers, StartOK, LocalsOK, Goes, Ends, Others,
         IdleHandler, Moves, NewTask
<1>3. ASSUME NEW h \in Handlers, CreateFirst(h) PROVE Watched'
  BY <1>3, CreateFirstDoes, MessagesDiffer
     DEF Watched, Runs, Woken, Recovers, StartOK, LocalsOK, Goes, Ends, Others,
         IdleHandler, Moves, NewTask
<1>4. ASSUME NEW h \in Handlers, NEW t \in Tasks, NEW data \in BOOLEAN, HandleCompleted(h, t, data)
      PROVE Watched'
  BY <1>4, HandleCompletedDoes, MessagesDiffer
     DEF Watched, Runs, Woken, Recovers, StartOK, LocalsOK, Goes, Ends, Others,
         IdleHandler, Moves, NewTask
<1>5. ASSUME NEW h \in Handlers, StoreResult(h) PROVE Watched'
  BY <1>5, StoreResultDoes, MessagesDiffer
     DEF Watched, Runs, Woken, Recovers, StartOK, LocalsOK, Goes, Ends, Others,
         IdleHandler, Moves, NewTask
<1>6. ASSUME NEW h \in Handlers, Join(h) PROVE Watched'
  BY <1>6, JoinDoes, MessagesDiffer
     DEF Watched, Runs, Woken, Recovers, StartOK, LocalsOK, Goes, Ends, Others,
         IdleHandler, Moves, NewTask
<1>7. ASSUME NEW h \in Handlers, AdvanceToGroup(h) PROVE Watched'
  BY <1>7, AdvanceToGroupDoes, MessagesDiffer
     DEF Watched, Runs, Woken, Recovers, StartOK, LocalsOK, Goes, Ends, Others,
         IdleHandler, Moves, NewTask
<1>8. ASSUME NEW h \in Handlers, FanOutCreate(h) PROVE Watched'
  BY <1>8, FanOutCreateDoes, MessagesDiffer
     DEF Watched, Runs, Woken, Recovers, StartOK, LocalsOK, Goes, Ends, Others,
         IdleHandler, Moves, NewTask
<1>9. ASSUME NEW h \in Handlers, FanOutSkip(h) PROVE Watched'
  BY <1>9, FanOutSkipDoes, MessagesDiffer
     DEF Watched, Runs, Woken, Recovers, StartOK, LocalsOK, Goes, Ends, Others,
         IdleHandler, Moves, NewTask
<1>10. ASSUME NEW h \in Handlers, AdvanceToStep(h) PROVE Watched'
  BY <1>10, AdvanceToStepDoes, MessagesDiffer
     DEF Watched, Runs, Woken, Recovers, StartOK, LocalsOK, Goes, Ends, Others,
         IdleHandler, Moves, NewTask
<1>11. ASSUME NEW h \in Handlers, CompleteRun(h) PROVE Watched'
  BY <1>11, CompleteRunDoes
     DEF Watched, Runs
<1>12. ASSUME NEW h \in Handlers, NEW t \in Tasks, HandleFailed(h, t) PROVE Watched'
  BY <1>12, HandleFailedDoes, MessagesDiffer
     DEF Watched, Runs, Woken, Recovers, StartOK, LocalsOK, Goes, Ends, Others,
         IdleHandler, Moves, NewTask
<1>13. ASSUME NEW h \in Handlers, RetryStep(h) PROVE Watched'
  BY <1>13, RetryStepDoes, MessagesDiffer
     DEF Watched, Runs, Woken, Recovers, StartOK, LocalsOK, Goes, Ends, Others,
         IdleHandler, Moves, NewTask
<1>14. ASSUME NEW h \in Handlers, WakeUp(h) PROVE Watched'
  BY <1>14, WakeUpDoes, MessagesDiffer
     DEF Watched, Runs, Woken, Recovers, StartOK, LocalsOK, Goes, Ends, Others,
         IdleHandler, Moves, NewTask
<1>15. ASSUME NEW h \in Handlers, CallErrorHandler(h) PROVE Watched'
  BY <1>15, CallErrorHandlerDoes DEF Shape
<1>16. ASSUME NEW h \in Handlers, FailRun(h) PROVE Watched'
  BY <1>16, FailRunDoes
     DEF Watched, Runs
<1>17. ASSUME NEW t \in Tasks, ClaimStep(t) PROVE Watched'
  BY <1>17, ClaimStepDoes, MessagesDiffer
     DEF Watched, Runs, Woken, Recovers, StartOK, LocalsOK, Goes, Ends, Others,
         IdleHandler, Moves, NewTask
<1>18. ASSUME NEW t \in Tasks, TakeStep(t) PROVE Watched'
  BY <1>18, TakeStepDoes, MessagesDiffer
     DEF Watched, Runs, Woken, Recovers, StartOK, LocalsOK, Goes, Ends, Others,
         IdleHandler, Moves, NewTask
<1>19. ASSUME NEW t \in Tasks, ReleaseStep(t) PROVE Watched'
  BY <1>19, ReleaseStepDoes, MessagesDiffer
     DEF Watched, Runs, Woken, Recovers, StartOK, LocalsOK, Goes, Ends, Others,
         IdleHandler, Moves, NewTask
<1>20. ASSUME NEW t \in Tasks, NEW data \in Answers, CompleteStep(t, data) PROVE Watched'
  BY <1>20, CompleteStepDoes, MessagesDiffer
     DEF Watched, Runs, Woken, Recovers, StartOK, LocalsOK, Goes, Ends, Others,
         IdleHandler, Moves, NewTask
<1>21. ASSUME NEW t \in Tasks, FailStep(t) PROVE Watched'
  BY <1>21, FailStepMoves, MessagesDiffer
     DEF Watched, Runs, Woken, Recovers, StartOK, LocalsOK, Goes, Ends, Others,
         IdleHandler, Moves, NewTask
<1>22. ASSUME NEW t \in Tasks, DropStep(t) PROVE Watched'
  BY <1>22, DropStepDoes, MessagesDiffer
     DEF Watched, Runs, Woken, Recovers, StartOK, LocalsOK, Goes, Ends, Others,
         IdleHandler, Moves, NewTask
<1>23. ASSUME NEW t \in Tasks, DlqRetry(t) PROVE Watched'
  BY <1>23, DlqRetryDoes DEF Shape, NoDlq
<1>24. ASSUME NEW m \in Messages, LoseMessage(m) PROVE Watched'
  BY <1>24, LoseMessageDoes
     DEF Watched
<1>25. ASSUME Forgetting PROVE Watched'
  BY <1>25, ForgettingDoes
     DEF Watched
<1>26. CASE UNCHANGED vars
  BY <1>26, Stutters DEF Watched, Runs, Woken, Recovers
<1> QED BY <1>1, <1>2, <1>3, <1>4, <1>5, <1>6, <1>7, <1>8, <1>9, <1>10,
           <1>11, <1>12, <1>13, <1>14, <1>15, <1>16, <1>17, <1>18,
           <1>19, <1>20, <1>21, <1>22, <1>23, <1>24, <1>25, <1>26
   DEF Next, HandlerNext, CompletedNext, FailedNext, QueueNext, FaultNext, Forgetting

LEMMA LastMember ==
    ASSUME OneGroup, NEW s \in Steps, Early(s), s + 1 \in GroupSteps
    PROVE  \E m \in GroupSteps : \A i \in GroupSteps : i <= m
<1> DEFINE f == s + 1
           n == AdvanceTo(f)
<1>1. f \in Steps /\ Grouped(f) /\ Members(f) = GroupSteps
  BY GroupAhead DEF GroupSteps
<1> HIDE DEF f
<1>2. n \in (f + 1)..NSteps /\ Members(f) = f..(n - 1) /\ f \in Nat /\ NSteps \in Nat
  BY <1>1, AdvanceIsNext, FormulaAssumption DEF Members, Steps
<1> HIDE DEF n
<1>3. n - 1 \in f..(n - 1) /\ \A i \in f..(n - 1) : i <= n - 1
  BY <1>2
<1> QED BY <1>1, <1>2, <1>3


LEMMA ToGroup ==
    ASSUME Chain, NEW h \in Handlers, AdvanceToGroup(h)
    PROVE  handler'[h].todo = GroupSteps /\ Others(h)
<1> USE DEF Chain, Shape, Ledger, Base
<1>1. PICK s \in Steps : s = handler[h].step
  BY HandlerParts
<1>2. /\ handler[h].pc = "advance" /\ Goes(h, "fan")
      /\ AdvanceTo(s) \in Steps /\ Grouped(AdvanceTo(s))
      /\ handler'[h].todo = Members(AdvanceTo(s))
  BY <1>1, AdvanceToGroupDoes
<1>3. Early(s)
  BY <1>2, Phases, GroupAdvance, LateAdvance DEF Late
<1>4. s + 1 \in Steps /\ Grouped(s + 1) /\ AdvanceTo(s) = s + 1
  BY <1>2, <1>3, EarlyAdvance
<1>5. Members(s + 1) = GroupSteps
  BY <1>3, <1>4, GroupAhead
<1> QED BY <1>2, <1>4, <1>5 DEF Goes

LEMMA LastStep == Chain /\ LastIsSure /\ LastToCome /\ [Next]_vars => LastToCome'
<1> SUFFICES ASSUME Chain /\ LastIsSure /\ LastToCome, [Next]_vars PROVE LastToCome'
  OBVIOUS
<1> USE DEF Chain, Ledger, Base
<1>1. ASSUME StartWorkflow PROVE LastToCome'
  BY <1>1, StartWorkflowDoes
     DEF LastToCome, Goes, Ends, Others, IdleHandler
<1>2. ASSUME NEW h \in Handlers, HandleStart(h) PROVE LastToCome'
  BY <1>2, HandleStartDoes
     DEF LastToCome, Goes, Ends, Others, IdleHandler
<1>3. ASSUME NEW h \in Handlers, CreateFirst(h) PROVE LastToCome'
  BY <1>3, CreateFirstDoes
     DEF LastToCome, Goes, Ends, Others, IdleHandler
<1>4. ASSUME NEW h \in Handlers, NEW t \in Tasks, NEW data \in BOOLEAN, HandleCompleted(h, t, data)
      PROVE LastToCome'
  BY <1>4, HandleCompletedDoes
     DEF LastToCome, Goes, Ends, Others, IdleHandler
<1>5. ASSUME NEW h \in Handlers, StoreResult(h) PROVE LastToCome'
  BY <1>5, StoreResultDoes
     DEF LastToCome, Goes, Ends, Others, IdleHandler
<1>6. ASSUME NEW h \in Handlers, Join(h) PROVE LastToCome'
  BY <1>6, JoinDoes
     DEF LastToCome, Goes, Ends, Others, IdleHandler
<1>7. ASSUME NEW h \in Handlers, AdvanceToGroup(h) PROVE LastToCome'
  <2>1. handler'[h].todo = GroupSteps /\ Others(h)
    BY <1>7, ToGroup
  <2> QED BY <2>1 DEF LastToCome, Others
<1>8. ASSUME NEW h \in Handlers, FanOutCreate(h) PROVE LastToCome'
  <2>1. PICK s \in handler[h].todo :
          /\ \A i \in handler[h].todo : s <= i
          /\ Others(h) /\ handler'[h].todo = handler[h].todo \ {s}
          /\ IF handler[h].todo = {s} THEN Ends(h) ELSE Goes(h, "fan")
    BY <1>8, FanOutCreateDoes
  <2>2. handler[h].pc = "fan" /\ handler[h].todo \subseteq GroupSteps
    BY <1>8, FanOutCreateDoes DEF FanOK
  <2>3. ASSUME NEW m \in GroupSteps, \A i \in GroupSteps : i <= m, handler'[h].pc = "fan"
        PROVE  m \in handler'[h].todo
    <3>1. m \in handler[h].todo /\ handler[h].todo # {s}
      BY <2>1, <2>2, <2>3 DEF LastToCome, Ends, IdleHandler
    <3>2. m # s
      <4>1. PICK i \in handler[h].todo : i # s
        BY <3>1
      <4>2. s <= i /\ i <= m /\ i \in Nat /\ s \in Nat
        BY <2>1, <2>2, <2>3, <4>1, FirstStep DEF GroupSteps
      <4> QED BY <4>1, <4>2
    <3> QED BY <2>1, <3>1, <3>2
  <2> QED BY <2>1, <2>3 DEF LastToCome, Others
<1>9. ASSUME NEW h \in Handlers, FanOutSkip(h) PROVE LastToCome'
  <2>1. PICK s \in handler[h].todo :
          /\ ~Holds(s, handler[h].results)
          /\ Others(h) /\ handler'[h].todo = handler[h].todo \ {s}
    BY <1>9, FanOutSkipDoes
  <2>2. handler[h].pc = "fan" /\ handler[h].todo \subseteq GroupSteps
    BY <1>9, FanOutSkipDoes DEF FanOK
  <2>3. ASSUME NEW m \in GroupSteps, \A i \in GroupSteps : i <= m
        PROVE  m \in handler'[h].todo
    BY <2>1, <2>2, <2>3 DEF LastToCome, LastIsSure, Holds
  <2> QED BY <2>1, <2>3 DEF LastToCome, Others
<1>10. ASSUME NEW h \in Handlers, AdvanceToStep(h) PROVE LastToCome'
  BY <1>10, AdvanceToStepDoes
     DEF LastToCome, Goes, Ends, Others, IdleHandler
<1>11. ASSUME NEW h \in Handlers, CompleteRun(h) PROVE LastToCome'
  BY <1>11, CompleteRunDoes
     DEF LastToCome, Goes, Ends, Others, IdleHandler
<1>12. ASSUME NEW h \in Handlers, NEW t \in Tasks, HandleFailed(h, t) PROVE LastToCome'
  BY <1>12, HandleFailedDoes
     DEF LastToCome, Goes, Ends, Others, IdleHandler
<1>13. ASSUME NEW h \in Handlers, RetryStep(h) PROVE LastToCome'
  BY <1>13, RetryStepDoes
     DEF LastToCome, Goes, Ends, Others, IdleHandler
<1>14. ASSUME NEW h \in Handlers, WakeUp(h) PROVE LastToCome'
  BY <1>14, WakeUpDoes
     DEF LastToCome, Goes, Ends, Others, IdleHandler
<1>15. ASSUME NEW h \in Handlers, CallErrorHandler(h) PROVE LastToCome'
  BY <1>15, CallErrorHandlerDoes
     DEF LastToCome, Goes, Ends, Others, IdleHandler
<1>16. ASSUME NEW h \in Handlers, FailRun(h) PROVE LastToCome'
  BY <1>16, FailRunDoes
     DEF LastToCome, Goes, Ends, Others, IdleHandler
<1>17. ASSUME NEW t \in Tasks, ClaimStep(t) PROVE LastToCome'
  BY <1>17, ClaimStepDoes
     DEF LastToCome, Goes, Ends, Others, IdleHandler
<1>18. ASSUME NEW t \in Tasks, TakeStep(t) PROVE LastToCome'
  BY <1>18, TakeStepDoes
     DEF LastToCome, Goes, Ends, Others, IdleHandler
<1>19. ASSUME NEW t \in Tasks, ReleaseStep(t) PROVE LastToCome'
  BY <1>19, ReleaseStepDoes
     DEF LastToCome, Goes, Ends, Others, IdleHandler
<1>20. ASSUME NEW t \in Tasks, NEW data \in Answers, CompleteStep(t, data) PROVE LastToCome'
  BY <1>20, CompleteStepDoes
     DEF LastToCome, Goes, Ends, Others, IdleHandler
<1>21. ASSUME NEW t \in Tasks, FailStep(t) PROVE LastToCome'
  BY <1>21, FailStepDoes
     DEF LastToCome, Goes, Ends, Others, IdleHandler
<1>22. ASSUME NEW t \in Tasks, DropStep(t) PROVE LastToCome'
  BY <1>22, DropStepDoes
     DEF LastToCome, Goes, Ends, Others, IdleHandler
<1>23. ASSUME NEW t \in Tasks, DlqRetry(t) PROVE LastToCome'
  BY <1>23, DlqRetryDoes
     DEF LastToCome, Goes, Ends, Others, IdleHandler
<1>24. ASSUME NEW m \in Messages, LoseMessage(m) PROVE LastToCome'
  BY <1>24, LoseMessageDoes
     DEF LastToCome, Goes, Ends, Others, IdleHandler
<1>25. ASSUME Forgetting PROVE LastToCome'
  BY <1>25, ForgettingDoes
     DEF LastToCome, Goes, Ends, Others, IdleHandler
<1>26. CASE UNCHANGED vars
  BY <1>26, Stutters DEF LastToCome
<1> QED BY <1>1, <1>2, <1>3, <1>4, <1>5, <1>6, <1>7, <1>8, <1>9, <1>10,
           <1>11, <1>12, <1>13, <1>14, <1>15, <1>16, <1>17, <1>18,
           <1>19, <1>20, <1>21, <1>22, <1>23, <1>24, <1>25, <1>26
   DEF Next, HandlerNext, CompletedNext, FailedNext, QueueNext, FaultNext, Forgetting

\* A skip is never the last turn of the loop.
LEMMA SkipGoesOn ==
    ASSUME Chain, LastIsSure, LastToCome, NEW h \in Handlers, FanOutSkip(h)
    PROVE  handler'[h].pc = "fan"
<1>1. PICK s \in handler[h].todo :
        /\ ~Holds(s, handler[h].results)
        /\ IF handler[h].todo = {s} THEN Ends(h) ELSE Goes(h, "fan")
  BY FanOutSkipDoes DEF Chain, Ledger, Base
<1>2. /\ handler[h].pc = "fan" /\ Early(handler[h].step) /\ handler[h].step + 1 \in GroupSteps
      /\ handler[h].step \in Steps
  BY FanOutSkipDoes, HandlerParts DEF Chain, Ledger, Base, FanOK
<1>3. PICK m \in GroupSteps : \A i \in GroupSteps : i <= m
  BY <1>2, LastMember DEF Chain, Shape
<1>4. m \in handler[h].todo /\ m # s
  BY <1>1, <1>2, <1>3 DEF LastToCome, LastIsSure, Holds
<1> QED BY <1>1, <1>4 DEF Goes

\* While the counter is above zero somebody else carries the run.
LEMMA PendingIsCarried ==
    ASSUME Chain, Watched, ~Faulty, Runs, run.pending > 0,
           NEW h \in Handlers, handler[h].pc = "join"
    PROVE  \/ \E t \in Tasks : Carried(t) \/ Tells(t)
           \/ \E k \in Handlers \ {h} : Carries(k)
<1>1. ToCreate # {} \/ UncountedTasks # {}
  BY FS_EmptySet DEF Chain, PendingOK, Count
<1>2. ASSUME ToCreate # {} PROVE \E k \in Handlers \ {h} : Carries(k)
  <2>1. PICK k \in Handlers : handler[k].todo # {}
    BY <1>2 DEF ToCreate
  <2>2. handler[k].pc = "fan"
    BY <2>1 DEF Chain, Ledger, Base, LocalsOK
  <2> QED BY <2>2 DEF Carries
<1>3. ASSUME NEW t \in UncountedTasks
      PROVE  \/ Carried(t) \/ Tells(t)
             \/ \E k \in Handlers \ {h} : Carries(k)
  <2>1. t \in Tasks /\ Uncounted(t)
    BY <1>3 DEF UncountedTasks
  <2>2. life[t] \in {"pending", "held", "paused", "completed", "failed"}
    BY <2>1, LivesOf DEF Uncounted, Chain, Ledger, Base, TypeOK
  <2>3. CASE life[t] \in {"held", "paused"}
    BY <2>3 DEF Carried
  <2>4. CASE life[t] = "pending"
    BY <2>1, <2>4 DEF Watched, Carried
  <2>5. CASE life[t] = "failed"
    <3>1. \/ Failed(t) \in nats \/ t \in history.dropped
          \/ \E k \in Handlers : Recovers(k, t)
      BY <2>1, <2>5 DEF Watched
    <3> QED BY <2>5, <3>1 DEF Carried, Tells, Recovers, Carries
  <2>6. CASE life[t] = "completed"
    BY <2>1, <2>6 DEF Uncounted, Tells, Carries
  <2> QED BY <2>2, <2>3, <2>4, <2>5, <2>6
<1> QED BY <1>1, <1>2, <1>3 DEF UncountedTasks

LEMMA RememberedStep ==
    OnDisk /\ LastIsSure /\ Chain /\ Watched /\ LastToCome /\ Remembered /\ [Next]_vars => Remembered'
<1> SUFFICES ASSUME OnDisk /\ LastIsSure /\ Chain /\ Watched /\ LastToCome /\ Remembered, [Next]_vars
             PROVE Remembered'
  OBVIOUS
<1> USE DEF Chain, Ledger, Base
<1>1. ASSUME StartWorkflow PROVE Remembered'
  BY <1>1, StartWorkflowDoes, MessagesDiffer
     DEF Remembered, Runs, StartOK, LocalsOK, Carrier, Carried, Woken, Tells, Carries,
         Goes, Ends, Others, IdleHandler, Moves
<1>2. ASSUME NEW h \in Handlers, HandleStart(h) PROVE Remembered'
  BY <1>2, HandleStartDoes, MessagesDiffer
     DEF Remembered, Runs, StartOK, LocalsOK, Carrier, Carried, Woken, Tells, Carries,
         Goes, Ends, Others, IdleHandler, Moves
<1>3. ASSUME NEW h \in Handlers, CreateFirst(h) PROVE Remembered'
  BY <1>3, CreateFirstDoes, NewTaskCarries
     DEF Remembered
<1>4. ASSUME NEW h \in Handlers, NEW t \in Tasks, NEW data \in BOOLEAN, HandleCompleted(h, t, data)
      PROVE Remembered'
  BY <1>4, HandleCompletedDoes, MessagesDiffer
     DEF Remembered, Runs, StartOK, LocalsOK, Carrier, Carried, Woken, Tells, Carries,
         Goes, Ends, Others, IdleHandler, Moves
<1>5. ASSUME NEW h \in Handlers, StoreResult(h) PROVE Remembered'
  BY <1>5, StoreResultDoes, MessagesDiffer
     DEF Remembered, Runs, StartOK, LocalsOK, Carrier, Carried, Woken, Tells, Carries,
         Goes, Ends, Others, IdleHandler, Moves
<1>6. ASSUME NEW h \in Handlers, Join(h) PROVE Remembered'
  <2>1. /\ handler[h].pc = "join" /\ run' = run /\ life' = life /\ nats' = nats
        /\ history' = history
        /\ IF run.pending > 0 THEN Ends(h) ELSE Goes(h, "advance")
    BY <1>6, JoinDoes
  <2>2. CASE run.pending > 0
    <3> SUFFICES ASSUME ~Faulty, Runs PROVE Carrier'
      BY <2>1 DEF Remembered, Runs
    <3>1. \/ \E t \in Tasks : Carried(t) \/ Tells(t)
          \/ \E k \in Handlers \ {h} : Carries(k)
      BY <2>1, <2>2, PendingIsCarried
    <3> QED BY <2>1, <2>2, <3>1
         DEF Carrier, Carried, Woken, Tells, Carries, Ends, Others, IdleHandler
  <2>3. CASE ~(run.pending > 0)
    BY <2>1, <2>3 DEF Remembered, Carrier, Carries, Goes
  <2> QED BY <2>2, <2>3
<1>7. ASSUME NEW h \in Handlers, AdvanceToGroup(h) PROVE Remembered'
  BY <1>7, AdvanceToGroupDoes, MessagesDiffer
     DEF Remembered, Runs, StartOK, LocalsOK, Carrier, Carried, Woken, Tells, Carries,
         Goes, Ends, Others, IdleHandler, Moves
<1>8. ASSUME NEW h \in Handlers, FanOutCreate(h) PROVE Remembered'
  BY <1>8, FanOutCreateDoes, NewTaskCarries
     DEF Remembered
<1>9. ASSUME NEW h \in Handlers, FanOutSkip(h) PROVE Remembered'
  <2>1. handler'[h].pc = "fan"
    BY <1>9, SkipGoesOn
  <2> QED BY <2>1 DEF Remembered, Carrier, Carries
<1>10. ASSUME NEW h \in Handlers, AdvanceToStep(h) PROVE Remembered'
  BY <1>10, AdvanceToStepDoes, NewTaskCarries
     DEF Remembered
<1>11. ASSUME NEW h \in Handlers, CompleteRun(h) PROVE Remembered'
  BY <1>11, CompleteRunDoes
     DEF Remembered, Runs
<1>12. ASSUME NEW h \in Handlers, NEW t \in Tasks, HandleFailed(h, t) PROVE Remembered'
  BY <1>12, HandleFailedDoes, MessagesDiffer
     DEF Remembered, Runs, StartOK, LocalsOK, Carrier, Carried, Woken, Tells, Carries,
         Goes, Ends, Others, IdleHandler, Moves
<1>13. ASSUME NEW h \in Handlers, RetryStep(h) PROVE Remembered'
  BY <1>13, RetryStepDoes, MessagesDiffer
     DEF Remembered, Runs, StartOK, LocalsOK, Carrier, Carried, Woken, Tells, Carries,
         Goes, Ends, Others, IdleHandler, Moves
<1>14. ASSUME NEW h \in Handlers, WakeUp(h) PROVE Remembered'
  BY <1>14, WakeUpDoes, MessagesDiffer
     DEF Remembered, Runs, StartOK, LocalsOK, Carrier, Carried, Woken, Tells, Carries,
         Goes, Ends, Others, IdleHandler, Moves
<1>15. ASSUME NEW h \in Handlers, CallErrorHandler(h) PROVE Remembered'
  BY <1>15, CallErrorHandlerDoes, NewTaskCarries
     DEF Remembered
<1>16. ASSUME NEW h \in Handlers, FailRun(h) PROVE Remembered'
  BY <1>16, FailRunDoes
     DEF Remembered, Runs
<1>17. ASSUME NEW t \in Tasks, ClaimStep(t) PROVE Remembered'
  BY <1>17, ClaimStepDoes, MessagesDiffer
     DEF Remembered, Runs, StartOK, LocalsOK, Carrier, Carried, Woken, Tells, Carries,
         Goes, Ends, Others, IdleHandler, Moves
<1>18. ASSUME NEW t \in Tasks, TakeStep(t) PROVE Remembered'
  BY <1>18, TakeStepDoes, MessagesDiffer
     DEF Remembered, Runs, StartOK, LocalsOK, Carrier, Carried, Woken, Tells, Carries,
         Goes, Ends, Others, IdleHandler, Moves
<1>19. ASSUME NEW t \in Tasks, ReleaseStep(t) PROVE Remembered'
  BY <1>19, ReleaseStepDoes, MessagesDiffer
     DEF Remembered, Runs, StartOK, LocalsOK, Carrier, Carried, Woken, Tells, Carries,
         Goes, Ends, Others, IdleHandler, Moves
<1>20. ASSUME NEW t \in Tasks, NEW data \in Answers, CompleteStep(t, data) PROVE Remembered'
  BY <1>20, CompleteStepDoes, MessagesDiffer
     DEF Remembered, Runs, StartOK, LocalsOK, Carrier, Carried, Woken, Tells, Carries,
         Goes, Ends, Others, IdleHandler, Moves
<1>21. ASSUME NEW t \in Tasks, FailStep(t) PROVE Remembered'
  BY <1>21, FailStepMoves, MessagesDiffer
     DEF Remembered, Runs, Carrier, Carried, Woken, Tells, Carries, Goes, Ends, Others,
         IdleHandler, Moves
<1>22. ASSUME NEW t \in Tasks, DropStep(t) PROVE Remembered'
  BY <1>22, DropStepDoes, MessagesDiffer
     DEF Remembered, Runs, StartOK, LocalsOK, Carrier, Carried, Woken, Tells, Carries,
         Goes, Ends, Others, IdleHandler, Moves
<1>23. ASSUME NEW t \in Tasks, DlqRetry(t) PROVE Remembered'
  BY <1>23, DlqRetryDoes, MessagesDiffer
     DEF Remembered, Runs, StartOK, LocalsOK, Carrier, Carried, Woken, Tells, Carries,
         Goes, Ends, Others, IdleHandler, Moves
<1>24. ASSUME NEW m \in Messages, LoseMessage(m) PROVE Remembered'
  BY <1>24, LoseMessageDoes
     DEF Remembered
<1>25. ASSUME Forgetting PROVE Remembered'
  BY <1>25, ForgettingDoes
     DEF Remembered
<1>26. CASE UNCHANGED vars
  BY <1>26, Stutters
     DEF Remembered, Runs, Carrier, Carried, Woken, Tells, Carries, Goes, Ends, Others,
         IdleHandler, Moves
<1> QED BY <1>1, <1>2, <1>3, <1>4, <1>5, <1>6, <1>7, <1>8, <1>9, <1>10,
           <1>11, <1>12, <1>13, <1>14, <1>15, <1>16, <1>17, <1>18,
           <1>19, <1>20, <1>21, <1>22, <1>23, <1>24, <1>25, <1>26
   DEF Next, HandlerNext, CompletedNext, FailedNext, QueueNext, FaultNext, Forgetting

\* A running run with a group always has a task, a message or a handler that
\* carries it on, or a dead-lettered task, when nothing is lost: the join is
\* left to the last member whatever the order of the fan-out, the skips and the
\* completions.  For every formula with one group that does not begin it, no
\* error handler and no condition on the step before the group or on the last
\* member (a skip counts the member down without looking at the join, so a
\* last member that is skipped after the others finished stops the run).
THEOREM GroupedRunIsNotForgotten ==
    ASSUME Shape, OnDisk, LastIsSure PROVE Spec => []RunIsNotForgotten
<1> DEFINE Inv == Watched /\ LastToCome /\ Remembered
<1>1. LastIsSure'
  BY DEF LastIsSure, GroupSteps, Grouped
<1>2. Init => Inv
  BY DEF Init, Queue!Init, Watched, Runs, LastToCome, Remembered, IdleHandler
<1>3. Chain /\ Inv /\ [Next]_vars => Inv'
  BY WatchedStep, LastStep, RememberedStep DEF Chain, Ledger
<1>4. Chain /\ Inv => RunIsNotForgotten
  <2> SUFFICES ASSUME Chain, Inv PROVE RunIsNotForgotten
    OBVIOUS
  <2>1. CASE ~Faulty /\ Runs
    BY <2>1, CarriedIsNotForgotten DEF Remembered, Chain, Ledger
  <2>2. CASE ~(~Faulty /\ Runs)
    BY <2>2 DEF RunIsNotForgotten, Runs
  <2> QED BY <2>1, <2>2
<1> HIDE DEF Inv
<1> QED BY <1>2, <1>3, <1>4, ChainHolds, PTL DEF Spec
=============================================================================
