-------------------------- MODULE TaskQueueProofs --------------------------
(* Theorems of TaskQueue, for every number of tasks, agents, concurrent    *)
(* handlers and dead-letter entries.                                       *)
EXTENDS TaskQueue, TLAPS

\* The locals of a process that is between two statements name real rows.
LocalsOK ==
    /\ \A h \in Handlers :
         /\ handler[h].pc # "idle" => handler[h].task \in Tasks
         /\ handler[h].pc \in {"query", "claim"} => handler[h].round < ClaimRounds
    /\ \A r \in retryLoop.batch : dlq[r].task \in Tasks
    /\ retryLoop.pc \in {"bump", "skip"} =>
          retryLoop.row \in Rows /\ dlq[retryLoop.row].task \in Tasks
    /\ console.pc # "idle" =>
          console.row \in Rows /\ dlq[console.row].task \in Tasks

TypedLocals == TypeOK /\ LocalsOK

IInv == TypeOK /\ LocalsOK /\ PendingIsCovered

-----------------------------------------------------------------------------
LEMMA AvailableKind ==
    ASSUME NEW t \in Tasks
    PROVE  /\ Available(t) \in Messages
           /\ \A u \in Tasks : Available(u) = Available(t) => u = t
BY DEF Available, Messages

LEMMA MessageKinds ==
    ASSUME NEW t \in Tasks, NEW a \in Agents
    PROVE  /\ Available(t) \in Messages
           /\ Declined(t, a) \in Messages
           /\ ContextRequest(t, a) \in Messages
           /\ \A u \in Tasks : /\ Available(u) # Declined(t, a)
                               /\ Available(u) # ContextRequest(t, a)
                               /\ Available(u) = Available(t) => u = t
BY DEF Available, Declined, ContextRequest, Messages

LEMMA PublishType ==
    ASSUME NEW m \in Messages, nats \in [Messages -> Nat], Publish(m)
    PROVE  nats' \in [Messages -> Nat]
BY DEF Publish

LEMMA RowUpdates ==
    ASSUME task \in [Tasks -> TaskRows], NEW t \in Tasks, NEW status \in Statuses,
           NEW a \in Agents \cup {NoAgent},
           NEW by \in {"nobody", "deadletter", "agent", "operator"}
    PROVE  /\ [task EXCEPT ![t].status = status, ![t].agent = a] \in [Tasks -> TaskRows]
           /\ [task EXCEPT ![t].status = status, ![t].by = by] \in [Tasks -> TaskRows]
<1>1. [task[t] EXCEPT !.status = status, !.agent = a] \in TaskRows
  BY DEF TaskRows
<1>2. [task[t] EXCEPT !.status = status, !.by = by] \in TaskRows
  BY DEF TaskRows
<1>3. [task EXCEPT ![t] = [task[t] EXCEPT !.status = status, !.agent = a]]
        \in [Tasks -> TaskRows]
  BY <1>1
<1>4. [task EXCEPT ![t] = [task[t] EXCEPT !.status = status, !.by = by]]
        \in [Tasks -> TaskRows]
  BY <1>2
<1> QED BY <1>3, <1>4

LEMMA TypeInit == Init => TypedLocals
<1> SUFFICES ASSUME Init PROVE TypedLocals
  OBVIOUS
<1>1. task \in [Tasks -> TaskRows]
  BY DEF Init, TaskRows, Statuses
<1>2. dlq \in [Rows -> DlqRows] /\ nats \in [Messages -> Nat]
  BY DEF Init, DlqRows, NoEntry
<1>3. handler \in [Handlers -> HandlerStates]
  BY NumbersAssumption DEF Init, HandlerStates, IdleHandler
<1>4. retryLoop \in LoopStates /\ console \in ConsoleStates
  BY DEF Init, LoopStates, IdleLoop, ConsoleStates, IdleConsole
<1>5. LocalsOK
  BY NumbersAssumption DEF Init, LocalsOK, IdleHandler, IdleLoop, IdleConsole
<1> QED BY <1>1, <1>2, <1>3, <1>4, <1>5 DEF TypedLocals, TypeOK

LEMMA TypeStep == TypedLocals /\ [Next]_vars => TypeOK'
<1> SUFFICES ASSUME TypedLocals, [Next]_vars PROVE TypeOK'
  OBVIOUS
<1> USE DEF TypedLocals, TypeOK
<1>1. ASSUME NEW h \in Handlers, RouterNext(h) PROVE TypeOK'
  <2>1. ASSUME NEW t \in Tasks, RouteFetch(h, t) PROVE TypeOK'
    BY <2>1, MessageKinds, NumbersAssumption
       DEF RouteFetch, Fetched, InFlight, Consumed, HandlerStates, TaskRows, Available, Messages
  <2>2. ASSUME RouteQuery(h) PROVE TypeOK'
    <3>1. PICK E \in EligibleSets :
            handler' = [handler EXCEPT
              ![h].cands = E \ handler[h].seen,
              ![h].pc = IF E \subseteq handler[h].seen THEN "mark" ELSE "claim"]
      BY <2>2 DEF RouteQuery
    <3> DEFINE cands == E \ handler[h].seen
               pc == IF E \subseteq handler[h].seen THEN "mark" ELSE "claim"
    <3>2. cands \in SUBSET Agents /\ pc \in {"mark", "claim"}
      BY SetsAssumption
    <3>3. handler' = [handler EXCEPT ![h] =
                       [handler[h] EXCEPT !.cands = cands, !.pc = pc]]
      BY <3>1
    <3> HIDE DEF cands, pc
    <3>4. [handler[h] EXCEPT !.cands = cands, !.pc = pc] \in HandlerStates
      BY <3>2 DEF HandlerStates
    <3>5. handler' \in [Handlers -> HandlerStates]
      BY <3>3, <3>4
    <3> QED BY <2>2, <3>5 DEF RouteQuery
  <2>3. ASSUME NEW a \in Agents, RouteClaim(h, a) PROVE TypeOK'
    <3>1. task' \in [Tasks -> TaskRows]
      BY <2>3 DEF RouteClaim, Claimed, LocalsOK, TaskRows, Statuses
    <3>2. handler' \in [Handlers -> HandlerStates]
      BY <2>3, NumbersAssumption DEF RouteClaim, Claimed, HandlerStates, IdleHandler
    <3> QED BY <2>3, <3>1, <3>2 DEF RouteClaim, Claimed
  <2>4. ASSUME NEW a \in Agents, RouteContention(h, a) PROVE TypeOK'
    <3>1. handler[h] \in HandlerStates /\ handler[h].round \in 0..ClaimRounds
      BY DEF HandlerStates
    <3>2. handler[h].cands \ {a} \in SUBSET Agents
      BY <3>1 DEF HandlerStates
    <3> DEFINE left == handler[h].cands \ {a}
               next == handler[h].round + 1
               round == IF left = {} THEN next ELSE handler[h].round
               pc == IF left # {} THEN "claim"
                     ELSE IF next = ClaimRounds THEN "mark" ELSE "query"
    <3>3. handler[h].round < ClaimRounds
      BY <2>4 DEF RouteContention, LocalsOK
    <3>4. round \in 0..ClaimRounds /\ pc \in {"claim", "mark", "query"}
      BY <3>1, <3>3, NumbersAssumption
    <3>5. handler' = [handler EXCEPT ![h].cands = left, ![h].round = round,
                                     ![h].pc = pc]
      BY <2>4 DEF RouteContention
    <3> HIDE DEF next, round, pc
    <3>6. [handler[h] EXCEPT !.cands = left, !.round = round, !.pc = pc] \in HandlerStates
      BY <3>1, <3>2, <3>4 DEF HandlerStates
    <3>7. handler' = [handler EXCEPT ![h] =
                       [handler[h] EXCEPT !.cands = left, !.round = round, !.pc = pc]]
      BY <3>5
    <3>8. handler' \in [Handlers -> HandlerStates]
      BY <3>6, <3>7
    <3> QED BY <2>4, <3>8 DEF RouteContention
  <2>5. ASSUME DeadLetterMark(h) PROVE TypeOK'
    <3>1. task' \in [Tasks -> TaskRows]
      BY <2>5 DEF DeadLetterMark, LocalsOK, TaskRows, Statuses
    <3>2. handler' \in [Handlers -> HandlerStates]
      BY <2>5 DEF DeadLetterMark, HandlerStates
    <3> QED BY <2>5, <3>1, <3>2 DEF DeadLetterMark
  <2>6. ASSUME DeadLetterInsert(h) PROVE TypeOK'
    <3>1. dlq' \in [Rows -> DlqRows]
      BY <2>6 DEF DeadLetterInsert, DlqRows, HandlerStates
    <3>2. handler' \in [Handlers -> HandlerStates]
      BY <2>6, NumbersAssumption DEF DeadLetterInsert, HandlerStates, IdleHandler
    <3> QED BY <2>6, <3>1, <3>2 DEF DeadLetterInsert
  <2> QED BY <1>1, <2>1, <2>2, <2>3, <2>4, <2>5, <2>6 DEF RouterNext
<1>2. ASSUME NegotiationNext PROVE TypeOK'
  <2>1. ASSUME NEW t \in Tasks, NEW a \in Agents, NEW h \in Handlers,
               HandleDeclined(h, t, a)
        PROVE  TypeOK'
    <3>1. task' \in [Tasks -> TaskRows]
      BY <2>1 DEF HandleDeclined, TaskRows, Statuses
    <3>2. handler' \in [Handlers -> HandlerStates]
      BY <2>1 DEF HandleDeclined, HandlerStates
    <3>3. Consumed(Declined(t, a)) \in [Messages -> Nat]
      BY <2>1, MessageKinds DEF HandleDeclined, Consumed, InFlight
    <3>4. nats' \in [Messages -> Nat]
      BY <2>1, <3>3, MessageKinds DEF HandleDeclined
    <3> QED BY <2>1, <3>1, <3>2, <3>4 DEF HandleDeclined
  <2>2. ASSUME NEW t \in Tasks, NEW a \in Agents, IgnoreDeclined(t, a)
        PROVE  TypeOK'
    BY <2>2, MessageKinds DEF IgnoreDeclined, InFlight, Consumed
  <2>3. ASSUME NEW t \in Tasks, NEW a \in Agents, HandleContextRequest(t, a)
        PROVE  TypeOK'
    <3>1. nats' \in [Messages -> Nat]
      BY <2>3, MessageKinds DEF HandleContextRequest, InFlight, Consumed
    <3>2. task' \in [Tasks -> TaskRows]
      BY <2>3 DEF HandleContextRequest, TaskRows, Statuses
    <3> QED BY <2>3, <3>1, <3>2 DEF HandleContextRequest
  <2> QED BY <1>2, <2>1, <2>2, <2>3 DEF NegotiationNext
<1>3. ASSUME TimeoutNext PROVE TypeOK'
  <2>1. ASSUME NEW t \in Tasks, TimeoutClaim(t) PROVE TypeOK'
    <3>1. task' \in [Tasks -> TaskRows]
      BY <2>1, RowUpdates DEF TimeoutClaim, Statuses
    <3>2. nats' \in [Messages -> Nat]
      BY <2>1, PublishType, AvailableKind DEF TimeoutClaim
    <3> QED BY <2>1, <3>1, <3>2 DEF TimeoutClaim
  <2>2. ASSUME NEW t \in Tasks, TimeoutContextRequest(t) PROVE TypeOK'
    <3>1. task' \in [Tasks -> TaskRows]
      BY <2>2 DEF TimeoutContextRequest, TaskRows, Statuses
    <3>2. nats' \in [Messages -> Nat]
      BY <2>2, PublishType, AvailableKind DEF TimeoutContextRequest
    <3> QED BY <2>2, <3>1, <3>2 DEF TimeoutContextRequest
  <2> QED BY <1>3, <2>1, <2>2 DEF TimeoutNext
<1>4. ASSUME DlqNext PROVE TypeOK'
  <2>1. ASSUME NEW batch \in SUBSET Rows, DlqSelect(batch) PROVE TypeOK'
    BY <2>1 DEF DlqSelect, LoopStates
  <2>2. ASSUME NEW r \in Rows, DlqReset(r) PROVE TypeOK'
    <3>1. task' \in [Tasks -> TaskRows]
      BY <2>2 DEF DlqReset, LocalsOK, TaskRows, Statuses
    <3>2. retryLoop' \in LoopStates
      BY <2>2 DEF DlqReset, LoopStates
    <3> QED BY <2>2, <3>1, <3>2 DEF DlqReset
  <2>3. ASSUME DlqBump PROVE TypeOK'
    <3>1. dlq' \in [Rows -> DlqRows]
      BY <2>3 DEF DlqBump, DlqRows, LocalsOK
    <3>2. nats' \in [Messages -> Nat]
      BY <2>3, PublishType, AvailableKind DEF LocalsOK, DlqBump
    <3>3. retryLoop' \in LoopStates
      BY <2>3 DEF DlqBump, LoopGoesOn, LoopStates
    <3> QED BY <2>3, <3>1, <3>2, <3>3 DEF DlqBump
  <2>4. ASSUME DlqSkip PROVE TypeOK'
    BY <2>4 DEF DlqSkip, DlqRows, LoopGoesOn, LoopStates
  <2> QED BY <1>4, <2>1, <2>2, <2>3, <2>4 DEF DlqNext
<1>5. ASSUME ConsoleNext PROVE TypeOK'
  <2>1. ASSUME NEW r \in Rows, ManualSelect(r) PROVE TypeOK'
    BY <2>1 DEF ManualSelect, ConsoleStates
  <2>2. ASSUME ManualReset PROVE TypeOK'
    <3> DEFINE t == dlq[console.row].task
    <3>0. t \in Tasks /\ task[t] \in TaskRows
      BY <2>2 DEF ManualReset, LocalsOK
    <3>1. task' \in [Tasks -> TaskRows]
      BY <2>2, <3>0 DEF ManualReset, TaskRows, Statuses
    <3>2. console' \in ConsoleStates
      BY <2>2 DEF ManualReset, ConsoleStates
    <3> QED BY <2>2, <3>1, <3>2 DEF ManualReset
  <2>3. ASSUME ManualResolve PROVE TypeOK'
    <3>1. dlq' \in [Rows -> DlqRows]
      BY <2>3 DEF ManualResolve, DlqRows
    <3>2. nats' \in [Messages -> Nat]
      BY <2>3, PublishType, AvailableKind DEF LocalsOK, ManualResolve
    <3>3. console' \in ConsoleStates
      BY <2>3 DEF ManualResolve, IdleConsole, ConsoleStates
    <3> QED BY <2>3, <3>1, <3>2, <3>3 DEF ManualResolve
  <2>4. ASSUME NEW r \in Rows, PurgeDlq(r) PROVE TypeOK'
    BY <2>4 DEF PurgeDlq, NoEntry, DlqRows
  <2>5. ASSUME NEW t \in Tasks, CancelTask(t) PROVE TypeOK'
    <3>1. task' \in [Tasks -> TaskRows]
      BY <2>5, RowUpdates DEF CancelTask, Statuses
    <3> QED BY <2>5, <3>1 DEF CancelTask
  <2> QED BY <1>5, <2>1, <2>2, <2>3, <2>4, <2>5 DEF ConsoleNext
<1>6. ASSUME AgentNext PROVE TypeOK'
  <2>1. ASSUME NEW t \in Tasks, CreateTask(t) PROVE TypeOK'
    <3>1. task' \in [Tasks -> TaskRows]
      BY <2>1 DEF CreateTask, TaskRows, Statuses
    <3>2. nats' \in [Messages -> Nat]
      BY <2>1, PublishType, AvailableKind DEF CreateTask
    <3> QED BY <2>1, <3>1, <3>2 DEF CreateTask
  <2>2. ASSUME NEW t \in Tasks, NEW a \in Agents, ClaimTask(t, a) PROVE TypeOK'
    <3>1. task' \in [Tasks -> TaskRows]
      BY <2>2, RowUpdates DEF ClaimTask, Claimed, Statuses
    <3> QED BY <2>2, <3>1 DEF ClaimTask, Claimed
  <2>3. ASSUME NEW t \in Tasks, NEW a \in Agents, CompleteTask(t, a) PROVE TypeOK'
    <3>1. task' \in [Tasks -> TaskRows]
      BY <2>3 DEF CompleteTask, TaskRows, Statuses
    <3> QED BY <2>3, <3>1 DEF CompleteTask
  <2>4. ASSUME NEW t \in Tasks, NEW a \in Agents, FailTask(t, a) PROVE TypeOK'
    <3>1. task' \in [Tasks -> TaskRows]
      BY <2>4, RowUpdates DEF FailTask, Statuses
    <3> QED BY <2>4, <3>1 DEF FailTask
  <2>5. ASSUME NEW t \in Tasks, NEW a \in Agents, DeclineTask(t, a) PROVE TypeOK'
    BY <2>5, PublishType, MessageKinds DEF DeclineTask
  <2>6. ASSUME NEW t \in Tasks, NEW a \in Agents, RequestTaskContext(t, a)
        PROVE  TypeOK'
    BY <2>6, PublishType, MessageKinds DEF RequestTaskContext
  <2> QED BY <1>6, <2>1, <2>2, <2>3, <2>4, <2>5, <2>6 DEF AgentNext
<1>7. ASSUME FaultNext PROVE TypeOK'
  <2>1. ASSUME NEW m \in Messages, LoseMessage(m) PROVE TypeOK'
    BY <2>1 DEF LoseMessage, InFlight, Consumed
  <2>2. ASSUME CoordinatorCrash PROVE TypeOK'
    BY <2>2, NumbersAssumption
       DEF CoordinatorCrash, HandlerStates, IdleHandler, LoopStates, IdleLoop
  <2>3. ASSUME NEW h \in Handlers, HandlerFails(h) \/ MarkFails(h) PROVE TypeOK'
    BY <2>3, NumbersAssumption DEF HandlerFails, MarkFails, HandlerStates, IdleHandler
  <2>4. ASSUME DlqFails PROVE TypeOK'
    <3>1. retryLoop' \in LoopStates
      BY <2>4 DEF DlqFails, LoopStates, IdleLoop, LoopGoesOn
    <3>2. nats' \in [Messages -> Nat]
      <4>1. CASE UNCHANGED nats
        BY <4>1
      <4>2. CASE /\ retryLoop.pc = "bump"
                 /\ Publish(Available(dlq[retryLoop.row].task))
        BY <4>2, PublishType, AvailableKind DEF LocalsOK
      <4> QED BY <2>4, <4>1, <4>2 DEF DlqFails
    <3> QED BY <2>4, <3>1, <3>2 DEF DlqFails
  <2>5. ASSUME ManualFails PROVE TypeOK'
    BY <2>5 DEF ManualFails, ConsoleStates, IdleConsole
  <2> QED BY <1>7, <2>1, <2>2, <2>3, <2>4, <2>5 DEF FaultNext
<1>8. ASSUME UNCHANGED vars PROVE TypeOK'
  BY <1>8 DEF vars
<1> QED BY <1>1, <1>2, <1>3, <1>4, <1>5, <1>6, <1>7, <1>8 DEF Next

\* The processes never lose track of the rows they work on: an entry a loop or
\* the console refers to is neither reused nor purged under it.
LEMMA LocalsStep == TypedLocals /\ [Next]_vars => LocalsOK'
<1> SUFFICES ASSUME TypedLocals, [Next]_vars PROVE LocalsOK'
  OBVIOUS
<1> USE DEF TypedLocals, TypeOK, LocalsOK
<1>1. ASSUME NEW h \in Handlers, RouterNext(h) PROVE LocalsOK'
  <2>1. ASSUME NEW t \in Tasks, RouteFetch(h, t) PROVE LocalsOK'
    BY <2>1, NumbersAssumption DEF RouteFetch, Fetched, HandlerStates
  <2>2. ASSUME RouteQuery(h) PROVE LocalsOK'
    BY <2>2 DEF RouteQuery, HandlerStates
  <2>3. ASSUME NEW a \in Agents, RouteClaim(h, a) PROVE LocalsOK'
    BY <2>3 DEF RouteClaim, Claimed, IdleHandler
  <2>4. ASSUME NEW a \in Agents, RouteContention(h, a) PROVE LocalsOK'
    <3> DEFINE left == handler[h].cands \ {a}
               next == handler[h].round + 1
    <3>1. handler[h].round \in 0..ClaimRounds /\ handler[h].round < ClaimRounds
      BY <2>4 DEF RouteContention, HandlerStates
    <3>2. next # ClaimRounds => next < ClaimRounds
      BY <3>1, NumbersAssumption
    <3>3. /\ handler'[h].task = handler[h].task
          /\ handler'[h].round = IF left = {} THEN next ELSE handler[h].round
          /\ handler'[h].pc = IF left # {} THEN "claim"
                              ELSE IF next = ClaimRounds THEN "mark" ELSE "query"
          /\ \A g \in Handlers \ {h} : handler'[g] = handler[g]
      BY <2>4 DEF RouteContention, HandlerStates
    <3>4. handler'[h].task \in Tasks
      BY <2>4, <3>3 DEF RouteContention
    <3> HIDE DEF left, next
    <3>5. handler'[h].pc \in {"query", "claim"} => handler'[h].round < ClaimRounds
      <4>1. CASE left # {}
        BY <3>1, <3>3, <4>1
      <4>2. CASE left = {}
        BY <3>2, <3>3, <4>2
      <4> QED BY <4>1, <4>2
    <3> QED BY <2>4, <3>3, <3>4, <3>5 DEF RouteContention
  <2>5. ASSUME DeadLetterMark(h) PROVE LocalsOK'
    BY <2>5 DEF DeadLetterMark, HandlerStates
  <2>6. ASSUME DeadLetterInsert(h) PROVE LocalsOK'
    BY <2>6 DEF DeadLetterInsert, IdleHandler, DlqRows, LoopStates
  <2> QED BY <1>1, <2>1, <2>2, <2>3, <2>4, <2>5, <2>6 DEF RouterNext
<1>2. ASSUME NegotiationNext PROVE LocalsOK'
  <2>1. ASSUME NEW t \in Tasks, NEW a \in Agents, NEW h \in Handlers,
               HandleDeclined(h, t, a)
        PROVE  LocalsOK'
    BY <2>1 DEF HandleDeclined, HandlerStates
  <2>2. ASSUME NEW t \in Tasks, NEW a \in Agents,
               IgnoreDeclined(t, a) \/ HandleContextRequest(t, a)
        PROVE  LocalsOK'
    BY <2>2 DEF IgnoreDeclined, HandleContextRequest
  <2> QED BY <1>2, <2>1, <2>2 DEF NegotiationNext
<1>3. ASSUME TimeoutNext PROVE LocalsOK'
  BY <1>3 DEF TimeoutNext, TimeoutClaim, TimeoutContextRequest
<1>4. ASSUME DlqNext PROVE LocalsOK'
  <2>1. ASSUME NEW batch \in SUBSET Rows, DlqSelect(batch) PROVE LocalsOK'
    BY <2>1 DEF DlqSelect, Retryable, DlqRows
  <2>2. ASSUME NEW r \in Rows, DlqReset(r) PROVE LocalsOK'
    BY <2>2 DEF DlqReset
  <2>3. ASSUME DlqBump PROVE LocalsOK'
    BY <2>3 DEF DlqBump, LoopGoesOn, DlqRows, LoopStates, ConsoleStates
  <2>4. ASSUME DlqSkip PROVE LocalsOK'
    BY <2>4 DEF DlqSkip, LoopGoesOn, DlqRows, LoopStates, ConsoleStates
  <2> QED BY <1>4, <2>1, <2>2, <2>3, <2>4 DEF DlqNext
<1>5. ASSUME ConsoleNext PROVE LocalsOK'
  <2>1. ASSUME NEW r \in Rows, ManualSelect(r) PROVE LocalsOK'
    BY <2>1 DEF ManualSelect, DlqRows
  <2>2. ASSUME ManualReset PROVE LocalsOK'
    BY <2>2 DEF ManualReset, ConsoleStates
  <2>3. ASSUME ManualResolve PROVE LocalsOK'
    BY <2>3 DEF ManualResolve, IdleConsole, DlqRows, LoopStates
  <2>4. ASSUME NEW r \in Rows, PurgeDlq(r) PROVE LocalsOK'
    BY <2>4 DEF PurgeDlq
  <2>5. ASSUME NEW t \in Tasks, CancelTask(t) PROVE LocalsOK'
    BY <2>5 DEF CancelTask
  <2> QED BY <1>5, <2>1, <2>2, <2>3, <2>4, <2>5 DEF ConsoleNext
<1>6. ASSUME AgentNext PROVE LocalsOK'
  BY <1>6 DEF AgentNext, CreateTask, ClaimTask, Claimed, CompleteTask, FailTask,
              DeclineTask, RequestTaskContext
<1>7. ASSUME FaultNext PROVE LocalsOK'
  <2>1. ASSUME NEW m \in Messages, LoseMessage(m) PROVE LocalsOK'
    BY <2>1 DEF LoseMessage
  <2>2. ASSUME CoordinatorCrash PROVE LocalsOK'
    BY <2>2 DEF CoordinatorCrash, IdleHandler, IdleLoop
  <2>3. ASSUME NEW h \in Handlers, HandlerFails(h) PROVE LocalsOK'
    BY <2>3 DEF HandlerFails, IdleHandler
  <2>4. ASSUME NEW h \in Handlers, MarkFails(h) PROVE LocalsOK'
    BY <2>4 DEF MarkFails, HandlerStates
  <2>5. ASSUME DlqFails PROVE LocalsOK'
    BY <2>5 DEF DlqFails, LoopGoesOn, IdleLoop, LoopStates
  <2>6. ASSUME ManualFails PROVE LocalsOK'
    BY <2>6 DEF ManualFails, IdleConsole
  <2> QED BY <1>7, <2>1, <2>2, <2>3, <2>4, <2>5, <2>6 DEF FaultNext
<1>8. ASSUME UNCHANGED vars PROVE LocalsOK'
  BY <1>8 DEF vars
<1> QED BY <1>1, <1>2, <1>3, <1>4, <1>5, <1>6, <1>7, <1>8 DEF Next

\* Every variable keeps its type, and what a process remembers between two
\* statements stays meaningful: the records a handler copies from a row, the
\* entries the retry loop and the console hold, and all counters.
THEOREM TypeCorrect == Spec => []TypeOK
<1>1. TypedLocals /\ [Next]_vars => TypedLocals'
  BY TypeStep, LocalsStep DEF TypedLocals
<1>2. TypedLocals => TypeOK
  BY DEF TypedLocals
<1> QED BY TypeInit, <1>1, <1>2, PTL DEF Spec

-----------------------------------------------------------------------------
(* No pending task is forgotten.                                           *)

\* What keeps t covered in a step that leaves the row of t alone: no message
\* for t is consumed, and no process gives up working on t.
LEMMA CoverFrame ==
    ASSUME NEW t \in Tasks, Covered(t),
           InFlight(Available(t)) => InFlight(Available(t))',
           \A h \in Handlers :
              handler[h].task = t /\ handler[h].pc \in {"query", "claim", "mark"} =>
                 handler'[h].task = t /\ handler'[h].pc \in {"query", "claim", "mark"},
           retryLoop.pc = "bump" /\ dlq[retryLoop.row].task = t => Covered(t)',
           console.pc = "resolve" /\ dlq[console.row].task = t => Covered(t)'
    PROVE  Covered(t)'
BY DEF Covered

\* The inductive step.  A step that makes a row pending publishes, or leaves
\* the process that will publish (or fail the row) behind; a step that uses
\* up a message or a handler finds the row taken or takes it.
LEMMA CoveredStep ==
    ASSUME ~Faulty, TypedLocals, PendingIsCovered, [Next]_vars
    PROVE  PendingIsCovered'
<1> SUFFICES ASSUME NEW t \in Tasks, task'[t].status = "pending"
             PROVE  Covered(t)'
  BY DEF PendingIsCovered
<1> USE DEF TypedLocals, TypeOK
<1>a. task[t].status = "pending" => Covered(t)
  BY DEF PendingIsCovered
<1>b. Available(t) \in Messages /\ \A u \in Tasks : Available(u) = Available(t) => u = t
  BY AvailableKind
<1>c. \A u \in Tasks, a \in Agents :
         /\ Declined(u, a) \in Messages /\ Declined(u, a) # Available(t)
         /\ ContextRequest(u, a) \in Messages /\ ContextRequest(u, a) # Available(t)
  BY MessageKinds
<1>d. \A u \in Tasks : Available(u) \in Messages
  BY AvailableKind
<1>1. ASSUME NEW h \in Handlers, RouterNext(h) PROVE Covered(t)'
  <2>1. ASSUME NEW u \in Tasks, RouteFetch(h, u) PROVE Covered(t)'
    <3>1. task[t].status = "pending" /\ Covered(t)
      BY <2>1, <1>a DEF RouteFetch, Fetched
    <3>2. CASE u = t
      BY <2>1, <3>1, <3>2 DEF RouteFetch, Fetched, Covered
    <3>3. CASE u # t
      <4>1. nats'[Available(t)] = nats[Available(t)]
        BY <2>1, <3>3, <1>b, <1>d DEF RouteFetch, Consumed
      <4> QED BY <2>1, <3>1, <4>1, CoverFrame DEF RouteFetch, Fetched, InFlight, Covered
    <3> QED BY <3>2, <3>3
  <2>2. ASSUME RouteQuery(h) PROVE Covered(t)'
    <3>1. Covered(t)
      BY <2>2, <1>a DEF RouteQuery
    <3>2. \A g \in Handlers :
            handler[g].task = t /\ handler[g].pc \in {"query", "claim", "mark"} =>
               handler'[g].task = t /\ handler'[g].pc \in {"query", "claim", "mark"}
      BY <2>2 DEF RouteQuery, HandlerStates
    <3> QED BY <2>2, <3>1, <3>2, CoverFrame DEF RouteQuery, InFlight, Covered
  <2>3. ASSUME NEW a \in Agents, RouteClaim(h, a) PROVE Covered(t)'
    <3>1. handler[h].task # t /\ task[t].status = "pending"
      BY <2>3 DEF RouteClaim, Claimed, TaskRows, LocalsOK
    <3>2. Covered(t)
      BY <3>1, <1>a
    <3>3. \A g \in Handlers : handler[g].task = t => handler'[g] = handler[g]
      BY <2>3, <3>1 DEF RouteClaim, Claimed
    <3> QED BY <2>3, <3>2, <3>3, CoverFrame DEF RouteClaim, Claimed, InFlight, Covered
  <2>4. ASSUME NEW a \in Agents, RouteContention(h, a) PROVE Covered(t)'
    <3>1. handler[h].task # t /\ task[t].status = "pending"
      BY <2>4 DEF RouteContention
    <3>2. Covered(t)
      BY <3>1, <1>a
    <3>3. \A g \in Handlers : handler[g].task = t => handler'[g] = handler[g]
      BY <2>4, <3>1 DEF RouteContention
    <3>4. UNCHANGED <<task, dlq, nats, retryLoop, console>>
      BY <2>4 DEF RouteContention
    <3> QED BY <3>2, <3>3, <3>4, CoverFrame DEF InFlight, Covered
  <2>5. ASSUME DeadLetterMark(h) PROVE Covered(t)'
    <3>1. handler[h].task # t /\ task[t].status = "pending"
      BY <2>5 DEF DeadLetterMark, TaskRows, LocalsOK
    <3>2. Covered(t)
      BY <3>1, <1>a
    <3>3. \A g \in Handlers : handler[g].task = t => handler'[g] = handler[g]
      BY <2>5, <3>1 DEF DeadLetterMark
    <3> QED BY <2>5, <3>2, <3>3, CoverFrame DEF DeadLetterMark, InFlight, Covered
  <2>6. ASSUME DeadLetterInsert(h) PROVE Covered(t)'
    <3>1. Covered(t)
      BY <2>6, <1>a DEF DeadLetterInsert
    <3>2. \A g \in Handlers : handler[g].pc # "insert" => handler'[g] = handler[g]
      BY <2>6 DEF DeadLetterInsert
    <3>3. \A r \in Rows : dlq[r].task = t => dlq'[r] = dlq[r]
      BY <2>6, SetsAssumption DEF DeadLetterInsert
    <3>4. retryLoop.pc = "bump" => retryLoop.row \in Rows
      BY DEF LocalsOK
    <3>5. console.pc = "resolve" => console.row \in Rows
      BY DEF LocalsOK
    <3> QED BY <2>6, <3>1, <3>2, <3>3, <3>4, <3>5, CoverFrame
            DEF DeadLetterInsert, InFlight, Covered
  <2> QED BY <1>1, <2>1, <2>2, <2>3, <2>4, <2>5, <2>6 DEF RouterNext
<1>2. ASSUME NegotiationNext PROVE Covered(t)'
  <2>1. ASSUME NEW u \in Tasks, NEW a \in Agents, NEW h \in Handlers,
               HandleDeclined(h, u, a)
        PROVE  Covered(t)'
    <3>1. CASE u = t /\ task[u].declines + 1 >= MaxDeclines
      <4>1. handler'[h].task = t /\ handler'[h].pc = "mark"
        BY <2>1, <3>1 DEF HandleDeclined, HandlerStates
      <4> QED BY <4>1 DEF Covered
    <3>2. CASE u = t /\ ~(task[u].declines + 1 >= MaxDeclines)
      <4>1. nats' = [Consumed(Declined(t, a)) EXCEPT ![Available(t)] = @ + 1]
        BY <2>1, <3>2 DEF HandleDeclined
      <4>2. Consumed(Declined(t, a))[Available(t)] \in Nat
        BY <1>b, <1>c DEF Consumed
      <4>3. nats'[Available(t)] > 0
        BY <4>1, <4>2, <1>b DEF Consumed
      <4> QED BY <4>3 DEF Covered, InFlight
    <3>3. CASE u # t
      <4>1. Covered(t)
        BY <2>1, <3>3, <1>a DEF HandleDeclined
      <4>2. nats'[Available(t)] = nats[Available(t)]
        BY <2>1, <3>3, <1>b, <1>c, <1>d DEF HandleDeclined, Consumed
      <4>3. \A g \in Handlers : handler[g].pc # "idle" => handler'[g] = handler[g]
        BY <2>1 DEF HandleDeclined
      <4> QED BY <2>1, <4>1, <4>2, <4>3, CoverFrame
              DEF HandleDeclined, InFlight, Covered
    <3> QED BY <3>1, <3>2, <3>3
  <2>2. ASSUME NEW u \in Tasks, NEW a \in Agents, IgnoreDeclined(u, a)
        PROVE  Covered(t)'
    <3>1. nats'[Available(t)] = nats[Available(t)]
      BY <2>2, <1>b, <1>c DEF IgnoreDeclined, Consumed
    <3> QED BY <2>2, <3>1, <1>a DEF IgnoreDeclined, InFlight, Covered
  <2>3. ASSUME NEW u \in Tasks, NEW a \in Agents, HandleContextRequest(u, a)
        PROVE  Covered(t)'
    <3>1. nats'[Available(t)] = nats[Available(t)]
      BY <2>3, <1>b, <1>c DEF HandleContextRequest, Consumed
    <3>2. task[t].status = "pending"
      BY <2>3 DEF HandleContextRequest, TaskRows
    <3> QED BY <2>3, <3>1, <3>2, <1>a DEF HandleContextRequest, InFlight, Covered
  <2> QED BY <1>2, <2>1, <2>2, <2>3 DEF NegotiationNext
<1>3. ASSUME NEW u \in Tasks, Publish(Available(u)),
             UNCHANGED <<dlq, handler, retryLoop, console>>,
             u # t => task'[t] = task[t]
      PROVE  Covered(t)'
  <2>1. CASE u = t
    BY <1>3, <2>1, <1>b DEF Publish, Covered, InFlight
  <2>2. CASE u # t
    <3>1. nats'[Available(t)] = nats[Available(t)]
      BY <1>3, <2>2, <1>b, <1>d DEF Publish
    <3> QED BY <1>3, <2>2, <3>1, <1>a DEF InFlight, Covered
  <2> QED BY <2>1, <2>2
<1>4. ASSUME TimeoutNext PROVE Covered(t)'
  BY <1>3, <1>4 DEF TimeoutNext, TimeoutClaim, TimeoutContextRequest
<1>5. ASSUME DlqNext PROVE Covered(t)'
  <2>1. ASSUME NEW batch \in SUBSET Rows, DlqSelect(batch) PROVE Covered(t)'
    BY <2>1, <1>a DEF DlqSelect, Covered, InFlight
  <2>2. ASSUME NEW r \in Rows, DlqReset(r) PROVE Covered(t)'
    <3>1. CASE dlq[r].task = t /\ task[t].status = "failed"
      BY <2>2, <3>1 DEF DlqReset, Covered
    <3>2. CASE ~(dlq[r].task = t /\ task[t].status = "failed")
      <4>1. task[t].status = "pending"
        BY <2>2, <3>2 DEF DlqReset, LocalsOK, TaskRows
      <4> QED BY <2>2, <4>1, <1>a DEF DlqReset, Covered, InFlight
    <3> QED BY <3>1, <3>2
  <2>3. ASSUME DlqBump PROVE Covered(t)'
    <3> DEFINE r == retryLoop.row
    <3>1. r \in Rows /\ dlq[r].task \in Tasks
      BY <2>3 DEF DlqBump, LocalsOK
    <3>2. CASE dlq[r].task = t
      BY <2>3, <3>2, <1>b DEF DlqBump, Publish, Covered, InFlight
    <3>3. CASE dlq[r].task # t
      <4>1. nats'[Available(t)] = nats[Available(t)]
        BY <2>3, <3>1, <3>3, <1>b, <1>d DEF DlqBump, Publish
      <4>2. \A q \in Rows : dlq'[q].task = dlq[q].task
        BY <2>3 DEF DlqBump, DlqRows
      <4>3. console.pc = "resolve" => console.row \in Rows
        BY DEF LocalsOK
      <4> QED BY <2>3, <3>3, <4>1, <4>2, <4>3, <1>a DEF DlqBump, Covered, InFlight
    <3> QED BY <3>2, <3>3
  <2>4. ASSUME DlqSkip PROVE Covered(t)'
    <3>1. \A q \in Rows : dlq'[q].task = dlq[q].task
      BY <2>4 DEF DlqSkip, DlqRows
    <3>2. console.pc = "resolve" => console.row \in Rows
      BY DEF LocalsOK
    <3> QED BY <2>4, <3>1, <3>2, <1>a DEF DlqSkip, Covered, InFlight
  <2> QED BY <1>5, <2>1, <2>2, <2>3, <2>4 DEF DlqNext
<1>6. ASSUME ConsoleNext PROVE Covered(t)'
  <2>1. ASSUME NEW r \in Rows, ManualSelect(r) PROVE Covered(t)'
    BY <2>1, <1>a DEF ManualSelect, Covered, InFlight
  <2>2. ASSUME ManualReset PROVE Covered(t)'
    <3>1. CASE dlq[console.row].task = t
      BY <2>2, <3>1 DEF ManualReset, Covered, ConsoleStates
    <3>2. CASE dlq[console.row].task # t
      <4>1. task'[t] = task[t]
        BY <2>2, <3>2 DEF ManualReset, LocalsOK
      <4> QED BY <2>2, <4>1, <1>a DEF ManualReset, Covered, InFlight
    <3> QED BY <3>1, <3>2
  <2>3. ASSUME ManualResolve PROVE Covered(t)'
    <3> DEFINE r == console.row
    <3>1. r \in Rows /\ dlq[r].task \in Tasks
      BY <2>3 DEF ManualResolve, LocalsOK
    <3>2. CASE dlq[r].task = t
      BY <2>3, <3>2, <1>b DEF ManualResolve, Publish, Covered, InFlight
    <3>3. CASE dlq[r].task # t
      <4>1. nats'[Available(t)] = nats[Available(t)]
        BY <2>3, <3>1, <3>3, <1>b, <1>d DEF ManualResolve, Publish
      <4>2. \A q \in Rows : dlq'[q].task = dlq[q].task
        BY <2>3 DEF ManualResolve, DlqRows
      <4>3. retryLoop.pc = "bump" => retryLoop.row \in Rows
        BY DEF LocalsOK
      <4> QED BY <2>3, <3>3, <4>1, <4>2, <4>3, <1>a
              DEF ManualResolve, Covered, InFlight
    <3> QED BY <3>2, <3>3
  <2>4. ASSUME NEW r \in Rows, PurgeDlq(r) PROVE Covered(t)'
    BY <2>4, <1>a DEF PurgeDlq, Covered, InFlight
  <2>5. ASSUME NEW u \in Tasks, CancelTask(u) PROVE Covered(t)'
    <3>1. task[t].status = "pending"
      BY <2>5 DEF CancelTask, TaskRows
    <3> QED BY <2>5, <3>1, <1>a DEF CancelTask, Covered, InFlight
  <2> QED BY <1>6, <2>1, <2>2, <2>3, <2>4, <2>5 DEF ConsoleNext
<1>7. ASSUME AgentNext PROVE Covered(t)'
  <2>1. ASSUME NEW u \in Tasks, CreateTask(u) PROVE Covered(t)'
    BY <2>1, <1>3 DEF CreateTask
  <2>2. ASSUME NEW u \in Tasks, NEW a \in Agents,
               ClaimTask(u, a) \/ CompleteTask(u, a) \/ FailTask(u, a)
        PROVE  Covered(t)'
    <3>1. task[t].status = "pending"
      BY <2>2 DEF ClaimTask, Claimed, CompleteTask, FailTask, TaskRows
    <3> QED BY <2>2, <3>1, <1>a
            DEF ClaimTask, Claimed, CompleteTask, FailTask, Covered, InFlight
  <2>3. ASSUME NEW u \in Tasks, NEW a \in Agents,
               DeclineTask(u, a) \/ RequestTaskContext(u, a)
        PROVE  Covered(t)'
    <3>1. nats'[Available(t)] = nats[Available(t)]
      BY <2>3, <1>b, <1>c DEF DeclineTask, RequestTaskContext, Publish
    <3> QED BY <2>3, <3>1, <1>a DEF DeclineTask, RequestTaskContext, Covered, InFlight
  <2> QED BY <1>7, <2>1, <2>2, <2>3 DEF AgentNext
<1>8. ASSUME FaultNext PROVE Covered(t)'
  BY <1>8 DEF FaultNext, LoseMessage, CoordinatorCrash, HandlerFails, MarkFails,
         DlqFails, ManualFails
<1>9. ASSUME UNCHANGED vars PROVE Covered(t)'
  BY <1>9, <1>a DEF vars, Covered, InFlight
<1> QED BY <1>1, <1>2, <1>4, <1>5, <1>6, <1>7, <1>8, <1>9 DEF Next

\* While no message is lost and the coordinator stays up, every pending task is
\* awaited by a message, a handler or a retry: nothing is ever stranded in
\* 'pending', for any number of tasks, agents, handlers and entries.
THEOREM NoPendingTaskIsForgotten == Spec => []PendingIsCovered
<1>1. Init => IInv
  <2>1. Init => PendingIsCovered
    BY DEF Init, PendingIsCovered
  <2> QED BY TypeInit, <2>1 DEF IInv, TypedLocals
<1>2. IInv /\ [Next]_vars => IInv'
  <2> SUFFICES ASSUME IInv, [Next]_vars PROVE IInv'
    OBVIOUS
  <2>1. TypedLocals
    BY DEF IInv, TypedLocals
  <2>2. TypeOK' /\ LocalsOK'
    BY <2>1, TypeStep, LocalsStep
  <2>3. CASE Faulty
    BY <2>2, <2>3 DEF IInv, PendingIsCovered
  <2>4. CASE ~Faulty
    BY <2>1, <2>2, <2>4, CoveredStep DEF IInv
  <2> QED BY <2>3, <2>4
<1>3. IInv => PendingIsCovered
  BY DEF IInv
<1> QED BY <1>1, <1>2, <1>3, PTL DEF Spec

-----------------------------------------------------------------------------
(* What a step of the queue may do to a row: TaskQueue implements TaskLife, *)
(* a completed task and a holder are kept.                                 *)

\* A row a handler or a dead-letter entry names exists.
PresentOK ==
    /\ \A h \in Handlers :
         handler[h].pc # "idle" => task[handler[h].task].status # "absent"
    /\ \A r \in Rows : dlq[r].task \in Tasks => task[dlq[r].task].status # "absent"

LInv == TypedLocals /\ PresentOK

\* The rows a step changes, and how: either none, or one row in one of the
\* ways TaskLife names.
Step(t) ==
    \/ Life!Create(t) \/ Life!Claim(t) \/ Life!Release(t) \/ Life!Pause(t)
    \/ Life!Complete(t) \/ Life!Fail(t) \/ Life!Abandon(t) \/ Life!Retry(t)
    \/ Life!Override(t)

LEMMA LifeMove ==
    ASSUME NEW t \in Tasks, NEW from, NEW to, task \in [Tasks -> TaskRows],
           LifeOf(task[t].status) \in from,
           task' \in [Tasks -> TaskRows],
           LifeOf(task'[t].status) = to,
           \A u \in Tasks \ {t} : task'[u] = task[u]
    PROVE  Life!Move(t, from, to)
<1> DEFINE life == [u \in Tasks |-> LifeOf(task[u].status)]
           next == [u \in Tasks |-> LifeOf(task'[u].status)]
<1>1. next = [life EXCEPT ![t] = to]
  <2>1. \A u \in Tasks : next[u] = [life EXCEPT ![t] = to][u]
    OBVIOUS
  <2> QED BY <2>1
<1>2. life[t] \in from
  OBVIOUS
<1> QED BY <1>1, <1>2 DEF Life!Move

LEMMA PresentInit == Init => PresentOK
BY SetsAssumption DEF Init, PresentOK, IdleHandler, NoEntry

\* Every action but those of the two retry paths moves one row as TaskLife
\* says; the retry paths do because their entries name rows that exist.
LEMMA StepIsLife ==
    ASSUME LInv, Next
    PROVE  UNCHANGED task \/ \E t \in Tasks : Step(t)
<1> USE DEF LInv, TypedLocals
<1>0. TypeOK' /\ LocalsOK'
  BY TypeStep, LocalsStep
<1>a. task \in [Tasks -> TaskRows] /\ task' \in [Tasks -> TaskRows]
  BY <1>0 DEF TypeOK
<1>1. ASSUME NEW h \in Handlers, RouterNext(h)
      PROVE  UNCHANGED task \/ \E t \in Tasks : Step(t)
  <2>1. ASSUME NEW a \in Agents, RouteClaim(h, a)
        PROVE  \E t \in Tasks : Step(t)
    <3> DEFINE t == handler[h].task
    <3>1. t \in Tasks /\ task[t].status = "pending"
      BY <2>1 DEF RouteClaim, LocalsOK
    <3>0. /\ task[t] \in TaskRows
          /\ task' = [task EXCEPT ![t].status = "claimed", ![t].agent = a]
      BY <2>1, <3>1, <1>a DEF RouteClaim, Claimed
    <3>2. /\ task'[t].status = "claimed"
          /\ \A u \in Tasks \ {t} : task'[u] = task[u]
      BY <3>0, <3>1, <1>a DEF TaskRows
    <3>3. Life!Claim(t)
      BY <3>1, <3>2, <1>a, LifeMove DEF Life!Claim, LifeOf, Held
    <3> QED BY <3>1, <3>3 DEF Step
  <2>2. ASSUME DeadLetterMark(h)
        PROVE  UNCHANGED task \/ \E t \in Tasks : Step(t)
    <3> DEFINE t == handler[h].task
    <3>1. t \in Tasks
      BY <2>2 DEF DeadLetterMark, LocalsOK
    <3>2. CASE task[t].status = "pending"
      <4>0. /\ task[t] \in TaskRows
            /\ task' = [task EXCEPT ![t].status = "failed", ![t].by = "deadletter"]
        BY <2>2, <3>1, <3>2, <1>a DEF DeadLetterMark
      <4>1. /\ task'[t].status = "failed"
            /\ \A u \in Tasks \ {t} : task'[u] = task[u]
        BY <4>0, <3>1, <1>a DEF TaskRows
      <4>2. Life!Abandon(t)
        BY <3>1, <3>2, <4>1, <1>a, LifeMove DEF Life!Abandon, LifeOf, Held
      <4> QED BY <3>1, <4>2 DEF Step
    <3>3. CASE task[t].status # "pending"
      BY <2>2, <3>3 DEF DeadLetterMark
    <3> QED BY <3>2, <3>3
  <2> QED BY <1>1, <2>1, <2>2
          DEF RouterNext, RouteFetch, RouteQuery, RouteContention, DeadLetterInsert
<1>2. ASSUME NegotiationNext
      PROVE  UNCHANGED task \/ \E t \in Tasks : Step(t)
  <2>1. ASSUME NEW t \in Tasks, NEW a \in Agents, NEW h \in Handlers,
               HandleDeclined(h, t, a)
        PROVE  Step(t)
    <3>1. /\ task[t].status \in Held
          /\ task'[t].status = "pending"
          /\ \A u \in Tasks \ {t} : task'[u] = task[u]
      BY <2>1, <1>a DEF HandleDeclined, TaskRows
    <3>2. Life!Release(t)
      BY <3>1, <1>a, LifeMove DEF Life!Release, LifeOf, Held
    <3> QED BY <3>2 DEF Step
  <2>2. ASSUME NEW t \in Tasks, NEW a \in Agents, HandleContextRequest(t, a)
        PROVE  UNCHANGED task \/ Step(t)
    <3>1. CASE task[t].status \in Held /\ "context_requested" \in SchemaStatuses
      <4>1. /\ task'[t].status = "context_requested"
            /\ \A u \in Tasks \ {t} : task'[u] = task[u]
        BY <2>2, <3>1, <1>a DEF HandleContextRequest, TaskRows
      <4>2. Life!Pause(t)
        BY <3>1, <4>1, <1>a, LifeMove DEF Life!Pause, LifeOf, Held
      <4> QED BY <4>2 DEF Step
    <3>2. CASE ~(task[t].status \in Held /\ "context_requested" \in SchemaStatuses)
      BY <2>2, <3>2 DEF HandleContextRequest
    <3> QED BY <3>1, <3>2
  <2> QED BY <1>2, <2>1, <2>2 DEF NegotiationNext, IgnoreDeclined
<1>3. ASSUME TimeoutNext PROVE \E t \in Tasks : Step(t)
  <2>1. PICK t \in Tasks : TimeoutClaim(t) \/ TimeoutContextRequest(t)
    BY <1>3 DEF TimeoutNext
  <2>2. /\ task[t].status \in Held \cup {"context_requested"}
        /\ task'[t].status = "pending"
        /\ \A u \in Tasks \ {t} : task'[u] = task[u]
    BY <2>1, <1>a DEF TimeoutClaim, TimeoutContextRequest, TaskRows
  <2>3. Life!Release(t)
    BY <2>2, <1>a, LifeMove DEF Life!Release, LifeOf, Held
  <2> QED BY <2>3 DEF Step
<1>4. ASSUME DlqNext PROVE UNCHANGED task \/ \E t \in Tasks : Step(t)
  <2>1. ASSUME NEW r \in Rows, DlqReset(r)
        PROVE  UNCHANGED task \/ \E t \in Tasks : Step(t)
    <3> DEFINE t == dlq[r].task
    <3>1. t \in Tasks
      BY <2>1 DEF DlqReset, LocalsOK
    <3>2. CASE task[t].status = "failed"
      <4>1. /\ task'[t].status = "pending"
            /\ \A u \in Tasks \ {t} : task'[u] = task[u]
        BY <2>1, <3>1, <3>2, <1>a DEF DlqReset, TaskRows
      <4>2. Life!Retry(t)
        BY <3>1, <3>2, <4>1, <1>a, LifeMove DEF Life!Retry, LifeOf, Held
      <4> QED BY <3>1, <4>2 DEF Step
    <3>3. CASE task[t].status # "failed"
      BY <2>1, <3>3 DEF DlqReset
    <3> QED BY <3>2, <3>3
  <2> QED BY <1>4, <2>1 DEF DlqNext, DlqSelect, DlqBump, DlqSkip
<1>5. ASSUME ConsoleNext PROVE UNCHANGED task \/ \E t \in Tasks : Step(t)
  <2>1. ASSUME ManualReset PROVE \E t \in Tasks : Step(t)
    <3> DEFINE t == dlq[console.row].task
    <3>1. t \in Tasks /\ task[t].status # "absent"
      BY <2>1 DEF ManualReset, LocalsOK, PresentOK
    <3>2. /\ task'[t].status = "pending"
          /\ \A u \in Tasks \ {t} : task'[u] = task[u]
      <4>1. task[t] \in TaskRows
        BY <3>1, <1>a
      <4> QED BY <2>1, <3>1, <4>1, <1>a DEF ManualReset, TaskRows
    <3>3. LifeOf(task[t].status) \in Life!Lives \ {"absent"}
      BY <3>1, <1>a DEF LifeOf, Held, Life!Lives, TaskRows, Statuses
    <3>4. Life!Override(t)
      BY <3>1, <3>2, <3>3, <1>a, LifeMove DEF Life!Override, LifeOf, Held
    <3> QED BY <3>1, <3>4 DEF Step
  <2>2. ASSUME NEW t \in Tasks, CancelTask(t) PROVE Step(t)
    <3>1. /\ task[t].status \in {"pending", "claimed"}
          /\ task'[t].status = "failed"
          /\ \A u \in Tasks \ {t} : task'[u] = task[u]
      BY <2>2, <1>a DEF CancelTask, TaskRows
    <3>2. Life!Abandon(t)
      BY <3>1, <1>a, LifeMove DEF Life!Abandon, LifeOf, Held
    <3> QED BY <3>2 DEF Step
  <2> QED BY <1>5, <2>1, <2>2 DEF ConsoleNext, ManualSelect, ManualResolve, PurgeDlq
<1>6. ASSUME AgentNext PROVE UNCHANGED task \/ \E t \in Tasks : Step(t)
  <2>1. ASSUME NEW t \in Tasks, CreateTask(t) PROVE Step(t)
    <3>1. /\ task[t].status = "absent" /\ task'[t].status = "pending"
          /\ \A u \in Tasks \ {t} : task'[u] = task[u]
      BY <2>1, <1>a DEF CreateTask, TaskRows
    <3>2. Life!Create(t)
      BY <3>1, <1>a, LifeMove DEF Life!Create, LifeOf, Held
    <3> QED BY <3>2 DEF Step
  <2>2. ASSUME NEW t \in Tasks, NEW a \in Agents, ClaimTask(t, a) PROVE Step(t)
    <3>1. /\ task[t].status = "pending" /\ task'[t].status = "claimed"
          /\ \A u \in Tasks \ {t} : task'[u] = task[u]
      BY <2>2, <1>a DEF ClaimTask, Claimed, TaskRows
    <3>2. Life!Claim(t)
      BY <3>1, <1>a, LifeMove DEF Life!Claim, LifeOf, Held
    <3> QED BY <3>2 DEF Step
  <2>3. ASSUME NEW t \in Tasks, NEW a \in Agents, CompleteTask(t, a) PROVE Step(t)
    <3>1. /\ task[t].status \in Held /\ task'[t].status = "completed"
          /\ \A u \in Tasks \ {t} : task'[u] = task[u]
      BY <2>3, <1>a DEF CompleteTask, HeldBy, TaskRows
    <3>2. Life!Complete(t)
      BY <3>1, <1>a, LifeMove DEF Life!Complete, LifeOf, Held
    <3> QED BY <3>2 DEF Step
  <2>4. ASSUME NEW t \in Tasks, NEW a \in Agents, FailTask(t, a) PROVE Step(t)
    <3>1. /\ task[t].status \in Held /\ task'[t].status = "failed"
          /\ \A u \in Tasks \ {t} : task'[u] = task[u]
      BY <2>4, <1>a DEF FailTask, HeldBy, TaskRows
    <3>2. Life!Fail(t)
      BY <3>1, <1>a, LifeMove DEF Life!Fail, LifeOf, Held
    <3> QED BY <3>2 DEF Step
  <2> QED BY <1>6, <2>1, <2>2, <2>3, <2>4
          DEF AgentNext, DeclineTask, RequestTaskContext
<1>7. ASSUME FaultNext PROVE UNCHANGED task
  BY <1>7 DEF FaultNext, LoseMessage, CoordinatorCrash, HandlerFails, MarkFails,
         DlqFails, ManualFails
<1> QED BY <1>1, <1>2, <1>3, <1>4, <1>5, <1>6, <1>7 DEF Next
LEMMA StaysPresent ==
    ASSUME LInv, Next
    PROVE  \A t \in Tasks : task[t].status # "absent" => task'[t].status # "absent"
<1> SUFFICES ASSUME NEW t \in Tasks, task[t].status # "absent"
             PROVE  task'[t].status # "absent"
  OBVIOUS
<1>1. CASE UNCHANGED task
  BY <1>1
<1>2. CASE \E u \in Tasks : Step(u)
  <2> PICK u \in Tasks : Step(u)
    BY <1>2
  <2> DEFINE life == [v \in Tasks |-> LifeOf(task[v].status)]
             next == [v \in Tasks |-> LifeOf(task'[v].status)]
  <2>1. PICK to \in Life!Lives \ {"absent"} : next = [life EXCEPT ![u] = to]
    BY DEF Step, Life!Lives, Life!Move, Life!Create, Life!Claim, Life!Release,
           Life!Pause, Life!Complete, Life!Fail, Life!Abandon, Life!Retry, Life!Override
  <2>2. next[t] = life[t] \/ next[t] = to
    BY <2>1
  <2>3. life[t] # "absent"
    BY DEF LifeOf, Held
  <2>4. next[t] = LifeOf(task'[t].status)
    OBVIOUS
  <2>5. next[t] # "absent"
    BY <2>2, <2>3
  <2> HIDE DEF next, life
  <2> QED BY <2>4, <2>5 DEF LifeOf, Held
<1> QED BY <1>1, <1>2, StepIsLife

\* A handler or an entry only ever comes to name a row that was there.
LEMMA PresentStep == LInv /\ [Next]_vars => PresentOK'
<1> SUFFICES ASSUME LInv, [Next]_vars PROVE PresentOK'
  OBVIOUS
<1>1. CASE UNCHANGED vars
  BY <1>1 DEF vars, LInv, PresentOK
<1>2. CASE Next
  <2>0. TypeOK' /\ LocalsOK' /\ TypedLocals /\ PresentOK
    BY <1>2, TypeStep, LocalsStep DEF LInv
  <2>1. \A t \in Tasks : task[t].status # "absent" => task'[t].status # "absent"
    BY <1>2, StaysPresent
  <2>2. \A h \in Handlers :
          handler'[h].pc # "idle" =>
             \/ handler[h].pc # "idle" /\ handler'[h].task = handler[h].task
             \/ task[handler'[h].task].status # "absent"
    <3> SUFFICES ASSUME NEW h \in Handlers, handler'[h].pc # "idle",
                        handler'[h] # handler[h]
                 PROVE  \/ handler[h].pc # "idle" /\ handler'[h].task = handler[h].task
                        \/ task[handler'[h].task].status # "absent"
      OBVIOUS
    <3> USE <2>0 DEF TypedLocals, TypeOK, IdleHandler
    <3>1. ASSUME NEW g \in Handlers, RouterNext(g), g # h PROVE FALSE
      BY <3>1 DEF RouterNext, RouteFetch, RouteQuery, RouteClaim, RouteContention,
                  DeadLetterMark, DeadLetterInsert
    <3>2. ASSUME NEW t \in Tasks, RouteFetch(h, t)
          PROVE  task[handler'[h].task].status # "absent"
      BY <3>2 DEF RouteFetch, Fetched
    <3>3. ASSUME RouteQuery(h) \/ \E a \in Agents : RouteContention(h, a)
          PROVE  handler[h].pc # "idle" /\ handler'[h].task = handler[h].task
      <4>1. ASSUME RouteQuery(h)
            PROVE  handler[h].pc # "idle" /\ handler'[h].task = handler[h].task
        <5>1. PICK E \in EligibleSets :
                handler' = [handler EXCEPT
                  ![h].cands = E \ handler[h].seen,
                  ![h].pc = IF E \subseteq handler[h].seen THEN "mark" ELSE "claim"]
          BY <4>1 DEF RouteQuery
        <5> DEFINE pc == IF E \subseteq handler[h].seen THEN "mark" ELSE "claim"
                   cands == E \ handler[h].seen
        <5>3. handler' = [handler EXCEPT ![h].cands = cands, ![h].pc = pc]
          BY <5>1
        <5> HIDE DEF pc, cands
        <5>2. handler'[h].task = handler[h].task
          BY <5>3 DEF HandlerStates
        <5> QED BY <4>1, <5>2 DEF RouteQuery
      <4>2. ASSUME NEW a \in Agents, RouteContention(h, a)
            PROVE  handler[h].pc # "idle" /\ handler'[h].task = handler[h].task
        BY <4>2 DEF RouteContention, HandlerStates
      <4> QED BY <3>3, <4>1, <4>2
    <3>11. ASSUME DeadLetterMark(h)
           PROVE  handler[h].pc # "idle" /\ handler'[h].task = handler[h].task
      BY <3>11 DEF DeadLetterMark, HandlerStates
    <3>12. ASSUME DeadLetterInsert(h) \/ \E a \in Agents : RouteClaim(h, a)
           PROVE  FALSE
      BY <3>12 DEF DeadLetterInsert, RouteClaim
    <3>4. ASSUME NEW g \in Handlers, NEW t \in Tasks, NEW a \in Agents,
                 HandleDeclined(g, t, a)
          PROVE  task[handler'[h].task].status # "absent"
      BY <3>4 DEF HandleDeclined, HandlerStates, Held
    <3>5. ASSUME UNCHANGED handler PROVE FALSE
      BY <3>5
    <3>6. CASE \E g \in Handlers : RouterNext(g)
      BY <3>6, <3>1, <3>2, <3>3, <3>11, <3>12 DEF RouterNext
    <3>7. CASE NegotiationNext
      BY <3>7, <3>4, <3>5 DEF NegotiationNext, IgnoreDeclined, HandleContextRequest
    <3>8. CASE TimeoutNext \/ DlqNext \/ ConsoleNext
      BY <3>8, <3>5
         DEF TimeoutNext, TimeoutClaim, TimeoutContextRequest, DlqNext, DlqSelect,
             DlqReset, DlqBump, DlqSkip, ConsoleNext, ManualSelect, ManualReset,
             ManualResolve, PurgeDlq, CancelTask
    <3>9. CASE AgentNext
      BY <3>9, <3>5 DEF AgentNext, CreateTask, ClaimTask, CompleteTask, FailTask,
                        DeclineTask, RequestTaskContext
    <3>10. CASE FaultNext
      <4>1. ASSUME NEW g \in Handlers, HandlerFails(g) PROVE FALSE
        BY <4>1 DEF HandlerFails
      <4>2. ASSUME NEW g \in Handlers, MarkFails(g)
            PROVE  handler[h].pc # "idle" /\ handler'[h].task = handler[h].task
        BY <4>2 DEF MarkFails, HandlerStates
      <4>3. ASSUME CoordinatorCrash PROVE FALSE
        BY <4>3 DEF CoordinatorCrash
      <4> QED BY <3>10, <3>5, <4>1, <4>2, <4>3
              DEF FaultNext, LoseMessage, DlqFails, ManualFails
    <3> QED BY <1>2, <3>6, <3>7, <3>8, <3>9, <3>10 DEF Next
  <2>3. \A r \in Rows :
          dlq'[r].task \in Tasks =>
             \/ dlq'[r].task = dlq[r].task
             \/ \E h \in Handlers : handler[h].pc # "idle" /\ dlq'[r].task = handler[h].task
    <3> SUFFICES ASSUME NEW r \in Rows, dlq'[r].task \in Tasks,
                        dlq'[r].task # dlq[r].task
                 PROVE  \E h \in Handlers : handler[h].pc # "idle"
                                            /\ dlq'[r].task = handler[h].task
      OBVIOUS
    <3> USE <2>0 DEF TypedLocals, TypeOK
    <3>1. ASSUME NEW h \in Handlers, DeadLetterInsert(h)
          PROVE  handler[h].pc # "idle" /\ dlq'[r].task = handler[h].task
      BY <3>1 DEF DeadLetterInsert, DlqRows
    <3>2. ASSUME DlqNext PROVE FALSE
      <4>1. ASSUME DlqBump PROVE FALSE
        BY <4>1 DEF DlqBump, DlqRows
      <4>2. ASSUME DlqSkip PROVE FALSE
        BY <4>2 DEF DlqSkip, DlqRows
      <4>3. ASSUME UNCHANGED dlq PROVE FALSE
        BY <4>3
      <4> QED BY <3>2, <4>1, <4>2, <4>3 DEF DlqNext, DlqSelect, DlqReset
    <3>3. ASSUME ConsoleNext PROVE FALSE
      <4>1. ASSUME ManualResolve PROVE FALSE
        BY <4>1 DEF ManualResolve, DlqRows
      <4>2. ASSUME NEW q \in Rows, PurgeDlq(q) PROVE FALSE
        BY <4>2, SetsAssumption DEF PurgeDlq, DlqRows, NoEntry
      <4>3. ASSUME UNCHANGED dlq PROVE FALSE
        BY <4>3
      <4> QED BY <3>3, <4>1, <4>2, <4>3
              DEF ConsoleNext, ManualSelect, ManualReset, CancelTask
    <3>4. ASSUME UNCHANGED dlq PROVE FALSE
      BY <3>4
    <3>5. CASE \E h \in Handlers : RouterNext(h)
      <4>1. ASSUME NEW h \in Handlers, NEW t \in Tasks, RouteFetch(h, t) PROVE FALSE
        BY <3>4, <4>1 DEF RouteFetch
      <4>2. ASSUME NEW h \in Handlers, RouteQuery(h) PROVE FALSE
        BY <3>4, <4>2 DEF RouteQuery
      <4>3. ASSUME NEW h \in Handlers, NEW a \in Agents,
                   RouteClaim(h, a) \/ RouteContention(h, a)
            PROVE  FALSE
        BY <3>4, <4>3 DEF RouteClaim, RouteContention
      <4>4. ASSUME NEW h \in Handlers, DeadLetterMark(h) PROVE FALSE
        BY <3>4, <4>4 DEF DeadLetterMark
      <4> QED BY <3>5, <3>1, <4>1, <4>2, <4>3, <4>4 DEF RouterNext
    <3>6. CASE NegotiationNext \/ TimeoutNext
      <4>1. CASE NegotiationNext
        <5>1. ASSUME NEW t \in Tasks, NEW a \in Agents, NEW h \in Handlers,
                     HandleDeclined(h, t, a)
              PROVE  FALSE
          BY <3>4, <5>1 DEF HandleDeclined
        <5>2. ASSUME NEW t \in Tasks, NEW a \in Agents,
                     IgnoreDeclined(t, a) \/ HandleContextRequest(t, a)
              PROVE  FALSE
          BY <3>4, <5>2 DEF IgnoreDeclined, HandleContextRequest
        <5> QED BY <4>1, <5>1, <5>2 DEF NegotiationNext
      <4>2. CASE TimeoutNext
        BY <3>4, <4>2 DEF TimeoutNext, TimeoutClaim, TimeoutContextRequest
      <4> QED BY <3>6, <4>1, <4>2
    <3>7. CASE AgentNext
      BY <3>7, <3>4 DEF AgentNext, CreateTask, ClaimTask, CompleteTask, FailTask,
                        DeclineTask, RequestTaskContext
    <3>8. CASE FaultNext
      BY <3>8, <3>4 DEF FaultNext, LoseMessage, CoordinatorCrash, HandlerFails, MarkFails,
         DlqFails, ManualFails
    <3> QED BY <1>2, <3>2, <3>3, <3>5, <3>6, <3>7, <3>8 DEF Next
  <2>4. \A h \in Handlers : handler'[h].pc # "idle" => handler'[h].task \in Tasks
    BY <2>0 DEF LocalsOK
  <2>5. \A h \in Handlers : handler[h].pc # "idle" => handler[h].task \in Tasks
    BY <2>0 DEF TypedLocals, LocalsOK
  <2> QED BY <2>0, <2>1, <2>2, <2>3, <2>4, <2>5 DEF PresentOK
<1> QED BY <1>1, <1>2

LEMMA LInvInvariant == Spec => []LInv
<1>1. Init => LInv
  BY TypeInit, PresentInit DEF LInv
<1>2. LInv /\ [Next]_vars => LInv'
  BY TypeStep, LocalsStep, PresentStep DEF LInv, TypedLocals
<1> QED BY <1>1, <1>2, PTL DEF Spec

-----------------------------------------------------------------------------
\* The queue, with its concurrent handlers, loops, tools, lost messages and
\* crashes, implements TaskLife for every value of the constants: a row is
\* claimed only when pending, completed only while held, failed only when
\* pending or held.
THEOREM QueueImplementsTaskLife == Spec => ImplementsTaskLife
<1>1. Init => Life!Init
  BY DEF Init, Life!Init, LifeOf, Held
<1>2. LInv /\ [Next]_vars =>
        [Life!Next]_[t \in Tasks |-> LifeOf(task[t].status)]
  <2> SUFFICES ASSUME LInv, [Next]_vars
               PROVE  [Life!Next]_[t \in Tasks |-> LifeOf(task[t].status)]
    OBVIOUS
  <2>1. CASE UNCHANGED vars \/ UNCHANGED task
    BY <2>1 DEF vars
  <2>2. CASE \E t \in Tasks : Step(t)
    BY <2>2 DEF Step, Life!Next
  <2> QED BY <2>1, <2>2, StepIsLife
<1> QED BY <1>1, <1>2, LInvInvariant, PTL DEF Spec, ImplementsTaskLife, Life!Spec

\* No stale handler, loop, message or tool takes a task out of 'completed';
\* the operator's manual retry is the one statement that can.
THEOREM CompletionIsKept == Spec => CompletedIsKept
<1> DEFINE A == \A t \in Tasks :
                  task[t].status = "completed" /\ task'[t].status # "completed" =>
                     console.pc = "reset" /\ dlq[console.row].task = t
<1>1. LInv /\ [Next]_vars => [A]_vars
  <2> SUFFICES ASSUME LInv, Next, NEW t \in Tasks, task[t].status = "completed",
                      task'[t].status # "completed"
               PROVE  console.pc = "reset" /\ dlq[console.row].task = t
    OBVIOUS
  <2> USE DEF LInv, TypedLocals, TypeOK
  <2>1. ASSUME NEW h \in Handlers, RouterNext(h) PROVE FALSE
    BY <2>1 DEF RouterNext, RouteFetch, RouteQuery, RouteClaim, Claimed,
                RouteContention, DeadLetterMark, DeadLetterInsert, LocalsOK, TaskRows
  <2>2. ASSUME NegotiationNext \/ TimeoutNext PROVE FALSE
    <3>1. ASSUME NEW u \in Tasks, NEW a \in Agents, NEW h \in Handlers,
                 HandleDeclined(h, u, a)
          PROVE  FALSE
      BY <3>1 DEF HandleDeclined, Held, TaskRows
    <3>2. ASSUME NEW u \in Tasks, NEW a \in Agents, HandleContextRequest(u, a)
          PROVE  FALSE
      BY <3>2 DEF HandleContextRequest, Held, TaskRows
    <3>3. ASSUME NEW u \in Tasks, TimeoutClaim(u) \/ TimeoutContextRequest(u)
          PROVE  FALSE
      BY <3>3 DEF TimeoutClaim, TimeoutContextRequest, Held, TaskRows
    <3>4. ASSUME UNCHANGED task PROVE FALSE
      BY <3>4
    <3> QED BY <2>2, <3>1, <3>2, <3>3, <3>4
            DEF NegotiationNext, IgnoreDeclined, TimeoutNext
  <2>3. ASSUME DlqNext PROVE FALSE
    BY <2>3 DEF DlqNext, DlqSelect, DlqReset, DlqBump, DlqSkip, LocalsOK, TaskRows
  <2>4. ASSUME ManualReset PROVE console.pc = "reset" /\ dlq[console.row].task = t
    BY <2>4 DEF ManualReset, LocalsOK, TaskRows
  <2>5. ASSUME ConsoleNext, ~ManualReset PROVE FALSE
    BY <2>5 DEF ConsoleNext, ManualSelect, ManualResolve, PurgeDlq, CancelTask, TaskRows
  <2>6. ASSUME AgentNext \/ FaultNext PROVE FALSE
    BY <2>6 DEF AgentNext, CreateTask, ClaimTask, Claimed, CompleteTask, FailTask,
                HeldBy, Held, DeclineTask, RequestTaskContext, FaultNext, LoseMessage,
                CoordinatorCrash, HandlerFails, MarkFails, DlqFails, ManualFails, TaskRows
  <2> QED BY <2>1, <2>2, <2>3, <2>4, <2>5, <2>6 DEF Next
<1> QED BY <1>1, LInvInvariant, PTL DEF Spec, CompletedIsKept

\* However many routers and agents race for a task, its holder changes only
\* after a release, and a late dead-letter mark never fails a held task.
THEOREM HolderKept == Spec => HolderIsKept
<1> DEFINE A == \A t \in Tasks :
                  task[t].status \in Held =>
                     /\ task'[t].status \in Held => task'[t].agent = task[t].agent
                     /\ task'[t].status = "failed" => task'[t].by # "deadletter"
<1>1. LInv /\ [Next]_vars => [A]_vars
  <2> SUFFICES ASSUME LInv, Next, NEW t \in Tasks, task[t].status \in Held
               PROVE  /\ task'[t].status \in Held => task'[t].agent = task[t].agent
                      /\ task'[t].status = "failed" => task'[t].by # "deadletter"
    OBVIOUS
  <2> DEFINE Kept == /\ task'[t].status \in Held => task'[t].agent = task[t].agent
                     /\ task'[t].status = "failed" => task'[t].by # "deadletter"
  <2>0. UNCHANGED task => Kept
    BY DEF Held
  <2> USE DEF LInv, TypedLocals, TypeOK
  <2>1. ASSUME NEW h \in Handlers, RouterNext(h) PROVE Kept
    BY <2>0, <2>1 DEF RouterNext, RouteFetch, RouteQuery, RouteClaim, Claimed, Held,
                RouteContention, DeadLetterMark, DeadLetterInsert, LocalsOK, TaskRows
  <2>2. ASSUME NegotiationNext PROVE Kept
    <3>1. ASSUME NEW u \in Tasks, NEW a \in Agents, NEW h \in Handlers,
                 HandleDeclined(h, u, a)
          PROVE  Kept
      BY <2>0, <3>1 DEF HandleDeclined, Held, TaskRows
    <3>2. ASSUME NEW u \in Tasks, NEW a \in Agents, HandleContextRequest(u, a)
          PROVE  Kept
      BY <2>0, <3>2 DEF HandleContextRequest, Held, TaskRows
    <3> QED BY <2>0, <2>2, <3>1, <3>2 DEF NegotiationNext, IgnoreDeclined
  <2>5. ASSUME TimeoutNext PROVE Kept
    BY <2>0, <2>5 DEF TimeoutNext, TimeoutClaim, TimeoutContextRequest, Held, TaskRows
  <2>3. ASSUME DlqNext PROVE Kept
    BY <2>0, <2>3
       DEF DlqNext, DlqSelect, DlqReset, DlqBump, DlqSkip, LocalsOK, TaskRows, Held
  <2>6. ASSUME ConsoleNext PROVE Kept
    <3>1. ASSUME ManualReset PROVE Kept
      BY <2>0, <3>1 DEF ManualReset, LocalsOK, Held, TaskRows
    <3>2. ASSUME NEW u \in Tasks, CancelTask(u) PROVE Kept
      BY <2>0, <3>2 DEF CancelTask, Held, TaskRows
    <3> QED BY <2>0, <2>6, <3>1, <3>2
            DEF ConsoleNext, ManualSelect, ManualResolve, PurgeDlq
  <2>4. ASSUME AgentNext \/ FaultNext PROVE Kept
    <3>1. ASSUME NEW u \in Tasks, CreateTask(u) PROVE Kept
      BY <2>0, <3>1 DEF CreateTask, Held, TaskRows
    <3>2. ASSUME NEW u \in Tasks, NEW a \in Agents, ClaimTask(u, a) PROVE Kept
      BY <2>0, <3>2 DEF ClaimTask, Claimed, Held, TaskRows
    <3>3. ASSUME NEW u \in Tasks, NEW a \in Agents, CompleteTask(u, a) PROVE Kept
      BY <2>0, <3>3 DEF CompleteTask, HeldBy, Held, TaskRows
    <3>4. ASSUME NEW u \in Tasks, NEW a \in Agents, FailTask(u, a) PROVE Kept
      BY <2>0, <3>4 DEF FailTask, HeldBy, Held, TaskRows
    <3> QED BY <2>0, <2>4, <3>1, <3>2, <3>3, <3>4
            DEF AgentNext, DeclineTask, RequestTaskContext, FaultNext, LoseMessage,
                CoordinatorCrash, HandlerFails, MarkFails, DlqFails, ManualFails
  <2> QED BY <2>1, <2>2, <2>3, <2>4, <2>5, <2>6 DEF Next
<1> QED BY <1>1, LInvInvariant, PTL DEF Spec, HolderIsKept
-----------------------------------------------------------------------------
(* What publish_dead_letter has failed can be retried.                     *)

DeadLettered(t) == task[t].status = "failed" /\ task[t].by = "deadletter"

\* An entry of t with attempts left that neither the retry loop nor the manual
\* retry is about to count, skip or resolve: they have reset a task for the
\* entry they hold, so what they hold is no entry of a task that failed since.
SafeEntry(t, r) ==
    /\ dlq[r].task = t /\ Retryable(r)
    /\ retryLoop.pc \in {"bump", "skip"} => retryLoop.row # r
    /\ console.pc = "resolve" => console.row # r

Recoverable(t) ==
    \/ \E h \in Handlers : handler[h].task = t /\ handler[h].pc = "insert"
    \/ \E r \in Rows : SafeEntry(t, r)

DeadLettersOK == ~Faulty => \A t \in Tasks : DeadLettered(t) => Recoverable(t)

\* Only the first statement of publish_dead_letter makes a task dead-lettered.
LEMMA OnlyMarkDeadLetters ==
    ASSUME ~Faulty, TypedLocals, Next, NEW t \in Tasks, DeadLettered(t)'
    PROVE  \/ DeadLettered(t) /\ task'[t] = task[t]
           \/ \E h \in Handlers : DeadLetterMark(h) /\ handler[h].task = t
<1> USE DEF TypedLocals, TypeOK, DeadLettered
<1> DEFINE Same == DeadLettered(t) /\ task'[t] = task[t]
<1>1. task' = task => Same
  OBVIOUS
<1>2. ASSUME NEW h \in Handlers, RouterNext(h), ~(DeadLetterMark(h) /\ handler[h].task = t)
      PROVE  Same
  <2>1. ASSUME NEW a \in Agents, RouteClaim(h, a) PROVE Same
    BY <2>1, <1>1 DEF RouteClaim, Claimed, LocalsOK, TaskRows
  <2>2. ASSUME DeadLetterMark(h) PROVE Same
    BY <2>2, <1>1, <1>2 DEF DeadLetterMark, LocalsOK, TaskRows
  <2> QED BY <1>1, <1>2, <2>1, <2>2
          DEF RouterNext, RouteFetch, RouteQuery, RouteContention, DeadLetterInsert
<1>3. ASSUME NegotiationNext \/ TimeoutNext PROVE Same
  <2>1. ASSUME NEW u \in Tasks, NEW a \in Agents, NEW h \in Handlers,
               HandleDeclined(h, u, a)
        PROVE  Same
    BY <2>1 DEF HandleDeclined, TaskRows
  <2>2. ASSUME NEW u \in Tasks, NEW a \in Agents, HandleContextRequest(u, a)
        PROVE  Same
    BY <2>2, <1>1 DEF HandleContextRequest, TaskRows
  <2>3. ASSUME NEW u \in Tasks, TimeoutClaim(u) \/ TimeoutContextRequest(u)
        PROVE  Same
    BY <2>3 DEF TimeoutClaim, TimeoutContextRequest, TaskRows
  <2> QED BY <1>1, <1>3, <2>1, <2>2, <2>3 DEF NegotiationNext, IgnoreDeclined, TimeoutNext
<1>4. ASSUME DlqNext PROVE Same
  <2>1. ASSUME NEW r \in Rows, DlqReset(r) PROVE Same
    BY <2>1, <1>1 DEF DlqReset, LocalsOK, TaskRows
  <2> QED BY <1>1, <1>4, <2>1 DEF DlqNext, DlqSelect, DlqBump, DlqSkip
<1>5. ASSUME ConsoleNext PROVE Same
  <2>1. ASSUME ManualReset PROVE Same
    BY <2>1 DEF ManualReset, LocalsOK, TaskRows
  <2>2. ASSUME NEW u \in Tasks, CancelTask(u) PROVE Same
    BY <2>2 DEF CancelTask, TaskRows
  <2> QED BY <1>1, <1>5, <2>1, <2>2 DEF ConsoleNext, ManualSelect, ManualResolve, PurgeDlq
<1>6. ASSUME AgentNext PROVE Same
  <2>1. ASSUME NEW u \in Tasks, CreateTask(u) PROVE Same
    BY <2>1 DEF CreateTask, TaskRows
  <2>2. ASSUME NEW u \in Tasks, NEW a \in Agents,
               ClaimTask(u, a) \/ CompleteTask(u, a) \/ FailTask(u, a)
        PROVE  Same
    BY <2>2 DEF ClaimTask, Claimed, CompleteTask, FailTask, TaskRows
  <2> QED BY <1>1, <1>6, <2>1, <2>2 DEF AgentNext, DeclineTask, RequestTaskContext
<1>7. ASSUME FaultNext PROVE Same
  BY <1>7 DEF FaultNext, LoseMessage, CoordinatorCrash, HandlerFails, MarkFails,
         DlqFails, ManualFails
<1> QED BY <1>2, <1>3, <1>4, <1>5, <1>6, <1>7 DEF Next

\* The handler that is about to insert, and the entry that is there, outlive
\* every step that leaves the task dead-lettered.
LEMMA RecoveryStays ==
    ASSUME ~Faulty, TypedLocals, Next, NEW t \in Tasks,
           DeadLettered(t), task'[t] = task[t], Recoverable(t)
    PROVE  Recoverable(t)'
<1> USE DEF TypedLocals, TypeOK
<1>1. ASSUME NEW h \in Handlers, DeadLetterInsert(h) PROVE Recoverable(t)'
  <2>1. PICK r \in Rows :
          /\ dlq[r].task = NoTask
          /\ dlq' = [dlq EXCEPT ![r] = [task |-> handler[h].task, count |-> 0,
                                        resolved |-> FALSE]]
    BY <1>1 DEF DeadLetterInsert
  <2>2. \A q \in Rows : SafeEntry(t, q) => SafeEntry(t, q)'
    BY <1>1, <2>1, SetsAssumption DEF DeadLetterInsert, SafeEntry, Retryable
  <2>3. handler[h].task = t => SafeEntry(t, r)'
    BY <1>1, <2>1, SetsAssumption, NumbersAssumption
       DEF DeadLetterInsert, SafeEntry, Retryable, LocalsOK
  <2>4. \A g \in Handlers \ {h} : handler'[g] = handler[g]
    BY <1>1 DEF DeadLetterInsert
  <2> QED BY <2>2, <2>3, <2>4 DEF Recoverable
<1>2. ASSUME ~\E h \in Handlers : DeadLetterInsert(h)
      PROVE  \A h \in Handlers : handler[h].task = t /\ handler[h].pc = "insert" =>
                handler'[h].task = t /\ handler'[h].pc = "insert"
  <2>1. ASSUME NEW h \in Handlers, RouterNext(h), NEW g \in Handlers, handler[g].pc = "insert"
        PROVE  handler'[g] = handler[g]
    BY <1>2, <2>1 DEF RouterNext, RouteFetch, RouteQuery, RouteClaim, RouteContention,
                      DeadLetterMark
  <2>2. ASSUME NegotiationNext, NEW g \in Handlers, handler[g].pc = "insert"
        PROVE  handler'[g] = handler[g]
    <3>1. ASSUME NEW u \in Tasks, NEW a \in Agents, NEW h \in Handlers,
                 HandleDeclined(h, u, a)
          PROVE  handler'[g] = handler[g]
      <4>1. h # g
        BY <2>2, <3>1 DEF HandleDeclined
      <4> QED BY <3>1, <4>1 DEF HandleDeclined
    <3>2. ASSUME NEW u \in Tasks, NEW a \in Agents,
                 IgnoreDeclined(u, a) \/ HandleContextRequest(u, a)
          PROVE  handler'[g] = handler[g]
      BY <3>2 DEF IgnoreDeclined, HandleContextRequest
    <3> QED BY <2>2, <3>1, <3>2 DEF NegotiationNext
  <2>3. ASSUME TimeoutNext \/ DlqNext \/ ConsoleNext \/ AgentNext
        PROVE  handler' = handler
    BY <2>3 DEF TimeoutNext, TimeoutClaim, TimeoutContextRequest,
                DlqNext, DlqSelect, DlqReset, DlqBump, DlqSkip,
                ConsoleNext, ManualSelect, ManualReset, ManualResolve, PurgeDlq, CancelTask,
                AgentNext, CreateTask, ClaimTask, CompleteTask, FailTask, DeclineTask,
                RequestTaskContext
  <2>4. ~FaultNext
    BY DEF FaultNext, LoseMessage, CoordinatorCrash, HandlerFails, MarkFails,
         DlqFails, ManualFails
  <2> QED BY <2>1, <2>2, <2>3, <2>4 DEF Next
<1>3. ASSUME ~\E h \in Handlers : DeadLetterInsert(h), NEW r \in Rows, SafeEntry(t, r)
      PROVE  SafeEntry(t, r)'
  <2> USE DEF SafeEntry, Retryable
  <2>1. ASSUME UNCHANGED <<dlq, retryLoop, console>> PROVE SafeEntry(t, r)'
    BY <1>3, <2>1
  <2>2. ASSUME NEW q \in Rows, DlqReset(q) PROVE SafeEntry(t, r)'
    <3>1. q # r
      BY <2>2, <1>3 DEF DlqReset, DeadLettered, TaskRows
    <3> QED BY <2>2, <3>1, <1>3 DEF DlqReset
  <2>3. ASSUME DlqBump \/ DlqSkip PROVE SafeEntry(t, r)'
    <3>1. retryLoop.row \in Rows /\ retryLoop.row # r
      BY <2>3, <1>3 DEF DlqBump, DlqSkip, LocalsOK
    <3>2. dlq'[r] = dlq[r] /\ console' = console /\ retryLoop'.pc \in {"idle", "scan"}
      BY <2>3, <3>1 DEF DlqBump, DlqSkip, LoopGoesOn
    <3> QED BY <1>3, <3>2
  <2>4. ASSUME NEW batch \in SUBSET Rows, DlqSelect(batch) PROVE SafeEntry(t, r)'
    BY <2>4, <1>3 DEF DlqSelect
  <2>5. ASSUME NEW q \in Rows, ManualSelect(q) PROVE SafeEntry(t, r)'
    BY <2>5, <1>3 DEF ManualSelect
  <2>6. ASSUME ManualReset PROVE SafeEntry(t, r)'
    <3>1. console.row # r
      BY <2>6, <1>3 DEF ManualReset, DeadLettered, TaskRows
    <3> QED BY <2>6, <3>1, <1>3 DEF ManualReset, ConsoleStates
  <2>7. ASSUME ManualResolve PROVE SafeEntry(t, r)'
    <3>1. console.row # r /\ console.row \in Rows
      BY <2>7, <1>3 DEF ManualResolve, LocalsOK
    <3> QED BY <2>7, <3>1, <1>3 DEF ManualResolve, IdleConsole
  <2>8. ASSUME NEW q \in Rows, PurgeDlq(q) PROVE SafeEntry(t, r)'
    <3>1. q # r
      BY <2>8, <1>3 DEF PurgeDlq
    <3> QED BY <2>8, <3>1, <1>3 DEF PurgeDlq
  <2>9. ASSUME \/ \E h \in Handlers : RouterNext(h)
               \/ NegotiationNext \/ TimeoutNext \/ AgentNext
               \/ \E u \in Tasks : CancelTask(u)
        PROVE  UNCHANGED <<dlq, retryLoop, console>>
    <3>1. ASSUME NEW h \in Handlers, RouterNext(h) PROVE UNCHANGED <<dlq, retryLoop, console>>
      BY <1>3, <3>1 DEF RouterNext, RouteFetch, RouteQuery, RouteClaim, RouteContention,
                        DeadLetterMark
    <3>2. ASSUME NegotiationNext PROVE UNCHANGED <<dlq, retryLoop, console>>
      BY <3>2 DEF NegotiationNext, HandleDeclined, IgnoreDeclined, HandleContextRequest
    <3>3. ASSUME TimeoutNext PROVE UNCHANGED <<dlq, retryLoop, console>>
      BY <3>3 DEF TimeoutNext, TimeoutClaim, TimeoutContextRequest
    <3>4. ASSUME AgentNext PROVE UNCHANGED <<dlq, retryLoop, console>>
      BY <3>4 DEF AgentNext, CreateTask, ClaimTask, CompleteTask, FailTask, DeclineTask,
                  RequestTaskContext
    <3>5. ASSUME NEW u \in Tasks, CancelTask(u) PROVE UNCHANGED <<dlq, retryLoop, console>>
      BY <3>5 DEF CancelTask
    <3> QED BY <2>9, <3>1, <3>2, <3>3, <3>4, <3>5
  <2>10. ~FaultNext
    BY DEF FaultNext, LoseMessage, CoordinatorCrash, HandlerFails, MarkFails,
         DlqFails, ManualFails
  <2> QED BY <2>1, <2>2, <2>3, <2>4, <2>5, <2>6, <2>7, <2>8, <2>9, <2>10
          DEF Next, DlqNext, ConsoleNext
<1> QED BY <1>1, <1>2, <1>3 DEF Recoverable

LEMMA DeadLettersStep == TypedLocals /\ DeadLettersOK /\ [Next]_vars => DeadLettersOK'
<1> SUFFICES ASSUME TypedLocals, DeadLettersOK, [Next]_vars, ~Faulty,
                    NEW t \in Tasks, DeadLettered(t)'
             PROVE  Recoverable(t)'
  BY DEF DeadLettersOK
<1>1. CASE UNCHANGED vars
  BY <1>1 DEF vars, DeadLettersOK, DeadLettered, Recoverable, SafeEntry, Retryable
<1>2. ASSUME Next, DeadLettered(t), task'[t] = task[t] PROVE Recoverable(t)'
  BY <1>2, RecoveryStays DEF DeadLettersOK
<1>3. ASSUME NEW h \in Handlers, DeadLetterMark(h), handler[h].task = t
      PROVE  Recoverable(t)'
  BY <1>3 DEF DeadLetterMark, Recoverable, TypedLocals, TypeOK, HandlerStates
<1> QED BY <1>1, <1>2, <1>3, OnlyMarkDeadLetters

\* While nothing is lost, a task that publish_dead_letter failed has an entry
\* with attempts left, or a handler about to insert one, for any number of
\* tasks, routers and entries: skips, exhausted entries, manual retries and
\* purges only ever spend an entry whose task was reset for it before.
THEOREM DeadLettersAreRecoverable == Spec => []DeadLetteredIsRecoverable
<1> DEFINE Inv == TypedLocals /\ DeadLettersOK
<1>1. Init => Inv
  BY TypeInit DEF Init, DeadLettersOK, DeadLettered
<1>2. Inv /\ [Next]_vars => Inv'
  BY TypeStep, LocalsStep, DeadLettersStep DEF TypedLocals
<1>3. Inv => DeadLetteredIsRecoverable
  BY DEF DeadLettersOK, DeadLetteredIsRecoverable, DeadLettered, Recoverable, SafeEntry
<1> HIDE DEF Inv
<1> QED BY <1>1, <1>2, <1>3, PTL DEF Spec
=============================================================================
