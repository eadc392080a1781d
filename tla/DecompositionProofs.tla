------------------------- MODULE DecompositionProofs -------------------------
(* Proofs about Decomposition, for any number of sub-tasks and handlers and *)
(* whatever the schema accepts.                                             *)
EXTENDS Decomposition, FiniteSetTheorems, TLAPS

\* What a row of the queue may be in here.
RowLives == Queue!Lives \cup {"decomposed"}

\* A router that inserts has something left to insert.
LocalsOK == \A h \in Handlers : handler[h].pc = "insert" => handler[h].todo > 0

Routes(h) == handler[h].pc \in {"insert", "mark", "route"}

\* As long as no agent meddled and nothing was lost, the parent has one router
\* at most, the one that has its message or will have it.
OneRouter ==
    mishaps = {} =>
      /\ \A g, h \in Handlers : Routes(g) /\ Routes(h) => g = h
      /\ Available \in nats => \A h \in Handlers : ~Routes(h)
      /\ Available \in nats \/ (\E h \in Handlers : Routes(h))
           => row[Parent] \in {"pending", "completed"}

DInv == TypeOK /\ LocalsOK /\ OneRouter /\ ParentIsNotForgotten

-----------------------------------------------------------------------------
(* The moves of TaskLife and of the handlers.                               *)

LEMMA MoveRow ==
    ASSUME row \in [Rows -> RowLives], NEW t \in Rows, NEW from, NEW to \in RowLives,
           Queue!Move(t, from, to)
    PROVE  /\ row' \in [Rows -> RowLives]
           /\ row[t] \in from /\ row'[t] = to
           /\ \A u \in Rows \ {t} : row'[u] = row[u]
BY DEF Queue!Move

LEMMA QueueMoves ==
    ASSUME row \in [Rows -> RowLives], NEW t \in Rows
    PROVE  /\ Queue!Create(t) => Queue!Move(t, {"absent"}, "pending")
           /\ Queue!Claim(t) => Queue!Move(t, {"pending"}, "held")
           /\ Queue!Complete(t) => Queue!Move(t, {"held"}, "completed")
           /\ Queue!Abandon(t) => Queue!Move(t, {"pending", "held"}, "failed")
           /\ Queue!Release(t) \/ Queue!Retry(t)
                => Queue!Move(t, {"held", "paused", "failed"}, "pending")
BY DEF Queue!Create, Queue!Claim, Queue!Complete, Queue!Abandon, Queue!Release,
       Queue!Retry, Queue!Move

LEMMA LivesOf ==
    {"absent", "pending", "held", "completed", "failed", "decomposed"} \subseteq RowLives
BY DEF RowLives, Queue!Lives

LEMMA HandlerParts ==
    ASSUME handler \in [Handlers -> HandlerStates], NEW h \in Handlers
    PROVE  /\ handler[h].pc \in {"idle", "insert", "mark", "route", "count", "close", "publish"}
           /\ handler[h].todo \in Nat
           /\ handler[h] \in HandlerStates
BY FS_CardinalityType, DecompositionAssumption DEF HandlerStates

\* A handler that goes on.
LEMMA MovesType ==
    ASSUME handler \in [Handlers -> HandlerStates], NEW h \in Handlers,
           NEW pc \in {"idle", "insert", "mark", "route", "count", "close", "publish"},
           Moves(h, pc)
    PROVE  /\ handler' \in [Handlers -> HandlerStates]
           /\ handler'[h].pc = pc
           /\ \A g \in Handlers \ {h} : handler'[g] = handler[g]
BY DEF Moves, HandlerStates

LEMMA EndsType ==
    ASSUME handler \in [Handlers -> HandlerStates], NEW h \in Handlers, Ends(h)
    PROVE  /\ handler' \in [Handlers -> HandlerStates]
           /\ handler'[h].pc = "idle"
           /\ \A g \in Handlers \ {h} : handler'[g] = handler[g]
<1>1. Cardinality(Children) \in Nat
  BY FS_CardinalityType, DecompositionAssumption
<1>2. Idle \in HandlerStates
  BY <1>1 DEF Idle, HandlerStates
<1> QED BY <1>2 DEF Ends, Idle

LEMMA MessagesDiffer ==
    /\ Available \in Messages
    /\ \A t \in Rows : Completed(t) \in Messages /\ Completed(t) # Available
    /\ \A t, u \in Rows : Completed(t) = Completed(u) => t = u
BY DEF Available, Completed, Messages

LEMMA ParentIsNoChild == Parent \in Rows /\ Children \subseteq Rows /\ Parent \notin Children
BY DecompositionAssumption DEF Rows

-----------------------------------------------------------------------------
(* What each action of a handler does to its record.                        *)

LEMMA FetchEffect ==
    ASSUME TypeOK, NEW h \in Handlers, Fetch(h)
    PROVE  /\ Available \in nats /\ nats' = nats \ {Available}
           /\ row' = row /\ mishaps' = mishaps
           /\ handler[h].pc = "idle"
           /\ handler' \in [Handlers -> HandlerStates]
           /\ \A g \in Handlers \ {h} : handler'[g] = handler[g]
           /\ IF row[Parent] = "pending"
                THEN /\ handler'[h].pc \in {"insert", "route"}
                     /\ handler'[h].pc = "insert" => handler'[h].todo > 0
                ELSE handler' = handler
<1> USE DEF TypeOK
<1>1. /\ Available \in nats /\ nats' = nats \ {Available}
      /\ row' = row /\ mishaps' = mishaps /\ handler[h].pc = "idle"
  BY DEF Fetch, Receive
<1>2. CASE row[Parent] = "pending" /\ Moves(h, "route")
  BY <1>1, <1>2, MovesType
<1>3. CASE /\ row[Parent] = "pending"
           /\ \E n \in 2..Cardinality(Children \ Inserted) :
                handler' = [handler EXCEPT ![h] = [pc |-> "insert", todo |-> n]]
  <2>1. PICK n \in 2..Cardinality(Children \ Inserted) :
               handler' = [handler EXCEPT ![h] = [pc |-> "insert", todo |-> n]]
    BY <1>3
  <2>2. /\ Cardinality(Children \ Inserted) \in Nat /\ Cardinality(Children) \in Nat
        /\ Cardinality(Children \ Inserted) <= Cardinality(Children)
    BY FS_Subset, FS_CardinalityType, DecompositionAssumption
  <2>3. n \in 0..Cardinality(Children) /\ n > 0
    BY <2>2
  <2>4. [pc |-> "insert", todo |-> n] \in HandlerStates
    BY <2>3 DEF HandlerStates
  <2> QED BY <1>1, <1>3, <2>1, <2>3, <2>4
<1>4. CASE row[Parent] # "pending"
  BY <1>1, <1>4 DEF Fetch
<1> QED BY <1>1, <1>2, <1>3, <1>4 DEF Fetch

LEMMA InsertEffect ==
    ASSUME TypeOK, LocalsOK, NEW h \in Handlers, InsertChild(h)
    PROVE  /\ nats' = nats /\ mishaps' = mishaps
           /\ handler[h].pc = "insert" /\ handler'[h].pc \in {"insert", "mark"}
           /\ handler' \in [Handlers -> HandlerStates]
           /\ handler'[h].pc = "insert" => handler'[h].todo > 0
           /\ \A g \in Handlers \ {h} : handler'[g] = handler[g]
           /\ \E c \in Children : Queue!Move(c, {"absent"}, "pending")
<1> USE DEF TypeOK
<1> DEFINE n == handler[h].todo
           next == IF n = 1 THEN [pc |-> "mark", todo |-> 0]
                            ELSE [pc |-> "insert", todo |-> n - 1]
<1>1. Cardinality(Children) \in Nat
  BY FS_CardinalityType, DecompositionAssumption
<1>2. /\ nats' = nats /\ mishaps' = mishaps /\ handler[h].pc = "insert"
      /\ \E c \in Children : Queue!Move(c, {"absent"}, "pending")
  BY DEF InsertChild, Queue!Create
<1>3. n \in 0..Cardinality(Children) /\ n > 0 /\ handler[h] = [pc |-> "insert", todo |-> n]
  BY <1>2 DEF HandlerStates, LocalsOK
<1>5. handler' = [handler EXCEPT ![h] = next]
  <2>1. CASE n = 1
    BY <2>1 DEF InsertChild
  <2>2. CASE n # 1
    <3>1. handler' = [handler EXCEPT ![h] = [handler[h] EXCEPT !.todo = n - 1]]
      BY <2>2 DEF InsertChild
    <3>2. [handler[h] EXCEPT !.todo = n - 1] = next
      BY <1>3, <2>2
    <3> QED BY <3>1, <3>2
  <2> QED BY <2>1, <2>2
<1>4. /\ next \in HandlerStates /\ next.pc \in {"insert", "mark"}
      /\ next.pc = "insert" => next.todo > 0
  <2>1. CASE n = 1
    BY <2>1, <1>1 DEF HandlerStates
  <2>2. CASE n # 1
    <3>1. n - 1 \in 0..Cardinality(Children) /\ n - 1 > 0
      BY <2>2, <1>1, <1>3
    <3> QED BY <3>1, <2>2 DEF HandlerStates
  <2> QED BY <2>1, <2>2
<1> HIDE DEF n, next
<1> QED BY <1>2, <1>4, <1>5

LEMMA MarkEffect ==
    ASSUME TypeOK, NEW h \in Handlers, MarkDecomposed(h)
    PROVE  /\ nats' = nats /\ mishaps' = mishaps
           /\ handler[h].pc = "mark"
           /\ handler' \in [Handlers -> HandlerStates]
           /\ \A g \in Handlers \ {h} : handler'[g] = handler[g]
           /\ \/ row' = row /\ handler'[h].pc = "route"
              \/ row' = row /\ row[Parent] # "pending" /\ handler'[h].pc = "idle"
              \/ /\ row[Parent] = "pending" /\ row' = [row EXCEPT ![Parent] = "decomposed"]
                 /\ handler'[h].pc = "idle"
BY MovesType, EndsType DEF MarkDecomposed, TypeOK

LEMMA SplitFailsEffect ==
    ASSUME TypeOK, NEW h \in Handlers, SplitFails(h)
    PROVE  /\ row' = row /\ nats' = nats /\ mishaps' = mishaps
           /\ handler[h].pc \in {"insert", "mark"} /\ handler'[h].pc = "route"
           /\ handler' \in [Handlers -> HandlerStates]
           /\ \A g \in Handlers \ {h} : handler'[g] = handler[g]
<1>1. [pc |-> "route", todo |-> 0] \in HandlerStates
  BY FS_CardinalityType, DecompositionAssumption DEF HandlerStates
<1> QED BY <1>1 DEF SplitFails, TypeOK

LEMMA AnswerEffect ==
    ASSUME TypeOK, NEW h \in Handlers, HandleAnswer(h)
    PROVE  /\ row' = row /\ nats' = nats /\ mishaps' = mishaps
           /\ handler[h].pc = "idle" /\ handler'[h].pc = "count"
           /\ handler' \in [Handlers -> HandlerStates]
           /\ \A g \in Handlers \ {h} : handler'[g] = handler[g]
BY MovesType DEF HandleAnswer, TypeOK

LEMMA RouteEffect ==
    ASSUME TypeOK, NEW h \in Handlers, RouteParent(h)
    PROVE  /\ nats' = nats /\ mishaps' = mishaps
           /\ handler[h].pc = "route" /\ handler'[h].pc = "idle"
           /\ handler' \in [Handlers -> HandlerStates]
           /\ \A g \in Handlers \ {h} : handler'[g] = handler[g]
           /\ \/ row[Parent] = "pending" /\ row' = [row EXCEPT ![Parent] = "held"]
              \/ row[Parent] # "pending" /\ row' = row
BY EndsType DEF RouteParent, TypeOK, Queue!Claim, Queue!Move

LEMMA HandleCompletedEffect ==
    ASSUME TypeOK, NEW h \in Handlers, NEW t \in Rows, HandleCompleted(h, t)
    PROVE  /\ nats' = nats \ {Completed(t)} /\ row' = row /\ mishaps' = mishaps
           /\ handler[h].pc = "idle"
           /\ handler' \in [Handlers -> HandlerStates]
           /\ \A g \in Handlers \ {h} : handler'[g] = handler[g]
           /\ IF t = Parent THEN handler' = handler ELSE handler'[h].pc = "count"
BY MovesType DEF HandleCompleted, Receive, TypeOK

LEMMA CountEffect ==
    ASSUME TypeOK, NEW h \in Handlers, CountChildren(h)
    PROVE  /\ nats' = nats /\ row' = row /\ mishaps' = mishaps
           /\ handler[h].pc = "count"
           /\ handler' \in [Handlers -> HandlerStates]
           /\ \A g \in Handlers \ {h} : handler'[g] = handler[g]
           /\ handler'[h].pc = IF AllDone THEN "close" ELSE "idle"
BY MovesType, EndsType DEF CountChildren, TypeOK

LEMMA CloseEffect ==
    ASSUME TypeOK, NEW h \in Handlers, CloseParent(h)
    PROVE  /\ nats' = nats /\ mishaps' = mishaps
           /\ handler[h].pc = "close" /\ handler'[h].pc = "publish"
           /\ handler' \in [Handlers -> HandlerStates]
           /\ \A g \in Handlers \ {h} : handler'[g] = handler[g]
           /\ row' = [row EXCEPT ![Parent] =
                        IF row[Parent] \in {"pending", "decomposed"} THEN "completed"
                                                                   ELSE row[Parent]]
BY MovesType DEF CloseParent, TypeOK

LEMMA PublishEffect ==
    ASSUME TypeOK, NEW h \in Handlers, PublishParent(h)
    PROVE  /\ nats' = nats \cup {Completed(Parent)} /\ row' = row /\ mishaps' = mishaps
           /\ handler[h].pc = "publish" /\ handler'[h].pc = "idle"
           /\ handler' \in [Handlers -> HandlerStates]
           /\ \A g \in Handlers \ {h} : handler'[g] = handler[g]
BY EndsType DEF PublishParent, Publish, TypeOK

-----------------------------------------------------------------------------
(* Types.                                                                   *)

LEMMA TypeIs ==
    TypeOK <=> /\ row \in [Rows -> RowLives]
               /\ nats \subseteq Messages
               /\ handler \in [Handlers -> HandlerStates]
               /\ mishaps \subseteq {"loss", "agent"}
BY DEF TypeOK, RowLives

LEMMA TypeInit == Init => TypeOK /\ LocalsOK
<1> SUFFICES ASSUME Init PROVE TypeOK /\ LocalsOK
  OBVIOUS
<1>1. Idle \in HandlerStates
  BY FS_CardinalityType, DecompositionAssumption DEF Idle, HandlerStates
<1> QED BY <1>1 DEF Init, Queue!Init, Queue!Lives, TypeOK, LocalsOK, Idle

\* A step of a handler changes its own record and the parent's row at most,
\* or inserts a sub-task.
LEMMA HandlerTypes ==
    ASSUME TypeOK, LocalsOK, NEW h \in Handlers, HandlerNext(h) \/ HandleAnswer(h)
    PROVE  /\ TypeOK' /\ LocalsOK' /\ mishaps' = mishaps
           /\ \A g \in Handlers \ {h} : handler'[g] = handler[g]
<1> USE LivesOf, ParentIsNoChild, MessagesDiffer
<1>0. /\ row \in [Rows -> RowLives] /\ nats \subseteq Messages
      /\ handler \in [Handlers -> HandlerStates] /\ mishaps \subseteq {"loss", "agent"}
  BY TypeIs
<1> DEFINE Goal == /\ row' \in [Rows -> RowLives] /\ nats' \subseteq Messages
                   /\ handler' \in [Handlers -> HandlerStates] /\ mishaps' = mishaps
                   /\ \A g \in Handlers \ {h} : handler'[g] = handler[g]
                   /\ handler'[h].pc = "insert" => handler'[h].todo > 0
<1>1. ASSUME Fetch(h) PROVE Goal
  BY <1>0, <1>1, FetchEffect
<1>2. ASSUME InsertChild(h) PROVE Goal
  <2>1. PICK c \in Children : Queue!Move(c, {"absent"}, "pending")
    BY <1>2, InsertEffect
  <2>2. c \in Rows /\ "pending" \in RowLives
    OBVIOUS
  <2>3. row' \in [Rows -> RowLives]
    BY <1>0, <2>1, <2>2, MoveRow
  <2> QED BY <1>0, <1>2, <2>3, InsertEffect
<1>3. ASSUME MarkDecomposed(h) PROVE Goal
  BY <1>0, <1>3, MarkEffect
<1>4. ASSUME RouteParent(h) PROVE Goal
  BY <1>0, <1>4, RouteEffect
<1>5. ASSUME NEW t \in Rows, HandleCompleted(h, t) PROVE Goal
  BY <1>0, <1>5, HandleCompletedEffect DEF LocalsOK
<1>6. ASSUME CountChildren(h) PROVE Goal
  BY <1>0, <1>6, CountEffect
<1>7. ASSUME CloseParent(h) PROVE Goal
  BY <1>0, <1>7, CloseEffect
<1>8. ASSUME PublishParent(h) PROVE Goal
  BY <1>0, <1>8, PublishEffect
<1>a. ASSUME SplitFails(h) PROVE Goal
  BY <1>0, <1>a, SplitFailsEffect
<1>b. ASSUME HandleAnswer(h) PROVE Goal
  BY <1>0, <1>b, AnswerEffect
<1> HIDE DEF Goal
<1>9. Goal
  BY <1>1, <1>2, <1>3, <1>4, <1>5, <1>6, <1>7, <1>8, <1>a, <1>b
     DEF HandlerNext, RouterNext, CompletionNext
<1> USE DEF Goal
<1>10. TypeOK'
  <2>1. mishaps' \subseteq {"loss", "agent"}
    BY <1>0, <1>9
  <2> QED BY <1>9, <2>1 DEF TypeOK, RowLives
<1> QED BY <1>9, <1>10 DEF LocalsOK

\* What a step of the rest of the queue does: it moves row t and tells of it.
Turn(t) ==
    /\ handler' = handler
    /\ row' \in [Rows -> RowLives]
    /\ \A u \in Rows \ {t} : row'[u] = row[u]
    /\ mishaps' = mishaps \/ mishaps' = mishaps \cup {"agent"}
    /\ \/ /\ row[t] \in {"absent", "held", "paused", "failed"} /\ row'[t] = "pending"
          /\ nats' = IF t = Parent THEN nats \cup {Available} ELSE nats
       \/ row[t] = "held" /\ row'[t] = "completed" /\ nats' = nats \cup {Completed(t)}
       \/ row[t] = "held" /\ row'[t] = "failed" /\ nats' = nats
       \/ /\ row[t] = "pending" /\ row'[t] \in {"held", "failed"} /\ nats' = nats
          /\ t = Parent => mishaps' = mishaps \cup {"agent"}

LEMMA QueueTurns ==
    ASSUME TypeOK, QueueNext \/ Delegate
    PROVE  \E t \in Rows : Turn(t)
<1> USE LivesOf, ParentIsNoChild
<1>0. row \in [Rows -> RowLives]
  BY TypeIs
<1>a. {"pending", "held", "completed", "failed"} \subseteq RowLives
  OBVIOUS
<1>1. CASE CreateParent
  <2>1. /\ Queue!Move(Parent, {"absent"}, "pending") /\ nats' = nats \cup {Available}
        /\ handler' = handler /\ mishaps' = mishaps
    BY <1>0, <1>1, QueueMoves DEF CreateParent, Publish
  <2>2. Turn(Parent)
    BY <1>0, <1>a, <2>1, MoveRow DEF Turn
  <2> QED BY <2>2
<1>2. ASSUME NEW t \in Rows, Claim(t) PROVE Turn(t)
  <2>1. /\ Queue!Move(t, {"pending"}, "held") /\ nats' = nats /\ handler' = handler /\ Noted(t)
    BY <1>0, <1>2, QueueMoves DEF Claim
  <2> QED BY <1>0, <1>a, <2>1, MoveRow DEF Turn, Noted
<1>3. ASSUME NEW t \in Rows, Back(t) PROVE Turn(t)
  <2>1. /\ Queue!Move(t, {"held", "paused", "failed"}, "pending")
        /\ nats' = IF t = Parent THEN nats \cup {Available} ELSE nats
        /\ handler' = handler /\ mishaps' = mishaps
    BY <1>0, <1>3, QueueMoves DEF Back, Publish
  <2> QED BY <1>0, <1>a, <2>1, MoveRow DEF Turn
<1>4. ASSUME NEW t \in Rows, Complete(t) PROVE Turn(t)
  <2>1. /\ Queue!Move(t, {"held"}, "completed") /\ nats' = nats \cup {Completed(t)}
        /\ handler' = handler /\ mishaps' = mishaps
    BY <1>0, <1>4, QueueMoves DEF Complete, Publish
  <2> QED BY <1>0, <1>a, <2>1, MoveRow DEF Turn
<1>5. ASSUME NEW t \in Rows, Drop(t) PROVE Turn(t)
  <2>1. /\ Queue!Move(t, {"pending", "held"}, "failed") /\ nats' = nats /\ handler' = handler
        /\ Noted(t)
    BY <1>0, <1>5, QueueMoves DEF Drop
  <2> QED BY <1>0, <1>a, <2>1, MoveRow DEF Turn, Noted
<1>6. CASE Delegate
  <2>1. PICK c \in Children : Queue!Create(c)
    BY <1>6 DEF Delegate
  <2>2. /\ Queue!Move(c, {"absent"}, "pending") /\ c # Parent
        /\ nats' = nats /\ handler' = handler /\ mishaps' = mishaps
    BY <1>0, <1>6, <2>1, QueueMoves DEF Delegate
  <2>3. Turn(c)
    BY <1>0, <1>a, <2>2, MoveRow DEF Turn
  <2> QED BY <2>3
<1> QED BY <1>1, <1>2, <1>3, <1>4, <1>5, <1>6 DEF QueueNext

LEMMA TypeStep == TypeOK /\ LocalsOK /\ [Next]_vars => TypeOK' /\ LocalsOK'
<1> SUFFICES ASSUME TypeOK, LocalsOK, [Next]_vars PROVE TypeOK' /\ LocalsOK'
  OBVIOUS
<1>1. CASE UNCHANGED vars
  BY <1>1 DEF vars, TypeOK, LocalsOK
<1>2. ASSUME NEW h \in Handlers, HandlerNext(h) \/ HandleAnswer(h) PROVE TypeOK' /\ LocalsOK'
  BY <1>2, HandlerTypes
<1>3. ASSUME NEW t \in Rows, Turn(t) PROVE TypeOK' /\ LocalsOK'
  <2>1. nats' \subseteq Messages /\ mishaps' \subseteq {"loss", "agent"}
    BY <1>3, MessagesDiffer DEF Turn, TypeOK
  <2> QED BY <1>3, <2>1 DEF Turn, TypeOK, LocalsOK, RowLives
<1>4. CASE FaultNext
  <2>1. Idle \in HandlerStates
    BY FS_CardinalityType, DecompositionAssumption DEF Idle, HandlerStates
  <2>2. ASSUME NEW m \in Messages, LoseMessage(m) PROVE TypeOK' /\ LocalsOK'
    BY <2>2 DEF LoseMessage, Receive, TypeOK, LocalsOK
  <2>3. ASSUME CoordinatorCrash PROVE TypeOK' /\ LocalsOK'
    BY <2>1, <2>3 DEF CoordinatorCrash, TypeOK, LocalsOK, Idle
  <2>4. ASSUME NEW h \in Handlers, HandlerFails(h) PROVE TypeOK' /\ LocalsOK'
    BY <2>4, EndsType DEF HandlerFails, TypeOK, LocalsOK
  <2> QED BY <1>4, <2>2, <2>3, <2>4 DEF FaultNext
<1> QED BY <1>1, <1>2, <1>3, <1>4, QueueTurns DEF Next, DelegationNext

(* Every variable keeps its type, and a router that inserts always has a    *)
(* sub-task left to insert.                                                 *)
THEOREM SplitTypeCorrect == Spec => []TypeOK
<1>1. Init => TypeOK /\ LocalsOK
  BY TypeInit
<1>2. TypeOK /\ LocalsOK /\ [Next]_vars => (TypeOK /\ LocalsOK)'
  BY TypeStep
<1> QED BY <1>1, <1>2, PTL DEF Spec

-----------------------------------------------------------------------------
(* The coordinator's bookkeeping leaves the parent to agents.               *)

LEMMA HandlersLeaveAgents ==
    ASSUME TypeOK, LocalsOK, NEW h \in Handlers, HandlerNext(h) \/ HandleAnswer(h),
           row[Parent] \notin {"pending", "decomposed"}
    PROVE  row'[Parent] = row[Parent]
<1> USE ParentIsNoChild
<1>0. row \in [Rows -> RowLives]
  BY TypeIs
<1>1. CASE InsertChild(h)
  <2>1. PICK c \in Children : Queue!Move(c, {"absent"}, "pending")
    BY <1>1, InsertEffect
  <2> QED BY <1>0, <2>1, LivesOf, MoveRow
<1>2. CASE Fetch(h)
  BY <1>2, FetchEffect
<1>3. CASE MarkDecomposed(h)
  BY <1>3, MarkEffect
<1>4. CASE RouteParent(h)
  BY <1>4, RouteEffect
<1>5. ASSUME NEW t \in Rows, HandleCompleted(h, t) PROVE row' = row
  BY <1>5, HandleCompletedEffect
<1>6. CASE CountChildren(h)
  BY <1>6, CountEffect
<1>7. CASE CloseParent(h)
  BY <1>0, <1>7, CloseEffect
<1>8. CASE PublishParent(h)
  BY <1>8, PublishEffect
<1>9. CASE SplitFails(h) \/ HandleAnswer(h)
  BY <1>9, SplitFailsEffect, AnswerEffect
<1> QED BY <1>1, <1>2, <1>3, <1>4, <1>5, <1>6, <1>7, <1>8, <1>9
           DEF HandlerNext, RouterNext, CompletionNext

(* A parent an agent holds, or that has ended, is not marked or completed   *)
(* by a stale router or count.                                              *)
THEOREM AgentsKeepTheParent == Spec => BookkeepingLeavesAgents
<1>1. TypeOK /\ LocalsOK /\ [Next]_vars
        => [row[Parent] \in {"held", "completed", "failed"} /\ row'[Parent] # row[Parent]
              => handler' = handler]_vars
  <2> SUFFICES ASSUME TypeOK, LocalsOK, Next,
                      row[Parent] \in {"held", "completed", "failed"},
                      row'[Parent] # row[Parent]
               PROVE  handler' = handler
    OBVIOUS
  <2>1. ASSUME NEW h \in Handlers, HandlerNext(h) \/ HandleAnswer(h) PROVE FALSE
    BY <2>1, HandlersLeaveAgents
  <2>2. CASE QueueNext \/ Delegate
    BY <2>2, QueueTurns DEF Turn
  <2>3. ASSUME FaultNext PROVE FALSE
    BY <2>3 DEF FaultNext, LoseMessage, CoordinatorCrash, HandlerFails
  <2> QED BY <2>1, <2>2, <2>3 DEF Next, DelegationNext
<1>2. TypeOK /\ LocalsOK /\ [Next]_vars => (TypeOK /\ LocalsOK)'
  BY TypeStep
<1>3. Init => TypeOK /\ LocalsOK
  BY TypeInit
<1> QED BY <1>1, <1>2, <1>3, PTL DEF Spec, BookkeepingLeavesAgents

-----------------------------------------------------------------------------
(* The parent is not forgotten.                                             *)

LEMMA RouterInit == Init => OneRouter /\ ParentIsNotForgotten
BY ParentIsNoChild
   DEF Init, Queue!Init, OneRouter, Routes, Idle, ParentIsNotForgotten, Waiting

LEMMA OneRouterHandler ==
    ASSUME TypeOK, LocalsOK, OneRouter, NEW h \in Handlers, HandlerNext(h) \/ HandleAnswer(h)
    PROVE  OneRouter'
<1> USE ParentIsNoChild, MessagesDiffer
<1>0. row \in [Rows -> RowLives] /\ handler \in [Handlers -> HandlerStates]
  BY TypeIs
<1>1. CASE Fetch(h)
  BY <1>1, FetchEffect DEF OneRouter, Routes
<1>2. CASE InsertChild(h)
  <2>1. PICK c \in Children : Queue!Move(c, {"absent"}, "pending")
    BY <1>2, InsertEffect
  <2>2. row'[Parent] = row[Parent]
    BY <1>0, <2>1, LivesOf, MoveRow
  <2> QED BY <1>2, <2>2, InsertEffect DEF OneRouter, Routes
<1>3. CASE MarkDecomposed(h)
  BY <1>0, <1>3, MarkEffect DEF OneRouter, Routes
<1>4. CASE RouteParent(h)
  BY <1>0, <1>4, RouteEffect DEF OneRouter, Routes
<1>5. ASSUME NEW t \in Rows, HandleCompleted(h, t) PROVE OneRouter'
  BY <1>5, HandleCompletedEffect DEF OneRouter, Routes
<1>6. CASE CountChildren(h)
  BY <1>6, CountEffect DEF OneRouter, Routes
<1>7. CASE CloseParent(h)
  BY <1>0, <1>7, CloseEffect DEF OneRouter, Routes
<1>8. CASE PublishParent(h)
  BY <1>8, PublishEffect DEF OneRouter, Routes
<1>9. CASE SplitFails(h)
  BY <1>9, SplitFailsEffect DEF OneRouter, Routes
<1>10. CASE HandleAnswer(h)
  BY <1>10, AnswerEffect DEF OneRouter, Routes
<1> QED BY <1>1, <1>2, <1>3, <1>4, <1>5, <1>6, <1>7, <1>8, <1>9, <1>10
           DEF HandlerNext, RouterNext, CompletionNext

LEMMA OneRouterTurn ==
    ASSUME TypeOK, OneRouter, NEW t \in Rows, Turn(t)
    PROVE  OneRouter'
<1> USE ParentIsNoChild, MessagesDiffer
<1> SUFFICES ASSUME mishaps' = {} PROVE OneRouter'
  BY DEF OneRouter
<1>0. mishaps = {} /\ mishaps' = mishaps /\ handler' = handler
  BY DEF Turn
<1>1. CASE t # Parent
  <2>1. row'[Parent] = row[Parent] /\ (Available \in nats' => Available \in nats)
    BY <1>1 DEF Turn
  <2> QED BY <1>0, <2>1 DEF OneRouter, Routes
<1>2. CASE t = Parent
  <2>1. row[Parent] \in {"absent", "held", "paused", "failed"}
    BY <1>0, <1>2 DEF Turn
  <2>2. Available \notin nats /\ \A h \in Handlers : ~Routes(h) /\ ~Routes(h)'
    BY <1>0, <2>1 DEF OneRouter, Routes
  <2>3. Available \in nats' => row'[Parent] = "pending"
    BY <1>2, <2>2 DEF Turn
  <2> QED BY <2>2, <2>3 DEF OneRouter
<1> QED BY <1>1, <1>2

\* Whether all sub-tasks are done is a matter of their rows alone.
LEMMA AllDoneKept ==
    ASSUME \A c \in Children : row'[c] = row[c]
    PROVE  AllDone' <=> AllDone
BY DEF AllDone, Inserted

LEMMA NotAllDone ==
    ASSUME NEW c \in Children, row'[c] \notin {"absent", "completed"}
    PROVE  ~Waiting'
BY DEF Waiting, AllDone, Inserted

LEMMA LookingHandler ==
    ASSUME TypeOK, LocalsOK, OneRouter, ParentIsNotForgotten,
           NEW h \in Handlers, HandlerNext(h) \/ HandleAnswer(h), mishaps' = {}, Waiting'
    PROVE  Looking'
<1> USE ParentIsNoChild, MessagesDiffer
<1>0. /\ row \in [Rows -> RowLives] /\ handler \in [Handlers -> HandlerStates]
      /\ mishaps = {} /\ \A g \in Handlers \ {h} : handler'[g] = handler[g]
  BY HandlerTypes, TypeIs
\* As long as only h moves on, and to where it looks too, nothing is lost.
<1>a. ASSUME Waiting, handler[h].pc \in {"idle", "mark", "publish"}, nats \subseteq nats'
      PROVE  Looking'
  BY <1>0, <1>a DEF ParentIsNotForgotten, Looking
<1>b. ASSUME handler'[h].pc \in {"insert", "route", "count", "close"} PROVE Looking'
  BY <1>b DEF Looking
<1>c. ASSUME row' = row PROVE Waiting
  BY <1>c DEF Waiting, AllDone, Inserted
<1>d. ASSUME Routes(h) PROVE row[Parent] \in {"pending", "completed"}
  BY <1>0, <1>d DEF OneRouter
<1>1. CASE Fetch(h)
  <2>1. row[Parent] = "pending"
    BY <1>0, <1>1, <1>c, FetchEffect DEF OneRouter, Waiting
  <2> QED BY <1>1, <2>1, <1>b, FetchEffect
<1>2. CASE InsertChild(h)
  <2>1. PICK c \in Children : Queue!Move(c, {"absent"}, "pending")
    BY <1>2, InsertEffect
  <2>2. row'[c] = "pending"
    BY <1>0, <2>1, LivesOf, MoveRow
  <2> QED BY <2>2, NotAllDone
<1>3. CASE MarkDecomposed(h)
  <2>1. Waiting
    BY <1>0, <1>3, <1>c, MarkEffect DEF Waiting, AllDone, Inserted
  <2> QED BY <1>3, <2>1, <1>a, MarkEffect
<1>4. CASE RouteParent(h)
  BY <1>0, <1>4, <1>d, RouteEffect DEF Waiting, Routes
<1>5. ASSUME NEW t \in Rows, HandleCompleted(h, t) PROVE Looking'
  <2>1. CASE t = Parent
    <3>1. Waiting /\ handler' = handler /\ nats' = nats \ {Completed(Parent)}
      BY <1>5, <2>1, <1>c, HandleCompletedEffect
    <3> QED BY <1>0, <3>1 DEF ParentIsNotForgotten, Looking
  <2>2. CASE t # Parent
    BY <1>5, <2>2, <1>b, HandleCompletedEffect
  <2> QED BY <2>1, <2>2
<1>6. CASE CountChildren(h)
  BY <1>6, <1>b, <1>c, CountEffect DEF Waiting
<1>7. CASE CloseParent(h)
  BY <1>0, <1>7, CloseEffect DEF Waiting
<1>8. CASE PublishParent(h)
  BY <1>8, <1>a, <1>c, PublishEffect
<1>9. CASE SplitFails(h) \/ HandleAnswer(h)
  BY <1>9, <1>b, SplitFailsEffect, AnswerEffect
<1> QED BY <1>1, <1>2, <1>3, <1>4, <1>5, <1>6, <1>7, <1>8, <1>9
           DEF HandlerNext, RouterNext, CompletionNext

LEMMA LookingTurn ==
    ASSUME TypeOK, OneRouter, ParentIsNotForgotten, NEW t \in Rows, Turn(t),
           mishaps' = {}, Waiting'
    PROVE  Looking'
<1> USE ParentIsNoChild, MessagesDiffer
<1>0. mishaps = {} /\ mishaps' = mishaps /\ handler' = handler /\ nats \subseteq nats'
  BY DEF Turn
<1>1. CASE t = Parent
  <2>1. CASE row'[Parent] = "pending"
    BY <1>0, <1>1, <2>1 DEF Turn, Looking
  <2>2. CASE row'[Parent] # "pending"
    BY <1>0, <1>1, <2>2 DEF Turn, Waiting
  <2> QED BY <2>1, <2>2
<1>2. CASE t # Parent
  <2>1. t \in Children
    BY <1>2 DEF Rows
  <2>2. row'[t] = "completed"
    BY <2>1, NotAllDone DEF Turn
  <2> QED BY <2>1, <2>2 DEF Turn, Looking
<1> QED BY <1>1, <1>2

LEMMA RouterStep == DInv /\ [Next]_vars => DInv'
<1> SUFFICES ASSUME DInv, [Next]_vars PROVE DInv'
  OBVIOUS
<1> USE DEF DInv
<1>0. TypeOK' /\ LocalsOK'
  BY TypeStep
<1>1. CASE UNCHANGED vars
  BY <1>1 DEF vars, TypeOK, LocalsOK, OneRouter, Routes, ParentIsNotForgotten, Waiting,
              AllDone, Inserted, Looking
<1>2. ASSUME NEW h \in Handlers, HandlerNext(h) \/ HandleAnswer(h) PROVE OneRouter' /\ ParentIsNotForgotten'
  BY <1>2, OneRouterHandler, LookingHandler DEF ParentIsNotForgotten
<1>3. ASSUME NEW t \in Rows, Turn(t) PROVE OneRouter' /\ ParentIsNotForgotten'
  BY <1>3, OneRouterTurn, LookingTurn DEF ParentIsNotForgotten
<1>4. ASSUME FaultNext PROVE OneRouter' /\ ParentIsNotForgotten'
  <2>1. mishaps' # {}
    BY <1>4 DEF FaultNext, LoseMessage, CoordinatorCrash, HandlerFails
  <2> QED BY <2>1 DEF OneRouter, ParentIsNotForgotten
<1> QED BY <1>0, <1>1, <1>2, <1>3, <1>4, QueueTurns DEF Next, DelegationNext

(* As long as nothing is lost and no agent meddles, a parent whose          *)
(* sub-tasks are all completed always has somebody who is going to look.    *)
THEOREM ParentRemembered == Spec => []ParentIsNotForgotten
<1>1. Init => DInv
  BY TypeInit, RouterInit DEF DInv
<1>2. DInv /\ [Next]_vars => DInv'
  BY RouterStep
<1>3. DInv => ParentIsNotForgotten
  BY DEF DInv
<1> QED BY <1>1, <1>2, <1>3, PTL DEF Spec
=============================================================================
