--------------------------- MODULE ApprovalsProofs ---------------------------
(* Proofs about Approvals, for any tasks, gates and concurrent calls.       *)
EXTENDS Approvals, TLAPS

-----------------------------------------------------------------------------
(* Types.                                                                   *)

LEMMA NoReviewOK == NoReview \in Reviews
  BY DEF NoReview, Reviews

LEMMA GateRowsOK ==
  ASSUME NEW r \in GateRows, NEW status \in GateStatuses
  PROVE  [r EXCEPT !.status = status] \in GateRows
  BY DEF GateRows

\* The steps of the rest of the queue write a status that is no gate's.
LEMMA QueueMoves ==
  ASSUME NEW t \in Tasks, QueueMove(t) \/ ResetTask(t)
  PROVE  \E s \in {"pending", "held", "completed", "failed"} :
            /\ row' = [row EXCEPT ![t] = s]
            /\ UNCHANGED <<link, gate, review, sweep, smooth>>
  BY DEF QueueMove, ResetTask, Life!Create, Life!Claim, Life!Release, Life!Complete,
         Life!Abandon, Life!Retry, Life!Move

\* The types are kept by every step.
THEOREM GateTypeCorrect == GateSpec => []GateTypeOK
<1>1. GateInit => GateTypeOK
  <2> SUFFICES ASSUME GateInit PROVE GateTypeOK
    OBVIOUS
  <2>1. smooth \in BOOLEAN
    BY Zenon DEF GateInit
  <2>2. row \in [Tasks -> RowStatuses]
    BY DEF GateInit, Life!Init, RowStatuses, Life!Lives
  <2>3. gate \in [Gates -> GateRows]
    BY DEF GateInit, GateRows, GateStatuses
  <2>4. review \in [Calls -> Reviews] /\ link \in [Tasks -> Gates \cup {NoGate}]
    BY NoReviewOK DEF GateInit
  <2> QED BY <2>1, <2>2, <2>3, <2>4 DEF GateInit, GateTypeOK
<1>2. GateTypeOK /\ [GateNext]_gateVars => GateTypeOK'
  <2> SUFFICES ASSUME GateTypeOK, [GateNext]_gateVars PROVE GateTypeOK'
    OBVIOUS
  <2> USE DEF GateTypeOK
  <2>1. CASE UNCHANGED gateVars
    BY <2>1 DEF gateVars
  <2>2. ASSUME NEW c \in Calls, NEW g \in Gates, NEW t \in Tasks \cup {NoTask},
               CreateGate(c, g, t)
        PROVE  GateTypeOK'
    <3>1. gate' \in [Gates -> GateRows]
      BY <2>2 DEF CreateGate, GateRows, GateStatuses
    <3>2. review' \in [Calls -> Reviews]
      BY <2>2 DEF CreateGate, Goes, Reviews
    <3> QED BY <2>2, <3>1, <3>2 DEF CreateGate
  <2>3. ASSUME NEW c \in Calls, GateCall(c) PROVE GateTypeOK'
    <3>1. review[c].gate \in Gates \cup {NoGate}
      BY DEF Reviews
    <3>2. review' \in [Calls -> Reviews]
      BY <2>3, NoReviewOK DEF GateCall, ParkTask, UnparkTask, RequeueTask, Ends
    <3>3. row' \in [Tasks -> RowStatuses]
      BY <2>3 DEF GateCall, ParkTask, UnparkTask, RequeueTask, RowStatuses, Life!Lives
    <3>4. link' \in [Tasks -> Gates \cup {NoGate}]
      BY <2>3, <3>1 DEF GateCall, ParkTask, UnparkTask, RequeueTask
    <3>5. UNCHANGED <<gate, sweep, smooth>>
      BY <2>3 DEF GateCall, ParkTask, UnparkTask, RequeueTask
    <3> QED BY <3>2, <3>3, <3>4, <3>5
  <2>4. ASSUME NEW c \in Calls, NEW g \in Gates, NEW verdict \in Verdicts,
               ResolveGate(c, g, verdict)
        PROVE  GateTypeOK'
    <3>1. gate' \in [Gates -> GateRows]
      BY <2>4, GateRowsOK DEF ResolveGate, GateStatuses
    <3>2. review' \in [Calls -> Reviews]
      BY <2>4 DEF ResolveGate, Goes, Reviews
    <3>3. smooth' \in BOOLEAN
      BY <2>4 DEF ResolveGate, Decided
    <3> QED BY <2>4, <3>1, <3>2, <3>3 DEF ResolveGate
  <2>5. CASE ExpireGates
    <3>1. gate' \in [Gates -> GateRows]
      <4>1. PICK due : gate' = [g \in Gates |->
              IF g \in due THEN [gate[g] EXCEPT !.status = "expired"] ELSE gate[g]]
        BY <2>5, Zenon DEF ExpireGates
      <4> QED BY <4>1, GateRowsOK DEF GateStatuses
    <3>2. smooth' \in BOOLEAN
      <4>1. PICK due : Decided(due)
        BY <2>5, Zenon DEF ExpireGates
      <4> QED BY <4>1, Zenon DEF Decided
    <3> QED BY <2>5, <3>1, <3>2 DEF ExpireGates
  <2>6. CASE ExpireTasks
    BY <2>6 DEF ExpireTasks, RowStatuses
  <2>7. ASSUME NEW t \in Tasks, QueueMove(t) \/ ResetTask(t) PROVE GateTypeOK'
    BY <2>7, QueueMoves DEF RowStatuses, Life!Lives
  <2>8. CASE CallCrash
    BY <2>8, NoReviewOK DEF CallCrash
  <2>9. CASE SweepTimeout
    BY <2>9 DEF SweepTimeout
  <2> QED BY <2>1, <2>2, <2>3, <2>4, <2>5, <2>6, <2>7, <2>8, <2>9
          DEF GateNext, GateAsked, GateSweep
<1> QED BY <1>1, <1>2, PTL DEF GateSpec

-----------------------------------------------------------------------------
(* Decisions are final.                                                     *)

\* A gate that was decided keeps its row, whoever reviews it and whenever the
\* heartbeat comes by.
THEOREM DecisionsFinal == GateSpec => DecisionIsFinal
<1>1. GateTypeOK /\ [GateNext]_gateVars
        => [\A g \in Gates : gate[g].status \notin {"absent", "pending"}
              => gate'[g] = gate[g]]_gateVars
  <2> SUFFICES ASSUME GateTypeOK, GateNext, NEW g \in Gates,
                      gate[g].status \notin {"absent", "pending"}
               PROVE  gate'[g] = gate[g]
    OBVIOUS
  <2>1. ASSUME NEW c \in Calls, GateCall(c) PROVE gate' = gate
    BY <2>1 DEF GateCall, ParkTask, UnparkTask, RequeueTask
  <2>2. ASSUME NEW c \in Calls, NEW h \in Gates, NEW t \in Tasks \cup {NoTask},
               CreateGate(c, h, t)
        PROVE  gate'[g] = gate[g]
    BY <2>2 DEF CreateGate, GateTypeOK
  <2>3. ASSUME NEW c \in Calls, NEW h \in Gates, NEW verdict \in Verdicts,
               ResolveGate(c, h, verdict)
        PROVE  gate'[g] = gate[g]
    BY <2>3 DEF ResolveGate, GateTypeOK
  <2>4. CASE ExpireGates
    BY <2>4 DEF ExpireGates
  <2>5. CASE ExpireTasks \/ CallCrash \/ SweepTimeout
    BY <2>5 DEF ExpireTasks, CallCrash, SweepTimeout
  <2>6. ASSUME NEW t \in Tasks, QueueMove(t) \/ ResetTask(t) PROVE gate' = gate
    BY <2>6, QueueMoves
  <2> QED BY <2>1, <2>2, <2>3, <2>4, <2>5, <2>6 DEF GateNext, GateAsked, GateSweep
<1> QED BY <1>1, GateTypeCorrect, PTL DEF GateSpec, DecisionIsFinal

-----------------------------------------------------------------------------
(* No parked task is forgotten.                                             *)

\* What a call remembers of its gate; an approval is never taken back.
HandsOK ==
    \A c \in Calls : review[c].pc # "idle" =>
      /\ review[c].gate \in Gates
      /\ review[c].pc = "requeue" => gate[review[c].gate].status = "approved"

MakingOK ==
    \A c \in Calls : review[c].pc = "park" => gate[review[c].gate].status = "pending"

ParkedOK ==
    \A t \in Tasks : row[t] = "awaiting" =>
      /\ link[t] \in Gates
      /\ \A g \in Gates : link[t] = g => Watched(g)

\* The strengthening: while nothing crashes and no gate is decided while it is
\* being made, the gates in the making are undecided and the parked watched.
WatchInv == HandsOK /\ (smooth => MakingOK /\ ParkedOK)

\* A gate stays watched as long as its row, its requeueing calls and the sweep
\* do not change.
LEMMA WatchedStays ==
  ASSUME NEW g, Watched(g), gate'[g] = gate[g], sweep' = sweep,
         \A c \in Calls : review[c].pc = "requeue" /\ review[c].gate = g => review'[c] = review[c]
  PROVE  Watched(g)'
  BY DEF Watched

\* A parked task stays watched if nothing newly parks, no link changes and its
\* gate stays watched.
LEMMA ParkedStays ==
  ASSUME ParkedOK, link' = link,
         \A t \in Tasks : row'[t] = "awaiting" => row[t] = "awaiting",
         \A g \in Gates, t \in Tasks :
            row'[t] = "awaiting" /\ link[t] = g /\ Watched(g) => Watched(g)'
  PROVE  ParkedOK'
  BY DEF ParkedOK

-----------------------------------------------------------------------------
LEMMA CreateKeeps ==
  ASSUME GateTypeOK, WatchInv, NEW c \in Calls, NEW g \in Gates, NEW t \in Tasks \cup {NoTask},
         CreateGate(c, g, t)
  PROVE  WatchInv'
<1>1. gate[g].status = "absent" /\ review[c].pc = "idle"
  BY DEF CreateGate
<1>2. PICK status \in {"pending", "auto_approved"} :
        /\ gate' = [gate EXCEPT ![g] = [status |-> status, task |-> t]]
        /\ \/ UNCHANGED review
           \/ Goes(c, IF status = "pending" THEN "park" ELSE "unpark", g)
  BY DEF CreateGate
<1>3. \A h \in Gates \ {g} : gate'[h] = gate[h]
  BY <1>2 DEF GateTypeOK
<1>4. \A d \in Calls \ {c} : review'[d] = review[d]
  BY <1>2 DEF Goes, GateTypeOK
<1>5. \/ review'[c] = review[c]
      \/ /\ review'[c] = [pc |-> IF status = "pending" THEN "park" ELSE "unpark", gate |-> g]
         /\ gate'[g].status = status
  BY <1>2 DEF Goes, GateTypeOK
<1>6. HandsOK'
  BY <1>1, <1>3, <1>4, <1>5 DEF WatchInv, HandsOK
<1>7. ASSUME smooth, MakingOK, ParkedOK PROVE MakingOK' /\ ParkedOK'
  <2>1. MakingOK'
    <3> SUFFICES ASSUME NEW d \in Calls, review'[d].pc = "park"
                 PROVE  gate'[review'[d].gate].status = "pending"
      BY DEF MakingOK
    <3>1. CASE d = c
      BY <1>1, <1>5, <3>1
    <3>2. CASE d # c
      BY <1>1, <1>3, <1>4, <1>7, <3>2 DEF MakingOK, WatchInv, HandsOK
    <3> QED BY <3>1, <3>2
  <2>2. ASSUME NEW h \in Gates, Watched(h) PROVE Watched(h)'
    <3>1. h # g
      BY <1>1, <2>2 DEF Watched
    <3> QED BY <1>1, <1>3, <1>4, <2>2, <3>1, WatchedStays DEF CreateGate
  <2> QED BY <1>7, <2>1, <2>2, ParkedStays DEF CreateGate
<1> QED BY <1>6, <1>7 DEF WatchInv, CreateGate

LEMMA ParkKeeps ==
  ASSUME GateTypeOK, WatchInv, NEW c \in Calls, ParkTask(c)
  PROVE  WatchInv'
<1> DEFINE g == review[c].gate
<1>1. g \in Gates /\ gate' = gate /\ sweep' = sweep /\ smooth' = smooth
  BY DEF WatchInv, HandsOK, ParkTask
<1>2. \A d \in Calls : review'[d] = IF d = c THEN NoReview ELSE review[d]
  BY DEF ParkTask, Ends, GateTypeOK
<1>3. HandsOK'
  BY <1>1, <1>2 DEF WatchInv, HandsOK, NoReview
<1>4. ASSUME smooth, MakingOK, ParkedOK PROVE MakingOK' /\ ParkedOK'
  <2>1. MakingOK'
    BY <1>1, <1>2, <1>4 DEF MakingOK, NoReview
  <2>2. ASSUME NEW t \in Tasks, row'[t] = "awaiting"
        PROVE  link'[t] \in Gates /\ \A h \in Gates : link'[t] = h => Watched(h)'
    <3>1. CASE t = gate[g].task
      <4>1. link'[t] = g
        BY <3>1 DEF ParkTask, GateTypeOK
      <4>2. gate'[g].status = "pending"
        BY <1>1, <1>4 DEF MakingOK, ParkTask
      <4> QED BY <1>1, <4>1, <4>2 DEF Watched
    <3>2. CASE t # gate[g].task
      <4>1. row[t] = "awaiting" /\ link'[t] = link[t]
        BY <2>2, <3>2 DEF ParkTask, GateTypeOK
      <4>2. link[t] \in Gates /\ \A h \in Gates : link[t] = h => Watched(h)
        BY <1>4, <4>1 DEF ParkedOK
      <4>3. ASSUME NEW h \in Gates, Watched(h) PROVE Watched(h)'
        BY <1>1, <1>2, <4>3, WatchedStays DEF ParkTask
      <4> QED BY <4>1, <4>2, <4>3
    <3> QED BY <3>1, <3>2
  <2> QED BY <2>1, <2>2 DEF ParkedOK
<1> QED BY <1>1, <1>3, <1>4 DEF WatchInv

LEMMA FreeKeeps ==
  ASSUME GateTypeOK, WatchInv, NEW c \in Calls, UnparkTask(c) \/ RequeueTask(c)
  PROVE  WatchInv'
<1>1. gate' = gate /\ sweep' = sweep /\ smooth' = smooth /\ link' = link
  BY DEF UnparkTask, RequeueTask
<1>2. \A d \in Calls : review'[d] = IF d = c THEN NoReview ELSE review[d]
  BY DEF UnparkTask, RequeueTask, Ends, GateTypeOK
<1>3. HandsOK' /\ (MakingOK => MakingOK')
  BY <1>1, <1>2 DEF WatchInv, HandsOK, MakingOK, NoReview
<1>4. \A t \in Tasks : row'[t] = "awaiting" =>
        row[t] = "awaiting" /\ (review[c].pc = "requeue" => link[t] # review[c].gate)
  BY DEF UnparkTask, RequeueTask, GateTypeOK
<1>5. ASSUME NEW t \in Tasks, NEW h \in Gates, row'[t] = "awaiting", link[t] = h, Watched(h)
      PROVE  Watched(h)'
  BY <1>1, <1>2, <1>4, <1>5, WatchedStays
<1> QED BY <1>1, <1>3, <1>4, <1>5, ParkedStays DEF WatchInv

LEMMA ResolveKeeps ==
  ASSUME GateTypeOK, WatchInv, NEW c \in Calls, NEW g \in Gates, NEW verdict \in Verdicts,
         ResolveGate(c, g, verdict)
  PROVE  WatchInv'
<1>1. /\ gate[g].status = "pending" /\ review[c].pc = "idle"
      /\ link' = link /\ row' = row /\ sweep' = sweep
  BY DEF ResolveGate
<1>2. gate'[g].status = verdict /\ \A h \in Gates \ {g} : gate'[h] = gate[h]
  BY DEF ResolveGate, GateTypeOK, GateRows
<1>3. \A d \in Calls \ {c} : review'[d] = review[d]
  BY DEF ResolveGate, Goes, GateTypeOK
<1>4. IF verdict = "approved" THEN review'[c] = [pc |-> "requeue", gate |-> g]
                              ELSE review'[c] = review[c]
  BY DEF ResolveGate, Goes, GateTypeOK
<1>5. HandsOK'
  BY <1>1, <1>2, <1>3, <1>4 DEF WatchInv, HandsOK
<1>6. smooth' => smooth /\ ~InTheMaking(g)
  BY DEF ResolveGate, Decided
<1>7. ASSUME MakingOK, ParkedOK, ~InTheMaking(g) PROVE MakingOK' /\ ParkedOK'
  <2>1. MakingOK'
    BY <1>1, <1>2, <1>3, <1>4, <1>7 DEF MakingOK, InTheMaking, WatchInv, HandsOK
  <2>2. ASSUME NEW h \in Gates, Watched(h) PROVE Watched(h)'
    <3>1. CASE h = g
      BY <1>2, <1>4, <3>1 DEF Watched, Verdicts
    <3>2. CASE h # g
      BY <1>1, <1>2, <1>3, <2>2, <3>2, WatchedStays
    <3> QED BY <3>1, <3>2
  <2> QED BY <1>1, <1>7, <2>1, <2>2, ParkedStays
<1> QED BY <1>5, <1>6, <1>7 DEF WatchInv

LEMMA SweepKeeps ==
  ASSUME GateTypeOK, WatchInv, GateSweep
  PROVE  WatchInv'
<1>1. CASE ExpireGates
  <2>1. PICK due :
          /\ \A g \in due : g \in Gates /\ gate[g].status = "pending"
          /\ Decided(due)
          /\ gate' = [g \in Gates |->
               IF g \in due THEN [gate[g] EXCEPT !.status = "expired"] ELSE gate[g]]
    BY <1>1, Zenon DEF ExpireGates
  <2>2. \A g \in Gates : IF g \in due THEN gate'[g].status = "expired" ELSE gate'[g] = gate[g]
    BY <2>1 DEF GateTypeOK, GateRows
  <2>3. review' = review /\ link' = link /\ row' = row /\ sweep = "idle" /\ sweep' = "tasks"
    BY <1>1 DEF ExpireGates
  <2>4. HandsOK'
    BY <2>1, <2>2, <2>3 DEF WatchInv, HandsOK
  <2>5. smooth' => smooth /\ \A g \in due : ~InTheMaking(g)
    BY <2>1, Zenon DEF Decided
  <2>6. ASSUME MakingOK, ParkedOK, \A g \in due : ~InTheMaking(g) PROVE MakingOK' /\ ParkedOK'
    <3>1. MakingOK'
      BY <2>2, <2>3, <2>6 DEF MakingOK, InTheMaking, WatchInv, HandsOK
    <3>2. ASSUME NEW g \in Gates, Watched(g) PROVE Watched(g)'
      BY <2>2, <2>3, <3>2 DEF Watched
    <3> QED BY <2>3, <2>6, <3>1, <3>2, ParkedStays
  <2> QED BY <2>4, <2>5, <2>6 DEF WatchInv
<1>2. CASE ExpireTasks
  <2>1. review' = review /\ link' = link /\ gate' = gate /\ smooth' = smooth
    BY <1>2 DEF ExpireTasks
  <2>2. HandsOK' /\ (MakingOK => MakingOK')
    BY <2>1 DEF WatchInv, HandsOK, MakingOK
  <2>3. ASSUME NEW t \in Tasks, row'[t] = "awaiting"
        PROVE  /\ row[t] = "awaiting"
               /\ link[t] # NoGate => gate[link[t]].status # "expired"
    BY <1>2, <2>3 DEF ExpireTasks
  <2>4. ASSUME NEW t \in Tasks, NEW g \in Gates, row'[t] = "awaiting", link[t] = g, Watched(g)
        PROVE  Watched(g)'
    BY <2>1, <2>3, <2>4, ApprovalsAssumption DEF Watched
  <2> QED BY <2>1, <2>2, <2>3, <2>4, ParkedStays DEF WatchInv
<1> QED BY <1>1, <1>2 DEF GateSweep

LEMMA WatchKept == GateTypeOK /\ WatchInv /\ [GateNext]_gateVars => WatchInv'
<1> SUFFICES ASSUME GateTypeOK, WatchInv, [GateNext]_gateVars PROVE WatchInv'
  OBVIOUS
<1>1. CASE UNCHANGED gateVars
  BY <1>1 DEF gateVars, WatchInv, HandsOK, MakingOK, ParkedOK, Watched
<1>2. ASSUME NEW t \in Tasks, QueueMove(t) \/ ResetTask(t) PROVE WatchInv'
  <2>1. /\ UNCHANGED <<link, gate, review, sweep, smooth>>
        /\ \A u \in Tasks : row'[u] = "awaiting" => row[u] = "awaiting"
    BY <1>2, QueueMoves DEF GateTypeOK
  <2>2. HandsOK' /\ (MakingOK => MakingOK')
    BY <2>1 DEF WatchInv, HandsOK, MakingOK
  <2>3. \A g \in Gates : Watched(g) => Watched(g)'
    BY <2>1 DEF Watched
  <2> QED BY <2>1, <2>2, <2>3, ParkedStays DEF WatchInv
<1>3. CASE CallCrash
  BY <1>3 DEF CallCrash, WatchInv, HandsOK, NoReview
<1>4. CASE SweepTimeout
  BY <1>4 DEF SweepTimeout, WatchInv, HandsOK
<1> QED BY <1>1, <1>2, <1>3, <1>4, CreateKeeps, ParkKeeps, FreeKeeps, ResolveKeeps, SweepKeeps
        DEF GateNext, GateCall, GateAsked

LEMMA WatchStart == GateInit => WatchInv
  BY DEF GateInit, Life!Init, WatchInv, HandsOK, MakingOK, ParkedOK, NoReview

\* Every parked task has a gate and somebody who will still move it, as long as
\* nothing crashes and no gate is decided while it is being made.
THEOREM ParkedWatched == GateSpec => []ParkedIsWatched
<1>1. GateTypeOK /\ WatchInv => ParkedIsWatched
  BY ApprovalsAssumption DEF WatchInv, ParkedOK, ParkedIsWatched
<1> QED BY <1>1, WatchStart, WatchKept, GateTypeCorrect, PTL DEF GateSpec

-----------------------------------------------------------------------------
(* What may move a parked task.                                             *)

\* A parked task leaves by the decision of the gate it names, by a policy or a
\* reset, and by nothing else the queue, the calls or the heartbeat do.
THEOREM ParkedObeys == GateSpec => ParkedObeysItsGate
<1> DEFINE Leaves(t) ==
      \/ row'[t] = "pending" /\ link[t] # NoGate /\ gate[link[t]].status = "approved"
      \/ row'[t] = "expired" /\ link[t] # NoGate /\ gate[link[t]].status = "expired"
      \/ \E c \in Calls : UnparkTask(c)
      \/ ResetTask(t)
<1>1. GateTypeOK /\ WatchInv /\ [GateNext]_gateVars
        => [\A t \in Tasks : row[t] = "awaiting" /\ row'[t] # "awaiting" => Leaves(t)]_gateVars
  <2> SUFFICES ASSUME GateTypeOK, WatchInv, GateNext, NEW t \in Tasks,
                      row[t] = "awaiting", row'[t] # "awaiting"
               PROVE  Leaves(t)
    OBVIOUS
  <2>1. ASSUME NEW c \in Calls, ParkTask(c) PROVE FALSE
    BY <2>1 DEF ParkTask, GateTypeOK
  <2>2. ASSUME NEW c \in Calls, RequeueTask(c) PROVE Leaves(t)
    <3>1. review[c].gate \in Gates /\ gate[review[c].gate].status = "approved"
      BY <2>2 DEF RequeueTask, WatchInv, HandsOK
    <3>2. row'[t] = "pending" /\ link[t] = review[c].gate
      BY <2>2 DEF RequeueTask
    <3> QED BY <3>1, <3>2, ApprovalsAssumption
  <2>3. ASSUME NEW c \in Calls, GateAsked(c) PROVE FALSE
    BY <2>3 DEF GateAsked, CreateGate, ResolveGate
  <2>4. CASE ExpireGates \/ CallCrash \/ SweepTimeout
    BY <2>4 DEF ExpireGates, CallCrash, SweepTimeout
  <2>5. CASE ExpireTasks
    BY <2>5 DEF ExpireTasks
  <2>6. ASSUME NEW u \in Tasks, QueueMove(u) PROVE FALSE
    BY <2>6 DEF QueueMove, GateTypeOK, Life!Create, Life!Claim, Life!Release, Life!Complete,
       Life!Abandon, Life!Retry, Life!Move
  <2>7. ASSUME NEW u \in Tasks, ResetTask(u) PROVE Leaves(t)
    <3>1. u = t
      BY <2>7 DEF ResetTask, GateTypeOK
    <3> QED BY <2>7, <3>1
  <2> QED BY <2>1, <2>2, <2>3, <2>4, <2>5, <2>6, <2>7 DEF GateNext, GateCall, GateSweep
<1> QED BY <1>1, WatchStart, WatchKept, GateTypeCorrect, PTL DEF GateSpec, ParkedObeysItsGate
=============================================================================
