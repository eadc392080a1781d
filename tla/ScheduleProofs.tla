---------------------------- MODULE ScheduleProofs ----------------------------
(* Proofs about Schedule, for any number of entries, periods and limits.     *)
EXTENDS Schedule, TLAPS

-----------------------------------------------------------------------------
(* Types.                                                                    *)

LEMMA RestOK == Rest \in Rounds
  BY DEF Rounds

\* What a round has picked; the one being counted comes with it.
Picked == round.todo \cup (IF round.pc = "count" THEN {round.now} ELSE {})

LEMMA RoundParts ==
  ASSUME round \in Rounds
  PROVE  /\ round.todo \subseteq Picks /\ Picked \subseteq Picks
         /\ round.pc \in {"rest", "insert", "count"}
         /\ round.pc = "count" => round.now \in Picks
         /\ round.pc = "rest" => round = Rest /\ Picked = {}
  BY DEF Rounds, Rest, Picked

LEMMA GoOnType ==
  ASSUME round \in Rounds, round.pc = "count", GoOn
  PROVE  round' \in Rounds
<1>1. round = [pc |-> "count", todo |-> round.todo, now |-> round.now]
  BY DEF Rounds, Rest
<1>2. CASE round.todo = {}
  BY <1>2, RestOK DEF GoOn
<1>3. CASE round.todo # {}
  <2>1. round' = [pc |-> "insert", todo |-> round.todo, now |-> NoPick]
    BY <1>1, <1>3 DEF GoOn
  <2> QED BY <1>3, <2>1, RoundParts DEF Rounds
<1> QED BY <1>2, <1>3

LEMMA ReadsType ==
  ASSUME entry \in [Entries -> EntryRows], NEW some \in SUBSET Entries, some # {}, Reads(some)
  PROVE  round' \in Rounds
<1>1. {[id |-> e, runs |-> entry[e].runs] : e \in some} \in (SUBSET Picks) \ {{}}
  <2>1. ASSUME NEW e \in some PROVE [id |-> e, runs |-> entry[e].runs] \in Picks
    BY DEF EntryRows, Picks
  <2> QED BY <2>1
<1> QED BY <1>1 DEF Reads, Rounds

LEMMA InsertType ==
  ASSUME round \in Rounds, NEW p \in round.todo,
         round' = [pc |-> "count", todo |-> round.todo \ {p}, now |-> p]
  PROVE  round' \in Rounds
<1>1. round.todo \subseteq Picks
  BY RoundParts
<1> QED BY <1>1 DEF Rounds

LEMMA RowParts ==
  ASSUME NEW row \in EntryRows
  PROVE  /\ row.state \in {"absent", "enabled", "disabled"}
         /\ row.period \in Nat /\ row.next \in Nat /\ row.runs \in Nat /\ row.first \in Nat
         /\ row.limit = NoLimit \/ row.limit \in Nat
<1>1. Periods \cup {0} \subseteq Nat /\ Limits \subseteq Nat /\ Times \subseteq Nat
  BY ScheduleAssumption DEF Times
<1> QED BY <1>1 DEF EntryRows, AnyLimit

\* What counting a run does to its entry.
LEMMA CountedRow ==
  ASSUME ScheduleTypeOK, CountRun
  PROVE  LET e == round.now.id
             runs == round.now.runs + 1
             recurs == entry[e].period > 0 /\ ~Over(e, runs) IN
         /\ e \in Entries /\ runs \in Nat
         /\ entry' \in [Entries -> EntryRows]
         /\ \A f \in Entries \ {e} : entry'[f] = entry[f]
         /\ entry'[e].period = entry[e].period /\ entry'[e].limit = entry[e].limit
         /\ entry'[e].first = entry[e].first
         /\ entry'[e].runs = runs
         /\ entry'[e].next = IF recurs THEN entry[e].next + entry[e].period ELSE entry[e].next
         /\ entry'[e].state = IF recurs THEN entry[e].state ELSE "disabled"
<1> DEFINE e == round.now.id
           runs == round.now.runs + 1
           recurs == entry[e].period > 0 /\ ~Over(e, runs)
           next == IF recurs THEN entry[e].next + entry[e].period ELSE entry[e].next
           state == IF recurs THEN entry[e].state ELSE "disabled"
           row == [entry[e] EXCEPT !.runs = runs, !.next = next, !.state = state]
<1>1. e \in Entries /\ runs \in Nat
  BY RoundParts DEF CountRun, Counts, ScheduleTypeOK, Picks
<1>2. entry[e] \in EntryRows
  BY <1>1 DEF ScheduleTypeOK
<1>3. entry' = [entry EXCEPT ![e] = row]
  BY DEF CountRun, Counts
<1> HIDE DEF e, runs, recurs
<1>4. next \in Nat /\ state \in {"absent", "enabled", "disabled"}
  BY <1>2, RowParts
<1> HIDE DEF next, state
<1>5. /\ row \in EntryRows
      /\ row.period = entry[e].period /\ row.limit = entry[e].limit
      /\ row.first = entry[e].first
      /\ row.runs = runs /\ row.next = next /\ row.state = state
  BY <1>1, <1>2, <1>4 DEF EntryRows
<1> HIDE DEF row
<1>6. /\ entry' \in [Entries -> EntryRows] /\ entry'[e] = row
      /\ \A f \in Entries \ {e} : entry'[f] = entry[f]
  BY <1>1, <1>3, <1>5 DEF ScheduleTypeOK
<1>7. /\ e \in Entries /\ runs \in Nat
      /\ entry' \in [Entries -> EntryRows]
      /\ \A f \in Entries \ {e} : entry'[f] = entry[f]
      /\ entry'[e].period = entry[e].period /\ entry'[e].limit = entry[e].limit
      /\ entry'[e].first = entry[e].first
      /\ entry'[e].runs = runs /\ entry'[e].next = next /\ entry'[e].state = state
  BY <1>1, <1>5, <1>6
<1> QED BY <1>7 DEF e, runs, recurs, next, state

\* The types are kept by every step.
THEOREM ScheduleTypeCorrect == ScheduleSpec => []ScheduleTypeOK
<1>1. ScheduleInit => ScheduleTypeOK
  BY RestOK, ScheduleAssumption
     DEF ScheduleInit, ScheduleTypeOK, EntryRows, NoRow, Times, AnyLimit
<1>2. ScheduleTypeOK /\ [ScheduleNext]_scheduleVars => ScheduleTypeOK'
  <2> SUFFICES ASSUME ScheduleTypeOK, [ScheduleNext]_scheduleVars PROVE ScheduleTypeOK'
    OBVIOUS
  <2> USE ScheduleAssumption DEF ScheduleTypeOK
  <2>1. CASE UNCHANGED scheduleVars
    BY <2>1 DEF scheduleVars
  <2>2. ASSUME NEW e \in Entries, ScheduleTask(e) PROVE ScheduleTypeOK'
    BY <2>2 DEF ScheduleTask, EntryRows, Times
  <2>3. ASSUME NEW e \in Entries, CancelTask(e) PROVE ScheduleTypeOK'
    BY <2>3 DEF CancelTask, EntryRows
  <2>4. CASE PickDue
    <3>1. PICK some \in SUBSET Due : some # {} /\ Reads(some)
      BY <2>4, Zenon DEF PickDue
    <3>2. some \in SUBSET Entries
      BY DEF Due
    <3>3. round' \in Rounds
      BY <3>1, <3>2, ReadsType
    <3> QED BY <2>4, <3>3 DEF PickDue
  <2>5. CASE InsertTask
    <3>1. PICK p \in round.todo :
            /\ promoted' = [promoted EXCEPT ![p.id] = @ + 1]
            /\ round' = [pc |-> "count", todo |-> round.todo \ {p}, now |-> p]
      BY <2>5, Zenon DEF InsertTask
    <3>2. round' \in Rounds
      BY <3>1, InsertType
    <3>3. p.id \in Entries
      BY RoundParts DEF Picks
    <3>4. promoted' \in [Entries -> Nat]
      BY <3>1, <3>3
    <3> QED BY <2>5, <3>2, <3>4 DEF InsertTask
  <2>6. CASE CountRun
    <3>1. round.pc = "count" /\ GoOn /\ UNCHANGED <<clock, promoted, uncounted>>
      BY <2>6 DEF CountRun, Counts
    <3>2. round' \in Rounds
      BY <3>1, GoOnType
    <3>3. entry' \in [Entries -> EntryRows]
      BY <2>6, CountedRow
    <3> QED BY <3>1, <3>2, <3>3
  <2>7. CASE ClockTicks
    BY <2>7 DEF ClockTicks, Times
  <2>8. CASE CutOff
    <3>1. uncounted' \in [Entries -> Nat]
      BY <2>8 DEF CutOff
    <3> QED BY <2>8, <3>1, RestOK DEF CutOff
  <2> QED BY <2>1, <2>2, <2>3, <2>4, <2>5, <2>6, <2>7, <2>8 DEF ScheduleNext
<1> QED BY <1>1, <1>2, PTL DEF ScheduleSpec
-----------------------------------------------------------------------------
(* The ledger of runs.                                                       *)

\* What a round has picked still carries its entry's run_count, and is picked
\* once: only the round itself writes run_count.
PicksAreFresh ==
    /\ \A p \in Picked : p.runs = entry[p.id].runs /\ entry[p.id].state # "absent"
    /\ round.pc = "count" => \A p \in round.todo : p.id # round.now.id

AbsentIsNew == \A e \in Entries : entry[e].state = "absent" => entry[e].runs = 0

Bounded(e) == entry[e].period = 0 \/ entry[e].limit # NoLimit
Open(e) == entry[e].state = "enabled" \/ \E p \in Picked : p.id = e

\* An entry that may still be promoted has a run left.
RunsAreLeft ==
    \A e \in Entries : Bounded(e) =>
      /\ entry[e].runs <= Allowed(e)
      /\ Open(e) => entry[e].runs < Allowed(e)

ScheduleInv ==
    /\ ScheduleTypeOK /\ PicksAreFresh /\ AbsentIsNew
    /\ PromotionsAreCounted /\ RunsAreLeft /\ RhythmIsKept

LEMMA InHandInt == \A e \in Entries : InHand(e) \in {0, 1}
  BY DEF InHand

LEMMA PickedAt ==
  ASSUME ScheduleTypeOK
  PROVE  /\ round.todo \subseteq Picked
         /\ round.pc = "count" => round.now \in Picked
         /\ \A p \in Picked : p.id \in Entries /\ p.runs \in Nat
         /\ \A p, q \in Picked : p.id = q.id /\ p.runs = q.runs => p = q
         /\ round.pc # "count" => Picked = round.todo
<1>1. Picked \subseteq Picks
  BY RoundParts DEF ScheduleTypeOK
<1>2. \A p, q \in Picks : p.id = q.id /\ p.runs = q.runs => p = q
  BY DEF Picks
<1> QED BY <1>1, <1>2 DEF Picked, Picks

LEMMA Successor == \A i, j \in Nat : (i + 1) * j = i * j + j /\ 0 * j = 0
  OBVIOUS

\* Steps that leave the round and the histories alone.
LEMMA RowStep ==
  ASSUME ScheduleInv, ScheduleTypeOK', UNCHANGED <<round, promoted, uncounted>>,
         NEW e \in Entries, \A f \in Entries \ {e} : entry'[f] = entry[f],
         entry'[e].state # "absent", entry'[e].runs = entry[e].runs,
         \/ /\ entry[e].state = "absent"
            /\ entry'[e].next = entry'[e].first
         \/ /\ entry[e].state # "absent" /\ entry'[e].state = "disabled"
            /\ entry'[e].period = entry[e].period /\ entry'[e].limit = entry[e].limit
  PROVE  ScheduleInv'
<1>1. /\ \A f \in Entries \ {e} : entry'[f] = entry[f]
      /\ \A f \in Entries : entry'[f].runs = entry[f].runs
  OBVIOUS
<1>2. Picked' = Picked /\ \A f \in Entries : InHand(f)' = InHand(f)
  BY DEF Picked, InHand
<1>3. PicksAreFresh'
  BY <1>1, <1>2, PickedAt DEF ScheduleInv, PicksAreFresh
<1>4. AbsentIsNew'
  BY <1>1 DEF ScheduleInv, AbsentIsNew
<1>5. PromotionsAreCounted'
  BY <1>1, <1>2 DEF ScheduleInv, PromotionsAreCounted
<1>6. RunsAreLeft'
  <2> SUFFICES ASSUME NEW f \in Entries, Bounded(f)'
               PROVE  (/\ entry[f].runs <= Allowed(f)
                       /\ Open(f) => entry[f].runs < Allowed(f))'
    BY DEF RunsAreLeft
  <2>1. CASE f # e
    <3>1. entry'[f] = entry[f]
      BY <1>1, <2>1
    <3> QED BY <1>2, <3>1 DEF ScheduleInv, RunsAreLeft, Bounded, Open, Allowed
  <2>2. CASE f = e /\ entry[e].state = "absent"
    <3>1. entry'[e].runs = 0
      BY <2>2 DEF ScheduleInv, AbsentIsNew
    <3>2. entry'[e] \in EntryRows
      BY DEF ScheduleTypeOK
    <3>3. Allowed(e)' > 0
      BY <2>2, <3>2, RowParts DEF Allowed, Bounded
    <3>4. Allowed(e)' \in Nat
      BY <2>2, <3>2, RowParts DEF Allowed, Bounded
    <3> QED BY <2>2, <3>1, <3>3, <3>4
  <2>3. CASE f = e /\ entry[e].state # "absent"
    <3>1. Bounded(e) /\ Allowed(e)' = Allowed(e) /\ (Open(e)' => Open(e))
      BY <1>2, <2>3 DEF Bounded, Allowed, Open
    <3> QED BY <1>1, <2>3, <3>1 DEF ScheduleInv, RunsAreLeft
  <2> QED BY <2>1, <2>2, <2>3
<1>7. RhythmIsKept'
  <2> SUFFICES ASSUME NEW f \in Entries, entry'[f].state = "enabled"
               PROVE  entry'[f].next = entry'[f].first + entry'[f].runs * entry'[f].period
    BY DEF RhythmIsKept
  <2>1. CASE f # e
    BY <1>1, <2>1 DEF ScheduleInv, RhythmIsKept
  <2>2. CASE f = e
    <3>1. entry[e].state = "absent" /\ entry'[e].next = entry'[e].first
      BY <2>2
    <3>2. entry'[e].runs = 0
      BY <3>1 DEF ScheduleInv, AbsentIsNew
    <3>3. entry'[e].period \in Nat /\ entry'[e].first \in Nat
      BY RowParts DEF ScheduleTypeOK
    <3> QED BY <2>2, <3>1, <3>2, <3>3, Successor
  <2> QED BY <2>1, <2>2
<1> QED BY <1>3, <1>4, <1>5, <1>6, <1>7 DEF ScheduleInv

LEMMA PickStep == ASSUME ScheduleInv, ScheduleTypeOK', PickDue PROVE ScheduleInv'
<1>1. PICK some \in SUBSET Due : some # {} /\ Reads(some)
  BY Zenon DEF PickDue
<1>2. /\ UNCHANGED <<entry, promoted, uncounted>> /\ round.pc = "rest"
      /\ round'.pc = "insert" /\ Picked' = {[id |-> e, runs |-> entry[e].runs] : e \in some}
  BY <1>1 DEF PickDue, Reads, Picked
<1>3. \A f \in Entries : InHand(f)' = InHand(f)
  BY <1>2 DEF InHand
<1>4. \A p \in Picked' : p.runs = entry[p.id].runs /\ entry[p.id].state = "enabled"
  BY <1>2 DEF Due
<1>5. PicksAreFresh'
  BY <1>2, <1>4 DEF PicksAreFresh
<1>6. PromotionsAreCounted'
  BY <1>2, <1>3 DEF ScheduleInv, PromotionsAreCounted
<1>7. RunsAreLeft'
  <2>1. \A e \in Entries : Open(e)' => Open(e)
    BY <1>2, <1>4 DEF Open
  <2> QED BY <1>2, <2>1 DEF ScheduleInv, RunsAreLeft, Bounded, Allowed
<1> QED BY <1>2, <1>5, <1>6, <1>7 DEF ScheduleInv, AbsentIsNew, RhythmIsKept

LEMMA InsertStep == ASSUME ScheduleInv, ScheduleTypeOK', InsertTask PROVE ScheduleInv'
<1>1. PICK p \in round.todo :
        /\ promoted' = [promoted EXCEPT ![p.id] = @ + 1]
        /\ round' = [pc |-> "count", todo |-> round.todo \ {p}, now |-> p]
  BY Zenon DEF InsertTask
<1>2. round.pc = "insert" /\ UNCHANGED <<entry, uncounted>>
  BY DEF InsertTask
<1>3. p \in Picked /\ p.id \in Entries /\ Picked = round.todo
  BY <1>2, PickedAt DEF ScheduleInv
<1>4. Picked' = Picked
  BY <1>1, <1>3 DEF Picked
<1>5. \A q \in round'.todo : q.id # p.id
  <2>1. ASSUME NEW q \in round.todo, q.id = p.id PROVE q = p
    <3>1. q \in Picked /\ q.runs = p.runs
      BY <1>3, <2>1 DEF ScheduleInv, PicksAreFresh
    <3> QED BY <1>3, <2>1, <3>1, PickedAt DEF ScheduleInv
  <2> QED BY <1>1, <2>1
<1>6. PicksAreFresh'
  BY <1>1, <1>2, <1>4, <1>5 DEF ScheduleInv, PicksAreFresh
<1>7. PromotionsAreCounted'
  <2> SUFFICES ASSUME NEW e \in Entries
               PROVE  promoted'[e] = entry[e].runs + uncounted[e] + InHand(e)'
    BY <1>2 DEF PromotionsAreCounted
  <2>1. promoted[e] = entry[e].runs + uncounted[e] + InHand(e) /\ InHand(e) = 0
    BY <1>2 DEF ScheduleInv, PromotionsAreCounted, InHand
  <2>2. InHand(e)' = IF e = p.id THEN 1 ELSE 0
    BY <1>1 DEF InHand
  <2>3. promoted'[e] = IF e = p.id THEN promoted[e] + 1 ELSE promoted[e]
    BY <1>1, <1>3 DEF ScheduleInv, ScheduleTypeOK
  <2>4. entry[e].runs \in Nat /\ uncounted[e] \in Nat
    BY RowParts DEF ScheduleInv, ScheduleTypeOK
  <2> QED BY <2>1, <2>2, <2>3, <2>4
<1>8. RunsAreLeft'
  BY <1>2, <1>4 DEF ScheduleInv, RunsAreLeft, Bounded, Allowed, Open
<1> QED BY <1>2, <1>6, <1>7, <1>8 DEF ScheduleInv, AbsentIsNew, RhythmIsKept

LEMMA CutStep == ASSUME ScheduleInv, ScheduleTypeOK', CutOff PROVE ScheduleInv'
<1>1. /\ round' = Rest /\ Picked' = {} /\ UNCHANGED <<entry, promoted>>
      /\ \A e \in Entries : InHand(e)' = 0
  BY DEF CutOff, Rest, Picked, InHand
<1>2. \A e \in Entries : uncounted'[e] = uncounted[e] + InHand(e)
  <2>1. CASE round.pc = "count"
    <3>1. uncounted' = [uncounted EXCEPT ![round.now.id] = @ + 1]
      BY <2>1 DEF CutOff
    <3> QED BY <2>1, <3>1 DEF InHand, ScheduleInv, ScheduleTypeOK
  <2>2. CASE round.pc # "count"
    BY <2>2 DEF CutOff, InHand, ScheduleInv, ScheduleTypeOK
  <2> QED BY <2>1, <2>2
<1>3. PicksAreFresh'
  BY <1>1 DEF PicksAreFresh, Rest
<1>4. PromotionsAreCounted'
  <2> SUFFICES ASSUME NEW e \in Entries
               PROVE  promoted[e] = entry[e].runs + uncounted'[e] + 0
    BY <1>1 DEF PromotionsAreCounted
  <2>1. entry[e].runs \in Nat /\ uncounted[e] \in Nat /\ InHand(e) \in Nat
    BY RowParts, InHandInt DEF ScheduleInv, ScheduleTypeOK
  <2> QED BY <1>2, <2>1 DEF ScheduleInv, PromotionsAreCounted
<1>5. RunsAreLeft'
  BY <1>1 DEF ScheduleInv, RunsAreLeft, Bounded, Allowed, Open
<1> QED BY <1>1, <1>3, <1>4, <1>5 DEF ScheduleInv, AbsentIsNew, RhythmIsKept

LEMMA CountStep == ASSUME ScheduleInv, ScheduleTypeOK', CountRun PROVE ScheduleInv'
<1>e. PICK e \in Entries : e = round.now.id
  BY CountedRow DEF ScheduleInv
<1> DEFINE runs == round.now.runs + 1
           recurs == entry[e].period > 0 /\ ~Over(e, runs)
<1>1. /\ e \in Entries /\ runs \in Nat
      /\ \A f \in Entries \ {e} : entry'[f] = entry[f]
      /\ entry'[e].period = entry[e].period /\ entry'[e].limit = entry[e].limit
      /\ entry'[e].first = entry[e].first /\ entry'[e].runs = runs
      /\ entry'[e].next = IF recurs THEN entry[e].next + entry[e].period ELSE entry[e].next
      /\ entry'[e].state = IF recurs THEN entry[e].state ELSE "disabled"
  BY <1>e, CountedRow DEF ScheduleInv
<1>2. /\ round.pc = "count" /\ GoOn /\ UNCHANGED <<promoted, uncounted>>
  BY DEF CountRun, Counts
<1>3. round.now \in Picked /\ round.todo \subseteq Picked
  BY <1>2, PickedAt DEF ScheduleInv
<1>4. runs = entry[e].runs + 1 /\ entry[e].state # "absent" /\ Open(e)
  BY <1>e, <1>3 DEF ScheduleInv, PicksAreFresh, Open
<1>5. round'.pc # "count" /\ Picked' = round.todo
  BY <1>2 DEF GoOn, Picked, Rest, ScheduleInv, ScheduleTypeOK, Rounds
<1>6. \A p \in round.todo : p.id # e /\ p.id \in Entries
  BY <1>e, <1>2, <1>3, PickedAt DEF ScheduleInv, PicksAreFresh
<1> HIDE DEF runs, recurs
<1>7. PicksAreFresh'
  BY <1>1, <1>3, <1>5, <1>6 DEF ScheduleInv, PicksAreFresh
<1>8. AbsentIsNew'
  BY <1>1, <1>4 DEF ScheduleInv, AbsentIsNew
<1>9. entry[e].runs \in Nat /\ entry[e].period \in Nat /\ entry[e].first \in Nat
      /\ (entry[e].limit = NoLimit \/ entry[e].limit \in Nat)
  BY <1>1, RowParts DEF ScheduleInv, ScheduleTypeOK
<1>10. PromotionsAreCounted'
  <2> SUFFICES ASSUME NEW f \in Entries
               PROVE  promoted[f] = entry'[f].runs + uncounted[f] + InHand(f)'
    BY <1>2 DEF PromotionsAreCounted
  <2>1. InHand(f)' = 0 /\ InHand(f) = IF f = e THEN 1 ELSE 0
    BY <1>e, <1>2, <1>5 DEF InHand
  <2>2. promoted[f] = entry[f].runs + uncounted[f] + InHand(f)
    BY DEF ScheduleInv, PromotionsAreCounted
  <2>3. entry[f].runs \in Nat /\ uncounted[f] \in Nat
    BY RowParts DEF ScheduleInv, ScheduleTypeOK
  <2>4. entry'[f].runs = IF f = e THEN entry[f].runs + 1 ELSE entry[f].runs
    BY <1>1, <1>4
  <2> QED BY <2>1, <2>2, <2>3, <2>4
<1>11. RunsAreLeft'
  <2> SUFFICES ASSUME NEW f \in Entries, Bounded(f)'
               PROVE  (/\ entry[f].runs <= Allowed(f)
                       /\ Open(f) => entry[f].runs < Allowed(f))'
    BY DEF RunsAreLeft
  <2>1. CASE f # e
    <3>1. entry'[f] = entry[f]
      BY <1>1, <2>1
    <3>2. Open(f)' => Open(f)
      BY <1>3, <1>5, <3>1 DEF Open
    <3> QED BY <3>1, <3>2 DEF ScheduleInv, RunsAreLeft, Bounded, Allowed
  <2>2. CASE f = e
    <3>1. Bounded(e) /\ Allowed(e)' = Allowed(e)
      BY <1>1, <2>2 DEF Bounded, Allowed
    <3>2. entry[e].runs < Allowed(e) /\ Allowed(e) \in Nat
      BY <1>1, <1>4, <1>9, <3>1 DEF ScheduleInv, RunsAreLeft, Allowed, Bounded
    <3>3. Open(e)' => recurs
      BY <1>1, <1>5, <1>6 DEF Open
    <3>4. recurs => runs < Allowed(e)
      BY <1>1, <1>9, <3>1 DEF recurs, Over, Bounded, Allowed
    <3> QED BY <1>1, <1>4, <1>9, <2>2, <3>1, <3>2, <3>3, <3>4
  <2> QED BY <2>1, <2>2
<1>12. RhythmIsKept'
  <2> SUFFICES ASSUME NEW f \in Entries, entry'[f].state = "enabled"
               PROVE  entry'[f].next = entry'[f].first + entry'[f].runs * entry'[f].period
    BY DEF RhythmIsKept
  <2>1. CASE f # e
    BY <1>1, <2>1 DEF ScheduleInv, RhythmIsKept
  <2>2. CASE f = e
    <3>1. recurs /\ entry[e].state = "enabled"
      BY <1>1, <2>2
    <3>2. entry[e].next = entry[e].first + entry[e].runs * entry[e].period
      BY <1>1, <3>1 DEF ScheduleInv, RhythmIsKept
    <3>3. (entry[e].runs + 1) * entry[e].period = entry[e].runs * entry[e].period + entry[e].period
      BY <1>9, Successor
    <3>4. ASSUME NEW i \in Nat, NEW j \in Nat PROVE i * j \in Nat
      OBVIOUS
    <3>5. entry[e].runs * entry[e].period \in Nat
      BY <1>9, <3>4
    <3>6. ASSUME NEW a \in Nat, NEW x \in Nat, NEW y \in Nat PROVE (a + x) + y = a + (x + y)
      OBVIOUS
    <3>7. entry'[e].next = entry[e].first + (entry[e].runs + 1) * entry[e].period
      BY <1>1, <1>9, <3>1, <3>2, <3>3, <3>5, <3>6
    <3> QED BY <1>1, <1>4, <2>2, <3>7
  <2> QED BY <2>1, <2>2
<1> QED BY <1>7, <1>8, <1>10, <1>11, <1>12 DEF ScheduleInv

\* The ledger, the limit and the rhythm are kept together.
THEOREM ScheduleInvariant == ScheduleSpec => []ScheduleInv
<1>1. ScheduleInit => ScheduleInv
  <2> SUFFICES ASSUME ScheduleInit PROVE ScheduleInv
    OBVIOUS
  <2>1. ScheduleTypeOK
    BY RestOK, ScheduleAssumption
       DEF ScheduleInit, ScheduleTypeOK, EntryRows, NoRow, Times, AnyLimit
  <2>2. /\ Picked = {} /\ round.pc = "rest"
        /\ \A e \in Entries : entry[e] = NoRow /\ promoted[e] = 0 /\ uncounted[e] = 0
    BY DEF ScheduleInit, Picked, Rest
  <2>3. PicksAreFresh /\ AbsentIsNew
    BY <2>2 DEF PicksAreFresh, AbsentIsNew, NoRow
  <2>4. PromotionsAreCounted
    BY <2>2 DEF PromotionsAreCounted, NoRow, InHand
  <2>5. RunsAreLeft /\ RhythmIsKept
    BY <2>2 DEF RunsAreLeft, RhythmIsKept, NoRow, Allowed, Open
  <2> QED BY <2>1, <2>3, <2>4, <2>5 DEF ScheduleInv
<1>2. ASSUME ScheduleInv, ScheduleTypeOK', [ScheduleNext]_scheduleVars PROVE ScheduleInv'
  <2>1. CASE UNCHANGED scheduleVars
    BY <1>2, <2>1
       DEF scheduleVars, ScheduleInv, PicksAreFresh, Picked, AbsentIsNew, PromotionsAreCounted,
           InHand, RunsAreLeft, Bounded, Open, Allowed, RhythmIsKept
  <2>2. ASSUME NEW e \in Entries, ScheduleTask(e) PROVE ScheduleInv'
    <3>1. PICK at \in Times, period \in Periods, limit \in AnyLimit :
            entry' = [entry EXCEPT ![e] =
              [state |-> "enabled", period |-> period, limit |-> limit,
               first |-> at, next |-> at, runs |-> 0]]
      BY <2>2, Zenon DEF ScheduleTask
    <3>2. entry[e].state = "absent" /\ entry[e].runs = 0
      BY <1>2, <2>2 DEF ScheduleTask, ScheduleInv, AbsentIsNew
    <3>3. /\ entry'[e].state = "enabled" /\ entry'[e].next = entry'[e].first
          /\ entry'[e].runs = 0 /\ \A f \in Entries \ {e} : entry'[f] = entry[f]
      BY <1>2, <3>1 DEF ScheduleInv, ScheduleTypeOK
    <3>4. UNCHANGED <<round, promoted, uncounted>>
      BY <2>2 DEF ScheduleTask
    <3> QED BY <1>2, <3>2, <3>3, <3>4, RowStep
  <2>3. ASSUME NEW e \in Entries, CancelTask(e) PROVE ScheduleInv'
    <3>1. /\ entry[e].state = "enabled" /\ UNCHANGED <<round, promoted, uncounted>>
          /\ \A f \in Entries \ {e} : entry'[f] = entry[f]
          /\ entry'[e] = [entry[e] EXCEPT !.state = "disabled"]
      BY <1>2, <2>3 DEF CancelTask, ScheduleInv, ScheduleTypeOK
    <3>2. /\ entry'[e].state = "disabled" /\ entry'[e].runs = entry[e].runs
          /\ entry'[e].period = entry[e].period /\ entry'[e].limit = entry[e].limit
      BY <1>2, <3>1 DEF ScheduleInv, ScheduleTypeOK, EntryRows
    <3> QED BY <1>2, <3>1, <3>2, RowStep
  <2>4. CASE ClockTicks
    BY <1>2, <2>4
       DEF ClockTicks, ScheduleInv, PicksAreFresh, Picked, AbsentIsNew, PromotionsAreCounted,
           InHand, RunsAreLeft, Bounded, Open, Allowed, RhythmIsKept
  <2> QED BY <1>2, <2>1, <2>2, <2>3, <2>4, PickStep, InsertStep, CountStep, CutStep
          DEF ScheduleNext
<1> QED BY <1>1, <1>2, ScheduleTypeCorrect, PTL DEF ScheduleSpec

\* No promotion is lost from the count or doubled in it.
THEOREM PromotionsCounted == ScheduleSpec => []PromotionsAreCounted
<1>1. ScheduleInv => PromotionsAreCounted
  BY DEF ScheduleInv
<1> QED BY <1>1, ScheduleInvariant, PTL

\* No entry is promoted more often than it may be, but for rounds cut off.
THEOREM PromotedWithinLimit == ScheduleSpec => []NeverTooOften
<1>1. ASSUME ScheduleInv PROVE NeverTooOften
  <2> SUFFICES ASSUME NEW e \in Entries, Bounded(e)
               PROVE  promoted[e] <= Allowed(e) + uncounted[e]
    BY DEF NeverTooOften, Bounded
  <2>1. promoted[e] = entry[e].runs + uncounted[e] + InHand(e)
    BY <1>1 DEF ScheduleInv, PromotionsAreCounted
  <2>2. entry[e].runs + InHand(e) <= Allowed(e)
    <3>1. entry[e].runs \in Nat /\ Allowed(e) \in Nat
      BY <1>1, RowParts DEF ScheduleInv, ScheduleTypeOK, Allowed, Bounded
    <3>2. CASE InHand(e) = 1
      <4>1. Open(e)
        BY <1>1, <3>2, PickedAt DEF ScheduleInv, InHand, Open
      <4> QED BY <1>1, <3>1, <3>2, <4>1 DEF ScheduleInv, RunsAreLeft
    <3>3. CASE InHand(e) = 0
      BY <1>1, <3>1, <3>3 DEF ScheduleInv, RunsAreLeft
    <3> QED BY <3>2, <3>3, InHandInt
  <2>3. entry[e].runs \in Nat /\ Allowed(e) \in Nat /\ uncounted[e] \in Nat /\ InHand(e) \in Nat
    BY <1>1, RowParts, InHandInt DEF ScheduleInv, ScheduleTypeOK, Allowed, Bounded
  <2> QED BY <2>1, <2>2, <2>3
<1> QED BY <1>1, ScheduleInvariant, PTL

\* Entries do not drift from their dates.
THEOREM RhythmKept == ScheduleSpec => []RhythmIsKept
<1>1. ScheduleInv => RhythmIsKept
  BY DEF ScheduleInv
<1> QED BY <1>1, ScheduleInvariant, PTL
=============================================================================
