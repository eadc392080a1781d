------------------------------- MODULE Schedule -------------------------------
(***************************************************************************)
(* Scheduled tasks.  Once a minute the coordinator reads the entries of    *)
(* scheduled_tasks that are due, oldest first and no more than a limit,    *)
(* and promotes them one by one: it inserts the task, announces it and     *)
(* only then writes the entry's run_count and its next date.  An error or  *)
(* a crash ends the whole round.                                           *)
(***************************************************************************)
EXTENDS Integers, FiniteSets

CONSTANTS
    Entries,    \* ids of scheduled_tasks
    NoEntry,    \* none of them
    Periods,    \* recurrence_secs, in ticks of the clock; 0 for a single run
    Limits,     \* max_runs
    NoLimit,    \* max_runs is NULL
    BatchSize,  \* LIMIT of the query
    Horizon,    \* a bound on the clock
    MaxCuts     \* a bound on the rounds cut off before an entry is counted

ASSUME ScheduleAssumption ==
    /\ {BatchSize, Horizon, MaxCuts} \subseteq Nat
    /\ BatchSize > 0
    /\ Periods \subseteq Nat
    /\ Limits \subseteq Nat
    /\ NoLimit \notin Nat
    /\ NoEntry \notin Entries

VARIABLES
    entry,     \* scheduled_tasks
    clock,     \* NOW()
    round,     \* locals of check_scheduled_tasks
    promoted,  \* history: tasks inserted for the entry
    uncounted  \* history: those whose run was never written to the entry

scheduleVars == <<entry, clock, round, promoted, uncounted>>

-----------------------------------------------------------------------------
Times == 0..Horizon
AnyLimit == Limits \cup {NoLimit}
EntryRows ==
    [state : {"absent", "enabled", "disabled"}, period : Periods \cup {0}, limit : AnyLimit,
     first : Times, next : Nat, runs : Nat]
NoRow == [state |-> "absent", period |-> 0, limit |-> NoLimit, first |-> 0, next |-> 0, runs |-> 0]

\* An entry of a round, with the run_count that was read.
Picks == [id : Entries, runs : Nat]
NoPick == [id |-> NoEntry, runs |-> 0]
Rest == [pc |-> "rest", todo |-> {}, now |-> NoPick]
Rounds ==
    {Rest}
    \cup [pc : {"insert"}, todo : (SUBSET Picks) \ {{}}, now : {NoPick}]
    \cup [pc : {"count"}, todo : SUBSET Picks, now : Picks]

ScheduleInit ==
    /\ entry = [e \in Entries |-> NoRow]
    /\ clock = 0
    /\ round = Rest
    /\ promoted = [e \in Entries |-> 0]
    /\ uncounted = [e \in Entries |-> 0]

-----------------------------------------------------------------------------
(* schedule_task and cancel_scheduled_task.                                *)

\* run_at may lie in the past; first keeps it for the properties.
ScheduleTask(e) ==
    /\ entry[e].state = "absent"
    /\ \E at \in Times, period \in Periods, limit \in AnyLimit :
         entry' = [entry EXCEPT ![e] =
           [state |-> "enabled", period |-> period, limit |-> limit,
            first |-> at, next |-> at, runs |-> 0]]
    /\ UNCHANGED <<clock, round, promoted, uncounted>>

CancelTask(e) ==
    /\ entry[e].state = "enabled"
    /\ entry' = [entry EXCEPT ![e].state = "disabled"]
    /\ UNCHANGED <<clock, round, promoted, uncounted>>

-----------------------------------------------------------------------------
(* check_scheduled_tasks.                                                  *)

Due == {e \in Entries : entry[e].state = "enabled" /\ entry[e].next <= clock}
Reads(some) ==
    round' = [pc |-> "insert", now |-> NoPick,
              todo |-> {[id |-> e, runs |-> entry[e].runs] : e \in some}]

\* Mutant: an entry is due only after its date.
PickDueLate ==
    /\ round.pc = "rest"
    /\ \E e \in Due : entry[e].next < clock /\ Reads({e})
    /\ UNCHANGED <<entry, clock, promoted, uncounted>>

\* ORDER BY next_run_at LIMIT.
Oldest(some, all) ==
    /\ \A e \in some, f \in all \ some : entry[e].next <= entry[f].next
    /\ \/ Cardinality(some) = BatchSize
       \/ some = all /\ Cardinality(all) < BatchSize

PickDue ==
    /\ round.pc = "rest"
    /\ \E some \in SUBSET Due : some # {} /\ Oldest(some, Due) /\ Reads(some)
    /\ UNCHANGED <<entry, clock, promoted, uncounted>>

\* The task of the oldest that is left, cancelled meanwhile or not.
InsertTask ==
    /\ round.pc = "insert"
    /\ \E p \in round.todo :
         /\ \A q \in round.todo : entry[p.id].next <= entry[q.id].next
         /\ promoted' = [promoted EXCEPT ![p.id] = @ + 1]
         /\ round' = [pc |-> "count", todo |-> round.todo \ {p}, now |-> p]
    /\ UNCHANGED <<entry, clock, uncounted>>

GoOn == round' = IF round.todo = {} THEN Rest
                 ELSE [round EXCEPT !.pc = "insert", !.now = NoPick]

Over(e, runs) == entry[e].limit # NoLimit /\ runs >= entry[e].limit

\* A recurring entry moves on by its period, unless this was its last run; a
\* single run, or the last one, disables the entry.
Counts(runs, over, from) ==
    LET e == round.now.id
        recurs == entry[e].period > 0 /\ ~over
    IN
    /\ round.pc = "count"
    /\ entry' = [entry EXCEPT
         ![e].runs = runs,
         ![e].next = IF recurs THEN from + entry[e].period ELSE @,
         ![e].state = IF recurs THEN @ ELSE "disabled"]
    /\ GoOn
    /\ UNCHANGED <<clock, promoted, uncounted>>

\* Mutant: the next date counts from now.
CountRunFromNow ==
    LET runs == round.now.runs + 1 IN
    Counts(runs, Over(round.now.id, runs), clock)

\* Mutant: one run more than max_runs.
CountRunPastLimit ==
    Counts(round.now.runs + 1, Over(round.now.id, round.now.runs), entry[round.now.id].next)

\* Mutant: the run is not counted when it is the last one.
CountRunButLast ==
    LET over == Over(round.now.id, round.now.runs + 1) IN
    Counts(IF over THEN round.now.runs ELSE round.now.runs + 1, over, entry[round.now.id].next)

CountRun ==
    LET runs == round.now.runs + 1 IN
    Counts(runs, Over(round.now.id, runs), entry[round.now.id].next)

-----------------------------------------------------------------------------
(* Time, and faults.                                                       *)

ClockTicks ==
    /\ clock < Horizon
    /\ clock' = clock + 1
    /\ UNCHANGED <<entry, round, promoted, uncounted>>

\* A statement fails, or the coordinator does.
CutOff ==
    /\ round.pc # "rest"
    /\ IF round.pc = "count"
         THEN /\ uncounted[round.now.id] < MaxCuts
              /\ uncounted' = [uncounted EXCEPT ![round.now.id] = @ + 1]
         ELSE UNCHANGED uncounted
    /\ round' = Rest
    /\ UNCHANGED <<entry, clock, promoted>>

-----------------------------------------------------------------------------
ScheduleNext ==
    \/ \E e \in Entries : ScheduleTask(e) \/ CancelTask(e)
    \/ PickDue \/ InsertTask \/ CountRun
    \/ ClockTicks \/ CutOff

ScheduleSpec == ScheduleInit /\ [][ScheduleNext]_scheduleVars

\* The loop goes on, and errors do not hit every single insert.
ScheduleFairSpec ==
    /\ ScheduleSpec
    /\ WF_scheduleVars(PickDue) /\ SF_scheduleVars(InsertTask) /\ WF_scheduleVars(CountRun)

-----------------------------------------------------------------------------
(* Properties.                                                             *)

ScheduleTypeOK ==
    /\ entry \in [Entries -> EntryRows]
    /\ clock \in Times
    /\ round \in Rounds
    /\ promoted \in [Entries -> Nat]
    /\ uncounted \in [Entries -> Nat]

InHand(e) == IF round.pc = "count" /\ round.now.id = e THEN 1 ELSE 0

\* Every task that was promoted is in its entry's run_count, is just being
\* counted, or was cut off: rounds, cancellations and errors lose or double no
\* other (check_scheduled_tasks writes the count it read in an earlier statement).
PromotionsAreCounted ==
    \A e \in Entries : promoted[e] = entry[e].runs + uncounted[e] + InHand(e)

Allowed(e) ==
    IF entry[e].period = 0 \/ entry[e].limit = 0 THEN 1 ELSE entry[e].limit

\* An entry is promoted no more often than it may be, and once more for each
\* time it was cut off between insert and count; max_runs 0 still runs once.
NeverTooOften ==
    \A e \in Entries :
      entry[e].period = 0 \/ entry[e].limit # NoLimit => promoted[e] <= Allowed(e) + uncounted[e]

\* A recurring entry keeps its rhythm: the dates it was promoted for are those
\* it was scheduled for, without drift, and those missed while the coordinator
\* was down are caught up one by one.
RhythmIsKept ==
    \A e \in Entries : entry[e].state = "enabled" =>
      entry[e].next = entry[e].first + entry[e].runs * entry[e].period

\* What is due is promoted, unless it is cancelled: neither entries that are
\* always due, nor the limit of a round, nor errors keep it out.
DueIsPromoted ==
    \A e \in Entries : e \in Due ~> e \notin Due \/ round.now.id = e
=============================================================================
