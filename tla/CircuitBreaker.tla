--------------------------- MODULE CircuitBreaker ---------------------------
(***************************************************************************)
(* broodlink_runtime::CircuitBreaker, shared by every request of a         *)
(* service: three atomics, each load, store and compare-exchange of them a *)
(* step.  The steps of a request are taken in program order, as x86-64     *)
(* executes them; the reorderings that Ordering::Relaxed leaves a weaker   *)
(* machine are not modelled.                                               *)
(***************************************************************************)
EXTENDS Integers, FiniteSets

CONSTANTS
    Callers,     \* requests that use the breaker at the same time
    Plans,       \* what requests do with it: see below
    Threshold,   \* failures before it opens
    MaxFailures  \* bound: failure_count stays there

ASSUME BreakerAssumption ==
    /\ Threshold \in Nat \ {0}
    /\ MaxFailures \in Nat /\ MaxFailures >= Threshold
    /\ Plans \subseteq {"call", "peek", "recheck"}

VARIABLES
    failures,  \* failure_count
    cooling,   \* less than half_open_secs since last_failure_epoch_ms
    probe,     \* half_open_probe_in_flight
    caller     \* what each request has read and where it is

vars == <<failures, cooling, probe, caller>>

\* A request of plan "call" checks the breaker, makes its call and records
\* the outcome; "peek" only asks is_open, as the health endpoints do;
\* "recheck" checks and then calls a function that checks again, as hybrid
\* search does.
Idle == [pc |-> "idle", plan |-> "call", probing |-> FALSE]
CallerStates ==
    [pc : {"idle", "count", "stamp", "swap", "calling", "closing", "failing",
           "stamping", "freeing"},
     plan : {"call", "peek", "recheck"},
     probing : BOOLEAN]     \* let through as the probe

Init ==
    /\ failures = 0
    /\ cooling = FALSE
    /\ probe = FALSE
    /\ caller = [c \in Callers |-> Idle]

Moves(c, pc) == caller' = [caller EXCEPT ![c].pc = pc]

\* is_open returned false: make the call, stop looking, or check once more.
Passes(c, probing) ==
    caller' = [caller EXCEPT ![c] =
        CASE @.plan = "call"    -> [@ EXCEPT !.pc = "calling", !.probing = probing]
          [] @.plan = "peek"    -> Idle
          [] @.plan = "recheck" -> [@ EXCEPT !.pc = "count", !.plan = "call"]]

Rejected(c) == caller' = [caller EXCEPT ![c] = Idle]

-----------------------------------------------------------------------------
(* is_open.                                                                *)

Begin(c, plan) ==
    /\ caller[c].pc = "idle"
    /\ caller' = [caller EXCEPT ![c] = [Idle EXCEPT !.pc = "count", !.plan = plan]]
    /\ UNCHANGED <<failures, cooling, probe>>

\* Load failure_count: below the threshold the breaker is closed.
LoadFailures(c) ==
    /\ caller[c].pc = "count"
    /\ IF failures < Threshold THEN Passes(c, FALSE) ELSE Moves(c, "stamp")
    /\ UNCHANGED <<failures, cooling, probe>>

\* Load last_failure_epoch_ms: still cooling, rejected.
LoadStamp(c) ==
    /\ caller[c].pc = "stamp"
    /\ IF cooling THEN Rejected(c) ELSE Moves(c, "swap")
    /\ UNCHANGED <<failures, cooling, probe>>

\* The half-open window: the compare-exchange lets one caller through.
TakeProbe(c) ==
    /\ caller[c].pc = "swap"
    /\ probe' = TRUE
    /\ IF probe THEN Rejected(c) ELSE Passes(c, TRUE)
    /\ UNCHANGED <<failures, cooling>>

-----------------------------------------------------------------------------
(* record_success and record_failure.                                      *)

Succeed(c) ==
    /\ caller[c].pc = "calling"
    /\ Moves(c, "closing")
    /\ UNCHANGED <<failures, cooling, probe>>

Fail(c) ==
    /\ caller[c].pc = "calling"
    /\ Moves(c, "failing")
    /\ UNCHANGED <<failures, cooling, probe>>

ResetFailures(c) ==
    /\ caller[c].pc = "closing"
    /\ failures' = 0
    /\ Moves(c, "freeing")
    /\ UNCHANGED <<cooling, probe>>

CountFailure(c) ==
    /\ caller[c].pc = "failing"
    /\ failures' = IF failures < MaxFailures THEN failures + 1 ELSE failures
    /\ Moves(c, "stamping")
    /\ UNCHANGED <<cooling, probe>>

\* Mutant: a failure leaves the probe flag as it is.
StampFailureEnds(c) ==
    /\ caller[c].pc = "stamping"
    /\ cooling' = TRUE
    /\ Rejected(c)
    /\ UNCHANGED <<failures, probe>>

StampFailure(c) ==
    /\ caller[c].pc = "stamping"
    /\ cooling' = TRUE
    /\ Moves(c, "freeing")
    /\ UNCHANGED <<failures, probe>>

\* Both ways of recording end by clearing the flag, whoever took it.
FreeProbe(c) ==
    /\ caller[c].pc = "freeing"
    /\ probe' = FALSE
    /\ Rejected(c)
    /\ UNCHANGED <<failures, cooling>>

\* half_open_secs pass.
Cool ==
    /\ cooling
    /\ cooling' = FALSE
    /\ UNCHANGED <<failures, probe, caller>>

-----------------------------------------------------------------------------
Check(c) == LoadFailures(c) \/ LoadStamp(c) \/ TakeProbe(c)
Record(c) == ResetFailures(c) \/ CountFailure(c) \/ StampFailure(c) \/ FreeProbe(c)

CallerNext(c) ==
    \/ \E plan \in Plans : Begin(c, plan)
    \/ Check(c)
    \/ Succeed(c) \/ Fail(c)
    \/ Record(c)

Next == Cool \/ \E c \in Callers : CallerNext(c)

Spec == Init /\ [][Next]_vars

\* Requests keep coming, every request goes on (its call has a timeout), and
\* time passes.  Nothing makes a call succeed.
Fairness ==
    /\ WF_vars(Cool)
    /\ \A c \in Callers :
         /\ WF_vars(\E plan \in Plans : Begin(c, plan))
         /\ WF_vars(Check(c))
         /\ WF_vars(Succeed(c) \/ Fail(c))
         /\ WF_vars(Record(c))
FairSpec == Spec /\ Fairness

-----------------------------------------------------------------------------
(* Properties.                                                             *)

TypeOK ==
    /\ failures \in Nat
    /\ cooling \in BOOLEAN
    /\ probe \in BOOLEAN
    /\ caller \in [Callers -> CallerStates]

Open == failures >= Threshold
Recording(c) == caller[c].pc \in {"closing", "failing", "stamping", "freeing"}
Probing(c) == caller[c].probing /\ (caller[c].pc = "calling" \/ Recording(c))

\* While the flag keeps others out, a request that took it is still going to
\* clear it, however late answers of older calls and the probe interleave:
\* the breaker never locks itself.
ProbeIsOwned == probe => \E c \in Callers : Probing(c)

\* Every open breaker is tried again: whatever happened before, a request is
\* let through (or an older call closes it).
OpenIsTried == Open ~> ((\E c \in Callers : caller[c].pc = "calling") \/ ~Open)

-----------------------------------------------------------------------------
(* What the documentation says and the code does not do.                   *)

\* The probe is alone until it succeeds or fails.
OneProbe == Cardinality({c \in Callers : Probing(c)}) <= 1
=============================================================================
