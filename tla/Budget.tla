-------------------------------- MODULE Budget --------------------------------
(***************************************************************************)
(* The token budget of one agent.  Every request first marks the agent as  *)
(* seen (auth_middleware, in a task of its own); a tool call then compares *)
(* the balance with the tool's cost (check_budget), runs the tool and only *)
(* then deducts the cost (deduct_budget), each in a statement of its own.  *)
(* The heartbeat deactivates agents that were not seen for long and tops   *)
(* up the others; a cycle goes on after a statement that failed.           *)
(***************************************************************************)
EXTENDS Integers, FiniteSets

CONSTANTS
    Calls,        \* tool calls of the agent handled at the same time
    MaxCost,      \* the dearest tool of tool_cost_map
    Daily,        \* budget.daily_replenishment
    Grants,       \* what set_budget writes
    StaleCycles,  \* heartbeat.stale_agent_minutes, in heartbeat cycles
    MaxTimeouts   \* a bound on how many cycles are cut off

ASSUME BudgetAssumption ==
    /\ IsFiniteSet(Calls)
    /\ {MaxCost, StaleCycles, MaxTimeouts} \subseteq Nat
    /\ StaleCycles > 0
    /\ Daily \in Int /\ Grants \subseteq Int

VARIABLES
    balance,   \* agent_profiles.budget_tokens
    written,   \* the amount set_budget or the heartbeat wrote there last
    active,    \* agent_profiles.active
    age,       \* heartbeat cycles that began since last_seen
    call,      \* the calls' locals
    touching,  \* calls whose UPDATE of last_seen is still to come
    beat,      \* where the heartbeat's cycle is
    timeouts   \* cycles that were cut off

budgetVars == <<balance, written, active, age, call, touching, beat, timeouts>>

-----------------------------------------------------------------------------
Costs == 0..MaxCost
NoCall == [pc |-> "idle", cost |-> 0]
CallStates == [pc : {"idle", "check", "running"}, cost : Costs]

\* An agent is registered inactive and without tokens.
BudgetInit ==
    /\ balance = 0 /\ written = 0
    /\ active = FALSE
    /\ age = 0
    /\ call = [c \in Calls |-> NoCall]
    /\ touching = {}
    /\ beat = "idle"
    /\ timeouts = 0

Returns(c) == call' = [call EXCEPT ![c] = NoCall]

-----------------------------------------------------------------------------
(* auth_middleware and tool_dispatch.                                      *)

\* Mutant: the agent is marked as seen by calls that run only.
AdmitUnseen(c) ==
    /\ call[c].pc = "idle"
    /\ \E k \in Costs : call' = [call EXCEPT ![c] = [pc |-> "check", cost |-> k]]
    /\ UNCHANGED <<balance, written, active, age, touching, beat, timeouts>>

\* The rate limiter let the request pass; cost 0 stands for the exempt tools too.
Admit(c) ==
    /\ call[c].pc = "idle"
    /\ \E k \in Costs : call' = [call EXCEPT ![c] = [pc |-> "check", cost |-> k]]
    /\ touching' = touching \cup {c}
    /\ UNCHANGED <<balance, written, active, age, beat, timeouts>>

\* The spawned UPDATE; it may come after the call has returned.
Touch(c) ==
    /\ c \in touching
    /\ touching' = touching \ {c}
    /\ active' = TRUE
    /\ age' = 0
    /\ UNCHANGED <<balance, written, call, beat, timeouts>>

\* Deny list, guardrails, an approval that is missing.
Refuse(c) ==
    /\ call[c].pc = "check"
    /\ Returns(c)
    /\ UNCHANGED <<balance, written, active, age, touching, beat, timeouts>>

Affordable(c) == call[c].cost = 0 \/ balance >= call[c].cost

\* Mutant: the comparison the wrong way round.
CheckBudgetInverted(c) ==
    /\ call[c].pc = "check"
    /\ IF call[c].cost = 0 \/ balance <= call[c].cost
         THEN call' = [call EXCEPT ![c].pc = "running"] ELSE Returns(c)
    /\ UNCHANGED <<balance, written, active, age, touching, beat, timeouts>>

CheckBudget(c) ==
    /\ call[c].pc = "check"
    /\ IF Affordable(c) THEN call' = [call EXCEPT ![c].pc = "running"] ELSE Returns(c)
    /\ UNCHANGED <<balance, written, active, age, touching, beat, timeouts>>

\* After a tool that succeeded, whatever the balance is by now.
DeductBudget(c) ==
    /\ call[c].pc = "running"
    /\ balance' = balance - call[c].cost
    /\ Returns(c)
    /\ UNCHANGED <<written, active, age, touching, beat, timeouts>>

\* The tool fails, or the deduction does, which is logged and no more.
RunForFree(c) ==
    /\ call[c].pc = "running"
    /\ Returns(c)
    /\ UNCHANGED <<balance, written, active, age, touching, beat, timeouts>>

\* Any agent may call it with any amount, and it is exempt from the budget.
SetBudget(tokens) ==
    /\ balance' = tokens /\ written' = tokens
    /\ UNCHANGED <<active, age, call, touching, beat, timeouts>>

-----------------------------------------------------------------------------
(* The heartbeat's cycle.  A statement that fails is logged and the cycle    *)
(* goes on to the next one.                                                *)

\* activate_recent_agents: an inactive agent with a row in the audit log or a
\* memory of the last minutes is active again, unless the statement fails.
ActivateRecent ==
    /\ beat = "idle"
    /\ beat' = "deactivate"
    /\ \/ age' = (IF age > StaleCycles THEN age ELSE age + 1) /\ UNCHANGED active
       \/ ~active /\ active' = TRUE /\ age' = 0
    /\ UNCHANGED <<balance, written, call, touching, timeouts>>

\* Mutant: the cycle tops up before it deactivates.
DeactivateStaleLast ==
    /\ beat = "deactivate"
    /\ beat' = "replenish"
    /\ UNCHANGED <<balance, written, active, age, call, touching, timeouts>>

DeactivateStale ==
    /\ beat = "deactivate"
    /\ beat' = "replenish"
    /\ active' = (active /\ age <= StaleCycles)
    /\ UNCHANGED <<balance, written, age, call, touching, timeouts>>

DeactivateFails ==
    /\ beat = "deactivate"
    /\ beat' = "unchecked"
    /\ UNCHANGED <<balance, written, active, age, call, touching, timeouts>>

\* Every cycle, not once a day, and whether or not the deactivation succeeded.
ReplenishBudget ==
    /\ beat \in {"replenish", "unchecked"}
    /\ beat' = "idle"
    /\ IF active /\ balance < Daily
         THEN balance' = Daily /\ written' = Daily
         ELSE UNCHANGED <<balance, written>>
    /\ UNCHANGED <<active, age, call, touching, timeouts>>

ReplenishFails ==
    /\ beat \in {"replenish", "unchecked"}
    /\ beat' = "idle"
    /\ UNCHANGED <<balance, written, active, age, call, touching, timeouts>>

-----------------------------------------------------------------------------
(* Faults.                                                                 *)

BridgeCrash ==
    /\ call' = [c \in Calls |-> NoCall]
    /\ touching' = {}
    /\ UNCHANGED <<balance, written, active, age, beat, timeouts>>

\* cycle_timeout_secs, or a crash of the heartbeat.
CycleTimeout ==
    /\ beat # "idle"
    /\ timeouts < MaxTimeouts
    /\ timeouts' = timeouts + 1
    /\ beat' = "idle"
    /\ UNCHANGED <<balance, written, active, age, call, touching>>

-----------------------------------------------------------------------------
CallStep(c) == CheckBudget(c) \/ DeductBudget(c) \/ RunForFree(c) \/ Refuse(c)

Cycle ==
    \/ ActivateRecent
    \/ DeactivateStale \/ DeactivateFails
    \/ ReplenishBudget \/ ReplenishFails

BudgetNext ==
    \/ \E c \in Calls : Admit(c) \/ Touch(c) \/ CallStep(c)
    \/ \E tokens \in Grants : SetBudget(tokens)
    \/ Cycle
    \/ BridgeCrash \/ CycleTimeout

BudgetSpec == BudgetInit /\ [][BudgetNext]_budgetVars

\* The agent keeps asking, calls end, the heartbeat's cycles go on, and neither a
\* crash hits the UPDATE of last_seen nor a failure the top-up every single time.
BudgetFairSpec ==
    /\ BudgetSpec
    /\ \A c \in Calls : WF_budgetVars(Admit(c)) /\ SF_budgetVars(Touch(c))
                          /\ WF_budgetVars(CallStep(c))
    /\ WF_budgetVars(Cycle) /\ SF_budgetVars(active /\ ReplenishBudget)

-----------------------------------------------------------------------------
(* Properties.                                                             *)

BudgetTypeOK ==
    /\ balance \in Int /\ written \in Int
    /\ active \in BOOLEAN
    /\ age \in 0..(StaleCycles + 1)
    /\ call \in [Calls -> CallStates]
    /\ touching \subseteq Calls
    /\ beat \in {"idle", "deactivate", "replenish", "unchecked"}
    /\ timeouts \in 0..MaxTimeouts

\* The balance is compared before a tool runs and charged after it, and all
\* the calls that run at once may have seen the same tokens: the agent goes
\* into debt, but by no more than one dearest call each, below zero or below the
\* negative amount that was written last, however calls, grants, top-ups, crashes,
\* timeouts and failures interleave (check_budget, deduct_budget, set_budget).
OverdraftIsBounded ==
    balance >= (IF written < 0 THEN written ELSE 0) - Cardinality(Calls) * MaxCost

\* Tokens come from set_budget or to an agent seen within the stale window: an
\* agent that fell silent is deactivated before it is topped up, also when
\* cycles are cut off and its last calls return late.  The one exception is a
\* cycle whose own deactivation failed, which tops up all the same.
SilenceIsNotPaid ==
    [][balance' > balance =>
         \/ \E tokens \in Grants : SetBudget(tokens)
         \/ active /\ (age <= StaleCycles \/ beat = "unchecked")]_budgetVars

\* An agent that cannot pay is not locked out: its refused calls still mark it
\* as seen, so the heartbeat tops it up, even if it was deactivated or in debt
\* (auth_middleware before tool_dispatch, replenish_budgets).
Exhausted == balance < MaxCost
ExhaustionEnds == Exhausted ~> ~Exhausted
=============================================================================
