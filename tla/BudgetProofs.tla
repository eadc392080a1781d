----------------------------- MODULE BudgetProofs -----------------------------
(* Proofs about Budget, for any number of calls, costs and grants.           *)
EXTENDS Budget, FiniteSetTheorems, TLAPS

-----------------------------------------------------------------------------
(* Types.                                                                    *)

LEMMA NoCallOK == NoCall \in CallStates
  BY BudgetAssumption DEF NoCall, CallStates, Costs

LEMMA RunningOK ==
  ASSUME NEW r \in CallStates
  PROVE  [r EXCEPT !.pc = "running"] \in CallStates
  BY DEF CallStates

\* The types are kept by every step.
THEOREM BudgetTypeCorrect == BudgetSpec => []BudgetTypeOK
<1>1. BudgetInit => BudgetTypeOK
  <2> SUFFICES ASSUME BudgetInit PROVE BudgetTypeOK
    OBVIOUS
  <2>1. active \in BOOLEAN /\ touching \subseteq Calls
    BY Zenon DEF BudgetInit
  <2>2. balance \in Int /\ written \in Int /\ age \in 0..(StaleCycles + 1) /\ timeouts \in 0..MaxTimeouts
    BY BudgetAssumption DEF BudgetInit
  <2>3. call \in [Calls -> CallStates]
    BY NoCallOK DEF BudgetInit
  <2> QED BY <2>1, <2>2, <2>3 DEF BudgetTypeOK, BudgetInit
<1>2. BudgetTypeOK /\ [BudgetNext]_budgetVars => BudgetTypeOK'
  <2> SUFFICES ASSUME BudgetTypeOK, [BudgetNext]_budgetVars PROVE BudgetTypeOK'
    OBVIOUS
  <2> USE BudgetAssumption DEF BudgetTypeOK
  <2>1. CASE UNCHANGED budgetVars
    BY <2>1 DEF budgetVars
  <2>2. ASSUME NEW c \in Calls, Admit(c) PROVE BudgetTypeOK'
    <3>1. PICK k \in Costs : call' = [call EXCEPT ![c] = [pc |-> "check", cost |-> k]]
      BY <2>2 DEF Admit
    <3>2. call' \in [Calls -> CallStates]
      BY <3>1 DEF CallStates
    <3> QED BY <2>2, <3>2 DEF Admit
  <2>3. ASSUME NEW c \in Calls, Touch(c) PROVE BudgetTypeOK'
    BY <2>3 DEF Touch
  <2>4. ASSUME NEW c \in Calls, CallStep(c) PROVE BudgetTypeOK'
    <3>1. call' \in [Calls -> CallStates]
      BY <2>4, NoCallOK, RunningOK
         DEF CallStep, CheckBudget, DeductBudget, RunForFree, Refuse, Returns
    <3>2. call[c].cost \in Int
      BY DEF CallStates, Costs
    <3>3. balance' \in Int
      BY <2>4, <3>2 DEF CallStep, CheckBudget, DeductBudget, RunForFree, Refuse
    <3>4. UNCHANGED <<written, active, age, touching, beat, timeouts>>
      BY <2>4 DEF CallStep, CheckBudget, DeductBudget, RunForFree, Refuse
    <3> QED BY <3>1, <3>3, <3>4
  <2>5. ASSUME NEW tokens \in Grants, SetBudget(tokens) PROVE BudgetTypeOK'
    BY <2>5 DEF SetBudget
  <2>6. CASE ActivateRecent
    <3>1. active' \in BOOLEAN
      BY <2>6, Zenon DEF ActivateRecent
    <3>2. age' \in 0..(StaleCycles + 1)
      BY <2>6 DEF ActivateRecent
    <3> QED BY <2>6, <3>1, <3>2 DEF ActivateRecent
  <2>7. CASE DeactivateStale \/ DeactivateFails
    BY <2>7 DEF DeactivateStale, DeactivateFails
  <2>8. CASE ReplenishBudget \/ ReplenishFails
    BY <2>8 DEF ReplenishBudget, ReplenishFails
  <2>9. CASE BridgeCrash
    <3>1. call' \in [Calls -> CallStates]
      BY <2>9, NoCallOK DEF BridgeCrash
    <3> QED BY <2>9, <3>1 DEF BridgeCrash
  <2>10. CASE CycleTimeout
    BY <2>10 DEF CycleTimeout
  <2> QED BY <2>1, <2>2, <2>3, <2>4, <2>5, <2>6, <2>7, <2>8, <2>9, <2>10
          DEF BudgetNext, Cycle
<1> QED BY <1>1, <1>2, PTL DEF BudgetSpec

-----------------------------------------------------------------------------
(* The bound on the overdraft.                                               *)

\* The calls that will still charge something.
Charging == {c \in Calls : call[c].pc = "running" /\ call[c].cost > 0}

\* What the agent may still be down to when n calls have yet to charge.
Floor(n) == (n - Cardinality(Calls)) * MaxCost

\* Where the debt begins: zero, or the negative amount that was written last.
Base == IF written < 0 THEN written ELSE 0

FloorHolds == balance >= Base + Floor(Cardinality(Charging))

LEMMA FloorStep ==
  ASSUME NEW n \in Int
  PROVE  Floor(n) \in Int /\ Floor(n + 1) = Floor(n) + MaxCost
<1>1. Cardinality(Calls) \in Int
  BY FS_CardinalityType, BudgetAssumption
<1> DEFINE k == n - Cardinality(Calls)
<1>2. k \in Int /\ (n + 1) - Cardinality(Calls) = k + 1 /\ MaxCost \in Int
  BY <1>1, BudgetAssumption
<1>3. ASSUME NEW i \in Int, NEW j \in Int PROVE i * j \in Int /\ (i + 1) * j = i * j + j
  OBVIOUS
<1>4. k * MaxCost \in Int /\ (k + 1) * MaxCost = k * MaxCost + MaxCost
  BY <1>2, <1>3
<1> QED BY <1>2, <1>4 DEF Floor

\* The floor is never above zero, and lowest when nobody has yet to charge.
LEMMA FloorRange ==
  ASSUME NEW n \in Nat, n <= Cardinality(Calls)
  PROVE  Floor(n) <= 0 /\ Floor(0) <= Floor(n)
<1>1. Cardinality(Calls) \in Nat /\ MaxCost \in Nat
  BY FS_CardinalityType, BudgetAssumption
<1>2. ASSUME NEW i \in Nat, NEW j \in Nat PROVE i * j \in Nat
  OBVIOUS
<1>3. (Cardinality(Calls) - n) * MaxCost \in Nat /\ n * MaxCost \in Nat
  BY <1>1, <1>2
<1>4. ASSUME NEW a \in Int, NEW b \in Int, NEW m \in Int
      PROVE  (a - b) * m = -((b - a) * m) /\ (a - b) * m = (0 - b) * m + a * m
  OBVIOUS
<1>5. Floor(n) = -((Cardinality(Calls) - n) * MaxCost) /\ Floor(n) = Floor(0) + n * MaxCost
  BY <1>1, <1>4 DEF Floor
<1>6. Floor(0) \in Int
  BY FloorStep
<1> QED BY <1>3, <1>5, <1>6

LEMMA ChargingCount ==
  /\ IsFiniteSet(Charging)
  /\ Cardinality(Charging) \in Nat
  /\ Cardinality(Charging) <= Cardinality(Calls)
  BY FS_Subset, FS_CardinalityType, BudgetAssumption DEF Charging

LEMMA ChargingCountNext ==
  /\ IsFiniteSet(Charging')
  /\ Cardinality(Charging') \in Nat
  /\ Cardinality(Charging') <= Cardinality(Calls)
  BY FS_Subset, FS_CardinalityType, BudgetAssumption DEF Charging

LEMMA FloorMonotone ==
  ASSUME NEW a \in Int, NEW b \in Int, a <= b
  PROVE  Floor(a) <= Floor(b)
<1>1. Cardinality(Calls) \in Int /\ MaxCost \in Nat
  BY FS_CardinalityType, BudgetAssumption
<1>2. ASSUME NEW i \in Nat, NEW j \in Nat PROVE i * j \in Nat
  OBVIOUS
<1>3. (b - a) * MaxCost \in Nat
  BY <1>1, <1>2
<1>4. ASSUME NEW c \in Int, NEW m \in Int PROVE (b - c) * m = (a - c) * m + (b - a) * m
  OBVIOUS
<1>5. Floor(b) = Floor(a) + (b - a) * MaxCost
  BY <1>1, <1>4 DEF Floor
<1> QED BY <1>3, <1>5, FloorStep

\* A step that charges and writes nothing and lets nobody run keeps the bound.
LEMMA NobodyNew ==
  ASSUME BudgetTypeOK, BudgetTypeOK', FloorHolds, Charging' \subseteq Charging,
         balance' >= balance, written' = written
  PROVE  FloorHolds'
<1>1. Cardinality(Charging') <= Cardinality(Charging)
  BY ChargingCount, FS_Subset
<1>2. Floor(Cardinality(Charging')) <= Floor(Cardinality(Charging))
  BY <1>1, ChargingCount, ChargingCountNext, FloorMonotone
<1>3. Floor(Cardinality(Charging')) \in Int /\ Floor(Cardinality(Charging)) \in Int
  BY ChargingCount, ChargingCountNext, FloorStep
<1> QED BY <1>2, <1>3 DEF FloorHolds, Base, BudgetTypeOK

\* A balance at the base or above keeps it, whoever runs.
LEMMA NotInDebt ==
  ASSUME BudgetTypeOK', balance' >= Base'
  PROVE  FloorHolds'
<1>1. Floor(Cardinality(Charging')) <= 0
  BY ChargingCountNext, FloorRange
<1>2. Floor(Cardinality(Charging')) \in Int
  BY ChargingCountNext, FloorStep
<1> QED BY <1>1, <1>2 DEF FloorHolds, Base, BudgetTypeOK

LEMMA ChargeKeepsFloor ==
  ASSUME BudgetTypeOK, BudgetTypeOK', FloorHolds, NEW c \in Calls, DeductBudget(c)
  PROVE  FloorHolds'
<1>1. call[c] \in CallStates /\ call[c].cost \in 0..MaxCost
  BY DEF BudgetTypeOK, CallStates, Costs
<1>2. /\ call' = [call EXCEPT ![c] = NoCall]
      /\ balance' = balance - call[c].cost
      /\ written' = written
  BY DEF DeductBudget, Returns
<1>3. Charging' = Charging \ {c}
  BY <1>2 DEF Charging, NoCall, BudgetTypeOK
<1>4. CASE call[c].cost = 0
  BY <1>2, <1>3, <1>4, NobodyNew DEF BudgetTypeOK
<1>5. CASE call[c].cost > 0
  <2>1. c \in Charging
    BY <1>5 DEF Charging, DeductBudget
  <2>2. Cardinality(Charging) = Cardinality(Charging') + 1
    <3>1. Cardinality(Charging \ {c}) = Cardinality(Charging) - 1
      BY <2>1, ChargingCount, FS_RemoveElement
    <3> QED BY <1>3, <3>1, ChargingCount
  <2>3. Floor(Cardinality(Charging)) = Floor(Cardinality(Charging')) + MaxCost
    BY <2>2, ChargingCountNext, FloorStep
  <2>4. Floor(Cardinality(Charging')) \in Int
    BY ChargingCountNext, FloorStep
  <2> QED BY <1>1, <1>2, <2>3, <2>4, BudgetAssumption DEF FloorHolds, Base, BudgetTypeOK
<1> QED BY <1>1, <1>4, <1>5

\* The debt of an agent, below zero or the negative amount written last, is at
\* most one dearest call for each call handled at the same time, for any number of
\* calls, price list, grants and top-up, whatever sign they have.
THEOREM OverdraftBounded == BudgetSpec => []OverdraftIsBounded
<1>1. BudgetInit /\ BudgetTypeOK => FloorHolds
  <2> SUFFICES ASSUME BudgetInit PROVE FloorHolds
    OBVIOUS
  <2>1. Floor(Cardinality(Charging)) <= 0 /\ Floor(Cardinality(Charging)) \in Int
    BY ChargingCount, FloorRange, FloorStep
  <2> QED BY <2>1 DEF FloorHolds, Base, BudgetInit
<1>2. BudgetTypeOK /\ BudgetTypeOK' /\ FloorHolds /\ [BudgetNext]_budgetVars => FloorHolds'
  <2> SUFFICES ASSUME BudgetTypeOK, BudgetTypeOK', FloorHolds, [BudgetNext]_budgetVars
               PROVE  FloorHolds'
    OBVIOUS
  <2>1. CASE UNCHANGED <<balance, written, call>>
    <3>1. Charging' = Charging
      BY <2>1 DEF Charging
    <3> QED BY <2>1, <3>1 DEF FloorHolds, Base
  <2>2. ASSUME NEW c \in Calls, Admit(c) PROVE FloorHolds'
    <3>1. Charging' \subseteq Charging
      BY <2>2 DEF Admit, Charging, BudgetTypeOK
    <3> QED BY <2>2, <3>1, NobodyNew DEF Admit, BudgetTypeOK
  <2>3. ASSUME NEW c \in Calls, CheckBudget(c) PROVE FloorHolds'
    <3>1. call[c] \in CallStates /\ call[c].cost \in Nat
      BY BudgetAssumption DEF BudgetTypeOK, CallStates, Costs
    <3>2. CASE Affordable(c) /\ call[c].cost > 0
      BY <2>3, <3>1, <3>2, NotInDebt DEF CheckBudget, Affordable, Base, BudgetTypeOK
    <3>3. CASE ~(Affordable(c) /\ call[c].cost > 0)
      <4>1. Charging' \subseteq Charging
        BY <2>3, <3>1, <3>3 DEF CheckBudget, Returns, NoCall, Charging, BudgetTypeOK, CallStates
      <4> QED BY <2>3, <4>1, NobodyNew DEF CheckBudget, BudgetTypeOK
    <3> QED BY <3>2, <3>3
  <2>4. ASSUME NEW c \in Calls, RunForFree(c) \/ Refuse(c) PROVE FloorHolds'
    <3>1. Charging' \subseteq Charging
      BY <2>4 DEF RunForFree, Refuse, Returns, NoCall, Charging, BudgetTypeOK
    <3> QED BY <2>4, <3>1, NobodyNew DEF RunForFree, Refuse, BudgetTypeOK
  <2>5. ASSUME NEW c \in Calls, DeductBudget(c) PROVE FloorHolds'
    BY <2>5, ChargeKeepsFloor
  <2>6. ASSUME NEW tokens \in Grants, SetBudget(tokens) PROVE FloorHolds'
    BY <2>6, NotInDebt, BudgetAssumption DEF SetBudget, Base
  <2>7. CASE ReplenishBudget
    <3>1. CASE active /\ balance < Daily
      BY <2>7, <3>1, NotInDebt, BudgetAssumption DEF ReplenishBudget, Base
    <3>2. CASE ~(active /\ balance < Daily)
      BY <2>1, <2>7, <3>2 DEF ReplenishBudget
    <3> QED BY <3>1, <3>2
  <2>8. CASE BridgeCrash
    <3>1. Charging' \subseteq Charging
      BY <2>8 DEF BridgeCrash, NoCall, Charging
    <3> QED BY <2>8, <3>1, NobodyNew DEF BridgeCrash, BudgetTypeOK
  <2>9. ASSUME NEW c \in Calls, Touch(c) PROVE FloorHolds'
    BY <2>1, <2>9 DEF Touch
  <2>10. CASE \/ ActivateRecent \/ DeactivateStale \/ DeactivateFails
              \/ ReplenishFails \/ CycleTimeout \/ UNCHANGED budgetVars
    BY <2>1, <2>10 DEF ActivateRecent, DeactivateStale, DeactivateFails, ReplenishFails,
                       CycleTimeout, budgetVars
  <2> QED BY <2>2, <2>3, <2>4, <2>5, <2>6, <2>7, <2>8, <2>9, <2>10
          DEF BudgetNext, CallStep, Cycle
<1>3. BudgetTypeOK /\ FloorHolds => OverdraftIsBounded
  <2> SUFFICES ASSUME BudgetTypeOK, FloorHolds PROVE OverdraftIsBounded
    OBVIOUS
  <2>1. Floor(0) <= Floor(Cardinality(Charging))
    BY ChargingCount, FloorRange
  <2>2. Cardinality(Calls) \in Nat /\ MaxCost \in Nat
    BY FS_CardinalityType, BudgetAssumption
  <2>3. ASSUME NEW n \in Nat, NEW m \in Nat PROVE n * m \in Nat /\ (0 - n) * m = -(n * m)
    OBVIOUS
  <2>4. Floor(0) = -(Cardinality(Calls) * MaxCost) /\ Floor(0) \in Int
    BY <2>2, <2>3, FloorStep DEF Floor
  <2>5. Floor(Cardinality(Charging)) \in Int
    BY ChargingCount, FloorStep
  <2> DEFINE debt == Cardinality(Calls) * MaxCost
  <2>6. debt \in Nat
    BY <2>2, <2>3
  <2>7. ASSUME NEW f \in Int, NEW d \in Nat, balance >= Base + f, -d <= f
        PROVE  balance >= Base - d
    BY <2>7 DEF Base, BudgetTypeOK
  <2>8. balance >= Base - debt
    BY <2>1, <2>4, <2>5, <2>6, <2>7 DEF FloorHolds
  <2> QED BY <2>8 DEF OverdraftIsBounded, Base
<1> QED BY <1>1, <1>2, <1>3, BudgetTypeCorrect, PTL DEF BudgetSpec

-----------------------------------------------------------------------------
(* Who is topped up.                                                         *)

\* A cycle whose deactivation succeeded finds active agents only that were seen
\* lately.
StaleAreInactive == beat = "replenish" /\ active => age <= StaleCycles

\* Tokens are written by set_budget, for an agent seen within the window, or in a
\* cycle whose deactivation failed.
THEOREM SilenceUnpaid == BudgetSpec => SilenceIsNotPaid
<1>1. BudgetInit => StaleAreInactive
  BY DEF BudgetInit, StaleAreInactive
<1>2. BudgetTypeOK /\ StaleAreInactive /\ [BudgetNext]_budgetVars => StaleAreInactive'
  <2> SUFFICES ASSUME BudgetTypeOK, StaleAreInactive, [BudgetNext]_budgetVars
               PROVE  StaleAreInactive'
    OBVIOUS
  <2> USE BudgetAssumption DEF StaleAreInactive
  <2>1. CASE UNCHANGED <<beat, active, age>>
    BY <2>1
  <2>2. ASSUME NEW c \in Calls, Touch(c) PROVE StaleAreInactive'
    BY <2>2 DEF Touch
  <2>3. CASE Cycle \/ CycleTimeout
    BY <2>3 DEF Cycle, ActivateRecent, DeactivateStale, DeactivateFails, ReplenishBudget,
                ReplenishFails, CycleTimeout
  <2>4. ASSUME NEW c \in Calls, Admit(c) \/ CallStep(c) PROVE UNCHANGED <<beat, active, age>>
    BY <2>4 DEF Admit, CallStep, CheckBudget, DeductBudget, RunForFree, Refuse
  <2>5. ASSUME NEW tokens \in Grants, SetBudget(tokens) PROVE UNCHANGED <<beat, active, age>>
    BY <2>5 DEF SetBudget
  <2>6. CASE BridgeCrash \/ UNCHANGED budgetVars
    BY <2>1, <2>6 DEF BridgeCrash, budgetVars
  <2> QED BY <2>1, <2>2, <2>3, <2>4, <2>5, <2>6 DEF BudgetNext
<1>3. BudgetTypeOK /\ BudgetTypeOK' /\ StaleAreInactive /\ [BudgetNext]_budgetVars
        => [balance' > balance =>
              \/ \E tokens \in Grants : SetBudget(tokens)
              \/ active /\ (age <= StaleCycles \/ beat = "unchecked")]_budgetVars
  <2> SUFFICES ASSUME BudgetTypeOK, BudgetTypeOK', StaleAreInactive, BudgetNext,
                      balance' > balance,
                      ~ \E tokens \in Grants : SetBudget(tokens)
               PROVE  active /\ (age <= StaleCycles \/ beat = "unchecked")
    OBVIOUS
  <2>1. ASSUME NEW c \in Calls, Admit(c) \/ Touch(c) \/ CallStep(c) PROVE balance' <= balance
    <3>1. call[c].cost \in Nat
      BY BudgetAssumption DEF BudgetTypeOK, CallStates, Costs
    <3> QED BY <2>1, <3>1
            DEF Admit, Touch, CallStep, CheckBudget, DeductBudget, RunForFree, Refuse, BudgetTypeOK
  <2>2. ASSUME \/ ActivateRecent \/ DeactivateStale \/ DeactivateFails \/ ReplenishFails
               \/ BridgeCrash \/ CycleTimeout
        PROVE  balance' <= balance
    BY <2>2 DEF ActivateRecent, DeactivateStale, DeactivateFails, ReplenishFails, BridgeCrash,
                CycleTimeout, BudgetTypeOK
  <2>3. CASE ReplenishBudget
    BY <2>3 DEF ReplenishBudget, StaleAreInactive, BudgetTypeOK
  <2>4. ~(balance' <= balance) \/ ReplenishBudget
    BY DEF BudgetTypeOK
  <2> QED BY <2>1, <2>2, <2>3, <2>4 DEF BudgetNext, Cycle
<1> QED BY <1>1, <1>2, <1>3, BudgetTypeCorrect, PTL DEF BudgetSpec, SilenceIsNotPaid
=============================================================================
