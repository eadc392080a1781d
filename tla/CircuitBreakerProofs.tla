------------------------ MODULE CircuitBreakerProofs ------------------------
(* Proofs about CircuitBreaker, for any number of concurrent requests.     *)
EXTENDS CircuitBreaker, TLAPS

LEMMA IdleOK == Idle \in CallerStates
  BY DEF Idle, CallerStates

LEMMA MoveOK ==
  ASSUME NEW r \in CallerStates,
         NEW pc \in {"idle", "count", "stamp", "swap", "calling", "closing", "failing",
                     "stamping", "freeing"}
  PROVE  [r EXCEPT !.pc = pc] \in CallerStates
  BY DEF CallerStates

LEMMA PassOK ==
  ASSUME NEW r \in CallerStates, NEW probing \in BOOLEAN
  PROVE  /\ [r EXCEPT !.pc = "calling", !.probing = probing] \in CallerStates
         /\ [r EXCEPT !.pc = "count", !.plan = "call"] \in CallerStates
  BY DEF CallerStates

\* What Passes writes, by plan.
LEMMA PassesTo ==
  ASSUME NEW c \in Callers, NEW probing \in BOOLEAN, caller[c] \in CallerStates, Passes(c, probing)
  PROVE  \E r \in CallerStates :
            /\ caller' = [caller EXCEPT ![c] = r]
            /\ caller[c].plan = "call" =>
                 r = [caller[c] EXCEPT !.pc = "calling", !.probing = probing]
<1>1. CASE caller[c].plan = "call"
  BY <1>1, PassOK DEF Passes
<1>2. CASE caller[c].plan = "peek"
  BY <1>2, IdleOK DEF Passes
<1>3. CASE caller[c].plan = "recheck"
  BY <1>3, PassOK DEF Passes
<1>4. caller[c].plan \in {"call", "peek", "recheck"}
  BY DEF CallerStates
<1> QED BY <1>1, <1>2, <1>3, <1>4

\* The types and bounds are kept whatever requests do with the breaker.
THEOREM BreakerTypeCorrect == Spec => []TypeOK
<1>1. Init => TypeOK
  <2> SUFFICES ASSUME Init PROVE TypeOK
    OBVIOUS
  <2>1. failures \in Nat
    BY DEF Init
  <2>2. cooling \in BOOLEAN /\ probe \in BOOLEAN
    BY Zenon DEF Init
  <2>3. caller \in [Callers -> CallerStates]
    BY IdleOK DEF Init
  <2> QED BY <2>1, <2>2, <2>3 DEF TypeOK
<1>2. TypeOK /\ [Next]_vars => TypeOK'
  <2> SUFFICES ASSUME TypeOK, [Next]_vars PROVE TypeOK'
    OBVIOUS
  <2>1. CASE UNCHANGED vars
    BY <2>1 DEF vars, TypeOK
  <2>2. CASE Cool
    BY <2>2 DEF Cool, TypeOK
  <2>3. ASSUME NEW c \in Callers, CallerNext(c) PROVE TypeOK'
    <3>1. caller[c] \in CallerStates
      BY DEF TypeOK
    <3>2. failures' \in Nat
      <4>1. failures' = failures \/ failures' = failures + 1 \/ failures' = 0
        BY <2>3, Zenon DEF CallerNext, Begin, Check, LoadFailures, LoadStamp, TakeProbe,
           Succeed, Fail, Record, ResetFailures, CountFailure, StampFailure, FreeProbe
      <4> QED BY <4>1 DEF TypeOK
    <3>3. cooling' \in BOOLEAN /\ probe' \in BOOLEAN
      BY <2>3, Zenon DEF TypeOK, CallerNext, Begin, Check, LoadFailures, LoadStamp,
         TakeProbe, Succeed, Fail, Record, ResetFailures, CountFailure, StampFailure,
         FreeProbe
    <3> SUFFICES caller' \in [Callers -> CallerStates]
      BY <3>2, <3>3 DEF TypeOK
    <3>4. CASE \E plan \in Plans : Begin(c, plan)
      <4>1. PICK plan \in Plans :
              caller' = [caller EXCEPT ![c] = [Idle EXCEPT !.pc = "count", !.plan = plan]]
        BY <3>4 DEF Begin
      <4>2. [Idle EXCEPT !.pc = "count", !.plan = plan] \in CallerStates
        BY BreakerAssumption DEF Idle, CallerStates
      <4> QED BY <4>1, <4>2 DEF TypeOK
    <3>5. CASE \E probing \in BOOLEAN : Passes(c, probing)
      BY <3>1, <3>5, PassesTo DEF TypeOK
    <3>6. CASE Rejected(c)
      BY <3>6, IdleOK DEF Rejected, TypeOK
    <3>7. ASSUME NEW pc \in {"idle", "count", "stamp", "swap", "calling", "closing",
                             "failing", "stamping", "freeing"},
                 caller' = [caller EXCEPT ![c].pc = pc]
          PROVE  caller' \in [Callers -> CallerStates]
      <4>1. caller' = [caller EXCEPT ![c] = [caller[c] EXCEPT !.pc = pc]]
        BY <3>7
      <4> QED BY <4>1, <3>1, MoveOK DEF TypeOK
    <3>8. CASE LoadFailures(c) \/ LoadStamp(c) \/ TakeProbe(c)
      BY <3>8, <3>5, <3>6, <3>7 DEF LoadFailures, LoadStamp, TakeProbe, Moves
    <3>9. CASE Succeed(c) \/ Fail(c) \/ Record(c)
      BY <3>9, <3>6, <3>7 DEF Succeed, Fail, Record, ResetFailures, CountFailure,
         StampFailure, FreeProbe, Moves
    <3> QED BY <2>3, <3>4, <3>8, <3>9, Zenon DEF CallerNext, Check
  <2> QED BY <2>1, <2>2, <2>3 DEF Next
<1> QED BY <1>1, <1>2, PTL DEF Spec

\* Where a check of a request that goes on to call leaves it.
LEMMA CheckMoves ==
  ASSUME NEW c \in Callers, caller[c].plan = "call", Check(c)
  PROVE  \/ caller' = [caller EXCEPT ![c] = Idle]
         \/ \E pc : caller' = [caller EXCEPT ![c].pc = pc]
         \/ \E probing : caller' = [caller EXCEPT ![c] =
               [caller[c] EXCEPT !.pc = "calling", !.probing = probing]]
<1>1. CASE LoadFailures(c) /\ failures < Threshold
  BY <1>1 DEF LoadFailures, Passes
<1>2. CASE LoadFailures(c) /\ ~(failures < Threshold)
  BY <1>2 DEF LoadFailures, Moves
<1>3. CASE LoadStamp(c)
  BY <1>3 DEF LoadStamp, Rejected, Moves
<1>4. CASE TakeProbe(c) /\ probe
  BY <1>4 DEF TakeProbe, Rejected
<1>5. CASE TakeProbe(c) /\ ~probe
  BY <1>5 DEF TakeProbe, Passes
<1> QED BY <1>1, <1>2, <1>3, <1>4, <1>5 DEF Check

-----------------------------------------------------------------------------
\* Every request calls and records: what is_open's users must do.
OnlyCalls == \A c \in Callers : caller[c].plan = "call"

LEMMA CallsOnly ==
  ASSUME Plans = {"call"}
  PROVE  Spec => []OnlyCalls
<1>1. Init => OnlyCalls
  BY DEF Init, OnlyCalls, Idle
<1>2. TypeOK /\ OnlyCalls /\ [Next]_vars => OnlyCalls'
  <2> SUFFICES ASSUME TypeOK, OnlyCalls, [Next]_vars PROVE OnlyCalls'
    OBVIOUS
  <2> USE DEF TypeOK, CallerStates, OnlyCalls, Idle, Moves, Rejected
  <2>1. CASE UNCHANGED vars
    BY <2>1 DEF vars
  <2>2. CASE Cool
    BY <2>2 DEF Cool
  <2>3. ASSUME NEW c \in Callers, CallerNext(c) PROVE OnlyCalls'
    <3>1. ASSUME NEW plan \in Plans, Begin(c, plan) PROVE OnlyCalls'
      BY <3>1, Plans = {"call"} DEF Begin
    <3>2. CASE Check(c)
      <4>1. CASE caller' = [caller EXCEPT ![c] = Idle]
        BY <4>1
      <4>2. ASSUME NEW pc, caller' = [caller EXCEPT ![c].pc = pc] PROVE OnlyCalls'
        BY <4>2
      <4>3. ASSUME NEW probing,
                   caller' = [caller EXCEPT ![c] =
                                [caller[c] EXCEPT !.pc = "calling", !.probing = probing]]
            PROVE  OnlyCalls'
        BY <4>3
      <4> HIDE DEF OnlyCalls, TypeOK, CallerStates, Idle
      <4>4. caller[c].plan = "call"
        BY DEF OnlyCalls
      <4> QED BY <3>2, <4>1, <4>2, <4>3, <4>4, CheckMoves
    <3>3. CASE Succeed(c) \/ Fail(c)
      BY <3>3 DEF Succeed, Fail
    <3>4. CASE Record(c)
      BY <3>4 DEF Record, ResetFailures, CountFailure, StampFailure, FreeProbe
    <3> QED BY <2>3, <3>1, <3>2, <3>3, <3>4 DEF CallerNext
  <2> QED BY <2>1, <2>2, <2>3 DEF Next
<1> QED BY <1>1, <1>2, BreakerTypeCorrect, PTL DEF Spec

\* When every request that is let through makes its call and records the
\* outcome, the flag of the half-open window always has an owner that will
\* clear it: the breaker does not lock itself, whatever the interleaving.
THEOREM FlagHasAnOwner ==
  ASSUME Plans = {"call"}
  PROVE  Spec => []ProbeIsOwned
<1>1. Init => ProbeIsOwned
  BY DEF Init, ProbeIsOwned
<1>2. TypeOK /\ OnlyCalls /\ ProbeIsOwned /\ [Next]_vars => ProbeIsOwned'
  <2> SUFFICES ASSUME TypeOK, OnlyCalls, ProbeIsOwned, [Next]_vars, probe'
               PROVE  \E c \in Callers : Probing(c)'
    BY DEF ProbeIsOwned
  <2> USE DEF TypeOK, CallerStates, Probing, Recording, Moves, Rejected, Idle
  <2>1. CASE UNCHANGED vars
    BY <2>1 DEF vars, ProbeIsOwned
  <2>2. CASE Cool
    BY <2>2 DEF Cool, ProbeIsOwned
  <2>3. ASSUME NEW c \in Callers, CallerNext(c) PROVE \E d \in Callers : Probing(d)'
    <3>1. CASE TakeProbe(c) /\ ~probe
      <4>1. caller' = [caller EXCEPT ![c] =
                         [@ EXCEPT !.pc = "calling", !.probing = TRUE]]
        BY <3>1 DEF TakeProbe, Passes, OnlyCalls
      <4> QED BY <4>1
    <3>2. CASE FreeProbe(c)
      BY <3>2 DEF FreeProbe
    <3>3. CASE ~(TakeProbe(c) /\ ~probe) /\ ~FreeProbe(c)
      <4>1. probe
        BY <2>3, <3>3 DEF CallerNext, Begin, Check, LoadFailures, LoadStamp, TakeProbe,
             Succeed, Fail, Record, ResetFailures, CountFailure, StampFailure
      <4>2. PICK d \in Callers : Probing(d)
        BY <4>1 DEF ProbeIsOwned
      <4>3. CASE d # c
        <5>1. caller'[d] = caller[d]
          BY <2>3, <4>3 DEF CallerNext, Begin, Check, LoadFailures, LoadStamp, TakeProbe,
             Succeed, Fail, Record, ResetFailures, CountFailure, StampFailure,
             FreeProbe, Passes
        <5> QED BY <4>2, <5>1
      \* A request that owns the flag goes on towards FreeProbe.
      <4>4. CASE d = c
        <5>1. Succeed(c) \/ Fail(c) \/ ResetFailures(c) \/ CountFailure(c)
                \/ StampFailure(c)
          BY <2>3, <3>3, <4>2, <4>4 DEF CallerNext, Begin, Check, LoadFailures,
             LoadStamp, TakeProbe, Record
        <5>2. Probing(c)'
          BY <4>2, <4>4, <5>1 DEF Succeed, Fail, ResetFailures, CountFailure, StampFailure
        <5> QED BY <5>2
      <4> QED BY <4>3, <4>4
    <3> QED BY <3>1, <3>2, <3>3
  <2> QED BY <2>1, <2>2, <2>3 DEF Next
<1> QED BY <1>1, <1>2, BreakerTypeCorrect, CallsOnly, PTL DEF Spec
=============================================================================
