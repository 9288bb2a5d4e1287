------------------------ MODULE CircuitBreakerProofs ------------------------
(***************************************************************************)
(* Proofs about CircuitBreaker, for every finite set of callers and every  *)
(* positive limit.  None of the wanted invariants is inductive alone: the  *)
(* counter can only be related to the slot holders when it is known which  *)
(* callers may hold one (CountedInside), and a callback is only given a   *)
(* state when one is pending (ReportReady), so they are proved together.  *)
(***************************************************************************)
EXTENDS CircuitBreaker, FiniteSetTheorems, TLAPS

\* The inductive invariant of the breaker.
BreakerInv == /\ TypeOK /\ CountedInside /\ ReportReady
              /\ ClosedIffBelowLimit /\ CounterTracksHolders

\* Its conjuncts that do not speak of the counter.
BasicInv == TypeOK /\ CountedInside /\ ReportReady /\ ClosedIffBelowLimit

-----------------------------------------------------------------------------
\* The slot holders are a finite set, no larger than the set of callers.
LEMMA HoldersBounded ==
  /\ IsFiniteSet(Holders)
  /\ Cardinality(Holders) \in Nat
  /\ N \in Nat
  /\ Cardinality(Holders) <= N
<1>1. Holders \subseteq Callers  BY DEF Holders
<1>2. QED  BY <1>1, CallersFinite, FS_Subset, FS_CardinalityType DEF N

\* The same of the next state: Holders' is a subset of Callers whatever the step.
LEMMA HoldersBoundedNext ==
  /\ IsFiniteSet(Holders')
  /\ Cardinality(Holders') \in Nat
  /\ N \in Nat
  /\ Cardinality(Holders') <= N
<1>1. Holders' \subseteq Callers  BY DEF Holders
<1>2. QED  BY <1>1, CallersFinite, FS_Subset, FS_CardinalityType DEF N

\* Zeroing the counter keeps it within its bounds, whoever holds a slot.
LEMMA ZeroTracksHolders ==
  ASSUME halfOpenRequests' = 0
  PROVE  CounterTracksHolders'
<1>1. N' = N  BY DEF N
<1>2. QED  BY <1>1, HoldersBoundedNext DEF CounterTracksHolders

\* A step that changes neither the counter nor the holders keeps the relation.
LEMMA SameTracksHolders ==
  ASSUME CounterTracksHolders, halfOpenRequests' = halfOpenRequests, Holders' = Holders
  PROVE  CounterTracksHolders'
BY DEF CounterTracksHolders

-----------------------------------------------------------------------------
\* The initial state, made by NewCircuitBreaker, satisfies the invariant.
LEMMA BreakerInit == Init => BreakerInv
<1> SUFFICES ASSUME Init PROVE BreakerInv  OBVIOUS
<1>1. TypeOK  BY LimitsPositive DEF Init, TypeOK, States, Steps
<1>2. CountedInside /\ ReportReady  BY DEF Init, CountedInside, ReportReady
<1>3. ClosedIffBelowLimit  BY LimitsPositive DEF Init, ClosedIffBelowLimit
<1>4. CounterTracksHolders
  <2>1. Holders = {}  BY DEF Init, Holders
  <2>2. Cardinality(Holders) = 0  BY <2>1, FS_EmptySet
  <2>3. QED  BY <2>2, HoldersBounded DEF Init, CounterTracksHolders
<1>5. QED  BY <1>1, <1>2, <1>3, <1>4 DEF BreakerInv

\* Every step of an Execute call, the clock and Reset preserve the types, which
\* callers may hold a slot, the pending reports, and the failure-count equivalence.
LEMMA BasicStep ==
  ASSUME BreakerInv, [Next]_breakerVars
  PROVE  BasicInv'
<1> USE LimitsPositive DEF BreakerInv, BasicInv, TypeOK, CountedInside, ReportReady,
                           ClosedIffBelowLimit, States, Steps, Goto
<1>1. ASSUME NEW c \in Callers, CheckState(c)
      PROVE  BasicInv'
  BY <1>1 DEF CheckState, Reject
<1>2. ASSUME NEW c \in Callers, TryHalfOpen(c)
      PROVE  BasicInv'
  BY <1>2 DEF TryHalfOpen, UseCurrentState, Reject
<1>3. ASSUME NEW c \in Callers, Notify(c)
      PROVE  BasicInv'
  BY <1>3 DEF Notify
<1>4. ASSUME NEW c \in Callers, Relock(c)
      PROVE  BasicInv'
  BY <1>4 DEF Relock, UseCurrentState, Reject
<1>5. ASSUME NEW c \in Callers, Increment(c)
      PROVE  BasicInv'
  <2>1. CASE halfOpenRequests + 1 > MaxHalfOpenRequests
    BY <1>5, <2>1 DEF Increment
  <2>2. CASE ~(halfOpenRequests + 1 > MaxHalfOpenRequests)
    <3>1. TypeOK' /\ ClosedIffBelowLimit'
      <4>1. counted' = [counted EXCEPT ![c] = TRUE]  BY <1>5, <2>2 DEF Increment
      <4>2. counted' \in [Callers -> BOOLEAN]  BY <4>1
      <4>3. pc' \in [Callers -> Steps]  BY <1>5, <2>2 DEF Increment
      <4>4. halfOpenRequests' \in Int  BY <1>5 DEF Increment
      <4>5. QED  BY <1>5, <4>2, <4>3, <4>4 DEF Increment
    <3>2. CountedInside' /\ ReportReady'  BY <1>5, <2>2 DEF Increment
    <3>3. QED  BY <3>1, <3>2
  <2>3. QED  BY <2>1, <2>2
<1>6. ASSUME NEW c \in Callers, UndoIncrement(c)
      PROVE  BasicInv'
  BY <1>6 DEF UndoIncrement, Reject
<1>7. ASSUME NEW c \in Callers, Leave(c)
      PROVE  BasicInv'
  BY <1>7 DEF Leave
<1>8. ASSUME NEW c \in Callers, NEW ok \in BOOLEAN, RecordResult(c, ok)
      PROVE  BasicInv'
  BY <1>8 DEF RecordResult, FailuresAfter, StateAfter
<1>9. CASE TimeoutElapses  BY <1>9 DEF TimeoutElapses
<1>10. CASE Reset  BY <1>10 DEF Reset
<1>11. CASE UNCHANGED breakerVars  BY <1>11 DEF breakerVars
<1>12. QED
  BY <1>1, <1>2, <1>3, <1>4, <1>5, <1>6, <1>7, <1>8, <1>9, <1>10, <1>11
     DEF Next, ExecuteNext, Proceed

\* The counter moves with the holders, or is zeroed.
LEMMA CounterStep ==
  ASSUME BreakerInv, [Next]_breakerVars
  PROVE  CounterTracksHolders'
<1> USE DEF BreakerInv, TypeOK
<1>1. ASSUME NEW c \in Callers, CheckState(c)  PROVE CounterTracksHolders'
  <2>1. Holders' = Holders  BY <1>1 DEF CheckState, Reject, Goto, Holders
  <2>2. QED  BY <1>1, <2>1, SameTracksHolders DEF CheckState
<1>2. ASSUME NEW c \in Callers, TryHalfOpen(c)  PROVE CounterTracksHolders'
  <2>1. CASE state = "open" /\ cooled
    BY <1>2, <2>1, ZeroTracksHolders DEF TryHalfOpen
  <2>2. CASE ~(state = "open" /\ cooled)
    <3>1. Holders' = Holders
      BY <1>2, <2>2 DEF TryHalfOpen, UseCurrentState, Reject, Goto, Holders
    <3>2. QED  BY <1>2, <2>2, <3>1, SameTracksHolders DEF TryHalfOpen
  <2>3. QED  BY <2>1, <2>2
<1>3. ASSUME NEW c \in Callers, Notify(c)  PROVE CounterTracksHolders'
  <2>1. Holders' = Holders  BY <1>3 DEF Notify, Goto, Holders
  <2>2. QED  BY <1>3, <2>1, SameTracksHolders DEF Notify
<1>4. ASSUME NEW c \in Callers, Relock(c)  PROVE CounterTracksHolders'
  <2>1. Holders' = Holders  BY <1>4 DEF Relock, UseCurrentState, Reject, Goto, Holders
  <2>2. QED  BY <1>4, <2>1, SameTracksHolders DEF Relock
<1>5. ASSUME NEW c \in Callers, Increment(c)  PROVE CounterTracksHolders'
  <2>1. c \notin Holders  BY <1>5 DEF Increment, Holders, CountedInside
  <2>2. Holders' = Holders \cup {c}  BY <1>5 DEF Increment, Goto, Holders
  <2>3. Cardinality(Holders') = Cardinality(Holders) + 1
    BY <2>1, <2>2, HoldersBounded, FS_AddElement
  <2>4. halfOpenRequests' = halfOpenRequests + 1  BY <1>5 DEF Increment
  <2>5. QED  BY <2>3, <2>4, HoldersBounded DEF CounterTracksHolders
<1>6. ASSUME NEW c \in Callers, UndoIncrement(c)  PROVE CounterTracksHolders'
  <2>1. c \in Holders  BY <1>6 DEF UndoIncrement, Holders
  <2>2. Holders' = Holders \ {c}
    BY <1>6 DEF UndoIncrement, Reject, Goto, Holders, CountedInside
  <2>3. Cardinality(Holders') = Cardinality(Holders) - 1
    BY <2>1, <2>2, HoldersBounded, FS_RemoveElement
  <2>4. halfOpenRequests' = halfOpenRequests - 1  BY <1>6 DEF UndoIncrement
  <2>5. QED  BY <2>3, <2>4, HoldersBounded DEF CounterTracksHolders
<1>7. ASSUME NEW c \in Callers, Leave(c)  PROVE CounterTracksHolders'
  <2>1. CASE counted[c]
    <3>1. c \in Holders  BY <2>1 DEF Holders
    <3>2. Holders' = Holders \ {c}  BY <1>7, <2>1 DEF Leave, Goto, Holders
    <3>3. Cardinality(Holders') = Cardinality(Holders) - 1
      BY <3>1, <3>2, HoldersBounded, FS_RemoveElement
    <3>4. halfOpenRequests' = halfOpenRequests - 1  BY <1>7, <2>1 DEF Leave
    <3>5. QED  BY <3>3, <3>4, HoldersBounded DEF CounterTracksHolders
  <2>2. CASE ~counted[c]
    <3>1. Holders' = Holders  BY <1>7, <2>2 DEF Leave, Goto, Holders
    <3>2. QED  BY <1>7, <2>2, <3>1, SameTracksHolders DEF Leave
  <2>3. QED  BY <2>1, <2>2
<1>8. ASSUME NEW c \in Callers, NEW ok \in BOOLEAN, RecordResult(c, ok)
      PROVE  CounterTracksHolders'
  <2>1. Holders' = Holders  BY <1>8 DEF RecordResult, FailuresAfter, StateAfter, Goto, Holders
  <2>2. halfOpenRequests' = 0 \/ halfOpenRequests' = halfOpenRequests
    BY <1>8 DEF RecordResult, FailuresAfter, StateAfter
  <2>3. QED  BY <2>1, <2>2, SameTracksHolders, ZeroTracksHolders
<1>9. CASE TimeoutElapses
  <2>1. Holders' = Holders  BY <1>9 DEF TimeoutElapses, Holders
  <2>2. QED  BY <1>9, <2>1, SameTracksHolders DEF TimeoutElapses
<1>10. CASE Reset  BY <1>10, ZeroTracksHolders DEF Reset
<1>11. CASE UNCHANGED breakerVars
  <2>1. Holders' = Holders  BY <1>11 DEF breakerVars, Holders
  <2>2. QED  BY <1>11, <2>1, SameTracksHolders DEF breakerVars
<1>12. QED
  BY <1>1, <1>2, <1>3, <1>4, <1>5, <1>6, <1>7, <1>8, <1>9, <1>10, <1>11
     DEF Next, ExecuteNext, Proceed

-----------------------------------------------------------------------------
\* The inductive invariant holds throughout, for any number of goroutines in
\* Execute and with Reset called at any moment.
THEOREM BreakerInvariant == Spec => []BreakerInv
<1>1. Init => BreakerInv  BY BreakerInit
<1>2. BreakerInv /\ [Next]_breakerVars => BreakerInv'
  BY BasicStep, CounterStep DEF BreakerInv, BasicInv
<1>3. QED  BY <1>1, <1>2, PTL DEF Spec

\* Type correctness of the breaker.
THEOREM BreakerTypes == Spec => []TypeOK
BY BreakerInvariant, PTL DEF BreakerInv

\* recordResult keeps "Closed" and "fewer than maxFailures failures" the same thing.
THEOREM BreakerThreshold == Spec => []ClosedIffBelowLimit
BY BreakerInvariant, PTL DEF BreakerInv

\* The half-open counter never drifts from its holders by more than the
\* number of callers, and never above them.
THEOREM BreakerCounter == Spec => []CounterTracksHolders
BY BreakerInvariant, PTL DEF BreakerInv

\* With nobody inside Execute a HalfOpen breaker always has a slot left for
\* the next caller: it cannot wedge, for any limits and any callers.
THEOREM BreakerNeverWedged == Spec => []HalfOpenAdmits
<1>1. BreakerInv => HalfOpenAdmits
  <2> SUFFICES ASSUME BreakerInv, \A c \in Callers : pc[c] = "idle"
               PROVE  halfOpenRequests < MaxHalfOpenRequests
    BY DEF HalfOpenAdmits
  <2>1. Holders = {}  BY DEF BreakerInv, CountedInside, Holders
  <2>2. Cardinality(Holders) = 0  BY <2>1, FS_EmptySet
  <2>3. QED  BY <2>2, LimitsPositive DEF BreakerInv, CounterTracksHolders, TypeOK
<1>2. QED  BY <1>1, BreakerInvariant, PTL
=============================================================================
