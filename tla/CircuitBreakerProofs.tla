------------------------ MODULE CircuitBreakerProofs ------------------------
(* The breaker's safety for any number of callers, threshold and cooldown. *)
EXTENDS CircuitBreaker, TLAPS

\* The two invariants are inductive together with the types: recordSuccess
\* resets the count and frees the probe in one step, whoever calls it.
Inv == TypeOK /\ ClosedIffBelowThreshold /\ ProbeHasOwner

USE ThresholdAssumption, CooldownAssumption
USE DEF States, InFlight, entry

\* A new entry is closed, with no failures and no probe.
LEMMA InitInv == Init => Inv
<1> SUFFICES ASSUME Init PROVE Inv
  OBVIOUS
<1>1. probeInflight \in BOOLEAN /\ ~probeInflight
  BY Zenon DEF Init
<1>2. call \in [Calls -> {"idle"} \cup InFlight]
  BY DEF Init
<1> QED
  BY <1>1, <1>2 DEF Init, Inv, TypeOK, ClosedIffBelowThreshold, ProbeHasOwner

\* Letting a probe through makes the caller the owner of the probe slot.
LEMMA AcquireProbeInv == ASSUME Inv, NEW c \in Calls, AcquireProbe(c) PROVE Inv'
<1> USE DEF Inv, AcquireProbe
<1>1. TypeOK'
  BY DEF TypeOK
<1>2. ClosedIffBelowThreshold'
  BY DEF TypeOK, ClosedIffBelowThreshold, MayProbe, Cooled
<1>3. call'[c] = "probe"
  BY DEF TypeOK
<1>4. ProbeHasOwner'
  BY <1>3 DEF ProbeHasOwner
<1> QED
  BY <1>1, <1>2, <1>4

\* A call that is let through a closed circuit owns no probe, and takes none.
LEMMA AcquireClosedInv == ASSUME Inv, NEW c \in Calls, AcquireClosed(c) PROVE Inv'
<1> USE DEF Inv, AcquireClosed
<1>1. TypeOK'
  BY DEF TypeOK
<1>2. ClosedIffBelowThreshold'
  BY DEF ClosedIffBelowThreshold
<1>3. ASSUME probeInflight' PROVE \E d \in Calls : call'[d] = "probe"
  <2>1. PICK d \in Calls : call[d] = "probe"
    BY <1>3 DEF ProbeHasOwner
  <2>2. call'[d] = "probe"
    BY <2>1 DEF TypeOK
  <2> QED
    BY <2>2
<1> QED
  BY <1>1, <1>2, <1>3 DEF ProbeHasOwner

\* A success closes the circuit with a count of zero, in whatever state it comes.
LEMMA SucceedInv == ASSUME Inv, NEW c \in Calls, Succeed(c) PROVE Inv'
<1> USE DEF Inv, TypeOK, Succeed, Return
<1>1. probeInflight' \in BOOLEAN /\ ~probeInflight'
  BY Zenon
<1>2. call' \in [Calls -> {"idle"} \cup InFlight]
  OBVIOUS
<1> QED
  BY <1>1, <1>2 DEF ClosedIffBelowThreshold, ProbeHasOwner

\* A failure reaches the threshold in every state but CLOSED, so that it leaves
\* the circuit closed exactly when the count stays below the threshold.
LEMMA FailInv == ASSUME Inv, NEW c \in Calls, Fail(c) PROVE Inv'
<1> USE DEF Inv, TypeOK, Fail, Return, OneMore
<1>1. failures' = OneMore /\ OneMore \in 0..Threshold
  OBVIOUS
<1>2. probeInflight' \in BOOLEAN /\ ~probeInflight'
  BY Zenon
<1>3. call' \in [Calls -> {"idle"} \cup InFlight]
  OBVIOUS
<1>4. CASE state = "HALF_OPEN" \/ OneMore >= Threshold
  <2>1. state' = "OPEN" /\ age' = 0
    BY <1>4
  <2>2. OneMore >= Threshold
    BY <1>4 DEF ClosedIffBelowThreshold
  <2> QED
    BY <1>1, <1>2, <1>3, <2>1, <2>2 DEF ClosedIffBelowThreshold, ProbeHasOwner
<1>5. CASE ~(state = "HALF_OPEN" \/ OneMore >= Threshold)
  <2>1. state' = state /\ age' = age
    BY <1>5
  <2>2. OneMore < Threshold
    BY <1>1, <1>5
  <2>3. failures < Threshold
    BY <2>2
  <2> QED
    BY <1>1, <1>2, <1>3, <2>1, <2>2, <2>3 DEF ClosedIffBelowThreshold, ProbeHasOwner
<1> QED
  BY <1>4, <1>5

\* Every step preserves the invariant.
LEMMA NextInv == Inv /\ [Next]_vars => Inv'
<1> SUFFICES ASSUME Inv, [Next]_vars PROVE Inv'
  OBVIOUS
<1>1. CASE Tick
  BY <1>1 DEF Tick, Inv, TypeOK, ClosedIffBelowThreshold, ProbeHasOwner
<1>2. ASSUME NEW c \in Calls, AcquireClosed(c) \/ AcquireProbe(c) PROVE Inv'
  BY <1>2, AcquireClosedInv, AcquireProbeInv
<1>3. ASSUME NEW c \in Calls, Succeed(c) \/ Fail(c) PROVE Inv'
  BY <1>3, SucceedInv, FailInv
<1>4. CASE UNCHANGED vars
  BY <1>4 DEF vars, Inv, TypeOK, ClosedIffBelowThreshold, ProbeHasOwner
<1> QED
  BY <1>1, <1>2, <1>3, <1>4 DEF Next, ShortCircuit

\* The invariant holds in every reachable state.
THEOREM Invariance == Spec => []Inv
  BY InitInv, NextInv, PTL DEF Spec

\* Every field keeps its type and its bound.
THEOREM TypeCorrect == Spec => []TypeOK
  BY Invariance, PTL DEF Inv

\* However results of earlier states arrive, the circuit is closed exactly while
\* fewer than Threshold calls in a row have failed.
THEOREM ClosedIffBelowThresholdHolds == Spec => []ClosedIffBelowThreshold
  BY Invariance, PTL DEF Inv

\* A taken probe slot is always held by a call in flight.
THEOREM ProbeHasOwnerHolds == Spec => []ProbeHasOwner
  BY Invariance, PTL DEF Inv

\* The breaker is never in a state it cannot leave.
THEOREM NeverJammedHolds == Spec => []NeverJammed
<1>1. Inv => NeverJammed
  BY DEF Inv, NeverJammed
<1> QED
  BY <1>1, Invariance, PTL
=============================================================================
