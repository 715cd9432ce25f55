--------------------------- MODULE CircuitBreaker ---------------------------
(* The circuit breaker of one wallet endpoint, and the calls that go       *)
(* through it.  WalletClient.invoke acquires before its first await and    *)
(* records after its last, so any number of calls is in flight between the *)
(* two, and their results come back in any order and in any later state of *)
(* the breaker.                                                            *)
(*                                                                         *)
(* Time is only ever compared with the cooldown: age is how long ago the   *)
(* circuit opened, and stops counting at the cooldown.  failures stops     *)
(* counting at the threshold, the only number it is compared with.         *)
EXTENDS Naturals, FiniteSets

CONSTANTS Calls,        \* the callers: rounds, handlers, live-crash cash-outs
          Threshold,    \* CircuitBreakerOptions.failureThreshold
          Cooldown      \* CircuitBreakerOptions.cooldownMs, in ticks

ASSUME ThresholdAssumption == Threshold \in Nat \ {0}
ASSUME CooldownAssumption == Cooldown \in Nat

VARIABLES
    state,          \* Entry.state
    failures,       \* Entry.consecutiveFailures
    age,            \* now() - Entry.openedAt
    probeInflight,  \* Entry.probeInflight
    call            \* each caller: "idle", or how its call in flight was let in

entry == <<state, failures, age, probeInflight>>
vars == <<entry, call>>

States == {"CLOSED", "OPEN", "HALF_OPEN"}
InFlight == {"normal", "probe"}

Init ==
    /\ state = "CLOSED" /\ failures = 0 /\ age = Cooldown
    /\ probeInflight = FALSE
    /\ call = [c \in Calls |-> "idle"]

\* Date.now() moves on.
Tick ==
    /\ age < Cooldown /\ age' = age + 1
    /\ UNCHANGED <<state, failures, probeInflight, call>>

-----------------------------------------------------------------------------
(* tryAcquire, by what it decides.                                         *)

AcquireClosed(c) ==
    /\ call[c] = "idle" /\ state = "CLOSED"
    /\ call' = [call EXCEPT ![c] = "normal"]
    /\ UNCHANGED entry

\* The circuit is, or has just become, half open: does a call go through?
Cooled == state = "OPEN" /\ age = Cooldown
MayProbe == Cooled \/ (state = "HALF_OPEN" /\ ~probeInflight)

AcquireProbe(c) ==
    /\ call[c] = "idle" /\ MayProbe
    /\ state' = "HALF_OPEN" /\ probeInflight' = TRUE
    /\ call' = [call EXCEPT ![c] = "probe"]
    /\ UNCHANGED <<failures, age>>

\* Mutant: a refused call starts the cooldown again.
ShortCircuitRestarts(c) ==
    /\ call[c] = "idle" /\ state # "CLOSED" /\ ~MayProbe
    /\ age' = 0
    /\ UNCHANGED <<state, failures, probeInflight, call>>

\* The call is answered with TIMEOUT and nothing is recorded.
ShortCircuit(c) ==
    /\ call[c] = "idle" /\ state # "CLOSED" /\ ~MayProbe
    /\ UNCHANGED vars

-----------------------------------------------------------------------------
(* recordSuccess and recordFailure: whoever comes back, whenever.          *)

Return(c) == call[c] \in InFlight /\ call' = [call EXCEPT ![c] = "idle"]

\* Mutant: the count survives a success.
SucceedKeepsCount(c) ==
    /\ Return(c)
    /\ state' = "CLOSED" /\ probeInflight' = FALSE
    /\ UNCHANGED <<failures, age>>

\* OK, a duplicate, or the operator's own refusal.
Succeed(c) ==
    /\ Return(c)
    /\ state' = "CLOSED" /\ failures' = 0 /\ probeInflight' = FALSE
    /\ UNCHANGED age

\* Mutant: the count runs past the threshold.
OneMoreUncapped == failures + 1

OneMore == IF failures < Threshold THEN failures + 1 ELSE Threshold

\* Mutant: the answer to a probe leaves the probe slot and the state alone.
FailKeepsProbe(c) ==
    /\ Return(c)
    /\ failures' = OneMore
    /\ IF state = "CLOSED" /\ OneMore >= Threshold
         THEN state' = "OPEN" /\ age' = 0
         ELSE UNCHANGED <<state, age>>
    /\ UNCHANGED probeInflight

\* A timeout, a 5xx, a broken answer, or a status that is neither.
Fail(c) ==
    /\ Return(c)
    /\ failures' = OneMore /\ probeInflight' = FALSE
    /\ IF state = "HALF_OPEN" \/ OneMore >= Threshold
         THEN state' = "OPEN" /\ age' = 0
         ELSE UNCHANGED <<state, age>>

-----------------------------------------------------------------------------
Next ==
    \/ Tick
    \/ \E c \in Calls : \/ AcquireClosed(c) \/ AcquireProbe(c) \/ ShortCircuit(c)
                        \/ Succeed(c) \/ Fail(c)

Spec == Init /\ [][Next]_vars

\* The clock runs, and every call that was let in ends: the wallet adapters
\* turn errors and timeouts into answers.
FairSpec ==
    /\ Spec
    /\ WF_vars(Tick)
    /\ \A c \in Calls : WF_vars(Succeed(c) \/ Fail(c))

-----------------------------------------------------------------------------
\* Every field has its type and stays within its bound.
TypeOK ==
    /\ state \in States
    /\ failures \in 0..Threshold
    /\ age \in 0..Cooldown
    /\ probeInflight \in BOOLEAN
    /\ call \in [Calls -> {"idle"} \cup InFlight]

\* The circuit lets calls through freely exactly while fewer than Threshold
\* calls in a row have failed, although old results arrive in any state: a
\* closed circuit at the threshold would never open again.
ClosedIffBelowThreshold == state = "CLOSED" <=> failures < Threshold

\* A taken probe slot belongs to a call that is still in flight, which will free
\* it; otherwise the circuit would refuse every call for ever.
ProbeHasOwner == probeInflight => \E c \in Calls : call[c] = "probe"

\* The breaker is never in a state it cannot leave: neither a closed circuit that
\* counts past its threshold nor a probe slot that nobody will free, whichever
\* calls return late and in whatever state their results arrive.
NeverJammed == TypeOK /\ ClosedIffBelowThreshold /\ ProbeHasOwner

Admits == state = "CLOSED" \/ MayProbe

\* Whatever fails, the circuit lets some call through again and again.
NeverStuckOpen == []<>Admits
=============================================================================
