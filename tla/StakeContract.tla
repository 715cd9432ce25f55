--------------------------- MODULE StakeContract ---------------------------
(* What the operator and the player are promised about the money of each   *)
(* bet, with no rounds, statuses, queues or retries: a stake is taken once,*)
(* and what is taken is paid out once or handed back once, or is lost, but *)
(* never both paid and handed back.  The variables are what the operator's *)
(* ledger shows.                                                           *)
EXTENDS Naturals

CONSTANTS Stakes

VARIABLES
    staked,     \* the stakes taken from the player
    payments,   \* how often each was paid out
    refunded    \* the stakes given back

ledger == <<staked, payments, refunded>>

\* The ledger never shows more than one payment, whatever happens to a bet.
ContractType ==
    staked \subseteq Stakes /\ payments \in [Stakes -> 0..1] /\ refunded \subseteq Stakes

Init == staked = {} /\ payments = [s \in Stakes |-> 0] /\ refunded = {}

Stake(s) ==
    /\ s \notin staked
    /\ staked' = staked \cup {s}
    /\ UNCHANGED <<payments, refunded>>

Open(s) == s \in staked /\ payments[s] = 0 /\ s \notin refunded

Pay(s) ==
    /\ Open(s)
    /\ payments' = [payments EXCEPT ![s] = 1]
    /\ UNCHANGED <<staked, refunded>>

Refund(s) ==
    /\ Open(s)
    /\ refunded' = refunded \cup {s}
    /\ UNCHANGED <<staked, payments>>

Next == \E s \in Stakes : Stake(s) \/ Pay(s) \/ Refund(s)

Spec == Init /\ [][Next]_ledger
=============================================================================
