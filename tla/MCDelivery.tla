----------------------------- MODULE MCDelivery -----------------------------
(* Small instances of the components that carry money and messages to an    *)
(* operator.  They share no state: "part" says which of them this behaviour *)
(* is about, and the others stay where they started.                        *)
EXTENDS WalletJobs, Integers

CONSTANTS None, Seed, Requests, Players, Events, Subs, Hands, MaxRotations, MaxReplays

VARIABLES part,
    balance, opLedger, rollbackTxs, processed, shortfall, internal, committed, reopened,
    sub, fan, state, attempt, backing, signed, task, rowSeen, hand, posts, received,
    abandoned, raced, secrets, replays, hookFaults

walletVars == <<balance, opLedger, rollbackTxs, processed, shortfall, internal, committed, reopened>>
hookVars == <<sub, fan, state, attempt, backing, signed, task, rowSeen, hand, posts, received,
              abandoned, raced, secrets, replays, hookFaults>>
deliveryVars == <<vars, part, walletVars, hookVars>>

Request(id, kind, tx, ref, amount) ==
    [id |-> id, kind |-> kind, tx |-> tx, ref |-> ref, player |-> "alice", amount |-> amount]

\* One round played twice over: a bet sent under two uuids and once with another
\* amount, its win, rollbacks of both under several uuids, and a second bet.
OneRoundTwice ==
    { Request("q1", "bet", "b1", None, 2), Request("q2", "bet", "b1", None, 2),
      Request("q3", "bet", "b1", None, 1), Request("q4", "win", "w1", "b1", 3),
      Request("q5", "rollback", "r1", "b1", 0), Request("q6", "rollback", "r2", "b1", 0),
      Request("q7", "rollback", "r3", "w1", 0), Request("q8", "bet", "b2", None, 4) }

Txs == {r.tx : r \in Requests} \cup ({r.ref : r \in Requests} \ {None})

O == INSTANCE OperatorWallet WITH ledger <- opLedger, Uuids <- {r.id : r \in Requests}

\* A request uuid is that of one request.  A transaction is a movement of one player or
\* the reversal of one transaction, which is a movement of the same player; a stake is
\* more than nothing.
ASSUME RequestAssumption ==
    /\ IsFiniteSet(Requests) /\ Seed \in Nat
    /\ None \notin Txs /\ None \notin Int /\ None \notin O!Entry
    /\ \A r \in Requests :
         /\ r.kind \in {"bet", "win", "rollback"} /\ r.player \in Players /\ r.amount \in Nat
         /\ r.kind = "bet" => r.amount > 0
    /\ \A r, q \in Requests :
         /\ r.id = q.id => r = q
         /\ r.tx = q.tx => r.player = q.player /\ (r.kind = "rollback" <=> q.kind = "rollback")
         /\ r.tx = q.tx /\ r.kind = "rollback" => r.ref = q.ref
         /\ r.ref = q.tx /\ r.kind = "rollback" => r.player = q.player /\ q.kind # "rollback"

H == INSTANCE Webhooks WITH seen <- rowSeen, faults <- hookFaults

JobsOnly == part = "jobs" /\ UNCHANGED <<part, walletVars, hookVars>>
WalletOnly == part = "wallet" /\ UNCHANGED <<part, vars, hookVars>>
HooksOnly == part = "hooks" /\ UNCHANGED <<part, vars, walletVars>>

DeliveryInit ==
    /\ part \in {"jobs", "wallet", "hooks"} /\ Init /\ O!Init /\ H!Init
    /\ part # "jobs" => touched = {} /\ known = {}

DeliveryNext ==
    \/ JobsOnly /\ Next
    \/ WalletOnly /\ O!Next
    \/ HooksOnly /\ H!Next

\* Poll timers fire, awaits end, backoffs pass and dead processes are started again.
DeliverySpec ==
    /\ DeliveryInit /\ [][DeliveryNext]_deliveryVars
    /\ WF_deliveryVars(JobsOnly /\ Tick)
    /\ \A p \in Procs : WF_deliveryVars(JobsOnly /\ Run(p))
    /\ \A p \in Procs : WF_deliveryVars(HooksOnly /\ H!Run(p))
    /\ \A d \in Events \X Subs : WF_deliveryVars(HooksOnly /\ H!Elapse(d))

InJobs == part = "jobs"
InWallet == part = "wallet"

\* The mock operator and the internal adapter: however bets, wins and rollbacks are
\* repeated and reordered, a balance is what its ledger says and never a debt, and the
\* two wallets agree until a win is spent before its reversal or a reversed transaction
\* is sent again.
WalletsAddUp == InWallet => O!TypeOK /\ O!BalanceIsLedger /\ O!NeverNegative /\ O!WalletsAgree

\* WebhookDispatcher: claims, retries, replays and deletions neither lose nor repeat a
\* delivery; each conjunct stands in Webhooks.
DeliveriesAreOwned == H!DeliveriesAreOwned

\* No write takes back what another process has done since it was computed: attempt
\* numbers of a job only rise, and an event that was delivered is not sent again.
NothingTwice == AttemptsRise /\ H!DeliveredOnce

\* The queues drain: whatever dies or times out, a wallet job is closed in the end, and
\* a webhook is answered with 2xx or dead-lettered.
QueuesDrain == (InJobs => EveryJobCloses) /\ H!EveryDeliveryEnds
=============================================================================
