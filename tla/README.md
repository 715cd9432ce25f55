# Formal models of the Yantra RGS

This directory holds the TLA+ models of the remote gaming server (RGS) in this
repository, the TLC configurations that check them and the TLAPS proofs about
them. The models follow the code in `apps/rgs-server`; line numbers are in
`PROJECT.json`, "map".

## 1. Inventory

The RGS is one Node/Bun process over Postgres. Code runs to the next `await`
without interruption, and everything else interleaves at awaits. Several
processes may share the database. Operators hold the players' money and are
reached over HTTP (`/wallet/bet`, `/win`, `/rollback`).

| Part | State | Operations | Talks to | What is hard | What makes it correct |
|---|---|---|---|---|---|
| Round engine, `services/GameEngine.ts` | `Round`, `Bet`, `PendingRoundBet`, session nonce; `running`, `active` in memory | `start`, `stop`, loop (open, roll, settle), `placeBet`, `resumeUnsettledRounds` | wallet client, job queue, sockets, webhooks | handlers overtake the loop; death between two writes; answers that never come | no stake is both paid and returned; every bet and round comes to an end; settlement is final |
| Live-crash play, same file | `cashout*` columns | manual and automatic cash-out | as above | two cash-outs and settlement of one bet at once | one credit per bet |
| Wallet client and breaker, `wallet/` | breaker entries, `WalletCall` rows | `bet`, `win`, `rollback`, `tryAcquire`, `record*` | operator | late results, probes | the circuit is never jammed |
| Job runner, `services/PendingJobRunner.ts` | `PendingWalletJob` | `tick`, `runJob`, `reschedule` | wallet client | locks with a time to live, two processes | each job is repeated until answered, its uuid never changes |
| Engine registry, kill switch | map of engines; cached switch row | `ensure`, `startAllEnabled`, `stopAll`; `engage`, `disengage` | engines | check-then-act over awaits, stale cache | one engine per key; no start while engaged |
| Webhook dispatcher | `WebhookDelivery`, `WebhookSubscription` | dispatch, deliver, replay | operators' endpoints | claim and crash, retry, replay | at least once, bounded attempts |
| Limits, `RGLimitsEnforcer.ts`, jurisdiction rules | reads `Bet` | `checkRGLimits` | `placeBet` | concurrent bets | a session stays below its cap |
| Sessions, idempotency | `GameSession`, `InboundIdempotency` | create, terminate, rotate, replay | routes, sockets | concurrent duplicates | one effect per request |
| Audit chain, `services/AuditChain.ts` | hash columns, `AuditAnchor` | append, re-link, anchor, backfill, verify | wallet client, engine | concurrent writers, ticks that die | what was signed replays until it is altered, and not afterwards |
| Reconciliation, `services/ReconciliationJob.ts`, `scripts/reconcile.ts` | reads `WalletCall` | totals, reports, verdicts | the operator's figures | rows and answers that are lost, midnight | a drift has a cause, a clean verdict is true |
| Lists, reports, evidence, in `routes/` and `services/DisputePack.ts` | read `Bet`, `Round`, `WalletCall` | pages, sums, proofs, replays, packs | portals, operators, regulators | tables that change while they are read; several queries for one figure | nothing shown twice; equal figures are equal; every record of a round agrees |
| Credentials and signing keys | `OperatorCredential`, `OperatorSigningKey` | rotate, revoke, sign, verify | `operatorAuth`, engines, tokens | rotations that cross, use across a rotation | no gap, no second life, a token outlives its key's rotation |
| Portal users, invites, MFA, WebAuthn | their tables | invite, accept, log in, enrol, remove | portals | handlers that cross between read and write | one invitation, one user; nobody is locked out; a challenge is used once |
| Operators, certificates, attestation, clock | their tables, the artefact directory | create, pair, upload, gate, coverage, NTP | portals, engine registry | overlapping uploads; a crash between file and row | twins are mutual; the artefact is the file; strict mode serves what is certified |
| Game clients, `apps/game-client` | two stores in the browser | event handlers, `placeBet`, `cashOut` | sockets | late answers, lost connections, events that name no round | what is shown is what happened |
| Game mathematics, `games/*`, `packages/rng-core` | none | `computeOutcome`, `settleBet` | engine | rounding, boundaries | payouts as specified |
| Portal pages, rate limits, CRUD | rows | forms, tables, lookups | routes | | not modelled |

## 2. Plan

All of the plan is done: the engine with its abstract contract, the breaker and the
live-crash flight, with proofs; then the queues (`WalletJobs`, `Webhooks`) and the
operator's wallet; the control of engines, sessions, sockets and limits; keys,
users, operators, certificates and the browsers; the audit chain, the totals, the
lists, the reports and the evidence; then the theorems, component by component
(section 5). What could still be added: proofs about the two browser stores, a
refinement of the queue that `RoundEngine` assumes by `WalletJobs`, and the parts of
section 6.

## 3. The modules

| Module | Models | Run |
|---|---|---|
| `RoundEngine` | a `GameEngine` of a game without `liveCrash`: loop, `placeBet`, `settle`, recovery, `stop`, the operator's wallet and the retry queue as the engine sees them | `Round...` |
| `StakeContract` | what operator and player are promised about one stake (abstract) | `RoundContract` |
| `LiveCrash` | one round of a live-crash game: flight, manual and automatic cash-outs, settlement, restart | `Cashout...` |
| `CircuitBreaker` | `wallet/CircuitBreaker.ts` and the calls in flight through it | `BreakerSafety` |
| `WalletJobs` | the retry queue: rows, locks, two processes, retry and cancel | `Delivery` |
| `OperatorWallet` | the mock operator's store and `InternalWalletAdapter`, given the same requests | `Delivery` |
| `Webhooks` | fan-out, claim, post, retry, dead letter, replay | `Delivery` |
| `EngineControl` | registry of engines, kill switch, configuration patches, shutdown | `Control` |
| `Sessions` | session launch with its gates and idempotency, termination, seeds | `Control` |
| `GameSocket` | handshake, presence, first balance | `Control` |
| `BetLimits`, `JurisdictionRules` | responsible-gaming limits with bets in flight; the rules, IP and geo gates as operators | `Control` |
| `KeyRotation` | operator credentials and signing keys, and what uses them | `Console` |
| `PortalAccess` | invitations, logins, second factors | `Console` |
| `OperatorRegistry` | operators and twins, certificates, upload tokens, artefacts | `Console` |
| `Compliance`, `Codecs` | attestation, coverage, clock skew; base32, TOTP window, DER and raw signatures, as operators | `Console` |
| `DiceClient`, `CrashClient` | the stores of the two games against the room that feeds them | `Console` |
| `AuditChain` | writers of one hash chain, the hourly job, verification | `Books` |
| `LedgerTotals` | daily totals, verdicts, periods, the script | `Books` |
| `Paging` | every list read with a cursor | `Books` |
| `Reports` | every sum and flag of the portals | `Books` |
| `RoundEvidence` | proof, replay, dispute pack and staff look-ups of a round | `Books` |
| `MCRoundEngine`, `MCLiveCrash` | small instances for TLC | |
| `MCDelivery`, `MCControl`, `MCConsole`, `MCBooks` | small instances of several components each | |
| `RoundEngineProofs`, `LiveCrashProofs`, `CircuitBreakerProofs` | theorems about one module and their proofs | |
| `DeliveryProofs`, `ControlProofs`, `ConsoleProofs`, `BooksProofs` | theorems about components that share an instance | |
| `SumProofs` | induction over finite sets and the laws of sums, for the proofs | |

A **step** is the code between two awaits: the database write, the read or the
wallet answer that ends the await, with the synchronous code after it. Between
any two steps every other handler may run, and the process may die.

The last four instances hold components that share no state. A variable `part`
is chosen at the start and names the one this behaviour is about; the others stay
where they began. The reachable states are the union of those of the parts, not
their product, and a property `InX => ...` speaks of part X. Their invariants are
conjunctions of parts that stand, with a comment each, in the component's module.
Four of them (`JobsSettleOnce`, `DeliveriesAreOwned`, `EnginesAreControlled`,
`RotationIsSeamless`) have no `InX`: they hold where their component never moves.
The inductive invariants of section 5 hold there too, so no proof uses an `InX`.

Operators that exist only for `PROJECT.json`, "mutants", are marked *Mutant* and
stand before the definition they alter; nothing else refers to them. There is one
for each conjunct of each property.

Many properties are stated "unless two requests crossed". The models keep a history
variable (`crossed`, `raced`, `excused`, `touched`, `meddled`) that is set in just
the step in which the code's own check has become stale; what happens then is in
the model, and in `PROJECT.json`, "findings", where a document says otherwise.

### RoundEngine

Rows are functions from bets or rounds to columns (`betStatus`, `winTx`,
`register`, `roundState`, `outcome`, ...); open `PendingWalletJob` rows are the
sets `winJobs` and `rollbackJobs`; what the operator has booked is `debited`,
`credits` and `rolledBack`; what dies with the process is `pc`, `at`, `cur`,
`tx`, `work`, `stuck`, `sum`, `running` and the handlers' `hpc`.

- `placeBet`: `PlaceBet` (the phase check and the capture of the round),
  `GateRejects` or `CreateBet` (PENDING, then `/wallet/bet` is sent), one of
  `BetOk`, `BetRefused`, `BetUncertain` (the answer), then the writes of that
  branch one by one: `AcceptBet`, `HoldBet`, `CountBet`; `RejectBet`;
  `RejectUncertain`, `EnqueueRollback`.
- `start`: `Start`, then for each unsettled round either `ResumeKnown` with
  `RequeueLost`, `ReleaseRequeued`, `RequeueWin`, `SaveRequeued`, `CloseResumed`,
  or `VoidRound` with `ReadVoided`, `VoidBet`, `RefundRegister`, `EnqueueRefund`,
  `CloseVoided`; then `FinishResume`.
- Loop: `CreateRound`, `CountNonce`, `CloseBetting`, `StoreRolling`, `Reveal`,
  `Snapshot`, `SettleLoss`/`ReleaseSettled` or `StartWin` with `WinConfirmed` or
  `WinUncertain`/`EnqueueWin`, `CloseRound`, `FinishCooldown`.
- Environment: `WalletDebits`, `WalletCredits`, `DeliverLate` (a request
  abandoned by its timeout that arrives after all), the job runner's `WinJob...`
  and `Rollback...` steps, `Stop`/`Exit`, `Crash`, and the thrown database errors
  `LoopError` (caught by `runLoop`), `StartError` and `HandlerError` (not caught).

Abstractions. A bet stakes and wins one unit and its selection is the outcome it
wins on (`Pick`). Admission checks that only read are one choice between passing
and not passing. `newUuid` is a counter per bet. A second job under the same uuid
is the same element of `winJobs`, since the operator books a uuid once. A process
that is up runs its job runner. A start begins only when no process is up: two
processes on one database are left to the job-runner module. A `/wallet/win`
abandoned by its timeout and booked later is not told apart from one booked
before the timeout, which nobody can observe before either.

`BoundReached` is a self-loop where the bound on rounds stops the loop, so that
deadlock stays checked everywhere else.

### LiveCrash

One round. `phase`, `point` (the crash multiplier) and `elapsed` are `active.phase`,
`active.outcome` and `Date.now() - active.phaseStartedAt`; a tick raises the
multiplier by one step, and `MultAt` and `TimeTo` are the curve of
`games/lempi-crash/src/outcome.ts` with its clamps. `cashOutBet` is shared by the
button handlers and the loop: `CashOut` or `AutoCashOut` (phase check), `Decline`
or `Pay` (the bet has been read; status, clock and amount), then `Confirm` and
`Finish`, or `Fail` and `Enqueue`. `settle()` pays through the same steps without
the columns of a cash-out (`Settling`). `Recover` is `resumeUnsettledRounds` for
this round in one step: the interleavings inside a recovery are the subject of
`RoundEngine`. The betting window, the register, the roll-ups and database errors
are likewise left to `RoundEngine`; a bet is a PENDING row that its handler may
answer at any time.

### CircuitBreaker

`tryAcquire` is `AcquireClosed`, `AcquireProbe` or `ShortCircuit`; `recordSuccess`
and `recordFailure` are `Succeed` and `Fail`, which any call in flight may perform
in any later state of the breaker. `age` and `failures` stop at the number they
are compared with, which loses nothing. BALANCE calls do not pass the breaker.

### WalletJobs, OperatorWallet, Webhooks

`WalletJobs` has a step for each await of `tick` and `runJob`: `Poll` reads a
batch, the conditional `Lock` takes a job, the row is read again, the call goes out
(with its audit row, whose unique key may refuse it), and the answer closes the
job or reschedules it with backoff. Processes die and are started again, queries
throw, calls time out and arrive late, and portal users retry (which clears the
lock) or cancel. Locks and backoffs count down. `OperatorWallet` gives
`WalletStore` (behind its router) and `InternalWalletAdapter` the same requests in
any order and number, so that the two can be compared. `Webhooks` has the
dispatcher: an event is fanned out to subscriptions read earlier, two pollers hold
one delivery in their batches, the claim is conditional, the close is a
transaction that may throw; replay, rotation, patch and deletion run beside it.

### EngineControl, Sessions, GameSocket, BetLimits, JurisdictionRules

`EngineControl` splits `ensure()` at its awaits (kill switch with its cache, row,
attestation, adapter, `start()`), beside `startAllEnabled`, patches that read,
commit and push, `engage`/`disengage` here and in another process, and
`stopAll()`. `Sessions` splits `POST /v1/session` between authentication, idempotency
lookup, gates, creation and the record written after the answer. `GameSocket`
lets a socket leave at every await of its connection handler. `BetLimits` runs the
checks of one player's bets over sessions and midnight; `JurisdictionRules` is data
and pure operators, checked against a reference over every input of a small set.

### KeyRotation, PortalAccess, OperatorRegistry, Compliance, Codecs

Rotation reads a credential, then commits its end and a new one; signing reads a
key that a rotation may retire before the token is signed. `PortalAccess` keeps each
request of invites, MFA, logins and passkeys in a handler between its reads and its
commit. `OperatorRegistry` pairs twins from a read outside the transaction and
uploads an artefact file first, rows second, with a crash between. `Compliance` and
`Codecs` are pure and are evaluated in one state.

### DiceClient, CrashClient

The server's side is the engine's round and the handlers of `place_bet` and
`cash_out` with their awaits; `wire` is the ordered connection; a drop loses what is
on it and a reconnection joins the room again and receives a snapshot. The browser's
side is one operator per event handler, of the same name, over the `store`. Bets are
sent optimistically and corrected by what is heard. `Calm` is "one connection so
far", `InStep` is "answers came in their round": what the pages promise only then is
stated only then, and what happens otherwise is in the findings.

### AuditChain, LedgerTotals, Paging, Reports, RoundEvidence

A hash in `AuditChain` is the sequence of what was hashed, so that equality of hashes is
equality of histories; writers read a tip, hash onto it and write back, with other
writers between; the hourly job reads yesterday's rows, works them off in their order
and signs. `LedgerTotals` lets the audit rows be lost, late or repeated beside the
operator's own books. `Paging` reads all seven kinds of list while rows are inserted and
change state. `Reports` gives each query as a sum over bets that live through their
statuses and hours, next to `ledger`, what really moved. `RoundEvidence` plays rounds
through seeds, configurations and crashes and reads every record of them at every
moment.

## 4. The runs

| Run | Question | Bounds |
|---|---|---|
| `RoundSafety` | do money, settlement and recovery stay consistent with a crash anywhere and a database call that throws anywhere? | 2 bets, 2 rounds, 1 crash, 1 error, late packets |
| `RoundContract` | without failures, does the engine implement `StakeContract`, do its rows agree, is a rejected stake returned? | 2 bets, 2 rounds |
| `RoundLiveness` | does every round and debt come to an end across a crash and a shutdown? | 2 bets, 1 round, 1 crash, 1 stop, late packets |
| `CashoutSafety` | is what is paid and announced in a live-crash round right, however callers interleave? | 2 bets, 2 buttons and the loop, 3 crash points, 1 crash, 1 stop |
| `CashoutLiveness` | does the flight end, and is what was announced paid? | as above with 1 button |
| `BreakerSafety` | can late results jam the breaker? | 4 calls, threshold 2, cooldown 3 |
| `Delivery` | do jobs, wallets and webhooks neither lose nor repeat, and drain? | 1 job, 2 processes, 2 attempts, 1 fault, 2 outages; 8 requests about 5 transactions; 1 event and subscription, 2 portal hands, 1 rotation, 2 replays |
| `Control` | who may play: engines, sessions, presence, limits? | 2 callers, 2 patches, 2 levers; 2 copies of a request, 2 routes; 2 sockets, 2 sessions; 3 bets, limits of 2 to 4 |
| `Console` | do keys, users, operators and the browsers stay right when requests cross? | 2 rotations, 2 signers, 3 ticks; 2 addresses, 2 handlers, 3 invitations; 2 creations, 2 uploads; 2 rounds, 2 connections (1 for crash), 2 bets, 2 events in flight, lists of 1 and 2 |
| `Books` | is what is kept for afterwards evidence, and does what is read from it add up? | 2 writers, 3 days, 3 failures; 3 kinds of transaction, 2 days; 5 rows, pages of 1; 2 operators, 2 bets, 3 hours; 3 rounds, 2 configurations |
| `RoundDoubleCredit`, `CashoutTwice` | each shows one statement of the tests that the code does not keep | the fewest failures that show it |

Why the bounds are enough. Two bets give one winner and one loser in the same
round, and a bet in hand beside one still in `work`; two rounds let a late handler
write into a round while the next one is open, and make a restart find a closed
and an unsettled round together. One crash separates any two steps; one error on
top of it puts a failure inside a recovery. In `LiveCrash` bet `m` is cashed out by
hand only and bet `a` automatically and by hand; the three crash points are a crash
at 1.00x, one that `minFlightMs` prolongs and one beyond every target; time runs
past the end of the longest flight. Elsewhere, a read-then-write race needs two
actors and one row, which is why there are two of each; a third appears where the
newest, the last but one and an older one differ (invitations, keys, days, rounds,
operators). Attempts, pages and kept lists are as short as lets them be exceeded.
Numbers of the pure operators cover each side of each comparison. The writers of
the audit chain are interchangeable (`WriterSymmetry`); bets, requests and callers are
not (they differ in outcome, target or role), so nothing else is symmetric.

Deadlock is checked except in the four instances of several components, where a
part ends when its bounded requests are used up.

Fairness. The event loop runs whatever is ready, timers fire, and every await
ends, because the wallet adapters turn timeouts and errors into answers: hence weak
fairness of the loop and of each handler. The job runner repeats a job until it
succeeds, and reschedules an exhausted one every hour, so an operator that
is reachable infinitely often answers in the end: hence weak fairness of closing a
job, per bet. A process that died is started again. In `Delivery` the clock (`Tick`,
`Elapse`) and each process (`Run`) are fair, and outages are bounded; in `Control` the
copy of the kill switch expires, and boot, callers and sockets run on. Nothing is
assumed of players, portal users, the operator's side of a first call, late packets
or failures; `Console` and `Books` state no liveness.

### What the violation runs show

- `RoundDoubleCredit`: `settle()` keeps the win uuid in memory until the operator
  has answered; a crash in between makes recovery pay again under a new uuid.
- `CashoutTwice`: a button pressed while the automatic cash-out waits for the
  operator pays the bet twice, under two uuids; so do two buttons, or a cash-out in
  flight and the automatic win of `settle()`.

### Further findings

`PROJECT.json` lists every divergence met while modelling, most without a run of
their own; the counterexamples are in the state spaces of the passing runs, behind
the conditions their properties name. By component:

- Engine: a bet accepted after `settle()` has read the bets stays ACCEPTED in a
  settled round (`SettledMeansResolved`); recovery closes a voided round before it
  refunds the bets; PENDING bets are not recovered after a crash during
  `/wallet/bet`; the register stays HELD after a win paid through the queue; a crash
  between the round and the nonce reuses the nonce.
- Live crash: a cash-out that spans the crash is measured against a clock that
  `phase = RESULT` has just reset (`DecidedInFlight`); a flight shorter than `minFlightMs`
  climbs past its crash point (`AutomaticPaysTheTarget`); `stop()` ends a flight
  before its crash point (`FlightReachesTheCrash`).
- Queues: a rollback that overtakes its bet is closed for ever; a cancelled job may
  still issue its call (`CancelledIsNotIssued`); a claimed webhook whose process dies is
  never taken up (`AtLeastOnce`); after a rotation the version header names a key that
  did not sign (`HeaderNamesTheKey`); the internal adapter books a reversed transaction
  again (`ResubmitIsHarmless`).
- Control and console: a socket that leaves before its engine is found is counted for
  ever; recovery codes never match; a second enrolment can be confirmed by a code of
  the first; signatures with a short integer are re-encoded with a zero; an upload token
  can be used by two overlapping uploads; running engines keep their old credential.
- Books: every page boundary of a list loses a row; rollback totals are always 0; a
  round is hashed before it has an outcome; a failed hash has no backfill; the replay
  uses the current configuration; a rollback's uuid finds no pack.
- Clients: a winner's balance is shown to the whole room; a bet refused by its
  acknowledgement keeps its optimistic record; a rejection names no round; a late
  acknowledgement overwrites the slot of another round.

The properties of the passing runs say what remains true beside these findings. For
instance `AnnouncedIsOwed` speaks of cash-outs that were told to the player: one that
was written as FAILED when the process died before its job existed was not
announced, and recovery skips it. `RepeatedCashoutPaysOnce` holds for a client that
repeats a cash-out only after the answer, which is exactly what the duplicate check
covers. `RecoveryIsComplete` excludes rounds that a thrown database error made the
loop give up: only a restart looks at them again.

## 5. The theorems

Proved with TLAPS for every value of the constants that satisfies the named
assumptions: any bets, outcomes, rounds, crashes, stops, errors and calls.

**Sums.** Balances, limits and totals are sums over finite sets (`SumFunctionOnSet`),
about which the library states nothing. `SumProofs` does: an induction principle for a
*set* of cases (`EveryNumber`, `EverySubset`, from the well-founded order of the
numbers), which needs no operator as a parameter; then that the fold has its
recursion, whatever order it chooses, and what follows for one element more or other,
two sets joined, sums compared, renamed and split into parts. The components cite these
laws.

**RoundEngine.** `Inv` is the conjunction of `TypeOK` and one part per actor:
`HandlerInv` (what a handler may rely on between two awaits), `RefundInv` and
`PayInv` (who may be refunded, who may be paid), `UuidInv` (a stored uuid belongs to
a decided win), `RoundInv` (when a round has an outcome), `VoidInv`, `RequeueInv`,
`SettleInv` (what the loop carries through recovery and settlement), `DebtInv` and
`RecoveryInv`. None of the safety properties is inductive alone. That no stake is
paid and returned, for example, needs that a refund comes only from a rejected or
voided bet, that payment comes only from a round with an outcome, that a round
being voided has none, and that the bet in the hands of `settle()` is ACCEPTED, so
each of them is a part of `Inv`. One lemma per action shows that it preserves
`Inv`; `TypeOK`, `PaidOnlyOnWin`, `RefundOnlyUnplayed`, `NeverPaidAndRefunded`,
`SettledWonIsPaid`, `DebtIsQueued`, `RecoveryIsComplete` and the action property
`SettlementIsFinal` follow, and from them `StakeGoesOneWay` and `WinsAreOwedOrPaid`, the
forms the runs check.

Without failures more can be said (`Quiet`: no process has died, no database call has
thrown). `QuietInv`: every round is closed before the process stops, so a start finds
nothing to recover and no bet is ever VOIDED. `OnceInv`: a win is minted one uuid, which
its row has unless the win is in hand. `LateInv`: a call given up by its timeout has not
arrived and its bet was, or is being, rejected. From these, `KeepsContractHolds`: the
operator's ledger implements `StakeContract`, each booking being one of its steps and
everything else a stutter. Its hypotheses are `MaxCrashes = 0` and `MaxFaults = 0`,
those of the run; `RoundDoubleCredit` shows why: a crash during `settle()` pays twice.
Retries, late packets, uncertain answers and shutdowns are not excluded.
`RowsAgreeHolds` adds `NonceInv` (the nonces of the rounds differ, and the session has
passed them but the one it is about to count), `SumInv` (the payout sum counts the wins
that were taken up) and `CountInv` (the bet count of a round counts the bets whose
handler has ended and that stand). The last one needs that no shutdown stops a handler
between accepting a bet and counting it, hence `MaxStops = 0` besides: such a shutdown
does leave the count short.

**LiveCrash.** `Inv` speaks of *live* payments: booked, queued, or in the hands of a
caller that waits for the operator. `PayInv` bounds them by the crash point and ties
them to accepted bets; `UuidInv` gives each uuid one amount, and says that a uuid
stored without a cash-out belongs to the automatic win, which is why a restart
that reuses it asks for the same amount; `CallerInv` and `ReadInv` say what callers
and loop carry across an await. `MoneyKept` is the argument for most actions:
they make no payment that was not live before. `TypeOK`, `NothingAboveTheCrash`,
`InstantCrashPaysNobody`, `AnnouncedIsOwed`, `OnlyAcceptedIsPaid` and
`OneAmountPerUuid` follow, and from them `PaidAsFlown`.

`RepeatedCashoutPaysOnce` is about a bet without a target that one handler asks for
(`Sole`), for any finite set of handlers. `AskInv` says who works on which bet. By
`SoleInv` one uuid at most is minted for such a bet, and once it is, the row shows the
cash-out, or the handler still waits for the operator, or the process that waited is
dead and the flight is over; each of these keeps a second request from reaching the
operator, and a settlement or recovery reuses the uuid.

**CircuitBreaker.** `TypeOK`, `ClosedIffBelowThreshold` and `ProbeHasOwner`, which are
inductive together: a call that leaves the breaker changes state, count and probe
slot in one step, whichever call it is; their conjunction is `NeverJammed`.

**WalletJobs.** `Inv` adds to the three parts of `JobsSettleOnce` what a worker carries
across its awaits: its job in hand (`HandInv`), the lock of that job as long as no
portal user touched it (`HeldInv`), an answer before it closes (`AnswerInv`), the number
of attempts that it read still in the row (`SeenInv`). With `Alone` (no two workers on
one untouched job) a number is called and audited by one process before the row counts
it (`CountInv`). The assumption `~Slow`, that an attempt ends before its lock does,
holds because a wallet call is aborted after 5 s and a lock lasts 60 s; without it two
processes can work on one job. `PowerAssumption` states that the backoff is a number.
`JobsSettleOnce` and the action property `AttemptsRise`, a part of `NothingTwice`,
follow.

**Webhooks.** `InFlightHasOwner` and `NoOrphans`, parts of `DeliveriesAreOwned`, are not
inductive. Who holds a delivery has claimed it and is alone (`HoldInv`), which needs
that a row is signed before it exists (`NewInv`), that an event is fanned out once to
each subscription (`FanInv`) and that a replay holds a dead-lettered row (`ReplayInv`).
`AnswerInv` ties success to a receipt and `CountInv` relates the posts made to the
attempt on the row: one less before the post, as many after it, never above
`MaxAttempts`. A delivery that was replayed while another one held it is in `raced`, and
exempt. The hypothesis `Bounded` says that one attempt is allowed at least.
`DeliveriesAreOwned` and the action property `DeliveredOnce` (what has succeeded is
never taken up again) follow.

**Delivery.** Dispatcher, runner and wallets share a clock: every behaviour of
`DeliverySpec` is one of the dispatcher (`HooksBehave`) and one of the runner
(`JobsBehave`). So `DeliveriesAreOwned` holds of the composition without a hypothesis
(`NumberAssumption` allows an attempt), and `NothingTwice`, that attempts rise and what
was delivered is not sent again, under `~Slow`.

**OperatorWallet.** For any finite set of requests, in any order and number
(`RequestAssumption`: a uuid is one request's, a transaction is a movement of one player
or the reversal of one). `BalanceIsLedger` is kept entry by entry: what a request books
is one summand more or less. `StoreInv` says whence an entry and a reversal come;
`AgreeInv` that the adapter has on record what the store's ledger shows, or that the
transaction was reversed by a request that the adapter committed too. Both are about
rows that no reversal reopened, which is the finding. `WalletsAddUp` follows.

**EngineControl.** About `ControlSpec`: any callers, patches and hands, any requested
values that the schema admits (`WantAssumption`), levers without a bound. `LoneInv`:
unless requests crossed, at most one caller is at work or engine alive, what lives is in
the map, and nobody is at work during the shutdown. `CallInv` ties an engine that
starts to the caller that waits for it, and says that a caller past the plugin's schema holds
mathematics the plugin accepts, which makes a live engine well typed. `RowInv`: what
a patch committed and what a caller read is the row, and only a patch still to be pushed keeps
the engine from it. `HaltIsSeenHere` is inductive with these, and
`EnginesAreControlled` follows.

**Sessions.** For any requests, uuids and routes. `LaunchInv`: of the requests with one
uuid one at a time is under way unless the uuid is excused, and what one of them
answered is on record, so the next does not pass the lookup; hence one session per uuid.
`AnswerInv`: who is told of a session is told of one that exists. `RouteInv`: what a
route read is still so, unless another route read it too; so `EndInv`, that the operator
hears of an end once, and `SeedInv`, that a seed was drawn, and is revealed or the seed
of one session, which gives `SeedsAreRevealedInTurn`. `SessionsAreAccounted` follows.
`RequestAssumption` keeps the names of answers apart from those of requests. In TLC's
instance both requests carry one uuid (`UuidOf <- SameUuid`), which is the interesting
case; the theorem covers every assignment.

**GameSocket.** `SocketInv`: the presence of a session is the number of its sockets that
joined or leaked, and the room shows the number of the sessions present. Each
action moves one socket in or out of such a set, so the proof is about cardinalities
of finite sets; `SocketAssumption` says that sockets and sessions are finite and that
one attempt at least is made for the balance. `PresenceIsShown` follows.

**BetLimits.** For any finite set of bets, any stakes and prizes, any limits or none
(`LimitAssumption`). `RoomInv`: as long as checks do not overlap, one bet at most is on
its way, and the limits of its session and of its day leave room for its stake; so what
is accepted keeps a total `Within` its limits. A bet changes one summand of the two
totals it is in. The rules of a jurisdiction and the ranges of addresses are compared
with their reference by cases; the ranges need that a power of two is twice the one
before, which the assumption states for the bits of a byte since the prover knows
no powers. `LimitsAndGates` follows.

**KeyRotation.** About `RotationSpec`, in which credentials and keys move side by side;
`RotationIsAPart` says that the console's behaviours are among these.
`LastInv`: only a revocation ends the newest credential. `ReadInv`: what a rotation is
about to end has not ended yet, because no hour passes during a request; hence
`RejectedStaysRejected`. `AloneInv`: as long as rotations do not cross, only the newest
lives on and the one rotation under way has it in hand; so a promise is about an older
one that nobody touches again (`PromiseInv`). For the keys, one that is signing stays
published for `KeyGrace` (`SignerInv`), which no token outlives by `LifeFitsGrace`
(`TokenInv`), and whoever mints finds no active key and no rotation (`ActiveInv`).
`GraceAssumption` is the 24 h limit of both consoles. `RotationIsSeamless` and
`RejectedStaysRejected` follow.

**PortalAccess.** For any addresses, handlers and rows. An address in `met` has had two
requests under way at once; about any other, a request is alone (`AloneWith`), so what
it read still holds when it writes. `OpenInv`: at most one invitation is open, none
while another is about to be written, and one being accepted is open. `AcceptInv`: a
user but the seeded one has one accepted invitation, and who is no user has none; this
part needs no exemption, since the commit itself refuses an address that has a user.
`FactorInv`: what is enrolled is the secret that was proven last, and a login knows
whether the user is enrolled. `GrantInv`: a challenge that opened a portal session is
used up. `HandlerInv` and `UserInv` say that the rows a request speaks of exist, and
that a user has no more passkeys than challenges were used, which bounds them.
`UsersAreSound` follows. `NoWayBack` is `RejectedStaysRejected`, `OnlyOpenIsAccepted`
and `PasswordAloneIsAsked` together; the last two read the same invariants in one step.
`PortalAssumption` says that the bounds are numbers.

**OperatorRegistry.** For any requests, slugs, certificates and contents. A twin or
token that overlapping requests were about, or a certificate two of whose uploads drew
one file name, is in `shared` and exempt. `PairInv`: a creation that looked at a twin
finds it single when it commits, slugs differ, and twins point at each other across
environments. `UploadInv`: a token in an upload's hands is unused and in no other's, and
is marked when it has been used. `FileInv`: a file belongs to one certificate, and holds
what the upload under way has written to it, or what the row says. `RegistryIsSound`
follows.

**RoundEvidence.** For any players, rounds and configurations. `RoundInv`: a round that
rolled has the outcome of its own seed, nonce and configuration, and no other has one.
`BetInv`: no transaction is drawn twice. `CallInv`: an audited call carries the
transaction its bet has for it, and that of a rollback is no bet's. `EvidenceAgrees`,
that proof, replay, dispute pack and look-ups of a round say the same wherever the
findings do not say otherwise, follows. A function of seed, nonce and configuration is
all that is assumed of an outcome.

**Paging.** For any page length (`PageAssumption`: a number) and any table. `OrderInv`:
what was shown comes before the cursor, and pages are in order. `MissInv`: where rows
keep their place, a row that was listed from the start has been shown, was a cursor, or
comes after the cursor. Neither holds for a list whose order is not unique, and these
are exempt. A page is a set of ids, which the order of the list arranges.
`PagesMissOnlyCursors` follows: rows are shown once and only those handed out as cursors
are missed, which is the finding about every list.

**LedgerTotals.** For any finite set of transactions with amounts that are not negative
(`LedgerAssumption`), any number of calls and days. `RowsInv`: a row says of its call
what was sent, a transaction is on the wire once, an OK was booked. `OnceInv`: until an
OK is forgotten and its call sent again, a transaction has one row that succeeded.
`CleanInv`: with every row written and every answer seen, what the operator booked is on
a row of its day, or about to be. So rows and bookings are the same summands under
another name (`DriftHasACause`), or some of them (`NeverOverstated`), and a period is
its calls split by day (`PeriodsPartition`). The verdicts are by cases, for any totals.
`TotalsReconcile` follows.

**AuditChain.** For any writers, days (`ChainAssumption`: at least one) and events. A day
is hashed by a *walk* over its rows from a start. The lemmas about walks say that there
is one for every start and contents, that it grows with each row, and (`SameWalks`) that
two walks to one hash, the second over no rows the first has not, are over the same rows
with the same contents, if both start before them. The invariant keeps what the code
does not: `SignedInv`, that the tip of a signed day is the walk over the contents the
job *read*, from which everything altered or removed since can be told (`Evidence`), and
that `JobInv` carries this through the job's steps. The replay is the walk over the day as it
is, so it cannot end in the signed tip (`AlterationShows`): this needs no calm and no
agreement of the two starts. `CalmInv`: on a day nobody touched the two walks, their
starts and every stored link are the same (`AnchoredDayReplays`); a late write or a
backfill ends the calm of its own day and of all later ones, re-linking that of the later.
`LineInv`: while nothing was disturbed the one writer under way has the newest row and has
read the newest hash. `WriterInv` and `TableInv` say that a writer's row is its own and
open, and that rows are in the order of their days. `ChainIsEvidence` follows.

**Reports.** For any finite set of operators, any currencies, number of bets and hours
(`ReportsAssumption`: stake, win and lengths are numbers, a day has an hour, a name is a
text). `ReportsInv` is the life of one bet: what it has of a result, a payment and a
movement of the balance in each status, and that its hours have passed (`BetHolds`). The
sums then follow in the present state. A stake and a win fall into exactly one day
(`DaysPart`; that every hour has its day is by induction, `HoursHaveDays`), so the
settlements of all days are sums over all of an operator's bets, each of which is minus
what the bet did to the balance: `RevenueIsTheLedger`. The buckets of the trend
partition the last day likewise (`BucketsPart`). The verdicts of health, SLA and RTP are
by cases, over the figures the properties give. The CSV of the feed is read back by
following the reader from state to state (`Reads`, which composes over concatenation,
`ReadBoth`): a field, quoted or not, brings it from before the field to behind it
(`FieldIsRead`), and so a line gives back its fields (`LineIsRead`), whatever characters
an operator's name has. `ReportsAddUp` follows.

**Only model-checked.** Everything under fairness (`RoundLiveness`, `CashoutLiveness`,
`NeverStuckOpen`, `RejectedStakeIsReturned`, `QueuesDrain`, `LeversWork`,
`BalanceTold`), which is beyond the prover. `RulesAreExact` evaluates conversions over
bounded inputs by folding over their bytes. That the audit log leads to
the row (`AuditReplaysRow`, in `LeversWork`) replays the log by recursion. The stores of
the browsers (`DicePageIsTrue`, `CrashPageIsTrue`) are not proved: their inductive
invariant has to follow every event on the wire into the store, and no proof of it is
written here.

## 6. Not modelled

- The pages of the two portals and the drawing of the games (`DiceManager`, canvas,
  sounds): they show what the routes return, and keep no state of their own beyond
  what is typed into a form.
- Hashes, signatures and ciphers as functions; `packages/rng-core` and the outcome
  curves of the games, whose floats TLC has not: an outcome is an arbitrary function of
  seed, nonce and configuration.
- Rate limits, request validation, CRUD of single rows, metrics, logging, exports.
- The wire format of the adapters, BALANCE calls, `updateConfig` beyond the push of a
  patch, read-only getters.
- Within the modelled parts: amounts in micro-units and commissions (`RoundEngine` has
  one unit per stake; sums are in `LedgerTotals` and `Reports`), roll-ups of live-crash
  rounds, the counter of a passkey, audit rows of portal actions, balances and amounts in
  the clients.
