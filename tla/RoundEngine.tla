---------------------------- MODULE RoundEngine ----------------------------
(***************************************************************************)
(* One GameEngine: the round loop of one (operator, game, currency), its   *)
(* placeBet handlers, crash recovery, and the two parties every bet's      *)
(* money depends on, the operator's wallet and the queue of retried wallet *)
(* calls (PendingWalletJob).                                               *)
(*                                                                         *)
(* A step is the code between two awaits: the database write or wallet     *)
(* call that ends the await, with the synchronous code after it.  Every    *)
(* step may therefore interleave with every other handler, and the process *)
(* may die between any two.  This module is the engine of a plugin without *)
(* liveCrash (the dice game); cash-outs are not part of it.                *)
(*                                                                         *)
(* Data that no property tells apart is left out: a bet stakes one unit    *)
(* and wins one unit, a selection is the outcome it wins on, and the       *)
(* admission checks of placeBet that only read (limits, session expiry)    *)
(* are one choice between passing and not passing.                         *)
(***************************************************************************)
EXTENDS Naturals, FiniteSets

CONSTANTS
    Bets,           \* the place_bet messages the players may send
    Outcomes,       \* what plugin.computeOutcome may return
    Pick,           \* Pick[b]: the outcome on which plugin.settleBet pays bet b
    None,           \* the null of the database
    MaxRounds,      \* bound: rounds ever created
    MaxCrashes,     \* bound: times the process dies
    MaxStops,       \* bound: times it is shut down with stop()
    MaxFaults,      \* bound: database calls that throw
    LateDelivery    \* may a /wallet/bet that timed out still reach the operator?

ASSUME PickAssumption == Pick \in [Bets -> Outcomes]
ASSUME NoneAssumption == None \notin Outcomes /\ None \notin Bets
ASSUME BoundAssumption ==
    {MaxRounds, MaxCrashes, MaxStops, MaxFaults} \subseteq Nat
ASSUME LateAssumption == LateDelivery \in BOOLEAN

VARIABLES
    \* ---- Postgres ------------------------------------------------------
    lastRound,      \* rounds are numbered in the order they are created
    roundState,     \* Round.state
    outcome,        \* Round.outcomeData
    roundNonce,     \* Round.nonce
    sessionNonce,   \* GameSession.nonce of the engine's session
    totalBets,      \* Round.totalBetsMicro
    totalPayouts,   \* Round.totalPayoutsMicro
    betStatus,      \* Bet.status, "NONE" while there is no row
    betRound,       \* Bet.roundId; set when placeBet captures the active round
    winTx,          \* Bet.winTransactionUuid, 0 for null
    register,       \* PendingRoundBet.state, "NONE" while there is no row
    winJobs,        \* open PendingWalletJob rows, endpoint WIN: <<bet, uuid>>
    rollbackJobs,   \* open PendingWalletJob rows, endpoint ROLLBACK
    \* ---- the operator's wallet and the network -------------------------
    debited,        \* bets whose stake the operator has booked
    credits,        \* win transactions the operator has booked: <<bet, uuid>>
    rolledBack,     \* bets whose stake the operator has given back
    late,           \* abandoned /wallet/bet requests still on the network
    \* ---- memory of the process -----------------------------------------
    running,        \* GameEngine.running
    pc,             \* where start() or runLoop() is
    at,             \* the round being settled or resumed
    cur, tx,        \* the bet and the win uuid the loop is working on
    work,           \* bets read by the last findMany and not handled yet
    stuck,          \* rounds read by resumeUnsettledRounds, not handled yet
    sum,            \* totalPayout so far
    hpc,            \* where each placeBet handler is
    minted,         \* win uuids generated for each bet so far
    crashes, stops, faults \* how many have happened

rounds  == <<lastRound, roundState, outcome, roundNonce, sessionNonce, totalPayouts>>
bets    == <<betStatus, winTx, register>>
jobs    == <<winJobs, rollbackJobs>>
database == <<rounds, bets, jobs>>
wallet  == <<debited, credits, rolledBack, late>>
memory  == <<at, cur, tx, work, stuck, sum, minted>>
engine  == <<running, pc, memory>>
placing == <<betRound, hpc, totalBets>>
bounds  == <<crashes, stops, faults>>
vars == <<database, wallet, engine, placing, bounds>>

Rounds == 1..MaxRounds
RoundStates == {"NONE", "BETTING_OPEN", "ROLLING", "RESULT", "SETTLED", "VOIDED"}
BetStatuses == {"NONE", "PENDING", "ACCEPTED", "REJECTED", "SETTLED", "FAILED",
                "VOIDED"}
RegisterStates == {"NONE", "HELD", "RESOLVED", "REFUNDED"}

ResumePcs == {"resume", "requeue", "requeueLost", "requeueSave",
              "voidRead", "voiding", "voidRefund", "voidRollback"}
SettlePcs == {"settling", "settleLost", "paying", "settleWon", "settleFailed"}
LoopPcs == {"create", "count", "betting", "close", "rolling", "snapshot",
            "cooldown"} \cup SettlePcs
HandlerPcs == {"idle", "gating", "calling", "ok", "hold", "count", "refused",
               "uncertain", "rollback", "done"}

\* Round.settled is written true in the same updates that write these states.
Settled(r) == roundState[r] \in {"SETTLED", "VOIDED"}

\* plugin.settleBet: whether bet b wins on the outcome of round r.
Wins(b, r) == outcome[r] = Pick[b]

Init ==
    /\ lastRound = 0 /\ sessionNonce = 0
    /\ roundState = [r \in Rounds |-> "NONE"]
    /\ outcome = [r \in Rounds |-> None]
    /\ roundNonce = [r \in Rounds |-> 0]
    /\ totalBets = [r \in Rounds |-> 0]
    /\ totalPayouts = [r \in Rounds |-> 0]
    /\ betStatus = [b \in Bets |-> "NONE"]
    /\ betRound = [b \in Bets |-> 0]
    /\ winTx = [b \in Bets |-> 0]
    /\ register = [b \in Bets |-> "NONE"]
    /\ winJobs = {} /\ rollbackJobs = {}
    /\ debited = {} /\ credits = {} /\ rolledBack = {} /\ late = {}
    /\ running = FALSE /\ pc = "down"
    /\ at = 0 /\ cur = None /\ tx = 0 /\ work = {} /\ stuck = {} /\ sum = 0
    /\ hpc = [b \in Bets |-> "idle"]
    /\ minted = [b \in Bets |-> 0]
    /\ crashes = 0 /\ stops = 0 /\ faults = 0

-----------------------------------------------------------------------------
(* placeBet: the handler of one place_bet message.                         *)

Handler(b, from, to) == hpc[b] = from /\ hpc' = [hpc EXCEPT ![b] = to]

SetBet(b, s) == betStatus' = [betStatus EXCEPT ![b] = s]

\* The phase is BETTING_OPEN; the handler keeps the active round it saw.
PlaceBet(b) ==
    /\ pc = "betting"
    /\ Handler(b, "idle", "gating")
    /\ betRound' = [betRound EXCEPT ![b] = lastRound]
    /\ UNCHANGED <<database, wallet, engine, totalBets, bounds>>

\* Session or responsible-gaming checks turn the bet down; nothing is stored.
GateRejects(b) ==
    /\ Handler(b, "gating", "done")
    /\ UNCHANGED <<database, wallet, engine, betRound, totalBets, bounds>>

\* The Bet row is written as PENDING and /wallet/bet is sent.
CreateBet(b) ==
    /\ Handler(b, "gating", "calling")
    /\ SetBet(b, "PENDING")
    /\ UNCHANGED <<rounds, winTx, register, jobs, wallet, engine, betRound,
                   totalBets, bounds>>

\* The answers walletClient.bet may return.  RS_OK and DUPLICATE come only
\* from an operator that booked the debit; a timeout, a 5xx, a broken body or
\* an open circuit says nothing about it.
BetOk(b) ==
    /\ b \in debited
    /\ Handler(b, "calling", "ok")
    /\ UNCHANGED <<database, wallet, engine, betRound, totalBets, bounds>>

\* Mutant: an answer that is no success counts as a clean reject.
BetRefusedUnsure(b) ==
    /\ Handler(b, "calling", "refused")
    /\ UNCHANGED <<database, wallet, engine, betRound, totalBets, bounds>>

BetRefused(b) ==
    /\ b \notin debited
    /\ Handler(b, "calling", "refused")
    /\ UNCHANGED <<database, wallet, engine, betRound, totalBets, bounds>>

BetUncertain(b) ==
    /\ Handler(b, "calling", "uncertain")
    /\ late' = IF LateDelivery /\ b \notin debited THEN late \cup {b} ELSE late
    /\ UNCHANGED <<database, debited, credits, rolledBack, engine, betRound,
                   totalBets, bounds>>

\* The accepted branch: three writes, and no second look at the phase.
AcceptBet(b) ==
    /\ Handler(b, "ok", "hold")
    /\ SetBet(b, "ACCEPTED")
    /\ UNCHANGED <<rounds, winTx, register, jobs, wallet, engine, betRound,
                   totalBets, bounds>>

HoldBet(b) ==
    /\ Handler(b, "hold", "count")
    /\ register' = [register EXCEPT ![b] = "HELD"]
    /\ UNCHANGED <<rounds, betStatus, winTx, jobs, wallet, engine, betRound,
                   totalBets, bounds>>

CountBet(b) ==
    /\ Handler(b, "count", "done")
    /\ totalBets' = [totalBets EXCEPT ![betRound[b]] = @ + 1]
    /\ UNCHANGED <<database, wallet, engine, betRound, bounds>>

RejectBet(b) ==
    /\ Handler(b, "refused", "done")
    /\ SetBet(b, "REJECTED")
    /\ UNCHANGED <<rounds, winTx, register, jobs, wallet, engine, betRound,
                   totalBets, bounds>>

\* Mutant: the rollback is queued and the bet row is left alone.
RejectUncertainLater(b) ==
    /\ Handler(b, "uncertain", "rollback")
    /\ UNCHANGED <<database, wallet, engine, betRound, totalBets, bounds>>

\* The uncertain branch: the bet is rejected first, the rollback queued second.
RejectUncertain(b) ==
    /\ Handler(b, "uncertain", "rollback")
    /\ SetBet(b, "REJECTED")
    /\ UNCHANGED <<rounds, winTx, register, jobs, wallet, engine, betRound,
                   totalBets, bounds>>

EnqueueRollback(b) ==
    /\ Handler(b, "rollback", "done")
    /\ rollbackJobs' = rollbackJobs \cup {b}
    /\ UNCHANGED <<rounds, bets, winJobs, wallet, engine, betRound, totalBets,
                   bounds>>

-----------------------------------------------------------------------------
(* The operator's wallet.  It books each transaction once, by its uuid.    *)

WalletDebits(b) ==
    /\ hpc[b] = "calling" /\ b \notin debited
    /\ debited' = debited \cup {b}
    /\ UNCHANGED <<database, credits, rolledBack, late, engine, placing,
                   bounds>>

\* A /wallet/bet nobody waits for any more reaches the operator after all.
DeliverLate(b) ==
    /\ b \in late
    /\ late' = late \ {b} /\ debited' = debited \cup {b}
    /\ UNCHANGED <<database, credits, rolledBack, engine, placing, bounds>>

\* The operator books the /wallet/win that settle() is waiting for.
WalletCredits ==
    /\ pc = "paying" /\ <<cur, tx>> \notin credits
    /\ credits' = credits \cup {<<cur, tx>>}
    /\ UNCHANGED <<database, debited, rolledBack, late, engine, placing,
                   bounds>>

-----------------------------------------------------------------------------
(* The job runner, seen from here: it sends a queued call again and again  *)
(* and closes the job only when the operator has answered that the call    *)
(* succeeded, or that the transaction to roll back does not exist.         *)

\* An attempt that reached the operator although the job stays open.
WinJobDelivered(j) ==
    /\ pc # "down" /\ j \in winJobs /\ j \notin credits
    /\ credits' = credits \cup {j}
    /\ UNCHANGED <<database, debited, rolledBack, late, engine, placing,
                   bounds>>

WinJobDone(j) ==
    /\ pc # "down" /\ j \in winJobs
    /\ credits' = credits \cup {j}
    /\ winJobs' = winJobs \ {j}
    /\ UNCHANGED <<rounds, bets, rollbackJobs, debited, rolledBack, late,
                   engine, placing, bounds>>

RollbackDelivered(b) ==
    /\ pc # "down" /\ b \in rollbackJobs \cap debited /\ b \notin rolledBack
    /\ rolledBack' = rolledBack \cup {b}
    /\ UNCHANGED <<database, debited, credits, late, engine, placing, bounds>>

RollbackDone(b) ==
    /\ pc # "down" /\ b \in rollbackJobs
    /\ rolledBack' = rolledBack \cup ({b} \cap debited)
    /\ rollbackJobs' = rollbackJobs \ {b}
    /\ UNCHANGED <<rounds, bets, winJobs, debited, credits, late, engine,
                   placing, bounds>>

-----------------------------------------------------------------------------
(* start(): resumeUnsettledRounds, then the loop.                          *)

Loop(from, to) == pc = from /\ pc' = to

\* Mutant: only rounds whose result is stored are resumed.
UnsettledResults == {r \in 1..lastRound : roundState[r] = "RESULT"}

Unsettled == {r \in 1..lastRound : ~Settled(r)}

\* Mutant: running is set before the recovery instead of after it.
StartRunning ==
    /\ Loop("down", "resume")
    /\ stuck' = Unsettled /\ running' = TRUE
    /\ UNCHANGED <<database, wallet, at, cur, tx, work, sum, minted, placing,
                   bounds>>

Start ==
    /\ Loop("down", "resume")
    /\ stuck' = Unsettled
    /\ UNCHANGED <<database, wallet, running, at, cur, tx, work, sum, minted,
                   placing, bounds>>

\* Mutant: recovery trusts the state column instead of the outcome.
OutcomeKnownByState(r) == roundState[r] = "SETTLED"

OutcomeKnown(r) == outcome[r] # None

\* The outcome is known: read the bets it left unresolved.
ResumeKnown(r) ==
    /\ r \in stuck /\ OutcomeKnown(r)
    /\ Loop("resume", "requeue")
    /\ stuck' = stuck \ {r} /\ at' = r /\ sum' = 0
    /\ work' = {b \in Bets : betRound[b] = r /\ betStatus[b] \in {"ACCEPTED", "FAILED"}}
    /\ UNCHANGED <<database, wallet, running, cur, tx, minted, placing, bounds>>

\* updateMany where state = HELD: a row that is not there yet is not created.
Release(b, to) ==
    register' = IF register[b] = "HELD" THEN [register EXCEPT ![b] = to]
                                        ELSE register

RequeueLost(b) ==
    /\ b \in work /\ ~Wins(b, at)
    /\ Loop("requeue", "requeueLost")
    /\ cur' = b /\ work' = work \ {b}
    /\ SetBet(b, "SETTLED")
    /\ UNCHANGED <<rounds, winTx, register, jobs, wallet, running, at, tx,
                   stuck, sum, minted, placing, bounds>>

ReleaseRequeued ==
    /\ Loop("requeueLost", "requeue")
    /\ Release(cur, "RESOLVED")
    /\ UNCHANGED <<rounds, betStatus, winTx, jobs, wallet, running, memory,
                   placing, bounds>>

\* Mutant: every requeued win gets a new uuid.
HasUuidNever(b) == FALSE

\* bet.winTransactionUuid ?? newUuid()
HasUuid(b) == winTx[b] # 0

\* A winner keeps the uuid its bet row carries.  The job is created first, the
\* bet row is written after it.  (A second job for the same uuid is the same
\* member of winJobs: the operator books the uuid once.)
RequeueWin(b) ==
    /\ b \in work /\ Wins(b, at)
    /\ Loop("requeue", "requeueSave")
    /\ cur' = b /\ work' = work \ {b} /\ sum' = sum + 1
    /\ IF HasUuid(b)
         THEN tx' = winTx[b] /\ UNCHANGED minted
         ELSE /\ tx' = minted[b] + 1
              /\ minted' = [minted EXCEPT ![b] = @ + 1]
    /\ winJobs' = winJobs \cup {<<b, tx'>>}
    /\ UNCHANGED <<rounds, bets, rollbackJobs, wallet, running, at, stuck,
                   placing, bounds>>

SaveRequeued ==
    /\ Loop("requeueSave", "requeue")
    /\ SetBet(cur, "FAILED")
    /\ winTx' = [winTx EXCEPT ![cur] = tx]
    /\ UNCHANGED <<rounds, register, jobs, wallet, running, memory, placing,
                   bounds>>

\* round.update: state, settled and the payout roll-up in one write.
SettleRound(r) ==
    /\ roundState' = [roundState EXCEPT ![r] = "SETTLED"]
    /\ totalPayouts' = [totalPayouts EXCEPT ![r] = sum]
    /\ UNCHANGED <<lastRound, outcome, roundNonce, sessionNonce>>

CloseResumed ==
    /\ work = {} /\ Loop("requeue", "resume")
    /\ SettleRound(at)
    /\ UNCHANGED <<bets, jobs, wallet, running, memory, placing, bounds>>

\* The outcome is unknown: the round is voided first, its bets are read and
\* refunded one by one afterwards.
VoidRound(r) ==
    /\ r \in stuck /\ ~OutcomeKnown(r)
    /\ Loop("resume", "voidRead")
    /\ stuck' = stuck \ {r} /\ at' = r
    /\ roundState' = [roundState EXCEPT ![r] = "VOIDED"]
    /\ UNCHANGED <<lastRound, outcome, roundNonce, sessionNonce, totalPayouts,
                   bets, jobs, wallet, running, cur, tx, work, sum, minted,
                   placing, bounds>>

\* Mutant: bets the operator has not answered yet are read too.
AcceptedOrPending(r) ==
    {b \in Bets : betRound[b] = r /\ betStatus[b] \in {"PENDING", "ACCEPTED"}}

\* bet.findMany: the bets of round r the operator has accepted.
Accepted(r) == {b \in Bets : betRound[b] = r /\ betStatus[b] = "ACCEPTED"}

ReadVoided ==
    /\ Loop("voidRead", "voiding")
    /\ work' = Accepted(at)
    /\ UNCHANGED <<database, wallet, running, at, cur, tx, stuck, sum, minted,
                   placing, bounds>>

VoidBet(b) ==
    /\ b \in work
    /\ Loop("voiding", "voidRefund")
    /\ cur' = b /\ work' = work \ {b}
    /\ SetBet(b, "VOIDED")
    /\ UNCHANGED <<rounds, winTx, register, jobs, wallet, running, at, tx,
                   stuck, sum, minted, placing, bounds>>

RefundRegister ==
    /\ Loop("voidRefund", "voidRollback")
    /\ Release(cur, "REFUNDED")
    /\ UNCHANGED <<rounds, betStatus, winTx, jobs, wallet, running, memory,
                   placing, bounds>>

\* Mutant: the ROLLBACK job is forgotten.
EnqueueRefundForgotten ==
    /\ Loop("voidRollback", "voiding")
    /\ UNCHANGED <<database, wallet, running, memory, placing, bounds>>

EnqueueRefund ==
    /\ Loop("voidRollback", "voiding")
    /\ rollbackJobs' = rollbackJobs \cup {cur}
    /\ UNCHANGED <<rounds, bets, winJobs, wallet, running, memory, placing,
                   bounds>>

CloseVoided ==
    /\ work = {} /\ Loop("voiding", "resume")
    /\ UNCHANGED <<database, wallet, running, memory, placing, bounds>>

\* Mutant: the loop starts while rounds wait for recovery.
FinishResumeEarly ==
    /\ Loop("resume", "create")
    /\ running' = TRUE
    /\ UNCHANGED <<database, wallet, memory, placing, bounds>>

FinishResume ==
    /\ stuck = {} /\ Loop("resume", "create")
    /\ running' = TRUE
    /\ UNCHANGED <<database, wallet, memory, placing, bounds>>

-----------------------------------------------------------------------------
(* runLoop: openBetting, rollAndReveal, settle, cooldown.                  *)

\* round.create copies the session's nonce; bumping it is a later write.
CreateRound ==
    /\ lastRound < MaxRounds
    /\ Loop("create", "count")
    /\ lastRound' = lastRound + 1
    /\ roundState' = [roundState EXCEPT ![lastRound'] = "BETTING_OPEN"]
    /\ roundNonce' = [roundNonce EXCEPT ![lastRound'] = sessionNonce]
    /\ UNCHANGED <<outcome, sessionNonce, totalPayouts, bets, jobs, wallet,
                   running, memory, placing, bounds>>

\* Mutant: the nonce is written from the round instead of incremented.
CountNonceStale ==
    /\ Loop("count", "betting")
    /\ sessionNonce' = roundNonce[lastRound]
    /\ UNCHANGED <<lastRound, roundState, outcome, roundNonce, totalPayouts,
                   bets, jobs, wallet, running, memory, placing, bounds>>

\* The betting window opens once the nonce is bumped.
CountNonce ==
    /\ Loop("count", "betting")
    /\ sessionNonce' = sessionNonce + 1
    /\ UNCHANGED <<lastRound, roundState, outcome, roundNonce, totalPayouts,
                   bets, jobs, wallet, running, memory, placing, bounds>>

\* The window ends: the phase changes in memory, then in the database.
CloseBetting ==
    /\ Loop("betting", "close")
    /\ UNCHANGED <<database, wallet, running, memory, placing, bounds>>

StoreRolling ==
    /\ Loop("close", "rolling")
    /\ roundState' = [roundState EXCEPT ![lastRound] = "ROLLING"]
    /\ UNCHANGED <<lastRound, outcome, roundNonce, sessionNonce, totalPayouts,
                   bets, jobs, wallet, running, memory, placing, bounds>>

\* plugin.computeOutcome is a function of the session's seeds and the nonce, so
\* rounds that share a nonce share their outcome.
Computes(o) ==
    \A r \in 1..lastRound :
        outcome[r] # None /\ roundNonce[r] = roundNonce[lastRound]
            => o = outcome[r]

Reveal(o) ==
    /\ Computes(o)
    /\ Loop("rolling", "snapshot")
    /\ outcome' = [outcome EXCEPT ![lastRound] = o]
    /\ roundState' = [roundState EXCEPT ![lastRound] = "RESULT"]
    /\ UNCHANGED <<lastRound, roundNonce, sessionNonce, totalPayouts, bets,
                   jobs, wallet, running, memory, placing, bounds>>

\* Mutant: the payout sum is not reset between rounds.
SnapshotKeepsSum ==
    /\ Loop("snapshot", "settling")
    /\ at' = lastRound /\ work' = Accepted(lastRound)
    /\ UNCHANGED <<database, wallet, running, cur, tx, stuck, sum, minted,
                   placing, bounds>>

\* settle() reads the accepted bets once.
Snapshot ==
    /\ Loop("snapshot", "settling")
    /\ at' = lastRound /\ work' = Accepted(lastRound) /\ sum' = 0
    /\ UNCHANGED <<database, wallet, running, cur, tx, stuck, minted, placing,
                   bounds>>

SettleLoss(b) ==
    /\ b \in work /\ ~Wins(b, at)
    /\ Loop("settling", "settleLost")
    /\ cur' = b /\ work' = work \ {b}
    /\ SetBet(b, "SETTLED")
    /\ UNCHANGED <<rounds, winTx, register, jobs, wallet, running, at, tx,
                   stuck, sum, minted, placing, bounds>>

ReleaseSettled ==
    /\ \E from \in {"settleLost", "settleWon"} : Loop(from, "settling")
    /\ Release(cur, "RESOLVED")
    /\ UNCHANGED <<rounds, betStatus, winTx, jobs, wallet, running, memory,
                   placing, bounds>>

\* A winner: a fresh uuid, known to nobody but this process, and /wallet/win.
StartWin(b) ==
    /\ b \in work /\ Wins(b, at)
    /\ Loop("settling", "paying")
    /\ cur' = b /\ work' = work \ {b} /\ sum' = sum + 1
    /\ tx' = minted[b] + 1
    /\ minted' = [minted EXCEPT ![b] = @ + 1]
    /\ UNCHANGED <<database, wallet, running, at, stuck, placing, bounds>>

SaveWin(status) ==
    /\ SetBet(cur, status)
    /\ winTx' = [winTx EXCEPT ![cur] = tx]
    /\ UNCHANGED <<rounds, register, jobs, wallet, running, memory, placing,
                   bounds>>

\* Mutant: any answer to /wallet/win counts as success.
WinConfirmedAnyway ==
    /\ Loop("paying", "settleWon")
    /\ SaveWin("SETTLED")

WinConfirmed ==
    /\ <<cur, tx>> \in credits
    /\ Loop("paying", "settleWon")
    /\ SaveWin("SETTLED")

WinUncertain ==
    /\ Loop("paying", "settleFailed")
    /\ SaveWin("FAILED")

\* Mutant: the retry is queued under a new uuid.
EnqueueWinAnew ==
    /\ Loop("settleFailed", "settling")
    /\ winJobs' = winJobs \cup {<<cur, tx + 1>>}
    /\ UNCHANGED <<rounds, bets, rollbackJobs, wallet, running, memory, placing,
                   bounds>>

\* Mutant: the retry is not queued.
EnqueueWinForgotten ==
    /\ Loop("settleFailed", "settling")
    /\ UNCHANGED <<database, wallet, running, memory, placing, bounds>>

EnqueueWin ==
    /\ Loop("settleFailed", "settling")
    /\ winJobs' = winJobs \cup {<<cur, tx>>}
    /\ UNCHANGED <<rounds, bets, rollbackJobs, wallet, running, memory, placing,
                   bounds>>

CloseRound ==
    /\ work = {} /\ Loop("settling", "cooldown")
    /\ SettleRound(at)
    /\ UNCHANGED <<bets, jobs, wallet, running, memory, placing, bounds>>

FinishCooldown ==
    /\ Loop("cooldown", IF running THEN "create" ELSE "stopped")
    /\ UNCHANGED <<database, wallet, running, memory, placing, bounds>>

-----------------------------------------------------------------------------
(* Shutdown, death of the process, and database calls that throw.          *)

\* stop() returns at once unless the loop runs, so it cannot stop a resume.
Stop ==
    /\ running /\ stops < MaxStops
    /\ running' = FALSE /\ stops' = stops + 1
    /\ UNCHANGED <<database, wallet, pc, memory, placing, crashes, faults>>

\* The memory of the process is gone and so are its handlers; a /wallet/bet in
\* flight may still arrive.
ProcessEnds ==
    /\ pc' = "down" /\ running' = FALSE
    /\ at' = 0 /\ cur' = None /\ tx' = 0 /\ work' = {} /\ stuck' = {} /\ sum' = 0
    /\ hpc' = [b \in Bets |-> IF hpc[b] = "idle" THEN "idle" ELSE "done"]
    /\ late' = IF LateDelivery
                 THEN late \cup {b \in Bets : hpc[b] = "calling" /\ b \notin debited}
                 ELSE late
    /\ UNCHANGED <<database, debited, credits, rolledBack, minted, betRound,
                   totalBets>>

Crash ==
    /\ pc # "down" /\ crashes < MaxCrashes
    /\ crashes' = crashes + 1
    /\ ProcessEnds
    /\ UNCHANGED <<stops, faults>>

\* The process exits after stop(), or after a start() that threw.
Exit ==
    /\ pc = "stopped"
    /\ ProcessEnds
    /\ UNCHANGED bounds

Fault == faults < MaxFaults /\ faults' = faults + 1

\* runLoop catches the error, waits and goes on with the next round.
LoopError ==
    /\ Fault
    /\ pc \in LoopPcs \ {"betting", "cooldown"}
    /\ pc' = "cooldown"
    /\ UNCHANGED <<database, wallet, running, memory, placing, crashes, stops>>

\* Nothing catches an error in resumeUnsettledRounds: start() fails.
StartError ==
    /\ Fault
    /\ pc \in ResumePcs
    /\ pc' = "stopped"
    /\ UNCHANGED <<database, wallet, running, memory, placing, crashes, stops>>

\* placeBet throws and the socket handler catches nothing.  Where the runtime
\* lets the process live, only this handler is over; where it ends the process
\* on an unhandled rejection, the step is a Crash.
HandlerError(b) ==
    /\ Fault
    /\ \E from \in {"gating", "ok", "hold", "count", "refused", "uncertain", "rollback"} :
           Handler(b, from, "done")
    /\ UNCHANGED <<database, wallet, engine, betRound, totalBets, crashes,
                   stops>>

\* The bound on rounds is reached: nothing else is asked of the loop.
BoundReached ==
    /\ pc = "create" /\ lastRound = MaxRounds
    /\ UNCHANGED vars

-----------------------------------------------------------------------------
HandlerStep(b) ==
    \/ CreateBet(b) \/ BetOk(b) \/ BetRefused(b) \/ BetUncertain(b)
    \/ AcceptBet(b) \/ HoldBet(b) \/ CountBet(b)
    \/ RejectBet(b) \/ RejectUncertain(b) \/ EnqueueRollback(b)

EngineStep ==
    \/ Start \/ FinishResume \/ CloseResumed \/ CloseVoided
    \/ \E r \in Rounds : ResumeKnown(r) \/ VoidRound(r)
    \/ \E b \in Bets : RequeueLost(b) \/ RequeueWin(b) \/ VoidBet(b)
    \/ ReleaseRequeued \/ SaveRequeued \/ ReadVoided \/ RefundRegister
    \/ EnqueueRefund
    \/ CreateRound \/ CountNonce \/ CloseBetting \/ StoreRolling
    \/ \E o \in Outcomes : Reveal(o)
    \/ Snapshot \/ ReleaseSettled
    \/ \E b \in Bets : SettleLoss(b) \/ StartWin(b)
    \/ WinConfirmed \/ WinUncertain \/ EnqueueWin \/ CloseRound
    \/ FinishCooldown \/ Exit

WalletStep ==
    \/ WalletCredits
    \/ \E b \in Bets : WalletDebits(b) \/ DeliverLate(b)

JobStep ==
    \/ \E j \in winJobs : WinJobDelivered(j) \/ WinJobDone(j)
    \/ \E b \in Bets : RollbackDelivered(b) \/ RollbackDone(b)

Failure == Stop \/ Crash \/ LoopError \/ StartError
           \/ \E b \in Bets : HandlerError(b)

Next ==
    \/ \E b \in Bets : PlaceBet(b) \/ GateRejects(b) \/ HandlerStep(b)
    \/ EngineStep
    \/ WalletStep
    \/ JobStep
    \/ Failure
    \/ BoundReached

Spec == Init /\ [][Next]_vars

\* The event loop keeps running what it can run: every await settles (wallet
\* calls have a timeout), every timer fires, and a queued wallet call that is
\* repeated for ever is answered in the end.  Nothing is promised about the
\* players, the operator's side of a call, late packets or failures.
Fairness ==
    /\ WF_vars(EngineStep)
    /\ \A b \in Bets : WF_vars(GateRejects(b) \/ HandlerStep(b))
    /\ \A b \in Bets : WF_vars(\E j \in winJobs : j[1] = b /\ WinJobDone(j))
    /\ \A b \in Bets : WF_vars(RollbackDone(b))

FairSpec == Spec /\ Fairness

-----------------------------------------------------------------------------
(* What the engine is for.                                                 *)

\* The win has been booked by the operator, at least once.
Credited(b) == \E j \in credits : j[1] = b

Ids == {None} \cup Bets
WinCalls == Bets \X Nat

\* Every variable holds what its column or field may hold, the loop is inside
\* its body exactly while it was started, and a handler that has chosen a round
\* chose one that exists.
TypeOK ==
    /\ lastRound \in 0..MaxRounds /\ sessionNonce \in Nat
    /\ roundState \in [Rounds -> RoundStates]
    /\ outcome \in [Rounds -> Outcomes \cup {None}]
    /\ roundNonce \in [Rounds -> Nat]
    /\ totalBets \in [Rounds -> Nat] /\ totalPayouts \in [Rounds -> Nat]
    /\ betStatus \in [Bets -> BetStatuses]
    /\ betRound \in [Bets -> 0..lastRound]
    /\ winTx \in [Bets -> Nat] /\ minted \in [Bets -> Nat]
    /\ register \in [Bets -> RegisterStates]
    /\ winJobs \subseteq WinCalls /\ credits \subseteq WinCalls
    /\ rollbackJobs \subseteq Bets /\ debited \subseteq Bets
    /\ rolledBack \subseteq Bets /\ late \subseteq Bets /\ work \subseteq Bets
    /\ running \in BOOLEAN
    /\ pc \in ResumePcs \cup LoopPcs \cup {"down", "stopped"}
    /\ running => pc \in LoopPcs
    /\ at \in 0..lastRound /\ cur \in Ids /\ tx \in Nat /\ sum \in Nat
    /\ stuck \subseteq 1..lastRound
    /\ hpc \in [Bets -> HandlerPcs]
    /\ \A b \in Bets : hpc[b] # "idle" => betRound[b] # 0
    /\ crashes \in Nat /\ stops \in Nat /\ faults \in Nat

\* A stake is paid a win or given back, never both: settle() and the recovery of
\* resumeUnsettledRounds must agree on whether a round was played.
NeverPaidAndRefunded == \A b \in rolledBack : ~Credited(b)

\* The operator is asked to credit a win only for a stake it has debited, in a
\* round whose stored outcome is the one the bet wins on.
PaidOnlyOnWin ==
    \A j \in credits : j[1] \in debited /\ Wins(j[1], betRound[j[1]])

\* A stake goes back only after the player was told the bet is rejected, or the
\* round was voided: the status is written before the ROLLBACK job exists.
RefundOnlyUnplayed ==
    \A b \in rolledBack : betStatus[b] \in {"REJECTED", "VOIDED"}

\* A stake goes one way: back to the player only if the bet was rejected or its
\* round voided, and to a win only if it was debited and the stored outcome
\* favours it, so never both, whoever closed the round and however often
\* recovery of resumeUnsettledRounds was itself interrupted.
StakeGoesOneWay == NeverPaidAndRefunded /\ PaidOnlyOnWin /\ RefundOnlyUnplayed

\* No win is silently dropped: a bet stored as SETTLED with a win uuid has been
\* credited under that uuid.
SettledWonIsPaid ==
    \A b \in Bets :
        betStatus[b] = "SETTLED" /\ winTx[b] # 0 => <<b, winTx[b]>> \in credits

\* Once a round is closed, every win the operator has not confirmed is in the
\* retry queue under the uuid stored with the bet, or has been booked under it,
\* whichever of settle() and resumeUnsettledRounds closed the round.
DebtIsQueued ==
    \A b \in Bets :
        betStatus[b] = "FAILED" /\ Settled(betRound[b])
            => <<b, winTx[b]>> \in winJobs \cup credits

\* A win decided by settle() is either booked by the operator or still owed under
\* the uuid stored with the bet: the bet row, the retry queue and the operator's
\* books agree once the round is closed, across crashes and late answers.
WinsAreOwedOrPaid == SettledWonIsPaid /\ DebtIsQueued

\* The loop opens a new round only when all earlier ones are settled or voided,
\* unless a database error made it give one up.
RecoveryIsComplete ==
    running /\ faults = 0 => \A r \in 1..(lastRound - 1) : Settled(r)

\* What settlement decided about a bet is never decided again, and a win keeps
\* the uuid that makes its retries idempotent.
SettlementIsFinal ==
    [][\A b \in Bets :
          /\ betStatus[b] \in {"REJECTED", "SETTLED", "FAILED", "VOIDED"}
                 => betStatus'[b] = betStatus[b]
          /\ winTx[b] # 0 => winTx'[b] = winTx[b]]_vars

-----------------------------------------------------------------------------
(* What holds as long as nothing fails.                                    *)

\* The operator's ledger keeps the contract: the engine's rounds, retries and
\* unanswered calls amount to one stake, and one payment or one refund.
Payments(b) == Cardinality({j \in credits : j[1] = b})

PaymentsOf == [b \in Bets |-> Payments(b)]

Contract == INSTANCE StakeContract WITH
    Stakes <- Bets, staked <- debited, payments <- PaymentsOf, refunded <- rolledBack

KeepsContract == Contract!Spec

\* The roll-ups of a settled round are the sums over its bets, although
\* handlers may still be adding to totalBets when the round closes.
RollupsAgree ==
    \A r \in Rounds :
        roundState[r] = "SETTLED"
        /\ (\A b \in Bets : betRound[b] = r => hpc[b] = "done") =>
            /\ totalPayouts[r] = Cardinality({b \in Bets :
                   betRound[b] = r /\ winTx[b] # 0})
            /\ totalBets[r] = Cardinality({b \in Bets :
                   betRound[b] = r
                   /\ betStatus[b] \in {"ACCEPTED", "SETTLED", "FAILED"}})

\* No two rounds are computed from the same seeds and nonce.
NoncesAreUnique ==
    \A r, s \in 1..lastRound : roundNonce[r] = roundNonce[s] => r = s

\* What a settled round stores is true of its bets and of its seeds: its sums are
\* those of its bets, and no other round was computed from its nonce.
RowsAgree == RollupsAgree /\ NoncesAreUnique

\* A stake that was debited although the player was told the bet is rejected is
\* given back.
RejectedStakeIsReturned ==
    \A b \in Bets :
        b \in debited /\ betStatus[b] = "REJECTED" ~> b \in rolledBack

-----------------------------------------------------------------------------
(* What comes about in the end, also across a crash.                       *)

\* A bet accepted while its betting window is open is settled, queued for
\* payment or voided.
AcceptedInWindowIsResolved ==
    \A b \in Bets :
        pc = "betting" /\ betRound[b] = lastRound /\ betStatus[b] = "ACCEPTED"
            ~> betStatus[b] \in {"SETTLED", "FAILED", "VOIDED"}

\* A win the operator did not confirm is credited in the end.
UnconfirmedWinIsCredited ==
    \A b \in Bets : betStatus[b] = "FAILED" ~> Credited(b)

\* The stake of a voided bet is given back.
VoidedStakeIsReturned ==
    \A b \in Bets : betStatus[b] = "VOIDED" ~> b \in rolledBack

\* Nothing stays owed: a bet accepted in its window is decided, an unconfirmed
\* win is credited and a voided stake is given back in the end, whatever the
\* engine, the retry runner and the wallet's answers do in between.
DebtsEnd == AcceptedInWindowIsResolved /\ UnconfirmedWinIsCredited /\ VoidedStakeIsReturned

\* Every round that was created is settled or voided.
RoundsClose == \A r \in Rounds : lastRound >= r ~> Settled(r)

-----------------------------------------------------------------------------
(* What the repository's documents say and the code does not do.           *)

\* settlement-failure.spec.ts: never two /wallet/win credits for one bet.
CreditedOnce == \A b \in Bets : Payments(b) <= 1

\* schema.prisma: settled is true once every ACCEPTED bet is settled or voided.
SettledMeansResolved ==
    \A b \in Bets :
        betRound[b] # 0 /\ Settled(betRound[b]) => betStatus[b] # "ACCEPTED"
=============================================================================
