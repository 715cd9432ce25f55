----------------------------- MODULE LiveCrash -----------------------------
(***************************************************************************)
(* One round of a live-crash game (Lempi Crash) in a GameEngine: the       *)
(* flight, the cash-outs the players ask for, the automatic ones the loop  *)
(* makes, the settlement after the crash, and what a restart does with the *)
(* round.  All three may pay the same bet through the same /wallet/win.    *)
(*                                                                         *)
(* A step is the code between two awaits.  Time is counted in ticks of the *)
(* multiplier: 1 stands for 1.00x, and a tick raises it by one.  A stake   *)
(* is one unit, so a payment is its multiplier.  The betting window, the   *)
(* register of held bets, the roll-ups and the steps inside a recovery are *)
(* those of RoundEngine and are not repeated here: a recovery is one step, *)
(* and a bet is a row that a placeBet handler may accept at any time.      *)
(***************************************************************************)
EXTENDS Naturals, FiniteSets

CONSTANTS
    Bets,       \* the bets placed in the round
    Target,     \* Target[b]: selection.autoCashoutMultiplier, None if absent
    Handlers,   \* cash_out handlers; each serves its messages one by one
    Asks,       \* Asks[h]: the bet that handler h cashes out
    Loop,       \* the engine's loop, a caller of cashOutBet like the handlers
    None,       \* no target
    Points,     \* crash multipliers plugin.computeOutcome may return
    MaxMult,    \* config.maxMultiplier
    MinFlight,  \* config.minFlightMs, in ticks
    MaxFlight,  \* config.maxFlightMs, in ticks
    MaxTime,    \* bound: ticks counted in one phase
    MaxCrashes, \* bound: times the process dies
    Stoppable   \* may the engine be stopped in this round?

ASSUME BetsAssumption ==
    /\ Bets # {} /\ None \notin Nat
    /\ Target \in [Bets -> (Nat \ {0, 1}) \cup {None}]
    /\ Asks \in [Handlers -> Bets] /\ Loop \notin Handlers
ASSUME FlightAssumption ==
    /\ MaxMult \in Nat /\ MaxCrashes \in Nat /\ Points \subseteq 1..MaxMult
    /\ Stoppable \in BOOLEAN /\ MinFlight \in Nat /\ MaxFlight \in MinFlight..MaxTime /\ MaxTime \in Nat

VARIABLES
    \* ---- Postgres and the operator's wallet ------------------------------
    state,      \* Round.state
    stored,     \* Round.outcomeData: the crash multiplier, 0 for null
    status,     \* Bet.status
    winTx,      \* Bet.winTransactionUuid, 0 for null
    cashMult,   \* Bet.cashoutMultiplier and cashoutPayoutMicro, 0 for null
    winJobs,    \* open PendingWalletJob rows, endpoint WIN
    refunds,    \* bets with a PendingWalletJob row, endpoint ROLLBACK
    credits,    \* win transactions the operator has booked
    \* ---- memory of the process -------------------------------------------
    running,    \* GameEngine.running
    phase,      \* active.phase, "DOWN" while the process is
    point,      \* active.outcome.crashMultiplier, 0 before it is computed
    elapsed,    \* Date.now() - active.phaseStartedAt
    lpc,        \* where the loop is
    seen,       \* the multiplier of this turn of the loop
    autos,      \* bets processAutoCashouts has read and not handled yet
    work,       \* bets settle() has read and not handled yet
    cpc,        \* where each caller of cashOutBet or /wallet/win is
    call,       \* the bet, uuid and multiplier it is working on
    minted,     \* uuids generated for each bet so far
    announced,  \* cash-outs told to the player with cashout_accepted
    crashes     \* how often the process has died

rows     == <<status, winTx, cashMult>>
database == <<state, stored, rows, winJobs, refunds>>
clock    == <<phase, point, elapsed>>
looping  == <<running, lpc, seen, autos, work>>
callers  == <<cpc, call, minted>>
vars == <<database, credits, clock, looping, callers, announced, crashes>>

Callers == Handlers \cup {Loop}
Calls == Bets \X Nat \X Nat

Least(S) == CHOOSE m \in S : \A n \in S : m <= n

\* What an idle caller holds.
NoCall == <<CHOOSE b \in Bets : TRUE, 0, 0>>

\* The curve: it climbs one step per tick, up to the maximal multiplier.
MultAt(t) == Least({MaxMult, 1 + t})

\* How long a flight to m takes: at least MinFlight, at most MaxFlight.
TimeTo(m) == IF m - 1 < MinFlight THEN MinFlight ELSE Least({MaxFlight, m - 1})

CrashAt == TimeTo(point)

\* plugin.settleBet: only an automatic target that the crash reached wins.
Wins(b, m) == Target[b] # None /\ Target[b] <= m

Init ==
    /\ state = "BETTING_OPEN" /\ stored = 0
    /\ status = [b \in Bets |-> "PENDING"]
    /\ winTx = [b \in Bets |-> 0] /\ cashMult = [b \in Bets |-> 0]
    /\ winJobs = {} /\ refunds = {} /\ credits = {}
    /\ running = TRUE /\ phase = "BETTING_OPEN" /\ point = 0 /\ elapsed = 0
    /\ lpc = "betting" /\ seen = 0 /\ autos = {} /\ work = {}
    /\ cpc = [c \in Callers |-> "idle"]
    /\ call = [c \in Callers |-> NoCall]
    /\ minted = [b \in Bets |-> 0]
    /\ announced = {} /\ crashes = 0

-----------------------------------------------------------------------------
(* The bets, and time.                                                     *)

Tick ==
    /\ phase \in {"ROLLING", "RESULT", "SETTLED"} /\ elapsed < MaxTime
    /\ elapsed' = elapsed + 1
    /\ UNCHANGED <<database, credits, phase, point, looping, callers,
                   announced, crashes>>

\* A placeBet handler stores the operator's answer, whatever the phase is now.
AnswerBet(b) ==
    /\ crashes = 0 /\ status[b] = "PENDING"
    /\ \E s \in {"ACCEPTED", "REJECTED"} : status' = [status EXCEPT ![b] = s]
    /\ UNCHANGED <<state, stored, winTx, cashMult, winJobs, refunds, credits,
                   clock, looping, callers, announced, crashes>>

-----------------------------------------------------------------------------
(* rollLiveCrashAndReveal: the flight.                                     *)

Go(from, to) == lpc = from /\ lpc' = to

\* The outcome is computed and the flight begins in memory ...
Launch(m) ==
    /\ Go("betting", "publish")
    /\ phase' = "ROLLING" /\ point' = m /\ elapsed' = 0
    /\ UNCHANGED <<database, credits, running, seen, autos, work, callers,
                   announced, crashes>>

\* ... and is stored when cash-outs may be under way already.
StoreRolling ==
    /\ Go("publish", "flying")
    /\ state' = "ROLLING" /\ stored' = point
    /\ UNCHANGED <<rows, winJobs, refunds, credits, clock, running, seen,
                   autos, work, callers, announced, crashes>>

\* One turn of the loop: it takes the multiplier of now, and reads the bets.
Climb ==
    /\ running /\ elapsed < CrashAt
    /\ Go("flying", "scan")
    /\ seen' = MultAt(elapsed)
    /\ UNCHANGED <<database, credits, clock, running, autos, work, callers,
                   announced, crashes>>

ReadAutos ==
    /\ Go("scan", "auto")
    /\ autos' = {b \in Bets : status[b] = "ACCEPTED" /\ cashMult[b] = 0
                              /\ Wins(b, seen)}
    /\ UNCHANGED <<database, credits, clock, running, seen, work, callers,
                   announced, crashes>>

NextTurn ==
    /\ autos = {} /\ cpc[Loop] = "idle"
    /\ Go("auto", "flying")
    /\ seen' = 0
    /\ UNCHANGED <<database, credits, clock, running, autos, work, callers,
                   announced, crashes>>

\* Mutant: the phase stays ROLLING until the round is settled.
LandInFlight ==
    /\ elapsed >= CrashAt \/ ~running
    /\ Go("flying", "reveal")
    /\ UNCHANGED <<database, credits, clock, running, seen, autos, work,
                   callers, announced, crashes>>

\* The crash, or a stop() in flight.  The clock of the phase starts again.
Land ==
    /\ elapsed >= CrashAt \/ ~running
    /\ Go("flying", "reveal")
    /\ phase' = "RESULT" /\ elapsed' = 0
    /\ UNCHANGED <<database, credits, point, running, seen, autos, work,
                   callers, announced, crashes>>

StoreResult ==
    /\ Go("reveal", "snapshot")
    /\ state' = "RESULT"
    /\ UNCHANGED <<stored, rows, winJobs, refunds, credits, clock, running,
                   seen, autos, work, callers, announced, crashes>>

-----------------------------------------------------------------------------
(* cashOutBet, for a handler or for the loop.                              *)

\* Caller c goes from one await to the next; it returns and forgets its call.
Step(c, from, to) == cpc[c] = from /\ cpc' = [cpc EXCEPT ![c] = to]
Return(c, from) == Step(c, from, "idle") /\ call' = [call EXCEPT ![c] = NoCall]

BetOf(c)  == call[c][1]
TxOf(c)   == call[c][2]
MultOf(c) == call[c][3]

\* The loop pays bets through cashOutBet in flight and by itself in settle().
Settling(c) == c = Loop /\ lpc = "settling"

\* cashOut(): the phase is looked at before the bet is read.
CashOut(h) ==
    /\ phase = "ROLLING"
    /\ Step(h, "idle", "reading")
    /\ call' = [call EXCEPT ![h] = <<Asks[h], 0, 0>>]
    /\ UNCHANGED <<database, credits, clock, looping, minted, announced,
                   crashes>>

AutoCashOut(b) ==
    /\ lpc = "auto" /\ b \in autos
    /\ Step(Loop, "idle", "reading")
    /\ autos' = autos \ {b}
    /\ call' = [call EXCEPT ![Loop] = <<b, 0, 0>>]
    /\ UNCHANGED <<database, credits, clock, running, lpc, seen, work, minted,
                   announced, crashes>>

\* Mutants: a bet that has been cashed out may be cashed out again; so may one
\* the operator has not confirmed.
CashableAgain(b) == status[b] \notin {"PENDING", "REJECTED"}
CashableUnconfirmed(b) == cashMult[b] = 0

Cashable(b) == status[b] = "ACCEPTED" /\ cashMult[b] = 0

\* Mutant: a crash at 1.00x is a crash like any other.
InTimeAlways == elapsed < CrashAt

\* The time of the phase the round is in now, against the time of the crash.
InTime == elapsed < CrashAt /\ point > 1

\* Mutant: the displayed multiplier is paid, whatever the crash point.
PaysDisplayed(c) ==
    IF c = Loop THEN Least({Target[BetOf(c)], MultAt(elapsed)}) ELSE MultAt(elapsed)

\* forcedMultiplier ?? current, at most current, at most the crash multiplier.
Pays(c) ==
    Least({MultAt(elapsed), point} \cup IF c = Loop THEN {Target[BetOf(c)]} ELSE {})

Decline(c) ==
    /\ ~(Cashable(BetOf(c)) /\ InTime)
    /\ Return(c, "reading")
    /\ UNCHANGED <<database, credits, clock, looping, minted, announced,
                   crashes>>

\* A fresh uuid is made and /wallet/win is sent.
Send(c, b, m) ==
    /\ minted' = [minted EXCEPT ![b] = @ + 1]
    /\ call' = [call EXCEPT ![c] = <<b, minted[b] + 1, m>>]

Pay(c) ==
    /\ Cashable(BetOf(c)) /\ InTime
    /\ Step(c, "reading", "paying")
    /\ Send(c, BetOf(c), Pays(c))
    /\ UNCHANGED <<database, credits, clock, looping, announced, crashes>>

\* The operator books the win the caller is waiting for.
WalletCredits(c) ==
    /\ cpc[c] = "paying" /\ call[c] \notin credits
    /\ credits' = credits \cup {call[c]}
    /\ UNCHANGED <<database, clock, looping, callers, announced, crashes>>

\* The row is written by its id alone, over whatever it says by now; settle()
\* leaves the columns of the cash-out as they are.
SavePaid(c, s) ==
    /\ status' = [status EXCEPT ![BetOf(c)] = s]
    /\ winTx' = [winTx EXCEPT ![BetOf(c)] = TxOf(c)]
    /\ cashMult' = IF Settling(c) THEN cashMult
                   ELSE [cashMult EXCEPT ![BetOf(c)] = MultOf(c)]

Confirm(c) ==
    /\ call[c] \in credits
    /\ Step(c, "paying", "releasing")
    /\ SavePaid(c, "SETTLED")
    /\ UNCHANGED <<state, stored, winJobs, refunds, credits, clock, looping,
                   call, minted, announced, crashes>>

\* Any other answer, or none: it says nothing about the credit.
Fail(c) ==
    /\ Step(c, "paying", "queueing")
    /\ SavePaid(c, "FAILED")
    /\ UNCHANGED <<state, stored, winJobs, refunds, credits, clock, looping,
                   call, minted, announced, crashes>>

Tell(c) == announced' = IF Settling(c) THEN announced ELSE announced \cup {call[c]}

\* The register has been released: the player is told.
Finish(c) ==
    /\ Return(c, "releasing")
    /\ Tell(c)
    /\ UNCHANGED <<database, credits, clock, looping, minted, crashes>>

\* Mutant: the player is told and no job is created.
EnqueueNothing(c) ==
    /\ Return(c, "queueing")
    /\ Tell(c)
    /\ UNCHANGED <<database, credits, clock, looping, minted, crashes>>

Enqueue(c) ==
    /\ Return(c, "queueing")
    /\ winJobs' = winJobs \cup {call[c]}
    /\ Tell(c)
    /\ UNCHANGED <<state, stored, rows, refunds, credits, clock, looping,
                   minted, crashes>>

-----------------------------------------------------------------------------
(* settle()                                                                *)

Snapshot ==
    /\ Go("snapshot", "settling")
    /\ work' = {b \in Bets : status[b] = "ACCEPTED"}
    /\ UNCHANGED <<database, credits, clock, running, seen, autos, callers,
                   announced, crashes>>

Take(b, to) ==
    /\ lpc = "settling" /\ b \in work
    /\ Step(Loop, "idle", to)
    /\ work' = work \ {b}

SettleLoss(b) ==
    /\ ~Wins(b, stored)
    /\ Take(b, "releasing")
    /\ status' = [status EXCEPT ![b] = "SETTLED"]
    /\ call' = [call EXCEPT ![Loop] = <<b, 0, 0>>]
    /\ UNCHANGED <<state, stored, winTx, cashMult, winJobs, refunds, credits,
                   clock, running, lpc, seen, autos, minted, announced, crashes>>

SettleWin(b) ==
    /\ Wins(b, stored)
    /\ Take(b, "paying")
    /\ Send(Loop, b, Target[b])
    /\ UNCHANGED <<database, credits, clock, running, lpc, seen, autos,
                   announced, crashes>>

CloseRound ==
    /\ work = {} /\ cpc[Loop] = "idle"
    /\ Go("settling", "over")
    /\ state' = "SETTLED" /\ phase' = "SETTLED"
    /\ UNCHANGED <<stored, rows, winJobs, refunds, credits, point, elapsed,
                   running, seen, autos, work, callers, announced, crashes>>

-----------------------------------------------------------------------------
(* The job runner, shutdown, death and restart.                            *)

\* Mutant: a job is closed on any answer.
WinJobDropped(j) ==
    /\ phase # "DOWN" /\ j \in winJobs
    /\ winJobs' = winJobs \ {j}
    /\ UNCHANGED <<state, stored, rows, refunds, credits, clock, looping,
                   callers, announced, crashes>>

WinJobDone(j) ==
    /\ phase # "DOWN" /\ j \in winJobs
    /\ credits' = credits \cup {j} /\ winJobs' = winJobs \ {j}
    /\ UNCHANGED <<state, stored, rows, refunds, clock, looping, callers,
                   announced, crashes>>

Stop ==
    /\ Stoppable /\ running /\ running' = FALSE
    /\ UNCHANGED <<database, credits, clock, lpc, seen, autos, work, callers,
                   announced, crashes>>

Crash ==
    /\ phase # "DOWN" /\ crashes < MaxCrashes
    /\ crashes' = crashes + 1
    /\ phase' = "DOWN" /\ running' = FALSE /\ lpc' = "down"
    /\ elapsed' = 0 /\ seen' = 0 /\ autos' = {} /\ work' = {}
    /\ cpc' = [c \in Callers |-> "idle"] /\ call' = [c \in Callers |-> NoCall]
    /\ UNCHANGED <<database, credits, point, minted, announced>>

\* Mutant: recovery queues a bet that was cashed out as well.
OwedOnResumeAll(b) == status[b] \in {"ACCEPTED", "FAILED"}

\* Recovery leaves a bet that carries a cash-out to the cash-out's own job.
OwedOnResume(b) == status[b] \in {"ACCEPTED", "FAILED"} /\ cashMult[b] = 0

\* Recovery of a round whose outcome is stored.  The uuid of a win is the one
\* on the row, or a new one.
UuidOnResume(b) == IF winTx[b] # 0 THEN winTx[b] ELSE minted[b] + 1

Resume ==
    /\ state \in {"ROLLING", "RESULT"}
    /\ LET open == {b \in Bets : OwedOnResume(b)}
           won  == {b \in open : Wins(b, stored)}
       IN  /\ status' = [b \in Bets |-> IF b \in won THEN "FAILED"
                                        ELSE IF b \in open THEN "SETTLED"
                                        ELSE status[b]]
           /\ winTx' = [b \in Bets |-> IF b \in won THEN UuidOnResume(b) ELSE winTx[b]]
           /\ winJobs' = winJobs \cup {<<b, UuidOnResume(b), Target[b]>> : b \in won}
           /\ minted' = [b \in Bets |-> IF b \in won /\ winTx[b] = 0
                                        THEN minted[b] + 1 ELSE minted[b]]
    /\ state' = "SETTLED"
    /\ UNCHANGED <<cashMult, refunds>>

\* Recovery of a round without an outcome: every accepted bet is given back.
Void ==
    /\ state = "BETTING_OPEN"
    /\ LET open == {b \in Bets : status[b] = "ACCEPTED"}
       IN  /\ status' = [b \in Bets |-> IF b \in open THEN "VOIDED" ELSE status[b]]
           /\ refunds' = refunds \cup open
    /\ state' = "VOIDED"
    /\ UNCHANGED <<winTx, cashMult, winJobs, minted>>

\* Mutant: a restart does not look for rounds to resume.
RecoverNothing ==
    /\ Go("down", "over")
    /\ phase' = "SETTLED"
    /\ UNCHANGED <<database, credits, point, elapsed, running, seen, autos,
                   work, callers, announced, crashes>>

\* A restart; afterwards the engine is busy with other rounds.
Recover ==
    /\ Go("down", "over")
    /\ phase' = "SETTLED"
    /\ \/ Resume
       \/ Void
       \/ state \in {"SETTLED", "VOIDED"} /\ UNCHANGED <<database, minted>>
    /\ UNCHANGED <<stored, credits, point, elapsed, running, seen, autos, work,
                   cpc, call, announced, crashes>>

\* Nothing more is asked of this round.
Over == lpc = "over" /\ UNCHANGED vars

-----------------------------------------------------------------------------
LoopStep ==
    \/ \E m \in Points : Launch(m)
    \/ StoreRolling \/ Climb \/ ReadAutos \/ NextTurn \/ Land \/ StoreResult
    \/ \E b \in Bets : AutoCashOut(b) \/ SettleLoss(b) \/ SettleWin(b)
    \/ Snapshot \/ CloseRound \/ Recover

CallerStep(c) ==
    Decline(c) \/ Pay(c) \/ Confirm(c) \/ Fail(c) \/ Finish(c) \/ Enqueue(c)

Next ==
    \/ Tick \/ LoopStep \/ Stop \/ Crash \/ Over
    \/ \E b \in Bets : AnswerBet(b)
    \/ \E h \in Handlers : CashOut(h)
    \/ \E c \in Callers : CallerStep(c) \/ WalletCredits(c)
    \/ \E j \in winJobs : WinJobDone(j)

Spec == Init /\ [][Next]_vars

\* Time passes, every await of the loop and of a caller settles, a process that
\* died is started again, and a queued call is repeated until it succeeds.
\* Nothing is promised about the players, the operator or failures.
Fairness ==
    /\ WF_vars(Tick) /\ WF_vars(LoopStep)
    /\ \A c \in Callers : WF_vars(CallerStep(c))
    /\ \A b \in Bets : WF_vars(\E j \in winJobs : j[1] = b /\ WinJobDone(j))

FairSpec == Spec /\ Fairness

-----------------------------------------------------------------------------
(* What holds, however cash-outs, crash and settlement interleave.         *)

LoopPcs == {"betting", "publish", "flying", "scan", "auto", "reveal",
            "snapshot", "settling", "over", "down"}
CallerPcs == {"idle", "reading", "paying", "releasing", "queueing"}

\* Every variable holds what its column or field may hold, and the phase the
\* handlers look at is ROLLING exactly while the loop is in the flight.
TypeOK ==
    /\ state \in {"BETTING_OPEN", "ROLLING", "RESULT", "SETTLED", "VOIDED"}
    /\ stored \in {0, point} /\ point \in Points \cup {0}
    /\ status \in [Bets -> {"PENDING", "ACCEPTED", "REJECTED", "SETTLED",
                            "FAILED", "VOIDED"}]
    /\ winTx \in [Bets -> Nat] /\ cashMult \in [Bets -> Nat]
    /\ minted \in [Bets -> Nat]
    /\ winJobs \subseteq Calls /\ credits \subseteq Calls /\ announced \subseteq Calls
    /\ refunds \subseteq Bets /\ autos \subseteq Bets /\ work \subseteq Bets
    /\ running \in BOOLEAN /\ lpc \in LoopPcs
    /\ phase \in {"BETTING_OPEN", "ROLLING", "RESULT", "SETTLED", "DOWN"}
    /\ phase = "ROLLING" <=> lpc \in {"publish", "flying", "scan", "auto"}
    /\ elapsed \in 0..MaxTime /\ seen \in Nat /\ crashes \in 0..MaxCrashes
    /\ cpc \in [Callers -> CallerPcs] /\ call \in [Callers -> Calls]

\* Whoever pays a bet, and whenever it was decided, nobody is owed more than the
\* crash multiplier, not even in a flight that MinFlight makes longer.
NothingAboveTheCrash == \A j \in winJobs \cup credits : j[3] <= point

\* A flight that crashes at 1.00x pays nobody, however long it lasts.
InstantCrashPaysNobody == point = 1 => winJobs \cup credits = {}

\* What cashout_accepted told a player is booked, or is in the retry queue under
\* the same uuid; a crash or a settlement in between does not undo it.
AnnouncedIsOwed == announced \subseteq winJobs \cup credits

\* A bet is paid only if the operator accepted its stake.
OnlyAcceptedIsPaid ==
    \A j \in winJobs \cup credits : status[j[1]] \notin {"PENDING", "REJECTED"}

\* A uuid is never sent with two amounts: the operator would book the first and
\* answer the second as its duplicate.
OneAmountPerUuid ==
    \A i, j \in winJobs \cup credits : i[1] = j[1] /\ i[2] = j[2] => i[3] = j[3]

\* A flight pays what was flown: only on accepted bets, never above the crash, not
\* at all when it crashes at once, and one amount under one uuid, whether the
\* button, the automatic target or the recovery after a restart pays.
PaidAsFlown ==
    /\ NothingAboveTheCrash /\ InstantCrashPaysNobody
    /\ OnlyAcceptedIsPaid /\ OneAmountPerUuid

Payments(b) == Cardinality({j \in credits : j[1] = b})

\* A cash-out is idempotent for a client that repeats it only after the answer:
\* with one handler and no automatic target, nothing pays the bet twice.
RepeatedCashoutPaysOnce ==
    \A b \in Bets :
        Target[b] = None /\ Cardinality({h \in Handlers : Asks[h] = b}) <= 1
            => Payments(b) <= 1

\* The round is closed in the end, across a crash and a shutdown.
RoundCloses == point # 0 ~> state \in {"SETTLED", "VOIDED"}

\* What was announced is credited in the end, whoever closes the round.
AnnouncedIsCredited ==
    \A b \in Bets :
        (\E j \in announced : j[1] = b)
            ~> \A j \in announced : j[1] = b => j \in credits

\* A flight ends: its round is closed and what it announced is credited, although
\* the process may die in the air and stop while it pays.
FlightsEnd == RoundCloses /\ AnnouncedIsCredited

-----------------------------------------------------------------------------
(* What the repository's documents say and the code does not do.           *)

\* settlement-failure.spec.ts: never two /wallet/win credits for one bet.
PaidOnce == \A b \in Bets : Payments(b) <= 1

\* game-rules.md: bets not cashed out before the crash lose; so a cash-out is
\* never decided after the phase has left ROLLING.
DecidedInFlight ==
    [][\A c \in Callers :
          cpc[c] = "reading" /\ cpc'[c] = "paying" => phase = "ROLLING"]_vars

\* game-rules.md: an automatic cash-out pays its target if the crash reaches it.
AutomaticPaysTheTarget ==
    \A j \in credits :
        (\A h \in Handlers : Asks[h] # j[1]) =>
            Target[j[1]] <= point /\ j[3] = Target[j[1]]

\* game-rules.md: the multiplier climbs until the crash point is reached.
FlightReachesTheCrash ==
    [][phase = "ROLLING" /\ phase' = "RESULT" => elapsed >= CrashAt]_vars
=============================================================================
