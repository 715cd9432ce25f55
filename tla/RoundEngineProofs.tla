------------------------- MODULE RoundEngineProofs -------------------------
(* The engine's safety for any number of bets, rounds, crashes, shutdowns  *)
(* and database errors.                                                    *)
EXTENDS RoundEngine, FiniteSetTheorems, TLAPS

-----------------------------------------------------------------------------
(* The inductive invariant.  Each part says what one actor may rely on     *)
(* while it is between two awaits.                                         *)

\* A handler is the only one to touch its bet row until the bet is accepted.
HandlerInv ==
    \A b \in Bets :
        /\ hpc[b] \in {"idle", "gating"} => betStatus[b] = "NONE"
        /\ hpc[b] \in {"calling", "ok", "refused", "uncertain"} => betStatus[b] = "PENDING"
        /\ hpc[b] = "ok" => b \in debited
        /\ hpc[b] = "rollback" => betStatus[b] = "REJECTED"
        /\ betStatus[b] # "NONE" => betRound[b] \in 1..lastRound
        /\ betStatus[b] \in {"ACCEPTED", "SETTLED", "FAILED", "VOIDED"} => b \in debited

\* Only a bet that was turned down or voided is rolled back.
RefundInv ==
    \A b \in rollbackJobs \cup rolledBack : betStatus[b] \in {"REJECTED", "VOIDED"}

\* Only a bet that the operator accepted and the outcome favours is paid.
PayInv ==
    \A j \in winJobs \cup credits :
        /\ betStatus[j[1]] \in {"ACCEPTED", "SETTLED", "FAILED"}
        /\ outcome[betRound[j[1]]] = Pick[j[1]]

\* A uuid is stored with the bet exactly when it was decided as a win.
UuidInv ==
    \A b \in Bets :
        /\ betStatus[b] \notin {"SETTLED", "FAILED"} => winTx[b] = 0
        /\ betStatus[b] = "FAILED" => winTx[b] # 0 /\ outcome[betRound[b]] = Pick[b]
        /\ betStatus[b] = "SETTLED" /\ winTx[b] # 0 => <<b, winTx[b]>> \in credits

\* A round has no outcome before it is revealed, and is revealed once.
RoundInv ==
    /\ pc \in LoopPcs \ {"create", "cooldown"} => lastRound # 0
    /\ pc \in {"count", "betting", "close", "rolling"} => outcome[lastRound] = None
    /\ pc = "snapshot" => outcome[lastRound] # None
    /\ \A r \in Rounds : r > lastRound => outcome[r] = None

VoidPcs == {"voidRead", "voiding", "voidRefund", "voidRollback"}

\* While a round is voided it has no outcome and its unhandled bets are accepted.
VoidInv ==
    /\ pc \in VoidPcs => at # 0 /\ outcome[at] = None
    /\ pc \in VoidPcs \ {"voidRead"} =>
           \A b \in work : betStatus[b] = "ACCEPTED" /\ betRound[b] = at
    /\ pc \in {"voidRefund", "voidRollback"} => cur \in Bets /\ betStatus[cur] = "VOIDED"

RequeuePcs == {"requeue", "requeueLost", "requeueSave"}

\* While a round is resumed its outcome stands and its unhandled bets are open.
RequeueInv ==
    /\ pc \in RequeuePcs =>
           /\ at # 0 /\ outcome[at] # None
           /\ \A b \in work : betStatus[b] \in {"ACCEPTED", "FAILED"} /\ betRound[b] = at
    /\ pc = "requeueSave" =>
           /\ cur \in Bets /\ betStatus[cur] \in {"ACCEPTED", "FAILED"}
           /\ betRound[cur] = at /\ outcome[at] = Pick[cur]
           /\ tx # 0 /\ winTx[cur] \in {0, tx}

\* While the last round is settled, the bet in hand is accepted and no longer
\* in work.
SettleInv ==
    /\ pc \in SettlePcs =>
           /\ at = lastRound /\ outcome[at] # None
           /\ \A b \in work : betStatus[b] = "ACCEPTED" /\ betRound[b] = at
    /\ pc = "paying" =>
           /\ cur \in Bets \ work /\ betStatus[cur] = "ACCEPTED"
           /\ betRound[cur] = at /\ outcome[at] = Pick[cur] /\ tx # 0
    /\ pc = "settleFailed" =>
           cur \in Bets /\ betStatus[cur] = "FAILED" /\ winTx[cur] = tx

Queued(b) == <<b, winTx[b]>> \in winJobs \cup credits

PlayPcs == {"count", "betting", "close", "rolling", "snapshot"}

\* An unconfirmed win is queued before its round closes: until then it is in
\* the hands of settle(), or of the recovery that will find it FAILED.
DebtInv ==
    /\ \A b \in Bets : betStatus[b] = "FAILED" /\ Settled(betRound[b]) => Queued(b)
    /\ pc \in PlayPcs =>
           \A b \in Bets : betRound[b] = lastRound => betStatus[b] # "FAILED"
    /\ pc \in PlayPcs \cup SettlePcs => ~Settled(lastRound)
    /\ pc \in SettlePcs =>
           \A b \in Bets : betRound[b] = at /\ betStatus[b] = "FAILED"
               => Queued(b) \/ (pc = "settleFailed" /\ b = cur)
    /\ pc \in RequeuePcs =>
           \A b \in Bets : betRound[b] = at /\ betStatus[b] = "FAILED"
               => Queued(b) \/ b \in work
    /\ pc = "requeueSave" => <<cur, tx>> \in winJobs \cup credits

\* Without database errors, recovery reaches every round before the loop opens
\* a new one, and the loop leaves none behind.
RecoveryInv ==
    faults = 0 =>
        /\ pc \in ResumePcs => \A r \in 1..lastRound :
               Settled(r) \/ r \in stuck \/ (r = at /\ pc \in RequeuePcs)
        /\ pc \in LoopPcs => \A r \in 1..(lastRound - 1) : Settled(r)
        /\ pc \in {"create", "cooldown"} => \A r \in 1..lastRound : Settled(r)

Inv == TypeOK /\ HandlerInv /\ RefundInv /\ PayInv /\ UuidInv /\ RoundInv
       /\ VoidInv /\ RequeueInv /\ SettleInv /\ DebtInv /\ RecoveryInv

-----------------------------------------------------------------------------
(* One lemma per action: it preserves the invariant.  The state-independent *)
(* sets, the tuples of variables and the parts of the invariant are opened *)
(* everywhere; a leaf cites the action it is about.                        *)

USE PickAssumption, NoneAssumption, BoundAssumption
USE DEF rounds, bets, jobs, database, wallet, memory, engine, placing, bounds
USE DEF Rounds, RoundStates, BetStatuses, RegisterStates, Ids, WinCalls
USE DEF ResumePcs, RequeuePcs, VoidPcs, LoopPcs, PlayPcs, SettlePcs, HandlerPcs
USE DEF Inv, TypeOK, HandlerInv, RefundInv, PayInv, UuidInv, RoundInv, VoidInv,
        RequeueInv, SettleInv, DebtInv, RecoveryInv, Queued, Settled

\* Before the first start there are no rounds and no bets.
LEMMA InitInv == Init => Inv
<1> SUFFICES ASSUME Init PROVE Inv
  OBVIOUS
<1>1. TypeOK
  <2>1. /\ roundState \in [Rounds -> RoundStates]
        /\ outcome \in [Rounds -> Outcomes \cup {None}]
        /\ roundNonce \in [Rounds -> Nat]
        /\ totalBets \in [Rounds -> Nat] /\ totalPayouts \in [Rounds -> Nat]
    BY DEF Init
  <2>2. /\ betStatus \in [Bets -> BetStatuses]
        /\ betRound \in [Bets -> 0..lastRound]
        /\ winTx \in [Bets -> Nat] /\ minted \in [Bets -> Nat]
        /\ register \in [Bets -> RegisterStates]
    BY DEF Init
  <2>3. /\ hpc \in [Bets -> HandlerPcs]
        /\ \A b \in Bets : hpc[b] # "idle" => betRound[b] # 0
    BY DEF Init
  <2>4. /\ lastRound \in 0..MaxRounds /\ sessionNonce \in Nat
        /\ crashes \in Nat /\ stops \in Nat /\ faults \in Nat
        /\ pc = "down" /\ at \in 0..lastRound /\ cur \in Ids /\ tx \in Nat /\ sum \in Nat
    BY DEF Init
  <2>5. running \in BOOLEAN /\ ~running
    BY Zenon DEF Init
  <2> QED
    BY <2>1, <2>2, <2>3, <2>4, <2>5 DEF Init
<1>2. (HandlerInv /\ RefundInv /\ PayInv /\ UuidInv)
  BY SMTT(60) DEF Init
<1>3. (RoundInv /\ VoidInv /\ RequeueInv /\ SettleInv)
  BY SMTT(60) DEF Init
<1>4. (DebtInv /\ RecoveryInv)
  BY SMTT(60) DEF Init
<1> QED
  BY <1>1, <1>2, <1>3, <1>4

\* A place_bet message is taken while the window is open.
LEMMA PlaceBetInv == ASSUME Inv, NEW b \in Bets, PlaceBet(b) PROVE Inv'
  BY SMTT(60) DEF PlaceBet, Handler

\* A bet turned down before any wallet call leaves no trace.
LEMMA GateRejectsInv == ASSUME Inv, NEW b \in Bets, GateRejects(b) PROVE Inv'
  BY SMTT(60) DEF GateRejects, Handler

\* The bet row is written as PENDING.
LEMMA CreateBetInv == ASSUME Inv, NEW b \in Bets, CreateBet(b) PROVE Inv'
<1>1. TypeOK'
  BY SMTT(60) DEF CreateBet, Handler, SetBet
<1>2. (HandlerInv /\ RefundInv /\ PayInv /\ UuidInv)'
  BY SMTT(60) DEF CreateBet, Handler, SetBet
<1>3. (RoundInv /\ VoidInv /\ RequeueInv /\ SettleInv)'
  BY SMTT(60) DEF CreateBet, Handler, SetBet
<1>4. (DebtInv /\ RecoveryInv)'
  BY SMTT(60) DEF CreateBet, Handler, SetBet
<1> QED
  BY <1>1, <1>2, <1>3, <1>4

\* A confirmed debit.
LEMMA BetOkInv == ASSUME Inv, NEW b \in Bets, BetOk(b) PROVE Inv'
  BY SMTT(60) DEF BetOk, Handler

\* A clean reject.
LEMMA BetRefusedInv == ASSUME Inv, NEW b \in Bets, BetRefused(b) PROVE Inv'
<1>1. TypeOK'
  BY SMTT(60) DEF BetRefused, Handler
<1>2. (HandlerInv /\ RefundInv /\ PayInv /\ UuidInv)'
  BY SMTT(60) DEF BetRefused, Handler
<1>3. (RoundInv /\ VoidInv /\ RequeueInv /\ SettleInv)'
  BY SMTT(60) DEF BetRefused, Handler
<1>4. (DebtInv /\ RecoveryInv)'
  BY SMTT(60) DEF BetRefused, Handler
<1> QED
  BY <1>1, <1>2, <1>3, <1>4

\* An answer that settles nothing.
LEMMA BetUncertainInv == ASSUME Inv, NEW b \in Bets, BetUncertain(b) PROVE Inv'
<1>1. TypeOK'
  BY SMTT(60) DEF BetUncertain, Handler
<1>2. (HandlerInv /\ RefundInv /\ PayInv /\ UuidInv)'
  BY SMTT(60) DEF BetUncertain, Handler
<1>3. (RoundInv /\ VoidInv /\ RequeueInv /\ SettleInv)'
  BY SMTT(60) DEF BetUncertain, Handler
<1>4. (DebtInv /\ RecoveryInv)'
  BY SMTT(60) DEF BetUncertain, Handler
<1> QED
  BY <1>1, <1>2, <1>3, <1>4

\* The bet is accepted, possibly after its round was settled.
LEMMA AcceptBetInv == ASSUME Inv, NEW b \in Bets, AcceptBet(b) PROVE Inv'
<1>1. TypeOK'
  BY SMTT(60) DEF AcceptBet, Handler, SetBet
<1>2. (HandlerInv /\ RefundInv /\ PayInv /\ UuidInv)'
  BY SMTT(60) DEF AcceptBet, Handler, SetBet
<1>3. (RoundInv /\ VoidInv /\ RequeueInv /\ SettleInv)'
  BY SMTT(60) DEF AcceptBet, Handler, SetBet
<1>4. (DebtInv /\ RecoveryInv)'
  BY SMTT(60) DEF AcceptBet, Handler, SetBet
<1> QED
  BY <1>1, <1>2, <1>3, <1>4

\* The register row is written.
LEMMA HoldBetInv == ASSUME Inv, NEW b \in Bets, HoldBet(b) PROVE Inv'
<1>1. TypeOK'
  BY SMTT(60) DEF HoldBet, Handler
<1>2. (HandlerInv /\ RefundInv /\ PayInv /\ UuidInv)'
  BY SMTT(60) DEF HoldBet, Handler
<1>3. (RoundInv /\ VoidInv /\ RequeueInv /\ SettleInv)'
  BY SMTT(60) DEF HoldBet, Handler
<1>4. (DebtInv /\ RecoveryInv)'
  BY SMTT(60) DEF HoldBet, Handler
<1> QED
  BY <1>1, <1>2, <1>3, <1>4

\* The stake is added to the round.
LEMMA CountBetInv == ASSUME Inv, NEW b \in Bets, CountBet(b) PROVE Inv'
<1>1. TypeOK'
  BY SMTT(60) DEF CountBet, Handler
<1>2. (HandlerInv /\ RefundInv /\ PayInv /\ UuidInv)'
  BY SMTT(60) DEF CountBet, Handler
<1>3. (RoundInv /\ VoidInv /\ RequeueInv /\ SettleInv)'
  BY SMTT(60) DEF CountBet, Handler
<1>4. (DebtInv /\ RecoveryInv)'
  BY SMTT(60) DEF CountBet, Handler
<1> QED
  BY <1>1, <1>2, <1>3, <1>4

\* The rejected bet is stored.
LEMMA RejectBetInv == ASSUME Inv, NEW b \in Bets, RejectBet(b) PROVE Inv'
<1>1. TypeOK'
  BY SMTT(60) DEF RejectBet, Handler, SetBet
<1>2. (HandlerInv /\ RefundInv /\ PayInv /\ UuidInv)'
  BY SMTT(60) DEF RejectBet, Handler, SetBet
<1>3. (RoundInv /\ VoidInv /\ RequeueInv /\ SettleInv)'
  BY SMTT(60) DEF RejectBet, Handler, SetBet
<1>4. (DebtInv /\ RecoveryInv)'
  BY SMTT(60) DEF RejectBet, Handler, SetBet
<1> QED
  BY <1>1, <1>2, <1>3, <1>4

\* The uncertain bet is stored as rejected.
LEMMA RejectUncertainInv == ASSUME Inv, NEW b \in Bets, RejectUncertain(b) PROVE Inv'
<1>1. TypeOK'
  BY SMTT(60) DEF RejectUncertain, Handler, SetBet
<1>2. (HandlerInv /\ RefundInv /\ PayInv /\ UuidInv)'
  BY SMTT(60) DEF RejectUncertain, Handler, SetBet
<1>3. (RoundInv /\ VoidInv /\ RequeueInv /\ SettleInv)'
  BY SMTT(60) DEF RejectUncertain, Handler, SetBet
<1>4. (DebtInv /\ RecoveryInv)'
  BY SMTT(60) DEF RejectUncertain, Handler, SetBet
<1> QED
  BY <1>1, <1>2, <1>3, <1>4

\* Its rollback is queued: the bet is rejected already.
LEMMA EnqueueRollbackInv == ASSUME Inv, NEW b \in Bets, EnqueueRollback(b) PROVE Inv'
<1>1. TypeOK'
  BY SMTT(60) DEF EnqueueRollback, Handler
<1>2. (HandlerInv /\ RefundInv /\ PayInv /\ UuidInv)'
  BY SMTT(60) DEF EnqueueRollback, Handler
<1>3. (RoundInv /\ VoidInv /\ RequeueInv /\ SettleInv)'
  BY SMTT(60) DEF EnqueueRollback, Handler
<1>4. (DebtInv /\ RecoveryInv)'
  BY SMTT(60) DEF EnqueueRollback, Handler
<1> QED
  BY <1>1, <1>2, <1>3, <1>4

\* The operator books a debit.
LEMMA WalletDebitsInv == ASSUME Inv, NEW b \in Bets, WalletDebits(b) PROVE Inv'
<1>1. TypeOK'
  BY SMTT(60) DEF WalletDebits
<1>2. (HandlerInv /\ RefundInv /\ PayInv /\ UuidInv)'
  BY SMTT(60) DEF WalletDebits
<1>3. (RoundInv /\ VoidInv /\ RequeueInv /\ SettleInv)'
  BY SMTT(60) DEF WalletDebits
<1>4. (DebtInv /\ RecoveryInv)'
  BY SMTT(60) DEF WalletDebits
<1> QED
  BY <1>1, <1>2, <1>3, <1>4

\* The operator books an abandoned debit.
LEMMA DeliverLateInv == ASSUME Inv, NEW b \in Bets, DeliverLate(b) PROVE Inv'
<1>1. TypeOK'
  BY SMTT(60) DEF DeliverLate
<1>2. (HandlerInv /\ RefundInv /\ PayInv /\ UuidInv)'
  BY SMTT(60) DEF DeliverLate
<1>3. (RoundInv /\ VoidInv /\ RequeueInv /\ SettleInv)'
  BY SMTT(60) DEF DeliverLate
<1>4. (DebtInv /\ RecoveryInv)'
  BY SMTT(60) DEF DeliverLate
<1> QED
  BY <1>1, <1>2, <1>3, <1>4

\* The operator books the win in hand.
LEMMA WalletCreditsInv == ASSUME Inv, WalletCredits PROVE Inv'
<1>1. TypeOK'
  BY SMTT(60) DEF WalletCredits
<1>2. (HandlerInv /\ RefundInv /\ PayInv /\ UuidInv)'
  BY SMTT(60) DEF WalletCredits
<1>3. (RoundInv /\ VoidInv /\ RequeueInv /\ SettleInv)'
  BY SMTT(60) DEF WalletCredits
<1>4. (DebtInv /\ RecoveryInv)'
  BY SMTT(60) DEF WalletCredits
<1> QED
  BY <1>1, <1>2, <1>3, <1>4

\* The operator books a queued win.
LEMMA WinJobDeliveredInv == ASSUME Inv, NEW j \in winJobs, WinJobDelivered(j) PROVE Inv'
<1>1. TypeOK'
  BY SMTT(60) DEF WinJobDelivered
<1>2. (HandlerInv /\ RefundInv /\ PayInv /\ UuidInv)'
  BY SMTT(60) DEF WinJobDelivered
<1>3. (RoundInv /\ VoidInv /\ RequeueInv /\ SettleInv)'
  BY SMTT(60) DEF WinJobDelivered
<1>4. (DebtInv /\ RecoveryInv)'
  BY SMTT(60) DEF WinJobDelivered
<1> QED
  BY <1>1, <1>2, <1>3, <1>4

\* A queued win is confirmed.
LEMMA WinJobDoneInv == ASSUME Inv, NEW j \in winJobs, WinJobDone(j) PROVE Inv'
<1>1. TypeOK'
  BY SMTT(60) DEF WinJobDone
<1>2. (HandlerInv /\ RefundInv /\ PayInv /\ UuidInv)'
  BY SMTT(60) DEF WinJobDone
<1>3. (RoundInv /\ VoidInv /\ RequeueInv /\ SettleInv)'
  BY SMTT(60) DEF WinJobDone
<1>4. (DebtInv /\ RecoveryInv)'
  BY SMTT(60) DEF WinJobDone
<1> QED
  BY <1>1, <1>2, <1>3, <1>4

\* The operator books a rollback.
LEMMA RollbackDeliveredInv == ASSUME Inv, NEW b \in Bets, RollbackDelivered(b) PROVE Inv'
<1>1. TypeOK'
  BY SMTT(60) DEF RollbackDelivered
<1>2. (HandlerInv /\ RefundInv /\ PayInv /\ UuidInv)'
  BY SMTT(60) DEF RollbackDelivered
<1>3. (RoundInv /\ VoidInv /\ RequeueInv /\ SettleInv)'
  BY SMTT(60) DEF RollbackDelivered
<1>4. (DebtInv /\ RecoveryInv)'
  BY SMTT(60) DEF RollbackDelivered
<1> QED
  BY <1>1, <1>2, <1>3, <1>4

\* A rollback is confirmed, or has nothing to undo.
LEMMA RollbackDoneInv == ASSUME Inv, NEW b \in Bets, RollbackDone(b) PROVE Inv'
<1>1. TypeOK'
  BY SMTT(60) DEF RollbackDone
<1>2. (HandlerInv /\ RefundInv /\ PayInv /\ UuidInv)'
  BY SMTT(60) DEF RollbackDone
<1>3. (RoundInv /\ VoidInv /\ RequeueInv /\ SettleInv)'
  BY SMTT(60) DEF RollbackDone
<1>4. (DebtInv /\ RecoveryInv)'
  BY SMTT(60) DEF RollbackDone
<1> QED
  BY <1>1, <1>2, <1>3, <1>4

\* start() reads the unsettled rounds.
LEMMA StartInv == ASSUME Inv, Start PROVE Inv'
  BY SMTT(60) DEF Start, Loop, Unsettled

\* A round with an outcome is resumed.
LEMMA ResumeKnownInv == ASSUME Inv, NEW r \in Rounds, ResumeKnown(r) PROVE Inv'
  BY SMTT(60) DEF ResumeKnown, Loop, OutcomeKnown

\* A lost bet is settled on resume.
LEMMA RequeueLostInv == ASSUME Inv, NEW b \in Bets, RequeueLost(b) PROVE Inv'
<1>1. TypeOK'
  BY SMTT(60) DEF RequeueLost, Loop, Wins, SetBet
<1>2. (HandlerInv /\ RefundInv /\ PayInv /\ UuidInv)'
  BY SMTT(60) DEF RequeueLost, Loop, Wins, SetBet
<1>3. (RoundInv /\ VoidInv /\ RequeueInv /\ SettleInv)'
  BY SMTT(60) DEF RequeueLost, Loop, Wins, SetBet
<1>4. (DebtInv /\ RecoveryInv)'
  BY SMTT(60) DEF RequeueLost, Loop, Wins, SetBet
<1> QED
  BY <1>1, <1>2, <1>3, <1>4

\* Its register row is released.
LEMMA ReleaseRequeuedInv == ASSUME Inv, ReleaseRequeued PROVE Inv'
<1>1. TypeOK'
  <2>1. register' \in [Bets -> RegisterStates]
    BY DEF ReleaseRequeued, Release
  <2> QED
    BY <2>1, SMTT(60) DEF ReleaseRequeued, Loop
<1>2. (HandlerInv /\ RefundInv /\ PayInv /\ UuidInv)'
  BY SMTT(60) DEF ReleaseRequeued, Loop, Release
<1>3. (RoundInv /\ VoidInv /\ RequeueInv /\ SettleInv)'
  BY SMTT(60) DEF ReleaseRequeued, Loop, Release
<1>4. (DebtInv /\ RecoveryInv)'
  BY SMTT(60) DEF ReleaseRequeued, Loop, Release
<1> QED
  BY <1>1, <1>2, <1>3, <1>4

\* A WIN job is created on resume.
LEMMA RequeueWinInv == ASSUME Inv, NEW b \in Bets, RequeueWin(b) PROVE Inv'
<1>1. TypeOK'
  <2>1. minted' \in [Bets -> Nat] /\ tx' \in Nat
    <3>1. CASE HasUuid(b)
      BY <3>1 DEF RequeueWin
    <3>2. CASE ~HasUuid(b)
      <4>1. tx' = minted[b] + 1 /\ minted' = [minted EXCEPT ![b] = minted[b] + 1]
        BY <3>2 DEF RequeueWin
      <4> QED
        BY SMTT(30), <4>1
    <3> QED
      BY <3>1, <3>2
  <2>2. winJobs' \subseteq Bets \X Nat
    BY <2>1 DEF RequeueWin
  <2> QED
    BY <2>1, <2>2, SMTT(60) DEF RequeueWin, Loop
<1>2. (HandlerInv /\ RefundInv /\ PayInv /\ UuidInv)'
  BY SMTT(60) DEF RequeueWin, Loop, Wins, HasUuid
<1>3. (RoundInv /\ VoidInv /\ RequeueInv /\ SettleInv)'
  BY SMTT(60) DEF RequeueWin, Loop, Wins, HasUuid
<1>4. (DebtInv /\ RecoveryInv)'
  <2>1. betStatus[b] = "FAILED" => tx' = winTx[b]
    BY DEF RequeueWin, HasUuid
  <2>2. winJobs' = winJobs \cup {<<b, tx'>>} /\ winTx' = winTx /\ credits' = credits
    BY DEF RequeueWin
  <2>3. \A c \in Bets : Queued(c) => Queued(c)'
    BY <2>2
  <2>4. DebtInv'
    BY <2>1, <2>2, <2>3, SMTT(60) DEF RequeueWin, Loop
  <2>5. RecoveryInv'
    BY DEF RequeueWin, Loop
  <2> QED
    BY <2>4, <2>5
<1> QED
  BY <1>1, <1>2, <1>3, <1>4

\* The bet row gets the status and uuid of that job.
LEMMA SaveRequeuedInv == ASSUME Inv, SaveRequeued PROVE Inv'
<1>1. TypeOK'
  BY SMTT(60) DEF SaveRequeued, Loop, SetBet
<1>2. (HandlerInv /\ RefundInv /\ PayInv /\ UuidInv)'
  BY SMTT(60) DEF SaveRequeued, Loop, SetBet
<1>3. (RoundInv /\ VoidInv /\ RequeueInv /\ SettleInv)'
  BY SMTT(60) DEF SaveRequeued, Loop, SetBet
<1>4. (DebtInv /\ RecoveryInv)'
  <2>1. winTx'[cur] = tx /\ \A c \in Bets \ {cur} : winTx'[c] = winTx[c]
    BY DEF SaveRequeued, Loop
  <2>2. Queued(cur)'
    BY <2>1 DEF SaveRequeued, Loop
  <2>3. \A c \in Bets : Queued(c) => Queued(c)'
    BY <2>1, <2>2 DEF SaveRequeued
  <2>4. \A c \in Bets \ {cur} : betStatus'[c] = betStatus[c]
    BY DEF SaveRequeued, SetBet
  <2>5. \A c \in Bets : betStatus[c] = "FAILED" /\ Settled(betRound[c])' => Queued(c)'
    BY <2>3 DEF SaveRequeued
  <2>6. \A c \in Bets : betRound[c] = at /\ betStatus[c] = "FAILED"
            => Queued(c)' \/ c \in work
    BY <2>3 DEF SaveRequeued, Loop
  <2>7. DebtInv'
    <3>1. pc' = "requeue" /\ betRound' = betRound /\ roundState' = roundState
          /\ at' = at /\ work' = work /\ cur' = cur
      BY DEF SaveRequeued, Loop
    <3>2. ASSUME NEW c \in Bets, betStatus'[c] = "FAILED"
          PROVE  /\ Settled(betRound[c])' => Queued(c)'
                 /\ betRound'[c] = at' => Queued(c)' \/ c \in work'
      <4>1. CASE c = cur
        BY <2>2, <3>1, <4>1
      <4>2. CASE c # cur
        <5>1. betStatus[c] = "FAILED"
          BY <2>4, <3>2, <4>2
        <5> QED
          BY ONLY <2>5, <2>6, <3>1, <5>1
      <4> QED
        BY <4>1, <4>2
    <3>3. \A c \in Bets : (betStatus[c] = "FAILED" /\ Settled(betRound[c]) => Queued(c))'
      BY ONLY <3>2
    <3>4. \A c \in Bets : (betRound[c] = at /\ betStatus[c] = "FAILED"
                             => Queued(c) \/ c \in work)'
      BY ONLY <3>2
    <3> QED
      BY <3>1, <3>3, <3>4
  <2>8. RecoveryInv'
    BY DEF SaveRequeued, Loop
  <2> QED
    BY <2>7, <2>8
<1> QED
  BY <1>1, <1>2, <1>3, <1>4

\* The resumed round is closed: each of its wins is queued.
LEMMA CloseResumedInv == ASSUME Inv, CloseResumed PROVE Inv'
<1>1. TypeOK'
  BY SMTT(60) DEF CloseResumed, Loop, SettleRound
<1>2. (HandlerInv /\ RefundInv /\ PayInv /\ UuidInv)'
  BY SMTT(60) DEF CloseResumed, Loop, SettleRound
<1>3. (RoundInv /\ VoidInv /\ RequeueInv /\ SettleInv)'
  BY SMTT(60) DEF CloseResumed, Loop, SettleRound
<1>4. (DebtInv /\ RecoveryInv)'
  BY SMTT(60) DEF CloseResumed, Loop, SettleRound
<1> QED
  BY <1>1, <1>2, <1>3, <1>4

\* A round without an outcome is voided.
LEMMA VoidRoundInv == ASSUME Inv, NEW r \in Rounds, VoidRound(r) PROVE Inv'
<1>1. TypeOK'
  BY SMTT(60) DEF VoidRound, Loop, OutcomeKnown
<1>2. (HandlerInv /\ RefundInv /\ PayInv /\ UuidInv)'
  BY SMTT(60) DEF VoidRound, Loop, OutcomeKnown
<1>3. (RoundInv /\ VoidInv /\ RequeueInv /\ SettleInv)'
  BY SMTT(60) DEF VoidRound, Loop, OutcomeKnown
<1>4. (DebtInv /\ RecoveryInv)'
  BY SMTT(60) DEF VoidRound, Loop, OutcomeKnown
<1> QED
  BY <1>1, <1>2, <1>3, <1>4

\* Its accepted bets are read.
LEMMA ReadVoidedInv == ASSUME Inv, ReadVoided PROVE Inv'
  BY SMTT(60) DEF ReadVoided, Loop, Accepted

\* One of them is voided: it cannot have been paid.
LEMMA VoidBetInv == ASSUME Inv, NEW b \in Bets, VoidBet(b) PROVE Inv'
<1>1. TypeOK'
  BY SMTT(60) DEF VoidBet, Loop, SetBet
<1>2. (HandlerInv /\ RefundInv /\ PayInv /\ UuidInv)'
  BY SMTT(60) DEF VoidBet, Loop, SetBet
<1>3. (RoundInv /\ VoidInv /\ RequeueInv /\ SettleInv)'
  BY SMTT(60) DEF VoidBet, Loop, SetBet
<1>4. (DebtInv /\ RecoveryInv)'
  BY SMTT(60) DEF VoidBet, Loop, SetBet
<1> QED
  BY <1>1, <1>2, <1>3, <1>4

\* Its register row is refunded.
LEMMA RefundRegisterInv == ASSUME Inv, RefundRegister PROVE Inv'
  BY SMTT(60) DEF RefundRegister, Loop, Release

\* Its rollback is queued.
LEMMA EnqueueRefundInv == ASSUME Inv, EnqueueRefund PROVE Inv'
<1>1. TypeOK'
  BY SMTT(60) DEF EnqueueRefund, Loop
<1>2. (HandlerInv /\ RefundInv /\ PayInv /\ UuidInv)'
  BY SMTT(60) DEF EnqueueRefund, Loop
<1>3. (RoundInv /\ VoidInv /\ RequeueInv /\ SettleInv)'
  BY SMTT(60) DEF EnqueueRefund, Loop
<1>4. (DebtInv /\ RecoveryInv)'
  BY SMTT(60) DEF EnqueueRefund, Loop
<1> QED
  BY <1>1, <1>2, <1>3, <1>4

\* The voided round is done.
LEMMA CloseVoidedInv == ASSUME Inv, CloseVoided PROVE Inv'
  BY SMTT(60) DEF CloseVoided, Loop

\* No unsettled round is left: the loop starts.
LEMMA FinishResumeInv == ASSUME Inv, FinishResume PROVE Inv'
  BY SMTT(60) DEF FinishResume, Loop

\* A new round has no bets and no outcome.
LEMMA CreateRoundInv == ASSUME Inv, CreateRound PROVE Inv'
<1>1. TypeOK'
  BY SMTT(60) DEF CreateRound, Loop
<1>2. (HandlerInv /\ RefundInv /\ PayInv /\ UuidInv)'
  BY SMTT(60) DEF CreateRound, Loop
<1>3. (RoundInv /\ VoidInv /\ RequeueInv /\ SettleInv)'
  BY SMTT(60) DEF CreateRound, Loop
<1>4. (DebtInv /\ RecoveryInv)'
  BY SMTT(60) DEF CreateRound, Loop
<1> QED
  BY <1>1, <1>2, <1>3, <1>4

\* The session nonce is bumped.
LEMMA CountNonceInv == ASSUME Inv, CountNonce PROVE Inv'
  BY SMTT(60) DEF CountNonce, Loop

\* The window closes.
LEMMA CloseBettingInv == ASSUME Inv, CloseBetting PROVE Inv'
  BY SMTT(60) DEF CloseBetting, Loop

\* ROLLING is stored.
LEMMA StoreRollingInv == ASSUME Inv, StoreRolling PROVE Inv'
<1>1. TypeOK'
  BY SMTT(60) DEF StoreRolling, Loop
<1>2. (HandlerInv /\ RefundInv /\ PayInv /\ UuidInv)'
  BY SMTT(60) DEF StoreRolling, Loop
<1>3. (RoundInv /\ VoidInv /\ RequeueInv /\ SettleInv)'
  BY SMTT(60) DEF StoreRolling, Loop
<1>4. (DebtInv /\ RecoveryInv)'
  BY SMTT(60) DEF StoreRolling, Loop
<1> QED
  BY <1>1, <1>2, <1>3, <1>4

\* The outcome of the last round is stored, once.
LEMMA RevealInv == ASSUME Inv, NEW o \in Outcomes, Reveal(o) PROVE Inv'
<1>1. TypeOK'
  BY SMTT(60) DEF Reveal, Loop
<1>2. (HandlerInv /\ RefundInv /\ PayInv /\ UuidInv)'
  BY SMTT(60) DEF Reveal, Loop
<1>3. (RoundInv /\ VoidInv /\ RequeueInv /\ SettleInv)'
  BY SMTT(60) DEF Reveal, Loop
<1>4. (DebtInv /\ RecoveryInv)'
  BY SMTT(60) DEF Reveal, Loop
<1> QED
  BY <1>1, <1>2, <1>3, <1>4

\* settle() reads the accepted bets.
LEMMA SnapshotInv == ASSUME Inv, Snapshot PROVE Inv'
  BY SMTT(60) DEF Snapshot, Loop, Accepted

\* A lost bet is settled.
LEMMA SettleLossInv == ASSUME Inv, NEW b \in Bets, SettleLoss(b) PROVE Inv'
<1>1. TypeOK'
  BY SMTT(60) DEF SettleLoss, Loop, Wins, SetBet
<1>2. (HandlerInv /\ RefundInv /\ PayInv /\ UuidInv)'
  BY SMTT(60) DEF SettleLoss, Loop, Wins, SetBet
<1>3. (RoundInv /\ VoidInv /\ RequeueInv /\ SettleInv)'
  BY SMTT(60) DEF SettleLoss, Loop, Wins, SetBet
<1>4. (DebtInv /\ RecoveryInv)'
  BY SMTT(60) DEF SettleLoss, Loop, Wins, SetBet
<1> QED
  BY <1>1, <1>2, <1>3, <1>4

\* Its register row is released.
LEMMA ReleaseSettledInv == ASSUME Inv, ReleaseSettled PROVE Inv'
<1>1. TypeOK'
  <2>1. register' \in [Bets -> RegisterStates]
    BY DEF ReleaseSettled, Release
  <2> QED
    BY <2>1, SMTT(60) DEF ReleaseSettled, Loop
<1>2. (HandlerInv /\ RefundInv /\ PayInv /\ UuidInv)'
  BY SMTT(60) DEF ReleaseSettled, Loop, Release
<1>3. (RoundInv /\ VoidInv /\ RequeueInv /\ SettleInv)'
  BY SMTT(60) DEF ReleaseSettled, Loop, Release
<1>4. (DebtInv /\ RecoveryInv)'
  BY SMTT(60) DEF ReleaseSettled, Loop, Release
<1> QED
  BY <1>1, <1>2, <1>3, <1>4

\* A win is sent under a new uuid.
LEMMA StartWinInv == ASSUME Inv, NEW b \in Bets, StartWin(b) PROVE Inv'
<1>1. TypeOK'
  BY SMTT(60) DEF StartWin, Loop, Wins
<1>2. (HandlerInv /\ RefundInv /\ PayInv /\ UuidInv)'
  BY SMTT(60) DEF StartWin, Loop, Wins
<1>3. (RoundInv /\ VoidInv /\ RequeueInv /\ SettleInv)'
  BY SMTT(60) DEF StartWin, Loop, Wins
<1>4. (DebtInv /\ RecoveryInv)'
  BY SMTT(60) DEF StartWin, Loop, Wins
<1> QED
  BY <1>1, <1>2, <1>3, <1>4

\* A confirmed win is stored.
LEMMA WinConfirmedInv == ASSUME Inv, WinConfirmed PROVE Inv'
<1>1. TypeOK'
  BY SMTT(60) DEF WinConfirmed, Loop, SaveWin, SetBet
<1>2. (HandlerInv /\ RefundInv /\ PayInv /\ UuidInv)'
  <2>1. (HandlerInv /\ RefundInv)'
    BY DEF WinConfirmed, Loop, SaveWin, SetBet
  <2>2. PayInv'
    BY DEF WinConfirmed, Loop, SaveWin, SetBet
  <2>3. <<cur, winTx'[cur]>> \in credits' /\ betStatus'[cur] = "SETTLED"
    BY DEF WinConfirmed, Loop, SaveWin, SetBet
  <2>4. \A c \in Bets \ {cur} : winTx'[c] = winTx[c] /\ betStatus'[c] = betStatus[c]
    BY DEF WinConfirmed, SaveWin, SetBet
  <2>5. UuidInv'
    <3>1. UNCHANGED <<outcome, betRound, credits>>
      BY DEF WinConfirmed, SaveWin
    <3>2. UuidInv
      BY DEF Inv
    <3> QED
      BY ONLY <2>3, <2>4, <3>1, <3>2, SMTT(60) DEF UuidInv
  <2> QED
    BY <2>1, <2>2, <2>5
<1>3. (RoundInv /\ VoidInv /\ RequeueInv /\ SettleInv)'
  BY SMTT(60) DEF WinConfirmed, Loop, SaveWin, SetBet
<1>4. (DebtInv /\ RecoveryInv)'
  BY SMTT(60) DEF WinConfirmed, Loop, SaveWin, SetBet
<1> QED
  BY <1>1, <1>2, <1>3, <1>4

\* An unconfirmed win is stored as FAILED.
LEMMA WinUncertainInv == ASSUME Inv, WinUncertain PROVE Inv'
<1>1. TypeOK'
  BY SMTT(60) DEF WinUncertain, Loop, SaveWin, SetBet
<1>2. (HandlerInv /\ RefundInv /\ PayInv /\ UuidInv)'
  BY SMTT(60) DEF WinUncertain, Loop, SaveWin, SetBet
<1>3. (RoundInv /\ VoidInv /\ RequeueInv /\ SettleInv)'
  BY SMTT(60) DEF WinUncertain, Loop, SaveWin, SetBet
<1>4. (DebtInv /\ RecoveryInv)'
  BY SMTT(60) DEF WinUncertain, Loop, SaveWin, SetBet
<1> QED
  BY <1>1, <1>2, <1>3, <1>4

\* Its retry is queued under the same uuid.
LEMMA EnqueueWinInv == ASSUME Inv, EnqueueWin PROVE Inv'
<1>1. TypeOK'
  BY SMTT(60) DEF EnqueueWin, Loop
<1>2. (HandlerInv /\ RefundInv /\ PayInv /\ UuidInv)'
  <2>1. (HandlerInv /\ RefundInv /\ UuidInv)'
    BY DEF EnqueueWin, Loop
  <2>2. PayInv'
    BY DEF EnqueueWin, Loop
  <2> QED
    BY <2>1, <2>2
<1>3. (RoundInv /\ VoidInv /\ RequeueInv /\ SettleInv)'
  BY SMTT(60) DEF EnqueueWin, Loop
<1>4. (DebtInv /\ RecoveryInv)'
  <2>1. \A c \in Bets : Queued(c) => Queued(c)'
    BY DEF EnqueueWin
  <2>2. Queued(cur)'
    BY DEF EnqueueWin, Loop
  <2> QED
    BY <2>1, <2>2, SMTT(60) DEF EnqueueWin, Loop
<1> QED
  BY <1>1, <1>2, <1>3, <1>4

\* The round is closed: each unconfirmed win is queued.
LEMMA CloseRoundInv == ASSUME Inv, CloseRound PROVE Inv'
  BY SMTT(60) DEF CloseRound, Loop, SettleRound

\* The cooldown ends.
LEMMA FinishCooldownInv == ASSUME Inv, FinishCooldown PROVE Inv'
  BY SMTT(60) DEF FinishCooldown, Loop

\* stop() clears running and nothing else.
LEMMA StopInv == ASSUME Inv, Stop PROVE Inv'
<1>1. TypeOK'
  <2>1. running' \in BOOLEAN /\ ~running'
    BY Zenon DEF Stop
  <2> QED
    BY <2>1, SMTT(60) DEF Stop
<1>2. (HandlerInv /\ RefundInv /\ PayInv /\ UuidInv)'
  BY SMTT(60) DEF Stop
<1>3. (RoundInv /\ VoidInv /\ RequeueInv /\ SettleInv)'
  BY SMTT(60) DEF Stop
<1>4. (DebtInv /\ RecoveryInv)'
  BY SMTT(60) DEF Stop
<1> QED
  BY <1>1, <1>2, <1>3, <1>4

\* The process dies between any two steps.
LEMMA CrashInv == ASSUME Inv, Crash PROVE Inv'
<1>1. TypeOK'
  <2>1. running' \in BOOLEAN /\ ~running'
    BY Zenon DEF Crash, ProcessEnds
  <2> QED
    BY <2>1, SMTT(60) DEF Crash, ProcessEnds
<1>2. (HandlerInv /\ RefundInv /\ PayInv /\ UuidInv)'
  BY SMTT(60) DEF Crash, ProcessEnds
<1>3. (RoundInv /\ VoidInv /\ RequeueInv /\ SettleInv)'
  BY SMTT(60) DEF Crash, ProcessEnds
<1>4. (DebtInv /\ RecoveryInv)'
  BY SMTT(60) DEF Crash, ProcessEnds
<1> QED
  BY <1>1, <1>2, <1>3, <1>4

\* The stopped process exits.
LEMMA ExitInv == ASSUME Inv, Exit PROVE Inv'
<1>1. TypeOK'
  <2>1. running' \in BOOLEAN /\ ~running'
    BY Zenon DEF Exit, ProcessEnds
  <2> QED
    BY <2>1, SMTT(60) DEF Exit, ProcessEnds
<1>2. (HandlerInv /\ RefundInv /\ PayInv /\ UuidInv)'
  BY SMTT(60) DEF Exit, ProcessEnds
<1>3. (RoundInv /\ VoidInv /\ RequeueInv /\ SettleInv)'
  BY SMTT(60) DEF Exit, ProcessEnds
<1>4. (DebtInv /\ RecoveryInv)'
  BY SMTT(60) DEF Exit, ProcessEnds
<1> QED
  BY <1>1, <1>2, <1>3, <1>4

\* The loop gives the round up.
LEMMA LoopErrorInv == ASSUME Inv, LoopError PROVE Inv'
  BY SMTT(60) DEF LoopError, Fault

\* Recovery is abandoned half way.
LEMMA StartErrorInv == ASSUME Inv, StartError PROVE Inv'
  BY SMTT(60) DEF StartError, Fault

\* A handler is abandoned half way.
LEMMA HandlerErrorInv == ASSUME Inv, NEW b \in Bets, HandlerError(b) PROVE Inv'
<1>1. TypeOK'
  BY SMTT(60) DEF HandlerError, Fault, Handler
<1>2. (HandlerInv /\ RefundInv /\ PayInv /\ UuidInv)'
  BY SMTT(60) DEF HandlerError, Fault, Handler
<1>3. (RoundInv /\ VoidInv /\ RequeueInv /\ SettleInv)'
  BY SMTT(60) DEF HandlerError, Fault, Handler
<1>4. (DebtInv /\ RecoveryInv)'
  BY SMTT(60) DEF HandlerError, Fault, Handler
<1> QED
  BY <1>1, <1>2, <1>3, <1>4

-----------------------------------------------------------------------------
(* The theorems.                                                           *)

HIDE DEF Inv, TypeOK, HandlerInv, RefundInv, PayInv, UuidInv, RoundInv, VoidInv,
         RequeueInv, SettleInv, DebtInv, RecoveryInv, Queued, Settled

\* Every step of the system preserves the invariant.
LEMMA NextInv == Inv /\ [Next]_vars => Inv'
<1> SUFFICES ASSUME Inv, [Next]_vars PROVE Inv'
  OBVIOUS
<1>1. ASSUME NEW b \in Bets, PlaceBet(b) \/ GateRejects(b) \/ HandlerStep(b)
      PROVE  Inv'
  BY <1>1, PlaceBetInv, GateRejectsInv, CreateBetInv, BetOkInv, BetRefusedInv,
     BetUncertainInv, AcceptBetInv, HoldBetInv, CountBetInv, RejectBetInv,
     RejectUncertainInv, EnqueueRollbackInv
     DEF HandlerStep
<1>2. CASE EngineStep
  BY <1>2, StartInv, FinishResumeInv, CloseResumedInv, CloseVoidedInv,
     ResumeKnownInv, VoidRoundInv, RequeueLostInv, RequeueWinInv, VoidBetInv,
     ReleaseRequeuedInv, SaveRequeuedInv, ReadVoidedInv, RefundRegisterInv,
     EnqueueRefundInv, CreateRoundInv, CountNonceInv, CloseBettingInv,
     StoreRollingInv, RevealInv, SnapshotInv, ReleaseSettledInv, SettleLossInv,
     StartWinInv, WinConfirmedInv, WinUncertainInv, EnqueueWinInv,
     CloseRoundInv, FinishCooldownInv, ExitInv
     DEF EngineStep
<1>3. CASE WalletStep
  BY <1>3, WalletCreditsInv, WalletDebitsInv, DeliverLateInv DEF WalletStep
<1>4. CASE JobStep
  BY <1>4, WinJobDeliveredInv, WinJobDoneInv, RollbackDeliveredInv,
     RollbackDoneInv DEF JobStep
<1>5. CASE Failure
  BY <1>5, StopInv, CrashInv, LoopErrorInv, StartErrorInv, HandlerErrorInv
     DEF Failure
<1>6. CASE UNCHANGED vars
  BY <1>6, SMTT(60)
     DEF vars, Inv, TypeOK, HandlerInv, RefundInv, PayInv, UuidInv, RoundInv,
         VoidInv, RequeueInv, SettleInv, DebtInv, RecoveryInv, Queued, Settled
<1> QED
  BY <1>1, <1>2, <1>3, <1>4, <1>5, <1>6 DEF Next, BoundReached

\* The invariant holds in every reachable state, for every number of bets and
\* rounds and whatever fails.
THEOREM Invariance == Spec => []Inv
  BY InitInv, NextInv, PTL DEF Spec

\* Every variable keeps its type; the loop runs only after start().
THEOREM TypeCorrect == Spec => []TypeOK
<1>1. Inv => TypeOK
  BY DEF Inv
<1> QED
  BY <1>1, Invariance, PTL

\* The operator credits only debited stakes of bets the stored outcome favours.
THEOREM PaidOnlyOnWinHolds == Spec => []PaidOnlyOnWin
<1>1. Inv => PaidOnlyOnWin
  BY DEF Inv, TypeOK, HandlerInv, PayInv, PaidOnlyOnWin, Wins
<1> QED
  BY <1>1, Invariance, PTL

\* A stake goes back only on a rejected or voided bet.
THEOREM RefundOnlyUnplayedHolds == Spec => []RefundOnlyUnplayed
<1>1. Inv => RefundOnlyUnplayed
  BY DEF Inv, RefundInv, RefundOnlyUnplayed
<1> QED
  BY <1>1, Invariance, PTL

\* No stake is both paid a win and given back: settlement and recovery never
\* disagree, however often recovery is interrupted.
THEOREM NeverPaidAndRefundedHolds == Spec => []NeverPaidAndRefunded
<1>1. Inv => NeverPaidAndRefunded
  BY DEF Inv, RefundInv, PayInv, NeverPaidAndRefunded, Credited
<1> QED
  BY <1>1, Invariance, PTL

\* A stake goes one way, to a win or back, across any crashes and retries.
THEOREM StakeGoesOneWayHolds == Spec => []StakeGoesOneWay
  BY NeverPaidAndRefundedHolds, PaidOnlyOnWinHolds, RefundOnlyUnplayedHolds, PTL
     DEF StakeGoesOneWay

\* A bet stored as a settled win was credited under the uuid stored with it.
THEOREM SettledWonIsPaidHolds == Spec => []SettledWonIsPaid
<1>1. Inv => SettledWonIsPaid
  BY DEF Inv, UuidInv, SettledWonIsPaid
<1> QED
  BY <1>1, Invariance, PTL

\* Every unconfirmed win of a closed round is queued or has been credited.
THEOREM DebtIsQueuedHolds == Spec => []DebtIsQueued
<1>1. Inv => DebtIsQueued
  BY DEF Inv, DebtInv, Queued, DebtIsQueued
<1> QED
  BY <1>1, Invariance, PTL

\* A decided win is booked, or owed under the uuid stored with the bet.
THEOREM WinsAreOwedOrPaidHolds == Spec => []WinsAreOwedOrPaid
  BY SettledWonIsPaidHolds, DebtIsQueuedHolds, PTL DEF WinsAreOwedOrPaid

\* Without database errors the loop opens a round only when the earlier ones
\* are closed, whatever crashes interrupted their recovery.
THEOREM RecoveryIsCompleteHolds == Spec => []RecoveryIsComplete
<1>1. Inv => RecoveryIsComplete
  BY DEF Inv, TypeOK, RecoveryInv, RecoveryIsComplete
<1> QED
  BY <1>1, Invariance, PTL

\* No step changes the status of a decided bet, or the uuid of its win.
THEOREM SettlementIsFinalHolds == Spec => SettlementIsFinal
<1> DEFINE Final == \A b \in Bets :
                /\ betStatus[b] \in {"REJECTED", "SETTLED", "FAILED", "VOIDED"}
                       => betStatus'[b] = betStatus[b]
                /\ winTx[b] # 0 => winTx'[b] = winTx[b]
<1>1. ASSUME Inv, Next PROVE Final
  <2>1. ASSUME NEW b \in Bets,
               CreateBet(b) \/ AcceptBet(b) \/ RejectBet(b) \/ RejectUncertain(b)
        PROVE  Final
    BY <1>1, <2>1 DEF CreateBet, AcceptBet, RejectBet, RejectUncertain, Handler,
       SetBet, Inv, TypeOK, HandlerInv
  <2>2. ASSUME NEW b \in Bets, RequeueLost(b) \/ SettleLoss(b) \/ VoidBet(b)
        PROVE  Final
    BY <1>1, <2>2 DEF RequeueLost, SettleLoss, VoidBet, Loop, Wins, SetBet,
       Inv, TypeOK, UuidInv, RequeueInv, SettleInv, VoidInv
  <2>3. CASE SaveRequeued
    BY <1>1, <2>3 DEF SaveRequeued, Loop, SetBet, Inv, TypeOK, RequeueInv
  <2>4. CASE WinConfirmed \/ WinUncertain
    BY <1>1, <2>4 DEF WinConfirmed, WinUncertain, SaveWin, Loop, SetBet,
       Inv, TypeOK, UuidInv, SettleInv
  <2>5. CASE UNCHANGED <<betStatus, winTx>>
    BY <2>5
  <2> HIDE DEF Final
  <2> QED
    BY <1>1, <2>1, <2>2, <2>3, <2>4, <2>5
       DEF Next, HandlerStep, EngineStep, WalletStep, JobStep, Failure,
          PlaceBet, GateRejects, BetOk, BetRefused, BetUncertain, HoldBet,
          CountBet, EnqueueRollback, WalletDebits, DeliverLate, WalletCredits,
          WinJobDelivered, WinJobDone, RollbackDelivered, RollbackDone, Start,
          ResumeKnown, ReleaseRequeued, RequeueWin, CloseResumed, VoidRound,
          ReadVoided, RefundRegister, EnqueueRefund, CloseVoided, FinishResume,
          CreateRound, CountNonce, CloseBetting, StoreRolling, Reveal,
          Snapshot, ReleaseSettled, StartWin, EnqueueWin, CloseRound,
          FinishCooldown, Stop, Crash, Exit, LoopError, StartError,
          HandlerError, BoundReached, vars, SettleRound, ProcessEnds
<1>2. Inv /\ [Next]_vars => [Final]_vars
  BY <1>1
<1> QED
  BY <1>2, Invariance, PTL DEF Spec, SettlementIsFinal

-----------------------------------------------------------------------------
(* What holds as long as no process dies and no database call throws.       *)

Quiet == crashes = 0 /\ faults = 0

\* A call that is still on the network was given up, and has not arrived.
LateInv ==
    \A b \in late : b \notin debited /\ hpc[b] \in {"uncertain", "rollback", "done"}

\* Every round is closed before the process stops, so there is nothing to recover.
QuietInv ==
    Quiet =>
        /\ stuck = {} /\ pc \notin VoidPcs \cup RequeuePcs
        /\ pc \in {"down", "stopped", "resume"} => \A r \in 1..lastRound : Settled(r)
        /\ \A b \in Bets : betStatus[b] # "VOIDED"

\* One uuid is minted for a win, and is stored with the bet but while it is in hand.
OnceInv ==
    Quiet =>
        /\ \A b \in Bets : minted[b] \in {0, 1}
        /\ \A b \in Bets : winTx[b] = minted[b] \/ (pc = "paying" /\ cur = b)
        /\ \A j \in winJobs \cup credits : j[2] = 1
        /\ pc \in {"paying", "settleFailed"} => tx = 1
        /\ pc = "paying" => minted[cur] = 1

\* The nonces of the rounds differ, and the session has passed them all but the one
\* that it is about to count.
NonceInv ==
    Quiet =>
        /\ NoncesAreUnique
        /\ \A r \in 1..lastRound :
             \/ roundNonce[r] < sessionNonce
             \/ pc = "count" /\ r = lastRound /\ roundNonce[r] = sessionNonce

Paid(r) == {b \in Bets : betRound[b] = r /\ minted[b] # 0}

\* The payout sum of the round being settled counts its wins, and the row of a
\* settled round keeps it.
SumInv ==
    Quiet =>
        /\ pc \in PlayPcs => Paid(lastRound) = {}
        /\ pc \in SettlePcs => IsFiniteSet(Paid(at)) /\ sum = Cardinality(Paid(at))
        /\ \A r \in Rounds : roundState[r] = "SETTLED" => totalPayouts[r] = Cardinality(Paid(r))

Standing == {"ACCEPTED", "SETTLED", "FAILED"}

Counted(r) == {b \in Bets : betRound[b] = r /\ hpc[b] = "done" /\ betStatus[b] \in Standing}

\* Without a shutdown either, the handlers live on, and each accepted bet is added
\* to its round by its own handler, in its last step.
CountInv ==
    Quiet /\ stops = 0 =>
        /\ pc \in LoopPcs => running
        /\ pc # "stopped" /\ (pc = "down" => \A b \in Bets : hpc[b] = "idle")
        /\ \A b \in Bets : hpc[b] \in {"hold", "count"} => betStatus[b] \in Standing
        /\ \A r \in Rounds : IsFiniteSet(Counted(r)) /\ totalBets[r] = Cardinality(Counted(r))

\* A step after which nothing has failed is none of the failures.
LEMMA QuietStep ==
  ASSUME Inv, [Next]_vars, Quiet'
  PROVE  /\ Quiet
         /\ \/ \E b \in Bets : PlaceBet(b) \/ GateRejects(b) \/ HandlerStep(b)
            \/ EngineStep \/ WalletStep \/ JobStep \/ Stop \/ UNCHANGED vars
<1>1. crashes \in Nat /\ faults \in Nat
  BY DEF Inv, TypeOK
<1>2. CASE UNCHANGED vars
  BY <1>2 DEF vars, Quiet
<1>3. CASE Crash
  BY <1>1, <1>3 DEF Crash, Quiet
<1>4. CASE LoopError \/ StartError \/ \E b \in Bets : HandlerError(b)
  BY <1>1, <1>4 DEF LoopError, StartError, HandlerError, Fault, Quiet
<1>5. CASE Stop
  BY <1>5 DEF Stop, Quiet
<1>6. ASSUME NEW b \in Bets, PlaceBet(b) \/ GateRejects(b) \/ HandlerStep(b)
      PROVE  Quiet
  BY <1>6 DEF PlaceBet, GateRejects, HandlerStep, CreateBet, BetOk, BetRefused, BetUncertain,
     AcceptBet, HoldBet, CountBet, RejectBet, RejectUncertain, EnqueueRollback, Quiet
<1>7. CASE EngineStep
  BY <1>7 DEF EngineStep, Start, ResumeKnown, RequeueLost, ReleaseRequeued, RequeueWin,
     SaveRequeued, CloseResumed, VoidRound, ReadVoided, VoidBet, RefundRegister, EnqueueRefund,
     CloseVoided, FinishResume, CreateRound, CountNonce, CloseBetting, StoreRolling, Reveal,
     Snapshot, SettleLoss, ReleaseSettled, StartWin, WinConfirmed, WinUncertain, SaveWin,
     EnqueueWin, CloseRound, FinishCooldown, Exit, Quiet
<1>8. CASE WalletStep \/ JobStep
  BY <1>8 DEF WalletStep, JobStep, WalletCredits, WalletDebits, DeliverLate, WinJobDelivered,
     WinJobDone, RollbackDelivered, RollbackDone, Quiet
<1> QED
  BY <1>2, <1>3, <1>4, <1>5, <1>6, <1>7, <1>8 DEF Next, Failure, BoundReached

\* The rounds created so far are rounds.
LEMMA RoundsAre == ASSUME Inv PROVE 1..lastRound \subseteq Rounds /\ MaxRounds \in Nat /\ lastRound \in Nat
<1>1. MaxRounds \in Nat
  OBVIOUS
<1> QED
  BY <1>1 DEF Inv, TypeOK

\* Rounds are created and counted by the loop alone.
LEMMA NonceStep == ASSUME Inv, NonceInv, [Next]_vars PROVE NonceInv'
<1> SUFFICES ASSUME Quiet' PROVE NonceInv'
  BY DEF NonceInv
<1>1. CASE CreateRound
  <2>1. /\ lastRound' = lastRound + 1 /\ pc = "create" /\ pc' = "count" /\ lastRound \in Nat
        /\ lastRound' \in Rounds
        /\ roundNonce' = [roundNonce EXCEPT ![lastRound'] = sessionNonce]
        /\ UNCHANGED <<sessionNonce, crashes, faults>>
    BY <1>1 DEF CreateRound, Loop, Inv, TypeOK, bounds, Rounds
  <2>2. roundNonce \in [Rounds -> Nat] /\ 1..lastRound \subseteq Rounds /\ sessionNonce \in Nat
    BY RoundsAre DEF Inv, TypeOK
  <2> HIDE DEF Rounds
  <2>4. roundNonce'[lastRound'] = sessionNonce
    BY <2>1, <2>2
  <2>5. \A r \in 1..lastRound : roundNonce'[r] = roundNonce[r] /\ roundNonce[r] \in Nat
    BY <2>1, <2>2
  <2>3. \A r \in 1..lastRound' : r \in 1..lastRound \/ r = lastRound'
    BY <2>1
  <2> QED
    BY <2>1, <2>2, <2>3, <2>4, <2>5 DEF NonceInv, NoncesAreUnique, Quiet
<1>2. CASE CountNonce
  <2>1. /\ pc = "count" /\ pc' = "betting" /\ sessionNonce' = sessionNonce + 1
        /\ sessionNonce \in Nat /\ \A r \in 1..lastRound : roundNonce[r] \in Nat
        /\ UNCHANGED <<lastRound, roundNonce, crashes, faults>>
    BY <1>2 DEF CountNonce, Loop, Inv, TypeOK, bounds, Rounds
  <2> QED
    BY <2>1 DEF NonceInv, NoncesAreUnique, Quiet
<1>3. CASE /\ UNCHANGED <<lastRound, roundNonce, sessionNonce>>
           /\ (pc = "count" => pc' = "count")
  BY <1>3, QuietStep DEF NonceInv, NoncesAreUnique
<1>4. ASSUME NEW b \in Bets, PlaceBet(b) \/ GateRejects(b) \/ HandlerStep(b)
      PROVE  NonceInv'
  BY <1>3, <1>4 DEF PlaceBet, GateRejects, HandlerStep, CreateBet, BetOk, BetRefused, BetUncertain,
     AcceptBet, HoldBet, CountBet, RejectBet, RejectUncertain, EnqueueRollback
<1>5. CASE EngineStep
  BY <1>1, <1>2, <1>3, <1>5 DEF EngineStep, Loop, Start, ResumeKnown, RequeueLost,
     ReleaseRequeued, RequeueWin, SaveRequeued, CloseResumed, VoidRound, ReadVoided, VoidBet,
     RefundRegister, EnqueueRefund, CloseVoided, FinishResume, CloseBetting, StoreRolling, Reveal,
     Snapshot, SettleLoss, ReleaseSettled, StartWin, WinConfirmed, WinUncertain, SaveWin,
     EnqueueWin, CloseRound, SettleRound, FinishCooldown, Exit, ProcessEnds
<1>6. CASE WalletStep \/ JobStep \/ Stop \/ UNCHANGED vars
  BY <1>3, <1>6 DEF WalletStep, JobStep, WalletCredits, WalletDebits, DeliverLate, WinJobDelivered,
     WinJobDone, RollbackDelivered, RollbackDone, Stop, vars
<1> QED
  BY <1>4, <1>5, <1>6, QuietStep

\* A call is given up by its handler or dies with the process, and arrives once.
LEMMA LateStep == ASSUME Inv, LateInv, [Next]_vars PROVE LateInv'
<1>1. late \subseteq Bets /\ debited \subseteq Bets /\ hpc \in [Bets -> HandlerPcs]
  BY DEF Inv, TypeOK
<1>2. CASE UNCHANGED <<late, debited, hpc>>
  BY <1>2 DEF LateInv
<1>3. ASSUME NEW b \in Bets, PlaceBet(b) \/ GateRejects(b) \/ HandlerStep(b) \/ HandlerError(b)
      PROVE  LateInv'
  <2>1. CASE BetUncertain(b)
    BY <1>1, <2>1 DEF BetUncertain, Handler, LateInv
  <2>2. CASE RejectUncertain(b) \/ EnqueueRollback(b) \/ HandlerError(b)
    BY <1>1, <2>2 DEF RejectUncertain, EnqueueRollback, HandlerError, Handler, LateInv
  <2>3. CASE PlaceBet(b) \/ GateRejects(b) \/ CreateBet(b) \/ BetOk(b) \/ BetRefused(b)
    BY <1>1, <2>3 DEF PlaceBet, GateRejects, CreateBet, BetOk, BetRefused, Handler, LateInv
  <2>4. CASE AcceptBet(b) \/ HoldBet(b) \/ CountBet(b) \/ RejectBet(b)
    BY <1>1, <2>4 DEF AcceptBet, HoldBet, CountBet, RejectBet, Handler, LateInv
  <2> QED
    BY <1>3, <2>1, <2>2, <2>3, <2>4 DEF HandlerStep
<1>4. ASSUME ProcessEnds PROVE LateInv'
  <2>1. /\ hpc' = [b \in Bets |-> IF hpc[b] = "idle" THEN "idle" ELSE "done"]
        /\ late' \subseteq late \cup {b \in Bets : hpc[b] = "calling" /\ b \notin debited}
        /\ debited' = debited
    BY <1>4 DEF ProcessEnds
  <2> QED
    BY <1>1, <2>1 DEF LateInv
<1>5. CASE EngineStep
  BY <1>2, <1>4, <1>5 DEF EngineStep, Start, ResumeKnown, RequeueLost,
     ReleaseRequeued, RequeueWin, SaveRequeued, CloseResumed, VoidRound, ReadVoided, VoidBet,
     RefundRegister, EnqueueRefund, CloseVoided, FinishResume, CreateRound, CountNonce,
     CloseBetting, StoreRolling, Reveal, Snapshot, SettleLoss, ReleaseSettled, StartWin,
     WinConfirmed, WinUncertain, SaveWin, EnqueueWin, CloseRound, FinishCooldown, Exit
<1>6. ASSUME NEW b \in Bets, WalletDebits(b) \/ DeliverLate(b) PROVE LateInv'
  BY <1>1, <1>6 DEF WalletDebits, DeliverLate, LateInv
<1>7. CASE WalletCredits \/ JobStep
  BY <1>2, <1>7 DEF JobStep, WalletCredits, WinJobDelivered, WinJobDone, RollbackDelivered,
     RollbackDone
<1>8. CASE Stop \/ Crash \/ LoopError \/ StartError \/ UNCHANGED vars
  BY <1>2, <1>4, <1>8 DEF Stop, Crash, LoopError, StartError, vars
<1> QED
  BY <1>3, <1>5, <1>6, <1>7, <1>8 DEF Next, WalletStep, Failure, BoundReached

\* Recovery finds nothing to do, and no bet is voided.
LEMMA QuietInvStep == ASSUME Inv, QuietInv, [Next]_vars PROVE QuietInv'
<1> SUFFICES ASSUME Quiet' PROVE QuietInv'
  BY DEF QuietInv
<1>1. /\ Quiet /\ stuck = {} /\ pc \notin VoidPcs \cup RequeuePcs
      /\ pc \in {"down", "stopped", "resume"} => \A r \in 1..lastRound : Settled(r)
      /\ \A b \in Bets : betStatus[b] # "VOIDED"
  BY QuietStep DEF QuietInv
<1>2. betStatus \in [Bets -> BetStatuses]
  BY DEF Inv, TypeOK
<1>3. CASE UNCHANGED <<stuck, pc, lastRound, roundState, betStatus>>
  BY <1>1, <1>3 DEF QuietInv, Settled
<1>4. ASSUME NEW b \in Bets, PlaceBet(b) \/ GateRejects(b) \/ HandlerStep(b)
      PROVE  QuietInv'
  <2>1. \E s \in BetStatuses \ {"VOIDED"} : SetBet(b, s) \/ UNCHANGED betStatus
    BY <1>4 DEF PlaceBet, GateRejects, HandlerStep, CreateBet, BetOk, BetRefused, BetUncertain,
       AcceptBet, HoldBet, CountBet, RejectBet, RejectUncertain, EnqueueRollback
  <2>2. UNCHANGED <<stuck, pc, lastRound, roundState>>
    BY <1>4 DEF PlaceBet, GateRejects, HandlerStep, CreateBet, BetOk, BetRefused, BetUncertain,
       AcceptBet, HoldBet, CountBet, RejectBet, RejectUncertain, EnqueueRollback
  <2> QED
    BY <1>1, <1>2, <2>1, <2>2 DEF QuietInv, Settled, SetBet
<1>5. CASE Start
  <2>1. stuck' = Unsettled /\ pc = "down" /\ pc' = "resume"
        /\ UNCHANGED <<lastRound, roundState, betStatus>>
    BY <1>5 DEF Start, Loop
  <2>2. stuck' = {}
    BY <1>1, <2>1 DEF Unsettled
  <2> QED
    BY <1>1, <2>1, <2>2 DEF QuietInv, Settled
<1>6. CASE FinishCooldown
  <2>1. pc = "cooldown" /\ pc' \in {"create", "stopped"}
        /\ UNCHANGED <<stuck, lastRound, roundState, betStatus>>
    BY <1>6 DEF FinishCooldown, Loop
  <2>2. \A r \in 1..lastRound : Settled(r)
    BY <1>1, <2>1 DEF Inv, RecoveryInv, Quiet
  <2> QED
    BY <1>1, <2>1, <2>2 DEF QuietInv, Settled
<1>7. CASE Exit
  BY <1>1, <1>7 DEF Exit, ProcessEnds, QuietInv, Settled
<1>8. CASE ReleaseRequeued \/ SaveRequeued \/ CloseResumed \/ CloseVoided \/ ReadVoided
           \/ RefundRegister \/ EnqueueRefund
  BY <1>1, <1>8 DEF ReleaseRequeued, SaveRequeued, CloseResumed, CloseVoided, ReadVoided,
     RefundRegister, EnqueueRefund, Loop
<1>9. CASE \/ \E r \in Rounds : ResumeKnown(r) \/ VoidRound(r)
           \/ \E b \in Bets : RequeueLost(b) \/ RequeueWin(b) \/ VoidBet(b)
  BY <1>1, <1>9 DEF ResumeKnown, VoidRound, RequeueLost, RequeueWin, VoidBet, Loop
<1>10. CASE FinishResume \/ CreateRound \/ CountNonce \/ CloseBetting \/ StoreRolling
            \/ (\E o \in Outcomes : Reveal(o)) \/ Snapshot \/ ReleaseSettled \/ EnqueueWin
            \/ CloseRound \/ \E b \in Bets : StartWin(b)
  BY <1>1, <1>10 DEF FinishResume, CreateRound, CountNonce, CloseBetting, StoreRolling, Reveal,
     Snapshot, ReleaseSettled, EnqueueWin, CloseRound, SettleRound, StartWin, Loop, QuietInv
<1>11. CASE WinConfirmed \/ WinUncertain \/ \E b \in Bets : SettleLoss(b)
  <2>1. /\ pc' \in {"settleWon", "settleFailed", "settleLost"} /\ stuck' = stuck
        /\ \E b \in Ids, s \in {"SETTLED", "FAILED"} : SetBet(b, s)
    BY <1>11 DEF WinConfirmed, WinUncertain, SaveWin, SettleLoss, Loop, Inv, TypeOK
  <2> QED
    BY <1>1, <1>2, <2>1 DEF SetBet, QuietInv
<1>12. CASE WalletStep \/ JobStep \/ Stop \/ UNCHANGED vars
  BY <1>3, <1>12 DEF WalletStep, JobStep, WalletCredits, WalletDebits, DeliverLate,
     WinJobDelivered, WinJobDone, RollbackDelivered, RollbackDone, Stop, vars
<1> QED
  BY <1>4, <1>5, <1>6, <1>7, <1>8, <1>9, <1>10, <1>11, <1>12, QuietStep DEF EngineStep

\* A win is minted a uuid when it is taken up, and the bet is then out of the snapshot.
LEMMA OnceStep == ASSUME Inv, QuietInv, OnceInv, [Next]_vars PROVE OnceInv'
<1> SUFFICES ASSUME Quiet' PROVE OnceInv'
  BY DEF OnceInv
<1>1. /\ \A b \in Bets : minted[b] \in {0, 1}
      /\ \A b \in Bets : winTx[b] = minted[b] \/ (pc = "paying" /\ cur = b)
      /\ \A j \in winJobs \cup credits : j[2] = 1
      /\ pc \in {"paying", "settleFailed"} => tx = 1
      /\ pc = "paying" => minted[cur] = 1
  BY QuietStep DEF OnceInv
<1>2. /\ minted \in [Bets -> Nat] /\ winTx \in [Bets -> Nat]
      /\ pc = "paying" => cur \in Bets
      /\ pc \notin RequeuePcs
  BY QuietStep DEF Inv, TypeOK, SettleInv, QuietInv
<1>3. CASE UNCHANGED <<minted, winTx, winJobs, credits, pc, cur, tx>>
  BY <1>1, <1>3 DEF OnceInv
<1>4. CASE /\ UNCHANGED <<minted, winTx, winJobs, credits>>
           /\ pc # "paying" /\ pc' \notin {"paying", "settleFailed"}
  BY <1>1, <1>4 DEF OnceInv
<1>5. ASSUME NEW b \in Bets, PlaceBet(b) \/ GateRejects(b) \/ HandlerStep(b)
      PROVE  OnceInv'
  BY <1>3, <1>5 DEF PlaceBet, GateRejects, HandlerStep, CreateBet, BetOk, BetRefused, BetUncertain,
     AcceptBet, HoldBet, CountBet, RejectBet, RejectUncertain, EnqueueRollback
<1>6. ASSUME NEW b \in Bets, StartWin(b) PROVE OnceInv'
  <2>1. /\ pc = "settling" /\ pc' = "paying" /\ cur' = b /\ tx' = minted[b] + 1
        /\ minted' = [minted EXCEPT ![b] = @ + 1]
        /\ UNCHANGED <<winTx, winJobs, credits>>
        /\ b \in work
    BY <1>6 DEF StartWin, Loop, wallet
  <2>2. winTx[b] = 0
    BY <2>1 DEF Inv, SettleInv, UuidInv
  <2>3. minted[b] = 0 /\ tx' = 1
    BY <1>1, <1>2, <2>1, <2>2
  <2> QED
    BY <1>1, <1>2, <2>1, <2>3 DEF OnceInv
<1>7. CASE WinConfirmed \/ WinUncertain
  <2>1. /\ pc = "paying" /\ pc' \in {"settleWon", "settleFailed"}
        /\ winTx' = [winTx EXCEPT ![cur] = tx]
        /\ UNCHANGED <<minted, winJobs, credits, cur, tx>>
    BY <1>7 DEF WinConfirmed, WinUncertain, SaveWin, Loop, wallet
  <2> QED
    BY <1>1, <1>2, <2>1 DEF OnceInv
<1>8. CASE EnqueueWin
  BY <1>1, <1>8 DEF EnqueueWin, Loop, wallet, OnceInv
<1>9. CASE Start \/ FinishResume \/ CreateRound \/ CountNonce \/ CloseBetting \/ StoreRolling
           \/ (\E o \in Outcomes : Reveal(o)) \/ Snapshot \/ ReleaseSettled \/ CloseRound
           \/ FinishCooldown \/ Exit
  BY <1>4, <1>9 DEF Start, FinishResume, CreateRound, CountNonce, CloseBetting, StoreRolling,
     Reveal, Snapshot, ReleaseSettled, CloseRound, SettleRound, FinishCooldown, Exit, ProcessEnds,
     Loop, wallet
<1>10. CASE CloseResumed \/ CloseVoided \/ ReleaseRequeued \/ ReadVoided \/ RefundRegister
            \/ EnqueueRefund \/ \E r \in Rounds : ResumeKnown(r) \/ VoidRound(r)
  BY <1>4, <1>10 DEF CloseResumed, CloseVoided, ReleaseRequeued, ReadVoided, RefundRegister,
     EnqueueRefund, ResumeKnown, VoidRound, SettleRound, Loop, wallet
<1>11. CASE SaveRequeued \/ \E b \in Bets : RequeueLost(b) \/ RequeueWin(b)
  BY <1>2, <1>11 DEF SaveRequeued, RequeueLost, RequeueWin, Loop
<1>12. CASE \E b \in Bets : VoidBet(b) \/ SettleLoss(b)
  BY <1>4, <1>12 DEF VoidBet, SettleLoss, Loop, wallet
<1>13. CASE WalletStep \/ JobStep
  <2>1. CASE WalletCredits
    BY <1>1, <2>1 DEF WalletCredits, OnceInv
  <2>2. ASSUME NEW j \in winJobs, WinJobDelivered(j) \/ WinJobDone(j) PROVE OnceInv'
    BY <1>1, <2>2 DEF WinJobDelivered, WinJobDone, OnceInv
  <2>3. ASSUME NEW b \in Bets, \/ WalletDebits(b) \/ DeliverLate(b)
                               \/ RollbackDelivered(b) \/ RollbackDone(b)
        PROVE  OnceInv'
    BY <1>3, <2>3 DEF WalletDebits, DeliverLate, RollbackDelivered, RollbackDone
  <2> QED
    BY <1>13, <2>1, <2>2, <2>3 DEF WalletStep, JobStep
<1>14. CASE Stop \/ UNCHANGED vars
  BY <1>3, <1>14 DEF Stop, vars, wallet
<1> QED
  BY <1>5, <1>6, <1>7, <1>8, <1>9, <1>10, <1>11, <1>12, <1>13, <1>14, QuietStep DEF EngineStep

-----------------------------------------------------------------------------
(* The refinement: the money of each bet keeps StakeContract.               *)

HIDE DEF WinCalls

PaymentsIn(C, b) == Cardinality({j \in C : j[1] = b})

\* With one uuid for each win, what the operator paid for a bet is one or nothing.
LEMMA PaymentsAre ==
  ASSUME NEW C, C \subseteq WinCalls, \A j \in C : j[2] = 1, NEW b \in Bets
  PROVE  PaymentsIn(C, b) = IF <<b, 1>> \in C THEN 1 ELSE 0
<1>1. {j \in C : j[1] = b} = IF <<b, 1>> \in C THEN {<<b, 1>>} ELSE {}
  BY DEF WinCalls
<1> QED
  BY <1>1, FS_EmptySet, FS_Singleton DEF PaymentsIn

\* Before a step and after it, the payments are those of the calls under the uuid 1.
LEMMA PaymentsOfAre ==
  ASSUME Inv, Inv', OnceInv, OnceInv', Quiet, Quiet'
  PROVE  /\ PaymentsOf = [b \in Bets |-> IF <<b, 1>> \in credits THEN 1 ELSE 0]
         /\ PaymentsOf' = [b \in Bets |-> IF <<b, 1>> \in credits' THEN 1 ELSE 0]
<1>1. credits \subseteq WinCalls /\ \A j \in credits : j[2] = 1
  BY DEF OnceInv, Inv, TypeOK
<1>2. credits' \subseteq WinCalls /\ \A j \in credits' : j[2] = 1
  BY DEF OnceInv, Inv, TypeOK
<1>3. ASSUME NEW b \in Bets
      PROVE  Payments(b) = IF <<b, 1>> \in credits THEN 1 ELSE 0
  BY <1>1, PaymentsAre DEF Payments, PaymentsIn
<1>4. ASSUME NEW b \in Bets
      PROVE  Payments(b)' = IF <<b, 1>> \in credits' THEN 1 ELSE 0
  BY <1>2, PaymentsAre DEF Payments, PaymentsIn
<1> QED
  BY <1>3, <1>4 DEF PaymentsOf

\* Of the answers to a win and its retries, one is the payment of an open stake.
LEMMA PayMapped ==
  ASSUME Inv, Inv', OnceInv, OnceInv', Quiet, Quiet', NEW b \in Bets, NEW n \in Nat,
         credits' = credits \cup {<<b, n>>}, UNCHANGED <<debited, rolledBack>>
  PROVE  Contract!Pay(b) \/ UNCHANGED Contract!ledger
<1>1. <<b, n>> \in credits' /\ n = 1
  <2>1. <<b, n>> \in winJobs' \cup credits' /\ <<b, n>>[1] = b /\ <<b, n>>[2] = n
    OBVIOUS
  <2> QED
    BY <2>1 DEF OnceInv
<1>2. b \in debited /\ b \notin rolledBack
  <2>1. betStatus'[b] \in {"ACCEPTED", "SETTLED", "FAILED"}
    <3>1. <<b, n>> \in winJobs' \cup credits' /\ <<b, n>>[1] = b
      OBVIOUS
    <3> QED
      BY <3>1 DEF Inv, PayInv
  <2>2. b \in debited'
    BY <2>1 DEF Inv, HandlerInv
  <2>3. b \notin rolledBack'
    BY <2>1 DEF Inv, RefundInv
  <2> QED
    BY <2>2, <2>3
<1>3. CASE <<b, n>> \in credits
  <2>1. credits' = credits
    BY <1>3
  <2> QED
    BY <2>1 DEF Contract!ledger, PaymentsOf, Payments
<1>4. CASE <<b, n>> \notin credits
  <2>1. PaymentsOf[b] = 0 /\ PaymentsOf' = [PaymentsOf EXCEPT ![b] = 1]
    BY <1>1, <1>4, PaymentsOfAre
  <2> QED
    BY <1>2, <2>1 DEF Contract!Pay, Contract!Open
<1> QED
  BY <1>3, <1>4

\* A stake goes back once, and only one that no win was paid for.
LEMMA RefundMapped ==
  ASSUME Inv, Inv', OnceInv, OnceInv', Quiet, Quiet', NEW b \in Bets, b \in debited,
         rolledBack' = rolledBack \cup {b}, UNCHANGED <<debited, credits>>
  PROVE  Contract!Refund(b) \/ UNCHANGED Contract!ledger
<1>1. UNCHANGED PaymentsOf
  BY DEF PaymentsOf, Payments
<1>2. PaymentsOf[b] = 0
  <2>1. betStatus'[b] \in {"REJECTED", "VOIDED"}
    BY DEF Inv, RefundInv
  <2>2. <<b, 1>> \in winJobs' \cup credits' => betStatus'[<<b, 1>>[1]] \notin {"REJECTED", "VOIDED"}
    BY DEF Inv, PayInv
  <2>3. <<b, 1>> \notin credits
    BY <2>1, <2>2
  <2> QED
    BY <2>3, PaymentsOfAre
<1>3. CASE b \in rolledBack
  <2>1. rolledBack' = rolledBack
    BY <1>3
  <2> QED
    BY <1>1, <2>1 DEF Contract!ledger
<1>4. CASE b \notin rolledBack
  BY <1>1, <1>2, <1>4 DEF Contract!Refund, Contract!Open
<1> QED
  BY <1>3, <1>4

\* Every step of the engine, the wallet and the job runner is one of the contract's,
\* or none.
LEMMA ContractStep ==
  ASSUME Inv, Inv', OnceInv, OnceInv', LateInv, Quiet', [Next]_vars
  PROVE  Contract!Next \/ UNCHANGED Contract!ledger
<1>1. Quiet
  BY QuietStep
<1>2. CASE UNCHANGED <<debited, credits, rolledBack>>
  BY <1>2 DEF Contract!ledger, PaymentsOf, Payments
<1>3. ASSUME NEW b \in Bets, PlaceBet(b) \/ GateRejects(b) \/ HandlerStep(b)
      PROVE  UNCHANGED <<debited, credits, rolledBack>>
  BY <1>3 DEF PlaceBet, GateRejects, HandlerStep, CreateBet, BetOk, BetRefused, BetUncertain,
     AcceptBet, HoldBet, CountBet, RejectBet, RejectUncertain, EnqueueRollback, wallet
<1>4. CASE EngineStep
  <2>1. UNCHANGED <<debited, credits, rolledBack>>
    BY <1>4 DEF EngineStep, Start, ResumeKnown, RequeueLost, ReleaseRequeued, RequeueWin,
       SaveRequeued, CloseResumed, VoidRound, ReadVoided, VoidBet, RefundRegister, EnqueueRefund,
       CloseVoided, FinishResume, CreateRound, CountNonce, CloseBetting, StoreRolling, Reveal,
       Snapshot, SettleLoss, ReleaseSettled, StartWin, WinConfirmed, WinUncertain, SaveWin,
       EnqueueWin, CloseRound, FinishCooldown, Exit, ProcessEnds, wallet
  <2> QED
    BY <1>2, <2>1
<1>5. ASSUME NEW b \in Bets, WalletDebits(b) \/ DeliverLate(b) PROVE Contract!Stake(b)
  <2>1. b \notin debited /\ debited' = debited \cup {b} /\ UNCHANGED <<credits, rolledBack>>
    BY <1>5 DEF WalletDebits, DeliverLate, LateInv
  <2>2. UNCHANGED PaymentsOf
    BY <2>1 DEF PaymentsOf, Payments
  <2> QED
    BY <2>1, <2>2 DEF Contract!Stake
<1>6. CASE WalletCredits
  <2>1. /\ cur \in Bets /\ tx \in Nat /\ credits' = credits \cup {<<cur, tx>>}
        /\ UNCHANGED <<debited, rolledBack>>
    BY <1>6 DEF WalletCredits, Inv, TypeOK, SettleInv
  <2> QED
    BY <1>1, <2>1, PayMapped DEF Contract!Next
<1>7. ASSUME NEW j \in winJobs, WinJobDelivered(j) \/ WinJobDone(j)
      PROVE  Contract!Next \/ UNCHANGED Contract!ledger
  <2>1. credits' = credits \cup {j} /\ UNCHANGED <<debited, rolledBack>>
    BY <1>7 DEF WinJobDelivered, WinJobDone
  <2>2. PICK b \in Bets, n \in Nat : j = <<b, n>>
    BY DEF Inv, TypeOK, WinCalls
  <2> QED
    BY <1>1, <2>1, <2>2, PayMapped DEF Contract!Next
<1>8. ASSUME NEW b \in Bets, RollbackDelivered(b) \/ RollbackDone(b)
      PROVE  Contract!Next \/ UNCHANGED Contract!ledger
  <2>1. UNCHANGED <<debited, credits>>
    BY <1>8 DEF RollbackDelivered, RollbackDone
  <2>2. CASE b \in debited
    <3>1. rolledBack' = rolledBack \cup {b}
      BY <1>8, <2>2 DEF RollbackDelivered, RollbackDone
    <3> QED
      BY <1>1, <2>1, <2>2, <3>1, RefundMapped DEF Contract!Next
  <2>3. CASE b \notin debited
    BY <1>2, <1>8, <2>1, <2>3 DEF RollbackDelivered, RollbackDone
  <2> QED
    BY <2>2, <2>3
<1>9. CASE Stop \/ UNCHANGED vars
  BY <1>2, <1>9 DEF Stop, vars, wallet
<1> QED
  BY <1>2, <1>3, <1>4, <1>5, <1>6, <1>7, <1>8, <1>9, QuietStep
     DEF WalletStep, JobStep, Contract!Next

-----------------------------------------------------------------------------
(* The sums a round stores.                                                 *)

\* A bet that was not taken up as a win has no uuid yet.
LEMMA NotMinted ==
  ASSUME Inv, OnceInv, Quiet, NEW b \in Bets, betStatus[b] \notin {"SETTLED", "FAILED"},
         ~(pc = "paying" /\ cur = b)
  PROVE  minted[b] = 0
<1>1. winTx[b] = 0
  BY DEF Inv, UuidInv
<1>2. winTx[b] = minted[b] \/ (pc = "paying" /\ cur = b)
  BY DEF OnceInv
<1> QED
  BY <1>1, <1>2

\* The wins of a round are those it had, but for the one that settle() takes up.
LEMMA SumStep ==
  ASSUME Inv, Inv', QuietInv, OnceInv, SumInv, [Next]_vars
  PROVE  SumInv'
<1> SUFFICES ASSUME Quiet' PROVE SumInv'
  BY DEF SumInv
<1>1. /\ Quiet
      /\ pc \in PlayPcs => Paid(lastRound) = {}
      /\ pc \in SettlePcs => IsFiniteSet(Paid(at)) /\ sum = Cardinality(Paid(at))
      /\ \A r \in Rounds : roundState[r] = "SETTLED" => totalPayouts[r] = Cardinality(Paid(r))
  BY QuietStep DEF SumInv
<1>2. /\ roundState \in [Rounds -> RoundStates] /\ totalPayouts \in [Rounds -> Nat]
      /\ minted \in [Bets -> Nat] /\ betRound \in [Bets -> 0..lastRound]
      /\ lastRound \in Nat /\ pc \notin RequeuePcs \cup VoidPcs
      /\ pc \in SettlePcs => at = lastRound /\ roundState[at] # "SETTLED" /\ at \in Rounds
  <2>1. pc \in SettlePcs => at = lastRound /\ lastRound # 0 /\ ~Settled(lastRound)
    BY DEF Inv, SettleInv, DebtInv, RoundInv
  <2>2. lastRound # 0 => lastRound \in Rounds
    BY RoundsAre
  <2>3. pc \notin RequeuePcs \cup VoidPcs
    BY <1>1 DEF QuietInv
  <2> QED
    BY <2>1, <2>2, <2>3 DEF Inv, TypeOK, Settled
<1> HIDE DEF Rounds
<1>3. CASE /\ UNCHANGED <<betRound, minted, lastRound, roundState, totalPayouts, at, sum>>
           /\ pc' = pc \/ pc' \notin PlayPcs \cup SettlePcs
  <2>1. \A r : Paid(r)' = Paid(r)
    BY <1>3 DEF Paid
  <2> QED
    BY <1>1, <1>3, <2>1 DEF SumInv
<1>4. CASE /\ UNCHANGED <<betRound, minted, lastRound, roundState, totalPayouts, at, sum>>
           /\ \/ pc \in PlayPcs /\ pc' \in PlayPcs
              \/ pc \in SettlePcs /\ pc' \in SettlePcs
  <2>1. \A r : Paid(r)' = Paid(r)
    BY <1>4 DEF Paid
  <2> QED
    BY <1>1, <1>4, <2>1 DEF SumInv
<1>5. ASSUME NEW b \in Bets, PlaceBet(b) PROVE SumInv'
  <2>1. /\ pc = "betting" /\ hpc[b] = "idle" /\ betRound' = [betRound EXCEPT ![b] = lastRound]
        /\ UNCHANGED <<minted, lastRound, roundState, totalPayouts, at, sum, pc>>
    BY <1>5 DEF PlaceBet, Handler
  <2>2. minted[b] = 0
    <3>1. betStatus[b] = "NONE"
      BY <2>1 DEF Inv, HandlerInv
    <3> QED
      BY <1>1, <2>1, <3>1, NotMinted
  <2>3. \A r : Paid(r)' = Paid(r)
    BY <1>2, <2>1, <2>2 DEF Paid
  <2> QED
    BY <1>1, <2>1, <2>3 DEF SumInv
<1>6. ASSUME NEW b \in Bets, GateRejects(b) \/ HandlerStep(b) PROVE SumInv'
  BY <1>3, <1>6 DEF GateRejects, HandlerStep, CreateBet, BetOk, BetRefused, BetUncertain,
     AcceptBet, HoldBet, CountBet, RejectBet, RejectUncertain, EnqueueRollback
<1>7. CASE CreateRound
  <2>1. /\ lastRound' = lastRound + 1 /\ pc' = "count" /\ lastRound' \in Rounds
        /\ roundState' = [roundState EXCEPT ![lastRound'] = "BETTING_OPEN"]
        /\ UNCHANGED <<betRound, minted, totalPayouts>>
    BY <1>2, <1>7 DEF CreateRound, Loop, Rounds
  <2>2. \A r : Paid(r)' = Paid(r)
    BY <2>1 DEF Paid
  <2>3. Paid(lastRound') = {}
    BY <1>2, <2>1 DEF Paid
  <2> QED
    BY <1>1, <1>2, <2>1, <2>2, <2>3 DEF SumInv
<1>8. CASE StoreRolling \/ \E o \in Outcomes : Reveal(o)
  <2>1. /\ pc \in PlayPcs /\ pc' \in PlayPcs
        /\ \E s \in {"ROLLING", "RESULT"} : roundState' = [roundState EXCEPT ![lastRound] = s]
        /\ UNCHANGED <<betRound, minted, lastRound, totalPayouts, at, sum>>
    BY <1>8 DEF StoreRolling, Reveal, Loop
  <2>2. \A r : Paid(r)' = Paid(r)
    BY <2>1 DEF Paid
  <2>3. \A r \in Rounds : roundState'[r] = "SETTLED" => roundState[r] = "SETTLED"
    BY <1>2, <2>1
  <2> QED
    BY <1>1, <2>1, <2>2, <2>3 DEF SumInv
<1>9. CASE Snapshot
  <2>1. /\ pc \in PlayPcs /\ pc' = "settling" /\ at' = lastRound /\ sum' = 0
        /\ UNCHANGED <<betRound, minted, lastRound, roundState, totalPayouts>>
    BY <1>9 DEF Snapshot, Loop
  <2>2. \A r : Paid(r)' = Paid(r)
    BY <2>1 DEF Paid
  <2> QED
    BY <1>1, <2>1, <2>2, FS_EmptySet DEF SumInv
<1>10. ASSUME NEW b \in Bets, StartWin(b) PROVE SumInv'
  <2>1. /\ pc = "settling" /\ pc' = "paying" /\ b \in work /\ sum' = sum + 1
        /\ minted' = [minted EXCEPT ![b] = @ + 1]
        /\ UNCHANGED <<betRound, lastRound, roundState, totalPayouts, at>>
    BY <1>10 DEF StartWin, Loop
  <2>2. betRound[b] = at /\ minted[b] = 0
    <3>1. betRound[b] = at /\ betStatus[b] = "ACCEPTED"
      BY <2>1 DEF Inv, SettleInv
    <3> QED
      BY <1>1, <2>1, <3>1, NotMinted
  <2>3. b \notin Paid(at) /\ Paid(at)' = Paid(at) \cup {b}
    BY <1>2, <2>1, <2>2 DEF Paid
  <2>4. \A r \in Rounds : r # at => Paid(r)' = Paid(r)
    BY <1>2, <2>1, <2>2 DEF Paid
  <2>5. IsFiniteSet(Paid(at)') /\ Cardinality(Paid(at)') = sum'
    <3>1. IsFiniteSet(Paid(at)) /\ Cardinality(Paid(at)) = sum
      BY <1>1, <2>1
    <3> HIDE DEF Paid
    <3>2. IsFiniteSet(Paid(at) \cup {b}) /\ Cardinality(Paid(at) \cup {b}) = Cardinality(Paid(at)) + 1
      BY <2>3, <3>1, FS_AddElement
    <3> QED
      BY <2>1, <2>3, <3>1, <3>2
  <2>6. \A r \in Rounds : roundState'[r] = "SETTLED" => totalPayouts'[r] = Cardinality(Paid(r)')
    BY <1>1, <1>2, <2>1, <2>4
  <2> QED
    BY <2>1, <2>5, <2>6 DEF SumInv
<1>11. CASE CloseRound
  <2>1. /\ pc = "settling" /\ pc' = "cooldown"
        /\ roundState' = [roundState EXCEPT ![at] = "SETTLED"]
        /\ totalPayouts' = [totalPayouts EXCEPT ![at] = sum]
        /\ UNCHANGED <<betRound, minted, lastRound>>
    BY <1>11 DEF CloseRound, SettleRound, Loop
  <2>2. \A r : Paid(r)' = Paid(r)
    BY <2>1 DEF Paid
  <2>3. sum = Cardinality(Paid(at))
    BY <1>1, <2>1
  <2>4. \A r \in Rounds : \/ r # at /\ roundState'[r] = roundState[r]
                                    /\ totalPayouts'[r] = totalPayouts[r]
                          \/ r = at /\ totalPayouts'[r] = sum
    BY <1>2, <2>1
  <2>5. \A r \in Rounds : roundState'[r] = "SETTLED" => totalPayouts'[r] = Cardinality(Paid(r)')
    BY <1>1, <2>2, <2>3, <2>4
  <2> QED
    BY <2>1, <2>5 DEF SumInv
<1>12. CASE CountNonce \/ CloseBetting \/ ReleaseSettled \/ EnqueueWin
  BY <1>4, <1>12 DEF CountNonce, CloseBetting, ReleaseSettled, EnqueueWin, Loop
<1>13. CASE WinConfirmed \/ WinUncertain \/ \E b \in Bets : SettleLoss(b)
  BY <1>4, <1>13 DEF WinConfirmed, WinUncertain, SaveWin, SettleLoss, Loop
<1>14. CASE Start \/ FinishResume \/ FinishCooldown
  BY <1>3, <1>14 DEF Start, FinishResume, FinishCooldown, Loop
<1>15. CASE Exit
  <2>1. pc' = "down" /\ UNCHANGED <<betRound, minted, lastRound, roundState, totalPayouts>>
    BY <1>15 DEF Exit, ProcessEnds
  <2>2. \A r : Paid(r)' = Paid(r)
    BY <2>1 DEF Paid
  <2> QED
    BY <1>1, <2>1, <2>2 DEF SumInv
<1>16. ~( \/ CloseResumed \/ CloseVoided \/ ReleaseRequeued \/ SaveRequeued \/ ReadVoided
          \/ RefundRegister \/ EnqueueRefund
          \/ \E b \in Bets : RequeueLost(b) \/ RequeueWin(b) \/ VoidBet(b))
  BY <1>2 DEF CloseResumed, CloseVoided, ReleaseRequeued, SaveRequeued, ReadVoided,
     RefundRegister, EnqueueRefund, RequeueLost, RequeueWin, VoidBet, Loop
<1>17. ~ \E r \in Rounds : ResumeKnown(r) \/ VoidRound(r)
  BY <1>1 DEF ResumeKnown, VoidRound, QuietInv
<1>18. CASE WalletStep \/ JobStep \/ Stop \/ UNCHANGED vars
  BY <1>3, <1>18 DEF WalletStep, JobStep, WalletCredits, WalletDebits, DeliverLate,
     WinJobDelivered, WinJobDone, RollbackDelivered, RollbackDone, Stop, vars
<1> QED
  BY <1>5, <1>6, <1>7, <1>8, <1>9, <1>10, <1>11, <1>12, <1>13, <1>14, <1>15, <1>16, <1>17, <1>18,
     QuietStep DEF EngineStep

\* A step that changes neither who is done nor whether a bet stands counts nothing.
LEMMA CountedSame ==
  ASSUME CountInv, Quiet, stops = 0,
         \A r \in Rounds : Counted(r)' = Counted(r), UNCHANGED totalBets,
         pc' \in LoopPcs => running', pc' # "stopped",
         pc' = "down" => \A b \in Bets : hpc'[b] = "idle",
         \A b \in Bets : hpc'[b] \in {"hold", "count"} => betStatus'[b] \in Standing
  PROVE  CountInv'
BY DEF CountInv

\* The steps of one handler: only the last one of an accepted bet counts it.
LEMMA CountHandler ==
  ASSUME Inv, CountInv, Quiet, stops = 0, NEW b \in Bets,
         PlaceBet(b) \/ GateRejects(b) \/ HandlerStep(b)
  PROVE  CountInv'
<1>1. /\ hpc \in [Bets -> HandlerPcs] /\ betStatus \in [Bets -> BetStatuses]
      /\ betRound \in [Bets -> 0..lastRound] /\ totalBets \in [Rounds -> Nat]
      /\ hpc[b] # "idle" => betRound[b] \in Rounds
  BY RoundsAre DEF Inv, TypeOK
<1>2. /\ pc \in LoopPcs => running
      /\ pc # "stopped" /\ (pc = "down" => \A c \in Bets : hpc[c] = "idle")
      /\ \A c \in Bets : hpc[c] \in {"hold", "count"} => betStatus[c] \in Standing
      /\ \A r \in Rounds : IsFiniteSet(Counted(r)) /\ totalBets[r] = Cardinality(Counted(r))
  BY DEF CountInv
<1> HIDE DEF Rounds
<1>3. /\ hpc[b] = "gating" => betStatus[b] = "NONE"
      /\ hpc[b] = "refused" => betStatus[b] = "PENDING"
      /\ hpc[b] = "rollback" => betStatus[b] = "REJECTED"
  BY DEF Inv, HandlerInv
<1>4. /\ UNCHANGED <<pc, running>>
      /\ hpc[b] = "idle" => pc = "betting"
  BY DEF PlaceBet, GateRejects, HandlerStep, CreateBet, BetOk, BetRefused, BetUncertain,
     AcceptBet, HoldBet, CountBet, RejectBet, RejectUncertain, EnqueueRollback, Handler
<1>5. \E from, to \in HandlerPcs : Handler(b, from, to)
  BY DEF PlaceBet, GateRejects, HandlerStep, CreateBet, BetOk, BetRefused, BetUncertain,
     AcceptBet, HoldBet, CountBet, RejectBet, RejectUncertain, EnqueueRollback
<1>6. pc' = "down" => \A c \in Bets : hpc'[c] = "idle"
  BY <1>2, <1>4, <1>5 DEF Handler
<1>7. CASE CountBet(b)
  <2>1. /\ hpc[b] = "count" /\ hpc' = [hpc EXCEPT ![b] = "done"]
        /\ totalBets' = [totalBets EXCEPT ![betRound[b]] = @ + 1]
        /\ UNCHANGED <<betRound, betStatus, stops, crashes, faults>>
    BY <1>7 DEF CountBet, Handler
  <2>2. /\ b \notin Counted(betRound[b])
        /\ Counted(betRound[b])' = Counted(betRound[b]) \cup {b}
    BY <1>1, <1>2, <2>1 DEF Counted
  <2>3. \A r \in Rounds : r # betRound[b] => Counted(r)' = Counted(r)
    BY <1>1, <2>1 DEF Counted
  <2>4. betRound[b] \in Rounds /\ \A r \in Rounds :
           totalBets'[r] = IF r = betRound[b] THEN totalBets[r] + 1 ELSE totalBets[r]
    BY <1>1, <2>1
  <2>5. IsFiniteSet(Counted(betRound[b]) \cup {b})
        /\ Cardinality(Counted(betRound[b]) \cup {b}) = totalBets'[betRound[b]]
    <3> HIDE DEF Counted
    <3>1. /\ IsFiniteSet(Counted(betRound[b]))
          /\ Cardinality(Counted(betRound[b])) = totalBets[betRound[b]]
      BY <1>2, <2>4
    <3>2. /\ IsFiniteSet(Counted(betRound[b]) \cup {b})
          /\ Cardinality(Counted(betRound[b]) \cup {b}) = Cardinality(Counted(betRound[b])) + 1
      BY <2>2, <3>1, FS_AddElement
    <3> QED
      BY <2>4, <3>1, <3>2
  <2>6. \A r \in Rounds : IsFiniteSet(Counted(r)') /\ totalBets'[r] = Cardinality(Counted(r)')
    <3>1. ASSUME NEW r \in Rounds, r = betRound[b]
          PROVE  IsFiniteSet(Counted(r)') /\ totalBets'[r] = Cardinality(Counted(r)')
      BY <2>1, <2>2, <2>5, <3>1 DEF Counted
    <3>2. ASSUME NEW r \in Rounds, r # betRound[b]
          PROVE  IsFiniteSet(Counted(r)') /\ totalBets'[r] = Cardinality(Counted(r)')
      BY <1>2, <2>3, <2>4, <3>2
    <3> QED
      BY <3>1, <3>2
  <2>7. \A c \in Bets : hpc'[c] \in {"hold", "count"} => betStatus'[c] \in Standing
    BY <1>1, <1>2, <2>1
  <2> QED
    BY <1>2, <1>4, <1>6, <2>6, <2>7 DEF CountInv
<1>8. ASSUME ~CountBet(b)
      PROVE  /\ UNCHANGED totalBets
             /\ \A c \in Bets : hpc'[c] \in {"hold", "count"} => betStatus'[c] \in Standing
             /\ \A r \in Rounds : Counted(r)' = Counted(r)
  <2>1. CASE PlaceBet(b) \/ GateRejects(b)
    BY <1>1, <1>2, <1>3, <2>1 DEF PlaceBet, GateRejects, Handler, Counted, Standing
  <2>2. CASE CreateBet(b) \/ RejectUncertain(b)
    BY <1>1, <1>2, <2>2 DEF CreateBet, RejectUncertain, Handler, SetBet, Counted, Standing
  <2>3. CASE BetOk(b) \/ BetRefused(b) \/ BetUncertain(b) \/ HoldBet(b)
    BY <1>1, <1>2, <2>3 DEF BetOk, BetRefused, BetUncertain, HoldBet, Handler, Counted
  <2>4. CASE AcceptBet(b)
    BY <1>1, <1>2, <2>4 DEF AcceptBet, Handler, SetBet, Counted, Standing
  <2>5. CASE RejectBet(b) \/ EnqueueRollback(b)
    BY <1>1, <1>2, <1>3, <2>5
       DEF RejectBet, EnqueueRollback, Handler, SetBet, Counted, Standing
  <2> QED
    BY <1>8, <2>1, <2>2, <2>3, <2>4, <2>5 DEF HandlerStep
<1> QED
  BY <1>2, <1>4, <1>6, <1>7, <1>8, CountedSame

\* Nothing but a shutdown counts as one.
LEMMA StopsStep == ASSUME [Next]_vars PROVE Stop \/ UNCHANGED stops
<1>1. ASSUME NEW b \in Bets, PlaceBet(b) \/ GateRejects(b) \/ HandlerStep(b)
      PROVE  UNCHANGED stops
  BY <1>1 DEF PlaceBet, GateRejects, HandlerStep, CreateBet, BetOk, BetRefused, BetUncertain,
     AcceptBet, HoldBet, CountBet, RejectBet, RejectUncertain, EnqueueRollback
<1>2. CASE EngineStep
  BY <1>2 DEF EngineStep, Start, ResumeKnown, RequeueLost, ReleaseRequeued, RequeueWin,
     SaveRequeued, CloseResumed, VoidRound, ReadVoided, VoidBet, RefundRegister,
     EnqueueRefund, CloseVoided, FinishResume, CreateRound, CountNonce, CloseBetting,
     StoreRolling, Reveal, Snapshot, SettleLoss, ReleaseSettled, StartWin, WinConfirmed,
     WinUncertain, SaveWin, EnqueueWin, CloseRound, FinishCooldown, Exit
<1>3. CASE WalletStep \/ JobStep \/ UNCHANGED vars
  BY <1>3 DEF WalletStep, JobStep, WalletCredits, WalletDebits, DeliverLate,
     WinJobDelivered, WinJobDone, RollbackDelivered, RollbackDone, vars
<1>4. CASE Crash \/ LoopError \/ StartError \/ \E b \in Bets : HandlerError(b)
  BY <1>4 DEF Crash, LoopError, StartError, HandlerError
<1> QED
  BY <1>1, <1>2, <1>3, <1>4 DEF Next, Failure, BoundReached

\* The loop changes the status of bets that stand, and they go on standing.
LEMMA CountStep ==
  ASSUME Inv, QuietInv, CountInv, [Next]_vars
  PROVE  CountInv'
<1> SUFFICES ASSUME Quiet', stops' = 0 PROVE CountInv'
  BY DEF CountInv
<1>1. Quiet /\ stops = 0
  <2>1. stops \in Nat
    BY DEF Inv, TypeOK
  <2>2. stops' = stops \/ stops' = stops + 1
    BY StopsStep DEF Stop
  <2> QED
    BY <2>1, <2>2, QuietStep
<1>2. /\ pc \in LoopPcs => running
      /\ pc # "stopped" /\ (pc = "down" => \A c \in Bets : hpc[c] = "idle")
      /\ \A c \in Bets : hpc[c] \in {"hold", "count"} => betStatus[c] \in Standing
  BY <1>1 DEF CountInv
<1>3. /\ betStatus \in [Bets -> BetStatuses] /\ pc \notin RequeuePcs \cup VoidPcs
      /\ pc = "paying" => cur \in Bets /\ betStatus[cur] = "ACCEPTED"
      /\ pc = "settling" => \A b \in work : betStatus[b] = "ACCEPTED"
  BY <1>1 DEF Inv, TypeOK, QuietInv, SettleInv
<1> HIDE DEF Rounds
<1>4. CASE /\ UNCHANGED <<betRound, hpc, betStatus, totalBets>>
           /\ pc' = pc /\ running' = running
  <2>1. \A r : Counted(r)' = Counted(r)
    BY <1>4 DEF Counted
  <2> QED
    BY <1>1, <1>2, <1>4, <2>1, CountedSame
<1>5. CASE /\ UNCHANGED <<betRound, hpc, betStatus, totalBets>>
           /\ pc' \notin {"down", "stopped"}
           /\ pc' \in LoopPcs => running'
  <2>1. \A r : Counted(r)' = Counted(r)
    BY <1>5 DEF Counted
  <2> QED
    BY <1>1, <1>2, <1>5, <2>1, CountedSame
<1>6. ASSUME NEW b \in Bets, NEW s \in Standing, betStatus[b] = "ACCEPTED", SetBet(b, s),
             UNCHANGED <<betRound, hpc, totalBets, running>>, pc \in LoopPcs, pc' \in LoopPcs
      PROVE  CountInv'
  <2>1. \A r : Counted(r)' = Counted(r)
    BY <1>3, <1>6 DEF Counted, SetBet, Standing
  <2>2. \A c \in Bets : hpc'[c] \in {"hold", "count"} => betStatus'[c] \in Standing
    BY <1>2, <1>3, <1>6 DEF SetBet
  <2> QED
    BY <1>1, <1>2, <1>6, <2>1, <2>2, CountedSame
<1>7. ASSUME NEW b \in Bets, SettleLoss(b) PROVE CountInv'
  <2>1. /\ betStatus[b] = "ACCEPTED" /\ SetBet(b, "SETTLED")
        /\ pc \in LoopPcs /\ pc' \in LoopPcs
        /\ UNCHANGED <<betRound, hpc, totalBets, running>>
    BY <1>3, <1>7 DEF SettleLoss, Loop
  <2> QED
    BY <1>6, <2>1 DEF Standing
<1>8. CASE WinConfirmed \/ WinUncertain
  <2>1. /\ cur \in Bets /\ betStatus[cur] = "ACCEPTED"
        /\ SetBet(cur, "SETTLED") \/ SetBet(cur, "FAILED")
        /\ pc \in LoopPcs /\ pc' \in LoopPcs
        /\ UNCHANGED <<betRound, hpc, totalBets, running>>
    BY <1>3, <1>8 DEF WinConfirmed, WinUncertain, SaveWin, Loop
  <2> QED
    BY <1>6, <2>1 DEF Standing
<1>9. CASE Start \/ FinishResume
  BY <1>5, <1>9 DEF Start, FinishResume, Loop
<1>10. CASE CreateRound \/ CountNonce \/ CloseBetting \/ StoreRolling
            \/ (\E o \in Outcomes : Reveal(o)) \/ Snapshot
  BY <1>2, <1>5, <1>10 DEF CreateRound, CountNonce, CloseBetting, StoreRolling, Reveal, Snapshot,
     Loop
<1>11. CASE ReleaseSettled \/ EnqueueWin \/ CloseRound \/ \E b \in Bets : StartWin(b)
  BY <1>2, <1>5, <1>11 DEF ReleaseSettled, EnqueueWin, CloseRound, StartWin, Loop
<1>12. CASE FinishCooldown
  <2>1. pc = "cooldown" /\ pc' = IF running THEN "create" ELSE "stopped"
    BY <1>12 DEF FinishCooldown, Loop
  <2>2. running /\ running' = running /\ UNCHANGED <<betRound, hpc, betStatus, totalBets>>
    BY <1>2, <1>12, <2>1 DEF FinishCooldown
  <2> QED
    BY <1>5, <2>1, <2>2
<1>13. ~Exit
  BY <1>2 DEF Exit
<1>14. ~( \/ CloseResumed \/ CloseVoided \/ ReleaseRequeued \/ SaveRequeued \/ ReadVoided
          \/ RefundRegister \/ EnqueueRefund
          \/ \E b \in Bets : RequeueLost(b) \/ RequeueWin(b) \/ VoidBet(b))
  BY <1>3 DEF CloseResumed, CloseVoided, ReleaseRequeued, SaveRequeued, ReadVoided,
     RefundRegister, EnqueueRefund, RequeueLost, RequeueWin, VoidBet, Loop
<1>15. ~ \E r \in Rounds : ResumeKnown(r) \/ VoidRound(r)
  BY <1>1 DEF ResumeKnown, VoidRound, QuietInv
<1>16. ~Stop
  BY <1>1 DEF Stop
<1>17. CASE WalletStep \/ JobStep \/ UNCHANGED vars
  BY <1>4, <1>17 DEF WalletStep, JobStep, WalletCredits, WalletDebits, DeliverLate,
     WinJobDelivered, WinJobDone, RollbackDelivered, RollbackDone, vars
<1> QED
  BY <1>1, <1>7, <1>8, <1>9, <1>10, <1>11, <1>12, <1>13, <1>14, <1>15, <1>16, <1>17, CountHandler,
     QuietStep DEF EngineStep

-----------------------------------------------------------------------------
(* The theorems about runs in which nothing fails.                          *)

QuietInvs == QuietInv /\ OnceInv /\ LateInv /\ NonceInv /\ SumInv /\ CountInv

\* All of it together is inductive, whatever the bounds on failures.
LEMMA QuietInvariance == Spec => [](Inv /\ QuietInvs)
<1>1. Init => QuietInvs
  <2> SUFFICES ASSUME Init PROVE QuietInvs
    OBVIOUS
  <2> USE DEF Init
  <2>1. QuietInv /\ OnceInv /\ LateInv
    BY DEF QuietInv, OnceInv, LateInv
  <2>2. NonceInv
    BY DEF NonceInv, NoncesAreUnique
  <2>3. SumInv
    BY DEF SumInv
  <2>4. CountInv
    <3>1. \A r \in Rounds : Counted(r) = {} /\ totalBets[r] = 0
      BY DEF Counted
    <3> QED
      BY <3>1, FS_EmptySet DEF CountInv
  <2> QED
    BY <2>1, <2>2, <2>3, <2>4 DEF QuietInvs
<1>2. Inv /\ Inv' /\ QuietInvs /\ [Next]_vars => QuietInvs'
  BY QuietInvStep, OnceStep, LateStep, NonceStep, SumStep, CountStep DEF QuietInvs
<1> QED
  BY <1>1, <1>2, InitInv, NextInv, PTL DEF Spec

\* Without crashes and database errors in the bounds, none happens.
LEMMA StaysQuiet == ASSUME MaxCrashes = 0, MaxFaults = 0 PROVE Spec => []Quiet
<1>1. Init => Quiet
  BY DEF Init, Quiet
<1>2. Inv /\ Quiet /\ [Next]_vars => Quiet'
  <2> SUFFICES ASSUME Inv, Quiet, [Next]_vars PROVE Quiet'
    OBVIOUS
  <2>1. ASSUME NEW b \in Bets, PlaceBet(b) \/ GateRejects(b) \/ HandlerStep(b)
        PROVE  Quiet'
    BY <2>1 DEF PlaceBet, GateRejects, HandlerStep, CreateBet, BetOk, BetRefused, BetUncertain,
       AcceptBet, HoldBet, CountBet, RejectBet, RejectUncertain, EnqueueRollback, Quiet
  <2>2. CASE EngineStep
    BY <2>2 DEF EngineStep, Start, ResumeKnown, RequeueLost, ReleaseRequeued, RequeueWin,
       SaveRequeued, CloseResumed, VoidRound, ReadVoided, VoidBet, RefundRegister,
       EnqueueRefund, CloseVoided, FinishResume, CreateRound, CountNonce, CloseBetting,
       StoreRolling, Reveal, Snapshot, SettleLoss, ReleaseSettled, StartWin, WinConfirmed,
       WinUncertain, SaveWin, EnqueueWin, CloseRound, FinishCooldown, Exit, Quiet
  <2>3. CASE WalletStep \/ JobStep \/ UNCHANGED vars
    BY <2>3 DEF WalletStep, JobStep, WalletCredits, WalletDebits, DeliverLate,
       WinJobDelivered, WinJobDone, RollbackDelivered, RollbackDone, vars, Quiet
  <2>4. CASE Failure
    BY <2>4 DEF Failure, Stop, Crash, LoopError, StartError, HandlerError, Fault, Quiet
  <2> QED
    BY <2>1, <2>2, <2>3, <2>4 DEF Next, BoundReached
<1> QED
  BY <1>1, <1>2, Invariance, PTL DEF Spec

\* As long as no process dies and no database call throws, the operator's ledger moves
\* by the contract's steps alone: one stake, then one payment or one refund, whatever
\* the wallet answers, however late, and with any number of shutdowns.
THEOREM KeepsContractHolds ==
  ASSUME MaxCrashes = 0, MaxFaults = 0
  PROVE  Spec => KeepsContract
<1>1. Init => Contract!Init
  <2> SUFFICES ASSUME Init PROVE Contract!Init
    OBVIOUS
  <2>1. debited = {} /\ credits = {} /\ rolledBack = {}
    BY DEF Init
  <2>2. \A b \in Bets : Payments(b) = 0
    BY <2>1, FS_EmptySet DEF Payments
  <2> QED
    BY <2>1, <2>2 DEF Contract!Init, PaymentsOf
<1>2. Inv /\ Inv' /\ QuietInvs /\ QuietInvs' /\ Quiet' /\ [Next]_vars
        => [Contract!Next]_(Contract!ledger)
  BY ContractStep DEF QuietInvs
<1> QED
  BY <1>1, <1>2, QuietInvariance, StaysQuiet, PTL DEF Spec, KeepsContract, Contract!Spec

NoStop == stops = 0

\* With the failures bounded to none, what a settled round stores is true of its bets
\* and of its seeds.
THEOREM RowsAgreeHolds ==
  ASSUME MaxCrashes = 0, MaxFaults = 0, MaxStops = 0
  PROVE  Spec => []RowsAgree
<1>1. Spec => []NoStop
  <2>1. Init => NoStop
    BY DEF Init, NoStop
  <2>2. NoStop /\ [Next]_vars => NoStop'
    BY StopsStep DEF NoStop, Stop
  <2> QED
    BY <2>1, <2>2, PTL DEF Spec
<1>2. Inv /\ QuietInvs /\ Quiet /\ NoStop => RowsAgree
  <2> SUFFICES ASSUME Inv, QuietInvs, Quiet, NoStop PROVE RowsAgree
    OBVIOUS
  <2>1. NoncesAreUnique
    BY DEF QuietInvs, NonceInv
  <2>2. ASSUME NEW r \in Rounds, roundState[r] = "SETTLED",
               \A b \in Bets : betRound[b] = r => hpc[b] = "done"
        PROVE  /\ Paid(r) = {b \in Bets : betRound[b] = r /\ winTx[b] # 0}
               /\ Counted(r) = {b \in Bets : betRound[b] = r /\ betStatus[b] \in Standing}
    <3>1. pc = "paying" => cur \in Bets /\ betRound[cur] = lastRound /\ r # lastRound
      BY <2>2 DEF Inv, SettleInv, DebtInv, Settled
    <3>2. \A b \in Bets : betRound[b] = r => minted[b] = winTx[b]
      BY <3>1 DEF QuietInvs, OnceInv
    <3> QED
      BY <2>2, <3>2 DEF Paid, Counted
  <2>3. \A r \in Rounds : /\ roundState[r] = "SETTLED" => totalPayouts[r] = Cardinality(Paid(r))
                          /\ totalBets[r] = Cardinality(Counted(r))
    BY DEF QuietInvs, SumInv, CountInv, NoStop
  <2>4. RollupsAgree
    BY <2>2, <2>3 DEF RollupsAgree, Standing
  <2> QED
    BY <2>1, <2>4 DEF RowsAgree
<1> QED
  BY <1>1, <1>2, QuietInvariance, StaysQuiet, PTL
=============================================================================
