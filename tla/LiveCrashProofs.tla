-------------------------- MODULE LiveCrashProofs --------------------------
(* The money of a live-crash round for any bets, players, crash points,    *)
(* flight times, restarts and shutdowns.                                   *)
EXTENDS LiveCrash, FiniteSetTheorems, TLAPS

-----------------------------------------------------------------------------
(* The inductive invariant.                                                *)

\* A payment that is queued, booked, or in the hands of a caller that waits for
\* the operator or is about to queue it.
Live(j) ==
    \/ j \in winJobs \cup credits
    \/ \E c \in Callers : cpc[c] \in {"paying", "queueing"} /\ call[c] = j

\* Payments exist only in a flight that did not crash at once, and are bounded
\* by its crash point; their uuids have been generated; their bets are taken.
PayInv ==
    \A j \in Calls : Live(j) =>
        /\ point > 1 /\ j[3] \in 1..point
        /\ j[2] \in 1..minted[j[1]]
        /\ status[j[1]] \notin {"PENDING", "REJECTED"}

\* A uuid has one amount; a uuid stored without a cash-out belongs to the
\* automatic win, so that a restart repeats it with the same amount.
UuidInv ==
    /\ \A i, j \in Calls :
           Live(i) /\ Live(j) /\ i[1] = j[1] /\ i[2] = j[2] => i[3] = j[3]
    /\ \A b \in Bets : winTx[b] <= minted[b]
    /\ \A j \in Calls :
           Live(j) /\ j[2] = winTx[j[1]] /\ cashMult[j[1]] = 0 => j[3] = Target[j[1]]

\* What a caller carries across an await.
CallerInv ==
    /\ cpc[Loop] # "idle" => lpc \in {"auto", "settling"}
    /\ cpc[Loop] = "reading" => lpc = "auto" /\ Target[BetOf(Loop)] # None
    /\ cpc[Loop] = "paying" /\ lpc = "settling" => MultOf(Loop) = Target[BetOf(Loop)]
    /\ \A c \in Callers :
           cpc[c] = "releasing" /\ ~Settling(c) => call[c] \in credits

\* What the loop has read: bets that were accepted, or have a target.
ReadInv ==
    /\ \A b \in work : status[b] \notin {"PENDING", "REJECTED"}
    /\ \A b \in autos : Target[b] # None
    /\ lpc = "betting" => point = 0

Inv == TypeOK /\ PayInv /\ UuidInv /\ CallerInv /\ ReadInv /\ AnnouncedIsOwed

-----------------------------------------------------------------------------
(* Lemmas about the curve and about what one step does to the payments.    *)

USE BetsAssumption, FlightAssumption
USE DEF Callers, Calls, rows, database, clock, looping, callers

\* The least of two numbers is one of them and not above either.
LEMMA LeastOfTwo ==
  ASSUME NEW a \in Nat, NEW b \in Nat
  PROVE  Least({a, b}) \in {a, b} /\ Least({a, b}) <= a /\ Least({a, b}) <= b
<1>1. \E m \in {a, b} : \A n \in {a, b} : m <= n
  <2>1. CASE a <= b
    BY <2>1
  <2>2. CASE b <= a
    BY <2>2
  <2> QED BY <2>1, <2>2
<1> QED BY <1>1 DEF Least

\* So is the least of three.
LEMMA LeastOfThree ==
  ASSUME NEW a \in Nat, NEW b \in Nat, NEW d \in Nat
  PROVE  /\ Least({a, b} \cup {d}) \in {a, b, d}
         /\ Least({a, b} \cup {d}) <= a /\ Least({a, b} \cup {d}) <= b
<1>1. \E m \in {a, b} \cup {d} : \A n \in {a, b} \cup {d} : m <= n
  <2>1. CASE a <= b /\ a <= d
    BY <2>1
  <2>2. CASE b <= a /\ b <= d
    BY <2>2
  <2>3. CASE d <= a /\ d <= b
    BY <2>3
  <2> QED BY <2>1, <2>2, <2>3
<1> QED BY <1>1 DEF Least

\* The displayed multiplier is at least 1.00x.
LEMMA CurveStartsAtOne ==
  ASSUME NEW t \in Nat, Points # {}
  PROVE  MultAt(t) \in Nat \ {0}
<1>1. MaxMult \in Nat \ {0}
  <2>1. PICK p \in Points : TRUE
    OBVIOUS
  <2>2. p \in 1..MaxMult
    BY <2>1
  <2> QED BY <2>2
<1>2. 1 + t \in Nat \ {0}
  OBVIOUS
<1>3. Least({MaxMult, 1 + t}) \in {MaxMult, 1 + t}
  BY <1>1, <1>2, LeastOfTwo
<1> QED BY <1>1, <1>2, <1>3 DEF MultAt

\* A cash-out in time pays at least 1.00x and at most the crash multiplier.
LEMMA PaysIsBounded ==
  ASSUME TypeOK, CallerInv, NEW c \in Callers, cpc[c] = "reading", InTime
  PROVE  Pays(c) \in 1..point /\ point > 1
<1>1. point \in Points /\ point \in Nat /\ point > 1
  BY DEF TypeOK, InTime
<1>2. MultAt(elapsed) \in Nat \ {0}
  BY <1>1, CurveStartsAtOne DEF TypeOK
<1>3. CASE c = Loop
  <2>1. Target[BetOf(Loop)] \in Nat \ {0, 1}
    BY <1>3 DEF TypeOK, CallerInv, BetOf
  <2>2. Pays(c) = Least({MultAt(elapsed), point} \cup {Target[BetOf(Loop)]})
    BY <1>3 DEF Pays
  <2>3. /\ Pays(c) \in {MultAt(elapsed), point, Target[BetOf(Loop)]}
        /\ Pays(c) <= point
    BY <1>1, <1>2, <2>1, <2>2, LeastOfThree
  <2> QED BY <1>1, <1>2, <2>1, <2>3
<1>4. CASE c # Loop
  <2>1. Pays(c) = Least({MultAt(elapsed), point})
    <3>1. {MultAt(elapsed), point} \cup {} = {MultAt(elapsed), point}
      OBVIOUS
    <3> QED BY <1>4, <3>1 DEF Pays
  <2>2. Pays(c) \in {MultAt(elapsed), point} /\ Pays(c) <= point
    BY <1>1, <1>2, <2>1, LeastOfTwo
  <2> QED BY <1>1, <1>2, <2>2
<1> QED BY <1>3, <1>4

\* What the payments depend on.
money == <<status, winTx, cashMult, winJobs, credits, point, cpc, call, minted,
           announced>>

\* A step that leaves all of it alone preserves what is said about it.
LEMMA MoneyUnchanged ==
  ASSUME Inv, UNCHANGED money
  PROVE  PayInv' /\ UuidInv' /\ AnnouncedIsOwed'
<1>1. \A j : Live(j)' <=> Live(j)
  BY DEF money, Live
<1>2. PayInv'
  BY <1>1 DEF Inv, PayInv, money
<1>3. UuidInv'
  BY <1>1 DEF Inv, UuidInv, money
<1> QED BY <1>2, <1>3 DEF Inv, AnnouncedIsOwed, money

\* Nor does a step that only makes payments fewer, or moves them between the
\* callers, the queue and the books, and takes no bet back.
LEMMA MoneyKept ==
  ASSUME Inv, \A j \in Calls : Live(j)' => Live(j),
         UNCHANGED <<winTx, cashMult, point, minted>>,
         \A b \in Bets : status[b] \notin {"PENDING", "REJECTED"}
                            => status'[b] \notin {"PENDING", "REJECTED"}
  PROVE  PayInv' /\ UuidInv'
<1>1. PayInv'
  BY DEF Inv, PayInv
<1>2. UuidInv'
  BY DEF Inv, UuidInv
<1> QED BY <1>1, <1>2

-----------------------------------------------------------------------------
(* One lemma per action, or per group of actions alike: the invariant is   *)
(* preserved.                                                              *)

USE DEF LoopPcs, CallerPcs

LEMMA NoCallIsACall == NoCall \in Calls
<1> QED BY DEF NoCall

\* The round begins with nothing paid.
LEMMA InitInv == Init => Inv
<1> SUFFICES ASSUME Init PROVE Inv
  OBVIOUS
<1>1. TypeOK
  BY NoCallIsACall DEF Init, TypeOK
<1>2. \A j : ~Live(j)
  BY DEF Init, Live
<1>3. PayInv /\ UuidInv
  BY <1>2 DEF Init, PayInv, UuidInv
<1>4. CallerInv /\ ReadInv /\ AnnouncedIsOwed
  BY DEF Init, CallerInv, ReadInv, AnnouncedIsOwed
<1> QED BY <1>1, <1>3, <1>4 DEF Inv

\* The loop between its reads and writes of the round, and time.
LEMMA QuietStep ==
  ASSUME Inv,
         Tick \/ StoreRolling \/ Climb \/ ReadAutos \/ NextTurn \/ Land
           \/ StoreResult \/ Snapshot \/ CloseRound \/ Stop
  PROVE  Inv'
<1> USE DEF Inv, Tick, StoreRolling, Climb, ReadAutos, NextTurn, Land,
            StoreResult, Snapshot, CloseRound, Stop, Go
<1>1. UNCHANGED money
  BY DEF money
<1>2. PayInv' /\ UuidInv' /\ AnnouncedIsOwed'
  BY <1>1, MoneyUnchanged
<1>3. MultAt(elapsed) \in Nat
  <2>1. elapsed \in Nat /\ MaxMult \in Nat
    BY DEF TypeOK
  <2> QED BY <2>1, LeastOfTwo DEF MultAt
<1>4. TypeOK'
  <2>1. CASE Tick
    <3>1. elapsed' \in 0..MaxTime
      BY <2>1 DEF TypeOK
    <3> QED BY <2>1, <3>1 DEF TypeOK
  <2>6. CASE StoreRolling \/ Stop
    BY ZenonT(60), <2>6 DEF TypeOK
  <2>2. CASE Climb
    BY <1>3, <2>2 DEF TypeOK
  <2>3. CASE ReadAutos \/ NextTurn
    BY <2>3 DEF TypeOK
  <2>4. CASE Land \/ StoreResult
    BY <2>4 DEF TypeOK
  <2>5. CASE Snapshot \/ CloseRound
    BY <2>5 DEF TypeOK
  <2> QED BY <2>1, <2>2, <2>3, <2>4, <2>5, <2>6
<1>5. CallerInv'
  BY DEF CallerInv, Settling, BetOf, MultOf
<1>6. ReadInv'
  BY DEF ReadInv, Wins
<1> QED BY <1>2, <1>4, <1>5, <1>6

\* An answer of placeBet takes no paid bet back: the bet was pending.
LEMMA AnswerBetInv ==
  ASSUME Inv, NEW b \in Bets, AnswerBet(b)
  PROVE  Inv'
<1> USE DEF Inv, AnswerBet
<1>1. TypeOK'
  BY DEF TypeOK
<1>2. \A j : Live(j)' => Live(j)
  BY DEF Live
<1>3. \A a \in Bets : status[a] \notin {"PENDING", "REJECTED"}
                        => status'[a] \notin {"PENDING", "REJECTED"}
  BY DEF TypeOK
<1>4. PayInv' /\ UuidInv'
  BY <1>2, <1>3, MoneyKept
<1>5. CallerInv' /\ ReadInv' /\ AnnouncedIsOwed'
  BY <1>3 DEF CallerInv, ReadInv, AnnouncedIsOwed, Settling, BetOf, MultOf
<1> QED BY <1>1, <1>4, <1>5

\* Nothing is paid before the flight, so any crash point will do.
LEMMA LaunchInv ==
  ASSUME Inv, NEW m \in Points, Launch(m)
  PROVE  Inv'
<1> USE DEF Inv, Launch, Go
<1>1. point = 0
  BY DEF ReadInv
<1>2. TypeOK'
  BY <1>1 DEF TypeOK
<1>3. \A j \in Calls : ~Live(j)
  BY <1>1 DEF PayInv
<1>4. \A j \in Calls : ~Live(j)'
  BY <1>3 DEF Live
<1>5. PayInv'
  BY <1>4 DEF PayInv
<1>6. UuidInv'
  BY <1>4 DEF UuidInv
<1>7. CallerInv' /\ ReadInv' /\ AnnouncedIsOwed'
  BY DEF CallerInv, ReadInv, AnnouncedIsOwed, Settling, BetOf, MultOf
<1> QED BY <1>2, <1>5, <1>6, <1>7

\* A caller that begins has paid nothing yet.
LEMMA BeginInv ==
  ASSUME Inv, (\E h \in Handlers : CashOut(h)) \/ (\E b \in Bets : AutoCashOut(b))
  PROVE  Inv'
<1> USE DEF Inv, Step
<1>1. CASE \E h \in Handlers : CashOut(h)
  <2>1. PICK h \in Handlers : CashOut(h)
    BY <1>1
  <2> USE <2>1 DEF CashOut
  <2>2. TypeOK'
    BY DEF TypeOK
  <2>3. \A j : Live(j)' => Live(j)
    BY DEF Live, TypeOK
  <2>4. PayInv' /\ UuidInv'
    BY <2>3, MoneyKept
  <2>5. CallerInv'
    BY DEF CallerInv, Settling, BetOf, MultOf, TypeOK
  <2>6. ReadInv' /\ AnnouncedIsOwed'
    BY DEF ReadInv, AnnouncedIsOwed
  <2> QED BY <2>2, <2>4, <2>5, <2>6
<1>2. CASE \E b \in Bets : AutoCashOut(b)
  <2>1. PICK b \in Bets : AutoCashOut(b)
    BY <1>2
  <2> USE <2>1 DEF AutoCashOut
  <2>2. TypeOK'
    BY DEF TypeOK
  <2>3. \A j : Live(j)' => Live(j)
    BY DEF Live, TypeOK
  <2>4. PayInv' /\ UuidInv'
    BY <2>3, MoneyKept
  <2>5. CallerInv'
    <3>1. Target[b] # None
      BY DEF ReadInv
    <3>2. call'[Loop] = <<b, 0, 0>> /\ cpc'[Loop] = "reading"
      BY DEF TypeOK
    <3>3. \A c \in Callers : c # Loop => cpc'[c] = cpc[c] /\ call'[c] = call[c]
      BY DEF TypeOK
    <3> QED BY <3>1, <3>2, <3>3 DEF CallerInv, Settling, BetOf, MultOf
  <2>6. ReadInv' /\ AnnouncedIsOwed'
    BY DEF ReadInv, AnnouncedIsOwed
  <2> QED BY <2>2, <2>4, <2>5, <2>6
<1> QED BY <1>1, <1>2

\* A caller that is turned down, has told the player, or dies.
LEMMA EndInv ==
  ASSUME Inv, (\E c \in Callers : Decline(c) \/ Finish(c)) \/ Crash
  PROVE  Inv'
<1> USE DEF Inv, Return, Step
<1>1. CASE \E c \in Callers : Decline(c) \/ Finish(c)
  <2>1. PICK c \in Callers : Decline(c) \/ Finish(c)
    BY <1>1
  <2> USE <2>1 DEF Decline, Finish, Tell
  <2>2. TypeOK'
    <3>1. call[c] \in Calls
      BY DEF TypeOK
    <3> QED BY <3>1, NoCallIsACall DEF TypeOK
  <2>3. \A j : Live(j)' => Live(j)
    BY DEF Live, TypeOK
  <2>4. PayInv' /\ UuidInv'
    BY <2>3, MoneyKept
  <2>5. /\ cpc'[c] = "idle"
        /\ \A d \in Callers : d # c => cpc'[d] = cpc[d] /\ call'[d] = call[d]
    BY DEF TypeOK
  <2>6. CallerInv'
    BY <2>5 DEF CallerInv, Settling, BetOf, MultOf
  <2>7. AnnouncedIsOwed'
    BY DEF CallerInv, AnnouncedIsOwed, Settling
  <2>8. ReadInv'
    BY DEF ReadInv
  <2> QED BY <2>2, <2>4, <2>6, <2>7, <2>8
<1>2. CASE Crash
  <2> USE <1>2 DEF Crash
  <2>1. TypeOK'
    <3>1. /\ cpc' \in [Callers -> CallerPcs]
          /\ call' \in [Callers -> Calls]
      BY NoCallIsACall
    <3>2. crashes' \in 0..MaxCrashes /\ elapsed' \in 0..MaxTime /\ seen' \in Nat
      BY DEF TypeOK
    <3> QED BY <3>1, <3>2 DEF TypeOK
  <2>2. \A j : Live(j)' => Live(j)
    BY DEF Live
  <2>3. PayInv' /\ UuidInv'
    BY <2>2, MoneyKept
  <2>4. CallerInv' /\ ReadInv' /\ AnnouncedIsOwed'
    BY DEF CallerInv, ReadInv, AnnouncedIsOwed
  <2> QED BY <2>1, <2>3, <2>4
<1> QED BY <1>1, <1>2

\* The operator books, or the queue closes, a payment that was live before.
LEMMA BookInv ==
  ASSUME Inv,
         (\E c \in Callers : WalletCredits(c)) \/ (\E j \in winJobs : WinJobDone(j))
  PROVE  Inv'
<1> USE DEF Inv
<1>1. CASE \E c \in Callers : WalletCredits(c)
  <2>1. PICK c \in Callers : WalletCredits(c)
    BY <1>1
  <2> USE <2>1 DEF WalletCredits
  <2>2. TypeOK'
    BY DEF TypeOK
  <2>3. \A j : Live(j)' => Live(j)
    BY DEF Live
  <2>4. PayInv' /\ UuidInv'
    BY <2>3, MoneyKept
  <2>5. CallerInv' /\ ReadInv' /\ AnnouncedIsOwed'
    BY DEF CallerInv, ReadInv, AnnouncedIsOwed, Settling, BetOf, MultOf
  <2> QED BY <2>2, <2>4, <2>5
<1>2. CASE \E j \in winJobs : WinJobDone(j)
  <2>1. PICK j \in winJobs : WinJobDone(j)
    BY <1>2
  <2> USE <2>1 DEF WinJobDone
  <2>2. TypeOK'
    BY DEF TypeOK
  <2>3. \A i : Live(i)' => Live(i)
    BY DEF Live
  <2>4. PayInv' /\ UuidInv'
    BY <2>3, MoneyKept
  <2>5. CallerInv' /\ ReadInv' /\ AnnouncedIsOwed'
    BY DEF CallerInv, ReadInv, AnnouncedIsOwed, Settling, BetOf, MultOf
  <2> QED BY <2>2, <2>4, <2>5
<1> QED BY <1>1, <1>2

\* The queue takes over what its caller was paying.
LEMMA EnqueueInv ==
  ASSUME Inv, NEW c \in Callers, Enqueue(c)
  PROVE  Inv'
<1> USE DEF Inv, Enqueue, Return, Step, Tell
<1>1. TypeOK'
  <2>1. call[c] \in Calls
    BY DEF TypeOK
  <2> QED BY <2>1, NoCallIsACall DEF TypeOK
<1>2. \A j : Live(j)' => Live(j)
  BY DEF Live, TypeOK
<1>3. PayInv' /\ UuidInv'
  BY <1>2, MoneyKept
<1>4. /\ cpc'[c] = "idle"
      /\ \A d \in Callers : d # c => cpc'[d] = cpc[d] /\ call'[d] = call[d]
  BY DEF TypeOK
<1>5. CallerInv'
  BY <1>4 DEF CallerInv, Settling, BetOf, MultOf
<1>6. ReadInv' /\ AnnouncedIsOwed'
  BY DEF ReadInv, AnnouncedIsOwed
<1> QED BY <1>1, <1>3, <1>5, <1>6

\* A fresh uuid: the new payment is the only one that carries it.
LEMMA SendInv ==
  ASSUME Inv, NEW c \in Callers, NEW b \in Bets, NEW m \in 1..point, point > 1,
         Send(c, b, m), cpc' = [cpc EXCEPT ![c] = "paying"],
         status[b] \notin {"PENDING", "REJECTED"},
         UNCHANGED <<status, winTx, cashMult, winJobs, credits, point>>
  PROVE  PayInv' /\ UuidInv'
<1> USE DEF Inv
<1> DEFINE new == <<b, minted[b] + 1, m>>
<1>1. /\ minted \in [Bets -> Nat] /\ winTx \in [Bets -> Nat]
      /\ call \in [Callers -> Calls] /\ cpc \in [Callers -> CallerPcs]
      /\ point \in Nat
  BY DEF TypeOK
<1>2. new \in Calls /\ call'[c] = new
  BY <1>1 DEF Send
<1>3. \A a \in Bets : minted'[a] \in Nat /\ minted[a] <= minted'[a]
  BY <1>1 DEF Send
<1>4. minted'[b] = minted[b] + 1
  BY <1>1 DEF Send
<1>5. \A j : Live(j)' => Live(j) \/ j = new
  BY <1>1, <1>2 DEF Live, Send
<1>6. \A j \in Calls : Live(j) => ~(j[1] = b /\ j[2] = minted[b] + 1)
  BY <1>1 DEF PayInv
<1>7. PayInv'
  <2> SUFFICES ASSUME NEW j \in Calls, Live(j)'
               PROVE  /\ point > 1 /\ j[3] \in 1..point
                      /\ j[2] \in 1..minted'[j[1]]
                      /\ status[j[1]] \notin {"PENDING", "REJECTED"}
    BY DEF PayInv
  <2>1. CASE Live(j)
    BY <1>1, <1>3, <2>1 DEF PayInv
  <2>2. CASE j = new
    BY <1>1, <1>4, <2>2
  <2> QED BY <1>5, <2>1, <2>2
<1>8. UuidInv'
  <2>1. \A i, j \in Calls :
           Live(i)' /\ Live(j)' /\ i[1] = j[1] /\ i[2] = j[2] => i[3] = j[3]
    <3> SUFFICES ASSUME NEW i \in Calls, NEW j \in Calls, Live(i)', Live(j)',
                        i[1] = j[1], i[2] = j[2]
                 PROVE  i[3] = j[3]
      OBVIOUS
    <3>1. CASE Live(i) /\ Live(j)
      BY <3>1 DEF UuidInv
    <3>2. CASE i = new
      <4>1. j = new
        BY <1>5, <1>6, <3>2
      <4> QED BY <3>2, <4>1
    <3>3. CASE j = new
      <4>1. i = new
        BY <1>5, <1>6, <3>3
      <4> QED BY <3>3, <4>1
    <3> QED BY <1>5, <3>1, <3>2, <3>3
  <2>2. \A a \in Bets : winTx'[a] <= minted'[a]
    BY <1>1, <1>3 DEF UuidInv
  <2>3. \A j \in Calls :
           Live(j)' /\ j[2] = winTx'[j[1]] /\ cashMult'[j[1]] = 0 => j[3] = Target[j[1]]
    <3>1. winTx[b] # minted[b] + 1
      BY <1>1 DEF UuidInv
    <3> QED BY <1>5, <3>1 DEF UuidInv
  <2> QED BY <2>1, <2>2, <2>3 DEF UuidInv
<1> QED BY <1>7, <1>8

\* cashOutBet sends its /wallet/win: the bet was accepted, the flight is on.
LEMMA PayStepInv ==
  ASSUME Inv, NEW c \in Callers, Pay(c)
  PROVE  Inv'
<1> USE DEF Inv, Pay, Step
<1>1. Pays(c) \in 1..point /\ point > 1
  BY PaysIsBounded
<1>2. BetOf(c) \in Bets /\ point \in Nat
  BY DEF TypeOK, BetOf
<1>3. PayInv' /\ UuidInv'
  BY <1>1, <1>2, SendInv DEF Cashable
<1>4. /\ cpc'[c] = "paying" /\ cpc' \in [Callers -> CallerPcs]
      /\ \A d \in Callers : d # c => cpc'[d] = cpc[d] /\ call'[d] = call[d]
  BY DEF TypeOK, Send
<1>5. TypeOK'
  <2>1. call' \in [Callers -> Calls] /\ minted' \in [Bets -> Nat]
    BY <1>1, <1>2 DEF TypeOK, Send
  <2> QED BY <1>4, <2>1 DEF TypeOK
<1>6. CallerInv'
  BY <1>4 DEF CallerInv, Settling, BetOf, MultOf
<1>7. ReadInv' /\ AnnouncedIsOwed'
  BY DEF ReadInv, AnnouncedIsOwed
<1> QED BY <1>3, <1>5, <1>6, <1>7

\* settle() sends its /wallet/win: the crash reached the target.
LEMMA SettleWinInv ==
  ASSUME Inv, NEW b \in Bets, SettleWin(b)
  PROVE  Inv'
<1> USE DEF Inv, SettleWin, Take, Step
<1>1. Target[b] \in 1..point /\ point > 1
  BY DEF TypeOK, Wins
<1>2. status[b] \notin {"PENDING", "REJECTED"}
  BY DEF ReadInv
<1>3. PayInv' /\ UuidInv'
  BY <1>1, <1>2, SendInv
<1>4. /\ cpc'[Loop] = "paying" /\ cpc' \in [Callers -> CallerPcs]
      /\ call'[Loop][1] = b /\ call'[Loop][3] = Target[b]
      /\ \A d \in Callers : d # Loop => cpc'[d] = cpc[d] /\ call'[d] = call[d]
  BY DEF TypeOK, Send
<1>5. TypeOK'
  <2>1. call' \in [Callers -> Calls] /\ minted' \in [Bets -> Nat]
    BY <1>1 DEF TypeOK, Send
  <2> QED BY <1>4, <2>1 DEF TypeOK
<1>6. CallerInv'
  BY <1>4 DEF CallerInv, Settling, BetOf, MultOf
<1>7. ReadInv' /\ AnnouncedIsOwed'
  BY DEF ReadInv, AnnouncedIsOwed
<1> QED BY <1>3, <1>5, <1>6, <1>7

\* settle() marks a loser.  Another caller may be paying the bet: its status
\* stays one of a bet that was taken.
LEMMA SettleLossInv ==
  ASSUME Inv, NEW b \in Bets, SettleLoss(b)
  PROVE  Inv'
<1> USE DEF Inv, SettleLoss, Take, Step
<1>1. /\ cpc'[Loop] = "releasing" /\ cpc' \in [Callers -> CallerPcs]
      /\ call' \in [Callers -> Calls]
      /\ \A d \in Callers : d # Loop => cpc'[d] = cpc[d] /\ call'[d] = call[d]
  BY DEF TypeOK
<1>2. TypeOK'
  BY <1>1 DEF TypeOK
<1>3. \A j : Live(j)' => Live(j)
  BY <1>1 DEF Live
<1>4. \A a \in Bets : status[a] \notin {"PENDING", "REJECTED"}
                        => status'[a] \notin {"PENDING", "REJECTED"}
  BY DEF TypeOK
<1>5. PayInv' /\ UuidInv'
  BY <1>3, <1>4, MoneyKept
<1>6. CallerInv'
  BY <1>1 DEF CallerInv, Settling, BetOf, MultOf
<1>7. ReadInv' /\ AnnouncedIsOwed'
  BY <1>4 DEF ReadInv, AnnouncedIsOwed
<1> QED BY <1>2, <1>5, <1>6, <1>7

\* The row takes the uuid and the amount of the caller that writes it, which is
\* live; without a cash-out it is the automatic win.
LEMMA SaveInv ==
  ASSUME Inv, NEW c \in Callers, Confirm(c) \/ Fail(c)
  PROVE  Inv'
<1> USE DEF Inv, Confirm, Fail, Step
<1> DEFINE b == BetOf(c)
<1>1. /\ call[c] \in Calls /\ b \in Bets /\ TxOf(c) \in Nat /\ MultOf(c) \in Nat
      /\ call[c][1] = b /\ call[c][2] = TxOf(c) /\ call[c][3] = MultOf(c)
  BY DEF TypeOK, BetOf, TxOf, MultOf
<1>2. Live(call[c])
  BY DEF Live
<1>3. MultOf(c) # 0 /\ TxOf(c) <= minted[b]
  BY <1>1, <1>2 DEF PayInv, TypeOK
<1>4. /\ winTx' = [winTx EXCEPT ![b] = TxOf(c)]
      /\ cashMult' = IF Settling(c) THEN cashMult
                     ELSE [cashMult EXCEPT ![b] = MultOf(c)]
      /\ \E s \in {"SETTLED", "FAILED"} : status' = [status EXCEPT ![b] = s]
  BY DEF SavePaid
<1>5. cpc' \in [Callers -> CallerPcs]
      /\ \A d \in Callers : d # c => cpc'[d] = cpc[d]
  BY DEF TypeOK
<1>6. TypeOK'
  <2>1. /\ winTx' \in [Bets -> Nat] /\ cashMult' \in [Bets -> Nat]
        /\ status' \in [Bets -> {"PENDING", "ACCEPTED", "REJECTED", "SETTLED",
                                 "FAILED", "VOIDED"}]
    BY <1>1, <1>4 DEF TypeOK
  <2> QED BY <1>5, <2>1 DEF TypeOK
<1>7. \A j : Live(j)' => Live(j)
  BY <1>5 DEF Live
<1>8. \A a \in Bets : status[a] \notin {"PENDING", "REJECTED"}
                        => status'[a] \notin {"PENDING", "REJECTED"}
  BY <1>1, <1>4 DEF TypeOK
<1>9. PayInv'
  BY <1>7, <1>8 DEF PayInv
<1>10. UuidInv'
  <2>1. \A i, j \in Calls :
           Live(i)' /\ Live(j)' /\ i[1] = j[1] /\ i[2] = j[2] => i[3] = j[3]
    BY <1>7 DEF UuidInv
  <2>2. \A a \in Bets : winTx'[a] <= minted'[a]
    BY <1>1, <1>3, <1>4 DEF UuidInv, TypeOK
  <2>3. ASSUME NEW j \in Calls, Live(j)', j[2] = winTx'[j[1]], cashMult'[j[1]] = 0
        PROVE  j[3] = Target[j[1]]
    <3>1. Live(j)
      BY <1>7, <2>3
    <3>2. CASE j[1] # b
      BY <1>4, <2>3, <3>1, <3>2 DEF UuidInv, TypeOK
    <3>3. CASE j[1] = b
      <4>1. Settling(c)
        BY <1>1, <1>3, <1>4, <2>3, <3>3 DEF TypeOK
      <4>2. MultOf(c) = Target[b]
        BY <4>1 DEF CallerInv, Settling
      <4>3. j[2] = call[c][2]
        BY <1>1, <1>4, <2>3, <3>3 DEF TypeOK
      <4>4. j[3] = call[c][3]
        BY <1>1, <1>2, <3>1, <3>3, <4>3 DEF UuidInv
      <4> QED BY <1>1, <3>3, <4>2, <4>4
    <3> QED BY <3>2, <3>3
  <2> QED BY <2>1, <2>2, <2>3 DEF UuidInv
<1>11. CallerInv'
  <2>1. cpc'[c] = "releasing" => call[c] \in credits
    BY DEF TypeOK
  <2>2. cpc'[c] \in {"releasing", "queueing"}
    BY DEF TypeOK
  <2> QED BY <1>5, <2>1, <2>2 DEF CallerInv, Settling, BetOf, MultOf
<1>12. ReadInv' /\ AnnouncedIsOwed'
  BY <1>8 DEF ReadInv, AnnouncedIsOwed, TypeOK
<1> QED BY <1>6, <1>9, <1>10, <1>11, <1>12

\* A restart queues the automatic wins under the uuid of the row, whose amount
\* is the target, or under a fresh one.
LEMMA ResumeInv ==
  ASSUME Inv, Resume, UNCHANGED <<stored, credits, point, cpc, call, announced>>
  PROVE  /\ PayInv' /\ UuidInv' /\ AnnouncedIsOwed'
         /\ status' \in [Bets -> {"PENDING", "ACCEPTED", "REJECTED", "SETTLED",
                                  "FAILED", "VOIDED"}]
         /\ winTx' \in [Bets -> Nat] /\ minted' \in [Bets -> Nat]
         /\ winJobs' \subseteq Calls
         /\ \A b \in Bets : status[b] \notin {"PENDING", "REJECTED"}
                             => status'[b] \notin {"PENDING", "REJECTED"}
<1> USE DEF Inv
<1> DEFINE open == {b \in Bets : OwedOnResume(b)}
           won  == {b \in open : Wins(b, stored)}
           Job(b) == <<b, UuidOnResume(b), Target[b]>>
<1>1. /\ status' = [b \in Bets |-> IF b \in won THEN "FAILED"
                                   ELSE IF b \in open THEN "SETTLED" ELSE status[b]]
      /\ winTx' = [b \in Bets |-> IF b \in won THEN UuidOnResume(b) ELSE winTx[b]]
      /\ winJobs' = winJobs \cup {Job(b) : b \in won}
      /\ minted' = [b \in Bets |-> IF b \in won /\ winTx[b] = 0
                                   THEN minted[b] + 1 ELSE minted[b]]
      /\ UNCHANGED cashMult
  BY DEF Resume
<1>2. /\ status \in [Bets -> {"PENDING", "ACCEPTED", "REJECTED", "SETTLED",
                              "FAILED", "VOIDED"}]
      /\ winTx \in [Bets -> Nat] /\ minted \in [Bets -> Nat]
      /\ winJobs \subseteq Calls /\ point \in Nat /\ stored \in {0, point}
  BY DEF TypeOK
<1>3. \A b \in Bets : UuidOnResume(b) \in Nat \ {0}
  BY <1>2 DEF UuidOnResume
<1>4. \A b \in won : Target[b] \in 1..point /\ point > 1
  BY <1>2 DEF Wins
<1>5. \A b \in Bets : minted'[b] \in Nat /\ minted[b] <= minted'[b]
  BY <1>1, <1>2
<1>6. \A b \in won : UuidOnResume(b) <= minted'[b]
  BY <1>1, <1>2 DEF UuidOnResume, UuidInv
<1>7. \A b \in won : Job(b) \in Calls
  BY <1>2, <1>3, <1>4
<1>8. \A j : Live(j)' => Live(j) \/ \E b \in won : j = Job(b)
  BY <1>1 DEF Live
<1>9. \A b \in Bets : status[b] \notin {"PENDING", "REJECTED"}
                        => status'[b] \notin {"PENDING", "REJECTED"}
  BY <1>1
<1>10. \A j \in Calls, b \in won :
          Live(j) /\ j[1] = b /\ j[2] = UuidOnResume(b) => j[3] = Target[b]
  <2> SUFFICES ASSUME NEW j \in Calls, NEW b \in won, Live(j), j[1] = b,
                      j[2] = UuidOnResume(b)
               PROVE  j[3] = Target[b]
    OBVIOUS
  <2>1. CASE winTx[b] = 0
    <3>1. j[2] <= minted[b]
      BY <1>2 DEF PayInv
    <3> QED BY <1>2, <2>1, <3>1 DEF UuidOnResume
  <2>2. CASE winTx[b] # 0
    BY <2>2 DEF UuidOnResume, UuidInv, OwedOnResume
  <2> QED BY <2>1, <2>2
<1>11. PayInv'
  <2> SUFFICES ASSUME NEW j \in Calls, Live(j)'
               PROVE  /\ point > 1 /\ j[3] \in 1..point
                      /\ j[2] \in 1..minted'[j[1]]
                      /\ status'[j[1]] \notin {"PENDING", "REJECTED"}
    BY DEF PayInv
  <2>1. CASE Live(j)
    BY <1>2, <1>5, <1>9, <2>1 DEF PayInv
  <2>2. CASE \E b \in won : j = Job(b)
    <3>1. PICK b \in won : j = Job(b)
      BY <2>2
    <3>2. status'[b] = "FAILED"
      BY <1>1
    <3>3. j[1] = b /\ j[2] = UuidOnResume(b) /\ j[3] = Target[b]
      BY <3>1
    <3>4. UuidOnResume(b) \in 1..minted'[b]
      BY <1>3, <1>5, <1>6
    <3> QED BY <1>4, <3>2, <3>3, <3>4
  <2> QED BY <1>8, <2>1, <2>2
<1>12. UuidInv'
  <2>1. ASSUME NEW i \in Calls, NEW j \in Calls, Live(i)', Live(j)',
               i[1] = j[1], i[2] = j[2]
        PROVE  i[3] = j[3]
    <3>1. CASE Live(i) /\ Live(j)
      BY <2>1, <3>1 DEF UuidInv
    <3>2. CASE Live(i) /\ \E b \in won : j = Job(b)
      BY <1>10, <2>1, <3>2
    <3>3. CASE Live(j) /\ \E b \in won : i = Job(b)
      BY <1>10, <2>1, <3>3
    <3>4. CASE (\E b \in won : i = Job(b)) /\ (\E b \in won : j = Job(b))
      BY <2>1, <3>4
    <3> QED BY <1>8, <2>1, <3>1, <3>2, <3>3, <3>4
  <2>2. \A a \in Bets : winTx'[a] <= minted'[a]
    BY <1>1, <1>2, <1>5, <1>6 DEF UuidInv
  <2>3. ASSUME NEW j \in Calls, Live(j)', j[2] = winTx'[j[1]], cashMult'[j[1]] = 0
        PROVE  j[3] = Target[j[1]]
    <3>1. CASE j[1] \in won
      <4>1. j[2] = UuidOnResume(j[1])
        BY <1>1, <2>3, <3>1
      <4>2. CASE Live(j)
        BY <1>10, <3>1, <4>1, <4>2
      <4>3. CASE \E b \in won : j = Job(b)
        BY <4>3
      <4> QED BY <1>8, <2>3, <4>2, <4>3
    <3>2. CASE j[1] \notin won
      <4>1. Live(j)
        BY <1>8, <2>3, <3>2
      <4>2. winTx'[j[1]] = winTx[j[1]] /\ cashMult'[j[1]] = cashMult[j[1]]
        BY <1>1, <3>2
      <4> QED BY <2>3, <4>1, <4>2 DEF UuidInv
    <3> QED BY <3>1, <3>2
  <2> QED BY <2>1, <2>2, <2>3 DEF UuidInv
<1>13. AnnouncedIsOwed'
  BY <1>1 DEF AnnouncedIsOwed
<1>14. /\ status' \in [Bets -> {"PENDING", "ACCEPTED", "REJECTED", "SETTLED",
                                "FAILED", "VOIDED"}]
       /\ winTx' \in [Bets -> Nat] /\ minted' \in [Bets -> Nat]
       /\ winJobs' \subseteq Calls
  BY <1>1, <1>2, <1>3, <1>5, <1>7
<1> QED BY <1>9, <1>11, <1>12, <1>13, <1>14

\* A restart resumes the round, voids it, or finds it closed.
LEMMA RecoverInv ==
  ASSUME Inv, Recover
  PROVE  Inv'
<1> USE DEF Inv, Recover, Go
<1>1. CASE Resume
  <2>1. PayInv' /\ UuidInv' /\ AnnouncedIsOwed'
    BY <1>1, ResumeInv
  <2>2. TypeOK'
    BY <1>1, ResumeInv DEF TypeOK, Resume
  <2>3. cpc[Loop] = "idle"
    BY DEF CallerInv, TypeOK
  <2>4. CallerInv'
    BY <2>3 DEF CallerInv, Settling, BetOf, MultOf
  <2>5. ReadInv'
    <3>1. \A b \in work : status'[b] \notin {"PENDING", "REJECTED"}
      BY <1>1, ResumeInv DEF ReadInv, TypeOK
    <3> QED BY <3>1 DEF ReadInv
  <2> QED BY <2>1, <2>2, <2>4, <2>5
<1>2. CASE Void \/ (state \in {"SETTLED", "VOIDED"} /\ UNCHANGED <<database, minted>>)
  <2>1. /\ UNCHANGED <<winTx, cashMult, point, minted, winJobs, credits, cpc, call>>
        /\ \A b \in Bets : status[b] \notin {"PENDING", "REJECTED"}
                            => status'[b] \notin {"PENDING", "REJECTED"}
    BY <1>2 DEF Void
  <2>2. \A j : Live(j)' => Live(j)
    BY <2>1 DEF Live
  <2>3. PayInv' /\ UuidInv'
    BY <2>1, <2>2, MoneyKept
  <2>4. TypeOK'
    BY <1>2 DEF TypeOK, Void
  <2>5. cpc[Loop] = "idle"
    BY DEF CallerInv, TypeOK
  <2>6. CallerInv'
    BY <2>1, <2>5 DEF CallerInv, Settling, BetOf, MultOf
  <2>7. ReadInv' /\ AnnouncedIsOwed'
    <3>1. \A b \in work : b \in Bets
      BY DEF TypeOK
    <3>2. UNCHANGED <<autos, work, announced>> /\ lpc' = "over"
      OBVIOUS
    <3> QED BY <2>1, <3>1, <3>2 DEF ReadInv, AnnouncedIsOwed
  <2> QED BY <2>3, <2>4, <2>6, <2>7
<1> QED BY <1>1, <1>2

-----------------------------------------------------------------------------
(* Together: the invariant is inductive, and implies what the runs check.  *)

\* Every step, and every stutter, preserves the invariant.
LEMMA NextInv == Inv /\ [Next]_vars => Inv'
<1> SUFFICES ASSUME Inv, [Next]_vars PROVE Inv'
  OBVIOUS
<1>1. CASE UNCHANGED vars
  <2>1. UNCHANGED money
    BY <1>1 DEF vars, money
  <2>2. PayInv' /\ UuidInv' /\ AnnouncedIsOwed'
    BY <2>1, MoneyUnchanged
  <2>3. TypeOK'
    BY <1>1 DEF Inv, TypeOK, vars
  <2>4. CallerInv' /\ ReadInv'
    BY <1>1 DEF Inv, CallerInv, ReadInv, vars, Settling, BetOf, MultOf
  <2> QED BY <2>2, <2>3, <2>4 DEF Inv
<1>2. CASE Tick \/ Stop \/ StoreRolling \/ Climb \/ ReadAutos \/ NextTurn \/ Land
             \/ StoreResult \/ Snapshot \/ CloseRound
  BY <1>2, QuietStep
<1>3. ASSUME NEW b \in Bets, AnswerBet(b) PROVE Inv'
  BY <1>3, AnswerBetInv
<1>4. ASSUME NEW m \in Points, Launch(m) PROVE Inv'
  BY <1>4, LaunchInv
<1>5. CASE (\E h \in Handlers : CashOut(h)) \/ (\E b \in Bets : AutoCashOut(b))
  BY <1>5, BeginInv
<1>6. CASE (\E c \in Callers : Decline(c) \/ Finish(c)) \/ Crash
  BY <1>6, EndInv
<1>7. CASE (\E c \in Callers : WalletCredits(c)) \/ (\E j \in winJobs : WinJobDone(j))
  BY <1>7, BookInv
<1>8. ASSUME NEW c \in Callers, Enqueue(c) PROVE Inv'
  BY <1>8, EnqueueInv
<1>9. ASSUME NEW c \in Callers, Pay(c) PROVE Inv'
  BY <1>9, PayStepInv
<1>10. ASSUME NEW c \in Callers, Confirm(c) \/ Fail(c) PROVE Inv'
  BY <1>10, SaveInv
<1>11. ASSUME NEW b \in Bets, SettleWin(b) PROVE Inv'
  BY <1>11, SettleWinInv
<1>12. ASSUME NEW b \in Bets, SettleLoss(b) PROVE Inv'
  BY <1>12, SettleLossInv
<1>13. CASE Recover
  BY <1>13, RecoverInv
<1>14. CASE Over
  BY <1>1, <1>14 DEF Over
<1> QED
  BY <1>1, <1>2, <1>3, <1>4, <1>5, <1>6, <1>7, <1>8, <1>9, <1>10, <1>11,
     <1>12, <1>13, <1>14 DEF Next, LoopStep, CallerStep

\* The inductive invariant holds in every reachable state.
THEOREM Invariance == Spec => []Inv
<1> QED BY InitInv, NextInv, PTL DEF Spec

\* Every row and every field of the process keeps its type, and the handlers see
\* the phase ROLLING exactly during the flight.
THEOREM TypeCorrect == Spec => []TypeOK
<1>1. Inv => TypeOK
  BY DEF Inv
<1> QED BY <1>1, Invariance, PTL

\* No payment exceeds the crash multiplier, whoever made it.
THEOREM NothingAboveTheCrashHolds == Spec => []NothingAboveTheCrash
<1>1. Inv => NothingAboveTheCrash
  BY DEF Inv, TypeOK, PayInv, Live, NothingAboveTheCrash
<1> QED BY <1>1, Invariance, PTL

\* A flight that crashes at 1.00x pays nobody.
THEOREM InstantCrashPaysNobodyHolds == Spec => []InstantCrashPaysNobody
<1>1. Inv => InstantCrashPaysNobody
  BY DEF Inv, TypeOK, PayInv, Live, InstantCrashPaysNobody
<1> QED BY <1>1, Invariance, PTL

\* An announced cash-out stays booked or queued.
THEOREM AnnouncedIsOwedHolds == Spec => []AnnouncedIsOwed
<1>1. Inv => AnnouncedIsOwed
  BY DEF Inv
<1> QED BY <1>1, Invariance, PTL

\* Nothing is paid on a bet the operator did not accept.
THEOREM OnlyAcceptedIsPaidHolds == Spec => []OnlyAcceptedIsPaid
<1>1. Inv => OnlyAcceptedIsPaid
  BY DEF Inv, TypeOK, PayInv, Live, OnlyAcceptedIsPaid
<1> QED BY <1>1, Invariance, PTL

\* A uuid is never sent with two amounts, across restarts as well.
THEOREM OneAmountPerUuidHolds == Spec => []OneAmountPerUuid
<1>1. Inv => OneAmountPerUuid
  BY DEF Inv, TypeOK, UuidInv, Live, OneAmountPerUuid
<1> QED BY <1>1, Invariance, PTL

\* A flight pays what was flown, whoever pays and however often it is recovered.
THEOREM PaidAsFlownHolds == Spec => []PaidAsFlown
  BY NothingAboveTheCrashHolds, InstantCrashPaysNobodyHolds, OnlyAcceptedIsPaidHolds,
     OneAmountPerUuidHolds, PTL DEF PaidAsFlown

-----------------------------------------------------------------------------
(* A bet without a target, which one handler at most cashes out, is paid   *)
(* once.                                                                   *)

\* A bet that only its player can cash out, one message after the other.
Sole(b) ==
    /\ Target[b] = None
    /\ \A g, h \in Handlers : Asks[g] = b /\ Asks[h] = b => g = h

\* A handler works on the bet it was asked for, the loop on bets with a target.
AskInv ==
    /\ \A h \in Handlers : cpc[h] # "idle" => BetOf(h) = Asks[h]
    /\ cpc[Loop] \in {"reading", "paying", "queueing"} => Target[BetOf(Loop)] # None

\* Such a bet has one uuid at most.  Once it has, its row shows the cash-out, or its
\* handler still waits for the operator, or the process that waited is dead and the
\* flight is over.
Done(b) ==
    \/ cashMult[b] # 0
    \/ \E h \in Handlers : cpc[h] = "paying" /\ BetOf(h) = b
    \/ lpc \in {"down", "over"} /\ \A h \in Handlers : Asks[h] = b => cpc[h] = "idle"

SoleInv ==
    \A b \in Bets : Sole(b) => minted[b] \in {0, 1} /\ (minted[b] = 0 \/ Done(b))

\* A step in which no handler stops waiting and no flight begins anew.
LEMMA SoleKept ==
  ASSUME SoleInv, UNCHANGED <<minted, cashMult>>,
         \A h \in Handlers : cpc[h] = "paying" => cpc'[h] = "paying" /\ call'[h] = call[h],
         lpc \in {"down", "over"} => lpc' \in {"down", "over"},
         \A h \in Handlers : lpc \in {"down", "over"} /\ cpc[h] = "idle" => cpc'[h] = "idle"
  PROVE  SoleInv'
BY DEF SoleInv, Done, Sole, BetOf

\* The callers that go on, and what they work on.
LEMMA AskKept ==
  ASSUME AskInv,
         \A c \in Callers : \/ cpc'[c] \in {"idle", "releasing"} /\ c = Loop
                            \/ cpc'[c] = "idle"
                            \/ cpc[c] # "idle" /\ call'[c] = call[c] /\ c # Loop
                            \/ cpc'[c] = cpc[c] /\ call'[c] = call[c]
  PROVE  AskInv'
BY DEF AskInv, BetOf

\* Steps that leave the callers alone.
LEMMA LoopOnce ==
  ASSUME Inv, AskInv, SoleInv, UNCHANGED <<minted, cashMult, cpc, call>>,
         lpc \in {"down", "over"} => lpc' \in {"down", "over"}
  PROVE  AskInv' /\ SoleInv'
<1>1. AskInv'
  BY DEF AskInv, BetOf
<1>2. SoleInv'
  BY SoleKept
<1> QED BY <1>1, <1>2

\* A caller begins: a handler in the flight, the loop on a bet with a target or on a
\* loser that it will not pay.
LEMMA BeginOnce ==
  ASSUME Inv, AskInv, SoleInv,
         \/ \E h \in Handlers : CashOut(h)
         \/ \E b \in Bets : AutoCashOut(b) \/ SettleLoss(b)
  PROVE  AskInv' /\ SoleInv'
<1>1. cpc \in [Callers -> CallerPcs] /\ call \in [Callers -> Calls]
      /\ (phase = "ROLLING" => lpc \notin {"down", "over"})
  BY DEF Inv, TypeOK
<1>2. ASSUME NEW h \in Handlers, CashOut(h) PROVE AskInv' /\ SoleInv'
  <2>1. /\ cpc[h] = "idle" /\ cpc' = [cpc EXCEPT ![h] = "reading"]
        /\ call' = [call EXCEPT ![h] = <<Asks[h], 0, 0>>]
        /\ UNCHANGED <<minted, cashMult, lpc>> /\ lpc \notin {"down", "over"}
    BY <1>1, <1>2 DEF CashOut, Step
  <2>2. AskInv'
    BY <1>1, <2>1 DEF AskInv, BetOf
  <2>3. SoleInv'
    BY <1>1, <2>1, SoleKept
  <2> QED BY <2>2, <2>3
<1>3. ASSUME NEW b \in Bets, AutoCashOut(b) PROVE AskInv' /\ SoleInv'
  <2>1. /\ cpc[Loop] = "idle" /\ cpc' = [cpc EXCEPT ![Loop] = "reading"]
        /\ call' = [call EXCEPT ![Loop] = <<b, 0, 0>>] /\ Target[b] # None
        /\ UNCHANGED <<minted, cashMult, lpc>>
    BY <1>3 DEF AutoCashOut, Step, Inv, ReadInv
  <2>2. AskInv'
    BY <1>1, <2>1 DEF AskInv, BetOf
  <2>3. SoleInv'
    BY <1>1, <2>1, SoleKept
  <2> QED BY <2>2, <2>3
<1>4. ASSUME NEW b \in Bets, SettleLoss(b) PROVE AskInv' /\ SoleInv'
  <2>1. /\ cpc[Loop] = "idle" /\ cpc' = [cpc EXCEPT ![Loop] = "releasing"]
        /\ call' = [call EXCEPT ![Loop] = <<b, 0, 0>>]
        /\ UNCHANGED <<minted, cashMult, lpc>>
    BY <1>4 DEF SettleLoss, Take, Step
  <2>2. AskInv'
    BY <1>1, <2>1 DEF AskInv, BetOf
  <2>3. SoleInv'
    BY <1>1, <2>1, SoleKept
  <2> QED BY <2>2, <2>3
<1> QED BY <1>2, <1>3, <1>4

\* A caller returns; nobody waits for it any more.
LEMMA ReturnOnce ==
  ASSUME Inv, AskInv, SoleInv, NEW c \in Callers, Decline(c) \/ Finish(c) \/ Enqueue(c)
  PROVE  AskInv' /\ SoleInv'
<1>1. /\ cpc[c] \in {"reading", "releasing", "queueing"}
      /\ cpc' = [cpc EXCEPT ![c] = "idle"] /\ call' = [call EXCEPT ![c] = NoCall]
      /\ UNCHANGED <<minted, cashMult, lpc>>
  BY DEF Decline, Finish, Enqueue, Return, Step
<1>2. cpc \in [Callers -> CallerPcs] /\ call \in [Callers -> Calls]
  BY DEF Inv, TypeOK
<1>3. AskInv'
  BY <1>1, <1>2 DEF AskInv, BetOf
<1>4. SoleInv'
  BY <1>1, <1>2, SoleKept
<1> QED BY <1>3, <1>4

\* The handler of such a bet pays it for the first time: its row shows no cash-out,
\* nobody else waits for it, and the flight is still on.
LEMMA PayOnce ==
  ASSUME Inv, AskInv, SoleInv, NEW c \in Callers, Pay(c)
  PROVE  AskInv' /\ SoleInv'
<1> DEFINE a == BetOf(c)
<1>1. /\ cpc[c] = "reading" /\ cpc' = [cpc EXCEPT ![c] = "paying"] /\ a \in Bets
      /\ cashMult[a] = 0 /\ minted' = [minted EXCEPT ![a] = @ + 1]
      /\ call' = [call EXCEPT ![c] = <<a, minted[a] + 1, Pays(c)>>]
      /\ UNCHANGED <<cashMult, lpc>>
  BY DEF Pay, Step, Send, Cashable, Inv, TypeOK, BetOf
<1>2. /\ cpc \in [Callers -> CallerPcs] /\ call \in [Callers -> Calls]
      /\ minted \in [Bets -> Nat]
  BY DEF Inv, TypeOK
<1>3. /\ cpc'[c] = "paying" /\ call'[c][1] = a
      /\ \A d \in Callers : d # c => cpc'[d] = cpc[d] /\ call'[d] = call[d]
      /\ \A b \in Bets : minted'[b] = IF b = a THEN minted[b] + 1 ELSE minted[b]
  BY <1>1, <1>2
<1>4. AskInv'
  BY <1>1, <1>3 DEF AskInv, BetOf
<1>5. ASSUME NEW b \in Bets, Sole(b) PROVE minted'[b] \in {0, 1} /\ (minted'[b] = 0 \/ Done(b)')
  <2>1. CASE b = a
    <3>1. c # Loop
      BY <1>1, <1>5, <2>1 DEF AskInv, Sole
    <3>2. c \in Handlers /\ Asks[c] = a
      BY <1>1, <3>1 DEF AskInv
    <3>3. ~Done(a)
      <4>1. ASSUME NEW h \in Handlers, cpc[h] = "paying", BetOf(h) = a PROVE FALSE
        <5>1. Asks[h] = a
          BY <4>1 DEF AskInv
        <5>2. h = c
          BY <1>5, <2>1, <3>2, <5>1 DEF Sole
        <5> QED BY <1>1, <4>1, <5>2
      <4> QED BY <1>1, <3>2, <4>1 DEF Done
    <3>4. minted[a] = 0
      BY <1>5, <2>1, <3>3 DEF SoleInv
    <3>5. Done(b)'
      BY <1>3, <2>1, <3>2 DEF Done, BetOf
    <3> QED BY <1>3, <2>1, <3>4, <3>5
  <2>2. CASE b # a
    <3>1. minted[b] = 0 \/ Done(b)
      BY <1>5 DEF SoleInv
    <3>2. Done(b) => Done(b)'
      BY <1>1, <1>3, <2>2 DEF Done, BetOf, AskInv
    <3> QED BY <1>3, <1>5, <2>2, <3>1, <3>2 DEF SoleInv
  <2> QED BY <2>1, <2>2
<1>6. SoleInv'
  BY <1>5 DEF SoleInv, Sole
<1> QED BY <1>4, <1>6

\* settle() pays bets with a target only.
LEMMA SettleOnce ==
  ASSUME Inv, AskInv, SoleInv, NEW a \in Bets, SettleWin(a)
  PROVE  AskInv' /\ SoleInv'
<1>1. /\ cpc[Loop] = "idle" /\ cpc' = [cpc EXCEPT ![Loop] = "paying"]
      /\ Target[a] # None /\ minted' = [minted EXCEPT ![a] = @ + 1]
      /\ call' = [call EXCEPT ![Loop] = <<a, minted[a] + 1, Target[a]>>]
      /\ UNCHANGED <<cashMult, lpc>>
  BY DEF SettleWin, Take, Step, Send, Wins
<1>2. /\ cpc \in [Callers -> CallerPcs] /\ call \in [Callers -> Calls]
      /\ minted \in [Bets -> Nat]
  BY DEF Inv, TypeOK
<1>3. /\ call'[Loop][1] = a
      /\ \A h \in Handlers : cpc'[h] = cpc[h] /\ call'[h] = call[h]
      /\ \A b \in Bets : Sole(b) => minted'[b] = minted[b]
  BY <1>1, <1>2 DEF Sole
<1>4. AskInv'
  BY <1>1, <1>3 DEF AskInv, BetOf
<1>5. SoleInv'
  BY <1>1, <1>3 DEF SoleInv, Done, BetOf, Sole
<1> QED BY <1>4, <1>5

\* The row of the bet shows its cash-out when its handler stops waiting.
LEMMA SaveOnce ==
  ASSUME Inv, AskInv, SoleInv, NEW c \in Callers, Confirm(c) \/ Fail(c)
  PROVE  AskInv' /\ SoleInv'
<1>1. /\ cpc[c] = "paying" /\ \E to \in {"releasing", "queueing"} : cpc' = [cpc EXCEPT ![c] = to]
      /\ cashMult' = IF Settling(c) THEN cashMult ELSE [cashMult EXCEPT ![BetOf(c)] = MultOf(c)]
      /\ UNCHANGED <<minted, call, lpc>>
  BY DEF Confirm, Fail, SavePaid, Step
<1>2. /\ cpc \in [Callers -> CallerPcs] /\ cashMult \in [Bets -> Nat]
      /\ call[c] \in Calls /\ BetOf(c) \in Bets /\ Live(call[c])
  BY <1>1 DEF Inv, TypeOK, BetOf, Live
<1>3. MultOf(c) # 0
  BY <1>2 DEF Inv, PayInv, MultOf, TypeOK
<1>4. /\ \A d \in Callers : d # c => cpc'[d] = cpc[d]
      /\ cpc'[c] \in {"releasing", "queueing"}
  BY <1>1, <1>2
<1>5. AskInv'
  BY <1>1, <1>4 DEF AskInv, BetOf
<1>6. ASSUME NEW b \in Bets, Sole(b), Done(b) PROVE Done(b)'
  <2>1. CASE cashMult[b] # 0
    BY <1>1, <1>2, <1>3, <2>1 DEF Done
  <2>2. ASSUME NEW h \in Handlers, cpc[h] = "paying", BetOf(h) = b PROVE Done(b)'
    <3>1. CASE h = c
      <4>1. ~Settling(c)
        BY <3>1 DEF Settling
      <4> QED BY <1>1, <1>2, <1>3, <2>2, <3>1, <4>1 DEF Done
    <3>2. CASE h # c
      BY <1>1, <1>4, <2>2, <3>2 DEF Done, BetOf
    <3> QED BY <3>1, <3>2
  <2>3. CASE lpc \in {"down", "over"} /\ \A h \in Handlers : Asks[h] = b => cpc[h] = "idle"
    BY <1>1, <1>4, <2>3 DEF Done
  <2> QED BY <1>6, <2>1, <2>2, <2>3 DEF Done
<1>7. SoleInv'
  BY <1>1, <1>6 DEF SoleInv, Sole
<1> QED BY <1>5, <1>7

\* The process that waited is dead, and its flight with it.
LEMMA CrashOnce ==
  ASSUME Inv, AskInv, SoleInv, Crash
  PROVE  AskInv' /\ SoleInv'
<1>1. lpc' = "down" /\ cpc' = [c \in Callers |-> "idle"] /\ UNCHANGED <<minted, cashMult>>
  BY DEF Crash
<1>2. AskInv'
  BY <1>1 DEF AskInv
<1>3. SoleInv'
  BY <1>1 DEF SoleInv, Done, Sole
<1> QED BY <1>2, <1>3

\* Recovery pays bets with a target only.
LEMMA RecoverOnce ==
  ASSUME Inv, AskInv, SoleInv, Recover
  PROVE  AskInv' /\ SoleInv'
<1>1. lpc = "down" /\ lpc' = "over" /\ UNCHANGED <<cpc, call, cashMult>>
  BY DEF Recover, Go, Resume, Void
<1>2. minted \in [Bets -> Nat]
  BY DEF Inv, TypeOK
<1>3. \A b \in Bets : Sole(b) => minted'[b] = minted[b]
  <2>1. CASE Resume
    BY <1>2, <2>1 DEF Resume, Wins, Sole
  <2>2. CASE ~Resume
    BY <2>2 DEF Recover, Void
  <2> QED BY <2>1, <2>2
<1>4. AskInv'
  BY <1>1 DEF AskInv, BetOf
<1>5. SoleInv'
  BY <1>1, <1>3 DEF SoleInv, Done, Sole, BetOf
<1> QED BY <1>4, <1>5

\* Every step, and every stutter.
LEMMA OnceStep == Inv /\ AskInv /\ SoleInv /\ [Next]_vars => AskInv' /\ SoleInv'
<1> SUFFICES ASSUME Inv, AskInv, SoleInv, [Next]_vars PROVE AskInv' /\ SoleInv'
  OBVIOUS
<1>1. CASE UNCHANGED vars \/ Over
  <2>1. UNCHANGED <<minted, cashMult, cpc, call, lpc>>
    BY <1>1 DEF vars, Over
  <2> QED BY <2>1, LoopOnce
<1>2. CASE \/ Tick \/ Stop \/ StoreRolling \/ Climb \/ ReadAutos \/ NextTurn \/ Land
           \/ StoreResult \/ Snapshot \/ CloseRound \/ \E m \in Points : Launch(m)
  <2>1. /\ UNCHANGED <<minted, cashMult, cpc, call>>
        /\ lpc \in {"down", "over"} => lpc' = lpc
    BY <1>2 DEF Tick, Stop, StoreRolling, Climb, ReadAutos, NextTurn, Land, StoreResult, Snapshot,
       CloseRound, Launch, Go
  <2> QED BY <2>1, LoopOnce
<1>3. CASE \/ \E b \in Bets : AnswerBet(b)
           \/ \E c \in Callers : WalletCredits(c)
           \/ \E j \in winJobs : WinJobDone(j)
  <2>1. UNCHANGED <<minted, cashMult, cpc, call, lpc>>
    BY <1>3 DEF AnswerBet, WalletCredits, WinJobDone
  <2> QED BY <2>1, LoopOnce
<1>4. CASE \/ \E h \in Handlers : CashOut(h)
           \/ \E b \in Bets : AutoCashOut(b) \/ SettleLoss(b)
  BY <1>4, BeginOnce
<1>5. ASSUME NEW c \in Callers, CallerStep(c) PROVE AskInv' /\ SoleInv'
  BY <1>5, ReturnOnce, PayOnce, SaveOnce DEF CallerStep
<1>6. ASSUME NEW b \in Bets, SettleWin(b) PROVE AskInv' /\ SoleInv'
  BY <1>6, SettleOnce
<1>7. CASE Crash \/ Recover
  BY <1>7, CrashOnce, RecoverOnce
<1> QED
  BY <1>1, <1>2, <1>3, <1>4, <1>5, <1>6, <1>7 DEF Next, LoopStep

\* A cash-out is idempotent for a client that repeats it only after the answer: with one
\* handler and no automatic target nothing pays the bet twice, neither settle() nor a
\* recovery.
THEOREM RepeatedCashoutPaysOnceHolds ==
  ASSUME IsFiniteSet(Handlers)
  PROVE  Spec => []RepeatedCashoutPaysOnce
<1>1. Init => AskInv /\ SoleInv
  BY DEF Init, AskInv, SoleInv, BetOf
<1>2. Inv /\ SoleInv => RepeatedCashoutPaysOnce
  <2> SUFFICES ASSUME Inv, SoleInv, NEW b \in Bets, Target[b] = None,
                      Cardinality({h \in Handlers : Asks[h] = b}) <= 1
               PROVE  Payments(b) <= 1
    BY DEF RepeatedCashoutPaysOnce
  <2> DEFINE mine == {h \in Handlers : Asks[h] = b}
             paid == {j \in credits : j[1] = b}
  <2>1. Sole(b)
    <3> SUFFICES ASSUME NEW g \in mine, NEW h \in mine, g # h PROVE FALSE
      BY DEF Sole
    <3>1. IsFiniteSet(mine) /\ {g, h} \subseteq mine
      BY FS_Subset
    <3>2. Cardinality({g, h}) <= Cardinality(mine)
      BY <3>1, FS_Subset
    <3>3. Cardinality({g, h}) = 2
      <4>1. Cardinality({g}) = 1 /\ IsFiniteSet({g})
        BY FS_Singleton
      <4>2. {g, h} = {g} \cup {h} /\ h \notin {g}
        OBVIOUS
      <4>3. Cardinality({g} \cup {h}) = Cardinality({g}) + 1
        BY <4>1, <4>2, FS_AddElement
      <4> QED BY <4>1, <4>2, <4>3
    <3>4. Cardinality(mine) \in Nat
      BY <3>1, FS_CardinalityType
    <3> QED BY <3>2, <3>3, <3>4
  <2>2. minted[b] \in {0, 1}
    BY <2>1 DEF SoleInv
  <2>3. \A j \in paid : j \in Calls /\ Live(j) /\ j[1] = b
    BY DEF Inv, TypeOK, Live
  <2>4. \A j \in paid : j[2] = 1
    BY <2>2, <2>3 DEF Inv, PayInv
  <2>5. \A i, j \in paid : i[3] = j[3]
    BY <2>3, <2>4 DEF Inv, UuidInv
  <2>6. \A i, j \in paid : i = j
    BY <2>3, <2>4, <2>5
  <2>7. CASE paid = {}
    BY <2>7, FS_EmptySet DEF Payments
  <2>8. CASE paid # {}
    <3>1. PICK j \in paid : TRUE
      BY <2>8
    <3>2. paid = {j}
      BY <2>6
    <3>3. Cardinality(paid) = 1
      BY <3>2, FS_Singleton
    <3> QED BY <3>3 DEF Payments
  <2> QED BY <2>7, <2>8
<1> QED
  BY <1>1, <1>2, OnceStep, Invariance, PTL DEF Spec
=============================================================================
