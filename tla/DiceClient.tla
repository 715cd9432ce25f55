----------------------------- MODULE DiceClient -----------------------------
(* The dice game in the browser (useSocket, gameStore, BetControls) against  *)
(* the room that feeds it: the store follows events that arrive in order on  *)
(* one connection and are lost with it.  A bet is written down when it is   *)
(* sent, and corrected by what is heard.  Amounts, balances and timers are   *)
(* left out; RESULT and SETTLED are one phase, no event tells them apart.    *)
EXTENDS Naturals, Sequences, FiniteSets, SequencesExt

CONSTANTS MaxRounds, MaxWire, MaxLinks, MaxBets,   \* bounds of the instance
          KeptBets, KeptOrbs                       \* records and results the store keeps

VARIABLES
    active,  \* the engine's round: its number and phase
    drawn,   \* the side each round came to
    bets,    \* place_bet requests: round on screen, side, connection; what became of them
    wire,    \* events on their way to the browser
    link,    \* the connection: its number; down, joining its rooms, or up
    store    \* gameStore

diceVars == <<active, drawn, bets, wire, link, store>>

Sides == {"LOW", "HIGH"}
Null == "none"  \* null
Fresh == [round |-> 0, phase |-> "waiting", funded |-> FALSE, bet |-> Null, toast |-> Null,
          orbs |-> <<>>, mine |-> <<>>]

Init ==
    /\ active = [n |-> 0, phase |-> "result"] /\ drawn = <<>> /\ bets = <<>> /\ wire = <<>>
    /\ link = [no |-> 0, st |-> "down"] /\ store = Fresh

-----------------------------------------------------------------------------
(* The room.                                                                *)

Connected == link.st # "down"
Emit(e) == wire' = IF Connected THEN Append(wire, e) ELSE wire
StateEvent(r) == [kind |-> "state", round |-> r.n, phase |-> r.phase]
Room == Len(wire) < MaxWire

\* The engine opens, rolls and reveals a round; settling is not announced.
Open ==
    /\ Room /\ active.phase = "result" /\ active.n < MaxRounds
    /\ active' = [n |-> active.n + 1, phase |-> "open"] /\ Emit(StateEvent(active'))
    /\ UNCHANGED <<drawn, bets, link, store>>

Roll ==
    /\ Room /\ active.phase = "open" /\ active' = [active EXCEPT !.phase = "rolling"]
    /\ Emit(StateEvent(active')) /\ UNCHANGED <<drawn, bets, link, store>>

Reveal ==
    /\ Room /\ active.phase = "rolling" /\ active' = [active EXCEPT !.phase = "result"]
    /\ \E side \in Sides :
         /\ drawn' = Append(drawn, side)
         /\ Emit([kind |-> "result", round |-> active.n, side |-> side])
    /\ UNCHANGED <<bets, link, store>>

\* place_bet reaches the engine: it names no round and goes to the one that is open; when
\* none is, the answer is an acknowledgement this client does not ask for.
Receive(i) ==
    /\ bets[i].st = "sent"
    /\ bets' = [bets EXCEPT
         ![i].st = IF link.st # "up" THEN "lost" ELSE IF active.phase = "open" THEN "asking" ELSE "refused",
         ![i].at = IF link.st = "up" /\ active.phase = "open" THEN active.n ELSE 0]
    /\ UNCHANGED <<active, drawn, wire, link, store>>

\* The checks and the wallet have spoken, however long they took: balance_update, or
\* bet_rejected, which names no round.
Answer(i) ==
    /\ Room /\ bets[i].st = "asking"
    /\ \E st \in {"accepted", "rejected"} :
         /\ bets' = [bets EXCEPT ![i].st = st, ![i].heardIn = active.n,
                                 ![i].after = active.phase = "result"]
         /\ IF st = "rejected" THEN Emit([kind |-> "rejected"]) ELSE UNCHANGED wire
    /\ UNCHANGED <<active, drawn, link, store>>

\* The connection is lost with what was on it; the next one is in the room at once.
Drop ==
    /\ Connected /\ link' = [link EXCEPT !.st = "down"] /\ wire' = <<>>
    /\ bets' = [i \in DOMAIN bets |-> IF bets[i].st = "sent" THEN [bets[i] EXCEPT !.st = "lost"]
                                      ELSE bets[i]]
    /\ UNCHANGED <<active, drawn, store>>

Connect ==
    /\ ~Connected /\ link.no < MaxLinks /\ link' = [no |-> link.no + 1, st |-> "joining"]
    /\ UNCHANGED <<active, drawn, bets, wire, store>>

\* The engine is there: a snapshot of its round, then the balance, and from now on the
\* handlers.  The events of the room were heard before.
Join ==
    /\ Room /\ link.st = "joining" /\ link' = [link EXCEPT !.st = "up"]
    /\ Emit([kind |-> "snapshot", round |-> active.n, phase |-> active.phase])
    /\ UNCHANGED <<active, drawn, bets, store>>

-----------------------------------------------------------------------------
(* The browser.                                                             *)

LastOf(s, n) == IF Len(s) > n THEN SubSeq(s, Len(s) - n + 1, Len(s)) ELSE s

\* Mutant: cut before the record is added.
addPlayerBetLonger(s, rec) ==
    IF \E k \in DOMAIN s : s[k].round = rec.round THEN s ELSE Append(LastOf(s, KeptBets), rec)

addPlayerBet(s, rec) ==
    IF \E k \in DOMAIN s : s[k].round = rec.round THEN s ELSE LastOf(Append(s, rec), KeptBets)

\* Mutant: the newest result first.
addHistoryEntryFirst(s, e) ==
    IF \E k \in DOMAIN s : s[k].round = e.round THEN s ELSE LastOf(<<e>> \o s, KeptOrbs)

addHistoryEntry(s, e) ==
    IF \E k \in DOMAIN s : s[k].round = e.round THEN s ELSE LastOf(Append(s, e), KeptOrbs)

\* Mutant: every record takes the outcome.
resolveAllBets(s, round, side, payout) ==
    [k \in DOMAIN s |->
        [s[k] EXCEPT !.status = IF s[k].side = side THEN "WIN" ELSE "LOSS",
                     !.payout = IF s[k].side = side THEN payout ELSE 0]]

resolvePlayerBet(s, round, side, payout) ==
    [k \in DOMAIN s |->
        IF s[k].round # round THEN s[k]
        ELSE [s[k] EXCEPT !.status = IF s[k].side = side THEN "WIN" ELSE "LOSS",
                          !.payout = IF s[k].side = side THEN payout ELSE 0]]

\* Mutant: the bet on screen does not matter.
canBetTwice == Connected /\ store.phase = "open" /\ store.funded

\* The button: betting is open, a balance covers the stake and no bet is on screen.
canBet == Connected /\ store.phase = "open" /\ store.funded /\ store.bet = Null

\* placeBet(): the request goes out, and the record is made before it is answered.
Place(side) ==
    /\ canBet /\ Len(bets) < MaxBets
    /\ bets' = Append(bets, [for |-> store.round, side |-> side, link |-> link.no, at |-> 0,
                             st |-> "sent", heardIn |-> 0, after |-> FALSE])
    /\ store' = [store EXCEPT !.bet = side,
                    !.mine = addPlayerBet(@, [round |-> store.round, side |-> side,
                                              status |-> "PENDING", payout |-> 0])]
    /\ UNCHANGED <<active, drawn, wire, link>>

\* round_state: a round that opens clears the screen.
onRoundState(e) ==
    LET s == [store EXCEPT !.round = e.round, !.phase = e.phase] IN
    IF e.phase = "open" THEN [s EXCEPT !.bet = Null, !.toast = Null] ELSE s

\* Mutant: the win shows without a payout in the record.
onRoundResultNoPayout(e) ==
    [store EXCEPT !.phase = "result",
        !.orbs = addHistoryEntry(@, [round |-> e.round, side |-> e.side]),
        !.toast = IF store.bet = Null THEN @ ELSE IF store.bet = e.side THEN "win" ELSE "loss",
        !.mine = resolvePlayerBet(@, e.round, e.side, 0)]

\* round_result: the result, the toast from the bet on screen, the record of the round.
onRoundResult(e) ==
    [store EXCEPT !.phase = "result",
        !.orbs = addHistoryEntry(@, [round |-> e.round, side |-> e.side]),
        !.toast = IF store.bet = Null THEN @ ELSE IF store.bet = e.side THEN "win" ELSE "loss",
        !.mine = resolvePlayerBet(@, e.round, e.side, IF store.bet = e.side THEN 2 ELSE 0)]

\* Mutant: the bet leaves the screen and the record stays.
onBetRejectedKeeps == [store EXCEPT !.bet = Null]

\* bet_rejected: with no round in it, it is taken to be about the round on screen.
onBetRejected ==
    [store EXCEPT !.bet = Null,
        !.mine = SelectSeq(@, LAMBDA r : ~(r.round = store.round /\ r.status = "PENDING"))]

\* The snapshot is a round_state like another, when there is a round; the balance follows.
onSnapshot(e) == [IF e.round = 0 THEN store ELSE onRoundState(e) EXCEPT !.funded = TRUE]

\* The next event is heard.
Hear ==
    /\ Connected /\ wire # <<>> /\ wire' = Tail(wire)
    /\ LET e == Head(wire) IN
       store' = CASE e.kind = "state" -> onRoundState(e)
                  [] e.kind = "snapshot" -> onSnapshot(e)
                  [] e.kind = "result" -> onRoundResult(e)
                  [] OTHER -> onBetRejected
    /\ UNCHANGED <<active, drawn, bets, link>>

Next ==
    \/ Open \/ Roll \/ Reveal \/ Drop \/ Connect \/ Join \/ Hear
    \/ \E i \in DOMAIN bets : Receive(i) \/ Answer(i)
    \/ \E side \in Sides : Place(side)

-----------------------------------------------------------------------------
(* Properties.                                                              *)

Phases == {"open", "rolling", "result"}

TypeOK ==
    /\ active \in [n : 0..MaxRounds, phase : Phases] /\ drawn \in Seq(Sides)
    /\ store.round \in 0..MaxRounds /\ store.phase \in Phases \cup {"waiting"}
    /\ store.bet \in Sides \cup {Null} /\ store.toast \in {Null, "win", "loss"}
    /\ Len(store.mine) <= KeptBets /\ Len(store.orbs) <= KeptOrbs
    /\ \A i \in DOMAIN bets :
         bets[i].st \in {"sent", "asking", "accepted", "rejected", "refused", "lost"}

\* One connection so far, and every event of it heard.
Calm == link.no <= 1 /\ Connected
Heard == Calm /\ wire = <<>>

\* A rejection told in the round, other than bet i's own.
Crossed(i) ==
    \E j \in DOMAIN bets \ {i} : bets[j].st = "rejected" /\ bets[j].heardIn = bets[i].for

\* addHistoryEntry: the orbs are results of the server, each round once and in order, and
\* on an unbroken connection the last ones without a gap.
OrbsAreResults ==
    /\ \A k \in DOMAIN store.orbs : store.orbs[k].side = drawn[store.orbs[k].round]
    /\ \A k \in 1..(Len(store.orbs) - 1) :
         /\ store.orbs[k].round < store.orbs[k + 1].round
         /\ Calm => store.orbs[k + 1].round = store.orbs[k].round + 1

\* resolvePlayerBet, addPlayerBet: a record that has a status has it from its own round,
\* which is drawn; and a record still PENDING on an unbroken connection is of the round on
\* screen, not yet revealed.
RecordsResolve ==
    \A k \in DOMAIN store.mine :
        LET r == store.mine[k] IN
        /\ r.status # "PENDING" => /\ r.round \in DOMAIN drawn
                                   /\ r.status = "WIN" <=> r.side = drawn[r.round]
        /\ r.status = "PENDING" /\ Calm => r.round = store.round /\ store.phase # "result"

\* placeBet, bet_rejected: on an unbroken connection whose events are heard, a bet accepted
\* in the round it was placed for is in the list, unless a rejection of another bet
\* was told in that round; and one rejected before its round was revealed is not.
RecordsAreBets ==
    Heard => \A i \in DOMAIN bets :
        LET b == bets[i]
            recorded == \E k \in DOMAIN store.mine :
                           store.mine[k].round = b.for /\ store.mine[k].side = b.side
            newer == {bets[j].for : j \in {j \in DOMAIN bets : bets[j].for > b.for}}
        IN /\ b.st = "accepted" /\ b.at = b.for /\ ~Crossed(i) /\ Cardinality(newer) < KeptBets
                => recorded
           /\ b.st = "rejected" /\ b.heardIn = b.for /\ ~b.after
              /\ (\A j \in DOMAIN bets \ {i} : bets[j].for # b.for) => ~recorded

\* setLastWinMicro, resolvePlayerBet: on an unbroken connection the toast over the result
\* and the record of the round say the same, and a record that won has a payout.
ToastIsTheRecord ==
    Calm =>
        /\ store.phase = "result" =>
             LET won == \E k \in DOMAIN store.mine :
                            store.mine[k].round = store.round /\ store.mine[k].status = "WIN"
             IN store.toast = "win" <=> won
        /\ \A k \in DOMAIN store.mine : store.mine[k].status = "WIN" => store.mine[k].payout > 0

\* BetControls: before any reconnection, a second bet in a round comes only after a
\* rejection was told in the round.
OneBetARound ==
    \A i, j \in DOMAIN bets :
        i < j /\ bets[i].for = bets[j].for /\ bets[j].link = 1
        => \E k \in DOMAIN bets : bets[k].st = "rejected" /\ bets[k].heardIn = bets[i].for
=============================================================================
