----------------------------- MODULE CrashClient ----------------------------
(* The crash game in the browser (useLempiSocket, LempiStore, LempiControls): *)
(* two slots that follow acknowledgements, cash-outs and round events, and   *)
(* the list of past bets that is merged from the server's page and from what *)
(* the slots showed.  Events and acknowledgements share one ordered          *)
(* connection.  Amounts, multipliers, toasts and the pool are left out.      *)
EXTENDS Naturals, Sequences, FiniteSets, SequencesExt

CONSTANTS MaxRounds, MaxWire, MaxLinks, MaxBets,   \* bounds of the instance
          KeptEntries                              \* entries the history keeps

VARIABLES
    flight,   \* the engine's round: its number and phase
    bets,     \* place_bet requests and what became of them
    wire,     \* events and acknowledgements on their way to the browser
    link,     \* the connection: its number; down, joining its rooms, or up
    page,     \* GET /v1/session/history: asked, the page on its way, or taken
    store     \* LempiStore

crashVars == <<flight, bets, wire, link, page, store>>

Slots == {"A", "B"}
makeSlot == [st |-> "IDLE", bet |-> 0]
Fresh == [round |-> 0, phase |-> "waiting", funded |-> FALSE, slots |-> [s \in Slots |-> makeSlot], history |-> <<>>]

Init ==
    /\ flight = [n |-> 0, phase |-> "settled"] /\ bets = <<>> /\ wire = <<>>
    /\ link = [no |-> 0, st |-> "down"] /\ page = [pc |-> "asked", entries |-> <<>>]
    /\ store = Fresh

-----------------------------------------------------------------------------
(* The engine.                                                              *)

Connected == link.st # "down"
Emit(e) == wire' = IF Connected THEN Append(wire, e) ELSE wire
StateEvent(r) == [kind |-> "state", round |-> r.n, phase |-> r.phase]
Room == Len(wire) < MaxWire

\* Told in another round than the one the bet was placed for, or after its result.
Late(b) == flight.n # b.for \/ flight.phase \notin {"open", "rolling"}

Open ==
    /\ Room /\ flight.phase = "settled" /\ flight.n < MaxRounds
    /\ flight' = [n |-> flight.n + 1, phase |-> "open"] /\ Emit(StateEvent(flight'))
    /\ UNCHANGED <<bets, link, page, store>>

Fly ==
    /\ Room /\ flight.phase = "open" /\ flight' = [flight EXCEPT !.phase = "rolling"]
    /\ Emit(StateEvent(flight')) /\ UNCHANGED <<bets, link, page, store>>

Crash ==
    /\ Room /\ flight.phase = "rolling" /\ flight' = [flight EXCEPT !.phase = "result"]
    /\ Emit([kind |-> "result"]) /\ UNCHANGED <<bets, link, page, store>>

\* The bets of the round are settled: lost, until a cash-out that is still asking is paid.
Settle ==
    /\ flight.phase = "result" /\ flight' = [flight EXCEPT !.phase = "settled"]
    /\ bets' = [i \in DOMAIN bets |->
                  [bets[i] EXCEPT !.over = @ \/ (bets[i].st = "accepted" /\ bets[i].at = flight.n)]]
    /\ UNCHANGED <<wire, link, page, store>>

\* place_bet arrives: the wallet is asked when betting is open.
Receive(i) ==
    /\ bets[i].st = "sent"
    /\ bets' = [bets EXCEPT
         ![i].st = IF link.st # "up" THEN "lost" ELSE IF flight.phase = "open" THEN "asking" ELSE "refused",
         ![i].at = IF link.st = "up" /\ flight.phase = "open" THEN flight.n ELSE 0]
    /\ UNCHANGED <<flight, wire, link, page, store>>

\* The bet is accepted or refused; the acknowledgement waits for the pool to be read.
Answer(i) ==
    /\ bets[i].st = "asking"
    /\ \E st \in {"accepted", "refused"} : bets' = [bets EXCEPT ![i].st = st]
    /\ UNCHANGED <<flight, wire, link, page, store>>

Acknowledge(i) ==
    /\ Room /\ bets[i].st \in {"accepted", "refused"} /\ ~bets[i].acked
    /\ bets' = [bets EXCEPT ![i].acked = TRUE, ![i].late = @ \/ Late(bets[i])]
    /\ IF bets[i].link = link.no
         THEN Emit([kind |-> "ack", bet |-> i, slot |-> bets[i].slot, ok |-> bets[i].st = "accepted"])
         ELSE UNCHANGED wire
    /\ UNCHANGED <<flight, link, page, store>>

\* A cash-out begins: the automatic one, or the one the player asked for, which is refused
\* - a notice - when it is not the first or the flight is over.
StartCashout(i) ==
    /\ flight.phase = "rolling" /\ bets[i].st = "accepted" /\ bets[i].at = flight.n
    /\ bets[i].cash = "no" /\ bets' = [bets EXCEPT ![i].cash = "asking"]
    /\ UNCHANGED <<flight, wire, link, page, store>>

\* The win is recorded, paid or owed, and the player is told by the slot.
FinishCashout(i) ==
    /\ Room /\ bets[i].cash = "asking"
    /\ bets' = [bets EXCEPT ![i].cash = "paid", ![i].late = @ \/ Late(bets[i]),
                            ![i].ahead = ~bets[i].acked]
    /\ Emit([kind |-> "cashout", slot |-> bets[i].slot])
    /\ UNCHANGED <<flight, link, page, store>>

\* The history is read: the newest bets that are settled, oldest first.
ReadHistory ==
    LET settled == SelectSeq([i \in DOMAIN bets |-> i],
                             LAMBDA i : bets[i].over \/ bets[i].cash = "paid")
    IN /\ page.pc = "asked"
       /\ page' = [pc |-> "coming",
                   entries |-> [k \in DOMAIN settled |->
                      [bet |-> settled[k], round |-> bets[settled[k]].at,
                       result |-> IF bets[settled[k]].cash = "paid" THEN "WIN" ELSE "LOSS"]]]
       /\ UNCHANGED <<flight, bets, wire, link, store>>

\* The connection is lost with what was on it; the next one is in the room at once.
Drop ==
    /\ Connected /\ link' = [link EXCEPT !.st = "down"] /\ wire' = <<>>
    /\ bets' = [i \in DOMAIN bets |-> IF bets[i].st = "sent" THEN [bets[i] EXCEPT !.st = "lost"]
                                      ELSE bets[i]]
    /\ UNCHANGED <<flight, page, store>>

Connect ==
    /\ ~Connected /\ link.no < MaxLinks /\ link' = [no |-> link.no + 1, st |-> "joining"]
    /\ UNCHANGED <<flight, bets, page, wire, store>>

\* The engine is there: a snapshot of its round, then the balance, and from now on the
\* handlers.  The events of the room were heard before.
Join ==
    /\ Room /\ link.st = "joining" /\ link' = [link EXCEPT !.st = "up"]
    /\ Emit([kind |-> "snapshot", round |-> flight.n, phase |-> flight.phase])
    /\ UNCHANGED <<flight, bets, page, store>>

-----------------------------------------------------------------------------
(* The browser.                                                             *)

KeepLast(s) == IF Len(s) > KeptEntries THEN SubSeq(s, Len(s) - KeptEntries + 1, Len(s)) ELSE s

\* Mutant: entries are appended, whatever is there.
mergeHistoryAppends(current, incoming) == KeepLast(current \o incoming)

\* mergeHistory(): one entry for a bet, the later one, where the earlier one stood.
mergeHistory(current, incoming) ==
    LET put(s, e) == IF \E k \in DOMAIN s : s[k].bet = e.bet
                     THEN [k \in DOMAIN s |-> IF s[k].bet = e.bet THEN e ELSE s[k]]
                     ELSE Append(s, e)
    IN KeepLast(FoldLeft(put, <<>>, current \o incoming))

setSlot(slot, st, bet) == [store EXCEPT !.slots[slot] = [st |-> st, bet |-> bet]]

\* Mutant: a slot may launch while its bet flies.
canLaunchAgain(slot) == store.phase = "open" /\ store.funded /\ store.slots[slot].st \in {"IDLE", "ACTIVE"}

\* The button of a slot: LANZAR while betting is open and a balance is there, RETIRAR in flight.
canLaunch(slot) == store.phase = "open" /\ store.funded /\ store.slots[slot].st = "IDLE"
canCashOut(slot) == store.phase = "rolling" /\ store.slots[slot].st = "ACTIVE"

\* placeBet(): the slot waits for the acknowledgement.
Place(slot) ==
    /\ Connected /\ canLaunch(slot) /\ Len(bets) < MaxBets
    /\ bets' = Append(bets, [slot |-> slot, for |-> store.round, link |-> link.no, at |-> 0,
                             st |-> "sent", acked |-> FALSE, cash |-> "no", over |-> FALSE,
                             late |-> FALSE, ahead |-> FALSE])
    /\ store' = setSlot(slot, "PENDING", 0)
    /\ UNCHANGED <<flight, wire, link, page>>

\* cashOut(): the bet of the slot is named; how long the request takes adds nothing to
\* when an automatic cash-out may begin.
CashOut(slot) ==
    LET i == store.slots[slot].bet IN
    link.st = "up" /\ canCashOut(slot) /\ i # 0 /\ StartCashout(i)

\* Mutant: whatever the answer, the bet is taken to be placed.
onAckAlways(e) == setSlot(e.slot, "ACTIVE", e.bet)

\* Mutant: a refusal is only a notice.
onAckIgnoresRefusal(e) == IF e.ok THEN setSlot(e.slot, "ACTIVE", e.bet) ELSE store

\* The acknowledgement: the slot has its bet, or is free again.
onAck(e) == IF e.ok THEN setSlot(e.slot, "ACTIVE", e.bet) ELSE setSlot(e.slot, "IDLE", 0)

resetSlotsForRound(s) == [s EXCEPT !.slots = [slot \in Slots |-> makeSlot]]

\* Mutant: the slots keep what they show from round to round.
onRoundStateKeeps(e) == [store EXCEPT !.round = e.round, !.phase = e.phase]

\* round_state: a round that opens clears the slots.
onRoundState(e) ==
    LET s == [store EXCEPT !.round = e.round, !.phase = e.phase] IN
    IF e.phase = "open" THEN resetSlotsForRound(s) ELSE s

\* cashout_accepted: by the slot, whichever bet it holds by now.
onCashoutAccepted(e) == [store EXCEPT !.slots[e.slot].st = "CASHED_OUT"]

\* Mutant: whatever is still in the air counts as won.
resultOfActiveWins(slot) == IF store.slots[slot].st \in {"CASHED_OUT", "ACTIVE"} THEN "WIN" ELSE "LOSS"

resultOf(slot) == IF store.slots[slot].st = "CASHED_OUT" THEN "WIN" ELSE "LOSS"

\* round_result: an entry for each slot that knows its bet; what is still out is lost.
onRoundResult ==
    LET named == SelectSeq(<<"A", "B">>, LAMBDA s : store.slots[s].bet # 0) IN
    [store EXCEPT !.phase = "result",
        !.history = mergeHistory(@, [k \in DOMAIN named |->
            [bet |-> store.slots[named[k]].bet, round |-> store.round, result |-> resultOf(named[k])]]),
        !.slots = [s \in Slots |-> IF @[s].st \in {"ACTIVE", "PENDING"}
                                   THEN [@[s] EXCEPT !.st = "LOST"] ELSE @[s]]]

\* The snapshot is a round_state like another, when there is a round; the balance follows.
onSnapshot(e) == [IF e.round = 0 THEN store ELSE onRoundState(e) EXCEPT !.funded = TRUE]

\* The next event is heard.
Hear ==
    /\ Connected /\ wire # <<>> /\ wire' = Tail(wire)
    /\ LET e == Head(wire) IN
       store' = CASE e.kind = "state" -> onRoundState(e)
                  [] e.kind = "snapshot" -> onSnapshot(e)
                  [] e.kind = "result" -> onRoundResult
                  [] e.kind = "ack" -> onAck(e)
                  [] OTHER -> onCashoutAccepted(e)
    /\ UNCHANGED <<flight, bets, link, page>>

\* hydrateBetHistory(): the server's page goes first, what the slots showed overrides it.
Hydrate ==
    /\ page.pc = "coming" /\ page' = [pc |-> "taken", entries |-> <<>>]
    /\ store' = [store EXCEPT !.history = mergeHistory(page.entries, @)]
    /\ UNCHANGED <<flight, bets, wire, link>>

Next ==
    \/ Open \/ Fly \/ Crash \/ Settle \/ ReadHistory \/ Drop \/ Connect \/ Join \/ Hear \/ Hydrate
    \/ \E i \in DOMAIN bets :
         \/ Receive(i) \/ Answer(i) \/ Acknowledge(i)
         \/ StartCashout(i) \/ FinishCashout(i)
    \/ \E slot \in Slots : Place(slot) \/ CashOut(slot)

-----------------------------------------------------------------------------
(* Properties.                                                              *)

Phases == {"open", "rolling", "result", "settled"}

TypeOK ==
    /\ flight \in [n : 0..MaxRounds, phase : Phases]
    /\ store.round \in 0..MaxRounds /\ store.phase \in Phases \cup {"waiting"}
    /\ page.pc \in {"asked", "coming", "taken"} /\ Len(store.history) <= KeptEntries /\ Len(store.history) <= Len(bets)
    /\ \A s \in Slots :
         /\ store.slots[s].st \in {"IDLE", "PENDING", "ACTIVE", "CASHED_OUT", "LOST"}
         /\ store.slots[s].bet \in 0..Len(bets)
    /\ \A i \in DOMAIN bets :
         /\ bets[i].st \in {"sent", "asking", "accepted", "refused", "lost"}
         /\ bets[i].cash \in {"no", "asking", "paid"}

\* One connection so far, and every event of it heard.
Calm == link.no <= 1 /\ Connected
Heard == Calm /\ wire = <<>>

\* Nothing about the slot's bets was told late, or a cash-out before the bet itself.
InStep(slot) == \A i \in DOMAIN bets : bets[i].slot = slot => ~bets[i].late /\ ~bets[i].ahead

\* mergeHistory: an entry is of a bet the server accepted, and there is one for a bet.
HistoryOnce ==
    /\ \A k \in DOMAIN store.history : bets[store.history[k].bet].st = "accepted"
    /\ \A k, m \in DOMAIN store.history :
         store.history[k].bet = store.history[m].bet => k = m

\* round_result, cashout_accepted: while answers come in their round and the connection
\* holds, the history says WIN of exactly the bets that were paid, in the round they flew.
HistoryIsTheLedger ==
    Heard => \A k \in DOMAIN store.history :
        LET e == store.history[k]
            b == bets[e.bet]
        IN InStep(b.slot) => e.round = b.at /\ (e.result = "WIN" <=> b.cash = "paid")

\* placeBet's acknowledgement, resetSlotsForRound: in the same conditions a slot that is
\* ACTIVE or CASHED_OUT shows a bet of its own, of the round on screen, that is accepted,
\* or paid.
SlotIsMyBet ==
    Calm => \A s \in Slots :
        LET slot == store.slots[s] IN
        InStep(s) /\ slot.st \in {"ACTIVE", "CASHED_OUT"} =>
            /\ slot.bet # 0 /\ bets[slot.bet].slot = s
            /\ bets[slot.bet].st = "accepted" /\ bets[slot.bet].at = store.round
            /\ slot.st = "CASHED_OUT" => bets[slot.bet].cash = "paid"

\* placeBet: in the same conditions a slot that waits has a request that is not answered,
\* or the answer is on its way.
PendingIsAnswered ==
    Heard => \A s \in Slots :
        InStep(s) /\ store.slots[s].st = "PENDING" =>
            \E i \in DOMAIN bets :
                /\ bets[i].slot = s /\ bets[i].for = store.round
                /\ bets[i].st \in {"sent", "asking"} \/ ~bets[i].acked

\* LempiControls: a slot bets twice in a round only when the first bet was refused, after
\* a reconnection, or when an answer came late.
OneBetASlot ==
    \A i, j \in DOMAIN bets :
        i < j /\ bets[i].slot = bets[j].slot /\ bets[i].for = bets[j].for
              /\ bets[j].link = 1 /\ InStep(bets[i].slot)
        => bets[i].st = "refused"
=============================================================================
