----------------------------- MODULE BetLimits -----------------------------
(* The responsible-gaming limits of one player: the checks of a bet, the    *)
(* debit that follows them and the results that come back, over the         *)
(* player's sessions and over midnight.  A step is the code between two     *)
(* awaits.                                                                  *)
EXTENDS JurisdictionRules, Functions

CONSTANTS Bets, Seats,        \* bets; sessions of the player
          Stakes, Prizes,
          SessionWager, SessionLoss, DailyWager, DailyLoss   \* rgLimits, NoLimit: none

VARIABLES bet, day,           \* Bet; the UTC day
          raced               \* history: bets whose checks overlapped, or that crossed midnight

limitVars == <<bet, day, raced>>

NoBet == [pc |-> "none", seat |-> CHOOSE s \in Seats : TRUE, stake |-> 0, won |-> 0, day |-> 0]

LimitInit == bet = [b \in Bets |-> NoBet] /\ day = 0 /\ raced = FALSE

Counted == {b \in Bets : bet[b].pc \in {"ACCEPTED", "SETTLED"}}
Undecided == {b \in Bets : bet[b].pc \in {"checked", "allowed", "PENDING"}}

\* aggregateLoss(): what was staked, and what of it did not come back; a bet without a
\* result counts as lost.
Wagered(bs) == SumFunctionOnSet([b \in Bets |-> bet[b].stake], bs)
NetLoss(bs) == Wagered(bs) - SumFunctionOnSet([b \in Bets |-> bet[b].won], bs)

OfSeat(s) == {b \in Counted : bet[b].seat = s}
OfDay == {b \in Counted : bet[b].day = day}

Fits(sum, stake, limit) == limit = NoLimit \/ sum + stake <= limit

\* checkRGLimits(), the session's totals.
CheckSession(b, s, stake) ==
    /\ bet[b] = NoBet
    /\ Fits(Wagered(OfSeat(s)), stake, SessionWager) /\ Fits(NetLoss(OfSeat(s)), stake, SessionLoss)
    /\ bet' = [bet EXCEPT ![b] = [NoBet EXCEPT !.pc = "checked", !.seat = s, !.stake = stake,
                                               !.day = day]]
    /\ raced' = (raced \/ Undecided # {})
    /\ UNCHANGED day

\* Mutant: the day's totals are those of the session.
CheckDayOfSeat(b) ==
    LET mine == OfSeat(bet[b].seat) IN
    /\ bet[b].pc = "checked"
    /\ bet' = [bet EXCEPT ![b] = IF Fits(Wagered(mine), @.stake, DailyWager)
                                    /\ Fits(NetLoss(mine), @.stake, DailyLoss)
                                   THEN [@ EXCEPT !.pc = "allowed"] ELSE NoBet]
    /\ UNCHANGED <<day, raced>>

\* ... and the totals of the player's day, over every session.
CheckDay(b) ==
    /\ bet[b].pc = "checked"
    /\ bet' = [bet EXCEPT ![b] = IF Fits(Wagered(OfDay), @.stake, DailyWager)
                                    /\ Fits(NetLoss(OfDay), @.stake, DailyLoss)
                                   THEN [@ EXCEPT !.pc = "allowed"] ELSE NoBet]
    /\ UNCHANGED <<day, raced>>

\* The Bet row is created (placedAt) and the operator is asked.
Place(b) ==
    /\ bet[b].pc = "allowed" /\ bet' = [bet EXCEPT ![b].pc = "PENDING", ![b].day = day]
    /\ raced' = (raced \/ bet[b].day # day)
    /\ UNCHANGED day

\* The operator's answer.
Answered(b) ==
    /\ bet[b].pc = "PENDING"
    /\ \E pc \in {"ACCEPTED", "REJECTED"} : bet' = [bet EXCEPT ![b].pc = pc]
    /\ UNCHANGED <<day, raced>>

\* Mutant: a refunded bet keeps its prize.
ResultKeepsPrize(b) ==
    /\ bet[b].pc = "ACCEPTED"
    /\ \E p \in Prizes \cup {0}, pc \in {"SETTLED", "ROLLED_BACK"} :
         bet' = [bet EXCEPT ![b].pc = pc, ![b].won = p]
    /\ UNCHANGED <<day, raced>>

\* The round's result: a prize, a loss, or a refund.
Result(b) ==
    /\ bet[b].pc = "ACCEPTED"
    /\ \/ \E p \in Prizes \cup {0} : bet' = [bet EXCEPT ![b].pc = "SETTLED", ![b].won = p]
       \/ bet' = [bet EXCEPT ![b].pc = "ROLLED_BACK"]
    /\ UNCHANGED <<day, raced>>

Midnight == day = 0 /\ day' = 1 /\ UNCHANGED <<bet, raced>>

LimitNext ==
    \/ Midnight
    \/ \E b \in Bets :
         \/ CheckDay(b) \/ Place(b) \/ Answered(b) \/ Result(b)
         \/ \E s \in Seats, k \in Stakes : CheckSession(b, s, k)

-----------------------------------------------------------------------------
(* Properties.                                                              *)

LimitTypeOK ==
    /\ day \in 0..1 /\ raced \in BOOLEAN
    /\ \A b \in Bets :
         /\ bet[b].pc \in {"none", "checked", "allowed", "PENDING", "ACCEPTED", "REJECTED",
                           "SETTLED", "ROLLED_BACK"}
         /\ bet[b].won > 0 => bet[b].pc = "SETTLED" /\ bet[b].won \in Prizes
         /\ bet[b].pc # "none" => bet[b].stake \in Stakes

\* The limits hold for each session and for the player's day, whatever sessions the
\* bets come from and whatever comes back, as long as no two bets are checked at once
\* and none is checked before midnight and placed after it.
LimitsHold ==
    ~raced =>
        /\ \A s \in Seats :
             /\ SessionWager # NoLimit => Wagered(OfSeat(s)) <= SessionWager
             /\ SessionLoss # NoLimit => NetLoss(OfSeat(s)) <= SessionLoss
        /\ DailyWager # NoLimit => Wagered(OfDay) <= DailyWager
        /\ DailyLoss # NoLimit => NetLoss(OfDay) <= DailyLoss

-----------------------------------------------------------------------------
(* The pure rules, over every input of a bounded set.                       *)

\* A bet is allowed if and only if it keeps every rule of its jurisdiction.
Codes == {"GB", "DE", "ES", "ON", "MT", "SE", "RO", "BR", "HN", "INTL", "MULTI", "XX"}
BreachIsExact ==
    \A code \in Codes :
        LET r == getJurisdiction(code) IN
        \A b \in [currency : {"EUR", "GBP", "CAD"}, mode : {"real", "demo"}, kyc : BOOLEAN,
                  stake : 1..3, autoplay : BOOLEAN, turbo : BOOLEAN, since : {NoLimit, 0, 4, 5, 9, 10}] :
            Breach(r, b) = "none" <=>
                /\ r.currencies # {} => b.currency \in r.currencies
                /\ b.mode = "demo" => r.demoWithoutKyc \/ b.kyc
                /\ r.maxStake = NoLimit \/ b.stake \in 1..r.maxStake
                /\ b.autoplay => r.autoplay
                /\ b.turbo => r.turbo
                /\ b.since > 0 => b.since >= r.minSpin

\* "Operator limits can be tighter than the regulation but never looser."
FloorOnlyTightens ==
    \A a, b \in NoLimit..3 :
        LET t == Tightest(a, b) IN
        /\ t \in {a, b} /\ (a # NoLimit => t # NoLimit /\ t <= a) /\ (b # NoLimit => t # NoLimit /\ t <= b)

\* A range holds the addresses that share its first bits, in either family.
Address == [1..2 -> 0..(2^ByteBits - 1)]
Bit(bytes, n) == (bytes[((n - 1) \div ByteBits) + 1] \div 2^(ByteBits - 1 - ((n - 1) % ByteBits))) % 2
RangeIsPrefix ==
    \A family \in {"v4", "v6"}, bits \in 0..(2 * ByteBits), a, b \in Address :
        MatchIp([family |-> family, bytes |-> a], [family |-> family, bytes |-> b, bits |-> bits]) <=>
            \A n \in 1..bits : Bit(a, n) = Bit(b, n)

\* Once a list is set nobody is let in from a country off the list, or from nowhere, and
\* the operator's word goes before the edge's.
GeoFailsClosed ==
    \A list \in SUBSET {"MT", "GB"}, body, header \in {"none", "MT", "GB", "DE"} :
        list # {} /\ CountryAllowed(list, body, header) =>
            \/ body \in list
            \/ body = "none" /\ header \in list
=============================================================================
