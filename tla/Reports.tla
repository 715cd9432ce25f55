------------------------------ MODULE Reports -------------------------------
(* What the portals add up.  Bets go through their life at the operator and  *)
(* in our table while hours pass; every page is a sum over the table with    *)
(* its own conditions on status, result and time.  "ledger" is what really   *)
(* happened to the player's balance, which no page reads.                    *)
EXTENDS Integers, FiniteSets, SequencesExt, TLC

CONSTANTS
    Operators,      \* [name, currency, listed]: the default currency; not terminated, not a test
    Currencies,
    Stake, Win,
    MaxBets, MaxHour,
    DayHours,       \* hours in a day
    Newest,         \* bets a session's page loads
    LowN, P99       \* rounds an observed RTP needs; the latency target in ms

VARIABLES bets, hour

vars == <<bets, hour>>

Status == {"PENDING", "ACCEPTED", "REJECTED", "SETTLED", "VOIDED", "FAILED"}
SumOf(S, amount(_)) == SumFunctionOnSet([x \in S |-> amount(x)], S)

Init == bets = <<>> /\ hour = 0

-----------------------------------------------------------------------------
(* The life of a bet, as GameEngine and PendingJobRunner write it.          *)

Becomes(i, bet) == bets' = [bets EXCEPT ![i] = bet] /\ UNCHANGED hour
In(i, status) == bets[i].status = status

Placed(o, c) ==
    /\ Len(bets) < MaxBets
    /\ bets' = Append(bets, [op |-> o, currency |-> c, status |-> "PENDING", won |-> "null", wonAmount |-> 0,
                             placed |-> hour, settled |-> -1, ledger |-> 0, owed |-> 0])
    /\ UNCHANGED hour

Debited(i) == In(i, "PENDING") /\ Becomes(i, [bets[i] EXCEPT !.status = "ACCEPTED", !.ledger = -Stake])
Rejected(i) == In(i, "PENDING") /\ Becomes(i, [bets[i] EXCEPT !.status = "REJECTED"])
\* Mutant: settled at the next hour.
LostLater(i) ==
    In(i, "ACCEPTED") /\ Becomes(i, [bets[i] EXCEPT !.status = "SETTLED", !.won = "false", !.settled = hour + 1])

Lost(i) ==
    In(i, "ACCEPTED") /\ Becomes(i, [bets[i] EXCEPT !.status = "SETTLED", !.won = "false", !.settled = hour])
Paid(i) ==
    In(i, "ACCEPTED") /\ Becomes(i, [bets[i] EXCEPT !.status = "SETTLED", !.won = "true", !.wonAmount = Win,
                                                    !.settled = hour, !.ledger = Win - Stake])
\* The operator did not answer the credit: the job will, and the bet is not
\* written again.  A cash-out has its result by then, a round's win has not.
WinDeferred(i) == In(i, "ACCEPTED") /\ Becomes(i, [bets[i] EXCEPT !.status = "FAILED", !.owed = Win])
CashoutDeferred(i) ==
    In(i, "ACCEPTED") /\ Becomes(i, [bets[i] EXCEPT !.status = "FAILED", !.won = "true", !.wonAmount = Win, !.owed = Win])
RetryPays(i) == bets[i].owed # 0 /\ Becomes(i, [bets[i] EXCEPT !.ledger = @ + bets[i].owed, !.owed = 0])
Voided(i) == In(i, "ACCEPTED") /\ Becomes(i, [bets[i] EXCEPT !.status = "VOIDED", !.ledger = 0])

Tick == hour < MaxHour /\ hour' = hour + 1 /\ UNCHANGED bets

Next ==
    \/ \E o \in Operators, c \in Currencies : Placed(o, c)
    \/ \E i \in DOMAIN bets : \/ Debited(i) \/ Rejected(i) \/ Lost(i) \/ Paid(i)
                              \/ WinDeferred(i) \/ CashoutDeferred(i) \/ RetryPays(i) \/ Voided(i)
    \/ Tick

-----------------------------------------------------------------------------
(* The sums.  A stake counts where it was placed, a win where it was paid.  *)

Staked(o, from, to) == {i \in DOMAIN bets : /\ bets[i].op = o /\ bets[i].currency = o.currency
                                            /\ bets[i].status \in {"ACCEPTED", "SETTLED"}
                                            /\ bets[i].placed >= from /\ bets[i].placed < to}
\* Mutant: the end belongs to the window.
WonThrough(o, from, to) == {i \in DOMAIN bets : /\ bets[i].op = o /\ bets[i].currency = o.currency
                                                /\ bets[i].won = "true"
                                                /\ bets[i].settled >= from /\ bets[i].settled <= to}

Won(o, from, to) == {i \in DOMAIN bets : /\ bets[i].op = o /\ bets[i].currency = o.currency
                                         /\ bets[i].won = "true"
                                         /\ bets[i].settled >= from /\ bets[i].settled < to}
Wins(S) == SumOf(S, LAMBDA i : bets[i].wonAmount)
Kpis(staked, won) == [bets |-> Cardinality(staked), volume |-> Stake * Cardinality(staked),
                      wins |-> Cardinality(won), paid |-> Wins(won),
                      ggr |-> Stake * Cardinality(staked) - Wins(won)]

\* The last day, up to and with this hour.
Since == hour - DayHours + 1
Listed == {o \in Operators : o.listed}
PlatformOverview ==
    LET row(o) == Kpis(Staked(o, Since, hour + 1), Won(o, Since, hour + 1)) IN
    [operators |-> [o \in Listed |-> row(o)],
     totals |-> [volume |-> SumOf(Listed, LAMBDA o : row(o).volume), paid |-> SumOf(Listed, LAMBDA o : row(o).paid),
                 ggr |-> SumOf(Listed, LAMBDA o : row(o).volume) - SumOf(Listed, LAMBDA o : row(o).paid)]]
AdminOverview(o) == Kpis(Staked(o, Since, hour + 1), Won(o, Since, hour + 1))
\* Mutant: the window is an hour longer.
DrillDownWider(o) == Kpis(Staked(o, Since - 1, hour + 1), Won(o, Since - 1, hour + 1))

DrillDown(o) == Kpis(Staked(o, Since, hour + 1), Won(o, Since, hour + 1))

\* Mutant: only settled stakes.
TrendSettled(o) ==
    [k \in 1..DayHours |->
        LET inHour == {i \in DOMAIN bets : /\ bets[i].op = o /\ bets[i].currency = o.currency
                                            /\ bets[i].placed = hour - (DayHours - k)} IN
        [bets |-> Stake * Cardinality({i \in inHour : bets[i].status = "SETTLED"}),
         wins |-> Wins({i \in inHour : bets[i].won = "true"})]]

\* One bucket an hour, by the hour of the stake, zero where there is none.
Trend(o) ==
    [k \in 1..DayHours |->
        LET h == hour - (DayHours - k)
            inHour == {i \in DOMAIN bets : bets[i].op = o /\ bets[i].currency = o.currency /\ bets[i].placed = h} IN
        [bets |-> Stake * Cardinality({i \in inHour : bets[i].status \in {"ACCEPTED", "SETTLED"}}),
         wins |-> Wins({i \in inHour : bets[i].won = "true"})]]

\* Mutant: failed calls are looked at first.
HealthByCalls(failedCalls, stuckHeld, stuckJobs) ==
    IF failedCalls > 0 THEN "warning" ELSE IF stuckHeld > 0 \/ stuckJobs > 0 THEN "incident" ELSE "healthy"

\* The settlement of one day, with what makes an operator's day unhealthy.
Health(failedCalls, stuckHeld, stuckJobs) ==
    IF stuckHeld > 0 \/ stuckJobs > 0 THEN "incident" ELSE IF failedCalls > 0 THEN "warning" ELSE "healthy"
Settlement(d) == [o \in Listed |-> Kpis(Staked(o, d * DayHours, (d + 1) * DayHours),
                                         Won(o, d * DayHours, (d + 1) * DayHours))]
SettlementTotals(counts) ==
    LET of(h) == Cardinality({o \in DOMAIN counts : Health(counts[o].failed, counts[o].held, counts[o].jobs) = h}) IN
    [failed |-> SumOf(DOMAIN counts, LAMBDA o : counts[o].failed),
     healthy |-> of("healthy"), warnings |-> of("warning"), incidents |-> of("incident")]
Days == {d \in 0..MaxHour : d * DayHours <= MaxHour}

\* The signed feed: the same rows as JSON objects or as lines of CSV.  A
\* field is a sequence of characters, a figure one of its own.
Quote == "\""
Comma == ","
Special == {Comma, Quote, "\n"}
Columns == <<"bets", "volume", "wins", "paid", "ggr">>
\* Mutant: quotes are not doubled.
escPlain(field) ==
    IF \E i \in DOMAIN field : field[i] \in Special THEN <<Quote>> \o field \o <<Quote>> ELSE field

esc(field) ==
    IF \E i \in DOMAIN field : field[i] \in Special
    THEN <<Quote>> \o FlattenSeq([i \in DOMAIN field |-> IF field[i] = Quote THEN <<Quote, Quote>> ELSE <<field[i]>>]) \o <<Quote>>
    ELSE field
toCsv(fields) == FlattenSeq([i \in DOMAIN fields |-> (IF i = 1 THEN <<>> ELSE <<Comma>>) \o esc(fields[i])])
FeedRow(o, kpis) == <<o.name>> \o [k \in DOMAIN Columns |-> <<ToString(kpis[Columns[k]])>>]
SettlementFeed(d, format) ==
    [o \in Listed |-> IF format = "csv" THEN toCsv(FeedRow(o, Settlement(d)[o])) ELSE FeedRow(o, Settlement(d)[o])]

\* How the operator's side reads a line of CSV (external).
CsvFields(line) ==
    LET put(s, c) == [s EXCEPT !.fields[Len(s.fields)] = Append(@, c), !.quote = FALSE]
        read(s, c) ==
            CASE c = Quote /\ ~s.inside -> IF s.quote THEN [put(s, c) EXCEPT !.inside = TRUE] ELSE [s EXCEPT !.inside = TRUE]
              [] c = Quote /\ s.inside -> [s EXCEPT !.inside = FALSE, !.quote = TRUE]
              [] c = Comma /\ ~s.inside -> [s EXCEPT !.fields = Append(@, <<>>), !.quote = FALSE]
              [] OTHER -> put(s, c)
        upTo[n \in 0..Len(line)] ==
            IF n = 0 THEN [fields |-> <<<<>>>>, inside |-> FALSE, quote |-> FALSE] ELSE read(upTo[n - 1], line[n])
    IN upTo[Len(line)].fields

\* Mutant: stakes by when they were placed.
RtpBetsPlaced(o, from) == {i \in DOMAIN bets : /\ bets[i].op = o /\ bets[i].currency = o.currency
                                               /\ bets[i].status = "SETTLED" /\ bets[i].placed >= from}

\* Observed against declared RTP: bets settled and wins paid since the hour.
RtpBets(o, from) == {i \in DOMAIN bets : /\ bets[i].op = o /\ bets[i].currency = o.currency
                                         /\ bets[i].status = "SETTLED" /\ bets[i].settled >= from}
RtpWins(o, from) == {i \in DOMAIN bets : /\ bets[i].op = o /\ bets[i].currency = o.currency
                                         /\ bets[i].won = "true" /\ bets[i].settled >= from}
\* Mutant: LowN bets are too few.
RtpFlagLate(n, staked, won, c, K) ==
    LET d == won * K - staked * (K - c)
        unit == staked * (K - c)
    IN IF n <= LowN \/ staked = 0 THEN "low_n"
       ELSE IF d * d * n > 9 * unit * unit THEN "drift"
       ELSE IF d * d * n > 4 * unit * unit THEN "watch" ELSE "ok"

(* The flag of n bets with the given stakes and wins at a commission of      *)
(* c/K: |z| > 3 is drift and > 2 is watch, z being the distance from 1 - c   *)
(* in units of (1 - c) / sqrt(n); squared, to compare integers.              *)
RtpFlag(n, staked, won, c, K) ==
    LET d == won * K - staked * (K - c)         \* (observed - expected) * staked * K
        unit == staked * (K - c)                \* sigma * staked * K
    IN IF n < LowN \/ staked = 0 THEN "low_n"
       ELSE IF d * d * n > 9 * unit * unit THEN "drift"
       ELSE IF d * d * n > 4 * unit * unit THEN "watch" ELSE "ok"

\* One endpoint of one operator: calls, failures and the 99th percentile.
SlaStatus(total, failed, p99) ==
    IF (total > 0 /\ failed * 1000 > total) \/ p99 >= P99 THEN "breach"
    ELSE IF p99 * 10 >= P99 * 7 THEN "warn" ELSE "ok"
\* Mutant: the last endpoint decides.
SlaOverallLast(endpoints) ==
    FoldLeft(LAMBDA worst, e : SlaStatus(e.total, e.failed, e.p99), "ok", endpoints)

SlaOverall(endpoints) ==
    LET worse(worst, s) == IF s = "breach" \/ (s = "warn" /\ worst = "ok") THEN s ELSE worst
        upTo[n \in 0..Len(endpoints)] ==
            IF n = 0 THEN "ok"
            ELSE worse(upTo[n - 1], SlaStatus(endpoints[n].total, endpoints[n].failed, endpoints[n].p99))
    IN upTo[Len(endpoints)]

\* Mutant: a win shows what was paid out.
HistoryNetGross(i) == IF bets[i].won = "true" THEN bets[i].wonAmount ELSE -Stake

\* A player's statement: what each bet did to the balance.
HistoryNet(i) == IF bets[i].won = "true" THEN bets[i].wonAmount - Stake ELSE -Stake
\* A session's page: the newest bets, whatever became of them.
SessionSummary ==
    LET S == {i \in DOMAIN bets : i > Len(bets) - Newest} IN
    [bets |-> Stake * Cardinality(S), wins |-> Wins(S), net |-> Stake * Cardinality(S) - Wins(S)]

-----------------------------------------------------------------------------
(* Types of the bets. *)
TypeOK ==
    /\ hour \in 0..MaxHour
    /\ \A i \in DOMAIN bets : /\ bets[i].status \in Status /\ bets[i].won \in {"null", "true", "false"}
                              /\ bets[i].placed \in 0..hour /\ bets[i].settled \in -1..hour

(* The cockpit's row of an operator, the operator's own overview and the     *)
(* drill-down are three queries and show the same figures; the cockpit's     *)
(* totals are the sums of its rows.                                          *)
PagesAgree ==
    /\ \A o \in Listed : PlatformOverview.operators[o] = AdminOverview(o) /\ AdminOverview(o) = DrillDown(o)
    /\ PlatformOverview.totals.ggr = SumOf(Listed, LAMBDA o : AdminOverview(o).ggr)

(* A settled day is final for stakes and open for wins, and still over all   *)
(* days the operator's revenue is what the players' balances lost on bets in *)
(* its currency, less exactly the bets whose payment went to the retry queue *)
(* (they stay FAILED, paid or not) and those still in flight.                *)
RevenueIsTheLedger ==
    \A o \in Listed :
        SumOf(Days, LAMBDA d : Settlement(d)[o].ggr)
          = -SumOf({i \in DOMAIN bets : /\ bets[i].op = o /\ bets[i].currency = o.currency
                                        /\ bets[i].status \notin {"PENDING", "FAILED"}}, LAMBDA i : bets[i].ledger)

(* The trend's buckets hold every stake of the last day once and none older, *)
(* so they add up to the volume above them; wins do so when none of the      *)
(* day's was paid for an older stake, or is still owed.                      *)
TrendAddsUp ==
    \A o \in Listed :
        /\ SumOf(1..DayHours, LAMBDA k : Trend(o)[k].bets) = AdminOverview(o).volume
        /\ (\A i \in DOMAIN bets : bets[i].placed >= Since /\ bets[i].status # "FAILED") =>
              SumOf(1..DayHours, LAMBDA k : Trend(o)[k].wins) = AdminOverview(o).paid

(* Observed RTP compares like with like: every win in its numerator is of a  *)
(* bet in its denominator, from whatever hour the window starts.             *)
RtpOfTheSameBets == \A o \in Listed, from \in 0..MaxHour : RtpWins(o, from) \subseteq RtpBets(o, from)

(* A bet that is SETTLED appears on the player's statement with what it did  *)
(* to the balance; a session of few bets, all settled, nets what they did.   *)
SettledBetsAddUp ==
    /\ \A i \in DOMAIN bets : bets[i].status = "SETTLED" => HistoryNet(i) = bets[i].ledger
    /\ Len(bets) <= Newest /\ (\A i \in DOMAIN bets : bets[i].status = "SETTLED") =>
          SessionSummary.net = -SumOf(DOMAIN bets, LAMBDA i : bets[i].ledger)

(* The feed signed as CSV, read back field by field, says of every operator  *)
(* what the feed signed as JSON says, whatever is in an operator's name.     *)
FeedsAgree ==
    \A d \in Days, o \in Listed : CsvFields(SettlementFeed(d, "csv")[o]) = SettlementFeed(d, "json")[o]

(* The health of a day: every operator is counted in one of three classes,   *)
(* and one with held bets or stuck jobs never passes for less.               *)
HealthCounts ==
    \A counts \in [{1, 2} -> [failed : 0..1, held : 0..1, jobs : 0..1]] :
        LET t == SettlementTotals(counts) IN
        /\ t.healthy + t.warnings + t.incidents = 2
        /\ (t.incidents = 0) = (\A o \in {1, 2} : counts[o].held = 0 /\ counts[o].jobs = 0)
        /\ t.healthy = 2 => t.failed = 0

(* An operator's SLA is its worst endpoint in whatever order the endpoints   *)
(* come, and more failures or a slower answer never improve it.              *)
SlaIsTheWorst ==
    LET rank == [ok |-> 0, warn |-> 1, breach |-> 2]
        endpoint == [total : {0, 1000}, failed : {0, 1, 2}, p99 : {0, P99 - 1, P99}]
        status(e) == rank[SlaStatus(e.total, e.failed, e.p99)] IN
    /\ \A e, f \in endpoint : rank[SlaOverall(<<e, f>>)] = Max({status(e), status(f)})
    /\ \A e, f \in endpoint : e.total = f.total /\ e.failed <= f.failed /\ e.p99 <= f.p99 => status(e) <= status(f)

(* The flag of an observed RTP: with enough bets, no flag is a deviation of  *)
(* at most two sigmas; more bets with the same ratio never calm it; too few  *)
(* bets never raise it.                                                      *)
RtpFlagIsTheBand ==
    LET rank == [ok |-> 0, watch |-> 1, drift |-> 2]
        flag(n, won) == RtpFlag(n, n, won, 1, 10) IN
    \A n \in 0..20 : \A won \in 0..(5 * n) :
        /\ (flag(n, won) = "low_n") = (n < LowN \/ n = 0)
        /\ n >= LowN /\ n > 0 => rank[flag(n, won)] <= rank[flag(2 * n, 2 * won)]
        /\ n >= LowN /\ n > 0 /\ 10 * won = 9 * n => flag(n, won) = "ok"
=============================================================================
