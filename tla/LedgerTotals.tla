---------------------------- MODULE LedgerTotals ----------------------------
(* The daily totals that are reconciled with an operator.  They are sums     *)
(* over the audit rows the wallet client writes around its calls, so they    *)
(* are as good as those rows: a row may never be inserted, an answer may be  *)
(* lost, a call may be repeated, or be booked on the other side of midnight. *)
(* The operator (external) books a transaction once and answers a repetition *)
(* as it answered the first time.                                            *)
EXTENDS Integers, FiniteSets, SequencesExt

CONSTANTS
    Txs,        \* transactions: a record [kind, amount] each
    MaxDay, MaxCalls,
    Minor       \* drift below 1/Minor of our total is minor

VARIABLES
    calls,      \* WalletCall: the outbound audit rows, [tx, amount, day, succeeded]
    wire,       \* calls in flight: [tx, row] with row 0 when none was inserted
    booked,     \* tx -> the day the operator booked it, 0 before
    answered,   \* transactions whose OK has been seen
    day,
    clean,      \* history: every row written, every answer seen, nothing crossed midnight
    repeated    \* history: a call was sent again after its OK

vars == <<calls, wire, booked, answered, day, clean, repeated>>

Init ==
    /\ calls = <<>> /\ wire = {} /\ booked = [t \in Txs |-> 0] /\ answered = {}
    /\ day = 1 /\ clean = TRUE /\ repeated = FALSE

\* WalletClient.bet, win and rollback: what the audit row says of the amount.
\* A rollback's row has none.
AuditedAmount(t) == IF t.kind = "ROLLBACK" THEN 0 ELSE t.amount

\* The pre-write; when it fails the call goes out unrecorded.  A bet is sent
\* once, the rest until it is answered, and again when a crash forgets the OK.
CallSent(t) ==
    /\ Cardinality(wire) + Len(calls) < MaxCalls
    /\ \A w \in wire : w.tx # t
    /\ t.kind = "BET" => t \notin answered /\ \A i \in DOMAIN calls : calls[i].tx # t
    /\ \/ /\ calls' = Append(calls, [tx |-> t, amount |-> AuditedAmount(t), day |-> day, succeeded |-> FALSE])
          /\ wire' = wire \cup {[tx |-> t, row |-> Len(calls) + 1]}
          /\ UNCHANGED clean
       \/ /\ wire' = wire \cup {[tx |-> t, row |-> 0]}
          /\ clean' = FALSE /\ UNCHANGED calls
    /\ repeated' = (repeated \/ t \in answered)
    /\ UNCHANGED <<booked, answered, day>>

\* Mutant: booked for the next day.
BookedTomorrow(t) ==
    /\ \E w \in wire : w.tx = t
    /\ booked[t] = 0
    /\ booked' = [booked EXCEPT ![t] = day + 1]
    /\ UNCHANGED <<calls, wire, answered, day, clean, repeated>>

\* The operator books the transaction, once.
Booked(t) ==
    /\ \E w \in wire : w.tx = t
    /\ booked[t] = 0
    /\ booked' = [booked EXCEPT ![t] = day]
    /\ clean' = (clean /\ \A w \in wire : w.tx = t => w.row # 0 /\ calls[w.row].day = day)
    /\ UNCHANGED <<calls, wire, answered, day, repeated>>

\* Mutant: every row of the transaction is marked.
AnsweredAll(w) ==
    /\ w \in wire /\ booked[w.tx] # 0
    /\ calls' = [i \in DOMAIN calls |-> IF calls[i].tx = w.tx THEN [calls[i] EXCEPT !.succeeded = TRUE] ELSE calls[i]]
    /\ answered' = answered \cup {w.tx}
    /\ wire' = wire \ {w}
    /\ UNCHANGED <<booked, day, clean, repeated>>

\* The answer and the post-write, which may fail and leave succeeded FALSE.
Answered(w) ==
    /\ w \in wire /\ booked[w.tx] # 0
    /\ \/ calls' = [i \in DOMAIN calls |-> IF i = w.row THEN [calls[i] EXCEPT !.succeeded = TRUE] ELSE calls[i]]
          /\ UNCHANGED clean
       \/ UNCHANGED calls /\ clean' = FALSE
    /\ answered' = answered \cup {w.tx}
    /\ wire' = wire \ {w}
    /\ UNCHANGED <<booked, day, repeated>>

\* Rejected, or no answer: the row keeps succeeded FALSE.
Unanswered(w) ==
    /\ w \in wire
    /\ wire' = wire \ {w}
    /\ clean' = (clean /\ booked[w.tx] = 0)
    /\ UNCHANGED <<calls, booked, answered, day, repeated>>

NextDay ==
    /\ day < MaxDay /\ day' = day + 1
    /\ UNCHANGED <<calls, wire, booked, answered, clean, repeated>>

Next ==
    \/ \E t \in Txs : CallSent(t) \/ Booked(t)
    \/ \E w \in wire : Answered(w) \/ Unanswered(w)
    \/ NextDay

-----------------------------------------------------------------------------
(* The totals: computeDailyTotals on our side; the operator's own books.    *)

\* Mutant: whatever the answer was.
CountedAny(kind, d) == {i \in DOMAIN calls : calls[i].tx.kind = kind /\ calls[i].day = d}

Counted(kind, d) == {i \in DOMAIN calls : calls[i].tx.kind = kind /\ calls[i].day = d /\ calls[i].succeeded}
Amount(kind, d) == SumFunctionOnSet([i \in DOMAIN calls |-> calls[i].amount], Counted(kind, d))
FailedCalls(d) == Cardinality({i \in DOMAIN calls : calls[i].day = d /\ ~calls[i].succeeded})
computeDailyTotals(d) ==
    [bets |-> Amount("BET", d), wins |-> Amount("WIN", d), rollbacks |-> Amount("ROLLBACK", d),
     net |-> Amount("BET", d) - Amount("WIN", d) - Amount("ROLLBACK", d),
     failed |-> FailedCalls(d)]

Theirs(kind, d) == SumFunctionOnSet([t \in Txs |-> t.amount], {t \in Txs : t.kind = kind /\ booked[t] = d})
Settlement(d) == [bets |-> Theirs("BET", d), wins |-> Theirs("WIN", d), rollbacks |-> Theirs("ROLLBACK", d)]

(* reconcileAgainstOperator: the worst of the three drifts, each relative to *)
(* our total; any drift from a total of zero is infinite.                    *)
AbsInt(n) == IF n < 0 THEN -n ELSE n
\* Mutant: a total of zero is not divided by.
pctDriftOfNothing(drift, base) ==
    IF drift = 0 \/ base = 0 THEN "MATCH"
    ELSE IF Minor * AbsInt(drift) < AbsInt(base) THEN "MINOR_DRIFT" ELSE "MAJOR_DRIFT"

pctDrift(drift, base) ==
    IF drift = 0 THEN "MATCH"
    ELSE IF base # 0 /\ Minor * AbsInt(drift) < AbsInt(base) THEN "MINOR_DRIFT" ELSE "MAJOR_DRIFT"
statusToExit == [s \in {"MATCH", "MINOR_DRIFT", "MAJOR_DRIFT"} |->
                   CASE s = "MATCH" -> 0 [] s = "MINOR_DRIFT" -> 1 [] s = "MAJOR_DRIFT" -> 2]
reconcileAgainstOperator(ours, theirs) ==
    LET drifts == {pctDrift(theirs[k] - ours[k], ours[k]) : k \in {"bets", "wins", "rollbacks"}}
    IN CHOOSE s \in drifts : \A r \in drifts : statusToExit[r] <= statusToExit[s]

(* The periods of the admin reports, as lists of day numbers.  A month is    *)
(* known by its first day and its length.                                    *)
Daily(d) == <<d>>
\* Mutant: the seven days before.
WeeklyBefore(d) == [i \in 1..7 |-> d - (8 - i)]

Weekly(d) == [i \in 1..7 |-> d - (7 - i)]
Monthly(first, length) == [i \in 1..length |-> first + i - 1]
\* collectTotals: one total for each day of the period.
collectTotals(days) == [i \in DOMAIN days |-> computeDailyTotals(days[i])]

\* What the operator asks for over its API: one day, and the verdict on what
\* it says of a day itself.
DailyReport(d) == computeDailyTotals(d)
ReconciliationReport(d) == reconcileAgainstOperator(computeDailyTotals(d), Settlement(d))

(* scripts/reconcile.ts: a settlement file is a header and lines of cells;   *)
(* the first line that does not fit, or a cell that is no number, ends it    *)
(* all with 3, and otherwise the worst line decides.                         *)
parseCsv(file) ==
    IF ~file.header \/ (\E i \in DOMAIN file.lines : ~file.lines[i].fits) THEN <<>> ELSE file.lines
\* Mutant: the last line decides.
mainLast(file) ==
    IF parseCsv(file) = <<>> THEN 3
    ELSE LET line == Last(parseCsv(file)) IN statusToExit[reconcileAgainstOperator(line.ours, line.theirs)]

main(file) ==
    LET exits == {statusToExit[reconcileAgainstOperator(line.ours, line.theirs)] : line \in Range(parseCsv(file))}
    IN IF parseCsv(file) = <<>> THEN 3 ELSE Max({0} \cup exits)

-----------------------------------------------------------------------------
(* Types of the rows and of the operator's books. *)
TypeOK ==
    /\ \A i \in DOMAIN calls : calls[i].tx \in Txs /\ calls[i].day \in 1..day /\ calls[i].succeeded \in BOOLEAN
    /\ \A w \in wire : w.tx \in Txs /\ w.row \in 0..Len(calls)
    /\ \A t \in Txs : booked[t] \in 0..day
    /\ answered \subseteq {t \in Txs : booked[t] # 0}

(* reports.ts, "matches any later reconciliation": with every row written    *)
(* and every answer seen on the day it was sent, a day's bets and wins are   *)
(* the operator's, once nothing is in flight.  The rollbacks are not: their  *)
(* rows carry no amount.                                                     *)
DriftHasACause ==
    clean /\ ~repeated /\ wire = {} =>
        \A d \in 1..day : /\ Amount("BET", d) = Theirs("BET", d)
                          /\ Amount("WIN", d) = Theirs("WIN", d)

(* Whatever is lost, over all the days we never claim more than the operator *)
(* booked, unless a call that was already OK was sent a second time.         *)
NeverOverstated ==
    ~repeated => \A kind \in {"BET", "WIN"} :
        SumFunction([d \in 1..day |-> Amount(kind, d)]) <= SumFunction([d \in 1..day |-> Theirs(kind, d)])

(* A day without a verdict of drift is a day whose three totals agree, and a *)
(* day we know nothing of is never a small drift.                            *)
VerdictIsTrue ==
    \A d \in 1..day :
        LET ours == computeDailyTotals(d)
            verdict == ReconciliationReport(d) IN
        /\ (verdict = "MATCH") = (\A k \in {"bets", "wins", "rollbacks"} : ours[k] = Settlement(d)[k])
        /\ \A k \in {"bets", "wins", "rollbacks"} :
              ours[k] = 0 /\ Settlement(d)[k] # 0 => verdict = "MAJOR_DRIFT"

(* The admin reports: the seven days that end on a day, or the month that    *)
(* holds it, count every call of the period that succeeded once and no other *)
(* one, across the days they are split into; a day is what the API says.     *)
PeriodsPartition ==
    LET net(totals) == SumFunction([i \in DOMAIN totals |-> totals[i].net])
        signed == [i \in DOMAIN calls |-> IF calls[i].tx.kind = "BET" THEN calls[i].amount ELSE -calls[i].amount]
        between(first, last) ==
            SumFunctionOnSet(signed, {i \in DOMAIN calls : calls[i].succeeded /\ calls[i].day \in first..last}) IN
    /\ collectTotals(Daily(day)) = <<DailyReport(day)>>
    /\ \A d \in {1, 7, 8} : net(collectTotals(Weekly(d))) = between(d - 6, d)
    /\ \A first, n \in {1, 2} : net(collectTotals(Monthly(first, n))) = between(first, first + n - 1)

(* The exit code of the script: 3 exactly for a file it cannot use, and then *)
(* nothing is reconciled; else the worst status among the lines.             *)
ExitIsTheWorst ==
    LET totals == {[bets |-> b, wins |-> 0, rollbacks |-> 0] : b \in {0, 2 * Minor, 2 * Minor + 1}}
        line == [fits : BOOLEAN, ours : totals, theirs : totals]
        files == [header : BOOLEAN, lines : UNION {[1..n -> line] : n \in 0..2}] IN
    \A f \in files :
        LET usable == f.header /\ f.lines # <<>> /\ \A l \in Range(f.lines) : l.fits IN
        /\ (main(f) = 3) = ~usable
        /\ usable => /\ \A l \in Range(f.lines) : statusToExit[reconcileAgainstOperator(l.ours, l.theirs)] <= main(f)
                     /\ (main(f) = 0) = (\A l \in Range(f.lines) : l.ours = l.theirs)
=============================================================================
