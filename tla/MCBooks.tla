------------------------------ MODULE MCBooks -------------------------------
(* Small instances of what is kept for afterwards and of what is read from   *)
(* it: the audit chain, the daily totals, the lists, the reports and the     *)
(* evidence of a round.  They share no state: "part" says which of them this *)
(* behaviour is about, and the others stay where they started.               *)
EXTENDS Naturals, Sequences, FiniteSets, TLC

CONSTANTS Writers, MaxDays, MaxEvents, Txs, MaxDay, MaxCalls, Minor,
          MaxRows, MaxTime, Limit,
          Operators, Currencies, Stake, Win, MaxBets, MaxHour, DayHours, Newest, LowN, P99,
          MaxRounds, MaxConfig

ASSUME PageAssumption == Limit \in Nat
ASSUME ChainAssumption == MaxDays \in Nat \ {0}

VARIABLES part,
    stream, rows, writer, today, job, fill, anchor, disturbed, calm, altered, faults,
    calls, wire, booked, answered, day, clean, repeated,
    list, table, now, cursor, done, shown, cursors, since,
    bets, hour,
    session, nonce, config, loaded, rounds, played, audited, tx

chainVars == <<stream, rows, writer, today, job, fill, anchor, disturbed, calm, altered, faults>>
ledgerVars == <<calls, wire, booked, answered, day, clean, repeated>>
pagingVars == <<list, table, now, cursor, done, shown, cursors, since>>
reportVars == <<bets, hour>>
evidenceVars == <<session, nonce, config, loaded, rounds, played, audited, tx>>
allVars == <<part, chainVars, ledgerVars, pagingVars, reportVars, evidenceVars>>

\* No writer is special.
WriterSymmetry == Permutations(Writers)

\* One transaction of each kind, the stake so large that the win is a small drift.
SomeTxs == {[kind |-> "BET", amount |-> 2000], [kind |-> "WIN", amount |-> 5], [kind |-> "ROLLBACK", amount |-> 3]}
\* Two operators whose names have what CSV must quote.
TwoOperators == {[name |-> <<"a", ",", "\"">>, currency |-> "x", listed |-> TRUE],
                 [name |-> <<"\"", "\n", "b">>, currency |-> "y", listed |-> TRUE]}

A == INSTANCE AuditChain
L == INSTANCE LedgerTotals
G == INSTANCE Paging
R == INSTANCE Reports
E == INSTANCE RoundEvidence WITH bets <- played, calls <- audited

\* There are finitely many transactions, each of a kind, of an amount that is not negative.
ASSUME LedgerAssumption ==
    /\ IsFiniteSet(Txs) /\ Minor \in Nat \ {0}
    /\ \A t \in Txs : t.kind \in {"BET", "WIN", "ROLLBACK"} /\ t.amount \in Nat

\* A stake, a win and the lengths of things are numbers; an operator's name is a text.
ASSUME ReportsAssumption ==
    /\ IsFiniteSet(Operators) /\ \A o \in Operators : o.name \in Seq(STRING)
    /\ Stake \in Nat /\ Win \in Nat /\ MaxHour \in Nat /\ DayHours \in Nat \ {0} /\ Newest \in Nat
    /\ LowN \in Nat /\ P99 \in Nat

ChainOnly == UNCHANGED <<part, ledgerVars, pagingVars, reportVars, evidenceVars>>
LedgerOnly == UNCHANGED <<part, chainVars, pagingVars, reportVars, evidenceVars>>
PagingOnly == UNCHANGED <<part, chainVars, ledgerVars, reportVars, evidenceVars>>
ReportsOnly == UNCHANGED <<part, chainVars, ledgerVars, pagingVars, evidenceVars>>
EvidenceOnly == UNCHANGED <<part, chainVars, ledgerVars, pagingVars, reportVars>>

\* The lists and streams of the other parts are of no interest: one of each.
BooksInit ==
    /\ part \in {"chain", "ledger", "paging", "reports", "evidence"}
    /\ A!Init /\ (part # "chain" => stream = "round")
    /\ L!Init
    /\ G!Init /\ (part # "paging" => list = G!PlayerHistory)
    /\ R!Init /\ E!Init

BooksNext ==
    \/ part = "chain" /\ A!Next /\ ChainOnly
    \/ part = "ledger" /\ L!Next /\ LedgerOnly
    \/ part = "paging" /\ G!Next /\ PagingOnly
    \/ part = "reports" /\ R!Next /\ ReportsOnly
    \/ part = "evidence" /\ E!Next /\ EvidenceOnly

Spec == BooksInit /\ [][BooksNext]_allVars

\* Every property is about its part.
InChain == part = "chain"
InLedger == part = "ledger"
InPaging == part = "paging"
InReports == part = "reports"
InEvidence == part = "evidence"

\* The verdicts over given figures need one state.
Start == InLedger /\ BooksInit

\* AuditChain: a signed day replays to its anchor until one of its rows is changed and
\* not afterwards, through forks, failed writes and dead ticks; and writers that do not
\* overlap leave one chain.
ChainIsEvidence ==
    InChain => A!TypeOK /\ A!AnchoredDayReplays /\ A!AlterationShows /\ A!OneAtATimeIsLinear

\* Reconciliation: a drift has a cause, we never claim more than the operator booked, a
\* clean verdict is a day that agrees, reports of a period count its calls once, and the
\* script exits with the worst of its lines.
TotalsReconcile ==
    /\ InLedger => /\ L!TypeOK /\ L!DriftHasACause /\ L!NeverOverstated
                   /\ L!VerdictIsTrue /\ L!PeriodsPartition
    /\ Start => L!ExitIsTheWorst

\* Lists read page by page while rows are inserted and change: nothing is shown twice or
\* out of order, and what is missed are exactly the rows whose ids were the cursors.
PagesMissOnlyCursors == InPaging => G!TypeOK /\ G!PagesInOrder /\ G!OnlyBoundariesMissed

\* The reports of the routes: three queries of one figure agree, a revenue is what the
\* players' balances lost, a trend adds up, RTP compares the same bets, both feeds say
\* the same; and a flag is the worst of what it is about.
ReportsAddUp ==
    /\ InReports => /\ R!TypeOK /\ R!PagesAgree /\ R!RevenueIsTheLedger /\ R!TrendAddsUp
                    /\ R!RtpOfTheSameBets /\ R!SettledBetsAddUp /\ R!FeedsAgree
    /\ Start => R!HealthCounts /\ R!SlaIsTheWorst /\ R!RtpFlagIsTheBand

\* Proof, replay, dispute pack and dump of a round name one state, outcome and seed, hide
\* the seed while it is in use, confirm a finished round unless its configuration was
\* patched, and hold every call made for a bet.
EvidenceAgrees ==
    InEvidence => /\ E!TypeOK /\ E!RecordsAgree /\ E!ReplayConfirms
                  /\ E!TransactionsResolve /\ E!PackIsComplete
=============================================================================
