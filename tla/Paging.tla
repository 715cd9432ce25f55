------------------------------- MODULE Paging -------------------------------
(* The lists that are read page by page: a reader asks for the first page,   *)
(* then for the page after a cursor, while rows are inserted and change      *)
(* state.  All of them read one row more than the page holds, and hand out   *)
(* the id of that row as the next cursor; the next page starts after it.     *)
(* How the database answers "cursor, skip 1" (external) is Rest: the rows    *)
(* that are not before the cursor row in the list's order, whether or not    *)
(* the cursor row is still one of them, without the first.                   *)
EXTENDS Naturals, Sequences, FiniteSets, Functions

CONSTANTS
    MaxRows, MaxTime,
    Limit       \* rows on a page

VARIABLES
    list,       \* the list this reader reads: one of Lists
    table,      \* the rows, by id: [at, state]
    now,
    cursor,     \* where the next page starts: 0 is the first page
    done,       \* the last page has been read
    shown,      \* the pages the reader has seen: sets of ids, each in the list's order
    cursors,    \* history: the cursors handed out
    since       \* history: the rows that were listed when the reading began, and still are

vars == <<list, table, now, cursor, done, shown, cursors, since>>

(* "unique": the order ends in the id; "rows": the states that are listed;   *)
(* "stays": a listed row remains listed and keeps its place.                 *)
All == {"open", "done"}
AdminRounds   == [unique |-> FALSE, rows |-> All, stays |-> TRUE]
WalletCalls   == [unique |-> FALSE, rows |-> All, stays |-> TRUE]
AdminSessions == [unique |-> FALSE, rows |-> All, stays |-> TRUE]
PendingJobs   == [unique |-> FALSE, rows |-> {"open"}, stays |-> FALSE]
OperatorRounds == [unique |-> FALSE, rows |-> All, stays |-> TRUE]
PlayerHistory == [unique |-> TRUE, rows |-> All, stays |-> TRUE]
SessionHistory == [unique |-> TRUE, rows |-> {"done"}, stays |-> TRUE]
Deliveries    == [unique |-> TRUE, rows |-> {"open"}, stays |-> FALSE]
AdminAudit    == [unique |-> TRUE, rows |-> All, stays |-> TRUE]
ConfigAudit   == [unique |-> TRUE, rows |-> All, stays |-> TRUE]
Lists == {AdminRounds, WalletCalls, AdminSessions, PendingJobs, OperatorRounds, PlayerHistory,
          SessionHistory, Deliveries, AdminAudit, ConfigAudit}

Listed == {i \in DOMAIN table : table[i].state \in list.rows}

\* Newest first.  Rows of one instant come by id, or as the database likes.
Before(i, j, byId) ==
    \/ table[i].at > table[j].at
    \/ table[i].at = table[j].at /\ (IF byId THEN i > j ELSE i < j)

\* Mutant: only the time is compared.
RestByTime ==
    IF cursor = 0 THEN Listed ELSE {i \in Listed : table[i].at <= table[cursor].at}

\* The rows a cursor leaves: at its instant and its id, or only at its instant.
Rest ==
    IF cursor = 0 THEN Listed
    ELSE {i \in Listed : IF list.unique THEN i = cursor \/ Before(cursor, i, TRUE)
                         ELSE table[i].at <= table[cursor].at}

Init ==
    /\ list \in Lists
    /\ table = <<>> /\ now = 1 /\ cursor = 0 /\ done = FALSE
    /\ shown = <<>> /\ cursors = {} /\ since = {}

\* Mutant: stamped with a clock that is ahead.
RowInsertedAhead ==
    /\ Len(table) < MaxRows
    /\ table' = Append(table, [at |-> now + 1, state |-> "open"])
    /\ UNCHANGED <<list, now, cursor, done, shown, cursors, since>>

\* Rows are stamped with the time; two may have the same.
RowInserted ==
    /\ Len(table) < MaxRows
    /\ table' = Append(table, [at |-> now, state |-> "open"])
    /\ UNCHANGED <<list, now, cursor, done, shown, cursors, since>>

\* A bet is settled, a job completed, a webhook delivered.
RowDone(i) ==
    /\ table[i].state = "open"
    /\ table' = [table EXCEPT ![i].state = "done"]
    /\ since' = IF "done" \in list.rows THEN since ELSE since \ {i}
    /\ UNCHANGED <<list, now, cursor, done, shown, cursors>>

Tick ==
    /\ now < MaxTime /\ now' = now + 1
    /\ UNCHANGED <<list, table, cursor, done, shown, cursors, since>>

\* "skip 1": without the first.
Skipped(rest, byId) == IF cursor = 0 THEN rest ELSE {i \in rest : \E j \in rest : Before(j, i, byId)}

\* The first n rows of a set in the list's order, or all of it: one set.
FirstRows(n, rows, byId) ==
    {page \in SUBSET rows :
        /\ \A i \in page : \A j \in rows \ page : Before(i, j, byId)
        /\ (Cardinality(page) = n \/ (page = rows /\ Cardinality(page) < n))}

\* Mutant: take: limit.
PagesExact(rest, byId) == FirstRows(Limit, Skipped(rest, byId), byId)

\* take: limit + 1; the row too many becomes the cursor and is not shown.
Pages(rest, byId) == FirstRows(Limit + 1, Skipped(rest, byId), byId)

NextCursors(page, byId) ==
    IF Cardinality(page) > Limit THEN {i \in page : \A j \in page \ {i} : Before(j, i, byId)} ELSE {0}
Items(page, next) == page \ {next}

PageRead(byId) ==
    /\ list.unique => byId
    /\ \E page \in Pages(Rest, byId) : \E next \in NextCursors(page, byId) :
          /\ next \notin cursors     \* bound: this reader gives up when a cursor comes back
          /\ shown' = Append(shown, Items(page, next))
          /\ cursor' = next /\ cursors' = cursors \cup ({next} \ {0})
          /\ done' = (next = 0)
    /\ since' = IF cursor = 0 THEN Listed ELSE since
    /\ UNCHANGED <<list, table, now>>

Next ==
    \/ RowInserted \/ Tick \/ \E i \in DOMAIN table : RowDone(i)
    \/ ~done /\ \E byId \in BOOLEAN : PageRead(byId)

-----------------------------------------------------------------------------
(* Types of the table, the cursor and what was read. *)
TypeOK ==
    /\ \A i \in DOMAIN table : table[i].at \in 1..now /\ table[i].state \in All
    /\ cursor \in 0..Len(table) /\ done \in BOOLEAN
    /\ (UNION Range(shown)) \cup cursors \cup since \subseteq DOMAIN table

(* Lists ordered down to the id: a statement or an audit log never shows a   *)
(* row twice, and shows newer rows first across its pages, whatever is       *)
(* inserted or changes while it is read.                                     *)
PagesInOrder ==
    list.unique => \A m, n \in DOMAIN shown : m < n =>
        \A i \in shown[m], j \in shown[n] : Before(i, j, TRUE)

(* When such a list has been read to its end, the rows that were there all   *)
(* along and were not shown are exactly those whose ids were the cursors:    *)
(* nothing else is lost, and every page boundary loses one.                  *)
OnlyBoundariesMissed ==
    list.unique /\ list.stays /\ done => since \ (UNION Range(shown)) = cursors \cap since
=============================================================================
