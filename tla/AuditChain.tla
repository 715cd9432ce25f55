----------------------------- MODULE AuditChain -----------------------------
(* The tamper-evident chain of one operator's wallet calls or rounds.  Every *)
(* writer reads the tip, hashes its row onto it and writes the row back, in  *)
(* three steps with other writers between them; an hourly job re-chains      *)
(* yesterday's rows in creation order and signs the last hash; the replay    *)
(* recomputes a day and compares it with what was signed.                    *)
(*                                                                           *)
(* SHA-256 is a function without collisions: the hash of a row is the whole  *)
(* sequence of what was hashed before it and the row itself, and "no hash"   *)
(* (null, which hashRow treats as the empty string) is the empty sequence.   *)
(* A row's content is "open" as it is inserted, "final" when the answer or   *)
(* the outcome is in it, and "altered" when it was changed behind the chain. *)
EXTENDS Naturals, Sequences, FiniteSets, FiniteSetsExt, Functions

CONSTANTS Writers, MaxDays, MaxEvents

VARIABLES
    stream,     \* "wallet_call" or "round": what this chain is made of
    rows,       \* the table, in the order of createdAt (startedAt) and id
    writer,     \* Writers -> where this writer is with its row
    today,
    job,        \* the hourly anchor job
    fill,       \* a run of the backfill
    anchor,     \* day -> the signed anchor, or Unsigned
    disturbed,  \* history: two writers overlapped, a write failed, or a row was re-chained
    calm,       \* history: days whose rows have not changed since they were read to be signed
    altered,    \* history: days with a row altered or removed since they were read to be signed
    faults      \* failed reads and writes, dead ticks, backfills by hand and alterations so far

vars == <<stream, rows, writer, today, job, fill, anchor, disturbed, calm, altered, faults>>

Null == <<>>
Days == 1..MaxDays
Unsigned == [tip |-> Null, count |-> 0]
Idle == [pc |-> "idle", row |-> 0, tip |-> Null]
NoJob == [pc |-> "idle", day |-> 0, prev |-> Null, batch |-> <<>>, calm |-> FALSE]
NoFill == [pc |-> "idle", prev |-> Null, batch |-> <<>>]

\* Mutant: the row's id alone is hashed.
hashRowOfId(prev, id, content) == Append(prev, <<id, "final">>)

hashRow(prev, id, content) == Append(prev, <<id, content>>)

\* The hash that row i stores, or none when there is no such row.
HashOfLast(S) == IF S = {} THEN Null ELSE rows[Max(S)].hash
Live == {i \in DOMAIN rows : ~rows[i].gone}
Hashed == {i \in Live : rows[i].hash # Null}
BeforeDay(d) == {i \in Live : rows[i].day < d}
OfDay(d) == {i \in Live : rows[i].day = d}

\* Mutant: the oldest row that has a hash.
LatestTipOldest == IF Hashed = {} THEN Null ELSE rows[Min(Hashed)].hash

\* latestWalletCallTip, latestRoundTip: the newest row that has a hash.
LatestTip == HashOfLast(Hashed)

\* History: somebody else than the job changed row i.
Touched(i) ==
    /\ calm' = {d \in calm : d < rows[i].day}
    /\ job' = [job EXCEPT !.calm = @ /\ job.day < rows[i].day]

\* Rows, what goes wrong and what is done by hand are bounded together.
Room == Len(rows) + faults < MaxEvents
Fault == Room /\ faults' = faults + 1

Init ==
    /\ stream \in {"wallet_call", "round"}
    /\ rows = <<>> /\ writer = [w \in Writers |-> Idle] /\ today = 1
    /\ job = NoJob /\ fill = NoFill /\ anchor = [d \in Days |-> Unsigned]
    /\ disturbed = FALSE /\ calm = {} /\ altered = {} /\ faults = 0

-----------------------------------------------------------------------------
(* The writers: WalletClient around a call, GameEngine around a round.      *)

RowCreated(w) ==
    /\ writer[w].pc = "idle" /\ Room
    /\ rows' = Append(rows, [day |-> today, content |-> "open", prev |-> Null, hash |-> Null, gone |-> FALSE])
    /\ writer' = [writer EXCEPT ![w] = [pc |-> "open", row |-> Len(rows) + 1, tip |-> Null]]
    /\ disturbed' = (disturbed \/ \E v \in Writers : writer[v].pc # "idle")
    /\ UNCHANGED <<stream, today, job, fill, anchor, calm, altered, faults>>

TipRead(w) ==
    /\ writer[w].pc = "open"
    /\ writer' = [writer EXCEPT ![w].pc = "linking", ![w].tip = LatestTip]
    /\ UNCHANGED <<stream, rows, today, job, fill, anchor, disturbed, calm, altered, faults>>

\* A failed read starts a new chain for a call and gives up on a round's hash.
TipFails(w) ==
    /\ writer[w].pc = "open"
    /\ writer' = [writer EXCEPT ![w].pc = IF stream = "round" THEN "playing" ELSE "linking"]
    /\ disturbed' = TRUE
    /\ Fault
    /\ UNCHANGED <<stream, rows, today, job, fill, anchor, calm, altered>>

\* The call's answer and its hash go in together, over the final row.
CallWritten(w) ==
    LET i == writer[w].row IN
    /\ stream = "wallet_call" /\ writer[w].pc = "linking"
    /\ rows' = [rows EXCEPT ![i] = [@ EXCEPT !.content = "final", !.prev = writer[w].tip,
                                             !.hash = hashRow(writer[w].tip, i, "final")]]
    /\ writer' = [writer EXCEPT ![w] = Idle]
    /\ Touched(i)
    /\ UNCHANGED <<stream, today, fill, anchor, disturbed, altered, faults>>

\* The round is hashed as it opens.
RoundHashed(w) ==
    LET i == writer[w].row IN
    /\ stream = "round" /\ writer[w].pc = "linking"
    /\ rows' = [rows EXCEPT ![i] = [@ EXCEPT !.prev = writer[w].tip,
                                             !.hash = hashRow(writer[w].tip, i, "open")]]
    /\ writer' = [writer EXCEPT ![w].pc = "playing"]
    /\ Touched(i)
    /\ UNCHANGED <<stream, today, fill, anchor, disturbed, altered, faults>>

\* What the round became (outcome, totals, times) is written without a new hash.
RoundSettles(w) ==
    LET i == writer[w].row IN
    /\ writer[w].pc = "playing"
    /\ rows' = [rows EXCEPT ![i].content = "final"]
    /\ writer' = [writer EXCEPT ![w] = Idle]
    /\ Touched(i)
    /\ UNCHANGED <<stream, today, fill, anchor, disturbed, altered, faults>>

\* The write fails and is logged: the call stays as it was inserted, the
\* round goes on without a hash.
WriteFails(w) ==
    /\ writer[w].pc = "linking"
    /\ writer' = [writer EXCEPT ![w] = IF stream = "round" THEN [@ EXCEPT !.pc = "playing"] ELSE Idle]
    /\ disturbed' = TRUE
    /\ Fault
    /\ UNCHANGED <<stream, rows, today, job, fill, anchor, calm, altered>>

NextDay ==
    /\ today < MaxDays /\ today' = today + 1
    /\ UNCHANGED <<stream, rows, writer, job, fill, anchor, disturbed, calm, altered, faults>>

-----------------------------------------------------------------------------
(* The anchor: ReconciliationJob.tick, anchorDay and summarise...Day.       *)

\* Mutant: today is signed, while its rows come in.
AnchorTipToday ==
    /\ job.pc = "idle"
    /\ job' = [pc |-> "tip", day |-> today, prev |-> HashOfLast(BeforeDay(today)), batch |-> <<>>, calm |-> TRUE]
    /\ UNCHANGED <<stream, rows, writer, today, fill, anchor, disturbed, calm, altered, faults>>

\* Yesterday inherits the hash of the last row before it, if that has one.
AnchorTip ==
    /\ job.pc = "idle" /\ today > 1
    /\ job' = [pc |-> "tip", day |-> today - 1, prev |-> HashOfLast(BeforeDay(today - 1)),
               batch |-> <<>>, calm |-> TRUE]
    /\ UNCHANGED <<stream, rows, writer, today, fill, anchor, disturbed, calm, altered, faults>>

\* What is read of rows that are then worked off in their order.
Snapshot(S) == [i \in S |-> [content |-> rows[i].content, prev |-> rows[i].prev, hash |-> rows[i].hash]]
First(batch) == Min(DOMAIN batch)
Rest(batch) == Restrict(batch, DOMAIN batch \ {First(batch)})

\* A day without rows is skipped.
AnchorRows ==
    /\ job.pc = "tip"
    /\ job' = IF OfDay(job.day) = {} THEN NoJob
              ELSE [job EXCEPT !.pc = "rows", !.batch = Snapshot(OfDay(job.day))]
    /\ altered' = altered \ {job.day}
    /\ UNCHANGED <<stream, rows, writer, today, fill, anchor, disturbed, calm, faults>>

\* Mutant: a row that has some hash is left as it is.
RelinkMissing ==
    LET i == First(job.batch)
        row == job.batch[i]
        computed == hashRow(job.prev, i, row.content) IN
    /\ job.pc = "rows" /\ DOMAIN job.batch # {}
    /\ rows' = IF row.hash = Null THEN [rows EXCEPT ![i] = [@ EXCEPT !.prev = job.prev, !.hash = computed]] ELSE rows
    /\ job' = [job EXCEPT !.prev = computed, !.batch = Rest(@)]
    /\ UNCHANGED <<stream, writer, today, fill, anchor, disturbed, calm, altered, faults>>

\* One row of what was read: written back if its link or its hash is not
\* what the walk computes.
Relink ==
    LET i == First(job.batch)
        row == job.batch[i]
        computed == hashRow(job.prev, i, row.content)
        stale == row.hash # computed \/ row.prev # job.prev IN
    /\ job.pc = "rows" /\ DOMAIN job.batch # {}
    /\ ~(stale /\ rows[i].gone)
    /\ rows' = IF stale THEN [rows EXCEPT ![i] = [@ EXCEPT !.prev = job.prev, !.hash = computed]] ELSE rows
    /\ calm' = IF stale THEN {d \in calm : d <= job.day} ELSE calm
    /\ disturbed' = (disturbed \/ stale)
    /\ job' = [job EXCEPT !.prev = computed, !.batch = Rest(@)]
    /\ UNCHANGED <<stream, writer, today, fill, anchor, altered, faults>>

AnchorSigns ==
    /\ job.pc = "rows" /\ DOMAIN job.batch = {}
    /\ anchor' = [anchor EXCEPT ![job.day] = [tip |-> job.prev, count |-> Cardinality(OfDay(job.day))]]
    /\ calm' = IF job.calm THEN calm \cup {job.day} ELSE calm \ {job.day}
    /\ job' = NoJob
    /\ UNCHANGED <<stream, rows, writer, today, fill, disturbed, altered, faults>>

\* A failed query or a restart ends the tick; the next hour starts again.
AnchorFails ==
    /\ job.pc # "idle"
    /\ job' = NoJob
    /\ Fault
    /\ UNCHANGED <<stream, rows, writer, today, fill, anchor, disturbed, calm, altered>>

-----------------------------------------------------------------------------
(* backfillWalletCallChain, backfillRoundChain: every row without a hash is *)
(* appended to the tip, batch after batch, until a batch is empty.          *)

BackfillStarts ==
    /\ fill.pc = "idle" /\ Hashed # Live
    /\ fill' = [NoFill EXCEPT !.pc = "batch", !.prev = LatestTip]
    /\ Fault
    /\ UNCHANGED <<stream, rows, writer, today, job, anchor, disturbed, calm, altered>>

BackfillReads ==
    /\ fill.pc = "batch" /\ DOMAIN fill.batch = {}
    /\ fill' = IF Hashed = Live THEN NoFill ELSE [fill EXCEPT !.batch = Snapshot(Live \ Hashed)]
    /\ UNCHANGED <<stream, rows, writer, today, job, anchor, disturbed, calm, altered, faults>>

BackfillRow ==
    LET i == First(fill.batch)
        computed == hashRow(fill.prev, i, fill.batch[i].content) IN
    /\ DOMAIN fill.batch # {} /\ ~rows[i].gone
    /\ rows' = [rows EXCEPT ![i] = [@ EXCEPT !.prev = fill.prev, !.hash = computed]]
    /\ fill' = [fill EXCEPT !.prev = computed, !.batch = Rest(@)]
    /\ disturbed' = TRUE
    /\ Touched(i)
    /\ UNCHANGED <<stream, writer, today, anchor, altered, faults>>

-----------------------------------------------------------------------------
\* What the chain is there to show: a finished row changed, or removed,
\* by something that is not this program.
Alter(i) ==
    /\ i \in Live /\ rows[i].content = "final" /\ \A w \in Writers : writer[w].row # i
    /\ rows' \in {[rows EXCEPT ![i].content = "altered"], [rows EXCEPT ![i].gone = TRUE]}
    /\ altered' = altered \cup {rows[i].day}
    /\ Touched(i)
    /\ Fault
    /\ UNCHANGED <<stream, writer, today, fill, anchor, disturbed>>

Next ==
    \/ \E w \in Writers : \/ RowCreated(w) \/ TipRead(w) \/ TipFails(w) \/ CallWritten(w)
                          \/ RoundHashed(w) \/ RoundSettles(w) \/ WriteFails(w)
    \/ NextDay
    \/ AnchorTip \/ AnchorRows \/ Relink \/ AnchorSigns \/ AnchorFails
    \/ BackfillStarts \/ BackfillReads \/ BackfillRow
    \/ \E i \in DOMAIN rows : Alter(i)

-----------------------------------------------------------------------------
(* The replay: verifyAnchor.                                                *)

\* Unlike AnchorTip, the replay starts from the last row that has a hash.
\* It gives the hash at each row of the table: that of the day's last row so far.
Replay(d) ==
    LET upTo[i \in 0..Len(rows)] ==
          IF i = 0 THEN HashOfLast(BeforeDay(d) \cap Hashed)
          ELSE IF i \in OfDay(d) THEN hashRow(upTo[i - 1], i, rows[i].content) ELSE upTo[i - 1]
    IN upTo
Matches(d) == Replay(d)[Len(rows)] = anchor[d].tip
Mismatches(d) == {i \in OfDay(d) \cap Hashed : rows[i].hash # Replay(d)[i]}

(* Types of the rows and of who works on them. *)
TypeOK ==
    /\ \A i \in DOMAIN rows : rows[i].day \in 1..today /\ rows[i].content \in {"open", "final", "altered"}
    /\ \A w \in Writers : writer[w].pc \in {"idle", "open", "linking", "playing"} /\ writer[w].row \in 0..Len(rows)
    /\ job.pc \in {"idle", "tip", "rows"} /\ job.day < today /\ fill.pc \in {"idle", "batch"}
    /\ calm \subseteq Days /\ altered \subseteq Days

(* verifyAnchor after anchorDay: a day that was signed and whose rows nobody *)
(* has changed since replays to the signed tip, with every stored hash in    *)
(* agreement, whatever forks, failed writes and dead ticks came before. The  *)
(* last row before it must have a hash: the two sides differ there.          *)
AnchoredDayReplays ==
    \A d \in Days : anchor[d] # Unsigned /\ d \in calm
                       /\ (BeforeDay(d) = {} \/ HashOfLast(BeforeDay(d)) # Null)
                    => Matches(d) /\ Mismatches(d) = {} /\ anchor[d].count = Cardinality(OfDay(d))

(* The purpose of the chain: from the moment a row of a signed day is        *)
(* altered or removed until the day is read to be signed again, the replay   *)
(* of that day does not match its anchor.                                    *)
AlterationShows ==
    \A d \in altered : anchor[d] # Unsigned => ~Matches(d)

(* Writers that never overlap and never fail leave one chain in creation     *)
(* order, which the job need not touch: every hash continues the nearest     *)
(* hashed row before it, and a call's hash covers its final content.         *)
OneAtATimeIsLinear ==
    ~disturbed => \A i \in Hashed :
        /\ (\A j \in DOMAIN rows : ~rows[j].gone) =>
              rows[i].prev = HashOfLast({j \in Hashed : j < i})
        /\ stream = "wallet_call" => rows[i].hash = hashRow(rows[i].prev, i, "final")
=============================================================================
