------------------------------ MODULE Webhooks ------------------------------
(* Outbound webhooks: dispatchEvent() queues one delivery per interested    *)
(* subscription, the poll loops of one or more processes claim, post and    *)
(* close deliveries, and portal users replay, rotate, patch and delete.     *)
(* A step is the code between two awaits.  nextAttemptAt is reduced to      *)
(* "backing off or not"; a secret is a number, its version another.         *)
EXTENDS Naturals, FiniteSets

CONSTANTS Events, Subs, Procs,
          Hands,                     \* portal requests that may be under way at once
          MaxAttempts, MaxFaults, MaxRotations, MaxReplays

Deliveries == Events \X Subs

VARIABLES
    sub,          \* WebhookSubscription: exists, enabled, version, secret, failing
    fan,          \* dispatchEvent: subscriptions still to queue, with the secret read
    state, attempt, backing, signed,   \* WebhookDelivery
    task, seen,   \* deliver() in each process: its step; the row and version it read
    hand,         \* portal requests between their read and their write
    posts, received, abandoned, raced, \* history: posts since the last replay; 2xx
                  \* answers; claims whose process died or threw; replays too late
    secrets, replays, faults           \* bounds

rows == <<state, attempt, backing, signed>>
history == <<posts, received, abandoned, raced>>
bounds == <<secrets, replays, faults>>
vars == <<sub, fan, rows, task, seen, hand, history, bounds>>

NoHand == [kind |-> "none"]
Queued == {"PENDING", "FAILED_RETRY"}
Steps == {"none", "picked", "claimed", "read", "ok", "failed"}

Init ==
    /\ sub = [s \in Subs |-> [exists |-> TRUE, enabled |-> TRUE, version |-> 1,
                              secret |-> 1, failing |-> FALSE]]
    /\ fan = [e \in Events |-> {}]
    /\ state = [d \in Deliveries |-> "none"] /\ attempt = [d \in Deliveries |-> 1]
    /\ backing = [d \in Deliveries |-> FALSE] /\ signed = [d \in Deliveries |-> 0]
    /\ task = [p \in Procs |-> [d \in Deliveries |-> "none"]]
    /\ seen = [p \in Procs |-> [d \in Deliveries |-> [attempt |-> 0, version |-> 0]]]
    /\ hand = [h \in Hands |-> NoHand]
    /\ posts = [d \in Deliveries |-> 0]
    /\ received = {} /\ abandoned = {} /\ raced = {}
    /\ secrets = [s \in Subs |-> 1] /\ replays = 0 /\ faults = 0

-----------------------------------------------------------------------------
(* dispatchEvent(): the subscriptions and their secrets are read at once,   *)
(* and the rows created one by one.                                         *)

\* Subscriptions that are disabled now do not hear of this event.
Dispatch(e) ==
    /\ fan[e] = {} /\ \A s \in Subs : state[<<e, s>>] = "none" /\ signed[<<e, s>>] = 0
    /\ fan' = [fan EXCEPT ![e] = {[s |-> s, secret |-> sub[s].secret] :
                                   s \in {t \in Subs : sub[t].exists /\ sub[t].enabled}}]
    /\ fan'[e] # {}
    /\ UNCHANGED <<sub, rows, task, seen, hand, history, bounds>>

\* A row whose subscription is gone, or that cannot be written, is logged and lost.
Queue(e) ==
    \E f \in fan[e] :
        LET d == <<e, f.s>> IN
        /\ fan' = [fan EXCEPT ![e] = @ \ {f}]
        /\ signed' = [signed EXCEPT ![d] = f.secret]
        /\ \/ sub[f.s].exists /\ state' = [state EXCEPT ![d] = "PENDING"] /\ UNCHANGED faults
           \/ ~sub[f.s].exists /\ UNCHANGED <<state, faults>>
           \/ faults < MaxFaults /\ faults' = faults + 1 /\ UNCHANGED state
        /\ UNCHANGED <<sub, attempt, backing, task, seen, hand, history, secrets, replays>>

-----------------------------------------------------------------------------
(* WebhookDispatcher.                                                       *)

Due(d) == state[d] \in Queued /\ ~backing[d]
Busy(p) == \E d \in Deliveries : task[p][d] # "none"

Goto(p, d, step) == task' = [task EXCEPT ![p][d] = step]

\* deliver() returns or throws: its local variables are gone.
Drop(p, d) ==
    /\ Goto(p, d, "none")
    /\ seen' = [seen EXCEPT ![p][d] = [attempt |-> 0, version |-> 0]]

\* tick(): it ends when every delivery of its batch has ended.
Poll(p) ==
    /\ ~Busy(p) /\ \E d \in Deliveries : Due(d)
    /\ task' = [task EXCEPT ![p] = [d \in Deliveries |-> IF Due(d) THEN "picked" ELSE "none"]]
    /\ UNCHANGED <<sub, fan, rows, seen, hand, history, bounds>>

\* Mutant: the claim does not look at the state.
ClaimBlindly(p, d) ==
    /\ task[p][d] = "picked"
    /\ state' = [state EXCEPT ![d] = IF @ = "none" THEN @ ELSE "IN_FLIGHT"] /\ Goto(p, d, "claimed")
    /\ UNCHANGED <<sub, fan, attempt, backing, signed, seen, hand, history, bounds>>

\* The claim: whoever moves the row to IN_FLIGHT delivers it.  It looks at the state
\* only, not at nextAttemptAt.
Claim(p, d) ==
    /\ task[p][d] = "picked"
    /\ IF state[d] \in Queued
         THEN state' = [state EXCEPT ![d] = "IN_FLIGHT"] /\ Goto(p, d, "claimed")
         ELSE UNCHANGED state /\ Goto(p, d, "none")
    /\ UNCHANGED <<sub, fan, attempt, backing, signed, seen, hand, history, bounds>>

\* findUnique: the attempt, and the subscription's version as it is now.
ReadRow(p, d) ==
    /\ task[p][d] = "claimed"
    /\ IF state[d] = "none"
         THEN Drop(p, d)
         ELSE /\ Goto(p, d, "read")
              /\ seen' = [seen EXCEPT ![p][d] = [attempt |-> attempt[d],
                                                 version |-> sub[d[2]].version]]
    /\ UNCHANGED <<sub, fan, rows, hand, history, bounds>>

\* Mutant: any answer at all counts as a delivery.
PostAnyAnswer(p, d) ==
    /\ task[p][d] = "read" /\ posts' = [posts EXCEPT ![d] = @ + 1]
    /\ \/ Goto(p, d, "ok") /\ received' = received \cup {d}
       \/ Goto(p, d, "ok") /\ UNCHANGED received
    /\ UNCHANGED <<sub, fan, rows, seen, hand, abandoned, raced, bounds>>

\* The POST: a 2xx answer in time, or anything else.  A receiver that answered too
\* late has the event nevertheless.
Post(p, d) ==
    /\ task[p][d] = "read" /\ posts' = [posts EXCEPT ![d] = @ + 1]
    /\ \/ Goto(p, d, "ok") /\ received' = received \cup {d}
       \/ Goto(p, d, "failed") /\ received' \in {received, received \cup {d}}
    /\ UNCHANGED <<sub, fan, rows, seen, hand, abandoned, raced, bounds>>

\* 2xx: the delivery is closed and the subscription's failures are forgotten.
Succeed(p, d) ==
    /\ task[p][d] = "ok" /\ Drop(p, d)
    /\ IF state[d] = "none" THEN UNCHANGED <<state, sub>>
       ELSE /\ state' = [state EXCEPT ![d] = "SUCCEEDED"]
            /\ sub' = [sub EXCEPT ![d[2]].failing = FALSE]
    /\ UNCHANGED <<fan, attempt, backing, signed, hand, history, bounds>>

\* Mutant: the budget is compared before the attempt is counted.
FailOneMore(p, d) ==
    LET exceeded == seen[p][d].attempt > MaxAttempts IN
    /\ task[p][d] = "failed" /\ Drop(p, d)
    /\ IF state[d] = "none" THEN UNCHANGED <<state, attempt, backing, sub>>
       ELSE /\ state' = [state EXCEPT ![d] = IF exceeded THEN "DEAD_LETTERED" ELSE "FAILED_RETRY"]
            /\ attempt' = [attempt EXCEPT ![d] = seen[p][d].attempt + 1]
            /\ backing' = [backing EXCEPT ![d] = ~exceeded]
            /\ sub' = [sub EXCEPT ![d[2]].failing = TRUE]
    /\ UNCHANGED <<fan, signed, hand, history, bounds>>

\* Mutant: a failed delivery stays claimed while it backs off.
FailKeepsClaim(p, d) ==
    /\ task[p][d] = "failed" /\ Drop(p, d)
    /\ attempt' = [attempt EXCEPT ![d] = seen[p][d].attempt + 1]
    /\ backing' = [backing EXCEPT ![d] = TRUE]
    /\ UNCHANGED <<sub, fan, state, signed, hand, history, bounds>>

\* Mutant: a failed delivery is parked in a state that no query asks for.
FailParks(p, d) ==
    /\ task[p][d] = "failed" /\ Drop(p, d)
    /\ state' = [state EXCEPT ![d] = IF @ = "none" THEN "none" ELSE "FAILED"]
    /\ UNCHANGED <<sub, fan, attempt, backing, signed, hand, history, bounds>>

\* A failed attempt is counted and retried after its backoff, or dead-lettered.
Fail(p, d) ==
    LET exceeded == seen[p][d].attempt >= MaxAttempts IN
    /\ task[p][d] = "failed" /\ Drop(p, d)
    /\ IF state[d] = "none" THEN UNCHANGED <<state, attempt, backing, sub>>
       ELSE /\ state' = [state EXCEPT ![d] = IF exceeded THEN "DEAD_LETTERED" ELSE "FAILED_RETRY"]
            /\ attempt' = [attempt EXCEPT ![d] = seen[p][d].attempt + 1]
            /\ backing' = [backing EXCEPT ![d] = ~exceeded]
            /\ sub' = [sub EXCEPT ![d[2]].failing = TRUE]
    /\ UNCHANGED <<fan, signed, hand, history, bounds>>

Holding(p, d) == task[p][d] \in Steps \ {"none", "picked"}

\* A query or the closing transaction throws: nobody looks at an IN_FLIGHT row again.
Throw(p, d) ==
    /\ Holding(p, d) /\ faults < MaxFaults /\ faults' = faults + 1
    /\ Drop(p, d) /\ abandoned' = abandoned \cup {d}
    /\ UNCHANGED <<sub, fan, rows, hand, posts, received, raced, secrets, replays>>

\* The process dies, with its batch and the events it is queueing.
Crash(p) ==
    /\ faults < MaxFaults /\ faults' = faults + 1
    /\ task' = [task EXCEPT ![p] = [d \in Deliveries |-> "none"]]
    /\ seen' = [seen EXCEPT ![p] = [d \in Deliveries |-> [attempt |-> 0, version |-> 0]]]
    /\ abandoned' = abandoned \cup {d \in Deliveries : Holding(p, d)}
    /\ fan' = [e \in Events |-> {}]
    /\ UNCHANGED <<sub, rows, hand, posts, received, raced, secrets, replays>>

\* nextAttemptAt has passed.
Elapse(d) ==
    /\ backing[d] /\ backing' = [backing EXCEPT ![d] = FALSE]
    /\ UNCHANGED <<sub, fan, state, attempt, signed, task, seen, hand, history, bounds>>

-----------------------------------------------------------------------------
(* The portal's routes.                                                     *)

\* Mutant: any delivery may be replayed.
ReplayReadsAny(h, d) ==
    /\ hand[h] = NoHand /\ state[d] # "none" /\ replays < MaxReplays
    /\ replays' = replays + 1
    /\ hand' = [hand EXCEPT ![h] = [kind |-> "replay", d |-> d]]
    /\ UNCHANGED <<sub, fan, rows, task, seen, history, secrets, faults>>

\* replay() reads a dead-lettered row ...
ReplayReads(h, d) ==
    /\ hand[h] = NoHand /\ state[d] = "DEAD_LETTERED" /\ replays < MaxReplays
    /\ replays' = replays + 1
    /\ hand' = [hand EXCEPT ![h] = [kind |-> "replay", d |-> d]]
    /\ UNCHANGED <<sub, fan, rows, task, seen, history, secrets, faults>>

\* ... and writes it, whatever another replay has made of it.
ReplayWrites(h) ==
    /\ hand[h].kind = "replay" /\ hand' = [hand EXCEPT ![h] = NoHand]
    /\ LET d == hand[h].d IN
       IF state[d] = "none" THEN UNCHANGED <<rows, posts, raced>>
       ELSE /\ state' = [state EXCEPT ![d] = "FAILED_RETRY"]
            /\ attempt' = [attempt EXCEPT ![d] = 1]
            /\ backing' = [backing EXCEPT ![d] = FALSE]
            /\ posts' = [posts EXCEPT ![d] = 0]
            /\ raced' = IF \E g \in Hands \ {h} : hand[g] = hand[h] THEN raced \cup {d} ELSE raced
            /\ UNCHANGED signed
    /\ UNCHANGED <<sub, fan, task, seen, received, abandoned, bounds>>

\* rotate-secret reads the version, and writes its successor with a new secret.
RotateReads(h, s) ==
    /\ hand[h] = NoHand /\ sub[s].exists /\ secrets[s] <= MaxRotations
    /\ hand' = [hand EXCEPT ![h] = [kind |-> "rotate", s |-> s, version |-> sub[s].version]]
    /\ UNCHANGED <<sub, fan, rows, task, seen, history, bounds>>

RotateWrites(h) ==
    /\ hand[h].kind = "rotate" /\ hand' = [hand EXCEPT ![h] = NoHand]
    /\ LET s == hand[h].s IN
       IF sub[s].exists
         THEN /\ secrets' = [secrets EXCEPT ![s] = @ + 1]
              /\ sub' = [sub EXCEPT ![s].version = hand[h].version + 1, ![s].secret = secrets[s] + 1]
         ELSE UNCHANGED <<secrets, sub>>
    /\ UNCHANGED <<fan, rows, task, seen, history, replays, faults>>

\* PATCH: what is queued already is delivered also for a disabled subscription.
Patch(s) ==
    /\ sub[s].exists /\ sub' = [sub EXCEPT ![s].enabled = ~@]
    /\ UNCHANGED <<fan, rows, task, seen, hand, history, bounds>>

\* Mutant: deleting a subscription leaves its deliveries behind.
DeleteKeepsQueue(s) ==
    /\ sub[s].exists /\ sub' = [sub EXCEPT ![s].exists = FALSE]
    /\ UNCHANGED <<fan, rows, task, seen, hand, history, bounds>>

\* DELETE takes the subscription's deliveries along.
Delete(s) ==
    /\ sub[s].exists /\ sub' = [sub EXCEPT ![s].exists = FALSE]
    /\ state' = [d \in Deliveries |-> IF d[2] = s THEN "none" ELSE state[d]]
    /\ backing' = [d \in Deliveries |-> backing[d] /\ d[2] # s]
    /\ UNCHANGED <<fan, attempt, signed, task, seen, hand, history, bounds>>

-----------------------------------------------------------------------------
Run(p) ==
    \/ Poll(p)
    \/ \E d \in Deliveries :
          Claim(p, d) \/ ReadRow(p, d) \/ Post(p, d) \/ Succeed(p, d) \/ Fail(p, d)

Next ==
    \/ \E e \in Events : Dispatch(e) \/ Queue(e)
    \/ \E p \in Procs : Run(p) \/ Crash(p) \/ \E d \in Deliveries : Throw(p, d)
    \/ \E d \in Deliveries : Elapse(d) \/ \E h \in Hands : ReplayReads(h, d)
    \/ \E h \in Hands : ReplayWrites(h) \/ RotateWrites(h)
    \/ \E s \in Subs : Patch(s) \/ Delete(s) \/ \E h \in Hands : RotateReads(h, s)

Spec == Init /\ [][Next]_vars

-----------------------------------------------------------------------------
\* Every row, task and request in hand has its type.
Secrets == Nat \ {0}
Subscriptions == [exists : BOOLEAN, enabled : BOOLEAN, version : Nat, secret : Secrets,
                  failing : BOOLEAN]
Views == [attempt : Nat, version : Nat]
Replays == [kind : {"replay"}, d : Deliveries]
Turns == [kind : {"rotate"}, s : Subs, version : Nat]
TypeOK ==
    /\ sub \in [Subs -> Subscriptions]
    /\ fan \in [Events -> SUBSET [s : Subs, secret : Secrets]]
    /\ state \in [Deliveries -> Queued \cup {"none", "IN_FLIGHT", "SUCCEEDED", "DEAD_LETTERED"}]
    /\ attempt \in [Deliveries -> Nat \ {0}] /\ backing \in [Deliveries -> BOOLEAN]
    /\ signed \in [Deliveries -> Nat]
    /\ task \in [Procs -> [Deliveries -> Steps]]
    /\ seen \in [Procs -> [Deliveries -> Views]]
    /\ hand \in [Hands -> {NoHand} \cup Replays \cup Turns]
    /\ posts \in [Deliveries -> Nat] /\ secrets \in [Subs -> Secrets]
    /\ received \subseteq Deliveries /\ abandoned \subseteq Deliveries /\ raced \subseteq Deliveries

\* An event that the log calls delivered was answered with 2xx.
SucceededWasReceived == \A d \in Deliveries : state[d] = "SUCCEEDED" => d \in received

\* Two processes never post one delivery at a time, unless two replays of it crossed.
OneDeliverer ==
    \A d \in Deliveries \ raced :
        Cardinality({p \in Procs : Holding(p, d)}) <= 1

\* A delivery is dead-lettered after exactly MaxAttempts posts, and never posted more
\* often: claims, retries and stale batches do not lose or repeat an attempt.
BudgetKept ==
    \A d \in Deliveries \ raced :
        /\ posts[d] <= MaxAttempts
        /\ state[d] = "DEAD_LETTERED" => posts[d] = MaxAttempts

\* A claimed delivery is in somebody's hands, unless its process died or threw.
InFlightHasOwner ==
    \A d \in Deliveries \ (raced \cup abandoned) :
        state[d] = "IN_FLIGHT" => \E p \in Procs : Holding(p, d)

\* A row belongs to a subscription that exists.
NoOrphans == \A d \in Deliveries : state[d] # "none" => sub[d[2]].exists

\* WebhookDispatcher: a delivery called SUCCEEDED was received, has one process posting
\* it and its budget of attempts, a claim is in somebody's hands, and no delivery
\* outlives its subscription; but for the ones whose process died or whose replays crossed.
DeliveriesAreOwned ==
    TypeOK /\ SucceededWasReceived /\ OneDeliverer /\ BudgetKept /\ InFlightHasOwner /\ NoOrphans

\* What was delivered is not sent again.
DeliveredOnce ==
    [][\A d \in Deliveries \ raced' :
         state[d] = "SUCCEEDED" => state'[d] \in {"SUCCEEDED", "none"}]_vars

Ended(d) == state[d] \in {"SUCCEEDED", "DEAD_LETTERED", "none"} \/ d \in abandoned

\* A queued delivery is answered with 2xx or dead-lettered in the end.
EveryDeliveryEnds == \A d \in Deliveries : state[d] = "PENDING" ~> Ended(d)

\* Not checked by a passing run: the version header names the secret that signed.
HeaderNamesTheKey ==
    \A p \in Procs, d \in Deliveries : task[p][d] = "read" => seen[p][d].version = signed[d]

\* Not checked by a passing run: an event is delivered at least once, also when the
\* process that claimed it dies.
AtLeastOnce == \A d \in Deliveries : state[d] = "PENDING" ~> state[d] \in {"SUCCEEDED", "DEAD_LETTERED", "none"}
=============================================================================
