----------------------------- MODULE WalletJobs -----------------------------
(* The retry queue of wallet calls: PendingWalletJob rows, the processes    *)
(* that run them, and the operator's people who retry or cancel a job from  *)
(* the portal.  A step is the code between two awaits, so two processes and *)
(* two handlers meet between the read and the write of a row.               *)
(*                                                                          *)
(* Time is what remains of it: lock and wait count down to lockedUntil and  *)
(* nextAttemptAt.  attempts stops at MaxAttempts, the only number it is     *)
(* compared with once the backoff has reached its cap.                      *)
EXTENDS Naturals, FiniteSets

CONSTANTS Jobs, NoJob,
          Procs,          \* server processes on one database
          MaxAttempts, LockTtl, BackoffCap, ExhaustedWait,  \* in attempts and ticks
          Slow,           \* may an attempt outlive its lock?
          MaxOutages, MaxFaults                             \* bounds on failures

ASSUME JobAssumption == NoJob \notin Jobs
ASSUME NumberAssumption == /\ MaxAttempts \in Nat \ {0} /\ LockTtl \in Nat \ {0, 1}
                           /\ BackoffCap \in Nat \ {0} /\ ExhaustedWait \in Nat
                           /\ MaxOutages \in Nat /\ MaxFaults \in Nat
\* A fact of arithmetic that the provers have not built in.
ASSUME PowerAssumption == \A n \in 0..MaxAttempts : 2 ^ n \in Nat

VARIABLES
    attempts, wait, lock,   \* columns attempts, nextAttemptAt and lockedUntil
    closed,                 \* completedAt and lastError: "open", "answer" or "cancel"
    pc, batch, at, seen,    \* each process: its step, the jobs of its tick, the job in
                            \* hand and the attempts it has read
    touched,                \* the jobs that portal users retry or cancel
    booked, known,          \* the operator: movements booked; jobs whose bet it knows
    late,                   \* requests abandoned by their timeout that may still arrive
    audited,                \* WalletCall rows: pairs of a job and an attempt
    unaudited, forgotten,   \* jobs called without a row; whose attempt was not counted
    portal,                 \* what a portal handler has read and is about to do
    outages, faults         \* failures so far: of the operator or its set-up; of a
                            \* process or a database call

row == <<attempts, wait, lock, closed>>
fixed == <<touched, known>>
runner == <<pc, batch, at, seen>>
operator == <<booked, late, fixed>>
ledger == <<audited, unaudited, forgotten>>
failures == <<outages, faults>>
vars == <<row, runner, operator, ledger, portal, failures>>

InCall == {"sent", "closing", "failing"}

\* Mutant: the process keeps the job in hand.
LeaveHolding(p) == pc' = [pc EXCEPT ![p] = "idle"] /\ seen' = [seen EXCEPT ![p] = MaxAttempts + 1] /\ UNCHANGED at

\* runJob() returns: its local variables are gone.
Leave(p) ==
    /\ pc' = [pc EXCEPT ![p] = "idle"]
    /\ at' = [at EXCEPT ![p] = NoJob] /\ seen' = [seen EXCEPT ![p] = 0]

Init ==
    /\ attempts = [j \in Jobs |-> 0] /\ wait = [j \in Jobs |-> 0]
    /\ lock = [j \in Jobs |-> 0] /\ closed = [j \in Jobs |-> "open"]
    /\ pc = [p \in Procs |-> "idle"] /\ batch = [p \in Procs |-> {}]
    /\ at = [p \in Procs |-> NoJob] /\ seen = [p \in Procs |-> 0]
    /\ touched \in SUBSET Jobs /\ booked = {} /\ known \in SUBSET Jobs /\ late = {}
    /\ audited = {} /\ unaudited = {} /\ forgotten = {}
    /\ portal = [j \in Jobs |-> "none"] /\ outages = 0 /\ faults = 0

LocalMin(a, b) == IF a < b THEN a ELSE b
OneMore(n) == LocalMin(n + 1, MaxAttempts)
Backoff(n) == IF n >= MaxAttempts THEN ExhaustedWait ELSE LocalMin(BackoffCap, 2 ^ n)

-----------------------------------------------------------------------------
(* The runner.                                                              *)

Due(j) == closed[j] = "open" /\ wait[j] = 0 /\ lock[j] = 0

\* tick(): findMany reads what is due; more than ten jobs wait for the next tick.
Poll(p) ==
    /\ pc[p] = "idle" /\ batch[p] = {}
    /\ \E j \in Jobs : Due(j)
    /\ batch' = [batch EXCEPT ![p] = {j \in Jobs : Due(j)}]
    /\ UNCHANGED <<row, pc, at, seen, operator, ledger, portal, failures>>

\* Mutant: the lock is taken without looking whether someone holds it.
LockBlindly(p, j) ==
    /\ pc[p] = "idle" /\ j \in batch[p]
    /\ batch' = [batch EXCEPT ![p] = @ \ {j}]
    /\ lock' = [lock EXCEPT ![j] = LockTtl]
    /\ pc' = [pc EXCEPT ![p] = "locked"] /\ at' = [at EXCEPT ![p] = j]
    /\ UNCHANGED <<attempts, wait, closed, seen, operator, ledger, portal, failures>>

\* runJob(): updateMany takes a free or expired lock and does not look at completedAt.
Lock(p, j) ==
    /\ pc[p] = "idle" /\ j \in batch[p]
    /\ batch' = [batch EXCEPT ![p] = @ \ {j}]
    /\ IF lock[j] = 0
         THEN /\ lock' = [lock EXCEPT ![j] = LockTtl]
              /\ pc' = [pc EXCEPT ![p] = "locked"] /\ at' = [at EXCEPT ![p] = j]
         ELSE UNCHANGED <<lock, pc, at>>
    /\ UNCHANGED <<attempts, wait, closed, seen, operator, ledger, portal, failures>>

\* findUnique: a job closed in the meantime is left, with its lock.
Read(p) ==
    /\ pc[p] = "locked"
    /\ IF closed[at[p]] = "open"
         THEN /\ pc' = [pc EXCEPT ![p] = "read"] /\ UNCHANGED at
              /\ seen' = [seen EXCEPT ![p] = attempts[at[p]]]
         ELSE Leave(p)
    /\ UNCHANGED <<row, batch, operator, ledger, portal, failures>>

\* buildAdapter() finds no operator, no credential or no callback URL.
NoAdapter(p) ==
    /\ pc[p] = "read" /\ outages < MaxOutages /\ outages' = outages + 1
    /\ pc' = [pc EXCEPT ![p] = "failing"]
    /\ UNCHANGED <<row, batch, at, seen, operator, ledger, portal, faults>>

\* invoke(): the WalletCall row of this attempt, unique per request and attempt,
\* and then the request, whether or not the row could be written.  (At MaxAttempts
\* the model's count stands still, the code's does not.)
Send(p) ==
    LET entry == <<at[p], seen[p] + 1>>
    IN  /\ pc[p] = "read"
        /\ pc' = [pc EXCEPT ![p] = "sent"]
        /\ audited' = audited \cup {entry}
        /\ unaudited' = IF entry \in audited /\ seen[p] < MaxAttempts
                          THEN unaudited \cup {at[p]} ELSE unaudited
        /\ UNCHANGED <<row, batch, at, seen, operator, forgotten, portal, failures>>

\* A rollback whose bet the operator does not know is answered with an error.
Unknown(j) == j \notin known

\* OK, DUPLICATE_TRANSACTION or TRANSACTION_DOES_NOT_EXIST: all three close the job.
Answered(p) ==
    /\ pc[p] = "sent"
    /\ booked' = IF Unknown(at[p]) THEN booked ELSE booked \cup {at[p]}
    /\ pc' = [pc EXCEPT ![p] = "closing"]
    /\ UNCHANGED <<row, batch, at, seen, fixed, late, ledger, portal, failures>>

\* Mutant: a timeout closes the job like an answer.
NotAnsweredCloses(p) ==
    /\ pc[p] = "sent" /\ outages < MaxOutages /\ outages' = outages + 1
    /\ late' = late \cup {at[p]}
    /\ pc' = [pc EXCEPT ![p] = "closing"]
    /\ UNCHANGED <<row, batch, at, seen, booked, fixed, ledger, portal, faults>>

\* A timeout, a 5xx, a broken or any other answer; the request may yet arrive.
NotAnswered(p) ==
    /\ pc[p] = "sent" /\ outages < MaxOutages /\ outages' = outages + 1
    /\ late' \in {late, late \cup {at[p]}}
    /\ pc' = [pc EXCEPT ![p] = "failing"]
    /\ UNCHANGED <<row, batch, at, seen, booked, fixed, ledger, portal, faults>>

\* Mutant: closing starts the count of attempts again.
CloseCountsAnew(p) ==
    /\ pc[p] = "closing"
    /\ closed' = [closed EXCEPT ![at[p]] = "answer"]
    /\ lock' = [lock EXCEPT ![at[p]] = 0]
    /\ attempts' = [attempts EXCEPT ![at[p]] = 1]
    /\ Leave(p)
    /\ UNCHANGED <<wait, batch, operator, ledger, portal, failures>>

\* The job is closed; attempts comes from the row as it was read.
Close(p) ==
    /\ pc[p] = "closing"
    /\ closed' = [closed EXCEPT ![at[p]] = "answer"]
    /\ lock' = [lock EXCEPT ![at[p]] = 0]
    /\ attempts' = [attempts EXCEPT ![at[p]] = OneMore(seen[p])]
    /\ Leave(p)
    /\ UNCHANGED <<wait, batch, operator, ledger, portal, failures>>

\* The write throws: the catch block reschedules what was answered.
CloseFails(p) ==
    /\ pc[p] = "closing" /\ faults < MaxFaults
    /\ faults' = faults + 1
    /\ pc' = [pc EXCEPT ![p] = "failing"]
    /\ UNCHANGED <<row, batch, at, seen, operator, ledger, portal, outages>>

\* Mutant: the number of attempts is not written.
RescheduleForgets(p) ==
    /\ pc[p] = "failing"
    /\ wait' = [wait EXCEPT ![at[p]] = Backoff(OneMore(seen[p]))]
    /\ lock' = [lock EXCEPT ![at[p]] = 0]
    /\ Leave(p)
    /\ UNCHANGED <<attempts, closed, batch, operator, ledger, portal, failures>>

\* reschedule(): attempts, nextAttemptAt and the lock; completedAt stays as it is.
Reschedule(p) ==
    /\ pc[p] = "failing"
    /\ attempts' = [attempts EXCEPT ![at[p]] = OneMore(seen[p])]
    /\ wait' = [wait EXCEPT ![at[p]] = Backoff(OneMore(seen[p]))]
    /\ lock' = [lock EXCEPT ![at[p]] = 0]
    /\ Leave(p)
    /\ UNCHANGED <<closed, batch, operator, ledger, portal, failures>>

\* A query of findUnique, buildAdapter() or reschedule() throws: tick() logs it and
\* goes on; the lock stays until it expires and the attempt is not counted.
Throws(p) ==
    /\ pc[p] \in {"locked", "read", "failing"} /\ faults < MaxFaults
    /\ faults' = faults + 1
    /\ forgotten' = IF pc[p] = "failing" THEN forgotten \cup {at[p]} ELSE forgotten
    /\ Leave(p)
    /\ UNCHANGED <<row, batch, operator, audited, unaudited, portal, outages>>

\* The process dies and is started again; its lock stays until it expires.
Crash(p) ==
    /\ faults < MaxFaults /\ faults' = faults + 1
    /\ Leave(p) /\ batch' = [batch EXCEPT ![p] = {}]
    /\ forgotten' = IF pc[p] \in InCall THEN forgotten \cup {at[p]} ELSE forgotten
    /\ late' \in IF pc[p] = "sent" THEN {late, late \cup {at[p]}} ELSE {late}
    /\ UNCHANGED <<row, booked, fixed, audited, unaudited, portal, outages>>

-----------------------------------------------------------------------------
(* The portal, the operator's network and the clock.                        *)

\* POST /jobs/:id/retry and /cancel read the row first (one request per job: a
\* bound) ...
PortalReads(j, what) ==
    /\ portal[j] = "none" /\ closed[j] = "open"
    /\ j \in touched
    /\ portal' = [portal EXCEPT ![j] = what]
    /\ UNCHANGED <<row, runner, operator, ledger, failures>>

\* ... and then write it, whatever it has become.
PortalRetries(j) ==
    /\ portal[j] = "retry" /\ portal' = [portal EXCEPT ![j] = "done"]
    /\ wait' = [wait EXCEPT ![j] = 0] /\ lock' = [lock EXCEPT ![j] = 0]
    /\ UNCHANGED <<attempts, closed, runner, operator, ledger, failures>>

PortalCancels(j) ==
    /\ portal[j] = "cancel" /\ portal' = [portal EXCEPT ![j] = "done"]
    /\ closed' = [closed EXCEPT ![j] = "cancel"] /\ lock' = [lock EXCEPT ![j] = 0]
    /\ UNCHANGED <<attempts, wait, runner, operator, ledger, failures>>

\* An abandoned request arrives after all; the operator books a uuid once.
DeliverLate(j) ==
    /\ j \in late /\ late' = late \ {j}
    /\ booked' = IF Unknown(j) THEN booked ELSE booked \cup {j}
    /\ UNCHANGED <<row, runner, fixed, ledger, portal, failures>>

\* Mutant: a lock never expires.
TickKeepsLocks ==
    /\ \E j \in Jobs : lock[j] > 0 \/ wait[j] > 0
    /\ wait' = [j \in Jobs |-> IF wait[j] > 0 THEN wait[j] - 1 ELSE 0]
    /\ UNCHANGED <<attempts, lock, closed, runner, operator, ledger, portal, failures>>

\* Unless the installation is slow, an attempt is over before its lock expires:
\* the wallet call is aborted after 5 s and the lock lasts 60 s.
Tick ==
    /\ \E j \in Jobs : lock[j] > 0 \/ wait[j] > 0
    /\ \/ Slow
       \/ \A p \in Procs : pc[p] # "idle" /\ at[p] \notin touched => lock[at[p]] # 1
    /\ lock' = [j \in Jobs |-> IF lock[j] > 0 THEN lock[j] - 1 ELSE 0]
    /\ wait' = [j \in Jobs |-> IF wait[j] > 0 THEN wait[j] - 1 ELSE 0]
    /\ UNCHANGED <<attempts, closed, runner, operator, ledger, portal, failures>>

-----------------------------------------------------------------------------
Run(p) ==
    \/ Poll(p) \/ \E j \in Jobs : Lock(p, j)
    \/ Read(p) \/ NoAdapter(p) \/ Send(p) \/ Answered(p) \/ NotAnswered(p)
    \/ Close(p) \/ CloseFails(p) \/ Reschedule(p) \/ Throws(p)

Portal(j) ==
    \/ \E what \in {"retry", "cancel"} : PortalReads(j, what)
    \/ PortalRetries(j) \/ PortalCancels(j)

AllClosed == \A j \in Jobs : closed[j] # "open"

\* Every job is closed: nothing is left to do.
Idle == AllClosed /\ UNCHANGED vars

Next ==
    \/ \E p \in Procs : Run(p) \/ Crash(p)
    \/ \E j \in Jobs : Portal(j) \/ DeliverLate(j)
    \/ Tick \/ Idle

Spec == Init /\ [][Next]_vars

\* The poll timer and every await of a process go on, and a process that died is
\* started again.  Failures are bounded: the operator can be reached in the end.
FairSpec ==
    /\ Spec
    /\ WF_vars(Tick)
    /\ \A p \in Procs : WF_vars(Run(p))

-----------------------------------------------------------------------------
\* Every column and every local variable has its type.
TypeOK ==
    /\ attempts \in [Jobs -> 0..MaxAttempts]
    /\ wait \in [Jobs -> Nat] /\ lock \in [Jobs -> 0..LockTtl]
    /\ closed \in [Jobs -> {"open", "answer", "cancel"}]
    /\ pc \in [Procs -> {"idle", "locked", "read"} \cup InCall]
    /\ batch \in [Procs -> SUBSET Jobs] /\ at \in [Procs -> Jobs \cup {NoJob}]
    /\ seen \in [Procs -> 0..MaxAttempts]
    /\ touched \subseteq Jobs /\ booked \subseteq Jobs /\ known \subseteq Jobs /\ late \subseteq Jobs
    /\ audited \subseteq Jobs \X (1..MaxAttempts + 1)
    /\ unaudited \subseteq Jobs /\ forgotten \subseteq Jobs
    /\ portal \in [Jobs -> {"none", "retry", "cancel", "done"}]
    /\ outages \in 0..MaxOutages /\ faults \in 0..MaxFaults

\* A job that an answer has closed has moved its money, unless it is the rollback
\* of a bet that the operator never booked.
ClosedMeansBooked == \A j \in Jobs : closed[j] = "answer" => j \in booked \/ Unknown(j)

Working(p, j) == pc[p] # "idle" /\ at[p] = j

\* Two processes never work on one job: the lock outlives the attempt.  It does not
\* hold for a job that a portal user retries, because that clears the lock.
NoOverlap ==
    \A j \in Jobs \ touched : \A p, q \in Procs : Working(p, j) /\ Working(q, j) => p = q

\* Every wallet call of the queue leaves a WalletCall row, unless an earlier attempt
\* was not counted (its process died or its reschedule() threw) or two overlapped.
CallsAreAudited == unaudited \subseteq forgotten \cup touched

\* PendingJobRunner: of the processes that poll one table only one at a time works on a
\* job, every call it makes is on record, and a job that an answer closed has moved its
\* money; but for a job a portal user retries or cancels while it is worked on.
JobsSettleOnce == TypeOK /\ ClosedMeansBooked /\ NoOverlap /\ CallsAreAudited

\* The attempt numbers of a job only rise, although every write computes them from
\* an earlier read.
AttemptsRise ==
    [][\A j \in Jobs \ touched : attempts'[j] >= attempts[j]]_vars

\* Whatever dies or times out, a job is closed in the end.
EveryJobCloses == \A j \in Jobs : <>(closed[j] # "open")

\* Not checked by a passing run: a cancelled job has not moved money after the
\* portal user was told that it was cancelled.
CancelledIsNotIssued ==
    [][\A j \in Jobs : closed[j] = "cancel" => (j \in booked' => j \in booked)]_vars
=============================================================================
