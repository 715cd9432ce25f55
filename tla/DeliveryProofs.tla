--------------------------- MODULE DeliveryProofs ---------------------------
(* The retry queue for any number of jobs, processes, attempts, outages and *)
(* faults, where an attempt is over before its lock expires; and, side by   *)
(* side with it, the webhook deliveries and the two wallets of an operator, *)
(* for any requests in any order.                                           *)
EXTENDS MCDelivery, SumProofs

-----------------------------------------------------------------------------
(* The inductive invariant.                                                 *)

Busy(p) == pc[p] # "idle"

\* A busy process has a job in hand; a portal handler has one of the touched jobs.
HandInv ==
    /\ \A p \in Procs : Busy(p) => at[p] \in Jobs
    /\ \A j \in Jobs : portal[j] # "none" => j \in touched

\* Who works on a job that no portal user touches holds its lock.
HeldInv == \A p \in Procs : Busy(p) /\ at[p] \notin touched => lock[at[p]] > 0

\* A process that is about to close a job has been answered.
AnswerInv == \A p \in Procs : pc[p] = "closing" => at[p] \in booked \/ Unknown(at[p])

\* The number of attempts that a process has read is still the row's.
SeenInv ==
    \A p \in Procs :
        pc[p] \in {"read"} \cup InCall /\ at[p] \notin touched => seen[p] = attempts[at[p]]

\* Some process is in the call of the attempt after n.
Calling(j) == \E p \in Procs : pc[p] \in InCall /\ at[p] = j

\* The attempts on record have been counted, or the last one is still being made.
CountInv ==
    \A j \in Jobs \ (touched \cup forgotten) : \A n \in 1..MaxAttempts + 1 :
        <<j, n>> \in audited =>
            \/ n <= attempts[j]
            \/ attempts[j] = MaxAttempts
            \/ Calling(j) /\ n <= attempts[j] + 1

Inv ==
    /\ TypeOK /\ HandInv /\ HeldInv /\ AnswerInv /\ SeenInv /\ CountInv
    /\ ClosedMeansBooked /\ NoOverlap /\ CallsAreAudited

\* A step of another actor leaves the processes and what they rely on.
Undisturbed == UNCHANGED <<attempts, runner, touched, known, audited, unaudited, forgotten>>

-----------------------------------------------------------------------------
(* Lemmas about the numbers.                                                *)

USE JobAssumption, NumberAssumption
USE DEF InCall, row, fixed, runner, operator, ledger, failures

\* One attempt more is an attempt more, up to the last that is counted.
LEMMA OneMoreCounts ==
  ASSUME NEW n \in 0..MaxAttempts
  PROVE  /\ OneMore(n) \in 0..MaxAttempts /\ OneMore(n) >= n
         /\ OneMore(n) = n + 1 \/ OneMore(n) = MaxAttempts
  BY DEF OneMore, LocalMin

\* The backoff is a number of ticks.
LEMMA BackoffType == ASSUME NEW n \in 0..MaxAttempts PROVE Backoff(n) \in Nat
  BY PowerAssumption DEF Backoff, LocalMin

\* A new queue: nothing is in hand and nothing was called.
LEMMA InitInv == Init => Inv
  BY DEF Init, Inv, TypeOK, HandInv, HeldInv, AnswerInv, SeenInv, CountInv, Busy,
         ClosedMeansBooked, NoOverlap, CallsAreAudited, Working

\* No two processes have one untouched job in hand.
LEMMA Alone ==
  ASSUME Inv, NEW p \in Procs, NEW q \in Procs, Busy(p), Busy(q),
         at[p] = at[q], at[p] \notin touched
  PROVE  p = q
  BY DEF Inv, HandInv, NoOverlap, Working, Busy

-----------------------------------------------------------------------------
(* Each step of a process.                                                  *)

\* Reading what is due changes a batch only.
LEMMA PollInv == ASSUME Inv, NEW p \in Procs, Poll(p) PROVE Inv'
  BY DEF Poll, Inv, TypeOK, HandInv, HeldInv, AnswerInv, SeenInv, CountInv, Calling,
         Busy, ClosedMeansBooked, Unknown, NoOverlap, Working, CallsAreAudited

\* A free lock has no owner, so the one who takes it is alone.
LEMMA LockInv == ASSUME Inv, NEW p \in Procs, NEW j \in Jobs, Lock(p, j) PROVE Inv'
<1> USE DEF Inv, Lock
<1>1. TypeOK'
  BY DEF TypeOK
<1>2. HandInv' /\ AnswerInv' /\ ClosedMeansBooked' /\ CallsAreAudited'
  BY DEF TypeOK, HandInv, AnswerInv, Busy, ClosedMeansBooked, Unknown, CallsAreAudited
<1>3. HeldInv'
  BY DEF TypeOK, HandInv, HeldInv, Busy
<1>4. SeenInv'
  BY DEF TypeOK, SeenInv
<1>5. CountInv'
  <2>1. \A q \in Procs : pc[q] \in InCall => pc'[q] = pc[q] /\ at'[q] = at[q]
    BY DEF TypeOK
  <2> QED
    BY <2>1 DEF CountInv, Calling
<1>6. NoOverlap'
  <2>1. CASE lock[j] = 0
    <3>1. \A q \in Procs : Working(q, j) => j \in touched
      BY <2>1 DEF HeldInv, Working, Busy
    <3> QED
      BY <2>1, <3>1 DEF TypeOK, NoOverlap, Working
  <2>2. CASE lock[j] # 0
    BY <2>2 DEF NoOverlap, Working
  <2> QED
    BY <2>1, <2>2
<1> QED
  BY <1>1, <1>2, <1>3, <1>4, <1>5, <1>6

\* What a process reads is the row as it stands.
LEMMA ReadInv == ASSUME Inv, NEW p \in Procs, Read(p) PROVE Inv'
<1> USE DEF Inv, Read, Leave
<1>1. TypeOK'
  BY DEF TypeOK, HandInv, Busy
<1>2. HandInv' /\ HeldInv' /\ AnswerInv' /\ ClosedMeansBooked' /\ NoOverlap' /\ CallsAreAudited'
  BY SMTT(30) DEF TypeOK, HandInv, HeldInv, AnswerInv, Busy, ClosedMeansBooked, Unknown,
         NoOverlap, Working, CallsAreAudited
<1>3. SeenInv'
  BY DEF TypeOK, SeenInv
<1>4. CountInv'
  <2>1. \A q \in Procs : pc[q] \in InCall => pc'[q] = pc[q] /\ at'[q] = at[q]
    BY DEF TypeOK
  <2> QED
    BY <2>1 DEF CountInv, Calling
<1> QED
  BY <1>1, <1>2, <1>3, <1>4

\* A job without an adapter fails before its call.
LEMMA NoAdapterInv == ASSUME Inv, NEW p \in Procs, NoAdapter(p) PROVE Inv'
<1> USE DEF Inv, NoAdapter
<1>1. TypeOK'
  BY DEF TypeOK
<1>2. HandInv' /\ HeldInv' /\ AnswerInv' /\ ClosedMeansBooked' /\ NoOverlap' /\ CallsAreAudited'
  BY DEF TypeOK, HandInv, HeldInv, AnswerInv, Busy, ClosedMeansBooked, Unknown,
         NoOverlap, Working, CallsAreAudited
<1>3. SeenInv'
  BY DEF TypeOK, SeenInv
<1>4. CountInv'
  <2>1. \A q \in Procs : pc[q] \in InCall => pc'[q] \in InCall /\ at'[q] = at[q]
    BY DEF TypeOK
  <2> QED
    BY <2>1 DEF CountInv, Calling
<1> QED
  BY <1>1, <1>2, <1>3, <1>4

\* The entry of an attempt is new unless an earlier attempt was not counted.
LEMMA SendInv == ASSUME Inv, NEW p \in Procs, Send(p) PROVE Inv'
<1> USE DEF Inv, Send
<1>0. at[p] \in Jobs /\ seen[p] \in 0..MaxAttempts /\ seen[p] + 1 \in 1..MaxAttempts + 1
  BY DEF TypeOK, HandInv, Busy
<1>1. TypeOK'
  BY <1>0 DEF TypeOK
<1>2. HandInv' /\ HeldInv' /\ AnswerInv' /\ ClosedMeansBooked' /\ NoOverlap'
  BY DEF TypeOK, HandInv, HeldInv, AnswerInv, Busy, ClosedMeansBooked, Unknown,
         NoOverlap, Working
<1>3. SeenInv'
  BY DEF TypeOK, SeenInv
<1>4. CountInv'
  <2>1. \A q \in Procs : pc[q] \in InCall => pc'[q] \in InCall /\ at'[q] = at[q]
    BY DEF TypeOK
  <2>2. pc'[p] \in InCall /\ at'[p] = at[p]
    BY DEF TypeOK
  <2>3. at[p] \notin touched => seen[p] = attempts[at[p]]
    BY DEF SeenInv
  <2> SUFFICES ASSUME NEW j \in Jobs \ (touched \cup forgotten), NEW n \in 1..MaxAttempts + 1,
                      <<j, n>> \in audited'
               PROVE  n <= attempts[j] \/ attempts[j] = MaxAttempts
                        \/ (Calling(j)' /\ n <= attempts[j] + 1)
    BY DEF CountInv
  <2>4. CASE <<j, n>> \in audited
    BY <2>1, <2>4 DEF CountInv, Calling
  <2>5. CASE j = at[p] /\ n = seen[p] + 1
    BY <1>0, <2>2, <2>3, <2>5 DEF Calling
  <2> QED
    BY <2>4, <2>5
<1>5. CallsAreAudited'
  <2> DEFINE entry == <<at[p], seen[p] + 1>>
  <2>1. SUFFICES ASSUME entry \in audited, seen[p] < MaxAttempts,
                        at[p] \notin touched, at[p] \notin forgotten
                 PROVE  FALSE
    BY DEF CallsAreAudited
  <2>2. seen[p] = attempts[at[p]]
    BY <2>1 DEF SeenInv
  <2>3. Calling(at[p])
    BY <1>0, <2>1, <2>2 DEF CountInv
  <2>4. PICK q \in Procs : pc[q] \in InCall /\ at[q] = at[p]
    BY <2>3 DEF Calling
  <2>5. q = p
    BY <2>1, <2>4, Alone DEF Busy
  <2> QED
    BY <2>4, <2>5
<1> QED
  BY <1>1, <1>2, <1>3, <1>4, <1>5

\* All three kinds of answer mean that the money has moved, or never will.
LEMMA AnsweredInv == ASSUME Inv, NEW p \in Procs, Answered(p) PROVE Inv'
<1> USE DEF Inv, Answered
<1>0. at[p] \in Jobs
  BY DEF HandInv, Busy
<1>1. TypeOK'
  BY <1>0 DEF TypeOK
<1>2. HandInv' /\ HeldInv' /\ NoOverlap' /\ CallsAreAudited'
  BY DEF TypeOK, HandInv, HeldInv, Busy, NoOverlap, Working, CallsAreAudited
<1>3. AnswerInv' /\ ClosedMeansBooked'
  BY <1>0 DEF TypeOK, AnswerInv, ClosedMeansBooked, Unknown
<1>4. SeenInv'
  BY DEF TypeOK, SeenInv
<1>5. CountInv'
  <2>1. \A q \in Procs : pc[q] \in InCall => pc'[q] \in InCall /\ at'[q] = at[q]
    BY DEF TypeOK
  <2> QED
    BY <2>1 DEF CountInv, Calling
<1> QED
  BY <1>1, <1>2, <1>3, <1>4, <1>5

\* A call without a good answer and an answer that cannot be written both fail.
LEMMA FailingInv ==
  ASSUME Inv, NEW p \in Procs, NotAnswered(p) \/ CloseFails(p) PROVE Inv'
<1> USE DEF Inv, NotAnswered, CloseFails
<1>0. at[p] \in Jobs
  BY DEF HandInv, Busy
<1>1. TypeOK'
  <2>1. CASE NotAnswered(p)
    BY <1>0, <2>1 DEF TypeOK
  <2>2. CASE CloseFails(p)
    BY <1>0, <2>2 DEF TypeOK
  <2> QED
    BY <2>1, <2>2
<1>2. pc[p] \in InCall /\ pc' = [pc EXCEPT ![p] = "failing"]
      /\ UNCHANGED <<row, batch, at, seen, booked, fixed, ledger, portal>>
  OBVIOUS
<1>3. HandInv' /\ HeldInv' /\ NoOverlap' /\ CallsAreAudited' /\ AnswerInv' /\ ClosedMeansBooked'
  BY <1>2 DEF TypeOK, HandInv, HeldInv, AnswerInv, ClosedMeansBooked, Unknown, Busy,
              NoOverlap, Working, CallsAreAudited
<1>4. SeenInv'
  BY <1>2 DEF TypeOK, SeenInv
<1>5. CountInv'
  <2>1. \A q \in Procs : pc[q] \in InCall => pc'[q] \in InCall /\ at'[q] = at[q]
    BY <1>2 DEF TypeOK
  <2> QED
    BY <1>2, <2>1 DEF CountInv, Calling
<1> QED
  BY <1>1, <1>3, <1>4, <1>5

\* The end of an attempt: the attempt is counted and the lock is given back.
LEMMA FinishInv ==
  ASSUME Inv, NEW p \in Procs, pc[p] \in InCall, Leave(p),
         lock' = [lock EXCEPT ![at[p]] = 0],
         attempts' = [attempts EXCEPT ![at[p]] = OneMore(seen[p])],
         UNCHANGED <<batch, operator, ledger, portal, failures>>
  PROVE  /\ attempts' \in [Jobs -> 0..MaxAttempts] /\ lock' \in [Jobs -> 0..LockTtl]
         /\ at' \in [Procs -> Jobs \cup {NoJob}] /\ seen' \in [Procs -> 0..MaxAttempts]
         /\ HandInv' /\ HeldInv' /\ AnswerInv' /\ SeenInv' /\ CountInv' /\ NoOverlap'
         /\ \A j \in Jobs \ touched : attempts'[j] >= attempts[j]
<1> USE DEF Inv, Leave
<1>0. at[p] \in Jobs /\ seen[p] \in 0..MaxAttempts /\ Busy(p)
  BY DEF TypeOK, HandInv, Busy
<1>1. OneMore(seen[p]) \in 0..MaxAttempts /\ OneMore(seen[p]) >= seen[p]
      /\ (OneMore(seen[p]) = seen[p] + 1 \/ OneMore(seen[p]) = MaxAttempts)
  BY <1>0, OneMoreCounts
<1>2. /\ attempts' \in [Jobs -> 0..MaxAttempts] /\ lock' \in [Jobs -> 0..LockTtl]
      /\ at' \in [Procs -> Jobs \cup {NoJob}] /\ seen' \in [Procs -> 0..MaxAttempts]
  BY <1>0, <1>1 DEF TypeOK
<1>3. pc'[p] = "idle" /\ \A q \in Procs \ {p} : pc'[q] = pc[q] /\ at'[q] = at[q] /\ seen'[q] = seen[q]
  BY DEF TypeOK
<1>4. HandInv' /\ AnswerInv' /\ NoOverlap'
  BY <1>3 DEF HandInv, AnswerInv, Unknown, Busy, NoOverlap, Working
<1>5. \A q \in Procs \ {p} : Busy(q) /\ at[q] \notin touched => at[q] # at[p]
  BY <1>0, Alone
<1>6. HeldInv'
  BY <1>3, <1>5 DEF TypeOK, HandInv, HeldInv, Busy
<1>7. SeenInv'
  BY <1>3, <1>5 DEF TypeOK, HandInv, SeenInv, Busy
<1>8. at[p] \notin touched => seen[p] = attempts[at[p]]
  BY DEF SeenInv
<1>9. CountInv'
  <2> SUFFICES ASSUME NEW j \in Jobs \ (touched \cup forgotten), NEW n \in 1..MaxAttempts + 1,
                      <<j, n>> \in audited
               PROVE  n <= attempts'[j] \/ attempts'[j] = MaxAttempts
                        \/ (Calling(j)' /\ n <= attempts'[j] + 1)
    BY DEF CountInv
  <2>1. n <= attempts[j] \/ attempts[j] = MaxAttempts \/ (Calling(j) /\ n <= attempts[j] + 1)
    BY DEF CountInv
  <2>2. CASE j = at[p]
    BY <1>1, <1>8, <2>1, <2>2 DEF TypeOK
  <2>3. CASE j # at[p]
    <3>1. attempts'[j] = attempts[j]
      BY <2>3 DEF TypeOK
    <3>2. Calling(j) => Calling(j)'
      BY <1>3, <2>3 DEF Calling
    <3> QED
      BY <2>1, <3>1, <3>2
  <2> QED
    BY <2>2, <2>3
<1>10. \A j \in Jobs \ touched : attempts'[j] >= attempts[j]
  BY <1>0, <1>1, <1>8 DEF TypeOK
<1> QED
  BY <1>2, <1>4, <1>6, <1>7, <1>9, <1>10

\* Closing is for what was answered.
LEMMA CloseInv == ASSUME Inv, NEW p \in Procs, Close(p) PROVE Inv'
<1> USE DEF Inv, Close
<1>1. /\ attempts' \in [Jobs -> 0..MaxAttempts] /\ lock' \in [Jobs -> 0..LockTtl]
      /\ at' \in [Procs -> Jobs \cup {NoJob}] /\ seen' \in [Procs -> 0..MaxAttempts]
      /\ HandInv' /\ HeldInv' /\ AnswerInv' /\ SeenInv' /\ CountInv' /\ NoOverlap'
  BY FinishInv
<1>2. TypeOK'
  BY <1>1 DEF TypeOK, Leave
<1>3. ClosedMeansBooked' /\ CallsAreAudited'
  BY DEF TypeOK, AnswerInv, ClosedMeansBooked, Unknown, CallsAreAudited
<1> QED
  BY <1>1, <1>2, <1>3

\* Rescheduling leaves completedAt as it is.
LEMMA RescheduleInv == ASSUME Inv, NEW p \in Procs, Reschedule(p) PROVE Inv'
<1> USE DEF Inv, Reschedule
<1>1. /\ attempts' \in [Jobs -> 0..MaxAttempts] /\ lock' \in [Jobs -> 0..LockTtl]
      /\ at' \in [Procs -> Jobs \cup {NoJob}] /\ seen' \in [Procs -> 0..MaxAttempts]
      /\ HandInv' /\ HeldInv' /\ AnswerInv' /\ SeenInv' /\ CountInv' /\ NoOverlap'
  BY FinishInv
<1>2. Backoff(OneMore(seen[p])) \in Nat
  BY OneMoreCounts, BackoffType DEF TypeOK
<1>3. TypeOK'
  BY <1>1, <1>2 DEF TypeOK, Leave
<1>4. ClosedMeansBooked' /\ CallsAreAudited'
  BY DEF ClosedMeansBooked, Unknown, CallsAreAudited
<1> QED
  BY <1>1, <1>3, <1>4

\* A process that gives a job up in its call leaves an attempt that is not counted.
LEMMA GiveUpInv == ASSUME Inv, NEW p \in Procs, Throws(p) \/ Crash(p) PROVE Inv'
<1> USE DEF Inv, Throws, Crash, Leave
<1>0. pc[p] \in InCall => at[p] \in Jobs
  BY DEF HandInv, Busy
<1>1. TypeOK'
  <2>1. CASE Throws(p)
    BY <1>0, <2>1 DEF TypeOK
  <2>2. CASE Crash(p)
    <3>1. late' \subseteq Jobs /\ forgotten' \subseteq Jobs
      BY <1>0, <2>2 DEF TypeOK
    <3> QED
      BY <2>2, <3>1 DEF TypeOK
  <2> QED
    BY <2>1, <2>2
<1>2. /\ pc'[p] = "idle"
      /\ \A q \in Procs \ {p} : pc'[q] = pc[q] /\ at'[q] = at[q] /\ seen'[q] = seen[q]
      /\ UNCHANGED <<row, booked, fixed, audited, unaudited, portal>>
      /\ forgotten \subseteq forgotten'
  BY DEF TypeOK
<1>3. pc[p] \in InCall => at[p] \in forgotten'
  BY DEF TypeOK
<1>4. HandInv' /\ HeldInv' /\ AnswerInv' /\ SeenInv'
  BY <1>2 DEF HandInv, HeldInv, AnswerInv, SeenInv, Unknown, Busy
<1>5. ClosedMeansBooked' /\ NoOverlap' /\ CallsAreAudited'
  BY <1>2 DEF ClosedMeansBooked, Unknown, NoOverlap, Working, CallsAreAudited
<1>6. CountInv'
  <2> SUFFICES ASSUME NEW j \in Jobs \ (touched \cup forgotten'), Calling(j)
               PROVE  Calling(j)'
    BY <1>2 DEF CountInv
  <2>1. PICK q \in Procs : pc[q] \in InCall /\ at[q] = j
    BY DEF Calling
  <2>2. q # p
    BY <1>3, <2>1
  <2> QED
    BY <1>2, <2>1, <2>2 DEF Calling
<1> QED
  BY <1>1, <1>4, <1>5, <1>6

-----------------------------------------------------------------------------
(* The portal, the network and the clock.                                   *)

\* What a step of another actor must keep: locks of untouched jobs that are at work,
\* what is booked, and closed jobs.
LEMMA UndisturbedInv ==
  ASSUME Inv, Undisturbed, TypeOK', HeldInv', ClosedMeansBooked',
         \A j \in Jobs : portal'[j] # "none" => j \in touched, booked \subseteq booked'
  PROVE  Inv'
  BY DEF Inv, Undisturbed, HandInv, AnswerInv, SeenInv, CountInv, Calling, Busy, Unknown,
         NoOverlap, Working, CallsAreAudited

\* A portal user clears the lock of a job that is touched, and no other.
LEMMA PortalInv == ASSUME Inv, NEW j \in Jobs, Portal(j) PROVE Inv'
<1> USE DEF Inv, Portal, PortalReads, PortalRetries, PortalCancels
<1>1. Undisturbed /\ booked' = booked
  BY DEF Undisturbed
<1>2. TypeOK'
  BY DEF TypeOK
<1>3. \A i \in Jobs : portal'[i] # "none" => i \in touched
  BY DEF TypeOK, HandInv
<1>4. HeldInv'
  <2>1. \A i \in Jobs \ touched : lock'[i] = lock[i]
    BY DEF TypeOK, HandInv
  <2> QED
    BY <1>1, <2>1 DEF Undisturbed, HandInv, HeldInv, Busy
<1>5. ClosedMeansBooked'
  BY DEF TypeOK, ClosedMeansBooked, Unknown
<1> QED
  BY <1>1, <1>2, <1>3, <1>4, <1>5, UndisturbedInv

\* A late request only adds to what is booked.
LEMMA DeliverLateInv == ASSUME Inv, NEW j \in Jobs, DeliverLate(j) PROVE Inv'
<1> USE DEF Inv, DeliverLate
<1>1. Undisturbed /\ booked \subseteq booked' /\ UNCHANGED <<row, portal>>
  BY DEF Undisturbed
<1>2. TypeOK'
  BY DEF TypeOK
<1>3. HeldInv' /\ ClosedMeansBooked' /\ \A i \in Jobs : portal'[i] # "none" => i \in touched
  BY <1>1 DEF Undisturbed, HandInv, HeldInv, Busy, ClosedMeansBooked, Unknown
<1> QED
  BY <1>1, <1>2, <1>3, UndisturbedInv

\* The clock does not pass the end of a lock that is held.
LEMMA TickInv == ASSUME ~Slow, Inv, Tick PROVE Inv'
<1> USE DEF Inv, Tick
<1>1. Undisturbed /\ UNCHANGED <<closed, operator, portal>>
  BY DEF Undisturbed
<1>2. TypeOK'
  BY DEF TypeOK
<1>3. HeldInv'
  BY <1>1 DEF Undisturbed, TypeOK, HandInv, HeldInv, Busy
<1>4. ClosedMeansBooked' /\ \A i \in Jobs : portal'[i] # "none" => i \in touched
  BY <1>1 DEF HandInv, ClosedMeansBooked, Unknown
<1> QED
  BY <1>1, <1>2, <1>3, <1>4, UndisturbedInv

-----------------------------------------------------------------------------
\* Every step preserves the invariant.
LEMMA NextInv == ASSUME ~Slow, Inv, [Next]_vars PROVE Inv'
<1>1. ASSUME NEW p \in Procs, Run(p) PROVE Inv'
  BY <1>1, PollInv, LockInv, ReadInv, NoAdapterInv, SendInv, AnsweredInv, FailingInv,
     CloseInv, RescheduleInv, GiveUpInv DEF Run
<1>2. ASSUME NEW p \in Procs, Crash(p) PROVE Inv'
  BY <1>2, GiveUpInv
<1>3. ASSUME NEW j \in Jobs, Portal(j) \/ DeliverLate(j) PROVE Inv'
  BY <1>3, PortalInv, DeliverLateInv
<1>4. CASE Tick
  BY <1>4, TickInv
<1>5. CASE UNCHANGED vars
  BY <1>5 DEF vars, Inv, TypeOK, HandInv, HeldInv, AnswerInv, SeenInv, CountInv, Calling,
              Busy, ClosedMeansBooked, Unknown, NoOverlap, Working, CallsAreAudited
<1> QED
  BY <1>1, <1>2, <1>3, <1>4, <1>5 DEF Next, Idle

LEMMA SpecInv == ASSUME ~Slow PROVE Spec => []Inv
<1>1. Inv /\ [Next]_vars => Inv'
  BY NextInv
<1> QED
  BY <1>1, InitInv, PTL DEF Spec

\* PendingJobRunner: however many processes poll the table, an untouched job is in one
\* pair of hands, its calls are on record, and a job that an answer closed has moved
\* its money: provided an attempt is over before its lock expires.
THEOREM JobsSettleOnceHolds == ASSUME ~Slow PROVE Spec => []JobsSettleOnce
<1>1. Inv => JobsSettleOnce
  BY DEF Inv, JobsSettleOnce
<1> QED
  BY <1>1, SpecInv, PTL

\* close() and reschedule(): the number of attempts, computed from an earlier read of
\* the row, never takes back one that was counted.
THEOREM AttemptsRiseHolds == ASSUME ~Slow PROVE Spec => AttemptsRise
<1>1. ASSUME Inv, [Next]_vars, NEW j \in Jobs \ touched PROVE attempts'[j] >= attempts[j]
  <2>1. CASE UNCHANGED attempts
    BY <1>1, <2>1 DEF Inv, TypeOK
  <2>2. ASSUME NEW p \in Procs, Close(p) \/ Reschedule(p) PROVE attempts'[j] >= attempts[j]
    BY <1>1, <2>2, FinishInv DEF Close, Reschedule
  <2> QED
    BY <1>1, <2>1, <2>2 DEF Next, Run, Portal, Poll, Lock, Read, NoAdapter, Send, Answered,
       NotAnswered, CloseFails, Throws, Crash, PortalReads, PortalRetries, PortalCancels,
       DeliverLate, Tick, Idle, vars
<1>2. Inv /\ [Next]_vars => [\A j \in Jobs \ touched : attempts'[j] >= attempts[j]]_vars
  BY <1>1
<1> QED
  BY <1>2, SpecInv, PTL DEF Spec, AttemptsRise

-----------------------------------------------------------------------------
(* The inductive invariant of the webhook deliveries.                       *)

\* A row has one attempt to begin with, and is signed before it exists.
NewInv ==
    \A d \in H!Deliveries : signed[d] = 0 =>
        /\ state[d] = "none" /\ posts[d] = 0 /\ attempt[d] = 1
        /\ \A p \in Procs : ~H!Holding(p, d)

\* An event is fanned out once, to each subscription once.
FanInv ==
    \A e \in Events : \A f \in fan[e] :
        /\ signed[<<e, f.s>>] = 0
        /\ \A g \in fan[e] : g.s = f.s => g = f

\* Who holds a delivery has claimed it, or its subscription has been deleted, and is alone.
HoldInv ==
    \A d \in H!Deliveries \ raced : \A p \in Procs : H!Holding(p, d) =>
        /\ state[d] \in {"IN_FLIGHT", "none"}
        /\ \A q \in Procs : H!Holding(q, d) => q = p

\* A 2xx answer has been received before it is acted upon.
ReceivedInv ==
    \A d \in H!Deliveries :
        /\ \A p \in Procs : task[p][d] = "ok" => d \in received
        /\ state[d] = "SUCCEEDED" => d \in received

\* Only a dead-lettered delivery is in a replay's hands, unless another came first.
ReplayInv ==
    \A h \in Hands :
        hand[h].kind = "replay" =>
            /\ signed[hand[h].d] # 0
            /\ hand[h].d \notin raced => state[hand[h].d] \in {"DEAD_LETTERED", "none"}

\* The row counts the posts: one less before the attempt, as many after it.
Before(d) == posts[d] = attempt[d] - 1 /\ attempt[d] <= MaxAttempts
After(d) == posts[d] = attempt[d] /\ attempt[d] <= MaxAttempts
BudgetInv ==
    \A d \in H!Deliveries \ raced :
        /\ posts[d] <= MaxAttempts
        /\ state[d] \in H!Queued => Before(d)
        /\ state[d] = "DEAD_LETTERED" => posts[d] = MaxAttempts
        /\ \A p \in Procs :
             /\ task[p][d] \in {"claimed", "read"} => Before(d)
             /\ task[p][d] \in {"ok", "failed"} => After(d)
             /\ task[p][d] \in {"read", "ok", "failed"} => rowSeen[p][d].attempt = attempt[d]

HookInv ==
    /\ H!TypeOK /\ NewInv /\ FanInv /\ HoldInv /\ ReceivedInv /\ ReplayInv /\ BudgetInv
    /\ H!InFlightHasOwner /\ H!NoOrphans

-----------------------------------------------------------------------------
USE DEF H!Queued, H!Steps, H!Secrets, H!rows, H!history, H!bounds

\* Cardinality is that of the module of finite sets.
LEMMA SameCardinality == ASSUME NEW T PROVE H!Cardinality(T) = Cardinality(T)
  BY DEF H!Cardinality, Cardinality

\* A delivery is that of an event to a subscription.
LEMMA DeliveryOf ==
  /\ \A e \in Events : \A s \in Subs : <<e, s>> \in H!Deliveries
  /\ \A d \in H!Deliveries : d[2] \in Subs
  BY DEF H!Deliveries

\* A replay in hand names a delivery.
LEMMA HandType ==
  ASSUME H!TypeOK, NEW h \in Hands, hand[h].kind = "replay"
  PROVE  hand[h].d \in H!Deliveries /\ hand[h] = [kind |-> "replay", d |-> hand[h].d]
<1>1. hand[h] \in {H!NoHand} \cup H!Replays \cup H!Turns
  BY DEF H!TypeOK
<1>2. hand[h] \in H!Replays
  BY <1>1 DEF H!NoHand, H!Replays, H!Turns
<1> QED
  BY <1>2 DEF H!Replays

\* A step of a task leaves the other tasks.
LEMMA GotoEffect ==
  ASSUME H!TypeOK, NEW p \in Procs, NEW d \in H!Deliveries, NEW step \in H!Steps, H!Goto(p, d, step)
  PROVE  /\ task' \in [Procs -> [H!Deliveries -> H!Steps]] /\ task'[p][d] = step
         /\ \A q \in Procs : \A c \in H!Deliveries :
                q # p \/ c # d => task'[q][c] = task[q][c]
  BY DEF H!TypeOK, H!Goto

\* So does its end, and what was read is gone.
LEMMA DropEffect ==
  ASSUME H!TypeOK, NEW p \in Procs, NEW d \in H!Deliveries, H!Drop(p, d)
  PROVE  /\ task' \in [Procs -> [H!Deliveries -> H!Steps]] /\ task'[p][d] = "none"
         /\ rowSeen' \in [Procs -> [H!Deliveries -> H!Views]]
         /\ \A q \in Procs : \A c \in H!Deliveries :
                q # p \/ c # d => task'[q][c] = task[q][c] /\ rowSeen'[q][c] = rowSeen[q][c]
<1>1. task' \in [Procs -> [H!Deliveries -> H!Steps]] /\ task'[p][d] = "none"
      /\ \A q \in Procs : \A c \in H!Deliveries : q # p \/ c # d => task'[q][c] = task[q][c]
  BY GotoEffect DEF H!Drop
<1>2. rowSeen' \in [Procs -> [H!Deliveries -> H!Views]]
      /\ \A q \in Procs : \A c \in H!Deliveries : q # p \/ c # d => rowSeen'[q][c] = rowSeen[q][c]
  BY DEF H!TypeOK, H!Drop, H!Views
<1> QED
  BY <1>1, <1>2

\* A new log: no delivery, and nothing in hand.
LEMMA InitHook == H!Init => HookInv
<1> SUFFICES ASSUME H!Init PROVE HookInv
  OBVIOUS
<1>1. H!TypeOK
  BY DEF H!Init, H!TypeOK, H!NoHand, H!Subscriptions, H!Views
<1>2. NewInv /\ FanInv /\ HoldInv /\ ReceivedInv /\ BudgetInv /\ H!InFlightHasOwner /\ H!NoOrphans
  BY DEF H!Init, NewInv, FanInv, HoldInv, ReceivedInv, BudgetInv, H!InFlightHasOwner, H!NoOrphans,
         H!Holding
<1>3. ReplayInv
  BY DEF H!Init, ReplayInv, H!NoHand
<1> QED
  BY <1>1, <1>2, <1>3 DEF HookInv

-----------------------------------------------------------------------------
(* dispatchEvent().                                                         *)

\* The fan-out reads each subscription once, of an event that has no rows.
LEMMA DispatchKeeps == ASSUME HookInv, NEW e \in Events, H!Dispatch(e) PROVE HookInv'
<1> USE DEF HookInv, H!Dispatch
<1> DEFINE found == {[s |-> s, secret |-> sub[s].secret] :
                       s \in {t \in Subs : sub[t].exists /\ sub[t].enabled}}
<1>1. fan' = [fan EXCEPT ![e] = found]
  OBVIOUS
<1>2. found \subseteq [s : Subs, secret : H!Secrets]
  BY DEF H!TypeOK, H!Subscriptions
<1>3. H!TypeOK'
  BY <1>1, <1>2 DEF H!TypeOK
<1>4. FanInv'
  <2>1. \A f, g \in found : f.s = g.s => f = g
    OBVIOUS
  <2>2. \A f \in found : signed[<<e, f.s>>] = 0
    OBVIOUS
  <2> HIDE DEF found
  <2> QED
    <3>1. \A x \in Events : fan'[x] = IF x = e THEN found ELSE fan[x]
      BY <1>1 DEF H!TypeOK
    <3>2. signed' = signed
      OBVIOUS
    <3>3. ASSUME NEW x \in Events, NEW f \in fan'[x]
          PROVE  signed'[<<x, f.s>>] = 0 /\ \A g \in fan'[x] : g.s = f.s => g = f
      <4>1. CASE x = e
        BY <2>1, <2>2, <3>1, <3>2, <3>3, <4>1
      <4>2. CASE x # e
        BY <3>1, <3>2, <3>3, <4>2 DEF FanInv
      <4> QED
        BY <4>1, <4>2
    <3> QED
      BY <3>3 DEF FanInv
<1>5. NewInv' /\ HoldInv' /\ ReceivedInv' /\ ReplayInv' /\ BudgetInv' /\ H!InFlightHasOwner' /\ H!NoOrphans'
  BY DEF NewInv, HoldInv, ReceivedInv, ReplayInv, BudgetInv, H!InFlightHasOwner, H!NoOrphans,
         H!Holding, Before, After
<1> QED
  BY <1>3, <1>4, <1>5

\* The row that is created is new, and so is its first attempt.
LEMMA QueueKeeps == ASSUME HookInv, NEW e \in Events, H!Queue(e) PROVE HookInv'
<1> PICK f \in fan[e] : H!Queue(e)!(f)
  BY DEF H!Queue
<1> DEFINE d == <<e, f.s>>
<1> USE DEF HookInv
<1>1. f.s \in Subs /\ f.secret \in H!Secrets /\ d \in H!Deliveries
  BY DeliveryOf DEF H!TypeOK
<1>2. /\ fan' = [fan EXCEPT ![e] = @ \ {f}] /\ signed' = [signed EXCEPT ![d] = f.secret]
      /\ UNCHANGED <<sub, attempt, backing, task, rowSeen, hand, H!history, secrets>>
      /\ \/ sub[f.s].exists /\ state' = [state EXCEPT ![d] = "PENDING"]
         \/ state' = state
  OBVIOUS
<1>3. signed[d] = 0 /\ state[d] = "none" /\ posts[d] = 0 /\ attempt[d] = 1
      /\ \A p \in Procs : ~H!Holding(p, d)
  BY <1>1 DEF NewInv, FanInv
<1> HIDE DEF d
<1>4. /\ signed' \in [H!Deliveries -> Nat] /\ signed'[d] # 0
      /\ state' \in [H!Deliveries -> H!Queued \cup {"none", "IN_FLIGHT", "SUCCEEDED", "DEAD_LETTERED"}]
      /\ state'[d] \in {"none", "PENDING"} /\ (state'[d] # "none" => sub[f.s].exists)
      /\ \A c \in H!Deliveries : c # d => signed'[c] = signed[c] /\ state'[c] = state[c]
  BY ZenonT(60), <1>1, <1>2, <1>3 DEF H!TypeOK
<1>5. fan' \in [Events -> SUBSET [s : Subs, secret : H!Secrets]]
      /\ \A c \in Events : fan'[c] \subseteq fan[c]
  BY <1>2 DEF H!TypeOK
<1>6. H!TypeOK'
  BY <1>2, <1>4, <1>5 DEF H!TypeOK
<1>7. NewInv'
  BY <1>2, <1>3, <1>4 DEF NewInv, H!Holding
<1>8. FanInv'
  <2>1. \A g \in fan'[e] : g.s # f.s
    BY <1>2 DEF H!TypeOK, FanInv
  <2>2. \A c \in Events : \A g \in fan'[c] : g.s \in Subs /\ <<c, g.s>> # d
    BY <1>5, <2>1 DEF d, H!TypeOK
  <2>3. \A c \in Events : \A g \in fan'[c] : signed'[<<c, g.s>>] = signed[<<c, g.s>>]
    BY <1>4, <2>2, DeliveryOf
  <2> SUFFICES ASSUME NEW c \in Events, NEW g \in fan'[c]
               PROVE  /\ signed'[<<c, g.s>>] = 0
                      /\ \A h \in fan'[c] : h.s = g.s => h = g
    BY DEF FanInv
  <2>4. g \in fan[c] /\ \A h \in fan'[c] : h \in fan[c]
    BY <1>5
  <2>5. signed[<<c, g.s>>] = 0 /\ \A h \in fan[c] : h.s = g.s => h = g
    BY <2>4 DEF FanInv
  <2> QED
    BY <2>3, <2>4, <2>5
<1>9. HoldInv' /\ ReceivedInv' /\ H!InFlightHasOwner'
  <2>1. \A c \in H!Deliveries : state'[c] # state[c] => c = d
    BY <1>4
  <2>2. HoldInv'
    BY <1>2, <1>3, <2>1 DEF HoldInv, H!Holding
  <2>3. ReceivedInv'
    BY <1>2, <1>4, <2>1 DEF ReceivedInv
  <2>4. H!InFlightHasOwner'
    BY <1>2, <1>4, <2>1 DEF H!InFlightHasOwner, H!Holding
  <2> QED
    BY <2>2, <2>3, <2>4
<1>10. ReplayInv'
  <2> SUFFICES ASSUME NEW h \in Hands, hand[h].kind = "replay"
               PROVE  /\ signed'[hand[h].d] # 0
                      /\ hand[h].d \notin raced => state'[hand[h].d] \in {"DEAD_LETTERED", "none"}
    BY <1>2 DEF ReplayInv
  <2>1. hand[h].d \in H!Deliveries \ {d}
    BY <1>3, HandType DEF ReplayInv
  <2> QED
    BY <1>4, <2>1 DEF ReplayInv
<1>11. BudgetInv'
  BY <1>2, <1>3, <1>4 DEF H!TypeOK, BudgetInv, Before, After, H!Holding
<1>12. H!NoOrphans'
  <2>1. d[2] = f.s
    BY DEF d
  <2> QED
    BY <1>2, <1>4, <2>1 DEF H!NoOrphans
<1> QED
  BY <1>6, <1>7, <1>8, <1>9, <1>10, <1>11, <1>12

-----------------------------------------------------------------------------
(* WebhookDispatcher.                                                       *)

\* A batch holds nothing yet.
LEMMA PollKeeps == ASSUME HookInv, NEW p \in Procs, H!Poll(p) PROVE HookInv'
<1> USE DEF HookInv, H!Poll
<1>1. H!TypeOK'
  BY DEF H!TypeOK
<1>2. \A q \in Procs : \A d \in H!Deliveries :
        task'[q][d] = task[q][d] \/ (task'[q][d] \in {"none", "picked"} /\ task[q][d] = "none")
  <2>1. \A d \in H!Deliveries : task[p][d] = "none"
    BY DEF H!Busy
  <2>2. \A d \in H!Deliveries : task'[p][d] \in {"none", "picked"}
    BY DEF H!TypeOK
  <2>3. \A q \in Procs \ {p} : task'[q] = task[q]
    BY DEF H!TypeOK
  <2> QED
    BY <2>1, <2>2, <2>3
<1>3. \A q \in Procs : \A d \in H!Deliveries :
        /\ H!Holding(q, d)' <=> H!Holding(q, d)
        /\ task'[q][d] \in {"claimed", "read", "ok", "failed"} => task'[q][d] = task[q][d]
  BY <1>2 DEF H!Holding
<1>4. NewInv' /\ FanInv' /\ HoldInv' /\ ReceivedInv' /\ ReplayInv' /\ H!InFlightHasOwner' /\ H!NoOrphans'
  BY <1>3 DEF NewInv, FanInv, HoldInv, ReceivedInv, ReplayInv, H!InFlightHasOwner, H!NoOrphans
<1>5. BudgetInv'
  BY <1>3 DEF BudgetInv, Before, After
<1> QED
  BY <1>1, <1>4, <1>5

\* What is queued is in nobody's hands, so its claimer is alone.
LEMMA ClaimKeeps == ASSUME HookInv, NEW p \in Procs, NEW d \in H!Deliveries, H!Claim(p, d) PROVE HookInv'
<1> USE DEF HookInv, H!Claim
<1>1. CASE state[d] \in H!Queued
  <2>1. /\ task' \in [Procs -> [H!Deliveries -> H!Steps]] /\ task'[p][d] = "claimed"
        /\ \A q \in Procs : \A c \in H!Deliveries : q # p \/ c # d => task'[q][c] = task[q][c]
    BY <1>1, GotoEffect
  <2>2. /\ state' \in [H!Deliveries -> H!Queued \cup {"none", "IN_FLIGHT", "SUCCEEDED", "DEAD_LETTERED"}]
        /\ state'[d] = "IN_FLIGHT" /\ \A c \in H!Deliveries : c # d => state'[c] = state[c]
        /\ task[p][d] = "picked" /\ signed[d] # 0
        /\ UNCHANGED <<sub, fan, attempt, backing, signed, rowSeen, hand, H!history, H!bounds>>
    BY <1>1 DEF H!TypeOK, NewInv
  <2>3. d \notin raced => \A q \in Procs : ~H!Holding(q, d)
    BY <1>1 DEF HoldInv
  <2>4. H!TypeOK'
    BY <2>1, <2>2 DEF H!TypeOK
  <2>5. NewInv' /\ FanInv' /\ HoldInv' /\ ReceivedInv'
    BY <2>1, <2>2, <2>3 DEF NewInv, FanInv, HoldInv, ReceivedInv, H!Holding
  <2>6. ReplayInv'
    <3> SUFFICES ASSUME NEW h \in Hands, hand[h].kind = "replay", hand[h].d \notin raced
                 PROVE  state'[hand[h].d] \in {"DEAD_LETTERED", "none"}
      BY <2>2 DEF ReplayInv
    <3> QED
      BY <1>1, <2>2, HandType DEF ReplayInv
  <2>7. BudgetInv'
    BY <1>1, <2>1, <2>2, <2>3 DEF BudgetInv, Before, After, H!Holding
  <2>8. H!InFlightHasOwner'
    BY <2>1, <2>2 DEF H!InFlightHasOwner, H!Holding
  <2>9. H!NoOrphans'
    BY <1>1, <2>2 DEF H!NoOrphans
  <2> QED
    BY <2>4, <2>5, <2>6, <2>7, <2>8, <2>9
<1>2. CASE state[d] \notin H!Queued
  <2>1. /\ task' \in [Procs -> [H!Deliveries -> H!Steps]] /\ task'[p][d] = "none"
        /\ \A q \in Procs : \A c \in H!Deliveries : q # p \/ c # d => task'[q][c] = task[q][c]
    BY <1>2, GotoEffect
  <2>2. task[p][d] = "picked"
        /\ UNCHANGED <<sub, fan, state, attempt, backing, signed, rowSeen, hand, H!history, H!bounds>>
    BY <1>2
  <2>3. H!TypeOK'
    BY <2>1, <2>2 DEF H!TypeOK
  <2>4. NewInv' /\ FanInv' /\ HoldInv' /\ ReceivedInv' /\ ReplayInv'
    BY <2>1, <2>2 DEF NewInv, FanInv, HoldInv, ReceivedInv, ReplayInv, H!Holding
  <2>5. BudgetInv' /\ H!InFlightHasOwner' /\ H!NoOrphans'
    BY <2>1, <2>2 DEF BudgetInv, Before, After, H!InFlightHasOwner, H!NoOrphans, H!Holding
  <2> QED
    BY <2>3, <2>4, <2>5
<1> QED
  BY <1>1, <1>2

\* The row and version are read as they are; of a row that is gone nothing is posted.
LEMMA ReadRowKeeps == ASSUME HookInv, NEW p \in Procs, NEW d \in H!Deliveries, H!ReadRow(p, d) PROVE HookInv'
<1> USE DEF HookInv
<1>0. task[p][d] = "claimed" /\ UNCHANGED <<sub, fan, H!rows, hand, H!history, H!bounds>>
  BY DEF H!ReadRow
<1>1. CASE state[d] = "none"
  <2>1. /\ task' \in [Procs -> [H!Deliveries -> H!Steps]] /\ task'[p][d] = "none"
        /\ \A q \in Procs : \A c \in H!Deliveries :
                q # p \/ c # d => task'[q][c] = task[q][c] /\ rowSeen'[q][c] = rowSeen[q][c]
    BY <1>1, DropEffect DEF H!ReadRow
  <2>2. rowSeen' \in [Procs -> [H!Deliveries -> H!Views]]
    BY <1>1, DropEffect DEF H!ReadRow
  <2>3. H!TypeOK'
    BY <1>0, <2>1, <2>2 DEF H!TypeOK
  <2>4. NewInv' /\ FanInv' /\ HoldInv' /\ ReceivedInv' /\ ReplayInv'
    BY <1>0, <2>1 DEF NewInv, FanInv, HoldInv, ReceivedInv, ReplayInv, H!Holding
  <2>5. BudgetInv'
    BY <1>0, <2>1 DEF BudgetInv, Before, After
  <2>6. H!InFlightHasOwner' /\ H!NoOrphans'
    BY <1>0, <1>1, <2>1 DEF H!InFlightHasOwner, H!NoOrphans, H!Holding
  <2> QED
    BY <2>3, <2>4, <2>5, <2>6
<1>2. CASE state[d] # "none"
  <2>1. /\ task' \in [Procs -> [H!Deliveries -> H!Steps]] /\ task'[p][d] = "read"
        /\ \A q \in Procs : \A c \in H!Deliveries : q # p \/ c # d => task'[q][c] = task[q][c]
    BY <1>2, GotoEffect DEF H!ReadRow
  <2>2. rowSeen' = [rowSeen EXCEPT ![p][d] = [attempt |-> attempt[d], version |-> sub[d[2]].version]]
    BY <1>2 DEF H!ReadRow
  <2>3. attempt[d] \in Nat /\ sub[d[2]].version \in Nat
    BY DeliveryOf DEF H!TypeOK, H!Subscriptions
  <2>4. rowSeen' \in [Procs -> [H!Deliveries -> H!Views]]
    BY <2>2, <2>3 DEF H!TypeOK, H!Views
  <2>5. /\ rowSeen'[p][d].attempt = attempt[d]
        /\ \A q \in Procs : \A c \in H!Deliveries : q # p \/ c # d => rowSeen'[q][c] = rowSeen[q][c]
    BY <2>2 DEF H!TypeOK
  <2>6. H!TypeOK'
    BY <1>0, <2>1, <2>4 DEF H!TypeOK
  <2>7. NewInv' /\ FanInv' /\ HoldInv' /\ ReceivedInv' /\ ReplayInv'
    BY <1>0, <2>1 DEF NewInv, FanInv, HoldInv, ReceivedInv, ReplayInv, H!Holding
  <2>8. BudgetInv'
    BY <1>0, <2>1, <2>5 DEF BudgetInv, Before, After
  <2>9. H!InFlightHasOwner' /\ H!NoOrphans'
    BY <1>0, <2>1 DEF H!InFlightHasOwner, H!NoOrphans, H!Holding
  <2> QED
    BY <2>6, <2>7, <2>8, <2>9
<1> QED
  BY <1>1, <1>2

\* The post is counted; only a 2xx answer lets the delivery succeed.
LEMMA PostKeeps == ASSUME HookInv, NEW p \in Procs, NEW d \in H!Deliveries, H!Post(p, d) PROVE HookInv'
<1> USE DEF HookInv, H!Post
<1>0. /\ task[p][d] = "read" /\ posts' = [posts EXCEPT ![d] = @ + 1]
      /\ received \subseteq received' /\ received' \subseteq received \cup {d}
      /\ UNCHANGED <<sub, fan, H!rows, rowSeen, hand, abandoned, raced, H!bounds>>
  OBVIOUS
<1>1. /\ task' \in [Procs -> [H!Deliveries -> H!Steps]] /\ task'[p][d] \in {"ok", "failed"}
      /\ task'[p][d] = "ok" => d \in received'
      /\ \A q \in Procs : \A c \in H!Deliveries : q # p \/ c # d => task'[q][c] = task[q][c]
  <2>1. CASE H!Goto(p, d, "ok") /\ received' = received \cup {d}
    BY <2>1, GotoEffect
  <2>2. CASE H!Goto(p, d, "failed")
    BY <2>2, GotoEffect
  <2> QED
    BY <2>1, <2>2
<1>2. /\ posts' \in [H!Deliveries -> Nat] /\ posts'[d] = posts[d] + 1
      /\ \A c \in H!Deliveries : c # d => posts'[c] = posts[c]
  BY <1>0 DEF H!TypeOK
<1>3. H!TypeOK'
  BY <1>0, <1>1, <1>2 DEF H!TypeOK
<1>4. H!Holding(p, d) /\ signed[d] # 0
  BY <1>0 DEF NewInv, H!Holding
<1>5. NewInv' /\ FanInv' /\ HoldInv' /\ ReceivedInv' /\ ReplayInv'
  BY SMTT(30), <1>0, <1>1, <1>2, <1>4 DEF NewInv, FanInv, HoldInv, ReceivedInv, ReplayInv, H!Holding
<1>6. BudgetInv'
  <2>1. d \notin raced => /\ state[d] \notin H!Queued \cup {"DEAD_LETTERED"} /\ Before(d)
                          /\ rowSeen[p][d].attempt = attempt[d]
                          /\ \A q \in Procs : H!Holding(q, d) => q = p
    BY <1>0, <1>4 DEF HoldInv, BudgetInv
  <2>2. posts[d] \in Nat /\ attempt[d] \in Nat
    BY DEF H!TypeOK
  <2> QED
    BY <1>0, <1>1, <1>2, <2>1, <2>2 DEF BudgetInv, Before, After, H!Holding
<1>7. H!InFlightHasOwner' /\ H!NoOrphans'
  BY <1>0, <1>1 DEF H!InFlightHasOwner, H!NoOrphans, H!Holding
<1> QED
  BY <1>3, <1>5, <1>6, <1>7

\* The mark of the last outcome on a subscription, and nothing else of it.
LEMMA MarkedSub ==
  ASSUME H!TypeOK, NEW s \in Subs, NEW b \in BOOLEAN, sub' = [sub EXCEPT ![s].failing = b]
  PROVE  /\ sub' \in [Subs -> H!Subscriptions]
         /\ \A t \in Subs : sub'[t].exists = sub[t].exists
<1> DEFINE was == sub[s]
           now == [was EXCEPT !.failing = b]
<1>1. sub \in [Subs -> H!Subscriptions] /\ was \in H!Subscriptions
  BY DEF H!TypeOK
<1>2. sub' = [sub EXCEPT ![s] = now]
  OBVIOUS
<1>3. now \in H!Subscriptions /\ now.exists = was.exists
  <2> HIDE DEF was
  <2> QED
    BY Zenon, <1>1 DEF H!Subscriptions
<1> HIDE DEF now
<1>4. sub'[s] = now /\ \A t \in Subs \ {s} : sub'[t] = sub[t]
  BY <1>1, <1>2
<1> QED
  BY <1>1, <1>2, <1>3, <1>4

\* The end of a delivery that a process held: the row leaves IN_FLIGHT, or is gone.
LEMMA EndKeeps ==
  ASSUME HookInv, NEW p \in Procs, NEW d \in H!Deliveries, H!Drop(p, d), H!Holding(p, d),
         sub' \in [Subs -> H!Subscriptions],
         \A s \in Subs : sub'[s].exists = sub[s].exists,
         NEW to \in {"none", "SUCCEEDED", "FAILED_RETRY", "DEAD_LETTERED"},
         state' = [state EXCEPT ![d] = to], state[d] = "none" <=> to = "none",
         attempt' \in [H!Deliveries -> Nat \ {0}], backing' \in [H!Deliveries -> BOOLEAN],
         \A c \in H!Deliveries : c # d => attempt'[c] = attempt[c],
         to = "SUCCEEDED" => d \in received,
         d \notin raced => /\ to = "FAILED_RETRY" => Before(d)'
                           /\ to = "DEAD_LETTERED" => posts[d] = MaxAttempts,
         UNCHANGED <<fan, signed, hand, H!history, H!bounds>>
  PROVE  HookInv'
<1> USE DEF HookInv
<1>0. rowSeen' \in [Procs -> [H!Deliveries -> H!Views]]
  BY DropEffect
<1>1. /\ task' \in [Procs -> [H!Deliveries -> H!Steps]] /\ task'[p][d] = "none"
      /\ \A q \in Procs : \A c \in H!Deliveries :
              q # p \/ c # d => task'[q][c] = task[q][c] /\ rowSeen'[q][c] = rowSeen[q][c]
  BY DropEffect
<1>2. /\ state' \in [H!Deliveries -> H!Queued \cup {"none", "IN_FLIGHT", "SUCCEEDED", "DEAD_LETTERED"}]
      /\ state'[d] = to /\ \A c \in H!Deliveries : c # d => state'[c] = state[c]
  BY DEF H!TypeOK
<1>3. signed[d] # 0 /\ (d \notin raced => \A q \in Procs : H!Holding(q, d) => q = p)
  BY DEF NewInv, HoldInv
<1>4. d \notin raced => state[d] \in {"IN_FLIGHT", "none"}
  BY DEF HoldInv
<1>5. H!TypeOK'
  BY <1>0, <1>1, <1>2 DEF H!TypeOK
<1>6. NewInv' /\ FanInv' /\ ReceivedInv'
  <2>1. NewInv'
    BY <1>1, <1>2, <1>3 DEF NewInv, H!Holding
  <2>2. FanInv'
    BY DEF FanInv
  <2>3. ReceivedInv'
    BY <1>1, <1>2 DEF ReceivedInv
  <2> QED
    BY <2>1, <2>2, <2>3
<1>7. HoldInv'
  BY <1>1, <1>2, <1>3 DEF HoldInv, H!Holding
<1>8. ReplayInv'
  <2> SUFFICES ASSUME NEW h \in Hands, hand[h].kind = "replay", hand[h].d \notin raced
               PROVE  state'[hand[h].d] \in {"DEAD_LETTERED", "none"}
    BY DEF ReplayInv
  <2> QED
    BY <1>2, <1>4, HandType DEF ReplayInv
<1>9. BudgetInv'
  <2>1. \A c \in H!Deliveries : posts'[c] = posts[c] /\ raced' = raced
    OBVIOUS
  <2> QED
    BY SMTT(30), <1>1, <1>2, <1>3, <2>1 DEF BudgetInv, Before, After, H!Holding
<1>10. H!InFlightHasOwner'
  BY <1>1, <1>2 DEF H!InFlightHasOwner, H!Holding
<1>11. H!NoOrphans'
  BY <1>2, DeliveryOf DEF H!NoOrphans
<1> QED
  BY <1>5, <1>6, <1>7, <1>8, <1>9, <1>10, <1>11

\* 2xx: the row is closed, if it is still there.
LEMMA SucceedKeeps == ASSUME HookInv, NEW p \in Procs, NEW d \in H!Deliveries, H!Succeed(p, d) PROVE HookInv'
<1>1. /\ H!Drop(p, d) /\ H!Holding(p, d) /\ d \in received
      /\ UNCHANGED <<fan, attempt, backing, signed, hand, H!history, H!bounds>>
  BY DEF H!Succeed, H!Holding, HookInv, ReceivedInv
<1>2. attempt' \in [H!Deliveries -> Nat \ {0}] /\ backing' \in [H!Deliveries -> BOOLEAN]
  BY <1>1 DEF HookInv, H!TypeOK
<1>3. CASE state[d] = "none"
  <2>1. state' = [state EXCEPT ![d] = "none"] /\ sub' = sub
    BY <1>3 DEF H!Succeed, HookInv, H!TypeOK
  <2>2. sub' \in [Subs -> H!Subscriptions]
    BY <2>1 DEF HookInv, H!TypeOK
  <2> QED
    BY <1>1, <1>2, <1>3, <2>1, <2>2, EndKeeps
<1>4. CASE state[d] # "none"
  <2>1. state' = [state EXCEPT ![d] = "SUCCEEDED"] /\ sub' = [sub EXCEPT ![d[2]].failing = FALSE]
    BY <1>4 DEF H!Succeed
  <2>2. sub' \in [Subs -> H!Subscriptions] /\ \A s \in Subs : sub'[s].exists = sub[s].exists
    BY <2>1, DeliveryOf, MarkedSub DEF HookInv
  <2> QED
    BY <1>1, <1>2, <1>4, <2>1, <2>2, EndKeeps
<1> QED
  BY <1>3, <1>4

\* Otherwise the attempt is counted: there is another, or it was the last.
LEMMA FailKeeps == ASSUME HookInv, NEW p \in Procs, NEW d \in H!Deliveries, H!Fail(p, d) PROVE HookInv'
<1>1. /\ H!Drop(p, d) /\ H!Holding(p, d) /\ task[p][d] = "failed"
      /\ UNCHANGED <<fan, signed, hand, H!history, H!bounds>>
  BY DEF H!Fail, H!Holding
<1>2. CASE state[d] = "none"
  <2>1. state' = [state EXCEPT ![d] = "none"] /\ UNCHANGED <<sub, attempt, backing>>
    BY <1>2 DEF H!Fail, HookInv, H!TypeOK
  <2>2. /\ sub' \in [Subs -> H!Subscriptions]
        /\ attempt' \in [H!Deliveries -> Nat \ {0}] /\ backing' \in [H!Deliveries -> BOOLEAN]
    BY <2>1 DEF HookInv, H!TypeOK
  <2> QED
    BY <1>1, <1>2, <2>1, <2>2, EndKeeps
<1>3. CASE state[d] # "none"
  <2> DEFINE exceeded == rowSeen[p][d].attempt >= MaxAttempts
             to == IF exceeded THEN "DEAD_LETTERED" ELSE "FAILED_RETRY"
  <2>1. /\ state' = [state EXCEPT ![d] = to]
        /\ attempt' = [attempt EXCEPT ![d] = rowSeen[p][d].attempt + 1]
        /\ backing' = [backing EXCEPT ![d] = ~exceeded]
        /\ sub' = [sub EXCEPT ![d[2]].failing = TRUE]
    BY <1>3 DEF H!Fail
  <2>2. sub' \in [Subs -> H!Subscriptions] /\ \A s \in Subs : sub'[s].exists = sub[s].exists
    BY <2>1, DeliveryOf, MarkedSub DEF HookInv
  <2>3. rowSeen[p][d].attempt \in Nat
    BY DEF HookInv, H!TypeOK, H!Views
  <2>4. /\ attempt' \in [H!Deliveries -> Nat \ {0}] /\ attempt'[d] = rowSeen[p][d].attempt + 1
        /\ \A c \in H!Deliveries : c # d => attempt'[c] = attempt[c]
    BY <2>1, <2>3 DEF HookInv, H!TypeOK
  <2>5. backing' \in [H!Deliveries -> BOOLEAN]
    BY <2>1, Zenon DEF HookInv, H!TypeOK
  <2>6. d \notin raced => After(d) /\ rowSeen[p][d].attempt = attempt[d]
    BY <1>1 DEF HookInv, BudgetInv
  <2>7. d \notin raced => /\ to = "FAILED_RETRY" => Before(d)'
                          /\ to = "DEAD_LETTERED" => posts[d] = MaxAttempts
    BY <1>1, <2>3, <2>4, <2>6 DEF After, Before
  <2> QED
    <3>1. to \in {"FAILED_RETRY", "DEAD_LETTERED"}
      OBVIOUS
    <3> HIDE DEF to, exceeded
    <3>2. /\ to \in {"none", "SUCCEEDED", "FAILED_RETRY", "DEAD_LETTERED"}
          /\ (state[d] = "none") <=> (to = "none")
          /\ to = "SUCCEEDED" => d \in received
      BY <1>3, <3>1
    <3>3. \A c \in H!Deliveries : c # d => attempt'[c] = attempt[c]
      BY <2>4
    <3>4. state' = [state EXCEPT ![d] = to]
      BY <2>1
    <3>5. attempt' \in [H!Deliveries -> Nat \ {0}]
      BY <2>4
    <3>6. UNCHANGED <<fan, signed, hand, H!history, H!bounds>> /\ H!Drop(p, d) /\ H!Holding(p, d)
      BY <1>1
    <3> QED
      BY Zenon, <2>2, <2>5, <2>7, <3>2, <3>3, <3>4, <3>5, <3>6, EndKeeps
<1> QED
  BY <1>2, <1>3

\* A process that throws or dies leaves what it held to nobody.
LEMMA AbandonKeeps ==
  ASSUME HookInv, NEW p \in Procs,
         task' \in [Procs -> [H!Deliveries -> H!Steps]], rowSeen' \in [Procs -> [H!Deliveries -> H!Views]],
         \A q \in Procs : \A c \in H!Deliveries :
             \/ task'[q][c] = task[q][c] /\ rowSeen'[q][c] = rowSeen[q][c]
             \/ task'[q][c] = "none" /\ (H!Holding(q, c) => c \in abandoned'),
         abandoned \subseteq abandoned', abandoned' \subseteq H!Deliveries,
         fan' \in [Events -> SUBSET [s : Subs, secret : H!Secrets]],
         \A e \in Events : fan'[e] \subseteq fan[e],
         UNCHANGED <<sub, H!rows, hand, posts, received, raced, secrets>>
  PROVE  HookInv'
<1> USE DEF HookInv
<1>1. H!TypeOK'
  BY DEF H!TypeOK
<1>2. \A q \in Procs : \A c \in H!Deliveries : H!Holding(q, c)' => H!Holding(q, c)
  BY DEF H!Holding
<1>3. NewInv' /\ FanInv' /\ HoldInv' /\ ReplayInv' /\ H!NoOrphans'
  BY <1>2 DEF NewInv, FanInv, HoldInv, ReplayInv, H!NoOrphans
<1>4. ReceivedInv' /\ BudgetInv'
  <2>1. \A q \in Procs : \A c \in H!Deliveries :
          task'[q][c] # "none" => task'[q][c] = task[q][c] /\ rowSeen'[q][c] = rowSeen[q][c]
    OBVIOUS
  <2>2. ReceivedInv'
    BY <2>1 DEF ReceivedInv
  <2>3. BudgetInv'
    BY <2>1 DEF BudgetInv, Before, After
  <2> QED
    BY <2>2, <2>3
<1>5. H!InFlightHasOwner'
  <2>1. \A q \in Procs : \A c \in H!Deliveries \ abandoned' : H!Holding(q, c) => H!Holding(q, c)'
    BY DEF H!Holding
  <2> QED
    BY <2>1 DEF H!InFlightHasOwner
<1> QED
  BY <1>1, <1>3, <1>4, <1>5

LEMMA ThrowKeeps == ASSUME HookInv, NEW p \in Procs, NEW d \in H!Deliveries, H!Throw(p, d) PROVE HookInv'
<1>1. /\ H!Drop(p, d) /\ abandoned' = abandoned \cup {d}
      /\ UNCHANGED <<sub, fan, H!rows, hand, posts, received, raced, secrets>>
  BY DEF H!Throw
<1>2. /\ task' \in [Procs -> [H!Deliveries -> H!Steps]] /\ task'[p][d] = "none"
      /\ rowSeen' \in [Procs -> [H!Deliveries -> H!Views]]
      /\ \A q \in Procs : \A c \in H!Deliveries :
              q # p \/ c # d => task'[q][c] = task[q][c] /\ rowSeen'[q][c] = rowSeen[q][c]
  BY <1>1, DropEffect DEF HookInv
<1>3. abandoned' \subseteq H!Deliveries /\ fan' \in [Events -> SUBSET [s : Subs, secret : H!Secrets]]
  BY <1>1 DEF HookInv, H!TypeOK
<1> QED
  BY <1>1, <1>2, <1>3, AbandonKeeps

LEMMA CrashKeeps == ASSUME HookInv, NEW p \in Procs, H!Crash(p) PROVE HookInv'
<1>1. UNCHANGED <<sub, H!rows, hand, posts, received, raced, secrets>>
  BY DEF H!Crash
<1>2. /\ task' \in [Procs -> [H!Deliveries -> H!Steps]]
      /\ \A c \in H!Deliveries : task'[p][c] = "none"
      /\ \A q \in Procs \ {p} : task'[q] = task[q]
  BY DEF H!Crash, HookInv, H!TypeOK
<1>3. /\ rowSeen' \in [Procs -> [H!Deliveries -> H!Views]]
      /\ \A q \in Procs \ {p} : rowSeen'[q] = rowSeen[q]
  BY DEF H!Crash, HookInv, H!TypeOK, H!Views
<1>4. /\ abandoned \subseteq abandoned' /\ abandoned' \subseteq H!Deliveries
      /\ \A c \in H!Deliveries : H!Holding(p, c) => c \in abandoned'
  BY DEF H!Crash, HookInv, H!TypeOK
<1>5. /\ fan' \in [Events -> SUBSET [s : Subs, secret : H!Secrets]]
      /\ \A e \in Events : fan'[e] \subseteq fan[e]
  BY DEF H!Crash
<1> QED
  BY <1>1, <1>2, <1>3, <1>4, <1>5, AbandonKeeps

\* The end of a backoff.
LEMMA ElapseKeeps == ASSUME HookInv, NEW d \in H!Deliveries, H!Elapse(d) PROVE HookInv'
<1>1. H!TypeOK'
  BY DEF HookInv, H!Elapse, H!TypeOK
<1> QED
  BY <1>1 DEF HookInv, H!Elapse, NewInv, FanInv, HoldInv, ReceivedInv, ReplayInv, BudgetInv,
              H!InFlightHasOwner, H!NoOrphans, H!Holding, Before, After

-----------------------------------------------------------------------------
(* The portal's routes.                                                     *)

\* A request that is no replay, and a subscription that still exists, are of no concern.
LEMMA PortalKeeps ==
  ASSUME HookInv, H!TypeOK',
         \A h \in Hands : hand'[h] = hand[h] \/ hand'[h].kind # "replay",
         \A s \in Subs : sub'[s].exists = sub[s].exists,
         UNCHANGED <<fan, H!rows, task, rowSeen, H!history>>
  PROVE  HookInv'
<1> USE DEF HookInv
<1>1. NewInv' /\ FanInv' /\ HoldInv' /\ ReceivedInv' /\ H!InFlightHasOwner'
  BY DEF NewInv, FanInv, HoldInv, ReceivedInv, H!InFlightHasOwner, H!Holding
<1>2. ReplayInv'
  BY DEF ReplayInv
<1>3. BudgetInv'
  BY DEF BudgetInv, Before, After
<1>4. H!NoOrphans'
  BY DeliveryOf DEF H!NoOrphans
<1> QED
  BY <1>1, <1>2, <1>3, <1>4

LEMMA RotateReadsKeeps ==
  ASSUME HookInv, NEW h \in Hands, NEW s \in Subs, H!RotateReads(h, s) PROVE HookInv'
<1> DEFINE turn == [kind |-> "rotate", s |-> s, version |-> sub[s].version]
<1>1. hand' = [hand EXCEPT ![h] = turn] /\ UNCHANGED <<sub, fan, H!rows, task, rowSeen, H!history, H!bounds>>
  BY DEF H!RotateReads
<1>2. turn \in H!Turns
  BY DEF HookInv, H!TypeOK, H!Subscriptions, H!Turns
<1>3. turn.kind # "replay"
  OBVIOUS
<1> HIDE DEF turn
<1>4. hand' \in [Hands -> {H!NoHand} \cup H!Replays \cup H!Turns]
      /\ \A g \in Hands : hand'[g] = hand[g] \/ hand'[g] = turn
  BY <1>1, <1>2 DEF HookInv, H!TypeOK
<1>5. H!TypeOK'
  BY <1>1, <1>4 DEF HookInv, H!TypeOK
<1> QED
  BY <1>1, <1>3, <1>4, <1>5, PortalKeeps

LEMMA RotateWritesKeeps == ASSUME HookInv, NEW h \in Hands, H!RotateWrites(h) PROVE HookInv'
<1> DEFINE s == hand[h].s
<1>1. hand' = [hand EXCEPT ![h] = H!NoHand] /\ UNCHANGED <<fan, H!rows, task, rowSeen, H!history>>
  BY DEF H!RotateWrites
<1>2. s \in Subs /\ hand[h].version \in Nat
  BY DEF H!RotateWrites, HookInv, H!TypeOK, H!NoHand, H!Replays, H!Turns
<1>3. hand' \in [Hands -> {H!NoHand} \cup H!Replays \cup H!Turns]
      /\ \A g \in Hands : hand'[g] = hand[g] \/ hand'[g] = H!NoHand
  BY <1>1 DEF HookInv, H!TypeOK
<1>4. /\ sub' \in [Subs -> H!Subscriptions] /\ secrets' \in [Subs -> H!Secrets]
      /\ \A t \in Subs : sub'[t].exists = sub[t].exists
  <2>1. CASE sub[s].exists
    <3>1. /\ secrets' = [secrets EXCEPT ![s] = @ + 1]
          /\ sub' = [sub EXCEPT ![s].version = hand[h].version + 1, ![s].secret = secrets[s] + 1]
      BY <2>1 DEF H!RotateWrites
    <3>2. hand[h].version + 1 \in Nat /\ secrets[s] + 1 \in H!Secrets
      BY <1>2 DEF HookInv, H!TypeOK
    <3>3. secrets' \in [Subs -> H!Secrets]
      BY <3>1, <3>2 DEF HookInv, H!TypeOK
    <3> HIDE DEF s
    <3> DEFINE turned == [sub[s] EXCEPT !.version = hand[h].version + 1, !.secret = secrets[s] + 1]
    <3>4. turned \in H!Subscriptions /\ turned.exists = sub[s].exists
      BY ZenonT(60), <1>2, <3>2 DEF HookInv, H!TypeOK, H!Subscriptions
    <3>5. sub' = [sub EXCEPT ![s] = turned]
      BY <3>1
    <3> HIDE DEF turned
    <3>6. sub' \in [Subs -> H!Subscriptions] /\ \A t \in Subs : sub'[t].exists = sub[t].exists
      BY <1>2, <3>4, <3>5 DEF HookInv, H!TypeOK
    <3> QED
      BY <3>3, <3>6
  <2>2. CASE ~sub[s].exists
    BY <2>2 DEF H!RotateWrites, HookInv, H!TypeOK
  <2> QED
    BY <2>1, <2>2
<1>5. H!TypeOK'
  BY <1>1, <1>3, <1>4 DEF HookInv, H!TypeOK
<1>6. H!NoHand.kind # "replay"
  BY DEF H!NoHand
<1> QED
  BY <1>1, <1>3, <1>4, <1>5, <1>6, PortalKeeps

LEMMA PatchKeeps == ASSUME HookInv, NEW s \in Subs, H!Patch(s) PROVE HookInv'
<1>1. sub' \in [Subs -> H!Subscriptions] /\ \A t \in Subs : sub'[t].exists = sub[t].exists
  BY ZenonT(60) DEF H!Patch, HookInv, H!TypeOK, H!Subscriptions
<1>2. UNCHANGED <<fan, H!rows, task, rowSeen, hand, H!history, H!bounds>>
  BY DEF H!Patch
<1>3. H!TypeOK'
  BY <1>1, <1>2 DEF HookInv, H!TypeOK
<1> QED
  BY <1>1, <1>2, <1>3, PortalKeeps

\* A replay begins with a dead-lettered row ...
LEMMA ReplayReadsKeeps ==
  ASSUME HookInv, NEW h \in Hands, NEW d \in H!Deliveries, H!ReplayReads(h, d) PROVE HookInv'
<1> DEFINE replay == [kind |-> "replay", d |-> d]
<1>1. /\ hand' = [hand EXCEPT ![h] = replay] /\ state[d] = "DEAD_LETTERED"
      /\ UNCHANGED <<sub, fan, H!rows, task, rowSeen, H!history, secrets>>
  BY DEF H!ReplayReads
<1>2. replay \in H!Replays /\ replay.d = d
  BY DEF H!Replays
<1> HIDE DEF replay
<1>3. hand' \in [Hands -> {H!NoHand} \cup H!Replays \cup H!Turns]
      /\ \A g \in Hands : hand'[g] = hand[g] \/ hand'[g] = replay
  BY <1>1, <1>2 DEF HookInv, H!TypeOK
<1>4. H!TypeOK'
  BY <1>1, <1>3 DEF HookInv, H!TypeOK
<1>5. ReplayInv'
  BY <1>1, <1>2, <1>3 DEF HookInv, NewInv, ReplayInv
<1>6. NewInv' /\ FanInv' /\ HoldInv' /\ ReceivedInv' /\ H!InFlightHasOwner' /\ H!NoOrphans'
  BY <1>1 DEF HookInv, NewInv, FanInv, HoldInv, ReceivedInv, H!InFlightHasOwner, H!NoOrphans, H!Holding
<1>7. BudgetInv'
  BY <1>1 DEF HookInv, BudgetInv, Before, After
<1> QED
  BY <1>4, <1>5, <1>6, <1>7 DEF HookInv

\* ... that nobody holds, so that its attempts start again from one.
LEMMA ReplayWritesKeeps == ASSUME HookInv, NEW h \in Hands, H!ReplayWrites(h) PROVE HookInv'
<1> DEFINE d == hand[h].d
<1>1. /\ hand[h].kind = "replay" /\ hand' = [hand EXCEPT ![h] = H!NoHand]
      /\ UNCHANGED <<sub, fan, signed, task, rowSeen, received, abandoned, H!bounds>>
  BY DEF H!ReplayWrites
<1>2. d \in H!Deliveries /\ hand[h] = [kind |-> "replay", d |-> d]
  BY <1>1, HandType DEF HookInv
<1>3. /\ hand' \in [Hands -> {H!NoHand} \cup H!Replays \cup H!Turns]
      /\ \A g \in Hands \ {h} : hand'[g] = hand[g]
      /\ hand'[h].kind # "replay"
  BY <1>1 DEF HookInv, H!TypeOK, H!NoHand
<1>4. CASE state[d] = "none"
  <2>1. UNCHANGED <<H!rows, posts, raced>>
    BY <1>4 DEF H!ReplayWrites
  <2>2. H!TypeOK'
    BY <1>1, <1>3, <2>1 DEF HookInv, H!TypeOK
  <2>3. \A g \in Hands : hand'[g] = hand[g] \/ hand'[g].kind # "replay"
    BY <1>3
  <2>4. UNCHANGED <<sub, fan, H!rows, task, rowSeen, H!history>>
    BY <1>1, <2>1
  <2>5. \A s \in Subs : sub'[s].exists = sub[s].exists
    BY <2>4
  <2> QED
    BY <2>2, <2>3, <2>4, <2>5, PortalKeeps
<1>5. CASE state[d] # "none"
  <2>1. /\ state' = [state EXCEPT ![d] = "FAILED_RETRY"] /\ attempt' = [attempt EXCEPT ![d] = 1]
        /\ backing' = [backing EXCEPT ![d] = FALSE] /\ posts' = [posts EXCEPT ![d] = 0]
        /\ raced' = IF \E g \in Hands \ {h} : hand[g] = hand[h] THEN raced \cup {d} ELSE raced
    BY <1>5 DEF H!ReplayWrites
  <2>2. raced \subseteq raced' /\ raced' \subseteq raced \cup {d}
    BY <2>1
  <2> HIDE DEF d
  <2>3. /\ state' \in [H!Deliveries -> H!Queued \cup {"none", "IN_FLIGHT", "SUCCEEDED", "DEAD_LETTERED"}]
        /\ state'[d] = "FAILED_RETRY" /\ attempt'[d] = 1 /\ posts'[d] = 0
        /\ attempt' \in [H!Deliveries -> Nat \ {0}] /\ posts' \in [H!Deliveries -> Nat]
        /\ \A c \in H!Deliveries :
              c # d => state'[c] = state[c] /\ attempt'[c] = attempt[c] /\ posts'[c] = posts[c]
    BY <1>2, <2>1 DEF HookInv, H!TypeOK
  <2>4. H!TypeOK'
    BY <1>1, <1>2, <1>3, <2>1, <2>2, <2>3 DEF HookInv, H!TypeOK
  <2>5. signed[d] # 0 /\ (d \notin raced => state[d] = "DEAD_LETTERED")
    BY <1>1, <1>5 DEF d, HookInv, ReplayInv
  <2>6. d \notin raced' => \A q \in Procs : ~H!Holding(q, d)
    BY <1>2, <2>2, <2>5 DEF HookInv, HoldInv
  <2>7. \A g \in Hands \ {h} : hand[g].kind = "replay" /\ hand[g].d = d => d \in raced'
    <3> SUFFICES ASSUME NEW g \in Hands \ {h}, hand[g].kind = "replay", hand[g].d = d
                 PROVE  d \in raced'
      OBVIOUS
    <3>1. hand[g] = hand[h]
      BY <1>2, HandType DEF HookInv
    <3> QED
      BY <2>1, <3>1
  <2>8. NewInv' /\ FanInv'
    BY <1>1, <1>2, <2>3, <2>5 DEF HookInv, NewInv, FanInv, H!Holding
  <2>9. HoldInv' /\ H!InFlightHasOwner'
    BY <1>1, <1>2, <2>2, <2>3, <2>6 DEF HookInv, HoldInv, H!InFlightHasOwner, H!Holding
  <2>10. ReceivedInv'
    BY <1>1, <2>3 DEF HookInv, ReceivedInv
  <2>11. ReplayInv'
    <3> SUFFICES ASSUME NEW g \in Hands, hand'[g].kind = "replay"
                 PROVE  /\ signed'[hand'[g].d] # 0
                        /\ hand'[g].d \notin raced' => state'[hand'[g].d] \in {"DEAD_LETTERED", "none"}
      BY DEF ReplayInv
    <3>1. g # h /\ hand'[g] = hand[g] /\ hand[g].d \in H!Deliveries
      <4>1. g # h
        BY <1>3
      <4>2. hand'[g] = hand[g]
        BY <1>3, <4>1
      <4> QED
        BY <4>1, <4>2, HandType DEF HookInv
    <3> QED
      BY <1>1, <2>2, <2>3, <2>7, <3>1 DEF HookInv, ReplayInv
  <2>12. BudgetInv'
    BY <1>1, <1>2, <2>2, <2>3, <2>6 DEF HookInv, BudgetInv, Before, After, H!Holding
  <2>13. H!NoOrphans'
    BY <1>1, <1>5, <2>3 DEF d, HookInv, H!NoOrphans
  <2> QED
    BY <2>4, <2>8, <2>9, <2>10, <2>11, <2>12, <2>13 DEF HookInv
<1> QED
  BY <1>4, <1>5

\* A subscription takes its rows along; who holds one finds it gone.
LEMMA DeleteKeeps == ASSUME HookInv, NEW s \in Subs, H!Delete(s) PROVE HookInv'
<1> USE DEF HookInv
<1>1. UNCHANGED <<fan, attempt, signed, task, rowSeen, hand, H!history, H!bounds>>
  BY DEF H!Delete
<1>2. /\ sub' \in [Subs -> H!Subscriptions]
      /\ \A t \in Subs \ {s} : sub'[t].exists = sub[t].exists
  BY ZenonT(60) DEF H!Delete, H!TypeOK, H!Subscriptions
<1>3. /\ state' \in [H!Deliveries -> H!Queued \cup {"none", "IN_FLIGHT", "SUCCEEDED", "DEAD_LETTERED"}]
      /\ \A d \in H!Deliveries : state'[d] = IF d[2] = s THEN "none" ELSE state[d]
  BY DEF H!Delete, H!TypeOK
<1>4. backing' \in [H!Deliveries -> BOOLEAN]
  BY Zenon DEF H!Delete
<1>5. H!TypeOK'
  BY <1>1, <1>2, <1>3, <1>4 DEF H!TypeOK
<1>6. NewInv' /\ FanInv' /\ HoldInv' /\ ReceivedInv' /\ H!InFlightHasOwner'
  BY <1>1, <1>3 DEF NewInv, FanInv, HoldInv, ReceivedInv, H!InFlightHasOwner, H!Holding
<1>7. ReplayInv'
  <2> SUFFICES ASSUME NEW h \in Hands, hand[h].kind = "replay", hand[h].d \notin raced
               PROVE  state'[hand[h].d] \in {"DEAD_LETTERED", "none"}
    BY <1>1 DEF ReplayInv
  <2> QED
    BY <1>3, HandType DEF ReplayInv
<1>8. BudgetInv'
  BY <1>1, <1>3 DEF BudgetInv, Before, After
<1>9. H!NoOrphans'
  BY <1>2, <1>3, DeliveryOf DEF H!NoOrphans
<1> QED
  BY <1>5, <1>6, <1>7, <1>8, <1>9

-----------------------------------------------------------------------------
\* Every step preserves the invariant.
LEMMA HookNext == ASSUME HookInv, [H!Next]_(H!vars) PROVE HookInv'
<1>1. CASE H!Next
  BY <1>1, DispatchKeeps, QueueKeeps, PollKeeps, ClaimKeeps, ReadRowKeeps, PostKeeps, SucceedKeeps, FailKeeps,
     ThrowKeeps, CrashKeeps, ElapseKeeps, ReplayReadsKeeps, ReplayWritesKeeps, RotateReadsKeeps,
     RotateWritesKeeps, PatchKeeps, DeleteKeeps DEF H!Next, H!Run
<1>2. CASE UNCHANGED H!vars
  <2>1. H!TypeOK'
    BY <1>2 DEF H!vars, HookInv, H!TypeOK
  <2> QED
    BY <1>2, <2>1, PortalKeeps DEF H!vars
<1> QED
  BY <1>1, <1>2

-----------------------------------------------------------------------------
(* The components side by side: a step of the composition is one of theirs, *)
(* or leaves them alone.                                                    *)

\* The retry queue cannot tell that it has company ...
LEMMA JobsBehave == DeliverySpec => Spec
<1>1. DeliveryInit => Init
  BY DEF DeliveryInit
<1>2. [DeliveryNext]_deliveryVars => [Next]_vars
  BY DEF DeliveryNext, deliveryVars, JobsOnly, WalletOnly, HooksOnly
<1> QED
  BY <1>1, <1>2, PTL DEF DeliverySpec, Spec

\* ... and neither can the dispatcher.
LEMMA HooksBehave == DeliverySpec => H!Init /\ [][H!Next]_(H!vars)
<1>1. DeliveryInit => H!Init
  BY DEF DeliveryInit
<1>2. [DeliveryNext]_deliveryVars => [H!Next]_(H!vars)
  <2>1. CASE UNCHANGED hookVars
    BY <2>1 DEF hookVars, H!vars, H!rows, H!history, H!bounds
  <2>2. CASE HooksOnly /\ H!Next
    BY <2>2
  <2> QED
    BY <2>1, <2>2 DEF DeliveryNext, deliveryVars, JobsOnly, WalletOnly
<1> QED
  BY <1>1, <1>2, PTL DEF DeliverySpec

LEMMA HooksInv == DeliverySpec => []HookInv
<1>1. HookInv /\ [H!Next]_(H!vars) => HookInv'
  BY HookNext
<1> QED
  BY <1>1, InitHook, HooksBehave, PTL

\* The invariant has the properties that the runs check.
LEMMA Owned == ASSUME HookInv PROVE H!DeliveriesAreOwned
<1>1. H!OneDeliverer
  <2> SUFFICES ASSUME NEW d \in H!Deliveries \ raced
               PROVE  H!Cardinality({p \in Procs : H!Holding(p, d)}) <= 1
    BY DEF H!OneDeliverer
  <2>1. CASE \A p \in Procs : ~H!Holding(p, d)
    <3>1. {p \in Procs : H!Holding(p, d)} = {}
      BY <2>1
    <3> QED
      BY <3>1, FS_EmptySet, SameCardinality
  <2>2. CASE \E p \in Procs : H!Holding(p, d)
    <3>1. PICK p \in Procs : H!Holding(p, d)
      BY <2>2
    <3>2. {q \in Procs : H!Holding(q, d)} = {p}
      BY <3>1 DEF HookInv, HoldInv
    <3> QED
      BY <3>2, FS_Singleton, SameCardinality
  <2> QED
    BY <2>1, <2>2
<1>2. H!SucceededWasReceived /\ H!BudgetKept
  BY DEF HookInv, ReceivedInv, BudgetInv, H!SucceededWasReceived, H!BudgetKept
<1> QED
  BY <1>1, <1>2 DEF HookInv, H!DeliveriesAreOwned

\* WebhookDispatcher: whatever dies, throws, is replayed, rotated or deleted, a delivery
\* has one process that posts it and its budget of attempts, and what the log calls
\* SUCCEEDED was received.
THEOREM DispatcherOwnsDeliveries == DeliverySpec => []DeliveriesAreOwned
<1>1. HookInv => DeliveriesAreOwned
  BY Owned DEF DeliveriesAreOwned
<1> QED
  BY <1>1, HooksInv, PTL

\* replay() and the dispatcher: a delivery that succeeded is not sent again.
THEOREM DeliveredOnceHolds == DeliverySpec => H!DeliveredOnce
<1>1. ASSUME HookInv, [H!Next]_(H!vars), NEW d \in H!Deliveries \ raced', state[d] = "SUCCEEDED"
      PROVE  state'[d] \in {"SUCCEEDED", "none"}
  <2>1. d \notin raced /\ \A p \in Procs : ~H!Holding(p, d)
    <3>1. raced \subseteq raced'
      BY ZenonT(60), <1>1 DEF H!Next, H!Run, H!vars, H!Dispatch, H!Queue, H!Poll, H!Claim, H!ReadRow, H!Post, H!Succeed, H!Fail,
           H!Throw, H!Crash, H!Elapse, H!ReplayReads, H!ReplayWrites, H!RotateReads, H!RotateWrites, H!Patch, H!Delete
    <3> QED
      BY <1>1, <3>1 DEF HookInv, HoldInv
  <2>2. CASE state' = state
    BY <1>1, <2>2
  <2>3. ASSUME NEW e \in Events, H!Queue(e) PROVE state'[d] \in {"SUCCEEDED", "none"}
    BY <1>1, <2>3, DeliveryOf DEF H!Queue, HookInv, H!TypeOK, FanInv, NewInv
  <2>4. ASSUME NEW p \in Procs, NEW c \in H!Deliveries, H!Claim(p, c) \/ H!Succeed(p, c) \/ H!Fail(p, c)
        PROVE  state'[d] \in {"SUCCEEDED", "none"}
    BY <1>1, <2>1, <2>4 DEF H!Claim, H!Succeed, H!Fail, HookInv, H!TypeOK, H!Holding
  <2>5. ASSUME NEW h \in Hands, H!ReplayWrites(h) PROVE state'[d] \in {"SUCCEEDED", "none"}
    BY <1>1, <2>1, <2>5, HandType DEF H!ReplayWrites, HookInv, H!TypeOK, ReplayInv
  <2>6. ASSUME NEW s \in Subs, H!Delete(s) PROVE state'[d] \in {"SUCCEEDED", "none"}
    BY <1>1, <2>6 DEF H!Delete
  <2> QED
    BY <1>1, <2>2, <2>3, <2>4, <2>5, <2>6 DEF H!Next, H!Run, H!vars, H!Dispatch, H!Poll, H!ReadRow, H!Post,
       H!Throw, H!Crash, H!Elapse, H!ReplayReads, H!RotateReads, H!RotateWrites, H!Patch
<1>2. HookInv /\ [H!Next]_(H!vars) =>
        [\A d \in H!Deliveries \ raced' :
            state[d] = "SUCCEEDED" => state'[d] \in {"SUCCEEDED", "none"}]_(H!vars)
  BY <1>1
<1> QED
  BY <1>2, HooksInv, HooksBehave, PTL DEF H!DeliveredOnce

\* Neither component takes back what another process has done since it read: attempts
\* of a job only rise, and an event that was delivered is not sent again.
THEOREM NothingTwiceHolds ==
  ASSUME ~Slow
  PROVE  DeliverySpec => NothingTwice
<1>1. Spec => AttemptsRise
  BY AttemptsRiseHolds
<1> QED
  BY <1>1, DeliveredOnceHolds, JobsBehave, PTL DEF NothingTwice

-----------------------------------------------------------------------------
(* The two wallets.  A rollback the store has seen names a transaction that *)
(* is reversed, and an answer it remembers is that of a request it would    *)
(* answer the same way again; so the adapter, which remembers no request,   *)
(* does what the store does, until one of them forgives or reopens.         *)

Reversed(t) == opLedger[t] # None /\ opLedger[t].rolledBack

StoreInv ==
    /\ \A t \in Txs : opLedger[t] # None =>
          \E r \in Requests : r.tx = t /\ r.kind # "rollback" /\ r.player = opLedger[t].player
    /\ \A r \in Requests :
          /\ r.kind = "rollback" /\ r.tx \in rollbackTxs => r.ref # None /\ Reversed(r.ref)
          /\ r.kind = "rollback" /\ r.id \in processed => r.tx \in rollbackTxs
          /\ r.kind # "rollback" /\ r.id \in processed => opLedger[r.tx] # None

\* What the adapter has on record of a request's transaction.
OnRecord(r) ==
    IF r.kind = "rollback" THEN committed[r.tx] # None => r.tx \in rollbackTxs
    ELSE /\ committed[r.tx] = IF opLedger[r.tx] = None \/ Reversed(r.tx) THEN None
                              ELSE O!Signed(opLedger[r.tx].kind, opLedger[r.tx].amount)
         /\ Reversed(r.tx) => \E q \in Requests :
                q.kind = "rollback" /\ q.ref = r.tx /\ committed[q.tx] # None

AgreeInv ==
    /\ \A t \in Txs : committed[t] # None => \E r \in Requests : r.tx = t
    /\ \A r \in Requests : reopened = {} /\ shortfall[r.player] = 0 => OnRecord(r)

WalletInv ==
    O!TypeOK /\ O!BalanceIsLedger /\ O!NeverNegative /\ O!WalletsAgree /\ StoreInv /\ AgreeInv

\* The fields of a request.
LEMMA RequestType ==
  ASSUME NEW r \in Requests
  PROVE  /\ r.tx \in Txs /\ r.player \in Players /\ r.amount \in Nat
         /\ r.id \in {q.id : q \in Requests} /\ (r.ref # None => r.ref \in Txs)
         /\ O!Signed(r.kind, r.amount) \in Int
  BY RequestAssumption DEF Txs, O!Signed

\* There are finitely many transactions.
LEMMA FiniteTxs == IsFiniteSet(Txs)
<1> DEFINE A == {r.tx : r \in Requests}
           B == {r.ref : r \in Requests}
           a == [r \in Requests |-> r.tx]
           b == [r \in Requests |-> r.ref]
<1>1. IsFiniteSet(A)
  <2>1. a \in Surjection(Requests, A)
    BY DEF Surjection
  <2> HIDE DEF a, A
  <2> QED
    BY <2>1, RequestAssumption, FS_Surjection
<1>2. IsFiniteSet(B)
  <2>1. b \in Surjection(Requests, B)
    BY DEF Surjection
  <2> HIDE DEF b, B
  <2> QED
    BY <2>1, RequestAssumption, FS_Surjection
<1>3. IsFiniteSet(B \ {None})
  BY <1>2, FS_RemoveElement
<1>4. Txs = A \cup (B \ {None})
  BY DEF Txs
<1> HIDE DEF A, B
<1> QED
  BY <1>1, <1>3, <1>4, FS_Union

\* The wallets add up with the operators of the library.
LEMMA SameAddition == ASSUME NEW f PROVE O!SumFunction(f) = SumFunctionOnSet(f, DOMAIN f)
  BY DEF O!SumFunction, O!SumFunctionOnSet, O!FoldFunctionOnSet, O!MapThenFoldSet,
         SumFunctionOnSet, FoldFunctionOnSet, MapThenFoldSet

\* What the transactions that are open move.
Moved(p) == SumFunctionOnSet([t \in O!Open(p) |-> O!Signed(opLedger[t].kind, opLedger[t].amount)],
                             O!Open(p))

LEMMA BalanceIs ==
  O!BalanceIsLedger <=> \A p \in Players : balance[p] = Seed + shortfall[p] + Moved(p)
<1>1. ASSUME NEW p \in Players
      PROVE  O!SumFunction([t \in O!Open(p) |-> O!Signed(opLedger[t].kind, opLedger[t].amount)]) = Moved(p)
  <2> DEFINE f == [t \in O!Open(p) |-> O!Signed(opLedger[t].kind, opLedger[t].amount)]
  <2>1. DOMAIN f = O!Open(p)
    OBVIOUS
  <2>2. O!SumFunction(f) = SumFunctionOnSet(f, DOMAIN f)
    BY SameAddition
  <2> QED
    BY <2>1, <2>2 DEF Moved
<1> QED
  BY <1>1 DEF O!BalanceIsLedger

\* New wallets.
LEMMA InitWallet == O!Init => WalletInv
<1> SUFFICES ASSUME O!Init PROVE WalletInv
  OBVIOUS
<1> USE DEF O!Init
<1>1. O!TypeOK
  BY RequestAssumption DEF O!TypeOK
<1>2. ASSUME NEW p \in Players PROVE Moved(p) = 0
  <2>1. O!Open(p) = {}
    BY DEF O!Open
  <2> QED
    BY <2>1, EmptySum DEF Moved
<1>3. O!BalanceIsLedger
  BY <1>2, BalanceIs, RequestAssumption
<1>4. O!NeverNegative /\ O!WalletsAgree
  BY RequestAssumption DEF O!NeverNegative, O!WalletsAgree
<1>5. StoreInv
  BY RequestType DEF StoreInv
<1>6. AgreeInv
  BY RequestType DEF AgreeInv, OnRecord, Reversed
<1> QED
  BY <1>1, <1>3, <1>4, <1>5, <1>6 DEF WalletInv

-----------------------------------------------------------------------------
(* WalletStore, whatever the adapter does.                                  *)

StoreType ==
    /\ balance \in [Players -> Int] /\ opLedger \in [Txs -> O!Entry \cup {None}]
    /\ rollbackTxs \subseteq Txs /\ processed \subseteq {r.id : r \in Requests}
    /\ shortfall \in [Players -> Nat]

StoreOK ==
    /\ StoreType /\ StoreInv
    /\ \A p \in Players : balance[p] >= 0 /\ balance[p] = Seed + shortfall[p] + Moved(p)

\* What an open transaction moves is a number, and there are finitely many of them.
LEMMA OpenType ==
  ASSUME StoreType, NEW p
  PROVE  /\ IsFiniteSet(O!Open(p)) /\ Moved(p) \in Int
         /\ \A t \in O!Open(p) : opLedger[t] \in O!Entry /\ O!Signed(opLedger[t].kind, opLedger[t].amount) \in Int
<1>1. IsFiniteSet(O!Open(p))
  <2>1. O!Open(p) \in SUBSET Txs
    BY DEF O!Open
  <2> QED
    BY <2>1, FiniteTxs, FS_Subset
<1>2. \A t \in O!Open(p) : opLedger[t] \in O!Entry /\ O!Signed(opLedger[t].kind, opLedger[t].amount) \in Int
  BY DEF O!Open, StoreType, O!Entry, O!Signed
<1>3. Moved(p) \in Int
  <2> DEFINE f == [t \in O!Open(p) |-> O!Signed(opLedger[t].kind, opLedger[t].amount)]
  <2>1. \A t \in O!Open(p) : f[t] \in Int
    BY <1>2
  <2> HIDE DEF f
  <2>2. SumFunctionOnSet(f, O!Open(p)) \in Int
    BY <1>1, <2>1, OneAdds
  <2> QED
    BY <2>2 DEF Moved, f
<1> QED
  BY <1>1, <1>2, <1>3

\* The sum of what is open moves with the set.
LEMMA OpensMore ==
  ASSUME StoreType, StoreType', NEW p, NEW t, t \notin O!Open(p), O!Open(p)' = O!Open(p) \cup {t},
         \A u \in O!Open(p) : opLedger'[u].kind = opLedger[u].kind /\ opLedger'[u].amount = opLedger[u].amount
  PROVE  Moved(p)' = Moved(p) + O!Signed(opLedger'[t].kind, opLedger'[t].amount)
<1> DEFINE S == O!Open(p)
           f == [u \in S |-> O!Signed(opLedger[u].kind, opLedger[u].amount)]
           g == [u \in S \cup {t} |-> O!Signed(opLedger'[u].kind, opLedger'[u].amount)]
<1>1. IsFiniteSet(S) /\ t \notin S /\ \A u \in S : f[u] \in Int
  BY OpenType
<1>2. \A u \in S \cup {t} : g[u] \in Int
  <2>1. \A u \in O!Open(p)' : O!Signed(opLedger'[u].kind, opLedger'[u].amount) \in Int
    BY DEF O!Open, StoreType, O!Entry, O!Signed
  <2> QED
    BY <2>1
<1>3. \A u \in S : f[u] = g[u]
  OBVIOUS
<1>4. Moved(p)' = SumFunctionOnSet(g, S \cup {t})
  BY DEF Moved, O!Signed
<1>5. Moved(p) = SumFunctionOnSet(f, S)
  BY DEF Moved
<1>6. g[t] = O!Signed(opLedger'[t].kind, opLedger'[t].amount)
  OBVIOUS
<1> HIDE DEF S, f, g
<1>7. SumFunctionOnSet(g, S \cup {t}) = g[t] + SumFunctionOnSet(g, S)
  BY <1>1, <1>2, AddedSum
<1>8. SumFunctionOnSet(g, S) = SumFunctionOnSet(f, S) /\ SumFunctionOnSet(f, S) \in Int
  BY <1>1, <1>3, SameSum, OneAdds
<1>9. g[t] \in Int
  BY <1>2
<1> QED
  BY <1>4, <1>5, <1>6, <1>7, <1>8, <1>9

LEMMA OpensLess ==
  ASSUME StoreType, NEW p, NEW t \in O!Open(p), O!Open(p)' = O!Open(p) \ {t},
         \A u \in O!Open(p)' : opLedger'[u].kind = opLedger[u].kind /\ opLedger'[u].amount = opLedger[u].amount
  PROVE  Moved(p)' = Moved(p) - O!Signed(opLedger[t].kind, opLedger[t].amount)
<1> DEFINE S == O!Open(p)
           f == [u \in S |-> O!Signed(opLedger[u].kind, opLedger[u].amount)]
           g == [u \in S \ {t} |-> O!Signed(opLedger'[u].kind, opLedger'[u].amount)]
<1>1. IsFiniteSet(S) /\ (\A u \in S : f[u] \in Int) /\ t \in S
  BY OpenType
<1>2. \A u \in S \ {t} : g[u] = f[u]
  OBVIOUS
<1>3. Moved(p)' = SumFunctionOnSet(g, S \ {t})
  BY DEF Moved, O!Signed
<1>4. Moved(p) = SumFunctionOnSet(f, S)
  BY DEF Moved
<1>5. f[t] = O!Signed(opLedger[t].kind, opLedger[t].amount)
  OBVIOUS
<1> HIDE DEF S, f, g
<1>6. SumFunctionOnSet(f, S) = f[t] + SumFunctionOnSet(f, S \ {t})
  BY <1>1, OneAdds
<1>7. IsFiniteSet(S \ {t})
  BY <1>1, FS_RemoveElement
<1>8. SumFunctionOnSet(g, S \ {t}) = SumFunctionOnSet(f, S \ {t})
  BY <1>2, <1>7, SameSum
<1>9. f[t] \in Int /\ SumFunctionOnSet(f, S \ {t}) \in Int
  BY <1>1, <1>7, OneAdds
<1> QED
  BY <1>3, <1>4, <1>5, <1>6, <1>8, <1>9

LEMMA OpensAsMuch ==
  ASSUME StoreType, NEW p, O!Open(p)' = O!Open(p),
         \A u \in O!Open(p) : opLedger'[u].kind = opLedger[u].kind /\ opLedger'[u].amount = opLedger[u].amount
  PROVE  Moved(p)' = Moved(p)
<1> DEFINE S == O!Open(p)
           f == [u \in S |-> O!Signed(opLedger[u].kind, opLedger[u].amount)]
           g == [u \in S |-> O!Signed(opLedger'[u].kind, opLedger'[u].amount)]
<1>1. f = g
  OBVIOUS
<1>2. Moved(p)' = SumFunctionOnSet(g, S)
  BY DEF Moved, O!Signed
<1>3. Moved(p) = SumFunctionOnSet(f, S)
  BY DEF Moved
<1> QED
  BY <1>1, <1>2, <1>3

\* bet() and win() of a new transaction.
LEMMA BooksKeeps == ASSUME StoreOK, NEW r \in Requests, r.kind # "rollback", O!Books(r) PROVE StoreOK'
<1> DEFINE e == [kind |-> r.kind, player |-> r.player, amount |-> r.amount, rolledBack |-> FALSE]
<1> USE DEF StoreOK
<1>1. /\ r.tx \in Txs /\ r.player \in Players /\ r.amount \in Nat
      /\ r.id \in {q.id : q \in Requests} /\ O!Signed(r.kind, r.amount) \in Int
      /\ e \in O!Entry /\ e # None
  <2>1. r.kind \in {"bet", "win"} /\ r.player \in Players /\ r.amount \in Nat
    BY RequestAssumption
  <2>2. e \in O!Entry
    BY <2>1 DEF O!Entry
  <2> HIDE DEF e
  <2> QED
    BY <2>1, <2>2, RequestType, RequestAssumption
<1>2. /\ opLedger[r.tx] = None /\ opLedger' = [opLedger EXCEPT ![r.tx] = e]
      /\ balance' = [balance EXCEPT ![r.player] = balance[r.player] + O!Signed(r.kind, r.amount)]
      /\ processed' = processed \cup {r.id} /\ UNCHANGED <<rollbackTxs, shortfall>>
      /\ balance[r.player] + O!Signed(r.kind, r.amount) >= 0
  BY <1>1 DEF O!Books, O!Move, O!Signed, StoreType
<1> HIDE DEF e
<1>3. /\ opLedger' \in [Txs -> O!Entry \cup {None}] /\ opLedger'[r.tx] = e
      /\ \A t \in Txs \ {r.tx} : opLedger'[t] = opLedger[t]
  BY <1>1, <1>2 DEF StoreType
<1>4. /\ balance' \in [Players -> Int]
      /\ balance'[r.player] = balance[r.player] + O!Signed(r.kind, r.amount)
      /\ \A p \in Players \ {r.player} : balance'[p] = balance[p]
  BY <1>1, <1>2 DEF StoreType
<1>5. StoreType'
  BY <1>1, <1>2, <1>3, <1>4 DEF StoreType
<1>6. StoreInv'
  <2>1. \A t \in Txs : opLedger'[t] # None =>
          \E q \in Requests : q.tx = t /\ q.kind # "rollback" /\ q.player = opLedger'[t].player
    BY <1>1, <1>2, <1>3 DEF StoreInv, e
  <2>2. \A t \in Txs : Reversed(t) => Reversed(t)'
    BY <1>2, <1>3 DEF Reversed
  <2>3. ASSUME NEW q \in Requests
        PROVE  /\ q.kind = "rollback" /\ q.tx \in rollbackTxs => q.ref # None /\ Reversed(q.ref)'
               /\ q.kind = "rollback" /\ q.id \in processed' => q.tx \in rollbackTxs
               /\ q.kind # "rollback" /\ q.id \in processed' => opLedger'[q.tx] # None
    <3>1. q.ref # None => q.ref \in Txs
      BY RequestType
    <3>2. q.tx \in Txs /\ (q.id \in processed' => q.id \in processed \/ q = r)
      BY <1>2, RequestType, RequestAssumption
    <3> QED
      BY <1>1, <1>2, <1>3, <2>2, <3>1, <3>2 DEF StoreInv
  <2> QED
    BY <1>2, <2>1, <2>3 DEF StoreInv
<1>7. Moved(r.player)' = Moved(r.player) + O!Signed(r.kind, r.amount)
  <2>1. /\ r.tx \notin O!Open(r.player) /\ O!Open(r.player)' = O!Open(r.player) \cup {r.tx}
        /\ \A u \in O!Open(r.player) : opLedger'[u] = opLedger[u]
    BY <1>1, <1>2, <1>3 DEF O!Open, e
  <2>2. Moved(r.player)' = Moved(r.player) + O!Signed(opLedger'[r.tx].kind, opLedger'[r.tx].amount)
    BY <1>5, <2>1, OpensMore
  <2> QED
    BY <1>3, <2>2 DEF e
<1>8. ASSUME NEW p \in Players, p # r.player PROVE Moved(p)' = Moved(p)
  <2>1. /\ O!Open(p)' = O!Open(p) /\ \A u \in O!Open(p) : opLedger'[u] = opLedger[u]
    BY <1>1, <1>2, <1>3, <1>8 DEF O!Open, e
  <2> QED
    BY <2>1, OpensAsMuch
<1>9. ASSUME NEW p \in Players
      PROVE  balance'[p] >= 0 /\ balance'[p] = Seed + shortfall'[p] + Moved(p)'
  <2>1. /\ balance[p] \in Int /\ shortfall[p] \in Nat /\ Seed \in Nat /\ Moved(p) \in Int
        /\ O!Signed(r.kind, r.amount) \in Int /\ shortfall' = shortfall
        /\ balance[p] >= 0 /\ balance[p] = Seed + shortfall[p] + Moved(p)
    BY <1>1, <1>2, OpenType, RequestAssumption DEF StoreType
  <2>2. CASE p = r.player
    BY <1>2, <1>4, <1>7, <2>1, <2>2
  <2>3. CASE p # r.player
    BY <1>4, <1>8, <2>1, <2>3
  <2> QED
    BY <2>2, <2>3
<1> QED
  BY <1>5, <1>6, <1>9

\* rollback() of a transaction that is open.
LEMMA ReversesKeeps ==
  ASSUME StoreOK, NEW r \in Requests, r.kind = "rollback", O!Reverses(r)
  PROVE  StoreOK'
<1> DEFINE was == opLedger[r.ref]
           delta == O!Signed(was.kind, was.amount)
           after == balance[r.player] - delta
           missing == IF after < 0 THEN 0 - after ELSE 0
<1> USE DEF StoreOK
<1>1. /\ r.tx \in Txs /\ r.player \in Players /\ r.id \in {q.id : q \in Requests}
      /\ r.ref \in Txs /\ was \in O!Entry /\ was # None /\ was.player = r.player /\ ~was.rolledBack
  BY RequestType DEF O!Reverses, O!Referenced, StoreType
<1>2. was.amount \in Nat /\ delta \in Int /\ O!Signed(was.kind, 0 - was.amount) = 0 - delta
  BY <1>1 DEF O!Entry, O!Signed
<1>3. balance[r.player] \in Int /\ after \in Int /\ missing \in Nat /\ after + missing >= 0
      /\ balance[r.player] + O!Signed(was.kind, 0 - was.amount) = after
  <2>1. balance[r.player] \in Int
    BY <1>1 DEF StoreType
  <2> HIDE DEF was, delta
  <2> QED
    BY <1>2, <2>1
<1>4. /\ balance' = [balance EXCEPT ![r.player] = after + missing]
      /\ shortfall' = [shortfall EXCEPT ![r.player] = shortfall[r.player] + missing]
      /\ opLedger' = [opLedger EXCEPT ![r.ref] = [was EXCEPT !.rolledBack = TRUE]]
      /\ rollbackTxs' = rollbackTxs \cup {r.tx} /\ processed' = processed \cup {r.id}
  <2> HIDE DEF delta
  <2> QED
    BY <1>3 DEF O!Reverses
<1>5. /\ [was EXCEPT !.rolledBack = TRUE] \in O!Entry
      /\ [was EXCEPT !.rolledBack = TRUE].kind = was.kind
      /\ [was EXCEPT !.rolledBack = TRUE].amount = was.amount
      /\ [was EXCEPT !.rolledBack = TRUE].player = was.player
      /\ [was EXCEPT !.rolledBack = TRUE].rolledBack
  <2> HIDE DEF was
  <2> QED
    BY <1>1 DEF O!Entry
<1>6. PICK now \in O!Entry : /\ now = [was EXCEPT !.rolledBack = TRUE] /\ now # None
                            /\ now.kind = was.kind /\ now.amount = was.amount
                            /\ now.player = was.player /\ now.rolledBack
  BY <1>5, RequestAssumption
<1> HIDE DEF was, delta, after, missing
<1>7. /\ opLedger' \in [Txs -> O!Entry \cup {None}] /\ opLedger'[r.ref] = now
      /\ \A t \in Txs \ {r.ref} : opLedger'[t] = opLedger[t]
  BY <1>1, <1>4, <1>6 DEF StoreType
<1>8. /\ balance' \in [Players -> Int] /\ shortfall' \in [Players -> Nat]
      /\ balance'[r.player] = after + missing /\ shortfall'[r.player] = shortfall[r.player] + missing
      /\ \A p \in Players \ {r.player} : balance'[p] = balance[p] /\ shortfall'[p] = shortfall[p]
  BY <1>1, <1>3, <1>4 DEF StoreType
<1>9. StoreType'
  BY <1>1, <1>4, <1>7, <1>8 DEF StoreType
<1>10. StoreInv'
  <2>1. \A t \in Txs : (opLedger'[t] # None <=> opLedger[t] # None) /\ opLedger'[t].player = opLedger[t].player
    BY <1>1, <1>6, <1>7 DEF was
  <2>2. \A t \in Txs : opLedger'[t] # None =>
          \E q \in Requests : q.tx = t /\ q.kind # "rollback" /\ q.player = opLedger'[t].player
    BY <2>1 DEF StoreInv
  <2>3. Reversed(r.ref)' /\ \A t \in Txs : Reversed(t) => Reversed(t)'
    BY <1>6, <1>7 DEF Reversed
  <2>4. ASSUME NEW q \in Requests
        PROVE  /\ q.kind = "rollback" /\ q.tx \in rollbackTxs' => q.ref # None /\ Reversed(q.ref)'
               /\ q.kind = "rollback" /\ q.id \in processed' => q.tx \in rollbackTxs'
               /\ q.kind # "rollback" /\ q.id \in processed' => opLedger'[q.tx] # None
    <3>1. q.tx \in Txs /\ (q.ref # None => q.ref \in Txs) /\ r.ref # None
      BY <1>1, RequestType, RequestAssumption
    <3>2. q.id \in processed' => q.id \in processed \/ q = r
      BY <1>4, RequestAssumption
    <3>3. q.kind = "rollback" /\ q.tx = r.tx => q.ref = r.ref
      BY RequestAssumption
    <3> QED
      BY <1>4, <2>1, <2>3, <3>1, <3>2, <3>3 DEF StoreInv
  <2> QED
    BY <2>2, <2>4 DEF StoreInv
<1> DEFINE IsOpen(t, p) == opLedger[t] # None /\ opLedger[t].player = p /\ ~opLedger[t].rolledBack
<1>11. \A p : /\ O!Open(p) = {t \in Txs : IsOpen(t, p)}
              /\ O!Open(p)' = {t \in Txs : t # r.ref /\ IsOpen(t, p)}
  <2> SUFFICES ASSUME NEW p
               PROVE  /\ O!Open(p) = {t \in Txs : IsOpen(t, p)}
                      /\ O!Open(p)' = {t \in Txs : t # r.ref /\ IsOpen(t, p)}
    OBVIOUS
  <2>1. O!Open(p)' = {t \in Txs : IsOpen(t, p)'}
    BY DEF O!Open
  <2>2. ASSUME NEW t \in Txs PROVE IsOpen(t, p)' <=> t # r.ref /\ IsOpen(t, p)
    <3>1. CASE t = r.ref
      BY Zenon, <1>6, <1>7, <3>1
    <3>2. CASE t # r.ref
      BY <1>7, <3>2
    <3> QED
      BY <3>1, <3>2
  <2> HIDE DEF IsOpen
  <2>3. {t \in Txs : IsOpen(t, p)'} = {t \in Txs : t # r.ref /\ IsOpen(t, p)}
    BY <2>2
  <2> QED
    BY <2>1, <2>3 DEF O!Open, IsOpen
<1>12. Moved(r.player)' = Moved(r.player) - delta
  <2>1. /\ r.ref \in O!Open(r.player) /\ O!Open(r.player)' = O!Open(r.player) \ {r.ref}
        /\ \A u \in O!Open(r.player)' : opLedger'[u] = opLedger[u]
    BY <1>1, <1>7, <1>11 DEF was
  <2>2. Moved(r.player)' = Moved(r.player) - O!Signed(opLedger[r.ref].kind, opLedger[r.ref].amount)
    BY <2>1, OpensLess
  <2> QED
    BY <2>2 DEF was, delta
<1>13. ASSUME NEW p \in Players, p # r.player PROVE Moved(p)' = Moved(p)
  <2>1. O!Open(p)' = O!Open(p) /\ \A u \in O!Open(p) : opLedger'[u] = opLedger[u]
    BY <1>1, <1>7, <1>11, <1>13 DEF was
  <2> QED
    BY <2>1, OpensAsMuch
<1>14. ASSUME NEW p \in Players
       PROVE  balance'[p] >= 0 /\ balance'[p] = Seed + shortfall'[p] + Moved(p)'
  <2>1. /\ balance[p] \in Int /\ shortfall[p] \in Nat /\ Seed \in Nat /\ Moved(p) \in Int
        /\ balance[p] >= 0 /\ balance[p] = Seed + shortfall[p] + Moved(p)
    BY OpenType, RequestAssumption DEF StoreType
  <2>2. CASE p = r.player
    <3>1. after = balance[p] - delta
      BY <2>2 DEF after
    <3> QED
      BY <1>2, <1>3, <1>8, <1>12, <2>1, <2>2, <3>1
  <2>3. CASE p # r.player
    BY <1>8, <1>13, <2>1, <2>3
  <2> QED
    BY <2>2, <2>3
<1> QED
  BY <1>9, <1>10, <1>14

\* Answers that move nothing: a transaction seen before, a refusal, an unknown reference.
LEMMA AnswersKeep ==
  ASSUME StoreOK, NEW r \in Requests,
         \/ r.kind # "rollback" /\ (O!Replays(r) \/ O!Refuses(r))
         \/ r.kind = "rollback" /\ (O!ReversedBefore(r) \/ O!NotFound(r))
         \/ UNCHANGED O!store
  PROVE  StoreOK'
<1> USE DEF StoreOK
<1>1. CASE UNCHANGED O!store
  <2>1. \A p \in Players : Moved(p)' = Moved(p)
    BY <1>1 DEF O!store, Moved, O!Open, O!Signed
  <2>2. StoreInv' /\ StoreType'
    BY <1>1 DEF O!store, StoreInv, StoreType, Reversed
  <2> QED
    BY <1>1, <2>1, <2>2 DEF O!store
<1>2. CASE UNCHANGED <<balance, opLedger, shortfall>> /\ ~(UNCHANGED O!store)
  <2>1. \A p \in Players : Moved(p)' = Moved(p)
    BY <1>2 DEF Moved, O!Open, O!Signed
  <2>2. r.tx \in Txs /\ r.id \in {q.id : q \in Requests} /\ (r.ref # None => r.ref \in Txs)
    BY RequestType
  <2>3. StoreType'
    BY <1>2, <2>2 DEF StoreType, O!Replays, O!Refuses, O!ReversedBefore, O!NotFound
  <2>4. ASSUME NEW q \in Requests
        PROVE  /\ q.kind = "rollback" /\ q.tx \in rollbackTxs' => q.ref # None /\ Reversed(q.ref)
               /\ q.kind = "rollback" /\ q.id \in processed' => q.tx \in rollbackTxs'
               /\ q.kind # "rollback" /\ q.id \in processed' => opLedger[q.tx] # None
    <3>1. q.id \in processed \cup {r.id} => q.id \in processed \/ q = r
      BY RequestAssumption
    <3>2. q.kind = "rollback" /\ q.tx = r.tx => q.ref = r.ref /\ r.kind = "rollback"
      BY RequestAssumption
    <3>3. CASE r.kind # "rollback" /\ O!Replays(r)
      BY <3>1, <3>3 DEF StoreInv, O!Replays
    <3>4. CASE r.kind = "rollback" /\ O!ReversedBefore(r)
      <4>1. r.ref # None /\ Reversed(r.ref)
        BY <3>4 DEF O!ReversedBefore, O!Referenced, Reversed, StoreInv
      <4> QED
        BY <3>1, <3>2, <3>4, <4>1 DEF StoreInv, O!ReversedBefore
    <3> QED
      BY <1>2, <3>3, <3>4 DEF O!Refuses, O!NotFound
  <2>5. StoreInv'
    BY <1>2, <2>4 DEF StoreInv, Reversed
  <2> QED
    BY <1>2, <2>1, <2>3, <2>5
<1> QED
  BY <1>1, <1>2 DEF O!Replays, O!Refuses, O!ReversedBefore, O!NotFound

LEMMA RouteKeeps == ASSUME StoreOK, NEW r \in Requests, O!Route(r) PROVE StoreOK'
BY BooksKeeps, ReversesKeeps, AnswersKeep DEF O!Route

-----------------------------------------------------------------------------
(* Both wallets.                                                            *)

AdapterType ==
    /\ internal \in [Players -> Int] /\ committed \in [Txs -> Int \cup {None}] /\ reopened \subseteq Txs

\* The two have done the same for a player until now.
Alike(p) == reopened = {} /\ shortfall[p] = 0

\* What the store does with a request of a player it has done the same for: it books a
\* transaction, reverses one that is open, or leaves money and ledger as they are.
LEMMA StoreDoes ==
  ASSUME StoreOK, NEW r \in Requests, O!Route(r)
  PROVE  /\ shortfall'[r.player] >= shortfall[r.player]
         /\ rollbackTxs \subseteq rollbackTxs'
         /\ \/ r.kind # "rollback" /\ O!Books(r)
            \/ r.kind = "rollback" /\ O!Reverses(r)
            \/ /\ UNCHANGED <<balance, opLedger, shortfall>>
               /\ r.kind # "rollback" /\ opLedger[r.tx] = None =>
                     r.kind = "bet" /\ balance[r.player] < r.amount
               /\ r.kind = "rollback" =>
                     \/ r.ref # None /\ Reversed(r.ref)
                     \/ r.ref = None \/ opLedger[r.ref] = None \/ opLedger[r.ref].player # r.player
<1>1. r.player \in Players /\ shortfall[r.player] \in Nat /\ (r.ref # None => r.ref \in Txs) /\ r.tx \in Txs
  BY RequestType DEF StoreOK, StoreType
<1>2. CASE UNCHANGED O!store /\ r.id \in processed
  BY <1>1, <1>2 DEF O!store, StoreOK, StoreInv
<1>3. CASE r.kind # "rollback" /\ O!Books(r)
  BY <1>1, <1>3 DEF O!Books
<1>4. CASE r.kind = "rollback" /\ O!Reverses(r)
  <2> DEFINE after == balance[r.player] + O!Signed(opLedger[r.ref].kind, 0 - opLedger[r.ref].amount)
             missing == IF after < 0 THEN 0 - after ELSE 0
  <2>1. opLedger[r.ref] \in O!Entry
    BY <1>1, <1>4 DEF O!Reverses, O!Referenced, StoreOK, StoreType
  <2>2. O!Signed(opLedger[r.ref].kind, 0 - opLedger[r.ref].amount) \in Int /\ balance[r.player] \in Int
    BY <1>1, <2>1 DEF O!Entry, O!Signed, StoreOK, StoreType
  <2>3. missing \in Nat
    BY <2>2
  <2>4. shortfall' = [shortfall EXCEPT ![r.player] = shortfall[r.player] + missing]
    BY <1>4 DEF O!Reverses
  <2>5. shortfall'[r.player] = shortfall[r.player] + missing
    BY <1>1, <2>4 DEF StoreOK, StoreType
  <2> HIDE DEF missing
  <2> QED
    BY <1>1, <1>4, <2>3, <2>5 DEF O!Reverses
<1>5. CASE r.kind # "rollback" /\ (O!Replays(r) \/ O!Refuses(r))
  BY <1>1, <1>5, RequestAssumption DEF O!Replays, O!Refuses, O!store
<1>6. CASE r.kind = "rollback" /\ O!ReversedBefore(r)
  BY <1>1, <1>6 DEF O!ReversedBefore, O!Referenced, Reversed, StoreOK, StoreInv
<1>7. CASE r.kind = "rollback" /\ O!NotFound(r)
  BY <1>1, <1>7 DEF O!NotFound, O!Referenced, O!store
<1> QED
  BY <1>2, <1>3, <1>4, <1>5, <1>6, <1>7 DEF O!Route

\* The adapter's side of it: where it touches its record.
LEMMA AdapterDoes ==
  ASSUME AdapterType, NEW r \in Requests, O!AdapterBooks(r) \/ O!AdapterReverses(r)
  PROVE  /\ AdapterType' /\ reopened \subseteq reopened'
         /\ \A p \in Players \ {r.player} : internal'[p] = internal[p]
         /\ \/ UNCHANGED <<internal, committed, reopened>>
            \/ /\ r.kind # "rollback" /\ committed[r.tx] = None
               /\ r.kind = "bet" => internal[r.player] >= r.amount
               /\ internal'[r.player] = internal[r.player] + O!Signed(r.kind, r.amount)
               /\ committed'[r.tx] = O!Signed(r.kind, r.amount)
               /\ \A t \in Txs \ {r.tx} : committed'[t] = committed[t]
               /\ reopened' = {} => \A q \in Requests :
                      q.kind = "rollback" /\ q.ref = r.tx => committed[q.tx] = None
            \/ /\ r.kind = "rollback" /\ committed[r.tx] = None /\ r.ref \in Txs
               /\ committed[r.ref] \in Int /\ committed'[r.ref] = None
               /\ internal'[r.player] = internal[r.player] - committed[r.ref]
               /\ r.ref # r.tx => committed'[r.tx] \in Int
               /\ \A t \in Txs \ {r.tx, r.ref} : committed'[t] = committed[t]
               /\ reopened' = reopened
<1>1. /\ r.tx \in Txs /\ r.player \in Players /\ (r.ref # None => r.ref \in Txs)
      /\ O!Signed(r.kind, r.amount) \in Int
  BY RequestType
<1>2. CASE UNCHANGED O!adapter
  BY <1>2 DEF O!adapter, AdapterType
<1>3. CASE O!AdapterBooks(r) /\ ~(UNCHANGED O!adapter)
  <2> DEFINE delta == O!Signed(r.kind, r.amount)
  <2>1. /\ r.kind # "rollback" /\ committed[r.tx] = None
        /\ r.kind = "bet" => internal[r.player] >= r.amount
        /\ internal' = [internal EXCEPT ![r.player] = internal[r.player] + delta]
        /\ committed' = [committed EXCEPT ![r.tx] = delta]
        /\ reopened' = IF \E q \in Requests : q.kind = "rollback" /\ q.ref = r.tx /\ committed[q.tx] # None
                         THEN reopened \cup {r.tx} ELSE reopened
    BY <1>3 DEF O!AdapterBooks, O!Commit
  <2>2. delta \in Int
    BY <1>1
  <2> HIDE DEF delta
  <2>3. internal' \in [Players -> Int] /\ internal'[r.player] = internal[r.player] + delta
        /\ \A p \in Players \ {r.player} : internal'[p] = internal[p]
    BY <1>1, <2>1, <2>2 DEF AdapterType
  <2>4. committed' \in [Txs -> Int \cup {None}] /\ committed'[r.tx] = delta
        /\ \A t \in Txs \ {r.tx} : committed'[t] = committed[t]
    BY <1>1, <2>1, <2>2 DEF AdapterType
  <2>5. reopened' \subseteq Txs /\ reopened \subseteq reopened'
        /\ reopened' = {} => \A q \in Requests :
               q.kind = "rollback" /\ q.ref = r.tx => committed[q.tx] = None
    BY <1>1, <2>1 DEF AdapterType
  <2> QED
    BY <2>1, <2>3, <2>4, <2>5 DEF AdapterType, delta
<1>4. CASE O!AdapterReverses(r) /\ ~(UNCHANGED O!adapter)
  <2> DEFINE c == committed[r.ref]
  <2>1. /\ r.kind = "rollback" /\ r.ref # None /\ c # None /\ committed[r.tx] = None
        /\ internal' = [internal EXCEPT ![r.player] = internal[r.player] - c]
        /\ committed' = [committed EXCEPT ![r.tx] = 0 - c, ![r.ref] = None]
        /\ reopened' = reopened
    BY <1>4 DEF O!AdapterReverses
  <2>2. r.ref \in Txs /\ c \in Int /\ 0 - c \in Int
    BY <1>1, <2>1 DEF AdapterType
  <2> HIDE DEF c
  <2>3. internal' \in [Players -> Int] /\ internal'[r.player] = internal[r.player] - c
        /\ \A p \in Players \ {r.player} : internal'[p] = internal[p]
    BY <1>1, <2>1, <2>2 DEF AdapterType
  <2>4. /\ committed' \in [Txs -> Int \cup {None}] /\ committed'[r.ref] = None
        /\ r.ref # r.tx => committed'[r.tx] \in Int
        /\ \A t \in Txs \ {r.tx, r.ref} : committed'[t] = committed[t]
    BY <1>1, <2>1, <2>2 DEF AdapterType
  <2> QED
    BY <2>1, <2>2, <2>3, <2>4 DEF AdapterType, c
<1> QED
  BY <1>2, <1>3, <1>4

\* What stands on record of other players' requests stays.
LEMMA OthersStand ==
  ASSUME StoreOK, NEW r \in Requests, NEW q \in Requests, q.player # r.player,
         O!Route(r), AdapterType, O!AdapterBooks(r) \/ O!AdapterReverses(r), OnRecord(q)
  PROVE  OnRecord(q)'
<1>1. q.tx # r.tx /\ (r.kind = "rollback" => q.tx # r.ref)
  BY RequestAssumption
<1>2. /\ r.tx \in Txs /\ q.tx \in Txs
  BY RequestType
<1>3. opLedger'[q.tx] = opLedger[q.tx]
  <2>1. opLedger \in [Txs -> O!Entry \cup {None}]
    BY DEF StoreOK, StoreType
  <2>2. CASE r.kind # "rollback" /\ O!Books(r)
    BY <1>1, <1>2, <2>1, <2>2 DEF O!Books
  <2>3. CASE r.kind = "rollback" /\ O!Reverses(r)
    BY <1>1, <1>2, <2>1, <2>3 DEF O!Reverses
  <2> QED
    BY <2>2, <2>3, StoreDoes
<1>4. \A u \in Requests : u.player = q.player /\ u.kind = "rollback" => committed'[u.tx] = committed[u.tx]
  BY AdapterDoes, RequestAssumption, RequestType
<1>5. committed'[q.tx] = committed[q.tx]
  BY <1>1, <1>2, AdapterDoes
<1>6. \A u \in Requests : u.kind = "rollback" /\ u.ref = q.tx => u.player = q.player
  BY RequestAssumption
<1>7. rollbackTxs \subseteq rollbackTxs'
  BY StoreDoes
<1> QED
  BY <1>3, <1>4, <1>5, <1>6, <1>7 DEF OnRecord, Reversed, O!Signed

\* A bet or a win of a player both have done the same for.
LEMMA BothBook ==
  ASSUME StoreOK, AdapterType, AgreeInv, NEW r \in Requests, r.kind # "rollback",
         O!Route(r), O!AdapterBooks(r) \/ O!AdapterReverses(r),
         reopened' = {}, Alike(r.player), internal[r.player] = balance[r.player]
  PROVE  /\ internal'[r.player] = balance'[r.player]
         /\ \A q \in Requests : q.player = r.player => OnRecord(q)'
<1> DEFINE delta == O!Signed(r.kind, r.amount)
           e == [kind |-> r.kind, player |-> r.player, amount |-> r.amount, rolledBack |-> FALSE]
<1>1. /\ r.tx \in Txs /\ r.player \in Players /\ delta \in Int /\ delta # None
      /\ r.amount \in Nat /\ balance[r.player] \in Int
  BY RequestType, RequestAssumption DEF StoreOK, StoreType
<1>2. \A q \in Requests : q.player = r.player => OnRecord(q)
  BY DEF AgreeInv, Alike
<1>3. \A q \in Requests : q.kind = "rollback" => q.tx # r.tx /\ q.tx \in Txs
  BY RequestAssumption, RequestType
<1>4. CASE O!Books(r)
  <2>1. /\ opLedger[r.tx] = None
        /\ r.kind = "bet" => balance[r.player] >= r.amount
        /\ balance' = [balance EXCEPT ![r.player] = balance[r.player] + delta]
        /\ opLedger' = [opLedger EXCEPT ![r.tx] = e]
        /\ UNCHANGED rollbackTxs
    BY <1>1, <1>4, RequestAssumption DEF O!Books, O!Move
  <2>2. committed[r.tx] = None
    BY <1>2, <2>1 DEF OnRecord
  <2>3. /\ internal'[r.player] = internal[r.player] + delta /\ committed'[r.tx] = delta
        /\ \A t \in Txs \ {r.tx} : committed'[t] = committed[t]
    <3>1. CASE UNCHANGED <<internal, committed, reopened>>
      <4>1. internal[r.player] >= r.amount \/ r.kind # "bet"
        BY <2>1
      <4>2. O!AdapterBooks(r)
        BY DEF O!AdapterReverses
      <4>3. committed' = [committed EXCEPT ![r.tx] = delta]
        BY <2>2, <4>1, <4>2 DEF O!AdapterBooks, O!Commit
      <4>4. committed'[r.tx] = delta
        BY <1>1, <4>3 DEF AdapterType
      <4> QED
        BY <1>1, <2>2, <3>1, <4>4
    <3> QED
      BY <3>1, AdapterDoes
  <2>4. balance'[r.player] = balance[r.player] + delta
    BY <1>1, <2>1 DEF StoreOK, StoreType
  <2>5. opLedger'[r.tx] = e /\ \A t \in Txs \ {r.tx} : opLedger'[t] = opLedger[t]
    BY <1>1, <2>1 DEF StoreOK, StoreType
  <2>6. e.kind = r.kind /\ e.amount = r.amount /\ ~e.rolledBack /\ e # None
    <3>1. e \in O!Entry
      BY <1>1, RequestAssumption DEF O!Entry
    <3> QED
      BY <3>1, RequestAssumption
  <2> HIDE DEF e
  <2>7. ASSUME NEW q \in Requests, q.player = r.player PROVE OnRecord(q)'
    <3>1. q.tx \in Txs
      BY RequestType
    <3>2. CASE q.tx = r.tx
      <4>1. q.kind # "rollback" /\ ~Reversed(q.tx)'
        BY <1>3, <2>5, <2>6, <3>2 DEF Reversed
      <4> QED
        BY <2>3, <2>5, <2>6, <3>2, <4>1 DEF OnRecord, O!Signed
    <3>3. CASE q.tx # r.tx
      <4>1. opLedger'[q.tx] = opLedger[q.tx] /\ committed'[q.tx] = committed[q.tx]
        BY <2>3, <2>5, <3>1, <3>3
      <4>2. \A u \in Requests : u.kind = "rollback" => committed'[u.tx] = committed[u.tx]
        BY <1>3, <2>3
      <4> QED
        BY <1>2, <2>1, <2>7, <4>1, <4>2 DEF OnRecord, Reversed, O!Signed
    <3> QED
      BY <3>2, <3>3
  <2> QED
    BY <2>3, <2>4, <2>7
<1>5. CASE ~O!Books(r)
  <2>1. /\ UNCHANGED <<balance, opLedger, shortfall>> /\ rollbackTxs \subseteq rollbackTxs'
        /\ opLedger[r.tx] = None => r.kind = "bet" /\ balance[r.player] < r.amount
    BY <1>5, StoreDoes
  <2>2. UNCHANGED <<internal, committed, reopened>>
    <3>1. CASE committed[r.tx] # None
      BY <3>1, AdapterDoes
    <3>2. CASE committed[r.tx] = None
      <4>1. opLedger[r.tx] = None \/ Reversed(r.tx)
        <5>1. CASE opLedger[r.tx] # None /\ ~Reversed(r.tx)
          <6>1. committed[r.tx] = O!Signed(opLedger[r.tx].kind, opLedger[r.tx].amount)
            BY <1>2, <5>1 DEF OnRecord
          <6>2. opLedger[r.tx] \in O!Entry
            BY <1>1, <5>1 DEF StoreOK, StoreType
          <6>3. committed[r.tx] \in Int
            BY <6>1, <6>2 DEF O!Entry, O!Signed
          <6> QED
            BY <3>2, <6>3, RequestAssumption
        <5> QED
          BY <5>1
      <4>2. CASE Reversed(r.tx)
        <5>1. PICK q \in Requests : q.kind = "rollback" /\ q.ref = r.tx /\ committed[q.tx] # None
          BY <1>2, <4>2 DEF OnRecord
        <5> QED
          BY <5>1, AdapterDoes
      <4>3. CASE opLedger[r.tx] = None
        <5>1. r.kind = "bet" /\ ~(internal[r.player] >= r.amount)
          BY <1>1, <2>1, <4>3
        <5> QED
          BY <5>1, AdapterDoes
      <4> QED
        BY <4>1, <4>2, <4>3
    <3> QED
      BY <3>1, <3>2
  <2> QED
    BY <1>2, <2>1, <2>2 DEF OnRecord, Reversed, O!Signed
<1> QED
  BY <1>4, <1>5

\* A rollback of such a player, that forgives nothing.
LEMMA BothReverse ==
  ASSUME StoreOK, AdapterType, AgreeInv, NEW r \in Requests, r.kind = "rollback",
         O!Route(r), O!AdapterBooks(r) \/ O!AdapterReverses(r),
         shortfall'[r.player] = 0, Alike(r.player), internal[r.player] = balance[r.player]
  PROVE  /\ internal'[r.player] = balance'[r.player]
         /\ \A q \in Requests : q.player = r.player => OnRecord(q)'
<1> DEFINE was == opLedger[r.ref]
           delta == O!Signed(was.kind, was.amount)
<1>1. /\ r.tx \in Txs /\ r.player \in Players /\ (r.ref # None => r.ref \in Txs)
      /\ balance[r.player] \in Int /\ None \notin Int
  BY RequestType, RequestAssumption DEF StoreOK, StoreType
<1>2. \A q \in Requests : q.player = r.player => OnRecord(q)
  BY DEF AgreeInv, Alike
<1>3. \A q \in Requests : q.tx = r.ref => q.kind # "rollback" /\ q.player = r.player /\ q.tx # r.tx
  BY RequestAssumption
\* A transaction that is booked is that of a request of the player.
<1>4. ASSUME r.ref \in Txs, was # None \/ committed[r.ref] # None
      PROVE  /\ \E q \in Requests : q.tx = r.ref
             /\ r.ref # r.tx /\ (was # None => was.player = r.player)
             /\ committed[r.ref] = IF was = None \/ Reversed(r.ref) THEN None ELSE delta
  <2>1. PICK q \in Requests : q.tx = r.ref /\ (was # None => q.player = was.player)
    BY <1>4 DEF StoreOK, StoreInv, AgreeInv
  <2> QED
    BY <1>2, <1>3, <2>1 DEF OnRecord
<1>5. CASE O!Reverses(r)
  <2>1. /\ r.ref \in Txs /\ was # None /\ ~was.rolledBack /\ r.tx \notin rollbackTxs
        /\ was \in O!Entry /\ rollbackTxs' = rollbackTxs \cup {r.tx}
    BY <1>1, <1>5 DEF O!Reverses, O!Referenced, StoreOK, StoreType
  <2>2. was.amount \in Nat /\ delta \in Int /\ O!Signed(was.kind, 0 - was.amount) = 0 - delta
    BY <2>1 DEF O!Entry, O!Signed
  <2>3. r.ref # r.tx /\ committed[r.ref] = delta
    BY <1>4, <2>1 DEF Reversed
  <2>4. committed[r.tx] = None
    BY <1>2, <2>1 DEF OnRecord
  <2>5. /\ internal'[r.player] = internal[r.player] - delta
        /\ committed'[r.ref] = None /\ committed'[r.tx] \in Int
        /\ \A t \in Txs \ {r.tx, r.ref} : committed'[t] = committed[t]
    <3>1. CASE UNCHANGED <<internal, committed, reopened>>
      <4>1. O!AdapterReverses(r)
        BY DEF O!AdapterBooks
      <4>2. committed' = [committed EXCEPT ![r.tx] = 0 - committed[r.ref], ![r.ref] = None]
        <5>1. r.ref # None /\ committed[r.ref] # None /\ committed[r.tx] = None
          <6> HIDE DEF delta
          <6> QED
            BY <1>1, <2>1, <2>2, <2>3, <2>4, RequestAssumption
        <5> QED
          BY <4>1, <5>1 DEF O!AdapterReverses
      <4>3. committed'[r.ref] = None
        BY <2>1, <4>2 DEF AdapterType
      <4> QED
        BY <1>1, <2>2, <2>3, <3>1, <4>3
    <3> QED
      BY <2>3, <3>1, AdapterDoes
  <2>6. balance'[r.player] = balance[r.player] - delta
    <3> DEFINE after == balance[r.player] + O!Signed(was.kind, 0 - was.amount)
               missing == IF after < 0 THEN 0 - after ELSE 0
    <3>1. after = balance[r.player] - delta /\ after \in Int /\ missing \in Nat
      BY <1>1, <2>2
    <3>2. /\ balance' = [balance EXCEPT ![r.player] = after + missing]
          /\ shortfall' = [shortfall EXCEPT ![r.player] = shortfall[r.player] + missing]
      BY <1>5 DEF O!Reverses
    <3> HIDE DEF after, missing
    <3>3. /\ balance'[r.player] = after + missing /\ shortfall'[r.player] = shortfall[r.player] + missing
          /\ shortfall[r.player] \in Nat
      BY <1>1, <3>2 DEF StoreOK, StoreType
    <3>4. missing = 0
      BY <3>1, <3>3
    <3> QED
      BY <3>1, <3>3, <3>4
  <2>7. /\ opLedger'[r.ref] # None /\ opLedger'[r.ref].rolledBack
        /\ \A t \in Txs \ {r.ref} : opLedger'[t] = opLedger[t]
    <3>1. opLedger' = [opLedger EXCEPT ![r.ref] = [was EXCEPT !.rolledBack = TRUE]]
      BY <1>5 DEF O!Reverses
    <3>2. [was EXCEPT !.rolledBack = TRUE] \in O!Entry /\ [was EXCEPT !.rolledBack = TRUE].rolledBack
      <4> HIDE DEF was
      <4> QED
        BY <2>1 DEF O!Entry
    <3>3. [was EXCEPT !.rolledBack = TRUE] # None
      BY <3>2, RequestAssumption
    <3> QED
      BY <2>1, <3>1, <3>2, <3>3 DEF StoreOK, StoreType
  <2> HIDE DEF was, delta
  <2>8. ASSUME NEW q \in Requests, q.player = r.player PROVE OnRecord(q)'
    <3>1. q.tx \in Txs
      BY RequestType
    <3>2. CASE q.tx = r.ref
      <4>1. q.kind # "rollback" /\ Reversed(q.tx)' /\ committed'[q.tx] = None /\ committed'[r.tx] # None
        BY <1>1, <1>3, <2>5, <2>7, <3>2 DEF Reversed
      <4> QED
        BY <3>2, <4>1 DEF OnRecord
    <3>3. CASE q.tx = r.tx
      <4>1. q.kind = "rollback" /\ q.tx \in rollbackTxs'
        BY <2>1, <3>3, RequestAssumption
      <4> QED
        BY <4>1 DEF OnRecord
    <3>4. CASE q.tx # r.ref /\ q.tx # r.tx
      <4>1. opLedger'[q.tx] = opLedger[q.tx] /\ committed'[q.tx] = committed[q.tx]
        BY <2>5, <2>7, <3>1, <3>4
      <4>2. \A u \in Requests : u.kind = "rollback" /\ committed[u.tx] # None => committed'[u.tx] # None
        BY <1>1, <1>3, <2>5, RequestType
      <4> QED
        BY <1>2, <2>1, <2>8, <4>1, <4>2 DEF OnRecord, Reversed, O!Signed
    <3> QED
      BY <3>2, <3>3, <3>4
  <2> QED
    BY <2>5, <2>6, <2>8
<1>6. CASE ~O!Reverses(r)
  <2>1. /\ UNCHANGED <<balance, opLedger, shortfall>> /\ rollbackTxs \subseteq rollbackTxs'
        /\ \/ r.ref # None /\ Reversed(r.ref)
           \/ r.ref = None \/ was = None \/ was.player # r.player
    BY <1>6, StoreDoes
  <2>2. UNCHANGED <<internal, committed, reopened>>
    <3>1. r.ref \in Txs => committed[r.ref] = None
      BY <1>1, <1>4, <2>1, RequestAssumption
    <3> QED
      BY <1>1, <3>1, AdapterDoes
  <2> QED
    BY <1>2, <2>1, <2>2 DEF OnRecord, Reversed, O!Signed
<1> QED
  BY <1>5, <1>6

\* The money of another player stays.
LEMMA OtherBalances ==
  ASSUME StoreOK, NEW r \in Requests, O!Route(r), NEW p \in Players, p # r.player
  PROVE  balance'[p] = balance[p] /\ shortfall'[p] = shortfall[p]
<1>1. CASE O!Books(r)
  BY <1>1 DEF O!Books, O!Move, StoreOK, StoreType
<1>2. CASE O!Reverses(r)
  BY <1>2 DEF O!Reverses, StoreOK, StoreType
<1>3. CASE ~O!Books(r) /\ ~O!Reverses(r)
  BY <1>3, StoreDoes
<1> QED
  BY <1>1, <1>2, <1>3

\* A request, served by both.
LEMMA ServeKeeps ==
  ASSUME WalletInv, NEW r \in Requests, O!Serve(r)
  PROVE  WalletInv'
<1>1. /\ StoreOK /\ AdapterType /\ AgreeInv /\ O!WalletsAgree
      /\ O!Route(r) /\ (O!AdapterBooks(r) \/ O!AdapterReverses(r))
  BY BalanceIs DEF WalletInv, O!TypeOK, O!NeverNegative, StoreOK, StoreType, AdapterType, O!Serve
<1>2. StoreOK'
  BY <1>1, RouteKeeps
<1>3. AdapterType' /\ reopened \subseteq reopened'
  BY <1>1, AdapterDoes
<1>4. \A t \in Txs : committed'[t] # None => \E q \in Requests : q.tx = t
  <2>1. \A t \in Txs : committed[t] # None => \E q \in Requests : q.tx = t
    BY <1>1 DEF AgreeInv
  <2> QED
    BY <1>1, <2>1, AdapterDoes
<1>5. \A p \in Players : shortfall'[p] = 0 => shortfall[p] = 0
  <2> SUFFICES ASSUME NEW p \in Players, shortfall'[p] = 0 PROVE shortfall[p] = 0
    OBVIOUS
  <2>1. shortfall[p] \in Nat
    BY <1>1 DEF StoreOK, StoreType
  <2>2. CASE p = r.player
    BY <1>1, <2>1, <2>2, StoreDoes
  <2>3. CASE p # r.player
    BY <2>3, OtherBalances, <1>1
  <2> QED
    BY <2>2, <2>3
<1>6. ASSUME Alike(r.player)'
      PROVE  /\ internal'[r.player] = balance'[r.player]
             /\ \A q \in Requests : q.player = r.player => OnRecord(q)'
  <2>1. r.player \in Players
    BY RequestType
  <2>2. Alike(r.player) /\ reopened' = {} /\ shortfall'[r.player] = 0
    BY <1>3, <1>5, <1>6, <2>1 DEF Alike
  <2>3. internal[r.player] = balance[r.player]
    BY <1>1, <2>1, <2>2 DEF O!WalletsAgree, Alike
  <2> QED
    BY <1>1, <2>2, <2>3, BothBook, BothReverse
<1>7. ASSUME NEW p \in Players, p # r.player, Alike(p)'
      PROVE  /\ internal'[p] = balance'[p]
             /\ \A q \in Requests : q.player = p => OnRecord(q)'
  <2>1. Alike(p)
    BY <1>3, <1>5, <1>7 DEF Alike
  <2>2. internal[p] = balance[p] /\ \A q \in Requests : q.player = p => OnRecord(q)
    BY <1>1, <2>1 DEF O!WalletsAgree, AgreeInv, Alike
  <2>3. internal'[p] = internal[p]
    BY <1>1, <1>7, AdapterDoes
  <2>4. balance'[p] = balance[p]
    BY <1>1, <1>7, OtherBalances
  <2> QED
    BY <1>1, <1>7, <2>2, <2>3, <2>4, OthersStand
<1>8. O!WalletsAgree'
  BY <1>6, <1>7 DEF O!WalletsAgree, Alike
<1>9. AgreeInv'
  BY <1>4, <1>6, <1>7, RequestType DEF AgreeInv, Alike
<1>10. O!TypeOK' /\ O!NeverNegative' /\ StoreInv'
  <2>1. StoreInv' /\ StoreType'
    BY <1>2 DEF StoreOK
  <2>2. O!NeverNegative'
    BY <1>2 DEF StoreOK, StoreType, O!NeverNegative
  <2>3. O!TypeOK'
    BY <1>3, <2>1 DEF O!TypeOK, StoreType, AdapterType
  <2> QED
    BY <2>1, <2>2, <2>3
<1>11. O!BalanceIsLedger'
  <2>1. ASSUME NEW p \in Players
        PROVE  (O!SumFunction([t \in O!Open(p) |-> O!Signed(opLedger[t].kind, opLedger[t].amount)])
                = Moved(p))'
    <3> DEFINE f == [t \in O!Open(p)' |-> O!Signed(opLedger'[t].kind, opLedger'[t].amount)]
    <3>1. DOMAIN f = O!Open(p)'
      OBVIOUS
    <3>2. O!SumFunction(f) = SumFunctionOnSet(f, DOMAIN f)
      BY SameAddition
    <3> QED
      BY <3>1, <3>2 DEF Moved
  <2> QED
    BY <1>2, <2>1 DEF StoreOK, O!BalanceIsLedger
<1> QED
  BY <1>8, <1>9, <1>10, <1>11 DEF WalletInv

\* What the other components do leaves the wallets as they are.
LEMMA WalletStep == ASSUME WalletInv, [DeliveryNext]_deliveryVars PROVE WalletInv'
<1>1. CASE O!Next
  BY <1>1, ServeKeeps DEF O!Next
<1>2. CASE UNCHANGED walletVars
  BY <1>2 DEF walletVars, WalletInv, O!TypeOK, O!BalanceIsLedger, O!NeverNegative, O!WalletsAgree,
     StoreInv, AgreeInv, OnRecord, Reversed, O!Open, O!Signed
<1> QED
  BY <1>1, <1>2 DEF DeliveryNext, deliveryVars, JobsOnly, WalletOnly, HooksOnly

\* The mock operator and the internal adapter, for any requests in any order and number:
\* a balance is the seed and what stands on the ledger, no player owes money, and the two
\* wallets hold the same until a spent win is reversed or a reversed transaction is booked
\* again.
THEOREM WalletsAddUpHolds == DeliverySpec => []WalletsAddUp
<1>1. DeliveryInit => WalletInv
  BY InitWallet DEF DeliveryInit
<1>2. WalletInv /\ [DeliveryNext]_deliveryVars => WalletInv'
  BY WalletStep
<1>3. WalletInv => WalletsAddUp
  BY DEF WalletInv, WalletsAddUp
<1> QED
  BY <1>1, <1>2, <1>3, PTL DEF DeliverySpec
=============================================================================
