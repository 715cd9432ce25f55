------------------------------ MODULE Sessions ------------------------------
(* POST /v1/session with its gates and its idempotency record, and the      *)
(* routes that terminate a session and rotate its seed.  One operator and   *)
(* one game; a session is named by the request that made it, a seed by a    *)
(* number.  A step is the code between two awaits.                          *)
EXTENDS Naturals, FiniteSets

CONSTANTS Requests, UuidOf,  \* session-create requests and their request_uuids
          Routes,            \* terminate and rotate-seed requests
          None,
          MaxLevers, MaxFaults

Uuid(r) == UuidOf[r]
Uuids == {Uuid(r) : r \in Requests}

VARIABLES
    status, off, halt,        \* Operator.status, OperatorGameConfig.killSwitch,
                              \* GlobalKillSwitch (its cache: see EngineControl)
    req,                      \* session-create handlers: step, what they read
    stored,                   \* InboundIdempotency, by uuid
    session,                  \* GameSession by the request that made it
    route,                    \* terminate/rotate handlers between read and write
    events, revealed, seeds,  \* history: webhooks, seeds revealed, seeds drawn
    early, held,              \* requests past the status and the game gate's reads
    crossed, excused,         \* routes that crossed; uuids whose answer was not kept
                              \* or whose requests overlapped
    levers, faults            \* bounds: portal and operator interventions; failures

gates == <<status, off, halt>>
sessionVars == <<gates, req, stored, session, route, events, revealed, seeds, early, held,
                 crossed, excused, levers, faults>>

NoRequest == [pc |-> "idle", status |-> "ACTIVE", answer |-> None]
NoSession == [exists |-> FALSE, terminated |-> FALSE, seed |-> 0]
NoRoute == [kind |-> "none", session |-> None, seed |-> 0]

Init ==
    /\ status = "ACTIVE" /\ off = FALSE /\ halt = FALSE
    /\ req = [r \in Requests |-> NoRequest] /\ stored = [u \in Uuids |-> None]
    /\ session = [r \in Requests |-> NoSession] /\ route = [h \in Routes |-> NoRoute]
    /\ events = [r \in Requests |-> 0] /\ revealed = {} /\ seeds = 0
    /\ early = {} /\ held = {} /\ crossed = {} /\ excused = {}
    /\ levers = 0 /\ faults = 0

InFlight(r) == req[r].pc \notin {"idle", "done"}
Goto(r, pc) == req' = [req EXCEPT ![r].pc = pc]
Answer(r, a) == req' = [req EXCEPT ![r].pc = "done", ![r].answer = a]

-----------------------------------------------------------------------------
(* The levers of the platform portal.                                       *)

\* suspend and reactivate; requests that have authenticated go on with what they read.
Suspend ==
    /\ levers < MaxLevers /\ levers' = levers + 1
    /\ status' = IF status = "ACTIVE" THEN "PAUSED" ELSE "ACTIVE"
    /\ early' = {r \in Requests : InFlight(r)}
    /\ UNCHANGED <<off, halt, req, stored, session, route, events, revealed, seeds, held,
                   crossed, excused, faults>>

\* The kill switch of the game's configuration.
Hold ==
    /\ levers < MaxLevers /\ levers' = levers + 1 /\ off' = ~off
    /\ held' = {r \in Requests : req[r].pc = "open"}
    /\ UNCHANGED <<status, halt, req, stored, session, route, events, revealed, seeds,
                   early, crossed, excused, faults>>

\* The global kill switch.
Halt ==
    /\ levers < MaxLevers /\ levers' = levers + 1 /\ halt' = ~halt
    /\ UNCHANGED <<status, off, req, stored, session, route, events, revealed, seeds, early,
                   held, crossed, excused, faults>>

-----------------------------------------------------------------------------
(* POST /v1/session.                                                        *)

\* operatorAuth reads credential and operator; address, country and rate limit are
\* decided from that row, and turnstile may refuse too.
Authenticate(r) ==
    /\ req[r].pc = "idle"
    /\ req' = [req EXCEPT ![r] = [pc |-> "auth", status |-> status, answer |-> None]]
    /\ excused' = IF \E q \in Requests \ {r} : Uuid(q) = Uuid(r) /\ InFlight(q)
                    THEN excused \cup {Uuid(r)} ELSE excused
    /\ UNCHANGED <<gates, stored, session, route, events, revealed, seeds, early, held, crossed,
                   levers, faults>>

TurnedAway(r) ==
    /\ req[r].pc = "auth" /\ Answer(r, "refused")
    /\ UNCHANGED <<gates, stored, session, route, events, revealed, seeds, early, held, crossed,
                   excused, levers, faults>>

\* Mutant: the record of an answered request is not looked at.
LookupBlindly(r) ==
    /\ req[r].pc = "auth" /\ Goto(r, "new")
    /\ UNCHANGED <<gates, stored, session, route, events, revealed, seeds, early, held, crossed,
                   excused, levers, faults>>

\* idempotency(): an answer on record is given again.
Lookup(r) ==
    /\ req[r].pc = "auth"
    /\ IF stored[Uuid(r)] # None THEN Answer(r, stored[Uuid(r)]) ELSE Goto(r, "new")
    /\ UNCHANGED <<gates, stored, session, route, events, revealed, seeds, early, held, crossed,
                   excused, levers, faults>>

\* Mutant: the status is not looked at.
GateOpen(r) ==
    /\ req[r].pc = "new" /\ IF halt THEN Answer(r, "failed") ELSE Goto(r, "active")
    /\ UNCHANGED <<gates, stored, session, route, events, revealed, seeds, early, held, crossed,
                   excused, levers, faults>>

\* The global halt (503, which is never put on record), then the operator's status as
\* it was when the request authenticated (403, put on record).
Gate(r) ==
    /\ req[r].pc = "new"
    /\ IF halt THEN Answer(r, "failed")
       ELSE Goto(r, IF req[r].status = "ACTIVE" THEN "active" ELSE "refused")
    /\ UNCHANGED <<gates, stored, session, route, events, revealed, seeds, early, held, crossed,
                   excused, levers, faults>>

\* Mutant: the game's kill switch is not looked at.
OpenAnyway(r) ==
    /\ req[r].pc = "active" /\ Goto(r, "open")
    /\ UNCHANGED <<gates, stored, session, route, events, revealed, seeds, early, held, crossed,
                   excused, levers, faults>>

\* Mutant: the refusal is put on record, and outlives the hold.
OpenRecords(r) ==
    /\ req[r].pc = "active"
    /\ IF off THEN Answer(r, "failed") /\ stored' = [stored EXCEPT ![Uuid(r)] = "failed"]
       ELSE Goto(r, "open") /\ UNCHANGED stored
    /\ UNCHANGED <<gates, session, route, events, revealed, seeds, early, held, crossed, excused,
                   levers, faults>>

\* The game's kill switch (503), then the currencies of operator and jurisdiction.
Open(r) ==
    /\ req[r].pc = "active"
    /\ IF off THEN Answer(r, "failed") ELSE Goto(r, "open")
    /\ UNCHANGED <<gates, stored, session, route, events, revealed, seeds, early, held, crossed,
                   excused, levers, faults>>

\* SessionService.create(): the row, with a seed of its own.
Create(r) ==
    /\ req[r].pc = "open" /\ Goto(r, "created") /\ seeds' = seeds + 1
    /\ session' = [session EXCEPT ![r] = [exists |-> TRUE, terminated |-> FALSE, seed |-> seeds + 1]]
    /\ UNCHANGED <<gates, stored, route, events, revealed, early, held, crossed, excused,
                   levers, faults>>

\* The launch token cannot be signed: the session stays, nobody is answered.
SignFails(r) ==
    /\ req[r].pc = "created" /\ faults < MaxFaults /\ faults' = faults + 1
    /\ Answer(r, "failed") /\ excused' = excused \cup {Uuid(r)}
    /\ UNCHANGED <<gates, stored, session, route, events, revealed, seeds, early, held, crossed,
                   levers>>

\* 201 or 403, and the upsert of the record that follows it.
Respond(r) ==
    LET answer == IF req[r].pc = "created" THEN r ELSE "refused" IN
    /\ req[r].pc \in {"created", "refused"} /\ Answer(r, answer)
    /\ stored' = [stored EXCEPT ![Uuid(r)] = answer]
    /\ UNCHANGED <<gates, session, route, events, revealed, seeds, early, held, crossed,
                   excused, levers, faults>>

\* The upsert fails, or the caller hung up before "finish": nothing is on record.
RespondUnkept(r) ==
    /\ req[r].pc \in {"created", "refused"} /\ faults < MaxFaults /\ faults' = faults + 1
    /\ Answer(r, IF req[r].pc = "created" THEN r ELSE "refused")
    /\ excused' = excused \cup {Uuid(r)}
    /\ UNCHANGED <<gates, stored, session, route, events, revealed, seeds, early, held, crossed,
                   levers>>

\* The record is 24 hours old.
Forget(u) ==
    /\ stored[u] # None /\ faults < MaxFaults /\ faults' = faults + 1
    /\ stored' = [stored EXCEPT ![u] = None] /\ excused' = excused \cup {u}
    /\ UNCHANGED <<gates, req, session, route, events, revealed, seeds, early, held, crossed,
                   levers>>

-----------------------------------------------------------------------------
(* POST /:id/terminate and POST /:id/rotate-seed.                           *)

Busy(s) == {h \in Routes : route[h].kind # "none" /\ route[h].session = s}

\* Both read the row; a terminated session is left alone.  So does a bet, which ends a
\* session whose time is up ("trip").
RouteReads(h, s) ==
    /\ route[h] = NoRoute /\ session[s].exists /\ ~session[s].terminated
    /\ levers < MaxLevers /\ levers' = levers + 1
    /\ \E k \in {"terminate", "trip", "rotate"} :
         route' = [route EXCEPT ![h] = [kind |-> k, session |-> s, seed |-> session[s].seed]]
    /\ crossed' = IF Busy(s) = {} THEN crossed ELSE crossed \cup {s}
    /\ UNCHANGED <<gates, req, stored, session, events, revealed, seeds, early, held, excused, faults>>

\* Mutant: the termination is not announced.
TerminateSilently(h) ==
    LET s == route[h].session IN
    /\ route[h].kind \in {"terminate", "trip"} /\ route' = [route EXCEPT ![h] = NoRoute]
    /\ session' = [session EXCEPT ![s].terminated = TRUE]
    /\ UNCHANGED <<gates, req, stored, events, revealed, seeds, early, held, crossed, excused,
                   levers, faults>>

\* The termination, and its webhook: session.terminated, or the tripped limit.
Terminate(h) ==
    LET s == route[h].session IN
    /\ route[h].kind \in {"terminate", "trip"} /\ route' = [route EXCEPT ![h] = NoRoute]
    /\ session' = [session EXCEPT ![s].terminated = TRUE]
    /\ events' = [events EXCEPT ![s] = @ + 1]
    /\ UNCHANGED <<gates, req, stored, revealed, seeds, early, held, crossed, excused, levers,
                   faults>>

\* Mutant: the old seed is dropped without being shown.
RotateHides(h) ==
    LET s == route[h].session IN
    /\ route[h].kind = "rotate" /\ route' = [route EXCEPT ![h] = NoRoute]
    /\ seeds' = seeds + 1 /\ session' = [session EXCEPT ![s].seed = seeds + 1]
    /\ UNCHANGED <<gates, req, stored, events, revealed, early, held, crossed, excused, levers,
                   faults>>

\* A new seed pair is written, and the seed that was read is revealed.
Rotate(h) ==
    LET s == route[h].session IN
    /\ route[h].kind = "rotate" /\ route' = [route EXCEPT ![h] = NoRoute]
    /\ seeds' = seeds + 1 /\ session' = [session EXCEPT ![s].seed = seeds + 1]
    /\ revealed' = revealed \cup {route[h].seed}
    /\ UNCHANGED <<gates, req, stored, events, early, held, crossed, excused, levers, faults>>

Next ==
    \/ Suspend \/ Hold \/ Halt
    \/ \E r \in Requests :
         \/ Authenticate(r) \/ TurnedAway(r) \/ Lookup(r) \/ Gate(r) \/ Open(r) \/ Create(r)
         \/ SignFails(r) \/ Respond(r) \/ RespondUnkept(r)
    \/ \E u \in Uuids : Forget(u)
    \/ \E h \in Routes : Terminate(h) \/ Rotate(h) \/ \E s \in Requests : RouteReads(h, s)

-----------------------------------------------------------------------------
(* Properties.                                                              *)

Answers == Requests \cup {None, "refused", "failed"}
TypeOK ==
    /\ status \in {"ACTIVE", "PAUSED"} /\ off \in BOOLEAN /\ halt \in BOOLEAN
    /\ \A r \in Requests :
         /\ req[r].pc \in {"idle", "auth", "new", "active", "open", "created", "refused", "done"}
         /\ req[r].answer \in Answers /\ session[r].seed \in 0..seeds
         /\ req[r].answer \in Requests => session[req[r].answer].exists
    /\ \A u \in Uuids : stored[u] \in Answers \ {"failed"}
    /\ \A h \in Routes : route[h].kind \in {"none", "terminate", "trip", "rotate"}

\* A request that is sent again makes no second session, unless the two overlapped or
\* the first answer could not be put on record (or is a day old).
OneSessionPerUuid ==
    \A u \in Uuids \ excused :
        Cardinality({r \in Requests : Uuid(r) = u /\ session[r].exists}) <= 1

\* While an operator is suspended a session appears only for a request that was
\* already on its way when the suspension was written.
SuspendStopsLaunches ==
    [][\A r \in Requests :
         session'[r].exists /\ ~session[r].exists /\ status = "PAUSED" => r \in early]_sessionVars

\* ... and while a game is held, only for one that had passed the gate.
HoldStopsLaunches ==
    [][\A r \in Requests :
         session'[r].exists /\ ~session[r].exists /\ off => r \in held]_sessionVars

\* A terminated session was announced to the operator, once if nothing crossed.
TerminationAnnounced ==
    \A s \in Requests :
        /\ session[s].terminated <=> events[s] > 0
        /\ s \notin crossed => events[s] <= 1

\* "Reveals the old serverSeed (so anyone can verify every past round in this
\* session)": a seed in use is never revealed and, unless two routes crossed, every
\* seed that is no longer in use has been.
SeedsAreRevealedInTurn ==
    LET current == {session[s].seed : s \in {r \in Requests : session[r].exists}} IN
    /\ revealed \cap current = {}
    /\ crossed = {} => revealed \cup current = 1..seeds
=============================================================================
