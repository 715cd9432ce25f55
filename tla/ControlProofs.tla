---------------------------- MODULE ControlProofs ---------------------------
(* What decides who may play: engines, their switches and their             *)
(* configuration for any callers, patches, hands and levers; sessions for   *)
(* any requests, uuids and routes; rooms for any finite number of sockets;  *)
(* limits for any bets, and the gates of a jurisdiction.                    *)
EXTENDS MCControl, SumProofs

-----------------------------------------------------------------------------
\* A set whose members are all the same has one at most.
LEMMA AtMostOne ==
  ASSUME NEW T, \A j, k \in T : j = k
  PROVE  Cardinality(T) <= 1
<1>1. CASE T = {}
  BY <1>1, FS_EmptySet
<1>2. CASE T # {}
  <2>1. PICK k \in T : TRUE
    BY <1>2
  <2>2. T = {k}
    BY <2>1
  <2>3. Cardinality(T) = 1
    BY <2>2, FS_Singleton
  <2> QED
    BY <2>3
<1> QED
  BY <1>1, <1>2

-----------------------------------------------------------------------------
(* The sessions.                                                            *)

\* What a handler of a session-create request knows.
LookedUp(r) == req[r].pc \in {"new", "active", "open", "created", "refused"}
Steps == {"idle", "auth", "done"} \cup {"new", "active", "open", "created", "refused"}

SessionType ==
    /\ status \in {"ACTIVE", "PAUSED"} /\ off \in BOOLEAN /\ stopped \in BOOLEAN
    /\ req \in [Requests -> [pc : Steps, status : {"ACTIVE", "PAUSED"}, answer : S!Answers]]
    /\ stored \in [S!Uuids -> S!Answers \ {"failed"}]
    /\ session \in [Requests -> [exists : BOOLEAN, terminated : BOOLEAN, seed : Nat]]
    /\ route \in [Routes -> {S!NoRoute} \cup [kind : {"terminate", "trip", "rotate"},
                                               session : Requests, seed : Nat]]
    /\ events \in [Requests -> Nat] /\ seeds \in Nat

\* An answer names a session that is there.
AnswerInv ==
    /\ \A r \in Requests : req[r].answer \in Requests => session[req[r].answer].exists
    /\ \A u \in S!Uuids : stored[u] \in Requests => session[stored[u]].exists

\* Of the requests with one uuid, one at a time is under way, and what one of them
\* answered is on record; so the next one does not get past the lookup.
LaunchInv ==
    /\ \A r \in Requests :
         /\ session[r].exists => req[r].pc \in {"created", "done"}
         /\ req[r].pc = "created" => session[r].exists
    /\ \A r \in Requests : S!Uuid(r) \notin excused =>
         /\ \A q \in Requests : S!Uuid(q) = S!Uuid(r) /\ S!InFlight(r) /\ S!InFlight(q) => q = r
         /\ LookedUp(r) => stored[S!Uuid(r)] = None
         /\ session[r].exists /\ req[r].pc = "done" => stored[S!Uuid(r)] # None
         /\ \A q \in Requests : S!Uuid(q) = S!Uuid(r) /\ session[r].exists /\ session[q].exists => q = r

\* The operator hears of each end, once unless two routes crossed.
EndInv ==
    \A s \in Requests :
        /\ session[s].terminated <=> events[s] > 0
        /\ session[s].terminated => session[s].exists
        /\ s \notin crossed => events[s] <= 1

UnderWay(h) == route[h].kind # "none"

\* What a route has read is still so, unless another one read it too.
RouteInv ==
    \A h \in Routes : UnderWay(h) =>
        LET s == route[h].session IN
        /\ session[s].exists /\ route[h].seed \in 1..seeds
        /\ \A r \in Requests : session[r].exists /\ session[r].seed = route[h].seed => r = s
        /\ s \notin crossed =>
             /\ ~session[s].terminated /\ session[s].seed = route[h].seed
             /\ \A g \in Routes : UnderWay(g) /\ route[g].session = s => g = h

\* Every seed has been drawn, and has been revealed or is the seed of one session.
SeedInv ==
    /\ revealed \subseteq 1..seeds
    /\ \A r \in Requests : session[r].exists =>
         /\ session[r].seed \in 1..seeds /\ session[r].seed \notin revealed
         /\ \A q \in Requests : session[q].exists /\ session[q].seed = session[r].seed => q = r
    /\ \A r \in Requests : ~session[r].exists => session[r].seed = 0
    /\ crossed = {} =>
         \A i \in 1..seeds : i \in revealed \/ \E r \in Requests : session[r].exists /\ session[r].seed = i

SessionInv ==
    SessionType /\ AnswerInv /\ LaunchInv /\ EndInv /\ RouteInv /\ SeedInv

ReqType == [Requests -> [pc : Steps, status : {"ACTIVE", "PAUSED"}, answer : S!Answers]]

launchVars == <<req, stored, excused>>
endVars == <<session, route, events, revealed, seeds, crossed>>

\* No handler runs, and no session exists.
LEMMA InitSession == Init => SessionInv
<1> SUFFICES ASSUME Init PROVE SessionInv
  OBVIOUS
<1>1. SessionType
  <2>1. req \in ReqType
    BY DEF Init, S!Init, ReqType, Steps, S!Answers, S!NoRequest
  <2>2. session \in [Requests -> [exists : BOOLEAN, terminated : BOOLEAN, seed : Nat]]
    BY DEF Init, S!Init, S!NoSession
  <2>3. stored \in [S!Uuids -> S!Answers \ {"failed"}]
    <3>1. None \in S!Answers \ {"failed"}
      BY RequestAssumption DEF S!Answers
    <3> QED
      BY <3>1 DEF Init, S!Init
  <2> QED
    BY <2>1, <2>2, <2>3 DEF Init, S!Init, SessionType, ReqType
<1>2. AnswerInv /\ LaunchInv
  BY RequestAssumption DEF Init, S!Init, AnswerInv, LaunchInv, LookedUp, S!InFlight,
     S!NoRequest, S!NoSession, S!Uuids
<1>3. EndInv /\ RouteInv /\ SeedInv
  BY DEF Init, S!Init, EndInv, RouteInv, SeedInv, UnderWay, S!NoRoute, S!NoSession
<1> QED
  BY <1>1, <1>2, <1>3 DEF SessionInv

\* A handler goes on, or has its answer.
LEMMA GotoEffect ==
  ASSUME SessionType, NEW r \in Requests, NEW pc \in Steps, S!Goto(r, pc)
  PROVE  /\ req' \in ReqType /\ \A q \in Requests \ {r} : req'[q] = req[q]
         /\ req'[r].pc = pc /\ req'[r].answer = req[r].answer
<1>1. req \in ReqType
  BY DEF SessionType, ReqType
<1>2. req' = [req EXCEPT ![r].pc = pc]
  BY DEF S!Goto
<1> QED
  BY <1>1, <1>2 DEF ReqType

\* Its answer is there.
LEMMA AnswerEffect ==
  ASSUME SessionType, NEW r \in Requests, NEW a \in S!Answers, S!Answer(r, a)
  PROVE  /\ req' \in ReqType /\ \A q \in Requests \ {r} : req'[q] = req[q]
         /\ req'[r].pc = "done" /\ req'[r].answer = a
<1> DEFINE done == [req EXCEPT ![r].pc = "done"]
<1>1. done \in ReqType /\ done[r].pc = "done" /\ \A q \in Requests \ {r} : done[q] = req[q]
  <2>1. req \in ReqType /\ "done" \in Steps
    BY DEF SessionType, ReqType, Steps
  <2> QED
    BY <2>1 DEF ReqType
<1>2. req' = [done EXCEPT ![r].answer = a]
  BY DEF S!Answer
<1> HIDE DEF done
<1> QED
  BY <1>1, <1>2 DEF ReqType

\* The invariants look at a few variables each.
LEMMA LaunchesKept ==
  ASSUME AnswerInv, LaunchInv, UNCHANGED launchVars, 
         \A r \in Requests : session'[r].exists = session[r].exists
  PROVE  AnswerInv' /\ LaunchInv'
  BY DEF AnswerInv, LaunchInv, launchVars, LookedUp, S!InFlight

\* So do those of the routes.
LEMMA EndsKept ==
  ASSUME EndInv, RouteInv, SeedInv, UNCHANGED endVars
  PROVE  EndInv' /\ RouteInv' /\ SeedInv'
  BY DEF EndInv, RouteInv, SeedInv, UnderWay, endVars

\* A handler that goes on keeps the uuids apart, if it passes the lookup only without a
\* record and starts only when it is alone.
LEMMA HandlerMoves ==
  ASSUME SessionType, AnswerInv, LaunchInv, NEW r \in Requests,
         \A q \in Requests \ {r} : req'[q] = req[q],
         UNCHANGED <<session, stored>>, excused \subseteq excused',
         req'[r].answer \in Requests => session[req'[r].answer].exists,
         session[r].exists => req'[r].pc \in {"created", "done"}, req'[r].pc # "created",
         S!Uuid(r) \notin excused' =>
            /\ LookedUp(r)' => LookedUp(r) \/ stored[S!Uuid(r)] = None
            /\ S!InFlight(r)' => \/ S!InFlight(r)
                                 \/ \A q \in Requests \ {r} : S!Uuid(q) = S!Uuid(r) => ~S!InFlight(q)
            /\ session[r].exists /\ req'[r].pc = "done" => 
                  req[r].pc = "done" \/ stored[S!Uuid(r)] # None
  PROVE  AnswerInv' /\ LaunchInv'
<1>1. AnswerInv'
  BY DEF AnswerInv
<1>2. \A q \in Requests : /\ session'[q].exists => req'[q].pc \in {"created", "done"}
                          /\ req'[q].pc = "created" => session'[q].exists
  BY DEF LaunchInv
<1>3. ASSUME NEW p \in Requests, NEW q \in Requests, S!Uuid(p) \notin excused', S!Uuid(q) = S!Uuid(p),
             S!InFlight(p)', S!InFlight(q)'
      PROVE  q = p
  BY <1>3 DEF LaunchInv, S!InFlight
<1>4. ASSUME NEW p \in Requests, S!Uuid(p) \notin excused'
      PROVE  /\ LookedUp(p)' => stored'[S!Uuid(p)] = None
             /\ session'[p].exists /\ req'[p].pc = "done" => stored'[S!Uuid(p)] # None
             /\ \A q \in Requests : S!Uuid(q) = S!Uuid(p) /\ session'[p].exists /\ session'[q].exists => q = p
  BY <1>4 DEF LaunchInv, LookedUp
<1> QED
  BY <1>1, <1>2, <1>3, <1>4 DEF LaunchInv, S!Uuid

\* What moves nothing but handlers leaves the sessions and their routes alone.
LEMMA HandlerKeeps ==
  ASSUME SessionInv, NEW r \in Requests, req' \in ReqType,
         \A q \in Requests \ {r} : req'[q] = req[q],
         UNCHANGED <<status, off, stopped, stored, endVars>>, excused \subseteq excused',
         req'[r].answer \in Requests => session[req'[r].answer].exists,
         session[r].exists => req'[r].pc \in {"created", "done"}, req'[r].pc # "created",
         S!Uuid(r) \notin excused' =>
            /\ LookedUp(r)' => LookedUp(r) \/ stored[S!Uuid(r)] = None
            /\ S!InFlight(r)' => \/ S!InFlight(r)
                                 \/ \A q \in Requests \ {r} : S!Uuid(q) = S!Uuid(r) => ~S!InFlight(q)
            /\ session[r].exists /\ req'[r].pc = "done" =>
                  req[r].pc = "done" \/ stored[S!Uuid(r)] # None
  PROVE  SessionInv'
<1>1. AnswerInv' /\ LaunchInv'
  BY HandlerMoves DEF SessionInv, endVars
<1>2. EndInv' /\ RouteInv' /\ SeedInv'
  BY EndsKept DEF SessionInv
<1>3. SessionType'
  BY DEF SessionInv, SessionType, ReqType, endVars
<1> QED
  BY <1>1, <1>2, <1>3 DEF SessionInv

\* Who comes while another one with the uuid is under way excuses it.
LEMMA AuthenticateInv == ASSUME SessionInv, NEW r \in Requests, S!Authenticate(r) PROVE SessionInv'
<1>1. req' \in ReqType /\ req'[r].pc = "auth" /\ req'[r].answer = None
  BY DEF SessionInv, SessionType, ReqType, Steps, S!Authenticate, S!Answers
<1>2. \A q \in Requests \ {r} : req'[q] = req[q]
  BY DEF SessionInv, SessionType, S!Authenticate
<1>3. ~session[r].exists
  BY DEF SessionInv, LaunchInv, S!Authenticate
<1>4. S!Uuid(r) \notin excused' =>
        \A q \in Requests \ {r} : S!Uuid(q) = S!Uuid(r) => ~S!InFlight(q)
  BY DEF S!Authenticate
<1>5. excused \subseteq excused' /\ UNCHANGED <<status, off, stopped, stored, endVars>>
  BY DEF S!Authenticate, S!gates, endVars
<1> QED
  BY <1>1, <1>2, <1>3, <1>4, <1>5, RequestAssumption, HandlerKeeps DEF LookedUp

\* Refused before the lookup.
LEMMA TurnedAwayInv == ASSUME SessionInv, NEW r \in Requests, S!TurnedAway(r) PROVE SessionInv'
<1>1. "refused" \in S!Answers \ Requests
  BY RequestAssumption DEF S!Answers
<1>2. /\ req' \in ReqType /\ \A q \in Requests \ {r} : req'[q] = req[q]
      /\ req'[r].pc = "done" /\ req'[r].answer = "refused"
  BY <1>1, AnswerEffect DEF S!TurnedAway, SessionInv
<1>3. ~session[r].exists
  BY DEF SessionInv, LaunchInv, S!TurnedAway
<1>4. UNCHANGED <<status, off, stopped, stored, endVars, excused>>
  BY DEF S!TurnedAway, S!gates, endVars
<1> QED
  BY <1>1, <1>2, <1>3, <1>4, HandlerKeeps DEF LookedUp, S!InFlight

\* An answer on record is given again; without one the handler goes on.
LEMMA LookupInv == ASSUME SessionInv, NEW r \in Requests, S!Lookup(r) PROVE SessionInv'
<1>1. stored[S!Uuid(r)] \in S!Answers
  BY DEF SessionInv, SessionType, S!Uuids
<1>2. stored[S!Uuid(r)] \in Requests => session[stored[S!Uuid(r)]].exists
  BY DEF SessionInv, AnswerInv, S!Uuids
<1>3. ~session[r].exists
  BY DEF SessionInv, LaunchInv, S!Lookup
<1>4. UNCHANGED <<status, off, stopped, stored, endVars, excused>>
  BY DEF S!Lookup, S!gates, endVars
<1>5. CASE stored[S!Uuid(r)] # None
  <2>1. /\ req' \in ReqType /\ \A q \in Requests \ {r} : req'[q] = req[q]
        /\ req'[r].pc = "done" /\ req'[r].answer = stored[S!Uuid(r)]
    BY <1>1, <1>5, AnswerEffect DEF S!Lookup, SessionInv
  <2> QED
    BY <1>2, <1>3, <1>4, <2>1, HandlerKeeps DEF LookedUp, S!InFlight
<1>6. CASE stored[S!Uuid(r)] = None
  <2>1. /\ req' \in ReqType /\ \A q \in Requests \ {r} : req'[q] = req[q]
        /\ req'[r].pc = "new" /\ req'[r].answer = req[r].answer
    BY <1>6, GotoEffect DEF S!Lookup, SessionInv, Steps
  <2>2. req'[r].answer \in Requests => session[req'[r].answer].exists
    BY <2>1 DEF SessionInv, AnswerInv
  <2> QED
    BY <1>3, <1>4, <1>6, <2>1, <2>2, HandlerKeeps DEF LookedUp, S!InFlight, S!Lookup
<1> QED
  BY <1>5, <1>6

\* The gates let a handler through, or answer it with what never goes on record.
LEMMA GateInv == ASSUME SessionInv, NEW r \in Requests, S!Gate(r) \/ S!Open(r) PROVE SessionInv'
<1>1. ~session[r].exists /\ LookedUp(r) /\ S!InFlight(r)
  BY DEF SessionInv, LaunchInv, S!Gate, S!Open, LookedUp, S!InFlight
<1>2. UNCHANGED <<status, off, stopped, stored, endVars, excused>>
  BY DEF S!Gate, S!Open, S!gates, endVars
<1>3. ASSUME S!Answer(r, "failed") PROVE SessionInv'
  <2>1. "failed" \in S!Answers \ Requests
    BY RequestAssumption DEF S!Answers
  <2>2. /\ req' \in ReqType /\ \A q \in Requests \ {r} : req'[q] = req[q]
        /\ req'[r].pc = "done" /\ req'[r].answer = "failed"
    BY <1>3, <2>1, AnswerEffect DEF SessionInv
  <2> QED
    BY <1>1, <1>2, <2>1, <2>2, HandlerKeeps DEF LookedUp, S!InFlight
<1>4. ASSUME NEW pc \in {"active", "refused", "open"}, S!Goto(r, pc) PROVE SessionInv'
  <2>1. /\ req' \in ReqType /\ \A q \in Requests \ {r} : req'[q] = req[q]
        /\ req'[r].pc = pc /\ req'[r].answer = req[r].answer
    BY <1>4, GotoEffect DEF SessionInv, Steps
  <2>2. req'[r].answer \in Requests => session[req'[r].answer].exists
    BY <2>1 DEF SessionInv, AnswerInv
  <2> QED
    BY <1>1, <1>2, <2>1, <2>2, HandlerKeeps
<1> QED
  BY <1>3, <1>4 DEF S!Gate, S!Open

\* An answer that does not get on record excuses its uuid.
LEMMA UnkeptInv ==
  ASSUME SessionInv, NEW r \in Requests, S!SignFails(r) \/ S!RespondUnkept(r)
  PROVE  SessionInv'
<1>1. PICK a \in {"failed", "refused", r} : S!Answer(r, a) /\ (a = r => req[r].pc = "created")
  BY RequestAssumption DEF S!SignFails, S!RespondUnkept
<1>2. a \in S!Answers
  BY <1>1 DEF S!Answers
<1>3. /\ req' \in ReqType /\ \A q \in Requests \ {r} : req'[q] = req[q]
      /\ req'[r].pc = "done" /\ req'[r].answer = a
  BY <1>1, <1>2, AnswerEffect DEF SessionInv
<1>4. excused' = excused \cup {S!Uuid(r)} /\ UNCHANGED <<status, off, stopped, stored, endVars>>
  BY DEF S!SignFails, S!RespondUnkept, S!gates, endVars
<1>5. a \in Requests => session[a].exists
  BY <1>1, RequestAssumption DEF SessionInv, LaunchInv
<1>6. S!Uuid(r) \in excused'
  BY <1>4
<1> QED
  BY <1>3, <1>4, <1>5, <1>6, HandlerKeeps

\* A session appears with a seed of its own, for a uuid that has none on record.
LEMMA CreateSessionInv == ASSUME SessionInv, NEW r \in Requests, S!Create(r) PROVE SessionInv'
<1>1. /\ req' \in ReqType /\ \A q \in Requests \ {r} : req'[q] = req[q]
      /\ req'[r].pc = "created" /\ req'[r].answer = req[r].answer
  BY GotoEffect DEF S!Create, SessionInv, Steps
<1>2. /\ session' \in [Requests -> [exists : BOOLEAN, terminated : BOOLEAN, seed : Nat]]
      /\ \A q \in Requests \ {r} : session'[q] = session[q]
      /\ session'[r].exists /\ ~session'[r].terminated /\ session'[r].seed = seeds + 1
      /\ seeds' = seeds + 1 /\ seeds \in Nat
  BY DEF S!Create, SessionInv, SessionType
<1>3. ~session[r].exists /\ S!InFlight(r) /\ LookedUp(r)
  BY DEF SessionInv, LaunchInv, S!Create, S!InFlight, LookedUp
<1>4. UNCHANGED <<status, off, stopped, stored, route, events, revealed, crossed, excused>>
  BY DEF S!Create, S!gates
<1>5. SessionType'
  BY <1>1, <1>2, <1>4 DEF SessionInv, SessionType, ReqType
<1>6. AnswerInv'
  BY <1>1, <1>2, <1>4 DEF SessionInv, AnswerInv
<1>7. LaunchInv'
  <2>1. \A q \in Requests : /\ session'[q].exists => req'[q].pc \in {"created", "done"}
                            /\ req'[q].pc = "created" => session'[q].exists
    BY <1>1, <1>2 DEF SessionInv, LaunchInv
  <2>2. ASSUME NEW p \in Requests, S!Uuid(p) \notin excused', NEW q \in Requests,
               S!Uuid(q) = S!Uuid(p), S!InFlight(p)', S!InFlight(q)'
        PROVE  q = p
    BY <1>1, <1>3, <1>4, <2>2 DEF SessionInv, LaunchInv, S!InFlight
  <2>3. ASSUME NEW p \in Requests, S!Uuid(p) \notin excused'
        PROVE  /\ LookedUp(p)' => stored'[S!Uuid(p)] = None
               /\ session'[p].exists /\ req'[p].pc = "done" => stored'[S!Uuid(p)] # None
    BY <1>1, <1>2, <1>3, <1>4, <2>3 DEF SessionInv, LaunchInv, LookedUp
  <2>4. ASSUME NEW q \in Requests \ {r}, S!Uuid(r) \notin excused, S!Uuid(q) = S!Uuid(r)
        PROVE  ~session[q].exists
    BY <1>3, <2>4 DEF SessionInv, LaunchInv, S!InFlight
  <2>5. ASSUME NEW p \in Requests, S!Uuid(p) \notin excused', NEW q \in Requests,
               S!Uuid(q) = S!Uuid(p), session'[p].exists, session'[q].exists
        PROVE  q = p
    BY <1>2, <1>4, <2>4, <2>5 DEF SessionInv, LaunchInv
  <2> QED
    BY <2>1, <2>2, <2>3, <2>5 DEF LaunchInv, S!Uuid
<1>8. EndInv'
  BY <1>2, <1>3, <1>4 DEF SessionInv, EndInv
<1>9. RouteInv'
  <2>1. ASSUME NEW h \in Routes, UnderWay(h)
        PROVE  /\ route[h].session \in Requests \ {r} /\ route[h].seed \in 1..seeds
               /\ session[route[h].session].exists
    BY <1>3, <2>1 DEF SessionInv, SessionType, RouteInv, UnderWay, S!NoRoute
  <2>2. ASSUME NEW h \in Routes, UnderWay(h), NEW q \in Requests, session'[q].exists,
               session'[q].seed = route[h].seed
        PROVE  q = route[h].session
    BY <1>2, <2>1, <2>2 DEF SessionInv, RouteInv
  <2>3. ASSUME NEW h \in Routes, UnderWay(h), route[h].session \notin crossed
        PROVE  /\ ~session'[route[h].session].terminated
               /\ session'[route[h].session].seed = route[h].seed
               /\ \A g \in Routes : UnderWay(g) /\ route[g].session = route[h].session => g = h
    BY <1>2, <2>1, <2>3 DEF SessionInv, RouteInv
  <2> QED
    BY <1>2, <1>4, <2>1, <2>2, <2>3 DEF RouteInv, UnderWay
<1>10. SeedInv'
  <2>1. ASSUME crossed' = {}, NEW i \in 1..seeds'
        PROVE  i \in revealed' \/ \E q \in Requests : session'[q].exists /\ session'[q].seed = i
    <3>1. CASE i = seeds + 1
      BY <1>2, <3>1
    <3>2. CASE i \in 1..seeds
      BY <1>2, <1>3, <1>4, <2>1, <3>2 DEF SessionInv, SeedInv
    <3> QED
      BY <1>2, <3>1, <3>2
  <2>2. ASSUME NEW p \in Requests, session'[p].exists
        PROVE  /\ session'[p].seed \in 1..seeds' /\ session'[p].seed \notin revealed'
               /\ \A q \in Requests : session'[q].exists /\ session'[q].seed = session'[p].seed => q = p
    BY <1>2, <1>3, <1>4, <2>2 DEF SessionInv, SeedInv
  <2> QED
    BY <1>2, <1>4, <2>1, <2>2 DEF SessionInv, SeedInv
<1> QED
  BY <1>5, <1>6, <1>7, <1>8, <1>9, <1>10 DEF SessionInv

\* The answer goes on record, where the next request with the uuid finds it.
LEMMA RespondInv == ASSUME SessionInv, NEW r \in Requests, S!Respond(r) PROVE SessionInv'
<1>1. PICK a \in {"refused", r} :
        /\ S!Answer(r, a) /\ (a = r => req[r].pc = "created")
        /\ stored' = [stored EXCEPT ![S!Uuid(r)] = a]
  BY RequestAssumption DEF S!Respond
<1>2. a \in S!Answers \ {"failed", None} /\ (a \in Requests => session[a].exists)
  BY <1>1, RequestAssumption DEF S!Answers, SessionInv, LaunchInv
<1>3. /\ req' \in ReqType /\ \A q \in Requests \ {r} : req'[q] = req[q]
      /\ req'[r].pc = "done" /\ req'[r].answer = a
  BY <1>1, <1>2, AnswerEffect DEF SessionInv
<1>4. UNCHANGED <<status, off, stopped, endVars, excused>>
  BY DEF S!Respond, S!gates, endVars
<1>5. S!Uuid(r) \in S!Uuids /\ stored \in [S!Uuids -> S!Answers \ {"failed"}]
  BY DEF SessionInv, SessionType, S!Uuids
<1>6. SessionType'
  <2>1. stored' \in [S!Uuids -> S!Answers \ {"failed"}]
    BY <1>1, <1>2, <1>5
  <2> QED
    BY <1>3, <1>4, <2>1 DEF SessionInv, SessionType, ReqType, endVars
<1>7. AnswerInv'
  BY <1>1, <1>2, <1>3, <1>4, <1>5 DEF SessionInv, AnswerInv, endVars
<1>8. LookedUp(r) /\ S!InFlight(r) /\ session' = session /\ excused' = excused
  BY <1>4 DEF S!Respond, LookedUp, S!InFlight, endVars
<1>9. LaunchInv'
  <2>1. \A q \in Requests : /\ session'[q].exists => req'[q].pc \in {"created", "done"}
                            /\ req'[q].pc = "created" => session'[q].exists
    BY <1>3, <1>8 DEF SessionInv, LaunchInv
  <2>2. ASSUME NEW p \in Requests, S!Uuid(p) \notin excused', NEW q \in Requests,
               S!Uuid(q) = S!Uuid(p)
        PROVE  /\ S!InFlight(p)' /\ S!InFlight(q)' => q = p
               /\ session'[p].exists /\ session'[q].exists => q = p
    BY <1>3, <1>8, <2>2 DEF SessionInv, LaunchInv, S!InFlight
  <2>3. ASSUME NEW p \in Requests, S!Uuid(p) \notin excused', LookedUp(p)'
        PROVE  stored'[S!Uuid(p)] = None
    <3>1. p # r /\ LookedUp(p) /\ S!InFlight(p)
      BY <1>3, <2>3 DEF LookedUp, S!InFlight
    <3>2. S!Uuid(p) # S!Uuid(r)
      BY <1>8, <2>3, <3>1 DEF SessionInv, LaunchInv
    <3> QED
      BY <1>1, <1>5, <1>8, <2>3, <3>1, <3>2 DEF SessionInv, LaunchInv, S!Uuids
  <2>4. ASSUME NEW p \in Requests, S!Uuid(p) \notin excused', session'[p].exists, req'[p].pc = "done"
        PROVE  stored'[S!Uuid(p)] # None
    <3>1. S!Uuid(p) \in S!Uuids
      BY DEF S!Uuids
    <3>2. CASE S!Uuid(p) = S!Uuid(r)
      BY <1>1, <1>2, <1>5, <3>2
    <3>3. CASE S!Uuid(p) # S!Uuid(r)
      BY <1>1, <1>3, <1>5, <1>8, <2>4, <3>1, <3>3 DEF SessionInv, LaunchInv
    <3> QED
      BY <3>2, <3>3
  <2> QED
    BY <2>1, <2>2, <2>3, <2>4 DEF LaunchInv, S!Uuid
<1>10. EndInv' /\ RouteInv' /\ SeedInv'
  BY <1>4, EndsKept DEF SessionInv
<1> QED
  BY <1>6, <1>7, <1>9, <1>10 DEF SessionInv

\* What is a day old is forgotten, and its uuid excused.
LEMMA ForgetInv == ASSUME SessionInv, NEW u \in S!Uuids, S!Forget(u) PROVE SessionInv'
<1>1. /\ stored' = [stored EXCEPT ![u] = None] /\ excused' = excused \cup {u}
      /\ UNCHANGED <<status, off, stopped, req, endVars>>
  BY DEF S!Forget, S!gates, endVars
<1>2. stored \in [S!Uuids -> S!Answers \ {"failed"}] /\ None \in S!Answers \ {"failed"}
  BY RequestAssumption DEF SessionInv, SessionType, S!Answers
<1>3. SessionType'
  BY <1>1, <1>2 DEF SessionInv, SessionType, endVars
<1>4. AnswerInv'
  BY <1>1, <1>2, RequestAssumption DEF SessionInv, AnswerInv, endVars
<1>5. session' = session /\ \A r \in Requests : S!Uuid(r) \in S!Uuids
  BY <1>1 DEF endVars, S!Uuids
<1>6. LaunchInv'
  BY <1>1, <1>2, <1>5 DEF SessionInv, LaunchInv, LookedUp, S!InFlight
<1>7. EndInv' /\ RouteInv' /\ SeedInv'
  BY <1>1, EndsKept DEF SessionInv
<1> QED
  BY <1>3, <1>4, <1>6, <1>7 DEF SessionInv

\* The levers touch no request and no session.
LEMMA LeverInv == ASSUME SessionInv, S!Suspend \/ S!Hold \/ S!Halt PROVE SessionInv'
<1>1. UNCHANGED <<launchVars, endVars>>
  BY DEF S!Suspend, S!Hold, S!Halt, launchVars, endVars
<1>2. session' = session
  BY <1>1 DEF endVars
<1>3. AnswerInv' /\ LaunchInv'
  BY <1>1, <1>2, LaunchesKept DEF SessionInv
<1>4. EndInv' /\ RouteInv' /\ SeedInv'
  BY <1>1, EndsKept DEF SessionInv
<1>5. SessionType'
  BY <1>1 DEF SessionInv, SessionType, launchVars, endVars, S!Suspend, S!Hold, S!Halt
<1> QED
  BY <1>3, <1>4, <1>5 DEF SessionInv

RouteRecords == [kind : {"terminate", "trip", "rotate"}, session : Requests, seed : Nat]

\* A route reads a session that lives; a second one crosses the first.
LEMMA RouteReadsInv ==
  ASSUME SessionInv, NEW h \in Routes, NEW s \in Requests, S!RouteReads(h, s)
  PROVE  SessionInv'
<1>1. PICK k \in {"terminate", "trip", "rotate"} :
        route' = [route EXCEPT ![h] = [kind |-> k, session |-> s, seed |-> session[s].seed]]
  BY DEF S!RouteReads
<1>2. /\ UNCHANGED <<launchVars, session, events, revealed, seeds, status, off, stopped>>
      /\ session[s].exists /\ ~session[s].terminated /\ session[s].seed \in Nat /\ ~UnderWay(h)
  BY DEF S!RouteReads, S!gates, launchVars, S!NoRoute, UnderWay, SessionInv, SessionType
<1>3. /\ crossed \subseteq crossed' /\ crossed' \subseteq crossed \cup {s}
      /\ s \notin crossed' => \A g \in Routes : ~(UnderWay(g) /\ route[g].session = s)
  BY DEF S!RouteReads, S!Busy, UnderWay
<1>4. route \in [Routes -> {S!NoRoute} \cup RouteRecords]
  BY DEF SessionInv, SessionType, RouteRecords
<1>5. /\ route' \in [Routes -> {S!NoRoute} \cup RouteRecords]
      /\ \A g \in Routes \ {h} : route'[g] = route[g]
      /\ route'[h].kind # "none" /\ route'[h].session = s /\ route'[h].seed = session[s].seed
  <2>1. [kind |-> k, session |-> s, seed |-> session[s].seed] \in RouteRecords
    BY <1>2 DEF RouteRecords
  <2> QED
    BY <1>1, <1>4, <2>1
<1>6. SessionType'
  BY <1>2, <1>5 DEF SessionInv, SessionType, RouteRecords, launchVars
<1>7. AnswerInv' /\ LaunchInv'
  BY <1>2, LaunchesKept DEF SessionInv
<1>8. EndInv'
  BY <1>2, <1>3 DEF SessionInv, EndInv
<1>9. RouteInv'
  <2>1. ASSUME NEW g \in Routes \ {h}, UnderWay(g)'
        PROVE  /\ UnderWay(g) /\ route'[g].session \in Requests /\ route'[g].session = route[g].session
               /\ route'[g].seed = route[g].seed
               /\ route'[g].session \notin crossed' =>
                    route'[g].session # s /\ route'[g].session \notin crossed
    BY <1>3, <1>4, <1>5, <2>1 DEF UnderWay, S!NoRoute, RouteRecords
  <2>2. ASSUME NEW g \in Routes \ {h}, UnderWay(g)'
        PROVE  /\ session'[route'[g].session].exists /\ route'[g].seed \in 1..seeds'
               /\ \A r \in Requests : session'[r].exists /\ session'[r].seed = route'[g].seed
                                        => r = route'[g].session
               /\ route'[g].session \notin crossed' =>
                    /\ ~session'[route'[g].session].terminated
                    /\ session'[route'[g].session].seed = route'[g].seed
                    /\ \A i \in Routes : UnderWay(i)' /\ route'[i].session = route'[g].session => i = g
    BY <1>2, <1>5, <2>1, <2>2 DEF SessionInv, RouteInv, UnderWay
  <2>3. /\ session'[s].exists /\ route'[h].seed \in 1..seeds'
        /\ \A r \in Requests : session'[r].exists /\ session'[r].seed = route'[h].seed => r = s
        /\ s \notin crossed' =>
             /\ ~session'[s].terminated /\ session'[s].seed = route'[h].seed
             /\ \A i \in Routes : UnderWay(i)' /\ route'[i].session = s => i = h
    BY <1>2, <1>3, <1>5 DEF SessionInv, SeedInv, UnderWay
  <2> QED
    BY <1>5, <2>2, <2>3 DEF RouteInv
<1>10. SeedInv'
  <2>1. crossed' = {} => crossed = {}
    BY <1>3
  <2> QED
    BY <1>2, <2>1 DEF SessionInv, SeedInv
<1> QED
  BY <1>6, <1>7, <1>8, <1>9, <1>10 DEF SessionInv

\* A route that ends leaves the others as they were.
LEMMA RouteEnds ==
  ASSUME SessionInv, NEW h \in Routes, UnderWay(h), route' = [route EXCEPT ![h] = S!NoRoute]
  PROVE  /\ route' \in [Routes -> {S!NoRoute} \cup RouteRecords]
         /\ \A g \in Routes : UnderWay(g)' =>
              UnderWay(g) /\ g # h /\ route'[g] = route[g] /\ route[g].session \in Requests
         /\ route[h].session \in Requests /\ session[route[h].session].exists
         /\ route[h].seed \in 1..seeds
<1>1. route \in [Routes -> {S!NoRoute} \cup RouteRecords]
  BY DEF SessionInv, SessionType, RouteRecords
<1>2. \A g \in Routes : UnderWay(g) => route[g] \in RouteRecords
  BY <1>1 DEF UnderWay, S!NoRoute
<1> QED
  BY <1>1, <1>2 DEF UnderWay, S!NoRoute, RouteRecords, SessionInv, RouteInv

\* A session ends, and the operator is told.
LEMMA TerminateInv == ASSUME SessionInv, NEW h \in Routes, S!Terminate(h) PROVE SessionInv'
<1> DEFINE s == route[h].session
<1>1. /\ UnderWay(h) /\ route' = [route EXCEPT ![h] = S!NoRoute]
      /\ UNCHANGED <<launchVars, revealed, seeds, crossed, status, off, stopped>>
  BY DEF S!Terminate, S!gates, launchVars, UnderWay
<1>2. /\ route' \in [Routes -> {S!NoRoute} \cup RouteRecords]
      /\ \A g \in Routes : UnderWay(g)' =>
           UnderWay(g) /\ g # h /\ route'[g] = route[g] /\ route[g].session \in Requests
      /\ s \in Requests /\ session[s].exists
  BY <1>1, RouteEnds
<1>3. /\ session' \in [Requests -> [exists : BOOLEAN, terminated : BOOLEAN, seed : Nat]]
      /\ \A q \in Requests \ {s} : session'[q] = session[q] /\ events'[q] = events[q]
      /\ session'[s].terminated /\ session'[s].exists /\ session'[s].seed = session[s].seed
      /\ events' \in [Requests -> Nat] /\ events'[s] = events[s] + 1 /\ events[s] \in Nat
  <2>1. session' = [session EXCEPT ![s].terminated = TRUE] /\ events' = [events EXCEPT ![s] = @ + 1]
    BY DEF S!Terminate
  <2>2. /\ session \in [Requests -> [exists : BOOLEAN, terminated : BOOLEAN, seed : Nat]]
        /\ events \in [Requests -> Nat]
    BY DEF SessionInv, SessionType
  <2> HIDE DEF s
  <2>3. /\ events' \in [Requests -> Nat] /\ events'[s] = events[s] + 1 /\ events[s] \in Nat
        /\ \A q \in Requests \ {s} : events'[q] = events[q]
    BY <1>2, <2>1, <2>2
  <2>4. /\ session' \in [Requests -> [exists : BOOLEAN, terminated : BOOLEAN, seed : Nat]]
        /\ \A q \in Requests \ {s} : session'[q] = session[q]
        /\ session'[s].terminated /\ session'[s].exists /\ session'[s].seed = session[s].seed
    BY <1>2, <2>1, <2>2
  <2> QED
    BY <2>3, <2>4
<1> HIDE DEF s
<1>4. SessionType'
  BY <1>1, <1>2, <1>3 DEF SessionInv, SessionType, RouteRecords, launchVars
<1>5. AnswerInv' /\ LaunchInv'
  BY <1>1, <1>2, <1>3, LaunchesKept DEF SessionInv
<1>6. EndInv'
  <2>1. s \notin crossed => events[s] = 0
    BY <1>1, <1>2, <1>3 DEF SessionInv, RouteInv, EndInv, s
  <2> QED
    BY <1>1, <1>2, <1>3, <2>1 DEF SessionInv, EndInv
<1>7. RouteInv'
  <2>1. ASSUME NEW g \in Routes, UnderWay(g)'
        PROVE  route[g].session \notin crossed => route[g].session # s
    BY <1>1, <1>2, <2>1 DEF SessionInv, RouteInv, s
  <2>2. ASSUME NEW g \in Routes, UnderWay(g)'
        PROVE  /\ session'[route'[g].session].exists /\ route'[g].seed \in 1..seeds'
               /\ \A r \in Requests : session'[r].exists /\ session'[r].seed = route'[g].seed
                                        => r = route'[g].session
               /\ route'[g].session \notin crossed' =>
                    /\ ~session'[route'[g].session].terminated
                    /\ session'[route'[g].session].seed = route'[g].seed
                    /\ \A i \in Routes : UnderWay(i)' /\ route'[i].session = route'[g].session => i = g
    BY <1>1, <1>2, <1>3, <2>1, <2>2 DEF SessionInv, RouteInv
  <2> QED
    BY <2>2 DEF RouteInv
<1>8. SeedInv'
  BY <1>1, <1>2, <1>3 DEF SessionInv, SeedInv
<1> QED
  BY Zenon, <1>4, <1>5, <1>6, <1>7, <1>8 DEF SessionInv

\* A seed goes out of use and is shown; what comes after it has never been seen.
LEMMA RotateInv == ASSUME SessionInv, NEW h \in Routes, S!Rotate(h) PROVE SessionInv'
<1> DEFINE s == route[h].session
<1>1. /\ UnderWay(h) /\ route' = [route EXCEPT ![h] = S!NoRoute]
      /\ UNCHANGED <<launchVars, events, crossed, status, off, stopped>>
  BY DEF S!Rotate, S!gates, launchVars, UnderWay
<1>2. /\ route' \in [Routes -> {S!NoRoute} \cup RouteRecords]
      /\ \A g \in Routes : UnderWay(g)' =>
           UnderWay(g) /\ g # h /\ route'[g] = route[g] /\ route[g].session \in Requests
      /\ s \in Requests /\ session[s].exists /\ route[h].seed \in 1..seeds
  BY <1>1, RouteEnds
<1>3. /\ session' \in [Requests -> [exists : BOOLEAN, terminated : BOOLEAN, seed : Nat]]
      /\ \A q \in Requests \ {s} : session'[q] = session[q]
      /\ session'[s].terminated = session[s].terminated /\ session'[s].exists
      /\ session'[s].seed = seeds + 1 /\ seeds' = seeds + 1 /\ seeds \in Nat
      /\ revealed' = revealed \cup {route[h].seed}
  <2>1. /\ session' = [session EXCEPT ![s].seed = seeds + 1] /\ seeds' = seeds + 1
        /\ revealed' = revealed \cup {route[h].seed}
    BY DEF S!Rotate
  <2>2. /\ session \in [Requests -> [exists : BOOLEAN, terminated : BOOLEAN, seed : Nat]]
        /\ seeds \in Nat
    BY DEF SessionInv, SessionType
  <2> HIDE DEF s
  <2>3. session' \in [Requests -> [exists : BOOLEAN, terminated : BOOLEAN, seed : Nat]]
    BY <1>2, <2>1, <2>2
  <2>4. \A q \in Requests \ {s} : session'[q] = session[q]
    BY <1>2, <2>1, <2>2
  <2>5. session'[s].exists /\ session'[s].seed = seeds + 1
    BY <1>2, <2>1, <2>2
  <2>6. session'[s].terminated = session[s].terminated
    BY <1>2, <2>1, <2>2
  <2> QED
    BY <1>2, <2>1, <2>2, <2>3, <2>4, <2>5, <2>6
<1>4. \A r \in Requests : session[r].exists /\ session[r].seed = route[h].seed => r = s
  BY <1>1 DEF SessionInv, RouteInv, s
<1>5. s \notin crossed =>
        /\ session[s].seed = route[h].seed
        /\ \A g \in Routes : UnderWay(g) /\ route[g].session = s => g = h
  BY <1>1, <1>2 DEF SessionInv, RouteInv, s
<1> HIDE DEF s
<1>6. SessionType'
  BY <1>1, <1>2, <1>3 DEF SessionInv, SessionType, RouteRecords, launchVars
<1>7. AnswerInv' /\ LaunchInv'
  BY <1>1, <1>2, <1>3, LaunchesKept DEF SessionInv
<1>8. EndInv'
  BY <1>1, <1>2, <1>3 DEF SessionInv, EndInv
<1>9. RouteInv'
  <2>1. ASSUME NEW g \in Routes, UnderWay(g)'
        PROVE  route[g].session \notin crossed => route[g].session # s
    BY <1>2, <1>5, <2>1
  <2>2. ASSUME NEW g \in Routes, UnderWay(g)'
        PROVE  /\ session'[route'[g].session].exists /\ route'[g].seed \in 1..seeds'
               /\ \A r \in Requests : session'[r].exists /\ session'[r].seed = route'[g].seed
                                        => r = route'[g].session
               /\ route'[g].session \notin crossed' =>
                    /\ ~session'[route'[g].session].terminated
                    /\ session'[route'[g].session].seed = route'[g].seed
                    /\ \A i \in Routes : UnderWay(i)' /\ route'[i].session = route'[g].session => i = g
    BY <1>1, <1>2, <1>3, <2>1, <2>2 DEF SessionInv, RouteInv
  <2> QED
    BY <2>2 DEF RouteInv
<1>10. SeedInv'
  <2>1. ASSUME crossed' = {}, NEW i \in 1..seeds'
        PROVE  i \in revealed' \/ \E q \in Requests : session'[q].exists /\ session'[q].seed = i
    <3>1. CASE i = seeds + 1
      BY <1>2, <1>3, <3>1
    <3>2. CASE i \in 1..seeds
      BY <1>1, <1>2, <1>3, <1>5, <2>1, <3>2 DEF SessionInv, SeedInv
    <3> QED
      BY <1>3, <2>1, <3>1, <3>2
  <2>2. ASSUME NEW p \in Requests, session'[p].exists
        PROVE  /\ session'[p].seed \in 1..seeds' /\ session'[p].seed \notin revealed'
               /\ \A q \in Requests : session'[q].exists /\ session'[q].seed = session'[p].seed => q = p
    BY <1>2, <1>3, <1>4, <2>2 DEF SessionInv, SeedInv
  <2>3. revealed' \subseteq 1..seeds'
    <3>1. revealed \subseteq 1..seeds /\ 1..seeds \subseteq 1..seeds'
      BY <1>3 DEF SessionInv, SeedInv
    <3> QED
      BY <1>2, <1>3, <3>1
  <2>4. \A p \in Requests : ~session'[p].exists => session'[p].seed = 0
    BY <1>3 DEF SessionInv, SeedInv
  <2> QED
    BY <2>1, <2>2, <2>3, <2>4 DEF SeedInv
<1> QED
  BY <1>6, <1>7, <1>8, <1>9, <1>10 DEF SessionInv

\* Whatever the sessions do, and whatever happens beside them.
LEMMA SessionStep == ASSUME SessionInv, [Next]_allVars PROVE SessionInv'
<1>1. CASE UNCHANGED sessionVars
  <2>1. UNCHANGED <<launchVars, endVars, status, off, stopped>>
    BY <1>1 DEF sessionVars, launchVars, endVars
  <2>2. session' = session
    BY <2>1 DEF endVars
  <2>3. AnswerInv' /\ LaunchInv' /\ EndInv' /\ RouteInv' /\ SeedInv'
    BY <2>1, <2>2, LaunchesKept, EndsKept DEF SessionInv
  <2> QED
    BY <2>1, <2>3 DEF SessionInv, SessionType, launchVars, endVars
<1>2. CASE S!Next
  BY <1>2, LeverInv, AuthenticateInv, TurnedAwayInv, LookupInv, GateInv, CreateSessionInv, UnkeptInv,
     RespondInv, ForgetInv, TerminateInv, RotateInv, RouteReadsInv DEF S!Next
<1> QED
  BY <1>1, <1>2 DEF Next, allVars, EnginesOnly, SessionsOnly, SocketsOnly, LimitsOnly

\* A set whose members are all the same has one at most.
LEMMA OneAtMost ==
  ASSUME NEW T, \A j, k \in T : j = k
  PROVE  S!Cardinality(T) <= 1
<1>1. S!Cardinality(T) = Cardinality(T)
  BY DEF S!Cardinality, Cardinality
<1> QED
  BY <1>1, AtMostOne

\* POST /v1/session and the routes of a session: one session for a request that is sent
\* again, its end told once, each seed revealed when, and only when, it is out of use.
THEOREM SessionsAreAccountedHolds == Spec => []SessionsAreAccounted
<1>1. SessionInv => S!TypeOK
  BY DEF SessionInv, SessionType, AnswerInv, SeedInv, S!TypeOK, Steps, S!NoRoute
<1>2. ASSUME SessionInv PROVE S!OneSessionPerUuid
  <2>1. ASSUME NEW u \in S!Uuids \ excused
        PROVE  S!Cardinality({r \in Requests : S!Uuid(r) = u /\ session[r].exists}) <= 1
    BY <1>2, OneAtMost DEF SessionInv, LaunchInv
  <2> QED
    BY <2>1 DEF S!OneSessionPerUuid
<1>3. SessionInv => S!TerminationAnnounced
  BY DEF SessionInv, EndInv, S!TerminationAnnounced
<1>4. ASSUME SessionInv PROVE S!SeedsAreRevealedInTurn
  <2> DEFINE current == {session[s].seed : s \in {r \in Requests : session[r].exists}}
  <2>1. ASSUME NEW i \in current PROVE i \notin revealed /\ i \in 1..seeds
    BY <1>4 DEF SessionInv, SeedInv
  <2>2. ASSUME crossed = {}, NEW i \in 1..seeds PROVE i \in revealed \cup current
    <3>1. CASE i \in revealed
      BY <3>1
    <3>2. ASSUME NEW r \in Requests, session[r].exists, session[r].seed = i PROVE i \in current
      BY <3>2
    <3> QED
      BY <1>4, <2>2, <3>1, <3>2 DEF SessionInv, SeedInv
  <2>3. revealed \subseteq 1..seeds
    BY <1>4 DEF SessionInv, SeedInv
  <2> HIDE DEF current
  <2>4. revealed \cap current = {} /\ (crossed = {} => revealed \cup current = 1..seeds)
    BY <2>1, <2>2, <2>3
  <2> QED
    BY <2>4 DEF S!SeedsAreRevealedInTurn, current
<1>5. SessionInv => SessionsAreAccounted
  BY <1>1, <1>2, <1>3, <1>4 DEF SessionsAreAccounted
<1> QED
  BY <1>5, InitSession, SessionStep, PTL DEF Spec

-----------------------------------------------------------------------------
(* The sockets of a room.                                                   *)

SocketSteps == {"out", "waiting", "left", "joined", "gone"}
Links == [pc : SocketSteps, seat : Seats \cup {Nobody}]

SocketType ==
    /\ ended \subseteq Seats /\ leaked \subseteq Sockets
    /\ link \in [Sockets -> Links]
    /\ presence \in [Seats -> Nat]
    /\ fetch \in [Sockets -> [pc : {"none", "asking", "pausing"}, attempt : 0..MaxAttempts]]
    /\ told \in [Sockets -> {"nothing", "balance", "unavailable"}]

\* A socket on its way has a seat, one that leaked is gone, and a pause has an attempt left.
SeatInv ==
    \A k \in Sockets :
        /\ link[k].pc \in {"waiting", "left", "joined"} => link[k].seat \in Seats
        /\ k \in leaked => link[k].pc = "gone"
        /\ fetch[k].pc = "pausing" => fetch[k].attempt < MaxAttempts

\* The sockets that a room counts for a session.
Counted(s) == {k \in Sockets : link[k].seat = s /\ (link[k].pc = "joined" \/ k \in leaked)}
SeatCounts == \A s \in Seats : presence[s] = Cardinality(Counted(s))
RoomShown == shown = Cardinality(K!Present)

SocketInv == SocketType /\ SeatInv /\ SeatCounts /\ RoomShown

\* Cardinality is that of the module of finite sets.
LEMMA SameCardinality == ASSUME NEW T PROVE K!Cardinality(T) = Cardinality(T)
  BY DEF K!Cardinality, Cardinality

\* No socket is there.
LEMMA InitSocket == Init => SocketInv
<1> SUFFICES ASSUME Init PROVE SocketInv
  OBVIOUS
<1>1. SocketType
  BY SocketAssumption DEF Init, K!Init, SocketType, Links, SocketSteps, K!Out, K!Quiet
<1>2. SeatInv
  BY DEF Init, K!Init, SeatInv, K!Out, K!Quiet
<1>3. SeatCounts
  <2>1. ASSUME NEW s \in Seats PROVE Counted(s) = {}
    BY DEF Init, K!Init, Counted, K!Out
  <2> QED
    BY <2>1, FS_EmptySet DEF Init, K!Init, SeatCounts
<1>4. RoomShown
  <2>1. K!Present = {}
    BY DEF Init, K!Init, K!Present
  <2> QED
    BY <2>1, FS_EmptySet DEF Init, K!Init, RoomShown
<1> QED
  BY <1>1, <1>2, <1>3, <1>4 DEF SocketInv

\* What leaves the counted sockets as they are leaves the counts true.
LEMMA CountsKept ==
  ASSUME SeatCounts, RoomShown, UNCHANGED <<presence, shown>>,
         \A s \in Seats : Counted(s)' = Counted(s)
  PROVE  SeatCounts' /\ RoomShown'
  BY DEF SeatCounts, RoomShown, K!Present

\* The sockets counted are finitely many.
LEMMA CountedFinite ==
  ASSUME NEW s
  PROVE  IsFiniteSet(Counted(s)) /\ Cardinality(Counted(s)) <= Cardinality(Sockets)
  BY SocketAssumption, FS_Subset DEF Counted

\* A socket that is not counted moves, and is not counted afterwards.
LEMMA QuietMoves ==
  ASSUME SocketInv, UNCHANGED <<leaked, presence, shown>>, NEW k \in Sockets, k \notin leaked,
         link[k].pc # "joined", link'[k].pc # "joined", \A i \in Sockets \ {k} : link'[i] = link[i]
  PROVE  SeatCounts' /\ RoomShown'
<1>1. \A s \in Seats : Counted(s)' = Counted(s)
  BY DEF Counted
<1> QED
  BY <1>1, CountsKept DEF SocketInv

\* Handshakes, early leaves and reconnections.
LEMMA LinkInv ==
  ASSUME SocketInv, NEW k \in Sockets,
         \/ K!NoEngine(k) \/ K!LeavesEarly(k) \/ K!Reconnect(k)
         \/ \E s \in Seats : K!Handshake(k, s)
  PROVE  SocketInv'
<1>1. UNCHANGED <<ended, presence, shown, fetch, leaked>>
  BY DEF K!NoEngine, K!LeavesEarly, K!Reconnect, K!Handshake
<1> DEFINE Moved == /\ link' \in [Sockets -> Links]
                    /\ \A i \in Sockets \ {k} : link'[i] = link[i]
                    /\ link'[k].pc \in {"waiting", "left"} => link'[k].seat \in Seats
                    /\ link[k].pc # "joined" /\ link'[k].pc # "joined"
                    /\ told' \in [Sockets -> {"nothing", "balance", "unavailable"}]
<1>2. Moved
  <2>1. CASE K!NoEngine(k)
    BY <2>1 DEF K!NoEngine, SocketInv, SocketType, Links, SocketSteps
  <2>2. CASE K!LeavesEarly(k)
    BY <2>2 DEF K!LeavesEarly, SocketInv, SocketType, SeatInv, Links, SocketSteps
  <2>3. CASE K!Reconnect(k)
    BY <2>3 DEF K!Reconnect, SocketInv, SocketType, Links, SocketSteps, K!Out
  <2>4. ASSUME NEW s \in Seats, K!Handshake(k, s) PROVE Moved
    BY <2>4 DEF K!Handshake, SocketInv, SocketType, Links, SocketSteps, K!Out
  <2> QED
    BY <2>1, <2>2, <2>3, <2>4
<1>3. k \notin leaked
  BY DEF SocketInv, SeatInv, K!NoEngine, K!LeavesEarly, K!Reconnect, K!Handshake, K!Out
<1>4. SocketType' /\ SeatInv'
  BY <1>1, <1>2, <1>3 DEF SocketInv, SocketType, SeatInv
<1>5. SeatCounts' /\ RoomShown'
  BY <1>1, <1>2, <1>3, QuietMoves
<1> QED
  BY <1>4, <1>5 DEF SocketInv

\* A session ends; a balance comes, is asked for again or is given up.
LEMMA BesidesInv ==
  ASSUME SocketInv,
         \/ \E s \in Seats : K!End(s)
         \/ \E k \in Sockets : K!Balance(k) \/ K!Again(k)
  PROVE  SocketInv'
<1>1. UNCHANGED <<link, presence, shown, leaked>>
  BY DEF K!End, K!Balance, K!Again
<1>2. SeatCounts' /\ RoomShown'
  BY <1>1, CountsKept DEF SocketInv, Counted
<1>3. CASE \E s \in Seats : K!End(s)
  BY <1>1, <1>2, <1>3 DEF K!End, SocketInv, SocketType, SeatInv
<1>4. ASSUME NEW k \in Sockets, K!Balance(k) PROVE SocketType' /\ SeatInv'
  <2>1. fetch[k] \in [pc : {"none", "asking", "pausing"}, attempt : 0..MaxAttempts]
    BY DEF SocketInv, SocketType
  <2>2. PICK r \in {"balance", "retry", "unavailable"} :
          \/ /\ fetch[k].attempt < MaxAttempts /\ told' = told
             /\ fetch' = [fetch EXCEPT ![k].pc = "pausing"]
          \/ /\ fetch' = [fetch EXCEPT ![k] = K!Quiet]
             /\ told' = IF ~K!Connected(k) THEN told
                        ELSE [told EXCEPT ![k] = IF r = "retry" THEN "unavailable" ELSE r]
    BY <1>4 DEF K!Balance
  <2>3. /\ fetch' \in [Sockets -> [pc : {"none", "asking", "pausing"}, attempt : 0..MaxAttempts]]
        /\ \A i \in Sockets : fetch'[i].pc = "pausing" => fetch'[i].attempt < MaxAttempts
    <3>1. CASE fetch[k].attempt < MaxAttempts /\ fetch' = [fetch EXCEPT ![k].pc = "pausing"]
      BY <2>1, <3>1 DEF SocketInv, SocketType, SeatInv
    <3>2. CASE fetch' = [fetch EXCEPT ![k] = K!Quiet]
      <4>1. K!Quiet \in [pc : {"none", "asking", "pausing"}, attempt : 0..MaxAttempts]
        BY SocketAssumption DEF K!Quiet
      <4> QED
        BY <3>2, <4>1 DEF SocketInv, SocketType, SeatInv, K!Quiet
    <3> QED
      BY <2>2, <3>1, <3>2
  <2>4. told' \in [Sockets -> {"nothing", "balance", "unavailable"}]
    BY <2>2 DEF SocketInv, SocketType
  <2> QED
    BY <1>1, <1>4, <2>3, <2>4 DEF SocketInv, SocketType, SeatInv, K!Balance
<1>5. ASSUME NEW k \in Sockets, K!Again(k) PROVE SocketType' /\ SeatInv'
  <2>1. fetch[k].attempt \in 0..MaxAttempts /\ fetch[k].attempt < MaxAttempts
    BY <1>5 DEF SocketInv, SocketType, SeatInv, K!Again
  <2>2. /\ fetch' \in [Sockets -> [pc : {"none", "asking", "pausing"}, attempt : 0..MaxAttempts]]
        /\ \A i \in Sockets : fetch'[i].pc = "pausing" => fetch'[i].attempt < MaxAttempts
    BY <1>5, <2>1, SocketAssumption DEF SocketInv, SocketType, SeatInv, K!Quiet, K!Again
  <2> QED
    BY <1>1, <1>5, <2>2 DEF SocketInv, SocketType, SeatInv, K!Again
<1> QED
  BY <1>2, <1>3, <1>4, <1>5 DEF SocketInv

\* A socket is counted, be it that it has left.
LEMMA JoinInv == ASSUME SocketInv, NEW k \in Sockets, K!Join(k) PROVE SocketInv'
<1>1. PICK s \in Seats : s = link[k].seat /\ k \notin leaked /\ link[k].pc # "joined"
  BY DEF SocketInv, SeatInv, K!Join
<1>2. /\ link' \in [Sockets -> Links] /\ \A i \in Sockets \ {k} : link'[i] = link[i]
      /\ link'[k].seat = s
      /\ \/ link'[k].pc = "gone" /\ leaked' = leaked \cup {k}
         \/ link'[k].pc = "joined" /\ leaked' = leaked
  BY <1>1 DEF K!Join, SocketInv, SocketType, Links, SocketSteps
<1>3. /\ fetch' \in [Sockets -> [pc : {"none", "asking", "pausing"}, attempt : 0..MaxAttempts]]
      /\ \A i \in Sockets : fetch'[i].pc = "pausing" => fetch'[i].attempt < MaxAttempts
  BY SocketAssumption DEF K!Join, SocketInv, SocketType, SeatInv
<1>4. /\ presence' = [presence EXCEPT ![s] = @ + 1] /\ shown' = K!Cardinality(K!Present \cup {s})
      /\ UNCHANGED <<ended, told>>
  BY <1>1 DEF K!Join
<1>5. SocketType' /\ SeatInv'
  BY <1>1, <1>2, <1>3, <1>4 DEF SocketInv, SocketType, SeatInv
<1>6. SeatCounts'
  <2>1. Counted(s)' = Counted(s) \cup {k} /\ k \notin Counted(s)
    BY <1>1, <1>2 DEF Counted
  <2>2. ASSUME NEW i \in Seats \ {s} PROVE Counted(i)' = Counted(i)
    BY <1>1, <1>2, <2>2 DEF Counted
  <2>3. Cardinality(Counted(s)') = Cardinality(Counted(s)) + 1
    BY <2>1, CountedFinite, FS_AddElement
  <2>4. \A i \in Seats : presence'[i] = Cardinality(Counted(i)')
    BY <1>1, <1>4, <2>2, <2>3 DEF SocketInv, SocketType, SeatCounts
  <2> QED
    BY <2>4 DEF SeatCounts
<1>7. RoomShown'
  <2>1. K!Present' = K!Present \cup {s}
    BY <1>1, <1>4 DEF K!Present, SocketInv, SocketType
  <2> QED
    BY <1>4, <2>1, SameCardinality DEF RoomShown
<1> QED
  BY <1>5, <1>6, <1>7 DEF SocketInv

\* A socket is counted no longer.
LEMMA DisconnectInv == ASSUME SocketInv, NEW k \in Sockets, K!Disconnect(k) PROVE SocketInv'
<1>1. PICK s \in Seats : s = link[k].seat /\ k \notin leaked /\ link[k].pc = "joined"
  BY DEF SocketInv, SeatInv, K!Disconnect
<1>2. /\ link' \in [Sockets -> Links] /\ \A i \in Sockets \ {k} : link'[i] = link[i]
      /\ link'[k].pc = "gone"
  BY DEF K!Disconnect, SocketInv, SocketType, Links, SocketSteps
<1>3. /\ presence' = [presence EXCEPT ![s] = @ - 1]
      /\ shown' = K!Cardinality(IF presence[s] > 1 THEN K!Present ELSE K!Present \ {s})
      /\ UNCHANGED <<ended, fetch, told, leaked>>
  BY <1>1 DEF K!Disconnect
<1>4. k \in Counted(s) /\ Counted(s)' = Counted(s) \ {k}
  BY <1>1, <1>2, <1>3 DEF Counted
<1>5. /\ Cardinality(Counted(s)) \in Nat \ {0}
      /\ Cardinality(Counted(s)') = Cardinality(Counted(s)) - 1
  <2>1. IsFiniteSet(Counted(s))
    BY CountedFinite
  <2>2. Cardinality(Counted(s)) \in Nat /\ Cardinality(Counted(s)) # 0
    BY <1>4, <2>1, FS_CardinalityType, FS_EmptySet
  <2>3. Cardinality(Counted(s) \ {k}) = Cardinality(Counted(s)) - 1
    BY <1>4, <2>1, FS_RemoveElement
  <2> QED
    BY <1>4, <2>2, <2>3
<1>6. presence[s] \in Nat \ {0}
  BY <1>1, <1>5 DEF SocketInv, SeatCounts
<1>7. SocketType' /\ SeatInv'
  <2>1. presence' \in [Seats -> Nat]
    BY <1>1, <1>3, <1>6 DEF SocketInv, SocketType
  <2>2. SocketType'
    BY <1>2, <1>3, <2>1 DEF SocketInv, SocketType
  <2> QED
    BY <1>1, <1>2, <1>3, <2>2 DEF SocketInv, SeatInv
<1>8. SeatCounts'
  <2>1. ASSUME NEW i \in Seats \ {s} PROVE Counted(i)' = Counted(i)
    BY <1>1, <1>2, <1>3, <2>1 DEF Counted
  <2>2. \A i \in Seats : presence'[i] = Cardinality(Counted(i)')
    BY <1>1, <1>3, <1>5, <2>1 DEF SocketInv, SocketType, SeatCounts
  <2> QED
    BY <2>2 DEF SeatCounts
<1>9. RoomShown'
  <2>1. K!Present' = IF presence[s] > 1 THEN K!Present ELSE K!Present \ {s}
    BY <1>1, <1>3, <1>6 DEF K!Present, SocketInv, SocketType
  <2> QED
    BY <1>3, <2>1, SameCardinality DEF RoomShown
<1> QED
  BY <1>7, <1>8, <1>9 DEF SocketInv

\* Whatever the sockets do, and whatever happens beside them.
LEMMA SocketStep == ASSUME SocketInv, [Next]_allVars PROVE SocketInv'
<1>1. CASE UNCHANGED socketVars
  <2>1. SeatCounts' /\ RoomShown'
    BY <1>1, CountsKept DEF socketVars, SocketInv, Counted
  <2> QED
    BY <1>1, <2>1 DEF socketVars, SocketInv, SocketType, SeatInv
<1>2. CASE K!Next
  BY <1>2, LinkInv, BesidesInv, JoinInv, DisconnectInv DEF K!Next, K!Run
<1> QED
  BY <1>1, <1>2 DEF Next, allVars, EnginesOnly, SessionsOnly, SocketsOnly, LimitsOnly

\* gameSocket.ts: what a room counts for a session are the sockets that play on it and
\* those that left unheard, and what it shows is the number of sessions it counts.
THEOREM PresenceIsShownHolds == Spec => []PresenceIsShown
<1>1. ASSUME SocketInv PROVE K!PresenceCounts
  <2>1. ASSUME NEW s \in Seats
        PROVE  presence[s] = K!Cardinality({k \in Sockets : link[k].seat = s /\
                                             (link[k].pc = "joined" \/ k \in leaked)})
    BY <1>1, SameCardinality DEF SocketInv, SeatCounts, Counted
  <2> QED
    BY <2>1 DEF K!PresenceCounts
<1>2. SocketInv => K!ShownIsPresent
  BY SameCardinality DEF SocketInv, RoomShown, K!ShownIsPresent
<1>3. ASSUME SocketInv PROVE K!TypeOK
  <2>1. ASSUME NEW s \in Seats PROVE presence[s] \in 0..Cardinality(Sockets)
    BY <1>3, CountedFinite, FS_CardinalityType DEF SocketInv, SocketType, SeatCounts
  <2>2. shown \in 0..Cardinality(Seats)
    <3>1. IsFiniteSet(K!Present) /\ Cardinality(K!Present) <= Cardinality(Seats)
      BY SocketAssumption, FS_Subset DEF K!Present
    <3> QED
      BY <1>3, <3>1, FS_CardinalityType DEF SocketInv, RoomShown
  <2>3. K!Cardinality(Sockets) = Cardinality(Sockets) /\ K!Cardinality(Seats) = Cardinality(Seats)
    BY SameCardinality
  <2>4. presence \in [Seats -> 0..Cardinality(Sockets)]
    BY <1>3, <2>1 DEF SocketInv, SocketType
  <2> QED
    BY <1>3, <2>2, <2>3, <2>4 DEF SocketInv, SocketType, K!TypeOK, Links, SocketSteps
<1>4. SocketInv => PresenceIsShown
  BY <1>1, <1>2, <1>3 DEF PresenceIsShown
<1> QED
  BY <1>4, InitSocket, SocketStep, PTL DEF Spec

-----------------------------------------------------------------------------
(* The limits of a player.                                                  *)

BetSteps == {"none", "checked", "allowed", "PENDING", "ACCEPTED", "REJECTED", "SETTLED", "ROLLED_BACK"}
BetRows == [pc : BetSteps, seat : Seats \cup {L!NoBet.seat}, stake : Nat, won : Nat, day : Nat]

BetType == bet \in [Bets -> BetRows] /\ day \in 0..1 /\ overlapped \in BOOLEAN

\* What a set of bets adds up to, as the rows f have it.
Wager(f, T) == SumFunctionOnSet([b \in Bets |-> f[b].stake], T)
Won(f, T) == SumFunctionOnSet([b \in Bets |-> f[b].won], T)
Loss(f, T) == Wager(f, T) - Won(f, T)

\* A total within its limits, and one that leaves room for a stake.
Within(T, wager, loss) ==
    (wager # L!NoLimit => Wager(bet, T) <= wager) /\ (loss # L!NoLimit => Loss(bet, T) <= loss)
Room(stake, T, wager, loss) ==
    L!Fits(Wager(bet, T), stake, wager) /\ L!Fits(Loss(bet, T), stake, loss)

\* As long as checks do not overlap one bet is on its way at most, and it has its room: in
\* its session since the first check, in its day since the second one, if it is that day.
RoomInv ==
    ~overlapped =>
        /\ \A b, c \in L!Undecided : b = c
        /\ \A s \in Seats : Within(L!OfSeat(s), SessionWager, SessionLoss)
        /\ Within(L!OfDay, DailyWager, DailyLoss)
        /\ \A b \in L!Undecided :
             /\ Room(bet[b].stake, L!OfSeat(bet[b].seat), SessionWager, SessionLoss)
             /\ bet[b].pc # "checked" /\ bet[b].day = day =>
                  Room(bet[b].stake, L!OfDay, DailyWager, DailyLoss)

LimitInv ==
    /\ BetType /\ L!LimitTypeOK /\ RoomInv
    /\ \A b \in Bets : bet[b].day <= day

LEMMA LimitAddition ==
  ASSUME NEW f, NEW T PROVE L!SumFunctionOnSet(f, T) = SumFunctionOnSet(f, T)
  BY DEF L!SumFunctionOnSet, L!FoldFunctionOnSet, L!MapThenFoldSet,
         SumFunctionOnSet, FoldFunctionOnSet, MapThenFoldSet

\* aggregateLoss() adds up what Wager and Loss do.
LEMMA TotalsAre ==
  ASSUME NEW T PROVE L!Wagered(T) = Wager(bet, T) /\ L!NetLoss(T) = Loss(bet, T)
<1>1. L!Wagered(T) = Wager(bet, T)
  BY LimitAddition DEF L!Wagered, Wager
<1>2. L!SumFunctionOnSet([b \in Bets |-> bet[b].won], T) = Won(bet, T)
  BY LimitAddition DEF Won
<1> QED
  BY <1>1, <1>2 DEF L!NetLoss, Loss

\* What one element adds to a sum.
Share(f, T, b) == IF b \in T THEN f[b] ELSE 0

\* Two sums that differ in one element at most.
LEMMA OneApart ==
  ASSUME NEW A, IsFiniteSet(A), NEW U \in SUBSET A, NEW T \in SUBSET A, NEW b, U \ {b} = T \ {b},
         NEW f, NEW g, \A x \in A : f[x] \in Int /\ g[x] \in Int, \A x \in A \ {b} : g[x] = f[x]
  PROVE  /\ SumFunctionOnSet(f, U) \in Int /\ SumFunctionOnSet(g, T) \in Int
         /\ SumFunctionOnSet(g, T) - Share(g, T, b) = SumFunctionOnSet(f, U) - Share(f, U, b)
<1> DEFINE rest == U \ {b}
<1>1. IsFiniteSet(U) /\ IsFiniteSet(T) /\ IsFiniteSet(rest)
  BY FS_Subset
<1>2. SumFunctionOnSet(f, U) \in Int /\ SumFunctionOnSet(g, T) \in Int /\ SumFunctionOnSet(f, rest) \in Int
  BY <1>1, OneAdds
<1>3. SumFunctionOnSet(g, rest) = SumFunctionOnSet(f, rest)
  BY <1>1, SameSum
<1>4. SumFunctionOnSet(f, U) = (IF b \in U THEN f[b] ELSE 0) + SumFunctionOnSet(f, rest)
  <2>1. CASE b \in U
    BY <1>1, <2>1, OneAdds
  <2>2. CASE b \notin U
    <3>1. SumFunctionOnSet(f, U) = SumFunctionOnSet(f, rest) /\ (IF b \in U THEN f[b] ELSE 0) = 0
      BY <2>2, U = rest
    <3> HIDE DEF rest
    <3> QED
      BY <1>2, <3>1
  <2> QED
    BY <2>1, <2>2
<1>5. SumFunctionOnSet(g, T) = (IF b \in T THEN g[b] ELSE 0) + SumFunctionOnSet(g, rest)
  <2>1. rest = T \ {b}
    OBVIOUS
  <2>2. CASE b \in T
    BY <1>1, <2>1, <2>2, OneAdds
  <2>3. CASE b \notin T
    <3>1. SumFunctionOnSet(g, T) = SumFunctionOnSet(g, rest) /\ (IF b \in T THEN g[b] ELSE 0) = 0
      BY <2>1, <2>3, T = rest
    <3> HIDE DEF rest
    <3> QED
      BY <1>2, <1>3, <3>1
  <2> QED
    BY <2>2, <2>3
<1>6. (b \in U => f[b] \in Int) /\ (b \in T => g[b] \in Int)
  OBVIOUS
<1> HIDE DEF rest
<1> QED
  BY <1>2, <1>3, <1>4, <1>5, <1>6 DEF Share

\* One row changes, and one set of bets becomes another that differs in it at most.
LEMMA OneRow ==
  ASSUME NEW f \in [Bets -> BetRows], NEW g \in [Bets -> BetRows], NEW b \in Bets,
         \A c \in Bets \ {b} : g[c] = f[c],
         NEW U \in SUBSET Bets, NEW T \in SUBSET Bets, U \ {b} = T \ {b}
  PROVE  /\ Wager(f, U) \in Int /\ Wager(g, T) \in Int /\ Loss(f, U) \in Int /\ Loss(g, T) \in Int
         /\ Wager(g, T) - (IF b \in T THEN g[b].stake ELSE 0)
            = Wager(f, U) - (IF b \in U THEN f[b].stake ELSE 0)
         /\ Loss(g, T) - (IF b \in T THEN g[b].stake - g[b].won ELSE 0)
            = Loss(f, U) - (IF b \in U THEN f[b].stake - f[b].won ELSE 0)
<1> DEFINE fs == [c \in Bets |-> f[c].stake]
           gs == [c \in Bets |-> g[c].stake]
           fw == [c \in Bets |-> f[c].won]
           gw == [c \in Bets |-> g[c].won]
<1>1. \A c \in Bets : /\ f[c].stake \in Nat /\ g[c].stake \in Nat /\ f[c].won \in Nat /\ g[c].won \in Nat
  BY DEF BetRows
<1>2. /\ \A c \in Bets : fs[c] = f[c].stake /\ gs[c] = g[c].stake /\ fw[c] = f[c].won /\ gw[c] = g[c].won
      /\ \A c \in Bets \ {b} : gs[c] = fs[c] /\ gw[c] = fw[c]
  OBVIOUS
<1> HIDE DEF fs, gs, fw, gw
<1>0. IsFiniteSet(Bets)
  BY LimitAssumption
<1>3. /\ SumFunctionOnSet(fs, U) \in Int /\ SumFunctionOnSet(gs, T) \in Int
      /\ SumFunctionOnSet(gs, T) - Share(gs, T, b) = SumFunctionOnSet(fs, U) - Share(fs, U, b)
  <2>1. /\ \A c \in Bets : fs[c] \in Int /\ gs[c] \in Int
        /\ \A c \in Bets \ {b} : gs[c] = fs[c]
    BY <1>1, <1>2
  <2> QED
    BY <1>0, <2>1, OneApart
<1>4. /\ SumFunctionOnSet(fw, U) \in Int /\ SumFunctionOnSet(gw, T) \in Int
      /\ SumFunctionOnSet(gw, T) - Share(gw, T, b) = SumFunctionOnSet(fw, U) - Share(fw, U, b)
  <2>1. /\ \A c \in Bets : fw[c] \in Int /\ gw[c] \in Int
        /\ \A c \in Bets \ {b} : gw[c] = fw[c]
    BY <1>1, <1>2
  <2> QED
    BY <1>0, <2>1, OneApart
<1>5. /\ Wager(f, U) = SumFunctionOnSet(fs, U) /\ Wager(g, T) = SumFunctionOnSet(gs, T)
      /\ Won(f, U) = SumFunctionOnSet(fw, U) /\ Won(g, T) = SumFunctionOnSet(gw, T)
  BY DEF Wager, Won, fs, gs, fw, gw
<1>6. /\ fs[b] = f[b].stake /\ gs[b] = g[b].stake /\ fw[b] = f[b].won /\ gw[b] = g[b].won
      /\ f[b].stake \in Nat /\ g[b].stake \in Nat /\ f[b].won \in Nat /\ g[b].won \in Nat
  BY <1>1, <1>2
<1>7. /\ Wager(f, U) \in Int /\ Wager(g, T) \in Int /\ Won(f, U) \in Int /\ Won(g, T) \in Int
      /\ Wager(g, T) - (IF b \in T THEN g[b].stake ELSE 0)
         = Wager(f, U) - (IF b \in U THEN f[b].stake ELSE 0)
      /\ Won(g, T) - (IF b \in T THEN g[b].won ELSE 0)
         = Won(f, U) - (IF b \in U THEN f[b].won ELSE 0)
  BY <1>3, <1>4, <1>5, <1>6 DEF Share
<1>8. Loss(f, U) = Wager(f, U) - Won(f, U) /\ Loss(g, T) = Wager(g, T) - Won(g, T)
  BY DEF Loss
<1> QED
  <2>1. CASE b \in T /\ b \in U
    BY <1>6, <1>7, <1>8, <2>1
  <2>2. CASE b \in T /\ b \notin U
    BY <1>6, <1>7, <1>8, <2>2
  <2>3. CASE b \notin T /\ b \in U
    BY <1>6, <1>7, <1>8, <2>3
  <2>4. CASE b \notin T /\ b \notin U
    BY <1>6, <1>7, <1>8, <2>4
  <2> QED
    BY <2>1, <2>2, <2>3, <2>4

\* A row that leaves the set, or comes back with a prize: the totals do not grow.
LEMMA LessRow ==
  ASSUME NEW f \in [Bets -> BetRows], NEW g \in [Bets -> BetRows], NEW b \in Bets,
         \A c \in Bets \ {b} : g[c] = f[c],
         NEW U \in SUBSET Bets, NEW T \in SUBSET Bets, U \ {b} = T \ {b},
         b \in T => b \in U /\ g[b].stake = f[b].stake /\ g[b].won >= f[b].won,
         b \in U /\ b \notin T => f[b].won = 0
  PROVE  /\ Wager(f, U) \in Int /\ Wager(g, T) \in Int /\ Loss(f, U) \in Int /\ Loss(g, T) \in Int
         /\ Wager(g, T) <= Wager(f, U) /\ Loss(g, T) <= Loss(f, U)
<1>1. /\ Wager(f, U) \in Int /\ Wager(g, T) \in Int /\ Loss(f, U) \in Int /\ Loss(g, T) \in Int
      /\ Wager(g, T) - (IF b \in T THEN g[b].stake ELSE 0)
         = Wager(f, U) - (IF b \in U THEN f[b].stake ELSE 0)
      /\ Loss(g, T) - (IF b \in T THEN g[b].stake - g[b].won ELSE 0)
         = Loss(f, U) - (IF b \in U THEN f[b].stake - f[b].won ELSE 0)
  BY OneRow
<1>2. f[b].stake \in Nat /\ g[b].stake \in Nat /\ f[b].won \in Nat /\ g[b].won \in Nat
  BY DEF BetRows
<1>3. CASE b \in T
  BY <1>1, <1>2, <1>3
<1>4. CASE b \notin T /\ b \in U
  BY <1>1, <1>2, <1>4
<1>5. CASE b \notin T /\ b \notin U
  BY <1>1, <1>2, <1>5
<1> QED
  BY <1>3, <1>4, <1>5

\* A row that joins the set: the totals grow by its stake.
LEMMA MoreRow ==
  ASSUME NEW f \in [Bets -> BetRows], NEW g \in [Bets -> BetRows], NEW b \in Bets,
         \A c \in Bets \ {b} : g[c] = f[c],
         NEW U \in SUBSET Bets, NEW T \in SUBSET Bets, U \ {b} = T \ {b},
         b \in T, b \notin U, g[b].won = 0
  PROVE  /\ Wager(f, U) \in Int /\ Loss(f, U) \in Int
         /\ Wager(g, T) = Wager(f, U) + g[b].stake /\ Loss(g, T) = Loss(f, U) + g[b].stake
<1>1. /\ Wager(f, U) \in Int /\ Wager(g, T) \in Int /\ Loss(f, U) \in Int /\ Loss(g, T) \in Int
      /\ Wager(g, T) - (IF b \in T THEN g[b].stake ELSE 0)
         = Wager(f, U) - (IF b \in U THEN f[b].stake ELSE 0)
      /\ Loss(g, T) - (IF b \in T THEN g[b].stake - g[b].won ELSE 0)
         = Loss(f, U) - (IF b \in U THEN f[b].stake - f[b].won ELSE 0)
  BY OneRow
<1>2. g[b].stake \in Nat
  BY DEF BetRows
<1> QED
  BY <1>1, <1>2

\* One bet moves on, on the same day.
Alone(b) == b \in Bets /\ day' = day /\ \A c \in Bets \ {b} : bet'[c] = bet[c]

\* It joins none of the totals, and leaves one only without a prize.
Joinless(b) ==
    /\ b \in L!Counted' =>
         /\ b \in L!Counted /\ bet'[b].seat = bet[b].seat /\ bet'[b].day = bet[b].day
         /\ bet'[b].stake = bet[b].stake /\ bet'[b].won >= bet[b].won
    /\ b \in L!Counted \ L!Counted' => bet[b].won = 0

LEMMA JoinlessTotals ==
  ASSUME BetType, BetType', NEW b, Alone(b), Joinless(b)
  PROVE  /\ \A s : /\ Wager(bet, L!OfSeat(s)) \in Int /\ Wager(bet', L!OfSeat(s)') \in Int
                   /\ Loss(bet, L!OfSeat(s)) \in Int /\ Loss(bet', L!OfSeat(s)') \in Int
                   /\ Wager(bet', L!OfSeat(s)') <= Wager(bet, L!OfSeat(s))
                   /\ Loss(bet', L!OfSeat(s)') <= Loss(bet, L!OfSeat(s))
         /\ Wager(bet, L!OfDay) \in Int /\ Wager(bet', L!OfDay') \in Int
         /\ Loss(bet, L!OfDay) \in Int /\ Loss(bet', L!OfDay') \in Int
         /\ Wager(bet', L!OfDay') <= Wager(bet, L!OfDay)
         /\ Loss(bet', L!OfDay') <= Loss(bet, L!OfDay)
<1> USE DEF Alone, Joinless
<1>1. bet \in [Bets -> BetRows] /\ bet' \in [Bets -> BetRows]
  BY DEF BetType
<1>2. ASSUME NEW s
      PROVE  LET U == L!OfSeat(s) T == L!OfSeat(s)'
             IN  /\ U \in SUBSET Bets /\ T \in SUBSET Bets /\ U \ {b} = T \ {b}
                 /\ b \in T => b \in U
                 /\ b \in U /\ b \notin T => bet[b].won = 0
  BY DEF L!OfSeat, L!Counted
<1>3. LET U == L!OfDay T == L!OfDay'
      IN  /\ U \in SUBSET Bets /\ T \in SUBSET Bets /\ U \ {b} = T \ {b}
          /\ b \in T => b \in U
          /\ b \in U /\ b \notin T => bet[b].won = 0
  BY DEF L!OfDay, L!Counted
<1>4. ASSUME NEW s PROVE b \in L!OfSeat(s)' => b \in L!Counted'
  BY DEF L!OfSeat
<1>5. b \in L!OfDay' => b \in L!Counted'
  BY DEF L!OfDay
<1> QED
  BY <1>1, <1>2, <1>3, <1>4, <1>5, LessRow

\* Less in a total leaves no less room.
LEMMA RoomKept ==
  ASSUME NEW T, NEW U, NEW stake \in Nat, NEW w, NEW l,
         w = L!NoLimit \/ w \in Nat, l = L!NoLimit \/ l \in Nat,
         Wager(bet, U) \in Int, Wager(bet', T) \in Int, Loss(bet, U) \in Int, Loss(bet', T) \in Int,
         Wager(bet', T) <= Wager(bet, U), Loss(bet', T) <= Loss(bet, U)
  PROVE  /\ Room(stake, U, w, l) => /\ L!Fits(Wager(bet', T), stake, w)
                                    /\ L!Fits(Loss(bet', T), stake, l)
         /\ Within(U, w, l) => /\ w # L!NoLimit => Wager(bet', T) <= w
                               /\ l # L!NoLimit => Loss(bet', T) <= l
  BY DEF Room, Within, L!Fits, L!NoLimit

\* The room of the bets that were on their way stays.
LEMMA JoinlessRoom ==
  ASSUME LimitInv, BetType', NEW b, Alone(b), Joinless(b),
         ~overlapped' =>
             /\ ~overlapped
             /\ \A c, d \in L!Undecided' : c = d
             /\ b \in L!Undecided' =>
                  /\ Room(bet'[b].stake, L!OfSeat(bet'[b].seat), SessionWager, SessionLoss)
                  /\ bet'[b].pc # "checked" /\ bet'[b].day = day =>
                       Room(bet'[b].stake, L!OfDay, DailyWager, DailyLoss)
  PROVE  RoomInv'
<1> SUFFICES ASSUME ~overlapped'
             PROVE  /\ \A s \in Seats : Within(L!OfSeat(s), SessionWager, SessionLoss)'
                    /\ Within(L!OfDay, DailyWager, DailyLoss)'
                    /\ \A c \in L!Undecided' :
                         /\ Room(bet[c].stake, L!OfSeat(bet[c].seat), SessionWager, SessionLoss)'
                         /\ bet'[c].pc # "checked" /\ bet'[c].day = day' =>
                              Room(bet[c].stake, L!OfDay, DailyWager, DailyLoss)'
  BY DEF RoomInv
<1>1. /\ RoomInv /\ ~overlapped /\ day' = day
      /\ \A limit \in {SessionWager, SessionLoss, DailyWager, DailyLoss} :
           limit = L!NoLimit \/ limit \in Nat
  BY LimitAssumption DEF LimitInv, Alone
<1>2. /\ \A s : /\ Wager(bet, L!OfSeat(s)) \in Int /\ Wager(bet', L!OfSeat(s)') \in Int
                /\ Loss(bet, L!OfSeat(s)) \in Int /\ Loss(bet', L!OfSeat(s)') \in Int
                /\ Wager(bet', L!OfSeat(s)') <= Wager(bet, L!OfSeat(s))
                /\ Loss(bet', L!OfSeat(s)') <= Loss(bet, L!OfSeat(s))
      /\ Wager(bet, L!OfDay) \in Int /\ Wager(bet', L!OfDay') \in Int
      /\ Loss(bet, L!OfDay) \in Int /\ Loss(bet', L!OfDay') \in Int
      /\ Wager(bet', L!OfDay') <= Wager(bet, L!OfDay)
      /\ Loss(bet', L!OfDay') <= Loss(bet, L!OfDay)
  BY JoinlessTotals DEF LimitInv
<1>3. ASSUME NEW s \in Seats PROVE Within(L!OfSeat(s), SessionWager, SessionLoss)'
  <2>1. Within(L!OfSeat(s), SessionWager, SessionLoss)
    BY <1>1 DEF RoomInv
  <2> QED
    BY <1>1, <1>2, <2>1 DEF Within
<1>4. Within(L!OfDay, DailyWager, DailyLoss)'
  <2>1. Within(L!OfDay, DailyWager, DailyLoss)
    BY <1>1 DEF RoomInv
  <2> QED
    BY <1>1, <1>2, <2>1 DEF Within
<1>5. ASSUME NEW c \in L!Undecided'
      PROVE  /\ Room(bet'[c].stake, L!OfSeat(bet'[c].seat), SessionWager, SessionLoss)
             /\ bet'[c].pc # "checked" /\ bet'[c].day = day =>
                  Room(bet'[c].stake, L!OfDay, DailyWager, DailyLoss)
             /\ bet'[c].stake \in Nat
  <2>1. c \in Bets /\ bet'[c].stake \in Nat
    BY DEF L!Undecided, BetType, BetRows
  <2>2. CASE c = b
    BY <2>1, <2>2
  <2>3. CASE c # b
    <3>1. bet'[c] = bet[c] /\ c \in L!Undecided
      BY <2>1, <2>3 DEF Alone, L!Undecided
    <3> QED
      BY <1>1, <2>1, <3>1 DEF RoomInv
  <2> QED
    BY <2>2, <2>3
<1>6. ASSUME NEW c \in L!Undecided'
      PROVE  /\ Room(bet[c].stake, L!OfSeat(bet[c].seat), SessionWager, SessionLoss)'
             /\ bet'[c].pc # "checked" /\ bet'[c].day = day' =>
                  Room(bet[c].stake, L!OfDay, DailyWager, DailyLoss)'
  <2>1. Room(bet[c].stake, L!OfSeat(bet[c].seat), SessionWager, SessionLoss)'
    <3>1. PICK s, k : s = bet'[c].seat /\ k = bet'[c].stake
      OBVIOUS
    <3>2. Room(k, L!OfSeat(s), SessionWager, SessionLoss) /\ k \in Nat
      BY <1>5, <3>1
    <3>3. /\ L!Fits(Wager(bet', L!OfSeat(s)'), k, SessionWager)
          /\ L!Fits(Loss(bet', L!OfSeat(s)'), k, SessionLoss)
      BY <1>1, <1>2, <3>2, RoomKept
    <3>4. L!OfSeat(bet[c].seat)' = L!OfSeat(s)'
      BY <3>1 DEF L!OfSeat
    <3> QED
      BY <3>1, <3>3, <3>4 DEF Room, L!Fits
  <2>2. ASSUME bet'[c].pc # "checked", bet'[c].day = day'
        PROVE  Room(bet[c].stake, L!OfDay, DailyWager, DailyLoss)'
    BY <1>1, <1>2, <1>5, <2>2 DEF Room, L!Fits
  <2> QED
    BY <2>1, <2>2
<1> QED
  BY <1>3, <1>4, <1>6

\* One more bet that is on its way: the first, or that one again.
LEMMA FirstOnItsWay ==
  ASSUME RoomInv, NEW b, Alone(b), ~overlapped, b \in L!Undecided \/ L!Undecided = {}
  PROVE  \A c, d \in L!Undecided' : c = d
<1>1. \A c \in L!Undecided' : c = b
  BY DEF RoomInv, Alone, L!Undecided
<1> QED
  BY <1>1

LEMMA CheckSessionKeeps ==
  ASSUME LimitInv, NEW b \in Bets, NEW s \in Seats, NEW stake \in Stakes, L!CheckSession(b, s, stake)
  PROVE  LimitInv'
<1> DEFINE checked == [L!NoBet EXCEPT !.pc = "checked", !.seat = s, !.stake = stake, !.day = day]
<1>1. /\ checked \in BetRows /\ checked.pc = "checked" /\ checked.seat = s
      /\ checked.stake = stake /\ checked.won = 0 /\ checked.day = day
      /\ bet[b].pc = "none" /\ bet[b] = L!NoBet /\ stake \in Nat /\ day \in 0..1
  <2>1. bet[b] = L!NoBet /\ stake \in Nat /\ day \in 0..1
    BY LimitAssumption DEF L!CheckSession, LimitInv, BetType
  <2>2. L!NoBet \in BetRows /\ L!NoBet.pc = "none" /\ L!NoBet.won = 0
    BY DEF BetRows, BetSteps, L!NoBet
  <2>3. checked.pc = "checked" /\ checked.seat = s
    BY <2>1, <2>2 DEF BetRows
  <2>4. checked.stake = stake
    BY <2>1, <2>2 DEF BetRows
  <2>5. checked.won = 0
    BY <2>1, <2>2 DEF BetRows
  <2>6. checked.day = day
    BY <2>1, <2>2 DEF BetRows
  <2>7. checked \in BetRows
    <3>1. "checked" \in BetSteps /\ s \in Seats \cup {L!NoBet.seat} /\ day \in Nat
      BY <2>1 DEF BetSteps
    <3> QED
      BY Zenon, <2>1, <2>2, <3>1 DEF BetRows
  <2> QED
    BY <2>1, <2>2, <2>3, <2>4, <2>5, <2>6, <2>7
<1> HIDE DEF checked
<1>2. bet' = [bet EXCEPT ![b] = checked]
  BY DEF L!CheckSession, checked
<1>3. /\ bet'[b] = checked /\ Alone(b) /\ checked \in BetRows
      /\ UNCHANGED day /\ overlapped' = (overlapped \/ L!Undecided # {})
  <2>1. UNCHANGED day /\ overlapped' = (overlapped \/ L!Undecided # {})
    BY DEF L!CheckSession
  <2> QED
    BY <1>1, <1>2, <2>1 DEF LimitInv, BetType, Alone
<1>4. BetType'
  BY <1>2, <1>3 DEF LimitInv, BetType
<1>5. Joinless(b)
  BY <1>1, <1>3 DEF Joinless, L!Counted
<1>6. ~overlapped' => /\ ~overlapped /\ \A c, d \in L!Undecided' : c = d
                      /\ Room(stake, L!OfSeat(s), SessionWager, SessionLoss)
  BY <1>3, TotalsAre, FirstOnItsWay DEF L!CheckSession, LimitInv, Room
<1>7. RoomInv'
  BY <1>1, <1>3, <1>4, <1>5, <1>6, JoinlessRoom
<1>8. L!LimitTypeOK'
  BY <1>1, <1>3, <1>4 DEF LimitInv, L!LimitTypeOK, BetType, Alone
<1>9. \A c \in Bets : bet'[c].day <= day'
  BY <1>1, <1>3 DEF LimitInv, Alone
<1> QED
  BY <1>4, <1>7, <1>8, <1>9 DEF LimitInv

LEMMA CheckDayKeeps == ASSUME LimitInv, NEW b \in Bets, L!CheckDay(b) PROVE LimitInv'
<1>1. /\ bet[b].pc = "checked" /\ bet[b] \in BetRows /\ UNCHANGED <<day, overlapped>>
      /\ day \in 0..1
  BY DEF L!CheckDay, LimitInv, BetType
<1>2. /\ Alone(b) /\ BetType'
      /\ \/ /\ bet'[b] = [bet[b] EXCEPT !.pc = "allowed"]
            /\ Room(bet[b].stake, L!OfDay, DailyWager, DailyLoss)
         \/ bet'[b] = L!NoBet
  <2> DEFINE now == IF L!Fits(L!Wagered(L!OfDay), bet[b].stake, DailyWager)
                         /\ L!Fits(L!NetLoss(L!OfDay), bet[b].stake, DailyLoss)
                      THEN [bet[b] EXCEPT !.pc = "allowed"] ELSE L!NoBet
  <2>1. bet' = [bet EXCEPT ![b] = now]
    BY DEF L!CheckDay
  <2>2. [bet[b] EXCEPT !.pc = "allowed"] \in BetRows /\ L!NoBet \in BetRows
    BY <1>1 DEF BetRows, BetSteps, L!NoBet
  <2>3. \/ /\ now = [bet[b] EXCEPT !.pc = "allowed"]
           /\ Room(bet[b].stake, L!OfDay, DailyWager, DailyLoss)
        \/ now = L!NoBet
    BY TotalsAre DEF Room
  <2>4. now \in BetRows
    BY <2>2, <2>3
  <2> HIDE DEF now
  <2> QED
    BY <1>1, <2>1, <2>3, <2>4 DEF LimitInv, BetType, Alone
<1>3. /\ bet'[b].pc \in {"allowed", "none"} /\ bet'[b].won = bet[b].won /\ bet'[b].day <= day
      /\ bet'[b].pc = "allowed" => /\ bet'[b].stake = bet[b].stake /\ bet'[b].seat = bet[b].seat
                                   /\ Room(bet[b].stake, L!OfDay, DailyWager, DailyLoss)
  <2>1. bet[b].won = 0 /\ bet[b].day <= day
    BY <1>1 DEF LimitInv, L!LimitTypeOK, BetRows
  <2>2. CASE bet'[b] = L!NoBet
    BY <1>1, <2>1, <2>2 DEF L!NoBet
  <2>3. CASE bet'[b] # L!NoBet
    BY <1>1, <1>2, <2>1, <2>3 DEF BetRows
  <2> QED
    BY <2>2, <2>3
<1>4. Joinless(b)
  BY <1>1, <1>3 DEF Joinless, L!Counted
<1>5. b \in L!Undecided
  BY <1>1 DEF L!Undecided
<1>6. ~overlapped => /\ \A c, d \in L!Undecided' : c = d
                     /\ Room(bet[b].stake, L!OfSeat(bet[b].seat), SessionWager, SessionLoss)
  BY <1>2, <1>5, FirstOnItsWay DEF LimitInv, RoomInv
<1>7. b \in L!Undecided' => bet'[b].pc = "allowed"
  BY <1>3 DEF L!Undecided
<1>8. RoomInv'
  BY <1>1, <1>2, <1>3, <1>4, <1>6, <1>7, JoinlessRoom
<1>9. L!LimitTypeOK'
  BY <1>1, <1>2, <1>3 DEF LimitInv, L!LimitTypeOK, BetType, Alone
<1>10. \A c \in Bets : bet'[c].day <= day'
  BY <1>1, <1>2, <1>3 DEF LimitInv, Alone
<1> QED
  BY <1>2, <1>8, <1>9, <1>10 DEF LimitInv

LEMMA PlaceKeeps == ASSUME LimitInv, NEW b \in Bets, L!Place(b) PROVE LimitInv'
<1> DEFINE now == [bet[b] EXCEPT !.pc = "PENDING", !.day = day]
<1>1. /\ bet[b].pc = "allowed" /\ bet[b] \in BetRows /\ day' = day /\ day \in 0..1
      /\ overlapped' = (overlapped \/ bet[b].day # day)
  BY DEF L!Place, LimitInv, BetType
<1>2. bet' = [bet EXCEPT ![b] = now]
  BY DEF L!Place
<1>3. /\ now \in BetRows /\ now.pc = "PENDING" /\ now.day = day
      /\ now.seat = bet[b].seat /\ now.stake = bet[b].stake /\ now.won = bet[b].won
  <2> HIDE DEF LimitInv
  <2>1. "PENDING" \in BetSteps /\ day \in Nat
    BY <1>1 DEF BetSteps
  <2>2. now \in BetRows
    BY Zenon, <1>1, <2>1 DEF BetRows
  <2>3. now.pc = "PENDING" /\ now.day = day
    BY <1>1 DEF BetRows
  <2>4. now.seat = bet[b].seat /\ now.stake = bet[b].stake /\ now.won = bet[b].won
    BY <1>1 DEF BetRows
  <2> QED
    BY <2>2, <2>3, <2>4
<1> HIDE DEF now
<1>4. bet'[b] = now /\ Alone(b) /\ BetType'
  BY <1>1, <1>2, <1>3 DEF LimitInv, BetType, Alone
<1>5. Joinless(b) /\ b \in L!Undecided
  BY <1>1, <1>3, <1>4 DEF Joinless, L!Counted, L!Undecided
<1>6. ~overlapped' => /\ ~overlapped /\ \A c, d \in L!Undecided' : c = d
                      /\ Room(now.stake, L!OfSeat(now.seat), SessionWager, SessionLoss)
                      /\ Room(now.stake, L!OfDay, DailyWager, DailyLoss)
  BY <1>1, <1>3, <1>4, <1>5, FirstOnItsWay DEF LimitInv, RoomInv
<1>7. RoomInv'
  BY <1>4, <1>5, <1>6, JoinlessRoom
<1>8. L!LimitTypeOK'
  BY <1>1, <1>3, <1>4 DEF LimitInv, L!LimitTypeOK, BetType, Alone
<1>9. \A c \in Bets : bet'[c].day <= day'
  BY <1>1, <1>3, <1>4 DEF LimitInv, Alone
<1> QED
  BY <1>4, <1>7, <1>8, <1>9 DEF LimitInv

\* A bet that is accepted takes the room that was left for it, in each total it joins.
LEMMA AcceptedTotals ==
  ASSUME LimitInv, BetType', NEW b, Alone(b), ~overlapped, bet[b].pc = "PENDING",
         bet'[b].pc = "ACCEPTED", bet'[b].seat = bet[b].seat, bet'[b].day = bet[b].day,
         bet'[b].stake = bet[b].stake, bet'[b].won = 0
  PROVE  /\ \A s \in Seats : Within(L!OfSeat(s), SessionWager, SessionLoss)'
         /\ Within(L!OfDay, DailyWager, DailyLoss)'
<1>1. /\ bet \in [Bets -> BetRows] /\ bet' \in [Bets -> BetRows] /\ b \in L!Undecided
      /\ \A c \in Bets \ {b} : bet'[c] = bet[c]
      /\ b \in Bets /\ b \notin L!Counted /\ day' = day /\ bet[b].stake \in Nat
  BY DEF LimitInv, BetType, Alone, L!Undecided, L!Counted, BetRows
<1>2. \A limit \in {SessionWager, SessionLoss, DailyWager, DailyLoss} :
        limit = L!NoLimit \/ limit \in Nat
  BY LimitAssumption
<1>3. ASSUME NEW s \in Seats PROVE Within(L!OfSeat(s), SessionWager, SessionLoss)'
  <2> DEFINE U == L!OfSeat(s)
             T == L!OfSeat(s)'
  <2>1. /\ U \in SUBSET Bets /\ T \in SUBSET Bets /\ U \ {b} = T \ {b} /\ b \notin U
        /\ b \in T => bet[b].seat = s
    BY <1>1 DEF L!OfSeat, L!Counted, Alone
  <2>2. Within(U, SessionWager, SessionLoss)
    BY DEF LimitInv, RoomInv
  <2> HIDE DEF U, T
  <2>3. CASE b \in T
    <3>1. /\ Wager(bet', T) = Wager(bet, U) + bet[b].stake /\ Loss(bet', T) = Loss(bet, U) + bet[b].stake
          /\ Wager(bet, U) \in Int /\ Loss(bet, U) \in Int
      BY <1>1, <2>1, <2>3, MoreRow
    <3>2. Room(bet[b].stake, U, SessionWager, SessionLoss)
      BY <1>1, <2>1, <2>3 DEF LimitInv, RoomInv, U
    <3> QED
      BY <1>1, <1>2, <3>1, <3>2 DEF Room, L!Fits, Within, T
  <2>4. CASE b \notin T
    <3>1. /\ Wager(bet, U) \in Int /\ Wager(bet', T) \in Int /\ Loss(bet, U) \in Int /\ Loss(bet', T) \in Int
          /\ Wager(bet', T) <= Wager(bet, U) /\ Loss(bet', T) <= Loss(bet, U)
      BY <1>1, <2>1, <2>4, LessRow
    <3> QED
      BY <1>2, <2>2, <3>1 DEF Within, T
  <2> QED
    BY <2>3, <2>4
<1>4. Within(L!OfDay, DailyWager, DailyLoss)'
  <2> DEFINE U == L!OfDay
             T == L!OfDay'
  <2>1. /\ U \in SUBSET Bets /\ T \in SUBSET Bets /\ U \ {b} = T \ {b} /\ b \notin U
        /\ b \in T => bet[b].day = day
    BY <1>1 DEF L!OfDay, L!Counted, Alone
  <2>2. Within(U, DailyWager, DailyLoss)
    BY DEF LimitInv, RoomInv
  <2> HIDE DEF U, T
  <2>3. CASE b \in T
    <3>1. /\ Wager(bet', T) = Wager(bet, U) + bet[b].stake /\ Loss(bet', T) = Loss(bet, U) + bet[b].stake
          /\ Wager(bet, U) \in Int /\ Loss(bet, U) \in Int
      BY <1>1, <2>1, <2>3, MoreRow
    <3>2. Room(bet[b].stake, U, DailyWager, DailyLoss)
      BY <1>1, <2>1, <2>3 DEF LimitInv, RoomInv, U
    <3> QED
      BY <1>1, <1>2, <3>1, <3>2 DEF Room, L!Fits, Within, T
  <2>4. CASE b \notin T
    <3>1. /\ Wager(bet, U) \in Int /\ Wager(bet', T) \in Int /\ Loss(bet, U) \in Int /\ Loss(bet', T) \in Int
          /\ Wager(bet', T) <= Wager(bet, U) /\ Loss(bet', T) <= Loss(bet, U)
      BY <1>1, <2>1, <2>4, LessRow
    <3> QED
      BY <1>2, <2>2, <3>1 DEF Within, T
  <2> QED
    BY <2>3, <2>4
<1> QED
  BY <1>3, <1>4

LEMMA AnsweredKeeps == ASSUME LimitInv, NEW b \in Bets, L!Answered(b) PROVE LimitInv'
<1>1. PICK pc \in {"ACCEPTED", "REJECTED"} : bet' = [bet EXCEPT ![b].pc = pc]
  BY DEF L!Answered
<1> DEFINE now == [bet[b] EXCEPT !.pc = pc]
<1>2. /\ bet[b].pc = "PENDING" /\ bet[b] \in BetRows /\ UNCHANGED <<day, overlapped>> /\ pc \in BetSteps
      /\ bet[b].won = 0
  BY DEF L!Answered, LimitInv, BetType, BetSteps, L!LimitTypeOK, BetRows
<1>3. /\ now \in BetRows /\ now.pc = pc /\ now.day = bet[b].day
      /\ now.seat = bet[b].seat /\ now.stake = bet[b].stake /\ now.won = bet[b].won
  <2>1. now \in BetRows
    BY Zenon, <1>2 DEF BetRows
  <2>2. now.pc = pc /\ now.day = bet[b].day
    BY <1>2 DEF BetRows
  <2>3. now.seat = bet[b].seat /\ now.stake = bet[b].stake /\ now.won = bet[b].won
    BY <1>2 DEF BetRows
  <2> QED
    BY <2>1, <2>2, <2>3
<1>4. bet' = [bet EXCEPT ![b] = now]
  BY <1>1
<1> HIDE DEF now
<1>5. bet'[b] = now /\ Alone(b) /\ BetType'
  BY <1>2, <1>3, <1>4 DEF LimitInv, BetType, Alone
<1>6. ~overlapped => L!Undecided' = {}
  <2>1. \A c \in L!Undecided' : c \in L!Undecided /\ c # b
    BY <1>1, <1>3, <1>5 DEF L!Undecided, Alone
  <2> QED
    BY <1>2, <2>1 DEF LimitInv, RoomInv, L!Undecided
<1>7. RoomInv'
  <2>1. CASE pc = "ACCEPTED"
    BY <1>2, <1>3, <1>5, <1>6, <2>1, AcceptedTotals DEF RoomInv
  <2>2. CASE pc = "REJECTED"
    <3>1. Joinless(b)
      BY <1>2, <1>3, <1>5, <2>2 DEF Joinless, L!Counted
    <3> QED
      BY <1>2, <1>5, <1>6, <3>1, JoinlessRoom
  <2> QED
    BY <2>1, <2>2
<1>8. L!LimitTypeOK'
  BY <1>2, <1>3, <1>5 DEF LimitInv, L!LimitTypeOK, BetType, Alone, BetSteps
<1>9. \A c \in Bets : bet'[c].day <= day'
  BY <1>2, <1>3, <1>5 DEF LimitInv, Alone
<1> QED
  BY <1>5, <1>7, <1>8, <1>9 DEF LimitInv

LEMMA ResultKeeps == ASSUME LimitInv, NEW b \in Bets, L!Result(b) PROVE LimitInv'
<1>1. /\ bet[b].pc = "ACCEPTED" /\ bet[b] \in BetRows /\ UNCHANGED <<day, overlapped>>
      /\ bet[b].won = 0
  BY DEF L!Result, LimitInv, BetType, L!LimitTypeOK, BetRows
<1>2. PICK now : /\ bet' = [bet EXCEPT ![b] = now] /\ now \in BetRows
                 /\ now.pc \in {"SETTLED", "ROLLED_BACK"} /\ now.day = bet[b].day
                 /\ now.seat = bet[b].seat /\ now.stake = bet[b].stake
                 /\ (now.won > 0 => now.pc = "SETTLED" /\ now.won \in Prizes)
  <2>1. CASE \E p \in Prizes \cup {0} : bet' = [bet EXCEPT ![b].pc = "SETTLED", ![b].won = p]
    <3>1. PICK p \in Prizes \cup {0} : bet' = [bet EXCEPT ![b].pc = "SETTLED", ![b].won = p]
      BY <2>1
    <3> DEFINE then == [bet[b] EXCEPT !.pc = "SETTLED", !.won = p]
    <3>2. bet' = [bet EXCEPT ![b] = then]
      BY <3>1
    <3>3. p \in Nat /\ "SETTLED" \in BetSteps
      BY LimitAssumption DEF BetSteps
    <3>4. then \in BetRows
      BY Zenon, <1>1, <3>3 DEF BetRows
    <3>5. then.pc = "SETTLED" /\ then.won = p
      BY <1>1 DEF BetRows
    <3>6. then.day = bet[b].day /\ then.seat = bet[b].seat /\ then.stake = bet[b].stake
      BY <1>1 DEF BetRows
    <3>7. then.won > 0 => then.pc = "SETTLED" /\ then.won \in Prizes
      BY <3>3, <3>5
    <3> HIDE DEF then
    <3> QED
      BY <3>2, <3>4, <3>5, <3>6, <3>7
  <2>2. CASE bet' = [bet EXCEPT ![b].pc = "ROLLED_BACK"]
    <3> DEFINE then == [bet[b] EXCEPT !.pc = "ROLLED_BACK"]
    <3>1. bet' = [bet EXCEPT ![b] = then]
      BY <2>2
    <3>2. "ROLLED_BACK" \in BetSteps
      BY DEF BetSteps
    <3>3. then \in BetRows
      BY Zenon, <1>1, <3>2 DEF BetRows
    <3>4. then.pc = "ROLLED_BACK" /\ then.won = 0
      BY <1>1 DEF BetRows
    <3>5. then.day = bet[b].day /\ then.seat = bet[b].seat /\ then.stake = bet[b].stake
      BY <1>1 DEF BetRows
    <3>6. then.won > 0 => then.pc = "SETTLED" /\ then.won \in Prizes
      BY <3>4
    <3> HIDE DEF then
    <3> QED
      BY <3>1, <3>3, <3>4, <3>5, <3>6
  <2> QED
    BY <2>1, <2>2 DEF L!Result
<1>3. bet'[b] = now /\ Alone(b) /\ BetType'
  BY <1>1, <1>2 DEF LimitInv, BetType, Alone
<1>4. Joinless(b) /\ b \notin L!Undecided'
  BY <1>1, <1>2, <1>3 DEF Joinless, L!Counted, L!Undecided, BetRows
<1>5. \A c \in L!Undecided' : c \in L!Undecided
  BY <1>3, <1>4 DEF L!Undecided, Alone
<1>6. RoomInv'
  BY <1>1, <1>3, <1>4, <1>5, JoinlessRoom DEF LimitInv, RoomInv
<1>7. L!LimitTypeOK'
  <2>1. LimitInv /\ L!LimitTypeOK /\ day' \in 0..1 /\ overlapped' \in BOOLEAN
    BY <1>1 DEF LimitInv, BetType
  <2>2. ASSUME NEW c \in Bets
        PROVE  /\ bet'[c].pc \in BetSteps
               /\ bet'[c].won > 0 => bet'[c].pc = "SETTLED" /\ bet'[c].won \in Prizes
               /\ bet'[c].pc # "none" => bet'[c].stake \in Stakes
    BY <1>1, <1>2, <1>3, <2>1 DEF L!LimitTypeOK, Alone, BetSteps
  <2> QED
    BY <2>1, <2>2 DEF L!LimitTypeOK, BetSteps
<1>8. \A c \in Bets : bet'[c].day <= day'
  BY <1>1, <1>2, <1>3 DEF LimitInv, Alone
<1> QED
  BY <1>3, <1>6, <1>7, <1>8 DEF LimitInv

\* A new day has no bets.
LEMMA MidnightKeeps == ASSUME LimitInv, L!Midnight PROVE LimitInv'
<1>1. /\ day = 0 /\ day' = 1 /\ UNCHANGED <<bet, overlapped>>
      /\ \A limit \in {SessionWager, SessionLoss, DailyWager, DailyLoss} :
           limit = L!NoLimit \/ limit \in Nat
  BY LimitAssumption DEF L!Midnight
<1>2. \A b \in Bets : bet'[b].day = 0
  BY <1>1 DEF LimitInv, BetType, BetRows
<1>3. L!OfDay' = {}
  BY <1>1, <1>2 DEF L!OfDay, L!Counted
<1>4. Wager(bet', L!OfDay') = 0 /\ Loss(bet', L!OfDay') = 0
  BY <1>3, EmptySum DEF Wager, Won, Loss
<1>5. /\ L!Undecided' = L!Undecided /\ \A s : L!OfSeat(s)' = L!OfSeat(s)
  BY <1>1 DEF L!Undecided, L!OfSeat, L!Counted
<1>6. Within(L!OfDay, DailyWager, DailyLoss)'
  BY <1>1, <1>4 DEF Within
<1>7. ASSUME ~overlapped'
      PROVE  /\ \A s \in Seats : Within(L!OfSeat(s), SessionWager, SessionLoss)'
             /\ \A b \in L!Undecided' :
                  Room(bet[b].stake, L!OfSeat(bet[b].seat), SessionWager, SessionLoss)'
  <2>1. /\ RoomInv /\ ~overlapped
    BY <1>1, <1>7 DEF LimitInv
  <2>2. ASSUME NEW s \in Seats PROVE Within(L!OfSeat(s), SessionWager, SessionLoss)'
    BY <1>1, <1>5, <2>1 DEF RoomInv, Within
  <2>3. ASSUME NEW b \in L!Undecided'
        PROVE  Room(bet[b].stake, L!OfSeat(bet[b].seat), SessionWager, SessionLoss)'
    <3>1. Room(bet[b].stake, L!OfSeat(bet[b].seat), SessionWager, SessionLoss)
      BY <1>5, <2>1 DEF RoomInv
    <3>2. L!OfSeat(bet[b].seat)' = L!OfSeat(bet[b].seat)
      BY <1>1 DEF L!OfSeat, L!Counted
    <3> QED
      BY <1>1, <3>1, <3>2 DEF Room
  <2> QED
    BY <2>2, <2>3
<1>8. RoomInv'
  <2>1. ASSUME NEW b \in L!Undecided' PROVE bet'[b].day # day'
    BY <1>1, <1>2 DEF L!Undecided
  <2>2. ~overlapped' => \A b, c \in L!Undecided' : b = c
    BY <1>1, <1>5 DEF LimitInv, RoomInv
  <2> QED
    BY <1>6, <1>7, <2>1, <2>2 DEF RoomInv
<1>9. BetType' /\ \A b \in Bets : bet'[b].day <= day'
  BY <1>1, <1>2 DEF LimitInv, BetType
<1>10. L!LimitTypeOK'
  BY <1>1 DEF LimitInv, L!LimitTypeOK
<1> QED
  BY <1>8, <1>9, <1>10 DEF LimitInv

LEMMA InitLimit == Init => LimitInv
<1> SUFFICES ASSUME L!LimitInit PROVE LimitInv
  BY DEF Init
<1>1. /\ bet = [b \in Bets |-> L!NoBet] /\ day = 0 /\ overlapped = FALSE
      /\ \A limit \in {SessionWager, SessionLoss, DailyWager, DailyLoss} :
           limit = L!NoLimit \/ limit \in Nat
  BY LimitAssumption DEF L!LimitInit
<1>2. /\ L!NoBet \in BetRows /\ L!NoBet.pc = "none" /\ L!NoBet.won = 0 /\ L!NoBet.day = 0
  <2>1. L!NoBet \in BetRows
    BY DEF BetRows, BetSteps, L!NoBet
  <2>2. L!NoBet.pc = "none" /\ L!NoBet.won = 0 /\ L!NoBet.day = 0
    BY DEF L!NoBet
  <2> QED
    BY <2>1, <2>2
<1>3. BetType /\ L!LimitTypeOK /\ \A b \in Bets : bet[b].day <= day
  <2>1. \A b \in Bets : bet[b] = L!NoBet
    BY <1>1
  <2>2. day \in 0..1 /\ \A b \in Bets : bet[b].day <= day
    BY <1>1, <1>2, <2>1
  <2>3. overlapped \in BOOLEAN
    BY <1>1
  <2>4. bet \in [Bets -> BetRows]
    BY <1>1, <1>2
  <2>5. \A b \in Bets : bet[b].pc = "none" /\ ~(bet[b].won > 0)
    BY <1>2, <2>1
  <2>6. L!LimitTypeOK
    BY <2>2, <2>3, <2>5 DEF L!LimitTypeOK
  <2> QED
    BY <2>2, <2>3, <2>4, <2>6 DEF BetType
<1>4. L!Undecided = {} /\ L!OfDay = {} /\ \A s : L!OfSeat(s) = {}
  BY <1>1, <1>2 DEF L!Undecided, L!OfDay, L!OfSeat, L!Counted
<1>5. Wager(bet, {}) = 0 /\ Loss(bet, {}) = 0
  BY EmptySum DEF Wager, Won, Loss
<1>6. RoomInv
  BY <1>1, <1>4, <1>5 DEF RoomInv, Within
<1> QED
  BY <1>3, <1>6 DEF LimitInv

LEMMA LimitStep == ASSUME LimitInv, [Next]_allVars PROVE LimitInv'
<1>1. CASE L!LimitNext
  <2>1. CASE \E b \in Bets, s \in Seats, k \in Stakes : L!CheckSession(b, s, k)
    BY <2>1, CheckSessionKeeps
  <2>2. CASE \E b \in Bets : L!CheckDay(b) \/ L!Place(b) \/ L!Answered(b) \/ L!Result(b)
    BY <2>2, CheckDayKeeps, PlaceKeeps, AnsweredKeeps, ResultKeeps
  <2> QED
    BY <1>1, <2>1, <2>2, MidnightKeeps DEF L!LimitNext
<1>2. CASE UNCHANGED limitVars
  BY <1>2 DEF limitVars, LimitInv, BetType, L!LimitTypeOK, RoomInv, Within, Room, L!OfSeat, L!OfDay,
     L!Undecided, L!Counted
<1> QED
  BY <1>1, <1>2 DEF Next, allVars, EnginesOnly, SessionsOnly, SocketsOnly, LimitsOnly

\* What a bet may be, by each rule of a jurisdiction.
LEMMA BreachIs ==
  ASSUME NEW r, r.maxStake \in Nat \cup {L!NoLimit}, r.minSpin \in Nat,
         NEW b, b.stake \in 1..3, b.since \in Nat \cup {L!NoLimit}, b.mode \in {"real", "demo"},
         r.autoplay \in BOOLEAN, r.turbo \in BOOLEAN, r.demoWithoutKyc \in BOOLEAN,
         b.autoplay \in BOOLEAN, b.turbo \in BOOLEAN, b.kyc \in BOOLEAN
  PROVE  L!Breach(r, b) = "none" <=>
           /\ r.currencies # {} => b.currency \in r.currencies
           /\ b.mode = "demo" => r.demoWithoutKyc \/ b.kyc
           /\ r.maxStake = L!NoLimit \/ b.stake \in 1..r.maxStake
           /\ b.autoplay => r.autoplay
           /\ b.turbo => r.turbo
           /\ b.since > 0 => b.since >= r.minSpin
<1>1. (r.maxStake # L!NoLimit /\ b.stake > r.maxStake) <=> ~(r.maxStake = L!NoLimit \/ b.stake \in 1..r.maxStake)
  BY DEF L!NoLimit
<1>2. (r.minSpin > 0 /\ b.since > 0 /\ b.since < r.minSpin) <=> ~(b.since > 0 => b.since >= r.minSpin)
  BY DEF L!NoLimit
<1> QED
  BY Zenon, <1>1, <1>2 DEF L!Breach

\* A jurisdiction is a record of rules.
IsRules(r) ==
    /\ r.maxStake \in Nat \cup {L!NoLimit} /\ r.minSpin \in Nat
    /\ r.autoplay \in BOOLEAN /\ r.turbo \in BOOLEAN /\ r.demoWithoutKyc \in BOOLEAN

LEMMA RulesAre ==
  ASSUME NEW stake \in {L!NoLimit, 1, 2}, NEW spin \in {0, 4, 5, 6, 10}, NEW auto \in BOOLEAN,
         NEW turbo \in BOOLEAN, NEW currencies, NEW demo \in BOOLEAN
  PROVE  IsRules(L!Rules(stake, spin, auto, turbo, currencies, demo))
<1>1. stake \in Nat \cup {L!NoLimit} /\ spin \in Nat
  OBVIOUS
<1> QED
  BY Zenon, <1>1 DEF L!Rules, IsRules

LEMMA BreachIsExactHolds == L!BreachIsExact
<1>1. ASSUME NEW code \in L!Codes PROVE IsRules(L!getJurisdiction(code))
  <2>1. /\ L!getJurisdiction("GB") = L!UK /\ L!getJurisdiction("DE") = L!DE
        /\ L!getJurisdiction("ES") = L!ES /\ L!getJurisdiction("ON") = L!ON_CA
        /\ L!getJurisdiction("MT") = L!MT /\ L!getJurisdiction("SE") = L!SE
        /\ L!getJurisdiction("RO") = L!RO /\ L!getJurisdiction("BR") = L!BR
        /\ L!getJurisdiction("HN") = L!HN /\ L!getJurisdiction("INTL") = L!INTL
        /\ L!getJurisdiction("MULTI") = L!INTL /\ L!getJurisdiction("XX") = L!INTL
    BY DEF L!getJurisdiction
  <2>2. IsRules(L!UK) /\ IsRules(L!DE) /\ IsRules(L!ES) /\ IsRules(L!ON_CA) /\ IsRules(L!MT)
    BY RulesAre DEF L!UK, L!DE, L!ES, L!ON_CA, L!MT
  <2>3. IsRules(L!SE) /\ IsRules(L!RO) /\ IsRules(L!BR) /\ IsRules(L!HN) /\ IsRules(L!INTL)
    BY RulesAre DEF L!SE, L!RO, L!BR, L!HN, L!INTL
  <2> QED
    BY <2>1, <2>2, <2>3 DEF L!Codes
<1>2. ASSUME NEW b \in [currency : {"EUR", "GBP", "CAD"}, mode : {"real", "demo"}, kyc : BOOLEAN,
                        stake : 1..3, autoplay : BOOLEAN, turbo : BOOLEAN,
                        since : {L!NoLimit, 0, 4, 5, 9, 10}]
      PROVE  /\ b.stake \in 1..3 /\ b.since \in Nat \cup {L!NoLimit} /\ b.mode \in {"real", "demo"}
             /\ b.autoplay \in BOOLEAN /\ b.turbo \in BOOLEAN /\ b.kyc \in BOOLEAN
  BY DEF L!NoLimit
<1> QED
  BY <1>1, <1>2, BreachIs DEF L!BreachIsExact, IsRules

LEMMA FloorOnlyTightensHolds == L!FloorOnlyTightens
  BY DEF L!FloorOnlyTightens, L!Tightest, L!NoLimit

LEMMA GeoFailsClosedHolds == L!GeoFailsClosed
  BY DEF L!GeoFailsClosed, L!CountryAllowed

\* A quotient, and twice the divisor.
LEMMA QuotientIs ==
  ASSUME NEW x \in Nat, NEW d \in Nat \ {0}
  PROVE  x \div d \in Nat /\ d * (x \div d) <= x /\ x < d * (x \div d) + d
  OBVIOUS

LEMMA TimesKeeps ==
  ASSUME NEW p \in Nat, NEW a \in Nat, NEW b \in Nat, a <= b
  PROVE  p * a <= p * b
  OBVIOUS

LEMMA HalfQuotient ==
  ASSUME NEW x \in Nat, NEW p \in Nat \ {0}
  PROVE  x \div (2 * p) = (x \div p) \div 2
<1> DEFINE u == x \div p
           w == u \div 2
           v == x \div (2 * p)
<1>1. u \in Nat /\ p * u <= x /\ x < p * u + p
  BY QuotientIs
<1>2. w \in Nat /\ 2 * w <= u /\ u < 2 * w + 2
  BY <1>1
<1>3. v \in Nat /\ (2 * p) * v <= x /\ x < (2 * p) * v + 2 * p
  <2>1. 2 * p \in Nat \ {0}
    OBVIOUS
  <2> QED
    BY <2>1, QuotientIs
<1> HIDE DEF u, w, v
<1>4. ~(v >= w + 1)
  <2> SUFFICES ASSUME v >= w + 1 PROVE FALSE
    OBVIOUS
  <2>1. p * (u + 1) <= p * (2 * w + 2)
    BY <1>1, <1>2, TimesKeeps
  <2>2. (2 * p) * (w + 1) <= (2 * p) * v
    BY <1>2, <1>3, TimesKeeps
  <2>3. p * (u + 1) = p * u + p /\ p * (2 * w + 2) = (2 * p) * (w + 1)
    BY <1>1, <1>2
  <2>4. p * u \in Int /\ (2 * p) * v \in Int /\ (2 * p) * (w + 1) \in Int
    BY <1>1, <1>2, <1>3
  <2> QED
    BY <1>1, <1>3, <2>1, <2>2, <2>3, <2>4
<1>5. ~(w >= v + 1)
  <2> SUFFICES ASSUME w >= v + 1 PROVE FALSE
    OBVIOUS
  <2>1. p * (2 * w) <= p * u
    BY <1>1, <1>2, TimesKeeps
  <2>2. (2 * p) * (v + 1) <= (2 * p) * w
    BY <1>2, <1>3, TimesKeeps
  <2>3. p * (2 * w) = (2 * p) * w /\ (2 * p) * (v + 1) = (2 * p) * v + 2 * p
    BY <1>2, <1>3
  <2>4. p * u \in Int /\ (2 * p) * v \in Int /\ (2 * p) * w \in Int
    BY <1>1, <1>2, <1>3
  <2> QED
    BY <1>1, <1>3, <2>1, <2>2, <2>3, <2>4
<1>6. v = w
  BY <1>2, <1>3, <1>4, <1>5
<1> QED
  BY <1>6 DEF u, v, w

\* Bit j of a byte, from the highest.
BitOf(x, j) == (x \div 2^(ByteBits - 1 - j)) % 2

\* The bits above a place are equal if and only if the numbers are, without what is below.
LEMMA HighBits ==
  ASSUME NEW x \in Nat, NEW y \in Nat, x < 2^ByteBits, y < 2^ByteBits, NEW k \in 0..ByteBits
  PROVE  x \div 2^(ByteBits - k) = y \div 2^(ByteBits - k) <=> \A j \in 0..(k - 1) : BitOf(x, j) = BitOf(y, j)
<1> DEFINE High(n) == x \div 2^(ByteBits - n) = y \div 2^(ByteBits - n)
           Equal(n) == \A j \in 0..(n - 1) : BitOf(x, j) = BitOf(y, j)
           C == {n \in Nat : n <= ByteBits => (High(n) <=> Equal(n))}
<1>1. 0 \in C
  <2>1. 2^ByteBits \in Nat \ {0} /\ ByteBits - 0 = ByteBits
    BY LimitAssumption
  <2>2. x \div 2^ByteBits = 0 /\ y \div 2^ByteBits = 0
    <3>1. ASSUME NEW z \in Nat, NEW d \in Nat \ {0}, z < d PROVE z \div d = 0
      <4>1. z \div d \in Nat /\ d * (z \div d) <= z
        BY QuotientIs
      <4>2. CASE z \div d >= 1
        <5>1. d * 1 <= d * (z \div d)
          BY <4>1, <4>2, TimesKeeps
        <5>2. d * (z \div d) \in Int
          BY <4>1
        <5> QED
          BY <3>1, <4>1, <5>1, <5>2
      <4> QED
        BY <4>1, <4>2
    <3> QED
      BY <2>1, <3>1
  <2>3. High(0) /\ Equal(0)
    BY <2>1, <2>2
  <2> QED
    BY <2>3
<1>2. ASSUME NEW n \in Nat, n \in C PROVE n + 1 \in C
  <2> SUFFICES ASSUME n + 1 <= ByteBits PROVE High(n + 1) <=> Equal(n + 1)
    OBVIOUS
  <2> DEFINE m == ByteBits - (n + 1)
             p == 2^m
  <2>1. m \in 0..ByteBits /\ ByteBits - n = m + 1 /\ ByteBits - 1 - n = m /\ n <= ByteBits
    BY LimitAssumption
  <2>2. p \in Nat \ {0} /\ 2^(m + 1) = 2 * p
    BY <2>1, LimitAssumption
  <2> HIDE DEF p, m
  <2>3. x \div (2 * p) = (x \div p) \div 2 /\ y \div (2 * p) = (y \div p) \div 2
    BY <2>2, HalfQuotient
  <2>4. x \div p \in Nat /\ y \div p \in Nat
    BY <2>2, QuotientIs
  <2>5. x \div p = y \div p <=> /\ (x \div p) \div 2 = (y \div p) \div 2
                                /\ (x \div p) % 2 = (y \div p) % 2
    <3>1. \A u, v \in Nat : u = v <=> u \div 2 = v \div 2 /\ u % 2 = v % 2
      OBVIOUS
    <3> QED
      BY <2>4, <3>1
  <2>6. High(n + 1) <=> x \div p = y \div p
    BY DEF p, m
  <2>7. High(n) <=> (x \div p) \div 2 = (y \div p) \div 2
    BY <2>1, <2>2, <2>3
  <2>8. BitOf(x, n) = (x \div p) % 2 /\ BitOf(y, n) = (y \div p) % 2
    BY <2>1 DEF BitOf, p
  <2>9. Equal(n + 1) <=> Equal(n) /\ BitOf(x, n) = BitOf(y, n)
    <3>1. \A j : j \in 0..((n + 1) - 1) <=> j \in 0..(n - 1) \/ j = n
      OBVIOUS
    <3> QED
      BY <3>1
  <2>10. High(n) <=> Equal(n)
    BY <1>2, <2>1
  <2> QED
    BY <2>5, <2>6, <2>7, <2>8, <2>9, <2>10
<1>3. \A n \in Nat : n \in C
  <2> HIDE DEF C
  <2> QED
    BY <1>1, <1>2, EveryNumber
<1> QED
  BY <1>3

\* The bits of a range, in the byte where they are.
LEMMA ByteBitsEqual ==
  ASSUME NEW a \in L!Address, NEW b \in L!Address, NEW i \in 1..2, NEW bits \in 0..(2 * ByteBits)
  PROVE  L!ByteMatches(a, b, i, bits) <=>
           \A j \in 0..(ByteBits - 1) : ByteBits * (i - 1) + j < bits => BitOf(a[i], j) = BitOf(b[i], j)
<1> DEFINE before == ByteBits * (i - 1)
           remaining == bits - before
           x == a[i]
           y == b[i]
<1>1. /\ ByteBits \in Nat \ {0} /\ 2^ByteBits \in Nat \ {0} /\ 2^0 = 1
  BY LimitAssumption
<1>2. before \in Nat /\ remaining \in Int
  BY <1>1
<1>3. x \in Nat /\ y \in Nat /\ x < 2^ByteBits /\ y < 2^ByteBits
  BY <1>1 DEF L!Address
<1> HIDE DEF x, y, before
<1>4. CASE remaining >= ByteBits
  <2>1. ByteBits - ByteBits = 0 /\ x \div 1 = x /\ y \div 1 = y /\ ByteBits \in 0..ByteBits
    BY <1>1, <1>3
  <2>2. x = y <=> \A j \in 0..(ByteBits - 1) : BitOf(x, j) = BitOf(y, j)
    <3>1. x \div 2^(ByteBits - ByteBits) = y \div 2^(ByteBits - ByteBits)
            <=> \A j \in 0..(ByteBits - 1) : BitOf(x, j) = BitOf(y, j)
      BY <1>3, <2>1, HighBits
    <3>2. 2^(ByteBits - ByteBits) = 1
      BY <1>1, <2>1
    <3> QED
      BY <2>1, <3>1, <3>2
  <2>3. \A j \in 0..(ByteBits - 1) : before + j < bits
    BY <1>1, <1>2, <1>4
  <2>4. L!ByteMatches(a, b, i, bits) <=> x = y
    BY <1>4 DEF L!ByteMatches, x, y, before
  <2> QED
    BY <2>2, <2>3, <2>4 DEF x, y, before
<1>5. CASE remaining > 0 /\ remaining < ByteBits
  <2>1. remaining \in 0..ByteBits
    BY <1>1, <1>2, <1>5
  <2>2. L!MaskedEqual(x, y, remaining) <=> \A j \in 0..(remaining - 1) : BitOf(x, j) = BitOf(y, j)
    BY <1>3, <2>1, HighBits DEF L!MaskedEqual
  <2>3. \A j \in 0..(ByteBits - 1) : before + j < bits <=> j \in 0..(remaining - 1)
    BY <1>1, <1>2
  <2>4. \A j \in 0..(remaining - 1) : j \in 0..(ByteBits - 1)
    BY <1>1, <1>2, <1>5
  <2>5. L!ByteMatches(a, b, i, bits) <=> L!MaskedEqual(x, y, remaining)
    BY <1>1, <1>2, <1>5 DEF L!ByteMatches, x, y, before
  <2>6. (\A j \in 0..(remaining - 1) : BitOf(x, j) = BitOf(y, j)) <=>
           \A j \in 0..(ByteBits - 1) : before + j < bits => BitOf(x, j) = BitOf(y, j)
    BY <2>3, <2>4
  <2> QED
    BY <2>2, <2>5, <2>6 DEF x, y, before
<1>6. CASE remaining <= 0
  <2>1. L!ByteMatches(a, b, i, bits)
    BY <1>1, <1>2, <1>6 DEF L!ByteMatches, before
  <2>2. \A j \in 0..(ByteBits - 1) : ~(before + j < bits)
    BY <1>2, <1>6
  <2> QED
    BY <2>1, <2>2 DEF before
<1> QED
  BY <1>1, <1>2, <1>4, <1>5, <1>6

\* The place of a bit in the address, and in its byte.
LEMMA PlaceOfBit ==
  ASSUME NEW bytes, NEW i \in 1..2, NEW j \in 0..(ByteBits - 1)
  PROVE  L!Bit(bytes, ByteBits * (i - 1) + j + 1) = BitOf(bytes[i], j)
<1> DEFINE n == ByteBits * (i - 1) + j
<1>1. ByteBits \in Nat \ {0} /\ n \in Nat /\ (n + 1) - 1 = n
  BY LimitAssumption
<1>2. n \div ByteBits = i - 1 /\ n % ByteBits = j
  <2>1. CASE i = 1
    <3>1. n = j
      BY <1>1, <2>1
    <3>2. \A d \in Nat \ {0} : \A z \in 0..(d - 1) : z \div d = 0 /\ z % d = z
      OBVIOUS
    <3> QED
      BY <1>1, <2>1, <3>1, <3>2
  <2>2. CASE i = 2
    <3>1. n = ByteBits + j
      BY <1>1, <2>2
    <3>2. \A d \in Nat \ {0} : \A z \in 0..(d - 1) : (d + z) \div d = 1 /\ (d + z) % d = z
      OBVIOUS
    <3> QED
      BY <1>1, <2>2, <3>1, <3>2
  <2> QED
    BY <2>1, <2>2
<1> HIDE DEF n
<1>3. L!Bit(bytes, n + 1) = (bytes[(n \div ByteBits) + 1] \div 2^(ByteBits - 1 - (n % ByteBits))) % 2
  BY <1>1 DEF L!Bit
<1>4. (n \div ByteBits) + 1 = i
  BY <1>2
<1> QED
  BY <1>2, <1>3, <1>4 DEF n, BitOf

LEMMA RangeIsPrefixHolds == L!RangeIsPrefix
<1> SUFFICES ASSUME NEW family \in {"v4", "v6"}, NEW bits \in 0..(2 * ByteBits),
                    NEW a \in L!Address, NEW b \in L!Address
             PROVE  L!MatchIp([family |-> family, bytes |-> a],
                              [family |-> family, bytes |-> b, bits |-> bits])
                      <=> \A n \in 1..bits : L!Bit(a, n) = L!Bit(b, n)
  BY DEF L!RangeIsPrefix
<1>1. ByteBits \in Nat \ {0} /\ bits \in Nat /\ bits <= 2 * ByteBits
  BY LimitAssumption
<1>2. L!Len(a) = 2
  BY DEF L!Address
<1>3. L!MatchIp([family |-> family, bytes |-> a], [family |-> family, bytes |-> b, bits |-> bits])
        <=> \A i \in 1..2 : L!ByteMatches(a, b, i, bits)
  <2> DEFINE ip == [family |-> family, bytes |-> a]
             range == [family |-> family, bytes |-> b, bits |-> bits]
  <2>1. /\ ip.family = range.family /\ ip.bytes = a /\ range.bytes = b /\ range.bits = bits
        /\ range.bits # L!NoLimit /\ bits <= ByteBits * 2
    BY <1>1 DEF L!NoLimit
  <2> HIDE DEF ip, range
  <2> QED
    BY <1>2, <2>1 DEF L!MatchIp
<1>4. \A i \in 1..2 : \A j \in 0..(ByteBits - 1) :
        /\ ByteBits * (i - 1) + j \in Nat
        /\ L!Bit(a, ByteBits * (i - 1) + j + 1) = BitOf(a[i], j)
        /\ L!Bit(b, ByteBits * (i - 1) + j + 1) = BitOf(b[i], j)
  BY <1>1, PlaceOfBit
<1>5. ASSUME \A i \in 1..2 : L!ByteMatches(a, b, i, bits), NEW n \in 1..bits
      PROVE  L!Bit(a, n) = L!Bit(b, n)
  <2>1. PICK i \in 1..2, j \in 0..(ByteBits - 1) : n = ByteBits * (i - 1) + j + 1
    <3>1. CASE n <= ByteBits
      <4>1. n - 1 \in 0..(ByteBits - 1) /\ n = ByteBits * (1 - 1) + (n - 1) + 1
        BY <1>1, <3>1
      <4> QED
        BY <4>1
    <3>2. CASE n > ByteBits
      <4>1. n - 1 - ByteBits \in 0..(ByteBits - 1) /\ n = ByteBits * (2 - 1) + (n - 1 - ByteBits) + 1
        BY <1>1, <3>2
      <4> QED
        BY <4>1
    <3> QED
      BY <1>1, <3>1, <3>2
  <2>2. ByteBits * (i - 1) + j < bits
    BY <1>1, <1>4, <2>1
  <2>3. BitOf(a[i], j) = BitOf(b[i], j)
    BY <1>5, <2>2, ByteBitsEqual
  <2> QED
    BY <1>4, <2>1, <2>3
<1>6. ASSUME \A n \in 1..bits : L!Bit(a, n) = L!Bit(b, n), NEW i \in 1..2
      PROVE  L!ByteMatches(a, b, i, bits)
  <2> SUFFICES ASSUME NEW j \in 0..(ByteBits - 1), ByteBits * (i - 1) + j < bits
               PROVE  BitOf(a[i], j) = BitOf(b[i], j)
    BY ByteBitsEqual
  <2>1. ByteBits * (i - 1) + j + 1 \in 1..bits
    BY <1>1, <1>4
  <2> QED
    BY <1>4, <1>6, <2>1
<1> QED
  BY Zenon, <1>3, <1>5, <1>6

\* ResponsibleGamingChecks (checks.ts), jurisdiction-rules.ts, ip-allow-list.ts and
\* geo-allowlist.ts: the session's and the day's limits hold for any bets, stakes, prizes
\* and limits, in any order, unless checks overlap; a bet is let through exactly by the
\* rules of its jurisdiction, an address by the bits of its range, for bytes of any width.
THEOREM LimitsAndGatesHolds == Spec => []LimitsAndGates
<1>1. ASSUME LimitInv PROVE L!LimitsHold
  BY <1>1, TotalsAre DEF LimitInv, RoomInv, Within, L!LimitsHold
<1>2. LimitInv => LimitsAndGates
  BY <1>1, BreachIsExactHolds, FloorOnlyTightensHolds, RangeIsPrefixHolds, GeoFailsClosedHolds
     DEF LimitInv, LimitsAndGates
<1> QED
  BY <1>2, InitLimit, LimitStep, PTL DEF Spec

-----------------------------------------------------------------------------
(* The engines.                                                             *)

\* A caller at work on an engine, or an engine at work.
Starting(c) == call[c].pc \notin {"idle", "listed"}
Busy(c) == Starting(c) \/ Alive(c)

\* An engine that starts has its caller waiting for start(), and a configuration that the
\* plugin accepted; startAllEnabled() comes first.
CallInv ==
    /\ down = "boot" => call[Boot].pc = "idle"
    /\ \A c \in Callers :
         /\ engines[c].state = "starting" <=> call[c].pc = "start"
         /\ call[c].pc \in {"attest", "adapter"} => call[c].row.math # Bad

\* Nobody else is at work beside the one who is, and what lives is in the map.
LoneInv ==
    ~raced =>
        /\ \A c, d \in Callers : Busy(c) /\ Busy(d) => c = d
        /\ \A c \in Callers : Alive(c) => map = c
        /\ down = "stopping" => \A c \in Callers : ~Busy(c)

\* What a patch wrote, and what a caller read, is the row; only a patch that is still to
\* be pushed keeps the engine from it.
RowInv ==
    ~raced =>
        /\ \A p \in Committed : patch[p].seen = row
        /\ \A p, q \in Committed : p = q
        /\ \A c \in Callers : call[c].pc \in {"attest", "adapter"} => call[c].row = row
        /\ map # None /\ Committed = {} =>
             /\ engines[map].limits = row.limits
             /\ row.math # Bad => engines[map].math = row.math

Inv == TypeOK /\ CallInv /\ LoneInv /\ RowInv /\ HaltIsSeenHere

USE CallerAssumption, WantAssumption

-----------------------------------------------------------------------------
(* Lemmas about rows.                                                       *)

\* A function that has the columns of a row is one.
LEMMA RowIs ==
  ASSUME NEW r, r = [f \in Fields |-> r[f]], \A f \in Fields : r[f] \in Column(f)
  PROVE  r \in Rows
<1>1. r["enabled"] \in BOOLEAN
  BY DEF Fields, Column
<1>2. r["limits"] \in Nat
  BY DEF Fields, Column
<1>3. r["math"] \in Nat \cup {Bad}
  BY DEF Fields, Column
<1> QED
  BY <1>1, <1>2, <1>3 DEF Fields, Rows

LEMMA RowHas == ASSUME NEW r \in Rows, NEW f \in Fields PROVE r[f] \in Column(f)
<1>1. r["enabled"] \in BOOLEAN /\ r["limits"] \in Nat /\ r["math"] \in Nat \cup {Bad}
  BY DEF Rows
<1>2. CASE f = "enabled"
  BY <1>1, <1>2 DEF Column
<1>3. CASE f = "limits"
  BY <1>1, <1>3 DEF Column
<1>4. CASE f = "math"
  BY <1>1, <1>4 DEF Column
<1> QED
  BY <1>2, <1>3, <1>4 DEF Fields

\* The row a patch leaves is one.
LEMMA MergeIs ==
  ASSUME NEW p, patch[p].want \in Wants \cup {<<>>}, NEW old \in Rows
  PROVE  Merge(Differs(p), old) \in Rows
<1> DEFINE w == patch[p].want
           d == Differs(p)
           new == Merge(d, old)
<1>1. DOMAIN w \subseteq Fields /\ \A f \in DOMAIN w : w[f] \in Column(f)
  OBVIOUS
<1>2. \A f \in DOMAIN d : f \in DOMAIN w /\ d[f] = w[f]
  BY DEF Differs
<1> HIDE DEF d, w
<1>3. \A f \in Fields : new[f] = IF f \in DOMAIN d THEN d[f] ELSE old[f]
  BY DEF Merge
<1>4. \A f \in Fields : new[f] \in Column(f)
  BY <1>1, <1>2, <1>3, RowHas
<1>5. new = [f \in Fields |-> new[f]]
  BY DEF Merge
<1> HIDE DEF new
<1>6. new \in Rows
  BY <1>4, <1>5, RowIs
<1> QED
  BY <1>6 DEF new, d

LEMMA EmptyRow == Idle.row \in Rows /\ Idle \in Calls /\ Idle.pc = "idle"
  BY DEF Idle, Rows, Calls

LEMMA InitInv == ControlInit => Inv
<1> SUFFICES ASSUME ControlInit PROVE Inv
  OBVIOUS
<1>1. TypeOK
  <2>1. /\ op \in {"ACTIVE", "PAUSED"} /\ cache = "none" /\ map = None /\ down = "boot"
        /\ row = [enabled |-> TRUE, limits |-> 1, math |-> 1]
        /\ call = [c \in Callers |-> Idle] /\ engines = [c \in Callers |-> NoEngine]
        /\ patch = [p \in Patches |-> NoPatch] /\ hand = [h \in Hands |-> "idle"]
    BY DEF ControlInit
  <2>2. halt \in BOOLEAN /\ raced \in BOOLEAN /\ stale \in BOOLEAN
    BY DEF ControlInit
  <2>3. row \in Rows
    BY <2>1 DEF Rows
  <2>4. NoEngine \in Engines
    BY DEF NoEngine, Engines
  <2>5. NoPatch \in Edits
    BY EmptyRow DEF NoPatch, Edits
  <2> QED
    BY <2>1, <2>2, <2>3, <2>4, <2>5, EmptyRow DEF TypeOK
<1>2. /\ \A c \in Callers : call[c].pc = "idle" /\ engines[c].state = "none"
      /\ \A p \in Patches : patch[p].pc = "idle"
      /\ map = None /\ down = "boot" /\ cache = "none"
  BY DEF ControlInit, Idle, NoEngine, NoPatch
<1> QED
  BY <1>1, <1>2 DEF Inv, CallInv, LoneInv, RowInv, HaltIsSeenHere, Busy, Starting, Alive, Committed

-----------------------------------------------------------------------------
(* The kill switch.                                                         *)

LEMMA EnginesKept ==
  ASSUME CallInv, LoneInv, RowInv, UNCHANGED <<row, call, engines, map, patch, down, raced>>
  PROVE  CallInv' /\ LoneInv' /\ RowInv'
  BY DEF CallInv, LoneInv, RowInv, Busy, Starting, Alive, Committed

LEMMA HaltKept ==
  ASSUME HaltIsSeenHere, UNCHANGED <<halt, cache, hand, stale>>
  PROVE  HaltIsSeenHere'
  BY DEF HaltIsSeenHere

\* Who flips it has it still to clear, or is another process.
LEMMA FlipInv == ASSUME Inv, NEW h \in Hands, Flip(h) PROVE Inv'
<1>1. /\ halt' = ~halt /\ hand' = [hand EXCEPT ![h] = "written"]
      /\ UNCHANGED <<op, row, cache, call, engines, map, patch, down, raced, stale>>
  BY DEF Flip
<1>2. CallInv' /\ LoneInv' /\ RowInv'
  BY <1>1, EnginesKept DEF Inv
<1>3. hand'[h] = "written" /\ hand' \in [Hands -> {"idle", "written", "on", "off"}]
  BY <1>1 DEF Inv, TypeOK
<1>4. halt' \in BOOLEAN
  BY <1>1
<1>5. TypeOK'
  BY <1>1, <1>3, <1>4 DEF Inv, TypeOK
<1>6. HaltIsSeenHere'
  BY <1>3 DEF HaltIsSeenHere
<1> QED
  BY <1>2, <1>5, <1>6 DEF Inv

LEMMA FlipElsewhereInv == ASSUME Inv, FlipElsewhere PROVE Inv'
<1>1. /\ halt' = ~halt /\ stale'
      /\ UNCHANGED <<op, row, cache, call, engines, map, patch, hand, down, raced>>
  BY DEF FlipElsewhere
<1>2. CallInv' /\ LoneInv' /\ RowInv'
  BY <1>1, EnginesKept DEF Inv
<1>3. halt' \in BOOLEAN /\ stale' \in BOOLEAN
  BY DEF FlipElsewhere
<1>4. TypeOK'
  BY <1>1, <1>3 DEF Inv, TypeOK
<1>5. HaltIsSeenHere'
  BY <1>1 DEF HaltIsSeenHere
<1> QED
  BY <1>2, <1>4, <1>5 DEF Inv

\* A copy that is gone says nothing.
LEMMA DropInv == ASSUME Inv, Expire \/ \E h \in Hands : Clear(h) PROVE Inv'
<1>1. /\ cache' = "none"
      /\ UNCHANGED <<op, row, halt, call, engines, map, patch, down, raced, stale>>
  BY DEF Expire, Clear
<1>2. CallInv' /\ LoneInv' /\ RowInv'
  BY <1>1, EnginesKept DEF Inv
<1>3. hand' \in [Hands -> {"idle", "written", "on", "off"}]
  <2>1. CASE Expire
    BY <2>1 DEF Expire, Inv, TypeOK
  <2>2. ASSUME NEW h \in Hands, Clear(h) PROVE hand' \in [Hands -> {"idle", "written", "on", "off"}]
    <3>1. Copy(halt) \in {"on", "off"}
      BY DEF Copy
    <3> QED
      BY <2>2, <3>1 DEF Clear, Inv, TypeOK
  <2> QED
    BY <2>1, <2>2
<1>4. TypeOK'
  BY <1>1, <1>3 DEF Inv, TypeOK
<1>5. HaltIsSeenHere'
  BY <1>1 DEF HaltIsSeenHere
<1> QED
  BY <1>2, <1>4, <1>5 DEF Inv

\* An old answer is remembered as one.
LEMMA HandFillsInv == ASSUME Inv, NEW h \in Hands, HandFills(h) PROVE Inv'
<1>1. /\ hand[h] \in {"on", "off"} /\ hand' = [hand EXCEPT ![h] = "idle"] /\ cache' = hand[h]
      /\ UNCHANGED <<op, row, halt, call, engines, map, patch, down, raced>>
  BY DEF HandFills
<1>2. CallInv' /\ LoneInv' /\ RowInv'
  BY <1>1, EnginesKept DEF Inv
<1>3. stale' \in BOOLEAN /\ (hand[h] # Copy(halt) => stale')
  BY DEF HandFills
<1>4. TypeOK'
  BY <1>1, <1>3 DEF Inv, TypeOK
<1>5. HaltIsSeenHere'
  <2>1. halt => Copy(halt) = "on"
    BY DEF Copy
  <2>2. halt' /\ cache' = "off" => stale'
    BY <1>1, <1>3, <2>1
  <2> QED
    BY <2>2 DEF HaltIsSeenHere
<1> QED
  BY <1>2, <1>4, <1>5 DEF Inv

LEMMA TenantInv == ASSUME Inv, Tenant PROVE Inv'
<1>1. /\ op' \in {"ACTIVE", "PAUSED"}
      /\ UNCHANGED <<row, halt, cache, call, engines, map, patch, hand, down, raced, stale>>
  BY DEF Tenant
<1>2. TypeOK'
  BY <1>1 DEF Inv, TypeOK
<1> QED
  BY <1>1, <1>2, EnginesKept, HaltKept DEF Inv

-----------------------------------------------------------------------------
(* EngineRegistry.                                                          *)

\* The step of a caller that touches no engine.
LEMMA CallMoves ==
  ASSUME Inv, NEW c \in Callers, NEW k \in Calls, call' = [call EXCEPT ![c] = k],
         k.pc \in {"idle", "listed", "config", "attest", "adapter"},
         engines[c].state # "starting",
         k.pc \in {"attest", "adapter"} => k.row.math # Bad /\ (~raced => k.row = row),
         Starting(c) \/ k.pc \in {"idle", "listed"},
         down' \in {down, "up"}, k.pc = "listed" => down' # "boot",
         UNCHANGED <<row, engines, map, patch, raced>>
  PROVE  call' \in [Callers -> Calls] /\ CallInv' /\ LoneInv' /\ RowInv'
<1>1. /\ call'[c] = k /\ call' \in [Callers -> Calls]
      /\ \A d \in Callers : d # c => call'[d] = call[d]
  BY DEF Inv, TypeOK
<1>2. CallInv'
  <2>1. \A d \in Callers : /\ engines'[d].state = "starting" <=> call'[d].pc = "start"
                           /\ call'[d].pc \in {"attest", "adapter"} => call'[d].row.math # Bad
    BY <1>1 DEF Inv, CallInv
  <2>2. down' = "boot" => call'[Boot].pc = "idle"
    BY <1>1 DEF Inv, CallInv, Starting
  <2> QED
    BY <2>1, <2>2 DEF CallInv
<1>3. LoneInv'
  <2>1. \A d \in Callers : Busy(d)' => Busy(d)
    BY <1>1 DEF Busy, Starting, Alive
  <2>2. \A d \in Callers : Alive(d)' = Alive(d)
    BY DEF Alive
  <2> QED
    BY <2>1, <2>2 DEF Inv, LoneInv
<1>4. RowInv'
  BY <1>1 DEF Inv, RowInv, Committed
<1> QED
  BY <1>1, <1>2, <1>3, <1>4

\* Goto() changes the step of a call and nothing that it read.
LEMMA GotoIs ==
  ASSUME TypeOK, NEW c \in Callers,
         NEW pc \in {"idle", "listed", "config", "adapter", "start"}, Goto(c, pc)
  PROVE  \E k \in Calls : call' = [call EXCEPT ![c] = k] /\ k.row = call[c].row /\ k.pc = pc
<1> DEFINE k == [call[c] EXCEPT !.pc = pc]
<1>1. call' = [call EXCEPT ![c] = k]
  BY DEF Goto
<1>2. call[c] \in Calls
  BY DEF TypeOK
<1>3. k \in Calls /\ k.row = call[c].row /\ k.pc = pc
  BY <1>2 DEF Calls
<1> QED
  BY <1>1, <1>3

\* startAllEnabled() lists the one tuple, or not.
LEMMA BootListsInv == ASSUME Inv, BootLists PROVE Inv'
<1>1. /\ down = "boot" /\ down' = "up"
      /\ UNCHANGED <<op, row, halt, cache, engines, map, patch, hand, raced, stale>>
  BY DEF BootLists
<1>2. PICK k \in Calls : call' = [call EXCEPT ![Boot] = k] /\ k.pc \in {"idle", "listed"}
  <2>1. CASE Goto(Boot, "listed")
    BY <2>1, GotoIs DEF Inv
  <2>2. CASE UNCHANGED call
    <3>1. call' = [call EXCEPT ![Boot] = call[Boot]] /\ call[Boot] \in Calls
      BY <2>2 DEF Inv, TypeOK
    <3>2. call[Boot].pc = "idle"
      BY <1>1 DEF Inv, CallInv
    <3> QED
      BY <3>1, <3>2
  <2> QED
    BY <2>1, <2>2 DEF BootLists
<1>3. engines[Boot].state # "starting"
  BY <1>1 DEF Inv, CallInv
<1>4. call' \in [Callers -> Calls] /\ CallInv' /\ LoneInv' /\ RowInv'
  BY <1>1, <1>2, <1>3, CallMoves
<1>5. TypeOK'
  BY <1>1, <1>4 DEF Inv, TypeOK
<1> QED
  BY <1>1, <1>4, <1>5, HaltKept DEF Inv

LEMMA BootIdlesInv == ASSUME Inv, BootIdles PROVE Inv'
<1>1. /\ call[Boot].pc = "listed" /\ Goto(Boot, "idle")
      /\ UNCHANGED <<op, row, halt, cache, engines, map, patch, hand, down, raced, stale>>
  BY DEF BootIdles
<1>2. PICK k \in Calls : call' = [call EXCEPT ![Boot] = k] /\ k.pc = "idle"
  BY <1>1, GotoIs DEF Inv
<1>3. engines[Boot].state # "starting"
  BY <1>1 DEF Inv, CallInv
<1>4. call' \in [Callers -> Calls] /\ CallInv' /\ LoneInv' /\ RowInv'
  BY <1>1, <1>2, <1>3, CallMoves
<1>5. TypeOK'
  BY <1>1, <1>4 DEF Inv, TypeOK
<1> QED
  BY <1>1, <1>4, <1>5, HaltKept DEF Inv

\* Who asks while nobody else does, and nothing lives or stops, is alone.
LEMMA EnsureInv == ASSUME Inv, NEW c \in Callers, Ensure(c) PROVE Inv'
<1>1. /\ call[c].pc = (IF c = Boot THEN "listed" ELSE "idle") /\ ~Alive(c)
      /\ UNCHANGED <<op, row, halt, cache, engines, map, patch, hand, down, stale>>
  BY DEF Ensure
<1>2. PICK k \in Calls : call' = [call EXCEPT ![c] = k] /\ k.pc \in {"config", "refill"}
  <2> DEFINE k == [Idle EXCEPT !.pc = IF cache = "off" THEN "config" ELSE "refill",
                               !.halt = IF cache = "off" THEN FALSE ELSE halt]
  <2>1. call' = [call EXCEPT ![c] = k]
    BY DEF Ensure
  <2>2. k \in Calls /\ k.pc \in {"config", "refill"}
    <3>1. Idle \in Calls /\ (IF cache = "off" THEN FALSE ELSE halt) \in BOOLEAN
      BY EmptyRow DEF Inv, TypeOK
    <3> QED
      BY <3>1 DEF Calls
  <2> QED
    BY <2>1, <2>2
<1>3. /\ raced' \in BOOLEAN
      /\ ~raced' => ~raced /\ down # "stopping" /\ \A d \in Callers \ {c} : ~Asking(d) /\ ~Alive(d)
  BY DEF Ensure
<1>4. /\ call'[c] = k /\ call' \in [Callers -> Calls]
      /\ \A d \in Callers : d # c => call'[d] = call[d]
  BY <1>2 DEF Inv, TypeOK
<1>5. CallInv'
  <2>1. engines[c].state # "starting"
    BY <1>1 DEF Alive
  <2>2. \A d \in Callers : /\ engines'[d].state = "starting" <=> call'[d].pc = "start"
                           /\ call'[d].pc \in {"attest", "adapter"} => call'[d].row.math # Bad
    BY <1>1, <1>2, <1>4, <2>1 DEF Inv, CallInv
  <2>3. down' = "boot" => call'[Boot].pc = "idle"
    BY <1>1, <1>4 DEF Inv, CallInv
  <2> QED
    BY <2>2, <2>3 DEF CallInv
<1>6. LoneInv'
  <2> SUFFICES ASSUME ~raced' PROVE LoneInv'
    BY DEF LoneInv
  <2>1. \A d \in Callers : d # c => ~Busy(d)'
    BY <1>1, <1>3, <1>4 DEF Busy, Starting, Asking, Alive
  <2>2. \A d \in Callers : ~Alive(d)'
    BY <1>1, <1>3 DEF Alive
  <2> QED
    BY <1>1, <1>3, <2>1, <2>2 DEF LoneInv
<1>7. RowInv'
  BY <1>1, <1>2, <1>3, <1>4 DEF Inv, RowInv, Committed
<1>8. TypeOK'
  BY <1>1, <1>3, <1>4 DEF Inv, TypeOK
<1> QED
  BY <1>1, <1>5, <1>6, <1>7, <1>8, HaltKept DEF Inv

LEMMA RefillInv == ASSUME Inv, NEW c \in Callers, Refill(c) PROVE Inv'
<1>1. /\ call[c].pc = "refill" /\ cache' = Copy(call[c].halt)
      /\ Goto(c, IF call[c].halt THEN "idle" ELSE "config")
      /\ UNCHANGED <<op, row, halt, engines, map, patch, hand, down, raced>>
  BY DEF Refill
<1>2. stale' \in BOOLEAN /\ (call[c].halt # halt => stale')
  BY DEF Refill
<1>3. PICK k \in Calls : call' = [call EXCEPT ![c] = k] /\ k.pc \in {"idle", "config"}
  <2>1. CASE Goto(c, "idle")
    BY <2>1, GotoIs DEF Inv
  <2>2. CASE Goto(c, "config")
    BY <2>2, GotoIs DEF Inv
  <2> QED
    BY <1>1, <2>1, <2>2
<1>4. engines[c].state # "starting" /\ Starting(c)
  BY <1>1 DEF Inv, CallInv, Starting
<1>5. call' \in [Callers -> Calls] /\ CallInv' /\ LoneInv' /\ RowInv'
  BY <1>1, <1>3, <1>4, CallMoves
<1>6. cache' \in {"on", "off"}
  BY <1>1 DEF Copy
<1>7. TypeOK'
  BY <1>1, <1>2, <1>5, <1>6 DEF Inv, TypeOK
<1>8. HaltIsSeenHere'
  <2>1. halt /\ call[c].halt = halt => cache' = "on"
    BY <1>1 DEF Copy
  <2>2. halt' /\ cache' = "off" => stale'
    BY <1>1, <1>2, <2>1
  <2> QED
    BY <2>2 DEF HaltIsSeenHere
<1> QED
  BY <1>5, <1>7, <1>8 DEF Inv

LEMMA ReadConfigInv == ASSUME Inv, NEW c \in Callers, ReadConfig(c) PROVE Inv'
<1>1. /\ call[c].pc = "config"
      /\ UNCHANGED <<op, row, halt, cache, engines, map, patch, hand, down, raced, stale>>
  BY DEF ReadConfig
<1>2. PICK k \in Calls :
        /\ call' = [call EXCEPT ![c] = k]
        /\ k.pc \in {"attest", "idle"}
        /\ k.pc = "attest" => k.row = row /\ k.row.math # Bad
  <2>1. CASE call' = [call EXCEPT ![c] = Idle]
    BY <2>1, EmptyRow
  <2>2. CASE row.math # Bad /\ call' = [call EXCEPT ![c] = [pc |-> "attest", halt |-> FALSE, row |-> row]]
    <3>1. row \in Rows
      BY DEF Inv, TypeOK
    <3>2. [pc |-> "attest", halt |-> FALSE, row |-> row] \in Calls
      BY <3>1 DEF Calls
    <3> QED
      BY <2>2, <3>2
  <2> QED
    BY <2>1, <2>2 DEF ReadConfig
<1>3. engines[c].state # "starting" /\ Starting(c)
  BY <1>1 DEF Inv, CallInv, Starting
<1>4. call' \in [Callers -> Calls] /\ CallInv' /\ LoneInv' /\ RowInv'
  BY <1>1, <1>2, <1>3, CallMoves
<1>5. TypeOK'
  BY <1>1, <1>4 DEF Inv, TypeOK
<1> QED
  BY <1>1, <1>4, <1>5, HaltKept DEF Inv

LEMMA AttestInv == ASSUME Inv, NEW c \in Callers, Attest(c) PROVE Inv'
<1>1. /\ call[c].pc = "attest"
      /\ UNCHANGED <<op, row, halt, cache, engines, map, patch, hand, down, raced, stale>>
  BY DEF Attest
<1>2. PICK k \in Calls :
        /\ call' = [call EXCEPT ![c] = k]
        /\ k.pc \in {"adapter", "idle"}
        /\ k.pc = "adapter" => k.row = call[c].row
  <2>1. CASE call' = [call EXCEPT ![c] = Idle]
    BY <2>1, EmptyRow
  <2>2. CASE Goto(c, "adapter")
    BY <2>2, GotoIs DEF Inv
  <2> QED
    BY <2>1, <2>2 DEF Attest
<1>3. /\ engines[c].state # "starting" /\ Starting(c)
      /\ call[c].row.math # Bad /\ (~raced => call[c].row = row)
  BY <1>1 DEF Inv, CallInv, RowInv, Starting
<1>4. call' \in [Callers -> Calls] /\ CallInv' /\ LoneInv' /\ RowInv'
  BY <1>1, <1>2, <1>3, CallMoves
<1>5. TypeOK'
  BY <1>1, <1>4 DEF Inv, TypeOK
<1> QED
  BY <1>1, <1>4, <1>5, HaltKept DEF Inv

\* The engine that goes into the map plays by the row that its caller read.
LEMMA CreateInv == ASSUME Inv, NEW c \in Callers, Create(c) PROVE Inv'
<1> DEFINE new == [state |-> "starting", limits |-> call[c].row.limits, math |-> call[c].row.math]
<1>1. /\ call[c].pc = "adapter" /\ Goto(c, "start") /\ map' = c
      /\ engines' = [engines EXCEPT ![c] = new]
      /\ UNCHANGED <<op, row, halt, cache, patch, hand, down, raced, stale>>
  BY DEF Create
<1>2. PICK k \in Calls : call' = [call EXCEPT ![c] = k] /\ k.pc = "start"
  BY <1>1, GotoIs DEF Inv
<1>3. /\ call'[c] = k /\ call' \in [Callers -> Calls]
      /\ \A d \in Callers : d # c => call'[d] = call[d]
  BY <1>2 DEF Inv, TypeOK
<1>4. new \in Engines
  <2>1. call[c].row \in Rows /\ call[c].row.math # Bad
    BY <1>1 DEF Inv, TypeOK, CallInv, Calls
  <2>2. call[c].row.limits \in Nat /\ call[c].row.math \in Nat
    BY <2>1 DEF Rows
  <2> QED
    BY <2>2 DEF Engines
<1>5. /\ engines'[c] = new /\ engines' \in [Callers -> Engines]
      /\ \A d \in Callers : d # c => engines'[d] = engines[d]
  BY <1>1, <1>4 DEF Inv, TypeOK
<1>6. Busy(c)
  BY <1>1 DEF Busy, Starting
<1>7. \A d \in Callers : Busy(d)' => Busy(d)
  BY <1>3, <1>5, <1>6 DEF Busy, Starting, Alive
<1>8. CallInv'
  <2>1. \A d \in Callers : /\ engines'[d].state = "starting" <=> call'[d].pc = "start"
                           /\ call'[d].pc \in {"attest", "adapter"} => call'[d].row.math # Bad
    BY <1>2, <1>3, <1>5 DEF Inv, CallInv
  <2>2. down' = "boot" => call'[Boot].pc = "idle"
    BY <1>1, <1>3 DEF Inv, CallInv
  <2> QED
    BY <2>1, <2>2 DEF CallInv
<1>9. LoneInv'
  <2>1. \A d \in Callers : Alive(d)' => Busy(d)
    BY <1>7 DEF Busy
  <2> QED
    BY <1>1, <1>6, <1>7, <2>1 DEF Inv, LoneInv
<1>10. RowInv'
  <2>1. Committed' = Committed
    BY <1>1 DEF Committed
  <2>2. \A d \in Callers : call'[d].pc \in {"attest", "adapter"} =>
          call'[d] = call[d]
    BY <1>2, <1>3
  <2>3. ~raced => engines'[c].limits = row.limits /\ engines'[c].math = row.math
    BY <1>1, <1>5 DEF Inv, RowInv
  <2> QED
    BY <1>1, <2>1, <2>2, <2>3 DEF Inv, RowInv
<1>11. TypeOK'
  BY <1>1, <1>3, <1>5 DEF Inv, TypeOK
<1> QED
  BY <1>1, <1>8, <1>9, <1>10, <1>11, HaltKept DEF Inv

\* The step in which states of engines change and nothing that they play by does.
LEMMA StatesMove ==
  ASSUME RowInv, TypeOK, UNCHANGED <<row, map, patch, raced>>, NEW T \in SUBSET Callers,
         NEW s, engines' = [c \in Callers |-> IF c \in T THEN [engines[c] EXCEPT !.state = s]
                                              ELSE engines[c]],
         \A c \in Callers : call'[c] = call[c] \/ call'[c].pc = "idle"
  PROVE  RowInv'
<1>1. Committed' = Committed
  BY DEF Committed
<1>2. \A c \in Callers : engines'[c].limits = engines[c].limits /\ engines'[c].math = engines[c].math
  BY DEF TypeOK, Engines
<1>3. map # None => map \in Callers
  BY DEF TypeOK
<1> QED
  BY <1>1, <1>2, <1>3 DEF RowInv

\* start() has ended, one way or the other.
LEMMA StartedInv == ASSUME Inv, NEW c \in Callers, Started(c) PROVE Inv'
<1>1. /\ call[c].pc = "start" /\ call' = [call EXCEPT ![c] = Idle]
      /\ UNCHANGED <<op, row, halt, cache, map, patch, hand, down, raced, stale>>
  BY DEF Started
<1>2. PICK s \in {"running", "failed"} : engines' = [engines EXCEPT ![c].state = s]
  BY DEF Started
<1>3. /\ call'[c] = Idle /\ call' \in [Callers -> Calls]
      /\ \A d \in Callers : d # c => call'[d] = call[d]
  BY <1>1, EmptyRow DEF Inv, TypeOK
<1>4. /\ engines'[c].state = s /\ engines' \in [Callers -> Engines]
      /\ \A d \in Callers : d # c => engines'[d] = engines[d]
  <2>1. engines[c] \in Engines
    BY DEF Inv, TypeOK
  <2>2. [engines[c] EXCEPT !.state = s] \in Engines /\ [engines[c] EXCEPT !.state = s].state = s
    BY <2>1 DEF Engines
  <2> QED
    BY <1>2, <2>2 DEF Inv, TypeOK
<1>5. Alive(c)
  BY <1>1 DEF Inv, CallInv, Alive
<1>6. CallInv'
  <2>1. \A d \in Callers : /\ engines'[d].state = "starting" <=> call'[d].pc = "start"
                           /\ call'[d].pc \in {"attest", "adapter"} => call'[d].row.math # Bad
    BY <1>3, <1>4, EmptyRow DEF Inv, CallInv
  <2>2. down' = "boot" => call'[Boot].pc = "idle"
    BY <1>1, <1>3, EmptyRow DEF Inv, CallInv
  <2> QED
    BY <2>1, <2>2 DEF CallInv
<1>7. LoneInv'
  <2>1. \A d \in Callers : Busy(d)' => Busy(d)
    BY <1>3, <1>4, <1>5 DEF Busy, Starting, Alive
  <2>2. \A d \in Callers : Alive(d)' => Alive(d)
    BY <1>4, <1>5 DEF Alive
  <2> QED
    BY <1>1, <2>1, <2>2 DEF Inv, LoneInv
<1>8. RowInv'
  <2>1. engines' = [d \in Callers |-> IF d \in {c} THEN [engines[d] EXCEPT !.state = s] ELSE engines[d]]
    BY <1>2 DEF Inv, TypeOK
  <2>2. \A d \in Callers : call'[d] = call[d] \/ call'[d].pc = "idle"
    BY <1>3, EmptyRow
  <2> QED
    BY <1>1, <2>1, <2>2, StatesMove DEF Inv
<1>9. TypeOK'
  <2>1. map # None => engines'[map].state # "none"
    BY <1>4 DEF Inv, TypeOK
  <2> QED
    BY <1>1, <1>3, <1>4, <2>1 DEF Inv, TypeOK
<1> QED
  BY <1>1, <1>6, <1>7, <1>8, <1>9, HaltKept DEF Inv

\* What runs is stopped; unless a caller was at work, that is all there was.
LEMMA StopAllInv == ASSUME Inv, StopAll PROVE Inv'
<1>1. /\ down = "up" /\ down' = "stopping" /\ raced' \in BOOLEAN
      /\ ~raced' => ~raced /\ \A c \in Callers : ~Asking(c)
      /\ UNCHANGED <<op, row, halt, cache, call, map, patch, hand, stale>>
  BY DEF StopAll
<1> DEFINE T == {c \in Callers : c = map /\ engines[c].state = "running"}
<1>2. engines' = [c \in Callers |-> IF c \in T THEN [engines[c] EXCEPT !.state = "stopped"]
                                    ELSE engines[c]]
  <2>1. CASE map # None /\ engines[map].state = "running"
    <3>1. map \in Callers /\ engines' = [engines EXCEPT ![map].state = "stopped"]
      BY <2>1 DEF StopAll, Inv, TypeOK
    <3>2. \A c \in Callers : c \in T <=> c = map
      BY <2>1
    <3> HIDE DEF T
    <3> QED
      BY <3>1, <3>2 DEF Inv, TypeOK
  <2>2. CASE ~(map # None /\ engines[map].state = "running")
    <3>1. engines' = engines
      BY <2>2 DEF StopAll
    <3>2. T = {}
      BY <2>2
    <3> HIDE DEF T
    <3> QED
      BY <3>1, <3>2 DEF Inv, TypeOK
  <2> QED
    BY <2>1, <2>2
<1>3. \A c \in Callers :
        engines'[c] \in Engines /\ engines'[c].state = IF c \in T THEN "stopped" ELSE engines[c].state
  <2> SUFFICES ASSUME NEW c \in Callers
               PROVE  /\ engines'[c] \in Engines
                      /\ engines'[c].state = IF c \in T THEN "stopped" ELSE engines[c].state
    OBVIOUS
  <2> HIDE DEF T
  <2>1. engines[c] \in Engines
    BY DEF Inv, TypeOK
  <2>2. /\ [engines[c] EXCEPT !.state = "stopped"] \in Engines
        /\ [engines[c] EXCEPT !.state = "stopped"].state = "stopped"
    BY <2>1 DEF Engines
  <2> QED
    BY <1>2, <2>1, <2>2
<1>4. engines' \in [Callers -> Engines] /\ (map # None => engines'[map].state # "none")
  BY <1>2, <1>3 DEF Inv, TypeOK
<1>5. CallInv'
  BY <1>1, <1>3 DEF Inv, CallInv
<1>6. LoneInv'
  <2> SUFFICES ASSUME ~raced' PROVE \A c \in Callers : ~Busy(c)'
    BY <1>1 DEF LoneInv, Busy
  <2> SUFFICES ASSUME NEW c \in Callers PROVE ~Busy(c)'
    OBVIOUS
  <2>1. call[c].pc = "idle" /\ ~raced
    BY <1>1 DEF Asking
  <2>2. Alive(c) => c \in T
    BY <2>1 DEF Inv, CallInv, LoneInv, Alive
  <2>3. engines'[c].state = "starting" \/ engines'[c].state = "running" => Alive(c) /\ c \notin T
    BY <1>3 DEF Alive
  <2> HIDE DEF T
  <2> QED
    BY <1>1, <2>1, <2>2, <2>3 DEF Busy, Starting, Alive
<1>7. RowInv'
  <2>1. CASE raced'
    BY <2>1 DEF RowInv
  <2>2. CASE ~raced'
    <3>1. ~raced
      BY <1>1, <2>2
    <3>2. raced' = raced
      BY <1>1, <2>2, <3>1 DEF Inv, TypeOK
    <3>3. T \in SUBSET Callers
      OBVIOUS
    <3> HIDE DEF T
    <3> QED
      BY <1>1, <1>2, <3>2, <3>3, StatesMove DEF Inv
  <2> QED
    BY <2>1, <2>2
<1>8. TypeOK'
  BY <1>1, <1>4 DEF Inv, TypeOK
<1> QED
  BY <1>1, <1>5, <1>6, <1>7, <1>8, HaltKept DEF Inv

LEMMA ClearedInv == ASSUME Inv, Cleared PROVE Inv'
<1>1. /\ down = "stopping" /\ down' = "down" /\ map' = None
      /\ UNCHANGED <<op, row, halt, cache, call, engines, patch, hand, raced, stale>>
  BY DEF Cleared
<1>2. CallInv'
  BY <1>1 DEF Inv, CallInv
<1>3. LoneInv'
  <2>1. \A c \in Callers : Busy(c)' = Busy(c) /\ (Alive(c)' => Busy(c))
    BY <1>1 DEF Busy, Starting, Alive
  <2> QED
    BY <1>1, <2>1 DEF Inv, LoneInv
<1>4. RowInv'
  BY <1>1 DEF Inv, RowInv, Committed
<1>5. TypeOK'
  BY <1>1 DEF Inv, TypeOK
<1> QED
  BY <1>1, <1>2, <1>3, <1>4, <1>5, HaltKept DEF Inv

-----------------------------------------------------------------------------
(* The patches.                                                             *)

\* The step of a patch that commits nothing and was not committed.
LEMMA PatchMoves ==
  ASSUME Inv, NEW p \in Patches, NEW e \in Edits, patch' = [patch EXCEPT ![p] = e],
         patch[p].pc # "committed", e.pc # "committed",
         UNCHANGED <<op, row, halt, cache, call, engines, map, hand, down, raced, stale>>
  PROVE  Inv'
<1>1. /\ patch' \in [Patches -> Edits] /\ patch'[p] = e
      /\ \A q \in Patches : q # p => patch'[q] = patch[q]
  BY DEF Inv, TypeOK
<1>2. Committed' = Committed
  BY <1>1 DEF Committed
<1>3. \A q \in Committed : patch'[q] = patch[q]
  BY <1>1 DEF Committed
<1>4. RowInv'
  BY <1>2, <1>3 DEF Inv, RowInv
<1>5. CallInv' /\ LoneInv'
  BY DEF Inv, CallInv, LoneInv, Busy, Starting, Alive
<1>6. TypeOK'
  BY <1>1 DEF Inv, TypeOK
<1> QED
  BY <1>4, <1>5, <1>6, HaltKept DEF Inv

LEMMA NoPatchIs == NoPatch \in Edits /\ NoPatch.pc = "idle"
  BY EmptyRow DEF NoPatch, Edits

LEMMA PatchReadsInv == ASSUME Inv, NEW p \in Patches, PatchReads(p) PROVE Inv'
<1>1. /\ patch[p].pc = "idle"
      /\ UNCHANGED <<op, row, halt, cache, call, engines, map, hand, down, raced, stale>>
  BY DEF PatchReads
<1>2. PICK w \in Wants : patch' = [patch EXCEPT ![p] = [pc |-> "read", want |-> w, seen |-> row]]
  BY DEF PatchReads
<1>3. [pc |-> "read", want |-> w, seen |-> row] \in Edits
  BY DEF Inv, TypeOK, Edits
<1> QED
  BY <1>1, <1>2, <1>3, PatchMoves

\* Who commits while nobody else is between two steps is the only one.
LEMMA PatchCommitsInv == ASSUME Inv, NEW p \in Patches, PatchCommits(p) PROVE Inv'
<1>1. /\ patch[p].pc = "read"
      /\ UNCHANGED <<op, halt, cache, call, engines, map, hand, down, stale>>
  BY DEF PatchCommits
<1>2. CASE patch' = [patch EXCEPT ![p] = NoPatch] /\ UNCHANGED <<row, raced>>
  BY <1>1, <1>2, NoPatchIs, PatchMoves
<1>3. CASE /\ row' = Merge(Differs(p), row)
           /\ patch' = [patch EXCEPT ![p] = [@ EXCEPT !.pc = "committed", !.seen = row']]
           /\ raced' = (raced \/ Committed # {} \/ \E c \in Callers : Asking(c))
  <2>1. row' \in Rows
    <3>1. patch[p].want \in Wants \cup {<<>>} /\ row \in Rows
      BY DEF Inv, TypeOK, Edits
    <3> QED
      BY <1>3, <3>1, MergeIs
  <2>2. /\ raced' \in BOOLEAN
        /\ ~raced' => ~raced /\ Committed = {} /\ \A c \in Callers : call[c].pc = "idle"
    BY <1>3 DEF Asking
  <2>3. PICK e \in Edits : patch' = [patch EXCEPT ![p] = e] /\ e.seen = row'
    <3> DEFINE e == [patch[p] EXCEPT !.pc = "committed", !.seen = row']
    <3>1. patch[p] \in Edits
      BY DEF Inv, TypeOK
    <3>2. e \in Edits /\ e.seen = row'
      BY <2>1, <3>1 DEF Edits
    <3> QED
      BY <1>3, <3>2
  <2>4. /\ patch' \in [Patches -> Edits] /\ patch'[p].seen = row'
        /\ \A q \in Patches : q # p => patch'[q] = patch[q]
    BY <2>3 DEF Inv, TypeOK
  <2>5. patch'[p].pc = "committed"
    BY <1>3, <2>4 DEF Inv, TypeOK, Edits
  <2>6. ~raced' => Committed' = {p}
    BY <2>2, <2>4, <2>5 DEF Committed
  <2>7. RowInv'
    BY <1>1, <2>2, <2>4, <2>6 DEF RowInv
  <2>8. CallInv'
    BY <1>1 DEF Inv, CallInv
  <2>9. LoneInv'
    BY <1>1, <2>2 DEF Inv, LoneInv, Busy, Starting, Alive
  <2>10. TypeOK'
    BY <1>1, <2>1, <2>2, <2>4 DEF Inv, TypeOK
  <2> QED
    BY <1>1, <2>7, <2>8, <2>9, <2>10, HaltKept DEF Inv
<1> QED
  BY <1>2, <1>3 DEF PatchCommits

\* What is pushed is the row, as far as the plugin accepts it.
LEMMA PatchPushesInv == ASSUME Inv, NEW p \in Patches, PatchPushes(p) PROVE Inv'
<1>1. /\ patch[p].pc = "committed" /\ patch' = [patch EXCEPT ![p] = NoPatch]
      /\ UNCHANGED <<op, row, halt, cache, call, map, hand, down, raced, stale>>
  BY DEF PatchPushes
<1>2. /\ patch' \in [Patches -> Edits] /\ patch'[p] = NoPatch
      /\ \A q \in Patches : q # p => patch'[q] = patch[q]
  BY <1>1, NoPatchIs DEF Inv, TypeOK
<1>3. Committed' = Committed \ {p} /\ p \in Committed
  BY <1>1, <1>2, NoPatchIs DEF Committed
<1>4. patch[p].seen \in Rows
  BY DEF Inv, TypeOK, Edits
<1> DEFINE seen == patch[p].seen
<1>5. /\ seen.limits \in Nat /\ seen.math \in Nat \cup {Bad}
  BY <1>4 DEF Rows
<1>6. /\ engines' \in [Callers -> Engines]
      /\ \A c \in Callers : engines'[c].state = engines[c].state
      /\ map # None => /\ engines'[map].limits = seen.limits
                       /\ seen.math # Bad => engines'[map].math = seen.math
  <2>1. CASE map = None
    BY <2>1 DEF PatchPushes, Inv, TypeOK
  <2>2. CASE map # None
    <3>1. map \in Callers /\ engines[map] \in Engines
      BY <2>2 DEF Inv, TypeOK
    <3> DEFINE m == IF seen.math = Bad THEN engines[map].math ELSE seen.math
               new == [engines[map] EXCEPT !.limits = seen.limits, !.math = m]
    <3>2. engines' = [engines EXCEPT ![map].limits = seen.limits, ![map].math = m]
      BY <2>2 DEF PatchPushes
    <3>3. m \in Nat /\ (seen.math # Bad => m = seen.math)
      BY <1>5, <3>1 DEF Engines
    <3> HIDE DEF m, seen
    <3>4. engines' = [engines EXCEPT ![map] = new]
      BY <3>1, <3>2 DEF Inv, TypeOK
    <3>5. new \in Engines /\ new.state = engines[map].state /\ new.limits = seen.limits /\ new.math = m
      BY <1>5, <3>1, <3>3 DEF Engines
    <3> HIDE DEF new
    <3> QED
      BY <3>1, <3>3, <3>4, <3>5 DEF Inv, TypeOK
  <2> QED
    BY <2>1, <2>2
<1>7. CallInv'
  BY <1>1, <1>6 DEF Inv, CallInv
<1>8. LoneInv'
  BY <1>1, <1>6 DEF Inv, LoneInv, Busy, Starting, Alive
<1>9. RowInv'
  <2> SUFFICES ASSUME ~raced PROVE RowInv'
    BY <1>1 DEF RowInv
  <2>1. seen = row /\ Committed' = {}
    BY <1>3 DEF Inv, RowInv
  <2>2. \A c \in Callers : call[c].pc \in {"attest", "adapter"} => call[c].row = row
    BY DEF Inv, RowInv
  <2> HIDE DEF seen
  <2> QED
    BY <1>1, <1>6, <2>1, <2>2 DEF RowInv
<1>10. TypeOK'
  BY <1>1, <1>2, <1>6 DEF Inv, TypeOK
<1> QED
  BY <1>1, <1>7, <1>8, <1>9, <1>10, HaltKept DEF Inv

-----------------------------------------------------------------------------
(* The theorems.                                                            *)

LEMMA StutterInv == ASSUME Inv, UNCHANGED controlVars PROVE Inv'
<1>1. UNCHANGED <<op, row, halt, cache, call, engines, map, patch, hand, down, raced, stale>>
  BY DEF controlVars
<1>2. TypeOK'
  BY <1>1 DEF Inv, TypeOK
<1> QED
  BY <1>1, <1>2, EnginesKept, HaltKept DEF Inv

LEMMA NextInv == ASSUME Inv, ControlNext PROVE Inv'
<1>1. CASE \E c \in Callers : CallerRuns(c)
  BY <1>1, RefillInv, ReadConfigInv, AttestInv, CreateInv, StartedInv DEF CallerRuns
<1>2. CASE Expire \/ \E h \in Hands : Clear(h)
  BY <1>2, DropInv
<1>3. CASE \E h \in Hands : HandFills(h)
  BY <1>3, HandFillsInv
<1>4. CASE \E p \in Patches : PatchCommits(p)
  BY <1>4, PatchCommitsInv
<1>5. CASE \E p \in Patches : PatchPushes(p)
  BY <1>5, PatchPushesInv
<1>6. CASE ControlRun
  BY <1>1, <1>2, <1>3, <1>4, <1>5, <1>6, ClearedInv, BootListsInv, BootIdlesInv DEF ControlRun
<1>7. CASE \E c \in Callers : Ensure(c)
  BY <1>7, EnsureInv
<1>8. CASE \E h \in Hands : Flip(h)
  BY <1>8, FlipInv
<1>9. CASE \E p \in Patches : PatchReads(p)
  BY <1>9, PatchReadsInv
<1> QED
  BY <1>6, <1>7, <1>8, <1>9, FlipElsewhereInv, StopAllInv, TenantInv DEF ControlNext

LEMMA SpecInv == ControlSpec => []Inv
<1>1. Inv /\ [ControlNext]_controlVars => Inv'
  BY NextInv, StutterInv
<1> QED
  BY <1>1, InitInv, PTL DEF ControlSpec

\* The one live engine is the one in the map.
LEMMA LiveOnesAreOne == ASSUME Inv, ~raced PROVE Cardinality({c \in Callers : Alive(c)}) <= 1
<1> DEFINE live == {c \in Callers : Alive(c)}
<1>1. \A j, k \in live : j = k
  BY DEF Inv, LoneInv
<1> HIDE DEF live
<1>2. Cardinality(live) <= 1
  BY <1>1, AtMostOne
<1> QED
  BY <1>2 DEF live

\* EngineRegistry, configuration patches, kill switch (EngineRegistry.ts, platform.ts,
\* GlobalKillSwitch.ts): one engine of a tuple, that plays by its row and is stopped by
\* the shutdown, and a halt that this process knows of, for any number of sockets,
\* patches and hands, and levers without end.
THEOREM EnginesAreControlledHolds == ControlSpec => []EnginesAreControlled
<1>1. Inv => LiveConfigMatches
  BY DEF Inv, RowInv, LiveConfigMatches
<1>2. Inv => OneEngineUnlessRaced
  BY LiveOnesAreOne DEF OneEngineUnlessRaced
<1>3. Inv => ShutdownIsQuiet
  BY DEF Inv, LoneInv, ShutdownIsQuiet
<1>4. Inv => EnginesAreControlled
  BY <1>1, <1>2, <1>3 DEF Inv, EnginesAreControlled
<1> QED
  BY <1>4, SpecInv, PTL
=============================================================================
