----------------------------- MODULE MCControl -----------------------------
(* Small instances of what decides who may play: the engines and their      *)
(* switches, the sessions, the sockets and the limits of a player.  They    *)
(* share no state: "part" says which of them this behaviour is about, and   *)
(* the others stay where they started.                                      *)
EXTENDS EngineControl

CONSTANTS Requests, UuidOf, Routes, MaxFaults, Sockets, Seats, Nobody, MaxAttempts,
          Bets, Stakes, Prizes, SessionWager, SessionLoss, DailyWager, DailyLoss, ByteBits

VARIABLES part,
    status, off, stopped, req, stored, session, route, events, revealed, seeds, early, held,
    crossed, excused, meddled, faults,
    ended, link, presence, shown, fetch, told, leaked,
    bet, day, overlapped

sessionVars == <<status, off, stopped, req, stored, session, route, events, revealed, seeds, early,
                 held, crossed, excused, meddled, faults>>
socketVars == <<ended, link, presence, shown, fetch, told, leaked>>
limitVars == <<bet, day, overlapped>>
allVars == <<controlVars, part, sessionVars, socketVars, limitVars>>

\* An answer is a session, a refusal, a failure, or there is none.
ASSUME RequestAssumption ==
    None \notin Requests \cup {"refused", "failed"} /\ {"refused", "failed"} \cap Requests = {}

\* A server has finitely many sockets, and a balance is asked for once at least.
ASSUME SocketAssumption == IsFiniteSet(Sockets) /\ IsFiniteSet(Seats) /\ MaxAttempts \in Nat \ {0}

S == INSTANCE Sessions WITH halt <- stopped, levers <- meddled
K == INSTANCE GameSocket
L == INSTANCE BetLimits WITH raced <- overlapped

\* A player places finitely many bets, of amounts that are not negative, and a limit is an
\* amount or none; a byte has bits, and each bit is worth twice the next.
ASSUME LimitAssumption ==
    /\ IsFiniteSet(Bets) /\ Stakes \subseteq Nat /\ Prizes \subseteq Nat
    /\ \A limit \in {SessionWager, SessionLoss, DailyWager, DailyLoss} :
         limit = L!NoLimit \/ limit \in Nat
    /\ ByteBits \in Nat \ {0} /\ 2^0 = 1
    /\ \A n \in 0..ByteBits : 2^n \in Nat \ {0} /\ 2^(n + 1) = 2 * 2^n

\* A request and the one that is sent again for it.
SameUuid == [r \in Requests |-> "u1"]

\* Patches: limits, a configuration the plugin refuses, and one that disables the game
\* and writes what the row already holds.
WantSet == {[limits |-> 2], [math |-> Bad], [limits |-> 1, enabled |-> FALSE]}

EnginesOnly == part = "engines" /\ UNCHANGED <<part, sessionVars, socketVars, limitVars>>
SessionsOnly == part = "sessions" /\ UNCHANGED <<part, controlVars, socketVars, limitVars>>
SocketsOnly == part = "sockets" /\ UNCHANGED <<part, controlVars, sessionVars, limitVars>>
LimitsOnly == part = "limits" /\ UNCHANGED <<part, controlVars, sessionVars, socketVars>>

Init ==
    /\ part \in {"engines", "sessions", "sockets", "limits"}
    /\ ControlInit /\ S!Init /\ K!Init /\ L!LimitInit
    /\ part # "engines" => op = "ACTIVE"

Next ==
    \/ EnginesOnly /\ ControlNext
    \/ SessionsOnly /\ S!Next
    \/ SocketsOnly /\ K!Next
    \/ LimitsOnly /\ L!LimitNext

\* Awaits end, and the kill switch's copy expires.
Spec ==
    /\ Init /\ [][Next]_allVars
    /\ WF_allVars(EnginesOnly /\ Expire) /\ WF_allVars(EnginesOnly /\ BootIdles)
    /\ \A c \in Callers : WF_allVars(EnginesOnly /\ CallerRuns(c))
    /\ \A k \in Sockets : WF_allVars(SocketsOnly /\ K!Run(k))

InSessions == part = "sessions"
InSockets == part = "sockets"
InLimits == part = "limits"

\* POST /session, its termination and the rotation of its seeds: one session for a
\* request that is sent again, the end of each told to the operator once, and each
\* seed revealed when, and only when, it is out of use.
SessionsAreAccounted ==
    InSessions => /\ S!TypeOK /\ S!OneSessionPerUuid
                  /\ S!TerminationAnnounced /\ S!SeedsAreRevealedInTurn

\* gameSocket.ts: the counts of a room are those of the sockets that play in it, and
\* what the room was last shown, however tabs open and close around the joins' awaits.
PresenceIsShown == InSockets => K!TypeOK /\ K!PresenceCounts /\ K!ShownIsPresent

\* ResponsibleGamingChecks and jurisdiction-rules: limits hold over every order of bets,
\* results and rollbacks that are not checked side by side; and a bet, a limit, an
\* address or a country passes exactly when its rules say so.
LimitsAndGates ==
    InLimits => /\ L!LimitTypeOK /\ L!LimitsHold
                /\ L!BreachIsExact /\ L!FloorOnlyTightens /\ L!RangeIsPrefix /\ L!GeoFailsClosed

\* The levers work and are on record: the audit log leads to the row as it is, no engine
\* starts once the kill switch stays engaged, and a session appears under a suspension or
\* a hold only for a launch that was already past it.
LeversWork ==
    []AuditReplaysRow /\ HaltTakesEffect /\ S!SuspendStopsLaunches /\ S!HoldStopsLaunches

\* A player who joins and stays is told a balance, or that there is none, whatever the
\* wallet answers and whoever joins besides.
BalanceTold == K!BalanceTold
=============================================================================
