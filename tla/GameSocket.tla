----------------------------- MODULE GameSocket -----------------------------
(* The sockets of one game room: the handshake, the wait for the engine, the *)
(* presence count and the first balance, while sessions end and players     *)
(* leave.  A step is the code between two awaits.                           *)
EXTENDS Naturals, FiniteSets

CONSTANTS Sockets, Seats,     \* sockets; sessions, as the tokens name them
          Nobody, MaxAttempts

VARIABLES
    ended,       \* sessions that are terminated or past expiresAt
    link,        \* socket: out, waiting for forSession(), joined, gone; its session
    presence,    \* presenceByRoom: sockets counted per session
    shown,       \* the count last emitted to the room
    fetch,       \* initial balance: step and attempt
    told,        \* what the player was told about the balance
    leaked       \* history: sockets that left before they were counted

socketVars == <<ended, link, presence, shown, fetch, told, leaked>>

Out == [pc |-> "out", seat |-> Nobody]
Quiet == [pc |-> "none", attempt |-> 0]

Init ==
    /\ ended = {} /\ link = [k \in Sockets |-> Out] /\ presence = [s \in Seats |-> 0]
    /\ shown = 0 /\ fetch = [k \in Sockets |-> Quiet] /\ told = [k \in Sockets |-> "nothing"]
    /\ leaked = {}

Connected(k) == link[k].pc \in {"waiting", "joined"}
Present == {s \in Seats : presence[s] > 0}

\* A session is terminated, or expires; its sockets stay.
End(s) ==
    /\ s \notin ended /\ ended' = ended \cup {s}
    /\ UNCHANGED <<link, presence, shown, fetch, told, leaked>>

\* io.use(): a valid token of a session that is neither terminated nor expired; then the
\* rooms are joined and forSession() is awaited.
Handshake(k, s) ==
    /\ link[k] = Out /\ s \notin ended
    /\ link' = [link EXCEPT ![k] = [pc |-> "waiting", seat |-> s]]
    /\ UNCHANGED <<ended, presence, shown, fetch, told, leaked>>

\* No engine: engine_unavailable, and the socket is cut.
NoEngine(k) ==
    /\ link[k].pc = "waiting" /\ link' = [link EXCEPT ![k].pc = "gone"]
    /\ UNCHANGED <<ended, presence, shown, fetch, told, leaked>>

\* The player leaves while forSession() is awaited: no handler hears it.
LeavesEarly(k) ==
    /\ link[k].pc = "waiting" /\ link' = [link EXCEPT ![k].pc = "left"]
    /\ UNCHANGED <<ended, presence, shown, fetch, told, leaked>>

\* The engine is there: the socket is counted - one that has left already, for ever -
\* the handlers are registered and the balance is fetched.
Join(k) ==
    LET s == link[k].seat IN
    /\ link[k].pc \in {"waiting", "left"}
    /\ link' = [link EXCEPT ![k].pc = IF @ = "left" THEN "gone" ELSE "joined"]
    /\ leaked' = IF link[k].pc = "left" THEN leaked \cup {k} ELSE leaked
    /\ presence' = [presence EXCEPT ![s] = @ + 1]
    /\ shown' = Cardinality(Present \cup {s})
    /\ fetch' = [fetch EXCEPT ![k] = [pc |-> "asking", attempt |-> 1]]
    /\ UNCHANGED <<ended, told>>

\* Mutant: the session is forgotten with the first of its sockets.
DisconnectForgets(k) ==
    LET s == link[k].seat IN
    /\ link[k].pc = "joined" /\ link' = [link EXCEPT ![k].pc = "gone"]
    /\ presence' = [presence EXCEPT ![s] = 0]
    /\ shown' = Cardinality(Present \ {s})
    /\ UNCHANGED <<ended, fetch, told, leaked>>

\* Mutant: the session is left out of what is shown, whatever tabs it has left.
DisconnectShowsLess(k) ==
    LET s == link[k].seat IN
    /\ link[k].pc = "joined" /\ link' = [link EXCEPT ![k].pc = "gone"]
    /\ presence' = [presence EXCEPT ![s] = @ - 1]
    /\ shown' = Cardinality(Present \ {s})
    /\ UNCHANGED <<ended, fetch, told, leaked>>

\* "disconnect": the count goes down, and with the last socket the session goes.
Disconnect(k) ==
    LET s == link[k].seat IN
    /\ link[k].pc = "joined" /\ link' = [link EXCEPT ![k].pc = "gone"]
    /\ presence' = [presence EXCEPT ![s] = @ - 1]
    /\ shown' = Cardinality(IF presence[s] > 1 THEN Present ELSE Present \ {s})
    /\ UNCHANGED <<ended, fetch, told, leaked>>

\* Mutant: one attempt too many.
BalanceOnceMore(k) ==
    /\ fetch[k].pc = "asking"
    /\ IF fetch[k].attempt <= MaxAttempts
         THEN fetch' = [fetch EXCEPT ![k].pc = "pausing"] /\ UNCHANGED told
         ELSE fetch' = [fetch EXCEPT ![k] = Quiet] /\ told' = [told EXCEPT ![k] = "unavailable"]
    /\ UNCHANGED <<ended, link, presence, shown, leaked>>

\* Mutant: attempts are not counted.
BalanceRetriesForever(k) ==
    /\ fetch[k].pc = "asking"
    /\ \/ fetch' = [fetch EXCEPT ![k] = [pc |-> "pausing", attempt |-> 1]] /\ UNCHANGED told
       \/ /\ fetch' = [fetch EXCEPT ![k] = Quiet]
          /\ told' = IF Connected(k) THEN [told EXCEPT ![k] = "balance"] ELSE told
    /\ UNCHANGED <<ended, link, presence, shown, leaked>>

\* fetchInitialBalanceWithRetry(): a balance, a timeout or an unknown status that is
\* tried again, or a refusal; what comes out last is told to a player still there.
Balance(k) ==
    /\ fetch[k].pc = "asking"
    /\ \E r \in {"balance", "retry", "unavailable"} :
         IF r = "retry" /\ fetch[k].attempt < MaxAttempts
           THEN fetch' = [fetch EXCEPT ![k].pc = "pausing"] /\ UNCHANGED told
           ELSE /\ fetch' = [fetch EXCEPT ![k] = Quiet]
                /\ told' = IF ~Connected(k) THEN told
                           ELSE [told EXCEPT ![k] = IF r = "retry" THEN "unavailable" ELSE r]
    /\ UNCHANGED <<ended, link, presence, shown, leaked>>

\* The pause is over: another attempt, unless the player has left.
Again(k) ==
    /\ fetch[k].pc = "pausing"
    /\ fetch' = [fetch EXCEPT ![k] = IF Connected(k) THEN [pc |-> "asking", attempt |-> @.attempt + 1]
                                     ELSE Quiet]
    /\ UNCHANGED <<ended, link, presence, shown, told, leaked>>

\* The client opens its next socket.
Reconnect(k) ==
    /\ link[k].pc = "gone" /\ fetch[k] = Quiet /\ k \notin leaked
    /\ link' = [link EXCEPT ![k] = Out] /\ told' = [told EXCEPT ![k] = "nothing"]
    /\ UNCHANGED <<ended, presence, shown, fetch, leaked>>

Run(k) == Join(k) \/ Balance(k) \/ Again(k)

Next ==
    \/ \E s \in Seats : End(s)
    \/ \E k \in Sockets :
         \/ Run(k) \/ NoEngine(k) \/ LeavesEarly(k) \/ Disconnect(k) \/ Reconnect(k)
         \/ \E s \in Seats : Handshake(k, s)

-----------------------------------------------------------------------------
(* Properties.                                                              *)

TypeOK ==
    /\ ended \subseteq Seats /\ presence \in [Seats -> 0..Cardinality(Sockets)]
    /\ shown \in 0..Cardinality(Seats) /\ leaked \subseteq Sockets
    /\ \A k \in Sockets :
         /\ link[k].pc \in {"out", "waiting", "left", "joined", "gone"}
         /\ fetch[k].pc \in {"none", "asking", "pausing"} /\ fetch[k].attempt \in 0..MaxAttempts
         /\ told[k] \in {"nothing", "balance", "unavailable"}

\* A session is counted once for each socket that plays on it, however its tabs come and
\* go - and for each that left before the engine was found, whose leaving nobody hears.
PresenceCounts ==
    \A s \in Seats :
        presence[s] = Cardinality({k \in Sockets : link[k].seat = s /\
                                     (link[k].pc = "joined" \/ k \in leaked)})

\* The room was last shown the number of sessions in it.
ShownIsPresent == shown = Cardinality(Present)

\* A player who joins and stays is told a balance, or that there is none.
BalanceTold ==
    \A k \in Sockets : (link[k].pc = "joined") ~> (told[k] # "nothing" \/ link[k].pc # "joined")
=============================================================================
