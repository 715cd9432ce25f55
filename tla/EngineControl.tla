--------------------------- MODULE EngineControl ---------------------------
(* The registry that starts one engine per (operator, game, currency), the  *)
(* levers that govern it - the global kill switch with its 5 s cache, the   *)
(* configuration patches of the platform portal - and the shutdown.  One    *)
(* process, one such tuple; another process may flip the kill switch too.   *)
(* A step is the code between two awaits.                                   *)
EXTENDS Naturals, Sequences, FiniteSets

CONSTANTS Callers,          \* calls of ensure() that may overlap
          Boot,             \* the caller that is startAllEnabled()
          Patches, Wants,   \* PATCH requests, and what they may ask for
          Hands,            \* engage/disengage requests
          None, Bad,        \* no engine; a configJson its plugin refuses
          MaxLevers

\* The columns of a configuration that matter here, and what they hold.
Fields == {"enabled", "limits", "math"}
Column(f) == CASE f = "enabled" -> BOOLEAN [] f = "limits" -> Nat [] f = "math" -> Nat \cup {Bad}
Rows == [enabled : BOOLEAN, limits : Nat, math : Nat \cup {Bad}]

ASSUME CallerAssumption == Boot \in Callers /\ None \notin Callers /\ Bad \notin Nat
\* The schema of the request admits no other field and no other value.
ASSUME WantAssumption ==
    \A w \in Wants : DOMAIN w \subseteq Fields /\ \A f \in DOMAIN w : w[f] \in Column(f)

VARIABLES
    op, row, trail,         \* Operator.status, OperatorGameConfig, OperatorConfigAuditLog
    halt, cache,            \* GlobalKillSwitch: the row, this process's copy
    call,                   \* ensure(): step, what it read
    engines, map,           \* GameEngine by its creator; EngineRegistry.engines
    patch, hand, down,      \* the other requests under way; stopAll()
    levers,         \* bounds
    raced, stale            \* history: callers or patches overlapped; a cache was
                            \* filled with an old answer

controlVars == <<op, row, trail, halt, cache, call, engines, map, patch, hand, down,
                 levers, raced, stale>>

NoEngine == [state |-> "none", limits |-> 0, math |-> 0]
Idle == [pc |-> "idle", halt |-> FALSE, row |-> [enabled |-> FALSE, limits |-> 0, math |-> 0]]
NoPatch == [pc |-> "idle", want |-> <<>>, seen |-> Idle.row]

ControlInit ==
    /\ op \in {"ACTIVE", "PAUSED"}
    /\ row = [enabled |-> TRUE, limits |-> 1, math |-> 1] /\ trail = <<row>>
    /\ halt = FALSE /\ cache = "none"
    /\ call = [c \in Callers |-> Idle] /\ engines = [c \in Callers |-> NoEngine] /\ map = None
    /\ patch = [p \in Patches |-> NoPatch] /\ hand = [h \in Hands |-> "idle"] /\ down = "boot"
    /\ levers = 0 /\ raced = FALSE /\ stale = FALSE

Goto(c, pc) == call' = [call EXCEPT ![c].pc = pc]
Asking(c) == call[c].pc # "idle"
Alive(c) == engines[c].state \in {"starting", "running"}
Committed == {p \in Patches : patch[p].pc = "committed"}

-----------------------------------------------------------------------------
(* GlobalKillSwitch.                                                        *)

Copy(value) == IF value THEN "on" ELSE "off"

\* snapshot() of a hand: the answer to the portal, from the row.
HandFills(h) ==
    /\ hand[h] \in {"on", "off"} /\ hand' = [hand EXCEPT ![h] = "idle"]
    /\ cache' = hand[h] /\ stale' = (stale \/ hand[h] # Copy(halt))
    /\ UNCHANGED <<op, row, trail, halt, call, engines, map, patch, down, levers, raced>>

\* engage() and disengage(): the upsert.
Flip(h) ==
    /\ hand[h] = "idle" /\ levers < MaxLevers /\ levers' = levers + 1
    /\ halt' = ~halt /\ hand' = [hand EXCEPT ![h] = "written"]
    /\ UNCHANGED <<op, row, trail, cache, call, engines, map, patch, down, raced, stale>>

\* Mutant: the cached copy stays.
ClearKeepsCopy(h) ==
    /\ hand[h] = "written" /\ hand' = [hand EXCEPT ![h] = "idle"]
    /\ UNCHANGED <<op, row, trail, halt, cache, call, engines, map, patch, down, levers,
                   raced, stale>>

\* ... after which the copy is dropped and read again.
Clear(h) ==
    /\ hand[h] = "written" /\ hand' = [hand EXCEPT ![h] = Copy(halt)] /\ cache' = "none"
    /\ UNCHANGED <<op, row, trail, halt, call, engines, map, patch, down, levers, raced, stale>>

\* The same request served by another process.
FlipElsewhere ==
    /\ levers < MaxLevers /\ levers' = levers + 1 /\ halt' = ~halt
    /\ stale' = TRUE
    /\ UNCHANGED <<op, row, trail, cache, call, engines, map, patch, hand, down, raced>>

\* Mutant: a copy never expires.
ExpireNever == FALSE /\ UNCHANGED controlVars

\* CACHE_TTL_MS have passed.
Expire ==
    /\ cache # "none" /\ cache' = "none"
    /\ UNCHANGED <<op, row, trail, halt, call, engines, map, patch, hand, down, levers,
                   raced, stale>>

-----------------------------------------------------------------------------
(* EngineRegistry.                                                          *)

\* Mutant: every caller makes an engine of its own.
EnsureBlindly(c) ==
    /\ call[c].pc = "idle" /\ ~Alive(c) /\ map # c
    /\ call' = [call EXCEPT ![c] = [Idle EXCEPT !.pc = "refill", !.halt = halt]]
    /\ UNCHANGED <<op, row, trail, halt, cache, engines, map, patch, hand, down, levers,
                   raced, stale>>

\* startAllEnabled(): lists what is enabled, for the operators that are active.
BootLists ==
    /\ down = "boot" /\ down' = "up"
    /\ IF op = "ACTIVE" /\ row.enabled THEN Goto(Boot, "listed") ELSE UNCHANGED call
    /\ UNCHANGED <<op, row, trail, halt, cache, engines, map, patch, hand, levers, raced, stale>>

\* ensure(), for a socket or at boot: the lookup, and the cached kill switch or a
\* query for it.
Ensure(c) ==
    /\ call[c].pc = (IF c = Boot THEN "listed" ELSE "idle") /\ ~Alive(c)
    /\ map = None /\ cache # "on"
    /\ call' = [call EXCEPT ![c] = [Idle EXCEPT !.pc = IF cache = "off" THEN "config" ELSE "refill",
                                                !.halt = IF cache = "off" THEN FALSE ELSE halt]]
    /\ raced' = (raced \/ down = "stopping" \/ \E d \in Callers \ {c} : Asking(d) \/ Alive(d))
    /\ UNCHANGED <<op, row, trail, halt, cache, engines, map, patch, hand, down, levers, stale>>

\* An engine is found, or the copy says that the switch is engaged.
BootIdles ==
    /\ call[Boot].pc = "listed" /\ (map # None \/ cache = "on") /\ Goto(Boot, "idle")
    /\ UNCHANGED <<op, row, trail, halt, cache, engines, map, patch, hand, down, levers,
                   raced, stale>>

\* The query has answered.
Refill(c) ==
    /\ call[c].pc = "refill" /\ cache' = Copy(call[c].halt)
    /\ stale' = (stale \/ call[c].halt # halt)
    /\ Goto(c, IF call[c].halt THEN "idle" ELSE "config")
    /\ UNCHANGED <<op, row, trail, halt, engines, map, patch, hand, down, levers, raced>>

\* The configuration: "enabled" (and MiCA compliant), and of the plugin's schema.
ReadConfig(c) ==
    /\ call[c].pc = "config"
    /\ call' = [call EXCEPT ![c] = IF row.enabled /\ row.math # Bad
                                     THEN [pc |-> "attest", halt |-> FALSE, row |-> row] ELSE Idle]
    /\ UNCHANGED <<op, row, trail, halt, cache, engines, map, patch, hand, down, levers,
                   raced, stale>>

\* The certificate gate: passed in test mode, a refusal in strict mode without a
\* certificate of this build.
Attest(c) ==
    /\ call[c].pc = "attest"
    /\ \/ Goto(c, "adapter")
       \/ call' = [call EXCEPT ![c] = Idle]
    /\ UNCHANGED <<op, row, trail, halt, cache, engines, map, patch, hand, down, levers,
                   raced, stale>>

\* buildAdapter() has answered: the engine goes into the map, then start() reads.
Create(c) ==
    /\ call[c].pc = "adapter" /\ Goto(c, "start") /\ map' = c
    /\ engines' = [engines EXCEPT ![c] = [state |-> "starting", limits |-> call[c].row.limits,
                                          math |-> call[c].row.math]]
    /\ UNCHANGED <<op, row, trail, halt, cache, patch, hand, down, levers, raced, stale>>

\* resumeUnsettledRounds() ends, or throws: the engine stays in the map either way.
Started(c) ==
    /\ call[c].pc = "start" /\ call' = [call EXCEPT ![c] = Idle]
    /\ \E s \in {"running", "failed"} : engines' = [engines EXCEPT ![c].state = s]
    /\ UNCHANGED <<op, row, trail, halt, cache, map, patch, hand, down, levers, raced, stale>>

\* Mutant: stopAll() forgets the engines without stopping them.
StopForgets ==
    /\ down = "up" /\ call[Boot].pc = "idle" /\ down' = "stopping"
    /\ raced' = (raced \/ \E c \in Callers : Asking(c))
    /\ UNCHANGED <<op, row, trail, halt, cache, call, engines, map, patch, hand, levers, stale>>

\* stopAll(): what runs is stopped, once its round is over; what is still starting is
\* left alone.
StopAll ==
    /\ down = "up" /\ call[Boot].pc = "idle" /\ down' = "stopping"
    /\ engines' = IF map # None /\ engines[map].state = "running"
                    THEN [engines EXCEPT ![map].state = "stopped"] ELSE engines
    /\ raced' = (raced \/ \E c \in Callers : Asking(c))
    /\ UNCHANGED <<op, row, trail, halt, cache, call, map, patch, hand, levers, stale>>

\* ... and the map is cleared; sockets are still served until io.close().
Cleared ==
    /\ down = "stopping" /\ down' = "down" /\ map' = None
    /\ UNCHANGED <<op, row, trail, halt, cache, call, engines, patch, hand, levers, raced, stale>>

-----------------------------------------------------------------------------
(* platform.ts: the levers.                                                 *)

\* suspend and reactivate.  Running engines do not look at the status.
Tenant ==
    /\ op' \in {"ACTIVE", "PAUSED"} \ {op} /\ levers < MaxLevers /\ levers' = levers + 1
    /\ UNCHANGED <<row, trail, halt, cache, call, engines, map, patch, hand, down,
                   raced, stale>>

Differs(p) == [f \in {g \in DOMAIN patch[p].want : patch[p].want[g] # patch[p].seen[g]} |->
                 patch[p].want[f]]
Merge(change, old) == [f \in Fields |-> IF f \in DOMAIN change THEN change[f] ELSE old[f]]

\* PATCH /game-configs/:id reads the row ...
PatchReads(p) ==
    /\ patch[p].pc = "idle" /\ levers < MaxLevers /\ levers' = levers + 1
    /\ \E w \in Wants : patch' = [patch EXCEPT ![p] = [pc |-> "read", want |-> w, seen |-> row]]
    /\ UNCHANGED <<op, row, trail, halt, cache, call, engines, map, hand, down, raced, stale>>

\* Mutant: the whole row is written back, with what it was when it was read.
PatchWritesRow(p) ==
    /\ patch[p].pc = "read" /\ row' = Merge(Differs(p), patch[p].seen)
    /\ trail' = Append(trail, Differs(p))
    /\ patch' = [patch EXCEPT ![p] = [@ EXCEPT !.pc = "committed", !.seen = row']]
    /\ raced' = (raced \/ Committed # {} \/ \E c \in Callers : Asking(c))
    /\ UNCHANGED <<op, halt, cache, call, engines, map, hand, down, levers, stale>>

\* ... writes the fields that differ from what it read, and a row of the audit log
\* with them, in one transaction; nothing differs: nothing to do.
PatchCommits(p) ==
    /\ patch[p].pc = "read"
    /\ IF Differs(p) = <<>>
         THEN /\ patch' = [patch EXCEPT ![p] = NoPatch] /\ UNCHANGED <<row, trail, raced>>
         ELSE /\ row' = Merge(Differs(p), row) /\ trail' = Append(trail, Differs(p))
              /\ patch' = [patch EXCEPT ![p] = [@ EXCEPT !.pc = "committed", !.seen = row']]
              /\ raced' = (raced \/ Committed # {} \/ \E c \in Callers : Asking(c))
    /\ UNCHANGED <<op, halt, cache, call, engines, map, hand, down, levers, stale>>

\* Mutant: the limits are not pushed.
PatchPushesMath(p) ==
    /\ patch[p].pc = "committed" /\ patch' = [patch EXCEPT ![p] = NoPatch]
    /\ engines' = IF map = None \/ patch[p].seen.math = Bad THEN engines
                  ELSE [engines EXCEPT ![map].math = patch[p].seen.math]
    /\ UNCHANGED <<op, row, trail, halt, cache, call, map, hand, down, levers, raced, stale>>

\* Mutant: the mathematics is pushed unparsed.
PatchPushesAny(p) ==
    /\ patch[p].pc = "committed" /\ patch' = [patch EXCEPT ![p] = NoPatch]
    /\ engines' = IF map = None THEN engines
                  ELSE [engines EXCEPT ![map].limits = patch[p].seen.limits,
                                       ![map].math = patch[p].seen.math]
    /\ UNCHANGED <<op, row, trail, halt, cache, call, map, hand, down, levers, raced, stale>>

\* ... and pushes the row it wrote to the engine of this process, if there is one.
PatchPushes(p) ==
    /\ patch[p].pc = "committed" /\ patch' = [patch EXCEPT ![p] = NoPatch]
    /\ engines' = IF map = None THEN engines
                  ELSE [engines EXCEPT ![map].limits = patch[p].seen.limits,
                                       ![map].math = IF patch[p].seen.math = Bad THEN @
                                                     ELSE patch[p].seen.math]
    /\ UNCHANGED <<op, row, trail, halt, cache, call, map, hand, down, levers, raced, stale>>

CallerRuns(c) == Refill(c) \/ ReadConfig(c) \/ Attest(c) \/ Create(c) \/ Started(c)
ControlRun ==
    \/ Expire \/ Cleared \/ BootLists \/ BootIdles
    \/ \E c \in Callers : CallerRuns(c)
    \/ \E h \in Hands : Clear(h) \/ HandFills(h)
    \/ \E p \in Patches : PatchCommits(p) \/ PatchPushes(p)

ControlNext ==
    \/ ControlRun \/ FlipElsewhere \/ StopAll \/ Tenant
    \/ \E c \in Callers : Ensure(c)
    \/ \E h \in Hands : Flip(h)
    \/ \E p \in Patches : PatchReads(p)

ControlSpec == ControlInit /\ [][ControlNext]_controlVars

-----------------------------------------------------------------------------
(* Properties.                                                              *)

Calls == [pc : {"idle", "listed", "refill", "config", "attest", "adapter", "start"},
          halt : BOOLEAN, row : Rows]
Engines == [state : {"none", "starting", "running", "failed", "stopped"}, limits : Nat, math : Nat]
Edits == [pc : {"idle", "read", "committed"}, want : Wants \cup {<<>>}, seen : Rows]
TypeOK ==
    /\ op \in {"ACTIVE", "PAUSED"} /\ row \in Rows
    /\ halt \in BOOLEAN /\ cache \in {"none", "on", "off"}
    /\ call \in [Callers -> Calls] /\ engines \in [Callers -> Engines]
    /\ map \in Callers \cup {None} /\ (map # None => engines[map].state # "none")
    /\ patch \in [Patches -> Edits] /\ hand \in [Hands -> {"idle", "written", "on", "off"}]
    /\ down \in {"boot", "up", "stopping", "down"} /\ raced \in BOOLEAN /\ stale \in BOOLEAN

\* "replay the sequence of changes that led to the current live values": the changes
\* of the audit log, in the order they were committed, lead to the row as it is,
\* however the patches cross.
Replay == LET led[n \in 1..Len(trail)] ==
                IF n = 1 THEN trail[1] ELSE Merge(trail[n], led[n - 1])
          IN led[Len(trail)]
AuditReplaysRow == Replay = row

\* When no patch and no ensure() ever crossed another, the engine in the map plays by
\* the row: a patch is live without a restart.
LiveConfigMatches ==
    map # None /\ ~raced /\ Committed = {} /\ ~(\E c \in Callers : Asking(c)) =>
        /\ engines[map].limits = row.limits
        /\ row.math # Bad => engines[map].math = row.math

\* Only overlapping callers, or a caller that crossed the shutdown, leave two engines
\* for one tuple: two loops would draw rounds and nonces side by side.
OneEngineUnlessRaced == ~raced => Cardinality({c \in Callers : Alive(c)}) <= 1

\* After the shutdown nothing runs, unless an ensure() was under way when it began or
\* a socket asked for an engine afterwards.
ShutdownIsQuiet ==
    down = "down" /\ ~raced =>
        \A c \in Callers : Alive(c) => map = c \/ call[c].pc = "start"

\* While the kill switch is engaged this process does not remember it as off, unless
\* another process flipped it or a query that began before is still to answer.
HaltIsSeenHere ==
    halt /\ cache = "off" => stale \/ \E h \in Hands : hand[h] = "written"

\* EngineRegistry, configuration patches, kill switch: the map holds one live engine of a
\* tuple that plays by its row, nothing runs after the shutdown and a process does not
\* believe a halt is off - as long as no two of ensure(), a patch and the shutdown crossed.
EnginesAreControlled ==
    TypeOK /\ LiveConfigMatches /\ OneEngineUnlessRaced /\ ShutdownIsQuiet /\ HaltIsSeenHere

\* An engaged kill switch ends all starting of engines, whatever was cached.
HaltTakesEffect == <>[]halt => <>[](\A c \in Callers : call[c].pc \in {"idle", "listed", "refill"})
=============================================================================
