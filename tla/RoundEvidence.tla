--------------------------- MODULE RoundEvidence ----------------------------
(* What can be read of a round afterwards: the proof and the replay an       *)
(* operator asks for, the dispute pack found by a transaction, and the two   *)
(* look-ups of the provider's staff.  Each reads the round, its bets, its    *)
(* wallet calls and the game's configuration as they are at that moment.     *)
(* An outcome is what it was computed from: seed, nonce and configuration.   *)
(* A list of calls is the set of their places in the audit, which is the     *)
(* order they are read in.                                                   *)
EXTENDS Naturals, Sequences, FiniteSets, Functions

CONSTANTS MaxRounds, MaxBets, MaxConfig

VARIABLES
    session,    \* the engine session: its seeds serve every round until it expires
    nonce,
    config,     \* version of the game's configuration
    loaded,     \* version the running engine has
    rounds,     \* [seed, nonce, state, outcome, config]
    bets,       \* [round, player, status, betTx, winTx]: 0 is no transaction
    calls,      \* the audit rows: [round, bet, kind, tx]
    tx          \* transactions drawn so far

vars == <<session, nonce, config, loaded, rounds, bets, calls, tx>>

Hidden == 0
NoOutcome == <<>>
Players == {1, 2}
Outcome(seed, n, version) == <<seed, n, version>>
Current == Len(rounds)

Init ==
    /\ session = 1 /\ nonce = 0 /\ config = 1 /\ loaded = 1
    /\ rounds = <<>> /\ bets = <<>> /\ calls = <<>> /\ tx = 0

-----------------------------------------------------------------------------
(* The engine of one game.                                                  *)

\* createRound: the seeds are the engine session's.
RoundOpens ==
    /\ Current < MaxRounds
    /\ Current > 0 => rounds[Current].state \in {"SETTLED", "VOIDED"}
    /\ rounds' = Append(rounds, [seed |-> session, nonce |-> nonce, state |-> "BETTING_OPEN",
                                 outcome |-> NoOutcome, config |-> loaded])
    /\ nonce' = nonce + 1
    /\ UNCHANGED <<session, config, loaded, bets, calls, tx>>

SessionExpires ==
    /\ session < MaxRounds /\ session' = session + 1 /\ nonce' = 0
    /\ UNCHANGED <<config, loaded, rounds, bets, calls, tx>>

MoveTo(state, outcome) ==
    /\ rounds' = [rounds EXCEPT ![Current].state = state, ![Current].outcome = outcome]
    /\ UNCHANGED <<session, nonce, config, loaded, bets, calls, tx>>

\* Mutant: the engine's nonce, which is already the next round's.
RollsNext ==
    LET r == rounds[Current] IN
    /\ Current > 0 /\ r.state = "BETTING_OPEN"
    /\ MoveTo("ROLLING", Outcome(r.seed, nonce, r.config))

Rolls ==
    LET r == rounds[Current] IN
    /\ Current > 0 /\ r.state = "BETTING_OPEN"
    /\ MoveTo("ROLLING", Outcome(r.seed, r.nonce, r.config))

Settles == Current > 0 /\ rounds[Current].state = "ROLLING" /\ MoveTo("SETTLED", rounds[Current].outcome)

\* A round without an outcome is voided by the recovery after a crash; its
\* accepted bets, in the order the database has them, are rolled back by the
\* job queue, under transactions of which the bets keep no record.
Accepted == {i \in DOMAIN bets : bets[i].round = Current /\ bets[i].status = "ACCEPTED"}
Voids ==
    /\ Current > 0 /\ rounds[Current].state = "BETTING_OPEN"
    /\ rounds' = [rounds EXCEPT ![Current].state = "VOIDED"]
    /\ bets' = [i \in DOMAIN bets |-> IF i \in Accepted THEN [bets[i] EXCEPT !.status = "VOIDED"] ELSE bets[i]]
    /\ \E order \in Bijection(1..Cardinality(Accepted), Accepted) :
          calls' = calls \o [k \in 1..Cardinality(Accepted) |->
                               [round |-> Current, bet |-> order[k], kind |-> "rollback", tx |-> tx + k]]
    /\ tx' = tx + Cardinality(Accepted)
    /\ UNCHANGED <<session, nonce, config, loaded>>

BetPlaced(p) ==
    /\ Current > 0 /\ rounds[Current].state = "BETTING_OPEN" /\ Len(bets) < MaxBets
    /\ bets' = Append(bets, [round |-> Current, player |-> p, status |-> "ACCEPTED", betTx |-> tx + 1, winTx |-> 0])
    /\ calls' = Append(calls, [round |-> Current, bet |-> Len(bets) + 1, kind |-> "bet", tx |-> tx + 1])
    /\ tx' = tx + 1
    /\ UNCHANGED <<session, nonce, config, loaded, rounds>>

\* Mutant: the transaction is not counted as drawn.
BetWinsUncounted(i, status) ==
    /\ bets[i].round = Current /\ bets[i].status = "ACCEPTED" /\ rounds[Current].state = "ROLLING"
    /\ bets' = [bets EXCEPT ![i].status = status, ![i].winTx = tx + 1]
    /\ calls' = Append(calls, [round |-> Current, bet |-> i, kind |-> "win", tx |-> tx + 1])
    /\ UNCHANGED <<session, nonce, config, loaded, rounds, tx>>

\* The credit: paid, or left FAILED to the job, which repeats the call.
BetWins(i, status) ==
    /\ bets[i].round = Current /\ bets[i].status = "ACCEPTED" /\ rounds[Current].state = "ROLLING"
    /\ bets' = [bets EXCEPT ![i].status = status, ![i].winTx = tx + 1]
    /\ calls' = Append(calls, [round |-> Current, bet |-> i, kind |-> "win", tx |-> tx + 1])
    /\ tx' = tx + 1
    /\ UNCHANGED <<session, nonce, config, loaded, rounds>>

WinRepeated(i) ==
    /\ bets[i].status = "FAILED" /\ Cardinality({k \in DOMAIN calls : calls[k].bet = i}) < 3
    /\ calls' = Append(calls, [round |-> bets[i].round, bet |-> i, kind |-> "win", tx |-> bets[i].winTx])
    /\ UNCHANGED <<session, nonce, config, loaded, rounds, bets, tx>>

ConfigPatched ==
    /\ config < MaxConfig /\ config' = config + 1
    /\ UNCHANGED <<session, nonce, loaded, rounds, bets, calls, tx>>

EngineReloads ==
    /\ Current > 0 => rounds[Current].state \in {"SETTLED", "VOIDED"}
    /\ loaded' = config
    /\ UNCHANGED <<session, nonce, config, rounds, bets, calls, tx>>

Next ==
    \/ RoundOpens \/ SessionExpires \/ Rolls \/ Settles \/ Voids
    \/ \E p \in Players : BetPlaced(p)
    \/ \E i \in DOMAIN bets : BetWins(i, "SETTLED") \/ BetWins(i, "FAILED") \/ WinRepeated(i)
    \/ ConfigPatched \/ EngineReloads

-----------------------------------------------------------------------------
(* What can be read.                                                        *)

Terminal(r) == rounds[r].state \in {"SETTLED", "VOIDED"}
\* Mutant: shown whatever the state.
SeedAny(r) == rounds[r].seed

Seed(r) == IF Terminal(r) THEN rounds[r].seed ELSE Hidden
verifyOutcome(r, version) == rounds[r].outcome = Outcome(rounds[r].seed, rounds[r].nonce, version)

Proof(r) == [state |-> rounds[r].state, seed |-> Seed(r), outcome |-> rounds[r].outcome]

\* GET /rounds/:id, which shows no seed.
RoundDetail(r) == [state |-> rounds[r].state, outcome |-> rounds[r].outcome,
                   bets |-> {i \in DOMAIN bets : bets[i].round = r}]

\* The recomputation runs on the configuration that is stored now.
Replay(r) ==
    [state |-> rounds[r].state, seed |-> Seed(r), outcome |-> rounds[r].outcome,
     bets |-> {i \in DOMAIN bets : bets[i].round = r},
     chain |-> {k \in DOMAIN calls : calls[k].round = r},
     matches |-> IF Seed(r) # Hidden /\ rounds[r].outcome # NoOutcome THEN {verifyOutcome(r, config)} ELSE {}]

\* Mutant: only the transaction of the stake.
BetsOfStake(t) == {i \in DOMAIN bets : t = bets[i].betTx}

\* The bet that has a transaction, in the operator's pack and for the staff.
BetsOf(t) == {i \in DOMAIN bets : t \in {bets[i].betTx, bets[i].winTx}}
ResolvedRole(i, t) == IF bets[i].betTx = t THEN "bet" ELSE IF bets[i].winTx = t THEN "win" ELSE "rollback"
\* Mutant: only the calls with the transactions of the bet.
DisputePackOfBet(i, t) ==
    LET r == bets[i].round IN
    [bet |-> i, role |-> ResolvedRole(i, t), state |-> rounds[r].state,
     seed |-> Seed(r), outcome |-> rounds[r].outcome,
     chain |-> {k \in DOMAIN calls : calls[k].tx \in {bets[i].betTx, bets[i].winTx} \ {0}},
     matches |-> IF Terminal(r) /\ rounds[r].outcome # NoOutcome THEN {verifyOutcome(r, config)} ELSE {}]

DisputePack(i, t) ==
    LET r == bets[i].round IN
    [bet |-> i, role |-> ResolvedRole(i, t), state |-> rounds[r].state,
     seed |-> IF Terminal(r) THEN rounds[r].seed ELSE Hidden, outcome |-> rounds[r].outcome,
     chain |-> {k \in DOMAIN calls : calls[k].round = r \/ calls[k].tx \in {bets[i].betTx, bets[i].winTx} \ {0}},
     matches |-> IF Terminal(r) /\ rounds[r].outcome # NoOutcome THEN {verifyOutcome(r, config)} ELSE {}]
FindByTransaction(t) == BetsOf(t)
RoundsOfPlayer(p) == {i \in DOMAIN bets : bets[i].player = p}
StaffDump(r) ==
    [state |-> rounds[r].state, seed |-> Seed(r), outcome |-> rounds[r].outcome,
     bets |-> {i \in DOMAIN bets : bets[i].round = r}, chain |-> {k \in DOMAIN calls : calls[k].round = r}]

-----------------------------------------------------------------------------
(* Types of the rounds, the bets and the calls. *)
TypeOK ==
    /\ \A r \in DOMAIN rounds : rounds[r].state \in {"BETTING_OPEN", "ROLLING", "SETTLED", "VOIDED"}
                                /\ rounds[r].seed \in 1..session /\ rounds[r].config \in 1..config
    /\ \A i \in DOMAIN bets : bets[i].round \in DOMAIN rounds /\ bets[i].betTx \in 1..tx /\ bets[i].winTx \in 0..tx
    /\ \A k \in DOMAIN calls : calls[k].bet \in DOMAIN bets /\ calls[k].tx \in 1..tx
    /\ loaded <= config

(* A round and the records of it: proof, replay, pack and dump name the same *)
(* state and outcome, list the same bets and calls, and all show the seed of *)
(* a finished round and none that of a running one.                          *)
RecordsAgree ==
    \A r \in DOMAIN rounds :
        /\ (Proof(r).seed # Hidden) = (rounds[r].state \in {"SETTLED", "VOIDED"})
        /\ Replay(r).seed = Proof(r).seed /\ StaffDump(r).seed = Proof(r).seed
        /\ Replay(r).chain = StaffDump(r).chain /\ Replay(r).bets = RoundDetail(r).bets
        /\ \A i \in Replay(r).bets :
              LET pack == DisputePack(i, bets[i].betTx) IN
              pack.seed = Proof(r).seed /\ pack.state = Proof(r).state /\ pack.outcome = Proof(r).outcome
                 /\ pack.matches = Replay(r).matches

(* Replay and pack recompute the outcome of a finished round: they confirm   *)
(* it unless the configuration was patched after the engine loaded the one   *)
(* the round was played with, or the round has no outcome to confirm.        *)
ReplayConfirms ==
    \A r \in DOMAIN rounds :
        /\ FALSE \in Replay(r).matches => config > rounds[r].config
        /\ rounds[r].state = "SETTLED" /\ config = rounds[r].config => Replay(r).matches = {TRUE}

(* The transaction of a bet or of a win leads to that bet and to no other,   *)
(* in the role it was made in; that of a rollback, which no bet records,     *)
(* leads nowhere, though the pack of the bet has the call.                   *)
TransactionsResolve ==
    \A k \in DOMAIN calls :
        LET c == calls[k] IN
        /\ c.kind \in {"bet", "win"} => BetsOf(c.tx) = {c.bet} /\ ResolvedRole(c.bet, c.tx) = c.kind
        /\ c.kind = "rollback" => FindByTransaction(c.tx) = {}
        /\ bets[c.bet] \in {bets[i] : i \in RoundsOfPlayer(bets[c.bet].player)}

(* A pack asked for with either transaction of a bet holds every call ever   *)
(* made for it, repeated credits and rollbacks included.                     *)
PackIsComplete ==
    \A i \in DOMAIN bets : \A t \in {bets[i].betTx, bets[i].winTx} \ {0} :
        {k \in DOMAIN calls : calls[k].bet = i} \subseteq DisputePack(i, t).chain
=============================================================================
