----------------------------- MODULE BooksProofs ----------------------------
(* What is kept for afterwards: the evidence of a round for any number of   *)
(* rounds, bets, sessions and patches; the lists for any number of rows and *)
(* any size of a page; the daily totals for any calls, amounts and days;    *)
(* the audit chain for any writers, days and rows; the portals' pages for   *)
(* any operators, bets and hours.                                           *)
EXTENDS MCBooks, SumProofs, FiniteSetTheorems, SequenceTheorems, TLAPS

-----------------------------------------------------------------------------
(* Sequences, by their domains.                                             *)

LEMMA Added ==
  ASSUME NEW S, NEW s \in Seq(S), NEW e \in S
  PROVE  /\ Append(s, e) \in Seq(S)
         /\ DOMAIN Append(s, e) = DOMAIN s \cup {Len(s) + 1} /\ Len(s) + 1 \notin DOMAIN s
         /\ Append(s, e)[Len(s) + 1] = e /\ \A i \in DOMAIN s : Append(s, e)[i] = s[i]
<1>1. Len(s) \in Nat /\ DOMAIN s = 1..Len(s)
  BY LenProperties
<1>2. Append(s, e) \in Seq(S) /\ Len(Append(s, e)) = Len(s) + 1
      /\ Append(s, e)[Len(s) + 1] = e /\ \A i \in 1..Len(s) : Append(s, e)[i] = s[i]
  BY <1>1, AppendProperties
<1>3. DOMAIN Append(s, e) = 1..(Len(s) + 1)
  BY <1>2, LenProperties
<1> QED
  BY <1>1, <1>2, <1>3

LEMMA Put ==
  ASSUME NEW S, NEW s \in Seq(S), NEW i \in DOMAIN s, NEW e \in S
  PROVE  /\ [s EXCEPT ![i] = e] \in Seq(S) /\ DOMAIN [s EXCEPT ![i] = e] = DOMAIN s
         /\ [s EXCEPT ![i] = e][i] = e /\ \A j \in DOMAIN s \ {i} : [s EXCEPT ![i] = e][j] = s[j]
<1>1. i \in 1..Len(s)
  BY LenProperties
<1> QED
  BY <1>1, ExceptSeq

LEMMA Joined ==
  ASSUME NEW S, NEW s \in Seq(S), NEW t \in Seq(S)
  PROVE  /\ s \o t \in Seq(S)
         /\ \A k \in DOMAIN (s \o t) : \/ k \in DOMAIN s /\ (s \o t)[k] = s[k]
                                      \/ \E m \in DOMAIN t : (s \o t)[k] = t[m]
<1>1. Len(s) \in Nat /\ DOMAIN s = 1..Len(s) /\ Len(t) \in Nat /\ DOMAIN t = 1..Len(t)
  BY LenProperties
<1>2. s \o t \in Seq(S) /\ Len(s \o t) = Len(s) + Len(t)
      /\ \A k \in 1..(Len(s) + Len(t)) : (s \o t)[k] = IF k <= Len(s) THEN s[k] ELSE t[k - Len(s)]
  BY ConcatProperties
<1>3. DOMAIN (s \o t) = 1..(Len(s) + Len(t))
  BY <1>2, LenProperties
<1> SUFFICES ASSUME NEW k \in DOMAIN (s \o t)
             PROVE  \/ k \in DOMAIN s /\ (s \o t)[k] = s[k]
                    \/ \E m \in DOMAIN t : (s \o t)[k] = t[m]
  BY <1>2
<1>4. CASE k <= Len(s)
  BY <1>1, <1>2, <1>3, <1>4
<1>5. CASE ~(k <= Len(s))
  <2>1. k - Len(s) \in DOMAIN t /\ (s \o t)[k] = t[k - Len(s)]
    BY <1>1, <1>2, <1>3, <1>5
  <2> QED
    BY <2>1
<1> QED
  BY <1>4, <1>5

-----------------------------------------------------------------------------
(* The evidence.                                                            *)

Round == [seed : Nat, nonce : Nat, state : {"BETTING_OPEN", "ROLLING", "SETTLED", "VOIDED"},
          outcome : Seq(Nat), config : Nat]
Bet == [round : Nat, player : E!Players, status : {"ACCEPTED", "SETTLED", "FAILED", "VOIDED"},
        betTx : Nat, winTx : Nat]
Call == [round : Nat, bet : Nat, kind : {"bet", "win", "rollback"}, tx : Nat]

EvidenceType ==
    /\ session \in Nat \ {0} /\ nonce \in Nat /\ config \in Nat /\ loaded \in 1..config /\ tx \in Nat
    /\ rounds \in Seq(Round) /\ played \in Seq(Bet) /\ audited \in Seq(Call)

\* A round has an outcome from the roll on: that of its own seed, nonce and configuration.
RoundInv ==
    \A r \in DOMAIN rounds :
        /\ rounds[r].seed \in 1..session /\ rounds[r].config \in 1..config
        /\ rounds[r].state \in {"BETTING_OPEN", "VOIDED"} => rounds[r].outcome = E!NoOutcome
        /\ rounds[r].state \in {"ROLLING", "SETTLED"} =>
              rounds[r].outcome = E!Outcome(rounds[r].seed, rounds[r].nonce, rounds[r].config)

\* No transaction is drawn twice.
BetInv ==
    /\ \A i \in DOMAIN played :
          /\ played[i].round \in DOMAIN rounds /\ played[i].betTx \in 1..tx /\ played[i].winTx \in 0..tx
          /\ played[i].status = "ACCEPTED" => played[i].winTx = 0
          /\ played[i].status = "FAILED" => played[i].winTx # 0
          /\ played[i].betTx # played[i].winTx
    /\ \A i, j \in DOMAIN played : i # j =>
          /\ played[i].betTx # played[j].betTx /\ played[i].betTx # played[j].winTx
          /\ played[i].winTx # 0 => played[i].winTx # played[j].winTx

\* A call carries the transaction its bet has for it; no bet has that of a rollback.
CallInv ==
    \A k \in DOMAIN audited :
        /\ audited[k].bet \in DOMAIN played /\ audited[k].tx \in 1..tx
        /\ audited[k].round = played[audited[k].bet].round
        /\ audited[k].kind = "bet" => audited[k].tx = played[audited[k].bet].betTx
        /\ audited[k].kind = "win" => audited[k].tx = played[audited[k].bet].winTx
        /\ audited[k].kind = "rollback" =>
              \A i \in DOMAIN played : audited[k].tx # played[i].betTx /\ audited[k].tx # played[i].winTx

EvidenceInv == EvidenceType /\ RoundInv /\ BetInv /\ CallInv


LEMMA EvidenceStarts == E!Init => EvidenceInv
BY DEF E!Init, EvidenceInv, EvidenceType, RoundInv, BetInv, CallInv

\* The rows of the three tables.
LEMMA Rows ==
  ASSUME EvidenceType
  PROVE  /\ \A r \in DOMAIN rounds : rounds[r] \in Round
         /\ \A i \in DOMAIN played : played[i] \in Bet
         /\ \A k \in DOMAIN audited : audited[k] \in Call
         /\ E!Current \in Nat /\ DOMAIN rounds = 1..E!Current /\ DOMAIN played \subseteq Nat
         /\ Len(played) \in Nat
BY LenProperties, ElementOfSeq DEF EvidenceType, E!Current

LEMMA RoundOpensKeeps == EvidenceInv /\ E!RoundOpens => EvidenceInv'
<1> SUFFICES ASSUME EvidenceInv, E!RoundOpens PROVE EvidenceInv'
  OBVIOUS
<1> DEFINE n == Len(rounds) + 1
<1>1. PICK new \in Round : new = [seed |-> session, nonce |-> nonce, state |-> "BETTING_OPEN",
                                  outcome |-> E!NoOutcome, config |-> loaded]
  <2>1. [seed |-> session, nonce |-> nonce, state |-> "BETTING_OPEN",
         outcome |-> E!NoOutcome, config |-> loaded] \in Round
    BY EmptySeq DEF EvidenceInv, EvidenceType, Round, E!NoOutcome
  <2> QED
    BY <2>1
<1>2. rounds' = Append(rounds, new) /\ UNCHANGED <<session, config, loaded, played, audited, tx>>
      /\ nonce' = nonce + 1
  BY <1>1 DEF E!RoundOpens
<1>3. rounds \in Seq(Round)
  BY DEF EvidenceInv, EvidenceType
<1>4. /\ rounds' \in Seq(Round) /\ DOMAIN rounds' = DOMAIN rounds \cup {n}
      /\ rounds'[n] = new /\ \A r \in DOMAIN rounds : rounds'[r] = rounds[r]
  BY <1>2, <1>3, Added
<1>5. EvidenceType'
  BY <1>2, <1>4 DEF EvidenceInv, EvidenceType
<1>6. RoundInv'
  BY <1>1, <1>2, <1>4 DEF EvidenceInv, EvidenceType, RoundInv
<1>7. BetInv' /\ CallInv'
  BY <1>2, <1>4 DEF EvidenceInv, BetInv, CallInv
<1> QED
  BY <1>5, <1>6, <1>7 DEF EvidenceInv

LEMMA SessionExpiresKeeps == EvidenceInv /\ E!SessionExpires => EvidenceInv'
BY DEF EvidenceInv, EvidenceType, RoundInv, BetInv, CallInv, E!SessionExpires

\* A round moves on: only its state and its outcome change, and go together.
LEMMA RoundMoves ==
  ASSUME EvidenceInv, NEW moved \in Round, E!Current > 0,
         rounds' = [rounds EXCEPT ![E!Current] = moved], UNCHANGED <<session, nonce, config, loaded>>,
         moved.seed = rounds[E!Current].seed, moved.nonce = rounds[E!Current].nonce,
         moved.config = rounds[E!Current].config,
         moved.state \in {"BETTING_OPEN", "VOIDED"} => moved.outcome = E!NoOutcome,
         moved.state \in {"ROLLING", "SETTLED"} =>
            moved.outcome = E!Outcome(moved.seed, moved.nonce, moved.config)
  PROVE  rounds' \in Seq(Round) /\ DOMAIN rounds' = DOMAIN rounds /\ RoundInv'
<1>1. E!Current \in DOMAIN rounds /\ rounds \in Seq(Round)
  BY Rows DEF EvidenceInv, EvidenceType
<1>2. /\ rounds' \in Seq(Round) /\ DOMAIN rounds' = DOMAIN rounds
      /\ rounds'[E!Current] = moved /\ \A r \in DOMAIN rounds \ {E!Current} : rounds'[r] = rounds[r]
  BY <1>1, Put
<1>3. RoundInv'
  BY <1>1, <1>2 DEF EvidenceInv, RoundInv, E!Outcome
<1> QED
  BY <1>2, <1>3

\* A roll, or a settlement.
LEMMA MoveToKeeps ==
  ASSUME EvidenceInv, NEW state \in {"ROLLING", "SETTLED"}, NEW outcome \in Seq(Nat),
         E!Current > 0, E!MoveTo(state, outcome),
         outcome = E!Outcome(rounds[E!Current].seed, rounds[E!Current].nonce, rounds[E!Current].config)
  PROVE  EvidenceInv'
<1>1. rounds[E!Current] \in Round /\ E!Current \in DOMAIN rounds
  BY Rows DEF EvidenceInv
<1>2. PICK moved \in Round : moved = [rounds[E!Current] EXCEPT !.state = state, !.outcome = outcome]
  <2>1. [rounds[E!Current] EXCEPT !.state = state, !.outcome = outcome] \in Round
    BY <1>1 DEF Round
  <2> QED
    BY <2>1
<1>3. moved.state = state /\ moved.outcome = outcome /\ moved.seed = rounds[E!Current].seed
      /\ moved.nonce = rounds[E!Current].nonce /\ moved.config = rounds[E!Current].config
  BY <1>1, <1>2 DEF Round
<1>4. rounds' = [rounds EXCEPT ![E!Current] = moved]
      /\ UNCHANGED <<session, nonce, config, loaded, played, audited, tx>>
  BY <1>1, <1>2 DEF E!MoveTo
<1>5. rounds' \in Seq(Round) /\ DOMAIN rounds' = DOMAIN rounds /\ RoundInv'
  BY <1>3, <1>4, RoundMoves
<1>6. EvidenceType'
  BY <1>4, <1>5 DEF EvidenceInv, EvidenceType
<1>7. BetInv' /\ CallInv'
  BY <1>4, <1>5 DEF EvidenceInv, BetInv, CallInv
<1> QED
  BY <1>5, <1>6, <1>7 DEF EvidenceInv

LEMMA RollsKeeps == EvidenceInv /\ E!Rolls => EvidenceInv'
<1> SUFFICES ASSUME EvidenceInv, E!Rolls PROVE EvidenceInv'
  OBVIOUS
<1> DEFINE r == rounds[E!Current]
<1>1. E!Current > 0 /\ E!Current \in DOMAIN rounds /\ r \in Round
  BY Rows DEF EvidenceInv, E!Rolls
<1>2. E!Outcome(r.seed, r.nonce, r.config) \in Seq(Nat)
  BY <1>1 DEF Round, E!Outcome
<1>3. E!MoveTo("ROLLING", E!Outcome(r.seed, r.nonce, r.config))
  BY DEF E!Rolls
<1> QED
  BY <1>1, <1>2, <1>3, MoveToKeeps

LEMMA SettlesKeeps == EvidenceInv /\ E!Settles => EvidenceInv'
<1> SUFFICES ASSUME EvidenceInv, E!Settles PROVE EvidenceInv'
  OBVIOUS
<1> DEFINE r == rounds[E!Current]
<1>1. E!Current > 0 /\ E!Current \in DOMAIN rounds /\ r \in Round
  BY Rows DEF EvidenceInv, E!Settles
<1>2. r.outcome = E!Outcome(r.seed, r.nonce, r.config) /\ r.outcome \in Seq(Nat)
  BY <1>1 DEF EvidenceInv, RoundInv, E!Settles, Round
<1>3. E!MoveTo("SETTLED", r.outcome)
  BY DEF E!Settles
<1> QED
  BY <1>1, <1>2, <1>3, MoveToKeeps

LEMMA BetPlacedKeeps ==
  ASSUME EvidenceInv, NEW p \in E!Players, E!BetPlaced(p)
  PROVE  EvidenceInv'
<1> DEFINE n == Len(played) + 1
           m == Len(audited) + 1
<1>1. E!Current \in DOMAIN rounds /\ E!Current \in Nat /\ n \in Nat /\ tx \in Nat
  BY Rows DEF EvidenceInv, EvidenceType, E!BetPlaced
<1>2. PICK new \in Bet : new = [round |-> E!Current, player |-> p, status |-> "ACCEPTED",
                                betTx |-> tx + 1, winTx |-> 0]
  <2>1. [round |-> E!Current, player |-> p, status |-> "ACCEPTED", betTx |-> tx + 1, winTx |-> 0] \in Bet
    BY <1>1 DEF Bet
  <2> QED
    BY <2>1
<1>3. PICK call \in Call : call = [round |-> E!Current, bet |-> n, kind |-> "bet", tx |-> tx + 1]
  <2>1. [round |-> E!Current, bet |-> n, kind |-> "bet", tx |-> tx + 1] \in Call
    BY <1>1 DEF Call
  <2> QED
    BY <2>1
<1>4. played' = Append(played, new) /\ audited' = Append(audited, call) /\ tx' = tx + 1
      /\ UNCHANGED <<session, nonce, config, loaded, rounds>>
  BY <1>2, <1>3 DEF E!BetPlaced
<1>5. /\ played' \in Seq(Bet) /\ DOMAIN played' = DOMAIN played \cup {n} /\ n \notin DOMAIN played
      /\ played'[n] = new /\ \A i \in DOMAIN played : played'[i] = played[i]
  BY <1>4, Added DEF EvidenceInv, EvidenceType
<1>6. /\ audited' \in Seq(Call) /\ DOMAIN audited' = DOMAIN audited \cup {m}
      /\ audited'[m] = call /\ \A k \in DOMAIN audited : audited'[k] = audited[k]
  BY <1>4, Added DEF EvidenceInv, EvidenceType
<1>7. EvidenceType'
  BY <1>1, <1>4, <1>5, <1>6 DEF EvidenceInv, EvidenceType
<1>8. RoundInv'
  BY <1>4 DEF EvidenceInv, RoundInv
<1>9. BetInv'
  <2>1. new.round = E!Current /\ new.status = "ACCEPTED" /\ new.betTx = tx + 1 /\ new.winTx = 0
    BY <1>2
  <2>2. \A i \in DOMAIN played : BetInv!1!(i)
    BY DEF EvidenceInv, BetInv
  <2>3. ASSUME NEW i \in DOMAIN played' PROVE BetInv!1!(i)'
    BY <1>1, <1>4, <1>5, <2>1, <2>2
  <2>4. \A i, j \in DOMAIN played : BetInv!2!(i, j)
    BY DEF EvidenceInv, BetInv
  <2>5. \A i \in DOMAIN played :
           played[i].betTx # new.betTx /\ played[i].winTx # new.betTx /\ played[i].betTx # new.winTx
    BY <1>1, <2>1, <2>2
  <2>6. ASSUME NEW i \in DOMAIN played', NEW j \in DOMAIN played' PROVE BetInv!2!(i, j)'
    BY <1>1, <1>5, <2>1, <2>4, <2>5
  <2> QED
    BY <2>3, <2>6 DEF BetInv
<1>10. CallInv'
  <2> SUFFICES ASSUME NEW k \in DOMAIN audited' PROVE CallInv!(k)'
    BY DEF CallInv
  <2>1. CASE k = m
    BY <1>1, <1>2, <1>3, <1>4, <1>5, <1>6, <2>1
  <2>2. CASE k \in DOMAIN audited
    BY <1>1, <1>2, <1>4, <1>5, <1>6, <2>2 DEF EvidenceInv, CallInv
  <2> QED
    BY <1>6, <2>1, <2>2
<1> QED
  BY <1>7, <1>8, <1>9, <1>10 DEF EvidenceInv

LEMMA BetWinsKeeps ==
  ASSUME EvidenceInv, NEW i \in DOMAIN played, NEW status \in {"SETTLED", "FAILED"}, E!BetWins(i, status)
  PROVE  EvidenceInv'
<1> DEFINE m == Len(audited) + 1
<1>1. played[i] \in Bet /\ i \in Nat /\ E!Current \in Nat /\ tx \in Nat
  BY Rows DEF EvidenceInv, EvidenceType
<1>2. PICK won \in Bet : won = [played[i] EXCEPT !.status = status, !.winTx = tx + 1]
  <2>1. PICK ended \in Bet : ended = [played[i] EXCEPT !.status = status]
    <3>1. [played[i] EXCEPT !.status = status] \in Bet
      BY <1>1 DEF Bet
    <3> QED
      BY <3>1
  <2>2. tx + 1 \in Nat
    BY <1>1
  <2>3. [ended EXCEPT !.winTx = tx + 1] \in Bet
    BY <2>2 DEF Bet
  <2>4. [ended EXCEPT !.winTx = tx + 1] = [played[i] EXCEPT !.status = status, !.winTx = tx + 1]
    BY <2>1
  <2> QED
    BY <2>3, <2>4
<1>3. won.status = status /\ won.winTx = tx + 1 /\ won.betTx = played[i].betTx /\ won.round = played[i].round
  BY <1>1, <1>2 DEF Bet
<1>4. PICK call \in Call : call = [round |-> E!Current, bet |-> i, kind |-> "win", tx |-> tx + 1]
  <2>1. [round |-> E!Current, bet |-> i, kind |-> "win", tx |-> tx + 1] \in Call
    BY <1>1 DEF Call
  <2> QED
    BY <2>1
<1>5. played' = [played EXCEPT ![i] = won] /\ audited' = Append(audited, call) /\ tx' = tx + 1
      /\ UNCHANGED <<session, nonce, config, loaded, rounds>>
      /\ played[i].round = E!Current /\ played[i].status = "ACCEPTED"
  BY <1>2, <1>4 DEF E!BetWins
<1>6. /\ played' \in Seq(Bet) /\ DOMAIN played' = DOMAIN played
      /\ played'[i] = won /\ \A j \in DOMAIN played \ {i} : played'[j] = played[j]
  BY <1>5, Put DEF EvidenceInv, EvidenceType
<1>7. /\ audited' \in Seq(Call) /\ DOMAIN audited' = DOMAIN audited \cup {m}
      /\ audited'[m] = call /\ \A k \in DOMAIN audited : audited'[k] = audited[k]
  BY <1>5, Added DEF EvidenceInv, EvidenceType
<1>8. EvidenceType'
  BY <1>1, <1>5, <1>6, <1>7 DEF EvidenceInv, EvidenceType
<1>9. RoundInv'
  BY <1>5 DEF EvidenceInv, RoundInv
<1>10. BetInv'
  BY <1>1, <1>3, <1>5, <1>6 DEF EvidenceInv, BetInv
<1>11. CallInv'
  <2> SUFFICES ASSUME NEW k \in DOMAIN audited' PROVE CallInv!(k)'
    BY DEF CallInv
  <2>1. CASE k = m
    BY <1>1, <1>3, <1>4, <1>5, <1>6, <1>7, <2>1
  <2>2. CASE k \in DOMAIN audited
    <3>1. audited[k].bet = i => audited[k].kind # "win"
      BY <1>1, <1>5, <2>2 DEF EvidenceInv, CallInv, BetInv
    <3> QED
      BY <1>1, <1>3, <1>5, <1>6, <1>7, <2>2, <3>1 DEF EvidenceInv, CallInv
  <2> QED
    BY <1>7, <2>1, <2>2
<1> QED
  BY <1>8, <1>9, <1>10, <1>11 DEF EvidenceInv

LEMMA WinRepeatedKeeps ==
  ASSUME EvidenceInv, NEW i \in DOMAIN played, E!WinRepeated(i)
  PROVE  EvidenceInv'
<1>1. played[i] \in Bet /\ i \in Nat
  BY Rows DEF EvidenceInv
<1>2. PICK call \in Call : call = [round |-> played[i].round, bet |-> i, kind |-> "win", tx |-> played[i].winTx]
  <2>1. [round |-> played[i].round, bet |-> i, kind |-> "win", tx |-> played[i].winTx] \in Call
    BY <1>1 DEF Call, Bet
  <2> QED
    BY <2>1
<1>3. audited' = Append(audited, call) /\ UNCHANGED <<session, nonce, config, loaded, rounds, played, tx>>
      /\ played[i].status = "FAILED"
  BY <1>2 DEF E!WinRepeated
<1>4. /\ audited' \in Seq(Call) /\ DOMAIN audited' = DOMAIN audited \cup {Len(audited) + 1}
      /\ audited'[Len(audited) + 1] = call /\ \A k \in DOMAIN audited : audited'[k] = audited[k]
  BY <1>3, Added DEF EvidenceInv, EvidenceType
<1>5. EvidenceType'
  BY <1>3, <1>4 DEF EvidenceInv, EvidenceType
<1>6. RoundInv' /\ BetInv'
  BY <1>3 DEF EvidenceInv, RoundInv, BetInv
<1>7. played[i].winTx \in 1..tx
  BY <1>3 DEF EvidenceInv, EvidenceType, BetInv
<1>8. CallInv'
  BY <1>2, <1>3, <1>4, <1>7 DEF EvidenceInv, CallInv
<1> QED
  BY <1>5, <1>6, <1>8 DEF EvidenceInv

\* The rollbacks of a voided round: one for each of its accepted bets, in any order.
LEMMA VoidsCalls ==
  ASSUME EvidenceInv, E!Voids
  PROVE  \E n \in Nat : \E new \in Seq(Call) :
            /\ tx' = tx + n /\ audited' = audited \o new
            /\ \A k \in DOMAIN new : /\ new[k].bet \in DOMAIN played /\ new[k].kind = "rollback"
                                     /\ new[k].tx \in (tx + 1)..(tx + n)
                                     /\ new[k].round = played[new[k].bet].round
<1>1. IsFiniteSet(E!Accepted)
  <2>1. DOMAIN played = 1..Len(played) /\ Len(played) \in Nat
    BY LenProperties DEF EvidenceInv, EvidenceType
  <2>2. IsFiniteSet(DOMAIN played)
    BY <2>1, FS_Interval
  <2> QED
    BY <2>2, FS_Subset DEF E!Accepted
<1>2. PICK n \in Nat : n = E!Cardinality(E!Accepted)
  <2>1. E!Cardinality(E!Accepted) = Cardinality(E!Accepted)
    BY DEF E!Cardinality, Cardinality
  <2> QED
    BY <1>1, <2>1, FS_CardinalityType
<1>3. PICK order \in [1..n -> E!Accepted] :
          audited' = audited \o [k \in 1..n |-> [round |-> E!Current, bet |-> order[k],
                                                 kind |-> "rollback", tx |-> tx + k]]
  BY <1>2 DEF E!Voids, E!Bijection, E!Injection
<1> DEFINE call(k) == [round |-> E!Current, bet |-> order[k], kind |-> "rollback", tx |-> tx + k]
           new == [k \in 1..n |-> call(k)]
<1>4. \A k \in 1..n : order[k] \in DOMAIN played /\ order[k] \in Nat /\ played[order[k]].round = E!Current
  BY <1>3, Rows DEF E!Accepted, EvidenceInv
<1>5. \A k \in 1..n : call(k) \in Call
  <2>1. E!Current \in Nat /\ tx \in Nat
    BY Rows DEF EvidenceInv, EvidenceType
  <2> SUFFICES ASSUME NEW k \in 1..n PROVE call(k) \in Call
    OBVIOUS
  <2>2. order[k] \in Nat /\ tx + k \in Nat
    BY <1>4, <2>1
  <2> QED
    BY <2>1, <2>2 DEF Call
<1>6. new \in [1..n -> Call]
  BY <1>5
<1>7. new \in Seq(Call) /\ DOMAIN new = 1..n
  BY <1>6, SeqDef
<1>8. \A k \in DOMAIN new : /\ new[k].bet \in DOMAIN played /\ new[k].kind = "rollback"
                            /\ new[k].tx \in (tx + 1)..(tx + n)
                            /\ new[k].round = played[new[k].bet].round
  <2> SUFFICES ASSUME NEW k \in 1..n
               PROVE  /\ new[k].bet \in DOMAIN played /\ new[k].kind = "rollback"
                      /\ new[k].tx \in (tx + 1)..(tx + n)
                      /\ new[k].round = played[new[k].bet].round
    BY <1>7
  <2>1. new[k] = call(k)
    OBVIOUS
  <2>2. tx + k \in (tx + 1)..(tx + n)
    BY DEF EvidenceInv, EvidenceType
  <2> QED
    BY <1>4, <2>1, <2>2
<1>9. tx' = tx + n /\ audited' = audited \o new
  BY <1>2, <1>3 DEF E!Voids
<1> HIDE DEF new
<1> QED
  BY <1>7, <1>8, <1>9

LEMMA VoidsKeeps == EvidenceInv /\ E!Voids => EvidenceInv'
<1> SUFFICES ASSUME EvidenceInv, E!Voids PROVE EvidenceInv'
  OBVIOUS
<1>1. PICK n \in Nat, new \in Seq(Call) :
            /\ tx' = tx + n /\ audited' = audited \o new
            /\ \A k \in DOMAIN new : /\ new[k].bet \in DOMAIN played /\ new[k].kind = "rollback"
                                     /\ new[k].tx \in (tx + 1)..(tx + n)
                                     /\ new[k].round = played[new[k].bet].round
  BY VoidsCalls
<1>2. /\ audited' \in Seq(Call)
      /\ \A k \in DOMAIN audited' : \/ k \in DOMAIN audited /\ audited'[k] = audited[k]
                                    \/ \E m \in DOMAIN new : audited'[k] = new[m]
  BY <1>1, Joined DEF EvidenceInv, EvidenceType
<1>3. DOMAIN played' = DOMAIN played /\ UNCHANGED <<session, nonce, config, loaded>>
  BY DEF E!Voids
<1>4. E!Current > 0 /\ E!Current \in DOMAIN rounds /\ rounds[E!Current] \in Round
      /\ rounds[E!Current].state = "BETTING_OPEN"
  BY Rows DEF EvidenceInv, E!Voids
<1>5. PICK voided \in Round : voided = [rounds[E!Current] EXCEPT !.state = "VOIDED"]
  <2>1. [rounds[E!Current] EXCEPT !.state = "VOIDED"] \in Round
    BY <1>4 DEF Round
  <2> QED
    BY <2>1
<1>6. voided.state = "VOIDED" /\ voided.outcome = rounds[E!Current].outcome
      /\ voided.seed = rounds[E!Current].seed /\ voided.config = rounds[E!Current].config
      /\ voided.nonce = rounds[E!Current].nonce
  BY <1>4, <1>5 DEF Round
<1>7. rounds' = [rounds EXCEPT ![E!Current] = voided]
  BY <1>5 DEF E!Voids
<1>8. voided.outcome = E!NoOutcome
  BY <1>4, <1>6 DEF EvidenceInv, RoundInv
<1>9. rounds' \in Seq(Round) /\ DOMAIN rounds' = DOMAIN rounds /\ RoundInv'
  BY <1>3, <1>4, <1>6, <1>7, <1>8, RoundMoves
<1>10. \A i \in DOMAIN played :
          /\ played'[i] \in Bet /\ played'[i].round = played[i].round
          /\ played'[i].betTx = played[i].betTx /\ played'[i].winTx = played[i].winTx
          /\ played'[i].status \in {played[i].status, "VOIDED"}
  <2> SUFFICES ASSUME NEW i \in DOMAIN played
               PROVE  /\ played'[i] \in Bet /\ played'[i].round = played[i].round
                      /\ played'[i].betTx = played[i].betTx /\ played'[i].winTx = played[i].winTx
                      /\ played'[i].status \in {played[i].status, "VOIDED"}
    OBVIOUS
  <2>1. played[i] \in Bet
    BY Rows DEF EvidenceInv
  <2>2. played'[i] = IF i \in E!Accepted THEN [played[i] EXCEPT !.status = "VOIDED"] ELSE played[i]
    BY DEF E!Voids
  <2> QED
    BY <2>1, <2>2 DEF Bet
<1>11. played' \in Seq(Bet)
  <2>1. DOMAIN played' = 1..Len(played) /\ Len(played) \in Nat
    BY <1>3, LenProperties DEF EvidenceInv, EvidenceType
  <2>2. played' = [i \in 1..Len(played) |-> played'[i]]
    BY <2>1 DEF E!Voids
  <2>3. played' \in [1..Len(played) -> Bet]
    BY <1>3, <1>10, <2>1, <2>2
  <2> QED
    BY <2>1, <2>3, SeqDef
<1>12. EvidenceType'
  BY <1>1, <1>2, <1>3, <1>9, <1>11 DEF EvidenceInv, EvidenceType
<1>13. tx \in Nat /\ tx' >= tx
  BY <1>1 DEF EvidenceInv, EvidenceType
<1>14. BetInv'
  <2>1. tx' \in Nat /\ 1..tx \subseteq 1..tx' /\ 0..tx \subseteq 0..tx'
    BY <1>1, <1>13
  <2>2. ASSUME NEW i \in DOMAIN played'
        PROVE  /\ played'[i].round \in DOMAIN rounds'
               /\ played'[i].betTx \in 1..tx' /\ played'[i].winTx \in 0..tx'
               /\ played'[i].status = "ACCEPTED" => played'[i].winTx = 0
               /\ played'[i].status = "FAILED" => played'[i].winTx # 0
               /\ played'[i].betTx # played'[i].winTx
    <3>1. i \in DOMAIN played
      BY <1>3
    <3>2. /\ played'[i].round = played[i].round /\ played'[i].betTx = played[i].betTx
          /\ played'[i].winTx = played[i].winTx /\ played'[i].status \in {played[i].status, "VOIDED"}
      BY <1>10, <3>1
    <3>3. BetInv!1!(i)
      BY <3>1 DEF EvidenceInv, BetInv
    <3> QED
      BY <1>9, <2>1, <3>2, <3>3
  <2>3. ASSUME NEW i \in DOMAIN played', NEW j \in DOMAIN played', i # j
        PROVE  /\ played'[i].betTx # played'[j].betTx /\ played'[i].betTx # played'[j].winTx
               /\ played'[i].winTx # 0 => played'[i].winTx # played'[j].winTx
    <3>1. i \in DOMAIN played /\ j \in DOMAIN played
      BY <1>3
    <3>2. /\ played'[i].betTx = played[i].betTx /\ played'[i].winTx = played[i].winTx
          /\ played'[j].betTx = played[j].betTx /\ played'[j].winTx = played[j].winTx
      BY <1>10, <3>1
    <3>3. BetInv!2!(i, j)
      BY <3>1 DEF EvidenceInv, BetInv
    <3> QED
      BY <2>3, <3>2, <3>3
  <2> QED
    BY <2>2, <2>3 DEF BetInv
<1>15. CallInv'
  <2> SUFFICES ASSUME NEW k \in DOMAIN audited' PROVE CallInv!(k)'
    BY DEF CallInv
  <2>1. CASE k \in DOMAIN audited /\ audited'[k] = audited[k]
    BY <1>1, <1>3, <1>10, <1>13, <2>1 DEF EvidenceInv, CallInv
  <2>2. ASSUME NEW m \in DOMAIN new, audited'[k] = new[m] PROVE CallInv!(k)'
    <3>1. /\ new[m].bet \in DOMAIN played /\ new[m].kind = "rollback"
          /\ new[m].tx \in (tx + 1)..(tx + n) /\ new[m].round = played[new[m].bet].round
      BY <1>1
    <3>2. played'[new[m].bet].round = played[new[m].bet].round
      BY <1>10, <3>1
    <3>3. new[m].tx \in 1..tx' /\ new[m].tx > tx
      BY <1>1, <1>13, <3>1
    <3>4. ASSUME NEW i \in DOMAIN played'
          PROVE  new[m].tx # played'[i].betTx /\ new[m].tx # played'[i].winTx
      <4>1. i \in DOMAIN played /\ played'[i].betTx = played[i].betTx /\ played'[i].winTx = played[i].winTx
        BY <1>3, <1>10
      <4>2. played[i].betTx <= tx /\ played[i].winTx <= tx /\ played[i].betTx \in Nat /\ played[i].winTx \in Nat
        BY <1>13, <4>1 DEF EvidenceInv, BetInv
      <4> QED
        BY <1>13, <3>1, <3>3, <4>1, <4>2
    <3> QED
      BY <1>3, <2>2, <3>1, <3>2, <3>3, <3>4
  <2> QED
    BY <1>2, <2>1, <2>2
<1> QED
  BY <1>9, <1>12, <1>14, <1>15 DEF EvidenceInv

LEMMA EvidenceStep == EvidenceInv /\ E!Next => EvidenceInv'
<1>1. EvidenceInv /\ E!ConfigPatched => EvidenceInv'
  BY DEF EvidenceInv, EvidenceType, RoundInv, BetInv, CallInv, E!ConfigPatched
<1>2. EvidenceInv /\ E!EngineReloads => EvidenceInv'
  BY DEF EvidenceInv, EvidenceType, RoundInv, BetInv, CallInv, E!EngineReloads
<1> QED
  BY <1>1, <1>2, RoundOpensKeeps, SessionExpiresKeeps, RollsKeeps, SettlesKeeps, VoidsKeeps,
     BetPlacedKeeps, BetWinsKeeps, WinRepeatedKeeps DEF E!Next

LEMMA EvidenceBehaves ==
  Spec => [](EvidenceInv /\ (part = "evidence" \/ E!Init))
<1> DEFINE Inv == EvidenceInv /\ (part = "evidence" \/ E!Init)
<1>1. BooksInit => Inv
  BY EvidenceStarts DEF BooksInit
<1>2. Inv /\ [BooksNext]_allVars => Inv'
  <2> SUFFICES ASSUME Inv, [BooksNext]_allVars PROVE Inv'
    OBVIOUS
  <2>1. CASE UNCHANGED <<part, evidenceVars>>
    BY <2>1 DEF evidenceVars, EvidenceInv, EvidenceType, RoundInv, BetInv, CallInv, E!Init
  <2>2. CASE part = "evidence" /\ E!Next /\ EvidenceOnly
    BY <2>2, EvidenceStep DEF EvidenceOnly
  <2> QED
    BY <2>1, <2>2 DEF BooksNext, allVars, ChainOnly, LedgerOnly, PagingOnly, ReportsOnly
<1> QED
  BY <1>1, <1>2, PTL DEF Spec

LEMMA EvidenceIsTyped == EvidenceInv => E!TypeOK
<1> SUFFICES ASSUME EvidenceInv PROVE E!TypeOK
  OBVIOUS
<1>1. \A r \in DOMAIN rounds : rounds[r].state \in {"BETTING_OPEN", "ROLLING", "SETTLED", "VOIDED"}
  BY Rows DEF EvidenceInv, Round
<1> QED
  BY <1>1 DEF EvidenceInv, EvidenceType, RoundInv, BetInv, CallInv, E!TypeOK

\* What is said of one round depends on its row alone: terminal rounds show their seed.
LEMMA SeedShown ==
  ASSUME EvidenceInv, NEW r \in DOMAIN rounds
  PROVE  (E!Seed(r) # E!Hidden) = E!Terminal(r)
BY DEF EvidenceInv, EvidenceType, RoundInv, E!Seed, E!Hidden, E!Terminal

LEMMA EvidenceRecordsAgree == EvidenceInv => E!RecordsAgree
<1> SUFFICES ASSUME EvidenceInv, NEW r \in DOMAIN rounds PROVE E!RecordsAgree!(r)
  BY DEF E!RecordsAgree
<1>1. E!Proof(r).seed = E!Seed(r) /\ E!Proof(r).state = rounds[r].state /\ E!Proof(r).outcome = rounds[r].outcome
  BY DEF E!Proof
<1>2. /\ E!Replay(r).seed = E!Seed(r) /\ E!Replay(r).chain = {k \in DOMAIN audited : audited[k].round = r}
      /\ E!Replay(r).bets = {i \in DOMAIN played : played[i].round = r}
      /\ E!Replay(r).matches = IF E!Seed(r) # E!Hidden /\ rounds[r].outcome # E!NoOutcome
                               THEN {E!verifyOutcome(r, config)} ELSE {}
  BY DEF E!Replay
<1>3. E!StaffDump(r).seed = E!Seed(r) /\ E!StaffDump(r).chain = {k \in DOMAIN audited : audited[k].round = r}
  BY DEF E!StaffDump
<1>4. E!RoundDetail(r).bets = {i \in DOMAIN played : played[i].round = r}
  BY DEF E!RoundDetail
<1>5. (E!Seed(r) # E!Hidden) = E!Terminal(r)
  BY SeedShown
<1>6. ASSUME NEW i \in E!Replay(r).bets
      PROVE  LET pack == E!DisputePack(i, played[i].betTx) IN
             pack.seed = E!Proof(r).seed /\ pack.state = E!Proof(r).state /\ pack.outcome = E!Proof(r).outcome
                /\ pack.matches = E!Replay(r).matches
  <2>1. played[i].round = r
    BY <1>2, <1>6
  <2> DEFINE pack == E!DisputePack(i, played[i].betTx)
  <2>2. /\ pack.state = rounds[r].state /\ pack.outcome = rounds[r].outcome /\ pack.seed = E!Seed(r)
        /\ pack.matches = IF E!Terminal(r) /\ rounds[r].outcome # E!NoOutcome
                          THEN {E!verifyOutcome(r, config)} ELSE {}
    BY <2>1 DEF E!DisputePack, E!Seed
  <2> QED
    BY <1>1, <1>2, <1>5, <2>2
<1> QED
  BY <1>1, <1>2, <1>3, <1>4, <1>5, <1>6 DEF E!Terminal

LEMMA EvidenceConfirms == EvidenceInv => E!ReplayConfirms
<1> SUFFICES ASSUME EvidenceInv, NEW r \in DOMAIN rounds PROVE E!ReplayConfirms!(r)
  BY DEF E!ReplayConfirms
<1>1. E!Replay(r).matches = IF E!Seed(r) # E!Hidden /\ rounds[r].outcome # E!NoOutcome
                            THEN {E!verifyOutcome(r, config)} ELSE {}
  BY DEF E!Replay
<1>2. rounds[r].state \in {"BETTING_OPEN", "ROLLING", "SETTLED", "VOIDED"}
      /\ rounds[r].config \in 1..config /\ config \in Nat
  BY Rows DEF EvidenceInv, EvidenceType, RoundInv, Round
<1>3. rounds[r].outcome # E!NoOutcome =>
          rounds[r].outcome = <<rounds[r].seed, rounds[r].nonce, rounds[r].config>>
  BY <1>2 DEF EvidenceInv, RoundInv, E!Outcome
<1>4. FALSE \in E!Replay(r).matches => config > rounds[r].config
  <2> SUFFICES ASSUME rounds[r].outcome # E!NoOutcome, ~E!verifyOutcome(r, config)
               PROVE  config > rounds[r].config
    BY <1>1 DEF E!verifyOutcome
  <2>1. config # rounds[r].config
    BY <1>3 DEF E!verifyOutcome, E!Outcome
  <2> QED
    BY <1>2, <2>1
<1>5. ASSUME rounds[r].state = "SETTLED", config = rounds[r].config
      PROVE  E!Replay(r).matches = {TRUE}
  <2>1. rounds[r].outcome = E!Outcome(rounds[r].seed, rounds[r].nonce, config)
    BY <1>5 DEF EvidenceInv, RoundInv
  <2>2. E!verifyOutcome(r, config) = TRUE
    BY <2>1 DEF E!verifyOutcome
  <2>3. rounds[r].outcome # E!NoOutcome
    BY <2>1 DEF E!Outcome, E!NoOutcome
  <2>4. E!Seed(r) # E!Hidden
    BY <1>5, SeedShown DEF E!Terminal
  <2> QED
    BY <1>1, <2>2, <2>3, <2>4
<1> QED
  BY <1>4, <1>5

LEMMA EvidenceResolves == EvidenceInv => E!TransactionsResolve
<1> SUFFICES ASSUME EvidenceInv, NEW k \in DOMAIN audited PROVE E!TransactionsResolve!(k)
  BY DEF E!TransactionsResolve
<1> DEFINE c == audited[k]
<1>1. c.bet \in DOMAIN played /\ c.tx \in 1..tx /\ tx \in Nat
      /\ (c.kind = "bet" => c.tx = played[c.bet].betTx) /\ (c.kind = "win" => c.tx = played[c.bet].winTx)
      /\ (c.kind = "rollback" =>
             \A i \in DOMAIN played : c.tx # played[i].betTx /\ c.tx # played[i].winTx)
  BY DEF EvidenceInv, EvidenceType, CallInv
<1>2. played[c.bet].betTx # played[c.bet].winTx
  BY <1>1 DEF EvidenceInv, BetInv
<1>3. \A i \in DOMAIN played : i # c.bet =>
          /\ played[i].betTx # played[c.bet].betTx /\ played[i].betTx # played[c.bet].winTx
          /\ played[c.bet].betTx # played[i].winTx
          /\ played[c.bet].winTx # 0 => played[c.bet].winTx # played[i].winTx
  BY <1>1 DEF EvidenceInv, BetInv
<1>4. c.tx # 0
  BY <1>1
<1>5. c.kind \in {"bet", "win"} => E!BetsOf(c.tx) = {c.bet} /\ E!ResolvedRole(c.bet, c.tx) = c.kind
  BY <1>1, <1>2, <1>3, <1>4 DEF E!BetsOf, E!ResolvedRole
<1>6. c.kind = "rollback" => E!FindByTransaction(c.tx) = {}
  BY <1>1 DEF E!FindByTransaction, E!BetsOf
<1>7. played[c.bet] \in {played[i] : i \in E!RoundsOfPlayer(played[c.bet].player)}
  BY <1>1 DEF E!RoundsOfPlayer
<1> QED
  BY <1>5, <1>6, <1>7

LEMMA EvidencePacks == EvidenceInv => E!PackIsComplete
<1> SUFFICES ASSUME EvidenceInv, NEW i \in DOMAIN played, NEW t,
                    NEW k \in DOMAIN audited, audited[k].bet = i
             PROVE  k \in E!DisputePack(i, t).chain
  BY DEF E!PackIsComplete
<1>1. audited[k].round = played[i].round
  BY DEF EvidenceInv, CallInv
<1>2. E!DisputePack(i, t).chain =
          {n \in DOMAIN audited : audited[n].round = played[i].round
                                    \/ audited[n].tx \in {played[i].betTx, played[i].winTx} \ {0}}
  BY DEF E!DisputePack
<1> QED
  BY <1>1, <1>2

(* Whatever may be read of a round afterwards agrees with the round and with *)
(* itself, for any number of rounds, bets, repeated credits and patches of   *)
(* the configuration.                                                        *)
THEOREM EvidenceAgreesHolds == Spec => []EvidenceAgrees
<1>1. EvidenceInv => EvidenceAgrees
  BY EvidenceIsTyped, EvidenceRecordsAgree, EvidenceConfirms, EvidenceResolves, EvidencePacks DEF EvidenceAgrees
<1> QED
  BY <1>1, EvidenceBehaves, PTL

-----------------------------------------------------------------------------
(* The lists.                                                               *)

Row == [at : Nat, state : G!All]
Shown == UNION G!Range(shown)

PagingType ==
    /\ list \in G!Lists /\ now \in Nat \ {0}
    /\ table \in Seq(Row) /\ \A i \in DOMAIN table : table[i].at \in 1..now
    /\ cursor \in {0} \cup DOMAIN table /\ done \in BOOLEAN
    /\ shown \in Seq(SUBSET DOMAIN table) /\ cursors \subseteq DOMAIN table /\ since \subseteq DOMAIN table

\* There is no cursor before the first page and after the last.
CursorInv ==
    /\ cursor = 0 => done \/ (shown = <<>> /\ cursors = {} /\ since = {})
    /\ cursor # 0 => ~done

\* What was shown comes before the cursor.
OrderInv ==
    list.unique =>
        /\ \A m, n \in DOMAIN shown : m < n => \A i \in shown[m], j \in shown[n] : G!Before(i, j, TRUE)
        /\ cursor # 0 => \A n \in DOMAIN shown : \A i \in shown[n] : G!Before(i, cursor, TRUE)

\* A row that was there from the start has been shown, was a cursor or is still to come.
MissInv ==
    list.unique /\ list.stays =>
        /\ since \subseteq G!Listed /\ cursors \subseteq G!Listed
        /\ \A n \in DOMAIN shown : shown[n] \cap cursors = {}
        /\ cursor # 0 => /\ cursor \in cursors
                         /\ \A c \in cursors : c = cursor \/ G!Before(c, cursor, TRUE)
        /\ \A i \in since : \/ i \in cursors \/ \E n \in DOMAIN shown : i \in shown[n]
                            \/ cursor # 0 /\ G!Before(cursor, i, TRUE)

PagingInv == PagingType /\ CursorInv /\ OrderInv /\ MissInv

LEMMA ListsStay == list \in G!Lists /\ list.stays => "done" \in list.rows
BY DEF G!Lists, G!All, G!AdminRounds, G!WalletCalls, G!AdminSessions, G!PendingJobs, G!OperatorRounds,
       G!PlayerHistory, G!SessionHistory, G!Deliveries, G!AdminAudit, G!ConfigAudit

\* Ordered down to the id, the rows are in a strict total order.
LEMMA InOrder ==
  ASSUME PagingType
  PROVE  /\ \A i, j \in DOMAIN table : i = j \/ G!Before(i, j, TRUE) \/ G!Before(j, i, TRUE)
         /\ \A i, j \in DOMAIN table : ~(G!Before(i, j, TRUE) /\ G!Before(j, i, TRUE))
         /\ \A i \in DOMAIN table : ~G!Before(i, i, TRUE)
         /\ \A i, j, l \in DOMAIN table : G!Before(i, j, TRUE) /\ G!Before(j, l, TRUE) => G!Before(i, l, TRUE)
<1>1. \A i \in DOMAIN table : i \in Nat /\ table[i].at \in Nat
  BY LenProperties DEF PagingType
<1> QED
  BY <1>1 DEF G!Before

\* The order of two rows never changes.
LEMMA OrderKept ==
  ASSUME \A i \in DOMAIN table : i \in DOMAIN table' /\ table'[i].at = table[i].at
  PROVE  \A i, j \in DOMAIN table : G!Before(i, j, TRUE)' = G!Before(i, j, TRUE)
BY DEF G!Before

LEMMA PagingStarts == G!Init => PagingInv
<1> SUFFICES ASSUME G!Init PROVE PagingInv
  OBVIOUS
<1>1. table = <<>> /\ DOMAIN table = {} /\ shown = <<>> /\ DOMAIN shown = {}
  BY DEF G!Init
<1>2. table \in Seq(Row) /\ shown \in Seq(SUBSET DOMAIN table)
  BY <1>1, EmptySeq
<1>3. PagingType
  <2>1. list \in G!Lists /\ now = 1 /\ cursor = 0 /\ done = FALSE /\ cursors = {} /\ since = {}
    BY DEF G!Init
  <2>2. \A i \in DOMAIN table : table[i].at \in 1..now
    BY <1>1
  <2>3. now \in Nat \ {0}
    BY <2>1
  <2>4. cursor \in {0} \cup DOMAIN table /\ done \in BOOLEAN
    BY <2>1
  <2>5. cursors \subseteq DOMAIN table /\ since \subseteq DOMAIN table
    BY <2>1
  <2> QED
    BY <1>2, <2>1, <2>2, <2>3, <2>4, <2>5 DEF PagingType
<1>4. CursorInv
  BY DEF G!Init, CursorInv
<1>5. OrderInv /\ MissInv
  BY <1>1 DEF G!Init, OrderInv, MissInv
<1> QED
  BY <1>3, <1>4, <1>5 DEF PagingInv

\* The pages hold rows.
LEMMA ShownRows == PagingType => \A n \in DOMAIN shown : shown[n] \subseteq DOMAIN table
BY LenProperties, ElementOfSeq DEF PagingType

\* While nobody reads, rows keep their place, and listed rows of a list that stays are listed.
LEMMA NobodyReads ==
  ASSUME PagingInv, \A i \in DOMAIN table : i \in DOMAIN table' /\ table'[i].at = table[i].at,
         UNCHANGED <<list, cursor, done, shown, cursors>>, since' \subseteq since,
         list.stays => G!Listed \subseteq G!Listed'
  PROVE  CursorInv' /\ OrderInv' /\ MissInv'
<1>1. \A i, j \in DOMAIN table : G!Before(i, j, TRUE)' = G!Before(i, j, TRUE)
  BY OrderKept
<1>2. \A n \in DOMAIN shown : shown[n] \subseteq DOMAIN table
  BY ShownRows DEF PagingInv
<1>3. cursor # 0 => cursor \in DOMAIN table
  BY DEF PagingInv, PagingType
<1>4. cursors \subseteq DOMAIN table /\ since \subseteq DOMAIN table
  BY DEF PagingInv, PagingType
<1>5. CursorInv'
  BY DEF PagingInv, CursorInv
<1>6. OrderInv'
  <2> SUFFICES ASSUME list.unique
               PROVE  /\ \A m, n \in DOMAIN shown : m < n => \A i \in shown[m], j \in shown[n] : G!Before(i, j, TRUE)'
                      /\ cursor # 0 => \A n \in DOMAIN shown : \A i \in shown[n] : G!Before(i, cursor, TRUE)'
    BY DEF OrderInv
  <2> QED
    BY <1>1, <1>2, <1>3 DEF PagingInv, OrderInv
<1>7. MissInv'
  <2> SUFFICES ASSUME list.unique, list.stays PROVE MissInv'
    BY DEF MissInv
  <2>1. MissInv
    BY DEF PagingInv
  <2>2. since' \subseteq G!Listed' /\ cursors \subseteq G!Listed'
    BY <2>1 DEF MissInv
  <2>3. cursor # 0 => /\ cursor \in cursors
                      /\ \A c \in cursors : c = cursor \/ G!Before(c, cursor, TRUE)'
    BY <1>1, <1>3, <1>4, <2>1 DEF MissInv
  <2>4. \A i \in since' : \/ i \in cursors \/ \E n \in DOMAIN shown : i \in shown[n]
                          \/ cursor # 0 /\ G!Before(cursor, i, TRUE)'
    BY <1>1, <1>3, <1>4, <2>1 DEF MissInv
  <2> QED
    BY <2>1, <2>2, <2>3, <2>4 DEF MissInv
<1> QED
  BY <1>5, <1>6, <1>7

LEMMA RowInsertedKeeps == PagingInv /\ G!RowInserted => PagingInv'
<1> SUFFICES ASSUME PagingInv, G!RowInserted PROVE PagingInv'
  OBVIOUS
<1> DEFINE n == Len(table) + 1
<1>1. now \in Nat /\ now \in 1..now
  BY DEF PagingInv, PagingType
<1>2. PICK row \in Row : row = [at |-> now, state |-> "open"]
  <2>1. [at |-> now, state |-> "open"] \in Row
    BY <1>1 DEF Row, G!All
  <2> QED
    BY <2>1
<1>3. table' = Append(table, row) /\ UNCHANGED <<list, now, cursor, done, shown, cursors, since>>
  BY <1>2 DEF G!RowInserted
<1>4. /\ table' \in Seq(Row) /\ DOMAIN table' = DOMAIN table \cup {n}
      /\ table'[n] = row /\ \A i \in DOMAIN table : table'[i] = table[i]
  BY <1>3, Added DEF PagingInv, PagingType
<1>5. shown' \in Seq(SUBSET DOMAIN table')
  BY <1>3, <1>4, SeqMonotonic DEF PagingInv, PagingType
<1>6. PagingType'
  BY <1>1, <1>2, <1>3, <1>4, <1>5 DEF PagingInv, PagingType
<1>7. G!Listed \subseteq G!Listed'
  BY <1>3, <1>4 DEF G!Listed
<1> QED
  BY <1>3, <1>4, <1>6, <1>7, NobodyReads DEF PagingInv

LEMMA RowDoneKeeps ==
  ASSUME PagingInv, NEW i \in DOMAIN table, G!RowDone(i)
  PROVE  PagingInv'
<1>1. table[i] \in Row /\ table \in Seq(Row)
  BY LenProperties, ElementOfSeq DEF PagingInv, PagingType
<1>2. PICK row \in Row : row = [table[i] EXCEPT !.state = "done"]
  <2>1. [table[i] EXCEPT !.state = "done"] \in Row
    BY <1>1 DEF Row, G!All
  <2> QED
    BY <2>1
<1>3. row.at = table[i].at /\ row.state = "done"
  BY <1>1, <1>2 DEF Row
<1>4. table' = [table EXCEPT ![i] = row] /\ UNCHANGED <<list, now, cursor, done, shown, cursors>>
      /\ since' \subseteq since
  BY <1>2 DEF G!RowDone
<1>5. /\ table' \in Seq(Row) /\ DOMAIN table' = DOMAIN table
      /\ table'[i] = row /\ \A j \in DOMAIN table \ {i} : table'[j] = table[j]
  BY <1>1, <1>4, Put
<1>6. PagingType'
  BY <1>3, <1>4, <1>5 DEF PagingInv, PagingType
<1>7. list.stays => G!Listed \subseteq G!Listed'
  BY <1>3, <1>4, <1>5, ListsStay DEF G!Listed, PagingInv, PagingType
<1> QED
  BY <1>3, <1>4, <1>5, <1>6, <1>7, NobodyReads DEF PagingInv

LEMMA TickKeeps == PagingInv /\ G!Tick => PagingInv'
<1> SUFFICES ASSUME PagingInv, G!Tick PROVE PagingInv'
  OBVIOUS
<1>1. UNCHANGED <<list, table, cursor, done, shown, cursors, since>> /\ now' = now + 1
  BY DEF G!Tick
<1>2. now \in Nat /\ 1..now \subseteq 1..now' /\ now' \in Nat \ {0}
  BY <1>1 DEF PagingInv, PagingType
<1>3. PagingType'
  BY <1>1, <1>2 DEF PagingInv, PagingType
<1>4. G!Listed' = G!Listed
  BY <1>1 DEF G!Listed
<1> QED
  BY <1>1, <1>3, <1>4, NobodyReads DEF PagingInv

\* A page ends at the last row that is left, or at its own last row, the next cursor.
LEMMA PageEnds ==
  ASSUME Limit \in Nat, PagingType, NEW byId,
         NEW page \in G!Pages(G!Rest, byId), NEW next \in G!NextCursors(page, byId)
  PROVE  /\ page \subseteq G!Skipped(G!Rest, byId) /\ page \subseteq DOMAIN table
         /\ next = 0 => page = G!Skipped(G!Rest, byId)
         /\ next # 0 => /\ next \in page
                        /\ \A j \in page \ {next} : G!Before(j, next, byId)
                        /\ \A i \in G!Skipped(G!Rest, byId) \ page : G!Before(next, i, byId)
<1>1. G!Skipped(G!Rest, byId) \subseteq DOMAIN table
  BY DEF G!Skipped, G!Rest, G!Listed
<1>2. /\ page \subseteq G!Skipped(G!Rest, byId)
      /\ \A i \in page : \A j \in G!Skipped(G!Rest, byId) \ page : G!Before(i, j, byId)
      /\ G!Cardinality(page) = Limit + 1 \/ page = G!Skipped(G!Rest, byId)
  BY DEF G!Pages, G!FirstRows
<1>3. 0 \notin DOMAIN table
  BY LenProperties DEF PagingType
<1>4. CASE G!Cardinality(page) > Limit
  BY <1>1, <1>2, <1>3, <1>4 DEF G!NextCursors
<1>5. CASE ~(G!Cardinality(page) > Limit)
  <2>1. G!Cardinality(page) # Limit + 1
    BY <1>5
  <2> QED
    BY <1>1, <1>2, <1>5, <2>1 DEF G!NextCursors
<1> QED
  BY <1>4, <1>5

\* What is left after a cursor comes after it, if the cursor is still listed, or not before it.
LEMMA LeftAfter ==
  ASSUME PagingType, list.unique, cursor # 0
  PROVE  /\ \A i \in G!Skipped(G!Rest, TRUE) : i = cursor \/ G!Before(cursor, i, TRUE)
         /\ cursor \in G!Listed => G!Skipped(G!Rest, TRUE) = {i \in G!Listed : G!Before(cursor, i, TRUE)}
<1>1. G!Rest = {i \in G!Listed : i = cursor \/ G!Before(cursor, i, TRUE)}
  BY DEF G!Rest
<1>2. G!Skipped(G!Rest, TRUE) = {i \in G!Rest : \E j \in G!Rest : G!Before(j, i, TRUE)}
  BY DEF G!Skipped
<1>3. G!Listed \subseteq DOMAIN table /\ cursor \in DOMAIN table
  BY DEF G!Listed, PagingType
<1>4. ASSUME cursor \in G!Listed
      PROVE  G!Skipped(G!Rest, TRUE) = {i \in G!Listed : G!Before(cursor, i, TRUE)}
  <2>1. ASSUME NEW i \in G!Skipped(G!Rest, TRUE) PROVE i \in G!Listed /\ G!Before(cursor, i, TRUE)
    BY <1>1, <1>2, <1>3, <2>1, InOrder
  <2>2. ASSUME NEW i \in G!Listed, G!Before(cursor, i, TRUE) PROVE i \in G!Skipped(G!Rest, TRUE)
    BY <1>1, <1>2, <1>4, <2>2
  <2> QED
    BY <2>1, <2>2
<1> QED
  BY <1>1, <1>2, <1>4

LEMMA PageReadKeeps ==
  ASSUME Limit \in Nat, PagingInv, ~done, NEW byId \in BOOLEAN, G!PageRead(byId)
  PROVE  PagingInv'
<1>0. PICK page \in G!Pages(G!Rest, byId) : \E next \in G!NextCursors(page, byId) :
          /\ shown' = Append(shown, page \ {next}) /\ cursor' = next
          /\ cursors' = cursors \cup ({next} \ {0}) /\ done' = (next = 0)
  BY DEF G!PageRead, G!Items
<1>1. PICK next \in G!NextCursors(page, byId) :
          /\ shown' = Append(shown, page \ {next}) /\ cursor' = next
          /\ cursors' = cursors \cup ({next} \ {0}) /\ done' = (next = 0)
  BY <1>0
<1>2. /\ list.unique => byId = TRUE
      /\ UNCHANGED <<list, table, now>> /\ since' = IF cursor = 0 THEN G!Listed ELSE since
  BY DEF G!PageRead
<1> DEFINE skipped == G!Skipped(G!Rest, byId)
           items == page \ {next}
           n == Len(shown) + 1
<1>3. /\ page \subseteq skipped /\ page \subseteq DOMAIN table
      /\ next = 0 => page = skipped
      /\ next # 0 => /\ next \in page
                     /\ \A j \in items : G!Before(j, next, byId)
                     /\ \A i \in skipped \ page : G!Before(next, i, byId)
  BY PageEnds DEF PagingInv
<1>4. /\ shown' \in Seq(SUBSET DOMAIN table) /\ DOMAIN shown' = DOMAIN shown \cup {n} /\ n \notin DOMAIN shown
      /\ shown'[n] = items /\ \A m \in DOMAIN shown : shown'[m] = shown[m] /\ m < n
  <2>1. items \in SUBSET DOMAIN table /\ shown \in Seq(SUBSET DOMAIN table)
    BY <1>3 DEF PagingInv, PagingType
  <2>2. \A m \in DOMAIN shown : m < n /\ m \in Nat /\ n \in Nat
    BY <2>1, LenProperties
  <2> QED
    BY <1>1, <2>1, <2>2, Added
<1>5. \A m \in DOMAIN shown : shown[m] \subseteq DOMAIN table
  BY ShownRows DEF PagingInv
<1>6. G!Listed' = G!Listed /\ G!Listed \subseteq DOMAIN table
      /\ \A i, j : G!Before(i, j, TRUE)' = G!Before(i, j, TRUE)
  BY <1>2 DEF G!Listed, G!Before
<1>7. PagingType'
  <2>1. next \in {0} \cup DOMAIN table /\ since' \subseteq DOMAIN table /\ done' \in BOOLEAN
        /\ cursors' \subseteq DOMAIN table
    BY <1>1, <1>2, <1>3, <1>6 DEF PagingInv, PagingType
  <2> QED
    BY <1>1, <1>2, <1>4, <2>1 DEF PagingInv, PagingType
<1>8. CursorInv'
  BY <1>1 DEF CursorInv
<1>9. cursor = 0 => DOMAIN shown = {} /\ cursors = {} /\ since = {} /\ skipped = G!Listed
  <2>1. cursor = 0 => shown = <<>> /\ cursors = {} /\ since = {}
    BY DEF PagingInv, CursorInv
  <2>2. cursor = 0 => skipped = G!Listed
    BY DEF G!Skipped, G!Rest
  <2> QED
    BY <2>1, <2>2
\* What is shown now comes after what was shown.
<1>10. ASSUME list.unique
       PROVE  \A m \in DOMAIN shown : \A i \in shown[m], j \in skipped : G!Before(i, j, TRUE)
  <2> SUFFICES ASSUME cursor # 0, NEW m \in DOMAIN shown, NEW i \in shown[m], NEW j \in skipped
               PROVE  G!Before(i, j, TRUE)
    BY <1>9
  <2>1. G!Before(i, cursor, TRUE)
    BY <1>10 DEF PagingInv, OrderInv
  <2>2. j = cursor \/ G!Before(cursor, j, TRUE)
    BY <1>2, <1>10, LeftAfter DEF PagingInv
  <2>3. i \in DOMAIN table /\ cursor \in DOMAIN table /\ j \in DOMAIN table
    BY <1>5 DEF PagingInv, PagingType, G!Skipped, G!Rest, G!Listed
  <2> QED
    BY <2>1, <2>2, <2>3, InOrder DEF PagingInv
<1>11. OrderInv'
  <2> SUFFICES ASSUME list.unique
               PROVE  /\ \A m, l \in DOMAIN shown' : m < l =>
                            \A i \in shown'[m], j \in shown'[l] : G!Before(i, j, TRUE)
                      /\ next # 0 => \A l \in DOMAIN shown' : \A i \in shown'[l] : G!Before(i, next, TRUE)
    BY <1>1, <1>2 DEF OrderInv, G!Before
  <2>1. ASSUME NEW m \in DOMAIN shown', NEW l \in DOMAIN shown', m < l, NEW i \in shown'[m], NEW j \in shown'[l]
        PROVE  G!Before(i, j, TRUE)
    <3>1. m \in Nat /\ l \in Nat /\ n \in Nat
      BY <1>4, LenProperties DEF PagingInv, PagingType
    <3>2. CASE l = n
      <4>1. m \in DOMAIN shown /\ i \in shown[m] /\ j \in skipped
        BY <1>3, <1>4, <2>1, <3>1, <3>2
      <4> QED
        BY <1>10, <4>1
    <3>3. CASE l \in DOMAIN shown
      <4>1. m \in DOMAIN shown /\ i \in shown[m] /\ j \in shown[l]
        BY <1>4, <2>1, <3>1, <3>3
      <4> QED
        BY <2>1, <3>3, <4>1 DEF PagingInv, OrderInv
    <3> QED
      BY <1>4, <3>2, <3>3
  <2>2. ASSUME next # 0, NEW l \in DOMAIN shown', NEW i \in shown'[l] PROVE G!Before(i, next, TRUE)
    BY <1>2, <1>3, <1>4, <1>10, <2>2
  <2> QED
    BY <2>1, <2>2
<1>12. ASSUME list.unique, list.stays PROVE MissInv'
  <2> USE DEF PagingInv
  <2>1. byId = TRUE
    BY <1>2, <1>12
  <2>2. MissInv!2
    BY <1>12 DEF MissInv
  <2>3. skipped \subseteq G!Listed
    BY DEF G!Skipped, G!Rest
  <2>4. since' \subseteq G!Listed /\ cursors' \subseteq G!Listed
    BY <1>1, <1>2, <1>3, <2>2, <2>3
  <2>5. cursor # 0 => skipped = {i \in G!Listed : G!Before(cursor, i, TRUE)}
    BY <1>12, <2>1, <2>2, LeftAfter
  <2>6. \A c \in cursors, i \in skipped : c # i /\ G!Before(c, i, TRUE)
    <3> SUFFICES ASSUME cursor # 0, NEW c \in cursors, NEW i \in skipped PROVE c # i /\ G!Before(c, i, TRUE)
      BY <1>9
    <3>1. c \in DOMAIN table /\ i \in DOMAIN table /\ cursor \in DOMAIN table
      BY <1>6, <2>3 DEF PagingType
    <3>2. (c = cursor \/ G!Before(c, cursor, TRUE)) /\ G!Before(cursor, i, TRUE)
      BY <2>2, <2>5
    <3> QED
      BY <3>1, <3>2, InOrder
  <2>7. \A l \in DOMAIN shown' : shown'[l] \cap cursors' = {}
    <3> SUFFICES ASSUME NEW l \in DOMAIN shown', NEW i \in shown'[l], i \in cursors' PROVE FALSE
      OBVIOUS
    <3>1. CASE l = n
      <4>1. i \in skipped /\ i # next
        BY <1>3, <1>4, <3>1
      <4>2. i \in cursors
        BY <1>1, <4>1
      <4> QED
        BY <2>6, <4>1, <4>2
    <3>2. CASE l \in DOMAIN shown
      <4>1. i \in shown[l] /\ i \in DOMAIN table
        BY <1>4, <1>5, <3>2
      <4>2. i \notin cursors
        BY <2>2, <3>2, <4>1
      <4>3. i = next /\ next # 0 /\ next \in skipped
        BY <1>1, <1>3, <4>2
      <4>4. G!Before(i, i, TRUE)
        BY <1>10, <1>12, <3>2, <4>1, <4>3
      <4> QED
        BY <4>1, <4>4, InOrder
    <3> QED
      BY <1>4, <3>1, <3>2
  <2>8. cursor' # 0 => /\ cursor' \in cursors'
                       /\ \A c \in cursors' : c = cursor' \/ G!Before(c, cursor', TRUE)
    BY <1>1, <1>3, <2>6
  <2>9. \A i \in since' : \/ i \in cursors' \/ \E l \in DOMAIN shown' : i \in shown'[l]
                          \/ cursor' # 0 /\ G!Before(cursor', i, TRUE)
    <3> SUFFICES ASSUME NEW i \in since'
                 PROVE  \/ i \in cursors' \/ \E l \in DOMAIN shown' : i \in shown'[l]
                        \/ cursor' # 0 /\ G!Before(cursor', i, TRUE)
      OBVIOUS
    <3>1. i \in cursors \/ (\E l \in DOMAIN shown : i \in shown[l]) \/ i \in skipped
      BY <1>2, <1>9, <2>2, <2>5
    <3>2. ASSUME i \in skipped
          PROVE  i \in cursors' \/ i \in items \/ (next # 0 /\ G!Before(next, i, TRUE))
      <4>1. i # 0
        BY <1>6, <2>3, <3>2, LenProperties DEF PagingType
      <4>2. CASE i \in page
        BY <1>1, <4>1, <4>2
      <4>3. CASE i \notin page
        <5>1. next # 0
          BY <1>3, <3>2, <4>3
        <5>2. G!Before(next, i, byId)
          BY <1>3, <3>2, <4>3, <5>1
        <5> QED
          BY <2>1, <5>1, <5>2
      <4> QED
        BY <4>2, <4>3
    <3>3. i \in items => \E l \in DOMAIN shown' : i \in shown'[l]
      BY <1>4
    <3>4. (\E l \in DOMAIN shown : i \in shown[l]) => \E l \in DOMAIN shown' : i \in shown'[l]
      BY <1>4
    <3> QED
      BY <1>1, <3>1, <3>2, <3>3, <3>4
  <2> QED
    BY <1>6, <2>4, <2>7, <2>8, <2>9 DEF MissInv
<1>13. MissInv'
  BY <1>2, <1>12 DEF MissInv
<1> QED
  BY <1>7, <1>8, <1>11, <1>13 DEF PagingInv

LEMMA PagingStep == Limit \in Nat /\ PagingInv /\ G!Next => PagingInv'
BY RowInsertedKeeps, RowDoneKeeps, TickKeeps, PageReadKeeps DEF G!Next

LEMMA PagingShows == PagingInv => PagesMissOnlyCursors
<1> SUFFICES ASSUME PagingInv PROVE PagesMissOnlyCursors
  OBVIOUS
<1>1. Shown \subseteq DOMAIN table
  BY ShownRows DEF PagingInv, Shown, G!Range
<1>2. DOMAIN table = 1..Len(table) /\ Len(table) \in Nat
  BY LenProperties DEF PagingInv, PagingType
<1>3. \A i \in DOMAIN table : table[i].state \in G!All
  <2>1. table \in Seq(Row)
    BY DEF PagingInv, PagingType
  <2>2. \A i \in DOMAIN table : table[i] \in Row
    BY <1>2, <2>1, ElementOfSeq
  <2> QED
    BY <2>2 DEF Row
<1>4. G!TypeOK
  <2>1. \A i \in DOMAIN table : table[i].at \in 1..now /\ table[i].state \in G!All
    BY <1>3 DEF PagingInv, PagingType
  <2>2. cursor \in 0..Len(table) /\ done \in BOOLEAN /\ cursors \subseteq DOMAIN table /\ since \subseteq DOMAIN table
    BY <1>2 DEF PagingInv, PagingType
  <2> QED
    BY <1>1, <2>1, <2>2 DEF G!TypeOK, Shown
<1>5. G!PagesInOrder
  BY DEF PagingInv, OrderInv, G!PagesInOrder
<1>6. G!OnlyBoundariesMissed
  <2> SUFFICES ASSUME list.unique, list.stays, done PROVE since \ Shown = cursors \cap since
    BY DEF G!OnlyBoundariesMissed, Shown
  <2>1. MissInv!2
    BY DEF PagingInv, MissInv
  <2>2. cursor = 0
    BY DEF PagingInv, CursorInv
  <2>3. \A i : i \in Shown <=> \E n \in DOMAIN shown : i \in shown[n]
    BY DEF Shown, G!Range
  <2> QED
    BY <2>1, <2>2, <2>3
<1> QED
  BY <1>4, <1>5, <1>6 DEF PagesMissOnlyCursors

(* A statement or an audit log read page by page, while rows are inserted    *)
(* and change, shows no row twice or out of order and misses just the rows   *)
(* whose ids were its cursors, for any number of rows and any size of a      *)
(* page.                                                                     *)
THEOREM PagesMissOnlyCursorsHolds == Spec => []PagesMissOnlyCursors
<1> DEFINE Inv == PagingInv /\ (part = "paging" \/ G!Init)
<1>1. BooksInit => Inv
  BY PagingStarts DEF BooksInit
<1>2. Inv /\ [BooksNext]_allVars => Inv'
  <2> SUFFICES ASSUME Inv, [BooksNext]_allVars PROVE Inv'
    OBVIOUS
  <2>1. CASE UNCHANGED <<part, pagingVars>>
    <3>1. G!Listed' = G!Listed /\ \A i, j : G!Before(i, j, TRUE)' = G!Before(i, j, TRUE)
      BY <2>1 DEF pagingVars, G!Listed, G!Before
    <3>2. PagingType' /\ CursorInv'
      BY <2>1 DEF pagingVars, PagingInv, PagingType, CursorInv
    <3>3. OrderInv'
      BY <2>1 DEF pagingVars, PagingInv, OrderInv, G!Before
    <3>4. MissInv'
      BY <2>1, <3>1 DEF pagingVars, PagingInv, MissInv
    <3>5. part' = part /\ (G!Init => G!Init')
      BY <2>1 DEF pagingVars, G!Init
    <3> QED
      BY <3>2, <3>3, <3>4, <3>5 DEF PagingInv
  <2>2. CASE part = "paging" /\ G!Next /\ PagingOnly
    BY <2>2, PagingStep, PageAssumption DEF PagingOnly
  <2> QED
    BY <2>1, <2>2 DEF BooksNext, allVars, ChainOnly, LedgerOnly, EvidenceOnly, ReportsOnly
<1>3. Inv => PagesMissOnlyCursors
  BY PagingShows
<1> QED
  BY <1>1, <1>2, <1>3, PTL DEF Spec

-----------------------------------------------------------------------------
(* The daily totals.                                                        *)

Audit == [tx : Txs, amount : Nat, day : Nat, succeeded : BOOLEAN]
OnWire == [tx : Txs, row : Nat]

LedgerType ==
    /\ calls \in Seq(Audit) /\ wire \subseteq OnWire /\ booked \in [Txs -> Nat] /\ answered \subseteq Txs
    /\ day \in Nat \ {0} /\ clean \in BOOLEAN /\ repeated \in BOOLEAN

\* A row says of its call what was sent; a transaction is on the wire once, and an OK was booked.
RowsInv ==
    /\ \A i \in DOMAIN calls : /\ calls[i].day \in 1..day /\ calls[i].amount = L!AuditedAmount(calls[i].tx)
                               /\ calls[i].succeeded => calls[i].tx \in answered
    /\ \A w \in wire : w.row # 0 => w.row \in DOMAIN calls /\ calls[w.row].tx = w.tx
    /\ \A v, w \in wire : v.tx = w.tx => v = w
    /\ \A t \in Txs : booked[t] <= day
    /\ \A t \in answered : booked[t] # 0

\* Until an OK is forgotten and its call sent again, it has one row at most.
OnceInv ==
    ~repeated =>
        /\ \A w \in wire : w.tx \notin answered
        /\ \A i, j \in DOMAIN calls : calls[i].succeeded /\ calls[j].succeeded /\ calls[i].tx = calls[j].tx => i = j

\* With every row written and every answer seen, what was booked is on a row of its day.
CleanInv ==
    clean /\ ~repeated =>
        /\ \A t \in Txs : booked[t] # 0 =>
              \/ \E w \in wire : w.tx = t /\ w.row # 0 /\ calls[w.row].day = booked[t]
              \/ \E i \in DOMAIN calls : calls[i].tx = t /\ calls[i].succeeded /\ calls[i].day = booked[t]
        /\ \A i \in DOMAIN calls : calls[i].succeeded => calls[i].day = booked[calls[i].tx]

LedgerInv == LedgerType /\ RowsInv /\ OnceInv /\ CleanInv

LEMMA LedgerStarts == L!Init => LedgerInv
<1> SUFFICES ASSUME L!Init PROVE LedgerInv
  OBVIOUS
<1>1. <<>> \in Seq(Audit) /\ DOMAIN (<<>>) = {}
  OBVIOUS
<1>2. LedgerType
  <2>1. clean \in BOOLEAN /\ repeated \in BOOLEAN
    BY DEF L!Init
  <2>2. calls \in Seq(Audit) /\ wire \subseteq OnWire /\ answered \subseteq Txs /\ day \in Nat \ {0}
    BY <1>1 DEF L!Init
  <2>3. booked \in [Txs -> Nat]
    BY DEF L!Init
  <2> QED
    BY <2>1, <2>2, <2>3 DEF LedgerType
<1>3. RowsInv /\ OnceInv /\ CleanInv
  BY <1>1 DEF L!Init, RowsInv, OnceInv, CleanInv
<1> QED
  BY <1>2, <1>3 DEF LedgerInv

\* The parts of a row, and of a call on the wire.
LEMMA CallRows ==
  ASSUME LedgerType
  PROVE  /\ Len(calls) \in Nat /\ DOMAIN calls = 1..Len(calls)
         /\ \A i \in DOMAIN calls : /\ calls[i] \in Audit /\ calls[i].tx \in Txs /\ calls[i].amount \in Nat
                                    /\ calls[i].day \in Nat /\ calls[i].succeeded \in BOOLEAN
         /\ \A w \in wire : w.tx \in Txs /\ w.row \in Nat
<1>1. Len(calls) \in Nat /\ DOMAIN calls = 1..Len(calls) /\ \A i \in DOMAIN calls : calls[i] \in Audit
  BY LenProperties, ElementOfSeq DEF LedgerType
<1>2. \A c \in Audit : c.tx \in Txs /\ c.amount \in Nat /\ c.day \in Nat /\ c.succeeded \in BOOLEAN
  BY DEF Audit
<1>3. \A w \in wire : w.tx \in Txs /\ w.row \in Nat
  BY DEF LedgerType, OnWire
<1> QED
  BY <1>1, <1>2, <1>3

LEMMA Audited == ASSUME NEW t \in Txs PROVE L!AuditedAmount(t) \in Nat
  BY LedgerAssumption DEF L!AuditedAmount

\* A row is written before the call goes out.
LEMMA RecordedKeeps ==
  ASSUME LedgerInv, NEW t \in Txs, \A w \in wire : w.tx # t,
         calls' = Append(calls, [tx |-> t, amount |-> L!AuditedAmount(t), day |-> day, succeeded |-> FALSE]),
         wire' = wire \cup {[tx |-> t, row |-> Len(calls) + 1]}, clean' = clean,
         repeated' = (repeated \/ t \in answered), UNCHANGED <<booked, answered, day>>
  PROVE  LedgerInv'
<1> DEFINE e == [tx |-> t, amount |-> L!AuditedAmount(t), day |-> day, succeeded |-> FALSE]
           n == Len(calls) + 1
           v == [tx |-> t, row |-> n]
<1>1. LedgerType /\ RowsInv /\ OnceInv /\ CleanInv
  BY DEF LedgerInv
<1>2. e \in Audit /\ e.tx = t /\ e.amount = L!AuditedAmount(t) /\ e.day = day /\ e.succeeded = FALSE
  BY <1>1, Audited DEF Audit, LedgerType
<1>3. n \in Nat \ {0} /\ v \in OnWire /\ v.tx = t /\ v.row = n
  BY <1>1, CallRows DEF OnWire
<1>4. calls' = Append(calls, e) /\ wire' = wire \cup {v}
  OBVIOUS
<1> HIDE DEF e, v
<1>5. calls' \in Seq(Audit) /\ DOMAIN calls' = DOMAIN calls \cup {n} /\ n \notin DOMAIN calls
      /\ calls'[n] = e /\ \A i \in DOMAIN calls : calls'[i] = calls[i]
  BY <1>1, <1>2, <1>4, Added DEF LedgerType
<1> HIDE DEF n
<1>6. booked' = booked /\ answered' = answered /\ day' = day /\ clean' = clean
  OBVIOUS
<1>7. LedgerType'
  <2>1. repeated' \in BOOLEAN
    BY <1>1 DEF LedgerType
  <2> QED
    BY <1>1, <1>3, <1>4, <1>5, <1>6, <2>1 DEF LedgerType
<1>8. RowsInv'
  <2>1. ASSUME NEW i \in DOMAIN calls'
        PROVE  /\ calls'[i].day \in 1..day /\ calls'[i].amount = L!AuditedAmount(calls'[i].tx)
               /\ calls'[i].succeeded => calls'[i].tx \in answered
    <3>1. CASE i = n
      BY <1>1, <1>2, <1>5, <3>1 DEF LedgerType
    <3>2. CASE i \in DOMAIN calls
      BY <1>1, <1>5, <3>2 DEF RowsInv
    <3> QED
      BY <1>5, <3>1, <3>2
  <2>2. \A w \in wire' : w.row # 0 => w.row \in DOMAIN calls' /\ calls'[w.row].tx = w.tx
    BY <1>1, <1>2, <1>3, <1>4, <1>5 DEF RowsInv
  <2>3. \A x, w \in wire' : x.tx = w.tx => x = w
    BY <1>1, <1>3, <1>4 DEF RowsInv
  <2> QED
    BY <1>1, <1>6, <2>1, <2>2, <2>3 DEF RowsInv, L!AuditedAmount
<1>9. OnceInv'
  <2> SUFFICES ASSUME ~repeated' PROVE OnceInv'
    BY DEF OnceInv
  <2>1. ~repeated /\ t \notin answered
    OBVIOUS
  <2>2. \A w \in wire' : w.tx \notin answered
    BY <1>1, <1>3, <1>4, <2>1 DEF OnceInv
  <2>3. \A i \in DOMAIN calls' : calls'[i].succeeded => i \in DOMAIN calls
    BY <1>2, <1>5
  <2>4. \A i, j \in DOMAIN calls' :
           calls'[i].succeeded /\ calls'[j].succeeded /\ calls'[i].tx = calls'[j].tx => i = j
    BY <1>1, <1>5, <2>1, <2>3 DEF OnceInv
  <2> QED
    BY <1>6, <2>2, <2>4 DEF OnceInv
<1>10. CleanInv'
  <2> SUFFICES ASSUME clean', ~repeated' PROVE CleanInv'
    BY DEF CleanInv
  <2>1. clean /\ ~repeated
    <3>1. clean
      BY <1>1, <1>6 DEF LedgerType
    <3>2. ~repeated
      OBVIOUS
    <3> QED
      BY <3>1, <3>2
  <2>2. ASSUME NEW u \in Txs, booked'[u] # 0
        PROVE  \/ \E w \in wire' : w.tx = u /\ w.row # 0 /\ calls'[w.row].day = booked'[u]
               \/ \E i \in DOMAIN calls' : calls'[i].tx = u /\ calls'[i].succeeded /\ calls'[i].day = booked'[u]
    <3>1. booked'[u] = booked[u] /\ booked[u] # 0
      BY <1>6, <2>2
    <3>2. CASE \E w \in wire : w.tx = u /\ w.row # 0 /\ calls[w.row].day = booked[u]
      <4>1. PICK w \in wire : w.tx = u /\ w.row # 0 /\ calls[w.row].day = booked[u]
        BY <3>2
      <4>2. w \in wire' /\ calls'[w.row] = calls[w.row]
        BY <1>1, <1>4, <1>5, <4>1 DEF RowsInv
      <4> QED
        BY <3>1, <4>1, <4>2
    <3>3. CASE \E i \in DOMAIN calls : calls[i].tx = u /\ calls[i].succeeded /\ calls[i].day = booked[u]
      BY <1>5, <3>1, <3>3
    <3> QED
      BY <1>1, <2>1, <3>1, <3>2, <3>3 DEF CleanInv
  <2>3. \A i \in DOMAIN calls' : calls'[i].succeeded => calls'[i].day = booked[calls'[i].tx]
    BY <1>1, <1>2, <1>5, <2>1 DEF CleanInv
  <2>4. \A i \in DOMAIN calls' : calls'[i].succeeded => calls'[i].day = booked'[calls'[i].tx]
    BY <1>6, <2>3
  <2> QED
    BY <2>2, <2>4 DEF CleanInv
<1> QED
  BY <1>7, <1>8, <1>9, <1>10 DEF LedgerInv

\* The row could not be written, and the call goes out all the same.
LEMMA UnrecordedKeeps ==
  ASSUME LedgerInv, NEW t \in Txs, \A w \in wire : w.tx # t,
         wire' = wire \cup {[tx |-> t, row |-> 0]}, ~clean',
         repeated' = (repeated \/ t \in answered), UNCHANGED <<calls, booked, answered, day>>, clean' \in BOOLEAN
  PROVE  LedgerInv'
<1> DEFINE v == [tx |-> t, row |-> 0]
<1>1. LedgerType /\ RowsInv /\ OnceInv /\ CleanInv
  BY DEF LedgerInv
<1>2. v \in OnWire /\ v.tx = t /\ v.row = 0
  BY DEF OnWire
<1>3. wire' = wire \cup {v}
  OBVIOUS
<1> HIDE DEF v
<1>4. LedgerType'
  <2>1. repeated' \in BOOLEAN
    BY <1>1 DEF LedgerType
  <2> QED
    BY <1>1, <1>2, <1>3, <2>1 DEF LedgerType
<1>5. RowsInv'
  <2>1. \A w \in wire' : w.row # 0 => w.row \in DOMAIN calls /\ calls[w.row].tx = w.tx
    BY <1>1, <1>2, <1>3 DEF RowsInv
  <2>2. \A x, w \in wire' : x.tx = w.tx => x = w
    BY <1>1, <1>2, <1>3 DEF RowsInv
  <2> QED
    BY <1>1, <2>1, <2>2 DEF RowsInv, L!AuditedAmount
<1>6. OnceInv'
  BY <1>1, <1>2, <1>3 DEF OnceInv
<1>7. CleanInv'
  BY DEF CleanInv
<1> QED
  BY <1>4, <1>5, <1>6, <1>7 DEF LedgerInv

LEMMA CallSentKeeps == ASSUME LedgerInv, NEW t \in Txs, L!CallSent(t) PROVE LedgerInv'
<1>1. /\ \A w \in wire : w.tx # t
      /\ repeated' = (repeated \/ t \in answered) /\ UNCHANGED <<booked, answered, day>>
  BY DEF L!CallSent
<1>2. CASE /\ calls' = Append(calls, [tx |-> t, amount |-> L!AuditedAmount(t), day |-> day, succeeded |-> FALSE])
           /\ wire' = wire \cup {[tx |-> t, row |-> Len(calls) + 1]}
           /\ UNCHANGED clean
  BY <1>1, <1>2, RecordedKeeps
<1>3. CASE /\ wire' = wire \cup {[tx |-> t, row |-> 0]}
           /\ clean' = FALSE /\ UNCHANGED calls
  <2>1. ~clean' /\ clean' \in BOOLEAN
    BY <1>3
  <2> QED
    BY <1>1, <1>3, <2>1, UnrecordedKeeps
<1> QED
  BY <1>2, <1>3 DEF L!CallSent

LEMMA BookedKeeps == ASSUME LedgerInv, NEW t \in Txs, L!Booked(t) PROVE LedgerInv'
<1>1. LedgerType /\ RowsInv /\ OnceInv /\ CleanInv
  BY DEF LedgerInv
<1>2. /\ \E w \in wire : w.tx = t
      /\ booked[t] = 0 /\ booked' = [booked EXCEPT ![t] = day]
      /\ clean' = (clean /\ \A w \in wire : w.tx = t => w.row # 0 /\ calls[w.row].day = day)
      /\ UNCHANGED <<calls, wire, answered, day, repeated>>
  BY DEF L!Booked
<1>3. day \in Nat \ {0} /\ booked' \in [Txs -> Nat] /\ booked'[t] = day
      /\ \A u \in Txs \ {t} : booked'[u] = booked[u]
  BY <1>1, <1>2 DEF LedgerType
<1>4. LedgerType'
  <2>1. clean' \in BOOLEAN
    BY <1>1, <1>2 DEF LedgerType
  <2> QED
    BY <1>1, <1>2, <1>3, <2>1 DEF LedgerType
<1>5. RowsInv'
  <2>1. \A u \in Txs : booked'[u] <= day
    BY <1>1, <1>3 DEF RowsInv
  <2>2. \A u \in answered : booked'[u] # 0
    BY <1>1, <1>3 DEF RowsInv, LedgerType
  <2> QED
    BY <1>1, <1>2, <2>1, <2>2 DEF RowsInv, L!AuditedAmount
<1>6. OnceInv'
  BY <1>1, <1>2 DEF OnceInv
<1>7. CleanInv'
  <2> SUFFICES ASSUME clean', ~repeated PROVE CleanInv'
    BY <1>2 DEF CleanInv
  <2>1. clean /\ \A w \in wire : w.tx = t => w.row # 0 /\ calls[w.row].day = day
    BY <1>2
  <2>2. ASSUME NEW u \in Txs, booked'[u] # 0
        PROVE  \/ \E w \in wire : w.tx = u /\ w.row # 0 /\ calls[w.row].day = booked'[u]
               \/ \E i \in DOMAIN calls : calls[i].tx = u /\ calls[i].succeeded /\ calls[i].day = booked'[u]
    <3>1. CASE u = t
      BY <1>2, <1>3, <2>1, <3>1
    <3>2. CASE u # t
      BY <1>1, <1>3, <2>1, <2>2, <3>2 DEF CleanInv
    <3> QED
      BY <3>1, <3>2
  <2>3. ASSUME NEW i \in DOMAIN calls, calls[i].succeeded PROVE calls[i].day = booked'[calls[i].tx]
    <3>1. calls[i].tx \in Txs \ {t}
      BY <1>1, <1>2, <2>3, CallRows DEF RowsInv
    <3> QED
      BY <1>1, <1>3, <2>1, <2>3, <3>1 DEF CleanInv
  <2> QED
    BY <1>2, <2>2, <2>3 DEF CleanInv
<1> QED
  BY <1>4, <1>5, <1>6, <1>7 DEF LedgerInv

\* A call leaves the wire; the row of an answered one is marked, or stays.
LEMMA AnsweredKeeps == ASSUME LedgerInv, NEW w \in wire, L!Answered(w) PROVE LedgerInv'
<1>1. LedgerType /\ RowsInv /\ OnceInv /\ CleanInv
  BY DEF LedgerInv
<1>2. /\ booked[w.tx] # 0 /\ answered' = answered \cup {w.tx} /\ wire' = wire \ {w}
      /\ UNCHANGED <<booked, day, repeated>>
  BY DEF L!Answered
<1>3. w.tx \in Txs /\ w.row \in Nat /\ Len(calls) \in Nat /\ DOMAIN calls = 1..Len(calls)
      /\ \A i \in DOMAIN calls : /\ calls[i] \in Audit /\ calls[i].tx \in Txs
                                 /\ calls[i].day \in Nat /\ calls[i].succeeded \in BOOLEAN
  BY <1>1, CallRows
<1>4. CASE UNCHANGED calls /\ clean' = FALSE
  <2>1. LedgerType'
    BY <1>1, <1>2, <1>3, <1>4 DEF LedgerType
  <2>2. RowsInv'
    BY <1>1, <1>2, <1>4 DEF RowsInv, L!AuditedAmount
  <2>3. OnceInv'
    <3>1. \A v \in wire' : v.tx # w.tx
      BY <1>1, <1>2 DEF RowsInv
    <3> QED
      BY <1>1, <1>2, <1>4, <3>1 DEF OnceInv
  <2>4. CleanInv'
    BY <1>4 DEF CleanInv
  <2> QED
    BY <2>1, <2>2, <2>3, <2>4 DEF LedgerInv
<1>5. CASE /\ calls' = [i \in DOMAIN calls |-> IF i = w.row THEN [calls[i] EXCEPT !.succeeded = TRUE] ELSE calls[i]]
           /\ UNCHANGED clean
  <2> DEFINE marked(i) == [calls[i] EXCEPT !.succeeded = TRUE]
  <2>1. ASSUME NEW i \in DOMAIN calls
        PROVE  /\ marked(i) \in Audit /\ marked(i).tx = calls[i].tx /\ marked(i).amount = calls[i].amount
               /\ marked(i).day = calls[i].day /\ marked(i).succeeded = TRUE
    BY <1>3 DEF Audit
  <2>2. DOMAIN calls' = DOMAIN calls
        /\ \A i \in DOMAIN calls : calls'[i] = IF i = w.row THEN marked(i) ELSE calls[i]
    BY <1>5
  <2> HIDE DEF marked
  <2>3. ASSUME NEW i \in DOMAIN calls
        PROVE  /\ calls'[i] \in Audit /\ calls'[i].tx = calls[i].tx /\ calls'[i].amount = calls[i].amount
               /\ calls'[i].day = calls[i].day
               /\ calls'[i].succeeded <=> i = w.row \/ calls[i].succeeded
    <3>1. CASE i = w.row
      BY <2>1, <2>2, <3>1
    <3>2. CASE i # w.row
      BY <1>3, <2>2, <3>2
    <3> QED
      BY <3>1, <3>2
  <2>4. calls' \in Seq(Audit)
    <3>1. calls' = [i \in 1..Len(calls) |-> calls'[i]] /\ \A i \in 1..Len(calls) : calls'[i] \in Audit
      <4>1. calls' = [i \in DOMAIN calls' |-> calls'[i]]
        BY <1>5
      <4> QED
        BY <1>3, <2>2, <2>3, <4>1
    <3> QED
      BY <1>3, <3>1, SeqDef
  <2>5. LedgerType'
    BY <1>1, <1>2, <1>3, <1>5, <2>4 DEF LedgerType
  <2>6. w.row # 0 => w.row \in DOMAIN calls /\ calls[w.row].tx = w.tx
    BY <1>1 DEF RowsInv
  <2>7. 0 \notin DOMAIN calls
    BY <1>3
  <2>8. RowsInv'
    <3>1. ASSUME NEW i \in DOMAIN calls'
          PROVE  /\ calls'[i].day \in 1..day /\ calls'[i].amount = L!AuditedAmount(calls'[i].tx)
                 /\ calls'[i].succeeded => calls'[i].tx \in answered'
      <4>1. i \in DOMAIN calls /\ calls[i].day \in 1..day /\ calls[i].amount = L!AuditedAmount(calls[i].tx)
        BY <1>1, <2>2 DEF RowsInv
      <4>2. calls'[i].succeeded => calls[i].tx \in answered'
        BY <1>1, <1>2, <2>3, <2>6, <2>7, <4>1 DEF RowsInv
      <4> QED
        BY <2>3, <4>1, <4>2
    <3>2. \A v \in wire' : v.row # 0 => v.row \in DOMAIN calls' /\ calls'[v.row].tx = v.tx
      BY <1>1, <1>2, <2>2, <2>3 DEF RowsInv
    <3> QED
      BY <1>1, <1>2, <3>1, <3>2 DEF RowsInv, L!AuditedAmount
  <2>9. ~repeated => \A i \in DOMAIN calls : calls[i].succeeded => calls[i].tx # w.tx
    BY <1>1 DEF OnceInv, RowsInv
  <2>10. OnceInv'
    <3> SUFFICES ASSUME ~repeated PROVE OnceInv'
      BY <1>2 DEF OnceInv
    <3>1. \A v \in wire' : v.tx \notin answered'
      BY <1>1, <1>2 DEF OnceInv, RowsInv
    <3>2. ASSUME NEW i \in DOMAIN calls, NEW j \in DOMAIN calls, calls'[i].succeeded, calls'[j].succeeded,
                 calls[i].tx = calls[j].tx
          PROVE  i = j
      <4>1. (i = w.row \/ calls[i].succeeded) /\ (j = w.row \/ calls[j].succeeded)
        BY <2>3, <3>2
      <4>2. CASE calls[i].succeeded /\ calls[j].succeeded
        BY <1>1, <3>2, <4>2 DEF OnceInv
      <4>3. CASE i = w.row /\ j = w.row
        BY <4>3
      <4>4. CASE i = w.row /\ calls[j].succeeded
        BY <2>6, <2>7, <2>9, <3>2, <4>4
      <4>5. CASE j = w.row /\ calls[i].succeeded
        BY <2>6, <2>7, <2>9, <3>2, <4>5
      <4> QED
        BY <4>1, <4>2, <4>3, <4>4, <4>5
    <3>3. \A i, j \in DOMAIN calls' :
             calls'[i].succeeded /\ calls'[j].succeeded /\ calls'[i].tx = calls'[j].tx => i = j
      BY <2>2, <2>3, <3>2
    <3> QED
      BY <3>1, <3>3 DEF OnceInv
  <2>11. CleanInv'
    <3> SUFFICES ASSUME clean, ~repeated PROVE CleanInv'
      BY <1>2, <1>5 DEF CleanInv
    <3>1. w.row # 0 /\ calls[w.row].day = booked[w.tx]
      <4>1. ~ \E i \in DOMAIN calls : calls[i].tx = w.tx /\ calls[i].succeeded
        BY <2>9
      <4>2. PICK v \in wire : v.tx = w.tx /\ v.row # 0 /\ calls[v.row].day = booked[w.tx]
        BY <1>1, <1>2, <1>3, <4>1 DEF CleanInv
      <4> QED
        BY <1>1, <4>2 DEF RowsInv
    <3>2. ASSUME NEW u \in Txs, booked[u] # 0
          PROVE  \/ \E v \in wire' : v.tx = u /\ v.row # 0 /\ calls'[v.row].day = booked[u]
                 \/ \E i \in DOMAIN calls' : calls'[i].tx = u /\ calls'[i].succeeded /\ calls'[i].day = booked[u]
      <4>1. CASE u = w.tx
        <5>1. w.row \in DOMAIN calls /\ calls[w.row].tx = u /\ calls[w.row].day = booked[u]
          BY <2>6, <3>1, <4>1
        <5> QED
          BY <2>2, <2>3, <5>1
      <4>2. CASE u # w.tx
        <5>1. CASE \E v \in wire : v.tx = u /\ v.row # 0 /\ calls[v.row].day = booked[u]
          <6>1. PICK v \in wire : v.tx = u /\ v.row # 0 /\ calls[v.row].day = booked[u]
            BY <5>1
          <6>2. v \in wire' /\ v.row \in DOMAIN calls
            BY <1>1, <1>2, <4>2, <6>1 DEF RowsInv
          <6> QED
            BY <2>3, <6>1, <6>2
        <5>2. CASE \E i \in DOMAIN calls : calls[i].tx = u /\ calls[i].succeeded /\ calls[i].day = booked[u]
          <6>1. PICK i \in DOMAIN calls : calls[i].tx = u /\ calls[i].succeeded /\ calls[i].day = booked[u]
            BY <5>2
          <6> QED
            BY <2>2, <2>3, <6>1
        <5> QED
          BY <1>1, <3>2, <5>1, <5>2 DEF CleanInv
      <4> QED
        BY <4>1, <4>2
    <3>3. ASSUME NEW i \in DOMAIN calls', calls'[i].succeeded PROVE calls'[i].day = booked[calls'[i].tx]
      <4>1. i \in DOMAIN calls /\ (i = w.row \/ calls[i].succeeded)
        BY <2>2, <2>3, <3>3
      <4>2. calls[i].day = booked[calls[i].tx]
        BY <1>1, <2>6, <3>1, <4>1 DEF CleanInv
      <4> QED
        BY <2>3, <4>1, <4>2
    <3> QED
      BY <1>2, <3>2, <3>3 DEF CleanInv
  <2> QED
    BY <2>5, <2>8, <2>10, <2>11 DEF LedgerInv
<1> QED
  BY <1>4, <1>5 DEF L!Answered

LEMMA UnansweredKeeps == ASSUME LedgerInv, NEW w \in wire, L!Unanswered(w) PROVE LedgerInv'
<1>1. LedgerType /\ RowsInv /\ OnceInv /\ CleanInv
  BY DEF LedgerInv
<1>2. wire' = wire \ {w} /\ clean' = (clean /\ booked[w.tx] = 0)
      /\ UNCHANGED <<calls, booked, answered, day, repeated>>
  BY DEF L!Unanswered
<1>3. LedgerType'
  <2>1. clean' \in BOOLEAN
    BY <1>1, <1>2 DEF LedgerType
  <2> QED
    BY <1>1, <1>2, <2>1 DEF LedgerType
<1>4. RowsInv'
  BY <1>1, <1>2 DEF RowsInv, L!AuditedAmount
<1>5. OnceInv'
  BY <1>1, <1>2 DEF OnceInv
<1>6. CleanInv'
  <2> SUFFICES ASSUME clean', ~repeated PROVE CleanInv'
    BY <1>2 DEF CleanInv
  <2>1. clean /\ booked[w.tx] = 0
    BY <1>2
  <2>2. \A u \in Txs : booked[u] # 0 =>
           \/ \E v \in wire' : v.tx = u /\ v.row # 0 /\ calls[v.row].day = booked[u]
           \/ \E i \in DOMAIN calls : calls[i].tx = u /\ calls[i].succeeded /\ calls[i].day = booked[u]
    BY <1>1, <1>2, <2>1 DEF CleanInv
  <2> QED
    BY <1>1, <1>2, <2>1, <2>2 DEF CleanInv
<1> QED
  BY <1>3, <1>4, <1>5, <1>6 DEF LedgerInv

LEMMA NextDayKeeps == ASSUME LedgerInv, L!NextDay PROVE LedgerInv'
<1>1. LedgerType /\ RowsInv /\ OnceInv /\ CleanInv
  BY DEF LedgerInv
<1>2. day' = day + 1 /\ UNCHANGED <<calls, wire, booked, answered, clean, repeated>>
  BY DEF L!NextDay
<1>3. LedgerType'
  BY <1>1, <1>2 DEF LedgerType
<1>4. RowsInv'
  <2>1. \A i \in DOMAIN calls : calls[i].day \in 1..day'
    BY <1>1, <1>2 DEF RowsInv, LedgerType
  <2>2. \A t \in Txs : booked[t] <= day'
    BY <1>1, <1>2 DEF RowsInv, LedgerType
  <2> QED
    BY <1>1, <1>2, <2>1, <2>2 DEF RowsInv, L!AuditedAmount
<1>5. OnceInv' /\ CleanInv'
  BY <1>1, <1>2 DEF OnceInv, CleanInv
<1> QED
  BY <1>3, <1>4, <1>5 DEF LedgerInv

LEMMA LedgerStep == LedgerInv /\ L!Next => LedgerInv'
  BY CallSentKeeps, BookedKeeps, AnsweredKeeps, UnansweredKeeps, NextDayKeeps DEF L!Next

LEMMA LedgerIsTyped == LedgerInv => L!TypeOK
<1> SUFFICES ASSUME LedgerInv PROVE L!TypeOK
  OBVIOUS
<1>1. LedgerType /\ RowsInv
  BY DEF LedgerInv
<1>2. \A i \in DOMAIN calls : calls[i].tx \in Txs /\ calls[i].day \in 1..day /\ calls[i].succeeded \in BOOLEAN
  BY <1>1, CallRows DEF RowsInv
<1>3. \A w \in wire : w.tx \in Txs /\ w.row \in 0..Len(calls)
  BY <1>1, CallRows DEF RowsInv
<1>4. \A t \in Txs : booked[t] \in 0..day
  BY <1>1 DEF LedgerType, RowsInv
<1>5. answered \subseteq {t \in Txs : booked[t] # 0}
  BY <1>1 DEF LedgerType, RowsInv
<1> QED
  BY <1>2, <1>3, <1>4, <1>5 DEF L!TypeOK

\* The totals add up with the operators of the library.
LEMMA BooksAddition ==
  ASSUME NEW f
  PROVE  /\ \A T : L!SumFunctionOnSet(f, T) = SumFunctionOnSet(f, T)
         /\ L!SumFunction(f) = SumFunctionOnSet(f, DOMAIN f)
  BY DEF L!SumFunction, L!SumFunctionOnSet, L!FoldFunctionOnSet, L!MapThenFoldSet,
         SumFunctionOnSet, FoldFunctionOnSet, MapThenFoldSet

Amounts == [i \in DOMAIN calls |-> calls[i].amount]
Prices == [t \in Txs |-> t.amount]
BookedOn(kind, d) == {t \in Txs : t.kind = kind /\ booked[t] = d}

LEMMA TotalsAre ==
  ASSUME LedgerType, NEW kind, NEW d
  PROVE  /\ L!Amount(kind, d) = SumFunctionOnSet(Amounts, L!Counted(kind, d))
         /\ L!Theirs(kind, d) = SumFunctionOnSet(Prices, BookedOn(kind, d))
         /\ IsFiniteSet(DOMAIN calls) /\ L!Counted(kind, d) \in SUBSET DOMAIN calls
         /\ \A i \in DOMAIN calls : Amounts[i] \in Nat /\ Amounts[i] = calls[i].amount
         /\ \A t \in Txs : Prices[t] \in Nat /\ Prices[t] = t.amount
         /\ L!Amount(kind, d) \in Nat /\ L!Theirs(kind, d) \in Nat
<1>1. L!Amount(kind, d) = SumFunctionOnSet(Amounts, L!Counted(kind, d))
  BY BooksAddition DEF L!Amount, Amounts
<1>2. L!Theirs(kind, d) = SumFunctionOnSet(Prices, BookedOn(kind, d))
  BY BooksAddition DEF L!Theirs, Prices, BookedOn
<1>3. IsFiniteSet(DOMAIN calls)
  <2>1. DOMAIN calls = 1..Len(calls) /\ Len(calls) \in Int /\ 1 \in Int
    BY CallRows
  <2> QED
    BY <2>1, FS_Interval
<1>4. L!Counted(kind, d) \in SUBSET DOMAIN calls /\ BookedOn(kind, d) \in SUBSET Txs
  BY DEF L!Counted, BookedOn
<1>5. \A i \in DOMAIN calls : Amounts[i] \in Nat /\ Amounts[i] = calls[i].amount
  BY CallRows DEF Amounts
<1>6. \A t \in Txs : Prices[t] \in Nat /\ Prices[t] = t.amount
  BY LedgerAssumption DEF Prices
<1>7. L!Amount(kind, d) \in Nat
  <2>1. SumFunctionOnSet(Amounts, L!Counted(kind, d)) \in Int
        /\ 0 <= SumFunctionOnSet(Amounts, L!Counted(kind, d))
    <3>1. IsFiniteSet(L!Counted(kind, d)) /\ \A i \in L!Counted(kind, d) : Amounts[i] \in Int
      BY <1>3, <1>4, <1>5, FS_Subset
    <3> QED
      BY <1>3, <1>4, <1>5, <3>1, OneAdds, PartSum
  <2> QED
    BY <1>1, <2>1
<1>8. L!Theirs(kind, d) \in Nat
  <2>1. SumFunctionOnSet(Prices, BookedOn(kind, d)) \in Int
        /\ 0 <= SumFunctionOnSet(Prices, BookedOn(kind, d))
    <3>1. IsFiniteSet(BookedOn(kind, d)) /\ \A t \in BookedOn(kind, d) : Prices[t] \in Int
      BY <1>4, <1>6, LedgerAssumption, FS_Subset
    <3> QED
      BY <1>4, <1>6, <3>1, LedgerAssumption, OneAdds, PartSum
  <2> QED
    BY <1>2, <2>1
<1> QED
  BY <1>1, <1>2, <1>3, <1>4, <1>5, <1>6, <1>7, <1>8

\* The transactions of rows that were marked cost what the rows say, until one is sent again.
LEMMA RowsCostTheirCalls ==
  ASSUME LedgerInv, ~repeated, NEW kind \in {"BET", "WIN"}, NEW T \in SUBSET DOMAIN calls,
         \A i \in T : calls[i].tx.kind = kind /\ calls[i].succeeded
  PROVE  /\ {calls[i].tx : i \in T} \in SUBSET Txs
         /\ SumFunctionOnSet(Amounts, T) = SumFunctionOnSet(Prices, {calls[i].tx : i \in T})
<1> DEFINE h == [i \in DOMAIN calls |-> calls[i].tx]
<1>1. LedgerType /\ RowsInv /\ OnceInv
  BY DEF LedgerInv
<1>2. IsFiniteSet(T)
  BY <1>1, TotalsAre, FS_Subset
<1>3. \A i \in T : h[i] = calls[i].tx /\ h[i] \in Txs
  BY <1>1, CallRows
<1>4. \A i, j \in T : h[i] = h[j] => i = j
  BY <1>1, <1>3 DEF OnceInv
<1>5. \A i \in T : Amounts[i] \in Int /\ Prices[h[i]] = Amounts[i]
  <2> SUFFICES ASSUME NEW i \in T PROVE Amounts[i] \in Int /\ Prices[h[i]] = Amounts[i]
    OBVIOUS
  <2>1. Amounts[i] \in Nat /\ Amounts[i] = calls[i].amount /\ Prices[h[i]] = h[i].amount
    BY <1>1, <1>3, TotalsAre
  <2>2. calls[i].amount = L!AuditedAmount(calls[i].tx) /\ calls[i].tx.kind # "ROLLBACK"
    BY <1>1 DEF RowsInv
  <2> QED
    BY <1>3, <2>1, <2>2 DEF L!AuditedAmount
<1>6. {h[i] : i \in T} = {calls[i].tx : i \in T}
  BY <1>3
<1> HIDE DEF h
<1>7. SumFunctionOnSet(Prices, {h[i] : i \in T}) = SumFunctionOnSet(Amounts, T)
  BY <1>2, <1>4, <1>5, RenamedSum
<1> QED
  BY <1>3, <1>6, <1>7

LEMMA DriftsHaveCauses == LedgerInv => L!DriftHasACause
<1> SUFFICES ASSUME LedgerInv, clean, ~repeated, wire = {}, NEW d \in 1..day, NEW kind \in {"BET", "WIN"}
             PROVE  L!Amount(kind, d) = L!Theirs(kind, d)
  BY DEF L!DriftHasACause
<1>1. LedgerType /\ RowsInv /\ OnceInv /\ CleanInv
  BY DEF LedgerInv
<1> DEFINE T == L!Counted(kind, d)
<1>2. T \in SUBSET DOMAIN calls
      /\ \A i \in DOMAIN calls : i \in T <=> calls[i].tx.kind = kind /\ calls[i].day = d /\ calls[i].succeeded
  BY DEF L!Counted
<1>3. \A i \in DOMAIN calls : calls[i].succeeded => calls[i].day = booked[calls[i].tx] /\ calls[i].tx \in Txs
  BY <1>1, CallRows DEF CleanInv
<1>4. \A t \in Txs : booked[t] # 0 =>
         \E i \in DOMAIN calls : calls[i].tx = t /\ calls[i].succeeded /\ calls[i].day = booked[t]
  BY <1>1 DEF CleanInv
<1> HIDE DEF T
<1>5. {calls[i].tx : i \in T} = BookedOn(kind, d)
  <2>1. \A i \in T : calls[i].tx \in BookedOn(kind, d)
    BY <1>2, <1>3 DEF BookedOn
  <2>2. ASSUME NEW t \in BookedOn(kind, d) PROVE \E i \in T : t = calls[i].tx
    <3>1. t \in Txs /\ t.kind = kind /\ booked[t] = d /\ d # 0
      BY <1>1 DEF BookedOn, LedgerType
    <3>2. PICK i \in DOMAIN calls : calls[i].tx = t /\ calls[i].succeeded /\ calls[i].day = booked[t]
      BY <1>4, <3>1
    <3> QED
      BY <1>2, <3>1, <3>2
  <2> QED
    BY <2>1, <2>2
<1>6. SumFunctionOnSet(Amounts, T) = SumFunctionOnSet(Prices, BookedOn(kind, d))
  BY <1>2, <1>5, RowsCostTheirCalls
<1> QED
  BY <1>1, <1>6, TotalsAre DEF T

\* What the days of a period claim and what was booked on them, in one sum each.
LEMMA DaysAddUp ==
  ASSUME LedgerType, NEW kind
  PROVE  /\ L!SumFunction([d \in 1..day |-> L!Amount(kind, d)]) =
               SumFunctionOnSet(Amounts, {i \in DOMAIN calls : calls[i].tx.kind = kind /\ calls[i].succeeded
                                                               /\ calls[i].day \in 1..day})
         /\ L!SumFunction([d \in 1..day |-> L!Theirs(kind, d)]) =
               SumFunctionOnSet(Prices, {t \in Txs : t.kind = kind /\ booked[t] \in 1..day})
<1> DEFINE ours == [d \in 1..day |-> L!Amount(kind, d)]
           theirs == [d \in 1..day |-> L!Theirs(kind, d)]
           S == {i \in DOMAIN calls : calls[i].tx.kind = kind /\ calls[i].succeeded}
           U == {t \in Txs : t.kind = kind}
           T == {i \in DOMAIN calls : calls[i].tx.kind = kind /\ calls[i].succeeded /\ calls[i].day \in 1..day}
           V == {t \in Txs : t.kind = kind /\ booked[t] \in 1..day}
           on == [i \in DOMAIN calls |-> calls[i].day]
           rowsOn == [d \in 1..day |-> L!Counted(kind, d)]
           bookedOn == [d \in 1..day |-> BookedOn(kind, d)]
<1>1. day \in Nat /\ IsFiniteSet(1..day)
  BY FS_Interval DEF LedgerType
<1>2. S \in SUBSET DOMAIN calls /\ U \in SUBSET Txs
  OBVIOUS
<1>3. Parted(S, on, 1..day, rowsOn, T)
  BY DEF Parted, L!Counted
<1>4. Parted(U, booked, 1..day, bookedOn, V)
  BY DEF Parted, BookedOn
<1>7. \A d \in 1..day : /\ ours[d] = SumFunctionOnSet(Amounts, rowsOn[d])
                        /\ theirs[d] = SumFunctionOnSet(Prices, bookedOn[d])
  BY TotalsAre
<1>8. DOMAIN ours = 1..day /\ DOMAIN theirs = 1..day
  OBVIOUS
<1> HIDE DEF ours, theirs, S, U, T, V, on, rowsOn, bookedOn
<1>9. IsFiniteSet(S) /\ IsFiniteSet(U) /\ (\A i \in S : Amounts[i] \in Int) /\ (\A t \in U : Prices[t] \in Int)
  BY <1>2, TotalsAre, LedgerAssumption, FS_Subset
<1>10. SumFunctionOnSet(ours, 1..day) = SumFunctionOnSet(Amounts, T)
  BY <1>1, <1>3, <1>7, <1>9, PartitionSum
<1>11. SumFunctionOnSet(theirs, 1..day) = SumFunctionOnSet(Prices, V)
  BY <1>1, <1>4, <1>7, <1>9, PartitionSum
<1>12. L!SumFunction(ours) = SumFunctionOnSet(Amounts, T) /\ L!SumFunction(theirs) = SumFunctionOnSet(Prices, V)
  BY <1>8, <1>10, <1>11, BooksAddition
<1> QED
  BY <1>12 DEF ours, theirs, T, V

LEMMA ClaimsAreBooked == LedgerInv => L!NeverOverstated
<1> SUFFICES ASSUME LedgerInv, ~repeated, NEW kind \in {"BET", "WIN"}
             PROVE  L!SumFunction([d \in 1..day |-> L!Amount(kind, d)])
                       <= L!SumFunction([d \in 1..day |-> L!Theirs(kind, d)])
  BY DEF L!NeverOverstated
<1>1. LedgerType /\ RowsInv
  BY DEF LedgerInv
<1> DEFINE T == {i \in DOMAIN calls : /\ calls[i].tx.kind = kind /\ calls[i].succeeded /\ calls[i].day \in 1..day}
           U == {t \in Txs : t.kind = kind /\ booked[t] \in 1..day}
           V == {calls[i].tx : i \in T}
<1>2. V \in SUBSET U
  <2> SUFFICES ASSUME NEW i \in T PROVE calls[i].tx \in U
    OBVIOUS
  <2>1. calls[i].tx \in Txs /\ calls[i].tx \in answered
    BY <1>1, CallRows DEF RowsInv
  <2>2. booked[calls[i].tx] \in 1..day
    BY <1>1, <2>1 DEF RowsInv, LedgerType
  <2> QED
    BY <2>1, <2>2
<1>3. T \in SUBSET DOMAIN calls /\ \A i \in T : calls[i].tx.kind = kind /\ calls[i].succeeded
  OBVIOUS
<1>4. U \in SUBSET Txs
  OBVIOUS
<1> HIDE DEF T, U
<1>5. SumFunctionOnSet(Amounts, T) = SumFunctionOnSet(Prices, V)
  BY <1>3, RowsCostTheirCalls
<1>6. IsFiniteSet(U) /\ \A t \in U : Prices[t] \in Nat
  BY <1>1, <1>4, LedgerAssumption, TotalsAre, FS_Subset
<1> HIDE DEF V
<1>7. SumFunctionOnSet(Prices, V) <= SumFunctionOnSet(Prices, U)
  BY <1>2, <1>6, PartSum
<1>8. L!SumFunction([d \in 1..day |-> L!Amount(kind, d)]) = SumFunctionOnSet(Amounts, T)
  BY <1>1, DaysAddUp DEF T
<1>9. L!SumFunction([d \in 1..day |-> L!Theirs(kind, d)]) = SumFunctionOnSet(Prices, U)
  BY <1>1, DaysAddUp DEF U
<1> QED
  BY <1>5, <1>7, <1>8, <1>9

\* The verdict on two sets of totals.
Statuses == {"MATCH", "MINOR_DRIFT", "MAJOR_DRIFT"}
Keys == {"bets", "wins", "rollbacks"}

LEMMA Drift ==
  ASSUME NEW drift \in Int, NEW base \in Int
  PROVE  /\ L!pctDrift(drift, base) \in Statuses
         /\ L!pctDrift(drift, base) = "MATCH" <=> drift = 0
         /\ drift # 0 /\ base = 0 => L!pctDrift(drift, base) = "MAJOR_DRIFT"
  BY DEF L!pctDrift, Statuses

LEMMA Exits == L!statusToExit["MATCH"] = 0 /\ L!statusToExit["MINOR_DRIFT"] = 1 /\ L!statusToExit["MAJOR_DRIFT"] = 2
  BY DEF L!statusToExit

LEMMA WorstDrift ==
  ASSUME NEW ours, NEW theirs, \A k \in Keys : ours[k] \in Int /\ theirs[k] \in Int
  PROVE  /\ L!reconcileAgainstOperator(ours, theirs) \in Statuses
         /\ L!reconcileAgainstOperator(ours, theirs) = "MATCH" <=> \A k \in Keys : ours[k] = theirs[k]
         /\ \A k \in Keys : ours[k] = 0 /\ theirs[k] # 0 =>
               L!reconcileAgainstOperator(ours, theirs) = "MAJOR_DRIFT"
<1> DEFINE status(k) == L!pctDrift(theirs[k] - ours[k], ours[k])
           D == {status(k) : k \in Keys}
           Worst(s) == \A r \in D : L!statusToExit[r] <= L!statusToExit[s]
           verdict == L!reconcileAgainstOperator(ours, theirs)
<1>1. ASSUME NEW k \in Keys
      PROVE  /\ status(k) \in Statuses /\ (status(k) = "MATCH" <=> ours[k] = theirs[k])
             /\ ours[k] = 0 /\ theirs[k] # 0 => status(k) = "MAJOR_DRIFT"
  <2>1. theirs[k] - ours[k] \in Int /\ ours[k] \in Int /\ theirs[k] \in Int
    OBVIOUS
  <2>2. theirs[k] - ours[k] = 0 <=> ours[k] = theirs[k]
    BY <2>1
  <2> QED
    BY <2>1, <2>2, Drift
<1> HIDE DEF status
<1>2. D \subseteq Statuses /\ status("bets") \in D
  BY <1>1 DEF Keys
<1>3. \E s \in D : Worst(s)
  <2>1. \A r \in D : r = "MATCH" \/ r = "MINOR_DRIFT" \/ r = "MAJOR_DRIFT"
    BY <1>2 DEF Statuses
  <2>2. CASE "MAJOR_DRIFT" \in D
    BY <2>1, <2>2, Exits
  <2>3. CASE "MAJOR_DRIFT" \notin D /\ "MINOR_DRIFT" \in D
    BY <2>1, <2>3, Exits
  <2>4. CASE "MAJOR_DRIFT" \notin D /\ "MINOR_DRIFT" \notin D
    BY <1>2, <2>1, <2>4, Exits
  <2> QED
    BY <2>2, <2>3, <2>4
<1>4. verdict = CHOOSE s \in D : Worst(s)
  BY DEF L!reconcileAgainstOperator, status, Keys
<1>5. verdict \in D /\ Worst(verdict)
  BY <1>3, <1>4
<1> HIDE DEF verdict
<1>6. verdict \in Statuses
  BY <1>2, <1>5
<1>7. ASSUME NEW k \in Keys PROVE L!statusToExit[status(k)] <= L!statusToExit[verdict]
  BY <1>5
<1>8. verdict = "MATCH" <=> \A k \in Keys : ours[k] = theirs[k]
  <2>1. CASE verdict = "MATCH"
    <3>1. \A k \in Keys : status(k) = "MATCH"
      BY <1>1, <1>7, <2>1, Exits DEF Statuses
    <3> QED
      BY <1>1, <2>1, <3>1
  <2>2. CASE \A k \in Keys : ours[k] = theirs[k]
    BY <1>1, <1>5, <2>2
  <2> QED
    BY <2>1, <2>2
<1>9. \A k \in Keys : ours[k] = 0 /\ theirs[k] # 0 => verdict = "MAJOR_DRIFT"
  BY <1>1, <1>6, <1>7, Exits DEF Statuses
<1> QED
  BY <1>6, <1>8, <1>9 DEF verdict

LEMMA VerdictsAreTrue == LedgerInv => L!VerdictIsTrue
<1> SUFFICES ASSUME LedgerInv, NEW d \in 1..day
             PROVE  LET ours == L!computeDailyTotals(d)
                        verdict == L!ReconciliationReport(d) IN
                    /\ (verdict = "MATCH") = (\A k \in Keys : ours[k] = L!Settlement(d)[k])
                    /\ \A k \in Keys :
                          ours[k] = 0 /\ L!Settlement(d)[k] # 0 => verdict = "MAJOR_DRIFT"
  BY DEF L!VerdictIsTrue, Keys
<1> DEFINE ours == L!computeDailyTotals(d)
           theirs == L!Settlement(d)
<1>1. LedgerType
  BY DEF LedgerInv
<1>2. /\ ours["bets"] = L!Amount("BET", d) /\ ours["wins"] = L!Amount("WIN", d)
      /\ ours["rollbacks"] = L!Amount("ROLLBACK", d)
  BY DEF L!computeDailyTotals
<1>3. /\ theirs["bets"] = L!Theirs("BET", d) /\ theirs["wins"] = L!Theirs("WIN", d)
      /\ theirs["rollbacks"] = L!Theirs("ROLLBACK", d)
  BY DEF L!Settlement
<1> HIDE DEF ours, theirs
<1>4. \A k \in Keys : ours[k] \in Int /\ theirs[k] \in Int
  BY <1>1, <1>2, <1>3, TotalsAre DEF Keys
<1>5. L!ReconciliationReport(d) = L!reconcileAgainstOperator(ours, theirs)
  BY DEF L!ReconciliationReport, ours, theirs
<1>6. /\ L!ReconciliationReport(d) = "MATCH" <=> \A k \in Keys : ours[k] = theirs[k]
      /\ \A k \in Keys : ours[k] = 0 /\ theirs[k] # 0 => L!ReconciliationReport(d) = "MAJOR_DRIFT"
  BY <1>4, <1>5, WorstDrift
<1> QED
  BY <1>6 DEF ours, theirs

\* Totals of all kinds, with the sign they have in the net.
SignedAmounts == [i \in DOMAIN calls |-> IF calls[i].tx.kind = "BET" THEN calls[i].amount ELSE -calls[i].amount]

LEMMA NetOfDay ==
  ASSUME LedgerInv, NEW d
  PROVE  L!computeDailyTotals(d).net =
            SumFunctionOnSet(SignedAmounts, {i \in DOMAIN calls : calls[i].succeeded /\ calls[i].day = d})
<1> DEFINE B == L!Counted("BET", d)
           W == L!Counted("WIN", d)
           Q == L!Counted("ROLLBACK", d)
           Sum(T) == SumFunctionOnSet(SignedAmounts, T)
<1>1. LedgerType
  BY DEF LedgerInv
<1>2. \A i \in DOMAIN calls : calls[i].tx.kind \in {"BET", "WIN", "ROLLBACK"}
  BY <1>1, CallRows, LedgerAssumption
<1>3. {i \in DOMAIN calls : calls[i].succeeded /\ calls[i].day = d} = (B \cup W) \cup Q
  BY <1>2 DEF L!Counted
<1>4. B \cap W = {} /\ (B \cup W) \cap Q = {}
  BY DEF L!Counted
<1>5. /\ \A i \in B : calls[i].tx.kind = "BET"
      /\ \A i \in W \cup Q : calls[i].tx.kind # "BET"
  BY DEF L!Counted
<1>6. B \in SUBSET DOMAIN calls /\ W \in SUBSET DOMAIN calls /\ Q \in SUBSET DOMAIN calls /\ IsFiniteSet(DOMAIN calls)
  BY <1>1, TotalsAre
<1>7. \A i \in DOMAIN calls : Amounts[i] \in Int /\ SignedAmounts[i] \in Int
                              /\ (calls[i].tx.kind = "BET" => SignedAmounts[i] = Amounts[i])
                              /\ (calls[i].tx.kind # "BET" => SignedAmounts[i] = -Amounts[i])
  <2> SUFFICES ASSUME NEW i \in DOMAIN calls
               PROVE  Amounts[i] \in Int /\ SignedAmounts[i] \in Int
                      /\ (calls[i].tx.kind = "BET" => SignedAmounts[i] = Amounts[i])
                      /\ (calls[i].tx.kind # "BET" => SignedAmounts[i] = -Amounts[i])
    OBVIOUS
  <2>1. Amounts[i] = calls[i].amount /\ calls[i].amount \in Nat
    BY <1>1, CallRows, TotalsAre
  <2> QED
    BY <2>1 DEF SignedAmounts
<1> HIDE DEF B, W, Q
<1>8. IsFiniteSet(B) /\ IsFiniteSet(W) /\ IsFiniteSet(Q) /\ IsFiniteSet(B \cup W)
  BY <1>6, FS_Subset, FS_Union
<1>9. Sum(B) = SumFunctionOnSet(Amounts, B)
  BY <1>5, <1>6, <1>7, <1>8, SameSum
<1>10. Sum(W) = -SumFunctionOnSet(Amounts, W)
  <2>1. \A i \in W : Amounts[i] \in Int /\ SignedAmounts[i] = -Amounts[i]
    BY <1>5, <1>6, <1>7
  <2> QED
    BY <1>8, <2>1, NegatedSum
<1>11. Sum(Q) = -SumFunctionOnSet(Amounts, Q)
  <2>1. \A i \in Q : Amounts[i] \in Int /\ SignedAmounts[i] = -Amounts[i]
    BY <1>5, <1>6, <1>7
  <2> QED
    BY <1>8, <2>1, NegatedSum
<1>12. Sum((B \cup W) \cup Q) = Sum(B \cup W) + Sum(Q)
  <2>1. \A i \in (B \cup W) \cup Q : SignedAmounts[i] \in Int
    BY <1>6, <1>7
  <2> QED
    BY <1>4, <1>8, <2>1, JoinedSum
<1>13. Sum(B \cup W) = Sum(B) + Sum(W)
  <2>1. \A i \in B \cup W : SignedAmounts[i] \in Int
    BY <1>6, <1>7
  <2> QED
    BY <1>4, <1>8, <2>1, JoinedSum
<1>14. L!computeDailyTotals(d).net = L!Amount("BET", d) - L!Amount("WIN", d) - L!Amount("ROLLBACK", d)
  BY DEF L!computeDailyTotals
<1>15. /\ L!Amount("BET", d) = SumFunctionOnSet(Amounts, B) /\ L!Amount("WIN", d) = SumFunctionOnSet(Amounts, W)
       /\ L!Amount("ROLLBACK", d) = SumFunctionOnSet(Amounts, Q)
       /\ L!Amount("BET", d) \in Nat /\ L!Amount("WIN", d) \in Nat /\ L!Amount("ROLLBACK", d) \in Nat
  BY <1>1, TotalsAre DEF B, W, Q
<1> HIDE DEF Sum
<1>16. Sum((B \cup W) \cup Q) = L!computeDailyTotals(d).net
  BY <1>9, <1>10, <1>11, <1>12, <1>13, <1>14, <1>15
<1> QED
  BY <1>3, <1>16 DEF Sum

\* A period of n days after a day has the calls of these days, each once.
LEMMA PeriodAddsUp ==
  ASSUME LedgerInv, NEW before \in Int, NEW n \in Nat, NEW days, days = [i \in 1..n |-> before + i]
  PROVE  L!SumFunction([i \in DOMAIN L!collectTotals(days) |-> L!collectTotals(days)[i].net]) =
            SumFunctionOnSet(SignedAmounts, {i \in DOMAIN calls : /\ calls[i].succeeded
                                                                  /\ calls[i].day \in (before + 1)..(before + n)})
<1> DEFINE nets == [i \in DOMAIN L!collectTotals(days) |-> L!collectTotals(days)[i].net]
           S == {i \in DOMAIN calls : calls[i].succeeded}
           T == {i \in DOMAIN calls : calls[i].succeeded /\ calls[i].day \in (before + 1)..(before + n)}
           on == [i \in DOMAIN calls |-> calls[i].day - before]
           rowsOn == [k \in 1..n |-> {i \in DOMAIN calls : calls[i].succeeded /\ calls[i].day = before + k}]
<1>1. LedgerType
  BY DEF LedgerInv
<1>2. \A i \in DOMAIN calls : calls[i].day \in Int
  BY <1>1, CallRows
<1>3. DOMAIN L!collectTotals(days) = 1..n
      /\ \A k \in 1..n : L!collectTotals(days)[k] = L!computeDailyTotals(before + k)
  BY DEF L!collectTotals
<1>4. DOMAIN nets = 1..n /\ \A k \in 1..n : nets[k] = L!computeDailyTotals(before + k).net
  BY <1>3
<1>5. \A k \in 1..n : nets[k] = SumFunctionOnSet(SignedAmounts, rowsOn[k])
  <2> SUFFICES ASSUME NEW k \in 1..n PROVE nets[k] = SumFunctionOnSet(SignedAmounts, rowsOn[k])
    OBVIOUS
  <2>1. rowsOn[k] = {i \in DOMAIN calls : calls[i].succeeded /\ calls[i].day = before + k}
    OBVIOUS
  <2> HIDE DEF rowsOn, nets
  <2> QED
    BY <1>4, <2>1, NetOfDay
<1>6. Parted(S, on, 1..n, rowsOn, T)
  <2>1. \A k \in 1..n : rowsOn[k] \in SUBSET S /\ \A i \in S : i \in rowsOn[k] <=> on[i] = k
    BY <1>2
  <2>2. T \in SUBSET S /\ \A i \in S : i \in T <=> on[i] \in 1..n
    BY <1>2
  <2> HIDE DEF S, T, on, rowsOn
  <2> QED
    BY <2>1, <2>2 DEF Parted
<1>7. S \in SUBSET DOMAIN calls
  OBVIOUS
<1>8. \A i \in DOMAIN calls : SignedAmounts[i] \in Int
  <2>1. \A i \in DOMAIN calls : calls[i].amount \in Nat
    BY <1>1, CallRows
  <2> QED
    BY <2>1 DEF SignedAmounts
<1> DEFINE K == 1..n
<1>9. IsFiniteSet(K) /\ DOMAIN nets = K
  <2>1. 1 \in Int /\ n \in Int
    OBVIOUS
  <2>2. IsFiniteSet(1..n)
    BY ONLY <2>1, FS_Interval
  <2>3. DOMAIN nets = 1..n
    BY <1>4
  <2> QED
    BY <2>2, <2>3
<1>10. (\A k \in K : nets[k] = SumFunctionOnSet(SignedAmounts, rowsOn[k])) /\ Parted(S, on, K, rowsOn, T)
  BY <1>5, <1>6
<1> HIDE DEF nets, S, T, on, rowsOn, K
<1>11. IsFiniteSet(S) /\ \A i \in S : SignedAmounts[i] \in Int
  <2>1. IsFiniteSet(DOMAIN calls)
    BY <1>1, TotalsAre
  <2> QED
    BY <1>7, <1>8, <2>1, FS_Subset
<1>12. SumFunctionOnSet(nets, K) = SumFunctionOnSet(SignedAmounts, T)
  BY <1>9, <1>10, <1>11, PartitionSum
<1>13. L!SumFunction(nets) = SumFunctionOnSet(SignedAmounts, T)
  BY <1>9, <1>12, BooksAddition
<1> QED
  BY <1>13 DEF nets, T

LEMMA PeriodsCountOnce == LedgerInv => L!PeriodsPartition
<1> DEFINE net(totals) == L!SumFunction([i \in DOMAIN totals |-> totals[i].net])
           between(first, last) ==
              L!SumFunctionOnSet(SignedAmounts,
                                 {i \in DOMAIN calls : calls[i].succeeded /\ calls[i].day \in first..last})
<1> SUFFICES ASSUME LedgerInv
             PROVE  /\ L!collectTotals(L!Daily(day)) = <<L!DailyReport(day)>>
                    /\ \A d \in {1, 7, 8} : net(L!collectTotals(L!Weekly(d))) = between(d - 6, d)
                    /\ \A first, n \in {1, 2} : net(L!collectTotals(L!Monthly(first, n))) = between(first, first + n - 1)
  BY DEF L!PeriodsPartition, SignedAmounts
<1>1. L!collectTotals(L!Daily(day)) = <<L!DailyReport(day)>>
  BY DEF L!collectTotals, L!Daily, L!DailyReport
<1>2. ASSUME NEW before \in Int, NEW n \in Nat, NEW days, days = [i \in 1..n |-> before + i]
      PROVE  net(L!collectTotals(days)) = between(before + 1, before + n)
  <2>1. net(L!collectTotals(days)) =
           SumFunctionOnSet(SignedAmounts, {i \in DOMAIN calls : /\ calls[i].succeeded
                                                                 /\ calls[i].day \in (before + 1)..(before + n)})
    BY <1>2, PeriodAddsUp
  <2> QED
    BY <2>1, BooksAddition
<1> HIDE DEF net, between
<1>3. ASSUME NEW d \in Int PROVE net(L!collectTotals(L!Weekly(d))) = between(d - 6, d)
  <2>1. L!Weekly(d) = [i \in 1..7 |-> (d - 7) + i]
    BY DEF L!Weekly
  <2>2. d - 7 \in Int /\ (d - 7) + 1 = d - 6 /\ (d - 7) + 7 = d /\ 7 \in Nat
    OBVIOUS
  <2>3. net(L!collectTotals(L!Weekly(d))) = between((d - 7) + 1, (d - 7) + 7)
    BY <1>2, <2>1, <2>2
  <2> QED
    BY <2>2, <2>3
<1>4. ASSUME NEW first \in Int, NEW n \in Nat
      PROVE  net(L!collectTotals(L!Monthly(first, n))) = between(first, first + n - 1)
  <2>1. L!Monthly(first, n) = [i \in 1..n |-> (first - 1) + i]
    BY DEF L!Monthly
  <2>2. first - 1 \in Int /\ (first - 1) + 1 = first /\ (first - 1) + n = first + n - 1
    OBVIOUS
  <2>3. net(L!collectTotals(L!Monthly(first, n))) = between((first - 1) + 1, (first - 1) + n)
    BY <1>2, <2>1, <2>2
  <2> QED
    BY <2>2, <2>3
<1> QED
  BY <1>1, <1>3, <1>4

\* The exit code of a file whose lines hold any totals.
LEMMA WorstExit ==
  ASSUME NEW f, NEW X, \A x \in X : x \in {0, 1, 2},
         L!main(f) = IF L!parseCsv(f) = <<>> THEN 3 ELSE L!Max({0} \cup X), L!parseCsv(f) # <<>>
  PROVE  /\ L!main(f) \in {0, 1, 2} /\ \A x \in X : x <= L!main(f)
         /\ L!main(f) = 0 <=> \A x \in X : x = 0
<1> DEFINE Y == {0} \cup X
<1>1. \A y \in Y : y \in {0, 1, 2}
  OBVIOUS
<1>2. \E y \in Y : \A x \in Y : y >= x
  <2>1. CASE 2 \in Y
    BY <1>1, <2>1
  <2>2. CASE 2 \notin Y /\ 1 \in Y
    BY <1>1, <2>2
  <2>3. CASE 2 \notin Y /\ 1 \notin Y
    <3>1. 0 \in Y /\ \A x \in Y : x = 0
      BY <1>1, <2>3
    <3> QED
      BY <3>1
  <2> QED
    BY <2>1, <2>2, <2>3
<1>3. L!main(f) = CHOOSE y \in Y : \A x \in Y : y >= x
  BY DEF L!Max
<1>4. L!main(f) \in Y /\ \A x \in Y : L!main(f) >= x
  BY <1>2, <1>3
<1>5. X \subseteq Y /\ (\A y \in Y : y = 0 \/ y \in X)
  OBVIOUS
<1> HIDE DEF Y
<1>6. L!main(f) \in {0, 1, 2} /\ \A x \in X : x <= L!main(f)
  BY <1>1, <1>4, <1>5
<1>7. ASSUME L!main(f) = 0, NEW x \in X PROVE x = 0
  <2>1. x \in {0, 1, 2} /\ x <= 0
    BY <1>6, <1>7
  <2> QED
    BY ONLY <2>1
<1>8. ASSUME \A x \in X : x = 0 PROVE L!main(f) = 0
  BY <1>4, <1>5, <1>8
<1>9. L!main(f) = 0 <=> \A x \in X : x = 0
  BY <1>7, <1>8
<1> QED
  BY <1>6, <1>9

LEMMA ExitsAreTheWorst == L!ExitIsTheWorst
<1> DEFINE totals == {[bets |-> b, wins |-> 0, rollbacks |-> 0] : b \in {0, 2 * Minor, 2 * Minor + 1}}
           line == [fits : BOOLEAN, ours : totals, theirs : totals]
           files == [header : BOOLEAN, lines : UNION {[1..n -> line] : n \in 0..2}]
           exit(l) == L!statusToExit[L!reconcileAgainstOperator(l.ours, l.theirs)]
<1>1. ASSUME NEW l \in line
      PROVE  exit(l) \in {0, 1, 2} /\ (exit(l) = 0 <=> l.ours = l.theirs)
  <2>1. PICK b \in {0, 2 * Minor, 2 * Minor + 1} : l.ours = [bets |-> b, wins |-> 0, rollbacks |-> 0]
    OBVIOUS
  <2>2. PICK c \in {0, 2 * Minor, 2 * Minor + 1} : l.theirs = [bets |-> c, wins |-> 0, rollbacks |-> 0]
    OBVIOUS
  <2>3. b \in Int /\ c \in Int
    BY LedgerAssumption
  <2>4. /\ l.ours["bets"] = b /\ l.ours["wins"] = 0 /\ l.ours["rollbacks"] = 0
        /\ l.theirs["bets"] = c /\ l.theirs["wins"] = 0 /\ l.theirs["rollbacks"] = 0
    BY <2>1, <2>2
  <2>5. \A k \in Keys : l.ours[k] \in Int /\ l.theirs[k] \in Int
    BY <2>3, <2>4 DEF Keys
  <2>6. (\A k \in Keys : l.ours[k] = l.theirs[k]) <=> b = c
    BY <2>4 DEF Keys
  <2>7. l.ours = l.theirs <=> b = c
    BY <2>1, <2>2, <2>4
  <2>8. /\ L!reconcileAgainstOperator(l.ours, l.theirs) \in Statuses
        /\ L!reconcileAgainstOperator(l.ours, l.theirs) = "MATCH" <=> b = c
    BY <2>5, <2>6, WorstDrift
  <2> QED
    BY <2>7, <2>8, Exits DEF Statuses
<1> HIDE DEF exit
<1>2. ASSUME NEW f \in files
      PROVE  LET usable == f.header /\ f.lines # <<>> /\ \A l \in L!Range(f.lines) : l.fits IN
             /\ (L!main(f) = 3) = ~usable
             /\ usable => /\ \A l \in L!Range(f.lines) : exit(l) <= L!main(f)
                          /\ (L!main(f) = 0) = (\A l \in L!Range(f.lines) : l.ours = l.theirs)
  <2> DEFINE usable == f.header /\ f.lines # <<>> /\ \A l \in L!Range(f.lines) : l.fits
             X == {exit(l) : l \in L!Range(L!parseCsv(f))}
  <2>1. \A l \in L!Range(f.lines) : l \in line
    <3>1. PICK n \in 0..2 : f.lines \in [1..n -> line]
      OBVIOUS
    <3> HIDE DEF line
    <3> QED
      BY <3>1 DEF L!Range
  <2>2. L!parseCsv(f) = IF usable THEN f.lines ELSE <<>>
    BY DEF L!parseCsv, L!Range
  <2>3. L!main(f) = IF L!parseCsv(f) = <<>> THEN 3 ELSE L!Max({0} \cup X)
    BY DEF L!main, exit
  <2>4. CASE ~usable
    BY <2>2, <2>3, <2>4
  <2>5. CASE usable
    <3>1. L!parseCsv(f) = f.lines /\ L!parseCsv(f) # <<>>
      BY <2>2, <2>5
    <3>2. \A x \in X : x \in {0, 1, 2}
      BY <1>1, <2>1, <3>1
    <3> HIDE DEF X
    <3>3. /\ L!main(f) \in {0, 1, 2} /\ \A x \in X : x <= L!main(f)
          /\ L!main(f) = 0 <=> \A x \in X : x = 0
      BY <2>3, <3>1, <3>2, WorstExit
    <3>4. \A l \in L!Range(f.lines) : exit(l) \in X
      BY <3>1 DEF X
    <3>5. \A x \in X : \E l \in L!Range(f.lines) : x = exit(l)
      BY <3>1 DEF X
    <3>6. \A l \in L!Range(f.lines) : exit(l) <= L!main(f)
      BY <3>3, <3>4
    <3>7. (\A x \in X : x = 0) <=> \A l \in L!Range(f.lines) : l.ours = l.theirs
      <4> HIDE DEF line
      <4>1. \A l \in L!Range(f.lines) : exit(l) = 0 <=> l.ours = l.theirs
        BY <1>1, <2>1
      <4> QED
        BY <3>4, <3>5, <4>1
    <3> HIDE DEF usable
    <3>8. (L!main(f) = 0) = \A l \in L!Range(f.lines) : l.ours = l.theirs
      BY <3>3, <3>7
    <3>9. L!main(f) # 3
      BY <3>3
    <3> QED
      BY <2>5, <3>6, <3>8, <3>9 DEF usable
  <2> QED
    BY <2>4, <2>5
<1> QED
  BY <1>2 DEF L!ExitIsTheWorst, exit

(* The daily totals against the operator's books, for any transactions, days *)
(* and number of calls: a drift has a cause, we never claim more than was    *)
(* booked, a clean verdict is a day that agrees, a period counts its calls   *)
(* once and the script exits with the worst of its lines.                    *)
THEOREM TotalsReconcileHolds == Spec => []TotalsReconcile
<1> DEFINE Inv == LedgerInv /\ (part = "ledger" \/ L!Init)
<1>1. BooksInit => Inv
  BY LedgerStarts DEF BooksInit
<1>2. Inv /\ [BooksNext]_allVars => Inv'
  <2> SUFFICES ASSUME Inv, [BooksNext]_allVars PROVE Inv'
    OBVIOUS
  <2>1. CASE UNCHANGED <<part, ledgerVars>>
    <3>1. LedgerType' /\ (part = "ledger" \/ L!Init)'
      BY <2>1 DEF ledgerVars, LedgerInv, LedgerType, L!Init
    <3>2. RowsInv' /\ OnceInv' /\ CleanInv'
      BY <2>1 DEF ledgerVars, LedgerInv, RowsInv, OnceInv, CleanInv, L!AuditedAmount
    <3> QED
      BY <3>1, <3>2 DEF LedgerInv
  <2>2. CASE part = "ledger" /\ L!Next /\ LedgerOnly
    BY <2>2, LedgerStep DEF LedgerOnly
  <2> QED
    BY <2>1, <2>2 DEF BooksNext, allVars, ChainOnly, PagingOnly, EvidenceOnly, ReportsOnly
<1>3. Inv => TotalsReconcile
  BY LedgerIsTyped, DriftsHaveCauses, ClaimsAreBooked, VerdictsAreTrue, PeriodsCountOnce, ExitsAreTheWorst
     DEF TotalsReconcile
<1> QED
  BY <1>1, <1>2, <1>3, PTL DEF Spec

-----------------------------------------------------------------------------
(* The audit chain: walks over the rows of a day.                           *)

Contents == {"open", "final", "altered"}
Hashes == Seq(Nat \X Contents)

\* The row whose content was hashed last, 0 of no hash.
Ends(h) == IF h = <<>> THEN 0 ELSE h[Len(h)][1]

\* w[i] is the hash at row i, where c has the contents of the rows that are hashed.
Walks(w, start, c) ==
    w = [i \in Nat |-> IF i = 0 THEN start
                       ELSE IF i \in DOMAIN c THEN A!hashRow(w[i - 1], i, c[i]) ELSE w[i - 1]]
Walk(start, c) == CHOOSE w : Walks(w, start, c)

\* There is one walk.
LEMMA WalkIs ==
  ASSUME NEW start, NEW c
  PROVE  /\ Walk(start, c)[0] = start
         /\ \A i \in Nat \ {0} : Walk(start, c)[i] = IF i \in DOMAIN c THEN A!hashRow(Walk(start, c)[i - 1], i, c[i])
                                                     ELSE Walk(start, c)[i - 1]
<1> DEFINE Step(g, i) == IF i = 0 THEN start ELSE IF i \in DOMAIN c THEN A!hashRow(g[i - 1], i, c[i]) ELSE g[i - 1]
           Good(g, n) == \A i \in 0..n : g[i] = Step(g, i)
           Known == {n \in Nat : \E g : Good(g, n)}
           it == [n \in Nat |-> (CHOOSE g : Good(g, n))[n]]
<1>1. 0 \in Known
  <2> DEFINE g == [i \in {0} |-> start]
  <2>1. Good(g, 0)
    OBVIOUS
  <2> HIDE DEF g, Good
  <2> QED
    BY <2>1
<1>2. ASSUME NEW n \in Nat, n \in Known PROVE n + 1 \in Known
  <2>1. PICK g : Good(g, n)
    BY <1>2
  <2> DEFINE h == [i \in 0..(n + 1) |-> IF i <= n THEN g[i] ELSE Step(g, n + 1)]
  <2>2. \A i \in 0..n : h[i] = g[i]
    OBVIOUS
  <2>3. h[n + 1] = Step(g, n + 1)
    OBVIOUS
  <2>4. ASSUME NEW i \in 0..(n + 1) PROVE h[i] = Step(h, i)
    <3> HIDE DEF h
    <3>1. CASE i = 0
      BY <2>1, <2>2, <3>1
    <3>2. CASE i # 0
      <4>1. i - 1 \in 0..n /\ h[i - 1] = g[i - 1]
        BY <2>2, <3>2
      <4>2. Step(h, i) = Step(g, i)
        BY <3>2, <4>1
      <4>3. h[i] = Step(g, i)
        <5>1. CASE i = n + 1
          BY <2>3, <5>1
        <5>2. CASE i # n + 1
          <6>1. i \in 0..n
            BY <5>2
          <6> HIDE DEF Step
          <6> QED
            BY <2>1, <2>2, <6>1
        <5> QED
          BY <5>1, <5>2
      <4> HIDE DEF Step
      <4> QED
        BY <4>2, <4>3
    <3> QED
      BY <3>1, <3>2
  <2>5. Good(h, n + 1)
    <3> HIDE DEF h, Step
    <3> QED
      BY <2>4
  <2> HIDE DEF Good, h
  <2> QED
    BY <2>5
<1>3. \A n \in Nat : n \in Known
  <2> HIDE DEF Known
  <2> QED
    BY <1>1, <1>2, EveryNumber
<1>4. ASSUME NEW g, NEW h, NEW m \in Nat, NEW n \in Nat, Good(g, m), Good(h, n)
      PROVE  \A i \in Nat : i <= m /\ i <= n => g[i] = h[i]
  <2> DEFINE Same == {i \in Nat : i <= m /\ i <= n => g[i] = h[i]}
  <2>1. 0 \in Same
    <3>1. 0 \in 0..m /\ 0 \in 0..n
      OBVIOUS
    <3> QED
      BY <1>4, <3>1
  <2>2. ASSUME NEW i \in Nat, i \in Same PROVE i + 1 \in Same
    <3> SUFFICES ASSUME i + 1 <= m, i + 1 <= n PROVE g[i + 1] = h[i + 1]
      OBVIOUS
    <3>1. i + 1 \in 0..m /\ i + 1 \in 0..n /\ i + 1 # 0 /\ (i + 1) - 1 = i /\ g[i] = h[i]
      BY <2>2
    <3>2. g[i + 1] = Step(g, i + 1) /\ h[i + 1] = Step(h, i + 1)
      <4> HIDE DEF Step
      <4> QED
        BY <1>4, <3>1
    <3> QED
      BY <3>1, <3>2
  <2> HIDE DEF Same
  <2>3. \A i \in Nat : i \in Same
    BY <2>1, <2>2, EveryNumber
  <2> QED
    BY <2>3 DEF Same
<1>5. \A n \in Nat : Good(CHOOSE g : Good(g, n), n)
  <2> HIDE DEF Good
  <2> QED
    BY <1>3
<1>6. ASSUME NEW n \in Nat PROVE it[n] = Step(it, n)
  <2> DEFINE Upto(k) == CHOOSE g : Good(g, k)
  <2>1. it[n] = Upto(n)[n]
    OBVIOUS
  <2>2. Upto(n)[n] = Step(Upto(n), n)
    <3>1. Good(Upto(n), n) /\ n \in 0..n
      BY <1>5
    <3> HIDE DEF Upto, Step
    <3> QED
      BY <3>1
  <2>3. CASE n = 0
    BY <2>1, <2>2, <2>3
  <2>4. CASE n # 0
    <3>1. n - 1 \in Nat /\ n - 1 <= n /\ n - 1 <= n - 1
      BY <2>4
    <3>2. it[n - 1] = Upto(n - 1)[n - 1]
      BY <3>1
    <3>3. Good(Upto(n), n) /\ Good(Upto(n - 1), n - 1)
      BY <1>5, <3>1
    <3> HIDE DEF Upto, Good
    <3>4. Upto(n)[n - 1] = Upto(n - 1)[n - 1]
      BY <1>4, <3>1, <3>3
    <3>5. Step(it, n) = Step(Upto(n), n)
      <4> HIDE DEF it
      <4> QED
        BY <2>4, <3>2, <3>4
    <3> HIDE DEF it, Step
    <3> QED
      BY <2>1, <2>2, <3>5
  <2> QED
    BY <2>3, <2>4
<1>7. Walks(it, start, c)
  <2>1. it = [n \in Nat |-> it[n]]
    OBVIOUS
  <2> HIDE DEF it
  <2> QED
    BY <1>6, <2>1 DEF Walks
<1>8. Walks(Walk(start, c), start, c)
  <2> HIDE DEF it
  <2> QED
    BY <1>7 DEF Walk
<1> DEFINE w == Walk(start, c)
<1>9. Walks(w, start, c)
  BY <1>8
<1> HIDE DEF w
<1>10. w[0] = start /\ \A i \in Nat \ {0} : w[i] = IF i \in DOMAIN c THEN A!hashRow(w[i - 1], i, c[i]) ELSE w[i - 1]
  BY <1>9 DEF Walks
<1> QED
  BY <1>10 DEF w

LEMMA HashGrows ==
  ASSUME NEW p \in Hashes, NEW i \in Nat, NEW x \in Contents
  PROVE  /\ A!hashRow(p, i, x) \in Hashes /\ A!hashRow(p, i, x) # <<>>
         /\ Ends(A!hashRow(p, i, x)) = i
<1>1. <<i, x>> \in Nat \X Contents
  OBVIOUS
<1>2. /\ Append(p, <<i, x>>) \in Seq(Nat \X Contents) /\ Len(Append(p, <<i, x>>)) = Len(p) + 1
      /\ Append(p, <<i, x>>)[Len(p) + 1] = <<i, x>>
  BY <1>1, AppendProperties DEF Hashes
<1>3. Append(p, <<i, x>>) # <<>>
  <2>1. Len(p) \in Nat /\ Len(<<>>) = 0
    BY LenProperties, EmptySeq DEF Hashes
  <2> QED
    BY <1>2, <2>1
<1> QED
  BY <1>2, <1>3 DEF A!hashRow, Hashes, Ends

\* Equal hashes are hashes of the same content over the same hash.
LEMMA HashInjective ==
  ASSUME NEW p \in Hashes, NEW q \in Hashes, NEW i \in Nat, NEW x \in Contents, NEW y \in Contents,
         A!hashRow(p, i, x) = A!hashRow(q, i, y)
  PROVE  p = q /\ x = y
<1> DEFINE T == Nat \X Contents
<1>1. <<i, x>> \in T /\ <<i, y>> \in T /\ p \in Seq(T) /\ q \in Seq(T)
  BY DEF Hashes
<1>2. Append(p, <<i, x>>) = Append(q, <<i, y>>)
  BY DEF A!hashRow
<1> HIDE DEF T
<1>3. p = q /\ <<i, x>> = <<i, y>>
  BY <1>1, <1>2, AppendInjective
<1> QED
  BY <1>3

LEMMA WalkTyped ==
  ASSUME NEW start \in Hashes, NEW c, \A i \in DOMAIN c : c[i] \in Contents
  PROVE  \A n \in Nat : Walk(start, c)[n] \in Hashes
<1> DEFINE w == Walk(start, c)
           C == {n \in Nat : w[n] \in Hashes}
<1>1. w[0] = start /\ \A i \in Nat \ {0} : w[i] = IF i \in DOMAIN c THEN A!hashRow(w[i - 1], i, c[i]) ELSE w[i - 1]
  BY WalkIs
<1> HIDE DEF w
<1>2. 0 \in C
  BY <1>1
<1>3. ASSUME NEW n \in Nat, n \in C PROVE n + 1 \in C
  <2>1. n + 1 \in Nat \ {0} /\ (n + 1) - 1 = n /\ w[n] \in Hashes
    BY <1>3
  <2>2. w[n + 1] = IF n + 1 \in DOMAIN c THEN A!hashRow(w[n], n + 1, c[n + 1]) ELSE w[n]
    BY <1>1, <2>1
  <2>3. w[n + 1] \in Hashes
    BY <2>1, <2>2, HashGrows
  <2> QED
    BY <2>3
<1>4. \A n \in Nat : n \in C
  <2> HIDE DEF C
  <2> QED
    BY <1>2, <1>3, EveryNumber
<1> QED
  BY <1>4 DEF w

\* A walk stays where it is until the next row.
LEMMA WalkStays ==
  ASSUME NEW start, NEW c, DOMAIN c \subseteq Nat, NEW n \in Nat
  PROVE  \A m \in Nat : n <= m /\ (\A i \in DOMAIN c : ~(n < i /\ i <= m)) => Walk(start, c)[m] = Walk(start, c)[n]
<1> DEFINE w == Walk(start, c)
           C == {m \in Nat : n <= m /\ (\A i \in DOMAIN c : ~(n < i /\ i <= m)) => w[m] = w[n]}
<1>1. \A i \in Nat \ {0} : w[i] = IF i \in DOMAIN c THEN A!hashRow(w[i - 1], i, c[i]) ELSE w[i - 1]
  BY WalkIs
<1> HIDE DEF w
<1>2. 0 \in C
  OBVIOUS
<1>3. ASSUME NEW m \in Nat, m \in C PROVE m + 1 \in C
  <2> SUFFICES ASSUME n <= m + 1, \A i \in DOMAIN c : ~(n < i /\ i <= m + 1) PROVE w[m + 1] = w[n]
    OBVIOUS
  <2>1. CASE n = m + 1
    BY <2>1
  <2>2. CASE n # m + 1
    <3>1. n <= m /\ m + 1 \in Nat \ {0} /\ (m + 1) - 1 = m /\ m + 1 \notin DOMAIN c
      BY <2>2
    <3>2. w[m + 1] = w[m]
      BY <1>1, <3>1
    <3>3. \A i \in DOMAIN c : ~(n < i /\ i <= m)
      <4> SUFFICES ASSUME NEW i \in DOMAIN c, n < i, i <= m PROVE FALSE
        OBVIOUS
      <4>1. i \in Nat /\ i <= m + 1
        OBVIOUS
      <4> QED
        BY <4>1
    <3> QED
      BY <1>3, <3>1, <3>2, <3>3
  <2> QED
    BY <2>1, <2>2
<1>4. \A m \in Nat : m \in C
  <2> HIDE DEF C
  <2> QED
    BY <1>2, <1>3, EveryNumber
<1> QED
  BY <1>4 DEF w

\* Before row i the walk has no hash of row i.
LEMMA WalkEnds ==
  ASSUME NEW start \in Hashes, NEW c, \A j \in DOMAIN c : c[j] \in Contents, NEW i \in Nat, Ends(start) < i
  PROVE  \A n \in Nat : n < i => Ends(Walk(start, c)[n]) < i
<1> DEFINE w == Walk(start, c)
           C == {n \in Nat : n < i => Ends(w[n]) < i}
<1>1. w[0] = start /\ \A j \in Nat \ {0} : w[j] = IF j \in DOMAIN c THEN A!hashRow(w[j - 1], j, c[j]) ELSE w[j - 1]
  BY WalkIs
<1>2. \A n \in Nat : w[n] \in Hashes
  BY WalkTyped
<1> HIDE DEF w
<1>3. 0 \in C
  BY <1>1
<1>4. ASSUME NEW n \in Nat, n \in C PROVE n + 1 \in C
  <2> SUFFICES ASSUME n + 1 < i PROVE Ends(w[n + 1]) < i
    OBVIOUS
  <2>1. n + 1 \in Nat \ {0} /\ (n + 1) - 1 = n /\ w[n] \in Hashes /\ Ends(w[n]) < i
    BY <1>2, <1>4
  <2>2. w[n + 1] = IF n + 1 \in DOMAIN c THEN A!hashRow(w[n], n + 1, c[n + 1]) ELSE w[n]
    BY <1>1, <2>1
  <2>3. n + 1 \in DOMAIN c => Ends(w[n + 1]) = n + 1
    BY <2>1, <2>2, HashGrows
  <2> QED
    BY <2>1, <2>2, <2>3
<1>5. \A n \in Nat : n \in C
  <2> HIDE DEF C
  <2> QED
    BY <1>3, <1>4, EveryNumber
<1> QED
  BY <1>5 DEF w

\* Two walks to one hash, one of them over no other rows than the other: they are over the
\* same rows with the same contents.
LEMMA SameWalks ==
  ASSUME NEW s \in Hashes, NEW c, \A i \in DOMAIN c : c[i] \in Contents /\ i \in Nat \ {0} /\ Ends(s) < i,
         NEW t \in Hashes, NEW e, \A i \in DOMAIN e : e[i] \in Contents, DOMAIN e \subseteq DOMAIN c,
         \A i \in DOMAIN c : Ends(t) < i,
         NEW n \in Nat, Walk(s, c)[n] = Walk(t, e)[n]
  PROVE  \A i \in DOMAIN c : i <= n => i \in DOMAIN e /\ c[i] = e[i]
<1> DEFINE v == Walk(s, c)
           w == Walk(t, e)
           C == {m \in Nat : v[m] = w[m] => \A i \in DOMAIN c : i <= m => i \in DOMAIN e /\ c[i] = e[i]}
<1>1. /\ \A i \in Nat \ {0} : v[i] = IF i \in DOMAIN c THEN A!hashRow(v[i - 1], i, c[i]) ELSE v[i - 1]
      /\ \A i \in Nat \ {0} : w[i] = IF i \in DOMAIN e THEN A!hashRow(w[i - 1], i, e[i]) ELSE w[i - 1]
  BY WalkIs
<1>2. \A m \in Nat : v[m] \in Hashes /\ w[m] \in Hashes
  BY WalkTyped
<1>3. \A i \in DOMAIN c : \A m \in Nat : m < i => Ends(w[m]) < i
  BY WalkEnds
<1>4. v[n] = w[n]
  OBVIOUS
<1> HIDE DEF v, w
<1>5. 0 \in C
  BY SMT
<1>6. ASSUME NEW m \in Nat, m \in C PROVE m + 1 \in C
  <2> SUFFICES ASSUME v[m + 1] = w[m + 1] PROVE \A i \in DOMAIN c : i <= m + 1 => i \in DOMAIN e /\ c[i] = e[i]
    OBVIOUS
  <2>1. m + 1 \in Nat \ {0} /\ (m + 1) - 1 = m /\ m < m + 1 /\ v[m] \in Hashes /\ w[m] \in Hashes
    BY <1>2
  <2>2. /\ v[m + 1] = IF m + 1 \in DOMAIN c THEN A!hashRow(v[m], m + 1, c[m + 1]) ELSE v[m]
        /\ w[m + 1] = IF m + 1 \in DOMAIN e THEN A!hashRow(w[m], m + 1, e[m + 1]) ELSE w[m]
    BY <1>1, <2>1
  <2>3. m + 1 \in DOMAIN c => Ends(v[m + 1]) = m + 1
    BY <2>1, <2>2, HashGrows
  <2>4. m + 1 \in DOMAIN c => m + 1 \in DOMAIN e
    <3> SUFFICES ASSUME m + 1 \in DOMAIN c, m + 1 \notin DOMAIN e PROVE FALSE
      OBVIOUS
    <3>1. Ends(w[m]) < m + 1 /\ w[m] = v[m + 1]
      BY <1>3, <2>1, <2>2
    <3> QED
      BY <2>1, <2>3, <3>1
  <2>5. v[m] = w[m] /\ (m + 1 \in DOMAIN c => c[m + 1] = e[m + 1])
    <3>1. CASE m + 1 \in DOMAIN c
      <4>1. A!hashRow(v[m], m + 1, c[m + 1]) = A!hashRow(w[m], m + 1, e[m + 1])
        BY <2>2, <2>4, <3>1
      <4>2. c[m + 1] \in Contents /\ e[m + 1] \in Contents
        BY <2>4, <3>1
      <4>3. v[m] = w[m] /\ c[m + 1] = e[m + 1]
        BY <2>1, <4>1, <4>2, HashInjective
      <4> QED
        BY <4>3
    <3>2. CASE m + 1 \notin DOMAIN c
      BY <2>2, <3>2
    <3> QED
      BY <3>1, <3>2
  <2>6. \A i \in DOMAIN c : i <= m => i \in DOMAIN e /\ c[i] = e[i]
    BY <1>6, <2>5
  <2> SUFFICES ASSUME NEW i \in DOMAIN c, i <= m + 1 PROVE i \in DOMAIN e /\ c[i] = e[i]
    OBVIOUS
  <2>7. i <= m \/ i = m + 1
    OBVIOUS
  <2> QED
    BY <2>4, <2>5, <2>6, <2>7
<1>7. \A m \in Nat : m \in C
  <2> HIDE DEF C
  <2> QED
    BY <1>5, <1>6, EveryNumber
<1> QED
  BY <1>4, <1>7

\* The last and the first row of some.
LEMMA LastRow ==
  ASSUME NEW n \in Nat, NEW T, T \subseteq 1..n, T # {}
  PROVE  A!Max(T) \in T /\ \A j \in T : j <= A!Max(T)
<1> DEFINE U == {m \in Nat : \A j \in T : j <= m}
<1>1. n \in U
  OBVIOUS
<1>2. PICK m \in U : \A k \in U : m <= k
  <2>1. U \in SUBSET Nat /\ U # {}
    BY <1>1
  <2> HIDE DEF U
  <2> QED
    BY <2>1, Least
<1>3. m \in T
  <2> SUFFICES ASSUME m \notin T PROVE FALSE
    OBVIOUS
  <2>1. PICK j \in T : TRUE
    OBVIOUS
  <2>2. m \in Nat /\ m # 0 /\ m - 1 \in Nat /\ ~(m <= m - 1)
    <3>1. j <= m /\ j \in 1..n /\ m \in Nat
      BY <1>2
    <3> QED
      BY <3>1
  <2>3. \A k \in T : k <= m - 1
    <3> SUFFICES ASSUME NEW k \in T PROVE k <= m - 1
      OBVIOUS
    <3>1. k \in 1..n /\ k <= m /\ k # m
      BY <1>2
    <3> QED
      BY <2>2, <3>1
  <2>4. m - 1 \in U
    BY <2>2, <2>3
  <2> HIDE DEF U
  <2> QED
    BY <1>2, <2>2, <2>4
<1>4. \E x \in T : \A y \in T : x >= y
  <2>1. \A y \in T : m >= y
    BY <1>2
  <2> QED
    BY <1>3, <2>1
<1>5. A!Max(T) \in T /\ \A y \in T : A!Max(T) >= y
  <2> DEFINE P(x) == \A y \in T : x >= y
  <2>1. A!Max(T) = CHOOSE x \in T : P(x)
    BY DEF A!Max
  <2>2. \E x \in T : P(x)
    BY <1>4
  <2> HIDE DEF P
  <2>3. A!Max(T) \in T /\ P(A!Max(T))
    BY <2>1, <2>2
  <2> QED
    BY <2>3 DEF P
<1> QED
  BY <1>5

LEMMA FirstRow ==
  ASSUME NEW b, DOMAIN b \subseteq Nat, DOMAIN b # {}
  PROVE  /\ A!First(b) \in DOMAIN b /\ \A j \in DOMAIN b : A!First(b) <= j
         /\ DOMAIN A!Rest(b) = DOMAIN b \ {A!First(b)}
         /\ \A j \in DOMAIN b \ {A!First(b)} : A!Rest(b)[j] = b[j]
<1>1. \E x \in DOMAIN b : \A y \in DOMAIN b : x <= y
  BY Least
<1> DEFINE P(x) == \A y \in DOMAIN b : x <= y
<1>2. A!First(b) = CHOOSE x \in DOMAIN b : P(x)
  BY DEF A!First, A!Min
<1>3. A!First(b) \in DOMAIN b /\ P(A!First(b))
  <2>1. \E x \in DOMAIN b : P(x)
    BY <1>1
  <2> HIDE DEF P
  <2> QED
    BY <1>2, <2>1
<1>4. A!Rest(b) = [j \in DOMAIN b \ {A!First(b)} |-> b[j]]
  BY DEF A!Rest, A!Restrict
<1> QED
  BY <1>3, <1>4

-----------------------------------------------------------------------------
(* What is true of the chain in every state.                                *)

ChainRow == [day : Nat, content : Contents, prev : Hashes, hash : Hashes, gone : BOOLEAN]
Kept == [content : Contents, prev : Hashes, hash : Hashes]
Batches == UNION {[S -> Kept] : S \in SUBSET Nat}

ChainType ==
    /\ stream \in {"wallet_call", "round"} /\ rows \in Seq(ChainRow) /\ today \in 1..MaxDays
    /\ writer \in [Writers -> [pc : {"idle", "open", "linking", "playing"}, row : Nat, tip : Hashes]]
    /\ job \in [pc : {"idle", "tip", "rows"}, day : Nat, prev : Hashes, batch : Batches, calm : BOOLEAN]
    /\ fill \in [pc : {"idle", "batch"}, prev : Hashes, batch : Batches]
    /\ DOMAIN anchor = A!Days /\ disturbed \in BOOLEAN /\ calm \subseteq A!Days /\ altered \subseteq A!Days

\* The rows are in the order of their days; the hash of a row is of itself.
TableInv ==
    /\ \A i \in DOMAIN rows : rows[i].day \in 1..today /\ Ends(rows[i].hash) \in {0, i}
    /\ \A i, j \in DOMAIN rows : i < j => rows[i].day <= rows[j].day

\* A writer has a row of its own, which is open until the writer is done.
WriterInv ==
    /\ \A w \in Writers : writer[w].pc = "idle" => writer[w].row = 0
    /\ \A w \in Writers : writer[w].pc # "idle" =>
          writer[w].row \in DOMAIN rows /\ rows[writer[w].row].content = "open"
    /\ \A w, v \in Writers : writer[w].pc # "idle" /\ writer[v].row = writer[w].row => v = w

FillInv == DOMAIN fill.batch \subseteq DOMAIN rows

\* A hash from before day d.
Precedes(start, d) == \A i \in DOMAIN rows : rows[i].day = d => Ends(start) < i

\* c holds what was read of the rows of day d, after "start": whatever of it was altered
\* or removed since can be told from it.
Evidence(d, start, c) ==
    /\ start \in Hashes /\ Precedes(start, d)
    /\ DOMAIN c \subseteq DOMAIN rows /\ A!OfDay(d) \subseteq DOMAIN c
    /\ \A i \in DOMAIN c : /\ c[i] \in Contents /\ rows[i].day = d
                           /\ c[i] = "altered" => rows[i].content = "altered"
    /\ d \in altered => \E i \in DOMAIN c : rows[i].gone \/ (rows[i].content = "altered" /\ c[i] # "altered")

\* Day d as it is, and the walk over it.
ContentsOf(d) == [i \in A!OfDay(d) |-> rows[i].content]
StartOf(d) == A!HashOfLast(A!BeforeDay(d))

\* Row i is linked where the walk w has it.
Linked(i, w) == rows[i].hash = w[i] /\ rows[i].prev = w[i - 1]

\* The job has worked off the rows up to k of those it has read.
Reading(start, c, k) ==
    /\ Evidence(job.day, start, c)
    /\ DOMAIN job.batch = {i \in DOMAIN c : k < i}
    /\ \A i \in DOMAIN job.batch : job.batch[i].content = c[i]
    /\ job.prev = Walk(start, c)[k]
    /\ job.calm => /\ start = StartOf(job.day) /\ c = ContentsOf(job.day)
                   /\ \A i \in DOMAIN c : i <= k => Linked(i, Walk(start, c))
                   /\ \A i \in DOMAIN job.batch : job.batch[i].hash = rows[i].hash /\ job.batch[i].prev = rows[i].prev

JobInv ==
    /\ job.day < today
    /\ job.pc # "idle" => job.day \in A!Days /\ (job.day \in calm => job.calm)
    /\ job.pc = "tip" => Precedes(job.prev, job.day) /\ (job.calm => job.prev = StartOf(job.day))
    /\ job.pc = "rows" => \E start, c : \E k \in 0..Len(rows) : Reading(start, c, k)

SignedInv ==
    \A d \in A!Days : anchor[d] # A!Unsigned =>
        d < today /\ \E start, c : Evidence(d, start, c) /\ anchor[d].tip = Walk(start, c)[Len(rows)]

CalmInv ==
    \A d \in calm :
        /\ d < today /\ anchor[d].count = A!Cardinality(A!OfDay(d))
        /\ anchor[d].tip = Walk(StartOf(d), ContentsOf(d))[Len(rows)]
        /\ \A i \in A!OfDay(d) : Linked(i, Walk(StartOf(d), ContentsOf(d)))

NoneGone == \A j \in DOMAIN rows : ~rows[j].gone

\* While nothing disturbs them there is one writer at a time, at the last row.
LineInv ==
    /\ stream = "wallet_call" => \A w \in Writers : writer[w].pc # "playing"
    /\ ~disturbed => /\ A!OneAtATimeIsLinear
                     /\ \A w \in Writers : /\ writer[w].pc # "idle" => writer[w].row = Len(rows)
                                           /\ writer[w].pc \in {"open", "linking"} => rows[writer[w].row].hash = <<>>
                                           /\ writer[w].pc = "linking" /\ NoneGone => writer[w].tip = A!LatestTip

ChainInv == ChainType /\ TableInv /\ WriterInv /\ FillInv /\ JobInv /\ SignedInv /\ CalmInv /\ LineInv

LEMMA ChainRows ==
  ASSUME ChainType
  PROVE  /\ Len(rows) \in Nat /\ DOMAIN rows = 1..Len(rows)
         /\ \A i \in DOMAIN rows : /\ rows[i] \in ChainRow /\ rows[i].day \in Nat /\ rows[i].content \in Contents
                                   /\ rows[i].prev \in Hashes /\ rows[i].hash \in Hashes /\ rows[i].gone \in BOOLEAN
<1>1. Len(rows) \in Nat /\ DOMAIN rows = 1..Len(rows) /\ \A i \in DOMAIN rows : rows[i] \in ChainRow
  BY LenProperties, ElementOfSeq DEF ChainType
<1> QED
  BY <1>1 DEF ChainRow

\* What a step leaves of the table: the rows stay, and a new one is of today.
Keeps ==
    /\ Len(rows) \in Nat /\ Len(rows') \in Nat /\ Len(rows) <= Len(rows')
    /\ DOMAIN rows = 1..Len(rows) /\ DOMAIN rows' = 1..Len(rows')
    /\ \A i \in DOMAIN rows : /\ rows'[i].day = rows[i].day
                              /\ rows[i].gone => rows'[i].gone
                              /\ rows[i].content = "altered" => rows'[i].content = "altered"
    /\ \A i \in DOMAIN rows' \ DOMAIN rows : rows'[i].day = today

\* A day is altered in this step only where a row of it is.
Shows(d) ==
    d \in altered' => \/ d \in altered
                      \/ \E i \in A!OfDay(d) : \/ rows'[i].gone
                                               \/ rows'[i].content = "altered" /\ rows[i].content # "altered"

LEMMA EvidenceKept ==
  ASSUME NEW d, d # today, NEW start, NEW c, Keeps, Shows(d), Evidence(d, start, c)
  PROVE  Evidence(d, start, c)'
<1>1. \A i \in DOMAIN rows' : rows'[i].day = d => i \in DOMAIN rows /\ rows[i].day = d
  BY DEF Keeps
<1>2. Precedes(start, d)'
  BY <1>1 DEF Evidence, Precedes
<1>3. DOMAIN c \subseteq DOMAIN rows'
  BY DEF Evidence, Keeps
<1>4. A!OfDay(d)' \subseteq DOMAIN c
  <2> SUFFICES ASSUME NEW i \in A!OfDay(d)' PROVE i \in DOMAIN c
    OBVIOUS
  <2>1. i \in DOMAIN rows' /\ rows'[i].day = d /\ ~rows'[i].gone
    BY DEF A!OfDay, A!Live
  <2>2. i \in DOMAIN rows /\ rows[i].day = d
    BY <1>1, <2>1
  <2>3. ~rows[i].gone
    BY <2>1, <2>2 DEF Keeps
  <2> QED
    BY <2>2, <2>3 DEF A!OfDay, A!Live, Evidence
<1>5. \A i \in DOMAIN c : c[i] \in Contents /\ rows'[i].day = d /\ (c[i] = "altered" => rows'[i].content = "altered")
  BY DEF Evidence, Keeps
<1>6. ASSUME d \in altered'
      PROVE  \E i \in DOMAIN c : rows'[i].gone \/ (rows'[i].content = "altered" /\ c[i] # "altered")
  <2>1. CASE d \in altered
    <3>1. PICK i \in DOMAIN c : rows[i].gone \/ (rows[i].content = "altered" /\ c[i] # "altered")
      BY <2>1 DEF Evidence
    <3>2. i \in DOMAIN rows
      BY DEF Evidence
    <3>3. rows[i].gone => rows'[i].gone
      BY <3>2 DEF Keeps
    <3>4. rows[i].content = "altered" => rows'[i].content = "altered"
      BY <3>2 DEF Keeps
    <3> QED
      BY <3>1, <3>3, <3>4
  <2>2. CASE d \notin altered
    <3>1. PICK i \in A!OfDay(d) : \/ rows'[i].gone
                                  \/ rows'[i].content = "altered" /\ rows[i].content # "altered"
      BY <1>6, <2>2 DEF Shows
    <3>2. i \in DOMAIN c /\ (c[i] = "altered" => rows[i].content = "altered")
      BY DEF Evidence
    <3> QED
      BY <3>1, <3>2
  <2> QED
    BY <2>1, <2>2
<1>7. start \in Hashes
  BY DEF Evidence
<1> QED
  BY <1>2, <1>3, <1>4, <1>5, <1>6, <1>7 DEF Evidence

LEMMA SignedKept ==
  ASSUME ChainType, SignedInv, Keeps, today' \in Nat, today <= today', anchor' = anchor,
         \A d \in A!Days : Shows(d)
  PROVE  SignedInv'
<1> SUFFICES ASSUME NEW d \in A!Days, anchor[d] # A!Unsigned
             PROVE  d < today' /\ \E start, c : Evidence(d, start, c)' /\ anchor[d].tip = Walk(start, c)[Len(rows')]
  BY DEF SignedInv
<1>1. PICK start, c : d < today /\ Evidence(d, start, c) /\ anchor[d].tip = Walk(start, c)[Len(rows)]
  BY DEF SignedInv
<1>2. d \in Nat /\ today \in Nat
  BY ChainAssumption DEF ChainType, A!Days
<1>3. d # today /\ d < today'
  BY <1>1, <1>2
<1>4. Evidence(d, start, c)'
  BY <1>1, <1>3, EvidenceKept
<1>5. Walk(start, c)[Len(rows')] = Walk(start, c)[Len(rows)]
  <2>1. DOMAIN c \subseteq 1..Len(rows)
    BY <1>1 DEF Evidence, Keeps
  <2>2. Len(rows) \in Nat /\ Len(rows') \in Nat /\ Len(rows) <= Len(rows')
    BY DEF Keeps
  <2>3. DOMAIN c \subseteq Nat /\ \A i \in DOMAIN c : ~(Len(rows) < i /\ i <= Len(rows'))
    BY <2>1, <2>2
  <2> QED
    BY <2>2, <2>3, WalkStays
<1> QED
  BY <1>1, <1>3, <1>4, <1>5

\* A day is as it was when no row up to it changed.
LEMMA DayKept ==
  ASSUME Keeps, NEW d \in Nat, today \in Nat, d < today,
         \A i \in DOMAIN rows : rows[i].day \in Nat /\ (rows[i].day <= d => rows'[i] = rows[i])
  PROVE  /\ A!OfDay(d)' = A!OfDay(d) /\ StartOf(d)' = StartOf(d) /\ ContentsOf(d)' = ContentsOf(d)
         /\ \A i \in A!OfDay(d) : rows'[i] = rows[i]
<1>1. \A i \in DOMAIN rows' : rows'[i].day <= d => i \in DOMAIN rows /\ rows[i].day <= d /\ rows'[i] = rows[i]
  BY DEF Keeps
<1>2. \A i \in DOMAIN rows : rows[i].day <= d => i \in DOMAIN rows' /\ rows'[i] = rows[i]
  BY DEF Keeps
<1>3. A!OfDay(d)' = A!OfDay(d)
  <2>1. \A i \in DOMAIN rows : rows[i].day = d => rows[i].day <= d
    OBVIOUS
  <2>2. \A i \in DOMAIN rows' : rows'[i].day = d => rows'[i].day <= d
    OBVIOUS
  <2> QED
    BY <1>1, <1>2, <2>1, <2>2 DEF A!OfDay, A!Live
<1>4. A!BeforeDay(d)' = A!BeforeDay(d) /\ \A i \in A!BeforeDay(d) : rows'[i] = rows[i]
  <2>1. \A i \in DOMAIN rows : rows[i].day < d => rows[i].day <= d
    OBVIOUS
  <2>2. \A i \in DOMAIN rows' : rows'[i].day < d => rows'[i].day <= d
    <3> SUFFICES ASSUME NEW i \in DOMAIN rows', rows'[i].day < d PROVE rows'[i].day <= d
      OBVIOUS
    <3>1. rows'[i].day \in Nat
      BY DEF Keeps
    <3> QED
      BY <3>1
  <2> QED
    BY <1>1, <1>2, <2>1, <2>2 DEF A!BeforeDay, A!Live
<1>5. \A i \in A!OfDay(d) : rows'[i] = rows[i]
  BY <1>2 DEF A!OfDay, A!Live
<1>6. StartOf(d)' = StartOf(d)
  <2>1. CASE A!BeforeDay(d) = {}
    BY <1>4, <2>1 DEF StartOf, A!HashOfLast
  <2>2. CASE A!BeforeDay(d) # {}
    <3>1. A!BeforeDay(d) \subseteq 1..Len(rows)
      BY DEF A!BeforeDay, A!Live, Keeps
    <3>2. A!Max(A!BeforeDay(d)) \in A!BeforeDay(d)
      BY <2>2, <3>1, LastRow DEF Keeps
    <3>3. StartOf(d) = rows[A!Max(A!BeforeDay(d))].hash
      BY <2>2 DEF StartOf, A!HashOfLast
    <3>4. StartOf(d)' = rows'[A!Max(A!BeforeDay(d)')].hash
      BY <1>4, <2>2 DEF StartOf, A!HashOfLast
    <3> QED
      BY <1>4, <3>2, <3>3, <3>4
  <2> QED
    BY <2>1, <2>2
<1>7. ContentsOf(d)' = ContentsOf(d)
  BY <1>3, <1>5 DEF ContentsOf
<1> QED
  BY <1>3, <1>5, <1>6, <1>7

LEMMA CalmKept ==
  ASSUME ChainType, CalmInv, Keeps, today' \in Nat, today <= today', anchor' = anchor,
         \A d \in calm' : d \in calm /\ \A i \in DOMAIN rows : rows[i].day <= d => rows'[i] = rows[i]
  PROVE  CalmInv'
<1> SUFFICES ASSUME NEW d \in calm', d \in calm
             PROVE  /\ d < today' /\ anchor[d].count = A!Cardinality(A!OfDay(d)')
                    /\ anchor[d].tip = Walk(StartOf(d)', ContentsOf(d)')[Len(rows')]
                    /\ \A i \in A!OfDay(d)' : Linked(i, Walk(StartOf(d), ContentsOf(d)))'
  BY DEF CalmInv
<1>1. d \in calm /\ d \in Nat /\ today \in Nat /\ d < today
  <2>1. d \in calm /\ d < today /\ today \in Nat /\ calm \subseteq 1..MaxDays
    <3>1. d \in calm /\ today \in 1..MaxDays /\ calm \subseteq 1..MaxDays
      BY DEF ChainType, A!Days
    <3>2. d < today
      BY DEF CalmInv
    <3> QED
      BY <3>1, <3>2, ChainAssumption
  <2> QED
    BY <2>1, ChainAssumption
<1>2. \A i \in DOMAIN rows : rows[i].day \in Nat /\ (rows[i].day <= d => rows'[i] = rows[i])
  BY ChainRows
<1>3. /\ A!OfDay(d)' = A!OfDay(d) /\ StartOf(d)' = StartOf(d) /\ ContentsOf(d)' = ContentsOf(d)
      /\ \A i \in A!OfDay(d) : rows'[i] = rows[i]
  BY <1>1, <1>2, DayKept
<1> DEFINE w == Walk(StartOf(d), ContentsOf(d))
<1>4. /\ anchor[d].count = A!Cardinality(A!OfDay(d)) /\ anchor[d].tip = w[Len(rows)]
      /\ \A i \in A!OfDay(d) : rows[i].hash = w[i] /\ rows[i].prev = w[i - 1]
  BY <1>1 DEF CalmInv, Linked
<1>5. w[Len(rows')] = w[Len(rows)]
  <2>1. Len(rows) \in Nat /\ Len(rows') \in Nat /\ Len(rows) <= Len(rows')
    BY DEF Keeps
  <2>2. DOMAIN ContentsOf(d) \subseteq 1..Len(rows)
    BY DEF ContentsOf, A!OfDay, A!Live, Keeps
  <2>3. DOMAIN ContentsOf(d) \subseteq Nat /\ \A i \in DOMAIN ContentsOf(d) : ~(Len(rows) < i /\ i <= Len(rows'))
    BY <2>1, <2>2
  <2> QED
    BY <2>1, <2>3, WalkStays
<1> HIDE DEF w
<1>6. \A i \in A!OfDay(d)' : rows'[i].hash = w[i] /\ rows'[i].prev = w[i - 1]
  BY <1>3, <1>4
<1>7. d < today'
  BY <1>1
<1> QED
  BY <1>3, <1>4, <1>5, <1>6, <1>7 DEF Linked, w

LEMMA JobKept ==
  ASSUME ChainType, JobInv, Keeps, today' \in Nat, today <= today', Shows(job.day),
         job'.pc = job.pc, job'.day = job.day, job'.prev = job.prev, job'.batch = job.batch, job'.calm \in BOOLEAN,
         job'.calm => job.calm /\ \A i \in DOMAIN rows : rows[i].day <= job.day => rows'[i] = rows[i],
         job.day \in calm' => job.day \in calm /\ (job.calm => job'.calm)
  PROVE  JobInv'
<1> DEFINE d == job.day
<1>1. d \in Nat /\ today \in Nat /\ d < today /\ d # today /\ d < today'
  <2>1. d \in Nat /\ today \in Nat /\ d < today
    BY ChainAssumption DEF ChainType, JobInv
  <2> QED
    BY <2>1
<1>2. ASSUME job'.calm
      PROVE  /\ A!OfDay(d)' = A!OfDay(d) /\ StartOf(d)' = StartOf(d) /\ ContentsOf(d)' = ContentsOf(d)
             /\ \A i \in A!OfDay(d) : rows'[i] = rows[i]
  <2>1. \A i \in DOMAIN rows : rows[i].day \in Nat /\ (rows[i].day <= d => rows'[i] = rows[i])
    BY <1>2, ChainRows
  <2> QED
    BY <1>1, <2>1, DayKept
<1>3. job.pc # "idle" => d \in A!Days /\ (d \in calm' => job'.calm)
  BY DEF JobInv
<1>4. job.pc = "tip" => Precedes(job.prev, d)' /\ (job'.calm => job.prev = StartOf(d)')
  <2> SUFFICES ASSUME job.pc = "tip" PROVE Precedes(job.prev, d)' /\ (job'.calm => job.prev = StartOf(d)')
    OBVIOUS
  <2>1. Precedes(job.prev, d) /\ (job.calm => job.prev = StartOf(d))
    BY DEF JobInv
  <2>2. \A i \in DOMAIN rows' : rows'[i].day = d => i \in DOMAIN rows /\ rows[i].day = d
    BY <1>1 DEF Keeps
  <2>3. Precedes(job.prev, d)'
    BY <2>1, <2>2 DEF Precedes
  <2>4. job'.calm => job.prev = StartOf(d)'
    BY <1>2, <2>1
  <2> QED
    BY <2>3, <2>4
<1>5. ASSUME job.pc = "rows" PROVE \E start, c : \E k \in 0..Len(rows') : Reading(start, c, k)'
  <2>1. PICK start, c : \E k \in 0..Len(rows) : Reading(start, c, k)
    BY <1>5 DEF JobInv
  <2>2. PICK k \in 0..Len(rows) : Reading(start, c, k)
    BY <2>1
  <2>3. k \in 0..Len(rows')
    BY DEF Keeps
  <2>4. Evidence(d, start, c)'
    BY <1>1, <2>2, EvidenceKept DEF Reading
  <2>5. /\ DOMAIN job.batch = {i \in DOMAIN c : k < i}
        /\ \A i \in DOMAIN job.batch : job.batch[i].content = c[i]
        /\ job.prev = Walk(start, c)[k]
    BY <2>2 DEF Reading
  <2>6. ASSUME job'.calm
        PROVE  /\ start = StartOf(d)' /\ c = ContentsOf(d)'
               /\ \A i \in DOMAIN c : i <= k => Linked(i, Walk(start, c))'
               /\ \A i \in DOMAIN job.batch : job.batch[i].hash = rows'[i].hash /\ job.batch[i].prev = rows'[i].prev
    <3>1. /\ start = StartOf(d) /\ c = ContentsOf(d)
          /\ \A i \in DOMAIN c : i <= k => Linked(i, Walk(start, c))
          /\ \A i \in DOMAIN job.batch : job.batch[i].hash = rows[i].hash /\ job.batch[i].prev = rows[i].prev
      BY <2>2, <2>6 DEF Reading
    <3>2. DOMAIN c = A!OfDay(d) /\ DOMAIN job.batch \subseteq DOMAIN c
      BY <2>5, <3>1 DEF ContentsOf
    <3>3. \A i \in DOMAIN c : rows'[i] = rows[i]
      BY <1>2, <2>6, <3>2
    <3>4. \A i \in DOMAIN c : i <= k => Linked(i, Walk(start, c))'
      BY <3>1, <3>3 DEF Linked
    <3>5. start = StartOf(d)' /\ c = ContentsOf(d)'
      BY <1>2, <2>6, <3>1
    <3> QED
      BY <3>1, <3>2, <3>3, <3>4, <3>5
  <2>7. Reading(start, c, k)'
    BY <2>4, <2>5, <2>6 DEF Reading
  <2> QED
    BY <2>3, <2>7
<1> QED
  BY <1>1, <1>3, <1>4, <1>5 DEF JobInv

\* A row is written.
LEMMA RowWritten ==
  ASSUME ChainType, TableInv, NEW i \in DOMAIN rows, NEW r \in ChainRow, rows' = [rows EXCEPT ![i] = r], today' = today,
         r.day = rows[i].day, rows[i].gone => r.gone, rows[i].content = "altered" => r.content = "altered",
         Ends(r.hash) \in {0, i}
  PROVE  /\ Keeps /\ TableInv' /\ rows' \in Seq(ChainRow) /\ DOMAIN rows' = DOMAIN rows /\ Len(rows') = Len(rows)
         /\ rows'[i] = r /\ \A j \in DOMAIN rows : j # i => rows'[j] = rows[j]
<1>1. /\ rows' \in Seq(ChainRow) /\ DOMAIN rows' = DOMAIN rows
      /\ rows'[i] = r /\ \A j \in DOMAIN rows : j # i => rows'[j] = rows[j]
  <2>1. rows \in Seq(ChainRow)
    BY DEF ChainType
  <2> QED
    BY <2>1, Put
<1>2. Len(rows) \in Nat /\ DOMAIN rows = 1..Len(rows) /\ Len(rows') \in Nat /\ DOMAIN rows' = 1..Len(rows')
  BY <1>1, ChainRows, LenProperties
<1>3. Len(rows') = Len(rows)
  BY <1>1, <1>2
<1>4. \A j \in DOMAIN rows : /\ rows'[j].day = rows[j].day
                             /\ rows[j].gone => rows'[j].gone
                             /\ rows[j].content = "altered" => rows'[j].content = "altered"
  BY <1>1
<1>5. Keeps
  BY <1>1, <1>2, <1>3, <1>4 DEF Keeps
<1>6. TableInv'
  BY <1>1, <1>4 DEF TableInv
<1> QED
  BY <1>1, <1>3, <1>5, <1>6

LEMMA RowsSame ==
  ASSUME ChainType, TableInv, rows' = rows, today' \in Nat, today <= today'
  PROVE  Keeps /\ TableInv'
<1>1. Len(rows) \in Nat /\ DOMAIN rows = 1..Len(rows) /\ today \in Nat
  BY ChainRows, ChainAssumption DEF ChainType
<1>2. Keeps
  BY <1>1 DEF Keeps
<1>3. TableInv'
  BY <1>1 DEF TableInv
<1> QED
  BY <1>2, <1>3

LEMMA WriterFields ==
  ASSUME ChainType
  PROVE  /\ DOMAIN writer = Writers
         /\ \A w \in Writers : /\ writer[w].pc \in {"idle", "open", "linking", "playing"}
                               /\ writer[w].row \in Nat /\ writer[w].tip \in Hashes
BY DEF ChainType

LEMMA EmptyHash == <<>> \in Hashes /\ Ends(<<>>) = 0
BY EmptySeq DEF Hashes, Ends

\* The hash of the last of the rows S of the table r.
TipIn(r, S) == IF S = {} THEN <<>> ELSE r[A!Max(S)].hash

LEMMA SameTip ==
  ASSUME NEW r, NEW q, NEW n \in Nat, NEW S, S \subseteq 1..n, \A j \in S : r[j].hash = q[j].hash
  PROVE  TipIn(r, S) = TipIn(q, S)
<1>1. CASE S = {}
  BY <1>1 DEF TipIn
<1>2. CASE S # {}
  <2>1. A!Max(S) \in S
    BY <1>2, LastRow
  <2> QED
    BY <1>2, <2>1 DEF TipIn
<1> QED
  BY <1>1, <1>2

\* Whatever is read as a tip is a hash, of one of the rows it was read from.
LEMMA TipRow ==
  ASSUME ChainType, NEW S, S \subseteq DOMAIN rows
  PROVE  /\ A!HashOfLast(S) \in Hashes /\ A!HashOfLast(S) = TipIn(rows, S)
         /\ S # {} => \E j \in S : A!HashOfLast(S) = rows[j].hash
<1>1. A!HashOfLast(S) = TipIn(rows, S)
  BY DEF A!HashOfLast, A!Null, TipIn
<1>2. CASE S = {}
  BY <1>1, <1>2, EmptyHash DEF TipIn
<1>3. CASE S # {}
  <2>1. A!Max(S) \in S
    BY <1>3, ChainRows, LastRow
  <2> QED
    BY <1>1, <1>3, <2>1, ChainRows DEF TipIn
<1> QED
  BY <1>2, <1>3, <1>1

HashedBefore(i) == {j \in A!Hashed : j < i}

Line ==
    \A i \in A!Hashed : /\ NoneGone => rows[i].prev = TipIn(rows, HashedBefore(i))
                        /\ stream = "wallet_call" => rows[i].hash = A!hashRow(rows[i].prev, i, "final")

LEMMA LineIs ==
  /\ A!OneAtATimeIsLinear <=> (~disturbed => Line)
  /\ A!OneAtATimeIsLinear' <=> (~disturbed' => Line')
BY DEF A!OneAtATimeIsLinear, Line, NoneGone, TipIn, HashedBefore, A!HashOfLast, A!Null

\* Where no hash changed and new rows have none.
LEMMA LineKept ==
  ASSUME ChainType, Keeps, A!OneAtATimeIsLinear, stream' = stream, ~disturbed' => ~disturbed,
         ~disturbed' => /\ \A i \in DOMAIN rows : rows'[i].prev = rows[i].prev /\ rows'[i].hash = rows[i].hash
                        /\ \A i \in DOMAIN rows' \ DOMAIN rows : rows'[i].hash = <<>>
  PROVE  /\ A!OneAtATimeIsLinear'
         /\ ~disturbed' /\ NoneGone' => NoneGone /\ A!LatestTip' = A!LatestTip
<1> SUFFICES ASSUME ~disturbed'
             PROVE  Line' /\ (NoneGone' => NoneGone /\ A!LatestTip' = A!LatestTip)
  BY LineIs
<1>1. \A i \in A!Hashed : /\ NoneGone => rows[i].prev = TipIn(rows, HashedBefore(i))
                          /\ stream = "wallet_call" => rows[i].hash = A!hashRow(rows[i].prev, i, "final")
  BY LineIs DEF Line
<1>2. \A i \in DOMAIN rows : rows'[i].prev = rows[i].prev /\ rows'[i].hash = rows[i].hash
  OBVIOUS
<1>3. A!Hashed' \subseteq A!Hashed
  <2> SUFFICES ASSUME NEW i \in A!Hashed' PROVE i \in A!Hashed
    OBVIOUS
  <2>1. i \in DOMAIN rows' /\ rows'[i].hash # <<>> /\ ~rows'[i].gone
    BY DEF A!Hashed, A!Live, A!Null
  <2>2. i \in DOMAIN rows /\ rows[i].hash # <<>>
    BY <1>2, <2>1
  <2>3. ~rows[i].gone
    BY <2>1, <2>2 DEF Keeps
  <2> QED
    BY <2>2, <2>3 DEF A!Hashed, A!Live, A!Null
<1>4. A!Hashed \subseteq DOMAIN rows /\ DOMAIN rows = 1..Len(rows) /\ Len(rows) \in Nat
  BY DEF A!Hashed, A!Live, Keeps
<1>5. ASSUME NoneGone' PROVE NoneGone /\ A!Hashed' = A!Hashed
  <2>1. NoneGone
    BY <1>5 DEF NoneGone, Keeps
  <2>2. A!Hashed \subseteq A!Hashed'
    <3> SUFFICES ASSUME NEW i \in A!Hashed PROVE i \in A!Hashed'
      OBVIOUS
    <3>1. i \in DOMAIN rows /\ rows[i].hash # <<>>
      BY DEF A!Hashed, A!Live, A!Null
    <3>2. i \in DOMAIN rows' /\ rows'[i].hash # <<>>
      BY <1>2, <3>1 DEF Keeps
    <3>3. ~rows'[i].gone
      BY <1>5, <3>2 DEF NoneGone
    <3> QED
      BY <3>2, <3>3 DEF A!Hashed, A!Live, A!Null
  <2> QED
    BY <1>3, <2>1, <2>2
<1>6. ASSUME NoneGone', NEW i \in A!Hashed PROVE rows'[i].prev = TipIn(rows', HashedBefore(i)')
  <2>1. HashedBefore(i)' = HashedBefore(i) /\ HashedBefore(i) \subseteq A!Hashed
    BY <1>5, <1>6 DEF HashedBefore
  <2> DEFINE S == HashedBefore(i)
  <2>2. S \subseteq 1..Len(rows) /\ \A j \in S : rows[j].hash = rows'[j].hash
    BY <1>2, <1>4, <2>1
  <2> HIDE DEF S
  <2>3. TipIn(rows, S) = TipIn(rows', S)
    BY <1>4, <2>2, SameTip
  <2>4. rows'[i].prev = rows[i].prev /\ rows[i].prev = TipIn(rows, S)
    BY <1>1, <1>2, <1>4, <1>5, <1>6 DEF S
  <2> QED
    BY <2>1, <2>3, <2>4 DEF S
<1>7. ASSUME NoneGone' PROVE A!LatestTip' = A!LatestTip
  <2> DEFINE S == A!Hashed
  <2>1. S \subseteq 1..Len(rows) /\ \A j \in S : rows[j].hash = rows'[j].hash
    BY <1>2, <1>4
  <2>2. A!LatestTip = TipIn(rows, S) /\ A!LatestTip' = TipIn(rows', S')
    BY DEF A!LatestTip, A!HashOfLast, A!Null, TipIn
  <2>3. S' = S
    BY <1>5, <1>7
  <2> HIDE DEF S
  <2>4. TipIn(rows, S) = TipIn(rows', S)
    BY <1>4, <2>1, SameTip
  <2> QED
    BY <2>2, <2>3, <2>4
<1>8. \A i \in A!Hashed' : stream = "wallet_call" => rows'[i].hash = A!hashRow(rows'[i].prev, i, "final")
  BY <1>1, <1>2, <1>3, <1>4
<1> QED
  BY <1>3, <1>5, <1>6, <1>7, <1>8 DEF Line

\* Where no row changes, no day is read or signed.
LEMMA OthersStay ==
  ASSUME ChainInv, Keeps, \A i \in DOMAIN rows : rows'[i] = rows[i], today' \in Nat, today <= today',
         anchor' = anchor, job' = job, calm' = calm, altered' = altered
  PROVE  JobInv' /\ SignedInv' /\ CalmInv'
<1>1. ChainType /\ TableInv /\ JobInv /\ SignedInv /\ CalmInv
  BY DEF ChainInv
<1>2. \A d : Shows(d)
  BY DEF Shows
<1>3. SignedInv'
  BY <1>1, <1>2, SignedKept
<1>4. CalmInv'
  BY <1>1, CalmKept
<1>5. JobInv'
  <2>1. job'.calm \in BOOLEAN
    BY <1>1 DEF ChainType
  <2> QED
    BY <1>1, <1>2, <2>1, JobKept
<1> QED
  BY <1>3, <1>4, <1>5

LEMMA ChainStays ==
  ASSUME ChainInv, rows' = rows, today' \in Nat, today <= today', anchor' = anchor, job' = job, calm' = calm,
         altered' = altered
  PROVE  Keeps /\ TableInv' /\ JobInv' /\ SignedInv' /\ CalmInv'
<1>1. Keeps /\ TableInv'
  BY RowsSame DEF ChainInv
<1> QED
  BY <1>1, OthersStay

\* Somebody else than the job writes row i.
LEMMA TouchedKept ==
  ASSUME ChainInv, Keeps, NEW i \in DOMAIN rows, \A j \in DOMAIN rows : j # i => rows'[j] = rows[j],
         A!Touched(i), today' = today, anchor' = anchor, \A d : Shows(d)
  PROVE  /\ JobInv' /\ SignedInv' /\ CalmInv' /\ calm' \subseteq A!Days
         /\ job' \in [pc : {"idle", "tip", "rows"}, day : Nat, prev : Hashes, batch : Batches, calm : BOOLEAN]
<1>1. ChainType /\ TableInv /\ JobInv /\ SignedInv /\ CalmInv
  BY DEF ChainInv
<1>2. today' \in Nat /\ today <= today' /\ today \in Nat
  BY <1>1, ChainAssumption DEF ChainType
<1>3. \A j \in DOMAIN rows : rows[j].day \in Nat
  BY <1>1, ChainRows
<1>4. calm' = {d \in calm : d < rows[i].day} /\ calm \subseteq A!Days /\ calm \subseteq Nat
  <2>1. calm \subseteq A!Days
    BY <1>1 DEF ChainType
  <2> QED
    BY <2>1, ChainAssumption DEF A!Touched, A!Days
<1>5. /\ job' \in [pc : {"idle", "tip", "rows"}, day : Nat, prev : Hashes, batch : Batches, calm : BOOLEAN]
      /\ job'.pc = job.pc /\ job'.day = job.day /\ job'.prev = job.prev /\ job'.batch = job.batch
      /\ job'.calm \in BOOLEAN /\ job.day \in Nat
      /\ job'.calm <=> job.calm /\ job.day < rows[i].day
  <2> DEFINE b == job.calm /\ job.day < rows[i].day
  <2>1. b \in BOOLEAN /\ job' = [job EXCEPT !.calm = b]
    BY DEF A!Touched
  <2>2. job \in [pc : {"idle", "tip", "rows"}, day : Nat, prev : Hashes, batch : Batches, calm : BOOLEAN]
    BY <1>1 DEF ChainType
  <2>3. job'.calm = b
    BY <2>1, <2>2
  <2> HIDE DEF b
  <2>4. /\ job' \in [pc : {"idle", "tip", "rows"}, day : Nat, prev : Hashes, batch : Batches, calm : BOOLEAN]
        /\ job'.pc = job.pc /\ job'.day = job.day /\ job'.prev = job.prev /\ job'.batch = job.batch
        /\ job.day \in Nat
    BY <2>1, <2>2
  <2> QED
    BY <2>1, <2>3, <2>4 DEF b
<1>6. ASSUME NEW d \in Nat, d < rows[i].day, NEW j \in DOMAIN rows, rows[j].day <= d PROVE rows'[j] = rows[j]
  <2>1. j # i
    BY <1>3, <1>6
  <2> QED
    BY <2>1
<1>7. SignedInv'
  BY <1>1, <1>2, SignedKept
<1>8. CalmInv'
  <2>1. \A d \in calm' : d \in calm /\ \A j \in DOMAIN rows : rows[j].day <= d => rows'[j] = rows[j]
    BY <1>4, <1>6
  <2> QED
    BY <1>1, <1>2, <2>1, CalmKept
<1>9. JobInv'
  <2>1. job'.calm => job.calm /\ \A j \in DOMAIN rows : rows[j].day <= job.day => rows'[j] = rows[j]
    BY <1>5, <1>6
  <2>2. job.day \in calm' => job.day \in calm /\ (job.calm => job'.calm)
    BY <1>4, <1>5
  <2>3. Shows(job.day)
    OBVIOUS
  <2> QED
    BY <1>1, <1>2, <1>5, <2>1, <2>2, <2>3, JobKept
<1> QED
  BY <1>4, <1>5, <1>7, <1>8, <1>9

LEMMA TipReadKeeps == ASSUME ChainInv, NEW w \in Writers, A!TipRead(w) PROVE ChainInv'
<1>1. /\ writer[w].pc = "open" /\ rows' = rows /\ UNCHANGED <<stream, today, job, fill, anchor, disturbed, calm, altered>>
      /\ writer' = [writer EXCEPT ![w].pc = "linking", ![w].tip = A!LatestTip]
  BY DEF A!TipRead
<1>2. ChainType /\ WriterInv /\ FillInv /\ LineInv /\ today \in Nat
  BY ChainAssumption DEF ChainInv, ChainType
<1>3. Keeps /\ TableInv' /\ JobInv' /\ SignedInv' /\ CalmInv'
  BY <1>1, <1>2, ChainStays
<1>4. A!LatestTip \in Hashes
  BY <1>2, TipRow DEF A!LatestTip, A!Hashed, A!Live
<1>5. /\ writer'[w].pc = "linking" /\ writer'[w].row = writer[w].row /\ writer'[w].tip = A!LatestTip
      /\ \A v \in Writers : v # w => writer'[v] = writer[v]
      /\ writer' \in [Writers -> [pc : {"idle", "open", "linking", "playing"}, row : Nat, tip : Hashes]]
  <2> DEFINE r == [writer[w] EXCEPT !.pc = "linking", !.tip = A!LatestTip]
  <2>1. writer[w] \in [pc : {"idle", "open", "linking", "playing"}, row : Nat, tip : Hashes] /\ DOMAIN writer = Writers
    BY <1>2 DEF ChainType
  <2>2. /\ r \in [pc : {"idle", "open", "linking", "playing"}, row : Nat, tip : Hashes]
        /\ r.pc = "linking" /\ r.row = writer[w].row /\ r.tip = A!LatestTip
    BY <1>4, <2>1
  <2>3. writer' = [writer EXCEPT ![w] = r]
    BY <1>1, <2>1
  <2> HIDE DEF r
  <2> QED
    BY <1>2, <2>1, <2>2, <2>3 DEF ChainType
<1>6. ChainType'
  BY <1>1, <1>2, <1>5 DEF ChainType
<1>7. WriterInv'
  BY <1>1, <1>2, <1>5 DEF WriterInv
<1>8. FillInv'
  BY <1>1, <1>2 DEF FillInv
<1>9. LineInv'
  <2>1. A!OneAtATimeIsLinear' <=> A!OneAtATimeIsLinear
    BY <1>1 DEF A!OneAtATimeIsLinear, A!HashOfLast, A!Hashed, A!Live
  <2>2. A!LatestTip' = A!LatestTip
    BY <1>1 DEF A!LatestTip, A!HashOfLast, A!Hashed, A!Live
  <2>3. NoneGone' <=> NoneGone
    BY <1>1 DEF NoneGone
  <2>4. \A v \in Writers : v # w => writer'[v] = writer[v]
    BY <1>5
  <2> QED
    BY <1>1, <1>2, <1>5, <2>1, <2>2, <2>3, <2>4 DEF LineInv
<1> QED
  BY <1>3, <1>6, <1>7, <1>8, <1>9 DEF ChainInv

\* What fails disturbs the line.
LEMMA DisturbedLine ==
  ASSUME disturbed', stream' = stream, stream = "wallet_call" => \A w \in Writers : writer'[w].pc # "playing"
  PROVE  LineInv'
BY DEF LineInv, A!OneAtATimeIsLinear

LEMMA TipFailsKeeps == ASSUME ChainInv, NEW w \in Writers, A!TipFails(w) PROVE ChainInv'
<1>1. /\ writer[w].pc = "open" /\ rows' = rows /\ UNCHANGED <<stream, today, job, fill, anchor, calm, altered>>
      /\ writer' = [writer EXCEPT ![w].pc = IF stream = "round" THEN "playing" ELSE "linking"] /\ disturbed' = TRUE
  BY DEF A!TipFails
<1>2. ChainType /\ WriterInv /\ FillInv /\ LineInv /\ today \in Nat
  BY ChainAssumption DEF ChainInv, ChainType
<1>3. Keeps /\ TableInv' /\ JobInv' /\ SignedInv' /\ CalmInv'
  BY <1>1, <1>2, ChainStays
<1>4. /\ writer'[w].pc = (IF stream = "round" THEN "playing" ELSE "linking") /\ writer'[w].row = writer[w].row
      /\ \A v \in Writers : v # w => writer'[v] = writer[v]
      /\ writer' \in [Writers -> [pc : {"idle", "open", "linking", "playing"}, row : Nat, tip : Hashes]]
  BY <1>1, <1>2 DEF ChainType
<1>5. ChainType'
  BY <1>1, <1>2, <1>4 DEF ChainType
<1>6. WriterInv'
  BY <1>1, <1>2, <1>4 DEF WriterInv
<1>7. FillInv'
  BY <1>1, <1>2 DEF FillInv
<1>8. LineInv'
  <2>1. stream = "wallet_call" => \A v \in Writers : writer'[v].pc # "playing"
    BY <1>2, <1>4 DEF LineInv
  <2> QED
    BY <1>1, <2>1, DisturbedLine
<1> QED
  BY <1>3, <1>5, <1>6, <1>7, <1>8 DEF ChainInv

LEMMA WriteFailsKeeps == ASSUME ChainInv, NEW w \in Writers, A!WriteFails(w) PROVE ChainInv'
<1>1. /\ writer[w].pc = "linking" /\ rows' = rows /\ UNCHANGED <<stream, today, job, fill, anchor, calm, altered>>
      /\ writer' = [writer EXCEPT ![w] = IF stream = "round" THEN [writer[w] EXCEPT !.pc = "playing"] ELSE A!Idle]
      /\ disturbed' = TRUE
  BY DEF A!WriteFails
<1>2. ChainType /\ WriterInv /\ FillInv /\ LineInv /\ today \in Nat
  BY ChainAssumption DEF ChainInv, ChainType
<1>3. Keeps /\ TableInv' /\ JobInv' /\ SignedInv' /\ CalmInv'
  BY <1>1, <1>2, ChainStays
<1>4. /\ \/ stream = "round" /\ writer'[w].pc = "playing" /\ writer'[w].row = writer[w].row
         \/ stream # "round" /\ writer'[w].pc = "idle" /\ writer'[w].row = 0
      /\ \A v \in Writers : v # w => writer'[v] = writer[v]
      /\ writer' \in [Writers -> [pc : {"idle", "open", "linking", "playing"}, row : Nat, tip : Hashes]]
  BY <1>1, <1>2, EmptyHash DEF ChainType, A!Idle, A!Null
<1>5. ChainType'
  BY <1>1, <1>2, <1>4 DEF ChainType
<1>6. WriterInv'
  <2>1. 0 \notin DOMAIN rows
    BY <1>2, ChainRows
  <2> QED
    BY <1>1, <1>2, <1>4, <2>1 DEF WriterInv
<1>7. FillInv'
  BY <1>1, <1>2 DEF FillInv
<1>8. LineInv'
  <2>1. stream = "wallet_call" => \A v \in Writers : writer'[v].pc # "playing"
    BY <1>2, <1>4 DEF LineInv
  <2> QED
    BY <1>1, <2>1, DisturbedLine
<1> QED
  BY <1>3, <1>5, <1>6, <1>7, <1>8 DEF ChainInv

\* The line does not depend on the day, the job, the backfill and the anchors.
LEMMA LineStays ==
  ASSUME LineInv, rows' = rows, stream' = stream, writer' = writer, disturbed' = disturbed
  PROVE  LineInv'
BY DEF LineInv, A!OneAtATimeIsLinear, A!LatestTip, A!HashOfLast, A!Hashed, A!Live, NoneGone

LEMMA ChainDayKeeps == ASSUME ChainInv, A!NextDay PROVE ChainInv'
<1>1. /\ today < MaxDays /\ today' = today + 1 /\ rows' = rows
      /\ UNCHANGED <<stream, writer, job, fill, anchor, disturbed, calm, altered>>
  BY DEF A!NextDay
<1>2. ChainType /\ WriterInv /\ FillInv /\ LineInv
  BY DEF ChainInv
<1>3. today \in 1..MaxDays /\ today' \in 1..MaxDays /\ today' \in Nat /\ today <= today'
  BY <1>1, <1>2, ChainAssumption DEF ChainType
<1>4. Keeps /\ TableInv' /\ JobInv' /\ SignedInv' /\ CalmInv'
  BY <1>1, <1>3, ChainStays
<1>5. ChainType'
  BY <1>1, <1>2, <1>3 DEF ChainType
<1>6. WriterInv' /\ FillInv' /\ LineInv'
  BY <1>1, <1>2, LineStays DEF WriterInv, FillInv
<1> QED
  BY <1>4, <1>5, <1>6 DEF ChainInv

\* What is read of a set of rows.
LEMMA SnapshotIs ==
  ASSUME ChainType, NEW S, S \subseteq DOMAIN rows
  PROVE  /\ A!Snapshot(S) \in Batches /\ DOMAIN A!Snapshot(S) = S
         /\ \A i \in S : /\ A!Snapshot(S)[i].content = rows[i].content
                         /\ A!Snapshot(S)[i].prev = rows[i].prev /\ A!Snapshot(S)[i].hash = rows[i].hash
<1> DEFINE b == A!Snapshot(S)
<1>1. \A i \in S : rows[i].content \in Contents /\ rows[i].prev \in Hashes /\ rows[i].hash \in Hashes
  BY ChainRows
<1>2. b = [i \in S |-> [content |-> rows[i].content, prev |-> rows[i].prev, hash |-> rows[i].hash]]
  BY DEF A!Snapshot
<1>3. b \in [S -> Kept]
  BY <1>1, <1>2 DEF Kept
<1>4. S \in SUBSET Nat
  BY ChainRows
<1>5. b \in Batches
  <2> HIDE DEF b
  <2> QED
    BY <1>3, <1>4 DEF Batches
<1> HIDE DEF b
<1>6. /\ DOMAIN b = S
      /\ \A i \in S : b[i].content = rows[i].content /\ b[i].prev = rows[i].prev /\ b[i].hash = rows[i].hash
  BY <1>2
<1> QED
  BY <1>5, <1>6 DEF b

LEMMA BatchRows ==
  ASSUME NEW b \in Batches
  PROVE  /\ DOMAIN b \subseteq Nat
         /\ \A i \in DOMAIN b : b[i].content \in Contents /\ b[i].prev \in Hashes /\ b[i].hash \in Hashes
<1>1. PICK S \in SUBSET Nat : b \in [S -> Kept]
  BY DEF Batches
<1> QED
  BY <1>1 DEF Kept

LEMMA RestIsBatch == ASSUME NEW b \in Batches PROVE A!Rest(b) \in Batches
<1>1. PICK S \in SUBSET Nat : b \in [S -> Kept]
  BY DEF Batches
<1>2. A!Rest(b) = [j \in S \ {A!First(b)} |-> b[j]]
  BY <1>1 DEF A!Rest, A!Restrict
<1>3. A!Rest(b) \in [S \ {A!First(b)} -> Kept]
  BY <1>1, <1>2
<1>4. S \ {A!First(b)} \in SUBSET Nat
  OBVIOUS
<1> QED
  BY <1>3, <1>4 DEF Batches

LEMMA NoBatch == <<>> \in Batches /\ DOMAIN <<>> = {}
<1>1. DOMAIN <<>> = {}
  OBVIOUS
<1>2. <<>> \in [{} -> Kept]
  OBVIOUS
<1>3. {} \in SUBSET Nat
  OBVIOUS
<1> QED
  BY <1>1, <1>2, <1>3 DEF Batches

\* One writer moves on.
LEMMA WriterMoves ==
  ASSUME ChainType, NEW w \in Writers, NEW r \in [pc : {"idle", "open", "linking", "playing"}, row : Nat, tip : Hashes],
         writer' = [writer EXCEPT ![w] = r]
  PROVE  /\ writer'[w] = r /\ \A v \in Writers : v # w => writer'[v] = writer[v]
         /\ writer' \in [Writers -> [pc : {"idle", "open", "linking", "playing"}, row : Nat, tip : Hashes]]
BY DEF ChainType

LEMMA IdleWriter ==
  A!Idle \in [pc : {"idle", "open", "linking", "playing"}, row : Nat, tip : Hashes]
  /\ A!Idle.pc = "idle" /\ A!Idle.row = 0
BY EmptyHash DEF A!Idle, A!Null

LEMMA RowCreatedKeeps == ASSUME ChainInv, NEW w \in Writers, A!RowCreated(w) PROVE ChainInv'
<1> DEFINE n == Len(rows) + 1
           new == [day |-> today, content |-> "open", prev |-> <<>>, hash |-> <<>>, gone |-> FALSE]
           r == [pc |-> "open", row |-> n, tip |-> <<>>]
<1>1. /\ writer[w].pc = "idle" /\ rows' = Append(rows, new) /\ writer' = [writer EXCEPT ![w] = r]
      /\ UNCHANGED <<stream, today, job, fill, anchor, calm, altered>>
  BY DEF A!RowCreated, A!Null
<1>2. disturbed' = (disturbed \/ \E v \in Writers : writer[v].pc # "idle")
  BY DEF A!RowCreated
<1>3. /\ ChainType /\ TableInv /\ WriterInv /\ FillInv /\ LineInv
      /\ today \in Nat /\ today \in 1..MaxDays /\ Len(rows) \in Nat /\ DOMAIN rows = 1..Len(rows)
  BY ChainAssumption, ChainRows DEF ChainInv, ChainType
<1>4. new \in ChainRow /\ new.day = today /\ new.content = "open" /\ new.hash = <<>>
  BY <1>3, EmptyHash DEF ChainRow, Contents
<1>5. /\ rows' \in Seq(ChainRow) /\ DOMAIN rows' = DOMAIN rows \cup {n} /\ n \notin DOMAIN rows /\ rows'[n] = new
      /\ \A i \in DOMAIN rows : rows'[i] = rows[i]
  <2>1. rows \in Seq(ChainRow)
    BY <1>3 DEF ChainType
  <2> HIDE DEF new
  <2> QED
    BY <1>1, <1>4, <2>1, Added
<1>6. r \in [pc : {"idle", "open", "linking", "playing"}, row : Nat, tip : Hashes] /\ r.pc = "open" /\ r.row = n
  BY <1>3, EmptyHash
<1> HIDE DEF new, r
<1>7. /\ writer'[w] = r /\ \A v \in Writers : v # w => writer'[v] = writer[v]
      /\ writer' \in [Writers -> [pc : {"idle", "open", "linking", "playing"}, row : Nat, tip : Hashes]]
  BY <1>1, <1>3, <1>6, WriterMoves
<1>8. Len(rows') = n /\ DOMAIN rows' = 1..n
  <2>1. rows \in Seq(ChainRow)
    BY <1>3 DEF ChainType
  <2>2. Len(rows') = n
    BY <1>1, <1>4, <2>1, AppendProperties
  <2> QED
    BY <1>5, <2>2, LenProperties
<1>9. Keeps
  BY <1>3, <1>4, <1>5, <1>8 DEF Keeps
<1>10. TableInv'
  <2>1. \A i \in DOMAIN rows' : rows'[i].day \in 1..today /\ Ends(rows'[i].hash) \in {0, i}
    BY <1>3, <1>4, <1>5, EmptyHash DEF TableInv
  <2>2. ASSUME NEW i \in DOMAIN rows', NEW j \in DOMAIN rows', i < j PROVE rows'[i].day <= rows'[j].day
    <3>1. i \in DOMAIN rows
      BY <1>3, <1>8, <2>2
    <3>2. CASE j \in DOMAIN rows
      BY <1>3, <1>5, <2>2, <3>1, <3>2 DEF TableInv
    <3>3. CASE j = n
      BY <1>3, <1>4, <1>5, <3>1, <3>3 DEF TableInv
    <3> QED
      BY <1>5, <3>2, <3>3
  <2> QED
    BY <1>1, <2>1, <2>2 DEF TableInv
<1>11. JobInv' /\ SignedInv' /\ CalmInv'
  BY <1>1, <1>3, <1>5, <1>9, OthersStay
<1>12. ChainType'
  <2>1. disturbed' \in BOOLEAN
    BY <1>2
  <2> QED
    BY <1>1, <1>3, <1>5, <1>7, <2>1 DEF ChainType
<1>13. WriterInv'
  <2>1. ASSUME NEW v \in Writers, v # w, writer[v].pc # "idle"
        PROVE  writer[v].row \in DOMAIN rows /\ writer[v].row # n /\ rows'[writer[v].row].content = "open"
    BY <1>3, <1>5, <2>1 DEF WriterInv
  <2>2. \A v \in Writers : writer[v].row # n
    <3> SUFFICES ASSUME NEW v \in Writers PROVE writer[v].row # n
      OBVIOUS
    <3>1. CASE writer[v].pc = "idle"
      BY <1>3, <3>1 DEF WriterInv
    <3>2. CASE writer[v].pc # "idle"
      BY <1>3, <1>5, <3>2 DEF WriterInv
    <3> QED
      BY <3>1, <3>2
  <2>3. \A v \in Writers : writer'[v].pc = "idle" => writer'[v].row = 0
    BY <1>3, <1>6, <1>7 DEF WriterInv
  <2>4. \A v \in Writers : writer'[v].pc # "idle" =>
           writer'[v].row \in DOMAIN rows' /\ rows'[writer'[v].row].content = "open"
    BY <1>4, <1>5, <1>6, <1>7, <2>1
  <2>5. \A u, v \in Writers : writer'[u].pc # "idle" /\ writer'[v].row = writer'[u].row => v = u
    <3> SUFFICES ASSUME NEW u \in Writers, NEW v \in Writers, writer'[u].pc # "idle", writer'[v].row = writer'[u].row
                 PROVE  v = u
      OBVIOUS
    <3>1. u # w => writer'[u] = writer[u]
      BY <1>7
    <3>2. v # w => writer'[v] = writer[v]
      BY <1>7
    <3>3. u # w /\ v # w => v = u
      BY <1>3, <3>1, <3>2 DEF WriterInv
    <3> QED
      BY <1>6, <1>7, <2>2, <3>1, <3>2, <3>3
  <2> QED
    BY <2>3, <2>4, <2>5 DEF WriterInv
<1>14. FillInv'
  BY <1>1, <1>3, <1>5 DEF FillInv
<1>15. LineInv'
  <2>1. stream = "wallet_call" => \A v \in Writers : writer'[v].pc # "playing"
    <3>1. stream = "wallet_call" => \A v \in Writers : writer[v].pc # "playing"
      BY <1>3 DEF LineInv
    <3> QED
      BY <1>6, <1>7, <3>1
  <2>2. ASSUME ~disturbed' PROVE ~disturbed /\ \A v \in Writers : v # w => writer'[v].pc = "idle"
    BY <1>2, <1>7, <2>2
  <2>3. A!OneAtATimeIsLinear'
    <3>1. A!OneAtATimeIsLinear
      BY <1>3 DEF LineInv, A!OneAtATimeIsLinear
    <3>2. \A i \in DOMAIN rows : rows'[i].prev = rows[i].prev /\ rows'[i].hash = rows[i].hash
      BY <1>5
    <3>3. \A i \in DOMAIN rows' \ DOMAIN rows : rows'[i].hash = <<>>
      BY <1>4, <1>5
    <3> QED
      BY <1>1, <1>3, <1>9, <2>2, <3>1, <3>2, <3>3, LineKept
  <2>4. ASSUME ~disturbed', NEW v \in Writers
        PROVE  /\ writer'[v].pc # "idle" => writer'[v].row = Len(rows')
               /\ writer'[v].pc \in {"open", "linking"} => rows'[writer'[v].row].hash = <<>>
               /\ writer'[v].pc # "linking"
    <3>1. CASE v = w
      BY <1>4, <1>5, <1>6, <1>7, <1>8, <3>1
    <3>2. CASE v # w
      BY <2>2, <2>4, <3>2
    <3> QED
      BY <3>1, <3>2
  <2> QED
    BY <1>1, <2>1, <2>3, <2>4 DEF LineInv
<1> QED
  BY <1>10, <1>11, <1>12, <1>13, <1>14, <1>15 DEF ChainInv

\* A row with another content, link and hash.
Rewritten(q, x, p, h) == [q EXCEPT !.content = x, !.prev = p, !.hash = h]
Relinked(q, p, h) == [q EXCEPT !.prev = p, !.hash = h]

LEMMA RowFields ==
  ASSUME NEW q \in ChainRow, NEW x \in Contents, NEW p \in Hashes, NEW h \in Hashes
  PROVE  /\ Rewritten(q, x, p, h) \in ChainRow /\ Rewritten(q, x, p, h).day = q.day
         /\ Rewritten(q, x, p, h).content = x /\ Rewritten(q, x, p, h).prev = p
         /\ Rewritten(q, x, p, h).hash = h /\ Rewritten(q, x, p, h).gone = q.gone
         /\ Relinked(q, p, h) \in ChainRow /\ Relinked(q, p, h).day = q.day
         /\ Relinked(q, p, h).content = q.content /\ Relinked(q, p, h).prev = p
         /\ Relinked(q, p, h).hash = h /\ Relinked(q, p, h).gone = q.gone
<1>1. /\ Rewritten(q, x, p, h) \in ChainRow /\ Rewritten(q, x, p, h).day = q.day
      /\ Rewritten(q, x, p, h).content = x /\ Rewritten(q, x, p, h).prev = p
      /\ Rewritten(q, x, p, h).hash = h /\ Rewritten(q, x, p, h).gone = q.gone
  BY DEF ChainRow, Rewritten
<1>2. /\ Relinked(q, p, h) \in ChainRow /\ Relinked(q, p, h).day = q.day
      /\ Relinked(q, p, h).content = q.content /\ Relinked(q, p, h).prev = p
      /\ Relinked(q, p, h).hash = h /\ Relinked(q, p, h).gone = q.gone
  BY DEF ChainRow, Relinked
<1> QED
  BY <1>1, <1>2

\* The writer w puts the tip it read, and its own hash over it, into its row.
Hashing(w, x) ==
    rows' = [rows EXCEPT ![writer[w].row] = [@ EXCEPT !.content = x, !.prev = writer[w].tip,
                                                      !.hash = A!hashRow(writer[w].tip, writer[w].row, x)]]

LEMMA RowHashed ==
  ASSUME ChainInv, NEW w \in Writers, writer[w].pc = "linking", NEW x \in {"open", "final"}, Hashing(w, x),
         today' = today, anchor' = anchor, altered' = altered, fill' = fill, stream' = stream, disturbed' = disturbed,
         A!Touched(writer[w].row), stream = "wallet_call" => x = "final"
  PROVE  /\ JobInv' /\ SignedInv' /\ CalmInv' /\ calm' \subseteq A!Days
         /\ job' \in [pc : {"idle", "tip", "rows"}, day : Nat, prev : Hashes, batch : Batches, calm : BOOLEAN]
         /\ TableInv' /\ FillInv' /\ rows' \in Seq(ChainRow) /\ DOMAIN rows' = DOMAIN rows /\ Len(rows') = Len(rows)
         /\ rows'[writer[w].row].content = x /\ \A j \in DOMAIN rows : j # writer[w].row => rows'[j] = rows[j]
         /\ A!OneAtATimeIsLinear'
<1> DEFINE i == writer[w].row
           tip == writer[w].tip
           h == A!hashRow(tip, i, x)
           r == Rewritten(rows[i], x, tip, h)
<1>1. /\ ChainType /\ TableInv /\ WriterInv /\ FillInv /\ LineInv
      /\ i \in DOMAIN rows /\ rows[i].content = "open" /\ tip \in Hashes /\ i \in Nat
      /\ rows[i] \in ChainRow /\ x \in Contents /\ Len(rows) \in Nat /\ DOMAIN rows = 1..Len(rows)
  <2>1. ChainType /\ TableInv /\ WriterInv /\ FillInv /\ LineInv
    BY DEF ChainInv
  <2>2. i \in DOMAIN rows /\ rows[i].content = "open"
    BY <2>1 DEF WriterInv
  <2>3. tip \in Hashes /\ i \in Nat
    BY <2>1, WriterFields
  <2> QED
    BY <2>1, <2>2, <2>3, ChainRows DEF Contents
<1>2. h \in Hashes /\ h # <<>> /\ Ends(h) = i
  BY <1>1, HashGrows
<1>3. rows' = [rows EXCEPT ![i] = r]
  BY DEF Hashing, Rewritten
<1> HIDE DEF i, tip, h
<1>4. /\ r \in ChainRow /\ r.day = rows[i].day /\ r.content = x /\ r.prev = tip /\ r.hash = h /\ r.gone = rows[i].gone
  BY <1>1, <1>2, RowFields
<1> HIDE DEF r
<1>5. /\ Keeps /\ TableInv' /\ rows' \in Seq(ChainRow) /\ DOMAIN rows' = DOMAIN rows /\ Len(rows') = Len(rows)
      /\ rows'[i] = r /\ \A j \in DOMAIN rows : j # i => rows'[j] = rows[j]
  <2>1. rows[i].content = "altered" => r.content = "altered"
    BY <1>1
  <2>2. rows[i].gone => r.gone
    BY <1>4
  <2> QED
    BY <1>1, <1>2, <1>3, <1>4, <2>1, <2>2, RowWritten
<1>6. \A d : Shows(d)
  BY DEF Shows
<1>7. /\ JobInv' /\ SignedInv' /\ CalmInv' /\ calm' \subseteq A!Days
      /\ job' \in [pc : {"idle", "tip", "rows"}, day : Nat, prev : Hashes, batch : Batches, calm : BOOLEAN]
  BY <1>1, <1>5, <1>6, TouchedKept DEF i
<1>8. FillInv'
  BY <1>1, <1>5 DEF FillInv
<1>9. \A S : S \subseteq 1..Len(rows) /\ (\A l \in S : rows[l].hash = rows'[l].hash)
              => TipIn(rows, S) = TipIn(rows', S)
  <2>1. Len(rows) \in Nat
    BY <1>1
  <2> QED
    BY <2>1, SameTip
<1>10. A!OneAtATimeIsLinear'
  <2> SUFFICES ASSUME ~disturbed PROVE Line'
    BY LineIs
  <2>1. Line /\ i = Len(rows) /\ rows[i].hash = <<>> /\ (NoneGone => tip = A!LatestTip)
    <3>1. A!OneAtATimeIsLinear
      BY <1>1 DEF LineInv
    <3>2. i = Len(rows) /\ rows[i].hash = <<>> /\ (NoneGone => tip = A!LatestTip)
      BY <1>1 DEF LineInv, i, tip
    <3> QED
      BY <3>1, <3>2, LineIs
  <2>2. /\ A!Hashed \subseteq DOMAIN rows /\ i \notin A!Hashed
        /\ \A j \in A!Hashed : rows'[j] = rows[j] /\ j < i
    <3>1. A!Hashed \subseteq DOMAIN rows /\ i \notin A!Hashed
      BY <2>1 DEF A!Hashed, A!Live, A!Null
    <3>2. \A j \in A!Hashed : j < i
      BY <1>1, <2>1, <3>1
    <3> QED
      BY <1>5, <3>1, <3>2
  <2>3. A!Hashed' \subseteq A!Hashed \cup {i}
    BY <1>5 DEF A!Hashed, A!Live
  <2>4. A!Hashed \subseteq A!Hashed'
    BY <1>5, <2>2 DEF A!Hashed, A!Live
  <2>5. NoneGone' => NoneGone
    BY <1>5 DEF NoneGone, Keeps
  <2>6. ASSUME NEW j \in A!Hashed', NoneGone' PROVE rows'[j].prev = TipIn(rows', HashedBefore(j)')
    <3>1. CASE j = i
      <4>1. HashedBefore(j)' = A!Hashed
        <5>1. A!Hashed' \ {i} = A!Hashed
          BY <2>2, <2>3, <2>4
        <5> QED
          BY <2>2, <2>3, <2>4, <3>1, <1>1 DEF HashedBefore
      <4> DEFINE S == A!Hashed
      <4>2. S \subseteq 1..Len(rows) /\ \A l \in S : rows[l].hash = rows'[l].hash
        BY <1>1, <2>2
      <4>3. tip = TipIn(rows, S)
        <5>1. tip = A!LatestTip
          BY <2>1, <2>5, <2>6
        <5>2. A!LatestTip = TipIn(rows, A!Hashed)
          BY DEF A!LatestTip, A!HashOfLast, A!Null, TipIn
        <5> QED
          BY <5>1, <5>2
      <4> HIDE DEF S
      <4>4. TipIn(rows, S) = TipIn(rows', S)
        BY <1>9, <4>2
      <4> QED
        BY <1>4, <1>5, <3>1, <4>1, <4>3, <4>4 DEF S
    <3>2. CASE j # i
      <4>1. j \in A!Hashed /\ j < i /\ j \in 1..Len(rows)
        BY <1>1, <2>2, <2>3, <3>2
      <4>2. HashedBefore(j)' = HashedBefore(j)
        <5>1. \A l \in A!Hashed' : l < j => l # i
          BY <1>1, <4>1
        <5> QED
          BY <2>3, <2>4, <5>1 DEF HashedBefore
      <4> DEFINE S == HashedBefore(j)
      <4>3. S \subseteq 1..Len(rows) /\ \A l \in S : rows[l].hash = rows'[l].hash
        BY <1>1, <2>2 DEF HashedBefore
      <4>4. rows'[j].prev = TipIn(rows, S)
        BY <2>1, <2>2, <2>5, <2>6, <4>1 DEF Line
      <4> HIDE DEF S
      <4>5. TipIn(rows, S) = TipIn(rows', S)
        BY <1>9, <4>3
      <4> QED
        BY <4>2, <4>4, <4>5 DEF S
    <3> QED
      BY <3>1, <3>2
  <2>7. ASSUME NEW j \in A!Hashed', stream = "wallet_call" PROVE rows'[j].hash = A!hashRow(rows'[j].prev, j, "final")
    <3>1. CASE j = i
      BY <1>4, <1>5, <2>7, <3>1 DEF h
    <3>2. CASE j # i
      <4>1. j \in A!Hashed /\ rows'[j] = rows[j]
        BY <2>2, <2>3, <3>2
      <4> QED
        BY <2>1, <2>7, <4>1 DEF Line
    <3> QED
      BY <3>1, <3>2
  <2> QED
    BY <2>6, <2>7 DEF Line
<1> QED
  BY <1>4, <1>5, <1>7, <1>8, <1>10 DEF i

LEMMA CallWrittenKeeps == ASSUME ChainInv, NEW w \in Writers, A!CallWritten(w) PROVE ChainInv'
<1> DEFINE i == writer[w].row
<1>1. /\ stream = "wallet_call" /\ writer[w].pc = "linking" /\ Hashing(w, "final") /\ A!Touched(i)
      /\ writer' = [writer EXCEPT ![w] = A!Idle]
      /\ UNCHANGED <<stream, today, fill, anchor, disturbed, altered>>
  BY DEF A!CallWritten, Hashing
<1>2. ChainType /\ WriterInv /\ LineInv
  BY DEF ChainInv
<1> HIDE DEF i
<1>3. /\ JobInv' /\ SignedInv' /\ CalmInv' /\ calm' \subseteq A!Days
      /\ job' \in [pc : {"idle", "tip", "rows"}, day : Nat, prev : Hashes, batch : Batches, calm : BOOLEAN]
      /\ TableInv' /\ FillInv' /\ rows' \in Seq(ChainRow) /\ DOMAIN rows' = DOMAIN rows /\ Len(rows') = Len(rows)
      /\ \A j \in DOMAIN rows : j # i => rows'[j] = rows[j]
      /\ A!OneAtATimeIsLinear'
  BY <1>1, RowHashed DEF i
<1>4. /\ writer'[w].pc = "idle" /\ writer'[w].row = 0 /\ \A v \in Writers : v # w => writer'[v] = writer[v]
      /\ writer' \in [Writers -> [pc : {"idle", "open", "linking", "playing"}, row : Nat, tip : Hashes]]
  <2>1. writer'[w] = A!Idle
    BY <1>1, <1>2, IdleWriter, WriterMoves
  <2> QED
    BY <1>1, <1>2, <2>1, IdleWriter, WriterMoves
<1>5. ChainType'
  BY <1>1, <1>2, <1>3, <1>4 DEF ChainType
<1>6. \A v \in Writers : v # w /\ writer[v].pc # "idle" => writer[v].row # i
  BY <1>2 DEF WriterInv, i
<1>7. WriterInv'
  <2>1. 0 \notin DOMAIN rows
    BY <1>2, ChainRows
  <2>2. \A v \in Writers : writer'[v].pc # "idle" =>
           v # w /\ writer[v].pc # "idle" /\ writer'[v] = writer[v]
    BY <1>4
  <2>3. \A v \in Writers : writer'[v].pc # "idle" =>
           writer'[v].row \in DOMAIN rows' /\ rows'[writer'[v].row].content = "open"
    BY <1>2, <1>3, <1>6, <2>2 DEF WriterInv
  <2>4. \A v \in Writers : writer'[v].pc = "idle" => writer'[v].row = 0
    BY <1>2, <1>4 DEF WriterInv
  <2>5. \A u, v \in Writers : writer'[u].pc # "idle" /\ writer'[v].row = writer'[u].row => v = u
    <3> SUFFICES ASSUME NEW u \in Writers, NEW v \in Writers, writer'[u].pc # "idle", writer'[v].row = writer'[u].row
                 PROVE  v = u
      OBVIOUS
    <3>1. writer'[u].row # 0
      BY <1>3, <2>1, <2>3
    <3>2. v # w
      BY <1>4, <3>1
    <3> QED
      BY <1>2, <1>4, <2>2, <3>2 DEF WriterInv
  <2> QED
    BY <2>3, <2>4, <2>5 DEF WriterInv
<1>8. LineInv'
  <2>1. stream' = "wallet_call" => \A v \in Writers : writer'[v].pc # "playing"
    BY <1>1, <1>2, <1>4 DEF LineInv
  <2>2. ASSUME ~disturbed', NEW v \in Writers PROVE writer'[v].pc = "idle"
    <3>1. ~disturbed /\ i = Len(rows)
      BY <1>1, <1>2, <2>2 DEF LineInv, i
    <3>2. v # w => writer[v].pc = "idle"
      BY <1>2, <1>6, <3>1 DEF LineInv
    <3> QED
      BY <1>4, <3>2
  <2> QED
    BY <1>3, <2>1, <2>2 DEF LineInv
<1> QED
  BY <1>3, <1>5, <1>7, <1>8 DEF ChainInv

LEMMA RoundHashedKeeps == ASSUME ChainInv, NEW w \in Writers, A!RoundHashed(w) PROVE ChainInv'
<1> DEFINE i == writer[w].row
<1>1. /\ stream = "round" /\ writer[w].pc = "linking" /\ A!Touched(i)
      /\ writer' = [writer EXCEPT ![w].pc = "playing"]
      /\ UNCHANGED <<stream, today, fill, anchor, disturbed, altered>>
      /\ rows' = [rows EXCEPT ![i] = [@ EXCEPT !.prev = writer[w].tip, !.hash = A!hashRow(writer[w].tip, i, "open")]]
  BY DEF A!RoundHashed
<1>2. ChainType /\ WriterInv /\ LineInv
  BY DEF ChainInv
<1>3. Hashing(w, "open")
  <2>1. i \in DOMAIN rows /\ rows[i].content = "open" /\ rows[i] \in ChainRow
    BY <1>1, <1>2, ChainRows DEF WriterInv
  <2>2. rows[i] = [rows[i] EXCEPT !.content = "open"]
    BY <2>1 DEF ChainRow
  <2> DEFINE q == rows[i]
             p == writer[w].tip
             h == A!hashRow(writer[w].tip, i, "open")
  <2>3. rows' = [rows EXCEPT ![i] = [q EXCEPT !.prev = p, !.hash = h]]
    BY <1>1
  <2>4. Hashing(w, "open") <=> rows' = [rows EXCEPT ![i] = [[q EXCEPT !.content = "open"] EXCEPT !.prev = p, !.hash = h]]
    BY DEF Hashing
  <2>5. q = [q EXCEPT !.content = "open"]
    BY <2>2
  <2> HIDE DEF q, p, h, i
  <2> QED
    BY <2>3, <2>4, <2>5
<1> HIDE DEF i
<1>4. /\ JobInv' /\ SignedInv' /\ CalmInv' /\ calm' \subseteq A!Days
      /\ job' \in [pc : {"idle", "tip", "rows"}, day : Nat, prev : Hashes, batch : Batches, calm : BOOLEAN]
      /\ TableInv' /\ FillInv' /\ rows' \in Seq(ChainRow) /\ DOMAIN rows' = DOMAIN rows /\ Len(rows') = Len(rows)
      /\ rows'[i].content = "open" /\ \A j \in DOMAIN rows : j # i => rows'[j] = rows[j]
      /\ A!OneAtATimeIsLinear'
  BY <1>1, <1>3, RowHashed DEF i
<1>5. /\ writer'[w].pc = "playing" /\ writer'[w].row = i /\ \A v \in Writers : v # w => writer'[v] = writer[v]
      /\ writer' \in [Writers -> [pc : {"idle", "open", "linking", "playing"}, row : Nat, tip : Hashes]]
  BY <1>1, <1>2 DEF ChainType, i
<1>6. ChainType'
  BY <1>1, <1>2, <1>4, <1>5 DEF ChainType
<1>7. i \in DOMAIN rows /\ \A v \in Writers : v # w => writer[v].row # i
  BY <1>1, <1>2 DEF WriterInv, i
<1>8. WriterInv'
  <2>1. \A v \in Writers : writer'[v].row = writer[v].row /\ (writer'[v].pc = "idle" <=> writer[v].pc = "idle")
    BY <1>1, <1>5 DEF i
  <2>2. \A j \in DOMAIN rows : rows[j].content = "open" => rows'[j].content = "open"
    BY <1>4
  <2> QED
    BY <1>2, <1>4, <2>1, <2>2 DEF WriterInv
<1>9. LineInv'
  <2>1. stream' # "wallet_call"
    BY <1>1
  <2>2. ASSUME ~disturbed', NEW v \in Writers
        PROVE  IF v = w THEN writer'[v].pc = "playing" /\ writer'[v].row = Len(rows') ELSE writer'[v].pc = "idle"
    <3>1. ~disturbed /\ i = Len(rows)
      BY <1>1, <1>2, <2>2 DEF LineInv, i
    <3>2. v # w => writer[v].pc = "idle"
      BY <1>2, <1>7, <3>1 DEF LineInv
    <3> QED
      BY <1>4, <1>5, <3>1, <3>2
  <2> QED
    BY <1>4, <2>1, <2>2 DEF LineInv
<1> QED
  BY <1>4, <1>6, <1>8, <1>9 DEF ChainInv

LEMMA ContentFields ==
  ASSUME NEW q \in ChainRow, NEW x \in Contents
  PROVE  LET r == [q EXCEPT !.content = x] IN
         r \in ChainRow /\ r.day = q.day /\ r.content = x /\ r.prev = q.prev /\ r.hash = q.hash /\ r.gone = q.gone
BY DEF ChainRow

LEMMA RoundSettlesKeeps == ASSUME ChainInv, NEW w \in Writers, A!RoundSettles(w) PROVE ChainInv'
<1> DEFINE i == writer[w].row
           r == [rows[i] EXCEPT !.content = "final"]
<1>1. /\ writer[w].pc = "playing" /\ rows' = [rows EXCEPT ![i] = r] /\ A!Touched(i)
      /\ writer' = [writer EXCEPT ![w] = A!Idle]
      /\ UNCHANGED <<stream, today, fill, anchor, disturbed, altered>>
  BY DEF A!RoundSettles
<1>2. ChainType /\ TableInv /\ WriterInv /\ FillInv /\ LineInv
  BY DEF ChainInv
<1>3. i \in DOMAIN rows /\ rows[i].content = "open" /\ rows[i] \in ChainRow
  BY <1>1, <1>2, ChainRows DEF WriterInv
<1> HIDE DEF i
<1>4. /\ r \in ChainRow /\ r.day = rows[i].day /\ r.content = "final" /\ r.prev = rows[i].prev /\ r.hash = rows[i].hash
      /\ r.gone = rows[i].gone
  BY <1>3, ContentFields DEF Contents
<1> HIDE DEF r
<1>5. /\ Keeps /\ TableInv' /\ rows' \in Seq(ChainRow) /\ DOMAIN rows' = DOMAIN rows /\ Len(rows') = Len(rows)
      /\ rows'[i] = r /\ \A j \in DOMAIN rows : j # i => rows'[j] = rows[j]
  <2>1. rows[i].content = "altered" => r.content = "altered"
    BY <1>3
  <2>2. rows[i].gone => r.gone
    BY <1>4
  <2>3. Ends(r.hash) \in {0, i}
    BY <1>2, <1>3, <1>4 DEF TableInv
  <2> QED
    BY <1>1, <1>2, <1>3, <1>4, <2>1, <2>2, <2>3, RowWritten
<1>6. \A d : Shows(d)
  BY <1>1 DEF Shows
<1>7. /\ JobInv' /\ SignedInv' /\ CalmInv' /\ calm' \subseteq A!Days
      /\ job' \in [pc : {"idle", "tip", "rows"}, day : Nat, prev : Hashes, batch : Batches, calm : BOOLEAN]
  BY <1>1, <1>3, <1>5, <1>6, TouchedKept
<1>8. FillInv'
  BY <1>1, <1>2, <1>5 DEF FillInv
<1>9. /\ writer'[w].pc = "idle" /\ writer'[w].row = 0 /\ \A v \in Writers : v # w => writer'[v] = writer[v]
      /\ writer' \in [Writers -> [pc : {"idle", "open", "linking", "playing"}, row : Nat, tip : Hashes]]
  <2>1. writer'[w] = A!Idle
    BY <1>1, <1>2, IdleWriter, WriterMoves
  <2> QED
    BY <1>1, <1>2, <2>1, IdleWriter, WriterMoves
<1>10. ChainType'
  BY <1>1, <1>2, <1>5, <1>7, <1>9 DEF ChainType
<1>11. \A v \in Writers : v # w /\ writer[v].pc # "idle" => writer[v].row # i
  BY <1>2 DEF WriterInv, i
<1>12. WriterInv'
  <2>1. 0 \notin DOMAIN rows
    BY <1>2, ChainRows
  <2>2. \A v \in Writers : writer'[v].pc # "idle" =>
           v # w /\ writer[v].pc # "idle" /\ writer'[v] = writer[v]
    BY <1>9
  <2>3. \A v \in Writers : writer'[v].pc # "idle" =>
           writer'[v].row \in DOMAIN rows' /\ rows'[writer'[v].row].content = "open"
    BY <1>2, <1>5, <1>11, <2>2 DEF WriterInv
  <2>4. \A v \in Writers : writer'[v].pc = "idle" => writer'[v].row = 0
    BY <1>2, <1>9 DEF WriterInv
  <2>5. \A u, v \in Writers : writer'[u].pc # "idle" /\ writer'[v].row = writer'[u].row => v = u
    <3> SUFFICES ASSUME NEW u \in Writers, NEW v \in Writers, writer'[u].pc # "idle", writer'[v].row = writer'[u].row
                 PROVE  v = u
      OBVIOUS
    <3>1. writer'[u].row # 0
      BY <1>5, <2>1, <2>3
    <3>2. v # w
      BY <1>9, <3>1
    <3> QED
      BY <1>2, <1>9, <2>2, <3>2 DEF WriterInv
  <2> QED
    BY <2>3, <2>4, <2>5 DEF WriterInv
<1>13. LineInv'
  <2>1. stream' = "wallet_call" => \A v \in Writers : writer'[v].pc # "playing"
    BY <1>1, <1>2, <1>9 DEF LineInv
  <2>2. ASSUME ~disturbed', NEW v \in Writers PROVE writer'[v].pc = "idle"
    <3>1. ~disturbed /\ i = Len(rows)
      BY <1>1, <1>2, <2>2 DEF LineInv, i
    <3>2. v # w => writer[v].pc = "idle"
      BY <1>2, <1>11, <3>1 DEF LineInv
    <3> QED
      BY <1>9, <3>2
  <2>3. A!OneAtATimeIsLinear'
    <3>1. A!OneAtATimeIsLinear
      BY <1>2 DEF LineInv, A!OneAtATimeIsLinear
    <3>2. \A j \in DOMAIN rows : rows'[j].prev = rows[j].prev /\ rows'[j].hash = rows[j].hash
      BY <1>4, <1>5
    <3>3. DOMAIN rows' \ DOMAIN rows = {}
      BY <1>5
    <3> QED
      BY <1>1, <1>2, <1>5, <3>1, <3>2, <3>3, LineKept
  <2> QED
    BY <2>1, <2>2, <2>3 DEF LineInv
<1> QED
  BY <1>5, <1>7, <1>8, <1>10, <1>12, <1>13 DEF ChainInv

LEMMA AlterKeeps == ASSUME ChainInv, NEW i \in DOMAIN rows, A!Alter(i) PROVE ChainInv'
<1>1. /\ i \in A!Live /\ rows[i].content = "final" /\ (\A w \in Writers : writer[w].row # i)
      /\ altered' = altered \cup {rows[i].day} /\ A!Touched(i)
      /\ UNCHANGED <<stream, writer, today, fill, anchor, disturbed>>
      /\ rows' \in {[rows EXCEPT ![i].content = "altered"], [rows EXCEPT ![i].gone = TRUE]}
  BY DEF A!Alter
<1>2. /\ ChainType /\ TableInv /\ WriterInv /\ FillInv /\ LineInv /\ rows[i] \in ChainRow
      /\ rows[i].day \in 1..today /\ today \in 1..MaxDays
  <2>1. ChainType /\ TableInv /\ WriterInv /\ FillInv /\ LineInv
    BY DEF ChainInv
  <2>2. rows[i] \in ChainRow
    BY <2>1, ChainRows
  <2> QED
    BY <2>1, <2>2 DEF ChainType, TableInv
<1>3. PICK r \in ChainRow : /\ rows' = [rows EXCEPT ![i] = r] /\ r.day = rows[i].day /\ r.prev = rows[i].prev
                            /\ r.hash = rows[i].hash /\ (rows[i].gone => r.gone) /\ (r.content = "altered" \/ r.gone)
  <2>1. CASE rows' = [rows EXCEPT ![i].content = "altered"]
    <3> DEFINE r == [rows[i] EXCEPT !.content = "altered"]
    <3>1. r \in ChainRow /\ r.day = rows[i].day /\ r.content = "altered" /\ r.prev = rows[i].prev
          /\ r.hash = rows[i].hash /\ r.gone = rows[i].gone
      BY <1>2, ContentFields DEF Contents
    <3>2. rows' = [rows EXCEPT ![i] = r]
      BY <2>1
    <3> HIDE DEF r
    <3> QED
      BY <3>1, <3>2
  <2>2. CASE rows' = [rows EXCEPT ![i].gone = TRUE]
    <3> DEFINE r == [rows[i] EXCEPT !.gone = TRUE]
    <3>1. r \in ChainRow /\ r.day = rows[i].day /\ r.prev = rows[i].prev /\ r.hash = rows[i].hash /\ r.gone
      BY <1>2 DEF ChainRow
    <3>2. rows' = [rows EXCEPT ![i] = r]
      BY <2>2
    <3> HIDE DEF r
    <3> QED
      BY <3>1, <3>2
  <2> QED
    BY <1>1, <2>1, <2>2
<1>4. /\ Keeps /\ TableInv' /\ rows' \in Seq(ChainRow) /\ DOMAIN rows' = DOMAIN rows /\ Len(rows') = Len(rows)
      /\ rows'[i] = r /\ \A j \in DOMAIN rows : j # i => rows'[j] = rows[j]
  <2>1. rows[i].content = "altered" => r.content = "altered"
    BY <1>1
  <2>2. Ends(r.hash) \in {0, i}
    BY <1>2, <1>3 DEF TableInv
  <2> QED
    BY <1>1, <1>2, <1>3, <2>1, <2>2, RowWritten
<1>5. \A d : Shows(d)
  <2> SUFFICES ASSUME NEW d, d \in altered', d \notin altered
               PROVE  \E j \in A!OfDay(d) : \/ rows'[j].gone
                                            \/ rows'[j].content = "altered" /\ rows[j].content # "altered"
    BY DEF Shows
  <2>1. d = rows[i].day /\ i \in A!OfDay(d)
    BY <1>1 DEF A!OfDay
  <2>2. rows'[i].gone \/ (rows'[i].content = "altered" /\ rows[i].content # "altered")
    BY <1>1, <1>3, <1>4
  <2> QED
    BY <2>1, <2>2
<1>6. /\ JobInv' /\ SignedInv' /\ CalmInv' /\ calm' \subseteq A!Days
      /\ job' \in [pc : {"idle", "tip", "rows"}, day : Nat, prev : Hashes, batch : Batches, calm : BOOLEAN]
  BY <1>1, <1>4, <1>5, TouchedKept
<1>7. FillInv'
  BY <1>1, <1>2, <1>4 DEF FillInv
<1>8. ChainType'
  <2>1. altered' \subseteq A!Days
    <3>1. altered \subseteq A!Days
      BY <1>2 DEF ChainType
    <3>2. rows[i].day \in A!Days
      BY <1>2, ChainAssumption DEF A!Days
    <3> QED
      BY <1>1, <3>1, <3>2
  <2> QED
    BY <1>1, <1>2, <1>4, <1>6, <2>1 DEF ChainType
<1>9. \A w \in Writers : writer[w].pc # "idle" => writer[w].row \in DOMAIN rows /\ rows'[writer[w].row] = rows[writer[w].row]
  BY <1>1, <1>2, <1>4 DEF WriterInv
<1>10. WriterInv'
  BY <1>1, <1>2, <1>4, <1>9 DEF WriterInv
<1>11. LineInv'
  <2>1. A!OneAtATimeIsLinear' /\ (~disturbed' /\ NoneGone' => NoneGone /\ A!LatestTip' = A!LatestTip)
    <3>1. A!OneAtATimeIsLinear
      BY <1>2 DEF LineInv, A!OneAtATimeIsLinear
    <3>2. \A j \in DOMAIN rows : rows'[j].prev = rows[j].prev /\ rows'[j].hash = rows[j].hash
      BY <1>3, <1>4
    <3>3. DOMAIN rows' \ DOMAIN rows = {}
      BY <1>4
    <3> QED
      BY <1>1, <1>2, <1>4, <3>1, <3>2, <3>3, LineKept
  <2>2. stream' = "wallet_call" => \A w \in Writers : writer'[w].pc # "playing"
    BY <1>1, <1>2 DEF LineInv
  <2>3. ASSUME ~disturbed', NEW w \in Writers
        PROVE  /\ writer'[w].pc # "idle" => writer'[w].row = Len(rows')
               /\ writer'[w].pc \in {"open", "linking"} => rows'[writer'[w].row].hash = <<>>
               /\ writer'[w].pc = "linking" /\ NoneGone' => writer'[w].tip = A!LatestTip'
    BY <1>1, <1>2, <1>4, <1>9, <2>1, <2>3 DEF LineInv
  <2> QED
    BY <2>1, <2>2, <2>3 DEF LineInv
<1> QED
  BY <1>4, <1>6, <1>7, <1>8, <1>10, <1>11 DEF ChainInv

LEMMA BackfillStartsKeeps == ASSUME ChainInv, A!BackfillStarts PROVE ChainInv'
<1>1. /\ rows' = rows /\ UNCHANGED <<stream, writer, today, job, anchor, disturbed, calm, altered>>
      /\ fill' = [A!NoFill EXCEPT !.pc = "batch", !.prev = A!LatestTip]
  BY DEF A!BackfillStarts
<1>2. ChainType /\ WriterInv /\ FillInv /\ LineInv /\ today \in Nat
  BY ChainAssumption DEF ChainInv, ChainType
<1>3. Keeps /\ TableInv' /\ JobInv' /\ SignedInv' /\ CalmInv'
  BY <1>1, <1>2, ChainStays
<1>4. fill' \in [pc : {"idle", "batch"}, prev : Hashes, batch : Batches] /\ DOMAIN fill'.batch = {}
  <2>1. A!LatestTip \in Hashes
    BY <1>2, TipRow DEF A!LatestTip, A!Hashed, A!Live
  <2>2. fill' = [pc |-> "batch", prev |-> A!LatestTip, batch |-> <<>>]
    BY <1>1 DEF A!NoFill
  <2> QED
    BY <2>1, <2>2, NoBatch
<1>5. ChainType'
  BY <1>1, <1>2, <1>4 DEF ChainType
<1>6. WriterInv' /\ FillInv' /\ LineInv'
  BY <1>1, <1>2, <1>4, LineStays DEF WriterInv, FillInv
<1> QED
  BY <1>3, <1>5, <1>6 DEF ChainInv

LEMMA BackfillReadsKeeps == ASSUME ChainInv, A!BackfillReads PROVE ChainInv'
<1>1. /\ rows' = rows /\ UNCHANGED <<stream, writer, today, job, anchor, disturbed, calm, altered>>
      /\ fill' = IF A!Hashed = A!Live THEN A!NoFill ELSE [fill EXCEPT !.batch = A!Snapshot(A!Live \ A!Hashed)]
  BY DEF A!BackfillReads
<1>2. ChainType /\ WriterInv /\ FillInv /\ LineInv /\ today \in Nat
  BY ChainAssumption DEF ChainInv, ChainType
<1>3. Keeps /\ TableInv' /\ JobInv' /\ SignedInv' /\ CalmInv'
  BY <1>1, <1>2, ChainStays
<1>4. fill' \in [pc : {"idle", "batch"}, prev : Hashes, batch : Batches] /\ DOMAIN fill'.batch \subseteq DOMAIN rows
  <2>1. CASE A!Hashed = A!Live
    <3>1. fill' = [pc |-> "idle", prev |-> <<>>, batch |-> <<>>]
      BY <1>1, <2>1 DEF A!NoFill, A!Null
    <3> QED
      BY <3>1, NoBatch, EmptyHash
  <2>2. CASE A!Hashed # A!Live
    <3> DEFINE S == A!Live \ A!Hashed
               b == A!Snapshot(S)
    <3>1. S \subseteq DOMAIN rows
      BY DEF A!Live
    <3>2. fill' = [fill EXCEPT !.batch = b]
      BY <1>1, <2>2
    <3> HIDE DEF S
    <3>3. b \in Batches /\ DOMAIN b = S
      BY <1>2, <3>1, SnapshotIs
    <3> HIDE DEF b
    <3>4. fill \in [pc : {"idle", "batch"}, prev : Hashes, batch : Batches]
      BY <1>2 DEF ChainType
    <3>5. fill'.batch = b /\ fill' \in [pc : {"idle", "batch"}, prev : Hashes, batch : Batches]
      BY <3>2, <3>3, <3>4
    <3> QED
      BY <3>1, <3>3, <3>5
  <2> QED
    BY <2>1, <2>2
<1>5. ChainType'
  BY <1>1, <1>2, <1>4 DEF ChainType
<1>6. FillInv'
  BY <1>1, <1>4 DEF FillInv
<1>7. WriterInv' /\ LineInv'
  BY <1>1, <1>2, LineStays DEF WriterInv
<1> QED
  BY <1>3, <1>5, <1>6, <1>7 DEF ChainInv

\* A row is linked anew, its content as it was.
Relinks(i, p, x) == rows' = [rows EXCEPT ![i] = Relinked(@, p, A!hashRow(p, i, x))]

LEMMA RowRelinked ==
  ASSUME ChainType, TableInv, WriterInv, FillInv, NEW i \in DOMAIN rows, NEW p \in Hashes, NEW x \in Contents,
         Relinks(i, p, x),
         today' = today, writer' = writer
  PROVE  /\ Keeps /\ TableInv' /\ WriterInv' /\ rows' \in Seq(ChainRow) /\ DOMAIN rows' = DOMAIN rows
         /\ Len(rows') = Len(rows) /\ A!hashRow(p, i, x) \in Hashes
         /\ rows'[i].hash = A!hashRow(p, i, x) /\ rows'[i].prev = p
         /\ \A j \in DOMAIN rows : j # i => rows'[j] = rows[j]
         /\ \A j \in DOMAIN rows : rows'[j].content = rows[j].content /\ rows'[j].gone = rows[j].gone
<1> DEFINE h == A!hashRow(p, i, x)
           r == Relinked(rows[i], p, h)
<1>1. i \in Nat /\ rows[i] \in ChainRow
  BY ChainRows
<1>2. h \in Hashes /\ Ends(h) = i
  BY <1>1, HashGrows
<1>3. rows' = [rows EXCEPT ![i] = r]
  BY DEF Relinks
<1> HIDE DEF h
<1>4. /\ r \in ChainRow /\ r.day = rows[i].day /\ r.content = rows[i].content /\ r.prev = p /\ r.hash = h
      /\ r.gone = rows[i].gone
  BY <1>1, <1>2, RowFields
<1> HIDE DEF r
<1>5. /\ Keeps /\ TableInv' /\ rows' \in Seq(ChainRow) /\ DOMAIN rows' = DOMAIN rows /\ Len(rows') = Len(rows)
      /\ rows'[i] = r /\ \A j \in DOMAIN rows : j # i => rows'[j] = rows[j]
  <2>1. rows[i].content = "altered" => r.content = "altered"
    BY <1>4
  <2>2. rows[i].gone => r.gone
    BY <1>4
  <2> QED
    BY <1>2, <1>3, <1>4, <2>1, <2>2, RowWritten
<1>6. \A j \in DOMAIN rows : rows'[j].content = rows[j].content /\ rows'[j].gone = rows[j].gone
  BY <1>4, <1>5
<1>7. WriterInv'
  BY <1>5, <1>6 DEF WriterInv
<1> QED
  BY <1>2, <1>4, <1>5, <1>6, <1>7 DEF h

LEMMA BackfillRowKeeps == ASSUME ChainInv, A!BackfillRow PROVE ChainInv'
<1> DEFINE i == A!First(fill.batch)
           x == fill.batch[i].content
           p == fill.prev
<1>1. /\ DOMAIN fill.batch # {} /\ rows' = [rows EXCEPT ![i] = [@ EXCEPT !.prev = p, !.hash = A!hashRow(p, i, x)]]
      /\ fill' = [fill EXCEPT !.prev = A!hashRow(p, i, x), !.batch = A!Rest(fill.batch)]
      /\ disturbed' = TRUE /\ A!Touched(i) /\ UNCHANGED <<stream, writer, today, anchor, altered>>
  BY DEF A!BackfillRow
<1>2. ChainType /\ TableInv /\ WriterInv /\ FillInv /\ LineInv
  BY DEF ChainInv
<1>3. fill \in [pc : {"idle", "batch"}, prev : Hashes, batch : Batches] /\ fill.batch \in Batches /\ p \in Hashes
  BY <1>2 DEF ChainType
<1>4. i \in DOMAIN fill.batch /\ x \in Contents /\ DOMAIN A!Rest(fill.batch) \subseteq DOMAIN fill.batch
  <2>1. DOMAIN fill.batch \subseteq Nat
    BY <1>3, BatchRows
  <2>2. i \in DOMAIN fill.batch /\ DOMAIN A!Rest(fill.batch) = DOMAIN fill.batch \ {i}
    BY <1>1, <2>1, FirstRow
  <2> QED
    BY <1>3, <2>2, BatchRows
<1>5. i \in DOMAIN rows
  BY <1>2, <1>4 DEF FillInv
<1> HIDE DEF i, x, p
<1>6. /\ Keeps /\ TableInv' /\ WriterInv' /\ rows' \in Seq(ChainRow) /\ DOMAIN rows' = DOMAIN rows
      /\ A!hashRow(p, i, x) \in Hashes /\ \A j \in DOMAIN rows : j # i => rows'[j] = rows[j]
  <2>1. Relinks(i, p, x)
    BY <1>1 DEF Relinks, Relinked
  <2>2. today' = today /\ writer' = writer
    BY <1>1
  <2> QED
    BY <1>2, <1>3, <1>4, <1>5, <2>1, <2>2, RowRelinked
<1>7. \A d : Shows(d)
  BY <1>1 DEF Shows
<1>8. /\ JobInv' /\ SignedInv' /\ CalmInv' /\ calm' \subseteq A!Days
      /\ job' \in [pc : {"idle", "tip", "rows"}, day : Nat, prev : Hashes, batch : Batches, calm : BOOLEAN]
  BY <1>1, <1>5, <1>6, <1>7, TouchedKept
<1>9. /\ fill' \in [pc : {"idle", "batch"}, prev : Hashes, batch : Batches]
      /\ fill'.batch = A!Rest(fill.batch)
  <2> DEFINE b == A!Rest(fill.batch)
             h == A!hashRow(p, i, x)
  <2>1. b \in Batches
    BY <1>3, RestIsBatch
  <2>2. fill' = [fill EXCEPT !.prev = h, !.batch = b] /\ h \in Hashes
    BY <1>1, <1>6
  <2> HIDE DEF b, h
  <2>3. fill'.batch = b /\ fill' \in [pc : {"idle", "batch"}, prev : Hashes, batch : Batches]
    BY <1>3, <2>1, <2>2
  <2> QED
    BY <2>3 DEF b
<1>10. FillInv'
  BY <1>2, <1>4, <1>6, <1>9 DEF FillInv
<1>11. ChainType'
  BY <1>1, <1>2, <1>6, <1>8, <1>9 DEF ChainType
<1>12. LineInv'
  BY <1>1, <1>2, DisturbedLine DEF LineInv
<1> QED
  BY <1>6, <1>8, <1>10, <1>11, <1>12 DEF ChainInv

\* The hash before day d is of a row before those of day d.
LEMMA StartPrecedes ==
  ASSUME ChainType, TableInv, NEW d \in Nat, NEW S, S \subseteq A!BeforeDay(d)
  PROVE  A!HashOfLast(S) \in Hashes /\ Precedes(A!HashOfLast(S), d)
<1>1. S \subseteq DOMAIN rows /\ DOMAIN rows = 1..Len(rows) /\ Len(rows) \in Nat
  BY ChainRows DEF A!BeforeDay, A!Live
<1>2. A!HashOfLast(S) \in Hashes /\ (S # {} => \E j \in S : A!HashOfLast(S) = rows[j].hash)
  BY <1>1, TipRow
<1>3. CASE S = {}
  <2>1. Ends(A!HashOfLast(S)) = 0
    BY <1>3, EmptyHash DEF A!HashOfLast, A!Null
  <2>2. \A i \in DOMAIN rows : 0 < i
    BY <1>1
  <2> QED
    BY <1>2, <2>1, <2>2 DEF Precedes
<1>4. CASE S # {}
  <2>1. PICK j \in S : A!HashOfLast(S) = rows[j].hash
    BY <1>2, <1>4
  <2>2. j \in DOMAIN rows /\ rows[j].day < d /\ Ends(rows[j].hash) \in {0, j} /\ rows[j].day \in Nat
    BY <1>1, ChainRows DEF A!BeforeDay, TableInv
  <2>3. ASSUME NEW i \in DOMAIN rows, rows[i].day = d PROVE Ends(rows[j].hash) < i
    <3>1. i \in Nat /\ j \in Nat /\ 0 < i
      BY <1>1, <2>2
    <3>2. i # j /\ ~(i < j)
      <4>1. i < j => d <= rows[j].day
        BY <2>2, <2>3 DEF TableInv
      <4> QED
        BY <2>2, <2>3, <4>1
    <3> QED
      BY <2>2, <3>1, <3>2
  <2> QED
    BY <1>2, <2>1, <2>3 DEF Precedes
<1> QED
  BY <1>3, <1>4

\* A day is as its rows are.
LEMMA DayIsItsRows ==
  ASSUME rows' = rows, NEW d, NEW s
  PROVE  /\ A!OfDay(d)' = A!OfDay(d) /\ StartOf(d)' = StartOf(d) /\ ContentsOf(d)' = ContentsOf(d)
         /\ Precedes(s, d)' <=> Precedes(s, d)
<1>1. A!Live' = A!Live
  BY DEF A!Live
<1>2. A!OfDay(d)' = A!OfDay(d) /\ A!BeforeDay(d)' = A!BeforeDay(d)
  BY <1>1 DEF A!OfDay, A!BeforeDay
<1>3. StartOf(d)' = StartOf(d)
  BY <1>2 DEF StartOf, A!HashOfLast
<1>4. ContentsOf(d)' = ContentsOf(d)
  BY <1>2 DEF ContentsOf
<1>5. Precedes(s, d)' <=> Precedes(s, d)
  BY DEF Precedes
<1> QED
  BY <1>2, <1>3, <1>4, <1>5

LEMMA AnchorTipKeeps == ASSUME ChainInv, A!AnchorTip PROVE ChainInv'
<1> PICK d : d = today - 1
  OBVIOUS
<1>1. /\ today > 1 /\ job' = [pc |-> "tip", day |-> d, prev |-> StartOf(d), batch |-> <<>>, calm |-> TRUE]
      /\ UNCHANGED <<stream, rows, writer, today, fill, anchor, disturbed, calm, altered>>
  BY DEF A!AnchorTip, StartOf
<1>2. ChainType /\ TableInv /\ WriterInv /\ FillInv /\ SignedInv /\ CalmInv /\ LineInv
  BY DEF ChainInv
<1>3. today \in 1..MaxDays /\ today \in Nat /\ today <= today
  BY <1>2, ChainAssumption DEF ChainType
<1>4. d \in Nat /\ d \in A!Days /\ d < today
  BY <1>1, <1>3, ChainAssumption DEF A!Days
<1>5. Keeps /\ TableInv'
  BY <1>1, <1>2, <1>3, RowsSame
<1>6. SignedInv'
  BY <1>1, <1>2, <1>3, <1>5, SignedKept DEF Shows
<1>7. CalmInv'
  BY <1>1, <1>2, <1>3, <1>5, CalmKept
<1>8. StartOf(d) \in Hashes /\ Precedes(StartOf(d), d)
  BY <1>2, <1>4, StartPrecedes DEF StartOf
<1>9. /\ job' \in [pc : {"idle", "tip", "rows"}, day : Nat, prev : Hashes, batch : Batches, calm : BOOLEAN]
      /\ job'.pc = "tip" /\ job'.day = d /\ job'.prev = StartOf(d) /\ job'.calm
  <2> DEFINE s == StartOf(d)
             b == <<>>
  <2>1. s \in Hashes /\ d \in Nat /\ b \in Batches
    BY <1>4, <1>8, NoBatch
  <2>2. job' = [pc |-> "tip", day |-> d, prev |-> s, batch |-> b, calm |-> TRUE]
    BY <1>1
  <2> HIDE DEF s, b
  <2>3. /\ job' \in [pc : {"idle", "tip", "rows"}, day : Nat, prev : Hashes, batch : Batches, calm : BOOLEAN]
        /\ job'.pc = "tip" /\ job'.day = d /\ job'.prev = s /\ job'.calm
    BY <2>1, <2>2
  <2> QED
    BY <2>3 DEF s
<1>10. JobInv'
  <2> PICK s : s = StartOf(d)
    OBVIOUS
  <2>1. Precedes(s, d)' /\ s = StartOf(d)'
    BY <1>1, <1>8, DayIsItsRows
  <2>2. Precedes(job.prev, job.day)' /\ job'.prev = StartOf(job.day)'
    BY <1>9, <2>1 DEF Precedes, StartOf, A!BeforeDay
  <2> QED
    BY <1>1, <1>4, <1>9, <2>2 DEF JobInv
<1>11. ChainType'
  BY <1>1, <1>2, <1>9 DEF ChainType
<1>12. WriterInv' /\ FillInv' /\ LineInv'
  BY <1>1, <1>2, LineStays DEF WriterInv, FillInv
<1> QED
  BY <1>5, <1>6, <1>7, <1>10, <1>11, <1>12 DEF ChainInv

LEMMA NoJobIs ==
  /\ A!NoJob \in [pc : {"idle", "tip", "rows"}, day : Nat, prev : Hashes, batch : Batches, calm : BOOLEAN]
  /\ A!NoJob.pc = "idle" /\ A!NoJob.day = 0
<1> DEFINE b == <<>>
<1>1. b \in Batches /\ b \in Hashes
  BY NoBatch, EmptyHash
<1>2. A!NoJob = [pc |-> "idle", day |-> 0, prev |-> b, batch |-> b, calm |-> FALSE]
  BY DEF A!NoJob, A!Null
<1> HIDE DEF b
<1> QED
  BY <1>1, <1>2

\* The job ends.
LEMMA NoJobInv == ASSUME job' = A!NoJob, today' \in Nat, 0 < today' PROVE JobInv'
<1>1. job'.pc = "idle" /\ job'.day = 0
  BY NoJobIs
<1> QED
  BY <1>1 DEF JobInv

LEMMA AnchorFailsKeeps == ASSUME ChainInv, A!AnchorFails PROVE ChainInv'
<1>1. job' = A!NoJob /\ UNCHANGED <<stream, rows, writer, today, fill, anchor, disturbed, calm, altered>>
  BY DEF A!AnchorFails
<1>2. ChainType /\ TableInv /\ WriterInv /\ FillInv /\ SignedInv /\ CalmInv /\ LineInv
  BY DEF ChainInv
<1>3. today \in Nat /\ today <= today /\ 0 < today
  BY <1>2, ChainAssumption DEF ChainType
<1>4. Keeps /\ TableInv'
  BY <1>1, <1>2, <1>3, RowsSame
<1>5. SignedInv'
  BY <1>1, <1>2, <1>3, <1>4, SignedKept DEF Shows
<1>6. CalmInv'
  BY <1>1, <1>2, <1>3, <1>4, CalmKept
<1>7. JobInv'
  BY <1>1, <1>3, NoJobInv
<1>8. ChainType'
  BY <1>1, <1>2, NoJobIs DEF ChainType
<1>9. WriterInv' /\ FillInv' /\ LineInv'
  BY <1>1, <1>2, LineStays DEF WriterInv, FillInv
<1> QED
  BY <1>4, <1>5, <1>6, <1>7, <1>8, <1>9 DEF ChainInv

LEMMA AnchorRowsKeeps == ASSUME ChainInv, A!AnchorRows PROVE ChainInv'
<1> PICK d : d = job.day
  OBVIOUS
<1> PICK c : c = ContentsOf(d)
  OBVIOUS
<1> PICK b : b = A!Snapshot(A!OfDay(d))
  OBVIOUS
<1> PICK s : s = job.prev
  OBVIOUS
<1>1. /\ job.pc = "tip" /\ altered' = altered \ {d}
      /\ job' = IF A!OfDay(d) = {} THEN A!NoJob ELSE [job EXCEPT !.pc = "rows", !.batch = b]
      /\ UNCHANGED <<stream, rows, writer, today, fill, anchor, disturbed, calm>>
  BY DEF A!AnchorRows
<1>2. ChainType /\ TableInv /\ WriterInv /\ FillInv /\ JobInv /\ SignedInv /\ CalmInv /\ LineInv
  BY DEF ChainInv
<1>3. today \in Nat /\ today <= today /\ 0 < today
  BY <1>2, ChainAssumption DEF ChainType
<1>4. Keeps /\ TableInv'
  BY <1>1, <1>2, <1>3, RowsSame
<1>5. SignedInv'
  BY <1>1, <1>2, <1>3, <1>4, SignedKept DEF Shows
<1>6. CalmInv'
  BY <1>1, <1>2, <1>3, <1>4, CalmKept
<1>7. A!OfDay(d) \subseteq DOMAIN rows /\ DOMAIN rows = 1..Len(rows) /\ Len(rows) \in Nat
  BY <1>2, ChainRows DEF A!OfDay, A!Live
<1>8. /\ b \in Batches /\ DOMAIN b = A!OfDay(d)
      /\ \A i \in A!OfDay(d) : b[i].content = rows[i].content /\ b[i].prev = rows[i].prev /\ b[i].hash = rows[i].hash
  BY <1>2, <1>7, SnapshotIs
<1>9. job \in [pc : {"idle", "tip", "rows"}, day : Nat, prev : Hashes, batch : Batches, calm : BOOLEAN]
  BY <1>2 DEF ChainType
<1>10. CASE A!OfDay(d) = {}
  <2>1. job' = A!NoJob
    BY <1>1, <1>10
  <2>2. JobInv'
    BY <1>1, <1>3, <2>1, NoJobInv
  <2>3. job' \in [pc : {"idle", "tip", "rows"}, day : Nat, prev : Hashes, batch : Batches, calm : BOOLEAN]
    BY <2>1, NoJobIs
  <2> QED
    BY <1>1, <1>2, <1>4, <1>5, <1>6, <2>2, <2>3, LineStays DEF ChainInv, ChainType, WriterInv, FillInv
<1>11. CASE A!OfDay(d) # {}
  <2>1. /\ job' \in [pc : {"idle", "tip", "rows"}, day : Nat, prev : Hashes, batch : Batches, calm : BOOLEAN]
        /\ job'.pc = "rows" /\ job'.day = d /\ job'.prev = s /\ job'.batch = b /\ job'.calm = job.calm
    <3>1. job' = [job EXCEPT !.pc = "rows", !.batch = b]
      BY <1>1, <1>11
    <3> QED
      BY <1>8, <1>9, <3>1
  <2>2. c = [i \in A!OfDay(d) |-> rows[i].content] /\ DOMAIN c = A!OfDay(d)
    BY DEF ContentsOf
  <2>3. Precedes(s, d) /\ (job.calm => s = StartOf(d)) /\ s \in Hashes
    BY <1>1, <1>2, <1>9 DEF JobInv
  <2>4. \A i \in A!OfDay(d) : c[i] = rows[i].content /\ c[i] \in Contents /\ rows[i].day = d
    BY <1>2, <1>7, <2>2, ChainRows DEF A!OfDay
  <2>5. Evidence(d, s, c)'
    <3>1. Precedes(s, d)' /\ A!OfDay(d)' = A!OfDay(d) /\ d \notin altered'
      BY <1>1, <2>3, DayIsItsRows
    <3> QED
      BY <1>1, <1>7, <2>2, <2>3, <2>4, <3>1 DEF Evidence
  <2>6. DOMAIN b = {i \in DOMAIN c : 0 < i} /\ \A i \in DOMAIN b : b[i].content = c[i]
    BY <1>7, <1>8, <2>2, <2>4
  <2>7. s = Walk(s, c)[0]
    BY WalkIs
  <2>8. StartOf(d)' = StartOf(d) /\ ContentsOf(d)' = ContentsOf(d)
    BY <1>1, DayIsItsRows
  <2>9. \A i \in DOMAIN c : ~(i <= 0)
    BY <1>7, <2>2
  <2>10. Reading(s, c, 0)'
    <3>1. job'.calm => s = StartOf(d)' /\ c = ContentsOf(d)'
      BY <2>1, <2>3, <2>8
    <3>2. \A i \in DOMAIN b : b[i].hash = rows'[i].hash /\ b[i].prev = rows'[i].prev
      BY <1>1, <1>8
    <3>3. Evidence(job.day, s, c)' /\ StartOf(job.day)' = StartOf(d)' /\ ContentsOf(job.day)' = ContentsOf(d)'
      BY <2>1, <2>5 DEF Evidence, Precedes, StartOf, ContentsOf, A!OfDay, A!BeforeDay
    <3> QED
      BY <2>1, <2>6, <2>7, <2>9, <3>1, <3>2, <3>3 DEF Reading
  <2>11. JobInv'
    <3>1. d < today /\ d \in A!Days /\ (d \in calm => job.calm)
      BY <1>1, <1>2 DEF JobInv
    <3>2. 0 \in 0..Len(rows')
      BY <1>1, <1>7
    <3>3. \E t, e : \E k \in 0..Len(rows') : Reading(t, e, k)'
      BY <2>10, <3>2
    <3> QED
      BY <1>1, <2>1, <3>1, <3>3 DEF JobInv
  <2> QED
    BY <1>1, <1>2, <1>4, <1>5, <1>6, <2>1, <2>11, LineStays DEF ChainInv, ChainType, WriterInv, FillInv
<1> QED
  BY <1>10, <1>11

LEMMA AnchorSignsKeeps == ASSUME ChainInv, A!AnchorSigns PROVE ChainInv'
<1> PICK d : d = job.day
  OBVIOUS
<1> PICK n : n = A!Cardinality(A!OfDay(d))
  OBVIOUS
<1>1. /\ job.pc = "rows" /\ DOMAIN job.batch = {}
      /\ anchor' = [anchor EXCEPT ![d] = [tip |-> job.prev, count |-> n]]
      /\ calm' = (IF job.calm THEN calm \cup {d} ELSE calm \ {d})
      /\ job' = A!NoJob /\ UNCHANGED <<stream, rows, writer, today, fill, disturbed, altered>>
  <2>1. anchor' = [anchor EXCEPT ![job.day] = [tip |-> job.prev, count |-> A!Cardinality(A!OfDay(job.day))]]
    BY DEF A!AnchorSigns
  <2>2. /\ job.pc = "rows" /\ DOMAIN job.batch = {}
        /\ calm' = (IF job.calm THEN calm \cup {job.day} ELSE calm \ {job.day})
        /\ job' = A!NoJob /\ UNCHANGED <<stream, rows, writer, today, fill, disturbed, altered>>
    BY DEF A!AnchorSigns
  <2>3. A!OfDay(job.day) = A!OfDay(d)
    OBVIOUS
  <2> QED
    BY <2>1, <2>2, <2>3
<1>2. ChainType /\ TableInv /\ WriterInv /\ FillInv /\ JobInv /\ SignedInv /\ CalmInv /\ LineInv
  BY DEF ChainInv
<1>3. today \in Nat /\ today <= today /\ 0 < today
  BY <1>2, ChainAssumption DEF ChainType
<1>4. Keeps /\ TableInv'
  BY <1>1, <1>2, <1>3, RowsSame
<1>5. d \in A!Days /\ d < today /\ \E s, e : \E k \in 0..Len(rows) : Reading(s, e, k)
  BY <1>1, <1>2 DEF JobInv
<1>6. PICK s, c : \E k \in 0..Len(rows) : Reading(s, c, k)
  BY <1>5
<1>7. PICK k \in 0..Len(rows) : Reading(s, c, k)
  BY <1>6
<1>8. /\ Evidence(d, s, c) /\ (\A i \in DOMAIN c : ~(k < i)) /\ job.prev = Walk(s, c)[k] /\ DOMAIN c \subseteq DOMAIN rows
      /\ job.calm => s = StartOf(d) /\ c = ContentsOf(d) /\ \A i \in DOMAIN c : i <= k => Linked(i, Walk(s, c))
  <2>1. Evidence(d, s, c) /\ DOMAIN job.batch = {i \in DOMAIN c : k < i} /\ job.prev = Walk(s, c)[k]
    BY <1>7 DEF Reading
  <2>2. job.calm => s = StartOf(d) /\ c = ContentsOf(d) /\ \A i \in DOMAIN c : i <= k => Linked(i, Walk(s, c))
    BY <1>7 DEF Reading
  <2>3. DOMAIN c \subseteq DOMAIN rows
    BY <2>1 DEF Evidence
  <2>4. \A i \in DOMAIN c : ~(k < i)
    BY <1>1, <2>1
  <2> QED
    BY <2>1, <2>2, <2>3, <2>4
<1>9. DOMAIN rows = 1..Len(rows) /\ Len(rows) \in Nat
  BY <1>2, ChainRows
<1> PICK t : t = Walk(s, c)[k]
  OBVIOUS
<1>10. t = Walk(s, c)[Len(rows)]
  <2>1. k \in Nat /\ k <= Len(rows)
    BY <1>9
  <2>2. DOMAIN c \subseteq Nat
    BY <1>8, <1>9
  <2> QED
    BY <1>8, <1>9, <2>1, <2>2, WalkStays
<1>11. /\ anchor'[d].tip = t /\ anchor'[d].count = n /\ DOMAIN anchor' = A!Days
       /\ \A e \in A!Days : e # d => anchor'[e] = anchor[e]
  <2>1. DOMAIN anchor = A!Days
    BY <1>2 DEF ChainType
  <2> QED
    BY <1>1, <1>5, <1>8, <2>1
<1>12. \A e, u, v : Evidence(e, u, v) => Evidence(e, u, v)'
  <2> SUFFICES ASSUME NEW e, NEW u, NEW v, Evidence(e, u, v) PROVE Evidence(e, u, v)'
    OBVIOUS
  <2>1. Precedes(u, e)' /\ A!OfDay(e)' = A!OfDay(e)
    BY <1>1, DayIsItsRows DEF Evidence
  <2> QED
    BY <1>1, <2>1 DEF Evidence
<1>13. SignedInv'
  <2> SUFFICES ASSUME NEW e \in A!Days, anchor'[e] # A!Unsigned
               PROVE  e < today /\ \E u, v : Evidence(e, u, v)' /\ anchor'[e].tip = Walk(u, v)[Len(rows)]
    BY <1>1 DEF SignedInv
  <2>1. CASE e = d
    BY <1>5, <1>8, <1>10, <1>11, <1>12, <2>1
  <2>2. CASE e # d
    <3>1. anchor'[e] = anchor[e] /\ anchor[e] # A!Unsigned
      BY <1>11, <2>2
    <3>2. e < today /\ \E u, v : Evidence(e, u, v) /\ anchor[e].tip = Walk(u, v)[Len(rows)]
      BY <1>2, <3>1 DEF SignedInv
    <3> QED
      BY <1>12, <3>1, <3>2
  <2> QED
    BY <2>1, <2>2
<1>14. calm \subseteq A!Days /\ calm' \subseteq A!Days
  <2>1. calm \subseteq A!Days
    BY <1>2 DEF ChainType
  <2> QED
    BY <1>1, <1>5, <2>1
<1>15. CalmInv'
  <2> SUFFICES ASSUME NEW e \in calm'
               PROVE  /\ e < today /\ anchor'[e].count = A!Cardinality(A!OfDay(e)')
                      /\ anchor'[e].tip = Walk(StartOf(e)', ContentsOf(e)')[Len(rows)]
                      /\ \A i \in A!OfDay(e)' : Linked(i, Walk(StartOf(e), ContentsOf(e)))'
    BY <1>1 DEF CalmInv
  <2>1. A!OfDay(e)' = A!OfDay(e) /\ StartOf(e)' = StartOf(e) /\ ContentsOf(e)' = ContentsOf(e)
    BY <1>1, DayIsItsRows
  <2>2. \A i : Linked(i, Walk(StartOf(e), ContentsOf(e))) => Linked(i, Walk(StartOf(e), ContentsOf(e)))'
    BY <1>1, <2>1 DEF Linked
  <2>3. CASE e = d
    <3>1. job.calm
      BY <1>1, <2>3
    <3>2. s = StartOf(d) /\ c = ContentsOf(d) /\ \A i \in DOMAIN c : i <= k => Linked(i, Walk(s, c))
      BY <1>8, <3>1
    <3>3. DOMAIN c = A!OfDay(d)
      BY <3>2 DEF ContentsOf
    <3>4. \A i \in A!OfDay(d) : i <= k
      BY <1>8, <1>9, <3>3
    <3>5. \A i \in A!OfDay(e) : Linked(i, Walk(StartOf(e), ContentsOf(e)))
      BY <2>3, <3>2, <3>3, <3>4
    <3> QED
      BY <1>5, <1>10, <1>11, <2>1, <2>2, <2>3, <3>2, <3>5
  <2>4. CASE e # d
    <3>1. e \in calm /\ e \in A!Days /\ anchor'[e] = anchor[e]
      BY <1>1, <1>11, <1>14, <2>4
    <3>2. /\ e < today /\ anchor[e].count = A!Cardinality(A!OfDay(e))
          /\ anchor[e].tip = Walk(StartOf(e), ContentsOf(e))[Len(rows)]
          /\ \A i \in A!OfDay(e) : Linked(i, Walk(StartOf(e), ContentsOf(e)))
      BY <1>2, <3>1 DEF CalmInv
    <3> QED
      BY <2>1, <2>2, <3>1, <3>2
  <2> QED
    BY <2>3, <2>4
<1>16. JobInv'
  BY <1>1, <1>3, NoJobInv
<1>17. ChainType'
  BY <1>1, <1>2, <1>11, <1>14, NoJobIs DEF ChainType
<1>18. WriterInv' /\ FillInv' /\ LineInv'
  BY <1>1, <1>2, LineStays DEF WriterInv, FillInv
<1> QED
  BY <1>4, <1>13, <1>15, <1>16, <1>17, <1>18 DEF ChainInv

LEMMA StartKept ==
  ASSUME Keeps, NEW d \in Nat, d < today, today \in Nat,
         \A i \in DOMAIN rows : rows[i].day \in Nat /\ (rows[i].day < d => rows'[i] = rows[i])
  PROVE  StartOf(d)' = StartOf(d)
<1>1. A!BeforeDay(d)' = A!BeforeDay(d) /\ \A i \in A!BeforeDay(d) : rows'[i] = rows[i]
  <2>1. \A i \in DOMAIN rows' : rows'[i].day < d => i \in DOMAIN rows /\ rows[i].day < d /\ rows'[i] = rows[i]
    BY DEF Keeps
  <2>2. \A i \in DOMAIN rows : rows[i].day < d => i \in DOMAIN rows' /\ rows'[i] = rows[i]
    BY DEF Keeps
  <2> QED
    BY <2>1, <2>2 DEF A!BeforeDay, A!Live
<1>2. CASE A!BeforeDay(d) = {}
  BY <1>1, <1>2 DEF StartOf, A!HashOfLast
<1>3. CASE A!BeforeDay(d) # {}
  <2>1. A!BeforeDay(d) \subseteq 1..Len(rows)
    BY DEF A!BeforeDay, A!Live, Keeps
  <2>2. A!Max(A!BeforeDay(d)) \in A!BeforeDay(d)
    BY <1>3, <2>1, LastRow DEF Keeps
  <2>3. StartOf(d) = rows[A!Max(A!BeforeDay(d))].hash
    BY <1>3 DEF StartOf, A!HashOfLast
  <2>4. StartOf(d)' = rows'[A!Max(A!BeforeDay(d)')].hash
    BY <1>1, <1>3 DEF StartOf, A!HashOfLast
  <2> QED
    BY <1>1, <2>2, <2>3, <2>4
<1> QED
  BY <1>2, <1>3

LEMMA RelinkKeeps == ASSUME ChainInv, A!Relink PROVE ChainInv'
<1> PICK d : d = job.day
  OBVIOUS
<1> PICK b : b = job.batch
  OBVIOUS
<1> PICK i : i = A!First(b)
  OBVIOUS
<1> PICK p : p = job.prev
  OBVIOUS
<1> PICK h : h = A!hashRow(p, i, b[i].content)
  OBVIOUS
<1> PICK rest : rest = A!Rest(b)
  OBVIOUS
<1> DEFINE stale == b[i].hash # h \/ b[i].prev # p
<1>1. /\ job.pc = "rows" /\ DOMAIN b # {}
      /\ rows' = (IF stale THEN [rows EXCEPT ![i] = [@ EXCEPT !.prev = p, !.hash = h]] ELSE rows)
      /\ calm' = (IF stale THEN {e \in calm : e <= d} ELSE calm)
      /\ job' = [job EXCEPT !.prev = h, !.batch = rest]
      /\ UNCHANGED <<stream, writer, today, fill, anchor, altered>>
  BY DEF A!Relink
<1>2. disturbed' = (disturbed \/ stale)
  BY DEF A!Relink
<1> HIDE DEF stale
<1>3. ChainType /\ TableInv /\ WriterInv /\ FillInv /\ JobInv /\ SignedInv /\ CalmInv /\ LineInv
  BY DEF ChainInv
<1>4. today \in Nat /\ today <= today /\ DOMAIN rows = 1..Len(rows) /\ Len(rows) \in Nat
  BY <1>3, ChainAssumption, ChainRows DEF ChainType
<1>5. job \in [pc : {"idle", "tip", "rows"}, day : Nat, prev : Hashes, batch : Batches, calm : BOOLEAN]
      /\ b \in Batches /\ p \in Hashes /\ d \in Nat
  BY <1>3 DEF ChainType
<1>6. /\ d \in A!Days /\ d < today /\ (d \in calm => job.calm)
      /\ \E s, e : \E k \in 0..Len(rows) : Reading(s, e, k)
  BY <1>1, <1>3 DEF JobInv
<1>7. PICK s, c : \E k \in 0..Len(rows) : Reading(s, c, k)
  BY <1>6
<1>8. PICK k \in 0..Len(rows) : Reading(s, c, k)
  BY <1>7
<1>9. /\ Evidence(d, s, c) /\ DOMAIN b = {j \in DOMAIN c : k < j} /\ p = Walk(s, c)[k]
      /\ \A j \in DOMAIN b : b[j].content = c[j]
  BY <1>8 DEF Reading
<1> PICK w : w = Walk(s, c)
  OBVIOUS
<1>10. job.calm => /\ s = StartOf(d) /\ c = ContentsOf(d)
                   /\ \A j \in DOMAIN c : j <= k => Linked(j, w)
                   /\ \A j \in DOMAIN b : b[j].hash = rows[j].hash /\ b[j].prev = rows[j].prev
  BY <1>8 DEF Reading
<1>11. /\ DOMAIN c \subseteq DOMAIN rows /\ A!OfDay(d) \subseteq DOMAIN c
       /\ \A j \in DOMAIN c : c[j] \in Contents /\ rows[j].day = d
  BY <1>9 DEF Evidence
<1>12. /\ i \in DOMAIN b /\ (\A j \in DOMAIN b : i <= j) /\ DOMAIN rest = DOMAIN b \ {i}
       /\ \A j \in DOMAIN b \ {i} : rest[j] = b[j]
  <2>1. DOMAIN b \subseteq Nat
    BY <1>5, BatchRows
  <2> QED
    BY <1>1, <2>1, FirstRow
<1>13. i \in DOMAIN c /\ k < i /\ i \in DOMAIN rows /\ i \in Nat \ {0} /\ k \in Nat /\ i <= Len(rows) /\ rows[i].day = d
       /\ b[i].content = c[i] /\ b[i].content \in Contents
  BY <1>4, <1>9, <1>11, <1>12
<1>14. \A j \in DOMAIN c : (j <= k \/ j = i \/ i < j) /\ (j \in DOMAIN rest <=> i < j)
  <2> SUFFICES ASSUME NEW j \in DOMAIN c PROVE (j <= k \/ j = i \/ i < j) /\ (j \in DOMAIN rest <=> i < j)
    OBVIOUS
  <2>1. j \in Nat /\ (j \in DOMAIN b <=> k < j) /\ (j \in DOMAIN b => i <= j)
    BY <1>4, <1>9, <1>11, <1>12
  <2> QED
    BY <1>12, <1>13, <2>1
<1>15. p = w[i - 1] /\ h = w[i] /\ h \in Hashes
  <2>1. i - 1 \in Nat /\ k <= i - 1 /\ DOMAIN c \subseteq Nat
    BY <1>4, <1>11, <1>13
  <2>2. \A j \in DOMAIN c : ~(k < j /\ j <= i - 1)
    BY <1>13, <1>14, <2>1
  <2>3. Walk(s, c)[i - 1] = Walk(s, c)[k]
    BY <1>13, <2>1, <2>2, WalkStays
  <2>4. Walk(s, c)[i] = A!hashRow(Walk(s, c)[i - 1], i, c[i])
    BY <1>13, WalkIs
  <2>5. A!hashRow(p, i, b[i].content) \in Hashes
    BY <1>5, <1>13, HashGrows
  <2> QED
    BY <1>9, <1>13, <2>3, <2>4, <2>5
\* The table.
<1>16. /\ Keeps /\ TableInv' /\ WriterInv' /\ rows' \in Seq(ChainRow) /\ DOMAIN rows' = DOMAIN rows
       /\ Len(rows') = Len(rows)
       /\ stale => rows'[i].hash = h /\ rows'[i].prev = p
       /\ ~stale => rows' = rows
       /\ \A j \in DOMAIN rows : j # i => rows'[j] = rows[j]
       /\ \A j \in DOMAIN rows : rows'[j].content = rows[j].content /\ rows'[j].gone = rows[j].gone
  <2>1. CASE stale
    <3>1. rows' = [rows EXCEPT ![i] = [@ EXCEPT !.prev = p, !.hash = A!hashRow(p, i, b[i].content)]]
      BY <1>1, <2>1
    <3>2. /\ Keeps /\ TableInv' /\ WriterInv' /\ rows' \in Seq(ChainRow) /\ DOMAIN rows' = DOMAIN rows
          /\ Len(rows') = Len(rows)
          /\ rows'[i].hash = A!hashRow(p, i, b[i].content) /\ rows'[i].prev = p
          /\ \A j \in DOMAIN rows : j # i => rows'[j] = rows[j]
          /\ \A j \in DOMAIN rows : rows'[j].content = rows[j].content /\ rows'[j].gone = rows[j].gone
      <4> PICK x : x = b[i].content
        OBVIOUS
      <4>1. Relinks(i, p, x)
        BY <3>1 DEF Relinks, Relinked
      <4>2. x \in Contents /\ i \in DOMAIN rows /\ p \in Hashes
        BY <1>5, <1>13
      <4>3. today' = today /\ writer' = writer
        BY <1>1
      <4>4. /\ Keeps /\ TableInv' /\ WriterInv' /\ rows' \in Seq(ChainRow) /\ DOMAIN rows' = DOMAIN rows
            /\ Len(rows') = Len(rows)
            /\ rows'[i].hash = A!hashRow(p, i, x) /\ rows'[i].prev = p
            /\ \A j \in DOMAIN rows : j # i => rows'[j] = rows[j]
            /\ \A j \in DOMAIN rows : rows'[j].content = rows[j].content /\ rows'[j].gone = rows[j].gone
        BY <1>3, <4>1, <4>2, <4>3, RowRelinked
      <4> QED
        BY <4>4
    <3> QED
      BY <2>1, <3>2
  <2>2. CASE ~stale
    <3>1. rows' = rows
      BY <1>1, <2>2
    <3>2. Keeps /\ TableInv'
      BY <1>1, <1>3, <1>4, <3>1, RowsSame
    <3>3. WriterInv' /\ rows' \in Seq(ChainRow)
      BY <1>1, <1>3, <3>1 DEF WriterInv, ChainType
    <3> QED
      BY <2>2, <3>1, <3>2, <3>3
  <2> QED
    BY <2>1, <2>2
<1>17. \A e : Shows(e)
  BY <1>1 DEF Shows
<1>18. SignedInv'
  BY <1>1, <1>3, <1>4, <1>16, <1>17, SignedKept
\* A day that is calm has nothing to be linked anew.
<1>19. d \in calm => ~stale
  <2> SUFFICES ASSUME d \in calm, ~(b[i].hash = h /\ b[i].prev = p) PROVE FALSE
    BY DEF stale
  <2>1. /\ s = StartOf(d) /\ c = ContentsOf(d) /\ b[i].hash = rows[i].hash /\ b[i].prev = rows[i].prev
    BY <1>6, <1>10, <1>12
  <2>2. i \in A!OfDay(d)
    BY <1>13, <2>1 DEF ContentsOf
  <2>3. Linked(i, Walk(StartOf(d), ContentsOf(d)))
    BY <1>3, <2>2 DEF CalmInv
  <2>4. rows[i].hash = w[i] /\ rows[i].prev = w[i - 1]
    BY <2>1, <2>3 DEF Linked
  <2> QED
    BY <1>15, <2>1, <2>4
<1>20. calm \subseteq A!Days /\ calm \subseteq Nat
  <2>1. calm \subseteq A!Days
    BY <1>3 DEF ChainType
  <2> QED
    BY <2>1, ChainAssumption DEF A!Days
<1>21. CalmInv'
  <2>1. ASSUME NEW e \in calm' PROVE e \in calm /\ \A j \in DOMAIN rows : rows[j].day <= e => rows'[j] = rows[j]
    <3>1. CASE stale
      <4>1. e \in calm /\ e <= d /\ e # d /\ e \in Nat
        BY <1>1, <1>19, <1>20, <2>1, <3>1
      <4>2. \A j \in DOMAIN rows : rows[j].day <= e => j # i
        BY <1>5, <1>13, <4>1
      <4> QED
        BY <1>16, <4>1, <4>2
    <3>2. CASE ~stale
      BY <1>1, <1>16, <2>1, <3>2
    <3> QED
      BY <3>1, <3>2
  <2> QED
    BY <1>1, <1>3, <1>4, <1>16, <2>1, CalmKept
\* The job.
<1>22. /\ job' \in [pc : {"idle", "tip", "rows"}, day : Nat, prev : Hashes, batch : Batches, calm : BOOLEAN]
       /\ job'.pc = "rows" /\ job'.day = d /\ job'.prev = h /\ job'.batch = rest /\ job'.calm = job.calm
  <2>1. rest \in Batches
    BY <1>5, RestIsBatch
  <2> QED
    BY <1>1, <1>5, <1>15, <2>1
<1>23. Evidence(d, s, c)'
  <2>1. d # today /\ Keeps /\ Shows(d) /\ Evidence(d, s, c)
    BY <1>4, <1>5, <1>6, <1>9, <1>16, <1>17
  <2> QED
    BY <2>1, EvidenceKept
<1>24. StartOf(d)' = StartOf(d) /\ ContentsOf(d)' = ContentsOf(d)
  <2>1. \A j \in DOMAIN rows : rows[j].day \in Nat /\ (rows[j].day < d => rows'[j] = rows[j])
    <3> SUFFICES ASSUME NEW j \in DOMAIN rows PROVE rows[j].day \in Nat /\ (rows[j].day < d => rows'[j] = rows[j])
      OBVIOUS
    <3>1. rows[j].day \in Nat
      BY <1>3, ChainRows
    <3>2. rows[j].day < d => j # i
      BY <1>5, <1>13, <3>1
    <3> QED
      BY <1>16, <3>1, <3>2
  <2>2. StartOf(d)' = StartOf(d)
    BY <1>4, <1>5, <1>6, <1>16, <2>1, StartKept
  <2>3. A!OfDay(d)' = A!OfDay(d)
    <3>1. \A j \in DOMAIN rows : rows'[j].day = rows[j].day /\ rows'[j].gone = rows[j].gone
      BY <1>16 DEF Keeps
    <3> QED
      BY <1>16, <3>1 DEF A!OfDay, A!Live
  <2>4. ContentsOf(d)' = ContentsOf(d)
    <3>1. \A j \in A!OfDay(d) : rows'[j].content = rows[j].content
      BY <1>16 DEF A!OfDay, A!Live
    <3> QED
      BY <2>3, <3>1 DEF ContentsOf
  <2> QED
    BY <2>2, <2>4
<1>25. ASSUME job.calm
       PROVE  /\ s = StartOf(d)' /\ c = ContentsOf(d)' /\ \A j \in DOMAIN c : j <= i => Linked(j, w)'
              /\ \A j \in DOMAIN rest : rest[j].hash = rows'[j].hash /\ rest[j].prev = rows'[j].prev
  <2>1. s = StartOf(d)' /\ c = ContentsOf(d)'
    BY <1>10, <1>24, <1>25
  <2>2. ASSUME NEW j \in DOMAIN c, j <= i PROVE rows'[j].hash = w[j] /\ rows'[j].prev = w[j - 1]
    <3>1. CASE j = i
      <4>1. CASE stale
        BY <1>15, <1>16, <3>1, <4>1
      <4>2. CASE ~stale
        <5>1. b[i].hash = h /\ b[i].prev = p
          BY <4>2 DEF stale
        <5>2. b[i].hash = rows[i].hash /\ b[i].prev = rows[i].prev /\ rows' = rows
          BY <1>10, <1>12, <1>16, <1>25, <4>2
        <5> QED
          BY <1>15, <3>1, <5>1, <5>2
      <4> QED
        BY <4>1, <4>2
    <3>2. CASE j # i
      <4>1. j \in Nat /\ j <= k /\ j \in DOMAIN rows
        BY <1>4, <1>11, <1>13, <1>14, <2>2, <3>2
      <4>2. Linked(j, w) /\ rows'[j] = rows[j]
        BY <1>10, <1>16, <1>25, <3>2, <4>1
      <4> QED
        BY <4>2 DEF Linked
    <3> QED
      BY <3>1, <3>2
  <2>3. ASSUME NEW j \in DOMAIN rest PROVE rest[j].hash = rows'[j].hash /\ rest[j].prev = rows'[j].prev
    <3>1. j \in DOMAIN b /\ j # i /\ rest[j] = b[j] /\ j \in DOMAIN rows
      BY <1>9, <1>11, <1>12
    <3> QED
      BY <1>10, <1>16, <1>25, <3>1
  <2> QED
    BY <2>1, <2>2, <2>3 DEF Linked
<1>26. Reading(s, c, i)'
  <2>1. DOMAIN rest = {j \in DOMAIN c : i < j}
    BY <1>9, <1>12, <1>14
  <2>2. \A j \in DOMAIN rest : rest[j].content = c[j]
    BY <1>9, <1>12
  <2>3. /\ Evidence(job.day, s, c)' /\ StartOf(job.day)' = StartOf(d)' /\ ContentsOf(job.day)' = ContentsOf(d)'
    BY <1>22, <1>23 DEF Evidence, Precedes, StartOf, ContentsOf, A!OfDay, A!BeforeDay
  <2> QED
    BY <1>15, <1>22, <1>25, <2>1, <2>2, <2>3 DEF Reading
<1>27. JobInv'
  <2>1. i \in 0..Len(rows')
    BY <1>4, <1>13, <1>16
  <2>2. \E t, e : \E m \in 0..Len(rows') : Reading(t, e, m)'
    BY <1>26, <2>1
  <2>3. d \in calm' => d \in calm
    BY <1>1
  <2> QED
    BY <1>1, <1>6, <1>22, <2>2, <2>3 DEF JobInv
<1>28. ChainType'
  <2>1. disturbed' \in BOOLEAN
    BY <1>2
  <2>2. calm' \subseteq A!Days
    BY <1>1, <1>20
  <2> QED
    BY <1>1, <1>3, <1>16, <1>22, <2>1, <2>2 DEF ChainType
<1>29. FillInv'
  BY <1>1, <1>3, <1>16 DEF FillInv
<1>30. LineInv'
  <2>1. CASE stale
    <3>1. disturbed'
      BY <1>2, <2>1
    <3>2. stream = "wallet_call" => \A v \in Writers : writer'[v].pc # "playing"
      BY <1>1, <1>3 DEF LineInv
    <3> QED
      BY <1>1, <3>1, <3>2, DisturbedLine
  <2>2. CASE ~stale
    <3>1. disturbed' = disturbed
      <4>1. disturbed \in BOOLEAN
        BY <1>3 DEF ChainType
      <4> QED
        BY <1>2, <2>2, <4>1
    <3> QED
      BY <1>1, <1>3, <1>16, <2>2, <3>1, LineStays
  <2> QED
    BY <2>1, <2>2
<1> QED
  BY <1>16, <1>18, <1>21, <1>27, <1>28, <1>29, <1>30 DEF ChainInv

LEMMA ChainStarts == ASSUME A!Init PROVE ChainInv
<1>1. /\ stream \in {"wallet_call", "round"} /\ rows = <<>> /\ writer = [w \in Writers |-> A!Idle] /\ today = 1
      /\ job = A!NoJob /\ fill = A!NoFill /\ anchor = [d \in A!Days |-> A!Unsigned]
      /\ disturbed = FALSE /\ calm = {} /\ altered = {}
  BY DEF A!Init
<1>2. rows \in Seq(ChainRow) /\ DOMAIN rows = {} /\ Len(rows) = 0
  BY <1>1, EmptySeq
<1>3. today \in 1..MaxDays
  BY <1>1, ChainAssumption
<1>4. /\ writer \in [Writers -> [pc : {"idle", "open", "linking", "playing"}, row : Nat, tip : Hashes]]
      /\ \A w \in Writers : writer[w].pc = "idle" /\ writer[w].row = 0
  <2> DEFINE h == <<>>
             q == [pc |-> "idle", row |-> 0, tip |-> h]
  <2>1. h \in Hashes
    BY EmptyHash
  <2>2. writer = [w \in Writers |-> q]
    BY <1>1 DEF A!Idle, A!Null
  <2> HIDE DEF h
  <2>3. q \in [pc : {"idle", "open", "linking", "playing"}, row : Nat, tip : Hashes] /\ q.pc = "idle" /\ q.row = 0
    BY <2>1
  <2> HIDE DEF q
  <2> QED
    BY <2>2, <2>3
<1>5. fill \in [pc : {"idle", "batch"}, prev : Hashes, batch : Batches] /\ DOMAIN fill.batch = {}
  <2> DEFINE h == <<>>
  <2>1. h \in Hashes /\ h \in Batches /\ DOMAIN h = {}
    BY EmptyHash, NoBatch
  <2>2. fill = [pc |-> "idle", prev |-> h, batch |-> h]
    BY <1>1 DEF A!NoFill, A!Null
  <2> HIDE DEF h
  <2> QED
    BY <2>1, <2>2
<1>6. ChainType
  BY <1>1, <1>2, <1>3, <1>4, <1>5, NoJobIs DEF ChainType
<1>7. TableInv /\ FillInv
  BY <1>2, <1>5 DEF TableInv, FillInv
<1>8. WriterInv
  BY <1>4 DEF WriterInv
<1>9. JobInv
  BY <1>1, NoJobIs DEF JobInv
<1>10. SignedInv /\ CalmInv
  BY <1>1 DEF SignedInv, CalmInv
<1>11. LineInv
  <2>1. A!OneAtATimeIsLinear
    BY <1>2 DEF A!OneAtATimeIsLinear, A!Hashed, A!Live
  <2> QED
    BY <1>4, <2>1 DEF LineInv
<1> QED
  BY <1>6, <1>7, <1>8, <1>9, <1>10, <1>11 DEF ChainInv

LEMMA ChainStep == ASSUME ChainInv, A!Next PROVE ChainInv'
<1>1. ASSUME NEW w \in Writers,
             \/ A!RowCreated(w) \/ A!TipRead(w) \/ A!TipFails(w) \/ A!CallWritten(w)
             \/ A!RoundHashed(w) \/ A!RoundSettles(w) \/ A!WriteFails(w)
      PROVE  ChainInv'
  BY <1>1, RowCreatedKeeps, TipReadKeeps, TipFailsKeeps, CallWrittenKeeps, RoundHashedKeeps, RoundSettlesKeeps,
     WriteFailsKeeps
<1>2. ASSUME \/ A!NextDay \/ A!AnchorTip \/ A!AnchorRows \/ A!Relink \/ A!AnchorSigns \/ A!AnchorFails
             \/ A!BackfillStarts \/ A!BackfillReads \/ A!BackfillRow
      PROVE  ChainInv'
  BY <1>2, ChainDayKeeps, AnchorTipKeeps, AnchorRowsKeeps, RelinkKeeps, AnchorSignsKeeps, AnchorFailsKeeps,
     BackfillStartsKeeps, BackfillReadsKeeps, BackfillRowKeeps
<1>3. ASSUME NEW i \in DOMAIN rows, A!Alter(i) PROVE ChainInv'
  BY <1>3, AlterKeeps
<1> QED
  BY <1>1, <1>2, <1>3 DEF A!Next

\* What other parts of the books do leaves the chain alone.
LEMMA ChainRests == ASSUME ChainInv, UNCHANGED chainVars PROVE ChainInv'
<1>1. UNCHANGED <<stream, rows, writer, today, job, fill, anchor, disturbed, calm, altered>>
  BY DEF chainVars
<1>2. ChainType /\ TableInv /\ WriterInv /\ FillInv /\ JobInv /\ SignedInv /\ CalmInv /\ LineInv
  BY DEF ChainInv
<1>3. today \in Nat /\ today <= today
  BY <1>2, ChainAssumption DEF ChainType
<1>4. ChainType' /\ WriterInv' /\ FillInv' /\ LineInv'
  BY <1>1, <1>2, LineStays DEF ChainType, WriterInv, FillInv
<1>5. Keeps /\ TableInv'
  BY <1>1, <1>2, <1>3, RowsSame
<1>6. SignedInv' /\ CalmInv'
  BY <1>1, <1>2, <1>3, <1>5, SignedKept, CalmKept DEF Shows
<1>7. JobInv'
  <2>1. job' = job /\ job.calm \in BOOLEAN /\ (job.day \in calm' => job.day \in calm) /\ Shows(job.day)
    BY <1>1, <1>2 DEF ChainType, Shows
  <2>2. job'.pc = job.pc /\ job'.day = job.day /\ job'.prev = job.prev /\ job'.batch = job.batch /\ job'.calm = job.calm
    BY <2>1
  <2> QED
    BY <1>1, <1>2, <1>3, <1>5, <2>1, <2>2, JobKept
<1> QED
  BY <1>4, <1>5, <1>6, <1>7 DEF ChainInv

-----------------------------------------------------------------------------
(* What the replay of a day says.                                           *)

\* The replay is a walk over the day as it is, from the last hash before it.
LEMMA ReplayIs ==
  ASSUME ChainType, NEW d
  PROVE  \A i \in 0..Len(rows) : A!Replay(d)[i] = Walk(A!HashOfLast(A!BeforeDay(d) \cap A!Hashed), ContentsOf(d))[i]
<1> PICK n : n = Len(rows)
  OBVIOUS
<1> PICK t : t = A!HashOfLast(A!BeforeDay(d) \cap A!Hashed)
  OBVIOUS
<1> PICK c : c = ContentsOf(d)
  OBVIOUS
<1> PICK w : w = Walk(t, c)
  OBVIOUS
<1> DEFINE Step(f, i) == IF i = 0 THEN t
                         ELSE IF i \in A!OfDay(d) THEN A!hashRow(f[i - 1], i, rows[i].content) ELSE f[i - 1]
           P(f) == f = [i \in 0..n |-> Step(f, i)]
           r == A!Replay(d)
<1>1. n \in Nat
  BY ChainRows
<1>2. w[0] = t /\ \A i \in Nat \ {0} : w[i] = IF i \in DOMAIN c THEN A!hashRow(w[i - 1], i, c[i]) ELSE w[i - 1]
  BY WalkIs
<1>3. DOMAIN c = A!OfDay(d) /\ \A i \in A!OfDay(d) : c[i] = rows[i].content
  BY DEF ContentsOf
<1>4. \A i \in Nat : w[i] = Step(w, i)
  BY <1>2, <1>3
<1>5. r = CHOOSE f : P(f)
  BY DEF A!Replay
<1>6. \E f : P(f)
  <2> DEFINE f == [i \in 0..n |-> w[i]]
  <2>1. ASSUME NEW i \in 0..n PROVE Step(w, i) = Step(f, i)
    <3>1. i \in Nat /\ (i # 0 => i - 1 \in 0..n)
      BY <1>1
    <3>2. i # 0 => f[i - 1] = w[i - 1]
      BY <3>1
    <3> HIDE DEF f
    <3> QED
      BY <3>2
  <2>2. f = [i \in 0..n |-> Step(w, i)]
    <3>1. \A i \in 0..n : i \in Nat
      BY <1>1
    <3> HIDE DEF Step
    <3> QED
      BY <1>4, <3>1
  <2> HIDE DEF Step, f
  <2>3. f = [i \in 0..n |-> Step(f, i)]
    BY <2>1, <2>2
  <2> QED
    BY <2>3
<1>7. P(r)
  <2> HIDE DEF P, r
  <2> QED
    BY <1>5, <1>6
<1> HIDE DEF r
<1>8. \A i \in 0..n : r[i] = Step(r, i)
  BY <1>7
<1> DEFINE Same == {i \in Nat : i <= n => r[i] = w[i]}
<1>9. 0 \in Same
  <2>1. 0 \in 0..n
    BY <1>1
  <2> QED
    BY <1>2, <1>8, <2>1
<1>10. ASSUME NEW i \in Nat, i \in Same PROVE i + 1 \in Same
  <2> SUFFICES ASSUME i + 1 <= n PROVE r[i + 1] = w[i + 1]
    OBVIOUS
  <2>1. i + 1 \in 0..n /\ i + 1 \in Nat /\ i + 1 # 0 /\ (i + 1) - 1 = i /\ r[i] = w[i]
    BY <1>1, <1>10
  <2>2. r[i + 1] = Step(r, i + 1) /\ w[i + 1] = Step(w, i + 1)
    <3> HIDE DEF Step
    <3> QED
      BY <1>4, <1>8, <2>1
  <2> QED
    BY <2>1, <2>2
<1>11. \A i \in Nat : i \in Same
  <2> HIDE DEF Same
  <2> QED
    BY <1>9, <1>10, EveryNumber
<1>12. \A i \in 0..n : r[i] = w[i]
  <2> SUFFICES ASSUME NEW i \in 0..n PROVE r[i] = w[i]
    OBVIOUS
  <2>1. i \in Nat /\ i <= n
    BY <1>1
  <2> QED
    BY <1>11, <2>1
<1> QED
  BY <1>12 DEF r

LEMMA ChainIsTyped == ASSUME ChainInv PROVE A!TypeOK
<1>1. ChainType /\ TableInv /\ WriterInv /\ JobInv
  BY DEF ChainInv
<1>2. Len(rows) \in Nat /\ DOMAIN rows = 1..Len(rows)
  BY <1>1, ChainRows
<1>3. \A i \in DOMAIN rows : rows[i].day \in 1..today /\ rows[i].content \in {"open", "final", "altered"}
  BY <1>1, ChainRows DEF TableInv, Contents
<1>4. \A w \in Writers : writer[w].pc \in {"idle", "open", "linking", "playing"} /\ writer[w].row \in 0..Len(rows)
  BY <1>1, <1>2 DEF ChainType, WriterInv
<1>5. job.pc \in {"idle", "tip", "rows"} /\ fill.pc \in {"idle", "batch"} /\ calm \subseteq A!Days /\ altered \subseteq A!Days
  BY <1>1 DEF ChainType
<1> QED
  BY <1>1, <1>3, <1>4, <1>5 DEF A!TypeOK, JobInv

\* A walk to the signed tip over what was read is not one over what is there now.
LEMMA AlterationsShow == ASSUME ChainInv PROVE A!AlterationShows
<1>1. ChainType /\ TableInv /\ SignedInv
  BY DEF ChainInv
<1>2. Len(rows) \in Nat /\ DOMAIN rows = 1..Len(rows) /\ altered \subseteq A!Days /\ A!Days \subseteq Nat
  BY <1>1, ChainRows, ChainAssumption DEF ChainType, A!Days
<1> SUFFICES ASSUME NEW d \in altered, anchor[d] # A!Unsigned, A!Matches(d) PROVE FALSE
  BY DEF A!AlterationShows
<1>3. PICK s, c : Evidence(d, s, c) /\ anchor[d].tip = Walk(s, c)[Len(rows)]
  BY <1>1, <1>2 DEF SignedInv
<1> DEFINE t == A!HashOfLast(A!BeforeDay(d) \cap A!Hashed)
           e == ContentsOf(d)
<1>4. t \in Hashes /\ Precedes(t, d)
  BY <1>1, <1>2, StartPrecedes
<1>5. DOMAIN e = A!OfDay(d) /\ \A i \in A!OfDay(d) : e[i] = rows[i].content
  BY DEF ContentsOf
<1>6. Walk(s, c)[Len(rows)] = Walk(t, e)[Len(rows)]
  <2>1. Len(rows) \in 0..Len(rows)
    BY <1>2
  <2>2. A!Replay(d)[Len(rows)] = Walk(t, e)[Len(rows)]
    BY <1>1, <2>1, ReplayIs
  <2> QED
    BY <1>3, <2>2 DEF A!Matches
<1> HIDE DEF t, e
<1>7. /\ s \in Hashes /\ DOMAIN c \subseteq DOMAIN rows /\ A!OfDay(d) \subseteq DOMAIN c
      /\ \A i \in DOMAIN c : c[i] \in Contents /\ rows[i].day = d /\ Ends(s) < i
      /\ \E i \in DOMAIN c : rows[i].gone \/ (rows[i].content = "altered" /\ c[i] # "altered")
  BY <1>3 DEF Evidence, Precedes
<1>8. \A i \in DOMAIN c : c[i] \in Contents /\ i \in Nat \ {0} /\ Ends(s) < i /\ Ends(t) < i
  BY <1>2, <1>4, <1>7 DEF Precedes
<1>9. (\A i \in DOMAIN e : e[i] \in Contents) /\ DOMAIN e \subseteq DOMAIN c
  <2>1. \A i \in A!OfDay(d) : rows[i].content \in Contents
    BY <1>1, ChainRows DEF A!OfDay, A!Live
  <2> QED
    BY <1>5, <1>7, <2>1
<1>10. \A i \in DOMAIN c : i <= Len(rows) => i \in DOMAIN e /\ c[i] = e[i]
  BY <1>2, <1>4, <1>6, <1>7, <1>8, <1>9, SameWalks
<1>11. PICK i \in DOMAIN c : rows[i].gone \/ (rows[i].content = "altered" /\ c[i] # "altered")
  BY <1>7
<1>12. i \in A!OfDay(d) /\ c[i] = rows[i].content
  <2>1. i <= Len(rows)
    BY <1>2, <1>7
  <2> QED
    BY <1>5, <1>10, <2>1
<1>13. ~rows[i].gone
  BY <1>12 DEF A!OfDay, A!Live
<1> QED
  BY <1>11, <1>12, <1>13

LEMMA SignedDaysReplay == ASSUME ChainInv PROVE A!AnchoredDayReplays
<1>1. ChainType /\ TableInv /\ CalmInv
  BY DEF ChainInv
<1>2. Len(rows) \in Nat /\ DOMAIN rows = 1..Len(rows)
  BY <1>1, ChainRows
<1> SUFFICES ASSUME NEW d \in A!Days, d \in calm, A!BeforeDay(d) = {} \/ A!HashOfLast(A!BeforeDay(d)) # A!Null
             PROVE  A!Matches(d) /\ A!Mismatches(d) = {} /\ anchor[d].count = A!Cardinality(A!OfDay(d))
  BY DEF A!AnchoredDayReplays
<1> DEFINE B == A!BeforeDay(d)
<1>3. A!HashOfLast(B \cap A!Hashed) = StartOf(d)
  <2>1. CASE B = {}
    BY <2>1 DEF StartOf
  <2>2. CASE B # {}
    <3>1. B \subseteq 1..Len(rows) /\ B \subseteq A!Live
      BY <1>2 DEF A!BeforeDay, A!Live
    <3>2. A!Max(B) \in B /\ \A j \in B : j <= A!Max(B)
      BY <1>2, <2>2, <3>1, LastRow
    <3>3. A!HashOfLast(B) = rows[A!Max(B)].hash /\ A!HashOfLast(B) # A!Null
      BY <2>2 DEF A!HashOfLast
    <3> HIDE DEF B
    <3>4. A!Max(B) \in B \cap A!Hashed
      BY <3>1, <3>2, <3>3 DEF A!Hashed
    <3> PICK T : T = B \cap A!Hashed
      OBVIOUS
    <3>5. A!Max(T) \in T /\ \A j \in T : j <= A!Max(T)
      <4>1. T \subseteq 1..Len(rows) /\ T # {}
        BY <3>1, <3>4
      <4> QED
        BY <1>2, <4>1, LastRow
    <3>6. A!Max(T) = A!Max(B)
      <4> PICK m : m = A!Max(B)
        OBVIOUS
      <4> PICK o : o = A!Max(T)
        OBVIOUS
      <4>1. o \in B /\ o <= m /\ m <= o
        BY <3>2, <3>4, <3>5
      <4>2. m \in Nat /\ o \in Nat
        <5>1. m \in 1..Len(rows) /\ o \in 1..Len(rows)
          BY <3>1, <3>2, <4>1
        <5> QED
          BY <1>2, <5>1
      <4> QED
        BY <4>1, <4>2
    <3>7. A!HashOfLast(T) = rows[A!Max(B)].hash
      BY <3>4, <3>6 DEF A!HashOfLast
    <3> QED
      BY <3>3, <3>7 DEF StartOf, B
  <2> QED
    BY <2>1, <2>2
<1>4. \A i \in 0..Len(rows) : A!Replay(d)[i] = Walk(StartOf(d), ContentsOf(d))[i]
  BY <1>1, <1>3, ReplayIs
<1>5. /\ anchor[d].count = A!Cardinality(A!OfDay(d))
      /\ anchor[d].tip = Walk(StartOf(d), ContentsOf(d))[Len(rows)]
      /\ \A i \in A!OfDay(d) : rows[i].hash = Walk(StartOf(d), ContentsOf(d))[i]
  BY <1>1 DEF CalmInv, Linked
<1>6. A!Matches(d)
  <2>1. Len(rows) \in 0..Len(rows)
    BY <1>2
  <2> QED
    BY <1>4, <1>5, <2>1 DEF A!Matches
<1>7. A!Mismatches(d) = {}
  <2>1. \A i \in A!OfDay(d) : i \in 0..Len(rows)
    BY <1>2 DEF A!OfDay, A!Live
  <2>2. \A i \in A!OfDay(d) : rows[i].hash = A!Replay(d)[i]
    BY <1>4, <1>5, <2>1
  <2> QED
    BY <2>2 DEF A!Mismatches
<1> QED
  BY <1>5, <1>6, <1>7

(* The audit chain, for any writers, days and events: a signed day that      *)
(* nobody touched replays to its anchor, with every stored hash in           *)
(* agreement; a row altered or removed shows until its day is signed again;  *)
(* and writers that do not overlap leave one chain.                          *)
THEOREM ChainIsEvidenceHolds == Spec => []ChainIsEvidence
<1> DEFINE Inv == ChainInv
<1>1. BooksInit => Inv
  BY ChainStarts DEF BooksInit
<1>2. Inv /\ [BooksNext]_allVars => Inv'
  <2> SUFFICES ASSUME Inv, [BooksNext]_allVars PROVE Inv'
    OBVIOUS
  <2>1. CASE UNCHANGED chainVars
    BY <2>1, ChainRests
  <2>2. CASE A!Next
    BY <2>2, ChainStep
  <2> QED
    BY <2>1, <2>2 DEF BooksNext, allVars, LedgerOnly, PagingOnly, EvidenceOnly, ReportsOnly
<1>3. Inv => ChainIsEvidence
  <2> SUFFICES ASSUME Inv PROVE ChainIsEvidence
    OBVIOUS
  <2>1. A!OneAtATimeIsLinear
    <3>1. ~disturbed => A!OneAtATimeIsLinear
      BY DEF ChainInv, LineInv
    <3> QED
      BY <3>1 DEF A!OneAtATimeIsLinear
  <2> QED
    BY <2>1, ChainIsTyped, SignedDaysReplay, AlterationsShow DEF ChainIsEvidence
<1> QED
  BY <1>1, <1>2, <1>3, PTL DEF Spec

-----------------------------------------------------------------------------
(* What the portals add up: the life of a bet.                              *)

ReportBet == [op : Operators, currency : Currencies, status : R!Status, won : {"null", "true", "false"},
              wonAmount : Int, placed : Int, settled : Int, ledger : Int, owed : Int]

\* What a bet of a status has of a result, of a payment and of what is owed.
Lives(b) ==
    /\ b.status \in {"PENDING", "REJECTED", "VOIDED"} =>
          b.won = "null" /\ b.wonAmount = 0 /\ b.ledger = 0 /\ b.owed = 0
    /\ b.status = "ACCEPTED" => b.won = "null" /\ b.wonAmount = 0 /\ b.ledger = -Stake /\ b.owed = 0
    /\ b.status = "SETTLED" =>
          /\ b.settled >= b.placed /\ b.owed = 0
          /\ \/ b.won = "false" /\ b.wonAmount = 0 /\ b.ledger = -Stake
             \/ b.won = "true" /\ b.wonAmount = Win /\ b.ledger = Win - Stake
    /\ b.status = "FAILED" => (b.won = "null" /\ b.wonAmount = 0) \/ (b.won = "true" /\ b.wonAmount = Win)
    /\ b.status # "SETTLED" => b.settled = -1

BetHolds(b, h) == b \in ReportBet /\ b.placed \in 0..h /\ b.settled \in -1..h /\ Lives(b)

ReportsInv == hour \in 0..MaxHour /\ bets \in Seq(ReportBet) /\ \A i \in DOMAIN bets : BetHolds(bets[i], hour)

LEMMA BetRows ==
  ASSUME ReportsInv
  PROVE  /\ hour \in Nat /\ Len(bets) \in Nat /\ DOMAIN bets = 1..Len(bets) /\ IsFiniteSet(DOMAIN bets)
         /\ \A i \in DOMAIN bets : BetHolds(bets[i], hour)
<1>1. Len(bets) \in Nat /\ DOMAIN bets = 1..Len(bets)
  BY LenProperties DEF ReportsInv
<1>2. hour \in Nat
  BY ReportsAssumption DEF ReportsInv
<1> QED
  BY <1>1, <1>2, FS_Interval DEF ReportsInv

LEMMA ReportsStart == ASSUME R!Init PROVE ReportsInv
<1>1. bets = <<>> /\ hour = 0
  BY DEF R!Init
<1>2. bets \in Seq(ReportBet) /\ DOMAIN bets = {}
  BY <1>1, EmptySeq
<1> QED
  BY <1>1, <1>2, ReportsAssumption DEF ReportsInv

LEMMA BetBecomes ==
  ASSUME ReportsInv, NEW i \in DOMAIN bets, NEW b, BetHolds(b, hour), R!Becomes(i, b)
  PROVE  ReportsInv'
<1>1. bets' = [bets EXCEPT ![i] = b] /\ hour' = hour
  BY DEF R!Becomes
<1>2. b \in ReportBet /\ bets \in Seq(ReportBet)
  BY DEF BetHolds, ReportsInv
<1>3. /\ bets' \in Seq(ReportBet) /\ DOMAIN bets' = DOMAIN bets /\ bets'[i] = b
      /\ \A j \in DOMAIN bets \ {i} : bets'[j] = bets[j]
  BY <1>1, <1>2, Put
<1>4. \A j \in DOMAIN bets' : BetHolds(bets'[j], hour')
  BY <1>1, <1>3 DEF ReportsInv
<1> QED
  BY <1>1, <1>3, <1>4 DEF ReportsInv

\* What may become of a bet.
LifeStep(b, h, x) ==
    \/ b.status = "PENDING" /\ x = [b EXCEPT !.status = "ACCEPTED", !.ledger = -Stake]
    \/ b.status = "PENDING" /\ x = [b EXCEPT !.status = "REJECTED"]
    \/ b.status = "ACCEPTED" /\ x = [b EXCEPT !.status = "SETTLED", !.won = "false", !.settled = h]
    \/ b.status = "ACCEPTED" /\ x = [b EXCEPT !.status = "SETTLED", !.won = "true", !.wonAmount = Win, !.settled = h, !.ledger = Win - Stake]
    \/ b.status = "ACCEPTED" /\ x = [b EXCEPT !.status = "FAILED", !.owed = Win]
    \/ b.status = "ACCEPTED" /\ x = [b EXCEPT !.status = "FAILED", !.won = "true", !.wonAmount = Win, !.owed = Win]
    \/ b.owed # 0 /\ x = [b EXCEPT !.ledger = @ + b.owed, !.owed = 0]
    \/ b.status = "ACCEPTED" /\ x = [b EXCEPT !.status = "VOIDED", !.ledger = 0]

LEMMA BetGoesOn ==
  ASSUME NEW h \in Nat, NEW b, BetHolds(b, h), NEW x, LifeStep(b, h, x)
  PROVE  BetHolds(x, h)
<1>1. /\ b \in ReportBet /\ b.placed \in 0..h /\ b.settled \in -1..h /\ Lives(b) /\ Stake \in Int /\ Win \in Int
      /\ -Stake \in Int /\ Win - Stake \in Int /\ b.ledger + b.owed \in Int /\ h \in -1..h /\ h >= b.placed
  <2>1. b \in ReportBet /\ b.placed \in 0..h /\ b.settled \in -1..h /\ Lives(b) /\ Stake \in Int /\ Win \in Int
    BY ReportsAssumption DEF BetHolds
  <2>2. b.ledger \in Int /\ b.owed \in Int
    BY <2>1 DEF ReportBet
  <2> QED
    BY <2>1, <2>2
<1>2. \A s \in {"PENDING", "ACCEPTED", "REJECTED", "SETTLED", "VOIDED", "FAILED"} : s \in R!Status
  BY DEF R!Status
<1>3. CASE b.status = "PENDING" /\ x = [b EXCEPT !.status = "ACCEPTED", !.ledger = -Stake]
  BY <1>1, <1>2, <1>3 DEF BetHolds, ReportBet, Lives
<1>4. CASE b.status = "PENDING" /\ x = [b EXCEPT !.status = "REJECTED"]
  BY <1>1, <1>2, <1>4 DEF BetHolds, ReportBet, Lives
<1>5. CASE b.status = "ACCEPTED" /\ x = [b EXCEPT !.status = "SETTLED", !.won = "false", !.settled = h]
  <2>0. x = [op |-> b.op, currency |-> b.currency, status |-> "SETTLED",
             won |-> "false", wonAmount |-> b.wonAmount, placed |-> b.placed, settled |-> h,
             ledger |-> b.ledger, owed |-> b.owed]
    BY <1>1, <1>5 DEF ReportBet
  <2>1. x \in ReportBet
    BY <1>1, <1>2, <2>0 DEF ReportBet
  <2>2. /\ x.status = "SETTLED" /\ x.won = "false" /\ x.wonAmount = b.wonAmount
        /\ x.placed = b.placed /\ x.settled = h /\ x.ledger = b.ledger /\ x.owed = b.owed
    BY <2>0
  <2>3. b.status = "ACCEPTED"
    BY <1>1, <1>5 DEF Lives, ReportBet, R!Status
  <2> QED
    BY <1>1, <2>1, <2>2, <2>3 DEF BetHolds, Lives
<1>6. CASE b.status = "ACCEPTED" /\ x = [b EXCEPT !.status = "SETTLED", !.won = "true", !.wonAmount = Win, !.settled = h, !.ledger = Win - Stake]
  <2>0. x = [op |-> b.op, currency |-> b.currency, status |-> "SETTLED",
             won |-> "true", wonAmount |-> Win, placed |-> b.placed, settled |-> h,
             ledger |-> Win - Stake, owed |-> b.owed]
    BY <1>1, <1>6 DEF ReportBet
  <2>1. x \in ReportBet
    BY <1>1, <1>2, <2>0 DEF ReportBet
  <2>2. /\ x.status = "SETTLED" /\ x.won = "true" /\ x.wonAmount = Win
        /\ x.placed = b.placed /\ x.settled = h /\ x.ledger = Win - Stake /\ x.owed = b.owed
    BY <2>0
  <2>3. b.status = "ACCEPTED"
    BY <1>1, <1>6 DEF Lives, ReportBet, R!Status
  <2> QED
    BY <1>1, <2>1, <2>2, <2>3 DEF BetHolds, Lives
<1>7. CASE b.status = "ACCEPTED" /\ x = [b EXCEPT !.status = "FAILED", !.owed = Win]
  <2>0. x = [op |-> b.op, currency |-> b.currency, status |-> "FAILED",
             won |-> b.won, wonAmount |-> b.wonAmount, placed |-> b.placed, settled |-> b.settled,
             ledger |-> b.ledger, owed |-> Win]
    BY <1>1, <1>7 DEF ReportBet
  <2>1. x \in ReportBet
    BY <1>1, <1>2, <2>0 DEF ReportBet
  <2>2. /\ x.status = "FAILED" /\ x.won = b.won /\ x.wonAmount = b.wonAmount
        /\ x.placed = b.placed /\ x.settled = b.settled
    BY <2>0
  <2>3. b.won = "null" /\ b.wonAmount = 0 /\ b.settled = -1
    BY <1>1, <1>7 DEF Lives
  <2>4. Lives(x)
    BY <1>1, <2>1, <2>2, <2>3 DEF Lives
  <2> QED
    BY <1>1, <2>1, <2>2, <2>4 DEF BetHolds
<1>8. CASE b.status = "ACCEPTED" /\ x = [b EXCEPT !.status = "FAILED", !.won = "true", !.wonAmount = Win, !.owed = Win]
  <2>0. x = [op |-> b.op, currency |-> b.currency, status |-> "FAILED",
             won |-> "true", wonAmount |-> Win, placed |-> b.placed, settled |-> b.settled,
             ledger |-> b.ledger, owed |-> Win]
    BY <1>1, <1>8 DEF ReportBet
  <2>1. x \in ReportBet
    BY <1>1, <1>2, <2>0 DEF ReportBet
  <2>2. /\ x.status = "FAILED" /\ x.won = "true" /\ x.wonAmount = Win
        /\ x.placed = b.placed /\ x.settled = b.settled /\ x.ledger = b.ledger /\ x.owed = Win
    BY <2>0
  <2>3. b.status = "ACCEPTED"
    BY <1>1, <1>8 DEF Lives, ReportBet, R!Status
  <2> QED
    BY <1>1, <2>1, <2>2, <2>3 DEF BetHolds, Lives
<1>9. CASE b.owed # 0 /\ x = [b EXCEPT !.ledger = @ + b.owed, !.owed = 0]
  <2>0. x = [op |-> b.op, currency |-> b.currency, status |-> b.status,
             won |-> b.won, wonAmount |-> b.wonAmount, placed |-> b.placed, settled |-> b.settled,
             ledger |-> b.ledger + b.owed, owed |-> 0]
    BY <1>1, <1>9 DEF ReportBet
  <2>1. x \in ReportBet
    BY <1>1, <1>2, <2>0 DEF ReportBet
  <2>2. /\ x.status = b.status /\ x.won = b.won /\ x.wonAmount = b.wonAmount
        /\ x.placed = b.placed /\ x.settled = b.settled /\ x.ledger = b.ledger + b.owed /\ x.owed = 0
    BY <2>0
  <2>3. b.status = "FAILED"
    BY <1>1, <1>9 DEF Lives, ReportBet, R!Status
  <2> QED
    BY <1>1, <2>1, <2>2, <2>3 DEF BetHolds, Lives
<1>10. CASE b.status = "ACCEPTED" /\ x = [b EXCEPT !.status = "VOIDED", !.ledger = 0]
  BY <1>1, <1>2, <1>10 DEF BetHolds, ReportBet, Lives
<1> QED
  BY <1>3, <1>4, <1>5, <1>6, <1>7, <1>8, <1>9, <1>10 DEF LifeStep

LEMMA ReportsStep == ASSUME ReportsInv, R!Next PROVE ReportsInv'
<1>1. ASSUME NEW o \in Operators, NEW c \in Currencies, R!Placed(o, c) PROVE ReportsInv'
  <2> DEFINE b == [op |-> o, currency |-> c, status |-> "PENDING", won |-> "null", wonAmount |-> 0,
                   placed |-> hour, settled |-> -1, ledger |-> 0, owed |-> 0]
  <2>1. bets' = Append(bets, b) /\ hour' = hour
    BY <1>1 DEF R!Placed
  <2>2. hour \in Nat
    BY BetRows
  <2>3. BetHolds(b, hour)
    BY <2>2 DEF BetHolds, ReportBet, Lives, R!Status
  <2>4. b \in ReportBet /\ bets \in Seq(ReportBet)
    BY <2>3 DEF BetHolds, ReportsInv
  <2> HIDE DEF b
  <2>5. /\ bets' \in Seq(ReportBet) /\ DOMAIN bets' = DOMAIN bets \cup {Len(bets) + 1}
        /\ bets'[Len(bets) + 1] = b /\ \A j \in DOMAIN bets : bets'[j] = bets[j]
    BY <2>1, <2>4, Added
  <2> QED
    BY <2>1, <2>3, <2>5 DEF ReportsInv
<1>2. ASSUME NEW i \in DOMAIN bets,
             \/ R!Debited(i) \/ R!Rejected(i) \/ R!Lost(i) \/ R!Paid(i)
             \/ R!WinDeferred(i) \/ R!CashoutDeferred(i) \/ R!RetryPays(i) \/ R!Voided(i)
      PROVE  ReportsInv'
  <2>1. PICK x : LifeStep(bets[i], hour, x) /\ R!Becomes(i, x)
    BY <1>2 DEF R!Debited, R!Rejected, R!Lost, R!Paid, R!WinDeferred, R!CashoutDeferred, R!RetryPays, R!Voided,
                R!In, LifeStep
  <2>2. hour \in Nat /\ BetHolds(bets[i], hour)
    BY BetRows
  <2> QED
    BY <2>1, <2>2, BetGoesOn, BetBecomes
<1>3. ASSUME R!Tick PROVE ReportsInv'
  <2>1. hour < MaxHour /\ hour' = hour + 1 /\ bets' = bets
    BY <1>3 DEF R!Tick
  <2>2. hour \in 0..MaxHour /\ MaxHour \in Nat /\ bets \in Seq(ReportBet)
    BY ReportsAssumption DEF ReportsInv
  <2>3. \A i \in DOMAIN bets : BetHolds(bets[i], hour + 1)
    <3> SUFFICES ASSUME NEW i \in DOMAIN bets PROVE BetHolds(bets[i], hour + 1)
      OBVIOUS
    <3>1. BetHolds(bets[i], hour)
      BY DEF ReportsInv
    <3>2. 0..hour \subseteq 0..(hour + 1) /\ -1..hour \subseteq -1..(hour + 1)
      BY <2>2
    <3> QED
      BY <3>1, <3>2 DEF BetHolds
  <2> QED
    BY <2>1, <2>2, <2>3 DEF ReportsInv
<1> QED
  BY <1>1, <1>2, <1>3 DEF R!Next

LEMMA ReportsAreTyped == ASSUME ReportsInv PROVE R!TypeOK
BY DEF ReportsInv, BetHolds, ReportBet, R!TypeOK

-----------------------------------------------------------------------------
(* The sums of the pages.                                                   *)

PaidOut == [i \in DOMAIN bets |-> bets[i].wonAmount]

\* The sums of the module are those of SumProofs.
LEMMA ReportSums == ASSUME NEW f, NEW T PROVE R!SumFunctionOnSet(f, T) = SumFunctionOnSet(f, T)
BY DEF R!SumFunctionOnSet, R!FoldFunctionOnSet, R!MapThenFoldSet,
       SumFunctionOnSet, FoldFunctionOnSet, MapThenFoldSet

\* It counts as everybody does.
LEMMA ReportCounts == ASSUME NEW S PROVE R!Cardinality(S) = Cardinality(S)
BY DEF R!Cardinality, R!IsFiniteSet, Cardinality, IsFiniteSet

LEMMA WinsAre ==
  ASSUME ReportsInv, NEW S \in SUBSET DOMAIN bets
  PROVE  /\ R!Wins(S) = SumFunctionOnSet(PaidOut, S) /\ R!Wins(S) \in Int
         /\ IsFiniteSet(S) /\ Cardinality(S) \in Nat /\ Stake * Cardinality(S) \in Int
<1>1. IsFiniteSet(S) /\ Cardinality(S) \in Nat
  BY BetRows, FS_Subset, FS_CardinalityType
<1>2. \A i \in S : PaidOut[i] \in Int /\ PaidOut[i] = bets[i].wonAmount
  BY BetRows DEF PaidOut, BetHolds, ReportBet
<1>3. R!Wins(S) = SumFunctionOnSet([x \in S |-> bets[x].wonAmount], S)
  BY ReportSums DEF R!Wins, R!SumOf
<1>4. SumFunctionOnSet([x \in S |-> bets[x].wonAmount], S) = SumFunctionOnSet(PaidOut, S)
  <2> DEFINE f == [x \in S |-> bets[x].wonAmount]
  <2>1. \A x \in S : f[x] = PaidOut[x]
    BY <1>2
  <2>2. SumFunctionOnSet(f, S) = SumFunctionOnSet(PaidOut, S)
    <3> HIDE DEF f
    <3> QED
      BY <1>1, <2>1, SameSum
  <2> QED
    BY <2>2
<1>5. SumFunctionOnSet(PaidOut, S) \in Int
  BY <1>1, <1>2, OneAdds
<1>6. Stake * Cardinality(S) \in Int
  <2>1. \A m, n \in Nat : m * n \in Int
    OBVIOUS
  <2> QED
    BY <1>1, <2>1, ReportsAssumption
<1> QED
  BY <1>1, <1>3, <1>4, <1>5, <1>6

\* The figures of a window.
LEMMA KpisAre ==
  ASSUME ReportsInv, NEW S \in SUBSET DOMAIN bets, NEW T \in SUBSET DOMAIN bets
  PROVE  /\ R!Kpis(S, T).volume = Stake * Cardinality(S) /\ R!Kpis(S, T).volume \in Int
         /\ R!Kpis(S, T).paid = SumFunctionOnSet(PaidOut, T) /\ R!Kpis(S, T).paid \in Int
         /\ R!Kpis(S, T).ggr = R!Kpis(S, T).volume - R!Kpis(S, T).paid /\ R!Kpis(S, T).ggr \in Int
<1>1. /\ R!Kpis(S, T).volume = Stake * Cardinality(S) /\ R!Kpis(S, T).paid = R!Wins(T)
      /\ R!Kpis(S, T).ggr = Stake * Cardinality(S) - R!Wins(T)
  BY ReportCounts DEF R!Kpis
<1>2. Stake * Cardinality(S) \in Int /\ R!Wins(T) \in Int /\ R!Wins(T) = SumFunctionOnSet(PaidOut, T)
  BY WinsAre
<1> QED
  BY <1>1, <1>2

\* PagesAgree: the cockpit's totals are the sums of its rows.
LEMMA ThePagesAgree == ASSUME ReportsInv PROVE R!PagesAgree
<1> DEFINE row(o) == R!Kpis(R!Staked(o, R!Since, hour + 1), R!Won(o, R!Since, hour + 1))
           volumes == [o \in R!Listed |-> row(o).volume]
           paids == [o \in R!Listed |-> row(o).paid]
           ggrs == [o \in R!Listed |-> R!AdminOverview(o).ggr]
<1>1. \A o : R!AdminOverview(o) = row(o) /\ R!DrillDown(o) = row(o)
  BY DEF R!AdminOverview, R!DrillDown
<1>2. \A o \in R!Listed : R!PlatformOverview.operators[o] = row(o)
  BY DEF R!PlatformOverview
<1>3. IsFiniteSet(R!Listed)
  BY ReportsAssumption, FS_Subset DEF R!Listed
<1>4. \A o : row(o).volume \in Int /\ row(o).paid \in Int /\ row(o).ggr = row(o).volume - row(o).paid
  <2> SUFFICES ASSUME NEW o PROVE row(o).volume \in Int /\ row(o).paid \in Int /\ row(o).ggr = row(o).volume - row(o).paid
    OBVIOUS
  <2>1. R!Staked(o, R!Since, hour + 1) \in SUBSET DOMAIN bets /\ R!Won(o, R!Since, hour + 1) \in SUBSET DOMAIN bets
    BY DEF R!Staked, R!Won
  <2> QED
    BY <2>1, KpisAre
<1>5. \A o \in R!Listed : volumes[o] \in Int /\ paids[o] \in Int /\ ggrs[o] = volumes[o] - paids[o]
  <2> HIDE DEF row
  <2> QED
    BY <1>1, <1>4
<1>6. R!PlatformOverview.totals.ggr = SumFunctionOnSet(volumes, R!Listed) - SumFunctionOnSet(paids, R!Listed)
  BY ReportSums DEF R!PlatformOverview, R!SumOf
<1>7. R!SumOf(R!Listed, LAMBDA o : R!AdminOverview(o).ggr) = SumFunctionOnSet(ggrs, R!Listed)
  BY ReportSums DEF R!SumOf
<1>8. SumFunctionOnSet(ggrs, R!Listed) = SumFunctionOnSet(volumes, R!Listed) - SumFunctionOnSet(paids, R!Listed)
  <2> HIDE DEF volumes, paids, ggrs
  <2> QED
    BY <1>3, <1>5, DifferenceSum
<1> HIDE DEF row, volumes, paids, ggrs
<1>9. \A o \in R!Listed : R!PlatformOverview.operators[o] = R!AdminOverview(o) /\ R!AdminOverview(o) = R!DrillDown(o)
  BY <1>1, <1>2
<1> QED
  BY <1>6, <1>7, <1>8, <1>9 DEF R!PagesAgree

-----------------------------------------------------------------------------
(* The days of the settlement.                                              *)

OnDay(p, d) == d * DayHours <= p /\ p < (d + 1) * DayHours
DayOf(p) == CHOOSE d \in Nat : OnDay(p, d)

\* Later days start when the earlier ones have ended.
LEMMA LaterDays ==
  ASSUME NEW d \in Nat, NEW e \in Nat, d < e
  PROVE  (d + 1) * DayHours <= e * DayHours
<1>1. DayHours \in Nat /\ DayHours > 0
  BY ReportsAssumption
<1>2. PICK k \in Nat : e = d + 1 + k
  <2>1. e - (d + 1) \in Nat /\ e = d + 1 + (e - (d + 1))
    OBVIOUS
  <2> QED
    BY <2>1
<1>3. e * DayHours = (d + 1) * DayHours + k * DayHours
  BY <1>1, <1>2
<1>4. k * DayHours \in Nat /\ (d + 1) * DayHours \in Nat
  <2>1. \A m, n \in Nat : m * n \in Nat
    OBVIOUS
  <2> QED
    BY <1>1, <2>1
<1> QED
  BY <1>3, <1>4

\* Every hour is of one day, and the hours there are of a day of the settlement.
LEMMA HoursHaveDays ==
  ASSUME NEW p \in Nat
  PROVE  /\ DayOf(p) \in Nat /\ \A d \in Nat : OnDay(p, d) <=> d = DayOf(p)
         /\ p <= MaxHour => DayOf(p) \in R!Days
<1> DEFINE C == {n \in Nat : \E d \in 0..n : OnDay(n, d)}
<1>1. DayHours \in Nat /\ DayHours > 0 /\ MaxHour \in Nat /\ \A m, n \in Nat : m * n \in Nat
  BY ReportsAssumption
<1>2. 0 \in C
  <2>1. 0 * DayHours = 0 /\ (0 + 1) * DayHours = DayHours
    BY <1>1
  <2>2. OnDay(0, 0)
    BY <1>1, <2>1 DEF OnDay
  <2> QED
    BY <2>2
<1>3. ASSUME NEW n \in Nat, n \in C PROVE n + 1 \in C
  <2>1. PICK d \in 0..n : OnDay(n, d)
    BY <1>3
  <2>2. PICK a \in Nat : a = d * DayHours
    BY <1>1, <2>1
  <2>3. (d + 1) * DayHours = a + DayHours /\ (d + 1 + 1) * DayHours = a + DayHours + DayHours
    BY <1>1, <2>1, <2>2
  <2>4. a <= n /\ n < a + DayHours
    BY <2>1, <2>2, <2>3 DEF OnDay
  <2>5. CASE n + 1 < a + DayHours
    BY <1>1, <2>1, <2>2, <2>3, <2>4, <2>5 DEF OnDay
  <2>6. CASE ~(n + 1 < a + DayHours)
    <3>1. a + DayHours <= n + 1 /\ n + 1 < a + DayHours + DayHours
      BY <1>1, <2>2, <2>4, <2>6
    <3>2. OnDay(n + 1, d + 1) /\ d + 1 \in 0..(n + 1)
      BY <2>1, <2>3, <3>1 DEF OnDay
    <3> QED
      BY <3>2
  <2> QED
    BY <2>5, <2>6
<1>4. \E d \in 0..p : OnDay(p, d)
  <2> HIDE DEF C
  <2>1. p \in C
    BY <1>2, <1>3, EveryNumber
  <2> QED
    BY <2>1 DEF C
<1>5. PICK d \in 0..p : OnDay(p, d)
  BY <1>4
<1>6. \A e \in Nat : OnDay(p, e) => e = d
  <2> SUFFICES ASSUME NEW e \in Nat, OnDay(p, e), e # d PROVE FALSE
    OBVIOUS
  <2>1. /\ d * DayHours \in Nat /\ e * DayHours \in Nat
        /\ (d + 1) * DayHours \in Nat /\ (e + 1) * DayHours \in Nat
    BY <1>1, <1>5
  <2>2. d < e => (d + 1) * DayHours <= e * DayHours
    BY LaterDays, <1>5
  <2>3. e < d => (e + 1) * DayHours <= d * DayHours
    BY LaterDays, <1>5
  <2>4. /\ d * DayHours <= p /\ p < (d + 1) * DayHours
        /\ e * DayHours <= p /\ p < (e + 1) * DayHours
    BY <1>5 DEF OnDay
  <2>5. d < e \/ e < d
    BY <1>5
  <2> QED
    BY <2>1, <2>2, <2>3, <2>4, <2>5
<1>7. DayOf(p) = d
  BY <1>5, <1>6 DEF DayOf
<1>8. p <= MaxHour => d \in R!Days
  <2>1. d * DayHours <= p /\ d * DayHours \in Nat
    BY <1>1, <1>5 DEF OnDay
  <2> QED
    BY <1>1, <1>5, <2>1 DEF R!Days
<1> QED
  BY <1>5, <1>6, <1>7, <1>8

\* The bets of an operator in its currency.
Mine(o) == {i \in DOMAIN bets : bets[i].op = o /\ bets[i].currency = o.currency}
Stakes(o) == {i \in Mine(o) : bets[i].status \in {"ACCEPTED", "SETTLED"}}
Payments(o) == {i \in Mine(o) : bets[i].won = "true" /\ bets[i].settled >= 0}
StakeOf == [i \in DOMAIN bets |-> Stake]

\* What was placed and what was paid on a day, for every day of the settlement.
LEMMA DaysPart ==
  ASSUME ReportsInv, NEW o
  PROVE  /\ Parted(Stakes(o), [i \in DOMAIN bets |-> DayOf(bets[i].placed)], R!Days,
                   [d \in R!Days |-> R!Staked(o, d * DayHours, (d + 1) * DayHours)], Stakes(o))
         /\ Parted(Payments(o), [i \in DOMAIN bets |-> DayOf(bets[i].settled)], R!Days,
                   [d \in R!Days |-> R!Won(o, d * DayHours, (d + 1) * DayHours)], Payments(o))
<1> DEFINE placedOn == [i \in DOMAIN bets |-> DayOf(bets[i].placed)]
           paidOn == [i \in DOMAIN bets |-> DayOf(bets[i].settled)]
           staked == [d \in R!Days |-> R!Staked(o, d * DayHours, (d + 1) * DayHours)]
           won == [d \in R!Days |-> R!Won(o, d * DayHours, (d + 1) * DayHours)]
<1>1. /\ \A i \in DOMAIN bets : bets[i].placed \in Nat /\ bets[i].placed <= MaxHour /\ bets[i].settled <= MaxHour
      /\ \A i \in Payments(o) : bets[i].settled \in Nat
  <2>1. hour \in Nat /\ MaxHour \in Nat /\ hour <= MaxHour
    BY BetRows, ReportsAssumption DEF ReportsInv
  <2>2. \A i \in DOMAIN bets : bets[i].placed \in 0..hour /\ bets[i].settled \in -1..hour
    BY BetRows DEF BetHolds
  <2> QED
    BY <2>1, <2>2 DEF Payments, Mine
<1>2. \A d \in R!Days : d \in Nat /\ d * DayHours \in Nat
  <2>1. \A m, n \in Nat : m * n \in Nat
    OBVIOUS
  <2> QED
    BY <2>1, ReportsAssumption DEF R!Days
<1>3. \A i \in Stakes(o) : placedOn[i] \in R!Days
  BY <1>1, HoursHaveDays DEF Stakes, Mine
<1>4. \A i \in Payments(o) : paidOn[i] \in R!Days
  BY <1>1, HoursHaveDays DEF Payments, Mine
<1>5. ASSUME NEW d \in R!Days
      PROVE  staked[d] \in SUBSET Stakes(o) /\ \A i \in Stakes(o) : i \in staked[d] <=> placedOn[i] = d
  <2>1. staked[d] = {i \in Stakes(o) : OnDay(bets[i].placed, d)}
    <3>1. staked[d] = R!Staked(o, d * DayHours, (d + 1) * DayHours)
      OBVIOUS
    <3>2. \A i \in DOMAIN bets : bets[i].placed >= d * DayHours <=> d * DayHours <= bets[i].placed
      BY <1>1, <1>2
    <3> HIDE DEF staked
    <3> QED
      BY <3>1, <3>2 DEF R!Staked, Stakes, Mine, OnDay
  <2>2. \A i \in Stakes(o) : OnDay(bets[i].placed, d) <=> placedOn[i] = d
    BY <1>1, <1>2, HoursHaveDays DEF Stakes, Mine
  <2> HIDE DEF staked, placedOn
  <2> QED
    BY <2>1, <2>2
<1>6. ASSUME NEW d \in R!Days
      PROVE  won[d] \in SUBSET Payments(o) /\ \A i \in Payments(o) : i \in won[d] <=> paidOn[i] = d
  <2>1. won[d] = {i \in Payments(o) : OnDay(bets[i].settled, d)}
    <3>1. won[d] = R!Won(o, d * DayHours, (d + 1) * DayHours)
      OBVIOUS
    <3>2. \A i \in DOMAIN bets : bets[i].settled >= d * DayHours
                                    <=> d * DayHours <= bets[i].settled /\ bets[i].settled >= 0
      <4>1. \A i \in DOMAIN bets : bets[i].settled \in Int
        BY BetRows DEF BetHolds, ReportBet
      <4> QED
        BY <1>2, <4>1
    <3> HIDE DEF won
    <3> QED
      BY <3>1, <3>2 DEF R!Won, Payments, Mine, OnDay
  <2>2. \A i \in Payments(o) : OnDay(bets[i].settled, d) <=> paidOn[i] = d
    BY <1>1, <1>2, HoursHaveDays DEF Payments, Mine
  <2> HIDE DEF won, paidOn
  <2> QED
    BY <2>1, <2>2
<1> HIDE DEF placedOn, paidOn, staked, won
<1>7. Parted(Stakes(o), placedOn, R!Days, staked, Stakes(o)) /\ Parted(Payments(o), paidOn, R!Days, won, Payments(o))
  BY <1>3, <1>4, <1>5, <1>6 DEF Parted
<1> QED
  BY <1>7 DEF placedOn, paidOn, staked, won

\* The revenue of all days is all stakes less all payments.
LEMMA AllDays ==
  ASSUME ReportsInv, NEW o \in R!Listed
  PROVE  R!SumOf(R!Days, LAMBDA d : R!Settlement(d)[o].ggr)
            = SumFunctionOnSet(StakeOf, Stakes(o)) - SumFunctionOnSet(PaidOut, Payments(o))
<1> DEFINE staked == [d \in R!Days |-> R!Staked(o, d * DayHours, (d + 1) * DayHours)]
           won == [d \in R!Days |-> R!Won(o, d * DayHours, (d + 1) * DayHours)]
           volumes == [d \in R!Days |-> SumFunctionOnSet(StakeOf, staked[d])]
           paids == [d \in R!Days |-> SumFunctionOnSet(PaidOut, won[d])]
           ggrs == [d \in R!Days |-> R!Settlement(d)[o].ggr]
<1>1. /\ IsFiniteSet(R!Days) /\ IsFiniteSet(Stakes(o)) /\ IsFiniteSet(Payments(o))
      /\ Stakes(o) \in SUBSET DOMAIN bets /\ Payments(o) \in SUBSET DOMAIN bets
      /\ \A i \in DOMAIN bets : StakeOf[i] = Stake /\ StakeOf[i] \in Int /\ PaidOut[i] \in Int
  <2>1. IsFiniteSet(R!Days)
    <3>1. IsFiniteSet(0..MaxHour) /\ R!Days \in SUBSET (0..MaxHour)
      BY ReportsAssumption, FS_Interval DEF R!Days
    <3> QED
      BY <3>1, FS_Subset
  <2>2. Stakes(o) \in SUBSET DOMAIN bets /\ Payments(o) \in SUBSET DOMAIN bets
    BY DEF Stakes, Payments, Mine
  <2>3. \A i \in DOMAIN bets : StakeOf[i] = Stake /\ StakeOf[i] \in Int /\ PaidOut[i] \in Int
    BY BetRows, ReportsAssumption DEF StakeOf, PaidOut, BetHolds, ReportBet
  <2> QED
    BY <2>1, <2>2, <2>3, BetRows, FS_Subset
<1>2. ASSUME NEW d \in R!Days
      PROVE  volumes[d] \in Int /\ paids[d] \in Int /\ ggrs[d] = volumes[d] - paids[d]
  <2> DEFINE S == R!Staked(o, d * DayHours, (d + 1) * DayHours)
             T == R!Won(o, d * DayHours, (d + 1) * DayHours)
  <2>1. S \in SUBSET DOMAIN bets /\ T \in SUBSET DOMAIN bets
    BY DEF R!Staked, R!Won
  <2>2. R!Settlement(d)[o] = R!Kpis(S, T)
    BY DEF R!Settlement
  <2>3. volumes[d] = SumFunctionOnSet(StakeOf, S) /\ paids[d] = SumFunctionOnSet(PaidOut, T) /\ ggrs[d] = R!Settlement(d)[o].ggr
    OBVIOUS
  <2> HIDE DEF S, T, volumes, paids, ggrs
  <2>4. IsFiniteSet(S) /\ \A i \in S : StakeOf[i] = Stake
    BY <1>1, <2>1, WinsAre
  <2>5. SumFunctionOnSet(StakeOf, S) = Stake * Cardinality(S)
    BY <2>4, ReportsAssumption, ConstantSum
  <2> QED
    BY <2>1, <2>2, <2>3, <2>5, KpisAre
<1>3. /\ \A d \in R!Days : volumes[d] = SumFunctionOnSet(StakeOf, staked[d])
      /\ \A d \in R!Days : paids[d] = SumFunctionOnSet(PaidOut, won[d])
  OBVIOUS
<1>4. R!SumOf(R!Days, LAMBDA d : R!Settlement(d)[o].ggr) = SumFunctionOnSet(ggrs, R!Days)
  BY ReportSums DEF R!SumOf
<1>5. PICK placedOn, paidOn : /\ Parted(Stakes(o), placedOn, R!Days, staked, Stakes(o))
                              /\ Parted(Payments(o), paidOn, R!Days, won, Payments(o))
  BY DaysPart
<1> HIDE DEF staked, won, volumes, paids, ggrs
<1>6. SumFunctionOnSet(ggrs, R!Days) = SumFunctionOnSet(volumes, R!Days) - SumFunctionOnSet(paids, R!Days)
  BY <1>1, <1>2, DifferenceSum
<1>7. SumFunctionOnSet(volumes, R!Days) = SumFunctionOnSet(StakeOf, Stakes(o))
  <2>1. \A i \in Stakes(o) : StakeOf[i] \in Int
    BY <1>1
  <2> QED
    BY <1>1, <1>3, <1>5, <2>1, PartitionSum
<1>8. SumFunctionOnSet(paids, R!Days) = SumFunctionOnSet(PaidOut, Payments(o))
  <2>1. \A i \in Payments(o) : PaidOut[i] \in Int
    BY <1>1
  <2> QED
    BY <1>1, <1>3, <1>5, <2>1, PartitionSum
<1> QED
  BY <1>4, <1>6, <1>7, <1>8

\* RevenueIsTheLedger: a stake counts where it was placed, a win where it was paid, and
\* what became of a bet is one or both of them.
LEMMA RevenueAddsUp == ASSUME ReportsInv PROVE R!RevenueIsTheLedger
<1> SUFFICES ASSUME NEW o \in R!Listed
             PROVE  R!SumOf(R!Days, LAMBDA d : R!Settlement(d)[o].ggr)
                       = -R!SumOf({i \in DOMAIN bets : /\ bets[i].op = o /\ bets[i].currency = o.currency
                                                       /\ bets[i].status \notin {"PENDING", "FAILED"}},
                                  LAMBDA i : bets[i].ledger)
  BY DEF R!RevenueIsTheLedger
<1> DEFINE Q == {i \in DOMAIN bets : /\ bets[i].op = o /\ bets[i].currency = o.currency
                                     /\ bets[i].status \notin {"PENDING", "FAILED"}}
           staked == [i \in Q |-> IF i \in Stakes(o) THEN Stake ELSE 0]
           paid == [i \in Q |-> IF i \in Payments(o) THEN PaidOut[i] ELSE 0]
           lost == [i \in Q |-> bets[i].ledger]
<1>1. \A i \in DOMAIN bets : /\ bets[i] \in ReportBet /\ Lives(bets[i]) /\ bets[i].settled \in -1..hour
                             /\ PaidOut[i] = bets[i].wonAmount /\ StakeOf[i] = Stake /\ Stake \in Int /\ PaidOut[i] \in Int
  BY BetRows, ReportsAssumption DEF BetHolds, ReportBet, PaidOut, StakeOf
<1>2. Q \in SUBSET DOMAIN bets /\ IsFiniteSet(Q)
  BY BetRows, FS_Subset
<1>3. Stakes(o) \in SUBSET Q
  BY DEF Stakes, Mine
<1>4. Payments(o) \in SUBSET Q
  <2> SUFFICES ASSUME NEW i \in Payments(o) PROVE i \in Q
    OBVIOUS
  <2>1. i \in DOMAIN bets /\ bets[i].op = o /\ bets[i].currency = o.currency /\ bets[i].settled >= 0
    BY DEF Payments, Mine
  <2>2. bets[i].status = "SETTLED"
    BY <1>1, <2>1 DEF Lives
  <2> QED
    BY <2>1, <2>2
<1>5. \A i \in Q : staked[i] \in Int /\ paid[i] \in Int /\ lost[i] \in Int /\ lost[i] = paid[i] - staked[i]
  <2> SUFFICES ASSUME NEW i \in Q
               PROVE  staked[i] \in Int /\ paid[i] \in Int /\ lost[i] \in Int /\ lost[i] = paid[i] - staked[i]
    OBVIOUS
  <2>1. PICK b : b = bets[i]
    OBVIOUS
  <2>2. /\ i \in DOMAIN bets /\ i \in Mine(o) /\ b.status \notin {"PENDING", "FAILED"} /\ b \in ReportBet /\ Lives(b)
        /\ PaidOut[i] = b.wonAmount /\ PaidOut[i] \in Int
    BY <1>1, <2>1 DEF Mine
  <2>3. /\ i \in Stakes(o) <=> b.status \in {"ACCEPTED", "SETTLED"}
        /\ i \in Payments(o) <=> b.won = "true" /\ b.settled >= 0
    BY <2>1, <2>2 DEF Stakes, Payments
  <2>4. /\ staked[i] = IF i \in Stakes(o) THEN Stake ELSE 0
        /\ paid[i] = IF i \in Payments(o) THEN PaidOut[i] ELSE 0
        /\ lost[i] = b.ledger
    BY <2>1
  <2>5. Stake \in Int /\ Win \in Int /\ b.ledger \in Int /\ b.placed \in Int /\ b.settled \in Int
    BY <2>2, ReportsAssumption DEF ReportBet
  <2> HIDE DEF Q, staked, paid, lost
  <2>6. CASE b.status = "ACCEPTED"
    <3>1. b.won = "null" /\ b.ledger = -Stake
      BY <2>2, <2>6 DEF Lives
    <3> QED
      BY <2>3, <2>4, <2>5, <2>6, <3>1
  <2>7. CASE b.status = "SETTLED"
    <3>1. /\ b.settled >= b.placed
          /\ \/ b.won = "false" /\ b.wonAmount = 0 /\ b.ledger = -Stake
             \/ b.won = "true" /\ b.wonAmount = Win /\ b.ledger = Win - Stake
      BY <2>2, <2>7 DEF Lives
    <3>2. b.placed >= 0
      BY <2>1, <2>2, BetRows DEF BetHolds
    <3>3. i \in Stakes(o) /\ (i \in Payments(o) <=> b.won = "true")
      BY <2>3, <2>5, <2>7, <3>1, <3>2
    <3> QED
      BY <2>2, <2>4, <2>5, <3>1, <3>3
  <2>8. CASE b.status \in {"REJECTED", "VOIDED"}
    <3>1. b.won = "null" /\ b.ledger = 0
      BY <2>2, <2>8 DEF Lives
    <3> QED
      BY <2>3, <2>4, <2>5, <2>8, <3>1
  <2> QED
    BY <2>2, <2>6, <2>7, <2>8 DEF ReportBet, R!Status
<1>6. /\ \A i \in Stakes(o) : StakeOf[i] \in Int /\ staked[i] = StakeOf[i]
      /\ \A i \in Q \ Stakes(o) : staked[i] = 0
  BY <1>1, <1>2, <1>3
<1>7. /\ \A i \in Payments(o) : PaidOut[i] \in Int /\ paid[i] = PaidOut[i]
      /\ \A i \in Q \ Payments(o) : paid[i] = 0
  BY <1>1, <1>2, <1>4
<1>8. R!SumOf(Q, LAMBDA i : bets[i].ledger) = SumFunctionOnSet(lost, Q)
  BY ReportSums DEF R!SumOf
<1> HIDE DEF Q, staked, paid, lost
<1>9. SumFunctionOnSet(lost, Q) = SumFunctionOnSet(paid, Q) - SumFunctionOnSet(staked, Q)
  BY <1>2, <1>5, DifferenceSum
<1>10. SumFunctionOnSet(staked, Q) = SumFunctionOnSet(StakeOf, Stakes(o))
  BY <1>2, <1>3, <1>6, RestrictedSum
<1>11. SumFunctionOnSet(paid, Q) = SumFunctionOnSet(PaidOut, Payments(o))
  BY <1>2, <1>4, <1>7, RestrictedSum
<1>12. SumFunctionOnSet(staked, Q) \in Int /\ SumFunctionOnSet(paid, Q) \in Int
  BY <1>2, <1>5, OneAdds
<1>13. R!SumOf(R!Days, LAMBDA d : R!Settlement(d)[o].ggr) = -R!SumOf(Q, LAMBDA i : bets[i].ledger)
  <2>1. PICK a \in Int, b \in Int : a = SumFunctionOnSet(staked, Q) /\ b = SumFunctionOnSet(paid, Q)
    BY <1>12
  <2>2. R!SumOf(R!Days, LAMBDA d : R!Settlement(d)[o].ggr) = a - b
    BY <1>10, <1>11, <2>1, AllDays
  <2>3. R!SumOf(Q, LAMBDA i : bets[i].ledger) = b - a
    BY <1>8, <1>9, <2>1
  <2>4. a - b = -(b - a)
    OBVIOUS
  <2> QED
    BY <2>2, <2>3, <2>4
<1> QED
  BY <1>13 DEF Q

-----------------------------------------------------------------------------
(* The trend of the last day.                                               *)

Hour(k) == hour - (DayHours - k)
Bucket == [i \in DOMAIN bets |-> bets[i].placed - hour + DayHours]

\* A bet is in the bucket of its hour, and in one of them if it is of the last day.
LEMMA BucketsAre ==
  ASSUME ReportsInv, NEW i \in DOMAIN bets
  PROVE  /\ \A k \in 1..DayHours : bets[i].placed = Hour(k) <=> Bucket[i] = k
         /\ Bucket[i] \in 1..DayHours <=> bets[i].placed >= R!Since
         /\ bets[i].placed < hour + 1
<1>1. /\ bets[i].placed \in Nat /\ bets[i].placed <= hour /\ hour \in Nat /\ DayHours \in Nat
      /\ Bucket[i] = bets[i].placed - hour + DayHours
  BY BetRows, ReportsAssumption DEF BetHolds, Bucket
<1> QED
  BY <1>1 DEF R!Since, Hour

LEMMA BucketsPart ==
  ASSUME ReportsInv, NEW S \in SUBSET DOMAIN bets
  PROVE  Parted(S, Bucket, 1..DayHours, [k \in 1..DayHours |-> {i \in S : bets[i].placed = Hour(k)}],
                {i \in S : bets[i].placed >= R!Since})
<1> DEFINE at == [k \in 1..DayHours |-> {i \in S : bets[i].placed = Hour(k)}]
<1>1. \A k \in 1..DayHours : at[k] = {i \in S : bets[i].placed = Hour(k)}
  OBVIOUS
<1> HIDE DEF at
<1>2. Parted(S, Bucket, 1..DayHours, at, {i \in S : bets[i].placed >= R!Since})
  BY <1>1, BucketsAre DEF Parted
<1> QED
  BY <1>2 DEF at

LEMMA TrendRows ==
  ASSUME NEW o, NEW k \in 1..DayHours
  PROVE  /\ R!Trend(o)[k].bets
              = Stake * Cardinality({i \in Stakes(o) : bets[i].placed = Hour(k)})
         /\ R!Trend(o)[k].wins
              = R!Wins({i \in Mine(o) : bets[i].won = "true" /\ bets[i].placed = Hour(k)})
<1> DEFINE inHour == {i \in DOMAIN bets : bets[i].op = o /\ bets[i].currency = o.currency /\ bets[i].placed = Hour(k)}
<1>1. /\ R!Trend(o)[k].bets = Stake * R!Cardinality({i \in inHour : bets[i].status \in {"ACCEPTED", "SETTLED"}})
      /\ R!Trend(o)[k].wins = R!Wins({i \in inHour : bets[i].won = "true"})
  BY DEF R!Trend, Hour
<1>2. /\ {i \in inHour : bets[i].status \in {"ACCEPTED", "SETTLED"}} = {i \in Stakes(o) : bets[i].placed = Hour(k)}
      /\ {i \in inHour : bets[i].won = "true"} = {i \in Mine(o) : bets[i].won = "true" /\ bets[i].placed = Hour(k)}
  BY DEF Stakes, Mine
<1> HIDE DEF inHour
<1> QED
  BY <1>1, <1>2, ReportCounts

\* TrendAddsUp: the buckets of the last day hold every stake of it, and every win if none is
\* of an older stake or owed.
LEMMA StakesTrend ==
  ASSUME ReportsInv, NEW o
  PROVE  R!SumOf(1..DayHours, LAMBDA k : R!Trend(o)[k].bets) = R!AdminOverview(o).volume
<1> DEFINE at == [k \in 1..DayHours |-> {i \in Stakes(o) : bets[i].placed = Hour(k)}]
           row == [k \in 1..DayHours |-> R!Trend(o)[k].bets]
           all == {i \in Stakes(o) : bets[i].placed >= R!Since}
<1>1. /\ Stakes(o) \in SUBSET DOMAIN bets /\ IsFiniteSet(Stakes(o)) /\ all \in SUBSET DOMAIN bets
      /\ IsFiniteSet(1..DayHours) /\ Stake \in Int
      /\ \A i \in DOMAIN bets : StakeOf[i] = Stake
  <2>1. Stakes(o) \in SUBSET DOMAIN bets /\ all \in SUBSET DOMAIN bets
    BY DEF Stakes, Mine
  <2>2. IsFiniteSet(1..DayHours) /\ Stake \in Int
    BY ReportsAssumption, FS_Interval
  <2> QED
    BY <2>1, <2>2, BetRows, FS_Subset DEF StakeOf
<1>2. \A T \in SUBSET DOMAIN bets : SumFunctionOnSet(StakeOf, T) = Stake * Cardinality(T)
  <2> SUFFICES ASSUME NEW T \in SUBSET DOMAIN bets PROVE SumFunctionOnSet(StakeOf, T) = Stake * Cardinality(T)
    OBVIOUS
  <2>1. IsFiniteSet(T) /\ \A i \in T : StakeOf[i] = Stake
    BY <1>1, BetRows, FS_Subset
  <2> QED
    BY <1>1, <2>1, ConstantSum
<1>3. \A k \in 1..DayHours : row[k] = SumFunctionOnSet(StakeOf, at[k])
  <2> SUFFICES ASSUME NEW k \in 1..DayHours PROVE row[k] = SumFunctionOnSet(StakeOf, at[k])
    OBVIOUS
  <2>1. row[k] = R!Trend(o)[k].bets /\ at[k] = {i \in Stakes(o) : bets[i].placed = Hour(k)}
    OBVIOUS
  <2>2. at[k] \in SUBSET DOMAIN bets
    BY <1>1, <2>1
  <2> HIDE DEF row, at
  <2>3. row[k] = Stake * Cardinality(at[k])
    BY <2>1, TrendRows
  <2> QED
    BY <1>2, <2>2, <2>3
<1>4. R!Staked(o, R!Since, hour + 1) = all
  BY BucketsAre DEF R!Staked, Stakes, Mine
<1>5. R!AdminOverview(o).volume = Stake * Cardinality(all)
  <2>1. R!Won(o, R!Since, hour + 1) \in SUBSET DOMAIN bets
    BY DEF R!Won
  <2> HIDE DEF all
  <2> QED
    BY <1>1, <1>4, <2>1, KpisAre DEF R!AdminOverview
<1>6. R!SumOf(1..DayHours, LAMBDA k : R!Trend(o)[k].bets) = SumFunctionOnSet(row, 1..DayHours)
  BY ReportSums DEF R!SumOf
<1>7. Parted(Stakes(o), Bucket, 1..DayHours, at, all)
  BY <1>1, BucketsPart
<1>8. \A i \in Stakes(o) : StakeOf[i] \in Int
  BY <1>1
<1> HIDE DEF at, row, all
<1>9. SumFunctionOnSet(row, 1..DayHours) = SumFunctionOnSet(StakeOf, all)
  <2> DEFINE K == 1..DayHours
  <2>1. IsFiniteSet(K) /\ (\A k \in K : row[k] = SumFunctionOnSet(StakeOf, at[k])) /\ Parted(Stakes(o), Bucket, K, at, all)
    BY <1>1, <1>3, <1>7
  <2> HIDE DEF K
  <2>2. SumFunctionOnSet(row, K) = SumFunctionOnSet(StakeOf, all)
    BY <1>1, <1>8, <2>1, PartitionSum
  <2> QED
    BY <2>2 DEF K
<1> QED
  BY <1>1, <1>2, <1>5, <1>6, <1>9

LEMMA WinsTrend ==
  ASSUME ReportsInv, NEW o, \A i \in DOMAIN bets : bets[i].placed >= R!Since /\ bets[i].status # "FAILED"
  PROVE  R!SumOf(1..DayHours, LAMBDA k : R!Trend(o)[k].wins) = R!AdminOverview(o).paid
<1> DEFINE S == {i \in Mine(o) : bets[i].won = "true"}
           at == [k \in 1..DayHours |-> {i \in S : bets[i].placed = Hour(k)}]
           row == [k \in 1..DayHours |-> R!Trend(o)[k].wins]
           all == {i \in S : bets[i].placed >= R!Since}
<1>1. S \in SUBSET DOMAIN bets /\ IsFiniteSet(S) /\ all = S /\ IsFiniteSet(1..DayHours) /\ \A i \in S : PaidOut[i] \in Int
  <2>1. S \in SUBSET DOMAIN bets /\ all = S
    BY DEF Mine
  <2>2. IsFiniteSet(1..DayHours)
    BY ReportsAssumption, FS_Interval
  <2>3. \A i \in DOMAIN bets : PaidOut[i] \in Int
    BY BetRows DEF PaidOut, BetHolds, ReportBet
  <2> QED
    BY <2>1, <2>2, <2>3, BetRows, FS_Subset
<1>2. R!Won(o, R!Since, hour + 1) = S
  <2> SUFFICES ASSUME NEW i \in DOMAIN bets, bets[i].won = "true"
               PROVE  bets[i].settled >= R!Since /\ bets[i].settled < hour + 1
    BY DEF R!Won, Mine
  <2>1. PICK b : b = bets[i]
    OBVIOUS
  <2>2. /\ b \in ReportBet /\ Lives(b) /\ b.settled \in -1..hour /\ b.won = "true" /\ b.status # "FAILED"
        /\ b.placed >= R!Since /\ hour \in Nat /\ DayHours \in Nat
    BY <2>1, BetRows, ReportsAssumption DEF BetHolds
  <2>3. b.status = "SETTLED"
    BY <2>2 DEF Lives, ReportBet, R!Status
  <2>4. b.settled >= b.placed /\ b.settled \in Int /\ b.placed \in Int /\ R!Since \in Int
    BY <2>2, <2>3 DEF Lives, ReportBet, R!Since
  <2> QED
    BY <2>1, <2>2, <2>4
<1>3. R!AdminOverview(o).paid = SumFunctionOnSet(PaidOut, S)
  <2>1. R!Staked(o, R!Since, hour + 1) \in SUBSET DOMAIN bets
    BY DEF R!Staked
  <2> HIDE DEF S
  <2> QED
    BY <1>1, <1>2, <2>1, KpisAre DEF R!AdminOverview
<1>4. \A k \in 1..DayHours : row[k] = SumFunctionOnSet(PaidOut, at[k])
  <2> SUFFICES ASSUME NEW k \in 1..DayHours PROVE row[k] = SumFunctionOnSet(PaidOut, at[k])
    OBVIOUS
  <2>1. /\ {i \in Mine(o) : bets[i].won = "true" /\ bets[i].placed = Hour(k)} = at[k]
        /\ at[k] \in SUBSET DOMAIN bets /\ row[k] = R!Trend(o)[k].wins
    BY <1>1
  <2> HIDE DEF row, at
  <2>2. R!Trend(o)[k].wins = R!Wins({i \in Mine(o) : bets[i].won = "true" /\ bets[i].placed = Hour(k)})
    BY TrendRows
  <2>3. row[k] = R!Wins(at[k])
    BY <2>1, <2>2
  <2>4. at[k] \in SUBSET DOMAIN bets
    BY <2>1
  <2>5. R!Wins(at[k]) = SumFunctionOnSet(PaidOut, at[k])
    BY <2>4, WinsAre
  <2> QED
    BY <2>3, <2>5
<1>5. R!SumOf(1..DayHours, LAMBDA k : R!Trend(o)[k].wins) = SumFunctionOnSet(row, 1..DayHours)
  BY ReportSums DEF R!SumOf
<1>6. Parted(S, Bucket, 1..DayHours, at, all)
  BY <1>1, BucketsPart
<1> HIDE DEF S, at, row, all
<1>7. SumFunctionOnSet(row, 1..DayHours) = SumFunctionOnSet(PaidOut, S)
  <2> DEFINE K == 1..DayHours
  <2>1. IsFiniteSet(K) /\ (\A k \in K : row[k] = SumFunctionOnSet(PaidOut, at[k])) /\ Parted(S, Bucket, K, at, S)
    BY <1>1, <1>4, <1>6
  <2> HIDE DEF K
  <2>2. SumFunctionOnSet(row, K) = SumFunctionOnSet(PaidOut, S)
    BY <1>1, <2>1, PartitionSum
  <2> QED
    BY <2>2 DEF K
<1> QED
  BY <1>3, <1>5, <1>7

LEMMA TheTrendAddsUp == ASSUME ReportsInv PROVE R!TrendAddsUp
BY StakesTrend, WinsTrend DEF R!TrendAddsUp

-----------------------------------------------------------------------------
(* RTP, statements and sessions.                                            *)

\* RtpOfTheSameBets: what has a result and an hour it was settled at is settled.
LEMMA TheSameBets == ASSUME ReportsInv PROVE R!RtpOfTheSameBets
<1> SUFFICES ASSUME NEW o, NEW from \in 0..MaxHour, NEW i \in R!RtpWins(o, from)
             PROVE  i \in R!RtpBets(o, from)
  BY DEF R!RtpOfTheSameBets
<1>1. /\ i \in DOMAIN bets /\ bets[i].op = o /\ bets[i].currency = o.currency
      /\ bets[i].settled >= from
  BY DEF R!RtpWins
<1>2. bets[i].settled \in Int /\ bets[i].settled # -1
  BY <1>1, BetRows DEF BetHolds, ReportBet
<1>3. bets[i].status = "SETTLED"
  BY <1>1, <1>2, BetRows DEF BetHolds, Lives
<1> QED
  BY <1>1, <1>3 DEF R!RtpBets

\* SettledBetsAddUp: a settled bet did what its result says, and a session of settled bets
\* what they did.
LEMMA SettledBetsDo == ASSUME ReportsInv PROVE R!SettledBetsAddUp
<1> DEFINE D == DOMAIN bets
           lost == [i \in D |-> bets[i].ledger]
<1>1. ASSUME NEW i \in DOMAIN bets, bets[i].status = "SETTLED"
      PROVE  R!HistoryNet(i) = bets[i].ledger /\ bets[i].ledger = PaidOut[i] - StakeOf[i]
  <2>1. PICK b : b = bets[i]
    OBVIOUS
  <2>2. /\ \/ b.won = "false" /\ b.wonAmount = 0 /\ b.ledger = -Stake
           \/ b.won = "true" /\ b.wonAmount = Win /\ b.ledger = Win - Stake
        /\ PaidOut[i] = b.wonAmount /\ StakeOf[i] = Stake /\ Stake \in Int /\ Win \in Int
    BY <1>1, <2>1, BetRows, ReportsAssumption DEF BetHolds, Lives, PaidOut, StakeOf
  <2>3. R!HistoryNet(i) = IF b.won = "true" THEN b.wonAmount - Stake ELSE -Stake
    BY <2>1 DEF R!HistoryNet
  <2> QED
    BY <2>1, <2>2, <2>3
<1>2. ASSUME Len(bets) <= Newest, \A i \in DOMAIN bets : bets[i].status = "SETTLED"
      PROVE  R!SessionSummary.net = -R!SumOf(DOMAIN bets, LAMBDA i : bets[i].ledger)
  <2>1. {i \in DOMAIN bets : i > Len(bets) - Newest} = DOMAIN bets
    BY <1>2, BetRows, ReportsAssumption
  <2>2. R!SessionSummary.net = Stake * Cardinality(DOMAIN bets) - R!Wins(DOMAIN bets)
    BY <2>1, ReportCounts DEF R!SessionSummary
  <2>3. \A i \in D : /\ PaidOut[i] \in Int /\ StakeOf[i] = Stake /\ StakeOf[i] \in Int
                     /\ lost[i] = PaidOut[i] - StakeOf[i]
    BY <1>1, <1>2, BetRows, ReportsAssumption DEF BetHolds, ReportBet, PaidOut, StakeOf
  <2>4. R!SumOf(D, LAMBDA i : bets[i].ledger) = SumFunctionOnSet(lost, D)
    BY ReportSums DEF R!SumOf
  <2>5. IsFiniteSet(D) /\ D \in SUBSET DOMAIN bets
    BY BetRows
  <2>6. R!Wins(D) = SumFunctionOnSet(PaidOut, D)
    BY <2>5, WinsAre
  <2> HIDE DEF D, lost
  <2>7. SumFunctionOnSet(lost, D) = SumFunctionOnSet(PaidOut, D) - SumFunctionOnSet(StakeOf, D)
    BY <2>3, <2>5, DifferenceSum
  <2>8. SumFunctionOnSet(StakeOf, D) = Stake * Cardinality(D)
    <3>1. Stake \in Int /\ \A i \in D : StakeOf[i] = Stake
      BY <2>3, ReportsAssumption
    <3> QED
      BY <2>5, <3>1, ConstantSum
  <2>9. PICK a \in Int, b \in Int : a = SumFunctionOnSet(StakeOf, D) /\ b = SumFunctionOnSet(PaidOut, D)
    BY <2>3, <2>5, OneAdds
  <2>10. R!SessionSummary.net = a - b
    BY <2>2, <2>6, <2>8, <2>9 DEF D
  <2>11. R!SumOf(D, LAMBDA i : bets[i].ledger) = b - a
    BY <2>4, <2>7, <2>9
  <2>12. a - b = -(b - a)
    OBVIOUS
  <2>13. R!SessionSummary.net = -R!SumOf(D, LAMBDA i : bets[i].ledger)
    BY <2>10, <2>11, <2>12
  <2> QED
    BY <2>13 DEF D
<1> QED
  BY <1>1, <1>2 DEF R!SettledBetsAddUp

-----------------------------------------------------------------------------
(* The verdicts over given figures.                                         *)

\* SlaIsTheWorst: the statuses of the endpoints are taken one by one, and the worse is kept.
LEMMA WorstOfTwo ==
  ASSUME NEW e, NEW f
  PROVE  LET s == R!SlaStatus(e.total, e.failed, e.p99)
             t == R!SlaStatus(f.total, f.failed, f.p99)
             worse(w, x) == IF x = "breach" \/ (x = "warn" /\ w = "ok") THEN x ELSE w
         IN  R!SlaOverall(<<e, f>>) = worse(worse("ok", s), t)
<1> DEFINE two == <<e, f>>
           worse(w, x) == IF x = "breach" \/ (x = "warn" /\ w = "ok") THEN x ELSE w
           status(n) == R!SlaStatus(two[n].total, two[n].failed, two[n].p99)
           Step(g, n) == IF n = 0 THEN "ok" ELSE worse(g[n - 1], status(n))
           it == CHOOSE g : g = [n \in 0..2 |-> Step(g, n)]
<1>1. \E g : g = [n \in 0..2 |-> Step(g, n)]
  <2> DEFINE g == [n \in 0..2 |-> IF n = 0 THEN "ok" ELSE IF n = 1 THEN worse("ok", status(1))
                                  ELSE worse(worse("ok", status(1)), status(2))]
  <2> HIDE DEF worse, status
  <2>1. g[0] = "ok" /\ g[1] = worse("ok", status(1)) /\ g[2] = worse(worse("ok", status(1)), status(2))
    OBVIOUS
  <2>2. \A n \in 0..2 : g[n] = Step(g, n)
    BY <2>1
  <2>3. g = [n \in 0..2 |-> g[n]]
    OBVIOUS
  <2> HIDE DEF g, Step
  <2>4. g = [n \in 0..2 |-> Step(g, n)]
    BY <2>2, <2>3
  <2> QED
    BY <2>4
<1>2. it = [n \in 0..2 |-> Step(it, n)]
  <2> HIDE DEF Step
  <2> QED
    BY <1>1
<1>3. R!SlaOverall(<<e, f>>) = it[2]
  <2>1. Len(two) = 2
    OBVIOUS
  <2> QED
    BY <2>1 DEF R!SlaOverall
<1> HIDE DEF it
<1>4. it[0] = "ok" /\ it[1] = worse(it[0], status(1)) /\ it[2] = worse(it[1], status(2))
  <2> HIDE DEF worse, status
  <2> QED
    BY <1>2
<1>5. status(1) = R!SlaStatus(e.total, e.failed, e.p99) /\ status(2) = R!SlaStatus(f.total, f.failed, f.p99)
  OBVIOUS
<1> QED
  BY <1>3, <1>4, <1>5

LEMMA TheSlaIsTheWorst == R!SlaIsTheWorst
<1> DEFINE rank == [ok |-> 0, warn |-> 1, breach |-> 2]
           endpoint == [total : {0, 1000}, failed : {0, 1, 2}, p99 : {0, P99 - 1, P99}]
           of(e) == R!SlaStatus(e.total, e.failed, e.p99)
<1>1. \A e : of(e) \in {"ok", "warn", "breach"}
  BY DEF R!SlaStatus
<1>2. rank["ok"] = 0 /\ rank["warn"] = 1 /\ rank["breach"] = 2
  OBVIOUS
<1>3. \A m, n \in Int : R!Max({m, n}) = IF m >= n THEN m ELSE n
  <2> SUFFICES ASSUME NEW m \in Int, NEW n \in Int PROVE R!Max({m, n}) = IF m >= n THEN m ELSE n
    OBVIOUS
  <2>1. PICK k : k = IF m >= n THEN m ELSE n
    OBVIOUS
  <2>2. k \in {m, n} /\ (\A y \in {m, n} : k >= y) /\ \A x \in {m, n} : (\A y \in {m, n} : x >= y) => x = k
    BY <2>1
  <2>3. R!Max({m, n}) = k
    BY <2>2 DEF R!Max
  <2> QED
    BY <2>1, <2>3
<1>4. ASSUME NEW e \in endpoint, NEW f \in endpoint
      PROVE  rank[R!SlaOverall(<<e, f>>)] = R!Max({rank[of(e)], rank[of(f)]})
  <2>1. PICK s, t : s = of(e) /\ t = of(f)
    OBVIOUS
  <2>2. s \in {"ok", "warn", "breach"} /\ t \in {"ok", "warn", "breach"}
    BY <1>1, <2>1
  <2> DEFINE worse(w, x) == IF x = "breach" \/ (x = "warn" /\ w = "ok") THEN x ELSE w
  <2>3. R!SlaOverall(<<e, f>>) = worse(worse("ok", s), t)
    BY <2>1, WorstOfTwo
  <2>4. rank[worse(worse("ok", s), t)] = IF rank[s] >= rank[t] THEN rank[s] ELSE rank[t]
    <3> HIDE DEF rank
    <3> QED
      BY <1>2, <2>2
  <2>5. rank[s] \in Int /\ rank[t] \in Int
    BY <1>2, <2>2
  <2> HIDE DEF rank
  <2> QED
    BY <1>3, <2>1, <2>3, <2>4, <2>5
<1>5. ASSUME NEW e \in endpoint, NEW f \in endpoint, e.total = f.total, e.failed <= f.failed, e.p99 <= f.p99
      PROVE  rank[of(e)] <= rank[of(f)]
  <2>1. PICK n, a, b, p, q : n = e.total /\ a = e.failed /\ b = f.failed /\ p = e.p99 /\ q = f.p99
    OBVIOUS
  <2>2. n \in Nat /\ a \in Nat /\ b \in Nat /\ p \in Int /\ q \in Int /\ a <= b /\ p <= q /\ P99 \in Nat
    BY <1>5, <2>1, ReportsAssumption
  <2>3. of(e) = R!SlaStatus(n, a, p) /\ of(f) = R!SlaStatus(n, b, q)
    BY <1>5, <2>1
  <2> HIDE DEF of, rank
  <2>4. /\ R!SlaStatus(n, a, p) = "breach" => R!SlaStatus(n, b, q) = "breach"
        /\ R!SlaStatus(n, a, p) = "warn" => R!SlaStatus(n, b, q) \in {"warn", "breach"}
    BY <2>2 DEF R!SlaStatus
  <2>5. of(e) \in {"ok", "warn", "breach"} /\ of(f) \in {"ok", "warn", "breach"}
    BY <1>1
  <2> QED
    BY <1>2, <2>3, <2>4, <2>5
<1> QED
  BY <1>4, <1>5 DEF R!SlaIsTheWorst

\* The square of the distance from the declared ratio, and of one sigma, of n bets.
Distance(n, won) == (won * 10 - n * (10 - 1)) * (won * 10 - n * (10 - 1)) * n
Sigma(n) == (n * (10 - 1)) * (n * (10 - 1))
FlagOf(x, y) == IF x > 9 * y THEN "drift" ELSE IF x > 4 * y THEN "watch" ELSE "ok"

LEMMA FlagIs ==
  ASSUME NEW n \in Nat, NEW won \in Nat
  PROVE  /\ R!RtpFlag(n, n, won, 1, 10)
              = IF n < LowN \/ n = 0 THEN "low_n" ELSE FlagOf(Distance(n, won), Sigma(n))
         /\ Distance(n, won) \in Int /\ Sigma(n) \in Nat
         /\ Distance(2 * n, 2 * won) = 8 * Distance(n, won) /\ Sigma(2 * n) = 4 * Sigma(n)
<1>1. PICK d \in Int, u \in Nat : d = won * 10 - n * (10 - 1) /\ u = n * (10 - 1)
  <2>1. won * 10 - n * (10 - 1) \in Int /\ n * (10 - 1) \in Nat
    OBVIOUS
  <2> QED
    BY <2>1
<1>2. /\ (2 * won) * 10 - (2 * n) * (10 - 1) = 2 * d /\ (2 * n) * (10 - 1) = 2 * u
  BY <1>1
<1>3. PICK x \in Int : x = d * d * n
  <2>1. \A a, b \in Int : a * b \in Int
    OBVIOUS
  <2>2. d * d \in Int
    BY <2>1
  <2>3. d * d * n \in Int
    BY <2>1, <2>2
  <2> QED
    BY <2>3
<1>4. PICK y \in Nat : y = u * u
  <2>1. \A a, b \in Nat : a * b \in Nat
    OBVIOUS
  <2> QED
    BY <2>1
<1>5. 9 * u * u = 9 * y /\ 4 * u * u = 4 * y
  BY <1>4
<1>6. (2 * d) * (2 * d) * (2 * n) = 8 * x /\ (2 * u) * (2 * u) = 4 * y
  BY <1>3, <1>4
<1>7. /\ Distance(n, won) = x /\ Sigma(n) = y
      /\ Distance(2 * n, 2 * won) = 8 * x /\ Sigma(2 * n) = 4 * y
  BY <1>1, <1>2, <1>3, <1>4, <1>6 DEF Distance, Sigma
<1>8. R!RtpFlag(n, n, won, 1, 10) = IF n < LowN \/ n = 0 THEN "low_n" ELSE FlagOf(x, y)
  <2>1. R!RtpFlag(n, n, won, 1, 10) = IF n < LowN \/ n = 0 THEN "low_n"
                                      ELSE IF d * d * n > 9 * u * u THEN "drift"
                                      ELSE IF d * d * n > 4 * u * u THEN "watch" ELSE "ok"
    BY <1>1 DEF R!RtpFlag
  <2> QED
    BY <1>3, <1>5, <2>1 DEF FlagOf
<1> QED
  BY <1>7, <1>8

\* RtpFlagIsTheBand: twice the bets with the same ratio are further out in sigmas.
LEMMA TheFlagIsTheBand == R!RtpFlagIsTheBand
<1> DEFINE rank == [ok |-> 0, watch |-> 1, drift |-> 2]
           flag(n, won) == R!RtpFlag(n, n, won, 1, 10)
<1>1. rank["ok"] = 0 /\ rank["watch"] = 1 /\ rank["drift"] = 2
  OBVIOUS
<1>2. ASSUME NEW n \in Nat, NEW won \in Nat
      PROVE  /\ (flag(n, won) = "low_n") = (n < LowN \/ n = 0)
             /\ n >= LowN /\ n > 0 => rank[flag(n, won)] <= rank[flag(2 * n, 2 * won)]
             /\ n >= LowN /\ n > 0 /\ 10 * won = 9 * n => flag(n, won) = "ok"
  <2>1. PICK x \in Int, y \in Nat : x = Distance(n, won) /\ y = Sigma(n)
    BY FlagIs
  <2>2. flag(n, won) = IF n < LowN \/ n = 0 THEN "low_n" ELSE FlagOf(x, y)
    BY <2>1, FlagIs
  <2>3. flag(2 * n, 2 * won) = IF 2 * n < LowN \/ 2 * n = 0 THEN "low_n" ELSE FlagOf(8 * x, 4 * y)
    <3>1. 2 * n \in Nat /\ 2 * won \in Nat
      OBVIOUS
    <3>2. flag(2 * n, 2 * won) = IF 2 * n < LowN \/ 2 * n = 0 THEN "low_n"
                                 ELSE FlagOf(Distance(2 * n, 2 * won), Sigma(2 * n))
      BY <3>1, FlagIs
    <3>3. Distance(2 * n, 2 * won) = 8 * x /\ Sigma(2 * n) = 4 * y
      BY <2>1, FlagIs
    <3> QED
      BY <3>2, <3>3
  <2> HIDE DEF rank, flag
  <2>4. (flag(n, won) = "low_n") = (n < LowN \/ n = 0)
    BY <2>2 DEF FlagOf
  <2>5. ASSUME n >= LowN, n > 0 PROVE rank[flag(n, won)] <= rank[flag(2 * n, 2 * won)]
    <3>1. flag(n, won) = FlagOf(x, y) /\ flag(2 * n, 2 * won) = FlagOf(8 * x, 4 * y)
      <4>1. ~(n < LowN \/ n = 0) /\ ~(2 * n < LowN \/ 2 * n = 0)
        BY <2>5, ReportsAssumption
      <4> QED
        BY <2>2, <2>3, <4>1
    <3>2. /\ FlagOf(x, y) = "drift" => FlagOf(8 * x, 4 * y) = "drift"
          /\ FlagOf(x, y) = "watch" => FlagOf(8 * x, 4 * y) \in {"watch", "drift"}
          /\ FlagOf(x, y) \in {"ok", "watch", "drift"} /\ FlagOf(8 * x, 4 * y) \in {"ok", "watch", "drift"}
      BY DEF FlagOf
    <3> QED
      BY <1>1, <3>1, <3>2
  <2>6. ASSUME n >= LowN, n > 0, 10 * won = 9 * n PROVE flag(n, won) = "ok"
    <3>1. x = 0
      <4>1. won * 10 - n * (10 - 1) = 0
        BY <2>6
      <4>2. 0 * 0 * n = 0
        OBVIOUS
      <4> QED
        BY <2>1, <4>1, <4>2 DEF Distance
    <3>2. ~(n < LowN \/ n = 0)
      BY <2>6, ReportsAssumption
    <3> QED
      BY <2>2, <3>1, <3>2 DEF FlagOf
  <2> QED
    BY <2>4, <2>5, <2>6
<1>3. \A n \in 0..20 : \A won \in 0..(5 * n) : n \in Nat /\ won \in Nat
  OBVIOUS
<1> QED
  BY <1>2, <1>3 DEF R!RtpFlagIsTheBand

\* HealthCounts: two operators, each of one class.
LEMMA OfTwo ==
  ASSUME NEW H, NEW h
  PROVE  R!Cardinality({o \in {1, 2} : H[o] = h})
            = (IF H[1] = h THEN 1 ELSE 0) + (IF H[2] = h THEN 1 ELSE 0)
<1> DEFINE S == {o \in {1, 2} : H[o] = h}
<1>1. Cardinality({}) = 0 /\ Cardinality({1}) = 1 /\ Cardinality({2}) = 1 /\ Cardinality({1, 2}) = 2
  <2>1. {1, 2} = {1} \cup {2} /\ 2 \notin {1} /\ IsFiniteSet({1}) /\ Cardinality({1}) = 1
    BY FS_Singleton
  <2>2. Cardinality({1} \cup {2}) = 1 + 1
    BY <2>1, FS_AddElement
  <2> QED
    BY <2>1, <2>2, FS_EmptySet, FS_Singleton
<1>2. S = IF H[1] = h THEN (IF H[2] = h THEN {1, 2} ELSE {1}) ELSE (IF H[2] = h THEN {2} ELSE {})
  OBVIOUS
<1> HIDE DEF S
<1>3. Cardinality(S) = (IF H[1] = h THEN 1 ELSE 0) + (IF H[2] = h THEN 1 ELSE 0)
  BY <1>1, <1>2
<1> QED
  BY <1>3, ReportCounts DEF S

LEMMA TheHealthCounts == R!HealthCounts
<1> SUFFICES ASSUME NEW counts \in [{1, 2} -> [failed : 0..1, held : 0..1, jobs : 0..1]]
             PROVE  LET t == R!SettlementTotals(counts) IN
                    /\ t.healthy + t.warnings + t.incidents = 2
                    /\ (t.incidents = 0) = (\A o \in {1, 2} : counts[o].held = 0 /\ counts[o].jobs = 0)
                    /\ t.healthy = 2 => t.failed = 0
  BY DEF R!HealthCounts
<1> DEFINE H == [o \in {1, 2} |-> R!Health(counts[o].failed, counts[o].held, counts[o].jobs)]
           failed == [o \in {1, 2} |-> counts[o].failed]
           t == R!SettlementTotals(counts)
           one(x, h) == IF x = h THEN 1 ELSE 0
<1>1. DOMAIN counts = {1, 2} /\ \A o \in {1, 2} : counts[o] \in [failed : 0..1, held : 0..1, jobs : 0..1]
  OBVIOUS
<1>2. \A h : R!Cardinality({o \in DOMAIN counts : R!Health(counts[o].failed, counts[o].held, counts[o].jobs) = h})
                = one(H[1], h) + one(H[2], h)
  <2> SUFFICES ASSUME NEW h
               PROVE  R!Cardinality({o \in DOMAIN counts : R!Health(counts[o].failed, counts[o].held, counts[o].jobs) = h})
                         = one(H[1], h) + one(H[2], h)
    OBVIOUS
  <2>1. {o \in DOMAIN counts : R!Health(counts[o].failed, counts[o].held, counts[o].jobs) = h} = {o \in {1, 2} : H[o] = h}
    BY <1>1
  <2> HIDE DEF H
  <2> QED
    BY <2>1, OfTwo
<1>3. /\ t.healthy = one(H[1], "healthy") + one(H[2], "healthy")
      /\ t.warnings = one(H[1], "warning") + one(H[2], "warning")
      /\ t.incidents = one(H[1], "incident") + one(H[2], "incident")
      /\ t.failed = SumFunctionOnSet(failed, {1, 2})
  <2>1. t.failed = SumFunctionOnSet(failed, {1, 2})
    BY <1>1, ReportSums DEF R!SettlementTotals, R!SumOf
  <2> HIDE DEF H, one
  <2>2. /\ t.healthy = one(H[1], "healthy") + one(H[2], "healthy")
        /\ t.warnings = one(H[1], "warning") + one(H[2], "warning")
        /\ t.incidents = one(H[1], "incident") + one(H[2], "incident")
    BY <1>2 DEF R!SettlementTotals
  <2> QED
    BY <2>1, <2>2
<1>4. \A o \in {1, 2} : /\ H[o] \in {"healthy", "warning", "incident"}
                        /\ (H[o] = "incident") = ~(counts[o].held = 0 /\ counts[o].jobs = 0)
                        /\ H[o] = "healthy" => failed[o] = 0
  <2> SUFFICES ASSUME NEW o \in {1, 2}
               PROVE  /\ H[o] \in {"healthy", "warning", "incident"}
                      /\ (H[o] = "incident") = ~(counts[o].held = 0 /\ counts[o].jobs = 0)
                      /\ H[o] = "healthy" => failed[o] = 0
    OBVIOUS
  <2>1. PICK f \in 0..1, s \in 0..1, j \in 0..1 : f = counts[o].failed /\ s = counts[o].held /\ j = counts[o].jobs
    BY <1>1
  <2>2. H[o] = R!Health(f, s, j) /\ failed[o] = f
    BY <2>1
  <2>3. /\ R!Health(f, s, j) \in {"healthy", "warning", "incident"}
        /\ R!Health(f, s, j) = "incident" <=> ~(s = 0 /\ j = 0)
        /\ R!Health(f, s, j) = "healthy" => f = 0
    BY DEF R!Health
  <2> HIDE DEF H, failed
  <2> QED
    BY <2>1, <2>2, <2>3
<1>5. t.healthy = 2 => t.failed = 0
  <2> SUFFICES ASSUME t.healthy = 2 PROVE t.failed = 0
    OBVIOUS
  <2>1. H[1] = "healthy" /\ H[2] = "healthy"
    <3> HIDE DEF H, t
    <3> QED
      BY <1>3
  <2>2. IsFiniteSet({1, 2})
    <3>1. IsFiniteSet({1}) /\ {1, 2} = {1} \cup {2}
      BY FS_Singleton
    <3> QED
      BY <3>1, FS_AddElement
  <2> HIDE DEF failed, H, t
  <2>3. \A o \in {1, 2} : failed[o] = 0
    BY <1>4, <2>1
  <2>4. SumFunctionOnSet(failed, {1, 2}) = 0
    BY <2>2, <2>3, ZeroSum
  <2> QED
    BY <1>3, <2>4
<1> HIDE DEF H, t, failed
<1>6. t.healthy + t.warnings + t.incidents = 2
  BY <1>3, <1>4
<1>7. t.incidents = 0 <=> \A o \in {1, 2} : counts[o].held = 0 /\ counts[o].jobs = 0
  <2>1. t.incidents = 0 <=> H[1] # "incident" /\ H[2] # "incident"
    BY <1>3
  <2>2. \A o \in {1, 2} : H[o] = "incident" <=> ~(counts[o].held = 0 /\ counts[o].jobs = 0)
    BY <1>4
  <2> QED
    BY <2>1, <2>2
<1>8. (t.incidents = 0) = (\A o \in {1, 2} : counts[o].held = 0 /\ counts[o].jobs = 0)
  BY <1>7
<1>9. /\ t.healthy + t.warnings + t.incidents = 2
      /\ (t.incidents = 0) = (\A o \in {1, 2} : counts[o].held = 0 /\ counts[o].jobs = 0)
      /\ t.healthy = 2 => t.failed = 0
  BY <1>5, <1>6, <1>8
<1> QED
  BY <1>9 DEF t

-----------------------------------------------------------------------------
(* The feed as CSV.  A reader of a line goes from state to state; what is   *)
(* read of two pieces one after the other is read of them together.         *)

ReadPut(s, c) == [s EXCEPT !.fields[Len(s.fields)] = Append(@, c), !.quote = FALSE]
ReadStep(s, c) ==
    CASE c = R!Quote /\ ~s.inside -> IF s.quote THEN [ReadPut(s, c) EXCEPT !.inside = TRUE] ELSE [s EXCEPT !.inside = TRUE]
      [] c = R!Quote /\ s.inside -> [s EXCEPT !.inside = FALSE, !.quote = TRUE]
      [] c = R!Comma /\ ~s.inside -> [s EXCEPT !.fields = Append(@, <<>>), !.quote = FALSE]
      [] OTHER -> ReadPut(s, c)

\* Reading w from s on ends in t, through the states of g.
Through(g, s, w, t) == g[0] = s /\ (\A n \in 1..Len(w) : g[n] = ReadStep(g[n - 1], w[n])) /\ g[Len(w)] = t
Reads(s, w, t) == \E g : Through(g, s, w, t)

\* The reader with the fields F behind it, in the field x.
Reader(F, x, inside, quote) == [fields |-> Append(F, x), inside |-> inside, quote |-> quote]

LEMMA ReadOne == ASSUME NEW s, NEW c PROVE Reads(s, <<c>>, ReadStep(s, c))
<1> DEFINE g == [n \in 0..1 |-> IF n = 0 THEN s ELSE ReadStep(s, c)]
<1>1. g[0] = s /\ g[1] = ReadStep(s, c) /\ Len(<<c>>) = 1 /\ <<c>>[1] = c
  OBVIOUS
<1> HIDE DEF g
<1>2. Through(g, s, <<c>>, ReadStep(s, c))
  <2>1. \A n \in 1..1 : n = 1 /\ n - 1 = 0
    OBVIOUS
  <2> QED
    BY <1>1, <2>1 DEF Through
<1> QED
  BY <1>2 DEF Reads

LEMMA ReadBoth ==
  ASSUME NEW X, NEW v \in Seq(X), NEW w \in Seq(X), NEW s, NEW t, NEW u, Reads(s, v, t), Reads(t, w, u)
  PROVE  v \o w \in Seq(X) /\ Reads(s, v \o w, u)
<1>1. PICK g : Through(g, s, v, t)
  BY DEF Reads
<1>2. PICK h : Through(h, t, w, u)
  BY DEF Reads
<1>3. PICK a \in Nat, b \in Nat : a = Len(v) /\ b = Len(w)
  BY LenProperties
<1>4. /\ Len(v \o w) = a + b /\ v \o w \in Seq(X)
      /\ \A n \in 1..(a + b) : (v \o w)[n] = IF n <= a THEN v[n] ELSE w[n - a]
  BY <1>3, ConcatProperties
<1> DEFINE f == [n \in 0..(a + b) |-> IF n <= a THEN g[n] ELSE h[n - a]]
<1>5. /\ f[0] = g[0]
      /\ f[a + b] = IF b = 0 THEN g[a] ELSE h[b]
      /\ \A n \in 0..(a + b) : f[n] = IF n <= a THEN g[n] ELSE h[n - a]
  BY <1>3
<1> HIDE DEF f
<1>6. /\ g[0] = s /\ (\A n \in 1..a : g[n] = ReadStep(g[n - 1], v[n])) /\ g[a] = t
      /\ h[0] = t /\ (\A n \in 1..b : h[n] = ReadStep(h[n - 1], w[n])) /\ h[b] = u
  BY <1>1, <1>2, <1>3 DEF Through
<1>7. ASSUME NEW n \in 1..(a + b) PROVE f[n] = ReadStep(f[n - 1], (v \o w)[n])
  <2>1. CASE n <= a
    <3>1. n \in 1..a /\ n - 1 \in 0..(a + b) /\ n \in 0..(a + b) /\ n - 1 <= a
      BY <2>1
    <3>2. f[n] = g[n] /\ f[n - 1] = g[n - 1] /\ (v \o w)[n] = v[n]
      BY <1>4, <1>5, <2>1, <3>1
    <3> QED
      BY <1>6, <3>1, <3>2
  <2>2. CASE ~(n <= a)
    <3>1. n - a \in 1..b /\ n - 1 \in 0..(a + b) /\ n \in 0..(a + b)
      BY <2>2
    <3>2. f[n] = h[n - a] /\ (v \o w)[n] = w[n - a]
      BY <1>4, <1>5, <2>2, <3>1
    <3>3. f[n - 1] = h[(n - a) - 1]
      <4>1. CASE n - 1 = a
        BY <1>3, <1>5, <1>6, <3>1, <4>1
      <4>2. CASE n - 1 # a
        <5>1. ~(n - 1 <= a) /\ (n - 1) - a = (n - a) - 1
          BY <1>3, <2>2, <4>2
        <5> QED
          BY <1>5, <3>1, <5>1
      <4> QED
        BY <4>1, <4>2
    <3> QED
      BY <1>6, <3>1, <3>2, <3>3
  <2> QED
    BY <2>1, <2>2
<1>8. f[0] = s /\ f[a + b] = u
  BY <1>3, <1>5, <1>6
<1>9. Through(f, s, v \o w, u)
  BY <1>4, <1>7, <1>8 DEF Through
<1> QED
  BY <1>4, <1>9 DEF Reads

\* What a reader makes of a line is where it ends.
LEMMA CsvFieldsAre ==
  ASSUME NEW X, NEW line \in Seq(X), NEW t, Reads(Reader(<<>>, <<>>, FALSE, FALSE), line, t)
  PROVE  R!CsvFields(line) = t.fields
<1> DEFINE s0 == [fields |-> << <<>> >>, inside |-> FALSE, quote |-> FALSE]
           N == Len(line)
           Step(f, n) == IF n = 0 THEN s0 ELSE ReadStep(f[n - 1], line[n])
           it == CHOOSE f : f = [n \in 0..N |-> Step(f, n)]
<1>1. N \in Nat
  BY LenProperties
<1>2. Reader(<<>>, <<>>, FALSE, FALSE) = s0
  <2>1. Append(<<>>, <<>>) = << <<>> >>
    OBVIOUS
  <2> QED
    BY <2>1 DEF Reader
<1>3. R!CsvFields(line) = it[N].fields
  BY DEF R!CsvFields, ReadStep, ReadPut
<1> HIDE DEF s0, N
<1>4. PICK g : g[0] = s0 /\ (\A n \in 1..N : g[n] = ReadStep(g[n - 1], line[n])) /\ g[N] = t
  BY <1>2 DEF Reads, Through, N
<1>5. \E f : f = [n \in 0..N |-> Step(f, n)]
  <2> DEFINE f == [n \in 0..N |-> g[n]]
  <2>1. \A n \in 0..N : f[n] = g[n]
    OBVIOUS
  <2>2. f = [n \in 0..N |-> f[n]]
    OBVIOUS
  <2> HIDE DEF f
  <2>3. \A n \in 0..N : f[n] = Step(f, n)
    <3> SUFFICES ASSUME NEW n \in 0..N PROVE f[n] = Step(f, n)
      OBVIOUS
    <3>1. CASE n = 0
      BY <1>1, <1>4, <2>1, <3>1
    <3>2. CASE n # 0
      <4>1. n \in 1..N /\ n - 1 \in 0..N
        BY <1>1, <3>2
      <4> QED
        BY <1>4, <2>1, <3>2, <4>1
    <3> QED
      BY <3>1, <3>2
  <2> HIDE DEF Step
  <2>4. f = [n \in 0..N |-> Step(f, n)]
    BY <2>2, <2>3
  <2> QED
    BY <2>4
<1>6. it = [n \in 0..N |-> Step(it, n)]
  <2> HIDE DEF Step
  <2> QED
    BY <1>5
<1> HIDE DEF it
<1>7. it[0] = s0 /\ \A n \in 1..N : it[n] = ReadStep(it[n - 1], line[n])
  <2>1. \A n \in 0..N : it[n] = Step(it, n)
    <3> HIDE DEF Step
    <3> QED
      BY <1>6
  <2> QED
    BY <1>1, <2>1
<1> DEFINE C == {n \in Nat : n <= N => it[n] = g[n]}
<1>8. 0 \in C
  BY <1>4, <1>7
<1>9. ASSUME NEW n \in Nat, n \in C PROVE n + 1 \in C
  <2> SUFFICES ASSUME n + 1 <= N PROVE it[n + 1] = g[n + 1]
    OBVIOUS
  <2>1. n + 1 \in 1..N /\ (n + 1) - 1 = n /\ it[n] = g[n]
    BY <1>1, <1>9
  <2> QED
    BY <1>4, <1>7, <2>1
<1>10. N \in C
  <2> HIDE DEF C
  <2> QED
    BY <1>1, <1>8, <1>9, EveryNumber
<1>11. it[N] = t
  BY <1>1, <1>4, <1>10
<1> QED
  BY <1>3, <1>11

\* The fields of the reader's state, whatever they hold.
LEMMA ReaderFields ==
  ASSUME NEW f, NEW i, NEW q, NEW v
  PROVE  LET s == [fields |-> f, inside |-> i, quote |-> q] IN
         /\ s.fields = f /\ s.inside = i /\ s.quote = q
         /\ [s EXCEPT !.fields = v] = [fields |-> v, inside |-> i, quote |-> q]
         /\ [s EXCEPT !.inside = v] = [fields |-> f, inside |-> v, quote |-> q]
         /\ [s EXCEPT !.quote = v] = [fields |-> f, inside |-> i, quote |-> v]
OBVIOUS

\* What is put, opened, closed or begun in a state.
States(F, x, c, i, q) ==
    /\ Reader(F, x, i, q).fields = Append(F, x) /\ Reader(F, x, i, q).inside = i /\ Reader(F, x, i, q).quote = q
    /\ ReadPut(Reader(F, x, i, q), c) = Reader(F, Append(x, c), i, FALSE)
    /\ [ReadPut(Reader(F, x, i, q), c) EXCEPT !.inside = TRUE] = Reader(F, Append(x, c), TRUE, FALSE)
    /\ [Reader(F, x, i, q) EXCEPT !.inside = TRUE] = Reader(F, x, TRUE, q)
    /\ [Reader(F, x, i, q) EXCEPT !.inside = FALSE, !.quote = TRUE] = Reader(F, x, FALSE, TRUE)
    /\ [Reader(F, x, i, q) EXCEPT !.fields = Append(@, <<>>), !.quote = FALSE] = Reader(Append(F, x), <<>>, i, FALSE)

LEMMA ReadStates ==
  ASSUME NEW X, NEW F \in Seq(Seq(X)), NEW x \in Seq(X), NEW c \in X, NEW i \in BOOLEAN, NEW q \in BOOLEAN
  PROVE  States(F, x, c, i, q)
<1>0. PICK yes, no, j, r : yes = TRUE /\ no = FALSE /\ j = i /\ r = q
  OBVIOUS
<1>1. PICK Y : Y = Append(F, x)
  OBVIOUS
<1>2. Y \in Seq(Seq(X)) /\ Len(Y) \in 1..Len(Y) /\ Y[Len(Y)] = x /\ [Y EXCEPT ![Len(Y)] = Append(@, c)] = Append(F, Append(x, c))
  <2>1. /\ Append(F, x) \in Seq(Seq(X)) /\ Len(Append(F, x)) = Len(F) + 1 /\ Len(F) \in Nat
        /\ Append(F, x)[Len(F) + 1] = x
        /\ \A n \in 1..Len(F) : Append(F, x)[n] = F[n]
    BY AppendProperties, LenProperties
  <2>2. PICK y : y = Append(x, c)
    OBVIOUS
  <2>3. y \in Seq(X)
    BY <2>2, AppendProperties
  <2>4. /\ Append(F, y) \in Seq(Seq(X)) /\ Len(Append(F, y)) = Len(F) + 1
        /\ Append(F, y)[Len(F) + 1] = y
        /\ \A n \in 1..Len(F) : Append(F, y)[n] = F[n]
    BY <2>3, AppendProperties
  <2>5. PICK m \in Nat : m = Len(F) + 1
    BY <2>1
  <2>6. Len(Y) = m /\ DOMAIN Y = 1..m /\ m \in 1..m /\ Y[m] = x
    BY <1>1, <2>1, <2>5, LenProperties
  <2>7. PICK H : H = [Y EXCEPT ![m] = y]
    OBVIOUS
  <2>8. H = [n \in 1..m |-> H[n]] /\ H[m] = y /\ \A n \in 1..m : n # m => H[n] = Y[n]
    BY <2>6, <2>7
  <2>9. \A n \in 1..m : H[n] = Append(F, y)[n]
    <3>1. \A n \in 1..m : n # m => n \in 1..Len(F)
      BY <2>1, <2>5
    <3>2. \A n \in 1..m : n # m => H[n] = F[n] /\ Append(F, y)[n] = F[n]
      BY <1>1, <2>1, <2>4, <2>8, <3>1
    <3>3. H[m] = Append(F, y)[m]
      BY <2>4, <2>5, <2>8
    <3> QED
      BY <3>2, <3>3
  <2>10. Append(F, y) = [n \in 1..m |-> Append(F, y)[n]]
    BY <2>4, <2>5, LenProperties
  <2>11. H = Append(F, y)
    BY <2>8, <2>9, <2>10
  <2>12. [Y EXCEPT ![Len(Y)] = Append(@, c)] = H
    BY <2>2, <2>6, <2>7
  <2>13. Y \in Seq(Seq(X)) /\ Len(Y) \in 1..Len(Y) /\ Y[Len(Y)] = x
    BY <1>1, <2>1, <2>6
  <2> QED
    BY <2>2, <2>11, <2>12, <2>13
<1>3. Reader(F, x, i, q) = [fields |-> Y, inside |-> i, quote |-> q]
  BY <1>1 DEF Reader
<1>4. PICK a, b, y : a = Append(F, Append(x, c)) /\ b = Append(Y, <<>>) /\ y = Append(Y[Len(Y)], c)
  OBVIOUS
<1>5. [Y EXCEPT ![Len(Y)] = y] = a
  BY <1>2, <1>4
<1>6. ReadPut(Reader(F, x, i, q), c) = [fields |-> a, inside |-> i, quote |-> FALSE]
  <2>1. ReadPut([fields |-> Y, inside |-> j, quote |-> r], c)
           = [[[fields |-> Y, inside |-> j, quote |-> r] EXCEPT !.fields = a] EXCEPT !.quote = no]
    BY <1>0, <1>4, <1>5, ReaderFields DEF ReadPut
  <2>2. ReadPut([fields |-> Y, inside |-> j, quote |-> r], c) = [fields |-> a, inside |-> j, quote |-> no]
    BY <2>1, ReaderFields
  <2> QED
    BY <1>0, <1>3, <2>2
<1>7. Reader(F, Append(x, c), i, FALSE) = [fields |-> a, inside |-> i, quote |-> FALSE]
  BY <1>4 DEF Reader
<1>8. [ReadPut(Reader(F, x, i, q), c) EXCEPT !.inside = TRUE] = Reader(F, Append(x, c), TRUE, FALSE)
  <2>1. Reader(F, Append(x, c), TRUE, FALSE) = [fields |-> a, inside |-> TRUE, quote |-> FALSE]
    BY <1>4 DEF Reader
  <2>2. PICK s : s = ReadPut(Reader(F, x, i, q), c)
    OBVIOUS
  <2>3. s = [fields |-> a, inside |-> j, quote |-> no]
    BY <1>0, <1>6, <2>2
  <2>4. [[fields |-> a, inside |-> j, quote |-> no] EXCEPT !.inside = yes] = [fields |-> a, inside |-> yes, quote |-> no]
    OBVIOUS
  <2>6. [s EXCEPT !.inside = yes] = [fields |-> a, inside |-> yes, quote |-> no]
    BY <2>3, <2>4
  <2>5. [s EXCEPT !.inside = TRUE] = [s EXCEPT !.inside = yes]
    BY <1>0
  <2> QED
    BY <1>0, <2>1, <2>2, <2>5, <2>6
<1>9. [Reader(F, x, i, q) EXCEPT !.inside = TRUE] = Reader(F, x, TRUE, q)
  <2>1. Reader(F, x, TRUE, q) = [fields |-> Y, inside |-> TRUE, quote |-> q]
    BY <1>1 DEF Reader
  <2>2. PICK s : s = Reader(F, x, i, q)
    OBVIOUS
  <2>3. s = [fields |-> Y, inside |-> j, quote |-> r]
    BY <1>0, <1>3, <2>2
  <2>4. [[fields |-> Y, inside |-> j, quote |-> r] EXCEPT !.inside = yes] = [fields |-> Y, inside |-> yes, quote |-> r]
    OBVIOUS
  <2>6. [s EXCEPT !.inside = yes] = [fields |-> Y, inside |-> yes, quote |-> r]
    BY <2>3, <2>4
  <2>5. [s EXCEPT !.inside = TRUE] = [s EXCEPT !.inside = yes]
    BY <1>0
  <2> QED
    BY <1>0, <2>1, <2>2, <2>5, <2>6
<1>10. [Reader(F, x, i, q) EXCEPT !.inside = FALSE, !.quote = TRUE] = Reader(F, x, FALSE, TRUE)
  <2>1. Reader(F, x, FALSE, TRUE) = [fields |-> Y, inside |-> FALSE, quote |-> TRUE]
    BY <1>1 DEF Reader
  <2>2. PICK s : s = Reader(F, x, i, q)
    OBVIOUS
  <2>3. s = [fields |-> Y, inside |-> j, quote |-> r]
    BY <1>0, <1>3, <2>2
  <2>4. [[fields |-> Y, inside |-> j, quote |-> r] EXCEPT !.inside = no, !.quote = yes] = [fields |-> Y, inside |-> no, quote |-> yes]
    <3>1. [[fields |-> Y, inside |-> j, quote |-> r] EXCEPT !.inside = no] = [fields |-> Y, inside |-> no, quote |-> r]
      OBVIOUS
    <3>2. [[fields |-> Y, inside |-> no, quote |-> r] EXCEPT !.quote = yes] = [fields |-> Y, inside |-> no, quote |-> yes]
      OBVIOUS
    <3> QED
      BY <3>1, <3>2
  <2>6. [s EXCEPT !.inside = no, !.quote = yes] = [fields |-> Y, inside |-> no, quote |-> yes]
    BY <2>3, <2>4
  <2>5. [s EXCEPT !.inside = FALSE, !.quote = TRUE] = [s EXCEPT !.inside = no, !.quote = yes]
    BY <1>0
  <2> QED
    BY <1>0, <2>1, <2>2, <2>5, <2>6
<1>11. [Reader(F, x, i, q) EXCEPT !.fields = Append(@, <<>>), !.quote = FALSE] = Reader(Append(F, x), <<>>, i, FALSE)
  <2>1. Reader(Append(F, x), <<>>, i, FALSE) = [fields |-> b, inside |-> i, quote |-> FALSE]
    BY <1>1, <1>4 DEF Reader
  <2>2. PICK s : s = Reader(F, x, i, q)
    OBVIOUS
  <2>3. s = [fields |-> Y, inside |-> j, quote |-> r]
    BY <1>0, <1>3, <2>2
  <2>4. [[fields |-> Y, inside |-> j, quote |-> r] EXCEPT !.fields = Append(@, <<>>), !.quote = no] = [fields |-> b, inside |-> j, quote |-> no]
    <3>1. [fields |-> Y, inside |-> j, quote |-> r].fields = Y
      OBVIOUS
    <3>2. [[fields |-> Y, inside |-> j, quote |-> r] EXCEPT !.fields = b] = [fields |-> b, inside |-> j, quote |-> r]
      OBVIOUS
    <3>3. [[fields |-> b, inside |-> j, quote |-> r] EXCEPT !.quote = no] = [fields |-> b, inside |-> j, quote |-> no]
      OBVIOUS
    <3>4. [[fields |-> Y, inside |-> j, quote |-> r] EXCEPT !.fields = Append(@, <<>>)] = [fields |-> b, inside |-> j, quote |-> r]
      BY <1>4, <3>1, <3>2
    <3> QED
      BY <3>3, <3>4
  <2>6. [s EXCEPT !.fields = Append(@, <<>>), !.quote = no] = [fields |-> b, inside |-> j, quote |-> no]
    BY <2>3, <2>4
  <2>5. [s EXCEPT !.fields = Append(@, <<>>), !.quote = FALSE] = [s EXCEPT !.fields = Append(@, <<>>), !.quote = no]
    BY <1>0
  <2> QED
    BY <1>0, <2>1, <2>2, <2>5, <2>6
<1>12. Reader(F, x, i, q).fields = Append(F, x) /\ Reader(F, x, i, q).inside = i /\ Reader(F, x, i, q).quote = q
  BY <1>1, <1>3, ReaderFields
<1> QED
  BY <1>6, <1>7, <1>8, <1>9, <1>10, <1>11, <1>12 DEF States

\* What the reader makes of a character.
LEMMA ReadQuote ==
  ASSUME NEW X, NEW F \in Seq(Seq(X)), NEW x \in Seq(X), NEW c \in X, c = R!Quote
  PROVE  /\ ReadStep(Reader(F, x, FALSE, FALSE), c) = Reader(F, x, TRUE, FALSE)
         /\ ReadStep(Reader(F, x, FALSE, TRUE), c) = Reader(F, Append(x, c), TRUE, FALSE)
         /\ ReadStep(Reader(F, x, TRUE, FALSE), c) = Reader(F, x, FALSE, TRUE)
<1>1. R!Quote # R!Comma
  BY DEF R!Quote, R!Comma
<1>2. ReadStep(Reader(F, x, FALSE, FALSE), c) = Reader(F, x, TRUE, FALSE)
  <2>1. States(F, x, c, FALSE, FALSE)
    BY ReadStates
  <2> QED
    BY <1>1, <2>1 DEF ReadStep, States
<1>3. ReadStep(Reader(F, x, FALSE, TRUE), c) = Reader(F, Append(x, c), TRUE, FALSE)
  <2>1. States(F, x, c, FALSE, TRUE)
    BY ReadStates
  <2> QED
    BY <1>1, <2>1 DEF ReadStep, States
<1>4. ReadStep(Reader(F, x, TRUE, FALSE), c) = Reader(F, x, FALSE, TRUE)
  <2>1. States(F, x, c, TRUE, FALSE)
    BY ReadStates
  <2> QED
    BY <1>1, <2>1 DEF ReadStep, States
<1> QED
  BY <1>2, <1>3, <1>4

LEMMA ReadComma ==
  ASSUME NEW X, NEW F \in Seq(Seq(X)), NEW x \in Seq(X), NEW c \in X, NEW q \in BOOLEAN, c = R!Comma
  PROVE  ReadStep(Reader(F, x, FALSE, q), c) = Reader(Append(F, x), <<>>, FALSE, FALSE)
<1>1. R!Quote # R!Comma
  BY DEF R!Quote, R!Comma
<1>2. States(F, x, c, FALSE, q)
  BY ReadStates
<1> QED
  BY <1>1, <1>2 DEF ReadStep, States

LEMMA ReadInside ==
  ASSUME NEW X, NEW F \in Seq(Seq(X)), NEW x \in Seq(X), NEW c \in X, c # R!Quote
  PROVE  ReadStep(Reader(F, x, TRUE, FALSE), c) = Reader(F, Append(x, c), TRUE, FALSE)
<1>1. States(F, x, c, TRUE, FALSE)
  BY ReadStates
<1> QED
  BY <1>1 DEF ReadStep, States

LEMMA ReadPlain ==
  ASSUME NEW X, NEW F \in Seq(Seq(X)), NEW x \in Seq(X), NEW c \in X, c # R!Quote, c # R!Comma
  PROVE  ReadStep(Reader(F, x, FALSE, FALSE), c) = Reader(F, Append(x, c), FALSE, FALSE)
<1>1. States(F, x, c, FALSE, FALSE)
  BY ReadStates
<1> QED
  BY <1>1 DEF ReadStep, States

\* A flattened sequence is its pieces one after the other.
LEMMA FlattenIs ==
  ASSUME NEW seqs, Len(seqs) \in Nat \ {0}
  PROVE  \E f : /\ R!FlattenSeq(seqs) = f[Len(seqs)] /\ f[1] = seqs[1]
                /\ \A i \in 2..Len(seqs) : f[i] = f[i - 1] \o seqs[i]
<1> DEFINE N == Len(seqs)
           Step(f, i) == IF i = 1 THEN seqs[i] ELSE f[i - 1] \o seqs[i]
           Good(f, n) == \A i \in 1..n : f[i] = Step(f, i)
           C == {n \in Nat : \E f : Good(f, n)}
           it == CHOOSE f : f = [i \in 1..N |-> Step(f, i)]
<1>1. R!FlattenSeq(seqs) = it[N]
  BY DEF R!FlattenSeq
<1>2. N \in Nat /\ N # 0
  OBVIOUS
<1> HIDE DEF N
<1>3. 0 \in C
  <2>1. Good(seqs, 0)
    OBVIOUS
  <2> HIDE DEF Good
  <2> QED
    BY <2>1
<1>4. ASSUME NEW n \in Nat, n \in C PROVE n + 1 \in C
  <2>1. PICK f : Good(f, n)
    BY <1>4
  <2> DEFINE h == [i \in 1..(n + 1) |-> IF i <= n THEN f[i] ELSE Step(f, n + 1)]
  <2>2. /\ \A i \in 1..n : h[i] = f[i]
        /\ h[n + 1] = Step(f, n + 1)
    <3> HIDE DEF Step
    <3> QED
      OBVIOUS
  <2> HIDE DEF h
  <2>3. \A i \in 1..(n + 1) : h[i] = Step(h, i)
    <3> SUFFICES ASSUME NEW i \in 1..(n + 1) PROVE h[i] = Step(h, i)
      OBVIOUS
    <3>1. CASE i = 1
      <4>1. CASE n = 0
        BY <2>2, <3>1, <4>1
      <4>2. CASE n # 0
        <5>1. 1 \in 1..n
          BY <4>2
        <5> QED
          BY <2>1, <2>2, <3>1, <5>1
      <4> QED
        BY <4>1, <4>2
    <3>2. CASE i # 1
      <4>1. i - 1 \in 1..n
        BY <3>2
      <4>2. h[i - 1] = f[i - 1]
        BY <2>2, <4>1
      <4>3. CASE i \in 1..n
        BY <2>1, <2>2, <3>2, <4>2, <4>3
      <4>4. CASE i = n + 1
        BY <2>2, <3>2, <4>2, <4>4
      <4> QED
        BY <4>3, <4>4
    <3> QED
      BY <3>1, <3>2
  <2>4. Good(h, n + 1)
    BY <2>3
  <2> HIDE DEF Good
  <2> QED
    BY <2>4
<1>5. PICK f : Good(f, N)
  <2>1. N \in C
    <3> HIDE DEF C
    <3> QED
      BY <1>2, <1>3, <1>4, EveryNumber
  <2> QED
    BY <2>1
<1>6. \E g : g = [i \in 1..N |-> Step(g, i)]
  <2> DEFINE g == [i \in 1..N |-> f[i]]
  <2>1. g = [i \in 1..N |-> g[i]] /\ \A i \in 1..N : g[i] = f[i]
    OBVIOUS
  <2> HIDE DEF g
  <2>2. \A i \in 1..N : g[i] = Step(g, i)
    <3> SUFFICES ASSUME NEW i \in 1..N PROVE g[i] = Step(g, i)
      OBVIOUS
    <3>1. CASE i = 1
      BY <1>5, <2>1, <3>1
    <3>2. CASE i # 1
      <4>1. i - 1 \in 1..N
        BY <1>2, <3>2
      <4> QED
        BY <1>5, <2>1, <3>2, <4>1
    <3> QED
      BY <3>1, <3>2
  <2> HIDE DEF Step
  <2>3. g = [i \in 1..N |-> Step(g, i)]
    BY <2>1, <2>2
  <2> QED
    BY <2>3
<1>7. it = [i \in 1..N |-> Step(it, i)]
  <2> HIDE DEF Step
  <2> QED
    BY <1>6
<1> HIDE DEF it
<1>8. \A i \in 1..N : it[i] = Step(it, i)
  <2> HIDE DEF Step
  <2> QED
    BY <1>7
<1>9. it[1] = seqs[1] /\ \A i \in 2..N : it[i] = it[i - 1] \o seqs[i]
  <2>1. 1 \in 1..N
    BY <1>2
  <2>2. it[1] = seqs[1]
    BY <1>8, <2>1
  <2>3. ASSUME NEW i \in 2..N PROVE it[i] = it[i - 1] \o seqs[i]
    <3>1. i \in 1..N /\ i # 1
      BY <1>2
    <3>2. it[i] = Step(it, i)
      BY <1>8, <3>1
    <3> QED
      BY <3>1, <3>2
  <2> QED
    BY <2>2, <2>3
<1> QED
  BY <1>1, <1>9 DEF N

\* A beginning of a sequence, and one longer.
LEMMA Beginnings ==
  ASSUME NEW X, NEW x \in Seq(X), NEW n \in 1..Len(x)
  PROVE  /\ SubSeq(x, 1, n - 1) \in Seq(X) /\ SubSeq(x, 1, n) \in Seq(X) /\ x[n] \in X
         /\ SubSeq(x, 1, n) = Append(SubSeq(x, 1, n - 1), x[n])
         /\ SubSeq(x, 1, 0) = <<>> /\ SubSeq(x, 1, Len(x)) = x
<1>1. PICK N \in Nat : N = Len(x)
  BY LenProperties
<1>2. /\ SubSeq(x, 1, n - 1) \in Seq(X) /\ Len(SubSeq(x, 1, n - 1)) = n - 1
      /\ \A i \in 1..(n - 1) : SubSeq(x, 1, n - 1)[i] = x[i]
      /\ SubSeq(x, 1, n) \in Seq(X) /\ Len(SubSeq(x, 1, n)) = n
      /\ \A i \in 1..n : SubSeq(x, 1, n)[i] = x[i]
      /\ SubSeq(x, 1, N) \in Seq(X) /\ Len(SubSeq(x, 1, N)) = N
      /\ \A i \in 1..N : SubSeq(x, 1, N)[i] = x[i]
      /\ x[n] \in X
  <2>1. \A i \in 1..N : x[i] \in X
    BY <1>1, ElementOfSeq
  <2>2. n - 1 \in Int /\ n \in Int /\ N \in Int /\ n \in 1..N
    BY <1>1
  <2>3. ASSUME NEW m \in 0..N
        PROVE  /\ SubSeq(x, 1, m) \in Seq(X) /\ Len(SubSeq(x, 1, m)) = m
               /\ \A i \in 1..m : SubSeq(x, 1, m)[i] = x[i]
    <3>1. m \in Int /\ 1 \in Int /\ \A i \in 1..m : x[i] \in X
      BY <1>1, <2>1
    <3>2. PICK w : w = SubSeq(x, 1, m)
      OBVIOUS
    <3>3. /\ w \in Seq(X) /\ Len(w) = (IF 1 <= m THEN m - 1 + 1 ELSE 0)
          /\ \A i \in 1..(m - 1 + 1) : w[i] = x[1 + i - 1]
      BY <3>1, <3>2, SubSeqProperties
    <3>4. Len(w) = m
      BY <1>1, <3>3
    <3>5. \A i \in 1..m : w[i] = x[i]
      <4>1. \A i \in 1..m : i \in 1..(m - 1 + 1) /\ 1 + i - 1 = i
        BY <1>1
      <4> QED
        BY <3>3, <4>1
    <3> QED
      BY <3>2, <3>3, <3>4, <3>5
  <2>4. n - 1 \in 0..N /\ n \in 0..N /\ N \in 0..N
    BY <1>1, <2>2
  <2> QED
    BY <2>1, <2>2, <2>3, <2>4
<1>3. PICK v, c : v = SubSeq(x, 1, n - 1) /\ c = x[n]
  OBVIOUS
<1>4. /\ Append(v, c) \in Seq(X) /\ Len(Append(v, c)) = n /\ Append(v, c)[n] = c
      /\ \A i \in 1..(n - 1) : Append(v, c)[i] = v[i]
  BY <1>2, <1>3, AppendProperties
<1>5. \A i \in 1..n : SubSeq(x, 1, n)[i] = Append(v, c)[i]
  <2>1. \A i \in 1..n : i = n \/ i \in 1..(n - 1)
    OBVIOUS
  <2> QED
    BY <1>2, <1>3, <1>4, <2>1
<1>6. SubSeq(x, 1, n) = Append(v, c)
  <2>1. PICK w : w = SubSeq(x, 1, n)
    OBVIOUS
  <2>2. w \in Seq(X) /\ Append(v, c) \in Seq(X) /\ Len(w) = Len(Append(v, c)) /\ \A i \in 1..Len(w) : w[i] = Append(v, c)[i]
    BY <1>2, <1>4, <1>5, <2>1
  <2>3. w = Append(v, c)
    BY <2>2, SeqEqual
  <2> QED
    BY <2>1, <2>3
<1>7. SubSeq(x, 1, N) = x
  <2>1. PICK w : w = SubSeq(x, 1, N)
    OBVIOUS
  <2>2. w \in Seq(X) /\ Len(w) = Len(x) /\ \A i \in 1..Len(w) : w[i] = x[i]
    BY <1>1, <1>2, <2>1
  <2>3. w = x
    BY <2>2, SeqEqual
  <2> QED
    BY <2>1, <2>3
<1>8. SubSeq(x, 1, 0) = <<>>
  BY SubSeqEmpty
<1> QED
  BY <1>1, <1>2, <1>3, <1>6, <1>7, <1>8

\* A field is read back as it was, quoted or not.
LEMMA FieldIsRead ==
  ASSUME NEW X, {R!Quote, R!Comma} \subseteq X, NEW F \in Seq(Seq(X)), NEW x \in Seq(X)
  PROVE  R!esc(x) \in Seq(X) /\ \E q \in BOOLEAN : Reads(Reader(F, <<>>, FALSE, FALSE), R!esc(x), Reader(F, x, FALSE, q))
<1>1. PICK N \in Nat : N = Len(x)
  BY LenProperties
<1>2. DOMAIN x = 1..N /\ <<>> \in Seq(X) /\ \A n \in 1..N : x[n] \in X
  BY <1>1, LenProperties, EmptySeq, ElementOfSeq
<1>3. CASE ~\E n \in DOMAIN x : x[n] \in R!Special
  <2> DEFINE g == [n \in 0..N |-> Reader(F, SubSeq(x, 1, n), FALSE, FALSE)]
  <2>1. R!esc(x) = x
    BY <1>3 DEF R!esc
  <2>2. \A n \in 0..N : g[n] = Reader(F, SubSeq(x, 1, n), FALSE, FALSE)
    OBVIOUS
  <2> HIDE DEF g
  <2>3. SubSeq(x, 1, 0) = <<>> /\ SubSeq(x, 1, N) = x
    <3>1. CASE N = 0
      <4>1. x = <<>>
        BY <1>1, <3>1, EmptySeq
      <4>2. SubSeq(x, 1, 0) = <<>>
        BY SubSeqEmpty
      <4> QED
        BY <3>1, <4>1, <4>2
    <3>2. CASE N # 0
      <4>1. 1 \in 1..Len(x)
        BY <1>1, <3>2
      <4> QED
        BY <1>1, <4>1, Beginnings
    <3> QED
      BY <3>1, <3>2
  <2>4. g[0] = Reader(F, <<>>, FALSE, FALSE) /\ g[N] = Reader(F, x, FALSE, FALSE)
    <3>1. 0 \in 0..N /\ N \in 0..N
      OBVIOUS
    <3> QED
      BY <2>2, <2>3, <3>1
  <2>5. ASSUME NEW n \in 1..N PROVE g[n] = ReadStep(g[n - 1], x[n])
    <3>1. /\ SubSeq(x, 1, n - 1) \in Seq(X) /\ x[n] \in X /\ SubSeq(x, 1, n) = Append(SubSeq(x, 1, n - 1), x[n])
      BY <1>1, Beginnings
    <3>2. x[n] # R!Quote /\ x[n] # R!Comma
      BY <1>2, <1>3 DEF R!Special
    <3>3. n - 1 \in 0..N /\ n \in 0..N
      OBVIOUS
    <3>4. g[n - 1] = Reader(F, SubSeq(x, 1, n - 1), FALSE, FALSE) /\ g[n] = Reader(F, SubSeq(x, 1, n), FALSE, FALSE)
      BY <2>2, <3>3
    <3>5. PICK v, c : v = SubSeq(x, 1, n - 1) /\ c = x[n]
      OBVIOUS
    <3>6. v \in Seq(X) /\ c \in X /\ c # R!Quote /\ c # R!Comma
      BY <3>1, <3>2, <3>5
    <3>7. ReadStep(Reader(F, v, FALSE, FALSE), c) = Reader(F, Append(v, c), FALSE, FALSE)
      BY <3>6, ReadPlain
    <3> QED
      BY <3>1, <3>4, <3>5, <3>7
  <2>6. Through(g, Reader(F, <<>>, FALSE, FALSE), x, Reader(F, x, FALSE, FALSE))
    BY <1>1, <2>4, <2>5 DEF Through
  <2>7. Reads(Reader(F, <<>>, FALSE, FALSE), x, Reader(F, x, FALSE, FALSE))
    BY <2>6 DEF Reads
  <2> QED
    BY <2>1, <2>7
<1>4. CASE \E n \in DOMAIN x : x[n] \in R!Special
  <2> DEFINE pieces == [n \in DOMAIN x |-> IF x[n] = R!Quote THEN <<R!Quote, R!Quote>> ELSE <<x[n]>>]
             inner == R!FlattenSeq(pieces)
             start == Reader(F, <<>>, TRUE, FALSE)
  <2>1. R!esc(x) = <<R!Quote>> \o inner \o <<R!Quote>>
    BY <1>4 DEF R!esc
  <2>2. N # 0
    BY <1>2, <1>4
  <2>3. /\ Len(pieces) = N
        /\ \A n \in 1..N : pieces[n] = IF x[n] = R!Quote THEN <<R!Quote, R!Quote>> ELSE <<x[n]>>
    <3>1. pieces = [n \in 1..N |-> IF x[n] = R!Quote THEN <<R!Quote, R!Quote>> ELSE <<x[n]>>]
      BY <1>2
    <3> HIDE DEF pieces
    <3> QED
      BY <3>1
  <2> HIDE DEF pieces
  <2>4. PICK f : inner = f[N] /\ f[1] = pieces[1] /\ \A i \in 2..N : f[i] = f[i - 1] \o pieces[i]
    <3>1. Len(pieces) \in Nat \ {0}
      BY <2>2, <2>3
    <3> QED
      BY <2>3, <3>1, FlattenIs
  <2> HIDE DEF inner
  <2>5. ASSUME NEW n \in 1..N
        PROVE  /\ pieces[n] \in Seq(X)
               /\ Reads(Reader(F, SubSeq(x, 1, n - 1), TRUE, FALSE), pieces[n], Reader(F, SubSeq(x, 1, n), TRUE, FALSE))
    <3>1. PICK v, c : v = SubSeq(x, 1, n - 1) /\ c = x[n]
      OBVIOUS
    <3>2. v \in Seq(X) /\ c \in X /\ SubSeq(x, 1, n) = Append(v, c)
      BY <1>1, <3>1, Beginnings
    <3>3. CASE c = R!Quote
      <4>1. pieces[n] = <<c>> \o <<c>>
        <5>1. pieces[n] = <<c, c>>
          BY <2>3, <3>1, <3>3
        <5>2. <<c>> \o <<c>> = <<c, c>>
          <6>1. PICK w : w = <<c>> \o <<c>>
            OBVIOUS
          <6>2. <<c>> \in Seq({c}) /\ Len(<<c>>) = 1 /\ <<c>>[1] = c
            OBVIOUS
          <6>3. w \in Seq({c}) /\ Len(w) = 2
            BY <6>1, <6>2, ConcatProperties
          <6>4. <<c, c>> \in Seq({c}) /\ Len(<<c, c>>) = 2 /\ \A k \in 1..2 : <<c, c>>[k] \in {c}
            OBVIOUS
          <6>5. \A k \in 1..2 : w[k] \in {c}
            BY <6>3, ElementOfSeq
          <6>6. w = <<c, c>>
            BY <6>3, <6>4, <6>5, SeqEqual
          <6> QED
            BY <6>1, <6>6
        <5> QED
          BY <5>1, <5>2
      <4>2. /\ ReadStep(Reader(F, v, TRUE, FALSE), c) = Reader(F, v, FALSE, TRUE)
            /\ ReadStep(Reader(F, v, FALSE, TRUE), c) = Reader(F, Append(v, c), TRUE, FALSE)
        BY <3>2, <3>3, ReadQuote
      <4>3. PICK s, t, u : s = Reader(F, v, TRUE, FALSE) /\ t = Reader(F, v, FALSE, TRUE) /\ u = Reader(F, Append(v, c), TRUE, FALSE)
        OBVIOUS
      <4>4. ReadStep(s, c) = t /\ ReadStep(t, c) = u
        BY <4>2, <4>3
      <4>5. Reads(s, <<c>>, t) /\ Reads(t, <<c>>, u)
        BY <4>4, ReadOne
      <4>6. <<c>> \in Seq(X)
        BY <3>2
      <4>7. <<c>> \o <<c>> \in Seq(X) /\ Reads(s, <<c>> \o <<c>>, u)
        BY <4>5, <4>6, ReadBoth
      <4>8. pieces[n] \in Seq(X) /\ Reads(s, pieces[n], u)
        BY <4>1, <4>7
      <4> QED
        BY <3>1, <3>2, <4>3, <4>8
    <3>4. CASE c # R!Quote
      <4>1. pieces[n] = <<c>> /\ <<c>> \in Seq(X)
        BY <2>3, <3>1, <3>2, <3>4
      <4>2. ReadStep(Reader(F, v, TRUE, FALSE), c) = Reader(F, Append(v, c), TRUE, FALSE)
        BY <3>2, <3>4, ReadInside
      <4>3. Reads(Reader(F, v, TRUE, FALSE), <<c>>, Reader(F, Append(v, c), TRUE, FALSE))
        BY <4>2, ReadOne
      <4> QED
        BY <3>1, <3>2, <4>1, <4>3
    <3> QED
      BY <3>3, <3>4
  <2> HIDE DEF start
  <2> DEFINE past == [n \in 0..N |-> Reader(F, SubSeq(x, 1, n), TRUE, FALSE)]
             C == {n \in Nat : n \in 1..N => f[n] \in Seq(X) /\ Reads(start, f[n], past[n])}
  <2>15. past[0] = start /\ \A n \in 0..N : past[n] = Reader(F, SubSeq(x, 1, n), TRUE, FALSE)
    <3>1. SubSeq(x, 1, 0) = <<>> /\ 0 \in 0..N
      BY SubSeqEmpty
    <3>2. past[0] = Reader(F, SubSeq(x, 1, 0), TRUE, FALSE)
      BY <3>1
    <3>3. past[0] = start
      BY <3>1, <3>2 DEF start
    <3> QED
      BY <3>3
  <2> HIDE DEF past
  <2>6. 0 \in C
    OBVIOUS
  <2>7. ASSUME NEW n \in Nat, n \in C PROVE n + 1 \in C
    <3> SUFFICES ASSUME n + 1 \in 1..N PROVE f[n + 1] \in Seq(X) /\ Reads(start, f[n + 1], past[n + 1])
      OBVIOUS
    <3>1. pieces[n + 1] \in Seq(X) /\ Reads(past[n], pieces[n + 1], past[n + 1])
      <4>1. (n + 1) - 1 = n /\ n \in 0..N /\ n + 1 \in 0..N
        OBVIOUS
      <4>2. /\ pieces[n + 1] \in Seq(X)
            /\ Reads(Reader(F, SubSeq(x, 1, n), TRUE, FALSE), pieces[n + 1], Reader(F, SubSeq(x, 1, n + 1), TRUE, FALSE))
        BY <2>5, <4>1
      <4> QED
        BY <2>15, <4>1, <4>2
    <3>2. CASE n = 0
      <4>1. f[n + 1] = pieces[n + 1] /\ past[n] = start
        BY <2>4, <2>15, <3>2
      <4> QED
        BY <3>1, <4>1
    <3>3. CASE n # 0
      <4>1. n \in 1..N /\ n + 1 \in 2..N /\ (n + 1) - 1 = n
        BY <3>3
      <4>2. f[n + 1] = f[n] \o pieces[n + 1]
        BY <2>4, <4>1
      <4>3. f[n] \in Seq(X) /\ Reads(start, f[n], past[n])
        BY <2>7, <4>1
      <4> QED
        BY <3>1, <4>2, <4>3, ReadBoth
    <3> QED
      BY <3>2, <3>3
  <2>8. N \in C
    <3> HIDE DEF C
    <3> QED
      BY <2>6, <2>7, EveryNumber
  <2>9. inner \in Seq(X) /\ Reads(start, inner, Reader(F, x, TRUE, FALSE))
    <3>1. N \in 1..N /\ 1 \in 1..Len(x)
      BY <1>1, <2>2
    <3>2. SubSeq(x, 1, N) = x
      BY <1>1, <3>1, Beginnings
    <3>3. past[N] = Reader(F, x, TRUE, FALSE)
      <4>1. N \in 0..N
        OBVIOUS
      <4> QED
        BY <2>15, <3>2, <4>1
    <3> QED
      BY <2>4, <2>8, <3>1, <3>3
  <2>10. <<R!Quote>> \in Seq(X)
    OBVIOUS
  <2>11. Reads(Reader(F, <<>>, FALSE, FALSE), <<R!Quote>>, start)
    <3>1. ReadStep(Reader(F, <<>>, FALSE, FALSE), R!Quote) = start
      BY <1>2, ReadQuote DEF start
    <3> QED
      BY <3>1, ReadOne
  <2>12. Reads(Reader(F, x, TRUE, FALSE), <<R!Quote>>, Reader(F, x, FALSE, TRUE))
    <3>1. ReadStep(Reader(F, x, TRUE, FALSE), R!Quote) = Reader(F, x, FALSE, TRUE)
      BY ReadQuote
    <3> QED
      BY <3>1, ReadOne
  <2>13. <<R!Quote>> \o inner \in Seq(X) /\ Reads(Reader(F, <<>>, FALSE, FALSE), <<R!Quote>> \o inner, Reader(F, x, TRUE, FALSE))
    BY <2>9, <2>10, <2>11, ReadBoth
  <2>14. R!esc(x) \in Seq(X) /\ Reads(Reader(F, <<>>, FALSE, FALSE), R!esc(x), Reader(F, x, FALSE, TRUE))
    <3>1. PICK v, w, s, t, u : /\ v = <<R!Quote>> \o inner /\ w = <<R!Quote>>
                               /\ s = Reader(F, <<>>, FALSE, FALSE) /\ t = Reader(F, x, TRUE, FALSE) /\ u = Reader(F, x, FALSE, TRUE)
      OBVIOUS
    <3>2. v \in Seq(X) /\ w \in Seq(X) /\ Reads(s, v, t) /\ Reads(t, w, u)
      BY <2>10, <2>12, <2>13, <3>1
    <3>3. v \o w \in Seq(X) /\ Reads(s, v \o w, u)
      BY <3>2, ReadBoth
    <3> QED
      BY <2>1, <3>1, <3>3
  <2> QED
    BY <2>14
<1> QED
  BY <1>3, <1>4

\* A line is read back as its fields.
LEMMA LineIsRead ==
  ASSUME NEW X, {R!Quote, R!Comma} \subseteq X, NEW fields \in Seq(Seq(X)), fields # <<>>
  PROVE  R!CsvFields(R!toCsv(fields)) = fields
<1>1. PICK N \in Nat \ {0} : N = Len(fields)
  BY EmptySeq
<1>2. /\ DOMAIN fields = 1..N /\ <<>> \in Seq(X) /\ <<R!Comma>> \in Seq(X)
      /\ \A n \in 1..N : fields[n] \in Seq(X)
  <2>1. DOMAIN fields = 1..N
    BY <1>1, LenProperties
  <2>2. \A n \in 1..N : fields[n] \in Seq(X)
    BY <1>1, ElementOfSeq
  <2> QED
    BY <2>1, <2>2, EmptySeq
<1> DEFINE pieces == [n \in DOMAIN fields |-> (IF n = 1 THEN <<>> ELSE <<R!Comma>>) \o R!esc(fields[n])]
           line == R!toCsv(fields)
           start == Reader(<<>>, <<>>, FALSE, FALSE)
           at == [n \in 1..N |-> SubSeq(fields, 1, n - 1)]
<1>3. line = R!FlattenSeq(pieces)
  BY DEF R!toCsv
<1>4. Len(pieces) = N /\ \A n \in 1..N : pieces[n] = (IF n = 1 THEN <<>> ELSE <<R!Comma>>) \o R!esc(fields[n])
  <2>1. pieces = [n \in 1..N |-> (IF n = 1 THEN <<>> ELSE <<R!Comma>>) \o R!esc(fields[n])]
    BY <1>2
  <2> HIDE DEF pieces
  <2> QED
    BY <2>1
<1>5. \A n \in 1..N : at[n] = SubSeq(fields, 1, n - 1)
  OBVIOUS
<1> HIDE DEF pieces, line, start, at
<1>6. at[1] = <<>> /\ start = Reader(at[1], <<>>, FALSE, FALSE)
  <2>1. SubSeq(fields, 1, 1 - 1) = <<>>
    BY SubSeqEmpty
  <2>2. at[1] = <<>>
    BY <1>5, <2>1
  <2> QED
    BY <2>2 DEF start
<1>7. ASSUME NEW n \in 1..N
      PROVE  /\ at[n] \in Seq(Seq(X)) /\ fields[n] \in Seq(X)
             /\ n + 1 \in 1..N => at[n + 1] = Append(at[n], fields[n])
             /\ n = N => Append(at[n], fields[n]) = fields
  <2>1. n \in 1..Len(fields)
    BY <1>1
  <2>2. /\ SubSeq(fields, 1, n - 1) \in Seq(Seq(X)) /\ fields[n] \in Seq(X)
        /\ SubSeq(fields, 1, n) = Append(SubSeq(fields, 1, n - 1), fields[n])
        /\ SubSeq(fields, 1, Len(fields)) = fields
    BY <2>1, Beginnings
  <2>3. n + 1 \in 1..N => at[n + 1] = SubSeq(fields, 1, n)
    <3>1. (n + 1) - 1 = n
      OBVIOUS
    <3> QED
      BY <1>5, <3>1
  <2> QED
    BY <1>1, <1>5, <2>2, <2>3
<1>8. PICK f : line = f[N] /\ f[1] = pieces[1] /\ \A i \in 2..N : f[i] = f[i - 1] \o pieces[i]
  <2>1. PICK p : p = pieces
    OBVIOUS
  <2>2. Len(p) \in Nat \ {0} /\ Len(p) = N
    BY <1>4, <2>1
  <2>3. \E f : /\ R!FlattenSeq(p) = f[Len(p)] /\ f[1] = p[1]
               /\ \A i \in 2..Len(p) : f[i] = f[i - 1] \o p[i]
    BY <2>2, FlattenIs
  <2> QED
    BY <1>3, <2>1, <2>2, <2>3
<1> DEFINE Behind(n, q) == Reader(at[n], fields[n], FALSE, q)
           C == {n \in Nat : n \in 1..N => f[n] \in Seq(X) /\ \E q \in BOOLEAN : Reads(start, f[n], Behind(n, q))}
<1>9. \A n \in 1..N : R!esc(fields[n]) \in Seq(X) /\ \E q \in BOOLEAN : Reads(Reader(at[n], <<>>, FALSE, FALSE), R!esc(fields[n]), Behind(n, q))
  BY <1>7, FieldIsRead
<1>10. \A n \in 1..N : \A q \in BOOLEAN : n + 1 \in 1..N => Reads(Behind(n, q), <<R!Comma>>, Reader(at[n + 1], <<>>, FALSE, FALSE))
  <2> SUFFICES ASSUME NEW n \in 1..N, NEW q \in BOOLEAN, n + 1 \in 1..N
               PROVE  Reads(Behind(n, q), <<R!Comma>>, Reader(at[n + 1], <<>>, FALSE, FALSE))
    OBVIOUS
  <2>1. PICK F, x : F = at[n] /\ x = fields[n]
    OBVIOUS
  <2>2. F \in Seq(Seq(X)) /\ x \in Seq(X) /\ at[n + 1] = Append(F, x)
    BY <1>7, <2>1
  <2>3. PICK c \in X : c = R!Comma
    OBVIOUS
  <2>4. ReadStep(Reader(F, x, FALSE, q), c) = Reader(Append(F, x), <<>>, FALSE, FALSE)
    BY <2>2, <2>3, ReadComma
  <2> QED
    BY <2>1, <2>2, <2>3, <2>4, ReadOne
<1> HIDE DEF Behind
<1>11. 0 \in C
  OBVIOUS
<1>12. ASSUME NEW n \in Nat, n \in C PROVE n + 1 \in C
  <2> SUFFICES ASSUME n + 1 \in 1..N
               PROVE  f[n + 1] \in Seq(X) /\ \E q \in BOOLEAN : Reads(start, f[n + 1], Behind(n + 1, q))
    OBVIOUS
  <2>4. PICK m \in 1..N : m = n + 1
    OBVIOUS
  <2>5. R!esc(fields[m]) \in Seq(X) /\ \E q \in BOOLEAN : Reads(Reader(at[m], <<>>, FALSE, FALSE), R!esc(fields[m]), Behind(m, q))
    BY <1>9
  <2>6. PICK e : e = R!esc(fields[m])
    OBVIOUS
  <2>7. PICK q \in BOOLEAN : Reads(Reader(at[m], <<>>, FALSE, FALSE), e, Behind(m, q))
    BY <2>5, <2>6
  <2>8. e \in Seq(X) /\ pieces[m] = (IF m = 1 THEN <<>> ELSE <<R!Comma>>) \o e
    BY <1>4, <2>5, <2>6
  <2>2. CASE n = 0
    <3>1. m = 1
      BY <2>2, <2>4
    <3>2. f[1] = <<>> \o e
      BY <1>8, <2>8, <3>1
    <3>3. <<>> \o e = e
      BY <2>8, ConcatEmptySeq
    <3>4. PICK t, u : t = Reader(at[m], <<>>, FALSE, FALSE) /\ u = Behind(m, q)
      OBVIOUS
    <3>5. t = start /\ Reads(t, e, u)
      BY <1>6, <2>7, <3>1, <3>4
    <3>6. f[m] \in Seq(X) /\ Reads(start, f[m], u)
      BY <2>8, <3>1, <3>2, <3>3, <3>5
    <3> QED
      BY <2>4, <3>4, <3>6
  <2>3. CASE n # 0
    <3>1. n \in 1..N /\ m \in 2..N /\ m # 1 /\ m - 1 = n
      BY <2>3, <2>4
    <3>2. f[m] = f[n] \o pieces[m] /\ pieces[m] = <<R!Comma>> \o e
      BY <1>8, <2>8, <3>1
    <3>3. PICK p \in BOOLEAN : f[n] \in Seq(X) /\ Reads(start, f[n], Behind(n, p))
      BY <1>12, <3>1
    <3>4. PICK s, t, u : s = Behind(n, p) /\ t = Reader(at[m], <<>>, FALSE, FALSE) /\ u = Behind(m, q)
      OBVIOUS
    <3>5. Reads(s, <<R!Comma>>, t) /\ Reads(t, e, u) /\ Reads(start, f[n], s)
      BY <1>10, <2>4, <2>7, <3>1, <3>3, <3>4
    <3>6. <<R!Comma>> \o e \in Seq(X) /\ Reads(s, <<R!Comma>> \o e, u)
      BY <1>2, <2>8, <3>5, ReadBoth
    <3>7. PICK v, w : v = f[n] /\ w = <<R!Comma>> \o e
      OBVIOUS
    <3>8. v \in Seq(X) /\ w \in Seq(X) /\ Reads(start, v, s) /\ Reads(s, w, u)
      BY <3>3, <3>5, <3>6, <3>7
    <3>9. v \o w \in Seq(X) /\ Reads(start, v \o w, u)
      BY <3>8, ReadBoth
    <3>10. f[m] \in Seq(X) /\ Reads(start, f[m], u)
      BY <3>2, <3>7, <3>9
    <3> QED
      BY <2>4, <3>4, <3>10
  <2> QED
    BY <2>2, <2>3
<1>13. N \in C
  <2> HIDE DEF C
  <2> QED
    BY <1>11, <1>12, EveryNumber
<1>14. PICK q \in BOOLEAN : line \in Seq(X) /\ Reads(start, line, Behind(N, q))
  BY <1>8, <1>13
<1>15. R!CsvFields(line) = Behind(N, q).fields
  BY <1>14, CsvFieldsAre DEF start
<1>16. Behind(N, q).fields = Append(at[N], fields[N])
  BY DEF Behind, Reader
<1> QED
  BY <1>7, <1>15, <1>16 DEF line

\* FeedsAgree: the rows of the feed are fields, whatever is in an operator's name.
LEMMA TheFeedsAgree == R!FeedsAgree
<1> SUFFICES ASSUME NEW d \in R!Days, NEW o \in R!Listed
             PROVE  R!CsvFields(R!SettlementFeed(d, "csv")[o]) = R!SettlementFeed(d, "json")[o]
  BY DEF R!FeedsAgree
<1>1. PICK row : row = R!FeedRow(o, R!Settlement(d)[o])
  OBVIOUS
<1>2. R!SettlementFeed(d, "csv")[o] = R!toCsv(row) /\ R!SettlementFeed(d, "json")[o] = row
  BY <1>1 DEF R!SettlementFeed
<1>3. PICK figures : row = <<o.name>> \o [k \in DOMAIN R!Columns |-> figures[k]] /\ \A k \in DOMAIN R!Columns : \E c : figures[k] = <<c>>
  <2> DEFINE figures == [k \in DOMAIN R!Columns |-> <<R!ToString(R!Settlement(d)[o][R!Columns[k]])>>]
  <2>1. row = <<o.name>> \o figures
    BY <1>1 DEF R!FeedRow
  <2>2. \A k \in DOMAIN R!Columns : figures[k] = <<R!ToString(R!Settlement(d)[o][R!Columns[k]])>>
    OBVIOUS
  <2>3. figures = [k \in DOMAIN R!Columns |-> figures[k]]
    OBVIOUS
  <2> HIDE DEF figures
  <2>4. row = <<o.name>> \o [k \in DOMAIN R!Columns |-> figures[k]]
    BY <2>1, <2>3
  <2>5. \A k \in DOMAIN R!Columns : \E c : figures[k] = <<c>>
    BY <2>2
  <2> QED
    BY <2>4, <2>5
<1>4. DOMAIN R!Columns = 1..5
  BY DEF R!Columns
<1> DEFINE X == STRING \cup {R!Quote, R!Comma} \cup {figures[k][1] : k \in 1..5}
<1>5. \A k \in 1..5 : figures[k] \in Seq(X)
  <2> SUFFICES ASSUME NEW k \in 1..5 PROVE figures[k] \in Seq(X)
    OBVIOUS
  <2>1. PICK c : figures[k] = <<c>>
    BY <1>3, <1>4
  <2>2. figures[k][1] = c
    BY <2>1
  <2>3. c \in X
    BY <2>2
  <2> HIDE DEF X
  <2> QED
    BY <2>1, <2>3
<1>6. o.name \in Seq(X)
  <2>1. o.name \in Seq(STRING)
    BY ReportsAssumption DEF R!Listed
  <2>2. \A S, T : S \subseteq T => Seq(S) \subseteq Seq(T)
    OBVIOUS
  <2>3. STRING \subseteq X
    OBVIOUS
  <2> HIDE DEF X
  <2> QED
    BY <2>1, <2>2, <2>3
<1>7. {R!Quote, R!Comma} \subseteq X
  OBVIOUS
<1> HIDE DEF X
<1>8. row \in Seq(Seq(X)) /\ row # <<>>
  <2>1. <<o.name>> \in Seq(Seq(X)) /\ Len(<<o.name>>) = 1
    BY <1>6
  <2>2. PICK w : w = [k \in 1..5 |-> figures[k]]
    OBVIOUS
  <2>3. w \in Seq(Seq(X)) /\ Len(w) = 5
    BY <1>5, <2>2
  <2>4. row = <<o.name>> \o w
    BY <1>3, <1>4, <2>2
  <2>5. PICK v : v = <<o.name>>
    OBVIOUS
  <2>6. v \in Seq(Seq(X)) /\ Len(v) = 1
    BY <2>1, <2>5
  <2>7. v \o w \in Seq(Seq(X)) /\ Len(v \o w) = Len(v) + Len(w)
    BY <2>3, <2>6, ConcatProperties
  <2>8. row \in Seq(Seq(X)) /\ Len(row) = 6
    BY <2>3, <2>4, <2>5, <2>6, <2>7
  <2> QED
    BY <2>8
<1>9. R!CsvFields(R!toCsv(row)) = row
  BY <1>7, <1>8, LineIsRead
<1> QED
  BY <1>2, <1>9

(* The portals' pages, for any operators, currencies, bets and hours         *)
(* (platformOverview, adminOverview, the drill-down, settlement, the trend,  *)
(* RTP, statements, the feed, health and SLA): whatever the bets went        *)
(* through and whenever a page is asked for, the pages agree with each       *)
(* other and with what the bets did to the players' balances.                *)
THEOREM ReportsAddUpHolds == Spec => []ReportsAddUp
<1>1. BooksInit => ReportsInv
  <2> SUFFICES ASSUME BooksInit PROVE ReportsInv
    OBVIOUS
  <2>1. R!Init
    BY DEF BooksInit
  <2> QED
    BY <2>1, ReportsStart
<1>2. ReportsInv /\ [BooksNext]_allVars => ReportsInv'
  <2> SUFFICES ASSUME ReportsInv, [BooksNext]_allVars PROVE ReportsInv'
    OBVIOUS
  <2>1. CASE UNCHANGED reportVars
    BY <2>1 DEF reportVars, ReportsInv, BetHolds, ReportBet, Lives
  <2>2. CASE part = "reports" /\ R!Next
    BY <2>2, ReportsStep
  <2> QED
    BY <2>1, <2>2 DEF BooksNext, allVars, ChainOnly, LedgerOnly, PagingOnly, EvidenceOnly
<1>3. ReportsInv => ReportsAddUp
  BY ReportsAreTyped, ThePagesAgree, RevenueAddsUp, TheTrendAddsUp, TheSameBets, SettledBetsDo,
     TheFeedsAgree, TheHealthCounts, TheSlaIsTheWorst, TheFlagIsTheBand DEF ReportsAddUp
<1> QED
  BY <1>1, <1>2, <1>3, PTL DEF Spec
=============================================================================
