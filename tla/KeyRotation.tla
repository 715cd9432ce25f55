----------------------------- MODULE KeyRotation -----------------------------
(* The credentials of one operator and one type, and the keys that sign its *)
(* launch tokens: created, rotated with a grace, revoked, used.  A key is   *)
(* its place in the order of creation.  A tick is hours, and no request     *)
(* lasts that long; a step is the code between two awaits.                  *)
EXTENDS Naturals, Sequences, FiniteSets

CONSTANTS Rotations, Signers,     \* requests that may overlap
          Graces,                 \* what graceMs may be, in ticks
          KeyGrace, Life,         \* the 24 h of a signing key, the ttl of a session
          MaxKeys, MaxTime

ASSUME LifeFitsGrace == Life \in Nat /\ KeyGrace \in Nat /\ Life <= KeyGrace
\* Both consoles take a graceMs of 24 h at most.
ASSUME GraceAssumption == Graces \subseteq 0..KeyGrace /\ MaxKeys \in Nat \ {0} /\ MaxTime \in Nat

VARIABLES
    now,
    cred,                     \* OperatorCredential: end (notAfter) and revoked
    rotation,                 \* rotateCredential() between its read and its commit
    promises,                 \* history: what callers were told of the previous one
    adapter, turned,          \* credential of the engine's HttpWalletAdapter; rotated since
    key,                      \* OperatorSigningKey: retiring or active, and its end
    signing, turning,         \* signLaunchJwt(), rotateSigningKey() between read and write
    tokens,                   \* launch tokens: key and expiry
    crossed                   \* history: rotations or first uses overlapped

credVars == <<cred, rotation, promises, adapter, turned>>
keyVars == <<key, signing, turning, tokens>>
rotationVars == <<now, credVars, keyVars, crossed>>

Never == MaxTime + KeyGrace + 1   \* notAfter is null
Fresh == [end |-> Never, revoked |-> FALSE]
Idle == [pc |-> "idle", prev |-> 0, grace |-> 0]

Init ==
    /\ now = 0 /\ crossed = FALSE
    /\ cred = <<Fresh>> /\ rotation = [r \in Rotations |-> Idle] /\ promises = {}
    /\ adapter = 1 /\ turned = FALSE
    /\ key = <<>> /\ signing = [s \in Signers |-> Idle] /\ turning = [r \in Rotations |-> Idle]
    /\ tokens = {}

AllIdle == /\ \A r \in Rotations : rotation[r] = Idle /\ turning[r] = Idle
           /\ \A s \in Signers : signing[s] = Idle

Tick ==
    /\ now < MaxTime /\ AllIdle /\ now' = now + 1
    /\ UNCHANGED <<credVars, keyVars, crossed>>

Newest(ids) == IF ids = {} THEN 0 ELSE CHOOSE k \in ids : \A j \in ids : j <= k

-----------------------------------------------------------------------------
(* Credentials.                                                             *)

\* operatorAuth accepts it; rotateCredential() takes it for the active one.
Accepted(k) == ~cred[k].revoked /\ cred[k].end >= now
Usable(k) == ~cred[k].revoked /\ cred[k].end > now

\* POST /credentials:rotate: the caller's grace, and the credential it will end.
Ask(g, candidates) == [pc |-> "read", grace |-> g, prev |-> Newest(candidates)]

\* Mutant: a credential past its notAfter is found again.
RotateReadsAny(r) ==
    /\ rotation[r] = Idle /\ Len(cred) < MaxKeys
    /\ \E g \in Graces :
         rotation' = [rotation EXCEPT ![r] = Ask(g, {k \in 1..Len(cred) : ~cred[k].revoked})]
    /\ crossed' = (crossed \/ \E q \in Rotations : rotation[q] # Idle)
    /\ UNCHANGED <<now, cred, promises, adapter, turned, keyVars>>

\* rotateCredential(): the newest that is neither revoked nor past its end ...
RotateReads(r) ==
    /\ rotation[r] = Idle /\ Len(cred) < MaxKeys
    /\ \E g \in Graces :
         rotation' = [rotation EXCEPT ![r] = Ask(g, {k \in 1..Len(cred) : Usable(k)})]
    /\ crossed' = (crossed \/ \E q \in Rotations : rotation[q] # Idle)
    /\ UNCHANGED <<now, cred, promises, adapter, turned, keyVars>>

\* Mutant: every older credential is given the new end.
RotateSunsetsAll(r) ==
    LET t == rotation[r] IN
    /\ t.pc = "read" /\ Len(cred) < MaxKeys
    /\ cred' = Append([k \in DOMAIN cred |-> [cred[k] EXCEPT !.end = now + t.grace]], Fresh)
    /\ promises' = IF t.prev = 0 THEN promises ELSE promises \cup {<<t.prev, now + t.grace>>}
    /\ rotation' = [rotation EXCEPT ![r] = Idle] /\ turned' = TRUE
    /\ UNCHANGED <<now, adapter, keyVars, crossed>>

\* Mutant: the previous credential is left as it is.
RotateForgets(r) ==
    /\ rotation[r].pc = "read" /\ Len(cred) < MaxKeys
    /\ cred' = Append(cred, Fresh) /\ rotation' = [rotation EXCEPT ![r] = Idle] /\ turned' = TRUE
    /\ UNCHANGED <<now, promises, adapter, keyVars, crossed>>

\* Mutant: every one of the type is given the end, after the new one was made.
RotateSunsetsLast(r) ==
    LET t == rotation[r] IN
    /\ t.pc = "read" /\ Len(cred) < MaxKeys
    /\ cred' = [k \in 1..Len(cred) + 1 |-> [(cred \o <<Fresh>>)[k] EXCEPT !.end = now + t.grace]]
    /\ rotation' = [rotation EXCEPT ![r] = Idle] /\ turned' = TRUE
    /\ UNCHANGED <<now, promises, adapter, keyVars, crossed>>

\* ... is given an end, beside the new one; both are there at once.
RotateCommits(r) ==
    LET t == rotation[r] IN
    /\ t.pc = "read" /\ Len(cred) < MaxKeys
    /\ cred' = [k \in 1..Len(cred) + 1 |->
                  IF k = t.prev THEN [(cred \o <<Fresh>>)[k] EXCEPT !.end = now + t.grace]
                  ELSE (cred \o <<Fresh>>)[k]]
    /\ promises' = IF t.prev = 0 THEN promises ELSE promises \cup {<<t.prev, now + t.grace>>}
    /\ rotation' = [rotation EXCEPT ![r] = Idle] /\ turned' = TRUE
    /\ UNCHANGED <<now, adapter, keyVars, crossed>>

\* POST /credentials/rotate of the older console: a credential beside the others.
AddBeside ==
    /\ Len(cred) < MaxKeys /\ cred' = Append(cred, Fresh) /\ turned' = TRUE
    /\ crossed' = TRUE
    /\ UNCHANGED <<now, rotation, promises, adapter, keyVars>>

\* revokeCredentialImmediately() also ends it ...
Revoke(k) ==
    /\ k <= Len(cred) /\ ~cred[k].revoked
    /\ cred' = [cred EXCEPT ![k] = [end |-> now, revoked |-> TRUE]]
    /\ UNCHANGED <<now, rotation, promises, adapter, turned, keyVars, crossed>>

\* ... DELETE /credentials/:id does not.
Delete(k) ==
    /\ k <= Len(cred) /\ cred' = [cred EXCEPT ![k].revoked = TRUE]
    /\ UNCHANGED <<now, rotation, promises, adapter, turned, keyVars, crossed>>

\* Mutant: the oldest is taken.
BuildAdapterOldest ==
    /\ adapter' = (CHOOSE k \in 1..Len(cred) : \A j \in 1..Len(cred) : k <= j) /\ turned' = FALSE
    /\ UNCHANGED <<now, cred, rotation, promises, keyVars, crossed>>

\* buildAdapter() of an engine that starts: the newest that is not revoked, whatever its
\* end; none: the internal wallet.  The engine keeps it for as long as it runs.
BuildAdapter ==
    /\ adapter' = Newest({k \in 1..Len(cred) : ~cred[k].revoked}) /\ turned' = FALSE
    /\ UNCHANGED <<now, cred, rotation, promises, keyVars, crossed>>

-----------------------------------------------------------------------------
(* Signing keys.                                                            *)

Active == {k \in 1..Len(key) : key[k] = Never}     \* the others are RETIRING
Published(k) == key[k] > now

\* Mutant: the first use mints nothing.
SignReadsBare(s) ==
    /\ signing[s] = Idle /\ Cardinality(tokens) < MaxKeys
    /\ signing' = [signing EXCEPT ![s] = [Idle EXCEPT !.pc = "sign", !.prev = Newest(Active)]]
    /\ UNCHANGED <<now, credVars, key, turning, tokens, crossed>>

\* getActiveSigningKey(): the newest active key, or none.
SignReads(s) ==
    /\ signing[s] = Idle /\ Cardinality(tokens) < MaxKeys
    /\ signing' = [signing EXCEPT ![s] = [Idle EXCEPT !.pc = IF Active = {} THEN "mint" ELSE "sign",
                                                      !.prev = Newest(Active)]]
    /\ crossed' = (crossed \/ (Active = {} /\ ~AllIdle))
    /\ UNCHANGED <<now, credVars, key, turning, tokens>>

\* The first use mints it.
MintKey(s) ==
    /\ signing[s].pc = "mint" /\ Len(key) < MaxKeys /\ key' = Append(key, Never)
    /\ signing' = [signing EXCEPT ![s] = [pc |-> "sign", prev |-> Len(key) + 1, grace |-> 0]]
    /\ UNCHANGED <<now, credVars, turning, tokens, crossed>>

\* signLaunchJwt().
Sign(s) ==
    /\ signing[s].pc = "sign" /\ signing' = [signing EXCEPT ![s] = Idle]
    /\ tokens' = tokens \cup {<<signing[s].prev, now + Life>>}
    /\ UNCHANGED <<now, credVars, key, turning, crossed>>

\* rotateSigningKey(): the newest active key ...
KeyReads(r) ==
    /\ turning[r] = Idle /\ Len(key) < MaxKeys
    /\ turning' = [turning EXCEPT ![r] = [Idle EXCEPT !.pc = "read", !.prev = Newest(Active)]]
    /\ crossed' = (crossed \/ \E q \in Rotations : turning[q] # Idle
                           \/ \E s \in Signers : signing[s].pc = "mint")
    /\ UNCHANGED <<now, credVars, key, signing, tokens>>

\* Mutant: the old key is no longer published.
KeyCommitsNow(r) ==
    LET p == turning[r].prev IN
    /\ turning[r].pc = "read" /\ Len(key) < MaxKeys /\ turning' = [turning EXCEPT ![r] = Idle]
    /\ key' = [k \in 1..Len(key) + 1 |-> IF k > Len(key) THEN Never
                                         ELSE IF k = p THEN now ELSE key[k]]
    /\ UNCHANGED <<now, credVars, signing, tokens, crossed>>

\* Mutant: the old key stays active.
KeyCommitsBeside(r) ==
    /\ turning[r].pc = "read" /\ Len(key) < MaxKeys /\ turning' = [turning EXCEPT ![r] = Idle]
    /\ key' = Append(key, Never)
    /\ UNCHANGED <<now, credVars, signing, tokens, crossed>>

\* ... retires with a grace, and there is a new one.
KeyCommits(r) ==
    LET p == turning[r].prev IN
    /\ turning[r].pc = "read" /\ Len(key) < MaxKeys /\ turning' = [turning EXCEPT ![r] = Idle]
    /\ key' = [k \in 1..Len(key) + 1 |-> IF k > Len(key) THEN Never
                                         ELSE IF k = p THEN now + KeyGrace ELSE key[k]]
    /\ UNCHANGED <<now, credVars, signing, tokens, crossed>>

\* verifyLaunchJwt() by the set that jwks.json publishes.
Jwks == {k \in 1..Len(key) : Published(k)}
Verifies(t) == t[1] \in Jwks /\ t[2] >= now

CredentialNext ==
    \/ Tick \/ AddBeside \/ BuildAdapter
    \/ \E r \in Rotations : RotateReads(r) \/ RotateCommits(r)
    \/ \E k \in 1..MaxKeys : Revoke(k) \/ Delete(k)

KeyNext ==
    \/ Tick
    \/ \E r \in Rotations : KeyReads(r) \/ KeyCommits(r)
    \/ \E s \in Signers : SignReads(s) \/ MintKey(s) \/ Sign(s)

\* Credentials and keys side by side: they share the clock and nothing else.
RotationSpec == Init /\ [][CredentialNext \/ KeyNext]_rotationVars

-----------------------------------------------------------------------------
(* Properties.                                                              *)

Revoked == {k \in DOMAIN cred : cred[k].revoked}
Credentials == [end : 0..Never, revoked : BOOLEAN]
Requests == [pc : {"idle", "read", "mint", "sign"}, prev : 0..MaxKeys, grace : 0..KeyGrace]
TypeOK ==
    /\ now \in 0..MaxTime /\ crossed \in BOOLEAN /\ turned \in BOOLEAN
    /\ cred \in Seq(Credentials) /\ Len(cred) \in 1..MaxKeys /\ adapter \in 0..Len(cred)
    /\ key \in Seq(0..Never) /\ Len(key) \in 0..MaxKeys
    /\ rotation \in [Rotations -> Requests] /\ turning \in [Rotations -> Requests]
    /\ signing \in [Signers -> Requests]
    /\ promises \subseteq (1..Len(cred)) \X Nat /\ tokens \subseteq (1..Len(key)) \X Nat

\* "Zero downtime": however rotations cross, as long as nothing was revoked there is a
\* credential that does not end.
AlwaysACredential == Revoked = {} => \E k \in DOMAIN cred : cred[k].end = Never

\* What operatorAuth rejects it rejects for ever: no rotation gives an ended credential
\* another life.
RejectedStaysRejected ==
    [][\A k \in DOMAIN cred : ~Accepted(k) => k \in DOMAIN cred' /\ ~Accepted(k)']_rotationVars

\* previousCredentialRetiresAt holds, unless requests crossed or a revocation made an
\* older credential the newest again.
PromisedGrace == ~crossed /\ Revoked = {} => \A p \in promises : cred[p[1]].end = p[2]

\* Rotations that do not cross leave one credential without an end: the older ones die
\* out by themselves.
OldOnesRetire == ~crossed => Cardinality({k \in DOMAIN cred : cred[k].end = Never /\ k \notin Revoked}) <= 1

\* An engine that started after the last rotation signs its wallet calls with a
\* credential that does not end, unless one was revoked.
AdapterSigns == ~turned /\ Revoked = {} => cred[adapter].end = Never

\* A launch token verifies for as long as it lives, whatever was rotated since or while
\* it was signed.
TokenLives == \A t \in tokens : t[2] > now => Verifies(t)

\* One key signs, unless first uses or rotations crossed.
OneActiveKey == ~crossed => Cardinality(Active) <= 1

\* Rotation of operator credentials and of signing keys: there is always one that does
\* not end, the older ones keep their promised grace and die out, engines sign with one
\* that lives, and a launch token outlives the rotations it crosses.
RotationIsSeamless ==
    /\ TypeOK /\ AlwaysACredential /\ PromisedGrace /\ OldOnesRetire
    /\ AdapterSigns /\ TokenLives /\ OneActiveKey
=============================================================================
