---------------------------- MODULE PortalAccess ----------------------------
(* The users of one operator's portal: invitations, logins, and the second  *)
(* factors they enrol, use and lose.  Passwords are right, codes are those  *)
(* of the secret the user last proved.  A step is the code between two      *)
(* awaits; one handler at a time per entry of Handlers.                     *)
EXTENDS Naturals, Sequences, FiniteSets

CONSTANTS Emails, Member,      \* addresses; the one that is a user from the start
          Handlers,            \* requests that may overlap
          MaxInvites, MaxSecrets, MaxChallenges

VARIABLES
    user,        \* OperatorUser by e-mail, with its TOTP secret and its passkeys
    proven,      \* the secret of the user's authenticator, 0: none
    invite,      \* OperatorUserInvite, in the order of creation
    challenge,   \* WebauthnChallenge: kind and user, or used up
    handler,     \* requests between two awaits
    granted,     \* history: portal tokens by challenge; plain: by a password alone
    secrets,     \* history: secrets made
    crossed      \* history: users, or addresses, whose requests overlapped

portalVars == <<user, proven, invite, challenge, handler, granted, secrets, crossed>>

Nobody == [exists |-> FALSE, disabled |-> FALSE, secret |-> 0, enrolled |-> FALSE, passkeys |-> 0]
Idle == [kind |-> "none", email |-> Member, at |-> 0, second |-> FALSE]

Init ==
    /\ user = [e \in Emails |-> IF e = Member THEN [Nobody EXCEPT !.exists = TRUE] ELSE Nobody]
    /\ proven = [e \in Emails |-> 0] /\ invite = <<>> /\ challenge = <<>>
    /\ handler = [h \in Handlers |-> Idle] /\ granted = <<>> /\ secrets = 0 /\ crossed = {}

\* A request begins, and is on record as crossing the others about the same address.
Begins(h, kind, e, at, second) ==
    /\ handler[h] = Idle
    /\ handler' = [handler EXCEPT ![h] = [kind |-> kind, email |-> e, at |-> at, second |-> second]]
    /\ crossed' = IF \E g \in Handlers : handler[g] # Idle /\ handler[g].email = e
                    THEN crossed \cup {e} ELSE crossed
Goes(h, kind) == handler' = [handler EXCEPT ![h].kind = kind]
Ends(h) == handler' = [handler EXCEPT ![h] = Idle]
In(h, kind) == handler[h].kind = kind

-----------------------------------------------------------------------------
(* UserInvites.                                                             *)

Open(i) == ~invite[i].accepted /\ ~invite[i].revoked
OpenFor(e) == {i \in DOMAIN invite : invite[i].email = e /\ Open(i)}

\* createInvite(): no user has the address yet ...
InviteLooks(h, e) ==
    /\ ~user[e].exists /\ Len(invite) < MaxInvites /\ Begins(h, "invite", e, 0, FALSE)
    /\ UNCHANGED <<user, proven, invite, challenge, granted, secrets>>

\* Mutant: older invitations stay open.
InviteRevokesNone(h) ==
    /\ In(h, "invite") /\ Goes(h, "revoked")
    /\ UNCHANGED <<user, proven, invite, challenge, granted, secrets, crossed>>

\* ... older invitations are revoked ...
InviteRevokes(h) ==
    /\ In(h, "invite") /\ Goes(h, "revoked")
    /\ invite' = [i \in DOMAIN invite |-> IF i \in OpenFor(handler[h].email)
                                            THEN [invite[i] EXCEPT !.revoked = TRUE] ELSE invite[i]]
    /\ UNCHANGED <<user, proven, challenge, granted, secrets, crossed>>

\* ... and there is a new one.
InviteCreates(h) ==
    /\ In(h, "revoked") /\ Ends(h) /\ Len(invite) < MaxInvites
    /\ invite' = Append(invite, [email |-> handler[h].email, accepted |-> FALSE, revoked |-> FALSE,
                                 expired |-> FALSE])
    /\ UNCHANGED <<user, proven, challenge, granted, secrets, crossed>>

InviteExpires(i) ==
    /\ Open(i) /\ ~invite[i].expired /\ invite' = [invite EXCEPT ![i].expired = TRUE]
    /\ UNCHANGED <<user, proven, challenge, handler, granted, secrets, crossed>>

\* revokeInvite() looks at an open invitation and revokes it, accepted or not by then.
RevokeLooks(h, i) ==
    /\ Open(i) /\ Begins(h, "revoke", invite[i].email, i, FALSE)
    /\ UNCHANGED <<user, proven, invite, challenge, granted, secrets>>
RevokeWrites(h) ==
    /\ In(h, "revoke") /\ Ends(h) /\ invite' = [invite EXCEPT ![handler[h].at].revoked = TRUE]
    /\ UNCHANGED <<user, proven, challenge, granted, secrets, crossed>>

\* Mutant: a revoked invitation is good.
AcceptLooksOnce(h, i) ==
    /\ ~invite[i].accepted /\ ~invite[i].expired /\ Begins(h, "accept", invite[i].email, i, FALSE)
    /\ UNCHANGED <<user, proven, invite, challenge, granted, secrets>>

\* acceptInvite(): the token is good; the password is hashed ...
AcceptLooks(h, i) ==
    /\ Open(i) /\ ~invite[i].expired /\ Begins(h, "accept", invite[i].email, i, FALSE)
    /\ UNCHANGED <<user, proven, invite, challenge, granted, secrets>>

\* Mutant: the invitation is marked whether or not a user is made.
AcceptMarks(h) ==
    LET e == handler[h].email IN
    /\ In(h, "accept") /\ Ends(h)
    /\ user' = [user EXCEPT ![e].exists = TRUE]
    /\ invite' = [invite EXCEPT ![handler[h].at].accepted = TRUE]
    /\ UNCHANGED <<proven, challenge, granted, secrets, crossed>>

\* POST /invites:accept logs the new user in.
AcceptOpens(e) == granted' = Append(granted, [email |-> e, by |-> "invite", at |-> 0])

\* ... and, unless the address has a user by now, user and invitation are written in one
\* transaction.
AcceptCommits(h) ==
    LET e == handler[h].email IN
    /\ In(h, "accept") /\ Ends(h)
    /\ IF user[e].exists THEN UNCHANGED <<user, invite, granted>>
       ELSE /\ user' = [user EXCEPT ![e].exists = TRUE] /\ AcceptOpens(e)
            /\ invite' = [invite EXCEPT ![handler[h].at].accepted = TRUE]
    /\ UNCHANGED <<proven, challenge, secrets, crossed>>

\* Mutant: whoever the id names.
DisableAny(e) ==
    /\ ~user[e].disabled /\ user' = [user EXCEPT ![e].disabled = TRUE]
    /\ UNCHANGED <<proven, invite, challenge, handler, granted, secrets, crossed>>

\* POST /users/:id/disable.
Disable(e) ==
    /\ user[e].exists /\ ~user[e].disabled /\ user' = [user EXCEPT ![e].disabled = TRUE]
    /\ UNCHANGED <<proven, invite, challenge, handler, granted, secrets, crossed>>

-----------------------------------------------------------------------------
(* Mfa.                                                                     *)

\* Mutant: who is enrolled may begin again.
MfaLooksAny(h, e) ==
    /\ user[e].exists /\ secrets < MaxSecrets /\ Begins(h, "mfa", e, 0, FALSE)
    /\ UNCHANGED <<user, proven, invite, challenge, granted, secrets>>

\* beginMfaEnrollment(): a user who is not enrolled ...
MfaLooks(h, e) ==
    /\ user[e].exists /\ ~user[e].enrolled /\ secrets < MaxSecrets /\ Begins(h, "mfa", e, 0, FALSE)
    /\ UNCHANGED <<user, proven, invite, challenge, granted, secrets>>

\* ... is given a secret, in the place of an unconfirmed one.
MfaStores(h) ==
    /\ In(h, "mfa") /\ Ends(h) /\ secrets < MaxSecrets /\ secrets' = secrets + 1
    /\ user' = [user EXCEPT ![handler[h].email].secret = secrets + 1]
    /\ UNCHANGED <<proven, invite, challenge, granted, crossed>>

\* confirmMfaEnrollment(): a code of the stored secret is shown ...
ConfirmLooks(h, e) ==
    /\ user[e].secret # 0 /\ Begins(h, "confirm", e, 0, FALSE)
    /\ proven' = [proven EXCEPT ![e] = user[e].secret]
    /\ UNCHANGED <<user, invite, challenge, granted, secrets>>

\* ... and the user is enrolled, with whatever secret there is by now.
ConfirmWrites(h) ==
    /\ In(h, "confirm") /\ Ends(h) /\ user' = [user EXCEPT ![handler[h].email].enrolled = TRUE]
    /\ UNCHANGED <<proven, invite, challenge, granted, secrets, crossed>>

\* disableMfa(), by an administrator.
MfaDisable(e) ==
    /\ user[e].exists /\ user' = [user EXCEPT ![e].secret = 0, ![e].enrolled = FALSE]
    /\ proven' = [proven EXCEPT ![e] = 0]
    /\ crossed' = IF \E g \in Handlers : handler[g] # Idle /\ handler[g].email = e
                    THEN crossed \cup {e} ELSE crossed
    /\ UNCHANGED <<invite, challenge, handler, granted, secrets>>

-----------------------------------------------------------------------------
(* Login, by password and code or by passkey.                               *)

Grant(e, by, c) == granted' = Append(granted, [email |-> e, by |-> by, at |-> c])

\* The user row: known, not disabled, the password is right.
LoginReads(h, e) ==
    /\ user[e].exists /\ ~user[e].disabled /\ Len(granted) < MaxChallenges
    /\ Begins(h, "login", e, 0, user[e].enrolled)
    /\ UNCHANGED <<user, proven, invite, challenge, granted, secrets>>

\* Mutant: a passkey alone does not ask for a second factor.
LoginDecidesByCode(h) ==
    LET e == handler[h].email IN
    /\ In(h, "login") /\ Len(granted) < MaxChallenges
    /\ IF handler[h].second THEN Goes(h, "code") /\ UNCHANGED granted
       ELSE Ends(h) /\ Grant(e, "password", 0)
    /\ UNCHANGED <<user, proven, invite, challenge, secrets, crossed>>

\* The passkeys are counted; a second factor is asked for, and a code is given by who is
\* enrolled.  Who has a passkey only is sent to the other login.
LoginDecides(h) ==
    LET e == handler[h].email IN
    /\ In(h, "login") /\ Len(granted) < MaxChallenges
    /\ IF handler[h].second THEN Goes(h, "code") /\ UNCHANGED granted
       ELSE Ends(h) /\ IF user[e].passkeys > 0 THEN UNCHANGED granted ELSE Grant(e, "password", 0)
    /\ UNCHANGED <<user, proven, invite, challenge, secrets, crossed>>

\* verifyMfaCode() reads the row again.
CodeIsGood(e) == user[e].enrolled /\ user[e].secret # 0 /\ user[e].secret = proven[e]
CodeChecked(h) ==
    LET e == handler[h].email IN
    /\ In(h, "code") /\ Ends(h) /\ Len(granted) < MaxChallenges
    /\ IF CodeIsGood(e) THEN Grant(e, "code", 0) ELSE UNCHANGED granted
    /\ UNCHANGED <<user, proven, invite, challenge, secrets, crossed>>

\* beginRegistration(): a challenge is on record.
RegisterBegins(e) ==
    /\ user[e].exists /\ Len(challenge) < MaxChallenges
    /\ challenge' = Append(challenge, [kind |-> "register", email |-> e, live |-> TRUE])
    /\ UNCHANGED <<user, proven, invite, handler, granted, secrets, crossed>>

\* beginAuthentication() of a user who has a passkey, after the password.
Authenticates(e) ==
    /\ user[e].passkeys > 0 /\ Len(challenge) < MaxChallenges
    /\ challenge' = Append(challenge, [kind |-> "authenticate", email |-> e, live |-> TRUE])
PasskeyLoginBegins(e) ==
    /\ user[e].exists /\ ~user[e].disabled /\ Authenticates(e)
    /\ UNCHANGED <<user, proven, invite, handler, granted, secrets, crossed>>

\* confirmRegistration() and verifyAuthentication() find the challenge and, the latter,
\* the passkey ...
ChallengeFound(h, c) ==
    LET x == challenge[c] IN
    /\ x.live /\ (x.kind = "authenticate" => user[x.email].passkeys > 0)
    /\ Begins(h, x.kind, x.email, c, FALSE)
    /\ UNCHANGED <<user, proven, invite, challenge, granted, secrets>>

\* Mutant: the challenge is left for the sweep.
AuthenticatedKeeps(h) ==
    LET e == handler[h].email IN
    /\ In(h, "authenticate") /\ Ends(h) /\ Len(granted) < MaxChallenges
    /\ IF user[e].passkeys > 0 THEN Grant(e, "passkey", handler[h].at) ELSE UNCHANGED granted
    /\ UNCHANGED <<user, proven, invite, challenge, secrets, crossed>>

\* POST /webauthn:verify opens the session, of a user disabled meanwhile too.
PasskeyOpens(e, c) == Grant(e, "passkey", c)

\* ... and use it up, with the passkey, in one transaction: one that finds either gone
\* fails as a whole.
Authenticated(h) ==
    LET e == handler[h].email  c == handler[h].at IN
    /\ In(h, "authenticate") /\ Ends(h) /\ Len(granted) < MaxChallenges
    /\ IF challenge[c].live /\ user[e].passkeys > 0
         THEN PasskeyOpens(e, c) /\ challenge' = [challenge EXCEPT ![c].live = FALSE]
         ELSE UNCHANGED <<granted, challenge>>
    /\ UNCHANGED <<user, proven, invite, secrets, crossed>>
Registered(h) ==
    LET e == handler[h].email  c == handler[h].at IN
    /\ In(h, "register") /\ Ends(h)
    /\ IF challenge[c].live
         THEN /\ user' = [user EXCEPT ![e].passkeys = @ + 1]
              /\ challenge' = [challenge EXCEPT ![c].live = FALSE]
         ELSE UNCHANGED <<user, challenge>>
    /\ UNCHANGED <<proven, invite, granted, secrets, crossed>>

\* deleteCredential(); and the challenge of five minutes ago, or swept.
PasskeyDeleted(e) ==
    /\ user[e].passkeys > 0 /\ user' = [user EXCEPT ![e].passkeys = @ - 1]
    /\ UNCHANGED <<proven, invite, challenge, handler, granted, secrets, crossed>>
ChallengeExpires(c) ==
    /\ challenge[c].live /\ challenge' = [challenge EXCEPT ![c].live = FALSE]
    /\ UNCHANGED <<user, proven, invite, handler, granted, secrets, crossed>>

InviteNext ==
    \/ \E i \in DOMAIN invite : InviteExpires(i)
    \/ \E h \in Handlers :
         \/ \E e \in Emails : InviteLooks(h, e)
         \/ \E i \in DOMAIN invite : RevokeLooks(h, i) \/ AcceptLooks(h, i)
         \/ InviteRevokes(h) \/ InviteCreates(h) \/ RevokeWrites(h) \/ AcceptCommits(h)

FactorNext ==
    \/ \E e \in Emails : Disable(e) \/ MfaDisable(e) \/ PasskeyDeleted(e)
                                \/ RegisterBegins(e) \/ PasskeyLoginBegins(e)
    \/ \E c \in DOMAIN challenge : ChallengeExpires(c)
    \/ \E h \in Handlers :
         \/ \E e \in Emails : MfaLooks(h, e) \/ ConfirmLooks(h, e) \/ LoginReads(h, e)
         \/ \E c \in DOMAIN challenge : ChallengeFound(h, c)
         \/ MfaStores(h) \/ ConfirmWrites(h) \/ LoginDecides(h) \/ CodeChecked(h)
         \/ Authenticated(h) \/ Registered(h)

-----------------------------------------------------------------------------
(* Properties.                                                              *)

TypeOK ==
    /\ \A e \in Emails :
         /\ user[e].secret \in 0..MaxSecrets /\ user[e].passkeys \in 0..MaxChallenges
         /\ ~user[e].exists => user[e] = Nobody
    /\ Len(invite) <= MaxInvites /\ Len(challenge) <= MaxChallenges /\ crossed \subseteq Emails
    /\ \A h \in Handlers : handler[h].kind \in
         {"none", "invite", "revoked", "revoke", "accept", "mfa", "confirm", "login", "code",
          "register", "authenticate"}

\* "so a late-arriving email can't be re-used after a re-issue": of the invitations of
\* an address one is good, unless two were written at once.
OneOpenInvite == \A e \in Emails \ crossed : Cardinality(OpenFor(e)) <= 1

\* An invitation made a user if and only if it is accepted, and no two made the same,
\* however acceptances of one address cross.
InviteMakesUser ==
    \A e \in Emails \ {Member} :
        Cardinality({i \in DOMAIN invite : invite[i].email = e /\ invite[i].accepted}) =
            (IF user[e].exists THEN 1 ELSE 0)

\* A revoked or an accepted invitation makes nobody, unless it was being accepted.
ClosedInviteIsDead ==
    [][\A i \in DOMAIN invite :
         ~Open(i) /\ invite'[i].accepted /\ ~invite[i].accepted => invite[i].email \in crossed]_portalVars

\* Who is enrolled holds the authenticator of the stored secret, so that a code can be
\* given, unless requests about the user crossed.
NotLockedOut ==
    \A e \in Emails \ crossed : user[e].enrolled => user[e].secret # 0 /\ user[e].secret = proven[e]

\* A challenge opens one portal session, however often it is sent.
ChallengeOnce ==
    \A m, n \in DOMAIN granted : granted[m].at # 0 /\ granted[m].at = granted[n].at => m = n

\* A password alone opens a session only for a user without a second factor, unless one
\* was enrolled meanwhile.
SecondFactorAsked ==
    [][Len(granted') > Len(granted) /\ granted'[Len(granted')].by = "password" =>
         LET e == granted'[Len(granted')].email IN
         e \in crossed \/ (~user[e].enrolled /\ user[e].passkeys = 0)]_portalVars
=============================================================================
