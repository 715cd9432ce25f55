----------------------------- MODULE MCConsole -----------------------------
(* Small instances of what runs at the edge: what the two portals administer *)
(* (credentials and keys, users and their factors, operators and            *)
(* certificates) and what the two games show in a browser.  They share no   *)
(* state: "part" says which of them this behaviour is about, and the others *)
(* stay where they started.                                                 *)
EXTENDS KeyRotation

CONSTANTS Emails, Member, Handlers, MaxInvites, MaxSecrets, MaxChallenges,
          Creators, Uploads, Certs, Slugs, Contents, None, MaxOperators, MaxTokens, MaxFiles,
          Soon, SoonAtBoot, Epoch, Width, Warn, Alert, Bytes, Size, TotpWindow,
          MaxRounds, MaxWire, MaxLinks, MaxBets, Kept

ASSUME PortalAssumption == MaxInvites \in Nat /\ MaxSecrets \in Nat /\ MaxChallenges \in Nat

VARIABLES part,
    user, proven, invite, challenge, handler, granted, secrets, met,
    operator, creating, cert, token, upload, file, shared, used,
    active, drawn, diceBets, diceWire, diceLink, diceStore,
    flight, crashBets, crashWire, crashLink, page, crashStore

portalVars == <<user, proven, invite, challenge, handler, granted, secrets, met>>
registryVars == <<operator, creating, cert, token, upload, file, shared, used>>
diceVars == <<active, drawn, diceBets, diceWire, diceLink, diceStore>>
crashVars == <<flight, crashBets, crashWire, crashLink, page, crashStore>>
allVars == <<rotationVars, part, portalVars, registryVars, diceVars, crashVars>>

P == INSTANCE PortalAccess WITH crossed <- met
R == INSTANCE OperatorRegistry WITH crossed <- shared
C == INSTANCE Compliance
D == INSTANCE Codecs
G == INSTANCE DiceClient WITH bets <- diceBets, wire <- diceWire, link <- diceLink,
        store <- diceStore, KeptBets <- Kept - 1, KeptOrbs <- Kept
L == INSTANCE CrashClient WITH bets <- crashBets, wire <- crashWire, link <- crashLink,
        store <- crashStore, KeptEntries <- Kept, MaxLinks <- MaxLinks - 1

KeysOnly == UNCHANGED <<part, portalVars, registryVars, diceVars, crashVars>>
PortalOnly == UNCHANGED <<part, rotationVars, registryVars, diceVars, crashVars>>
RegistryOnly == UNCHANGED <<part, rotationVars, portalVars, diceVars, crashVars>>
DiceOnly == UNCHANGED <<part, rotationVars, portalVars, registryVars, crashVars>>
CrashOnly == UNCHANGED <<part, rotationVars, portalVars, registryVars, diceVars>>

ConsoleInit ==
    /\ part \in {"credentials", "keys", "invites", "factors", "operators", "certificates",
                "dice", "crash"}
    /\ Init /\ P!Init /\ R!Init /\ G!Init /\ L!Init

ConsoleNext ==
    \/ part = "credentials" /\ CredentialNext /\ KeysOnly
    \/ part = "keys" /\ KeyNext /\ KeysOnly
    \/ part = "invites" /\ P!InviteNext /\ PortalOnly
    \/ part = "factors" /\ P!FactorNext /\ PortalOnly
    \/ part = "operators" /\ R!OperatorNext /\ RegistryOnly
    \/ part = "certificates" /\ R!CertNext /\ RegistryOnly
    \/ part = "dice" /\ G!Next /\ DiceOnly
    \/ part = "crash" /\ L!Next /\ CrashOnly

Spec == ConsoleInit /\ [][ConsoleNext]_allVars

InPortal == part \in {"invites", "factors"}
InRegistry == part \in {"operators", "certificates"}
InDice == part = "dice"
InCrash == part = "crash"
\* The rules and conversions need one state.
Start == ConsoleInit /\ part = "credentials"

\* Invitations, TOTP and passkeys of portal users: one invitation is good, it makes one
\* user, nobody is enrolled without an authenticator, and a challenge opens one portal
\* session, although every route reads, awaits and writes.
UsersAreSound ==
    InPortal => /\ P!TypeOK /\ P!OneOpenInvite /\ P!InviteMakesUser
                /\ P!NotLockedOut /\ P!ChallengeOnce

\* Operators and certificates: twins point at each other, a test-house token is used
\* once and the artefact on record is the file on disk, through overlapping uploads and
\* a crash between file and row.
RegistryIsSound == InRegistry => R!TypeOK /\ R!PairIsMutual /\ R!TokenOnce /\ R!ArtefactMatches

\* Build attestation, the coverage page and the clock check: strict mode serves exactly
\* what is certified, page and boot check agree, and a skewed clock is reported.  TOTP
\* secrets and launch tokens: what is encoded is decoded, but for short DER integers.
RulesAreExact ==
    Start => /\ C!StrictMeansCertified /\ C!CoverageAgrees /\ C!SkewIsMeasured
             /\ D!Base32RoundTrips /\ D!CodeWindow /\ D!SignatureRoundTrips

\* What was refused stays refused: an ended credential gets no other life, a closed
\* invitation makes nobody, and a password alone opens nothing of a user who has a
\* second factor; but for requests already under way.
NoWayBack == RejectedStaysRejected /\ P!ClosedInviteIsDead /\ P!SecondFactorAsked

\* The dice page: its orbs are the server's results in order, its records resolve with
\* their own rounds and are the bets the server took, and toast and record agree -
\* across late answers, reconnections and rejections that name no round.
DicePageIsTrue ==
    InDice => /\ G!TypeOK /\ G!OrbsAreResults /\ G!RecordsResolve
              /\ G!RecordsAreBets /\ G!ToastIsTheRecord /\ G!OneBetARound

\* The crash page: its history has each accepted bet once and says WIN of exactly the
\* paid ones, a slot in play shows its own bet and a waiting one has a request under
\* way - while answers come in their round.
CrashPageIsTrue ==
    InCrash => /\ L!TypeOK /\ L!HistoryOnce /\ L!HistoryIsTheLedger
               /\ L!SlotIsMyBet /\ L!PendingIsAnswered /\ L!OneBetASlot
=============================================================================
