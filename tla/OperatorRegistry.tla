-------------------------- MODULE OperatorRegistry --------------------------
(* What the platform portal keeps on record about operators and their       *)
(* certificates: an operator is created, paired with its twin in the other  *)
(* environment, and a certificate's artefact is uploaded under a one-time   *)
(* token.  A step is the code between two awaits.                           *)
EXTENDS Naturals, Sequences, FiniteSets

CONSTANTS Creators, Uploads,    \* requests that may overlap
          Certs, Slugs, Contents, None,
          MaxOperators, MaxTokens, MaxFiles

VARIABLES
    operator,    \* Operator: slug, environment, siblingOperatorId (0: none)
    creating,    \* POST /operators between its look at the sibling and its transaction
    cert,        \* Certificate: revoked, and filePath and fileSha256 of its artefact
    token,       \* CertUploadToken, in the order of creation
    upload,      \* PUT /uploads/:token between the file and the transaction
    file,        \* the storage directory
    crossed,     \* history: twins and tokens that overlapping requests were about
    used         \* history: how often a token was consumed

registryVars == <<operator, creating, cert, token, upload, file, crossed, used>>

Environments == {"SANDBOX", "PRODUCTION"}
NoCreation == [pc |-> "idle", slug |-> None, env |-> "SANDBOX", twin |-> 0]
NoUpload == [pc |-> "idle", token |-> 0, name |-> 0, content |-> None]

Init ==
    /\ operator = <<>> /\ creating = [r \in Creators |-> NoCreation]
    /\ cert = [c \in Certs |-> [revoked |-> FALSE, path |-> 0, sha |-> None]]
    /\ token = <<>> /\ upload = [u \in Uploads |-> NoUpload] /\ file = <<>>
    /\ crossed = {} /\ used = <<>>

-----------------------------------------------------------------------------
(* POST /operators.                                                         *)

\* The twin, if one is named: of the other environment, and not paired.
CreateLooks(r, slug, env, twin) ==
    /\ creating[r] = NoCreation /\ Len(operator) < MaxOperators
    /\ twin # 0 => operator[twin].env # env /\ operator[twin].twin = 0
    /\ creating' = [creating EXCEPT ![r] = [pc |-> "looked", slug |-> slug, env |-> env, twin |-> twin]]
    /\ crossed' = IF twin # 0 /\ (\E q \in Creators : creating[q] # NoCreation /\ creating[q].twin = twin)
                    THEN crossed \cup {<<"twin", twin>>} ELSE crossed
    /\ UNCHANGED <<operator, cert, token, upload, file, used>>

\* Mutant: the twin is not told.
CreateCommitsAlone(r) ==
    LET q == creating[r] IN
    /\ q.pc = "looked" /\ creating' = [creating EXCEPT ![r] = NoCreation]
    /\ Len(operator) < MaxOperators
    /\ operator' = Append(operator, [slug |-> q.slug, env |-> q.env, twin |-> q.twin])
    /\ UNCHANGED <<cert, token, upload, file, crossed, used>>

\* Mutant: a slug may be taken twice.
CreateCommitsTaken(r) ==
    LET q == creating[r] IN
    /\ q.pc = "looked" /\ creating' = [creating EXCEPT ![r] = NoCreation]
    /\ Len(operator) < MaxOperators
    /\ operator' = Append([o \in DOMAIN operator |-> IF o = q.twin
                             THEN [operator[o] EXCEPT !.twin = Len(operator) + 1] ELSE operator[o]],
                           [slug |-> q.slug, env |-> q.env, twin |-> q.twin])
    /\ UNCHANGED <<cert, token, upload, file, crossed, used>>

\* One transaction: the operator, its credential, its default game and the twin's
\* pointer; a slug that is taken fails it as a whole.
CreateCommits(r) ==
    LET q == creating[r]
        new == [slug |-> q.slug, env |-> q.env, twin |-> q.twin]
        pointed == [o \in DOMAIN operator |->
                      IF o = q.twin THEN [operator[o] EXCEPT !.twin = Len(operator) + 1] ELSE operator[o]]
    IN
    /\ q.pc = "looked" /\ creating' = [creating EXCEPT ![r] = NoCreation]
    /\ Len(operator) < MaxOperators
    /\ operator' = IF \E o \in DOMAIN operator : operator[o].slug = q.slug THEN operator
                   ELSE Append(pointed, new)
    /\ UNCHANGED <<cert, token, upload, file, crossed, used>>

-----------------------------------------------------------------------------
(* Certificates and their artefacts.                                        *)

RevokeCert(c) ==
    /\ ~cert[c].revoked /\ cert' = [cert EXCEPT ![c].revoked = TRUE]
    /\ UNCHANGED <<operator, creating, token, upload, file, crossed, used>>

\* mintUploadUrl().
MintToken(c) ==
    /\ Len(token) < MaxTokens /\ ~cert[c].revoked
    /\ token' = Append(token, [cert |-> c, consumed |-> FALSE, expired |-> FALSE])
    /\ used' = Append(used, 0)
    /\ UNCHANGED <<operator, creating, cert, upload, file, crossed>>

TokenExpires(t) ==
    /\ ~token[t].expired /\ token' = [token EXCEPT ![t].expired = TRUE]
    /\ UNCHANGED <<operator, creating, cert, upload, file, crossed, used>>

\* Mutant: the file is written after the row, if the process lives.
UploadWritesLater(u, t, content) ==
    /\ upload[u] = NoUpload /\ ~token[t].consumed /\ ~token[t].expired /\ Len(file) < MaxFiles
    /\ upload' = [upload EXCEPT ![u] = [pc |-> "written", token |-> t, name |-> Len(file) + 1,
                                        content |-> content]]
    /\ file' = Append(file, None)
    /\ UNCHANGED <<operator, creating, cert, token, crossed, used>>

\* consumeUploadToken(): the token is neither consumed nor expired; the file is written,
\* under the time and the original name - over that of another upload of the same
\* millisecond and name.
UploadWrites(u, t, content) ==
    LET c == token[t].cert
        others == {v \in Uploads : upload[v] # NoUpload}
        shared == {upload[v].name : v \in {w \in others : token[upload[w].token].cert = c}}
    IN
    /\ upload[u] = NoUpload /\ ~token[t].consumed /\ ~token[t].expired
    /\ \E n \in ({Len(file) + 1} \cup shared) \cap (1..MaxFiles) :
         /\ file' = IF n \in shared THEN [file EXCEPT ![n] = content] ELSE Append(file, content)
         /\ upload' = [upload EXCEPT ![u] = [pc |-> "written", token |-> t, name |-> n, content |-> content]]
         /\ crossed' = crossed \cup (IF n \in shared THEN {<<"cert", c>>} ELSE {})
                  \cup (IF \E v \in others : upload[v].token = t THEN {<<"token", t>>} ELSE {})
    /\ UNCHANGED <<operator, creating, cert, token, used>>

\* Mutant: the token is not marked.
UploadCommitsOnly(u) ==
    LET q == upload[u]  c == token[q.token].cert IN
    /\ q.pc = "written" /\ upload' = [upload EXCEPT ![u] = NoUpload]
    /\ cert' = [cert EXCEPT ![c].path = q.name, ![c].sha = q.content]
    /\ used' = [used EXCEPT ![q.token] = @ + 1]
    /\ UNCHANGED <<operator, creating, token, file, crossed>>

\* The token is consumed and the certificate names the file and its hash.
UploadCommits(u) ==
    LET q == upload[u]  c == token[q.token].cert IN
    /\ q.pc = "written" /\ upload' = [upload EXCEPT ![u] = NoUpload]
    /\ cert' = [cert EXCEPT ![c].path = q.name, ![c].sha = q.content]
    /\ token' = [token EXCEPT ![q.token].consumed = TRUE]
    /\ used' = [used EXCEPT ![q.token] = @ + 1]
    /\ UNCHANGED <<operator, creating, file, crossed>>

\* The process dies, or the transaction fails: the file stays, the token is still good.
UploadDies(u) ==
    /\ upload[u].pc = "written" /\ upload' = [upload EXCEPT ![u] = NoUpload]
    /\ UNCHANGED <<operator, creating, cert, token, file, crossed, used>>

\* POST /certificates/:id/artifact: a path elsewhere, and what the caller says it holds.
Artefact(c) ==
    /\ cert[c].path # 0 /\ cert' = [cert EXCEPT ![c].path = 0, ![c].sha = None]
    /\ UNCHANGED <<operator, creating, token, upload, file, crossed, used>>

OperatorNext ==
    \E r \in Creators :
        \/ CreateCommits(r)
        \/ \E s \in Slugs, e \in Environments, twin \in {0} \cup DOMAIN operator : CreateLooks(r, s, e, twin)

CertNext ==
    \/ \E c \in Certs : RevokeCert(c) \/ MintToken(c) \/ Artefact(c)
    \/ \E t \in DOMAIN token : TokenExpires(t)
    \/ \E u \in Uploads :
         \/ UploadCommits(u) \/ UploadDies(u)
         \/ \E t \in DOMAIN token, x \in Contents : UploadWrites(u, t, x)

-----------------------------------------------------------------------------
(* Properties.                                                              *)

TypeOK ==
    /\ \A o \in DOMAIN operator : operator[o].twin \in 0..Len(operator) /\ operator[o].slug \in Slugs
    /\ \A m, n \in DOMAIN operator : operator[m].slug = operator[n].slug => m = n
    /\ \A c \in Certs : cert[c].path \in 0..Len(file)
    /\ Len(token) = Len(used) /\ \A t \in DOMAIN token : token[t].cert \in Certs

\* "the sandbox - production twin pointer is written atomically (both sides)": twins
\* point at each other across the environments, unless two operators were created as
\* the twin of one.
PairIsMutual ==
    \A o \in DOMAIN operator :
        LET t == operator[o].twin IN
        t # 0 => /\ operator[t].env # operator[o].env
                 /\ <<"twin", t>> \notin crossed => operator[t].twin = o

\* A token is consumed once, unless two uploads with it overlapped.
TokenOnce == \A t \in DOMAIN token : <<"token", t>> \notin crossed => used[t] <= 1

\* The artefact of a certificate is a file that is there and has the hash on record,
\* through crashes and overlapping uploads - but for two of one name and millisecond.
ArtefactMatches ==
    \A c \in Certs : cert[c].path # 0 /\ <<"cert", c>> \notin crossed => file[cert[c].path] = cert[c].sha
=============================================================================
