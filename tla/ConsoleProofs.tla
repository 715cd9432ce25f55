---------------------------- MODULE ConsoleProofs ---------------------------
(* What runs at the edge: portal users for any addresses and requests,      *)
(* operators and certificates for any requests, slugs and contents,         *)
(* credentials and keys for any graces and lifetimes.                       *)
EXTENDS MCConsole, SequenceTheorems, FiniteSetTheorems, WellFoundedInduction, TLAPS

-----------------------------------------------------------------------------
(* Sequences, by their domains, and sets of one member.                     *)

LEMMA Added ==
  ASSUME NEW S, NEW s \in Seq(S), NEW e \in S
  PROVE  /\ Append(s, e) \in Seq(S) /\ Len(Append(s, e)) = Len(s) + 1
         /\ DOMAIN Append(s, e) = DOMAIN s \cup {Len(s) + 1} /\ Len(s) + 1 \notin DOMAIN s
         /\ Append(s, e)[Len(s) + 1] = e /\ \A i \in DOMAIN s : Append(s, e)[i] = s[i]
<1>1. Len(s) \in Nat /\ DOMAIN s = 1..Len(s)
  BY LenProperties
<1>2. Append(s, e) \in Seq(S) /\ Len(Append(s, e)) = Len(s) + 1
      /\ Append(s, e)[Len(s) + 1] = e /\ \A i \in 1..Len(s) : Append(s, e)[i] = s[i]
  BY <1>1, AppendProperties
<1>3. DOMAIN Append(s, e) = 1..(Len(s) + 1)
  BY <1>2, LenProperties
<1> QED
  BY <1>1, <1>2, <1>3

LEMMA Put ==
  ASSUME NEW S, NEW s \in Seq(S), NEW i \in DOMAIN s, NEW e \in S
  PROVE  /\ [s EXCEPT ![i] = e] \in Seq(S) /\ Len([s EXCEPT ![i] = e]) = Len(s)
         /\ DOMAIN [s EXCEPT ![i] = e] = DOMAIN s
         /\ [s EXCEPT ![i] = e][i] = e /\ \A j \in DOMAIN s \ {i} : [s EXCEPT ![i] = e][j] = s[j]
<1>1. i \in 1..Len(s)
  BY LenProperties
<1> QED
  BY <1>1, ExceptSeq

LEMMA SameLast ==
  ASSUME NEW m \in Nat, NEW n \in Nat, 1..m = 1..n
  PROVE  m = n
<1>1. \A i : i \in 1..m <=> i \in 1..n
  OBVIOUS
<1>2. m # 0 => m \in 1..n
  <2>1. m # 0 => m \in 1..m
    OBVIOUS
  <2> QED
    BY <1>1, <2>1
<1>3. n # 0 => n \in 1..m
  <2>1. n # 0 => n \in 1..n
    OBVIOUS
  <2> QED
    BY <1>1, <2>1
<1>4. (m # 0 => m <= n) /\ (n # 0 => n <= m)
  <2> HIDE <1>1
  <2> QED
    BY <1>2, <1>3
<1> QED
  BY <1>4

LEMMA SameLength ==
  ASSUME NEW S, NEW T, NEW s \in Seq(S), NEW t \in Seq(T), DOMAIN s = DOMAIN t
  PROVE  Len(s) = Len(t)
<1>1. Len(s) \in Nat /\ Len(t) \in Nat /\ DOMAIN s = 1..Len(s) /\ DOMAIN t = 1..Len(t)
  BY LenProperties
<1>2. 1..Len(s) = 1..Len(t)
  BY <1>1, Zenon
<1> QED
  BY <1>1, <1>2, SameLast, Zenon

-----------------------------------------------------------------------------
(* Operators and certificates.                                              *)

OperatorRow == [slug : Slugs, env : R!Environments, twin : Nat]
CertRow == [revoked : BOOLEAN, path : Nat, sha : Contents \cup {None}]
TokenRow == [cert : Certs, consumed : BOOLEAN, expired : BOOLEAN]
Creation == [pc : {"idle", "looked"}, slug : Slugs \cup {None}, env : R!Environments, twin : Nat]
UploadRow == [pc : {"idle", "written"}, token : Nat, name : Nat, content : Contents \cup {None}]

RegistryType ==
    /\ operator \in Seq(OperatorRow) /\ creating \in [Creators -> Creation]
    /\ cert \in [Certs -> CertRow] /\ token \in Seq(TokenRow) /\ upload \in [Uploads -> UploadRow]
    /\ file \in Seq(Contents) /\ used \in Seq(Nat) /\ DOMAIN used = DOMAIN token

Looked(r) == creating[r].pc = "looked"
Written(u) == upload[u].pc = "written"
CertOf(u) == token[upload[u].token].cert

\* A request that looked at a twin commits to one that is still single, or has crossed another.
PairInv ==
    /\ \A r \in Creators :
         /\ ~Looked(r) => creating[r] = R!NoCreation
         /\ Looked(r) => creating[r].slug \in Slugs
         /\ Looked(r) /\ creating[r].twin # 0 =>
              /\ creating[r].twin \in DOMAIN operator
              /\ operator[creating[r].twin].env # creating[r].env
              /\ <<"twin", creating[r].twin>> \notin shared =>
                   /\ operator[creating[r].twin].twin = 0
                   /\ \A q \in Creators : Looked(q) /\ creating[q].twin = creating[r].twin => q = r
    /\ \A m, n \in DOMAIN operator : operator[m].slug = operator[n].slug => m = n
    /\ \A o \in DOMAIN operator :
         LET t == operator[o].twin IN
         t # 0 => /\ t \in DOMAIN operator /\ operator[t].env # operator[o].env
                  /\ <<"twin", t>> \notin shared => operator[t].twin = o

\* A token in one upload's hands has not been used.
UploadInv ==
    /\ \A u \in Uploads :
         /\ ~Written(u) => upload[u] = R!NoUpload
         /\ Written(u) =>
              /\ upload[u].token \in DOMAIN token /\ upload[u].content \in Contents
              /\ <<"token", upload[u].token>> \notin shared =>
                   /\ ~token[upload[u].token].consumed
                   /\ \A v \in Uploads : Written(v) /\ upload[v].token = upload[u].token => v = u
    /\ \A t \in DOMAIN token : <<"token", t>> \notin shared =>
         used[t] = IF token[t].consumed THEN 1 ELSE 0

\* A file belongs to one certificate, and holds what was written to it last.
FileInv ==
    /\ \A u \in Uploads : Written(u) =>
         /\ upload[u].name \in DOMAIN file
         /\ <<"cert", CertOf(u)>> \notin shared => file[upload[u].name] = upload[u].content
    /\ \A u, v \in Uploads : Written(u) /\ Written(v) /\ upload[u].name = upload[v].name => CertOf(u) = CertOf(v)
    /\ \A c \in Certs : cert[c].path # 0 =>
         /\ cert[c].path \in DOMAIN file
         /\ <<"cert", c>> \notin shared => file[cert[c].path] = cert[c].sha
         /\ \A u \in Uploads : Written(u) /\ upload[u].name = cert[c].path => CertOf(u) = c
         /\ \A d \in Certs : cert[d].path = cert[c].path => d = c

RegistryInv == RegistryType /\ PairInv /\ UploadInv /\ FileInv

LEMMA RegistryStarts == R!Init => RegistryInv
<1> SUFFICES ASSUME R!Init PROVE RegistryInv
  OBVIOUS
<1>1. operator = <<>> /\ token = <<>> /\ file = <<>> /\ used = <<>> /\ DOMAIN token = {} /\ DOMAIN used = {}
      /\ DOMAIN operator = {}
  BY DEF R!Init
<1>2. R!NoCreation \in Creation /\ R!NoCreation.pc = "idle"
  BY DEF R!NoCreation, Creation, R!Environments
<1>3. R!NoUpload \in UploadRow /\ R!NoUpload.pc = "idle"
  BY DEF R!NoUpload, UploadRow
<1>4. creating = [r \in Creators |-> R!NoCreation] /\ upload = [u \in Uploads |-> R!NoUpload]
      /\ cert = [c \in Certs |-> [revoked |-> FALSE, path |-> 0, sha |-> None]]
  BY DEF R!Init
<1>5. [revoked |-> FALSE, path |-> 0, sha |-> None] \in CertRow
  BY DEF CertRow
<1>6. RegistryType
  BY <1>1, <1>2, <1>3, <1>4, <1>5, EmptySeq DEF RegistryType
<1>7. PairInv
  BY <1>1, <1>2, <1>4 DEF PairInv, Looked
<1>8. UploadInv /\ FileInv
  BY <1>1, <1>3, <1>4 DEF UploadInv, FileInv, Written
<1> QED
  BY <1>6, <1>7, <1>8 DEF RegistryInv

\* A look at a twin that another request has looked at is on record.
LEMMA CreateLooksKeeps ==
  ASSUME RegistryInv, NEW r \in Creators, NEW slug \in Slugs, NEW env \in R!Environments,
         NEW twin \in {0} \cup DOMAIN operator, R!CreateLooks(r, slug, env, twin)
  PROVE  RegistryInv'
<1>1. twin \in Nat
  BY LenProperties DEF RegistryInv, RegistryType
<1>2. PICK new \in Creation : new = [pc |-> "looked", slug |-> slug, env |-> env, twin |-> twin]
  <2>1. [pc |-> "looked", slug |-> slug, env |-> env, twin |-> twin] \in Creation
    BY <1>1 DEF Creation
  <2> QED
    BY <2>1
<1>3. /\ creating[r] = R!NoCreation /\ creating' = [creating EXCEPT ![r] = new]
      /\ twin # 0 => operator[twin].env # env /\ operator[twin].twin = 0
      /\ UNCHANGED <<operator, cert, token, upload, file, used>>
  BY <1>2 DEF R!CreateLooks
<1>4. /\ \A x : x \in shared => x \in shared'
      /\ \A x : x \in shared' /\ x \notin shared => x = <<"twin", twin>>
      /\ \A q \in Creators : twin # 0 /\ Looked(q) /\ creating[q].twin = twin => <<"twin", twin>> \in shared'
  BY DEF R!CreateLooks, Looked, R!NoCreation
<1>5. /\ creating' \in [Creators -> Creation] /\ creating'[r] = new
      /\ \A q \in Creators \ {r} : creating'[q] = creating[q]
  BY <1>3 DEF RegistryInv, RegistryType
<1>6. RegistryType'
  BY <1>3, <1>5 DEF RegistryInv, RegistryType
<1>7. ~Looked(r) /\ (\A q \in Creators \ {r} : Looked(q)' = Looked(q)) /\ Looked(r)'
  BY <1>2, <1>3, <1>5 DEF Looked, R!NoCreation
<1>8. PairInv'
  <2>1. ASSUME NEW q \in Creators
        PROVE  PairInv!1!(q)'
    <3>1. CASE q = r
      <4>1. \A p \in Creators : Looked(p)' /\ creating'[p].twin = twin /\ twin # 0
                                  /\ <<"twin", twin>> \notin shared' => p = r
        BY <1>4, <1>5, <1>7
      <4> QED
        BY <1>2, <1>3, <1>5, <1>7, <3>1, <4>1
    <3>2. CASE q # r
      <4>1. PairInv!1!(q)
        BY DEF RegistryInv, PairInv
      <4>2. creating'[q] = creating[q] /\ Looked(q)' = Looked(q)
        BY <1>5, <1>7, <3>2
      <4>3. ASSUME Looked(q), creating[q].twin # 0, <<"twin", creating[q].twin>> \notin shared'
            PROVE  \A p \in Creators : Looked(p)' /\ creating'[p].twin = creating[q].twin => p = q
        <5>1. <<"twin", creating[q].twin>> \notin shared
          BY <1>4, <4>3
        <5>2. twin # creating[q].twin
          BY <1>4, <4>3
        <5> QED
          BY <1>2, <1>5, <1>7, <4>1, <4>3, <5>1, <5>2
      <4> QED
        BY <1>3, <1>4, <4>1, <4>2, <4>3
    <3> QED
      BY <3>1, <3>2
  <2>2. PairInv!2' /\ PairInv!3'
    BY <1>3, <1>4 DEF RegistryInv, PairInv
  <2> QED
    BY <2>1, <2>2 DEF PairInv
<1>9. UploadInv' /\ FileInv'
  <2>1. \A t : (<<"token", t>> \in shared' <=> <<"token", t>> \in shared)
               /\ (<<"cert", t>> \in shared' <=> <<"cert", t>> \in shared)
    BY <1>4
  <2>2. UploadInv'
    BY <1>3, <2>1 DEF RegistryInv, UploadInv, Written
  <2>3. FileInv'
    BY <1>3, <2>1 DEF RegistryInv, FileInv, Written, CertOf
  <2> QED
    BY <2>2, <2>3
<1> QED
  BY <1>6, <1>8, <1>9 DEF RegistryInv

\* The new operator and its twin point at each other; nobody else pointed at a twin that
\* was looked at once.
LEMMA CreateCommitsKeeps ==
  ASSUME RegistryInv, NEW r \in Creators, R!CreateCommits(r)
  PROVE  RegistryInv'
<1> DEFINE q == creating[r]
           n == Len(operator) + 1
           pointed == [o \in DOMAIN operator |-> IF o = q.twin THEN [operator[o] EXCEPT !.twin = n] ELSE operator[o]]
<1>1. /\ Looked(r) /\ creating' = [creating EXCEPT ![r] = R!NoCreation]
      /\ operator' = IF \E o \in DOMAIN operator : operator[o].slug = q.slug THEN operator
                     ELSE Append(pointed, [slug |-> q.slug, env |-> q.env, twin |-> q.twin])
      /\ UNCHANGED <<cert, token, upload, file, shared, used>>
  BY DEF R!CreateCommits, Looked
<1>2. R!NoCreation \in Creation /\ R!NoCreation.pc = "idle"
  BY DEF R!NoCreation, Creation, R!Environments
<1>3. /\ creating' \in [Creators -> Creation] /\ creating'[r] = R!NoCreation
      /\ \A p \in Creators \ {r} : creating'[p] = creating[p]
  BY <1>1, <1>2 DEF RegistryInv, RegistryType
<1>4. ~Looked(r)' /\ \A p \in Creators \ {r} : Looked(p)' = Looked(p)
  BY <1>2, <1>3 DEF Looked
<1>5. UploadInv' /\ FileInv'
  <2>1. UploadInv'
    BY <1>1 DEF RegistryInv, UploadInv, Written
  <2>2. FileInv'
    BY <1>1 DEF RegistryInv, FileInv, Written, CertOf
  <2> QED
    BY <2>1, <2>2
<1>6. /\ q \in Creation /\ q.slug \in Slugs
      /\ q.twin # 0 => q.twin \in DOMAIN operator /\ operator[q.twin].env # q.env
  BY <1>1 DEF RegistryInv, RegistryType, PairInv
<1>7. CASE \E o \in DOMAIN operator : operator[o].slug = q.slug
  <2>1. operator' = operator
    BY <1>1, <1>7
  <2>2. RegistryType'
    BY <1>1, <1>3, <2>1 DEF RegistryInv, RegistryType
  <2>3. ASSUME NEW p \in Creators
        PROVE  PairInv!1!(p)'
    <3>1. CASE p = r
      BY <1>3, <1>4, <3>1
    <3>2. CASE p # r
      <4>1. PairInv!1!(p)
        BY DEF RegistryInv, PairInv
      <4> QED
        BY <1>1, <1>3, <1>4, <2>1, <3>2, <4>1
    <3> QED
      BY <3>1, <3>2
  <2>4. PairInv!2' /\ PairInv!3'
    BY <1>1, <2>1 DEF RegistryInv, PairInv
  <2>5. PairInv'
    BY <2>3, <2>4 DEF PairInv
  <2> QED
    BY <1>5, <2>2, <2>5 DEF RegistryInv
<1>8. CASE \A o \in DOMAIN operator : operator[o].slug # q.slug
  <2>1. PICK new \in OperatorRow : new = [slug |-> q.slug, env |-> q.env, twin |-> q.twin]
    <3>1. [slug |-> q.slug, env |-> q.env, twin |-> q.twin] \in OperatorRow
      BY <1>6 DEF Creation, OperatorRow
    <3> QED
      BY <3>1
  <2>2. operator \in Seq(OperatorRow) /\ n \in Nat \ {0} /\ DOMAIN operator = 1..Len(operator)
        /\ \A o \in DOMAIN operator : operator[o] \in OperatorRow
    <3>1. operator \in Seq(OperatorRow)
      BY DEF RegistryInv, RegistryType
    <3>2. \A o \in DOMAIN operator : operator[o] \in OperatorRow
      BY <3>1, ElementOfSeq, LenProperties
    <3> QED
      BY <3>1, <3>2, LenProperties
  <2>3. /\ \A o \in DOMAIN operator : pointed[o] \in OperatorRow /\ pointed[o].slug = operator[o].slug
                                      /\ pointed[o].env = operator[o].env
                                      /\ pointed[o].twin = IF o = q.twin THEN n ELSE operator[o].twin
    BY <2>2 DEF OperatorRow
  <2>4. pointed \in Seq(OperatorRow) /\ DOMAIN pointed = DOMAIN operator /\ Len(pointed) = Len(operator)
    <3>1. DOMAIN pointed = 1..Len(operator) /\ Len(operator) \in Nat
      BY <2>2
    <3>2. pointed \in [1..Len(operator) -> OperatorRow]
      BY <2>2, <2>3
    <3>3. pointed \in Seq(OperatorRow)
      BY <3>1, <3>2, SeqDef
    <3> QED
      BY <2>2, <3>1, <3>3, LenProperties
  <2>5. /\ operator' \in Seq(OperatorRow) /\ DOMAIN operator' = DOMAIN operator \cup {n} /\ n \notin DOMAIN operator
        /\ operator'[n] = new /\ \A o \in DOMAIN operator : operator'[o] = pointed[o]
    <3> HIDE DEF pointed
    <3>1. operator' = Append(pointed, new)
      BY <1>1, <1>8, <2>1
    <3> QED
      BY <2>4, <3>1, Added
  <2> HIDE DEF pointed
  <2>6. RegistryType'
    BY <1>1, <1>3, <2>5 DEF RegistryInv, RegistryType
  <2>7. ASSUME NEW p \in Creators
        PROVE  PairInv!1!(p)'
    <3>1. CASE p = r
      BY <1>3, <1>4, <3>1
    <3>2. CASE p # r
      <4>1. PairInv!1!(p) /\ PairInv!1!(r)
        BY DEF RegistryInv, PairInv
      <4>2. creating'[p] = creating[p] /\ Looked(p)' = Looked(p)
        BY <1>3, <1>4, <3>2
      <4>3. ASSUME Looked(p), creating[p].twin # 0
            PROVE  /\ creating[p].twin \in DOMAIN operator'
                   /\ operator'[creating[p].twin].env # creating[p].env
                   /\ <<"twin", creating[p].twin>> \notin shared => operator'[creating[p].twin].twin = 0
        BY <1>1, <2>3, <2>5, <3>2, <4>1, <4>3
      <4>4. ASSUME Looked(p), creating[p].twin # 0, <<"twin", creating[p].twin>> \notin shared
            PROVE  \A k \in Creators : Looked(k)' /\ creating'[k].twin = creating[p].twin => k = p
        BY <1>3, <1>4, <4>1, <4>4
      <4> QED
        BY <1>1, <4>1, <4>2, <4>3, <4>4
    <3> QED
      BY <3>1, <3>2
  <2>8. PairInv!2'
    <3>1. PairInv!2
      BY DEF RegistryInv, PairInv
    <3> QED
      BY <1>8, <2>1, <2>3, <2>5, <3>1
  <2>9. ASSUME NEW o \in DOMAIN operator', operator'[o].twin # 0
        PROVE  /\ operator'[o].twin \in DOMAIN operator' /\ operator'[operator'[o].twin].env # operator'[o].env
               /\ <<"twin", operator'[o].twin>> \notin shared => operator'[operator'[o].twin].twin = o
    <3>1. CASE o = n
      <4>1. operator'[o].twin = q.twin /\ operator'[o].env = q.env
        BY <2>1, <2>5, <3>1
      <4> QED
        BY <1>6, <2>3, <2>5, <2>9, <3>1, <4>1
    <3>2. CASE o \in DOMAIN operator /\ o = q.twin
      <4>1. operator'[o].twin = n /\ operator'[o].env = operator[o].env
        BY <2>3, <2>5, <3>2
      <4>2. operator'[n].env = q.env /\ operator'[n].twin = q.twin
        BY <2>1, <2>5
      <4>3. o # 0
        BY <2>2, <3>2
      <4> QED
        BY <1>6, <2>5, <3>2, <4>1, <4>2, <4>3
    <3>3. CASE o \in DOMAIN operator /\ o # q.twin
      <4>1. operator'[o].twin = operator[o].twin /\ operator'[o].env = operator[o].env
        BY <2>3, <2>5, <3>3
      <4>2. /\ operator[o].twin \in DOMAIN operator /\ operator[operator[o].twin].env # operator[o].env
            /\ <<"twin", operator[o].twin>> \notin shared => operator[operator[o].twin].twin = o
        BY <2>9, <3>3, <4>1 DEF RegistryInv, PairInv
      <4>3. ASSUME <<"twin", operator[o].twin>> \notin shared
            PROVE  operator[o].twin # q.twin
        <5>1. SUFFICES ASSUME operator[o].twin = q.twin PROVE FALSE
          OBVIOUS
        <5>2. operator[q.twin].twin = 0
          BY <1>1, <2>9, <4>1, <4>3, <5>1 DEF RegistryInv, PairInv
        <5>3. o = 0
          BY <4>2, <4>3, <5>1, <5>2
        <5> QED
          BY <2>2, <3>3, <5>3
      <4> QED
        BY <2>3, <2>5, <4>1, <4>2, <4>3
    <3> QED
      BY <2>5, <3>1, <3>2, <3>3
  <2>10. PairInv!3'
    BY <1>1, <2>9
  <2>11. PairInv'
    BY <2>7, <2>8, <2>10 DEF PairInv
  <2> QED
    BY <1>5, <2>6, <2>11 DEF RegistryInv
<1> QED
  BY <1>7, <1>8

LEMMA PairStays ==
  ASSUME RegistryInv, UNCHANGED <<operator, creating>>,
         \A x : <<"twin", x>> \in shared' <=> <<"twin", x>> \in shared
  PROVE  PairInv'
<1>1. ASSUME NEW r \in Creators
      PROVE  PairInv!1!(r)'
  <2>1. PairInv!1!(r)
    BY DEF RegistryInv, PairInv
  <2> QED
    BY <2>1 DEF Looked
<1>2. PairInv!2' /\ PairInv!3'
  BY DEF RegistryInv, PairInv
<1> QED
  BY <1>1, <1>2 DEF PairInv

LEMMA RevokeCertKeeps ==
  ASSUME RegistryInv, NEW c \in Certs, R!RevokeCert(c)
  PROVE  RegistryInv'
<1>1. /\ cert' = [cert EXCEPT ![c].revoked = TRUE]
      /\ UNCHANGED <<operator, creating, token, upload, file, shared, used>>
  BY DEF R!RevokeCert
<1>2. /\ cert' \in [Certs -> CertRow]
      /\ \A d \in Certs : cert'[d].path = cert[d].path /\ cert'[d].sha = cert[d].sha
  BY <1>1 DEF RegistryInv, RegistryType, CertRow
<1>3. RegistryType'
  BY <1>1, <1>2 DEF RegistryInv, RegistryType
<1>4. PairInv' /\ UploadInv'
  BY <1>1, PairStays DEF RegistryInv, UploadInv, Written
<1>5. FileInv'
  BY <1>1, <1>2 DEF RegistryInv, FileInv, Written, CertOf
<1> QED
  BY <1>3, <1>4, <1>5 DEF RegistryInv

LEMMA MintTokenKeeps ==
  ASSUME RegistryInv, NEW c \in Certs, R!MintToken(c)
  PROVE  RegistryInv'
<1>1. PICK new \in TokenRow : new = [cert |-> c, consumed |-> FALSE, expired |-> FALSE]
  <2>1. [cert |-> c, consumed |-> FALSE, expired |-> FALSE] \in TokenRow
    BY DEF TokenRow
  <2> QED
    BY <2>1
<1>2. /\ token' = Append(token, new) /\ used' = Append(used, 0)
      /\ UNCHANGED <<operator, creating, cert, upload, file, shared>>
  BY <1>1 DEF R!MintToken
<1>3. /\ token' \in Seq(TokenRow) /\ DOMAIN token' = DOMAIN token \cup {Len(token) + 1}
      /\ Len(token) + 1 \notin DOMAIN token
      /\ token'[Len(token) + 1] = new /\ \A t \in DOMAIN token : token'[t] = token[t]
  BY <1>2, Added DEF RegistryInv, RegistryType
<1>4. Len(used) = Len(token)
  BY SameLength DEF RegistryInv, RegistryType
<1>5. /\ used' \in Seq(Nat) /\ DOMAIN used' = DOMAIN used \cup {Len(used) + 1}
      /\ used'[Len(used) + 1] = 0 /\ \A t \in DOMAIN used : used'[t] = used[t]
  <2>1. used \in Seq(Nat) /\ 0 \in Nat
    BY DEF RegistryInv, RegistryType
  <2> QED
    BY <1>2, <2>1, Added
<1>6. RegistryType'
  BY <1>2, <1>3, <1>4, <1>5 DEF RegistryInv, RegistryType
<1>7. PairInv'
  BY <1>2, PairStays
<1>8. UploadInv'
  <2>1. UploadInv!1'
    BY <1>2, <1>3 DEF RegistryInv, UploadInv, Written
  <2>2. UploadInv!2'
    BY <1>1, <1>2, <1>3, <1>4, <1>5 DEF RegistryInv, RegistryType, UploadInv
  <2> QED
    BY <2>1, <2>2 DEF UploadInv
<1>9. FileInv'
  <2>1. \A u \in Uploads : Written(u) => upload[u].token \in DOMAIN token
    BY DEF RegistryInv, UploadInv
  <2>2. \A u \in Uploads : Written(u)' = Written(u) /\ (Written(u) => CertOf(u)' = CertOf(u))
    BY <1>2, <1>3, <2>1 DEF Written, CertOf
  <2> QED
    BY <1>2, <2>2 DEF RegistryInv, FileInv
<1> QED
  BY <1>6, <1>7, <1>8, <1>9 DEF RegistryInv

LEMMA TokenExpiresKeeps ==
  ASSUME RegistryInv, NEW t \in DOMAIN token, R!TokenExpires(t)
  PROVE  RegistryInv'
<1>1. token \in Seq(TokenRow) /\ token[t] \in TokenRow
  <2>1. token \in Seq(TokenRow)
    BY DEF RegistryInv, RegistryType
  <2> QED
    BY <2>1, ElementOfSeq, LenProperties
<1>2. PICK new \in TokenRow : new = [token[t] EXCEPT !.expired = TRUE]
  <2>1. [token[t] EXCEPT !.expired = TRUE] \in TokenRow
    BY <1>1 DEF TokenRow
  <2> QED
    BY <2>1
<1>3. new.cert = token[t].cert /\ new.consumed = token[t].consumed
  BY <1>1, <1>2 DEF TokenRow
<1>4. /\ token' = [token EXCEPT ![t] = new]
      /\ UNCHANGED <<operator, creating, cert, upload, file, shared, used>>
  BY <1>2 DEF R!TokenExpires
<1>5. /\ token' \in Seq(TokenRow) /\ DOMAIN token' = DOMAIN token
      /\ \A s \in DOMAIN token : token'[s].cert = token[s].cert /\ token'[s].consumed = token[s].consumed
  BY <1>1, <1>3, <1>4, Put
<1>6. RegistryType' /\ PairInv'
  BY <1>4, <1>5, PairStays DEF RegistryInv, RegistryType
<1>7. UploadInv'
  BY <1>4, <1>5 DEF RegistryInv, UploadInv, Written
<1>8. FileInv'
  <2>1. \A u \in Uploads : Written(u)' = Written(u) /\ (Written(u) => CertOf(u)' = CertOf(u))
    BY <1>4, <1>5 DEF RegistryInv, UploadInv, Written, CertOf
  <2> QED
    BY <1>4, <2>1 DEF RegistryInv, FileInv
<1> QED
  BY <1>6, <1>7, <1>8 DEF RegistryInv

LEMMA UploadDiesKeeps ==
  ASSUME RegistryInv, NEW u \in Uploads, R!UploadDies(u)
  PROVE  RegistryInv'
<1>1. /\ upload' = [upload EXCEPT ![u] = R!NoUpload]
      /\ UNCHANGED <<operator, creating, cert, token, file, shared, used>>
  BY DEF R!UploadDies
<1>2. R!NoUpload \in UploadRow /\ R!NoUpload.pc = "idle"
  BY DEF R!NoUpload, UploadRow
<1>3. /\ upload' \in [Uploads -> UploadRow] /\ upload'[u] = R!NoUpload /\ ~Written(u)'
      /\ \A v \in Uploads \ {u} : upload'[v] = upload[v] /\ Written(v)' = Written(v) /\ CertOf(v)' = CertOf(v)
  BY <1>1, <1>2 DEF RegistryInv, RegistryType, Written, CertOf
<1>4. RegistryType' /\ PairInv'
  BY <1>1, <1>3, PairStays DEF RegistryInv, RegistryType
<1>5. UploadInv'
  BY <1>1, <1>3 DEF RegistryInv, UploadInv
<1>6. FileInv'
  BY <1>1, <1>3 DEF RegistryInv, FileInv
<1> QED
  BY <1>4, <1>5, <1>6 DEF RegistryInv

LEMMA ArtefactKeeps ==
  ASSUME RegistryInv, NEW c \in Certs, R!Artefact(c)
  PROVE  RegistryInv'
<1>1. PICK new \in CertRow : new = [cert[c] EXCEPT !.path = 0, !.sha = None]
  <2>1. [cert[c] EXCEPT !.path = 0, !.sha = None] \in CertRow
    BY DEF RegistryInv, RegistryType, CertRow
  <2> QED
    BY <2>1
<1>2. cert' = [cert EXCEPT ![c] = new] /\ UNCHANGED <<operator, creating, token, upload, file, shared, used>>
  BY <1>1 DEF R!Artefact
<1>3. cert[c] \in CertRow
  BY DEF RegistryInv, RegistryType
<1>4. new.path = 0
  BY <1>1, <1>3 DEF CertRow
<1>5. /\ cert' \in [Certs -> CertRow] /\ cert'[c].path = 0
      /\ \A d \in Certs \ {c} : cert'[d] = cert[d]
  BY <1>2, <1>4 DEF RegistryInv, RegistryType
<1>6. RegistryType' /\ PairInv' /\ UploadInv'
  BY <1>2, <1>5, PairStays DEF RegistryInv, RegistryType, UploadInv, Written
<1>7. FileInv'
  BY <1>2, <1>5 DEF RegistryInv, FileInv, Written, CertOf
<1> QED
  BY <1>6, <1>7 DEF RegistryInv

\* A file that is written over is another upload's of the same certificate, and is on record.
LEMMA UploadWritesKeeps ==
  ASSUME RegistryInv, NEW u \in Uploads, NEW t \in DOMAIN token, NEW content \in Contents,
         R!UploadWrites(u, t, content)
  PROVE  RegistryInv'
<1> DEFINE c == token[t].cert
           others == {v \in Uploads : upload[v] # R!NoUpload}
           names == {upload[v].name : v \in {w \in others : token[upload[w].token].cert = c}}
<1>1. /\ upload[u] = R!NoUpload /\ ~token[t].consumed
      /\ UNCHANGED <<operator, creating, cert, token, used>>
  BY DEF R!UploadWrites
<1>2. PICK n \in {Len(file) + 1} \cup names :
         /\ file' = IF n \in names THEN [file EXCEPT ![n] = content] ELSE Append(file, content)
         /\ upload' = [upload EXCEPT ![u] = [pc |-> "written", token |-> t, name |-> n, content |-> content]]
         /\ shared' = shared \cup (IF n \in names THEN {<<"cert", c>>} ELSE {})
                  \cup (IF \E v \in others : upload[v].token = t THEN {<<"token", t>>} ELSE {})
  BY DEF R!UploadWrites
<1>3. \A v \in Uploads : Written(v) <=> upload[v] # R!NoUpload
  <2>1. R!NoUpload.pc = "idle"
    BY DEF R!NoUpload
  <2>2. \A v \in Uploads : ~Written(v) => upload[v] = R!NoUpload
    BY DEF RegistryInv, UploadInv
  <2> QED
    BY <2>1, <2>2 DEF Written
<1>4. /\ \A x : (<<"twin", x>> \in shared' <=> <<"twin", x>> \in shared)
      /\ \A x : <<"cert", x>> \in shared' <=> <<"cert", x>> \in shared \/ (x = c /\ n \in names)
      /\ \A x : <<"token", x>> \in shared' <=>
                  <<"token", x>> \in shared \/ (x = t /\ \E v \in Uploads : Written(v) /\ upload[v].token = t)
  <2> HIDE DEF names, c
  <2>1. (\E v \in others : upload[v].token = t) <=> \E v \in Uploads : Written(v) /\ upload[v].token = t
    BY <1>3
  <2> HIDE DEF others
  <2> QED
    BY <1>2, <2>1
<1>5. \A k \in names : \E v \in Uploads : Written(v) /\ upload[v].name = k /\ CertOf(v) = c
  BY <1>3 DEF CertOf
<1>6. /\ file \in Seq(Contents) /\ Len(file) + 1 \in Nat /\ Len(file) + 1 \notin DOMAIN file
      /\ DOMAIN file \subseteq Nat /\ names \subseteq DOMAIN file
  <2>1. file \in Seq(Contents) /\ \A v \in Uploads : Written(v) => upload[v].name \in DOMAIN file
    BY DEF RegistryInv, RegistryType, FileInv
  <2>2. names \subseteq DOMAIN file
    BY <1>5, <2>1
  <2> QED
    BY <2>1, <2>2, LenProperties
<1>7. n \in DOMAIN file => n \in names
  BY <1>6
<1> HIDE DEF names
<1>8. /\ file' \in Seq(Contents) /\ DOMAIN file' = DOMAIN file \cup {n} /\ file'[n] = content
      /\ \A m \in DOMAIN file \ {n} : file'[m] = file[m]
  <2>1. CASE n \in names
    <3>1. n \in DOMAIN file /\ file' = [file EXCEPT ![n] = content]
      BY <1>2, <1>6, <2>1
    <3>2. DOMAIN file = DOMAIN file \cup {n}
      BY <3>1
    <3> QED
      BY <1>6, <3>1, <3>2, Put
  <2>2. CASE n \notin names
    <3>1. n = Len(file) + 1 /\ file' = Append(file, content)
      BY <1>2, <2>2
    <3> QED
      BY <1>6, <3>1, Added
  <2> QED
    BY <2>1, <2>2
<1>9. PICK new \in UploadRow : new = [pc |-> "written", token |-> t, name |-> n, content |-> content]
  <2>1. t \in Nat
    <3>1. token \in Seq(TokenRow)
      BY DEF RegistryInv, RegistryType
    <3> QED
      BY <3>1, LenProperties
  <2>2. [pc |-> "written", token |-> t, name |-> n, content |-> content] \in UploadRow
    BY <1>6, <2>1 DEF UploadRow
  <2> QED
    BY <2>2
<1>10. /\ upload' \in [Uploads -> UploadRow] /\ upload'[u] = new
       /\ \A v \in Uploads \ {u} : upload'[v] = upload[v] /\ Written(v)' = Written(v) /\ CertOf(v)' = CertOf(v)
  BY <1>1, <1>2, <1>9 DEF RegistryInv, RegistryType, Written, CertOf
<1>11. Written(u)' /\ ~Written(u) /\ CertOf(u)' = c
  BY <1>1, <1>3, <1>9, <1>10 DEF Written, CertOf
<1>12. RegistryType' /\ PairInv'
  <2>1. PairInv'
    BY <1>1, <1>4, PairStays
  <2> QED
    BY <1>1, <1>8, <1>10, <2>1 DEF RegistryInv, RegistryType
<1>13. UploadInv'
  <2>1. ASSUME NEW v \in Uploads
        PROVE  UploadInv!1!(v)'
    <3>1. CASE v = u
      BY <1>1, <1>4, <1>9, <1>10, <1>11, <3>1
    <3>2. CASE v # u
      <4>1. UploadInv!1!(v)
        BY DEF RegistryInv, UploadInv
      <4>2. ASSUME Written(v), <<"token", upload[v].token>> \notin shared'
            PROVE  /\ ~token[upload[v].token].consumed
                   /\ \A w \in Uploads : Written(w)' /\ upload'[w].token = upload[v].token => w = v
        <5>1. <<"token", upload[v].token>> \notin shared /\ upload[v].token # t
          BY <1>4, <4>2
        <5> QED
          BY <1>9, <1>10, <4>1, <4>2, <5>1
      <4> QED
        BY <1>1, <1>10, <3>2, <4>1, <4>2
    <3> QED
      BY <3>1, <3>2
  <2>2. UploadInv!2'
    BY <1>1, <1>4 DEF RegistryInv, UploadInv
  <2> QED
    BY <2>1, <2>2 DEF UploadInv
<1>14. FileInv'
  <2> HIDE DEF c
  <2>1. /\ \A v \in Uploads : Written(v) /\ upload[v].name = n => CertOf(v) = c /\ n \in names
        /\ \A d \in Certs : cert[d].path = n /\ cert[d].path # 0 => d = c /\ n \in names
    <3>1. /\ \A v \in Uploads : Written(v) /\ upload[v].name = n => n \in names
          /\ \A d \in Certs : cert[d].path = n /\ cert[d].path # 0 => n \in names
      BY <1>7 DEF RegistryInv, FileInv
    <3>2. ASSUME n \in names
          PROVE  /\ \A v \in Uploads : Written(v) /\ upload[v].name = n => CertOf(v) = c
                 /\ \A d \in Certs : cert[d].path = n /\ cert[d].path # 0 => d = c
      <4>1. PICK w \in Uploads : Written(w) /\ upload[w].name = n /\ CertOf(w) = c
        BY <1>5, <3>2
      <4>2. FileInv
        BY DEF RegistryInv
      <4>3. \A v \in Uploads : Written(v) /\ upload[v].name = upload[w].name => CertOf(v) = CertOf(w)
        BY <4>1, <4>2 DEF FileInv
      <4>4. \A d \in Certs : cert[d].path # 0 /\ upload[w].name = cert[d].path => CertOf(w) = d
        BY <4>1, <4>2 DEF FileInv
      <4> QED
        BY <4>1, <4>3, <4>4
    <3> QED
      BY <3>1, <3>2
  <2>2. FileInv!1'
    <3> SUFFICES ASSUME NEW v \in Uploads, Written(v)'
                 PROVE  /\ upload'[v].name \in DOMAIN file'
                        /\ <<"cert", CertOf(v)'>> \notin shared' => file'[upload'[v].name] = upload'[v].content
      OBVIOUS
    <3>1. CASE v = u
      BY <1>8, <1>9, <1>10, <3>1
    <3>2. CASE v # u
      <4>1. /\ upload'[v] = upload[v] /\ Written(v) /\ CertOf(v)' = CertOf(v) /\ upload[v].name \in DOMAIN file
            /\ <<"cert", CertOf(v)>> \notin shared => file[upload[v].name] = upload[v].content
        BY <1>10, <3>2 DEF RegistryInv, FileInv
      <4> QED
        BY <1>4, <1>8, <2>1, <4>1
    <3> QED
      BY <3>1, <3>2
  <2>3. FileInv!2'
    BY <1>9, <1>10, <1>11, <2>1 DEF RegistryInv, FileInv
  <2>4. FileInv!3'
    <3> SUFFICES ASSUME NEW d \in Certs, cert[d].path # 0
                 PROVE  /\ cert[d].path \in DOMAIN file'
                        /\ <<"cert", d>> \notin shared' => file'[cert[d].path] = cert[d].sha
                        /\ \A v \in Uploads : Written(v)' /\ upload'[v].name = cert[d].path => CertOf(v)' = d
                        /\ \A e \in Certs : cert[e].path = cert[d].path => e = d
      BY <1>1
    <3>1. FileInv!3!(d)
      BY DEF RegistryInv, FileInv
    <3>2. \A v \in Uploads : Written(v)' /\ upload'[v].name = cert[d].path => CertOf(v)' = d
      BY <1>9, <1>10, <1>11, <2>1, <3>1
    <3> QED
      BY <1>4, <1>8, <2>1, <3>1, <3>2
  <2> QED
    BY <2>2, <2>3, <2>4 DEF FileInv
<1> QED
  BY <1>12, <1>13, <1>14 DEF RegistryInv

\* The certificate names the file of the upload whose token it uses up.
LEMMA UploadCommitsKeeps ==
  ASSUME RegistryInv, NEW u \in Uploads, R!UploadCommits(u)
  PROVE  RegistryInv'
<1> DEFINE q == upload[u]
           c == token[q.token].cert
<1>1. /\ Written(u) /\ upload' = [upload EXCEPT ![u] = R!NoUpload]
      /\ cert' = [cert EXCEPT ![c].path = q.name, ![c].sha = q.content]
      /\ token' = [token EXCEPT ![q.token].consumed = TRUE] /\ used' = [used EXCEPT ![q.token] = @ + 1]
      /\ UNCHANGED <<operator, creating, file, shared>>
  BY DEF R!UploadCommits, Written
<1>2. /\ q \in UploadRow /\ q.token \in DOMAIN token /\ q.content \in Contents
      /\ q.name \in DOMAIN file /\ (<<"cert", c>> \notin shared => file[q.name] = q.content)
  BY <1>1 DEF RegistryInv, RegistryType, UploadInv, FileInv, CertOf
<1>3. /\ token \in Seq(TokenRow) /\ used \in Seq(Nat) /\ DOMAIN used = DOMAIN token
      /\ \A t \in DOMAIN token : token[t] \in TokenRow
  <2>1. token \in Seq(TokenRow) /\ used \in Seq(Nat) /\ DOMAIN used = DOMAIN token
    BY DEF RegistryInv, RegistryType
  <2> QED
    BY <2>1, ElementOfSeq, LenProperties
<1>4. c \in Certs /\ c = CertOf(u)
  BY <1>2, <1>3 DEF TokenRow, CertOf
<1>5. PICK marked \in TokenRow : marked = [token[q.token] EXCEPT !.consumed = TRUE]
  <2>1. [token[q.token] EXCEPT !.consumed = TRUE] \in TokenRow
    BY <1>2, <1>3 DEF TokenRow
  <2> QED
    BY <2>1
<1>6. marked.cert = token[q.token].cert /\ marked.consumed = TRUE
  BY <1>2, <1>3, <1>5 DEF TokenRow
<1>7. /\ token' \in Seq(TokenRow) /\ DOMAIN token' = DOMAIN token
      /\ token'[q.token] = marked /\ \A t \in DOMAIN token \ {q.token} : token'[t] = token[t]
  <2>1. token' = [token EXCEPT ![q.token] = marked]
    BY <1>1, <1>5
  <2> QED
    BY <1>2, <1>3, <2>1, Put
<1>8. /\ used' \in Seq(Nat) /\ DOMAIN used' = DOMAIN used
      /\ used'[q.token] = used[q.token] + 1 /\ \A t \in DOMAIN token \ {q.token} : used'[t] = used[t]
  <2>1. used[q.token] \in Nat
    BY <1>2, <1>3, ElementOfSeq, LenProperties
  <2>2. used[q.token] + 1 \in Nat /\ used' = [used EXCEPT ![q.token] = used[q.token] + 1]
    BY <1>1, <2>1
  <2> QED
    BY <1>2, <1>3, <2>2, Put
<1>9. PICK new \in CertRow : new = [cert[c] EXCEPT !.path = q.name, !.sha = q.content]
  <2>1. cert[c] \in CertRow
    BY <1>4 DEF RegistryInv, RegistryType
  <2>2. q.name \in Nat /\ q.content \in Contents \cup {None}
    BY <1>2 DEF UploadRow
  <2>3. [cert[c] EXCEPT !.path = q.name, !.sha = q.content] \in CertRow
    BY <2>1, <2>2 DEF CertRow
  <2> QED
    BY <2>3
<1>10. new.path = q.name /\ new.sha = q.content
  <2>1. cert[c] \in CertRow
    BY <1>4 DEF RegistryInv, RegistryType
  <2> QED
    BY <1>9, <2>1 DEF CertRow
<1>11. cert' \in [Certs -> CertRow] /\ cert'[c] = new /\ \A d \in Certs \ {c} : cert'[d] = cert[d]
  <2>1. cert \in [Certs -> CertRow]
    BY DEF RegistryInv, RegistryType
  <2>2. cert' = [cert EXCEPT ![c] = new]
    BY <1>1, <1>4, <1>9, <2>1
  <2> QED
    BY <1>4, <2>1, <2>2
<1>12. R!NoUpload \in UploadRow /\ R!NoUpload.pc = "idle"
  BY DEF R!NoUpload, UploadRow
<1>13. /\ upload' \in [Uploads -> UploadRow] /\ upload'[u] = R!NoUpload /\ ~Written(u)'
       /\ \A v \in Uploads \ {u} : upload'[v] = upload[v] /\ Written(v)' = Written(v)
  BY <1>1, <1>12 DEF RegistryInv, RegistryType, Written
<1>14. \A v \in Uploads \ {u} : Written(v) => CertOf(v)' = CertOf(v)
  <2>1. \A v \in Uploads : Written(v) => upload[v].token \in DOMAIN token
    BY DEF RegistryInv, UploadInv
  <2>2. \A t \in DOMAIN token : token'[t].cert = token[t].cert
    BY <1>6, <1>7
  <2> QED
    BY <1>13, <2>1, <2>2 DEF CertOf
<1> HIDE DEF c, q
<1>15. RegistryType' /\ PairInv'
  <2>1. PairInv'
    BY <1>1, PairStays
  <2> QED
    BY <1>1, <1>3, <1>7, <1>8, <1>11, <1>13, <2>1 DEF RegistryInv, RegistryType
<1>16. UploadInv'
  <2>1. ASSUME NEW v \in Uploads
        PROVE  UploadInv!1!(v)'
    <3>1. CASE v = u
      BY <1>13, <3>1
    <3>2. CASE v # u
      <4>1. UploadInv!1!(v) /\ UploadInv!1!(u)
        BY DEF RegistryInv, UploadInv
      <4>2. ASSUME Written(v), <<"token", upload[v].token>> \notin shared
            PROVE  upload[v].token # q.token
        BY <1>1, <3>2, <4>1, <4>2 DEF q
      <4> QED
        BY <1>1, <1>7, <1>13, <3>2, <4>1, <4>2
    <3> QED
      BY <3>1, <3>2
  <2>2. ASSUME NEW t \in DOMAIN token, <<"token", t>> \notin shared
        PROVE  used'[t] = IF token'[t].consumed THEN 1 ELSE 0
    <3>1. used[t] = IF token[t].consumed THEN 1 ELSE 0
      BY <2>2 DEF RegistryInv, UploadInv
    <3>2. CASE t = q.token
      <4>1. ~token[t].consumed
        BY <1>1, <2>2, <3>2 DEF RegistryInv, UploadInv, q
      <4> QED
        BY <1>6, <1>7, <1>8, <3>1, <3>2, <4>1
    <3>3. CASE t # q.token
      BY <1>7, <1>8, <3>1, <3>3
    <3> QED
      BY <3>2, <3>3
  <2>3. UploadInv!2'
    BY <1>1, <1>7, <2>2
  <2> QED
    BY <2>1, <2>3 DEF UploadInv
<1>17. FileInv'
  <2>1. /\ \A v \in Uploads : Written(v) /\ upload[v].name = q.name => CertOf(v) = c
        /\ \A d \in Certs : cert[d].path # 0 /\ cert[d].path = q.name => d = c
    BY <1>1, <1>4 DEF RegistryInv, FileInv, q
  <2>2. FileInv!1' /\ FileInv!2'
    BY <1>1, <1>13, <1>14 DEF RegistryInv, FileInv
  <2>3. ASSUME NEW d \in Certs
        PROVE  FileInv!3!(d)'
    <3>1. CASE d = c
      BY <1>1, <1>2, <1>10, <1>11, <1>13, <1>14, <2>1, <3>1
    <3>2. CASE d # c
      <4>1. FileInv!3!(d)
        BY DEF RegistryInv, FileInv
      <4> QED
        BY <1>1, <1>10, <1>11, <1>13, <1>14, <2>1, <3>2, <4>1
    <3> QED
      BY <3>1, <3>2
  <2> QED
    BY <2>2, <2>3 DEF FileInv
<1> QED
  BY <1>15, <1>16, <1>17 DEF RegistryInv

LEMMA RegistryStep == RegistryInv /\ (R!OperatorNext \/ R!CertNext) => RegistryInv'
BY CreateLooksKeeps, CreateCommitsKeeps, RevokeCertKeeps, MintTokenKeeps, TokenExpiresKeeps,
   UploadWritesKeeps, UploadCommitsKeeps, UploadDiesKeeps, ArtefactKeeps DEF R!OperatorNext, R!CertNext

LEMMA RegistryBehaves == Spec => []RegistryInv
<1>1. ConsoleInit => RegistryInv
  BY RegistryStarts DEF ConsoleInit
<1>2. RegistryInv /\ [ConsoleNext]_allVars => RegistryInv'
  <2> SUFFICES ASSUME RegistryInv, [ConsoleNext]_allVars PROVE RegistryInv'
    OBVIOUS
  <2>1. CASE UNCHANGED registryVars
    BY <2>1 DEF registryVars, RegistryInv, RegistryType, PairInv, Looked, UploadInv, FileInv, Written, CertOf
  <2>2. CASE R!OperatorNext \/ R!CertNext
    BY <2>2, RegistryStep
  <2> QED
    BY <2>1, <2>2 DEF ConsoleNext, allVars, KeysOnly, PortalOnly, DiceOnly, CrashOnly
<1> QED
  BY <1>1, <1>2, PTL DEF Spec

LEMMA RegistryIsTyped == RegistryInv => R!TypeOK
<1> SUFFICES ASSUME RegistryInv PROVE R!TypeOK
  OBVIOUS
<1>1. /\ operator \in Seq(OperatorRow) /\ file \in Seq(Contents)
      /\ token \in Seq(TokenRow) /\ used \in Seq(Nat) /\ DOMAIN used = DOMAIN token
  BY DEF RegistryInv, RegistryType
<1>2. /\ DOMAIN operator = 1..Len(operator) /\ Len(operator) \in Nat
      /\ DOMAIN file = 1..Len(file) /\ Len(file) \in Nat
  BY <1>1, LenProperties
<1>3. \A o \in DOMAIN operator : operator[o] \in OperatorRow
  BY <1>1, <1>2, ElementOfSeq
<1>4. \A o \in DOMAIN operator : operator[o].twin \in 0..Len(operator) /\ operator[o].slug \in Slugs
  <2> SUFFICES ASSUME NEW o \in DOMAIN operator
               PROVE  operator[o].twin \in 0..Len(operator) /\ operator[o].slug \in Slugs
    OBVIOUS
  <2>1. operator[o].twin \in Nat /\ operator[o].slug \in Slugs
    BY <1>3 DEF OperatorRow
  <2>2. operator[o].twin # 0 => operator[o].twin \in DOMAIN operator
    BY DEF RegistryInv, PairInv
  <2> QED
    BY <1>2, <2>1, <2>2
<1>5. \A c \in Certs : cert[c].path \in 0..Len(file)
  <2> SUFFICES ASSUME NEW c \in Certs PROVE cert[c].path \in 0..Len(file)
    OBVIOUS
  <2>1. cert[c].path \in Nat
    BY DEF RegistryInv, RegistryType, CertRow
  <2>2. cert[c].path # 0 => cert[c].path \in DOMAIN file
    BY DEF RegistryInv, FileInv
  <2> QED
    BY <1>2, <2>1, <2>2
<1>6. \A t \in DOMAIN token : token[t].cert \in Certs
  <2>1. \A t \in DOMAIN token : token[t] \in TokenRow
    BY <1>1, ElementOfSeq, LenProperties
  <2> QED
    BY <2>1 DEF TokenRow
<1>7. Len(token) = Len(used)
  BY <1>1, SameLength
<1> QED
  BY <1>4, <1>5, <1>6, <1>7 DEF R!TypeOK, RegistryInv, PairInv

LEMMA RegistryHolds == RegistryInv => R!PairIsMutual /\ R!TokenOnce /\ R!ArtefactMatches
<1> SUFFICES ASSUME RegistryInv PROVE R!PairIsMutual /\ R!TokenOnce /\ R!ArtefactMatches
  OBVIOUS
<1>1. R!PairIsMutual
  BY DEF RegistryInv, PairInv, R!PairIsMutual
<1>2. R!TokenOnce
  BY DEF RegistryInv, RegistryType, UploadInv, R!TokenOnce
<1>3. R!ArtefactMatches
  BY DEF RegistryInv, FileInv, R!ArtefactMatches
<1> QED
  BY <1>1, <1>2, <1>3

\* Twins point at each other, a token is used once and the artefact on record is the file
\* on disk, for any number of operators, certificates and overlapping requests.
THEOREM RegistryIsSoundHolds == Spec => []RegistryIsSound
<1>1. RegistryInv => RegistryIsSound
  BY RegistryIsTyped, RegistryHolds DEF RegistryIsSound
<1> QED
  BY <1>1, RegistryBehaves, PTL

-----------------------------------------------------------------------------
(* Portal users.                                                            *)

Inviting == {"invite", "revoked"}
Closing == {"revoke", "accept"}
Asking == {"mfa", "confirm", "login", "code"}
Challenging == {"register", "authenticate"}

UserRow == [exists : BOOLEAN, disabled : BOOLEAN, secret : Nat, enrolled : BOOLEAN, passkeys : Nat]
InviteRow == [email : Emails, accepted : BOOLEAN, revoked : BOOLEAN, expired : BOOLEAN]
ChallengeRow == [kind : Challenging, email : Emails, live : BOOLEAN]
Kinds == {"none"} \cup Inviting \cup Closing \cup Asking \cup Challenging
HandlerRow == [kind : Kinds, email : Emails \cup {Member}, at : Nat, second : BOOLEAN]
GrantRow == [email : Emails, by : {"invite", "password", "code", "passkey"}, at : Nat]

PortalType ==
    /\ user \in [Emails -> UserRow] /\ proven \in [Emails -> Nat] /\ secrets \in 0..MaxSecrets
    /\ invite \in Seq(InviteRow) /\ challenge \in Seq(ChallengeRow)
    /\ Len(invite) <= MaxInvites /\ Len(challenge) <= MaxChallenges
    /\ handler \in [Handlers -> HandlerRow] /\ granted \in Seq(GrantRow) /\ met \subseteq Emails

Busy(h) == handler[h].kind # "none"
About(h, e) == Busy(h) /\ handler[h].email = e
Used == {c \in DOMAIN challenge : ~challenge[c].live}

\* A request is about a row that is there.
HandlerInv ==
    \A h \in Handlers :
        LET x == handler[h] IN
        /\ x.kind = "none" => x = P!Idle
        /\ x.kind # "none" => x.email \in Emails
        /\ x.kind \in Closing => x.at \in DOMAIN invite /\ invite[x.at].email = x.email
        /\ x.kind \in Asking \cup Challenging => user[x.email].exists
        /\ x.kind \in Challenging => x.at \in DOMAIN challenge

\* Who is nobody has nothing; a passkey was a challenge.
UserInv ==
    /\ \A e \in Emails :
         /\ ~user[e].exists => user[e] = P!Nobody
         /\ user[e].secret <= secrets /\ user[e].passkeys <= Cardinality(Used)
    /\ \A c \in DOMAIN challenge : user[challenge[c].email].exists

\* Requests about an address that has met no crossing are alone with it.
AloneWith == \A e \in Emails \ met : \A g, h \in Handlers : About(g, e) /\ About(h, e) => g = h

\* One invitation is open, and none while another is about to be written; what is being
\* accepted is open.
OpenInv ==
    /\ \A e \in Emails \ met : \A i, j \in P!OpenFor(e) : i = j
    /\ \A h \in Handlers : Busy(h) /\ handler[h].email \notin met =>
         /\ handler[h].kind = "revoked" => P!OpenFor(handler[h].email) = {}
         /\ handler[h].kind = "accept" => P!Open(handler[h].at)

AcceptedFor(e) == {i \in DOMAIN invite : invite[i].email = e /\ invite[i].accepted}
AcceptInv ==
    \A e \in Emails \ {Member} :
        /\ ~user[e].exists => AcceptedFor(e) = {}
        /\ user[e].exists => \E i \in DOMAIN invite : AcceptedFor(e) = {i}

\* What is enrolled, or about to be, is the secret last proven; a login knows whether it is.
FactorInv ==
    /\ \A e \in Emails \ met : user[e].enrolled => user[e].secret # 0 /\ user[e].secret = proven[e]
    /\ \A h \in Handlers :
         LET e == handler[h].email IN
         Busy(h) /\ e \notin met =>
           /\ handler[h].kind = "mfa" => ~user[e].enrolled
           /\ handler[h].kind = "confirm" => user[e].secret # 0 /\ user[e].secret = proven[e]
           /\ handler[h].kind = "login" => handler[h].second = user[e].enrolled

\* A challenge that opened a session is used up.
GrantInv ==
    /\ \A m \in DOMAIN granted : granted[m].at # 0 => granted[m].at \in Used
    /\ \A m, n \in DOMAIN granted : granted[m].at # 0 /\ granted[m].at = granted[n].at => m = n

PortalInv == /\ PortalType /\ HandlerInv /\ UserInv /\ AloneWith
             /\ OpenInv /\ AcceptInv /\ FactorInv /\ GrantInv

LEMMA KindsAre == Kinds = {"none", "invite", "revoked", "revoke", "accept", "mfa", "confirm", "login",
                           "code", "register", "authenticate"}
BY DEF Kinds, Inviting, Closing, Asking, Challenging

LEMMA IdleIs == P!Idle \in HandlerRow /\ P!Idle.kind = "none"
BY DEF P!Idle, HandlerRow, Kinds

LEMMA NobodyIs ==
  P!Nobody \in UserRow /\ ~P!Nobody.exists /\ ~P!Nobody.enrolled /\ P!Nobody.secret = 0 /\ P!Nobody.passkeys = 0
BY DEF P!Nobody, UserRow

LEMMA BusyMeans == ASSUME PortalInv, NEW g \in Handlers PROVE Busy(g) <=> handler[g] # P!Idle
BY IdleIs DEF PortalInv, HandlerInv, Busy

\* A request begins: it was alone, or is on record.
LEMMA BeginKeeps ==
  ASSUME PortalInv, NEW h \in Handlers, NEW kind \in Kinds \ {"none", "revoked"}, NEW e \in Emails,
         NEW at \in Nat, NEW second \in BOOLEAN, P!Begins(h, kind, e, at, second),
         UNCHANGED <<user, invite, challenge, granted, secrets>>, proven' \in [Emails -> Nat],
         \A x \in Emails : proven'[x] = proven[x] \/ proven'[x] = user[x].secret,
         kind \in Closing => at \in DOMAIN invite /\ invite[at].email = e,
         kind \in Asking \cup Challenging => user[e].exists,
         kind \in Challenging => at \in DOMAIN challenge,
         kind = "accept" => P!Open(at), kind = "mfa" => ~user[e].enrolled,
         kind = "confirm" => user[e].secret # 0 /\ user[e].secret = proven'[e],
         kind = "login" => second = user[e].enrolled
  PROVE  PortalInv'
<1>1. PICK new \in HandlerRow : new = [kind |-> kind, email |-> e, at |-> at, second |-> second]
  <2>1. [kind |-> kind, email |-> e, at |-> at, second |-> second] \in HandlerRow
    BY DEF HandlerRow
  <2> QED
    BY <2>1
<1>2. /\ handler[h] = P!Idle /\ handler' = [handler EXCEPT ![h] = new]
      /\ met' = IF \E g \in Handlers : handler[g] # P!Idle /\ handler[g].email = e THEN met \cup {e} ELSE met
  BY <1>1 DEF P!Begins
<1>3. ~Busy(h) /\ met \subseteq met' /\ met' \subseteq Emails /\ \A g \in Handlers : About(g, e) => e \in met'
  <2>1. met \subseteq Emails
    BY DEF PortalInv, PortalType
  <2>2. \A g \in Handlers : Busy(g) <=> handler[g] # P!Idle
    BY BusyMeans
  <2> QED
    BY <1>2, <2>1, <2>2 DEF About
<1>4. /\ handler' \in [Handlers -> HandlerRow] /\ handler'[h] = new
      /\ \A g \in Handlers \ {h} : handler'[g] = handler[g]
  BY <1>2 DEF PortalInv, PortalType
<1>5. Busy(h)' /\ \A g \in Handlers \ {h} : Busy(g)' = Busy(g)
  BY <1>1, <1>4 DEF Busy
<1>6. PortalType'
  BY <1>3, <1>4 DEF PortalInv, PortalType
<1>7. HandlerInv'
  <2>1. ASSUME NEW g \in Handlers PROVE HandlerInv!(g)'
    <3>1. CASE g = h
      BY <1>1, <1>4, <3>1
    <3>2. CASE g # h
      <4>1. HandlerInv!(g)
        BY DEF PortalInv, HandlerInv
      <4> QED
        BY <1>4, <3>2, <4>1
    <3> QED
      BY <3>1, <3>2
  <2> QED
    BY <2>1 DEF HandlerInv
<1>8. AloneWith'
  <2>1. \A g \in Handlers \ {h}, x \in Emails : About(g, x)' = About(g, x)
    BY <1>4, <1>5 DEF About
  <2>2. \A x \in Emails : About(h, x)' => x = e
    BY <1>1, <1>4 DEF About
  <2> QED
    BY <1>3, <2>1, <2>2 DEF PortalInv, AloneWith
<1>9. OpenInv'
  <2>1. \A x : P!OpenFor(x)' = P!OpenFor(x) /\ P!Open(x)' = P!Open(x)
    BY DEF P!OpenFor, P!Open
  <2> QED
    BY <1>1, <1>3, <1>4, <1>5, <2>1 DEF PortalInv, OpenInv
<1>10. FactorInv'
  <2>1. FactorInv!1'
    BY <1>3 DEF PortalInv, FactorInv
  <2>2. ASSUME NEW g \in Handlers PROVE FactorInv!2!(g)'
    <3>1. CASE g = h
      BY <1>1, <1>4, <3>1
    <3>2. CASE g # h
      <4>1. FactorInv!2!(g) /\ (Busy(g) => handler[g].email \in Emails)
        BY DEF PortalInv, FactorInv, HandlerInv, Busy
      <4> QED
        BY <1>3, <1>4, <1>5, <3>2, <4>1
    <3> QED
      BY <3>1, <3>2
  <2> QED
    BY <2>1, <2>2 DEF FactorInv
<1>11. UserInv' /\ AcceptInv' /\ GrantInv'
  BY DEF PortalInv, UserInv, Used, AcceptInv, AcceptedFor, GrantInv
<1> QED
  BY <1>6, <1>7, <1>8, <1>9, <1>10, <1>11 DEF PortalInv

\* Requests end, or go on to the invitation or the code.
Fewer ==
    /\ handler' \in [Handlers -> HandlerRow] /\ met \subseteq met' /\ met' \subseteq Emails
    /\ \A g \in Handlers :
         \/ handler'[g] = handler[g] \/ handler'[g] = P!Idle
         \/ /\ handler'[g].email = handler[g].email
            /\ \/ handler[g].kind = "invite" /\ handler'[g].kind = "revoked"
               \/ handler[g].kind = "login" /\ handler'[g].kind = "code"

LEMMA Ended ==
  ASSUME PortalInv, NEW h \in Handlers, P!Ends(h), UNCHANGED met
  PROVE  /\ Fewer /\ handler' = [handler EXCEPT ![h] = P!Idle]
         /\ handler'[h] = P!Idle /\ \A g \in Handlers \ {h} : handler'[g] = handler[g]
<1>1. handler' = [handler EXCEPT ![h] = P!Idle]
  BY DEF P!Ends
<1>2. handler \in [Handlers -> HandlerRow] /\ met \subseteq Emails
  BY DEF PortalInv, PortalType
<1> QED
  BY <1>1, <1>2, IdleIs DEF Fewer

LEMMA WentOn ==
  ASSUME PortalInv, NEW h \in Handlers, NEW kind \in {"revoked", "code"}, P!Goes(h, kind), UNCHANGED met,
         handler[h].kind = IF kind = "revoked" THEN "invite" ELSE "login"
  PROVE  /\ Fewer /\ handler'[h].kind = kind /\ handler'[h].email = handler[h].email
         /\ \A g \in Handlers \ {h} : handler'[g] = handler[g]
<1>1. handler \in [Handlers -> HandlerRow] /\ met \subseteq Emails
  BY DEF PortalInv, PortalType
<1>2. PICK new \in HandlerRow : new = [handler[h] EXCEPT !.kind = kind]
  <2>1. [handler[h] EXCEPT !.kind = kind] \in HandlerRow
    BY <1>1, KindsAre DEF HandlerRow
  <2> QED
    BY <2>1
<1>3. new.kind = kind /\ new.email = handler[h].email
  BY <1>1, <1>2 DEF HandlerRow
<1>4. handler' = [handler EXCEPT ![h] = new]
  BY <1>2 DEF P!Goes
<1>5. /\ handler' \in [Handlers -> HandlerRow] /\ handler'[h] = new
      /\ \A g \in Handlers \ {h} : handler'[g] = handler[g]
  BY <1>1, <1>4
<1> QED
  BY <1>1, <1>3, <1>5 DEF Fewer

\* Nobody begins: who is busy was busy, with the same.
LEMMA FewerBusy ==
  ASSUME PortalInv, Fewer, NEW g \in Handlers
  PROVE  /\ Busy(g)' => Busy(g) /\ handler'[g].email = handler[g].email
         /\ handler'[g].kind \notin {"revoked", "code"} => handler'[g] = handler[g] \/ handler'[g] = P!Idle
         /\ ~Busy(g)' => handler'[g] = P!Idle
<1>1. CASE handler'[g] = handler[g] \/ handler'[g] = P!Idle
  BY <1>1, IdleIs DEF Busy, PortalInv, HandlerInv
<1>2. CASE handler'[g].email = handler[g].email /\ handler[g].kind \in {"invite", "login"}
           /\ handler'[g].kind \in {"revoked", "code"}
  BY <1>2 DEF Busy
<1> QED
  BY <1>1, <1>2 DEF Fewer

LEMMA FewerAlone == ASSUME PortalInv, Fewer PROVE AloneWith'
<1>1. \A g \in Handlers : \A e : About(g, e)' => About(g, e)
  BY FewerBusy DEF About
<1> QED
  BY <1>1 DEF PortalInv, AloneWith, Fewer

\* The rows that requests are about stay there.
LEMMA FewerHandlers ==
  ASSUME PortalInv, Fewer,
         \A i \in DOMAIN invite : i \in DOMAIN invite' /\ invite'[i].email = invite[i].email,
         \A e \in Emails : user[e].exists => user'[e].exists, DOMAIN challenge \subseteq DOMAIN challenge'
  PROVE  HandlerInv'
<1> SUFFICES ASSUME NEW g \in Handlers PROVE HandlerInv!(g)'
  BY DEF HandlerInv
<1>1. HandlerInv!(g)
  BY DEF PortalInv, HandlerInv
<1>2. CASE handler'[g] = P!Idle
  BY <1>2, IdleIs DEF Closing, Asking, Challenging
<1>3. CASE handler'[g] = handler[g]
  BY <1>1, <1>3, IdleIs DEF Closing, Asking, Challenging
<1>4. CASE /\ handler'[g].email = handler[g].email
           /\ \/ handler[g].kind = "invite" /\ handler'[g].kind = "revoked"
              \/ handler[g].kind = "login" /\ handler'[g].kind = "code"
  BY <1>1, <1>4 DEF Closing, Asking, Challenging
<1> QED
  BY <1>2, <1>3, <1>4 DEF Fewer

LEMMA FewerFactors ==
  ASSUME PortalInv, Fewer, UNCHANGED proven,
         \A e \in Emails : user'[e].enrolled = user[e].enrolled /\ user'[e].secret = user[e].secret
  PROVE  FactorInv'
<1>1. FactorInv!1'
  BY DEF PortalInv, FactorInv, Fewer
<1>2. ASSUME NEW g \in Handlers PROVE FactorInv!2!(g)'
  <2>1. FactorInv!2!(g) /\ (Busy(g) => handler[g].email \in Emails) /\ met \subseteq met'
    BY DEF PortalInv, FactorInv, HandlerInv, Busy, Fewer
  <2>2. CASE handler'[g].kind \in {"revoked", "code"}
    BY <2>2
  <2>3. CASE handler'[g] = handler[g]
    BY <2>1, <2>3 DEF Busy
  <2>4. CASE handler'[g] = P!Idle
    BY <2>4, IdleIs DEF Busy
  <2> QED
    BY <2>2, <2>3, <2>4, FewerBusy
<1> QED
  BY <1>1, <1>2 DEF FactorInv

\* Invitations close, but for those that are being accepted.
LEMMA FewerOpen ==
  ASSUME PortalInv, Fewer, DOMAIN invite' = DOMAIN invite,
         \A i \in DOMAIN invite : invite'[i].email = invite[i].email /\ (P!Open(i)' => P!Open(i)),
         \A g \in Handlers : handler'[g].kind = "revoked" /\ handler[g].kind # "revoked" =>
            \A i \in DOMAIN invite : invite[i].email = handler[g].email => ~P!Open(i)',
         \A g \in Handlers, i \in DOMAIN invite :
            handler'[g].kind = "accept" /\ handler[g].kind = "accept" /\ handler[g].at = i
               /\ handler[g].email \notin met /\ P!Open(i) => P!Open(i)'
  PROVE  OpenInv'
<1>1. \A e : P!OpenFor(e)' \subseteq P!OpenFor(e)
  BY DEF P!OpenFor
<1>2. met \subseteq met'
  BY DEF Fewer
<1>3. OpenInv!1'
  BY <1>1, <1>2 DEF PortalInv, OpenInv
<1>4. ASSUME NEW g \in Handlers, Busy(g)', handler'[g].email \notin met'
      PROVE  /\ handler'[g].kind = "revoked" => P!OpenFor(handler[g].email)' = {}
             /\ handler'[g].kind = "accept" => P!Open(handler[g].at)'
  <2>1. /\ Busy(g) /\ handler'[g].email = handler[g].email /\ handler[g].email \notin met
        /\ (handler'[g].kind \notin {"revoked", "code"} => handler'[g] = handler[g] \/ handler'[g] = P!Idle)
    BY <1>2, <1>4, FewerBusy
  <2>2. ASSUME NEW e, e = handler[g].email, handler'[g].kind = "revoked"
        PROVE  P!OpenFor(e)' = {}
    <3>1. CASE handler[g].kind = "revoked"
      BY <1>1, <2>1, <2>2, <3>1 DEF PortalInv, OpenInv
    <3>2. CASE handler[g].kind # "revoked"
      <4>1. \A i \in DOMAIN invite : invite[i].email = e => ~P!Open(i)'
        BY <2>2, <3>2
      <4> QED
        BY <4>1 DEF P!OpenFor
    <3> QED
      BY <3>1, <3>2
  <2>3. ASSUME NEW i, i = handler'[g].at, handler'[g].kind = "accept"
        PROVE  P!Open(i)'
    <3>1. handler'[g] = handler[g]
      BY <2>1, <2>3, IdleIs
    <3>2. i \in DOMAIN invite /\ P!Open(i)
      BY <2>1, <2>3, <3>1 DEF PortalInv, OpenInv, HandlerInv, Closing
    <3> QED
      BY <2>1, <2>3, <3>1, <3>2
  <2>4. PICK e, i : e = handler'[g].email /\ i = handler'[g].at
    OBVIOUS
  <2>5. /\ handler'[g].kind = "revoked" => P!OpenFor(e)' = {}
        /\ handler'[g].kind = "accept" => P!Open(i)'
    BY <2>1, <2>2, <2>3, <2>4
  <2> QED
    BY <2>4, <2>5, Zenon
<1>5. OpenInv!2'
  BY <1>4
<1> QED
  BY <1>3, <1>5 DEF OpenInv

LEMMA InviteRows ==
  ASSUME PortalInv
  PROVE  /\ invite \in Seq(InviteRow) /\ DOMAIN invite = 1..Len(invite) /\ Len(invite) \in Nat
         /\ \A i \in DOMAIN invite : invite[i] \in InviteRow
<1>1. invite \in Seq(InviteRow)
  BY DEF PortalInv, PortalType
<1> QED
  BY <1>1, ElementOfSeq, LenProperties

LEMMA AcceptStays ==
  ASSUME PortalInv, DOMAIN invite \subseteq DOMAIN invite',
         \A i \in DOMAIN invite : invite'[i].email = invite[i].email /\ invite'[i].accepted = invite[i].accepted,
         \A i \in DOMAIN invite' : i \notin DOMAIN invite => ~invite'[i].accepted,
         \A e \in Emails : user'[e].exists = user[e].exists
  PROVE  AcceptInv'
<1>1. \A e : AcceptedFor(e)' = AcceptedFor(e)
  BY InviteRows DEF AcceptedFor, InviteRow
<1> QED
  BY <1>1 DEF PortalInv, AcceptInv

\* Requests that begin.
LEMMA InviteLooksKeeps ==
  ASSUME PortalInv, NEW h \in Handlers, NEW e \in Emails, P!InviteLooks(h, e)
  PROVE  PortalInv'
<1>1. P!Begins(h, "invite", e, 0, FALSE) /\ UNCHANGED <<user, proven, invite, challenge, granted, secrets>>
  BY DEF P!InviteLooks
<1>2. "invite" \in Kinds \ {"none", "revoked"} /\ "invite" \notin Closing /\ "invite" \notin Asking \cup Challenging
  BY DEF Kinds, Inviting, Closing, Asking, Challenging
<1>3. proven \in [Emails -> Nat]
  BY DEF PortalInv, PortalType
<1> QED
  BY <1>1, <1>2, <1>3, BeginKeeps

LEMMA RevokeLooksKeeps ==
  ASSUME PortalInv, NEW h \in Handlers, NEW i \in DOMAIN invite, P!RevokeLooks(h, i)
  PROVE  PortalInv'
<1>1. P!Begins(h, "revoke", invite[i].email, i, FALSE) /\ UNCHANGED <<user, proven, invite, challenge, granted, secrets>>
  BY DEF P!RevokeLooks
<1>2. "revoke" \in Kinds \ {"none", "revoked"} /\ "revoke" \notin Asking \cup Challenging
  BY DEF Kinds, Inviting, Closing, Asking, Challenging
<1>3. proven \in [Emails -> Nat] /\ invite[i].email \in Emails /\ i \in Nat
  BY InviteRows DEF PortalInv, PortalType, InviteRow
<1> QED
  BY <1>1, <1>2, <1>3, BeginKeeps

LEMMA AcceptLooksKeeps ==
  ASSUME PortalInv, NEW h \in Handlers, NEW i \in DOMAIN invite, P!AcceptLooks(h, i)
  PROVE  PortalInv'
<1>1. /\ P!Begins(h, "accept", invite[i].email, i, FALSE) /\ P!Open(i)
      /\ UNCHANGED <<user, proven, invite, challenge, granted, secrets>>
  BY DEF P!AcceptLooks
<1>2. "accept" \in Kinds \ {"none", "revoked"} /\ "accept" \notin Asking \cup Challenging
  BY DEF Kinds, Inviting, Closing, Asking, Challenging
<1>3. proven \in [Emails -> Nat] /\ invite[i].email \in Emails /\ i \in Nat
  BY InviteRows DEF PortalInv, PortalType, InviteRow
<1> QED
  BY <1>1, <1>2, <1>3, BeginKeeps

LEMMA MfaLooksKeeps ==
  ASSUME PortalInv, NEW h \in Handlers, NEW e \in Emails, P!MfaLooks(h, e)
  PROVE  PortalInv'
<1>1. /\ P!Begins(h, "mfa", e, 0, FALSE) /\ user[e].exists /\ ~user[e].enrolled
      /\ UNCHANGED <<user, proven, invite, challenge, granted, secrets>>
  BY DEF P!MfaLooks
<1>2. "mfa" \in Kinds \ {"none", "revoked"} /\ "mfa" \notin Closing /\ "mfa" \notin Challenging
  BY DEF Kinds, Inviting, Closing, Asking, Challenging
<1>3. proven \in [Emails -> Nat]
  BY DEF PortalInv, PortalType
<1> QED
  BY <1>1, <1>2, <1>3, BeginKeeps

LEMMA ConfirmLooksKeeps ==
  ASSUME PortalInv, NEW h \in Handlers, NEW e \in Emails, P!ConfirmLooks(h, e)
  PROVE  PortalInv'
<1>1. /\ P!Begins(h, "confirm", e, 0, FALSE) /\ user[e].secret # 0 /\ proven' = [proven EXCEPT ![e] = user[e].secret]
      /\ UNCHANGED <<user, invite, challenge, granted, secrets>>
  BY DEF P!ConfirmLooks
<1>2. "confirm" \in Kinds \ {"none", "revoked"} /\ "confirm" \notin Closing /\ "confirm" \notin Challenging
  BY DEF Kinds, Inviting, Closing, Asking, Challenging
<1>3. proven \in [Emails -> Nat] /\ user[e].secret \in Nat
  BY DEF PortalInv, PortalType, UserRow
<1>4. /\ proven' \in [Emails -> Nat] /\ user[e].secret = proven'[e]
      /\ \A x \in Emails : proven'[x] = proven[x] \/ proven'[x] = user[x].secret
  BY <1>1, <1>3
<1>5. user[e].exists
  BY <1>1, NobodyIs DEF PortalInv, UserInv
<1> QED
  BY <1>1, <1>2, <1>4, <1>5, BeginKeeps

LEMMA LoginReadsKeeps ==
  ASSUME PortalInv, NEW h \in Handlers, NEW e \in Emails, P!LoginReads(h, e)
  PROVE  PortalInv'
<1>1. /\ P!Begins(h, "login", e, 0, user[e].enrolled) /\ user[e].exists
      /\ UNCHANGED <<user, proven, invite, challenge, granted, secrets>>
  BY DEF P!LoginReads
<1>2. "login" \in Kinds \ {"none", "revoked"} /\ "login" \notin Closing /\ "login" \notin Challenging
  BY DEF Kinds, Inviting, Closing, Asking, Challenging
<1>3. proven \in [Emails -> Nat] /\ user[e].enrolled \in BOOLEAN
  BY DEF PortalInv, PortalType, UserRow
<1> QED
  BY <1>1, <1>2, <1>3, BeginKeeps

LEMMA ChallengeRows ==
  ASSUME PortalInv
  PROVE  /\ challenge \in Seq(ChallengeRow) /\ DOMAIN challenge = 1..Len(challenge) /\ Len(challenge) \in Nat
         /\ \A c \in DOMAIN challenge : challenge[c] \in ChallengeRow
<1>1. challenge \in Seq(ChallengeRow)
  BY DEF PortalInv, PortalType
<1> QED
  BY <1>1, ElementOfSeq, LenProperties

LEMMA ChallengeFoundKeeps ==
  ASSUME PortalInv, NEW h \in Handlers, NEW c \in DOMAIN challenge, P!ChallengeFound(h, c)
  PROVE  PortalInv'
<1>1. PICK x \in ChallengeRow : x = challenge[c]
  BY ChallengeRows
<1>2. P!Begins(h, x.kind, x.email, c, FALSE) /\ UNCHANGED <<user, proven, invite, challenge, granted, secrets>>
  BY <1>1 DEF P!ChallengeFound
<1>3. /\ x.kind \in Kinds \ {"none", "revoked"} /\ x.kind \notin Closing /\ x.kind \in Challenging
      /\ x.kind \notin {"accept", "mfa", "confirm", "login"} /\ x.email \in Emails
  BY DEF Kinds, Inviting, Closing, Asking, Challenging, ChallengeRow
<1>4. proven \in [Emails -> Nat] /\ c \in Nat /\ user[x.email].exists
  BY <1>1, ChallengeRows DEF PortalInv, PortalType, UserInv
<1> QED
  BY <1>2, <1>3, <1>4, BeginKeeps

\* Invitations expire, are revoked, or both.
LEMMA Waits == ASSUME PortalInv, UNCHANGED <<handler, met>> PROVE Fewer
BY DEF PortalInv, PortalType, Fewer

LEMMA InvitesClose ==
  ASSUME PortalInv, Fewer, UNCHANGED <<user, proven, challenge, granted, secrets>>,
         DOMAIN invite' = DOMAIN invite, \A i \in DOMAIN invite : invite'[i] \in InviteRow,
         invite' = [i \in DOMAIN invite |-> invite'[i]],
         \A i \in DOMAIN invite : invite'[i].email = invite[i].email /\ invite'[i].accepted = invite[i].accepted
                                  /\ (P!Open(i)' => P!Open(i)),
         \A g \in Handlers : handler'[g].kind = "revoked" /\ handler[g].kind # "revoked" =>
            \A i \in DOMAIN invite : invite[i].email = handler[g].email => ~P!Open(i)',
         \A g \in Handlers, i \in DOMAIN invite :
            handler'[g].kind = "accept" /\ handler[g].kind = "accept" /\ handler[g].at = i
               /\ handler[g].email \notin met /\ P!Open(i) => P!Open(i)'
  PROVE  PortalInv'
<1>1. invite' \in Seq(InviteRow) /\ Len(invite') = Len(invite)
  <2>1. DOMAIN invite = 1..Len(invite) /\ Len(invite) \in Nat
    BY InviteRows
  <2>2. invite' \in [1..Len(invite) -> InviteRow]
    BY <2>1
  <2>3. invite' \in Seq(InviteRow)
    BY <2>1, <2>2, SeqDef
  <2> QED
    BY <2>1, <2>2, <2>3, LenProperties
<1>2. PortalType'
  BY <1>1 DEF PortalInv, PortalType, Fewer
<1>3. HandlerInv' /\ AloneWith' /\ FactorInv'
  BY FewerHandlers, FewerAlone, FewerFactors
<1>4. OpenInv'
  BY FewerOpen
<1>5. AcceptInv'
  BY AcceptStays
<1>6. UserInv' /\ GrantInv'
  BY DEF PortalInv, UserInv, Used, GrantInv
<1> QED
  BY <1>2, <1>3, <1>4, <1>5, <1>6 DEF PortalInv

\* Two requests about one address, one of which accepts an invitation, have met.
LEMMA AcceptsAlone ==
  ASSUME PortalInv, NEW h \in Handlers, Busy(h), NEW g \in Handlers, g # h, handler[g].kind = "accept",
         handler[g].email \notin met
  PROVE  handler[g].email # handler[h].email
<1>1. /\ Busy(g) /\ handler[g].email \in Emails
      /\ \A e \in Emails \ met : About(g, e) /\ About(h, e) => g = h
  BY DEF PortalInv, AloneWith, HandlerInv, Busy
<1> QED
  BY <1>1 DEF About

LEMMA InviteRevokesKeeps ==
  ASSUME PortalInv, NEW h \in Handlers, P!InviteRevokes(h)
  PROVE  PortalInv'
<1>1. /\ handler[h].kind = "invite" /\ P!Goes(h, "revoked")
      /\ invite' = [i \in DOMAIN invite |-> IF i \in P!OpenFor(handler[h].email)
                                              THEN [invite[i] EXCEPT !.revoked = TRUE] ELSE invite[i]]
      /\ UNCHANGED <<user, proven, challenge, granted, secrets, met>>
  BY DEF P!InviteRevokes, P!In
<1>2. /\ Fewer /\ handler'[h].kind = "revoked" /\ handler'[h].email = handler[h].email
      /\ \A g \in Handlers \ {h} : handler'[g] = handler[g]
  BY <1>1, WentOn
<1>3. /\ DOMAIN invite' = DOMAIN invite
      /\ \A i \in DOMAIN invite : invite'[i] = IF i \in P!OpenFor(handler[h].email)
                                              THEN [invite[i] EXCEPT !.revoked = TRUE] ELSE invite[i]
  BY <1>1
<1>4. \A i \in DOMAIN invite :
        /\ invite'[i] \in InviteRow
        /\ invite'[i].email = invite[i].email /\ invite'[i].accepted = invite[i].accepted
        /\ (invite[i].revoked => invite'[i].revoked)
        /\ i \in P!OpenFor(handler[h].email) => invite'[i].revoked
        /\ i \notin P!OpenFor(handler[h].email) => invite'[i] = invite[i]
  BY <1>3, InviteRows DEF InviteRow
<1>5. \A i \in DOMAIN invite : (P!Open(i)' => P!Open(i)) /\ (invite[i].email = handler[h].email => ~P!Open(i)')
  BY <1>4 DEF P!Open, P!OpenFor
<1>6. ASSUME NEW g \in Handlers, NEW i \in DOMAIN invite, handler'[g].kind = "accept", handler[g].kind = "accept",
             handler[g].at = i, handler[g].email \notin met, P!Open(i)
      PROVE  P!Open(i)'
  <2>1. invite[i].email = handler[g].email /\ handler[g].email # handler[h].email
    BY <1>1, <1>2, <1>6, AcceptsAlone DEF PortalInv, HandlerInv, Closing, Busy
  <2>2. invite'[i] = invite[i]
    BY <1>4, <2>1 DEF P!OpenFor
  <2> QED
    BY <1>6, <2>2 DEF P!Open
<1>7. \A g \in Handlers : handler'[g].kind = "revoked" /\ handler[g].kind # "revoked" => g = h
  BY <1>2
<1>8. invite' = [i \in DOMAIN invite |-> invite'[i]]
  BY <1>1
<1> QED
  BY <1>1, <1>2, <1>3, <1>4, <1>5, <1>6, <1>7, <1>8, InvitesClose

LEMMA InviteExpiresKeeps ==
  ASSUME PortalInv, NEW k \in DOMAIN invite, P!InviteExpires(k)
  PROVE  PortalInv'
<1>1. /\ invite' = [invite EXCEPT ![k].expired = TRUE]
      /\ UNCHANGED <<user, proven, challenge, handler, granted, secrets, met>>
  BY DEF P!InviteExpires
<1>2. /\ DOMAIN invite' = DOMAIN invite /\ invite' = [i \in DOMAIN invite |-> invite'[i]]
      /\ \A i \in DOMAIN invite : invite'[i] = IF i = k THEN [invite[i] EXCEPT !.expired = TRUE] ELSE invite[i]
  BY <1>1, InviteRows
<1>3. \A i \in DOMAIN invite :
        /\ invite'[i] \in InviteRow
        /\ invite'[i].email = invite[i].email /\ invite'[i].accepted = invite[i].accepted
        /\ invite'[i].revoked = invite[i].revoked
  BY <1>2, InviteRows DEF InviteRow
<1>4. \A i \in DOMAIN invite : P!Open(i)' <=> P!Open(i)
  BY <1>3 DEF P!Open
<1>5. Fewer
  BY <1>1, Waits
<1> QED
  BY <1>1, <1>2, <1>3, <1>4, <1>5, InvitesClose

LEMMA RevokeWritesKeeps ==
  ASSUME PortalInv, NEW h \in Handlers, P!RevokeWrites(h)
  PROVE  PortalInv'
<1>1. PICK k : k = handler[h].at
  OBVIOUS
<1>2. /\ handler[h].kind = "revoke" /\ P!Ends(h) /\ invite' = [invite EXCEPT ![k].revoked = TRUE]
      /\ UNCHANGED <<user, proven, challenge, granted, secrets, met>>
  BY <1>1 DEF P!RevokeWrites, P!In
<1>3. Fewer /\ handler'[h] = P!Idle /\ \A g \in Handlers \ {h} : handler'[g] = handler[g]
  BY <1>2, Ended
<1>4. k \in DOMAIN invite /\ invite[k].email = handler[h].email
  BY <1>1, <1>2 DEF PortalInv, HandlerInv, Closing
<1>5. /\ DOMAIN invite' = DOMAIN invite /\ invite' = [i \in DOMAIN invite |-> invite'[i]]
      /\ \A i \in DOMAIN invite : invite'[i] = IF i = k THEN [invite[i] EXCEPT !.revoked = TRUE] ELSE invite[i]
  BY <1>2, <1>4, InviteRows
<1>6. \A i \in DOMAIN invite :
        /\ invite'[i] \in InviteRow
        /\ invite'[i].email = invite[i].email /\ invite'[i].accepted = invite[i].accepted
        /\ (invite[i].revoked => invite'[i].revoked)
  BY <1>5, InviteRows DEF InviteRow
<1>7. \A i \in DOMAIN invite : P!Open(i)' => P!Open(i)
  BY <1>6 DEF P!Open
<1>8. ASSUME NEW g \in Handlers, NEW i \in DOMAIN invite, handler'[g].kind = "accept", handler[g].kind = "accept",
             handler[g].at = i, handler[g].email \notin met, P!Open(i)
      PROVE  P!Open(i)'
  <2>1. invite[i].email = handler[g].email /\ handler[g].email # handler[h].email
    BY <1>2, <1>8, AcceptsAlone DEF PortalInv, HandlerInv, Closing, Busy
  <2>2. invite'[i] = invite[i]
    BY <1>4, <1>5, <2>1
  <2> QED
    BY <1>8, <2>2 DEF P!Open
<1>9. \A g \in Handlers : handler'[g].kind = "revoked" => handler[g].kind = "revoked"
  BY <1>3, IdleIs
<1> QED
  BY <1>2, <1>3, <1>5, <1>6, <1>7, <1>8, <1>9, InvitesClose

\* The older invitations are closed, so the new one is the only one.
LEMMA InviteCreatesKeeps ==
  ASSUME PortalInv, NEW h \in Handlers, P!InviteCreates(h)
  PROVE  PortalInv'
<1>1. PICK e : e = handler[h].email
  OBVIOUS
<1>2. /\ handler[h].kind = "revoked" /\ P!Ends(h) /\ Len(invite) < MaxInvites
      /\ invite' = Append(invite, [email |-> e, accepted |-> FALSE, revoked |-> FALSE, expired |-> FALSE])
      /\ UNCHANGED <<user, proven, challenge, granted, secrets, met>>
  BY <1>1 DEF P!InviteCreates, P!In
<1>3. Fewer /\ handler'[h] = P!Idle /\ \A g \in Handlers \ {h} : handler'[g] = handler[g]
  BY <1>2, Ended
<1>4. Busy(h) /\ e \in Emails
  BY <1>1, <1>2 DEF PortalInv, HandlerInv, Busy
<1>5. PICK new \in InviteRow : new = [email |-> e, accepted |-> FALSE, revoked |-> FALSE, expired |-> FALSE]
  <2>1. [email |-> e, accepted |-> FALSE, revoked |-> FALSE, expired |-> FALSE] \in InviteRow
    BY <1>4 DEF InviteRow
  <2> QED
    BY <2>1
<1>6. PICK n \in Nat : n = Len(invite) + 1
  BY InviteRows
<1>7. /\ invite' \in Seq(InviteRow) /\ Len(invite') = n /\ DOMAIN invite' = DOMAIN invite \cup {n} /\ n \notin DOMAIN invite
      /\ invite'[n] = new /\ \A i \in DOMAIN invite : invite'[i] = invite[i]
  <2>1. invite' = Append(invite, new)
    BY <1>2, <1>5
  <2> QED
    BY <1>6, <2>1, InviteRows, Added
<1>8. PortalType'
  <2>1. n <= MaxInvites
    BY <1>2, <1>6, InviteRows, PortalAssumption
  <2> QED
    BY <1>2, <1>3, <1>7, <2>1 DEF PortalInv, PortalType, Fewer
<1>9. HandlerInv' /\ AloneWith' /\ FactorInv'
  BY <1>2, <1>3, <1>7, FewerHandlers, FewerAlone, FewerFactors
<1>10. \A x : P!OpenFor(x)' = IF x = e THEN P!OpenFor(x) \cup {n} ELSE P!OpenFor(x)
  <2>1. /\ invite'[n].email = e /\ P!Open(n)'
        /\ \A i \in DOMAIN invite : (P!Open(i)' <=> P!Open(i)) /\ invite'[i].email = invite[i].email
    BY <1>5, <1>7 DEF P!Open
  <2> QED
    BY <1>7, <2>1 DEF P!OpenFor
<1>11. e \notin met => P!OpenFor(e) = {} /\ \A g \in Handlers : About(g, e) => g = h
  BY <1>1, <1>2, <1>4 DEF PortalInv, OpenInv, AloneWith, About
<1>12. OpenInv'
  <2>1. OpenInv!1'
    <3> SUFFICES ASSUME NEW x \in Emails \ met, NEW i \in P!OpenFor(x)', NEW j \in P!OpenFor(x)' PROVE i = j
      BY <1>2
    <3>1. P!OpenFor(x)' = IF x = e THEN P!OpenFor(x) \cup {n} ELSE P!OpenFor(x)
      BY <1>10
    <3> QED
      BY <1>11, <3>1 DEF PortalInv, OpenInv
  <2>2. ASSUME NEW g \in Handlers, Busy(g)', handler'[g].email \notin met, NEW x, x = handler'[g].email,
               NEW i, i = handler'[g].at
        PROVE  /\ handler'[g].kind = "revoked" => P!OpenFor(x)' = {}
               /\ handler'[g].kind = "accept" => P!Open(i)'
    <3>1. g # h /\ handler'[g] = handler[g] /\ Busy(g)
      BY <1>3, <2>2, IdleIs DEF Busy
    <3>2. handler[g].kind = "revoked" => P!OpenFor(x) = {} /\ x # e
      BY <1>11, <2>2, <3>1 DEF PortalInv, OpenInv, About
    <3>3. handler[g].kind = "accept" => i \in DOMAIN invite /\ P!Open(i)
      BY <2>2, <3>1 DEF PortalInv, OpenInv, HandlerInv, Closing
    <3> QED
      BY <1>7, <1>10, <3>1, <3>2, <3>3 DEF P!Open
  <2>3. ASSUME NEW g \in Handlers, Busy(g)', handler'[g].email \notin met'
        PROVE  /\ handler'[g].kind = "revoked" => P!OpenFor(handler[g].email)' = {}
               /\ handler'[g].kind = "accept" => P!Open(handler[g].at)'
    <3>1. PICK x, i : x = handler'[g].email /\ i = handler'[g].at
      OBVIOUS
    <3>2. /\ handler'[g].kind = "revoked" => P!OpenFor(x)' = {}
          /\ handler'[g].kind = "accept" => P!Open(i)'
      BY <1>2, <2>2, <2>3, <3>1
    <3> QED
      BY <3>1, <3>2, Zenon
  <2>4. OpenInv!2'
    BY <2>3
  <2> QED
    BY <2>1, <2>4 DEF OpenInv
<1>13. AcceptInv'
  <2>1. ~invite'[n].accepted
    BY <1>5, <1>7
  <2>2. /\ \A i \in DOMAIN invite : invite'[i].email = invite[i].email /\ invite'[i].accepted = invite[i].accepted
        /\ \A i \in DOMAIN invite' : i \notin DOMAIN invite => ~invite'[i].accepted
        /\ DOMAIN invite \subseteq DOMAIN invite'
    BY <1>7, <2>1
  <2>3. \A x \in Emails : user'[x].exists = user[x].exists
    BY <1>2
  <2> QED
    BY <2>2, <2>3, AcceptStays
<1>14. UserInv' /\ GrantInv'
  BY <1>2 DEF PortalInv, UserInv, Used, GrantInv
<1> QED
  BY <1>8, <1>9, <1>12, <1>13, <1>14 DEF PortalInv

LEMMA GrantRows ==
  ASSUME PortalInv
  PROVE  /\ granted \in Seq(GrantRow) /\ DOMAIN granted = 1..Len(granted) /\ Len(granted) \in Nat
         /\ \A m \in DOMAIN granted : granted[m] \in GrantRow
<1>1. granted \in Seq(GrantRow)
  BY DEF PortalInv, PortalType
<1> QED
  BY <1>1, ElementOfSeq, LenProperties

\* A session is opened, by a challenge that is used up with it, or by none.
LEMMA Granted ==
  ASSUME PortalInv, NEW x \in GrantRow, granted' = Append(granted, x), Used \subseteq Used',
         x.at # 0 => x.at \in Used' /\ x.at \notin Used
  PROVE  granted' \in Seq(GrantRow) /\ GrantInv'
<1>1. PICK n \in Nat : n = Len(granted) + 1
  BY GrantRows
<1>2. /\ granted' \in Seq(GrantRow) /\ DOMAIN granted' = DOMAIN granted \cup {n} /\ n \notin DOMAIN granted
      /\ granted'[n] = x /\ \A m \in DOMAIN granted : granted'[m] = granted[m]
  BY <1>1, GrantRows, Added
<1>3. \A m \in DOMAIN granted : granted[m].at # 0 => granted[m].at \in Used
  BY DEF PortalInv, GrantInv
<1>4. \A m, k \in DOMAIN granted : granted[m].at # 0 /\ granted[m].at = granted[k].at => m = k
  BY DEF PortalInv, GrantInv
<1>5. GrantInv!1'
  BY <1>2, <1>3
<1>6. GrantInv!2'
  BY <1>2, <1>3, <1>4
<1> QED
  BY <1>2, <1>5, <1>6 DEF GrantInv

\* The password is hashed: the user is made of an invitation that made nobody before.
LEMMA AcceptCommitsKeeps ==
  ASSUME PortalInv, NEW h \in Handlers, P!AcceptCommits(h)
  PROVE  PortalInv'
<1>1. PICK e, k : e = handler[h].email /\ k = handler[h].at
  OBVIOUS
<1>2. /\ handler[h].kind = "accept" /\ P!Ends(h)
      /\ IF user[e].exists THEN UNCHANGED <<user, invite, granted>>
         ELSE /\ user' = [user EXCEPT ![e].exists = TRUE]
              /\ granted' = Append(granted, [email |-> e, by |-> "invite", at |-> 0])
              /\ invite' = [invite EXCEPT ![k].accepted = TRUE]
      /\ UNCHANGED <<proven, challenge, secrets, met>>
  BY <1>1 DEF P!AcceptCommits, P!In, P!AcceptOpens
<1>3. Fewer /\ handler'[h] = P!Idle /\ \A g \in Handlers \ {h} : handler'[g] = handler[g]
  BY <1>2, Ended
<1>4. Busy(h) /\ e \in Emails /\ k \in DOMAIN invite /\ invite[k].email = e
  BY <1>1, <1>2 DEF PortalInv, HandlerInv, Busy, Closing
<1>5. CASE user[e].exists
  <2>1. UNCHANGED <<user, proven, invite, challenge, granted, secrets, met>>
    BY <1>2, <1>5
  <2>2. \A g \in Handlers : handler'[g].kind = "revoked" => handler[g].kind = "revoked"
    BY <1>3, IdleIs
  <2>3. \A i \in DOMAIN invite : P!Open(i)' <=> P!Open(i)
    BY <2>1 DEF P!Open
  <2>4. invite' = [i \in DOMAIN invite |-> invite'[i]]
    BY <2>1, InviteRows
  <2> QED
    BY <1>3, <2>1, <2>2, <2>3, <2>4, InvitesClose, InviteRows
<1>6. CASE ~user[e].exists
  <2>1. /\ user' = [user EXCEPT ![e].exists = TRUE] /\ invite' = [invite EXCEPT ![k].accepted = TRUE]
        /\ granted' = Append(granted, [email |-> e, by |-> "invite", at |-> 0])
    BY <1>2, <1>6
  <2>2. user \in [Emails -> UserRow]
    BY DEF PortalInv, PortalType
  <2>3. \A x \in Emails : /\ user'[x] \in UserRow
                          /\ user'[x].exists = IF x = e THEN TRUE ELSE user[x].exists
                          /\ user'[x].secret = user[x].secret /\ user'[x].enrolled = user[x].enrolled
                          /\ user'[x].passkeys = user[x].passkeys
                          /\ x # e => user'[x] = user[x]
    BY <1>4, <2>1, <2>2 DEF UserRow
  <2>4. user' \in [Emails -> UserRow]
    BY <2>1, <2>2, <2>3
  <2>5. PICK mark \in InviteRow : /\ mark = [invite[k] EXCEPT !.accepted = TRUE]
                                  /\ mark.email = e /\ mark.accepted = TRUE /\ mark.revoked = invite[k].revoked
    <3>1. invite[k] \in InviteRow
      BY <1>4, InviteRows
    <3>2. [invite[k] EXCEPT !.accepted = TRUE] \in InviteRow
      BY <3>1 DEF InviteRow
    <3> QED
      BY <1>4, <3>1, <3>2 DEF InviteRow
  <2>6. /\ invite' \in Seq(InviteRow) /\ Len(invite') = Len(invite) /\ DOMAIN invite' = DOMAIN invite
        /\ invite'[k] = mark /\ \A i \in DOMAIN invite \ {k} : invite'[i] = invite[i]
    BY <1>4, <2>1, <2>5, InviteRows, Put
  <2>7. PICK grant \in GrantRow : grant = [email |-> e, by |-> "invite", at |-> 0] /\ grant.at = 0
    <3>1. [email |-> e, by |-> "invite", at |-> 0] \in GrantRow
      BY <1>4 DEF GrantRow
    <3> QED
      BY <3>1
  <2>8. granted' \in Seq(GrantRow) /\ GrantInv'
    BY <1>2, <2>1, <2>7, Granted DEF Used
  <2>9. PortalType'
    BY <1>2, <1>3, <2>4, <2>6, <2>8 DEF PortalInv, PortalType, Fewer
  <2>10. HandlerInv' /\ AloneWith' /\ FactorInv'
    BY <1>2, <1>3, <1>4, <2>3, <2>5, <2>6, FewerHandlers, FewerAlone, FewerFactors
  <2>11. OpenInv'
    <3>1. \A i \in DOMAIN invite : (P!Open(i)' => P!Open(i)) /\ (i # k => (P!Open(i)' <=> P!Open(i)))
      BY <2>5, <2>6 DEF P!Open
    <3>2. \A g \in Handlers : handler'[g].kind = "revoked" => handler[g].kind = "revoked"
      BY <1>3, IdleIs
    <3>3. ASSUME NEW g \in Handlers, NEW i \in DOMAIN invite, handler'[g].kind = "accept", handler[g].kind = "accept",
                 handler[g].at = i, handler[g].email \notin met
          PROVE  i # k
      <4>1. g # h
        BY <1>3, <3>3, IdleIs
      <4>2. invite[i].email = handler[g].email /\ handler[g].email # e
        BY <1>1, <1>4, <3>3, <4>1, AcceptsAlone DEF PortalInv, HandlerInv, Closing
      <4> QED
        BY <1>4, <4>2
    <3> QED
      BY <1>3, <1>4, <2>5, <2>6, <3>1, <3>2, <3>3, FewerOpen
  <2>12. AcceptInv'
    <3>1. \A x : AcceptedFor(x)' = IF x = e THEN AcceptedFor(x) \cup {k} ELSE AcceptedFor(x)
      <4> SUFFICES ASSUME NEW x
                   PROVE  AcceptedFor(x)' = IF x = e THEN AcceptedFor(x) \cup {k} ELSE AcceptedFor(x)
        OBVIOUS
      <4>1. \A i \in DOMAIN invite : /\ invite'[i].email = invite[i].email
                                     /\ i # k => invite'[i].accepted = invite[i].accepted
        BY <1>4, <2>5, <2>6
      <4>2. invite'[k].accepted = TRUE /\ invite'[k].email = e
        BY <2>5, <2>6
      <4> QED
        BY <1>4, <2>6, <4>1, <4>2 DEF AcceptedFor
    <3> QED
      BY <1>4, <1>6, <2>3, <2>6, <3>1 DEF PortalInv, AcceptInv
  <2>13. UserInv'
    <3>1. /\ UserInv!1 /\ UserInv!2
      BY DEF PortalInv, UserInv
    <3>2. Used' = Used /\ \A c \in DOMAIN challenge : challenge[c].email \in Emails
      BY <1>2, ChallengeRows DEF Used, ChallengeRow
    <3> QED
      BY <1>2, <2>3, <3>1, <3>2 DEF UserInv
  <2> QED
    BY <2>8, <2>9, <2>10, <2>11, <2>12, <2>13 DEF PortalInv
<1> QED
  BY <1>5, <1>6

\* Whatever is not about invitations.
LEMMA InvitesAside ==
  ASSUME PortalInv, Fewer, UNCHANGED invite,
         \A g \in Handlers : handler'[g].kind = "revoked" => handler[g].kind = "revoked",
         \A e \in Emails : user'[e].exists = user[e].exists, DOMAIN challenge \subseteq DOMAIN challenge',
         PortalType', UserInv', FactorInv', GrantInv'
  PROVE  PortalInv'
<1>1. HandlerInv' /\ AloneWith'
  BY FewerHandlers, FewerAlone
<1>2. \A i \in DOMAIN invite : P!Open(i)' <=> P!Open(i)
  BY DEF P!Open
<1>3. OpenInv' /\ AcceptInv'
  BY <1>2, FewerOpen, AcceptStays
<1> QED
  BY <1>1, <1>3 DEF PortalInv

\* The users that a step may change.
LEMMA UserRows == ASSUME PortalInv PROVE user \in [Emails -> UserRow] /\ proven \in [Emails -> Nat]
BY DEF PortalInv, PortalType

LEMMA UsedCount ==
  ASSUME PortalInv
  PROVE  IsFiniteSet(Used) /\ Cardinality(Used) \in Nat /\ Cardinality(Used) <= Len(challenge)
<1>1. DOMAIN challenge = 1..Len(challenge) /\ Len(challenge) \in Nat
  BY ChallengeRows
<1>2. IsFiniteSet(1..Len(challenge)) /\ Cardinality(1..Len(challenge)) = Len(challenge)
  <2>1. \A n \in Nat : IsFiniteSet(1..n) /\ Cardinality(1..n) = n
    BY FS_Interval
  <2> QED
    BY <1>1, <2>1
<1>3. Used \subseteq 1..Len(challenge)
  BY <1>1 DEF Used
<1>4. IsFiniteSet(Used) /\ Cardinality(Used) <= Cardinality(1..Len(challenge))
  BY <1>2, <1>3, FS_Subset
<1> QED
  BY <1>2, <1>4, FS_CardinalityType

\* A challenge is used up, or expires.
LEMMA UsedUp ==
  ASSUME PortalInv, NEW c \in DOMAIN challenge, challenge[c].live,
         challenge' = [challenge EXCEPT ![c].live = FALSE]
  PROVE  /\ challenge' \in Seq(ChallengeRow) /\ Len(challenge') = Len(challenge)
         /\ DOMAIN challenge' = DOMAIN challenge
         /\ \A d \in DOMAIN challenge : challenge'[d].email = challenge[d].email
         /\ c \notin Used /\ Used' = Used \cup {c} /\ Cardinality(Used') = Cardinality(Used) + 1
<1>1. PICK x \in ChallengeRow : /\ x = [challenge[c] EXCEPT !.live = FALSE]
                                /\ x.email = challenge[c].email /\ x.live = FALSE
  <2>1. challenge[c] \in ChallengeRow
    BY ChallengeRows
  <2>2. [challenge[c] EXCEPT !.live = FALSE] \in ChallengeRow
    BY <2>1 DEF ChallengeRow
  <2> QED
    BY <2>1, <2>2 DEF ChallengeRow
<1>2. challenge' = [challenge EXCEPT ![c] = x]
  BY <1>1
<1>3. /\ challenge' \in Seq(ChallengeRow) /\ Len(challenge') = Len(challenge)
      /\ DOMAIN challenge' = DOMAIN challenge
      /\ challenge'[c] = x /\ \A d \in DOMAIN challenge \ {c} : challenge'[d] = challenge[d]
  <2>1. challenge \in Seq(ChallengeRow)
    BY ChallengeRows
  <2> DEFINE new == [challenge EXCEPT ![c] = x]
  <2>2. /\ new \in Seq(ChallengeRow) /\ Len(new) = Len(challenge) /\ DOMAIN new = DOMAIN challenge
        /\ new[c] = x /\ \A d \in DOMAIN challenge \ {c} : new[d] = challenge[d]
    BY <2>1, Put
  <2> HIDE DEF new
  <2>3. challenge' = new
    BY <1>2 DEF new
  <2> QED
    BY <2>2, <2>3
<1>4. c \notin Used /\ Used' = Used \cup {c}
  BY <1>1, <1>3 DEF Used
<1>5. Cardinality(Used \cup {c}) = Cardinality(Used) + 1
  BY <1>4, UsedCount, FS_AddElement
<1> QED
  BY <1>1, <1>3, <1>4, <1>5

\* A request about one user ends: of another nobody's factors change.
LEMMA FactorsOfOne ==
  ASSUME PortalInv, NEW h \in Handlers, Busy(h), NEW e \in Emails, handler[h].email = e,
         handler'[h] = P!Idle, \A g \in Handlers \ {h} : handler'[g] = handler[g], UNCHANGED <<met, proven>>,
         \A x \in Emails \ {e} : user'[x] = user[x],
         e \notin met => (user'[e].enrolled => user'[e].secret # 0 /\ user'[e].secret = proven[e])
  PROVE  FactorInv'
<1>1. FactorInv!1'
  BY DEF PortalInv, FactorInv
<1>2. ASSUME NEW g \in Handlers, Busy(g)', handler'[g].email \notin met
      PROVE  /\ handler'[g] = handler[g] /\ Busy(g) /\ handler[g].email \in Emails
             /\ user'[handler[g].email] = user[handler[g].email]
  <2>1. g # h /\ handler'[g] = handler[g] /\ Busy(g)
    BY <1>2, IdleIs DEF Busy
  <2>2. handler[g].email \in Emails
    BY <2>1 DEF PortalInv, HandlerInv, Busy
  <2>3. handler[g].email # e
    BY <1>2, <2>1, <2>2 DEF PortalInv, AloneWith, About
  <2> QED
    BY <2>1, <2>2, <2>3
<1>3. ASSUME NEW g \in Handlers PROVE FactorInv!2!(g)'
  <2>1. FactorInv!2!(g)
    BY DEF PortalInv, FactorInv
  <2> QED
    BY <1>2, <2>1
<1> QED
  BY <1>1, <1>3 DEF FactorInv

LEMMA DisableKeeps ==
  ASSUME PortalInv, NEW e \in Emails, P!Disable(e)
  PROVE  PortalInv'
<1>1. /\ user[e].exists /\ user' = [user EXCEPT ![e].disabled = TRUE]
      /\ UNCHANGED <<proven, invite, challenge, handler, granted, secrets, met>>
  BY DEF P!Disable
<1>2. /\ user' \in [Emails -> UserRow]
      /\ \A x \in Emails : /\ user'[x].exists = user[x].exists /\ user'[x].secret = user[x].secret
                           /\ user'[x].enrolled = user[x].enrolled /\ user'[x].passkeys = user[x].passkeys
                           /\ ~user[x].exists => user'[x] = user[x]
  BY <1>1, UserRows DEF UserRow
<1>3. Fewer
  BY <1>1, Waits
<1>4. PortalType' /\ FactorInv'
  BY <1>1, <1>2, <1>3, FewerFactors DEF PortalInv, PortalType
<1>5. UserInv'
  <2>1. Used' = Used /\ \A c \in DOMAIN challenge : challenge[c].email \in Emails
    BY <1>1, ChallengeRows DEF Used, ChallengeRow
  <2> QED
    BY <1>1, <1>2, <2>1 DEF PortalInv, UserInv
<1>6. GrantInv'
  BY <1>1 DEF PortalInv, GrantInv, Used
<1> QED
  BY <1>1, <1>2, <1>3, <1>4, <1>5, <1>6, InvitesAside

\* A secret takes the place of one that was not confirmed.
LEMMA MfaStoresKeeps ==
  ASSUME PortalInv, NEW h \in Handlers, P!MfaStores(h)
  PROVE  PortalInv'
<1>1. PICK e : e = handler[h].email
  OBVIOUS
<1>2. /\ handler[h].kind = "mfa" /\ P!Ends(h) /\ secrets < MaxSecrets /\ secrets' = secrets + 1
      /\ user' = [user EXCEPT ![e].secret = secrets + 1]
      /\ UNCHANGED <<proven, invite, challenge, granted, met>>
  BY <1>1 DEF P!MfaStores, P!In
<1>3. Fewer /\ handler'[h] = P!Idle /\ \A g \in Handlers \ {h} : handler'[g] = handler[g]
  BY <1>2, Ended
<1>4. Busy(h) /\ e \in Emails /\ user[e].exists /\ (e \notin met => ~user[e].enrolled)
  BY <1>1, <1>2 DEF PortalInv, HandlerInv, FactorInv, Busy, Asking
<1>5. secrets \in Nat /\ secrets + 1 \in 0..MaxSecrets
  BY <1>2, PortalAssumption DEF PortalInv, PortalType
<1>6. /\ user' \in [Emails -> UserRow]
      /\ \A x \in Emails \ {e} : user'[x] = user[x]
      /\ user'[e].secret = secrets + 1 /\ user'[e].exists = user[e].exists
      /\ user'[e].enrolled = user[e].enrolled /\ user'[e].passkeys = user[e].passkeys
  <2>1. PICK row \in UserRow : /\ row = [user[e] EXCEPT !.secret = secrets + 1]
                               /\ row.secret = secrets + 1 /\ row.exists = user[e].exists
                               /\ row.enrolled = user[e].enrolled /\ row.passkeys = user[e].passkeys
    <3>1. user[e] \in UserRow
      BY <1>4, UserRows
    <3>2. [user[e] EXCEPT !.secret = secrets + 1] \in UserRow
      BY <1>5, <3>1 DEF UserRow
    <3> QED
      BY <3>1, <3>2 DEF UserRow
  <2>2. user' = [user EXCEPT ![e] = row]
    BY <1>2, <2>1
  <2> QED
    BY <1>4, <2>1, <2>2, UserRows
<1>7. PortalType'
  BY <1>2, <1>3, <1>5, <1>6 DEF PortalInv, PortalType, Fewer
<1>8. FactorInv'
  BY <1>1, <1>2, <1>3, <1>4, <1>6, FactorsOfOne
<1>9. UserInv'
  <2>1. Used' = Used /\ \A c \in DOMAIN challenge : challenge[c].email \in Emails
    BY <1>2, ChallengeRows DEF Used, ChallengeRow
  <2>2. \A x \in Emails : user'[x].secret <= secrets + 1
    BY <1>5, <1>6, UserRows DEF PortalInv, UserInv, UserRow
  <2> QED
    BY <1>2, <1>4, <1>6, <2>1, <2>2 DEF PortalInv, UserInv
<1>10. GrantInv'
  BY <1>2 DEF PortalInv, GrantInv, Used
<1>11. \A g \in Handlers : handler'[g].kind = "revoked" => handler[g].kind = "revoked"
  BY <1>3, IdleIs
<1> QED
  BY <1>2, <1>3, <1>6, <1>7, <1>8, <1>9, <1>10, <1>11, InvitesAside

LEMMA ConfirmWritesKeeps ==
  ASSUME PortalInv, NEW h \in Handlers, P!ConfirmWrites(h)
  PROVE  PortalInv'
<1>1. PICK e : e = handler[h].email
  OBVIOUS
<1>2. /\ handler[h].kind = "confirm" /\ P!Ends(h) /\ user' = [user EXCEPT ![e].enrolled = TRUE]
      /\ UNCHANGED <<proven, invite, challenge, granted, secrets, met>>
  BY <1>1 DEF P!ConfirmWrites, P!In
<1>3. Fewer /\ handler'[h] = P!Idle /\ \A g \in Handlers \ {h} : handler'[g] = handler[g]
  BY <1>2, Ended
<1>4. /\ Busy(h) /\ e \in Emails /\ user[e].exists
      /\ e \notin met => user[e].secret # 0 /\ user[e].secret = proven[e]
  BY <1>1, <1>2 DEF PortalInv, HandlerInv, FactorInv, Busy, Asking
<1>5. /\ user' \in [Emails -> UserRow]
      /\ \A x \in Emails \ {e} : user'[x] = user[x]
      /\ user'[e].secret = user[e].secret /\ user'[e].exists = user[e].exists /\ user'[e].passkeys = user[e].passkeys
  BY <1>2, <1>4, UserRows DEF UserRow
<1>6. PortalType'
  BY <1>2, <1>3, <1>5 DEF PortalInv, PortalType, Fewer
<1>7. FactorInv'
  BY <1>1, <1>2, <1>3, <1>4, <1>5, FactorsOfOne
<1>8. UserInv'
  <2>1. Used' = Used /\ \A c \in DOMAIN challenge : challenge[c].email \in Emails
    BY <1>2, ChallengeRows DEF Used, ChallengeRow
  <2> QED
    BY <1>2, <1>4, <1>5, <2>1 DEF PortalInv, UserInv
<1>9. GrantInv'
  BY <1>2 DEF PortalInv, GrantInv, Used
<1>10. \A g \in Handlers : handler'[g].kind = "revoked" => handler[g].kind = "revoked"
  BY <1>3, IdleIs
<1> QED
  BY <1>2, <1>3, <1>5, <1>6, <1>7, <1>8, <1>9, <1>10, InvitesAside

\* An administrator takes the factor away, from under whatever is under way.
LEMMA MfaDisableKeeps ==
  ASSUME PortalInv, NEW e \in Emails, P!MfaDisable(e)
  PROVE  PortalInv'
<1>1. /\ user[e].exists /\ user' = [user EXCEPT ![e].secret = 0, ![e].enrolled = FALSE]
      /\ proven' = [proven EXCEPT ![e] = 0]
      /\ met' = IF \E g \in Handlers : handler[g] # P!Idle /\ handler[g].email = e THEN met \cup {e} ELSE met
      /\ UNCHANGED <<invite, challenge, handler, granted, secrets>>
  BY DEF P!MfaDisable
<1>2. PICK row \in UserRow : /\ row = [user[e] EXCEPT !.secret = 0, !.enrolled = FALSE]
                             /\ row.secret = 0 /\ row.enrolled = FALSE /\ row.exists = user[e].exists
                             /\ row.passkeys = user[e].passkeys
  <2>1. user[e] \in UserRow
    BY UserRows
  <2>2. [user[e] EXCEPT !.secret = 0, !.enrolled = FALSE] \in UserRow
    BY <2>1 DEF UserRow
  <2> QED
    BY <2>1, <2>2 DEF UserRow
<1>3. user' = [user EXCEPT ![e] = row]
  BY <1>1, <1>2, UserRows
<1>4. user' \in [Emails -> UserRow] /\ user'[e] = row /\ \A x \in Emails \ {e} : user'[x] = user[x]
  BY <1>3, UserRows
<1>5. proven' \in [Emails -> Nat] /\ \A x \in Emails \ {e} : proven'[x] = proven[x]
  BY <1>1, UserRows
<1>6. met \subseteq met' /\ met' \subseteq Emails /\ \A g \in Handlers : About(g, e) => e \in met'
  <2>1. met \subseteq Emails
    BY DEF PortalInv, PortalType
  <2>2. \A g \in Handlers : Busy(g) <=> handler[g] # P!Idle
    BY BusyMeans
  <2> QED
    BY <1>1, <2>1, <2>2 DEF About
<1>7. Fewer
  BY <1>1, <1>6 DEF Fewer, PortalInv, PortalType
<1>8. PortalType'
  BY <1>1, <1>4, <1>5, <1>6 DEF PortalInv, PortalType
<1>9. FactorInv'
  <2>1. FactorInv!1'
    BY <1>2, <1>4, <1>5, <1>6 DEF PortalInv, FactorInv
  <2>2. ASSUME NEW g \in Handlers PROVE FactorInv!2!(g)'
    <3>1. FactorInv!2!(g)
      BY DEF PortalInv, FactorInv
    <3>2. Busy(g) => handler[g].email \in Emails /\ (handler[g].email = e => e \in met')
      BY <1>6 DEF PortalInv, HandlerInv, Busy, About
    <3>3. Busy(g)' = Busy(g)
      BY <1>1 DEF Busy
    <3> QED
      BY <1>1, <1>4, <1>5, <1>6, <3>1, <3>2, <3>3
  <2> QED
    BY <2>1, <2>2 DEF FactorInv
<1>10. UserInv'
  <2>1. Used' = Used /\ \A c \in DOMAIN challenge : challenge[c].email \in Emails
    BY <1>1, ChallengeRows DEF Used, ChallengeRow
  <2>2. 0 <= secrets
    BY DEF PortalInv, PortalType
  <2> QED
    BY <1>1, <1>2, <1>4, <2>1, <2>2 DEF PortalInv, UserInv
<1>11. GrantInv'
  BY <1>1 DEF PortalInv, GrantInv, Used
<1> QED
  BY <1>1, <1>2, <1>4, <1>7, <1>8, <1>9, <1>10, <1>11, InvitesAside

\* What the challenges and the sessions do leaves users and invitations alone.
LEMMA UsersAside ==
  ASSUME PortalInv, Fewer, UNCHANGED <<user, proven, invite, secrets>>,
         \A g \in Handlers : handler'[g].kind = "revoked" => handler[g].kind = "revoked",
         challenge' \in Seq(ChallengeRow), Len(challenge') <= MaxChallenges,
         DOMAIN challenge \subseteq DOMAIN challenge',
         \A c \in DOMAIN challenge' : user[challenge'[c].email].exists,
         Cardinality(Used') \in Nat, Cardinality(Used) <= Cardinality(Used'),
         granted' \in Seq(GrantRow), GrantInv'
  PROVE  PortalInv'
<1>1. PortalType'
  BY DEF PortalInv, PortalType, Fewer
<1>2. FactorInv'
  BY FewerFactors
<1>3. UserInv'
  <2>1. \A e \in Emails : user[e].passkeys <= Cardinality(Used) /\ user[e].passkeys \in Nat
    BY UserRows DEF PortalInv, UserInv, UserRow
  <2>2. \A e \in Emails : user[e].passkeys <= Cardinality(Used')
    BY <2>1, UsedCount
  <2> QED
    BY <2>2 DEF PortalInv, UserInv
<1> QED
  BY <1>1, <1>2, <1>3, InvitesAside

\* No challenge is used up and none is new.
LEMMA ChallengesAside ==
  ASSUME PortalInv, UNCHANGED challenge
  PROVE  /\ challenge' \in Seq(ChallengeRow) /\ Len(challenge') <= MaxChallenges
         /\ DOMAIN challenge \subseteq DOMAIN challenge' /\ Used' = Used
         /\ \A c \in DOMAIN challenge' : user[challenge'[c].email].exists
         /\ Cardinality(Used') \in Nat /\ Cardinality(Used) <= Cardinality(Used')
<1>1. Used' = Used
  BY DEF Used
<1> QED
  BY <1>1, UsedCount DEF PortalInv, PortalType, UserInv

LEMMA GrantsAside == ASSUME PortalInv, UNCHANGED granted, Used \subseteq Used' PROVE granted' \in Seq(GrantRow) /\ GrantInv'
BY GrantRows DEF PortalInv, GrantInv

LEMMA LoginDecidesKeeps ==
  ASSUME PortalInv, NEW h \in Handlers, P!LoginDecides(h)
  PROVE  PortalInv'
<1>1. PICK e : e = handler[h].email
  OBVIOUS
<1>2. /\ handler[h].kind = "login"
      /\ IF handler[h].second THEN P!Goes(h, "code") /\ UNCHANGED granted
         ELSE P!Ends(h) /\ IF user[e].passkeys > 0 THEN UNCHANGED granted ELSE P!Grant(e, "password", 0)
      /\ UNCHANGED <<user, proven, invite, challenge, secrets, met>>
  BY <1>1 DEF P!LoginDecides, P!In
<1>3. Fewer /\ \A g \in Handlers : handler'[g].kind = "revoked" => handler[g].kind = "revoked"
  <2>1. CASE handler[h].second
    BY <1>2, <2>1, WentOn
  <2>2. CASE ~handler[h].second
    BY <1>2, <2>2, Ended, IdleIs
  <2> QED
    BY <2>1, <2>2
<1>4. granted' \in Seq(GrantRow) /\ GrantInv'
  <2>1. CASE UNCHANGED granted
    BY <1>2, <2>1, ChallengesAside, GrantsAside
  <2>2. CASE P!Grant(e, "password", 0)
    <3>1. PICK x \in GrantRow : x = [email |-> e, by |-> "password", at |-> 0] /\ x.at = 0
      <4>1. e \in Emails
        BY <1>1, <1>2 DEF PortalInv, HandlerInv
      <4>2. [email |-> e, by |-> "password", at |-> 0] \in GrantRow
        BY <4>1 DEF GrantRow
      <4> QED
        BY <4>2
    <3>2. granted' = Append(granted, x)
      BY <2>2, <3>1 DEF P!Grant
    <3> QED
      BY <1>2, <3>1, <3>2, ChallengesAside, Granted
  <2> QED
    BY <1>2, <2>1, <2>2
<1> QED
  BY <1>2, <1>3, <1>4, ChallengesAside, UsersAside

LEMMA CodeCheckedKeeps ==
  ASSUME PortalInv, NEW h \in Handlers, P!CodeChecked(h)
  PROVE  PortalInv'
<1>1. PICK e : e = handler[h].email
  OBVIOUS
<1>2. /\ handler[h].kind = "code" /\ P!Ends(h)
      /\ UNCHANGED granted \/ P!Grant(e, "code", 0)
      /\ UNCHANGED <<user, proven, invite, challenge, secrets, met>>
  BY <1>1 DEF P!CodeChecked, P!In
<1>3. Fewer /\ \A g \in Handlers : handler'[g].kind = "revoked" => handler[g].kind = "revoked"
  BY <1>2, Ended, IdleIs
<1>4. granted' \in Seq(GrantRow) /\ GrantInv'
  <2>1. CASE UNCHANGED granted
    BY <1>2, <2>1, ChallengesAside, GrantsAside
  <2>2. CASE P!Grant(e, "code", 0)
    <3>1. PICK x \in GrantRow : x = [email |-> e, by |-> "code", at |-> 0] /\ x.at = 0
      <4>1. e \in Emails
        BY <1>1, <1>2 DEF PortalInv, HandlerInv
      <4>2. [email |-> e, by |-> "code", at |-> 0] \in GrantRow
        BY <4>1 DEF GrantRow
      <4> QED
        BY <4>2
    <3>2. granted' = Append(granted, x)
      BY <2>2, <3>1 DEF P!Grant
    <3> QED
      BY <1>2, <3>1, <3>2, ChallengesAside, Granted
  <2> QED
    BY <1>2, <2>1, <2>2
<1> QED
  BY <1>2, <1>3, <1>4, ChallengesAside, UsersAside

LEMMA ChallengeExpiresKeeps ==
  ASSUME PortalInv, NEW c \in DOMAIN challenge, P!ChallengeExpires(c)
  PROVE  PortalInv'
<1>1. /\ challenge[c].live /\ challenge' = [challenge EXCEPT ![c].live = FALSE]
      /\ UNCHANGED <<user, proven, invite, handler, granted, secrets, met>>
  BY DEF P!ChallengeExpires
<1>2. /\ challenge' \in Seq(ChallengeRow) /\ Len(challenge') = Len(challenge) /\ DOMAIN challenge' = DOMAIN challenge
      /\ \A d \in DOMAIN challenge : challenge'[d].email = challenge[d].email
      /\ Used' = Used \cup {c} /\ Cardinality(Used') = Cardinality(Used) + 1
  BY <1>1, UsedUp
<1>3. Fewer /\ granted' \in Seq(GrantRow) /\ GrantInv'
  BY <1>1, <1>2, Waits, GrantsAside
<1>4. Cardinality(Used') \in Nat /\ Cardinality(Used) <= Cardinality(Used')
  BY <1>2, UsedCount
<1>5. Len(challenge') <= MaxChallenges /\ \A d \in DOMAIN challenge' : user[challenge'[d].email].exists
  BY <1>2 DEF PortalInv, PortalType, UserInv
<1> QED
  BY <1>1, <1>2, <1>3, <1>4, <1>5, UsersAside

\* A challenge is made, for a user that is there.
LEMMA ChallengeMade ==
  ASSUME PortalInv, NEW e \in Emails, NEW kind \in Challenging, user[e].exists, Len(challenge) < MaxChallenges,
         challenge' = Append(challenge, [kind |-> kind, email |-> e, live |-> TRUE]),
         UNCHANGED <<user, proven, invite, handler, granted, secrets, met>>
  PROVE  PortalInv'
<1>1. PICK x \in ChallengeRow : x = [kind |-> kind, email |-> e, live |-> TRUE]
  <2>1. [kind |-> kind, email |-> e, live |-> TRUE] \in ChallengeRow
    BY DEF ChallengeRow
  <2> QED
    BY <2>1
<1>2. PICK n \in Nat : n = Len(challenge) + 1 /\ n <= MaxChallenges
  BY ChallengeRows, PortalAssumption
<1>3. /\ challenge' \in Seq(ChallengeRow) /\ Len(challenge') = n
      /\ DOMAIN challenge' = DOMAIN challenge \cup {n} /\ n \notin DOMAIN challenge
      /\ challenge'[n] = x /\ \A c \in DOMAIN challenge : challenge'[c] = challenge[c]
  <2>1. challenge' = Append(challenge, x)
    BY <1>1
  <2>2. challenge \in Seq(ChallengeRow)
    BY ChallengeRows
  <2> QED
    BY <1>2, <2>1, <2>2, Added
<1>4. Used' = Used
  BY <1>1, <1>3 DEF Used
<1>5. \A c \in DOMAIN challenge' : user[challenge'[c].email].exists
  BY <1>1, <1>3 DEF PortalInv, UserInv
<1>6. Fewer /\ granted' \in Seq(GrantRow) /\ GrantInv'
  BY <1>4, Waits, GrantsAside
<1> QED
  BY <1>2, <1>3, <1>4, <1>5, <1>6, UsedCount, UsersAside

LEMMA ChallengeMadeKeeps ==
  ASSUME PortalInv, NEW e \in Emails, P!RegisterBegins(e) \/ P!PasskeyLoginBegins(e)
  PROVE  PortalInv'
<1>1. "register" \in Challenging /\ "authenticate" \in Challenging
  BY DEF Challenging
<1>2. CASE P!RegisterBegins(e)
  BY <1>1, <1>2, ChallengeMade DEF P!RegisterBegins
<1>3. CASE P!PasskeyLoginBegins(e)
  BY <1>1, <1>3, ChallengeMade DEF P!PasskeyLoginBegins, P!Authenticates
<1> QED
  BY <1>2, <1>3

\* The challenge that opens the session is used up with it.
LEMMA AuthenticatedKeeps ==
  ASSUME PortalInv, NEW h \in Handlers, P!Authenticated(h)
  PROVE  PortalInv'
<1>1. PICK e, c : e = handler[h].email /\ c = handler[h].at
  OBVIOUS
<1>2. /\ handler[h].kind = "authenticate" /\ P!Ends(h)
      /\ \/ /\ challenge[c].live /\ P!Grant(e, "passkey", c)
            /\ challenge' = [challenge EXCEPT ![c].live = FALSE]
         \/ UNCHANGED <<granted, challenge>>
      /\ UNCHANGED <<user, proven, invite, secrets, met>>
  BY <1>1 DEF P!Authenticated, P!In, P!PasskeyOpens
<1>3. Fewer /\ \A g \in Handlers : handler'[g].kind = "revoked" => handler[g].kind = "revoked"
  BY <1>2, Ended, IdleIs
<1>4. CASE UNCHANGED <<granted, challenge>>
  BY <1>2, <1>3, <1>4, ChallengesAside, GrantsAside, UsersAside
<1>5. CASE /\ challenge[c].live /\ P!Grant(e, "passkey", c)
           /\ challenge' = [challenge EXCEPT ![c].live = FALSE]
  <2>1. e \in Emails /\ c \in DOMAIN challenge /\ c \in Nat
    BY <1>1, <1>2, ChallengeRows DEF PortalInv, HandlerInv, Challenging
  <2>2. /\ challenge' \in Seq(ChallengeRow) /\ Len(challenge') = Len(challenge) /\ DOMAIN challenge' = DOMAIN challenge
        /\ \A d \in DOMAIN challenge : challenge'[d].email = challenge[d].email
        /\ c \notin Used /\ Used' = Used \cup {c} /\ Cardinality(Used') = Cardinality(Used) + 1
    BY <1>5, <2>1, UsedUp
  <2>3. PICK x \in GrantRow : x = [email |-> e, by |-> "passkey", at |-> c] /\ x.at = c
    <3>1. [email |-> e, by |-> "passkey", at |-> c] \in GrantRow
      BY <2>1 DEF GrantRow
    <3> QED
      BY <3>1
  <2>4. granted' = Append(granted, x)
    BY <1>5, <2>3 DEF P!Grant
  <2>5. granted' \in Seq(GrantRow) /\ GrantInv'
    BY <2>2, <2>3, <2>4, Granted
  <2>6. Cardinality(Used') \in Nat /\ Cardinality(Used) <= Cardinality(Used')
    BY <2>2, UsedCount
  <2>7. Len(challenge') <= MaxChallenges /\ \A d \in DOMAIN challenge' : user[challenge'[d].email].exists
    BY <2>2 DEF PortalInv, PortalType, UserInv
  <2> QED
    BY <1>2, <1>3, <2>2, <2>5, <2>6, <2>7, UsersAside
<1> QED
  BY <1>2, <1>4, <1>5

\* A passkey for a challenge.
LEMMA RegisteredKeeps ==
  ASSUME PortalInv, NEW h \in Handlers, P!Registered(h)
  PROVE  PortalInv'
<1>1. PICK e, c : e = handler[h].email /\ c = handler[h].at
  OBVIOUS
<1>2. /\ handler[h].kind = "register" /\ P!Ends(h)
      /\ \/ /\ challenge[c].live /\ user' = [user EXCEPT ![e].passkeys = @ + 1]
            /\ challenge' = [challenge EXCEPT ![c].live = FALSE]
         \/ UNCHANGED <<user, challenge>>
      /\ UNCHANGED <<proven, invite, granted, secrets, met>>
  BY <1>1 DEF P!Registered, P!In
<1>3. Fewer /\ \A g \in Handlers : handler'[g].kind = "revoked" => handler[g].kind = "revoked"
  BY <1>2, Ended, IdleIs
<1>4. CASE UNCHANGED <<user, challenge>>
  BY <1>2, <1>3, <1>4, ChallengesAside, GrantsAside, UsersAside
<1>5. CASE /\ challenge[c].live /\ user' = [user EXCEPT ![e].passkeys = @ + 1]
           /\ challenge' = [challenge EXCEPT ![c].live = FALSE]
  <2>1. e \in Emails /\ c \in DOMAIN challenge /\ user[e].exists
    BY <1>1, <1>2 DEF PortalInv, HandlerInv, Challenging
  <2>2. /\ challenge' \in Seq(ChallengeRow) /\ Len(challenge') = Len(challenge) /\ DOMAIN challenge' = DOMAIN challenge
        /\ \A d \in DOMAIN challenge : challenge'[d].email = challenge[d].email
        /\ Used' = Used \cup {c} /\ Cardinality(Used') = Cardinality(Used) + 1
    BY <1>5, <2>1, UsedUp
  <2>3. PICK row \in UserRow : /\ row = [user[e] EXCEPT !.passkeys = @ + 1] /\ row.passkeys = user[e].passkeys + 1
                               /\ row.exists = user[e].exists /\ row.secret = user[e].secret
                               /\ row.enrolled = user[e].enrolled
    <3>1. user[e] \in UserRow
      BY <2>1, UserRows
    <3>2. [user[e] EXCEPT !.passkeys = @ + 1] \in UserRow
      BY <3>1 DEF UserRow
    <3> QED
      BY <3>1, <3>2 DEF UserRow
  <2>4. user' \in [Emails -> UserRow] /\ user'[e] = row /\ \A x \in Emails \ {e} : user'[x] = user[x]
    <3>1. user' = [user EXCEPT ![e] = row]
      BY <1>5, <2>3
    <3> QED
      BY <2>1, <3>1, UserRows
  <2>5. PortalType'
    BY <1>2, <1>3, <2>2, <2>4 DEF PortalInv, PortalType, Fewer
  <2>6. FactorInv'
    BY <1>2, <1>3, <2>3, <2>4, FewerFactors
  <2>7. UserInv'
    <3>1. \A x \in Emails : user'[x].passkeys <= Cardinality(Used')
      <4>1. \A x \in Emails : user[x].passkeys \in Nat /\ user[x].passkeys <= Cardinality(Used)
        BY UserRows DEF PortalInv, UserInv, UserRow
      <4>2. PICK k \in Nat : k = Cardinality(Used)
        BY UsedCount
      <4>3. Cardinality(Used') = k + 1
        BY <2>2, <4>2
      <4> SUFFICES ASSUME NEW x \in Emails PROVE user'[x].passkeys <= k + 1
        BY <4>3
      <4>4. user[x].passkeys \in Nat /\ user[x].passkeys <= k
        BY <4>1, <4>2
      <4>5. user'[x].passkeys \in {user[x].passkeys, user[x].passkeys + 1}
        BY <2>3, <2>4
      <4> QED
        BY <4>4, <4>5
    <3>2. \A d \in DOMAIN challenge : challenge[d].email \in Emails
      BY ChallengeRows DEF ChallengeRow
    <3>3. \A x \in Emails : /\ user'[x].exists = user[x].exists /\ user'[x].secret = user[x].secret
                            /\ ~user[x].exists => user'[x] = user[x]
      BY <2>1, <2>3, <2>4
    <3>4. UserInv!1'
      BY <1>2, <3>1, <3>3 DEF PortalInv, UserInv
    <3>5. UserInv!2'
      BY <2>2, <3>2, <3>3 DEF PortalInv, UserInv
    <3> QED
      BY <3>4, <3>5 DEF UserInv
  <2>8. GrantInv'
    BY <1>2, <2>2, GrantsAside
  <2>9. \A x \in Emails : user'[x].exists = user[x].exists
    BY <2>3, <2>4
  <2> QED
    BY <1>2, <1>3, <2>2, <2>5, <2>6, <2>7, <2>8, <2>9, InvitesAside
<1> QED
  BY <1>2, <1>4, <1>5

LEMMA PasskeyDeletedKeeps ==
  ASSUME PortalInv, NEW e \in Emails, P!PasskeyDeleted(e)
  PROVE  PortalInv'
<1>1. /\ user[e].passkeys > 0 /\ user' = [user EXCEPT ![e].passkeys = @ - 1]
      /\ UNCHANGED <<proven, invite, challenge, handler, granted, secrets, met>>
  BY DEF P!PasskeyDeleted
<1>2. PICK row \in UserRow : /\ row = [user[e] EXCEPT !.passkeys = @ - 1] /\ row.passkeys = user[e].passkeys - 1
                             /\ row.exists = user[e].exists /\ row.secret = user[e].secret
                             /\ row.enrolled = user[e].enrolled
  <2>1. user[e] \in UserRow
    BY UserRows
  <2>2. [user[e] EXCEPT !.passkeys = @ - 1] \in UserRow
    BY <1>1, <2>1 DEF UserRow
  <2> QED
    BY <2>1, <2>2 DEF UserRow
<1>3. user' \in [Emails -> UserRow] /\ user'[e] = row /\ \A x \in Emails \ {e} : user'[x] = user[x]
  <2>1. user' = [user EXCEPT ![e] = row]
    BY <1>1, <1>2
  <2> QED
    BY <2>1, UserRows
<1>4. user[e].exists
  BY <1>1, NobodyIs DEF PortalInv, UserInv
<1>5. Fewer
  BY <1>1, Waits
<1>6. PortalType' /\ FactorInv'
  BY <1>1, <1>2, <1>3, <1>5, FewerFactors DEF PortalInv, PortalType
<1>7. UserInv'
  <2>1. Used' = Used /\ \A c \in DOMAIN challenge : challenge[c].email \in Emails
    BY <1>1, ChallengeRows DEF Used, ChallengeRow
  <2>2. \A x \in Emails : user'[x].passkeys <= Cardinality(Used)
    <3>1. \A x \in Emails : user[x].passkeys \in Nat /\ user[x].passkeys <= Cardinality(Used)
      BY UserRows DEF PortalInv, UserInv, UserRow
    <3>2. PICK k \in Nat : k = Cardinality(Used)
      BY UsedCount
    <3> SUFFICES ASSUME NEW x \in Emails PROVE user'[x].passkeys <= k
      BY <3>2
    <3>3. user[x].passkeys \in Nat /\ user[x].passkeys <= k
      BY <3>1, <3>2
    <3>4. user'[x].passkeys \in {user[x].passkeys, user[x].passkeys - 1}
      BY <1>2, <1>3
    <3> QED
      BY <3>3, <3>4
  <2> QED
    BY <1>1, <1>2, <1>3, <1>4, <2>1, <2>2 DEF PortalInv, UserInv
<1>8. GrantInv'
  BY <1>1 DEF PortalInv, GrantInv, Used
<1>9. \A x \in Emails : user'[x].exists = user[x].exists
  BY <1>2, <1>3
<1> QED
  BY <1>1, <1>5, <1>6, <1>7, <1>8, <1>9, InvitesAside

LEMMA PortalStarts == P!Init => PortalInv
<1> SUFFICES ASSUME P!Init PROVE PortalInv
  OBVIOUS
<1>1. /\ invite = <<>> /\ challenge = <<>> /\ granted = <<>> /\ secrets = 0 /\ met = {}
      /\ DOMAIN invite = {} /\ DOMAIN challenge = {} /\ DOMAIN granted = {}
      /\ proven = [e \in Emails |-> 0] /\ handler = [h \in Handlers |-> P!Idle]
  BY DEF P!Init
<1>2. PICK new \in UserRow : /\ new = [P!Nobody EXCEPT !.exists = TRUE]
                             /\ new.exists = TRUE /\ ~new.enrolled /\ new.secret = 0 /\ new.passkeys = 0
  <2>1. [P!Nobody EXCEPT !.exists = TRUE] \in UserRow
    BY NobodyIs DEF UserRow
  <2> QED
    BY <2>1, NobodyIs DEF UserRow
<1>3. user = [e \in Emails |-> IF e = Member THEN new ELSE P!Nobody]
  BY <1>2 DEF P!Init
<1>4. /\ user \in [Emails -> UserRow]
      /\ \A e \in Emails : /\ ~user[e].enrolled /\ user[e].secret = 0 /\ user[e].passkeys = 0
                           /\ user[e].exists => e = Member
                           /\ ~user[e].exists => user[e] = P!Nobody
  BY <1>2, <1>3, NobodyIs
<1>5. Len(invite) = 0 /\ Len(challenge) = 0 /\ invite \in Seq(InviteRow) /\ challenge \in Seq(ChallengeRow)
      /\ granted \in Seq(GrantRow)
  BY <1>1, EmptySeq
<1>6. PortalType
  BY <1>1, <1>4, <1>5, IdleIs, PortalAssumption DEF PortalType
<1>7. Used = {} /\ Cardinality(Used) = 0
  <2>1. Used = {}
    BY <1>1 DEF Used
  <2> QED
    BY <2>1, FS_EmptySet
<1>8. UserInv
  BY <1>1, <1>4, <1>7 DEF UserInv
<1>9. \A h \in Handlers : handler[h] = P!Idle /\ ~Busy(h) /\ handler[h].kind = "none"
  BY <1>1, IdleIs DEF Busy
<1>10. HandlerInv /\ AloneWith /\ FactorInv
  BY <1>4, <1>9 DEF HandlerInv, AloneWith, FactorInv, About, Closing, Asking, Challenging
<1>11. OpenInv /\ AcceptInv /\ GrantInv
  BY <1>1, <1>4, <1>9 DEF OpenInv, P!OpenFor, AcceptInv, AcceptedFor, GrantInv
<1> QED
  BY <1>6, <1>8, <1>10, <1>11 DEF PortalInv

LEMMA PortalStep == PortalInv /\ (P!InviteNext \/ P!FactorNext) => PortalInv'
<1>1. PortalInv /\ P!InviteNext => PortalInv'
  BY InviteExpiresKeeps, InviteLooksKeeps, RevokeLooksKeeps, AcceptLooksKeeps, InviteRevokesKeeps,
     InviteCreatesKeeps, RevokeWritesKeeps, AcceptCommitsKeeps DEF P!InviteNext
<1>2. PortalInv /\ P!FactorNext => PortalInv'
  BY DisableKeeps, MfaDisableKeeps, PasskeyDeletedKeeps, ChallengeMadeKeeps, ChallengeExpiresKeeps,
     MfaLooksKeeps, ConfirmLooksKeeps, LoginReadsKeeps, ChallengeFoundKeeps, MfaStoresKeeps,
     ConfirmWritesKeeps, LoginDecidesKeeps, CodeCheckedKeeps, AuthenticatedKeeps, RegisteredKeeps DEF P!FactorNext
<1> QED
  BY <1>1, <1>2

LEMMA PortalBehaves == Spec => []PortalInv
<1>1. ConsoleInit => PortalInv
  BY PortalStarts DEF ConsoleInit
<1>2. PortalInv /\ [ConsoleNext]_allVars => PortalInv'
  <2> SUFFICES ASSUME PortalInv, [ConsoleNext]_allVars PROVE PortalInv'
    OBVIOUS
  <2>1. CASE UNCHANGED portalVars
    <3>1. UNCHANGED <<user, proven, invite, challenge, handler, granted, secrets, met>>
      BY <2>1 DEF portalVars
    <3>2. PortalType' /\ HandlerInv' /\ AloneWith'
      BY <3>1 DEF PortalInv, PortalType, HandlerInv, AloneWith, About, Busy
    <3>3. UserInv' /\ GrantInv'
      BY <3>1 DEF PortalInv, UserInv, GrantInv, Used
    <3>4. OpenInv'
      BY <3>1 DEF PortalInv, OpenInv, P!OpenFor, P!Open, Busy
    <3>5. AcceptInv' /\ FactorInv'
      BY <3>1 DEF PortalInv, AcceptInv, AcceptedFor, FactorInv, Busy
    <3> QED
      BY <3>2, <3>3, <3>4, <3>5 DEF PortalInv
  <2>2. CASE P!InviteNext \/ P!FactorNext
    BY <2>2, PortalStep
  <2>3. CASE KeysOnly \/ RegistryOnly \/ DiceOnly \/ CrashOnly \/ UNCHANGED allVars
    <3>1. UNCHANGED portalVars
      BY <2>3 DEF KeysOnly, RegistryOnly, DiceOnly, CrashOnly, allVars
    <3> QED
      BY <2>1, <3>1
  <2> QED
    BY <2>2, <2>3 DEF ConsoleNext
<1> QED
  BY <1>1, <1>2, PTL DEF Spec

LEMMA PortalIsTyped == PortalInv => P!TypeOK
<1> SUFFICES ASSUME PortalInv PROVE P!TypeOK
  OBVIOUS
<1>1. \A e \in Emails : user[e].secret \in 0..MaxSecrets /\ user[e].passkeys \in 0..MaxChallenges
                        /\ (~user[e].exists => user[e] = P!Nobody)
  <2> SUFFICES ASSUME NEW e \in Emails
               PROVE  user[e].secret \in 0..MaxSecrets /\ user[e].passkeys \in 0..MaxChallenges
                      /\ (~user[e].exists => user[e] = P!Nobody)
    OBVIOUS
  <2>1. user[e].secret \in Nat /\ user[e].passkeys \in Nat
    BY UserRows DEF UserRow
  <2>2. /\ user[e].secret <= secrets /\ user[e].passkeys <= Cardinality(Used) /\ secrets \in 0..MaxSecrets
        /\ Len(challenge) <= MaxChallenges /\ (~user[e].exists => user[e] = P!Nobody)
    BY DEF PortalInv, PortalType, UserInv
  <2> QED
    BY <2>1, <2>2, UsedCount, ChallengeRows, PortalAssumption
<1>2. \A h \in Handlers : handler[h].kind \in Kinds
  BY DEF PortalInv, PortalType, HandlerRow
<1>3. Len(invite) <= MaxInvites /\ Len(challenge) <= MaxChallenges /\ met \subseteq Emails
  BY DEF PortalInv, PortalType
<1> QED
  BY <1>1, <1>2, <1>3, KindsAre DEF P!TypeOK

LEMMA PortalHolds == PortalInv => P!OneOpenInvite /\ P!InviteMakesUser /\ P!NotLockedOut /\ P!ChallengeOnce
<1> SUFFICES ASSUME PortalInv PROVE P!OneOpenInvite /\ P!InviteMakesUser /\ P!NotLockedOut /\ P!ChallengeOnce
  OBVIOUS
<1>1. P!OneOpenInvite
  <2> SUFFICES ASSUME NEW e \in Emails \ met PROVE Cardinality(P!OpenFor(e)) <= 1
    BY DEF P!OneOpenInvite, P!Cardinality, Cardinality
  <2>1. CASE P!OpenFor(e) = {}
    BY <2>1, FS_EmptySet
  <2>2. CASE P!OpenFor(e) # {}
    <3>1. PICK i \in P!OpenFor(e) : TRUE
      BY <2>2
    <3>2. P!OpenFor(e) = {i}
      BY <3>1 DEF PortalInv, OpenInv
    <3> QED
      BY <3>2, FS_Singleton
  <2> QED
    BY <2>1, <2>2
<1>2. P!InviteMakesUser
  <2> SUFFICES ASSUME NEW e \in Emails \ {Member}
               PROVE  Cardinality(AcceptedFor(e)) = (IF user[e].exists THEN 1 ELSE 0)
    BY DEF P!InviteMakesUser, AcceptedFor, P!Cardinality, Cardinality
  <2>1. CASE user[e].exists
    BY <2>1, FS_Singleton DEF PortalInv, AcceptInv
  <2>2. CASE ~user[e].exists
    BY <2>2, FS_EmptySet DEF PortalInv, AcceptInv
  <2> QED
    BY <2>1, <2>2
<1>3. P!NotLockedOut
  BY DEF PortalInv, FactorInv, P!NotLockedOut
<1>4. P!ChallengeOnce
  BY DEF PortalInv, GrantInv, P!ChallengeOnce
<1> QED
  BY <1>1, <1>2, <1>3, <1>4

\* One invitation of an address is good and it makes one user, who is enrolled only with
\* an authenticator, and a challenge opens one session, for any number of users,
\* invitations, challenges and overlapping requests.
THEOREM UsersAreSoundHolds == Spec => []UsersAreSound
<1>1. PortalInv => UsersAreSound
  BY PortalIsTyped, PortalHolds DEF UsersAreSound
<1> QED
  BY <1>1, PortalBehaves, PTL

-----------------------------------------------------------------------------
(* Credentials and signing keys: the inductive invariant.                   *)

Clock == now \in 0..MaxTime /\ crossed \in BOOLEAN

CredType ==
    /\ turned \in BOOLEAN /\ cred \in Seq(Credentials) /\ Len(cred) \in 1..MaxKeys
    /\ adapter \in 0..Len(cred) /\ rotation \in [Rotations -> Requests]
    /\ promises \subseteq (1..Len(cred)) \X Nat

KeyType ==
    /\ key \in Seq(0..Never) /\ Len(key) \in 0..MaxKeys
    /\ turning \in [Rotations -> Requests] /\ signing \in [Signers -> Requests]
    /\ tokens \subseteq (1..Len(key)) \X Nat

\* A credential that lives on.
Live(k) == ~cred[k].revoked /\ cred[k].end = Never

\* Nobody but a revocation ends the newest credential.
LastInv == cred[Len(cred)].revoked \/ cred[Len(cred)].end = Never

\* What a rotation is about to end has not ended yet.
ReadInv ==
    \A r \in Rotations : rotation[r].pc = "read" =>
        LET p == rotation[r].prev IN
        /\ p <= Len(cred)
        /\ p # 0 => cred[p].revoked \/ cred[p].end >= now

\* Rotations that do not cross leave the newest credential alone to live on, and the one
\* rotation under way is about to end it.
AloneInv ==
    ~crossed =>
        /\ \A k \in 1..Len(cred) : Live(k) => k = Len(cred)
        /\ \A r \in Rotations : rotation[r].pc = "read" =>
             /\ \A q \in Rotations : rotation[q].pc = "read" => q = r
             /\ Live(Len(cred)) => rotation[r].prev = Len(cred)

\* A promise is about an older credential, which is not touched again.
PromiseInv ==
    ~crossed /\ Revoked = {} =>
        \A p \in promises : p[1] < Len(cred) /\ cred[p[1]].end = p[2]

\* The engine started with the newest credential, if nothing happened since.
AdapterInv == ~turned /\ Revoked = {} => adapter = Len(cred)

CredInv == CredType /\ LastInv /\ ReadInv /\ AloneInv /\ PromiseInv /\ AdapterInv

\* A key that is signing stays published for as long as the token will live.
SignerInv ==
    \A s \in Signers : signing[s].pc = "sign" =>
        signing[s].prev \in 1..Len(key) /\ key[signing[s].prev] >= now + KeyGrace

TokenInv == \A t \in tokens : key[t[1]] >= t[2] /\ t[2] <= now + Life

TurnInv == \A r \in Rotations : turning[r].pc = "read" => turning[r].prev <= Len(key)

\* At most one key is active; who mints finds none, who rotates has it in hand.
ActiveInv ==
    ~crossed =>
        /\ \A j, k \in 1..Len(key) : key[j] = Never /\ key[k] = Never => j = k
        /\ \A s \in Signers : signing[s].pc = "mint" =>
             /\ \A k \in 1..Len(key) : key[k] # Never
             /\ \A q \in Signers : signing[q].pc = "mint" => q = s
             /\ \A r \in Rotations : turning[r].pc # "read"
        /\ \A r \in Rotations : turning[r].pc = "read" =>
             /\ \A q \in Rotations : turning[q].pc = "read" => q = r
             /\ \A k \in 1..Len(key) : key[k] = Never => k = turning[r].prev

KeyInv == KeyType /\ SignerInv /\ TokenInv /\ TurnInv /\ ActiveInv

Inv == Clock /\ CredInv /\ KeyInv

-----------------------------------------------------------------------------
(* Lemmas about the operators.                                              *)

USE LifeFitsGrace, GraceAssumption

\* No end that a clock and a grace can make is Never.
LEMMA Numbers ==
  ASSUME Clock
  PROVE  /\ Never \in Nat /\ KeyGrace \in Nat /\ Life \in Nat /\ Life <= KeyGrace
         /\ MaxKeys \in Nat \ {0} /\ now \in Nat
         /\ now + KeyGrace < Never
         /\ \A g \in 0..KeyGrace : g \in Nat /\ now + g \in 0..Never /\ now + g < Never
  BY DEF Clock, Never

\* A set of numbers with a bound has a greatest one.
LEMMA Greatest ==
  ASSUME NEW n \in Nat, NEW S \in SUBSET (0..n), S # {}
  PROVE  \E k \in S : \A j \in S : j <= k
<1> DEFINE Below == {ss \in Nat \X Nat : ss[1] < ss[2]}
           T == {m \in 0..n : n - m \in S}
<1>1. IsWellFoundedOn(Below, Nat)
  BY NatLessThanWellFounded DEF OpToRel
<1>2. T \subseteq Nat /\ T # {}
  <2>1. PICK k \in S : TRUE
    OBVIOUS
  <2>2. k \in 0..n /\ n - k \in 0..n /\ n - (n - k) = k
    OBVIOUS
  <2>3. n - k \in T
    BY <2>1, <2>2
  <2>4. \A m \in 0..n : m \in Nat
    OBVIOUS
  <2> HIDE DEF Below
  <2> QED
    BY <2>3, <2>4
<1>3. PICK x \in T : \A y \in T : ~(<<y, x>> \in Below)
  BY <1>1, <1>2, WFMin
<1>4. ASSUME NEW j \in S PROVE j <= n - x
  <2>1. j \in 0..n /\ n - j \in 0..n /\ n - (n - j) = j
    OBVIOUS
  <2>2. n - j \in T
    BY <2>1
  <2>3. <<n - j, x>> \notin Below
    BY <1>3, <2>2
  <2>4. n - j \in Nat /\ x \in Nat
    BY <2>1, <1>2
  <2>5. ~(n - j < x)
    BY <2>3, <2>4
  <2> QED
    BY <2>1, <2>4, <2>5
<1>5. n - x \in S
  OBVIOUS
<1> QED
  BY <1>4, <1>5

\* The newest of a set of places is one of them, and no other is newer.
LEMMA NewestIs ==
  ASSUME NEW n \in Nat, NEW S \in SUBSET (1..n)
  PROVE  /\ Newest(S) \in 0..n
         /\ S = {} => Newest(S) = 0
         /\ S # {} => Newest(S) \in S
         /\ \A k \in S : k <= Newest(S)
<1>1. CASE S = {}
  BY <1>1 DEF Newest
<1>2. CASE S # {}
  <2>1. \E k \in S : \A j \in S : j <= k
    <3>1. S \in SUBSET (0..n)
      OBVIOUS
    <3> QED
      BY <1>2, <3>1, Greatest
  <2>2. Newest(S) \in S /\ \A j \in S : j <= Newest(S)
    BY <1>2, <2>1 DEF Newest
  <2>3. \A j \in S : j \in 0..n
    OBVIOUS
  <2> QED
    BY <1>2, <2>2, <2>3
<1> QED
  BY <1>1, <1>2

LEMMA NewestIsLast ==
  ASSUME NEW n \in Nat \ {0}, NEW S \in SUBSET (1..n), n \in S
  PROVE  Newest(S) = n
<1>1. Newest(S) \in 1..n /\ n <= Newest(S)
  BY NewestIs
<1> QED
  BY <1>1

\* A function over the first numbers is a sequence.
LEMMA Sequence ==
  ASSUME NEW n \in Nat, NEW S, NEW f \in [1..n -> S]
  PROVE  f \in Seq(S) /\ Len(f) = n
  OBVIOUS

\* What Append(cred, Fresh) and the list of a commit consist of.
LEMMA Appended ==
  ASSUME NEW S, NEW s \in Seq(S), NEW e \in S
  PROVE  /\ Append(s, e) \in Seq(S) /\ Len(Append(s, e)) = Len(s) + 1
         /\ \A k \in 1..Len(s) + 1 : Append(s, e)[k] = IF k <= Len(s) THEN s[k] ELSE e
         /\ \A k \in 1..Len(s) + 1 : (s \o <<e>>)[k] = IF k <= Len(s) THEN s[k] ELSE e
<1>1. <<e>> \in Seq(S) /\ Len(<<e>>) = 1 /\ <<e>>[1] = e
  OBVIOUS
<1>2. \A k \in 1..Len(s) + 1 : (s \o <<e>>)[k] = IF k <= Len(s) THEN s[k] ELSE <<e>>[k - Len(s)]
  BY <1>1, ConcatProperties
<1>3. \A k \in 1..Len(s) + 1 : (s \o <<e>>)[k] = IF k <= Len(s) THEN s[k] ELSE e
  <2>1. Len(s) \in Nat
    BY LenProperties
  <2>2. \A k \in 1..Len(s) + 1 : ~(k <= Len(s)) => k - Len(s) = 1
    BY <2>1
  <2> QED
    BY <1>1, <1>2, <2>2
<1>4. /\ Append(s, e) \in Seq(S) /\ Len(Append(s, e)) = Len(s) + 1
      /\ \A k \in 1..Len(s) + 1 : Append(s, e)[k] = IF k <= Len(s) THEN s[k] ELSE e
  OBVIOUS
<1> QED
  BY <1>3, <1>4

LEMMA FreshIs == Fresh \in Credentials /\ ~Fresh.revoked /\ Fresh.end = Never
  BY DEF Fresh, Credentials, Never

-----------------------------------------------------------------------------
(* The beginning, and steps of the other half.                              *)

LEMMA InitInv == Init => Inv
<1> SUFFICES ASSUME Init PROVE Inv
  OBVIOUS
<1>1. Clock
  <2>1. now = 0 /\ crossed \in BOOLEAN
    BY DEF Init
  <2> QED
    BY <2>1 DEF Clock
<1>2. cred = <<Fresh>> /\ Len(cred) = 1 /\ cred[1] = Fresh /\ cred \in Seq(Credentials)
  BY FreshIs DEF Init
<1>3. Idle \in Requests /\ Idle.pc = "idle"
  BY DEF Idle, Requests
<1>4. CredType
  <2>1. /\ turned \in BOOLEAN /\ adapter = 1 /\ promises = {}
        /\ rotation = [r \in Rotations |-> Idle]
    BY DEF Init
  <2> QED
    BY <1>2, <1>3, <2>1 DEF CredType
<1>7. KeyType
  <2>1. /\ key = <<>> /\ tokens = {} /\ turning = [r \in Rotations |-> Idle]
        /\ signing = [s \in Signers |-> Idle]
    BY DEF Init
  <2>2. key \in Seq(0..Never) /\ Len(key) = 0
    BY <2>1
  <2> QED
    BY <1>3, <2>1, <2>2 DEF KeyType
<1>5. LastInv /\ ReadInv /\ AloneInv /\ PromiseInv /\ AdapterInv
  BY <1>2, <1>3, FreshIs DEF Init, LastInv, ReadInv, AloneInv, PromiseInv, AdapterInv, Live, Revoked
<1>6. SignerInv /\ TokenInv /\ TurnInv /\ ActiveInv
  BY <1>3 DEF Init, SignerInv, TokenInv, TurnInv, ActiveInv
<1> QED
  BY <1>1, <1>4, <1>5, <1>6, <1>7 DEF Inv, CredInv, KeyInv

\* Overlaps are remembered, so a step that leaves the keys alone keeps what is true of them.
LEMMA KeysKept ==
  ASSUME KeyInv, UNCHANGED <<now, keyVars>>, crossed => crossed'
  PROVE  KeyInv'
  BY DEF KeyInv, keyVars, KeyType, SignerInv, TokenInv, TurnInv, ActiveInv

LEMMA CredentialsKept ==
  ASSUME CredInv, UNCHANGED <<now, credVars>>, crossed => crossed'
  PROVE  CredInv'
  BY DEF CredInv, credVars, CredType, LastInv, ReadInv, AloneInv, Live, PromiseInv, Revoked, AdapterInv

\* Time passes between requests only.
LEMMA TickInv == ASSUME Inv, Tick PROVE Inv'
<1> USE DEF Inv, Tick
<1>1. now' = now + 1 /\ now \in Nat /\ Life \in Nat /\ Clock'
  BY DEF Clock
<1>2. /\ \A r \in Rotations : rotation[r].pc = "idle" /\ turning[r].pc = "idle"
      /\ \A s \in Signers : signing[s].pc = "idle"
  BY DEF AllIdle, Idle
<1>3. CredInv'
  BY <1>2 DEF CredInv, credVars, CredType, LastInv, ReadInv, AloneInv, Live, PromiseInv, Revoked, AdapterInv
<1>4. KeyType' /\ SignerInv' /\ TurnInv' /\ ActiveInv'
  BY <1>2 DEF KeyInv, keyVars, KeyType, SignerInv, TurnInv, ActiveInv
<1>5. TokenInv'
  BY <1>1 DEF KeyInv, keyVars, KeyType, TokenInv
<1> QED
  BY <1>1, <1>3, <1>4, <1>5 DEF KeyInv

-----------------------------------------------------------------------------
(* Credentials.                                                             *)

\* A credential is a record with an end and a mark.
LEMMA Row ==
  ASSUME CredInv, NEW k \in 1..Len(cred)
  PROVE  /\ cred[k] \in Credentials /\ cred[k].end \in 0..Never /\ cred[k].revoked \in BOOLEAN
         /\ Len(cred) \in Nat \ {0} /\ DOMAIN cred = 1..Len(cred)
<1>1. cred[k] \in Credentials
  BY ElementOfSeq DEF CredInv, CredType
<1> QED
  BY <1>1, LenProperties DEF CredInv, CredType, Credentials

\* A rotation reads one that lives, and the newest if that lives on.
LEMMA RotateReadsInv == ASSUME Inv, NEW r \in Rotations, RotateReads(r) PROVE Inv'
<1> DEFINE S == {k \in 1..Len(cred) : Usable(k)}
<1>0. /\ Clock /\ CredInv /\ KeyInv /\ CredType /\ Len(cred) \in Nat \ {0} /\ Len(cred) <= MaxKeys
      /\ UNCHANGED <<now, cred, promises, adapter, turned, keyVars>>
      /\ crossed' = (crossed \/ \E q \in Rotations : rotation[q] # Idle)
  BY DEF Inv, CredInv, CredType, RotateReads
<1>1. PICK g \in Graces : rotation' = [rotation EXCEPT ![r] = Ask(g, S)]
  BY DEF RotateReads
<1> HIDE DEF S
<1>2. S \in SUBSET (1..Len(cred))
  BY DEF S
<1>3. /\ Newest(S) \in 0..Len(cred)
      /\ Newest(S) # 0 => Newest(S) \in S
  BY <1>0, <1>2, NewestIs
<1>4. Live(Len(cred)) => Newest(S) = Len(cred)
  <2>1. Live(Len(cred)) => Len(cred) \in S
    BY <1>0, Numbers DEF S, Live, Usable
  <2> QED
    BY <1>0, <1>2, <2>1, NewestIsLast
<1>5. Ask(g, S) \in Requests /\ Ask(g, S).pc = "read" /\ Ask(g, S).prev = Newest(S)
  <2>1. Newest(S) \in 0..MaxKeys /\ g \in 0..KeyGrace
    BY <1>0, <1>3, Numbers
  <2> QED
    BY <2>1 DEF Ask, Requests
<1>6. CredType'
  BY <1>0, <1>1, <1>5 DEF CredType
<1>7. \A q \in Rotations : q # r => rotation'[q] = rotation[q]
  BY <1>0, <1>1 DEF CredType
<1>8. rotation'[r] = Ask(g, S)
  BY <1>0, <1>1 DEF CredType
<1>9. ReadInv'
  <2>1. Newest(S) # 0 => cred[Newest(S)].end >= now
    BY <1>0, <1>2, <1>3, Row, Numbers DEF S, Usable
  <2> QED
    BY <1>0, <1>3, <1>5, <1>7, <1>8, <2>1 DEF CredInv, ReadInv
<1>10. AloneInv'
  <2> SUFFICES ASSUME ~crossed' PROVE AloneInv'
    BY DEF AloneInv
  <2>0. ~crossed /\ \A q \in Rotations : rotation[q] = Idle
    BY <1>0
  <2>1. \A q \in Rotations : rotation[q].pc # "read"
    BY <2>0 DEF Idle
  <2>2. \A k \in 1..Len(cred) : Live(k) => k = Len(cred)
    BY <1>0, <2>0 DEF CredInv, AloneInv
  <2> QED
    BY <1>0, <1>4, <1>5, <1>7, <1>8, <2>0, <2>1, <2>2 DEF AloneInv, Live
<1>11. LastInv' /\ PromiseInv' /\ AdapterInv'
  BY <1>0 DEF CredInv, LastInv, PromiseInv, Revoked, AdapterInv
<1>12. Clock' /\ KeyInv'
  BY <1>0, KeysKept DEF Clock
<1> QED
  BY <1>6, <1>9, <1>10, <1>11, <1>12 DEF Inv, CredInv

\* What a commit leaves: one more credential, one other end.
LEMMA Committed ==
  ASSUME Inv, NEW r \in Rotations, RotateCommits(r)
  PROVE  LET n == Len(cred)  t == rotation[r] IN
         /\ n \in Nat \ {0} /\ n < MaxKeys /\ t.prev \in 0..n /\ t.grace \in 0..KeyGrace /\ t.pc = "read"
         /\ cred' \in Seq(Credentials) /\ Len(cred') = n + 1 /\ DOMAIN cred' = 1..n + 1
         /\ cred'[n + 1].end = Never /\ ~cred'[n + 1].revoked
         /\ \A k \in 1..n : /\ cred'[k].revoked = cred[k].revoked
                            /\ cred'[k].end = IF k = t.prev THEN now + t.grace ELSE cred[k].end
<1> DEFINE n == Len(cred)
           t == rotation[r]
           row(k) == (cred \o <<Fresh>>)[k]
<1>1. /\ CredInv /\ n \in Nat \ {0} /\ n < MaxKeys /\ t.pc = "read" /\ t \in Requests
      /\ cred \in Seq(Credentials)
  BY DEF Inv, CredInv, CredType, RotateCommits
<1>2. t.prev \in 0..n /\ t.grace \in 0..KeyGrace
  BY <1>1 DEF CredInv, ReadInv, Requests
<1>3. \A k \in 1..n + 1 : row(k) = IF k <= n THEN cred[k] ELSE Fresh
  BY <1>1, FreshIs, Appended
<1>4. cred' = [k \in 1..n + 1 |-> IF k = t.prev THEN [row(k) EXCEPT !.end = now + t.grace] ELSE row(k)]
  BY DEF RotateCommits
<1>5. \A k \in 1..n + 1 : row(k) \in Credentials
  BY <1>1, <1>3, Row, FreshIs
<1> HIDE DEF row, n, t
<1>6. now + t.grace \in 0..Never
  BY <1>2, Numbers DEF Inv
<1>7. \A k \in 1..n + 1 : [row(k) EXCEPT !.end = now + t.grace] \in Credentials
  BY <1>5, <1>6 DEF Credentials
<1>8. cred' \in [1..n + 1 -> Credentials]
  BY <1>4, <1>5, <1>7
<1>9. cred' \in Seq(Credentials) /\ Len(cred') = n + 1 /\ DOMAIN cred' = 1..n + 1
  BY <1>1, <1>8, Sequence
<1>10. n + 1 \in 1..n + 1 /\ n + 1 # t.prev /\ ~(n + 1 <= n)
  BY <1>1, <1>2
<1>11. cred'[n + 1] = Fresh
  BY <1>3, <1>4, <1>10
<1>12. ASSUME NEW k \in 1..n
       PROVE  /\ cred'[k].revoked = cred[k].revoked
              /\ cred'[k].end = IF k = t.prev THEN now + t.grace ELSE cred[k].end
  <2>1. k \in 1..n + 1 /\ k <= n
    BY <1>1
  <2>2. row(k) = cred[k] /\ row(k) \in Credentials
    BY <1>3, <1>5, <2>1
  <2>3. CASE k = t.prev
    <3>1. cred'[k] = [row(k) EXCEPT !.end = now + t.grace]
      BY <1>4, <2>1, <2>3
    <3> QED
      BY <2>2, <2>3, <3>1 DEF Credentials
  <2>4. CASE k # t.prev
    BY <1>4, <2>1, <2>2, <2>4
  <2> QED
    BY <2>3, <2>4
<1> QED
  BY <1>1, <1>2, <1>9, <1>11, <1>12, FreshIs DEF n, t

\* The one it read is the newest that lives on, if no other request crossed it.
LEMMA RotateCommitsInv == ASSUME Inv, NEW r \in Rotations, RotateCommits(r) PROVE Inv'
<1> DEFINE n == Len(cred)
           t == rotation[r]
<1>1. /\ n \in Nat \ {0} /\ n < MaxKeys /\ t.prev \in 0..n /\ t.grace \in 0..KeyGrace /\ t.pc = "read"
      /\ cred' \in Seq(Credentials) /\ Len(cred') = n + 1
      /\ cred'[n + 1].end = Never /\ ~cred'[n + 1].revoked
      /\ \A k \in 1..n : /\ cred'[k].revoked = cred[k].revoked
                         /\ cred'[k].end = IF k = t.prev THEN now + t.grace ELSE cred[k].end
  BY Committed
<1>2. /\ Clock /\ CredType /\ LastInv /\ ReadInv /\ AloneInv /\ PromiseInv /\ KeyInv
      /\ MaxKeys \in Nat
  BY Numbers DEF Inv, CredInv
<1>3. now + t.grace \in Nat /\ now + t.grace >= now /\ now + t.grace # Never
  <2>1. /\ now \in Nat /\ Never \in Nat
        /\ \A g \in 0..KeyGrace : g \in Nat /\ now + g < Never
    BY <1>2, Numbers
  <2>2. t.grace \in Nat /\ now + t.grace < Never
    BY <1>1, <2>1
  <2> HIDE DEF t
  <2> QED
    BY <2>1, <2>2
<1>4. /\ promises' = IF t.prev = 0 THEN promises ELSE promises \cup {<<t.prev, now + t.grace>>}
      /\ rotation' = [rotation EXCEPT ![r] = Idle] /\ turned'
      /\ UNCHANGED <<now, adapter, keyVars, crossed>>
  BY DEF RotateCommits
<1>5. /\ rotation'[r].pc # "read"
      /\ \A q \in Rotations : q # r => rotation'[q] = rotation[q]
  BY <1>2, <1>4 DEF CredType, Idle
<1> HIDE DEF n, t
<1>6. CredType'
  <2>1. Len(cred') \in 1..MaxKeys /\ adapter' \in 0..Len(cred')
    BY <1>1, <1>2, <1>4 DEF CredType, n
  <2>2. Idle \in Requests
    BY <1>2 DEF Idle, Requests
  <2>3. rotation' \in [Rotations -> Requests]
    BY <1>2, <1>4, <2>2 DEF CredType
  <2>4. promises' \subseteq (1..n + 1) \X Nat
    <3>1. promises \subseteq (1..n) \X Nat
      BY <1>2 DEF CredType, n
    <3>2. (1..n) \X Nat \subseteq (1..n + 1) \X Nat
      BY <1>1
    <3>3. t.prev # 0 => <<t.prev, now + t.grace>> \in (1..n + 1) \X Nat
      BY <1>1, <1>3
    <3> QED
      BY <1>4, <3>1, <3>2, <3>3
  <2>5. turned' \in BOOLEAN
    BY DEF RotateCommits
  <2> QED
    BY <1>1, <2>1, <2>3, <2>4, <2>5 DEF CredType
<1>7. LastInv'
  BY <1>1 DEF LastInv
<1>8. ReadInv'
  <2> SUFFICES ASSUME NEW q \in Rotations, rotation'[q].pc = "read"
               PROVE  LET p == rotation'[q].prev IN
                      /\ p <= n + 1
                      /\ p # 0 => cred'[p].revoked \/ cred'[p].end >= now
    BY <1>1, <1>4 DEF ReadInv
  <2>1. rotation'[q] = rotation[q]
    BY <1>5
  <2>2. /\ rotation[q].prev <= n
        /\ rotation[q].prev # 0 => cred[rotation[q].prev].revoked \/ cred[rotation[q].prev].end >= now
    BY <1>2, <2>1 DEF ReadInv, n
  <2>3. rotation[q].prev \in Nat
    BY <1>2, Numbers DEF CredType, Requests
  <2> QED
    BY <1>1, <1>3, <2>1, <2>2, <2>3
<1>9. AloneInv'
  <2> SUFFICES ASSUME ~crossed' PROVE AloneInv'
    BY DEF AloneInv
  <2>1. ~crossed
    BY <1>4
  <2>2. \A k \in 1..n : Live(k) => k = t.prev
    BY <1>1, <1>2, <2>1 DEF AloneInv, n, t
  <2>3. \A k \in 1..n + 1 : ~cred'[k].revoked /\ cred'[k].end = Never => k = n + 1
    BY <1>1, <1>3, <2>2 DEF Live
  <2>4. \A q \in Rotations : rotation'[q].pc # "read"
    BY <1>1, <1>2, <1>5, <2>1 DEF AloneInv, t
  <2> QED
    BY <1>1, <2>3, <2>4 DEF AloneInv, Live
<1>10. PromiseInv'
  <2> SUFFICES ASSUME ~crossed', Revoked' = {}, NEW p \in promises'
               PROVE  p[1] < n + 1 /\ cred'[p[1]].end = p[2]
    BY <1>1 DEF PromiseInv
  <2>1. ~crossed
    BY <1>4
  <2>2. DOMAIN cred = 1..n /\ DOMAIN cred' = 1..n + 1
    BY <1>1, <1>2, LenProperties DEF CredType, n
  <2>3. Revoked = {}
    BY <1>1, <2>2 DEF Revoked
  <2>4. Live(n)
    BY <1>1, <1>2, <2>2, <2>3 DEF LastInv, Live, Revoked, n
  <2>5. t.prev = n
    BY <1>1, <1>2, <2>1, <2>4 DEF AloneInv, n, t
  <2>6. CASE p \in promises
    <3>1. p[1] \in 1..n /\ p[1] < n /\ cred[p[1]].end = p[2]
      BY <1>2, <2>1, <2>3, <2>6 DEF CredType, PromiseInv, n
    <3> QED
      BY <1>1, <2>5, <3>1
  <2>7. CASE p = <<t.prev, now + t.grace>>
    BY <1>1, <2>5, <2>7
  <2> QED
    BY <1>4, <2>6, <2>7
<1>11. AdapterInv'
  BY <1>4 DEF AdapterInv
<1>12. Clock' /\ KeyInv'
  BY <1>2, <1>4, KeysKept DEF Clock
<1> QED
  BY <1>6, <1>7, <1>8, <1>9, <1>10, <1>11, <1>12 DEF Inv, CredInv

\* One more beside the others, of which nothing is promised.
LEMMA AddBesideInv == ASSUME Inv, AddBeside PROVE Inv'
<1> DEFINE n == Len(cred)
<1>1. /\ n \in Nat \ {0} /\ n < MaxKeys /\ CredType /\ ReadInv /\ Clock /\ KeyInv
      /\ cred' = Append(cred, Fresh) /\ turned' /\ crossed'
      /\ UNCHANGED <<now, rotation, promises, adapter, keyVars>>
  BY DEF Inv, CredInv, CredType, AddBeside
<1>2. /\ cred' \in Seq(Credentials) /\ Len(cred') = n + 1
      /\ cred'[n + 1].end = Never /\ ~cred'[n + 1].revoked
      /\ \A k \in 1..n : cred'[k] = cred[k]
  BY <1>1, Appended, FreshIs DEF CredType
<1>3. turned' \in BOOLEAN /\ crossed' \in BOOLEAN
  BY DEF AddBeside
<1> HIDE DEF n
<1>4. CredType'
  <2>1. Len(cred') \in 1..MaxKeys /\ adapter' \in 0..Len(cred')
    BY <1>1, <1>2, Numbers DEF CredType, n
  <2>2. promises' \subseteq (1..Len(cred')) \X Nat
    BY <1>1, <1>2 DEF CredType, n
  <2> QED
    BY <1>1, <1>2, <1>3, <2>1, <2>2 DEF CredType
<1>5. ReadInv'
  <2> SUFFICES ASSUME NEW q \in Rotations, rotation[q].pc = "read"
               PROVE  LET p == rotation[q].prev IN
                      /\ p <= n + 1
                      /\ p # 0 => cred'[p].revoked \/ cred'[p].end >= now
    BY <1>1, <1>2 DEF ReadInv
  <2>1. rotation[q].prev \in Nat
    BY <1>1, Numbers DEF CredType, Requests
  <2> QED
    BY <1>1, <1>2, <2>1 DEF ReadInv, n
<1>6. LastInv' /\ AloneInv' /\ PromiseInv' /\ AdapterInv'
  BY <1>1, <1>2 DEF LastInv, AloneInv, PromiseInv, AdapterInv
<1>7. Clock' /\ KeyInv'
  BY <1>1, <1>3, KeysKept DEF Clock
<1> QED
  BY <1>4, <1>5, <1>6, <1>7 DEF Inv, CredInv

\* The engine starts with the newest that is not revoked.
LEMMA BuildAdapterInv == ASSUME Inv, BuildAdapter PROVE Inv'
<1> DEFINE S == {k \in 1..Len(cred) : ~cred[k].revoked}
<1>1. /\ Clock /\ CredInv /\ KeyInv /\ CredType /\ Len(cred) \in Nat \ {0}
      /\ adapter' = Newest(S) /\ UNCHANGED <<now, cred, rotation, promises, keyVars, crossed>>
  BY DEF Inv, CredInv, CredType, BuildAdapter
<1>2. turned' \in BOOLEAN
  BY DEF BuildAdapter
<1>3. Newest(S) \in 0..Len(cred)
  BY <1>1, NewestIs
<1>4. Revoked = {} => Newest(S) = Len(cred)
  <2>1. Revoked = {} => Len(cred) \in S
    BY <1>1, Row DEF Revoked
  <2> QED
    BY <1>1, <2>1, NewestIsLast
<1> HIDE DEF S
<1>5. CredType'
  BY <1>1, <1>2, <1>3 DEF CredType
<1>6. LastInv' /\ ReadInv' /\ AloneInv' /\ PromiseInv' /\ AdapterInv'
  BY <1>1, <1>4 DEF CredInv, LastInv, ReadInv, AloneInv, Live, PromiseInv, Revoked, AdapterInv
<1>7. Clock' /\ KeyInv'
  BY <1>1, KeysKept DEF Clock
<1> QED
  BY <1>5, <1>6, <1>7 DEF Inv, CredInv

\* A revocation marks one credential, and may end it.
LEMMA Revised ==
  ASSUME Inv, NEW k \in 1..MaxKeys, Revoke(k) \/ Delete(k)
  PROVE  /\ Len(cred) \in Nat \ {0} /\ k \in 1..Len(cred)
         /\ cred' \in Seq(Credentials) /\ Len(cred') = Len(cred) /\ DOMAIN cred' = 1..Len(cred)
         /\ cred'[k].revoked
         /\ \A j \in 1..Len(cred) : j # k => cred'[j] = cred[j]
         /\ UNCHANGED <<now, rotation, promises, adapter, turned, keyVars, crossed>>
<1>1. /\ Len(cred) \in Nat \ {0} /\ k \in 1..Len(cred) /\ cred \in Seq(Credentials)
      /\ cred[k] \in Credentials
      /\ UNCHANGED <<now, rotation, promises, adapter, turned, keyVars, crossed>>
  <2>1. CredInv /\ Len(cred) \in Nat \ {0} /\ cred \in Seq(Credentials)
    BY DEF Inv, CredInv, CredType
  <2>2. k <= Len(cred) /\ UNCHANGED <<now, rotation, promises, adapter, turned, keyVars, crossed>>
    BY DEF Revoke, Delete
  <2>3. k \in 1..Len(cred)
    BY <2>1, <2>2, Numbers DEF Inv
  <2> QED
    BY <2>1, <2>2, <2>3, Row
<1>2. PICK e \in Credentials : e.revoked /\ cred' = [cred EXCEPT ![k] = e]
  <2>1. CASE Revoke(k)
    <3>1. now \in 0..Never
      BY Numbers DEF Inv, Clock
    <3>2. [end |-> now, revoked |-> TRUE] \in Credentials
      BY <3>1 DEF Credentials
    <3> QED
      BY <2>1, <3>2 DEF Revoke
  <2>2. CASE Delete(k)
    <3>1. cred' = [cred EXCEPT ![k] = [cred[k] EXCEPT !.revoked = TRUE]]
      BY <2>2 DEF Delete
    <3>2. [cred[k] EXCEPT !.revoked = TRUE] \in Credentials /\ [cred[k] EXCEPT !.revoked = TRUE].revoked
      BY <1>1 DEF Credentials
    <3> QED
      BY <3>1, <3>2
  <2> QED
    BY <2>1, <2>2
<1>3. /\ cred' \in Seq(Credentials) /\ Len(cred') = Len(cred)
      /\ \A j \in 1..Len(cred) : cred'[j] = IF j = k THEN e ELSE cred[j]
  BY <1>1, <1>2, ExceptSeq
<1>4. DOMAIN cred' = 1..Len(cred)
  BY <1>3, LenProperties
<1> QED
  BY <1>1, <1>2, <1>3, <1>4

LEMMA RevokeInv == ASSUME Inv, NEW k \in 1..MaxKeys, Revoke(k) \/ Delete(k) PROVE Inv'
<1> DEFINE n == Len(cred)
<1>1. /\ n \in Nat \ {0} /\ k \in 1..n
      /\ cred' \in Seq(Credentials) /\ Len(cred') = n /\ DOMAIN cred' = 1..n
      /\ cred'[k].revoked
      /\ \A j \in 1..n : j # k => cred'[j] = cred[j]
      /\ UNCHANGED <<now, rotation, promises, adapter, turned, keyVars, crossed>>
  BY Revised
<1>2. CredType /\ LastInv /\ ReadInv /\ AloneInv /\ KeyInv /\ Clock
  BY DEF Inv, CredInv
<1>3. CredType'
  BY <1>1, <1>2 DEF CredType
<1>4. LastInv'
  BY <1>1, <1>2 DEF LastInv
<1>5. ReadInv'
  <2> SUFFICES ASSUME NEW r \in Rotations, rotation[r].pc = "read"
               PROVE  LET p == rotation[r].prev IN
                      /\ p <= n
                      /\ p # 0 => cred'[p].revoked \/ cred'[p].end >= now
    BY <1>1 DEF ReadInv
  <2>1. rotation[r].prev \in Nat
    BY <1>2, Numbers DEF CredType, Requests
  <2> QED
    BY <1>1, <1>2, <2>1 DEF ReadInv
<1>6. AloneInv'
  <2>1. \A j \in 1..n : ~cred'[j].revoked /\ cred'[j].end = Never => Live(j)
    BY <1>1 DEF Live
  <2>2. Live(Len(cred))' => Live(Len(cred))
    BY <1>1, <2>1 DEF Live
  <2> QED
    BY <1>1, <1>2, <2>1, <2>2 DEF AloneInv, Live
<1>7. PromiseInv' /\ AdapterInv'
  <2>1. k \in Revoked'
    BY <1>1 DEF Revoked
  <2> QED
    BY <2>1 DEF PromiseInv, AdapterInv
<1>8. Clock' /\ KeyInv'
  BY <1>1, <1>2, KeysKept DEF Clock
<1> QED
  BY <1>3, <1>4, <1>5, <1>6, <1>7, <1>8 DEF Inv, CredInv

-----------------------------------------------------------------------------
(* Signing keys.                                                            *)

\* The facts that every step of a key needs.
LEMMA Keys ==
  ASSUME Inv
  PROVE  /\ Clock /\ CredInv /\ KeyType /\ SignerInv /\ TokenInv /\ TurnInv /\ ActiveInv
         /\ Len(key) \in Nat /\ DOMAIN key = 1..Len(key) /\ Len(key) <= MaxKeys
         /\ \A k \in 1..Len(key) : key[k] \in 0..Never
<1>1. /\ Clock /\ CredInv /\ KeyType /\ SignerInv /\ TokenInv /\ TurnInv /\ ActiveInv
      /\ key \in Seq(0..Never) /\ Len(key) \in Nat /\ Len(key) <= MaxKeys
  BY DEF Inv, KeyInv, KeyType
<1> QED
  BY <1>1, LenProperties, ElementOfSeq

\* What a request holds between its read and its write.
LEMMA Request ==
  ASSUME NEW step \in {"read", "mint", "sign"}, NEW k \in 0..MaxKeys
  PROVE  LET e == [Idle EXCEPT !.pc = step, !.prev = k] IN
         e \in Requests /\ e.pc = step /\ e.prev = k
<1>1. 0 \in 0..KeyGrace
  OBVIOUS
<1> QED
  BY <1>1 DEF Idle, Requests

\* Who finds an active key signs with it; who finds none mints one.
LEMMA SignReadsInv == ASSUME Inv, NEW s \in Signers, SignReads(s) PROVE Inv'
<1> DEFINE row == [Idle EXCEPT !.pc = IF Active = {} THEN "mint" ELSE "sign", !.prev = Newest(Active)]
<1>1. /\ signing' = [signing EXCEPT ![s] = row]
      /\ UNCHANGED <<now, credVars, key, turning, tokens>>
  BY DEF SignReads
<1>2. crossed' = (crossed \/ (Active = {} /\ ~AllIdle))
  BY DEF SignReads
<1>3. /\ Newest(Active) \in 0..Len(key) /\ Active \in SUBSET (1..Len(key))
      /\ Active # {} => Newest(Active) \in Active
  BY Keys, NewestIs DEF Active
<1>4. /\ row.pc = IF Active = {} THEN "mint" ELSE "sign"
      /\ row.prev = Newest(Active)
      /\ row \in Requests
  <2>1. Newest(Active) \in 0..MaxKeys
    BY <1>3, Keys, Numbers
  <2>2. (IF Active = {} THEN "mint" ELSE "sign") \in {"read", "mint", "sign"}
    OBVIOUS
  <2> QED
    BY <2>1, <2>2, Request
<1> HIDE DEF row
<1>5. /\ signing'[s] = row /\ signing' \in [Signers -> Requests]
      /\ \A q \in Signers : q # s => signing'[q] = signing[q]
  BY <1>1, <1>4, Keys DEF KeyType
<1>6. KeyType' /\ TokenInv' /\ TurnInv'
  BY <1>1, <1>5, Keys DEF KeyType, TokenInv, TurnInv
<1>7. SignerInv'
  <2>1. row.pc = "sign" => row.prev \in 1..Len(key) /\ key[row.prev] = Never
    BY <1>3, <1>4 DEF Active
  <2>2. Never >= now + KeyGrace
    BY Keys, Numbers
  <2> QED
    BY <1>1, <1>5, <2>1, <2>2, Keys DEF SignerInv
<1>8. ActiveInv'
  <2> SUFFICES ASSUME ~crossed' PROVE ActiveInv'
    BY DEF ActiveInv
  <2>1. ~crossed /\ (Active = {} => AllIdle)
    BY <1>2
  <2>2. CASE Active = {}
    <3>1. /\ \A q \in Signers : signing[q].pc # "mint"
          /\ \A r \in Rotations : turning[r].pc # "read"
      BY <2>1, <2>2 DEF AllIdle, Idle
    <3>2. \A k \in 1..Len(key) : key[k] # Never
      BY <2>2 DEF Active
    <3> QED
      BY <1>1, <1>5, <3>1, <3>2 DEF ActiveInv
  <2>3. CASE Active # {}
    <3>1. \A q \in Signers : signing'[q].pc = "mint" => signing[q].pc = "mint"
      BY <1>4, <1>5, <2>3
    <3> QED
      BY <1>1, <2>1, <3>1, Keys DEF ActiveInv
  <2> QED
    BY <2>2, <2>3
<1>9. Clock' /\ CredInv'
  <2>1. crossed' \in BOOLEAN /\ (crossed => crossed')
    BY <1>2
  <2> QED
    BY <1>1, <2>1, Keys, CredentialsKept DEF Clock
<1> QED
  BY <1>6, <1>7, <1>8, <1>9 DEF Inv, KeyInv

\* Who mints is alone with that, unless requests crossed.
LEMMA MintKeyInv == ASSUME Inv, NEW s \in Signers, MintKey(s) PROVE Inv'
<1> DEFINE n == Len(key)
           row == [pc |-> "sign", prev |-> n + 1, grace |-> 0]
<1>1. /\ signing[s].pc = "mint" /\ n < MaxKeys /\ key' = Append(key, Never)
      /\ signing' = [signing EXCEPT ![s] = row]
      /\ UNCHANGED <<now, credVars, turning, tokens, crossed>>
  BY DEF MintKey
<1>2. n \in Nat /\ key \in Seq(0..Never) /\ Never \in 0..Never
  BY Keys, Numbers DEF KeyType
<1>3. /\ key' \in Seq(0..Never) /\ Len(key') = n + 1 /\ key'[n + 1] = Never
      /\ \A k \in 1..n : key'[k] = key[k]
  BY <1>1, <1>2, Appended
<1>4. row \in Requests /\ row.pc = "sign" /\ row.prev = n + 1
  <2>1. n + 1 \in 0..MaxKeys /\ 0 \in 0..KeyGrace
    BY <1>1, <1>2, Keys, Numbers
  <2> HIDE DEF n
  <2> QED
    BY <2>1 DEF Requests
<1> HIDE DEF row, n
<1>5. /\ signing'[s] = row /\ signing' \in [Signers -> Requests]
      /\ \A q \in Signers : q # s => signing'[q] = signing[q]
  BY <1>1, <1>4, Keys DEF KeyType
<1>6. KeyType'
  <2>1. n + 1 \in 0..MaxKeys
    BY <1>1, <1>2, Keys, Numbers
  <2>2. tokens \subseteq (1..n + 1) \X Nat
    BY <1>2, Keys DEF KeyType, n
  <2> QED
    BY <1>1, <1>3, <1>5, <2>1, <2>2, Keys DEF KeyType
<1>7. TokenInv' /\ TurnInv'
  <2>1. \A t \in tokens : t[1] \in 1..n
    BY Keys DEF KeyType, n
  <2>2. \A r \in Rotations : turning[r].pc = "read" => turning[r].prev <= n /\ turning[r].prev \in Nat
    BY Keys, Numbers DEF KeyType, TurnInv, Requests, n
  <2>3. TokenInv'
    BY <1>1, <1>3, <2>1, Keys DEF TokenInv
  <2> QED
    BY <1>1, <1>2, <1>3, <2>2, <2>3 DEF TurnInv
<1>8. SignerInv'
  <2>1. Never >= now + KeyGrace /\ n + 1 \in 1..n + 1
    BY <1>2, Keys, Numbers
  <2> QED
    BY <1>1, <1>2, <1>3, <1>4, <1>5, <2>1, Keys DEF SignerInv, n
<1>9. ActiveInv'
  <2> SUFFICES ASSUME ~crossed' PROVE ActiveInv'
    BY DEF ActiveInv
  <2>1. ~crossed
    BY <1>1
  <2>2. /\ \A k \in 1..n : key[k] # Never
        /\ \A q \in Signers : signing[q].pc = "mint" => q = s
        /\ \A r \in Rotations : turning[r].pc # "read"
    BY <1>1, <2>1, Keys DEF ActiveInv, n
  <2>3. ASSUME NEW k \in 1..n + 1, key'[k] = Never PROVE k = n + 1
    <3>1. k \in 1..n => key'[k] = key[k] /\ key[k] # Never
      BY <1>3, <2>2
    <3>2. k \in 1..n \/ k = n + 1
      BY <1>2
    <3> QED
      BY <2>3, <3>1, <3>2
  <2>4. \A q \in Signers : signing'[q].pc # "mint"
    BY <1>4, <1>5, <2>2
  <2> QED
    BY <1>1, <1>3, <2>2, <2>3, <2>4 DEF ActiveInv
<1>10. Clock' /\ CredInv'
  BY <1>1, Keys, CredentialsKept DEF Clock
<1> QED
  BY <1>6, <1>7, <1>8, <1>9, <1>10 DEF Inv, KeyInv

\* The key that signs stays published for longer than the token lives.
LEMMA SignInv == ASSUME Inv, NEW s \in Signers, Sign(s) PROVE Inv'
<1> DEFINE k == signing[s].prev
<1>1. /\ signing[s].pc = "sign" /\ signing' = [signing EXCEPT ![s] = Idle]
      /\ tokens' = tokens \cup {<<k, now + Life>>}
      /\ UNCHANGED <<now, credVars, key, turning, crossed>>
  BY DEF Sign
<1>2. k \in 1..Len(key) /\ key[k] >= now + KeyGrace /\ key[k] \in Nat
  BY <1>1, Keys, Numbers DEF SignerInv
<1>3. now \in Nat /\ now + Life \in Nat /\ now + Life <= now + KeyGrace
  BY Keys, Numbers
<1> HIDE DEF k
<1>4. Idle \in Requests /\ Idle.pc = "idle"
  BY Keys, Numbers DEF Idle, Requests
<1>5. /\ signing'[s] = Idle /\ signing' \in [Signers -> Requests]
      /\ \A q \in Signers : q # s => signing'[q] = signing[q]
  BY <1>1, <1>4, Keys DEF KeyType
<1>6. KeyType'
  <2>1. tokens' \subseteq (1..Len(key)) \X Nat
    BY <1>1, <1>2, <1>3, Keys DEF KeyType
  <2> QED
    BY <1>1, <1>5, <2>1, Keys DEF KeyType
<1>7. TokenInv'
  <2> SUFFICES ASSUME NEW t \in tokens' PROVE key[t[1]] >= t[2] /\ t[2] <= now + Life
    BY <1>1 DEF TokenInv
  <2>1. CASE t \in tokens
    BY <2>1, Keys DEF TokenInv
  <2>2. CASE t = <<k, now + Life>>
    <3>1. key[k] >= now + Life
      BY <1>2, <1>3, Numbers, Keys
    <3> QED
      BY <1>3, <2>2, <3>1
  <2> QED
    BY <1>1, <2>1, <2>2
<1>8. SignerInv' /\ TurnInv' /\ ActiveInv'
  BY <1>1, <1>4, <1>5, Keys DEF SignerInv, TurnInv, ActiveInv
<1>9. Clock' /\ CredInv'
  BY <1>1, Keys, CredentialsKept DEF Clock
<1> QED
  BY <1>6, <1>7, <1>8, <1>9 DEF Inv, KeyInv

\* A rotation that crosses no other has the one active key in hand, if there is one.
LEMMA KeyReadsInv == ASSUME Inv, NEW r \in Rotations, KeyReads(r) PROVE Inv'
<1> DEFINE row == [Idle EXCEPT !.pc = "read", !.prev = Newest(Active)]
<1>1. turning' = [turning EXCEPT ![r] = row] /\ UNCHANGED <<now, credVars, key, signing, tokens>>
  BY DEF KeyReads
<1>2. crossed' = (crossed \/ (\E q \in Rotations : turning[q] # Idle)
                          \/ (\E s \in Signers : signing[s].pc = "mint"))
  BY DEF KeyReads
<1>3. /\ Newest(Active) \in 0..Len(key) /\ Active \in SUBSET (1..Len(key))
      /\ Active # {} => Newest(Active) \in Active
  BY Keys, NewestIs DEF Active
<1>4. row.pc = "read" /\ row.prev = Newest(Active) /\ row \in Requests
  <2>1. Newest(Active) \in 0..MaxKeys
    BY <1>3, Keys, Numbers
  <2> QED
    BY <2>1, Request
<1> HIDE DEF row
<1>5. /\ turning'[r] = row /\ turning' \in [Rotations -> Requests]
      /\ \A q \in Rotations : q # r => turning'[q] = turning[q]
  BY <1>1, <1>4, Keys DEF KeyType
<1>6. KeyType' /\ TokenInv' /\ SignerInv'
  BY <1>1, <1>5, Keys DEF KeyType, TokenInv, SignerInv
<1>7. TurnInv'
  BY <1>1, <1>3, <1>4, <1>5, Keys DEF TurnInv
<1>8. ActiveInv'
  <2> SUFFICES ASSUME ~crossed' PROVE ActiveInv'
    BY DEF ActiveInv
  <2>1. /\ ~crossed /\ \A s \in Signers : signing[s].pc # "mint"
        /\ \A q \in Rotations : turning[q] = Idle
    BY <1>2
  <2>2. \A q \in Rotations : turning[q].pc # "read"
    BY <2>1 DEF Idle
  <2>3. \A j, k \in 1..Len(key) : key[j] = Never /\ key[k] = Never => j = k
    BY <2>1, Keys DEF ActiveInv
  <2>4. \A k \in 1..Len(key) : key[k] = Never => k = row.prev
    BY <1>3, <1>4, <2>3 DEF Active
  <2> QED
    BY <1>1, <1>5, <2>1, <2>2, <2>3, <2>4 DEF ActiveInv
<1>9. Clock' /\ CredInv'
  <2>1. crossed' \in BOOLEAN /\ (crossed => crossed')
    BY <1>2
  <2> QED
    BY <1>1, <2>1, Keys, CredentialsKept DEF Clock
<1> QED
  BY <1>6, <1>7, <1>8, <1>9 DEF Inv, KeyInv

\* The retired key is published for a grace that no token outlives.
LEMMA KeyCommitsInv == ASSUME Inv, NEW r \in Rotations, KeyCommits(r) PROVE Inv'
<1> DEFINE n == Len(key)
           p == turning[r].prev
<1>1. /\ turning[r].pc = "read" /\ n < MaxKeys /\ turning' = [turning EXCEPT ![r] = Idle]
      /\ key' = [k \in 1..n + 1 |-> IF k > n THEN Never
                                    ELSE IF k = p THEN now + KeyGrace ELSE key[k]]
      /\ UNCHANGED <<now, credVars, signing, tokens, crossed>>
  BY DEF KeyCommits
<1>2. /\ n \in Nat /\ p \in 0..n /\ \A k \in 1..n : key[k] \in 0..Never
      /\ \A t \in tokens : t[1] \in 1..n /\ t[2] \in Nat
  BY SMTT(30), <1>1, Keys, Numbers DEF KeyType, TurnInv, Requests
<1>3. now + KeyGrace \in 0..Never /\ Never \in 0..Never /\ now + KeyGrace # Never
      /\ now + KeyGrace \in Nat /\ Never > now + KeyGrace /\ now + Life <= now + KeyGrace
      /\ now \in Nat /\ Life \in Nat
  BY Keys, Numbers
<1> HIDE DEF n, p
<1>4. key' \in [1..n + 1 -> 0..Never]
  BY <1>1, <1>2, <1>3
<1>5. /\ key' \in Seq(0..Never) /\ Len(key') = n + 1 /\ key'[n + 1] = Never
      /\ \A k \in 1..n : key'[k] = IF k = p THEN now + KeyGrace ELSE key[k]
  <2>1. key' \in Seq(0..Never) /\ Len(key') = n + 1
    <3>1. n + 1 \in Nat
      BY <1>2
    <3> QED
      BY <1>4, <3>1, Sequence, Zenon
  <2> QED
    BY <1>1, <1>2, <2>1
<1>6. /\ turning'[r].pc # "read" /\ turning' \in [Rotations -> Requests]
      /\ \A q \in Rotations : q # r => turning'[q] = turning[q]
  <2>1. Idle \in Requests /\ Idle.pc = "idle"
    BY Keys, Numbers DEF Idle, Requests
  <2> QED
    BY <1>1, <2>1, Keys DEF KeyType
<1>7. KeyType'
  <2>1. n + 1 \in 0..MaxKeys
    BY <1>1, <1>2, Keys, Numbers
  <2>2. tokens \subseteq (1..n + 1) \X Nat
    BY <1>2, Keys DEF KeyType, n
  <2> QED
    BY <1>1, <1>5, <1>6, <2>1, <2>2, Keys DEF KeyType
<1>8. TokenInv'
  <2> SUFFICES ASSUME NEW t \in tokens PROVE key'[t[1]] >= t[2] /\ t[2] <= now + Life
    BY <1>1 DEF TokenInv
  <2>1. key[t[1]] >= t[2] /\ t[2] <= now + Life /\ t[1] \in 1..n /\ t[2] \in Nat
    BY <1>2, Keys DEF TokenInv
  <2> QED
    BY <1>3, <1>5, <2>1
<1>9. SignerInv'
  <2> SUFFICES ASSUME NEW s \in Signers, signing[s].pc = "sign"
               PROVE  signing[s].prev \in 1..n + 1 /\ key'[signing[s].prev] >= now + KeyGrace
    BY <1>1, <1>5 DEF SignerInv
  <2>1. signing[s].prev \in 1..n /\ key[signing[s].prev] >= now + KeyGrace
    BY Keys DEF SignerInv, n
  <2> QED
    BY SMTT(30), <1>2, <1>3, <1>5, <2>1
<1>10. TurnInv'
  <2>1. \A q \in Rotations : turning[q].prev \in Nat
    BY Keys, Numbers DEF KeyType, Requests
  <2> QED
    BY <1>2, <1>5, <1>6, <2>1, Keys DEF TurnInv, n
<1>11. ActiveInv'
  <2> SUFFICES ASSUME ~crossed' PROVE ActiveInv'
    BY DEF ActiveInv
  <2>1. ~crossed
    BY <1>1
  <2>2. /\ \A s \in Signers : signing[s].pc # "mint"
        /\ \A q \in Rotations : turning[q].pc = "read" => q = r
        /\ \A k \in 1..n : key[k] = Never => k = p
    BY <1>1, <2>1, Keys DEF ActiveInv, n, p
  <2>3. \A k \in 1..n + 1 : key'[k] = Never => k = n + 1
    BY <1>2, <1>3, <1>5, <2>2
  <2>4. \A q \in Rotations : turning'[q].pc # "read"
    BY <1>6, <2>2
  <2> QED
    BY <1>1, <1>5, <2>2, <2>3, <2>4 DEF ActiveInv
<1>12. Clock' /\ CredInv'
  BY <1>1, Keys, CredentialsKept DEF Clock
<1> QED
  BY <1>7, <1>8, <1>9, <1>10, <1>11, <1>12 DEF Inv, KeyInv

-----------------------------------------------------------------------------
(* Every step, and what follows.                                            *)

LEMMA NextInv == ASSUME Inv, [CredentialNext \/ KeyNext]_rotationVars PROVE Inv'
<1>1. CASE CredentialNext
  BY <1>1, TickInv, AddBesideInv, BuildAdapterInv, RotateReadsInv, RotateCommitsInv, RevokeInv
     DEF CredentialNext
<1>2. CASE KeyNext
  BY <1>2, TickInv, KeyReadsInv, KeyCommitsInv, SignReadsInv, MintKeyInv, SignInv DEF KeyNext
<1>3. CASE UNCHANGED rotationVars
  <2>1. Clock' /\ CredInv'
    BY <1>3, CredentialsKept DEF rotationVars, Inv, Clock
  <2>2. KeyInv'
    BY <1>3, KeysKept DEF rotationVars, Inv
  <2> QED
    BY <2>1, <2>2 DEF Inv
<1> QED
  BY <1>1, <1>2, <1>3

LEMMA SpecInv == RotationSpec => []Inv
<1>1. Init => Inv
  BY InitInv
<1>2. Inv /\ [CredentialNext \/ KeyNext]_rotationVars => Inv'
  BY NextInv
<1> QED
  BY <1>1, <1>2, PTL DEF RotationSpec

\* A set whose members are all the same has one at most.
LEMMA AtMostOne ==
  ASSUME NEW S, \A j, k \in S : j = k
  PROVE  Cardinality(S) <= 1
<1>1. CASE S = {}
  BY <1>1, FS_EmptySet
<1>2. CASE S # {}
  <2>1. PICK k \in S : TRUE
    BY <1>2
  <2>2. S = {k}
    BY <2>1
  <2>3. Cardinality(S) = 1
    BY <2>2, FS_Singleton
  <2> QED
    BY <2>3
<1> QED
  BY <1>1, <1>2

\* The invariant implies each part of the property.
LEMMA Seamless == ASSUME Inv PROVE RotationIsSeamless
<1>1. /\ Clock /\ CredType /\ LastInv /\ AloneInv /\ PromiseInv /\ AdapterInv
      /\ KeyType /\ TokenInv /\ ActiveInv
      /\ Len(cred) \in 1..Len(cred) /\ DOMAIN cred = 1..Len(cred)
  BY Keys, LenProperties DEF Inv, CredInv, CredType
<1>2. TypeOK
  BY <1>1 DEF TypeOK, Clock, CredType, KeyType
<1>3. AlwaysACredential
  BY <1>1 DEF AlwaysACredential, LastInv, Revoked
<1>4. PromisedGrace
  BY <1>1 DEF PromisedGrace, PromiseInv
<1>5. OldOnesRetire
  <2> SUFFICES ASSUME ~crossed
               PROVE  Cardinality({k \in DOMAIN cred : cred[k].end = Never /\ k \notin Revoked}) <= 1
    BY DEF OldOnesRetire
  <2> DEFINE S == {k \in DOMAIN cred : cred[k].end = Never /\ k \notin Revoked}
  <2>1. \A k \in S : k = Len(cred)
    BY <1>1 DEF AloneInv, Live, Revoked
  <2> HIDE DEF S
  <2>2. Cardinality(S) <= 1
    BY <2>1, AtMostOne
  <2> QED
    BY <2>2 DEF S
<1>6. AdapterSigns
  <2>1. Revoked = {} => cred[Len(cred)].end = Never
    BY <1>1 DEF LastInv, Revoked
  <2> QED
    BY <1>1, <2>1 DEF AdapterSigns, AdapterInv
<1>7. TokenLives
  <2> SUFFICES ASSUME NEW t \in tokens, t[2] > now PROVE Verifies(t)
    BY DEF TokenLives
  <2>1. /\ t[1] \in 1..Len(key) /\ t[2] \in Nat /\ key[t[1]] >= t[2]
        /\ now \in Nat /\ key[t[1]] \in Nat
    BY <1>1, Keys, Numbers DEF KeyType, TokenInv
  <2> QED
    BY <2>1 DEF Verifies, Jwks, Published
<1>8. OneActiveKey
  <2> SUFFICES ASSUME ~crossed PROVE Cardinality(Active) <= 1
    BY DEF OneActiveKey
  <2>1. \A j, k \in Active : j = k
    BY <1>1 DEF ActiveInv, Active
  <2> QED
    BY <2>1, AtMostOne
<1> QED
  BY <1>2, <1>3, <1>4, <1>5, <1>6, <1>7, <1>8 DEF RotationIsSeamless

\* Rotating credentials and keys leaves no gap: there is a credential that does not end,
\* the others keep their promised grace and die out, an engine that starts signs with one
\* that lives, and a launch token verifies as long as it lives.
THEOREM RotationIsSeamlessHolds == RotationSpec => []RotationIsSeamless
<1>1. Inv => RotationIsSeamless
  BY Seamless
<1> QED
  BY <1>1, SpecInv, PTL

\* No step accepts a credential again that operatorAuth would have rejected.
LEMMA Rejected ==
  ASSUME Inv, [CredentialNext \/ KeyNext]_rotationVars, NEW k \in DOMAIN cred, ~Accepted(k)
  PROVE  k \in DOMAIN cred' /\ ~Accepted(k)'
<1>1. /\ CredInv /\ CredType /\ ReadInv /\ Clock /\ k \in 1..Len(cred) /\ now \in Nat
      /\ cred[k].end \in Nat
  <2>1. CredInv /\ CredType /\ ReadInv /\ Clock /\ k \in 1..Len(cred)
    BY LenProperties DEF Inv, CredInv, CredType
  <2> QED
    BY <2>1, Row, Numbers
<1>2. cred[k].revoked \/ cred[k].end < now
  BY <1>1 DEF Accepted
<1>3. CASE UNCHANGED <<cred, now>>
  BY <1>2, <1>3 DEF Accepted
<1>4. CASE Tick
  BY <1>1, <1>2, <1>4 DEF Tick, credVars, Accepted
<1>5. CASE AddBeside
  <2>1. /\ cred' \in Seq(Credentials) /\ Len(cred') = Len(cred) + 1
        /\ \A j \in 1..Len(cred) + 1 : cred'[j] = IF j <= Len(cred) THEN cred[j] ELSE Fresh
    BY <1>1, <1>5, Appended, FreshIs DEF AddBeside, CredType
  <2>2. cred'[k] = cred[k] /\ k \in DOMAIN cred' /\ now' = now
    BY <1>1, <1>5, <2>1, LenProperties DEF AddBeside
  <2> QED
    BY <1>2, <2>2 DEF Accepted
<1>6. ASSUME NEW r \in Rotations, RotateCommits(r) PROVE k \in DOMAIN cred' /\ ~Accepted(k)'
  <2>1. /\ rotation[r].pc = "read" /\ rotation[r].prev \in 0..Len(cred)
        /\ DOMAIN cred' = 1..Len(cred) + 1 /\ cred'[k].revoked = cred[k].revoked
        /\ cred'[k].end = IF k = rotation[r].prev THEN now + rotation[r].grace ELSE cred[k].end
    BY <1>1, <1>6, Committed
  <2>2. k = rotation[r].prev => cred[k].revoked
    BY <1>1, <1>2, <2>1 DEF ReadInv
  <2>3. now' = now
    BY <1>6 DEF RotateCommits
  <2> QED
    BY <1>1, <1>2, <2>1, <2>2, <2>3 DEF Accepted
<1>7. ASSUME NEW j \in 1..MaxKeys, Revoke(j) \/ Delete(j) PROVE k \in DOMAIN cred' /\ ~Accepted(k)'
  <2>1. /\ DOMAIN cred' = 1..Len(cred) /\ cred'[j].revoked /\ now' = now
        /\ \A i \in 1..Len(cred) : i # j => cred'[i] = cred[i]
    BY <1>7, Revised
  <2> QED
    BY <1>1, <1>2, <2>1 DEF Accepted
<1>8. \/ UNCHANGED <<cred, now>> \/ Tick \/ AddBeside
      \/ \E r \in Rotations : RotateCommits(r)
      \/ \E j \in 1..MaxKeys : Revoke(j) \/ Delete(j)
  BY DEF CredentialNext, KeyNext, rotationVars, credVars, BuildAdapter, RotateReads, KeyReads,
         KeyCommits, SignReads, MintKey, Sign
<1> QED
  BY <1>3, <1>4, <1>5, <1>6, <1>7, <1>8

\* A credential that operatorAuth rejects, revoked or past its end, is rejected for ever:
\* no rotation that read it before gives it another life.
THEOREM RejectedStaysRejectedHolds == RotationSpec => RejectedStaysRejected
<1>1. Inv /\ [CredentialNext \/ KeyNext]_rotationVars =>
        [\A k \in DOMAIN cred : ~Accepted(k) => k \in DOMAIN cred' /\ ~Accepted(k)']_rotationVars
  BY Rejected
<1> QED
  BY <1>1, SpecInv, PTL DEF RotationSpec, RejectedStaysRejected

-----------------------------------------------------------------------------
(* What was refused stays refused.                                          *)

\* Credentials and keys are a part of what runs at the edge, and the others leave it alone.
LEMMA RotationIsAPart == Spec => RotationSpec
<1>1. ConsoleInit => Init
  BY DEF ConsoleInit
<1>2. [ConsoleNext]_allVars => [CredentialNext \/ KeyNext]_rotationVars
  BY DEF ConsoleNext, allVars, PortalOnly, RegistryOnly, DiceOnly, CrashOnly
<1> QED
  BY <1>1, <1>2, PTL DEF Spec, RotationSpec

\* Of all steps one accepts an invitation.
LEMMA OnlyOpenIsAccepted ==
  ASSUME PortalInv, [ConsoleNext]_allVars
  PROVE  \A i \in DOMAIN invite :
           ~P!Open(i) /\ invite'[i].accepted /\ ~invite[i].accepted => invite[i].email \in met
<1> SUFFICES ASSUME NEW i \in DOMAIN invite, ~P!Open(i), invite'[i].accepted, ~invite[i].accepted
             PROVE  invite[i].email \in met
  OBVIOUS
<1>1. ASSUME NEW h \in Handlers, P!AcceptCommits(h) PROVE invite[i].email \in met
  <2>1. PICK e, k : e = handler[h].email /\ k = handler[h].at
    OBVIOUS
  <2>2. handler[h].kind = "accept" /\ invite' \in {invite, [invite EXCEPT ![k].accepted = TRUE]}
    BY <1>1, <2>1 DEF P!AcceptCommits, P!In
  <2>3. e \in Emails /\ k \in DOMAIN invite /\ invite[k].email = e /\ Busy(h)
    BY <2>1, <2>2 DEF PortalInv, HandlerInv, Closing, Busy
  <2>4. i = k
    BY <2>2, <2>3, InviteRows
  <2>5. e \notin met => P!Open(k)
    BY <2>1, <2>2, <2>3 DEF PortalInv, OpenInv
  <2> QED
    BY <2>3, <2>4, <2>5
<1>2. ASSUME invite'[i].accepted = invite[i].accepted PROVE FALSE
  BY <1>2
<1>3. CASE UNCHANGED invite
  BY <1>2, <1>3
<1>4. ASSUME NEW k \in DOMAIN invite, P!InviteExpires(k) PROVE FALSE
  <2>1. invite' = [invite EXCEPT ![k].expired = TRUE]
    BY <1>4 DEF P!InviteExpires
  <2>2. invite'[i].accepted = invite[i].accepted
    BY <2>1, InviteRows DEF InviteRow
  <2> QED
    BY <1>2, <2>2
<1>5. ASSUME NEW h \in Handlers, P!InviteRevokes(h) PROVE FALSE
  <2>1. invite' = [j \in DOMAIN invite |-> IF j \in P!OpenFor(handler[h].email)
                                             THEN [invite[j] EXCEPT !.revoked = TRUE] ELSE invite[j]]
    BY <1>5 DEF P!InviteRevokes
  <2>2. invite'[i] = IF i \in P!OpenFor(handler[h].email) THEN [invite[i] EXCEPT !.revoked = TRUE] ELSE invite[i]
    BY <2>1
  <2>3. invite'[i].accepted = invite[i].accepted
    BY <2>2, InviteRows DEF InviteRow
  <2> QED
    BY <1>2, <2>3
<1>6. ASSUME NEW h \in Handlers, P!InviteCreates(h) PROVE FALSE
  <2>1. PICK x : invite' = Append(invite, x)
    BY <1>6 DEF P!InviteCreates
  <2>2. invite'[i] = invite[i]
    BY <2>1, InviteRows
  <2> QED
    BY <1>2, <2>2
<1>7. ASSUME NEW h \in Handlers, P!RevokeWrites(h) PROVE FALSE
  <2>1. PICK k : invite' = [invite EXCEPT ![k].revoked = TRUE]
    BY <1>7 DEF P!RevokeWrites
  <2>2. invite'[i].accepted = invite[i].accepted
    BY <2>1, InviteRows DEF InviteRow
  <2> QED
    BY <1>2, <2>2
<1>8. CASE P!InviteNext
  BY <1>1, <1>3, <1>4, <1>5, <1>6, <1>7, <1>8 DEF P!InviteNext, P!InviteLooks, P!RevokeLooks, P!AcceptLooks
<1>9. CASE P!FactorNext
  BY <1>3, <1>9 DEF P!FactorNext, P!Disable, P!MfaDisable, P!PasskeyDeleted, P!RegisterBegins, P!PasskeyLoginBegins,
                    P!ChallengeExpires, P!MfaLooks, P!ConfirmLooks, P!LoginReads, P!ChallengeFound, P!MfaStores,
                    P!ConfirmWrites, P!LoginDecides, P!CodeChecked, P!Authenticated, P!Registered
<1> QED
  BY <1>3, <1>8, <1>9 DEF ConsoleNext, allVars, portalVars, KeysOnly, RegistryOnly, DiceOnly, CrashOnly

\* Of all steps one opens a session for a password alone.
LEMMA PasswordAloneIsAsked ==
  ASSUME PortalInv, [ConsoleNext]_allVars, Len(granted') > Len(granted), granted'[Len(granted')].by = "password"
  PROVE  LET e == granted'[Len(granted')].email IN
         e \in met \/ (~user[e].enrolled /\ user[e].passkeys = 0)
<1>1. /\ granted \in Seq(GrantRow) /\ Len(granted) \in Nat
      /\ \A e, by, c : LET x == [email |-> e, by |-> by, at |-> c] IN
           granted' = Append(granted, x) => granted'[Len(granted')] = x
  <2>1. granted \in Seq(GrantRow) /\ Len(granted) \in Nat
    BY GrantRows
  <2>2. \A x : Append(granted, x)[Len(Append(granted, x))] = x
    BY <2>1
  <2> QED
    BY <2>1, <2>2
<1>2. ASSUME NEW h \in Handlers, P!LoginDecides(h)
      PROVE  LET e == granted'[Len(granted')].email IN
             e \in met \/ (~user[e].enrolled /\ user[e].passkeys = 0)
  <2>1. PICK e : e = handler[h].email
    OBVIOUS
  <2>2. /\ handler[h].kind = "login" /\ ~handler[h].second /\ ~(user[e].passkeys > 0)
        /\ granted' = Append(granted, [email |-> e, by |-> "password", at |-> 0])
    BY <1>1, <1>2, <2>1 DEF P!LoginDecides, P!In, P!Grant
  <2>3. e \in Emails /\ Busy(h)
    BY <2>1, <2>2 DEF PortalInv, HandlerInv, Busy
  <2>4. e \notin met => ~user[e].enrolled
    BY <2>1, <2>2, <2>3 DEF PortalInv, FactorInv
  <2>5. user[e].passkeys = 0
    BY <2>2, <2>3, UserRows DEF UserRow
  <2>6. granted'[Len(granted')].email = e
    BY <1>1, <2>2
  <2> QED
    BY <2>4, <2>5, <2>6
<1>3. ASSUME NEW e, NEW by \in {"invite", "code", "passkey"}, NEW c,
             granted' = Append(granted, [email |-> e, by |-> by, at |-> c])
      PROVE  FALSE
  BY <1>1, <1>3
<1>4. CASE UNCHANGED granted
  BY <1>1, <1>4
<1>5. CASE P!InviteNext
  BY <1>3, <1>4, <1>5 DEF P!InviteNext, P!InviteExpires, P!InviteLooks, P!RevokeLooks, P!AcceptLooks, P!InviteRevokes,
                    P!InviteCreates, P!RevokeWrites, P!AcceptCommits, P!AcceptOpens
<1>6. CASE P!FactorNext
  BY <1>2, <1>3, <1>4, <1>6 DEF P!FactorNext, P!Disable, P!MfaDisable, P!PasskeyDeleted, P!RegisterBegins,
                    P!PasskeyLoginBegins, P!ChallengeExpires, P!MfaLooks, P!ConfirmLooks, P!LoginReads,
                    P!ChallengeFound, P!MfaStores, P!ConfirmWrites, P!CodeChecked, P!Authenticated, P!Registered,
                    P!PasskeyOpens, P!Grant
<1> QED
  BY <1>4, <1>5, <1>6 DEF ConsoleNext, allVars, portalVars, KeysOnly, RegistryOnly, DiceOnly, CrashOnly

\* An ended credential gets no other life, a closed invitation makes nobody and a password
\* alone opens nothing of a user who has a second factor, but for requests under way.
THEOREM NoWayBackHolds == Spec => NoWayBack
<1>1. PortalInv /\ [ConsoleNext]_allVars =>
        [\A i \in DOMAIN invite :
           ~P!Open(i) /\ invite'[i].accepted /\ ~invite[i].accepted => invite[i].email \in met]_(P!portalVars)
  BY OnlyOpenIsAccepted
<1>2. PortalInv /\ [ConsoleNext]_allVars =>
        [Len(granted') > Len(granted) /\ granted'[Len(granted')].by = "password" =>
           LET e == granted'[Len(granted')].email IN
           e \in met \/ (~user[e].enrolled /\ user[e].passkeys = 0)]_(P!portalVars)
  BY PasswordAloneIsAsked
<1>3. Spec => P!ClosedInviteIsDead
  BY <1>1, PortalBehaves, PTL DEF Spec, P!ClosedInviteIsDead
<1>4. Spec => P!SecondFactorAsked
  BY <1>2, PortalBehaves, PTL DEF Spec, P!SecondFactorAsked
<1>5. Spec => RejectedStaysRejected
  BY RotationIsAPart, RejectedStaysRejectedHolds, PTL
<1> QED
  BY <1>3, <1>4, <1>5, PTL DEF NoWayBack

=============================================================================
