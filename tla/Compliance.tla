----------------------------- MODULE Compliance -----------------------------
(* What the server derives from its certificates and its clock: the gate    *)
(* before an engine starts, the coverage page and the boot check of the     *)
(* same registry, and the skew measured over NTP.  Pure operators; a        *)
(* certificate's expiry is the days it has left.                            *)
EXTENDS Integers, FiniteSets

CONSTANTS None,                     \* no rngVersion on the certificate
          Soon, SoonAtBoot,         \* expiringSoon: 30 days on the page, 60 at boot
          Epoch, Width,             \* NTP: seconds from 1900 to 1970, 2^32
          Warn, Alert               \* CLOCK_SKEW_WARN_MS, CLOCK_SKEW_ERROR_MS

-----------------------------------------------------------------------------
(* Certificates.                                                            *)

\* classifyExpiry().
Classify(c) ==
    IF c.revoked THEN "revoked"
    ELSE IF c.days <= 0 THEN "expired"
    ELSE IF c.days < Soon THEN "expiring" ELSE "valid"

\* A certificate of the operator's jurisdiction, or of all.
Covers(c, game, jur) == c.game = game /\ c.jur \in {jur, "MULTI"}

\* Mutant: a revoked certificate counts.
CoverageAny(certs, game, jur) ==
    LET matching == {c \in certs : Covers(c, game, jur)}
        best == CHOOSE c \in matching : \A d \in matching : d.days <= c.days
    IN IF matching = {} THEN "missing" ELSE
       LET s == Classify([best EXCEPT !.revoked = FALSE]) IN IF s = "valid" THEN "covered" ELSE s

\* GET /certificates/coverage: the best of what is not revoked.
Coverage(certs, game, jur) ==
    LET matching == {c \in certs : ~c.revoked /\ Covers(c, game, jur)}
        best == CHOOSE c \in matching : \A d \in matching : d.days <= c.days
    IN IF matching = {} THEN "missing"
       ELSE IF Classify(best) = "valid" THEN "covered" ELSE Classify(best)

\* checkCertificateCoverage() at boot takes any that is live: what it may warn of.
BootFinds(certs, game, jur) ==
    LET live == {c \in certs : ~c.revoked /\ c.days > 0 /\ Covers(c, game, jur)}
    IN IF live = {} THEN {"missing"}
       ELSE {IF c.days < SoonAtBoot THEN "expiring" ELSE "covered" : c \in live}

Refuse(reason) == [allowed |-> FALSE, reason |-> reason]

\* Mutant: a revoked certificate of this build is good.
AttestRevoked(certs, build, rng, game, jur) ==
    LET mine == {c \in certs : Covers(c, game, jur) /\ c.build = build} IN
    IF mine = {} THEN Refuse("build_hash_drift")
    ELSE IF \E c \in mine : c.rng \notin {None, rng} THEN Refuse("rng_version_mismatch")
    ELSE IF \E c \in mine : c.days > 0 THEN [allowed |-> TRUE, reason |-> "none"]
    ELSE Refuse("certificate_expired")

\* BuildAttestation.check() in strict mode.  Every certificate of this build counts
\* against another rngVersion, a revoked one too.
Attest(certs, build, rng, game, jur) ==
    LET candidates == {c \in certs : Covers(c, game, jur)}
        mine == {c \in candidates : c.build = build}
    IN
    IF build = None THEN Refuse("missing_build_hash")
    ELSE IF candidates = {} THEN Refuse("no_matching_certificate")
    ELSE IF mine = {} THEN Refuse("build_hash_drift")
    ELSE IF \E c \in mine : c.rng \notin {None, rng} THEN Refuse("rng_version_mismatch")
    ELSE IF \E c \in mine : ~c.revoked /\ c.days > 0 THEN [allowed |-> TRUE, reason |-> "none"]
    ELSE IF \E c \in mine : c.revoked THEN Refuse("certificate_revoked")
    ELSE Refuse("certificate_expired")

\* checkBoot(): of the games the active operators have enabled, those that may be served.
CheckBoot(certs, build, rng, wanted) ==
    {w \in wanted : Attest(certs, build, rng, w.game, w.jur).reason = "none"}

-----------------------------------------------------------------------------
(* ClockSkewMonitor.                                                        *)

\* The 32-bit seconds of the packet, and ntpTimestampToMs().
OnTheWire(t) == (t + Epoch) % Width
FromWire(s) == s - Epoch

\* Mutant: local and server times are paired across the directions.
OffsetCrossed(orig, rx, tx, dest) == (FromWire(rx) - dest) + (FromWire(tx) - orig) + dest - orig

\* queryNtp(): twice the offset ((rx - orig) + (tx - dest)) / 2.
Offset2(orig, rx, tx, dest) == (FromWire(rx) - orig) + (FromWire(tx) - dest)

Magnitude(x) == IF x < 0 THEN -x ELSE x

\* tick(): the level it logs, by twice the offset.
Alarm(offset2) ==
    IF Magnitude(offset2) > 2 * Alert THEN "error"
    ELSE IF Magnitude(offset2) > 2 * Warn THEN "warn" ELSE "info"

-----------------------------------------------------------------------------
(* Properties, over every input of a bounded set.                           *)

Games == {"yantra", "dice"}
Days == {-1, 0, 1, Soon - 1, Soon, SoonAtBoot}
Certificates == [game : Games, jur : {"MT", "DE", "MULTI"}, build : {"b1", "b2"},
                 rng : {None, "v1", "v2"}, revoked : BOOLEAN, days : Days]
Dated == {c \in Certificates : c.build = "b1" /\ c.rng = None}
Built == {c \in Certificates : c.days \in {0, 1}}

\* "we MUST NOT serve real-money rounds": an engine that starts in strict mode has a
\* certificate of its game, jurisdiction, build and generator that is neither revoked
\* nor expired, and the boot summary counts it so; and one such certificate is enough,
\* unless another of the build is for another generator.
StrictMeansCertified ==
    \A c, d \in Built, build \in {None, "b1"} :
        LET good == {x \in {c, d} : x.game = "dice" /\ x.jur \in {"MT", "MULTI"} /\ ~x.revoked
                                     /\ x.days > 0 /\ x.build = build /\ x.rng \in {None, "v1"}}
            strange == {x \in {c, d} : Covers(x, "dice", "MT") /\ x.build = build /\ x.rng = "v2"}
            wanted == {[game |-> "dice", jur |-> "MT"]}
        IN /\ Attest({c, d}, build, "v1", "dice", "MT").allowed <=> good # {} /\ strange = {}
           /\ CheckBoot({c, d}, build, "v1", wanted) = wanted <=> good # {} /\ strange = {}

\* The page and the boot check read the same registry the same way: what the page calls
\* missing or expired is missing at boot, and what it calls expiring is warned of.
CoverageAgrees ==
    \A c, d \in Dated, jur \in {"MT", "DE"} :
        LET page == Coverage({c, d}, "yantra", jur)  boot == BootFinds({c, d}, "yantra", jur) IN
        /\ page \in {"missing", "expired"} <=> boot = {"missing"}
        /\ page = "expiring" => boot = {"expiring"}

\* The measured offset is off by half the round trip at most, until the seconds of the
\* packet wrap; and a clock that is off by more than the threshold and that half is
\* reported.
SkewIsMeasured ==
    \A skew \in -4..4, out, back, busy \in 0..2, orig \in 4..5 :
        LET rx == orig + skew + out
            tx == rx + busy
            dest == tx - skew + back
            measured == Offset2(orig, OnTheWire(rx), OnTheWire(tx), dest)
        IN tx + Epoch < Width =>
             /\ Magnitude(measured - 2 * skew) <= (dest - orig) - (tx - rx)
             /\ 2 * Magnitude(skew) > 2 * Warn + out + back => Alarm(measured) # "info"
=============================================================================
