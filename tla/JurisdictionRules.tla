------------------------- MODULE JurisdictionRules -------------------------
(* The regulator's rules a bet is held against, and the gates a session     *)
(* launch passes by address and country.  Amounts are in whole currency     *)
(* units (100 000 micro-units), times in steps of 500 ms.                   *)
EXTENDS Integers, Sequences, FiniteSets

NoLimit == -1                 \* null, undefined

Rules(stake, spin, auto, turbo, currencies, demo) ==
    [maxStake |-> stake, minSpin |-> spin, autoplay |-> auto, turbo |-> turbo,
     currencies |-> currencies, demoWithoutKyc |-> demo]

UK == Rules(2, 5, FALSE, FALSE, {"GBP"}, FALSE)
DE == Rules(1, 10, FALSE, FALSE, {"EUR"}, TRUE)
ES == Rules(NoLimit, 0, TRUE, TRUE, {"EUR"}, TRUE)
ON_CA == Rules(NoLimit, 5, FALSE, FALSE, {"CAD"}, TRUE)
MT == Rules(NoLimit, 5, TRUE, TRUE, {"EUR", "USD", "GBP"}, TRUE)
SE == Rules(NoLimit, 6, FALSE, FALSE, {"SEK", "EUR"}, FALSE)
RO == Rules(NoLimit, 4, TRUE, TRUE, {"RON", "EUR"}, TRUE)
BR == Rules(NoLimit, 4, FALSE, FALSE, {"BRL"}, FALSE)
HN == Rules(NoLimit, 4, TRUE, TRUE, {"HNL"}, TRUE)
INTL == Rules(NoLimit, 0, TRUE, TRUE, {}, TRUE)

\* An unknown code, and "MULTI", play by INTL.
getJurisdiction(code) ==
    LET known == [GB |-> UK, DE |-> DE, ES |-> ES, ON |-> ON_CA, MT |-> MT, SE |-> SE, RO |-> RO,
                  BR |-> BR, HN |-> HN, INTL |-> INTL, MULTI |-> INTL]
    IN IF code \in DOMAIN known THEN known[code] ELSE INTL

\* Mutant: a bet as fast as the floor is too fast.
BreachAtFloor(r, b) ==
    IF r.currencies # {} /\ b.currency \notin r.currencies THEN "currency_not_permitted"
    ELSE IF b.mode = "demo" /\ ~r.demoWithoutKyc /\ ~b.kyc THEN "demo_not_allowed_without_kyc"
    ELSE IF r.maxStake # NoLimit /\ b.stake > r.maxStake THEN "stake_above_jurisdiction_max"
    ELSE IF b.autoplay /\ ~r.autoplay THEN "autoplay_not_permitted"
    ELSE IF b.turbo /\ ~r.turbo THEN "turbo_not_permitted"
    ELSE IF r.minSpin > 0 /\ b.since > 0 /\ b.since <= r.minSpin THEN "spin_too_fast"
    ELSE "none"

\* checkJurisdictionRules(): the first rule broken.  b.since is the time since the
\* session's previous bet, NoLimit when there is none; 0 counts as none.
Breach(r, b) ==
    IF r.currencies # {} /\ b.currency \notin r.currencies THEN "currency_not_permitted"
    ELSE IF b.mode = "demo" /\ ~r.demoWithoutKyc /\ ~b.kyc THEN "demo_not_allowed_without_kyc"
    ELSE IF r.maxStake # NoLimit /\ b.stake > r.maxStake THEN "stake_above_jurisdiction_max"
    ELSE IF b.autoplay /\ ~r.autoplay THEN "autoplay_not_permitted"
    ELSE IF b.turbo /\ ~r.turbo THEN "turbo_not_permitted"
    ELSE IF r.minSpin > 0 /\ b.since > 0 /\ b.since < r.minSpin THEN "spin_too_fast"
    ELSE "none"

\* Mutant: the looser of the two.
TightestLoosens(a, b) == IF a > b THEN a ELSE b

\* effectiveRGFloor(): the tighter of the regulator's cap and the operator's limit.
Tightest(a, b) ==
    CASE a = NoLimit -> b [] b = NoLimit -> a [] OTHER -> IF a < b THEN a ELSE b

-----------------------------------------------------------------------------
(* ip-allow-list.ts, geo-allowlist.ts and turnstile.ts.  An address is a    *)
(* family and its bytes, most significant first; a byte is ByteBits wide.   *)

CONSTANT ByteBits

\* The high bits of the byte that remains of a range.
MaskedEqual(a, b, bits) == a \div 2^(ByteBits - bits) = b \div 2^(ByteBits - bits)

\* Mutant: a byte counts as long as some bits of the range remain.
ByteMatchesWhole(a, b, i, bits) == ByteBits * (i - 1) < bits => a[i] = b[i]

\* Byte i of a CIDR range of so many bits: equal, equal in its high bits, or free.
ByteMatches(a, b, i, bits) ==
    LET remaining == bits - ByteBits * (i - 1) IN
    IF remaining >= ByteBits THEN a[i] = b[i]
    ELSE remaining > 0 => MaskedEqual(a[i], b[i], remaining)

\* matchIp(): one address, or a range.  An IPv4 range wider than the address is no
\* range; an IPv6 one is the address itself.
MatchIp(ip, pattern) ==
    /\ ip.family = pattern.family
    /\ IF pattern.bits = NoLimit THEN ip.bytes = pattern.bytes
       ELSE /\ pattern.family = "v4" => pattern.bits <= ByteBits * Len(ip.bytes)
            /\ \A i \in 1..Len(ip.bytes) : ByteMatches(ip.bytes, pattern.bytes, i, pattern.bits)

\* ipAllowList(): an empty list lets everybody in.
AddressAllowed(list, ip) == list = {} \/ \E p \in list : MatchIp(ip, p)

\* Mutant: a launch from nowhere is let in.
CountryAllowedUnknown(list, body, header) ==
    LET country == IF body # "none" THEN body ELSE header
    IN list = {} \/ country = "none" \/ country \in list

\* geoAllowlist(): the country of the body, else of the edge's header; with a list and
\* without a country nobody is let in.
CountryAllowed(list, body, header) ==
    LET country == IF body # "none" THEN body ELSE header IN list = {} \/ country \in list

\* turnstileVerify(), mounted without failClosedOnError: a silent verifier lets in.
HumanAllowed(configured, token, verdict) ==
    ~configured \/ (token /\ verdict \in {"success", "unreachable"})
=============================================================================
