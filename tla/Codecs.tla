------------------------------- MODULE Codecs -------------------------------
(* The conversions the server does by hand: base32 of a second factor's     *)
(* secret, the window of its codes, the two forms of a token's signature.   *)
(* Pure operators over sequences of bytes.                                  *)
EXTENDS Integers, Sequences, SequencesExt

CONSTANTS Bytes,                 \* the bytes inputs are made of
          Size,                  \* bytes of r and of s in a raw signature: 32
          TotpWindow

-----------------------------------------------------------------------------
(* Mfa.                                                                     *)

\* The low bits of "value" still to be written; the higher ones never come out again.
Low(value, bits) == value % 2^bits

\* Mutant: the bits left over are written without padding.
Base32EncodeUnpadded(buf) ==
    LET one(a, b) == LET v == a.value * 256 + b  n == (a.bits + 8) \div 5  rest == (a.bits + 8) % 5
                     IN [value |-> Low(v, rest), bits |-> rest,
                         out |-> a.out \o [i \in 1..n |-> (v \div 2^(rest + 5 * (n - i))) % 32]]
        end == FoldLeft(one, [value |-> 0, bits |-> 0, out |-> <<>>], buf)
    IN IF end.bits = 0 THEN end.out ELSE Append(end.out, end.value)

\* base32Encode(): five bits a character, the last padded with zeros.
Base32Encode(buf) ==
    LET one(a, b) == LET v == a.value * 256 + b  n == (a.bits + 8) \div 5  rest == (a.bits + 8) % 5
                     IN [value |-> Low(v, rest), bits |-> rest,
                         out |-> a.out \o [i \in 1..n |-> (v \div 2^(rest + 5 * (n - i))) % 32]]
        end == FoldLeft(one, [value |-> 0, bits |-> 0, out |-> <<>>], buf)
    IN IF end.bits = 0 THEN end.out ELSE Append(end.out, end.value * 2^(5 - end.bits))

\* base32Decode(): a byte whenever eight bits are there; what is left over is dropped.
Base32Decode(s) ==
    LET one(a, c) == LET v == a.value * 32 + c  full == a.bits + 5 >= 8  rest == (a.bits + 5) % 8
                     IN [value |-> Low(v, rest), bits |-> rest,
                         out |-> IF full THEN Append(a.out, v \div 2^rest) ELSE a.out]
    IN FoldLeft(one, [value |-> 0, bits |-> 0, out |-> <<>>], s).out

\* Mutant: the window is open to one side.
TotpGoodBefore(made, shown, period) ==
    \E w \in 0..TotpWindow : made \div period = shown \div period - w

\* totpCounter(), verifyTotp(): the code of a period is good in the periods next to it.
TotpCounter(t, period) == t \div period
TotpGood(made, shown, period) ==
    \E w \in -TotpWindow..TotpWindow : TotpCounter(shown, period) + w = TotpCounter(made, period)

\* hashRecoveryCodes() and its reader: the hash of all codes joined, and of one.
Joined(codes) == FlattenSeq(codes)
RecoveryGood(codes, code) == code = Joined(codes)

-----------------------------------------------------------------------------
(* SigningKeys.                                                             *)

\* A DER INTEGER that is not negative and fits: no byte too many, the high bit clear.
DerInteger(n) ==
    /\ n # <<>> /\ n[1] < 128 /\ (Len(n) > Size => n[1] = 0)
    /\ Len(n) > 1 /\ n[1] = 0 => n[2] >= 128

AddLeadingZeroIfHighBit(buf) == IF buf[1] >= 128 THEN <<0>> \o buf ELSE buf

\* Mutant: the first bytes are taken, the zero before a high bit with them.
PadKept(n) == LET m == IF Len(n) > Size THEN SubSeq(n, 1, Size) ELSE n
              IN [i \in 1..Size - Len(m) |-> 0] \o m

\* derToJose(), of r and of s: the leading zero goes, the rest is padded to Size.
Pad(n) == LET m == IF n[1] = 0 /\ Len(n) > Size THEN Tail(n) ELSE n
          IN [i \in 1..Size - Len(m) |-> 0] \o m
DerToJose(r, s) == Pad(r) \o Pad(s)

\* joseToDer().
JoseToDer(jose) == <<AddLeadingZeroIfHighBit(SubSeq(jose, 1, Size)),
                     AddLeadingZeroIfHighBit(SubSeq(jose, Size + 1, 2 * Size))>>

-----------------------------------------------------------------------------
(* Properties, over every input of a bounded set.                           *)

\* A secret is read as it was written, of whatever length.
Base32RoundTrips == \A buf \in BoundedSeq(Bytes, 3) : Base32Decode(Base32Encode(buf)) = buf

\* A code is good for the whole of its period wherever the other clock stands within a
\* period of it, and never two periods on.
CodeWindow ==
    \A made, shown \in 0..12 :
        LET apart == IF made < shown THEN shown - made ELSE made - shown IN
        /\ apart <= 3 * TotpWindow => TotpGood(made, shown, 3)
        /\ apart >= 3 * (TotpWindow + 1) => ~TotpGood(made, shown, 3)

\* What signLaunchJwt() signs is what verifyLaunchJwt() checks: the DER form comes back
\* byte by byte - unless an integer is a byte shorter than it could be, when a zero is
\* put where DER allows none.
SignatureRoundTrips ==
    \A r, s \in {n \in BoundedSeq(Bytes, Size + 1) : DerInteger(n)} :
        JoseToDer(DerToJose(r, s)) = <<r, s>> <=> Len(r) >= Size /\ Len(s) >= Size
=============================================================================
