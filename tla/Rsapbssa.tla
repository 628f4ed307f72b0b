------------------------------- MODULE Rsapbssa -------------------------------
(***************************************************************************)
(* The partially blind signature behind a token: key generation, the       *)
(* exponent derived from the metadata, blinding by the Go client or by the *)
(* widget, blind signing, unblinding and verification, in the arithmetic   *)
(* of the code over moduli small enough for TLC.                           *)
(*                                                                         *)
(* A byte has ByteBits bits, so that a small modulus has whole bytes.  The *)
(* HKDF output and the PSS encoding are numbers drawn from samples: both   *)
(* sides derive the same output from the same metadata, and a recovered    *)
(* message passes pssVerify when it is the encoding the client made.       *)
(***************************************************************************)
EXTENDS PowersOfTwo

CONSTANTS
    ByteBits,     \* bits of a byte, 8 in the code
    Bits,         \* the modulus size GenerateKey is called with
    PublicE,      \* the public exponent 65537
    Components,   \* <<p, q>> of keys that are given instead of generated
    Expansions,   \* bound: HKDF outputs
    Encodings,    \* bound: PSS encodings
    Factors       \* bound: draws of the blinding factor

\* The bits a number is written with.
BitLen(n) == CHOOSE k \in 1..n : Pow2[k - 1] <= n /\ n < Pow2[k]

\* A modulus has two bytes at least: DerivePublicKey sets bits in the first
\* and the last of half as many.
ASSUME SizesAssumption ==
    /\ ByteBits \in Nat \ {0, 1, 2}
    /\ Bits \in Nat /\ Bits > ByteBits
    /\ PublicE \in Nat

ASSUME SamplesAssumption ==
    /\ Components \subseteq Nat \X Nat
    /\ \A c \in Components : c[1] > 1 /\ c[2] > 1 /\ BitLen(c[1] * c[2]) > ByteBits
    /\ Expansions \subseteq Nat /\ Encodings \subseteq Nat /\ Factors \subseteq Nat

VARIABLES
    pc,        \* start, keyed, blinded, signed, token, accepted, or what failed
    key,       \* N and phi
    generated, \* whether GenerateKey made the key
    client,    \* whose blinding: go or widget
    expanded,  \* the HKDF output of the metadata
    em,        \* the encoding of the message
    r,         \* the blinding factor
    wire       \* blinded message, blind signature, signature: what was computed last

vars == <<pc, key, generated, client, expanded, em, r, wire>>

NoKey == [N |-> 0, Phi |-> 0]

Init ==
    /\ pc = "start" /\ key = NoKey /\ generated = FALSE
    /\ client \in {"go", "widget"}
    /\ expanded \in Expansions
    /\ em = 0 /\ r = 0 /\ wire = 0

-----------------------------------------------------------------------------
ModPow(base, exp, mod) ==
    LET pow[k \in Nat] ==
            IF k = 0 THEN 1
            ELSE LET half == pow[k \div 2]
                     square == (half * half) % mod
                 IN  IF k % 2 = 0 THEN square ELSE (square * base) % mod
    IN  pow[exp]

Invertible(a, mod) == \E x \in 1..mod-1 : (a * x) % mod = 1
ModInverse(a, mod) == CHOOSE x \in 1..mod-1 : (a * x) % mod = 1

Prime(n) == n > 1 /\ \A k \in 2..n-1 : n % k # 0

KeyOf(p, q) == [N |-> p * q, Phi |-> (p - 1) * (q - 1)]

\* Safe primes 2p' + 1 with p' of the given number of bits.
SafePrimes(bits) ==
    {2 * h + 1 : h \in {x \in Pow2[bits - 1]..Pow2[bits] - 1 : Prime(x) /\ Prime(2 * x + 1)}}

\* The draw that ends GenerateKey's loop.
GenerateKey ==
    /\ pc = "start"
    /\ \E p, q \in SafePrimes(Bits \div 2 - 1) :
          /\ p # q
          /\ BitLen(p * q) = Bits
          /\ Invertible(PublicE, KeyOf(p, q).Phi)
          /\ key' = KeyOf(p, q)
    /\ generated' = TRUE
    /\ pc' = "keyed"
    /\ UNCHANGED <<client, expanded, em, r, wire>>

KeyPairFromComponents ==
    /\ pc = "start"
    /\ \E c \in Components : key' = KeyOf(c[1], c[2])
    /\ pc' = "keyed"
    /\ UNCHANGED <<generated, client, expanded, em, r, wire>>

ModulusLen == (BitLen(key.N) + ByteBits - 1) \div ByteBits
LambdaBits == ByteBits * (ModulusLen \div 2)

\* DerivePublicKey: the two top bits cleared, the lowest set.
DerivedE_OneBit ==
    LET e == expanded % Pow2[LambdaBits - 1] IN IF e % 2 = 0 THEN e + 1 ELSE e
DerivedE_Even == expanded % Pow2[LambdaBits - 2]
DerivedE ==
    LET e == expanded % Pow2[LambdaBits - 2] IN IF e % 2 = 0 THEN e + 1 ELSE e

-----------------------------------------------------------------------------
\* The widget does not count the modulus's bits but its bytes.
EmBits(who) == IF who = "go" THEN BitLen(key.N) - 1 ELSE ByteBits * ModulusLen - 1

Blinded_BaseExponent(m, factor) == (m * ModPow(factor, PublicE, key.N)) % key.N
Blinded_Unreduced(m, factor) == m * ModPow(factor, DerivedE, key.N)
Blinded(m, factor) == (m * ModPow(factor, DerivedE, key.N)) % key.N

\* Go draws the factor below N; the widget draws bytes and reduces them.
Blind ==
    /\ pc = "keyed"
    /\ \E m \in Encodings, draw \in Factors :
          LET factor == draw % key.N
          IN  /\ m < Pow2[EmBits(client)]
              /\ em' = m
              /\ r' = factor
              /\ IF Invertible(factor, key.N)
                 THEN pc' = "blinded" /\ wire' = Blinded(m, factor)
                 ELSE pc' = "blinding error" /\ UNCHANGED wire
    /\ UNCHANGED <<key, generated, client, expanded>>

Signed == ModPow(wire, ModInverse(DerivedE, key.Phi), key.N)

\* The signature is checked against the blinded message before it is sent.
CanSign ==
    /\ wire < key.N
    /\ Invertible(DerivedE, key.Phi)
    /\ ModPow(Signed, DerivedE, key.N) = wire

BlindSign ==
    /\ pc = "blinded"
    /\ CanSign
    /\ wire' = Signed
    /\ pc' = "signed"
    /\ UNCHANGED <<key, generated, client, expanded, em, r>>

BlindSignFails ==
    /\ pc = "blinded"
    /\ ~CanSign
    /\ pc' = "signing error"
    /\ UNCHANGED <<key, generated, client, expanded, em, r, wire>>

\* The Go client verifies at once what the widget leaves to /siteverify.
Unblind ==
    /\ pc = "signed"
    /\ wire' = (wire * ModInverse(r, key.N)) % key.N
    /\ pc' = "token"
    /\ UNCHANGED <<key, generated, client, expanded, em, r>>

\* Verify recovers ModulusLen bytes, pssVerify wants one for eight of emBits
\* and the bits above emBits clear.
Verifies(sig) ==
    LET emBits == BitLen(key.N) - 1
        m == ModPow(sig, DerivedE, key.N)
    IN  /\ sig < key.N
        /\ ModulusLen = (emBits + ByteBits - 1) \div ByteBits
        /\ m < Pow2[emBits]
        /\ m = em

Verify ==
    /\ pc = "token"
    /\ pc' = IF Verifies(wire) THEN "accepted" ELSE "invalid signature"
    /\ UNCHANGED <<key, generated, client, expanded, em, r, wire>>

Next ==
    \/ GenerateKey \/ KeyPairFromComponents
    \/ Blind \/ BlindSign \/ BlindSignFails \/ Unblind \/ Verify

Spec == Init /\ [][Next]_vars

-----------------------------------------------------------------------------
\* Every variable holds a value of its kind; what is sent is below the
\* modulus and so fits its bytes.
TypeOK ==
    /\ pc \in {"start", "keyed", "blinded", "signed", "token", "accepted",
               "blinding error", "signing error", "invalid signature"}
    /\ key \in [N : Nat, Phi : Nat]
    /\ generated \in BOOLEAN
    /\ client \in {"go", "widget"}
    /\ expanded \in Expansions
    /\ em \in Encodings \cup {0}
    /\ r \in Nat /\ (pc # "start" => r < key.N)
    /\ wire \in Nat /\ (pc # "start" => wire < key.N)

\* Signing never fails under a generated key, whatever the metadata: the
\* derived exponent is odd and, with two bits cleared, below either p', so
\* it shares no factor with phi = 4p'q'.
GeneratedKeysSign == generated => pc # "signing error"

\* A token that was signed verifies, for either client, under any key of
\* whole bytes; for the Go client under any key but those whose size is a
\* multiple of the byte plus one, where recovered and expected lengths differ.
SizeServes ==
    BitLen(key.N) % ByteBits = 0 \/ (client = "go" /\ BitLen(key.N) % ByteBits # 1)

SignedTokensVerify == pc = "invalid signature" => ~SizeServes

\* "The issuer cannot link issuance to redemption": whatever the issuer was
\* sent, every message could have been in it under some blinding factor.
Unlinkable ==
    (pc = "blinded" /\ generated /\ Invertible(wire, key.N)) =>
        \A m \in Encodings :
            Invertible(m, key.N) => \E factor \in 1..key.N-1 : Blinded(m, factor) = wire
=============================================================================
