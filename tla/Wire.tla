--------------------------------- MODULE Wire ---------------------------------
(***************************************************************************)
(* What the widget and the server exchange as bytes: numbers and hex text, *)
(* the metadata of pkg/api and the token.  The width of a byte and the     *)
(* length of a signature are constants so that TLC can run through all     *)
(* values and past the end of a 32-bit word.  Base64 is left out: both     *)
(* sides use the standard alphabet on whole byte strings and undo each     *)
(* other's work.                                                           *)
(***************************************************************************)
EXTENDS Integers, SequencesExt

CONSTANTS
    ByteBits,  \* 8
    Hour,      \* 3600 seconds
    sigLen     \* 256

ASSUME WireAssumption ==
    /\ ByteBits \in {2 * k : k \in 1..4}
    /\ Hour \in Nat \ {0}
    /\ sigLen \in Nat \ {0}

ByteSize == 2 ^ ByteBits
WordSize == ByteSize ^ 4
Byte == 0..ByteSize - 1
Word == 0..WordSize - 1

-----------------------------------------------------------------------------
(***************************************************************************)
(* Big-endian words, and hex text as a sequence of digits.                 *)
(***************************************************************************)
uint32BE_Unmasked(n) == [i \in 1..4 |-> n \div ByteSize ^ (4 - i)]
uint32BE(n) == [i \in 1..4 |-> (n \div ByteSize ^ (4 - i)) % ByteSize]

Uint32(b) == b[1] * ByteSize ^ 3 + b[2] * ByteSize ^ 2 + b[3] * ByteSize + b[4]

uint64BE(n) == uint32BE((n \div WordSize) % WordSize) \o uint32BE(n % WordSize)

Uint64(b) == Uint32(SubSeq(b, 1, 4)) * WordSize + Uint32(SubSeq(b, 5, 8))

HexDigit == 2 ^ (ByteBits \div 2)

\* toString(16) has no leading zero; padStart(2, '0') adds it.
toHex(byte) == IF byte < HexDigit THEN <<byte>> ELSE <<byte \div HexDigit, byte % HexDigit>>
padStart(digits) == IF Len(digits) < 2 THEN <<0>> \o digits ELSE digits

bytesToHex_Unpadded(bytes) == FlattenSeq([i \in DOMAIN bytes |-> toHex(bytes[i])])
bytesToHex(bytes) == FlattenSeq([i \in DOMAIN bytes |-> padStart(toHex(bytes[i]))])

\* hex.DecodeString wants pairs of digits; hexToBytes never sees any other.
Decodes(hex) == Len(hex) % 2 = 0
hexToBytes(hex) == [i \in 1..Len(hex) \div 2 |-> hex[2 * i - 1] * HexDigit + hex[2 * i]]

-----------------------------------------------------------------------------
(***************************************************************************)
(* TrustMetadata, seven bytes.                                             *)
(***************************************************************************)
TrustMetadata ==
    [ChallengeClass: Byte, TemperatureBucket: Byte, DeviceClass: Byte, TimeBucket: Word]

metaLen == 7
nonceLen == 8
tokenLen == sigLen + metaLen + nonceLen

Encode(m) ==
    <<m.ChallengeClass, m.TemperatureBucket, m.DeviceClass>> \o uint32BE(m.TimeBucket)

DecodeMetadata(b) ==
    [ ChallengeClass |-> b[1], TemperatureBucket |-> b[2], DeviceClass |-> b[3],
      TimeBucket |-> Uint32(SubSeq(b, 4, metaLen)) ]

TimeBucketFromTime(t) == (t \div Hour) % WordSize

\* The time /siteverify reports: a product of two uint32.
Timestamp_Wide(m) == m.TimeBucket * Hour
Timestamp(m) == (m.TimeBucket * Hour) % WordSize

-----------------------------------------------------------------------------
(***************************************************************************)
(* The token: signature, metadata and nonce, cut apart again by length.    *)
(***************************************************************************)
buildToken(sig, metadata, nonce) == sig \o metadata \o nonce

sigOf(token) == SubSeq(token, 1, sigLen)

metaOf_Short(token) == SubSeq(token, sigLen + 1, sigLen + metaLen - 1)
metaOf(token) == SubSeq(token, sigLen + 1, sigLen + metaLen)
nonceOf(token) == SubSeq(token, sigLen + metaLen + 1, Len(token))
=============================================================================
