---------------------------- MODULE ExchangeProofs ----------------------------
(***************************************************************************)
(* What two programs agree on in one page load, for every width of a byte, *)
(* every length of a signature, every hour, and every address.             *)
(***************************************************************************)
EXTENDS Exchange, NatRecursion, FiniteSetTheorems, TLAPS

-----------------------------------------------------------------------------
(***************************************************************************)
(* Bytes and words.                                                        *)
(***************************************************************************)
LEMMA ByteSizes == ByteSize \in {4, 16, 64, 256}
<1>1. ByteBits \in {2, 4, 6, 8}
  BY WireAssumption
<1>2. \A b : /\ b = 2 => 2^b = 2^2
             /\ b = 4 => 2^b = 2^4
             /\ b = 6 => 2^b = 2^6
             /\ b = 8 => 2^b = 2^8
  BY Zenon
<1>3. 2^2 = 4 /\ 2^4 = 16 /\ 2^6 = 64 /\ 2^8 = 256
  OBVIOUS
<1> QED
  BY <1>1, <1>2, <1>3 DEF ByteSize

LEMMA ByteSizePowers ==
    /\ ByteSize^0 = 1
    /\ ByteSize^1 = ByteSize
    /\ ByteSize^2 = ByteSize * ByteSize
    /\ ByteSize^3 = ByteSize * ByteSize * ByteSize
    /\ ByteSize^4 = ByteSize * ByteSize * ByteSize * ByteSize
<1>1. \A b : b = 4 => b^4 = 4^4 /\ b^3 = 4^3 /\ b^2 = 4^2 /\ b^1 = 4^1 /\ b^0 = 4^0
  BY Zenon
<1>2. \A b : b = 16 => b^4 = 16^4 /\ b^3 = 16^3 /\ b^2 = 16^2 /\ b^1 = 16^1 /\ b^0 = 16^0
  BY Zenon
<1>3. \A b : b = 64 => b^4 = 64^4 /\ b^3 = 64^3 /\ b^2 = 64^2 /\ b^1 = 64^1 /\ b^0 = 64^0
  BY Zenon
<1>4. \A b : b = 256 => b^4 = 256^4 /\ b^3 = 256^3 /\ b^2 = 256^2 /\ b^1 = 256^1 /\ b^0 = 256^0
  BY Zenon
<1>5. /\ 4^4 = 256 /\ 4^3 = 64 /\ 4^2 = 16 /\ 4^1 = 4 /\ 4^0 = 1
      /\ 16^4 = 65536 /\ 16^3 = 4096 /\ 16^2 = 256 /\ 16^1 = 16 /\ 16^0 = 1
      /\ 64^4 = 16777216 /\ 64^3 = 262144 /\ 64^2 = 4096 /\ 64^1 = 64 /\ 64^0 = 1
      /\ 256^4 = 4294967296 /\ 256^3 = 16777216 /\ 256^2 = 65536 /\ 256^1 = 256 /\ 256^0 = 1
  OBVIOUS
<1> QED
  BY <1>1, <1>2, <1>3, <1>4, <1>5, ByteSizes

LEMMA WordSizes == WordSize \in {256, 65536, 16777216, 4294967296}
BY ByteSizes, ByteSizePowers DEF WordSize

LEMMA uint32BEIs ==
    ASSUME NEW n \in Nat
    PROVE  uint32BE(n) = <<(n \div (ByteSize * ByteSize * ByteSize)) % ByteSize,
                           (n \div (ByteSize * ByteSize)) % ByteSize,
                           (n \div ByteSize) % ByteSize, n % ByteSize>>
<1>1. 4 - 1 = 3 /\ 4 - 2 = 2 /\ 4 - 3 = 1 /\ 4 - 4 = 0
  OBVIOUS
<1>2. uint32BE(n) = <<(n \div ByteSize^3) % ByteSize, (n \div ByteSize^2) % ByteSize,
                      (n \div ByteSize^1) % ByteSize, (n \div ByteSize^0) % ByteSize>>
  BY <1>1 DEF uint32BE
<1> QED
  BY <1>2, ByteSizePowers, ByteSizes

\* A word is four bytes, and read back it is the same word.
LEMMA WordReadsBack ==
    ASSUME NEW n \in Word
    PROVE  /\ Len(uint32BE(n)) = 4
           /\ uint32BE(n) \in Seq(Byte)
           /\ Uint32(uint32BE(n)) = n
<1>1. n \in Nat /\ n < ByteSize * ByteSize * ByteSize * ByteSize
  BY ByteSizes, ByteSizePowers DEF Word, WordSize
<1> DEFINE a == (n \div (ByteSize * ByteSize * ByteSize)) % ByteSize
           b == (n \div (ByteSize * ByteSize)) % ByteSize
           c == (n \div ByteSize) % ByteSize
           d == n % ByteSize
<1>2. uint32BE(n) = <<a, b, c, d>>
  BY <1>1, uint32BEIs
<1>3. a \in Byte /\ b \in Byte /\ c \in Byte /\ d \in Byte
  BY <1>1, ByteSizes DEF Byte
<1>4. a * (ByteSize * ByteSize * ByteSize) + b * (ByteSize * ByteSize) + c * ByteSize + d = n
  <2>1. CASE ByteSize = 4
    BY <1>1, <2>1
  <2>2. CASE ByteSize = 16
    BY <1>1, <2>2
  <2>3. CASE ByteSize = 64
    BY <1>1, <2>3
  <2>4. CASE ByteSize = 256
    BY <1>1, <2>4
  <2> QED
    BY ByteSizes, <2>1, <2>2, <2>3, <2>4
<1> HIDE DEF a, b, c, d
<1>5. Uint32(<<a, b, c, d>>) = a * ByteSize^3 + b * ByteSize^2 + c * ByteSize + d
  BY DEF Uint32
<1> QED
  BY <1>2, <1>3, <1>4, <1>5, ByteSizePowers

\* The hour of a time fits a word.  The product of hour and bucket is taken
\* in a word, and so is the beginning of the hour.
LEMMA HourOfTime ==
    ASSUME NEW at \in Nat
    PROVE  /\ TimeBucketFromTime(at) \in Word
           /\ (TimeBucketFromTime(at) * Hour) % WordSize = (at - (at % Hour)) % WordSize
<1> DEFINE q == at \div Hour
           b == q % WordSize
           k == q \div WordSize
<1>1. q \in Nat /\ Hour * q = at - (at % Hour)
  BY WireAssumption
<1>2. b \in 0..WordSize - 1 /\ k \in Nat /\ q = WordSize * k + b
  BY <1>1, WordSizes
<1> HIDE DEF q, b, k
<1>3. Hour * q = WordSize * (Hour * k) + b * Hour
  BY <1>1, <1>2, WordSizes, WireAssumption
<1>4. Hour * k \in Nat /\ b * Hour \in Nat
  BY <1>2, WordSizes, WireAssumption
<1>5. \A x, y \in Nat : (WordSize * x + y) % WordSize = y % WordSize
  BY WordSizes
<1>6. (Hour * q) % WordSize = (b * Hour) % WordSize
  BY <1>3, <1>4, <1>5
<1> QED
  BY <1>1, <1>2, <1>6 DEF TimeBucketFromTime, Word, q, b

-----------------------------------------------------------------------------
(***************************************************************************)
(* Metadata and token.                                                     *)
(***************************************************************************)
\* Byte strings of one length that agree byte by byte are the same.
LEMMA SameBytes ==
    ASSUME NEW x \in Seq(Byte), NEW y \in Seq(Byte), Len(x) = Len(y),
           \A i \in 1..Len(x) : x[i] = y[i]
    PROVE  x = y
OBVIOUS

\* Where the bytes of two strings are in one after the other.
LEMMA Concatenated ==
    ASSUME NEW x \in Seq(Byte), NEW y \in Seq(Byte)
    PROVE  /\ x \o y \in Seq(Byte) /\ Len(x \o y) = Len(x) + Len(y)
           /\ \A i \in 1..Len(x) : (x \o y)[i] = x[i]
           /\ \A i \in 1..Len(y) : (x \o y)[Len(x) + i] = y[i]
<1>1. Len(x) \in Nat /\ Len(y) \in Nat
  OBVIOUS
<1>2. x \o y \in Seq(Byte) /\ Len(x \o y) = Len(x) + Len(y)
  OBVIOUS
<1>3. ASSUME NEW i \in 1..Len(x) PROVE (x \o y)[i] = x[i]
  BY <1>1
<1>4. ASSUME NEW i \in 1..Len(y) PROVE (x \o y)[Len(x) + i] = y[i]
  BY <1>1
<1> QED
  BY <1>2, <1>3, <1>4

\* What is encoded is read back.
LEMMA MetadataReadsBack ==
    ASSUME NEW m \in TrustMetadata
    PROVE  /\ Encode(m) \in [1..metaLen -> Byte]
           /\ DecodeMetadata(Encode(m)) = m
<1> DEFINE t == m.TimeBucket
           u == uint32BE(t)
           e == Encode(m)
<1>1. /\ m.ChallengeClass \in Byte /\ m.TemperatureBucket \in Byte /\ m.DeviceClass \in Byte
      /\ t \in Word
      /\ m = [ ChallengeClass |-> m.ChallengeClass, TemperatureBucket |-> m.TemperatureBucket,
               DeviceClass |-> m.DeviceClass, TimeBucket |-> t ]
  BY DEF TrustMetadata
<1>2. Len(u) = 4 /\ u \in Seq(Byte) /\ Uint32(u) = t
  BY <1>1, WordReadsBack
<1>3. e = <<m.ChallengeClass, m.TemperatureBucket, m.DeviceClass>> \o u
  BY DEF Encode
<1> HIDE DEF t, u, e
<1>4. /\ Len(e) = 7 /\ e \in Seq(Byte)
      /\ e[1] = m.ChallengeClass /\ e[2] = m.TemperatureBucket /\ e[3] = m.DeviceClass
      /\ e[4] = u[1] /\ e[5] = u[2] /\ e[6] = u[3] /\ e[7] = u[4]
  <2> DEFINE x == <<m.ChallengeClass, m.TemperatureBucket, m.DeviceClass>>
  <2>1. /\ x \in Seq(Byte) /\ Len(x) = 3
        /\ x[1] = m.ChallengeClass /\ x[2] = m.TemperatureBucket /\ x[3] = m.DeviceClass
    BY <1>1
  <2> HIDE DEF x
  <2>2. /\ x \o u \in Seq(Byte) /\ Len(x \o u) = Len(x) + Len(u)
        /\ \A i \in 1..Len(x) : (x \o u)[i] = x[i]
        /\ \A i \in 1..Len(u) : (x \o u)[Len(x) + i] = u[i]
    BY <1>2, <2>1, Concatenated
  <2>3. e = x \o u
    BY <1>3 DEF x
  <2>4. /\ Len(e) = 7 /\ e \in Seq(Byte)
        /\ \A i \in 1..3 : e[i] = x[i]
        /\ \A i \in 1..4 : e[3 + i] = u[i]
    BY <1>2, <2>1, <2>2, <2>3
  <2>5. e[3 + 1] = u[1] /\ e[3 + 2] = u[2] /\ e[3 + 3] = u[3] /\ e[3 + 4] = u[4]
    BY <2>4
  <2> QED
    BY <2>1, <2>4, <2>5
<1>5. Uint32(SubSeq(e, 4, 7)) = Uint32(u)
  BY <1>4 DEF Uint32
<1>6. e \in [1..7 -> Byte]
  <2>1. \A x \in Seq(Byte) : x \in [1..Len(x) -> Byte]
    OBVIOUS
  <2> QED
    BY <1>4, <2>1
<1> QED
  BY <1>1, <1>2, <1>4, <1>5, <1>6 DEF DecodeMetadata, metaLen, e

\* Where the parts of a token are, cut out of it or put together.
LEMMA CutParts ==
    ASSUME NEW token \in Seq(Byte), Len(token) = tokenLen
    PROVE  /\ sigOf(token) \in Seq(Byte) /\ Len(sigOf(token)) = sigLen
           /\ \A i \in 1..sigLen : sigOf(token)[i] = token[i]
           /\ metaOf(token) \in Seq(Byte) /\ Len(metaOf(token)) = 7
           /\ \A i \in 1..7 : metaOf(token)[i] = token[sigLen + i]
           /\ nonceOf(token) \in Seq(Byte) /\ Len(nonceOf(token)) = 8
           /\ \A i \in 1..8 : nonceOf(token)[i] = token[sigLen + 7 + i]
<1>1. sigLen \in Nat /\ sigLen > 0 /\ Len(token) = sigLen + 15
  BY WireAssumption DEF tokenLen, metaLen, nonceLen
<1>2. /\ sigOf(token) \in Seq(Byte) /\ Len(sigOf(token)) = sigLen
      /\ \A i \in 1..sigLen : sigOf(token)[i] = token[i]
  BY <1>1 DEF sigOf
<1>3. /\ metaOf(token) \in Seq(Byte) /\ Len(metaOf(token)) = 7
      /\ \A i \in 1..7 : metaOf(token)[i] = token[sigLen + i]
  BY <1>1 DEF metaOf, metaLen
<1>4. /\ nonceOf(token) \in Seq(Byte) /\ Len(nonceOf(token)) = 8
      /\ \A i \in 1..8 : nonceOf(token)[i] = token[sigLen + 7 + i]
  BY <1>1 DEF nonceOf, metaLen
<1> QED
  BY <1>2, <1>3, <1>4

LEMMA JoinedParts ==
    ASSUME NEW s \in Seq(Byte), Len(s) = sigLen, NEW m \in Seq(Byte), Len(m) = 7,
           NEW n \in Seq(Byte), Len(n) = 8
    PROVE  /\ buildToken(s, m, n) \in Seq(Byte) /\ Len(buildToken(s, m, n)) = tokenLen
           /\ \A i \in 1..sigLen : buildToken(s, m, n)[i] = s[i]
           /\ \A i \in 1..7 : buildToken(s, m, n)[sigLen + i] = m[i]
           /\ \A i \in 1..8 : buildToken(s, m, n)[sigLen + 7 + i] = n[i]
<1> DEFINE a == s \o m
           b == a \o n
<1>1. sigLen \in Nat /\ sigLen > 0
  BY WireAssumption
<1>2. /\ a \in Seq(Byte) /\ Len(a) = sigLen + 7
      /\ \A i \in 1..sigLen : a[i] = s[i]
      /\ \A i \in 1..7 : a[sigLen + i] = m[i]
  <2>1. /\ a \in Seq(Byte) /\ Len(a) = Len(s) + Len(m)
        /\ \A i \in 1..Len(s) : a[i] = s[i]
        /\ \A i \in 1..Len(m) : a[Len(s) + i] = m[i]
    BY Concatenated
  <2> QED
    BY <2>1
<1> HIDE DEF a
<1>3. /\ b \in Seq(Byte) /\ Len(b) = sigLen + 7 + 8
      /\ \A i \in 1..sigLen + 7 : b[i] = a[i]
      /\ \A i \in 1..8 : b[sigLen + 7 + i] = n[i]
  <2>1. /\ b \in Seq(Byte) /\ Len(b) = Len(a) + Len(n)
        /\ \A i \in 1..Len(a) : b[i] = a[i]
        /\ \A i \in 1..Len(n) : b[Len(a) + i] = n[i]
    BY <1>2, Concatenated
  <2> HIDE DEF b
  <2> QED
    BY <1>2, <2>1
<1>4. buildToken(s, m, n) = b
  BY DEF buildToken, a, b
<1> HIDE DEF b
<1>5. \A i \in 1..sigLen : b[i] = s[i]
  BY <1>1, <1>2, <1>3
<1>6. ASSUME NEW i \in 1..7 PROVE b[sigLen + i] = m[i]
  <2>1. sigLen + i \in 1..sigLen + 7
    BY <1>1
  <2> QED
    BY <1>2, <1>3, <2>1
<1>7. tokenLen = sigLen + 7 + 8
  BY <1>1 DEF tokenLen, metaLen, nonceLen
<1> QED
  BY <1>3, <1>4, <1>5, <1>6, <1>7

\* The parts of a token, put together again, are the token; what was put
\* together is read back.
LEMMA PartsOfToken ==
    ASSUME NEW token \in Seq(Byte), Len(token) = tokenLen
    PROVE  buildToken(sigOf(token), metaOf(token), nonceOf(token)) = token
<1>1. sigLen \in Nat /\ sigLen > 0 /\ tokenLen = sigLen + 15
  BY WireAssumption DEF tokenLen, metaLen, nonceLen
<1>2. PICK sig, meta, nonce :
        sig = sigOf(token) /\ meta = metaOf(token) /\ nonce = nonceOf(token)
  OBVIOUS
<1>2a. sig \in Seq(Byte) /\ Len(sig) = sigLen /\ \A i \in 1..sigLen : sig[i] = token[i]
  BY <1>2, CutParts
<1>2b. meta \in Seq(Byte) /\ Len(meta) = 7 /\ \A i \in 1..7 : meta[i] = token[sigLen + i]
  BY <1>2, CutParts
<1>2c. nonce \in Seq(Byte) /\ Len(nonce) = 8 /\ \A i \in 1..8 : nonce[i] = token[sigLen + 7 + i]
  BY <1>2, CutParts
<1> DEFINE b == buildToken(sig, meta, nonce)
<1>3. b \in Seq(Byte) /\ Len(b) = tokenLen
  BY <1>2a, <1>2b, <1>2c, JoinedParts
<1>3a. \A i \in 1..sigLen : b[i] = sig[i]
  BY <1>2a, <1>2b, <1>2c, JoinedParts
<1>3b. \A i \in 1..7 : b[sigLen + i] = meta[i]
  BY <1>2a, <1>2b, <1>2c, JoinedParts
<1>3c. \A i \in 1..8 : b[sigLen + 7 + i] = nonce[i]
  BY <1>2a, <1>2b, <1>2c, JoinedParts
<1> HIDE DEF b
<1>4. ASSUME NEW i \in 1..(sigLen + 15) PROVE b[i] = token[i]
  <2>1. CASE i \in 1..sigLen
    BY <1>2a, <1>3a, <2>1
  <2>2. CASE i \in sigLen + 1..sigLen + 7
    <3>1. PICK k \in 1..7 : i = sigLen + k
      <4>1. i - sigLen \in 1..7 /\ i = sigLen + (i - sigLen)
        BY <1>1, <2>2
      <4> QED
        BY <4>1
    <3> QED
      BY <1>2b, <1>3b, <3>1
  <2>3. CASE i \in sigLen + 8..sigLen + 15
    <3>1. PICK k \in 1..8 : i = sigLen + 7 + k
      <4>1. i - (sigLen + 7) \in 1..8 /\ i = sigLen + 7 + (i - (sigLen + 7))
        BY <1>1, <2>3
      <4> QED
        BY <4>1
    <3> QED
      BY <1>2c, <1>3c, <3>1
  <2> QED
    BY <1>1, <2>1, <2>2, <2>3
<1>5. b = token
  BY <1>1, <1>3, <1>4, SameBytes
<1> QED
  BY <1>2, <1>5 DEF b

LEMMA TokenOfParts ==
    ASSUME NEW sig \in [1..sigLen -> Byte], NEW meta \in [1..metaLen -> Byte],
           NEW nonce \in [1..nonceLen -> Byte]
    PROVE  /\ buildToken(sig, meta, nonce) \in Seq(Byte)
           /\ Len(buildToken(sig, meta, nonce)) = tokenLen
           /\ sigOf(buildToken(sig, meta, nonce)) = sig
           /\ metaOf(buildToken(sig, meta, nonce)) = meta
           /\ nonceOf(buildToken(sig, meta, nonce)) = nonce
<1> DEFINE token == buildToken(sig, meta, nonce)
<1>1. sigLen \in Nat
  BY WireAssumption
<1>2. \A k \in Nat : \A f \in [1..k -> Byte] : f \in Seq(Byte) /\ Len(f) = k
  OBVIOUS
<1>3. sig \in Seq(Byte) /\ Len(sig) = sigLen
  BY <1>1, <1>2
<1>4. meta \in Seq(Byte) /\ Len(meta) = 7
  BY <1>2 DEF metaLen
<1>5. nonce \in Seq(Byte) /\ Len(nonce) = 8
  BY <1>2 DEF nonceLen
<1>6. /\ token \in Seq(Byte) /\ Len(token) = tokenLen
      /\ \A i \in 1..sigLen : token[i] = sig[i]
      /\ \A i \in 1..7 : token[sigLen + i] = meta[i]
      /\ \A i \in 1..8 : token[sigLen + 7 + i] = nonce[i]
  BY <1>3, <1>4, <1>5, JoinedParts
<1> HIDE DEF token
<1> DEFINE s == sigOf(token)
           m == metaOf(token)
           n == nonceOf(token)
<1>7. /\ s \in Seq(Byte) /\ Len(s) = sigLen /\ \A i \in 1..sigLen : s[i] = token[i]
      /\ m \in Seq(Byte) /\ Len(m) = 7 /\ \A i \in 1..7 : m[i] = token[sigLen + i]
      /\ n \in Seq(Byte) /\ Len(n) = 8 /\ \A i \in 1..8 : n[i] = token[sigLen + 7 + i]
  BY <1>6, CutParts
<1> HIDE DEF s, m, n
<1>8. s = sig
  <2>1. \A i \in 1..Len(s) : s[i] = sig[i]
    BY <1>6, <1>7
  <2> QED
    BY <1>3, <1>7, <2>1, SameBytes
<1>9. m = meta
  <2>1. \A i \in 1..Len(m) : m[i] = meta[i]
    BY <1>6, <1>7
  <2> QED
    BY <1>4, <1>7, <2>1, SameBytes
<1>10. n = nonce
  <2>1. \A i \in 1..Len(n) : n[i] = nonce[i]
    BY <1>6, <1>7
  <2> QED
    BY <1>5, <1>7, <2>1, SameBytes
<1> QED
  BY <1>6, <1>8, <1>9, <1>10 DEF token, s, m, n

-----------------------------------------------------------------------------
(***************************************************************************)
(* The lists of networks.  No entry has a bit below its prefix, so masking *)
(* leaves each as it is written.                                           *)
(***************************************************************************)
Prefix == {c \in [net: Nat, len: 0..24] : c.net % Size(c.len) = 0}

LEMMA SizeIs ==
    /\ Size(9) = 32768 /\ Size(10) = 16384 /\ Size(11) = 8192 /\ Size(12) = 4096
    /\ Size(13) = 2048 /\ Size(14) = 1024 /\ Size(15) = 512 /\ Size(16) = 256
    /\ Size(17) = 128 /\ Size(18) = 64 /\ Size(19) = 32 /\ Size(20) = 16
    /\ Size(21) = 8 /\ Size(22) = 4 /\ Size(23) = 2 /\ Size(24) = 1
BY DEF Size

LEMMA SmallSizes ==
    /\ Size(0) = 16777216 /\ Size(1) = 8388608 /\ Size(2) = 4194304 /\ Size(3) = 2097152
    /\ Size(4) = 1048576 /\ Size(5) = 524288 /\ Size(6) = 262144 /\ Size(7) = 131072
    /\ Size(8) = 65536
BY DEF Size

LEMMA SizesPositive == \A len \in 0..24 : Size(len) \in Nat \ {0}
<1> TAKE len \in 0..24
<1>1. CASE len \in 0..8
  <2>1. len \in {0, 1, 2, 3, 4, 5, 6, 7, 8}
    BY <1>1
  <2> QED
    BY <2>1, SmallSizes
<1>2. CASE len \in 9..24
  <2>1. len \in {9, 10, 11, 12, 13, 14, 15, 16} \cup {17, 18, 19, 20, 21, 22, 23, 24}
    BY <1>2
  <2> QED
    BY <2>1, SizeIs
<1> QED
  BY <1>1, <1>2

LEMMA AWSPrefixes == AWS \subseteq Prefix
BY SizeIs, SMTT(60) DEF Prefix, AWS, Wide, Narrow, Net24

LEMMA GCPPrefixes == GCP \subseteq Prefix
BY SizeIs, SMTT(60) DEF Prefix, GCP, Wide, Narrow, Net24

LEMMA AzurePrefixes == Azure \subseteq Prefix
BY SizeIs, SMTT(60) DEF Prefix, Azure, Wide, Narrow, Net24

LEMMA DigitalOceanPrefixes == DigitalOcean \subseteq Prefix
BY SizeIs, SMTT(60) DEF Prefix, DigitalOcean, Wide, Narrow, Net24

LEMMA TorPrefixes == torCIDRs \subseteq Prefix
BY SizeIs, SMTT(60) DEF Prefix, torCIDRs, Wide, Narrow, Net24

\* With the bits below a prefix cleared a network is the one the prefix
\* names just when it lies between its first network and its last.
LEMMA MaskedIs ==
    ASSUME NEW s \in Nat \ {0}, NEW c \in Nat, c % s = 0, NEW n \in Nat
    PROVE  n - (n % s) = c <=> c <= n /\ n < c + s
<1> DEFINE q == n \div s
           k == c \div s
           r == n % s
<1>1. q \in Nat /\ k \in Nat /\ r \in 0..s - 1 /\ n = s * q + r /\ c = s * k
  OBVIOUS
<1> HIDE DEF q, k, r
<1>2. CASE q = k
  BY <1>1, <1>2 DEF r
<1>3. CASE q < k
  <2>1. s * k >= s * (q + 1) /\ s * (q + 1) = s * q + s
    BY <1>1, <1>3
  <2> QED
    BY <1>1, <2>1 DEF r
<1>4. CASE q > k
  <2>1. s * q >= s * (k + 1) /\ s * (k + 1) = s * k + s
    BY <1>1, <1>4
  <2> QED
    BY <1>1, <2>1 DEF r
<1> QED
  BY <1>1, <1>2, <1>3, <1>4

\* A list contains an address just when it lies in one of its networks, and
\* nothing lies below the first.
LEMMA ListedIs ==
    ASSUME NEW table \in SUBSET Prefix, NEW ip, ip.kind = "dotted", ip.net \in Nat
    PROVE  Listed(parseCIDRs(table), ip) <=> LiesIn(table, ip.net)
<1> DEFINE n == ip.net
<1>1. \A c \in table :
        /\ c.len \in 0..24 /\ c.net \in Nat /\ c.net % Size(c.len) = 0
        /\ Size(c.len) \in Nat \ {0}
        /\ c = [net |-> c.net, len |-> c.len]
  BY SizesPositive DEF Prefix
<1>2. \A c \in table : [c EXCEPT !.net = Masked(c.net, c.len)] = c
  BY <1>1 DEF Masked
<1>3. parseCIDRs(table) = table
  BY <1>2 DEF parseCIDRs
<1>4. \A c \in table : Masked(n, c.len) = c.net <=> c.net <= n /\ n < c.net + Size(c.len)
  BY <1>1, MaskedIs DEF Masked
<1>5. Listed(table, ip) <=> \E len \in 0..24 : [net |-> Masked(n, len), len |-> len] \in table
  BY DEF Listed
<1>6. LiesIn(table, n) <=> \E c \in table : c.net <= n /\ n < c.net + Size(c.len)
  BY DEF LiesIn, Size
<1> HIDE DEF n
<1>7. ASSUME NEW len \in 0..24, [net |-> Masked(n, len), len |-> len] \in table
      PROVE  \E c \in table : c.net <= n /\ n < c.net + Size(c.len)
  <2> DEFINE c == [net |-> Masked(n, len), len |-> len]
  <2>1. c.net = Masked(n, len) /\ c.len = len /\ c \in table
    BY <1>7
  <2> HIDE DEF c
  <2> QED
    BY <1>4, <2>1
<1>8. ASSUME NEW c \in table, c.net <= n, n < c.net + Size(c.len)
      PROVE  \E len \in 0..24 : [net |-> Masked(n, len), len |-> len] \in table
  <2>1. Masked(n, c.len) = c.net /\ c.len \in 0..24
    BY <1>1, <1>4, <1>8
  <2>2. [net |-> Masked(n, c.len), len |-> c.len] = c
    BY <1>1, <2>1
  <2> QED
    BY <2>1, <2>2
<1> QED
  BY <1>3, <1>5, <1>6, <1>7, <1>8 DEF n

LEMMA NothingBelow == \A table \in SUBSET Prefix : ~LiesIn(table, -1)
BY DEF LiesIn, Prefix

-----------------------------------------------------------------------------
(***************************************************************************)
(* Addresses.                                                              *)
(***************************************************************************)
LEMMA SameText ==
    ASSUME NEW x \in Seq(Token), NEW y \in Seq(Token), Len(x) = Len(y),
           \A i \in 1..Len(x) : x[i] = y[i]
    PROVE  x = y
OBVIOUS

LEMMA TextsJoined ==
    ASSUME NEW x \in Seq(Token), NEW y \in Seq(Token)
    PROVE  /\ x \o y \in Seq(Token) /\ Len(x \o y) = Len(x) + Len(y)
           /\ \A i \in 1..Len(x) : (x \o y)[i] = x[i]
           /\ \A i \in 1..Len(y) : (x \o y)[Len(x) + i] = y[i]
<1>1. Len(x) \in Nat /\ Len(y) \in Nat
  OBVIOUS
<1>2. x \o y \in Seq(Token) /\ Len(x \o y) = Len(x) + Len(y)
  OBVIOUS
<1>3. ASSUME NEW i \in 1..Len(x) PROVE (x \o y)[i] = x[i]
  BY <1>1
<1>4. ASSUME NEW i \in 1..Len(y) PROVE (x \o y)[Len(x) + i] = y[i]
  BY <1>1
<1> QED
  BY <1>2, <1>3, <1>4

\* What stands before the last colon of RemoteAddr.
Wrapped(host) ==
    IF Len(host) = 1 THEN host ELSE <<Mark("[")>> \o host \o <<Mark("]")>>

LEMMA MarksAre ==
    /\ Mark("[") \in Token /\ Mark("]") \in Token /\ Colon \in Token
    /\ Mark("[").kind = "[" /\ Mark("]").kind = "]" /\ Colon.kind = ":"
BY DEF Mark, Colon, Token

LEMMA PortsAre == \A p \in Nat : Port(p) \in Token /\ Port(p).kind = "port"
BY DEF Port, Token

LEMMA LongWrapped ==
    ASSUME NEW host \in Seq(Token), Len(host) > 1
    PROVE  /\ Wrapped(host) \in Seq(Token) /\ Len(Wrapped(host)) = Len(host) + 2
           /\ Wrapped(host)[1] = Mark("[")
           /\ \A i \in 1..Len(host) : Wrapped(host)[i + 1] = host[i]
           /\ Wrapped(host)[Len(host) + 2] = Mark("]")
<1> DEFINE open == <<Mark("[")>>
           shut == <<Mark("]")>>
           a == open \o host
           w == a \o shut
<1>1. open \in Seq(Token) /\ Len(open) = 1 /\ open[1] = Mark("[")
  BY MarksAre
<1>2. shut \in Seq(Token) /\ Len(shut) = 1 /\ shut[1] = Mark("]")
  BY MarksAre
<1>3. Wrapped(host) = w
  <2>1. Len(host) # 1
    <3>1. Len(host) \in Nat
      OBVIOUS
    <3>2. \A k \in Nat : k > 1 => k # 1
      OBVIOUS
    <3> QED
      BY <3>1, <3>2
  <2> QED
    BY <2>1, Zenon DEF Wrapped
<1> HIDE DEF open, shut
<1>4. a \in Seq(Token) /\ Len(a) = 1 + Len(host)
  <2>1. a \in Seq(Token)
    BY <1>1
  <2>2. Len(a) = Len(open) + Len(host)
    BY <1>1, TextsJoined
  <2> QED
    BY <1>1, <2>1, <2>2
<1>5. a[1] = Mark("[")
  <2>1. \A i \in 1..Len(open) : a[i] = open[i]
    BY <1>1, TextsJoined
  <2> HIDE DEF a
  <2> QED
    BY <1>1, <2>1
<1>6. ASSUME NEW i \in 1..Len(host) PROVE a[i + 1] = host[i]
  <2>1. \A j \in 1..Len(host) : a[Len(open) + j] = host[j]
    BY <1>1, TextsJoined
  <2> HIDE DEF a
  <2>2. a[1 + i] = host[i]
    BY <1>1, <2>1
  <2>3. 1 + i = i + 1
    OBVIOUS
  <2> QED
    BY <2>2, <2>3
<1> HIDE DEF a
<1>7. w \in Seq(Token) /\ Len(w) = Len(a) + 1
  <2>1. w \in Seq(Token)
    BY <1>2, <1>4
  <2>2. Len(w) = Len(a) + Len(shut)
    BY <1>2, <1>4, TextsJoined
  <2> QED
    BY <1>2, <2>1, <2>2
<1>8. \A i \in 1..Len(a) : w[i] = a[i]
  BY <1>2, <1>4, TextsJoined
<1>9. w[Len(a) + 1] = Mark("]")
  <2>1. \A j \in 1..Len(shut) : w[Len(a) + j] = shut[j]
    BY <1>2, <1>4, TextsJoined
  <2> HIDE DEF w
  <2> QED
    BY <1>2, <2>1
<1> HIDE DEF w
<1>10. Len(host) \in Nat
  OBVIOUS
<1>11. w[1] = Mark("[") /\ w[Len(host) + 2] = Mark("]") /\ Len(w) = Len(host) + 2
  BY <1>4, <1>5, <1>7, <1>8, <1>9, <1>10
<1>12. ASSUME NEW i \in 1..Len(host) PROVE w[i + 1] = host[i]
  <2>1. i + 1 \in 1..Len(a)
    BY <1>4, <1>10
  <2> QED
    BY <1>6, <1>8, <2>1
<1> QED
  BY <1>3, <1>7, <1>11, <1>12

LEMMA WrappedIs ==
    ASSUME NEW host, IsPeer(host)
    PROVE  Wrapped(host) \in Seq(Token) /\ Len(Wrapped(host)) >= 1
<1>1. host \in Seq(Token) /\ (Len(host) = 1 \/ Len(host) > 1)
  BY DEF IsPeer
<1>2. CASE Len(host) = 1
  BY <1>1, <1>2 DEF Wrapped
<1>3. CASE Len(host) > 1
  BY <1>1, <1>3, LongWrapped
<1> QED
  BY <1>1, <1>2, <1>3

\* The last colon of RemoteAddr is the one before the port.
LEMMA HostOfConnection ==
    ASSUME NEW host, IsPeer(host), NEW p \in Nat
    PROVE  extractIP(<<>>, RemoteAddr(host, p)) = Wrapped(host)
<1> DEFINE w == Wrapped(host)
           L == Len(w)
           port == <<Colon, Port(p)>>
           t == w \o port
<1>1. w \in Seq(Token) /\ L \in Nat /\ L >= 1
  BY WrappedIs
<1>2. port \in Seq(Token) /\ Len(port) = 2 /\ port[1] = Colon /\ port[2] = Port(p)
  BY MarksAre, PortsAre
<1>3. RemoteAddr(host, p) = t
  BY DEF RemoteAddr, Wrapped
<1> HIDE DEF w, port
<1>4. t \in Seq(Token) /\ Len(t) = L + 2
  <2>1. t \in Seq(Token)
    BY <1>1, <1>2
  <2>2. Len(t) = Len(w) + Len(port)
    BY <1>1, <1>2, TextsJoined
  <2> QED
    BY <1>2, <2>1, <2>2
<1>5. \A i \in 1..L : t[i] = w[i]
  BY <1>1, <1>2, TextsJoined
<1>6. t[L + 1] = Colon /\ t[L + 2] = Port(p)
  <2>1. \A i \in 1..Len(port) : t[L + i] = port[i]
    BY <1>1, <1>2, TextsJoined
  <2> HIDE DEF t
  <2> QED
    BY <1>2, <2>1
<1> HIDE DEF t, L
<1>7. Port(p) # Colon
  BY MarksAre, PortsAre
<1>8. /\ L + 1 \in Colons(t)
      /\ \A i \in Colons(t) : L + 1 >= i
  <2>1. DOMAIN t = 1..L + 2
    BY <1>1, <1>4
  <2>2. \A i \in 1..L + 2 : i = L + 2 \/ L + 1 >= i
    BY <1>1
  <2> QED
    BY <1>1, <1>6, <1>7, <2>1, <2>2 DEF Colons
<1>9. \A x \in Colons(t) : (\A y \in Colons(t) : x >= y) => x = L + 1
  <2>1. Colons(t) \subseteq Int
    BY <1>4 DEF Colons
  <2> QED
    BY <1>1, <1>8, <2>1
<1>10. Max(Colons(t)) = L + 1
  BY <1>8, <1>9 DEF Max
<1>11. SubSeq(t, 1, L) = w
  <2>1. SubSeq(t, 1, L) \in Seq(Token) /\ Len(SubSeq(t, 1, L)) = L
    BY <1>1, <1>4
  <2>2. \A i \in 1..L : SubSeq(t, 1, L)[i] = t[i]
    BY <1>1, <1>4
  <2> QED
    BY <1>1, <1>5, <2>1, <2>2, SameText DEF L
<1>12. (L + 1) - 1 = L
  BY <1>1
<1> QED
  BY <1>3, <1>8, <1>10, <1>11, <1>12 DEF extractIP, w

LEMMA PeersAre ==
    ASSUME NEW host, IsPeer(host)
    PROVE  /\ host \in Seq(Token) /\ Len(host) \in Nat
           /\ \/ Len(host) = 1 /\ host[1] \in Token /\ host[1].kind = "dotted"
                 /\ host = <<host[1]>>
              \/ Len(host) > 1 /\ Len(host) # 1 /\ host[1].kind # "dotted"
                 /\ \A i \in 1..Len(host) : host[i].kind \in {"hex", ":"}
<1>1. host \in Seq(Token) /\ Len(host) \in Nat /\ DOMAIN host = 1..Len(host)
  BY DEF IsPeer
<1>2. CASE Len(host) = 1 /\ host[1].kind = "dotted"
  <2>1. host[1] \in Token
    <3>1. 1 \in 1..Len(host)
      BY <1>2
    <3>2. \A i \in 1..Len(host) : host[i] \in Token
      BY <1>1
    <3> QED
      BY <3>1, <3>2
  <2>2. <<host[1]>> \in Seq(Token) /\ Len(<<host[1]>>) = 1 /\ <<host[1]>>[1] = host[1]
    BY <2>1
  <2>3. \A i \in 1..Len(host) : host[i] = <<host[1]>>[i]
    BY <1>2, <2>2
  <2>4. host = <<host[1]>>
    BY <1>1, <1>2, <2>2, <2>3, SameText
  <2> QED
    BY <1>1, <1>2, <2>1, <2>4
<1>3. CASE Len(host) > 1 /\ \A i \in DOMAIN host : host[i].kind \in {"hex", ":"}
  <2>1. 1 \in DOMAIN host /\ Len(host) # 1
    BY <1>1, <1>3
  <2>2. host[1].kind \in {"hex", ":"}
    BY <1>3, <2>1
  <2> QED
    BY <1>1, <1>3, <2>1, <2>2
<1> QED
  BY <1>2, <1>3 DEF IsPeer

\* Two hosts have two addresses.
LEMMA WrappedApart ==
    ASSUME NEW a, IsPeer(a), NEW b, IsPeer(b), Wrapped(a) = Wrapped(b)
    PROVE  a = b
<1>1. /\ a \in Seq(Token) /\ Len(a) \in Nat /\ (Len(a) = 1 \/ Len(a) > 1)
      /\ b \in Seq(Token) /\ Len(b) \in Nat /\ (Len(b) = 1 \/ Len(b) > 1)
  BY PeersAre
<1>2. Len(a) = 1 => Wrapped(a) = a
  BY DEF Wrapped
<1>3. Len(b) = 1 => Wrapped(b) = b
  BY DEF Wrapped
<1>4. Len(a) > 1 => Len(Wrapped(a)) = Len(a) + 2
  BY <1>1, LongWrapped
<1>5. Len(b) > 1 => Len(Wrapped(b)) = Len(b) + 2
  BY <1>1, LongWrapped
<1>6. \/ Len(a) = 1 /\ Len(b) = 1
      \/ Len(a) > 1 /\ Len(b) > 1
  BY <1>1, <1>2, <1>3, <1>4, <1>5
<1>7. CASE Len(a) = 1 /\ Len(b) = 1
  BY <1>2, <1>3, <1>7
<1>8. CASE Len(a) > 1 /\ Len(b) > 1
  <2>1. Len(a) = Len(b)
    BY <1>1, <1>4, <1>5, <1>8
  <2>2. \A i \in 1..Len(a) : Wrapped(a)[i + 1] = a[i]
    BY <1>1, <1>8, LongWrapped
  <2>3. \A i \in 1..Len(b) : Wrapped(b)[i + 1] = b[i]
    BY <1>1, <1>8, LongWrapped
  <2>4. \A i \in 1..Len(a) : a[i] = b[i]
    BY <2>1, <2>2, <2>3
  <2> QED
    BY <1>1, <2>1, <2>4, SameText
<1> QED
  BY <1>6, <1>7, <1>8

\* An IPv4 text is parsed; what stands between brackets is not.
LEMMA ParsedOne ==
    ASSUME NEW ip \in Token, ip.kind = "dotted"
    PROVE  ParseIP(<<ip>>) = ip
<1>1. Len(<<ip>>) = 1 /\ <<ip>>[1] = ip
  OBVIOUS
<1> QED
  BY <1>1 DEF ParseIP

LEMMA ParsedMapped ==
    ASSUME NEW ip \in Token, ip.kind = "dotted"
    PROVE  ParseIP(Mapped(ip)) = ip
<1>1. Len(Mapped(ip)) = 5 /\ Mapped(ip)[5] = ip
  BY DEF Mapped
<1> QED
  BY <1>1 DEF ParseIP

LEMMA ParsedBrackets ==
    ASSUME NEW host \in Seq(Token), Len(host) > 1
    PROVE  ParseIP(Wrapped(host)) = Mark("nil")
<1> DEFINE w == Wrapped(host)
<1>1. /\ w \in Seq(Token) /\ Len(w) = Len(host) + 2
      /\ w[1] = Mark("[") /\ w[Len(host) + 2] = Mark("]")
  BY LongWrapped
<1> HIDE DEF w
<1>2. Len(host) \in Nat
  OBVIOUS
<1>3. w[Len(w)].kind # "dotted"
  BY <1>1, MarksAre
<1>4. 1 \in DOMAIN w /\ w[1].kind \notin {"hex", ":"}
  <2>1. DOMAIN w = 1..Len(w)
    BY <1>1
  <2> QED
    BY <1>1, <1>2, <2>1, MarksAre
<1> QED
  BY <1>3, <1>4 DEF ParseIP, w

\* The address a text is counted by is the IPv4 address it stands for, if
\* it stands for one.
LEMMA ParsedIs ==
    ASSUME NEW text \in Seq(Token), text # <<>>
    PROVE  /\ IPv4In(text) = {} => ParseIP(text).kind # "dotted"
           /\ \A ip \in IPv4In(text) :
                 ParseIP(text) = ip /\ ip.kind = "dotted" /\ ip.net \in Nat
<1>1. Len(text) \in Nat /\ DOMAIN text = 1..Len(text) /\ Len(text) # 0
  OBVIOUS
<1>2. Len(text) \in DOMAIN text
  BY <1>1
<1>3. ASSUME IPv4In(text) = {} PROVE ParseIP(text).kind # "dotted"
  <2> DEFINE last == text[Len(text)]
  <2>1. ~(last.kind = "dotted" /\ text \in {<<last>>, Mapped(last)})
    BY <1>2, <1>3 DEF IPv4In
  <2>2. ParseIP(text) \in {Mark("v6"), Mark("nil")}
    BY <2>1 DEF ParseIP
  <2> QED
    BY <2>2 DEF Mark
<1>4. ASSUME NEW ip \in IPv4In(text)
      PROVE  ParseIP(text) = ip /\ ip.kind = "dotted" /\ ip.net \in Nat
  <2>1. ip \in Token /\ ip.kind = "dotted" /\ (text = <<ip>> \/ text = Mapped(ip))
    BY <1>1 DEF IPv4In
  <2>2. ip \in [kind: {"dotted"}, net: 0..Net24(255, 255, 255), host: 0..255]
    <3>1. /\ \A x \in [kind: {"hex"}, digits: STRING] : x.kind = "hex"
          /\ \A x \in [kind: {"port"}, number: Nat] : x.kind = "port"
          /\ \A x \in [kind: {":", "[", "]", ","}] : x.kind \in {":", "[", "]", ","}
      OBVIOUS
    <3> QED
      BY <2>1, <3>1 DEF Token
  <2>3. ip.net \in Nat
    BY <2>2
  <2> QED
    BY <2>1, <2>3, ParsedOne, ParsedMapped
<1> QED
  BY <1>3, <1>4

-----------------------------------------------------------------------------
(***************************************************************************)
(* The page load.  From the challenge on, what the server predicted and    *)
(* what it counted the request under are functions of the load; from       *)
(* /verify on so is the token, and at the end the answer of the token      *)
(* presented.                                                              *)
(***************************************************************************)
Predicted ==
    [ ChallengeClass |-> 2, TemperatureBucket |-> load.bucket,
      DeviceClass |-> 1, TimeBucket |-> TimeBucketFromTime(load.at) ]

Answer(token) ==
    LET meta == DecodeMetadata(metaOf(token))
    IN  IF Accepted(token)
        THEN [ success |-> TRUE, timestamp |-> Timestamp(meta),
               challenge_class |-> meta.ChallengeClass,
               temperature_bucket |-> meta.TemperatureBucket ]
        ELSE Refused

Issued == stage \in {"token", "presented", "done"}

ChallengeInv ==
    IF stage = "start" THEN counted = {}
    ELSE /\ challenge.PredictedMetadata = Encode(Predicted)
         /\ counted \subseteq {RequestIP(1), RequestIP(2)}
         /\ reputation = Score(RequestIP(1))

TokenInv == Issued => issued = buildToken(load.sig, challenge.PredictedMetadata, load.nonce)

VerdictInv == stage = "done" => verdict = Answer(presented)

ExchangeInv == TypeOK /\ ChallengeInv /\ TokenInv /\ VerdictInv

\* What the constants say of every load.
LEMMA PredictedOK ==
    ASSUME LoadOK(load)
    PROVE  /\ Encode(Predicted) \in [1..metaLen -> Byte]
           /\ DecodeMetadata(Encode(Predicted)) = Predicted
<1>1. load.bucket \in 0..3 /\ load.at \in Nat
  BY DEF LoadOK
<1>2. load.bucket \in Byte /\ 2 \in Byte /\ 1 \in Byte
  BY <1>1, ByteSizes DEF Byte
<1>3. TimeBucketFromTime(load.at) \in Word
  BY <1>1, HourOfTime
<1>4. Predicted \in TrustMetadata
  BY <1>2, <1>3 DEF Predicted, TrustMetadata
<1> QED
  BY <1>4, MetadataReadsBack

LEMMA ScoreValues == \A text : Score(text) \in {0, 80, 100}
BY DEF Score

\* The address of a request: the forwarded text, or the host.
LEMMA RequestIPIs ==
    ASSUME LoadOK(load), NEW k \in {1, 2}
    PROVE  RequestIP(k) = IF load.forwarded # <<>> THEN load.forwarded ELSE Wrapped(load.host)
<1>1. IsPeer(load.host) /\ load.ports[k] \in Nat
  BY DEF LoadOK
<1>2. CASE load.forwarded # <<>>
  BY <1>2 DEF RequestIP, extractIP
<1>3. CASE load.forwarded = <<>>
  BY <1>1, <1>3, HostOfConnection DEF RequestIP
<1> QED
  BY <1>2, <1>3

\* A host is parsed as its text is, brackets or not.
LEMMA ParsedHost ==
    ASSUME NEW host, IsPeer(host)
    PROVE  /\ IPv4In(host) = {} => ParseIP(Wrapped(host)).kind # "dotted"
           /\ \A ip \in IPv4In(host) :
                 ParseIP(Wrapped(host)) = ip /\ ip.kind = "dotted" /\ ip.net \in Nat
<1>1. host \in Seq(Token) /\ Len(host) \in Nat
  BY PeersAre
<1>2. CASE Len(host) = 1
  <2>1. Wrapped(host) = host /\ host # <<>>
    BY <1>1, <1>2 DEF Wrapped
  <2> QED
    BY <1>1, <2>1, ParsedIs
<1>3. CASE Len(host) > 1
  <2>1. ParseIP(Wrapped(host)).kind # "dotted"
    BY <1>1, <1>3, ParsedBrackets DEF Mark
  <2>2. \A i \in 1..Len(host) : host[i].kind \in {"hex", ":"}
    BY <1>3, PeersAre
  <2>3. IPv4In(host) = {}
    BY <1>1, <2>2 DEF IPv4In
  <2> QED
    BY <2>1, <2>3
<1> QED
  BY <1>2, <1>3, PeersAre

LEMMA ScoreIs ==
    ASSUME LoadOK(load)
    PROVE  Score(RequestIP(1)) =
             IF LiesIn(torCIDRs, load.origin) THEN 100
             ELSE IF LiesIn(cloudCIDRs, load.origin) THEN 80 ELSE 0
<1> DEFINE text == IF load.forwarded # <<>> THEN load.forwarded ELSE load.host
           ip == ParseIP(RequestIP(1))
<1>1. /\ IsPeer(load.host) /\ load.forwarded \in Seq(Token)
      /\ IF IPv4In(text) = {} THEN load.origin = -1
         ELSE \E x \in IPv4In(text) : load.origin = x.net
  BY DEF LoadOK
<1>2. /\ IPv4In(text) = {} => ip.kind # "dotted"
      /\ \A x \in IPv4In(text) : ip = x /\ x.kind = "dotted" /\ x.net \in Nat
  <2>1. CASE load.forwarded # <<>>
    <3>1. RequestIP(1) = load.forwarded /\ text = load.forwarded
      BY <2>1, RequestIPIs
    <3> QED
      BY <1>1, <2>1, <3>1, ParsedIs
  <2>2. CASE load.forwarded = <<>>
    <3>1. RequestIP(1) = Wrapped(load.host) /\ text = load.host
      BY <2>2, RequestIPIs
    <3> QED
      BY <1>1, <3>1, ParsedHost
  <2> QED
    BY <2>1, <2>2
<1>3. torCIDRs \in SUBSET Prefix /\ cloudCIDRs \in SUBSET Prefix
  BY TorPrefixes, AWSPrefixes, GCPPrefixes, AzurePrefixes, DigitalOceanPrefixes DEF cloudCIDRs
<1> HIDE DEF text, ip
<1>4. CASE IPv4In(text) = {}
  <2>1. ~Listed(torNets, ip) /\ ~Listed(cloud, ip)
    BY <1>2, <1>4 DEF Listed
  <2>2. ~LiesIn(torCIDRs, load.origin) /\ ~LiesIn(cloudCIDRs, load.origin)
    BY <1>1, <1>3, <1>4, NothingBelow
  <2> QED
    BY <2>1, <2>2 DEF Score, ip
<1>5. CASE IPv4In(text) # {}
  <2>1. ip.kind = "dotted" /\ ip.net \in Nat /\ load.origin = ip.net
    BY <1>1, <1>2, <1>5
  <2>2. /\ Listed(torNets, ip) <=> LiesIn(torCIDRs, load.origin)
        /\ Listed(cloud, ip) <=> LiesIn(cloudCIDRs, load.origin)
    BY <1>3, <2>1, ListedIs DEF torNets, cloud
  <2> QED
    BY <2>2 DEF Score, ip
<1> QED
  BY <1>4, <1>5

\* What is presented is a string of bytes.
LEMMA TokensAre ==
    ASSUME issued \in [1..tokenLen -> Byte]
    PROVE  Tokens \subseteq Seq(Byte)
<1>1. tokenLen \in Nat /\ sigLen \in Nat \ {0} /\ tokenLen = sigLen + 15 /\ ByteSize \in Nat \ {0}
  BY WireAssumption, ByteSizes DEF tokenLen, metaLen, nonceLen
<1>2. issued \in Seq(Byte) /\ Len(issued) = tokenLen /\ DOMAIN issued = 1..tokenLen
  BY <1>1
<1>3. Tail(issued) \in Seq(Byte)
  <2>1. issued # <<>>
    BY <1>1, <1>2
  <2> QED
    BY <1>2, <2>1
<1>4. SubSeq(issued, 1, tokenLen - 1) \in Seq(Byte)
  <2>1. \A x \in Seq(Byte), j \in Nat : j <= Len(x) => SubSeq(x, 1, j) \in Seq(Byte)
    OBVIOUS
  <2>2. tokenLen - 1 \in Nat /\ tokenLen - 1 <= Len(issued)
    BY <1>1, <1>2
  <2> QED
    BY <1>2, <2>1, <2>2
<1>5. Append(issued, 0) \in Seq(Byte)
  <2>1. 0 \in Byte
    BY <1>1 DEF Byte
  <2> QED
    BY <1>2, <2>1
<1>6. ASSUME NEW i \in DOMAIN issued
      PROVE  [issued EXCEPT ![i] = (@ + 1) % ByteSize] \in Seq(Byte)
  <2>1. (issued[i] + 1) % ByteSize \in Byte
    BY <1>1, <1>2 DEF Byte
  <2>2. [issued EXCEPT ![i] = (@ + 1) % ByteSize] \in [1..tokenLen -> Byte]
    BY <1>2, <2>1
  <2> QED
    BY <1>1, <2>2
<1>7. buildToken(sigOf(issued), nonceOf(issued), metaOf(issued)) \in Seq(Byte)
  <2>1. sigOf(issued) \in Seq(Byte) /\ nonceOf(issued) \in Seq(Byte) /\ metaOf(issued) \in Seq(Byte)
    BY <1>2, CutParts
  <2> QED
    BY <2>1 DEF buildToken
<1> QED
  BY <1>2, <1>3, <1>4, <1>5, <1>6, <1>7 DEF Tokens

\* What a page load is made of does not change.
LEMMA LoadStays ==
    ASSUME load' = load
    PROVE  /\ LoadOK(load)' <=> LoadOK(load)
           /\ RequestIP(1)' = RequestIP(1) /\ RequestIP(2)' = RequestIP(2)
           /\ Predicted' = Predicted
<1>1. LoadOK(load)' <=> LoadOK(load)
  BY DEF LoadOK
<1>2. RequestIP(1)' = RequestIP(1) /\ RequestIP(2)' = RequestIP(2)
  BY DEF RequestIP
<1>3. Predicted' = Predicted
  BY DEF Predicted
<1> QED
  BY <1>1, <1>2, <1>3

LEMMA ExchangeInit == Init => ExchangeInv
<1> SUFFICES ASSUME Init PROVE ExchangeInv
  OBVIOUS
<1>1. LoadOK(load)
  BY LoadsAssumption DEF Init
<1>2. <<>> \in Seq(Byte)
  OBVIOUS
<1>3. TypeOK
  BY <1>1, <1>2 DEF Init, TypeOK, None, Refused
<1>4. ChallengeInv /\ TokenInv /\ VerdictInv
  BY DEF Init, ChallengeInv, TokenInv, VerdictInv, Issued
<1> QED
  BY <1>3, <1>4 DEF ExchangeInv

LEMMA ExchangeStep == ExchangeInv /\ [Next]_vars => ExchangeInv'
<1> SUFFICES ASSUME ExchangeInv, [Next]_vars PROVE ExchangeInv'
  OBVIOUS
<1> USE DEF ExchangeInv
<1>1. load' = load
  BY DEF Next, vars, HandleChallenge, NextCounter, solveHashCash, Respond, HandleVerify,
         HandleVerifyFails, Present, HandleSiteverify
<1>2. /\ LoadOK(load) /\ LoadOK(load')
      /\ RequestIP(1)' = RequestIP(1) /\ RequestIP(2)' = RequestIP(2)
      /\ Predicted' = Predicted
  BY <1>1, LoadStays DEF TypeOK
<1>3. CASE HandleChallenge
  <2>1. challenge'.PredictedMetadata = Encode(Predicted)
    BY <1>3 DEF HandleChallenge, Predicted
  <2>2. counted' \subseteq {RequestIP(1), RequestIP(2)} /\ reputation' = Score(RequestIP(1))
    BY <1>3 DEF HandleChallenge, ChallengeInv
  <2>3. TypeOK'
    BY <1>2, <1>3, <2>1, <2>2, PredictedOK, ScoreValues DEF HandleChallenge, TypeOK
  <2>4. ChallengeInv'
    BY <1>2, <1>3, <2>1, <2>2 DEF HandleChallenge, ChallengeInv
  <2>5. TokenInv' /\ VerdictInv'
    BY <1>3 DEF HandleChallenge, TokenInv, VerdictInv, Issued
  <2> QED
    BY <2>3, <2>4, <2>5
<1>4. CASE NextCounter
  <2>1. TypeOK'
    BY <1>2, <1>4 DEF NextCounter, TypeOK
  <2>2. ChallengeInv'
    BY <1>2, <1>4 DEF NextCounter, ChallengeInv
  <2>3. TokenInv' /\ VerdictInv'
    BY <1>4 DEF NextCounter, TokenInv, VerdictInv, Issued
  <2> QED
    BY <2>1, <2>2, <2>3
<1>5. CASE solveHashCash
  <2>1. TypeOK'
    BY <1>2, <1>5 DEF solveHashCash, TypeOK
  <2>2. ChallengeInv'
    BY <1>2, <1>5 DEF solveHashCash, ChallengeInv
  <2>3. TokenInv' /\ VerdictInv'
    BY <1>5 DEF solveHashCash, TokenInv, VerdictInv, Issued
  <2> QED
    BY <2>1, <2>2, <2>3
<1>6. CASE Respond
  <2>1. response'.byWidget \in BOOLEAN
    <3>1. \A A, B, V, x : x \in [hashcash: A, argon2: B, byWidget: V] => x.byWidget \in V
      OBVIOUS
    <3>2. \A f, r, v, x :
            x = [hashcash |-> f, argon2 |-> r, byWidget |-> v] => x.byWidget = v
      OBVIOUS
    <3>3. response' \in Solutions
      BY <1>6 DEF Respond
    <3> QED
      BY <3>1, <3>2, <3>3, Zenon DEF Solutions
  <2>2. TypeOK'
    BY <1>2, <1>6, <2>1 DEF Respond, TypeOK
  <2>3. ChallengeInv'
    BY <1>2, <1>6 DEF Respond, ChallengeInv
  <2>4. TokenInv' /\ VerdictInv'
    BY <1>6 DEF Respond, TokenInv, VerdictInv, Issued
  <2> QED
    BY <2>2, <2>3, <2>4
<1>7. CASE HandleVerify
  <2>1. /\ counted' \subseteq {RequestIP(1), RequestIP(2)} /\ reputation' = reputation
        /\ challenge' = challenge /\ stage' = "token"
        /\ challenge.PredictedMetadata = Encode(Predicted) /\ reputation = Score(RequestIP(1))
    BY <1>7 DEF HandleVerify, ChallengeInv
  <2>2. issued' = buildToken(load.sig, challenge.PredictedMetadata, load.nonce)
    BY <1>7 DEF HandleVerify
  <2>3. issued' \in [1..tokenLen -> Byte]
    <3>1. load.sig \in [1..sigLen -> Byte] /\ load.nonce \in [1..nonceLen -> Byte]
      BY <1>2 DEF LoadOK
    <3>2. Encode(Predicted) \in [1..metaLen -> Byte]
      BY <1>2, PredictedOK
    <3>3. issued' \in Seq(Byte) /\ Len(issued') = tokenLen
      BY <2>1, <2>2, <3>1, <3>2, TokenOfParts
    <3>4. \A x \in Seq(Byte) : x \in [1..Len(x) -> Byte]
      OBVIOUS
    <3> QED
      BY <3>3, <3>4
  <2>4. TypeOK'
    BY <1>2, <1>7, <2>3 DEF HandleVerify, TypeOK
  <2>5. ChallengeInv'
    BY <1>2, <2>1 DEF ChallengeInv
  <2>6. TokenInv' /\ VerdictInv'
    BY <1>1, <2>1, <2>2 DEF TokenInv, VerdictInv, Issued
  <2> QED
    BY <2>4, <2>5, <2>6
<1>8. CASE HandleVerifyFails
  <2>1. TypeOK'
    BY <1>2, <1>8 DEF HandleVerifyFails, TypeOK
  <2>2. ChallengeInv'
    BY <1>2, <1>8 DEF HandleVerifyFails, ChallengeInv
  <2>3. TokenInv' /\ VerdictInv'
    BY <1>8 DEF HandleVerifyFails, TokenInv, VerdictInv, Issued
  <2> QED
    BY <2>1, <2>2, <2>3
<1>9. CASE Present
  <2>1. issued = buildToken(load.sig, challenge.PredictedMetadata, load.nonce)
    BY <1>9 DEF Present, TokenInv, Issued
  <2>2. issued # None
    <3>1. Len(issued) = tokenLen /\ tokenLen # 0
      <4>1. load.sig \in [1..sigLen -> Byte] /\ load.nonce \in [1..nonceLen -> Byte]
        BY <1>2 DEF LoadOK
      <4>2. challenge.PredictedMetadata \in [1..metaLen -> Byte]
        BY <1>2, <1>9, PredictedOK DEF Present, ChallengeInv
      <4>3. Len(issued) = tokenLen
        BY <2>1, <4>1, <4>2, TokenOfParts
      <4> QED
        BY <4>3, WireAssumption DEF tokenLen, metaLen, nonceLen
    <3> QED
      BY <3>1 DEF None
  <2>3. presented' \in Seq(Byte)
    BY <1>9, <2>2, TokensAre DEF Present, TypeOK
  <2>4. TypeOK'
    BY <1>2, <1>9, <2>3 DEF Present, TypeOK
  <2>5. ChallengeInv'
    BY <1>2, <1>9 DEF Present, ChallengeInv
  <2>6. TokenInv' /\ VerdictInv'
    BY <1>1, <1>9, <2>1 DEF Present, TokenInv, VerdictInv, Issued
  <2> QED
    BY <2>4, <2>5, <2>6
<1>10. CASE HandleSiteverify
  <2>1. verdict' = Answer(presented)
    BY <1>10 DEF HandleSiteverify, Answer
  <2>2. Answer(presented)' = Answer(presented)
    BY <1>1, <1>10 DEF HandleSiteverify, Answer, Accepted, Verifies
  <2>3. verdict'.success \in BOOLEAN
    BY <2>1 DEF Answer, Refused
  <2>4. TypeOK'
    BY <1>2, <1>10, <2>3 DEF HandleSiteverify, TypeOK
  <2>5. ChallengeInv'
    BY <1>2, <1>10 DEF HandleSiteverify, ChallengeInv
  <2>6. TokenInv'
    BY <1>1, <1>10 DEF HandleSiteverify, TokenInv, Issued
  <2>7. VerdictInv'
    BY <2>1, <2>2 DEF VerdictInv
  <2> QED
    BY <2>4, <2>5, <2>6, <2>7
<1>11. CASE UNCHANGED vars
  <2>1. TypeOK'
    BY <1>2, <1>11 DEF vars, TypeOK
  <2>2. ChallengeInv'
    BY <1>2, <1>11 DEF vars, ChallengeInv
  <2>3. TokenInv'
    BY <1>11 DEF vars, TokenInv, Issued
  <2>4. VerdictInv'
    BY <1>11 DEF vars, VerdictInv, Answer, Accepted, Verifies
  <2> QED
    BY <2>1, <2>2, <2>3, <2>4
<1> QED
  BY <1>3, <1>4, <1>5, <1>6, <1>7, <1>8, <1>9, <1>10, <1>11 DEF Next

LEMMA ExchangeInvariant == Spec => []ExchangeInv
<1> QED
  BY ExchangeInit, ExchangeStep, PTL DEF Spec

\* Every variable holds a value of its kind: the metadata is seven bytes, the
\* token has its length, whatever the load.
THEOREM TypeCorrect == Spec => []TypeOK
<1>1. ExchangeInv => TypeOK
  BY DEF ExchangeInv
<1> QED
  BY <1>1, ExchangeInvariant, PTL

\* A token is accepted only whole and unchanged, and read back it says what
\* the server put in it, for every hour and every length of a signature.
THEOREM TokenAgreed == Spec => []TokenReadsBack
<1>1. ExchangeInv => TokenReadsBack
  <2> SUFFICES ASSUME ExchangeInv, stage = "done"
               PROVE  /\ verdict.success <=> presented = issued
                      /\ verdict.success =>
                            /\ verdict.challenge_class = 2
                            /\ verdict.temperature_bucket = load.bucket
                            /\ verdict.timestamp = (load.at - (load.at % Hour)) % WordSize
    BY DEF TokenReadsBack
  <2> DEFINE e == challenge.PredictedMetadata
  <2>1. /\ LoadOK(load) /\ presented \in Seq(Byte)
        /\ e = Encode(Predicted) /\ verdict = Answer(presented)
        /\ issued = buildToken(load.sig, e, load.nonce)
    BY DEF ExchangeInv, TypeOK, ChallengeInv, TokenInv, VerdictInv, Issued
  <2>2. /\ load.sig \in [1..sigLen -> Byte] /\ load.nonce \in [1..nonceLen -> Byte]
        /\ load.at \in Nat
    BY <2>1 DEF LoadOK
  <2>3. e \in [1..metaLen -> Byte] /\ DecodeMetadata(e) = Predicted
    BY <2>1, PredictedOK
  <2> HIDE DEF e
  <2>4. /\ Len(issued) = tokenLen
        /\ sigOf(issued) = load.sig /\ metaOf(issued) = e /\ nonceOf(issued) = load.nonce
    BY <2>1, <2>2, <2>3, TokenOfParts
  <2>5. presented = issued => Accepted(presented)
    BY <2>4 DEF Accepted, Verifies, e
  <2>6. Accepted(presented) => presented = issued
    BY <2>1, PartsOfToken DEF Accepted, Verifies, e
  <2>7. verdict.success <=> Accepted(presented)
    BY <2>1 DEF Answer, Refused
  <2>8. ASSUME verdict.success
        PROVE  /\ verdict.challenge_class = 2
               /\ verdict.temperature_bucket = load.bucket
               /\ verdict.timestamp = (load.at - (load.at % Hour)) % WordSize
    <3>1. Accepted(presented) /\ presented = issued
      BY <2>6, <2>7, <2>8
    <3>2. DecodeMetadata(metaOf(presented)) = Predicted
      BY <2>3, <2>4, <3>1
    <3>3. /\ verdict.timestamp = Timestamp(Predicted)
          /\ verdict.challenge_class = Predicted.ChallengeClass
          /\ verdict.temperature_bucket = Predicted.TemperatureBucket
      BY <2>1, <3>1, <3>2 DEF Answer
    <3>4. /\ Predicted.ChallengeClass = 2 /\ Predicted.TemperatureBucket = load.bucket
          /\ Predicted.TimeBucket = TimeBucketFromTime(load.at)
      BY DEF Predicted
    <3>5. Timestamp(Predicted) = (load.at - (load.at % Hour)) % WordSize
      BY <2>2, <3>4, HourOfTime DEF Timestamp
    <3> QED
      BY <3>3, <3>4, <3>5
  <2> QED
    BY <2>5, <2>6, <2>7, <2>8
<1> QED
  BY <1>1, ExchangeInvariant, PTL

\* An address is scored by the network it lies in, for every address and
\* every entry of the lists.
THEOREM NetworkScored == Spec => []ScoredByItsNetwork
<1>1. ExchangeInv => ScoredByItsNetwork
  <2>1. ASSUME ExchangeInv, stage = "hashcash"
        PROVE  LoadOK(load) /\ reputation = Score(RequestIP(1))
    BY <2>1 DEF ExchangeInv, TypeOK, ChallengeInv
  <2> QED
    BY <2>1, ScoreIs DEF ScoredByItsNetwork
<1> QED
  BY <1>1, ExchangeInvariant, PTL

\* The subnet of a host: its /24, or the host itself.
LEMMA SubnetOf ==
    ASSUME NEW host, IsPeer(host)
    PROVE  subnetKey(Wrapped(host)) =
             IF host[1].kind = "dotted" THEN <<[kind |-> "/24", net |-> host[1].net]>>
             ELSE Wrapped(host)
<1>1. CASE host[1].kind = "dotted"
  <2>1. Len(host) = 1 /\ host[1] \in Token /\ host = <<host[1]>>
    BY <1>1, PeersAre
  <2>2. ParseIP(Wrapped(host)) = host[1]
    BY <1>1, <2>1, ParsedOne DEF Wrapped
  <2> QED
    BY <1>1, <2>2 DEF subnetKey
<1>2. CASE host[1].kind # "dotted"
  <2>1. host \in Seq(Token) /\ Len(host) > 1
    BY <1>2, PeersAre
  <2>2. ParseIP(Wrapped(host)).kind # "dotted"
    BY <2>1, ParsedBrackets DEF Mark
  <2> QED
    BY <1>2, <2>2 DEF subnetKey
<1> QED
  BY <1>1, <1>2

\* Two hosts share a subnet just when they are one host or lie in one /24.
LEMMA SubnetsApart ==
    ASSUME NEW a, IsPeer(a), NEW b, IsPeer(b)
    PROVE  subnetKey(Wrapped(a)) = subnetKey(Wrapped(b)) <=> a = b \/ SameNet(a, b)
<1>1. CASE a[1].kind = "dotted" /\ b[1].kind = "dotted"
  <2>1. \A x, y : <<[kind |-> "/24", net |-> x]>> = <<[kind |-> "/24", net |-> y]>> <=> x = y
    OBVIOUS
  <2> QED
    BY <1>1, <2>1, SubnetOf DEF SameNet
<1>2. CASE a[1].kind # "dotted" /\ b[1].kind # "dotted"
  BY <1>2, SubnetOf, WrappedApart DEF SameNet
<1>3. \A x, h : IsPeer(h) /\ h[1].kind # "dotted" => <<x>> # Wrapped(h)
  <2> SUFFICES ASSUME NEW x, NEW h, IsPeer(h), h[1].kind # "dotted"
               PROVE  <<x>> # Wrapped(h)
    OBVIOUS
  <2>1. h \in Seq(Token) /\ Len(h) \in Nat /\ Len(h) > 1
    BY PeersAre
  <2>2. Len(Wrapped(h)) = Len(h) + 2
    BY <2>1, LongWrapped
  <2>3. \A k \in Nat : k > 1 => k + 2 # 1
    OBVIOUS
  <2>4. Len(Wrapped(h)) # 1
    BY <2>1, <2>2, <2>3
  <2>5. Len(<<x>>) = 1
    OBVIOUS
  <2> QED
    BY <2>4, <2>5, Zenon
<1>4. CASE a[1].kind = "dotted" /\ b[1].kind # "dotted"
  BY <1>3, <1>4, SubnetOf DEF SameNet
<1>5. CASE a[1].kind # "dotted" /\ b[1].kind = "dotted"
  BY <1>3, <1>5, SubnetOf DEF SameNet
<1> QED
  BY <1>1, <1>2, <1>4, <1>5

\* The requests of one page count for one address, no other host counts for
\* it, and its subnet is that of the hosts in its /24 and no others.
THEOREM PeersApart == Spec => []PeersKeptApart
<1>1. ExchangeInv => PeersKeptApart
  <2> SUFFICES ASSUME ExchangeInv PROVE PeersKeptApart
    OBVIOUS
  <2> DEFINE own == IF load.forwarded # <<>> THEN load.forwarded ELSE Wrapped(load.host)
  <2>1. LoadOK(load) /\ counted \subseteq {RequestIP(1), RequestIP(2)}
    BY DEF ExchangeInv, TypeOK, ChallengeInv
  <2>2. RequestIP(1) = own /\ RequestIP(2) = own
    BY <2>1, RequestIPIs
  <2>3. counted \subseteq {own}
    BY <2>1, <2>2
  <2>4. Cardinality(counted) <= 1
    <3> HIDE DEF own
    <3>1. counted = {} \/ counted = {own}
      BY <2>3
    <3>2. Cardinality({}) = 0
      BY FS_EmptySet
    <3>3. Cardinality({own}) = 1
      BY FS_Singleton
    <3> QED
      BY <3>1, <3>2, <3>3
  <2>5. ASSUME load.forwarded = <<>>, NEW ip \in counted, NEW host \in Hosts, NEW k \in {1, 2}
        PROVE  LET other == extractIP(<<>>, RemoteAddr(host, load.ports[k]))
               IN  /\ ip = other <=> load.host = host
                   /\ subnetKey(ip) = subnetKey(other) <=>
                          load.host = host \/ SameNet(load.host, host)
    <3>1. IsPeer(load.host) /\ IsPeer(host) /\ load.ports[k] \in Nat
      BY <2>1, HostsAssumption DEF LoadOK
    <3>2. ip = Wrapped(load.host)
      BY <2>3, <2>5
    <3>3. extractIP(<<>>, RemoteAddr(host, load.ports[k])) = Wrapped(host)
      BY <3>1, HostOfConnection
    <3>4. Wrapped(load.host) = Wrapped(host) <=> load.host = host
      BY <3>1, WrappedApart
    <3> QED
      BY <3>1, <3>2, <3>3, <3>4, SubnetsApart
  <2> QED
    BY <2>4, <2>5 DEF PeersKeptApart
<1> QED
  BY <1>1, ExchangeInvariant, PTL

-----------------------------------------------------------------------------
(***************************************************************************)
(* The zero bits a digest begins with: what the server counts, what the    *)
(* widget counts and what the digest is as a number say the same.          *)
(***************************************************************************)
\* Powers of two as the modules write them, and as a function.
LEMMA SmallPowers ==
    /\ ByteBits \in {2, 4, 6, 8}
    /\ ByteSize = Pow2[ByteBits]
    /\ \A k \in 0..ByteBits - 1 : 2 ^ k = Pow2[k]
<1>1. ByteBits \in {2, 4, 6, 8}
  BY WireAssumption
<1>2. /\ Pow2[0] = 1 /\ Pow2[1] = 2 /\ Pow2[2] = 4 /\ Pow2[3] = 8 /\ Pow2[4] = 16
      /\ Pow2[5] = 32 /\ Pow2[6] = 64 /\ Pow2[7] = 128 /\ Pow2[8] = 256
  <2>1. \A k \in Nat : Pow2[k + 1] = 2 * Pow2[k]
    BY Pow2Is
  <2>2. Pow2[0] = 1
    BY Pow2Is
  <2>3. Pow2[1] = 2
    <3>1. Pow2[0 + 1] = 2 * Pow2[0] /\ 0 + 1 = 1
      BY <2>1
    <3> QED
      BY <2>2, <3>1
  <2>4. Pow2[2] = 4
    <3>1. Pow2[1 + 1] = 2 * Pow2[1] /\ 1 + 1 = 2
      BY <2>1
    <3> QED
      BY <2>3, <3>1
  <2>5. Pow2[3] = 8
    <3>1. Pow2[2 + 1] = 2 * Pow2[2] /\ 2 + 1 = 3
      BY <2>1
    <3> QED
      BY <2>4, <3>1
  <2>6. Pow2[4] = 16
    <3>1. Pow2[3 + 1] = 2 * Pow2[3] /\ 3 + 1 = 4
      BY <2>1
    <3> QED
      BY <2>5, <3>1
  <2>7. Pow2[5] = 32
    <3>1. Pow2[4 + 1] = 2 * Pow2[4] /\ 4 + 1 = 5
      BY <2>1
    <3> QED
      BY <2>6, <3>1
  <2>8. Pow2[6] = 64
    <3>1. Pow2[5 + 1] = 2 * Pow2[5] /\ 5 + 1 = 6
      BY <2>1
    <3> QED
      BY <2>7, <3>1
  <2>9. Pow2[7] = 128
    <3>1. Pow2[6 + 1] = 2 * Pow2[6] /\ 6 + 1 = 7
      BY <2>1
    <3> QED
      BY <2>8, <3>1
  <2>10. Pow2[8] = 256
    <3>1. Pow2[7 + 1] = 2 * Pow2[7] /\ 7 + 1 = 8
      BY <2>1
    <3> QED
      BY <2>9, <3>1
  <2> QED
    BY <2>2, <2>3, <2>4, <2>5, <2>6, <2>7, <2>8, <2>9, <2>10
<1>3. /\ \A k : k = 0 => 2^k = 2^0
      /\ \A k : k = 1 => 2^k = 2^1
      /\ \A k : k = 2 => 2^k = 2^2
      /\ \A k : k = 3 => 2^k = 2^3
      /\ \A k : k = 4 => 2^k = 2^4
      /\ \A k : k = 5 => 2^k = 2^5
      /\ \A k : k = 6 => 2^k = 2^6
      /\ \A k : k = 7 => 2^k = 2^7
      /\ \A k : k = 8 => 2^k = 2^8
  BY Zenon
<1>4. /\ 2^0 = 1 /\ 2^1 = 2 /\ 2^2 = 4 /\ 2^3 = 8 /\ 2^4 = 16
      /\ 2^5 = 32 /\ 2^6 = 64 /\ 2^7 = 128 /\ 2^8 = 256
  OBVIOUS
<1>5. ASSUME NEW k \in {0, 1, 2, 3, 4, 5, 6, 7, 8} PROVE 2 ^ k = Pow2[k]
  BY <1>2, <1>3, <1>4
<1>6. ByteSize = Pow2[ByteBits]
  BY <1>1, <1>5 DEF ByteSize
<1>7. \A k \in 0..ByteBits - 1 : k \in {0, 1, 2, 3, 4, 5, 6, 7, 8}
  BY <1>1
<1> QED
  BY <1>1, <1>5, <1>6, <1>7

\* The bit that splits a range in two.
LEMMA HighBit ==
    ASSUME NEW P \in Nat \ {0}, NEW x \in Nat, x < 2 * P
    PROVE  (x \div P) % 2 \in {0, 1} /\ ((x \div P) % 2 = 0 <=> x < P)
<1>1. PICK q \in Nat : q = x \div P
  OBVIOUS
<1>2. PICK z \in 0..P-1 : x = P * q + z
  <2>1. x % P \in 0..P-1 /\ x = P * (x \div P) + (x % P)
    OBVIOUS
  <2>2. PICK z \in 0..P-1 : z = x % P
    BY <2>1
  <2> QED
    BY <1>1, <2>1, <2>2
<1>3. q < 2
  <2> SUFFICES ASSUME q >= 2 PROVE FALSE
    OBVIOUS
  <2>1. P * q >= P * 2
    OBVIOUS
  <2> QED
    BY <1>2, <2>1
<1>4. CASE q = 0
  <2>1. P * q = 0
    BY <1>4
  <2> QED
    BY <1>1, <1>2, <1>4, <2>1
<1>5. CASE q = 1
  <2>1. P * q = P
    BY <1>5
  <2> QED
    BY <1>1, <1>2, <1>5, <2>1
<1> QED
  BY <1>3, <1>4, <1>5

\* Bit t of a byte, from the highest.
ByteBit(x, t) == (x \div 2 ^ (ByteBits - 1 - t)) % 2

\* A byte begins with j zeros when it is small enough.
LEMMA ZerosOfByte ==
    ASSUME NEW x \in Byte, NEW j \in 0..ByteBits
    PROVE  x < Pow2[ByteBits - j] <=> \A t \in 0..j-1 : ByteBit(x, t) = 0
<1> DEFINE X == {i \in Nat : i <= ByteBits =>
                    (x < Pow2[ByteBits - i] <=> \A t \in 0..i-1 : ByteBit(x, t) = 0)}
<1>1. ByteBits \in Nat /\ x \in Nat /\ x < Pow2[ByteBits]
  BY SmallPowers, ByteSizes DEF Byte
<1>2. 0 \in X
  <2>1. ByteBits - 0 = ByteBits
    BY <1>1
  <2>2. \A t \in 0..0-1 : ByteBit(x, t) = 0
    OBVIOUS
  <2> QED
    BY <1>1, <2>1, <2>2
<1>3. ASSUME NEW i \in Nat, i \in X PROVE i + 1 \in X
  <2> SUFFICES ASSUME i + 1 <= ByteBits
               PROVE  x < Pow2[ByteBits - (i + 1)] <=> \A t \in 0..(i+1)-1 : ByteBit(x, t) = 0
    OBVIOUS
  <2>1. PICK k \in Nat : k = ByteBits - 1 - i
    BY <1>1
  <2>2. ByteBits - (i + 1) = k /\ ByteBits - i = k + 1 /\ k \in 0..ByteBits - 1
    BY <1>1, <2>1
  <2>3. PICK P \in Nat \ {0} : P = Pow2[k] /\ Pow2[k + 1] = 2 * P
    BY Pow2Is, Pow2Grows
  <2>4. ByteBit(x, i) = (x \div P) % 2
    BY <2>1, <2>2, <2>3, SmallPowers DEF ByteBit
  <2>5. x < 2 * P <=> \A t \in 0..i-1 : ByteBit(x, t) = 0
    <3>1. i <= ByteBits
      BY <1>1
    <3>2. x < Pow2[ByteBits - i] <=> \A t \in 0..i-1 : ByteBit(x, t) = 0
      BY <1>3, <3>1
    <3>3. Pow2[ByteBits - i] = 2 * P
      BY <2>2, <2>3
    <3> QED
      BY <3>2, <3>3, Zenon
  <2>6. x < 2 * P => (ByteBit(x, i) = 0 <=> x < P)
    BY <1>1, <2>4, HighBit
  <2>7. (\A t \in 0..(i+1)-1 : ByteBit(x, t) = 0)
           <=> (\A t \in 0..i-1 : ByteBit(x, t) = 0) /\ ByteBit(x, i) = 0
    <3>1. \A t : t \in 0..(i+1)-1 <=> (t \in 0..i-1 \/ t = i)
      OBVIOUS
    <3> QED
      BY <3>1
  <2>8. x < P => x < 2 * P
    BY <1>1
  <2> QED
    BY <2>2, <2>3, <2>5, <2>6, <2>7, <2>8
<1> HIDE DEF X
<1>4. Nat \subseteq X
  BY <1>2, <1>3, Induction
<1>5. j \in Nat /\ j <= ByteBits
  BY <1>1
<1> QED
  BY <1>4, <1>5 DEF X

\* So does the count that checks a byte against the powers of two.
LEMMA ZeroBitsIs ==
    ASSUME NEW x \in Byte, NEW j \in 0..ByteBits
    PROVE  /\ ZeroBits(x) \in Nat /\ ZeroBits(x) <= ByteBits
           /\ ZeroBits(x) >= j <=> x < Pow2[ByteBits - j]
<1> DEFINE K == {k \in 0..ByteBits - 1 : x < 2 ^ k}
<1>1. ByteBits \in Nat /\ x \in Nat /\ x < Pow2[ByteBits] /\ j \in Nat /\ j <= ByteBits
  BY SmallPowers, ByteSizes DEF Byte
<1>2. K = {k \in 0..ByteBits - 1 : x < Pow2[k]}
  BY SmallPowers
<1>3. ZeroBits(x) = Cardinality(K)
  BY DEF ZeroBits
<1> HIDE DEF K
<1>4. IsFiniteSet(0..ByteBits - 1) /\ Cardinality(0..ByteBits - 1) = ByteBits
  BY <1>1, FS_Interval
<1>5. IsFiniteSet(K) /\ Cardinality(K) \in Nat /\ Cardinality(K) <= ByteBits
  BY <1>2, <1>4, FS_Subset, FS_CardinalityType
<1>6. ASSUME x < Pow2[ByteBits - j] PROVE Cardinality(K) >= j
  <2>1. (ByteBits - j)..(ByteBits - 1) \subseteq K
    <3> SUFFICES ASSUME NEW k \in (ByteBits - j)..(ByteBits - 1) PROVE k \in K
      OBVIOUS
    <3>1. PICK i \in Nat : i = ByteBits - j
      BY <1>1
    <3>2. k \in Nat /\ i <= k /\ k \in 0..ByteBits - 1
      BY <1>1, <3>1
    <3>3. Pow2[i] <= Pow2[k] /\ Pow2[i] \in Nat /\ Pow2[k] \in Nat
      BY <3>2, Pow2Ordered, Pow2Grows
    <3> QED
      BY <1>1, <1>2, <1>6, <3>1, <3>2, <3>3
  <2>2. Cardinality((ByteBits - j)..(ByteBits - 1)) = j
    BY <1>1, FS_Interval
  <2>3. Cardinality((ByteBits - j)..(ByteBits - 1)) <= Cardinality(K)
    BY <1>5, <2>1, FS_Subset
  <2> QED
    BY <2>2, <2>3
<1>7. ASSUME ~(x < Pow2[ByteBits - j]) PROVE Cardinality(K) < j
  <2>1. j # 0
    <3> SUFFICES ASSUME j = 0 PROVE FALSE
      OBVIOUS
    <3>1. ByteBits - j = ByteBits
      BY <1>1
    <3> QED
      BY <1>1, <1>7, <3>1
  <2>2. K \subseteq (ByteBits - j + 1)..(ByteBits - 1)
    <3> SUFFICES ASSUME NEW k \in K, ~(k >= ByteBits - j + 1) PROVE FALSE
      BY <1>1, <1>2
    <3>1. PICK i \in Nat : i = ByteBits - j
      BY <1>1
    <3>2. k \in Nat /\ k <= i /\ x < Pow2[k]
      BY <1>1, <1>2, <3>1
    <3>3. Pow2[k] <= Pow2[i] /\ Pow2[i] \in Nat /\ Pow2[k] \in Nat
      BY <3>2, Pow2Ordered, Pow2Grows
    <3> QED
      BY <1>1, <1>7, <3>1, <3>2, <3>3
  <2>3. /\ IsFiniteSet((ByteBits - j + 1)..(ByteBits - 1))
        /\ Cardinality((ByteBits - j + 1)..(ByteBits - 1)) = j - 1
    BY <1>1, <2>1, FS_Interval
  <2>4. Cardinality(K) <= j - 1
    BY <2>2, <2>3, FS_Subset
  <2> QED
    BY <1>1, <1>5, <2>4
<1> QED
  BY <1>1, <1>3, <1>5, <1>6, <1>7

-----------------------------------------------------------------------------
\* A number of bits as whole bytes and bits of the next.
Splits(q, j) == q \in 0..digestBytes /\ j \in 0..ByteBits - 1 /\ (q = digestBytes => j = 0)

\* The first q bytes are zero, and so are j bits of the next.
ZeroTo(b, q, j) ==
    /\ \A i \in 1..q : b[i] = 0
    /\ j # 0 => b[q + 1] < Pow2[ByteBits - j]

Clear(b, d) == \A k \in 0..d-1 : Bit(b, k) = 0

LEMMA DigestIs ==
    ASSUME NEW b \in Digest
    PROVE  /\ digestBytes \in Nat \ {0} /\ Len(b) = digestBytes /\ DOMAIN b = 1..digestBytes
           /\ \A i \in 1..digestBytes : b[i] \in Byte /\ b[i] \in Nat
           /\ ByteBits \in Nat /\ ByteBits > 1 /\ \A x \in Byte : x \in Nat /\ x < Pow2[ByteBits]
<1>1. digestBytes \in Nat \ {0}
  BY PuzzlesAssumption
<1>2. \A x \in Byte : x \in Nat /\ x < Pow2[ByteBits]
  BY SmallPowers, ByteSizes DEF Byte
<1>3. DOMAIN b = 1..digestBytes /\ \A i \in 1..digestBytes : b[i] \in Byte
  BY DEF Digest
<1>4. Len(b) = digestBytes
  BY <1>1 DEF Digest
<1>5. ByteBits \in Nat /\ ByteBits > 1
  BY SmallPowers
<1> QED
  BY <1>1, <1>2, <1>3, <1>4, <1>5

\* Bit k of a digest is a bit of one of its bytes.
LEMMA BitIs ==
    ASSUME NEW b, NEW i \in Nat, NEW t \in 0..ByteBits - 1
    PROVE  ByteBits * i + t \in Nat /\ Bit(b, ByteBits * i + t) = ByteBit(b[i + 1], t)
<1>1. ByteBits \in {2, 4, 6, 8}
  BY SmallPowers
<1>2. (ByteBits * i + t) \div ByteBits = i /\ (ByteBits * i + t) % ByteBits = t
      /\ ByteBits * i + t \in Nat
  BY <1>1
<1> QED
  BY <1>2 DEF Bit, ByteBit

LEMMA BitValues ==
    ASSUME NEW b \in Digest, NEW i \in 0..digestBytes - 1, NEW t \in 0..ByteBits - 1
    PROVE  Bit(b, ByteBits * i + t) \in {0, 1}
<1>1. i \in Nat /\ i + 1 \in 1..digestBytes
  BY DigestIs
<1>2. PICK x \in Nat : x = b[i + 1]
  BY <1>1, DigestIs
<1>3. PICK k \in Nat : k = ByteBits - 1 - t /\ k \in 0..ByteBits - 1
  BY SmallPowers
<1>4. ByteBit(x, t) = (x \div Pow2[k]) % 2 /\ Pow2[k] \in Nat \ {0}
  BY <1>3, SmallPowers, Pow2Grows DEF ByteBit
<1>5. PICK P \in Nat \ {0} : P = Pow2[k]
  BY <1>4
<1>6. PICK y \in Nat : y = x \div P
  BY <1>5
<1>7. y % 2 \in {0, 1}
  OBVIOUS
<1> QED
  BY <1>1, <1>2, <1>4, <1>5, <1>6, <1>7, BitIs

\* Every bit number has a byte and a place in it.
LEMMA Places ==
    ASSUME NEW k \in Nat
    PROVE  \E i \in Nat, t \in 0..ByteBits - 1 : k = ByteBits * i + t
<1>1. ByteBits \in {2, 4, 6, 8}
  BY SmallPowers
<1>2. /\ k \div ByteBits \in Nat /\ k % ByteBits \in 0..ByteBits - 1
      /\ k = ByteBits * (k \div ByteBits) + (k % ByteBits)
  BY <1>1
<1> QED
  BY <1>2

\* The first bits are clear when the bytes they fill are zero and the next is
\* small.
LEMMA ClearIs ==
    ASSUME NEW b \in Digest, NEW q, NEW j, Splits(q, j)
    PROVE  Clear(b, ByteBits * q + j) <=> ZeroTo(b, q, j)
<1>1. /\ digestBytes \in Nat \ {0} /\ ByteBits \in Nat /\ ByteBits > 1
      /\ \A i \in 1..digestBytes : b[i] \in Byte /\ b[i] \in Nat
  BY DigestIs
<1>2. q \in Nat /\ q <= digestBytes /\ j \in Nat /\ j < ByteBits /\ (q = digestBytes => j = 0)
  BY <1>1 DEF Splits
<1>3. ASSUME NEW i \in 1..digestBytes
      PROVE  b[i] = 0 <=> \A t \in 0..ByteBits-1 : ByteBit(b[i], t) = 0
  <2>1. ByteBits \in 0..ByteBits /\ ByteBits - ByteBits = 0
    BY <1>1
  <2>2. b[i] < Pow2[0] <=> \A t \in 0..ByteBits-1 : ByteBit(b[i], t) = 0
    BY <1>1, <2>1, ZerosOfByte
  <2>3. Pow2[0] = 1
    BY Pow2Is
  <2> QED
    BY <1>1, <2>2, <2>3
<1>4. ASSUME j # 0
      PROVE  /\ q + 1 \in 1..digestBytes
             /\ b[q + 1] < Pow2[ByteBits - j] <=> \A t \in 0..j-1 : ByteBit(b[q + 1], t) = 0
  <2>1. q + 1 \in 1..digestBytes /\ j \in 0..ByteBits
    BY <1>1, <1>2, <1>4
  <2> QED
    BY <1>1, <2>1, ZerosOfByte
<1>5. ASSUME Clear(b, ByteBits * q + j) PROVE ZeroTo(b, q, j)
  <2>1. ASSUME NEW i \in 1..q PROVE b[i] = 0
    <3>1. PICK h \in Nat : h = i - 1 /\ i = h + 1 /\ h + 1 <= q
      BY <1>2
    <3>2. ASSUME NEW t \in 0..ByteBits-1 PROVE ByteBit(b[i], t) = 0
      <4>1. ByteBits * h + t < ByteBits * q + j
        <5>1. ByteBits * (h + 1) <= ByteBits * q /\ ByteBits * (h + 1) = ByteBits * h + ByteBits
          BY <1>1, <1>2, <3>1
        <5> QED
          BY <1>1, <1>2, <5>1
      <4>2. ByteBits * h + t \in Nat /\ ByteBits * q + j \in Nat
        BY <1>1, <1>2
      <4>3. Bit(b, ByteBits * h + t) = 0
        BY <1>5, <4>1, <4>2 DEF Clear
      <4> QED
        BY <3>1, <4>3, BitIs
    <3>3. i \in 1..digestBytes
      BY <1>1, <1>2
    <3> QED
      BY <1>3, <3>2, <3>3
  <2>2. ASSUME j # 0 PROVE b[q + 1] < Pow2[ByteBits - j]
    <3>1. ASSUME NEW t \in 0..j-1 PROVE ByteBit(b[q + 1], t) = 0
      <4>1. ByteBits * q + t < ByteBits * q + j /\ t \in 0..ByteBits - 1
        BY <1>1, <1>2
      <4>2. ByteBits * q + t \in Nat /\ ByteBits * q + j \in Nat
        BY <1>1, <1>2
      <4>3. Bit(b, ByteBits * q + t) = 0
        BY <1>5, <4>1, <4>2 DEF Clear
      <4> QED
        BY <1>2, <4>1, <4>3, BitIs
    <3> QED
      BY <1>4, <2>2, <3>1
  <2> QED
    BY <2>1, <2>2 DEF ZeroTo
<1>6. ASSUME ZeroTo(b, q, j) PROVE Clear(b, ByteBits * q + j)
  <2> SUFFICES ASSUME NEW k \in 0..(ByteBits * q + j) - 1 PROVE Bit(b, k) = 0
    BY DEF Clear
  <2>1. k \in Nat /\ k < ByteBits * q + j
    BY <1>1, <1>2
  <2>2. PICK i \in Nat, t \in 0..ByteBits - 1 : k = ByteBits * i + t
    BY <2>1, Places
  <2>3. Bit(b, k) = ByteBit(b[i + 1], t)
    BY <2>2, BitIs
  <2>4. CASE i < q
    <3>1. i + 1 \in 1..q /\ i + 1 \in 1..digestBytes
      BY <1>1, <1>2, <2>4
    <3>2. b[i + 1] = 0
      BY <1>6, <3>1 DEF ZeroTo
    <3> QED
      BY <1>3, <2>3, <3>1, <3>2
  <2>5. CASE i = q
    <3>1. t < j /\ j # 0 /\ t \in 0..j-1
      BY <1>1, <1>2, <2>1, <2>2, <2>5
    <3> QED
      BY <1>4, <1>6, <2>3, <2>5, <3>1 DEF ZeroTo
  <2>6. CASE i > q
    <3>1. ByteBits * i >= ByteBits * (q + 1) /\ ByteBits * (q + 1) = ByteBits * q + ByteBits
      BY <1>1, <1>2, <2>6
    <3> QED
      BY <1>1, <1>2, <2>1, <2>2, <3>1
  <2> QED
    BY <1>2, <2>4, <2>5, <2>6
<1> QED
  BY <1>5, <1>6

\* The server's count, byte by byte.
LEMMA ServerCounts ==
    ASSUME NEW b \in Digest, NEW q, NEW j, Splits(q, j)
    PROVE  countLeadingZeroBits(b) >= ByteBits * q + j <=> ZeroTo(b, q, j)
<1>1. /\ digestBytes \in Nat \ {0} /\ ByteBits \in Nat /\ ByteBits > 1 /\ Len(b) = digestBytes
      /\ DOMAIN b = 1..digestBytes
      /\ \A i \in 1..digestBytes : b[i] \in Byte /\ b[i] \in Nat
      /\ \A x \in Byte : x \in Nat /\ x < Pow2[ByteBits]
  BY DigestIs
<1>2. q \in Nat /\ q <= digestBytes /\ j \in Nat /\ j < ByteBits /\ (q = digestBytes => j = 0)
  BY <1>1 DEF Splits
<1>3. Pow2[ByteBits - j] \in Nat \ {0}
  <2>1. ByteBits - j \in Nat
    BY <1>1, <1>2
  <2> QED
    BY <2>1, Pow2Grows
<1> DEFINE nonzero == {i \in DOMAIN b : b[i] # 0}
<1>4. CASE nonzero = {}
  <2>1. \A i \in 1..digestBytes : b[i] = 0
    BY <1>1, <1>4
  <2>2. j # 0 => q + 1 \in 1..digestBytes
    BY <1>1, <1>2
  <2>3. ZeroTo(b, q, j)
    <3>1. \A i \in 1..q : i \in 1..digestBytes
      BY <1>1, <1>2
    <3> QED
      BY <1>3, <2>1, <2>2, <3>1 DEF ZeroTo
  <2>4. countLeadingZeroBits(b) = ByteBits * digestBytes
    BY <1>1, <1>4 DEF countLeadingZeroBits
  <2>5. ByteBits * digestBytes >= ByteBits * q + j
    <3>1. CASE q = digestBytes
      BY <1>1, <1>2, <3>1
    <3>2. CASE q < digestBytes
      <4>1. ByteBits * digestBytes >= ByteBits * (q + 1)
            /\ ByteBits * (q + 1) = ByteBits * q + ByteBits
        BY <1>1, <1>2, <3>2
      <4> QED
        BY <1>1, <1>2, <4>1
    <3> QED
      BY <1>1, <1>2, <3>1, <3>2
  <2> QED
    BY <2>3, <2>4, <2>5
<1>5. CASE nonzero # {}
  <2>1. PICK m \in nonzero : m = Min(nonzero) /\ \A i \in nonzero : m <= i
    <3>1. nonzero \subseteq Nat
      BY <1>1
    <3> HIDE DEF nonzero
    <3>2. \E g \in nonzero : \A y \in nonzero : g =< y
      BY <1>5, <3>1, LeastElement
    <3> QED
      BY <3>2 DEF Min
  <2>2. m \in 1..digestBytes /\ b[m] # 0 /\ b[m] \in Byte /\ b[m] \in Nat
    BY <1>1
  <2>3. \A i \in 1..digestBytes : i < m => b[i] = 0
    <3>1. \A i \in 1..digestBytes : b[i] # 0 => m <= i
      BY <1>1, <2>1
    <3> QED
      BY <2>2, <3>1
  <2>4. countLeadingZeroBits(b) = ByteBits * (m - 1) + ZeroBits(b[m])
    BY <1>5, <2>1 DEF countLeadingZeroBits
  <2>5. PICK z \in Nat : z = ZeroBits(b[m]) /\ z < ByteBits
    <3>1. ByteBits \in 0..ByteBits /\ ByteBits - ByteBits = 0
      BY <1>1
    <3>2. ZeroBits(b[m]) \in Nat /\ (ZeroBits(b[m]) >= ByteBits <=> b[m] < Pow2[0])
      BY <2>2, <3>1, ZeroBitsIs
    <3>3. Pow2[0] = 1
      BY Pow2Is
    <3> QED
      BY <1>1, <2>2, <3>2, <3>3
  <2>6. z >= j <=> b[m] < Pow2[ByteBits - j]
    <3>1. j \in 0..ByteBits
      BY <1>1, <1>2
    <3> QED
      BY <2>2, <2>5, <3>1, ZeroBitsIs
  <2>7. PICK l \in Nat : m = l + 1
    BY <2>2
  <2>8. countLeadingZeroBits(b) = ByteBits * l + z
    BY <2>4, <2>5, <2>7
  <2> HIDE DEF nonzero
  <2>9. CASE q < l
    <3>0. PICK bl \in Nat, bq \in Nat : bl = ByteBits * l /\ bq = ByteBits * q
      BY <1>1, <1>2
    <3>1. bl >= bq + ByteBits
      <4>1. ByteBits * l >= ByteBits * (q + 1) /\ ByteBits * (q + 1) = ByteBits * q + ByteBits
        BY <1>1, <1>2, <2>9
      <4> QED
        BY <3>0, <4>1
    <3>2. ByteBits * l + z >= ByteBits * q + j
      <4>1. bl + z >= bq + j
        BY <1>1, <1>2, <2>5, <3>1
      <4> QED
        BY <3>0, <4>1
    <3>3. \A i \in 1..q + 1 : i \in 1..digestBytes /\ i < m
      BY <1>1, <1>2, <2>2, <2>7, <2>9
    <3>4. q + 1 \in 1..q + 1 /\ \A i \in 1..q : i \in 1..q + 1
      BY <1>2
    <3>5. ZeroTo(b, q, j)
      BY <1>3, <2>3, <3>3, <3>4 DEF ZeroTo
    <3> QED
      BY <2>8, <3>2, <3>5
  <2>10. CASE q = l
    <3>1. ByteBits * l + z >= ByteBits * q + j <=> z >= j
      BY <1>1, <1>2, <2>5, <2>7, <2>10
    <3>2. \A i \in 1..q : i \in 1..digestBytes /\ i < m
      BY <1>1, <1>2, <2>2, <2>7, <2>10
    <3>3. ZeroTo(b, q, j) <=> (j # 0 => b[m] < Pow2[ByteBits - j])
      BY <2>3, <2>7, <2>10, <3>2 DEF ZeroTo
    <3>4. j = 0 => z >= j
      BY <2>5
    <3> QED
      BY <2>6, <2>8, <3>1, <3>3, <3>4
  <2>11. CASE q > l
    <3>0. PICK bl \in Nat, bq \in Nat : bl = ByteBits * l /\ bq = ByteBits * q
      BY <1>1, <1>2
    <3>1. bq >= bl + ByteBits
      <4>1. ByteBits * q >= ByteBits * (l + 1) /\ ByteBits * (l + 1) = ByteBits * l + ByteBits
        BY <1>1, <1>2, <2>11
      <4> QED
        BY <3>0, <4>1
    <3>2. ~(ByteBits * l + z >= ByteBits * q + j)
      <4>1. ~(bl + z >= bq + j)
        BY <1>1, <1>2, <2>5, <3>1
      <4> QED
        BY <3>0, <4>1
    <3>3. m \in 1..q
      BY <1>2, <2>2, <2>7, <2>11
    <3>4. ~ZeroTo(b, q, j)
      BY <2>2, <3>3 DEF ZeroTo
    <3> QED
      BY <2>8, <3>2, <3>4
  <2> QED
    BY <1>2, <2>9, <2>10, <2>11
<1> QED
  BY <1>4, <1>5

\* The bits of a digest as a number.
LEMMA AllBits ==
    ASSUME NEW b \in Digest
    PROVE  /\ ByteBits * digestBytes \in Nat /\ ByteBits * Len(b) = ByteBits * digestBytes
           /\ \A k \in Nat : k < ByteBits * digestBytes => Bit(b, k) \in {0, 1}
<1>1. /\ digestBytes \in Nat \ {0} /\ ByteBits \in Nat /\ ByteBits > 1 /\ Len(b) = digestBytes
  BY DigestIs
<1>2. ASSUME NEW k \in Nat, k < ByteBits * digestBytes PROVE Bit(b, k) \in {0, 1}
  <2>1. PICK i \in Nat, t \in 0..ByteBits - 1 : k = ByteBits * i + t
    BY Places
  <2>2. i < digestBytes
    <3> SUFFICES ASSUME i >= digestBytes PROVE FALSE
      BY <1>1
    <3>1. ByteBits * i >= ByteBits * digestBytes /\ ByteBits * i \in Nat
          /\ ByteBits * digestBytes \in Nat
      BY <1>1
    <3> QED
      BY <1>1, <1>2, <2>1, <3>1
  <2>3. i \in 0..digestBytes - 1
    BY <1>1, <2>2
  <2> QED
    BY <2>1, <2>3, BitValues
<1>3. ByteBits * digestBytes \in Nat
  BY <1>1
<1> QED
  BY <1>1, <1>2, <1>3

\* The widget's count, bit by bit.
LEMMA WidgetCounts ==
    ASSUME NEW b \in Digest
    PROVE  /\ leadingZeroBits(b) \in Nat /\ leadingZeroBits(b) <= ByteBits * digestBytes
           /\ \A d \in Nat : d <= ByteBits * digestBytes =>
                 (leadingZeroBits(b) >= d <=> Clear(b, d))
<1>1. PICK all \in Nat :
         all = ByteBits * digestBytes /\ \A k \in Nat : k < all => Bit(b, k) \in {0, 1}
  BY AllBits
<1>2. all = ByteBits * Len(b)
  BY <1>1, AllBits
<1> DEFINE S == {k \in 0..all - 1 : Bit(b, k) = 1} \cup {all}
<1>3. leadingZeroBits(b) = Min(S)
  BY <1>2 DEF leadingZeroBits
<1>4. S \subseteq Nat /\ all \in S
  OBVIOUS
<1>5. \A k \in S : k = all \/ (k < all /\ Bit(b, k) = 1)
  OBVIOUS
<1>6. \A k \in Nat : k < all /\ Bit(b, k) = 1 => k \in S
  OBVIOUS
<1> HIDE DEF S
<1>7. PICK m \in S : m = Min(S) /\ \A k \in S : m <= k
  <2>1. \E g \in S : \A y \in S : g <= y
    BY <1>4, LeastElement
  <2> QED
    BY <2>1 DEF Min
<1>8. m \in Nat /\ m <= all
  BY <1>4, <1>7
<1>9. ASSUME NEW d \in Nat, d <= all PROVE m >= d <=> Clear(b, d)
  <2>1. ASSUME m >= d, NEW k \in 0..d-1 PROVE Bit(b, k) = 0
    <3>1. k \in Nat /\ k < all /\ k < m
      BY <1>8, <1>9, <2>1
    <3>2. k \notin S
      BY <1>7, <1>8, <3>1
    <3>3. Bit(b, k) \in {0, 1}
      BY <1>1, <3>1
    <3> QED
      BY <1>6, <3>1, <3>2, <3>3
  <2>2. ASSUME Clear(b, d) PROVE m >= d
    <3>1. CASE m = all
      BY <1>9, <3>1
    <3>2. CASE m # all
      <4>1. Bit(b, m) = 1
        BY <1>5, <3>2
      <4>2. m \notin 0..d-1
        <5>1. ASSUME m \in 0..d-1 PROVE FALSE
          <6>1. Bit(b, m) = 0
            BY <2>2, <5>1 DEF Clear
          <6> QED
            BY <4>1, <6>1
        <5> QED
          BY <5>1
      <4> QED
        BY <1>8, <4>2
    <3> QED
      BY <3>1, <3>2
  <2> QED
    BY <2>1, <2>2 DEF Clear
<1> QED
  BY <1>1, <1>3, <1>7, <1>8, <1>9

\* Each number of bits that a digest has fills some bytes and part of the next.
LEMMA SplitsExist ==
    ASSUME NEW d \in Nat, d <= ByteBits * digestBytes
    PROVE  \E q, j : Splits(q, j) /\ d = ByteBits * q + j
<1>1. digestBytes \in Nat \ {0} /\ ByteBits \in Nat /\ ByteBits > 1
  BY PuzzlesAssumption, SmallPowers
<1>2. PICK q \in Nat, j \in 0..ByteBits - 1 : d = ByteBits * q + j
  BY Places
<1>3. PICK bq \in Nat, all \in Nat : bq = ByteBits * q /\ all = ByteBits * digestBytes
  BY <1>1, <1>2
<1>4. q <= digestBytes
  <2> SUFFICES ASSUME q >= digestBytes + 1 PROVE FALSE
    BY <1>1
  <2>1. ByteBits * q >= ByteBits * (digestBytes + 1)
        /\ ByteBits * (digestBytes + 1) = ByteBits * digestBytes + ByteBits
    BY <1>1
  <2>2. bq >= all + ByteBits
    BY <1>3, <2>1
  <2> QED
    BY <1>1, <1>2, <1>3, <2>2
<1>5. q = digestBytes => j = 0
  BY <1>1, <1>2, <1>3
<1>6. Splits(q, j)
  BY <1>1, <1>4, <1>5 DEF Splits
<1> QED
  BY <1>2, <1>6

\* The server counts no more bits than there are.
LEMMA ServerBound ==
    ASSUME NEW b \in Digest
    PROVE  countLeadingZeroBits(b) \in Nat /\ countLeadingZeroBits(b) <= ByteBits * digestBytes
<1>1. /\ digestBytes \in Nat \ {0} /\ ByteBits \in Nat /\ ByteBits > 1 /\ Len(b) = digestBytes
      /\ DOMAIN b = 1..digestBytes
      /\ \A i \in 1..digestBytes : b[i] \in Byte /\ b[i] \in Nat
  BY DigestIs
<1> DEFINE nonzero == {i \in DOMAIN b : b[i] # 0}
<1>2. CASE nonzero = {}
  <2>1. countLeadingZeroBits(b) = ByteBits * digestBytes
    BY <1>1, <1>2 DEF countLeadingZeroBits
  <2> QED
    BY <1>1, <2>1
<1>3. CASE nonzero # {}
  <2>1. PICK m \in nonzero : m = Min(nonzero)
    <3>1. nonzero \subseteq Nat
      BY <1>1
    <3> HIDE DEF nonzero
    <3>2. \E g \in nonzero : \A y \in nonzero : g <= y
      BY <1>3, <3>1, LeastElement
    <3> QED
      BY <3>2 DEF Min
  <2>2. m \in 1..digestBytes
    BY <1>1
  <2>3. countLeadingZeroBits(b) = ByteBits * (m - 1) + ZeroBits(b[m])
    BY <1>3, <2>1 DEF countLeadingZeroBits
  <2>4. ZeroBits(b[m]) \in Nat /\ ZeroBits(b[m]) <= ByteBits
    <3>1. 0 \in 0..ByteBits
      BY <1>1
    <3> QED
      BY <1>1, <2>2, <3>1, ZeroBitsIs
  <2>5. PICK z \in Nat, l \in Nat : z = ZeroBits(b[m]) /\ l = m - 1 /\ z <= ByteBits
    BY <2>2, <2>4
  <2>6. l + 1 <= digestBytes
    BY <1>1, <2>2, <2>5
  <2>7. ByteBits * (l + 1) <= ByteBits * digestBytes /\ ByteBits * (l + 1) = ByteBits * l + ByteBits
    BY <1>1, <2>6
  <2>8. ByteBits * l \in Nat /\ ByteBits * digestBytes \in Nat
    BY <1>1
  <2>9. countLeadingZeroBits(b) = ByteBits * l + z
    BY <2>3, <2>5
  <2> HIDE DEF nonzero
  <2>10. PICK bl \in Nat, all \in Nat : bl = ByteBits * l /\ all = ByteBits * digestBytes
    BY <2>8
  <2>11. bl + z <= all
    BY <1>1, <2>5, <2>7, <2>10
  <2> QED
    BY <2>9, <2>10, <2>11
<1> QED
  BY <1>2, <1>3

\* What the first bytes of a digest are as numbers.
Reads(N, b) ==
    /\ N[0] = 0
    /\ \A i \in 0..digestBytes - 1 : N[i + 1] = ByteSize * N[i] + b[i + 1]
    /\ \A i \in 0..digestBytes : N[i] \in Nat

LEMMA NumberIs ==
    ASSUME NEW b \in Digest
    PROVE  \E N : Reads(N, b) /\ DigestNumber(b) = N[digestBytes]
<1> DEFINE Def(f) == f = [i \in 0..digestBytes |->
                            IF i = 0 THEN 0 ELSE ByteSize * f[i - 1] + b[i]]
           step == [k \in Nat |-> [v \in Nat |->
                        ByteSize * v + (IF k \in 1..digestBytes THEN b[k] ELSE 0)]]
           prev == [k \in Nat |-> IF k = 0 THEN 0 ELSE k - 1]
<1>1. digestBytes \in Nat \ {0} /\ \A i \in 1..digestBytes : b[i] \in Nat
  BY DigestIs
<1>2. ByteSize \in Nat
  BY ByteSizes
<1>3. step \in [Nat -> [Nat -> Nat]]
  BY <1>1, <1>2
<1>4. \A k \in 1..digestBytes, v \in Nat : step[k][v] = ByteSize * v + b[k]
  BY <1>1
<1>5. prev \in [Nat -> Nat] /\ \A k \in Nat \ {0} : prev[k] = k - 1 /\ prev[k] < k
  OBVIOUS
<1>6. DigestNumber(b) = (CHOOSE g : Def(g))[digestBytes]
  BY DEF DigestNumber
<1> HIDE DEF step, prev
<1>7. PICK f \in [Nat -> Nat] :
         \A k \in Nat : f[k] = IF k = 0 THEN 0 ELSE step[k][f[prev[k]]]
  <2>1. GoesBack(prev)
    BY <1>5 DEF GoesBack
  <2>2. 0 \in Nat
    OBVIOUS
  <2>3. \E g : Recursive(g, 0, step, prev)
    BY <1>3, <2>1, <2>2, Recursion
  <2> QED
    BY <2>3 DEF Recursive
<1>8. \A k \in 1..digestBytes : f[k] = ByteSize * f[k - 1] + b[k]
  <2> TAKE k \in 1..digestBytes
  <2>1. k \in Nat /\ k # 0 /\ k - 1 \in Nat
    BY <1>1
  <2>2. f[k] = step[k][f[k - 1]] /\ f[k - 1] \in Nat
    BY <1>5, <1>7, <2>1
  <2> QED
    BY <1>4, <2>2
<1> DEFINE h == [i \in 0..digestBytes |-> f[i]]
<1>9. Def(h)
  <2>1. ASSUME NEW i \in 0..digestBytes
        PROVE  f[i] = IF i = 0 THEN 0 ELSE ByteSize * h[i - 1] + b[i]
    <3>1. CASE i = 0
      BY <1>7, <3>1
    <3>2. CASE i # 0
      <4>1. i \in 1..digestBytes /\ i - 1 \in 0..digestBytes
        BY <1>1, <3>2
      <4>2. h[i - 1] = f[i - 1]
        BY <4>1
      <4> QED
        BY <1>8, <3>2, <4>1, <4>2
    <3> QED
      BY <3>1, <3>2
  <2> QED
    BY <2>1
<1>10. PICK g : g = CHOOSE x : Def(x)
  OBVIOUS
<1>11. Def(g)
  <2> HIDE DEF Def
  <2> QED
    BY <1>9, <1>10
<1>12. g[0] = 0 /\ \A i \in 0..digestBytes - 1 : g[i + 1] = ByteSize * g[i] + b[i + 1]
  <2>1. \A i \in 0..digestBytes : g[i] = IF i = 0 THEN 0 ELSE ByteSize * g[i - 1] + b[i]
    BY <1>11
  <2> HIDE DEF Def
  <2>2. 0 \in 0..digestBytes
    BY <1>1
  <2>3. ASSUME NEW i \in 0..digestBytes - 1 PROVE g[i + 1] = ByteSize * g[i] + b[i + 1]
    <3>1. i + 1 \in 0..digestBytes /\ i + 1 # 0 /\ (i + 1) - 1 = i
      BY <1>1
    <3> QED
      BY <2>1, <3>1
  <2> QED
    BY <2>1, <2>2, <2>3
<1> DEFINE X == {i \in Nat : i <= digestBytes => g[i] \in Nat}
<1> HIDE DEF Def
<1>13. 0 \in X
  BY <1>12
<1>14. ASSUME NEW i \in Nat, i \in X PROVE i + 1 \in X
  <2> SUFFICES ASSUME i + 1 <= digestBytes PROVE g[i + 1] \in Nat
    OBVIOUS
  <2>1. i \in 0..digestBytes - 1 /\ i <= digestBytes /\ i + 1 \in 1..digestBytes
    BY <1>1
  <2>2. g[i] \in Nat /\ b[i + 1] \in Nat
    BY <1>1, <1>14, <2>1
  <2>3. g[i + 1] = ByteSize * g[i] + b[i + 1]
    BY <1>12, <2>1
  <2> QED
    BY <1>2, <2>2, <2>3
<1> HIDE DEF X
<1>15. Nat \subseteq X
  BY <1>13, <1>14, Induction
<1>16. \A i \in 0..digestBytes : g[i] \in Nat
  <2> TAKE i \in 0..digestBytes
  <2>1. i \in Nat /\ i <= digestBytes
    BY <1>1
  <2> QED
    BY <1>15, <2>1 DEF X
<1>17. Reads(g, b)
  BY <1>12, <1>16 DEF Reads
<1> QED
  BY <1>6, <1>10, <1>17

\* A digit at the end does not change which powers of the base a number is below.
LEMMA BelowWithDigit ==
    ASSUME NEW S \in Nat \ {0}, NEW n \in Nat, NEW P \in Nat, NEW x \in 0..S-1
    PROVE  S * n + x < P * S <=> n < P
<1>1. CASE n < P
  <2>1. S * (n + 1) <= S * P /\ S * (n + 1) = S * n + S /\ S * P = P * S
    BY <1>1
  <2>2. PICK sn \in Nat, sp \in Nat : sn = S * n /\ sp = P * S
    OBVIOUS
  <2>3. sn + S <= sp
    BY <2>1, <2>2
  <2>4. sn + x < sp
    BY <2>3
  <2> QED
    BY <1>1, <2>2, <2>4
<1>2. CASE n >= P
  <2>1. S * n >= S * P /\ S * P = P * S
    BY <1>2
  <2>2. PICK sn \in Nat, sp \in Nat : sn = S * n /\ sp = P * S
    OBVIOUS
  <2>3. sn >= sp
    BY <2>1, <2>2
  <2>4. ~(sn + x < sp)
    BY <2>3
  <2> QED
    BY <1>2, <2>2, <2>4
<1> QED
  BY <1>1, <1>2

\* The first bytes of a digest are zero when the number they make is.
LEMMA ZeroPrefix ==
    ASSUME NEW b \in Digest, NEW N, Reads(N, b), NEW q \in 0..digestBytes
    PROVE  N[q] = 0 <=> \A i \in 1..q : b[i] = 0
<1>1. digestBytes \in Nat \ {0} /\ \A i \in 1..digestBytes : b[i] \in Nat
  BY DigestIs
<1>2. ByteSize \in Nat \ {0}
  BY ByteSizes
<1> DEFINE X == {k \in Nat : k <= digestBytes => (N[k] = 0 <=> \A i \in 1..k : b[i] = 0)}
<1>3. 0 \in X
  <2>1. N[0] = 0
    BY DEF Reads
  <2> QED
    BY <2>1
<1>4. ASSUME NEW k \in Nat, k \in X PROVE k + 1 \in X
  <2> SUFFICES ASSUME k + 1 <= digestBytes
               PROVE  N[k + 1] = 0 <=> \A i \in 1..k + 1 : b[i] = 0
    OBVIOUS
  <2>1. k \in 0..digestBytes - 1 /\ k \in 0..digestBytes /\ k <= digestBytes
        /\ k + 1 \in 1..digestBytes
    BY <1>1
  <2>2. PICK n \in Nat, x \in Nat : n = N[k] /\ x = b[k + 1]
    BY <1>1, <2>1 DEF Reads
  <2>3. N[k + 1] = ByteSize * n + x
    BY <2>1, <2>2 DEF Reads
  <2>4. n = 0 <=> \A i \in 1..k : b[i] = 0
    BY <1>4, <2>1, <2>2
  <2>5. ByteSize * n + x = 0 <=> n = 0 /\ x = 0
    <3>1. CASE n = 0
      BY <1>2, <3>1
    <3>2. CASE n # 0
      <4>1. PICK y \in Nat : y = ByteSize * n /\ y > 0
        BY <1>2, <3>2
      <4>2. y + x # 0
        BY <4>1
      <4> QED
        BY <3>2, <4>1, <4>2
    <3> QED
      BY <3>1, <3>2
  <2>6. \A i : i \in 1..k + 1 <=> (i \in 1..k \/ i = k + 1)
    OBVIOUS
  <2>7. (\A i \in 1..k + 1 : b[i] = 0) <=> (\A i \in 1..k : b[i] = 0) /\ x = 0
    BY <2>2, <2>6
  <2> HIDE DEF X
  <2> QED
    BY <2>3, <2>4, <2>5, <2>7, Zenon
<1> HIDE DEF X
<1>5. Nat \subseteq X
  BY <1>3, <1>4, Induction
<1>6. q \in Nat /\ q <= digestBytes
  BY <1>1
<1> QED
  BY <1>5, <1>6 DEF X

\* The bytes after the i-th only shift the power a prefix is compared with.
LEMMA PrefixShifts ==
    ASSUME NEW b \in Digest, NEW N, Reads(N, b), NEW i \in 0..digestBytes, NEW p \in Nat,
           NEW k \in 0..digestBytes - i
    PROVE  N[i + k] < Pow2[p + ByteBits * k] <=> N[i] < Pow2[p]
<1>1. digestBytes \in Nat \ {0} /\ \A x \in 1..digestBytes : b[x] \in Byte
  BY DigestIs
<1>2. ByteSize \in Nat \ {0} /\ ByteBits \in Nat /\ ByteSize = Pow2[ByteBits]
  BY ByteSizes, SmallPowers
<1>3. i \in Nat
  BY <1>1
<1> DEFINE X == {m \in Nat : i + m <= digestBytes =>
                    (N[i + m] < Pow2[p + ByteBits * m] <=> N[i] < Pow2[p])}
<1>4. 0 \in X
  <2>1. i + 0 = i /\ p + ByteBits * 0 = p
    BY <1>2, <1>3
  <2> QED
    BY <2>1
<1>5. ASSUME NEW m \in Nat, m \in X PROVE m + 1 \in X
  <2> SUFFICES ASSUME i + (m + 1) <= digestBytes
               PROVE  N[i + (m + 1)] < Pow2[p + ByteBits * (m + 1)] <=> N[i] < Pow2[p]
    OBVIOUS
  <2>1. PICK l \in Nat : l = i + m /\ i + (m + 1) = l + 1
    BY <1>3
  <2>2. l \in 0..digestBytes - 1 /\ l \in 0..digestBytes /\ l + 1 \in 1..digestBytes
        /\ i + m <= digestBytes
    BY <1>1, <2>1
  <2>3. PICK e \in Nat : e = p + ByteBits * m
    BY <1>2
  <2>4. p + ByteBits * (m + 1) = e + ByteBits
    BY <1>2, <2>3
  <2>5. PICK n \in Nat : n = N[l]
    BY <2>2 DEF Reads
  <2>6. PICK x \in 0..ByteSize-1 : x = b[l + 1]
    BY <1>1, <2>2 DEF Byte
  <2>7. PICK P \in Nat : P = Pow2[e]
    BY Pow2Grows
  <2>8. Pow2[e + ByteBits] = P * ByteSize
    BY <1>2, <2>7, Pow2Adds
  <2>9. N[l + 1] = ByteSize * n + x
    BY <2>2, <2>5, <2>6 DEF Reads
  <2>10. ByteSize * n + x < P * ByteSize <=> n < P
    BY <1>2, BelowWithDigit
  <2>11. n < P <=> N[i] < Pow2[p]
    BY <1>5, <2>1, <2>2, <2>3, <2>5, <2>7
  <2> HIDE DEF X
  <2> QED
    BY <2>1, <2>4, <2>8, <2>9, <2>10, <2>11, Zenon
<1> HIDE DEF X
<1>6. Nat \subseteq X
  BY <1>4, <1>5, Induction
<1>7. k \in Nat /\ i + k <= digestBytes
  BY <1>1, <1>3
<1> QED
  BY <1>6, <1>7 DEF X

\* A digest is below a power of two when it begins with as many zeros as the
\* power lacks.
LEMMA NumberCounts ==
    ASSUME NEW b \in Digest, NEW q, NEW j, Splits(q, j)
    PROVE  /\ ByteBits * digestBytes - (ByteBits * q + j) \in Nat
           /\ DigestNumber(b) < Pow2[ByteBits * digestBytes - (ByteBits * q + j)]
                <=> ZeroTo(b, q, j)
<1>1. /\ digestBytes \in Nat \ {0} /\ ByteBits \in Nat /\ ByteBits > 1
      /\ \A i \in 1..digestBytes : b[i] \in Byte /\ b[i] \in Nat
  BY DigestIs
<1>2. q \in Nat /\ q <= digestBytes /\ j \in Nat /\ j < ByteBits /\ (q = digestBytes => j = 0)
      /\ q \in 0..digestBytes
  BY <1>1 DEF Splits
<1>3. PICK N : Reads(N, b) /\ DigestNumber(b) = N[digestBytes]
  BY NumberIs
<1>4. N[q] = 0 <=> \A i \in 1..q : b[i] = 0
  BY <1>2, <1>3, ZeroPrefix
<1>5. PICK n \in Nat : n = N[q]
  BY <1>2, <1>3 DEF Reads
<1>6. CASE j = 0
  <2>1. PICK k \in Nat : k = digestBytes - q
    BY <1>1, <1>2
  <2>2. k \in 0..digestBytes - q /\ q + k = digestBytes
    BY <1>1, <1>2, <2>1
  <2>3. N[q + k] < Pow2[0 + ByteBits * k] <=> N[q] < Pow2[0]
    BY <1>2, <1>3, <2>2, PrefixShifts
  <2>4. ByteBits * digestBytes - (ByteBits * q + j) = 0 + ByteBits * k
        /\ 0 + ByteBits * k \in Nat
    BY <1>1, <1>2, <1>6, <2>1
  <2>5. n < Pow2[0] <=> n = 0
    <3>1. Pow2[0] = 1
      BY Pow2Is
    <3> QED
      BY <3>1
  <2>6. ZeroTo(b, q, j) <=> \A i \in 1..q : b[i] = 0
    BY <1>6 DEF ZeroTo
  <2>7. ByteBits * digestBytes - (ByteBits * q + j) \in Nat
    BY <2>4
  <2>8. DigestNumber(b) < Pow2[ByteBits * digestBytes - (ByteBits * q + j)]
                <=> ZeroTo(b, q, j)
    BY <1>3, <1>4, <1>5, <2>2, <2>3, <2>4, <2>5, <2>6, Zenon
  <2> QED
    BY <2>7, <2>8
<1>7. CASE j # 0
  <2>1. PICK l \in Nat : l = q + 1 /\ l <= digestBytes /\ l \in 0..digestBytes
                         /\ q \in 0..digestBytes - 1 /\ q + 1 \in 1..digestBytes
    BY <1>1, <1>2, <1>7
  <2>2. PICK k \in Nat : k = digestBytes - l
    BY <1>1, <2>1
  <2>3. k \in 0..digestBytes - l /\ l + k = digestBytes
    BY <1>1, <2>1, <2>2
  <2>4. PICK p \in Nat : p = ByteBits - j /\ p <= ByteBits
    BY <1>1, <1>2
  <2>5. N[l + k] < Pow2[p + ByteBits * k] <=> N[l] < Pow2[p]
    BY <1>3, <2>1, <2>3, <2>4, PrefixShifts
  <2>6. ByteBits * digestBytes - (ByteBits * q + j) = p + ByteBits * k
        /\ p + ByteBits * k \in Nat
    <3>1. digestBytes = q + (1 + k)
      BY <1>1, <2>1, <2>2
    <3>2. ByteBits * (q + (1 + k)) = ByteBits * q + ByteBits + ByteBits * k
      BY <1>1, <1>2
    <3>3. PICK bq \in Nat, bk \in Nat, all \in Nat :
             bq = ByteBits * q /\ bk = ByteBits * k /\ all = ByteBits * digestBytes
      BY <1>1, <1>2
    <3>4. all = bq + ByteBits + bk
      BY <3>1, <3>2, <3>3
    <3>5. all - (bq + j) = p + bk /\ p + bk \in Nat
      BY <1>1, <1>2, <2>4, <3>4
    <3> QED
      BY <3>3, <3>5
  <2>7. PICK x \in Nat : x = b[q + 1]
    BY <1>1, <2>1
  <2>8. N[l] = ByteSize * n + x
    BY <1>3, <1>5, <2>1, <2>7 DEF Reads
  <2>9. PICK P \in Nat : P = Pow2[p] /\ P <= ByteSize
    <3>1. Pow2[p] <= Pow2[ByteBits] /\ Pow2[p] \in Nat
      BY <1>1, <2>4, Pow2Ordered, Pow2Grows
    <3>2. ByteSize = Pow2[ByteBits]
      BY SmallPowers
    <3> QED
      BY <3>1, <3>2
  <2>10. ByteSize * n + x < P <=> n = 0 /\ x < P
    <3>1. ByteSize \in Nat \ {0}
      BY ByteSizes
    <3>2. CASE n = 0
      BY <3>1, <3>2
    <3>3. CASE n # 0
      <4>1. ByteSize * n >= ByteSize * 1 /\ ByteSize * 1 = ByteSize /\ ByteSize * n \in Nat
        BY <3>1, <3>3
      <4>2. ByteSize * n + x >= P
        BY <2>9, <3>1, <4>1
      <4> QED
        BY <3>1, <3>3, <4>1, <4>2
    <3> QED
      BY <3>2, <3>3
  <2>11. ZeroTo(b, q, j) <=> (\A i \in 1..q : b[i] = 0) /\ x < P
    BY <1>7, <2>4, <2>7, <2>9 DEF ZeroTo
  <2>12. ByteBits * digestBytes - (ByteBits * q + j) \in Nat
    BY <2>6
  <2>13. DigestNumber(b) < Pow2[ByteBits * digestBytes - (ByteBits * q + j)]
                <=> ZeroTo(b, q, j)
    BY <1>3, <1>4, <1>5, <2>3, <2>5, <2>6, <2>8, <2>9, <2>10, <2>11, Zenon
  <2> QED
    BY <2>12, <2>13
<1> QED
  BY <1>6, <1>7

\* The two counts and the meaning of the difficulty agree.
LEMMA CountsAgree ==
    ASSUME NEW b \in Digest, NEW d \in Nat
    PROVE  /\ countLeadingZeroBits(b) >= d
                <=> d <= ByteBits * digestBytes
                    /\ DigestNumber(b) < Pow2[ByteBits * digestBytes - d]
           /\ leadingZeroBits(b) >= d
                <=> d <= ByteBits * digestBytes
                    /\ DigestNumber(b) < Pow2[ByteBits * digestBytes - d]
<1>1. PICK all \in Nat : all = ByteBits * digestBytes
  BY AllBits
<1>2. PICK s \in Nat, w \in Nat :
         s = countLeadingZeroBits(b) /\ w = leadingZeroBits(b) /\ s <= all /\ w <= all
  BY <1>1, ServerBound, WidgetCounts
<1>3. CASE d <= all
  <2>1. PICK q, j : Splits(q, j) /\ d = ByteBits * q + j
    BY <1>1, <1>3, SplitsExist
  <2>2. countLeadingZeroBits(b) >= d <=> ZeroTo(b, q, j)
    BY <2>1, ServerCounts
  <2>3. leadingZeroBits(b) >= d <=> Clear(b, d)
    BY <1>1, <1>3, WidgetCounts
  <2>4. Clear(b, d) <=> ZeroTo(b, q, j)
    BY <2>1, ClearIs
  <2>5. DigestNumber(b) < Pow2[ByteBits * digestBytes - d] <=> ZeroTo(b, q, j)
    BY <2>1, NumberCounts
  <2> QED
    BY <1>1, <1>3, <2>2, <2>3, <2>4, <2>5, Zenon
<1>4. CASE ~(d <= all)
  <2>1. ~(s >= d) /\ ~(w >= d)
    BY <1>2, <1>4
  <2> QED
    BY <1>1, <1>2, <1>4, <2>1, Zenon
<1> QED
  BY <1>3, <1>4

-----------------------------------------------------------------------------
(***************************************************************************)
(* Hex text, and the eight bytes of a counter.                             *)
(***************************************************************************)
LEMMA HexDigits == HexDigit \in Nat /\ HexDigit > 1 /\ ByteSize = HexDigit * HexDigit
<1>1. ByteBits \in {2, 4, 6, 8}
  BY WireAssumption
<1>2. 2 \div 2 = 1 /\ 4 \div 2 = 2 /\ 6 \div 2 = 3 /\ 8 \div 2 = 4
  OBVIOUS
<1>3. \A e : /\ e = 1 => 2^e = 2^1
             /\ e = 2 => 2^e = 2^2
             /\ e = 3 => 2^e = 2^3
             /\ e = 4 => 2^e = 2^4
             /\ e = 6 => 2^e = 2^6
             /\ e = 8 => 2^e = 2^8
  BY Zenon
<1>4. 2^1 = 2 /\ 2^2 = 4 /\ 2^3 = 8 /\ 2^4 = 16 /\ 2^6 = 64 /\ 2^8 = 256
  OBVIOUS
<1> QED
  BY <1>1, <1>2, <1>3, <1>4 DEF ByteSize, HexDigit

\* Digits are joined, and told apart, place by place.
LEMMA DigitsJoined ==
    ASSUME NEW x \in Seq(Nat), NEW y \in Seq(Nat)
    PROVE  /\ x \o y \in Seq(Nat) /\ Len(x \o y) = Len(x) + Len(y)
           /\ \A i \in 1..Len(x) : (x \o y)[i] = x[i]
           /\ \A i \in 1..Len(y) : (x \o y)[Len(x) + i] = y[i]
<1>1. Len(x) \in Nat /\ Len(y) \in Nat
  OBVIOUS
<1>2. x \o y \in Seq(Nat) /\ Len(x \o y) = Len(x) + Len(y)
  OBVIOUS
<1>3. ASSUME NEW i \in 1..Len(x) PROVE (x \o y)[i] = x[i]
  BY <1>1
<1>4. ASSUME NEW i \in 1..Len(y) PROVE (x \o y)[Len(x) + i] = y[i]
  BY <1>1
<1> QED
  BY <1>2, <1>3, <1>4

LEMMA SameDigits ==
    ASSUME NEW x \in Seq(Nat), NEW y \in Seq(Nat), Len(x) = Len(y),
           \A i \in 1..Len(x) : x[i] = y[i]
    PROVE  x = y
OBVIOUS

\* Each byte is written as its two digits.
LEMMA ByteText ==
    ASSUME NEW x \in Byte
    PROVE  /\ padStart(toHex(x)) = <<x \div HexDigit, x % HexDigit>>
           /\ x \in Nat /\ x \div HexDigit \in Nat /\ x % HexDigit \in Nat
           /\ (x \div HexDigit) * HexDigit + (x % HexDigit) = x
<1>1. PICK H \in Nat \ {0} : H = HexDigit
  BY HexDigits
<1>2. x \in Nat
  BY ByteSizes DEF Byte
<1>3. x \div H \in Nat /\ x % H \in 0..H-1 /\ x = H * (x \div H) + (x % H)
  BY <1>2
<1>4. PICK q \in Nat, z \in Nat : q = x \div H /\ z = x % H
  BY <1>3
<1>5. x = H * q + z /\ q * H = H * q
  BY <1>3, <1>4
<1>6. CASE x < H
  <2>1. q = 0
    <3> SUFFICES ASSUME q >= 1 PROVE FALSE
      OBVIOUS
    <3>1. H * q >= H * 1 /\ H * 1 = H
      OBVIOUS
    <3>2. PICK hq \in Nat : hq = H * q
      OBVIOUS
    <3> QED
      BY <1>2, <1>5, <1>6, <3>1, <3>2
  <2>2. z = x
    BY <1>5, <2>1
  <2>3. toHex(x) = <<x>>
    BY <1>1, <1>6 DEF toHex
  <2>4. padStart(<<x>>) = <<0>> \o <<x>>
    BY DEF padStart
  <2>5. <<0>> \o <<x>> = <<0, x>>
    <3>1. PICK o, d, t, e : o = <<0>> /\ d = <<x>> /\ t = o \o d /\ e = <<0, x>>
      OBVIOUS
    <3>2. /\ o \in Seq(Nat) /\ Len(o) = 1 /\ o[1] = 0
          /\ d \in Seq(Nat) /\ Len(d) = 1 /\ d[1] = x
          /\ e \in Seq(Nat) /\ Len(e) = 2 /\ e[1] = 0 /\ e[2] = x
      BY <1>2, <3>1
    <3>3. /\ o \o d \in Seq(Nat) /\ Len(o \o d) = Len(o) + Len(d)
          /\ \A i \in 1..Len(o) : (o \o d)[i] = o[i]
          /\ \A i \in 1..Len(d) : (o \o d)[Len(o) + i] = d[i]
      BY <3>2, DigitsJoined
    <3>4. t \in Seq(Nat) /\ Len(t) = 2 /\ t[1] = 0 /\ t[2] = x
      <4>1. /\ t \in Seq(Nat) /\ Len(t) = 1 + 1
            /\ \A i \in 1..1 : t[i] = o[i]
            /\ \A i \in 1..1 : t[1 + i] = d[i]
        BY <3>1, <3>2, <3>3
      <4>2. t[1] = o[1] /\ t[1 + 1] = d[1]
        BY <4>1
      <4> QED
        BY <3>2, <4>1, <4>2
    <3>5. \A i \in 1..2 : t[i] = e[i]
      BY <3>2, <3>4
    <3>6. t = e
      BY <3>2, <3>4, <3>5, SameDigits
    <3> QED
      BY <3>1, <3>6
  <2> QED
    BY <1>1, <1>2, <1>4, <1>5, <2>1, <2>2, <2>3, <2>4, <2>5
<1>7. CASE ~(x < H)
  <2>1. toHex(x) = <<q, z>>
    BY <1>1, <1>4, <1>7 DEF toHex
  <2>2. padStart(<<q, z>>) = <<q, z>>
    BY DEF padStart
  <2> QED
    BY <1>1, <1>2, <1>4, <1>5, <2>1, <2>2
<1> QED
  BY <1>6, <1>7

\* Digit m of the text of b, and the text of its first i bytes.
DigitAt(b, m) ==
    IF m % 2 = 1 THEN b[(m + 1) \div 2] \div HexDigit ELSE b[m \div 2] % HexDigit

Text(b, i) == [m \in 1..2 * i |-> DigitAt(b, m)]

LEMMA DigitPlaces ==
    ASSUME NEW b, NEW k \in Nat \ {0}
    PROVE  /\ DigitAt(b, 2 * k - 1) = b[k] \div HexDigit
           /\ DigitAt(b, 2 * k) = b[k] % HexDigit
<1>1. (2 * k - 1) % 2 = 1 /\ ((2 * k - 1) + 1) \div 2 = k
  OBVIOUS
<1>2. (2 * k) % 2 # 1 /\ (2 * k) \div 2 = k
  OBVIOUS
<1> QED
  BY <1>1, <1>2 DEF DigitAt

LEMMA TextIs ==
    ASSUME NEW n \in Nat, NEW b \in [1..n -> Byte], NEW i \in 0..n
    PROVE  Text(b, i) \in Seq(Nat) /\ Len(Text(b, i)) = 2 * i
<1>1. ASSUME NEW m \in 1..2 * i PROVE DigitAt(b, m) \in Nat
  <2>1. \E k \in 1..i : m = 2 * k - 1 \/ m = 2 * k
    <3>1. CASE m % 2 = 1
      <4>1. (m + 1) \div 2 \in 1..i /\ m = 2 * ((m + 1) \div 2) - 1
        BY <3>1
      <4> QED
        BY <4>1
    <3>2. CASE m % 2 # 1
      <4>1. m \div 2 \in 1..i /\ m = 2 * (m \div 2)
        BY <3>2
      <4> QED
        BY <4>1
    <3> QED
      BY <3>1, <3>2
  <2>2. PICK k \in 1..i : m = 2 * k - 1 \/ m = 2 * k
    BY <2>1
  <2>3. b[k] \in Byte /\ k \in Nat \ {0}
    OBVIOUS
  <2>4. b[k] \div HexDigit \in Nat /\ b[k] % HexDigit \in Nat
    BY <2>3, ByteText
  <2> QED
    BY <2>2, <2>3, <2>4, DigitPlaces
<1>2. Text(b, i) \in [1..2 * i -> Nat]
  BY <1>1 DEF Text
<1>3. \A k \in Nat : \A f \in [1..k -> Nat] : f \in Seq(Nat) /\ Len(f) = k
  OBVIOUS
<1>4. 2 * i \in Nat
  OBVIOUS
<1> QED
  BY <1>2, <1>3, <1>4

\* A byte more adds its digits.
LEMMA TextGrows ==
    ASSUME NEW n \in Nat, NEW b \in [1..n -> Byte], NEW i \in 0..n-1
    PROVE  Text(b, i + 1) = Text(b, i) \o padStart(toHex(b[i + 1]))
<1> DEFINE s == padStart(toHex(b[i + 1]))
           t == Text(b, i)
           u == Text(b, i + 1)
<1>1. b[i + 1] \in Byte
  OBVIOUS
<1>2. s \in Seq(Nat) /\ Len(s) = 2 /\ s[1] = b[i + 1] \div HexDigit /\ s[2] = b[i + 1] % HexDigit
  <2>1. PICK q \in Nat, z \in Nat : q = b[i + 1] \div HexDigit /\ z = b[i + 1] % HexDigit
    BY <1>1, ByteText
  <2>2. s = <<q, z>>
    BY <1>1, <2>1, ByteText
  <2> HIDE DEF s
  <2> QED
    BY <2>1, <2>2
<1>3. t \in Seq(Nat) /\ Len(t) = 2 * i
  <2>1. i \in 0..n
    OBVIOUS
  <2> QED
    BY <2>1, TextIs
<1>4. u \in Seq(Nat) /\ Len(u) = 2 * i + 2
  <2>1. i + 1 \in 0..n /\ 2 * (i + 1) = 2 * i + 2
    OBVIOUS
  <2> QED
    BY <2>1, TextIs
<1>5. \A m \in 1..2 * i : t[m] = DigitAt(b, m)
  BY DEF Text
<1>6. \A m \in 1..2 * (i + 1) : u[m] = DigitAt(b, m)
  BY DEF Text
<1> HIDE DEF s, t, u
<1>7. /\ t \o s \in Seq(Nat) /\ Len(t \o s) = 2 * i + 2
      /\ \A m \in 1..2 * i : (t \o s)[m] = t[m]
      /\ (t \o s)[2 * i + 1] = s[1] /\ (t \o s)[2 * i + 2] = s[2]
  <2>1. /\ t \o s \in Seq(Nat) /\ Len(t \o s) = Len(t) + Len(s)
        /\ \A m \in 1..Len(t) : (t \o s)[m] = t[m]
        /\ \A m \in 1..Len(s) : (t \o s)[Len(t) + m] = s[m]
    BY <1>2, <1>3, DigitsJoined
  <2>2. PICK ts : ts = t \o s
    OBVIOUS
  <2>3. 1 \in 1..Len(s) /\ 2 \in 1..Len(s)
    BY <1>2
  <2> QED
    BY <1>2, <1>3, <2>1, <2>2, <2>3
<1>8. PICK ts : ts = t \o s
  OBVIOUS
<1>9. u[2 * i + 1] = s[1] /\ u[2 * i + 2] = s[2]
  <2>1. PICK k \in Nat \ {0} : k = i + 1
    OBVIOUS
  <2>2. 2 * i + 1 = 2 * k - 1 /\ 2 * i + 2 = 2 * k
    BY <2>1
  <2>3. 2 * i + 1 \in 1..2 * (i + 1) /\ 2 * i + 2 \in 1..2 * (i + 1)
    OBVIOUS
  <2>4. u[2 * i + 1] = DigitAt(b, 2 * k - 1) /\ u[2 * i + 2] = DigitAt(b, 2 * k)
    BY <1>6, <2>2, <2>3
  <2> QED
    BY <1>2, <2>1, <2>4, DigitPlaces
<1>10. ASSUME NEW m \in 1..2 * i + 2 PROVE u[m] = ts[m]
  <2>1. m \in 1..2 * i \/ m = 2 * i + 1 \/ m = 2 * i + 2
    OBVIOUS
  <2>2. CASE m \in 1..2 * i
    <3>1. m \in 1..2 * (i + 1)
      BY <2>2
    <3> QED
      BY <1>5, <1>6, <1>7, <1>8, <2>2, <3>1
  <2> QED
    BY <1>7, <1>8, <1>9, <2>1, <2>2
<1>11. u = ts
  BY <1>4, <1>7, <1>8, <1>10, SameDigits
<1> QED
  BY <1>8, <1>11 DEF s, t, u

\* Hex text has two digits for each byte.
LEMMA HexTextIs ==
    ASSUME NEW n \in Nat \ {0}, NEW b \in [1..n -> Byte]
    PROVE  bytesToHex(b) = Text(b, n)
<1> DEFINE Piece(i) == padStart(toHex(b[i]))
           seqs == [i \in DOMAIN b |-> Piece(i)]
           Def(f) == f = [i \in 1..Len(seqs) |-> IF i = 1 THEN seqs[i] ELSE f[i - 1] \o seqs[i]]
           g == [i \in 1..n |-> Text(b, i)]
<1>1. DOMAIN b = 1..n
  OBVIOUS
<1>2. seqs \in [1..n -> Seq(Nat)] /\ \A i \in 1..n : seqs[i] = Piece(i)
  <2>1. ASSUME NEW i \in 1..n PROVE Piece(i) \in Seq(Nat)
    <3>1. b[i] \in Byte
      OBVIOUS
    <3>2. PICK q \in Nat, z \in Nat : q = b[i] \div HexDigit /\ z = b[i] % HexDigit
      BY <3>1, ByteText
    <3>3. Piece(i) = <<q, z>>
      BY <3>1, <3>2, ByteText
    <3> HIDE DEF Piece
    <3> QED
      BY <3>3
  <2> HIDE DEF Piece
  <2> QED
    BY <1>1, <2>1
<1>3. Len(seqs) = n
  <2>1. \A k \in Nat : \A f \in [1..k -> Seq(Nat)] : Len(f) = k
    OBVIOUS
  <2> HIDE DEF seqs
  <2> QED
    BY <1>2, <2>1
<1>4. bytesToHex(b) = FlattenSeq(seqs)
  BY DEF bytesToHex
<1> HIDE DEF seqs
<1>5. FlattenSeq(seqs) = (CHOOSE f : Def(f))[n]
  BY <1>3 DEF FlattenSeq
<1>6. \A i \in 0..n-1 : Text(b, i + 1) = Text(b, i) \o Piece(i + 1)
  BY TextGrows
<1>7. Text(b, 1) = Piece(1)
  <2>1. Text(b, 0) = <<>>
    <3>1. 0 \in 0..n /\ 2 * 0 = 0
      OBVIOUS
    <3>2. Text(b, 0) \in Seq(Nat) /\ Len(Text(b, 0)) = 0
      BY <3>1, TextIs
    <3> QED
      BY <3>2
  <2>2. 0 \in 0..n-1 /\ 0 + 1 = 1
    OBVIOUS
  <2>3. Text(b, 1) = Text(b, 0) \o Piece(1)
    BY <1>6, <2>2
  <2>4. Piece(1) \in Seq(Nat)
    <3>1. 1 \in 1..n
      OBVIOUS
    <3>2. seqs[1] \in Seq(Nat) /\ seqs[1] = Piece(1)
      BY <1>2, <3>1
    <3> QED
      BY <3>2
  <2> HIDE DEF Piece
  <2> QED
    BY <2>1, <2>3, <2>4
<1>8. \A i \in 2..n : Text(b, i) = Text(b, i - 1) \o Piece(i)
  <2> TAKE i \in 2..n
  <2>1. i - 1 \in 0..n-1 /\ (i - 1) + 1 = i
    OBVIOUS
  <2> QED
    BY <1>6, <2>1
<1> HIDE DEF Piece
<1>9. Def(g)
  <2>1. ASSUME NEW i \in 1..n
        PROVE  Text(b, i) = IF i = 1 THEN seqs[i] ELSE g[i - 1] \o seqs[i]
    <3>1. CASE i = 1
      BY <1>2, <1>7, <3>1
    <3>2. CASE i # 1
      <4>1. i \in 2..n /\ i - 1 \in 1..n
        BY <3>2
      <4>2. g[i - 1] = Text(b, i - 1)
        BY <4>1
      <4> QED
        BY <1>2, <1>8, <3>2, <4>1, <4>2
    <3> QED
      BY <3>1, <3>2
  <2> QED
    BY <1>3, <2>1
<1>10. PICK h : h = CHOOSE f : Def(f)
  OBVIOUS
<1>11. Def(h)
  <2> HIDE DEF Def
  <2> QED
    BY <1>9, <1>10
<1>12. \A i \in 1..n : h[i] = IF i = 1 THEN seqs[i] ELSE h[i - 1] \o seqs[i]
  BY <1>3, <1>11
<1> HIDE DEF Def, g
<1> DEFINE X == {i \in Nat : i + 1 <= n => h[i + 1] = Text(b, i + 1)}
<1>13. 0 \in X
  <2>1. 1 \in 1..n /\ 0 + 1 = 1
    OBVIOUS
  <2>2. h[1] = seqs[1]
    BY <1>12, <2>1
  <2> QED
    BY <1>2, <1>7, <2>1, <2>2
<1>14. ASSUME NEW i \in Nat, i \in X PROVE i + 1 \in X
  <2> SUFFICES ASSUME (i + 1) + 1 <= n PROVE h[(i + 1) + 1] = Text(b, (i + 1) + 1)
    OBVIOUS
  <2>1. PICK k \in 2..n : k = (i + 1) + 1 /\ k - 1 = i + 1 /\ k # 1 /\ k \in 1..n
    OBVIOUS
  <2>2. h[k] = h[k - 1] \o seqs[k]
    BY <1>12, <2>1
  <2>3. h[k - 1] = Text(b, k - 1)
    BY <1>14, <2>1
  <2>4. Text(b, k) = Text(b, k - 1) \o Piece(k)
    BY <1>8, <2>1
  <2>5. seqs[k] = Piece(k)
    BY <1>2, <2>1
  <2> QED
    BY <2>1, <2>2, <2>3, <2>4, <2>5
<1> HIDE DEF X
<1>15. Nat \subseteq X
  BY <1>13, <1>14, Induction
<1>16. h[n] = Text(b, n)
  <2>1. PICK k \in Nat : k = n - 1 /\ k + 1 = n
    OBVIOUS
  <2>2. k \in X
    BY <1>15
  <2> QED
    BY <2>1, <2>2 DEF X
<1> QED
  BY <1>4, <1>5, <1>10, <1>16

\* What is written in hex is read back.
LEMMA HexReadsBack ==
    ASSUME NEW n \in Nat \ {0}, NEW b \in [1..n -> Byte]
    PROVE  /\ bytesToHex(b) \in Seq(Nat) /\ Len(bytesToHex(b)) = 2 * n
           /\ hexToBytes(bytesToHex(b)) = b
<1>1. PICK t : t = bytesToHex(b) /\ t = Text(b, n)
  BY HexTextIs
<1>2. t \in Seq(Nat) /\ Len(t) = 2 * n
  <2>1. n \in 0..n
    OBVIOUS
  <2> QED
    BY <1>1, <2>1, TextIs
<1>3. \A m \in 1..2 * n : t[m] = DigitAt(b, m)
  BY <1>1 DEF Text
<1>4. ASSUME NEW i \in 1..n PROVE t[2 * i - 1] * HexDigit + t[2 * i] = b[i]
  <2>1. 2 * i - 1 \in 1..2 * n /\ 2 * i \in 1..2 * n /\ i \in Nat \ {0} /\ b[i] \in Byte
    OBVIOUS
  <2>2. t[2 * i - 1] = b[i] \div HexDigit /\ t[2 * i] = b[i] % HexDigit
    BY <1>3, <2>1, DigitPlaces
  <2> QED
    BY <2>1, <2>2, ByteText
<1>5. Len(t) \div 2 = n
  BY <1>2
<1>6. hexToBytes(t) = [i \in 1..n |-> t[2 * i - 1] * HexDigit + t[2 * i]]
  BY <1>5 DEF hexToBytes
<1>7. hexToBytes(t) = [i \in 1..n |-> b[i]]
  BY <1>4, <1>6
<1>8. b = [i \in 1..n |-> b[i]]
  OBVIOUS
<1> QED
  BY <1>1, <1>2, <1>7, <1>8

\* A counter is eight bytes, which stand for themselves.
LEMMA CounterReadsBack ==
    ASSUME NEW c \in Nat
    PROVE  /\ uint64BE(c) \in [1..8 -> Byte] /\ uint64BE(c) \in Seq(Byte) /\ Len(uint64BE(c)) = 8
           /\ Uint64(uint64BE(c)) \in Nat
           /\ uint64BE(Uint64(uint64BE(c))) = uint64BE(c)
<1>1. PICK W \in Nat \ {0} : W = WordSize
  BY WordSizes
<1>2. PICK hi \in 0..W-1, lo \in 0..W-1 : hi = (c \div W) % W /\ lo = c % W
  OBVIOUS
<1>3. hi \in Word /\ lo \in Word /\ hi \in Nat /\ lo \in Nat
  BY <1>1 DEF Word
<1> DEFINE x == uint32BE(hi)
           y == uint32BE(lo)
           u == x \o y
<1>4. uint64BE(c) = u
  BY <1>1, <1>2 DEF uint64BE
<1>5. x \in Seq(Byte) /\ Len(x) = 4 /\ Uint32(x) = hi
  BY <1>3, WordReadsBack
<1>6. y \in Seq(Byte) /\ Len(y) = 4 /\ Uint32(y) = lo
  BY <1>3, WordReadsBack
<1> HIDE DEF x, y
<1>7. /\ u \in Seq(Byte) /\ Len(u) = 8
      /\ \A i \in 1..4 : u[i] = x[i]
      /\ \A i \in 1..4 : u[4 + i] = y[i]
  <2>1. /\ u \in Seq(Byte) /\ Len(u) = Len(x) + Len(y)
        /\ \A i \in 1..Len(x) : u[i] = x[i]
        /\ \A i \in 1..Len(y) : u[Len(x) + i] = y[i]
    BY <1>5, <1>6, Concatenated
  <2> HIDE DEF u
  <2> QED
    BY <1>5, <1>6, <2>1
<1> HIDE DEF u
<1>8. Uint32(SubSeq(u, 1, 4)) = Uint32(x)
  <2>1. u[1] = x[1] /\ u[2] = x[2] /\ u[3] = x[3] /\ u[4] = x[4]
    BY <1>7
  <2> QED
    BY <1>7, <2>1 DEF Uint32
<1>9. Uint32(SubSeq(u, 5, 8)) = Uint32(y)
  <2>1. u[4 + 1] = y[1] /\ u[4 + 2] = y[2] /\ u[4 + 3] = y[3] /\ u[4 + 4] = y[4]
    BY <1>7
  <2>2. u[5] = y[1] /\ u[6] = y[2] /\ u[7] = y[3] /\ u[8] = y[4]
    BY <2>1
  <2> QED
    BY <1>7, <2>2 DEF Uint32
<1>10. Uint64(u) = hi * W + lo
  BY <1>1, <1>5, <1>6, <1>8, <1>9 DEF Uint64
<1>11. PICK v \in Nat : v = hi * W + lo
  BY <1>1, <1>3
<1>12. v \div W = hi /\ v % W = lo
  BY <1>1, <1>2, <1>11
<1>13. hi % W = hi
  BY <1>2
<1>14. uint64BE(v) = u
  BY <1>1, <1>12, <1>13 DEF uint64BE, u, x, y
<1>15. u \in [1..8 -> Byte]
  <2>1. \A s \in Seq(Byte) : s \in [1..Len(s) -> Byte]
    OBVIOUS
  <2> QED
    BY <1>7, <2>1
<1> QED
  BY <1>4, <1>7, <1>10, <1>11, <1>14, <1>15

-----------------------------------------------------------------------------
(***************************************************************************)
(* The solutions of a load.                                                *)
(***************************************************************************)
\* What is hashed gives a digest.
LEMMA DigestsAre ==
    ASSUME NEW ld, LoadOK(ld), NEW c \in Nat
    PROVE  sha256(ld.random, ld.random.nonce \o uint64BE(c)) \in Digest
<1> DEFINE nonce == ld.random.nonce
           u == uint64BE(c)
           data == nonce \o u
           n == Uint64(SubSeq(data, nonceBytes + 1, nonceBytes + 8))
           digests == ld.random.digests
<1>1. nonce \in [1..nonceBytes -> Byte] /\ digests \in Seq(Digest)
  BY DEF LoadOK
<1>2. nonceBytes \in Nat
  BY PuzzlesAssumption
<1>3. \A k \in Nat : \A f \in [1..k -> Byte] : f \in Seq(Byte) /\ Len(f) = k
  OBVIOUS
<1>4. u \in Seq(Byte) /\ Len(u) = 8 /\ Uint64(u) \in Nat
  BY CounterReadsBack
<1>5. sha256(ld.random, data) =
        IF Len(data) # nonceBytes + 8 \/ SubSeq(data, 1, nonceBytes) # nonce
        THEN [i \in 1..digestBytes |-> ByteSize - 1]
        ELSE IF n < Len(digests) THEN digests[n + 1]
        ELSE [i \in 1..digestBytes |-> 0]
  BY DEF sha256
<1>6. nonce \in Seq(Byte) /\ Len(nonce) = nonceBytes
  BY <1>1, <1>2, <1>3
<1> HIDE DEF nonce, u
<1>7. /\ data \in Seq(Byte) /\ Len(data) = nonceBytes + 8
      /\ \A i \in 1..8 : data[nonceBytes + i] = u[i]
  <2>1. /\ data \in Seq(Byte) /\ Len(data) = Len(nonce) + Len(u)
        /\ \A i \in 1..Len(u) : data[Len(nonce) + i] = u[i]
    BY <1>4, <1>6, Concatenated
  <2> HIDE DEF data
  <2> QED
    BY <1>4, <1>6, <2>1
<1> HIDE DEF data
<1>8. SubSeq(data, nonceBytes + 1, nonceBytes + 8) = u
  <2> DEFINE s == SubSeq(data, nonceBytes + 1, nonceBytes + 8)
  <2>1. s \in Seq(Byte) /\ Len(s) = 8 /\ \A i \in 1..8 : s[i] = data[nonceBytes + i]
    BY <1>2, <1>7
  <2> HIDE DEF s
  <2>2. s = u
    BY <1>4, <1>7, <2>1, SameBytes
  <2> QED
    BY <2>2 DEF s
<1>9. n \in Nat
  BY <1>4, <1>8
<1> HIDE DEF n, digests
<1>10. [i \in 1..digestBytes |-> ByteSize - 1] \in Digest
       /\ [i \in 1..digestBytes |-> 0] \in Digest
  BY ByteSizes DEF Digest, Byte
<1>11. n < Len(digests) => digests[n + 1] \in Digest
  BY <1>1, <1>9
<1> QED
  BY <1>5, <1>10, <1>11 DEF data, u, nonce

Counter(c) == bytesToHex(uint64BE(c))

\* For a counter spelled whole, the widget finds, and the server accepts,
\* just what is work.
LEMMA WorkIsFound ==
    ASSUME LoadOK(load), NEW c \in Nat, NEW ch,
           ch = NewHashCashChallenge(load.random.nonce, load.bits)
    PROVE  /\ Len(Counter(c)) = 16
           /\ Solves(load.random, ch, c) <=> Worked(Counter(c))
           /\ VerifyHashCash(load.random, ch, Counter(c)) <=> Worked(Counter(c))
<1> DEFINE u == uint64BE(c)
           D == sha256(load.random, load.random.nonce \o u)
           bits == load.bits
<1>1. u \in [1..8 -> Byte] /\ Len(u) = 8 /\ uint64BE(Uint64(u)) = u
  BY CounterReadsBack
<1>2. Len(Counter(c)) = 16 /\ hexToBytes(Counter(c)) = u
  <2>1. 8 \in Nat \ {0} /\ 2 * 8 = 16
    OBVIOUS
  <2> HIDE DEF u
  <2> QED
    BY <1>1, <2>1, HexReadsBack DEF Counter, u
<1>3. hexToBytes(ch.Nonce) = load.random.nonce /\ ch.DifficultyBits = bits
  <2>1. nonceBytes \in Nat \ {0} /\ load.random.nonce \in [1..nonceBytes -> Byte]
    BY PuzzlesAssumption DEF LoadOK
  <2>2. hexToBytes(bytesToHex(load.random.nonce)) = load.random.nonce
    BY <2>1, HexReadsBack
  <2> QED
    BY <2>2 DEF NewHashCashChallenge
<1>4. D \in Digest
  BY DigestsAre
<1>5. bits \in Nat
  BY ByteSizes DEF LoadOK, Byte
<1>6. Solves(load.random, ch, c) <=> leadingZeroBits(D) >= bits
  BY <1>3 DEF Solves
<1>7. VerifyHashCash(load.random, ch, Counter(c)) <=> countLeadingZeroBits(D) >= bits
  <2>1. Decodes(Counter(c))
    BY <1>2 DEF Decodes
  <2> QED
    BY <1>1, <1>2, <1>3, <2>1 DEF VerifyHashCash, checkHashCash
<1>8. Worked(Counter(c)) <=> bits <= ByteBits * digestBytes
                             /\ DigestNumber(D) < Pow2[ByteBits * digestBytes - bits]
  BY <1>2 DEF Worked
<1> HIDE DEF D, bits
<1>9. /\ countLeadingZeroBits(D) >= bits
            <=> bits <= ByteBits * digestBytes
                /\ DigestNumber(D) < Pow2[ByteBits * digestBytes - bits]
      /\ leadingZeroBits(D) >= bits
            <=> bits <= ByteBits * digestBytes
                /\ DigestNumber(D) < Pow2[ByteBits * digestBytes - bits]
  BY <1>4, <1>5, CountsAgree
<1> QED
  BY <1>2, <1>6, <1>7, <1>8, <1>9, Zenon

\* A counter with a digit too few is neither.
LEMMA CutShort ==
    ASSUME NEW c \in Nat, NEW ch
    PROVE  ~Worked(Tail(Counter(c))) /\ ~VerifyHashCash(load.random, ch, Tail(Counter(c)))
<1>1. Counter(c) \in Seq(Nat) /\ Len(Counter(c)) = 16
  <2>1. uint64BE(c) \in [1..8 -> Byte] /\ 8 \in Nat \ {0} /\ 2 * 8 = 16
    BY CounterReadsBack
  <2> QED
    BY <2>1, HexReadsBack DEF Counter
<1>2. Len(Tail(Counter(c))) = 15
  <2>1. \A t \in Seq(Nat) : Len(t) = 16 => Len(Tail(t)) = Len(t) - 1
    OBVIOUS
  <2>2. 16 - 1 = 15
    OBVIOUS
  <2> QED
    BY <1>1, <2>1, <2>2
<1>3. 15 % 2 # 0 /\ 15 # 16
  OBVIOUS
<1> QED
  BY <1>2, <1>3 DEF Worked, VerifyHashCash, Decodes

-----------------------------------------------------------------------------
(***************************************************************************)
(* The puzzles on their way.                                               *)
(***************************************************************************)
PuzzlesKnown ==
    stage # "start" =>
        /\ challenge.HashCash = NewHashCashChallenge(load.random.nonce, load.bits)
        /\ challenge.Argon2 = NewArgon2Challenge(load.salt, load.memory, load.iterations)

\* The search has passed over no counter that would do, and stops at one.
Searched ==
    /\ stage = "start" => counter = 0
    /\ stage = "hashcash" =>
          \A c \in 0..counter - 1 : ~Solves(load.random, challenge.HashCash, c)
    /\ stage \notin {"start", "hashcash"} => Solves(load.random, challenge.HashCash, counter)

Answered == stage \notin {"start", "hashcash", "argon2"} => response \in Solutions

Decided ==
    /\ issued # None => Issued /\ Passes
    /\ stage = "rejected" => ~Passes

SolveInv == PuzzlesKnown /\ Searched /\ Answered /\ Decided

LEMMA SolveInit == Init => SolveInv
BY DEF Init, SolveInv, PuzzlesKnown, Searched, Answered, Decided

\* Passes and Solutions change with what they are about.
LEMMA SolutionsStay ==
    UNCHANGED <<challenge, counter>> => (Solutions' = Solutions)
BY DEF Solutions

LEMMA PassesStays ==
    UNCHANGED <<load, challenge, response>> => (Passes' <=> Passes)
BY DEF Passes

LEMMA SolveStep == TypeOK /\ SolveInv /\ [Next]_vars => SolveInv'
<1> SUFFICES ASSUME TypeOK, SolveInv, [Next]_vars PROVE SolveInv'
  OBVIOUS
<1>1. counter \in Nat
  BY DEF TypeOK
<1>2. CASE HandleChallenge
  <2>1. stage = "start" /\ stage' = "hashcash" /\ UNCHANGED <<load, counter, response, issued>>
        /\ challenge'.HashCash = NewHashCashChallenge(load.random.nonce, load.bits)
        /\ challenge'.Argon2 = NewArgon2Challenge(load.salt, load.memory, load.iterations)
    BY <1>2 DEF HandleChallenge
  <2>2. counter = 0 /\ issued = None
    BY <2>1 DEF SolveInv, Searched, Decided, Issued
  <2>3. PuzzlesKnown'
    BY <2>1 DEF PuzzlesKnown
  <2>4. Searched'
    BY <2>1, <2>2 DEF Searched
  <2>5. Answered' /\ Decided'
    BY <2>1, <2>2 DEF Answered, Decided
  <2> QED
    BY <2>3, <2>4, <2>5 DEF SolveInv
<1>3. CASE NextCounter
  <2>1. stage = "hashcash" /\ ~Solves(load.random, challenge.HashCash, counter)
        /\ counter' = counter + 1 /\ UNCHANGED <<load, stage, challenge, response, issued>>
    BY <1>3 DEF NextCounter
  <2>2. issued = None
    BY <2>1 DEF SolveInv, Decided, Issued
  <2>3. PuzzlesKnown'
    BY <2>1 DEF SolveInv, PuzzlesKnown
  <2>4. Searched'
    <3>1. \A c \in 0..counter' - 1 : c \in 0..counter - 1 \/ c = counter
      BY <1>1, <2>1
    <3>2. \A c \in 0..counter - 1 : ~Solves(load.random, challenge.HashCash, c)
      BY <2>1 DEF SolveInv, Searched
    <3>3. \A c \in 0..counter' - 1 : ~Solves(load'.random, challenge'.HashCash, c)
      BY <2>1, <3>1, <3>2
    <3> QED
      BY <2>1, <3>3 DEF Searched
  <2>5. Answered' /\ Decided'
    BY <2>1, <2>2 DEF Answered, Decided
  <2> QED
    BY <2>3, <2>4, <2>5 DEF SolveInv
<1>4. CASE solveHashCash
  <2>1. stage = "hashcash" /\ Solves(load.random, challenge.HashCash, counter)
        /\ stage' = "argon2" /\ UNCHANGED <<load, challenge, counter, response, issued>>
    BY <1>4 DEF solveHashCash
  <2>2. issued = None
    BY <2>1 DEF SolveInv, Decided, Issued
  <2>3. PuzzlesKnown'
    BY <2>1 DEF SolveInv, PuzzlesKnown
  <2>4. Searched'
    BY <2>1 DEF Searched
  <2>5. Answered' /\ Decided'
    BY <2>1, <2>2 DEF Answered, Decided
  <2> QED
    BY <2>3, <2>4, <2>5 DEF SolveInv
<1>5. CASE Respond
  <2>1. stage = "argon2" /\ response' \in Solutions /\ stage' = "verify"
        /\ UNCHANGED <<load, challenge, counter, issued>>
    BY <1>5 DEF Respond
  <2>2. issued = None
    BY <2>1 DEF SolveInv, Decided, Issued
  <2>3. PuzzlesKnown'
    BY <2>1 DEF SolveInv, PuzzlesKnown
  <2>4. Searched'
    <3>1. Solves(load.random, challenge.HashCash, counter)
      BY <2>1 DEF SolveInv, Searched
    <3> QED
      BY <2>1, <3>1 DEF Searched
  <2>5. Answered'
    <3>1. Solutions' = Solutions
      BY <2>1, SolutionsStay
    <3> QED
      BY <2>1, <3>1 DEF Answered
  <2>6. Decided'
    BY <2>1, <2>2 DEF Decided
  <2> QED
    BY <2>3, <2>4, <2>5, <2>6 DEF SolveInv
<1>6. ASSUME stage \notin {"start", "hashcash", "argon2"},
             stage' \notin {"start", "hashcash", "argon2"},
             UNCHANGED <<load, challenge, counter, response>>
      PROVE  PuzzlesKnown' /\ Searched' /\ Answered'
  <2>1. PuzzlesKnown'
    BY <1>6 DEF SolveInv, PuzzlesKnown
  <2>2. Searched'
    <3>1. Solves(load.random, challenge.HashCash, counter)
      BY <1>6 DEF SolveInv, Searched
    <3> QED
      BY <1>6, <3>1 DEF Searched
  <2>3. Answered'
    <3>1. Solutions' = Solutions
      BY <1>6, SolutionsStay
    <3> QED
      BY <1>6, <3>1 DEF SolveInv, Answered
  <2> QED
    BY <2>1, <2>2, <2>3
<1>7. CASE HandleVerify
  <2>1. stage = "verify" /\ Passes /\ stage' = "token"
        /\ UNCHANGED <<load, challenge, counter, response>>
    BY <1>7 DEF HandleVerify
  <2>2. Passes'
    BY <2>1, PassesStays
  <2>3. Decided'
    BY <2>1, <2>2 DEF Decided, Issued
  <2> QED
    BY <1>6, <2>1, <2>3 DEF SolveInv
<1>8. CASE HandleVerifyFails
  <2>1. stage = "verify" /\ ~Passes /\ stage' = "rejected"
        /\ UNCHANGED <<load, challenge, counter, response, issued>>
    BY <1>8 DEF HandleVerifyFails
  <2>2. ~Passes'
    BY <2>1, PassesStays
  <2>3. issued = None
    BY <2>1 DEF SolveInv, Decided, Issued
  <2>4. Decided'
    BY <2>1, <2>2, <2>3 DEF Decided
  <2> QED
    BY <1>6, <2>1, <2>4 DEF SolveInv
<1>9. CASE Present \/ HandleSiteverify
  <2>1. stage \in {"token", "presented"} /\ stage' \in {"presented", "done"}
        /\ UNCHANGED <<load, challenge, counter, response, issued>>
    BY <1>9 DEF Present, HandleSiteverify
  <2>2. Passes' <=> Passes
    BY <2>1, PassesStays
  <2>3. Decided'
    BY <2>1, <2>2 DEF SolveInv, Decided, Issued
  <2> QED
    BY <1>6, <2>1, <2>3 DEF SolveInv
<1>10. CASE UNCHANGED vars
  <2>1. UNCHANGED <<load, stage, challenge, counter, response, issued>>
    BY <1>10 DEF vars
  <2>2. Solutions' = Solutions /\ (Passes' <=> Passes)
    BY <2>1, SolutionsStay, PassesStays
  <2>3. PuzzlesKnown' /\ Searched'
    BY <2>1 DEF SolveInv, PuzzlesKnown, Searched
  <2>4. Answered' /\ Decided'
    BY <2>1, <2>2 DEF SolveInv, Answered, Decided, Issued
  <2> QED
    BY <2>3, <2>4 DEF SolveInv
<1> QED
  BY <1>2, <1>3, <1>4, <1>5, <1>7, <1>8, <1>9, <1>10 DEF Next

\* What an answer can be, as far as the property tells.
LEMMA SolutionsAre ==
    ASSUME counter \in Nat, NEW s \in Solutions
    PROVE  /\ \E c \in Nat : s.hashcash \in {Counter(c), Tail(Counter(c))}
           /\ s.byWidget => s.hashcash = Counter(counter) /\ s.argon2 = solveArgon2(challenge.Argon2)
<1> DEFINE found == bytesToHex(uint64BE(counter))
           right == solveArgon2(challenge.Argon2)
           A == {right, [right EXCEPT !.length = @ - 1], NoResult}
                  \cup {solveArgon2([challenge.Argon2 EXCEPT !.Iterations = @ + 1])}
           H == {found, Tail(found)} \cup {bytesToHex(uint64BE(c)) : c \in 0..2}
<1>1. \/ s \in [hashcash: H, argon2: A, byWidget: {FALSE}]
      \/ s = [hashcash |-> found, argon2 |-> right, byWidget |-> TRUE]
  BY DEF Solutions
<1>2. \A h \in H : \E c \in Nat : h \in {Counter(c), Tail(Counter(c))}
  <2>1. 0..2 \subseteq Nat
    OBVIOUS
  <2> QED
    BY <2>1 DEF Counter
<1>3. found \in H /\ found = Counter(counter)
  BY DEF Counter
<1> HIDE DEF H, A, found, right
<1>4. CASE s \in [hashcash: H, argon2: A, byWidget: {FALSE}]
  BY <1>2, <1>4
<1>5. CASE s = [hashcash |-> found, argon2 |-> right, byWidget |-> TRUE]
  BY <1>2, <1>3, <1>5 DEF right
<1> QED
  BY <1>1, <1>4, <1>5

\* The server accepts the result that the widget computes and no other.
LEMMA ResultsAgree ==
    ASSUME NEW salt, NEW memory, NEW iterations, NEW ch, NEW result,
           ch = NewArgon2Challenge(salt, memory, iterations)
    PROVE  VerifyArgon2(ch, result) <=> result = solveArgon2(ch)
<1>1. ch.KeyLength = 32
  BY DEF NewArgon2Challenge
<1>2. solveArgon2(ch).length = ch.KeyLength
  BY DEF solveArgon2, IDKey
<1> QED
  BY <1>2 DEF VerifyArgon2, solveArgon2

LEMMA SolutionsFollow == TypeOK /\ SolveInv => SolutionAccepted
<1> SUFFICES ASSUME TypeOK, SolveInv PROVE SolutionAccepted
  OBVIOUS
<1>1. LoadOK(load) /\ counter \in Nat
  BY DEF TypeOK
<1> DEFINE hc == challenge.HashCash
           ar == challenge.Argon2
<1>2. ASSUME stage # "start", NEW c \in Nat
      PROVE  /\ Solves(load.random, hc, c) <=> Worked(Counter(c))
             /\ VerifyHashCash(load.random, hc, Counter(c)) <=> Worked(Counter(c))
  <2>1. hc = NewHashCashChallenge(load.random.nonce, load.bits)
    BY <1>2 DEF SolveInv, PuzzlesKnown
  <2> HIDE DEF hc
  <2> QED
    BY <1>1, <2>1, WorkIsFound
<1>3. ASSUME stage # "start", NEW result
      PROVE  VerifyArgon2(ar, result) <=> result = solveArgon2(ar)
  <2>1. ar = NewArgon2Challenge(load.salt, load.memory, load.iterations)
    BY <1>3 DEF SolveInv, PuzzlesKnown
  <2> HIDE DEF ar
  <2> QED
    BY <2>1, ResultsAgree
<1>4. ASSUME stage \notin {"start", "hashcash", "argon2"}
      PROVE  VerifyHashCash(load.random, hc, response.hashcash) <=> Worked(response.hashcash)
  <2>1. response \in Solutions
    BY <1>4 DEF SolveInv, Answered
  <2>2. PICK c \in Nat : response.hashcash \in {Counter(c), Tail(Counter(c))}
    BY <1>1, <2>1, SolutionsAre
  <2>3. CASE response.hashcash = Counter(c)
    BY <1>2, <1>4, <2>3
  <2>4. CASE response.hashcash = Tail(Counter(c))
    BY <2>4, CutShort
  <2> QED
    BY <2>2, <2>3, <2>4
<1>5. ASSUME stage = "rejected"
      PROVE  /\ ~response.byWidget
             /\ Worked(response.hashcash) =>
                    response.argon2 \notin {NoResult, solveArgon2(ar)}
  <2>1. ~Passes /\ response \in Solutions /\ Solves(load.random, hc, counter)
    BY <1>5 DEF SolveInv, Decided, Answered, Searched
  <2>2. Worked(response.hashcash) => response.argon2 \notin {NoResult, solveArgon2(ar)}
    BY <1>3, <1>4, <1>5, <2>1 DEF Passes
  <2>3. ~response.byWidget
    <3> SUFFICES ASSUME response.byWidget PROVE FALSE
      OBVIOUS
    <3>1. response.hashcash = Counter(counter) /\ response.argon2 = solveArgon2(ar)
      BY <1>1, <2>1, SolutionsAre
    <3>2. Worked(response.hashcash)
      BY <1>1, <1>2, <1>5, <2>1, <3>1
    <3> QED
      BY <2>2, <3>1, <3>2
  <2> QED
    BY <2>2, <2>3
<1>6. ASSUME issued # None
      PROVE  /\ Worked(response.hashcash)
             /\ response.argon2 \in {NoResult, solveArgon2(ar)}
  <2>1. Issued /\ Passes
    BY <1>6 DEF SolveInv, Decided
  <2>2. stage \notin {"start", "hashcash", "argon2"} /\ stage # "start"
    BY <2>1 DEF Issued
  <2> QED
    BY <1>3, <1>4, <2>1, <2>2 DEF Passes
<1>7. ASSUME stage = "hashcash", NEW c \in 0..counter - 1 PROVE ~Worked(bytesToHex(uint64BE(c)))
  <2>1. ~Solves(load.random, hc, c)
    BY <1>7 DEF SolveInv, Searched
  <2>2. c \in Nat /\ stage # "start"
    BY <1>1, <1>7
  <2>3. ~Worked(Counter(c))
    BY <1>2, <2>1, <2>2
  <2> QED
    BY <2>3 DEF Counter
<1> QED
  BY <1>5, <1>6, <1>7 DEF SolutionAccepted

\* The server signs exactly when the first proof of work is done and the
\* second is done or left out, so for the widget always; and the widget's
\* search finds the first counter that does.
THEOREM SolutionsServed == Spec => []SolutionAccepted
<1>1. Init => SolveInv
  BY SolveInit
<1>2. TypeOK /\ SolveInv /\ [Next]_vars => SolveInv'
  BY SolveStep
<1>3. TypeOK /\ SolveInv => SolutionAccepted
  BY SolutionsFollow
<1> QED
  BY <1>1, <1>2, <1>3, TypeCorrect, PTL DEF Spec
=============================================================================
