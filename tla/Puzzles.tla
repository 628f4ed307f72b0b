-------------------------------- MODULE Puzzles --------------------------------
(***************************************************************************)
(* The two proofs of work of a challenge, as the server makes and checks   *)
(* them (internal/challenge) and as the widget solves them (widget.js).    *)
(* The two sides have counters, zero bits and parameters of their own.     *)
(***************************************************************************)
EXTENDS Wire, FiniteSetsExt

CONSTANTS
    nonceBytes, \* bytes of a challenge nonce, 16
    digestBytes \* bytes of a digest, 32

ASSUME PuzzlesAssumption == nonceBytes \in Nat \ {0} /\ digestBytes \in Nat \ {0}

Digest == [1..digestBytes -> Byte]

(***************************************************************************)
(* SHA-256 is an arbitrary function.  "random" is the part of it that a    *)
(* challenge meets: the digests of its nonce followed by each of the first *)
(* counters.  A later counter is given a digest of zeros, so that there is *)
(* always a solution, and any other text one without a leading zero.       *)
(***************************************************************************)
sha256(random, data) ==
    LET counter == Uint64(SubSeq(data, nonceBytes + 1, nonceBytes + 8))
    IN  IF Len(data) # nonceBytes + 8 \/ SubSeq(data, 1, nonceBytes) # random.nonce
        THEN [i \in 1..digestBytes |-> ByteSize - 1]
        ELSE IF counter < Len(random.digests) THEN random.digests[counter + 1]
        ELSE [i \in 1..digestBytes |-> 0]

\* Argon2id has an opaque result: one for each choice of arguments, as
\* long as it is asked to be.
IDKey(password, salt, time, memory, threads, keyLen) ==
    [of |-> <<password, salt, time, memory, threads>>, length |-> keyLen]

NoResult == [of |-> <<>>, length |-> 0]

-----------------------------------------------------------------------------
(***************************************************************************)
(* The server.                                                             *)
(***************************************************************************)
NewHashCashChallenge(nonce, bits) == [Nonce |-> bytesToHex(nonce), DifficultyBits |-> bits]

NewArgon2Challenge(nonce, memory, iterations) ==
    [ Nonce |-> bytesToHex(nonce), Memory |-> memory, Iterations |-> iterations,
      Parallelism |-> 1, KeyLength |-> 32 ]

\* Eight for every zero byte up to the first other one, and the zeros it
\* begins with.
ZeroBits(byte) == Cardinality({k \in 0..ByteBits - 1 : byte < 2 ^ k})

countLeadingZeroBits(b) ==
    LET nonzero == {i \in DOMAIN b : b[i] # 0}
    IN  IF nonzero = {} THEN ByteBits * Len(b)
        ELSE ByteBits * (Min(nonzero) - 1) + ZeroBits(b[Min(nonzero)])

checkHashCash(random, nonce, counter, diffBits) ==
    countLeadingZeroBits(sha256(random, nonce \o uint64BE(counter))) >= diffBits

VerifyHashCash(random, ch, solution) ==
    LET bytes == hexToBytes(solution)
    IN  /\ Decodes(solution)
        /\ Len(bytes) = 8
        /\ checkHashCash(random, hexToBytes(ch.Nonce), Uint64(bytes), ch.DifficultyBits)

VerifyArgon2(ch, result) ==
    /\ result.length = ch.KeyLength
    /\ result = IDKey("sovereign-trust-challenge", hexToBytes(ch.Nonce),
                      ch.Iterations, ch.Memory, ch.Parallelism, ch.KeyLength)

-----------------------------------------------------------------------------
(***************************************************************************)
(* The widget.  Its count goes through the bits one by one.                *)
(***************************************************************************)
Bit(bytes, k) ==
    (bytes[k \div ByteBits + 1] \div 2 ^ (ByteBits - 1 - (k % ByteBits))) % 2

leadingZeroBits_FirstByte(bytes) == ZeroBits(bytes[1])
leadingZeroBits(bytes) ==
    LET all == ByteBits * Len(bytes)
    IN  Min({k \in 0..all - 1 : Bit(bytes, k) = 1} \cup {all})

\* One turn of the loop of solveHashCash.
Solves(random, ch, counter) ==
    LET data == hexToBytes(ch.Nonce) \o uint64BE(counter)
    IN  leadingZeroBits(sha256(random, data)) >= ch.DifficultyBits

\* hash-wasm takes its arguments by name.
solveArgon2_Swapped(ch) ==
    IDKey("sovereign-trust-challenge", hexToBytes(ch.Nonce),
          ch.Memory, ch.Iterations, ch.Parallelism, ch.KeyLength)
solveArgon2(ch) ==
    IDKey("sovereign-trust-challenge", hexToBytes(ch.Nonce),
          ch.Iterations, ch.Memory, ch.Parallelism, ch.KeyLength)
=============================================================================
