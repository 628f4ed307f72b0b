\* One token from key to verification, both clients.
SPECIFICATION Spec
CONSTANTS
    ByteBits = 6
    Bits = 12
    PublicE = 65537
    Components <- MCComponents
    Expansions <- MCExpansions
    Encodings <- MCEncodings
    Factors <- MCFactors
INVARIANTS
    TypeOK
    GeneratedKeysSign
    SignedTokensVerify
    Unlinkable
CHECK_DEADLOCK FALSE
