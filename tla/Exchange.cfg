\* Bytes of two bits, hours of four seconds, every table entry's ends.
SPECIFICATION Spec
CONSTANTS
    ByteBits = 2
    Hour = 4
    sigLen = 2
    nonceBytes = 2
    digestBytes = 2
    Loads <- MCLoads
    Hosts <- MCHosts
INVARIANTS
    TypeOK
    SolutionAccepted
    TokenReadsBack
    PeersKeptApart
    ScoredByItsNetwork
CHECK_DEADLOCK FALSE
