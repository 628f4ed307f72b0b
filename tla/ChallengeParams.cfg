\* Every seed over a few bytes, a tail of three, every bucket and edge ranges.
SPECIFICATION Spec
CONSTANTS
    Ranges <- MCRanges
    ByteSize = 256
    WordSize <- MCWordSize
    Bytes = {0, 1, 10, 255}
    Words <- MCWords
    TailLength = 3
    ShortSeed = ShortSeed
    PoolLength = 10
    IpUnit = 5
    SubnetUnit = 2
    BurnDivisor = 10
INVARIANTS
    TypeOK
    WithinRanges
    ProbesDistinct
    EnoughProbes
    SelectsInOrder
CHECK_DEADLOCK FALSE
