\* One page, two handlers, two answers may be lost, the nonce forgotten, the server restarted twice.
SPECIFICATION SystemSpec
CONSTANTS
    Page = {p1}
    NonceOf <- MCNonceOf
    Nobody = Nobody
    MaxLosses = 2
    MaxRestarts = 2
    Handler = {h1, h2}
    ChallengeID = {c1}
    Nonce = {p1}
    IP = {ip1}
    Site = {sk}
    TestSiteKey = sk
    TheSubnet = net
    Subnet <- MCSubnet
    SubnetOf <- MCSubnetOf
    Reputation <- MCReputation
    Absent = Absent
    IpUnit = 50
    SubnetUnit = 25
    BurnDivisor = 1
    Window = 2
    ProbeWindow = 1
    ChallengeTTL = 1
    TokenTTL = 1
    HourLength = 2
    SweepPeriod = 1
    MaxHandlerTime = 1
    MaxTime = 4
INVARIANTS
    SystemTypeOK
    TokenIsGood
    DuplicateNeedsLoss
    AcceptedOncePerLoss
    FailsOnlyLate
SYMMETRY Symmetry
