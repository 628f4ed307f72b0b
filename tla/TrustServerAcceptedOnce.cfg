\* AcceptedOnce alone, on the instance of TrustServerReplay.cfg.
SPECIFICATION Spec
CONSTANTS
    Handler = {h1, h2}
    ChallengeID = {c1}
    Nonce = {n1}
    IP = {ip1}
    Site = {sk}
    TestSiteKey = sk
    TheSubnet = net
    Subnet <- MCSubnet
    SubnetOf <- MCSubnetOf
    Reputation <- MCReputation
    Absent = Absent
    IpUnit = 50
    SubnetUnit = 25
    BurnDivisor = 1
    Window = 2
    ProbeWindow = 1
    ChallengeTTL = 1
    TokenTTL = 2
    HourLength = 2
    SweepPeriod = 1
    MaxHandlerTime = 2
    MaxTime = 5
INVARIANT AcceptedOnce
SYMMETRY Symmetry
