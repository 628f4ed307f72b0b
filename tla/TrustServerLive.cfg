\* Two handlers, one challenge, one nonce, the clock stopping after two firings.
SPECIFICATION Spec
CONSTANTS
    Handler = {h1, h2}
    ChallengeID = {c1}
    Nonce = {n1}
    IP = {ip1}
    Site = {sk}
    TestSiteKey = sk
    TheSubnet = net
    Subnet <- MCSubnet
    SubnetOf <- MCSubnetOf
    Reputation <- MCReputation
    Absent = Absent
    IpUnit = 50
    SubnetUnit = 25
    BurnDivisor = 1
    Window = 2
    ProbeWindow = 1
    ChallengeTTL = 1
    TokenTTL = 1
    HourLength = 2
    SweepPeriod = 1
    MaxHandlerTime = 1
    MaxTime = 2
PROPERTIES
    EveryRequestAnswered
    ExpiredDropped
