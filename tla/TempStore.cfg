\* Two callers, two addresses of one subnet, two requests.
SPECIFICATION Spec
CONSTANTS
    Thread = {th1, th2}
    First = ip1
    Second = ip2
    TheSubnet = net
    IP <- MCIP
    Site = {sk}
    Subnet <- MCSubnet
    SubnetOf <- MCSubnetOf
    Reputation <- MCReputation
    IpUnit = 100
    SubnetUnit = 50
    BurnDivisor = 1
    Window = 1
    ProbeWindow = 1
    MaxTime = 3
    MaxRecords = 2
    MaxBurns = 1
INVARIANTS
    TypeOK
    WindowIntact
    ProbesAreLatest
PROPERTY
    ScoreWithinWindow
SYMMETRY Symmetry
