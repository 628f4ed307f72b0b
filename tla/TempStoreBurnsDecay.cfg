\* Two callers, one address, BurnsDecay alone.
SPECIFICATION Spec
CONSTANTS
    Thread = {th1, th2}
    First = ip1
    Second = ip2
    TheSubnet = net
    IP = {ip1}
    Site = {sk}
    Subnet <- MCSubnet
    SubnetOf <- MCSubnetOf
    Reputation <- MCReputation
    IpUnit = 100
    SubnetUnit = 50
    BurnDivisor = 1
    Window = 1
    ProbeWindow = 1
    MaxTime = 3
    MaxRecords = 2
    MaxBurns = 1
PROPERTY
    BurnsDecay
