\* One caller and the cleanup, one address, two requests, the clock stopping at MaxTime.
SPECIFICATION Spec
CONSTANTS
    Thread = {th1}
    First = ip1
    Second = ip2
    TheSubnet = net
    IP = {ip1}
    Site = {sk}
    Subnet <- MCSubnet
    SubnetOf <- MCSubnetOf
    Reputation <- MCReputation
    IpUnit = 100
    SubnetUnit = 50
    BurnDivisor = 1
    Window = 1
    ProbeWindow = 1
    MaxTime = 3
    MaxRecords = 2
    MaxBurns = 1
PROPERTY
    OldRequestsDropped
