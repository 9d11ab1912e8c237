SPECIFICATION Spec
CHECK_DEADLOCK FALSE
CONSTANTS
    Rule <- MCRuleMasked
    Filters <- MCMasked
    Bidir <- MCBidirMasked
    Rate <- MCRateMasked
    Reverse <- MCReverse
    Packet <- MCPacket
    Buckets = 2
    FlowIds = {2, 3}
    Capacity = 2
    UseIPv6 = FALSE
    MaxFaults = 0
    MaxDebt = 1
INVARIANT
    WantedIsServed
