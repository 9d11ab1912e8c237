SPECIFICATION Spec
CHECK_DEADLOCK FALSE
CONSTANTS
    Rule <- MCRule
    Filters <- MCFilters
    Bidir <- MCBidir
    Rate <- MCRate
    Reverse <- MCReverse
    Packet <- MCPacket
    Buckets = 2
    FlowIds = {2, 3, 4}
    Capacity = 3
    UseIPv6 = FALSE
    MaxFaults = 2
    MaxDebt = 1
INVARIANTS
    ClassifiedRight
    LeftoversBounded
PROPERTY
    Service
