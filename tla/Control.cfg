CONSTANTS
    c1 = c1
    c2 = c2
    a1 = a1
    a2 = a2
    u1 = u1
    lan = lan
    Client <- MCClient
    Address <- MCAddress
    User <- MCUser
    AddressOf <- MCAddressOf
    UserOf <- MCUserOf
    IPv4 <- MCIPv4
    Dns <- MCDns
    Starts <- MCStarts
    AccessLists <- MCAccessLists
    MayAsk <- MCMayAsk
    Leaving <- MCLeaving
    UseIPv6 = TRUE
    MaxConn = 2
    MaxEvents = 3
SPECIFICATION FairSpec
CHECK_DEADLOCK FALSE
INVARIANTS
    Watched
    WholePostsOnce
    PolicyKept
    PendingEvents
PROPERTY Answered
