SPECIFICATION Spec
CONSTANTS
    f = f
    c1 = c1
    Client = {f, c1}
    FromFile = {f}
    StartIn <- MCStartIn
    StopIn <- MCStopIn
    Keepalive = 2
    Slow = 1
    MaxSignals <- MCMaxSignals
INVARIANT EarlyBounded
PROPERTIES ServedToEnd StopEnds
CHECK_DEADLOCK FALSE
