CONSTANT Rule <- MCRule
CONSTANT Module <- MCModule
CONSTANT Loadable <- MCLoadable
CONSTANT Actions <- MCActions
CONSTANT Htb = "htb"
CONSTANT Capacity = 3
CONSTANT Limit = 5
CONSTANT MaxFaults = 2
SPECIFICATION FairSpec
INVARIANT TypeOK
INVARIANT FlowIdsDistinct
INVARIANT ActiveFlowsInKernel
INVARIANT LeaksBounded
INVARIANT OrphansBounded
INVARIANT BandwidthConserved
INVARIANT ModulesPinned
INVARIANT NothingHalfInstalled
PROPERTY CallsEnd
PROPERTY ShutdownEnds
CHECK_DEADLOCK FALSE
