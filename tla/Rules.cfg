CONSTANT Documents <- MCDocuments
CONSTANT DefFiles <- MCDefFiles
CONSTANT ValFile <- MCValFile
CONSTANT TmShift <- MCTmShift
CONSTANT Resolvable = {"host"}
CONSTANT MaxFilterLen = 32
CONSTANT MaxFilterSet = 16
CONSTANT DoneListSize = 1
CONSTANT Top = 4
CONSTANT MaxRequests = 2
CONSTANT MaxTime = 4
SPECIFICATION Spec
INVARIANT FindsOwn
INVARIANT NoneLost
INVARIANT WindowKept
INVARIANT ContentKept
INVARIANT InfoAgrees
CHECK_DEADLOCK FALSE
