----------------------------- MODULE FlowIdSource -----------------------------
(***************************************************************************)
(* Class FlowIdSource under a user that follows the rule of its header:    *)
(* release only identifiers obtained by newId and not yet released.        *)
(***************************************************************************)
EXTENDS FlowIdPool, FiniteSets

\* The names tell this machine from its user's, whose theorems stand beside its own.
VARIABLES
    source,     \* the object's members num and freeIds
    lent,       \* the identifiers its user holds
    refused     \* the latest newId threw "No Flow Id number available"

sourceVars == << source, lent, refused >>

SourceInit ==
    /\ source = NewPool
    /\ lent = {}
    /\ refused = FALSE

\* newId() that returns an identifier.
NewId ==
    /\ CanIssue(source)
    /\ lent' = lent \cup {NextId(source)}
    /\ source' = AfterNew(source)
    /\ refused' = FALSE

\* newId() that throws; num and freeIds stay as they are.
NewIdThrows ==
    /\ ~CanIssue(source)
    /\ refused' = TRUE
    /\ UNCHANGED << source, lent >>

FreeId(id) ==
    /\ id \in lent
    /\ source' = AfterFree(source, id)
    /\ lent' = lent \ {id}
    /\ UNCHANGED refused

SourceNext == NewId \/ NewIdThrows \/ \E id \in FlowIds : FreeId(id)

SourceSpec == SourceInit /\ [][SourceNext]_sourceVars

-----------------------------------------------------------------------------
SourceOK ==
    /\ PoolOK(source)
    /\ lent \subseteq FlowIds
    /\ refused \in BOOLEAN

\* The mark and the free list account for every identifier: what lies below
\* the mark and is not queued is lent, and nothing else is.  This is what
\* "num--" in freeId could break while identifiers below the mark are queued.
Accounted == lent = InUse(source)

\* newId never hands out an identifier its user still holds, and it refuses
\* only when all Limit - 2 of them are out: freeId loses no capacity.
Allocator == INSTANCE IdAllocator WITH Ids <- FlowIds
Promise == Allocator!ASpec
=============================================================================
