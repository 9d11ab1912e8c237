------------------------------ MODULE FlowIdPool ------------------------------
(***************************************************************************)
(* The data structure behind class FlowIdSource: a high-water mark `num'   *)
(* and a FIFO list `freeIds' of identifiers that were given back below it. *)
(* The operators are the two methods of the class, as functions from the   *)
(* pool before the call to the pool after it.  QOSProcessor builds its     *)
(* source with unique = 0, so freeId always recycles, and the container    *)
(* idReserved is never filled, so the reservation loop of newId returns in *)
(* its first round.                                                        *)
(***************************************************************************)
EXTENDS Naturals, Sequences, SequencesExt

CONSTANT Limit          \* 4094 in the code: newId never lets num reach it

ASSUME LimitAssumption == Limit \in Nat /\ Limit > 1

FirstId == 2            \* num starts at 1 and is incremented before use
FlowIds == FirstId .. Limit - 1

\* The pool a new FlowIdSource object holds.
NewPool == [num |-> 1, freeIds |-> << >>]

CanIssue_MarkOnly(p) ==         \* mutant: the queue is not looked at
    p.num + 1 < Limit

\* newId() throws Error exactly when this is false.
CanIssue(p) == p.freeIds # << >> \/ p.num + 1 < Limit

\* The identifier newId() returns ...
NextId(p) == IF p.freeIds = << >> THEN p.num + 1 ELSE Head(p.freeIds)

\* ... and the pool it leaves behind.
AfterNew(p) ==
    IF p.freeIds = << >>
    THEN [num |-> p.num + 1, freeIds |-> << >>]
    ELSE [num |-> p.num, freeIds |-> Tail(p.freeIds)]

AfterFree_TopOnly(p, id) ==     \* mutant: identifiers below the mark are lost
    IF id = p.num THEN [p EXCEPT !.num = @ - 1] ELSE p

AfterFree_Both(p, id) ==        \* mutant: lowers the mark and queues as well
    [num |-> p.num - 1, freeIds |-> Append(p.freeIds, id)]

\* freeId(id): the topmost identifier lowers the mark, others are queued.
AfterFree(p, id) ==
    IF id = p.num
    THEN [num |-> p.num - 1, freeIds |-> p.freeIds]
    ELSE [num |-> p.num, freeIds |-> Append(p.freeIds, id)]

-----------------------------------------------------------------------------
\* The identifiers that are lent out, read off the pool itself.
InUse(p) == (FirstId .. p.num) \ ToSet(p.freeIds)

\* The shape every pool has whose users give back only what they hold.
PoolOK(p) ==
    /\ p = [num |-> p.num, freeIds |-> p.freeIds]
    /\ p.num \in 1 .. Limit - 1
    /\ p.freeIds \in Seq(FirstId .. p.num)
    /\ \A i, j \in 1 .. Len(p.freeIds) : p.freeIds[i] = p.freeIds[j] => i = j
=============================================================================
