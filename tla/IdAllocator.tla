----------------------------- MODULE IdAllocator ------------------------------
(***************************************************************************)
(* What the comment of class FlowIdSource promises, and nothing of how: a  *)
(* pool lends any identifier that is currently not in use, takes back one  *)
(* that is, and refuses only when every identifier is lent.                *)
(***************************************************************************)
CONSTANT Ids

VARIABLES
    lent,       \* identifiers obtained by newId and not yet given to freeId
    refused     \* the latest call of newId threw

allocatorVars == << lent, refused >>

AInit == lent = {} /\ refused = FALSE

Lend == \E id \in Ids \ lent :
    /\ lent' = lent \cup {id}
    /\ refused' = FALSE

TakeBack == \E id \in lent :
    /\ lent' = lent \ {id}
    /\ UNCHANGED refused

Refuse ==
    /\ lent = Ids
    /\ refused' = TRUE
    /\ UNCHANGED lent

ANext == Lend \/ TakeBack \/ Refuse

ASpec == AInit /\ [][ANext]_allocatorVars
=============================================================================
