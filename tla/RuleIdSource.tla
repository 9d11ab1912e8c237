----------------------------- MODULE RuleIdSource -----------------------------
(***************************************************************************)
(* Class RuleIdSource, which numbers the rules: a 16-bit counter that      *)
(* skips three reserved values.  RuleManager builds it with unique = 1,    *)
(* where freeId does nothing and only the counter matters; with unique =   *)
(* 0, the default of the constructor, freed identifiers are queued.        *)
(***************************************************************************)
EXTENDS Naturals, Sequences

CONSTANTS
    Top,        \* largest value of an unsigned short, 65535 in the code
    Unique      \* the constructor's argument

Reserved == {0, 1, Top}
RuleIds == (0 .. Top) \ Reserved

NewSource == [num |-> 0, freeIds |-> << >>]

\* The unsigned short k steps on, and the first such value nobody reserved.
Ahead(n, k) == (n + k) % (Top + 1)
NextNum(n) ==
    LET k == CHOOSE k \in 1 .. 4 : /\ Ahead(n, k) \notin Reserved
                                   /\ \A j \in 1 .. k - 1 : Ahead(n, j) \in Reserved
    IN  Ahead(n, k)

\* newId returns NewIdOf(src) and leaves AfterNewId(src).
NewIdOf(src) == IF src.freeIds = << >> THEN NextNum(src.num) ELSE Head(src.freeIds)
AfterNewId(src) ==
    IF src.freeIds = << >>
    THEN [src EXCEPT !.num = NextNum(@)]
    ELSE [src EXCEPT !.freeIds = Tail(@)]

\* With unique = 0 the counter goes down for every identifier, whichever it
\* is, and the identifier is queued as well.
AfterFreeId(src, id) ==
    IF Unique THEN src
    ELSE [num |-> (src.num + Top) % (Top + 1), freeIds |-> Append(src.freeIds, id)]
=============================================================================
