------------------------------ MODULE HtbService ------------------------------
(***************************************************************************)
(* What the htb module is to QOSProcessor: a budget of bandwidth and a set *)
(* of flow classes.  A setup that succeeds has its class and its rate; one *)
(* that fails may leave a class without a holder; a removal gives back     *)
(* both or neither.  QOSProcessor is modelled over exactly these effects.  *)
(***************************************************************************)
EXTENDS Integers

CONSTANTS
    Ids,        \* flow identifiers
    Rates       \* rates a flow can ask for

VARIABLES
    held,       \* flows that are set up: [id, rate]
    classes,    \* flow classes of the kernel
    avail       \* bandwidth_available

vars == << held, classes, avail >>

Holder == [id : Ids, rate : Rates]

Init ==
    /\ held = {} /\ classes = {}
    /\ avail = 0

Provide ==
    /\ held = {} /\ classes = {}
    /\ avail' \in Int
    /\ UNCHANGED << held, classes >>

SetUp(f) ==
    /\ \A g \in held : g.id # f.id
    /\ held' = held \cup {f}
    /\ classes' = classes \cup {f.id}
    /\ avail' = avail - f.rate

\* The class exists already, or will not be removed.
Litter(id) ==
    /\ classes' = classes \cup {id}
    /\ UNCHANGED << held, avail >>

TakeDown(f) ==
    /\ f \in held
    /\ held' = held \ {f}
    /\ classes' = classes \ {f.id}
    /\ avail' = avail + f.rate

Abandon(f) ==
    /\ f \in held
    /\ held' = held \ {f}
    /\ UNCHANGED << classes, avail >>

\* The module goes: with the queueing discipline, without the discipline but with
\* its budget, or with neither.
Close ==
    /\ held' = {}
    /\ classes' \in {{}, classes}
    /\ avail' = 0 \/ UNCHANGED << classes, avail >>

Next ==
    \/ Provide
    \/ \E f \in Holder : SetUp(f) \/ TakeDown(f) \/ Abandon(f)
    \/ \E id \in Ids : Litter(id)
    \/ Close

Spec == Init /\ [][Next]_vars
=============================================================================
