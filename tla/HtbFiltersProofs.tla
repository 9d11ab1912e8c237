--------------------------- MODULE HtbFiltersProofs ---------------------------
(***************************************************************************)
(* For any rules, identifiers, capacity and number of refused requests the *)
(* htb module keeps its type and implements the service of HtbService,     *)
(* leaves no more behind than was refused, and puts packets into the       *)
(* classes of the rules that ask for them.  The identifier of a setup in   *)
(* progress belongs to no flow, and that of a removal in progress to the   *)
(* flow being removed; the rest follows.                                   *)
(***************************************************************************)
EXTENDS HtbFilters, FiniteSetTheorems, SequenceTheorems, WellFoundedInduction, TLAPS

Busy ==
    [op : {"class", "filter", "remove", "unclass"}, rule : Rule, id : FlowIds,
     probe : BOOLEAN, again : BOOLEAN]

Flow == [rule : Rule, id : FlowIds]

\* The kernel's objects.
KernelInv ==
    /\ minors \subseteq FlowIds \cup {RootClass, DefaultClass}
    /\ links \subseteq tables /\ tables \subseteq {Hashed, Unhashed}
    /\ \A g \in filters :
         /\ g.table \in tables
         /\ g.bucket \in IF g.table = Hashed THEN 0 .. Buckets - 1 ELSE {0}
         /\ g.node \in FlowIds

\* The module's flows and the call in progress.
CallInv ==
    /\ flows \subseteq Flow
    /\ \A f, g \in flows : f.id = g.id => f = g
    /\ call \in {[op |-> "idle"], [op |-> "root"]} \/ call \in Busy
    /\ call.op = "root" => flows = {} /\ run # "new"
    /\ call.op \in {"class", "filter"} => \A f \in flows : f.id # call.id
    /\ call.op = "filter" => call.id \in minors
    /\ call.op \in {"remove", "unclass"} => Current \in flows
    /\ run = "new" => /\ flows = {} /\ minors = {} /\ filters = {}
                     /\ call = [op |-> "idle"]

CountInv ==
    /\ avail \in Int
    /\ run \in {"new", "up", "closing", "down"}
    /\ faults \in 0 .. MaxFaults

IInv == KernelInv /\ CallInv /\ CountInv

-----------------------------------------------------------------------------

\* The filter of a rule lies in a bucket its table has (create_hask_key).
LEMMA FilterPlace ==
    ASSUME NEW f \in Flow
    PROVE  /\ FilterOf(f).table = TableOf(f.rule)
           /\ FilterOf(f).node = f.id
           /\ FilterOf(f).bucket \in
                IF FilterOf(f).table = Hashed THEN 0 .. Buckets - 1 ELSE {0}
<1>1. f.rule \in Rule
  BY DEF Flow
<1>2. CASE SourceFilters(f.rule) = {}
  BY <1>2 DEF FilterOf, TableOf, BucketOf, Hashed, Unhashed
<1>3. CASE SourceFilters(f.rule) # {}
  <2>1. Source(f.rule) \in Nat /\ Buckets \in Nat \ {0}
    BY <1>1, <1>3, SourceAssumption
  <2>2. Source(f.rule) % Buckets \in 0 .. Buckets - 1
    BY <2>1
  <2>. QED
    BY <1>3, <2>2 DEF FilterOf, TableOf, BucketOf
<1>. QED
  BY <1>2, <1>3

LEMMA KernelInit == Init => KernelInv
  BY DEF Init, KernelInv

LEMMA CallInit == Init => CallInv
  BY DEF Init, CallInv

LEMMA CountInit == Init => CountInv
  BY FiltersAssumption DEF Init, CountInv

-----------------------------------------------------------------------------
\* A call in progress is one of Busy, and its rule and identifier a flow.
LEMMA CurrentIsFlow ==
    ASSUME CallInv, call.op \notin {"idle", "root"}
    PROVE  call \in Busy /\ Current \in Flow
<1>1. call \in Busy
  BY DEF CallInv
<1>. QED
  BY <1>1 DEF Busy, Current, Flow

\* What a setup or a removal asks of the kernel keeps the kernel's objects in
\* place.
LEMMA KernelStep == IInv /\ [Next]_vars => KernelInv'
<1>. SUFFICES ASSUME IInv, [Next]_vars PROVE KernelInv'
  OBVIOUS
<1>. USE DEF IInv, KernelInv
<1>1. CASE InitModule
  <2>1. minors' \subseteq FlowIds \cup {RootClass, DefaultClass}
    BY <1>1 DEF InitModule
  <2>2. links' \subseteq tables' /\ tables' \subseteq {Hashed, Unhashed}
    <3>1. CASE UseIPv6
      BY <1>1, <3>1 DEF InitModule
    <3>2. CASE ~UseIPv6
      BY <1>1, <3>2 DEF InitModule, HashConfiguration, TableSets, LinkSets
    <3>. QED
      BY <3>1, <3>2
  <2>3. \A g \in filters' : g \in filters /\ tables \subseteq tables'
    <3>1. filters = {}
      BY <1>1 DEF InitModule, CallInv
    <3>. QED
      BY <1>1, <3>1 DEF InitModule
  <2>. QED
    BY <2>1, <2>2, <2>3
<1>2. CASE InitFails
  BY <1>2 DEF InitFails, RootOnly
<1>3. ASSUME NEW r \in Rule, NEW id \in FlowIds, Check(r, id) \/ Activate(r, id)
      PROVE  KernelInv'
  BY <1>3 DEF Check, Activate
<1>4. CASE AddClass
  <2>1. call.id \in FlowIds
    BY <1>4, CurrentIsFlow DEF AddClass, Busy
  <2>. QED
    BY <1>4, <2>1 DEF AddClass
<1>5. CASE AddClassFails
  BY <1>5 DEF AddClassFails
<1>6. CASE AddFilter
  <2>1. Current \in Flow /\ Current.rule = call.rule /\ Current.id \in FlowIds
    BY <1>6, CurrentIsFlow DEF AddFilter, Current, Flow
  <2>2. /\ FilterOf(Current).table \in tables
        /\ FilterOf(Current).node \in FlowIds
        /\ FilterOf(Current).bucket \in
             IF FilterOf(Current).table = Hashed THEN 0 .. Buckets - 1 ELSE {0}
    BY <1>6, <2>1, FilterPlace DEF AddFilter
  <2>3. \A g \in filters' : g \in filters \/ g = FilterOf(Current)
    BY <1>6 DEF AddFilter, Filed
  <2>. QED
    BY <1>6, <2>2, <2>3 DEF AddFilter
<1>7. CASE AddFilterFails
  BY <1>7 DEF AddFilterFails
<1>8. ASSUME NEW f \in flows, Remove(f) PROVE KernelInv'
  BY <1>8 DEF Remove
<1>9. CASE DeleteFilter
  BY <1>9 DEF DeleteFilter
<1>10. CASE DeleteFilterFails
  BY <1>10 DEF DeleteFilterFails
<1>11. CASE CheckAborts
  BY <1>11 DEF CheckAborts
<1>12. CASE DeleteClass
  BY <1>12 DEF DeleteClass
<1>13. CASE DeleteClassFails
  BY <1>13 DEF DeleteClassFails
<1>14. CASE DeleteDefault \/ DestroyLeaves
  BY <1>14 DEF DeleteDefault, DestroyLeaves
<1>15. CASE DeleteRoot
  BY <1>15 DEF DeleteRoot, Emptied
<1>16. CASE UNCHANGED vars
  BY <1>16 DEF vars
<1>. QED
  BY <1>1, <1>2, <1>3, <1>4, <1>5, <1>6, <1>7, <1>8, <1>9, <1>10, <1>11, <1>12,
     <1>13, <1>14, <1>15, <1>16 DEF Next

\* A failed removal forgets its flow or starts again.
LEMMA ThrownStep ==
    ASSUME CallInv, call.op \in {"remove", "unclass"}, Thrown, run # "new"
    PROVE  /\ flows' \subseteq flows
           /\ call' = [op |-> "idle"] \/ (call' \in Busy /\ call'.op = "remove"
                                         /\ call'.rule = call.rule
                                         /\ call'.id = call.id /\ flows' = flows)
           /\ run' # "new"
<1>1. call \in Busy
  BY CurrentIsFlow
<1>2. CASE call.probe /\ ~call.again
  <2>1. call' = [call EXCEPT !.op = "remove", !.again = TRUE]
    BY <1>2 DEF Thrown
  <2>2. /\ call' \in Busy /\ call'.op = "remove"
        /\ call'.rule = call.rule /\ call'.id = call.id
    BY <1>1, <2>1 DEF Busy
  <2>. QED
    BY <1>2, <2>2 DEF Thrown
<1>3. CASE ~(call.probe /\ ~call.again)
  BY <1>3 DEF Thrown, Returns
<1>. QED
  BY <1>2, <1>3

LEMMA CallStep == IInv /\ [Next]_vars => CallInv'
<1>. SUFFICES ASSUME IInv, [Next]_vars PROVE CallInv'
  OBVIOUS
<1>. USE DEF IInv, CallInv
<1>1. CASE InitModule
  BY <1>1 DEF InitModule, Current
<1>2. CASE InitFails
  BY <1>2 DEF InitFails, RootOnly, Current
<1>3. ASSUME NEW r \in Rule, NEW id \in FlowIds, CanUse(id),
             Check(r, id) \/ Activate(r, id)
      PROVE  CallInv'
  <2>1. PICK probe \in BOOLEAN :
             call' = [op |-> "class", rule |-> r, id |-> id, probe |-> probe,
                      again |-> FALSE]
    BY <1>3 DEF Check, Activate
  <2>2. call' \in Busy /\ call'.op = "class" /\ call'.id = id
    BY <2>1 DEF Busy
  <2>3. flows' = flows /\ run' = run /\ run = "up"
    BY <1>3 DEF Check, Activate
  <2>4. \A f \in flows' : f.id # call'.id
    BY <1>3, <2>2, <2>3 DEF CanUse
  <2>. QED
    BY <2>2, <2>3, <2>4
<1>4. CASE AddClass
  <2>1. call \in Busy
    BY <1>4, CurrentIsFlow DEF AddClass
  <2>2. call' \in Busy /\ call'.op = "filter" /\ call'.id = call.id
    BY <1>4, <2>1 DEF AddClass, Busy
  <2>. QED
    BY <1>4, <2>2 DEF AddClass
<1>5. CASE AddClassFails
  BY <1>5 DEF AddClassFails, Returns
<1>6. CASE AddFilter
  <2>1. call \in Busy /\ Current \in Flow /\ Current.id = call.id
    BY <1>6, CurrentIsFlow DEF AddFilter, Current
  <2>2. flows' = flows \cup {Current} /\ run' = run
    BY <1>6 DEF AddFilter
  <2>3. call' = [op |-> "idle"] \/ (call' \in Busy /\ call'.op = "remove" /\ Current' = Current)
    BY <1>6, <2>1 DEF AddFilter, Returns, Busy, Current
  <2>4. \A f, g \in flows' : f.id = g.id => f = g
    BY <1>6, <2>1, <2>2 DEF AddFilter
  <2>. QED
    BY <1>6, <2>1, <2>2, <2>3, <2>4 DEF AddFilter
<1>7. CASE AddFilterFails
  BY <1>7 DEF AddFilterFails, Returns
<1>8. ASSUME NEW f \in flows, Remove(f) PROVE CallInv'
  <2>1. f \in Flow
    BY DEF IInv
  <2>2. f = [rule |-> f.rule, id |-> f.id] /\ f.rule \in Rule /\ f.id \in FlowIds
    BY <2>1 DEF Flow
  <2>3. call' \in Busy /\ call'.op = "remove" /\ Current' = f
    BY <1>8, <2>2 DEF Remove, Busy, Current
  <2>. QED
    BY <1>8, <2>3 DEF Remove
<1>9. CASE DeleteFilter
  <2>1. call \in Busy
    BY <1>9, CurrentIsFlow DEF DeleteFilter
  <2>2. call' \in Busy /\ call'.op = "unclass" /\ Current' = Current
    BY <1>9, <2>1 DEF DeleteFilter, Busy, Current
  <2>. QED
    BY <1>9, <2>2 DEF DeleteFilter
<1>10. CASE DeleteFilterFails
  <2>1. call.op = "remove" /\ run # "new" /\ Thrown
    BY <1>10 DEF DeleteFilterFails
  <2>. QED
    BY <2>1, ThrownStep DEF Current
<1>11. CASE CheckAborts
  BY <1>11 DEF CheckAborts, Returns
<1>12. CASE DeleteClass
  BY <1>12 DEF DeleteClass, Returns
<1>13. CASE DeleteClassFails
  <2>1. call.op = "unclass" /\ run # "new" /\ Thrown
    BY <1>13 DEF DeleteClassFails
  <2>. QED
    BY <2>1, ThrownStep DEF Current
<1>14. CASE DeleteDefault \/ DestroyLeaves
  BY <1>14 DEF DeleteDefault, DestroyLeaves, Ending, Idle
<1>15. CASE DeleteRoot
  BY <1>15 DEF DeleteRoot, Returns
<1>16. CASE UNCHANGED vars
  BY <1>16 DEF vars, Current
<1>. QED
  BY <1>1, <1>2, <1>3, <1>4, <1>5, <1>6, <1>7, <1>8, <1>9, <1>10, <1>11, <1>12,
     <1>13, <1>14, <1>15, <1>16 DEF Next

\* Counting what create_hash_configuration missed.
LEMMA MissedCount ==
    ASSUME faults \in Nat, HashConfiguration
    PROVE  faults' \in Nat /\ faults' <= MaxFaults
<1>1. PICK t \in SUBSET {Hashed, Unhashed}, l \in SUBSET {Hashed, Unhashed} :
         /\ faults' = faults + Cardinality({Hashed, Unhashed} \ t) + Cardinality(t \ l)
         /\ faults' <= MaxFaults
  BY ZenonT(30) DEF HashConfiguration, TableSets, LinkSets
<1>2. IsFiniteSet({Hashed, Unhashed})
  <2>1. IsFiniteSet({Hashed})
    BY FS_Singleton
  <2>2. IsFiniteSet({Hashed} \cup {Unhashed})
    BY <2>1, FS_AddElement
  <2>3. {Hashed} \cup {Unhashed} = {Hashed, Unhashed}
    OBVIOUS
  <2>. QED
    BY <2>2, <2>3
<1>3. IsFiniteSet({Hashed, Unhashed} \ t) /\ IsFiniteSet(t \ l)
  BY <1>2, FS_Subset
<1>. QED
  BY <1>1, <1>3, FS_CardinalityType

LEMMA CountStep == IInv /\ [Next]_vars => CountInv'
<1>. SUFFICES ASSUME IInv, [Next]_vars PROVE CountInv'
  OBVIOUS
<1>. USE DEF IInv, CountInv
<1>. USE FiltersAssumption
<1>. /\ avail \in Int /\ faults \in Nat /\ faults <= MaxFaults /\ MaxFaults \in Nat
    /\ run \in {"new", "up", "closing", "down"}
  OBVIOUS
<1>0. call.op \notin {"idle", "root"} => Rate[call.rule] \in Int
  BY CurrentIsFlow DEF Busy
<1>1. CASE InitModule
  <2>1. faults' \in 0 .. MaxFaults
    <3>1. CASE UseIPv6
      BY <1>1, <3>1 DEF InitModule, Done
    <3>2. CASE ~UseIPv6
      <4>1. HashConfiguration
        BY <1>1, <3>2 DEF InitModule
      <4>. QED
        BY <4>1, MissedCount
    <3>. QED
      BY <3>1, <3>2
  <2>. QED
    BY <1>1, <2>1 DEF InitModule
<1>2. CASE InitFails
  BY <1>2 DEF InitFails, RootOnly, Refused
<1>3. ASSUME NEW r \in Rule, NEW id \in FlowIds, Check(r, id) \/ Activate(r, id)
      PROVE  CountInv'
  BY <1>3 DEF Check, Activate
<1>4. CASE AddClass
  BY <1>4 DEF AddClass
<1>5. CASE AddClassFails
  BY <1>5 DEF AddClassFails
<1>6. CASE AddFilter
  BY <1>0, <1>6 DEF AddFilter
<1>7. CASE AddFilterFails
  BY <1>7 DEF AddFilterFails
<1>8. ASSUME NEW f \in flows, Remove(f) PROVE CountInv'
  BY <1>8 DEF Remove
<1>9. CASE DeleteFilter
  BY <1>9 DEF DeleteFilter
<1>10. CASE DeleteFilterFails
  BY <1>10 DEF DeleteFilterFails, Refused, Done, Thrown
<1>11. CASE CheckAborts
  BY <1>11 DEF CheckAborts
<1>12. CASE DeleteClass
  BY <1>0, <1>12 DEF DeleteClass
<1>13. CASE DeleteClassFails
  BY <1>13 DEF DeleteClassFails, Refused, Done, Thrown
<1>14. CASE DeleteDefault \/ DestroyLeaves
  BY <1>14 DEF DeleteDefault, DestroyLeaves, Ending, Refused, Done
<1>15. CASE DeleteRoot
  BY <1>15 DEF DeleteRoot, Refused, Done
<1>16. CASE UNCHANGED vars
  BY <1>16 DEF vars
<1>. QED
  BY <1>1, <1>2, <1>3, <1>4, <1>5, <1>6, <1>7, <1>8, <1>9, <1>10, <1>11, <1>12,
     <1>13, <1>14, <1>15, <1>16 DEF Next

LEMMA Inductive == Spec => []IInv
<1>1. Init => IInv
  BY KernelInit, CallInit, CountInit DEF IInv
<1>2. IInv /\ [Next]_vars => IInv'
  BY KernelStep, CallStep, CountStep DEF IInv
<1>. QED
  BY <1>1, <1>2, PTL DEF Spec

\* The htb module keeps its type: every filter lies in a bucket of a table that
\* exists, and no two flows share an identifier (modify_filter).
THEOREM TypeCorrect == Spec => []TypeOK
<1>1. IInv => TypeOK
  BY DEF IInv, KernelInv, CallInv, CountInv, TypeOK, Flow, Busy, Idle
<1>. QED
  BY <1>1, Inductive, PTL

-----------------------------------------------------------------------------
(* The refinement *)

Held == {Cell(f) : f \in flows}
Classes == minors \ {RootClass, DefaultClass}

\* A flow's identifier names its cell.
LEMMA CellsApart ==
    ASSUME CallInv, NEW f \in flows
    PROVE  /\ Cell(f) \in S!Holder
           /\ {Cell(g) : g \in flows \ {f}} = Held \ {Cell(f)}
<1>1. \A g \in flows : g.rule \in Rule /\ g.id \in FlowIds
  BY DEF CallInv, Flow
<1>2. Cell(f) \in S!Holder
  <2>1. DOMAIN Rate = Rule /\ Rate[f.rule] \in Range(Rate)
    BY <1>1, FiltersAssumption DEF Range
  <2>. QED
    BY <1>1, <2>1 DEF Cell, S!Holder
<1>3. \A g \in flows : Cell(g) = Cell(f) => g = f
  BY DEF CallInv, Cell
<1>. QED
  BY <1>2, <1>3 DEF Held

LEMMA IdsApart == \A id \in FlowIds : id \notin {RootClass, DefaultClass}
  BY FiltersAssumption DEF RootClass, DefaultClass, EndOfIds

LEMMA InitMaps == Init => S!Init
  BY DEF Init, S!Init

LEMMA StepMaps == IInv /\ [Next]_vars => [S!Next]_(S!vars)
<1>. SUFFICES ASSUME IInv, [Next]_vars PROVE [S!Next]_(S!vars)
  OBVIOUS
<1>. CallInv /\ KernelInv /\ CountInv
  BY DEF IInv
<1>a. \A id \in FlowIds : id \notin {RootClass, DefaultClass}
  BY IdsApart
<1>b. ASSUME UNCHANGED << minors, flows, avail >> PROVE [S!Next]_(S!vars)
  BY <1>b DEF S!vars
<1>1. CASE InitModule
  <2>1. flows = {} /\ flows' = {} /\ minors = {} /\ Classes' = {} /\ avail' \in Int
    BY <1>1, FiltersAssumption DEF InitModule, CallInv, Classes
  <2>2. S!Provide
    BY <2>1 DEF S!Provide, Classes
  <2>. QED
    BY <2>2 DEF S!Next
<1>2. CASE InitFails
  BY <1>2 DEF InitFails, RootOnly, CallInv, S!vars
<1>3. ASSUME NEW r \in Rule, NEW id \in FlowIds, Check(r, id) \/ Activate(r, id)
      PROVE  [S!Next]_(S!vars)
  BY <1>3, <1>b DEF Check, Activate
<1>4. CASE AddClass
  <2>1. call.id \in FlowIds
    BY <1>4, CurrentIsFlow DEF AddClass, Busy
  <2>2. S!Litter(call.id)
    BY <1>4, <1>a, <2>1 DEF AddClass, S!Litter
  <2>. QED
    BY <2>1, <2>2 DEF S!Next
<1>5. CASE AddClassFails
  BY <1>5, <1>b DEF AddClassFails
<1>6. CASE AddFilter
  <2>1. Current \in Flow /\ Current.id = call.id /\ Current.rule = call.rule
    BY <1>6, CurrentIsFlow DEF AddFilter, Current
  <2>2. flows' = flows \cup {Current} /\ minors' = minors /\ call.id \in minors
    BY <1>6 DEF AddFilter, CallInv
  <2>3. Cell(Current) \in S!Holder /\ Cell(Current).id = call.id
        /\ Cell(Current).rate = Rate[call.rule]
    BY <2>1, FiltersAssumption DEF Cell, S!Holder, Flow, Range
  <2>4. Held' = Held \cup {Cell(Current)}
    BY <2>2 DEF Held
  <2>5. \A c \in Held : c.id # Cell(Current).id
    BY <1>6, <2>3 DEF AddFilter, CallInv, Held, Cell
  <2>6. Classes' = Classes \cup {call.id}
    <3>1. call.id \in FlowIds
      BY <2>1 DEF Flow
    <3>. QED
      BY <1>a, <2>2, <3>1 DEF Classes
  <2>7. avail' = avail - Cell(Current).rate
    BY <1>6, <2>3 DEF AddFilter
  <2>8. S!SetUp(Cell(Current))
    BY <2>3, <2>4, <2>5, <2>6, <2>7 DEF S!SetUp, Held, Classes
  <2>. QED
    BY <2>3, <2>8 DEF S!Next
<1>7. CASE AddFilterFails
  BY <1>7, <1>b DEF AddFilterFails
<1>8. ASSUME NEW f \in flows, Remove(f) PROVE [S!Next]_(S!vars)
  BY <1>8, <1>b DEF Remove
<1>9. CASE DeleteFilter
  BY <1>9, <1>b DEF DeleteFilter
<1>10. ASSUME call.op \in {"remove", "unclass"}, Thrown, UNCHANGED << minors, avail >>
       PROVE  [S!Next]_(S!vars)
  <2>1. Current \in flows
    BY <1>10 DEF CallInv
  <2>2. CASE flows' = flows
    BY <1>10, <1>b, <2>2
  <2>3. CASE flows' = flows \ {Current}
    <3>1. S!Abandon(Cell(Current)) /\ Cell(Current) \in S!Holder
      BY <1>10, <2>1, <2>3, CellsApart DEF S!Abandon, Held
    <3>. QED
      BY <3>1 DEF S!Next
  <2>. QED
    BY <1>10, <2>2, <2>3 DEF Thrown
<1>11. CASE CheckAborts
  <2>1. S!Close
    BY <1>11 DEF CheckAborts, S!Close
  <2>. QED
    BY <2>1 DEF S!Next
<1>12. CASE DeleteClass
  <2>1. Current \in flows /\ Current.id = call.id /\ Current.rule = call.rule
    BY <1>12 DEF DeleteClass, CallInv, Current
  <2>2. Cell(Current) \in S!Holder /\ Cell(Current).id = call.id
        /\ Cell(Current).rate = Rate[call.rule]
    BY <2>1, CellsApart DEF Cell
  <2>3. Cell(Current) \in Held /\ Held' = Held \ {Cell(Current)}
    BY <1>12, <2>1, CellsApart DEF DeleteClass, Held
  <2>4. Classes' = Classes \ {call.id}
    BY <1>12 DEF DeleteClass, Classes
  <2>5. avail' = avail + Cell(Current).rate
    BY <1>12, <2>2 DEF DeleteClass
  <2>6. S!TakeDown(Cell(Current))
    BY <2>2, <2>3, <2>4, <2>5 DEF S!TakeDown, Held, Classes
  <2>. QED
    BY <2>2, <2>6 DEF S!Next
<1>13. CASE DeleteDefault
  BY <1>13 DEF DeleteDefault, S!vars
<1>14. CASE DestroyLeaves
  BY <1>14, <1>b DEF DestroyLeaves
<1>15. CASE DeleteRoot
  <2>1. flows = {} /\ flows' = {} /\ avail' = 0
    BY <1>15 DEF DeleteRoot, CallInv
  <2>2. minors' = {} \/ minors' = minors
    BY <1>15 DEF DeleteRoot, Emptied
  <2>3. S!Close
    BY <2>1, <2>2 DEF S!Close
  <2>. QED
    BY <2>3 DEF S!Next
<1>16. CASE UNCHANGED vars
  BY <1>16, <1>b DEF vars
<1>17. DeleteFilterFails \/ DeleteClassFails => [S!Next]_(S!vars)
  BY <1>10 DEF DeleteFilterFails, DeleteClassFails
<1>. QED
  BY <1>1, <1>2, <1>3, <1>4, <1>5, <1>6, <1>7, <1>8, <1>9, <1>11, <1>12, <1>13,
     <1>14, <1>15, <1>16, <1>17 DEF Next

\* Through any order of checks, activations, removals and refused requests the
\* htb module is the service QOSProcessor is modelled over: a flow's class and
\* bandwidth are taken by a setup that succeeds, and given back together.
THEOREM ServiceHolds == Spec => Service
<1>1. Init => S!Init
  BY InitMaps
<1>2. IInv /\ [Next]_vars => [S!Next]_(S!vars)
  BY StepMaps
<1>. QED
  BY <1>1, <1>2, Inductive, PTL DEF Spec, Service, S!Spec
-----------------------------------------------------------------------------
(* Leftovers *)

\* What the kernel has of an identifier: of one that no flow has, nothing; of
\* a flow, its class, its filter and no other.  While a class is set up or
\* taken down it may be there or not.
Stale(id) == \E g \in filters : g.node = id
Complete(f) ==
    /\ f.id \in minors /\ FilterOf(f) \in filters
    /\ \A g \in filters : g.node = f.id => g = FilterOf(f)
Between(id) == call.op \in {"class", "filter", "unclass"} /\ call.id = id
Odd(id) ==
    IF Between(id) THEN Stale(id)
    ELSE \/ (\A f \in flows : f.id # id) /\ (id \in minors \/ Stale(id))
         \/ \E f \in flows : f.id = id /\ ~Complete(f)
OddIds == {id \in FlowIds : Odd(id)}

LeftInv ==
    run # "down" /\ tables = {Hashed, Unhashed} =>
        RootClass \in minors /\ Cardinality(OddIds) <= faults

\* A step is about one identifier.
About(x) ==
    /\ \A id \in FlowIds : id # x => (id \in minors' <=> id \in minors)
    /\ \A g \in filters \cup filters' : g.node # x => g \in filters /\ g \in filters'
    /\ \A f \in flows \cup flows' : f.id # x => f \in flows /\ f \in flows'
    /\ call.op \notin {"idle", "root"} => call.id = x
    /\ call'.op \notin {"idle", "root"} => call'.id = x

LEMMA OthersAsBefore ==
    ASSUME NEW x, About(x), NEW id \in FlowIds, id # x
    PROVE  Odd(id)' <=> Odd(id)
<1>1. ~Between(id) /\ ~Between(id)'
  BY DEF About, Between
<1>2. Stale(id)' <=> Stale(id)
  BY DEF About, Stale
<1>3. \A f \in flows : f.id = id => (Complete(f)' <=> Complete(f))
  <2> SUFFICES ASSUME NEW f \in flows, f.id = id PROVE Complete(f)' <=> Complete(f)
    OBVIOUS
  <2>1. f.id \in minors' <=> f.id \in minors
    BY DEF About
  <2>2. \A g : g.node = id => (g \in filters' <=> g \in filters)
    BY DEF About
  <2>3. FilterOf(f).node = id /\ FilterOf(f)' = FilterOf(f)
    BY DEF FilterOf
  <2>. QED
    BY <2>1, <2>2, <2>3 DEF Complete
<1>4. \A f : f.id = id => (f \in flows' <=> f \in flows)
  BY DEF About
<1>5. id \in minors' <=> id \in minors
  BY DEF About
<1>. QED
  BY <1>1, <1>2, <1>3, <1>4, <1>5 DEF Odd

LEMMA FewOdd == IsFiniteSet(OddIds) /\ Cardinality(OddIds) \in Nat
<1>1. EndOfIds \in Int
  BY DEF EndOfIds
<1>2. IsFiniteSet(0 .. EndOfIds)
  BY <1>1, FS_Interval
<1>3. \A id \in FlowIds : id \in 0 .. EndOfIds
  BY <1>1, FiltersAssumption
<1>4. OddIds \in SUBSET (0 .. EndOfIds)
  BY <1>3 DEF OddIds
<1>. QED
  BY <1>2, <1>4, FS_Subset, FS_CardinalityType

\* Such a step adds one odd identifier at most.
LEMMA OneOddAtMost ==
    ASSUME NEW x, About(x), faults \in Nat, Cardinality(OddIds) <= faults,
           faults' = faults + 1 \/ (faults' = faults /\ (Odd(x)' => Odd(x)))
    PROVE  Cardinality(OddIds') <= faults'
<1>2. IsFiniteSet(OddIds) /\ Cardinality(OddIds) \in Nat
  BY FewOdd
<1>3. OddIds' \subseteq OddIds \cup {x}
  BY OthersAsBefore DEF OddIds
<1>4. CASE OddIds' \subseteq OddIds
  <2>1. Cardinality(OddIds') <= Cardinality(OddIds) /\ Cardinality(OddIds') \in Nat
    BY <1>2, <1>4, FS_Subset, FS_CardinalityType
  <2>. QED
    BY <1>2, <2>1
<1>5. CASE faults' = faults + 1
  <2>1. /\ IsFiniteSet(OddIds \cup {x})
        /\ Cardinality(OddIds \cup {x}) \in {Cardinality(OddIds), Cardinality(OddIds) + 1}
    BY <1>2, FS_AddElement
  <2>2. Cardinality(OddIds') <= Cardinality(OddIds \cup {x}) /\ Cardinality(OddIds') \in Nat
    BY <1>3, <2>1, FS_Subset, FS_CardinalityType
  <2>. QED
    BY <1>2, <1>5, <2>1, <2>2
<1>6. CASE Odd(x)' => Odd(x)
  BY <1>3, <1>4, <1>6 DEF OddIds
<1>. QED
  BY <1>5, <1>6

\* Steps inside a setup or a removal, each about the call's identifier
LEMMA SetupLeaves ==
    ASSUME IInv, NEW x, x = call.id, AddClass \/ AddFilter \/ DeleteFilter \/ DeleteClass
    PROVE  About(x) /\ faults' = faults /\ (Odd(x)' => Odd(x))
<1>. USE DEF IInv
<1>0. call.op \notin {"idle", "root"}
  BY DEF AddClass, AddFilter, DeleteFilter, DeleteClass
<1>1. PICK c \in Flow : c = Current
  BY <1>0, CurrentIsFlow
<1>1a. /\ call \in Busy /\ c.id = call.id /\ FilterOf(c).node = call.id
      /\ FilterOf(c)' = FilterOf(c)
  BY <1>0, <1>1, CurrentIsFlow DEF Current, FilterOf
<1>2. CASE AddClass
  <2>1. call'.op = "filter" /\ call'.id = call.id
    BY <1>1, <1>1a, <1>2 DEF AddClass, Busy
  <2>. QED
    BY <1>2, <2>1 DEF AddClass, About, Odd, Between, Stale
<1>3. CASE AddFilter
  <2>1. /\ \A f \in flows : f.id # call.id
        /\ call.id \in minors /\ minors' = minors
        /\ flows' = flows \cup {c} /\ filters' = Filed(c)
        /\ faults' = faults /\ call.op = "filter"
    BY <1>1, <1>3 DEF AddFilter, CallInv
  <2>2. call'.op \in {"idle", "remove"} /\ (call'.op = "remove" => call'.id = call.id)
    BY <1>1, <1>1a, <1>3 DEF AddFilter, Returns, Busy
  <2>3. filters \subseteq filters' /\ filters' \subseteq filters \cup {FilterOf(c)}
    BY <2>1 DEF Filed
  <2>4. About(x)
    BY <1>1, <1>1a, <2>1, <2>2, <2>3 DEF About
  <2>5. ASSUME ~Stale(x) PROVE ~Odd(x)'
    <3>1. filters' = filters \cup {FilterOf(c)}
      BY <1>1, <1>1a, <2>1, <2>5 DEF Filed, SameHandle, Stale
    <3>2. \A f \in flows' : f.id = call.id => f = c
      BY <1>1a, <2>1
    <3>3. Complete(c)'
      BY <1>1a, <2>1, <2>5, <3>1 DEF Complete, Stale
    <3>4. ~Between(x)' /\ c \in flows'
      BY <2>1, <2>2 DEF Between
    <3>. QED
      BY <1>1a, <3>2, <3>3, <3>4 DEF Odd
  <2>. QED
    BY <2>1, <2>4, <2>5 DEF Odd, Between
<1>4. CASE DeleteFilter
  <2>1. /\ call.op = "remove" /\ c \in flows
        /\ UNCHANGED << minors, flows, faults >>
        /\ filters' = {g \in filters : ~SameHandle(FilterOf(c), g)}
    BY <1>1, <1>4 DEF DeleteFilter, CallInv
  <2>2. call'.op = "unclass" /\ call'.id = call.id
    BY <1>1, <1>1a, <1>4 DEF DeleteFilter, Busy
  <2>3. About(x)
    BY <1>1, <1>1a, <2>1, <2>2 DEF About, SameHandle
  <2>4. Complete(c) => ~Stale(x)'
    BY <1>1, <1>1a, <2>1 DEF Complete, Stale, SameHandle
  <2>5. Odd(x)' => ~Complete(c)
    BY <2>2, <2>4 DEF Odd, Between
  <2>. QED
    BY <1>1, <1>1a, <2>1, <2>3, <2>5 DEF Odd, Between
<1>5. CASE DeleteClass
  <2>1. /\ call.op = "unclass" /\ c \in flows /\ call'.op = "idle"
        /\ minors' = minors \ {call.id} /\ flows' = flows \ {c}
        /\ filters' = filters /\ faults' = faults /\ Unused(call.id)
    BY <1>1, <1>5 DEF DeleteClass, CallInv, Returns
  <2>2. About(x)
    BY <1>1, <1>1a, <2>1 DEF About
  <2>3. \A f \in flows' : f.id # call.id
    BY <1>1, <1>1a, <2>1 DEF CallInv
  <2>. QED
    BY <2>1, <2>2, <2>3 DEF Odd, Between, Stale, Unused
<1>. QED
  BY <1>2, <1>3, <1>4, <1>5

\* A refused request, or one that was bound to be, leaves what it finds.
LEMMA FailureLeaves ==
    ASSUME IInv, NEW x, x = call.id, run' # "down", RootClass \in minors, tables = {Hashed, Unhashed},
           AddClassFails \/ AddFilterFails \/ DeleteFilterFails \/ DeleteClassFails
    PROVE  /\ About(x)
           /\ faults' = faults + 1 \/ (faults' = faults /\ (Odd(x)' => Odd(x)))
<1>. USE DEF IInv
<1>0. call.op \notin {"idle", "root"}
  BY DEF AddClassFails, AddFilterFails, DeleteFilterFails, DeleteClassFails
<1>1. /\ call \in Busy /\ Current \in Flow /\ Current.id = call.id
      /\ FilterOf(Current).node = call.id
  BY <1>0, CurrentIsFlow DEF Current, FilterOf
<1>2. CASE AddClassFails
  BY <1>2 DEF AddClassFails, Returns, About
<1>3. CASE AddFilterFails
  BY <1>3 DEF AddFilterFails, Returns, About, TableOf
<1>4. ASSUME call.op \in {"remove", "unclass"}, Thrown, UNCHANGED << minors, filters >>
      PROVE  About(x)
  <2>1. run # "new" /\ Current \in flows
    BY <1>4 DEF CallInv
  <2>2. flows' = flows \/ flows' = flows \ {Current}
    BY <1>4 DEF Thrown
  <2>. QED
    BY <1>1, <1>4, <2>1, <2>2, ThrownStep DEF About
<1>5. CASE DeleteFilterFails
  <2>1. call.op = "remove" /\ Current \in flows /\ Thrown /\ UNCHANGED << minors, filters >>
    BY <1>5 DEF DeleteFilterFails, CallInv
  <2>2. ASSUME FilterOf(Current) \notin filters PROVE Odd(x)
    BY <1>1, <2>1, <2>2 DEF Odd, Between, Complete
  <2>3. faults' = faults + 1 \/ (faults' = faults /\ FilterOf(Current) \notin filters)
    BY <1>5 DEF DeleteFilterFails, Refused, Done, SameHandle
  <2>. QED
    BY <1>4, <2>1, <2>2, <2>3
<1>6. CASE DeleteClassFails
  <2>1. call.op = "unclass" /\ Thrown /\ UNCHANGED << minors, filters >>
    BY <1>6 DEF DeleteClassFails
  <2>2. faults' = faults + 1 \/ (faults' = faults /\ Stale(x))
    BY <1>6 DEF DeleteClassFails, Refused, Done, Unused, Stale
  <2>. QED
    BY <1>4, <2>1, <2>2 DEF Odd, Between
<1>. QED
  BY <1>2, <1>3, <1>5, <1>6

\* A call starts about an identifier, or about that of a flow.
LEMMA EntryLeaves ==
    ASSUME IInv, NEW x \in FlowIds,
           \/ CanUse(x) /\ \E r \in Rule : Check(r, x) \/ Activate(r, x)
           \/ \E f \in flows : f.id = x /\ Remove(f)
    PROVE  About(x) /\ faults' = faults /\ (Odd(x)' => Odd(x))
<1>. USE DEF IInv
<1>1. call.op = "idle" /\ UNCHANGED << minors, filters, flows, faults >>
  BY DEF Check, Activate, Remove, Idle
<1>2. About(x)
  BY <1>1 DEF About, Check, Activate, Remove
<1>3. CASE CanUse(x) /\ \E r \in Rule : Check(r, x) \/ Activate(r, x)
  <2>1. call'.op = "class" /\ call'.id = x
    BY <1>3 DEF Check, Activate
  <2>. QED
    BY <1>1, <1>2, <1>3, <2>1 DEF CanUse, Odd, Between, Stale
<1>4. CASE \E f \in flows : f.id = x /\ Remove(f)
  <2>1. call'.op = "remove"
    BY <1>4 DEF Remove
  <2>. QED
    BY <1>1, <1>2, <2>1 DEF Odd, Between, Stale, Complete, FilterOf
<1>. QED
  BY <1>3, <1>4

\* Before initModule there are no tables, and after the end there is no call.
EndsInv ==
    /\ run = "new" => tables = {} /\ links = {}
    /\ run = "down" => call.op = "idle" /\ flows = {}

LEMMA EndsStep == IInv /\ EndsInv /\ [Next]_vars => EndsInv'
<1>. SUFFICES ASSUME IInv, EndsInv, [Next]_vars PROVE EndsInv'
  OBVIOUS
<1>. USE DEF IInv, EndsInv
<1>1. CASE InitModule \/ InitFails
  BY <1>1 DEF InitModule, InitFails, CallInv
<1>2. CASE \/ \E r \in Rule, id \in FlowIds : Check(r, id) \/ Activate(r, id)
           \/ \E f \in flows : Remove(f)
  BY <1>2 DEF Check, Activate, Remove
<1>3. CASE AddClass \/ AddClassFails \/ AddFilter \/ AddFilterFails \/ DeleteFilter \/ DeleteClass
  BY <1>3 DEF AddClass, AddClassFails, AddFilter, AddFilterFails, DeleteFilter, DeleteClass,
     CallInv
<1>4. CASE DeleteFilterFails \/ DeleteClassFails
  BY <1>4 DEF DeleteFilterFails, DeleteClassFails, Thrown, CallInv
<1>5. CASE CheckAborts \/ DeleteDefault \/ DestroyLeaves \/ DeleteRoot
  BY <1>5 DEF CheckAborts, DeleteDefault, DestroyLeaves, DeleteRoot, Ending, Returns, Idle,
     CallInv
<1>6. CASE UNCHANGED vars
  BY <1>6 DEF vars
<1>. QED
  BY <1>1, <1>2, <1>3, <1>4, <1>5, <1>6 DEF Next

\* Both tables are there from initModule on, with the root class.
LEMMA LeftStep == IInv /\ EndsInv /\ LeftInv /\ [Next]_vars => LeftInv'
<1>. SUFFICES ASSUME IInv, EndsInv, LeftInv, [Next]_vars,
                     run' # "down", tables' = {Hashed, Unhashed}
              PROVE  RootClass \in minors' /\ Cardinality(OddIds') <= faults'
  BY DEF LeftInv
<1>0. faults \in Nat
  BY FiltersAssumption DEF IInv, CountInv
<1>1. CASE InitModule
  <2>1. /\ minors' = {RootClass, DefaultClass} /\ filters' = {} /\ flows' = {}
        /\ call'.op = "idle"
    BY <1>1 DEF InitModule, IInv, CallInv
  <2>2. OddIds' = {}
    BY <2>1, IdsApart DEF OddIds, Odd, Between, Stale
  <2>3. faults' \in Nat
    BY <1>0, <1>1, MissedCount DEF InitModule, Done
  <2>. QED
    BY <2>1, <2>2, <2>3, FS_EmptySet
<1>2. CASE InitFails
  BY <1>2 DEF InitFails, EndsInv
<1>3. CASE UNCHANGED vars
  <2>1. OddIds' = OddIds
    BY <1>3 DEF vars, OddIds, Odd, Between, Stale, Complete, FilterOf
  <2>. QED
    BY <1>3, <2>1 DEF vars, LeftInv
<1>4. CASE DeleteDefault
  <2>1. OddIds' = OddIds
    BY <1>4, IdsApart DEF DeleteDefault, Ending, Idle, OddIds, Odd, Between, Stale, Complete,
       FilterOf
  <2>2. /\ UNCHANGED << tables, run, faults >> /\ minors' = minors \ {DefaultClass}
    BY <1>4 DEF DeleteDefault
  <2>. QED
    BY <2>1, <2>2 DEF LeftInv, RootClass, DefaultClass
<1>5. ASSUME ~InitModule, ~InitFails, ~UNCHANGED vars, ~DeleteDefault
      PROVE  RootClass \in minors' /\ Cardinality(OddIds') <= faults'
  <2>1. tables' = tables /\ run # "down" /\ RootClass \in minors
    <3>1. tables' = tables
      BY <1>5 DEF Next, Check, Activate, AddClass, AddClassFails, AddFilter,
         AddFilterFails, Remove, DeleteFilter, DeleteFilterFails, CheckAborts, DeleteClass,
         DeleteClassFails, DeleteDefault, DestroyLeaves, DeleteRoot
    <3>2. run # "down"
      BY <1>5 DEF EndsInv, Next, Check, Activate, AddClass, AddClassFails, AddFilter,
         AddFilterFails, Remove, DeleteFilter, DeleteFilterFails, CheckAborts, DeleteClass,
         DeleteClassFails, DeleteDefault, DestroyLeaves, DeleteRoot
    <3>. QED
      BY <3>1, <3>2 DEF LeftInv
  <2>2. RootClass \in minors'
    <3>1. call.op \notin {"idle", "root"} => call.id # RootClass
      BY CurrentIsFlow, IdsApart DEF IInv, Busy
    <3>. QED
      BY <1>5, <2>1, <3>1 DEF Next, Check, Activate, AddClass, AddClassFails, AddFilter,
         AddFilterFails, Remove, DeleteFilter, DeleteFilterFails, CheckAborts, DeleteClass,
         DeleteClassFails, DeleteDefault, DestroyLeaves, DeleteRoot
  <2>3. \E x : /\ About(x)
               /\ faults' = faults + 1 \/ (faults' = faults /\ (Odd(x)' => Odd(x)))
    <3>1. CASE AddClass \/ AddFilter \/ DeleteFilter \/ DeleteClass
      <4>1. PICK x : x = call.id
        OBVIOUS
      <4>. QED
        BY <3>1, <4>1, SetupLeaves
    <3>2. CASE AddClassFails \/ AddFilterFails \/ DeleteFilterFails \/ DeleteClassFails
      <4>1. PICK x : x = call.id
        OBVIOUS
      <4>. QED
        BY <2>1, <3>2, <4>1, FailureLeaves
    <3>3. ASSUME NEW r \in Rule, NEW id \in FlowIds, CanUse(id), Check(r, id) \/ Activate(r, id)
          PROVE  About(id) /\ faults' = faults /\ (Odd(id)' => Odd(id))
      BY <3>3, EntryLeaves
    <3>4. ASSUME NEW f \in flows, Remove(f)
          PROVE  About(f.id) /\ faults' = faults /\ (Odd(f.id)' => Odd(f.id))
      <4>1. f.id \in FlowIds
        BY DEF IInv, CallInv, Flow
      <4>. QED
        BY <3>4, <4>1, EntryLeaves
    <3>5. ~(CheckAborts \/ DestroyLeaves \/ DeleteRoot)
      BY DEF CheckAborts, DestroyLeaves, DeleteRoot
    <3>. QED
      BY <1>5, <3>1, <3>2, <3>3, <3>4, <3>5 DEF Next
  <2>4. Cardinality(OddIds) <= faults
    BY <2>1 DEF LeftInv
  <2>. QED
    BY <1>0, <2>2, <2>3, <2>4, OneOddAtMost
<1>. QED
  BY <1>1, <1>2, <1>3, <1>4, <1>5

LEMMA LeftHolds == Spec => [](IInv /\ EndsInv /\ LeftInv)
<1>1. Init => EndsInv /\ LeftInv
  BY DEF Init, EndsInv, LeftInv
<1>2. IInv /\ EndsInv /\ LeftInv /\ [Next]_vars => EndsInv' /\ LeftInv'
  BY EndsStep, LeftStep
<1>. QED
  BY <1>1, <1>2, Inductive, PTL DEF Spec

\* Whatever is refused during checks, activations and removals, and whatever
\* identifiers are used again: no refusal leaves more behind than the class
\* and the filter of one flow, or one flow without its own (destroyFlowSetup).
THEOREM LeftoversSafe == Spec => []LeftoversBounded
<1>1. IInv /\ LeftInv => LeftoversBounded
  <2> DEFINE Left ==
        {id \in FlowIds :
              \/ /\ id \in minors \/ \E g \in filters : g.node = id
                 /\ \A f \in flows : f.id # id
              \/ \E f \in flows : /\ f.id = id
                                  /\ id \in minors => FilterOf(f) \notin filters}
  <2> SUFFICES ASSUME IInv, LeftInv, Idle, run # "down", tables = {Hashed, Unhashed}
               PROVE  Cardinality(Left) <= faults
    BY DEF LeftoversBounded
  <2>1. Left \subseteq OddIds
    BY DEF OddIds, Odd, Between, Stale, Complete, Idle
  <2>2. IsFiniteSet(OddIds) /\ Cardinality(OddIds) <= faults
    BY FewOdd DEF LeftInv
  <2>3. Cardinality(Left) <= Cardinality(OddIds) /\ Cardinality(Left) \in Nat
        /\ Cardinality(OddIds) \in Nat /\ faults \in Nat
    BY <2>1, <2>2, FS_Subset, FS_CardinalityType, FiltersAssumption DEF IInv, CountInv
  <2>. QED
    BY <2>2, <2>3
<1>. QED
  BY <1>1, LeftHolds, PTL

-----------------------------------------------------------------------------
(* Classes of packets *)

\* The flows whose filters the kernel has
Filtered == IF call.op = "unclass" THEN flows \ {Current} ELSE flows

\* As long as nothing was refused, the kernel has the filters of the flows and
\* no others, and leads packets to every table there is.
MatchInv ==
    faults = 0 /\ run # "down" => links = tables /\ filters = {FilterOf(f) : f \in Filtered}

\* create_hash_configuration misses something if it leaves a table without link.
LEMMA HashAll ==
    ASSUME faults \in Nat, HashConfiguration, faults' = 0
    PROVE  faults = 0 /\ links' = tables'
<1>1. PICK t \in SUBSET {Hashed, Unhashed} : \E l \in SUBSET t :
         /\ tables' = t /\ links' = l
         /\ faults' = faults + Cardinality({Hashed, Unhashed} \ t) + Cardinality(t \ l)
  BY ZenonT(30) DEF HashConfiguration, TableSets, LinkSets
<1>1a. PICK l \in SUBSET t :
         /\ tables' = t /\ links' = l
         /\ faults' = faults + Cardinality({Hashed, Unhashed} \ t) + Cardinality(t \ l)
  BY <1>1
<1>2. IsFiniteSet({Hashed, Unhashed})
  <2>1. IsFiniteSet({Hashed} \cup {Unhashed})
    BY FS_Singleton, FS_AddElement
  <2>2. {Hashed} \cup {Unhashed} = {Hashed, Unhashed}
    OBVIOUS
  <2>. QED
    BY <2>1, <2>2
<1>3. IsFiniteSet({Hashed, Unhashed} \ t) /\ IsFiniteSet(t \ l)
  BY <1>2, FS_Subset
<1>4. /\ Cardinality({Hashed, Unhashed} \ t) \in Nat /\ Cardinality(t \ l) \in Nat
      /\ Cardinality(t \ l) = 0 => t \ l = {}
  BY <1>3, FS_CardinalityType, FS_EmptySet
<1>5. faults = 0 /\ Cardinality(t \ l) = 0
  BY <1>1a, <1>4
<1>. QED
  BY <1>1a, <1>4, <1>5

LEMMA MatchStep == IInv /\ EndsInv /\ MatchInv /\ [Next]_vars => MatchInv'
<1>. SUFFICES ASSUME IInv, EndsInv, MatchInv, [Next]_vars, faults' = 0, run' # "down"
              PROVE  links' = tables' /\ filters' = {FilterOf(f) : f \in Filtered'}
  BY DEF MatchInv
<1>. USE DEF IInv
<1>a. faults \in Nat
  BY FiltersAssumption DEF CountInv
<1>b. \A f : FilterOf(f).node = f.id
  BY DEF FilterOf
<1>1. CASE InitModule
  <2>1. filters' = {} /\ flows' = {} /\ call'.op = "idle" /\ links = tables
    BY <1>1 DEF InitModule, CallInv, EndsInv
  <2>2. links' = tables'
    BY <1>a, <1>1, <2>1, HashAll DEF InitModule
  <2>. QED
    BY <2>1, <2>2 DEF Filtered
<1>2. CASE InitFails
  BY <1>a, <1>2 DEF InitFails, Refused
<1>3. CASE UNCHANGED vars
  BY <1>3 DEF vars, MatchInv, Filtered, Current
<1>4. ASSUME ~InitModule, ~InitFails, ~UNCHANGED vars
      PROVE  links' = tables' /\ filters' = {FilterOf(f) : f \in Filtered'}
  <2>1. /\ tables' = tables /\ links' = links /\ run # "down"
        /\ faults' \in {faults, faults + 1}
    BY <1>4 DEF EndsInv, Next, Check, Activate, AddClass, AddClassFails, AddFilter,
       AddFilterFails, Remove, DeleteFilter, DeleteFilterFails, CheckAborts, DeleteClass,
       DeleteClassFails, DeleteDefault, DestroyLeaves, DeleteRoot, Done, Refused
  <2>2. faults = 0 /\ faults' = faults /\ links = tables
        /\ filters = {FilterOf(f) : f \in Filtered}
    BY <1>a, <2>1 DEF MatchInv
  <2>3. ASSUME call.op # "unclass", call'.op # "unclass", UNCHANGED << filters, flows >>
        PROVE  filters' = {FilterOf(f) : f \in Filtered'}
    BY <2>2, <2>3 DEF Filtered
  <2>4. CASE \/ \E r \in Rule, id \in FlowIds : Check(r, id) \/ Activate(r, id)
             \/ \E f \in flows : Remove(f)
    BY <2>1, <2>2, <2>3, <2>4 DEF Check, Activate, Remove, Idle
  <2>5. call.op \notin {"idle", "root"} => call \in Busy /\ Current \in Flow /\ Current.id = call.id
    BY CurrentIsFlow DEF Current
  <2>6. CASE AddClass \/ AddClassFails \/ AddFilterFails
    BY <2>1, <2>2, <2>3, <2>5, <2>6 DEF AddClass, AddClassFails, AddFilterFails, Busy, Returns
  <2>7. CASE AddFilter
    <3>1. PICK c : c = Current
      OBVIOUS
    <3>2. /\ call.op = "filter" /\ call'.op \in {"idle", "remove"}
          /\ \A f \in flows : f.id # c.id
          /\ filters' = Filed(c) /\ flows' = flows \cup {c}
      BY <2>5, <2>7, <3>1 DEF AddFilter, CallInv, Busy, Returns
    <3>3. \A g \in filters : ~SameHandle(FilterOf(c), g)
      BY <1>b, <2>2, <3>2 DEF Filtered, SameHandle
    <3>. QED
      BY <2>1, <2>2, <3>2, <3>3 DEF Filed, Filtered
  <2>8. CASE DeleteFilter
    <3>1. PICK c : c = Current
      OBVIOUS
    <3>2. /\ call.op = "remove" /\ call'.op = "unclass" /\ Current' = c /\ flows' = flows
          /\ filters' = {g \in filters : ~SameHandle(FilterOf(c), g)}
          /\ \A f \in flows : f.id = c.id => f = c
      BY <2>5, <2>8, <3>1 DEF DeleteFilter, CallInv, Busy, Current
    <3>3. \A f \in flows : SameHandle(FilterOf(c), FilterOf(f)) <=> f = c
      BY <1>b, <3>2 DEF SameHandle
    <3>. QED
      BY <2>1, <2>2, <3>2, <3>3 DEF Filtered
  <2>9. ~DeleteFilterFails
    <3>1. call.op = "remove" => FilterOf(Current) \in filters
      BY <2>2 DEF Filtered, CallInv
    <3>. QED
      BY <1>a, <2>2, <3>1 DEF DeleteFilterFails, Refused, SameHandle
  <2>10. CASE DeleteClass
    BY <2>2, <2>10 DEF DeleteClass, Returns, Filtered
  <2>11. ~DeleteClassFails
    <3>1. ASSUME call.op = "unclass" PROVE Unused(call.id)
      BY <1>b, <2>2, <2>5, <3>1 DEF Filtered, CallInv, Unused
    <3>. QED
      BY <1>a, <2>2, <3>1 DEF DeleteClassFails, Refused
  <2>12. ~(CheckAborts \/ DestroyLeaves \/ DeleteRoot)
    BY DEF CheckAborts, DestroyLeaves, DeleteRoot
  <2>13. CASE DeleteDefault
    BY <2>1, <2>2, <2>3, <2>13 DEF DeleteDefault, Ending, Idle
  <2>14. filters' = {FilterOf(f) : f \in Filtered'}
    BY <1>4, <2>4, <2>6, <2>7, <2>8, <2>9, <2>10, <2>11, <2>12, <2>13 DEF Next
  <2>. QED
    BY <2>1, <2>2, <2>14
<1>. QED
  BY <1>1, <1>2, <1>3, <1>4

\* Every set of numbers that is not empty has a least one.
LEMMA LeastOf ==
    ASSUME NEW T \in SUBSET Nat, T # {}
    PROVE  Min(T) \in T /\ \A n \in T : Min(T) <= n
<1> DEFINE R == {ss \in Nat \X Nat : ss[1] < ss[2]}
<1>1. IsWellFoundedOn(R, Nat)
  BY NatLessThanWellFounded DEF OpToRel
<1>2. \E x \in T : \A y \in T : ~ (<< y, x >> \in R)
  <2> HIDE DEF R
  <2>. QED
    BY <1>1, WFMin
<1>3. PICK x \in T : \A y \in T : ~ (<< y, x >> \in R)
  BY <1>2
<1>4. ASSUME NEW y \in T PROVE x <= y
  <2>1. ~ (<< y, x >> \in R) /\ x \in Nat /\ y \in Nat
    BY <1>3
  <2>2. ~ (y < x)
    BY <2>1
  <2>. QED
    BY <2>1, <2>2
<1>. QED
  BY <1>4 DEF Min

\* The keys of a plain rule's filter hold of the packets the rule asks for, and
\* of no others (modify_filter).
LEMMA KeysSay ==
    ASSUME NEW r \in Rule, Plain(r), NEW p
    PROVE  Wants(r, p) <=> \A k \in KeysOf(r) : Agree(p[k.name], k.value, k.wide)
<1>1. \A f \in Range(Filters[r]) :
         f.kind = "wild" \/ (f.kind = "exact" /\ HasKeys(f) /\ Fields(r, f) = {f.name})
  BY DEF Plain, HasKeys, Fields
<1>2. ~Bidir[r] /\ \A f \in Range(Filters[r]) : f.kind = "wild" => ~HasKeys(f)
  BY DEF Plain, HasKeys
<1>3. ASSUME NEW f \in Range(Filters[r]), f.kind = "exact"
      PROVE  Meets(f, p) <=> \A k \in [name : Fields(r, f), value : f.values, wide : {f.wide}] :
                                 Agree(p[k.name], k.value, k.wide)
  <2>1. PICK v : f.values = {v}
    BY <1>3, SourceAssumption
  <2>2. Fields(r, f) = {f.name}
    BY <1>1, <1>3
  <2>3. Meets(f, p) <=> Agree(p[f.name], v, f.wide)
    BY <1>3, <2>1 DEF Meets
  <2>4. [name : Fields(r, f), value : f.values, wide : {f.wide}]
          = {[name |-> f.name, value |-> v, wide |-> f.wide]}
    <3> DEFINE key == [name |-> f.name, value |-> v, wide |-> f.wide]
               K == [name : Fields(r, f), value : f.values, wide : {f.wide}]
    <3>1. key \in K
      BY <2>1, <2>2
    <3>2. ASSUME NEW k \in K PROVE k = key
      <4>1. k = [name |-> k.name, value |-> k.value, wide |-> k.wide]
        OBVIOUS
      <4>2. k.name = f.name /\ k.value = v /\ k.wide = f.wide
        BY <2>1, <2>2
      <4>. QED
        BY <4>1, <4>2
    <3>. QED
      BY <3>1, <3>2
  <2> DEFINE key == [name |-> f.name, value |-> v, wide |-> f.wide]
  <2>5. (\A k \in {key} : Agree(p[k.name], k.value, k.wide)) <=> Agree(p[f.name], v, f.wide)
    OBVIOUS
  <2>. QED
    BY <2>3, <2>4, <2>5
<1>4. Wants(r, p) <=> \A f \in Range(Filters[r]) : f.kind = "exact" => Meets(f, p)
  BY <1>1, <1>2 DEF Wants, Meets
<1>5. \A k : k \in KeysOf(r) <=> \E f \in Range(Filters[r]) :
         f.kind = "exact" /\ k \in [name : Fields(r, f), value : f.values, wide : {f.wide}]
  BY <1>1, <1>2 DEF KeysOf
<1>. QED
  BY <1>3, <1>4, <1>5

\* The filter of a plain rule for one source is in the bucket of the packets
\* the rule asks for (create_hask_key).
LEMMA BucketHit ==
    ASSUME NEW r \in Rule, Plain(r), NEW p \in Packet, Wants(r, p), TableOf(r) = Hashed
    PROVE  BucketOf(r) = p["srcip"] % Buckets
<1> DEFINE i == Min(SourceFilters(r))
           f == Filters[r][i]
<1>1. SourceFilters(r) # {}
  BY DEF TableOf, Hashed, Unhashed
<1>2. SourceFilters(r) \in SUBSET Nat
  <2>1. DOMAIN Filters[r] \subseteq Nat
    BY SourceAssumption, LenProperties
  <2>. QED
    BY <2>1 DEF SourceFilters
<1>3. i \in SourceFilters(r)
  BY <1>1, <1>2, LeastOf
<1>4. f \in Range(Filters[r]) /\ f.name = "srcip" /\ f.kind = "exact" /\ f.wide = 1
  BY <1>3 DEF SourceFilters, Range, Plain
<1>5. PICK v : f.values = {v}
  BY <1>4, SourceAssumption
<1>6. Source(r) = v /\ v \in Nat
  BY <1>1, <1>5, SourceAssumption DEF Source
<1>7. p["srcip"] \div 1 = v \div 1 /\ p["srcip"] \in Nat
  <2>1. Meets(f, p)
    BY <1>4 DEF Wants, Plain
  <2>. QED
    BY <1>4, <1>5, <2>1, SourceAssumption DEF Meets, Agree
<1>8. p["srcip"] = v
  BY <1>6, <1>7
<1>. QED
  BY <1>1, <1>6, <1>8 DEF BucketOf

\* Where a packet goes
LEMMA ClassOf ==
    ASSUME IInv, MatchInv, Idle, faults = 0, run # "down", NEW p \in Packet
    PROVE  LET hits == Hits(Hashed, p["srcip"] % Buckets, p) \cup Hits(Unhashed, 0, p)
           IN  IF hits = {} THEN Class(p) = DefaultClass
               ELSE \E f \in flows : FilterOf(f) \in hits /\ Class(p) = f.id
<1> DEFINE exact == Hits(Hashed, p["srcip"] % Buckets, p)
           other == Hits(Unhashed, 0, p)
<1>1. filters = {FilterOf(f) : f \in flows}
  BY DEF MatchInv, Filtered, Idle
<1>2. ASSUME NEW hits \in SUBSET filters, hits # {}
      PROVE  \E f \in flows : FilterOf(f) \in hits /\ FirstHit(hits) = f.id
  <2>1. {g.node : g \in hits} \in SUBSET Nat /\ {g.node : g \in hits} # {}
    BY <1>2, FiltersAssumption DEF IInv, KernelInv
  <2>2. FirstHit(hits) \in {g.node : g \in hits}
    BY <2>1, LeastOf DEF FirstHit
  <2>. QED
    BY <1>1, <2>2 DEF FilterOf
<1>3. exact \in SUBSET filters /\ other \in SUBSET filters
  BY DEF Hits
<1>4. CASE exact # {}
  <2>1. Class(p) = FirstHit(exact)
    BY <1>4 DEF Class
  <2> HIDE DEF exact, other
  <2>. QED
    BY <1>2, <1>3, <1>4, <2>1 DEF exact, other
<1>5. CASE exact = {} /\ other # {}
  <2>1. Class(p) = FirstHit(other)
    BY <1>5 DEF Class
  <2>. QED
    BY <1>2, <1>3, <1>5, <2>1
<1>6. CASE exact = {} /\ other = {}
  BY <1>6 DEF Class
<1>. QED
  BY <1>4, <1>5, <1>6

LEMMA MatchHolds == Spec => [](IInv /\ EndsInv /\ MatchInv)
<1>1. Init => EndsInv /\ MatchInv
  BY DEF Init, EndsInv, MatchInv, Filtered
<1>2. IInv /\ EndsInv /\ MatchInv /\ [Next]_vars => EndsInv' /\ MatchInv'
  BY EndsStep, MatchStep
<1>. QED
  BY <1>1, <1>2, Inductive, PTL DEF Spec

\* While the kernel refuses nothing: a packet that a plain rule asks for is in
\* the class of an installed rule, and a packet in the class of a plain rule is
\* one it asks for, whatever other rules are installed beside it.
THEOREM ClassifiedSafe == Spec => []ClassifiedRight
<1>1. IInv /\ EndsInv /\ MatchInv => ClassifiedRight
  <2> SUFFICES ASSUME IInv, EndsInv, MatchInv, faults = 0, Idle,
                      NEW f \in flows, Plain(f.rule), NEW p \in Packet
               PROVE  /\ Wants(f.rule, p) => Class(p) \in {g.id : g \in flows}
                      /\ Class(p) = f.id => Wants(f.rule, p)
    BY DEF ClassifiedRight
  <2> DEFINE hits == Hits(Hashed, p["srcip"] % Buckets, p) \cup Hits(Unhashed, 0, p)
  <2>1. run # "down" /\ f \in Flow /\ f.rule \in Rule /\ f.id \in FlowIds
    BY DEF EndsInv, IInv, CallInv, Flow
  <2>2. filters = {FilterOf(g) : g \in flows} /\ links = tables
    BY <2>1 DEF MatchInv, Filtered, Idle
  <2>3. ASSUME Wants(f.rule, p) PROVE FilterOf(f) \in hits
    <3>1. FilterOf(f) \in filters /\ FilterOf(f).table \in links
      BY <2>2 DEF IInv, KernelInv
    <3>2. \A k \in FilterOf(f).keys : Agree(p[k.name], k.value, k.wide)
      BY <2>1, <2>3, KeysSay DEF FilterOf
    <3>3. \/ FilterOf(f).table = Hashed /\ FilterOf(f).bucket = p["srcip"] % Buckets
          \/ FilterOf(f).table = Unhashed /\ FilterOf(f).bucket = 0
      BY <2>1, <2>3, BucketHit DEF FilterOf, TableOf, BucketOf, Hashed, Unhashed
    <3>. QED
      BY <3>1, <3>2, <3>3 DEF Hits
  <2>4. IF hits = {} THEN Class(p) = DefaultClass
        ELSE \E g \in flows : FilterOf(g) \in hits /\ Class(p) = g.id
    BY <2>1, ClassOf
  <2>5. Wants(f.rule, p) => Class(p) \in {g.id : g \in flows}
    <3> HIDE DEF hits
    <3>. QED
      BY <2>3, <2>4
  <2>6. ASSUME Class(p) = f.id PROVE Wants(f.rule, p)
    <3>1. f.id # DefaultClass
      BY <2>1, IdsApart
    <3>2. FilterOf(f) \in hits
      <4> HIDE DEF hits
      <4>. QED
        BY <2>4, <2>6, <3>1 DEF IInv, CallInv
    <3>3. \A k \in KeysOf(f.rule) : Agree(p[k.name], k.value, k.wide)
      BY <3>2 DEF Hits, FilterOf
    <3>. QED
      BY <2>1, <3>3, KeysSay
  <2>. QED
    BY <2>5, <2>6
<1>. QED
  BY <1>1, MatchHolds, PTL
=============================================================================
