------------------------------ MODULE HtbFilters ------------------------------
(***************************************************************************)
(* The htb module and the kernel it configures: a root class, a default    *)
(* class, one class per flow, and u32 filters that send packets to the     *)
(* classes.  Filters with one source address go to table 1, into the       *)
(* bucket of the address' last byte; all others into the one bucket of     *)
(* table 2.  A filter is named by table, bucket and flow identifier.       *)
(*                                                                         *)
(* One step is one netlink request, each of which the kernel may refuse;   *)
(* packets are classified at any moment in between.                        *)
(***************************************************************************)
EXTENDS Integers, Sequences, FiniteSets, FiniteSetsExt, Functions

CONSTANTS
    Rule,           \* rules with one action of this module
    Filters,        \* Filters[r]: sequence of filter_t records
                    \* [name, kind, len, values, wide]; values: the set of
                    \* values, the bounds of a range; wide: how many
                    \* neighbouring values the mask takes as one
    Bidir,          \* Bidir[r]: the action's parameter
    Rate,           \* Rate[r]
    Reverse,        \* Reverse[n]: rname of the filter definition, "" if none
    Packet,         \* headers: functions from filter names to values
    Buckets,        \* 256 in the code
    FlowIds,        \* what newId can return, fits the 12 bits of a node
    Capacity,       \* Rate of the module's configuration
    UseIPv6,
    MaxFaults,      \* bound: how often the kernel refuses a request
    MaxDebt         \* bound: how far activations overdraw the bandwidth

Hashed == 1         \* NET_HASH_FILTER_TABLE
Unhashed == 2       \* NET_UNHASH_FILTER_TABLE
RootClass == 1      \* NET_ROOT_HANDLE_MINOR
DefaultClass == 65535   \* NET_DEFAULT_CLASS
EndOfIds == 4094    \* newId stops before it

ASSUME FiltersAssumption ==
    /\ \A id \in FlowIds : id \in Nat /\ 1 < id /\ id < EndOfIds
    /\ Rate \in [Rule -> Int]
    /\ Capacity \in Int
    /\ UseIPv6 \in BOOLEAN
    /\ MaxFaults \in Nat /\ MaxDebt \in Nat

VARIABLES
    minors,     \* minor numbers of the classes
    tables,     \* hash tables
    links,      \* tables that packets are led to
    filters,    \* [table, bucket, node, keys]; a filter's class is its node
    avail,      \* bandwidth_available
    flows,      \* set-up actions: [rule, id]
    call,       \* the function that is running
    run,        \* "new", "up", "closing" or "down"
    faults

vars == << minors, tables, links, filters, avail, flows, call, run, faults >>

Idle == call.op = "idle"
Returns == call' = [op |-> "idle"]
Refused == faults < MaxFaults /\ faults' = faults + 1
Done == UNCHANGED faults

Init ==
    /\ minors = {} /\ tables = {} /\ links = {} /\ filters = {}
    /\ avail = 0
    /\ flows = {}
    /\ call = [op |-> "idle"]
    /\ run = "new"
    /\ faults = 0

-----------------------------------------------------------------------------
(* initModule *)

\* Without the queueing discipline or its two classes there is an exception,
\* which the loader logs: the module counts as loaded, without bandwidth.
RootOnly == {{}, {RootClass}}
InitFails ==
    /\ run = "new"
    /\ Refused
    /\ minors' \in RootOnly
    /\ run' = "up"
    /\ UNCHANGED << tables, links, filters, avail, flows, call >>

\* create_hash_configuration looks at none of the four results; a link to a
\* table that is missing is refused anyway.
TableSets == SUBSET {Hashed, Unhashed}
LinkSets(t) == SUBSET t
HashConfiguration ==
    \E t \in TableSets : \E l \in LinkSets(t) :
        /\ tables' = t /\ links' = l
        /\ faults' = faults + Cardinality({Hashed, Unhashed} \ t) + Cardinality(t \ l)
        /\ faults' <= MaxFaults

InitModule ==
    /\ run = "new"
    /\ minors' = {RootClass, DefaultClass}
    /\ IF UseIPv6 THEN Done /\ UNCHANGED << tables, links >> ELSE HashConfiguration
    /\ avail' = Capacity
    /\ run' = "up"
    /\ UNCHANGED << filters, flows, call >>

-----------------------------------------------------------------------------
(* The filter of a rule *)

\* create_hask_key: the first filter for one source address.
SourceFilters(r) ==
    {i \in DOMAIN Filters[r] : /\ Filters[r][i].name = "srcip"
                               /\ Filters[r][i].kind = "exact"}
Source(r) == CHOOSE v \in Filters[r][Min(SourceFilters(r))].values : TRUE

\* A filter for one value holds one; addresses have four bytes.
ASSUME SourceAssumption ==
    /\ Buckets \in Nat \ {0}
    /\ \A r \in Rule :
         /\ SourceFilters(r) # {} => Source(r) \in Nat
         /\ Filters[r] \in Seq(Range(Filters[r]))
         /\ \A f \in Range(Filters[r]) :
              f.kind = "exact" => \E v \in f.values : f.values = {v}
    /\ \A p \in Packet : p["srcip"] \in Nat

TableOf(r) == IF SourceFilters(r) = {} THEN Unhashed ELSE Hashed

BucketOf(r) == IF SourceFilters(r) = {} THEN 0 ELSE Source(r) % Buckets

\* u32_add_key_filter knows three lengths; modify_filter knows two kinds.  A
\* bidirectional rule asks for the value in the opposite field as well.
HasKeys(f) == f.kind \in {"exact", "set"} /\ f.len \in {1, 2, 4}
Fields(r, f) == {f.name} \cup IF Bidir[r] THEN {Reverse[f.name]} \ {""} ELSE {}
KeysOf_FirstOnly(r) ==          \* mutant: the loop ends after one filter
    LET f == Filters[r][1]
    IN  IF HasKeys(f) THEN [name : Fields(r, f), value : f.values, wide : {f.wide}] ELSE {}
KeysOf(r) ==
    UNION {[name : Fields(r, f), value : f.values, wide : {f.wide}]
             : f \in {g \in Range(Filters[r]) : HasKeys(g)}}

FilterOf(f) ==
    [table |-> TableOf(f.rule), bucket |-> BucketOf(f.rule), node |-> f.id,
     keys |-> KeysOf(f.rule)]

SameHandle(a, b) ==
    a.table = b.table /\ a.bucket = b.bucket /\ a.node = b.node

-----------------------------------------------------------------------------
(* initFlowSetup: the class, then the filter *)

\* QOSProcessor::checkRule; a check is a setup that is taken down at once.
Check(r, id) ==
    /\ run = "up" /\ Idle
    /\ avail - Rate[r] >= 0             \* checkBandWidth
    /\ call' = [op |-> "class", rule |-> r, id |-> id, probe |-> TRUE, again |-> FALSE]
    /\ UNCHANGED << minors, tables, links, filters, avail, flows, run, faults >>

\* QOSProcessor::addRule, for a rule that passed its check some time ago; it
\* does not ask for the bandwidth again.
Activate(r, id) ==
    /\ run = "up" /\ Idle
    /\ Rate[r] <= Capacity /\ \A f \in flows : f.rule # r
    /\ avail - Rate[r] >= 0 - MaxDebt
    /\ call' = [op |-> "class", rule |-> r, id |-> id, probe |-> FALSE, again |-> FALSE]
    /\ UNCHANGED << minors, tables, links, filters, avail, flows, run, faults >>

Current == [rule |-> call.rule, id |-> call.id]

\* NLM_F_CREATE alone: a class that exists is changed.
AddClass ==
    /\ call.op = "class"
    /\ RootClass \in minors
    /\ minors' = minors \cup {call.id}
    /\ call' = [call EXCEPT !.op = "filter"]
    /\ UNCHANGED << tables, links, filters, avail, flows, run, faults >>

AddClassFails ==
    /\ call.op = "class"
    /\ RootClass \in minors => faults < MaxFaults
    /\ faults' = IF RootClass \in minors THEN faults + 1 ELSE faults
    /\ Returns
    /\ UNCHANGED << minors, tables, links, filters, avail, flows, run >>

\* A filter that exists under this handle keeps its keys.
Filed(f) ==
    IF \E g \in filters : SameHandle(FilterOf(f), g)
    THEN filters ELSE filters \cup {FilterOf(f)}

AddFilter_FreeOfCharge ==       \* mutant: the rate is not taken
    /\ call.op = "filter"
    /\ TableOf(call.rule) \in tables
    /\ filters' = Filed(Current)
    /\ flows' = flows \cup {Current}
    /\ IF call.probe THEN call' = [call EXCEPT !.op = "remove"] ELSE Returns
    /\ UNCHANGED << minors, tables, links, avail, run, faults >>

AddFilter ==
    /\ call.op = "filter"
    /\ TableOf(call.rule) \in tables
    /\ filters' = Filed(Current)
    /\ avail' = avail - Rate[call.rule]
    /\ flows' = flows \cup {Current}
    /\ IF call.probe THEN call' = [call EXCEPT !.op = "remove"] ELSE Returns
    /\ UNCHANGED << minors, tables, links, run, faults >>

\* The exception leaves the class behind.
AddFilterFails ==
    /\ call.op = "filter"
    /\ TableOf(call.rule) \in tables => faults < MaxFaults
    /\ faults' = IF TableOf(call.rule) \in tables THEN faults + 1 ELSE faults
    /\ Returns
    /\ UNCHANGED << minors, tables, links, filters, avail, flows, run >>

-----------------------------------------------------------------------------
(* destroyFlowSetup: the filter, then the class *)

Remove(f) ==
    /\ run \in {"up", "closing"} /\ Idle
    /\ call' = [op |-> "remove", rule |-> f.rule, id |-> f.id, probe |-> FALSE,
                again |-> FALSE]
    /\ UNCHANGED << minors, tables, links, filters, avail, flows, run, faults >>

DeleteFilter_Stays ==           \* mutant: the request is prepared, not sent
    /\ call.op = "remove"
    /\ \E g \in filters : SameHandle(FilterOf(Current), g)
    /\ call' = [call EXCEPT !.op = "unclass"]
    /\ UNCHANGED << minors, tables, links, filters, avail, flows, run, faults >>
DeleteFilter ==
    /\ call.op = "remove"
    /\ \E g \in filters : SameHandle(FilterOf(Current), g)
    /\ filters' = {g \in filters : ~SameHandle(FilterOf(Current), g)}
    /\ call' = [call EXCEPT !.op = "unclass"]
    /\ UNCHANGED << minors, tables, links, avail, flows, run, faults >>

\* The exception.  delRule forgets the flow with its class, its filter and its
\* bandwidth.  checkRule tries again, and does not catch a second exception.
Thrown ==
    IF call.probe /\ ~call.again
    THEN /\ call' = [call EXCEPT !.op = "remove", !.again = TRUE]
         /\ UNCHANGED << flows, run >>
    ELSE /\ flows' = flows \ {Current}
         /\ run' = IF call.again THEN "closing" ELSE run
         /\ Returns

DeleteFilterFails ==
    /\ call.op = "remove"
    /\ IF \E g \in filters : SameHandle(FilterOf(Current), g) THEN Refused ELSE Done
    /\ Thrown
    /\ UNCHANGED << minors, tables, links, filters, avail >>

\* The flow data was freed in the first attempt.
CheckAborts ==
    /\ call.op = "remove" /\ call.again
    /\ flows' = {}
    /\ Returns
    /\ run' = "down"
    /\ UNCHANGED << minors, tables, links, filters, avail, faults >>

\* The kernel keeps a class that a filter leads to.
Unused(id) == \A g \in filters : g.node # id

DeleteClass ==
    /\ call.op = "unclass"
    /\ Unused(call.id)
    /\ minors' = minors \ {call.id}
    /\ avail' = avail + Rate[call.rule]
    /\ flows' = flows \ {Current}
    /\ Returns
    /\ UNCHANGED << tables, links, filters, run, faults >>

DeleteClassFails ==
    /\ call.op = "unclass"
    /\ IF Unused(call.id) THEN Refused ELSE Done
    /\ Thrown
    /\ UNCHANGED << minors, tables, links, filters, avail >>

-----------------------------------------------------------------------------
(* destroyModule *)

\* ~QOSProcessor has removed every flow.  With IPv6 nothing is tried.
Ending == run \in {"up", "closing"} /\ Idle /\ flows = {}

DeleteDefault ==
    /\ Ending /\ ~UseIPv6
    /\ DefaultClass \in minors
    /\ minors' = minors \ {DefaultClass}
    /\ call' = [op |-> "root"]
    /\ UNCHANGED << tables, links, filters, avail, flows, run, faults >>

\* The default class is not deleted: ProcError.
DestroyLeaves ==
    /\ Ending
    /\ IF UseIPv6 \/ DefaultClass \notin minors THEN Done ELSE Refused
    /\ run' = "down"
    /\ UNCHANGED << minors, tables, links, filters, avail, flows, call >>

\* The queueing discipline takes everything below it along.
Emptied == minors' = {} /\ tables' = {} /\ links' = {} /\ filters' = {}

\* Nobody looks at the result of qdisc_delete_root_HTB.
DeleteRoot ==
    /\ call.op = "root"
    /\ \/ Emptied /\ Done
       \/ Refused /\ UNCHANGED << minors, tables, links, filters >>
    /\ avail' = 0
    /\ run' = "down"
    /\ Returns
    /\ UNCHANGED flows

\* An identifier is lent to one flow at a time; one whose removal failed may
\* come back (QOSProcessor::timeout frees it first).
CanUse(id) == \A f \in flows : f.id # id

Next ==
    \/ InitModule \/ InitFails
    \/ \E r \in Rule, id \in FlowIds :
         CanUse(id) /\ (Check(r, id) \/ Activate(r, id))
    \/ AddClass \/ AddClassFails \/ AddFilter \/ AddFilterFails
    \/ \E f \in flows : Remove(f)
    \/ DeleteFilter \/ DeleteFilterFails \/ CheckAborts
    \/ DeleteClass \/ DeleteClassFails
    \/ DeleteDefault \/ DestroyLeaves \/ DeleteRoot

Spec == Init /\ [][Next]_vars

-----------------------------------------------------------------------------
(* Where the kernel sends a packet *)

Agree(v, w, wide) == v \div wide = w \div wide

\* The filters of a bucket are tried by node; one without keys takes all.
Hits(t, b, p) ==
    {g \in filters : /\ g.table = t /\ t \in links /\ g.bucket = b
                     /\ \A k \in g.keys : Agree(p[k.name], k.value, k.wide)}
FirstHit(hits) == Min({g.node : g \in hits})

Class(p) ==
    LET exact == Hits(Hashed, p["srcip"] % Buckets, p)
        other == Hits(Unhashed, 0, p)
    IN  CASE exact # {} -> FirstHit(exact)
          [] exact = {} /\ other # {} -> FirstHit(other)
          [] OTHER -> DefaultClass

\* What the rule's author asked for.
Meets(f, p) ==
    CASE f.kind = "wild" -> TRUE
      [] f.kind = "range" -> Min(f.values) <= p[f.name] /\ p[f.name] <= Max(f.values)
      [] OTHER -> \E v \in f.values : Agree(p[f.name], v, f.wide)
Back(p) == [n \in DOMAIN p |-> IF Reverse[n] = "" THEN p[n] ELSE p[Reverse[n]]]
Wants(r, p) ==
    \/ \A f \in Range(Filters[r]) : Meets(f, p)
    \/ Bidir[r] /\ \A f \in Range(Filters[r]) : Meets(f, Back(p))

\* The rules the module can express.
Plain(r) ==
    /\ ~Bidir[r]
    /\ \A f \in Range(Filters[r]) :
         \/ f.kind = "wild"
         \/ f.kind = "exact" /\ f.len \in {1, 2, 4} /\ (f.name = "srcip" => f.wide = 1)

-----------------------------------------------------------------------------
(* Properties *)

\* Type invariant; the bucket of a filter exists in its table, and no two
\* flows share an identifier.
TypeOK ==
    /\ minors \subseteq FlowIds \cup {RootClass, DefaultClass}
    /\ links \subseteq tables /\ tables \subseteq {Hashed, Unhashed}
    /\ \A g \in filters :
         /\ g.table \in tables
         /\ g.bucket \in IF g.table = Hashed THEN 0 .. Buckets - 1 ELSE {0}
         /\ g.node \in FlowIds
    /\ avail \in Int
    /\ flows \subseteq [rule : Rule, id : FlowIds]
    /\ \A f, g \in flows : f.id = g.id => f = g
    /\ Idle \/ call = [op |-> "root"]
       \/ call \in [op : {"class", "filter", "remove", "unclass"}, rule : Rule,
                      id : FlowIds, probe : BOOLEAN, again : BOOLEAN]
    /\ run \in {"new", "up", "closing", "down"}
    /\ faults \in 0 .. MaxFaults

\* While the kernel refuses nothing and between calls: a packet that an
\* installed rule asks for has the class of an installed rule, and a rule's
\* class gets no packet the rule does not ask for.  True of the rules that
\* are plain, beside any others (modify_filter, create_hash_configuration).
ClassifiedRight ==
    faults = 0 /\ Idle =>
        \A f \in flows : Plain(f.rule) =>
            \A p \in Packet :
                /\ Wants(f.rule, p) => Class(p) \in {g.id : g \in flows}
                /\ Class(p) = f.id => Wants(f.rule, p)

\* Between calls, with both tables in place and before the end, every refusal leaves at most
\* one flow's class or filter behind, and no flow without its own.
LeftoversBounded ==
    Idle /\ run # "down" /\ tables = {Hashed, Unhashed} =>
        Cardinality({id \in FlowIds :
              \/ /\ id \in minors \/ \E g \in filters : g.node = id
                 /\ \A f \in flows : f.id # id
              \/ \E f \in flows : /\ f.id = id
                                  /\ id \in minors => FilterOf(f) \notin filters}) <= faults

\* The module implements the service that QOSProcessor relies on: class,
\* filter and bandwidth are taken together and given back together.
Cell(f) == [id |-> f.id, rate |-> Rate[f.rule]]
S == INSTANCE HtbService WITH
        Ids <- FlowIds, Rates <- Range(Rate),
        held <- {Cell(f) : f \in flows},
        classes <- minors \ {RootClass, DefaultClass},
        avail <- avail
Service == S!Spec

\* "Creates a new htb rule and the filters for classify the packets"
\* (getModuleInfo): no packet that an installed rule asks for is left in the
\* default class.
WantedIsServed ==
    faults = 0 /\ Idle =>
        \A f \in flows, p \in Packet : Wants(f.rule, p) => Class(p) # DefaultClass
=============================================================================
