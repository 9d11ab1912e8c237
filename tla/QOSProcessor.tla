----------------------------- MODULE QOSProcessor -----------------------------
(***************************************************************************)
(* Class QOSProcessor: it checks the rules of a batch, installs the        *)
(* actions of a rule when its time comes, dismantles them when the rule is *)
(* removed, an action's own timer fires or the program goes down.  Every   *)
(* action of a rule takes a module of the loader, a flow identifier and,   *)
(* for the htb module, a class and filters in the kernel and a part of the *)
(* link's bandwidth; any of these can be refused in the middle of a rule.  *)
(*                                                                         *)
(* One step is the work on one action of a rule.  Calls do not overlap:    *)
(* this is the build without ENABLE_THREADS, the one config.h selects.     *)
(***************************************************************************)
EXTENDS FlowIdPool, Integers, FiniteSets, FiniteSetsExt

CONSTANTS
    Rule,           \* the Rule objects, one per rule of a submitted batch
    Actions,        \* Actions[r]: the action list of r, as records
                    \* [module, rate, timed]; timed: its Duration is positive
    Module,         \* module names a rule can mention
    Htb,            \* the module that talks to the kernel; others only malloc
    Loadable,       \* modules the loader finds on disk
    Capacity,       \* Rate of the htb configuration
    MaxFaults       \* bound: how often the kernel refuses a request

Action == [module : Module, rate : Nat, timed : BOOLEAN]

ASSUME QOSAssumption ==
    /\ Actions \in [Rule -> Seq(Action)]
    /\ Htb \in Loadable         \* the first name of Modules, and preloaded
    /\ Loadable \subseteq Module
    /\ Capacity \in Nat
    /\ MaxFaults \in Nat

VARIABLES
    state,      \* Rule::state
    table,      \* keys of `rules' whose entry names its rule
    hollow,     \* actions that map::operator[] made up in `rules'
    flows,      \* installed actions: [rule, act, id]
    pool,       \* idSource
    classes,    \* identifiers of the flow classes the kernel has
    avail,      \* bandwidth_available of htb
    refs,       \* reference count of every module, 0: not loaded
    timers,     \* ProcTimerEvents waiting in the scheduler: <<rule, act>>
    activated,  \* rules addRule was called for
    call,       \* the method that is running
    run,        \* "up", "closing" (destructor), "down" or "crashed"
    faults      \* requests the kernel refused so far

vars == << state, table, hollow, flows, pool, classes, avail, refs, timers,
           activated, call, run, faults >>

NoCall == [op |-> "idle"]
Idle == call = NoCall
Starts(op, r) == call' = [op |-> op, rule |-> r, act |-> 1]

ActionOf(f) == Actions[f.rule][f.act]
Installed(r) == {f \in flows : f.rule = r}

\* The class and the bandwidth an action takes: htb's are real, those of the
\* other modules are not.
ClassOf(a, id) == IF a.module = Htb THEN {id} ELSE {}
RateOf(a) == IF a.module = Htb THEN a.rate ELSE 0

\* A netlink request that fails.
KernelRefuses == faults < MaxFaults /\ faults' = faults + 1

Link(m) == refs' = [refs EXCEPT ![m] = @ + 1]
Unlink(m) == refs' = [refs EXCEPT ![m] = @ - 1]

Init ==
    /\ state = [r \in Rule |-> "new"]
    /\ table = {} /\ hollow = {} /\ flows = {}
    /\ pool = NewPool
    /\ classes = {}
    /\ avail = Capacity
    /\ refs = [m \in Module |-> IF m = Htb THEN 1 ELSE 0]
    /\ timers = {} /\ activated = {}
    /\ call = NoCall
    /\ run = "up"
    /\ faults = 0

-----------------------------------------------------------------------------
(* checkRule: try out every action and take it back at once *)

BeginCheck(r) ==
    /\ run = "up" /\ Idle
    /\ state[r] = "new"
    /\ Starts("check", r)
    /\ UNCHANGED << state, table, hollow, flows, pool, classes, avail, refs,
                    timers, activated, run, faults >>

Current == Actions[call.rule][call.act]
At(op) == call.op = op /\ call.act <= Len(Actions[call.rule])
GoOn == call' = [call EXCEPT !.act = @ + 1]

\* newId and, before the action is left, freeId of the same identifier.
Borrowed_NotReturned == AfterNew(pool)   \* mutant: freeId is missing
Borrowed == AfterFree(AfterNew(pool), NextId(pool))

\* The code after the catch clauses: module released, rule out of the game.
Reject ==
    /\ call' = NoCall
    /\ state' = [state EXCEPT ![call.rule] = "error"]
    /\ UNCHANGED << table, hollow, flows, avail, refs, timers, activated, run >>

\* initFlowSetup is reached.
CheckGetsToSetup ==
    /\ At("check")
    /\ Current.module \in Loadable
    /\ CanIssue(pool)
    /\ RateOf(Current) <= avail

CheckPasses_ClassStays ==       \* mutant: destroyFlowSetup is missing
    /\ CheckGetsToSetup
    /\ pool' = Borrowed
    /\ classes' = classes \cup ClassOf(Current, NextId(pool))
    /\ GoOn
    /\ UNCHANGED << state, table, hollow, flows, avail, refs, timers,
                    activated, run, faults >>

CheckPasses_ProbesMark ==       \* mutant: tries the topmost identifier
    /\ CheckGetsToSetup
    /\ classes' = classes \ ClassOf(Current, pool.num)
    /\ GoOn
    /\ UNCHANGED << state, table, hollow, flows, pool, avail, refs, timers,
                    activated, run, faults >>

CheckPasses ==
    /\ CheckGetsToSetup
    /\ pool' = Borrowed
    /\ classes' = classes \ ClassOf(Current, NextId(pool))
    /\ GoOn
    /\ UNCHANGED << state, table, hollow, flows, avail, refs, timers,
                    activated, run, faults >>

\* getModule or newId throws: there is nothing to give back.
CheckGetsNothing ==
    /\ At("check")
    /\ Current.module \in Loadable => ~CanIssue(pool)
    /\ Reject
    /\ UNCHANGED << pool, classes, faults >>

CheckNoBandwidth ==
    /\ At("check")
    /\ Current.module \in Loadable
    /\ CanIssue(pool)
    /\ RateOf(Current) > avail
    /\ pool' = Borrowed
    /\ Reject
    /\ UNCHANGED << classes, faults >>

\* initFlowSetup throws: no class, or a class whose filters were refused,
\* which nobody removes because flowData is still NULL.
CheckRefused ==
    /\ CheckGetsToSetup
    /\ Current.module = Htb
    /\ KernelRefuses
    /\ pool' = Borrowed
    /\ \E left \in SUBSET {NextId(pool)} : classes' = classes \cup left
    /\ Reject

\* destroyFlowSetup throws; flowData is not reset, so it is called again with
\* memory it has freed.  Should the process survive that, the second call may
\* succeed ...
CheckDestroysTwice ==
    /\ CheckGetsToSetup
    /\ Current.module = Htb
    /\ KernelRefuses
    /\ pool' = Borrowed
    /\ classes' = classes \ {NextId(pool)}
    /\ Reject

\* ... or throw a ProcError, which no handler catches: run() ends.
CheckThrowsOut ==
    /\ CheckGetsToSetup
    /\ Current.module = Htb
    /\ KernelRefuses
    /\ pool' = Borrowed
    /\ classes' = classes \cup {NextId(pool)}
    /\ avail' = avail - RateOf(Current)
    /\ Link(Current.module)
    /\ call' = NoCall
    /\ run' = "closing"
    /\ UNCHANGED << state, table, hollow, flows, timers, activated >>

Crash ==
    /\ run' = "crashed"
    /\ call' = NoCall
    /\ UNCHANGED << state, table, hollow, flows, pool, classes, avail, refs,
                    timers, activated >>

\* The allocator aborts the process at the second free().
CheckAborts ==
    /\ CheckGetsToSetup
    /\ Current.module = Htb
    /\ KernelRefuses
    /\ Crash

EndCheck ==
    /\ call.op = "check" /\ call.act > Len(Actions[call.rule])
    /\ state' = [state EXCEPT ![call.rule] = "valid"]
    /\ call' = NoCall
    /\ UNCHANGED << table, hollow, flows, pool, classes, avail, refs, timers,
                    activated, run, faults >>

CheckStep ==
    \/ CheckPasses \/ CheckGetsNothing \/ CheckNoBandwidth \/ CheckRefused
    \/ CheckDestroysTwice \/ CheckThrowsOut \/ CheckAborts \/ EndCheck

-----------------------------------------------------------------------------
(* addRule: install every action; take back those installed if one fails *)

\* A rule is in one ActivateRules event, so it is added at most once.
BeginAdd(r) ==
    /\ run = "up" /\ Idle
    /\ state[r] = "valid" /\ r \notin activated
    /\ activated' = activated \cup {r}
    /\ Starts("add", r)
    /\ UNCHANGED << state, table, hollow, flows, pool, classes, avail, refs,
                    timers, run, faults >>

\* A ProcTimerEvent, which knows its rule and action by their numbers.
ProcTimer(r, i) == << r, i >>

\* addTimerEvents: getTimers returns one for an action with a Duration.
TimerEvents(a) == IF a.timed THEN {ProcTimer(call.rule, call.act)} ELSE {}

\* The bandwidth is not checked again.
AddInstalls ==
    /\ At("add")
    /\ CanIssue(pool)
    /\ pool' = AfterNew(pool)
    /\ flows' = flows \cup
         {[rule |-> call.rule, act |-> call.act, id |-> NextId(pool)]}
    /\ classes' = classes \cup ClassOf(Current, NextId(pool))
    /\ avail' = avail - RateOf(Current)
    /\ Link(Current.module)
    /\ timers' = timers \cup TimerEvents(Current)
    /\ GoOn
    /\ UNCHANGED << state, table, hollow, activated, run, faults >>

AddFails_NoRollback ==          \* mutant: throws before the rollback
    /\ call' = NoCall
    /\ Link(Current.module)
    /\ UNCHANGED << state, table, hollow, flows, avail, timers, activated, run >>

\* The action that fails is not yet in entry.actions: its module and, if it
\* got one, its identifier are not given back.
AddFails ==
    /\ call' = [call EXCEPT !.op = "undo"]
    /\ Link(Current.module)
    /\ UNCHANGED << state, table, hollow, flows, avail, timers, activated, run >>

AddNoFlowId ==
    /\ At("add")
    /\ ~CanIssue(pool)
    /\ AddFails
    /\ UNCHANGED << pool, classes, faults >>

AddRefused ==
    /\ At("add")
    /\ CanIssue(pool)
    /\ Current.module = Htb
    /\ KernelRefuses
    /\ pool' = AfterNew(pool)
    /\ \E left \in SUBSET {NextId(pool)} : classes' = classes \cup left
    /\ AddFails

EndAdd ==
    /\ call.op = "add" /\ call.act > Len(Actions[call.rule])
    /\ table' = table \cup {call.rule}
    /\ hollow' = {h \in hollow : h[1] # call.rule}
    /\ state' = [state EXCEPT ![call.rule] = "active"]
    /\ call' = NoCall
    /\ UNCHANGED << flows, pool, classes, avail, refs, timers, activated, run,
                    faults >>

IsNext_Strict(f) ==             \* mutant: no action is before itself
    /\ f \in Installed(call.rule)
    /\ \A g \in Installed(call.rule) : f.act < g.act

\* The loops over the action map go by ascending action number.
IsNext(f) ==
    /\ f \in Installed(call.rule)
    /\ \A g \in Installed(call.rule) : f.act <= g.act

Destroyed_RateKept(f) ==        \* mutant: the rate is not returned
    /\ classes' = classes \ ClassOf(ActionOf(f), f.id)
    /\ UNCHANGED << avail, faults >>

Destroyed(f) ==
    /\ classes' = classes \ ClassOf(ActionOf(f), f.id)
    /\ avail' = avail + RateOf(ActionOf(f))
    /\ UNCHANGED faults

NotDestroyed(f) ==
    /\ ActionOf(f).module = Htb
    /\ KernelRefuses
    /\ UNCHANGED << classes, avail >>

Forget(f) ==
    /\ flows' = flows \ {f}
    /\ Unlink(ActionOf(f).module)

UndoAction(f) ==
    /\ call.op = "undo" /\ IsNext(f)
    /\ pool' = AfterFree(pool, f.id)
    /\ Destroyed(f)
    /\ Forget(f)
    /\ UNCHANGED << state, table, hollow, timers, activated, call, run >>

\* A ProcError inside the rollback leaves addRule and ends run(); the local
\* entry, and with it the actions not yet taken back, is lost.
UndoThrowsOut(f) ==
    /\ call.op = "undo" /\ IsNext(f)
    /\ pool' = AfterFree(pool, f.id)
    /\ NotDestroyed(f)
    /\ flows' = flows \ Installed(call.rule)
    /\ call' = NoCall
    /\ run' = "closing"
    /\ UNCHANGED << state, table, hollow, refs, timers, activated >>

\* addRule throws the Error its caller reports; the rule stays valid.
EndUndo ==
    /\ call.op = "undo" /\ Installed(call.rule) = {}
    /\ call' = NoCall
    /\ UNCHANGED << state, table, hollow, flows, pool, classes, avail, refs,
                    timers, activated, run, faults >>

AddStep ==
    \/ AddInstalls \/ AddNoFlowId \/ AddRefused \/ EndAdd \/ EndUndo
    \/ \E f \in flows : UndoAction(f) \/ UndoThrowsOut(f)

-----------------------------------------------------------------------------
(* delRule *)

\* Called for the rules of the database, and by the destructor for those of
\* the table.
BeginDel(r) ==
    /\ Idle
    /\ \/ run = "up" /\ state[r] \in {"valid", "active"}
       \/ run = "closing" /\ r \in table
    /\ Starts("del", r)
    /\ UNCHANGED << state, table, hollow, flows, pool, classes, avail, refs,
                    timers, activated, run, faults >>

DelAction(f) ==
    /\ call.op = "del" /\ IsNext(f)
    /\ Destroyed(f)
    /\ pool' = AfterFree(pool, f.id)
    /\ Forget(f)
    /\ UNCHANGED << state, table, hollow, timers, activated, call, run >>

DelRefused_ReleasesTwice(f) ==  \* mutant: the catch clause releases as well
    /\ call.op = "del" /\ IsNext(f)
    /\ NotDestroyed(f)
    /\ flows' = flows \ {f}
    /\ refs' = [refs EXCEPT ![Htb] = @ - 2]
    /\ UNCHANGED << state, table, hollow, pool, timers, activated, call, run >>

\* The catch clause skips freeId and the action is forgotten all the same.
DelRefused(f) ==
    /\ call.op = "del" /\ IsNext(f)
    /\ NotDestroyed(f)
    /\ Forget(f)
    /\ UNCHANGED << state, table, hollow, pool, timers, activated, call, run >>

\* An action that timeout() made up has no module interface to call.
DelHollow ==
    /\ call.op = "del" /\ \E h \in hollow : h[1] = call.rule
    /\ Crash
    /\ UNCHANGED faults

EndDel_EntryStays ==            \* mutant: rules.erase is missing
    /\ call.op = "del" /\ Installed(call.rule) = {}
    /\ ~\E h \in hollow : h[1] = call.rule
    /\ state' = [state EXCEPT ![call.rule] = "done"]
    /\ call' = NoCall
    /\ UNCHANGED << table, hollow, flows, pool, classes, avail, refs, timers,
                    activated, run, faults >>

EndDel ==
    /\ call.op = "del" /\ Installed(call.rule) = {}
    /\ ~\E h \in hollow : h[1] = call.rule
    /\ table' = table \ {call.rule}
    /\ state' = [state EXCEPT ![call.rule] = "done"]
    /\ call' = NoCall
    /\ UNCHANGED << hollow, flows, pool, classes, avail, refs, timers,
                    activated, run, faults >>

DelStep == DelHollow \/ EndDel \/ \E f \in flows : DelAction(f) \/ DelRefused(f)

-----------------------------------------------------------------------------
(* timeout: the Duration of one action is over *)

\* The scheduler hands over a timer event of a rule that is not done: those
\* of a done rule are dropped before the next event is taken (DropTimers).
Fires(r, i) ==
    /\ run = "up" /\ Idle
    /\ ProcTimer(r, i) \in timers /\ state[r] # "done"
    /\ timers' = timers \ {ProcTimer(r, i)}

TimeoutAction_NotErased(f) ==   \* mutant: the action stays in the entry
    /\ Fires(f.rule, f.act)
    /\ f.rule \in table
    /\ pool' = AfterFree(pool, f.id)
    /\ Destroyed(f) \/ NotDestroyed(f)
    /\ Unlink(ActionOf(f).module)
    /\ UNCHANGED << state, table, hollow, flows, activated, call, run >>

\* The identifier is freed first, before the kernel agrees to let go of it.
TimeoutAction(f) ==
    /\ Fires(f.rule, f.act)
    /\ f.rule \in table
    /\ pool' = AfterFree(pool, f.id)
    /\ Destroyed(f) \/ NotDestroyed(f)
    /\ Forget(f)
    /\ UNCHANGED << state, table, hollow, activated, call, run >>

\* The rule was rolled back but its timer is still queued: rules[rid] and
\* actions[actid] insert empty entries.
TimeoutHollow(r, i) ==
    /\ Fires(r, i)
    /\ r \notin table
    /\ hollow' = hollow \cup {<< r, i >>}
    /\ UNCHANGED << state, table, flows, pool, classes, avail, refs,
                    activated, call, run, faults >>

\* EventScheduler::delRuleEvents, called for every rule that was removed.
DropTimers(r) ==
    /\ run = "up" /\ Idle
    /\ state[r] = "done"
    /\ \E t \in timers : t[1] = r
    /\ timers' = {t \in timers : t[1] # r}
    /\ UNCHANGED << state, table, hollow, flows, pool, classes, avail, refs,
                    activated, call, run, faults >>

-----------------------------------------------------------------------------
(* The destructor deletes the rules of the table, then the loader, whose    *)
(* modules remove the queueing discipline with every class below it.        *)
BeginShutdown ==
    /\ run = "up" /\ Idle
    /\ run' = "closing"
    /\ UNCHANGED << state, table, hollow, flows, pool, classes, avail, refs,
                    timers, activated, call, faults >>

EndShutdown ==
    /\ run = "closing" /\ Idle
    /\ table = {}
    /\ run' = "down"
    /\ classes' = {}
    /\ avail' = 0
    /\ refs' = [m \in Module |-> 0]
    /\ timers' = {}
    /\ UNCHANGED << state, table, hollow, flows, pool, activated, call, faults >>

-----------------------------------------------------------------------------
\* A method that was entered goes on by itself ...
Work == CheckStep \/ AddStep \/ DelStep

\* ... and the main loop decides which one is entered.
Enter ==
    \/ \E r \in Rule : BeginCheck(r) \/ BeginAdd(r) \/ BeginDel(r) \/ DropTimers(r)
    \/ \E f \in flows : TimeoutAction(f)
    \/ \E t \in timers : TimeoutHollow(t[1], t[2])
    \/ BeginShutdown

Next == Work \/ Enter \/ EndShutdown

Spec == Init /\ [][Next]_vars

\* The process gets the processor; nothing obliges it to receive a rule, but
\* the destructor does not return before it is through.
Close == run = "closing" /\ (EndShutdown \/ \E r \in Rule : BeginDel(r))
FairSpec == Spec /\ WF_vars(Work) /\ WF_vars(Close)

-----------------------------------------------------------------------------
Ids == {f.id : f \in flows}

TypeOK ==
    /\ state \in [Rule -> {"new", "valid", "error", "active", "done"}]
    /\ table \subseteq Rule /\ activated \subseteq Rule
    /\ flows \subseteq [rule : Rule, act : Nat \ {0}, id : FlowIds]
    /\ \A f \in flows : f.act <= Len(Actions[f.rule])
    /\ PoolOK(pool)
    /\ classes \subseteq FlowIds
    /\ avail \in Int
    /\ refs \in [Module -> Int]
    /\ timers \subseteq Rule \X (Nat \ {0})
    /\ hollow \subseteq Rule \X (Nat \ {0})
    /\ \/ call = NoCall
       \/ call \in [op : {"check", "add", "undo", "del"}, rule : Rule,
                    act : Nat \ {0}]
    /\ run \in {"up", "closing", "down", "crashed"}
    /\ run \in {"down", "crashed"} => Idle
    /\ faults \in 0 .. MaxFaults

\* Two installed actions never share a flow identifier, hence never a class
\* of the kernel, and newId cannot hand out the identifier of an installed
\* action: every path of addRule, delRule and timeout frees what it must and
\* nothing else, once.
FlowIdsDistinct ==
    /\ \A f, g \in flows : f.id = g.id => f = g
    /\ Ids \subseteq InUse(pool)

\* Every installed htb action has its class: no path deletes the class of
\* another action, not even through an identifier that is used again.
ActiveFlowsInKernel ==
    run \in {"up", "closing"} =>
        \A f \in flows : ClassOf(ActionOf(f), f.id) \subseteq classes

\* An identifier without an action is lost for good; each one is the price of
\* one refused netlink request.  Rollbacks for other reasons lose none.
LeaksBounded == run = "up" => Cardinality(InUse(pool) \ Ids) <= faults

\* A class without an action stays behind only where the kernel refused.
OrphansBounded == run = "up" => Cardinality(classes \ Ids) <= faults

\* What setups took and removals returned adds up: bandwidth_available never
\* grows beyond what is free, and is exact as long as the kernel cooperates.
Reserved == MapThenSumSet(LAMBDA f : RateOf(ActionOf(f)), flows)
BandwidthConserved ==
    run = "up" => /\ avail + Reserved <= Capacity
                  /\ faults = 0 => avail + Reserved = Capacity

\* A module stays loaded while an installed action points into it.
Users(m) == {f \in flows : ActionOf(f).module = m}
ModulesPinned ==
    run = "up" => \A m \in Module :
        refs[m] >= Cardinality(Users(m)) + (IF m = Htb THEN 1 ELSE 0)

\* Between calls a rule is installed completely, except for the actions whose
\* Duration is over, or not at all: no rollback or removal leaves a remainder.
NothingHalfInstalled ==
    run = "up" /\ Idle => \A r \in Rule :
        IF state[r] = "active"
        THEN /\ r \in table
             /\ \A i \in 1 .. Len(Actions[r]) :
                  (\E f \in Installed(r) : f.act = i)
                    <=> (Actions[r][i].timed => << r, i >> \in timers)
        ELSE r \notin table /\ Installed(r) = {}

\* Whatever a call meets on its way, it returns or the process ends.
CallsEnd == ~Idle ~> Idle

\* The destructor gets through the table and leaves no action installed,
\* entries without a rule included, unless the process aborts.
ShutdownEnds == run = "closing" ~> (run = "down" /\ flows = {}) \/ run = "crashed"
=============================================================================
