---------------------------- MODULE QualityManager ----------------------------
(***************************************************************************)
(* The program around QOSProcessor: class QualityManager takes one event   *)
(* after the other and its handlers call RuleManager, EventScheduler and   *)
(* QOSProcessor.  A batch of rules is checked, registered and put on the   *)
(* schedule; its rules are activated and removed by scheduled events,      *)
(* removed earlier on request, and kept for a while once they are done.    *)
(*                                                                         *)
(* A handler is a sequence of steps, one per rule and call; nothing else   *)
(* is handled before it ends.  Time is abstract: an event is handled at    *)
(* any moment, but never before one that is due earlier.                   *)
(***************************************************************************)
EXTENDS FlowIdPool, Integers, FiniteSets, FiniteSetsExt

CONSTANTS
    Rule, Actions, Module, Htb, Loadable, Capacity, MaxFaults,
    Batches,        \* the submissions: Batches[b] is a sequence of rules
    RuleSet,        \* RuleSet[r] and
    RuleName,       \* RuleName[r]: the names under which r is registered
    Start,          \* Start[r]: when r is to be activated
    Stop,           \* Stop[r]: when r is to be removed, 0: never
    DoneListSize    \* 50 in the code

\* The parsers make a Rule object of its own for every rule of a submission.
ASSUME ManagerAssumption ==
    /\ Batches \in Seq(Seq(Rule))
    /\ \A b, c \in DOMAIN Batches :
         \A i \in DOMAIN Batches[b], j \in DOMAIN Batches[c] :
            Batches[b][i] = Batches[c][j] => b = c /\ i = j
    /\ Start \in [Rule -> Nat] /\ Stop \in [Rule -> Nat]
    /\ DoneListSize \in Nat \ {0}

VARIABLES
    state, table, hollow, flows, pool, classes, avail, refs, timers,
    activated, call, run, faults,
    waiting,    \* batches nobody submitted yet
    db,         \* rules RuleManager::ruleDB points to
    index,      \* ruleSetIndex: the rule registered under set and name
    ruleDone,   \* RuleManager::ruleDone
    freed,      \* Rule objects that were deleted
    queue,      \* scheduled events [type, time, no, rules]; events of the
                \* same time are in the order of no
    job         \* the handler that is running

procVars == << state, table, hollow, flows, pool, classes, avail, refs, timers,
               activated, call, run, faults >>
mgrVars == << waiting, db, index, ruleDone, freed, queue, job >>
vars == << procVars, mgrVars >>

Proc == INSTANCE QOSProcessor

NoJob == [op |-> "none"]
Key(r) == << RuleSet[r], RuleName[r] >>
Mentions(e, r) == r \in ToSet(e.rules)

Init ==
    /\ Proc!Init
    /\ waiting = DOMAIN Batches
    /\ db = {} /\ index = << >>
    /\ ruleDone = << >> /\ freed = {}
    /\ queue = {}
    /\ job = NoJob

Free == run = "up" /\ job = NoJob /\ Proc!Idle
Doing(op) == run = "up" /\ job.op = op /\ Proc!Idle
Next1 == Head(job.rest)
Advance == job' = [job EXCEPT !.rest = Tail(@)]

-----------------------------------------------------------------------------
(* EventScheduler *)

\* multimap::insert puts an event behind those of the same time.
Behind(time) == 1 + Max({0} \cup {e.no : e \in {f \in queue : f.time = time}})
AddEvent(type, time, rules) ==
    queue' = queue \cup {[type |-> type, time |-> time, no |-> Behind(time),
                          rules |-> rules]}

\* The event in front, begin() of the multimap.
IsNextEvent(e) ==
    \A f \in queue : e.time < f.time \/ (e.time = f.time /\ e.no <= f.no)

\* Event::deleteRule takes out the first occurrence.
WithoutRule_FirstOnly(q, r) ==  \* mutant: stops at the first event it is in
    {e \in {IF \A f \in q : Mentions(f, r) => e.time <= f.time
           THEN [e EXCEPT !.rules = RemoveFirst(@, r)] ELSE e : e \in q} :
        e.rules # << >>}

\* delRuleEvents: the rule leaves every event, an empty event goes.
WithoutRule(q, r) ==
    {e \in {[e EXCEPT !.rules = RemoveFirst(@, r)] : e \in q} : e.rules # << >>}

-----------------------------------------------------------------------------
(* ADD_RULES: check all rules, register the valid ones, schedule *)

Submit(b) ==
    /\ Free
    /\ b \in waiting
    /\ waiting' = waiting \ {b}
    /\ job' = [op |-> "check", rest |-> Batches[b], all |-> Batches[b]]
    /\ UNCHANGED << procVars, db, index, ruleDone, freed, queue >>

CheckNext ==
    /\ Doing("check") /\ job.rest # << >>
    /\ Proc!BeginCheck(Next1)
    /\ Advance
    /\ UNCHANGED << waiting, db, index, ruleDone, freed, queue >>

Registering(rest, start, stop) ==
    job' = [op |-> "register", rest |-> rest, all |-> job.all,
            start |-> start, stop |-> stop]

CheckedAll ==
    /\ Doing("check") /\ job.rest = << >>
    /\ Registering(job.all, << >>, << >>)
    /\ UNCHANGED << procVars, waiting, db, index, ruleDone, freed, queue >>

\* The maps start and stop of addRules: the rules to be activated or removed
\* at a time, in the order they came.  map[time].push_back(r):
PushBack(map, time, r) ==
    [t \in DOMAIN map \cup {time} |->
        IF t # time THEN map[t]
        ELSE Append(IF t \in DOMAIN map THEN map[t] ELSE << >>, r)]

Ending_NotShort(r) ==           \* mutant: off by one, no event for a short rule
    Stop[r] > Start[r] + 1
Ending(r) == Stop[r] # 0

IndexWith(r) ==
    [k \in DOMAIN index \cup {Key(r)} |-> IF k = Key(r) THEN r ELSE index[k]]

\* RuleManager::addRule, for a rule that passed the check.
Register ==
    /\ Doing("register") /\ job.rest # << >>
    /\ state[Next1] = "valid"
    /\ Key(Next1) \notin DOMAIN index
    /\ db' = db \cup {Next1}
    /\ index' = IndexWith(Next1)
    /\ Registering(Tail(job.rest),
                   PushBack(job.start, Start[Next1], Next1),
                   IF Ending(Next1) THEN PushBack(job.stop, Stop[Next1], Next1)
                   ELSE job.stop)
    /\ UNCHANGED << procVars, waiting, ruleDone, freed, queue >>

\* A rule that failed the check is passed over without a word.
PassOver ==
    /\ Doing("register") /\ job.rest # << >>
    /\ state[Next1] # "valid"
    /\ Registering(Tail(job.rest), job.start, job.stop)
    /\ UNCHANGED << procVars, waiting, db, index, ruleDone, freed, queue >>

\* The name is taken: the rule is deleted; a batch of one ends in an error.
Duplicate ==
    /\ Doing("register") /\ job.rest # << >>
    /\ state[Next1] = "valid"
    /\ Key(Next1) \in DOMAIN index
    /\ freed' = freed \cup {Next1}
    /\ IF Len(job.all) = 1 THEN job' = NoJob
       ELSE Registering(Tail(job.rest), job.start, job.stop)
    /\ UNCHANGED << procVars, waiting, db, index, ruleDone, queue >>

\* One event per entry of the maps, in the order of the times: first the
\* activations, then the removals.
Least(time, map) == time \in DOMAIN map /\ \A t \in DOMAIN map : time <= t
Without(map, time) == Restrict(map, DOMAIN map \ {time})

ScheduleActivation(time) ==
    /\ Doing("register") /\ job.rest = << >>
    /\ Least(time, job.start)
    /\ AddEvent("activate", time, job.start[time])
    /\ Registering(job.rest, Without(job.start, time), job.stop)
    /\ UNCHANGED << procVars, waiting, db, index, ruleDone, freed >>

ScheduleRemoval(time) ==
    /\ Doing("register") /\ job.rest = << >> /\ DOMAIN job.start = {}
    /\ Least(time, job.stop)
    /\ AddEvent("remove", time, job.stop[time])
    /\ Registering(job.rest, job.start, Without(job.stop, time))
    /\ UNCHANGED << procVars, waiting, db, index, ruleDone, freed >>

ScheduledAll ==
    /\ Doing("register") /\ job.rest = << >>
    /\ DOMAIN job.start = {} /\ DOMAIN job.stop = {}
    /\ job' = NoJob
    /\ UNCHANGED << procVars, waiting, db, index, ruleDone, freed, queue >>

Schedule ==
    \/ Doing("register") /\ \E t \in DOMAIN job.start : ScheduleActivation(t)
    \/ Doing("register") /\ \E t \in DOMAIN job.stop : ScheduleRemoval(t)
    \/ ScheduledAll

-----------------------------------------------------------------------------
(* ACTIVATE_RULES and REMOVE_RULES: the first event of the queue *)

Handle(e) == job' = [op |-> e.type, rest |-> e.rules, all |-> e.rules]

Dispatch_StaysQueued(e) ==      \* mutant: evt.erase is missing
    /\ Free
    /\ IsNextEvent(e)
    /\ Handle(e)
    /\ UNCHANGED << procVars, waiting, db, index, ruleDone, freed, queue >>

Dispatch(e) ==
    /\ Free
    /\ IsNextEvent(e)
    /\ queue' = queue \ {e}
    /\ Handle(e)
    /\ UNCHANGED << procVars, waiting, db, index, ruleDone, freed >>

ActivateNext ==
    /\ Doing("activate") /\ job.rest # << >>
    /\ Proc!BeginAdd(Next1)
    /\ Advance
    /\ UNCHANGED << waiting, db, index, ruleDone, freed, queue >>

ActivatedAll ==
    /\ Doing("activate") /\ job.rest = << >>
    /\ job' = NoJob
    /\ UNCHANGED << procVars, waiting, db, index, ruleDone, freed, queue >>

\* RemoveRulesCtrlEvent names one rule, or a whole set.
Request(keys) ==
    /\ Free
    /\ keys # {}
    /\ LET named == SetToSeq({index[k] : k \in keys})
       IN  job' = [op |-> "remove", rest |-> named, all |-> named]
    /\ UNCHANGED << procVars, waiting, db, index, ruleDone, freed, queue >>

RequestRule == \E k \in DOMAIN index : Request({k})
RequestSet == \E s \in {k[1] : k \in DOMAIN index} :
                 Request({k \in DOMAIN index : k[1] = s})

RemoveNext ==
    /\ Doing("remove") /\ job.rest # << >>
    /\ Proc!BeginDel(Next1)
    /\ Advance
    /\ UNCHANGED << waiting, db, index, ruleDone, freed, queue >>

RemovedAll ==
    /\ Doing("remove") /\ job.rest = << >>
    /\ job' = [op |-> "unregister", rest |-> job.all, all |-> job.all]
    /\ UNCHANGED << procVars, waiting, db, index, ruleDone, freed, queue >>

IndexWithout_Stale(r) ==        \* mutant: the set forgets the rule, not the name
    IF \E q \in db \ {r} : RuleSet[q] = RuleSet[r]
    THEN index ELSE Restrict(index, DOMAIN index \ {Key(r)})
IndexWithout(r) == Restrict(index, DOMAIN index \ {Key(r)})

\* storeRuleAsDone: the oldest of too many done rules is deleted.
TooMany(done) == Len(done) > DoneListSize
Trimmed_NotPopped(done) ==      \* mutant: deleted, but still in the list
    done
Trimmed(done) == IF TooMany(done) THEN Tail(done) ELSE done
Trimmings(done) == IF TooMany(done) THEN {Head(done)} ELSE {}

TimersWithout_All(r) ==         \* mutant: the answer of deleteRule is not looked at
    {}
TimersWithout(r) == {t \in timers : t[1] # r}

\* RuleManager::delRule.
Unregister ==
    /\ Doing("unregister") /\ job.rest # << >>
    /\ LET done == Append(ruleDone, Next1)
       IN  ruleDone' = Trimmed(done) /\ freed' = freed \cup Trimmings(done)
    /\ db' = db \ {Next1}
    /\ index' = IndexWithout(Next1)
    /\ queue' = WithoutRule(queue, Next1)
    /\ timers' = TimersWithout(Next1)
    /\ Advance
    /\ UNCHANGED << state, table, hollow, flows, pool, classes, avail, refs,
                    activated, call, run, faults, waiting >>

UnregisteredAll ==
    /\ Doing("unregister") /\ job.rest = << >>
    /\ job' = NoJob
    /\ UNCHANGED << procVars, waiting, db, index, ruleDone, freed, queue >>

-----------------------------------------------------------------------------
(* PROC_MODULE_TIMER, and what QOSProcessor does inside a call *)

Timer ==
    /\ Free
    /\ \/ \E f \in flows : Proc!TimeoutAction(f)
       \/ \E t \in timers : Proc!TimeoutHollow(t[1], t[2])
    /\ UNCHANGED mgrVars

\* An exception leaves the handler: the Error of a failed addRule ends the
\* activation of its batch, a ProcError ends run().
HandlerLeft ==
    \/ call.op = "undo" /\ call' = Proc!NoCall
    \/ run' # run

Working ==
    /\ Proc!Work
    /\ job' = IF HandlerLeft THEN NoJob ELSE job
    /\ UNCHANGED << waiting, db, index, ruleDone, freed, queue >>

Stopping ==
    /\ \/ Free /\ Proc!BeginShutdown
       \/ run = "closing" /\ \E r \in Rule : Proc!BeginDel(r)
       \/ Proc!EndShutdown
    /\ UNCHANGED mgrVars

-----------------------------------------------------------------------------
Handling ==
    \/ CheckNext \/ CheckedAll \/ Register \/ PassOver \/ Duplicate \/ Schedule
    \/ ActivateNext \/ ActivatedAll
    \/ RemoveNext \/ RemovedAll \/ Unregister \/ UnregisteredAll
    \/ Working

Next ==
    \/ \E b \in DOMAIN Batches : Submit(b)
    \/ RequestRule \/ RequestSet
    \/ \E e \in queue : Dispatch(e)
    \/ Timer
    \/ Handling
    \/ Stopping

Spec == Init /\ [][Next]_vars

\* Once entered, a handler and the destructor go on; the event that is due is
\* handled sooner or later.  Submissions, requests and timers need not come.
Closing == run = "closing" /\ Stopping
Dispatching == \E e \in queue : Dispatch(e)
FairSpec == Spec /\ WF_vars(Handling) /\ WF_vars(Dispatching) /\ WF_vars(Closing)

-----------------------------------------------------------------------------

\* What QOSProcessor takes for granted of its caller: each method meets a rule
\* in a state it is made for, addRule once at most, and no timer outlives its
\* rule.
CallerKeepsProtocol ==
    /\ run = "up" /\ Proc!Idle /\ job # NoJob /\ job.rest # << >> =>
         /\ job.op = "check" => state[Next1] = "new"
         /\ job.op = "activate" =>
              Next1 \in db /\ state[Next1] = "valid" /\ Next1 \notin activated
         /\ job.op = "remove" => Next1 \in db /\ state[Next1] \in {"valid", "active"}
         /\ job.op = "unregister" => Next1 \in db /\ state[Next1] = "done"
    /\ Free => \A t \in timers : t[1] \in db

\* The two ways to look up a rule agree: the index names exactly the rules of
\* the database, each under its own name.
IndexMatchesDb ==
    /\ \A k \in DOMAIN index : index[k] \in db /\ Key(index[k]) = k
    /\ \A r \in db : Key(r) \in DOMAIN index /\ index[Key(r)] = r

\* Between handlers the schedule fits the database: a registered rule with a
\* stop time is in exactly one removal, any other in none, and only a rule
\* that was not activated yet waits for its activation.
Count(type, r) ==
    Cardinality({e \in queue : e.type = type /\ Mentions(e, r)})
ScheduleMatchesDb ==
    Free => \A r \in Rule :
        /\ Count("remove", r) = IF r \in db /\ Stop[r] # 0 THEN 1 ELSE 0
        /\ Count("activate", r) <= IF r \in db \ activated THEN 1 ELSE 0
        /\ state[r] = "active" => r \in db

\* No list, event, timer or table entry still points to a deleted rule.
NothingDangles ==
    \A r \in freed :
        /\ r \notin db \cup table \cup ToSet(ruleDone)
        /\ \A e \in queue : ~Mentions(e, r)
        /\ \A t \in timers : t[1] # r
        /\ job # NoJob => r \notin ToSet(job.rest)

\* A rule with a stop time does not stay for ever, whatever became of its
\* activation, unless the program ends before.
RulesEnd == \A r \in Rule :
    r \in db /\ Stop[r] # 0 ~> r \notin db \/ run # "up"

\* Whatever the handlers do, they use QOSProcessor as its own module says it
\* can be used: what is shown there of any caller is true of this program.
UsesProcessor == Proc!Spec

\* Every handler returns to the main loop, or the main loop ends.
HandlersEnd == job # NoJob ~> job = NoJob
=============================================================================
