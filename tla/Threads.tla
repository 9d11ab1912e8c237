-------------------------------- MODULE Threads --------------------------------
(***************************************************************************)
(* The build with ENABLE_THREADS and a threaded QOSProcessor.  A handler   *)
(* of QualityManager puts a processor event into in_events and leaves its  *)
(* own event, the parent, in the scheduler as EV_PROCESSING.  A thread     *)
(* takes the processor event, works on its rules and puts a response into  *)
(* out_events.  The byte 'P' makes the main thread collect the responses   *)
(* and schedule them; the handler of a response puts the parent on done.   *)
(*                                                                         *)
(* The worker is one such thread.  The main thread is another: when it     *)
(* collects it first empties in_events itself, with the same code.         *)
(*                                                                         *)
(* A critical section of maccess is one step.  An event that waits for its *)
(* response is handled once a second without effect, and once more when it *)
(* is done, to be freed: these are no steps.                               *)
(***************************************************************************)
EXTENDS Integers, Sequences, FiniteSets, SequencesExt, TLC

CONSTANTS
    Rule, Batch,
    RulesOf,    \* RulesOf[b]: the rules of a submission, which form a rule set
    MayFail,    \* rules whose activation may fail
    Remover,    \* the clients that ask for removals, each once for a batch at most
    Scripts     \* bound: sets of submissions and requests that may come together

ASSUME ThreadsAssumption ==
    /\ RulesOf \in [Batch -> Seq(Rule)]
    /\ MayFail \subseteq Rule
    /\ Remover \cap {"add", "activate", "remove"} = {}

Thread == {"main", "worker"}

\* The events of QualityManager that have the processor do something: the
\* submission of a batch, its activation and removal on schedule, and the request
\* of a client to remove it.
Parent == ({"add", "activate", "remove"} \cup Remover) \X Batch
Removal == {"remove"} \cup Remover

VARIABLES
    parent,     \* where each of these events is
    inEvents,   \* QOSProcessor::in_events: [of, rules], of being the parent
    outEvents,  \* QOSProcessor::out_events, likewise
    responses,  \* responses in EventScheduler, oldest first
    bytes,      \* 'P' bytes in the signal pipe
    task,       \* task[t]: the processor event a thread has in hand
    collecting, \* is the main thread in QOSProcessor::handleFDEvent
    state,      \* Rule::state
    table,      \* rules with an entry in QOSProcessor::rules
    members,    \* members[b]: the rules of b that are registered
    answers,    \* answers to submissions and requests
    run         \* how far run() is

vars == << parent, inEvents, outEvents, responses, bytes, task, collecting,
           state, table, members, answers, run >>
ruleVars == << state, table, members >>

NoTask == << >>

Init ==
    /\ parent = [p \in Parent |-> "absent"]
    /\ inEvents = << >> /\ outEvents = << >> /\ responses = << >>
    /\ bytes = 0
    /\ task = [t \in Thread |-> NoTask]
    /\ collecting = FALSE
    /\ state = [r \in Rule |-> "new"]
    /\ table = {}
    /\ members = [b \in Batch |-> << >>]
    /\ answers = [p \in Parent |-> << >>]
    /\ run = "up"

\* The main thread is in its loop and free for the next event.
Free == run = "up" /\ ~collecting

-----------------------------------------------------------------------------
(* QualityManager: handlers that pass work on *)

\* addEvent: the event has a list of its own of the rules.  The parent is
\* rescheduled every second until it is done.
PassOn(p, rules) ==
    /\ inEvents' = Append(inEvents, [of |-> p, rules |-> rules])
    /\ parent' = [parent EXCEPT ![p] = "processing"]
    /\ UNCHANGED << outEvents, responses, bytes, task, collecting, ruleVars, answers, run >>

Answer(p, text) == answers' = [answers EXCEPT ![p] = Append(@, text)]

HandleAdd(b) ==
    /\ Free /\ parent[<< "add", b >>] = "absent"
    /\ PassOn(<< "add", b >>, RulesOf[b])

\* The batch cannot be parsed.
HandleAddFails(b) ==
    /\ Free /\ parent[<< "add", b >>] = "absent"
    /\ parent' = [parent EXCEPT ![<< "add", b >>] = "freed"]
    /\ Answer(<< "add", b >>, "error")
    /\ UNCHANGED << inEvents, outEvents, responses, bytes, task, collecting, ruleVars, run >>

HandleActivate(b) ==
    /\ Free /\ parent[<< "activate", b >>] = "new"
    /\ PassOn(<< "activate", b >>, members[b])

\* The stop time may lie before the start time: Rule::Rule does not compare them.
HandleRemove(b) ==
    /\ Free /\ parent[<< "remove", b >>] = "new"
    /\ PassOn(<< "remove", b >>, members[b])

\* handlerRemoveRulesCntrlCommThreaded does not look whether the rules are on
\* their way out already.
HandleRequest(c, b) ==
    /\ Free /\ parent[<< c, b >>] = "absent" /\ members[b] # << >>
    /\ PassOn(<< c, b >>, members[b])

\* "no such rule set"
HandleRequestFails(c, b) ==
    /\ Free /\ parent[<< c, b >>] = "absent" /\ members[b] = << >>
    /\ parent' = [parent EXCEPT ![<< c, b >>] = "freed"]
    /\ Answer(<< c, b >>, "error")
    /\ UNCHANGED << inEvents, outEvents, responses, bytes, task, collecting, ruleVars, run >>

-----------------------------------------------------------------------------
(* QOSProcessor::handleFDEvent, in either thread *)

Runs(t) == IF t = "main" THEN collecting /\ run = "up" ELSE run \in {"up", "waiting"}

Begun(e) == << [of |-> e.of, rules |-> e.rules, rest |-> e.rules, seen |-> FALSE] >>
Finished(t) == [of |-> task[t][1].of, rules |-> task[t][1].rules]

Fetch_NotErased(t) ==           \* mutant: front() and erase() are not together
    /\ Runs(t) /\ task[t] = NoTask /\ inEvents # << >>
    /\ task' = [task EXCEPT ![t] = Begun(Head(inEvents))]
    /\ inEvents' \in {inEvents, Tail(inEvents)}
    /\ UNCHANGED << parent, outEvents, responses, bytes, collecting, ruleVars, answers, run >>

\* getNextEvent
Fetch(t) ==
    /\ Runs(t) /\ task[t] = NoTask /\ inEvents # << >>
    /\ task' = [task EXCEPT ![t] = Begun(Head(inEvents))]
    /\ inEvents' = Tail(inEvents)
    /\ UNCHANGED << parent, outEvents, responses, bytes, collecting, ruleVars, answers, run >>

Doing(t, kinds) == Runs(t) /\ task[t] # NoTask /\ task[t][1].of[1] \in kinds
Next1(t) == Head(task[t][1].rest)
Advance(t) ==
    task' = [task EXCEPT ![t] = << [of |-> @[1].of, rules |-> @[1].rules,
                                    rest |-> Tail(@[1].rest), seen |-> FALSE] >>]
OnRule(t) ==
    UNCHANGED << parent, inEvents, outEvents, responses, bytes, collecting,
                 members, answers >>

\* checkRule
Check(t) ==
    /\ Doing(t, {"add"}) /\ task[t][1].rest # << >>
    /\ \E s \in {"valid", "error"} : state' = [state EXCEPT ![Next1(t)] = s]
    /\ Advance(t)
    /\ OnRule(t) /\ UNCHANGED << table, run >>

\* addRules reads the state of the rule before addRule takes the lock.
SeeValid(t) ==
    /\ Doing(t, {"activate"}) /\ task[t][1].rest # << >>
    /\ ~task[t][1].seen
    /\ IF state[Next1(t)] = "valid"
       THEN task' = [task EXCEPT ![t] = << [@[1] EXCEPT !.seen = TRUE] >>]
       ELSE Advance(t)
    /\ OnRule(t) /\ UNCHANGED << state, table, run >>

\* addRule
Install(t) ==
    /\ Doing(t, {"activate"}) /\ task[t][1].seen
    /\ state' = [state EXCEPT ![Next1(t)] = "active"]
    /\ table' = table \cup {Next1(t)}
    /\ Advance(t)
    /\ OnRule(t) /\ UNCHANGED run

\* The Error of addRule passes through handleFDEvent: it ends run(), or the
\* process if it leaves the worker's thread function.
InstallFails(t) ==
    /\ Doing(t, {"activate"}) /\ task[t][1].seen /\ Next1(t) \in MayFail
    /\ run' = IF t = "main" THEN "ended" ELSE "aborted"
    /\ Advance(t)
    /\ OnRule(t) /\ UNCHANGED << state, table >>

\* delRule, for rules that were never activated too
Dismantle(t) ==
    /\ Doing(t, Removal) /\ task[t][1].rest # << >>
    /\ state' = [state EXCEPT ![Next1(t)] = "done"]
    /\ table' = table \ {Next1(t)}
    /\ Advance(t)
    /\ OnRule(t) /\ UNCHANGED run

Respond_NoByte(t) ==            \* mutant: the main thread is not woken
    /\ Runs(t) /\ task[t] # NoTask /\ task[t][1].rest = << >>
    /\ outEvents' = Append(outEvents, Finished(t))
    /\ bytes' = IF t = "main" THEN bytes + 1 ELSE bytes
    /\ task' = [task EXCEPT ![t] = NoTask]
    /\ UNCHANGED << parent, inEvents, responses, collecting, ruleVars, answers, run >>

\* The end of checkRules, addRules and delRules
Respond(t) ==
    /\ Runs(t) /\ task[t] # NoTask /\ task[t][1].rest = << >>
    /\ outEvents' = Append(outEvents, Finished(t))
    /\ bytes' = bytes + 1
    /\ task' = [task EXCEPT ![t] = NoTask]
    /\ UNCHANGED << parent, inEvents, responses, collecting, ruleVars, answers, run >>

Work(t) ==
    \/ Fetch(t) \/ Check(t) \/ SeeValid(t) \/ Install(t) \/ InstallFails(t)
    \/ Dismantle(t) \/ Respond(t)

-----------------------------------------------------------------------------
(* The main thread collects *)

ReadP ==
    /\ Free /\ bytes > 0
    /\ bytes' = bytes - 1
    /\ collecting' = TRUE
    /\ UNCHANGED << parent, inEvents, outEvents, responses, task, ruleVars, answers, run >>

\* in_events was empty; the responses are scheduled.
Collect ==
    /\ run = "up" /\ collecting /\ task["main"] = NoTask /\ inEvents = << >>
    /\ responses' = responses \o outEvents
    /\ outEvents' = << >>
    /\ collecting' = FALSE
    /\ UNCHANGED << parent, inEvents, bytes, task, ruleVars, answers, run >>

-----------------------------------------------------------------------------
(* Handlers of responses.  A parent that was freed is read all the same: the *)
(* process may die of it, the type may be misread, or nothing is noticed.    *)

TakeResponse(kinds) ==
    /\ Free /\ responses # << >>
    /\ Head(responses).of[1] \in kinds
PutOnDone(now, p) == [now EXCEPT ![p] = IF @ = "freed" THEN "freed" ELSE "done"]

\* The entries of q at the places in I, in their order: SelectSeq, in a form that
\* needs no recursion.
Kept(q, I) ==
    [k \in 1 .. Cardinality(I) |->
       q[CHOOSE i \in I : Cardinality({j \in I : j <= i}) = k]]
Valid(rules) == Kept(rules, {i \in DOMAIN rules : state[rules[i]] = "valid"})

\* handlerResponseCheckRules: the valid rules are registered, their activation
\* and removal scheduled.
RespondAdd ==
    /\ TakeResponse({"add"})
    /\ LET p == Head(responses).of
           b == p[2]
           valid == Valid(Head(responses).rules)
       IN  /\ members' = [members EXCEPT ![b] = valid]
           /\ parent' = IF valid = << >> THEN PutOnDone(parent, p)
                        ELSE [PutOnDone(parent, p) EXCEPT
                                ![<< "activate", b >>] = "new", ![<< "remove", b >>] = "new"]
           /\ Answer(p, "added")
    /\ responses' = Tail(responses)
    /\ UNCHANGED << inEvents, outEvents, bytes, task, collecting, state, table, run >>

\* handlerResponseAddRules
RespondActivate ==
    /\ TakeResponse({"activate"})
    /\ parent' = PutOnDone(parent, Head(responses).of)
    /\ responses' = Tail(responses)
    /\ UNCHANGED << inEvents, outEvents, bytes, task, collecting, ruleVars, answers, run >>

\* delRuleEvents for all rules of b: their events are freed, a parent that was
\* handled just now and waits in the list included.
HoldsRules(p, b) == p[2] = b /\ p[1] # "add"
Unscheduled(b) ==
    [p \in Parent |-> IF p \in {<< "activate", b >>, << "remove", b >>}
                      THEN "freed" ELSE parent[p]]

WithoutRules(q, b) == Kept(q, {i \in DOMAIN q : ~HoldsRules(q[i].of, b)})

Reply_Swapped(p) ==             \* mutant: the removal on schedule is answered
    IF p[1] = "remove" THEN Answer(p, "deleted") ELSE UNCHANGED answers

\* Only a client waits for an answer.
Reply(p) == IF p[1] \in Remover THEN Answer(p, "deleted") ELSE UNCHANGED answers

\* handlerResponseDelRules
RespondRemove ==
    /\ TakeResponse(Removal)
    /\ LET p == Head(responses).of
           b == p[2]
       IN  /\ members' = [members EXCEPT ![b] = << >>]
           /\ state' = [r \in Rule |-> IF r \in ToSet(Head(responses).rules) THEN "done" ELSE state[r]]
           /\ responses' = WithoutRules(Tail(responses), b)
           /\ parent' = PutOnDone(Unscheduled(b), p)
           /\ Reply(p)
    /\ UNCHANGED << inEvents, outEvents, bytes, task, collecting, table, run >>

FreedParent ==
    /\ Free /\ responses # << >> /\ parent[Head(responses).of] = "freed"
    /\ \/ run' = "aborted"
       \/ UNCHANGED run
    /\ responses' = Tail(responses)
    /\ UNCHANGED << parent, inEvents, outEvents, bytes, task, collecting, ruleVars, answers >>

-----------------------------------------------------------------------------
(* The end of run() *)

Settled == inEvents = << >> /\ outEvents = << >>

\* waitUntilDone, after a signal
Stop ==
    /\ Free
    /\ run' = IF Settled THEN "ended" ELSE "waiting"
    /\ UNCHANGED << parent, inEvents, outEvents, responses, bytes, task, collecting, ruleVars, answers >>

\* threadCondWait returns when the worker signals doneCond, which it does with
\* both queues empty, or on its own; the queues are looked at again.
WaitReturns ==
    /\ run = "waiting" /\ Settled
    /\ run' = "ended"
    /\ UNCHANGED << parent, inEvents, outEvents, responses, bytes, task, collecting, ruleVars, answers >>

Main ==
    \/ \E b \in Batch : HandleActivate(b) \/ HandleRemove(b)
    \/ Work("main") \/ ReadP \/ Collect
    \/ RespondAdd \/ RespondActivate \/ RespondRemove \/ FreedParent
    \/ WaitReturns

Worker == Work("worker")

Asked == {p \in Parent : p[1] \in {"add"} \cup Remover /\ parent[p] # "absent"}
MayCome(p) == \E s \in Scripts : Asked \cup {p} \subseteq s

Clients == \E b \in Batch :
    \/ MayCome(<< "add", b >>) /\ (HandleAdd(b) \/ HandleAddFails(b))
    \/ \E c \in Remover :
          MayCome(<< c, b >>) /\ (HandleRequest(c, b) \/ HandleRequestFails(c, b))

Next == Main \/ Worker \/ Clients \/ Stop

Spec == Init /\ [][Next]_vars

\* Both threads go on with what they can do.  Clients and signals need not come.
FairSpec == Spec /\ WF_vars(Main) /\ WF_vars(Worker)

-----------------------------------------------------------------------------

\* Where the work of p is: its place in a queue or in the hands of a thread.
Places(p) ==
    LET In(q) == {i \in DOMAIN q : q[i].of = p}
    IN  Cardinality(In(inEvents)) + Cardinality(In(outEvents)) + Cardinality(In(responses))
        + Cardinality({t \in Thread : task[t] # NoTask /\ task[t][1].of = p})

\* While both threads take events from one queue and push to another, an event
\* that was passed on is in exactly one place: no thread does again what the
\* other does, and nothing is lost between the queues.  Only the response to a
\* removal may go with the rules that another removal takes away.
PassedOnOnce == \A p \in Parent :
    /\ Places(p) <= 1
    /\ parent[p] = "processing" /\ (p[1] = "add" \/ members[p[2]] # << >>)
         => Places(p) = 1

\* What clients ask for is answered while the program runs.  A submission is
\* answered always.  A removal that is passed on before the removal on schedule
\* is answered, unless that one overtakes it or another client is told that the
\* rules are deleted: delRuleEvents frees the response that comes second, whose
\* client hears nothing.  No work stays behind in a queue with nobody woken for it.
Told(c, b) == "deleted" \in ToSet(answers[<< c, b >>])
ClientsAnswered == \A b \in Batch :
    /\ parent[<< "add", b >>] = "processing"
         ~> answers[<< "add", b >>] # << >> \/ run # "up"
    /\ \A c \in Remover :
         parent[<< c, b >>] = "processing" /\ parent[<< "remove", b >>] = "new"
           ~> \/ \E d \in Remover : Told(d, b)
              \/ parent[<< "remove", b >>] = "processing"
              \/ run # "up"

\* "wait for packet processor to handle all remaining packets (if threaded)":
\* the wait at the end of run() ends.
WaitEnds == run = "waiting" ~> run # "waiting"
================================================================================
