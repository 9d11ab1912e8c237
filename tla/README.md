# Verification of the QualityManager (NETQoS) daemon

The daemon installs quality-of-service rules on a network interface. A client
submits a batch of rules over an HTTP control channel; each rule has a list of
filters, a list of actions, a start and perhaps a stop time. At the start time
the actions of a rule are installed: for the `htb` module a traffic class and
its filters in the kernel, a flow identifier and a share of the link's bandwidth.
At the stop time, on request, or when an action's own `Duration` is over, they
are dismantled.

The specifications follow a rule through this life: from the text of a request,
over the control channel, the loop of events, the handlers and QOSProcessor, to
the classes and filters of the kernel, which may refuse any request. `config.h`
does not define `ENABLE_THREADS`, so one thread runs everything; that build is
what is modelled, except in Threads, which is about the other one, and in
Control, which is about both.

## Inventory

| component | state | operations | models |
|---|---|---|---|
| `FlowIdSource` | `num`, `freeIds` | `newId`, `freeId` | FlowIdPool, FlowIdSource |
| `RuleIdSource` | `num`, `freeIds`, `idReserved` | `newId`, `freeId` | RuleIdSource, Rules |
| `QOSProcessor` | `rules` (rule to actions), `idSource`, `loader`; `in_events`, `out_events` | `checkRule`, `addRule`, `delRule`, `timeout`, destructor; `main`, `waitUntilDone` | QOSProcessor, Threads |
| `htb` module, kernel | `bandwidth_available`; classes, hash tables, filters | `initModule`, `checkBandWidth`, `initFlowSetup`, `destroyFlowSetup`, `destroyModule` | QOSProcessor, HtbService, HtbFilters, Startup |
| `tbf` module | memory of a flow | the same functions | QOSProcessor |
| `ModuleLoader`, `Module`, `ProcModule` | loaded modules, reference counts, parameters | `getModule`, `releaseModule`, constructors | QOSProcessor, Startup |
| `EventScheduler`, `Event` | events by time | `addEvent`, `getNextEvent`, `reschedNextEvent`, `getNextEventTime`, `delRuleEvents` | EventLoop, QualityManager |
| `RuleManager`, `Rule` | `ruleDB`, `ruleSetIndex`, `ruleDone`, `tasks` | `parseRules`, `addRules`, `delRules`, lookups, `getInfo` | QualityManager, Rules, RuleInfo |
| `RuleFileParser`, `MAPIRuleParser`, `ParserFcts` | - | text to rules | Rules, FilterValues |
| `FilterDefParser`, `FilterValParser`, `FilterValue` | definition lists | files to definitions, text to values | FilterValues |
| `QualityManager` | components, signal pipe, lock file | constructor, one handler per event, `run` | QualityManager, EventLoop, Threads, Startup |
| `QualityManagerComponent`, threads | mutex, condition, pipe | worker loop, `handleFDEvent` | Threads |
| `CtrlComm`, `httpd`, `nqrsh` | connections, `fds`, access list, `retEvent` | accept, parse, answer, time out | Control |
| `ConfigManager`, `ConfigParser`, `CommandLineArgs` | settings | read, merge, look up | Config |
| `Logger` | channels and files | open, move, log | Config, Startup |
| `main` | - | start, exit | Startup |
| `PageRepository`, `PerfTimer`, `tree.hh`, `getopt_long` | - | - | none |

**How they interact.** `QualityManager::run` takes one event at a time and calls
a handler. `CtrlComm` turns an HTTP request into an event that holds the request,
so that its handler can answer. A submission is parsed into `Rule` objects,
checked (`QOSProcessor::checkRules`: every action is installed and taken back
at once), registered (`RuleManager::addRules`) and put on the schedule as one
activation per start time and one removal per stop time. An activation calls
`QOSProcessor::addRules`, which queues the actions' timers directly in the
scheduler. A removal calls `QOSProcessor::delRules`, then
`RuleManager::delRules`, which drops the events of the rule and keeps the
`Rule` object in a list of done rules until that list is full. Rules are shared
as raw pointers between the database, the done list, the events and
QOSProcessor's table. In the threaded build the handlers put the work into a
queue, and what they would do next is done when the response comes back.

**What is hard.** Every action takes several things, any of which can fail in
the middle of a rule, with two exception types (`Error`, `ProcError`) that are
not related. Bandwidth is checked at submission and taken at activation. Timers
outlive the activation that queued them. Identifiers are recycled while classes
the kernel refused to delete still exist. Rules are removed in states nobody
wrote a test for. A request outlives its connection, or is parsed again while
it waits. Two threads serve one queue. A daemon that was killed leaves its
lock and its queueing discipline behind. `PROJECT.json` lists each of these
under `hazards`, at its line.

## Modules

**FlowIdPool, FlowIdSource, IdAllocator.** `FlowIdPool` has the two methods of
`FlowIdSource` as functions on a pool `[num, freeIds]`; QOSProcessor uses the
same functions. `FlowIdSource` is a state machine of a user who follows the
header's rule, and `IdAllocator` says what the header promises: an identifier
that is not in use, refusal only when all are lent. `idReserved` is never filled
and the processor's source has `unique = 0`; both are fixed here.

**RuleIdSource.** The 16-bit counter of rule numbers with three reserved values
and both modes of the constructor, as functions that Rules uses.

**QOSProcessor.** One step is the work of one method on one action of a rule.
`call` is the running method; calls do not overlap. `flows` holds the actions
that are installed, with their identifier, `table` the rules with an entry in
`rules`, `hollow` the empty actions `map::operator[]` makes up, `classes` the
kernel's flow classes, `timers` the `ProcTimerEvent`s in the scheduler. A netlink
request may be refused in each place where the code reacts to it
(`KernelRefuses`, at most `MaxFaults` times):

- in `checkRule`, `initFlowSetup` throws and may leave a class behind whose
  filters were refused; `destroyFlowSetup` throws, and is called again with flow
  data it has already freed. That second `free` is undefined behaviour and has
  three outcomes: the process aborts, survives, or the second call throws a
  `ProcError` that no handler catches;
- in `addRule`, the rollback takes back the actions entered so far; a failure of
  the rollback itself ends `run()`;
- in `delRule` and `timeout`, the catch clause forgets the action.

The end of `run()` and of the process are the values of `run`: `closing` is the
destructor, in the order of the members of `QualityManager`, `down` its end.

**HtbService, HtbFilters.** `HtbService` says what the htb module is to
QOSProcessor: a budget and a set of classes, taken and given back together, or
left behind by a failure. `HtbFilters` is the module itself, one step per netlink
request, with what the kernel makes of them: a root and a default class, the two
hash tables, one filter per flow in the bucket of its source address, and the
class a packet gets (`Class(p)`), which is asked at every moment between two
requests. `destroyModule` is two requests as well, and the code looks at the result of
the first only (`DeleteDefault`, `DeleteRoot`). It is shown to implement `HtbService`.

**QualityManager.** The handlers around QOSProcessor, one step per rule and call,
composed with `Proc == INSTANCE QOSProcessor` over the same variables: the
composition decides when a method of QOSProcessor is entered (`Proc!BeginCheck`,
...) and lets it run (`Proc!Work`), and it is shown to implement QOSProcessor
(`UsesProcessor`). `job` is the running handler, `queue` the
activations and removals by time. The assumptions QOSProcessor makes of its
caller are an invariant here (`CallerKeepsProtocol`). Timers are kept apart from
`queue`: as their times are arbitrary, a timer may fire whenever no handler runs.

**EventLoop.** The loop of `run()` that takes the events, with the signal pipe,
`select()` and the clock. A round arms (`getNextEventTime`), sleeps, reads one
byte or looks at the connections, and handles at most one event; signals,
requests and the clock come in at any point, and a signal may find the thread
asleep (`EINTR`) or not. Time is relative: `wait` is what an event has to go, so
no bound on the clock is needed; a lateness beyond the timer's interval is the
same as one of the interval, as the scheduler moves an event that is more than a
second late to the present. What the handlers do to rules is in QualityManager,
which takes the order by time from here; here a rule is only where it stands.

**Threads.** The threaded build. A handler puts a processor event into
`inEvents` and leaves its own event, the parent, as `EV_PROCESSING`; a thread
takes the processor event, works on the rules and puts a response into
`outEvents`; a byte `'P'` makes the main thread collect the responses. The worker
is one such thread and the main thread another, since `handleFDEvent` empties
`in_events` itself before it collects. A critical section of the mutex is one
step. `waitUntilDone` is the value `waiting` of `run`. A batch is removed by the
schedule and by each client of `Remover` once; nothing in the handlers keeps several
of these removals from being on their way together, and nothing does here.

**Control.** `httpd` and `CtrlComm` between the clients and the queue of events.
A call of `httpd_handle_event` visits one connection after the other; the phases
of a visit are steps (read, timeouts, parse, write, finish), as the code goes
through them, with `retEvent` as part of the call. Connections have the states of
`struct REQUEST`; `rset` and `wset` are what `select()` waits for. The event of a
connection that was freed keeps its pointer (`of = "freed"`). `retEvent` is reset by
`handleFDEvent` and not by `processCmd`, so a page parsed behind a task in one call
takes the task's event for itself and queues it again: `by` is who made an event, `of`
whose request it has, and `obj` tells the entries that are one object (`PushStale`). A
request parsed a second time has lost the lines of its head, and with them
`Connection` (`Parsed`). The access list is
resolved from the configuration with mapped addresses, as the peers of an IPv6
socket have them.

**FilterValues, Rules, RuleInfo.** `FilterValues` has the pure part: which texts
a type accepts and what is stored, the two definition files, and a filter of a
rule. An operator `Parses...` says that the code throws no `Error`, the operator
beside it what it returns. `Rules` makes the rules of an XML or MAPI request one
after the other: the number, the filters, the actions with global and own
parameters, and the running time the constructor computes; then the rules are
checked, entered under number and name, and removed by name, by set or by the
schedule. `Scan` is the MAPI parser's walk over the options of a line, with the
variables it keeps from line to line. `RuleInfo` is what `get_info` answers.

**Config, Startup.** `Config` has the settings as operators: the file, the command
line, the list they are merged into with its lookup by name, group and module,
and the log files. `Startup` runs daemons of one host: every access to the lock
file is a step, then the constructor (logger and settings, processor with its
module, control channel), the service, and every way to end: an exit with or
without the destructors, an exception out of a destructor, a kill.

## Runs

| run | asks | result |
|---|---|---|
| FlowIdSource | is the pool an allocator, with nothing lost | holds |
| QOSProcessor | checks, activation, rollback, removal, timers and shutdown under two refusals: is everything accounted for, and does every call end | holds |
| HtbFilters | do packets get the class of their rule, is the module the service QOSProcessor relies on | holds |
| HtbMasked | is a rule for a network served | no |
| QualityManager | do database, index, schedule, timers and objects agree; do rules with a stop time go; is QOSProcessor used as it allows | holds |
| EventLoop | are requests, due events and signals all served; how early can an event be | holds |
| Threads | is work passed on once between the threads, are clients answered | holds |
| ThreadsStop | does the wait at the end of `run()` end | no |
| Control | are connections watched, requests taken once, the access list kept and clients answered | holds |
| ControlOnce | does a request make one event | no |
| Rules | have rules the content and running time their text asks for, are they found, is none lost, is what clients are told true | holds |
| Startup | does one daemon serve, with its own qdisc and the settings it was given | holds |

What the properties say, where it takes more than a line:

- `FlowIdsDistinct`: every path of `addRule`, `delRule` and `timeout` frees the
  identifiers it must, once, and no others. The kernel may keep a class
  (`timeout` frees the identifier before it asks), so `ActiveFlowsInKernel` says
  separately that no action loses its class when an identifier is used again.
- `LeaksBounded`, `OrphansBounded`, `BandwidthConserved`: the losses the code
  accepts on a refused request are exactly those; everything else is returned.
- `NothingHalfInstalled`: between calls a rule is installed except for actions
  whose duration is over, or not at all.
- `ClassifiedRight`: packets that a rule without masks asks for are in a class of
  an installed rule, and a rule's class gets no other packets, beside rules of
  every kind and with identifiers used again. `LeftoversBounded`: one refusal
  leaves at most one flow's objects behind. `Service`: refinement of HtbService.
- `ScheduleMatchesDb`, `NothingDangles`: `delRuleEvents` finds every event of a
  rule, so that no event, list or timer keeps a pointer to a deleted `Rule`.
- `EarlyBounded`: the bytes that wake the loop and the events they are written
  for get out of step by one for each `SIGUSR1`, and not otherwise.
- `PassedOnOnce`: an event that was passed on is in exactly one place, although
  both threads take from one queue and push to another.
- `ClientsAnswered`: a submission is answered. Of the removals of a batch only the one
  whose response is handled first is sure to be: `delRuleEvents` frees a response of the
  same rules that waits behind it, and its client hears nothing (EventScheduler.cpp:101).
  So the promise is that some client is told, unless the schedule overtakes them all.
- `Watched`: when the thread sleeps, each connection is waited for in the one
  set its state needs. `WholePostsOnce`: a POST that came complete makes one
  event (`made` counts what `processCmd` makes, not what it queues again).
  `PendingEvents`: an event that answers another request than its own is a copy that a
  later connection's visit of the same call left; connections are visited from the
  youngest to the oldest, so the request that gets it is of an older one. And in the
  build without threads a complete POST waits until its own event is handled.
  `PolicyKept`: nobody the access list keeps out has a request read. `Answered`: a
  client that stays is answered or its connection is closed.
- `FindsOwn`: names and numbers lead to the same rule, until all numbers were
  issued. `NoneLost`: each `Rule` object is in one place, through requests that
  fail at their n-th rule. `WindowKept`, `ContentKept`: the running time and
  the content are those of the rule's own text. `InfoAgrees`: the task list, the
  count of tasks and the lookup of one task agree with what is registered.
- `OneServes`, `QdiscHeld`, `SettingsHeld`: the lock works across crashes and
  identifiers that other processes got; a daemon's qdisc outlives the starts
  of others, and not its own end unless the kernel refuses to delete the root, when its
  tables stay without the default class, once for each refusal (htb.cpp:384); log, port and interface are those the precedence
  of command line, file and default asks for.

### Where program and documentation differ

Three runs show it, and `PROJECT.json` quotes the lines under `findings`:

- ThreadsStop: `waitUntilDone` waits for `out_events` to be empty, which only the
  thread that waits empties (QOSProcessor.cpp:925).
- ControlOnce: a command sent by GET, or by a POST whose body came later, stays
  in a parse state and runs again at each visit before its answer (httpd.c:290).
- HtbMasked: a filter with a mask is put into the bucket of one address (htb.cpp:479).

Others are part of the models, and the properties that hold take them into account:

- RuleIdSource in its default mode takes a number that is lent back as free
  (RuleIdSource.cpp:78); RuleManager uses the other mode.
- Bandwidth is checked when a batch is submitted and taken at activation, so
  `bandwidth_available` goes below zero without any fault (htb.cpp:722).
- The timer of an activation that was rolled back inserts an entry without
  contents into the table (QOSProcessor.cpp:1036), and the rollback keeps the
  module reference of the failing action (QOSProcessor.cpp:623).
- A batch is answered "rule(s) added" though rules of it were dropped
  (QualityManager.cpp:534).
- The surplus wake-up byte after a `SIGUSR1` takes an event early
  (EventScheduler.cpp:186).
- The range check of numbers asks for a value below the minimum and above the
  maximum, which there is none of (ParserFcts.cpp:45); the stop time is not
  compared with the start (Rule.cpp:113); the MAPI parser stays for ever on a
  token after `-w` (MAPIRuleParser.cpp:166).
- The filters of a rule become keys of one u32 filter, all of which must match:
  a set of two values, or a rule in both directions, matches no packet that has
  one of them (htb.cpp:557, 576). `ClassifiedRight` leaves such rules out of
  what it promises and keeps them beside the others.
- A page parsed behind a task in one call of `httpd` takes the task's event for itself and
  queues it a second time (CtrlComm.cpp:533): the task is not answered, and the event,
  which is "freed by event scheduler" (line 385), is freed twice. `PendingEvents` bounds
  where such copies go.
- `exit_fct` unlinks `netmate.pid`, another name than the lock's, so the lock file
  of an ended daemon is found by the next one, which looks for its process.

### Bounds

`MCQOSProcessor`: four rules and three identifiers (`Limit = 5`), so that two
rules of two actions cannot both be installed and an activation fails at its
second action; rates 1, 2 and 1 against a capacity of 3; timed and untimed
actions, the second module, and one module that does not exist. Two refusals are
enough for one in an activation and one in what follows it. `FlowIdSource` has six
identifiers of 4092.

`MCHtbFilters`: seven rules, one for each way a filter can be built, three
identifiers, two buckets of 256, packets with source and destination in 0..3, so
that each bucket has two addresses; two refusals, so that the root of a module that
lost a class may stay as well, and activations may overdraw
the bandwidth by one (`MaxDebt`). HtbMasked needs no refusal and two rules.

`MCQualityManager`: two batches of two, one name used twice, one shared set, one
rule without a stop time, two rules that start together and stop apart; two
identifiers, so activations fail in the middle; one place in the list of done
rules, so removals delete earlier rules; one refusal. Every wait of the code is a
choice, so longer schedules add no new order of two events.

`MCEventLoop`: one rule of the file and one client who submits again and again,
the control channel on or off, a timer of two ticks, two `SIGUSR1` and one
`SIGINT`, so that surplus bytes add up and meet an empty queue. Clients that are
readable together are served together, so a second one adds nothing but orders.

`MCThreads`: two batches, one of two rules, so that both threads have work at the same
time, and an activation may fail at its second rule; or that batch alone and two clients
that ask for its removal, each once, so three removals may be on their way together. What
comes together is a set of `Scripts`: with all of it at once there are too many states. A
third client of the same batch behaves like the second.

`MCControl`: two clients of one host that an access list admits or keeps out, both
builds. One sends tasks by GET and POST, whole or in two pieces, and may give up at
any time; the other asks for a page, or for what is not there. At most three
events are queued: a third command is read when there is room. A client sends its
next request when the last is read, and one write of an answer may be partial.
Clients are seen between two calls of `handleFDEvent`: what comes during a call
could have come before it. The two timeouts are one flag `late` of a connection. It
is not set while an event of the connection waits for its handler (`Tick`): events are
handled in the round that makes them, or in those right after it, and a handler that ran
for the 60 seconds of the timeout would be needed. In the threaded build an event that
was passed on may outlive its connection, and its answer then goes to freed memory
(httpd.c:276); so does the second copy of an event that was queued twice. Nothing is
promised after that (`run = "undefined"`), and an event that has lost its request is
handled before a further call (`Room`). All requests are HTTP/1.1.

`MCRules`: seven documents that differ in what the parsers, the constructor and the
index treat differently, a sound definition file and one that lacks a reverse
attribute, two requests, a clock to 4, one place for done rules. `Top = 4` of 65535
leaves two numbers beside the reserved ones, so they come round within the run;
what follows when a number meets a rule that has it is not explored. `TmShift` is what
`mktime` may add when `tm_isdst` is not set, `{0, -1}`.

`MCStartup`: three starts, of which two at most are alive together, so that one
may find what another left; nine command lines and files; two faults among kills,
refused requests and identifiers taken by other processes. Daemons are
interchangeable and symmetric. Once two daemons have looked at the lock at the same
moment (`raced`), only their ports are compared, as the lock promises nothing then,
and nothing fails any more (`MayFail`).

`CHECK_DEADLOCK FALSE` is set where the system may stop: after the shutdown or a
crash, with all rules done, all requests sent or all daemons over. FlowIdSource never
stops.

### Fairness

A thread goes on, and nothing is assumed of clients, signals, module timers or
the kernel.

- QOSProcessor and QualityManager: a method or handler that was entered goes on
  (`WF_vars(Work)`, `WF_vars(Handling)`), the destructor does not return before it
  is through (`WF_vars(Close)`, `WF_vars(Closing)`), and as `getNextEventTime`
  makes `select` return whenever an event is due, the first event of the queue is
  handled sooner or later (`WF_vars(Dispatch)`).
- EventLoop: the thread and the clock go on (`WF_vars(Step)`, `WF_vars(Tick)`). A
  round that does not sleep lasts at most `Slow` ticks, less than the timer's
  interval (5 s in `httpd.c`). Where rounds last longer the timer is due in
  every round, the pipe is never empty when `select` returns, and a client
  waits for ever: `ServedToEnd` needs the bound.
- Threads: both threads go on (`WF_vars(Main)`, `WF_vars(Worker)`): the worker's
  wait ends after 10 ms even without a signal.
- Control: the main thread goes on (`WF_vars(Server)`). The handler of an event
  runs sooner or later though requests keep coming (`SF_vars(Responds)`: the byte
  of a response is read before the connections are looked at), and the timeout of
  a connection passes whatever the thread does in between (`SF_vars(Tick(c))`).

## Proofs

Every theorem holds for all values of the constants that meet the assumption of its
module, which says no more than what kind of value each constant is, unless stated
below.

| module | theorem | says |
|---|---|---|
| QOSProcessorProofs | `SourceTypeCorrect`, `AccountedHolds` | the mark and the queue of FlowIdSource account for every identifier |
| | `KeepsPromise` | FlowIdSource implements IdAllocator |
| | `TypeCorrect` | the state keeps its type |
| | `DistinctFlowIds` | installed actions have distinct identifiers, none of which `newId` can return |
| | `FlowsInKernel` | installed actions have their classes |
| | `LeaksSafe`, `OrphansSafe` | lent identifiers and classes without an action are no more than refused requests |
| | `BandwidthSafe` | what is available and what is installed make up the capacity, without a refusal; never more |
| | `ModulesStay` | a module is referenced at least once for each installed action |
| | `InstallationsWhole` | between calls an active rule has all its actions that are due, another rule none |
| QualityManagerProofs | `ProtocolKept` | each method of QOSProcessor meets its rule in the state it is made for |
| | `IndexSafe` | index and database agree |
| | `ScheduleSafe` | schedule and database agree between handlers |
| | `NothingDanglesSafe` | nothing points to a deleted `Rule` |
| | `Refinement` | QualityManager implements QOSProcessor |
| EventLoopProofs | `EarlySafe` | at most one event early for each `SIGUSR1` |
| ThreadsProofs | `TypeCorrect`, `OnceSafe` | passed-on work is in exactly one place, whatever the threads do |
| ControlProofs | `TypeCorrect`, `WatchedSafe` | a connection is watched for what its state needs when the thread sleeps |
| | `PostsOnce` | a complete POST makes one event at most |
| | `PolicySafe` | no request of a client that the access list keeps out is looked at |
| | `EventsStand` | events answer their own request or, as copies, one of an older connection; complete POSTs wait for theirs |
| HtbFiltersProofs | `TypeCorrect` | tables and module keep their type, every filter is in a bucket there is |
| | `ServiceHolds` | HtbFilters implements HtbService |
| | `LeftoversSafe` | a refusal leaves at most one flow's objects behind |
| | `ClassifiedSafe` | packets are in the classes of the rules that ask for them, while nothing is refused |
| RulesProofs | `TypeCorrect` | objects, lists and requests keep their form |
| | `WaysAgree` | numbers and names lead to the rules that bear them |
| | `PlacesKept` | each `Rule` object is in one place |
| | `InfoTells` | the answers of `get_info` agree with the registry |
| StartupProofs | `InvHolds` | files, lock, modules and kernel fit together |
| | `LockKept` | without a race one daemon serves, which the lock names; ports are apart in any case |
| | `KernelKept` | what a daemon set up stays while it serves and goes with it, but for refused requests |

**The pool.** The first part of `QOSProcessorProofs` proves what the two methods do to the set of lent
identifiers (`InUse`) of a well-formed pool: `newId` adds one that was not in it,
`freeId` removes one, whichever branch it takes, and refusal means the set is full.
The inductive invariant of FlowIdSource is `TypeOK /\ Accounted`.

**QOSProcessor** has three layers of invariants.

- `TypeOK /\ FlowIdsDistinct /\ ActiveFlowsInKernel`: distinctness needs the second
  half of `FlowIdsDistinct`, that installed identifiers are lent by the pool, to know
  that `newId` returns a new one; classes stay because a deleted class is always that
  of an identifier nobody else has. The proofs go method by method (`CheckKeeps`,
  `AddKeeps`, `DelKeeps`, `EnterKeeps`); within a method a step installs nothing
  (`NothingInstalled`), installs one action, or removes some (`ActionRemoved`).
- `AccountInv` is about what is lost. Each step has one of a few effects on
  identifiers, classes, references and bandwidth (`Effect`), and each effect keeps
  each account. `OrphansBounded` is not inductive: an action of another module may
  hold the identifier of an orphaned class for a while, so the invariant counts the
  classes without an `htb` action (`OrphansCounted`). The bandwidth is a sum over the
  installed flows; that it does not depend on the order of summation is proved from
  the definition of the fold, by the least number principle (`Least`) as the
  library's induction has an operator for a parameter.
- `PhaseInv` says how far a call has got: `addRule` has installed exactly the actions
  before the one it is at, a call works on a rule in the state it was called for, and
  a rule no call works on is installed as its state says (`Whole`).

**QualityManager.** `IInv` says where every rule is: in a batch nobody submitted
(`Newcomers`), in the handler that runs (`CallInJob`, `Removing`), in the database and
on the schedule (`Registered`, `Schedules`, `Removals`), or gone. None of the four
properties is inductive alone: that the schedule mentions only rules of the database
needs to know which rules the running handler has behind it and which before it, and
that in turn what the call of QOSProcessor is about. `ManagerAssumption` says that a
rule object is in one place of one batch, as the parser makes a new object for each
rule. `Refinement` takes the steps one by one; with it, all that is proved of
QOSProcessor for any caller holds in the daemon.

**EventLoop.** `RoundInv`: the alarms in the pipe are for due events, except for those
a dump has put behind (`Paid`); between `getNextEventTime` and the read of the pipe one
more alarm may be on its way, and then the first event is due and nothing is inserted
before it (`Owing`). The timer interval is positive (`LoopAssumption`).

**Threads.** `WorkOf(p)` counts the places a parent event's work is in: three queues
and two hands. `OnceInv` bounds it by one, and makes it zero before the event is
passed on. It needs `AddInv` and `FirstInv`: a batch has no rules, and no other event
of it is passed on, until the response to its submission is handled.

**Control.** `ControlInv` has these parts. `HostInv`: a connection that has a state
other than `CLOSE` was let in. `OnceInv`: in which states a complete POST has made its
event. `NamesInv`: lists have no duplicates, and no list, call or event names a
connection that is not open. `WatchInv`: what holds of a connection between two visits
(`Calm`), in each phase of its own visit (`Visited`), and that what `select()` said at the
start of a call still holds for the connections not visited yet; `Watched` is no
invariant during a call, so it is this part that carries it from one sleep to the
next. `PendingEvents` needs a second invariant beside it, `EventsInv`: `HeldInv`, its
first part; `PlaceInv`, that the connections still to be visited are the last of the list
and what made the event in `retEvent` stands at or before the visited one, so that a copy
goes to an older one; and, in the build without threads only, `PostsInv`: the connection
that made the event of a complete POST is in `PROCESS` and not late, no other event
answers it, and no event answers a connection that is about to be read. A visit is the
same for each of these: lemma `VisitKept` shows once that what a phase does to one
connection (`Effect`) leaves the others as they are, and each phase is shown to be
such an effect. The proof needs that a client's name is not `"freed"`
(`ControlAssumption`), which is what the model writes for a freed connection.

**HtbFilters.** `IInv` has three parts: `KernelInv` about classes, tables and filters,
`CallInv`, which says what the running function has done so far, and `CountInv` about
the budget before the module is there and the number of faults. Lemma `Inductive`
proves it action by action; in `ServiceHolds` each step then maps to a step of
HtbService or to a stutter. `CallInv` is what the refinement needs: only from it
follows that the flow a function takes down is one that is held. `LeftInv` counts the
identifiers of which the kernel has something else than it should (`Odd`); a step is
about one identifier (`About`) and makes it odd only if it pays with a refusal. That a
filter beside a flow's own counts as odd is the strengthening: an identifier that comes
back with a leftover filter in another bucket is in order for `LeftoversBounded` until
its flow goes. `MatchInv` says that without a refusal the filters are those of the flows;
from it and from what a plain rule's keys say (`KeysSay`, `BucketHit`) follows where
packets go. Identifiers stay below the reserved minor numbers, rates and the capacity
are integers, a filter of one value has one, and addresses are numbers
(`FiltersAssumption`, `SourceAssumption`).

**Rules.** `IInv` is the type with a count of the numbers that were issued (`FewIssued`)
and, until two rules have met in a number (`collided`), three parts: the lists of objects
are apart (`Apart`), the lists hold what they are for (`Lists`), and number, set and name
lead to the same object (`Ways`). None of `FindsOwn` and `NoneLost` is inductive
alone: that a removed rule leaves no name behind needs that it was found by its name, and
that it was in no other list. `FewIssued` is what turns a collision into all numbers having
been issued: a source that never queues a number goes through all that are not reserved.
What the documents are does not matter: a rule keeps the name and the set it was made
with, whatever the parsers make of the rest of it.

**Startup.** `IInv` has a part that holds always and one that holds until two daemons have
looked for each other at the same moment (`raced`). To the first belong `Typed`, that a log
is never the lock's file; `PortsApart`; and `Owned`, that a qdisc belongs to a daemon
between its module's start and its end, or to one that has ended, and has no default
class if that one ended in order and left tables; and `Few`, that those who left tables
are no more than the requests that were refused. To the second belong `LockInv`, that one daemon at most looks at the lock, and what it
has found so far is the lock of the one that serves; and `Whole`, that
what the one that serves set up is whole. `LockInv` is why a stale lock does no harm: the
daemon that finds it is past `ps` only if nobody serves. A step is shown to leave the
lock alone (`Quiet`), to be one of alreadyRunning (`Checks`), or to change nothing
(`Untouched`), and for the kernel to be of one of five kinds (`Kinds`). That a new
file is none that a daemon has open follows from a count: there are more files in the model than
daemons and names (`RoomForOne`). `StartupAssumption` says that there are finitely
many daemons, whose identifiers are not `Nobody`, and that an interface has a name.

**Model-checked only.** Liveness, which is out of the prover's reach, and with it
`CallsEnd`, `ShutdownEnds`, `RulesEnd`, `HandlersEnd`, `ServedToEnd`, `StopEnds`,
`ClientsAnswered` and `Answered`. `WindowKept` and `ContentKept` of Rules, as the running
time and the content of a rule come from folds over the elements of a document, and
`SettingsHeld` of Startup, as settings come from folds over a file and a command line:
what they say is an induction over data. HtbFilters takes flow identifiers from any set below the reserved minors
(`FiltersAssumption`); that those `FlowIdPool` lends are such follows from its limit of 4092
and is not a theorem.

## Abstractions and what is not modelled

- In QOSProcessor the kernel is a set of classes, as HtbService describes them. A
  class that exists can be added again, since the request does not ask for
  exclusive creation. Filters over IPv6 and the burst of a class are left out.
- A module that is named after `htb` in the configured list is not preloaded: the
  loader's loop stops after the first. `tbf` takes memory only, and its bandwidth
  check compares an unsigned difference with zero, so it always passes.
- In QOSProcessor parameters are present and well formed. Timers of a module do
  not recur: `htb` sets no such flag. Nothing calls `ruleTimeout`.
- `getModuleInfoXML` (the `get_modinfo` request) takes a module reference that it
  never gives back (ModuleLoader.cpp:183); the request is not modelled.
- Threads leaves out creating and cancelling the worker, module timers, the rule
  file's handler, the list of done rules (a removal that comes after another would enter
  its rules a second time, RuleManager.cpp:540), and the fields the threads share
  without the mutex.
- Control leaves out the bodies of answers, files and byte ranges, SSL and header
  fields other than the length and `Connection`; a client sends one request at a
  time. Parsing the parameters of a command is one outcome of three.
- Rules takes XML trees and MAPI lines as records; libxml2 is external. A check by
  QOSProcessor has any verdict. A definition mask of zero of one byte makes
  FilterDefParser loop (FilterDefParser.cpp:133), and no such mask is in the files.
- Startup loads one module, takes opening and moving the log as one step with the
  configuration (two daemons that start together also share the default log), and
  says nothing of the access list, which is in Control. `getopt_long` is modelled
  by the options it yields. The file's `PidFile` setting is read by nobody.
- Memory that leaks without any other effect (parameters, rejected `Rule`
  objects) is left out, and so are formats of the log and of answers.
- `PageRepository` and `PerfTimer` keep no state that another part depends on;
  `tree.hh` is not used by the daemon.

## Plan

1. That the flow identifiers of HtbFilters are those of FlowIdPool.
2. The `get_modinfo` request with the reference it keeps, and the rule file of the
   threaded build.
