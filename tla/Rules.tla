-------------------------------- MODULE Rules --------------------------------
(***************************************************************************)
(* From the text of a request to the rules RuleManager knows.  A request   *)
(* is an XML document or MAPI text (MAPIRuleParser); its rules are made    *)
(* one after the other, each with a number of RuleIdSource, checked by     *)
(* QOSProcessor (here: any verdict), entered under number and name, and    *)
(* removed again by name, by set or by the schedule.                       *)
(*                                                                         *)
(* The program is one thread: between the steps of a request only the      *)
(* clock goes on.  Rule objects are numbered in the order of creation,     *)
(* which is what a pointer tells apart.                                    *)
(***************************************************************************)
EXTENDS FilterValues, FiniteSets, TLC

CONSTANTS
    Documents,      \* the requests a client may send
    DefFiles,       \* what the definition file may hold: entries of FilterDefParser
    ValFile,        \* the value file: entries of FilterValParser
    DoneListSize,   \* 50 in the code
    TmShift,        \* what reading an absolute time with an unset tm_isdst may add
    Top,            \* largest rule number, 65535 in the code
    MaxRequests,    \* bound: requests a client sends
    MaxTime         \* bound: the clock

ASSUME RulesAssumption ==
    /\ DoneListSize \in Nat \ {0}
    /\ 0 \in TmShift /\ TmShift \subseteq Int
    /\ Top \in Nat /\ Top > 3     \* a number is left beside the reserved ones
    /\ MaxRequests \in Nat /\ MaxTime \in Nat

Ids == INSTANCE RuleIdSource WITH Unique <- TRUE

VARIABLES
    clock,      \* seconds
    requests,   \* requests read so far
    source,     \* RuleManager::idSource
    issued,     \* numbers it gave out so far
    defFile,    \* the definition file, which nobody writes
    filterDefs, \* RuleManager::filterDefs and
    filterVals, \* RuleManager::filterVals, empty until a request loads them
    object,     \* the Rule objects, by order of creation
    ruleDB,     \* the object at each used place of the vector
    index,      \* ruleSetIndex: name -> number
    tasks,      \* RuleManager::tasks, a counter
    ruleDone,   \* removed rules that are still kept
    freed,      \* objects that were deleted
    refused,    \* objects the check refused: nobody deletes them
    schedule,   \* rules a RemoveRulesEvent waits for
    collided,   \* a number was issued while a rule had it
    job         \* the request that is handled

world == << clock, requests, defFile >>
lists == << filterDefs, filterVals >>
made == << source, issued, object, collided >>
store == << ruleDB, index, tasks, ruleDone, schedule >>
ends == << freed, refused >>
vars == << world, lists, made, store, ends, job >>

NoJob == [op |-> "none"]
Known == {ruleDB[u] : u \in DOMAIN ruleDB}
InHand ==   \* objects only the request's own list points to
    CASE job.op \in {"parse", "check", "loops"} -> ToSet(job.batch)
      [] job.op = "add" -> ToSet(job.rest)
      [] OTHER -> {}

\* What follows a collision is not explored further than its own request.
Free == job = NoJob /\ ~collided

Init ==
    /\ clock = 1 /\ requests = 0
    /\ source = Ids!NewSource /\ issued = 0
    /\ defFile \in DefFiles
    /\ filterDefs = << >> /\ filterVals = << >>
    /\ object = << >> /\ ruleDB = << >> /\ index = << >> /\ tasks = 0
    /\ ruleDone = << >> /\ freed = {} /\ refused = {}
    /\ schedule = {} /\ collided = FALSE
    /\ job = NoJob

-----------------------------------------------------------------------------
(* The constructor of Rule: the running time *)

Given(miscs, name) == name \in DOMAIN miscs

\* A time is << "+", seconds >>, << "at", time >> or anything else.  A bad
\* offset is an Error, so is a time that comes out as 0.
ParsesTime(t) == t[1] \in {"+", "at"}
Time(t, shift) == IF t[1] = "+" THEN clock + t[2] ELSE t[2] + shift

NoWindow == [start |-> 0, stop |-> -1]

\* Start and stop as the constructor computes them, NoWindow for an Error.
Window_LateStart(now, miscs, shift) ==      \* mutant: the start stays in the past
    LET start == IF Given(miscs, "Start") THEN Time(miscs.Start, shift.Start) ELSE now
    IN  [start |-> start,
         stop |-> IF Given(miscs, "Stop") THEN Time(miscs.Stop, shift.Stop)
                  ELSE IF Given(miscs, "Duration") THEN start + miscs.Duration ELSE 0]

Window(now, miscs, shift) ==
    LET start0 == IF Given(miscs, "Start") THEN Time(miscs.Start, shift.Start) ELSE now
        stop0 == IF Given(miscs, "Stop") THEN Time(miscs.Stop, shift.Stop) ELSE 0
        duration == IF Given(miscs, "Duration") THEN miscs.Duration ELSE 0
        start == IF duration # 0 /\ stop0 # 0 THEN stop0 - duration ELSE start0
        stop == IF duration # 0 /\ stop0 = 0 THEN start0 + duration ELSE stop0
    IN  IF \/ {"Start", "Stop", "Duration"} \subseteq DOMAIN miscs
           \/ \E name \in {"Start", "Stop"} \cap DOMAIN miscs : ~ParsesTime(miscs[name])
           \/ \E name \in {"Start", "Stop"} \cap DOMAIN miscs :
                Time(miscs[name], shift[name]) = 0
           \/ stop # 0 /\ stop <= now
        THEN NoWindow
        ELSE [start |-> IF start < now THEN now ELSE start, stop |-> stop]

Shifts == [{"Start", "Stop"} -> TmShift]

-----------------------------------------------------------------------------
(* RuleFileParser: one RULE element over the GLOBAL one *)

Merged(global, own) == own @@ global

\* A rule's action takes the place of the first one of its name.
WithAction_Added(actions, a) == Append(actions, a)  \* mutant: does not override
WithAction(actions, a) ==
    Append(RemoveFirstMatch(actions, LAMBDA b : b.name = a.name), a)

ParsesElement(r) ==
    /\ r.ok                         \* every PREF has a value of its type
    /\ \A i \in DOMAIN r.actions : r.actions[i].name # ""
    /\ \A i \in DOMAIN r.filters :
         ParsesFilter(TRUE, filterDefs, filterVals, r.filters[i])

XmlRule(doc, r) ==
    [key |-> << doc.set, r.name >>,
     filters |-> [i \in DOMAIN r.filters |->
                    Filter(TRUE, filterDefs, filterVals, r.filters[i])],
     actions |-> FoldLeft(WithAction, doc.global.actions, r.actions),
     miscs |-> Merged(doc.global.miscs, r.miscs)]

-----------------------------------------------------------------------------
(* MAPIRuleParser: a line is [padded, tokens], a token << "-", letter >>,  *)
(* << "=", name, value >>, << "," >> or << "word", set, name >>: a word     *)
(* with a dot is a name in a set, any other in the set "0".                *)

\* A line that is one word and no white space yields nothing.
Tokens(line) ==
    IF Len(line.tokens) = 1 /\ ~line.padded THEN << >> ELSE line.tokens

MiscNames == {"Start", "Stop", "Duration", "Interval", "auto"}

\* The options in the order of the text, with what the line's filters,
\* actions and preferences are added to.
Scan(sofar, args) ==
    LET IsOpt(t) == t[1] = "-"
        Step(s, t) ==
          IF s.fate # "fine" THEN s
          ELSE CASE
               s.mode = "action" ->         \* whatever comes next is its name
                 [s EXCEPT !.mode = "param",
                           !.actions = Append(@, [name |-> t[Len(t)], conf |-> {}])]
            [] s.mode # "action" /\ IsOpt(t) ->
                 [s EXCEPT !.mode = CASE t[2] = "r" -> "filter"
                                      [] t[2] = "a" -> "action"
                                      [] t[2] = "m" -> "misc"
                                      [] OTHER -> "none",
                           !.fate = IF t[2] \in {"r", "a", "m", "w"} THEN @ ELSE "error"]
            [] s.mode = "none" /\ ~IsOpt(t) -> [s EXCEPT !.fate = "loops"]
            [] s.mode \in {"filter", "misc"} /\ t[1] = "," -> s
            [] s.mode = "filter" /\ t[1] = "=" ->
                 LET f == [name |-> t[2], value |-> t[3], mask |-> NoMask]
                 IN  IF ParsesFilter(FALSE, filterDefs, filterVals, f)
                     THEN [s EXCEPT !.filters =
                             Append(@, Filter(FALSE, filterDefs, filterVals, f))]
                     ELSE [s EXCEPT !.fate = "error"]
            [] s.mode = "param" /\ t[1] = "=" ->
                 [s EXCEPT !.actions[Len(s.actions)].conf = @ \cup {<< t[2], t[3] >>}]
            [] s.mode = "misc" /\ t[1] = "=" /\ t[2] \in MiscNames ->
                 [s EXCEPT !.miscs = (t[2] :> t[3]) @@ @]
            [] OTHER -> [s EXCEPT !.fate = "error"]
    IN  FoldLeft(Step, [sofar EXCEPT !.mode = "none"], args)

NothingScanned ==
    [mode |-> "none", fate |-> "fine", filters |-> << >>, actions |-> << >>,
     miscs |-> << >>]

-----------------------------------------------------------------------------
(* parseRules and parseRulesBuffer *)

Fetch(docs) ==
    \E d \in docs :
      job' = [op |-> "parse", doc |-> d, pos |-> 1, now |-> clock, batch |-> << >>,
              args |-> << >>, sofar |-> NothingScanned]

\* The lists are read from their files while they are empty.  A list that was
\* read up to an error stays, and the next request takes it as it is.
DefsAfter == IF filterDefs = << >> THEN DefsIn(defFile) ELSE filterDefs
ValsAfter == IF filterVals = << >> THEN ValsIn(ValFile) ELSE filterVals
DefsRefused == filterDefs = << >> /\ ~DefsOk(defFile)
ValsRefused == filterVals = << >> /\ ~ValsOk(ValFile)

Begin ==
    /\ Free
    /\ requests < MaxRequests
    /\ requests' = requests + 1
    /\ filterDefs' = DefsAfter
    /\ filterVals' = IF DefsRefused THEN filterVals ELSE ValsAfter
    /\ IF DefsRefused \/ ValsRefused
       THEN UNCHANGED job
       ELSE Fetch({d \in Documents : d.kind = "xml" => d.valid})
    /\ UNCHANGED << made, store, ends, clock, defFile >>

\* The request ends in an Error: the rules made so far are deleted.
Failed_Kept(batch) == freed' = freed    \* mutant: they are not
Failed(batch) == freed' = freed \cup ToSet(batch)

\* A number, and the rule unless its constructor throws.
Make(parsing, key, filters, actions, miscs) ==
    LET uid == Ids!NewIdOf(source)
        serial == Len(object) + 1
    IN  /\ source' = Ids!AfterNewId(source)
        /\ issued' = issued + 1
        /\ \E shift \in Shifts :
             LET window == Window(job.now, miscs, shift)
                 fine == key[2] # "" /\ filters # << >> /\ actions # << >>
                         /\ window # NoWindow
             IN  IF fine
                 THEN /\ object' = Append(object,
                           [key |-> key, uid |-> uid, filters |-> filters,
                            actions |-> actions, miscs |-> miscs,
                            window |-> window, made |-> job.now,
                            state |-> "new", doc |-> job.doc, from |-> job.pos])
                      /\ job' = [parsing EXCEPT !.pos = @ + 1,
                                                !.batch = Append(@, serial)]
                      /\ collided' = \/ collided
                                     \/ \E s \in Known \cup schedule \cup InHand :
                                          object[s].uid = uid
                      /\ UNCHANGED freed
                 ELSE /\ Failed(job.batch)
                      /\ job' = NoJob
                      /\ UNCHANGED << object, collided >>

ParseFails ==
    /\ Failed(job.batch)
    /\ job' = NoJob
    /\ UNCHANGED << made >>

ParseElement ==
    /\ job.op = "parse" /\ job.doc.kind = "xml"
    /\ job.pos \in DOMAIN job.doc.rules
    /\ LET r == job.doc.rules[job.pos]
           new == XmlRule(job.doc, r)
       IN  IF ParsesElement(r)
           THEN Make(job, new.key, new.filters, new.actions, new.miscs)
           ELSE ParseFails
    /\ UNCHANGED << world, lists, store, refused >>

\* The arguments, filters, actions and preferences of a line are added to those
\* of the lines before; the first argument of all is the name, whatever it is.
\* On a later line it may lose its end: its length is taken from the last
\* argument.
NameIn(arg) == IF arg[1] = "word" THEN << arg[2], arg[3] >> ELSE << "0", arg >>
NameOf(args, first) ==
    LET name == NameIn(args[1])
    IN  {name} \cup IF first THEN {} ELSE {<< name[1], "cut" >>}

ParseLine ==
    /\ job.op = "parse" /\ job.doc.kind = "mapi"
    /\ job.pos \in DOMAIN job.doc.lines
    /\ LET args == job.args \o Tokens(job.doc.lines[job.pos])
           read == Scan(job.sofar, Tail(args))
       IN  CASE args = << >> -> ParseFails
             [] args # << >> /\ read.fate = "error" -> ParseFails
             [] args # << >> /\ read.fate = "loops" ->
                  /\ job' = [job EXCEPT !.op = "loops"]
                  /\ UNCHANGED << made, freed >>
             [] OTHER ->
                  \E key \in NameOf(args, job.pos = 1) :
                    Make([job EXCEPT !.args = args, !.sofar = read],
                         key, read.filters, read.actions, read.miscs)
    /\ UNCHANGED << world, lists, store, refused >>

Parts == IF job.doc.kind = "xml" THEN job.doc.rules ELSE job.doc.lines
ParsedAll ==
    /\ job.op = "parse" /\ job.pos > Len(Parts)
    /\ job' = [op |-> "check", batch |-> job.batch, rest |-> job.batch]
    /\ UNCHANGED << world, lists, made, store, ends >>

-----------------------------------------------------------------------------
(* checkRules of QOSProcessor, of which only the verdict is told *)

First == Head(job.rest)
Advanced == [job EXCEPT !.rest = Tail(@)]

CheckNext ==
    /\ job.op = "check" /\ job.rest # << >>
    /\ \E verdict \in {"valid", "error"} :
         object' = [object EXCEPT ![First].state = verdict]
    /\ job' = Advanced
    /\ UNCHANGED << world, lists, store, ends, source, issued, collided >>

CheckedAll ==
    /\ job.op = "check" /\ job.rest = << >>
    /\ job' = [op |-> "add", batch |-> job.batch, rest |-> job.batch]
    /\ UNCHANGED << world, lists, made, store, ends >>

-----------------------------------------------------------------------------
(* RuleManager: entering, finding and removing rules *)

\* getRule by name: the number from the index, the object from the vector.
Found(key) ==
    IF key \in DOMAIN index /\ index[key] \in DOMAIN ruleDB
    THEN {ruleDB[index[key]]} ELSE {}

Taken(r) == Found(object[r].key) # {}

Entered(f, key, value) ==
    [k \in DOMAIN f \cup {key} |-> IF k = key THEN value ELSE f[k]]

\* addRule, for a rule that passed the check.  Of a batch of one a taken name
\* is an Error; otherwise the rule is deleted without a word.
AddRule ==
    /\ job.op = "add" /\ job.rest # << >>
    /\ object[First].state = "valid"
    /\ IF Taken(First)
       THEN /\ freed' = freed \cup {First}
            /\ job' = IF Len(job.batch) = 1 THEN NoJob ELSE Advanced
            /\ UNCHANGED << ruleDB, index, tasks, schedule >>
       ELSE /\ ruleDB' = Entered(ruleDB, object[First].uid, First)
            /\ index' = Entered(index, object[First].key, object[First].uid)
            /\ tasks' = tasks + 1
            /\ schedule' = schedule \cup {s \in {First} : object[s].window.stop # 0}
            /\ job' = Advanced
            /\ UNCHANGED freed
    /\ UNCHANGED << world, lists, made, ruleDone, refused >>

PassOver ==
    /\ job.op = "add" /\ job.rest # << >>
    /\ object[First].state = "error"
    /\ refused' = refused \cup {First}
    /\ job' = Advanced
    /\ UNCHANGED << world, lists, made, store, freed >>

AddedAll ==
    /\ job.op \in {"add", "remove"} /\ job.rest = << >>
    /\ job' = NoJob
    /\ UNCHANGED << world, lists, made, store, ends >>

\* A request names a rule or a set; an event of the schedule has the rules
\* themselves, of which the earliest comes first.
Remove1(rules) ==
    /\ Free
    /\ rules # {}
    /\ job' = [op |-> "remove", rest |-> SetToSeq(rules)]
    /\ UNCHANGED << world, lists, made, store, ends >>

RemoveRule == \E key \in DOMAIN index : Remove1(Found(key))
RemoveSet ==
    \E set \in {key[1] : key \in DOMAIN index} :
      Remove1(UNION {Found(key) : key \in {k \in DOMAIN index : k[1] = set}})
RemoveDue ==
    \E s \in schedule :
      /\ object[s].window.stop <= clock
      /\ \A q \in schedule : object[s].window.stop <= object[q].window.stop
      /\ Remove1({s})

TooMany(done) == Len(done) > DoneListSize

\* delRule: into the list of done rules, which lets the oldest and its number
\* go, out of the vector, the index and the schedule, where the rule is known
\* by its number.
WithoutNumber(r) == {s \in schedule : object[s].uid # object[r].uid}
IndexWithout_Stale(r) == index          \* mutant: the name is not erased
IndexWithout(r) == Restrict(index, DOMAIN index \ {object[r].key})

RemoveNext ==
    /\ job.op = "remove" /\ job.rest # << >>
    /\ object' = [object EXCEPT ![First].state = "done"]
    /\ LET done == Append(ruleDone, First)
       IN  IF TooMany(done)
           THEN /\ ruleDone' = Tail(done) /\ freed' = freed \cup {Head(done)}
                /\ source' = Ids!AfterFreeId(source, object[Head(done)].uid)
           ELSE ruleDone' = done /\ UNCHANGED << freed, source >>
    /\ ruleDB' = Restrict(ruleDB, DOMAIN ruleDB \ {object[First].uid})
    /\ index' = IndexWithout(First)
    /\ tasks' = tasks - 1
    /\ schedule' = WithoutNumber(First)
    /\ job' = Advanced
    /\ UNCHANGED << world, lists, issued, collided, refused >>

Tick ==
    /\ clock < MaxTime
    /\ clock' = clock + 1
    /\ UNCHANGED << lists, made, store, ends, requests, defFile, job >>

Next ==
    \/ Begin \/ ParseElement \/ ParseLine \/ ParsedAll
    \/ CheckNext \/ CheckedAll
    \/ AddRule \/ PassOver \/ AddedAll
    \/ RemoveRule \/ RemoveSet \/ RemoveDue \/ RemoveNext
    \/ Tick

Spec == Init /\ [][Next]_vars

-----------------------------------------------------------------------------
\* A number does not come round to a second rule while the first is known
\* before all numbers were issued.  Until then the two ways to a rule agree:
\* a name leads to the rule of that name and a place of the vector holds the
\* rule of that number, which its name leads to; and no number is reserved.
FindsOwn ==
    /\ collided => issued > Cardinality(Ids!RuleIds)
    /\ ~collided =>
         /\ \A key \in DOMAIN index : \E r \in Found(key) : object[r].key = key
         /\ \A u \in DOMAIN ruleDB :
              /\ object[ruleDB[u]].uid = u
              /\ u \notin {0, 1, Top}
              /\ Found(object[ruleDB[u]].key) = {ruleDB[u]}

\* Every Rule object is at one place at a time: in the hands of the request
\* that made it, registered, among the done rules, deleted, or left behind
\* because its check failed; and the schedule has registered rules only.
Kept == ToSet(ruleDone)
NoneLost ==
    ~collided =>
      /\ DOMAIN object = InHand \cup Known \cup Kept \cup freed \cup refused
      /\ \A s \in DOMAIN object :
           Cardinality({p \in {"hand", "db", "done", "freed", "refused"} :
               CASE p = "hand" -> s \in InHand
                 [] p = "db" -> s \in Known
                 [] p = "done" -> s \in Kept
                 [] p = "freed" -> s \in freed
                 [] OTHER -> s \in refused}) = 1
      /\ schedule \subseteq Known

\* What a document says of a preference, as a set of at most one value: the
\* element's own before the global one.  MAPI text speaks in its first line.
Asked(o, name) ==
    IF o.doc.kind = "xml"
    THEN LET own == o.doc.rules[o.from].miscs
             global == o.doc.global.miscs
         IN  IF name \in DOMAIN own THEN {own[name]}
             ELSE {global[n] : n \in DOMAIN global \cap {name}}
    ELSE {t[3] : t \in {u \in ToSet(o.doc.lines[1].tokens) :
                           u[1] = "=" /\ u[2] = name}}

\* The running time of a rule is the one it asks for, from the moment it was
\* made on: it is not over yet, it ends exactly if an end was asked for, a
\* duration is kept unless its beginning is past, and no offset comes early.
WindowKept ==
    \A s \in DOMAIN object :
      LET o == object[s]
          w == o.window
          lasting == Asked(o, "Duration") \ {0}
      IN  /\ w.start >= o.made
          /\ w.stop # 0 => w.stop > o.made
          /\ w.stop # 0 <=> Asked(o, "Stop") # {} \/ lasting # {}
          /\ \A d \in lasting :
               IF w.start > o.made THEN w.stop - w.start = d ELSE w.stop - w.start <= d
          /\ \A t \in Asked(o, "Start") : t[1] = "+" => w.start >= o.made + t[2]
          /\ \A t \in Asked(o, "Stop") : t[1] = "+" => w.stop >= o.made + t[2]

Names(seq) == {seq[i].name : i \in DOMAIN seq}

\* A rule has the content of its own element: name and filters of the element
\* alone, each action once, with the element's parameters where it has some
\* and the global ones elsewhere.  MAPI text makes rules of its first name
\* only, and nothing is in them that no line up to their own says.
ContentKept ==
    \A s \in DOMAIN object :
      LET o == object[s]
          doc == o.doc
      IN  IF doc.kind = "xml"
          THEN LET r == doc.rules[o.from]
                   sources == ToSet(r.actions)
                              \cup {g \in ToSet(doc.global.actions) :
                                      g.name \notin Names(r.actions)}
               IN  /\ o.key = << doc.set, r.name >>
                   /\ Names(o.filters) = Names(r.filters)
                   /\ Len(o.filters) = Len(r.filters)
                   /\ ToSet(o.actions) = sources
                   /\ Len(o.actions) = Cardinality(sources)
          ELSE LET said == UNION {ToSet(doc.lines[i].tokens) : i \in 1 .. o.from}
               IN  /\ o.key[1] = doc.lines[1].tokens[1][2]
                   /\ \A i \in DOMAIN o.filters :
                        \E t \in said : t[1] = "=" /\ t[2] = o.filters[i].name
                   /\ o.from = 1 =>
                        /\ o.key = Tail(doc.lines[1].tokens[1])
                        /\ Len(o.filters) <= Len(doc.lines[1].tokens)
=============================================================================
