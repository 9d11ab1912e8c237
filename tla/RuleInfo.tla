------------------------------- MODULE RuleInfo -------------------------------
(***************************************************************************)
(* What a client is told about the rules: get_info (QualityManagerInfo,    *)
(* QualityManager::getInfo and RuleManager::getInfo).  An answer is a      *)
(* function of the state between two events, as a handler runs to its end. *)
(*                                                                         *)
(* Items the rules have no part in (version, uptime, ...) are told from    *)
(* nothing, and a rule is "valid" here until it is done: its activation is *)
(* that of QOSProcessor.                                                   *)
(***************************************************************************)
EXTENDS Rules

Items == {"hello", "version", "uptime", "configfile", "use_ssl",
          "tasks_stored", "tasklist", "task"}

\* addInfo: the items a request stands for, none for an unknown name.
Asks(item) ==
    CASE item = "all" -> << "hello", "uptime", "tasks_stored", "configfile",
                           "use_ssl", "tasklist" >>
      [] item \in Items -> << item >>
      [] OTHER -> << >>

\* Rule::getInfo: the parameters of its actions and its running time, as far as
\* it was computed, are not written.
Text(s) ==
    LET o == object[s]
    IN  [name |-> o.key, state |-> o.state, filters |-> o.filters,
         actions |-> [i \in DOMAIN o.actions |-> o.actions[i].name],
         miscs |-> o.miscs]

\* getInfo of one rule: a registered one first, otherwise the one of that name
\* that was removed last, as far as it is still kept.
DoneAt(key) == {i \in DOMAIN ruleDone : object[ruleDone[i]].key = key}
LastDone(key) == IF DoneAt(key) = {} THEN {} ELSE {ruleDone[Max(DoneAt(key))]}
OfRule_DoneFirst(key) ==        \* mutant: the done rules are looked at first
    {Text(s) : s \in IF DoneAt(key) # {} THEN LastDone(key) ELSE Found(key)}
OfRule(key) == {Text(s) : s \in IF Found(key) # {} THEN Found(key) ELSE LastDone(key)}

OfSet(set) == UNION {OfRule(key) : key \in {k \in DOMAIN index : k[1] = set}}
TaskList == UNION {OfSet(set) : set \in {key[1] : key \in DOMAIN index}}

\* A parameter is << set >> or << set, rule >>; none at all is an Error, and
\* so is a rule nobody knows, but a set nobody knows is told to be none.
Fails(item, param) ==
    item = "task" /\ \/ param = << >>
                     \/ Len(param) = 2 /\ OfRule(param) = {}

Tells(item, param) ==
    CASE item = "tasks_stored" -> [number |-> tasks]
      [] item = "tasklist" -> [rules |-> TaskList]
      [] item = "task" -> [rules |-> IF Len(param) = 1 THEN OfSet(param[1]) ELSE OfRule(param)]
      [] OTHER -> [text |-> item]

\* One item that fails makes an error of the whole answer.
Answer(item, param) ==
    LET asked == Asks(item)
    IN  IF asked = << >> \/ \E i \in DOMAIN asked : Fails(asked[i], param)
        THEN [error |-> item]
        ELSE [told |-> [i \in DOMAIN asked |-> Tells(asked[i], param)]]

Told(item, param) ==
    LET answer == Answer(item, param)
    IN  IF "told" \in DOMAIN answer THEN Last(answer.told).rules ELSE {}

-----------------------------------------------------------------------------
\* What get_info tells agrees with itself and with what the daemon has: the
\* number of tasks with the task list, the list with the rules that are
\* registered, none of which is done, and every registered rule is told under
\* its name and in its set.  Of a rule that is kept as done its name tells that
\* one, or a later one of the same name.
InfoAgrees ==
    Free =>
      /\ Answer("all", << >>).told[3].number = Cardinality(Told("all", << >>))
      /\ Told("tasklist", << >>) = {Text(s) : s \in Known}
      /\ \A t \in Told("tasklist", << >>) : t.state # "done"
      /\ \A s \in Known : /\ Told("task", object[s].key) = {Text(s)}
                          /\ Text(s) \in Told("task", << object[s].key[1] >>)
      /\ \A i \in DOMAIN ruleDone :
           \E s \in Known \cup {ruleDone[j] : j \in i .. Len(ruleDone)} :
             Told("task", object[ruleDone[i]].key) = {Text(s)}
=============================================================================
