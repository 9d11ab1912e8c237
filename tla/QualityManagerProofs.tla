------------------------- MODULE QualityManagerProofs -------------------------
(***************************************************************************)
(* Proofs about QualityManager, for any batches, start and stop times and  *)
(* rule names.  IInv says where every rule is: in a batch nobody submitted *)
(* (Newcomers), in the database and on the schedule (Registered,           *)
(* Schedules, Removals), in the handler that runs (CallInJob, Removing) or *)
(* behind it.  Each step of a handler keeps it; the properties the runs    *)
(* check follow, and so does that QOSProcessor is used as it allows.       *)
(***************************************************************************)
EXTENDS QualityManager, FiniteSetTheorems, SequenceTheorems, TLAPS

-----------------------------------------------------------------------------
(* Lists of rules *)

\* A list of rules without repetition.
Listing(s) == s \in Seq(Rule) /\ IsInjective(s)

\* The loops over a list take it from the front.
LEMMA TailLists ==
    ASSUME NEW s, Listing(s), s # << >>
    PROVE  /\ Head(s) \in ToSet(s) /\ ToSet(s) \subseteq Rule
           /\ Listing(Tail(s)) /\ ToSet(Tail(s)) = ToSet(s) \ {Head(s)}
  <1>1. /\ s \in Seq(Rule) /\ Len(s) \in Nat \ {0} /\ DOMAIN s = 1 .. Len(s)
        /\ \A i \in 1 .. Len(s) : s[i] \in Rule
    BY LenProperties, ElementOfSeq, EmptySeq DEF Listing
  <1>2. /\ Head(s) = s[1] /\ Tail(s) \in Seq(Rule) /\ Len(Tail(s)) = Len(s) - 1
        /\ \A i \in 1 .. Len(s) - 1 : Tail(s)[i] = s[i + 1]
    BY <1>1, HeadTailProperties
  <1>3. DOMAIN Tail(s) = 1 .. Len(s) - 1
    BY <1>2, LenProperties
  <1>4. IsInjective(Tail(s))
    BY <1>1, <1>2, <1>3 DEF Listing, IsInjective
  <1>5. ToSet(s) \subseteq Rule /\ s[1] \in ToSet(s)
    BY <1>1 DEF ToSet
  <1>6. ASSUME NEW r \in ToSet(Tail(s)) PROVE r \in ToSet(s) \ {s[1]}
    BY <1>1, <1>2, <1>3, <1>6 DEF ToSet, Listing, IsInjective
  <1>7. ASSUME NEW r \in ToSet(s), r # s[1] PROVE r \in ToSet(Tail(s))
    <2>1. PICK i \in 1 .. Len(s) : s[i] = r
      BY <1>1, <1>7 DEF ToSet
    <2>2. i - 1 \in 1 .. Len(s) - 1 /\ Tail(s)[i - 1] = r
      BY <1>1, <1>2, <1>7, <2>1
    <2> QED BY <1>3, <2>2 DEF ToSet
  <1> QED BY <1>2, <1>4, <1>5, <1>6, <1>7 DEF Listing

\* push_back of a rule the list does not hold.
LEMMA AppendLists ==
    ASSUME NEW s, Listing(s), NEW r \in Rule, r \notin ToSet(s)
    PROVE  /\ Listing(Append(s, r)) /\ Append(s, r) # << >>
           /\ ToSet(Append(s, r)) = ToSet(s) \cup {r}
  <1>1. /\ s \in Seq(Rule) /\ Len(s) \in Nat /\ DOMAIN s = 1 .. Len(s)
    BY LenProperties DEF Listing
  <1>2. /\ Append(s, r) \in Seq(Rule) /\ Append(s, r) # << >>
        /\ DOMAIN Append(s, r) = 1 .. Len(s) + 1
        /\ Append(s, r)[Len(s) + 1] = r
        /\ \A i \in 1 .. Len(s) : Append(s, r)[i] = s[i]
    BY <1>1, AppendProperties, LenProperties
  <1>3. IsInjective(Append(s, r))
    <2> SUFFICES ASSUME NEW i \in 1 .. Len(s) + 1, NEW j \in 1 .. Len(s) + 1,
                        Append(s, r)[i] = Append(s, r)[j]
                 PROVE  i = j
      BY <1>2 DEF IsInjective
    <2>1. \A k \in 1 .. Len(s) : s[k] # r
      BY <1>1 DEF ToSet
    <2>2. i \in 1 .. Len(s) \/ i = Len(s) + 1
      BY <1>1
    <2>3. j \in 1 .. Len(s) \/ j = Len(s) + 1
      BY <1>1
    <2> QED BY <1>1, <1>2, <2>1, <2>2, <2>3 DEF Listing, IsInjective
  <1>4. ToSet(Append(s, r)) = ToSet(s) \cup {r}
    <2>1. ASSUME NEW x \in ToSet(Append(s, r)) PROVE x \in ToSet(s) \cup {r}
      <3>1. PICK i \in 1 .. Len(s) + 1 : x = Append(s, r)[i]
        BY <1>2, <2>1 DEF ToSet
      <3>2. i \in 1 .. Len(s) \/ i = Len(s) + 1
        BY <1>1
      <3> QED BY <1>1, <1>2, <3>1, <3>2 DEF ToSet
    <2>2. ASSUME NEW x \in ToSet(s) \cup {r} PROVE x \in ToSet(Append(s, r))
      <3>1. Len(s) + 1 \in 1 .. Len(s) + 1 /\ \A i \in 1 .. Len(s) : i \in 1 .. Len(s) + 1
        BY <1>1
      <3> QED BY <1>1, <1>2, <2>2, <3>1 DEF ToSet
    <2> QED BY <2>1, <2>2
  <1> QED BY <1>2, <1>3, <1>4 DEF Listing

\* Event::deleteRule: the one place of the rule is taken out.
LEMMA RemoveFirstLists ==
    ASSUME NEW s, Listing(s), NEW r
    PROVE  /\ Listing(RemoveFirst(s, r))
           /\ ToSet(RemoveFirst(s, r)) = ToSet(s) \ {r}
  <1>1. /\ s \in Seq(Rule) /\ Len(s) \in Nat /\ DOMAIN s = 1 .. Len(s)
        /\ \A i \in 1 .. Len(s) : s[i] \in Rule
    BY LenProperties, ElementOfSeq DEF Listing
  <1>2. CASE ~ \E i \in 1 .. Len(s) : s[i] = r
    <2>1. RemoveFirst(s, r) = s
      BY <1>2 DEF RemoveFirst
    <2> QED BY <1>1, <1>2, <2>1 DEF ToSet
  <1>3. CASE \E i \in 1 .. Len(s) : s[i] = r
    <2>1. PICK i \in 1 .. Len(s) : s[i] = r
      BY <1>3
    <2>2. {k \in 1 .. Len(s) : s[k] = r} = {i}
      BY <1>1, <2>1 DEF Listing, IsInjective
    <2>3. Min({i}) = i
      BY <1>1 DEF Min
    <2>4. RemoveFirst(s, r) = RemoveAt(s, i)
      BY <1>3, <2>2, <2>3 DEF RemoveFirst, SelectInSeq
    <2> DEFINE a == SubSeq(s, 1, i - 1)
               b == SubSeq(s, i + 1, Len(s))
    <2>5. RemoveFirst(s, r) = a \o b
      BY <2>4 DEF RemoveAt
    <2>6. /\ a \in Seq(Rule) /\ Len(a) = i - 1 /\ \A k \in 1 .. i - 1 : a[k] = s[k]
      <3>1. \A k \in 1 .. i - 1 : s[k] \in Rule
        BY <1>1, <2>1
      <3>2. /\ a \in Seq(Rule)
            /\ Len(a) = IF 1 <= i - 1 THEN (i - 1) - 1 + 1 ELSE 0
            /\ \A k \in 1 .. (i - 1) - 1 + 1 : a[k] = s[1 + k - 1]
        BY <1>1, <2>1, <3>1, SubSeqProperties
      <3> QED BY <1>1, <2>1, <3>2
    <2>7. /\ b \in Seq(Rule) /\ Len(b) = Len(s) - i
          /\ \A k \in 1 .. Len(s) - i : b[k] = s[i + k]
      <3>1. \A k \in i + 1 .. Len(s) : s[k] \in Rule
        BY <1>1, <2>1
      <3>2. /\ b \in Seq(Rule)
            /\ Len(b) = IF i + 1 <= Len(s) THEN Len(s) - (i + 1) + 1 ELSE 0
            /\ \A k \in 1 .. Len(s) - (i + 1) + 1 : b[k] = s[(i + 1) + k - 1]
        BY <1>1, <2>1, <3>1, SubSeqProperties
      <3>3. Len(s) - (i + 1) + 1 = Len(s) - i /\ (i <= Len(s)) /\ i \in Nat
        BY <1>1, <2>1
      <3>4. \A k \in 1 .. Len(s) - i : (i + 1) + k - 1 = i + k
        BY <3>3
      <3>5. i + 1 <= Len(s) \/ (Len(s) - i = 0 /\ ~(i + 1 <= Len(s)))
        <4>1. Len(s) \in Nat /\ i \in Nat /\ i <= Len(s)
          BY <1>1
        <4> QED BY <4>1
      <3>6. Len(b) = Len(s) - i
        <4>1. Len(b) = IF i + 1 <= Len(s) THEN Len(s) - (i + 1) + 1 ELSE 0
          BY <3>2
        <4> HIDE DEF b
        <4> QED BY <3>3, <3>5, <4>1
      <3> HIDE DEF b
      <3> QED BY <3>2, <3>3, <3>4, <3>6
    <2> HIDE DEF a, b
    <2> DEFINE t == a \o b
    <2>8. /\ t \in Seq(Rule) /\ Len(t) = Len(a) + Len(b)
          /\ \A k \in 1 .. Len(a) + Len(b) :
               t[k] = IF k <= Len(a) THEN a[k] ELSE b[k - Len(a)]
      BY <2>6, <2>7, ConcatProperties
    <2> HIDE DEF t
    <2>9. DOMAIN t = 1 .. Len(s) - 1
      <3>1. Len(a) + Len(b) = Len(s) - 1
        BY <1>1, <2>1, <2>6, <2>7
      <3> QED BY <2>8, <3>1, LenProperties
    <2>10. ASSUME NEW k \in 1 .. i - 1 PROVE k \in DOMAIN t /\ t[k] = s[k]
      <3>1. k \in 1 .. Len(a) + Len(b) /\ k <= Len(a)
        BY <1>1, <2>1, <2>6, <2>7
      <3>2. t[k] = a[k] /\ a[k] = s[k]
        BY <2>6, <2>8, <3>1
      <3> QED BY <1>1, <2>1, <2>9, <3>2
    <2>11. ASSUME NEW k \in i + 1 .. Len(s)
           PROVE  k - 1 \in DOMAIN t /\ t[k - 1] = s[k]
      <3>1. /\ k - 1 \in 1 .. Len(a) + Len(b) /\ ~(k - 1 <= Len(a))
            /\ (k - 1) - Len(a) \in 1 .. Len(s) - i /\ i + ((k - 1) - Len(a)) = k
        BY <1>1, <2>1, <2>6, <2>7
      <3>2. t[k - 1] = b[(k - 1) - Len(a)]
        BY <2>8, <3>1
      <3>3. b[(k - 1) - Len(a)] = s[k]
        BY <2>7, <3>1
      <3>4. k - 1 \in 1 .. Len(s) - 1
        BY <1>1, <2>1
      <3> QED BY <2>9, <3>2, <3>3, <3>4
    <2> DEFINE Old(k) == IF k < i THEN k ELSE k + 1
    <2>12. ASSUME NEW k \in DOMAIN t
           PROVE  Old(k) \in 1 .. Len(s) /\ Old(k) # i /\ t[k] = s[Old(k)]
      <3>1. CASE k < i
        BY <1>1, <2>1, <2>9, <2>10, <3>1
      <3>2. CASE ~(k < i)
        <4>1. k + 1 \in i + 1 .. Len(s) /\ (k + 1) - 1 = k
          BY <1>1, <2>1, <2>9, <3>2
        <4> QED BY <1>1, <2>1, <2>11, <3>2, <4>1
      <3> QED BY <3>1, <3>2
    <2>13. ASSUME NEW k \in DOMAIN t, NEW l \in DOMAIN t, t[k] = t[l] PROVE k = l
      <3>1. Old(k) = Old(l)
        BY <1>1, <2>12, <2>13 DEF Listing, IsInjective
      <3> QED BY <1>1, <2>1, <2>9, <3>1
    <2>14. ASSUME NEW x \in ToSet(t) PROVE x \in ToSet(s) \ {r}
      <3>1. PICK k \in DOMAIN t : t[k] = x
        BY <2>14 DEF ToSet
      <3>2. Old(k) \in DOMAIN s /\ s[Old(k)] = x /\ s[Old(k)] # s[i]
        BY <1>1, <2>1, <2>12, <3>1 DEF Listing, IsInjective
      <3> QED BY <2>1, <3>2 DEF ToSet
    <2>15. ASSUME NEW x \in ToSet(s), x # r PROVE x \in ToSet(t)
      <3>1. PICK k \in 1 .. Len(s) : s[k] = x
        BY <1>1, <2>15 DEF ToSet
      <3>2. k \in 1 .. i - 1 \/ k \in i + 1 .. Len(s)
        BY <1>1, <2>1, <2>15, <3>1
      <3> QED BY <2>10, <2>11, <3>1, <3>2 DEF ToSet
    <2>16. RemoveFirst(s, r) = t
      BY <2>5 DEF t
    <2>17. Listing(t)
      BY <2>8, <2>13 DEF Listing, IsInjective
    <2>18. ToSet(t) = ToSet(s) \ {r}
      BY <2>14, <2>15
    <2> QED BY <2>16, <2>17, <2>18
  <1> QED BY <1>2, <1>3

\* The rules a request names, as a list.
LEMMA SetToSeqLists ==
    ASSUME NEW S, S \subseteq Rule, IsFiniteSet(S)
    PROVE  Listing(SetToSeq(S)) /\ ToSet(SetToSeq(S)) \subseteq S
  <1> DEFINE n == Cardinality(S)
  <1>1. n \in Nat /\ ExistsBijection(1 .. n, S)
    BY FS_CardinalityType
  <1> HIDE DEF n
  <1>2. \E f \in [1 .. n -> S] : IsInjective(f)
    <2>1. PICK f : f \in Bijection(1 .. n, S)
      BY <1>1 DEF ExistsBijection
    <2>2. f \in [1 .. n -> S] /\ IsInjective(f)
      BY <2>1 DEF Bijection, Injection
    <2> QED BY <2>2
  <1>3. SetToSeq(S) \in [1 .. n -> S] /\ IsInjective(SetToSeq(S))
    BY <1>2 DEF SetToSeq, n
  <1>4. SetToSeq(S) \in Seq(Rule)
    BY <1>1, <1>3, SeqDef
  <1> QED BY <1>3, <1>4 DEF Listing, ToSet
States == {"new", "valid", "error", "active", "done"}
Calls == [op : {"check", "add", "undo", "del"}, rule : Rule, act : Nat \ {0}]

\* The shape of the manager's variables.
EventOK(e) ==
    /\ e = [type |-> e.type, time |-> e.time, no |-> e.no, rules |-> e.rules]
    /\ e.type \in {"activate", "remove"}
    /\ Listing(e.rules) /\ e.rules # << >>

MapOK(map) == \A t \in DOMAIN map : Listing(map[t]) /\ map[t] # << >>

JobOK ==
    \/ job = NoJob
    \/ /\ job = [op |-> job.op, rest |-> job.rest, all |-> job.all]
       /\ job.op \in {"check", "activate", "remove", "unregister"}
       /\ Listing(job.rest) /\ Listing(job.all)
    \/ /\ job = [op |-> "register", rest |-> job.rest, all |-> job.all,
                 start |-> job.start, stop |-> job.stop]
       /\ Listing(job.rest) /\ Listing(job.all)
       /\ MapOK(job.start) /\ MapOK(job.stop)

Shapes ==
    /\ state \in [Rule -> States]
    /\ run \in {"up", "closing", "down", "crashed"}
    /\ call = Proc!NoCall \/ call \in Calls
    /\ waiting \subseteq DOMAIN Batches
    /\ db \subseteq Rule /\ IsFiniteSet(db)
    /\ Listing(ruleDone)
    /\ \A e \in queue : EventOK(e)
    /\ JobOK

\* Rules of batches that nobody submitted, and of the batch that is checked
\* or registered right now, as far as they are not in the database.
Unborn == UNION {ToSet(Batches[b]) : b \in waiting}
Incoming ==
    {r \in Rule : \/ job.op = "check" /\ r \in ToSet(job.all)
                  \/ job.op = "register" /\ r \in ToSet(job.rest)}

Newcomers ==
    /\ \A r \in Unborn : state[r] = "new" /\ r \notin Incoming
    /\ \A r \in Unborn \cup Incoming :
          r \notin db \cup activated \cup freed \cup ToSet(ruleDone)
    /\ job.op = "check" => \A r \in ToSet(job.rest) :
          r \in ToSet(job.all) /\ state[r] = "new"

\* A call of QOSProcessor belongs to the handler that runs.
CallInJob ==
    /\ job # NoJob => run = "up"
    /\ call # Proc!NoCall =>
         /\ run \in {"up", "closing"} /\ (run = "closing" => call.op = "del")
         /\ call.op = "check" => /\ job.op = "check" /\ state[call.rule] = "new"
                                 /\ call.rule \in ToSet(job.all) \ ToSet(job.rest)
         /\ call.op \in {"add", "undo"} =>
              /\ job.op = "activate" /\ state[call.rule] = "valid"
              /\ call.rule \in db \cap activated
         /\ call.op = "del" =>
              /\ call.rule \in db
              /\ run = "up" => /\ job.op = "remove"
                               /\ call.rule \in ToSet(job.all) \ ToSet(job.rest)

\* The database, the states and the processor's table and timers.
Registered ==
    /\ \A r \in db : state[r] \in {"valid", "active", "done"}
    /\ \A r \in Rule : state[r] = "active" => r \in db \cap activated
    /\ \A r \in table : r \in Rule /\ state[r] = "active"
    /\ \A t \in timers : t[1] \in db
    /\ \A r \in freed : r \notin db \cup ToSet(ruleDone)
    /\ \A r \in ToSet(ruleDone) : r \notin db

\* Rules that are being removed are done before they leave the database.
Removing ==
    /\ run = "up" => \A r \in db : state[r] = "done" =>
         \/ job.op = "remove" /\ r \in ToSet(job.all) \ ToSet(job.rest)
         \/ job.op = "unregister" /\ r \in ToSet(job.rest)
    /\ job.op = "remove" =>
         /\ ToSet(job.rest) \subseteq ToSet(job.all) /\ ToSet(job.all) \subseteq db
         /\ \A r \in ToSet(job.rest) : state[r] \in {"valid", "active"}
         /\ \A r \in ToSet(job.all) \ ToSet(job.rest) :
              state[r] = "done" \/ (call # Proc!NoCall /\ call.rule = r)
    /\ job.op = "unregister" =>
         \A r \in ToSet(job.rest) : r \in db /\ state[r] = "done"

\* An event lists rules of the database, an activation such that were not
\* activated; a rule is in one activation and one removal at most.
Scheduled(type, r) == \E e \in queue : e.type = type /\ Mentions(e, r)
Waits(type, r) ==
    r \in db /\ (IF type = "activate" THEN r \notin activated ELSE Stop[r] # 0)

Schedules ==
    /\ \A e \in queue : \A r \in ToSet(e.rules) : Waits(e.type, r)
    /\ \A e, f \in queue : \A r \in Rule :
          e.type = f.type /\ Mentions(e, r) /\ Mentions(f, r) => e = f
    /\ job.op = "activate" => \A r \in ToSet(job.rest) :
          Waits("activate", r) /\ ~Scheduled("activate", r)
    /\ job.op = "register" =>
         /\ \A t \in DOMAIN job.start : \A r \in ToSet(job.start[t]) :
              Start[r] = t /\ Waits("activate", r) /\ ~Scheduled("activate", r)
         /\ \A t \in DOMAIN job.stop : \A r \in ToSet(job.stop[t]) :
              Stop[r] = t /\ Waits("remove", r) /\ ~Scheduled("remove", r)

\* A registered rule with a stop time has its removal before it; a batch of
\* one rule has none of its own registered when its registration fails.
Removals ==
    /\ job.op = "register" =>
         /\ ToSet(job.rest) \subseteq ToSet(job.all)
         /\ \A t \in DOMAIN job.stop : ToSet(job.stop[t]) \subseteq ToSet(job.all)
    /\ run = "up" => \A r \in db : Stop[r] # 0 =>
            \/ Scheduled("remove", r)
            \/ job.op = "register" /\ \E t \in DOMAIN job.stop : r \in ToSet(job.stop[t])
            \/ job.op = "remove" /\ r \in ToSet(job.all)
            \/ job.op = "unregister" /\ r \in ToSet(job.rest)

IInv == Shapes /\ Newcomers /\ CallInJob /\ Registered /\ Removing
        /\ Schedules /\ Removals /\ IndexMatchesDb
-----------------------------------------------------------------------------
(* What one step inside a call of QOSProcessor does to the variables the   *)
(* manager's rules depend on.                                              *)
LEMMA WorkingCall ==
    ASSUME Shapes, Proc!Work
    PROVE  call \in Calls
  <1>1. call.op \in {"check", "add", "undo", "del"}
    BY DEF Proc!Work, Proc!CheckStep, Proc!AddStep, Proc!DelStep,
           Proc!CheckPasses, Proc!CheckGetsNothing, Proc!CheckNoBandwidth,
           Proc!CheckRefused, Proc!CheckDestroysTwice, Proc!CheckThrowsOut,
           Proc!CheckAborts, Proc!EndCheck, Proc!CheckGetsToSetup, Proc!At,
           Proc!AddInstalls, Proc!AddNoFlowId, Proc!AddRefused, Proc!EndAdd,
           Proc!EndUndo, Proc!UndoAction, Proc!UndoThrowsOut,
           Proc!DelHollow, Proc!EndDel, Proc!DelAction, Proc!DelRefused
  <1> QED BY <1>1 DEF Shapes, Proc!NoCall

\* The call goes on, for the same rule and with all states as they were; or it
\* ends and its rule gets the state the method is there for, or keeps it where
\* the method throws.
Goes(c, d) == /\ d \in Calls /\ d.rule = c.rule
              /\ d.op = c.op \/ (c.op = "add" /\ d.op = "undo")
Result(op) == CASE op = "check" -> {"valid", "error"}
                [] op = "add" -> {"active"}
                [] op = "del" -> {"done"}
                [] OTHER -> {}

CallGoesOn == run' = run /\ Goes(call, call') /\ UNCHANGED << state, table >>
CallThrows ==
    /\ call' = Proc!NoCall /\ UNCHANGED << state, table >>
    /\ run' = run => call.op = "undo"
    /\ run' \in {run, "closing", "crashed"}
CallReturns ==
    /\ call' = Proc!NoCall /\ run' = run
    /\ \E s \in Result(call.op) : state' = [state EXCEPT ![call.rule] = s]
    /\ table' = IF call.op = "add" THEN table \cup {call.rule}
                ELSE IF call.op = "del" THEN table \ {call.rule} ELSE table

LEMMA WorkEffect ==
    ASSUME call \in Calls, CallInJob, Proc!Work
    PROVE  /\ CallGoesOn \/ CallThrows \/ CallReturns
           /\ activated' = activated
           /\ \A t \in timers' : t \in timers \/ (call.op = "add" /\ t[1] = call.rule)
  <1>0. /\ call.act + 1 \in Nat \ {0}
        /\ run \in {"up", "closing"} /\ (run = "closing" => call.op = "del")
    BY DEF Calls, CallInJob, Proc!NoCall
  <1>1. CASE Proc!CheckPasses
    BY <1>0, <1>1 DEF Proc!CheckPasses, Proc!GoOn, CallGoesOn, Goes, Calls
  <1>2. CASE Proc!CheckGetsNothing \/ Proc!CheckNoBandwidth \/ Proc!CheckRefused
             \/ Proc!CheckDestroysTwice
    <2>1. call.op = "check" /\ Proc!Reject
      BY <1>2 DEF Proc!CheckGetsNothing, Proc!CheckNoBandwidth, Proc!CheckRefused,
           Proc!CheckDestroysTwice, Proc!CheckGetsToSetup, Proc!At
    <2> QED BY <2>1 DEF Proc!Reject, CallReturns, Result
  <1>3. CASE Proc!CheckThrowsOut
    BY <1>0, <1>3 DEF Proc!CheckThrowsOut, Proc!CheckGetsToSetup, Proc!At, CallThrows
  <1>4. CASE Proc!CheckAborts \/ Proc!DelHollow
    BY <1>0, <1>4 DEF Proc!CheckAborts, Proc!DelHollow, Proc!Crash, Proc!CheckGetsToSetup,
         Proc!At, CallThrows
  <1>5. CASE Proc!EndCheck
    BY <1>5 DEF Proc!EndCheck, CallReturns, Result
  <1>6. CASE Proc!AddInstalls
    <2>1. CallGoesOn /\ activated' = activated
      BY <1>0, <1>6 DEF Proc!AddInstalls, Proc!GoOn, CallGoesOn, Goes, Calls
    <2>2. call.op = "add" /\ timers' = timers \cup Proc!TimerEvents(Proc!Current)
      BY <1>6 DEF Proc!AddInstalls, Proc!At
    <2>3. \A t \in Proc!TimerEvents(Proc!Current) : t[1] = call.rule
      BY DEF Proc!TimerEvents, Proc!ProcTimer
    <2> QED BY <2>1, <2>2, <2>3
  <1>7. CASE Proc!AddNoFlowId \/ Proc!AddRefused
    <2>1. call.op = "add" /\ Proc!AddFails
      BY <1>7 DEF Proc!AddNoFlowId, Proc!AddRefused, Proc!At
    <2> QED BY <2>1 DEF Proc!AddFails, CallGoesOn, Goes, Calls
  <1>8. CASE Proc!EndAdd
    BY <1>8 DEF Proc!EndAdd, CallReturns, Result
  <1>9. CASE Proc!EndUndo
    BY <1>9 DEF Proc!EndUndo, CallThrows
  <1>10. ASSUME NEW f \in flows, Proc!UndoAction(f) PROVE CallGoesOn /\ UNCHANGED << activated, timers >>
    BY <1>10 DEF Proc!UndoAction, CallGoesOn, Goes
  <1>11. ASSUME NEW f \in flows, Proc!UndoThrowsOut(f)
         PROVE  CallThrows /\ UNCHANGED << activated, timers >>
    BY <1>11 DEF Proc!UndoThrowsOut, CallThrows
  <1>12. CASE Proc!EndDel
    BY <1>12 DEF Proc!EndDel, CallReturns, Result
  <1>13. ASSUME NEW f \in flows, Proc!DelAction(f) \/ Proc!DelRefused(f)
         PROVE  CallGoesOn /\ UNCHANGED << activated, timers >>
    BY <1>13 DEF Proc!DelAction, Proc!DelRefused, CallGoesOn, Goes
  <1> QED
    BY <1>1, <1>2, <1>3, <1>4, <1>5, <1>6, <1>7, <1>8, <1>9, <1>10, <1>11, <1>12,
       <1>13 DEF Proc!Work, Proc!CheckStep, Proc!AddStep, Proc!DelStep
-----------------------------------------------------------------------------
(* The handlers *)

\* The batches are lists, and no rule is in two of them.
LEMMA BatchLists ==
    ASSUME NEW b \in DOMAIN Batches
    PROVE  /\ Listing(Batches[b])
           /\ \A c \in DOMAIN Batches : c # b =>
                ToSet(Batches[b]) \cap ToSet(Batches[c]) = {}
  <1>1. Batches[b] \in Seq(Rule)
    <2>1. b \in 1 .. Len(Batches)
      BY ManagerAssumption, LenProperties
    <2> QED BY <2>1, ManagerAssumption, ElementOfSeq
  <1>2. IsInjective(Batches[b])
    BY ManagerAssumption DEF IsInjective
  <1>3. ASSUME NEW c \in DOMAIN Batches, NEW r \in ToSet(Batches[b]) \cap ToSet(Batches[c])
        PROVE  c = b
    BY <1>3, ManagerAssumption DEF ToSet
  <1> QED BY <1>1, <1>2, <1>3 DEF Listing

LEMMA ListedRules ==
    ASSUME NEW s, Listing(s)
    PROVE  ToSet(s) \subseteq Rule
  <1>1. CASE s = << >>
    BY <1>1 DEF ToSet
  <1>2. CASE s # << >>
    BY <1>2, TailLists
  <1> QED BY <1>1, <1>2

\* The constructor leaves nothing that the invariant is about.
LEMMA InitIInv == Init => IInv
  <1> SUFFICES ASSUME Init PROVE IInv
    OBVIOUS
  <1>1. /\ state = [r \in Rule |-> "new"] /\ table = {} /\ timers = {}
        /\ activated = {} /\ call = Proc!NoCall /\ run = "up"
    BY DEF Init, Proc!Init
  <1>2. /\ waiting = DOMAIN Batches /\ db = {} /\ index = << >> /\ ruleDone = << >>
        /\ freed = {} /\ queue = {} /\ job = NoJob /\ job.op = "none"
    BY DEF Init, NoJob
  <1>3. DOMAIN index = {} /\ ToSet(ruleDone) = {} /\ Listing(ruleDone)
    BY <1>2 DEF ToSet, Listing, IsInjective
  <1>4. Shapes
    BY <1>1, <1>2, <1>3, FS_EmptySet DEF Shapes, States, JobOK
  <1>5. Newcomers
    <2>1. \A r \in Unborn : r \in Rule
      BY <1>2, BatchLists, ListedRules DEF Unborn
    <2> QED BY <1>1, <1>2, <1>3, <2>1 DEF Newcomers, Incoming
  <1>6. CallInJob /\ Registered /\ Removing /\ Schedules /\ Removals
    BY <1>1, <1>2, <1>3 DEF CallInJob, Registered, Removing, Schedules, Removals
  <1>7. IndexMatchesDb
    BY <1>2, <1>3 DEF IndexMatchesDb
  <1> QED BY <1>4, <1>5, <1>6, <1>7 DEF IInv

\* A handler is known by its name; the main loop is in none.
LEMMA JobFields ==
    ASSUME Shapes
    PROVE  /\ job = NoJob <=> job.op = "none"
           /\ job.op \in {"none", "check", "register", "activate", "remove", "unregister"}
           /\ job # NoJob => Listing(job.rest) /\ Listing(job.all)
           /\ job.op = "register" => MapOK(job.start) /\ MapOK(job.stop)
  BY DEF Shapes, JobOK, NoJob

\* One rule of a handler's list is done with.
LEMMA AdvanceEffect ==
    ASSUME Shapes, job # NoJob, job.op # "register", job.rest # << >>, Advance
    PROVE  /\ Next1 \in ToSet(job.rest) /\ Next1 \in Rule
           /\ job'.op = job.op /\ job'.all = job.all /\ JobOK'
           /\ ToSet(job'.rest) = ToSet(job.rest) \ {Next1}
  <1>1. /\ Next1 \in ToSet(job.rest) /\ Next1 \in Rule
        /\ Listing(Tail(job.rest)) /\ ToSet(Tail(job.rest)) = ToSet(job.rest) \ {Next1}
    BY JobFields, TailLists DEF Next1
  <1>2. /\ job = [op |-> job.op, rest |-> job.rest, all |-> job.all]
        /\ job.op \in {"check", "activate", "remove", "unregister"} /\ Listing(job.all)
    BY DEF Shapes, JobOK
  <1>3. job' = [op |-> job.op, rest |-> Tail(job.rest), all |-> job.all]
    BY <1>2 DEF Advance
  <1> QED BY <1>1, <1>2, <1>3 DEF JobOK

LEMMA SubmitKeeps ==
    ASSUME IInv, NEW b \in DOMAIN Batches, Submit(b) PROVE IInv'
  <1>1. /\ run = "up" /\ call = Proc!NoCall /\ job = NoJob /\ job.op = "none"
        /\ b \in waiting /\ waiting' = waiting \ {b}
        /\ job' = [op |-> "check", rest |-> Batches[b], all |-> Batches[b]]
        /\ UNCHANGED << state, table, timers, activated, call, run, db, index,
                        ruleDone, freed, queue >>
    BY DEF Submit, Free, Proc!Idle, NoJob, procVars
  <1>2. Listing(Batches[b]) /\ ToSet(Batches[b]) \subseteq Rule
    BY BatchLists, ListedRules
  <1>3. Shapes'
    BY <1>1, <1>2 DEF IInv, Shapes, JobOK, EventOK, Proc!NoCall
  <1>4. Newcomers'
    <2>1. ToSet(Batches[b]) \subseteq Unborn /\ Incoming' = ToSet(Batches[b])
      BY <1>1, <1>2 DEF Unborn, Incoming
    <2>2. \A r \in Unborn' : r \in Unborn /\ r \notin ToSet(Batches[b])
      BY <1>1, BatchLists DEF Unborn, IInv, Shapes
    <2> QED BY <1>1, <2>1, <2>2 DEF IInv, Newcomers
  <1>5. CallInJob' /\ Registered' /\ Removing' /\ Removals' /\ IndexMatchesDb'
    BY <1>1 DEF IInv, CallInJob, Registered, Removing, Removals, Scheduled,
         Mentions, IndexMatchesDb
  <1>6. Schedules'
    BY <1>1 DEF IInv, Schedules, Waits, Mentions
  <1> QED BY <1>3, <1>4, <1>5, <1>6 DEF IInv

LEMMA CheckNextKeeps == ASSUME IInv, CheckNext PROVE IInv'
  <1>1. /\ run = "up" /\ call = Proc!NoCall /\ job.op = "check" /\ job # NoJob
        /\ job.rest # << >> /\ Advance /\ state[Next1] = "new"
        /\ call' = [op |-> "check", rule |-> Next1, act |-> 1]
        /\ UNCHANGED << state, table, timers, activated, run, waiting, db, index,
                        ruleDone, freed, queue >>
    BY DEF CheckNext, Doing, Proc!Idle, Proc!BeginCheck, Proc!Starts, NoJob
  <1>2. /\ Next1 \in ToSet(job.rest) /\ Next1 \in Rule
        /\ job'.op = "check" /\ job'.all = job.all /\ JobOK' /\ job' # NoJob
        /\ ToSet(job'.rest) = ToSet(job.rest) \ {Next1}
    BY <1>1, AdvanceEffect DEF IInv, NoJob
  <1>3. call' \in Calls
    BY <1>1, <1>2 DEF Calls
  <1>4. Shapes'
    BY <1>1, <1>2, <1>3 DEF IInv, Shapes, EventOK
  <1>5. Newcomers'
    <2>1. Unborn' = Unborn /\ Incoming' = Incoming
      BY <1>1, <1>2 DEF Unborn, Incoming
    <2> QED BY <1>1, <1>2, <2>1 DEF IInv, Newcomers
  <1>6. CallInJob'
    <2>1. Next1 \in ToSet(job.all)
      BY <1>1, <1>2 DEF IInv, Newcomers
    <2> QED BY <1>1, <1>2, <2>1 DEF CallInJob
  <1>7. Registered' /\ Removing' /\ Removals' /\ IndexMatchesDb'
    BY <1>1, <1>2 DEF IInv, Registered, Removing, Removals, Scheduled, Mentions,
         IndexMatchesDb
  <1>8. Schedules'
    BY <1>1, <1>2 DEF IInv, Schedules, Waits, Mentions
  <1> QED BY <1>4, <1>5, <1>6, <1>7, <1>8 DEF IInv

LEMMA CheckedAllKeeps == ASSUME IInv, CheckedAll PROVE IInv'
  <1>1. /\ run = "up" /\ call = Proc!NoCall /\ job.op = "check" /\ job # NoJob
        /\ job' = [op |-> "register", rest |-> job.all, all |-> job.all,
                   start |-> << >>, stop |-> << >>]
        /\ UNCHANGED << state, table, timers, activated, call, run, waiting, db,
                        index, ruleDone, freed, queue >>
    BY DEF CheckedAll, Registering, Doing, Proc!Idle, NoJob, procVars
  <1>2. /\ job'.op = "register" /\ job'.rest = job.all /\ job'.all = job.all
        /\ DOMAIN job'.start = {} /\ DOMAIN job'.stop = {} /\ Listing(job.all)
    BY <1>1, JobFields DEF IInv
  <1>3. Shapes'
    BY <1>1, <1>2 DEF IInv, Shapes, EventOK, JobOK, MapOK
  <1>4. Newcomers'
    <2>1. Unborn' = Unborn /\ Incoming' = Incoming
      BY <1>1, <1>2 DEF Unborn, Incoming
    <2> QED BY <1>1, <1>2, <2>1 DEF IInv, Newcomers
  <1>5. CallInJob' /\ Registered' /\ Removing' /\ Removals' /\ IndexMatchesDb'
    BY <1>1, <1>2 DEF IInv, CallInJob, Registered, Removing, Removals, Scheduled,
         Mentions, IndexMatchesDb
  <1>6. Schedules'
    BY <1>1, <1>2 DEF IInv, Schedules, Waits, Mentions
  <1> QED BY <1>3, <1>4, <1>5, <1>6 DEF IInv
\* What is known of the map after push_back(r) into the entry of a time.
PutIn(map, time, r, new) ==
    /\ MapOK(new) /\ DOMAIN new = DOMAIN map \cup {time}
    /\ r \in ToSet(new[time])
    /\ \A t \in DOMAIN map : ToSet(map[t]) \subseteq ToSet(new[t])
    /\ \A t \in DOMAIN new : \A x \in ToSet(new[t]) :
         (t \in DOMAIN map /\ x \in ToSet(map[t])) \/ (t = time /\ x = r)

\* push_back into the entry of a time, for a rule no entry holds.
LEMMA PushBackMap ==
    ASSUME NEW map, MapOK(map), NEW time, NEW r \in Rule,
           \A t \in DOMAIN map : r \notin ToSet(map[t])
    PROVE  PutIn(map, time, r, PushBack(map, time, r))
  <1> DEFINE new == PushBack(map, time, r)
  <1> DEFINE old == IF time \in DOMAIN map THEN map[time] ELSE << >>
  <1>1. Listing(<< >>) /\ ToSet(<< >>) = {}
    BY DEF Listing, IsInjective, ToSet
  <1>2. /\ Listing(old) /\ r \notin ToSet(old)
        /\ time \in DOMAIN map => old = map[time]
        /\ time \notin DOMAIN map => ToSet(old) = {}
    BY <1>1 DEF MapOK
  <1>3. /\ DOMAIN new = DOMAIN map \cup {time} /\ new[time] = Append(old, r)
        /\ \A t \in DOMAIN map : t # time => new[t] = map[t]
    BY DEF PushBack
  <1> HIDE DEF old, new
  <1>4. /\ Listing(new[time]) /\ new[time] # << >>
        /\ ToSet(new[time]) = ToSet(old) \cup {r}
    BY <1>2, <1>3, AppendLists
  <1> QED BY <1>2, <1>3, <1>4 DEF MapOK, PutIn, new

\* The loop of addRules, whatever becomes of the rule in front.
LEMMA RegisterLoop ==
    ASSUME IInv, Doing("register"), job.rest # << >>
    PROVE  /\ run = "up" /\ call = Proc!NoCall /\ job # NoJob
           /\ job = [op |-> "register", rest |-> job.rest, all |-> job.all,
                     start |-> job.start, stop |-> job.stop]
           /\ Listing(job.all) /\ MapOK(job.start) /\ MapOK(job.stop)
           /\ Next1 \in ToSet(job.rest) /\ Next1 \in Rule /\ Listing(Tail(job.rest))
           /\ ToSet(Tail(job.rest)) = ToSet(job.rest) \ {Next1}
           /\ Next1 \in Incoming /\ Next1 \notin Unborn
           /\ Next1 \notin db \cup activated \cup freed \cup ToSet(ruleDone)
  <1>1. run = "up" /\ call = Proc!NoCall /\ job.op = "register" /\ job # NoJob
    BY DEF Doing, Proc!Idle, NoJob
  <1>2. /\ job = [op |-> "register", rest |-> job.rest, all |-> job.all,
                  start |-> job.start, stop |-> job.stop]
        /\ Listing(job.rest) /\ Listing(job.all) /\ MapOK(job.start) /\ MapOK(job.stop)
    BY <1>1 DEF IInv, Shapes, JobOK
  <1>3. /\ Next1 \in ToSet(job.rest) /\ Next1 \in Rule /\ Listing(Tail(job.rest))
        /\ ToSet(Tail(job.rest)) = ToSet(job.rest) \ {Next1}
    BY <1>2, TailLists DEF Next1
  <1>4. Next1 \in Incoming
    BY <1>1, <1>3 DEF Incoming
  <1>5. Next1 \notin Unborn /\ Next1 \notin db \cup activated \cup freed \cup ToSet(ruleDone)
    BY <1>4 DEF IInv, Newcomers
  <1> QED BY <1>1, <1>2, <1>3, <1>4, <1>5

\* A rule that is registered gets its place in the database, the index and the
\* maps at once, and nobody knew it before.
LEMMA RegisterKeeps == ASSUME IInv, Register PROVE IInv'
  <1>0. PICK r \in Rule : r = Next1
    BY RegisterLoop DEF Register
  <1> DEFINE start == PushBack(job.start, Start[r], r)
             stop == IF Ending(r) THEN PushBack(job.stop, Stop[r], r)
                     ELSE job.stop
  <1>1. /\ Doing("register") /\ job.rest # << >> /\ state[r] = "valid"
        /\ Key(r) \notin DOMAIN index
        /\ db' = db \cup {r} /\ index' = IndexWith(r)
        /\ UNCHANGED << state, table, timers, activated, call, run, waiting,
                        ruleDone, freed, queue >>
    BY <1>0 DEF Register, procVars
  <1>2. job' = [op |-> "register", rest |-> Tail(job.rest), all |-> job.all,
                start |-> start, stop |-> stop]
    BY <1>0 DEF Register, Registering
  <1>3. /\ r \in Rule /\ r \notin db /\ r \notin activated
        /\ r \notin freed /\ r \notin ToSet(ruleDone)
    BY <1>1, RegisterLoop, <1>0
  <1>4. /\ \A t \in DOMAIN job.start : r \notin ToSet(job.start[t])
        /\ \A t \in DOMAIN job.stop : r \notin ToSet(job.stop[t])
    BY <1>1, <1>3 DEF IInv, Schedules, Waits, Doing
  <1>5. /\ MapOK(start) /\ DOMAIN start = DOMAIN job.start \cup {Start[r]}
        /\ \A t \in DOMAIN start : \A x \in ToSet(start[t]) :
             \/ t \in DOMAIN job.start /\ x \in ToSet(job.start[t])
             \/ t = Start[r] /\ x = r
    <2>1. MapOK(job.start)
      BY <1>1, RegisterLoop, <1>0
    <2>2. PutIn(job.start, Start[r], r, start)
      BY <1>3, <1>4, <2>1, PushBackMap
    <2> HIDE DEF start
    <2> QED BY <2>2 DEF PutIn
  <1>6. /\ MapOK(stop) /\ DOMAIN job.stop \subseteq DOMAIN stop
        /\ \A t \in DOMAIN job.stop : ToSet(job.stop[t]) \subseteq ToSet(stop[t])
        /\ \A t \in DOMAIN stop : \A x \in ToSet(stop[t]) :
             \/ t \in DOMAIN job.stop /\ x \in ToSet(job.stop[t])
             \/ t = Stop[r] /\ x = r /\ Stop[r] # 0
        /\ Stop[r] # 0 => Stop[r] \in DOMAIN stop /\ r \in ToSet(stop[Stop[r]])
    <2>0. MapOK(job.stop)
      BY <1>1, RegisterLoop, <1>0
    <2>1. CASE Ending(r)
      <3>1. Stop[r] # 0 /\ stop = PushBack(job.stop, Stop[r], r)
        BY <2>1 DEF Ending
      <3>2. PutIn(job.stop, Stop[r], r, stop)
        BY <1>3, <1>4, <2>0, <3>1, PushBackMap
      <3> HIDE DEF stop
      <3> QED BY <3>1, <3>2 DEF PutIn
    <2>2. CASE ~Ending(r)
      <3>1. Stop[r] = 0 /\ stop = job.stop
        BY <2>2 DEF Ending
      <3> QED BY <2>0, <3>1
    <2> QED BY <2>1, <2>2
  <1> HIDE DEF start, stop
  <1>7. /\ job'.op = "register" /\ job'.rest = Tail(job.rest) /\ job'.all = job.all
        /\ job'.start = start /\ job'.stop = stop
        /\ ToSet(job'.rest) = ToSet(job.rest) \ {r}
        /\ run = "up" /\ call = Proc!NoCall /\ job # NoJob /\ job.op = "register"
    BY <1>1, <1>2, RegisterLoop, <1>0 DEF Doing
  <1>8. Shapes'
    <2>1. JobOK'
      BY <1>1, <1>2, <1>5, <1>6, RegisterLoop, <1>0 DEF JobOK
    <2>2. IsFiniteSet(db')
      BY <1>1, FS_AddElement DEF IInv, Shapes
    <2> QED BY <2>1, <2>2, <1>1, <1>3 DEF IInv, Shapes, EventOK
  <1>9. Newcomers'
    <2>1. Unborn' = Unborn /\ Incoming' = Incoming \ {r}
      BY <1>1, <1>7 DEF Unborn, Incoming
    <2>2. r \notin Unborn
      BY <1>1, RegisterLoop, <1>0
    <2> QED BY <1>1, <1>7, <2>1, <2>2 DEF IInv, Newcomers
  <1>10. CallInJob' /\ Registered' /\ Removing'
    BY <1>1, <1>3, <1>7 DEF IInv, CallInJob, Registered, Removing
  <1>11. Schedules'
    <2>1. \A type : ~Scheduled(type, r)
      BY <1>3 DEF IInv, Schedules, Scheduled, Mentions, Waits
    <2>2. \A type, x : Waits(type, x) => Waits(type, x)'
      BY <1>1 DEF Waits
    <2>3. Waits("activate", r)' /\ (Stop[r] # 0 => Waits("remove", r)')
      BY <1>1, <1>3 DEF Waits
    <2>4. \A type, x : Scheduled(type, x)' <=> Scheduled(type, x)
      BY <1>1 DEF Scheduled, Mentions
    <2>5. /\ \A e \in queue' : \A x \in ToSet(e.rules) : Waits(e.type, x)'
          /\ \A e, f \in queue' : \A x \in Rule :
                e.type = f.type /\ Mentions(e, x)' /\ Mentions(f, x)' => e = f
      BY <1>1, <2>2 DEF IInv, Schedules, Mentions
    <2>6. ASSUME NEW t \in DOMAIN start, NEW x \in ToSet(start[t])
          PROVE  Start[x] = t /\ Waits("activate", x)' /\ ~Scheduled("activate", x)'
      BY <1>5, <1>7, <2>1, <2>2, <2>3, <2>4, <2>6 DEF IInv, Schedules
    <2>7. ASSUME NEW t \in DOMAIN stop, NEW x \in ToSet(stop[t])
          PROVE  Stop[x] = t /\ Waits("remove", x)' /\ ~Scheduled("remove", x)'
      BY <1>6, <1>7, <2>1, <2>2, <2>3, <2>4, <2>7 DEF IInv, Schedules
    <2> QED BY <1>7, <2>5, <2>6, <2>7 DEF Schedules
  <1>12. Removals'
    <2>1. \A x : Scheduled("remove", x)' <=> Scheduled("remove", x)
      BY <1>1 DEF Scheduled, Mentions
    <2>2. \A x \in db : Stop[x] # 0 => \/ Scheduled("remove", x)
                                       \/ \E t \in DOMAIN stop : x \in ToSet(stop[t])
      BY <1>6, <1>7 DEF IInv, Removals
    <2>3. /\ r \in ToSet(job.all)
          /\ \A t \in DOMAIN stop : ToSet(stop[t]) \subseteq ToSet(job.all)
      BY <1>0, <1>1, <1>6, <1>7, RegisterLoop DEF IInv, Removals
    <2> QED BY <1>1, <1>6, <1>7, <2>1, <2>2, <2>3 DEF IInv, Removals
  <1>13. IndexMatchesDb'
    <2>1. /\ DOMAIN index' = DOMAIN index \cup {Key(r)} /\ index'[Key(r)] = r
          /\ \A k \in DOMAIN index : index'[k] = index[k]
      BY <1>1 DEF IndexWith
    <2> QED BY <1>1, <2>1 DEF IInv, IndexMatchesDb, Key
  <1> QED BY <1>8, <1>9, <1>10, <1>11, <1>12, <1>13 DEF IInv

\* A rule that is not registered is passed over or deleted.
LEMMA PassOverKeeps == ASSUME IInv, PassOver \/ Duplicate PROVE IInv'
  <1>0. PICK r \in Rule : r = Next1
    BY RegisterLoop DEF PassOver, Duplicate
  <1>1. /\ Doing("register") /\ job.rest # << >>
        /\ freed \subseteq freed' /\ freed' \subseteq freed \cup {r}
        /\ UNCHANGED << state, table, timers, activated, call, run, waiting, db,
                        index, ruleDone, queue >>
    BY <1>0 DEF PassOver, Duplicate, procVars
  <1>2. /\ run = "up" /\ call = Proc!NoCall /\ job # NoJob /\ job.op = "register"
        /\ r \in Incoming /\ r \notin Unborn /\ r \notin db /\ r \notin ToSet(ruleDone)
    BY <1>0, <1>1, RegisterLoop DEF Doing
  <1>3. /\ Registered' /\ IndexMatchesDb'
    BY <1>1, <1>2 DEF IInv, Registered, IndexMatchesDb
  <1>4. CASE Registering(Tail(job.rest), job.start, job.stop)
    <2>1. job' = [op |-> "register", rest |-> Tail(job.rest), all |-> job.all,
                  start |-> job.start, stop |-> job.stop]
      BY <1>4 DEF Registering
    <2>2. /\ job'.op = "register" /\ job'.rest = Tail(job.rest) /\ job'.all = job.all
          /\ job'.start = job.start /\ job'.stop = job.stop
          /\ ToSet(job'.rest) = ToSet(job.rest) \ {r}
      BY <1>0, <1>1, <2>1, RegisterLoop
    <2>3. Shapes'
      <3>1. JobOK'
        BY <1>1, <2>1, RegisterLoop DEF JobOK
      <3> QED BY <1>1, <3>1 DEF IInv, Shapes, EventOK
    <2>4. Newcomers'
      <3>1. Unborn' = Unborn /\ Incoming' = Incoming \ {r}
        BY <1>1, <1>2, <2>2 DEF Unborn, Incoming
      <3> QED BY <1>1, <1>2, <2>2, <3>1 DEF IInv, Newcomers
    <2>5. CallInJob' /\ Removing' /\ Removals'
      BY <1>1, <1>2, <2>2 DEF IInv, CallInJob, Removing, Removals, Scheduled, Mentions
    <2>6. Schedules'
      BY <1>1, <1>2, <2>2 DEF IInv, Schedules, Scheduled, Waits, Mentions
    <2> QED BY <1>3, <2>3, <2>4, <2>5, <2>6 DEF IInv
  <1>5. CASE Duplicate /\ Len(job.all) = 1 /\ job' = NoJob
    <2>1. job' = NoJob /\ job'.op = "none"
      BY <1>5 DEF NoJob
    <2>2. \A x \in ToSet(job.all) : x = r
      <3>1. DOMAIN job.all = {1}
        BY <1>1, <1>5, RegisterLoop, LenProperties DEF Listing
      <3>2. r \in ToSet(job.all)
        BY <1>0, <1>1, <1>2, RegisterLoop DEF IInv, Removals
      <3> QED BY <3>1, <3>2 DEF ToSet
    <2>3. \A t \in DOMAIN job.stop : ToSet(job.stop[t]) = {}
      BY <1>2, <2>2 DEF IInv, Removals, Schedules, Waits
    <2>4. Shapes'
      BY <1>1, <2>1 DEF IInv, Shapes, EventOK, JobOK
    <2>5. Newcomers'
      <3>1. Unborn' = Unborn /\ Incoming' = {}
        BY <1>1, <2>1 DEF Unborn, Incoming
      <3> QED BY <1>1, <1>2, <2>1, <3>1 DEF IInv, Newcomers
    <2>6. CallInJob' /\ Removing' /\ Removals'
      BY <1>1, <1>2, <2>1, <2>3
         DEF IInv, CallInJob, Removing, Removals, Scheduled, Mentions
    <2>7. Schedules'
      BY <1>1, <1>2, <2>1 DEF IInv, Schedules, Scheduled, Waits, Mentions
    <2> QED BY <1>3, <2>4, <2>5, <2>6, <2>7 DEF IInv
  <1> QED BY <1>4, <1>5 DEF PassOver, Duplicate
\* One entry of the maps becomes an event: its rules wait for it as they waited
\* for the entry, and no other event or entry names them.
LEMMA ScheduleKeeps ==
    ASSUME IInv, NEW type \in {"activate", "remove"}, NEW t,
           Doing("register"), job.rest = << >>,
           NEW map, map = IF type = "activate" THEN job.start ELSE job.stop,
           t \in DOMAIN map, AddEvent(type, t, map[t]),
           IF type = "activate" THEN Registering(job.rest, Without(map, t), job.stop)
           ELSE Registering(job.rest, job.start, Without(map, t)),
           UNCHANGED << procVars, waiting, db, index, ruleDone, freed >>
    PROVE  IInv'
  <1>1. /\ run = "up" /\ call = Proc!NoCall /\ job # NoJob /\ job.op = "register"
        /\ UNCHANGED << state, table, timers, activated, call, run, waiting, db,
                        index, ruleDone, freed >>
    BY DEF Doing, Proc!Idle, NoJob, procVars
  <1>2. /\ job = [op |-> "register", rest |-> job.rest, all |-> job.all,
                  start |-> job.start, stop |-> job.stop]
        /\ Listing(job.rest) /\ Listing(job.all) /\ MapOK(job.start) /\ MapOK(job.stop)
    BY <1>1 DEF IInv, Shapes, JobOK
  <1>3. MapOK(map) /\ Listing(map[t]) /\ map[t] # << >> /\ ToSet(map[t]) \subseteq Rule
    BY <1>2, ListedRules DEF MapOK
  <1>4. PICK e : /\ queue' = queue \cup {e} /\ EventOK(e)
                 /\ e.type = type /\ e.rules = map[t]
    <2> DEFINE e == [type |-> type, time |-> t, no |-> Behind(t), rules |-> map[t]]
    <2>1. queue' = queue \cup {e}
      BY DEF AddEvent
    <2>2. EventOK(e) /\ e.type = type /\ e.rules = map[t]
      BY <1>3 DEF EventOK
    <2> QED BY <2>1, <2>2
  <1>5. /\ MapOK(Without(map, t)) /\ DOMAIN Without(map, t) = DOMAIN map \ {t}
        /\ \A u \in DOMAIN Without(map, t) : Without(map, t)[u] = map[u]
    BY <1>3 DEF Without, Restrict, MapOK
  <1>6. /\ job'.op = "register" /\ job'.rest = job.rest /\ job'.all = job.all
        /\ Listing(job'.rest) /\ Listing(job'.all) /\ MapOK(job'.start) /\ MapOK(job'.stop)
        /\ job' = [op |-> "register", rest |-> job'.rest, all |-> job'.all,
                   start |-> job'.start, stop |-> job'.stop]
        /\ type = "activate" =>
             /\ DOMAIN job'.start = DOMAIN job.start \ {t} /\ job'.stop = job.stop
             /\ \A u \in DOMAIN job'.start : job'.start[u] = job.start[u]
        /\ type = "remove" =>
             /\ DOMAIN job'.stop = DOMAIN job.stop \ {t} /\ job'.start = job.start
             /\ \A u \in DOMAIN job'.stop : job'.stop[u] = job.stop[u]
    <2>1. CASE type = "activate"
      BY <1>2, <1>5, <2>1 DEF Registering
    <2>2. CASE type = "remove"
      BY <1>2, <1>5, <2>2 DEF Registering
    <2> QED BY <2>1, <2>2
  <1>7. Shapes'
    BY <1>1, <1>4, <1>6 DEF IInv, Shapes, EventOK, JobOK
  <1>8. Newcomers'
    <2>1. Unborn' = Unborn /\ Incoming' = Incoming
      BY <1>1, <1>6 DEF Unborn, Incoming
    <2> QED BY <1>1, <1>6, <2>1 DEF IInv, Newcomers
  <1>9. CallInJob' /\ Registered' /\ Removing' /\ IndexMatchesDb'
    BY <1>1, <1>6 DEF IInv, CallInJob, Registered, Removing, IndexMatchesDb
  <1>10. \A r \in ToSet(map[t]) : Waits(type, r) /\ ~Scheduled(type, r)
    BY <1>1 DEF IInv, Schedules
  <1>11. \A kind, r : /\ Waits(kind, r)' <=> Waits(kind, r)
                      /\ Scheduled(kind, r)' <=>
                           Scheduled(kind, r) \/ (kind = type /\ r \in ToSet(map[t]))
    BY <1>1, <1>4 DEF Waits, Scheduled, Mentions
  <1>12. Schedules'
    <2>1. \A f \in queue' : \A r \in ToSet(f.rules) : Waits(f.type, r)'
      BY <1>4, <1>10, <1>11 DEF IInv, Schedules
    <2>2. \A f, g \in queue' : \A r \in Rule :
            f.type = g.type /\ Mentions(f, r)' /\ Mentions(g, r)' => f = g
      BY <1>4, <1>10 DEF IInv, Schedules, Mentions, Scheduled
    <2>3. ASSUME NEW u \in DOMAIN job'.start, NEW r \in ToSet(job'.start[u])
          PROVE  Start[r] = u /\ Waits("activate", r)' /\ ~Scheduled("activate", r)'
      <3>1. u \in DOMAIN job.start /\ r \in ToSet(job.start[u])
        BY <1>6, <2>3
      <3>2. Start[r] = u /\ Waits("activate", r) /\ ~Scheduled("activate", r)
        BY <1>1, <3>1 DEF IInv, Schedules
      <3>3. type = "activate" => r \notin ToSet(map[t])
        BY <1>1, <1>6, <3>1, <3>2, <2>3 DEF IInv, Schedules
      <3> QED BY <1>11, <3>2, <3>3
    <2>4. ASSUME NEW u \in DOMAIN job'.stop, NEW r \in ToSet(job'.stop[u])
          PROVE  Stop[r] = u /\ Waits("remove", r)' /\ ~Scheduled("remove", r)'
      <3>1. u \in DOMAIN job.stop /\ r \in ToSet(job.stop[u])
        BY <1>6, <2>4
      <3>2. Stop[r] = u /\ Waits("remove", r) /\ ~Scheduled("remove", r)
        BY <1>1, <3>1 DEF IInv, Schedules
      <3>3. type = "remove" => r \notin ToSet(map[t])
        BY <1>1, <1>6, <3>1, <3>2, <2>4 DEF IInv, Schedules
      <3> QED BY <1>11, <3>2, <3>3
    <2> QED BY <1>6, <2>1, <2>2, <2>3, <2>4 DEF Schedules
  <1>13. Removals'
    <2>1. ASSUME NEW r \in db, Stop[r] # 0
          PROVE  Scheduled("remove", r)' \/ \E u \in DOMAIN job'.stop : r \in ToSet(job'.stop[u])
      BY <1>1, <1>6, <1>11, <2>1 DEF IInv, Removals
    <2> QED BY <1>1, <1>6, <2>1 DEF IInv, Removals
  <1> QED BY <1>7, <1>8, <1>9, <1>12, <1>13 DEF IInv

\* addRules is through: every registered rule that ends has its event.
LEMMA ScheduledAllKeeps == ASSUME IInv, ScheduledAll PROVE IInv'
  <1>1. /\ run = "up" /\ call = Proc!NoCall /\ job # NoJob /\ job.op = "register"
        /\ job.rest = << >> /\ DOMAIN job.stop = {} /\ job' = NoJob /\ job'.op = "none"
        /\ UNCHANGED << state, table, timers, activated, call, run, waiting, db,
                        index, ruleDone, freed, queue >>
    BY DEF ScheduledAll, Doing, Proc!Idle, NoJob, procVars
  <1>2. Shapes'
    BY <1>1 DEF IInv, Shapes, EventOK, JobOK
  <1>3. Newcomers'
    <2>1. Unborn' = Unborn /\ Incoming' = {}
      BY <1>1 DEF Unborn, Incoming
    <2> QED BY <1>1, <2>1 DEF IInv, Newcomers
  <1>4. /\ CallInJob' /\ Registered' /\ Removing' /\ Removals' /\ IndexMatchesDb'
    BY <1>1 DEF IInv, CallInJob, Registered, Removing, Removals, Scheduled, Mentions,
         IndexMatchesDb
  <1>5. Schedules'
    BY <1>1 DEF IInv, Schedules, Waits, Mentions
  <1> QED BY <1>2, <1>3, <1>4, <1>5 DEF IInv
\* The event in front is taken out of the schedule and its list handled.
LEMMA DispatchKeeps == ASSUME IInv, NEW e \in queue, Dispatch(e) PROVE IInv'
  <1>1. /\ run = "up" /\ call = Proc!NoCall /\ job = NoJob /\ job.op = "none"
        /\ queue' = queue \ {e}
        /\ job' = [op |-> e.type, rest |-> e.rules, all |-> e.rules]
        /\ UNCHANGED << state, table, timers, activated, call, run, waiting, db,
                        index, ruleDone, freed >>
    BY DEF Dispatch, Handle, Free, Proc!Idle, NoJob, procVars
  <1>2. e.type \in {"activate", "remove"} /\ Listing(e.rules) /\ ToSet(e.rules) \subseteq Rule
    BY ListedRules DEF IInv, Shapes, EventOK
  <1>3. Shapes'
    BY <1>1, <1>2 DEF IInv, Shapes, EventOK, JobOK
  <1>4. Newcomers'
    <2>1. Unborn' = Unborn /\ Incoming' = {}
      BY <1>1, <1>2 DEF Unborn, Incoming
    <2> QED BY <1>1, <1>2, <2>1 DEF IInv, Newcomers
  <1>5. CallInJob' /\ Registered' /\ IndexMatchesDb'
    BY <1>1 DEF IInv, CallInJob, Registered, IndexMatchesDb
  <1>6. \A r \in ToSet(e.rules) : Waits(e.type, r) /\ r \in db
    BY DEF IInv, Schedules, Waits
  <1>7. Removing'
    <2>1. \A r \in db : state[r] \in {"valid", "active"}
      BY <1>1 DEF IInv, Registered, Removing
    <2> QED BY <1>1, <1>2, <1>6, <2>1 DEF Removing
  <1>8. \A kind, r : /\ Waits(kind, r)' <=> Waits(kind, r)
                     /\ Scheduled(kind, r)' => Scheduled(kind, r)
    BY <1>1 DEF Waits, Scheduled, Mentions
  <1>9. Schedules'
    <2>1. ASSUME NEW r \in ToSet(e.rules) PROVE ~Scheduled(e.type, r)'
      BY <1>1, <1>2, <2>1 DEF IInv, Schedules, Scheduled, Mentions
    <2>2. /\ \A f \in queue' : \A r \in ToSet(f.rules) : Waits(f.type, r)'
          /\ \A f, g \in queue' : \A r \in Rule :
                f.type = g.type /\ Mentions(f, r)' /\ Mentions(g, r)' => f = g
      BY <1>1, <1>8 DEF IInv, Schedules, Mentions
    <2>3. job'.op = "activate" => \A r \in ToSet(job'.rest) :
             Waits("activate", r)' /\ ~Scheduled("activate", r)'
      BY <1>1, <1>6, <1>8, <2>1
    <2> QED BY <1>1, <1>2, <2>2, <2>3 DEF Schedules
  <1>10. Removals'
    <2>1. ASSUME NEW r \in db, Stop[r] # 0, ~Scheduled("remove", r)'
          PROVE  job'.op = "remove" /\ r \in ToSet(job'.all)
      BY <1>1, <2>1 DEF IInv, Removals, Scheduled, Mentions
    <2> QED BY <1>1, <1>2, <2>1 DEF Removals
  <1> QED BY <1>3, <1>4, <1>5, <1>7, <1>9, <1>10 DEF IInv

\* A request names rules of the index, so of the database.
LEMMA RequestKeeps ==
    ASSUME IInv, NEW keys \in SUBSET DOMAIN index, Request(keys) PROVE IInv'
  <1> DEFINE named == SetToSeq({index[k] : k \in keys})
  <1>1. /\ run = "up" /\ call = Proc!NoCall /\ job = NoJob /\ job.op = "none"
        /\ job' = [op |-> "remove", rest |-> named, all |-> named]
        /\ UNCHANGED << state, table, timers, activated, call, run, waiting, db,
                        index, ruleDone, freed, queue >>
    BY DEF Request, Free, Proc!Idle, NoJob, procVars
  <1>2. Listing(named) /\ ToSet(named) \subseteq db
    <2>1. {index[k] : k \in keys} \subseteq db
      BY DEF IInv, IndexMatchesDb
    <2>2. IsFiniteSet({index[k] : k \in keys})
      BY <2>1, FS_Subset DEF IInv, Shapes
    <2>3. {index[k] : k \in keys} \subseteq Rule
      BY <2>1 DEF IInv, Shapes
    <2> QED BY <2>1, <2>2, <2>3, SetToSeqLists
  <1> HIDE DEF named
  <1>3. Shapes'
    BY <1>1, <1>2 DEF IInv, Shapes, EventOK, JobOK
  <1>4. Newcomers'
    <2>1. Unborn' = Unborn /\ Incoming' = {}
      BY <1>1 DEF Unborn, Incoming
    <2> QED BY <1>1, <2>1 DEF IInv, Newcomers
  <1>5. CallInJob' /\ Registered' /\ IndexMatchesDb' /\ Removals'
    BY <1>1 DEF IInv, CallInJob, Registered, IndexMatchesDb, Removals, Scheduled, Mentions
  <1>6. Removing'
    <2>1. \A r \in db : state[r] \in {"valid", "active"}
      BY <1>1 DEF IInv, Registered, Removing
    <2> QED BY <1>1, <1>2, <2>1 DEF Removing
  <1>7. Schedules'
    BY <1>1 DEF IInv, Schedules, Waits, Mentions
  <1> QED BY <1>3, <1>4, <1>5, <1>6, <1>7 DEF IInv

\* A rule is activated once: it leaves the list, and no event names it.
LEMMA ActivateNextKeeps == ASSUME IInv, ActivateNext PROVE IInv'
  <1>0. PICK r \in Rule : r = Next1
    BY AdvanceEffect DEF ActivateNext, Doing, NoJob, IInv
  <1>1. /\ run = "up" /\ call = Proc!NoCall /\ job.op = "activate" /\ job # NoJob
        /\ job.rest # << >> /\ Advance /\ state[r] = "valid"
        /\ call' = [op |-> "add", rule |-> r, act |-> 1]
        /\ activated' = activated \cup {r}
        /\ UNCHANGED << state, table, timers, run, waiting, db, index, ruleDone,
                        freed, queue >>
    BY <1>0 DEF ActivateNext, Doing, Proc!Idle, Proc!BeginAdd, Proc!Starts, NoJob
  <1>2. /\ r \in ToSet(job.rest)
        /\ job'.op = "activate" /\ job'.all = job.all /\ JobOK' /\ job' # NoJob
        /\ ToSet(job'.rest) = ToSet(job.rest) \ {r}
    BY <1>0, <1>1, AdvanceEffect DEF IInv, NoJob
  <1>3. r \in db /\ ~Scheduled("activate", r)
    BY <1>1, <1>2 DEF IInv, Schedules, Waits
  <1>4. Shapes'
    <2>1. call' \in Calls
      BY <1>1 DEF Calls
    <2> QED BY <1>1, <1>2, <2>1 DEF IInv, Shapes, EventOK
  <1>5. Newcomers'
    <2>1. Unborn' = Unborn /\ Incoming' = {} /\ Incoming = {}
      BY <1>1, <1>2 DEF Unborn, Incoming
    <2> QED BY <1>1, <1>2, <1>3, <2>1 DEF IInv, Newcomers
  <1>6. CallInJob'
    BY <1>1, <1>2, <1>3 DEF CallInJob
  <1>7. Registered' /\ Removing' /\ Removals' /\ IndexMatchesDb'
    BY <1>1, <1>2 DEF IInv, Registered, Removing, Removals, Scheduled, Mentions,
         IndexMatchesDb
  <1>8. Schedules'
    <2>1. \A kind, x : Waits(kind, x) /\ (x = r => kind = "remove") => Waits(kind, x)'
      BY <1>1 DEF Waits
    <2>2. \A x : Scheduled("activate", x)' <=> Scheduled("activate", x)
      BY <1>1 DEF Scheduled, Mentions
    <2>3. ASSUME NEW e \in queue, NEW x \in ToSet(e.rules) PROVE Waits(e.type, x)'
      <3>1. e.type \in {"activate", "remove"} /\ Waits(e.type, x)
        BY DEF IInv, Shapes, EventOK, Schedules
      <3>2. x = r => e.type = "remove"
        BY <1>3, <2>3, <3>1 DEF Scheduled, Mentions
      <3> QED BY <2>1, <3>1, <3>2
    <2>4. \A e, f \in queue : \A x \in Rule :
            e.type = f.type /\ Mentions(e, x)' /\ Mentions(f, x)' => e = f
      BY DEF IInv, Schedules, Mentions
    <2>5. \A x \in ToSet(job'.rest) : Waits("activate", x)' /\ ~Scheduled("activate", x)'
      BY <1>1, <1>2, <2>1, <2>2 DEF IInv, Schedules
    <2> QED BY <1>1, <1>2, <2>3, <2>4, <2>5 DEF Schedules
  <1> QED BY <1>4, <1>5, <1>6, <1>7, <1>8 DEF IInv

\* A handler that is through leaves nothing to do.
LEMMA ThroughKeeps == ASSUME IInv, ActivatedAll \/ UnregisteredAll PROVE IInv'
  <1>1. /\ run = "up" /\ call = Proc!NoCall /\ job.op \in {"activate", "unregister"}
        /\ job # NoJob /\ job.rest = << >> /\ job' = NoJob /\ job'.op = "none"
        /\ UNCHANGED << state, table, timers, activated, call, run, waiting, db,
                        index, ruleDone, freed, queue >>
    BY DEF ActivatedAll, UnregisteredAll, Doing, Proc!Idle, NoJob, procVars
  <1>2. ToSet(job.rest) = {}
    BY <1>1 DEF ToSet
  <1>3. Shapes'
    BY <1>1 DEF IInv, Shapes, EventOK, JobOK
  <1>4. Newcomers'
    <2>1. Unborn' = Unborn /\ Incoming' = {}
      BY <1>1 DEF Unborn, Incoming
    <2> QED BY <1>1, <2>1 DEF IInv, Newcomers
  <1>5. CallInJob' /\ Registered' /\ Removing' /\ Removals' /\ IndexMatchesDb'
    BY <1>1, <1>2 DEF IInv, CallInJob, Registered, Removing, Removals, Scheduled,
         Mentions, IndexMatchesDb
  <1>6. Schedules'
    BY <1>1 DEF IInv, Schedules, Waits, Mentions
  <1> QED BY <1>3, <1>4, <1>5, <1>6 DEF IInv

\* delRules works through the list, then the manager takes the same list.
LEMMA RemoveNextKeeps == ASSUME IInv, RemoveNext PROVE IInv'
  <1>0. PICK r \in Rule : r = Next1
    BY AdvanceEffect DEF RemoveNext, Doing, NoJob, IInv
  <1>1. /\ run = "up" /\ call = Proc!NoCall /\ job.op = "remove" /\ job # NoJob
        /\ job.rest # << >> /\ Advance
        /\ call' = [op |-> "del", rule |-> r, act |-> 1]
        /\ UNCHANGED << state, table, timers, activated, run, waiting, db, index,
                        ruleDone, freed, queue >>
    BY <1>0 DEF RemoveNext, Doing, Proc!Idle, Proc!BeginDel, Proc!Starts, NoJob
  <1>2. /\ r \in ToSet(job.rest)
        /\ job'.op = "remove" /\ job'.all = job.all /\ JobOK' /\ job' # NoJob
        /\ ToSet(job'.rest) = ToSet(job.rest) \ {r}
    BY <1>0, <1>1, AdvanceEffect DEF IInv, NoJob
  <1>3. r \in ToSet(job.all) /\ r \in db /\ call' # Proc!NoCall
    BY <1>1, <1>2 DEF IInv, Removing, Proc!NoCall
  <1>4. Shapes'
    <2>1. call' \in Calls
      BY <1>1 DEF Calls
    <2> QED BY <1>1, <1>2, <2>1 DEF IInv, Shapes, EventOK
  <1>5. Newcomers'
    <2>1. Unborn' = Unborn /\ Incoming' = {}
      BY <1>1, <1>2 DEF Unborn, Incoming
    <2> QED BY <1>1, <1>2, <2>1 DEF IInv, Newcomers
  <1>6. CallInJob'
    BY <1>1, <1>2, <1>3 DEF CallInJob
  <1>7. Registered' /\ Removals' /\ IndexMatchesDb'
    BY <1>1, <1>2 DEF IInv, Registered, Removals, Scheduled, Mentions, IndexMatchesDb
  <1>8. Removing'
    BY <1>1, <1>2, <1>3 DEF IInv, Removing
  <1>9. Schedules'
    BY <1>1, <1>2 DEF IInv, Schedules, Waits, Mentions
  <1> QED BY <1>4, <1>5, <1>6, <1>7, <1>8, <1>9 DEF IInv

LEMMA RemovedAllKeeps == ASSUME IInv, RemovedAll PROVE IInv'
  <1>1. /\ run = "up" /\ call = Proc!NoCall /\ job.op = "remove" /\ job # NoJob
        /\ job.rest = << >>
        /\ job' = [op |-> "unregister", rest |-> job.all, all |-> job.all]
        /\ UNCHANGED << state, table, timers, activated, call, run, waiting, db,
                        index, ruleDone, freed, queue >>
    BY DEF RemovedAll, Doing, Proc!Idle, NoJob, procVars
  <1>2. Listing(job.all) /\ ToSet(job.rest) = {}
    BY <1>1, JobFields DEF ToSet, IInv
  <1>3. Shapes'
    BY <1>1, <1>2 DEF IInv, Shapes, EventOK, JobOK
  <1>4. Newcomers'
    <2>1. Unborn' = Unborn /\ Incoming' = {}
      BY <1>1 DEF Unborn, Incoming
    <2> QED BY <1>1, <2>1 DEF IInv, Newcomers
  <1>5. CallInJob' /\ Registered' /\ Removing' /\ Removals' /\ IndexMatchesDb'
    BY <1>1, <1>2 DEF IInv, CallInJob, Registered, Removing, Removals, Scheduled,
         Mentions, IndexMatchesDb
  <1>6. Schedules'
    BY <1>1 DEF IInv, Schedules, Waits, Mentions
  <1> QED BY <1>3, <1>4, <1>5, <1>6 DEF IInv
\* What delRuleEvents leaves of the schedule.
LEMMA WithoutRuleEvents ==
    ASSUME NEW q, \A e \in q : EventOK(e), NEW r
    PROVE  /\ \A f \in WithoutRule(q, r) :
                EventOK(f) /\ \E e \in q :
                  f = [e EXCEPT !.rules = RemoveFirst(e.rules, r)]
                  /\ f.type = e.type /\ ToSet(f.rules) = ToSet(e.rules) \ {r}
           /\ \A e \in q : \A x \in ToSet(e.rules) : x # r =>
                \E f \in WithoutRule(q, r) : f.type = e.type /\ x \in ToSet(f.rules)
  <1>1. ASSUME NEW e \in q, NEW f, f = [e EXCEPT !.rules = RemoveFirst(e.rules, r)]
        PROVE  /\ f.type = e.type /\ ToSet(f.rules) = ToSet(e.rules) \ {r}
               /\ f.rules # << >> => EventOK(f)
    <2>1. f = [type |-> e.type, time |-> e.time, no |-> e.no,
               rules |-> RemoveFirst(e.rules, r)]
      <3>1. e = [type |-> e.type, time |-> e.time, no |-> e.no, rules |-> e.rules]
        BY DEF EventOK
      <3> QED BY <1>1, <3>1
    <2>2. /\ Listing(RemoveFirst(e.rules, r))
          /\ ToSet(RemoveFirst(e.rules, r)) = ToSet(e.rules) \ {r}
      BY RemoveFirstLists DEF EventOK
    <2> QED BY <2>1, <2>2 DEF EventOK
  <1>2. WithoutRule(q, r) = {f \in {[e EXCEPT !.rules = RemoveFirst(e.rules, r)] : e \in q} :
                               f.rules # << >>}
    BY DEF WithoutRule
  <1>3. ASSUME NEW f \in WithoutRule(q, r)
        PROVE  EventOK(f) /\ \E e \in q :
                 f = [e EXCEPT !.rules = RemoveFirst(e.rules, r)]
                 /\ f.type = e.type /\ ToSet(f.rules) = ToSet(e.rules) \ {r}
    <2>1. PICK e \in q : f = [e EXCEPT !.rules = RemoveFirst(e.rules, r)]
      BY <1>2, <1>3
    <2>2. f.rules # << >>
      BY <1>2, <1>3
    <2> QED BY <1>1, <2>1, <2>2
  <1>4. ASSUME NEW e \in q, NEW x \in ToSet(e.rules), x # r
        PROVE  \E f \in WithoutRule(q, r) : f.type = e.type /\ x \in ToSet(f.rules)
    <2> DEFINE f == [e EXCEPT !.rules = RemoveFirst(e.rules, r)]
    <2>1. f.type = e.type /\ x \in ToSet(f.rules)
      BY <1>1, <1>4
    <2>2. f.rules # << >>
      BY <2>1 DEF ToSet
    <2>3. f \in WithoutRule(q, r)
      BY <1>2, <2>2
    <2> QED BY <2>1, <2>3
  <1> QED BY <1>3, <1>4

\* storeRuleAsDone: a deleted rule is out of the list, and was done before.
LEMMA DoneList ==
    ASSUME NEW done, Listing(done), done # << >>
    PROVE  /\ Listing(Trimmed(done)) /\ ToSet(Trimmed(done)) \subseteq ToSet(done)
           /\ Trimmings(done) \subseteq ToSet(done)
           /\ Trimmings(done) \cap ToSet(Trimmed(done)) = {}
  <1>1. /\ Head(done) \in ToSet(done) /\ Listing(Tail(done))
        /\ ToSet(Tail(done)) = ToSet(done) \ {Head(done)}
    BY TailLists
  <1> QED BY <1>1 DEF Trimmed, Trimmings

\* delRule takes the rule out of the database, the index, the schedule and the
\* timers in one step; the rule, or the oldest done one, may be deleted.
LEMMA UnregisterKeeps == ASSUME IInv, Unregister PROVE IInv'
  <1>0. PICK r \in Rule : r = Next1
    BY AdvanceEffect DEF Unregister, Doing, NoJob, IInv
  <1> DEFINE done == Append(ruleDone, r)
  <1>1. /\ run = "up" /\ call = Proc!NoCall /\ job.op = "unregister" /\ job # NoJob
        /\ job.rest # << >> /\ Advance
        /\ ruleDone' = Trimmed(done) /\ freed' = freed \cup Trimmings(done)
        /\ db' = db \ {r} /\ index' = IndexWithout(r)
        /\ queue' = WithoutRule(queue, r)
        /\ timers' = {t \in timers : t[1] # r}
        /\ UNCHANGED << state, table, activated, call, run, waiting >>
    BY <1>0 DEF Unregister, TimersWithout, Doing, Proc!Idle, NoJob
  <1> HIDE DEF done
  <1>2. /\ r \in ToSet(job.rest)
        /\ job'.op = "unregister" /\ job'.all = job.all /\ JobOK' /\ job' # NoJob
        /\ ToSet(job'.rest) = ToSet(job.rest) \ {r}
    BY <1>0, <1>1, AdvanceEffect DEF IInv, NoJob
  <1>3. r \in db /\ state[r] = "done" /\ r \notin ToSet(ruleDone)
    BY <1>1, <1>2 DEF IInv, Removing, Registered
  <1>4. /\ Listing(ruleDone') /\ ToSet(ruleDone') \subseteq ToSet(ruleDone) \cup {r}
        /\ freed' \subseteq freed \cup ToSet(ruleDone) \cup {r}
        /\ \A x \in freed' : x \in freed \/ x \notin ToSet(ruleDone')
    <2>1. Listing(done) /\ done # << >> /\ ToSet(done) = ToSet(ruleDone) \cup {r}
      BY <1>3, AppendLists DEF done, IInv, Shapes
    <2> QED BY <1>1, <2>1, DoneList
  <1>5. /\ \A f \in queue' :
             EventOK(f) /\ \E e \in queue :
               f = [e EXCEPT !.rules = RemoveFirst(e.rules, r)]
               /\ f.type = e.type /\ ToSet(f.rules) = ToSet(e.rules) \ {r}
        /\ \A e \in queue : \A x \in ToSet(e.rules) : x # r =>
             \E f \in queue' : f.type = e.type /\ x \in ToSet(f.rules)
    <2>1. \A e \in queue : EventOK(e)
      BY DEF IInv, Shapes
    <2> DEFINE q == queue
    <2>2. \A e \in q : EventOK(e)
      BY <2>1
    <2>3. queue' = WithoutRule(q, r)
      BY <1>1
    <2> HIDE DEF q
    <2>4. /\ \A f \in WithoutRule(q, r) :
                EventOK(f) /\ \E e \in q :
                  f = [e EXCEPT !.rules = RemoveFirst(e.rules, r)]
                  /\ f.type = e.type /\ ToSet(f.rules) = ToSet(e.rules) \ {r}
          /\ \A e \in q : \A x \in ToSet(e.rules) : x # r =>
               \E f \in WithoutRule(q, r) : f.type = e.type /\ x \in ToSet(f.rules)
      BY <2>2, WithoutRuleEvents
    <2> QED BY <2>3, <2>4 DEF q
  <1>6. Shapes'
    <2>1. IsFiniteSet(db')
      BY <1>1, FS_Subset DEF IInv, Shapes
    <2>2. \A e \in queue' : EventOK(e)'
      BY <1>5 DEF EventOK
    <2> QED BY <1>1, <1>2, <1>4, <2>1, <2>2 DEF IInv, Shapes
  <1>7. Newcomers'
    <2>1. Unborn' = Unborn /\ Incoming' = {} /\ r \notin Unborn
      BY <1>1, <1>2, <1>3 DEF Unborn, Incoming, IInv, Newcomers
    <2> QED BY <1>1, <1>2, <1>4, <2>1 DEF IInv, Newcomers
  <1>8. CallInJob'
    BY <1>1, <1>2 DEF CallInJob
  <1>9. Registered'
    <2>1. \A x \in freed' : x \notin db' \cup ToSet(ruleDone')
      <3>1. freed \cap ToSet(ruleDone) = {} /\ r \notin freed
        BY <1>3 DEF IInv, Registered
      <3> QED BY <1>1, <1>4, <3>1 DEF IInv, Registered
    <2>2. \A x \in ToSet(ruleDone') : x \notin db'
      BY <1>1, <1>4 DEF IInv, Registered
    <2> QED BY <1>1, <1>3, <2>1, <2>2 DEF IInv, Registered
  <1>10. Removing'
    BY <1>1, <1>2 DEF IInv, Removing
  <1>11. Schedules'
    <2>1. \A kind, x : Waits(kind, x) /\ x # r => Waits(kind, x)'
      BY <1>1 DEF Waits
    <2>2. \A f \in queue' : \A x \in ToSet(f.rules) : Waits(f.type, x)'
      BY <1>5, <2>1 DEF IInv, Schedules
    <2>3. \A f, g \in queue' : \A x \in Rule :
            f.type = g.type /\ Mentions(f, x)' /\ Mentions(g, x)' => f = g
      <3> SUFFICES ASSUME NEW f \in queue', NEW g \in queue', NEW x \in Rule,
                          f.type = g.type, x \in ToSet(f.rules), x \in ToSet(g.rules)
                   PROVE  f = g
        BY DEF Mentions
      <3>1. PICK e \in queue : f = [e EXCEPT !.rules = RemoveFirst(e.rules, r)]
                               /\ f.type = e.type /\ x \in ToSet(e.rules)
        BY <1>5
      <3>2. PICK d \in queue : g = [d EXCEPT !.rules = RemoveFirst(d.rules, r)]
                               /\ g.type = d.type /\ x \in ToSet(d.rules)
        BY <1>5
      <3>3. e = d
        BY <3>1, <3>2 DEF IInv, Schedules, Mentions
      <3> QED BY <3>1, <3>2, <3>3
    <2> QED BY <1>2, <2>2, <2>3 DEF Schedules
  <1>12. Removals'
    <2>1. ASSUME NEW x \in db', Stop[x] # 0
          PROVE  Scheduled("remove", x)' \/ x \in ToSet(job'.rest)
      <3>1. x \in db /\ x # r
        BY <1>1, <2>1
      <3>2. Scheduled("remove", x) \/ x \in ToSet(job.rest)
        BY <1>1, <2>1, <3>1 DEF IInv, Removals
      <3>3. Scheduled("remove", x) => Scheduled("remove", x)'
        BY <1>5, <3>1 DEF Scheduled, Mentions
      <3> QED BY <1>2, <3>1, <3>2, <3>3
    <2> QED BY <1>2, <2>1 DEF Removals
  <1>13. IndexMatchesDb'
    <2>1. Key(r) \in DOMAIN index /\ index[Key(r)] = r
      BY <1>3 DEF IInv, IndexMatchesDb
    <2>2. /\ DOMAIN index' = DOMAIN index \ {Key(r)}
          /\ \A k \in DOMAIN index' : index'[k] = index[k]
      BY <1>1 DEF IndexWithout, Restrict
    <2> QED BY <1>1, <2>1, <2>2 DEF IInv, IndexMatchesDb, Key
  <1> QED BY <1>6, <1>7, <1>8, <1>9, <1>10, <1>11, <1>12, <1>13 DEF IInv

\* A timer that fires leaves the manager as it was.
LEMMA TimerKeeps == ASSUME IInv, Timer PROVE IInv'
  <1>1. /\ timers' \subseteq timers
        /\ UNCHANGED << state, table, activated, call, run, waiting, db, index,
                        ruleDone, freed, queue, job >>
    <2>1. UNCHANGED << waiting, db, index, ruleDone, freed, queue, job >>
      BY DEF Timer, mgrVars
    <2>2. ASSUME NEW f \in flows, Proc!TimeoutAction(f)
          PROVE  timers' \subseteq timers /\ UNCHANGED << state, table, activated, call, run >>
      BY <2>2 DEF Proc!TimeoutAction, Proc!Fires
    <2>3. ASSUME NEW t \in timers, Proc!TimeoutHollow(t[1], t[2])
          PROVE  timers' \subseteq timers /\ UNCHANGED << state, table, activated, call, run >>
      BY <2>3 DEF Proc!TimeoutHollow, Proc!Fires
    <2> QED BY <2>1, <2>2, <2>3 DEF Timer
  <1>2. Shapes'
    BY <1>1 DEF IInv, Shapes, EventOK, JobOK
  <1>3. Newcomers'
    BY <1>1 DEF IInv, Newcomers, Unborn, Incoming
  <1>4. CallInJob' /\ Registered' /\ Removing' /\ Removals' /\ IndexMatchesDb'
    BY <1>1 DEF IInv, CallInJob, Registered, Removing, Removals, Scheduled, Mentions,
         IndexMatchesDb
  <1>5. Schedules'
    BY <1>1 DEF IInv, Schedules, Scheduled, Waits, Mentions
  <1> QED BY <1>2, <1>3, <1>4, <1>5 DEF IInv

\* A step inside a call: the rule of the call gets the state the manager counts
\* on, or an exception takes the handler with it.
LEMMA WorkingKeeps == ASSUME IInv, Working PROVE IInv'
  <1> DEFINE r == call.rule
  <1>1. /\ call \in Calls /\ CallInJob /\ Shapes /\ call # Proc!NoCall
        /\ CallGoesOn \/ CallThrows \/ CallReturns
        /\ activated' = activated
        /\ \A t \in timers' : t \in timers \/ (call.op = "add" /\ t[1] = call.rule)
    BY WorkingCall, WorkEffect DEF Working, IInv, Calls, Proc!NoCall
  <1>2. /\ job' = IF HandlerLeft THEN NoJob ELSE job
        /\ UNCHANGED << waiting, db, index, ruleDone, freed, queue >>
    BY DEF Working
  <1>3. /\ job.op \in {"none", "check", "activate", "remove"} /\ r \in Rule
        /\ call.op = "check" =>
             job.op = "check" /\ state[r] = "new" /\ r \in ToSet(job.all) \ ToSet(job.rest)
        /\ call.op \in {"add", "undo"} =>
             job.op = "activate" /\ state[r] = "valid" /\ r \in db /\ r \in activated
        /\ call.op = "del" =>
             r \in db /\ (run = "up" =>
               job.op = "remove" /\ r \in ToSet(job.all) \ ToSet(job.rest))
        /\ job # NoJob => run = "up"
        /\ run \in {"up", "closing"} /\ (run = "closing" => call.op = "del")
        /\ call.op \in {"check", "add", "undo", "del"}
        /\ job.op # "none" => run = "up"
    BY <1>1, JobFields DEF CallInJob, Calls
  <1>4. CASE CallGoesOn
    <2>1. job' = job /\ run' = run /\ UNCHANGED << state, table >> /\ call' # Proc!NoCall
      BY <1>1, <1>2, <1>4 DEF CallGoesOn, Goes, HandlerLeft, Calls, Proc!NoCall
    <2>2. /\ call' \in Calls /\ call'.rule = r
          /\ call'.op = call.op \/ (call.op = "add" /\ call'.op = "undo")
      BY <1>4 DEF CallGoesOn, Goes
    <2>3. Shapes'
      BY <1>1, <1>2, <2>1, <2>2 DEF Shapes, EventOK, JobOK
    <2>4. Newcomers'
      BY <1>1, <1>2, <2>1 DEF IInv, Newcomers, Unborn, Incoming
    <2>5. CallInJob'
      BY <1>1, <1>2, <1>3, <2>1, <2>2 DEF CallInJob
    <2>6. Registered' /\ Removing' /\ Removals' /\ IndexMatchesDb'
      BY <1>1, <1>2, <1>3, <2>1, <2>2
         DEF IInv, Registered, Removing, Removals, Scheduled, Mentions, IndexMatchesDb
    <2>7. Schedules'
      BY <1>1, <1>2, <2>1 DEF IInv, Schedules, Scheduled, Waits, Mentions
    <2> QED BY <2>3, <2>4, <2>5, <2>6, <2>7 DEF IInv
  <1>5. CASE CallThrows
    <2>1. /\ job' = NoJob /\ job'.op = "none" /\ call' = Proc!NoCall
          /\ UNCHANGED << state, table >>
          /\ run' = run => job.op = "activate"
          /\ run' \in {"up", "closing", "down", "crashed"}
          /\ run' = "up" => run = "up" /\ job.op = "activate"
      BY <1>2, <1>3, <1>5 DEF CallThrows, HandlerLeft, NoJob
    <2>2. Shapes'
      BY <1>1, <1>2, <2>1 DEF Shapes, EventOK, JobOK
    <2>3. Newcomers'
      <3>1. Unborn' = Unborn /\ Incoming' = {}
        BY <1>2, <2>1 DEF Unborn, Incoming
      <3> QED BY <1>1, <1>2, <2>1, <3>1 DEF IInv, Newcomers
    <2>4. CallInJob' /\ Registered' /\ Removing' /\ Removals' /\ IndexMatchesDb'
      BY <1>1, <1>2, <1>3, <2>1
         DEF IInv, CallInJob, Registered, Removing, Removals, Scheduled, Mentions,
             IndexMatchesDb
    <2>5. Schedules'
      BY <1>1, <1>2, <2>1 DEF IInv, Schedules, Scheduled, Waits, Mentions
    <2> QED BY <2>2, <2>3, <2>4, <2>5 DEF IInv
  <1>6. CASE CallReturns
    <2>1. /\ job' = job /\ call' = Proc!NoCall /\ run' = run
          /\ call.op # "undo"
          /\ table' = IF call.op = "add" THEN table \cup {r}
                      ELSE IF call.op = "del" THEN table \ {r} ELSE table
      BY <1>2, <1>6 DEF CallReturns, HandlerLeft, Result
    <2>2. /\ state' \in [Rule -> States]
          /\ \A x \in Rule : x # r => state'[x] = state[x]
          /\ call.op = "check" => state'[r] \in {"valid", "error"}
          /\ call.op = "add" => state'[r] = "active"
          /\ call.op = "del" => state'[r] = "done"
      BY <1>1, <1>3, <1>6 DEF CallReturns, Result, Shapes, States
    <2>3. Shapes'
      BY <1>1, <1>2, <2>1, <2>2 DEF Shapes, EventOK, JobOK
    <2>4. Newcomers'
      <3>1. Unborn' = Unborn /\ Incoming' = Incoming
        BY <1>2, <2>1 DEF Unborn, Incoming
      <3>2. r \notin Unborn
        BY <1>3 DEF IInv, Newcomers, Incoming
      <3>3. Unborn \subseteq Rule
        BY BatchLists, ListedRules DEF IInv, Shapes, Unborn
      <3>4. job.op = "check" => ToSet(job.rest) \subseteq Rule /\ r \notin ToSet(job.rest)
        BY <1>1, <1>3, <2>1, JobFields, ListedRules
      <3> QED BY <1>1, <1>2, <1>3, <2>1, <2>2, <3>1, <3>2, <3>3, <3>4 DEF IInv, Newcomers
    <2>5. CallInJob'
      BY <1>1, <1>2, <2>1 DEF CallInJob
    <2>6. Registered'
      <3>1. db \subseteq Rule
        BY DEF IInv, Shapes
      <3>2. call.op = "check" => r \notin db
        BY <1>3 DEF IInv, Registered
      <3>3. \A x \in db : state'[x] \in {"valid", "active", "done"}
        BY <1>3, <2>1, <2>2, <3>1, <3>2 DEF IInv, Registered
      <3>4. \A x \in Rule : state'[x] = "active" => x \in db \cap activated
        BY <1>3, <2>1, <2>2 DEF IInv, Registered
      <3>5. \A x \in table' : x \in Rule /\ state'[x] = "active"
        BY <1>3, <2>1, <2>2 DEF IInv, Registered
      <3>6. \A t \in timers' : t[1] \in db
        BY <1>1, <1>3 DEF IInv, Registered
      <3> QED BY <1>1, <1>2, <3>3, <3>4, <3>5, <3>6 DEF IInv, Registered
    <2>7. Removing'
      <3>1. db \subseteq Rule
        BY DEF IInv, Shapes
      <3>2. call.op # "del" => \A x \in db : state'[x] = "done" => state[x] = "done"
        BY <1>3, <2>1, <2>2, <3>1
      <3>3. job.op = "remove" => call.op = "del" /\ run = "up"
        BY <1>3, <2>1
      <3>4. job.op # "unregister"
        BY <1>3
      <3>5. ASSUME run = "up", NEW x \in db, state'[x] = "done"
            PROVE  job.op = "remove" /\ x \in ToSet(job.all) \ ToSet(job.rest)
        BY <1>3, <2>1, <2>2, <3>1, <3>2, <3>4, <3>5 DEF IInv, Removing
      <3>6. ASSUME job.op = "remove"
            PROVE  /\ ToSet(job.rest) \subseteq ToSet(job.all) /\ ToSet(job.all) \subseteq db
                   /\ \A x \in ToSet(job.rest) : state'[x] \in {"valid", "active"}
                   /\ \A x \in ToSet(job.all) \ ToSet(job.rest) : state'[x] = "done"
        BY <1>3, <2>1, <2>2, <3>1, <3>3, <3>6 DEF IInv, Removing
      <3> QED BY <1>2, <2>1, <3>4, <3>5, <3>6 DEF Removing
    <2>8. Removals' /\ IndexMatchesDb'
      BY <1>2, <2>1 DEF IInv, Removals, Scheduled, Mentions, IndexMatchesDb
    <2>9. Schedules'
      BY <1>1, <1>2, <2>1 DEF IInv, Schedules, Scheduled, Waits, Mentions
    <2> QED BY <2>3, <2>4, <2>5, <2>6, <2>7, <2>8, <2>9 DEF IInv
  <1> QED BY <1>1, <1>4, <1>5, <1>6

\* The destructor deletes rules of the processor's table, which are rules of
\* the database.
LEMMA StoppingKeeps == ASSUME IInv, Stopping PROVE IInv'
  <1>1. UNCHANGED << waiting, db, index, ruleDone, freed, queue, job >>
    BY DEF Stopping, mgrVars
  <1>2. /\ job = NoJob /\ job.op = "none"
        /\ timers' \subseteq timers /\ UNCHANGED << state, table, activated >>
        /\ run' \in {"closing", "down"}
        /\ \/ call' = Proc!NoCall
           \/ run' = "closing" /\ \E x \in table : call' = [op |-> "del", rule |-> x, act |-> 1]
    <2>1. ASSUME Free, Proc!BeginShutdown
          PROVE  /\ job = NoJob /\ timers' = timers /\ UNCHANGED << state, table, activated >>
                 /\ run' = "closing" /\ call' = Proc!NoCall
      BY <2>1 DEF Free, Proc!BeginShutdown, Proc!Idle
    <2>2. ASSUME run = "closing", NEW x \in Rule, Proc!BeginDel(x)
          PROVE  /\ job = NoJob /\ timers' = timers /\ UNCHANGED << state, table, activated >>
                 /\ run' = "closing" /\ x \in table
                 /\ call' = [op |-> "del", rule |-> x, act |-> 1]
      BY <2>2 DEF Proc!BeginDel, Proc!Starts, IInv, CallInJob
    <2>3. ASSUME Proc!EndShutdown
          PROVE  /\ job = NoJob /\ timers' = {} /\ UNCHANGED << state, table, activated >>
                 /\ run' = "down" /\ call' = Proc!NoCall
      BY <2>3 DEF Proc!EndShutdown, Proc!Idle, IInv, CallInJob
    <2> QED BY <2>1, <2>2, <2>3 DEF Stopping, NoJob
  <1>3. Shapes'
    <2>1. call' = Proc!NoCall \/ call' \in Calls
      BY <1>2 DEF Calls, IInv, Registered
    <2> QED BY <1>1, <1>2, <2>1 DEF IInv, Shapes, EventOK, JobOK
  <1>4. Newcomers'
    BY <1>1, <1>2 DEF IInv, Newcomers, Unborn, Incoming
  <1>5. CallInJob'
    BY <1>1, <1>2 DEF IInv, CallInJob, Registered
  <1>6. Registered' /\ Removing' /\ Removals' /\ IndexMatchesDb'
    BY <1>1, <1>2 DEF IInv, Registered, Removing, Removals, Scheduled, Mentions,
         IndexMatchesDb
  <1>7. Schedules'
    BY <1>1, <1>2 DEF IInv, Schedules, Scheduled, Waits, Mentions
  <1> QED BY <1>3, <1>4, <1>5, <1>6, <1>7 DEF IInv

\* Every step keeps the invariant.
LEMMA NextIInv == IInv /\ [Next]_vars => IInv'
  <1> SUFFICES ASSUME IInv, [Next]_vars PROVE IInv'
    OBVIOUS
  <1>1. ASSUME NEW b \in DOMAIN Batches, Submit(b) PROVE IInv'
    BY <1>1, SubmitKeeps
  <1>2. CASE RequestRule
    <2>1. PICK k \in DOMAIN index : Request({k})
      BY <1>2 DEF RequestRule
    <2>2. {k} \in SUBSET DOMAIN index
      OBVIOUS
    <2> QED BY <2>1, <2>2, RequestKeeps
  <1>3. CASE RequestSet
    <2>1. PICK s \in {k[1] : k \in DOMAIN index} :
            Request({k \in DOMAIN index : k[1] = s})
      BY <1>3 DEF RequestSet
    <2>2. {k \in DOMAIN index : k[1] = s} \in SUBSET DOMAIN index
      OBVIOUS
    <2> QED BY <2>1, <2>2, RequestKeeps
  <1>4. ASSUME NEW e \in queue, Dispatch(e) PROVE IInv'
    BY <1>4, DispatchKeeps
  <1>5. CASE Timer
    BY <1>5, TimerKeeps
  <1>6. CASE Schedule
    <2>1. ASSUME Doing("register"), NEW t \in DOMAIN job.start, ScheduleActivation(t)
          PROVE  IInv'
      <3>1. /\ job.rest = << >> /\ AddEvent("activate", t, job.start[t])
            /\ Registering(job.rest, Without(job.start, t), job.stop)
            /\ UNCHANGED << procVars, waiting, db, index, ruleDone, freed >>
        BY <2>1 DEF ScheduleActivation
      <3> QED BY <2>1, <3>1, ScheduleKeeps
    <2>2. ASSUME Doing("register"), NEW t \in DOMAIN job.stop, ScheduleRemoval(t)
          PROVE  IInv'
      <3>1. /\ job.rest = << >> /\ AddEvent("remove", t, job.stop[t])
            /\ Registering(job.rest, job.start, Without(job.stop, t))
            /\ UNCHANGED << procVars, waiting, db, index, ruleDone, freed >>
        BY <2>2 DEF ScheduleRemoval
      <3> QED BY <2>2, <3>1, ScheduleKeeps
    <2> QED BY <1>6, <2>1, <2>2, ScheduledAllKeeps DEF Schedule
  <1>7. CASE Handling
    BY <1>6, <1>7, CheckNextKeeps, CheckedAllKeeps, RegisterKeeps, PassOverKeeps,
       ActivateNextKeeps, ThroughKeeps, RemoveNextKeeps, RemovedAllKeeps,
       UnregisterKeeps, WorkingKeeps DEF Handling
  <1>8. CASE Stopping
    BY <1>8, StoppingKeeps
  <1>9. CASE UNCHANGED vars
    BY <1>9 DEF IInv, Shapes, EventOK, JobOK, Newcomers, Unborn, Incoming, CallInJob,
         Registered, Removing, Schedules, Scheduled, Waits, Mentions, Removals,
         IndexMatchesDb, vars, procVars, mgrVars
  <1> QED BY <1>1, <1>2, <1>3, <1>4, <1>5, <1>7, <1>8, <1>9 DEF Next

LEMMA IInvHolds == Spec => []IInv
  BY InitIInv, NextIInv, PTL DEF Spec

-----------------------------------------------------------------------------
(* What follows from the invariant *)

\* The index and the database agree at every moment, for any batches: the two
\* ways the handlers look up a rule, RuleManager::getRule with a number and
\* with the names, never give different answers.
THEOREM IndexSafe == Spec => []IndexMatchesDb
  <1>1. IInv => IndexMatchesDb
    BY DEF IInv
  <1> QED BY <1>1, IInvHolds, PTL

\* A handler calls QOSProcessor and RuleManager for a rule in the state the
\* called method is made for, whatever was scheduled, requested and fell out
\* before.
THEOREM ProtocolKept == Spec => []CallerKeepsProtocol
  <1>1. IInv => CallerKeepsProtocol
    <2> SUFFICES ASSUME IInv PROVE CallerKeepsProtocol
      OBVIOUS
    <2>1. ASSUME run = "up", Proc!Idle, job # NoJob, job.rest # << >>
          PROVE  /\ job.op = "check" => state[Next1] = "new"
                 /\ job.op = "activate" =>
                      Next1 \in db /\ state[Next1] = "valid" /\ Next1 \notin activated
                 /\ job.op = "remove" => Next1 \in db /\ state[Next1] \in {"valid", "active"}
                 /\ job.op = "unregister" => Next1 \in db /\ state[Next1] = "done"
      <3>1. Next1 \in ToSet(job.rest) /\ Next1 \in Rule
        BY <2>1, JobFields, TailLists, ListedRules DEF IInv, Next1
      <3>2. job.op = "check" => state[Next1] = "new"
        BY <3>1 DEF IInv, Newcomers
      <3>3. job.op = "activate" =>
              Next1 \in db /\ state[Next1] = "valid" /\ Next1 \notin activated
        <4> SUFFICES ASSUME job.op = "activate" PROVE
                Next1 \in db /\ state[Next1] = "valid" /\ Next1 \notin activated
          OBVIOUS
        <4>1. Next1 \in db /\ Next1 \notin activated
          BY <3>1 DEF IInv, Schedules, Waits
        <4>2. state[Next1] # "active"
          BY <3>1, <4>1 DEF IInv, Registered
        <4>3. state[Next1] # "done"
          BY <2>1, <4>1 DEF IInv, Removing
        <4> QED BY <4>1, <4>2, <4>3 DEF IInv, Registered
      <3>4. job.op = "remove" => Next1 \in db /\ state[Next1] \in {"valid", "active"}
        BY <3>1 DEF IInv, Removing
      <3>5. job.op = "unregister" => Next1 \in db /\ state[Next1] = "done"
        BY <3>1 DEF IInv, Removing
      <3> QED BY <3>2, <3>3, <3>4, <3>5
    <2>2. \A t \in timers : t[1] \in db
      BY DEF IInv, Registered
    <2> QED BY <2>1, <2>2 DEF CallerKeepsProtocol
  <1> QED BY <1>1, IInvHolds, PTL

\* A Rule object that storeRuleAsDone or a failed addRules deleted is pointed
\* to by nothing any more: not by the database, the list of done rules, an
\* event, a timer, the processor's table or the handler that is running.
THEOREM NothingDanglesSafe == Spec => []NothingDangles
  <1>1. IInv => NothingDangles
    <2> SUFFICES ASSUME IInv, NEW r \in freed
                 PROVE  /\ r \notin db \cup table \cup ToSet(ruleDone)
                        /\ \A e \in queue : ~Mentions(e, r)
                        /\ \A t \in timers : t[1] # r
                        /\ job # NoJob => r \notin ToSet(job.rest)
      BY DEF NothingDangles
    <2>1. r \notin db \cup ToSet(ruleDone)
      BY DEF IInv, Registered
    <2>2. r \notin table
      BY <2>1 DEF IInv, Registered
    <2>3. \A e \in queue : ~Mentions(e, r)
      BY <2>1 DEF IInv, Schedules, Waits, Mentions
    <2>4. \A t \in timers : t[1] # r
      BY <2>1 DEF IInv, Registered
    <2>5. ASSUME job # NoJob, r \in ToSet(job.rest) PROVE FALSE
      <3>1. r \in Rule /\ job.op \in {"check", "register", "activate", "remove", "unregister"}
        BY <2>5, JobFields, ListedRules DEF IInv
      <3>2. job.op = "check" \/ job.op = "register" => r \in Incoming
        BY <2>5, <3>1 DEF IInv, Newcomers, Incoming
      <3>3. job.op \in {"activate", "remove", "unregister"} => r \in db
        BY <2>5 DEF IInv, Schedules, Waits, Removing
      <3> QED BY <2>1, <3>1, <3>2, <3>3 DEF IInv, Newcomers
    <2> QED BY <2>1, <2>2, <2>3, <2>4, <2>5
  <1> QED BY <1>1, IInvHolds, PTL

\* Two events of one type never list the same rule.
LEMMA CountBounds ==
    ASSUME IInv, NEW type, NEW r \in Rule
    PROVE  Count(type, r) = IF Scheduled(type, r) THEN 1 ELSE 0
  <1> DEFINE E == {e \in queue : e.type = type /\ Mentions(e, r)}
  <1>1. CASE Scheduled(type, r)
    <2>1. PICK e \in queue : e.type = type /\ Mentions(e, r)
      BY <1>1 DEF Scheduled
    <2>2. E = {e}
      BY <2>1 DEF IInv, Schedules
    <2> QED BY <1>1, <2>2, FS_Singleton DEF Count
  <1>2. CASE ~Scheduled(type, r)
    <2>1. E = {}
      BY <1>2 DEF Scheduled
    <2> QED BY <1>2, <2>1, FS_EmptySet DEF Count
  <1> QED BY <1>1, <1>2

\* Between two handlers a registered rule with a stop time is in exactly one
\* removal, an activation waits at most once and only for a rule that addRule
\* was never called for, and nothing is installed for an unregistered rule.
THEOREM ScheduleSafe == Spec => []ScheduleMatchesDb
  <1>1. IInv => ScheduleMatchesDb
    <2> SUFFICES ASSUME IInv, Free, NEW r \in Rule
                 PROVE  /\ Count("remove", r) = IF r \in db /\ Stop[r] # 0 THEN 1 ELSE 0
                        /\ Count("activate", r) <= IF r \in db \ activated THEN 1 ELSE 0
                        /\ state[r] = "active" => r \in db
      BY DEF ScheduleMatchesDb
    <2>1. run = "up" /\ job.op = "none"
      BY DEF Free, NoJob
    <2>2. Scheduled("remove", r) <=> r \in db /\ Stop[r] # 0
      <3>1. Scheduled("remove", r) => r \in db /\ Stop[r] # 0
        BY DEF IInv, Schedules, Scheduled, Waits, Mentions
      <3>2. r \in db /\ Stop[r] # 0 => Scheduled("remove", r)
        BY <2>1 DEF IInv, Removals
      <3> QED BY <3>1, <3>2
    <2>3. Scheduled("activate", r) => r \in db \ activated
      BY DEF IInv, Schedules, Scheduled, Waits, Mentions
    <2>4. state[r] = "active" => r \in db
      BY DEF IInv, Registered
    <2> QED BY <2>2, <2>3, <2>4, CountBounds
  <1> QED BY <1>1, IInvHolds, PTL

-----------------------------------------------------------------------------
(* The refinement *)

LEMMA ProcUnchanged == UNCHANGED procVars <=> UNCHANGED Proc!vars
  BY DEF procVars, Proc!vars

\* delRule and delRuleEvents drop the timers of a rule that is done.
LEMMA UnregisterDrops ==
    ASSUME IInv, Unregister PROVE [Proc!Next]_(Proc!vars)
  <1>0. PICK r \in Rule : r = Next1
    BY AdvanceEffect DEF Unregister, Doing, NoJob, IInv
  <1>1. /\ run = "up" /\ Proc!Idle
        /\ timers' = {t \in timers : t[1] # r}
        /\ UNCHANGED << state, table, hollow, flows, pool, classes, avail, refs,
                        activated, call, run, faults >>
    BY <1>0 DEF Unregister, TimersWithout, Doing
  <1>2. state[r] = "done"
    BY <1>0, AdvanceEffect DEF Unregister, Doing, NoJob, IInv, Removing
  <1>3. CASE \E t \in timers : t[1] = r
    BY <1>1, <1>2, <1>3 DEF Proc!Next, Proc!Enter, Proc!DropTimers
  <1>4. CASE ~\E t \in timers : t[1] = r
    <2>1. timers' = timers
      BY <1>1, <1>4
    <2> QED BY <1>1, <2>1 DEF Proc!vars
  <1> QED BY <1>3, <1>4

\* QualityManager's handlers use QOSProcessor in no way its module does not
\* allow: each of their steps is a step of QOSProcessor or leaves it alone.
THEOREM Refinement == Spec => UsesProcessor
  <1>1. Init => Proc!Init
    BY DEF Init
  <1>2. IInv /\ [Next]_vars => [Proc!Next]_(Proc!vars)
    <2> SUFFICES ASSUME IInv, [Next]_vars PROVE [Proc!Next]_(Proc!vars)
      OBVIOUS
    <2>1. ASSUME UNCHANGED procVars PROVE [Proc!Next]_(Proc!vars)
      BY <2>1, ProcUnchanged
    <2>2. CASE \/ \E b \in DOMAIN Batches : Submit(b)
               \/ RequestRule \/ RequestSet
               \/ \E e \in queue : Dispatch(e)
      BY <2>1, <2>2 DEF Submit, RequestRule, RequestSet, Request, Dispatch
    <2>3. CASE Timer
      BY <2>3 DEF Timer, Proc!Next, Proc!Enter
    <2>4. CASE Handling
      <3>1. CASE \/ CheckedAll \/ Register \/ PassOver \/ Duplicate \/ Schedule
                 \/ ActivatedAll \/ RemovedAll \/ UnregisteredAll
        BY <2>1, <3>1 DEF CheckedAll, Register, PassOver, Duplicate, Schedule,
           ScheduleActivation, ScheduleRemoval, ScheduledAll, ActivatedAll,
           RemovedAll, UnregisteredAll
      <3>2. ASSUME job # NoJob, job.op # "register", job.rest # << >>, Advance
            PROVE  Next1 \in Rule
        BY <3>2, AdvanceEffect DEF IInv
      <3>3. CASE CheckNext
        BY <3>2, <3>3 DEF CheckNext, Doing, NoJob, Proc!Next, Proc!Enter
      <3>4. CASE ActivateNext
        BY <3>2, <3>4 DEF ActivateNext, Doing, NoJob, Proc!Next, Proc!Enter
      <3>5. CASE RemoveNext
        BY <3>2, <3>5 DEF RemoveNext, Doing, NoJob, Proc!Next, Proc!Enter
      <3>6. CASE Working
        BY <3>6 DEF Working, Proc!Next
      <3> QED BY <2>4, <3>1, <3>3, <3>4, <3>5, <3>6, UnregisterDrops DEF Handling
    <2>5. CASE Stopping
      BY <2>1, <2>5 DEF Stopping, Proc!Next, Proc!Enter
    <2>6. CASE UNCHANGED vars
      BY <2>1, <2>6 DEF vars
    <2> QED BY <2>2, <2>3, <2>4, <2>5, <2>6 DEF Next
  <1> QED BY <1>1, <1>2, IInvHolds, PTL DEF Spec, UsesProcessor, Proc!Spec
=============================================================================
