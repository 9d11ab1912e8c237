------------------------------ MODULE RulesProofs ------------------------------
(***************************************************************************)
(* For any documents, files, times and numbers: the ways to a rule agree   *)
(* and numbers are not issued twice before all are used up (FindsOwn), a   *)
(* Rule object is at one place at a time (NoneLost), and get_info tells    *)
(* what there is (InfoAgrees).                                             *)
(***************************************************************************)
EXTENDS RuleInfo, FiniteSetTheorems, SequenceTheorems, WellFoundedInduction, TLAPS

-----------------------------------------------------------------------------
(* The numbers *)

\* The unsigned short n, k steps on.
LEMMA AheadValue ==
    ASSUME NEW n \in 0 .. Top, NEW k \in 1 .. 4
    PROVE  Ids!Ahead(n, k) = IF n + k <= Top THEN n + k ELSE n + k - (Top + 1)
  <1> DEFINE m == Top + 1
  <1>1. Top \in Nat /\ Top > 3
    BY RulesAssumption
  <1>2. CASE n + k <= Top
    <2>1. (n + k) % m = n + k
      BY <1>1, <1>2
    <2> QED BY <2>1, <1>2 DEF Ids!Ahead
  <1>3. CASE n + k > Top
    <2>1. (n + k) % m = n + k - m
      BY <1>1, <1>3
    <2> QED BY <2>1, <1>3, <1>1 DEF Ids!Ahead
  <1> QED BY <1>1, <1>2, <1>3

\* The next number is the following one that nobody reserved.
LEMMA NextNumValue ==
    ASSUME NEW n \in 0 .. Top - 1
    PROVE  Ids!NextNum(n) = IF n = 0 \/ n = Top - 1 THEN 2 ELSE n + 1
  <1>1. Top \in Nat /\ Top > 3
    BY RulesAssumption
  <1> DEFINE Good(k) == /\ Ids!Ahead(n, k) \notin Ids!Reserved
                        /\ \A j \in 1 .. k - 1 : Ids!Ahead(n, j) \in Ids!Reserved
             r == IF n = 0 THEN 2 ELSE IF n = Top - 1 THEN 4 ELSE 1
  <1>2. \A k \in 1 .. 4 : Ids!Ahead(n, k) = IF n + k <= Top THEN n + k ELSE n + k - (Top + 1)
    BY <1>1, AheadValue
  <1>3. r \in 1 .. 4 /\ Good(r)
    BY <1>1, <1>2 DEF Ids!Reserved
  <1>4. \A k \in 1 .. 4 : Good(k) => k = r
    <2> SUFFICES ASSUME NEW k \in 1 .. 4, Good(k), k # r PROVE FALSE
      OBVIOUS
    <2>1. CASE k < r
      BY <1>3, <2>1
    <2>2. CASE r < k
      BY <1>3, <2>2
    <2> QED BY <1>3, <2>1, <2>2
  <1>5. (CHOOSE k \in 1 .. 4 : Good(k)) = r
    BY <1>3, <1>4
  <1>6. Ids!NextNum(n) = Ids!Ahead(n, r)
    BY <1>5 DEF Ids!NextNum
  <1> QED BY <1>1, <1>2, <1>3, <1>6

-----------------------------------------------------------------------------
(* Sequences *)

Sequence(q) == Len(q) \in Nat /\ q \in [1 .. Len(q) -> ToSet(q)]
Distinct(q) == \A i, j \in DOMAIN q : q[i] = q[j] => i = j

LEMMA SequenceIsSeq ==
    ASSUME NEW q, Sequence(q), NEW S, ToSet(q) \subseteq S
    PROVE  q \in Seq(S) /\ DOMAIN q = 1 .. Len(q) /\ \A i \in DOMAIN q : q[i] \in ToSet(q)
  <1>1. DOMAIN q = 1 .. Len(q) /\ \A i \in DOMAIN q : q[i] \in ToSet(q)
    BY DEF Sequence
  <1>2. q \in [1 .. Len(q) -> S]
    BY <1>1 DEF Sequence
  <1>3. Seq(S) = UNION {[1 .. k -> S] : k \in Nat}
    BY SeqDef
  <1>4. q \in Seq(S)
    BY <1>2, <1>3, Zenon DEF Sequence
  <1> QED BY <1>1, <1>4

LEMMA SeqIsSequence ==
    ASSUME NEW S, NEW q \in Seq(S)
    PROVE  Sequence(q) /\ ToSet(q) \subseteq S
  <1>1. Len(q) \in Nat /\ q \in [1 .. Len(q) -> S]
    BY LenProperties
  <1> QED BY <1>1 DEF Sequence, ToSet

LEMMA EmptySequence == Sequence(<< >>) /\ ToSet(<< >>) = {} /\ Distinct(<< >>) /\ Len(<< >>) = 0
  <1>1. << >> \in Seq({}) /\ Len(<< >>) = 0 /\ DOMAIN << >> = {}
    OBVIOUS
  <1>2. Sequence(<< >>)
    BY <1>1, SeqIsSequence
  <1> QED BY <1>1, <1>2 DEF ToSet, Distinct

LEMMA AppendSequence ==
    ASSUME NEW q, Sequence(q), NEW e
    PROVE  /\ Sequence(Append(q, e)) /\ Len(Append(q, e)) = Len(q) + 1
           /\ DOMAIN Append(q, e) = DOMAIN q \cup {Len(q) + 1} /\ Len(q) + 1 \notin DOMAIN q
           /\ \A i \in DOMAIN q : Append(q, e)[i] = q[i]
           /\ Append(q, e)[Len(q) + 1] = e
           /\ ToSet(Append(q, e)) = ToSet(q) \cup {e}
           /\ Distinct(q) /\ e \notin ToSet(q) => Distinct(Append(q, e))
  <1> DEFINE S == ToSet(q) \cup {e}
             a == Append(q, e)
  <1>1. q \in Seq(S) /\ DOMAIN q = 1 .. Len(q) /\ Len(q) \in Nat
    BY SequenceIsSeq DEF Sequence
  <1>2. /\ a \in Seq(S) /\ Len(a) = Len(q) + 1
        /\ \A i \in 1 .. Len(q) : a[i] = q[i]
        /\ a[Len(q) + 1] = e
    BY <1>1, AppendProperties
  <1>3. Sequence(a) /\ DOMAIN a = 1 .. Len(q) + 1
    BY <1>1, <1>2, SeqIsSequence, LenProperties
  <1> HIDE DEF a
  <1>4. DOMAIN a = DOMAIN q \cup {Len(q) + 1} /\ Len(q) + 1 \notin DOMAIN q
    BY <1>1, <1>3
  <1>5. ToSet(a) = ToSet(q) \cup {e}
    BY <1>1, <1>2, <1>4 DEF ToSet
  <1>6. Distinct(q) /\ e \notin ToSet(q) => Distinct(a)
    BY <1>1, <1>2, <1>4 DEF ToSet, Distinct
  <1> QED BY <1>1, <1>2, <1>3, <1>4, <1>5, <1>6 DEF a

LEMMA TailSequence ==
    ASSUME NEW q, Sequence(q), q # << >>
    PROVE  /\ Sequence(Tail(q)) /\ Len(q) \in Nat \ {0} /\ Len(Tail(q)) = Len(q) - 1
           /\ \A i \in 1 .. Len(q) - 1 : Tail(q)[i] = q[i + 1]
           /\ DOMAIN q = 1 .. Len(q) /\ DOMAIN Tail(q) = 1 .. Len(q) - 1
           /\ Head(q) = q[1] /\ Head(q) \in ToSet(q)
           /\ ToSet(q) = {Head(q)} \cup ToSet(Tail(q))
           /\ Distinct(q) => Distinct(Tail(q)) /\ Head(q) \notin ToSet(Tail(q))
  <1> DEFINE S == ToSet(q)
             t == Tail(q)
  <1>1. q \in Seq(S) /\ DOMAIN q = 1 .. Len(q)
    BY SequenceIsSeq
  <1>2. Len(q) \in Nat \ {0}
    BY <1>1, EmptySeq, LenProperties
  <1>3. t \in Seq(S) /\ Len(t) = Len(q) - 1 /\ \A i \in 1 .. Len(t) : t[i] = q[i + 1]
    BY <1>1, HeadTailProperties
  <1>4. Head(q) = q[1]
    BY <1>1
  <1>5. Sequence(t) /\ DOMAIN t = 1 .. Len(q) - 1
    BY <1>2, <1>3, SeqIsSequence, LenProperties
  <1> HIDE DEF t
  <1>6. Head(q) \in ToSet(q)
    BY <1>1, <1>2, <1>4 DEF ToSet
  <1>7. ToSet(q) = {Head(q)} \cup ToSet(t)
    <2>1. ASSUME NEW x \in ToSet(q), x # Head(q) PROVE x \in ToSet(t)
      <3>1. PICK i \in DOMAIN q : x = q[i]
        BY DEF ToSet
      <3>2. i - 1 \in DOMAIN t /\ t[i - 1] = x
        BY <1>1, <1>2, <1>3, <1>4, <1>5, <2>1, <3>1
      <3> QED BY <3>2 DEF ToSet
    <2>2. ASSUME NEW x \in ToSet(t) PROVE x \in ToSet(q)
      <3>1. PICK i \in DOMAIN t : x = t[i]
        BY DEF ToSet
      <3>2. i + 1 \in DOMAIN q /\ q[i + 1] = x
        BY <1>1, <1>2, <1>3, <1>5, <3>1
      <3> QED BY <3>2 DEF ToSet
    <2> QED BY <1>6, <2>1, <2>2
  <1>8. ASSUME Distinct(q) PROVE Distinct(t) /\ Head(q) \notin ToSet(t)
    <2>1. \A i \in DOMAIN t : i + 1 \in DOMAIN q /\ 1 \in DOMAIN q /\ t[i] = q[i + 1] /\ i + 1 # 1
      BY <1>1, <1>2, <1>3, <1>5
    <2>2. \A i, j \in DOMAIN t : i + 1 = j + 1 => i = j
      BY <1>2, <1>5
    <2>3. Distinct(t)
      BY <1>8, <2>1, <2>2 DEF Distinct
    <2>4. \A i \in DOMAIN t : t[i] # q[1]
      BY <1>8, <2>1 DEF Distinct
    <2> QED BY <1>4, <2>3, <2>4 DEF ToSet
  <1> QED BY <1>2, <1>1, <1>3, <1>4, <1>5, <1>6, <1>7, <1>8 DEF t

-----------------------------------------------------------------------------
(* What the variables hold *)

\* A rule is made with all its fields; its name is a pair.
IsObject(o) ==
    o = [key |-> << o.key[1], o.key[2] >>, uid |-> o.uid, filters |-> o.filters,
         actions |-> o.actions, miscs |-> o.miscs, window |-> o.window, made |-> o.made,
         state |-> o.state, doc |-> o.doc, from |-> o.from]
ObjectsOK ==
    /\ Sequence(object)
    /\ \A s \in DOMAIN object : IsObject(object[s]) /\ object[s].uid \in Ids!RuleIds

\* A list of rules that exist.
Listed(q) == Sequence(q) /\ ToSet(q) \subseteq DOMAIN object

IsParsing(j) ==
    j = [op |-> j.op, doc |-> j.doc, pos |-> j.pos, now |-> j.now, batch |-> j.batch,
         args |-> j.args, sofar |-> j.sofar]
IsBatch(j) == j = [op |-> j.op, batch |-> j.batch, rest |-> j.rest]
IsRemoval(j) == j = [op |-> j.op, rest |-> j.rest]
JobOK ==
    \/ job = NoJob
    \/ job.op \in {"parse", "loops"} /\ IsParsing(job) /\ Listed(job.batch)
    \/ /\ job.op \in {"check", "add"} /\ IsBatch(job)
       /\ Listed(job.batch) /\ Listed(job.rest) /\ Len(job.rest) <= Len(job.batch)
    \/ job.op = "remove" /\ IsRemoval(job) /\ Listed(job.rest)

SourceOK ==
    /\ source = [num |-> source.num, freeIds |-> << >>] /\ source.num \in 0 .. Top - 1
    /\ issued \in Nat

TypeInv ==
    /\ ObjectsOK /\ JobOK /\ SourceOK /\ Listed(ruleDone)
    /\ Known \subseteq DOMAIN object /\ schedule \subseteq DOMAIN object

\* Until all numbers were issued they are issued in order.
FewIssued ==
    issued <= Cardinality(Ids!RuleIds) =>
      /\ ~collided
      /\ source.num = IF issued = 0 THEN 0 ELSE issued + 1
      /\ \A s \in DOMAIN object : object[s].uid <= source.num

-----------------------------------------------------------------------------
(* What the steps of a parser do *)

Registry == << ruleDB, index, tasks, ruleDone, schedule >>

\* A rule is made ...
Makes(o) ==
    /\ job.op = "parse" /\ IsObject(o) /\ o.uid = Ids!NewIdOf(source)
    /\ object' = Append(object, o)
    /\ source' = Ids!AfterNewId(source) /\ issued' = issued + 1
    /\ collided' = (collided \/ \E s \in Known \cup schedule \cup InHand : object[s].uid = o.uid)
    /\ job'.op = "parse" /\ IsParsing(job') /\ job'.batch = Append(job.batch, Len(object) + 1)
    /\ UNCHANGED << Registry, freed, refused >>
\* ... or the request ends ...
Fails1 ==
    /\ job.op = "parse" /\ job' = NoJob
    /\ freed' = freed \cup ToSet(job.batch)
    /\ \/ UNCHANGED << source, issued >>
       \/ source' = Ids!AfterNewId(source) /\ issued' = issued + 1
    /\ UNCHANGED << object, collided, Registry, refused >>
\* ... or the parser stays where it is.
Stays ==
    /\ job.op = "parse" /\ job'.op = "loops" /\ IsParsing(job') /\ job'.batch = job.batch
    /\ UNCHANGED << source, issued, object, collided, Registry, freed, refused >>

LEMMA MakeEffect ==
    ASSUME NEW parsing, NEW a, NEW b, NEW filters, NEW actions, NEW miscs,
           job.op = "parse", IsParsing(parsing), parsing.op = "parse",
           parsing.batch = job.batch, UNCHANGED << Registry, refused >>,
           Make(parsing, << a, b >>, filters, actions, miscs)
    PROVE  (\E o : Makes(o)) \/ Fails1
  <1> DEFINE serial == Len(object) + 1
             key == << a, b >>
  <1>1. PICK shift \in Shifts :
          LET window == Window(job.now, miscs, shift)
              o == [key |-> key, uid |-> Ids!NewIdOf(source), filters |-> filters,
                    actions |-> actions, miscs |-> miscs, window |-> window,
                    made |-> job.now, state |-> "new", doc |-> job.doc, from |-> job.pos]
          IN  \/ /\ object' = Append(object, o)
                 /\ job' = [parsing EXCEPT !.pos = @ + 1, !.batch = Append(@, serial)]
                 /\ collided' = (collided \/ \E s \in Known \cup schedule \cup InHand :
                                               object[s].uid = Ids!NewIdOf(source))
                 /\ UNCHANGED freed
              \/ /\ Failed(job.batch) /\ job' = NoJob /\ UNCHANGED << object, collided >>
    BY Zenon DEF Make
  <1>2. source' = Ids!AfterNewId(source) /\ issued' = issued + 1
    BY DEF Make
  <1> DEFINE o == [key |-> key, uid |-> Ids!NewIdOf(source), filters |-> filters,
                   actions |-> actions, miscs |-> miscs,
                   window |-> Window(job.now, miscs, shift),
                   made |-> job.now, state |-> "new", doc |-> job.doc, from |-> job.pos]
  <1>3. IsObject(o) /\ o.uid = Ids!NewIdOf(source)
    BY DEF IsObject
  <1>4. CASE /\ object' = Append(object, o)
             /\ job' = [parsing EXCEPT !.pos = @ + 1, !.batch = Append(@, serial)]
             /\ collided' = (collided \/ \E s \in Known \cup schedule \cup InHand :
                                           object[s].uid = Ids!NewIdOf(source))
             /\ UNCHANGED freed
    <2>1. IsParsing(job') /\ job'.op = "parse" /\ job'.batch = Append(job.batch, serial)
      <3> DEFINE p == [op |-> parsing.op, doc |-> parsing.doc, pos |-> parsing.pos,
                       now |-> parsing.now, batch |-> parsing.batch,
                       args |-> parsing.args, sofar |-> parsing.sofar]
      <3>1. parsing = p
        BY DEF IsParsing
      <3>2. job' = [p EXCEPT !.pos = parsing.pos + 1, !.batch = Append(parsing.batch, serial)]
        BY <1>4, <3>1
      <3> QED BY <3>2 DEF IsParsing
    <2>2. Makes(o)
      <3> HIDE DEF o
      <3> QED BY <1>2, <1>3, <1>4, <2>1 DEF Makes
    <2> QED BY <2>2
  <1>5. CASE Failed(job.batch) /\ job' = NoJob /\ UNCHANGED << object, collided >>
    BY <1>2, <1>5 DEF Fails1, Failed
  <1> QED BY <1>1, <1>4, <1>5, Zenon

LEMMA ParseEffect ==
    ASSUME TypeInv, ParseElement \/ ParseLine
    PROVE  (\E o : Makes(o)) \/ Fails1 \/ Stays
  <1>1. job.op = "parse" /\ IsParsing(job)
    <2>1. job.op = "parse"
      BY Zenon DEF ParseElement, ParseLine
    <2> QED BY <2>1 DEF TypeInv, JobOK, NoJob
  <1>2. UNCHANGED << Registry, refused >>
    BY DEF ParseElement, ParseLine, store, Registry
  <1>3. ASSUME ParseFails PROVE Fails1
    BY <1>1, <1>2, <1>3 DEF ParseFails, Fails1, Failed, made
  <1>4. CASE ParseElement
    <2> DEFINE r == job.doc.rules[job.pos]
               new == XmlRule(job.doc, r)
    <2>1. ParseFails \/ Make(job, new.key, new.filters, new.actions, new.miscs)
      BY <1>4 DEF ParseElement
    <2>2. new.key = << job.doc.set, r.name >>
      BY DEF XmlRule
    <2> HIDE DEF new
    <2> QED BY <1>1, <1>2, <1>3, <2>1, <2>2, MakeEffect
  <1>5. CASE ParseLine
    <2> DEFINE args == job.args \o Tokens(job.doc.lines[job.pos])
               read == Scan(job.sofar, Tail(args))
               next == [job EXCEPT !.args = args, !.sofar = read]
    <2>1. \/ ParseFails
          \/ job' = [job EXCEPT !.op = "loops"] /\ UNCHANGED << made, freed >>
          \/ \E key \in NameOf(args, job.pos = 1) :
               Make(next, key, read.filters, read.actions, read.miscs)
      BY <1>5, Zenon DEF ParseLine
    <2>2. CASE ParseFails
      BY <1>3, <2>2
    <2>3. CASE job' = [job EXCEPT !.op = "loops"] /\ UNCHANGED << made, freed >>
      BY <1>1, <1>2, <2>3 DEF Stays, IsParsing, made
    <2>4. ASSUME NEW key \in NameOf(args, job.pos = 1),
                 Make(next, key, read.filters, read.actions, read.miscs)
          PROVE  (\E o : Makes(o)) \/ Fails1
      <3>1. \E a, b : key = << a, b >>
        BY DEF NameOf, NameIn
      <3>2. IsParsing(next) /\ next.op = "parse" /\ next.batch = job.batch
        <4> HIDE DEF args, read
        <4> DEFINE p == [op |-> job.op, doc |-> job.doc, pos |-> job.pos, now |-> job.now,
                         batch |-> job.batch, args |-> job.args, sofar |-> job.sofar]
        <4>1. next = [p EXCEPT !.args = args, !.sofar = read]
          BY <1>1 DEF IsParsing
        <4> HIDE DEF next
        <4> QED BY <1>1, <4>1 DEF IsParsing
      <3> HIDE DEF next, read
      <3> QED BY <1>1, <1>2, <2>4, <3>1, <3>2, MakeEffect
    <2> QED BY <2>1, <2>2, <2>3, <2>4
  <1> QED BY <1>4, <1>5

-----------------------------------------------------------------------------
(* What the other steps do *)

\* A function with one more place, or with one less.
LEMMA EnteredAt ==
    ASSUME NEW k, NEW v, NEW f, NEW g, g = Entered(f, k, v)
    PROVE  /\ DOMAIN g = DOMAIN f \cup {k} /\ g[k] = v
           /\ \A x \in DOMAIN f : x # k => g[x] = f[x]
  BY DEF Entered

LEMMA ErasedAt ==
    ASSUME NEW k, NEW f, NEW g, g = Restrict(f, DOMAIN f \ {k})
    PROVE  DOMAIN g = DOMAIN f \ {k} /\ \A x \in DOMAIN g : g[x] = f[x]
  BY DEF Restrict

\* A Rule object gets another state.
LEMMA MarkEffect ==
    ASSUME ObjectsOK, NEW s \in DOMAIN object, NEW st, object' = [object EXCEPT ![s].state = st]
    PROVE  /\ ObjectsOK' /\ DOMAIN object' = DOMAIN object
           /\ object'[s].state = st
           /\ \A t \in DOMAIN object :
                /\ object'[t].uid = object[t].uid /\ object'[t].key = object[t].key
                /\ object'[t].window = object[t].window
                /\ t # s => object'[t] = object[t]
  <1> DEFINE o == object[s]
             marked == [o EXCEPT !.state = st]
             p == [key |-> << o.key[1], o.key[2] >>, uid |-> o.uid, filters |-> o.filters,
                   actions |-> o.actions, miscs |-> o.miscs, window |-> o.window,
                   made |-> o.made, state |-> o.state, doc |-> o.doc, from |-> o.from]
  <1>1. o = p
    BY DEF ObjectsOK, IsObject
  <1>2. marked = [p EXCEPT !.state = st]
    BY <1>1
  <1>3. /\ marked.state = st /\ marked.uid = o.uid /\ marked.window = o.window
        /\ marked.key = << o.key[1], o.key[2] >> /\ o.key = << o.key[1], o.key[2] >>
    BY <1>1, <1>2
  <1>4. IsObject(marked)
    BY <1>2 DEF IsObject
  <1>5. /\ object' = [object EXCEPT ![s] = marked] /\ o.uid \in Ids!RuleIds
        /\ Len(object) \in Nat /\ object \in [1 .. Len(object) -> ToSet(object)]
    BY DEF ObjectsOK, Sequence
  <1> HIDE DEF marked
  <1>6. DOMAIN object' = 1 .. Len(object) /\ object'[s] = marked
        /\ \A t \in DOMAIN object : t # s => object'[t] = object[t]
    BY <1>5
  <1>7. Sequence(object')
    <2> DEFINE S == ToSet(object) \cup {marked}
    <2>1. object' \in [1 .. Len(object) -> S]
      BY <1>5
    <2> HIDE DEF S
    <2>2. object' \in Seq(S)
      <3>1. Seq(S) = UNION {[1 .. k -> S] : k \in Nat}
        BY SeqDef
      <3> QED BY <1>5, <2>1, <3>1, Zenon
    <2> QED BY <2>2, SeqIsSequence
  <1>8. DOMAIN object' = DOMAIN object
    BY <1>5, <1>6
  <1>9. \A t \in DOMAIN object : IsObject(object'[t]) /\ object'[t].uid \in Ids!RuleIds
    BY <1>3, <1>4, <1>5, <1>6 DEF ObjectsOK
  <1>10. ObjectsOK'
    BY <1>7, <1>8, <1>9 DEF ObjectsOK
  <1> QED BY <1>3, <1>6, <1>8, <1>10

\* What a request that is handled looks like.
LEMMA JobAt ==
    ASSUME JobOK
    PROVE  /\ job.op \in {"none", "parse", "loops", "check", "add", "remove"}
           /\ job.op = "none" => job = NoJob
           /\ job.op \in {"parse", "loops"} => Listed(job.batch)
           /\ job.op \in {"check", "add"} =>
                /\ Listed(job.batch) /\ Listed(job.rest) /\ Len(job.rest) <= Len(job.batch)
                /\ Advanced = [op |-> job.op, batch |-> job.batch, rest |-> Tail(job.rest)]
           /\ job.op = "remove" =>
                /\ Listed(job.rest)
                /\ Advanced = [op |-> job.op, rest |-> Tail(job.rest)]
  <1>1. CASE job = NoJob
    BY <1>1 DEF NoJob
  <1>2. CASE job.op \in {"parse", "loops"} /\ IsParsing(job) /\ Listed(job.batch)
    BY <1>2
  <1>3. CASE /\ job.op \in {"check", "add"} /\ IsBatch(job)
             /\ Listed(job.batch) /\ Listed(job.rest) /\ Len(job.rest) <= Len(job.batch)
    <2> DEFINE p == [op |-> job.op, batch |-> job.batch, rest |-> job.rest]
    <2>1. Advanced = [p EXCEPT !.rest = Tail(job.rest)]
      BY <1>3 DEF IsBatch, Advanced
    <2> QED BY <1>3, <2>1
  <1>4. CASE job.op = "remove" /\ IsRemoval(job) /\ Listed(job.rest)
    <2> DEFINE p == [op |-> job.op, rest |-> job.rest]
    <2>1. Advanced = [p EXCEPT !.rest = Tail(job.rest)]
      BY <1>4 DEF IsRemoval, Advanced
    <2> QED BY <1>4, <2>1
  <1> QED BY <1>1, <1>2, <1>3, <1>4 DEF JobOK

\* The objects a step may leave in the request's hands.
LEMMA HandAt ==
    /\ job.op \in {"parse", "check", "loops"} => InHand = ToSet(job.batch)
    /\ job.op = "add" => InHand = ToSet(job.rest)
    /\ job.op \in {"none", "remove"} => InHand = {}
  BY DEF InHand

\* The next rule of the list that is worked off.
LEMMA FirstOf ==
    ASSUME JobOK, job.op \in {"check", "add", "remove"}, job.rest # << >>
    PROVE  /\ First \in DOMAIN object /\ Listed(Tail(job.rest))
           /\ ToSet(job.rest) = {First} \cup ToSet(Tail(job.rest))
           /\ Len(job.rest) \in Nat \ {0} /\ Len(Tail(job.rest)) = Len(job.rest) - 1
           /\ Distinct(job.rest) => Distinct(Tail(job.rest)) /\ First \notin ToSet(Tail(job.rest))
  <1>1. Listed(job.rest)
    BY JobAt
  <1> QED BY <1>1, TailSequence DEF Listed, First

\* A number that is issued, and the counter after it.
LEMMA NewIdValue ==
    ASSUME SourceOK, source' = Ids!AfterNewId(source), issued' = issued + 1
    PROVE  /\ SourceOK' /\ Ids!NewIdOf(source) \in Ids!RuleIds
           /\ source'.num = Ids!NewIdOf(source)
           /\ source'.num = IF source.num = 0 \/ source.num = Top - 1 THEN 2 ELSE source.num + 1
  <1> DEFINE n == source.num
             p == [num |-> n, freeIds |-> << >>]
  <1>1. source = p /\ n \in 0 .. Top - 1 /\ issued \in Nat
    BY DEF SourceOK
  <1>2. Top \in Nat /\ Top > 3
    BY RulesAssumption
  <1>3. Ids!NextNum(n) = IF n = 0 \/ n = Top - 1 THEN 2 ELSE n + 1
    BY <1>1, NextNumValue
  <1>4. Ids!NewIdOf(source) = Ids!NextNum(n) /\ source' = [p EXCEPT !.num = Ids!NextNum(n)]
    BY <1>1 DEF Ids!NewIdOf, Ids!AfterNewId
  <1>5. Ids!NextNum(n) \in Ids!RuleIds /\ Ids!NextNum(n) \in 0 .. Top - 1
    BY <1>1, <1>2, <1>3 DEF Ids!RuleIds, Ids!Reserved
  <1>6. source' = [num |-> Ids!NextNum(n), freeIds |-> << >>]
    BY <1>4
  <1> QED BY <1>1, <1>3, <1>4, <1>5, <1>6 DEF SourceOK

-----------------------------------------------------------------------------
(* The types, and the numbers *)

LEMMA InitTyped == Init => TypeInv /\ FewIssued
  <1> SUFFICES ASSUME Init PROVE TypeInv /\ FewIssued
    OBVIOUS
  <1>1. /\ source = [num |-> 0, freeIds |-> << >>] /\ issued = 0
        /\ object = << >> /\ ruleDone = << >> /\ schedule = {} /\ ~collided
        /\ job = NoJob /\ ruleDB = << >>
    BY DEF Init, Ids!NewSource
  <1>2. Known = {} /\ DOMAIN object = {}
    BY <1>1 DEF Known
  <1>3. ObjectsOK /\ Listed(ruleDone)
    BY <1>1, <1>2, EmptySequence DEF ObjectsOK, Listed
  <1>4. SourceOK
    BY <1>1, RulesAssumption DEF SourceOK
  <1> QED BY <1>1, <1>2, <1>3, <1>4 DEF TypeInv, JobOK, FewIssued

\* A list of rules stays one while objects are only added.
LEMMA StaysListed ==
    ASSUME NEW q, Listed(q), DOMAIN object \subseteq DOMAIN object'
    PROVE  Sequence(q) /\ ToSet(q) \subseteq DOMAIN object'
  BY DEF Listed

LEMMA ManyIds == Cardinality(Ids!RuleIds) = Top - 2 /\ IsFiniteSet(Ids!RuleIds) /\ Top \in Nat /\ Top > 3
  <1>1. Top \in Nat /\ Top > 3
    BY RulesAssumption
  <1>2. Ids!RuleIds = 2 .. Top - 1
    BY <1>1 DEF Ids!RuleIds, Ids!Reserved
  <1>3. 2 \in Int /\ Top - 1 \in Int
    BY <1>1
  <1>4. IsFiniteSet(2 .. Top - 1) /\ Cardinality(2 .. Top - 1) = Top - 1 - 2 + 1
    BY <1>1, <1>3, FS_Interval
  <1> QED BY <1>1, <1>2, <1>4

\* A rule that is made has a number after all those before it.
LEMMA MakesTyped ==
    ASSUME TypeInv, FewIssued, NEW o, Makes(o)
    PROVE  /\ TypeInv' /\ FewIssued' /\ DOMAIN object' = DOMAIN object \cup {Len(object) + 1}
           /\ Len(object) + 1 \notin DOMAIN object
           /\ \A s \in DOMAIN object : object'[s] = object[s]
           /\ object'[Len(object) + 1] = o
  <1> DEFINE n == Len(object) + 1
  <1>1. /\ SourceOK' /\ o.uid \in Ids!RuleIds /\ source'.num = o.uid
        /\ source'.num = IF source.num = 0 \/ source.num = Top - 1 THEN 2 ELSE source.num + 1
    BY NewIdValue DEF Makes, TypeInv
  <1>2. /\ Sequence(object') /\ DOMAIN object' = DOMAIN object \cup {n} /\ n \notin DOMAIN object
        /\ object'[n] = o /\ \A s \in DOMAIN object : object'[s] = object[s]
    BY AppendSequence DEF Makes, TypeInv, ObjectsOK
  <1> HIDE DEF n
  <1>3. ObjectsOK'
    BY <1>1, <1>2 DEF Makes, TypeInv, ObjectsOK
  <1>4. JobOK'
    <2>1. job.op = "parse" /\ Listed(job.batch)
      BY JobAt DEF Makes, TypeInv
    <2>2. job'.batch = Append(job.batch, n) /\ job'.op = "parse" /\ IsParsing(job')
      BY DEF Makes, n
    <2>3. Sequence(job'.batch) /\ ToSet(job'.batch) = ToSet(job.batch) \cup {n}
      BY <2>1, <2>2, AppendSequence DEF Listed
    <2>4. Listed(job.batch)'
      BY <1>2, <2>1, <2>3 DEF Listed
    <2> QED BY <2>2, <2>4 DEF JobOK, IsParsing
  <1>5. TypeInv'
    <2>1. ruleDone' = ruleDone /\ ruleDB' = ruleDB /\ schedule' = schedule
      BY DEF Makes, Registry
    <2>2. Known' = Known
      BY <2>1 DEF Known
    <2>3. Listed(ruleDone)'
      BY <1>2, <2>1 DEF TypeInv, Listed
    <2> QED BY <1>1, <1>2, <1>3, <1>4, <2>1, <2>2, <2>3 DEF TypeInv
  <1>6. FewIssued'
    <2> SUFFICES ASSUME issued' <= Cardinality(Ids!RuleIds)
                 PROVE  /\ ~collided'
                        /\ source'.num = IF issued' = 0 THEN 0 ELSE issued' + 1
                        /\ \A s \in DOMAIN object' : object'[s].uid <= source'.num
      BY DEF FewIssued
    <2>1. issued' = issued + 1 /\ issued \in Nat /\ issued <= Top - 3 /\ issued' <= Top - 2
      BY ManyIds DEF Makes, TypeInv, SourceOK
    <2>2. /\ ~collided /\ source.num = IF issued = 0 THEN 0 ELSE issued + 1
          /\ \A s \in DOMAIN object : object[s].uid <= source.num
      BY <2>1, ManyIds DEF FewIssued
    <2>3. source'.num = issued + 2 /\ source.num < source'.num /\ source.num \in Nat
      BY <1>1, <2>1, <2>2, ManyIds
    <2>4. \A s \in DOMAIN object : object[s].uid \in Nat
      BY ManyIds DEF TypeInv, ObjectsOK, Ids!RuleIds
    <2>5. \A s \in DOMAIN object : object[s].uid < o.uid
      BY <1>1, <2>2, <2>3, <2>4
    <2>6. Known \cup schedule \cup InHand \subseteq DOMAIN object
      <3>1. job.op = "parse" /\ Listed(job.batch)
        BY JobAt DEF Makes, TypeInv
      <3> QED BY <3>1, HandAt DEF Listed, TypeInv
    <2>7. ~collided'
      <3>1. \A s \in Known \cup schedule \cup InHand : object[s].uid # o.uid
        BY <1>1, <2>3, <2>4, <2>5, <2>6
      <3> QED BY <2>2, <3>1 DEF Makes
    <2>8. ASSUME NEW s \in DOMAIN object' PROVE object'[s].uid <= source'.num
      <3>1. CASE s \in DOMAIN object
        BY <1>1, <1>2, <2>1, <2>3, <2>4, <2>5, <3>1
      <3>2. CASE s = n
        <4>1. object'[s].uid = source'.num
          BY <1>1, <1>2, <3>2
        <4>2. source'.num \in Nat
          BY <2>1, <2>3
        <4> QED BY <4>1, <4>2
      <3> QED BY <1>2, <3>1, <3>2
    <2> QED BY <2>1, <2>3, <2>7, <2>8
  <1> QED BY <1>2, <1>5, <1>6 DEF n

LEMMA FailsTyped ==
    ASSUME TypeInv, FewIssued, Fails1
    PROVE  TypeInv' /\ FewIssued'
  <1>1. /\ object' = object /\ collided' = collided /\ job' = NoJob
        /\ ruleDone' = ruleDone /\ schedule' = schedule /\ ruleDB' = ruleDB
    BY DEF Fails1, Registry
  <1>2. SourceOK'
    BY NewIdValue DEF Fails1, TypeInv, SourceOK
  <1>3. TypeInv'
    <2>1. Known' = Known /\ ObjectsOK' /\ Listed(ruleDone)'
      BY <1>1 DEF Known, TypeInv, ObjectsOK, Listed
    <2> QED BY <1>1, <1>2, <2>1 DEF TypeInv, JobOK
  <1>4. CASE UNCHANGED << source, issued >>
    BY <1>1, <1>3, <1>4 DEF FewIssued
  <1>5. CASE source' = Ids!AfterNewId(source) /\ issued' = issued + 1
    <2> SUFFICES ASSUME issued' <= Cardinality(Ids!RuleIds)
                 PROVE  /\ ~collided'
                        /\ source'.num = IF issued' = 0 THEN 0 ELSE issued' + 1
                        /\ \A s \in DOMAIN object' : object'[s].uid <= source'.num
      BY <1>3 DEF FewIssued
    <2>1. source'.num = IF source.num = 0 \/ source.num = Top - 1 THEN 2 ELSE source.num + 1
      BY <1>5, NewIdValue DEF TypeInv
    <2>2. issued' = issued + 1 /\ issued \in Nat /\ issued <= Top - 3
      BY <1>5, ManyIds DEF TypeInv, SourceOK
    <2>3. /\ ~collided /\ source.num = IF issued = 0 THEN 0 ELSE issued + 1
          /\ \A s \in DOMAIN object : object[s].uid <= source.num
      BY <2>2, ManyIds DEF FewIssued
    <2>4. source'.num = issued + 2 /\ source.num <= source'.num /\ source.num \in Nat
      BY <2>1, <2>2, <2>3, ManyIds
    <2>5. \A s \in DOMAIN object : object[s].uid \in Nat
      BY ManyIds DEF TypeInv, ObjectsOK, Ids!RuleIds
    <2>6. \A s \in DOMAIN object : object[s].uid <= source'.num
      <3>1. source'.num \in Nat
        BY <2>2, <2>4
      <3> QED BY <2>3, <2>4, <2>5, <3>1
    <2> QED BY <1>1, <2>2, <2>3, <2>4, <2>6
  <1> QED BY <1>3, <1>4, <1>5 DEF Fails1

\* A step that makes no rule keeps the numbers: it is enough that the rules,
\* with their numbers, and the counter are the same.
LEMMA NumbersKept ==
    ASSUME FewIssued, UNCHANGED << source, issued, collided >>, DOMAIN object' = DOMAIN object,
           \A s \in DOMAIN object : object'[s].uid = object[s].uid
    PROVE  FewIssued'
  BY DEF FewIssued

LEMMA StaysTyped ==
    ASSUME TypeInv, FewIssued, Stays
    PROVE  TypeInv' /\ FewIssued'
  <1>1. /\ object' = object /\ collided' = collided /\ source' = source /\ issued' = issued
        /\ ruleDone' = ruleDone /\ schedule' = schedule /\ ruleDB' = ruleDB
    BY DEF Stays, Registry
  <1>2. Known' = Known /\ ObjectsOK' /\ Listed(ruleDone)' /\ SourceOK'
    BY <1>1 DEF Known, TypeInv, ObjectsOK, Listed, SourceOK
  <1>3. JobOK'
    <2>1. job'.op = "loops" /\ IsParsing(job') /\ job'.batch = job.batch /\ Listed(job.batch)
      BY JobAt DEF Stays, TypeInv
    <2>2. Listed(job.batch)'
      BY <1>1, <2>1 DEF Listed
    <2> QED BY <2>1, <2>2 DEF JobOK, IsParsing
  <1> QED BY <1>1, <1>2, <1>3, NumbersKept DEF TypeInv

-----------------------------------------------------------------------------
(* The other steps *)

\* The rules that are to be removed, in some order.
LEMMA SetToSeqLists ==
    ASSUME NEW S, IsFiniteSet(S)
    PROVE  Sequence(SetToSeq(S)) /\ ToSet(SetToSeq(S)) = S /\ Distinct(SetToSeq(S))
  <1> DEFINE n == Cardinality(S)
             q == SetToSeq(S)
  <1>1. n \in Nat /\ ExistsBijection(1 .. n, S)
    BY FS_CardinalityType
  <1>2. \E g : g \in [1 .. n -> S] /\ IsInjective(g)
    BY <1>1 DEF ExistsBijection, Bijection, Injection
  <1>3. q \in [1 .. n -> S] /\ IsInjective(q)
    BY <1>2 DEF SetToSeq
  <1> HIDE DEF q
  <1>4. IsFiniteSet(1 .. n) /\ Cardinality(1 .. n) = n
    <2> HIDE DEF n
    <2>1. IsFiniteSet(1 .. n) /\ Cardinality(1 .. n) = IF 1 > n THEN 0 ELSE n - 1 + 1
      BY <1>1, FS_Interval
    <2> QED BY <1>1, <2>1
  <1>5. q \in Surjection(1 .. n, S)
    <2>1. q \in Injection(1 .. n, S)
      BY <1>3 DEF Injection
    <2>2. Cardinality(1 .. n) = Cardinality(S) <=> q \in Surjection(1 .. n, S)
      BY <2>1, FS_Injection
    <2> QED BY <1>4, <2>2
  <1> HIDE DEF n
  <1>6. DOMAIN q = 1 .. n /\ ToSet(q) = S
    BY <1>3, <1>5 DEF Surjection, ToSet
  <1>7. q \in Seq(S)
    <2>1. Seq(S) = UNION {[1 .. k -> S] : k \in Nat}
      BY SeqDef
    <2> QED BY <1>1, <1>3, <2>1, Zenon DEF n
  <1>8. Sequence(q)
    BY <1>7, SeqIsSequence
  <1> QED BY <1>3, <1>6, <1>8 DEF Distinct, IsInjective, q

\* The request goes on, or another begins, and nothing else happens.
Turns ==
    /\ UNCHANGED << source, issued, object, collided, Registry, freed, refused >>
    /\ \/ job' = job
       \/ job.op = "none" /\ job'.op = "parse" /\ IsParsing(job') /\ job'.batch = << >>
       \/ job.op = "parse" /\ job' = [op |-> "check", batch |-> job.batch, rest |-> job.batch]
       \/ /\ job.op = "check" /\ job.rest = << >>
          /\ job' = [op |-> "add", batch |-> job.batch, rest |-> job.batch]
       \/ job.op \in {"add", "remove"} /\ job.rest = << >> /\ job' = NoJob
       \/ /\ job.op = "none"
          /\ \E q : /\ Listed(q) /\ Distinct(q) /\ ToSet(q) \subseteq Known \cup schedule
                    /\ job' = [op |-> "remove", rest |-> q]

LEMMA RemovalTurns ==
    ASSUME TypeInv, NEW rules, rules \subseteq Known \cup schedule, Remove1(rules)
    PROVE  Turns
  <1>1. rules \subseteq DOMAIN object /\ IsFiniteSet(DOMAIN object)
    <2>1. DOMAIN object = 1 .. Len(object) /\ Len(object) \in Nat
      BY DEF TypeInv, ObjectsOK, Sequence
    <2>2. IsFiniteSet(1 .. Len(object))
      BY <2>1, FS_Interval
    <2> QED BY <2>1, <2>2 DEF TypeInv
  <1>2. IsFiniteSet(rules)
    BY <1>1, FS_Subset
  <1> DEFINE q == SetToSeq(rules)
  <1>3. Sequence(q) /\ ToSet(q) = rules /\ Distinct(q)
    BY <1>2, SetToSeqLists
  <1>4. job = NoJob /\ job' = [op |-> "remove", rest |-> q]
        /\ UNCHANGED << source, issued, object, collided, Registry, freed, refused >>
    BY DEF Remove1, Free, made, store, ends, Registry
  <1> HIDE DEF q
  <1>5. Listed(q) /\ ToSet(q) \subseteq Known \cup schedule
    BY <1>1, <1>3 DEF Listed
  <1>6. job.op = "none"
    BY <1>4 DEF NoJob
  <1> QED BY <1>3, <1>4, <1>5, <1>6, Zenon DEF Turns

LEMMA FoundKnown == \A key : Found(key) \subseteq Known
  BY DEF Found, Known

LEMMA TurnsEffect ==
    ASSUME TypeInv,
           \/ Begin \/ ParsedAll \/ CheckedAll \/ AddedAll
           \/ RemoveRule \/ RemoveSet \/ RemoveDue \/ Tick \/ UNCHANGED vars
    PROVE  Turns
  <1>1. CASE Begin
    <2>1. job = NoJob /\ UNCHANGED << source, issued, object, collided, Registry, freed, refused >>
      BY <1>1 DEF Begin, Free, made, store, ends, Registry
    <2>2. CASE job' = job
      BY <2>1, <2>2 DEF Turns
    <2>3. CASE \E docs : Fetch(docs)
      <3>1. job'.op = "parse" /\ IsParsing(job') /\ job'.batch = << >>
        BY <2>3 DEF Fetch, IsParsing
      <3> QED BY <2>1, <3>1 DEF Turns, NoJob
    <2> QED BY <1>1, <2>2, <2>3 DEF Begin
  <1>2. CASE ParsedAll
    BY <1>2 DEF ParsedAll, Turns, made, store, ends, Registry
  <1>3. CASE CheckedAll
    BY <1>3 DEF CheckedAll, Turns, made, store, ends, Registry
  <1>4. CASE AddedAll
    BY <1>4 DEF AddedAll, Turns, made, store, ends, Registry
  <1>5. CASE RemoveRule
    <2>1. PICK key \in DOMAIN index : Remove1(Found(key))
      BY <1>5 DEF RemoveRule
    <2>2. Found(key) \subseteq Known \cup schedule
      BY FoundKnown
    <2> QED BY <2>1, <2>2, RemovalTurns
  <1>6. CASE RemoveSet
    <2>1. PICK set : Remove1(UNION {Found(key) : key \in {k \in DOMAIN index : k[1] = set}})
      BY <1>6 DEF RemoveSet
    <2>2. UNION {Found(key) : key \in {k \in DOMAIN index : k[1] = set}} \subseteq Known \cup schedule
      BY FoundKnown
    <2> QED BY <2>1, <2>2, RemovalTurns
  <1>7. CASE RemoveDue
    <2>1. PICK s \in schedule : Remove1({s})
      BY <1>7 DEF RemoveDue
    <2>2. {s} \subseteq Known \cup schedule
      OBVIOUS
    <2> QED BY <2>1, <2>2, RemovalTurns
  <1>8. CASE Tick
    BY <1>8 DEF Tick, Turns, made, store, ends, Registry
  <1>9. CASE UNCHANGED vars
    BY <1>9 DEF vars, Turns, made, store, ends, Registry
  <1> QED BY <1>1, <1>2, <1>3, <1>4, <1>5, <1>6, <1>7, <1>8, <1>9

LEMMA TurnsTyped ==
    ASSUME TypeInv, FewIssued, Turns
    PROVE  TypeInv' /\ FewIssued'
  <1>1. /\ object' = object /\ collided' = collided /\ source' = source /\ issued' = issued
        /\ ruleDone' = ruleDone /\ schedule' = schedule /\ ruleDB' = ruleDB
    BY DEF Turns, Registry
  <1>2. Known' = Known /\ ObjectsOK' /\ Listed(ruleDone)' /\ SourceOK'
    BY <1>1 DEF Known, TypeInv, ObjectsOK, Listed, SourceOK
  <1>3. \A q : Listed(q) => Sequence(q) /\ ToSet(q) \subseteq DOMAIN object'
    BY <1>1 DEF Listed
  <1>4. JobOK'
    <2>1. CASE job' = job
      BY <1>1, <2>1 DEF TypeInv, JobOK, IsParsing, IsBatch, IsRemoval, Listed
    <2>2. CASE job'.op = "parse" /\ IsParsing(job') /\ job'.batch = << >>
      BY <2>2, EmptySequence DEF JobOK, IsParsing, Listed
    <2>3. CASE /\ job.op = "parse" \/ job.op = "check"
               /\ \E op \in {"check", "add"} :
                    job' = [op |-> op, batch |-> job.batch, rest |-> job.batch]
      <3>1. Listed(job.batch) /\ Len(job.batch) \in Nat
        BY <2>3, JobAt DEF TypeInv, Listed, Sequence
      <3>2. /\ job'.op \in {"check", "add"} /\ IsBatch(job')
            /\ job'.batch = job.batch /\ job'.rest = job.batch
        BY <2>3 DEF IsBatch
      <3> QED BY <1>3, <3>1, <3>2 DEF JobOK, IsBatch, Listed
    <2>4. CASE job' = NoJob
      BY <2>4 DEF JobOK
    <2>5. ASSUME NEW q, Listed(q), job' = [op |-> "remove", rest |-> q] PROVE JobOK'
      BY <1>3, <2>5 DEF JobOK, IsRemoval, Listed
    <2> QED BY <2>1, <2>2, <2>3, <2>4, <2>5 DEF Turns
  <1> QED BY <1>1, <1>2, <1>4, NumbersKept DEF TypeInv

\* A rule of the list is worked off: the rules keep their numbers and names.
Works ==
    /\ job.op \in {"check", "add", "remove"} /\ job.rest # << >>
    /\ UNCHANGED << source, issued, collided >>
    /\ ObjectsOK' /\ DOMAIN object' = DOMAIN object
    /\ \A s \in DOMAIN object :
         /\ object'[s].uid = object[s].uid /\ object'[s].key = object[s].key
         /\ s # First => object'[s] = object[s]

LEMMA WorksTyped ==
    ASSUME TypeInv, FewIssued, Works, job' = Advanced \/ job' = NoJob,
           Listed(ruleDone'), Known' \subseteq DOMAIN object, schedule' \subseteq DOMAIN object
    PROVE  TypeInv' /\ FewIssued'
  <1>1. DOMAIN object' = DOMAIN object /\ ObjectsOK'
        /\ source' = source /\ issued' = issued /\ collided' = collided
    BY DEF Works
  <1>2. \A q : Listed(q) => Sequence(q) /\ ToSet(q) \subseteq DOMAIN object'
    BY <1>1 DEF Listed
  <1>3. JobOK'
    <2>1. CASE job' = NoJob
      BY <2>1 DEF JobOK
    <2>2. CASE job' = Advanced
      <3>1. Listed(Tail(job.rest)) /\ Len(job.rest) \in Nat \ {0} /\ Len(Tail(job.rest)) = Len(job.rest) - 1
        BY FirstOf DEF Works, TypeInv
      <3>2. CASE job.op \in {"check", "add"}
        <4>1. /\ job' = [op |-> job.op, batch |-> job.batch, rest |-> Tail(job.rest)]
              /\ Listed(job.batch) /\ Len(job.rest) <= Len(job.batch) /\ Len(job.batch) \in Nat
          BY <2>2, <3>2, JobAt DEF TypeInv, Listed, Sequence
        <4>2. /\ job'.op \in {"check", "add"} /\ IsBatch(job')
              /\ job'.batch = job.batch /\ job'.rest = Tail(job.rest)
          BY <3>2, <4>1 DEF IsBatch
        <4>3. Len(Tail(job.rest)) <= Len(job.batch)
          BY <3>1, <4>1
        <4> QED BY <1>2, <3>1, <4>1, <4>2, <4>3 DEF JobOK, IsBatch, Listed
      <3>3. CASE job.op = "remove"
        <4>1. job' = [op |-> "remove", rest |-> Tail(job.rest)]
          BY <2>2, <3>3, JobAt DEF TypeInv
        <4> QED BY <1>2, <3>1, <4>1 DEF JobOK, IsRemoval, Listed
      <3> QED BY <3>2, <3>3 DEF Works
    <2> QED BY <2>1, <2>2
  <1>4. SourceOK'
    BY <1>1 DEF TypeInv, SourceOK
  <1>5. Listed(ruleDone)'
    BY <1>2 DEF Listed
  <1>6. Known' \subseteq DOMAIN object' /\ schedule' \subseteq DOMAIN object'
    BY <1>1
  <1>7. FewIssued'
    BY <1>1, NumbersKept DEF Works
  <1> QED BY <1>1, <1>3, <1>4, <1>5, <1>6, <1>7 DEF TypeInv

\* What is true of a Rule object that is not touched.
LEMMA Untouched ==
    ASSUME TypeInv, UNCHANGED object
    PROVE  /\ ObjectsOK' /\ DOMAIN object' = DOMAIN object
           /\ \A s \in DOMAIN object :
                /\ object'[s].uid = object[s].uid /\ object'[s].key = object[s].key
                /\ s # First => object'[s] = object[s]
  BY DEF TypeInv, ObjectsOK

LEMMA CheckEffect ==
    ASSUME TypeInv, FewIssued, CheckNext
    PROVE  /\ Works /\ job.op = "check" /\ job' = Advanced /\ UNCHANGED << Registry, freed, refused >>
           /\ TypeInv' /\ FewIssued'
  <1>1. /\ job.op = "check" /\ job.rest # << >> /\ job' = Advanced
        /\ UNCHANGED << source, issued, collided, Registry, freed, refused >>
    BY DEF CheckNext, store, ends, Registry
  <1>2. First \in DOMAIN object
    BY <1>1, FirstOf DEF TypeInv
  <1>3. PICK verdict : object' = [object EXCEPT ![First].state = verdict]
    BY DEF CheckNext
  <1>4. Works
    BY <1>1, <1>2, <1>3, MarkEffect DEF Works, TypeInv
  <1>5. Known' = Known /\ Listed(ruleDone') /\ schedule' = schedule
    BY <1>1 DEF Known, Registry, TypeInv
  <1> QED BY <1>1, <1>4, <1>5, WorksTyped DEF TypeInv

LEMMA PassEffect ==
    ASSUME TypeInv, FewIssued, PassOver
    PROVE  /\ Works /\ job.op = "add" /\ job' = Advanced /\ UNCHANGED << object, Registry, freed >>
           /\ refused' = refused \cup {First}
           /\ TypeInv' /\ FewIssued'
  <1>1. /\ job.op = "add" /\ job.rest # << >> /\ job' = Advanced
        /\ UNCHANGED << object, source, issued, collided, Registry, freed >>
        /\ refused' = refused \cup {First}
    BY DEF PassOver, made, store, Registry
  <1>2. Works
    BY <1>1, Untouched DEF Works
  <1>3. Known' = Known /\ Listed(ruleDone') /\ schedule' = schedule
    BY <1>1 DEF Known, Registry, TypeInv
  <1> QED BY <1>1, <1>2, <1>3, WorksTyped DEF TypeInv

\* A rule with a taken name goes, the last one of a list also with the request.
Drops ==
    /\ Taken(First)
    /\ freed' = freed \cup {First}
    /\ \/ job' = Advanced
       \/ job' = NoJob /\ Tail(job.rest) = << >>
    /\ UNCHANGED Registry
Enters ==
    /\ ~Taken(First)
    /\ ruleDB' = Entered(ruleDB, object[First].uid, First)
    /\ index' = Entered(index, object[First].key, object[First].uid)
    /\ tasks' = tasks + 1
    /\ schedule' \subseteq schedule \cup {First}
    /\ job' = Advanced
    /\ UNCHANGED << ruleDone, freed >>

LEMMA AddEffect ==
    ASSUME TypeInv, FewIssued, AddRule
    PROVE  /\ Works /\ job.op = "add" /\ object[First].state = "valid" /\ UNCHANGED << object, refused >>
           /\ Drops \/ Enters
           /\ TypeInv' /\ FewIssued'
  <1>1. /\ job.op = "add" /\ job.rest # << >> /\ object[First].state = "valid"
        /\ UNCHANGED << object, source, issued, collided, ruleDone, refused >>
    BY DEF AddRule, made
  <1>2. Works
    BY <1>1, Untouched DEF Works
  <1>3. First \in DOMAIN object
    BY <1>1, FirstOf DEF TypeInv
  <1>4. CASE Taken(First)
    <2>1. /\ freed' = freed \cup {First} /\ UNCHANGED Registry
          /\ job' = IF Len(job.batch) = 1 THEN NoJob ELSE Advanced
      BY <1>1, <1>4 DEF AddRule, Registry
    <2>2. ASSUME Len(job.batch) = 1 PROVE Tail(job.rest) = << >>
      <3>1. /\ Len(job.rest) <= Len(job.batch) /\ Len(job.rest) \in Nat \ {0}
            /\ Len(Tail(job.rest)) = Len(job.rest) - 1 /\ Listed(Tail(job.rest))
        BY <1>1, JobAt, FirstOf DEF TypeInv
      <3>2. Len(job.rest) = 1
        <4>1. \A n \in Nat \ {0} : n <= 1 => n = 1
          OBVIOUS
        <4>2. Len(job.rest) <= 1 /\ Len(job.rest) \in Nat \ {0}
          BY <2>2, <3>1, Zenon
        <4> QED BY <4>1, <4>2
      <3>3. Tail(job.rest) \in Seq(ToSet(Tail(job.rest)))
        BY <3>1, SequenceIsSeq DEF Listed
      <3>4. Len(Tail(job.rest)) = 0
        BY <3>1, <3>2
      <3> QED BY <3>3, <3>4, EmptySeq
    <2>3. Drops
      BY <1>4, <2>1, <2>2 DEF Drops
    <2>4. Known' = Known /\ Listed(ruleDone') /\ schedule' = schedule
      BY <2>1 DEF Known, Registry, TypeInv
    <2> QED BY <1>1, <1>2, <2>1, <2>3, <2>4, WorksTyped DEF TypeInv
  <1>5. CASE ~Taken(First)
    <2>1. Enters
      BY <1>1, <1>5 DEF AddRule, Enters
    <2>2. Known' \subseteq Known \cup {First}
      <3>1. DOMAIN ruleDB' = DOMAIN ruleDB \cup {object[First].uid} /\ ruleDB'[object[First].uid] = First
            /\ \A u \in DOMAIN ruleDB : u # object[First].uid => ruleDB'[u] = ruleDB[u]
        <4>1. ruleDB' = Entered(ruleDB, object[First].uid, First)
          BY <2>1 DEF Enters
        <4> QED BY <4>1 DEF Entered
      <3> QED BY <3>1 DEF Known
    <2>3. Known' \subseteq DOMAIN object /\ schedule' \subseteq DOMAIN object /\ Listed(ruleDone')
      BY <1>1, <1>3, <2>1, <2>2 DEF Enters, TypeInv
    <2> QED BY <1>1, <1>2, <2>1, <2>3, WorksTyped DEF Enters
  <1> QED BY <1>4, <1>5

\* The list of done rules, with the oldest one gone when there are too many.
Retires ==
    LET done == Append(ruleDone, First)
    IN  \/ ruleDone' = done /\ freed' = freed
        \/ ruleDone' = Tail(done) /\ freed' = freed \cup {Head(done)}

LEMMA RemoveEffect ==
    ASSUME TypeInv, FewIssued, RemoveNext
    PROVE  /\ Works /\ job.op = "remove" /\ job' = Advanced /\ refused' = refused
           /\ Retires /\ object'[First].state = "done"
           /\ ruleDB' = Restrict(ruleDB, DOMAIN ruleDB \ {object[First].uid})
           /\ index' = Restrict(index, DOMAIN index \ {object[First].key})
           /\ tasks' = tasks - 1
           /\ schedule' = {s \in schedule : object[s].uid # object[First].uid}
           /\ TypeInv' /\ FewIssued'
  <1>1. /\ job.op = "remove" /\ job.rest # << >> /\ job' = Advanced
        /\ issued' = issued /\ collided' = collided /\ refused' = refused
        /\ object' = [object EXCEPT ![First].state = "done"]
        /\ ruleDB' = Restrict(ruleDB, DOMAIN ruleDB \ {object[First].uid})
        /\ index' = Restrict(index, DOMAIN index \ {object[First].key})
        /\ tasks' = tasks - 1
        /\ schedule' = {s \in schedule : object[s].uid # object[First].uid}
    BY DEF RemoveNext, IndexWithout, WithoutNumber
  <1>2. source' = source /\ Retires
    BY Zenon DEF RemoveNext, Retires, Ids!AfterFreeId
  <1>3. First \in DOMAIN object
    BY <1>1, FirstOf DEF TypeInv
  <1>4. Works /\ object'[First].state = "done"
    BY <1>1, <1>2, <1>3, MarkEffect DEF Works, TypeInv
  <1>5. Known' \subseteq Known
    <2>1. DOMAIN ruleDB' \subseteq DOMAIN ruleDB /\ \A u \in DOMAIN ruleDB' : ruleDB'[u] = ruleDB[u]
      <3>1. ruleDB' = Restrict(ruleDB, DOMAIN ruleDB \ {object[First].uid})
        BY <1>1
      <3> QED BY <3>1 DEF Restrict
    <2> QED BY <2>1 DEF Known
  <1>6. Listed(ruleDone')
    <2> DEFINE done == Append(ruleDone, First)
    <2>1. Sequence(done) /\ ToSet(done) = ToSet(ruleDone) \cup {First} /\ done # << >>
      <3>1. /\ Sequence(done) /\ ToSet(done) = ToSet(ruleDone) \cup {First}
            /\ Len(done) = Len(ruleDone) + 1 /\ Len(ruleDone) \in Nat
        BY AppendSequence DEF TypeInv, Listed, Sequence
      <3> QED BY <3>1, EmptySequence
    <2>2. Listed(done)
      BY <1>3, <2>1 DEF TypeInv, Listed
    <2>3. Sequence(Tail(done)) /\ ToSet(Tail(done)) \subseteq ToSet(done)
      <3> HIDE DEF done
      <3> QED BY <2>1, TailSequence
    <2> QED BY <1>2, <2>2, <2>3 DEF Retires, Listed
  <1>7. Known' \subseteq DOMAIN object /\ schedule' \subseteq DOMAIN object
    BY <1>1, <1>5 DEF TypeInv
  <1>8. TypeInv' /\ FewIssued'
    BY <1>1, <1>4, <1>6, <1>7, WorksTyped
  <1> QED BY <1>1, <1>2, <1>4, <1>8

-----------------------------------------------------------------------------
(* Until a number comes round, every object is at one place, the lists that  *)
(* are worked off have nothing twice, and the two ways to a rule agree.      *)

Apart ==
    /\ DOMAIN object = InHand \cup Known \cup Kept \cup freed \cup refused
    /\ InHand \cap Known = {} /\ InHand \cap Kept = {}
    /\ InHand \cap freed = {} /\ InHand \cap refused = {}
    /\ Known \cap Kept = {} /\ Known \cap freed = {} /\ Known \cap refused = {}
    /\ Kept \cap freed = {} /\ Kept \cap refused = {} /\ freed \cap refused = {}

Lists ==
    /\ Distinct(ruleDone) /\ schedule \subseteq Known
    /\ job.op \in {"parse", "check"} => Distinct(job.batch)
    /\ job.op = "check" => ToSet(job.rest) \subseteq ToSet(job.batch)
    /\ job.op \in {"add", "remove"} => Distinct(job.rest)
    /\ job.op = "remove" => ToSet(job.rest) \subseteq Known

OwnUid == \A s, t \in Known \cup InHand : object[s].uid = object[t].uid => s = t
ByNumber ==
    \A u \in DOMAIN ruleDB :
      /\ object[ruleDB[u]].uid = u
      /\ object[ruleDB[u]].key \in DOMAIN index /\ index[object[ruleDB[u]].key] = u
ByName ==
    \A k \in DOMAIN index :
      index[k] \in DOMAIN ruleDB /\ object[ruleDB[index[k]]].key = k
Counted == tasks = Cardinality(Known) /\ \A s \in Known : object[s].state = "valid"
Ways == OwnUid /\ ByNumber /\ ByName /\ Counted

Sound == Apart /\ Lists /\ Ways
IInv == TypeInv /\ FewIssued /\ (~collided => Sound)

LEMMA HandNext ==
    /\ job'.op \in {"parse", "check", "loops"} => InHand' = ToSet(job'.batch)
    /\ job'.op = "add" => InHand' = ToSet(job'.rest)
    /\ job'.op \in {"none", "remove"} => InHand' = {}
  BY DEF InHand

LEMMA InitSound == Init => Sound
  <1> SUFFICES ASSUME Init PROVE Sound
    OBVIOUS
  <1>1. /\ object = << >> /\ ruleDone = << >> /\ schedule = {} /\ job = NoJob
        /\ freed = {} /\ refused = {} /\ ruleDB = << >> /\ index = << >> /\ tasks = 0
    BY DEF Init
  <1>2. job.op = "none" /\ InHand = {}
    BY <1>1, HandAt DEF NoJob
  <1>3. DOMAIN object = {} /\ DOMAIN ruleDB = {} /\ DOMAIN index = {}
    BY <1>1
  <1>4. Known = {} /\ Kept = {} /\ Distinct(ruleDone)
    BY <1>1, <1>3, EmptySequence DEF Known, Kept
  <1>5. Apart
    BY <1>1, <1>2, <1>3, <1>4 DEF Apart
  <1>6. Lists
    BY <1>1, <1>2, <1>4 DEF Lists
  <1>7. Cardinality({}) = 0
    BY FS_EmptySet
  <1>8. Ways
    BY <1>1, <1>2, <1>3, <1>4, <1>7 DEF Ways, OwnUid, ByNumber, ByName, Counted
  <1> QED BY <1>5, <1>6, <1>8 DEF Sound

\* The ways to the rules stay, when registry and rules do and what is in the
\* request's hands gets no more.
LEMMA WaysKept ==
    ASSUME Ways, UNCHANGED << ruleDB, index, tasks >>, InHand' \subseteq InHand,
           Known \cup InHand \subseteq DOMAIN object,
           \A s \in DOMAIN object :
             object'[s].uid = object[s].uid /\ object'[s].key = object[s].key,
           \A s \in Known : object'[s].state = object[s].state
    PROVE  Ways' /\ Known' = Known
  <1>1. Known' = Known /\ \A u \in DOMAIN ruleDB : ruleDB[u] \in Known
    BY DEF Known
  <1>2. OwnUid'
    BY <1>1 DEF Ways, OwnUid
  <1>3. ByNumber'
    BY <1>1 DEF Ways, ByNumber
  <1>4. ByName'
    BY <1>1 DEF Ways, ByName
  <1>5. Counted'
    BY <1>1 DEF Ways, Counted
  <1> QED BY <1>1, <1>2, <1>3, <1>4, <1>5 DEF Ways

\* All that is anywhere is an object.
LEMMA Placed ==
    ASSUME Apart
    PROVE  InHand \cup Known \cup Kept \cup freed \cup refused \subseteq DOMAIN object
  BY DEF Apart

LEMMA MakesSound ==
    ASSUME TypeInv, FewIssued, Sound, NEW o, Makes(o), ~collided'
    PROVE  Sound'
  <1> DEFINE n == Len(object) + 1
  <1>1. /\ DOMAIN object' = DOMAIN object \cup {n} /\ n \notin DOMAIN object
        /\ object'[n] = o /\ \A s \in DOMAIN object : object'[s] = object[s]
    BY MakesTyped
  <1>2. /\ job.op = "parse" /\ job'.op = "parse" /\ job'.batch = Append(job.batch, n)
        /\ UNCHANGED << ruleDB, index, tasks, ruleDone, schedule, freed, refused >>
    BY DEF Makes, Registry
  <1> HIDE DEF n
  <1>3. Listed(job.batch) /\ InHand = ToSet(job.batch)
    BY <1>2, JobAt, HandAt DEF TypeInv
  <1>4. /\ ToSet(job'.batch) = ToSet(job.batch) \cup {n}
        /\ Distinct(job.batch) /\ n \notin ToSet(job.batch) => Distinct(job'.batch)
    BY <1>2, <1>3, AppendSequence DEF Listed
  <1>5. InHand' = InHand \cup {n} /\ Known' = Known /\ Kept' = Kept
    BY <1>2, <1>3, <1>4, HandNext DEF Known, Kept
  <1>6. InHand \cup Known \cup Kept \cup freed \cup refused \subseteq DOMAIN object
    BY Placed DEF Sound
  <1>7. Apart'
    BY <1>1, <1>2, <1>5, <1>6 DEF Sound, Apart
  <1>8. Lists'
    <2>1. Distinct(job.batch) /\ n \notin ToSet(job.batch)
      BY <1>1, <1>2, <1>3, <1>6 DEF Sound, Lists
    <2> QED BY <1>2, <1>4, <1>5, <2>1 DEF Sound, Lists
  <1>9. Ways'
    <2>1. \A s \in Known \cup InHand : object'[s] = object[s] /\ object[s].uid # o.uid
      BY <1>1, <1>6 DEF Makes
    <2>2. \A u \in DOMAIN ruleDB : ruleDB[u] \in Known
      BY DEF Known
    <2>3. OwnUid'
      BY <1>1, <1>5, <2>1 DEF Sound, Ways, OwnUid
    <2>4. ByNumber'
      BY <1>2, <2>1, <2>2 DEF Sound, Ways, ByNumber
    <2>5. ByName'
      BY <1>2, <2>1, <2>2 DEF Sound, Ways, ByName
    <2>6. Counted'
      BY <1>2, <1>5, <2>1 DEF Sound, Ways, Counted
    <2> QED BY <2>3, <2>4, <2>5, <2>6 DEF Ways
  <1> QED BY <1>7, <1>8, <1>9 DEF Sound

LEMMA FailsSound ==
    ASSUME TypeInv, Sound, Fails1
    PROVE  Sound'
  <1>1. /\ job.op = "parse" /\ job' = NoJob /\ object' = object
        /\ UNCHANGED << ruleDB, index, tasks, ruleDone, schedule, refused >>
        /\ freed' = freed \cup ToSet(job.batch)
    BY DEF Fails1, Registry
  <1>2. InHand = ToSet(job.batch) /\ InHand' = {} /\ job'.op = "none"
    BY <1>1, HandAt, HandNext DEF NoJob
  <1>3. InHand \cup Known \cup Kept \cup freed \cup refused \subseteq DOMAIN object
    BY Placed DEF Sound
  <1>4. Ways' /\ Known' = Known
    BY <1>1, <1>2, <1>3, WaysKept DEF Sound
  <1>5. Kept' = Kept
    BY <1>1 DEF Kept
  <1>6. Apart'
    BY <1>1, <1>2, <1>4, <1>5 DEF Sound, Apart
  <1>7. Lists'
    BY <1>1, <1>2, <1>4 DEF Sound, Lists
  <1> QED BY <1>4, <1>6, <1>7 DEF Sound

LEMMA StaysSound ==
    ASSUME TypeInv, Sound, Stays
    PROVE  Sound'
  <1>1. /\ job.op = "parse" /\ job'.op = "loops" /\ job'.batch = job.batch /\ object' = object
        /\ UNCHANGED << ruleDB, index, tasks, ruleDone, schedule, freed, refused >>
    BY DEF Stays, Registry
  <1>2. InHand' = InHand
    BY <1>1, HandAt, HandNext
  <1>3. InHand \cup Known \cup Kept \cup freed \cup refused \subseteq DOMAIN object
    BY Placed DEF Sound
  <1>4. Ways' /\ Known' = Known
    BY <1>1, <1>2, <1>3, WaysKept DEF Sound
  <1>5. Kept' = Kept
    BY <1>1 DEF Kept
  <1>6. Apart'
    BY <1>1, <1>2, <1>4, <1>5 DEF Sound, Apart
  <1>7. Lists'
    BY <1>1, <1>2, <1>4 DEF Sound, Lists
  <1> QED BY <1>4, <1>6, <1>7 DEF Sound

LEMMA TurnsSound ==
    ASSUME TypeInv, Sound, Turns
    PROVE  Sound'
  <1>1. /\ object' = object
        /\ UNCHANGED << ruleDB, index, tasks, ruleDone, schedule, freed, refused >>
    BY DEF Turns, Registry
  <1>2. Known' = Known /\ Kept' = Kept
    BY <1>1 DEF Known, Kept
  <1>3. InHand' = InHand /\ Lists'
    <2>1. CASE job' = job
      BY <1>1, <1>2, <2>1 DEF InHand, Sound, Lists
    <2>2. CASE job.op = "none" /\ job'.op = "parse" /\ job'.batch = << >>
      BY <1>1, <1>2, <2>2, HandAt, HandNext, EmptySequence DEF Sound, Lists
    <2>3. CASE job.op = "parse" /\ job' = [op |-> "check", batch |-> job.batch, rest |-> job.batch]
      BY <1>1, <1>2, <2>3, HandAt, HandNext DEF Sound, Lists
    <2>4. CASE /\ job.op = "check"
               /\ job' = [op |-> "add", batch |-> job.batch, rest |-> job.batch]
      BY <1>1, <1>2, <2>4, HandAt, HandNext DEF Sound, Lists
    <2>5. CASE job.op \in {"add", "remove"} /\ job.rest = << >> /\ job' = NoJob
      <3>1. InHand = {}
        BY <2>5, HandAt, EmptySequence
      <3>2. job'.op = "none"
        BY <2>5 DEF NoJob
      <3> QED BY <1>1, <1>2, <3>1, <3>2, HandNext DEF Sound, Lists
    <2>6. ASSUME NEW q, job.op = "none", Distinct(q), ToSet(q) \subseteq Known \cup schedule,
                 job' = [op |-> "remove", rest |-> q]
          PROVE  InHand' = InHand /\ Lists'
      BY <1>1, <1>2, <2>6, HandAt, HandNext DEF Sound, Lists
    <2> QED BY <2>1, <2>2, <2>3, <2>4, <2>5, <2>6 DEF Turns
  <1>4. InHand \cup Known \cup Kept \cup freed \cup refused \subseteq DOMAIN object
    BY Placed DEF Sound
  <1>5. Ways'
    BY <1>1, <1>3, <1>4, WaysKept DEF Sound
  <1>6. Apart'
    BY <1>1, <1>2, <1>3 DEF Sound, Apart
  <1> QED BY <1>3, <1>5, <1>6 DEF Sound

LEMMA CheckSound ==
    ASSUME TypeInv, FewIssued, Sound, CheckNext
    PROVE  Sound'
  <1>1. /\ Works /\ job.op = "check" /\ job' = Advanced
        /\ UNCHANGED << ruleDB, index, tasks, ruleDone, schedule, freed, refused >>
    BY CheckEffect DEF Registry
  <1>2. /\ Advanced = [op |-> job.op, batch |-> job.batch, rest |-> Tail(job.rest)]
        /\ ToSet(job.rest) = {First} \cup ToSet(Tail(job.rest))
    BY <1>1, JobAt, FirstOf DEF TypeInv, Works
  <1>3. InHand = ToSet(job.batch) /\ InHand' = InHand
    BY <1>1, <1>2, HandAt, HandNext
  <1>4. First \in InHand
    BY <1>1, <1>2, <1>3 DEF Sound, Lists
  <1>5. InHand \cup Known \cup Kept \cup freed \cup refused \subseteq DOMAIN object
    BY Placed DEF Sound
  <1>6. First \notin Known
    BY <1>4 DEF Sound, Apart
  <1>7. Ways' /\ Known' = Known
    BY <1>1, <1>3, <1>5, <1>6, WaysKept DEF Sound, Works
  <1>8. Kept' = Kept /\ DOMAIN object' = DOMAIN object
    BY <1>1 DEF Kept, Works
  <1>9. Apart'
    BY <1>1, <1>3, <1>7, <1>8 DEF Sound, Apart
  <1>10. Lists'
    BY <1>1, <1>2, <1>7 DEF Sound, Lists
  <1> QED BY <1>7, <1>9, <1>10 DEF Sound

LEMMA PassSound ==
    ASSUME TypeInv, FewIssued, Sound, PassOver
    PROVE  Sound'
  <1>1. /\ Works /\ job.op = "add" /\ job' = Advanced /\ refused' = refused \cup {First}
        /\ UNCHANGED << object, ruleDB, index, tasks, ruleDone, schedule, freed >>
    BY PassEffect DEF Registry
  <1>2. /\ Advanced = [op |-> job.op, batch |-> job.batch, rest |-> Tail(job.rest)]
        /\ ToSet(job.rest) = {First} \cup ToSet(Tail(job.rest))
        /\ Distinct(Tail(job.rest)) /\ First \notin ToSet(Tail(job.rest))
    BY <1>1, JobAt, FirstOf DEF TypeInv, Works, Sound, Lists
  <1>3. InHand = {First} \cup InHand' /\ First \notin InHand'
    BY <1>1, <1>2, HandAt, HandNext
  <1>4. InHand \cup Known \cup Kept \cup freed \cup refused \subseteq DOMAIN object
    BY Placed DEF Sound
  <1>5. Ways' /\ Known' = Known
    BY <1>1, <1>3, <1>4, WaysKept DEF Sound
  <1>6. Kept' = Kept
    BY <1>1 DEF Kept
  <1>7. Apart'
    BY <1>1, <1>3, <1>5, <1>6 DEF Sound, Apart
  <1>8. Lists'
    BY <1>1, <1>2, <1>5 DEF Sound, Lists
  <1> QED BY <1>5, <1>7, <1>8 DEF Sound

LEMMA DropsSound ==
    ASSUME TypeInv, Sound, Works, job.op = "add", UNCHANGED << object, refused >>, Drops
    PROVE  Sound'
  <1>1. /\ freed' = freed \cup {First}
        /\ UNCHANGED << ruleDB, index, tasks, ruleDone, schedule >>
    BY DEF Drops, Registry
  <1>2. /\ Advanced = [op |-> job.op, batch |-> job.batch, rest |-> Tail(job.rest)]
        /\ ToSet(job.rest) = {First} \cup ToSet(Tail(job.rest))
        /\ Distinct(Tail(job.rest)) /\ First \notin ToSet(Tail(job.rest))
    BY JobAt, FirstOf DEF TypeInv, Works, Sound, Lists
  <1>3. /\ InHand = {First} \cup InHand' /\ First \notin InHand'
        /\ job'.op \in {"add", "none"} /\ (job'.op = "add" => job'.rest = Tail(job.rest))
    <2>1. CASE job' = Advanced
      BY <1>2, <2>1, HandAt, HandNext
    <2>2. CASE job' = NoJob /\ Tail(job.rest) = << >>
      BY <1>2, <2>2, HandAt, HandNext, EmptySequence DEF NoJob
    <2> QED BY <2>1, <2>2 DEF Drops
  <1>4. InHand \cup Known \cup Kept \cup freed \cup refused \subseteq DOMAIN object
    BY Placed DEF Sound
  <1>5. Ways' /\ Known' = Known
    BY <1>1, <1>3, <1>4, WaysKept DEF Sound
  <1>6. Kept' = Kept
    BY <1>1 DEF Kept
  <1>7. Apart'
    BY <1>1, <1>3, <1>5, <1>6 DEF Sound, Apart
  <1>8. Lists'
    BY <1>1, <1>2, <1>3, <1>5 DEF Sound, Lists
  <1> QED BY <1>5, <1>7, <1>8 DEF Sound

\* The registered rules are finitely many.
LEMMA FewKnown == ASSUME TypeInv PROVE IsFiniteSet(Known) /\ Cardinality(Known) \in Nat
  <1>1. DOMAIN object = 1 .. Len(object) /\ Len(object) \in Nat
    BY DEF TypeInv, ObjectsOK, Sequence
  <1>2. IsFiniteSet(1 .. Len(object))
    BY <1>1, FS_Interval
  <1>3. IsFiniteSet(Known)
    BY <1>1, <1>2, FS_Subset DEF TypeInv
  <1> QED BY <1>3, FS_CardinalityType

\* A name without an entry that leads somewhere has no entry at all.
LEMMA TakenIsNamed ==
    ASSUME Sound
    PROVE  Taken(First) <=> object[First].key \in DOMAIN index
  BY DEF Taken, Found, Sound, Ways, ByName

LEMMA EntersSound ==
    ASSUME TypeInv, Sound, Works, job.op = "add", object[First].state = "valid",
           UNCHANGED << object, refused >>, Enters
    PROVE  Sound'
  <1> DEFINE uid == object[First].uid
             key == object[First].key
  <1>1. /\ ruleDB' = Entered(ruleDB, uid, First) /\ index' = Entered(index, key, uid)
        /\ tasks' = tasks + 1 /\ schedule' \subseteq schedule \cup {First}
        /\ job' = Advanced /\ UNCHANGED << object, ruleDone, freed, refused >>
    BY DEF Enters
  <1>2. /\ Advanced = [op |-> job.op, batch |-> job.batch, rest |-> Tail(job.rest)]
        /\ ToSet(job.rest) = {First} \cup ToSet(Tail(job.rest))
        /\ Distinct(Tail(job.rest)) /\ First \notin ToSet(Tail(job.rest))
    BY JobAt, FirstOf DEF TypeInv, Works, Sound, Lists
  <1>3. InHand = {First} \cup InHand' /\ First \notin InHand'
    BY <1>1, <1>2, HandAt, HandNext
  <1>4. First \notin Known /\ \A u \in DOMAIN ruleDB : ruleDB[u] \in Known
    BY <1>3 DEF Sound, Apart, Known
  <1>5. uid \notin DOMAIN ruleDB
    BY <1>3, <1>4 DEF Sound, Ways, OwnUid, ByNumber
  <1>6. key \notin DOMAIN index
    BY TakenIsNamed DEF Enters
  <1>7. /\ DOMAIN ruleDB' = DOMAIN ruleDB \cup {uid} /\ ruleDB'[uid] = First
        /\ \A u \in DOMAIN ruleDB : ruleDB'[u] = ruleDB[u]
    BY <1>1, <1>5 DEF Entered
  <1>8. /\ DOMAIN index' = DOMAIN index \cup {key} /\ index'[key] = uid
        /\ \A k \in DOMAIN index : index'[k] = index[k]
    BY <1>1, <1>6 DEF Entered
  <1>9. Known' = Known \cup {First} /\ Kept' = Kept
    BY <1>1, <1>7 DEF Known, Kept
  <1>10. Apart'
    BY <1>1, <1>3, <1>9 DEF Sound, Apart
  <1>11. Lists'
    BY <1>1, <1>2, <1>9 DEF Sound, Lists
  <1>12. OwnUid'
    BY <1>1, <1>3, <1>9 DEF Sound, Ways, OwnUid
  <1>13. ByNumber'
    BY <1>1, <1>5, <1>6, <1>7, <1>8 DEF Sound, Ways, ByNumber
  <1>14. ByName'
    BY <1>1, <1>5, <1>6, <1>7, <1>8 DEF Sound, Ways, ByName
  <1>15. Counted'
    <2>1. Cardinality(Known \cup {First}) = Cardinality(Known) + 1
      BY <1>4, FewKnown, FS_AddElement
    <2> QED BY <1>1, <1>9, <2>1 DEF Sound, Ways, Counted
  <1> QED BY <1>10, <1>11, <1>12, <1>13, <1>14, <1>15 DEF Sound, Ways

LEMMA RemoveSound ==
    ASSUME TypeInv, FewIssued, Sound, RemoveNext
    PROVE  Sound'
  <1> DEFINE uid == object[First].uid
             key == object[First].key
             done == Append(ruleDone, First)
  <1>1. /\ Works /\ job.op = "remove" /\ job' = Advanced /\ refused' = refused /\ Retires
        /\ ruleDB' = Restrict(ruleDB, DOMAIN ruleDB \ {uid})
        /\ index' = Restrict(index, DOMAIN index \ {key})
        /\ tasks' = tasks - 1
        /\ schedule' = {s \in schedule : object[s].uid # uid}
    BY RemoveEffect
  <1>2. /\ Advanced = [op |-> job.op, rest |-> Tail(job.rest)]
        /\ ToSet(job.rest) = {First} \cup ToSet(Tail(job.rest))
        /\ Distinct(Tail(job.rest)) /\ First \notin ToSet(Tail(job.rest))
    BY <1>1, JobAt, FirstOf DEF TypeInv, Works, Sound, Lists
  <1>3. InHand = {} /\ InHand' = {}
    BY <1>1, <1>2, HandAt, HandNext
  <1>4. First \in Known /\ \A u \in DOMAIN ruleDB : ruleDB[u] \in Known
    BY <1>1, <1>2 DEF Sound, Lists, Known
  <1>5. Known \subseteq DOMAIN object
    BY DEF TypeInv
  <1>6. /\ DOMAIN object' = DOMAIN object
        /\ \A s \in DOMAIN object :
             /\ object'[s].uid = object[s].uid /\ object'[s].key = object[s].key
             /\ s # First => object'[s] = object[s]
    BY <1>1 DEF Works
  <1>7. /\ DOMAIN ruleDB' = DOMAIN ruleDB \ {uid}
        /\ \A u \in DOMAIN ruleDB' : ruleDB'[u] = ruleDB[u]
        /\ DOMAIN index' = DOMAIN index \ {key}
        /\ \A k \in DOMAIN index' : index'[k] = index[k]
    BY <1>1 DEF Restrict
  <1>8. \A u \in DOMAIN ruleDB : u = uid <=> ruleDB[u] = First
    BY <1>4 DEF Sound, Ways, OwnUid, ByNumber
  <1>9. Known' = Known \ {First}
    BY <1>7, <1>8 DEF Known
  <1>10. /\ Distinct(ruleDone') /\ Kept' \cup freed' = Kept \cup freed \cup {First}
         /\ Kept' \cap freed' = {}
    <2>1. Sequence(ruleDone) /\ Distinct(ruleDone) /\ First \notin ToSet(ruleDone)
      BY <1>4 DEF TypeInv, Listed, Sound, Lists, Apart, Kept
    <2>2. /\ Sequence(done) /\ ToSet(done) = Kept \cup {First} /\ Distinct(done)
          /\ Len(done) # 0
      <3>1. Len(done) = Len(ruleDone) + 1 /\ Len(ruleDone) \in Nat
        BY <2>1, AppendSequence DEF Sequence
      <3> QED BY <2>1, <3>1, AppendSequence DEF Kept
    <2> HIDE DEF done
    <2>3. /\ ToSet(done) = {Head(done)} \cup ToSet(Tail(done))
          /\ Distinct(Tail(done)) /\ Head(done) \notin ToSet(Tail(done))
      BY <2>2, TailSequence, EmptySequence
    <2>4. First \notin freed /\ Kept \cap freed = {}
      BY <1>4 DEF Sound, Apart
    <2>5. CASE ruleDone' = done /\ freed' = freed
      BY <2>2, <2>4, <2>5 DEF Kept
    <2>6. CASE ruleDone' = Tail(done) /\ freed' = freed \cup {Head(done)}
      <3>1. Kept' = ToSet(Tail(done))
        BY <2>6 DEF Kept
      <3> QED BY <2>2, <2>3, <2>4, <2>6, <3>1
    <2> QED BY <1>1, <2>5, <2>6 DEF Retires, done
  <1>11. Apart'
    BY <1>1, <1>3, <1>4, <1>6, <1>9, <1>10 DEF Sound, Apart
  <1>12. Lists'
    <2>1. schedule' \subseteq Known \ {First}
      BY <1>1 DEF Sound, Lists
    <2> QED BY <1>1, <1>2, <1>9, <1>10, <2>1 DEF Sound, Lists
  <1>13. OwnUid'
    BY <1>3, <1>5, <1>6, <1>9 DEF Sound, Ways, OwnUid
  <1>14. ByNumber'
    <2>1. \A u \in DOMAIN ruleDB : /\ object[ruleDB[u]].uid = u
                                    /\ object[ruleDB[u]].key \in DOMAIN index
                                    /\ index[object[ruleDB[u]].key] = u
      BY DEF Sound, Ways, ByNumber
    <2>2. uid \in DOMAIN ruleDB /\ ruleDB[uid] = First
      BY <1>4, <1>8 DEF Known
    <2>3. \A u \in DOMAIN ruleDB' : u # uid /\ object[ruleDB[u]].key # key
      BY <1>7, <2>1, <2>2
    <2>4. \A u \in DOMAIN ruleDB' : /\ object'[ruleDB'[u]].uid = u
                                     /\ object'[ruleDB'[u]].key = object[ruleDB[u]].key
      BY <1>4, <1>5, <1>6, <1>7, <2>1
    <2> QED BY <1>7, <2>1, <2>3, <2>4 DEF ByNumber
  <1>15. ByName'
    <2>1. \A k \in DOMAIN index : index[k] \in DOMAIN ruleDB /\ object[ruleDB[index[k]]].key = k
      BY DEF Sound, Ways, ByName
    <2>2. \A k \in DOMAIN index' : index[k] # uid
      BY <1>7, <1>8, <2>1
    <2> QED BY <1>4, <1>5, <1>6, <1>7, <2>1, <2>2 DEF ByName
  <1>16. Counted'
    <2>1. Cardinality(Known \ {First}) = Cardinality(Known) - 1
      BY <1>4, FewKnown, FS_RemoveElement
    <2> QED BY <1>1, <1>5, <1>6, <1>9, <2>1 DEF Sound, Ways, Counted
  <1> QED BY <1>11, <1>12, <1>13, <1>14, <1>15, <1>16 DEF Sound, Ways

-----------------------------------------------------------------------------
(* The inductive invariant *)

LEMMA NextIInv == IInv /\ [Next]_vars => IInv'
  <1> SUFFICES ASSUME IInv, [Next]_vars PROVE IInv'
    OBVIOUS
  <1> USE DEF IInv
  <1>1. CASE ParseElement \/ ParseLine
    <2>1. (\E o : Makes(o)) \/ Fails1 \/ Stays
      BY <1>1, ParseEffect
    <2>2. ASSUME NEW o, Makes(o) PROVE IInv'
      <3>1. collided => collided'
        BY <2>2 DEF Makes
      <3> QED BY <2>2, <3>1, MakesTyped, MakesSound
    <2>3. CASE Fails1
      <3>1. collided' = collided
        BY <2>3 DEF Fails1
      <3> QED BY <2>3, <3>1, FailsTyped, FailsSound
    <2>4. CASE Stays
      <3>1. collided' = collided
        BY <2>4 DEF Stays
      <3> QED BY <2>4, <3>1, StaysTyped, StaysSound
    <2> QED BY <2>1, <2>2, <2>3, <2>4
  <1>2. CASE CheckNext
    BY <1>2, CheckEffect, CheckSound DEF Works
  <1>3. CASE AddRule
    <2>1. /\ Works /\ job.op = "add" /\ object[First].state = "valid" /\ UNCHANGED << object, refused >>
          /\ Drops \/ Enters
          /\ TypeInv' /\ FewIssued'
      BY <1>3, AddEffect
    <2>2. ASSUME ~collided PROVE Sound'
      BY <2>1, <2>2, DropsSound, EntersSound
    <2> QED BY <2>1, <2>2 DEF Works
  <1>4. CASE PassOver
    BY <1>4, PassEffect, PassSound DEF Works
  <1>5. CASE RemoveNext
    BY <1>5, RemoveEffect, RemoveSound DEF Works
  <1>6. CASE \/ Begin \/ ParsedAll \/ CheckedAll \/ AddedAll
             \/ RemoveRule \/ RemoveSet \/ RemoveDue \/ Tick \/ UNCHANGED vars
    <2>1. Turns
      BY <1>6, TurnsEffect
    <2>2. collided' = collided
      BY <2>1 DEF Turns
    <2> QED BY <2>1, <2>2, TurnsTyped, TurnsSound
  <1> QED BY <1>1, <1>2, <1>3, <1>4, <1>5, <1>6 DEF Next

LEMMA IInvHolds == Spec => []IInv
  <1>1. Init => IInv
    BY InitTyped, InitSound DEF IInv
  <1> QED BY <1>1, NextIInv, PTL DEF Spec

\* The types of a run: the objects with all their fields and a number nobody
\* reserved, the lists of objects that exist, the request in one of its forms,
\* a source of numbers that never queues one.
THEOREM TypeCorrect == Spec => []TypeInv
  BY IInvHolds, PTL DEF IInv

\* Names and numbers lead to the rules that bear them, and a number comes round
\* only after all of them were issued, however long the daemon runs and
\* whatever is in the requests.
THEOREM WaysAgree == Spec => []FindsOwn
  <1>1. ASSUME IInv PROVE FindsOwn
    <2>1. collided => issued > Cardinality(Ids!RuleIds)
      BY <1>1, ManyIds DEF IInv, FewIssued, TypeInv, SourceOK
    <2>2. ASSUME ~collided
          PROVE  /\ \A key \in DOMAIN index : \E r \in Found(key) : object[r].key = key
                 /\ \A u \in DOMAIN ruleDB :
                      /\ object[ruleDB[u]].uid = u
                      /\ u \notin {0, 1, Top}
                      /\ Found(object[ruleDB[u]].key) = {ruleDB[u]}
      <3>1. ByNumber /\ ByName
        BY <1>1, <2>2 DEF IInv, Sound, Ways
      <3>2. ASSUME NEW u \in DOMAIN ruleDB PROVE u \notin {0, 1, Top}
        <4>1. ruleDB[u] \in DOMAIN object /\ object[ruleDB[u]].uid = u
          BY <1>1, <3>1 DEF IInv, TypeInv, Known, ByNumber
        <4>2. u \in Ids!RuleIds
          BY <1>1, <4>1 DEF IInv, TypeInv, ObjectsOK
        <4> QED BY <4>2 DEF Ids!RuleIds, Ids!Reserved
      <3> QED BY <3>1, <3>2 DEF ByNumber, ByName, Found
    <2> QED BY <2>1, <2>2 DEF FindsOwn
  <1> QED BY <1>1, IInvHolds, PTL

\* No Rule object is forgotten or held twice: every one a request made is in
\* its hands, registered, kept as done, deleted or left by a failed check, and
\* at no two of these places; the schedule waits for registered rules only.
THEOREM PlacesKept == Spec => []NoneLost
  <1>1. ASSUME IInv PROVE NoneLost
    <2> SUFFICES ASSUME ~collided
                 PROVE  /\ DOMAIN object = InHand \cup Known \cup Kept \cup freed \cup refused
                        /\ \A s \in DOMAIN object :
                             Cardinality({p \in {"hand", "db", "done", "freed", "refused"} :
                                 CASE p = "hand" -> s \in InHand
                                   [] p = "db" -> s \in Known
                                   [] p = "done" -> s \in Kept
                                   [] p = "freed" -> s \in freed
                                   [] OTHER -> s \in refused}) = 1
                        /\ schedule \subseteq Known
      BY DEF NoneLost
    <2>1. Apart /\ schedule \subseteq Known
      BY <1>1 DEF IInv, Sound, Lists
    <2>2. ASSUME NEW s \in DOMAIN object
          PROVE  Cardinality({p \in {"hand", "db", "done", "freed", "refused"} :
                                 CASE p = "hand" -> s \in InHand
                                   [] p = "db" -> s \in Known
                                   [] p = "done" -> s \in Kept
                                   [] p = "freed" -> s \in freed
                                   [] OTHER -> s \in refused}) = 1
      <3> DEFINE Places == {p \in {"hand", "db", "done", "freed", "refused"} :
                                 CASE p = "hand" -> s \in InHand
                                   [] p = "db" -> s \in Known
                                   [] p = "done" -> s \in Kept
                                   [] p = "freed" -> s \in freed
                                   [] OTHER -> s \in refused}
      <3>1. \/ s \in InHand /\ s \notin Known \cup Kept \cup freed \cup refused
            \/ s \in Known /\ s \notin InHand \cup Kept \cup freed \cup refused
            \/ s \in Kept /\ s \notin InHand \cup Known \cup freed \cup refused
            \/ s \in freed /\ s \notin InHand \cup Known \cup Kept \cup refused
            \/ s \in refused /\ s \notin InHand \cup Known \cup Kept \cup freed
        BY <2>1 DEF Apart
      <3>2. \E p : Places = {p}
        <4>1. CASE s \in InHand /\ s \notin Known \cup Kept \cup freed \cup refused
          <5>1. Places = {"hand"}
            BY <4>1
          <5> QED BY <5>1
        <4>2. CASE s \in Known /\ s \notin InHand \cup Kept \cup freed \cup refused
          <5>1. Places = {"db"}
            BY <4>2
          <5> QED BY <5>1
        <4>3. CASE s \in Kept /\ s \notin InHand \cup Known \cup freed \cup refused
          <5>1. Places = {"done"}
            BY <4>3
          <5> QED BY <5>1
        <4>4. CASE s \in freed /\ s \notin InHand \cup Known \cup Kept \cup refused
          <5>1. Places = {"freed"}
            BY <4>4
          <5> QED BY <5>1
        <4>5. CASE s \in refused /\ s \notin InHand \cup Known \cup Kept \cup freed
          <5>1. Places = {"refused"}
            BY <4>5
          <5> QED BY <5>1
        <4> QED BY <3>1, <4>1, <4>2, <4>3, <4>4, <4>5
      <3> HIDE DEF Places
      <3> QED BY <3>2, FS_Singleton DEF Places
    <2> QED BY <2>1, <2>2 DEF Apart
  <1> QED BY <1>1, IInvHolds, PTL

-----------------------------------------------------------------------------
(* What get_info tells *)

\* Every nonempty set of numbers up to N has a greatest one.
LEMMA Greatest ==
    ASSUME NEW N \in Nat, NEW T \in SUBSET (1 .. N), T # {}
    PROVE  Max(T) \in T /\ \A n \in T : n <= Max(T)
  <1> DEFINE R == {ss \in Nat \X Nat : ss[1] < ss[2]}
             D == {N - n : n \in T}
  <1>1. D \subseteq Nat /\ D # {}
    <2>1. \A n \in T : N - n \in Nat
      <3> SUFFICES ASSUME NEW n \in T PROVE N - n \in Nat
        OBVIOUS
      <3>1. n \in 1 .. N
        OBVIOUS
      <3> QED BY <3>1
    <2> QED BY <2>1
  <1>2. IsWellFoundedOn(R, Nat)
    BY NatLessThanWellFounded DEF OpToRel
  <1>3. \E d \in D : \A e \in D : ~ (<< e, d >> \in R)
    <2> HIDE DEF R, D
    <2> QED BY <1>1, <1>2, WFMin
  <1>4. PICK d \in D : \A e \in D : ~ (<< e, d >> \in R)
    BY <1>3
  <1>5. \A e \in D : d <= e
    <2> SUFFICES ASSUME NEW e \in D PROVE d <= e
      OBVIOUS
    <2>1. e \in Nat /\ d \in Nat /\ ~ (e < d)
      BY <1>1, <1>4
    <2> QED BY <2>1
  <1>6. PICK m \in T : d = N - m
    OBVIOUS
  <1>7. \A n \in T : m >= n
    <2> SUFFICES ASSUME NEW n \in T PROVE m >= n
      OBVIOUS
    <2>1. N - m <= N - n /\ n \in 1 .. N /\ m \in 1 .. N
      BY <1>5, <1>6
    <2> QED BY <2>1
  <1>8. \E x \in T : \A y \in T : x >= y
    BY <1>7
  <1>9. Max(T) \in T /\ \A y \in T : Max(T) >= y
    <2> HIDE DEF R, D
    <2> QED BY <1>8, Zenon DEF Max
  <1> QED BY <1>9

LEMMA SameLength ==
    ASSUME NEW n \in Nat, NEW k \in Nat \ {0}, 1 .. n = 1 .. k
    PROVE  n = k
  <1>1. k \in 1 .. n
    OBVIOUS
  <1>2. n \in 1 .. k
    BY <1>1
  <1> QED BY <1>1, <1>2

\* An answer that is one item, and the one that is all of them.
LEMMA ToldOne ==
    ASSUME NEW item \in {"tasklist", "task"}, NEW param, ~Fails(item, param)
    PROVE  Told(item, param) = Tells(item, param).rules
  <1> DEFINE t == [i \in 1 .. 1 |-> Tells(item, param)]
             answer == [told |-> t]
  <1>1. Asks(item) = << item >>
    BY DEF Asks, Items
  <1>2. << item >> # << >> /\ DOMAIN << item >> = 1 .. 1 /\ << item >>[1] = item
    OBVIOUS
  <1>3. [i \in DOMAIN << item >> |-> Tells(<< item >>[i], param)] = t
    BY <1>2
  <1>4. Answer(item, param) = answer
    BY <1>1, <1>2, <1>3 DEF Answer
  <1>5. Len(t) = 1 /\ t[1] = Tells(item, param)
    <2> DEFINE v == Tells(item, param)
    <2> HIDE DEF v
    <2>1. t \in [1 .. 1 -> {v}]
      BY DEF v
    <2>2. t \in Seq({v})
      <3>1. Seq({v}) = UNION {[1 .. k -> {v}] : k \in Nat}
        BY SeqDef
      <3> HIDE DEF t
      <3> QED BY <2>1, <3>1, Zenon
    <2>3. Len(t) \in Nat /\ DOMAIN t = 1 .. Len(t) /\ DOMAIN t = 1 .. 1
      BY <2>2, LenProperties
    <2> HIDE DEF t
    <2>4. Len(t) = 1
      BY <2>3, SameLength
    <2> QED BY <2>4 DEF t, v
  <1> HIDE DEF t
  <1>6. "told" \in DOMAIN answer /\ answer.told = t
    OBVIOUS
  <1> QED BY <1>4, <1>5, <1>6 DEF Told, Last

LEMMA ToldAll ==
    /\ Answer("all", << >>).told[3].number = tasks
    /\ Told("all", << >>) = TaskList
  <1> DEFINE asked == << "hello", "uptime", "tasks_stored", "configfile", "use_ssl", "tasklist" >>
             t == [i \in 1 .. 6 |-> Tells(asked[i], << >>)]
             answer == [told |-> t]
  <1>1. Asks("all") = asked
    BY DEF Asks, Items
  <1>2. /\ asked # << >> /\ DOMAIN asked = 1 .. 6 /\ \A i \in 1 .. 6 : asked[i] # "task"
        /\ asked[3] = "tasks_stored" /\ asked[6] = "tasklist"
    OBVIOUS
  <1> HIDE DEF asked
  <1>3. \A i \in DOMAIN asked : ~Fails(asked[i], << >>)
    BY <1>2 DEF Fails
  <1>4. Answer("all", << >>) = answer
    BY <1>1, <1>2, <1>3 DEF Answer
  <1>5. Len(t) = 6
    <2> DEFINE V == {t[i] : i \in 1 .. 6}
    <2>1. t \in [1 .. 6 -> V]
      OBVIOUS
    <2> HIDE DEF t, V
    <2>2. t \in Seq(V)
      <3>1. Seq(V) = UNION {[1 .. k -> V] : k \in Nat}
        BY SeqDef
      <3>2. 6 \in Nat
        OBVIOUS
      <3> QED BY <2>1, <3>1, <3>2, Zenon
    <2>3. Len(t) \in Nat /\ DOMAIN t = 1 .. Len(t) /\ DOMAIN t = 1 .. 6
      BY <2>1, <2>2, LenProperties
    <2>4. 1 .. Len(t) = 1 .. 6 /\ 6 \in Nat \ {0}
      <3>1. 6 \in Nat \ {0}
        OBVIOUS
      <3> QED BY <2>3, <3>1, Zenon
    <2> QED BY <2>3, <2>4, SameLength
  <1>6. t[3] = [number |-> tasks] /\ t[6] = [rules |-> TaskList]
    BY <1>2 DEF Tells
  <1> HIDE DEF t
  <1>7. "told" \in DOMAIN answer /\ answer.told = t
    OBVIOUS
  <1>8. Answer("all", << >>).told[3].number = tasks
    BY <1>4, <1>6, <1>7
  <1>9. Told("all", << >>) = TaskList
    <2>1. Last(t) = [rules |-> TaskList]
      BY <1>5, <1>6 DEF Last
    <2>2. Told("all", << >>) = Last(t).rules
      BY <1>4, <1>7 DEF Told
    <2> QED BY <2>1, <2>2
  <1> QED BY <1>8, <1>9

\* A registered rule is the only one found under its name.
LEMMA FoundByName ==
    ASSUME TypeInv, Ways
    PROVE  /\ \A s \in Known : object[s].key \in DOMAIN index /\ Found(object[s].key) = {s}
           /\ \A key \in DOMAIN index : \E s \in Known : object[s].key = key /\ Found(key) = {s}
           /\ \A s, r \in Known : object[s].key = object[r].key => s = r
  <1>1. ASSUME NEW s \in Known PROVE object[s].key \in DOMAIN index /\ Found(object[s].key) = {s}
    <2>1. PICK u \in DOMAIN ruleDB : s = ruleDB[u]
      BY DEF Known
    <2> QED BY <2>1 DEF Ways, ByNumber, Found
  <1>2. ASSUME NEW key \in DOMAIN index PROVE \E s \in Known : object[s].key = key /\ Found(key) = {s}
    BY DEF Ways, ByName, Found, Known
  <1>3. ASSUME NEW s \in Known, NEW r \in Known, object[s].key = object[r].key PROVE s = r
    <2>1. {s} = {r}
      BY <1>1, <1>3
    <2> QED BY <2>1
  <1> QED BY <1>1, <1>2, <1>3

\* The text of a rule names it and says its state.
LEMMA TextSays ==
    ASSUME NEW s
    PROVE  Text(s).name = object[s].key /\ Text(s).state = object[s].state
  BY DEF Text

\* The task list is that of the registered rules, each once.
LEMMA ListOfKnown ==
    ASSUME TypeInv, Ways
    PROVE  TaskList = {Text(s) : s \in Known} /\ Cardinality(TaskList) = Cardinality(Known)
  <1>1. \A key \in DOMAIN index : OfRule(key) = {Text(s) : s \in Found(key)} /\ Found(key) # {}
    BY FoundByName DEF OfRule
  <1>2. ASSUME NEW t \in TaskList PROVE \E s \in Known : t = Text(s)
    <2>1. PICK key \in DOMAIN index : t \in OfRule(key)
      BY DEF TaskList, OfSet
    <2> QED BY <1>1, <2>1, FoundKnown
  <1>3. ASSUME NEW s \in Known PROVE Text(s) \in OfSet(object[s].key[1]) /\ Text(s) \in TaskList
    <2> DEFINE key == object[s].key
    <2>1. key \in DOMAIN index /\ Found(key) = {s}
      BY FoundByName
    <2>2. Text(s) \in OfRule(key)
      BY <1>1, <2>1
    <2>3. Text(s) \in OfSet(key[1])
      BY <2>1, <2>2 DEF OfSet
    <2>4. key[1] \in {k[1] : k \in DOMAIN index}
      BY <2>1
    <2> QED BY <2>3, <2>4 DEF TaskList
  <1>4. TaskList = {Text(s) : s \in Known}
    BY <1>2, <1>3
  <1> DEFINE g == [s \in Known |-> Text(s)]
  <1>5. g \in Bijection(Known, TaskList)
    <2>1. g \in [Known -> TaskList]
      BY <1>4
    <2>2. \A s, r \in Known : g[s] = g[r] => s = r
      BY FoundByName, TextSays
    <2>3. \A t \in TaskList : \E s \in Known : g[s] = t
      BY <1>4
    <2> HIDE DEF g
    <2> QED BY <2>1, <2>2, <2>3 DEF Bijection, Injection, Surjection, IsInjective
  <1>6. Cardinality(TaskList) = Cardinality(Known)
    <2>1. ExistsBijection(Known, TaskList)
      BY <1>5 DEF ExistsBijection
    <2> QED BY <2>1, FewKnown, FS_Bijection
  <1> QED BY <1>4, <1>6

\* A name is a pair, so that it asks for a rule.
LEMMA NamesArePairs ==
    ASSUME TypeInv, NEW s \in DOMAIN object
    PROVE  Len(object[s].key) = 2 /\ object[s].key # << >>
  <1>1. IsObject(object[s])
    BY DEF TypeInv, ObjectsOK
  <1>2. object[s].key = << object[s].key[1], object[s].key[2] >>
    BY <1>1 DEF IsObject
  <1>3. \A a, b : Len(<< a, b >>) = 2 /\ << a, b >> # << >>
    OBVIOUS
  <1> DEFINE a == object[s].key[1]
             b == object[s].key[2]
  <1>4. Len(<< a, b >>) = 2 /\ << a, b >> # << >>
    <2> HIDE DEF a, b
    <2> QED BY <1>3
  <1> QED BY <1>2, <1>4, Zenon

LEMMA ToldRule ==
    ASSUME NEW key, Len(key) = 2, key # << >>, OfRule(key) # {}
    PROVE  Told("task", key) = OfRule(key)
  <1>1. ~Fails("task", key)
    BY DEF Fails
  <1>2. Tells("task", key) = [rules |-> OfRule(key)]
    BY DEF Tells
  <1> QED BY <1>1, <1>2, ToldOne

LEMMA ToldSet ==
    ASSUME NEW set
    PROVE  Told("task", << set >>) = OfSet(set)
  <1>1. Len(<< set >>) = 1 /\ << set >> # << >> /\ << set >>[1] = set
    OBVIOUS
  <1>2. ~Fails("task", << set >>)
    BY <1>1 DEF Fails
  <1>3. Tells("task", << set >>) = [rules |-> OfSet(set)]
    BY <1>1 DEF Tells
  <1> QED BY <1>2, <1>3, ToldOne

\* get_info agrees with the registry and with itself: the number of tasks is
\* the length of the task list, the list is that of the registered rules, none
\* of them done, and a name is answered with the rule that bears it, or with
\* the latest removed one that is still kept.
THEOREM InfoTells == Spec => []InfoAgrees
  <1>1. ASSUME IInv PROVE InfoAgrees
    <2> SUFFICES ASSUME Free
                 PROVE  /\ Answer("all", << >>).told[3].number = Cardinality(Told("all", << >>))
                        /\ Told("tasklist", << >>) = {Text(s) : s \in Known}
                        /\ \A t \in Told("tasklist", << >>) : t.state # "done"
                        /\ \A s \in Known : /\ Told("task", object[s].key) = {Text(s)}
                                            /\ Text(s) \in Told("task", << object[s].key[1] >>)
                        /\ \A i \in DOMAIN ruleDone :
                             \E s \in Known \cup {ruleDone[j] : j \in i .. Len(ruleDone)} :
                               Told("task", object[ruleDone[i]].key) = {Text(s)}
      BY DEF InfoAgrees
    <2>1. TypeInv /\ Ways
      BY <1>1 DEF IInv, Free, Sound
    <2>2. Told("tasklist", << >>) = TaskList
      <3>1. ~Fails("tasklist", << >>) /\ Tells("tasklist", << >>) = [rules |-> TaskList]
        BY DEF Fails, Tells
      <3> QED BY <3>1, ToldOne
    <2>3. TaskList = {Text(s) : s \in Known} /\ Cardinality(TaskList) = tasks
      BY <2>1, ListOfKnown DEF Ways, Counted
    <2>4. \A t \in TaskList : t.state # "done"
      BY <2>1, <2>3, TextSays DEF Ways, Counted
    <2>5. ASSUME NEW s \in Known
          PROVE  /\ Told("task", object[s].key) = {Text(s)}
                 /\ Text(s) \in Told("task", << object[s].key[1] >>)
      <3>1. /\ Len(object[s].key) = 2 /\ object[s].key # << >>
            /\ object[s].key \in DOMAIN index /\ Found(object[s].key) = {s}
        BY <2>1, NamesArePairs, FoundByName DEF TypeInv
      <3>2. OfRule(object[s].key) = {Text(s)}
        BY <3>1 DEF OfRule
      <3>3. Text(s) \in OfSet(object[s].key[1])
        BY <3>1, <3>2 DEF OfSet
      <3> QED BY <3>1, <3>2, <3>3, ToldRule, ToldSet
    <2>6. ASSUME NEW i \in DOMAIN ruleDone
          PROVE  \E s \in Known \cup {ruleDone[j] : j \in i .. Len(ruleDone)} :
                   Told("task", object[ruleDone[i]].key) = {Text(s)}
      <3> DEFINE key == object[ruleDone[i]].key
      <3>1. DOMAIN ruleDone = 1 .. Len(ruleDone) /\ Len(ruleDone) \in Nat
            /\ ruleDone[i] \in DOMAIN object
        BY <2>1, SequenceIsSeq DEF TypeInv, Listed, Sequence
      <3>2. Len(key) = 2 /\ key # << >>
        BY <2>1, <3>1, NamesArePairs
      <3>3. CASE Found(key) # {}
        <4>1. key \in DOMAIN index
          BY <3>3 DEF Found
        <4>2. PICK s \in Known : Found(key) = {s}
          BY <2>1, <4>1, FoundByName
        <4>3. OfRule(key) = {Text(s)}
          BY <4>2 DEF OfRule
        <4> QED BY <3>2, <4>3, ToldRule
      <3>4. CASE Found(key) = {}
        <4> DEFINE at == DoneAt(key)
                   m == Max(at)
        <4>1. at \subseteq 1 .. Len(ruleDone) /\ i \in at
          BY <3>1 DEF DoneAt
        <4>2. m \in at /\ i <= m
          <5> HIDE DEF at
          <5> QED BY <3>1, <4>1, Greatest
        <4>3. LastDone(key) = {ruleDone[m]}
          BY <4>1 DEF LastDone
        <4>4. OfRule(key) = {Text(ruleDone[m])}
          BY <3>4, <4>3 DEF OfRule
        <4>5. Told("task", key) = {Text(ruleDone[m])}
          BY <3>2, <4>4, ToldRule
        <4>6. m \in i .. Len(ruleDone)
          BY <3>1, <4>1, <4>2
        <4> QED BY <4>5, <4>6
      <3> QED BY <3>3, <3>4
    <2> QED BY <2>2, <2>3, <2>4, <2>5, <2>6, ToldAll
  <1> QED BY <1>1, IInvHolds, PTL
==============================================================================
