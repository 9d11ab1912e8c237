----------------------------- MODULE ThreadsProofs -----------------------------
(***************************************************************************)
(* For any batches, rules, failures and requests, and any interleaving of  *)
(* the two threads: an event that was passed to the processor is in one    *)
(* queue or in one thread's hands until its response is handled.           *)
(***************************************************************************)
EXTENDS Threads, FiniteSetTheorems, FunctionTheorems, SequenceTheorems, TLAPS

States == {"new", "valid", "error", "active", "done"}
Entry == [of : Parent, rules : Seq(Rule)]
Task == [of : Parent, rules : Seq(Rule), rest : Seq(Rule), seen : BOOLEAN]
InHand(k) == \E e \in Task : k = << e >> /\ (e.seen => e.rest # << >>)

TypeInv ==
    /\ parent \in [Parent -> {"absent", "new", "processing", "done", "freed"}]
    /\ inEvents \in Seq(Entry) /\ outEvents \in Seq(Entry) /\ responses \in Seq(Entry)
    /\ bytes \in Nat
    /\ task = [t \in Thread |-> task[t]]
    /\ \A t \in Thread : task[t] = NoTask \/ InHand(task[t])
    /\ collecting \in BOOLEAN
    /\ state \in [Rule -> States] /\ table \subseteq Rule
    /\ members \in [Batch -> Seq(Rule)]
    /\ answers \in [Parent -> Seq({"error", "added", "deleted"})]
    /\ run \in {"up", "waiting", "ended", "aborted"}

-----------------------------------------------------------------------------
(* Sequences *)

Ranks(I) == [i \in I |-> Cardinality({j \in I : j <= i})]

\* The places of a sequence that are kept are numbered from 1 without a gap.
LEMMA RanksOK ==
    ASSUME NEW n \in Nat, NEW I \in SUBSET (1 .. n)
    PROVE  /\ IsFiniteSet(I) /\ Cardinality(I) \in Nat
           /\ Ranks(I) \in Bijection(I, 1 .. Cardinality(I))
  <1> DEFINE rank(i) == Cardinality({j \in I : j <= i})
             m == Cardinality(I)
  <1>1. IsFiniteSet(I) /\ m \in Nat
    <2>1. IsFiniteSet(1 .. n)
      BY FS_Interval
    <2> QED BY <2>1, FS_Subset, FS_CardinalityType
  <1>2. \A i \in I : /\ IsFiniteSet({j \in I : j <= i}) /\ rank(i) \in Nat
                     /\ rank(i) <= m /\ rank(i) # 0
    <2> SUFFICES ASSUME NEW i \in I
                 PROVE  /\ IsFiniteSet({j \in I : j <= i}) /\ rank(i) \in Nat
                        /\ rank(i) <= m /\ rank(i) # 0
      OBVIOUS
    <2>1. {j \in I : j <= i} \in SUBSET I /\ i \in {j \in I : j <= i}
      OBVIOUS
    <2>2. IsFiniteSet({j \in I : j <= i}) /\ rank(i) \in Nat /\ rank(i) <= m
      BY <1>1, <2>1, FS_Subset, FS_CardinalityType
    <2>3. rank(i) # 0
      BY <2>1, <2>2, FS_EmptySet
    <2> QED BY <2>2, <2>3
  <1>3. \A i, k \in I : i < k => rank(i) # rank(k)
    <2> SUFFICES ASSUME NEW i \in I, NEW k \in I, i < k, rank(i) = rank(k) PROVE FALSE
      OBVIOUS
    <2>1. /\ {j \in I : j <= i} \in SUBSET {j \in I : j <= k}
          /\ k \in {j \in I : j <= k} /\ k \notin {j \in I : j <= i}
      <3>1. i \in Int /\ k \in Int /\ \A j \in I : j \in Int
        OBVIOUS
      <3>2. k <= k /\ ~(k <= i) /\ \A j \in I : j <= i => j <= k
        BY <3>1
      <3> QED BY <3>2, Zenon
    <2>2. {j \in I : j <= i} = {j \in I : j <= k}
      BY <1>2, <2>1, FS_Subset
    <2> QED BY <2>1, <2>2
  <1>4. \A i \in I : Ranks(I)[i] = rank(i)
    BY DEF Ranks
  <1> HIDE DEF rank, m
  <1>5. Ranks(I) \in [I -> 1 .. m]
    <2>1. ASSUME NEW i \in I PROVE Ranks(I)[i] \in 1 .. m
      <3>1. rank(i) \in Nat /\ rank(i) <= m /\ rank(i) # 0 /\ Ranks(I)[i] = rank(i)
        BY <1>2, <1>4
      <3> QED BY <1>1, <3>1
    <2>2. Ranks(I) = [i \in I |-> Ranks(I)[i]]
      BY DEF Ranks
    <2> QED BY <2>1, <2>2
  <1>6. \A i, k \in I : Ranks(I)[i] = Ranks(I)[k] => i = k
    BY <1>3, <1>4
  <1>7. Ranks(I) \in Injection(I, 1 .. m)
    BY <1>5, <1>6, Fun_IsInj
  <1>8. IsFiniteSet(1 .. m) /\ Cardinality(1 .. m) = m
    BY <1>1, FS_Interval
  <1>9. Ranks(I) \in Surjection(I, 1 .. m)
    BY <1>7, <1>8, FS_Injection DEF m
  <1> QED BY <1>1, <1>7, <1>9 DEF m, Bijection

\* What is kept of a sequence: as many elements as places, each from its place.
LEMMA KeptOK ==
    ASSUME NEW S, NEW q \in Seq(S), NEW I \in SUBSET DOMAIN q
    PROVE  /\ Kept(q, I) \in Seq(S) /\ Len(Kept(q, I)) = Cardinality(I)
           /\ Cardinality(I) \in Nat
           /\ \A i \in I : Ranks(I)[i] \in 1 .. Cardinality(I)
           /\ \A i \in I : Kept(q, I)[Ranks(I)[i]] = q[i]
  <1> DEFINE m == Cardinality(I)
             from(k) == CHOOSE i \in I : Cardinality({j \in I : j <= i}) = k
  <1>1. Len(q) \in Nat /\ DOMAIN q = 1 .. Len(q) /\ \A i \in 1 .. Len(q) : q[i] \in S
    BY LenProperties, ElementOfSeq
  <1>2. m \in Nat /\ Ranks(I) \in Bijection(I, 1 .. m)
    BY <1>1, RanksOK
  <1>3. /\ Ranks(I) \in [I -> 1 .. m]
        /\ \A i, k \in I : Ranks(I)[i] = Ranks(I)[k] => i = k
        /\ \A k \in 1 .. m : \E i \in I : Ranks(I)[i] = k
    BY <1>2 DEF Bijection, Injection, Surjection, IsInjective
  <1>4. \A i \in I : Ranks(I)[i] = Cardinality({j \in I : j <= i})
    BY DEF Ranks
  <1>5. \A k \in 1 .. m : from(k) \in I /\ Ranks(I)[from(k)] = k
    BY <1>3, <1>4
  <1>6. \A i \in I : from(Ranks(I)[i]) = i
    BY <1>3, <1>5
  <1>7. Kept(q, I) = [k \in 1 .. m |-> q[from(k)]]
    BY DEF Kept
  <1> HIDE DEF m, from
  <1>8. Kept(q, I) \in [1 .. m -> S]
    BY <1>1, <1>5, <1>7
  <1>9. Kept(q, I) \in Seq(S) /\ Len(Kept(q, I)) = m
    BY <1>2, <1>8, SeqDef, LenProperties
  <1>10. \A i \in I : Ranks(I)[i] \in 1 .. m /\ Kept(q, I)[Ranks(I)[i]] = q[i]
    BY <1>3, <1>6, <1>7
  <1> QED BY <1>2, <1>9, <1>10 DEF m

-----------------------------------------------------------------------------
(* Counting the entries of a parent *)

At(q, p) == {i \in DOMAIN q : q[i].of = p}
Count(q, p) == Cardinality(At(q, p))

LEMMA CountType ==
    ASSUME NEW q \in Seq(Entry), NEW p
    PROVE  IsFiniteSet(At(q, p)) /\ Count(q, p) \in Nat /\ At(q, p) \in SUBSET (1 .. Len(q))
  <1>1. DOMAIN q = 1 .. Len(q) /\ Len(q) \in Nat
    BY LenProperties
  <1>2. IsFiniteSet(1 .. Len(q)) /\ At(q, p) \in SUBSET (1 .. Len(q))
    BY <1>1, FS_Interval DEF At
  <1> QED BY <1>2, FS_Subset, FS_CardinalityType DEF Count

LEMMA CountEmpty == ASSUME NEW p PROVE Count(<< >>, p) = 0
  <1>1. At(<< >>, p) = {}
    BY DEF At
  <1> QED BY <1>1, FS_EmptySet DEF Count

\* Two sequences count alike if their places correspond.
LEMMA SameCount ==
    ASSUME NEW S, NEW T, IsFiniteSet(S), NEW f \in [S -> T],
           \A i, j \in S : f[i] = f[j] => i = j,
           \A j \in T : \E i \in S : f[i] = j
    PROVE  IsFiniteSet(T) /\ Cardinality(T) = Cardinality(S)
  <1>1. f \in Bijection(S, T)
    BY Fun_IsBij
  <1> QED BY <1>1, FS_Bijection DEF ExistsBijection

\* What is put behind a queue is counted as well.
LEMMA CountConcat ==
    ASSUME NEW q \in Seq(Entry), NEW r \in Seq(Entry), NEW p
    PROVE  q \o r \in Seq(Entry) /\ Count(q \o r, p) = Count(q, p) + Count(r, p)
  <1> DEFINE n == Len(q)
             m == Len(r)
             c == q \o r
             T == {i \in n + 1 .. n + m : c[i].of = p}
             f == [i \in At(r, p) |-> i + n]
  <1>1. /\ n \in Nat /\ m \in Nat /\ c \in Seq(Entry) /\ Len(c) = n + m
        /\ \A i \in 1 .. n + m : c[i] = IF i <= n THEN q[i] ELSE r[i - n]
        /\ DOMAIN q = 1 .. n /\ DOMAIN r = 1 .. m /\ DOMAIN c = 1 .. n + m
    BY ConcatProperties, LenProperties
  <1> HIDE DEF n, m, c
  <1>2. /\ IsFiniteSet(At(q, p)) /\ IsFiniteSet(At(r, p))
        /\ Count(q, p) \in Nat /\ Count(r, p) \in Nat
    BY CountType
  <1>3. IsFiniteSet(T) /\ Cardinality(T) = Count(r, p)
    <2>1. At(r, p) = {i \in 1 .. m : r[i].of = p}
      BY <1>1 DEF At
    <2>2. f \in [At(r, p) -> T] /\ \A i, j \in At(r, p) : f[i] = f[j] => i = j
      BY <1>1, <2>1
    <2>3. ASSUME NEW j \in T PROVE \E i \in At(r, p) : f[i] = j
      <3>1. j - n \in At(r, p) /\ f[j - n] = j
        BY <1>1, <2>1
      <3> QED BY <3>1
    <2> HIDE DEF T, f
    <2> QED BY <1>2, <2>2, <2>3, SameCount DEF Count
  <1>4. At(c, p) = At(q, p) \cup T /\ At(q, p) \cap T = {}
    BY <1>1 DEF At
  <1> HIDE DEF T
  <1>5. Cardinality(At(c, p)) = Cardinality(At(q, p)) + Cardinality(T) - 0
    BY <1>2, <1>3, <1>4, FS_Union, FS_EmptySet
  <1> QED BY <1>1, <1>2, <1>3, <1>5 DEF Count, c

LEMMA CountAppend ==
    ASSUME NEW q \in Seq(Entry), NEW e \in Entry, NEW p
    PROVE  /\ Append(q, e) \in Seq(Entry)
           /\ Count(Append(q, e), p) = Count(q, p) + (IF e.of = p THEN 1 ELSE 0)
  <1>1. << e >> \in Seq(Entry) /\ Append(q, e) = q \o << e >>
    BY AppendIsConcat
  <1>2. Count(<< e >>, p) = IF e.of = p THEN 1 ELSE 0
    <2>1. At(<< e >>, p) = IF e.of = p THEN {1} ELSE {}
      BY DEF At
    <2> QED BY <2>1, FS_EmptySet, FS_Singleton DEF Count
  <1>3. /\ q \o << e >> \in Seq(Entry)
        /\ Count(q \o << e >>, p) = Count(q, p) + Count(<< e >>, p)
    BY <1>1, CountConcat
  <1> QED BY <1>1, <1>2, <1>3

LEMMA CountTail ==
    ASSUME NEW q \in Seq(Entry), q # << >>, NEW p
    PROVE  /\ Head(q) \in Entry /\ Tail(q) \in Seq(Entry)
           /\ Count(q, p) = (IF Head(q).of = p THEN 1 ELSE 0) + Count(Tail(q), p)
           /\ Count(Tail(q), p) \in Nat
  <1>1. /\ Head(q) \in Entry /\ Tail(q) \in Seq(Entry) /\ << Head(q) >> \in Seq(Entry)
        /\ q = << Head(q) >> \o Tail(q)
    <2>1. Head(q) \in Entry /\ Tail(q) \in Seq(Entry) /\ Len(Tail(q)) = Len(q) - 1
          /\ \A i \in 1 .. Len(Tail(q)) : Tail(q)[i] = q[i + 1]
      BY HeadTailProperties
    <2> DEFINE h == << Head(q) >>
           r == Tail(q)
    <2>2. h \in Seq(Entry) /\ Len(h) = 1 /\ h[1] = q[1]
      BY <2>1
    <2>0. r \in Seq(Entry) /\ Len(r) = Len(q) - 1 /\ \A i \in 1 .. Len(r) : r[i] = q[i + 1]
      BY <2>1
    <2>3. Len(q) \in Nat \ {0}
      BY EmptySeq, LenProperties
    <2> HIDE DEF h, r
    <2>4. /\ h \o r \in Seq(Entry) /\ Len(h \o r) = Len(q)
          /\ \A i \in 1 .. Len(q) : (h \o r)[i] = IF i <= 1 THEN h[i] ELSE r[i - 1]
      <3>1. /\ h \o r \in Seq(Entry) /\ Len(h \o r) = Len(h) + Len(r)
            /\ \A i \in 1 .. Len(h) + Len(r) :
                  (h \o r)[i] = IF i <= Len(h) THEN h[i] ELSE r[i - Len(h)]
        <4>1. h \in Seq(Entry) /\ r \in Seq(Entry)
          BY <2>0, <2>2
        <4> QED BY <4>1, ConcatProperties
      <3>2. Len(h) + Len(r) = Len(q)
        BY <2>0, <2>2, <2>3
      <3> QED BY <2>2, <3>1, <3>2
    <2>5. \A i \in 1 .. Len(q) : (h \o r)[i] = q[i]
      BY <2>0, <2>2, <2>3, <2>4
    <2>6. h \o r = q
      BY <2>4, <2>5, SeqEqual
    <2> QED BY <2>1, <2>2, <2>6 DEF h, r
  <1>2. Count(<< Head(q) >>, p) = IF Head(q).of = p THEN 1 ELSE 0
    <2>1. At(<< Head(q) >>, p) = IF Head(q).of = p THEN {1} ELSE {}
      BY DEF At
    <2> QED BY <2>1, FS_EmptySet, FS_Singleton DEF Count
  <1>3. Count(<< Head(q) >> \o Tail(q), p) = Count(<< Head(q) >>, p) + Count(Tail(q), p)
    <2>1. \A u, v \in Seq(Entry) : Count(u \o v, p) = Count(u, p) + Count(v, p)
      BY CountConcat
    <2> QED BY <1>1, <2>1, Zenon
  <1> QED BY <1>1, <1>2, <1>3, CountType

\* delRuleEvents: the entries that hold rules of b go, the others stay.
LEMMA CountWithout ==
    ASSUME NEW q \in Seq(Entry), NEW b, NEW p
    PROVE  /\ WithoutRules(q, b) \in Seq(Entry)
           /\ Count(WithoutRules(q, b), p) = IF HoldsRules(p, b) THEN 0 ELSE Count(q, p)
  <1> DEFINE I == {i \in DOMAIN q : ~HoldsRules(q[i].of, b)}
             k == Kept(q, I)
             f == [i \in At(q, p) |-> Ranks(I)[i]]
  <1>1. I \in SUBSET DOMAIN q
    OBVIOUS
  <1>2. DOMAIN q = 1 .. Len(q) /\ Len(q) \in Nat
    BY LenProperties
  <1>3. /\ k \in Seq(Entry) /\ Len(k) = Cardinality(I) /\ Cardinality(I) \in Nat
        /\ \A i \in I : Ranks(I)[i] \in 1 .. Cardinality(I)
        /\ \A i \in I : k[Ranks(I)[i]] = q[i]
    <2> HIDE DEF I
    <2> QED BY <1>1, KeptOK
  <1>4. Ranks(I) \in Bijection(I, 1 .. Cardinality(I))
    <2> HIDE DEF I
    <2> QED BY <1>1, <1>2, RanksOK
  <1>5. /\ \A i, j \in I : Ranks(I)[i] = Ranks(I)[j] => i = j
        /\ \A j \in 1 .. Cardinality(I) : \E i \in I : Ranks(I)[i] = j
    <2> HIDE DEF I
    <2> QED BY <1>4 DEF Bijection, Injection, Surjection, IsInjective
  <1>6. DOMAIN k = 1 .. Cardinality(I)
    BY <1>3, LenProperties
  <1>7. \A i \in I : ~HoldsRules(q[i].of, b)
    OBVIOUS
  <1>8. \A j \in 1 .. Cardinality(I) : \E i \in I : Ranks(I)[i] = j /\ k[j] = q[i]
    <2> SUFFICES ASSUME NEW j \in 1 .. Cardinality(I)
                 PROVE  \E i \in I : Ranks(I)[i] = j /\ k[j] = q[i]
      OBVIOUS
    <2> HIDE DEF I, k
    <2>1. PICK i \in I : Ranks(I)[i] = j
      BY <1>5
    <2> QED BY <1>3, <2>1
  <1>9. WithoutRules(q, b) = k
    BY DEF WithoutRules
  <1>10. CASE HoldsRules(p, b)
    <2>1. At(k, p) = {}
      <3> SUFFICES ASSUME NEW j \in DOMAIN k, k[j].of = p PROVE FALSE
        BY DEF At
      <3> HIDE DEF I, k
      <3> QED BY <1>6, <1>7, <1>8, <1>10
    <2> QED BY <1>3, <1>9, <1>10, <2>1, FS_EmptySet DEF Count
  <1>11. CASE ~HoldsRules(p, b)
    <2>1. At(q, p) \subseteq I
      BY <1>11 DEF At
    <2>2. IsFiniteSet(At(q, p))
      BY CountType
    <2> HIDE DEF I, k
    <2>3. f \in [At(q, p) -> At(k, p)]
      <3>1. \A i \in At(q, p) : Ranks(I)[i] \in At(k, p)
        BY <1>3, <1>6, <2>1 DEF At
      <3> QED BY <3>1
    <2>4. \A i, j \in At(q, p) : f[i] = f[j] => i = j
      BY <1>5, <2>1
    <2>5. ASSUME NEW j \in At(k, p) PROVE \E i \in At(q, p) : f[i] = j
      <3>1. j \in 1 .. Cardinality(I) /\ k[j].of = p
        BY <1>6 DEF At
      <3>2. PICK i \in I : Ranks(I)[i] = j /\ k[j] = q[i]
        BY <1>8, <3>1
      <3>3. i \in At(q, p)
        BY <1>1, <3>1, <3>2 DEF At
      <3> QED BY <3>2, <3>3
    <2> HIDE DEF f
    <2>6. Cardinality(At(k, p)) = Cardinality(At(q, p))
      BY <2>2, <2>3, <2>4, <2>5, SameCount
    <2> QED BY <1>3, <1>9, <1>11, <2>6 DEF Count
  <1> QED BY <1>10, <1>11

-----------------------------------------------------------------------------
(* Counting the hands *)

Holds(k, p) == k # NoTask /\ k[1].of = p
HeldBy(tasks, p) == Cardinality({t \in Thread : Holds(tasks[t], p)})

LEMMA HeldSum ==
    ASSUME NEW tasks, NEW p
    PROVE  HeldBy(tasks, p) = (IF Holds(tasks["main"], p) THEN 1 ELSE 0)
                              + (IF Holds(tasks["worker"], p) THEN 1 ELSE 0)
  <1> DEFINE S == {t \in Thread : Holds(tasks[t], p)}
             a == Holds(tasks["main"], p)
             b == Holds(tasks["worker"], p)
  <1>1. S = (IF a THEN {"main"} ELSE {}) \cup (IF b THEN {"worker"} ELSE {})
    BY DEF Thread
  <1>2. /\ IsFiniteSet({"main"}) /\ Cardinality({"main"}) = 1 /\ Cardinality({"worker"}) = 1
        /\ Cardinality({"main"} \cup {"worker"}) = 2
    <2>1. IsFiniteSet({"main"}) /\ Cardinality({"main"}) = 1 /\ Cardinality({"worker"}) = 1
      BY FS_Singleton
    <2>2. "worker" \notin {"main"}
      OBVIOUS
    <2> QED BY <2>1, <2>2, FS_AddElement
  <1>3. Cardinality({}) = 0
    BY FS_EmptySet
  <1> HIDE DEF S, a, b
  <1>4. CASE a /\ b
    BY <1>1, <1>2, <1>4 DEF HeldBy, S, a, b
  <1>5. CASE a /\ ~b
    BY <1>1, <1>2, <1>5 DEF HeldBy, S, a, b
  <1>6. CASE ~a /\ b
    BY <1>1, <1>2, <1>6 DEF HeldBy, S, a, b
  <1>7. CASE ~a /\ ~b
    BY <1>1, <1>3, <1>7 DEF HeldBy, S, a, b
  <1> QED BY <1>4, <1>5, <1>6, <1>7

\* One thread takes something up, goes on with it or lets it go.
LEMMA HeldUpdate ==
    ASSUME NEW t \in Thread, NEW new, task = [u \in Thread |-> task[u]],
           task' = [task EXCEPT ![t] = new], NEW p
    PROVE  /\ HeldBy(task', p) + (IF Holds(task[t], p) THEN 1 ELSE 0)
                = HeldBy(task, p) + (IF Holds(new, p) THEN 1 ELSE 0)
           /\ HeldBy(task', p) \in Nat /\ HeldBy(task, p) \in Nat
  <1>1. task'[t] = new /\ \A u \in Thread \ {t} : task'[u] = task[u]
    OBVIOUS
  <1> DEFINE one(k) == IF Holds(k, p) THEN 1 ELSE 0
  <1>2. HeldBy(task, p) = one(task["main"]) + one(task["worker"])
    BY HeldSum
  <1>3. SUFFICES ASSUME NEW after, after = [task EXCEPT ![t] = new]
                 PROVE  /\ HeldBy(after, p) + one(task[t]) = HeldBy(task, p) + one(new)
                        /\ HeldBy(after, p) \in Nat /\ HeldBy(task, p) \in Nat
    OBVIOUS
  <1>4. HeldBy(after, p) = one(after["main"]) + one(after["worker"])
    BY HeldSum
  <1>5. after[t] = new /\ \A u \in Thread \ {t} : after[u] = task[u]
    BY <1>3
  <1>6. \A k : one(k) \in Nat
    OBVIOUS
  <1>7. \/ t = "main" /\ after["main"] = new /\ after["worker"] = task["worker"]
        \/ t = "worker" /\ after["worker"] = new /\ after["main"] = task["main"]
    BY <1>5 DEF Thread
  <1> HIDE DEF one
  <1> QED BY <1>2, <1>4, <1>6, <1>7
-----------------------------------------------------------------------------
(* The inductive invariant *)

Kinds == {"add", "activate", "remove"} \cup Remover
WorkOf(p) == Count(inEvents, p) + Count(outEvents, p) + Count(responses, p) + HeldBy(task, p)

\* An event is passed on from "absent" or "new", when nothing of it is about.
OnceInv == \A p \in Parent :
    /\ WorkOf(p) <= 1
    /\ parent[p] \in {"absent", "new"} => WorkOf(p) = 0
    /\ parent[p] = "processing" /\ (p[1] = "add" \/ members[p[2]] # << >>) => WorkOf(p) = 1

\* The work of a submission goes on until its response is handled.
AddInv == \A b \in Batch :
    /\ parent[<< "add", b >>] \in {"absent", "processing", "done", "freed"}
    /\ WorkOf(<< "add", b >>) = IF parent[<< "add", b >>] = "processing" THEN 1 ELSE 0

\* Until then the batch has no rules, and nothing else was passed on for it.
FirstInv == \A b \in Batch : parent[<< "add", b >>] # "done" =>
    /\ members[b] = << >>
    /\ parent[<< "activate", b >>] = "absent" /\ parent[<< "remove", b >>] = "absent"
    /\ \A d \in Remover : parent[<< d, b >>] \in {"absent", "freed"}
                         /\ WorkOf(<< d, b >>) = 0

ThreadInv == TypeInv /\ OnceInv /\ AddInv /\ FirstInv

-----------------------------------------------------------------------------
(* Types *)

\* What a thread has in hand, taken apart.
LEMMA TaskOK ==
    ASSUME TypeInv, NEW t \in Thread, task[t] # NoTask
    PROVE  /\ task[t][1] \in Task /\ task[t] = << task[t][1] >>
           /\ task[t][1].of \in Parent /\ task[t][1].rules \in Seq(Rule)
           /\ task[t][1].rest \in Seq(Rule) /\ task[t][1].seen \in BOOLEAN
           /\ task[t][1].seen => task[t][1].rest # << >>
  <1>1. PICK e \in Task : task[t] = << e >> /\ (e.seen => e.rest # << >>)
    BY DEF TypeInv, InHand
  <1>2. task[t][1] = e
    BY <1>1
  <1> QED BY <1>1, <1>2 DEF Task

\* A thread takes something else into its hands, or nothing.
LEMMA HandOK ==
    ASSUME TypeInv, NEW t \in Thread, NEW k, k = NoTask \/ InHand(k),
           task' = [task EXCEPT ![t] = k]
    PROVE  /\ task' = [u \in Thread |-> task'[u]]
           /\ \A u \in Thread : task'[u] = NoTask \/ InHand(task'[u])
  <1>1. task = [u \in Thread |-> task[u]] /\ \A u \in Thread : task[u] = NoTask \/ InHand(task[u])
    BY DEF TypeInv
  <1>2. \A u \in Thread : task'[u] = IF u = t THEN k ELSE task[u]
    BY <1>1
  <1> QED BY <1>1, <1>2

LEMMA AdvanceOK ==
    ASSUME TypeInv, NEW t \in Thread, task[t] # NoTask, task[t][1].rest # << >>, Advance(t)
    PROVE  \E k : /\ k # NoTask /\ InHand(k) /\ k[1].of = task[t][1].of
                  /\ task' = [task EXCEPT ![t] = k]
  <1> DEFINE e == task[t][1]
             n == [of |-> e.of, rules |-> e.rules, rest |-> Tail(e.rest), seen |-> FALSE]
  <1>1. e.of \in Parent /\ e.rules \in Seq(Rule) /\ Tail(e.rest) \in Seq(Rule)
    BY TaskOK, HeadTailProperties
  <1>2. n \in Task /\ ~n.seen /\ n.of = e.of
    BY <1>1 DEF Task
  <1>3. InHand(<< n >>)
    BY <1>2 DEF InHand
  <1>4. task' = [task EXCEPT ![t] = << n >>]
    BY DEF Advance, TypeInv
  <1>5. << n >> # NoTask /\ << n >>[1] = n
    BY DEF NoTask
  <1> QED BY <1>2, <1>3, <1>4, <1>5

LEMMA NextOK ==
    ASSUME TypeInv, NEW t \in Thread, task[t] # NoTask, task[t][1].rest # << >>
    PROVE  Next1(t) \in Rule
  <1>1. task[t][1].rest \in Seq(Rule)
    BY TaskOK
  <1> QED BY <1>1, HeadTailProperties DEF Next1

Submissions(b) == HandleAdd(b) \/ HandleAddFails(b)
Requests(b) == \E c \in Remover : HandleRequest(c, b) \/ HandleRequestFails(c, b)
Scheduled(b) == HandleActivate(b) \/ HandleRemove(b)

LEMMA ParentOK == ASSUME NEW k \in Kinds, NEW b \in Batch
                  PROVE  << k, b >> \in Parent /\ << k, b >>[1] = k /\ << k, b >>[2] = b
  BY DEF Parent, Kinds

\* A parent is a kind and a batch.
LEMMA ParentParts == ASSUME NEW p \in Parent
                     PROVE  p[1] \in Kinds /\ p[2] \in Batch /\ p = << p[1], p[2] >>
  BY DEF Parent, Kinds

LEMMA PassOnTypes ==
    ASSUME TypeInv, NEW p \in Parent, NEW rules \in Seq(Rule), PassOn(p, rules)
    PROVE  TypeInv'
  <1>1. [of |-> p, rules |-> rules] \in Entry
    BY DEF Entry
  <1>2. inEvents' \in Seq(Entry)
    BY <1>1, AppendProperties DEF PassOn, TypeInv
  <1>3. parent' \in [Parent -> {"absent", "new", "processing", "done", "freed"}]
    BY DEF PassOn, TypeInv
  <1> QED BY <1>2, <1>3 DEF PassOn, TypeInv, ruleVars

LEMMA HandlersTyped ==
    ASSUME TypeInv, NEW b \in Batch, Submissions(b) \/ Requests(b) \/ Scheduled(b)
    PROVE  TypeInv'
  <1>1. /\ << "add", b >> \in Parent /\ << "activate", b >> \in Parent
        /\ << "remove", b >> \in Parent /\ \A d \in Remover : << d, b >> \in Parent
    BY ParentOK DEF Kinds
  <1>2. members[b] \in Seq(Rule) /\ RulesOf[b] \in Seq(Rule)
    BY ThreadsAssumption DEF TypeInv
  <1>3. CASE HandleAdd(b)
    BY <1>1, <1>2, <1>3, PassOnTypes DEF HandleAdd
  <1>4. CASE HandleActivate(b)
    BY <1>1, <1>2, <1>4, PassOnTypes DEF HandleActivate
  <1>5. CASE HandleRemove(b)
    BY <1>1, <1>2, <1>5, PassOnTypes DEF HandleRemove
  <1>6. ASSUME NEW c \in Remover, HandleRequest(c, b) PROVE TypeInv'
    BY <1>1, <1>2, <1>6, PassOnTypes DEF HandleRequest
  <1>7. \A p \in Parent, a \in {"error", "added", "deleted"} :
           Answer(p, a) => answers' \in [Parent -> Seq({"error", "added", "deleted"})]
    BY DEF Answer, TypeInv
  <1>8. CASE HandleAddFails(b)
    BY <1>1, <1>7, <1>8 DEF HandleAddFails, TypeInv, ruleVars
  <1>9. ASSUME NEW c \in Remover, HandleRequestFails(c, b) PROVE TypeInv'
    BY <1>1, <1>7, <1>9 DEF HandleRequestFails, TypeInv, ruleVars
  <1> QED BY <1>3, <1>4, <1>5, <1>6, <1>8, <1>9 DEF Submissions, Requests, Scheduled

LEMMA FetchTyped ==
    ASSUME TypeInv, NEW t \in Thread, Fetch(t)
    PROVE  /\ TypeInv' /\ inEvents # << >> /\ Head(inEvents) \in Entry
           /\ InHand(Begun(Head(inEvents))) /\ Begun(Head(inEvents))[1].of = Head(inEvents).of
           /\ Begun(Head(inEvents)) # NoTask
  <1> DEFINE h == Head(inEvents)
             n == [of |-> h.of, rules |-> h.rules, rest |-> h.rules, seen |-> FALSE]
  <1>1. inEvents \in Seq(Entry) /\ inEvents # << >>
    BY DEF Fetch, TypeInv
  <1>2. h \in Entry /\ Tail(inEvents) \in Seq(Entry)
    BY <1>1, HeadTailProperties
  <1>3. n \in Task /\ ~n.seen /\ n.of = h.of
    BY <1>2 DEF Entry, Task
  <1>4. InHand(<< n >>) /\ << n >>[1].of = h.of /\ << n >> # NoTask
    BY <1>3 DEF InHand, NoTask
  <1>5. Begun(h) = << n >>
    BY DEF Begun
  <1> HIDE DEF n, h
  <1>6. task' = [task EXCEPT ![t] = << n >>] /\ inEvents' = Tail(inEvents)
    BY <1>5 DEF Fetch, h
  <1>7. /\ task' = [u \in Thread |-> task'[u]]
        /\ \A u \in Thread : task'[u] = NoTask \/ InHand(task'[u])
    BY <1>4, <1>6, HandOK
  <1>8. TypeInv'
    BY <1>2, <1>6, <1>7 DEF Fetch, TypeInv, ruleVars, InHand
  <1> QED BY <1>1, <1>2, <1>4, <1>5, <1>8 DEF h

OnRules(t) == Check(t) \/ SeeValid(t) \/ Install(t) \/ InstallFails(t) \/ Dismantle(t)
GoesOn(t) == \E k : /\ k # NoTask /\ InHand(k) /\ k[1].of = task[t][1].of
                    /\ task' = [task EXCEPT ![t] = k]

\* Whatever a thread does with a rule, it goes on with the same work.
LEMMA OnRulesTyped ==
    ASSUME TypeInv, NEW t \in Thread, OnRules(t)
    PROVE  /\ TypeInv' /\ GoesOn(t) /\ task[t] # NoTask
           /\ UNCHANGED << parent, inEvents, outEvents, responses, members >>
  <1>1. /\ task[t] # NoTask /\ task[t][1].rest # << >>
        /\ UNCHANGED << parent, inEvents, outEvents, responses, members, bytes, collecting, answers >>
    <2>1. task[t] # NoTask
      BY DEF OnRules, Check, SeeValid, Install, InstallFails, Dismantle, Doing
    <2>2. task[t][1].seen => task[t][1].rest # << >>
      BY <2>1, TaskOK
    <2> QED BY <2>1, <2>2 DEF OnRules, OnRule, Check, SeeValid, Install, InstallFails, Dismantle
  <1>2. Next1(t) \in Rule
    BY <1>1, NextOK
  <1>3. \A s \in States : [state EXCEPT ![Next1(t)] = s] \in [Rule -> States]
    BY DEF TypeInv
  <1>4. /\ state' \in [Rule -> States] /\ table' \subseteq Rule
        /\ run' \in {"up", "waiting", "ended", "aborted"}
    <2>1. CASE Check(t)
      BY <1>3, <2>1 DEF Check, TypeInv, States
    <2>2. CASE SeeValid(t)
      BY <2>2 DEF SeeValid, TypeInv
    <2>3. CASE Install(t)
      BY <1>2, <1>3, <2>3 DEF Install, TypeInv, States
    <2>4. CASE InstallFails(t)
      BY <2>4 DEF InstallFails, TypeInv
    <2>5. CASE Dismantle(t)
      BY <1>3, <2>5 DEF Dismantle, TypeInv, States
    <2> QED BY <2>1, <2>2, <2>3, <2>4, <2>5 DEF OnRules
  <1>5. GoesOn(t)
    <2>1. CASE Advance(t)
      BY <1>1, <2>1, AdvanceOK DEF GoesOn
    <2>2. CASE ~Advance(t)
      <3> DEFINE e == task[t][1]
                 n == [e EXCEPT !.seen = TRUE]
      <3>1. task' = [task EXCEPT ![t] = << [@[1] EXCEPT !.seen = TRUE] >>]
        BY <2>2 DEF OnRules, Check, SeeValid, Install, InstallFails, Dismantle
      <3>2. task' = [task EXCEPT ![t] = << n >>]
        BY <3>1 DEF TypeInv
      <3>3. e \in Task /\ e.rest # << >>
        BY <1>1, TaskOK
      <3>4. n \in Task /\ n.rest # << >> /\ n.of = e.of
        BY <3>3 DEF Task
      <3>5. InHand(<< n >>) /\ << n >>[1].of = e.of /\ << n >> # NoTask
        BY <3>4 DEF InHand, NoTask
      <3> HIDE DEF n
      <3> QED BY <3>2, <3>5 DEF GoesOn
    <2> QED BY <2>1, <2>2
  <1>6. /\ task' = [u \in Thread |-> task'[u]]
        /\ \A u \in Thread : task'[u] = NoTask \/ InHand(task'[u])
    BY <1>5, HandOK DEF GoesOn
  <1>7. TypeInv'
    BY <1>1, <1>4, <1>6 DEF TypeInv, InHand
  <1> QED BY <1>1, <1>5, <1>7

LEMMA RespondTyped ==
    ASSUME TypeInv, NEW t \in Thread, Respond(t)
    PROVE  TypeInv' /\ task[t] # NoTask /\ Finished(t) \in Entry /\ Finished(t).of = task[t][1].of
  <1>1. task[t] # NoTask
    BY DEF Respond
  <1>2. Finished(t) \in Entry /\ Finished(t).of = task[t][1].of
    BY <1>1, TaskOK DEF Finished, Entry
  <1>3. outEvents' \in Seq(Entry)
    BY <1>2, AppendProperties DEF Respond, TypeInv
  <1>4. /\ task' = [u \in Thread |-> task'[u]]
        /\ \A u \in Thread : task'[u] = NoTask \/ InHand(task'[u])
    BY HandOK DEF Respond
  <1>5. \A u \in Thread : task'[u] = NoTask \/ InHand(task[u])'
    BY <1>4 DEF InHand
  <1>6. /\ bytes' = bytes + 1
        /\ UNCHANGED << parent, inEvents, responses, collecting, ruleVars, answers, run >>
    BY DEF Respond
  <1>7. TypeInv'
    BY <1>3, <1>4, <1>5, <1>6 DEF TypeInv, ruleVars
  <1> QED BY <1>1, <1>2, <1>7

LEMMA CollectTyped ==
    ASSUME TypeInv, ReadP \/ Collect \/ Stop \/ WaitReturns
    PROVE  TypeInv'
  <1>1. CASE ReadP
    BY <1>1 DEF ReadP, TypeInv, InHand, ruleVars
  <1>2. CASE Collect
    <2>1. responses' \in Seq(Entry) /\ outEvents' \in Seq(Entry)
      BY <1>2, ConcatProperties, EmptySeq DEF Collect, TypeInv
    <2> QED BY <1>2, <2>1 DEF Collect, TypeInv, InHand, ruleVars
  <1>3. CASE Stop \/ WaitReturns
    BY <1>3 DEF Stop, WaitReturns, TypeInv, InHand, ruleVars
  <1> QED BY <1>1, <1>2, <1>3

\* The oldest response
LEMMA HeadOK ==
    ASSUME TypeInv, responses # << >>
    PROVE  /\ Head(responses) \in Entry /\ Tail(responses) \in Seq(Entry)
           /\ Head(responses).of \in Parent /\ Head(responses).rules \in Seq(Rule)
  <1>1. Head(responses) \in Entry /\ Tail(responses) \in Seq(Entry)
    BY HeadTailProperties DEF TypeInv
  <1> QED BY <1>1 DEF Entry

LEMMA DoneOK ==
    ASSUME NEW now \in [Parent -> {"absent", "new", "processing", "done", "freed"}], NEW p \in Parent
    PROVE  PutOnDone(now, p) \in [Parent -> {"absent", "new", "processing", "done", "freed"}]
  BY DEF PutOnDone

LEMMA ResponsesTyped ==
    ASSUME TypeInv, RespondAdd \/ RespondActivate \/ RespondRemove \/ FreedParent
    PROVE  TypeInv' /\ responses # << >>
  <1> DEFINE p == Head(responses).of
             b == p[2]
             Now == {"absent", "new", "processing", "done", "freed"}
  <1>1. responses # << >>
    BY DEF RespondAdd, RespondActivate, RespondRemove, FreedParent, TakeResponse
  <1>2. /\ p \in Parent /\ Tail(responses) \in Seq(Entry) /\ Head(responses).rules \in Seq(Rule)
        /\ b \in Batch
    BY <1>1, HeadOK, ParentParts
  <1>3. PutOnDone(parent, p) \in [Parent -> Now]
    BY <1>2, DoneOK DEF TypeInv
  <1>4. \A a \in {"error", "added", "deleted"} :
           Answer(p, a) => answers' \in [Parent -> Seq({"error", "added", "deleted"})]
    BY <1>2 DEF Answer, TypeInv
  <1> HIDE DEF p
  <1>5. CASE RespondAdd
    <2>1. Valid(Head(responses).rules) \in Seq(Rule)
      BY <1>2, KeptOK DEF Valid
    <2>2. members' = [members EXCEPT ![b] = Valid(Head(responses).rules)]
      BY <1>5 DEF RespondAdd, p
    <2>3. members' \in [Batch -> Seq(Rule)]
      BY <1>2, <2>1, <2>2 DEF TypeInv
    <2>4. parent' \in [Parent -> Now]
      BY <1>3, <1>5 DEF RespondAdd, p
    <2>5. answers' \in [Parent -> Seq({"error", "added", "deleted"})]
      BY <1>4, <1>5 DEF RespondAdd, p
    <2> QED BY <1>1, <1>2, <1>5, <2>3, <2>4, <2>5 DEF RespondAdd, TypeInv, InHand, ruleVars
  <1>6. CASE RespondActivate
    BY <1>2, <1>3, <1>6 DEF RespondActivate, TypeInv, InHand, ruleVars, p
  <1>7. CASE RespondRemove
    <2>1. members' \in [Batch -> Seq(Rule)] /\ state' \in [Rule -> States]
      BY <1>7, EmptySeq DEF RespondRemove, TypeInv, States
    <2>2. WithoutRules(Tail(responses), b) \in Seq(Entry)
      BY <1>2, CountWithout
    <2>3. Unscheduled(b) \in [Parent -> Now]
      BY DEF Unscheduled, TypeInv
    <2>4. PutOnDone(Unscheduled(b), p) \in [Parent -> Now]
      BY <1>2, <2>3, DoneOK
    <2>5. answers' \in [Parent -> Seq({"error", "added", "deleted"})]
      BY <1>4, <1>7 DEF RespondRemove, Reply, p, TypeInv
    <2>6. responses' \in Seq(Entry) /\ parent' \in [Parent -> Now]
      BY <1>7, <2>2, <2>4 DEF RespondRemove, p
    <2> QED BY <1>1, <1>7, <2>1, <2>5, <2>6 DEF RespondRemove, TypeInv, InHand
  <1>8. CASE FreedParent
    BY <1>2, <1>8 DEF FreedParent, TypeInv, InHand, ruleVars
  <1> QED BY <1>1, <1>5, <1>6, <1>7, <1>8

LEMMA InitTyped == Init => TypeInv
  <1> SUFFICES ASSUME Init PROVE TypeInv
    OBVIOUS
  <1>1. task = [t \in Thread |-> task[t]] /\ \A t \in Thread : task[t] = NoTask
    BY DEF Init
  <1>2. << >> \in Seq(Entry) /\ << >> \in Seq(Rule) /\ << >> \in Seq({"error", "added", "deleted"})
    BY EmptySeq
  <1> QED BY <1>1, <1>2 DEF Init, TypeInv, States

LEMMA NextCases ==
    ASSUME Next
    PROVE  \/ \E b \in Batch : Submissions(b) \/ Requests(b) \/ Scheduled(b)
           \/ \E t \in Thread : Fetch(t) \/ OnRules(t) \/ Respond(t)
           \/ ReadP \/ Collect \/ Stop \/ WaitReturns
           \/ RespondAdd \/ RespondActivate \/ RespondRemove \/ FreedParent
  BY DEF Next, Main, Worker, Work, Clients, Submissions, Requests, Scheduled, OnRules, Thread

\* Queues hold processor events, hands hold one of them or nothing, parents are
\* in one of their five states.
THEOREM TypeCorrect == Spec => []TypeInv
  <1>1. ASSUME TypeInv, [Next]_vars PROVE TypeInv'
    <2>1. CASE UNCHANGED vars
      BY <1>1, <2>1 DEF vars, ruleVars, TypeInv, InHand
    <2>2. CASE Next
      BY <1>1, <2>2, NextCases, HandlersTyped, FetchTyped, OnRulesTyped, RespondTyped,
         CollectTyped, ResponsesTyped
    <2> QED BY <1>1, <2>1, <2>2
  <1> QED BY <1>1, InitTyped, PTL DEF Spec

-----------------------------------------------------------------------------
(* Where work goes *)

One(c) == IF c THEN 1 ELSE 0

LEMMA WorkType ==
    ASSUME TypeInv, NEW p
    PROVE  /\ Count(inEvents, p) \in Nat /\ Count(outEvents, p) \in Nat
           /\ Count(responses, p) \in Nat /\ HeldBy(task, p) \in Nat /\ WorkOf(p) \in Nat
  <1>1. /\ Count(inEvents, p) \in Nat /\ Count(outEvents, p) \in Nat /\ Count(responses, p) \in Nat
    BY CountType DEF TypeInv
  <1>2. HeldBy(task, p) = One(Holds(task["main"], p)) + One(Holds(task["worker"], p))
    BY HeldSum DEF One
  <1>3. HeldBy(task, p) \in Nat
    BY <1>2 DEF One
  <1> QED BY <1>1, <1>3 DEF WorkOf

\* A handler adds one piece of work.
LEMMA PassedOn ==
    ASSUME TypeInv, NEW q \in Parent, NEW rules \in Seq(Rule), PassOn(q, rules), NEW p
    PROVE  WorkOf(p)' = WorkOf(p) + One(q = p)
  <1> DEFINE e == [of |-> q, rules |-> rules]
  <1>1. e \in Entry /\ e.of = q
    BY DEF Entry
  <1> HIDE DEF e
  <1>2. inEvents' = Append(inEvents, e)
    BY DEF PassOn, e
  <1>3. inEvents \in Seq(Entry)
    BY DEF TypeInv
  <1>4. Count(inEvents', p) = Count(inEvents, p) + One(q = p)
    BY <1>1, <1>2, <1>3, CountAppend DEF One
  <1> QED BY <1>4, WorkType DEF PassOn, WorkOf, One

\* A thread takes work from the queue.
LEMMA Fetched ==
    ASSUME TypeInv, NEW t \in Thread, Fetch(t), NEW p
    PROVE  WorkOf(p)' = WorkOf(p)
  <1> DEFINE h == Head(inEvents)
             k == Begun(h)
  <1>1. inEvents # << >> /\ k[1].of = h.of /\ k # NoTask
    BY FetchTyped
  <1>2. inEvents \in Seq(Entry) /\ task = [u \in Thread |-> task[u]]
    BY DEF TypeInv
  <1>3. Count(inEvents, p) = One(h.of = p) + Count(Tail(inEvents), p)
    BY <1>1, <1>2, CountTail DEF One
  <1>4. task' = [task EXCEPT ![t] = k] /\ task[t] = NoTask
    BY DEF Fetch
  <1> HIDE DEF k, h
  <1>5. /\ HeldBy(task', p) + One(Holds(task[t], p)) = HeldBy(task, p) + One(Holds(k, p))
        /\ HeldBy(task', p) \in Nat
    BY <1>2, <1>4, HeldUpdate DEF One
  <1>6. One(Holds(task[t], p)) = 0 /\ One(Holds(k, p)) = One(h.of = p)
    BY <1>1, <1>4 DEF Holds, One
  <1>7. /\ inEvents' = Tail(inEvents) /\ Count(Tail(inEvents), p) \in Nat
        /\ outEvents' = outEvents /\ responses' = responses
    BY <1>1, <1>2, CountTail DEF Fetch
  <1>8. /\ One(h.of = p) \in Nat
        /\ Count(outEvents, p) \in Nat /\ Count(responses, p) \in Nat /\ HeldBy(task, p) \in Nat
    BY WorkType DEF One
  <1>9. HeldBy(task', p) = HeldBy(task, p) + One(h.of = p)
    BY <1>5, <1>6, <1>8
  <1> QED BY <1>3, <1>7, <1>8, <1>9 DEF WorkOf

\* It keeps it until it responds.
LEMMA WentOn ==
    ASSUME TypeInv, NEW t \in Thread, OnRules(t), NEW p
    PROVE  WorkOf(p)' = WorkOf(p)
  <1>1. PICK k : /\ k # NoTask /\ k[1].of = task[t][1].of
                 /\ task' = [task EXCEPT ![t] = k]
    BY OnRulesTyped DEF GoesOn
  <1>2. task[t] # NoTask /\ UNCHANGED << inEvents, outEvents, responses >>
    BY OnRulesTyped
  <1>3. Holds(k, p) <=> Holds(task[t], p)
    BY <1>1, <1>2 DEF Holds
  <1>4. /\ HeldBy(task', p) + One(Holds(task[t], p)) = HeldBy(task, p) + One(Holds(k, p))
        /\ HeldBy(task', p) \in Nat /\ HeldBy(task, p) \in Nat
    BY <1>1, HeldUpdate DEF One, TypeInv
  <1>5. HeldBy(task', p) = HeldBy(task, p)
    BY <1>3, <1>4 DEF One
  <1> QED BY <1>2, <1>5 DEF WorkOf

LEMMA Responded ==
    ASSUME TypeInv, NEW t \in Thread, Respond(t), NEW p
    PROVE  WorkOf(p)' = WorkOf(p)
  <1> DEFINE e == Finished(t)
  <1>1. task[t] # NoTask /\ e \in Entry /\ e.of = task[t][1].of
    BY RespondTyped
  <1> HIDE DEF e
  <1>2. /\ outEvents' = Append(outEvents, e) /\ task' = [task EXCEPT ![t] = NoTask]
        /\ inEvents' = inEvents /\ responses' = responses
    BY DEF Respond, e
  <1>3. Count(outEvents', p) = Count(outEvents, p) + One(e.of = p)
    BY <1>1, <1>2, CountAppend DEF One, TypeInv
  <1>4. /\ HeldBy(task', p) + One(Holds(task[t], p)) = HeldBy(task, p) + One(Holds(NoTask, p))
        /\ HeldBy(task', p) \in Nat
    BY <1>2, HeldUpdate DEF One, TypeInv
  <1>5. One(Holds(task[t], p)) = One(e.of = p) /\ One(Holds(NoTask, p)) = 0
    BY <1>1 DEF Holds, One
  <1> QED BY <1>2, <1>3, <1>4, <1>5, WorkType DEF WorkOf, One

LEMMA Collected ==
    ASSUME TypeInv, ReadP \/ Collect \/ Stop \/ WaitReturns, NEW p
    PROVE  WorkOf(p)' = WorkOf(p)
  <1>1. CASE Collect
    <2>1. /\ responses' = responses \o outEvents /\ outEvents' = << >>
          /\ inEvents' = inEvents /\ task' = task
      BY <1>1 DEF Collect
    <2>2. Count(responses', p) = Count(responses, p) + Count(outEvents, p)
      BY <2>1, CountConcat DEF TypeInv
    <2>3. Count(outEvents', p) = 0
      BY <2>1, CountEmpty
    <2> QED BY <2>1, <2>2, <2>3, WorkType DEF WorkOf
  <1>2. CASE ReadP \/ Stop \/ WaitReturns
    BY <1>2 DEF ReadP, Stop, WaitReturns, WorkOf
  <1> QED BY <1>1, <1>2

\* Handling a response ends the work of one parent.
LEMMA Taken ==
    ASSUME TypeInv, responses # << >>, responses' = Tail(responses),
           UNCHANGED << inEvents, outEvents, task >>, NEW p
    PROVE  /\ WorkOf(p)' = WorkOf(p) - One(Head(responses).of = p)
           /\ Head(responses).of = p => WorkOf(p) # 0
  <1>1. /\ Count(responses, p) = One(Head(responses).of = p) + Count(Tail(responses), p)
        /\ Count(Tail(responses), p) \in Nat
    BY CountTail DEF One, TypeInv
  <1> QED BY <1>1, WorkType DEF WorkOf, One

\* Handling the response to a removal ends the waiting responses that hold its
\* rules, too.
LEMMA TakenWith ==
    ASSUME TypeInv, RespondRemove, NEW p
    PROVE  /\ WorkOf(p)' \in Nat /\ WorkOf(p)' <= WorkOf(p)
           /\ ~HoldsRules(p, Head(responses).of[2]) => WorkOf(p)' = WorkOf(p)
           /\ Head(responses).of = p => WorkOf(p)' < WorkOf(p)
  <1> DEFINE h == Head(responses).of
             r == Tail(responses)
             b == h[2]
  <1>1. responses # << >>
    BY DEF RespondRemove, TakeResponse
  <1>2. r \in Seq(Entry) /\ h \in Parent
    BY <1>1, HeadOK
  <1>3. /\ Count(responses, p) = One(h = p) + Count(r, p)
        /\ Count(r, p) \in Nat
    BY <1>1, CountTail DEF One, TypeInv
  <1>4. h[1] # "add"
    BY ThreadsAssumption DEF RespondRemove, TakeResponse, Removal
  <1>5. /\ responses' = WithoutRules(r, b)
        /\ UNCHANGED << inEvents, outEvents, task >>
    BY DEF RespondRemove
  <1> HIDE DEF h, r
  <1>6. Count(responses', p) = IF HoldsRules(p, b) THEN 0 ELSE Count(r, p)
    BY <1>2, <1>5, CountWithout
  <1>7. h = p => HoldsRules(p, b)
    BY <1>4 DEF HoldsRules
  <1>8. /\ Count(responses', p) \in Nat /\ Count(responses', p) <= Count(responses, p)
        /\ ~HoldsRules(p, b) => Count(responses', p) = Count(responses, p)
        /\ h = p => Count(responses', p) < Count(responses, p)
    BY <1>3, <1>6, <1>7 DEF One
  <1> QED BY <1>5, <1>8, WorkType DEF WorkOf, h

-----------------------------------------------------------------------------
(* The invariant is kept *)

LEMMA WorkKept ==
    ASSUME ThreadInv, TypeInv', \A p : WorkOf(p)' = WorkOf(p), UNCHANGED << parent, members >>
    PROVE  ThreadInv'
  <1>1. OnceInv'
    BY DEF ThreadInv, OnceInv
  <1>2. AddInv'
    BY DEF ThreadInv, AddInv
  <1>3. FirstInv'
    BY DEF ThreadInv, FirstInv
  <1> QED BY <1>1, <1>2, <1>3 DEF ThreadInv

\* Nothing is about of an event that is passed on.  A batch that has no rules
\* yet has only its submission passed on.
LEMMA PassedOnKept ==
    ASSUME ThreadInv, TypeInv', NEW q \in Parent, NEW rules \in Seq(Rule), PassOn(q, rules),
           parent[q] \in {"absent", "new"},
           q[1] = "add" \/ members[q[2]] # << >> \/ parent[q] = "new"
    PROVE  ThreadInv'
  <1>1. /\ \A p : WorkOf(p)' = WorkOf(p) + One(q = p)
        /\ \A p \in Parent : parent'[p] = IF p = q THEN "processing" ELSE parent[p]
        /\ members' = members
    BY PassedOn DEF PassOn, ThreadInv, TypeInv, ruleVars
  <1>2. WorkOf(q) = 0
    BY DEF ThreadInv, OnceInv
  <1>3. \A p \in Parent : p # q => WorkOf(p)' = WorkOf(p)
    BY <1>1, WorkType DEF ThreadInv, One
  <1>4. WorkOf(q)' = 1
    BY <1>1, <1>2 DEF One
  <1>5. OnceInv'
    BY <1>1, <1>3, <1>4 DEF ThreadInv, OnceInv
  <1>6. AddInv'
    <2> SUFFICES ASSUME NEW b \in Batch
                 PROVE  /\ parent'[<< "add", b >>] \in {"absent", "processing", "done", "freed"}
                        /\ WorkOf(<< "add", b >>)'
                             = IF parent'[<< "add", b >>] = "processing" THEN 1 ELSE 0
      BY DEF AddInv
    <2>1. << "add", b >> \in Parent
      BY ParentOK DEF Kinds
    <2> QED BY <1>1, <1>3, <1>4, <2>1 DEF ThreadInv, AddInv
  <1>7. FirstInv'
    <2> SUFFICES ASSUME NEW b \in Batch, parent'[<< "add", b >>] # "done"
                 PROVE  /\ members'[b] = << >>
                        /\ parent'[<< "activate", b >>] = "absent"
                        /\ parent'[<< "remove", b >>] = "absent"
                        /\ \A d \in Remover : parent'[<< d, b >>] \in {"absent", "freed"}
                                             /\ WorkOf(<< d, b >>)' = 0
      BY DEF FirstInv
    <2>1. /\ << "add", b >> \in Parent /\ << "activate", b >> \in Parent
          /\ << "remove", b >> \in Parent /\ \A d \in Remover : << d, b >> \in Parent
      BY ParentOK DEF Kinds
    <2>2. parent[<< "add", b >>] # "done"
      BY <1>1, <2>1
    <2>3. /\ members[b] = << >>
          /\ parent[<< "activate", b >>] = "absent" /\ parent[<< "remove", b >>] = "absent"
          /\ \A d \in Remover : parent[<< d, b >>] \in {"absent", "freed"}
                               /\ WorkOf(<< d, b >>) = 0
      BY <2>2 DEF ThreadInv, FirstInv
    <2>4. q \notin {<< "activate", b >>, << "remove", b >>} /\ \A d \in Remover : q # << d, b >>
      <3> SUFFICES ASSUME NEW k \in {"activate", "remove"} \cup Remover, q = << k, b >>
                   PROVE  FALSE
        OBVIOUS
      <3>1. q[1] # "add" /\ q[2] = b
        BY ThreadsAssumption
      <3>2. parent[q] # "new" /\ members[q[2]] = << >>
        BY <2>3, <3>1
      <3> QED BY <3>1, <3>2
    <2> QED BY <1>1, <1>3, <2>1, <2>3, <2>4
  <1> QED BY <1>5, <1>6, <1>7 DEF ThreadInv

LEMMA HandlersKept ==
    ASSUME ThreadInv, NEW b \in Batch, Submissions(b) \/ Requests(b) \/ Scheduled(b)
    PROVE  ThreadInv'
  <1>1. /\ << "add", b >> \in Parent /\ << "activate", b >> \in Parent
        /\ << "remove", b >> \in Parent /\ \A d \in Remover : << d, b >> \in Parent
    BY ParentOK DEF Kinds
  <1>2. members[b] \in Seq(Rule) /\ RulesOf[b] \in Seq(Rule)
    BY ThreadsAssumption DEF ThreadInv, TypeInv
  <1>3. TypeInv'
    BY HandlersTyped DEF ThreadInv
  <1>4. CASE HandleAdd(b)
    BY <1>1, <1>2, <1>3, <1>4, PassedOnKept DEF HandleAdd
  <1>5. CASE HandleActivate(b)
    BY <1>1, <1>2, <1>3, <1>5, PassedOnKept DEF HandleActivate
  <1>6. CASE HandleRemove(b)
    BY <1>1, <1>2, <1>3, <1>6, PassedOnKept DEF HandleRemove
  <1>7. ASSUME NEW d \in Remover, HandleRequest(d, b) PROVE ThreadInv'
    BY <1>1, <1>2, <1>3, <1>7, PassedOnKept DEF HandleRequest
  <1>8. CASE HandleAddFails(b) \/ \E d \in Remover : HandleRequestFails(d, b)
    <2>1. PICK q \in Parent : /\ q = << "add", b >> \/ \E d \in Remover : q = << d, b >>
                              /\ parent[q] = "absent" /\ parent' = [parent EXCEPT ![q] = "freed"]
      BY <1>1, <1>8 DEF HandleAddFails, HandleRequestFails
    <2>2. \A p : WorkOf(p)' = WorkOf(p)
      BY <1>8 DEF HandleAddFails, HandleRequestFails, WorkOf
    <2>3. members' = members
      BY <1>8 DEF HandleAddFails, HandleRequestFails, ruleVars
    <2>4. \A p \in Parent : parent'[p] = IF p = q THEN "freed" ELSE parent[p]
      BY <2>1 DEF ThreadInv, TypeInv
    <2>5. OnceInv'
      BY <2>2, <2>3, <2>4 DEF ThreadInv, OnceInv
    <2>6. AddInv'
      <3> SUFFICES ASSUME NEW c \in Batch
                   PROVE  /\ parent'[<< "add", c >>] \in {"absent", "processing", "done", "freed"}
                          /\ WorkOf(<< "add", c >>)'
                               = IF parent'[<< "add", c >>] = "processing" THEN 1 ELSE 0
        BY DEF AddInv
      <3>1. << "add", c >> \in Parent
        BY ParentOK DEF Kinds
      <3> QED BY <2>1, <2>2, <2>4, <3>1 DEF ThreadInv, AddInv
    <2>7. FirstInv'
      <3> SUFFICES ASSUME NEW c \in Batch, parent'[<< "add", c >>] # "done"
                   PROVE  /\ members'[c] = << >>
                          /\ parent'[<< "activate", c >>] = "absent"
                          /\ parent'[<< "remove", c >>] = "absent"
                          /\ \A d \in Remover : parent'[<< d, c >>] \in {"absent", "freed"}
                                               /\ WorkOf(<< d, c >>)' = 0
        BY DEF FirstInv
      <3>1. /\ << "add", c >> \in Parent /\ << "activate", c >> \in Parent
            /\ << "remove", c >> \in Parent /\ \A d \in Remover : << d, c >> \in Parent
        BY ParentOK DEF Kinds
      <3>2. parent[<< "add", c >>] # "done"
        BY <2>1, <2>4, <3>1
      <3>3. /\ members[c] = << >>
            /\ parent[<< "activate", c >>] = "absent" /\ parent[<< "remove", c >>] = "absent"
            /\ \A d \in Remover : parent[<< d, c >>] \in {"absent", "freed"}
                                 /\ WorkOf(<< d, c >>) = 0
        BY <3>2 DEF ThreadInv, FirstInv
      <3>4. q # << "activate", c >> /\ q # << "remove", c >>
        BY <2>1, ThreadsAssumption
      <3> QED BY <2>2, <2>3, <2>4, <3>1, <3>3, <3>4
    <2> QED BY <1>3, <2>5, <2>6, <2>7 DEF ThreadInv
  <1> QED BY <1>4, <1>5, <1>6, <1>7, <1>8 DEF Submissions, Requests, Scheduled

LEMMA ThreadsKept ==
    ASSUME ThreadInv,
           \/ \E t \in Thread : Fetch(t) \/ OnRules(t) \/ Respond(t)
           \/ ReadP \/ Collect \/ Stop \/ WaitReturns
    PROVE  ThreadInv'
  <1> USE DEF ThreadInv
  <1>1. ASSUME NEW t \in Thread, Fetch(t) PROVE ThreadInv'
    <2>1. UNCHANGED << parent, members >>
      BY <1>1 DEF Fetch, ruleVars
    <2> QED BY <1>1, <2>1, FetchTyped, Fetched, WorkKept
  <1>2. ASSUME NEW t \in Thread, OnRules(t) PROVE ThreadInv'
    BY <1>2, OnRulesTyped, WentOn, WorkKept
  <1>3. ASSUME NEW t \in Thread, Respond(t) PROVE ThreadInv'
    <2>1. UNCHANGED << parent, members >>
      BY <1>3 DEF Respond, ruleVars
    <2> QED BY <1>3, <2>1, RespondTyped, Responded, WorkKept
  <1>4. CASE ReadP \/ Collect \/ Stop \/ WaitReturns
    <2>1. UNCHANGED << parent, members >>
      BY <1>4 DEF ReadP, Collect, Stop, WaitReturns, ruleVars
    <2> QED BY <1>4, <2>1, CollectTyped, Collected, WorkKept
  <1> QED BY <1>1, <1>2, <1>3, <1>4

\* The response to a submission: its batch gets its rules, and they are scheduled.
LEMMA AddedKept ==
    ASSUME ThreadInv, RespondAdd
    PROVE  ThreadInv'
  <1>0. PICK q : q = Head(responses).of
    OBVIOUS
  <1> DEFINE b == q[2]
             act == << "activate", b >>
             rem == << "remove", b >>
  <1>1. responses # << >> /\ TypeInv'
    BY ResponsesTyped DEF ThreadInv
  <1>2. /\ q \in Parent /\ q[1] = "add" /\ b \in Batch /\ q = << "add", b >>
    <2>1. q \in Parent
      BY <1>0, <1>1, HeadOK DEF ThreadInv
    <2>2. q[1] = "add"
      BY <1>0 DEF RespondAdd, TakeResponse
    <2> QED BY <2>1, <2>2, ParentParts
  <1>3. act \in Parent /\ rem \in Parent /\ act # q /\ rem # q
        /\ act[1] = "activate" /\ act[2] = b /\ rem[1] = "remove" /\ rem[2] = b
    BY <1>2, ParentOK DEF Kinds
  <1>4. responses' = Tail(responses) /\ UNCHANGED << inEvents, outEvents, task >>
    BY DEF RespondAdd
  <1>5. /\ \A p : WorkOf(p)' = WorkOf(p) - One(q = p)
        /\ WorkOf(q) # 0
    BY <1>0, <1>1, <1>4, Taken DEF ThreadInv
  <1>6. \E v : /\ members' = [members EXCEPT ![b] = v]
               /\ parent' = IF v = << >> THEN PutOnDone(parent, q)
                            ELSE [PutOnDone(parent, q) EXCEPT ![act] = "new", ![rem] = "new"]
    BY <1>0 DEF RespondAdd
  <1> HIDE DEF b, act, rem
  <1>7. parent[q] = "processing" /\ WorkOf(q) = 1
    BY <1>2, <1>5 DEF ThreadInv, AddInv
  <1>8. /\ parent[act] = "absent" /\ parent[rem] = "absent"
        /\ \A d \in Remover : parent[<< d, b >>] \in {"absent", "freed"}
    BY <1>2, <1>7 DEF ThreadInv, FirstInv, act, rem
  <1>9. WorkOf(act) = 0 /\ WorkOf(rem) = 0
    BY <1>3, <1>8 DEF ThreadInv, OnceInv
  <1>10. WorkOf(q)' = 0 /\ \A p : p # q => WorkOf(p)' = WorkOf(p)
    <2>1. \A p : WorkOf(p) \in Nat
      BY WorkType DEF ThreadInv
    <2> QED BY <1>5, <1>7, <2>1 DEF One
  <1>11. /\ parent'[q] = "done"
         /\ \A p \in Parent : p \notin {q, act, rem} => parent'[p] = parent[p]
         /\ \A p \in {act, rem} : parent'[p] \in {"absent", "new"}
         /\ \A c \in Batch : c # b => members'[c] = members[c]
    <2>1. PICK v : /\ members' = [members EXCEPT ![b] = v]
                   /\ parent' = IF v = << >> THEN PutOnDone(parent, q)
                                ELSE [PutOnDone(parent, q) EXCEPT ![act] = "new", ![rem] = "new"]
      BY <1>6
    <2>2. /\ PutOnDone(parent, q) \in [Parent -> {"absent", "new", "processing", "done", "freed"}]
          /\ PutOnDone(parent, q)[q] = "done"
          /\ \A p \in Parent : p # q => PutOnDone(parent, q)[p] = parent[p]
      BY <1>2, <1>7 DEF PutOnDone, ThreadInv, TypeInv
    <2>3. \A c \in Batch : c # b => members'[c] = members[c]
      BY <2>1 DEF ThreadInv, TypeInv
    <2>4. CASE v = << >>
      BY <1>3, <1>8, <2>1, <2>2, <2>3, <2>4
    <2>5. CASE v # << >>
      <3>1. parent' = [PutOnDone(parent, q) EXCEPT ![act] = "new", ![rem] = "new"]
        BY <2>1, <2>5
      <3>2. \A p \in Parent : parent'[p] = IF p \in {act, rem} THEN "new"
                                           ELSE PutOnDone(parent, q)[p]
        BY <2>2, <3>1
      <3> QED BY <1>2, <1>3, <2>2, <2>3, <3>2
    <2> QED BY <2>4, <2>5
  <1>12. OnceInv'
    <2> SUFFICES ASSUME NEW p \in Parent
                 PROVE  /\ WorkOf(p)' <= 1
                        /\ parent'[p] \in {"absent", "new"} => WorkOf(p)' = 0
                        /\ parent'[p] = "processing" /\ (p[1] = "add" \/ members'[p[2]] # << >>)
                             => WorkOf(p)' = 1
      BY DEF OnceInv
    <2>1. CASE p = q
      BY <1>10, <1>11, <2>1
    <2>2. CASE p \in {act, rem}
      BY <1>3, <1>9, <1>10, <1>11, <2>2
    <2>3. CASE p \notin {q, act, rem} /\ p[2] # b
      BY <1>10, <1>11, <2>3, ParentParts DEF ThreadInv, OnceInv
    <2>4. CASE p \notin {q, act, rem} /\ p[2] = b
      <3>1. \E d \in Remover : p = << d, b >>
        BY <1>2, <2>4, ParentParts DEF Kinds, act, rem
      <3>2. parent'[p] \in {"absent", "freed"}
        BY <1>8, <1>11, <2>4, <3>1
      <3> QED BY <1>10, <1>11, <2>4, <3>2 DEF ThreadInv, OnceInv
    <2> QED BY <2>1, <2>2, <2>3, <2>4
  <1>13. AddInv'
    <2> SUFFICES ASSUME NEW c \in Batch
                 PROVE  /\ parent'[<< "add", c >>] \in {"absent", "processing", "done", "freed"}
                        /\ WorkOf(<< "add", c >>)'
                             = IF parent'[<< "add", c >>] = "processing" THEN 1 ELSE 0
      BY DEF AddInv
    <2>1. << "add", c >> \in Parent /\ << "add", c >> \notin {act, rem}
      BY ParentOK DEF Kinds, act, rem
    <2>2. CASE << "add", c >> = q
      BY <1>10, <1>11, <2>2
    <2>3. CASE << "add", c >> # q
      BY <1>10, <1>11, <2>1, <2>3 DEF ThreadInv, AddInv
    <2> QED BY <2>2, <2>3
  <1>14. FirstInv'
    <2> SUFFICES ASSUME NEW c \in Batch, parent'[<< "add", c >>] # "done"
                 PROVE  /\ members'[c] = << >>
                        /\ parent'[<< "activate", c >>] = "absent"
                        /\ parent'[<< "remove", c >>] = "absent"
                        /\ \A d \in Remover : parent'[<< d, c >>] \in {"absent", "freed"}
                                             /\ WorkOf(<< d, c >>)' = 0
      BY DEF FirstInv
    <2>1. /\ << "add", c >> \in Parent /\ << "activate", c >> \in Parent
          /\ << "remove", c >> \in Parent /\ \A d \in Remover : << d, c >> \in Parent
      BY ParentOK DEF Kinds
    <2>2. c # b
      BY <1>2, <1>11
    <2>3. /\ << "add", c >> \notin {q, act, rem} /\ << "activate", c >> \notin {q, act, rem}
          /\ << "remove", c >> \notin {q, act, rem} /\ \A d \in Remover : << d, c >> \notin {q, act, rem}
      BY <1>2, <2>2 DEF act, rem
    <2>4. parent[<< "add", c >>] # "done"
      BY <1>11, <2>1, <2>3
    <2>5. /\ members[c] = << >>
          /\ parent[<< "activate", c >>] = "absent" /\ parent[<< "remove", c >>] = "absent"
          /\ \A d \in Remover : parent[<< d, c >>] \in {"absent", "freed"}
                               /\ WorkOf(<< d, c >>) = 0
      BY <2>4 DEF ThreadInv, FirstInv
    <2> QED BY <1>10, <1>11, <2>1, <2>2, <2>3, <2>5
  <1> QED BY <1>1, <1>12, <1>13, <1>14 DEF ThreadInv

\* Every other response belongs to a batch whose submission is done.
LEMMA SubmittedBefore ==
    ASSUME ThreadInv, NEW q \in Parent, q[1] # "add", WorkOf(q) # 0
    PROVE  parent[<< "add", q[2] >>] = "done" /\ parent[q] \notin {"absent", "new"}
  <1>1. /\ q[2] \in Batch
        /\ \/ q \in {<< "activate", q[2] >>, << "remove", q[2] >>}
           \/ \E d \in Remover : q = << d, q[2] >>
    BY ParentParts DEF Kinds
  <1>2. parent[q] \notin {"absent", "new"}
    BY DEF ThreadInv, OnceInv
  <1>3. ASSUME parent[<< "add", q[2] >>] # "done" PROVE FALSE
    <2>1. /\ parent[<< "activate", q[2] >>] = "absent" /\ parent[<< "remove", q[2] >>] = "absent"
          /\ \A d \in Remover : WorkOf(<< d, q[2] >>) = 0
      BY <1>1, <1>3 DEF ThreadInv, FirstInv
    <2>2. CASE q \in {<< "activate", q[2] >>, << "remove", q[2] >>}
      BY <1>2, <2>1, <2>2
    <2>3. CASE \E d \in Remover : q = << d, q[2] >>
      <3>1. PICK d \in Remover : q = << d, q[2] >>
        BY <2>3
      <3>2. WorkOf(q) = WorkOf(<< d, q[2] >>)
        BY <3>1
      <3> QED BY <2>1, <3>2
    <2> QED BY <1>1, <2>2, <2>3
  <1> QED BY <1>2, <1>3

\* What ends the work of one parent or of several, none of them a submission,
\* keeps the invariant if those parents, and no submission, are done or freed.
LEMMA EndedKept ==
    ASSUME ThreadInv, TypeInv', NEW b \in Batch, parent[<< "add", b >>] = "done",
           \A p \in Parent : WorkOf(p)' \in Nat /\ WorkOf(p)' <= WorkOf(p),
           \A p \in Parent : ~HoldsRules(p, b) => WorkOf(p)' = WorkOf(p) /\ parent'[p] = parent[p],
           \A p \in Parent : HoldsRules(p, b) =>
               \/ parent'[p] \in {"done", "freed"}
               \/ parent'[p] = parent[p] /\ (WorkOf(p)' = WorkOf(p) \/ members'[b] = << >>),
           \A c \in Batch : c # b => members'[c] = members[c],
           members'[b] \in {members[b], << >>}
    PROVE  ThreadInv'
  <1>1. OnceInv'
    <2> SUFFICES ASSUME NEW p \in Parent
                 PROVE  /\ WorkOf(p)' <= 1
                        /\ parent'[p] \in {"absent", "new"} => WorkOf(p)' = 0
                        /\ parent'[p] = "processing" /\ (p[1] = "add" \/ members'[p[2]] # << >>)
                             => WorkOf(p)' = 1
      BY DEF OnceInv
    <2>1. /\ WorkOf(p) <= 1 /\ WorkOf(p) \in Nat
          /\ parent[p] \in {"absent", "new"} => WorkOf(p) = 0
          /\ parent[p] = "processing" /\ (p[1] = "add" \/ members[p[2]] # << >>) => WorkOf(p) = 1
      BY WorkType DEF ThreadInv, OnceInv
    <2>2. WorkOf(p)' \in Nat /\ WorkOf(p)' <= WorkOf(p) /\ p[2] \in Batch
      BY ParentParts
    <2>3. CASE ~HoldsRules(p, b)
      BY <2>1, <2>2, <2>3 DEF HoldsRules
    <2>4. CASE HoldsRules(p, b)
      <3>1. p[2] = b /\ p[1] # "add"
        BY <2>4 DEF HoldsRules
      <3>2. CASE parent'[p] \in {"done", "freed"}
        BY <2>1, <2>2, <3>2
      <3>3. CASE parent'[p] = parent[p] /\ (WorkOf(p)' = WorkOf(p) \/ members'[b] = << >>)
        BY <2>1, <2>2, <3>1, <3>3
      <3> QED BY <2>4, <3>2, <3>3
    <2> QED BY <2>3, <2>4
  <1>2. AddInv'
    <2> SUFFICES ASSUME NEW c \in Batch
                 PROVE  /\ parent'[<< "add", c >>] \in {"absent", "processing", "done", "freed"}
                        /\ WorkOf(<< "add", c >>)'
                             = IF parent'[<< "add", c >>] = "processing" THEN 1 ELSE 0
      BY DEF AddInv
    <2>1. << "add", c >> \in Parent /\ ~HoldsRules(<< "add", c >>, b)
      BY ParentOK DEF Kinds, HoldsRules
    <2> QED BY <2>1 DEF ThreadInv, AddInv
  <1>3. FirstInv'
    <2> SUFFICES ASSUME NEW c \in Batch, parent'[<< "add", c >>] # "done"
                 PROVE  /\ members'[c] = << >>
                        /\ parent'[<< "activate", c >>] = "absent"
                        /\ parent'[<< "remove", c >>] = "absent"
                        /\ \A d \in Remover : parent'[<< d, c >>] \in {"absent", "freed"}
                                             /\ WorkOf(<< d, c >>)' = 0
      BY DEF FirstInv
    <2>1. /\ << "add", c >> \in Parent /\ << "activate", c >> \in Parent
          /\ << "remove", c >> \in Parent /\ \A d \in Remover : << d, c >> \in Parent
      BY ParentOK DEF Kinds
    <2>2. ~HoldsRules(<< "add", c >>, b)
      BY DEF HoldsRules
    <2>3. c # b /\ parent[<< "add", c >>] # "done"
      BY <2>1, <2>2
    <2>4. /\ ~HoldsRules(<< "activate", c >>, b) /\ ~HoldsRules(<< "remove", c >>, b)
          /\ \A d \in Remover : ~HoldsRules(<< d, c >>, b)
      BY <2>3 DEF HoldsRules
    <2>5. /\ members[c] = << >>
          /\ parent[<< "activate", c >>] = "absent" /\ parent[<< "remove", c >>] = "absent"
          /\ \A d \in Remover : parent[<< d, c >>] \in {"absent", "freed"}
                               /\ WorkOf(<< d, c >>) = 0
      BY <2>3 DEF ThreadInv, FirstInv
    <2> QED BY <2>1, <2>3, <2>4, <2>5
  <1> QED BY <1>1, <1>2, <1>3 DEF ThreadInv

LEMMA ResponsesKept ==
    ASSUME ThreadInv, RespondActivate \/ RespondRemove \/ FreedParent
    PROVE  ThreadInv'
  <1>0. PICK q : q = Head(responses).of
    OBVIOUS
  <1> DEFINE b == q[2]
  <1>1. responses # << >> /\ TypeInv'
    BY ResponsesTyped DEF ThreadInv
  <1>2. q \in Parent /\ b \in Batch /\ q = << q[1], b >>
    BY <1>0, <1>1, HeadOK, ParentParts DEF ThreadInv
  <1>3. \A p \in Parent : WorkOf(p) \in Nat
    BY WorkType DEF ThreadInv
  <1>4. CASE RespondActivate \/ FreedParent
    <2>1. responses' = Tail(responses) /\ UNCHANGED << inEvents, outEvents, task, members >>
      BY <1>4 DEF RespondActivate, FreedParent, ruleVars
    <2>2. /\ \A p : WorkOf(p)' = WorkOf(p) - One(q = p)
          /\ WorkOf(q) # 0
      BY <1>0, <1>1, <2>1, Taken DEF ThreadInv
    <2> HIDE DEF b
    <2>3. q[1] # "add" /\ parent'[q] \in {"done", "freed"}
          /\ \A p \in Parent : p # q => parent'[p] = parent[p]
      <3>1. CASE RespondActivate
        <4>1. q[1] = "activate" /\ parent' = PutOnDone(parent, q)
          BY <1>0, <3>1 DEF RespondActivate, TakeResponse
        <4> QED BY <1>2, <4>1 DEF PutOnDone, ThreadInv, TypeInv
      <3>2. CASE FreedParent
        <4>1. parent[q] = "freed" /\ parent' = parent
          BY <1>0, <3>2 DEF FreedParent
        <4>2. CASE q[1] = "add"
          BY <1>2, <2>2, <4>1, <4>2 DEF ThreadInv, AddInv
        <4> QED BY <4>1, <4>2
      <3> QED BY <1>4, <3>1, <3>2
    <2>4. parent[<< "add", b >>] = "done"
      BY <1>2, <2>2, <2>3, SubmittedBefore DEF b
    <2>5. \A p \in Parent : p # q => WorkOf(p)' = WorkOf(p)
      BY <1>3, <2>2 DEF One
    <2>6. WorkOf(q)' \in Nat /\ WorkOf(q)' <= WorkOf(q)
      BY <1>2, <1>3, <2>2 DEF One
    <2>7. HoldsRules(q, b)
      BY <2>3 DEF HoldsRules, b
    <2>8. \A p \in Parent : WorkOf(p)' \in Nat /\ WorkOf(p)' <= WorkOf(p)
      BY <1>3, <2>5, <2>6
    <2>9. \A p \in Parent : ~HoldsRules(p, b) => WorkOf(p)' = WorkOf(p) /\ parent'[p] = parent[p]
      BY <2>3, <2>5, <2>7
    <2>10. \A p \in Parent : HoldsRules(p, b) =>
               \/ parent'[p] \in {"done", "freed"}
               \/ parent'[p] = parent[p] /\ (WorkOf(p)' = WorkOf(p) \/ members'[b] = << >>)
      BY <2>3, <2>5
    <2> QED BY <1>1, <1>2, <2>1, <2>4, <2>8, <2>9, <2>10, EndedKept
  <1>5. CASE RespondRemove
    <2>1. /\ \A p : WorkOf(p)' \in Nat /\ WorkOf(p)' <= WorkOf(p)
          /\ \A p : ~HoldsRules(p, b) => WorkOf(p)' = WorkOf(p)
          /\ WorkOf(q)' < WorkOf(q)
      BY <1>0, <1>5, TakenWith DEF ThreadInv
    <2>2. /\ q[1] \in Removal /\ members' = [members EXCEPT ![b] = << >>]
          /\ parent' = PutOnDone(Unscheduled(b), q)
      BY <1>0, <1>5 DEF RespondRemove, TakeResponse
    <2> HIDE DEF b
    <2>3. WorkOf(q) # 0
      BY <1>2, <1>3, <2>1
    <2>4. parent[<< "add", b >>] = "done"
      BY <1>2, <2>2, <2>3, ThreadsAssumption, SubmittedBefore DEF Removal, b
    <2>5. HoldsRules(q, b)
      BY <2>2, ThreadsAssumption DEF HoldsRules, Removal, b
    <2>6. \A p \in Parent : ~HoldsRules(p, b) => parent'[p] = parent[p]
      BY <2>2, <2>5 DEF PutOnDone, Unscheduled, HoldsRules
    <2>7. \A p \in Parent : \/ parent'[p] \in {"done", "freed"}
                            \/ parent'[p] = parent[p]
      BY <2>2 DEF PutOnDone, Unscheduled
    <2>8. members'[b] = << >> /\ \A c \in Batch : c # b => members'[c] = members[c]
      BY <1>2, <2>2 DEF ThreadInv, TypeInv
    <2> QED BY <1>1, <1>2, <2>1, <2>4, <2>6, <2>7, <2>8, EndedKept
  <1> QED BY <1>4, <1>5

LEMMA InitKept == Init => ThreadInv
  <1> SUFFICES ASSUME Init PROVE ThreadInv
    OBVIOUS
  <1>1. TypeInv
    BY InitTyped
  <1>2. \A p : WorkOf(p) = 0
    <2> TAKE p
    <2>1. Count(inEvents, p) = 0 /\ Count(outEvents, p) = 0 /\ Count(responses, p) = 0
      BY CountEmpty DEF Init
    <2>2. ~Holds(task["main"], p) /\ ~Holds(task["worker"], p)
      BY DEF Init, Holds, Thread
    <2>3. HeldBy(task, p) = 0
      BY <2>2, HeldSum
    <2> QED BY <2>1, <2>3 DEF WorkOf
  <1>3. /\ \A k \in Kinds, b \in Batch : parent[<< k, b >>] = "absent"
        /\ \A p \in Parent : parent[p] = "absent" /\ \A b \in Batch : members[b] = << >>
    BY ParentOK DEF Init
  <1>4. OnceInv
    BY <1>2, <1>3 DEF OnceInv
  <1>5. AddInv
    BY <1>2, <1>3 DEF AddInv, Kinds
  <1>6. FirstInv
    BY <1>2, <1>3 DEF FirstInv, Kinds, Init
  <1> QED BY <1>1, <1>4, <1>5, <1>6 DEF ThreadInv

-----------------------------------------------------------------------------

LEMMA ThreadSafe == Spec => []ThreadInv
  <1>1. ASSUME ThreadInv, [Next]_vars PROVE ThreadInv'
    <2>1. CASE UNCHANGED vars
      <3>1. TypeInv'
        BY <1>1, <2>1 DEF ThreadInv, vars, ruleVars, TypeInv, InHand
      <3>2. \A p : WorkOf(p)' = WorkOf(p)
        BY <2>1 DEF vars, WorkOf
      <3>3. UNCHANGED << parent, members >>
        BY <2>1 DEF vars, ruleVars
      <3> QED BY <1>1, <3>1, <3>2, <3>3, WorkKept
    <2>2. CASE Next
      BY <1>1, <2>2, NextCases, HandlersKept, ThreadsKept, AddedKept, ResponsesKept
    <2> QED BY <1>1, <2>1, <2>2
  <1> QED BY <1>1, InitKept, PTL DEF Spec

\* While two threads take events from one queue and push to another: work that
\* was passed on is in one queue or one thread's hands, never in two places, and
\* is not lost before its response is handled, but for the responses that go
\* with the rules another removal takes away.
THEOREM OnceSafe == Spec => []PassedOnOnce
  <1>1. ThreadInv => PassedOnOnce
    <2>1. \A p : Places(p) = WorkOf(p)
      BY DEF Places, WorkOf, Count, At, HeldBy, Holds
    <2> QED BY <2>1 DEF ThreadInv, OnceInv, PassedOnOnce
  <1> QED BY <1>1, ThreadSafe, PTL
=============================================================================
