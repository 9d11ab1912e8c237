-------------------------- MODULE QOSProcessorProofs --------------------------
(***************************************************************************)
(* The source of flow identifiers and its user, QOSProcessor.              *)
(*                                                                         *)
(* FlowIdSource implements IdAllocator for every Limit.                    *)
(* For any rules, actions, number of identifiers, link capacity and number *)
(* of kernel faults: installed actions hold distinct identifiers that the  *)
(* pool does not offer, every htb action has its class in the kernel, what *)
(* is lost is paid for by a fault, modules stay loaded while they are      *)
(* used, and no rule is left half installed.                               *)
(***************************************************************************)
EXTENDS QOSProcessor, FlowIdSource, SequenceTheorems, FiniteSetTheorems,
        FunctionTheorems, WellFoundedInduction, TLAPS

-----------------------------------------------------------------------------
(* What newId and freeId do to the set of lent identifiers, for every Limit  *)
(* and every pool of the shape PoolOK.                                       *)

\* A sequence is one over any set that holds its elements.
LEMMA RetypeSeq ==
    ASSUME NEW S, NEW T, NEW s \in Seq(S), \A i \in 1 .. Len(s) : s[i] \in T
    PROVE  s \in Seq(T)
  <1>1. Len(s) \in Nat /\ s \in [1 .. Len(s) -> S]
    BY LenProperties
  <1>2. s \in [1 .. Len(s) -> T]
    BY <1>1
  <1>3. Seq(T) = UNION {[1 .. k -> T] : k \in Nat}
    BY SeqDef
  <1> QED BY <1>1, <1>2, <1>3, Zenon

\* A fresh pool is well formed and lends nothing (FlowIdSource constructor).
LEMMA NewPoolOK == PoolOK(NewPool) /\ InUse(NewPool) = {}
  <1>1. NewPool.freeIds = << >> /\ NewPool.num = 1
    BY DEF NewPool
  <1>2. Len(NewPool.freeIds) = 0 /\ NewPool.freeIds \in Seq(FirstId .. 1)
    BY <1>1
  <1>3. PoolOK(NewPool)
    BY <1>1, <1>2, LimitAssumption DEF PoolOK, NewPool
  <1>4. FirstId .. 1 = {}
    BY DEF FirstId
  <1> QED
    BY <1>1, <1>3, <1>4 DEF InUse

\* An identifier newId returns is valid and was not lent; the pool it leaves
\* lends exactly one identifier more (FlowIdSource::newId).
LEMMA NewIdFresh ==
    ASSUME NEW p, PoolOK(p), CanIssue(p)
    PROVE  /\ NextId(p) \in FlowIds
           /\ NextId(p) \notin InUse(p)
           /\ PoolOK(AfterNew(p))
           /\ InUse(AfterNew(p)) = InUse(p) \cup {NextId(p)}
  <1> DEFINE s == p.freeIds
             n == p.num
  <1>0. n \in Nat /\ n >= 1 /\ n < Limit /\ Limit \in Nat /\ FirstId = 2
    BY LimitAssumption DEF PoolOK, FirstId
  <1>1. CASE s = << >>
    <2>1. NextId(p) = n + 1 /\ AfterNew(p) = [num |-> n + 1, freeIds |-> << >>]
      BY <1>1 DEF NextId, AfterNew
    <2>2. n + 1 < Limit
      BY <1>1 DEF CanIssue
    <2>3. ToSet(s) = {} /\ ToSet(<< >>) = {}
      BY <1>1 DEF ToSet
    <2>4. PoolOK(AfterNew(p))
      <3>1. << >> \in Seq(FirstId .. n + 1) /\ Len(<< >>) = 0
        OBVIOUS
      <3> QED BY <2>1, <2>2, <3>1, <1>0 DEF PoolOK
    <2>5. InUse(p) = 2 .. n /\ InUse(AfterNew(p)) = 2 .. n + 1
      BY <2>1, <2>3, <1>0 DEF InUse
    <2> QED
      BY <2>1, <2>2, <2>4, <2>5, <1>0 DEF FlowIds
  <1>2. CASE s # << >>
    <2>1. NextId(p) = Head(s) /\ AfterNew(p) = [num |-> n, freeIds |-> Tail(s)]
      BY <1>2 DEF NextId, AfterNew
    <2>2. /\ s \in Seq(FirstId .. n) /\ Len(s) \in Nat \ {0}
          /\ \A i, j \in 1 .. Len(s) : s[i] = s[j] => i = j
      BY <1>2 DEF PoolOK
    <2>3. /\ Head(s) = s[1]
          /\ Tail(s) \in Seq(FirstId .. n) /\ Len(Tail(s)) = Len(s) - 1
          /\ \A i \in 1 .. Len(s) - 1 : Tail(s)[i] = s[i + 1]
      <3>1. Head(s) = s[1]
        BY <1>2, <2>2
      <3>2. /\ Tail(s) \in Seq(FirstId .. n) /\ Len(Tail(s)) = Len(s) - 1
            /\ \A i \in 1 .. Len(Tail(s)) : Tail(s)[i] = s[i + 1]
        BY <1>2, <2>2, HeadTailProperties
      <3> QED BY <3>1, <3>2
    <2>4. ToSet(Tail(s)) = ToSet(s) \ {Head(s)}
      <3>1. DOMAIN s = 1 .. Len(s) /\ DOMAIN Tail(s) = 1 .. Len(s) - 1
        BY <2>2, <2>3
      <3>2. ASSUME NEW x \in ToSet(Tail(s)) PROVE x \in ToSet(s) \ {Head(s)}
        BY <2>2, <2>3, <3>1 DEF ToSet
      <3>3. ASSUME NEW x \in ToSet(s), x # Head(s) PROVE x \in ToSet(Tail(s))
        <4>1. PICK i \in 1 .. Len(s) : s[i] = x
          BY <3>1 DEF ToSet
        <4>2. i # 1 /\ i - 1 \in 1 .. Len(s) - 1 /\ Tail(s)[i - 1] = x
          BY <4>1, <2>2, <2>3, <3>3
        <4> QED BY <4>2, <3>1 DEF ToSet
      <3> QED BY <3>2, <3>3
    <2>5. Head(s) \in 2 .. n /\ Head(s) \in ToSet(s)
      BY <2>2, <2>3, <1>0 DEF ToSet
    <2>6. PoolOK(AfterNew(p))
      <3>1. \A i, j \in 1 .. Len(Tail(s)) : Tail(s)[i] = Tail(s)[j] => i = j
        BY <2>2, <2>3
      <3> QED BY <2>1, <2>3, <3>1, <1>0 DEF PoolOK
    <2>7. InUse(p) = (2 .. n) \ ToSet(s)
      BY <1>0 DEF InUse
    <2>8. InUse(AfterNew(p)) = (2 .. n) \ (ToSet(s) \ {Head(s)})
      BY <2>1, <2>4, <1>0 DEF InUse
    <2>9. NextId(p) \in FlowIds
      BY <2>1, <2>5, <1>0 DEF FlowIds
    <2> QED
      BY <2>1, <2>5, <2>6, <2>7, <2>8, <2>9
  <1> QED BY <1>1, <1>2

\* Giving back a lent identifier keeps the pool well formed and takes back
\* that identifier only, whichever branch of FlowIdSource::freeId it takes.
LEMMA FreeIdExact ==
    ASSUME NEW p, PoolOK(p), NEW id \in InUse(p)
    PROVE  /\ PoolOK(AfterFree(p, id))
           /\ InUse(AfterFree(p, id)) = InUse(p) \ {id}
  <1> DEFINE s == p.freeIds
             n == p.num
  <1>0. n \in Nat /\ n >= 1 /\ n < Limit /\ Limit \in Nat /\ FirstId = 2
    BY LimitAssumption DEF PoolOK, FirstId
  <1>1. /\ s \in Seq(2 .. n) /\ Len(s) \in Nat /\ DOMAIN s = 1 .. Len(s)
        /\ \A i, j \in 1 .. Len(s) : s[i] = s[j] => i = j
    BY <1>0 DEF PoolOK
  <1>2. id \in 2 .. n /\ id \notin ToSet(s)
    BY <1>0 DEF InUse
  <1>3. \A i \in 1 .. Len(s) : s[i] \in 2 .. n /\ s[i] # id
    <2>1. \A i \in 1 .. Len(s) : s[i] \in 2 .. n
      BY <1>1, ElementOfSeq
    <2>2. \A i \in 1 .. Len(s) : s[i] # id
      BY <1>1, <1>2 DEF ToSet
    <2> QED BY <2>1, <2>2
  <1>4. CASE id = n
    <2>1. AfterFree(p, id) = [num |-> n - 1, freeIds |-> s]
      BY <1>4 DEF AfterFree
    <2>2. s \in Seq(2 .. n - 1)
      <3>1. \A i \in 1 .. Len(s) : s[i] \in 2 .. n - 1
        BY <1>3, <1>4, <1>0
      <3> QED BY <3>1, <1>1, RetypeSeq
    <2>3. PoolOK(AfterFree(p, id))
      BY <2>1, <2>2, <1>0, <1>1, <1>2, <1>4 DEF PoolOK
    <2>4. InUse(AfterFree(p, id)) = (2 .. n - 1) \ ToSet(s)
      BY <2>1, <1>0 DEF InUse
    <2>5. InUse(p) = (2 .. n) \ ToSet(s)
      BY <1>0 DEF InUse
    <2>6. 2 .. n - 1 = (2 .. n) \ {n}
      BY <1>0
    <2> QED BY <2>3, <2>4, <2>5, <2>6, <1>4
  <1>5. CASE id # n
    <2> DEFINE t == Append(s, id)
    <2>1. AfterFree(p, id) = [num |-> n, freeIds |-> t]
      BY <1>5 DEF AfterFree
    <2>2. /\ t \in Seq(2 .. n) /\ Len(t) = Len(s) + 1
          /\ DOMAIN t = 1 .. Len(s) + 1
          /\ t[Len(s) + 1] = id
          /\ \A i \in 1 .. Len(s) : t[i] = s[i]
      BY <1>1, <1>2
    <2>3. \A i, j \in 1 .. Len(t) : t[i] = t[j] => i = j
      BY <1>1, <1>3, <2>2
    <2>4. PoolOK(AfterFree(p, id))
      BY <2>1, <2>2, <2>3, <1>0 DEF PoolOK
    <2>5. ToSet(t) = ToSet(s) \cup {id}
      <3>1. ASSUME NEW x \in ToSet(t) PROVE x \in ToSet(s) \cup {id}
        BY <1>1, <2>2 DEF ToSet
      <3>2. ASSUME NEW x \in ToSet(s) \cup {id} PROVE x \in ToSet(t)
        <4>1. CASE x = id
          BY <4>1, <1>1, <2>2 DEF ToSet
        <4>2. CASE x \in ToSet(s)
          <5>1. PICK i \in 1 .. Len(s) : s[i] = x
            BY <4>2, <1>1 DEF ToSet
          <5> QED BY <5>1, <1>1, <2>2 DEF ToSet
        <4> QED BY <4>1, <4>2, <3>2
      <3> QED BY <3>1, <3>2
    <2>6. InUse(AfterFree(p, id)) = (2 .. n) \ ToSet(t)
      BY <2>1, <1>0 DEF InUse
    <2>7. InUse(p) = (2 .. n) \ ToSet(s)
      BY <1>0 DEF InUse
    <2> QED BY <2>4, <2>5, <2>6, <2>7
  <1> QED BY <1>4, <1>5

\* newId throws only when every identifier below Limit is lent: what freeId
\* did before cannot make the pool refuse early.
LEMMA RefusesOnlyWhenFull ==
    ASSUME NEW p, PoolOK(p), ~CanIssue(p)
    PROVE  InUse(p) = FlowIds
  <1>1. p.freeIds = << >> /\ p.num \in 1 .. Limit - 1 /\ ~(p.num + 1 < Limit)
    BY DEF CanIssue, PoolOK
  <1>2. p.num = Limit - 1
    BY <1>1, LimitAssumption
  <1>3. ToSet(p.freeIds) = {}
    BY <1>1 DEF ToSet
  <1> QED
    BY <1>2, <1>3 DEF InUse, FlowIds

\* The lent identifiers of a well-formed pool are valid flow identifiers.
LEMMA InUseValid ==
    ASSUME NEW p, PoolOK(p)
    PROVE  InUse(p) \subseteq FlowIds
  BY LimitAssumption DEF InUse, FlowIds, PoolOK, FirstId

-----------------------------------------------------------------------------
(* The source alone: class FlowIdSource keeps the promise of its header.     *)

SourceInv == SourceOK /\ Accounted

\* A newly constructed source satisfies the inductive invariant.
LEMMA SourceInitInv == SourceInit => SourceInv
  <1> SUFFICES ASSUME SourceInit PROVE SourceInv
    OBVIOUS
  <1> QED BY NewPoolOK DEF SourceInit, SourceInv, SourceOK, Accounted

\* newId and freeId keep the mark, the free list and the user's identifiers
\* in step (FlowIdSource::newId, FlowIdSource::freeId).
LEMMA SourceNextInv == SourceInv /\ [SourceNext]_sourceVars => SourceInv'
  <1> SUFFICES ASSUME SourceInv, [SourceNext]_sourceVars PROVE SourceInv'
    OBVIOUS
  <1> USE DEF SourceInv
  <1>1. PoolOK(source) /\ lent = InUse(source)
    BY DEF SourceOK, Accounted
  <1>2. CASE NewId
    <2>1. /\ NextId(source) \in FlowIds
          /\ PoolOK(source')
          /\ InUse(source') = lent \cup {NextId(source)}
      BY <1>1, <1>2, NewIdFresh DEF NewId
    <2> QED BY <1>2, <2>1 DEF NewId, SourceOK, Accounted
  <1>3. CASE NewIdThrows
    BY <1>3 DEF NewIdThrows, SourceOK, Accounted
  <1>4. ASSUME NEW id \in FlowIds, FreeId(id) PROVE SourceInv'
    <2>1. PoolOK(source') /\ InUse(source') = lent \ {id}
      BY <1>1, <1>4, FreeIdExact DEF FreeId
    <2> QED BY <1>4, <2>1 DEF FreeId, SourceOK, Accounted
  <1>5. CASE UNCHANGED sourceVars
    BY <1>5 DEF sourceVars, SourceOK, Accounted
  <1> QED BY <1>2, <1>3, <1>4, <1>5 DEF SourceNext

\* The inductive invariant holds after any sequence of newId and freeId.
LEMMA SourceInvHolds == SourceSpec => []SourceInv
  BY SourceInitInv, SourceNextInv, PTL DEF SourceSpec

\* Every source FlowIdSource can reach is well formed: the mark stays below
\* Limit and the free list holds distinct identifiers not above the mark.
THEOREM SourceTypeCorrect == SourceSpec => []SourceOK
  BY SourceInvHolds, PTL DEF SourceInv

\* The identifiers below the mark that are not queued are exactly those its
\* user holds, through every sequence of newId and freeId.
THEOREM AccountedHolds == SourceSpec => []Accounted
  BY SourceInvHolds, PTL DEF SourceInv

\* FlowIdSource implements the allocator its header describes: newId returns
\* an identifier that is not in use, and throws only when all of them are.
THEOREM KeepsPromise == SourceSpec => Promise
  <1>1. SourceInit => Allocator!AInit
    BY DEF SourceInit, Allocator!AInit
  <1>2. SourceInv /\ [SourceNext]_sourceVars => [Allocator!ANext]_(Allocator!allocatorVars)
    <2> SUFFICES ASSUME SourceInv, [SourceNext]_sourceVars
                 PROVE  [Allocator!ANext]_(Allocator!allocatorVars)
      OBVIOUS
    <2>1. PoolOK(source) /\ lent = InUse(source) /\ lent \subseteq FlowIds
      BY DEF SourceInv, SourceOK, Accounted
    <2>2. CASE NewId
      <3>1. NextId(source) \in FlowIds \ lent
        BY <2>1, <2>2, NewIdFresh DEF NewId
      <3>2. Allocator!Lend
        BY <2>2, <3>1 DEF NewId, Allocator!Lend
      <3> QED BY <3>2 DEF Allocator!ANext
    <2>3. CASE NewIdThrows
      <3>1. lent = FlowIds
        BY <2>1, <2>3, RefusesOnlyWhenFull DEF NewIdThrows
      <3>2. Allocator!Refuse
        BY <2>3, <3>1 DEF NewIdThrows, Allocator!Refuse
      <3> QED BY <3>2 DEF Allocator!ANext
    <2>4. ASSUME NEW id \in FlowIds, FreeId(id) PROVE Allocator!ANext
      <3>1. Allocator!TakeBack
        BY <2>4 DEF FreeId, Allocator!TakeBack
      <3> QED BY <3>1 DEF Allocator!ANext
    <2>5. CASE UNCHANGED sourceVars
      BY <2>5 DEF sourceVars, Allocator!allocatorVars
    <2> QED BY <2>2, <2>3, <2>4, <2>5 DEF SourceNext
  <1> QED BY <1>1, <1>2, SourceInvHolds, PTL DEF SourceSpec, Promise, Allocator!ASpec

-----------------------------------------------------------------------------
(* The processor                                                             *)

IInv == TypeOK /\ FlowIdsDistinct /\ ActiveFlowsInKernel

\* All steps but Close's last leave the process running only if it ran.
StillRuns == run' \in {"up", "closing"} => run \in {"up", "closing"}

\* newId followed by freeId lends nothing, whatever order it leaves behind
\* (the trial of an action in QOSProcessor::checkRule).
LEMMA BorrowedLendsNothing ==
    ASSUME PoolOK(pool), CanIssue(pool)
    PROVE  /\ PoolOK(Borrowed) /\ InUse(Borrowed) = InUse(pool)
           /\ NextId(pool) \in FlowIds /\ NextId(pool) \notin InUse(pool)
  <1> DEFINE id == NextId(pool)
             p == AfterNew(pool)
  <1>1. /\ id \in FlowIds /\ id \notin InUse(pool)
        /\ PoolOK(p) /\ InUse(p) = InUse(pool) \cup {id}
    BY NewIdFresh
  <1>2. PoolOK(AfterFree(p, id)) /\ InUse(AfterFree(p, id)) = InUse(p) \ {id}
    <2>1. id \in InUse(p)
      BY <1>1
    <2> HIDE DEF p, id
    <2> QED BY <1>1, <2>1, FreeIdExact
  <1> QED BY <1>1, <1>2 DEF Borrowed

\* A step that installs and removes nothing keeps the two safety invariants
\* if it deletes at most a class whose identifier nobody holds.
LEMMA NothingInstalled ==
    ASSUME IInv, StillRuns, flows' = flows, InUse(pool') = InUse(pool),
           classes \ classes' \subseteq FlowIds \ InUse(pool)
    PROVE  FlowIdsDistinct' /\ ActiveFlowsInKernel'
  <1>1. FlowIdsDistinct'
    BY DEF IInv, FlowIdsDistinct, Ids
  <1>2. ASSUME run' \in {"up", "closing"}, NEW f \in flows'
        PROVE  ClassOf(ActionOf(f), f.id) \subseteq classes'
    <2>1. f \in flows /\ run \in {"up", "closing"}
      BY <1>2 DEF StillRuns
    <2>2. ClassOf(ActionOf(f), f.id) \subseteq classes
      BY <2>1 DEF IInv, ActiveFlowsInKernel
    <2>3. f.id \in InUse(pool)
      BY <2>1 DEF IInv, FlowIdsDistinct, Ids
    <2> QED BY <2>2, <2>3 DEF ClassOf
  <1>3. ActiveFlowsInKernel'
    BY <1>2 DEF ActiveFlowsInKernel, ActionOf
  <1> QED BY <1>1, <1>3

\* Giving back the identifier of f while f, and perhaps more, is forgotten
\* keeps both: no other action holds f's identifier (the loops of addRule's
\* rollback, delRule and timeout).
LEMMA ActionRemoved ==
    ASSUME IInv, StillRuns, NEW f \in flows, flows' \subseteq flows \ {f},
           pool' = AfterFree(pool, f.id) \/ pool' = pool,
           classes \ classes' \subseteq {f.id}
    PROVE  /\ FlowIdsDistinct' /\ ActiveFlowsInKernel'
           /\ PoolOK(pool')
  <1>1. PoolOK(pool) /\ f.id \in InUse(pool)
    BY DEF IInv, TypeOK, FlowIdsDistinct, Ids
  <1>2. PoolOK(pool') /\ InUse(pool) \ {f.id} \subseteq InUse(pool')
    BY <1>1, FreeIdExact
  <1>3. \A g \in flows' : g \in flows /\ g.id # f.id
    BY DEF IInv, FlowIdsDistinct
  <1>4. FlowIdsDistinct'
    <2>1. \A g \in flows' : g.id \in InUse(pool')
      BY <1>2, <1>3 DEF IInv, FlowIdsDistinct, Ids
    <2> QED BY <1>3, <2>1 DEF IInv, FlowIdsDistinct, Ids
  <1>5. ASSUME run' \in {"up", "closing"}, NEW g \in flows'
        PROVE  ClassOf(ActionOf(g), g.id) \subseteq classes'
    <2>1. g \in flows /\ g.id # f.id /\ run \in {"up", "closing"}
      BY <1>3, <1>5 DEF StillRuns
    <2>2. ClassOf(ActionOf(g), g.id) \subseteq classes
      BY <2>1 DEF IInv, ActiveFlowsInKernel
    <2> QED BY <2>1, <2>2 DEF ClassOf
  <1>6. ActiveFlowsInKernel'
    BY <1>5 DEF ActiveFlowsInKernel, ActionOf
  <1> QED BY <1>2, <1>4, <1>6

\* The state the constructor leaves satisfies the inductive invariant.
LEMMA InitIInv == Init => IInv
  <1> SUFFICES ASSUME Init PROVE IInv
    OBVIOUS
  <1>1. TypeOK
    BY NewPoolOK, QOSAssumption DEF Init, TypeOK, Idle, NoCall
  <1> QED BY <1>1 DEF Init, IInv, FlowIdsDistinct, ActiveFlowsInKernel, Ids

Calls == [op : {"check", "add", "undo", "del"}, rule : Rule, act : Nat \ {0}]

\* A method that is under way works for a rule, on one of its actions.
LEMMA InsideCall ==
    ASSUME TypeOK, call.op # "idle"
    PROVE  call \in Calls
  BY DEF TypeOK, Idle, NoCall, Calls

\* While a rule has an action to work on, that action is well formed.
LEMMA CurrentAction ==
    ASSUME TypeOK, NEW o \in {"check", "add"}, At(o)
    PROVE  /\ call \in Calls /\ call.act \in 1 .. Len(Actions[call.rule])
           /\ Current \in Action /\ Current.module \in Module
           /\ RateOf(Current) \in Nat
  <1>1. call \in Calls /\ call.act <= Len(Actions[call.rule])
    BY InsideCall DEF At
  <1>2. Actions[call.rule] \in Seq(Action)
    BY <1>1, QOSAssumption DEF Calls
  <1>3. call.act \in 1 .. Len(Actions[call.rule])
    BY <1>1, <1>2 DEF Calls
  <1>4. Current \in Action
    BY <1>2, <1>3, ElementOfSeq DEF Current
  <1> QED BY <1>1, <1>3, <1>4 DEF Action, RateOf

\* The action behind an installed flow is one of its rule's action list.
LEMMA FlowAction ==
    ASSUME TypeOK, NEW f \in flows
    PROVE  ActionOf(f).module \in Module /\ RateOf(ActionOf(f)) \in Nat
  <1>1. f.rule \in Rule /\ f.act \in 1 .. Len(Actions[f.rule])
    <2>1. f.rule \in Rule /\ f.act \in Nat \ {0} /\ f.act <= Len(Actions[f.rule])
      BY DEF TypeOK
    <2>2. Len(Actions[f.rule]) \in Nat
      BY <2>1, QOSAssumption
    <2> QED BY <2>1, <2>2
  <1>2. ActionOf(f) \in Action
    BY <1>1, QOSAssumption, ElementOfSeq DEF ActionOf
  <1> QED BY <1>2 DEF Action, RateOf

-----------------------------------------------------------------------------
\* checkRule leaves the installed actions of all rules alone, on every path.
LEMMA CheckKeeps == IInv /\ CheckStep => IInv'
  <1> SUFFICES ASSUME IInv, CheckStep PROVE IInv'
    OBVIOUS
  <1> DEFINE id == NextId(pool)
  <1>0. TypeOK /\ PoolOK(pool)
    BY DEF IInv, TypeOK
  <1>1. ASSUME At("check")
        PROVE  /\ call \in Calls /\ call.rule \in Rule
               /\ Current.module \in Module /\ RateOf(Current) \in Nat
    BY <1>0, <1>1, CurrentAction DEF Calls
  <1>2. ASSUME CheckGetsToSetup
        PROVE  /\ At("check") /\ run \in {"up", "closing", "down", "crashed"}
               /\ PoolOK(Borrowed) /\ InUse(Borrowed) = InUse(pool)
               /\ id \in FlowIds /\ id \notin InUse(pool)
    BY <1>0, <1>2, BorrowedLendsNothing DEF CheckGetsToSetup, TypeOK
  <1>3. CASE CheckPasses
    <2>0. call' \in Calls /\ run \notin {"down", "crashed"}
      BY <1>0, <1>1, <1>2, <1>3
         DEF CheckPasses, TypeOK, GoOn, Calls, At, Idle, NoCall
    <2>1. TypeOK'
      BY <2>0, <1>0, <1>1, <1>2, <1>3 DEF CheckPasses, TypeOK, Calls
    <2>2. FlowIdsDistinct' /\ ActiveFlowsInKernel'
      BY <1>2, <1>3, NothingInstalled DEF CheckPasses, StillRuns, ClassOf
    <2> QED BY <2>1, <2>2 DEF IInv
  <1>4. CASE CheckGetsNothing
    <2>1. TypeOK'
      BY <1>0, <1>1, <1>4 DEF CheckGetsNothing, TypeOK, Reject, Idle, NoCall
    <2>2. FlowIdsDistinct' /\ ActiveFlowsInKernel'
      BY <1>4, NothingInstalled DEF CheckGetsNothing, Reject, StillRuns
    <2> QED BY <2>1, <2>2 DEF IInv
  <1>5. CASE CheckNoBandwidth
    <2>0. PoolOK(Borrowed) /\ InUse(Borrowed) = InUse(pool)
      BY <1>0, <1>5, BorrowedLendsNothing DEF CheckNoBandwidth
    <2>1. TypeOK'
      BY <2>0, <1>0, <1>1, <1>5 DEF CheckNoBandwidth, TypeOK, Reject, Idle, NoCall
    <2>2. FlowIdsDistinct' /\ ActiveFlowsInKernel'
      BY <2>0, <1>5, NothingInstalled DEF CheckNoBandwidth, Reject, StillRuns
    <2> QED BY <2>1, <2>2 DEF IInv
  <1>6. CASE CheckRefused
    <2>0. /\ faults' \in 0 .. MaxFaults
          /\ classes' \subseteq FlowIds /\ classes \subseteq classes'
      BY <1>0, <1>2, <1>6, QOSAssumption DEF CheckRefused, KernelRefuses, TypeOK
    <2>1. TypeOK'
      BY <2>0, <1>0, <1>1, <1>2, <1>6 DEF CheckRefused, TypeOK, Reject, Idle, NoCall
    <2>2. FlowIdsDistinct' /\ ActiveFlowsInKernel'
      BY <2>0, <1>2, <1>6, NothingInstalled DEF CheckRefused, Reject, StillRuns
    <2> QED BY <2>1, <2>2 DEF IInv
  <1>7. CASE CheckDestroysTwice
    <2>0. faults' \in 0 .. MaxFaults
      BY <1>0, <1>7, QOSAssumption DEF CheckDestroysTwice, KernelRefuses, TypeOK
    <2>1. TypeOK'
      BY <2>0, <1>0, <1>1, <1>2, <1>7 DEF CheckDestroysTwice, TypeOK, Reject, Idle, NoCall
    <2>2. FlowIdsDistinct' /\ ActiveFlowsInKernel'
      BY <1>2, <1>7, NothingInstalled DEF CheckDestroysTwice, Reject, StillRuns
    <2> QED BY <2>1, <2>2 DEF IInv
  <1>8. CASE CheckThrowsOut
    <2>0. /\ faults' \in 0 .. MaxFaults
          /\ refs' \in [Module -> Int]
          /\ avail' \in Int
      BY <1>0, <1>1, <1>2, <1>8, QOSAssumption
         DEF CheckThrowsOut, KernelRefuses, TypeOK, Link
    <2>1. TypeOK'
      BY <2>0, <1>0, <1>1, <1>2, <1>8 DEF CheckThrowsOut, TypeOK, Idle, NoCall
    <2>2. StillRuns
      BY <1>0, <1>8 DEF CheckThrowsOut, StillRuns, CheckGetsToSetup, At, TypeOK,
         Idle, NoCall
    <2>3. FlowIdsDistinct' /\ ActiveFlowsInKernel'
      BY <2>2, <1>2, <1>8, NothingInstalled DEF CheckThrowsOut
    <2> QED BY <2>1, <2>3 DEF IInv
  <1>9. CASE CheckAborts
    <2>0. faults' \in 0 .. MaxFaults
      BY <1>0, <1>9, QOSAssumption DEF CheckAborts, KernelRefuses, TypeOK
    <2>1. TypeOK'
      BY <2>0, <1>0, <1>9 DEF CheckAborts, Crash, TypeOK, Idle, NoCall
    <2>2. FlowIdsDistinct' /\ ActiveFlowsInKernel'
      BY <1>9, NothingInstalled DEF CheckAborts, Crash, StillRuns
    <2> QED BY <2>1, <2>2 DEF IInv
  <1>10. CASE EndCheck
    <2>0. call.rule \in Rule
      BY <1>0, <1>10, InsideCall DEF EndCheck, Calls
    <2>1. TypeOK'
      BY <2>0, <1>0, <1>10 DEF EndCheck, TypeOK, Idle, NoCall
    <2>2. FlowIdsDistinct' /\ ActiveFlowsInKernel'
      BY <1>10, NothingInstalled DEF EndCheck, StillRuns
    <2> QED BY <2>1, <2>2 DEF IInv
  <1> QED
    BY <1>3, <1>4, <1>5, <1>6, <1>7, <1>8, <1>9, <1>10 DEF CheckStep

-----------------------------------------------------------------------------
\* What the forgetting of one action does to the variables' types.
LEMMA RemovalTyped ==
    ASSUME TypeOK, NEW f \in flows
    PROVE  /\ Destroyed(f) => /\ classes' \subseteq FlowIds
                              /\ classes \ classes' \subseteq {f.id}
                              /\ avail' \in Int /\ faults' \in 0 .. MaxFaults
           /\ NotDestroyed(f) => /\ classes' = classes
                                 /\ avail' \in Int /\ faults' \in 0 .. MaxFaults
           /\ Forget(f) => /\ flows' = flows \ {f}
                           /\ refs' \in [Module -> Int]
  <1>1. ActionOf(f).module \in Module /\ RateOf(ActionOf(f)) \in Nat
    BY FlowAction
  <1>2. ASSUME Destroyed(f)
        PROVE  /\ classes' \subseteq FlowIds /\ classes \ classes' \subseteq {f.id}
               /\ avail' \in Int /\ faults' \in 0 .. MaxFaults
    BY <1>1, <1>2 DEF Destroyed, TypeOK, ClassOf
  <1>3. ASSUME NotDestroyed(f)
        PROVE  /\ classes' = classes
               /\ avail' \in Int /\ faults' \in 0 .. MaxFaults
    BY <1>3, QOSAssumption DEF NotDestroyed, KernelRefuses, TypeOK
  <1>4. ASSUME Forget(f)
        PROVE  flows' = flows \ {f} /\ refs' \in [Module -> Int]
    BY <1>1, <1>4 DEF Forget, Unlink, TypeOK
  <1> QED BY <1>2, <1>3, <1>4

\* addRule gives a new action a fresh identifier and its class, and its
\* rollback disturbs no action of another rule.
LEMMA AddKeeps == IInv /\ AddStep => IInv'
  <1> SUFFICES ASSUME IInv, AddStep PROVE IInv'
    OBVIOUS
  <1> DEFINE id == NextId(pool)
  <1>0. TypeOK /\ PoolOK(pool)
    BY DEF IInv, TypeOK
  <1>1. ASSUME At("add")
        PROVE  /\ call \in Calls /\ call.rule \in Rule
               /\ call.act \in 1 .. Len(Actions[call.rule])
               /\ Current.module \in Module /\ RateOf(Current) \in Nat
               /\ run \in {"up", "closing"}
    BY <1>0, <1>1, CurrentAction DEF Calls, At, TypeOK, Idle, NoCall
  <1>2. CASE AddInstalls
    <2> DEFINE new == [rule |-> call.rule, act |-> call.act, id |-> id]
    <2>1. /\ id \in FlowIds /\ id \notin InUse(pool)
          /\ PoolOK(pool') /\ InUse(pool') = InUse(pool) \cup {id}
      BY <1>0, <1>2, NewIdFresh DEF AddInstalls
    <2>2. At("add") /\ flows' = flows \cup {new} /\ run' = run
      BY <1>2 DEF AddInstalls
    <2>3. TypeOK'
      <3>1. call' \in Calls
        BY <1>1, <1>2, <2>2 DEF AddInstalls, GoOn, Calls
      <3>2. refs' \in [Module -> Int] /\ avail' \in Int
        BY <1>0, <1>1, <1>2, <2>2 DEF AddInstalls, Link, TypeOK
      <3>3. /\ flows' \subseteq [rule : Rule, act : Nat \ {0}, id : FlowIds]
            /\ \A f \in flows' : f.act <= Len(Actions[f.rule])
        <4>1. /\ new \in [rule : Rule, act : Nat \ {0}, id : FlowIds]
              /\ new.act <= Len(Actions[new.rule])
          BY <1>1, <2>1, <2>2 DEF Calls
        <4> HIDE DEF new
        <4> QED BY <1>0, <2>2, <4>1 DEF TypeOK
      <3>4. timers' \subseteq Rule \X (Nat \ {0}) /\ classes' \subseteq FlowIds
        BY <1>0, <1>1, <1>2, <2>1, <2>2
           DEF AddInstalls, TimerEvents, ProcTimer, TypeOK, ClassOf, Calls
      <3> QED
        BY <3>1, <3>2, <3>3, <3>4, <2>1, <1>0, <1>1, <1>2, <2>2
           DEF AddInstalls, TypeOK, Calls
    <2>4. FlowIdsDistinct'
      <3>1. new.id = id
        OBVIOUS
      <3>2. \A f \in flows : f.id \in InUse(pool) /\ f.id # id
        BY <2>1 DEF IInv, FlowIdsDistinct, Ids
      <3>3. \A f, g \in flows' : f.id = g.id => f = g
        <4> HIDE DEF new
        <4> QED BY <2>2, <3>1, <3>2 DEF IInv, FlowIdsDistinct
      <3>4. \A f \in flows' : f.id \in InUse(pool')
        <4> HIDE DEF new
        <4> QED BY <2>1, <2>2, <3>1, <3>2
      <3> QED BY <3>3, <3>4 DEF FlowIdsDistinct, Ids
    <2>5. ActiveFlowsInKernel'
      <3>1. ASSUME NEW f \in flows'
            PROVE  ClassOf(ActionOf(f), f.id) \subseteq classes'
        <4>1. classes' = classes \cup ClassOf(Current, id)
          BY <1>2 DEF AddInstalls
        <4>2. CASE f = new
          BY <4>1, <4>2 DEF ActionOf, Current
        <4>3. CASE f \in flows
          BY <4>1, <4>3, <1>1, <2>2 DEF IInv, ActiveFlowsInKernel
        <4> QED BY <2>2, <4>2, <4>3
      <3> QED BY <3>1 DEF ActiveFlowsInKernel, ActionOf
    <2> QED BY <2>3, <2>4, <2>5 DEF IInv
  <1>3. ASSUME At("add"), AddFails
        PROVE  call' \in Calls /\ refs' \in [Module -> Int]
    <2>1. call' \in Calls
      BY <1>1, <1>3 DEF AddFails, Calls
    <2>2. refs' \in [Module -> Int]
      BY <1>0, <1>1, <1>3 DEF AddFails, Link, TypeOK
    <2> QED BY <2>1, <2>2
  <1>4. CASE AddNoFlowId
    <2>1. TypeOK'
      BY <1>0, <1>1, <1>3, <1>4 DEF AddNoFlowId, AddFails, TypeOK, Calls
    <2>2. FlowIdsDistinct' /\ ActiveFlowsInKernel'
      BY <1>4, NothingInstalled DEF AddNoFlowId, AddFails, StillRuns
    <2> QED BY <2>1, <2>2 DEF IInv
  <1>5. CASE AddRefused
    <2>1. /\ id \in FlowIds
          /\ PoolOK(pool') /\ InUse(pool') = InUse(pool) \cup {id}
      BY <1>0, <1>5, NewIdFresh DEF AddRefused
    <2>2. /\ faults' \in 0 .. MaxFaults
          /\ classes' \subseteq FlowIds /\ classes \subseteq classes'
      BY <1>0, <1>5, <2>1, QOSAssumption DEF AddRefused, KernelRefuses, TypeOK
    <2>3. TypeOK'
      BY <2>1, <2>2, <1>0, <1>1, <1>3, <1>5
         DEF AddRefused, AddFails, TypeOK, Calls
    <2>4. FlowIdsDistinct'
      BY <2>1, <1>5 DEF AddRefused, AddFails, IInv, FlowIdsDistinct, Ids
    <2>5. ActiveFlowsInKernel'
      BY <2>2, <1>5
         DEF AddRefused, AddFails, IInv, ActiveFlowsInKernel, ActionOf
    <2> QED BY <2>3, <2>4, <2>5 DEF IInv
  <1>6. CASE EndAdd
    <2>1. call.rule \in Rule
      BY <1>0, <1>6, InsideCall DEF EndAdd, Calls
    <2>2. TypeOK'
      BY <2>1, <1>0, <1>6 DEF EndAdd, TypeOK, Idle, NoCall
    <2>3. FlowIdsDistinct' /\ ActiveFlowsInKernel'
      BY <1>6, NothingInstalled DEF EndAdd, StillRuns
    <2> QED BY <2>2, <2>3 DEF IInv
  <1>7. CASE EndUndo
    <2>1. TypeOK'
      BY <1>0, <1>7 DEF EndUndo, TypeOK, Idle, NoCall
    <2>2. FlowIdsDistinct' /\ ActiveFlowsInKernel'
      BY <1>7, NothingInstalled DEF EndUndo, StillRuns
    <2> QED BY <2>1, <2>2 DEF IInv
  <1>8. ASSUME NEW f \in flows, UndoAction(f) PROVE IInv'
    <2>1. Destroyed(f) /\ Forget(f) /\ pool' = AfterFree(pool, f.id) /\ StillRuns
      BY <1>8 DEF UndoAction, StillRuns
    <2>2. FlowIdsDistinct' /\ ActiveFlowsInKernel' /\ PoolOK(pool')
      BY <1>0, <2>1, RemovalTyped, ActionRemoved
    <2>3. TypeOK'
      BY <1>0, <1>8, <2>1, <2>2, RemovalTyped DEF UndoAction, TypeOK, Idle
    <2> QED BY <2>2, <2>3 DEF IInv
  <1>9. ASSUME NEW f \in flows, UndoThrowsOut(f) PROVE IInv'
    <2>1. /\ NotDestroyed(f) /\ pool' = AfterFree(pool, f.id)
          /\ flows' \subseteq flows \ {f}
      BY <1>9 DEF UndoThrowsOut, IsNext
    <2>2. StillRuns
      BY <1>0, <1>9 DEF UndoThrowsOut, StillRuns, TypeOK, Idle, NoCall
    <2>3. FlowIdsDistinct' /\ ActiveFlowsInKernel' /\ PoolOK(pool')
      BY <1>0, <2>1, <2>2, RemovalTyped, ActionRemoved
    <2>4. TypeOK'
      BY <1>0, <1>9, <2>1, <2>3, RemovalTyped DEF UndoThrowsOut, TypeOK, Idle, NoCall
    <2> QED BY <2>3, <2>4 DEF IInv
  <1> QED
    BY <1>2, <1>4, <1>5, <1>6, <1>7, <1>8, <1>9 DEF AddStep

-----------------------------------------------------------------------------
\* delRule takes away actions of its own rule only, and an identifier it
\* does not free because the kernel refused stays out of circulation.
LEMMA DelKeeps == IInv /\ DelStep => IInv'
  <1> SUFFICES ASSUME IInv, DelStep PROVE IInv'
    OBVIOUS
  <1>0. TypeOK /\ PoolOK(pool)
    BY DEF IInv, TypeOK
  <1>1. CASE DelHollow
    <2>1. TypeOK'
      BY <1>0, <1>1 DEF DelHollow, Crash, TypeOK, Idle, NoCall
    <2>2. FlowIdsDistinct' /\ ActiveFlowsInKernel'
      BY <1>1, NothingInstalled DEF DelHollow, Crash, StillRuns
    <2> QED BY <2>1, <2>2 DEF IInv
  <1>2. CASE EndDel
    <2>1. call.rule \in Rule
      BY <1>0, <1>2, InsideCall DEF EndDel, Calls
    <2>2. TypeOK'
      BY <2>1, <1>0, <1>2 DEF EndDel, TypeOK, Idle, NoCall
    <2>3. FlowIdsDistinct' /\ ActiveFlowsInKernel'
      BY <1>2, NothingInstalled DEF EndDel, StillRuns
    <2> QED BY <2>2, <2>3 DEF IInv
  <1>3. ASSUME NEW f \in flows, DelAction(f) PROVE IInv'
    <2>1. Destroyed(f) /\ Forget(f) /\ pool' = AfterFree(pool, f.id) /\ StillRuns
      BY <1>3 DEF DelAction, StillRuns
    <2>2. FlowIdsDistinct' /\ ActiveFlowsInKernel' /\ PoolOK(pool')
      BY <1>0, <2>1, RemovalTyped, ActionRemoved
    <2>3. TypeOK'
      BY <1>0, <1>3, <2>1, <2>2, RemovalTyped DEF DelAction, TypeOK, Idle
    <2> QED BY <2>2, <2>3 DEF IInv
  <1>4. ASSUME NEW f \in flows, DelRefused(f) PROVE IInv'
    <2>1. NotDestroyed(f) /\ Forget(f) /\ pool' = pool /\ StillRuns
      BY <1>4 DEF DelRefused, StillRuns
    <2>2. FlowIdsDistinct' /\ ActiveFlowsInKernel'
      BY <1>0, <2>1, RemovalTyped, ActionRemoved
    <2>3. TypeOK'
      BY <1>0, <1>4, <2>1, RemovalTyped DEF DelRefused, TypeOK, Idle
    <2> QED BY <2>2, <2>3 DEF IInv
  <1> QED BY <1>1, <1>2, <1>3, <1>4 DEF DelStep

\* timeout frees the identifier before the kernel is asked; no other action
\* can hold it, so none loses its class whether or not the kernel agrees.
LEMMA EnterKeeps == IInv /\ Enter => IInv'
  <1> SUFFICES ASSUME IInv, Enter PROVE IInv'
    OBVIOUS
  <1>0. TypeOK
    BY DEF IInv
  <1>1. ASSUME NEW r \in Rule, BeginCheck(r) \/ BeginAdd(r) \/ BeginDel(r)
        PROVE  IInv'
    <2>1. TypeOK'
      <3>1. call' \in Calls /\ run' = run /\ run \in {"up", "closing"}
        BY <1>1 DEF BeginCheck, BeginAdd, BeginDel, Starts, Calls
      <3> QED
        BY <3>1, <1>0, <1>1 DEF BeginCheck, BeginAdd, BeginDel, TypeOK, Calls
    <2>2. FlowIdsDistinct' /\ ActiveFlowsInKernel'
      BY <1>1, NothingInstalled DEF BeginCheck, BeginAdd, BeginDel, StillRuns
    <2> QED BY <2>1, <2>2 DEF IInv
  <1>2. ASSUME NEW r \in Rule, DropTimers(r) PROVE IInv'
    <2>1. TypeOK'
      BY <1>0, <1>2 DEF DropTimers, TypeOK, Idle
    <2>2. FlowIdsDistinct' /\ ActiveFlowsInKernel'
      BY <1>2, NothingInstalled DEF DropTimers, StillRuns
    <2> QED BY <2>1, <2>2 DEF IInv
  <1>3. ASSUME NEW f \in flows, TimeoutAction(f) PROVE IInv'
    <2>1. /\ Destroyed(f) \/ NotDestroyed(f)
          /\ Forget(f) /\ pool' = AfterFree(pool, f.id) /\ StillRuns
      BY <1>3 DEF TimeoutAction, StillRuns
    <2>2. classes \ classes' \subseteq {f.id} /\ flows' = flows \ {f}
      BY <1>0, <2>1, RemovalTyped
    <2>3. FlowIdsDistinct' /\ ActiveFlowsInKernel' /\ PoolOK(pool')
      BY <2>1, <2>2, ActionRemoved
    <2>4. classes' \subseteq FlowIds /\ avail' \in Int /\ faults' \in 0 .. MaxFaults
      BY <1>0, <2>1, RemovalTyped DEF TypeOK
    <2>5. TypeOK'
      BY <1>0, <1>3, <2>1, <2>2, <2>3, <2>4, RemovalTyped
         DEF TimeoutAction, Fires, TypeOK, Idle
    <2> QED BY <2>3, <2>5 DEF IInv
  <1>4. ASSUME NEW t \in timers, TimeoutHollow(t[1], t[2]) PROVE IInv'
    <2>1. TypeOK'
      BY <1>0, <1>4 DEF TimeoutHollow, Fires, TypeOK, Idle
    <2>2. FlowIdsDistinct' /\ ActiveFlowsInKernel'
      BY <1>4, NothingInstalled DEF TimeoutHollow, Fires, StillRuns
    <2> QED BY <2>1, <2>2 DEF IInv
  <1>5. CASE BeginShutdown
    <2>1. TypeOK'
      BY <1>0, <1>5 DEF BeginShutdown, TypeOK, Idle
    <2>2. FlowIdsDistinct' /\ ActiveFlowsInKernel'
      BY <1>5, NothingInstalled DEF BeginShutdown, StillRuns
    <2> QED BY <2>1, <2>2 DEF IInv
  <1> QED BY <1>1, <1>2, <1>3, <1>4, <1>5 DEF Enter

\* The end of the destructor, which deletes all classes, is out of the reach
\* of ActiveFlowsInKernel: the program does not run any more.
LEMMA EndShutdownKeeps == IInv /\ EndShutdown => IInv'
  <1> SUFFICES ASSUME IInv, EndShutdown PROVE IInv'
    OBVIOUS
  <1>1. TypeOK'
    BY DEF IInv, EndShutdown, TypeOK, Idle
  <1>2. FlowIdsDistinct' /\ ActiveFlowsInKernel'
    BY DEF IInv, EndShutdown, FlowIdsDistinct, ActiveFlowsInKernel, Ids
  <1> QED BY <1>1, <1>2 DEF IInv

\* Every step of QOSProcessor preserves the inductive invariant.
LEMMA NextIInv == IInv /\ [Next]_vars => IInv'
  <1> SUFFICES ASSUME IInv, [Next]_vars PROVE IInv'
    OBVIOUS
  <1>1. CASE UNCHANGED vars
    <2>1. TypeOK'
      BY <1>1 DEF IInv, vars, TypeOK, Idle
    <2>2. FlowIdsDistinct' /\ ActiveFlowsInKernel'
      BY <1>1, NothingInstalled DEF vars, StillRuns
    <2> QED BY <2>1, <2>2 DEF IInv
  <1> QED
    BY <1>1, CheckKeeps, AddKeeps, DelKeeps, EnterKeeps, EndShutdownKeeps
       DEF Next, Work

\* The inductive invariant holds whatever is called and whatever fails.
LEMMA IInvHolds == Spec => []IInv
  BY InitIInv, NextIInv, PTL DEF Spec

-----------------------------------------------------------------------------
\* Every reachable state of QOSProcessor is well typed, its identifier pool
\* well formed, and a stopped process runs no method.
THEOREM TypeCorrect == Spec => []TypeOK
  BY IInvHolds, PTL DEF IInv

\* Two installed actions never share a flow identifier and newId never hands
\* out one that an installed action holds, for any rules and any number of
\* netlink failures.
THEOREM DistinctFlowIds == Spec => []FlowIdsDistinct
  BY IInvHolds, PTL DEF IInv

\* While the process runs or closes, every installed htb action has its class
\* in the kernel, also when identifiers and orphaned classes are used again.
THEOREM FlowsInKernel == Spec => []ActiveFlowsInKernel
  BY IInvHolds, PTL DEF IInv

-----------------------------------------------------------------------------
(* Sums: the fold over the installed actions counts units of bandwidth, so  *)
(* that an action more or less changes it by its rate                       *)

\* Every nonempty set of naturals has a least element.
LEMMA Least ==
    ASSUME NEW T \in SUBSET Nat, T # {}
    PROVE  \E m \in T : \A n \in T : m <= n
  <1> DEFINE R == {ss \in Nat \X Nat : ss[1] < ss[2]}
  <1>1. IsWellFoundedOn(R, Nat)
    BY NatLessThanWellFounded DEF OpToRel
  <1>2. \E x \in T : \A y \in T : ~ (<< y, x >> \in R)
    <2> HIDE DEF R
    <2> QED BY <1>1, WFMin
  <1>3. PICK x \in T : \A y \in T : ~ (<< y, x >> \in R)
    BY <1>2
  <1>4. ASSUME NEW y \in T PROVE x <= y
    <2>1. ~ (<< y, x >> \in R) /\ x \in Nat /\ y \in Nat
      BY <1>3
    <2>2. ~ (y < x)
      BY <2>1
    <2> QED BY <2>1, <2>2
  <1> QED BY <1>4

Rate(f) == RateOf(ActionOf(f))

\* The table of partial sums that the fold of Reserved is read from.
First(s) == CHOOSE x \in s : TRUE
Summing(S, g) ==
    g = [s \in SUBSET S |-> IF s = {} THEN 0 ELSE Rate(First(s)) + g[s \ {First(s)}]]
Sum(S) == (CHOOSE g : Summing(S, g))[S]


\* A rate as so many units.
Units(f) == {f} \X (1 .. Rate(f))
Total(s) == Cardinality(UNION {Units(f) : f \in s})

Rated(S) == IsFiniteSet(S) /\ \A f \in S : Rate(f) \in Nat

LEMMA UnitsOf ==
    ASSUME NEW f, Rate(f) \in Nat
    PROVE  IsFiniteSet(Units(f)) /\ Cardinality(Units(f)) = Rate(f)
  <1> DEFINE n == Rate(f)
  <1>1. IsFiniteSet(1 .. n) /\ Cardinality(1 .. n) = n
    <2> HIDE DEF n
    <2>1. n \in Nat
      BY DEF n
    <2>2. IsFiniteSet(1 .. n) /\ Cardinality(1 .. n) = IF 1 > n THEN 0 ELSE n - 1 + 1
      BY <2>1, FS_Interval
    <2> QED BY <2>1, <2>2
  <1>2. IsFiniteSet({f}) /\ Cardinality({f}) = 1
    BY FS_Singleton
  <1> HIDE DEF n
  <1>3. IsFiniteSet({f} \X (1 .. n)) /\ Cardinality({f} \X (1 .. n)) = 1 * n
    <2>1. \A S, T : IsFiniteSet(S) /\ IsFiniteSet(T) =>
             IsFiniteSet(S \X T) /\ Cardinality(S \X T) = Cardinality(S) * Cardinality(T)
      BY FS_Product
    <2>2. Cardinality({f} \X (1 .. n)) = Cardinality({f}) * Cardinality(1 .. n)
      BY <1>1, <1>2, <2>1, Zenon
    <2> QED BY <1>1, <1>2, <2>1, <2>2, Zenon
  <1>4. n \in Nat
    BY DEF n
  <1> QED BY <1>3, <1>4 DEF Units, n

LEMMA TotalFinite ==
    ASSUME NEW S, Rated(S)
    PROVE  IsFiniteSet(UNION {Units(f) : f \in S}) /\ Total(S) \in Nat
  <1> DEFINE F == {Units(f) : f \in S}
             g == [f \in S |-> Units(f)]
  <1>1. IsFiniteSet(F)
    <2>1. g \in [S -> F] /\ \A u \in F : \E f \in S : g[f] = u
      OBVIOUS
    <2> HIDE DEF F, g
    <2>2. g \in Surjection(S, F)
      BY <2>1, Fun_IsSurj
    <2> QED BY <2>2, FS_Surjection DEF Rated
  <1>2. \A u \in F : IsFiniteSet(u)
    BY UnitsOf DEF Rated
  <1> HIDE DEF F
  <1>3. IsFiniteSet(UNION F)
    BY <1>1, <1>2, FS_UNION
  <1> QED BY <1>3, FS_CardinalityType DEF F, Total

LEMMA TotalAdd ==
    ASSUME NEW S, NEW x, x \notin S, Rated(S \cup {x})
    PROVE  Total(S \cup {x}) = Total(S) + Rate(x)
  <1> DEFINE A == UNION {Units(f) : f \in S}
  <1>1. Rated(S) /\ Rate(x) \in Nat
    <2>1. S \in SUBSET (S \cup {x})
      OBVIOUS
    <2> QED BY <2>1, FS_Subset DEF Rated
  <1>2. IsFiniteSet(A) /\ Total(S) = Cardinality(A) /\ Cardinality(A) \in Nat
    BY <1>1, TotalFinite DEF Total
  <1>3. IsFiniteSet(Units(x)) /\ Cardinality(Units(x)) = Rate(x)
    BY <1>1, UnitsOf
  <1>4. UNION {Units(f) : f \in S \cup {x}} = A \cup Units(x)
    OBVIOUS
  <1>5. A \cap Units(x) = {}
    BY DEF Units
  <1> HIDE DEF A
  <1>6. Cardinality(A \cup Units(x)) = Cardinality(A) + Cardinality(Units(x)) - 0
    BY <1>2, <1>3, <1>5, FS_Union, FS_EmptySet
  <1>7. Total(S \cup {x}) = Cardinality(A \cup Units(x))
    BY <1>4 DEF Total
  <1> QED BY <1>1, <1>2, <1>3, <1>6, <1>7

LEMMA TotalEmpty == Total({}) = 0
  <1>1. UNION {Units(f) : f \in {}} = {}
    OBVIOUS
  <1> QED BY <1>1, FS_EmptySet DEF Total

\* What the fold computes is the number of units, whatever order it takes.
LEMMA SumIsTotal ==
    ASSUME NEW S, Rated(S)
    PROVE  Sum(S) = Total(S)
  <1> DEFINE w == [s \in SUBSET S |-> Total(s)]
             g == CHOOSE h : Summing(S, h)
  <1>1. \A s \in SUBSET S : Rated(s) /\ Total(s) \in Nat
    <2>1. \A s \in SUBSET S : Rated(s)
      BY FS_Subset DEF Rated
    <2> QED BY <2>1, TotalFinite
  <1>2. ASSUME NEW s \in SUBSET S, s # {}
        PROVE  First(s) \in s /\ Total(s) = Rate(First(s)) + Total(s \ {First(s)})
    <2>1. First(s) \in s
      BY <1>2 DEF First
    <2> DEFINE x == First(s)
               t == s \ {x}
    <2>2. x \in s
      BY <2>1
    <2> HIDE DEF x
    <2>3. t \cup {x} = s /\ x \notin t /\ t \in SUBSET S
      BY <2>2
    <2> HIDE DEF t
    <2>4. Rated(t \cup {x}) /\ Rate(x) \in Nat /\ Total(t) \in Nat
      BY <1>1, <2>2, <2>3 DEF Rated
    <2>5. Total(s) = Total(t) + Rate(x)
      BY <2>3, <2>4, TotalAdd
    <2> QED BY <2>1, <2>4, <2>5 DEF t, x
  <1>3. Summing(S, w)
    <2>1. \A s \in SUBSET S :
             w[s] = IF s = {} THEN 0 ELSE Rate(First(s)) + w[s \ {First(s)}]
      <3> SUFFICES ASSUME NEW s \in SUBSET S
                   PROVE  w[s] = IF s = {} THEN 0 ELSE Rate(First(s)) + w[s \ {First(s)}]
        OBVIOUS
      <3>1. CASE s = {}
        BY <3>1, TotalEmpty
      <3>2. CASE s # {}
        <4>1. s \ {First(s)} \in SUBSET S
          OBVIOUS
        <4>2. w[s] = Total(s) /\ w[s \ {First(s)}] = Total(s \ {First(s)})
          BY <4>1
        <4> QED BY <1>2, <3>2, <4>2
      <3> QED BY <3>1, <3>2
    <2>2. w = [s \in SUBSET S |-> w[s]]
      OBVIOUS
    <2> HIDE DEF w
    <2> QED BY <2>1, <2>2 DEF Summing
  <1>4. Summing(S, g)
    <2> HIDE DEF w
    <2> QED BY <1>3
  <1> HIDE DEF g
  <1>5. \A s \in SUBSET S :
           g[s] = IF s = {} THEN 0 ELSE Rate(First(s)) + g[s \ {First(s)}]
    BY <1>4 DEF Summing
  <1> DEFINE Wrong == {s \in SUBSET S : g[s] # Total(s)}
             Sizes == {Cardinality(s) : s \in Wrong}
  <1>6. Wrong = {}
    <2> SUFFICES ASSUME Wrong # {} PROVE FALSE
      OBVIOUS
    <2>1. \A s \in SUBSET S : IsFiniteSet(s) /\ Cardinality(s) \in Nat
      BY <1>1, FS_CardinalityType DEF Rated
    <2>2. Sizes \in SUBSET Nat /\ Sizes # {}
      BY <2>1
    <2>3. PICK m \in Sizes : \A n \in Sizes : m <= n
      <3> HIDE DEF Sizes
      <3> QED BY <2>2, Least
    <2>4. PICK s \in Wrong : m = Cardinality(s)
      BY <2>3
    <2>5. s # {}
      BY <1>5, <2>4, TotalEmpty
    <2>6. First(s) \in s /\ Total(s) = Rate(First(s)) + Total(s \ {First(s)})
      BY <1>2, <2>5
    <2>7. s \ {First(s)} \in SUBSET S
      OBVIOUS
    <2>8. Cardinality(s \ {First(s)}) = Cardinality(s) - 1
      BY <2>1, <2>6, FS_RemoveElement
    <2>9. s \ {First(s)} \notin Wrong
      <3> SUFFICES ASSUME s \ {First(s)} \in Wrong PROVE FALSE
        OBVIOUS
      <3>1. m <= Cardinality(s \ {First(s)})
        BY <2>3
      <3>2. Cardinality(s) \in Nat
        BY <2>1
      <3> QED BY <2>4, <2>8, <3>1, <3>2
    <2>10. g[s \ {First(s)}] = Total(s \ {First(s)})
      BY <2>7, <2>9
    <2> QED BY <1>5, <2>4, <2>5, <2>6, <2>10
  <1>7. g[S] = Total(S)
    BY <1>6
  <1> QED BY <1>7 DEF Sum, g

LEMMA ReservedIsTotal == ASSUME Rated(flows) PROVE Reserved = Total(flows)
  <1>1. Reserved = Sum(flows)
    BY DEF Reserved, MapThenSumSet, MapThenFoldSet, Sum, Summing, First, Rate
  <1> QED BY <1>1, SumIsTotal

-----------------------------------------------------------------------------
(* Accounting: what a step takes and gives back *)

\* A class behind an action of another module hides a class the kernel kept:
\* only htb's identifiers say which classes are wanted.
HtbIds == {f.id : f \in {g \in flows : ActionOf(g).module = Htb}}

\* While the program runs a step does one of four things.  It installs and
\* removes nothing ...
Quiet ==
    /\ flows' = flows /\ InUse(pool') = InUse(pool)
    /\ classes' \subseteq classes
    /\ faults \in Nat /\ faults' \in {faults, faults + 1}
    /\ avail' = avail
    /\ \A m \in Module : refs'[m] >= refs[m]

\* ... or loses an identifier and a class, as the kernel refused something ...
Loses(id) ==
    /\ flows' = flows /\ InUse(pool') \subseteq InUse(pool) \cup {id}
    /\ classes' \subseteq classes \cup {id}
    /\ faults \in Nat /\ faults' = faults + 1
    /\ avail' = avail
    /\ \A m \in Module : refs'[m] >= refs[m]

\* ... or installs an action ...
Gains(n) ==
    /\ n \notin flows /\ flows' = flows \cup {n}
    /\ InUse(pool') = InUse(pool) \cup {n.id}
    /\ classes' = classes \cup ClassOf(ActionOf(n), n.id)
    /\ faults' = faults
    /\ Rate(n) \in Nat /\ avail' = avail - Rate(n)
    /\ refs' = [refs EXCEPT ![ActionOf(n).module] = @ + 1]

\* ... or forgets one; where the kernel refused, not all of it is given back.
Removes(f) ==
    /\ f \in flows /\ flows' = flows \ {f}
    /\ refs' = [refs EXCEPT ![ActionOf(f).module] = @ - 1]
    /\ \/ /\ InUse(pool') = InUse(pool) \ {f.id}
          /\ classes' = classes \ ClassOf(ActionOf(f), f.id)
          /\ avail' = avail + Rate(f) /\ faults' = faults
       \/ /\ InUse(pool') \subseteq InUse(pool)
          /\ UNCHANGED << classes, avail >>
          /\ faults \in Nat /\ faults' = faults + 1

Effect ==
    Quiet \/ (\E id : Loses(id)) \/ (\E n : Gains(n)) \/ (\E f \in flows : Removes(f))

\* Taking an action down gives back what it took, or costs a fault.
LEMMA RemovalEffect ==
    ASSUME IInv, NEW f \in flows, Forget(f),
           \/ Destroyed(f) /\ pool' = AfterFree(pool, f.id)
           \/ NotDestroyed(f) /\ (pool' = AfterFree(pool, f.id) \/ pool' = pool)
    PROVE  Removes(f)
  <1>1. PoolOK(pool) /\ f.id \in InUse(pool) /\ faults \in Nat
    BY QOSAssumption DEF IInv, TypeOK, FlowIdsDistinct, Ids
  <1>2. InUse(AfterFree(pool, f.id)) = InUse(pool) \ {f.id}
    BY <1>1, FreeIdExact
  <1>3. flows' = flows \ {f} /\ refs' = [refs EXCEPT ![ActionOf(f).module] = @ - 1]
    BY DEF Forget, Unlink
  <1>4. CASE Destroyed(f) /\ pool' = AfterFree(pool, f.id)
    BY <1>2, <1>3, <1>4 DEF Destroyed, Removes, Rate
  <1>5. CASE NotDestroyed(f) /\ (pool' = AfterFree(pool, f.id) \/ pool' = pool)
    BY <1>1, <1>2, <1>3, <1>5 DEF NotDestroyed, KernelRefuses, Removes
  <1> QED BY <1>4, <1>5

\* Every step that does not end the program is one of the four.
LEMMA StepEffect == ASSUME IInv, [Next]_vars, run' = "up" PROVE Effect
  <1> DEFINE id == NextId(pool)
  <1>0. /\ TypeOK /\ PoolOK(pool) /\ faults \in Nat
        /\ \A m \in Module : refs[m] \in Int
    BY QOSAssumption DEF IInv, TypeOK
  <1>1. ASSUME UNCHANGED << flows, pool, classes, avail, refs, faults >> PROVE Effect
    BY <1>0, <1>1 DEF Effect, Quiet
  <1>2. CASE CheckStep
    <2>1. ASSUME CanIssue(pool)
          PROVE  InUse(Borrowed) = InUse(pool)
      BY <1>0, <2>1, BorrowedLendsNothing
    <2>2. CASE CheckPasses
      BY <1>0, <2>1, <2>2 DEF CheckPasses, CheckGetsToSetup, Effect, Quiet
    <2>3. CASE CheckGetsNothing \/ EndCheck
      BY <1>1, <2>3 DEF CheckGetsNothing, EndCheck, Reject
    <2>4. CASE CheckNoBandwidth
      BY <1>0, <2>1, <2>4 DEF CheckNoBandwidth, Reject, Effect, Quiet
    <2>5. CASE CheckRefused
      <3>1. Loses(id)
        BY <1>0, <2>1, <2>5 DEF CheckRefused, CheckGetsToSetup, KernelRefuses, Reject, Loses
      <3> QED BY <3>1 DEF Effect
    <2>6. CASE CheckDestroysTwice
      BY <1>0, <2>1, <2>6
         DEF CheckDestroysTwice, CheckGetsToSetup, KernelRefuses, Reject, Effect, Quiet
    <2>7. CASE CheckThrowsOut \/ CheckAborts
      BY <2>7 DEF CheckThrowsOut, CheckAborts, Crash
    <2> QED BY <1>2, <2>2, <2>3, <2>4, <2>5, <2>6, <2>7 DEF CheckStep
  <1>3. CASE AddStep
    <2>1. ASSUME CanIssue(pool)
          PROVE  id \notin InUse(pool) /\ InUse(AfterNew(pool)) = InUse(pool) \cup {id}
      BY <1>0, <2>1, NewIdFresh
    <2>2. CASE AddInstalls
      <3> DEFINE n == [rule |-> call.rule, act |-> call.act, id |-> id]
      <3>1. n.id = id /\ ActionOf(n) = Current
        BY DEF ActionOf, Current
      <3>2. n \notin flows
        BY <2>1, <2>2, <3>1 DEF AddInstalls, IInv, FlowIdsDistinct, Ids
      <3>3. Gains(n)
        <4>0. RateOf(Current) \in Nat
          BY <1>0, <2>2, CurrentAction DEF AddInstalls
        <4>1. /\ flows' = flows \cup {n} /\ classes' = classes \cup ClassOf(Current, id)
              /\ avail' = avail - RateOf(Current)
              /\ faults' = faults /\ refs' = [refs EXCEPT ![Current.module] = @ + 1]
              /\ InUse(pool') = InUse(pool) \cup {id}
          BY <2>1, <2>2 DEF AddInstalls, Link
        <4> HIDE DEF n
        <4> QED BY <3>1, <3>2, <4>0, <4>1 DEF Gains, Rate
      <3> HIDE DEF n
      <3> QED BY <3>3 DEF Effect
    <2>3. ASSUME AddFails PROVE flows' = flows /\ avail' = avail /\ \A m \in Module : refs'[m] >= refs[m]
      BY <1>0, <2>3 DEF AddFails, Link, TypeOK
    <2>4. CASE AddNoFlowId
      BY <1>0, <2>3, <2>4 DEF AddNoFlowId, Effect, Quiet
    <2>5. CASE AddRefused
      <3>1. Loses(id)
        BY <1>0, <2>1, <2>3, <2>5 DEF AddRefused, KernelRefuses, Loses
      <3> QED BY <3>1 DEF Effect
    <2>6. CASE EndAdd \/ EndUndo
      BY <1>1, <2>6 DEF EndAdd, EndUndo
    <2>7. ASSUME NEW f \in flows, UndoAction(f) PROVE Effect
      BY <2>7, RemovalEffect DEF UndoAction, Effect
    <2>8. ASSUME NEW f \in flows, UndoThrowsOut(f) PROVE Effect
      BY <2>8 DEF UndoThrowsOut
    <2> QED BY <1>3, <2>2, <2>4, <2>5, <2>6, <2>7, <2>8 DEF AddStep
  <1>4. CASE DelStep
    <2>1. CASE DelHollow \/ EndDel
      BY <1>1, <2>1 DEF DelHollow, Crash, EndDel
    <2>2. ASSUME NEW f \in flows, DelAction(f) \/ DelRefused(f) PROVE Effect
      BY <2>2, RemovalEffect DEF DelAction, DelRefused, Effect
    <2> QED BY <1>4, <2>1, <2>2 DEF DelStep
  <1>5. CASE Enter
    <2>1. ASSUME NEW r \in Rule,
                 BeginCheck(r) \/ BeginAdd(r) \/ BeginDel(r) \/ DropTimers(r)
          PROVE  Effect
      BY <1>1, <2>1 DEF BeginCheck, BeginAdd, BeginDel, DropTimers
    <2>2. ASSUME NEW f \in flows, TimeoutAction(f) PROVE Effect
      BY <2>2, RemovalEffect DEF TimeoutAction, Effect
    <2>3. ASSUME NEW t \in timers, TimeoutHollow(t[1], t[2]) PROVE Effect
      BY <1>1, <2>3 DEF TimeoutHollow
    <2>4. CASE BeginShutdown
      BY <1>1, <2>4 DEF BeginShutdown
    <2> QED BY <1>5, <2>1, <2>2, <2>3, <2>4 DEF Enter
  <1>6. CASE EndShutdown
    BY <1>6 DEF EndShutdown
  <1>7. CASE UNCHANGED vars
    BY <1>1, <1>7 DEF vars
  <1> QED BY <1>2, <1>3, <1>4, <1>5, <1>6, <1>7 DEF Next, Work

\* A program that runs ran before.
LEMMA RanBefore == ASSUME [Next]_vars, run' = "up" PROVE run = "up"
  <1>1. ASSUME NEW f, UndoAction(f) \/ UndoThrowsOut(f) \/ DelAction(f)
                      \/ DelRefused(f) \/ TimeoutAction(f)
        PROVE  run = "up"
    BY <1>1 DEF UndoAction, UndoThrowsOut, DelAction, DelRefused, TimeoutAction, Fires
  <1>2. CASE Work
    BY <1>1, <1>2 DEF Work, CheckStep, AddStep, DelStep, CheckPasses, CheckGetsNothing,
       CheckNoBandwidth, CheckRefused, CheckDestroysTwice, CheckThrowsOut, CheckAborts,
       Crash, EndCheck, Reject, AddInstalls, AddNoFlowId, AddRefused, AddFails, EndAdd,
       EndUndo, DelHollow, EndDel
  <1>3. CASE Enter
    BY <1>1, <1>3 DEF Enter, BeginCheck, BeginAdd, BeginDel, DropTimers, TimeoutHollow,
       Fires, BeginShutdown
  <1> QED BY <1>2, <1>3 DEF Next, EndShutdown, vars

\* A set that grows by one element at most.
LEMMA GrowsByOne ==
    ASSUME NEW S, IsFiniteSet(S), NEW x, NEW T \in SUBSET (S \cup {x})
    PROVE  /\ IsFiniteSet(T) /\ Cardinality(S) \in Nat /\ Cardinality(T) \in Nat
           /\ Cardinality(T) <= Cardinality(S) + 1
           /\ x \notin T \/ x \in S => Cardinality(T) <= Cardinality(S)
  <1>1. /\ IsFiniteSet(S \cup {x}) /\ Cardinality(S) \in Nat
        /\ Cardinality(S \cup {x}) = IF x \in S THEN Cardinality(S) ELSE Cardinality(S) + 1
    BY FS_AddElement, FS_CardinalityType
  <1>2. IsFiniteSet(T) /\ Cardinality(T) <= Cardinality(S \cup {x}) /\ Cardinality(T) \in Nat
    BY <1>1, FS_Subset, FS_CardinalityType
  <1>3. ASSUME x \notin T PROVE Cardinality(T) <= Cardinality(S)
    <2>1. T \in SUBSET S
      BY <1>3
    <2> QED BY <2>1, FS_Subset
  <1> QED BY <1>1, <1>2, <1>3

\* Identifiers and classes are finitely many.
LEMMA FiniteIds ==
    ASSUME TypeOK, NEW A
    PROVE  IsFiniteSet(InUse(pool) \ A) /\ IsFiniteSet(classes \ A)
  <1>1. IsFiniteSet(FlowIds)
    BY LimitAssumption, FS_Interval DEF FlowIds, FirstId
  <1>2. InUse(pool) \ A \in SUBSET FlowIds /\ classes \ A \in SUBSET FlowIds
    BY InUseValid DEF TypeOK
  <1> QED BY <1>1, <1>2, FS_Subset

\* OrphansBounded is not inductive: an action of another module may hold the
\* identifier of an orphaned class for a while.
OrphansCounted == Cardinality(classes \ HtbIds) <= faults

AccountInv ==
    run = "up" =>
        /\ IsFiniteSet(flows)
        /\ Cardinality(InUse(pool) \ Ids) <= faults
        /\ OrphansCounted
        /\ ModulesPinned
        /\ BandwidthConserved

\* One fault at most per identifier without an action, over a step.
LEMMA LeaksKept ==
    ASSUME IInv, Effect, Cardinality(InUse(pool) \ Ids) <= faults
    PROVE  Cardinality(InUse(pool') \ Ids') <= faults'
  <1> DEFINE S == InUse(pool) \ Ids
             T == InUse(pool') \ Ids'
  <1>1. IsFiniteSet(S) /\ faults \in Nat
    <2>1. TypeOK /\ faults \in Nat
      BY QOSAssumption DEF IInv, TypeOK
    <2> QED BY <2>1, FiniteIds
  <1>2. ASSUME NEW x, T \subseteq S \cup {x}, faults' = faults + 1
        PROVE  Cardinality(T) <= faults'
    <2>1. Cardinality(S) <= faults
      OBVIOUS
    <2> HIDE DEF S, T
    <2> QED BY <1>1, <1>2, <2>1, GrowsByOne
  <1>3. ASSUME T \subseteq S, faults' \in {faults, faults + 1}
        PROVE  Cardinality(T) <= faults'
    <2>1. Cardinality(S) <= faults
      OBVIOUS
    <2> HIDE DEF S, T
    <2>2. Cardinality(T) <= Cardinality(S) /\ Cardinality(S) \in Nat /\ Cardinality(T) \in Nat
      BY <1>1, <1>3, FS_Subset, FS_CardinalityType
    <2> QED BY <1>1, <1>3, <2>1, <2>2
  <1>4. CASE Quiet
    BY <1>3, <1>4 DEF Quiet, Ids
  <1>5. ASSUME NEW id, Loses(id) PROVE Cardinality(T) <= faults'
    BY <1>2, <1>5 DEF Loses, Ids
  <1>6. ASSUME NEW n, Gains(n) PROVE Cardinality(T) <= faults'
    BY <1>3, <1>6 DEF Gains, Ids
  <1>7. ASSUME NEW f \in flows, Removes(f) PROVE Cardinality(T) <= faults'
    <2>1. Ids \subseteq Ids' \cup {f.id}
      BY <1>7 DEF Removes, Ids
    <2>2. CASE InUse(pool') = InUse(pool) \ {f.id} /\ faults' = faults
      BY <1>3, <2>1, <2>2
    <2>3. CASE InUse(pool') \subseteq InUse(pool) /\ faults' = faults + 1
      BY <1>2, <2>1, <2>3
    <2> QED BY <1>7, <2>2, <2>3 DEF Removes
  <1> QED BY <1>4, <1>5, <1>6, <1>7 DEF Effect

\* One fault at most per class without an htb action.
LEMMA OrphansKept ==
    ASSUME IInv, Effect, OrphansCounted
    PROVE  OrphansCounted'
  <1> DEFINE S == classes \ HtbIds
             T == classes' \ HtbIds'
  <1>1. IsFiniteSet(S) /\ faults \in Nat
    <2>1. TypeOK /\ faults \in Nat
      BY QOSAssumption DEF IInv, TypeOK
    <2> QED BY <2>1, FiniteIds
  <1>2. ASSUME NEW x, T \subseteq S \cup {x}, faults' = faults + 1
        PROVE  Cardinality(T) <= faults'
    <2>1. Cardinality(S) <= faults
      BY DEF OrphansCounted
    <2> HIDE DEF S, T
    <2> QED BY <1>1, <1>2, <2>1, GrowsByOne
  <1>3. ASSUME T \subseteq S, faults' \in {faults, faults + 1}
        PROVE  Cardinality(T) <= faults'
    <2>1. Cardinality(S) <= faults
      BY DEF OrphansCounted
    <2> HIDE DEF S, T
    <2>2. Cardinality(T) <= Cardinality(S) /\ Cardinality(S) \in Nat /\ Cardinality(T) \in Nat
      BY <1>1, <1>3, FS_Subset, FS_CardinalityType
    <2> QED BY <1>1, <1>3, <2>1, <2>2
  <1>4. ASSUME flows' = flows PROVE HtbIds' = HtbIds
    BY <1>4 DEF HtbIds, ActionOf
  <1>5. ASSUME Quiet PROVE Cardinality(T) <= faults'
    BY <1>3, <1>4, <1>5 DEF Quiet
  <1>6. ASSUME NEW id, Loses(id) PROVE Cardinality(T) <= faults'
    BY <1>2, <1>4, <1>6 DEF Loses
  <1>7. ASSUME NEW n, Gains(n) PROVE Cardinality(T) <= faults'
    <2>1. HtbIds \subseteq HtbIds' /\ ClassOf(ActionOf(n), n.id) \subseteq HtbIds'
      BY <1>7 DEF Gains, HtbIds, ActionOf, ClassOf
    <2> QED BY <1>3, <1>7, <2>1 DEF Gains
  <1>8. ASSUME NEW f \in flows, Removes(f) PROVE Cardinality(T) <= faults'
    <2>1. HtbIds \subseteq HtbIds' \cup ClassOf(ActionOf(f), f.id)
      BY <1>8 DEF Removes, HtbIds, ActionOf, ClassOf
    <2>2. CASE classes' = classes \ ClassOf(ActionOf(f), f.id) /\ faults' = faults
      BY <1>3, <2>1, <2>2
    <2>3. CASE classes' = classes /\ faults' = faults + 1
      <3>1. T \subseteq S \cup {f.id}
        BY <2>1, <2>3 DEF ClassOf
      <3> QED BY <1>2, <2>3, <3>1
    <2> QED BY <1>8, <2>2, <2>3 DEF Removes
  <1> QED BY <1>5, <1>6, <1>7, <1>8 DEF Effect, OrphansCounted

\* The references to a module change with the actions that use it.
LEMMA PinsKept ==
    ASSUME IInv, TypeOK', Effect, IsFiniteSet(flows), run = "up", ModulesPinned
    PROVE  IsFiniteSet(flows') /\ ModulesPinned'
  <1> DEFINE Base(m) == IF m = Htb THEN 1 ELSE 0
  <1>1. IsFiniteSet(flows')
    BY FS_AddElement, FS_Subset DEF Effect, Quiet, Loses, Gains, Removes
  <1>2. ASSUME NEW m \in Module
        PROVE  /\ IsFiniteSet(Users(m)) /\ Cardinality(Users(m)) \in Nat
               /\ refs[m] \in Int /\ refs[m] >= Cardinality(Users(m)) + Base(m)
    <2>1. Users(m) \in SUBSET flows
      BY DEF Users
    <2> QED BY <2>1, FS_Subset, FS_CardinalityType DEF IInv, TypeOK, ModulesPinned
  <1>3. ASSUME NEW m \in Module
        PROVE  refs'[m] >= Cardinality(Users(m)') + Base(m)
    <2> HIDE DEF Base
    <2>0. Base(m) \in Nat
      BY DEF Base
    <2>1. CASE Quiet \/ \E id : Loses(id)
      <3>1. Users(m)' = Users(m) /\ refs'[m] >= refs[m] /\ refs'[m] \in Int
        BY <2>1 DEF Quiet, Loses, Users, ActionOf, TypeOK
      <3> QED BY <1>2, <2>0, <3>1
    <2>2. ASSUME NEW n, Gains(n) PROVE refs'[m] >= Cardinality(Users(m)') + Base(m)
      <3>1. CASE ActionOf(n).module = m
        <4>1. Users(m)' = Users(m) \cup {n} /\ refs'[m] = refs[m] + 1
          BY <2>2, <3>1 DEF Gains, Users, ActionOf, IInv, TypeOK
        <4>2. Cardinality(Users(m)') <= Cardinality(Users(m)) + 1
              /\ Cardinality(Users(m)') \in Nat
          BY <1>2, <4>1, GrowsByOne
        <4> QED BY <1>2, <2>0, <4>1, <4>2
      <3>2. CASE ActionOf(n).module # m
        <4>1. Users(m)' = Users(m) /\ refs'[m] = refs[m]
          BY <2>2, <3>2 DEF Gains, Users, ActionOf, IInv, TypeOK
        <4> QED BY <1>2, <4>1
      <3> QED BY <3>1, <3>2
    <2>3. ASSUME NEW f \in flows, Removes(f)
          PROVE  refs'[m] >= Cardinality(Users(m)') + Base(m)
      <3>1. CASE ActionOf(f).module = m
        <4>1. Users(m)' = Users(m) \ {f} /\ f \in Users(m) /\ refs'[m] = refs[m] - 1
          BY <2>3, <3>1 DEF Removes, Users, ActionOf, IInv, TypeOK
        <4>2. Cardinality(Users(m)') = Cardinality(Users(m)) - 1
          <5>1. \A S : IsFiniteSet(S) /\ f \in S => Cardinality(S \ {f}) = Cardinality(S) - 1
            BY FS_RemoveElement
          <5> QED BY <1>2, <4>1, <5>1
        <4> QED BY <1>2, <2>0, <4>1, <4>2
      <3>2. CASE ActionOf(f).module # m
        <4>1. Users(m)' = Users(m) /\ refs'[m] = refs[m]
          BY <2>3, <3>2 DEF Removes, Users, ActionOf, IInv, TypeOK
        <4> QED BY <1>2, <4>1
      <3> QED BY <3>1, <3>2
    <2> QED BY <2>1, <2>2, <2>3 DEF Effect
  <1> QED BY <1>1, <1>3 DEF ModulesPinned

\* The bandwidth of an action comes from what is available and returns there,
\* all of it or, if the kernel refused, none.
LEMMA BandwidthKept ==
    ASSUME IInv, TypeOK', Effect, IsFiniteSet(flows), run = "up", BandwidthConserved
    PROVE  BandwidthConserved'
  <1>1. avail \in Int /\ faults \in Nat /\ Capacity \in Nat
    BY QOSAssumption DEF IInv, TypeOK
  <1>2. Rated(flows) /\ Reserved = Total(flows) /\ Total(flows) \in Nat
    <2>1. Rated(flows)
      BY FlowAction DEF Rated, Rate, IInv
    <2> QED BY <2>1, ReservedIsTotal, TotalFinite
  <1>3. /\ avail + Total(flows) <= Capacity
        /\ faults = 0 => avail + Total(flows) = Capacity
    BY <1>2 DEF BandwidthConserved
  <1>4. ASSUME Rated(flows'), avail' + Total(flows') <= Capacity,
               faults' = 0 => avail' + Total(flows') = Capacity
        PROVE  BandwidthConserved'
    <2>1. Reserved' = Total(flows')
      <3>1. Reserved' = Sum(flows')
        BY DEF Reserved, MapThenSumSet, MapThenFoldSet, Sum, Summing, First, Rate, ActionOf
      <3> QED BY <1>4, <3>1, SumIsTotal
    <2> QED BY <1>4, <2>1 DEF BandwidthConserved
  <1>5. CASE Quiet \/ \E id : Loses(id)
    BY <1>1, <1>2, <1>3, <1>4, <1>5 DEF Quiet, Loses
  <1>6. ASSUME NEW n, Gains(n) PROVE BandwidthConserved'
    <2>1. flows' = flows \cup {n} /\ n \notin flows /\ Rate(n) \in Nat
          /\ avail' = avail - Rate(n) /\ faults' = faults
      BY <1>6 DEF Gains
    <2>2. Rated(flows')
      BY <1>2, <2>1, FS_AddElement DEF Rated
    <2>3. Total(flows') = Total(flows) + Rate(n)
      BY <2>1, <2>2, TotalAdd
    <2> QED BY <1>1, <1>2, <1>3, <1>4, <2>1, <2>2, <2>3
  <1>7. ASSUME NEW f \in flows, Removes(f) PROVE BandwidthConserved'
    <2>1. flows' = flows \ {f} /\ Rate(f) \in Nat
      BY <1>2, <1>7 DEF Removes, Rated
    <2>2. Rated(flows') /\ Total(flows') \in Nat
      <3>1. Rated(flows')
        BY <1>2, <2>1, FS_RemoveElement DEF Rated
      <3> QED BY <3>1, TotalFinite
    <2>3. Total(flows) = Total(flows') + Rate(f)
      <3> DEFINE rest == flows \ {f}
      <3>1. rest \cup {f} = flows /\ f \notin rest
        OBVIOUS
      <3>2. Total(rest \cup {f}) = Total(rest) + Rate(f)
        <4> HIDE DEF rest
        <4> QED BY <1>2, <3>1, TotalAdd
      <3> QED BY <2>1, <3>1, <3>2
    <2>4. CASE avail' = avail + Rate(f) /\ faults' = faults
      BY <1>1, <1>2, <1>3, <1>4, <2>1, <2>2, <2>3, <2>4
    <2>5. CASE avail' = avail /\ faults' = faults + 1
      BY <1>1, <1>2, <1>3, <1>4, <2>1, <2>2, <2>3, <2>5
    <2> QED BY <1>7, <2>4, <2>5 DEF Removes
  <1> QED BY <1>5, <1>6, <1>7 DEF Effect

LEMMA AccountsHold == Spec => []AccountInv
  <1>1. Init => AccountInv
    <2> SUFFICES ASSUME Init PROVE AccountInv
      OBVIOUS
    <2>1. InUse(pool) = {} /\ classes = {} /\ flows = {} /\ faults = 0
      BY NewPoolOK DEF Init
    <2>2. \A m \in Module : Users(m) = {} /\ refs[m] = IF m = Htb THEN 1 ELSE 0
      BY <2>1 DEF Users, Init
    <2>3. InUse(pool) \ Ids = {} /\ classes \ HtbIds = {}
      BY <2>1
    <2>4. BandwidthConserved
      <3>1. Rated(flows) /\ Total(flows) = 0
        BY <2>1, TotalEmpty, FS_EmptySet DEF Rated
      <3>2. Reserved = 0
        BY <3>1, ReservedIsTotal
      <3> QED BY <3>2, QOSAssumption DEF Init, BandwidthConserved
    <2> QED
      BY <2>1, <2>2, <2>3, <2>4, FS_EmptySet
         DEF AccountInv, OrphansCounted, ModulesPinned
  <1>2. IInv /\ AccountInv /\ [Next]_vars => AccountInv'
    <2> SUFFICES ASSUME IInv, AccountInv, [Next]_vars, run' = "up" PROVE AccountInv'
      BY DEF AccountInv
    <2>1. run = "up" /\ Effect
      BY RanBefore, StepEffect
    <2>2. Cardinality(InUse(pool') \ Ids') <= faults'
      BY <2>1, LeaksKept DEF AccountInv
    <2>3. OrphansCounted'
      BY <2>1, OrphansKept DEF AccountInv
    <2>4. IsFiniteSet(flows') /\ ModulesPinned'
      BY <2>1, NextIInv, PinsKept DEF IInv, AccountInv
    <2>5. BandwidthConserved'
      BY <2>1, NextIInv, BandwidthKept DEF IInv, AccountInv
    <2> QED BY <2>2, <2>3, <2>4, <2>5 DEF AccountInv
  <1> QED BY <1>1, <1>2, IInvHolds, PTL DEF Spec

\* However rules fail and roll back, an identifier without an action is the
\* price of one refused request each; all others can be lent again.
THEOREM LeaksSafe == Spec => []LeaksBounded
  <1>1. AccountInv => LeaksBounded
    BY DEF AccountInv, LeaksBounded
  <1> QED BY <1>1, AccountsHold, PTL

\* A class without an action is the price of one refused request each, also
\* when its identifier is lent to other actions and comes back.
THEOREM OrphansSafe == Spec => []OrphansBounded
  <1>1. IInv /\ AccountInv => OrphansBounded
    <2> SUFFICES ASSUME IInv, AccountInv, run = "up"
                 PROVE  Cardinality(classes \ Ids) <= faults
      BY DEF OrphansBounded
    <2>1. IsFiniteSet(classes \ HtbIds) /\ classes \ Ids \in SUBSET (classes \ HtbIds)
      BY FiniteIds DEF IInv, HtbIds, Ids
    <2>2. /\ Cardinality(classes \ Ids) <= Cardinality(classes \ HtbIds)
          /\ Cardinality(classes \ HtbIds) \in Nat /\ Cardinality(classes \ Ids) \in Nat
      BY <2>1, FS_Subset, FS_CardinalityType
    <2>3. Cardinality(classes \ HtbIds) <= faults /\ faults \in Nat
      BY QOSAssumption DEF AccountInv, OrphansCounted, IInv, TypeOK
    <2> QED BY <2>2, <2>3
  <1> QED BY <1>1, IInvHolds, AccountsHold, PTL

\* The reference count of a module never falls below the number of installed
\* actions that call it, for any modules and rules, so the loader unloads no
\* library an action points into.
THEOREM ModulesStay == Spec => []ModulesPinned
  <1>1. AccountInv => ModulesPinned
    BY DEF AccountInv, ModulesPinned
  <1> QED BY <1>1, AccountsHold, PTL

\* What is available and what the installed actions took never exceed the rate
\* of the link, and make it up exactly until the kernel refuses something, for
\* any rules: no path of addRule, delRule and timeout returns a rate twice.
THEOREM BandwidthSafe == Spec => []BandwidthConserved
  <1>1. AccountInv => BandwidthConserved
    BY DEF AccountInv, BandwidthConserved
  <1> QED BY <1>1, AccountsHold, PTL

-----------------------------------------------------------------------------
(* How far a call has got *)

Has(r, i) == \E f \in flows : f.rule = r /\ f.act = i
Due(r, i) == Actions[r][i].timed => << r, i >> \in timers
Busy(r) == call.op \in {"add", "undo", "del"} /\ call.rule = r

\* A timer belongs to an action with a Duration.
TimersSound ==
    \A t \in timers : t[2] \in 1 .. Len(Actions[t[1]]) /\ Actions[t[1]][t[2]].timed

OncePerAction ==
    \A f, g \in flows : f.rule = g.rule /\ f.act = g.act => f = g

\* A call works on a rule in the state it was called for; addRule has
\* installed the actions before the one it is at.
CallStates ==
    /\ call.op = "check" => state[call.rule] = "new"
    /\ call.op \in {"add", "undo"} => state[call.rule] = "valid"
    /\ call.op = "del" => state[call.rule] \in {"valid", "active"}
    /\ call.op = "add" =>
         /\ call.act <= Len(Actions[call.rule]) + 1
         /\ \A i \in 1 .. Len(Actions[call.rule]) :
              (Has(call.rule, i) <=> i < call.act) /\ (i < call.act => Due(call.rule, i))

\* A rule no call works on is installed as its state says.
Whole(r) ==
    /\ r \in table <=> state[r] = "active"
    /\ ~Busy(r) =>
         IF state[r] = "active"
         THEN \A i \in 1 .. Len(Actions[r]) : Has(r, i) <=> Due(r, i)
         ELSE \A f \in flows : f.rule # r

PhaseInv ==
    run = "up" => /\ TimersSound /\ OncePerAction /\ CallStates
                  /\ \A r \in Rule : Whole(r)

\* The rules a step leaves as they are.
Untouched(r) ==
    /\ state'[r] = state[r] /\ (r \in table' <=> r \in table)
    /\ \A f \in flows \cup flows' : f.rule = r => f \in flows /\ f \in flows'
    /\ \A i : << r, i >> \in timers' <=> << r, i >> \in timers

LEMMA WholeKept ==
    ASSUME NEW r, Whole(r), Untouched(r), ~Busy(r) \/ Busy(r)'
    PROVE  Whole(r)'
  <1>1. /\ state'[r] = state[r] /\ (r \in table' <=> r \in table)
        /\ \A i : Due(r, i)' <=> Due(r, i)
    BY DEF Untouched, Due
  <1>2. \A i : Has(r, i)' <=> Has(r, i)
    BY DEF Untouched, Has
  <1>3. (\A f \in flows : f.rule # r) => (\A f \in flows' : f.rule # r)
    BY DEF Untouched
  <1> QED BY <1>1, <1>2, <1>3 DEF Whole

\* Steps that install, remove, arm and rename nothing.
LEMMA QuietPhase ==
    ASSUME PhaseInv, run = "up", UNCHANGED << state, table, flows >>,
           \A t \in timers' : t \in timers,
           \A r \in Rule : \A i : state[r] = "active" =>
                (<< r, i >> \in timers' <=> << r, i >> \in timers),
           \A r \in Rule : Busy(r) => Busy(r)',
           CallStates'
    PROVE  PhaseInv'
  <1>1. TimersSound' /\ OncePerAction'
    BY DEF PhaseInv, TimersSound, OncePerAction
  <1>2. ASSUME NEW r \in Rule PROVE Whole(r)'
    BY DEF PhaseInv, Whole, Has, Due
  <1> QED BY <1>1, <1>2 DEF PhaseInv

\* checkRule tries actions of rules that are new.
LEMMA CheckPhase == ASSUME IInv, PhaseInv, CheckStep, run' = "up" PROVE PhaseInv'
  <1>1. run = "up" /\ call.op = "check"
    BY DEF CheckStep, CheckPasses, CheckGetsNothing, CheckNoBandwidth, CheckRefused,
       CheckDestroysTwice, CheckThrowsOut, CheckAborts, Crash, EndCheck, Reject,
       CheckGetsToSetup, At
  <1>2. call \in Calls /\ call.rule \in Rule /\ state[call.rule] = "new"
    BY <1>1, InsideCall DEF IInv, PhaseInv, CallStates, Calls
  <1>3. UNCHANGED << table, flows, timers >>
    BY <1>1 DEF CheckStep, CheckPasses, CheckGetsNothing, CheckNoBandwidth, CheckRefused,
       CheckDestroysTwice, CheckThrowsOut, CheckAborts, Crash, EndCheck, Reject
  <1>4. CASE CheckPasses
    <2>1. UNCHANGED << state, table, flows, timers >> /\ call'.op = call.op
          /\ call'.rule = call.rule
      BY <1>2, <1>4 DEF CheckPasses, GoOn, Calls
    <2>2. CallStates'
      BY <1>1, <1>2, <2>1 DEF CallStates
    <2> QED BY <1>1, <2>1, <2>2, QuietPhase DEF Busy
  <1>5. CASE \E s \in {"valid", "error"} :
               state' = [state EXCEPT ![call.rule] = s] /\ call' = NoCall
    <2>1. CallStates' /\ \A r \in Rule : ~Busy(r) /\ ~Busy(r)'
      BY <1>1, <1>5 DEF CallStates, NoCall, Busy
    <2>2. TimersSound' /\ OncePerAction'
      BY <1>1, <1>3 DEF PhaseInv, TimersSound, OncePerAction
    <2>3. ASSUME NEW r \in Rule PROVE Whole(r)'
      <3>1. Whole(r) /\ state \in [Rule -> {"new", "valid", "error", "active", "done"}]
        BY <1>1 DEF PhaseInv, IInv, TypeOK
      <3>2. CASE r = call.rule
        BY <1>2, <1>3, <1>5, <2>1, <3>1, <3>2 DEF Whole
      <3>3. CASE r # call.rule
        <4>1. Untouched(r)
          BY <1>2, <1>3, <1>5, <3>1, <3>3 DEF Untouched
        <4> QED BY <2>1, <3>1, <4>1, WholeKept
      <3> QED BY <3>2, <3>3
    <2> QED BY <2>1, <2>2, <2>3 DEF PhaseInv
  <1> QED BY <1>4, <1>5 DEF CheckStep, CheckGetsNothing, CheckNoBandwidth, CheckRefused,
       CheckDestroysTwice, CheckThrowsOut, CheckAborts, Crash, EndCheck, Reject

\* addRule is at an action it has not installed, nor any behind it.
LEMMA AddPhase == ASSUME IInv, PhaseInv, AddStep, run' = "up" PROVE PhaseInv'
  <1>1. run = "up" /\ call.op \in {"add", "undo"}
    BY DEF AddStep, AddInstalls, AddNoFlowId, AddRefused, AddFails, EndAdd, EndUndo,
       UndoAction, UndoThrowsOut, At
  <1>0. PICK r \in Rule : r = call.rule
    BY <1>1, InsideCall DEF IInv, Calls
  <1>2. /\ call \in Calls /\ r \in Rule /\ state[r] = "valid" /\ r \notin table
        /\ call.act \in Nat \ {0}
        /\ Actions[r] \in Seq(Action) /\ Len(Actions[r]) \in Nat /\ Busy(r)
    BY <1>0, <1>1, InsideCall, QOSAssumption DEF IInv, PhaseInv, CallStates, Calls, Whole, Busy
  <1>3. ASSUME call.op = "add"
        PROVE  /\ call.act <= Len(Actions[r]) + 1
               /\ \A i \in 1 .. Len(Actions[r]) :
                    (Has(r, i) <=> i < call.act) /\ (i < call.act => Due(r, i))
    BY <1>0, <1>1, <1>3 DEF PhaseInv, CallStates
  <1>4. CASE AddInstalls
    <2> DEFINE n == [rule |-> r, act |-> call.act, id |-> NextId(pool)]
    <2>1. /\ call.op = "add" /\ call.act \in 1 .. Len(Actions[r])
          /\ flows' = flows \cup {n} /\ UNCHANGED << state, table >>
          /\ timers' = timers \cup TimerEvents(Actions[r][call.act])
      BY <1>0, <1>2, <1>4 DEF AddInstalls, At, Current
    <2>2. call'.op = "add" /\ call'.rule = r /\ call'.act = call.act + 1
      BY <1>0, <1>2, <1>4, <2>1 DEF AddInstalls, GoOn, Calls
    <2>3. /\ n.rule = r /\ n.act = call.act
          /\ \A f \in flows : f.rule = r => f.act # call.act
      BY <1>3, <2>1 DEF Has
    <2> HIDE DEF n
    <2>4. \A t \in timers' : t \in timers \/
             (t = << r, call.act >> /\ Actions[r][call.act].timed)
      BY <1>0, <2>1 DEF TimerEvents, ProcTimer
    <2>5. timers \subseteq timers' /\
          (Actions[r][call.act].timed => << r, call.act >> \in timers')
      BY <1>0, <2>1 DEF TimerEvents, ProcTimer
    <2>6. TimersSound'
      <3>1. \A t \in timers : t[2] \in 1 .. Len(Actions[t[1]]) /\ Actions[t[1]][t[2]].timed
        BY <1>1 DEF PhaseInv, TimersSound
      <3> QED BY <2>1, <2>4, <3>1 DEF TimersSound
    <2>7. OncePerAction'
      BY <1>1, <2>1, <2>3 DEF PhaseInv, OncePerAction
    <2>8. CallStates'
      <3>1. ASSUME NEW i \in 1 .. Len(Actions[r])
            PROVE  /\ Has(r, i)' <=> i < call.act + 1
                   /\ i < call.act + 1 => Due(r, i)'
        <4>1. Has(r, i)' <=> Has(r, i) \/ i = call.act
          BY <2>1, <2>3 DEF Has
        <4>2. Due(r, i) => Due(r, i)'
          BY <2>5 DEF Due
        <4>3. i = call.act => Due(r, i)'
          BY <2>5 DEF Due
        <4> QED BY <1>2, <1>3, <2>1, <4>1, <4>2, <4>3
      <3>2. call.act + 1 <= Len(Actions[r]) + 1
        BY <1>2, <2>1
      <3>3. state'[r] = "valid"
        BY <1>2, <2>1
      <3> QED BY <2>2, <3>1, <3>2, <3>3 DEF CallStates, Has, Due
    <2>9. ASSUME NEW x \in Rule PROVE Whole(x)'
      <3>1. Whole(x)
        BY <1>1 DEF PhaseInv
      <3>2. CASE x = r
        BY <1>0, <1>2, <2>1, <2>2, <3>2 DEF Whole, Busy
      <3>3. CASE x # r
        <4>1. Untouched(x)
          BY <2>1, <2>3, <2>4, <2>5, <3>3 DEF Untouched
        <4>2. ~Busy(x)
          BY <1>0, <3>3 DEF Busy
        <4> QED BY <3>1, <4>1, <4>2, WholeKept
      <3> QED BY <3>2, <3>3
    <2> QED BY <2>6, <2>7, <2>8, <2>9 DEF PhaseInv
  <1>5. CASE AddNoFlowId \/ AddRefused
    <2>1. UNCHANGED << state, table, flows, timers >> /\ call'.op = "undo" /\ call'.rule = r
      BY <1>0, <1>2, <1>5 DEF AddNoFlowId, AddRefused, AddFails, Calls
    <2>2. CallStates'
      BY <1>0, <1>2, <2>1 DEF CallStates
    <2> QED BY <1>0, <1>1, <2>1, <2>2, QuietPhase DEF Busy
  <1>6. CASE EndAdd
    <2>1. /\ call.op = "add" /\ call.act > Len(Actions[r]) /\ call' = NoCall
          /\ table' = table \cup {r} /\ state' = [state EXCEPT ![r] = "active"]
          /\ UNCHANGED << flows, timers >>
      BY <1>0, <1>6 DEF EndAdd
    <2>2. TimersSound' /\ OncePerAction' /\ CallStates'
      BY <1>1, <2>1 DEF PhaseInv, TimersSound, OncePerAction, CallStates, NoCall
    <2>3. ASSUME NEW x \in Rule PROVE Whole(x)'
      <3>1. Whole(x) /\ state \in [Rule -> {"new", "valid", "error", "active", "done"}]
        BY <1>1 DEF PhaseInv, IInv, TypeOK
      <3>2. CASE x = r
        <4>1. \A i \in 1 .. Len(Actions[r]) : Has(r, i) /\ Due(r, i)
          BY <1>2, <1>3, <2>1
        <4>2. \A i \in 1 .. Len(Actions[r]) : Has(r, i)' <=> Due(r, i)'
          BY <2>1, <4>1 DEF Has, Due
        <4>3. r \in table' /\ state'[r] = "active"
          BY <1>2, <2>1, <3>1
        <4> QED BY <3>2, <4>2, <4>3 DEF Whole
      <3>3. CASE x # r
        <4>1. Untouched(x) /\ ~Busy(x)
          BY <1>0, <1>2, <2>1, <3>1, <3>3 DEF Untouched, Busy
        <4> QED BY <3>1, <4>1, WholeKept
      <3> QED BY <3>2, <3>3
    <2> QED BY <2>2, <2>3 DEF PhaseInv
  <1>7. CASE EndUndo
    <2>1. /\ call' = NoCall /\ \A f \in flows : f.rule # r
          /\ UNCHANGED << state, table, flows, timers >>
      BY <1>0, <1>7 DEF EndUndo, Installed
    <2>2. TimersSound' /\ OncePerAction' /\ CallStates'
      BY <1>1, <2>1 DEF PhaseInv, TimersSound, OncePerAction, CallStates, NoCall
    <2>3. ASSUME NEW x \in Rule PROVE Whole(x)'
      BY <1>0, <1>1, <1>2, <2>1 DEF PhaseInv, Whole, Busy, Has, Due
    <2> QED BY <2>2, <2>3 DEF PhaseInv
  <1>8. ASSUME NEW f \in flows, UndoAction(f) PROVE PhaseInv'
    <2>1. /\ call.op = "undo" /\ f.rule = r /\ flows' = flows \ {f}
          /\ UNCHANGED << state, table, timers, call >>
      BY <1>0, <1>8 DEF UndoAction, IsNext, Installed, Forget
    <2>2. TimersSound' /\ OncePerAction' /\ CallStates'
      BY <1>1, <2>1 DEF PhaseInv, TimersSound, OncePerAction, CallStates
    <2>3. ASSUME NEW x \in Rule PROVE Whole(x)'
      <3>1. Whole(x)
        BY <1>1 DEF PhaseInv
      <3>2. CASE x = r
        BY <1>0, <1>2, <2>1, <3>1, <3>2 DEF Whole, Busy
      <3>3. CASE x # r
        <4>1. Untouched(x) /\ ~Busy(x)
          BY <1>0, <2>1, <3>3 DEF Untouched, Busy
        <4> QED BY <3>1, <4>1, WholeKept
      <3> QED BY <3>2, <3>3
    <2> QED BY <2>2, <2>3 DEF PhaseInv
  <1>9. ASSUME NEW f \in flows, UndoThrowsOut(f) PROVE PhaseInv'
    BY <1>9 DEF UndoThrowsOut
  <1> QED BY <1>4, <1>5, <1>6, <1>7, <1>8, <1>9 DEF AddStep

\* delRule forgets actions of its rule only, and ends when all are gone.
LEMMA DelPhase == ASSUME IInv, PhaseInv, DelStep, run' = "up" PROVE PhaseInv'
  <1>1. run = "up" /\ call.op = "del"
    BY DEF DelStep, DelHollow, Crash, EndDel, DelAction, DelRefused
  <1> DEFINE r == call.rule
  <1>2. call \in Calls /\ r \in Rule /\ Busy(r)
    BY <1>1, InsideCall DEF IInv, Calls, Busy
  <1>3. CASE EndDel
    <2>1. /\ call' = NoCall /\ (\A f \in flows : f.rule # r) /\ table' = table \ {r}
          /\ state' = [state EXCEPT ![r] = "done"] /\ UNCHANGED << flows, timers >>
      BY <1>3 DEF EndDel, Installed
    <2>2. TimersSound' /\ OncePerAction' /\ CallStates'
      BY <1>1, <2>1 DEF PhaseInv, TimersSound, OncePerAction, CallStates, NoCall
    <2>3. ASSUME NEW x \in Rule PROVE Whole(x)'
      <3>1. Whole(x) /\ state \in [Rule -> {"new", "valid", "error", "active", "done"}]
        BY <1>1 DEF PhaseInv, IInv, TypeOK
      <3>2. CASE x = r
        BY <1>2, <2>1, <3>1, <3>2 DEF Whole
      <3>3. CASE x # r
        <4>1. Untouched(x) /\ ~Busy(x)
          BY <1>2, <2>1, <3>1, <3>3 DEF Untouched, Busy
        <4> QED BY <3>1, <4>1, WholeKept
      <3> QED BY <3>2, <3>3
    <2> QED BY <2>2, <2>3 DEF PhaseInv
  <1>4. ASSUME NEW f \in flows, DelAction(f) \/ DelRefused(f) PROVE PhaseInv'
    <2>1. /\ f.rule = r /\ flows' = flows \ {f}
          /\ UNCHANGED << state, table, timers, call >>
      BY <1>4 DEF DelAction, DelRefused, IsNext, Installed, Forget
    <2>2. TimersSound' /\ OncePerAction' /\ CallStates'
      BY <1>1, <2>1 DEF PhaseInv, TimersSound, OncePerAction, CallStates
    <2>3. ASSUME NEW x \in Rule PROVE Whole(x)'
      <3>1. Whole(x)
        BY <1>1 DEF PhaseInv
      <3>2. CASE x = r
        BY <1>2, <2>1, <3>1, <3>2 DEF Whole, Busy
      <3>3. CASE x # r
        <4>1. Untouched(x) /\ ~Busy(x)
          BY <2>1, <3>3 DEF Untouched, Busy
        <4> QED BY <3>1, <4>1, WholeKept
      <3> QED BY <3>2, <3>3
    <2> QED BY <2>2, <2>3 DEF PhaseInv
  <1>5. ~DelHollow
    BY DEF DelHollow, Crash
  <1> QED BY <1>3, <1>4, <1>5 DEF DelStep

\* Between calls rules are whole; a timer takes its action with it.
LEMMA EnterPhase == ASSUME IInv, PhaseInv, Enter, run' = "up" PROVE PhaseInv'
  <1>1. run = "up"
    BY RanBefore DEF Next
  <1>2. ASSUME NEW r \in Rule, BeginCheck(r) \/ BeginAdd(r) \/ BeginDel(r)
        PROVE  PhaseInv'
    <2>1. Idle /\ UNCHANGED << state, table, flows, timers >>
      BY <1>2 DEF BeginCheck, BeginAdd, BeginDel
    <2>2. CallStates'
      <3>1. CASE BeginCheck(r) \/ BeginDel(r)
        BY <1>1, <3>1 DEF BeginCheck, BeginDel, Starts, CallStates
      <3>2. CASE BeginAdd(r)
        <4>1. /\ call' = [op |-> "add", rule |-> r, act |-> 1] /\ state' = state
              /\ state[r] = "valid" /\ flows' = flows
          BY <3>2 DEF BeginAdd, Starts
        <4>2. \A f \in flows : f.rule # r
          BY <1>1, <2>1, <4>1 DEF PhaseInv, Whole, Busy, Idle, NoCall
        <4>3. Len(Actions[r]) \in Nat
          BY QOSAssumption
        <4> QED BY <4>1, <4>2, <4>3 DEF CallStates, Has
      <3> QED BY <1>2, <3>1, <3>2
    <2> QED BY <1>1, <2>1, <2>2, QuietPhase DEF Busy, Idle, NoCall
  <1>3. ASSUME NEW r \in Rule, DropTimers(r) PROVE PhaseInv'
    <2>1. /\ timers' = {t \in timers : t[1] # r} /\ state[r] = "done"
          /\ UNCHANGED << state, table, flows, call >>
      BY <1>3 DEF DropTimers
    <2>2. CallStates'
      BY <1>3, <2>1 DEF DropTimers, Idle, NoCall, CallStates
    <2> QED BY <1>1, <2>1, <2>2, QuietPhase DEF Busy
  <1>4. ASSUME NEW f \in flows, TimeoutAction(f) PROVE PhaseInv'
    <2>1. /\ flows' = flows \ {f} /\ f.rule \in table
          /\ << f.rule, f.act >> \in timers /\ timers' = timers \ {<< f.rule, f.act >>}
          /\ call' = call /\ call.op = "idle" /\ UNCHANGED << state, table >>
      BY <1>4 DEF TimeoutAction, Fires, ProcTimer, Forget, Idle, NoCall
    <2>2. TimersSound' /\ OncePerAction' /\ CallStates'
      BY <1>1, <2>1 DEF PhaseInv, TimersSound, OncePerAction, CallStates
    <2>3. ASSUME NEW x \in Rule PROVE Whole(x)'
      <3>1. Whole(x)
        BY <1>1 DEF PhaseInv
      <3>2. CASE x = f.rule
        <4>1. state[x] = "active" /\ x \in table
          BY <2>1, <3>1, <3>2 DEF Whole
        <4>2. Actions[x][f.act].timed
          BY <1>1, <2>1, <3>2 DEF PhaseInv, TimersSound
        <4>3. ASSUME NEW i \in 1 .. Len(Actions[x]) PROVE Has(x, i)' <=> Due(x, i)'
          <5>1. Has(x, i) <=> Due(x, i)
            BY <2>1, <3>1, <4>1 DEF Whole, Busy
          <5>2. CASE i = f.act
            <6>1. ~Due(x, i)'
              BY <2>1, <3>2, <4>2, <5>2 DEF Due
            <6>2. ~Has(x, i)'
              BY <1>1, <2>1, <3>2, <5>2 DEF Has, PhaseInv, OncePerAction
            <6> QED BY <6>1, <6>2
          <5>3. CASE i # f.act
            <6>1. Has(x, i)' <=> Has(x, i)
              BY <2>1, <3>2, <5>3 DEF Has
            <6>2. Due(x, i)' <=> Due(x, i)
              BY <2>1, <3>2, <5>3 DEF Due
            <6> QED BY <5>1, <6>1, <6>2
          <5> QED BY <5>2, <5>3
        <4> QED BY <2>1, <4>1, <4>3 DEF Whole
      <3>3. CASE x # f.rule
        <4>1. Untouched(x) /\ ~Busy(x)
          BY <2>1, <3>3 DEF Untouched, Busy
        <4> QED BY <3>1, <4>1, WholeKept
      <3> QED BY <3>2, <3>3
    <2> QED BY <2>2, <2>3 DEF PhaseInv
  <1>5. ASSUME NEW t \in timers, TimeoutHollow(t[1], t[2]) PROVE PhaseInv'
    <2>1. /\ t[1] \in Rule /\ t[1] \notin table /\ timers' = timers \ {<< t[1], t[2] >>}
          /\ call' = call /\ call.op = "idle" /\ UNCHANGED << state, table, flows >>
      BY <1>5 DEF TimeoutHollow, Fires, ProcTimer, Idle, NoCall, IInv, TypeOK
    <2>2. state[t[1]] # "active"
      BY <1>1, <2>1 DEF PhaseInv, Whole
    <2>3. CallStates'
      BY <2>1 DEF CallStates
    <2>4. \A r \in Rule : \A i : state[r] = "active" =>
            (<< r, i >> \in timers' <=> << r, i >> \in timers)
      BY <2>1, <2>2
    <2> QED BY <1>1, <2>1, <2>3, <2>4, QuietPhase DEF Busy
  <1>6. ~BeginShutdown
    BY DEF BeginShutdown
  <1> QED BY <1>2, <1>3, <1>4, <1>5, <1>6 DEF Enter

LEMMA PhasesHold == Spec => []PhaseInv
  <1>1. Init => PhaseInv
    BY DEF Init, PhaseInv, TimersSound, OncePerAction, CallStates, NoCall, Whole
  <1>2. IInv /\ PhaseInv /\ [Next]_vars => PhaseInv'
    <2> SUFFICES ASSUME IInv, PhaseInv, [Next]_vars, run' = "up" PROVE PhaseInv'
      BY DEF PhaseInv
    <2>1. CASE EndShutdown
      BY <2>1 DEF EndShutdown
    <2>2. CASE UNCHANGED vars
      BY <2>2 DEF vars, PhaseInv, TimersSound, OncePerAction, CallStates, Whole, Busy,
         Has, Due
    <2> QED BY <2>1, <2>2, CheckPhase, AddPhase, DelPhase, EnterPhase DEF Next, Work
  <1> QED BY <1>1, <1>2, IInvHolds, PTL DEF Spec

\* Between calls every rule is installed completely, but for the actions whose
\* Duration is over, or not at all, through any failures, rollbacks, removals
\* and timers.
THEOREM InstallationsWhole == Spec => []NothingHalfInstalled
  <1>1. PhaseInv => NothingHalfInstalled
    <2> SUFFICES ASSUME PhaseInv, run = "up", Idle, NEW r \in Rule
                 PROVE  IF state[r] = "active"
                        THEN /\ r \in table
                             /\ \A i \in 1 .. Len(Actions[r]) :
                                  (\E f \in Installed(r) : f.act = i)
                                    <=> (Actions[r][i].timed => << r, i >> \in timers)
                        ELSE r \notin table /\ Installed(r) = {}
      BY DEF NothingHalfInstalled
    <2>1. Whole(r) /\ ~Busy(r)
      BY DEF PhaseInv, Busy, Idle, NoCall
    <2>2. \A i : Has(r, i) <=> \E f \in Installed(r) : f.act = i
      BY DEF Has, Installed
    <2> QED BY <2>1, <2>2 DEF Whole, Due, Installed
  <1> QED BY <1>1, PhasesHold, PTL
=============================================================================
