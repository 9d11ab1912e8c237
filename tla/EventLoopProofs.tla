---------------------------- MODULE EventLoopProofs ----------------------------
(***************************************************************************)
(* For any clients, times, timer interval and number of signals: an alarm  *)
(* is in the pipe for a due event, or a dump has let it slip behind, so no *)
(* more events are taken early than dumps were read.                       *)
(***************************************************************************)
EXTENDS EventLoop, FiniteSetTheorems, FunctionTheorems, SequenceTheorems, TLAPS

Bytes == {"S", "D", "A"}
Events == [kind : {"timer", "request", "activate", "remove"}, of : SUBSET Client,
           wait : Int]

TypeInv ==
    /\ pc \in {"arm", "select", "check", "handle", "stopped"}
    /\ pipe \in Seq(Bytes)
    /\ rset \in [pipe : BOOLEAN, clients : SUBSET Client]
    /\ queue \in Seq(Events) /\ current \in Seq(Events)
    /\ pc = "handle" => current # << >>
    /\ client \in [Client -> {"idle", "sent", "queued", "answered", "active", "removed"}]
    /\ dumps \in Nat /\ early \in Nat

-----------------------------------------------------------------------------
(* Bytes in the pipe *)

At(s, b) == {i \in DOMAIN s : s[i] = b}
Alarms(s) == Cardinality(At(s, "A"))

LEMMA AlarmsType ==
    ASSUME NEW s \in Seq(Bytes), NEW b
    PROVE  IsFiniteSet(At(s, b)) /\ Cardinality(At(s, b)) \in Nat
  <1>1. DOMAIN s = 1 .. Len(s) /\ Len(s) \in Nat
    BY LenProperties
  <1>2. IsFiniteSet(1 .. Len(s)) /\ At(s, b) \in SUBSET (1 .. Len(s))
    BY <1>1, FS_Interval DEF At
  <1> QED BY <1>2, FS_Subset, FS_CardinalityType

\* write(): one byte more of its kind.
LEMMA AlarmsAppend ==
    ASSUME NEW s \in Seq(Bytes), NEW b \in Bytes
    PROVE  /\ Append(s, b) \in Seq(Bytes) /\ Append(s, b) # << >>
           /\ Alarms(Append(s, b)) = Alarms(s) + (IF b = "A" THEN 1 ELSE 0)
           /\ Alarms(s) \in Nat
  <1>1. /\ Len(s) \in Nat /\ DOMAIN s = 1 .. Len(s)
        /\ Append(s, b) \in Seq(Bytes) /\ DOMAIN Append(s, b) = 1 .. Len(s) + 1
        /\ Append(s, b)[Len(s) + 1] = b
        /\ \A i \in 1 .. Len(s) : Append(s, b)[i] = s[i]
    BY AppendProperties, LenProperties
  <1>2. Append(s, b) # << >>
    BY <1>1, EmptySeq, LenProperties
  <1>3. IsFiniteSet(At(s, "A")) /\ Alarms(s) \in Nat
    BY AlarmsType DEF Alarms
  <1>4. CASE b = "A"
    <2>1. At(Append(s, b), "A") = At(s, "A") \cup {Len(s) + 1} /\ Len(s) + 1 \notin At(s, "A")
      BY <1>1, <1>4 DEF At
    <2> QED BY <1>1, <1>2, <1>3, <1>4, <2>1, FS_AddElement DEF Alarms
  <1>5. CASE b # "A"
    <2>1. At(Append(s, b), "A") = At(s, "A")
      BY <1>1, <1>5 DEF At
    <2> QED BY <1>1, <1>2, <1>3, <1>5, <2>1 DEF Alarms
  <1> QED BY <1>4, <1>5

\* read(): the first byte is gone.
LEMMA AlarmsTail ==
    ASSUME NEW s \in Seq(Bytes), s # << >>
    PROVE  /\ Tail(s) \in Seq(Bytes)
           /\ Alarms(Tail(s)) = Alarms(s) - (IF Head(s) = "A" THEN 1 ELSE 0)
           /\ Alarms(s) \in Nat /\ Alarms(Tail(s)) \in Nat
  <1> DEFINE t == Tail(s)
             f == [i \in At(t, "A") |-> i + 1]
             rest == At(s, "A") \ {1}
  <1>1. /\ Len(s) \in Nat \ {0} /\ DOMAIN s = 1 .. Len(s) /\ Head(s) = s[1]
        /\ t \in Seq(Bytes) /\ Len(t) = Len(s) - 1
        /\ \A i \in 1 .. Len(t) : t[i] = s[i + 1]
    BY LenProperties, EmptySeq, HeadTailProperties
  <1>2. DOMAIN t = 1 .. Len(s) - 1
    BY <1>1, LenProperties
  <1>3. /\ IsFiniteSet(At(s, "A")) /\ Alarms(s) \in Nat
        /\ IsFiniteSet(At(t, "A")) /\ Alarms(t) \in Nat
    BY <1>1, AlarmsType DEF Alarms
  <1>4. Cardinality(rest) = Cardinality(At(t, "A"))
    <2>1. At(t, "A") = {i \in 1 .. Len(s) - 1 : s[i + 1] = "A"}
      BY <1>1, <1>2 DEF At
    <2>2. rest = {i \in 2 .. Len(s) : s[i] = "A"}
      BY <1>1 DEF At
    <2>3. f \in [At(t, "A") -> rest]
      BY <1>1, <2>1, <2>2
    <2>4. \A i, j \in At(t, "A") : f[i] = f[j] => i = j
      BY <2>1
    <2>5. \A j \in rest : \E i \in At(t, "A") : f[i] = j
      <3> SUFFICES ASSUME NEW j \in rest PROVE \E i \in At(t, "A") : f[i] = j
        OBVIOUS
      <3>1. j - 1 \in At(t, "A") /\ f[j - 1] = j
        BY <1>1, <2>1, <2>2
      <3> QED BY <3>1
    <2>6. f \in Bijection(At(t, "A"), rest)
      <3> HIDE DEF f, rest
      <3> QED BY <2>3, <2>4, <2>5, Fun_IsBij
    <2>7. ExistsBijection(At(t, "A"), rest)
      BY <2>6 DEF ExistsBijection
    <2> QED BY <1>3, <2>7, FS_Bijection
  <1>5. Cardinality(rest) = IF 1 \in At(s, "A") THEN Alarms(s) - 1 ELSE Alarms(s)
    BY <1>3, FS_RemoveElement DEF Alarms
  <1>6. 1 \in At(s, "A") <=> Head(s) = "A"
    BY <1>1 DEF At
  <1> QED BY <1>1, <1>3, <1>4, <1>5, <1>6 DEF Alarms

-----------------------------------------------------------------------------
(* Events in the queue *)

\* multimap::insert keeps a sequence of events one.
LEMMA InsertAllTypes ==
    ASSUME NEW q \in Seq(Events), NEW events \in Seq(Events), NEW wait \in Int
    PROVE  InsertAll(q, events, wait) \in Seq(Events)
  <1> DEFINE earlier == {i \in DOMAIN q : q[i].wait <= wait}
             n == Cardinality(earlier)
  <1>1. Len(q) \in Nat /\ DOMAIN q = 1 .. Len(q) /\ \A i \in 1 .. Len(q) : q[i] \in Events
    BY LenProperties
  <1>2. n \in Nat /\ n <= Len(q)
    <2>1. IsFiniteSet(1 .. Len(q)) /\ Cardinality(1 .. Len(q)) = Len(q)
      <3> DEFINE k == Len(q)
      <3> HIDE DEF k
      <3>1. k \in Nat => IsFiniteSet(1 .. k) /\ Cardinality(1 .. k) = k
        BY FS_Interval
      <3> QED BY <1>1, <3>1 DEF k
    <2>2. earlier \in SUBSET (1 .. Len(q))
      BY <1>1
    <2> HIDE DEF earlier
    <2> QED BY <2>1, <2>2, FS_Subset, FS_CardinalityType
  <1> HIDE DEF n
  <1>3. SubSeq(q, 1, n) \in Seq(Events) /\ SubSeq(q, n + 1, Len(q)) \in Seq(Events)
    BY <1>1, <1>2, SubSeqProperties
  <1>4. SubSeq(q, 1, n) \o events \in Seq(Events)
    BY <1>3, ConcatProperties
  <1>5. SubSeq(q, 1, n) \o events \o SubSeq(q, n + 1, Len(q)) \in Seq(Events)
    BY <1>3, <1>4, ConcatProperties
  <1> QED BY <1>5 DEF InsertAll, n

LEMMA InsertTypes ==
    ASSUME NEW q \in Seq(Events), NEW e \in Events
    PROVE  Insert(q, e) \in Seq(Events)
  <1>1. << e >> \in Seq(Events) /\ e.wait \in Int
    BY DEF Events
  <1> QED BY <1>1, InsertAllTypes DEF Insert

LEMMA EventTypes ==
    ASSUME NEW c \in Client, NEW kind \in {"request", "activate", "remove"},
           NEW wait \in Int
    PROVE  Event(kind, c, wait) \in Events
  BY DEF Event, Events

\* The requests of the connections, in whatever order they are looked at.
LEMMA RequestsTypes ==
    ASSUME NEW C \in SUBSET Client, NEW order \in SetToSeqs(C)
    PROVE  Requests(order) \in Seq(Events)
  <1> DEFINE n == Cardinality(C)
  <1>1. n \in Nat
    BY LoopAssumption, FS_Subset, FS_CardinalityType
  <1>2. order \in [1 .. n -> C]
    BY DEF SetToSeqs
  <1> HIDE DEF n
  <1>3. Requests(order) \in [1 .. n -> Events]
    BY <1>2, EventTypes DEF Requests
  <1> QED BY <1>1, <1>3, SeqDef

\* The queue of the constructor: the rules of the file, and the timer.
LEMMA FirstQueue ==
    /\ SetToSeq({Event("request", c, 0) : c \in FromFile}) \in Seq(Events)
    /\ << Timer >> \in Seq(Events) /\ Timer \in Events
  <1> DEFINE S == {Event("request", c, 0) : c \in FromFile}
             n == Cardinality(S)
             g == [c \in FromFile |-> Event("request", c, 0)]
  <1>1. Timer \in Events
    BY LoopAssumption DEF Timer, Events
  <1>2. S \subseteq Events
    BY LoopAssumption, EventTypes
  <1>3. IsFiniteSet(S)
    <2>1. IsFiniteSet(FromFile)
      BY LoopAssumption, FS_Subset
    <2>2. g \in Surjection(FromFile, S)
      <3>1. g \in [FromFile -> S] /\ \A e \in S : \E c \in FromFile : g[c] = e
        OBVIOUS
      <3> HIDE DEF g, S
      <3> QED BY <3>1, Fun_IsSurj
    <2> HIDE DEF g, S
    <2> QED BY <2>1, <2>2, FS_Surjection
  <1> HIDE DEF S
  <1>4. n \in Nat /\ ExistsBijection(1 .. n, S)
    BY <1>3, FS_CardinalityType
  <1> HIDE DEF n
  <1>5. PICK f : f \in Bijection(1 .. n, S)
    BY <1>4 DEF ExistsBijection
  <1>6. f \in [1 .. n -> S] /\ IsInjective(f)
    BY <1>5 DEF Bijection, Injection
  <1>7. SetToSeq(S) \in [1 .. n -> S]
    BY <1>6 DEF SetToSeq, n
  <1>8. SetToSeq(S) \in Seq(Events)
    BY <1>2, <1>4, <1>7, SeqDef
  <1> QED BY <1>1, <1>8 DEF S

\* Time passes for every event, and none that is due stops being it.
LEMMA LaterTypes ==
    ASSUME NEW q \in Seq(Events), NEW r, r = [i \in DOMAIN q |-> Later(q[i])]
    PROVE  /\ r \in Seq(Events)
           /\ q # << >> => r # << >> /\ (Head(q).wait <= 0 => Head(r).wait <= 0)
  <1>1. Keepalive \in Int
    BY LoopAssumption
  <1>2. \A e \in Events : Later(e) \in Events /\ (e.wait <= 0 => Later(e).wait <= 0)
    <2> SUFFICES ASSUME NEW e \in Events
                 PROVE  Later(e) \in Events /\ (e.wait <= 0 => Later(e).wait <= 0)
      OBVIOUS
    <2>1. e.wait \in Int /\ e = [kind |-> e.kind, of |-> e.of, wait |-> e.wait]
      BY DEF Events
    <2>2. CASE e.wait > -Keepalive
      <3>1. Later(e) = [kind |-> e.kind, of |-> e.of, wait |-> e.wait - 1]
        BY <2>1, <2>2 DEF Later
      <3> QED BY <2>1, <3>1 DEF Events
    <2>3. CASE ~(e.wait > -Keepalive)
      <3>1. Later(e) = e
        BY <2>1, <2>3 DEF Later
      <3> QED BY <2>1, <3>1
    <2> QED BY <2>2, <2>3
  <1>3. Len(q) \in Nat /\ DOMAIN q = 1 .. Len(q) /\ \A i \in 1 .. Len(q) : q[i] \in Events
    BY LenProperties
  <1>4. r \in [1 .. Len(q) -> Events] /\ \A i \in 1 .. Len(q) : r[i] = Later(q[i])
    BY <1>2, <1>3
  <1>5. r \in Seq(Events) /\ Len(r) = Len(q)
    BY <1>3, <1>4, SeqDef, LenProperties
  <1>6. ASSUME q # << >> PROVE r # << >> /\ (Head(q).wait <= 0 => Head(r).wait <= 0)
    <2>1. 1 \in 1 .. Len(q) /\ Head(q) = q[1] /\ r # << >> /\ Head(r) = r[1]
      BY <1>3, <1>5, <1>6, EmptySeq
    <2> QED BY <1>2, <1>3, <1>4, <2>1
  <1> QED BY <1>5, <1>6

\* An event that recurs keeps its shape.
LEMMA AdvancedTypes == ASSUME NEW e \in Events PROVE Advanced(e) \in Events
  BY LoopAssumption DEF Events, Advanced

-----------------------------------------------------------------------------
(* What the alarms come to *)

\* The alarms in the pipe are for events that are due, but for those that a dump
\* has put behind: each of these may take an event before its time.
Paid == early + Alarms(pipe) <= dumps
\* One more alarm is on its way, and the first event is still due.
Owing == early + Alarms(pipe) <= dumps + 1 /\ Due /\ pipe # << >>

\* Arm writes the alarm, and until a byte is read the first event stays the first:
\* nothing is inserted between getNextEventTime and the read of the pipe.
RoundInv ==
    /\ pc \in {"arm", "handle"} => Paid
    /\ pc = "select" => Paid \/ Owing
    /\ pc = "check" => Paid \/ (Owing /\ rset.pipe)
    /\ pc = "check" /\ rset.pipe => pipe # << >>

LoopInv == TypeInv /\ RoundInv

\* The program starts with an empty pipe and the events of the rule file.
LEMMA LoopInit == ASSUME Init PROVE LoopInv
  <1>1. queue \in Seq(Events)
    <2>1. CASE enableCtrl
      BY <2>1, FirstQueue, ConcatProperties DEF Init
    <2>2. CASE ~enableCtrl
      <3>1. << >> \in Seq(Events)
        OBVIOUS
      <3> QED BY <2>2, <3>1, FirstQueue, ConcatProperties DEF Init
    <2> QED BY <2>1, <2>2
  <1>2. TypeInv
    BY <1>1, LoopAssumption DEF Init, TypeInv, NothingReadable
  <1>3. Alarms(pipe) = 0
    <2>1. At(pipe, "A") = {}
      BY DEF Init, At
    <2> QED BY <2>1, FS_EmptySet DEF Alarms
  <1> QED BY <1>2, <1>3 DEF Init, LoopInv, RoundInv, Paid

\* What each step needs of the invariant.
LEMMA Counts ==
    ASSUME TypeInv
    PROVE  Alarms(pipe) \in Nat /\ early \in Nat /\ dumps \in Nat
  <1>1. pipe \in Seq(Bytes)
    BY DEF TypeInv
  <1> QED BY <1>1, AlarmsType DEF TypeInv, Alarms

\* getNextEventTime: with the byte comes the due event.
LEMMA ArmKeeps == ASSUME LoopInv, Arm PROVE LoopInv'
  <1>1. TypeInv /\ Paid /\ pc' = "select" /\ Alarms(pipe) \in Nat
    BY Counts DEF LoopInv, RoundInv, Arm
  <1>2. CASE Due
    <2>1. pipe' = Append(pipe, "A")
      BY <1>2 DEF Arm
    <2>2. pipe \in Seq(Bytes) /\ "A" \in Bytes
      BY DEF LoopInv, TypeInv, Bytes
    <2>3. /\ pipe' \in Seq(Bytes) /\ pipe' # << >>
          /\ Alarms(pipe') = Alarms(pipe) + 1
      BY <2>1, <2>2, AlarmsAppend
    <2>4. Due' /\ UNCHANGED << early, dumps >>
      BY <1>2 DEF Arm, Due
    <2>5. Owing'
      BY <1>1, <2>3, <2>4, Counts DEF Owing, Paid, Alarms
    <2>6. TypeInv'
      BY <1>1, <2>3 DEF Arm, TypeInv
    <2> QED BY <1>1, <2>5, <2>6 DEF LoopInv, RoundInv
  <1>3. CASE ~Due
    <2>1. UNCHANGED << pipe, early, dumps >>
      BY <1>3 DEF Arm
    <2>2. TypeInv'
      BY <1>1, <2>1 DEF Arm, TypeInv
    <2>3. Paid'
      BY <1>1, <2>1 DEF Paid, Alarms, At
    <2> QED BY <1>1, <2>2, <2>3 DEF LoopInv, RoundInv
  <1> QED BY <1>2, <1>3

\* select(): what is readable now.
LEMMA SelectReadyKeeps == ASSUME LoopInv, SelectReady PROVE LoopInv'
  <1>1. /\ pc = "select" /\ pc' = "check" /\ rset' = Readable
        /\ UNCHANGED << pipe, queue, early, dumps >>
    BY DEF SelectReady
  <1>2. rset'.pipe = (pipe # << >>) /\ rset' \in [pipe : BOOLEAN, clients : SUBSET Client]
    BY <1>1 DEF Readable
  <1>3. TypeInv'
    BY <1>1, <1>2 DEF SelectReady, LoopInv, TypeInv
  <1>4. (Paid \/ Owing)' = (Paid \/ Owing)
    BY <1>1 DEF Paid, Owing, Due, Alarms, At
  <1>5. Owing' => rset'.pipe
    BY <1>1, <1>2 DEF Owing
  <1> QED BY <1>1, <1>2, <1>3, <1>4, <1>5 DEF LoopInv, RoundInv

\* select() timed out: the pipe is empty, so no alarm is owed.
LEMMA SelectTimesOutKeeps == ASSUME LoopInv, SelectTimesOut PROVE LoopInv'
  <1>1. /\ pc = "select" /\ pc' = "arm" /\ pipe = << >>
        /\ UNCHANGED << pipe, queue, early, dumps >>
    BY DEF SelectTimesOut, Asleep, Readable, NothingReadable
  <1>2. TypeInv'
    BY <1>1 DEF SelectTimesOut, LoopInv, TypeInv
  <1>3. Paid /\ Paid' = Paid
    BY <1>1 DEF LoopInv, RoundInv, Owing, Paid, Alarms, At
  <1> QED BY <1>1, <1>2, <1>3 DEF LoopInv, RoundInv

\* One byte is read: an alarm less, or as many as before.
LEMMA ReadEffect ==
    ASSUME LoopInv, NEW b \in Bytes, ReadByte(b)
    PROVE  /\ pipe' \in Seq(Bytes) /\ rset' = NothingReadable
           /\ rset' \in [pipe : BOOLEAN, clients : SUBSET Client]
           /\ Alarms(pipe') = Alarms(pipe) - (IF b = "A" THEN 1 ELSE 0)
           /\ Alarms(pipe) \in Nat /\ Alarms(pipe') \in Nat
           /\ early + Alarms(pipe) <= dumps + 1
           /\ ~Due => Paid
           /\ pc = "check"
  <1>1. pc = "check" /\ rset.pipe /\ Head(pipe) = b /\ pipe' = Tail(pipe)
        /\ rset' = NothingReadable
    BY DEF ReadByte
  <1>2. pipe \in Seq(Bytes) /\ pipe # << >> /\ TypeInv
    BY <1>1 DEF LoopInv, RoundInv, TypeInv
  <1>3. /\ Tail(pipe) \in Seq(Bytes)
        /\ Alarms(Tail(pipe)) = Alarms(pipe) - (IF Head(pipe) = "A" THEN 1 ELSE 0)
        /\ Alarms(pipe) \in Nat /\ Alarms(Tail(pipe)) \in Nat
    BY <1>2, AlarmsTail
  <1>4. Paid \/ Owing
    BY <1>1 DEF LoopInv, RoundInv
  <1>5. early + Alarms(pipe) <= dumps + 1
    BY <1>2, <1>3, <1>4 DEF Paid, Owing, TypeInv
  <1>6. NothingReadable \in [pipe : BOOLEAN, clients : SUBSET Client]
    BY DEF NothingReadable
  <1> QED BY <1>1, <1>3, <1>4, <1>5, <1>6 DEF Owing

LEMMA ReadStopKeeps == ASSUME LoopInv, ReadStop PROVE LoopInv'
  <1>1. pipe' \in Seq(Bytes) /\ rset' \in [pipe : BOOLEAN, clients : SUBSET Client]
    BY ReadEffect DEF ReadStop, Bytes
  <1> QED BY <1>1 DEF ReadStop, LoopInv, TypeInv, RoundInv

\* The alarm behind the dump stays, and the dump counts for it.
LEMMA ReadDumpKeeps == ASSUME LoopInv, ReadDump PROVE LoopInv'
  <1>1. /\ pipe' \in Seq(Bytes) /\ rset' \in [pipe : BOOLEAN, clients : SUBSET Client]
        /\ Alarms(pipe') = Alarms(pipe) /\ Alarms(pipe) \in Nat
        /\ early + Alarms(pipe) <= dumps + 1
    BY ReadEffect DEF ReadDump, Bytes
  <1>2. TypeInv'
    BY <1>1 DEF ReadDump, LoopInv, TypeInv
  <1>3. Paid'
    BY <1>1 DEF ReadDump, Paid, Alarms, At
  <1> QED BY <1>2, <1>3 DEF ReadDump, LoopInv, RoundInv

\* getNextEvent: early only if the alarm was no longer for a due event.
LEMMA TakeEventKeeps == ASSUME LoopInv, TakeEvent PROVE LoopInv'
  <1>1. /\ pipe' \in Seq(Bytes) /\ rset' \in [pipe : BOOLEAN, clients : SUBSET Client]
        /\ Alarms(pipe') = Alarms(pipe) - 1 /\ Alarms(pipe) \in Nat
        /\ early + Alarms(pipe) <= dumps + 1
        /\ ~Due => Paid
    BY ReadEffect DEF TakeEvent, Bytes
  <1>2. queue \in Seq(Events) /\ queue # << >> /\ early \in Nat /\ dumps \in Nat
    BY DEF LoopInv, TypeInv, TakeEvent
  <1>3. Head(queue) \in Events /\ Tail(queue) \in Seq(Events)
    BY <1>2, HeadTailProperties
  <1>4. << Head(queue) >> \in Seq(Events) /\ << Head(queue) >> # << >>
    BY <1>3
  <1>5. early' = (IF Due THEN early ELSE early + 1) /\ UNCHANGED dumps
    BY <1>2 DEF TakeEvent, Due
  <1>6. TypeInv'
    BY <1>1, <1>2, <1>3, <1>4, <1>5 DEF TakeEvent, LoopInv, TypeInv
  <1>7. Paid'
    <2>1. early' + Alarms(pipe') <= dumps'
      BY <1>1, <1>2, <1>5 DEF Paid
    <2> QED BY <2>1 DEF Paid
  <1> QED BY <1>6, <1>7 DEF TakeEvent, LoopInv, RoundInv

LEMMA NoEventKeeps == ASSUME LoopInv, NoEvent PROVE LoopInv'
  <1>1. /\ pipe' \in Seq(Bytes) /\ rset' \in [pipe : BOOLEAN, clients : SUBSET Client]
        /\ Alarms(pipe') = Alarms(pipe) - 1 /\ Alarms(pipe) \in Nat
        /\ ~Due => Paid
    BY ReadEffect DEF NoEvent, Bytes
  <1>2. ~Due /\ UNCHANGED << early, dumps >> /\ early \in Nat /\ dumps \in Nat
    BY DEF NoEvent, Due, LoopInv, TypeInv
  <1>3. TypeInv'
    BY <1>1 DEF NoEvent, LoopInv, TypeInv
  <1>4. Paid'
    <2>1. early' + Alarms(pipe') <= dumps'
      BY <1>1, <1>2 DEF Paid
    <2> QED BY <2>1 DEF Paid
  <1> QED BY <1>3, <1>4 DEF NoEvent, LoopInv, RoundInv

\* The connections are looked at only when no byte was: no alarm is owed.
LEMMA ServeClientsKeeps == ASSUME LoopInv, ServeClients PROVE LoopInv'
  <1>1. /\ pc = "check" /\ ~rset.pipe /\ pc' = "arm" /\ rset' = NothingReadable
        /\ UNCHANGED << pipe, current, dumps, early >>
        /\ client' = [c \in Client |->
                        IF c \in rset.clients THEN "queued" ELSE client[c]]
    BY DEF ServeClients
  <1>2. queue' \in Seq(Events)
    <2>1. PICK order \in SetToSeqs(rset.clients) :
             queue' = InsertAll(queue, Requests(order), 0)
      BY DEF ServeClients
    <2>2. Requests(order) \in Seq(Events)
      <3>1. rset.clients \in SUBSET Client
        BY DEF LoopInv, TypeInv
      <3> QED BY <2>1, <3>1, RequestsTypes
    <2> QED BY <2>1, <2>2, InsertAllTypes DEF LoopInv, TypeInv
  <1>3. TypeInv'
    BY <1>1, <1>2 DEF LoopInv, TypeInv, NothingReadable
  <1>4. Paid'
    BY <1>1 DEF LoopInv, RoundInv, Paid, Alarms, At
  <1> QED BY <1>1, <1>3, <1>4 DEF LoopInv, RoundInv

\* The event in hand is dealt with: alarms, dumps and early events stay.
LEMMA EventDoneKeeps ==
    ASSUME LoopInv, pc = "handle", EventDone, queue' \in Seq(Events),
           client' \in [Client -> {"idle", "sent", "queued", "answered", "active",
                                   "removed"}]
    PROVE  LoopInv'
  <1>1. /\ pc' = "arm" /\ current' = << >> /\ current' \in Seq(Events)
        /\ UNCHANGED << pipe, rset, dumps, early >>
    BY DEF EventDone
  <1>2. TypeInv'
    BY <1>1 DEF LoopInv, TypeInv
  <1>3. Paid'
    BY <1>1 DEF LoopInv, RoundInv, Paid, Alarms, At
  <1> QED BY <1>1, <1>2, <1>3 DEF LoopInv, RoundInv

\* The event in hand is an event.
LEMMA InHand ==
    ASSUME LoopInv, NEW kind, Handling(kind)
    PROVE  current[1] \in Events /\ Rules \subseteq Client
  <1>1. current \in Seq(Events) /\ current # << >>
    BY DEF LoopInv, TypeInv, Handling
  <1>2. current[1] \in Events
    BY <1>1, EmptySeq, LenProperties
  <1> QED BY <1>2 DEF Events, Rules

LEMMA HandleTimerKeeps == ASSUME LoopInv, HandleTimer PROVE LoopInv'
  <1>1. current[1] \in Events
    BY InHand DEF HandleTimer
  <1>2. Advanced(current[1]) \in Events
    BY <1>1, AdvancedTypes
  <1>3. queue' \in Seq(Events)
    BY <1>2, InsertTypes DEF HandleTimer, LoopInv, TypeInv
  <1>4. client' = client /\ TypeInv
    BY DEF HandleTimer, LoopInv
  <1>5. client' \in [Client -> {"idle", "sent", "queued", "answered", "active", "removed"}]
    BY <1>4 DEF TypeInv
  <1> QED BY <1>3, <1>5, EventDoneKeeps DEF HandleTimer, Handling

LEMMA HandleRequestKeeps == ASSUME LoopInv, HandleRequest PROVE LoopInv'
  <1>1. PICK c \in Rules :
          /\ queue' = Insert(Insert(queue, Event("activate", c, StartIn[c])),
                             Event("remove", c, StopIn[c]))
          /\ client' = [client EXCEPT ![c] = "answered"]
    BY DEF HandleRequest
  <1>2. c \in Client
    BY InHand DEF HandleRequest
  <1>3. /\ Event("activate", c, StartIn[c]) \in Events
        /\ Event("remove", c, StopIn[c]) \in Events
    BY <1>2, LoopAssumption, EventTypes
  <1>4. Insert(queue, Event("activate", c, StartIn[c])) \in Seq(Events)
    BY <1>3, InsertTypes DEF LoopInv, TypeInv
  <1>5. queue' \in Seq(Events)
    BY <1>1, <1>3, <1>4, InsertTypes
  <1>6. client' \in [Client -> {"idle", "sent", "queued", "answered", "active", "removed"}]
    BY <1>1 DEF LoopInv, TypeInv
  <1> QED BY <1>5, <1>6, EventDoneKeeps DEF HandleRequest, Handling

LEMMA HandleActivateKeeps == ASSUME LoopInv, HandleActivate PROVE LoopInv'
  <1>1. queue' \in Seq(Events)
    BY DEF HandleActivate, LoopInv, TypeInv
  <1>2. client' \in [Client -> {"idle", "sent", "queued", "answered", "active", "removed"}]
    BY DEF HandleActivate, LoopInv, TypeInv
  <1> QED BY <1>1, <1>2, EventDoneKeeps DEF HandleActivate, Handling

LEMMA HandleRemoveKeeps == ASSUME LoopInv, HandleRemove PROVE LoopInv'
  <1>1. queue' \in Seq(Events)
    BY DEF HandleRemove, LoopInv, TypeInv
  <1>2. client' \in [Client -> {"idle", "sent", "queued", "answered", "active", "removed"}]
    BY DEF HandleRemove, LoopInv, TypeInv
  <1> QED BY <1>1, <1>2, EventDoneKeeps DEF HandleRemove, Handling

\* A signal's byte goes behind the alarms; one that ends select() finds no alarm.
LEMMA SignalKeeps == ASSUME LoopInv, NEW b \in {"S", "D"}, Signal(b) PROVE LoopInv'
  <1>1. /\ pc # "stopped" /\ pipe' = Append(pipe, b)
        /\ UNCHANGED << rset, queue, current, client, dumps, early >>
        /\ UNCHANGED pc \/ (Asleep /\ pc' = "arm")
    BY DEF Signal
  <1>2. pipe \in Seq(Bytes) /\ b \in Bytes
    BY DEF LoopInv, TypeInv, Bytes
  <1>3. pipe' \in Seq(Bytes) /\ pipe' # << >> /\ Alarms(pipe') = Alarms(pipe)
    <2>1. Alarms(Append(pipe, b)) = Alarms(pipe) + 0 /\ Alarms(pipe) \in Nat
      BY <1>2, AlarmsAppend
    <2> QED BY <1>1, <1>2, <2>1, AlarmsAppend
  <1>4. TypeInv'
    BY <1>1, <1>3 DEF LoopInv, TypeInv, Asleep
  <1>5. (Paid <=> Paid') /\ (Owing => Owing')
    <2>1. Alarms(pipe)' = Alarms(pipe) /\ (Due <=> Due')
      BY <1>1, <1>3 DEF Alarms, At, Due
    <2> QED BY <1>1, <1>3, <2>1 DEF Paid, Owing
  <1>6. CASE UNCHANGED pc
    BY <1>1, <1>3, <1>4, <1>5, <1>6 DEF LoopInv, RoundInv
  <1>7. CASE Asleep /\ pc' = "arm"
    <2>1. pc = "select" /\ pipe = << >>
      BY <1>7 DEF Asleep, Readable, NothingReadable
    <2> QED BY <1>4, <1>5, <1>7, <2>1 DEF LoopInv, RoundInv, Owing
  <1> QED BY <1>1, <1>6, <1>7

LEMMA RequestKeeps == ASSUME LoopInv, NEW c \in Client, Request(c) PROVE LoopInv'
  <1>1. UNCHANGED << pc, pipe, rset, queue, current, dumps, early >>
    BY DEF Request
  <1>2. TypeInv'
    BY <1>1 DEF Request, LoopInv, TypeInv
  <1>3. (Paid <=> Paid') /\ (Owing <=> Owing')
    BY <1>1 DEF Paid, Owing, Due, Alarms, At
  <1> QED BY <1>1, <1>2, <1>3 DEF LoopInv, RoundInv

\* What is due stays due.
LEMMA TickKeeps == ASSUME LoopInv, Tick PROVE LoopInv'
  <1>1. UNCHANGED << pc, pipe, rset, client, dumps, early >>
    BY DEF Tick
  <1>2. /\ queue \in Seq(Events) /\ queue' = [i \in DOMAIN queue |-> Later(queue[i])]
        /\ current \in Seq(Events)
        /\ current' = [i \in DOMAIN current |-> Later(current[i])]
    BY DEF Tick, LoopInv, TypeInv
  <1>3. /\ queue' \in Seq(Events)
        /\ queue # << >> => queue' # << >> /\ (Head(queue).wait <= 0 => Head(queue').wait <= 0)
    BY <1>2, LaterTypes
  <1>4. current' \in Seq(Events) /\ (current # << >> => current' # << >>)
    BY <1>2, LaterTypes
  <1>5. TypeInv'
    BY <1>1, <1>3, <1>4 DEF LoopInv, TypeInv
  <1>6. (Paid <=> Paid') /\ (Owing => Owing')
    BY <1>1, <1>3 DEF Paid, Owing, Due, Alarms, At
  <1> QED BY <1>1, <1>5, <1>6 DEF LoopInv, RoundInv

LEMMA StutterKeeps == ASSUME LoopInv, UNCHANGED vars PROVE LoopInv'
  BY DEF vars, LoopInv, TypeInv, RoundInv, Paid, Owing, Due, Alarms, At

LEMMA LoopNext == ASSUME LoopInv, [Next]_vars PROVE LoopInv'
  <1>1. CASE Step
    BY <1>1, ArmKeeps, SelectReadyKeeps, SelectTimesOutKeeps, ReadStopKeeps, ReadDumpKeeps,
       TakeEventKeeps, NoEventKeeps, ServeClientsKeeps, HandleTimerKeeps,
       HandleRequestKeeps, HandleActivateKeeps, HandleRemoveKeeps DEF Step
  <1>2. CASE \E b \in {"S", "D"} : Signal(b)
    BY <1>2, SignalKeeps
  <1>3. CASE \E c \in Client : Request(c)
    BY <1>3, RequestKeeps
  <1>4. CASE Tick
    BY <1>4, TickKeeps
  <1>5. CASE UNCHANGED vars
    BY <1>5, StutterKeeps
  <1> QED BY <1>1, <1>2, <1>3, <1>4, <1>5 DEF Next

-----------------------------------------------------------------------------

\* QualityManager::run and EventScheduler::getNextEvent: an event is taken before
\* its time at most once for every SIGUSR1 that was read, and the alarms that wait
\* in the pipe at the start of a round are counted in.
THEOREM EarlySafe == Spec => []EarlyBounded
  <1>1. Init => LoopInv
    BY LoopInit
  <1>2. LoopInv /\ [Next]_vars => LoopInv'
    BY LoopNext
  <1>3. LoopInv => EarlyBounded
    BY DEF LoopInv, RoundInv, Paid, Alarms, At, EarlyBounded
  <1> QED BY <1>1, <1>2, <1>3, PTL DEF Spec
=============================================================================
