----------------------------- MODULE ControlProofs -----------------------------
(***************************************************************************)
(* For any clients, access lists, requests and interleavings of httpd with *)
(* timers, events and answers: connections are watched for what is wanted  *)
(* of them, complete POSTs make one event each and wait for it, events     *)
(* answer their makers or, as copies, older requests of the same call, and *)
(* nobody is served whom the configuration keeps out.                      *)
(***************************************************************************)
EXTENDS Control, FiniteSetTheorems, SequenceTheorems, TLAPS

States == {"none", "READ_HEADER", "KEEPALIVE", "READ_BODY", "PARSE_HEADER", "PARSE_BODY",
           "PROCESS", "WRITE_HEADER", "WRITE_BODY", "FINISHED", "CLOSE"}
Asked == [method : {"GET", "POST"}, keep : BOOLEAN, http11 : BOOLEAN,
          cmd : {"page", "task", "bad", "unknown"}]
Request == [st : States, req : Asked \cup {None}, whole : BOOLEAN, keep : BOOLEAN,
            late : BOOLEAN, made : 0 .. 2]
Bytes == [part : {"head"}, req : Asked] \cup [part : {"body", "eof"}, req : {None}]
Event == [obj : Nat, by : Client, of : Client \cup {"freed"}, taken : BOOLEAN, post : BOOLEAN]
Phases == {"io", "parse", "write", "finish"}
InCall == [phase : Phases, todo : Seq(Client), r : SUBSET Client, w : SUBSET Client, ret : Nat]

TypeInv ==
    /\ threaded \in BOOLEAN /\ access \in AccessLists
    /\ client \in [Client -> {"off", "idle", "sending", "awaiting", "gone"}]
    /\ inbox \in [Client -> Seq(Bytes)]
    /\ backlog \in Seq(Client) /\ conns \in Seq(Client) /\ conn \in [Client -> Request]
    /\ rset \subseteq Client /\ wset \subseteq Client
    /\ call = NoCall \/ (call \in InCall /\ call.todo # << >> /\ call.ret <= Len(queue))
    /\ queue \in Seq(Event)
    /\ timer \in BOOLEAN /\ run \in {"up", "killed", "undefined"}

-----------------------------------------------------------------------------
(* The inductive invariant *)

Waiting == ToSet(backlog)
IsSet(s) == \A i, j \in DOMAIN s : s[i] = s[j] => i = j
Todo == IF call = NoCall THEN {} ELSE ToSet(call.todo)

\* A client that is not there has no connection, one that waits not yet.  The
\* list and a call visit each connection once; events hold open connections.
NamesInv ==
    /\ IsSet(backlog) /\ IsSet(conns) /\ IsSet(call.todo)
    /\ \A c \in Waiting : ~Open(c) /\ client[c] # "off"
    /\ \A c \in Client : client[c] = "off" => ~Open(c)
    /\ \A c \in ToSet(conns) \cup Todo : Open(c)
    /\ \A i \in DOMAIN queue : queue[i].of # "freed" => Open(queue[i].of)

\* Who is served was let in, and nobody connects who can not be seen.
HostInv == \A c \in Client :
    /\ Open(c) \/ c \in Waiting => UseIPv6 \/ AddressOf[c] \in IPv4
    /\ conn[c].st \notin {"none", "CLOSE"} => HostAccess(c)

\* A command is carried out in the states that follow reading: after the head
\* if the request came whole, after the body if not.
OnceOf(n) ==
    /\ n.whole /\ n.req.method = "POST" =>
          /\ n.made <= 1 /\ (n.st = "PARSE_HEADER" => n.made = 0)
          /\ n.st \notin {"READ_BODY", "PARSE_BODY"}
    /\ n.st \in {"READ_BODY", "PARSE_HEADER", "PARSE_BODY"} => n.req # None
OnceInv == \A c \in Client : OnceOf(conn[c])

\* What a connection looks like between two visits, and one that was refused
\* before its only visit.
Calm(c) ==
    /\ (c \in wset) <=> (conn[c].st \in {"WRITE_HEADER", "WRITE_BODY"})
    /\ (c \in rset) <=> (Open(c) /\ c \notin wset)
    /\ conn[c].st \notin {"FINISHED", "CLOSE"}
    /\ ~(conn[c].st = "PARSE_HEADER" /\ conn[c].req.method = "POST")
Refused(c) ==
    /\ conn[c].st = "CLOSE" /\ c \in rset /\ c \notin wset
    /\ c \notin call.r \cup call.w

\* The visited connection, in the ifs of the loop's body
Visited(c, phase) ==
    CASE phase = "io" -> Calm(c) \/ Refused(c)
      [] phase = "parse" ->
            /\ conn[c].st \in {"PARSE_HEADER", "PARSE_BODY"}
            /\ c \in rset /\ c \notin wset
            /\ conn[c].st = "PARSE_HEADER" /\ conn[c].req.method = "POST" =>
                   c \in call.r /\ ~conn[c].late
      [] phase = "write" -> conn[c].st = "WRITE_HEADER"
      [] phase = "finish" -> conn[c].st \in {"FINISHED", "CLOSE"}

IsVisited(c) == call # NoCall /\ c = Head(call.todo)
Unread(c) == c \in Todo /\ (IsVisited(c) => call.phase = "io")

\* What select() said still stands for the connections to be visited.
WatchInv == \A c \in Client :
    /\ IF IsVisited(c) THEN Visited(c, call.phase)
       ELSE Calm(c) \/ (c \in Todo /\ Refused(c))
    /\ Unread(c) => /\ c \in call.r => c \in rset /\ inbox[c] # << >>
                    /\ c \in call.w => c \in wset

Running == NamesInv /\ WatchInv
ControlInv == TypeInv /\ HostInv /\ OnceInv /\ (run = "up" => Running)

-----------------------------------------------------------------------------
(* Sequences *)

\* The elements of a sequence
LEMMA ToSetOK ==
    ASSUME NEW S, NEW s \in Seq(S)
    PROVE  /\ ToSet(s) \in SUBSET S /\ Len(s) \in Nat /\ DOMAIN s = 1 .. Len(s)
           /\ \A x : x \in ToSet(s) <=> \E i \in 1 .. Len(s) : s[i] = x
  <1>1. Len(s) \in Nat /\ DOMAIN s = 1 .. Len(s) /\ \A i \in 1 .. Len(s) : s[i] \in S
    BY LenProperties, ElementOfSeq
  <1> QED BY <1>1 DEF ToSet

\* A sequence without the element at i
LEMMA RemoveOK ==
    ASSUME NEW S, NEW s \in Seq(S), NEW i \in DOMAIN s
    PROVE  /\ RemoveAt(s, i) \in Seq(S) /\ Len(RemoveAt(s, i)) = Len(s) - 1
           /\ \A j \in DOMAIN RemoveAt(s, i) :
                 /\ (IF j < i THEN j ELSE j + 1) \in DOMAIN s \ {i}
                 /\ RemoveAt(s, i)[j] = s[IF j < i THEN j ELSE j + 1]
  <1> DEFINE n == Len(s)
             a == SubSeq(s, 1, i - 1)
             b == SubSeq(s, i + 1, n)
  <1>1. n \in Nat /\ DOMAIN s = 1 .. n /\ i \in 1 .. n /\ \A j \in 1 .. n : s[j] \in S
    BY LenProperties, ElementOfSeq
  <1>2. /\ a \in Seq(S) /\ Len(a) = i - 1
        /\ \A j \in 1 .. i - 1 : a[j] = s[j]
    <2>1. a = [j \in 1 .. i - 1 |-> s[j]]
      BY <1>1
    <2>3. i - 1 \in Nat /\ \A j \in 1 .. i - 1 : s[j] \in S
      BY <1>1
    <2> HIDE DEF a
    <2>2. a \in [1 .. i - 1 -> S] /\ i - 1 \in Nat
      BY <2>1, <2>3
    <2> QED BY <2>1, <2>2, SeqDef, LenProperties
  <1>3. /\ b \in Seq(S) /\ Len(b) = n - i
        /\ \A j \in 1 .. n - i : b[j] = s[j + i]
    <2>1. b = [j \in 1 .. n - i |-> s[j + i]]
      BY <1>1
    <2>3. n - i \in Nat /\ \A j \in 1 .. n - i : s[j + i] \in S
      <3>1. \A j \in 1 .. n - i : j + i \in 1 .. n
        BY <1>1
      <3> QED BY <1>1, <3>1
    <2> HIDE DEF b
    <2>2. b \in [1 .. n - i -> S] /\ n - i \in Nat /\ \A j \in 1 .. n - i : b[j] = s[j + i]
      BY <2>1, <2>3
    <2>4. b \in Seq(S)
      BY <2>2, SeqDef
    <2>5. Len(b) = n - i
      <3>1. DOMAIN b = 1 .. n - i /\ DOMAIN b = 1 .. Len(b) /\ Len(b) \in Nat
        BY <2>2, <2>4, LenProperties
      <3> QED BY <2>2, <3>1
    <2> QED BY <2>2, <2>4, <2>5
  <1>4. RemoveAt(s, i) = a \o b
    BY DEF RemoveAt
  <1> HIDE DEF a, b, n
  <1>5. /\ a \o b \in Seq(S) /\ Len(a \o b) = Len(a) + Len(b)
        /\ \A j \in 1 .. Len(a) + Len(b) :
              (a \o b)[j] = IF j <= Len(a) THEN a[j] ELSE b[j - Len(a)]
    BY <1>2, <1>3, ConcatProperties
  <1>6. Len(a) + Len(b) = n - 1
    BY <1>1, <1>2, <1>3
  <1>7. DOMAIN (a \o b) = 1 .. n - 1
    BY <1>5, <1>6, LenProperties
  <1>8. \A j \in 1 .. n - 1 :
           /\ (IF j < i THEN j ELSE j + 1) \in 1 .. n /\ (IF j < i THEN j ELSE j + 1) # i
           /\ (a \o b)[j] = s[IF j < i THEN j ELSE j + 1]
    <2> SUFFICES ASSUME NEW j \in 1 .. n - 1
                 PROVE  /\ (IF j < i THEN j ELSE j + 1) \in 1 .. n
                        /\ (IF j < i THEN j ELSE j + 1) # i
                        /\ (a \o b)[j] = s[IF j < i THEN j ELSE j + 1]
      OBVIOUS
    <2>1. CASE j < i
      BY <1>1, <1>2, <1>5, <1>6, <2>1
    <2>2. CASE ~(j < i)
      <3>1. /\ j - (i - 1) \in 1 .. n - i /\ ~(j <= i - 1) /\ (j - (i - 1)) + i = j + 1
        BY <1>1, <2>2
      <3>2. (a \o b)[j] = b[j - (i - 1)]
        BY <1>2, <1>5, <1>6, <3>1
      <3>3. b[j - (i - 1)] = s[j + 1]
        BY <1>3, <3>1
      <3>4. (IF j < i THEN j ELSE j + 1) = j + 1 /\ j + 1 \in 1 .. n /\ j + 1 # i
        BY <1>1, <2>2
      <3> QED BY <3>2, <3>3, <3>4
    <2> QED BY <2>1, <2>2
  <1> QED BY <1>1, <1>4, <1>5, <1>6, <1>7, <1>8 DEF n

\* A list without repetition, without one of its elements, or without its first.
LEMMA RemoveFromSet ==
    ASSUME NEW S, NEW s \in Seq(S), IsSet(s), NEW i \in DOMAIN s
    PROVE  IsSet(RemoveAt(s, i)) /\ ToSet(RemoveAt(s, i)) = ToSet(s) \ {s[i]}
  <1> DEFINE r == RemoveAt(s, i)
             at(j) == IF j < i THEN j ELSE j + 1
  <1>1. DOMAIN s = 1 .. Len(s) /\ Len(s) \in Nat
    BY LenProperties
  <1>2. /\ r \in Seq(S) /\ Len(r) = Len(s) - 1
        /\ \A j \in DOMAIN r : at(j) \in DOMAIN s \ {i} /\ r[j] = s[at(j)]
    BY RemoveOK
  <1>3. DOMAIN r = 1 .. Len(s) - 1
    BY <1>2, LenProperties
  <1> HIDE DEF r
  <1>4. \A j, k \in DOMAIN r : at(j) = at(k) => j = k
    BY <1>1, <1>3
  <1>5. \A k \in DOMAIN s \ {i} : \E j \in DOMAIN r : at(j) = k
    <2> SUFFICES ASSUME NEW k \in DOMAIN s \ {i} PROVE \E j \in DOMAIN r : at(j) = k
      OBVIOUS
    <2>1. CASE k < i
      BY <1>1, <1>3, <2>1
    <2>2. CASE ~(k < i)
      <3>1. k - 1 \in DOMAIN r /\ at(k - 1) = k
        BY <1>1, <1>3, <2>2
      <3> QED BY <3>1
    <2> QED BY <2>1, <2>2
  <1> HIDE DEF at
  <1>6. IsSet(r)
    BY <1>2, <1>4 DEF IsSet
  <1>7. ToSet(r) = ToSet(s) \ {s[i]}
    BY <1>2, <1>5 DEF ToSet, IsSet
  <1> QED BY <1>6, <1>7 DEF r

\* A list without its first element
LEMMA HeadTailSet ==
    ASSUME NEW S, NEW s \in Seq(S), s # << >>
    PROVE  /\ Head(s) \in S /\ Head(s) \in ToSet(s) /\ Tail(s) \in Seq(S)
           /\ ToSet(Tail(s)) \subseteq ToSet(s)
           /\ Tail(s) # << >> => Len(s) # 1
           /\ Tail(s) = << >> => Len(s) = 1
           /\ IsSet(s) => IsSet(Tail(s)) /\ ToSet(Tail(s)) = ToSet(s) \ {Head(s)}
  <1>1. /\ Head(s) \in S /\ Tail(s) \in Seq(S) /\ Len(Tail(s)) = Len(s) - 1
        /\ \A i \in 1 .. Len(Tail(s)) : Tail(s)[i] = s[i + 1]
    BY HeadTailProperties
  <1>2. Len(s) \in Nat \ {0} /\ DOMAIN s = 1 .. Len(s) /\ Head(s) = s[1]
    BY EmptySeq, LenProperties
  <1>3. DOMAIN Tail(s) = 1 .. Len(s) - 1
    BY <1>1, LenProperties
  <1>4. Tail(s) = << >> <=> Len(s) = 1
    <2>1. \A t \in Seq(S) : t = << >> <=> Len(t) = 0
      BY EmptySeq
    <2>2. Tail(s) = << >> <=> Len(Tail(s)) = 0
      BY <1>1, <2>1
    <2> QED BY <1>1, <1>2, <2>2
  <1>5. \A i \in 1 .. Len(s) - 1 : Tail(s)[i] = s[i + 1] /\ i + 1 \in DOMAIN s
    BY <1>1, <1>2
  <1>6. \A k \in DOMAIN s : k # 1 => k - 1 \in DOMAIN Tail(s) /\ Tail(s)[k - 1] = s[k]
    BY <1>2, <1>3, <1>5
  <1>7. ToSet(Tail(s)) \subseteq ToSet(s) /\ Head(s) \in ToSet(s)
    BY <1>2, <1>3, <1>5 DEF ToSet
  <1>8. ASSUME IsSet(s) PROVE IsSet(Tail(s)) /\ ToSet(Tail(s)) = ToSet(s) \ {Head(s)}
    <2>1. IsSet(Tail(s))
      <3> SUFFICES ASSUME NEW i \in DOMAIN Tail(s), NEW j \in DOMAIN Tail(s),
                          Tail(s)[i] = Tail(s)[j]
                   PROVE  i = j
        BY DEF IsSet
      <3>1. i + 1 \in DOMAIN s /\ j + 1 \in DOMAIN s /\ s[i + 1] = s[j + 1]
        BY <1>3, <1>5
      <3>2. i + 1 = j + 1
        BY <1>8, <3>1 DEF IsSet
      <3> QED BY <1>2, <1>3, <3>2
    <2>2. Head(s) \notin ToSet(Tail(s))
      <3> SUFFICES ASSUME NEW i \in DOMAIN Tail(s), Tail(s)[i] = s[1] PROVE FALSE
        BY <1>2 DEF ToSet
      <3>1. i + 1 \in DOMAIN s /\ s[i + 1] = s[1] /\ i + 1 # 1 /\ 1 \in DOMAIN s
        BY <1>2, <1>3, <1>5
      <3> QED BY <1>8, <3>1 DEF IsSet
    <2>3. ASSUME NEW x \in ToSet(s), x # Head(s) PROVE x \in ToSet(Tail(s))
      <3>1. PICK k \in DOMAIN s : s[k] = x
        BY DEF ToSet
      <3>2. k # 1
        BY <1>2, <2>3, <3>1
      <3> QED BY <1>6, <3>1, <3>2 DEF ToSet
    <2> QED BY <1>7, <2>1, <2>2, <2>3
  <1> QED BY <1>1, <1>4, <1>7, <1>8

\* A list with one more element at its end
LEMMA AppendSet ==
    ASSUME NEW S, NEW s \in Seq(S), NEW x \in S
    PROVE  /\ Append(s, x) \in Seq(S) /\ ToSet(Append(s, x)) = ToSet(s) \cup {x}
           /\ Len(Append(s, x)) = Len(s) + 1 /\ DOMAIN Append(s, x) = DOMAIN s \cup {Len(s) + 1}
           /\ \A i \in DOMAIN s : Append(s, x)[i] = s[i] /\ i # Len(s) + 1
           /\ Append(s, x)[Len(s) + 1] = x
           /\ IsSet(s) /\ x \notin ToSet(s) => IsSet(Append(s, x))
  <1>1. Len(s) \in Nat /\ DOMAIN s = 1 .. Len(s)
    BY LenProperties
  <1>2. /\ Append(s, x) \in Seq(S) /\ Len(Append(s, x)) = Len(s) + 1
        /\ \A i \in 1 .. Len(s) : Append(s, x)[i] = s[i]
        /\ Append(s, x)[Len(s) + 1] = x
    BY AppendProperties
  <1>3. DOMAIN Append(s, x) = 1 .. Len(s) + 1
    BY <1>2, LenProperties
  <1>4. 1 .. Len(s) + 1 = 1 .. Len(s) \cup {Len(s) + 1} /\ Len(s) + 1 \notin 1 .. Len(s)
    BY <1>1
  <1>5. ToSet(Append(s, x)) = ToSet(s) \cup {x}
    BY <1>1, <1>2, <1>3, <1>4 DEF ToSet
  <1>6. IsSet(s) /\ x \notin ToSet(s) => IsSet(Append(s, x))
    BY <1>1, <1>2, <1>3, <1>4 DEF ToSet, IsSet
  <1> QED BY <1>1, <1>2, <1>3, <1>4, <1>5, <1>6

-----------------------------------------------------------------------------
(* A call and its visits *)

\* The connection that is visited is the first of those still to be visited.
LEMMA VisitingOK ==
    ASSUME TypeInv, NEW phase \in Phases, NEW c, Visiting(phase, c)
    PROVE  /\ call \in InCall /\ call # NoCall /\ call.todo # << >> /\ call.ret <= Len(queue)
           /\ call.phase = phase /\ run = "up" /\ c = Head(call.todo)
           /\ c \in Client /\ c \in ToSet(call.todo) /\ IsVisited(c) /\ Todo = ToSet(call.todo)
           /\ call.todo \in Seq(Client)
  <1>1. call.phase = phase /\ c = Head(call.todo) /\ run = "up"
    BY DEF Visiting
  <1>2. call # NoCall
    BY <1>1 DEF NoCall, Phases
  <1>3. call \in InCall /\ call.todo # << >> /\ call.ret <= Len(queue)
    BY <1>2 DEF TypeInv
  <1>4. call.todo \in Seq(Client)
    BY <1>3 DEF InCall
  <1>5. c \in Client /\ c \in ToSet(call.todo)
    BY <1>1, <1>3, <1>4, HeadTailSet
  <1> QED BY <1>1, <1>2, <1>3, <1>4, <1>5 DEF IsVisited, Todo

Stays(phase) ==
    /\ call' \in InCall /\ call'.phase = phase /\ call'.todo = call.todo
    /\ call'.r = call.r /\ call'.w = call.w
GoesToNext ==
    /\ call' = NoCall => Tail(call.todo) = << >>
    /\ call' # NoCall =>
          /\ call' \in InCall /\ call'.phase = "io" /\ call'.r = call.r /\ call'.w = call.w
          /\ call'.todo = Tail(call.todo) /\ Tail(call.todo) # << >>
Leads(st) ==
    \/ Stays("parse") /\ call.phase = "io" /\ st \in {"PARSE_HEADER", "PARSE_BODY"}
    \/ Stays("write") /\ call.phase \in {"io", "parse"} /\ st = "WRITE_HEADER"
    \/ Stays("finish") /\ st \in {"FINISHED", "CLOSE"}
    \/ /\ GoesToNext /\ st \notin {"FINISHED", "CLOSE"}
       /\ call.phase = "io" => st \notin {"PARSE_HEADER", "PARSE_BODY"}
       /\ call.phase \in {"io", "parse"} => st # "WRITE_HEADER"

\* The ifs at the end of a visit: to the next one of them or the next connection.
LEMMA AfterOK ==
    ASSUME call \in InCall, call.todo # << >>, NEW st, NEW ret \in Nat,
           call' = IF After(st) = NoCall THEN NoCall ELSE [After(st) EXCEPT !.ret = ret]
    PROVE  /\ Leads(st)
           /\ call' = NoCall \/ (call' \in InCall /\ call'.todo # << >> /\ call'.ret = ret)
  <1>1. NoCall \notin InCall
    BY DEF NoCall, InCall, Phases
  <1>2. ASSUME NEW ph \in Phases, After(st) = [call EXCEPT !.phase = ph]
        PROVE  /\ Stays(ph) /\ call' \in InCall /\ call'.todo # << >> /\ call'.ret = ret
    <2> DEFINE a == [call EXCEPT !.phase = ph]
    <2>1. /\ a \in InCall /\ a.phase = ph /\ a.todo = call.todo /\ a.r = call.r /\ a.w = call.w
      BY DEF InCall
    <2> HIDE DEF a
    <2>2. call' = [a EXCEPT !.ret = ret]
      BY <1>1, <1>2, <2>1 DEF a
    <2> QED BY <2>1, <2>2 DEF InCall, Stays
  <1>3. CASE call.phase = "io" /\ st \in {"PARSE_HEADER", "PARSE_BODY"}
    <2>1. After(st) = [call EXCEPT !.phase = "parse"] /\ "parse" \in Phases
      BY <1>3 DEF After, Phases
    <2> QED BY <1>2, <1>3, <2>1 DEF Leads
  <1>4. CASE call.phase \in {"io", "parse"} /\ st = "WRITE_HEADER"
    <2>1. After(st) = [call EXCEPT !.phase = "write"] /\ "write" \in Phases
      BY <1>4 DEF After, Phases
    <2> QED BY <1>2, <1>4, <2>1 DEF Leads
  <1>5. CASE st \in {"FINISHED", "CLOSE"}
    <2>1. After(st) = [call EXCEPT !.phase = "finish"] /\ "finish" \in Phases
      BY <1>5 DEF After, Phases
    <2> QED BY <1>2, <1>5, <2>1 DEF Leads
  <1>6. CASE ~(call.phase = "io" /\ st \in {"PARSE_HEADER", "PARSE_BODY"})
             /\ ~(call.phase \in {"io", "parse"} /\ st = "WRITE_HEADER")
             /\ st \notin {"FINISHED", "CLOSE"}
    <2>1. call.todo \in Seq(Client)
      BY DEF InCall
    <2>2. /\ Tail(call.todo) \in Seq(Client)
          /\ Tail(call.todo) # << >> => Len(call.todo) # 1
          /\ Tail(call.todo) = << >> => Len(call.todo) = 1
      BY <2>1, HeadTailSet
    <2>3. CASE Len(call.todo) = 1
      <3>1. After(st) = NoCall
        BY <1>6, <2>3 DEF After
      <3>2. GoesToNext
        BY <2>2, <2>3, <3>1 DEF GoesToNext
      <3> QED BY <1>6, <3>1, <3>2 DEF Leads
    <2>4. CASE Len(call.todo) # 1
      <3> DEFINE a == [call EXCEPT !.phase = "io", !.todo = Tail(@)]
      <3>1. After(st) = a
        BY <1>6, <2>4 DEF After
      <3>2. /\ a \in InCall /\ a.phase = "io" /\ a.todo = Tail(call.todo)
            /\ a.r = call.r /\ a.w = call.w
        BY <2>2 DEF InCall, Phases
      <3> HIDE DEF a
      <3>3. LET e == [a EXCEPT !.ret = ret]
            IN  /\ e \in InCall /\ e.phase = "io" /\ e.todo = a.todo /\ e.ret = ret
                /\ e.r = a.r /\ e.w = a.w
        BY <3>2 DEF InCall
      <3>4. call' = [a EXCEPT !.ret = ret] /\ call' # NoCall
        BY <1>1, <3>1, <3>2, <3>3
      <3>5. GoesToNext /\ call'.todo # << >> /\ call'.ret = ret /\ call' \in InCall
        BY <2>2, <2>4, <3>2, <3>3, <3>4 DEF GoesToNext
      <3> QED BY <1>6, <3>5 DEF Leads
    <2> QED BY <2>3, <2>4
  <1> QED BY <1>3, <1>4, <1>5, <1>6

CallTyped == call' = NoCall \/ (call' \in InCall /\ call'.todo # << >> /\ call'.ret <= Len(queue'))

\* The end of a visit is that of the connection's new state.
LEMMA GoesOK ==
    ASSUME TypeInv, call \in InCall, call.todo # << >>, call.ret <= Len(queue),
           NEW c, Goes(c), queue' \in Seq(Event)
    PROVE  /\ CallTyped /\ \A st : st = conn'[c].st => Leads(st)
           /\ call' = NoCall \/ call'.ret = Pushed(call.ret)
           /\ UNCHANGED << threaded, access, backlog, conns, timer >>
  <1> DEFINE ret == Pushed(call.ret)
  <1>1. Len(queue') \in Nat /\ Len(queue) \in Nat /\ call.ret \in Nat
    BY LenProperties DEF TypeInv, InCall
  <1>2. ret \in Nat /\ ret <= Len(queue')
    BY <1>1 DEF Pushed
  <1>3. PICK st : st = conn'[c].st
    OBVIOUS
  <1>4. call' = IF After(st) = NoCall THEN NoCall ELSE [After(st) EXCEPT !.ret = ret]
    <2>1. CASE After(st) = NoCall
      BY <1>3, <2>1 DEF Goes
    <2>2. CASE After(st) # NoCall
      <3>1. After(st) \in InCall
        <4>1. call.todo \in Seq(Client)
          BY DEF InCall
        <4>2. Tail(call.todo) \in Seq(Client)
          BY <4>1, HeadTailSet
        <4> QED BY <2>2, <4>2 DEF After, InCall, Phases
      <3>2. After(st).ret = call.ret
        <4>1. \A ph : [call EXCEPT !.phase = ph].ret = call.ret
          BY DEF InCall
        <4>2. [call EXCEPT !.phase = "io", !.todo = Tail(@)].ret = call.ret
          BY DEF InCall
        <4> QED BY <2>2, <4>1, <4>2 DEF After
      <3>3. call' = [After(st) EXCEPT !.ret = Pushed(@)]
        BY <1>3, <2>2 DEF Goes
      <3> HIDE DEF ret
      <3> QED BY <2>2, <3>1, <3>2, <3>3 DEF ret, InCall
    <2> QED BY <2>1, <2>2
  <1> HIDE DEF ret
  <1>5. Leads(st) /\ (call' = NoCall \/ (call' \in InCall /\ call'.todo # << >> /\ call'.ret = ret))
    BY <1>2, <1>4, AfterOK
  <1> QED BY <1>2, <1>3, <1>5 DEF CallTyped, Goes, ret

\* What is expected of the visited connection, phase by phase
LEMMA VisitedIs ==
    ASSUME NEW c
    PROVE  /\ Visited(c, "io") = (Calm(c) \/ Refused(c))
           /\ Visited(c, "parse") =
                (/\ conn[c].st \in {"PARSE_HEADER", "PARSE_BODY"}
                 /\ c \in rset /\ c \notin wset
                 /\ conn[c].st = "PARSE_HEADER" /\ conn[c].req.method = "POST" =>
                        c \in call.r /\ ~conn[c].late)
           /\ Visited(c, "write") = (conn[c].st = "WRITE_HEADER")
           /\ Visited(c, "finish") = (conn[c].st \in {"FINISHED", "CLOSE"})
  BY DEF Visited

\* What a visit must leave behind: the visited connection as the next if expects
\* it, or calm; the others untouched.
Leaves(c) ==
    \/ \E phase \in {"parse", "write", "finish"} : Stays(phase) /\ Visited(c, phase)'
    \/ GoesToNext /\ Calm(c)'
Spares(c) == \A d \in Client \ {c} :
    /\ conn'[d] = conn[d] /\ inbox'[d] = inbox[d]
    /\ (d \in rset' <=> d \in rset) /\ (d \in wset' <=> d \in wset)

\* A visit that leaves its connection as expected and spares the others keeps
\* what is said of all of them.
LEMMA WatchKept ==
    ASSUME TypeInv, NamesInv, WatchInv, NEW c \in Client, IsVisited(c),
           call \in InCall, call.todo # << >>, Leaves(c), Spares(c)
    PROVE  /\ WatchInv' /\ IsSet(call.todo)' /\ Todo' \subseteq Todo
           /\ \A d \in Todo' : IsVisited(d)' /\ call'.phase # "io" => d = c /\ IsVisited(d)
           /\ c \in Todo' => IsVisited(c)' /\ \E ph \in {"parse", "write", "finish"} : Stays(ph)
  <1>1. /\ call # NoCall /\ c = Head(call.todo) /\ call.todo \in Seq(Client)
        /\ Todo = ToSet(call.todo) /\ IsSet(call.todo)
    BY DEF IsVisited, InCall, Todo, NamesInv
  <1>2. /\ ToSet(Tail(call.todo)) = Todo \ {c} /\ IsSet(Tail(call.todo))
        /\ Tail(call.todo) \in Seq(Client) /\ c \in Todo
    BY <1>1, HeadTailSet
  <1>3. ASSUME NEW d \in Client, d # c
        PROVE  /\ Calm(d) \/ (d \in Todo /\ Refused(d))
               /\ d \in Todo => /\ d \in call.r => d \in rset /\ inbox[d] # << >>
                                /\ d \in call.w => d \in wset
    BY <1>1, <1>3 DEF WatchInv, IsVisited, Unread
  <1>4. ASSUME NEW d \in Client, d # c PROVE Calm(d)' = Calm(d)
    BY <1>4 DEF Spares, Calm, Open
  <1>5. ASSUME NEW d \in Client, d # c, call' # NoCall, call'.r = call.r, call'.w = call.w
        PROVE  Refused(d)' = Refused(d)
    BY <1>5 DEF Spares, Refused
  <1>6. NoCall \notin InCall
    BY DEF NoCall, InCall, Phases
  <1>7. CASE \E phase \in {"parse", "write", "finish"} : Stays(phase) /\ Visited(c, phase)'
    <2>1. PICK phase \in {"parse", "write", "finish"} : Stays(phase) /\ Visited(c, phase)'
      BY <1>7
    <2>2. /\ call' # NoCall /\ call'.phase = phase /\ call'.todo = call.todo
          /\ call'.r = call.r /\ call'.w = call.w
      BY <1>6, <2>1 DEF Stays
    <2>3. Todo' = Todo /\ IsSet(call.todo)' /\ \A d : IsVisited(d)' <=> d = c
      BY <1>1, <2>2 DEF Todo, IsVisited, IsSet
    <2>4. ASSUME NEW d \in Client
          PROVE  /\ IF IsVisited(d)' THEN Visited(d, call.phase)'
                    ELSE Calm(d)' \/ (d \in Todo' /\ Refused(d)')
                 /\ Unread(d)' => /\ d \in call'.r => d \in rset' /\ inbox'[d] # << >>
                                  /\ d \in call'.w => d \in wset'
      <3>1. CASE d = c
        BY <2>1, <2>2, <2>3, <3>1 DEF Unread
      <3>2. CASE d # c
        BY <1>3, <1>4, <1>5, <2>2, <2>3, <3>2 DEF Unread, Spares
      <3> QED BY <3>1, <3>2
    <2> QED BY <1>1, <2>1, <2>2, <2>3, <2>4 DEF WatchInv
  <1>8. CASE GoesToNext /\ Calm(c)'
    <2>1. CASE call' = NoCall
      <3>1. Tail(call.todo) = << >>
        BY <1>8, <2>1 DEF GoesToNext
      <3>2. Todo = {c}
        BY <1>2, <3>1 DEF ToSet
      <3>3. Todo' = {} /\ IsSet(call.todo)' /\ \A d : ~IsVisited(d)'
        BY <2>1 DEF Todo, IsVisited, IsSet, NoCall
      <3>4. \A d \in Client : Calm(d)'
        BY <1>3, <1>4, <1>8, <3>2
      <3> QED BY <3>2, <3>3, <3>4 DEF WatchInv, Unread
    <2>2. CASE call' # NoCall
      <3>1. /\ call'.phase = "io" /\ call'.r = call.r /\ call'.w = call.w
            /\ call'.todo = Tail(call.todo) /\ Tail(call.todo) # << >>
        BY <1>8, <2>2 DEF GoesToNext
      <3>2. Todo' = Todo \ {c} /\ IsSet(call.todo)'
        BY <1>2, <2>2, <3>1 DEF Todo, IsSet
      <3>3. ASSUME NEW d, IsVisited(d)' PROVE d \in Todo'
        <4>1. d = Head(Tail(call.todo))
          BY <3>1, <3>3 DEF IsVisited
        <4> QED BY <1>2, <3>1, <3>2, <4>1, HeadTailSet
      <3>4. ASSUME NEW d \in Client
            PROVE  /\ IF IsVisited(d)' THEN Visited(d, call.phase)'
                      ELSE Calm(d)' \/ (d \in Todo' /\ Refused(d)')
                   /\ Unread(d)' => /\ d \in call'.r => d \in rset' /\ inbox'[d] # << >>
                                    /\ d \in call'.w => d \in wset'
        <4>1. CASE d = c
          BY <1>8, <3>2, <3>3, <4>1 DEF Unread
        <4>2. CASE d # c
          <5>1. Calm(d)' \/ (d \in Todo' /\ Refused(d)')
            BY <1>3, <1>4, <1>5, <2>2, <3>1, <3>2, <4>2
          <5>2. IsVisited(d)' => Visited(d, call.phase)'
            <6>1. Visited(d, "io")' = (Calm(d)' \/ Refused(d)')
              BY DEF Visited
            <6> QED BY <3>1, <5>1, <6>1
          <5>3. d \in Todo' => d \in Todo
            BY <3>2
          <5> QED BY <1>3, <3>1, <4>2, <5>1, <5>2, <5>3 DEF Unread, Spares
        <4> QED BY <4>1, <4>2
      <3> QED BY <1>1, <3>1, <3>2, <3>4 DEF WatchInv
    <2> QED BY <2>1, <2>2
  <1> QED BY <1>7, <1>8 DEF Leaves

-----------------------------------------------------------------------------
(* What the visits do *)

Clients == [Client -> {"off", "idle", "sending", "awaiting", "gone"}]
Runs == {"up", "killed", "undefined"}

\* All visits but the last
Effect(c) ==
    /\ CallTyped /\ (call' = NoCall \/ call'.ret = Pushed(call.ret))
    /\ client' \in Clients /\ inbox' \in [Client -> Seq(Bytes)] /\ run' \in Runs
    /\ rset' \subseteq Client /\ wset' \subseteq Client
    /\ UNCHANGED << threaded, access, backlog, conns, timer >>
    /\ conn' \in [Client -> Request] /\ Spares(c)
    /\ \A d \in Client \ {c} : client'[d] = client[d]
    /\ client'[c] = "off" => client[c] = "off"
    /\ Leads(conn'[c].st) /\ (run' = "up" => Leaves(c))
    /\ conn'[c].st # "none" /\ OnceOf(conn'[c])
    /\ conn'[c].st # "CLOSE" => conn[c].st \notin {"none", "CLOSE"}
    /\ conn[c].st = "PROCESS" /\ ~conn[c].late => conn'[c].st = "PROCESS" /\ ~conn'[c].late

\* What a visit starts from
LEMMA VisitFacts ==
    ASSUME ControlInv, NEW phase \in Phases, NEW c, Visiting(phase, c)
    PROVE  /\ c \in Client /\ run = "up" /\ call.phase = phase /\ conn[c] \in Request
           /\ Visited(c, phase) /\ conn[c].st # "none" /\ OnceOf(conn[c])
           /\ phase = "io" => /\ c \in call.r => c \in rset /\ inbox[c] # << >>
                              /\ c \in call.w => c \in wset
  <1>1. /\ c \in Client /\ run = "up" /\ call.phase = phase /\ IsVisited(c)
        /\ call # NoCall /\ c \in ToSet(call.todo) /\ Todo = ToSet(call.todo)
    BY VisitingOK DEF ControlInv
  <1>2. WatchInv /\ NamesInv
    BY <1>1 DEF ControlInv, Running
  <1>3. conn[c] \in Request
    BY <1>1 DEF ControlInv, TypeInv
  <1>4. OnceOf(conn[c])
    BY <1>1 DEF ControlInv, OnceInv, OnceOf
  <1>5. Open(c)
    BY <1>1, <1>2 DEF NamesInv
  <1> QED BY <1>1, <1>2, <1>3, <1>4, <1>5 DEF WatchInv, Unread, Open

\* From the state a visit leaves the connection in to its effect
LEMMA EffectOf ==
    ASSUME ControlInv, NEW phase \in Phases, NEW c, Visiting(phase, c), Goes(c),
           queue' \in Seq(Event), NEW n \in Request, conn' = [conn EXCEPT ![c] = n],
           client' \in Clients, inbox' \in [Client -> Seq(Bytes)], run' \in Runs,
           \A d \in Client \ {c} : client'[d] = client[d] /\ inbox'[d] = inbox[d],
           client'[c] = "off" => client[c] = "off",
           rset' \subseteq Client, wset' \subseteq Client,
           \A d \in Client \ {c} : (d \in rset' <=> d \in rset) /\ (d \in wset' <=> d \in wset),
           n.st # "none", OnceOf(n), n.st # "CLOSE" => conn[c].st \notin {"none", "CLOSE"},
           conn[c].st = "PROCESS" /\ ~conn[c].late => n.st = "PROCESS" /\ ~n.late,
           phase = "io" /\ n.st \in {"PARSE_HEADER", "PARSE_BODY"} =>
               /\ c \in rset' /\ c \notin wset'
               /\ n.st = "PARSE_HEADER" /\ n.req.method = "POST" => c \in call.r /\ ~n.late,
           (/\ run' = "up" /\ n.st \notin {"FINISHED", "CLOSE"}
            /\ phase = "io" => n.st \notin {"PARSE_HEADER", "PARSE_BODY"}
            /\ phase \in {"io", "parse"} => n.st # "WRITE_HEADER")
             => /\ (c \in wset') <=> (n.st \in {"WRITE_HEADER", "WRITE_BODY"})
                /\ (c \in rset') <=> (c \notin wset')
                /\ ~(n.st = "PARSE_HEADER" /\ n.req.method = "POST")
    PROVE  Effect(c)
  <1>1. /\ c \in Client /\ call \in InCall /\ call.todo # << >> /\ call.ret <= Len(queue)
        /\ call.phase = phase /\ TypeInv
    BY VisitingOK DEF ControlInv
  <1>2. /\ conn' \in [Client -> Request] /\ conn'[c] = n
        /\ \A d \in Client \ {c} : conn'[d] = conn[d]
    BY <1>1 DEF TypeInv
  <1>3. /\ CallTyped /\ Leads(n.st)
        /\ call' = NoCall \/ call'.ret = Pushed(call.ret)
        /\ UNCHANGED << threaded, access, backlog, conns, timer >>
    BY <1>1, <1>2, GoesOK
  <1>4. Spares(c)
    BY <1>2 DEF Spares
  <1>5. ASSUME run' = "up" PROVE Leaves(c)
    <2>1. CASE Stays("parse") /\ call.phase = "io" /\ n.st \in {"PARSE_HEADER", "PARSE_BODY"}
      <3>1. Visited(c, "parse")'
        BY <1>1, <1>2, <2>1 DEF Visited, Stays
      <3> QED BY <2>1, <3>1 DEF Leaves
    <2>2. CASE Stays("write") /\ n.st = "WRITE_HEADER"
      <3>1. Visited(c, "write")'
        BY <1>2, <2>2 DEF Visited
      <3> QED BY <2>2, <3>1 DEF Leaves
    <2>3. CASE Stays("finish") /\ n.st \in {"FINISHED", "CLOSE"}
      <3>1. Visited(c, "finish")'
        BY <1>2, <2>3 DEF Visited
      <3> QED BY <2>3, <3>1 DEF Leaves
    <2>4. CASE /\ GoesToNext /\ n.st \notin {"FINISHED", "CLOSE"}
               /\ call.phase = "io" => n.st \notin {"PARSE_HEADER", "PARSE_BODY"}
               /\ call.phase \in {"io", "parse"} => n.st # "WRITE_HEADER"
      <3>1. Calm(c)'
        <4>1. /\ (c \in wset') <=> (n.st \in {"WRITE_HEADER", "WRITE_BODY"})
              /\ (c \in rset') <=> (c \notin wset')
              /\ ~(n.st = "PARSE_HEADER" /\ n.req.method = "POST")
          BY <1>1, <1>5, <2>4
        <4>2. Open(c)'
          BY <1>2 DEF Open
        <4> QED BY <1>2, <2>4, <4>1, <4>2 DEF Calm
      <3> QED BY <2>4, <3>1 DEF Leaves
    <2> QED BY <1>3, <2>1, <2>2, <2>3, <2>4 DEF Leads
  <1> QED BY <1>2, <1>3, <1>4, <1>5 DEF Effect

\* What is left of a sequence from some place on
LEMMA SuffixOK ==
    ASSUME NEW S, NEW s \in Seq(S), NEW k \in 1 .. Len(s) + 1
    PROVE  SubSeq(s, k, Len(s)) \in Seq(S)
  <1> DEFINE n == Len(s)
             b == SubSeq(s, k, n)
  <1>1. n \in Nat /\ \A j \in 1 .. n : s[j] \in S
    BY LenProperties, ElementOfSeq
  <1>2. b = [j \in 1 .. n - k + 1 |-> s[j + k - 1]]
    BY <1>1
  <1>3. n - k + 1 \in Nat /\ \A j \in 1 .. n - k + 1 : j + k - 1 \in 1 .. n
    BY <1>1
  <1>4. \A j \in 1 .. n - k + 1 : s[j + k - 1] \in S
    BY <1>1, <1>3
  <1> HIDE DEF b, n
  <1>5. b \in [1 .. n - k + 1 -> S]
    BY <1>2, <1>4
  <1>6. b \in Seq(S)
    <2>1. Seq(S) = UNION {[1 .. m -> S] : m \in Nat}
      BY SeqDef
    <2> QED BY <1>3, <1>5, <2>1, Zenon
  <1> QED BY <1>6 DEF b, n

\* The bytes on the way
LEMMA InboxOK ==
    ASSUME TypeInv, NEW c \in Client
    PROVE  /\ inbox[c] \in Seq(Bytes)
           /\ \A s \in Seq(Bytes) : [inbox EXCEPT ![c] = s] \in [Client -> Seq(Bytes)]
           /\ inbox[c] # << >> => /\ Head(inbox[c]) \in Bytes /\ Tail(inbox[c]) \in Seq(Bytes)
                                  /\ Len(inbox[c]) \in Nat \ {0}
  <1>1. inbox[c] \in Seq(Bytes) /\ inbox \in [Client -> Seq(Bytes)]
    BY DEF TypeInv
  <1>2. inbox[c] # << >> => /\ Head(inbox[c]) \in Bytes /\ Tail(inbox[c]) \in Seq(Bytes)
                            /\ Len(inbox[c]) \in Nat \ {0}
    BY <1>1, HeadTailSet, EmptySeq
  <1> QED BY <1>1, <1>2

\* Visits that queue nothing
Reads(c) == ReadHeader(c) \/ ReadBody(c) \/ ReadEof(c) \/ ReadGarbage(c) \/ NotRead(c)
Others(c) == WriteReady(c) \/ Expire(c) \/ NoIO(c) \/ WriteAtOnce(c) \/ Finish(c)

\* read_header, read_body and the reads that end in an error or at the end
LEMMA ReadsEffect ==
    ASSUME ControlInv, NEW c, Reads(c)
    PROVE  Effect(c) /\ queue' = queue /\ \E ph \in Phases : Visiting(ph, c)
  <1>1. Visiting("io", c) /\ "io" \in Phases /\ c \in call.r /\ queue' = queue /\ Goes(c)
    BY DEF Reads, ReadHeader, ReadBody, ReadEof, ReadGarbage, NotRead, Phases
  <1>2. /\ c \in Client /\ run = "up" /\ conn[c] \in Request /\ OnceOf(conn[c])
        /\ c \in rset /\ inbox[c] # << >> /\ conn[c].st # "none" /\ Calm(c)
    BY <1>1, VisitFacts, VisitedIs DEF Refused
  <1>3. /\ TypeInv /\ queue' \in Seq(Event) /\ client \in Clients /\ run \in Runs
        /\ rset \subseteq Client /\ wset \subseteq Client /\ inbox \in [Client -> Seq(Bytes)]
    BY <1>1 DEF ControlInv, TypeInv, Clients, Runs
  <1>4. /\ client' = client /\ rset' = rset /\ wset' = wset /\ run' = run
    BY DEF Reads, ReadHeader, ReadBody, ReadEof, ReadGarbage, NotRead, NoFds
  <1>5. c \notin wset /\ conn[c].st \notin {"FINISHED", "CLOSE", "WRITE_HEADER", "WRITE_BODY"}
        /\ ~(conn[c].st = "PARSE_HEADER" /\ conn[c].req.method = "POST")
    BY <1>2 DEF Calm
  <1>6. CASE ReadHeader(c)
    <2> DEFINE r == Head(inbox[c]).req
               whole == Len(inbox[c]) > 1 /\ inbox[c][2].part = "body"
               n == [st |-> "PARSE_HEADER", req |-> r, whole |-> whole,
                     keep |-> r.keep, late |-> FALSE, made |-> 0]
    <2>1. r \in Asked
      BY <1>2, <1>3, <1>6, InboxOK DEF ReadHeader, Bytes
    <2>2. whole \in BOOLEAN
      OBVIOUS
    <2>3. conn' = [conn EXCEPT ![c] = n] /\ conn[c].st \in {"KEEPALIVE", "READ_HEADER"}
      BY <1>6 DEF ReadHeader, Becomes
    <2>4. inbox' = [inbox EXCEPT ![c] = SubSeq(@, IF whole THEN 3 ELSE 2, Len(@))]
      BY <1>6 DEF ReadHeader
    <2>5. SubSeq(inbox[c], IF whole THEN 3 ELSE 2, Len(inbox[c])) \in Seq(Bytes)
      <3>1. (IF whole THEN 3 ELSE 2) \in 1 .. Len(inbox[c]) + 1
        BY <1>2, <1>3, InboxOK
      <3>2. inbox[c] \in Seq(Bytes)
        BY <1>2, <1>3, InboxOK
      <3> QED BY <3>1, <3>2, SuffixOK
    <2>9. r.keep \in BOOLEAN /\ r # None
      BY <2>1 DEF Asked, None
    <2> HIDE DEF whole, r
    <2>6. n \in Request /\ n.st = "PARSE_HEADER" /\ n.made = 0 /\ ~n.late /\ n.req # None
      BY <2>1, <2>2, <2>9 DEF Request, States
    <2>7. inbox' \in [Client -> Seq(Bytes)] /\ \A d \in Client \ {c} : inbox'[d] = inbox[d]
      BY <1>2, <1>3, <2>4, <2>5
    <2> HIDE DEF n
    <2>8. Effect(c)
      <3>1. /\ OnceOf(n) /\ n.st \notin {"none", "FINISHED", "CLOSE", "WRITE_HEADER"}
            /\ conn[c].st # "PROCESS" /\ conn[c].st # "CLOSE"
        BY <2>3, <2>6 DEF OnceOf
      <3>2. \A d \in Client \ {c} : client'[d] = client[d] /\ inbox'[d] = inbox[d]
        BY <1>4, <2>7
      <3> QED BY <1>1, <1>2, <1>3, <1>4, <1>5, <2>3, <2>6, <2>7, <3>1, <3>2, EffectOf
    <2> QED BY <1>1, <2>8
  <1>7. CASE ReadBody(c)
    <2> DEFINE n == [conn[c] EXCEPT !.st = "PARSE_BODY", !.late = FALSE]
    <2>1. conn' = [conn EXCEPT ![c] = n] /\ conn[c].st = "READ_BODY"
      BY <1>7 DEF ReadBody, Becomes
    <2>2. inbox' \in [Client -> Seq(Bytes)] /\ \A d \in Client \ {c} : inbox'[d] = inbox[d]
      BY <1>2, <1>3, <1>7, InboxOK DEF ReadBody
    <2>3. n \in Request /\ n.st = "PARSE_BODY" /\ n.whole = conn[c].whole /\ n.req = conn[c].req
      BY <1>2 DEF Request, States
    <2> HIDE DEF n
    <2>4. Effect(c)
      BY <1>1, <1>2, <1>3, <1>4, <1>5, <2>1, <2>2, <2>3, EffectOf DEF OnceOf
    <2> QED BY <1>1, <2>4
  <1>8. CASE ReadEof(c)
    <2> DEFINE n == [conn[c] EXCEPT !.st = "CLOSE"]
    <2>1. /\ conn' = [conn EXCEPT ![c] = n] /\ inbox' = inbox
          /\ conn[c].st \in {"KEEPALIVE", "READ_HEADER", "READ_BODY"}
      BY <1>8 DEF ReadEof, Becomes
    <2>2. /\ n \in Request /\ n.st = "CLOSE" /\ n.whole = conn[c].whole /\ n.req = conn[c].req
          /\ n.made = conn[c].made
      BY <1>2 DEF Request, States
    <2> HIDE DEF n
    <2>3. Effect(c)
      BY <1>1, <1>2, <1>3, <1>4, <1>5, <2>1, <2>2, EffectOf DEF OnceOf
    <2> QED BY <1>1, <2>3
  <1>9. CASE ReadGarbage(c)
    <2> DEFINE n == MkError([conn[c] EXCEPT !.late = FALSE], FALSE)
    <2>1. conn' = [conn EXCEPT ![c] = n] /\ conn[c].st \in {"KEEPALIVE", "READ_HEADER"}
      BY <1>9 DEF ReadGarbage, Becomes
    <2>2. inbox' \in [Client -> Seq(Bytes)] /\ \A d \in Client \ {c} : inbox'[d] = inbox[d]
      BY <1>2, <1>3, <1>9, InboxOK DEF ReadGarbage
    <2>3. /\ n \in Request /\ n.st = "WRITE_HEADER" /\ n.whole = conn[c].whole
          /\ n.req = conn[c].req /\ n.made = conn[c].made
      BY <1>2 DEF Request, States, MkError
    <2> HIDE DEF n
    <2>4. Effect(c)
      BY <1>1, <1>2, <1>3, <1>4, <1>5, <2>1, <2>2, <2>3, EffectOf DEF OnceOf
    <2> QED BY <1>1, <2>4
  <1>10. CASE NotRead(c)
    <2> DEFINE n == [conn[c] EXCEPT !.late = FALSE]
    <2>1. conn' = [conn EXCEPT ![c] = n] /\ inbox' = inbox
      BY <1>10 DEF NotRead, Becomes
    <2>2. /\ n \in Request /\ n.st = conn[c].st /\ n.whole = conn[c].whole
          /\ n.req = conn[c].req /\ n.made = conn[c].made /\ ~n.late
      BY <1>2 DEF Request
    <2> HIDE DEF n
    <2>3. Effect(c)
      BY <1>1, <1>2, <1>3, <1>4, <1>5, <2>1, <2>2, EffectOf DEF OnceOf
    <2> QED BY <1>1, <2>3
  <1> QED BY <1>6, <1>7, <1>8, <1>9, <1>10 DEF Reads

\* write_request: the answer goes out, in part or whole, or the client is gone.
LEMMA WriteOK ==
    ASSUME TypeInv, NEW c \in Client, OnceOf(conn[c]), NEW late \in BOOLEAN,
           conn[c].st \in {"WRITE_HEADER", "WRITE_BODY"}, WriteRequest(c, late)
    PROVE  /\ \E n \in Request :
                 /\ conn' = [conn EXCEPT ![c] = n] /\ OnceOf(n)
                 /\ n.st \in {"FINISHED", "WRITE_BODY", "CLOSE"}
           /\ client' \in Clients /\ inbox' \in [Client -> Seq(Bytes)] /\ run' \in Runs
           /\ client'[c] = "off" => client[c] = "off"
           /\ \A d \in Client \ {c} : client'[d] = client[d] /\ inbox'[d] = inbox[d]
  <1>1. /\ conn[c] \in Request /\ client \in Clients
        /\ inbox \in [Client -> Seq(Bytes)] /\ run \in Runs
    BY DEF TypeInv, Clients, Runs
  <1>2. \A st \in {"FINISHED", "WRITE_BODY", "CLOSE"} :
           LET n == [conn[c] EXCEPT !.st = st, !.late = late]
           IN  /\ n \in Request /\ n.st = st /\ n.whole = conn[c].whole /\ n.req = conn[c].req
               /\ n.made = conn[c].made
    BY <1>1 DEF Request, States
  <1>3. \A st \in {"FINISHED", "WRITE_BODY", "CLOSE"} :
           conn' = [conn EXCEPT ![c] = [conn[c] EXCEPT !.st = st, !.late = late]] =>
               \E n \in Request :
                   /\ conn' = [conn EXCEPT ![c] = n] /\ OnceOf(n)
                   /\ n.st \in {"FINISHED", "WRITE_BODY", "CLOSE"}
    <2> SUFFICES ASSUME NEW st \in {"FINISHED", "WRITE_BODY", "CLOSE"},
                        conn' = [conn EXCEPT ![c] = [conn[c] EXCEPT !.st = st, !.late = late]]
                 PROVE  \E n \in Request :
                            /\ conn' = [conn EXCEPT ![c] = n] /\ OnceOf(n)
                            /\ n.st \in {"FINISHED", "WRITE_BODY", "CLOSE"}
      OBVIOUS
    <2> DEFINE n == [conn[c] EXCEPT !.st = st, !.late = late]
    <2>1. /\ n \in Request /\ n.st = st /\ n.whole = conn[c].whole /\ n.req = conn[c].req
          /\ n.made = conn[c].made /\ conn' = [conn EXCEPT ![c] = n]
      BY <1>2
    <2> HIDE DEF n
    <2>2. OnceOf(n)
      BY <2>1 DEF OnceOf
    <2> QED BY <2>1, <2>2
  <1>4. CASE /\ Becomes(c, [conn[c] EXCEPT !.st = "FINISHED", !.late = late])
             /\ client' = [client EXCEPT ![c] =
                             IF @ \in {"gone", "sending"} THEN "gone" ELSE "idle"]
             /\ inbox' = IF client[c] = "sending"
                         THEN [inbox EXCEPT ![c] = Append(@, Eof)] ELSE inbox
             /\ UNCHANGED run
    <2>1. \E n \in Request :
              /\ conn' = [conn EXCEPT ![c] = n] /\ OnceOf(n)
              /\ n.st \in {"FINISHED", "WRITE_BODY", "CLOSE"}
      BY <1>3, <1>4 DEF Becomes
    <2>2. /\ client' \in Clients /\ client'[c] # "off"
          /\ \A d \in Client \ {c} : client'[d] = client[d]
      BY <1>1, <1>4 DEF Clients
    <2>3. Append(inbox[c], Eof) \in Seq(Bytes)
      <3>1. inbox[c] \in Seq(Bytes) /\ Eof \in Bytes
        BY <1>1 DEF Eof, Bytes
      <3> QED BY <3>1, AppendProperties
    <2>4. inbox' \in [Client -> Seq(Bytes)] /\ \A d \in Client \ {c} : inbox'[d] = inbox[d]
      BY <1>1, <1>4, <2>3
    <2> QED BY <1>1, <1>4, <2>1, <2>2, <2>4
  <1>5. CASE /\ Becomes(c, [conn[c] EXCEPT !.st = "WRITE_BODY", !.late = late])
             /\ UNCHANGED << client, inbox, run >>
    BY <1>1, <1>3, <1>5 DEF Becomes
  <1>6. CASE /\ Becomes(c, [conn[c] EXCEPT !.st = "CLOSE", !.late = late])
             /\ UNCHANGED << client, inbox >> /\ run' \in {"up", "killed"}
    <2>1. run' \in Runs
      BY <1>6 DEF Runs
    <2> QED BY <1>1, <1>3, <1>6, <2>1 DEF Becomes
  <1> QED BY <1>4, <1>5, <1>6 DEF WriteRequest

\* The visits that write, that find a timeout, that do nothing, or that finish
LEMMA OthersEffect ==
    ASSUME ControlInv, NEW c, Others(c)
    PROVE  Effect(c) /\ queue' = queue /\ \E ph \in Phases : Visiting(ph, c)
  <1>1. /\ queue' = queue /\ Goes(c)
        /\ TypeInv /\ queue' \in Seq(Event) /\ client \in Clients /\ run \in Runs
        /\ rset \subseteq Client /\ wset \subseteq Client /\ inbox \in [Client -> Seq(Bytes)]
    BY DEF Others, WriteReady, Expire, NoIO, WriteAtOnce, Finish, ControlInv, TypeInv, Clients, Runs
  <1>2. "io" \in Phases /\ "write" \in Phases /\ "finish" \in Phases
    BY DEF Phases
  <1>3. CASE WriteReady(c)
    <2>1. /\ Visiting("io", c) /\ c \in call.w /\ rset' = rset /\ wset' = wset
          /\ WriteRequest(c, FALSE)
      BY <1>3 DEF WriteReady, NoFds
    <2>2. /\ c \in Client /\ run = "up" /\ conn[c] \in Request /\ OnceOf(conn[c])
          /\ c \in wset /\ c \notin rset /\ conn[c].st \in {"WRITE_HEADER", "WRITE_BODY"}
      BY <1>2, <2>1, VisitFacts, VisitedIs DEF Refused, Calm
    <2>3. /\ client' \in Clients /\ inbox' \in [Client -> Seq(Bytes)] /\ run' \in Runs
          /\ client'[c] = "off" => client[c] = "off"
          /\ \A d \in Client \ {c} : client'[d] = client[d] /\ inbox'[d] = inbox[d]
      BY <1>1, <2>1, <2>2, WriteOK
    <2>4. PICK n \in Request : /\ conn' = [conn EXCEPT ![c] = n] /\ OnceOf(n)
                               /\ n.st \in {"FINISHED", "WRITE_BODY", "CLOSE"}
      BY <1>1, <2>1, <2>2, WriteOK
    <2>5. Effect(c)
      BY <1>1, <1>2, <2>1, <2>2, <2>3, <2>4, EffectOf
    <2> QED BY <1>1, <1>2, <2>1, <2>5
  <1>4. CASE WriteAtOnce(c)
    <2>1. /\ Visiting("write", c) /\ conn[c].st = "WRITE_HEADER" /\ WriteRequest(c, conn[c].late)
          /\ rset' = rset \ {c} /\ wset' = wset \cup {c}
      BY <1>4 DEF WriteAtOnce, ToWriting
    <2>2. c \in Client /\ run = "up" /\ conn[c] \in Request /\ OnceOf(conn[c])
      BY <1>2, <2>1, VisitFacts
    <2>3. conn[c].late \in BOOLEAN /\ rset' \subseteq Client /\ wset' \subseteq Client
      BY <1>1, <2>1, <2>2 DEF Request
    <2>4. /\ client' \in Clients /\ inbox' \in [Client -> Seq(Bytes)] /\ run' \in Runs
          /\ client'[c] = "off" => client[c] = "off"
          /\ \A d \in Client \ {c} : client'[d] = client[d] /\ inbox'[d] = inbox[d]
      BY <1>1, <2>1, <2>2, <2>3, WriteOK
    <2>5. PICK n \in Request : /\ conn' = [conn EXCEPT ![c] = n] /\ OnceOf(n)
                               /\ n.st \in {"FINISHED", "WRITE_BODY", "CLOSE"}
      BY <1>1, <2>1, <2>2, <2>3, WriteOK
    <2>6. /\ c \notin rset' /\ c \in wset'
          /\ \A d \in Client \ {c} : (d \in rset' <=> d \in rset) /\ (d \in wset' <=> d \in wset)
      BY <2>1
    <2>7. Effect(c)
      BY <1>1, <1>2, <2>1, <2>2, <2>3, <2>4, <2>5, <2>6, EffectOf
    <2> QED BY <1>1, <1>2, <2>1, <2>7
  <1>5. CASE Expire(c)
    <2>1. /\ Visiting("io", c) /\ rset' = rset /\ wset' = wset
          /\ UNCHANGED << client, inbox, run >>
          /\ KeepaliveOver(c) \/ NetworkTimeout(c)
      BY <1>5 DEF Expire, NoFds
    <2>2. /\ c \in Client /\ run = "up" /\ conn[c] \in Request /\ OnceOf(conn[c])
          /\ conn[c].st # "none"
      BY <1>2, <2>1, VisitFacts
    <2> DEFINE n == IF conn[c].st \in {"READ_HEADER", "READ_BODY"}
                    THEN MkError(conn[c], FALSE) ELSE [conn[c] EXCEPT !.st = "CLOSE"]
    <2>3. conn' = [conn EXCEPT ![c] = n]
      BY <1>5 DEF Expire, Becomes
    <2>4. /\ n \in Request /\ n.whole = conn[c].whole /\ n.req = conn[c].req
          /\ n.made = conn[c].made /\ n.st \in {"WRITE_HEADER", "CLOSE"}
          /\ n.st = "WRITE_HEADER" => conn[c].st \in {"READ_HEADER", "READ_BODY"}
      <3>1. LET m == MkError(conn[c], FALSE)
            IN  /\ m \in Request /\ m.whole = conn[c].whole /\ m.req = conn[c].req
                /\ m.made = conn[c].made /\ m.st = "WRITE_HEADER"
        BY <2>2 DEF Request, States, MkError
      <3>2. LET m == [conn[c] EXCEPT !.st = "CLOSE"]
            IN  /\ m \in Request /\ m.whole = conn[c].whole /\ m.req = conn[c].req
                /\ m.made = conn[c].made /\ m.st = "CLOSE"
        BY <2>2 DEF Request, States
      <3> QED BY <3>1, <3>2
    <2> HIDE DEF n
    <2>5. OnceOf(n)
      BY <2>2, <2>4 DEF OnceOf
    <2>6. ~(conn[c].st = "PROCESS" /\ ~conn[c].late)
      BY <2>1 DEF KeepaliveOver, NetworkTimeout
    <2>7. Effect(c)
      BY <1>1, <1>2, <2>1, <2>2, <2>3, <2>4, <2>5, <2>6, EffectOf
    <2> QED BY <1>1, <1>2, <2>1, <2>7
  <1>6. CASE NoIO(c)
    <2>1. /\ Visiting("io", c) /\ rset' = rset /\ wset' = wset
          /\ UNCHANGED << client, inbox, conn, run >>
      BY <1>6 DEF NoIO, NoFds
    <2>2. /\ c \in Client /\ run = "up" /\ conn[c] \in Request /\ OnceOf(conn[c])
          /\ conn[c].st # "none"
          /\ Calm(c) \/ Refused(c)
      BY <1>2, <2>1, VisitFacts, VisitedIs
    <2>3. conn' = [conn EXCEPT ![c] = conn[c]]
      BY <1>1, <2>1 DEF TypeInv
    <2> DEFINE n == conn[c]
    <2>4. n.st \notin {"FINISHED", "CLOSE"} =>
             /\ (c \in wset) <=> (n.st \in {"WRITE_HEADER", "WRITE_BODY"})
             /\ (c \in rset) <=> (c \notin wset)
             /\ ~(n.st = "PARSE_HEADER" /\ n.req.method = "POST")
      BY <2>2 DEF Calm, Refused, Open
    <2>5. n.st # "CLOSE" => conn[c].st \notin {"none", "CLOSE"}
      BY <2>2
    <2>6. n \in Request /\ conn' = [conn EXCEPT ![c] = n] /\ OnceOf(n) /\ n.st # "none"
      BY <2>2, <2>3
    <2>7. conn[c].st = "PROCESS" /\ ~conn[c].late => n.st = "PROCESS" /\ ~n.late
      OBVIOUS
    <2> HIDE DEF n
    <2>8. Effect(c)
      BY <1>1, <1>2, <2>1, <2>2, <2>4, <2>5, <2>6, <2>7, EffectOf
    <2> QED BY <1>1, <1>2, <2>1, <2>8
  <1>7. CASE Finish(c)
    <2>1. /\ Visiting("finish", c) /\ rset' = rset \cup {c} /\ wset' = wset \ {c}
          /\ UNCHANGED << client, inbox, run >> /\ conn[c].st = "FINISHED"
      BY <1>7 DEF Finish, ToReading
    <2>2. c \in Client /\ run = "up" /\ conn[c] \in Request
      BY <1>2, <2>1, VisitFacts
    <2> DEFINE n == [conn[c] EXCEPT !.st = "KEEPALIVE", !.req = None, !.whole = FALSE, !.made = 0]
    <2>3. conn' = [conn EXCEPT ![c] = n]
      BY <1>7 DEF Finish, Becomes
    <2>4. n \in Request /\ n.st = "KEEPALIVE" /\ ~n.whole
      <3> DEFINE a == [conn[c] EXCEPT !.st = "KEEPALIVE", !.req = None]
      <3>1. a \in Request /\ a.st = "KEEPALIVE"
        BY <2>2 DEF Request, States
      <3> DEFINE b == [a EXCEPT !.whole = FALSE]
      <3>2. n = [b EXCEPT !.made = 0]
        BY <2>2 DEF Request
      <3> HIDE DEF a, n
      <3>3. b \in Request /\ b.st = "KEEPALIVE" /\ ~b.whole
        BY <3>1 DEF Request
      <3> HIDE DEF b
      <3> QED BY <3>2, <3>3 DEF Request
    <2> HIDE DEF n
    <2>5. OnceOf(n)
      BY <2>4 DEF OnceOf
    <2>6. /\ c \in rset' /\ c \notin wset' /\ rset' \subseteq Client /\ wset' \subseteq Client
          /\ \A d \in Client \ {c} : (d \in rset' <=> d \in rset) /\ (d \in wset' <=> d \in wset)
      BY <1>1, <2>1, <2>2
    <2>7. Effect(c)
      BY <1>1, <1>2, <2>1, <2>2, <2>3, <2>4, <2>5, <2>6, EffectOf
    <2> QED BY <1>1, <1>2, <2>1, <2>7
  <1> QED BY <1>3, <1>4, <1>5, <1>6, <1>7 DEF Others

-----------------------------------------------------------------------------
(* What the visits put in the queue *)

\* A new event is by the visited connection; that of a complete POST waits with it.
Makes(c) == \E e \in Event :
    /\ e.obj = 0 /\ e.by = c /\ e.of = c /\ ~e.taken
    /\ e.post => conn'[c].st = "PROCESS" /\ ~conn'[c].late /\ c \in call.r
    /\ DOMAIN queue' = DOMAIN queue \cup {Len(queue) + 1} /\ Len(queue') = Len(queue) + 1
    /\ queue'[Len(queue) + 1] = e
    /\ \A i \in DOMAIN queue : queue'[i] = queue[i]

\* One of this call is given to the visited connection and is there once more.
Takes(c) == \E e \in Event :
    /\ e.obj # 0 /\ e.of = c /\ ~e.taken /\ call.ret \in DOMAIN queue
    /\ e.by = queue[call.ret].by /\ e.post = queue[call.ret].post
    /\ DOMAIN queue' = DOMAIN queue \cup {Len(queue) + 1} /\ Len(queue') = Len(queue) + 1
    /\ queue'[Len(queue) + 1] = e
    /\ \A i \in DOMAIN queue : queue'[i] = e \/ (queue'[i] = queue[i] /\ i # call.ret)

Queues(c) ==
    /\ queue' \in Seq(Event)
    /\ queue' = queue \/ (call.phase = "parse" /\ (Makes(c) \/ Takes(c)))

LEMMA QueuesNew ==
    ASSUME NEW c, Queues(c), NEW i \in DOMAIN queue'
    PROVE  \/ i \in DOMAIN queue /\ queue'[i] = queue[i]
           \/ queue'[i].of = c /\ call.phase = "parse"
  <1>1. CASE queue' = queue
    BY <1>1
  <1>2. CASE Makes(c) /\ call.phase = "parse"
    BY <1>2 DEF Makes
  <1>3. CASE Takes(c) /\ call.phase = "parse"
    BY <1>3 DEF Takes
  <1> QED BY <1>1, <1>2, <1>3 DEF Queues

\* Some name for an object is not taken.
LEMMA SharedOK ==
    ASSUME TypeInv
    PROVE  Shared \in Nat \ {0}
  <1> DEFINE n == Len(queue)
             f == [i \in 1 .. n |-> queue[i].obj]
             img == {f[i] : i \in 1 .. n}
  <1>1. n \in Nat /\ DOMAIN queue = 1 .. n
    BY LenProperties DEF TypeInv
  <1>2. IsFiniteSet(1 .. n) /\ Cardinality(1 .. n) = n
    <2>1. 1 \in Int /\ n \in Int /\ (1 > n => n = 0) /\ n - 1 + 1 = n
      BY <1>1
    <2> HIDE DEF n
    <2> QED BY <2>1, FS_Interval
  <1>3. IsFiniteSet(1 .. n + 1) /\ Cardinality(1 .. n + 1) = n + 1
    BY <1>1, FS_Interval
  <1> HIDE DEF n
  <1>4. IsFiniteSet(img) /\ Cardinality(img) <= n
    <2>1. f \in Surjection(1 .. n, img)
      BY DEF Surjection
    <2> QED BY <1>2, <2>1, FS_Surjection DEF ExistsSurjection
  <1>5. \E k \in 1 .. n + 1 : k \notin img
    <2> SUFFICES ASSUME 1 .. n + 1 \subseteq img PROVE FALSE
      OBVIOUS
    <2> HIDE DEF img
    <2>1. Cardinality(1 .. n + 1) <= Cardinality(img)
      BY <1>4, FS_Subset
    <2>2. Cardinality(img) \in Nat
      BY <1>4, FS_CardinalityType
    <2> QED BY <1>1, <1>3, <1>4, <2>1, <2>2
  <1>6. \E k \in 1 .. n + 1 : \A i \in DOMAIN queue : queue[i].obj # k
    BY <1>1, <1>5
  <1>7. Shared \in 1 .. n + 1
    BY <1>6 DEF Shared, n
  <1> QED BY <1>1, <1>7

\* setReq on the event of an earlier request gives it to the visited connection.
LEMMA PushStaleOK ==
    ASSUME TypeInv, call \in InCall, call.ret <= Len(queue), call.ret # 0,
           NEW c \in Client, PushStale(c)
    PROVE  queue' \in Seq(Event) /\ Takes(c)
  <1> DEFINE old == queue[call.ret]
             k == IF old.obj = 0 THEN Shared ELSE old.obj
             again == [old EXCEPT !.obj = k, !.of = c, !.taken = FALSE]
             q == [i \in DOMAIN queue |->
                     IF i = call.ret \/ queue[i].obj = k THEN again ELSE queue[i]]
  <1>1. /\ Len(queue) \in Nat /\ DOMAIN queue = 1 .. Len(queue)
        /\ \A i \in DOMAIN queue : queue[i] \in Event
    BY LenProperties, ElementOfSeq DEF TypeInv
  <1>2. call.ret \in DOMAIN queue
    BY <1>1 DEF InCall
  <1>3. k \in Nat \ {0} /\ old \in Event
    <2>1. old \in Event
      BY <1>1, <1>2
    <2> QED BY <2>1, SharedOK DEF Event
  <1>4. queue' = Append(q, again)
    BY DEF PushStale
  <1> HIDE DEF k
  <1>5. /\ again \in Event /\ again.obj # 0 /\ again.of = c /\ ~again.taken
        /\ again.by = old.by /\ again.post = old.post
    <2> HIDE DEF old
    <2>1. again.obj = k /\ again.of = c /\ again.taken = FALSE /\ again.by = old.by
          /\ again.post = old.post /\ again \in Event
      BY <1>3 DEF Event
    <2> QED BY <1>3, <2>1
  <1> HIDE DEF again
  <1>6. q \in [1 .. Len(queue) -> Event]
    BY <1>1, <1>5
  <1>7. q \in Seq(Event) /\ DOMAIN q = DOMAIN queue /\ Len(q) = Len(queue)
    BY <1>1, <1>6, SeqDef, LenProperties
  <1>8. \A i \in DOMAIN q : q[i] = again \/ (q[i] = queue[i] /\ i # call.ret)
    BY <1>7
  <1> HIDE DEF q
  <1>9. /\ queue' \in Seq(Event) /\ DOMAIN queue' = DOMAIN q \cup {Len(q) + 1}
        /\ \A i \in DOMAIN q : queue'[i] = q[i] /\ i # Len(q) + 1
        /\ queue'[Len(q) + 1] = again /\ Len(queue') = Len(q) + 1
    BY <1>4, <1>5, <1>7, AppendSet
  <1> QED BY <1>2, <1>5, <1>7, <1>8, <1>9 DEF Takes

\* A request that is parsed again
LEMMA ParsedOK ==
    ASSUME NEW r \in Request, r.req # None
    PROVE  /\ Parsed(r) \in Request /\ Parsed(r).st = r.st /\ Parsed(r).req = r.req
           /\ Parsed(r).whole = r.whole /\ Parsed(r).late = r.late /\ Parsed(r).made = r.made
  <1> DEFINE k == IF r.made = 0 THEN r.keep ELSE r.req.http11
  <1>1. k \in BOOLEAN
    <2>1. r.keep \in BOOLEAN /\ r.req \in Asked
      BY DEF Request
    <2>2. r.req.http11 \in BOOLEAN
      BY <2>1 DEF Asked
    <2> QED BY <2>1, <2>2
  <1>2. Parsed(r) = [r EXCEPT !.keep = k]
    BY DEF Parsed, Request
  <1> HIDE DEF k
  <1> QED BY <1>1, <1>2 DEF Request

\* processCmd: what it leaves in the connection, and what it queues
LEMMA ProcessOK ==
    ASSUME TypeInv, call \in InCall, call.ret <= Len(queue), NEW c \in Client,
           NEW r \in Request, r.made = conn[c].made, r.req = conn[c].req, r.whole = conn[c].whole,
           r.late = conn[c].late,
           NEW st \in {"PROCESS", "CLOSE", "PARSE_HEADER", "PARSE_BODY"}, ProcessCmd(c, r, st)
    PROVE  \E n \in Request :
              /\ conn' = [conn EXCEPT ![c] = n]
              /\ n.whole = conn[c].whole /\ n.req = conn[c].req /\ n.late = conn[c].late
              /\ \/ n.st = "WRITE_HEADER" /\ n.made = conn[c].made
                 \/ n.st = st /\ n.made <= conn[c].made + 1
              /\ queue' \in Seq(Event)
              /\ \/ queue' = queue
                 \/ Takes(c)
                 \/ \E e \in Event :
                       /\ queue' = Append(queue, e) /\ e.obj = 0 /\ e.by = c /\ e.of = c /\ ~e.taken
                       /\ e.post => /\ n.st = st
                                    /\ conn[c].req.method = "POST" /\ conn[c].whole
  <1>1. conn[c] \in Request /\ queue \in Seq(Event)
    BY DEF TypeInv
  <1>2. CASE r.req.cmd = "task"
    <2> DEFINE n == [r EXCEPT !.st = st, !.made = IF @ < 2 THEN @ + 1 ELSE @]
               e == [obj |-> 0, by |-> c, of |-> c, taken |-> FALSE,
                     post |-> conn[c].req.method = "POST" /\ conn[c].whole]
    <2>1. conn' = [conn EXCEPT ![c] = n] /\ queue' = Append(queue, e)
      BY <1>2 DEF ProcessCmd, PushNew, Becomes
    <2>2. r.made \in 0 .. 2
      BY DEF Request
    <2>3. /\ n \in Request /\ n.whole = r.whole /\ n.req = r.req
          /\ n.late = r.late /\ n.st = st /\ n.made <= r.made + 1
      <3> DEFINE m == IF r.made < 2 THEN r.made + 1 ELSE r.made
      <3>1. m \in 0 .. 2 /\ m <= r.made + 1
        BY <2>2
      <3>2. n = [r EXCEPT !.st = st, !.made = m]
        BY DEF Request
      <3> HIDE DEF m, n
      <3> QED BY <3>1, <3>2 DEF Request, States
    <2> HIDE DEF n
    <2>4. /\ e \in Event /\ e.obj = 0 /\ e.by = c /\ e.of = c /\ ~e.taken
          /\ e.post => conn[c].req.method = "POST" /\ conn[c].whole
      BY DEF Event
    <2> HIDE DEF e
    <2>5. queue' \in Seq(Event)
      BY <1>1, <2>1, <2>4, AppendProperties
    <2> QED BY <2>1, <2>3, <2>4, <2>5
  <1>3. CASE r.req.cmd # "task"
    <2> DEFINE n == IF r.req.cmd = "unknown" THEN MkError(r, TRUE) ELSE MkHeader(r)
    <2>1. conn' = [conn EXCEPT ![c] = n]
      BY <1>3 DEF ProcessCmd, Becomes
    <2>2. /\ n \in Request /\ n.whole = r.whole /\ n.req = r.req
          /\ n.late = r.late /\ n.st = "WRITE_HEADER" /\ n.made = r.made
      BY DEF Request, States, MkError, MkHeader
    <2> HIDE DEF n
    <2>3. CASE r.req.cmd = "page" /\ call.ret # 0
      <3>1. PushStale(c)
        BY <1>3, <2>3 DEF ProcessCmd
      <3> QED BY <2>1, <2>2, <3>1, <2>3, PushStaleOK
    <2>4. CASE ~(r.req.cmd = "page" /\ call.ret # 0)
      <3>1. queue' = queue
        BY <1>3, <2>4 DEF ProcessCmd
      <3> QED BY <1>1, <2>1, <2>2, <3>1
    <2> QED BY <2>3, <2>4
  <1> QED BY <1>2, <1>3

\* parse_request and parse_request_body, with the command they carry out
LEMMA ParseEffect ==
    ASSUME ControlInv, NEW c, ParseHeader(c) \/ ParseBody(c)
    PROVE  Effect(c) /\ Queues(c) /\ Visiting("parse", c)
  <1>1. /\ Visiting("parse", c) /\ "parse" \in Phases /\ Goes(c)
        /\ rset' = rset /\ wset' = wset /\ UNCHANGED << client, inbox, run >>
    BY DEF ParseHeader, ParseBody, Phases, NoFds
  <1>2. /\ c \in Client /\ run = "up" /\ conn[c] \in Request /\ OnceOf(conn[c])
        /\ conn[c].st \in {"PARSE_HEADER", "PARSE_BODY"} /\ c \in rset /\ c \notin wset
        /\ conn[c].st = "PARSE_HEADER" /\ conn[c].req.method = "POST" =>
               c \in call.r /\ ~conn[c].late
    BY <1>1, VisitFacts, VisitedIs
  <1>3. /\ TypeInv /\ client \in Clients /\ run \in Runs /\ queue \in Seq(Event)
        /\ rset \subseteq Client /\ wset \subseteq Client /\ inbox \in [Client -> Seq(Bytes)]
    BY DEF ControlInv, TypeInv, Clients, Runs
  <1>4. /\ call \in InCall /\ call.ret <= Len(queue) /\ c \in Todo /\ call.phase = "parse"
    BY <1>1, <1>3, VisitingOK
  <1>5. ASSUME NEW n \in Request, conn' = [conn EXCEPT ![c] = n], queue' \in Seq(Event),
               OnceOf(n),
               n.st \in States \ {"none", "KEEPALIVE", "READ_HEADER", "FINISHED", "WRITE_BODY"},
               n.st = "PARSE_HEADER" => n.req.method # "POST"
        PROVE  Effect(c)
    <2> USE DEF States
    <2>1. n.st # "none" /\ conn[c].st \notin {"none", "CLOSE", "PROCESS"}
      BY <1>2, <1>5
    <2>2. n.st \notin {"WRITE_HEADER", "CLOSE"} =>
             n.st # "WRITE_BODY" /\ ~(n.st = "PARSE_HEADER" /\ n.req.method = "POST")
      BY <1>5
    <2> QED BY <1>1, <1>2, <1>3, <1>5, <2>1, <2>2, EffectOf
  <1> DEFINE r == Parsed(conn[c])
  <1>11. /\ r \in Request /\ r.st = conn[c].st /\ r.req = conn[c].req /\ r.whole = conn[c].whole
         /\ r.late = conn[c].late /\ r.made = conn[c].made
    BY <1>2, ParsedOK DEF OnceOf
  <1> HIDE DEF r
  <1>6. CASE ParseHeader(c) /\ ~UserAccess(c)
    <2> DEFINE n == MkError(r, TRUE)
    <2>1. conn' = [conn EXCEPT ![c] = n] /\ queue' = queue
      BY <1>6 DEF ParseHeader, Becomes, r
    <2>2. /\ n \in Request /\ n.whole = conn[c].whole /\ n.req = conn[c].req
          /\ n.st = "WRITE_HEADER" /\ n.made = conn[c].made
      BY <1>11 DEF Request, States, MkError
    <2> HIDE DEF n
    <2>3. OnceOf(n)
      BY <1>2, <2>2 DEF OnceOf
    <2>4. Queues(c)
      BY <1>3, <2>1 DEF Queues
    <2> QED BY <1>1, <1>3, <1>5, <2>1, <2>2, <2>3, <2>4 DEF States
  <1>7. CASE ParseHeader(c) /\ UserAccess(c) /\ conn[c].req.method = "POST" /\ ~conn[c].whole
    <2> DEFINE n == [r EXCEPT !.st = "READ_BODY"]
    <2>1. conn' = [conn EXCEPT ![c] = n] /\ queue' = queue /\ conn[c].st = "PARSE_HEADER"
      BY <1>7, <1>11 DEF ParseHeader, Becomes, r
    <2>2. n \in Request /\ ~n.whole /\ n.st = "READ_BODY" /\ n.req = conn[c].req
      BY <1>7, <1>11 DEF Request, States
    <2> HIDE DEF n
    <2>3. OnceOf(n)
      BY <1>2, <2>1, <2>2 DEF OnceOf
    <2>4. Queues(c)
      BY <1>3, <2>1 DEF Queues
    <2> QED BY <1>1, <1>3, <1>5, <2>1, <2>2, <2>3, <2>4 DEF States
  <1>8. ASSUME NEW st \in {"PROCESS", "CLOSE", "PARSE_HEADER", "PARSE_BODY"},
               NEW m \in {r, conn[c]}, ProcessCmd(c, m, st),
               \/ /\ conn[c].st = "PARSE_HEADER"
                  /\ IF conn[c].req.method = "POST" THEN st = "PROCESS"
                     ELSE st \in {"CLOSE", "PARSE_HEADER"}
               \/ conn[c].st = "PARSE_BODY" /\ st = "PARSE_BODY"
        PROVE  Effect(c) /\ Queues(c)
    <2>0. /\ m \in Request /\ m.req = conn[c].req /\ m.whole = conn[c].whole
          /\ m.late = conn[c].late /\ m.made = conn[c].made
      BY <1>2, <1>8, <1>11
    <2>1. PICK n \in Request :
              /\ conn' = [conn EXCEPT ![c] = n]
              /\ n.whole = conn[c].whole /\ n.req = conn[c].req /\ n.late = conn[c].late
              /\ \/ n.st = "WRITE_HEADER" /\ n.made = conn[c].made
                 \/ n.st = st /\ n.made <= conn[c].made + 1
              /\ queue' \in Seq(Event)
              /\ \/ queue' = queue
                 \/ Takes(c)
                 \/ \E e \in Event :
                       /\ queue' = Append(queue, e) /\ e.obj = 0 /\ e.by = c /\ e.of = c /\ ~e.taken
                       /\ e.post => /\ n.st = st
                                    /\ conn[c].req.method = "POST" /\ conn[c].whole
      <3>1. TypeInv /\ call \in InCall /\ call.ret <= Len(queue) /\ c \in Client
        BY <1>2, <1>3, <1>4
      <3>2. /\ st \in {"PROCESS", "CLOSE", "PARSE_HEADER", "PARSE_BODY"}
            /\ ProcessCmd(c, m, st)
        BY <1>8
      <3> QED BY <2>0, <3>1, <3>2, ProcessOK
    <2>2. conn'[c] = n
      BY <1>2, <1>3, <2>1 DEF TypeInv
    <2>3. OnceOf(n)
      BY <1>2, <1>8, <2>1 DEF OnceOf
    <2>4. /\ n.st \in States \ {"none", "KEEPALIVE", "READ_HEADER", "FINISHED", "WRITE_BODY"}
          /\ n.st = "PARSE_HEADER" => n.req.method # "POST"
      BY <1>8, <2>1 DEF States
    <2>5. Effect(c)
      BY <1>5, <2>1, <2>3, <2>4
    <2>6. CASE \E e \in Event :
                  /\ queue' = Append(queue, e) /\ e.obj = 0 /\ e.by = c /\ e.of = c /\ ~e.taken
                  /\ e.post => /\ n.st = st
                               /\ conn[c].req.method = "POST" /\ conn[c].whole
      <3>1. PICK e \in Event :
                  /\ queue' = Append(queue, e) /\ e.obj = 0 /\ e.by = c /\ e.of = c /\ ~e.taken
                  /\ e.post => /\ n.st = st
                               /\ conn[c].req.method = "POST" /\ conn[c].whole
        BY <2>6
      <3>2. /\ DOMAIN queue' = DOMAIN queue \cup {Len(queue) + 1} /\ Len(queue') = Len(queue) + 1
            /\ \A i \in DOMAIN queue : queue'[i] = queue[i]
            /\ queue'[Len(queue) + 1] = e
        BY <1>3, <3>1, AppendSet
      <3>3. ASSUME e.post PROVE conn'[c].st = "PROCESS" /\ ~conn'[c].late /\ c \in call.r
        <4>1. conn[c].st = "PARSE_HEADER" /\ conn[c].req.method = "POST" /\ n.st = "PROCESS"
          BY <1>2, <1>8, <3>1, <3>3 DEF OnceOf
        <4>2. c \in call.r /\ ~conn[c].late
          BY <1>2, <4>1
        <4> QED BY <2>1, <2>2, <4>1, <4>2
      <3>4. Makes(c)
        BY <3>1, <3>2, <3>3 DEF Makes
      <3> QED BY <1>4, <2>1, <2>5, <3>4 DEF Queues
    <2>7. CASE queue' = queue \/ Takes(c)
      BY <1>4, <2>1, <2>5, <2>7 DEF Queues
    <2> QED BY <2>1, <2>6, <2>7
  <1>9. CASE ParseHeader(c) /\ UserAccess(c) /\ ~(conn[c].req.method = "POST" /\ ~conn[c].whole)
    <2>1. ProcessCmd(c, r, StateAfterParse(c)) /\ conn[c].st = "PARSE_HEADER"
      <3>1. conn[c].st = "PARSE_HEADER"
        BY <1>9 DEF ParseHeader
      <3> QED BY <1>9, <1>11, <3>1 DEF ParseHeader, r
    <2>2. IF conn[c].req.method = "POST" THEN StateAfterParse(c) = "PROCESS"
          ELSE StateAfterParse(c) \in {"CLOSE", "PARSE_HEADER"}
      BY DEF StateAfterParse
    <2> QED BY <1>1, <1>8, <2>1, <2>2
  <1>10. CASE ParseBody(c)
    <2>1. ProcessCmd(c, conn[c], "PARSE_BODY") /\ conn[c].st = "PARSE_BODY"
      BY <1>10 DEF ParseBody
    <2> QED BY <1>1, <1>8, <2>1
  <1>12. ParseHeader(c) => \/ ~UserAccess(c)
                           \/ conn[c].req.method = "POST" /\ ~conn[c].whole
                           \/ UserAccess(c) /\ ~(conn[c].req.method = "POST" /\ ~conn[c].whole)
    OBVIOUS
  <1> QED BY <1>1, <1>6, <1>7, <1>9, <1>10, <1>12

-----------------------------------------------------------------------------
(* The invariant is kept *)

\* Who is let in does not change.
LEMMA AccessKept ==
    ASSUME access' = access, NEW c \in Client
    PROVE  HostAccess(c)' = HostAccess(c)
  BY DEF HostAccess, Decision, ResolveAddr, PeerHost

\* An event that holds a request holds that of a client.
LEMMA EventOK ==
    ASSUME TypeInv, NEW i \in DOMAIN queue
    PROVE  queue[i] \in Event /\ (queue[i].of # "freed" => queue[i].of \in Client)
  <1>1. queue[i] \in Event
    BY ElementOfSeq, LenProperties DEF TypeInv
  <1> QED BY <1>1 DEF Event

\* A visit keeps the invariant.
LEMMA VisitKept ==
    ASSUME ControlInv, NEW phase \in Phases, NEW c, Visiting(phase, c), Effect(c), Queues(c)
    PROVE  ControlInv'
  <1>1. /\ call \in InCall /\ call # NoCall /\ call.todo # << >> /\ call.phase = phase
        /\ run = "up" /\ c \in Client /\ IsVisited(c) /\ TypeInv /\ c \in Todo
    BY VisitingOK DEF ControlInv
  <1>2. NamesInv /\ WatchInv /\ Open(c) /\ Spares(c)
    BY <1>1 DEF ControlInv, Running, NamesInv, Effect
  <1>3. TypeInv'
    BY <1>1 DEF TypeInv, Effect, Queues, CallTyped, Clients, Runs
  <1>4. OnceInv'
    <2>1. \A d \in Client \ {c} : OnceOf(conn'[d])
      BY <1>2 DEF ControlInv, OnceInv, OnceOf, Spares
    <2>2. \A d \in Client : OnceOf(conn'[d])
      BY <2>1 DEF Effect
    <2> QED BY <2>2 DEF OnceInv, OnceOf
  <1>5. HostInv'
    <2> SUFFICES ASSUME NEW d \in Client
                 PROVE  /\ Open(d)' \/ d \in Waiting' => UseIPv6 \/ AddressOf[d] \in IPv4
                        /\ conn'[d].st \notin {"none", "CLOSE"} => HostAccess(d)'
      BY DEF HostInv
    <2>1. /\ Open(d) \/ d \in Waiting => UseIPv6 \/ AddressOf[d] \in IPv4
          /\ conn[d].st \notin {"none", "CLOSE"} => HostAccess(d)
      BY DEF ControlInv, HostInv
    <2>2. HostAccess(d)' = HostAccess(d) /\ Waiting' = Waiting
      BY AccessKept DEF Effect, Waiting
    <2>3. /\ Open(d)' => Open(d)
          /\ conn'[d].st \notin {"none", "CLOSE"} => conn[d].st \notin {"none", "CLOSE"}
      BY <1>2 DEF Effect, Spares, Open
    <2> QED BY <2>1, <2>2, <2>3
  <1>6. ASSUME run' = "up" PROVE Running'
    <2>1. /\ WatchInv' /\ IsSet(call.todo)' /\ Todo' \subseteq Todo
          /\ \A d \in Todo' : IsVisited(d)' /\ call'.phase # "io" => d = c /\ IsVisited(d)
          /\ c \in Todo' => IsVisited(c)' /\ \E ph \in {"parse", "write", "finish"} : Stays(ph)
      <3>1. Leaves(c)
        BY <1>6 DEF Effect
      <3>2. TypeInv /\ NamesInv /\ WatchInv /\ IsVisited(c) /\ Spares(c)
        BY <1>1, <1>2
      <3>3. call \in InCall /\ call.todo # << >> /\ c \in Client
        BY <1>1
      <3> QED BY <3>1, <3>2, <3>3, WatchKept
    <2>2. /\ \A d \in Client : Open(d) <=> Open(d)'
          /\ \A d \in Client \ {c} : conn'[d] = conn[d]
      BY <1>2 DEF Effect, Spares, Open
    <2>3. NamesInv'
      <3>1. IsSet(backlog)' /\ IsSet(conns)'
        BY <1>2 DEF NamesInv, Effect, IsSet
      <3>2. Waiting' = Waiting /\ ToSet(conns)' = ToSet(conns)
        BY DEF Effect, Waiting
      <3>3. Waiting \subseteq Client /\ ToSet(conns) \subseteq Client /\ Todo \subseteq Client
        <4>1. call.todo \in Seq(Client)
          BY <1>1 DEF InCall
        <4> QED BY <1>1, <4>1, ToSetOK DEF TypeInv, Waiting, Todo
      <3>4. \A d \in Waiting' : ~Open(d)' /\ client'[d] # "off"
        <4> SUFFICES ASSUME NEW d \in Waiting PROVE ~Open(d)' /\ client'[d] # "off"
          BY <3>2
        <4>1. ~Open(d) /\ client[d] # "off" /\ d \in Client
          BY <1>2, <3>3 DEF NamesInv
        <4> QED BY <1>2, <2>2, <4>1 DEF Effect
      <3>5. \A d \in Client : client'[d] = "off" => ~Open(d)'
        BY <1>2, <2>2 DEF NamesInv, Effect
      <3>6. \A d \in ToSet(conns)' \cup Todo' : Open(d)'
        BY <1>2, <2>1, <2>2, <3>2, <3>3 DEF NamesInv
      <3>7. \A i \in DOMAIN queue' : queue'[i].of # "freed" => conn'[queue'[i].of].st # "none"
        <4> SUFFICES ASSUME NEW i \in DOMAIN queue', queue'[i].of # "freed", NEW d, d = queue'[i].of
                     PROVE  conn'[d].st # "none"
          OBVIOUS
        <4>1. CASE i \in DOMAIN queue /\ queue'[i] = queue[i]
          <5>1. d \in Client /\ Open(d)
            BY <1>1, <1>2, <4>1, EventOK DEF NamesInv
          <5> QED BY <2>2, <5>1 DEF Open
        <4>2. CASE queue'[i].of = c
          BY <4>2 DEF Effect
        <4> QED BY <4>1, <4>2, QueuesNew
      <3> QED BY <2>1, <3>1, <3>4, <3>5, <3>6, <3>7 DEF NamesInv, Open
    <2>5. threaded' = threaded
      BY DEF Effect
    <2> QED BY <2>1, <2>3, <2>5 DEF Running
  <1> QED BY <1>3, <1>4, <1>5, <1>6 DEF ControlInv

\* All visits but those that close
LEMMA VisitStep ==
    ASSUME ControlInv, NEW c, Reads(c) \/ Others(c) \/ ParseHeader(c) \/ ParseBody(c)
    PROVE  ControlInv'
  <1>1. CASE Reads(c) \/ Others(c)
    <2>1. Effect(c) /\ queue' = queue /\ \E ph \in Phases : Visiting(ph, c)
      BY <1>1, ReadsEffect, OthersEffect
    <2>2. Queues(c)
      BY <2>1 DEF Queues, ControlInv, TypeInv
    <2> QED BY <2>1, <2>2, VisitKept
  <1>2. CASE ParseHeader(c) \/ ParseBody(c)
    <2>1. "parse" \in Phases
      BY DEF Phases
    <2> QED BY <1>2, <2>1, ParseEffect, VisitKept
  <1> QED BY <1>1, <1>2

\* A new connection, and none
LEMMA ClosedOK ==
    /\ NewRequest \in Request /\ NewRequest.st = "READ_HEADER" /\ ~NewRequest.whole
    /\ Closed \in Request /\ Closed.st = "none" /\ ~Closed.whole
    /\ LET n == [NewRequest EXCEPT !.st = "CLOSE"]
       IN  n \in Request /\ n.st = "CLOSE" /\ ~n.whole
  <1>1. NewRequest \in Request /\ NewRequest.st = "READ_HEADER" /\ ~NewRequest.whole
    BY DEF NewRequest, Request, States
  <1>2. \A st \in States :
           LET n == [NewRequest EXCEPT !.st = st]
           IN  n \in Request /\ n.st = st /\ ~n.whole
    BY <1>1 DEF Request
  <1>3. "none" \in States /\ "CLOSE" \in States
    BY DEF States
  <1>4. Closed \in Request /\ Closed.st = "none" /\ ~Closed.whole
    BY <1>2, <1>3 DEF Closed
  <1> QED BY <1>1, <1>2, <1>3, <1>4

\* What Close does with the list, the call and the events
LEMMA CloseFacts ==
    ASSUME ControlInv, NEW c, Close(c)
    PROVE  /\ Visiting("finish", c) /\ "finish" \in Phases
           /\ UNCHANGED << threaded, access, backlog, timer, run >>
           /\ call \in InCall /\ call # NoCall /\ call.todo # << >> /\ call.phase = "finish"
           /\ run = "up" /\ c \in Client /\ IsVisited(c) /\ TypeInv /\ c \in Todo
           /\ call.ret <= Len(queue) /\ call.todo \in Seq(Client) /\ Todo = ToSet(call.todo)
           /\ NamesInv /\ WatchInv /\ Open(c)
           /\ conn[c].st \in {"FINISHED", "CLOSE"}
           /\ GoesToNext
           /\ call' = NoCall \/ (call' \in InCall /\ call'.todo # << >> /\ call'.ret = call.ret)
           /\ conns' \in Seq(Client) /\ IsSet(conns)' /\ ToSet(conns)' = ToSet(conns) \ {c}
           /\ conn' = [conn EXCEPT ![c] = Closed] /\ Closed \in Request /\ Closed.st = "none"
           /\ ~Closed.whole
           /\ conn' \in [Client -> Request] /\ conn'[c] = Closed
           /\ \A d \in Client \ {c} : conn'[d] = conn[d]
           /\ queue' \in Seq(Event) /\ DOMAIN queue' = DOMAIN queue /\ Len(queue') = Len(queue)
           /\ \A i \in DOMAIN queue :
                 IF queue[i].of = c
                 THEN /\ queue'[i].of = "freed" /\ queue'[i].post = queue[i].post
                      /\ queue'[i].obj = queue[i].obj /\ queue'[i].taken = queue[i].taken
                      /\ queue'[i].by = queue[i].by
                 ELSE queue'[i] = queue[i]
  <1>1. /\ Visiting("finish", c) /\ "finish" \in Phases
        /\ UNCHANGED << threaded, access, backlog, timer, run >>
    BY DEF Close, Phases
  <1>2. /\ call \in InCall /\ call # NoCall /\ call.todo # << >> /\ call.phase = "finish"
        /\ run = "up" /\ c \in Client /\ IsVisited(c) /\ TypeInv /\ c \in Todo
        /\ call.ret <= Len(queue) /\ call.todo \in Seq(Client) /\ Todo = ToSet(call.todo)
    BY <1>1, VisitingOK DEF ControlInv
  <1>3. NamesInv /\ WatchInv /\ Open(c)
    BY <1>2 DEF ControlInv, Running, NamesInv
  <1>4. conn[c].st \in {"FINISHED", "CLOSE"}
    BY DEF Close
  <1>5. /\ GoesToNext
        /\ call' = NoCall \/ (call' \in InCall /\ call'.todo # << >> /\ call'.ret = call.ret)
    <2>1. /\ Tail(call.todo) \in Seq(Client)
          /\ Tail(call.todo) # << >> => Len(call.todo) # 1
          /\ Tail(call.todo) = << >> => Len(call.todo) = 1
      BY <1>2, HeadTailSet
    <2> DEFINE a == [call EXCEPT !.phase = "io", !.todo = Tail(@)]
    <2>2. call' = IF Len(call.todo) = 1 THEN NoCall ELSE a
      BY <1>2 DEF Close, After
    <2>3. /\ a \in InCall /\ a.phase = "io" /\ a.todo = Tail(call.todo)
          /\ a.r = call.r /\ a.w = call.w /\ a.ret = call.ret
      BY <1>2, <2>1 DEF InCall, Phases
    <2> HIDE DEF a
    <2>4. NoCall \notin InCall
      BY DEF NoCall, InCall, Phases
    <2> QED BY <2>1, <2>2, <2>3, <2>4 DEF GoesToNext
  <1>6. PICK k \in DOMAIN conns : conns[k] = c /\ conns' = RemoveAt(conns, k)
    BY DEF Close
  <1>7. /\ conns' \in Seq(Client) /\ IsSet(conns)' /\ ToSet(conns)' = ToSet(conns) \ {c}
    <2>1. conns \in Seq(Client) /\ IsSet(conns)
      BY <1>2, <1>3 DEF TypeInv, NamesInv
    <2>2. conns' \in Seq(Client)
      BY <1>6, <2>1, RemoveOK
    <2>3. IsSet(RemoveAt(conns, k)) /\ ToSet(RemoveAt(conns, k)) = ToSet(conns) \ {c}
      BY <1>6, <2>1, RemoveFromSet
    <2> QED BY <1>6, <2>2, <2>3 DEF IsSet
  <1>8. /\ conn' = [conn EXCEPT ![c] = Closed] /\ Closed \in Request /\ Closed.st = "none"
        /\ ~Closed.whole
    BY ClosedOK DEF Close, Becomes
  <1>9. /\ conn' \in [Client -> Request] /\ conn'[c] = Closed
        /\ \A d \in Client \ {c} : conn'[d] = conn[d]
    <2> HIDE DEF Closed
    <2> QED BY <1>2, <1>8 DEF TypeInv
  <1>10. /\ queue' \in Seq(Event) /\ DOMAIN queue' = DOMAIN queue /\ Len(queue') = Len(queue)
         /\ \A i \in DOMAIN queue :
               IF queue[i].of = c
               THEN /\ queue'[i].of = "freed" /\ queue'[i].post = queue[i].post
                    /\ queue'[i].obj = queue[i].obj /\ queue'[i].taken = queue[i].taken
                    /\ queue'[i].by = queue[i].by
               ELSE queue'[i] = queue[i]
    <2>1. queue' = [i \in DOMAIN queue |->
                      IF queue[i].of = c THEN [queue[i] EXCEPT !.of = "freed"] ELSE queue[i]]
      BY DEF Close
    <2>2. /\ Len(queue) \in Nat /\ DOMAIN queue = 1 .. Len(queue)
          /\ \A i \in DOMAIN queue : queue[i] \in Event
      BY <1>2, LenProperties, ElementOfSeq DEF TypeInv
    <2>3. \A i \in DOMAIN queue :
             LET e == [queue[i] EXCEPT !.of = "freed"]
             IN  /\ e \in Event /\ e.of = "freed" /\ e.post = queue[i].post
                 /\ e.obj = queue[i].obj /\ e.taken = queue[i].taken /\ e.by = queue[i].by
      BY <2>2 DEF Event
    <2>4. queue' \in [1 .. Len(queue) -> Event]
      BY <2>1, <2>2, <2>3
    <2>5. queue' \in Seq(Event) /\ Len(queue') = Len(queue)
      BY <2>2, <2>4, SeqDef, LenProperties
    <2> QED BY <2>1, <2>2, <2>3, <2>4, <2>5
  <1> QED BY <1>1, <1>2, <1>3, <1>4, <1>5, <1>7, <1>8, <1>9, <1>10

\* A connection goes, and events lose their request.
LEMMA CloseStep ==
    ASSUME ControlInv, NEW c, Close(c)
    PROVE  ControlInv'
  <1>1. /\ Visiting("finish", c) /\ "finish" \in Phases
        /\ UNCHANGED << threaded, access, backlog, timer, run >>
    BY CloseFacts
  <1>2. /\ call \in InCall /\ call # NoCall /\ call.todo # << >> /\ call.phase = "finish"
        /\ run = "up" /\ c \in Client /\ IsVisited(c) /\ TypeInv /\ c \in Todo
        /\ call.ret <= Len(queue) /\ call.todo \in Seq(Client) /\ Todo = ToSet(call.todo)
    BY CloseFacts
  <1>3. NamesInv /\ WatchInv /\ Open(c)
    BY CloseFacts
  <1>4. conn[c].st \in {"FINISHED", "CLOSE"}
    BY CloseFacts
  <1>5. /\ GoesToNext
        /\ call' = NoCall \/ (call' \in InCall /\ call'.todo # << >> /\ call'.ret = call.ret)
    BY CloseFacts
  <1>7. /\ conns' \in Seq(Client) /\ IsSet(conns)' /\ ToSet(conns)' = ToSet(conns) \ {c}
    BY CloseFacts
  <1>8. /\ conn' = [conn EXCEPT ![c] = Closed] /\ Closed \in Request /\ Closed.st = "none"
        /\ ~Closed.whole
    BY CloseFacts
  <1>9. /\ conn' \in [Client -> Request] /\ conn'[c] = Closed
        /\ \A d \in Client \ {c} : conn'[d] = conn[d]
    BY CloseFacts
  <1>10. /\ queue' \in Seq(Event) /\ DOMAIN queue' = DOMAIN queue /\ Len(queue') = Len(queue)
         /\ \A i \in DOMAIN queue :
               IF queue[i].of = c
               THEN /\ queue'[i].of = "freed" /\ queue'[i].post = queue[i].post
                    /\ queue'[i].obj = queue[i].obj /\ queue'[i].taken = queue[i].taken
                    /\ queue'[i].by = queue[i].by
               ELSE queue'[i] = queue[i]
    BY CloseFacts
  <1>11. /\ client' \in Clients /\ client'[c] = "off"
         /\ inbox' \in [Client -> Seq(Bytes)]
         /\ \A d \in Client \ {c} : client'[d] = client[d] /\ inbox'[d] = inbox[d]
    <2>1. /\ client' = [client EXCEPT ![c] = "off"] /\ inbox' = [inbox EXCEPT ![c] = << >>]
      BY DEF Close
    <2>2. << >> \in Seq(Bytes)
      BY EmptySeq
    <2> QED BY <1>2, <2>1, <2>2 DEF TypeInv, Clients
  <1>12. /\ rset' \subseteq Client /\ wset' \subseteq Client /\ c \notin rset' /\ c \notin wset'
         /\ \A d \in Client \ {c} : (d \in rset' <=> d \in rset) /\ (d \in wset' <=> d \in wset)
    BY <1>2 DEF Close, TypeInv
  <1>13. TypeInv'
    BY <1>1, <1>2, <1>5, <1>7, <1>9, <1>10, <1>11, <1>12 DEF TypeInv, Clients
  <1>14. OnceInv'
    BY <1>8, <1>9 DEF ControlInv, OnceInv, OnceOf
  <1>15. HostInv'
    <2> SUFFICES ASSUME NEW d \in Client
                 PROVE  /\ Open(d)' \/ d \in Waiting' => UseIPv6 \/ AddressOf[d] \in IPv4
                        /\ conn'[d].st \notin {"none", "CLOSE"} => HostAccess(d)'
      BY DEF HostInv
    <2>1. /\ Open(d) \/ d \in Waiting => UseIPv6 \/ AddressOf[d] \in IPv4
          /\ conn[d].st \notin {"none", "CLOSE"} => HostAccess(d)
      BY DEF ControlInv, HostInv
    <2>2. HostAccess(d)' = HostAccess(d) /\ Waiting' = Waiting
      BY <1>1, AccessKept DEF Waiting
    <2> QED BY <1>8, <1>9, <2>1, <2>2 DEF Open
  <1>16. Leaves(c) /\ Spares(c)
    <2>1. Calm(c)'
      BY <1>8, <1>9, <1>12 DEF Calm, Open
    <2> QED BY <1>5, <1>9, <1>11, <1>12, <2>1 DEF Leaves, Spares
  <1>17. /\ WatchInv' /\ IsSet(call.todo)' /\ Todo' \subseteq Todo
         /\ \A d \in Todo' : IsVisited(d)' /\ call'.phase # "io" => d = c /\ IsVisited(d)
         /\ c \in Todo' => IsVisited(c)' /\ \E ph \in {"parse", "write", "finish"} : Stays(ph)
    <2>1. TypeInv /\ NamesInv /\ WatchInv /\ IsVisited(c) /\ Spares(c)
      BY <1>2, <1>3, <1>16
    <2>2. call \in InCall /\ call.todo # << >> /\ c \in Client
      BY <1>2
    <2> QED BY <1>16, <2>1, <2>2, WatchKept
  <1>19. c \notin Todo'
    <2>1. c \notin ToSet(Tail(call.todo))
      <3>1. IsSet(call.todo) /\ c = Head(call.todo)
        BY <1>2, <1>3 DEF NamesInv, IsVisited
      <3> QED BY <1>2, <3>1, HeadTailSet
    <2> QED BY <1>5, <2>1 DEF GoesToNext, Todo
  <1>20. NamesInv'
    <2>1. Waiting' = Waiting /\ IsSet(backlog)' /\ Waiting \subseteq Client
          /\ ToSet(conns) \subseteq Client /\ Todo \subseteq Client
      BY <1>1, <1>2, <1>3, ToSetOK DEF Waiting, NamesInv, IsSet, TypeInv
    <2>2. \A d \in Waiting' : ~Open(d)' /\ client'[d] # "off"
      BY <1>3, <1>9, <1>11, <2>1 DEF NamesInv, Open
    <2>3. \A d \in Client : client'[d] = "off" => ~Open(d)'
      BY <1>3, <1>8, <1>9, <1>11 DEF NamesInv, Open
    <2>4. \A d \in ToSet(conns)' \cup Todo' : Open(d)'
      BY <1>3, <1>7, <1>9, <1>17, <1>19, <2>1 DEF NamesInv, Open
    <2>5. \A i \in DOMAIN queue' : queue'[i].of # "freed" => conn'[queue'[i].of].st # "none"
      <3> SUFFICES ASSUME NEW i \in DOMAIN queue, queue'[i].of # "freed", NEW d, d = queue'[i].of
                   PROVE  conn'[d].st # "none"
        BY <1>10
      <3>1. queue'[i] = queue[i] /\ d # c
        BY <1>10
      <3>2. d \in Client /\ conn[d].st # "none"
        BY <1>2, <1>3, <3>1, EventOK DEF NamesInv, Open
      <3> QED BY <1>9, <3>1, <3>2
    <2> QED BY <1>7, <1>17, <2>1, <2>2, <2>3, <2>4, <2>5 DEF NamesInv, Open
  <1> QED BY <1>1, <1>13, <1>14, <1>15, <1>17, <1>20 DEF ControlInv, Running

\* Between two calls of httpd no connection is visited.
LEMMA AwakeFacts ==
    ASSUME ControlInv, Awake
    PROVE  /\ run = "up" /\ call = NoCall /\ TypeInv /\ NamesInv /\ WatchInv
              /\ Todo = {} /\ \A c \in Client : Calm(c)
           /\ \A d : ~IsVisited(d)
           /\ Waiting \subseteq Client /\ ToSet(conns) \subseteq Client
           /\ backlog \in Seq(Client) /\ conns \in Seq(Client)
  <1>1. run = "up" /\ call = NoCall
    BY DEF Awake
  <1>2. TypeInv /\ NamesInv /\ WatchInv
    BY <1>1 DEF ControlInv, Running
  <1>3. Todo = {} /\ \A d : ~IsVisited(d)
    BY <1>1 DEF Todo, IsVisited
  <1>4. \A c \in Client : Calm(c)
    BY <1>2, <1>3 DEF WatchInv
  <1>5. /\ Waiting \subseteq Client /\ ToSet(conns) \subseteq Client
        /\ backlog \in Seq(Client) /\ conns \in Seq(Client)
    BY <1>2, ToSetOK DEF TypeInv, Waiting
  <1> QED BY <1>1, <1>2, <1>3, <1>4, <1>5

\* A list with one more element at its front
LEMMA PrependSet ==
    ASSUME NEW S, NEW s \in Seq(S), NEW x \in S
    PROVE  /\ << x >> \o s \in Seq(S) /\ << x >> \o s # << >>
           /\ ToSet(<< x >> \o s) = ToSet(s) \cup {x}
           /\ IsSet(s) /\ x \notin ToSet(s) => IsSet(<< x >> \o s)
  <1> DEFINE p == << x >> \o s
  <1>1. Len(s) \in Nat /\ DOMAIN s = 1 .. Len(s)
    BY LenProperties
  <1>2. << x >> \in Seq(S) /\ Len(<< x >>) = 1 /\ << x >>[1] = x
    OBVIOUS
  <1>3. /\ p \in Seq(S) /\ Len(p) = 1 + Len(s)
        /\ \A i \in 1 .. 1 + Len(s) : p[i] = IF i <= 1 THEN << x >>[i] ELSE s[i - 1]
    BY <1>2, ConcatProperties
  <1>4. DOMAIN p = 1 .. 1 + Len(s)
    BY <1>3, LenProperties
  <1> HIDE DEF p
  <1>5. p[1] = x /\ \A i \in 1 .. Len(s) : p[i + 1] = s[i]
    BY <1>1, <1>2, <1>3
  <1>6. \A i \in DOMAIN p : i = 1 \/ (i - 1 \in DOMAIN s /\ (i - 1) + 1 = i)
    BY <1>1, <1>4
  <1>7. 1 \in DOMAIN p /\ \A i \in DOMAIN s : i + 1 \in DOMAIN p
    BY <1>1, <1>4
  <1>8. ToSet(p) = ToSet(s) \cup {x}
    <2>1. ASSUME NEW y \in ToSet(p) PROVE y \in ToSet(s) \cup {x}
      <3>1. PICK i \in DOMAIN p : p[i] = y
        BY DEF ToSet
      <3>2. CASE i = 1
        BY <1>5, <3>1, <3>2
      <3>3. CASE i # 1
        <4>1. i - 1 \in DOMAIN s /\ p[i] = s[i - 1]
          BY <1>1, <1>5, <1>6, <3>3
        <4> QED BY <3>1, <4>1 DEF ToSet
      <3> QED BY <3>2, <3>3
    <2>2. ASSUME NEW y \in ToSet(s) PROVE y \in ToSet(p)
      <3>1. PICK i \in DOMAIN s : s[i] = y
        BY DEF ToSet
      <3>2. i + 1 \in DOMAIN p /\ p[i + 1] = y
        BY <1>1, <1>5, <1>7, <3>1
      <3> QED BY <3>2 DEF ToSet
    <2>3. x \in ToSet(p)
      BY <1>5, <1>7 DEF ToSet
    <2> QED BY <2>1, <2>2, <2>3
  <1>9. ASSUME IsSet(s), x \notin ToSet(s) PROVE IsSet(p)
    <2> SUFFICES ASSUME NEW i \in DOMAIN p, NEW j \in DOMAIN p, p[i] = p[j] PROVE i = j
      BY DEF IsSet
    <2>1. \A k \in DOMAIN p : k # 1 => k - 1 \in DOMAIN s /\ p[k] = s[k - 1] /\ p[k] # x
      BY <1>1, <1>5, <1>6, <1>9 DEF ToSet
    <2>2. CASE i = 1 \/ j = 1
      BY <1>5, <2>1, <2>2
    <2>3. CASE i # 1 /\ j # 1
      <3>1. i - 1 = j - 1
        BY <1>9, <2>1, <2>3 DEF IsSet
      <3> QED BY <1>1, <1>4, <3>1
    <2> QED BY <2>2, <2>3
  <1>10. p # << >>
    BY <1>7
  <1> QED BY <1>3, <1>8, <1>9, <1>10 DEF p

\* A call of httpd starts: all it takes for what select() said to stand.
LEMMA CallOK ==
    ASSUME NEW cs \in Seq(Client), NEW r \in SUBSET Client, NEW w \in SUBSET Client,
           call' = Call(cs, r, w), conns' = cs, IsSet(cs), queue' = queue, queue \in Seq(Event),
           \A c \in Client : Calm(c)' \/ (conn'[c].st = "CLOSE" /\ c \in rset' /\ c \notin wset'
                                             /\ c \notin r \cup w /\ c \in ToSet(cs)),
           \A c \in Client : /\ c \in r => c \in rset' /\ inbox'[c] # << >>
                             /\ c \in w => c \in wset'
    PROVE  /\ WatchInv' /\ IsSet(call.todo)' /\ CallTyped /\ Todo' = ToSet(cs)
           /\ call'.r = {} \/ call'.r = r
  <1> DEFINE new == [phase |-> "io", todo |-> cs, r |-> r, w |-> w, ret |-> 0]
  <1>1. new \in InCall /\ new # NoCall
    BY DEF InCall, NoCall, Phases
  <1>2. Len(queue) \in Nat
    BY LenProperties
  <1>3. CASE cs = << >>
    <2>1. call' = NoCall
      BY <1>3 DEF Call
    <2>2. ToSet(cs) = {} /\ Todo' = {} /\ call'.r = {}
      BY <1>3, <2>1 DEF ToSet, Todo, NoCall
    <2>3. IsSet(call.todo)' /\ \A d : ~IsVisited(d)'
      BY <2>1 DEF IsSet, IsVisited, NoCall
    <2> QED BY <2>1, <2>2, <2>3 DEF WatchInv, Unread, CallTyped
  <1>4. CASE cs # << >>
    <2>1. call' = new
      BY <1>4 DEF Call
    <2>2. /\ call' # NoCall /\ call' \in InCall /\ call'.phase = "io" /\ call'.todo = cs
          /\ call'.r = r /\ call'.w = w /\ call'.ret = 0
      BY <1>1, <2>1
    <2>3. Todo' = ToSet(cs) /\ IsSet(call.todo)' /\ CallTyped
      BY <1>2, <1>4, <2>2 DEF Todo, IsSet, CallTyped
    <2>4. \A d : IsVisited(d)' => d \in Todo'
      BY <1>4, <2>2, <2>3, HeadTailSet DEF IsVisited
    <2>5. ASSUME NEW c \in Client
          PROVE  /\ Calm(c)' \/ (c \in Todo' /\ Refused(c)')
                 /\ Visited(c, "io")' = (Calm(c)' \/ Refused(c)')
      <3>1. Visited(c, "io")' = (Calm(c)' \/ Refused(c)')
        BY DEF Visited
      <3> QED BY <2>2, <2>3, <3>1 DEF Refused
    <2>6. WatchInv'
      BY <2>2, <2>5 DEF WatchInv, Unread
    <2> QED BY <2>2, <2>3, <2>6
  <1> QED BY <1>3, <1>4

\* A connection in a new state, and the others
LEMMA BecomesOK ==
    ASSUME TypeInv, NEW c \in Client
    PROVE  \A n \in Request :
              /\ [conn EXCEPT ![c] = n] \in [Client -> Request]
              /\ [conn EXCEPT ![c] = n][c] = n
              /\ \A d \in Client \ {c} : [conn EXCEPT ![c] = n][d] = conn[d]
  BY DEF TypeInv

\* A connection is accepted, or refused, and then all are visited.
LEMMA RoundStep ==
    ASSUME ControlInv, Round
    PROVE  ControlInv'
  <1>1. /\ Awake /\ call' = Call(conns', Readable, wset) /\ Untaken = {}
        /\ UNCHANGED << threaded, access, client, inbox, wset, queue, timer, run >>
    BY DEF Round
  <1>2. /\ run = "up" /\ call = NoCall /\ TypeInv /\ NamesInv /\ WatchInv
        /\ \A c \in Client : Calm(c)
        /\ Waiting \subseteq Client /\ ToSet(conns) \subseteq Client
        /\ backlog \in Seq(Client) /\ conns \in Seq(Client)
    BY <1>1, AwakeFacts
  <1>3. /\ Readable \in SUBSET Client /\ wset \in SUBSET Client /\ queue \in Seq(Event)
        /\ Readable \subseteq rset /\ \A c \in Readable : inbox[c] # << >>
    BY <1>2 DEF TypeInv, Readable
  <1>6. CASE backlog = << >>
    <2>1. UNCHANGED << backlog, conns, conn, rset >>
      BY <1>6 DEF Round
    <2>2. \A c \in Client : Calm(c)'
      BY <1>1, <1>2, <2>1 DEF Calm, Open
    <2>3. IsSet(conns) /\ conns' \in Seq(Client) /\ IsSet(conns')
      BY <1>2, <2>1 DEF NamesInv
    <2>4. /\ WatchInv' /\ IsSet(call.todo)' /\ CallTyped /\ Todo' = ToSet(conns)
      <3> DEFINE cs == conns
      <3>1. /\ cs \in Seq(Client) /\ call' = Call(cs, Readable, wset) /\ conns' = cs /\ IsSet(cs)
            /\ queue' = queue
        BY <1>1, <1>2, <2>1, <2>3
      <3>2. \A c \in Client : (c \in Readable => c \in rset' /\ inbox'[c] # << >>)
                                 /\ (c \in wset => c \in wset')
        BY <1>1, <1>3, <2>1
      <3> HIDE DEF cs
      <3>3. WatchInv' /\ IsSet(call.todo)' /\ CallTyped /\ Todo' = ToSet(cs)
        BY <1>3, <2>2, <3>1, <3>2, CallOK
      <3> QED BY <3>3 DEF cs
    <2>5. TypeInv'
      BY <1>1, <1>2, <2>1, <2>4 DEF TypeInv, CallTyped
    <2>6. NamesInv'
      BY <1>1, <1>2, <2>1, <2>4 DEF NamesInv, Waiting, Open, IsSet
    <2>7. HostInv'
      <3>1. \A c \in Client : HostAccess(c)' = HostAccess(c)
        BY <1>1, AccessKept
      <3> QED BY <1>1, <2>1, <3>1 DEF ControlInv, HostInv, Open, Waiting
    <2>8. OnceInv'
      BY <2>1 DEF ControlInv, OnceInv
    <2> QED BY <1>1, <2>4, <2>5, <2>6, <2>7, <2>8 DEF ControlInv, Running
  <1>7. CASE backlog # << >>
    <2> DEFINE h == Head(backlog)
               n == [NewRequest EXCEPT !.st = IF HostAccess(h) THEN @ ELSE "CLOSE"]
    <2>1. /\ conn' = [conn EXCEPT ![h] = n] /\ conns' = << h >> \o conns
          /\ rset' = rset \cup {h} /\ backlog' = Tail(backlog)
      BY <1>7 DEF Round, Accept
    <2>2. n \in Request /\ ~n.whole /\ n.st = IF HostAccess(h) THEN "READ_HEADER" ELSE "CLOSE"
      <3>1. CASE HostAccess(h)
        <4>1. n = [NewRequest EXCEPT !.st = "READ_HEADER"]
          BY <3>1, ClosedOK
        <4>2. LET m == [NewRequest EXCEPT !.st = "READ_HEADER"]
              IN  m \in Request /\ m.st = "READ_HEADER" /\ ~m.whole
          BY ClosedOK DEF Request, States
        <4> QED BY <3>1, <4>1, <4>2
      <3>2. CASE ~HostAccess(h)
        <4>1. n = [NewRequest EXCEPT !.st = "CLOSE"]
          BY <3>2
        <4> QED BY <3>2, <4>1, ClosedOK
      <3> QED BY <3>1, <3>2
    <2> HIDE DEF n
    <2>3. /\ h \in Client /\ h \in Waiting /\ Tail(backlog) \in Seq(Client)
          /\ IsSet(Tail(backlog)) /\ ToSet(Tail(backlog)) = Waiting \ {h}
      BY <1>2, <1>7, HeadTailSet DEF NamesInv, Waiting
    <2> HIDE DEF h
    <2>4. /\ conn' \in [Client -> Request] /\ conn'[h] = n
          /\ \A d \in Client \ {h} : conn'[d] = conn[d]
      BY <1>2, <2>1, <2>2, <2>3, BecomesOK
    <2>5. ~Open(h) /\ client[h] # "off" /\ h \notin ToSet(conns) /\ h \notin wset /\ h \notin rset
      <3>1. ~Open(h) /\ client[h] # "off" /\ h \notin ToSet(conns)
        BY <1>2, <2>3 DEF NamesInv
      <3> QED BY <1>2, <2>3, <3>1 DEF Calm, Open
    <2>6. /\ conns' \in Seq(Client) /\ IsSet(conns') /\ ToSet(conns') = ToSet(conns) \cup {h}
      <3>1. IsSet(conns)
        BY <1>2 DEF NamesInv
      <3> QED BY <1>2, <2>1, <2>3, <2>5, <3>1, PrependSet
    <2>7. \A c \in Client : Calm(c)' \/ (conn'[c].st = "CLOSE" /\ c \in rset' /\ c \notin wset'
                                 /\ c \notin Readable \cup wset /\ c \in ToSet(conns'))
      <3> SUFFICES ASSUME NEW c \in Client
                   PROVE  Calm(c)' \/ (conn'[c].st = "CLOSE" /\ c \in rset' /\ c \notin wset'
                                 /\ c \notin Readable \cup wset /\ c \in ToSet(conns'))
        OBVIOUS
      <3>1. CASE c # h
        BY <1>1, <1>2, <2>1, <2>4, <3>1 DEF Calm, Open
      <3>2. CASE c = h /\ HostAccess(h)
        BY <1>1, <2>1, <2>2, <2>4, <2>5, <3>2 DEF Calm, Open
      <3>3. CASE c = h /\ ~HostAccess(h)
        BY <1>1, <1>3, <2>1, <2>2, <2>4, <2>5, <2>6, <3>3
      <3> QED BY <3>1, <3>2, <3>3
    <2>8. /\ WatchInv' /\ IsSet(call.todo)' /\ CallTyped /\ Todo' = ToSet(conns')
      <3>1. PICK cs : cs = conns'
        OBVIOUS
      <3>2. /\ cs \in Seq(Client) /\ call' = Call(cs, Readable, wset) /\ conns' = cs /\ IsSet(cs)
            /\ queue' = queue
        BY <1>1, <2>6, <3>1
      <3>3. \A c \in Client : (c \in Readable => c \in rset' /\ inbox'[c] # << >>)
                                 /\ (c \in wset => c \in wset')
        BY <1>1, <1>3, <2>1
      <3>4. \A c \in Client : Calm(c)' \/ (conn'[c].st = "CLOSE" /\ c \in rset' /\ c \notin wset'
                                 /\ c \notin Readable \cup wset /\ c \in ToSet(cs))
        BY <2>7, <3>1
      <3>5. WatchInv' /\ IsSet(call.todo)' /\ CallTyped /\ Todo' = ToSet(cs)
        BY <1>3, <3>2, <3>3, <3>4, CallOK
      <3> QED BY <3>1, <3>5
    <2>9. TypeInv'
      BY <1>1, <1>2, <2>1, <2>3, <2>4, <2>6, <2>8 DEF TypeInv, CallTyped
    <2>10. NamesInv'
      <3>1. IsSet(backlog)' /\ Waiting' = Waiting \ {h} /\ IsSet(conns)'
        BY <2>1, <2>3, <2>6 DEF Waiting, IsSet
      <3>2. \A d \in Waiting' : ~Open(d)' /\ client'[d] # "off"
        BY <1>1, <1>2, <2>4, <3>1 DEF NamesInv, Open
      <3>3. \A d \in Client : client'[d] = "off" => ~Open(d)'
        BY <1>1, <1>2, <2>4, <2>5 DEF NamesInv, Open
      <3>4. \A d \in ToSet(conns)' \cup Todo' : Open(d)'
        BY <1>2, <2>2, <2>4, <2>6, <2>8 DEF NamesInv, Open
      <3>5. \A i \in DOMAIN queue' : queue'[i].of # "freed" => conn'[queue'[i].of].st # "none"
        <4> SUFFICES ASSUME NEW i \in DOMAIN queue, queue[i].of # "freed", NEW d, d = queue[i].of
                     PROVE  conn'[d].st # "none"
          BY <1>1
        <4>1. d \in Client /\ conn[d].st # "none"
          BY <1>2, EventOK DEF NamesInv, Open
        <4> QED BY <2>2, <2>4, <4>1
      <3> QED BY <2>8, <3>1, <3>2, <3>3, <3>4, <3>5 DEF NamesInv, Open
    <2>11. HostInv'
      <3> SUFFICES ASSUME NEW d \in Client
                   PROVE  /\ Open(d)' \/ d \in Waiting' => UseIPv6 \/ AddressOf[d] \in IPv4
                          /\ conn'[d].st \notin {"none", "CLOSE"} => HostAccess(d)'
        BY DEF HostInv
      <3>1. /\ Open(d) \/ d \in Waiting => UseIPv6 \/ AddressOf[d] \in IPv4
            /\ conn[d].st \notin {"none", "CLOSE"} => HostAccess(d)
        BY DEF ControlInv, HostInv
      <3>2. HostAccess(d)' = HostAccess(d) /\ Waiting' \subseteq Waiting
        BY <1>1, <2>1, <2>3, AccessKept DEF Waiting
      <3>3. CASE d = h
        BY <2>2, <2>3, <2>4, <3>1, <3>2, <3>3
      <3>4. CASE d # h
        BY <2>4, <3>1, <3>2, <3>4 DEF Open
      <3> QED BY <3>3, <3>4
    <2>12. OnceInv'
      BY <2>2, <2>4 DEF ControlInv, OnceInv, OnceOf
    <2> QED BY <1>1, <2>8, <2>9, <2>10, <2>11, <2>12 DEF ControlInv, Running
  <1> QED BY <1>6, <1>7

\* The call without descriptors
LEMMA TimerRoundStep ==
    ASSUME ControlInv, TimerRound
    PROVE  ControlInv'
  <1>1. /\ Awake /\ call' = Call(conns, {}, {}) /\ timer' = FALSE
        /\ UNCHANGED << threaded, access, client, inbox, backlog, conns, conn, rset, wset, queue,
                        run >>
    BY DEF TimerRound
  <1>2. /\ run = "up" /\ call = NoCall /\ TypeInv /\ NamesInv /\ WatchInv
        /\ \A c \in Client : Calm(c)
        /\ conns \in Seq(Client)
    BY <1>1, AwakeFacts
  <1>3. \A c \in Client : Calm(c)'
    BY <1>1, <1>2 DEF Calm, Open
  <1>4. /\ WatchInv' /\ IsSet(call.todo)' /\ CallTyped /\ Todo' = ToSet(conns) /\ call'.r = {}
    <2> DEFINE cs == conns
               none == {}
    <2>1. /\ cs \in Seq(Client) /\ call' = Call(cs, none, none) /\ conns' = cs /\ IsSet(cs)
          /\ queue' = queue /\ queue \in Seq(Event) /\ none \in SUBSET Client
          /\ \A c \in Client : c \notin none
      BY <1>1, <1>2 DEF TypeInv, NamesInv
    <2>2. none = {}
      OBVIOUS
    <2> HIDE DEF cs, none
    <2>3. WatchInv' /\ IsSet(call.todo)' /\ CallTyped /\ Todo' = ToSet(cs)
          /\ (call'.r = {} \/ call'.r = none)
      BY <1>3, <2>1, CallOK
    <2> QED BY <2>2, <2>3 DEF cs
  <1>5. TypeInv'
    BY <1>1, <1>2, <1>4 DEF TypeInv, CallTyped
  <1>6. NamesInv'
    BY <1>1, <1>2, <1>4 DEF NamesInv, Waiting, Open, IsSet
  <1>7. HostInv'
    <2>1. \A c \in Client : HostAccess(c)' = HostAccess(c)
      BY <1>1, AccessKept
    <2> QED BY <1>1, <2>1 DEF ControlInv, HostInv, Open, Waiting
  <1>8. OnceInv'
    BY <1>1 DEF ControlInv, OnceInv
  <1> QED BY <1>1, <1>4, <1>5, <1>6, <1>7, <1>8 DEF ControlInv, Running

\* The events that are left when one was answered: where each was before, and
\* that those of the same object dangle.
LEMMA AnswerQueue ==
    ASSUME TypeInv, NEW i \in DOMAIN queue, Answer(i)
    PROVE  /\ queue' \in Seq(Event)
           /\ \E at \in [DOMAIN queue' -> DOMAIN queue \ {i}] :
                 /\ \A j, k \in DOMAIN queue' : at[j] = at[k] => j = k
                 /\ \A j \in DOMAIN queue' :
                       \/ queue'[j] = queue[at[j]]
                       \/ /\ queue'[j].of = "freed" /\ queue[at[j]].obj # 0
                          /\ queue'[j].obj = queue[at[j]].obj /\ queue'[j].by = queue[at[j]].by
                          /\ queue'[j].post = queue[at[j]].post
                          /\ queue'[j].taken = queue[at[j]].taken
  <1> DEFINE q == RemoveAt(queue, i)
             at(j) == IF j < i THEN j ELSE j + 1
  <1>4. /\ q \in Seq(Event)
        /\ \A j \in DOMAIN q : at(j) \in DOMAIN queue \ {i} /\ q[j] = queue[at(j)]
    BY RemoveOK DEF TypeInv
  <1>5. \A j, k \in DOMAIN q : at(j) = at(k) => j = k
    <2>1. /\ DOMAIN q = 1 .. Len(q) /\ Len(q) \in Nat
          /\ DOMAIN queue = 1 .. Len(queue) /\ Len(queue) \in Nat
      BY <1>4, LenProperties DEF TypeInv
    <2> QED BY <2>1
  <1> HIDE DEF at
  <1>6. queue' = [j \in DOMAIN q |->
                    IF q[j].obj # 0 /\ q[j].obj = queue[i].obj
                    THEN [q[j] EXCEPT !.of = "freed"] ELSE q[j]]
    BY DEF Answer
  <1> HIDE DEF q
  <1>7. /\ queue' \in Seq(Event) /\ DOMAIN queue' = DOMAIN q
        /\ \A j \in DOMAIN q :
              \/ queue'[j] = queue[at(j)]
              \/ /\ queue'[j].of = "freed" /\ queue[at(j)].obj # 0
                 /\ queue'[j].obj = queue[at(j)].obj /\ queue'[j].by = queue[at(j)].by
                 /\ queue'[j].post = queue[at(j)].post /\ queue'[j].taken = queue[at(j)].taken
    <2>1. /\ DOMAIN q = 1 .. Len(q) /\ Len(q) \in Nat
          /\ \A j \in DOMAIN q : q[j] \in Event
      BY <1>4, LenProperties, ElementOfSeq
    <2>2. \A j \in DOMAIN q :
             LET e == [q[j] EXCEPT !.of = "freed"]
             IN  /\ e \in Event /\ e.of = "freed" /\ e.post = q[j].post /\ e.taken = q[j].taken
                 /\ e.obj = q[j].obj /\ e.by = q[j].by
      BY <2>1 DEF Event
    <2>3. queue' \in [1 .. Len(q) -> Event]
      BY <1>6, <2>1, <2>2
    <2>4. queue' \in Seq(Event)
      BY <2>1, <2>3, SeqDef
    <2> QED BY <1>4, <1>6, <2>1, <2>2, <2>4
  <1> DEFINE f == [j \in DOMAIN queue' |-> at(j)]
  <1>8. f \in [DOMAIN queue' -> DOMAIN queue \ {i}] /\ \A j \in DOMAIN queue' : f[j] = at(j)
    BY <1>4, <1>7
  <1> HIDE DEF f
  <1> QED BY <1>5, <1>7, <1>8

\* The request is answered, and the event and what is of its object are gone.
LEMMA AnswerStep ==
    ASSUME ControlInv, Awake, NEW i \in DOMAIN queue, Answer(i)
    PROVE  ControlInv'
  <1>1. UNCHANGED << threaded, access, client, inbox, backlog, conns, call, timer >>
    BY DEF Answer
  <1>2. /\ run = "up" /\ call = NoCall /\ TypeInv /\ NamesInv /\ WatchInv
        /\ Todo = {} /\ \A c \in Client : Calm(c)
        /\ Waiting \subseteq Client /\ ToSet(conns) \subseteq Client
    BY AwakeFacts
  <1>3. call' = NoCall /\ Todo' = {} /\ IsSet(call.todo)' /\ \A d : ~IsVisited(d)'
    BY <1>1, <1>2 DEF Todo, IsVisited, IsSet, NoCall
  <1>4. queue' \in Seq(Event)
    BY <1>2, AnswerQueue
  <1>5. PICK at \in [DOMAIN queue' -> DOMAIN queue \ {i}] : \A j \in DOMAIN queue' :
            queue'[j] = queue[at[j]] \/ queue'[j].of = "freed"
    BY <1>2, AnswerQueue
  <1>8. CASE queue[i].of = "freed"
    <2>1. run' = "undefined" /\ UNCHANGED << conn, rset, wset >>
      BY <1>8 DEF Answer, NoFds
    <2>2. TypeInv'
      BY <1>1, <1>2, <1>3, <1>4, <2>1 DEF TypeInv
    <2>3. HostInv'
      <3>1. \A c \in Client : HostAccess(c)' = HostAccess(c)
        BY <1>1, AccessKept
      <3> QED BY <1>1, <2>1, <3>1 DEF ControlInv, HostInv, Open, Waiting
    <2>4. OnceInv'
      BY <2>1 DEF ControlInv, OnceInv
    <2> QED BY <2>1, <2>2, <2>3, <2>4 DEF ControlInv
  <1>9. CASE queue[i].of # "freed"
    <2> DEFINE c == queue[i].of
               n == MkHeader(conn[c])
    <2>1. c \in Client /\ Open(c)
      BY <1>2, <1>9, EventOK DEF NamesInv
    <2>2. /\ conn' = [conn EXCEPT ![c] = n] /\ run' = run
          /\ rset' = rset \ {c} /\ wset' = wset \cup {c}
      BY <1>9 DEF Answer, Becomes, ToWriting
    <2> HIDE DEF c
    <2>3. /\ n \in Request /\ n.st = "WRITE_HEADER" /\ n.whole = conn[c].whole
          /\ n.req = conn[c].req /\ n.made = conn[c].made
      <3>1. conn[c] \in Request
        BY <1>2, <2>1 DEF TypeInv
      <3> QED BY <3>1 DEF MkHeader, Request, States
    <2> HIDE DEF n
    <2>4. /\ conn' \in [Client -> Request] /\ conn'[c] = n
          /\ \A d \in Client \ {c} : conn'[d] = conn[d]
      BY <1>2, <2>1, <2>2, <2>3, BecomesOK
    <2>5. TypeInv'
      BY <1>1, <1>2, <1>3, <1>4, <2>1, <2>2, <2>4 DEF TypeInv
    <2>6. \A d \in Client : Open(d) <=> Open(d)'
      BY <2>1, <2>3, <2>4 DEF Open
    <2>7. HostInv'
      <3> SUFFICES ASSUME NEW d \in Client
                   PROVE  /\ Open(d)' \/ d \in Waiting' => UseIPv6 \/ AddressOf[d] \in IPv4
                          /\ conn'[d].st \notin {"none", "CLOSE"} => HostAccess(d)'
        BY DEF HostInv
      <3>1. /\ Open(d) \/ d \in Waiting => UseIPv6 \/ AddressOf[d] \in IPv4
            /\ conn[d].st \notin {"none", "CLOSE"} => HostAccess(d)
        BY DEF ControlInv, HostInv
      <3>2. HostAccess(d)' = HostAccess(d) /\ Waiting' = Waiting
        BY <1>1, AccessKept DEF Waiting
      <3>3. conn[c].st \notin {"none", "CLOSE"}
        BY <1>2, <2>1 DEF Calm, Open
      <3> QED BY <2>4, <2>6, <3>1, <3>2, <3>3
    <2>8. OnceInv'
      <3>1. \A d \in Client : OnceOf(conn'[d])
        BY <2>1, <2>3, <2>4 DEF ControlInv, OnceInv, OnceOf
      <3> QED BY <3>1 DEF OnceInv, OnceOf
    <2>9. NamesInv'
      <3>1. IsSet(backlog)' /\ IsSet(conns)' /\ Waiting' = Waiting /\ ToSet(conns)' = ToSet(conns)
        BY <1>1, <1>2 DEF NamesInv, IsSet, Waiting
      <3>2. \A d \in Waiting' : ~Open(d)' /\ client'[d] # "off"
        BY <1>1, <1>2, <2>6, <3>1 DEF NamesInv
      <3>3. \A d \in Client : client'[d] = "off" => ~Open(d)'
        BY <1>1, <1>2, <2>6 DEF NamesInv
      <3>4. \A d \in ToSet(conns)' \cup Todo' : Open(d)'
        BY <1>2, <1>3, <2>6, <3>1 DEF NamesInv
      <3>5. \A j \in DOMAIN queue' : queue'[j].of # "freed" => conn'[queue'[j].of].st # "none"
        <4> SUFFICES ASSUME NEW j \in DOMAIN queue', queue'[j].of # "freed", NEW d, d = queue'[j].of
                     PROVE  conn'[d].st # "none"
          OBVIOUS
        <4>1. queue'[j] = queue[at[j]] /\ at[j] \in DOMAIN queue
          BY <1>5
        <4>2. d \in Client /\ Open(d)
          BY <1>2, <4>1, EventOK DEF NamesInv
        <4> QED BY <2>6, <4>2 DEF Open
      <3> QED BY <1>3, <3>1, <3>2, <3>3, <3>4, <3>5 DEF NamesInv, Open
    <2>10. WatchInv'
      <3>1. \A d \in Client : Calm(d)'
        <4> SUFFICES ASSUME NEW d \in Client PROVE Calm(d)'
          OBVIOUS
        <4>1. CASE d = c
          BY <2>2, <2>3, <2>4, <4>1 DEF Calm, Open
        <4>2. CASE d # c
          BY <1>2, <2>2, <2>4, <4>2 DEF Calm, Open
        <4> QED BY <4>1, <4>2
      <3> QED BY <1>3, <3>1 DEF WatchInv, Unread
    <2> QED BY <1>1, <2>5, <2>7, <2>8, <2>9, <2>10 DEF ControlInv, Running
  <1> QED BY <1>8, <1>9

\* The single-threaded build handles the first event.
LEMMA HandleStep ==
    ASSUME ControlInv, Handle
    PROVE  ControlInv'
  <1>1. Awake /\ Answer(1) /\ Untaken # {}
    BY DEF Handle
  <1>2. Len(queue) \in Nat /\ DOMAIN queue = 1 .. Len(queue)
    BY LenProperties DEF ControlInv, TypeInv
  <1>3. 1 \in DOMAIN queue
    <2>1. PICK i : i \in DOMAIN queue
      BY <1>1 DEF Untaken
    <2> QED BY <1>2, <2>1
  <1> QED BY <1>1, <1>3, AnswerStep

\* Passing an event on leaves it whose it is.
LEMMA PassOnQueue ==
    ASSUME TypeInv, PassOn
    PROVE  /\ queue' \in Seq(Event) /\ DOMAIN queue' = DOMAIN queue
           /\ \A j \in DOMAIN queue : /\ queue'[j].of = queue[j].of /\ queue'[j].by = queue[j].by
                                     /\ queue'[j].obj = queue[j].obj
  <1>1. PICK i \in DOMAIN queue : queue' = [queue EXCEPT ![i].taken = TRUE]
    BY DEF PassOn, Untaken
  <1>2. /\ queue' \in Seq(Event) /\ DOMAIN queue' = DOMAIN queue
        /\ \A j \in DOMAIN queue : /\ queue'[j].of = queue[j].of /\ queue'[j].by = queue[j].by
                                  /\ queue'[j].obj = queue[j].obj
    <2>1. /\ DOMAIN queue = 1 .. Len(queue) /\ Len(queue) \in Nat
          /\ \A j \in DOMAIN queue : queue[j] \in Event
      BY LenProperties, ElementOfSeq DEF TypeInv
    <2> DEFINE e == [queue[i] EXCEPT !.taken = TRUE]
    <2>2. e \in Event /\ e.of = queue[i].of /\ e.by = queue[i].by /\ e.obj = queue[i].obj
      BY <2>1 DEF Event
    <2>3. queue' = [queue EXCEPT ![i] = e]
      BY <1>1
    <2> HIDE DEF e
    <2>6. queue \in [1 .. Len(queue) -> Event]
      BY <2>1 DEF TypeInv
    <2>4. /\ queue' \in [1 .. Len(queue) -> Event] /\ DOMAIN queue' = DOMAIN queue
          /\ queue'[i] = e /\ \A j \in DOMAIN queue : j # i => queue'[j] = queue[j]
      BY <2>1, <2>2, <2>3, <2>6
    <2>5. queue' \in Seq(Event)
      BY <2>1, <2>4, SeqDef
    <2> QED BY <2>2, <2>4, <2>5
  <1> QED BY <1>2

\* The threaded build passes an event on.
LEMMA PassOnStep ==
    ASSUME ControlInv, PassOn
    PROVE  ControlInv'
  <1>1. /\ Awake /\ threaded
        /\ UNCHANGED << threaded, access, client, inbox, backlog, conns, conn, rset, wset, call,
                        timer, run >>
    BY DEF PassOn
  <1>2. /\ run = "up" /\ call = NoCall /\ TypeInv /\ NamesInv /\ WatchInv
    BY <1>1, AwakeFacts
  <1>3. /\ queue' \in Seq(Event) /\ DOMAIN queue' = DOMAIN queue
        /\ \A j \in DOMAIN queue : queue'[j].of = queue[j].of
    BY <1>2, PassOnQueue
  <1>4. TypeInv'
    BY <1>1, <1>2, <1>3 DEF TypeInv
  <1>5. NamesInv'
    BY <1>1, <1>2, <1>3 DEF NamesInv, Waiting, Open, IsSet, Todo
  <1>6. WatchInv'
    BY <1>1, <1>2 DEF WatchInv, IsVisited, Unread, Todo, Calm, Refused, Open, Visited
  <1>7. HostInv'
    <2>1. \A c \in Client : HostAccess(c)' = HostAccess(c)
      BY <1>1, AccessKept
    <2> QED BY <1>1, <2>1 DEF ControlInv, HostInv, Open, Waiting
  <1>8. OnceInv'
    BY <1>1 DEF ControlInv, OnceInv
  <1> QED BY <1>1, <1>4, <1>5, <1>6, <1>7, <1>8 DEF ControlInv, Running

\* What the clients do is seen by the next call only.
LEMMA ConnectStep ==
    ASSUME ControlInv, NEW c \in Client, Connect(c)
    PROVE  ControlInv'
  <1>1. /\ Awake /\ client[c] = "off" /\ (UseIPv6 \/ AddressOf[c] \in IPv4)
        /\ client' = [client EXCEPT ![c] = "idle"] /\ backlog' = Append(backlog, c)
        /\ UNCHANGED << threaded, access, inbox, conns, conn, rset, wset, call, queue, timer, run >>
    BY DEF Connect
  <1>2. /\ run = "up" /\ call = NoCall /\ TypeInv /\ NamesInv /\ WatchInv
        /\ Waiting \subseteq Client /\ backlog \in Seq(Client)
    BY <1>1, AwakeFacts
  <1>3. c \notin Waiting /\ ~Open(c)
    BY <1>1, <1>2 DEF NamesInv
  <1>4. backlog' \in Seq(Client) /\ IsSet(backlog') /\ Waiting' = Waiting \cup {c}
    BY <1>1, <1>2, <1>3, AppendSet DEF NamesInv, Waiting
  <1>5. /\ client' \in Clients /\ client'[c] = "idle"
        /\ \A d \in Client \ {c} : client'[d] = client[d]
    BY <1>1, <1>2 DEF TypeInv, Clients
  <1>6. TypeInv'
    BY <1>1, <1>2, <1>4, <1>5 DEF TypeInv, Clients
  <1>7. NamesInv'
    <2>1. IsSet(backlog)' /\ IsSet(conns)' /\ IsSet(call.todo)'
      BY <1>1, <1>2, <1>4 DEF NamesInv, IsSet
    <2>2. \A d \in Waiting' : ~Open(d)' /\ client'[d] # "off"
      BY <1>1, <1>2, <1>3, <1>4, <1>5 DEF NamesInv, Open
    <2>3. \A d \in Client : client'[d] = "off" => ~Open(d)'
      BY <1>1, <1>2, <1>5 DEF NamesInv, Open
    <2>4. \A d \in ToSet(conns)' \cup Todo' : Open(d)'
      BY <1>1, <1>2 DEF NamesInv, Open, Todo
    <2>5. \A i \in DOMAIN queue' : queue'[i].of # "freed" => conn'[queue'[i].of].st # "none"
      BY <1>1, <1>2 DEF NamesInv, Open
    <2> QED BY <2>1, <2>2, <2>3, <2>4, <2>5 DEF NamesInv, Open
  <1>8. WatchInv'
    BY <1>1, <1>2 DEF WatchInv, IsVisited, Unread, Todo, Calm, Refused, Open, Visited
  <1>9. HostInv'
    <2>1. \A d \in Client : HostAccess(d)' = HostAccess(d)
      BY <1>1, AccessKept
    <2> QED BY <1>1, <1>4, <2>1 DEF ControlInv, HostInv, Open
  <1>10. OnceInv'
    BY <1>1 DEF ControlInv, OnceInv
  <1> QED BY <1>1, <1>6, <1>7, <1>8, <1>9, <1>10 DEF ControlInv, Running

\* Bytes that arrive
LEMMA OutsideStep ==
    ASSUME ControlInv, Awake, OutsideRest, client' \in Clients, inbox' \in [Client -> Seq(Bytes)],
           \A d \in Client : client'[d] = "off" <=> client[d] = "off"
    PROVE  ControlInv'
  <1>1. UNCHANGED << threaded, access, backlog, conns, conn, rset, wset, call, queue, timer, run >>
    BY DEF OutsideRest
  <1>2. /\ run = "up" /\ call = NoCall /\ TypeInv /\ NamesInv /\ WatchInv
        /\ Waiting \subseteq Client
    BY AwakeFacts
  <1>3. TypeInv'
    BY <1>1, <1>2 DEF TypeInv, Clients
  <1>4. NamesInv'
    <2>1. \A d \in Waiting' : ~Open(d)' /\ client'[d] # "off"
      BY <1>1, <1>2 DEF NamesInv, Open, Waiting
    <2>2. \A d \in Client : client'[d] = "off" => ~Open(d)'
      BY <1>1, <1>2 DEF NamesInv, Open
    <2> QED BY <1>1, <1>2, <2>1, <2>2 DEF NamesInv, Open, IsSet, Todo
  <1>5. WatchInv'
    BY <1>1, <1>2 DEF WatchInv, IsVisited, Unread, Todo, Calm, Refused, Open, Visited
  <1>6. HostInv'
    <2>1. \A d \in Client : HostAccess(d)' = HostAccess(d)
      BY <1>1, AccessKept
    <2> QED BY <1>1, <2>1 DEF ControlInv, HostInv, Open, Waiting
  <1>7. OnceInv'
    BY <1>1 DEF ControlInv, OnceInv
  <1> QED BY <1>1, <1>3, <1>4, <1>5, <1>6, <1>7 DEF ControlInv, Running

\* A client sends a request or a body, or gives up.
LEMMA ClientStep ==
    ASSUME ControlInv, NEW c \in Client,
           (\E r \in MayAsk[c] : Send(c, r)) \/ SendBody(c) \/ GiveUp(c)
    PROVE  ControlInv'
  <1>1. /\ Awake /\ OutsideRest /\ client[c] # "off"
        /\ \E st \in {"sending", "awaiting", "gone"} : client' = [client EXCEPT ![c] = st]
    BY DEF Send, SendBody, GiveUp
  <1>2. /\ client \in Clients /\ inbox \in [Client -> Seq(Bytes)] /\ inbox[c] \in Seq(Bytes)
    BY DEF ControlInv, TypeInv, Clients
  <1>3. \E b \in Bytes : inbox' = [inbox EXCEPT ![c] = Append(@, b)]
    <2>1. CASE \E r \in MayAsk[c] : Send(c, r)
      <3>1. PICK r \in MayAsk[c] : Send(c, r)
        BY <2>1
      <3>2. r \in Asked
        BY ControlAssumption DEF Asked
      <3>3. [part |-> "head", req |-> r] \in Bytes
        BY <3>2 DEF Bytes
      <3> QED BY <3>1, <3>3 DEF Send
    <2>2. CASE SendBody(c)
      <3>1. [part |-> "body", req |-> None] \in Bytes
        BY DEF Bytes
      <3> QED BY <2>2, <3>1 DEF SendBody
    <2>3. CASE GiveUp(c)
      <3>1. Eof \in Bytes
        BY DEF Bytes, Eof
      <3> QED BY <2>3, <3>1 DEF GiveUp
    <2> QED BY <2>1, <2>2, <2>3
  <1>4. PICK b \in Bytes : inbox' = [inbox EXCEPT ![c] = Append(@, b)]
    BY <1>3
  <1>5. Append(inbox[c], b) \in Seq(Bytes)
    BY <1>2, AppendProperties
  <1>6. inbox' \in [Client -> Seq(Bytes)]
    BY <1>2, <1>4, <1>5
  <1>7. client' \in Clients /\ \A d \in Client : client'[d] = "off" <=> client[d] = "off"
    BY <1>1, <1>2 DEF Clients
  <1> QED BY <1>1, <1>6, <1>7, OutsideStep

\* A timeout passes, but not for a connection that has an event.
LEMMA TickStep ==
    ASSUME ControlInv, NEW c \in Client, Tick(c)
    PROVE  ControlInv'
  <1>1. /\ Awake /\ Open(c) /\ timer' = TRUE
        /\ UNCHANGED << threaded, access, client, inbox, backlog, conns, rset, wset, call, queue,
                        run >>
        /\ \A i \in Untaken : queue[i].of # c
    BY DEF Tick
  <1>2. /\ run = "up" /\ call = NoCall /\ TypeInv /\ NamesInv /\ WatchInv
        /\ Todo = {} /\ \A d \in Client : Calm(d)
    BY <1>1, AwakeFacts
  <1> DEFINE n == [conn[c] EXCEPT !.late = TRUE]
  <1>3. conn' = [conn EXCEPT ![c] = n]
    BY DEF Tick, Becomes
  <1>4. /\ n \in Request /\ n.st = conn[c].st /\ n.whole = conn[c].whole
        /\ n.req = conn[c].req /\ n.made = conn[c].made
    <2>1. conn[c] \in Request
      BY <1>2 DEF TypeInv
    <2> QED BY <2>1 DEF Request
  <1> HIDE DEF n
  <1>5. /\ conn' \in [Client -> Request] /\ conn'[c] = n
        /\ \A d \in Client \ {c} : conn'[d] = conn[d]
    BY <1>2, <1>3, <1>4, BecomesOK
  <1>6. \A d \in Client : /\ conn'[d].st = conn[d].st /\ conn'[d].whole = conn[d].whole
                          /\ conn'[d].req = conn[d].req /\ conn'[d].made = conn[d].made
    BY <1>4, <1>5
  <1>7. TypeInv'
    BY <1>1, <1>2, <1>5 DEF TypeInv
  <1>8. NamesInv'
    <2>1. /\ IsSet(backlog)' /\ IsSet(conns)' /\ IsSet(call.todo)'
          /\ Waiting' = Waiting /\ Todo' = {} /\ ToSet(conns)' = ToSet(conns)
          /\ Waiting \subseteq Client /\ ToSet(conns) \subseteq Client
      BY <1>1, <1>2, AwakeFacts DEF NamesInv, IsSet, Waiting, Todo
    <2>2. \A d \in Waiting' : ~Open(d)' /\ client'[d] # "off"
      BY <1>1, <1>2, <1>6, <2>1 DEF NamesInv, Open
    <2>3. \A d \in Client : client'[d] = "off" => ~Open(d)'
      BY <1>1, <1>2, <1>6 DEF NamesInv, Open
    <2>4. \A d \in ToSet(conns)' \cup Todo' : Open(d)'
      BY <1>2, <1>6, <2>1 DEF NamesInv, Open
    <2>5. \A i \in DOMAIN queue' : queue'[i].of # "freed" => conn'[queue'[i].of].st # "none"
      <3> SUFFICES ASSUME NEW i \in DOMAIN queue, queue[i].of # "freed", NEW d, d = queue[i].of
                   PROVE  conn'[d].st # "none"
        BY <1>1
      <3>1. d \in Client /\ conn[d].st # "none"
        BY <1>2, EventOK DEF NamesInv, Open
      <3> QED BY <1>6, <3>1
    <2> QED BY <2>1, <2>2, <2>3, <2>4, <2>5 DEF NamesInv, Open
  <1>9. WatchInv'
    <2>1. \A d \in Client : Calm(d)'
      BY <1>1, <1>2, <1>6 DEF Calm, Open
    <2>2. Todo' = {} /\ \A d : ~IsVisited(d)'
      BY <1>1, <1>2 DEF Todo, IsVisited
    <2> QED BY <2>1, <2>2 DEF WatchInv, Unread
  <1>10. HostInv'
    <2>1. \A d \in Client : HostAccess(d)' = HostAccess(d)
      BY <1>1, AccessKept
    <2> QED BY <1>1, <1>6, <2>1 DEF ControlInv, HostInv, Open, Waiting
  <1>11. OnceInv'
    BY <1>6 DEF ControlInv, OnceInv, OnceOf
  <1> QED BY <1>1, <1>7, <1>8, <1>9, <1>10, <1>11 DEF ControlInv, Running

\* At the start there are no connections.
LEMMA InitInv ==
    Init => ControlInv
  <1> SUFFICES ASSUME Init PROVE ControlInv
    OBVIOUS
  <1> USE DEF Init
  <1>1. \A S : << >> \in Seq(S)
    BY EmptySeq
  <1>2. ToSet(<< >>) = {} /\ Todo = {} /\ \A d : ~IsVisited(d)
    BY DEF ToSet, Todo, IsVisited
  <1>3. TypeInv
    <2>1. conn \in [Client -> Request]
      BY ClosedOK
    <2>2. client \in Clients
      BY DEF Clients
    <2>3. inbox \in [Client -> Seq(Bytes)]
      BY <1>1
    <2>4. backlog \in Seq(Client) /\ conns \in Seq(Client) /\ queue \in Seq(Event)
      BY <1>1
    <2> QED BY <2>1, <2>2, <2>3, <2>4 DEF TypeInv, Clients
  <1>4. \A c \in Client : conn[c].st = "none" /\ ~conn[c].whole
    BY ClosedOK
  <1>5. HostInv /\ OnceInv
    BY <1>2, <1>4 DEF HostInv, OnceInv, OnceOf, Open, Waiting
  <1>6. NamesInv
    <2>1. IsSet(backlog) /\ IsSet(conns) /\ IsSet(call.todo)
      BY DEF IsSet, NoCall
    <2> QED BY <1>2, <1>4, <2>1 DEF NamesInv, Open, Waiting
  <1>7. WatchInv
    BY <1>2, <1>4 DEF WatchInv, Unread, Calm, Open
  <1> QED BY <1>3, <1>5, <1>6, <1>7 DEF ControlInv, Running

\* One step per action
LEMMA NextInv ==
    ControlInv /\ [Next]_vars => ControlInv'
  <1> SUFFICES ASSUME ControlInv, [Next]_vars PROVE ControlInv'
    OBVIOUS
  <1>1. CASE Round
    BY <1>1, RoundStep
  <1>2. CASE TimerRound
    BY <1>2, TimerRoundStep
  <1>3. ASSUME NEW c \in Client, Visit(c) PROVE ControlInv'
    <2>1. CASE Close(c)
      BY <2>1, CloseStep
    <2>2. CASE Reads(c) \/ Others(c) \/ ParseHeader(c) \/ ParseBody(c)
      BY <2>2, VisitStep
    <2> QED BY <1>3, <2>1, <2>2 DEF Visit, Reads, Others
  <1>4. CASE Handle
    BY <1>4, HandleStep
  <1>5. CASE PassOn
    BY <1>5, PassOnStep
  <1>6. CASE Responds
    <2>1. PICK i \in 1 .. MaxEvents : Respond(i)
      BY <1>6 DEF Responds
    <2>2. Awake /\ i \in DOMAIN queue /\ Answer(i)
      BY <2>1 DEF Respond
    <2> QED BY <2>2, AnswerStep
  <1>7. ASSUME NEW c \in Client,
               \/ Connect(c) \/ SendBody(c) \/ GiveUp(c)
               \/ \E r \in MayAsk[c] : Send(c, r)
               \/ Tick(c)
        PROVE  ControlInv'
    BY <1>7, ConnectStep, ClientStep, TickStep
  <1>8. CASE UNCHANGED vars
    <2>1. UNCHANGED << threaded, access, client, inbox, backlog, conns, conn, rset, wset, call,
                       queue, timer, run >>
      BY <1>8 DEF vars
    <2>2. TypeInv'
      BY <2>1 DEF ControlInv, TypeInv
    <2>3. HostInv' /\ OnceInv'
      <3>1. \A d \in Client : HostAccess(d)' = HostAccess(d)
        BY <2>1, AccessKept
      <3> QED BY <2>1, <3>1 DEF ControlInv, HostInv, OnceInv, Open, Waiting
    <2>4. NamesInv => NamesInv'
      BY <2>1 DEF NamesInv, IsSet, Waiting, Todo, Open
    <2>5. WatchInv => WatchInv'
      <3>1. Todo' = Todo /\ \A c : IsVisited(c)' <=> IsVisited(c)
        BY <2>1 DEF Todo, IsVisited
      <3>2. \A c : (Calm(c)' <=> Calm(c)) /\ (Refused(c)' <=> Refused(c))
        BY <2>1 DEF Calm, Refused, Open
      <3>3. \A c : Visited(c, call.phase)' <=> Visited(c, call.phase)
        BY <2>1, <3>2 DEF Visited, Open
      <3>4. \A c : Unread(c)' <=> Unread(c)
        BY <2>1, <3>1 DEF Unread
      <3> QED BY <2>1, <3>1, <3>2, <3>3, <3>4 DEF WatchInv
    <2> QED BY <2>1, <2>2, <2>3, <2>4, <2>5 DEF ControlInv, Running
  <1> QED BY <1>1, <1>2, <1>3, <1>4, <1>5, <1>6, <1>7, <1>8 DEF Next, Server

\* The invariant holds throughout.
LEMMA Invariance ==
    Spec => []ControlInv
  <1> QED BY InitInv, NextInv, PTL DEF Spec

-----------------------------------------------------------------------------
(* Whose the events are *)

\* An event that answers another request than the one it was made by is there
\* more than once, and its maker stands before the connection that has it.
HeldInv == \A i \in DOMAIN queue :
    queue[i].of \notin {queue[i].by, "freed"} =>
        queue[i].obj # 0 /\ Older(queue[i].of, queue[i].by)

\* The connections still to be visited are the last of the list; what made the
\* event in retEvent is the visited one or one before it.
Done == Len(conns) - Len(call.todo)
PlaceInv == call # NoCall =>
    /\ Done \in Nat
    /\ \A i \in DOMAIN call.todo : call.todo[i] = conns[Done + i]
    /\ call.ret # 0 =>
          \A j \in DOMAIN conns : conns[j] = queue[call.ret].by => j <= Done + 1

\* In the single-threaded build: the connection that made the event of a complete
\* POST waits in time, and any event that answers it is that one.  No event
\* answers a connection that is still to be read from.
Stands(r, e) ==
    /\ ~e.taken
    /\ e.post => /\ r[e.by].st = "PROCESS" /\ ~r[e.by].late
                 /\ e.obj = 0 => e.of = e.by
Alone == \A i, j \in DOMAIN queue : queue[i].post /\ queue[j].of = queue[i].by => j = i
Idle == \A c \in Todo \cap call.r :
    (IsVisited(c) => call.phase \in {"io", "parse"}) => \A i \in DOMAIN queue : queue[i].of # c
PostsInv == Alone /\ Idle /\ \A i \in DOMAIN queue : Stands(conn, queue[i])

EventsInv == run = "up" => HeldInv /\ PlaceInv /\ (~threaded => PostsInv)

\* Older depends on the list only.
LEMMA OlderKept ==
    ASSUME conns' = conns, NEW d, NEW c
    PROVE  Older(d, c)' <=> Older(d, c)
  BY DEF Older

\* Nothing that the events, the list, the connections and the call tell changes.
LEMMA EventsKept ==
    ASSUME EventsInv, UNCHANGED << threaded, conns, conn, call, queue, run >>
    PROVE  EventsInv'
  <1>1. HeldInv => HeldInv'
    BY OlderKept DEF HeldInv
  <1>2. PlaceInv => PlaceInv'
    BY DEF PlaceInv, Done
  <1>3. PostsInv => PostsInv'
    BY DEF PostsInv, Alone, Idle, Todo, IsVisited
  <1> QED BY <1>1, <1>2, <1>3 DEF EventsInv

\* Where the visited connection stands in the list
LEMMA VisitedPlace ==
    ASSUME ControlInv, EventsInv, NEW phase \in Phases, NEW c, Visiting(phase, c)
    PROVE  /\ Done \in Nat /\ Len(conns) \in Nat /\ DOMAIN conns = 1 .. Len(conns)
           /\ Len(call.todo) \in Nat \ {0} /\ DOMAIN call.todo = 1 .. Len(call.todo)
           /\ Done + 1 \in DOMAIN conns /\ conns[Done + 1] = c
           /\ \A j \in DOMAIN conns : conns[j] = c => j = Done + 1
           /\ DOMAIN Tail(call.todo) = 1 .. Len(call.todo) - 1
           /\ Len(Tail(call.todo)) = Len(call.todo) - 1
           /\ \A i \in DOMAIN Tail(call.todo) : Tail(call.todo)[i] = conns[Done + 1 + i]
           /\ HeldInv /\ PlaceInv /\ (~threaded => PostsInv)
  <1>1. /\ call # NoCall /\ call.todo # << >> /\ call.todo \in Seq(Client) /\ run = "up"
        /\ c = Head(call.todo)
    BY VisitingOK DEF ControlInv
  <1>2. /\ conns \in Seq(Client) /\ IsSet(conns) /\ HeldInv /\ PlaceInv /\ (~threaded => PostsInv)
    BY <1>1 DEF ControlInv, TypeInv, Running, NamesInv, EventsInv
  <1>3. /\ Len(call.todo) \in Nat \ {0} /\ DOMAIN call.todo = 1 .. Len(call.todo)
        /\ c = call.todo[1]
    BY <1>1, EmptySeq, LenProperties
  <1>4. Len(conns) \in Nat /\ DOMAIN conns = 1 .. Len(conns)
    BY <1>2, LenProperties
  <1>5. /\ Done \in Nat /\ Done + Len(call.todo) = Len(conns)
        /\ \A i \in 1 .. Len(call.todo) : call.todo[i] = conns[Done + i]
    BY <1>1, <1>2, <1>3, <1>4 DEF PlaceInv, Done
  <1>6. Done + 1 \in DOMAIN conns /\ conns[Done + 1] = c
    <2>1. 1 \in 1 .. Len(call.todo) /\ Done + 1 \in 1 .. Len(conns)
      BY <1>3, <1>4, <1>5
    <2>2. call.todo[1] = conns[Done + 1]
      BY <1>5, <2>1
    <2> QED BY <1>3, <1>4, <2>1, <2>2
  <1>7. \A j \in DOMAIN conns : conns[j] = c => j = Done + 1
    BY <1>2, <1>6 DEF IsSet
  <1>8. /\ Len(Tail(call.todo)) = Len(call.todo) - 1 /\ Tail(call.todo) \in Seq(Client)
        /\ \A i \in 1 .. Len(Tail(call.todo)) : Tail(call.todo)[i] = call.todo[i + 1]
    BY <1>1, HeadTailProperties
  <1>9. DOMAIN Tail(call.todo) = 1 .. Len(call.todo) - 1
    BY <1>8, LenProperties
  <1>10. ASSUME NEW i \in DOMAIN Tail(call.todo) PROVE Tail(call.todo)[i] = conns[Done + 1 + i]
    <2>1. i + 1 \in 1 .. Len(call.todo) /\ Done + 1 + i = Done + (i + 1)
      BY <1>3, <1>5, <1>9
    <2> QED BY <1>5, <1>8, <1>9, <2>1
  <1> QED BY <1>2, <1>3, <1>4, <1>5, <1>6, <1>7, <1>8, <1>9, <1>10

\* A new event, or one that is taken over, is by a connection that was visited.
LEMMA VisitHeld ==
    ASSUME ControlInv, EventsInv, NEW phase \in Phases, NEW c, Visiting(phase, c), Effect(c),
           Queues(c)
    PROVE  HeldInv' /\ (run' = "up" => PlaceInv')
  <1>1. /\ call \in InCall /\ call # NoCall /\ call.ret <= Len(queue) /\ call.ret \in Nat
        /\ queue \in Seq(Event) /\ Len(queue) \in Nat /\ DOMAIN queue = 1 .. Len(queue)
    BY VisitingOK, LenProperties DEF ControlInv, TypeInv, InCall
  <1>2. /\ Done \in Nat /\ Len(conns) \in Nat /\ Len(call.todo) \in Nat
        /\ \A j \in DOMAIN conns : conns[j] = c => j = Done + 1
        /\ DOMAIN conns = 1 .. Len(conns)
        /\ HeldInv /\ PlaceInv
    BY VisitedPlace
  <1>3. conns' = conns
    BY DEF Effect
  <1>4. Len(queue) + 1 # Len(queue) /\ 0 \notin DOMAIN queue
    <2>1. \A n \in Nat : n + 1 # n /\ 0 \notin 1 .. n
      OBVIOUS
    <2> QED BY <1>1, <2>1
  <1>5. ASSUME NEW e, e.of = c, e.by = queue[call.ret].by, call.ret \in DOMAIN queue, e.by # c
        PROVE  Older(e.of, e.by)
    <2>3. call.ret # 0
      BY <1>5, <1>4
    <2>4. \A j \in DOMAIN conns : conns[j] = e.by => j <= Done + 1
      BY <1>1, <1>2, <1>5, <2>3 DEF PlaceInv
    <2>5. conns[Done + 1] = c
      BY VisitedPlace
    <2>1. \A j \in DOMAIN conns : conns[j] = e.by => j <= Done + 1 /\ j # Done + 1
      BY <1>5, <2>4, <2>5
    <2>2. \A j, k \in DOMAIN conns : conns[j] = e.by /\ conns[k] = e.of => j < k
      BY <1>2, <1>5, <2>1
    <2> QED BY <2>2 DEF Older
  <1>6. HeldInv'
    <2> SUFFICES ASSUME NEW i \in DOMAIN queue', queue'[i].of \notin {queue'[i].by, "freed"}
                 PROVE  queue'[i].obj # 0 /\ Older(queue'[i].of, queue'[i].by)
      BY <1>3 DEF HeldInv, Older
    <2>1. CASE i \in DOMAIN queue /\ queue'[i] = queue[i]
      BY <1>2, <2>1 DEF HeldInv
    <2>2. CASE Makes(c)
      BY <2>1, <2>2 DEF Makes
    <2>3. CASE Takes(c)
      <3>1. PICK e \in Event :
                /\ e.obj # 0 /\ e.of = c /\ call.ret \in DOMAIN queue
                /\ e.by = queue[call.ret].by
                /\ DOMAIN queue' = DOMAIN queue \cup {Len(queue) + 1}
                /\ queue'[Len(queue) + 1] = e
                /\ \A j \in DOMAIN queue : queue'[j] = e \/ queue'[j] = queue[j]
        BY <2>3 DEF Takes
      <3>2. CASE queue'[i] = e
        BY <1>5, <3>1, <3>2
      <3>3. CASE queue'[i] # e
        BY <2>1, <3>1, <3>3
      <3> QED BY <3>2, <3>3
    <2> QED BY <2>1, <2>2, <2>3 DEF Queues
  <1>7. ASSUME run' = "up" PROVE PlaceInv'
    <2> SUFFICES ASSUME call' # NoCall PROVE PlaceInv'
      BY DEF PlaceInv
    <2>1. call'.ret = Pushed(call.ret) /\ call' \in InCall /\ Leads(conn'[c].st)
      BY DEF Effect, CallTyped
    <2>2. ASSUME call'.ret # 0, NEW j \in DOMAIN conns, conns[j] = queue'[call'.ret].by
          PROVE  j <= Done + 1
      <3>1. CASE queue' = queue
        <4>1. call'.ret = call.ret
          BY <2>1, <3>1 DEF Pushed
        <4> QED BY <1>1, <1>2, <2>2, <3>1, <4>1 DEF PlaceInv
      <3>2. CASE Makes(c)
        <4>1. PICK e \in Event : /\ e.by = c /\ Len(queue') = Len(queue) + 1
                                 /\ queue'[Len(queue) + 1] = e
          BY <3>2 DEF Makes
        <4>3. Len(queue') # Len(queue)
          BY <1>4, <4>1
        <4>2. call'.ret = Len(queue) + 1
          BY <2>1, <4>1, <4>3 DEF Pushed
        <4> QED BY <1>2, <2>2, <4>1, <4>2
      <3>3. CASE Takes(c)
        <4>1. PICK e \in Event : /\ e.by = queue[call.ret].by /\ call.ret \in DOMAIN queue
                                 /\ Len(queue') = Len(queue) + 1 /\ queue'[Len(queue) + 1] = e
          BY <3>3 DEF Takes
        <4>3. Len(queue') # Len(queue) /\ call.ret # 0
          BY <1>4, <4>1
        <4>2. call'.ret = Len(queue) + 1
          BY <2>1, <4>1, <4>3 DEF Pushed
        <4> QED BY <1>1, <1>2, <2>2, <4>1, <4>2, <4>3 DEF PlaceInv
      <3> QED BY <3>1, <3>2, <3>3 DEF Queues
    <2>3. CASE call'.todo = call.todo
      <3>1. Done' = Done
        BY <1>3, <2>3 DEF Done
      <3> QED BY <1>1, <1>2, <1>3, <2>2, <2>3, <3>1 DEF PlaceInv
    <2>4. CASE call'.todo = Tail(call.todo)
      <3>1. /\ Len(Tail(call.todo)) = Len(call.todo) - 1
            /\ \A i \in DOMAIN Tail(call.todo) : Tail(call.todo)[i] = conns[Done + 1 + i]
        BY VisitedPlace
      <3>2. Done' = Done + 1
        <4>1. Len(call'.todo) = Len(call.todo) - 1
          BY <2>4, <3>1
        <4>2. Done' = Len(conns) - Len(call'.todo) /\ Done = Len(conns) - Len(call.todo)
          BY <1>3 DEF Done
        <4>3. \A m, n \in Nat : m - (n - 1) = (m - n) + 1
          OBVIOUS
        <4>4. Len(conns) - (Len(call.todo) - 1) = (Len(conns) - Len(call.todo)) + 1
          BY <1>2, <4>3
        <4> HIDE DEF Done
        <4> QED BY <4>1, <4>2, <4>4
      <3>3. \A j \in DOMAIN conns : call'.ret # 0 /\ conns[j] = queue'[call'.ret].by => j <= Done' + 1
        BY <1>2, <2>2, <3>2
      <3>4. \A i \in DOMAIN call'.todo : call'.todo[i] = conns'[Done' + i]
        BY <1>3, <2>4, <3>1, <3>2
      <3>5. Done' \in Nat
        BY <1>2, <3>2
      <3> QED BY <1>3, <3>3, <3>4, <3>5 DEF PlaceInv
    <2> QED BY <2>1, <2>3, <2>4 DEF Leads, Stays, GoesToNext
  <1> QED BY <1>6, <1>7

\* A visit in the single-threaded build: the events of complete POSTs stand.
LEMMA VisitPosts ==
    ASSUME ControlInv, EventsInv, NEW phase \in Phases, NEW c, Visiting(phase, c), Effect(c),
           Queues(c), run' = "up", ~threaded
    PROVE  PostsInv'
  <1>1. /\ call \in InCall /\ call # NoCall /\ call.todo # << >> /\ call.phase = phase
        /\ run = "up" /\ c \in Client /\ IsVisited(c) /\ TypeInv /\ Todo = ToSet(call.todo)
        /\ c \in Todo /\ call.todo \in Seq(Client) /\ c = Head(call.todo)
    BY VisitingOK DEF ControlInv
  <1>2. /\ NamesInv /\ WatchInv /\ PostsInv /\ Spares(c)
        /\ \A i \in DOMAIN queue : queue[i] \in Event
    BY <1>1, EventOK DEF ControlInv, Running, EventsInv, Effect
  <1>3. ASSUME NEW e \in Event, Stands(conn, e) PROVE Stands(conn', e)
    <2>1. e.by \in Client
      BY DEF Event
    <2>2. CASE e.by = c
      BY <1>3, <2>2 DEF Stands, Effect
    <2>3. CASE e.by # c
      <3>1. conn'[e.by] = conn[e.by]
        BY <1>2, <2>1, <2>3 DEF Spares
      <3> QED BY <1>3, <3>1 DEF Stands
    <2> QED BY <2>2, <2>3
  <1>4. ASSUME NEW i \in DOMAIN queue PROVE Stands(conn', queue[i])
    BY <1>2, <1>3 DEF PostsInv
  <1>5. ASSUME call.phase = "parse", NEW i \in DOMAIN queue, queue[i].post PROVE queue[i].by # c
    <2>1. conn[c].st \in {"PARSE_HEADER", "PARSE_BODY"}
      BY <1>1, <1>5, VisitFacts, VisitedIs
    <2>2. conn[queue[i].by].st = "PROCESS"
      BY <1>2, <1>5 DEF PostsInv, Stands
    <2> QED BY <2>1, <2>2
  <1>6. \A i \in DOMAIN queue' : Stands(conn', queue'[i])
    <2> SUFFICES ASSUME NEW i \in DOMAIN queue' PROVE Stands(conn', queue'[i])
      OBVIOUS
    <2>1. CASE i \in DOMAIN queue /\ queue'[i] = queue[i]
      BY <1>4, <2>1 DEF Stands
    <2>2. CASE Makes(c)
      BY <2>1, <2>2 DEF Makes, Stands
    <2>3. CASE Takes(c)
      <3>1. PICK e \in Event :
                /\ e.obj # 0 /\ ~e.taken /\ call.ret \in DOMAIN queue
                /\ e.by = queue[call.ret].by /\ e.post = queue[call.ret].post
                /\ DOMAIN queue' = DOMAIN queue \cup {Len(queue) + 1}
                /\ queue'[Len(queue) + 1] = e
                /\ \A j \in DOMAIN queue : queue'[j] = e \/ queue'[j] = queue[j]
        BY <2>3 DEF Takes
      <3>2. queue'[i] = e \/ (i \in DOMAIN queue /\ queue'[i] = queue[i])
        BY <3>1
      <3>3. Stands(conn', queue[call.ret])
        BY <1>4, <3>1
      <3> QED BY <2>1, <3>1, <3>2, <3>3 DEF Stands
    <2> QED BY <2>1, <2>2, <2>3 DEF Queues
  <1>7. Alone'
    <2> SUFFICES ASSUME NEW i \in DOMAIN queue', NEW j \in DOMAIN queue', queue'[i].post,
                        queue'[j].of = queue'[i].by
                 PROVE  j = i
      BY DEF Alone
    <2>1. CASE queue' = queue
      BY <1>2, <2>1 DEF PostsInv, Alone
    <2>2. CASE Makes(c) /\ call.phase = "parse"
      <3>1. PICK e \in Event :
                /\ e.by = c /\ e.of = c /\ (e.post => c \in call.r)
                /\ DOMAIN queue' = DOMAIN queue \cup {Len(queue) + 1}
                /\ queue'[Len(queue) + 1] = e
                /\ \A k \in DOMAIN queue : queue'[k] = queue[k]
        BY <2>2 DEF Makes
      <3>2. CASE i \in DOMAIN queue
        <4>1. queue[i].post /\ queue[i].by # c /\ queue'[i] = queue[i]
          BY <1>5, <2>2, <3>1, <3>2
        <4>2. j \in DOMAIN queue /\ queue'[j] = queue[j]
          BY <3>1, <4>1
        <4> QED BY <1>2, <3>2, <4>1, <4>2 DEF PostsInv, Alone
      <3>3. CASE i \notin DOMAIN queue
        <4>1. i = Len(queue) + 1 /\ queue'[j].of = c /\ c \in call.r
          BY <3>1, <3>3
        <4>2. \A k \in DOMAIN queue : queue[k].of # c
          BY <1>1, <1>2, <2>2, <4>1 DEF PostsInv, Idle
        <4> QED BY <3>1, <4>1, <4>2
      <3> QED BY <3>2, <3>3
    <2>3. CASE Takes(c) /\ call.phase = "parse"
      <3>1. PICK e \in Event :
                /\ e.of = c /\ call.ret \in DOMAIN queue
                /\ e.by = queue[call.ret].by /\ e.post = queue[call.ret].post
                /\ DOMAIN queue' = DOMAIN queue \cup {Len(queue) + 1}
                /\ queue'[Len(queue) + 1] = e
                /\ \A k \in DOMAIN queue : queue'[k] = e \/ (queue'[k] = queue[k] /\ k # call.ret)
        BY <2>3 DEF Takes
      <3>2. \A k \in DOMAIN queue' :
               queue'[k] = e \/ (k \in DOMAIN queue /\ queue'[k] = queue[k] /\ k # call.ret)
        BY <3>1
      <3>3. CASE queue'[i] = e
        <4>1. queue[call.ret].post /\ e.by # c
          BY <1>5, <2>3, <3>1, <3>3
        <4>2. queue'[j] # e
          BY <3>1, <3>3, <4>1
        <4>3. j \in DOMAIN queue /\ queue[j].of = queue[call.ret].by /\ j # call.ret
          BY <3>1, <3>2, <3>3, <4>2
        <4> QED BY <1>2, <3>1, <4>1, <4>3 DEF PostsInv, Alone
      <3>4. CASE queue'[i] # e
        <4>1. i \in DOMAIN queue /\ queue'[i] = queue[i]
          BY <3>2, <3>4
        <4>2. queue[i].by # c
          BY <1>5, <2>3, <4>1
        <4>3. queue'[j] # e
          BY <3>1, <4>1, <4>2
        <4>4. j \in DOMAIN queue /\ queue'[j] = queue[j]
          BY <3>2, <4>3
        <4> QED BY <1>2, <4>1, <4>4 DEF PostsInv, Alone
      <3> QED BY <3>3, <3>4
    <2> QED BY <2>1, <2>2, <2>3 DEF Queues
  <1>8. Idle'
    <2> SUFFICES ASSUME NEW d \in Todo' \cap call'.r,
                        IsVisited(d)' => call'.phase \in {"io", "parse"},
                        NEW i \in DOMAIN queue'
                 PROVE  queue'[i].of # d
      BY DEF Idle
    <2>1. /\ Todo' \subseteq Todo
          /\ c \in Todo' => IsVisited(c)' /\ \E ph \in {"parse", "write", "finish"} : Stays(ph)
      <3>1. Leaves(c)
        BY DEF Effect
      <3> QED BY <1>1, <1>2, <3>1, WatchKept
    <2>2. call' # NoCall /\ call'.r = call.r /\ d \in Todo
      <3>1. call' # NoCall
        BY DEF Todo
      <3> QED BY <2>1, <3>1 DEF Effect, Leads, Stays, GoesToNext
    <2>3. CASE d = c
      <3>1. /\ IsVisited(c)' /\ call'.phase = "parse"
        BY <2>1, <2>3 DEF Stays
      <3>2. call.phase = "io"
        <4>1. c \notin ToSet(Tail(call.todo))
          BY <1>1, <1>2, HeadTailSet DEF NamesInv
        <4>2. ~GoesToNext
          BY <2>2, <2>3, <4>1 DEF GoesToNext, Todo
        <4> QED BY <3>1, <4>2 DEF Effect, Leads, Stays
      <3>3. \A j \in DOMAIN queue : queue[j].of # c
        BY <1>1, <1>2, <2>2, <2>3, <3>2 DEF PostsInv, Idle
      <3> QED BY <2>3, <3>2, <3>3, QueuesNew
    <2>4. CASE d # c
      <3>1. ~IsVisited(d)
        BY <1>1, <2>4 DEF IsVisited
      <3>2. \A j \in DOMAIN queue : queue[j].of # d
        BY <1>2, <2>2, <3>1 DEF PostsInv, Idle
      <3> QED BY <2>4, <3>2, QueuesNew
    <2> QED BY <2>3, <2>4
  <1> QED BY <1>6, <1>7, <1>8 DEF PostsInv

\* All visits but those that close
LEMMA VisitEvents ==
    ASSUME ControlInv, EventsInv, NEW c,
           Reads(c) \/ Others(c) \/ ParseHeader(c) \/ ParseBody(c)
    PROVE  EventsInv'
  <1>1. PICK ph \in Phases : Effect(c) /\ Queues(c) /\ Visiting(ph, c)
    <2>1. CASE Reads(c) \/ Others(c)
      <3>1. Effect(c) /\ queue' = queue /\ \E ph \in Phases : Visiting(ph, c)
        BY <2>1, ReadsEffect, OthersEffect
      <3>2. Queues(c)
        BY <3>1 DEF Queues, ControlInv, TypeInv
      <3> QED BY <3>1, <3>2
    <2>2. CASE ParseHeader(c) \/ ParseBody(c)
      <3>1. "parse" \in Phases
        BY DEF Phases
      <3> QED BY <2>2, <3>1, ParseEffect
    <2> QED BY <2>1, <2>2
  <1>2. HeldInv' /\ (run' = "up" => PlaceInv')
    BY <1>1, VisitHeld
  <1>3. run' = "up" /\ ~threaded => PostsInv'
    BY <1>1, VisitPosts
  <1>4. threaded' = threaded
    BY <1>1 DEF Effect
  <1> QED BY <1>2, <1>3, <1>4 DEF EventsInv

\* A connection goes: those behind it move up, and its events are freed.
LEMMA CloseEvents ==
    ASSUME ControlInv, EventsInv, NEW c, Close(c)
    PROVE  EventsInv'
  <1>1. /\ Visiting("finish", c) /\ "finish" \in Phases /\ threaded' = threaded
        /\ call \in InCall /\ call # NoCall /\ call.todo # << >>
        /\ c \in Client /\ IsVisited(c) /\ TypeInv
        /\ call.todo \in Seq(Client) /\ Todo = ToSet(call.todo) /\ c = Head(call.todo)
        /\ NamesInv /\ WatchInv /\ conn[c].st \in {"FINISHED", "CLOSE"} /\ GoesToNext
    BY CloseFacts DEF IsVisited
  <1>2. /\ call' = NoCall \/ call'.ret = call.ret
        /\ \A d \in Client \ {c} : conn'[d] = conn[d]
    BY CloseFacts
  <1>3. /\ DOMAIN queue' = DOMAIN queue
        /\ \A i \in DOMAIN queue :
              /\ queue[i] \in Event /\ queue'[i].by = queue[i].by /\ queue'[i].obj = queue[i].obj
              /\ queue'[i].post = queue[i].post /\ queue'[i].taken = queue[i].taken
              /\ queue'[i].of = IF queue[i].of = c THEN "freed" ELSE queue[i].of
    BY <1>1, CloseFacts, EventOK
  <1>4. /\ Done \in Nat /\ Len(conns) \in Nat /\ DOMAIN conns = 1 .. Len(conns)
        /\ Len(call.todo) \in Nat \ {0}
        /\ Done + 1 \in DOMAIN conns /\ conns[Done + 1] = c
        /\ \A j \in DOMAIN conns : conns[j] = c => j = Done + 1
        /\ DOMAIN Tail(call.todo) = 1 .. Len(call.todo) - 1
        /\ Len(Tail(call.todo)) = Len(call.todo) - 1
        /\ \A i \in DOMAIN Tail(call.todo) : Tail(call.todo)[i] = conns[Done + 1 + i]
        /\ HeldInv /\ PlaceInv /\ (~threaded => PostsInv)
    BY <1>1, VisitedPlace
  <1>5. PICK n \in DOMAIN conns :
           n = Done + 1 /\ conns[n] = c /\ conns' = RemoveAt(conns, n)
    <2>1. PICK i \in DOMAIN conns : conns[i] = c /\ conns' = RemoveAt(conns, i)
      BY DEF Close
    <2>2. i = Done + 1
      BY <1>4, <2>1
    <2> QED BY <2>1, <2>2
  <1> DEFINE at(j) == IF j < n THEN j ELSE j + 1
  <1>6. /\ Len(conns') = Len(conns) - 1
        /\ \A j \in DOMAIN conns' : at(j) \in DOMAIN conns \ {n} /\ conns'[j] = conns[at(j)]
    <2>1. conns \in Seq(Client)
      BY <1>1 DEF TypeInv
    <2> QED BY <1>5, <2>1, RemoveOK
  <1>7. DOMAIN conns' = 1 .. Len(conns) - 1
    <2>1. conns' \in Seq(Client)
      BY <1>1, <1>5, RemoveOK DEF TypeInv
    <2> QED BY <1>6, <2>1, LenProperties
  <1>8. "freed" \notin Client
    BY ControlAssumption
  <1>9. HeldInv'
    <2> SUFFICES ASSUME NEW i \in DOMAIN queue, queue'[i].of \notin {queue'[i].by, "freed"}
                 PROVE  /\ queue'[i].obj # 0
                        /\ \A j, k \in DOMAIN conns' :
                              conns'[j] = queue'[i].by /\ conns'[k] = queue'[i].of => j < k
      BY <1>3 DEF HeldInv, Older
    <2>1. /\ queue'[i].of = queue[i].of /\ queue'[i].by = queue[i].by
          /\ queue[i].obj # 0 /\ Older(queue[i].of, queue[i].by)
      BY <1>3, <1>4 DEF HeldInv
    <2>2. ASSUME NEW j \in DOMAIN conns', NEW k \in DOMAIN conns',
                 conns'[j] = queue[i].by, conns'[k] = queue[i].of
          PROVE  j < k
      <3>1. at(j) < at(k)
        <4>1. at(j) \in DOMAIN conns /\ conns[at(j)] = queue[i].by
          BY <1>6, <2>2
        <4>2. at(k) \in DOMAIN conns /\ conns[at(k)] = queue[i].of
          BY <1>6, <2>2
        <4> HIDE DEF at
        <4> QED BY <2>1, <4>1, <4>2 DEF Older
      <3>2. j \in Nat /\ k \in Nat /\ n \in Nat
        BY <1>4, <1>7
      <3> QED BY <3>1, <3>2
    <2> QED BY <1>3, <2>1, <2>2
  <1>10. ASSUME call' # NoCall PROVE PlaceInv'
    <2>1. call'.todo = Tail(call.todo) /\ call'.ret = call.ret
      BY <1>1, <1>2, <1>10 DEF GoesToNext
    <2>2. Done' = Done
      <3>1. Done' = Len(conns') - Len(call'.todo) /\ Done = Len(conns) - Len(call.todo)
        BY DEF Done
      <3>2. \A a, b \in Nat : (a - 1) - (b - 1) = a - b
        OBVIOUS
      <3>3. (Len(conns) - 1) - (Len(call.todo) - 1) = Len(conns) - Len(call.todo)
        BY <1>4, <3>2
      <3>4. Len(call'.todo) = Len(call.todo) - 1
        BY <1>4, <2>1
      <3> HIDE DEF Done
      <3> QED BY <1>6, <3>1, <3>3, <3>4
    <2>3. ASSUME NEW i \in DOMAIN call'.todo PROVE call'.todo[i] = conns'[Done' + i]
      <3>1. Done + i \in DOMAIN conns' /\ at(Done + i) = Done + 1 + i
        <4>1. i \in 1 .. Len(call.todo) - 1 /\ Done + Len(call.todo) = Len(conns)
          BY <1>4, <2>1, <2>3 DEF Done
        <4>2. \A a, b, l, m \in Nat : b \in 1 .. l - 1 /\ a + l = m =>
                 a + b \in 1 .. m - 1 /\ ~(a + b < a + 1) /\ (a + b) + 1 = a + 1 + b
          OBVIOUS
        <4> HIDE DEF Done
        <4>3. i \in Nat /\ Done \in Nat /\ Len(call.todo) \in Nat /\ Len(conns) \in Nat
          BY <1>4, <4>1
        <4>4. Done + i \in 1 .. Len(conns) - 1 /\ ~(Done + i < Done + 1)
              /\ (Done + i) + 1 = Done + 1 + i
          BY <4>1, <4>2, <4>3
        <4> QED BY <1>5, <1>7, <4>4
      <3> QED BY <1>4, <1>6, <2>1, <2>2, <2>3, <3>1
    <2>4. ASSUME call'.ret # 0, NEW j \in DOMAIN conns', conns'[j] = queue'[call'.ret].by
          PROVE  j <= Done' + 1
      <3>1. call.ret \in DOMAIN queue
        <4>1. call.ret \in Nat /\ call.ret <= Len(queue) /\ Len(queue) \in Nat
              /\ DOMAIN queue = 1 .. Len(queue)
          BY <1>1, CloseFacts, LenProperties DEF InCall, TypeInv
        <4>2. call.ret # 0
          BY <2>1, <2>4
        <4> QED BY <4>1, <4>2
      <3>2. conns[at(j)] = queue[call.ret].by /\ at(j) \in DOMAIN conns
        BY <1>3, <1>6, <2>1, <2>4, <3>1
      <3>3. at(j) <= Done + 1
        <4>1. call.ret # 0
          BY <2>1, <2>4
        <4> HIDE DEF at
        <4> QED BY <1>1, <1>4, <3>2, <4>1 DEF PlaceInv
      <3>4. j <= Done + 1
        BY <1>4, <1>7, <3>3
      <3> QED BY <2>2, <3>4
    <2> QED BY <1>4, <2>2, <2>3, <2>4 DEF PlaceInv
  <1>11. ASSUME ~threaded PROVE PostsInv'
    <2>1. PostsInv
      BY <1>4, <1>11
    <2>2. \A i \in DOMAIN queue' : Stands(conn', queue'[i])
      <3> SUFFICES ASSUME NEW i \in DOMAIN queue PROVE Stands(conn', queue'[i])
        BY <1>3
      <3>1. Stands(conn, queue[i]) /\ queue[i].by \in Client
        BY <1>3, <2>1 DEF PostsInv, Event
      <3>2. queue[i].post => queue[i].by # c
        BY <1>1, <3>1 DEF Stands
      <3>3. queue[i].post => conn'[queue[i].by] = conn[queue[i].by]
        BY <1>2, <3>1, <3>2
      <3> QED BY <1>3, <3>1, <3>2, <3>3 DEF Stands
    <2>3. Alone'
      <3> SUFFICES ASSUME NEW i \in DOMAIN queue, NEW j \in DOMAIN queue, queue'[i].post,
                          queue'[j].of = queue'[i].by
                   PROVE  j = i
        BY <1>3 DEF Alone
      <3>1. queue[i].post /\ queue[i].by \in Client /\ queue'[i].by = queue[i].by
        BY <1>3 DEF Event
      <3>2. queue[j].of = queue[i].by
        BY <1>3, <1>8, <3>1
      <3> QED BY <2>1, <3>1, <3>2 DEF PostsInv, Alone
    <2>4. Idle'
      <3> SUFFICES ASSUME NEW d \in Todo' \cap call'.r, NEW i \in DOMAIN queue
                   PROVE  queue'[i].of # d
        BY <1>3 DEF Idle
      <3>1. call' # NoCall /\ call'.r = call.r /\ call'.todo = Tail(call.todo)
        <4>1. call' # NoCall
          BY DEF Todo
        <4> QED BY <1>1, <4>1 DEF GoesToNext
      <3>2. d \in ToSet(Tail(call.todo)) /\ ToSet(Tail(call.todo)) = Todo \ {c}
        BY <1>1, <3>1, HeadTailSet DEF Todo, NamesInv
      <3>3. d \in Todo /\ d \in call.r /\ ~IsVisited(d) /\ d \in Client
        BY <1>1, <3>1, <3>2, ToSetOK DEF IsVisited
      <3>4. queue[i].of # d
        BY <2>1, <3>3 DEF PostsInv, Idle
      <3> QED BY <1>3, <1>8, <3>3, <3>4
    <2> QED BY <2>2, <2>3, <2>4 DEF PostsInv
  <1>12. PlaceInv'
    BY <1>10 DEF PlaceInv
  <1> QED BY <1>1, <1>9, <1>11, <1>12 DEF EventsInv

\* A call starts with the whole list and no event.
LEMMA CallPlace ==
    ASSUME NEW cs \in Seq(Client), NEW r, NEW w, call' = Call(cs, r, w), conns' = cs
    PROVE  PlaceInv'
  <1> DEFINE new == [phase |-> "io", todo |-> cs, r |-> r, w |-> w, ret |-> 0]
  <1>1. CASE cs = << >>
    <2>1. call' = NoCall
      BY <1>1 DEF Call
    <2> QED BY <2>1 DEF PlaceInv
  <1>2. CASE cs # << >>
    <2>1. call' = new
      BY <1>2 DEF Call
    <2>2. call'.todo = cs /\ call'.ret = 0
      BY <2>1
    <2>3. Done' = 0 /\ Len(cs) \in Nat /\ DOMAIN cs = 1 .. Len(cs)
      <3>1. Done' = Len(cs) - Len(cs)
        BY <2>2 DEF Done
      <3>2. Len(cs) \in Nat /\ DOMAIN cs = 1 .. Len(cs)
        BY LenProperties
      <3> QED BY <3>1, <3>2
    <2>4. \A i \in DOMAIN cs : 0 + i = i
      BY <2>3
    <2> QED BY <2>2, <2>3, <2>4 DEF PlaceInv
  <1> QED BY <1>1, <1>2

\* A connection is accepted in front of the others: no event answers it yet.
LEMMA RoundEvents ==
    ASSUME ControlInv, EventsInv, Round
    PROVE  EventsInv'
  <1>1. /\ Awake /\ call' = Call(conns', Readable, wset) /\ Untaken = {}
        /\ UNCHANGED << threaded, queue, run >>
    BY DEF Round
  <1>2. /\ run = "up" /\ TypeInv /\ NamesInv
        /\ backlog \in Seq(Client) /\ conns \in Seq(Client)
        /\ HeldInv /\ (~threaded => PostsInv)
    BY <1>1, AwakeFacts DEF EventsInv
  <1>3. ASSUME ~threaded PROVE PostsInv'
    <2>1. \A i \in DOMAIN queue : ~queue[i].taken
      BY <1>2, <1>3 DEF PostsInv, Stands
    <2>2. DOMAIN queue' = {}
      BY <1>1, <2>1 DEF Untaken
    <2> QED BY <2>2 DEF PostsInv, Alone, Idle
  <1>4. CASE backlog = << >>
    <2>1. conns' = conns
      BY <1>4 DEF Round
    <2>2. HeldInv'
      BY <1>1, <1>2, <2>1, OlderKept DEF HeldInv
    <2>3. PlaceInv'
      <3>1. PICK cs \in Seq(Client) : cs = conns'
        BY <1>2, <2>1
      <3>2. call' = Call(cs, Readable, wset)
        BY <1>1, <3>1
      <3> QED BY <3>1, <3>2, CallPlace
    <2> QED BY <1>1, <1>3, <2>2, <2>3 DEF EventsInv
  <1>5. CASE backlog # << >>
    <2> DEFINE h == Head(backlog)
    <2>1. conns' = << h >> \o conns
      BY <1>5 DEF Round, Accept
    <2>2. h \in Client /\ h \in Waiting
      BY <1>2, <1>5, HeadTailSet DEF Waiting
    <2> HIDE DEF h
    <2>3. ~Open(h)
      BY <1>2, <2>2 DEF NamesInv
    <2>4. /\ Len(conns) \in Nat /\ DOMAIN conns = 1 .. Len(conns)
          /\ conns' \in Seq(Client) /\ DOMAIN conns' = 1 .. Len(conns) + 1
          /\ \A j \in DOMAIN conns' : conns'[j] = IF j = 1 THEN h ELSE conns[j - 1]
      <3>1. << h >> \in Seq(Client) /\ Len(<< h >>) = 1 /\ << h >>[1] = h
        BY <2>2
      <3>2. Len(conns) \in Nat /\ DOMAIN conns = 1 .. Len(conns)
        BY <1>2, LenProperties
      <3>3. /\ conns' \in Seq(Client) /\ Len(conns') = 1 + Len(conns)
            /\ \A j \in 1 .. 1 + Len(conns) : conns'[j] = IF j <= 1 THEN << h >>[j] ELSE conns[j - 1]
        BY <1>2, <2>1, <3>1, ConcatProperties
      <3>4. DOMAIN conns' = 1 .. 1 + Len(conns)
        BY <3>3, LenProperties
      <3> QED BY <3>1, <3>2, <3>3, <3>4
    <2>5. HeldInv'
      <3> SUFFICES ASSUME NEW i \in DOMAIN queue, queue[i].of \notin {queue[i].by, "freed"}
                   PROVE  queue[i].obj # 0 /\ Older(queue[i].of, queue[i].by)'
        BY <1>1 DEF HeldInv
      <3>1. queue[i].obj # 0 /\ Older(queue[i].of, queue[i].by) /\ queue[i].of # h
        BY <1>2, <2>3 DEF HeldInv, NamesInv
      <3>2. ASSUME NEW j \in DOMAIN conns', NEW k \in DOMAIN conns',
                   conns'[j] = queue[i].by, conns'[k] = queue[i].of
            PROVE  j < k
        <4>1. k # 1 /\ k - 1 \in DOMAIN conns /\ conns[k - 1] = queue[i].of
          BY <2>4, <3>1, <3>2
        <4>2. CASE j = 1
          BY <2>4, <4>1, <4>2
        <4>3. CASE j # 1
          <5>1. j - 1 \in DOMAIN conns /\ conns[j - 1] = queue[i].by
            BY <2>4, <3>2, <4>3
          <5>2. j - 1 < k - 1
            BY <3>1, <4>1, <5>1 DEF Older
          <5> QED BY <2>4, <5>2
        <4> QED BY <4>2, <4>3
      <3> QED BY <1>1, <3>1, <3>2 DEF Older
    <2>6. PlaceInv'
      <3>1. PICK cs \in Seq(Client) : cs = conns'
        BY <2>4
      <3>2. call' = Call(cs, Readable, wset)
        BY <1>1, <3>1
      <3> QED BY <3>1, <3>2, CallPlace
    <2> QED BY <1>1, <1>3, <2>5, <2>6 DEF EventsInv
  <1> QED BY <1>4, <1>5

\* The call without descriptors reads from nobody.
LEMMA TimerRoundEvents ==
    ASSUME ControlInv, EventsInv, TimerRound
    PROVE  EventsInv'
  <1>1. /\ Awake /\ call' = Call(conns, {}, {})
        /\ UNCHANGED << threaded, conns, conn, queue, run >>
    BY DEF TimerRound
  <1>2. run = "up" /\ conns \in Seq(Client) /\ HeldInv /\ (~threaded => PostsInv)
    BY <1>1, AwakeFacts DEF EventsInv
  <1>3. HeldInv'
    BY <1>1, <1>2, OlderKept DEF HeldInv
  <1>4. PlaceInv'
    <2>1. PICK cs \in Seq(Client) : cs = conns
      BY <1>2
    <2>2. PICK none : none = {}
      OBVIOUS
    <2>3. call' = Call(cs, none, none) /\ conns' = cs
      BY <1>1, <2>1, <2>2
    <2> QED BY <2>3, CallPlace
  <1>5. ASSUME ~threaded PROVE PostsInv'
    <2>1. call'.r = {}
      BY <1>1 DEF Call, NoCall
    <2>2. Idle'
      BY <2>1 DEF Idle
    <2> QED BY <1>1, <1>2, <1>5, <2>2 DEF PostsInv, Alone
  <1> QED BY <1>1, <1>3, <1>4, <1>5 DEF EventsInv

\* An answer to another request leaves a complete POST that waits alone.
LEMMA AnswerEvents ==
    ASSUME ControlInv, EventsInv, Awake, NEW i \in DOMAIN queue, Answer(i)
    PROVE  EventsInv'
  <1>1. UNCHANGED << threaded, conns, call >>
    BY DEF Answer
  <1>2. /\ run = "up" /\ call = NoCall /\ TypeInv
        /\ HeldInv /\ (~threaded => PostsInv)
    BY AwakeFacts DEF EventsInv
  <1>3. PICK at \in [DOMAIN queue' -> DOMAIN queue \ {i}] :
            /\ \A j, k \in DOMAIN queue' : at[j] = at[k] => j = k
            /\ \A j \in DOMAIN queue' :
                  \/ queue'[j] = queue[at[j]]
                  \/ /\ queue'[j].of = "freed" /\ queue[at[j]].obj # 0
                     /\ queue'[j].obj = queue[at[j]].obj /\ queue'[j].by = queue[at[j]].by
                     /\ queue'[j].post = queue[at[j]].post
                     /\ queue'[j].taken = queue[at[j]].taken
    BY <1>2, AnswerQueue
  <1>4. \A j \in DOMAIN queue' : at[j] \in DOMAIN queue /\ at[j] # i
    BY <1>3
  <1>5. HeldInv'
    <2> SUFFICES ASSUME NEW j \in DOMAIN queue', queue'[j].of \notin {queue'[j].by, "freed"}
                 PROVE  queue'[j].obj # 0 /\ Older(queue'[j].of, queue'[j].by)
      BY <1>1 DEF HeldInv, Older
    <2>1. queue'[j] = queue[at[j]] /\ at[j] \in DOMAIN queue
      BY <1>3, <1>4
    <2> QED BY <1>2, <2>1 DEF HeldInv
  <1>6. PlaceInv'
    BY <1>1, <1>2 DEF PlaceInv
  <1>7. ASSUME run' = "up", ~threaded PROVE PostsInv'
    <2>1. PostsInv
      BY <1>2, <1>7
    <2> DEFINE c == queue[i].of
    <2>2. /\ c \in Client
          /\ \A d \in Client \ {c} : conn'[d] = conn[d]
      <3>1. c # "freed"
        BY <1>7 DEF Answer
      <3>2. conn' = [conn EXCEPT ![c] = MkHeader(conn[c])]
        BY <3>1 DEF Answer, Becomes
      <3>3. c \in Client /\ conn \in [Client -> Request]
        BY <1>2, <3>1, EventOK DEF TypeInv
      <3> HIDE DEF c
      <3> QED BY <3>2, <3>3
    <2>3. \A j \in DOMAIN queue : queue[j] \in Event /\ queue[j].by \in Client
      <3>1. \A j \in DOMAIN queue : queue[j] \in Event
        BY <1>2, EventOK
      <3> QED BY <3>1 DEF Event
    <2>4. \A j \in DOMAIN queue : queue[j].post /\ j # i => queue[j].by # c
      BY <2>1 DEF PostsInv, Alone
    <2> HIDE DEF c
    <2>5. \A j \in DOMAIN queue' : Stands(conn', queue'[j])
      <3> SUFFICES ASSUME NEW j \in DOMAIN queue' PROVE Stands(conn', queue'[j])
        OBVIOUS
      <3>1. Stands(conn, queue[at[j]])
        BY <1>4, <2>1 DEF PostsInv
      <3>2. queue[at[j]].post => conn'[queue[at[j]].by] = conn[queue[at[j]].by]
        BY <1>4, <2>2, <2>3, <2>4
      <3>3. Stands(conn', queue[at[j]])
        BY <3>1, <3>2 DEF Stands
      <3> QED BY <1>3, <3>3 DEF Stands
    <2>6. Alone'
      <3> SUFFICES ASSUME NEW j \in DOMAIN queue', NEW k \in DOMAIN queue', queue'[j].post,
                          queue'[k].of = queue'[j].by
                   PROVE  k = j
        BY DEF Alone
      <3>1. queue[at[j]].post /\ queue'[j].by = queue[at[j]].by
        BY <1>3
      <3>2. queue'[k].of # "freed"
        BY <1>4, <2>3, <3>1, ControlAssumption
      <3>3. queue'[k] = queue[at[k]]
        BY <1>3, <3>2
      <3>4. at[k] = at[j]
        BY <1>4, <2>1, <3>1, <3>3 DEF PostsInv, Alone
      <3> QED BY <1>3, <3>4
    <2>7. Idle'
      BY <1>1, <1>2 DEF Idle, Todo
    <2> QED BY <2>5, <2>6, <2>7 DEF PostsInv
  <1> QED BY <1>1, <1>5, <1>6, <1>7 DEF EventsInv

\* Passing an event on leaves it whose it is.
LEMMA PassOnEvents ==
    ASSUME ControlInv, EventsInv, PassOn
    PROVE  EventsInv'
  <1>1. Awake /\ threaded /\ UNCHANGED << threaded, conns, conn, call, run >>
    BY DEF PassOn
  <1>2. run = "up" /\ call = NoCall /\ TypeInv /\ HeldInv
    BY <1>1, AwakeFacts DEF EventsInv
  <1>3. /\ DOMAIN queue' = DOMAIN queue
        /\ \A j \in DOMAIN queue : /\ queue'[j].of = queue[j].of /\ queue'[j].by = queue[j].by
                                  /\ queue'[j].obj = queue[j].obj
    BY <1>2, PassOnQueue
  <1>4. HeldInv'
    BY <1>1, <1>2, <1>3 DEF HeldInv, Older
  <1>5. PlaceInv'
    BY <1>1, <1>2 DEF PlaceInv
  <1> QED BY <1>1, <1>4, <1>5 DEF EventsInv

\* A timeout passes, but not for who made an event that waits.
LEMMA TickEvents ==
    ASSUME ControlInv, EventsInv, NEW c \in Client, Tick(c)
    PROVE  EventsInv'
  <1>1. /\ Awake /\ UNCHANGED << threaded, conns, call, queue, run >>
        /\ \A i \in Untaken : queue[i].by # c
        /\ conn' = [conn EXCEPT ![c] = [conn[c] EXCEPT !.late = TRUE]]
    BY DEF Tick, Becomes
  <1>2. /\ run = "up" /\ call = NoCall /\ TypeInv /\ HeldInv /\ (~threaded => PostsInv)
        /\ \A d \in Client \ {c} : conn'[d] = conn[d]
    BY <1>1, AwakeFacts DEF EventsInv, TypeInv
  <1>3. HeldInv'
    BY <1>1, <1>2, OlderKept DEF HeldInv
  <1>4. PlaceInv'
    BY <1>1, <1>2 DEF PlaceInv
  <1>5. ASSUME ~threaded PROVE PostsInv'
    <2>1. ASSUME NEW i \in DOMAIN queue PROVE Stands(conn', queue[i])
      <3>1. Stands(conn, queue[i]) /\ queue[i] \in Event
        BY <1>2, <1>5, EventOK DEF PostsInv
      <3>2. queue[i].by # c /\ queue[i].by \in Client
        BY <1>1, <3>1 DEF Untaken, Stands, Event
      <3>3. conn'[queue[i].by] = conn[queue[i].by]
        BY <1>2, <3>2
      <3> QED BY <3>1, <3>3 DEF Stands
    <2>2. Alone'
      BY <1>1, <1>2, <1>5 DEF PostsInv, Alone
    <2>3. Idle'
      BY <1>1, <1>2 DEF Idle, Todo
    <2> QED BY <1>1, <2>1, <2>2, <2>3 DEF PostsInv
  <1> QED BY <1>1, <1>3, <1>4, <1>5 DEF EventsInv

\* One step per action
LEMMA NextEvents ==
    ControlInv /\ EventsInv /\ [Next]_vars => EventsInv'
  <1> SUFFICES ASSUME ControlInv, EventsInv, [Next]_vars PROVE EventsInv'
    OBVIOUS
  <1>1. CASE Round
    BY <1>1, RoundEvents
  <1>2. CASE TimerRound
    BY <1>2, TimerRoundEvents
  <1>3. ASSUME NEW c \in Client, Visit(c) PROVE EventsInv'
    <2>1. CASE Close(c)
      BY <2>1, CloseEvents
    <2>2. CASE Reads(c) \/ Others(c) \/ ParseHeader(c) \/ ParseBody(c)
      BY <2>2, VisitEvents
    <2> QED BY <1>3, <2>1, <2>2 DEF Visit, Reads, Others
  <1>4. CASE Handle
    <2>1. Awake /\ Answer(1) /\ 1 \in DOMAIN queue
      <3>1. Awake /\ Answer(1) /\ Untaken # {}
        BY <1>4 DEF Handle
      <3>2. Len(queue) \in Nat /\ DOMAIN queue = 1 .. Len(queue)
        BY LenProperties DEF ControlInv, TypeInv
      <3>3. PICK i : i \in DOMAIN queue
        BY <3>1 DEF Untaken
      <3> QED BY <3>1, <3>2, <3>3
    <2> QED BY <2>1, AnswerEvents
  <1>5. CASE PassOn
    BY <1>5, PassOnEvents
  <1>6. CASE Responds
    <2>1. PICK i \in 1 .. MaxEvents : Awake /\ i \in DOMAIN queue /\ Answer(i)
      BY <1>6 DEF Responds, Respond
    <2> QED BY <2>1, AnswerEvents
  <1>7. ASSUME NEW c \in Client, Tick(c) PROVE EventsInv'
    BY <1>7, TickEvents
  <1>8. ASSUME NEW c \in Client,
               Connect(c) \/ SendBody(c) \/ GiveUp(c) \/ \E r \in MayAsk[c] : Send(c, r)
        PROVE  EventsInv'
    <2>1. UNCHANGED << threaded, conns, conn, call, queue, run >>
      BY <1>8 DEF Connect, SendBody, GiveUp, Send, OutsideRest
    <2> QED BY <2>1, EventsKept
  <1>9. CASE UNCHANGED vars
    BY <1>9, EventsKept DEF vars
  <1> QED BY <1>1, <1>2, <1>3, <1>4, <1>5, <1>6, <1>7, <1>8, <1>9 DEF Next, Server

\* At the start there is no event and no call.
LEMMA InitEvents ==
    Init => EventsInv
  <1> SUFFICES ASSUME Init PROVE EventsInv
    OBVIOUS
  <1>1. queue = << >> /\ call = NoCall
    BY DEF Init
  <1>2. HeldInv /\ PlaceInv /\ PostsInv
    BY <1>1 DEF HeldInv, PlaceInv, PostsInv, Alone, Idle, Todo
  <1> QED BY <1>2 DEF EventsInv

-----------------------------------------------------------------------------
(* The theorems *)

\* Every variable keeps its type; what select() waits for are connections of
\* clients, and the place of a call's event is in the queue.
THEOREM TypeCorrect == Spec => []TypeInv
  <1>1. ControlInv => TypeInv
    BY DEF ControlInv
  <1> QED BY <1>1, Invariance, PTL

\* When the thread sleeps in select(), each connection is watched for what its
\* state makes it wait for, and for nothing else (httpd.c, CtrlComm::sendMsg).
THEOREM WatchedSafe == Spec => []Watched
  <1>1. ControlInv => Watched
    <2> SUFFICES ASSUME ControlInv, run = "up", call = NoCall, NEW c \in Client
                 PROVE  /\ (c \in wset) = (conn[c].st \in {"WRITE_HEADER", "WRITE_BODY"})
                        /\ (c \in rset) = (Open(c) /\ c \notin wset)
      BY DEF Watched
    <2>1. Calm(c)
      BY AwakeFacts DEF Awake
    <2> QED BY <2>1 DEF Calm
  <1> QED BY <1>1, Invariance, PTL

\* A command in a POST that came complete makes one event at most, however often
\* httpd visits the connection before it is answered (CtrlComm::processCmd).
THEOREM PostsOnce == Spec => []WholePostsOnce
  <1>1. ControlInv => WholePostsOnce
    BY DEF ControlInv, OnceInv, OnceOf, WholePostsOnce
  <1> QED BY <1>1, Invariance, PTL

\* The address that checkHosts compares with tells clients apart as their own does.
LEMMA SameHost ==
    ASSUME NEW c \in Client, UseIPv6 \/ AddressOf[c] \in IPv4, NEW e
    PROVE  PeerHost(c) \in ResolveAddr(e) <=> AddressOf[c] \in ToSet(Dns[e.value])
  <1>1. \A a, b : /\ Plain(a) # Mapped(b)
                  /\ Plain(a) = Plain(b) => a = b
                  /\ Mapped(a) = Mapped(b) => a = b
    <2> TAKE a, b
    <2>1. Len(<< a >>) = 1 /\ Len(<< "::ffff:", b >>) = 2
      OBVIOUS
    <2>2. << a >>[1] = a /\ << b >>[1] = b /\ << "::ffff:", a >>[2] = a /\ << "::ffff:", b >>[2] = b
      OBVIOUS
    <2> QED BY <2>1, <2>2 DEF Plain, Mapped
  <1>2. \A a : PeerHost(c) \in Listed(a) <=> a = AddressOf[c]
    <2> TAKE a
    <2> HIDE DEF Plain, Mapped
    <2>1. CASE UseIPv6 /\ AddressOf[c] \in IPv4
      BY <1>1, <2>1 DEF PeerHost, Listed
    <2>2. CASE ~(UseIPv6 /\ AddressOf[c] \in IPv4)
      BY <1>1, <2>2 DEF PeerHost, Listed
    <2> QED BY <2>1, <2>2
  <1>3. PeerHost(c) \in ResolveAddr(e) <=> \E a \in ToSet(Dns[e.value]) : PeerHost(c) \in Listed(a)
    BY DEF ResolveAddr
  <1> QED BY <1>2, <1>3

\* No request of a client that the configured access list keeps out is looked at,
\* whatever the family of the socket and of the addresses (httpd.c checkHosts).
THEOREM PolicySafe == Spec => []PolicyKept
  <1>1. ControlInv => PolicyKept
    <2> SUFFICES ASSUME ControlInv, NEW c \in Client, conn[c].st \notin {"none", "CLOSE"}
                 PROVE  Policy(c)
      BY DEF PolicyKept
    <2>1. HostAccess(c) /\ (UseIPv6 \/ AddressOf[c] \in IPv4)
      BY DEF ControlInv, HostInv, Open
    <2> DEFINE seen == {i \in DOMAIN access :
                          /\ access[i].type = "Host"
                          /\ access[i].value = "All" \/ PeerHost(c) \in ResolveAddr(access[i])}
               own == {i \in DOMAIN access :
                         /\ access[i].type = "Host"
                         /\ access[i].value = "All" \/ AddressOf[c] \in ToSet(Dns[access[i].value])}
    <2>2. seen = own
      BY <2>1, SameHost
    <2>3. Decision(seen) /\ (Policy(c) <=> Decision(own))
      BY <2>1 DEF HostAccess, Policy
    <2> QED BY <2>2, <2>3
  <1> QED BY <1>1, Invariance, PTL

\* Whatever requests meet in a call of httpd, an event answers the request it was
\* made by, or that of an older connection which was parsed later in the same call
\* and which it answers as a copy (retEvent, CtrlComm::processCmd); and in the
\* single-threaded build a complete POST waits until its own event is handled.
THEOREM EventsStand == Spec => []PendingEvents
  <1>1. EventsInv => PendingEvents
    BY DEF EventsInv, HeldInv, PostsInv, Stands, PendingEvents
  <1>2. Init => ControlInv /\ EventsInv
    BY InitInv, InitEvents
  <1>3. ControlInv /\ EventsInv /\ [Next]_vars => (ControlInv /\ EventsInv)'
    BY NextInv, NextEvents
  <1> QED BY <1>1, <1>2, <1>3, PTL DEF Spec
================================================================================
