------------------------------- MODULE EventLoop -------------------------------
(***************************************************************************)
(* QualityManager::run: one thread sleeps in select() until a byte is in   *)
(* the signal pipe, a connection of the control channel is readable, or    *)
(* the first event of EventScheduler is due.  A due event is not handled   *)
(* directly: getNextEventTime writes an 'A' into the pipe, and the byte,   *)
(* when it is read, takes whatever event is first then.  Signal handlers   *)
(* write 'S' and 'D' into the same pipe.  A round reads one byte.          *)
(*                                                                         *)
(* Time is counted in ticks of a second, relative to the present: an event *)
(* has `wait' ticks to go and Tick lowers all of them.                     *)
(***************************************************************************)
EXTENDS Integers, Sequences, FiniteSets, SequencesExt

CONSTANTS
    Client,     \* each submits a rule, and another when that is removed
    FromFile,   \* those whose only rule is in the rule file
    StartIn,    \* StartIn[c]: ticks from the handling of its request to the
                \* activation of the rule of c,
    StopIn,     \* StopIn[c]: and to its removal
    Keepalive,  \* the interval of CTRLCOMM_TIMER
    Slow,       \* bound: the ticks a round may last when it does not sleep
    MaxSignals  \* bound: MaxSignals[b] signals whose handler writes b

ASSUME LoopAssumption ==
    /\ StartIn \in [Client -> Nat] /\ StopIn \in [Client -> Nat]
    /\ IsFiniteSet(Client) /\ FromFile \subseteq Client
    /\ Keepalive \in Nat \ {0} /\ Slow \in Nat
    /\ MaxSignals \in [{"S", "D"} -> Nat]

VARIABLES
    enableCtrl, \* configured: is there a control channel
    pc,         \* where run() is
    pipe,       \* bytes in s_sigpipe
    rset,       \* what select() found readable
    queue,      \* EventScheduler::events
    current,    \* the event in hand: a sequence of at most one
    client,     \* how far the request and the rule of a client are
    spent,      \* ticks of this round
    sent,       \* signals the program got, per kind
    dumps,      \* history: 'D' bytes read
    early       \* history: events taken before their time

vars == << enableCtrl, pc, pipe, rset, queue, current, client, spent, sent, dumps, early >>

Timer == [kind |-> "timer", of |-> {}, wait |-> Keepalive]
Event(kind, c, wait) == [kind |-> kind, of |-> {c}, wait |-> wait]
NothingReadable == [pipe |-> FALSE, clients |-> {}]

Init ==
    /\ pc = "arm"
    /\ pipe = << >> /\ rset = NothingReadable
    /\ enableCtrl \in BOOLEAN
    /\ queue = SetToSeq({Event("request", c, 0) : c \in FromFile})
               \o (IF enableCtrl THEN << Timer >> ELSE << >>)
    /\ current = << >>
    /\ client = [c \in Client |-> IF c \in FromFile THEN "queued" ELSE "idle"]
    /\ spent = 0
    /\ sent = [S |-> 0, D |-> 0]
    /\ dumps = 0 /\ early = 0

-----------------------------------------------------------------------------
(* EventScheduler *)

Due_WithinTick == queue # << >> /\ Head(queue).wait <= 1   \* mutant: seconds only
\* The first event has at most 100us to go: less than a tick.
Due == queue # << >> /\ Head(queue).wait <= 0

\* multimap::insert puts an event behind those of the same time, and the next
\* one of that time behind it.
InsertAll(q, events, wait) ==
    LET before == Cardinality({i \in DOMAIN q : q[i].wait <= wait})
    IN  SubSeq(q, 1, before) \o events \o SubSeq(q, before + 1, Len(q))
Insert(q, e) == InsertAll(q, << e >>, e.wait)

\* Event::advance, and setTime(now) if that is still a second in the past.
Advanced(e) ==
    [e EXCEPT !.wait = IF @ + Keepalive < 0 THEN 0 ELSE @ + Keepalive]

-----------------------------------------------------------------------------
(* A round of run() *)

Arm_NoByte ==                           \* mutant: no byte for a due event
    /\ pc = "arm"
    /\ pc' = "select" /\ spent' = 0
    /\ UNCHANGED << enableCtrl, pipe, rset, queue, current, client, sent, dumps, early >>

\* getNextEventTime
Arm ==
    /\ pc = "arm"
    /\ pipe' = IF Due THEN Append(pipe, "A") ELSE pipe
    /\ pc' = "select" /\ spent' = 0
    /\ UNCHANGED << enableCtrl, rset, queue, current, client, sent, dumps, early >>

Readable == [pipe |-> pipe # << >>, clients |-> {c \in Client : client[c] = "sent"}]
Asleep == pc = "select" /\ Readable = NothingReadable

SelectReady ==
    /\ pc = "select" /\ Readable # NothingReadable
    /\ rset' = Readable
    /\ pc' = "check"
    /\ UNCHANGED << enableCtrl, pipe, queue, current, client, spent, sent, dumps, early >>

\* The timeout is the time to the first event, 10 ms if there is none.
SelectTimesOut ==
    /\ Asleep /\ (Due \/ queue = << >>)
    /\ pc' = "arm"
    /\ UNCHANGED << enableCtrl, pipe, rset, queue, current, client, spent, sent, dumps, early >>

\* checkFileDescriptorEvents: the pipe comes before the connections.
ReadByte(b) ==
    /\ pc = "check" /\ rset.pipe
    /\ Head(pipe) = b
    /\ pipe' = Tail(pipe)
    /\ rset' = NothingReadable

ReadStop_Lost ==                        \* mutant: the answer is overwritten
    /\ ReadByte("S")
    /\ pc' = "arm"
    /\ UNCHANGED << enableCtrl, queue, current, client, spent, sent, dumps, early >>

ReadStop ==
    /\ ReadByte("S")
    /\ pc' = "stopped"
    /\ UNCHANGED << enableCtrl, queue, current, client, spent, sent, dumps, early >>

ReadDump ==
    /\ ReadByte("D")
    /\ dumps' = dumps + 1
    /\ pc' = "arm"
    /\ UNCHANGED << enableCtrl, queue, current, client, spent, sent, early >>

\* getNextEvent, for an 'A' written now or in an earlier round
TakeEvent ==
    /\ ReadByte("A") /\ queue # << >>
    /\ current' = << Head(queue) >>
    /\ queue' = Tail(queue)
    /\ early' = IF Head(queue).wait <= 0 THEN early ELSE early + 1
    /\ pc' = "handle"
    /\ UNCHANGED << enableCtrl, client, spent, sent, dumps >>

NoEvent ==
    /\ ReadByte("A") /\ queue = << >>
    /\ pc' = "arm"
    /\ UNCHANGED << enableCtrl, queue, current, client, spent, sent, dumps, early >>

Requests(order) == [i \in DOMAIN order |-> Event("request", order[i], 0)]

\* comm->handleFDEvent: a request becomes an event that is due at once.
ServeClients ==
    /\ pc = "check" /\ ~rset.pipe
    /\ \E order \in SetToSeqs(rset.clients) :
          queue' = InsertAll(queue, Requests(order), 0)
    /\ client' = [c \in Client |->
                    IF c \in rset.clients THEN "queued" ELSE client[c]]
    /\ pc' = "arm" /\ rset' = NothingReadable
    /\ UNCHANGED << enableCtrl, pipe, current, spent, sent, dumps, early >>

Handling(kind) == pc = "handle" /\ current[1].kind = kind
Rules == current[1].of
EventDone ==
    /\ current' = << >>
    /\ pc' = "arm"
    /\ UNCHANGED << enableCtrl, pipe, rset, spent, sent, dumps, early >>

\* The only recurring event: handleFDEvent without descriptors, then again.
HandleTimer ==
    /\ Handling("timer")
    /\ queue' = Insert(queue, Advanced(current[1]))
    /\ EventDone /\ UNCHANGED client

\* The rule is registered, its activation and removal are scheduled.
HandleRequest ==
    /\ Handling("request")
    /\ \E c \in Rules :
          /\ queue' = Insert(Insert(queue, Event("activate", c, StartIn[c])),
                             Event("remove", c, StopIn[c]))
          /\ client' = [client EXCEPT ![c] = "answered"]
    /\ EventDone

HandleActivate ==
    /\ Handling("activate")
    /\ client' = [c \in Client |-> IF c \in Rules THEN "active" ELSE client[c]]
    /\ EventDone /\ UNCHANGED queue

HandleRemove ==
    /\ Handling("remove")
    /\ client' = [c \in Client |-> IF c \in Rules THEN "removed" ELSE client[c]]
    /\ EventDone /\ UNCHANGED queue

Step ==
    \/ Arm \/ SelectReady \/ SelectTimesOut
    \/ ReadStop \/ ReadDump \/ TakeEvent \/ NoEvent \/ ServeClients
    \/ HandleTimer \/ HandleRequest \/ HandleActivate \/ HandleRemove

-----------------------------------------------------------------------------
(* The surroundings *)

\* sigint_handler, sigusr1_handler.  A signal that finds the thread asleep
\* ends select() with EINTR, and the round handles nothing; one that comes
\* just before the call does not.
Signal(b) ==
    /\ pc # "stopped" /\ sent[b] < MaxSignals[b]
    /\ sent' = [sent EXCEPT ![b] = @ + 1]
    /\ pipe' = Append(pipe, b)
    /\ \/ UNCHANGED pc
       \/ Asleep /\ pc' = "arm"
    /\ UNCHANGED << enableCtrl, rset, queue, current, client, spent, dumps, early >>

Request(c) ==
    /\ pc # "stopped" /\ enableCtrl
    /\ c \notin FromFile /\ client[c] \in {"idle", "removed"}
    /\ client' = [client EXCEPT ![c] = "sent"]
    /\ UNCHANGED << enableCtrl, pc, pipe, rset, queue, current, spent, sent, dumps, early >>

\* A lateness beyond Keepalive makes no difference to any step.
Later(e) == [e EXCEPT !.wait = IF @ > -Keepalive THEN @ - 1 ELSE @]

Tick ==
    /\ pc # "stopped"
    /\ \/ Asleep /\ ~Due /\ UNCHANGED spent
       \/ ~(Asleep /\ ~Due) /\ spent < Slow /\ spent' = spent + 1
    /\ queue' = [i \in DOMAIN queue |-> Later(queue[i])]
    /\ current' = [i \in DOMAIN current |-> Later(current[i])]
    /\ UNCHANGED << enableCtrl, pc, pipe, rset, client, sent, dumps, early >>

Next ==
    \/ Step
    \/ \E b \in {"S", "D"} : Signal(b)
    \/ \E c \in Client : Request(c)
    \/ Tick

\* The thread runs and the clock goes on.  A round that is not asleep lasts less
\* than Keepalive (Slow < Keepalive): otherwise the timer is due in every round
\* and, as the pipe comes first, connections are never looked at.
Spec == Init /\ [][Next]_vars /\ WF_vars(Step) /\ WF_vars(Tick)

-----------------------------------------------------------------------------

\* Alarms and their events stay in step but for the dumps: a SIGUSR1 costs at
\* most one event that is handled before its time, and the 'A' bytes that wait
\* in the pipe when a round starts are counted in.  Checked where the rounds of
\* run() meet.
EarlyBounded ==
    pc = "arm" =>
        early + Cardinality({i \in DOMAIN pipe : pipe[i] = "A"}) <= dumps

\* A request that was sent or came from the file is read and handled, and its
\* rule is activated and removed, whatever timers, signals and other clients
\* do, unless the program is told to stop: no wake-up is lost, nobody starves.
ServedToEnd ==
    \A c \in Client : client[c] \in {"sent", "queued"} ~> client[c] = "removed" \/ pc = "stopped"

\* SIGINT and SIGTERM end run(), behind any number of other bytes.
StopEnds == (\E i \in DOMAIN pipe : pipe[i] = "S") ~> pc = "stopped"
================================================================================
