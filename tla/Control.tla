-------------------------------- MODULE Control --------------------------------
(***************************************************************************)
(* The control channel: httpd (lib/httpd) and CtrlComm, which turns HTTP   *)
(* requests into events of EventScheduler, and the answers that the event  *)
(* handlers of QualityManager give.  One call of httpd_handle_event visits *)
(* every connection; a visit reads or writes, looks at the timeouts,       *)
(* parses, writes, and finishes or closes.  All of it runs in the main     *)
(* thread: clients are only seen between two calls, since what comes       *)
(* during a call could as well have come before it.                        *)
(*                                                                         *)
(* A client has at most one connection, named like itself, and one request *)
(* in flight.  The bytes of a request are its head and, for a POST, its    *)
(* body, which may arrive later.  A request's command is a static page,    *)
(* a task (any command that makes an event), a task whose parameter is     *)
(* missing, or unknown, which stands for every answer of mkerror that      *)
(* keeps the connection.                                                   *)
(***************************************************************************)
EXTENDS Integers, Sequences, FiniteSets, SequencesExt

CONSTANTS
    Client,
    Address, User,  \* of the clients: AddressOf[c], an IPv4 address or not,
    AddressOf,      \* and UserOf[c], what it gives as user name
    UserOf,
    IPv4,           \* a subset of Address
    Dns,            \* Dns[h]: the addresses of host name h, << >> if unknown
    Starts,         \* << u, v >>: user name v starts with u
    AccessLists,    \* those that may be configured, of [type, value, ad]
    MayAsk,         \* MayAsk[c]: the requests [method, cmd, keep, http11] c sends
    MaxConn,        \* max_conn
    Leaving,        \* clients that may close a connection
    UseIPv6,        \* of the configuration
    MaxEvents       \* bound on the events in the queue

ASSUME ControlAssumption ==
    /\ AddressOf \in [Client -> Address] /\ UserOf \in [Client -> User]
    /\ IPv4 \subseteq Address /\ "freed" \notin Client
    /\ Dns \in [DOMAIN Dns -> Seq(Address)] /\ "All" \notin DOMAIN Dns
    /\ MayAsk \in [Client -> SUBSET [method : {"GET", "POST"}, keep : BOOLEAN, http11 : BOOLEAN,
                                     cmd : {"page", "task", "bad", "unknown"}]]
    /\ UseIPv6 \in BOOLEAN /\ Leaving \subseteq Client
    /\ MaxConn \in Nat \ {0} /\ MaxEvents \in Nat

VARIABLES
    threaded,   \* the build
    access,     \* the configured access list
    client,     \* what each client does
    inbox,      \* bytes on the way to the server
    backlog,    \* connections that wait to be accepted, in order
    conns,      \* the list of connections
    conn,       \* struct REQUEST of each connection
    rset, wset, \* fds: what select() waits for, besides the listening socket
    call,       \* of handleFDEvent: the phase of the visit or "select" when
                \* there is no call, the connections still to be visited, the
                \* sets r and w of select(), empty for a timer, and retEvent:
                \* the place of the event in the queue, 0 for none
    queue,      \* the events of CtrlComm in EventScheduler: by whose request each was
                \* made and of whom it is now, the one it answers; obj # 0 is the same
                \* for those that are the same object
    timer,      \* CTRLCOMM_TIMER is due
    run         \* "up", or how the program ended

vars == << threaded, access, client, inbox, backlog, conns, conn, rset, wset, call, queue,
           timer, run >>

None == [method |-> "none"]
Eof == [part |-> "eof", req |-> None]
NewRequest == [st |-> "READ_HEADER", req |-> None, whole |-> FALSE,
               keep |-> TRUE, late |-> FALSE, made |-> 0]
Closed == [NewRequest EXCEPT !.st = "none"]
NoCall == [phase |-> "select", todo |-> << >>, r |-> {}, w |-> {}, ret |-> 0]

Init ==
    /\ threaded \in BOOLEAN /\ access \in AccessLists
    /\ client = [c \in Client |-> "off"]
    /\ inbox = [c \in Client |-> << >>]
    /\ backlog = << >> /\ conns = << >> /\ conn = [c \in Client |-> Closed]
    /\ rset = {} /\ wset = {}
    /\ call = NoCall /\ queue = << >> /\ timer = FALSE
    /\ run = "up"

-----------------------------------------------------------------------------
(* The access list *)

Mapped(a) == << "::ffff:", a >>
Plain(a) == << a >>

Listed_NotMapped(a) ==                  \* mutant: IPv4 clients are forgotten
    IF UseIPv6 \/ a \in IPv4 THEN {Plain(a)} ELSE {}

\* What checkHosts makes of one address of a host: a socket for IPv6 sees the
\* mapped address of an IPv4 client.
Listed(a) ==
    (IF UseIPv6 \/ a \in IPv4 THEN {Plain(a)} ELSE {})
        \cup (IF UseIPv6 /\ a \in IPv4 THEN {Mapped(a)} ELSE {})

\* The entries that stand in accessList for one of the configuration follow one
\* another and are alike but for resolve_addr.  An unknown host leaves the list.
ResolveAddr(e) == UNION {Listed(a) : a \in ToSet(Dns[e.value])}

\* The first entry that matches decides, none denies.
Decision(matches) ==
    \E i \in matches : access[i].ad = "ALLOW" /\ \A j \in matches : i <= j

PeerHost(c) ==
    IF UseIPv6 /\ AddressOf[c] \in IPv4 THEN Mapped(AddressOf[c]) ELSE Plain(AddressOf[c])

HostAccess(c) ==
    Decision({i \in DOMAIN access :
        /\ access[i].type = "Host"
        /\ access[i].value = "All" \/ PeerHost(c) \in ResolveAddr(access[i])})

\* Only as many characters are compared as the entry has.
UserAccess(c) ==
    Decision({i \in DOMAIN access :
        /\ access[i].type = "User"
        /\ access[i].value = "All" \/ << access[i].value, UserOf[c] >> \in Starts})

-----------------------------------------------------------------------------
(* select() *)

Open(c) == conn[c].st # "none"
Untaken == {i \in DOMAIN queue : ~queue[i].taken}
Readable == {c \in rset : inbox[c] # << >>}

\* Bounds: there is room for the events of one call, and what the program does
\* between an event's losing its request and its handling is not followed.
Room ==
    /\ Len(queue) + Cardinality(Client) <= MaxEvents
    /\ \A i \in DOMAIN queue : queue[i].of # "freed"

Awake == run = "up" /\ call = NoCall

\* accept() of one connection; one that is refused is closed by its visit.
Accept(c) ==
    /\ conn' = [conn EXCEPT ![c] =
                  [NewRequest EXCEPT !.st = IF HostAccess(c) THEN @ ELSE "CLOSE"]]
    /\ conns' = << c >> \o conns
    /\ rset' = rset \cup {c}
    /\ backlog' = Tail(backlog)

Call_RetKept(cs, r, w) ==               \* mutant: retEvent is not reset
    IF cs = << >> THEN NoCall
    ELSE [phase |-> "io", todo |-> cs, r |-> r, w |-> w, ret |-> IF queue = << >> THEN 0 ELSE 1]

\* handleFDEvent resets retEvent.
Call(cs, r, w) ==
    IF cs = << >> THEN NoCall
    ELSE [phase |-> "io", todo |-> cs, r |-> r, w |-> w, ret |-> 0]

\* handleFDEvent -> httpd_handle_event.  A byte in the signal pipe, for an
\* event that is due, comes before the connections.
Round ==
    /\ Awake /\ ~timer /\ Untaken = {} /\ Room
    /\ Readable # {} \/ wset # {} \/ backlog # << >>
    /\ IF backlog # << >> THEN Accept(Head(backlog))
       ELSE UNCHANGED << backlog, conns, conn, rset >>
    /\ call' = Call(conns', Readable, wset)
    /\ UNCHANGED << threaded, access, client, inbox, wset, queue, timer, run >>

\* CTRLCOMM_TIMER: the same without descriptors.  It may be due before the
\* events of the last round.
TimerRound ==
    /\ Awake /\ timer /\ Room
    /\ timer' = FALSE
    /\ call' = Call(conns, {}, {})
    /\ UNCHANGED << threaded, access, client, inbox, backlog, conns, conn, rset, wset, queue, run >>

-----------------------------------------------------------------------------
(* A visit *)

Visiting(phase, c) == run = "up" /\ call.phase = phase /\ c = Head(call.todo)
Becomes(c, r) == conn' = [conn EXCEPT ![c] = r]

\* The ifs that follow in the body of the loop: what comes next in a connection
\* that is in state st, or the next connection.
After(st) ==
    IF call.phase = "io" /\ st \in {"PARSE_HEADER", "PARSE_BODY"}
    THEN [call EXCEPT !.phase = "parse"]
    ELSE IF call.phase \in {"io", "parse"} /\ st = "WRITE_HEADER"
    THEN [call EXCEPT !.phase = "write"]
    ELSE IF st \in {"FINISHED", "CLOSE"} THEN [call EXCEPT !.phase = "finish"]
    ELSE IF Len(call.todo) = 1 THEN NoCall
    ELSE [call EXCEPT !.phase = "io", !.todo = Tail(@)]

\* The event that was pushed is what retEvent is from now on.
Pushed(k) == IF Len(queue') = Len(queue) THEN k ELSE Len(queue')

Goes(c) ==
    /\ call' = LET a == After(conn'[c].st)
               IN  IF a = NoCall THEN a ELSE [a EXCEPT !.ret = Pushed(@)]
    /\ UNCHANGED << threaded, access, backlog, conns, timer >>
\* mkerror and mkheader: an error may tell the client that the connection closes.
MkError(r, ka) == [r EXCEPT !.st = "WRITE_HEADER", !.keep = @ /\ ka]
MkHeader(r) == [r EXCEPT !.st = "WRITE_HEADER"]

NoFds == UNCHANGED << rset, wset >>

\* read_header.  The body is read along with the head if it is there.
ReadHeader(c) ==
    /\ Visiting("io", c) /\ c \in call.r
    /\ conn[c].st \in {"KEEPALIVE", "READ_HEADER"} /\ Head(inbox[c]).part = "head"
    /\ LET r == Head(inbox[c]).req
           whole == Len(inbox[c]) > 1 /\ inbox[c][2].part = "body"
       IN  /\ Becomes(c, [st |-> "PARSE_HEADER", req |-> r, whole |-> whole,
                           keep |-> r.keep, late |-> FALSE, made |-> 0])
           /\ inbox' = [inbox EXCEPT ![c] = SubSeq(@, IF whole THEN 3 ELSE 2, Len(@))]
    /\ NoFds /\ UNCHANGED << client, queue, run >> /\ Goes(c)

ReadBody(c) ==
    /\ Visiting("io", c) /\ c \in call.r
    /\ conn[c].st = "READ_BODY" /\ Head(inbox[c]).part = "body"
    /\ Becomes(c, [conn[c] EXCEPT !.st = "PARSE_BODY", !.late = FALSE])
    /\ inbox' = [inbox EXCEPT ![c] = Tail(@)]
    /\ NoFds /\ UNCHANGED << client, queue, run >> /\ Goes(c)

ReadEof(c) ==
    /\ Visiting("io", c) /\ c \in call.r
    /\ conn[c].st \in {"KEEPALIVE", "READ_HEADER", "READ_BODY"}
    /\ Head(inbox[c]).part = "eof"
    /\ Becomes(c, [conn[c] EXCEPT !.st = "CLOSE"])
    /\ NoFds /\ UNCHANGED << client, inbox, queue, run >> /\ Goes(c)

\* What does not look like a request is answered with 400: the body of one that
\* was refused by its head.
ReadGarbage(c) ==
    /\ Visiting("io", c) /\ c \in call.r
    /\ conn[c].st \in {"KEEPALIVE", "READ_HEADER"} /\ Head(inbox[c]).part = "body"
    /\ Becomes(c, MkError([conn[c] EXCEPT !.late = FALSE], FALSE))
    /\ inbox' = [inbox EXCEPT ![c] = Tail(@)]
    /\ NoFds /\ UNCHANGED << client, queue, run >> /\ Goes(c)

\* The other states do not read, but the connection counts as active.
NotRead(c) ==
    /\ Visiting("io", c) /\ c \in call.r
    /\ conn[c].st \notin {"KEEPALIVE", "READ_HEADER", "READ_BODY"}
    /\ Becomes(c, [conn[c] EXCEPT !.late = FALSE])
    /\ NoFds /\ UNCHANGED << client, inbox, queue, run >> /\ Goes(c)

\* write_request: all, or a part the first time.  To a client that is gone it
\* may fail, or raise SIGPIPE, which nobody handles.  A client that is answered
\* before it sent the body closes.
WriteRequest(c, late) ==
    \/ /\ Becomes(c, [conn[c] EXCEPT !.st = "FINISHED", !.late = late])
       /\ client' = [client EXCEPT ![c] = IF @ \in {"gone", "sending"} THEN "gone" ELSE "idle"]
       /\ inbox' = IF client[c] = "sending" THEN [inbox EXCEPT ![c] = Append(@, Eof)] ELSE inbox
       /\ UNCHANGED run
    \/ /\ conn[c].st = "WRITE_HEADER"
       /\ Becomes(c, [conn[c] EXCEPT !.st = "WRITE_BODY", !.late = late])
       /\ UNCHANGED << client, inbox, run >>
    \/ /\ client[c] = "gone"
       /\ Becomes(c, [conn[c] EXCEPT !.st = "CLOSE", !.late = late])
       /\ UNCHANGED << client, inbox >> /\ run' \in {"up", "killed"}

WriteReady(c) ==
    /\ Visiting("io", c) /\ c \in call.w
    /\ WriteRequest(c, FALSE)
    /\ NoFds /\ UNCHANGED queue /\ Goes(c)

NetworkTimeout_Never(c) == FALSE        \* mutant: only kept connections end

\* The timeouts: keepalive_time for a kept connection, timeout for the others.
KeepaliveOver(c) ==
    conn[c].st = "KEEPALIVE"
        /\ (conn[c].late \/ Len(conns) > (MaxConn * 9) \div 10)
NetworkTimeout(c) == conn[c].st # "KEEPALIVE" /\ conn[c].late

Expire(c) ==
    /\ Visiting("io", c) /\ c \notin call.r \cup call.w
    /\ KeepaliveOver(c) \/ NetworkTimeout(c)
    /\ Becomes(c, IF conn[c].st \in {"READ_HEADER", "READ_BODY"}
                  THEN MkError(conn[c], FALSE)   \* 408
                  ELSE [conn[c] EXCEPT !.st = "CLOSE"])
    /\ NoFds /\ UNCHANGED << client, inbox, queue, run >> /\ Goes(c)

NoIO(c) ==
    /\ Visiting("io", c) /\ c \notin call.r \cup call.w
    /\ ~(KeepaliveOver(c) \/ NetworkTimeout(c))
    /\ NoFds /\ UNCHANGED << client, inbox, conn, queue, run >> /\ Goes(c)

-----------------------------------------------------------------------------
(* processCmd *)

\* processAddTask, processDelTask, processGetInfo, processGetModInfo, and the
\* push.  `post' says that the request can not be parsed again.
PushNew(c) ==
    queue' = Append(queue, [obj |-> 0, by |-> c, of |-> c, taken |-> FALSE,
                            post |-> conn[c].req.method = "POST" /\ conn[c].whole])

Shared == CHOOSE k \in 1 .. Len(queue) + 1 : \A i \in DOMAIN queue : queue[i].obj # k

\* retEvent is of an earlier request of this call: setReq and push it again.
PushStale(c) ==
    LET k == IF queue[call.ret].obj = 0 THEN Shared ELSE queue[call.ret].obj
        again == [queue[call.ret] EXCEPT !.obj = k, !.of = c, !.taken = FALSE]
    IN  queue' = Append([i \in DOMAIN queue |->
                           IF i = call.ret \/ queue[i].obj = k THEN again ELSE queue[i]],
                        again)

\* What the command makes of the connection r, which it leaves in state st.
ProcessCmd(c, r, st) ==
    LET cmd == r.req.cmd
    IN  IF cmd = "task"
        THEN /\ PushNew(c)
             /\ Becomes(c, [r EXCEPT !.st = st, !.made = IF @ < 2 THEN @ + 1 ELSE @])
        ELSE /\ Becomes(c, IF cmd = "unknown" THEN MkError(r, TRUE) ELSE MkHeader(r))
             /\ IF cmd = "page" /\ call.ret # 0 THEN PushStale(c) ELSE UNCHANGED queue

\* Nothing more can be read: read_body finds the end of the stream.
AtEof(c) == inbox[c] # << >> /\ Head(inbox[c]).part = "eof"

StateAfterParse_NotProcess(c) ==        \* mutant: the state is not set
    IF AtEof(c) THEN "CLOSE" ELSE "PARSE_HEADER"

StateAfterParse(c) ==
    IF conn[c].req.method = "POST" THEN "PROCESS"
    ELSE IF AtEof(c) THEN "CLOSE" ELSE "PARSE_HEADER"

\* The first time the lines of the head are cut off: from then on the version
\* alone says whether the connection is kept.
Parsed(r) == [r EXCEPT !.keep = IF r.made = 0 THEN @ ELSE r.req.http11]

ParseHeader(c) ==
    /\ Visiting("parse", c) /\ conn[c].st = "PARSE_HEADER"
    /\ LET r == Parsed(conn[c])
       IN  IF ~UserAccess(c)
           THEN Becomes(c, MkError(r, TRUE)) /\ UNCHANGED queue
           ELSE IF r.req.method = "POST" /\ ~r.whole
           THEN Becomes(c, [r EXCEPT !.st = "READ_BODY"]) /\ UNCHANGED queue
           ELSE ProcessCmd(c, r, StateAfterParse(c))
    /\ NoFds /\ UNCHANGED << client, inbox, run >> /\ Goes(c)

\* parse_request_body leaves the state as it is.
ParseBody(c) ==
    /\ Visiting("parse", c) /\ conn[c].st = "PARSE_BODY"
    /\ ProcessCmd(c, conn[c], "PARSE_BODY")
    /\ NoFds /\ UNCHANGED << client, inbox, run >> /\ Goes(c)

-----------------------------------------------------------------------------

ToWriting_KeepReading(c) ==             \* mutant: FD_CLR is missing
    wset' = wset \cup {c} /\ UNCHANGED rset

ToWriting(c) == rset' = rset \ {c} /\ wset' = wset \cup {c}
ToReading(c) == wset' = wset \ {c} /\ rset' = rset \cup {c}

WriteAtOnce(c) ==
    /\ Visiting("write", c) /\ conn[c].st = "WRITE_HEADER"
    /\ ToWriting(c) /\ WriteRequest(c, conn[c].late)
    /\ UNCHANGED queue /\ Goes(c)

Finish(c) ==
    /\ Visiting("finish", c) /\ conn[c].st = "FINISHED" /\ conn[c].keep
    /\ ToReading(c)
    /\ Becomes(c, [conn[c] EXCEPT !.st = "KEEPALIVE", !.req = None, !.whole = FALSE, !.made = 0])
    /\ UNCHANGED << client, inbox, queue, run >> /\ Goes(c)

\* The request is freed; events that hold it are not told.
Close(c) ==
    /\ Visiting("finish", c)
    /\ conn[c].st = "CLOSE" \/ (conn[c].st = "FINISHED" /\ ~conn[c].keep)
    /\ rset' = rset \ {c} /\ wset' = wset \ {c}
    /\ Becomes(c, Closed)
    /\ \E i \in DOMAIN conns : conns[i] = c /\ conns' = RemoveAt(conns, i)
    /\ queue' = [i \in DOMAIN queue |->
                   IF queue[i].of = c THEN [queue[i] EXCEPT !.of = "freed"] ELSE queue[i]]
    /\ client' = [client EXCEPT ![c] = "off"] /\ inbox' = [inbox EXCEPT ![c] = << >>]
    /\ call' = After("none") /\ UNCHANGED << threaded, access, backlog, timer, run >>

Visit(c) ==
    \/ ReadHeader(c) \/ ReadBody(c) \/ ReadEof(c) \/ ReadGarbage(c) \/ NotRead(c)
    \/ WriteReady(c) \/ Expire(c) \/ NoIO(c)
    \/ ParseHeader(c) \/ ParseBody(c) \/ WriteAtOnce(c) \/ Finish(c) \/ Close(c)

-----------------------------------------------------------------------------
(* The handlers of QualityManager *)

\* sendMsg or sendErrMsg, and the event is deleted: what else is in the queue of
\* the same object dangles.  To answer a request that was freed is undefined.
Answer(i) ==
    /\ queue' = [j \in DOMAIN RemoveAt(queue, i) |->
                   LET q == RemoveAt(queue, i)[j]
                   IN  IF q.obj # 0 /\ q.obj = queue[i].obj THEN [q EXCEPT !.of = "freed"] ELSE q]
    /\ IF queue[i].of = "freed"
       THEN run' = "undefined" /\ NoFds /\ UNCHANGED conn
       ELSE /\ Becomes(queue[i].of, MkHeader(conn[queue[i].of]))
            /\ ToWriting(queue[i].of) /\ UNCHANGED run
    /\ UNCHANGED << threaded, access, client, inbox, backlog, conns, call, timer >>

\* The first event that is due.
Handle ==
    /\ Awake /\ ~threaded /\ Untaken # {}
    /\ Answer(1)

\* The threaded build passes a task on to the processor's thread ...
PassOn ==
    /\ Awake /\ threaded
    /\ \E i \in Untaken :
          /\ \A j \in Untaken : i <= j
          /\ queue' = [queue EXCEPT ![i].taken = TRUE]
    /\ UNCHANGED << threaded, access, client, inbox, backlog, conns, conn, rset, wset, call,
                    timer, run >>

\* ... and answers when that has responded, or at once.
Respond(i) ==
    /\ Awake /\ threaded /\ i \in DOMAIN queue
    /\ Answer(i)

-----------------------------------------------------------------------------
(* The clients and the clock *)

Connect(c) ==
    /\ Awake /\ client[c] = "off" /\ (UseIPv6 \/ AddressOf[c] \in IPv4)
    /\ client' = [client EXCEPT ![c] = "idle"]
    /\ backlog' = Append(backlog, c)
    /\ UNCHANGED << threaded, access, inbox, conns, conn, rset, wset, call, queue, timer, run >>

OutsideRest ==
    UNCHANGED << threaded, access, backlog, conns, conn, rset, wset, call, queue, timer, run >>

\* Bound: what the client sent before was read, so that nothing is pipelined
\* when an answer came that belongs to an earlier request.
Send(c, r) ==
    /\ Awake /\ client[c] = "idle" /\ inbox[c] = << >>
    /\ client' = [client EXCEPT ![c] = IF r.method = "POST" THEN "sending" ELSE "awaiting"]
    /\ inbox' = [inbox EXCEPT ![c] = Append(@, [part |-> "head", req |-> r])]
    /\ OutsideRest

SendBody(c) ==
    /\ Awake /\ client[c] = "sending"
    /\ client' = [client EXCEPT ![c] = "awaiting"]
    /\ inbox' = [inbox EXCEPT ![c] = Append(@, [part |-> "body", req |-> None])]
    /\ OutsideRest

GiveUp(c) ==
    /\ Awake /\ c \in Leaving /\ client[c] \in {"idle", "sending", "awaiting"}
    /\ client' = [client EXCEPT ![c] = "gone"]
    /\ inbox' = [inbox EXCEPT ![c] = Append(@, Eof)]
    /\ OutsideRest

\* The clock: the timeout of an idle connection passes, and CTRLCOMM_TIMER is due,
\* perhaps before an event.  An event that is due does not wait for a timeout of
\* those who were read in the call that made it: no handler runs that long.
Tick(c) ==
    /\ Awake /\ ~timer
    /\ Open(c) /\ ~conn[c].late
    /\ \A i \in Untaken : c \notin {queue[i].of, queue[i].by}
    /\ Becomes(c, [conn[c] EXCEPT !.late = TRUE])
    /\ timer' = TRUE
    /\ UNCHANGED << threaded, access, client, inbox, backlog, conns, rset, wset, call, queue, run >>

Server == Round \/ TimerRound \/ (\E c \in Client : Visit(c)) \/ Handle \/ PassOn
Responds == \E i \in 1 .. MaxEvents : Respond(i)

Next ==
    \/ Server \/ Responds
    \/ \E c \in Client :
          \/ Connect(c) \/ SendBody(c) \/ GiveUp(c)
          \/ \E r \in MayAsk[c] : Send(c, r)
          \/ Tick(c)

Spec == Init /\ [][Next]_vars

\* The main thread runs.  A response comes with a byte in the pipe, which is read
\* before the connections; time passes whatever the thread does.
FairSpec ==
    /\ Spec /\ WF_vars(Server) /\ SF_vars(Responds)
    /\ \A c \in Client : SF_vars(Tick(c))

-----------------------------------------------------------------------------

\* When the thread sleeps in select(), a connection is watched for writing if
\* an answer is on its way out and for reading if not, never for both: nothing
\* that a client does goes unnoticed, and write_request, which loops for ever in
\* any other state, is called for an answer only (httpd.c, CtrlComm::sendMsg).
Watched ==
    run = "up" /\ call = NoCall =>
        \A c \in Client :
            /\ (c \in wset) = (conn[c].st \in {"WRITE_HEADER", "WRITE_BODY"})
            /\ (c \in rset) = (Open(c) /\ c \notin wset)

\* A command in a POST that came complete makes one event, whatever other
\* clients and the timer make httpd do until it is answered.
WholePostsOnce ==
    \A c \in Client :
        conn[c].whole /\ conn[c].req.method = "POST" => conn[c].made <= 1

\* The decision that the configuration states, made without the list checkHosts derives:
\* the first entry that names the client's address decides, whatever family the
\* socket has.
Policy(c) ==
    Decision({i \in DOMAIN access :
        /\ access[i].type = "Host"
        /\ access[i].value = "All" \/ AddressOf[c] \in ToSet(Dns[access[i].value])})

\* No request of a client that the configuration keeps out is looked at.
PolicyKept ==
    \A c \in Client : conn[c].st \notin {"none", "CLOSE"} => Policy(c)

\* An event answers the request it was made by, unless a page request that was
\* parsed later in the same call took it over (retEvent, CtrlComm::processCmd):
\* as httpd visits the newest connection first, that of an older connection
\* only.  In the single-threaded build nothing else comes between a complete
\* POST and its answer, no timeout, end of stream or timer round, and a client
\* that lost its event waits on.
Older(d, c) == \A j, k \in DOMAIN conns : conns[j] = c /\ conns[k] = d => j < k

PendingEvents ==
    run = "up" => \A i \in DOMAIN queue :
        LET e == queue[i]
        IN  /\ e.of \notin {e.by, "freed"} => e.obj # 0 /\ Older(e.of, e.by)
            /\ ~threaded /\ e.post =>
                 conn[e.by].st = "PROCESS" /\ (e.obj = 0 => e.of = e.by)

\* A client that stays is answered or its connection is closed: by the network
\* timeout if nothing else, when its event went to another request.
Answered ==
    \A c \in Client :
        client[c] \in {"sending", "awaiting"} ~>
            client[c] \notin {"sending", "awaiting"} \/ run # "up"

\* processCmd is called "in case of new request" (CtrlComm.cpp): a request makes
\* at most one event.
OneEventPerRequest == \A c \in Client : conn[c].made <= 1
================================================================================
