-------------------------------- MODULE Startup --------------------------------
(***************************************************************************)
(* Daemons of one host that are started, run and end, possibly at the same *)
(* time: the lock file that shall keep a second one out (alreadyRunning),  *)
(* the constructor of QualityManager up to "Up and running", and what each *)
(* way to end leaves in the file system and in the kernel.                 *)
(*                                                                         *)
(* A daemon stands for its process identifier.  Each access to the lock    *)
(* file is a step, as the processes are not synchronised; a step inside    *)
(* the constructor is what one object of it does.                          *)
(***************************************************************************)
EXTENDS Config, FiniteSets, TLC

CONSTANTS
    Daemons,        \* process identifiers of the starts
    Starts,         \* command lines and configuration files of starts, by a name
    Modules,        \* libraries in the module directory
    Interfaces,     \* network interfaces of the host
    BinDir,         \* the directory of the program
    DefaultPort,    \* DEF_PORT
    MaxTogether,    \* bound: daemons alive at a time
    MaxFaults       \* bound: daemons killed, requests the kernel refuses and identifiers
                    \* of ended daemons that other processes get, together

VARIABLES
    phase,      \* what a daemon does next
    fate,       \* how it ended
    setup,      \* what it was started with
    conf,       \* its settings: the file's and the command line's merged
    oldPid,     \* alreadyRunning: what it read
    file,       \* the file it holds open: the lock, later its log
    fs,         \* names and files
    module,     \* the module: [link, served], the interface it holds and has set up
    qdisc,      \* the kernel's root qdisc of each interface: who made it, whether
                \* it has its default class and its tables of filters
    foreign,    \* identifiers other processes have got
    faults,     \* how many there were
    raced       \* two daemons looked for each other at the same time

own == << setup, conf, oldPid, file, module >>
kernel == << qdisc, faults >>
vars == << phase, fate, own, fs, kernel, foreign, raced >>

Setups == DOMAIN Starts
Nobody == "nobody"
NoSetup == "none"
NoModule == [link |-> "", served |-> FALSE]
NoQdisc == [owner |-> Nobody, default |-> FALSE, tables |-> FALSE]

ASSUME StartupAssumption ==
    /\ IsFiniteSet(Daemons) /\ Nobody \notin Daemons
    /\ "" \notin Interfaces        \* an interface has a name
    /\ {MaxTogether, MaxFaults} \subseteq Nat
    /\ DefaultPort \in Nat

Lock == "netqos.pid"
DefaultLog == "netqos.log"
LogNames == {DefaultLog, "conf.log", "args.log"}

\* alreadyRunning, from the first access of the lock to the last
Checking == {"read", "ps", "unlink", "create", "write"}
Constructing == {"logger", "processor", "control"}
Lives(p) == phase[p] \notin {"idle", "over"}
Serving == {p \in Daemons : phase[p] \in Constructing \cup {"up"}}

Init ==
    /\ phase = [p \in Daemons |-> "idle"]
    /\ fate = [p \in Daemons |-> "none"]
    /\ setup = [p \in Daemons |-> NoSetup]
    /\ conf = [p \in Daemons |-> << >>]
    /\ oldPid = [p \in Daemons |-> Nobody]
    /\ file = [p \in Daemons |-> NoFile]
    /\ fs = [name |-> [n \in {Lock, "netmate.pid"} \cup LogNames |-> NoFile],
             data |-> [f \in 1 .. 2 * Cardinality(Daemons) + 4 |-> << >>]]
    /\ module = [p \in Daemons |-> NoModule]
    /\ qdisc = [i \in Interfaces |-> NoQdisc]
    /\ foreign = {} /\ faults = 0
    /\ raced = FALSE

\* Bound: after a race, of which only the ports are told, nothing fails.
MayFail == faults < MaxFaults /\ ~raced

Held == {file[p] : p \in Daemons} \ {NoFile}
Goes(p, next) == phase' = [phase EXCEPT ![p] = next]

-----------------------------------------------------------------------------
(* The end of a process.  exit_fct, registered once alreadyRunning is      *)
(* through, unlinks the lock file of another program.                      *)

AtExit_Early(registered) == {Lock}      \* mutant: registered first, the right name
AtExit(registered) == IF registered THEN {"netmate.pid"} ELSE {}

Ends(p, how) ==
    /\ Goes(p, "over")
    /\ fate' = [fate EXCEPT ![p] = how]
    /\ file' = [file EXCEPT ![p] = NoFile]
    /\ setup' = [setup EXCEPT ![p] = NoSetup]
    /\ conf' = [conf EXCEPT ![p] = << >>]
    /\ oldPid' = [oldPid EXCEPT ![p] = Nobody]
    /\ module' = [module EXCEPT ![p] = NoModule]

ExitsWith(p, files) ==  \* exit, with 0 or 1, or the return from main
    /\ Ends(p, "exit")
    /\ LET gone == AtExit(phase[p] \in Constructing \cup {"up"})
       IN  fs' = [files EXCEPT !.name = [n \in DOMAIN @ |-> IF n \in gone THEN NoFile ELSE @[n]]]
Exits(p) == ExitsWith(p, fs)

Dies(p) ==              \* a signal or terminate
    /\ Ends(p, "crash")
    /\ UNCHANGED fs

-----------------------------------------------------------------------------
(* parseArgs and alreadyRunning *)

\* The rest of what a daemon is started with is told when it is looked at.
Begin(p) ==
    /\ phase[p] = "idle"
    /\ Cardinality({q \in Daemons : Lives(q)}) < MaxTogether
    /\ \E args \in {ArgsFate(Starts[s].args) : s \in Setups} :
         IF args = "go on"
         THEN Goes(p, "stat") /\ UNCHANGED << fate, own, fs >>
         ELSE Exits(p)
    /\ UNCHANGED << kernel, foreign, raced >>

Stat(p) ==
    /\ phase[p] = "stat"
    /\ Goes(p, IF fs.name[Lock] # NoFile THEN "read" ELSE "create")
    /\ raced' = (raced \/ \E q \in Daemons \ {p} : phase[q] \in Checking)
    /\ UNCHANGED << fate, own, fs, kernel, foreign >>

\* What fscanf does not find, an empty file, leaves oldPid as it was: any
\* number, of a process or of none.
Read(p) ==
    /\ phase[p] = "read"
    /\ \/ /\ fs.name[Lock] = NoFile
          /\ Exits(p)
       \/ /\ fs.name[Lock] # NoFile
          /\ LET found == fs.data[fs.name[Lock]]
             IN  \E pid \in IF found = << >> THEN {Nobody, p} ELSE {found[1]} :
                   oldPid' = [oldPid EXCEPT ![p] = pid]
          /\ Goes(p, "ps")
          /\ UNCHANGED << fate, setup, conf, file, module, fs >>
    /\ UNCHANGED << kernel, foreign, raced >>

Running(pid) == pid # Nobody /\ (Lives(pid) \/ pid \in foreign)

Ps(p) ==
    /\ phase[p] = "ps"
    /\ IF Running(oldPid[p])
       THEN Exits(p)
       ELSE /\ oldPid' = [oldPid EXCEPT ![p] = Nobody]
            /\ Goes(p, "unlink")
            /\ UNCHANGED << fate, setup, conf, file, module, fs >>
    /\ UNCHANGED << kernel, foreign, raced >>

Unlink(p) ==
    /\ phase[p] = "unlink"
    /\ fs' = Unlinked(fs, Lock)
    /\ Goes(p, "create")
    /\ UNCHANGED << fate, own, kernel, foreign, raced >>

Create(p) ==
    /\ phase[p] = "create"
    /\ fs' = Emptied(fs, Lock, Held)
    /\ file' = [file EXCEPT ![p] = fs'.name[Lock]]
    /\ Goes(p, "write")
    /\ UNCHANGED << fate, setup, conf, oldPid, module, kernel, foreign, raced >>

\* The line reaches the file with fclose, at its beginning.
Write(p) ==
    /\ phase[p] = "write"
    /\ fs' = [fs EXCEPT !.data[file[p]] = << p >>]
    /\ file' = [file EXCEPT ![p] = NoFile]
    /\ Goes(p, "logger")
    /\ UNCHANGED << fate, setup, conf, oldPid, module, kernel, foreign, raced >>

-----------------------------------------------------------------------------
(* Logger and ConfigManager *)

Settings(s) == MergeArgs(Items(Starts[s].file, BinDir), Starts[s].args)
File(p) == Starts[setup[p]].file

\* A name of a log file is a path that can be opened or not.
LogFile(list) ==
    LET given == GetValue(list, "LogFile", "MAIN")
    IN  IF given = NoText THEN DefaultLog ELSE given.word
LogMoves(list) == LogFile(list) # DefaultLog
Level(list) ==
    LET given == GetValue(list, "VerboseLevel", "MAIN")
    IN  IF given = NoText THEN 4 ELSE Texts!Number(given)
LevelParses(list) ==
    LET given == GetValue(list, "VerboseLevel", "MAIN")
    IN  given = NoText \/ Texts!ParsesNumber(given, -1, 4)

Moved(list, files) ==
    IF LogMoves(list)
    THEN LogMoved(files, DefaultLog, LogFile(list), Held \cup {files.name[DefaultLog]})
    ELSE files

\* An Error is logged before it ends the program, unless it tells that the log
\* cannot move: then there is none.
Configured(p, s, list, files) ==
    LET cannot == LogMoves(list) /\ LogFile(list) \notin LogNames
        moved == Moved(list, files)
    IN  CASE ~ParsesFile(Starts[s].file) \/ cannot -> ExitsWith(p, files)
          [] ParsesFile(Starts[s].file) /\ ~cannot /\ ~LevelParses(list) ->
               ExitsWith(p, moved)
          [] OTHER ->
               LET f == moved.name[LogFile(list)]
               IN  /\ setup' = [setup EXCEPT ![p] = s]
                   /\ conf' = [conf EXCEPT ![p] = list]
                   /\ file' = [file EXCEPT ![p] = f]
                   /\ fs' = Written(moved, f, << << p, "configured" >> >>)
                   /\ Goes(p, "processor")
                   /\ UNCHANGED << fate, oldPid, module >>

\* The log is opened under the default name.  What a daemon is started with is
\* told here, where it reads it.
Configure(p) ==
    /\ phase[p] = "logger"
    /\ LET opened == LogOpened(fs, DefaultLog, Held)
           logged == Written(opened, opened.name[DefaultLog], << << p, "initializing" >> >>)
       IN  \E s \in {t \in Setups : ArgsFate(Starts[t].args) = "go on"} :
             Configured(p, s, Settings(s), logged)
    /\ UNCHANGED << kernel, foreign, raced >>

-----------------------------------------------------------------------------
(* QOSProcessor, ModuleLoader and ProcModule: one module is loaded *)

\* Of a list only the first name is taken.
Preloaded(p) ==
    LET list == GetValue(conf[p], "Modules", "QOS_PROCESSOR")
    IN  IF list = NoText THEN {} ELSE {Head(list.words)}
\* Without a directory it is "/", where no module is.
Loads(p) ==
    Preloaded(p) # {} =>
      /\ GetValue(conf[p], "ModuleDir", "QOS_PROCESSOR") # NoText
      /\ Preloaded(p) \subseteq Modules

\* The constructor of ProcModule follows the pointers of two items, which it
\* looks up in all groups.
ItemsThere(p) == \A name \in {"NetInterface", "UseIPv6"} : HasItem(conf[p], name)
Params(p, mod) ==
    GetItems(conf[p], "QOS_PROCESSOR", mod)
    \o << GetItem(conf[p], "NetInterface"), GetItem(conf[p], "UseIPv6") >>
Interface(p) == GetItem(conf[p], "NetInterface").value.word
UseIPv6(p) == IsTrue(GetItem(conf[p], "UseIPv6").value)

\* initModule of htb wants its four parameters, each once.
Enough(p) ==
    Len(SelectSeq(Params(p, "htb"),
            LAMBDA i : i.name \in {"Rate", "Burst", "NetInterface", "UseIPv6"})) = 4

Loaded(p, made, interfaces) ==
    /\ module' = [module EXCEPT ![p] = made]
    /\ qdisc' = interfaces
    /\ Goes(p, "control")
    /\ UNCHANGED << fate, setup, conf, oldPid, file, fs >>

\* ProcModule reports a ProcError of initModule and goes on; what initModule
\* did so far stays.
InitHtb(p) ==
    LET i == Interface(p)
        linked(served) == [link |-> i, served |-> served]
        made == [owner |-> p, default |-> TRUE, tables |-> ~UseIPv6(p)]
        partly == ({NoQdisc} \cup [owner : {p}, default : BOOLEAN, tables : {FALSE}]) \ {made}
    IN  CASE ~Enough(p) \/ i \notin Interfaces ->
               Loaded(p, NoModule, qdisc) /\ UNCHANGED faults
          [] Enough(p) /\ i \in Interfaces /\ qdisc[i] # NoQdisc ->
               Loaded(p, linked(FALSE), qdisc) /\ UNCHANGED faults
          [] OTHER ->
               \/ /\ Loaded(p, linked(TRUE), [qdisc EXCEPT ![i] = made])
                  /\ UNCHANGED faults
               \/ /\ MayFail
                  /\ faults' = faults + 1
                  /\ \E kept \in partly :
                       Loaded(p, linked(FALSE), [qdisc EXCEPT ![i] = kept])

StartProcessor(p) ==
    /\ phase[p] = "processor"
    /\ CASE ~Loads(p) -> Exits(p) /\ UNCHANGED kernel
         [] Loads(p) /\ Preloaded(p) # {} /\ ~ItemsThere(p) ->
              Dies(p) /\ UNCHANGED kernel
         [] Loads(p) /\ Preloaded(p) = {"htb"} /\ ItemsThere(p) -> InitHtb(p)
         [] OTHER -> Loaded(p, NoModule, qdisc) /\ UNCHANGED faults
    /\ UNCHANGED << foreign, raced >>

\* destroyModule: with IPv6 nothing; otherwise two requests, the default class
\* and then the root go, whoever made them.  If the class is missing, or the
\* kernel refuses to delete it, it throws, out of a destructor.  What becomes of
\* the second request it does not look at: without it the root stays, with its
\* tables, which the exit does not tell.
Destroys(p) == ItemsThere(p) /\ ~UseIPv6(p) /\ module[p].link # ""
Undone(q) == [owner |-> q.owner, default |-> FALSE, tables |-> q.tables]
Left(p) == [qdisc EXCEPT ![module[p].link] = Undone(qdisc[module[p].link])]
Destroyed_Leaves(p) == Left(p)      \* mutant: the root is not deleted
Destroyed(p) == [qdisc EXCEPT ![module[p].link] = NoQdisc]

Throws(p) ==
    /\ Dies(p)
    /\ \/ ~qdisc[module[p].link].default /\ UNCHANGED faults
       \/ MayFail /\ faults' = faults + 1
    /\ UNCHANGED qdisc

Destroy(p) ==
    \/ Throws(p)
    \/ /\ qdisc[module[p].link].default
       /\ Exits(p)
       /\ \/ qdisc' = Destroyed(p) /\ UNCHANGED faults
          \/ MayFail /\ faults' = faults + 1 /\ qdisc' = Left(p)

\* The destructors, then the exit.
TearDown(p) ==
    IF Destroys(p) THEN Destroy(p) ELSE Exits(p) /\ UNCHANGED kernel

-----------------------------------------------------------------------------
(* CtrlComm, and run *)

Enabled(p) == IsTrue(GetValue(conf[p], "Enable", "CONTROL"))
Port(p) ==
    LET given == GetValue(conf[p], "ControlPort", "CONTROL")
    IN  IF given = NoText THEN DefaultPort ELSE Texts!Number(given)
Listens(q, n) == phase[q] = "up" /\ Enabled(q) /\ Port(q) = n
PortFree(n) == n > 1024 /\ n <= 65536 /\ \A q \in Daemons : ~Listens(q, n)

StartControl(p) ==
    /\ phase[p] = "control"
    /\ IF Enabled(p) => PortFree(Port(p))
       THEN /\ Goes(p, "up")
            /\ fs' = Logged(fs, file[p], Level(conf[p]), << p, "listening" >>)
            /\ UNCHANGED << fate, own, kernel >>
       ELSE TearDown(p)
    /\ UNCHANGED << foreign, raced >>

\* run ends, and the destructors run.
Stop(p) ==
    /\ phase[p] = "up"
    /\ TearDown(p)
    /\ UNCHANGED << foreign, raced >>

-----------------------------------------------------------------------------
(* The host *)

Crash(p) ==
    /\ Lives(p) /\ MayFail
    /\ faults' = faults + 1
    /\ Dies(p)
    /\ UNCHANGED << qdisc, foreign, raced >>

Reuse(p) ==
    /\ phase[p] = "over" /\ p \notin foreign /\ MayFail
    /\ faults' = faults + 1
    /\ foreign' = foreign \cup {p}
    /\ UNCHANGED << phase, fate, own, fs, qdisc, raced >>

ForeignEnds(p) ==
    /\ p \in foreign
    /\ foreign' = foreign \ {p}
    /\ UNCHANGED << phase, fate, own, fs, kernel, raced >>

Next ==
    \E p \in Daemons :
      \/ Begin(p) \/ Stat(p) \/ Read(p) \/ Ps(p) \/ Unlink(p) \/ Create(p) \/ Write(p)
      \/ Configure(p) \/ StartProcessor(p) \/ StartControl(p) \/ Stop(p)
      \/ Crash(p) \/ Reuse(p) \/ ForeignEnds(p)

Spec == Init /\ [][Next]_vars

-----------------------------------------------------------------------------
\* Unless two of them looked at the lock at the same time, one daemon at most
\* is past alreadyRunning, and the lock names it: "already running on this
\* machine".  Those that slipped through together at least do not listen on
\* one port.
OneServes ==
    /\ ~raced => /\ Cardinality(Serving) <= 1
                 /\ \A p \in Serving : /\ fs.name[Lock] # NoFile
                                      /\ fs.data[fs.name[Lock]] = << p >>
    /\ \A p, q \in {r \in Daemons : phase[r] = "up" /\ Enabled(r)} :
         Port(p) = Port(q) => p = q

\* What a daemon set up in the kernel stays while it serves, whatever is
\* started or refused meanwhile.  An end in order takes the tables of its tree
\* down, unless the kernel refused to delete the root, which the code does not
\* notice: each of those that have left theirs behind stands for one refused
\* request, and its tree is without the default class, so that the next module
\* of that interface can neither be set up nor destroyed.
LeftTables == {p \in Daemons : fate[p] = "exit" /\ \E i \in Interfaces :
                                qdisc[i].owner = p /\ qdisc[i].tables}
QdiscHeld ==
    /\ ~raced => \A p \in Serving : module[p].served =>
                   qdisc[module[p].link] = [owner |-> p, default |-> TRUE,
                                            tables |-> ~UseIPv6(p)]
    /\ Cardinality(LeftTables) <= faults
    /\ \A i \in Interfaces, p \in Daemons :
         qdisc[i].owner = p /\ fate[p] = "exit" /\ qdisc[i].tables => ~qdisc[i].default

\* "in order of precedence: from command line / from config file / hardcoded
\* default".  What a running daemon uses is what that says: its log, which
\* holds all it logged from the first line on, and its port; and the interface
\* of the command line, unless another group has one and MAIN has none.
Given(p, opt) == {a[2] : a \in {b \in ToSet(Starts[setup[p]].args) : b[1] = opt}}
InFile(prefs, name) == {d.text : d \in {e \in ToSet(prefs) : e.name = name}}
Precedence(p, opt, prefs, name, default) ==
    CASE Given(p, opt) # {} -> Given(p, opt)
      [] Given(p, opt) = {} /\ InFile(prefs, name) # {} -> InFile(prefs, name)
      [] OTHER -> {default}

LinesOf(p, f) == SelectSeq(fs.data[f], LAMBDA line : line[1] = p)
LogKept(p) ==
    LET name == LogFile(conf[p])
    IN  /\ Texts!Word(name) \in Precedence(p, "l", File(p).main, "LogFile",
                                        Texts!Word(DefaultLog))
        /\ fs.name[name] = file[p]
        /\ LinesOf(p, file[p]) =
             << << p, "initializing" >>, << p, "configured" >> >>
             \o IF Level(conf[p]) < 0 THEN << >> ELSE << << p, "listening" >> >>

Elsewhere(p) ==
    \E prefs \in {File(p).control, File(p).qos} :
      InFile(prefs, "NetInterface") # {}

SettingsHeld ==
    ~raced => \A p \in Daemons : phase[p] = "up" =>
        /\ LogKept(p)
        /\ Texts!Num(Port(p)) \in Precedence(p, "P", File(p).control, "ControlPort",
                                          Texts!Num(DefaultPort))
        /\ module[p].link # "" =>
             \/ Texts!Word(module[p].link) \in
                  Precedence(p, "i", File(p).main, "NetInterface", NoText)
             \/ Elsewhere(p) /\ InFile(File(p).main, "NetInterface") = {}
=============================================================================
