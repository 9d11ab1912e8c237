-------------------------------- MODULE Config --------------------------------
(***************************************************************************)
(* The settings of the daemon: the command line (CommandLineArgs), the     *)
(* configuration file (ConfigParser) and the list the two are merged into  *)
(* (ConfigManager), with the Logger they name a file for.                  *)
(*                                                                         *)
(* A file is [valid, main, control, qos, modules]: three sequences of      *)
(* preferences [name, type, text] and one of [name, prefs].  Texts are     *)
(* those of FilterValues, [rel |-> w] for a relative path and              *)
(* [words |-> seq] for a list of names.                                    *)
(***************************************************************************)
EXTENDS Integers, Sequences, SequencesExt

Texts == INSTANCE FilterValues
            WITH Resolvable <- {}, MaxFilterLen <- 32, MaxFilterSet <- 16

NoText == Texts!Word("")

-----------------------------------------------------------------------------
(* CommandLineArgs: what QualityManager registers, in the order of a map;  *)
(* a line is a sequence of << option, text >> as getopt_long yields them    *)

Option(opt, name, group) == [opt |-> opt, name |-> name, group |-> group]
Options == << Option("C", "FilterConstFile", "MAIN"),
              Option("D", "FilterDefFile", "MAIN"), Option("P", "ControlPort", "CONTROL"),
              Option("V", "RelVersion", "MAIN"), Option("c", "ConfigFile", "MAIN"),
              Option("i", "NetInterface", "MAIN"), Option("l", "LogFile", "MAIN"),
              Option("p", "NoPromiscInt", "MAIN"), Option("r", "RuleFile", "MAIN") >>

\* The first argument that is no option, or asks for help, or is unknown ends
\* the loop; the first two end the program without an error, as "V" does.
ArgsFate(args) ==
    LET IsLast(a) == a[1] \in {"nonoption", "h", "?"}
        last == SelectInSeq(args, IsLast)
    IN  CASE last # 0 -> IF args[last][1] = "?" THEN "error" ELSE "usage"
          [] last = 0 /\ \E i \in DOMAIN args : args[i][1] = "V" -> "usage"
          [] OTHER -> "go on"

\* Of an option given twice the later value stays, a flag has the value "yes".
ArgPlace(args, opt) == SelectLastInSeq(args, LAMBDA a : a[1] = opt)

-----------------------------------------------------------------------------
(* ConfigParser *)

ParsesPref(p) ==
    /\ p.name # ""
    /\ p.text # NoText
    /\ Texts!ParsesItem(p.type, p.text)

\* A relative path starts at the directory of the program.
Placed(p, bindir) ==
    IF p.type = "String" /\ Texts!Is("rel", p.text) /\ bindir # "."
    THEN [dir |-> bindir, rel |-> p.text.rel] ELSE p.text

Item(p, group, module, bindir) ==
    [name |-> p.name, value |-> Placed(p, bindir), group |-> group, module |-> module]

ItemsOf(prefs, group, module, bindir) ==
    [i \in DOMAIN prefs |-> Item(prefs[i], group, module, bindir)]

Items(file, bindir) ==
    ItemsOf(file.main, "MAIN", "", bindir)
    \o ItemsOf(file.control, "CONTROL", "", bindir)
    \o ItemsOf(file.qos, "QOS_PROCESSOR", "", bindir)
    \o FlattenSeq([m \in DOMAIN file.modules |->
           ItemsOf(file.modules[m].prefs, "QOS_PROCESSOR", file.modules[m].name, bindir)])

Prefs(file) ==
    ToSet(file.main) \cup ToSet(file.control) \cup ToSet(file.qos)
    \cup UNION {ToSet(file.modules[m].prefs) : m \in DOMAIN file.modules}

ParsesFile(file) ==
    /\ file.valid               \* against its DTD
    /\ \A p \in Prefs(file) : ParsesPref(p)
    /\ \A m \in DOMAIN file.modules :
         file.modules[m].prefs # << >> => file.modules[m].name # ""

-----------------------------------------------------------------------------
(* ConfigManager: the first item that fits, whatever its module; an empty  *)
(* group fits any                                                          *)

Place(list, name, group) ==
    SelectInSeq(list, LAMBDA i : i.name = name /\ (group # "" => i.group = group))

HasItem(list, name) == Place(list, name, "") # 0
GetItem(list, name) == list[Place(list, name, "")]

GetValue(list, name, group) ==
    LET at == Place(list, name, group) IN IF at = 0 THEN NoText ELSE list[at].value

GetItems(list, group, module) ==
    SelectSeq(list, LAMBDA i : i.group = group /\ i.module = module)

IsTrue(value) == value \in {Texts!Num(1), Texts!Word("true"), Texts!Word("yes")}

New(name, value, group) ==
    [name |-> name, value |-> value, group |-> group, module |-> ""]
SetItem_Appends(list, name, value, group) ==    \* mutant: an item that is there stays
    Append(list, New(name, value, group))
SetItem(list, name, value, group) ==
    LET at == Place(list, name, group)
    IN  IF at = 0 THEN Append(list, New(name, value, group))
        ELSE [list EXCEPT ![at] = New(name, value, group)]

MergeArgs(list, args) ==
    FoldLeft(LAMBDA l, o : LET at == ArgPlace(args, o.opt)
                           IN  IF at = 0 THEN l
                               ELSE SetItem(l, o.name, args[at][2], o.group),
             list, Options)

-----------------------------------------------------------------------------
(* Files: names and what they lead to.  A file that lost its name is still *)
(* written to by whoever holds it.                                         *)

NoFile == 0
Ids(fs) == {fs.name[n] : n \in DOMAIN fs.name}
Unlinked(fs, name) == [fs EXCEPT !.name[name] = NoFile]
Fresh(fs, held) ==
    CHOOSE f \in DOMAIN fs.data : /\ f \notin Ids(fs) \cup held
                                  /\ \A g \in DOMAIN fs.data :
                                       g < f => g \in Ids(fs) \cup held
Named(fs, name, held) ==        \* fopen for appending
    IF fs.name[name] # NoFile THEN fs
    ELSE LET f == Fresh(fs, held)
         IN  [name |-> [fs.name EXCEPT ![name] = f], data |-> [fs.data EXCEPT ![f] = << >>]]
Emptied(fs, name, held) ==      \* fopen for writing
    LET opened == Named(fs, name, held)
    IN  [opened EXCEPT !.data[opened.name[name]] = << >>]
Written(fs, f, lines) == [fs EXCEPT !.data[f] = @ \o lines]

-----------------------------------------------------------------------------
(* Logger: all channels write to its one file, at or below its level *)

\* The constructor and its first channel remove the file's name and open it.
LogOpened(fs, name, held) == Named(Unlinked(fs, name), name, held)

\* moveChannels: what the old file holds goes to a new one under the new name.
LogMoved(fs, from, to, held) ==
    LET old == fs.name[from]
        opened == Named(Unlinked(fs, to), to, held)
    IN  Unlinked(Written(opened, opened.name[to], fs.data[old]), from)

\* A level below zero turns logging off; the Logger tells so in any case.
Logged(fs, f, level, line) == IF level < 0 THEN fs ELSE Written(fs, f, << line >>)
=============================================================================
