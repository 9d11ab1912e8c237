------------------------------- MODULE MCRules -------------------------------
(***************************************************************************)
(* Attributes of three types in a sound file and in one whose reverse      *)
(* attribute is missing; documents that share names and differ in what the *)
(* parsers, the constructor and the index treat differently.               *)
(***************************************************************************)
EXTENDS RuleInfo

Def1(name, type, rev) ==
    [name |-> name, type |-> type, field |-> name, length |-> Num(1),
     mask |-> Hex(1), rev |-> rev]

MCDefFile == << Def1("srcip", "IPAddr", "dstip"), Def1("dstip", "IPAddr", "srcip"),
                Def1("port", "UInt16", ""), Def1("port", "UInt8", ""),
                Def1("proto", "UInt8", "") >>
\* A reverse attribute that is not there.
MCDefFiles == {MCDefFile, << Def1("srcip", "IPAddr", "dstip"), Def1("port", "UInt16", "") >>}

MCValFile == << [name |-> "tcp", type |-> "UInt8", text |-> Num(6)],
                [name |-> "ssh", type |-> "UInt16", text |-> Num(22)] >>

F(name, value) == [name |-> name, value |-> value, mask |-> Hex(1)]
A(name, conf) == [name |-> name, conf |-> conf]

None == [n \in {} |-> 0]
Element(name, filters, actions, miscs) ==
    [name |-> name, filters |-> filters, actions |-> actions, miscs |-> miscs,
     ok |-> TRUE]
Xml(actions, miscs, rules) ==
    [kind |-> "xml", valid |-> TRUE, set |-> "s",
     global |-> [actions |-> actions, miscs |-> miscs], rules |-> rules]

TcpPort == << F("proto", << "exact", Word("tcp") >>),
              F("port", << "range", Num(22), Num(70000) >>) >>
FromHost == << F("srcip", << "exact", Word("host") >>) >>

\* Two rules that share the global action: one overrides it, one adds to it.
Both == Xml(<< A("htb", {"slow"}), A("tbf", {}) >>, "Duration" :> 2,
            << Element("a", TcpPort, << A("htb", {"fast"}) >>, None),
               Element("b", FromHost, << >>, "Start" :> << "at", 2 >>) >>)
\* The second rule names a value of another type.
HalfBad == Xml(<< A("htb", {}) >>, None,
               << Element("a", FromHost, << >>, None),
                  Element("c", << F("port", << "exact", Word("tcp") >>) >>, << >>, None) >>)
Timed == Xml(<< A("htb", {}) >>, "Stop" :> << "+", 2 >>,
             << Element("a", FromHost, << >>, "Duration" :> 1) >>)

Opt(o) == << "-", o >>
Line(tokens) == [padded |-> FALSE, tokens |-> tokens]
Good == << << "word", "s", "a" >>, Opt("r"),
           << "=", "port", << "set", Word("ssh"), Num(80) >> >>,
           Opt("a"), << "word", "0", "htb" >>, << "=", "rate", "5" >>,
           Opt("m"), << "=", "Stop", << "at", 3 >> >> >>
Waiting == << << "word", "s", "d" >>, Opt("w"), << "word", "0", "now" >> >>

MapiOne == [kind |-> "mapi", lines |-> << Line(Good) >>]
MapiBlank == [kind |-> "mapi", lines |-> << Line(Good), Line(<< >>) >>]
MapiTwo == [kind |-> "mapi", lines |-> << Line(Good), Line(Good) >>]
MapiWaits == [kind |-> "mapi", lines |-> << Line(Waiting) >>]

MCDocuments == {Both, HalfBad, Timed, MapiOne, MapiBlank, MapiTwo, MapiWaits}
MCTmShift == {0, -1}
=============================================================================
