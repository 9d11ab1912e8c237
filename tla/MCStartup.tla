------------------------------- MODULE MCStartup -------------------------------
(***************************************************************************)
(* Three starts, each with one of the command lines and files below.       *)
(***************************************************************************)
EXTENDS Startup

Pref(name, text) == [name |-> name, type |-> "String", text |-> text]
Typed(name, type, n) == [name |-> name, type |-> type, text |-> Texts!Num(n)]
Str(name, w) == Pref(name, Texts!Word(w))

HtbPrefs == << Typed("Rate", "UInt32", 100), Typed("Burst", "UInt32", 10) >>
Module(name, prefs) == [name |-> name, prefs |-> prefs]
Main == << Str("LogFile", "conf.log"), Str("NetInterface", "eth0") >>
Qos(mods) == << Str("ModuleDir", "lib"), Pref("Modules", [words |-> mods]) >>
Control(more) == << Typed("Enable", "Bool", 1) >> \o more

Plain == [valid |-> TRUE, main |-> Main,
          control |-> Control(<< Str("UseIPv6", "no") >>),
          qos |-> Qos(<< "htb", "tbf" >>),
          modules |-> << Module("htb", HtbPrefs) >>]
V6 == [Plain EXCEPT !.control = Control(<< Str("UseIPv6", "yes") >>)]
\* No port to listen on.
BadPort == [Plain EXCEPT !.control = Append(@, Typed("ControlPort", "UInt16", 80))]
\* The interface is in another group, the level is below zero; a port that the
\* command line changes.
Spread == [Plain EXCEPT !.main = << Typed("VerboseLevel", "SInt8", -1) >>,
                       !.control = @ \o << Str("NetInterface", "eth0"),
                                             Typed("ControlPort", "UInt16", 3000) >>]
\* A type that the value is not of.
Broken == [Plain EXCEPT !.main = Append(@, Pref("NoPromiscInt", Texts!Word("maybe")))]
Broken2 == [Broken EXCEPT !.main[3].type = "Bool"]
\* A parameter twice, and none of IPv6.
Twice == [Plain EXCEPT !.modules[1].prefs = @ \o HtbPrefs]
NoV6 == [Plain EXCEPT !.control = Control(<< >>)]

Line(args, read) == [args |-> args, file |-> read]
MCStarts ==
    [ plain |-> Line(<< >>, Plain),
      moved |-> Line(<< << "l", Texts!Word("args.log") >>, << "P", Texts!Num(2000) >>,
                        << "i", Texts!Word("eth1") >> >>, Spread),
      v6 |-> Line(<< >>, V6),
      \* Those that end on their own, one way or another.
      badport |-> Line(<< >>, BadPort),
      broken |-> Line(<< >>, Broken2),
      nov6 |-> Line(<< >>, NoV6),
      twice |-> Line(<< >>, Twice),
      usage |-> Line(<< << "nonoption", Texts!Word("eth0") >> >>, Plain),
      nowhere |-> Line(<< << "l", Texts!Word("nowhere") >> >>, Plain) ]

Symmetry == Permutations(Daemons)
=============================================================================
