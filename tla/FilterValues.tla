----------------------------- MODULE FilterValues -----------------------------
(***************************************************************************)
(* The texts of filters and what becomes of them: numbers and addresses    *)
(* (ParserFcts), typed values (FilterValue), the files that define the     *)
(* attributes of a packet and name values (FilterDefParser,                *)
(* FilterValParser), and a filter of a rule (parseFilterValue).            *)
(*                                                                         *)
(* A text is Num(n), Addr(a), Hex(l) ("0x" and digits of l bytes) or       *)
(* Word(w): what the scanners tell apart.  An operator Parses... says that *)
(* the code throws no Error, and the operator beside it what it returns.   *)
(***************************************************************************)
EXTENDS Integers, Sequences, SequencesExt

CONSTANTS
    Resolvable,     \* words the resolver knows as host names
    MaxFilterLen,   \* MAX_FILTER_LEN, 32 bytes
    MaxFilterSet    \* MAX_FILTER_SET_SIZE, 16 values

Num(n) == [num |-> n]
Addr(a) == [addr |-> a]
Hex(l) == [hex |-> l]
Word(w) == [word |-> w]
Is(form, t) == form \in DOMAIN t

-----------------------------------------------------------------------------
(* ParserFcts *)

\* A value below the minimum AND above the maximum is refused: none ever is.
OutOfRange(n, min, max) == n < min /\ n > max

\* parseULong, parseLong and parseInt take decimal and hexadecimal numbers.
ParsesNumber(t, min, max) ==
    \/ Is("num", t) /\ ~OutOfRange(t.num, min, max)
    \/ Is("hex", t)
Number(t) == IF Is("num", t) THEN t.num ELSE 0

\* A numeric text is never looked up; a word is, by a resolver that may fail.
ParsesAddress(t) == \/ Is("addr", t) \/ Is("num", t)
                    \/ Is("word", t) /\ t.word \in Resolvable
ParsesAddress6(t) == \/ Is("addr", t)
                     \/ Is("word", t) /\ t.word \in Resolvable
Address(t) == IF Is("addr", t) THEN t.addr ELSE t

ParsesBool(t) == \/ Is("num", t) /\ t.num \in {0, 1}
                 \/ Is("word", t) /\ t.word \in {"yes", "no", "true", "false"}

IntTypes == {"UInt8", "SInt8", "UInt16", "SInt16", "UInt32", "SInt32"}

\* parseItem: whether a PREF of this type may have this value.
ParsesItem(type, t) ==
    \/ type \in IntTypes \cup {"Float32", "Float64"} /\ (Is("num", t) \/ Is("hex", t))
    \/ type = "IPAddr" /\ ParsesAddress(t)
    \/ type = "IP6Addr" /\ ParsesAddress6(t)
    \/ type = "String"
    \/ type = "Bool" /\ ParsesBool(t)

-----------------------------------------------------------------------------
(* FilterValue *)

ParsesValue(type, t) ==
    \/ type \in IntTypes /\ (Is("num", t) \/ Is("hex", t))
    \/ type = "IPAddr" /\ ParsesAddress(t)
    \/ type = "IP6Addr" /\ ParsesAddress6(t)
    \/ type = "Binary" /\ Is("hex", t) /\ t.hex <= MaxFilterLen
    \/ type = "String"

\* The 32-bit types are stored through a long of eight bytes.
StoredLength(type, t) ==
    CASE type \in {"UInt8", "SInt8"} -> 1
      [] type \in {"UInt16", "SInt16"} -> 2
      [] type \in {"UInt32", "SInt32"} -> 8
      [] type = "IPAddr" -> 4
      [] type = "IP6Addr" -> 16
      [] type = "Binary" -> t.hex
      [] OTHER -> 1

\* A number is cut to the width of its type, not refused.
StoredNumber(type, n) ==
    CASE type \in {"UInt8", "SInt8"} -> n % 256
      [] type \in {"UInt16", "SInt16"} -> n % 65536
      [] OTHER -> n

Value(type, t) ==
    [type |-> type,
     len |-> StoredLength(type, t),
     val |-> CASE type \in IntTypes /\ Is("num", t) -> Num(StoredNumber(type, t.num))
               [] type \in {"IPAddr", "IP6Addr"} -> Addr(Address(t))
               [] OTHER -> t]

-----------------------------------------------------------------------------
(* The definition file: entries [name, type, field, length, mask, rev] *)

DefaultMask(type, len) ==
    IF type \in {"IPAddr", "IP6Addr"} THEN Addr("all ones") ELSE Hex(len)

\* "0xFF", the default of the DTD, stands for a mask as wide as the data.
MaskText(type, len, given) == IF given = Hex(1) THEN DefaultMask(type, len) ELSE given

\* getTypeLength, and the LENGTH attribute of the types without one.
TypeLength(type, given) ==
    CASE type \in {"UInt8", "SInt8"} -> 1
      [] type \in {"UInt16", "SInt16"} -> 2
      [] type \in {"UInt32", "SInt32", "IPAddr"} -> 4
      [] type = "IP6Addr" -> 16
      [] OTHER -> Number(given)

ParsesDef(d) ==
    /\ d.name # ""
    /\ d.type \in IntTypes \cup {"IPAddr", "IP6Addr", "Binary", "String"}
    /\ d.type \in {"Binary", "String"} => ParsesNumber(d.length, 0, MaxFilterLen)
    /\ ParsesValue(d.type, MaskText(d.type, TypeLength(d.type, d.length), d.mask))

\* The length of an attribute is that of its mask in the end.
Def(d) ==
    LET mask == MaskText(d.type, TypeLength(d.type, d.length), d.mask)
    IN  [type |-> d.type, field |-> d.field, rev |-> d.rev,
         len |-> StoredLength(d.type, mask)]

\* parse stops at the first entry that is not good and leaves those before it
\* in the list; map::insert keeps the first entry of a name.
ReadPart(file, good) ==
    LET bad == SelectInSeq(file, LAMBDA d : d \notin good)
    IN  IF bad = 0 THEN file ELSE SubSeq(file, 1, bad - 1)
FirstNamed(read, name) == read[SelectInSeq(read, LAMBDA d : d.name = name)]

ReversesOk(defs) ==
    \A a \in DOMAIN defs : defs[a].rev # "" =>
        defs[a].rev \in DOMAIN defs /\ defs[defs[a].rev].type = defs[a].type

GoodDefs(file) == {d \in ToSet(file) : ParsesDef(d)}
DefsIn(file) ==
    LET read == ReadPart(file, GoodDefs(file))
    IN  [name \in {d.name : d \in ToSet(read)} |-> Def(FirstNamed(read, name))]
DefsOk(file) == ToSet(file) = GoodDefs(file) /\ ReversesOk(DefsIn(file))

-----------------------------------------------------------------------------
(* The value file: entries [name, type, text]; nothing is parsed yet *)

ParsesVal(v) == v.name # "" /\ v.text # Word("")
Val(v) == [type |-> v.type, text |-> v.text]
GoodVals(file) == {v \in ToSet(file) : ParsesVal(v)}
ValsIn(file) ==
    LET read == ReadPart(file, GoodVals(file))
    IN  [name \in {v.name : v \in ToSet(read)} |-> Val(FirstNamed(read, name))]
ValsOk(file) == ToSet(file) = GoodVals(file)

-----------------------------------------------------------------------------
(* A filter of a rule.  Its value is << "wild" >>, << "range", lo, hi >>,   *)
(* << "set", t1, t2, ... >> or << "exact", t >>.                            *)

Named(vals, t) == Is("word", t) /\ t.word \in DOMAIN vals

\* lookup: a named value stands for its text when it has the filter's type.
\* The XML parser refuses a name of another type, the MAPI parser takes the
\* name itself for the value.
LooksUp(xml, vals, type, t) ==
    Named(vals, t) /\ xml => vals[t.word].type = type
Looked(vals, type, t) ==
    IF Named(vals, t) /\ vals[t.word].type = type THEN vals[t.word].text ELSE t

Texts(v) == Tail(v)

\* An omitted mask: the DTD makes it "0xFF", the MAPI parser wide as the data,
\* which leaves "0xFF" alone when it is given.
NoMask == [omitted |-> TRUE]
FilterMask(xml, type, len, given) ==
    CASE given = NoMask -> DefaultMask(type, len)
      [] given # NoMask /\ xml -> MaskText(type, len, given)
      [] OTHER -> given

ParsesFilter(xml, defs, vals, f) ==
    /\ f.name \in DOMAIN defs
    /\ LET type == defs[f.name].type
       IN  /\ Len(Texts(f.value)) <= MaxFilterSet
           /\ \A i \in DOMAIN Texts(f.value) :
                LET t == Texts(f.value)[i]
                IN  LooksUp(xml, vals, type, t)
                    /\ ParsesValue(type, Looked(vals, type, t))
           /\ ParsesValue(type, FilterMask(xml, type, defs[f.name].len, f.mask))

\* Only the XML parser enters the reverse attribute.
Filter(xml, defs, vals, f) ==
    LET def == defs[f.name]
        texts == Texts(f.value)
    IN  [name |-> f.name, field |-> def.field, match |-> f.value[1],
         rev |-> IF xml THEN def.rev ELSE "",
         values |-> [i \in DOMAIN texts |->
                       Value(def.type, Looked(vals, def.type, texts[i]))],
         mask |-> Value(def.type, FilterMask(xml, def.type, def.len, f.mask))]
=============================================================================
