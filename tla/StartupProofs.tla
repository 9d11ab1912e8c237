----------------------------- MODULE StartupProofs -----------------------------
(***************************************************************************)
(* For any number of daemons, any command lines, files and interfaces:     *)
(* unless two daemons look for each other at the same moment one of them   *)
(* serves at most, which the lock names, no two listen on one port         *)
(* (OneServes), and what a daemon sets up in the kernel stays while it     *)
(* serves and goes with it, but for one tree a refused request, whose      *)
(* default class is gone (QdiscHeld).                                      *)
(***************************************************************************)
EXTENDS Startup, FiniteSetTheorems, WellFoundedInduction, TLAPS

-----------------------------------------------------------------------------
(* Files *)

FileNames == {Lock, "netmate.pid"} \cup LogNames
Files == 2 * Cardinality(Daemons) + 4

\* A file system: a file has one name at most, and netmate.pid is not there.
FsOK(f) ==
    /\ f = [name |-> f.name, data |-> f.data]
    /\ f.name \in [FileNames -> 0 .. Files] /\ DOMAIN f.data = 1 .. Files
    /\ \A m, n \in FileNames : f.name[m] = f.name[n] /\ f.name[m] # NoFile => m = n
    /\ f.name["netmate.pid"] = NoFile

\* The lock and what is in it are the same.
KeepsLock(f, g) ==
    /\ FsOK(g) /\ g.name[Lock] = f.name[Lock]
    /\ f.name[Lock] # NoFile => g.data[f.name[Lock]] = f.data[f.name[Lock]]

FilesTyped == file \in [Daemons -> 0 .. Files]

LEMMA FilesNat == Cardinality(Daemons) \in Nat /\ Files \in Nat /\ Files > Cardinality(Daemons) + 3
  <1>1. Cardinality(Daemons) \in Nat
    BY StartupAssumption, FS_CardinalityType
  <1> QED BY <1>1 DEF Files

LEMMA NamesApart ==
    /\ FileNames = {"netqos.pid", "netmate.pid", "netqos.log", "conf.log", "args.log"}
    /\ Lock = "netqos.pid" /\ Lock \in FileNames /\ LogNames \subseteq FileNames
    /\ Lock \notin LogNames /\ "netmate.pid" \notin LogNames /\ "netmate.pid" # Lock
    /\ DefaultLog \in LogNames
  BY DEF FileNames, Lock, LogNames, DefaultLog

\* Every nonempty set of numbers has a least one.
LEMMA Least ==
    ASSUME NEW T \in SUBSET Nat, T # {}
    PROVE  \E m \in T : \A n \in T : m <= n
  <1> DEFINE R == {ss \in Nat \X Nat : ss[1] < ss[2]}
  <1>1. IsWellFoundedOn(R, Nat)
    BY NatLessThanWellFounded DEF OpToRel
  <1>2. \E x \in T : \A y \in T : ~ (<< y, x >> \in R)
    <2> HIDE DEF R
    <2> QED BY <1>1, WFMin
  <1>3. PICK x \in T : \A y \in T : ~ (<< y, x >> \in R)
    BY <1>2
  <1>4. ASSUME NEW y \in T PROVE x <= y
    <2>1. ~ (<< y, x >> \in R) /\ x \in Nat /\ y \in Nat
      BY <1>3
    <2>2. ~ (y < x)
      BY <2>1
    <2> QED BY <2>1, <2>2
  <1> QED BY <1>4

\* What the daemons hold open is no more than there are daemons.
LEMMA HeldFew ==
    ASSUME FilesTyped
    PROVE  IsFiniteSet(Held) /\ Cardinality(Held) <= Cardinality(Daemons) /\ Held \subseteq 0 .. Files
  <1> DEFINE S == {file[p] : p \in Daemons}
  <1>1. IsFiniteSet(Daemons)
    BY StartupAssumption
  <1>2. file \in Surjection(Daemons, S)
    BY DEF FilesTyped, Surjection
  <1>3. IsFiniteSet(S) /\ Cardinality(S) <= Cardinality(Daemons)
    <2> HIDE DEF S
    <2> QED BY <1>1, <1>2, FS_Surjection
  <1>4. Held \in SUBSET S
    BY DEF Held
  <1>5. IsFiniteSet(Held) /\ Cardinality(Held) <= Cardinality(S)
    <2> HIDE DEF S
    <2> QED BY <1>3, <1>4, FS_Subset
  <1>6. Cardinality(Held) \in Nat /\ Cardinality(S) \in Nat /\ Cardinality(Daemons) \in Nat
    BY <1>1, <1>3, <1>5, FS_CardinalityType
  <1>7. Held \subseteq 0 .. Files
    BY DEF Held, FilesTyped
  <1> QED BY <1>3, <1>5, <1>6, <1>7

\* There is room for another file while a name has none: three other names and
\* the files that are held are fewer than there may be.
LEMMA RoomForOne ==
    ASSUME FilesTyped, NEW f, FsOK(f), NEW n \in FileNames, n # "netmate.pid", f.name[n] = NoFile,
           NEW held, held \subseteq Held \cup Ids(f)
    PROVE  \E x \in 1 .. Files : x \notin Ids(f) \cup held
  <1> SUFFICES ASSUME \A x \in 1 .. Files : x \in Ids(f) \cup Held PROVE FALSE
    OBVIOUS
  <1>1. PICK a, b, c : \A m \in FileNames : f.name[m] \in {NoFile, a, b, c}
    <2> DEFINE N(m) == f.name[m]
    <2>1. N("netmate.pid") = NoFile /\ N(n) = NoFile
      BY DEF FsOK
    <2>2. n \in {"netqos.pid", "netqos.log", "conf.log", "args.log"}
      BY NamesApart
    <2>3. \A m \in FileNames : m \in {"netqos.pid", "netmate.pid", "netqos.log", "conf.log", "args.log"}
      BY NamesApart
    <2> HIDE DEF N
    <2>4. CASE n = "netqos.pid"
      <3>1. \A m \in FileNames : N(m) \in {NoFile, N("netqos.log"), N("conf.log"), N("args.log")}
        BY <2>1, <2>3, <2>4
      <3> QED BY <3>1 DEF N
    <2>5. CASE n = "netqos.log"
      <3>1. \A m \in FileNames : N(m) \in {NoFile, N("netqos.pid"), N("conf.log"), N("args.log")}
        BY <2>1, <2>3, <2>5
      <3> QED BY <3>1 DEF N
    <2>6. CASE n = "conf.log"
      <3>1. \A m \in FileNames : N(m) \in {NoFile, N("netqos.pid"), N("netqos.log"), N("args.log")}
        BY <2>1, <2>3, <2>6
      <3> QED BY <3>1 DEF N
    <2>7. CASE n = "args.log"
      <3>1. \A m \in FileNames : N(m) \in {NoFile, N("netqos.pid"), N("netqos.log"), N("conf.log")}
        BY <2>1, <2>3, <2>7
      <3> QED BY <3>1 DEF N
    <2> QED BY <2>2, <2>4, <2>5, <2>6, <2>7
  <1> DEFINE U == {a} \cup {b} \cup {c} \cup Held
             d == Cardinality(Daemons)
  <1>2. 1 .. Files \subseteq U
    BY <1>1 DEF Ids, FsOK, NoFile
  <1>3. IsFiniteSet(U) /\ Cardinality(U) <= d + 3 /\ Cardinality(U) \in Nat
    <2>1. IsFiniteSet(Held) /\ Cardinality(Held) <= d /\ d \in Nat
      BY HeldFew, FilesNat
    <2>2. Cardinality(Held) \in Nat
      BY <2>1, FS_CardinalityType
    <2>3. IsFiniteSet(Held \cup {c}) /\ Cardinality(Held \cup {c}) \in Nat /\ Cardinality(Held \cup {c}) <= d + 1
      <3>1. Cardinality(Held \cup {c}) = IF c \in Held THEN Cardinality(Held) ELSE Cardinality(Held) + 1
        BY <2>1, FS_AddElement
      <3> QED BY <2>1, <2>2, <3>1, FS_AddElement
    <2> DEFINE V == Held \cup {c}
    <2>4. IsFiniteSet(V \cup {b}) /\ Cardinality(V \cup {b}) \in Nat /\ Cardinality(V \cup {b}) <= d + 2
      <3> HIDE DEF V
      <3>1. /\ IsFiniteSet(V \cup {b})
            /\ Cardinality(V \cup {b}) = IF b \in V THEN Cardinality(V) ELSE Cardinality(V) + 1
        BY <2>3, FS_AddElement DEF V
      <3> QED BY <2>1, <2>3, <3>1 DEF V
    <2> DEFINE W == V \cup {b}
    <2>5. IsFiniteSet(W \cup {a}) /\ Cardinality(W \cup {a}) \in Nat /\ Cardinality(W \cup {a}) <= d + 3
      <3> HIDE DEF W
      <3>1. /\ IsFiniteSet(W \cup {a})
            /\ Cardinality(W \cup {a}) = IF a \in W THEN Cardinality(W) ELSE Cardinality(W) + 1
        BY <2>4, FS_AddElement DEF W
      <3> QED BY <2>1, <2>4, <3>1 DEF W
    <2>6. U = W \cup {a}
      OBVIOUS
    <2> HIDE DEF U, W
    <2> QED BY <2>5, <2>6
  <1> HIDE DEF U
  <1>4. IsFiniteSet(1 .. Files) /\ Cardinality(1 .. Files) = Files
    <2>1. Files \in Nat /\ Files > 0
      BY FilesNat
    <2>2. IsFiniteSet(1 .. Files) /\ Cardinality(1 .. Files) = IF 1 > Files THEN 0 ELSE Files - 1 + 1
      BY <2>1, FS_Interval
    <2> QED BY <2>1, <2>2
  <1>5. Cardinality(1 .. Files) <= Cardinality(U)
    BY <1>2, <1>3, FS_Subset
  <1> QED BY <1>3, <1>4, <1>5, FilesNat

\* The file a name gets that has none: a new one.
LEMMA FreshIs ==
    ASSUME FilesTyped, NEW f, FsOK(f), NEW n \in FileNames, n # "netmate.pid", f.name[n] = NoFile,
           NEW held, held \subseteq Held \cup Ids(f)
    PROVE  Fresh(f, held) \in 1 .. Files /\ Fresh(f, held) \notin Ids(f) \cup held
  <1> DEFINE T == {x \in 1 .. Files : x \notin Ids(f) \cup held}
  <1>1. T # {} /\ T \in SUBSET Nat
    BY RoomForOne, FilesNat
  <1>2. PICK m \in T : \A x \in T : m <= x
    <2> HIDE DEF T
    <2> QED BY <1>1, Least
  <1>3. \A g \in 1 .. Files : g < m => g \in Ids(f) \cup held
    <2> SUFFICES ASSUME NEW g \in 1 .. Files, g < m, g \notin Ids(f) \cup held PROVE FALSE
      OBVIOUS
    <2>1. m <= g /\ m \in 1 .. Files
      BY <1>2
    <2> QED BY <2>1
  <1>4. DOMAIN f.data = 1 .. Files
    BY DEF FsOK
  <1>5. \E x \in DOMAIN f.data : /\ x \notin Ids(f) \cup held
                                 /\ \A g \in DOMAIN f.data : g < x => g \in Ids(f) \cup held
    BY <1>2, <1>3, <1>4
  <1> HIDE DEF T
  <1>6. Fresh(f, held) \in DOMAIN f.data /\ Fresh(f, held) \notin Ids(f) \cup held
    BY <1>5, Zenon DEF Fresh
  <1> QED BY <1>4, <1>6

LEMMA UnlinkedIs ==
    ASSUME NEW f, FsOK(f), NEW n \in FileNames
    PROVE  /\ FsOK(Unlinked(f, n)) /\ Unlinked(f, n).data = f.data
           /\ Unlinked(f, n).name[n] = NoFile
           /\ \A m \in FileNames : m # n => Unlinked(f, n).name[m] = f.name[m]
  <1> DEFINE p == [name |-> f.name, data |-> f.data]
             name == [f.name EXCEPT ![n] = NoFile]
             g == Unlinked(f, n)
  <1>1. f = p
    BY DEF FsOK
  <1>2. g = [p EXCEPT !.name = name]
    BY <1>1 DEF Unlinked
  <1>3. g = [name |-> name, data |-> f.data]
    BY <1>2
  <1>4. f.name \in [FileNames -> 0 .. Files] /\ Files \in Nat /\ NoFile = 0
    BY FilesNat DEF FsOK, NoFile
  <1>5. name \in [FileNames -> 0 .. Files] /\ name[n] = NoFile
        /\ \A m \in FileNames : m # n => name[m] = f.name[m]
    BY <1>4
  <1>6. g.name = name /\ g.data = f.data /\ g = [name |-> g.name, data |-> g.data]
    BY <1>3
  <1> HIDE DEF g, name
  <1>7. FsOK(g)
    BY <1>4, <1>5, <1>6, NamesApart DEF FsOK
  <1> QED BY <1>5, <1>6, <1>7 DEF g

LEMMA NamedIs ==
    ASSUME FilesTyped, NEW f, FsOK(f), NEW n \in FileNames, n # "netmate.pid",
           NEW held, held \subseteq Held \cup Ids(f)
    PROVE  LET g == Named(f, n, held)
           IN  /\ FsOK(g) /\ g.name[n] \in 1 .. Files
               /\ \A m \in FileNames : m # n => g.name[m] = f.name[m] /\ g.name[n] # g.name[m]
               /\ \A x \in Ids(f) \ {NoFile} : g.data[x] = f.data[x]
               /\ f.name[n] # NoFile => g = f
               /\ f.name[n] = NoFile => g.name[n] \notin held
  <1> DEFINE g == Named(f, n, held)
  <1>1. CASE f.name[n] # NoFile
    <2>1. g = f
      BY <1>1 DEF Named
    <2>2. f.name[n] \in 1 .. Files
      BY <1>1, FilesNat DEF FsOK, NoFile
    <2>3. \A m \in FileNames : m # n => f.name[n] # f.name[m]
      BY <1>1 DEF FsOK
    <2> HIDE DEF g
    <2> QED BY <1>1, <2>1, <2>2, <2>3 DEF g
  <1>2. CASE f.name[n] = NoFile
    <2> DEFINE x == Fresh(f, held)
               name == [f.name EXCEPT ![n] = x]
               data == [f.data EXCEPT ![x] = << >>]
    <2>1. x \in 1 .. Files /\ x \notin Ids(f) \cup held
      BY <1>2, FreshIs
    <2>2. g = [name |-> name, data |-> data]
      BY <1>2 DEF Named
    <2>3. /\ f.name \in [FileNames -> 0 .. Files] /\ DOMAIN f.data = 1 .. Files
          /\ Files \in Nat /\ NoFile = 0
      BY FilesNat DEF FsOK, NoFile
    <2> HIDE DEF x
    <2>4. /\ name \in [FileNames -> 0 .. Files] /\ name[n] = x
          /\ \A m \in FileNames : m # n => name[m] = f.name[m]
      BY <2>1, <2>3
    <2>5. DOMAIN data = 1 .. Files /\ \A y \in 1 .. Files : y # x => data[y] = f.data[y]
      BY <2>1, <2>3
    <2>6. g.name = name /\ g.data = data /\ g = [name |-> g.name, data |-> g.data]
      BY <2>2
    <2> HIDE DEF name, data, g
    <2>7. \A m \in FileNames : f.name[m] \in Ids(f) /\ f.name[m] # x
      BY <2>1, <2>3 DEF Ids
    <2>8. FsOK(g)
      BY <2>1, <2>3, <2>4, <2>5, <2>6, <2>7, NamesApart DEF FsOK
    <2>9. \A y \in Ids(f) \ {NoFile} : y \in 1 .. Files /\ y # x
      BY <2>1, <2>3 DEF Ids
    <2>10. \A m \in FileNames : m # n => g.name[m] = f.name[m] /\ g.name[n] # g.name[m]
      BY <2>4, <2>6, <2>7
    <2>11. \A y \in Ids(f) \ {NoFile} : g.data[y] = f.data[y]
      BY <2>5, <2>6, <2>9
    <2> QED BY <1>2, <2>1, <2>4, <2>6, <2>8, <2>10, <2>11 DEF g
  <1> QED BY <1>1, <1>2

LEMMA WrittenIs ==
    ASSUME NEW f, FsOK(f), NEW x \in 1 .. Files, NEW lines
    PROVE  /\ FsOK(Written(f, x, lines)) /\ Written(f, x, lines).name = f.name
           /\ \A y \in 1 .. Files : y # x => Written(f, x, lines).data[y] = f.data[y]
  <1> DEFINE p == [name |-> f.name, data |-> f.data]
             data == [f.data EXCEPT ![x] = f.data[x] \o lines]
             g == Written(f, x, lines)
  <1>1. f = p
    BY DEF FsOK
  <1>2. g = [p EXCEPT !.data = data]
    BY <1>1 DEF Written
  <1>3. g = [name |-> f.name, data |-> data]
    BY <1>2
  <1>4. DOMAIN data = 1 .. Files /\ \A y \in 1 .. Files : y # x => data[y] = f.data[y]
    BY DEF FsOK
  <1>5. g.name = f.name /\ g.data = data /\ g = [name |-> g.name, data |-> g.data]
    BY <1>3
  <1> HIDE DEF g, data
  <1>6. FsOK(g)
    BY <1>4, <1>5 DEF FsOK
  <1> QED BY <1>4, <1>5, <1>6 DEF g

\* The lock's file is one of those that are named.
LEMMA LockIsFile ==
    ASSUME NEW f, FsOK(f)
    PROVE  /\ f.name[Lock] \in Ids(f) /\ f.name[Lock] \in 0 .. Files
           /\ f.name[Lock] # NoFile => f.name[Lock] \in 1 .. Files
  <1>1. f.name \in [FileNames -> 0 .. Files] /\ Lock \in FileNames /\ Files \in Nat
    BY NamesApart, FilesNat DEF FsOK
  <1> QED BY <1>1 DEF Ids, NoFile

LEMMA KeepsTwice ==
    ASSUME NEW f, NEW g, NEW h, KeepsLock(f, g), KeepsLock(g, h)
    PROVE  KeepsLock(f, h)
  BY DEF KeepsLock

\* What the Logger does is not about the lock.
LEMMA WrittenKeeps ==
    ASSUME NEW f, FsOK(f), NEW x \in 1 .. Files, x # f.name[Lock], NEW lines
    PROVE  KeepsLock(f, Written(f, x, lines)) /\ Written(f, x, lines).name = f.name
  BY WrittenIs, LockIsFile DEF KeepsLock

LEMMA UnlinkedKeeps ==
    ASSUME NEW f, FsOK(f), NEW n \in FileNames, n # Lock
    PROVE  KeepsLock(f, Unlinked(f, n))
  BY UnlinkedIs, NamesApart DEF KeepsLock

LEMMA NamedKeeps ==
    ASSUME FilesTyped, NEW f, FsOK(f), NEW n \in LogNames,
           NEW held, held \subseteq Held \cup Ids(f)
    PROVE  LET g == Named(f, n, held)
           IN  KeepsLock(f, g) /\ g.name[n] \in 1 .. Files /\ g.name[n] # g.name[Lock]
               /\ \A m \in FileNames : m # n => g.name[m] = f.name[m]
  <1> DEFINE g == Named(f, n, held)
  <1>1. n \in FileNames /\ n # "netmate.pid" /\ n # Lock /\ Lock \in FileNames
    BY NamesApart
  <1>2. /\ FsOK(g) /\ g.name[n] \in 1 .. Files
        /\ \A m \in FileNames : m # n => g.name[m] = f.name[m] /\ g.name[n] # g.name[m]
        /\ \A x \in Ids(f) \ {NoFile} : g.data[x] = f.data[x]
    BY <1>1, NamedIs
  <1> HIDE DEF g
  <1>3. g.name[Lock] = f.name[Lock] /\ g.name[n] # g.name[Lock]
    BY <1>1, <1>2
  <1>4. f.name[Lock] # NoFile => g.data[f.name[Lock]] = f.data[f.name[Lock]]
    BY <1>2, LockIsFile
  <1>5. KeepsLock(f, g)
    BY <1>2, <1>3, <1>4 DEF KeepsLock
  <1> QED BY <1>2, <1>3, <1>5 DEF g

LEMMA LogOpenedKeeps ==
    ASSUME FilesTyped, NEW f, FsOK(f), NEW n \in LogNames
    PROVE  LET g == LogOpened(f, n, Held)
           IN  KeepsLock(f, g) /\ g.name[n] \in 1 .. Files /\ g.name[n] # g.name[Lock]
  <1> DEFINE u == Unlinked(f, n)
             g == Named(u, n, Held)
  <1>1. n \in FileNames /\ n # Lock
    BY NamesApart
  <1>2. FsOK(u) /\ KeepsLock(f, u)
    BY <1>1, UnlinkedIs, UnlinkedKeeps
  <1> HIDE DEF u
  <1>3. KeepsLock(u, g) /\ g.name[n] \in 1 .. Files /\ g.name[n] # g.name[Lock]
    BY <1>2, NamedKeeps
  <1> HIDE DEF g
  <1>4. KeepsLock(f, g)
    BY <1>2, <1>3, KeepsTwice
  <1> QED BY <1>3, <1>4 DEF g, u, LogOpened

LEMMA LogMovedKeeps ==
    ASSUME FilesTyped, NEW f, FsOK(f), NEW from \in LogNames, NEW to \in LogNames, to # from
    PROVE  LET g == LogMoved(f, from, to, Held \cup {f.name[from]})
           IN  KeepsLock(f, g) /\ g.name[to] \in 1 .. Files /\ g.name[to] # g.name[Lock]
  <1> DEFINE held == Held \cup {f.name[from]}
             u == Unlinked(f, to)
             n == Named(u, to, held)
             w == Written(n, n.name[to], f.data[f.name[from]])
             g == Unlinked(w, from)
  <1>1. to \in FileNames /\ from \in FileNames /\ to # Lock /\ from # Lock /\ Lock \in FileNames
    BY NamesApart
  <1>2. FsOK(u) /\ KeepsLock(f, u) /\ u.name[from] = f.name[from]
    BY <1>1, UnlinkedIs, UnlinkedKeeps
  <1> HIDE DEF u
  <1>3. held \subseteq Held \cup Ids(u)
    <2>1. u.name \in [FileNames -> 0 .. Files]
      BY <1>2 DEF FsOK
    <2> QED BY <1>1, <1>2, <2>1 DEF Ids
  <1> HIDE DEF held
  <1>4. KeepsLock(u, n) /\ n.name[to] \in 1 .. Files /\ n.name[to] # n.name[Lock]
    BY <1>2, <1>3, NamedKeeps
  <1> HIDE DEF n
  <1>5. FsOK(n)
    BY <1>4 DEF KeepsLock
  <1>6. KeepsLock(n, w) /\ w.name = n.name
    BY <1>4, <1>5, WrittenKeeps
  <1> HIDE DEF w
  <1>7. FsOK(w)
    BY <1>6 DEF KeepsLock
  <1>8. KeepsLock(w, g) /\ g.name[to] = w.name[to]
    BY <1>1, <1>7, UnlinkedIs, UnlinkedKeeps
  <1> HIDE DEF g
  <1>9. KeepsLock(f, g)
    BY <1>2, <1>4, <1>6, <1>8, KeepsTwice
  <1>10. g.name[to] \in 1 .. Files /\ g.name[to] # g.name[Lock]
    BY <1>4, <1>6, <1>8 DEF KeepsLock
  <1> QED BY <1>9, <1>10 DEF g, w, n, u, held, LogMoved

LEMMA ExitKeeps ==
    ASSUME NEW f, FsOK(f), NEW g, NEW gone, gone \subseteq {"netmate.pid"},
           g = [f EXCEPT !.name = [n \in DOMAIN @ |-> IF n \in gone THEN NoFile ELSE @[n]]]
    PROVE  KeepsLock(f, g)
  <1> DEFINE p == [name |-> f.name, data |-> f.data]
             name == [n \in DOMAIN f.name |-> IF n \in gone THEN NoFile ELSE f.name[n]]
  <1>1. f = p /\ DOMAIN f.name = FileNames /\ f.name["netmate.pid"] = NoFile
    BY DEF FsOK
  <1>2. g = [p EXCEPT !.name = name]
    BY <1>1
  <1>3. g = [name |-> name, data |-> f.data]
    BY <1>2
  <1>4. \A n \in FileNames : name[n] = f.name[n]
    BY <1>1
  <1>5. name = f.name
    <2>1. f.name \in [FileNames -> 0 .. Files] /\ DOMAIN name = FileNames
      BY <1>1 DEF FsOK
    <2> QED BY <1>4, <2>1
  <1>6. g = f
    BY <1>1, <1>3, <1>5
  <1> QED BY <1>6 DEF KeepsLock

-----------------------------------------------------------------------------
(* What the variables hold *)

Phases == {"idle", "stat", "over"} \cup Checking \cup Constructing \cup {"up"}
Logging == {"processor", "control", "up"}

Shapes ==
    /\ phase \in [Daemons -> Phases] /\ fate \in [Daemons -> {"none", "exit", "crash"}]
    /\ DOMAIN conf = Daemons /\ DOMAIN oldPid = Daemons /\ DOMAIN module = Daemons
    /\ FilesTyped /\ raced \in BOOLEAN

\* A daemon that writes the lock has it open, later its log, which is not the lock.
OpenFiles ==
    \A p \in Daemons :
      /\ phase[p] = "write" => file[p] \in 1 .. Files
      /\ phase[p] \in Logging => file[p] \in 1 .. Files /\ file[p] # fs.name[Lock]

Typed == Shapes /\ FsOK(fs) /\ OpenFiles

\* Unless two looked at the same time: one at most looks at the lock, and what
\* it finds or has found is the lock of the one that serves, which goes on.
LockInv ==
    /\ \A p, q \in Daemons : phase[p] \in Checking /\ phase[q] \in Checking => p = q
    /\ \A p, q \in Serving : p = q
    /\ \A p \in Serving : fs.name[Lock] # NoFile /\ fs.data[fs.name[Lock]] = << p >>
    /\ \A p \in Serving, q \in Daemons :
         /\ phase[q] \notin {"unlink", "create", "write"}
         /\ phase[q] = "ps" => oldPid[q] = p
    /\ \A p \in Daemons : phase[p] = "write" => file[p] = fs.name[Lock]

LEMMA InitTyped == Init => Typed /\ LockInv
  <1> SUFFICES ASSUME Init PROVE Typed /\ LockInv
    OBVIOUS
  <1>1. /\ phase = [p \in Daemons |-> "idle"] /\ fate = [p \in Daemons |-> "none"]
        /\ conf = [p \in Daemons |-> << >>] /\ oldPid = [p \in Daemons |-> Nobody]
        /\ file = [p \in Daemons |-> NoFile] /\ module = [p \in Daemons |-> NoModule]
        /\ fs = [name |-> [n \in FileNames |-> NoFile], data |-> [f \in 1 .. Files |-> << >>]]
        /\ raced = FALSE
    BY DEF Init, FileNames, Files
  <1>2. Shapes
    <2>1. "idle" \in Phases /\ NoFile \in 0 .. Files
      BY FilesNat DEF Phases, NoFile
    <2>2. phase \in [Daemons -> Phases] /\ fate \in [Daemons -> {"none", "exit", "crash"}]
      BY <1>1, <2>1
    <2>3. file \in [Daemons -> 0 .. Files]
      BY <1>1, <2>1
    <2> QED BY <1>1, <2>2, <2>3 DEF Shapes, FilesTyped
  <1>3. FsOK(fs)
    BY <1>1, FilesNat, NamesApart DEF FsOK, NoFile
  <1>4. OpenFiles /\ LockInv
    BY <1>1 DEF OpenFiles, LockInv, Serving, Checking, Constructing, Logging
  <1> QED BY <1>2, <1>3, <1>4 DEF Typed

\* One daemon does something that is not about the lock.
Quiet(p, ph) ==
    /\ phase' = [phase EXCEPT ![p] = ph] /\ Shapes'
    /\ \A q \in Daemons \ {p} : file'[q] = file[q] /\ oldPid'[q] = oldPid[q]
    /\ KeepsLock(fs, fs') /\ raced' = raced
    /\ ph \in Logging => file'[p] \in 1 .. Files /\ file'[p] # fs'.name[Lock]

LEMMA QuietKeeps ==
    ASSUME Typed, NEW p \in Daemons, NEW ph, Quiet(p, ph),
           \/ ph = "over"
           \/ ph = "stat"
           \/ phase[p] \in Constructing \cup {"up"} /\ ph \in Constructing \cup {"up"}
    PROVE  Typed' /\ (LockInv => LockInv')
  <1>1. /\ phase'[p] = ph /\ \A q \in Daemons \ {p} : phase'[q] = phase[q]
        /\ phase \in [Daemons -> Phases] /\ phase' \in [Daemons -> Phases]
    BY DEF Quiet, Typed, Shapes
  <1>2. ph \notin Checking
    BY DEF Checking, Constructing
  <1>3. /\ FsOK(fs') /\ fs'.name[Lock] = fs.name[Lock]
        /\ fs.name[Lock] # NoFile => fs'.data[fs'.name[Lock]] = fs.data[fs.name[Lock]]
    BY DEF Quiet, KeepsLock
  <1>4. Typed'
    BY <1>1, <1>2, <1>3 DEF Quiet, Typed, OpenFiles, Checking
  <1>5. ASSUME LockInv PROVE LockInv'
    <2>1. Serving' \subseteq Serving
      BY <1>1 DEF Serving, Constructing
    <2>2. \A q \in Daemons : phase'[q] \in Checking => q # p /\ phase'[q] = phase[q]
      BY <1>1, <1>2
    <2>3. \A q \in Daemons : q # p => file'[q] = file[q] /\ oldPid'[q] = oldPid[q]
      BY DEF Quiet
    <2>4. \A q, r \in Daemons : phase'[q] \in Checking /\ phase'[r] \in Checking => q = r
      BY <1>5, <2>2 DEF LockInv
    <2>5. \A q, r \in Serving' : q = r
      BY <1>5, <2>1 DEF LockInv
    <2>6. \A q \in Serving' : fs'.name[Lock] # NoFile /\ fs'.data[fs'.name[Lock]] = << q >>
      BY <1>3, <1>5, <2>1 DEF LockInv
    <2>7. \A q \in Serving', r \in Daemons :
            /\ phase'[r] \notin {"unlink", "create", "write"}
            /\ phase'[r] = "ps" => oldPid'[r] = q
      BY <1>5, <2>1, <2>2, <2>3 DEF LockInv, Checking
    <2>8. \A q \in Daemons : phase'[q] = "write" => file'[q] = fs'.name[Lock]
      BY <1>3, <1>5, <2>2, <2>3 DEF LockInv, Checking
    <2> QED BY <2>4, <2>5, <2>6, <2>7, <2>8 DEF LockInv
  <1> QED BY <1>4, <1>5

\* The end of a daemon, one way or another.
LEMMA EndsQuiet ==
    ASSUME Typed, NEW p \in Daemons, NEW how \in {"exit", "crash"}, Ends(p, how),
           KeepsLock(fs, fs'), raced' = raced
    PROVE  Quiet(p, "over")
  <1>1. /\ phase' = [phase EXCEPT ![p] = "over"] /\ fate' = [fate EXCEPT ![p] = how]
        /\ file' = [file EXCEPT ![p] = NoFile] /\ conf' = [conf EXCEPT ![p] = << >>]
        /\ oldPid' = [oldPid EXCEPT ![p] = Nobody] /\ module' = [module EXCEPT ![p] = NoModule]
    BY DEF Ends, Goes
  <1>2. Shapes'
    BY <1>1, FilesNat DEF Typed, Shapes, Phases, FilesTyped, NoFile
  <1>3. \A q \in Daemons \ {p} : file'[q] = file[q] /\ oldPid'[q] = oldPid[q]
    BY <1>1 DEF Typed, Shapes, FilesTyped
  <1> QED BY <1>1, <1>2, <1>3 DEF Quiet, Logging

LEMMA ExitQuiet ==
    ASSUME Typed, NEW p \in Daemons, NEW files, KeepsLock(fs, files), ExitsWith(p, files),
           raced' = raced
    PROVE  Quiet(p, "over")
  <1>1. PICK gone \in {{}, {"netmate.pid"}} :
          fs' = [files EXCEPT !.name = [n \in DOMAIN @ |-> IF n \in gone THEN NoFile ELSE @[n]]]
    BY DEF ExitsWith, AtExit
  <1>2. KeepsLock(files, fs')
    BY <1>1, ExitKeeps DEF KeepsLock
  <1>3. KeepsLock(fs, fs')
    BY <1>2, KeepsTwice
  <1> QED BY <1>3, EndsQuiet DEF ExitsWith

LEMMA KeepsSelf == ASSUME Typed PROVE KeepsLock(fs, fs)
  BY DEF Typed, KeepsLock

LEMMA ExitsQuiet ==
    ASSUME Typed, NEW p \in Daemons, Exits(p), raced' = raced
    PROVE  Quiet(p, "over")
  BY KeepsSelf, ExitQuiet DEF Exits

LEMMA DiesQuiet ==
    ASSUME Typed, NEW p \in Daemons, Dies(p), raced' = raced
    PROVE  Quiet(p, "over")
  <1>1. KeepsLock(fs, fs')
    BY KeepsSelf DEF Dies
  <1> QED BY <1>1, EndsQuiet DEF Dies

\* A daemon goes on, and only its module or nothing else changes.
LEMMA GoesQuiet ==
    ASSUME Typed, NEW p \in Daemons, NEW ph \in Phases, Goes(p, ph),
           UNCHANGED << fate, conf, oldPid, file, raced >>, DOMAIN module' = Daemons,
           KeepsLock(fs, fs'), ph \in Logging => phase[p] \in Logging
    PROVE  Quiet(p, ph)
  <1>1. phase' = [phase EXCEPT ![p] = ph] /\ phase' \in [Daemons -> Phases]
    BY DEF Goes, Typed, Shapes
  <1>2. Shapes'
    BY <1>1 DEF Typed, Shapes, FilesTyped
  <1>3. ph \in Logging => file'[p] \in 1 .. Files /\ file'[p] # fs'.name[Lock]
    BY DEF Typed, OpenFiles, KeepsLock
  <1> QED BY <1>1, <1>2, <1>3 DEF Quiet

-----------------------------------------------------------------------------
(* The steps that are not about the lock *)

LEMMA NotAboutLock ==
    ASSUME Typed, NEW p \in Daemons, NEW ph, Quiet(p, ph),
           \/ ph = "over"
           \/ ph = "stat"
           \/ phase[p] \in Constructing \cup {"up"} /\ ph \in Constructing \cup {"up"}
    PROVE  Typed' /\ (~raced' => ~raced) /\ (LockInv => LockInv')
  BY QuietKeeps DEF Quiet

Harmless == Typed' /\ (~raced' => ~raced /\ (LockInv => LockInv'))

LEMMA BeginHarmless == ASSUME Typed, NEW p \in Daemons, Begin(p) PROVE Harmless
  <1>1. \/ Goes(p, "stat") /\ UNCHANGED << fate, own, fs >>
        \/ Exits(p)
    BY DEF Begin
  <1>2. raced' = raced
    BY DEF Begin
  <1>3. CASE Goes(p, "stat") /\ UNCHANGED << fate, own, fs >>
    <2>1. /\ UNCHANGED << fate, conf, oldPid, file, raced >> /\ DOMAIN module' = Daemons
          /\ KeepsLock(fs, fs')
      BY <1>2, <1>3, KeepsSelf DEF own, Typed, Shapes
    <2>2. "stat" \in Phases /\ "stat" \notin Logging
      BY DEF Phases, Logging
    <2>3. Quiet(p, "stat")
      BY <1>3, <2>1, <2>2, GoesQuiet
    <2> QED BY <2>3, NotAboutLock DEF Harmless
  <1>4. CASE Exits(p)
    BY <1>2, <1>4, ExitsQuiet, NotAboutLock DEF Harmless
  <1> QED BY <1>1, <1>3, <1>4

LEMMA ConfigureQuiet ==
    ASSUME Typed, NEW p \in Daemons, Configure(p)
    PROVE  Quiet(p, "over") \/ Quiet(p, "processor")
  <1> DEFINE opened == LogOpened(fs, DefaultLog, Held)
             logged == Written(opened, opened.name[DefaultLog], << << p, "initializing" >> >>)
  <1>1. raced' = raced /\ phase[p] = "logger"
    BY DEF Configure
  <1>2. PICK s : Configured(p, s, Settings(s), logged)
    BY DEF Configure
  <1>3. FilesTyped /\ FsOK(fs) /\ DefaultLog \in LogNames
    BY NamesApart DEF Typed, Shapes
  <1>4. /\ KeepsLock(fs, opened) /\ opened.name[DefaultLog] \in 1 .. Files
        /\ opened.name[DefaultLog] # opened.name[Lock]
    BY <1>3, LogOpenedKeeps
  <1> HIDE DEF opened
  <1>5. FsOK(opened)
    BY <1>4 DEF KeepsLock
  <1>6. KeepsLock(opened, logged) /\ logged.name = opened.name
    BY <1>4, <1>5, WrittenKeeps
  <1> HIDE DEF logged
  <1>7. KeepsLock(fs, logged) /\ FsOK(logged)
    BY <1>4, <1>6, KeepsTwice DEF KeepsLock
  <1> DEFINE list == Settings(s)
             cannot == LogMoves(list) /\ LogFile(list) \notin LogNames
             moved == Moved(list, logged)
             f == moved.name[LogFile(list)]
  <1>8. \/ ExitsWith(p, logged)
        \/ ~cannot /\ ExitsWith(p, moved)
        \/ /\ ~cannot
           /\ conf' = [conf EXCEPT ![p] = list]
           /\ file' = [file EXCEPT ![p] = f]
           /\ fs' = Written(moved, f, << << p, "configured" >> >>)
           /\ Goes(p, "processor")
           /\ UNCHANGED << fate, oldPid, module >>
    <2> HIDE DEF list
    <2>1. Configured(p, s, list, logged)
      BY <1>2 DEF list
    <2> QED BY <2>1, Zenon DEF Configured
  <1> HIDE DEF list
  <1>9. ASSUME ~cannot
        PROVE  KeepsLock(logged, moved) /\ f \in 1 .. Files /\ f # moved.name[Lock]
    <2>1. CASE LogMoves(list)
      <3>1. LogFile(list) \in LogNames /\ LogFile(list) # DefaultLog
        BY <1>9, <2>1 DEF LogMoves
      <3>2. moved = LogMoved(logged, DefaultLog, LogFile(list), Held \cup {logged.name[DefaultLog]})
        BY <2>1 DEF Moved
      <3> HIDE DEF moved
      <3> QED BY <1>3, <1>7, <3>1, <3>2, LogMovedKeeps
    <2>2. CASE ~LogMoves(list)
      <3>1. moved = logged /\ LogFile(list) = DefaultLog
        BY <2>2 DEF LogMoves, Moved
      <3>2. KeepsLock(logged, logged)
        BY <1>7 DEF KeepsLock
      <3> HIDE DEF moved
      <3> QED BY <1>4, <1>6, <3>1, <3>2
    <2> QED BY <2>1, <2>2
  <1> HIDE DEF moved
  <1>10. CASE ExitsWith(p, logged)
    BY <1>1, <1>7, <1>10, ExitQuiet
  <1>11. CASE ~cannot /\ ExitsWith(p, moved)
    <2>1. KeepsLock(fs, moved)
      BY <1>7, <1>9, <1>11, KeepsTwice
    <2> QED BY <1>1, <1>11, <2>1, ExitQuiet
  <1>12. CASE /\ ~cannot
              /\ conf' = [conf EXCEPT ![p] = list]
              /\ file' = [file EXCEPT ![p] = f]
              /\ fs' = Written(moved, f, << << p, "configured" >> >>)
              /\ Goes(p, "processor")
              /\ UNCHANGED << fate, oldPid, module >>
    <2>1. KeepsLock(logged, moved) /\ f \in 1 .. Files /\ f # moved.name[Lock]
      BY <1>9, <1>12
    <2>2. FsOK(moved)
      BY <2>1 DEF KeepsLock
    <2> HIDE DEF f
    <2>3. KeepsLock(moved, fs') /\ fs'.name = moved.name
      BY <1>12, <2>1, <2>2, WrittenKeeps
    <2>4. KeepsLock(fs, fs')
      BY <1>7, <2>1, <2>3, KeepsTwice
    <2>5. phase' = [phase EXCEPT ![p] = "processor"] /\ "processor" \in Phases
      BY <1>12 DEF Goes, Phases, Constructing
    <2>6. /\ phase' \in [Daemons -> Phases] /\ file' \in [Daemons -> 0 .. Files]
          /\ file'[p] = f /\ \A q \in Daemons \ {p} : file'[q] = file[q]
      <3>1. phase \in [Daemons -> Phases] /\ file \in [Daemons -> 0 .. Files] /\ f \in 0 .. Files
        BY <2>1, FilesNat DEF Typed, Shapes, FilesTyped
      <3> QED BY <1>12, <2>5, <3>1
    <2>7. Shapes'
      BY <1>1, <1>12, <2>6 DEF Typed, Shapes, FilesTyped
    <2> QED BY <1>1, <1>12, <2>1, <2>3, <2>4, <2>5, <2>6, <2>7 DEF Quiet
  <1> QED BY <1>8, <1>10, <1>11, <1>12

LEMMA ConfigureHarmless == ASSUME Typed, NEW p \in Daemons, Configure(p) PROVE Harmless
  <1>1. phase[p] \in Constructing /\ "processor" \in Constructing
    BY DEF Configure, Constructing
  <1> QED BY <1>1, ConfigureQuiet, NotAboutLock DEF Harmless

\* What a daemon that loads its module comes to: none, or that of an interface
\* it has set up, not at all or in part.
Loading(p) ==
    \/ Loaded(p, NoModule, qdisc)
    \/ /\ ItemsThere(p) /\ Interface(p) \in Interfaces
       /\ \/ Loaded(p, [link |-> Interface(p), served |-> FALSE], qdisc)
          \/ Loaded(p, [link |-> Interface(p), served |-> TRUE],
                    [qdisc EXCEPT ![Interface(p)] =
                       [owner |-> p, default |-> TRUE, tables |-> ~UseIPv6(p)]])
          \/ \E kept \in {NoQdisc} \cup [owner : {p}, default : BOOLEAN, tables : {FALSE}] :
               Loaded(p, [link |-> Interface(p), served |-> FALSE],
                      [qdisc EXCEPT ![Interface(p)] = kept])

LEMMA LoadingIs ==
    ASSUME NEW p \in Daemons, StartProcessor(p)
    PROVE  \/ Exits(p) /\ UNCHANGED qdisc
           \/ Dies(p) /\ UNCHANGED qdisc
           \/ Loading(p)
  <1> DEFINE i == Interface(p)
             linked(served) == [link |-> i, served |-> served]
             made == [owner |-> p, default |-> TRUE, tables |-> ~UseIPv6(p)]
             partial == {NoQdisc} \cup [owner : {p}, default : BOOLEAN, tables : {FALSE}]
  <1>1. \/ Exits(p) /\ UNCHANGED kernel
        \/ Dies(p) /\ UNCHANGED kernel
        \/ ItemsThere(p) /\ InitHtb(p)
        \/ Loaded(p, NoModule, qdisc) /\ UNCHANGED faults
    BY Zenon DEF StartProcessor
  <1>2. CASE ItemsThere(p) /\ InitHtb(p)
    <2>1. \/ Loaded(p, NoModule, qdisc)
          \/ /\ i \in Interfaces
             /\ \/ Loaded(p, linked(FALSE), qdisc)
                \/ Loaded(p, linked(TRUE), [qdisc EXCEPT ![i] = made])
                \/ \E kept \in partial \ {made} : Loaded(p, linked(FALSE), [qdisc EXCEPT ![i] = kept])
      BY <1>2, Zenon DEF InitHtb
    <2>2. \/ Loaded(p, NoModule, qdisc)
          \/ /\ i \in Interfaces
             /\ \/ Loaded(p, linked(FALSE), qdisc)
                \/ Loaded(p, linked(TRUE), [qdisc EXCEPT ![i] = made])
                \/ \E kept \in partial : Loaded(p, linked(FALSE), [qdisc EXCEPT ![i] = kept])
      <3> HIDE DEF made, linked, partial
      <3> QED BY <2>1, Zenon
    <2> QED BY <1>2, <2>2, Zenon DEF Loading
  <1> QED BY <1>1, <1>2 DEF Loading, kernel

\* Whatever is loaded, the daemon goes on to its control socket.
LEMMA LoadingGoes ==
    ASSUME NEW p \in Daemons, Loading(p)
    PROVE  /\ \E made : module' = [module EXCEPT ![p] = made]
           /\ Goes(p, "control") /\ UNCHANGED << fate, setup, conf, oldPid, file, fs >>
  BY Zenon DEF Loading, Loaded

LEMMA StartProcessorHarmless == ASSUME Typed, NEW p \in Daemons, StartProcessor(p) PROVE Harmless
  <1>1. raced' = raced /\ phase[p] = "processor"
    BY DEF StartProcessor
  <1>2. CASE Exits(p)
    BY <1>1, <1>2, ExitsQuiet, NotAboutLock DEF Harmless
  <1>3. CASE Dies(p)
    BY <1>1, <1>3, DiesQuiet, NotAboutLock DEF Harmless
  <1>4. CASE Loading(p)
    <2>1. PICK made : module' = [module EXCEPT ![p] = made]
      BY <1>4, LoadingGoes
    <2>2. Goes(p, "control") /\ UNCHANGED << fate, conf, oldPid, file, fs, raced >>
      BY <1>1, <1>4, LoadingGoes
    <2>3. DOMAIN module' = Daemons /\ KeepsLock(fs, fs')
      BY <2>1, <2>2, KeepsSelf DEF Typed, Shapes
    <2>4. "control" \in Phases /\ "control" \in Constructing /\ phase[p] \in Constructing \cap Logging
      BY <1>1 DEF Phases, Constructing, Logging
    <2>5. Quiet(p, "control")
      BY <2>2, <2>3, <2>4, GoesQuiet
    <2> QED BY <2>4, <2>5, NotAboutLock DEF Harmless
  <1> QED BY <1>2, <1>3, <1>4, LoadingIs

LEMMA TearDownHarmless ==
    ASSUME Typed, NEW p \in Daemons, TearDown(p), raced' = raced
    PROVE  Harmless
  <1>1. Dies(p) \/ Exits(p)
    BY DEF TearDown, Destroy, Throws
  <1> QED BY <1>1, ExitsQuiet, DiesQuiet, NotAboutLock DEF Harmless

LEMMA StartControlHarmless == ASSUME Typed, NEW p \in Daemons, StartControl(p) PROVE Harmless
  <1>1. raced' = raced /\ phase[p] = "control"
    BY DEF StartControl
  <1>2. CASE TearDown(p)
    BY <1>1, <1>2, TearDownHarmless
  <1>3. CASE /\ Goes(p, "up") /\ UNCHANGED << fate, own >>
             /\ fs' = Logged(fs, file[p], Level(conf[p]), << p, "listening" >>)
    <2>1. FsOK(fs) /\ file[p] \in 1 .. Files /\ file[p] # fs.name[Lock]
      BY <1>1 DEF Typed, OpenFiles, Logging
    <2>2. KeepsLock(fs, fs')
      <3>1. KeepsLock(fs, Written(fs, file[p], << << p, "listening" >> >>))
        BY <2>1, WrittenKeeps
      <3> QED BY <1>3, <3>1, KeepsSelf DEF Logged
    <2>3. UNCHANGED << fate, conf, oldPid, file, raced >> /\ DOMAIN module' = Daemons
      BY <1>1, <1>3 DEF own, Typed, Shapes
    <2>4. "up" \in Phases /\ phase[p] \in Constructing \cap Logging
      BY <1>1 DEF Phases, Constructing, Logging
    <2>5. Quiet(p, "up")
      BY <1>3, <2>2, <2>3, <2>4, GoesQuiet
    <2> QED BY <2>4, <2>5, NotAboutLock DEF Harmless
  <1> QED BY <1>2, <1>3 DEF StartControl

LEMMA StopHarmless == ASSUME Typed, NEW p \in Daemons, Stop(p) PROVE Harmless
  BY TearDownHarmless DEF Stop

LEMMA CrashHarmless == ASSUME Typed, NEW p \in Daemons, Crash(p) PROVE Harmless
  BY DiesQuiet, NotAboutLock DEF Crash, Harmless

LEMMA Untouched ==
    ASSUME Typed, UNCHANGED << phase, fate, own, fs, raced >>
    PROVE  Harmless
  <1>1. UNCHANGED << phase, fate, conf, oldPid, file, module, fs, raced >>
    BY DEF own
  <1>2. Typed'
    BY <1>1 DEF Typed, Shapes, FilesTyped, OpenFiles
  <1>3. LockInv => LockInv'
    BY <1>1 DEF LockInv, Serving
  <1> QED BY <1>1, <1>2, <1>3 DEF Harmless

-----------------------------------------------------------------------------
(* alreadyRunning *)

\* A daemon goes from one access of the lock to the next.
Checks(p, ph) ==
    /\ phase' = [phase EXCEPT ![p] = ph] /\ ph \in Checking
    /\ Shapes' /\ FsOK(fs')
    /\ \A q \in Daemons \ {p} : file'[q] = file[q] /\ oldPid'[q] = oldPid[q]

LEMMA ChecksTyped ==
    ASSUME Typed, NEW p \in Daemons, NEW ph, Checks(p, ph),
           \/ fs'.name[Lock] \in {NoFile, fs.name[Lock]}
           \/ \A q \in Daemons : fs'.name[Lock] # file[q],
           ph = "write" => file'[p] \in 1 .. Files
    PROVE  Typed'
  <1>1. /\ phase'[p] = ph /\ \A q \in Daemons \ {p} : phase'[q] = phase[q]
    BY DEF Checks, Typed, Shapes
  <1>2. ph \notin Logging
    BY DEF Checks, Checking, Logging
  <1>3. \A q \in Daemons \ {p} : file'[q] = file[q]
    BY DEF Checks
  <1>4. \A q \in Daemons : phase[q] \in Logging =>
          file[q] \in 1 .. Files /\ file[q] # fs.name[Lock] /\ file[q] # NoFile
    BY DEF Typed, OpenFiles, NoFile
  <1>5. \A q \in Daemons : phase'[q] \in Logging => file'[q] \in 1 .. Files /\ file'[q] # fs'.name[Lock]
    BY <1>1, <1>2, <1>3, <1>4
  <1>6. \A q \in Daemons : phase'[q] = "write" => file'[q] \in 1 .. Files
    BY <1>1, <1>3 DEF Typed, OpenFiles
  <1> QED BY <1>5, <1>6 DEF Checks, Typed, OpenFiles

\* Where only the phase changes.
LEMMA GoesChecks ==
    ASSUME Typed, NEW p \in Daemons, NEW ph \in Checking, Goes(p, ph),
           UNCHANGED << fate, conf, file, module >>, DOMAIN oldPid' = Daemons,
           \A q \in Daemons \ {p} : oldPid'[q] = oldPid[q], raced' \in BOOLEAN, FsOK(fs')
    PROVE  Checks(p, ph)
  <1>1. phase' = [phase EXCEPT ![p] = ph] /\ phase' \in [Daemons -> Phases]
    BY DEF Goes, Typed, Shapes, Phases
  <1> QED BY <1>1 DEF Checks, Typed, Shapes, FilesTyped

\* One daemon alone looks at the lock, which stays that of the one that serves.
LEMMA AloneKeeps ==
    ASSUME Typed, LockInv, NEW p \in Daemons, NEW ph, Checks(p, ph),
           phase[p] \notin Constructing \cup {"up"},
           \A q \in Daemons \ {p} : phase[q] \notin Checking,
           \A s \in Serving : /\ KeepsLock(fs, fs') /\ ph \notin {"unlink", "create", "write"}
                              /\ ph = "ps" => oldPid'[p] = s,
           ph = "write" => file'[p] = fs'.name[Lock]
    PROVE  LockInv'
  <1>1. /\ phase'[p] = ph /\ \A q \in Daemons \ {p} : phase'[q] = phase[q]
    BY DEF Checks, Typed, Shapes
  <1>2. \A q \in Daemons : phase'[q] \in Checking => q = p
    BY <1>1
  <1>3. ph \in Checking /\ ph \notin Constructing \cup {"up"}
    BY DEF Checks, Checking, Constructing
  <1>4. Serving' \subseteq Serving
    BY <1>1, <1>3 DEF Serving
  <1>5. \A s \in Serving' : fs'.name[Lock] # NoFile /\ fs'.data[fs'.name[Lock]] = << s >>
    BY <1>4 DEF LockInv, KeepsLock
  <1>6. \A s \in Serving', q \in Daemons :
          /\ phase'[q] \notin {"unlink", "create", "write"}
          /\ phase'[q] = "ps" => oldPid'[q] = s
    BY <1>1, <1>2, <1>4 DEF Checking
  <1>7. \A q \in Daemons : phase'[q] = "write" => file'[q] = fs'.name[Lock]
    BY <1>1, <1>2 DEF Checking
  <1>8. \A q, r \in Serving' : q = r
    BY <1>4 DEF LockInv
  <1> QED BY <1>2, <1>5, <1>6, <1>7, <1>8 DEF LockInv

LEMMA StatHarmless == ASSUME Typed, NEW p \in Daemons, Stat(p) PROVE Harmless
  <1> DEFINE ph == IF fs.name[Lock] # NoFile THEN "read" ELSE "create"
  <1>1. /\ phase[p] = "stat" /\ Goes(p, ph) /\ UNCHANGED << fate, conf, oldPid, file, module, fs >>
        /\ raced' = (raced \/ \E q \in Daemons \ {p} : phase[q] \in Checking)
    BY DEF Stat, own
  <1>2. ph \in Checking /\ ph # "write" /\ ph # "ps" /\ ph # "unlink"
    BY DEF Checking
  <1>3. fs.name[Lock] # NoFile => ph # "create"
    OBVIOUS
  <1> HIDE DEF ph
  <1>4. Checks(p, ph)
    BY <1>1, <1>2, GoesChecks DEF Typed, Shapes
  <1>5. Typed'
    BY <1>1, <1>2, <1>4, ChecksTyped
  <1>6. ASSUME ~raced', LockInv PROVE LockInv'
    <2>1. \A q \in Daemons \ {p} : phase[q] \notin Checking
      BY <1>1, <1>6
    <2>2. \A s \in Serving : KeepsLock(fs, fs') /\ ph \notin {"unlink", "create", "write"}
      BY <1>1, <1>2, <1>3, <1>6, KeepsSelf DEF LockInv
    <2>3. phase[p] \notin Constructing \cup {"up"}
      BY <1>1 DEF Constructing
    <2> QED BY <1>2, <1>4, <1>6, <2>1, <2>2, <2>3, AloneKeeps
  <1> QED BY <1>1, <1>5, <1>6 DEF Harmless

\* The steps in alreadyRunning after the first.
LEMMA CheckingHarmless ==
    ASSUME Typed, NEW p \in Daemons, phase[p] \in Checking, NEW ph, Checks(p, ph), raced' = raced,
           \/ fs'.name[Lock] \in {NoFile, fs.name[Lock]}
           \/ \A q \in Daemons : fs'.name[Lock] # file[q],
           ph = "write" => file'[p] \in 1 .. Files /\ file'[p] = fs'.name[Lock],
           LockInv => \A s \in Serving : /\ KeepsLock(fs, fs') /\ ph \notin {"unlink", "create", "write"}
                                         /\ ph = "ps" => oldPid'[p] = s
    PROVE  Harmless
  <1>1. Typed'
    BY ChecksTyped
  <1>2. ASSUME LockInv PROVE LockInv'
    <2>1. \A q \in Daemons \ {p} : phase[q] \notin Checking
      BY <1>2 DEF LockInv
    <2>2. phase[p] \notin Constructing \cup {"up"}
      BY DEF Checking, Constructing
    <2> QED BY <1>2, <2>1, <2>2, AloneKeeps
  <1> QED BY <1>1, <1>2 DEF Harmless

LEMMA ReadHarmless == ASSUME Typed, NEW p \in Daemons, Read(p) PROVE Harmless
  <1> DEFINE found == fs.data[fs.name[Lock]]
  <1>1. raced' = raced /\ phase[p] = "read"
    BY DEF Read
  <1>2. \/ Exits(p)
        \/ /\ \E pid \in IF found = << >> THEN {Nobody, p} ELSE {found[1]} :
                oldPid' = [oldPid EXCEPT ![p] = pid]
           /\ Goes(p, "ps") /\ UNCHANGED << fate, conf, file, module, fs >>
    BY DEF Read
  <1>3. CASE Exits(p)
    BY <1>1, <1>3, ExitsQuiet, NotAboutLock DEF Harmless
  <1>4. ASSUME NEW pid \in IF found = << >> THEN {Nobody, p} ELSE {found[1]},
               oldPid' = [oldPid EXCEPT ![p] = pid],
               Goes(p, "ps"), UNCHANGED << fate, conf, file, module, fs >>
        PROVE  Harmless
    <2>1. DOMAIN oldPid' = Daemons /\ oldPid'[p] = pid /\ \A q \in Daemons \ {p} : oldPid'[q] = oldPid[q]
      BY <1>4 DEF Typed, Shapes
    <2>2. "ps" \in Checking /\ phase[p] \in Checking
      BY <1>1 DEF Checking
    <2>3. Checks(p, "ps")
      BY <1>1, <1>4, <2>1, <2>2, GoesChecks DEF Typed, Shapes
    <2>4. LockInv => \A s \in Serving : KeepsLock(fs, fs') /\ oldPid'[p] = s
      <3> SUFFICES ASSUME LockInv, NEW s \in Serving PROVE KeepsLock(fs, fs') /\ oldPid'[p] = s
        OBVIOUS
      <3>1. found = << s >>
        BY DEF LockInv
      <3>2. found # << >> /\ found[1] = s
        BY <3>1
      <3>3. pid = s
        BY <1>4, <3>2
      <3> QED BY <1>4, <2>1, <3>3, KeepsSelf
    <2> QED BY <1>1, <1>4, <2>2, <2>3, <2>4, CheckingHarmless
  <1> QED BY <1>2, <1>3, <1>4

LEMMA PsHarmless == ASSUME Typed, NEW p \in Daemons, Ps(p) PROVE Harmless
  <1>1. raced' = raced /\ phase[p] = "ps" /\ phase[p] \in Checking /\ "unlink" \in Checking
    BY DEF Ps, Checking
  <1>2. CASE Running(oldPid[p])
    BY <1>1, <1>2, ExitsQuiet, NotAboutLock DEF Harmless, Ps
  <1>3. CASE ~Running(oldPid[p])
    <2>1. /\ oldPid' = [oldPid EXCEPT ![p] = Nobody] /\ Goes(p, "unlink")
          /\ UNCHANGED << fate, conf, file, module, fs >>
      BY <1>3 DEF Ps
    <2>2. DOMAIN oldPid' = Daemons /\ \A q \in Daemons \ {p} : oldPid'[q] = oldPid[q]
      BY <2>1 DEF Typed, Shapes
    <2>3. Checks(p, "unlink")
      BY <1>1, <2>1, <2>2, GoesChecks DEF Typed, Shapes
    <2>4. LockInv => Serving = {}
      <3> SUFFICES ASSUME LockInv, NEW s \in Serving PROVE FALSE
        OBVIOUS
      <3>1. oldPid[p] = s
        BY <1>1 DEF LockInv
      <3>2. s # Nobody /\ Lives(s)
        BY StartupAssumption DEF Serving, Lives, Constructing
      <3> QED BY <1>3, <3>1, <3>2 DEF Running
    <2> QED BY <1>1, <2>1, <2>3, <2>4, CheckingHarmless
  <1> QED BY <1>2, <1>3

LEMMA UnlinkHarmless == ASSUME Typed, NEW p \in Daemons, Unlink(p) PROVE Harmless
  <1>1. /\ phase[p] = "unlink" /\ fs' = Unlinked(fs, Lock) /\ Goes(p, "create")
        /\ UNCHANGED << fate, conf, oldPid, file, module, raced >>
        /\ phase[p] \in Checking /\ "create" \in Checking
    BY DEF Unlink, own, Checking
  <1>2. FsOK(fs') /\ fs'.name[Lock] = NoFile
    BY <1>1, NamesApart, UnlinkedIs DEF Typed
  <1>3. Checks(p, "create")
    BY <1>1, <1>2, GoesChecks DEF Typed, Shapes
  <1>4. LockInv => Serving = {}
    BY <1>1 DEF LockInv
  <1> QED BY <1>1, <1>2, <1>3, <1>4, CheckingHarmless

\* What Create and Write do with the data of a file.
Overwritten(f, x, lines) == [f EXCEPT !.data[x] = lines]

LEMMA EmptiedIs ==
    ASSUME NEW f, FsOK(f), NEW x \in 1 .. Files, NEW lines
    PROVE  LET g == Overwritten(f, x, lines)
           IN  FsOK(g) /\ g.name = f.name /\ g.data[x] = lines
  <1> DEFINE p == [name |-> f.name, data |-> f.data]
             data == [f.data EXCEPT ![x] = lines]
             g == Overwritten(f, x, lines)
  <1>1. f = p
    BY DEF FsOK
  <1>2. g = [p EXCEPT !.data = data]
    BY <1>1 DEF Overwritten
  <1>3. g = [name |-> f.name, data |-> data]
    BY <1>2
  <1>4. DOMAIN data = 1 .. Files /\ data[x] = lines
    BY DEF FsOK
  <1>5. g.name = f.name /\ g.data = data /\ g = [name |-> g.name, data |-> g.data]
    BY <1>3
  <1> HIDE DEF g, data
  <1>6. FsOK(g)
    BY <1>4, <1>5 DEF FsOK
  <1> QED BY <1>4, <1>5, <1>6 DEF g

LEMMA CreateHarmless == ASSUME Typed, NEW p \in Daemons, Create(p) PROVE Harmless
  <1> DEFINE opened == Named(fs, Lock, Held)
             l == opened.name[Lock]
  <1>1. /\ phase[p] = "create" /\ fs' = Emptied(fs, Lock, Held) /\ Goes(p, "write")
        /\ file' = [file EXCEPT ![p] = fs'.name[Lock]]
        /\ UNCHANGED << fate, conf, oldPid, module, raced >>
        /\ phase[p] \in Checking /\ "write" \in Checking
    BY DEF Create, Checking
  <1>2. FilesTyped /\ FsOK(fs) /\ Lock \in FileNames /\ Lock # "netmate.pid" /\ Held \subseteq Held \cup Ids(fs)
    BY NamesApart DEF Typed, Shapes
  <1>3. /\ FsOK(opened) /\ l \in 1 .. Files
        /\ fs.name[Lock] # NoFile => opened = fs
        /\ fs.name[Lock] = NoFile => l \notin Held
    BY <1>2, NamedIs
  <1>4. fs' = Overwritten(opened, l, << >>)
    BY <1>1 DEF Emptied, Overwritten
  <1> HIDE DEF opened
  <1>5. FsOK(fs') /\ fs'.name = opened.name
    BY <1>3, <1>4, EmptiedIs
  <1>6. file' \in [Daemons -> 0 .. Files] /\ file'[p] = l /\ \A q \in Daemons \ {p} : file'[q] = file[q]
    <2>1. l \in 0 .. Files /\ file \in [Daemons -> 0 .. Files]
      BY <1>2, <1>3, FilesNat DEF FilesTyped
    <2> QED BY <1>1, <1>5, <2>1
  <1>7. \/ fs'.name[Lock] \in {NoFile, fs.name[Lock]}
        \/ \A q \in Daemons : fs'.name[Lock] # file[q]
    <2>1. CASE fs.name[Lock] # NoFile
      BY <1>3, <1>5, <2>1
    <2>2. CASE fs.name[Lock] = NoFile
      <3>1. l \notin Held /\ l # NoFile
        BY <1>3, <2>2 DEF NoFile
      <3> QED BY <1>5, <3>1 DEF Held
    <2> QED BY <2>1, <2>2
  <1>8. Checks(p, "write")
    <2>1. phase' = [phase EXCEPT ![p] = "write"] /\ phase' \in [Daemons -> Phases]
      BY <1>1 DEF Goes, Typed, Shapes, Phases
    <2> QED BY <1>1, <1>5, <1>6, <2>1 DEF Checks, Typed, Shapes, FilesTyped
  <1>9. LockInv => Serving = {}
    BY <1>1 DEF LockInv
  <1> QED BY <1>1, <1>3, <1>5, <1>6, <1>7, <1>8, <1>9, CheckingHarmless

\* The one that has written the lock is the one that serves.
LEMMA WriteHarmless == ASSUME Typed, NEW p \in Daemons, Write(p) PROVE Harmless
  <1>1. /\ phase[p] = "write" /\ fs' = Overwritten(fs, file[p], << p >>)
        /\ file' = [file EXCEPT ![p] = NoFile] /\ phase' = [phase EXCEPT ![p] = "logger"]
        /\ UNCHANGED << fate, conf, oldPid, module, raced >>
    BY DEF Write, Goes, Overwritten
  <1>2. file[p] \in 1 .. Files /\ FsOK(fs)
    BY <1>1 DEF Typed, OpenFiles
  <1>3. FsOK(fs') /\ fs'.name = fs.name /\ fs'.data[file[p]] = << p >>
    BY <1>1, <1>2, EmptiedIs
  <1>4. /\ phase' \in [Daemons -> Phases] /\ phase'[p] = "logger"
        /\ \A q \in Daemons \ {p} : phase'[q] = phase[q]
    BY <1>1 DEF Typed, Shapes, Phases, Constructing
  <1>5. file' \in [Daemons -> 0 .. Files] /\ \A q \in Daemons \ {p} : file'[q] = file[q]
    BY <1>1, FilesNat DEF Typed, Shapes, FilesTyped, NoFile
  <1>6. Typed'
    <2>1. Shapes'
      BY <1>1, <1>4, <1>5 DEF Typed, Shapes, FilesTyped
    <2>2. OpenFiles'
      BY <1>3, <1>4, <1>5 DEF Typed, OpenFiles, Logging
    <2> QED BY <1>3, <2>1, <2>2 DEF Typed
  <1>7. ASSUME LockInv PROVE LockInv'
    <2>1. Serving = {} /\ file[p] = fs.name[Lock] /\ \A q \in Daemons \ {p} : phase[q] \notin Checking
      BY <1>1, <1>7 DEF LockInv, Checking
    <2>2. Serving' \subseteq {p}
      BY <1>4, <2>1 DEF Serving
    <2>3. \A q \in Daemons : phase'[q] \notin Checking
      BY <1>4, <2>1 DEF Checking
    <2>4. fs'.name[Lock] # NoFile /\ fs'.data[fs'.name[Lock]] = << p >>
      BY <1>2, <1>3, <2>1 DEF NoFile
    <2> QED BY <2>2, <2>3, <2>4 DEF LockInv, Checking
  <1> QED BY <1>1, <1>6, <1>7 DEF Harmless

LEMMA StepHarmless == ASSUME Typed, Next PROVE Harmless
  <1>1. PICK p \in Daemons :
          \/ Begin(p) \/ Stat(p) \/ Read(p) \/ Ps(p) \/ Unlink(p) \/ Create(p) \/ Write(p)
          \/ Configure(p) \/ StartProcessor(p) \/ StartControl(p) \/ Stop(p)
          \/ Crash(p) \/ Reuse(p) \/ ForeignEnds(p)
    BY DEF Next
  <1>2. CASE Reuse(p)
    BY <1>2, Untouched DEF Reuse
  <1>3. CASE ForeignEnds(p)
    BY <1>3, Untouched DEF ForeignEnds
  <1> QED BY <1>1, <1>2, <1>3, BeginHarmless, StatHarmless, ReadHarmless, PsHarmless, UnlinkHarmless,
             CreateHarmless, WriteHarmless, ConfigureHarmless, StartProcessorHarmless,
             StartControlHarmless, StopHarmless, CrashHarmless

-----------------------------------------------------------------------------
(* What a step does to the settings, the modules and the kernel *)

Late == {"control", "up"}

\* The others are not touched.
Frame(p) ==
    \A q \in Daemons \ {p} :
      phase'[q] = phase[q] /\ fate'[q] = fate[q] /\ conf'[q] = conf[q] /\ module'[q] = module[q]

\* A daemon that is not on its way to the control socket yet and does not end.
Early(p) ==
    /\ phase[p] \notin Late \cup {"over"} /\ phase'[p] \notin Late \cup {"over"}
    /\ UNCHANGED << fate, module, qdisc >>

\* It ends: by a crash, before it has a module, with what it set up gone, or,
\* after a refused request, with that still there without its default class.
Ended(p) ==
    /\ phase[p] # "over" /\ phase'[p] = "over" /\ module'[p] = NoModule /\ fate'[p] \in {"exit", "crash"}
    /\ \/ UNCHANGED qdisc /\ (phase[p] \in Late /\ fate'[p] = "exit" => ~Destroys(p))
       \/ /\ phase[p] \in Late /\ Destroys(p)
          /\ \/ qdisc' = Destroyed(p)
             \/ qdisc' = Left(p) /\ faults' = faults + 1

Opens(p) ==
    /\ phase[p] = "control" /\ phase'[p] = "up" /\ (Enabled(p) => PortFree(Port(p)))
    /\ UNCHANGED << fate, conf, module, qdisc >>

Kinds(p) ==
    \/ UNCHANGED << phase, fate, conf, module, qdisc >>
    \/ Frame(p) /\ Early(p)
    \/ Frame(p) /\ Ended(p)
    \/ Frame(p) /\ phase[p] = "processor" /\ Loading(p) /\ UNCHANGED << fate, conf >>
    \/ Frame(p) /\ Opens(p)

LEMMA EndsIs ==
    ASSUME Typed, NEW p \in Daemons, NEW how \in {"exit", "crash"}, Ends(p, how)
    PROVE  Frame(p) /\ phase'[p] = "over" /\ module'[p] = NoModule /\ fate'[p] = how
  BY DEF Typed, Shapes, Ends, Goes, Frame

LEMMA ExitIs ==
    ASSUME Typed, NEW p \in Daemons, NEW files, ExitsWith(p, files), UNCHANGED qdisc,
           phase[p] # "over", phase[p] \in Late => ~Destroys(p)
    PROVE  Frame(p) /\ Ended(p)
  BY EndsIs DEF ExitsWith, Ended

LEMMA DeathIs ==
    ASSUME Typed, NEW p \in Daemons, Dies(p), UNCHANGED qdisc, phase[p] # "over"
    PROVE  Frame(p) /\ Ended(p)
  <1>1. Frame(p) /\ phase'[p] = "over" /\ module'[p] = NoModule /\ fate'[p] = "crash"
    BY EndsIs DEF Dies
  <1> QED BY <1>1 DEF Ended

LEMMA TearDownIs ==
    ASSUME Typed, NEW p \in Daemons, TearDown(p), phase[p] \in Late
    PROVE  Frame(p) /\ Ended(p)
  <1>1. phase[p] # "over"
    BY DEF Late
  <1>2. CASE Dies(p) /\ UNCHANGED qdisc
    BY <1>1, <1>2, DeathIs
  <1>3. CASE Exits(p) /\ UNCHANGED qdisc /\ ~Destroys(p)
    BY <1>1, <1>3, ExitIs DEF Exits
  <1>4. CASE /\ Exits(p) /\ Destroys(p)
             /\ qdisc' = Destroyed(p) \/ (qdisc' = Left(p) /\ faults' = faults + 1)
    <2>1. Frame(p) /\ phase'[p] = "over" /\ module'[p] = NoModule /\ fate'[p] = "exit"
      BY <1>4, EndsIs DEF Exits, ExitsWith
    <2> QED BY <1>1, <1>4, <2>1 DEF Ended
  <1> QED BY <1>2, <1>3, <1>4, Zenon DEF TearDown, Destroy, Throws, kernel

\* The daemon goes on, and what else may change of it are its settings.
LEMMA EarlyIs ==
    ASSUME Typed, NEW p \in Daemons, NEW ph \in Phases \ (Late \cup {"over"}), Goes(p, ph),
           phase[p] \notin Late \cup {"over"}, UNCHANGED << fate, module, qdisc >>,
           \A q \in Daemons \ {p} : conf'[q] = conf[q]
    PROVE  Frame(p) /\ Early(p)
  <1>1. phase'[p] = ph /\ \A q \in Daemons \ {p} : phase'[q] = phase[q]
    BY DEF Goes, Typed, Shapes
  <1> QED BY <1>1 DEF Frame, Early

LEMMA BeginIs == ASSUME Typed, NEW p \in Daemons, Begin(p) PROVE Frame(p) /\ (Early(p) \/ Ended(p))
  <1>1. phase[p] = "idle" /\ UNCHANGED qdisc
    BY DEF Begin, kernel
  <1>2. CASE Exits(p)
    BY <1>1, <1>2, ExitIs DEF Exits, Late
  <1>3. CASE Goes(p, "stat") /\ UNCHANGED << fate, own >>
    BY <1>1, <1>3, EarlyIs DEF own, Phases, Late
  <1> QED BY <1>2, <1>3 DEF Begin

LEMMA CheckIs ==
    ASSUME Typed, NEW p \in Daemons, Stat(p) \/ Read(p) \/ Ps(p) \/ Unlink(p) \/ Create(p) \/ Write(p)
    PROVE  Frame(p) /\ (Early(p) \/ Ended(p))
  <1>1. phase[p] \in {"stat"} \cup Checking /\ phase[p] \notin Late \cup {"over"} /\ UNCHANGED qdisc
    BY DEF Stat, Read, Ps, Unlink, Create, Write, Checking, Late, kernel
  <1>2. \/ Exits(p)
        \/ \E ph \in Checking \cup {"logger"} :
             Goes(p, ph) /\ UNCHANGED << fate, conf, module >>
    <2>1. CASE Stat(p)
      BY <2>1 DEF Stat, own, Checking
    <2>2. CASE Read(p)
      BY <2>2 DEF Read, Checking
    <2>3. CASE Ps(p)
      BY <2>3 DEF Ps, Checking
    <2>4. CASE Unlink(p)
      BY <2>4 DEF Unlink, own, Checking
    <2>5. CASE Create(p)
      BY <2>5 DEF Create, Checking
    <2>6. CASE Write(p)
      BY <2>6 DEF Write
    <2> QED BY <2>1, <2>2, <2>3, <2>4, <2>5, <2>6
  <1>3. CASE Exits(p)
    BY <1>1, <1>3, ExitIs DEF Exits, Late
  <1>4. ASSUME NEW ph \in Checking \cup {"logger"}, Goes(p, ph), UNCHANGED << fate, conf, module >>
        PROVE  Frame(p) /\ Early(p)
    <2>1. ph \in Phases \ (Late \cup {"over"})
      BY DEF Phases, Late, Checking, Constructing
    <2> QED BY <1>1, <1>4, <2>1, EarlyIs
  <1> QED BY <1>2, <1>3, <1>4

LEMMA ConfigureIs == ASSUME Typed, NEW p \in Daemons, Configure(p) PROVE Frame(p) /\ (Early(p) \/ Ended(p))
  <1>1. phase[p] = "logger" /\ phase[p] \notin Late \cup {"over"} /\ UNCHANGED qdisc
    BY DEF Configure, Late, kernel
  <1>2. PICK s, logged : Configured(p, s, Settings(s), logged)
    BY DEF Configure
  <1> DEFINE list == Settings(s)
  <1>3. \/ \E files : ExitsWith(p, files)
        \/ conf' = [conf EXCEPT ![p] = list] /\ Goes(p, "processor") /\ UNCHANGED << fate, module >>
    <2> HIDE DEF list
    <2>1. Configured(p, s, list, logged)
      BY <1>2 DEF list
    <2> QED BY <2>1, Zenon DEF Configured
  <1>4. CASE \E files : ExitsWith(p, files)
    BY <1>1, <1>4, ExitIs DEF Late
  <1>5. CASE conf' = [conf EXCEPT ![p] = list] /\ Goes(p, "processor") /\ UNCHANGED << fate, module >>
    <2>1. "processor" \in Phases \ (Late \cup {"over"})
      BY DEF Phases, Late, Constructing
    <2>2. \A q \in Daemons \ {p} : conf'[q] = conf[q]
      BY <1>5 DEF Typed, Shapes
    <2> QED BY <1>1, <1>5, <2>1, <2>2, EarlyIs
  <1> QED BY <1>3, <1>4, <1>5

LEMMA StartProcessorIs == ASSUME Typed, NEW p \in Daemons, StartProcessor(p) PROVE Kinds(p)
  <1>1. phase[p] = "processor"
    BY DEF StartProcessor
  <1>2. CASE Exits(p) /\ UNCHANGED qdisc
    BY <1>1, <1>2, ExitIs DEF Exits, Late, Kinds
  <1>3. CASE Dies(p) /\ UNCHANGED qdisc
    BY <1>1, <1>3, DeathIs DEF Kinds
  <1>4. CASE Loading(p)
    <2>1. PICK made : module' = [module EXCEPT ![p] = made]
      BY <1>4, LoadingGoes
    <2>2. Goes(p, "control") /\ UNCHANGED << fate, conf >>
      BY <1>4, LoadingGoes
    <2>3. Frame(p)
      BY <2>1, <2>2 DEF Frame, Goes, Typed, Shapes
    <2> QED BY <1>1, <1>4, <2>2, <2>3 DEF Kinds
  <1> QED BY <1>2, <1>3, <1>4, LoadingIs

LEMMA StartControlIs == ASSUME Typed, NEW p \in Daemons, StartControl(p) PROVE Kinds(p)
  <1>1. phase[p] = "control" /\ phase[p] \in Late
    BY DEF StartControl, Late
  <1>2. CASE TearDown(p)
    BY <1>1, <1>2, TearDownIs DEF Kinds
  <1>3. CASE (Enabled(p) => PortFree(Port(p))) /\ Goes(p, "up") /\ UNCHANGED << fate, own, kernel >>
    <2>1. phase'[p] = "up" /\ \A q \in Daemons \ {p} : phase'[q] = phase[q]
      BY <1>3 DEF Goes, Typed, Shapes
    <2>2. UNCHANGED << fate, conf, module, qdisc >>
      BY <1>3 DEF own, kernel
    <2> QED BY <1>1, <1>3, <2>1, <2>2 DEF Kinds, Frame, Opens
  <1> QED BY <1>2, <1>3 DEF StartControl

LEMMA StepIs == ASSUME Typed, Next PROVE \E p \in Daemons : Kinds(p)
  <1>1. PICK p \in Daemons :
          \/ Begin(p) \/ Stat(p) \/ Read(p) \/ Ps(p) \/ Unlink(p) \/ Create(p) \/ Write(p)
          \/ Configure(p) \/ StartProcessor(p) \/ StartControl(p) \/ Stop(p)
          \/ Crash(p) \/ Reuse(p) \/ ForeignEnds(p)
    BY DEF Next
  <1>2. CASE Stop(p)
    BY <1>2, TearDownIs DEF Stop, Late, Kinds
  <1>3. CASE Crash(p)
    BY <1>3, DeathIs DEF Crash, Lives, Kinds
  <1>4. CASE Reuse(p) \/ ForeignEnds(p)
    BY <1>4 DEF Reuse, ForeignEnds, own, kernel, Kinds
  <1>5. CASE Begin(p)
    BY <1>5, BeginIs DEF Kinds
  <1>6. CASE Configure(p)
    BY <1>6, ConfigureIs DEF Kinds
  <1>7. CASE Stat(p) \/ Read(p) \/ Ps(p) \/ Unlink(p) \/ Create(p) \/ Write(p)
    BY <1>7, CheckIs DEF Kinds
  <1>8. CASE StartProcessor(p)
    BY <1>8, StartProcessorIs
  <1>9. CASE StartControl(p)
    BY <1>9, StartControlIs
  <1> QED BY <1>1, <1>2, <1>3, <1>4, <1>5, <1>6, <1>7, <1>8, <1>9
-----------------------------------------------------------------------------
(* The ports *)

PortsApart ==
    \A p, q \in {r \in Daemons : phase[r] = "up" /\ Enabled(r)} : Port(p) = Port(q) => p = q

\* What is read of the settings of a daemon whose settings stay stays.
LEMMA SettingsStay ==
    ASSUME NEW q \in Daemons, conf'[q] = conf[q]
    PROVE  /\ Enabled(q)' <=> Enabled(q)
           /\ Port(q)' = Port(q)
           /\ ItemsThere(q)' <=> ItemsThere(q)
           /\ UseIPv6(q)' <=> UseIPv6(q)
           /\ Interface(q)' = Interface(q)
  BY DEF Enabled, Port, ItemsThere, UseIPv6, Interface

LEMMA PortsStep == ASSUME Typed, PortsApart, NEW p \in Daemons, Kinds(p) PROVE PortsApart'
  <1> DEFINE Up == {r \in Daemons : phase[r] = "up" /\ Enabled(r)}
  <1>1. SUFFICES ASSUME NEW q \in Daemons, NEW r \in Daemons, phase'[q] = "up", phase'[r] = "up",
                        Enabled(q)', Enabled(r)', Port(q)' = Port(r)'
                 PROVE  q = r
    BY DEF PortsApart
  <1>2. ASSUME NEW a \in Daemons, phase'[a] = "up", Enabled(a)', phase[a] = "up", conf'[a] = conf[a]
        PROVE  a \in Up /\ Port(a)' = Port(a)
    BY <1>2, SettingsStay
  <1>3. CASE UNCHANGED << phase, conf >>
    <2>1. q \in Up /\ Port(q)' = Port(q) /\ r \in Up /\ Port(r)' = Port(r)
      BY <1>1, <1>2, <1>3
    <2> QED BY <1>1, <2>1 DEF PortsApart
  <1>4. CASE Frame(p) /\ phase'[p] # "up"
    <2>1. q \in Up /\ Port(q)' = Port(q) /\ r \in Up /\ Port(r)' = Port(r)
      BY <1>1, <1>2, <1>4 DEF Frame
    <2> QED BY <1>1, <2>1 DEF PortsApart
  <1>5. CASE Frame(p) /\ Opens(p)
    <2>1. conf'[p] = conf[p] /\ phase[p] # "up" /\ (Enabled(p) => PortFree(Port(p)))
      BY <1>5 DEF Opens
    <2>2. ASSUME NEW a \in Daemons, a # p, phase'[a] = "up", Enabled(a)', Enabled(p)'
          PROVE  a \in Up /\ Port(a)' # Port(p)'
      <3>1. phase[a] = "up" /\ conf'[a] = conf[a]
        BY <1>5, <2>2 DEF Frame
      <3>2. a \in Up /\ Port(a)' = Port(a) /\ Port(p)' = Port(p) /\ Enabled(p)
        BY <1>2, <2>1, <2>2, <3>1, SettingsStay
      <3>3. ~Listens(a, Port(p))
        BY <2>1, <3>2 DEF PortFree
      <3> QED BY <3>2, <3>3 DEF Listens
    <2>3. CASE q = p \/ r = p
      BY <1>1, <2>2, <2>3
    <2>4. CASE q # p /\ r # p
      <3>1. q \in Up /\ Port(q)' = Port(q) /\ r \in Up /\ Port(r)' = Port(r)
        BY <1>1, <1>2, <1>5, <2>4 DEF Frame
      <3> QED BY <1>1, <3>1 DEF PortsApart
    <2> QED BY <2>3, <2>4
  <1>6. ASSUME Loading(p) PROVE phase'[p] # "up"
    <2>1. Goes(p, "control")
      BY <1>6, LoadingGoes
    <2> QED BY <2>1 DEF Goes, Typed, Shapes
  <1> QED BY <1>3, <1>4, <1>5, <1>6 DEF Kinds, Early, Ended, Late

-----------------------------------------------------------------------------
(* The kernel *)

\* A module belongs to a daemon that is on its way to the control socket or
\* there; a qdisc belongs to such a one, of whose interface it is, or to one
\* that has ended: in order without the tables or without the default class.
Owns(p) ==
    /\ phase[p] \notin Late => module[p] = NoModule
    /\ fate[p] # "none" => phase[p] = "over"
    /\ module[p].served => module[p].link \in Interfaces
    /\ \A i \in Interfaces : qdisc[i].owner = p =>
         /\ phase[p] \in Late \cup {"over"}
         /\ phase[p] \in Late =>
              ItemsThere(p) /\ i = module[p].link /\ (qdisc[i].tables => ~UseIPv6(p))
         /\ fate[p] = "exit" /\ qdisc[i].tables => ~qdisc[i].default
Owned == DOMAIN qdisc = Interfaces /\ \A p \in Daemons : Owns(p)

\* What the one that serves has set up is whole.
Full(p) == [owner |-> p, default |-> TRUE, tables |-> ~UseIPv6(p)]
Whole == \A p \in Serving : module[p].served => qdisc[module[p].link] = Full(p)

\* Nobody's qdisc has no tables, and is no daemon's.
LEMMA NoQdiscIs ==
    /\ \A p \in Daemons : NoQdisc.owner # p
    /\ ~NoQdisc.tables
    /\ NoModule.link = "" /\ ~NoModule.served
  BY StartupAssumption DEF NoQdisc, NoModule

LEMMA InitOwned == Init => Owned /\ Whole /\ PortsApart
  <1> SUFFICES ASSUME Init PROVE Owned /\ Whole /\ PortsApart
    OBVIOUS
  <1>1. /\ phase = [p \in Daemons |-> "idle"] /\ fate = [p \in Daemons |-> "none"]
        /\ module = [p \in Daemons |-> NoModule] /\ qdisc = [i \in Interfaces |-> NoQdisc]
    BY DEF Init
  <1>2. Owned
    BY <1>1, NoQdiscIs DEF Owned, Owns, Late
  <1>3. Serving = {}
    BY <1>1 DEF Serving, Constructing
  <1>4. PortsApart
    BY <1>1 DEF PortsApart
  <1> QED BY <1>2, <1>3, <1>4 DEF Whole

LEMMA InitFew == Init => faults \in Nat /\ Cardinality(LeftTables) <= faults
  <1> SUFFICES ASSUME Init PROVE faults \in Nat /\ Cardinality(LeftTables) <= faults
    OBVIOUS
  <1>1. LeftTables = {} /\ faults = 0
    BY DEF Init, LeftTables
  <1> QED BY <1>1, FS_EmptySet

LEMMA FullIs ==
    ASSUME NEW p
    PROVE  Full(p).owner = p /\ (Full(p).tables => ~UseIPv6(p))
  BY DEF Full

\* What p takes down of a qdisc, whoever's it is.
LEMMA UndoneIs ==
    ASSUME NEW q
    PROVE  Undone(q).owner = q.owner /\ ~Undone(q).default /\ Undone(q).tables = q.tables
  BY DEF Undone

\* A qdisc that is another daemon's is not set up by this step.
Less(q, r) == q.owner = r.owner /\ (q.tables => r.tables) /\ (q.default => r.default)

LEMMA OwnsStays ==
    ASSUME NEW q \in Daemons, Owns(q),
           phase'[q] = phase[q], fate'[q] = fate[q], conf'[q] = conf[q], module'[q] = module[q],
           \A i \in Interfaces : qdisc'[i].owner = q => Less(qdisc'[i], qdisc[i])
    PROVE  Owns(q)'
  <1>1. (ItemsThere(q)' <=> ItemsThere(q)) /\ (UseIPv6(q)' <=> UseIPv6(q))
    BY SettingsStay
  <1>2. phase'[q] \notin Late => module'[q] = NoModule
    BY DEF Owns
  <1>3. fate'[q] # "none" => phase'[q] = "over"
    BY DEF Owns
  <1>4. module'[q].served => module'[q].link \in Interfaces
    BY DEF Owns
  <1>5. ASSUME NEW i \in Interfaces, qdisc'[i].owner = q
        PROVE  /\ phase'[q] \in Late \cup {"over"}
               /\ phase'[q] \in Late => ItemsThere(q)' /\ i = module'[q].link /\ (qdisc'[i].tables => ~UseIPv6(q)')
               /\ fate'[q] = "exit" /\ qdisc'[i].tables => ~qdisc'[i].default
    <2>1. qdisc[i].owner = q /\ (qdisc'[i].tables => qdisc[i].tables) /\ (qdisc'[i].default => qdisc[i].default)
      BY <1>5 DEF Less
    <2> QED BY <1>1, <2>1 DEF Owns
  <1> QED BY <1>2, <1>3, <1>4, <1>5 DEF Owns

LEMMA OthersOwn ==
    ASSUME Owned, NEW p \in Daemons, Frame(p),
           \A i \in Interfaces : Less(qdisc'[i], qdisc[i]) \/ qdisc'[i].owner \in {p, Nobody}
    PROVE  \A q \in Daemons \ {p} : Owns(q)'
  <1> SUFFICES ASSUME NEW q \in Daemons \ {p} PROVE Owns(q)'
    OBVIOUS
  <1>1. \A i \in Interfaces : qdisc'[i].owner = q => Less(qdisc'[i], qdisc[i])
    BY StartupAssumption DEF Owned
  <1>2. /\ phase'[q] = phase[q] /\ fate'[q] = fate[q] /\ conf'[q] = conf[q]
        /\ module'[q] = module[q] /\ Owns(q)
    BY DEF Frame, Owned
  <1> QED BY <1>1, <1>2, OwnsStays

\* What loading the module makes of the kernel.
LEMMA LoadedIs ==
    ASSUME Typed, NEW p \in Daemons, Loading(p)
    PROVE  \/ UNCHANGED qdisc /\ ~module'[p].served
           \/ /\ ItemsThere(p) /\ Interface(p) \in Interfaces /\ module'[p].link = Interface(p)
              /\ \E x : /\ qdisc' = [qdisc EXCEPT ![Interface(p)] = x]
                        /\ x = NoQdisc \/ x.owner = p
                        /\ x.tables => ~UseIPv6(p)
                        /\ module'[p].served => x = Full(p)
  <1> DEFINE i == Interface(p)
             linked(served) == [link |-> i, served |-> served]
             partial == {NoQdisc} \cup [owner : {p}, default : BOOLEAN, tables : {FALSE}]
  <1>1. \/ Loaded(p, NoModule, qdisc)
        \/ /\ ItemsThere(p) /\ i \in Interfaces
           /\ \/ Loaded(p, linked(FALSE), qdisc)
              \/ Loaded(p, linked(TRUE), [qdisc EXCEPT ![i] = Full(p)])
              \/ \E x \in partial : Loaded(p, linked(FALSE), [qdisc EXCEPT ![i] = x])
    BY Zenon DEF Loading, Full
  <1>2. \A made, interfaces : Loaded(p, made, interfaces) => module'[p] = made /\ qdisc' = interfaces
    BY DEF Loaded, Typed, Shapes
  <1>3. linked(FALSE).link = i /\ ~linked(FALSE).served /\ linked(TRUE).link = i
    OBVIOUS
  <1>4. \A x \in partial : (x = NoQdisc \/ x.owner = p) /\ ~x.tables
    BY NoQdiscIs
  <1>5. CASE Loaded(p, NoModule, qdisc)
    BY <1>2, <1>5, NoQdiscIs
  <1>6. CASE Loaded(p, linked(FALSE), qdisc)
    <2> HIDE DEF linked
    <2> QED BY <1>2, <1>3, <1>6
  <1>7. CASE ItemsThere(p) /\ i \in Interfaces /\ Loaded(p, linked(TRUE), [qdisc EXCEPT ![i] = Full(p)])
    <2> HIDE DEF linked
    <2>1. module'[p].link = i /\ qdisc' = [qdisc EXCEPT ![i] = Full(p)]
      BY <1>2, <1>3, <1>7
    <2> QED BY <1>7, <2>1, FullIs
  <1>8. CASE /\ ItemsThere(p) /\ i \in Interfaces
             /\ \E x \in partial : Loaded(p, linked(FALSE), [qdisc EXCEPT ![i] = x])
    <2> HIDE DEF linked, partial
    <2>1. PICK x \in partial : Loaded(p, linked(FALSE), [qdisc EXCEPT ![i] = x])
      BY <1>8
    <2>2. module'[p].link = i /\ ~module'[p].served /\ qdisc' = [qdisc EXCEPT ![i] = x]
      BY <1>2, <1>3, <2>1
    <2> QED BY <1>4, <1>8, <2>2
  <1> QED BY <1>1, <1>5, <1>6, <1>7, <1>8

LEMMA LessSelf == \A q : Less(q, q)
  BY DEF Less

LEMMA LessUnchanged ==
    ASSUME NEW i, qdisc'[i] = qdisc[i]
    PROVE  Less(qdisc'[i], qdisc[i])
  BY LessSelf

\* An end takes something down, of one interface.
LEMMA EndedTakes ==
    ASSUME Owned, NEW p \in Daemons, Ended(p)
    PROVE  /\ DOMAIN qdisc' = Interfaces
           /\ \A i \in Interfaces : Less(qdisc'[i], qdisc[i]) \/ qdisc'[i] = NoQdisc
  <1>1. DOMAIN qdisc = Interfaces
    BY DEF Owned
  <1>2. CASE UNCHANGED qdisc
    BY <1>1, <1>2, LessUnchanged
  <1>3. CASE qdisc' = Destroyed(p)
    <2>1. DOMAIN qdisc' = Interfaces /\ \A i \in Interfaces : qdisc'[i] = qdisc[i] \/ qdisc'[i] = NoQdisc
      BY <1>1, <1>3 DEF Destroyed
    <2> QED BY <2>1, LessUnchanged
  <1>4. CASE qdisc' = Left(p)
    <2>1. /\ DOMAIN qdisc' = Interfaces
          /\ \A i \in Interfaces : qdisc'[i] = qdisc[i] \/ qdisc'[i] = Undone(qdisc[i])
      BY <1>1, <1>4 DEF Left
    <2>2. \A i \in Interfaces : Less(Undone(qdisc[i]), qdisc[i])
      BY UndoneIs DEF Less
    <2> QED BY <2>1, <2>2, LessUnchanged
  <1> QED BY <1>2, <1>3, <1>4 DEF Ended

\* Tables outlive an end in order only without the default class, and by a
\* request that was refused.
LEMMA EndedLeaves ==
    ASSUME Owned, NEW p \in Daemons, Ended(p), NEW i \in Interfaces, qdisc'[i].owner = p,
           fate'[p] = "exit", qdisc'[i].tables
    PROVE  ~qdisc'[i].default /\ faults' = faults + 1
  <1>1. Owns(p) /\ DOMAIN qdisc = Interfaces
    BY DEF Owned
  <1>2. Less(qdisc'[i], qdisc[i])
    BY EndedTakes, NoQdiscIs
  <1>3. qdisc[i].owner = p /\ qdisc[i].tables
    BY <1>2 DEF Less
  <1>4. phase[p] \in Late
    BY <1>1, <1>3 DEF Owns, Ended
  <1>5. i = module[p].link /\ ItemsThere(p) /\ ~UseIPv6(p)
    BY <1>1, <1>3, <1>4 DEF Owns
  <1>6. Destroys(p)
    BY <1>5, StartupAssumption DEF Destroys
  <1>7. qdisc' # Destroyed(p)
    <2>1. SUFFICES ASSUME qdisc' = Destroyed(p) PROVE FALSE
      OBVIOUS
    <2>2. qdisc'[i] = NoQdisc
      BY <1>1, <1>5, <2>1 DEF Destroyed
    <2> QED BY <2>2, NoQdiscIs
  <1>8. qdisc' = Left(p) /\ faults' = faults + 1
    BY <1>4, <1>6, <1>7 DEF Ended
  <1>9. qdisc'[i] = Undone(qdisc[i])
    BY <1>1, <1>5, <1>8 DEF Left
  <1> QED BY <1>8, <1>9, UndoneIs

LEMMA OwnedStep == ASSUME Typed, Owned, NEW p \in Daemons, Kinds(p) PROVE Owned'
  <1>1. Owns(p) /\ DOMAIN qdisc = Interfaces /\ \A q \in Daemons : Owns(q)
    BY DEF Owned
  <1>2. CASE UNCHANGED << phase, fate, conf, module, qdisc >>
    <2>1. \A q \in Daemons : Owns(q)'
      BY <1>1, <1>2, OwnsStays, LessUnchanged
    <2> QED BY <1>1, <1>2, <2>1 DEF Owned
  <1>3. CASE Frame(p) /\ Early(p)
    <2>1. \A q \in Daemons \ {p} : Owns(q)'
      BY <1>3, OthersOwn, LessUnchanged DEF Early
    <2>2. \A i \in Interfaces : qdisc[i].owner # p
      BY <1>1, <1>3 DEF Owns, Early
    <2>3. Owns(p)'
      BY <1>1, <1>3, <2>2 DEF Owns, Early
    <2> QED BY <1>1, <1>3, <2>1, <2>3 DEF Owned, Early
  <1>4. CASE Frame(p) /\ Ended(p)
    <2>1. \A q \in Daemons \ {p} : Owns(q)'
      <3>1. NoQdisc.owner \in {p, Nobody}
        BY DEF NoQdisc
      <3>2. \A i \in Interfaces : Less(qdisc'[i], qdisc[i]) \/ qdisc'[i].owner \in {p, Nobody}
        BY <1>4, <3>1, EndedTakes
      <3> QED BY <1>4, <3>2, OthersOwn
    <2>2. DOMAIN qdisc' = Interfaces
      BY <1>4, EndedTakes
    <2>3. ASSUME NEW i \in Interfaces, qdisc'[i].owner = p, fate'[p] = "exit", qdisc'[i].tables
          PROVE  ~qdisc'[i].default
      BY <1>4, <2>3, EndedLeaves
    <2>4. Owns(p)'
      BY <1>4, <2>3, NoQdiscIs DEF Owns, Ended, Late
    <2> QED BY <2>1, <2>2, <2>4 DEF Owned
  <1>5. CASE Frame(p) /\ phase[p] = "processor" /\ Loading(p) /\ UNCHANGED << fate, conf >>
    <2>1. phase'[p] = "control" /\ phase'[p] \in Late
      BY <1>5, LoadingGoes DEF Goes, Typed, Shapes, Late
    <2>2. \A i \in Interfaces : qdisc[i].owner # p
      BY <1>1, <1>5 DEF Owns, Late
    <2>3. fate'[p] = "none"
      BY <1>1, <1>5 DEF Owns, Typed, Shapes
    <2>4. (ItemsThere(p)' <=> ItemsThere(p)) /\ (UseIPv6(p)' <=> UseIPv6(p))
      BY <1>5, SettingsStay
    <2>5. CASE UNCHANGED qdisc /\ ~module'[p].served
      <3>1. \A q \in Daemons \ {p} : Owns(q)'
        BY <1>5, <2>5, OthersOwn, LessUnchanged
      <3>2. Owns(p)'
        BY <2>1, <2>2, <2>3, <2>5 DEF Owns
      <3> QED BY <1>1, <2>5, <3>1, <3>2 DEF Owned
    <2>6. ASSUME ItemsThere(p), Interface(p) \in Interfaces, module'[p].link = Interface(p), NEW x,
                 qdisc' = [qdisc EXCEPT ![Interface(p)] = x], x = NoQdisc \/ x.owner = p,
                 x.tables => ~UseIPv6(p)
          PROVE  Owned'
      <3>1. x.owner \in {p, Nobody}
        BY <2>6 DEF NoQdisc
      <3>2. \A q \in Daemons \ {p} : Owns(q)'
        <4>1. \A i \in Interfaces : Less(qdisc'[i], qdisc[i]) \/ qdisc'[i].owner \in {p, Nobody}
          BY <1>1, <2>6, <3>1, LessUnchanged
        <4> QED BY <1>5, <4>1, OthersOwn
      <3>3. ASSUME NEW i \in Interfaces, qdisc'[i].owner = p
            PROVE  i = module'[p].link /\ (qdisc'[i].tables => ~UseIPv6(p))
        BY <1>1, <2>2, <2>6, <3>3
      <3>4. Owns(p)'
        BY <2>1, <2>3, <2>4, <2>6, <3>3 DEF Owns
      <3>5. DOMAIN qdisc' = Interfaces
        BY <1>1, <2>6
      <3> QED BY <3>2, <3>4, <3>5 DEF Owned
    <2> QED BY <1>5, <2>5, <2>6, LoadedIs
  <1>6. CASE Frame(p) /\ Opens(p)
    <2>1. \A q \in Daemons \ {p} : Owns(q)'
      BY <1>6, OthersOwn, LessUnchanged DEF Opens
    <2>2. (ItemsThere(p)' <=> ItemsThere(p)) /\ (UseIPv6(p)' <=> UseIPv6(p))
      BY <1>6, SettingsStay DEF Opens
    <2>3. Owns(p)'
      BY <1>1, <1>6, <2>2 DEF Owns, Opens, Late
    <2> QED BY <1>1, <1>6, <2>1, <2>3 DEF Owned, Opens
  <1> QED BY <1>2, <1>3, <1>4, <1>5, <1>6 DEF Kinds

LEMMA FullStays == ASSUME NEW p \in Daemons, conf'[p] = conf[p] PROVE Full(p)' = Full(p)
  BY DEF Full, UseIPv6

\* Only the one that serves sets up or takes down anything, as it is alone.
LEMMA WholeStep ==
    ASSUME Typed, Owned, LockInv, Whole, NEW p \in Daemons, Kinds(p)
    PROVE  Whole'
  <1> SUFFICES ASSUME NEW s \in Daemons, s \in Serving', module'[s].served
               PROVE  qdisc'[module'[s].link] = Full(s)'
    BY DEF Whole, Serving
  <1>1. Owns(p) /\ DOMAIN qdisc = Interfaces
    BY DEF Owned
  <1>2. ASSUME UNCHANGED qdisc, phase'[s] = phase[s] \/ s \in Serving, module'[s] = module[s],
               conf'[s] = conf[s]
        PROVE  qdisc'[module'[s].link] = Full(s)'
    <2>1. s \in Serving
      BY <1>2 DEF Serving
    <2>2. qdisc[module[s].link] = Full(s)
      BY <1>2, <2>1 DEF Whole
    <2> QED BY <1>2, <2>2, FullStays
  <1>3. CASE s # p /\ Frame(p)
    <2>1. phase'[s] = phase[s] /\ module'[s] = module[s] /\ conf'[s] = conf[s] /\ s \in Serving
      BY <1>3 DEF Frame, Serving
    <2>2. p \notin Serving
      BY <1>3, <2>1 DEF LockInv
    <2>3. phase[p] \notin Late /\ phase[p] \notin {"processor", "control"}
      BY <2>2 DEF Serving, Late, Constructing
    <2>4. UNCHANGED qdisc
      BY <2>3 DEF Kinds, Early, Ended, Opens
    <2> QED BY <1>2, <2>1, <2>4
  <1>4. CASE UNCHANGED << phase, fate, conf, module, qdisc >>
    BY <1>2, <1>4
  <1>5. CASE s = p /\ Early(p)
    BY <1>1, <1>5, NoQdiscIs DEF Owns, Early
  <1>6. CASE s = p /\ Ended(p)
    BY <1>6, NoQdiscIs DEF Ended
  <1>7. CASE s = p /\ Opens(p)
    <2>1. s \in Serving
      BY <1>7 DEF Opens, Serving, Constructing
    <2> QED BY <1>2, <1>7, <2>1 DEF Opens
  <1>8. CASE s = p /\ Loading(p) /\ UNCHANGED << fate, conf >>
    <2>1. PICK x : /\ qdisc' = [qdisc EXCEPT ![Interface(p)] = x]
                   /\ Interface(p) \in Interfaces /\ module'[p].link = Interface(p) /\ x = Full(p)
      BY <1>8, LoadedIs
    <2>2. Full(p)' = Full(p)
      BY <1>8, FullStays
    <2> QED BY <1>1, <1>8, <2>1, <2>2
  <1> QED BY <1>3, <1>4, <1>5, <1>6, <1>7, <1>8 DEF Kinds

-----------------------------------------------------------------------------
(* The requests that were refused *)

Few == faults \in Nat /\ Cardinality(LeftTables) <= faults

\* A step counts one refusal at most.
LEMMA FaultsGrow == ASSUME Next PROVE faults' \in {faults, faults + 1}
  <1>1. PICK p \in Daemons :
          \/ Begin(p) \/ Stat(p) \/ Read(p) \/ Ps(p) \/ Unlink(p) \/ Create(p) \/ Write(p)
          \/ Configure(p) \/ StartProcessor(p) \/ StartControl(p) \/ Stop(p)
          \/ Crash(p) \/ Reuse(p) \/ ForeignEnds(p)
    BY DEF Next
  <1>2. CASE Begin(p) \/ Stat(p) \/ Read(p) \/ Ps(p) \/ Unlink(p) \/ Create(p) \/ Write(p)
             \/ Configure(p) \/ ForeignEnds(p)
    BY <1>2 DEF Begin, Stat, Read, Ps, Unlink, Create, Write, Configure, ForeignEnds, kernel
  <1>3. TearDown(p) => faults' \in {faults, faults + 1}
    BY Zenon DEF TearDown, Destroy, Throws, kernel
  <1>4. CASE StartProcessor(p)
    <2>1. InitHtb(p) => faults' \in {faults, faults + 1}
      BY Zenon DEF InitHtb
    <2> QED BY <1>4, <2>1, Zenon DEF StartProcessor, kernel
  <1>5. CASE StartControl(p) \/ Stop(p)
    BY <1>3, <1>5 DEF StartControl, Stop, kernel
  <1>6. CASE Crash(p) \/ Reuse(p)
    BY <1>6 DEF Crash, Reuse
  <1> QED BY <1>1, <1>2, <1>4, <1>5, <1>6

\* Only p can be one more, and only by a refused request.
LEMMA LeftStep ==
    ASSUME Typed, Owned, NEW p \in Daemons, Kinds(p)
    PROVE  LeftTables' \subseteq LeftTables \cup {p} /\ (faults' # faults + 1 => LeftTables' \subseteq LeftTables)
  <1> SUFFICES ASSUME NEW q \in Daemons, fate'[q] = "exit", NEW i \in Interfaces, qdisc'[i].owner = q,
                      qdisc'[i].tables
               PROVE  q \in LeftTables \/ (q = p /\ faults' = faults + 1)
    BY DEF LeftTables
  <1>1. ASSUME qdisc'[i] = qdisc[i], fate'[q] = fate[q] PROVE q \in LeftTables
    BY <1>1 DEF LeftTables
  <1>2. CASE UNCHANGED << phase, fate, conf, module, qdisc >> \/ (Frame(p) /\ (Early(p) \/ Opens(p)))
    BY <1>1, <1>2 DEF Early, Opens
  <1>3. CASE Frame(p) /\ Ended(p)
    <2>1. CASE q = p
      BY <1>3, <2>1, EndedLeaves
    <2>2. CASE q # p
      <3>1. fate'[q] = fate[q] /\ Less(qdisc'[i], qdisc[i])
        BY <1>3, <2>2, EndedTakes, NoQdiscIs DEF Frame
      <3>2. qdisc[i].owner = q /\ qdisc[i].tables
        BY <3>1 DEF Less
      <3> QED BY <3>1, <3>2 DEF LeftTables
    <2> QED BY <2>1, <2>2
  <1>4. CASE Frame(p) /\ phase[p] = "processor" /\ Loading(p) /\ UNCHANGED << fate, conf >>
    <2>1. fate[p] = "none" /\ fate'[q] = fate[q] /\ q # p
      BY <1>4 DEF Owned, Owns, Typed, Shapes
    <2>2. DOMAIN qdisc = Interfaces /\ (qdisc'[i] = qdisc[i] \/ qdisc'[i] = NoQdisc \/ qdisc'[i].owner = p)
      BY <1>4, LoadedIs DEF Owned
    <2>3. qdisc'[i] = qdisc[i]
      BY <2>1, <2>2, NoQdiscIs
    <2> QED BY <1>1, <2>1, <2>3
  <1> QED BY <1>2, <1>3, <1>4 DEF Kinds

LEMMA FewStep ==
    ASSUME Typed, Owned, Few, NEW p \in Daemons, Kinds(p), faults' \in {faults, faults + 1}
    PROVE  Few'
  <1> DEFINE S == LeftTables
             T == LeftTables'
  <1>1. IsFiniteSet(S) /\ Cardinality(S) \in Nat
    BY StartupAssumption, FS_Subset, FS_CardinalityType DEF LeftTables
  <1>2. faults \in Nat /\ faults' \in Nat /\ Cardinality(S) <= faults
    BY DEF Few
  <1>3. T \subseteq S \cup {p} /\ (faults' # faults + 1 => T \subseteq S)
    BY LeftStep
  <1> HIDE DEF S, T
  <1>4. CASE faults' = faults + 1
    <2>1. /\ IsFiniteSet(S \cup {p})
          /\ Cardinality(S \cup {p}) = IF p \in S THEN Cardinality(S) ELSE Cardinality(S) + 1
      BY <1>1, FS_AddElement
    <2>2. IsFiniteSet(T) /\ Cardinality(T) <= Cardinality(S \cup {p})
      BY <1>3, <2>1, FS_Subset
    <2>3. Cardinality(T) \in Nat
      BY <2>2, FS_CardinalityType
    <2>4. Cardinality(T) <= faults'
      BY <1>1, <1>2, <1>4, <2>1, <2>2, <2>3
    <2> QED BY <1>2, <2>4 DEF Few, T
  <1>5. CASE faults' # faults + 1
    <2>1. IsFiniteSet(T) /\ Cardinality(T) <= Cardinality(S)
      BY <1>1, <1>3, <1>5, FS_Subset
    <2>2. Cardinality(T) \in Nat
      BY <2>1, FS_CardinalityType
    <2>3. Cardinality(T) <= faults'
      BY <1>1, <1>2, <1>5, <2>1, <2>2
    <2> QED BY <1>2, <2>3 DEF Few, T
  <1> QED BY <1>4, <1>5

-----------------------------------------------------------------------------
(* The theorems *)

\* The inductive invariant: of the lock and of what is whole only as long as
\* no two daemons have looked for each other at the same moment.
IInv == Typed /\ PortsApart /\ Owned /\ Few /\ (~raced => LockInv /\ Whole)

LEMMA StepInv == ASSUME IInv, [Next]_vars PROVE IInv'
  <1>1. CASE Next
    <2>1. PICK p \in Daemons : Kinds(p)
      BY <1>1, StepIs DEF IInv
    <2>2. Harmless
      BY <1>1, StepHarmless DEF IInv
    <2> QED BY <1>1, <2>1, <2>2, PortsStep, OwnedStep, FewStep, FaultsGrow, WholeStep DEF IInv, Harmless
  <1>2. CASE UNCHANGED vars
    <2>1. UNCHANGED << phase, fate, conf, oldPid, file, module, fs, qdisc, faults, raced >>
      BY <1>2 DEF vars, own, kernel
    <2>2. CASE Daemons = {}
      BY <2>1, <2>2 DEF IInv, Typed, Shapes, FilesTyped, OpenFiles, LockInv, Serving, PortsApart, Owned, Whole, Few, LeftTables
    <2>3. CASE Daemons # {}
      <3>1. Harmless
        BY <1>2, Untouched DEF IInv, vars
      <3>2. PICK p \in Daemons : Kinds(p)
        BY <2>1, <2>3 DEF Kinds
      <3> QED BY <2>1, <3>1, <3>2, PortsStep, OwnedStep, FewStep, WholeStep DEF IInv, Harmless
    <2> QED BY <2>2, <2>3
  <1> QED BY <1>1, <1>2

\* What a daemon finds, holds and shares with the others.
THEOREM InvHolds == Spec => []IInv
  <1>1. Init => IInv
    BY InitTyped, InitOwned, InitFew DEF IInv, Few
  <1>2. IInv /\ [Next]_vars => IInv'
    BY StepInv
  <1> QED BY <1>1, <1>2, PTL DEF Spec

\* Whatever is started, killed or refused: unless two daemons looked for each
\* other at the same moment, one at most is past alreadyRunning, which the lock
\* names; and no two listen on one port.
THEOREM LockKept == Spec => []OneServes
  <1>1. IInv => OneServes
    <2> SUFFICES ASSUME IInv PROVE OneServes
      OBVIOUS
    <2>1. ASSUME ~raced PROVE Cardinality(Serving) <= 1
      <3>1. \A p, q \in Serving : p = q
        BY <2>1 DEF IInv, LockInv
      <3>2. CASE Serving = {}
        BY <3>2, FS_EmptySet
      <3>3. CASE Serving # {}
        <4>1. PICK p \in Serving : Serving = {p}
          BY <3>1, <3>3
        <4> QED BY <4>1, FS_Singleton
      <3> QED BY <3>2, <3>3
    <2>2. ASSUME ~raced, NEW p \in Serving PROVE fs.name[Lock] # NoFile /\ fs.data[fs.name[Lock]] = << p >>
      BY <2>2 DEF IInv, LockInv
    <2>3. PortsApart
      BY DEF IInv
    <2> QED BY <2>1, <2>2, <2>3 DEF OneServes, PortsApart
  <1> QED BY <1>1, InvHolds, PTL

\* What a daemon has set up in the kernel is there whole while it serves alone;
\* once it has ended in order, race or not, its tables are gone, except for one
\* tree a refused request, and such a tree has lost its default class.
THEOREM KernelKept == Spec => []QdiscHeld
  <1>1. IInv => QdiscHeld
    <2> SUFFICES ASSUME IInv PROVE QdiscHeld
      OBVIOUS
    <2>1. ~raced => \A p \in Serving : module[p].served =>
            qdisc[module[p].link] = [owner |-> p, default |-> TRUE, tables |-> ~UseIPv6(p)]
      BY DEF IInv, Whole, Full
    <2>2. \A i \in Interfaces, p \in Daemons :
            qdisc[i].owner = p /\ fate[p] = "exit" /\ qdisc[i].tables => ~qdisc[i].default
      BY DEF IInv, Owned, Owns
    <2> QED BY <2>1, <2>2 DEF QdiscHeld, IInv, Few
  <1> QED BY <1>1, InvHolds, PTL
================================================================================
