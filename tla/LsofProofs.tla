----------------------------- MODULE LsofProofs -----------------------------
(***************************************************************************)
(* Proofs about Lsof, for every set of processes and files, every option   *)
(* and any number of changes: the types, what is printed, and that the     *)
(* rows of a process that nobody disturbs are exactly those of its files,  *)
(* as long as the descriptors suffice.                                     *)
(***************************************************************************)
EXTENDS Lsof, FiniteSetTheorems, SequenceTheorems, WellFoundedInduction, TLAPS

----------------------------------------------------------------------------
(* What holds of the walk.                                                 *)

InProcess == {"cmdline", "read", "readlink", "stat", "maps", "fgets",
              "opendir", "readdir", "fdlink"}
Filters == {"filterC", "filterT", "filterF"}
Walking == InProcess \cup {"walk"}

\* The row in hand: a link that was read, or a descriptor that was looked at.
LinkInHand == \E name \in Name : row = Row(name, None, None, FdColumn[special])
FdInHand == \E f \in Files :
  Perms[f] # {} /\ fd \in Fds /\ row = Row(None, Kind(f), f, <<fd, FdMode(f)>>)

TypeInv ==
  /\ proc \in [Pids -> Images \cup {None}] /\ touched \subseteq Pids /\ changes \in 0 .. MaxChanges
  /\ stale \in BOOLEAN /\ pc \in {"getopt", "start"} \cup Walking \cup Filters \cup Ended
  /\ pids \subseteq Pids /\ pid \in Pids \cup {0} /\ fds \subseteq Fds /\ fd \in Fds \cup {-1}
  /\ info \in [user : Users \cup {"unknown", "number"}, command : Commands \cup {"."}]
  /\ special \in {"cwd", "root", "exe"} /\ DOMAIN lines \subseteq Areas /\ area \in Areas \cup {-1}
  /\ \A a \in DOMAIN lines : a > area /\ lines[a] \in Files \cup {None}
  /\ lastinode \in Files \cup {None} /\ ansarr \in Seq(FileInfo) /\ Len(ansarr) <= ArrLen
  /\ show \subseteq DOMAIN ansarr
  /\ opts \in [c : COpts \cup {None}, t : TOpts \cup {None}, f : FOpts \cup {None}]
  /\ pc \in InProcess => pid \in Pids
  /\ pc \in {"getopt", "start"} => pid = 0 /\ pids = {} /\ ansarr = <<>> /\ open = Base
  /\ pc = "stat" => LinkInHand
  /\ pc = "fdlink" => FdInHand
  /\ \A p \in pids : p > pid
  /\ \A n \in fds : n > fd

\* The handle of a process is dead, or the process lives.
Handles == pc \in {"read", "fgets", "readdir", "fdlink"} /\ ~stale => pid \in Alive

\* The descriptors: the directories that are closed again, and what is kept.
Visited == Cardinality({p \in Pids : p <= pid})
OpenInv ==
  /\ open \in Base .. Limit \cup {Base}
  /\ pc \in Walking => open > Base
  /\ pc \in {"readdir", "fdlink"} => open > Base + 1
Kept ==
  /\ pc = "walk" => open <= Base + 1 + 2 * Visited
  /\ pc = "cmdline" => open <= Base - 1 + 2 * Visited
  /\ pc \in {"read", "readlink", "stat", "maps"} => open <= Base + 2 * Visited
  /\ pc \in {"fgets", "opendir"} => open <= Base + 1 + 2 * Visited
  /\ pc \in {"readdir", "fdlink"} => open <= Base + 2 + 2 * Visited

\* What has passed the options looked at so far.
PassesC(r) == opts.c = None \/ r.command \in opts.c
PassesT(r) == opts.t = None \/ r.type = opts.t
PassesF(r) == opts.f = None \/ r.name \in opts.f
ShowInv ==
  /\ pc = "filterT" => show = {i \in DOMAIN ansarr : PassesC(ansarr[i])}
  /\ pc = "filterF" => show = {i \in DOMAIN ansarr : PassesC(ansarr[i]) /\ PassesT(ansarr[i])}
  /\ pc = "done" => show = {i \in DOMAIN ansarr : /\ PassesC(ansarr[i]) /\ PassesT(ansarr[i])
                                                  /\ PassesF(ansarr[i])}

\* A row that will be printed with a NODE has one.
NodeInv == \A i \in DOMAIN ansarr : HasNode(ansarr[i]) => ansarr[i].node # None

----------------------------------------------------------------------------
(* The rows of a process that nobody disturbs.                             *)

Shape(r) == <<r.fd, r.type, r.name, printrown(r).node>>
Full(p) == {r \in RowsOf(p) : r.fd # <<"NOFD">>}
Shapes(p) == {Shape(r) : r \in Full(p)}
Denials(p) == {r.name : r \in RowsOf(p) \ Full(p)}

\* A row as the program fills it in.
CodeRow(column, f) ==
  IF Kind(f) = "unknown" THEN <<column, "unknown", Link(f), "">> ELSE <<column, Kind(f), Link(f), f>>
LinkRow(i, l) == IF i.sealed \/ i[l] = None THEN DeniedRow(FdColumn[l], l) ELSE CodeRow(FdColumn[l], i[l])
LinkRows(i, S) == {LinkRow(i, l) : l \in S}
Links(i) == LinkRows(i, {"cwd", "root", "exe"})
MapRow(f) == <<MapColumn(f), "REG", strremove(f), f>>
MapRows(i, S) == {MapRow(i.maps[a]) : a \in {b \in S : i.maps[b] # None}}
FdRow(i, n) == CodeRow(<<n, FdMode(i.fds[n])>>, i.fds[n])
Shown(i, n) == i.fds[n] # None /\ Perms[i.fds[n]] # {}
FdRows(i, S) == {FdRow(i, n) : n \in {m \in S : Shown(i, m)}}
CodeRows(i) == Links(i) \cup IF i.sealed THEN {} ELSE MapRows(i, Areas) \cup FdRows(i, Fds)

Owned(p) == \A r \in RowsOf(p) :
  r.user = proc[p].user /\ r.command = IF proc[p].command = None THEN "." ELSE proc[p].command
Complete(p) == /\ Shapes(p) = CodeRows(proc[p]) /\ Denials(p) = NoFdRows(proc[p]) /\ Owned(p)

Earlier == CASE special = "cwd" -> {} [] special = "root" -> {"cwd"} [] OTHER -> {"cwd", "root"}
Progress(p, i) ==
  /\ info.user = i.user
  /\ pc \notin {"cmdline", "read"} => info.command = IF i.command = None THEN "." ELSE i.command
  /\ pc # "cmdline" => ~stale
  /\ pc \in {"fgets", "readdir", "fdlink"} => ~i.sealed
  /\ pc \in {"cmdline", "read"} => RowsOf(p) = {}
  /\ pc \in {"readlink", "stat"} => Shapes(p) = LinkRows(i, Earlier)
  /\ pc = "stat" => row.name = IF i.sealed \/ i[special] = None THEN Denied(special) ELSE Link(i[special])
  /\ pc = "maps" => Shapes(p) = Links(i)
  /\ pc = "fgets" =>
       /\ Shapes(p) = Links(i) \cup MapRows(i, {a \in Areas : a <= area})
       /\ lastinode = None \/ MapRow(lastinode) \in Shapes(p)
       /\ \A a \in DOMAIN lines : lines[a] = i.maps[a]
       /\ \A a \in Areas : a > area => a \in DOMAIN lines \/ \A b \in DOMAIN lines : b < a
  /\ pc = "opendir" => Shapes(p) = Links(i) \cup IF i.sealed THEN {} ELSE MapRows(i, Areas)
  /\ pc = "readdir" =>
       /\ Shapes(p) = Links(i) \cup MapRows(i, Areas) \cup FdRows(i, {n \in Fds : n <= fd})
       /\ \A n \in fds : i.fds[n] # None
       /\ \A n \in Fds : i.fds[n] # None /\ n > fd => n \in fds \/ \A m \in fds : m < n
  /\ pc = "fdlink" =>
       /\ Shapes(p) = Links(i) \cup MapRows(i, Areas) \cup FdRows(i, {n \in Fds : n < fd})
       /\ Shown(i, fd) /\ row = Row(None, Kind(i.fds[fd]), i.fds[fd], <<fd, FdMode(i.fds[fd])>>)
       /\ \A n \in fds : i.fds[n] # None
       /\ \A n \in Fds : i.fds[n] # None /\ n > fd => n \in fds \/ \A m \in fds : m < n
  /\ Denials(p) = IF pc = "opendir" /\ i.sealed THEN {Denied("maps")} ELSE {}
  /\ Owned(p)

\* Before the walk comes to a process, while it looks at it, and after that.
RowsRight(p) ==
  IF proc[p] = None THEN RowsOf(p) = {} /\ p # pid /\ p \notin pids
  ELSE /\ pc \in Walking \cup {"getopt", "start"} /\ p > pid =>
            RowsOf(p) = {} /\ (p \in pids \/ \A q \in pids : q < p)
       /\ p < pid \/ (p = pid /\ pc = "walk") \/ pc \in Filters \cup {"done"} => Complete(p)
       /\ p = pid /\ pc \in InProcess => Progress(p, proc[p])
FaithInv == pc # "overflow" => \A p \in Pids \ touched : RowsRight(p)

----------------------------------------------------------------------------
(* The helpers of the walk.                                                *)

LEMMA LeastIs ==
  ASSUME NEW S \in SUBSET Nat, S # {}
  PROVE  Least(S) \in S /\ \A x \in S : Least(S) <= x
<1>1. PICK d \in S : \A e \in S : ~ (<<e, d>> \in OpToRel(<, Nat))
  BY WFMin, NatLessThanWellFounded
<1>2. \A e \in S : d <= e
  <2> SUFFICES ASSUME NEW e \in S, e < d PROVE FALSE
    OBVIOUS
  <2>1. <<e, d>> \in Nat \X Nat /\ <<e, d>>[1] < <<e, d>>[2]
    OBVIOUS
  <2>2. <<e, d>> \in {ss \in Nat \X Nat : ss[1] < ss[2]}
    BY <2>1, Zenon
  <2> QED
    BY <1>1, <2>2, Zenon DEF OpToRel
<1> QED
  BY <1>2 DEF Least

\* A buffer takes the entries in order, as many as fit.
LEMMA BufferedIs ==
  ASSUME NEW S \in SUBSET Nat, IsFiniteSet(S)
  PROVE  /\ Buffered(S) \subseteq S
         /\ \A p \in S : p \in Buffered(S) \/ \A q \in Buffered(S) : q < p
<1>1. Buffered(S) \subseteq S
  BY DEF Buffered
<1>2. ASSUME NEW p \in S, p \notin Buffered(S), NEW q \in Buffered(S), ~(q < p)
      PROVE  FALSE
  <2> DEFINE P == {y \in S : y < p}
             Q == {y \in S : y < q}
  <2>1. IsFiniteSet(P) /\ IsFiniteSet(Q)
    BY FS_Subset
  <2>2. P \subseteq Q
    <3>1. p \in Nat /\ q \in Nat
      BY <1>1
    <3>2. p <= q
      BY <1>2, <3>1
    <3>3. \A y \in S : y < p => y < q
      BY <3>1, <3>2
    <3> QED
      BY <3>3
  <2>3. Cardinality(P) <= Cardinality(Q) /\ Cardinality(P) \in Nat /\ Cardinality(Q) \in Nat
    BY <2>1, <2>2, FS_Subset, FS_CardinalityType
  <2>4. Cardinality(Q) < Batch /\ ~(Cardinality(P) < Batch)
    <3>1. Cardinality({y \in S : y < q}) < Batch /\ ~(Cardinality({y \in S : y < p}) < Batch)
      BY <1>2, Zenon DEF Buffered
    <3> QED
      BY <3>1
  <2> QED
    BY <2>3, <2>4, NumberAssumption
<1> QED
  BY <1>1, <1>2

LEMMA FiniteParts ==
  /\ \A S \in SUBSET Pids : IsFiniteSet(S) /\ S \subseteq Nat \ {0}
  /\ \A S \in SUBSET Fds : IsFiniteSet(S) /\ S \subseteq Nat
  /\ \A S \in SUBSET Areas : IsFiniteSet(S) /\ S \subseteq Nat
BY FS_Subset, NumberAssumption

\* What the links of a process point to.
LEMMA ImageType ==
  ASSUME NEW i \in Images
  PROVE  /\ i \in Image /\ i # None /\ i.cwd \in Files /\ i.root \in Files
         /\ i["cwd"] = i.cwd /\ i["root"] = i.root /\ i["exe"] = i.exe
         /\ i.user \in Users /\ i.command \in Commands \cup {None}
         /\ i.exe \in Files \cup {None} /\ i.sealed \in BOOLEAN
         /\ \A a \in Areas : i.maps[a] \in Files \cup {None}
         /\ \A n \in Fds : i.fds[n] \in Files \cup {None}
BY FileAssumption DEF Image

LEMMA TargetType ==
  ASSUME TypeInv
  PROVE  /\ Target \in Files \cup {None}
         /\ \A n \in Fds : FdTarget(n) \in Files \cup {None}
<1>1. Readable => proc[pid] \in Images
  BY DEF Readable, Alive, TypeInv
<1>2. special \in {"cwd", "root", "exe"}
  BY DEF TypeInv
<1> QED
  BY <1>1, <1>2, ImageType DEF Target, FdTarget

LEMMA KindType ==
  ASSUME NEW f \in Files
  PROVE  Kind(f) \in Types /\ FdMode(f) \in Modes /\ f # None /\ Link(f) \in Name
<1>1. f # None /\ Kind(f) \in Types /\ FdMode(f) \in Modes
  BY FileAssumption DEF Kind, FdMode, Types, Modes
<1>2. Link(f) \in Name
  BY DEF Link, Name
<1> QED
  BY <1>1, <1>2

\* A row of the process visited is of the type of the rows.
LEMMA RowType ==
  ASSUME TypeInv, pid \in Pids, NEW name \in Name, NEW type \in Types \cup Leftovers,
         NEW node \in Files \cup {None},
         NEW dsc \in {<<c>> : c \in {"cwd", "rtd", "txt", "mem", "DEL", "NOFD"}}
                     \cup (Fds \X Modes)
  PROVE  Row(name, type, node, dsc) \in FileInfo
BY DEF Row, FileInfo, TypeInv

LEMMA AppendRow ==
  ASSUME ansarr \in Seq(FileInfo), Len(ansarr) <= ArrLen,
         NEW r \in FileInfo, NEW next, List(r, next)
  PROVE  /\ ansarr' \in Seq(FileInfo) /\ Len(ansarr') <= ArrLen
         /\ DOMAIN ansarr \subseteq DOMAIN ansarr'
         /\ \/ pc' = next /\ ansarr' = Append(ansarr, r) /\ Len(ansarr') = Len(ansarr) + 1
            \/ pc' = "overflow" /\ ansarr' = ansarr /\ Len(ansarr) = ArrLen
<1>1. ArrLen \in Nat /\ Len(ansarr) \in Nat
  BY NumberAssumption
<1>2. CASE Len(ansarr) < ArrLen
  BY <1>1, <1>2 DEF List, Append1
<1>3. CASE ~(Len(ansarr) < ArrLen)
  BY <1>1, <1>3 DEF List
<1> QED
  BY <1>2, <1>3

----------------------------------------------------------------------------
(* What the other processes do to one of them.                             *)

LEMMA OthersStep ==
  ASSUME Others, TypeInv
  PROVE  \E p \in Pids, i \in Images \cup {None} :
           /\ proc' = [proc EXCEPT ![p] = i] /\ touched' = touched \cup {p}
           /\ changes' = changes + 1 /\ changes < MaxChanges /\ pc \notin Ended
           /\ UNCHANGED <<pc, walkVars, open, ansarr, endVars>>
           /\ stale' \in BOOLEAN /\ (stale => stale') /\ (p # pid => stale' = stale)
           /\ i = None /\ p = pid => stale'
<1>1. PICK p \in Pids : Start(p) \/ Mutate(p) \/ Exit(p) \/ Reuse(p)
  BY DEF Others
<1>2. stale \in BOOLEAN /\ \A i \in Images : i # None
  BY ImageType DEF TypeInv
<1>3. CASE Start(p)
  BY <1>2, <1>3 DEF Start, Changed
<1>4. CASE Mutate(p)
  BY <1>2, <1>4 DEF Mutate, Changed
<1>5. CASE Exit(p)
  <2>1. proc' = [proc EXCEPT ![p] = None] /\ stale' = (stale \/ p = pid)
    BY <1>5 DEF Exit, Changed
  <2>2. stale' \in BOOLEAN /\ (stale => stale') /\ (p # pid => stale' = stale) /\ (p = pid => stale')
    BY <1>2, <2>1, Zenon
  <2> QED
    BY <1>5, <2>1, <2>2 DEF Exit, Changed
<1>6. CASE Reuse(p)
  <2>1. PICK i \in Images : Changed(p, i) /\ stale' = (stale \/ p = pid)
    BY <1>6 DEF Reuse
  <2>2. stale' \in BOOLEAN /\ (stale => stale') /\ (p # pid => stale' = stale)
    BY <1>2, <2>1, Zenon
  <2> QED
    BY <1>2, <2>1, <2>2 DEF Changed
<1> QED
  BY <1>1, <1>3, <1>4, <1>5, <1>6

----------------------------------------------------------------------------
(* The types.                                                              *)

LEMMA TypeWalk ==
  ASSUME TypeInv, Handles, OpenProc \/ ReadProc \/ FindUser \/ OpenCmdline \/ ReadCmdline
  PROVE  TypeInv'
<1> USE DEF Walking, InProcess, Filters, Ended, vars, envVars, walkVars, endVars
<1>1. CASE OpenProc
  BY <1>1 DEF OpenProc, TypeInv
<1>2. CASE ReadProc
  <2> DEFINE more == {p \in Alive : p > pid}
  <2>1. more \in SUBSET Nat /\ IsFiniteSet(more) /\ more \subseteq Pids
    BY FiniteParts DEF Alive
  <2>2. Buffered(more) \subseteq more
    BY <2>1, BufferedIs
  <2> HIDE DEF more
  <2>3. pids' \subseteq Pids /\ \A p \in pids' : p > pid
    <3>1. pids' = Buffered(more) \/ pids' = {}
      BY <1>2 DEF ReadProc, more
    <3> QED
      BY <2>1, <2>2, <3>1 DEF more
  <2>4. pc' \in {"walk", "filterC"}
    BY <1>2 DEF ReadProc
  <2> QED
    BY <1>2, <2>3, <2>4 DEF ReadProc, TypeInv
<1>3. CASE FindUser
  <2>1. pids # {} /\ pids \in SUBSET Nat /\ pid' = Least(pids) /\ pids' = pids \ {pid'}
    BY <1>3, FiniteParts DEF FindUser, TypeInv
  <2>2. pid' \in pids /\ \A x \in pids : pid' <= x
    BY <2>1, LeastIs
  <2>3. pids' \subseteq Pids /\ pid' \in Pids /\ \A x \in pids' : x > pid'
    <3>1. \A x \in pids' : x \in Nat /\ pid' <= x /\ x # pid' /\ pid' \in Nat
      BY <2>1, <2>2
    <3>2. pids' \subseteq Pids /\ pid' \in Pids
      BY <2>1, <2>2 DEF TypeInv
    <3>3. \A x \in pids' : x > pid'
      BY <3>1
    <3> QED
      BY <3>2, <3>3
  <2>4. info' \in [user : Users \cup {"unknown", "number"}, command : Commands \cup {"."}]
    <3>1. pid' \in Alive => proc[pid'].user \in Users
      BY <2>3, ImageType DEF Alive, TypeInv
    <3> QED
      BY <1>3, <3>1 DEF FindUser, TypeInv
  <2>5. pc' = "cmdline"
    BY <1>3 DEF FindUser
  <2> QED
    BY <1>3, <2>3, <2>4, <2>5 DEF FindUser, TypeInv
<1>4. CASE OpenCmdline
  <2>1. pc' \in {"read", "walk"} /\ stale' \in BOOLEAN
    BY <1>4 DEF OpenCmdline, TypeInv
  <2>2. UNCHANGED <<envVars, walkVars, ansarr, endVars>> /\ pc = "cmdline"
    BY <1>4 DEF OpenCmdline
  <2> QED
    BY <2>1, <2>2 DEF TypeInv
<1>5. CASE ReadCmdline
  <2>1. CASE stale
    BY <1>5, <2>1 DEF ReadCmdline, OnError, TypeInv
  <2>2. CASE ~stale
    <3>1. info' \in [user : Users \cup {"unknown", "number"}, command : Commands \cup {"."}]
      <4>1. proc[pid] \in Images
        BY <1>5, <2>2 DEF ReadCmdline, Handles, Alive, TypeInv
      <4> DEFINE c == IF proc[pid].command = None THEN "." ELSE proc[pid].command
      <4>2. c \in Commands \cup {"."}
        BY <4>1, ImageType
      <4>3. info' = [info EXCEPT !.command = c]
        BY <1>5, <2>2 DEF ReadCmdline
      <4> QED
        BY <4>2, <4>3 DEF TypeInv
    <3> QED
      BY <1>5, <2>2, <3>1 DEF ReadCmdline, TypeInv
  <2> QED
    BY <2>1, <2>2 DEF TypeInv
<1> QED
  BY <1>1, <1>2, <1>3, <1>4, <1>5

LEMMA TypeLinks ==
  ASSUME TypeInv, ReadSpecial \/ StatSpecial
  PROVE  TypeInv'
<1> USE DEF Walking, InProcess, Filters, Ended, vars, envVars, walkVars, endVars
<1>0. pid \in Pids
  BY DEF ReadSpecial, StatSpecial, TypeInv
<1>1. CASE ReadSpecial
  <2> DEFINE name == IF Target # None THEN Link(Target) ELSE <<special, "denied">>
  <2>1. name \in Name
    BY TargetType, KindType DEF Name, Refusals, TypeInv
  <2>2. row' = [pid |-> pid', user |-> info'.user, command |-> info'.command,
                fd |-> FdColumn[special'], type |-> None, node |-> None, name |-> name]
    BY <1>1 DEF ReadSpecial, Row
  <2> HIDE DEF name
  <2>3. \E n \in Name : row' = [pid |-> pid', user |-> info'.user, command |-> info'.command,
                               fd |-> FdColumn[special'], type |-> None, node |-> None, name |-> n]
    BY <2>1, <2>2
  <2>4. LinkInHand'
    BY <2>3 DEF LinkInHand, Row
  <2> QED
    BY <1>1, <2>4 DEF ReadSpecial, TypeInv
<1>2. CASE StatSpecial
  <2>1. PICK name \in Name : row = Row(name, None, None, FdColumn[special])
    BY <1>2 DEF StatSpecial, LinkInHand, TypeInv
  <2> DEFINE type == IF Target = None THEN "unknown" ELSE Kind(Target)
             node == IF type = "unknown" THEN None ELSE Target
  <2>2. type \in Types
    BY TargetType, KindType DEF Types
  <2>3. node \in Files \cup {None}
    BY TargetType
  <2>4. row' = Row(name, type, node, FdColumn[special])
    <3>1. row' = [row EXCEPT !.type = type, !.node = IF type = "unknown" THEN row.node ELSE Target]
      BY <1>2 DEF StatSpecial
    <3>2. row.node = None
      BY <2>1 DEF Row
    <3> QED
      BY <2>1, <3>1, <3>2 DEF Row
  <2>5. FdColumn[special] \in {<<c>> : c \in {"cwd", "rtd", "txt"}}
    BY DEF FdColumn, TypeInv
  <2>6. row' \in FileInfo
    BY <1>0, <2>2, <2>3, <2>4, <2>5, RowType
  <2>7. /\ ansarr' \in Seq(FileInfo) /\ Len(ansarr') <= ArrLen
        /\ DOMAIN ansarr \subseteq DOMAIN ansarr'
        /\ pc' \in {"maps", "readlink", "overflow"}
    <3>1. List(row', IF special = "exe" THEN "maps" ELSE "readlink")
      BY <1>2 DEF StatSpecial
    <3> QED
      BY <2>6, <3>1, AppendRow DEF TypeInv
  <2>8. special' \in {"cwd", "root", "exe"}
    BY <1>2 DEF StatSpecial
  <2> QED
    BY <1>2, <2>7, <2>8 DEF StatSpecial, TypeInv
<1> QED
  BY <1>1, <1>2

\* A row without a descriptor.
LEMMA NoFdStep ==
  ASSUME TypeInv, pid \in Pids, NEW what \in {"maps", "fd"}, NEW next, NoFd(what, next)
  PROVE  \E t \in Leftovers :
           /\ Row(<<what, "denied">>, t, None, <<"NOFD">>) \in FileInfo
           /\ List(Row(<<what, "denied">>, t, None, <<"NOFD">>), next)
<1>1. PICK t \in Leftovers : List(Row(<<what, "denied">>, t, None, <<"NOFD">>), next)
  BY DEF NoFd
<1>2. <<what, "denied">> \in Name /\ <<"NOFD">> \in {<<c>> : c \in {"cwd", "rtd", "txt", "mem", "DEL", "NOFD"}}
  BY DEF Name, Refusals
<1> QED
  BY <1>1, <1>2, RowType

LEMMA TypeMaps ==
  ASSUME TypeInv, Handles, OpenMaps \/ ReadMaps \/ ListMapping
  PROVE  TypeInv'
<1> USE DEF Walking, InProcess, Filters, Ended, vars, envVars, walkVars, endVars
<1>0. pid \in Pids
  BY DEF OpenMaps, ReadMaps, ListMapping, TypeInv
<1>1. CASE OpenMaps
  <2>1. CASE Readable /\ CanOpen
    <3>1. DOMAIN lines' = {} /\ area' = -1 /\ lastinode' = None /\ stale' = FALSE /\ pc' = "fgets"
      BY <1>1, <2>1 DEF OpenMaps
    <3>2. UNCHANGED <<envVars, pids, pid, info, special, fds, fd, row, ansarr, endVars>>
      BY <1>1, <2>1 DEF OpenMaps
    <3>3. \A a \in DOMAIN lines' : a > area' /\ lines'[a] \in Files \cup {None}
      BY <3>1
    <3>4. area' \in Areas \cup {-1} /\ lastinode' \in Files \cup {None} /\ stale' \in BOOLEAN
      BY <3>1
    <3> QED
      BY <1>0, <3>1, <3>2, <3>3, <3>4 DEF TypeInv
  <2>2. CASE ~(Readable /\ CanOpen)
    <3>1. NoFd("maps", "opendir") /\ UNCHANGED <<open, stale, lines, area, lastinode>>
      BY <1>1, <2>2 DEF OpenMaps
    <3>2. /\ ansarr' \in Seq(FileInfo) /\ Len(ansarr') <= ArrLen
          /\ DOMAIN ansarr \subseteq DOMAIN ansarr' /\ pc' \in {"opendir", "overflow"}
      BY <1>0, <3>1, NoFdStep, AppendRow DEF TypeInv
    <3> QED
      BY <1>1, <3>1, <3>2 DEF OpenMaps, TypeInv
  <2> QED
    BY <2>1, <2>2
<1>2. CASE ReadMaps
  <2> DEFINE more == {a \in Areas : a > area}
  <2>1. more \in SUBSET Nat /\ IsFiniteSet(more) /\ more \subseteq Areas
    BY FiniteParts
  <2>2. Buffered(more) \subseteq more
    BY <2>1, BufferedIs
  <2>3. \/ lines' = lines
        \/ ~stale /\ lines' = [a \in Buffered(more) |-> proc[pid].maps[a]]
    BY <1>2 DEF ReadMaps
  <2>4. DOMAIN lines' \subseteq Areas /\ \A a \in DOMAIN lines' : a > area /\ lines'[a] \in Files \cup {None}
    <3>1. CASE lines' = lines
      BY <3>1 DEF TypeInv
    <3>2. CASE ~stale /\ lines' = [a \in Buffered(more) |-> proc[pid].maps[a]]
      <4>1. proc[pid] \in Images
        BY <1>2, <3>2 DEF ReadMaps, Handles, Alive, TypeInv
      <4>2. DOMAIN lines' = Buffered(more) /\ \A a \in DOMAIN lines' : lines'[a] = proc[pid].maps[a]
        BY <3>2
      <4>3. \A a \in more : a > area
        OBVIOUS
      <4> HIDE DEF more
      <4> QED
        BY <2>1, <2>2, <4>1, <4>2, <4>3, ImageType
    <3> QED
      BY <2>3, <3>1, <3>2
  <2>5. pc' \in {"fgets", "opendir"}
    BY <1>2 DEF ReadMaps
  <2> QED
    BY <1>2, <2>4, <2>5 DEF ReadMaps, TypeInv
<1>3. CASE ListMapping
  <2> DEFINE f == lines[area']
  <2>1. /\ DOMAIN lines # {} /\ DOMAIN lines \in SUBSET Nat /\ area' = Least(DOMAIN lines)
        /\ lines' = [a \in DOMAIN lines \ {area'} |-> lines[a]]
    BY <1>3, FiniteParts DEF ListMapping, TypeInv
  <2>2. area' \in DOMAIN lines /\ \A a \in DOMAIN lines : area' <= a
    BY <2>1, LeastIs
  <2>3. f \in Files \cup {None} /\ area' \in Areas
    BY <2>2 DEF TypeInv
  <2>4. DOMAIN lines' \subseteq Areas /\ \A a \in DOMAIN lines' : a > area' /\ lines'[a] \in Files \cup {None}
    <3>1. DOMAIN lines' = DOMAIN lines \ {area'} /\ \A a \in DOMAIN lines' : lines'[a] = lines[a]
      BY <2>1
    <3>2. \A a \in DOMAIN lines' : a \in Nat /\ area' <= a /\ a # area' /\ area' \in Nat
      BY <2>1, <2>2, <3>1
    <3>3. \A a \in DOMAIN lines' : a > area'
      BY <3>2
    <3>4. \A a \in DOMAIN lines' : lines[a] \in Files \cup {None}
      BY <3>1 DEF TypeInv
    <3> QED
      BY <3>1, <3>3, <3>4 DEF TypeInv
  <2>5. CASE Listable(f)
    <3>1. /\ strremove(f) \in Name /\ f \in Files
          /\ MapColumn(f) \in {<<c>> : c \in {"mem", "DEL"}}
      BY <2>3, <2>5 DEF strremove, Name, Listable, MapColumn
    <3> DEFINE r == Row(strremove(f), "REG", f, MapColumn(f))
    <3>2. r \in FileInfo
      BY <1>0, <3>1, RowType DEF Types
    <3>3. List(r, "fgets") /\ lastinode' = f
      BY <1>3, <2>5 DEF ListMapping
    <3> HIDE DEF r, f
    <3>4. /\ ansarr' \in Seq(FileInfo) /\ Len(ansarr') <= ArrLen
          /\ DOMAIN ansarr \subseteq DOMAIN ansarr' /\ pc' \in {"fgets", "overflow"}
      BY <3>2, <3>3, AppendRow DEF TypeInv
    <3> QED
      BY <1>3, <2>3, <2>4, <3>3, <3>4 DEF ListMapping, TypeInv
  <2>6. CASE ~Listable(f)
    <3>1. UNCHANGED <<pc, lastinode, ansarr>>
      BY <1>3, <2>6 DEF ListMapping
    <3> QED
      BY <1>3, <2>3, <2>4, <3>1 DEF ListMapping, TypeInv
  <2> QED
    BY <2>5, <2>6
<1> QED
  BY <1>1, <1>2, <1>3

LEMMA TypeFds ==
  ASSUME TypeInv, Handles, OpenFds \/ ReadFds \/ StatFd \/ ReadFdLink
  PROVE  TypeInv'
<1> USE DEF Walking, InProcess, Filters, Ended, vars, envVars, walkVars, endVars
<1>0. pid \in Pids
  BY DEF OpenFds, ReadFds, StatFd, ReadFdLink, TypeInv
<1>1. CASE OpenFds
  <2>1. CASE Readable /\ CanOpen
    BY <1>1, <2>1 DEF OpenFds, TypeInv
  <2>2. CASE ~(Readable /\ CanOpen)
    <3>1. NoFd("fd", "walk") /\ UNCHANGED <<open, stale, fds, fd>>
      BY <1>1, <2>2 DEF OpenFds
    <3>2. /\ ansarr' \in Seq(FileInfo) /\ Len(ansarr') <= ArrLen
          /\ DOMAIN ansarr \subseteq DOMAIN ansarr' /\ pc' \in {"walk", "overflow"}
      BY <1>0, <3>1, NoFdStep, AppendRow DEF TypeInv
    <3> QED
      BY <1>1, <3>1, <3>2 DEF OpenFds, TypeInv
  <2> QED
    BY <2>1, <2>2
<1>2. CASE ReadFds
  <2> DEFINE more == IF stale THEN {} ELSE {n \in Fds : n > fd /\ proc[pid].fds[n] # None}
  <2>1. more \in SUBSET Nat /\ IsFiniteSet(more) /\ more \subseteq Fds /\ \A n \in more : n > fd
    BY FiniteParts
  <2>2. Buffered(more) \subseteq more
    BY <2>1, BufferedIs
  <2>3. fds' = Buffered(more) \/ fds' = {}
    BY <1>2 DEF ReadFds
  <2>4. pc' \in {"walk", "readdir"}
    BY <1>2 DEF ReadFds
  <2> HIDE DEF more
  <2>5. fds' \subseteq Fds /\ \A n \in fds' : n > fd
    BY <2>1, <2>2, <2>3
  <2> QED
    BY <1>2, <2>4, <2>5 DEF ReadFds, TypeInv
<1>3. CASE StatFd
  <2>1. fds # {} /\ fds \in SUBSET Nat /\ fd' = Least(fds) /\ fds' = fds \ {fd'}
    BY <1>3, FiniteParts DEF StatFd, TypeInv
  <2>2. fd' \in fds /\ \A x \in fds : fd' <= x
    BY <2>1, LeastIs
  <2>3. fds' \subseteq Fds /\ fd' \in Fds
    BY <2>1, <2>2 DEF TypeInv
  <2>4. \A x \in fds' : x > fd'
    <3>1. \A x \in fds' : x \in Nat /\ fd' <= x /\ x # fd' /\ fd' \in Nat
      BY <2>1, <2>2
    <3> QED
      BY <3>1
  <2>5. pc' = "fdlink" => FdInHand'
    <3> SUFFICES ASSUME pc' = "fdlink"
                 PROVE  FdInHand'
      OBVIOUS
    <3> DEFINE f == FdTarget(fd')
    <3>1. f # None /\ Perms[f] # {} /\ row' = Row(None, Kind(f), f, <<fd', FdMode(f)>>)
      BY <1>3 DEF StatFd
    <3>2. f \in Files
      BY <2>3, <3>1, TargetType
    <3> HIDE DEF f
    <3>3. pid' = pid /\ info' = info
      BY <1>3 DEF StatFd
    <3>4. row' = [pid |-> pid', user |-> info'.user, command |-> info'.command,
                  fd |-> <<fd', FdMode(f)>>, type |-> Kind(f), node |-> f, name |-> None]
      BY <3>1, <3>3 DEF Row
    <3> QED
      BY <2>3, <3>1, <3>2, <3>4 DEF FdInHand, Row
  <2>6. pc' \in {"readdir", "fdlink"}
    BY <1>3 DEF StatFd
  <2> QED
    BY <1>3, <2>3, <2>4, <2>5, <2>6 DEF StatFd, TypeInv
<1>4. CASE ReadFdLink
  <2>1. PICK f \in Files : /\ Perms[f] # {} /\ fd \in Fds
                           /\ row = Row(None, Kind(f), f, <<fd, FdMode(f)>>)
    BY <1>4 DEF ReadFdLink, FdInHand, TypeInv
  <2> DEFINE name == IF FdTarget(fd) # None THEN Link(FdTarget(fd)) ELSE <<"fd", "denied">>
  <2>2. name \in Name
    BY <2>1, TargetType, KindType DEF Name, Refusals
  <2>3. row' = Row(name, Kind(f), f, <<fd, FdMode(f)>>)
    <3>1. row' = [row EXCEPT !.name = name]
      BY <1>4 DEF ReadFdLink
    <3> QED
      BY <2>1, <3>1 DEF Row
  <2> HIDE DEF name
  <2>4. <<fd, FdMode(f)>> \in Fds \X Modes
    BY <2>1, KindType
  <2>5. row' \in FileInfo
    BY <1>0, <2>2, <2>3, <2>4, KindType, RowType
  <2>6. List(row', "readdir")
    BY <1>4 DEF ReadFdLink
  <2>7. /\ ansarr' \in Seq(FileInfo) /\ Len(ansarr') <= ArrLen
        /\ DOMAIN ansarr \subseteq DOMAIN ansarr' /\ pc' \in {"readdir", "overflow"}
    BY <2>5, <2>6, AppendRow DEF TypeInv
  <2> QED
    BY <1>4, <2>7 DEF ReadFdLink, TypeInv
<1> QED
  BY <1>1, <1>2, <1>3, <1>4

LEMMA TypeFilters ==
  ASSUME TypeInv, GetOpt \/ FilterC \/ FilterT \/ FilterF
  PROVE  TypeInv'
<1> USE DEF Walking, InProcess, Filters, Ended, vars, envVars, walkVars, endVars
<1>1. CASE FilterC
  BY <1>1 DEF FilterC, TypeInv
<1>2. CASE FilterT
  BY <1>2 DEF FilterT, OfType, TypeInv
<1>3. CASE FilterF
  BY <1>3 DEF FilterF, TypeInv
<1>4. CASE GetOpt
  <2>1. (LinkInHand' <=> LinkInHand) /\ (FdInHand' <=> FdInHand)
    BY <1>4 DEF GetOpt, LinkInHand, FdInHand, Row
  <2> QED
    BY <1>4, <2>1 DEF GetOpt, TypeInv
<1> QED
  BY <1>1, <1>2, <1>3, <1>4

LEMMA TypeOthers ==
  ASSUME TypeInv, Others
  PROVE  TypeInv'
<1> USE DEF walkVars, endVars
<1>1. PICK p \in Pids, i \in Images \cup {None} :
        /\ proc' = [proc EXCEPT ![p] = i] /\ touched' = touched \cup {p}
        /\ changes' = changes + 1 /\ changes < MaxChanges
        /\ UNCHANGED <<pc, walkVars, open, ansarr, endVars>> /\ stale' \in BOOLEAN
  BY OthersStep
<1>2. changes' \in 0 .. MaxChanges
  BY <1>1, NumberAssumption DEF TypeInv
<1>3. (LinkInHand' <=> LinkInHand) /\ (FdInHand' <=> FdInHand)
  BY <1>1 DEF LinkInHand, FdInHand, Row
<1> QED
  BY <1>1, <1>2, <1>3 DEF TypeInv

LEMMA TypeNext ==
  ASSUME TypeInv, Handles, [Next]_vars
  PROVE  TypeInv'
<1>1. CASE UNCHANGED vars
  <2>1. (LinkInHand' <=> LinkInHand) /\ (FdInHand' <=> FdInHand)
    BY <1>1 DEF vars, walkVars, LinkInHand, FdInHand, Row
  <2> QED
    BY <1>1, <2>1 DEF vars, envVars, walkVars, endVars, TypeInv
<1>2. CASE Others
  BY <1>2, TypeOthers
<1>3. CASE Program
  BY <1>3, TypeWalk, TypeLinks, TypeMaps, TypeFds, TypeFilters DEF Program, Walk
<1> QED
  BY <1>1, <1>2, <1>3 DEF Next

----------------------------------------------------------------------------
(* The handles and the descriptors.                                        *)

LEMMA HandlesNext ==
  ASSUME TypeInv, Handles, [Next]_vars
  PROVE  Handles'
<1> USE DEF Handles, Alive, envVars, walkVars, endVars
<1>1. CASE UNCHANGED vars
  BY <1>1 DEF vars
<1>2. CASE Others
  <2>1. PICK p \in Pids, i \in Images \cup {None} :
          /\ proc' = [proc EXCEPT ![p] = i] /\ UNCHANGED <<pc, walkVars, open, ansarr, endVars>>
          /\ stale' \in BOOLEAN /\ (stale => stale') /\ (i = None /\ p = pid => stale')
    BY <1>2, OthersStep
  <2> QED
    BY <2>1 DEF TypeInv
<1>3. CASE OpenProc \/ ReadProc \/ FindUser
  BY <1>3 DEF OpenProc, ReadProc, FindUser
<1>4. CASE OpenCmdline
  BY <1>4 DEF OpenCmdline
<1>5. CASE ReadCmdline \/ ReadSpecial
  BY <1>5 DEF ReadCmdline, OnError, ReadSpecial
<1>6. CASE StatSpecial
  BY <1>6 DEF StatSpecial, List
<1>7. CASE OpenMaps
  BY <1>7 DEF OpenMaps, Readable, NoFd, List
<1>8. CASE ReadMaps \/ ListMapping
  BY <1>8 DEF ReadMaps, ListMapping, List
<1>9. CASE OpenFds
  BY <1>9 DEF OpenFds, Readable, NoFd, List
<1>10. CASE ReadFds
  BY <1>10 DEF ReadFds
<1>11. CASE StatFd
  BY <1>11 DEF StatFd
<1>12. CASE ReadFdLink
  BY <1>12 DEF ReadFdLink, List
<1>13. CASE GetOpt \/ FilterC \/ FilterT \/ FilterF
  BY <1>13 DEF GetOpt, FilterC, FilterT, FilterF
<1> QED
  BY <1>1, <1>2, <1>3, <1>4, <1>5, <1>6, <1>7, <1>8, <1>9, <1>10, <1>11, <1>12, <1>13
     DEF Next, Program, Walk

LEMMA OpenNext ==
  ASSUME TypeInv, OpenInv, [Next]_vars
  PROVE  OpenInv'
<1> USE NumberAssumption DEF OpenInv, Walking, InProcess, walkVars
<1>1. CASE UNCHANGED vars
  BY <1>1 DEF vars
<1>2. CASE Others
  BY <1>2, OthersStep
<1>3. CASE OpenProc
  BY <1>3 DEF OpenProc, CanOpen, TypeInv
<1>4. CASE ReadProc
  BY <1>4 DEF ReadProc
<1>5. CASE FindUser \/ ReadCmdline \/ ReadSpecial
  BY <1>5 DEF FindUser, ReadCmdline, OnError, ReadSpecial
<1>6. CASE OpenCmdline
  BY <1>6 DEF OpenCmdline, CanOpen, KeptOpen
<1>7. CASE StatSpecial
  BY <1>7 DEF StatSpecial, List
<1>8. CASE OpenMaps
  BY <1>8 DEF OpenMaps, CanOpen, KeptOpen, NoFd, List
<1>9. CASE ReadMaps \/ ListMapping
  BY <1>9 DEF ReadMaps, ListMapping, List
<1>10. CASE OpenFds
  BY <1>10 DEF OpenFds, CanOpen, NoFd, List
<1>11. CASE ReadFds
  BY <1>11 DEF ReadFds
<1>12. CASE StatFd
  BY <1>12 DEF StatFd
<1>13. CASE ReadFdLink
  BY <1>13 DEF ReadFdLink, List
<1>14. CASE GetOpt \/ FilterC \/ FilterT \/ FilterF
  BY <1>14 DEF GetOpt, FilterC, FilterT, FilterF
<1> QED
  BY <1>1, <1>2, <1>3, <1>4, <1>5, <1>6, <1>7, <1>8, <1>9, <1>10, <1>11, <1>12, <1>13, <1>14
     DEF Next, Program, Walk

----------------------------------------------------------------------------
(* The options, and the nodes of the rows.                                 *)

\* The program looks at the options only after the walk.
LEMMA WalkPcs ==
  ASSUME Walk \/ GetOpt \/ Others, TypeInv
  PROVE  \/ pc' \notin {"filterT", "filterF", "done"}
         \/ pc' = pc /\ UNCHANGED <<ansarr, show, opts>>
<1>1. CASE Others
  BY <1>1, OthersStep DEF endVars
<1>2. CASE Walk
  <2>1. CASE OpenProc \/ ReadProc \/ FindUser \/ OpenCmdline
    BY <2>1 DEF OpenProc, ReadProc, FindUser, OpenCmdline
  <2>2. CASE ReadCmdline \/ ReadSpecial \/ StatSpecial
    BY <2>2 DEF ReadCmdline, OnError, ReadSpecial, StatSpecial, List
  <2>3. CASE OpenMaps \/ ReadMaps \/ ListMapping
    BY <2>3 DEF OpenMaps, NoFd, List, ReadMaps, ListMapping
  <2>4. CASE OpenFds \/ ReadFds \/ StatFd \/ ReadFdLink
    BY <2>4 DEF OpenFds, NoFd, List, ReadFds, StatFd, ReadFdLink
  <2> QED
    BY <1>2, <2>1, <2>2, <2>3, <2>4 DEF Walk
<1>3. CASE GetOpt
  BY <1>3 DEF GetOpt
<1> QED
  BY <1>1, <1>2, <1>3

LEMMA ShowNext ==
  ASSUME TypeInv, ShowInv, [Next]_vars
  PROVE  ShowInv'
<1> USE DEF ShowInv, PassesC, PassesT, PassesF, endVars
<1>1. CASE UNCHANGED vars
  BY <1>1 DEF vars
<1>2. CASE Walk \/ GetOpt \/ Others
  BY <1>2, WalkPcs
<1>3. CASE FilterC
  <2>1. PICK c \in COpts :
          /\ opts' = [opts EXCEPT !.c = c]
          /\ \/ pc' = "abort"
             \/ /\ show' = {i \in DOMAIN ansarr : c = None \/ meetregex(ansarr[i].command, c)}
                /\ pc' = "filterT"
    BY <1>3 DEF FilterC
  <2>2. opts'.c = c /\ ansarr' = ansarr
    BY <1>3, <2>1 DEF FilterC, TypeInv
  <2> QED
    BY <2>1, <2>2 DEF meetregex
<1>4. CASE FilterT
  <2>1. PICK t \in TOpts :
          /\ opts' = [opts EXCEPT !.t = t]
          /\ \/ pc' = "invalid"
             \/ t = None /\ show' = show /\ pc' = "filterF"
             \/ t # None /\ show' = OfType(t) /\ pc' = "filterF"
    BY <1>4 DEF FilterT
  <2>2. opts'.t = t /\ opts'.c = opts.c /\ ansarr' = ansarr
    BY <1>4, <2>1 DEF FilterT, TypeInv
  <2>3. show = {i \in DOMAIN ansarr : opts.c = None \/ ansarr[i].command \in opts.c}
    BY <1>4 DEF FilterT
  <2> QED
    <3>1. \/ pc' = "invalid"
          \/ pc' = "filterF" /\ t = None /\ show' = show
          \/ pc' = "filterF" /\ t # None /\ show' = {i \in show : ansarr[i].type = t}
      BY <2>1 DEF OfType
    <3>2. pc' = "filterF" =>
            show' = {i \in DOMAIN ansarr : /\ opts.c = None \/ ansarr[i].command \in opts.c
                                           /\ t = None \/ ansarr[i].type = t}
      <4>1. CASE t = None
        BY <2>3, <3>1, <4>1
      <4>2. CASE t # None
        BY <2>3, <3>1, <4>2
      <4> QED
        BY <4>1, <4>2
    <3> QED
      BY <2>2, <3>1, <3>2
<1>5. CASE FilterF
  <2>1. PICK f \in FOpts :
          /\ opts' = [opts EXCEPT !.f = f]
          /\ \/ pc' = "abort"
             \/ /\ show' = {i \in show : f = None \/ meetregex(ansarr[i].name, f)}
                /\ pc' = "done"
    BY <1>5 DEF FilterF
  <2>2. opts'.f = f /\ opts'.t = opts.t /\ opts'.c = opts.c /\ ansarr' = ansarr
    BY <1>5, <2>1 DEF FilterF, TypeInv
  <2>3. show = {i \in DOMAIN ansarr : /\ opts.c = None \/ ansarr[i].command \in opts.c
                                      /\ opts.t = None \/ ansarr[i].type = opts.t}
    BY <1>5 DEF FilterF
  <2> QED
    BY <2>1, <2>2, <2>3 DEF meetregex
<1> QED
  BY <1>1, <1>2, <1>3, <1>4, <1>5 DEF Next, Program

LEMMA NodeAppend ==
  ASSUME NodeInv, ansarr \in Seq(FileInfo), NEW r, NEW next, List(r, next),
         HasNode(r) => r.node # None
  PROVE  NodeInv'
<1>1. CASE ansarr' = ansarr
  BY <1>1 DEF NodeInv
<1>2. CASE ansarr' = Append(ansarr, r)
  <2>1. ASSUME NEW i \in DOMAIN ansarr', HasNode(ansarr'[i])
        PROVE  ansarr'[i].node # None
    <3>1. CASE i \in DOMAIN ansarr
      <4>1. ansarr'[i] = ansarr[i]
        BY <1>2, <3>1
      <4> QED
        BY <2>1, <3>1, <4>1 DEF NodeInv
    <3>2. CASE i \notin DOMAIN ansarr
      <4>1. ansarr'[i] = r
        BY <1>2, <2>1, <3>2
      <4> QED
        BY <2>1, <4>1
    <3> QED
      BY <3>1, <3>2
  <2> QED
    BY <2>1 DEF NodeInv
<1> QED
  BY <1>1, <1>2 DEF List, Append1

LEMMA NodeNext ==
  ASSUME TypeInv, NodeInv, [Next]_vars
  PROVE  NodeInv'
<1>0. ansarr \in Seq(FileInfo)
  BY DEF TypeInv
<1>1. CASE UNCHANGED ansarr
  BY <1>1 DEF NodeInv
<1>2. ASSUME NEW what, NEW next, NoFd(what, next)
      PROVE  NodeInv'
  <2>1. PICK t \in Leftovers : List(Row(<<what, "denied">>, t, None, <<"NOFD">>), next)
    BY <1>2 DEF NoFd
  <2>2. ~HasNode(Row(<<what, "denied">>, t, None, <<"NOFD">>))
    BY DEF HasNode, Row
  <2> QED
    BY <1>0, <2>1, <2>2, NodeAppend
<1>3. CASE StatSpecial
  <2>1. PICK name : row = Row(name, None, None, FdColumn[special])
    BY <1>3 DEF StatSpecial, LinkInHand, TypeInv
  <2> DEFINE type == IF Target = None THEN "unknown" ELSE Kind(Target)
  <2>2. row' = [row EXCEPT !.type = type, !.node = IF type = "unknown" THEN row.node ELSE Target]
    BY <1>3 DEF StatSpecial
  <2>3. row'.type = type /\ (type # "unknown" => row'.node = Target)
    BY <2>1, <2>2 DEF Row
  <2>4. type # "unknown" => Target # None
    OBVIOUS
  <2>5. HasNode(row') => row'.node # None
    BY <2>3, <2>4 DEF HasNode
  <2>6. List(row', IF special = "exe" THEN "maps" ELSE "readlink")
    BY <1>3 DEF StatSpecial
  <2> QED
    BY <1>0, <2>5, <2>6, NodeAppend
<1>4. CASE OpenMaps
  BY <1>1, <1>2, <1>4 DEF OpenMaps
<1>5. CASE ListMapping
  <2> DEFINE f == lines[area']
  <2>1. CASE Listable(f)
    <3> DEFINE r == Row(strremove(f), "REG", f, MapColumn(f))
    <3>1. List(r, "fgets") /\ r.node # None
      BY <1>5, <2>1 DEF ListMapping, Listable, Row
    <3> QED
      BY <1>0, <3>1, NodeAppend
  <2>2. CASE ~Listable(f)
    BY <1>1, <1>5, <2>2 DEF ListMapping
  <2> QED
    BY <2>1, <2>2
<1>6. CASE OpenFds
  BY <1>1, <1>2, <1>6 DEF OpenFds
<1>7. CASE ReadFdLink
  <2>1. PICK f \in Files : row = Row(None, Kind(f), f, <<fd, FdMode(f)>>)
    BY <1>7 DEF ReadFdLink, FdInHand, TypeInv
  <2>2. \E name : row' = [row EXCEPT !.name = name]
    BY <1>7 DEF ReadFdLink
  <2>3. row'.node = f /\ f # None
    BY <2>1, <2>2, KindType DEF Row
  <2>4. List(row', "readdir")
    BY <1>7 DEF ReadFdLink
  <2> QED
    BY <1>0, <2>3, <2>4, NodeAppend
<1>8. CASE OpenProc \/ ReadProc \/ FindUser \/ OpenCmdline \/ ReadCmdline \/ ReadSpecial
  BY <1>1, <1>8 DEF OpenProc, ReadProc, FindUser, OpenCmdline, ReadCmdline, ReadSpecial
<1>9. CASE ReadMaps \/ ReadFds \/ StatFd \/ GetOpt \/ FilterC \/ FilterT \/ FilterF
  BY <1>1, <1>9 DEF ReadMaps, ReadFds, StatFd, GetOpt, FilterC, FilterT, FilterF
<1>10. CASE Others \/ UNCHANGED vars
  BY <1>1, <1>10, OthersStep DEF vars
<1> QED
  BY <1>3, <1>4, <1>5, <1>6, <1>7, <1>8, <1>9, <1>10 DEF Next, Program, Walk

----------------------------------------------------------------------------
(* Enough descriptors: one for /proc, two that each process leaves behind, *)
(* and one for its directory.                                              *)

EnoughFds == Base + 2 + 2 * Cardinality(Pids) <= Limit

LEMMA VisitedType == Visited \in Nat /\ Visited <= Cardinality(Pids) /\ Cardinality(Pids) \in Nat
<1> DEFINE V == {p \in Pids : p <= pid}
<1>1. IsFiniteSet(V) /\ Cardinality(V) <= Cardinality(Pids)
  BY NumberAssumption, FS_Subset
<1> QED
  BY <1>1, NumberAssumption, FS_CardinalityType DEF Visited

LEMMA VisitedNext ==
  ASSUME TypeInv, pid' \in Pids, pid' > pid
  PROVE  Visited + 1 <= Visited' /\ Visited' \in Nat /\ Visited' <= Cardinality(Pids)
<1> DEFINE V == {p \in Pids : p <= pid}
           W == {p \in Pids : p <= pid'}
<1>1. IsFiniteSet(V) /\ IsFiniteSet(W) /\ Cardinality(W) <= Cardinality(Pids)
  BY NumberAssumption, FS_Subset
<1>2. pid \in Nat /\ pid' \in Nat /\ Pids \subseteq Nat
  BY NumberAssumption DEF TypeInv
<1>3. pid' \notin V /\ pid' \in W
  BY <1>2
<1>4. \A p \in Pids : p <= pid => p <= pid'
  BY <1>2
<1>5. V \cup {pid'} \subseteq W
  BY <1>3, <1>4
<1>6. Cardinality(V \cup {pid'}) = Cardinality(V) + 1 /\ IsFiniteSet(V \cup {pid'})
  BY <1>1, <1>3, FS_AddElement
<1>7. Cardinality(V \cup {pid'}) <= Cardinality(W)
  BY <1>1, <1>5, FS_Subset
<1>8. Visited = Cardinality(V) /\ Visited' = Cardinality(W)
  BY DEF Visited
<1> QED
  BY <1>1, <1>6, <1>7, <1>8, FS_CardinalityType

\* The entry taken from the directory lies behind the last.
LEMMA FindsNext ==
  ASSUME TypeInv, FindUser
  PROVE  /\ pid' \in pids /\ pid' \in Pids /\ pid' > pid /\ pids' = pids \ {pid'}
         /\ \A q \in pids : pid' <= q
<1>1. pids # {} /\ pids \in SUBSET Nat /\ pid' = Least(pids) /\ pids' = pids \ {pid'}
  BY FiniteParts DEF FindUser, TypeInv
<1> QED
  BY <1>1, LeastIs DEF TypeInv

LEMMA KeptNext ==
  ASSUME TypeInv, OpenInv, Kept, [Next]_vars
  PROVE  Kept'
<1> USE NumberAssumption DEF Kept, walkVars
<1>0. Visited \in Nat /\ open \in Int /\ Base \in Nat
  BY VisitedType DEF OpenInv
<1>1. CASE UNCHANGED vars
  BY <1>1 DEF vars, Visited
<1>2. pid' = pid => Visited' = Visited
  BY DEF Visited
<1>3. CASE Others
  BY <1>2, <1>3, OthersStep
<1>4. CASE OpenProc
  <2>1. pid' = pid /\ pc' \in {"walk", "filterC"} /\ (pc' = "walk" => open' = Base + 1)
    BY <1>4 DEF OpenProc, TypeInv
  <2> QED
    BY <1>0, <1>2, <2>1
<1>5. CASE ReadProc
  BY <1>0, <1>2, <1>5 DEF ReadProc
<1>6. CASE FindUser
  <2>1. Visited + 1 <= Visited' /\ Visited' \in Nat
    BY <1>6, FindsNext, VisitedNext
  <2>2. pc = "walk" /\ open' = open /\ pc' = "cmdline"
    BY <1>6 DEF FindUser
  <2>3. open <= Base + 1 + 2 * Visited
    BY <2>2
  <2>4. open' <= Base - 1 + 2 * Visited'
    <3>1. \A o, b, v, w \in Int : o <= b + 1 + 2 * v /\ v + 1 <= w => o <= b - 1 + 2 * w
      OBVIOUS
    <3>2. open' \in Int /\ Visited' \in Int /\ Visited \in Int /\ Base \in Int
      BY <1>0, <2>1, <2>2
    <3>3. open' <= Base + 1 + 2 * Visited
      BY <2>2, <2>3
    <3> QED
      BY <2>1, <3>1, <3>2, <3>3
  <2> QED
    BY <2>2, <2>4
<1>7. CASE OpenCmdline
  BY <1>0, <1>2, <1>7 DEF OpenCmdline, KeptOpen
<1>8. CASE ReadCmdline \/ ReadSpecial
  <2>1. CASE ReadCmdline
    BY <1>0, <1>2, <2>1 DEF ReadCmdline, OnError
  <2>2. CASE ReadSpecial
    BY <1>0, <1>2, <2>2 DEF ReadSpecial
  <2> QED
    BY <1>8, <2>1, <2>2
<1>9. CASE StatSpecial
  BY <1>0, <1>2, <1>9 DEF StatSpecial, List
<1>10. CASE OpenMaps
  BY <1>0, <1>2, <1>10 DEF OpenMaps, KeptOpen, NoFd, List
<1>11. CASE ReadMaps \/ ListMapping
  BY <1>0, <1>2, <1>11 DEF ReadMaps, ListMapping, List
<1>12. CASE OpenFds
  BY <1>0, <1>2, <1>12 DEF OpenFds, NoFd, List
<1>13. CASE ReadFds
  BY <1>0, <1>2, <1>13 DEF ReadFds
<1>14. CASE StatFd \/ ReadFdLink
  BY <1>0, <1>2, <1>14 DEF StatFd, ReadFdLink, List
<1>15. CASE GetOpt \/ FilterC \/ FilterT \/ FilterF
  BY <1>0, <1>2, <1>15 DEF GetOpt, FilterC, FilterT, FilterF
<1> QED
  BY <1>1, <1>3, <1>4, <1>5, <1>6, <1>7, <1>8, <1>9, <1>10, <1>11, <1>12, <1>13, <1>14, <1>15
     DEF Next, Program, Walk

\* Whenever the program opens something it can.
LEMMA AlwaysOpens ==
  ASSUME EnoughFds, TypeInv, OpenInv, Kept
  PROVE  /\ pc \in {"cmdline", "read", "readlink", "stat", "maps", "fgets", "opendir", "start"} => CanOpen
         /\ pc = "walk" /\ pids # {} => CanOpen
<1>1. /\ Visited \in Nat /\ Visited <= Cardinality(Pids) /\ Cardinality(Pids) \in Nat
      /\ open \in Int /\ Base \in Nat /\ Limit \in Nat
  BY VisitedType, NumberAssumption DEF OpenInv
<1>2. ASSUME pc = "walk", pids # {}
      PROVE  Visited + 1 <= Cardinality(Pids)
  <2> DEFINE V == {p \in Pids : p <= pid}
  <2>1. PICK q \in pids : q > pid
    BY <1>2 DEF TypeInv
  <2>2. q \in Pids /\ q \notin V /\ V \cup {q} \subseteq Pids
    <3>1. q \in Pids /\ q \in Nat /\ pid \in Nat
      BY <2>1, NumberAssumption DEF TypeInv
    <3> QED
      BY <2>1, <3>1
  <2>3. IsFiniteSet(V) /\ Cardinality(V \cup {q}) <= Cardinality(Pids)
    BY <2>2, NumberAssumption, FS_Subset
  <2>4. Cardinality(V \cup {q}) = Cardinality(V) + 1
    BY <2>2, <2>3, FS_AddElement
  <2> QED
    BY <2>3, <2>4 DEF Visited
<1>3. CASE pc = "walk"
  BY <1>1, <1>2, <1>3 DEF EnoughFds, Kept, CanOpen
<1>4. CASE pc = "start"
  BY <1>1, <1>4 DEF EnoughFds, CanOpen, TypeInv
<1>5. CASE pc \in {"cmdline", "read", "readlink", "stat", "maps", "fgets", "opendir"}
  <2>1. open <= Base + 1 + 2 * Visited
    BY <1>1, <1>5 DEF Kept
  <2> QED
    BY <1>1, <1>5, <2>1 DEF EnoughFds, CanOpen
<1> QED
  BY <1>3, <1>4, <1>5

----------------------------------------------------------------------------
(* The rows of the process visited, and of the others.                     *)

LEMMA SameRows ==
  ASSUME NEW p, RowsOf(p)' = RowsOf(p)
  PROVE  /\ Shapes(p)' = Shapes(p) /\ Denials(p)' = Denials(p)
         /\ proc'[p] = proc[p] => (Owned(p)' <=> Owned(p)) /\ (Complete(p)' <=> Complete(p))
<1>1. Full(p)' = Full(p)
  BY DEF Full
<1>2. Shapes(p)' = Shapes(p)
  BY <1>1 DEF Shapes
<1>3. Denials(p)' = Denials(p)
  BY <1>1 DEF Denials
<1>4. proc'[p] = proc[p] => (Owned(p)' <=> Owned(p))
  BY DEF Owned
<1> QED
  BY <1>2, <1>3, <1>4 DEF Complete

LEMMA RowsAppend ==
  ASSUME ansarr \in Seq(FileInfo), Len(ansarr) <= ArrLen, NEW r \in FileInfo, NEW next, List(r, next),
         pc' # "overflow"
  PROVE  \A p : RowsOf(p)' = RowsOf(p) \cup IF r.pid = p THEN {r} ELSE {}
<1> SUFFICES ASSUME NEW p
             PROVE  RowsOf(p)' = RowsOf(p) \cup IF r.pid = p THEN {r} ELSE {}
  OBVIOUS
<1>1. ansarr' = Append(ansarr, r)
  BY AppendRow
<1>2. /\ DOMAIN ansarr' = DOMAIN ansarr \cup {Len(ansarr) + 1} /\ ansarr'[Len(ansarr) + 1] = r
      /\ \A j \in DOMAIN ansarr : ansarr'[j] = ansarr[j]
  BY <1>1
<1>3. /\ RowsOf(p) = {ansarr[i] : i \in {j \in DOMAIN ansarr : ansarr[j].pid = p}}
      /\ RowsOf(p)' = {ansarr'[i] : i \in {j \in DOMAIN ansarr' : ansarr'[j].pid = p}}
  BY DEF RowsOf
<1> QED
  BY <1>2, <1>3

LEMMA FullAppend ==
  ASSUME NEW p, NEW r, RowsOf(p)' = RowsOf(p) \cup {r}, proc'[p] = proc[p], Owned(p),
         r.user = proc[p].user,
         r.command = IF proc[p].command = None THEN "." ELSE proc[p].command
  PROVE  /\ Owned(p)'
         /\ r.fd # <<"NOFD">> => Shapes(p)' = Shapes(p) \cup {Shape(r)} /\ Denials(p)' = Denials(p)
         /\ r.fd = <<"NOFD">> => Shapes(p)' = Shapes(p) /\ Denials(p)' = Denials(p) \cup {r.name}
<1>1. Owned(p)'
  BY DEF Owned
<1>2. CASE r.fd # <<"NOFD">>
  <2>1. Full(p)' = Full(p) \cup {r} /\ r \in Full(p)'
    BY <1>2 DEF Full
  <2>2. Shapes(p)' = Shapes(p) \cup {Shape(r)}
    BY <2>1 DEF Shapes
  <2>3. RowsOf(p)' \ Full(p)' = RowsOf(p) \ Full(p)
    BY <1>2 DEF Full
  <2>4. Denials(p)' = Denials(p)
    BY <2>3 DEF Denials
  <2> QED
    BY <1>1, <1>2, <2>2, <2>4
<1>3. CASE r.fd = <<"NOFD">>
  <2>1. Full(p)' = Full(p) /\ RowsOf(p)' \ Full(p)' = (RowsOf(p) \ Full(p)) \cup {r}
    BY <1>3 DEF Full
  <2> QED
    BY <1>1, <1>3, <2>1 DEF Shapes, Denials
<1> QED
  BY <1>2, <1>3

\* What the program reads of a process that lives.
LEMMA Reads ==
  ASSUME TypeInv, pid \in Pids, proc[pid] # None
  PROVE  /\ proc[pid] \in Images /\ pid \in Alive /\ (Readable <=> ~proc[pid].sealed)
         /\ Target = IF proc[pid].sealed THEN None ELSE proc[pid][special]
         /\ ~proc[pid].sealed => \A n : FdTarget(n) = proc[pid].fds[n]
BY DEF TypeInv, Alive, Readable, Target, FdTarget

\* The steps within a process leave the others alone.
LEMMA OtherRows ==
  ASSUME TypeInv, NEW p \in Pids \ touched, RowsRight(p), p # pid,
         pc \in InProcess, pc' \in Walking, UNCHANGED <<proc, touched, pids, pid>>,
         RowsOf(p)' = RowsOf(p)
  PROVE  RowsRight(p)'
<1>1. Complete(p)' <=> Complete(p)
  BY SameRows
<1>2. pc \notin Filters \cup Ended /\ pc' \notin Filters \cup Ended
  BY DEF Walking, InProcess, Filters, Ended
<1> QED
  BY <1>1, <1>2 DEF RowsRight, Walking, InProcess

\* A row of the process visited.
LEMMA RowShape ==
  ASSUME NEW name, NEW type, NEW node, NEW dsc
  PROVE  Shape(Row(name, type, node, dsc)) =
           <<dsc, type, name, IF type # "unknown" /\ dsc # <<"NOFD">> THEN node ELSE "">>
<1> DEFINE r == Row(name, type, node, dsc)
<1>1. /\ r.name = name /\ r.type = type /\ r.node = node /\ r.fd = dsc
  BY DEF Row
<1>2. printrown(r).node = IF HasNode(r) THEN r.node ELSE ""
  BY DEF printrown, Row
<1> QED
  BY <1>1, <1>2 DEF Shape, HasNode

----------------------------------------------------------------------------
(* From process to process.                                                *)

LEMMA RightEntries ==
  ASSUME TypeInv, EnoughFds, OpenInv, Kept, NEW p \in Pids \ touched, RowsRight(p),
         OpenProc \/ ReadProc
  PROVE  RowsRight(p)'
<1> USE DEF Walking, InProcess, Filters, Ended
<1>1. RowsOf(p)' = RowsOf(p) /\ proc' = proc /\ pid' = pid
  BY DEF OpenProc, ReadProc, RowsOf, envVars, walkVars
<1>2. Complete(p)' <=> Complete(p)
  BY <1>1, SameRows
<1>3. CASE OpenProc
  <2>1. pc = "start" /\ pc' = "walk" /\ pids' = pids /\ pid = 0 /\ pids = {} /\ p > 0
    <3>1. pc = "start" /\ pc' = "walk" /\ pids' = pids
      BY <1>3, AlwaysOpens DEF OpenProc, walkVars
    <3>2. p > 0
      BY NumberAssumption
    <3> QED
      BY <3>1, <3>2 DEF TypeInv
  <2>2. ~(p < 0) /\ p # 0
    BY NumberAssumption
  <2> QED
    BY <1>1, <2>1, <2>2 DEF RowsRight
<1>4. CASE ReadProc
  <2> DEFINE more == {q \in Alive : q > pid}
  <2>1. more \in SUBSET Nat /\ IsFiniteSet(more)
    BY FiniteParts DEF Alive
  <2>2. \A q \in more : q \in Buffered(more) \/ \A s \in Buffered(more) : s < q
    BY <2>1, BufferedIs
  <2>3. Buffered(more) \subseteq more
    BY <2>1, BufferedIs
  <2>4. \/ pc' = "walk" /\ pids' = Buffered(more)
        \/ pc' = "filterC" /\ pids' = pids /\ more = {}
    BY <1>4 DEF ReadProc
  <2>5. pc = "walk" /\ pids = {}
    BY <1>4 DEF ReadProc
  <2>6. proc[p] # None => (p > pid <=> p \in more)
    BY DEF Alive
  <2>7. proc[p] = None => p \notin more
    BY DEF Alive
  <2> HIDE DEF more
  <2>8. p \in Nat /\ pid \in Nat
    BY NumberAssumption DEF TypeInv
  <2>9. CASE proc[p] = None
    BY <1>1, <2>3, <2>4, <2>5, <2>7, <2>9 DEF RowsRight
  <2>10. CASE proc[p] # None
    <3>1. CASE pc' = "walk" /\ pids' = Buffered(more)
      BY <1>1, <1>2, <2>2, <2>5, <2>6, <2>10, <3>1 DEF RowsRight
    <3>2. CASE pc' = "filterC" /\ more = {}
      BY <1>1, <1>2, <2>5, <2>6, <2>8, <2>10, <3>2 DEF RowsRight
    <3> QED
      BY <2>4, <3>1, <3>2
  <2> QED
    BY <2>9, <2>10
<1> QED
  BY <1>3, <1>4

LEMMA NoRows ==
  ASSUME NEW p, RowsOf(p)' = {}
  PROVE  Owned(p)' /\ Denials(p)' = {}
<1>1. Owned(p)'
  BY DEF Owned
<1>2. RowsOf(p)' \ Full(p)' = {}
  OBVIOUS
<1> QED
  BY <1>1, <1>2 DEF Denials

LEMMA RightFindUser ==
  ASSUME TypeInv, EnoughFds, OpenInv, Kept, NEW p \in Pids \ touched, RowsRight(p), FindUser
  PROVE  RowsRight(p)'
<1> USE DEF Walking, InProcess, Filters, Ended
<1>1. /\ RowsOf(p)' = RowsOf(p) /\ proc' = proc /\ pc = "walk" /\ pc' = "cmdline" /\ pids # {}
  BY DEF FindUser, RowsOf, envVars
<1>2. Complete(p)' <=> Complete(p)
  BY <1>1, SameRows
<1>3. /\ pid' \in pids /\ pid' \in Pids /\ pid' > pid /\ pids' = pids \ {pid'}
      /\ \A q \in pids : pid' <= q
  BY FindsNext
<1>4. p \in Nat /\ pid \in Nat /\ pid' \in Nat /\ pids \subseteq Nat
  BY <1>3, NumberAssumption DEF TypeInv
<1>5. CASE proc[p] = None
  BY <1>1, <1>3, <1>5 DEF RowsRight
<1>6. CASE proc[p] # None /\ p = pid'
  <2>1. RowsOf(p) = {} /\ p \in Alive
    BY <1>1, <1>3, <1>6 DEF RowsRight, Alive
  <2>2. CanOpen
    BY <1>1, AlwaysOpens
  <2>3. info'.user = proc[p].user
    <3>1. info' = [info EXCEPT !.user = proc[p].user]
      BY <1>6, <2>1, <2>2 DEF FindUser
    <3> QED
      BY <3>1 DEF TypeInv
  <2>4. Owned(p)' /\ Denials(p)' = {}
    BY <1>1, <2>1, NoRows
  <2>5. Progress(p, proc[p])'
    BY <1>1, <2>1, <2>3, <2>4 DEF Progress
  <2> QED
    BY <1>1, <1>3, <1>4, <1>6, <2>5 DEF RowsRight
<1>7. CASE proc[p] # None /\ p < pid'
  <2>1. Complete(p)
    <3>1. p \notin pids /\ ~ \A q \in pids : q < p
      BY <1>3, <1>4, <1>7
    <3>2. ~(p > pid)
      BY <1>1, <1>7, <3>1 DEF RowsRight
    <3>3. p < pid \/ p = pid
      BY <1>4, <3>2
    <3> QED
      BY <1>1, <1>7, <3>3 DEF RowsRight
  <2> QED
    BY <1>1, <1>2, <1>4, <1>7, <2>1 DEF RowsRight
<1>8. CASE proc[p] # None /\ p > pid'
  <2>1. p > pid
    BY <1>3, <1>4, <1>8
  <2>2. RowsOf(p) = {} /\ (p \in pids \/ \A q \in pids : q < p)
    BY <1>1, <1>8, <2>1 DEF RowsRight
  <2>3. p \in pids' \/ \A q \in pids' : q < p
    BY <1>3, <1>4, <1>8, <2>2
  <2> QED
    BY <1>1, <1>4, <1>8, <2>2, <2>3 DEF RowsRight
<1> QED
  BY <1>4, <1>5, <1>6, <1>7, <1>8

\* What is left to show of a step within the process visited.
LEMMA VisitedRight ==
  ASSUME TypeInv, NEW p \in Pids \ touched, RowsRight(p), p = pid,
         pc \in InProcess, pc' \in Walking, UNCHANGED <<proc, touched, pids, pid>>,
         proc[p] # None => IF pc' = "walk" THEN Complete(p)' ELSE Progress(p, proc[p])'
  PROVE  RowsRight(p)'
<1>1. proc[p] # None
  BY DEF RowsRight
<1>2. ~(p > pid) /\ ~(p < pid)
  BY NumberAssumption DEF TypeInv
<1>3. pc' # "walk" <=> pc' \in InProcess
  BY DEF Walking, InProcess
<1>4. pc' \notin Filters \cup {"done"}
  BY DEF Walking, InProcess, Filters
<1>5. proc'[p] = proc[p] /\ ~(p > pid') /\ ~(p < pid')
  BY <1>2
<1>6. pc' = "walk" \/ pc' \in Filters \cup {"done"} => Complete(p)'
  BY <1>1, <1>4
<1>7. pc' \in InProcess => Progress(p, proc[p])'
  BY <1>1, <1>3
<1> QED
  BY <1>1, <1>5, <1>6, <1>7 DEF RowsRight

----------------------------------------------------------------------------
(* The steps that look at a process, one part of /proc/pid after another.  *)

LEMMA RightCmdline ==
  ASSUME TypeInv, Handles, EnoughFds, OpenInv, Kept, NEW p \in Pids \ touched, RowsRight(p),
         OpenCmdline \/ ReadCmdline, pc' # "overflow"
  PROVE  RowsRight(p)'
<1> DEFINE i == proc[p]
<1>1. /\ UNCHANGED <<proc, touched, pids, pid>> /\ RowsOf(p)' = RowsOf(p)
      /\ pc \in InProcess /\ pc' \in Walking
  BY DEF OpenCmdline, ReadCmdline, OnError, envVars, walkVars, RowsOf, Walking, InProcess
<1>2. CASE p # pid
  BY <1>1, <1>2, OtherRows
<1>3. CASE p = pid
  <2> SUFFICES ASSUME i # None
               PROVE  IF pc' = "walk" THEN Complete(p)' ELSE Progress(p, i)'
    BY <1>1, <1>3, VisitedRight
  <2>1. i \in Images /\ pid \in Alive
    BY <1>3, Reads
  <2>2. Progress(p, i)
    BY <1>1, <1>3 DEF RowsRight
  <2>3. RowsOf(p) = {} /\ Denials(p)' = {} /\ Owned(p)' /\ info.user = i.user
    BY <1>1, <2>2, NoRows DEF Progress, OpenCmdline, ReadCmdline
  <2>4. Shapes(p)' = {}
    BY <1>1, <2>3 DEF Shapes, Full
  <2>5. CASE OpenCmdline
    <3>1. CanOpen
      BY <2>5, AlwaysOpens DEF OpenCmdline
    <3>2. pc' = "read" /\ ~stale' /\ info' = info
      BY <2>1, <2>5, <3>1 DEF OpenCmdline, walkVars
    <3> QED
      BY <1>1, <2>3, <3>2 DEF Progress
  <2>6. CASE ReadCmdline
    <3>1. ~stale
      BY <2>2, <2>6 DEF Progress, ReadCmdline
    <3> DEFINE c == IF i.command = None THEN "." ELSE i.command
    <3>2. info' = [info EXCEPT !.command = c] /\ special' = "cwd" /\ pc' = "readlink" /\ stale' = stale
      BY <1>3, <2>6, <3>1 DEF ReadCmdline
    <3>3. info'.command = c /\ info'.user = info.user
      BY <3>2 DEF TypeInv
    <3>4. LinkRows(i, Earlier') = {}
      BY <3>2 DEF LinkRows, Earlier
    <3>5. LinkRows(i, Earlier)' = {}
      BY <1>1, <3>4 DEF LinkRows
    <3> QED
      BY <1>1, <2>3, <2>4, <3>1, <3>2, <3>3, <3>5 DEF Progress
  <2> QED
    BY <2>5, <2>6
<1> QED
  BY <1>2, <1>3

LEMMA RightLinks ==
  ASSUME TypeInv, TypeInv', NEW p \in Pids \ touched, RowsRight(p),
         ReadSpecial \/ StatSpecial, pc' # "overflow"
  PROVE  RowsRight(p)'
<1> DEFINE i == proc[p]
<1>1. /\ UNCHANGED <<proc, touched, pids, pid, info, stale>>
      /\ pc \in InProcess /\ pc' \in Walking
  BY DEF ReadSpecial, StatSpecial, List, envVars, Walking, InProcess
<1>2. CASE ReadSpecial
  <2>1. RowsOf(p)' = RowsOf(p) /\ pc = "readlink" /\ pc' = "stat" /\ special' = special
    BY <1>2 DEF ReadSpecial, RowsOf
  <2>2. CASE p # pid
    BY <1>1, <2>1, <2>2, OtherRows
  <2>3. CASE p = pid
    <3> SUFFICES ASSUME i # None
                 PROVE  Progress(p, i)'
      BY <1>1, <2>1, <2>3, VisitedRight
    <3>1. Target = IF i.sealed THEN None ELSE i[special]
      BY <1>1, <2>3, Reads
    <3>2. row' = Row(IF Target # None THEN Link(Target) ELSE <<special, "denied">>, None, None,
                     FdColumn[special])
      BY <1>2 DEF ReadSpecial
    <3>3. row'.name = IF i.sealed \/ i[special] = None THEN Denied(special) ELSE Link(i[special])
      BY <3>1, <3>2 DEF Row, Denied
    <3>4. Progress(p, i)
      BY <1>1, <2>1, <2>3 DEF RowsRight
    <3>5. Shapes(p)' = Shapes(p) /\ Denials(p)' = Denials(p) /\ (Owned(p)' <=> Owned(p))
      BY <1>1, <2>1, SameRows
    <3>6. LinkRows(i, Earlier)' = LinkRows(i, Earlier)
      BY <1>1, <2>1 DEF LinkRows, Earlier
    <3> QED
      BY <1>1, <2>1, <3>3, <3>4, <3>5, <3>6 DEF Progress
  <2> QED
    BY <2>2, <2>3
<1>3. CASE StatSpecial
  <2> DEFINE next == IF special = "exe" THEN "maps" ELSE "readlink"
             type == IF Target = None THEN "unknown" ELSE Kind(Target)
             node == IF type = "unknown" THEN None ELSE Target
  <2>1. PICK name \in Name : row = Row(name, None, None, FdColumn[special])
    BY <1>3 DEF StatSpecial, LinkInHand, TypeInv
  <2>2. row' = [row EXCEPT !.type = type, !.node = IF type = "unknown" THEN row.node ELSE Target]
    BY <1>3 DEF StatSpecial
  <2>3. row' = Row(name, type, node, FdColumn[special]) /\ row.name = name
    BY <2>1, <2>2 DEF Row
  <2>31. row'.pid = pid /\ row'.user = info.user /\ row'.command = info.command
    BY <2>3 DEF Row
  <2>4. List(row', next) /\ pc' = next /\ pc = "stat"
    BY <1>3 DEF StatSpecial, List
  <2>5. row' \in FileInfo /\ row'.pid = pid
    <3>1. type \in Types /\ node \in Files \cup {None}
      BY TargetType, KindType DEF Types
    <3>2. FdColumn[special] \in {<<c>> : c \in {"cwd", "rtd", "txt"}}
      BY DEF FdColumn, TypeInv
    <3>3. pid \in Pids
      BY <1>1 DEF TypeInv
    <3>4. Row(name, type, node, FdColumn[special]) \in FileInfo
      <4> HIDE DEF type, node
      <4> QED
        BY <3>1, <3>2, <3>3, RowType
    <3> QED
      BY <2>3, <2>31, <3>4
  <2> HIDE DEF next
  <2>6. \A q : RowsOf(q)' = RowsOf(q) \cup IF pid = q THEN {row'} ELSE {}
    BY <2>4, <2>5, RowsAppend DEF TypeInv
  <2>7. CASE p # pid
    <3>1. RowsOf(p)' = RowsOf(p)
      BY <2>6, <2>7
    <3> QED
      BY <1>1, <2>7, <3>1, OtherRows
  <2>8. CASE p = pid
    <3> SUFFICES ASSUME i # None
                 PROVE  Progress(p, i)'
      BY <1>1, <2>4, <2>8, VisitedRight DEF next
    <3>1. Progress(p, i) /\ i \in Images
      BY <1>1, <2>8, Reads DEF RowsRight, TypeInv
    <3>2. /\ info.user = i.user /\ info.command = IF i.command = None THEN "." ELSE i.command
          /\ ~stale /\ Shapes(p) = LinkRows(i, Earlier) /\ Denials(p) = {} /\ Owned(p)
          /\ name = IF i.sealed \/ i[special] = None THEN Denied(special) ELSE Link(i[special])
      BY <2>3, <2>4, <3>1 DEF Progress
    <3>3. Target = IF i.sealed THEN None ELSE i[special]
      BY <1>1, <2>8, Reads
    <3>4. Shape(row') = LinkRow(i, special) /\ row'.fd # <<"NOFD">>
      <4>1. FdColumn[special] # <<"NOFD">>
        BY DEF FdColumn, TypeInv
      <4>2. /\ row'.fd = FdColumn[special]
            /\ Shape(row') = <<FdColumn[special], type, name, IF type # "unknown" THEN Target ELSE "">>
        <5> HIDE DEF type, node
        <5>1. Shape(Row(name, type, node, FdColumn[special])) =
                <<FdColumn[special], type, name,
                  IF type # "unknown" /\ FdColumn[special] # <<"NOFD">> THEN node ELSE "">>
          BY RowShape
        <5>2. Row(name, type, node, FdColumn[special]).fd = FdColumn[special]
          BY DEF Row
        <5>3. (IF type # "unknown" /\ FdColumn[special] # <<"NOFD">> THEN node ELSE "")
              = (IF type # "unknown" THEN Target ELSE "")
          BY <4>1 DEF node
        <5> QED
          BY <2>3, <5>1, <5>2, <5>3
      <4>3. CASE Target = None
        <5>1. Shape(row') = <<FdColumn[special], "unknown", Denied(special), "">>
          BY <3>2, <3>3, <4>2, <4>3
        <5>2. LinkRow(i, special) = DeniedRow(FdColumn[special], special)
          BY <3>3, <4>3 DEF LinkRow
        <5> QED
          BY <4>1, <4>2, <5>1, <5>2 DEF DeniedRow
      <4>4. CASE Target # None
        <5>1. LinkRow(i, special) = CodeRow(FdColumn[special], Target) /\ name = Link(Target)
          BY <3>2, <3>3, <4>4 DEF LinkRow
        <5> QED
          BY <4>1, <4>2, <4>4, <5>1 DEF CodeRow
      <4> QED
        BY <4>3, <4>4
    <3>5. RowsOf(p)' = RowsOf(p) \cup {row'} /\ row'.user = info.user /\ row'.command = info.command
      BY <2>6, <2>8, <2>31
    <3>6. Owned(p)' /\ Shapes(p)' = Shapes(p) \cup {LinkRow(i, special)} /\ Denials(p)' = {}
      BY <1>1, <3>2, <3>4, <3>5, FullAppend
    <3>7. special' = (CASE special = "cwd" -> "root" [] OTHER -> "exe")
      BY <1>3 DEF StatSpecial
    <3>8. Shapes(p)' = LinkRows(i, Earlier \cup {special})
      BY <3>2, <3>6 DEF LinkRows
    <3>9. CASE special = "exe"
      <4>1. pc' = "maps" /\ Earlier \cup {special} = {"cwd", "root", "exe"}
        BY <2>4, <3>9 DEF next, Earlier
      <4>2. Shapes(p)' = Links(i)
        BY <3>8, <4>1 DEF Links
      <4>3. Links(i)' = Links(i)
        BY <1>1 DEF Links, LinkRows
      <4> QED
        BY <1>1, <3>2, <3>6, <4>1, <4>2, <4>3 DEF Progress
    <3>10. CASE special # "exe"
      <4>1. pc' = "readlink" /\ Earlier' = Earlier \cup {special}
        BY <2>4, <3>7, <3>10 DEF next, Earlier, TypeInv
      <4>2. LinkRows(i, Earlier)' = LinkRows(i, Earlier \cup {special})
        BY <1>1, <4>1 DEF LinkRows
      <4> QED
        BY <1>1, <3>2, <3>6, <3>8, <4>1, <4>2 DEF Progress
    <3> QED
      BY <3>9, <3>10
  <2> QED
    BY <2>7, <2>8
<1> QED
  BY <1>2, <1>3

\* A denial of the process visited: a row without a descriptor.
LEMMA DenialRow ==
  ASSUME TypeInv, NEW what \in {"maps", "fd"}, NEW next, NoFd(what, next), pc' # "overflow",
         NEW p \in Pids, pid \in Pids, proc'[p] = proc[p]
  PROVE  /\ pc' = next
         /\ p # pid => RowsOf(p)' = RowsOf(p)
         /\ /\ p = pid /\ Owned(p) /\ info.user = proc[p].user
            /\ info.command = IF proc[p].command = None THEN "." ELSE proc[p].command
            => /\ Owned(p)' /\ Shapes(p)' = Shapes(p)
               /\ Denials(p)' = Denials(p) \cup {Denied(what)}
<1>1. PICK t \in Leftovers :
        /\ Row(<<what, "denied">>, t, None, <<"NOFD">>) \in FileInfo
        /\ List(Row(<<what, "denied">>, t, None, <<"NOFD">>), next)
  BY NoFdStep
<1> DEFINE r == Row(<<what, "denied">>, t, None, <<"NOFD">>)
<1>2. /\ r.pid = pid /\ r.user = info.user /\ r.command = info.command
      /\ r.fd = <<"NOFD">> /\ r.name = Denied(what)
  BY DEF Row, Denied
<1>3. r \in FileInfo /\ List(r, next)
  BY <1>1
<1> HIDE DEF r
<1>4. \A q : RowsOf(q)' = RowsOf(q) \cup IF r.pid = q THEN {r} ELSE {}
  BY <1>3, RowsAppend DEF TypeInv
<1>5. pc' = next
  BY <1>3 DEF List
<1>6. CASE p # pid
  <2>1. RowsOf(p)' = RowsOf(p)
    BY <1>2, <1>4, <1>6
  <2> QED
    BY <1>5, <1>6, <2>1
<1>7. CASE /\ p = pid /\ Owned(p) /\ info.user = proc[p].user
           /\ info.command = IF proc[p].command = None THEN "." ELSE proc[p].command
  <2>1. RowsOf(p)' = RowsOf(p) \cup {r}
    BY <1>2, <1>4, <1>7
  <2>2. Owned(p)' /\ Shapes(p)' = Shapes(p) /\ Denials(p)' = Denials(p) \cup {r.name}
    BY <1>2, <1>7, <2>1, FullAppend
  <2> QED
    BY <1>2, <1>5, <1>7, <2>2
<1> QED
  BY <1>5, <1>6, <1>7

LEMMA RightMaps ==
  ASSUME TypeInv, EnoughFds, OpenInv, Kept, NEW p \in Pids \ touched, RowsRight(p),
         OpenMaps, pc' # "overflow"
  PROVE  RowsRight(p)'
<1> DEFINE i == proc[p]
<1>1. /\ UNCHANGED <<proc, touched, pids, pid, info>> /\ pc = "maps" /\ pc \in InProcess /\ pid \in Pids
  BY DEF OpenMaps, envVars, InProcess, TypeInv
<1>2. ASSUME p = pid, i # None
      PROVE  /\ Progress(p, i) /\ i \in Images /\ (Readable <=> ~i.sealed)
             /\ info.user = i.user /\ Owned(p) /\ Denials(p) = {} /\ Shapes(p) = Links(i)
             /\ info.command = IF i.command = None THEN "." ELSE i.command
             /\ Links(i)' = Links(i) /\ MapRows(i, Areas)' = MapRows(i, Areas)
  <2>1. Progress(p, i)
    BY <1>1, <1>2 DEF RowsRight
  <2>2. Links(i)' = Links(i) /\ MapRows(i, Areas)' = MapRows(i, Areas)
    BY <1>1 DEF Links, LinkRows, MapRows
  <2> QED
    BY <1>1, <1>2, <2>1, <2>2, Reads DEF Progress
<1>3. CASE Readable
  <2>1. /\ pc' = "fgets" /\ ~stale' /\ RowsOf(p)' = RowsOf(p)
        /\ lines' = <<>> /\ area' = -1 /\ lastinode' = None
    BY <1>1, <1>3, AlwaysOpens DEF OpenMaps, RowsOf
  <2>2. CASE p # pid
    BY <1>1, <2>1, <2>2, OtherRows DEF Walking, InProcess
  <2>3. CASE p = pid
    <3> SUFFICES ASSUME i # None
                 PROVE  Progress(p, i)'
      BY <1>1, <2>1, <2>3, VisitedRight DEF Walking, InProcess
    <3>1. Shapes(p)' = Shapes(p) /\ Denials(p)' = Denials(p) /\ (Owned(p)' <=> Owned(p))
      BY <1>1, <2>1, SameRows
    <3>2. {a \in Areas : a <= area'} = {}
      <4>1. \A a \in Nat : ~(a <= -1)
        OBVIOUS
      <4>2. Areas \subseteq Nat /\ area' = -1
        BY <2>1, NumberAssumption
      <4> HIDE DEF i
      <4> QED
        BY <4>1, <4>2
    <3>3. MapRows(i, {a \in Areas : a <= area})' = {}
      BY <3>2 DEF MapRows
    <3>4. DOMAIN lines' = {}
      BY <2>1
    <3> QED
      BY <1>1, <1>2, <1>3, <2>1, <2>3, <3>1, <3>3, <3>4 DEF Progress
  <2> QED
    BY <2>2, <2>3
<1>4. CASE ~Readable
  <2>1. NoFd("maps", "opendir") /\ stale' = stale
    BY <1>4 DEF OpenMaps
  <2>2. pc' = "opendir" /\ (p # pid => RowsOf(p)' = RowsOf(p))
    BY <1>1, <2>1, DenialRow
  <2>3. CASE p # pid
    BY <1>1, <2>2, <2>3, OtherRows DEF Walking, InProcess
  <2>4. CASE p = pid
    <3> SUFFICES ASSUME i # None
                 PROVE  Progress(p, i)'
      BY <1>1, <2>2, <2>4, VisitedRight DEF Walking, InProcess
    <3>1. Owned(p)' /\ Shapes(p)' = Shapes(p) /\ Denials(p)' = Denials(p) \cup {Denied("maps")}
      BY <1>1, <1>2, <2>1, <2>4, DenialRow
    <3>2. i.sealed /\ ~stale
      BY <1>1, <1>2, <1>4, <2>4 DEF Progress
    <3> QED
      BY <1>1, <1>2, <2>1, <2>2, <2>4, <3>1, <3>2 DEF Progress
  <2> QED
    BY <2>3, <2>4
<1> QED
  BY <1>3, <1>4

LEMMA RightReadMaps ==
  ASSUME TypeInv, NEW p \in Pids \ touched, RowsRight(p), ReadMaps
  PROVE  RowsRight(p)'
<1> DEFINE i == proc[p]
           more == {a \in Areas : a > area}
<1>1. /\ UNCHANGED <<proc, touched, pids, pid, info, stale, area, lastinode>> /\ pc = "fgets"
      /\ DOMAIN lines = {} /\ RowsOf(p)' = RowsOf(p) /\ pc' \in {"fgets", "opendir"} /\ pid \in Pids
  BY DEF ReadMaps, envVars, RowsOf, InProcess, TypeInv
<1>2. CASE p # pid
  BY <1>1, <1>2, OtherRows DEF Walking, InProcess
<1>3. CASE p = pid
  <2> SUFFICES ASSUME i # None
               PROVE  Progress(p, i)'
    BY <1>1, <1>3, VisitedRight DEF Walking, InProcess
  <2>1. Progress(p, i) /\ i \in Images
    BY <1>1, <1>3, Reads DEF RowsRight, InProcess
  <2>2. /\ ~stale /\ ~i.sealed /\ Owned(p) /\ Denials(p) = {}
        /\ Shapes(p) = Links(i) \cup MapRows(i, {a \in Areas : a <= area})
        /\ lastinode = None \/ MapRow(lastinode) \in Shapes(p)
        /\ info.user = i.user /\ info.command = IF i.command = None THEN "." ELSE i.command
    BY <1>1, <2>1 DEF Progress
  <2>3. Shapes(p)' = Shapes(p) /\ Denials(p)' = Denials(p) /\ (Owned(p)' <=> Owned(p))
    BY <1>1, SameRows
  <2>4. more \in SUBSET Nat /\ IsFiniteSet(more)
    BY FiniteParts
  <2>5. Buffered(more) \subseteq more /\ \A a \in more : a \in Buffered(more) \/ \A b \in Buffered(more) : b < a
    BY <2>4, BufferedIs
  <2>6. \/ lines' = [a \in Buffered(more) |-> proc[pid].maps[a]] /\ pc' = "fgets"
        \/ more = {} /\ pc' = "opendir"
    BY <1>1, <1>3, <2>2 DEF ReadMaps
  <2>7. CASE lines' = [a \in Buffered(more) |-> proc[pid].maps[a]] /\ pc' = "fgets"
    <3>1. DOMAIN lines' = Buffered(more) /\ \A a \in DOMAIN lines' : lines'[a] = i.maps[a]
      BY <1>3, <2>7
    <3>2. \A a \in Areas : a > area' => a \in DOMAIN lines' \/ \A b \in DOMAIN lines' : b < a
      BY <1>1, <2>5, <3>1
    <3>3. /\ Links(i)' = Links(i) /\ MapRow(lastinode)' = MapRow(lastinode)
          /\ MapRows(i, {a \in Areas : a <= area})' = MapRows(i, {a \in Areas : a <= area})
      BY <1>1 DEF Links, LinkRows, MapRows, MapRow
    <3> QED
      BY <1>1, <2>2, <2>3, <2>7, <3>1, <3>2, <3>3 DEF Progress
  <2>8. CASE more = {} /\ pc' = "opendir"
    <3>1. {a \in Areas : a <= area} = Areas
      <4>1. area \in Int /\ Areas \subseteq Int
        BY NumberAssumption DEF TypeInv
      <4>2. \A a \in Areas : ~(a > area)
        BY <2>8
      <4>3. \A a \in Areas : a <= area
        BY <4>1, <4>2
      <4> HIDE DEF i, more
      <4> QED
        BY <4>3
    <3>2. Shapes(p)' = Links(i) \cup MapRows(i, Areas)
      BY <2>2, <2>3, <3>1
    <3>3. Links(i)' = Links(i) /\ MapRows(i, Areas)' = MapRows(i, Areas)
      BY <1>1 DEF Links, LinkRows, MapRows
    <3> QED
      BY <1>1, <2>2, <2>3, <2>8, <3>2, <3>3 DEF Progress
  <2> QED
    BY <2>6, <2>7, <2>8
<1> QED
  BY <1>2, <1>3

\* The mappings up to the one just taken: nothing lies between it and the last.
LEMMA MapRowsOf ==
  ASSUME NEW i, NEW a \in Areas, NEW b \in Areas \cup {-1},
         b < a, \A c \in Areas : b < c => a <= c
  PROVE  MapRows(i, {c \in Areas : c <= a}) =
           MapRows(i, {c \in Areas : c <= b}) \cup IF i.maps[a] = None THEN {} ELSE {MapRow(i.maps[a])}
<1> DEFINE S == {d \in {c \in Areas : c <= a} : i.maps[d] # None}
           T == {d \in {c \in Areas : c <= b} : i.maps[d] # None}
<1>1. \A c \in Areas : c <= a <=> c <= b \/ c = a
  <2>1. Areas \subseteq Int /\ a \in Int /\ b \in Int
    BY NumberAssumption
  <2> QED
    BY <2>1
<1>2. S = T \cup IF i.maps[a] = None THEN {} ELSE {a}
  BY <1>1
<1>3. MapRows(i, {c \in Areas : c <= a}) = {MapRow(i.maps[c]) : c \in S}
      /\ MapRows(i, {c \in Areas : c <= b}) = {MapRow(i.maps[c]) : c \in T}
  BY DEF MapRows
<1> HIDE DEF S, T
<1> QED
  BY <1>2, <1>3

LEMMA RightMapping ==
  ASSUME TypeInv, NEW p \in Pids \ touched, RowsRight(p), ListMapping, pc' # "overflow"
  PROVE  RowsRight(p)'
<1> DEFINE i == proc[p]
           f == lines[area']
<1>1. /\ UNCHANGED <<proc, touched, pids, pid, info, stale>> /\ pc = "fgets" /\ pid \in Pids
      /\ pc' = "fgets" /\ area' = Least(DOMAIN lines)
      /\ lines' = [a \in DOMAIN lines \ {area'} |-> lines[a]]
  BY DEF ListMapping, List, envVars, InProcess, TypeInv
<1>2. /\ area' \in DOMAIN lines /\ area' \in Areas /\ area' > area /\ \A a \in DOMAIN lines : area' <= a
  <2>1. DOMAIN lines \in SUBSET Nat /\ DOMAIN lines # {}
    BY FiniteParts DEF ListMapping, TypeInv
  <2> QED
    BY <1>1, <2>1, LeastIs DEF TypeInv
<1>3. f \in Files \cup {None} /\ area \in Areas \cup {-1}
  BY <1>2 DEF TypeInv
<1>4. DOMAIN lines' = DOMAIN lines \ {area'} /\ \A a \in DOMAIN lines' : lines'[a] = lines[a]
  BY <1>1
<1>5. ASSUME p = pid, i # None
      PROVE  /\ i \in Images /\ ~i.sealed /\ ~stale
             /\ info.user = i.user /\ Owned(p) /\ Denials(p) = {}
             /\ Shapes(p) = Links(i) \cup MapRows(i, {a \in Areas : a <= area})
             /\ lastinode = None \/ MapRow(lastinode) \in Shapes(p)
             /\ \A a \in DOMAIN lines : lines[a] = i.maps[a]
             /\ \A a \in Areas : a > area => a \in DOMAIN lines \/ \A b \in DOMAIN lines : b < a
             /\ info.command = IF i.command = None THEN "." ELSE i.command
  <2>1. Progress(p, i)
    BY <1>1, <1>5 DEF RowsRight, InProcess
  <2> QED
    BY <1>1, <1>5, <2>1, Reads DEF Progress
<1>6. ASSUME p = pid, i # None
      PROVE  /\ f = i.maps[area']
             /\ MapRows(i, {a \in Areas : a <= area'}) =
                  MapRows(i, {a \in Areas : a <= area}) \cup IF f = None THEN {} ELSE {MapRow(f)}
             /\ \A a \in DOMAIN lines' : lines'[a] = i.maps[a]
             /\ \A a \in Areas : a > area' => a \in DOMAIN lines' \/ \A b \in DOMAIN lines' : b < a
             /\ Links(i)' = Links(i)
             /\ MapRows(i, {a \in Areas : a <= area})' = MapRows(i, {a \in Areas : a <= area'})
  <2>1. Areas \subseteq Int /\ area \in Int /\ area' \in Int
    BY <1>2, <1>3, NumberAssumption
  <2>2. f = i.maps[area']
    BY <1>2, <1>5, <1>6
  <2>3. \A c \in Areas : area < c => area' <= c
    BY <1>2, <1>5, <1>6, <2>1
  <2>4. MapRows(i, {a \in Areas : a <= area'}) =
          MapRows(i, {a \in Areas : a <= area}) \cup IF f = None THEN {} ELSE {MapRow(f)}
    <3> HIDE DEF i
    <3> QED
      BY <1>2, <1>3, <2>1, <2>2, <2>3, MapRowsOf
  <2>5. \A a \in DOMAIN lines' : lines'[a] = i.maps[a]
    BY <1>4, <1>5, <1>6
  <2>6. \A a \in Areas : a > area' => a \in DOMAIN lines' \/ \A b \in DOMAIN lines' : b < a
    <3>1. \A a \in Areas : a > area' => a > area /\ a # area'
      BY <1>2, <2>1
    <3> QED
      BY <1>4, <1>5, <1>6, <3>1
  <2>7. Links(i)' = Links(i)
        /\ MapRows(i, {a \in Areas : a <= area})' = MapRows(i, {a \in Areas : a <= area'})
    BY <1>1 DEF Links, LinkRows, MapRows
  <2> QED
    BY <2>2, <2>4, <2>5, <2>6, <2>7
<1>7. CASE ~Listable(f)
  <2>1. RowsOf(p)' = RowsOf(p) /\ lastinode' = lastinode
    BY <1>7 DEF ListMapping, RowsOf
  <2>2. CASE p # pid
    BY <1>1, <2>1, <2>2, OtherRows DEF Walking, InProcess
  <2>3. CASE p = pid
    <3> SUFFICES ASSUME i # None
                 PROVE  Progress(p, i)'
      BY <1>1, <2>1, <2>3, VisitedRight DEF Walking, InProcess
    <3>1. Shapes(p)' = Shapes(p) /\ Denials(p)' = Denials(p) /\ (Owned(p)' <=> Owned(p))
      BY <1>1, <2>1, SameRows
    <3>2. f = None \/ MapRow(f) \in Shapes(p)
      BY <1>5, <1>7, <2>3 DEF Listable
    <3>3. Shapes(p)' = Links(i) \cup MapRows(i, {a \in Areas : a <= area'})
      <4> HIDE DEF i, f
      <4> QED
        BY <1>5, <1>6, <2>3, <3>1, <3>2
    <3>4. MapRow(lastinode)' = MapRow(lastinode)
      BY <2>1 DEF MapRow
    <3> QED
      BY <1>1, <1>5, <1>6, <2>1, <2>3, <3>1, <3>3, <3>4 DEF Progress
  <2> QED
    BY <2>2, <2>3
<1>8. CASE Listable(f)
  <2> DEFINE r == Row(strremove(f), "REG", f, MapColumn(f))
  <2>1. List(r, "fgets") /\ lastinode' = f
    BY <1>8 DEF ListMapping
  <2>2. f \in Files /\ MapColumn(f) \in {<<c>> : c \in {"mem", "DEL"}} /\ strremove(f) \in Name
    BY <1>3, <1>8 DEF Listable, MapColumn, strremove, Name
  <2>3. r \in FileInfo
    BY <1>1, <2>2, RowType DEF Types
  <2>4. /\ r.pid = pid /\ r.user = info.user /\ r.command = info.command
        /\ r.fd = MapColumn(f) /\ r.fd # <<"NOFD">>
    BY <2>2 DEF Row
  <2>5. Shape(r) = MapRow(f)
    <3>1. Shape(r) = <<MapColumn(f), "REG", strremove(f),
                      IF "REG" # "unknown" /\ MapColumn(f) # <<"NOFD">> THEN f ELSE "">>
      BY RowShape
    <3>2. MapColumn(f) # <<"NOFD">>
      BY <2>2
    <3> QED
      BY <3>1, <3>2 DEF MapRow
  <2> HIDE DEF r
  <2>7. \A q : RowsOf(q)' = RowsOf(q) \cup IF r.pid = q THEN {r} ELSE {}
    BY <1>1, <2>1, <2>3, RowsAppend DEF TypeInv
  <2>8. CASE p # pid
    <3>1. RowsOf(p)' = RowsOf(p)
      BY <2>4, <2>7, <2>8
    <3> QED
      BY <1>1, <2>8, <3>1, OtherRows DEF Walking, InProcess
  <2>9. CASE p = pid
    <3> SUFFICES ASSUME i # None
                 PROVE  Progress(p, i)'
      BY <1>1, <2>9, VisitedRight DEF Walking, InProcess
    <3>1. RowsOf(p)' = RowsOf(p) \cup {r}
      BY <2>4, <2>7, <2>9
    <3>2. Owned(p)' /\ Shapes(p)' = Shapes(p) \cup {MapRow(f)} /\ Denials(p)' = {}
      <4>1. proc'[p] = proc[p] /\ Owned(p) /\ Denials(p) = {}
        BY <1>1, <1>5, <2>9
      <4>2. r.user = proc[p].user /\ r.command = IF proc[p].command = None THEN "." ELSE proc[p].command
        BY <1>5, <2>4, <2>9
      <4> QED
        BY <2>4, <2>5, <3>1, <4>1, <4>2, FullAppend
    <3>3. f # None
      BY <1>8 DEF Listable
    <3>4. Shapes(p)' = Links(i) \cup MapRows(i, {a \in Areas : a <= area'})
      <4> HIDE DEF i, f
      <4> QED
        BY <1>5, <1>6, <2>9, <3>2, <3>3
    <3>5. MapRow(lastinode)' = MapRow(f)
      BY <2>1 DEF MapRow
    <3> QED
      BY <1>1, <1>5, <1>6, <2>9, <3>2, <3>4, <3>5 DEF Progress
  <2> QED
    BY <2>8, <2>9
<1> QED
  BY <1>7, <1>8

LEMMA RightOpenFds ==
  ASSUME TypeInv, EnoughFds, OpenInv, Kept, NEW p \in Pids \ touched, RowsRight(p), OpenFds,
         pc' # "overflow"
  PROVE  RowsRight(p)'
<1> DEFINE i == proc[p]
<1>1. /\ UNCHANGED <<proc, touched, pids, pid, info>> /\ pc = "opendir" /\ pid \in Pids
      /\ pc \in InProcess
  BY DEF OpenFds, envVars, InProcess, TypeInv
<1>2. ASSUME p = pid, i # None
      PROVE  /\ Progress(p, i) /\ i \in Images /\ (Readable <=> ~i.sealed) /\ ~stale
             /\ info.user = i.user /\ Owned(p)
             /\ Denials(p) = IF i.sealed THEN {Denied("maps")} ELSE {}
             /\ Shapes(p) = Links(i) \cup IF i.sealed THEN {} ELSE MapRows(i, Areas)
             /\ info.command = IF i.command = None THEN "." ELSE i.command
             /\ Links(i)' = Links(i) /\ MapRows(i, Areas)' = MapRows(i, Areas)
  <2>1. Progress(p, i)
    BY <1>1, <1>2 DEF RowsRight
  <2>2. Links(i)' = Links(i) /\ MapRows(i, Areas)' = MapRows(i, Areas)
    BY <1>1 DEF Links, LinkRows, MapRows
  <2>3. ~i.sealed \/ i.sealed
    OBVIOUS
  <2> QED
    BY <1>1, <1>2, <2>1, <2>2, Reads DEF Progress
<1>3. CASE Readable
  <2>1. pc' = "readdir" /\ ~stale' /\ RowsOf(p)' = RowsOf(p) /\ fds' = {} /\ fd' = -1
    BY <1>1, <1>3, AlwaysOpens DEF OpenFds, RowsOf
  <2>2. CASE p # pid
    BY <1>1, <2>1, <2>2, OtherRows DEF Walking, InProcess
  <2>3. CASE p = pid
    <3> SUFFICES ASSUME i # None
                 PROVE  Progress(p, i)'
      BY <1>1, <2>1, <2>3, VisitedRight DEF Walking, InProcess
    <3>1. Shapes(p)' = Shapes(p) /\ Denials(p)' = Denials(p) /\ (Owned(p)' <=> Owned(p))
      BY <1>1, <2>1, SameRows
    <3>2. {n \in Fds : n <= fd'} = {}
      <4>1. \A n \in Nat : ~(n <= -1)
        OBVIOUS
      <4>2. Fds \subseteq Nat /\ fd' = -1
        BY <2>1, NumberAssumption
      <4> HIDE DEF i
      <4> QED
        BY <4>1, <4>2
    <3>3. FdRows(i, {n \in Fds : n <= fd})' = {}
      BY <3>2 DEF FdRows
    <3>4. ~i.sealed
      BY <1>2, <1>3, <2>3
    <3>5. \A n \in Fds : n > fd' => \A m \in fds' : m < n
      BY <2>1
    <3> QED
      BY <1>1, <1>2, <2>1, <2>3, <3>1, <3>3, <3>4, <3>5 DEF Progress
  <2> QED
    BY <2>2, <2>3
<1>4. CASE ~Readable
  <2>1. NoFd("fd", "walk") /\ stale' = stale
    BY <1>4 DEF OpenFds
  <2>2. pc' = "walk" /\ (p # pid => RowsOf(p)' = RowsOf(p))
    BY <1>1, <2>1, DenialRow
  <2>3. CASE p # pid
    BY <1>1, <2>2, <2>3, OtherRows DEF Walking, InProcess
  <2>4. CASE p = pid
    <3> SUFFICES ASSUME i # None
                 PROVE  Complete(p)'
      BY <1>1, <2>2, <2>4, VisitedRight DEF Walking, InProcess
    <3>1. Owned(p)' /\ Shapes(p)' = Shapes(p) /\ Denials(p)' = Denials(p) \cup {Denied("fd")}
      BY <1>1, <1>2, <2>1, <2>4, DenialRow
    <3>2. i.sealed
      BY <1>2, <1>4, <2>4
    <3>3. Shapes(p)' = CodeRows(i)
      BY <1>2, <2>4, <3>1, <3>2 DEF CodeRows
    <3>4. Denials(p)' = NoFdRows(i)
      BY <1>2, <2>4, <3>1, <3>2 DEF NoFdRows
    <3> QED
      BY <1>1, <3>1, <3>3, <3>4 DEF Complete
  <2> QED
    BY <2>3, <2>4
<1> QED
  BY <1>3, <1>4

\* The descriptors up to the one looked at.
LEMMA FdRowsOf ==
  ASSUME NEW i, NEW k \in Fds
  PROVE  FdRows(i, {n \in Fds : n <= k}) =
           FdRows(i, {n \in Fds : n < k}) \cup IF Shown(i, k) THEN {FdRow(i, k)} ELSE {}
<1> DEFINE S == {m \in {n \in Fds : n <= k} : Shown(i, m)}
           T == {m \in {n \in Fds : n < k} : Shown(i, m)}
<1>1. \A n \in Fds : n <= k <=> n < k \/ n = k
  BY NumberAssumption
<1>2. S = T \cup IF Shown(i, k) THEN {k} ELSE {}
  BY <1>1
<1>3. FdRows(i, {n \in Fds : n <= k}) = {FdRow(i, n) : n \in S}
      /\ FdRows(i, {n \in Fds : n < k}) = {FdRow(i, n) : n \in T}
  BY DEF FdRows
<1> HIDE DEF S, T
<1> QED
  BY <1>2, <1>3

LEMMA RightReadFds ==
  ASSUME TypeInv, NEW p \in Pids \ touched, RowsRight(p), ReadFds
  PROVE  RowsRight(p)'
<1> DEFINE i == proc[p]
           more == {n \in Fds : n > fd /\ proc[pid].fds[n] # None}
<1>1. /\ UNCHANGED <<proc, touched, pids, pid, info, stale, fd>> /\ pc = "readdir" /\ fds = {}
      /\ RowsOf(p)' = RowsOf(p) /\ pc' \in {"readdir", "walk"} /\ pid \in Pids
  BY DEF ReadFds, envVars, RowsOf, InProcess, TypeInv
<1>2. CASE p # pid
  BY <1>1, <1>2, OtherRows DEF Walking, InProcess
<1>3. CASE p = pid
  <2> SUFFICES ASSUME i # None
               PROVE  IF pc' = "walk" THEN Complete(p)' ELSE Progress(p, i)'
    BY <1>1, <1>3, VisitedRight DEF Walking, InProcess
  <2>1. Progress(p, i) /\ i \in Images
    BY <1>1, <1>3, Reads DEF RowsRight, InProcess
  <2>2. /\ ~stale /\ ~i.sealed /\ Owned(p) /\ Denials(p) = {}
        /\ Shapes(p) = Links(i) \cup MapRows(i, Areas) \cup FdRows(i, {n \in Fds : n <= fd})
        /\ info.user = i.user /\ info.command = IF i.command = None THEN "." ELSE i.command
    BY <1>1, <2>1 DEF Progress
  <2>3. Shapes(p)' = Shapes(p) /\ Denials(p)' = Denials(p) /\ (Owned(p)' <=> Owned(p))
    BY <1>1, SameRows
  <2>4. more \in SUBSET Nat /\ IsFiniteSet(more)
    BY FiniteParts
  <2>5. Buffered(more) \subseteq more /\ \A n \in more : n \in Buffered(more) \/ \A m \in Buffered(more) : m < n
    BY <2>4, BufferedIs
  <2>6. \/ more # {} /\ fds' = Buffered(more) /\ pc' = "readdir"
        \/ more = {} /\ pc' = "walk"
    BY <1>1, <2>2 DEF ReadFds
  <2>7. CASE fds' = Buffered(more) /\ pc' = "readdir"
    <3>1. \A n \in fds' : i.fds[n] # None
      BY <1>3, <2>5, <2>7
    <3>2. \A n \in Fds : i.fds[n] # None /\ n > fd' => n \in fds' \/ \A m \in fds' : m < n
      BY <1>1, <1>3, <2>5, <2>7
    <3>3. /\ Links(i)' = Links(i) /\ MapRows(i, Areas)' = MapRows(i, Areas)
          /\ FdRows(i, {n \in Fds : n <= fd})' = FdRows(i, {n \in Fds : n <= fd})
      BY <1>1 DEF Links, LinkRows, MapRows, FdRows
    <3> QED
      BY <1>1, <2>2, <2>3, <2>7, <3>1, <3>2, <3>3 DEF Progress
  <2>8. CASE more = {} /\ pc' = "walk"
    <3>1. \A n \in Fds : i.fds[n] # None => n <= fd
      <4>1. fd \in Int /\ Fds \subseteq Int
        BY NumberAssumption DEF TypeInv
      <4>2. \A n \in Fds : ~(n > fd /\ i.fds[n] # None)
        BY <1>3, <2>8
      <4> QED
        BY <4>1, <4>2
    <3>2. {m \in {n \in Fds : n <= fd} : Shown(i, m)} = {m \in Fds : Shown(i, m)}
      BY <3>1 DEF Shown
    <3>3. FdRows(i, {n \in Fds : n <= fd}) = FdRows(i, Fds)
      BY <3>2 DEF FdRows
    <3>4. Shapes(p)' = CodeRows(i) /\ Denials(p)' = NoFdRows(i)
      BY <2>1, <2>2, <2>3, <3>3 DEF CodeRows, NoFdRows
    <3> QED
      BY <1>1, <2>2, <2>3, <2>8, <3>4 DEF Complete
  <2> QED
    BY <2>6, <2>7, <2>8
<1> QED
  BY <1>2, <1>3

LEMMA RightStatFd ==
  ASSUME TypeInv, NEW p \in Pids \ touched, RowsRight(p), StatFd
  PROVE  RowsRight(p)'
<1> DEFINE i == proc[p]
           f == FdTarget(fd')
<1>1. /\ UNCHANGED <<proc, touched, pids, pid, info, stale>> /\ pc = "readdir"
      /\ RowsOf(p)' = RowsOf(p) /\ pc' \in {"readdir", "fdlink"} /\ pid \in Pids
      /\ fds # {} /\ fds \in SUBSET Nat /\ fd' = Least(fds) /\ fds' = fds \ {fd'}
  <2>1. UNCHANGED <<proc, touched, pids, pid, info, stale, ansarr>> /\ pc = "readdir"
    BY DEF StatFd, envVars
  <2>2. RowsOf(p)' = RowsOf(p)
    BY <2>1 DEF RowsOf
  <2>3. pid \in Pids /\ fds \subseteq Fds
    BY <2>1 DEF TypeInv, InProcess
  <2>4. fds \in SUBSET Nat
    BY <2>3, NumberAssumption
  <2>5. fds # {} /\ fd' = Least(fds) /\ fds' = fds \ {fd'}
    BY DEF StatFd
  <2>6. pc' \in {"readdir", "fdlink"}
    BY <2>1 DEF StatFd
  <2> QED
    BY <2>1, <2>2, <2>3, <2>4, <2>5, <2>6
<1>2. fd' \in fds /\ fd' \in Fds /\ fd' > fd /\ \A n \in fds : fd' <= n
  BY <1>1, LeastIs DEF TypeInv
<1>3. CASE p # pid
  BY <1>1, <1>3, OtherRows DEF Walking, InProcess
<1>4. CASE p = pid
  <2> SUFFICES ASSUME i # None
               PROVE  Progress(p, i)'
    BY <1>1, <1>4, VisitedRight DEF Walking, InProcess
  <2>1. Progress(p, i) /\ i \in Images
    BY <1>1, <1>4, Reads DEF RowsRight, InProcess
  <2>2. /\ ~stale /\ ~i.sealed /\ Owned(p) /\ Denials(p) = {}
        /\ Shapes(p) = Links(i) \cup MapRows(i, Areas) \cup FdRows(i, {n \in Fds : n <= fd})
        /\ info.user = i.user /\ info.command = IF i.command = None THEN "." ELSE i.command
        /\ \A n \in fds : i.fds[n] # None
        /\ \A n \in Fds : i.fds[n] # None /\ n > fd => n \in fds \/ \A m \in fds : m < n
    BY <1>1, <2>1 DEF Progress
  <2>3. Shapes(p)' = Shapes(p) /\ Denials(p)' = Denials(p) /\ (Owned(p)' <=> Owned(p))
    BY <1>1, SameRows
  <2>4. f = i.fds[fd'] /\ f # None
    BY <1>1, <1>2, <1>4, <2>2, Reads
  <2>5. \A n \in Fds : Shown(i, n) => (n <= fd <=> n < fd')
    <3> SUFFICES ASSUME NEW n \in Fds, i.fds[n] # None
                 PROVE  n <= fd <=> n < fd'
      BY DEF Shown
    <3>1. n \in Int /\ fd \in Int /\ fd' \in Int
      BY <1>2, NumberAssumption DEF TypeInv
    <3>2. n > fd => ~(n < fd')
      <4>1. n \in fds => fd' <= n
        BY <1>2
      <4>2. n > fd /\ n \notin fds => fd' < n
        BY <1>2, <2>2
      <4> QED
        BY <3>1, <4>1, <4>2
    <3> QED
      BY <1>2, <3>1, <3>2
  <2>6. {m \in {n \in Fds : n <= fd} : Shown(i, m)} = {m \in {n \in Fds : n < fd'} : Shown(i, m)}
    BY <2>5
  <2>7. FdRows(i, {n \in Fds : n <= fd}) = FdRows(i, {n \in Fds : n < fd'})
    BY <2>6 DEF FdRows
  <2>8. /\ \A n \in fds' : i.fds[n] # None
        /\ \A n \in Fds : i.fds[n] # None /\ n > fd' => n \in fds' \/ \A m \in fds' : m < n
    <3>1. \A n \in Fds : n > fd' => n > fd /\ n # fd'
      <4>1. fd \in Int /\ fd' \in Int /\ Fds \subseteq Int
        BY <1>2, NumberAssumption DEF TypeInv
      <4> QED
        BY <1>2, <4>1
    <3> QED
      BY <1>1, <2>2, <3>1
  <2>9. Links(i)' = Links(i) /\ MapRows(i, Areas)' = MapRows(i, Areas)
    BY <1>1 DEF Links, LinkRows, MapRows
  <2>10. CASE Perms[f] = {}
    <3>1. pc' = "readdir"
      BY <1>1, <2>10 DEF StatFd
    <3>2. ~Shown(i, fd')
      BY <2>4, <2>10 DEF Shown
    <3>3. FdRows(i, {n \in Fds : n <= fd'}) = FdRows(i, {n \in Fds : n < fd'})
      BY <1>2, <3>2, FdRowsOf
    <3>4. FdRows(i, {n \in Fds : n <= fd})' = FdRows(i, {n \in Fds : n <= fd'})
      BY <1>1 DEF FdRows
    <3> QED
      BY <1>1, <2>2, <2>3, <2>7, <2>8, <2>9, <3>1, <3>3, <3>4 DEF Progress
  <2>11. CASE Perms[f] # {}
    <3>1. pc' = "fdlink" /\ row' = Row(None, Kind(f), f, <<fd', FdMode(f)>>)
      BY <2>4, <2>11 DEF StatFd
    <3>2. Shown(i, fd')
      BY <2>4, <2>11 DEF Shown
    <3>3. FdRows(i, {n \in Fds : n < fd})' = FdRows(i, {n \in Fds : n < fd'})
      BY <1>1 DEF FdRows
    <3>4. row' = Row(None, Kind(i.fds[fd]), i.fds[fd], <<fd, FdMode(i.fds[fd])>>)'
      BY <1>1, <2>4, <3>1 DEF Row
    <3>5. Shown(i, fd)'
      BY <1>1, <3>2 DEF Shown
    <3> QED
      BY <1>1, <2>2, <2>3, <2>7, <2>8, <2>9, <3>1, <3>3, <3>4, <3>5 DEF Progress
  <2> QED
    BY <2>10, <2>11
<1> QED
  BY <1>3, <1>4

LEMMA RightFdLink ==
  ASSUME TypeInv, NEW p \in Pids \ touched, RowsRight(p), ReadFdLink, pc' # "overflow"
  PROVE  RowsRight(p)'
<1> DEFINE i == proc[p]
           name == IF FdTarget(fd) # None THEN Link(FdTarget(fd)) ELSE <<"fd", "denied">>
<1>1. /\ UNCHANGED <<proc, touched, pids, pid, info, stale, fds, fd>> /\ pc = "fdlink"
      /\ row' = [row EXCEPT !.name = name] /\ List(row', "readdir") /\ pid \in Pids
      /\ pc' = "readdir"
  BY DEF ReadFdLink, List, envVars, InProcess, TypeInv
<1>2. PICK f \in Files : /\ Perms[f] # {} /\ fd \in Fds
                         /\ row = Row(None, Kind(f), f, <<fd, FdMode(f)>>)
  BY <1>1 DEF FdInHand, TypeInv
<1>3. row' = Row(name, Kind(f), f, <<fd, FdMode(f)>>)
  BY <1>1, <1>2 DEF Row
<1>4. name \in Name
  BY <1>2, TargetType, KindType DEF Name, Refusals
<1> HIDE DEF name
<1>5. row' \in FileInfo
  BY <1>1, <1>2, <1>3, <1>4, KindType, RowType
<1>6. row'.pid = pid /\ row'.user = info.user /\ row'.command = info.command
      /\ row'.fd = <<fd, FdMode(f)>>
  BY <1>3 DEF Row
<1>7. \A q : RowsOf(q)' = RowsOf(q) \cup IF pid = q THEN {row'} ELSE {}
  BY <1>1, <1>5, <1>6, RowsAppend DEF TypeInv
<1>10. \A x, dsc : Shape(Row(x, Kind(f), f, dsc)) =
                <<dsc, Kind(f), x, IF Kind(f) # "unknown" /\ dsc # <<"NOFD">> THEN f ELSE "">>
  BY RowShape
<1>8. CASE p # pid
  <2>1. RowsOf(p)' = RowsOf(p)
    BY <1>7, <1>8
  <2> QED
    BY <1>1, <1>8, <2>1, OtherRows DEF Walking, InProcess
<1>9. CASE p = pid
  <2> SUFFICES ASSUME i # None
               PROVE  Progress(p, i)'
    BY <1>1, <1>9, VisitedRight DEF Walking, InProcess
  <2>1. Progress(p, i) /\ i \in Images
    BY <1>1, <1>9, Reads DEF RowsRight, InProcess
  <2>2. /\ ~stale /\ ~i.sealed /\ Owned(p) /\ Denials(p) = {}
        /\ Shapes(p) = Links(i) \cup MapRows(i, Areas) \cup FdRows(i, {n \in Fds : n < fd})
        /\ info.user = i.user /\ info.command = IF i.command = None THEN "." ELSE i.command
        /\ \A n \in fds : i.fds[n] # None
        /\ \A n \in Fds : i.fds[n] # None /\ n > fd => n \in fds \/ \A m \in fds : m < n
        /\ Shown(i, fd) /\ row = Row(None, Kind(i.fds[fd]), i.fds[fd], <<fd, FdMode(i.fds[fd])>>)
    BY <1>1, <2>1 DEF Progress
  <2>3. f = i.fds[fd] /\ name = Link(f)
    <3>1. f = i.fds[fd]
      BY <1>2, <2>2 DEF Row
    <3>2. FdTarget(fd) = i.fds[fd]
      BY <1>1, <1>9, <2>2, Reads
    <3> QED
      BY <3>1, <3>2, KindType DEF name
  <2>4. row'.fd # <<"NOFD">>
    BY <1>6
  <2>5. Shape(row') = FdRow(i, fd)
    <3> DEFINE dsc == <<fd, FdMode(f)>>
    <3>1. row' = Row(Link(f), Kind(f), f, dsc) /\ dsc # <<"NOFD">>
      BY <1>3, <1>6, <2>3, <2>4
    <3>2. FdRow(i, fd) = IF Kind(f) = "unknown" THEN <<dsc, "unknown", Link(f), "">>
                         ELSE <<dsc, Kind(f), Link(f), f>>
      BY <2>3 DEF FdRow, CodeRow
    <3> HIDE DEF dsc
    <3>3. Shape(row') = <<dsc, Kind(f), Link(f), IF Kind(f) # "unknown" THEN f ELSE "">>
      BY <1>10, <3>1
    <3> QED
      BY <3>2, <3>3
  <2>6. Owned(p)' /\ Shapes(p)' = Shapes(p) \cup {FdRow(i, fd)} /\ Denials(p)' = {}
    <3>1. RowsOf(p)' = RowsOf(p) \cup {row'}
      BY <1>7, <1>9
    <3>2. /\ row'.user = proc[p].user
          /\ row'.command = IF proc[p].command = None THEN "." ELSE proc[p].command
      BY <1>6, <2>2
    <3>3. proc'[p] = proc[p] /\ Owned(p) /\ Denials(p) = {}
      BY <1>1, <2>2
    <3> QED
      BY <2>4, <2>5, <3>1, <3>2, <3>3, FullAppend
  <2>7. FdRows(i, {n \in Fds : n <= fd}) = FdRows(i, {n \in Fds : n < fd}) \cup {FdRow(i, fd)}
    BY <1>2, <2>2, FdRowsOf
  <2>8. /\ Links(i)' = Links(i) /\ MapRows(i, Areas)' = MapRows(i, Areas)
        /\ FdRows(i, {n \in Fds : n <= fd})' = FdRows(i, {n \in Fds : n <= fd})
    BY <1>1 DEF Links, LinkRows, MapRows, FdRows
  <2> QED
    BY <1>1, <2>2, <2>6, <2>7, <2>8 DEF Progress
<1> QED
  BY <1>8, <1>9

----------------------------------------------------------------------------
(* The steps outside a process, and all steps together.                    *)

LEMMA RightFilters ==
  ASSUME NEW p \in Pids \ touched, RowsRight(p), FilterC \/ FilterT \/ FilterF
  PROVE  RowsRight(p)'
<1>1. /\ UNCHANGED <<proc, pids, pid, ansarr>> /\ pc \in Filters /\ pc' \in Filters \cup Ended
  BY DEF FilterC, FilterT, FilterF, envVars, walkVars, Filters, Ended
<1>2. RowsOf(p)' = RowsOf(p)
  BY <1>1 DEF RowsOf
<1>3. Complete(p)' <=> Complete(p)
  BY <1>1, <1>2, SameRows
<1>4. pc' \notin Walking \cup {"getopt", "start"} /\ pc' \notin InProcess /\ pc' # "walk"
  BY <1>1 DEF Walking, InProcess, Filters, Ended
<1>5. CASE proc[p] = None
  BY <1>1, <1>2, <1>5 DEF RowsRight
<1>6. CASE proc[p] # None
  <2>1. Complete(p)'
    BY <1>1, <1>3, <1>6 DEF RowsRight
  <2> QED
    BY <1>1, <1>4, <1>6, <2>1 DEF RowsRight
<1> QED
  BY <1>5, <1>6

LEMMA RightGetOpt ==
  ASSUME TypeInv, NEW p \in Pids \ touched, RowsRight(p), GetOpt
  PROVE  RowsRight(p)'
<1>1. /\ UNCHANGED <<proc, pids, pid, ansarr>> /\ pc = "getopt" /\ pc' \in {"start", "invalid"}
      /\ pid = 0 /\ pids = {}
  BY DEF GetOpt, envVars, walkVars, TypeInv
<1>2. RowsOf(p)' = RowsOf(p)
  BY <1>1 DEF RowsOf
<1>3. ~(p < pid) /\ p # pid
  BY <1>1, NumberAssumption
<1> QED
  BY <1>1, <1>2, <1>3 DEF RowsRight, Walking, InProcess, Filters, Ended

\* What the program knows of a process stays right while only others change.
LEMMA StillRight ==
  ASSUME NEW p \in Pids \ touched, RowsRight(p), proc'[p] = proc[p],
         UNCHANGED <<pc, walkVars, ansarr>>, p = pid => stale' = stale
  PROVE  RowsRight(p)'
<1> DEFINE i == proc[p]
<1>1. UNCHANGED <<pc, pids, pid, info, special, lines, area, lastinode, fds, fd, row, ansarr>>
  BY DEF walkVars
<1>2. RowsOf(p)' = RowsOf(p)
  BY <1>1 DEF RowsOf
<1>3. Shapes(p)' = Shapes(p) /\ Denials(p)' = Denials(p) /\ (Owned(p)' <=> Owned(p))
      /\ (Complete(p)' <=> Complete(p))
  BY <1>2, SameRows
<1>4. ASSUME p = pid, Progress(p, i)
      PROVE  Progress(p, i)'
  <2>1. /\ LinkRows(i, Earlier)' = LinkRows(i, Earlier)
        /\ Links(i)' = Links(i) /\ MapRows(i, Areas)' = MapRows(i, Areas)
        /\ MapRows(i, {a \in Areas : a <= area})' = MapRows(i, {a \in Areas : a <= area})
        /\ MapRow(lastinode)' = MapRow(lastinode)
    BY <1>1 DEF LinkRows, Links, Earlier, MapRows, MapRow
  <2>2. /\ FdRows(i, {n \in Fds : n <= fd})' = FdRows(i, {n \in Fds : n <= fd})
        /\ FdRows(i, {n \in Fds : n < fd})' = FdRows(i, {n \in Fds : n < fd})
    BY <1>1 DEF FdRows
  <2>3. Row(None, Kind(i.fds[fd]), i.fds[fd], <<fd, FdMode(i.fds[fd])>>)'
          = Row(None, Kind(i.fds[fd]), i.fds[fd], <<fd, FdMode(i.fds[fd])>>)
    BY <1>1 DEF Row
  <2>4. Shown(i, fd) => Shown(i, fd)'
    BY <1>1 DEF Shown
  <2>5. i' = i /\ stale' = stale
    BY <1>4
  <2> HIDE DEF i
  <2>6. CASE pc \in {"cmdline", "read", "readlink", "stat"}
    BY <1>1, <1>2, <1>3, <1>4, <2>1, <2>5, <2>6 DEF Progress
  <2>7. CASE pc \in {"maps", "fgets", "opendir"}
    BY <1>1, <1>2, <1>3, <1>4, <2>1, <2>5, <2>7 DEF Progress
  <2>8. CASE pc = "readdir"
    BY <1>1, <1>2, <1>3, <1>4, <2>1, <2>2, <2>5, <2>8 DEF Progress
  <2>9. CASE pc = "fdlink"
    BY <1>1, <1>2, <1>3, <1>4, <2>1, <2>2, <2>3, <2>4, <2>5, <2>9 DEF Progress
  <2>10. CASE pc \notin InProcess
    BY <1>1, <1>2, <1>3, <1>4, <2>5, <2>10 DEF Progress, InProcess
  <2> QED
    BY <2>6, <2>7, <2>8, <2>9, <2>10 DEF InProcess
<1>5. CASE i = None
  BY <1>1, <1>2, <1>5 DEF RowsRight
<1>6. CASE i # None
  <2>1. p = pid /\ pc \in InProcess => Progress(p, i)'
    BY <1>4, <1>6 DEF RowsRight
  <2>2. p < pid \/ (p = pid /\ pc = "walk") \/ pc \in Filters \cup {"done"} => Complete(p)'
    BY <1>3, <1>6 DEF RowsRight
  <2>3. pc \in Walking \cup {"getopt", "start"} /\ p > pid =>
          RowsOf(p)' = {} /\ (p \in pids \/ \A q \in pids : q < p)
    BY <1>2, <1>6 DEF RowsRight
  <2> QED
    BY <1>1, <1>6, <2>1, <2>2, <2>3 DEF RowsRight
<1> QED
  BY <1>5, <1>6

LEMMA RightWalk ==
  ASSUME TypeInv, TypeInv', Handles, EnoughFds, OpenInv, Kept, NEW p \in Pids \ touched,
         RowsRight(p), Walk, pc' # "overflow"
  PROVE  RowsRight(p)'
BY RightEntries, RightFindUser, RightCmdline, RightLinks, RightMaps, RightReadMaps, RightMapping,
   RightOpenFds, RightReadFds, RightStatFd, RightFdLink DEF Walk

LEMMA FaithNext ==
  ASSUME EnoughFds, TypeInv, TypeInv', Handles, OpenInv, Kept, FaithInv, [Next]_vars
  PROVE  FaithInv'
<1> SUFFICES ASSUME pc' # "overflow", NEW p \in Pids \ touched'
             PROVE  RowsRight(p)'
  BY DEF FaithInv
<1>1. pc # "overflow"
  <2>1. CASE Program
    BY <2>1 DEF Program, Walk, OpenProc, ReadProc, FindUser, OpenCmdline, ReadCmdline, ReadSpecial,
                StatSpecial, OpenMaps, ReadMaps, ListMapping, OpenFds, ReadFds, StatFd, ReadFdLink,
                GetOpt, FilterC, FilterT, FilterF
  <2>2. CASE Others
    BY <2>2, OthersStep
  <2>3. CASE UNCHANGED vars
    BY <2>3 DEF vars
  <2> QED
    BY <2>1, <2>2, <2>3 DEF Next
<1>2. CASE Others
  <2>1. PICK q \in Pids, i \in Images \cup {None} :
          /\ proc' = [proc EXCEPT ![q] = i] /\ touched' = touched \cup {q}
          /\ UNCHANGED <<pc, walkVars, open, ansarr, endVars>>
          /\ (q # pid => stale' = stale)
    BY <1>2, OthersStep
  <2>2. p \in Pids \ touched /\ p # q
    BY <2>1
  <2>3. proc'[p] = proc[p] /\ (p = pid => stale' = stale)
    BY <2>1, <2>2 DEF TypeInv
  <2>4. RowsRight(p)
    BY <1>1, <2>2 DEF FaithInv
  <2> QED
    BY <2>1, <2>2, <2>3, <2>4, StillRight
<1>3. CASE touched' = touched
  <2>1. p \in Pids \ touched /\ RowsRight(p)
    BY <1>1, <1>3 DEF FaithInv
  <2>2. CASE Walk
    BY <2>1, <2>2, RightWalk
  <2>3. CASE FilterC \/ FilterT \/ FilterF
    BY <2>1, <2>3, RightFilters
  <2>6. CASE GetOpt
    BY <2>1, <2>6, RightGetOpt
  <2>4. CASE UNCHANGED vars
    <3>1. proc' = proc /\ stale' = stale /\ UNCHANGED <<pc, walkVars, ansarr>>
      BY <2>4 DEF vars, envVars
    <3> QED
      BY <2>1, <3>1, StillRight
  <2>5. CASE Others
    BY <1>2, <2>5
  <2> QED
    BY <2>2, <2>3, <2>4, <2>5, <2>6 DEF Next, Program
<1>4. Walk => touched' = touched
  BY DEF Walk, envVars, OpenProc, ReadProc, FindUser, OpenCmdline, ReadCmdline, ReadSpecial,
         StatSpecial, OpenMaps, ReadMaps, ListMapping, OpenFds, ReadFds, StatFd, ReadFdLink
<1>5. GetOpt \/ FilterC \/ FilterT \/ FilterF \/ UNCHANGED vars => touched' = touched
  BY DEF GetOpt, FilterC, FilterT, FilterF, vars, envVars
<1> QED
  BY <1>2, <1>3, <1>4, <1>5 DEF Next, Program

----------------------------------------------------------------------------
(* The array.  A process takes at most three rows for its links, a row for *)
(* each area of its memory or one denial, and a row for each descriptor or *)
(* one denial.                                                             *)

Most(m, f) == 3 + m + f
EnoughRows(m, f) ==
  /\ m \in Nat \ {0} /\ Cardinality(Areas) <= m
  /\ f \in Nat \ {0} /\ Cardinality(Fds) <= f
  /\ Cardinality(Pids) * Most(m, f) <= ArrLen

\* The slots for the processes visited are enough for what is still to come.
Slots(m, f) == Visited * Most(m, f)
Ahead == {n \in Fds : n > fd}
AreasAhead == {a \in Areas : a > area}
LinksAhead == CASE special = "cwd" -> 3 [] special = "root" -> 2 [] OTHER -> 1
Room(m, f) ==
  /\ pc # "overflow"
  /\ pc = "walk" => Len(ansarr) <= Slots(m, f)
  /\ pc \in {"cmdline", "read"} => Len(ansarr) + 3 + m + f <= Slots(m, f)
  /\ pc \in {"readlink", "stat"} => Len(ansarr) + LinksAhead + m + f <= Slots(m, f)
  /\ pc = "maps" => Len(ansarr) + m + f <= Slots(m, f)
  /\ pc = "fgets" => Len(ansarr) + Cardinality(AreasAhead) + f <= Slots(m, f)
  /\ pc = "opendir" => Len(ansarr) + f <= Slots(m, f)
  /\ pc = "readdir" => Len(ansarr) + Cardinality(Ahead) <= Slots(m, f)
  /\ pc = "fdlink" => Len(ansarr) + 1 + Cardinality(Ahead) <= Slots(m, f)

LEMMA Times ==
  /\ \A a, b, k \in Nat : a <= b => a * k <= b * k
  /\ \A a, b, k \in Nat : a + 1 <= b => a * k + k <= b * k
<1>1. ASSUME NEW a \in Nat, NEW b \in Nat, NEW k \in Nat, a <= b
      PROVE  a * k <= b * k
  <2>1. PICK c \in Nat : b = a + c
    <3>1. b - a \in Nat /\ b = a + (b - a)
      BY <1>1
    <3> QED
      BY <3>1
  <2>2. c * k \in Nat /\ b * k = a * k + c * k /\ a * k \in Nat
    BY <2>1
  <2> QED
    BY <2>2
<1>2. \A a, b, k \in Nat : a + 1 <= b => (a + 1) * k <= b * k
  BY <1>1
<1>3. \A a, k \in Nat : (a + 1) * k = a * k + k
  OBVIOUS
<1> QED
  BY <1>1, <1>2, <1>3

LEMMA SlotsFit ==
  ASSUME NEW m, NEW f, EnoughRows(m, f)
  PROVE  /\ Most(m, f) \in Nat /\ Slots(m, f) \in Nat /\ Slots(m, f) <= ArrLen
         /\ m \in Nat \ {0} /\ f \in Nat \ {0}
<1>1. m \in Nat \ {0} /\ f \in Nat \ {0} /\ Most(m, f) \in Nat
  BY DEF EnoughRows, Most
<1>2. Visited \in Nat /\ Visited <= Cardinality(Pids) /\ Cardinality(Pids) \in Nat
  BY VisitedType
<1>3. Slots(m, f) <= Cardinality(Pids) * Most(m, f) /\ Cardinality(Pids) * Most(m, f) <= ArrLen
  BY <1>1, <1>2, Times DEF Slots, EnoughRows
<1>4. Slots(m, f) \in Nat
  BY <1>1, <1>2 DEF Slots
<1> QED
  BY <1>1, <1>2, <1>3, <1>4, NumberAssumption

\* Listing a row while a slot is left takes one.
LEMMA TakesSlot ==
  ASSUME TypeInv, NEW m, NEW f, EnoughRows(m, f), NEW r, NEW next, List(r, next),
         Len(ansarr) + 1 <= Slots(m, f)
  PROVE  pc' = next /\ Len(ansarr') = Len(ansarr) + 1
<1>1. Len(ansarr) \in Nat /\ ArrLen \in Nat /\ ansarr \in Seq(FileInfo)
  BY NumberAssumption DEF TypeInv
<1>2. Slots(m, f) \in Nat /\ Slots(m, f) <= ArrLen
  BY SlotsFit
<1>3. Len(ansarr) < ArrLen
  BY <1>1, <1>2
<1>4. pc' = next /\ ansarr' = Append(ansarr, r)
  BY <1>3 DEF List, Append1
<1> QED
  BY <1>1, <1>4

\* Of what lies ahead, the next one taken leaves one less.
LEMMA AheadShrinks ==
  ASSUME NEW S \in SUBSET Nat, IsFiniteSet(S), NEW x \in Int, NEW y \in S, x < y
  PROVE  /\ Cardinality({n \in S : n > y}) + 1 <= Cardinality({n \in S : n > x})
         /\ Cardinality({n \in S : n > y}) \in Nat /\ Cardinality({n \in S : n > x}) \in Nat
         /\ Cardinality({n \in S : n > x}) <= Cardinality(S) /\ Cardinality(S) \in Nat
<1> DEFINE A == {n \in S : n > y}
           B == {n \in S : n > x}
<1>1. IsFiniteSet(A) /\ IsFiniteSet(B) /\ Cardinality(B) <= Cardinality(S)
  BY FS_Subset
<1>2. S \subseteq Int /\ y \in Int
  OBVIOUS
<1>3. \A n \in S : n > y => n > x
  BY <1>2
<1>4. y \notin A /\ y \in B /\ A \subseteq B
  <2>1. ~(y > y) /\ y > x
    BY <1>2
  <2> QED
    BY <1>3, <2>1
<1>5. A \cup {y} \in SUBSET B
  BY <1>4
<1> HIDE DEF A, B
<1>6. Cardinality(A \cup {y}) = Cardinality(A) + 1 /\ Cardinality(A \cup {y}) <= Cardinality(B)
  BY <1>1, <1>4, <1>5, FS_AddElement, FS_Subset
<1>7. Cardinality(A) \in Nat /\ Cardinality(B) \in Nat /\ Cardinality(S) \in Nat
  BY <1>1, FS_CardinalityType
<1> QED
  BY <1>1, <1>6, <1>7 DEF A, B

LEMMA AheadType ==
  /\ Cardinality(Ahead) \in Nat /\ Cardinality(AreasAhead) \in Nat
  /\ Cardinality(Ahead) <= Cardinality(Fds) /\ Cardinality(Fds) \in Nat
  /\ Cardinality(AreasAhead) <= Cardinality(Areas) /\ Cardinality(Areas) \in Nat
<1>1. /\ Ahead \in SUBSET Fds /\ IsFiniteSet(Fds)
      /\ AreasAhead \in SUBSET Areas /\ IsFiniteSet(Areas)
  BY NumberAssumption DEF Ahead, AreasAhead
<1>2. /\ IsFiniteSet(Ahead) /\ Cardinality(Ahead) <= Cardinality(Fds)
      /\ IsFiniteSet(AreasAhead) /\ Cardinality(AreasAhead) <= Cardinality(Areas)
  BY <1>1, FS_Subset
<1> QED
  BY <1>1, <1>2, FS_CardinalityType

LEMMA AheadNext ==
  ASSUME TypeInv, StatFd
  PROVE  Cardinality(Ahead)' + 1 <= Cardinality(Ahead) /\ Cardinality(Ahead)' \in Nat
<1>1. fds # {} /\ fds \in SUBSET Nat /\ fds \subseteq Fds /\ fd' = Least(fds)
  BY NumberAssumption DEF StatFd, TypeInv
<1>2. fd' \in fds /\ fd' \in Fds /\ fd' > fd
  BY <1>1, LeastIs DEF TypeInv
<1>3. fd \in Int /\ fd' \in Int /\ Fds \in SUBSET Nat /\ IsFiniteSet(Fds)
  BY <1>2, NumberAssumption DEF TypeInv
<1> QED
  BY <1>2, <1>3, AheadShrinks DEF Ahead

LEMMA AreaNext ==
  ASSUME TypeInv, ListMapping
  PROVE  Cardinality(AreasAhead)' + 1 <= Cardinality(AreasAhead) /\ Cardinality(AreasAhead)' \in Nat
<1>1. DOMAIN lines # {} /\ DOMAIN lines \in SUBSET Nat /\ area' = Least(DOMAIN lines)
  BY FiniteParts DEF ListMapping, TypeInv
<1>2. area' \in DOMAIN lines /\ area' \in Areas /\ area' > area
  BY <1>1, LeastIs DEF TypeInv
<1>3. area \in Int /\ area' \in Int /\ Areas \in SUBSET Nat /\ IsFiniteSet(Areas)
  BY <1>2, NumberAssumption DEF TypeInv
<1> QED
  BY <1>2, <1>3, AheadShrinks DEF AreasAhead

LEMMA RoomNext ==
  ASSUME NEW m, NEW f, EnoughRows(m, f), TypeInv, Handles, Room(m, f), [Next]_vars
  PROVE  Room(m, f)'
<1>1. /\ Slots(m, f) \in Nat /\ m \in Nat \ {0} /\ f \in Nat \ {0} /\ Len(ansarr) \in Nat
      /\ Cardinality(Ahead) \in Nat /\ Cardinality(AreasAhead) \in Nat
  BY SlotsFit, AheadType DEF TypeInv
<1>2. pid' = pid => Slots(m, f)' = Slots(m, f)
  BY DEF Slots, Visited
<1>3. fd' = fd => Cardinality(Ahead)' = Cardinality(Ahead)
  BY DEF Ahead
<1>4. area' = area => Cardinality(AreasAhead)' = Cardinality(AreasAhead)
  BY DEF AreasAhead
<1>5. pc # "overflow"
  BY DEF Room
<1>6. CASE UNCHANGED <<pc, pid, special, area, fd, ansarr>>
  BY <1>1, <1>2, <1>3, <1>4, <1>6 DEF Room, LinksAhead
<1>7. CASE OpenProc
  <2>1. pid' = pid /\ pc' \in {"walk", "filterC"} /\ Len(ansarr') = 0
    BY <1>7 DEF OpenProc, walkVars, TypeInv
  <2> QED
    BY <1>1, <1>2, <2>1 DEF Room
<1>8. CASE ReadProc
  BY <1>1, <1>2, <1>8 DEF ReadProc, Room
<1>9. CASE FindUser
  <2>1. Visited + 1 <= Visited' /\ Visited' \in Nat /\ Visited \in Nat
    BY <1>9, FindsNext, VisitedNext, VisitedType
  <2>2. Most(m, f) \in Nat
    BY SlotsFit
  <2>3. Visited * Most(m, f) + Most(m, f) <= Visited' * Most(m, f)
    BY <2>1, <2>2, Times
  <2>4. Slots(m, f) + 3 + m + f <= Slots(m, f)' /\ Slots(m, f)' \in Nat
    <3>1. Slots(m, f) = Visited * Most(m, f) /\ Slots(m, f)' = Visited' * Most(m, f)
      BY DEF Slots, Most
    <3>2. Visited' * Most(m, f) \in Nat
      BY <2>1, <2>2
    <3>3. Slots(m, f) + Most(m, f) <= Slots(m, f)' /\ Slots(m, f)' \in Nat
      BY <2>3, <3>1, <3>2
    <3>4. Most(m, f) = 3 + m + f
      BY DEF Most
    <3> QED
      BY <1>1, <3>3, <3>4
  <2>5. pc = "walk" /\ pc' = "cmdline" /\ ansarr' = ansarr
    BY <1>9 DEF FindUser
  <2> QED
    BY <1>1, <2>4, <2>5 DEF Room
<1>10. CASE OpenCmdline
  <2>1. pc = "cmdline" /\ UNCHANGED <<pid, ansarr>> /\ pc' \in {"read", "walk"}
    BY <1>10 DEF OpenCmdline, walkVars
  <2> QED
    BY <1>1, <1>2, <2>1 DEF Room
<1>11. CASE ReadCmdline
  <2>1. /\ pc = "read" /\ UNCHANGED <<pid, ansarr>>
        /\ pc' = "walk" \/ (pc' = "readlink" /\ special' = "cwd")
    BY <1>11 DEF ReadCmdline, OnError
  <2> QED
    BY <1>1, <1>2, <2>1 DEF Room, LinksAhead
<1>12. CASE ReadSpecial
  BY <1>1, <1>2, <1>12 DEF ReadSpecial, Room, LinksAhead
<1>13. CASE StatSpecial
  <2>1. pc = "stat" /\ pid' = pid /\ special \in {"cwd", "root", "exe"}
        /\ List(row', IF special = "exe" THEN "maps" ELSE "readlink")
        /\ special' = CASE special = "cwd" -> "root" [] OTHER -> "exe"
    BY <1>13 DEF StatSpecial, TypeInv
  <2>2. Len(ansarr) + LinksAhead + m + f <= Slots(m, f) /\ LinksAhead \in {1, 2, 3}
    BY <2>1 DEF Room, LinksAhead
  <2>3. Len(ansarr') = Len(ansarr) + 1 /\ pc' = IF special = "exe" THEN "maps" ELSE "readlink"
    <3>1. Len(ansarr) + 1 <= Slots(m, f)
      BY <1>1, <2>2
    <3> QED
      BY <2>1, <3>1, TakesSlot
  <2>4. CASE special = "exe"
    BY <1>1, <1>2, <2>1, <2>2, <2>3, <2>4 DEF Room, LinksAhead
  <2>5. CASE special # "exe"
    <3>1. LinksAhead' + 1 = LinksAhead /\ LinksAhead' \in {1, 2}
      BY <2>1, <2>5 DEF LinksAhead
    <3> QED
      BY <1>1, <1>2, <2>1, <2>2, <2>3, <2>5, <3>1 DEF Room
  <2> QED
    BY <2>4, <2>5
<1>14. ASSUME NEW what, NEW next, NoFd(what, next), Len(ansarr) + 1 <= Slots(m, f)
       PROVE  pc' = next /\ Len(ansarr') = Len(ansarr) + 1
  BY <1>14, TakesSlot DEF NoFd
<1>15. CASE OpenMaps
  <2>1. pc = "maps" /\ pid' = pid /\ Len(ansarr) + m + f <= Slots(m, f)
    BY <1>15 DEF OpenMaps, walkVars, Room
  <2>2. Len(ansarr) + 1 <= Slots(m, f)
    BY <1>1, <2>1
  <2>3. \/ pc' = "fgets" /\ ansarr' = ansarr
        \/ pc' = "opendir" /\ Len(ansarr') = Len(ansarr) + 1
    BY <1>14, <1>15, <2>2 DEF OpenMaps
  <2>4. Cardinality(AreasAhead)' <= m /\ Cardinality(AreasAhead)' \in Nat
    <3> DEFINE A == {a \in Areas : a > area'}
    <3>1. A \in SUBSET Areas /\ IsFiniteSet(Areas) /\ AreasAhead' = A
      BY NumberAssumption DEF AreasAhead
    <3>2. Cardinality(A) <= Cardinality(Areas) /\ Cardinality(A) \in Nat /\ Cardinality(Areas) \in Nat
      BY <3>1, FS_Subset, FS_CardinalityType
    <3> HIDE DEF A
    <3> QED
      BY <1>1, <3>1, <3>2 DEF EnoughRows
  <2> QED
    BY <1>1, <1>2, <2>1, <2>3, <2>4 DEF Room
<1>16. CASE ReadMaps
  <2>1. pc = "fgets" /\ UNCHANGED <<pid, area, ansarr>> /\ pc' \in {"fgets", "opendir"}
    BY <1>16 DEF ReadMaps
  <2> QED
    BY <1>1, <1>2, <1>4, <2>1 DEF Room
<1>17. CASE ListMapping
  <2>1. pc = "fgets" /\ pid' = pid /\ Len(ansarr) + Cardinality(AreasAhead) + f <= Slots(m, f)
    BY <1>17 DEF ListMapping, Room
  <2>2. Cardinality(AreasAhead)' + 1 <= Cardinality(AreasAhead) /\ Cardinality(AreasAhead)' \in Nat
    BY <1>17, AreaNext
  <2>3. Len(ansarr) + 1 <= Slots(m, f)
    BY <1>1, <2>1, <2>2
  <2> DEFINE g == lines[area']
  <2>4. CASE Listable(g)
    <3>1. List(Row(strremove(g), "REG", g, MapColumn(g)), "fgets")
      BY <1>17, <2>4 DEF ListMapping
    <3>2. pc' = "fgets" /\ Len(ansarr') = Len(ansarr) + 1
      BY <2>3, <3>1, TakesSlot
    <3> QED
      BY <1>1, <1>2, <2>1, <2>2, <3>2 DEF Room
  <2>5. CASE ~Listable(g)
    <3>1. pc' = pc /\ ansarr' = ansarr
      BY <1>17, <2>5 DEF ListMapping
    <3> QED
      BY <1>1, <1>2, <2>1, <2>2, <3>1 DEF Room
  <2> QED
    BY <2>4, <2>5
<1>18. CASE OpenFds
  <2>1. pc = "opendir" /\ pid' = pid /\ Len(ansarr) + f <= Slots(m, f)
    BY <1>18 DEF OpenFds, Room
  <2>2. Len(ansarr) + 1 <= Slots(m, f)
    BY <1>1, <2>1
  <2>3. \/ pc' = "readdir" /\ ansarr' = ansarr
        \/ pc' = "walk" /\ Len(ansarr') = Len(ansarr) + 1
    BY <1>14, <1>18, <2>2 DEF OpenFds
  <2>4. Cardinality(Ahead)' <= f /\ Cardinality(Ahead)' \in Nat
    <3> DEFINE A == {n \in Fds : n > fd'}
    <3>1. A \in SUBSET Fds /\ IsFiniteSet(Fds) /\ Ahead' = A
      BY NumberAssumption DEF Ahead
    <3>2. Cardinality(A) <= Cardinality(Fds) /\ Cardinality(A) \in Nat /\ Cardinality(Fds) \in Nat
      BY <3>1, FS_Subset, FS_CardinalityType
    <3> HIDE DEF A
    <3> QED
      BY <1>1, <3>1, <3>2 DEF EnoughRows
  <2> QED
    BY <1>1, <1>2, <2>1, <2>3, <2>4 DEF Room
<1>19. CASE ReadFds
  <2>1. pc = "readdir" /\ UNCHANGED <<pid, fd, ansarr>> /\ pc' \in {"readdir", "walk"}
    BY <1>19 DEF ReadFds
  <2> QED
    BY <1>1, <1>2, <1>3, <2>1 DEF Room
<1>20. CASE StatFd
  <2>1. pc = "readdir" /\ UNCHANGED <<pid, ansarr>> /\ pc' \in {"readdir", "fdlink"}
    BY <1>20 DEF StatFd
  <2> QED
    BY <1>1, <1>2, <1>20, <2>1, AheadNext DEF Room
<1>21. CASE ReadFdLink
  <2>1. /\ pc = "fdlink" /\ UNCHANGED <<pid, fd>> /\ List(row', "readdir")
        /\ Len(ansarr) + 1 + Cardinality(Ahead) <= Slots(m, f)
    BY <1>21 DEF ReadFdLink, Room
  <2>2. Len(ansarr) + 1 <= Slots(m, f)
    BY <1>1, <2>1
  <2>3. pc' = "readdir" /\ Len(ansarr') = Len(ansarr) + 1
    BY <2>1, <2>2, TakesSlot
  <2> QED
    BY <1>1, <1>2, <1>3, <2>1, <2>3 DEF Room
<1>22. CASE GetOpt \/ FilterC \/ FilterT \/ FilterF
  <2>1. pc' \in {"start", "filterT", "filterF", "done", "invalid", "abort"}
    BY <1>22 DEF GetOpt, FilterC, FilterT, FilterF
  <2> QED
    BY <2>1 DEF Room
<1>23. CASE Others \/ UNCHANGED vars
  <2>1. UNCHANGED <<pc, pid, special, area, fd, ansarr>>
    BY <1>23, OthersStep DEF vars, walkVars
  <2> QED
    BY <1>6, <2>1
<1> QED
  BY <1>7, <1>8, <1>9, <1>10, <1>11, <1>12, <1>13, <1>15, <1>16, <1>17, <1>18, <1>19, <1>20,
     <1>21, <1>22, <1>23 DEF Next, Program, Walk

----------------------------------------------------------------------------
(* The theorems.                                                           *)

LEMMA InvInit ==
  ASSUME Init
  PROVE  /\ TypeInv /\ Handles /\ OpenInv /\ Kept /\ ShowInv /\ NodeInv /\ FaithInv
         /\ \A m, f : Room(m, f)
<1> USE DEF Init, Walking, InProcess, Filters, Ended
<1>1. Pids \subseteq Nat \ {0} /\ Fds \subseteq Nat
  BY NumberAssumption
<1>2. TypeInv
  <2>1. ansarr \in Seq(FileInfo) /\ DOMAIN lines = {} /\ Len(ansarr) = 0
    OBVIOUS
  <2>2. changes \in 0 .. MaxChanges /\ Len(ansarr) <= ArrLen
    BY <2>1, NumberAssumption
  <2> QED
    BY <2>1, <2>2 DEF TypeInv
<1>3. Handles /\ Kept /\ ShowInv
  BY DEF Handles, Kept, ShowInv
<1>4. OpenInv
  BY NumberAssumption DEF OpenInv
<1>5. DOMAIN ansarr = {}
  OBVIOUS
<1>6. NodeInv
  BY <1>5 DEF NodeInv
<1>7. FaithInv
  <2> SUFFICES ASSUME NEW p \in Pids
               PROVE  RowsRight(p)
    BY DEF FaithInv
  <2>1. RowsOf(p) = {}
    BY <1>5 DEF RowsOf
  <2>2. p # pid /\ p \notin pids /\ ~(p < pid)
    BY <1>1
  <2> QED
    BY <2>1, <2>2 DEF RowsRight
<1>8. \A m, f : Room(m, f)
  BY DEF Room
<1> QED
  BY <1>2, <1>3, <1>4, <1>6, <1>7, <1>8

LEMMA Invariant == Spec => [](TypeInv /\ Handles /\ OpenInv /\ Kept)
<1>1. Init => TypeInv /\ Handles /\ OpenInv /\ Kept
  BY InvInit
<1>2. TypeInv /\ Handles /\ OpenInv /\ Kept /\ [Next]_vars => (TypeInv /\ Handles /\ OpenInv /\ Kept)'
  BY TypeNext, HandlesNext, OpenNext, KeptNext
<1> QED
  BY <1>1, <1>2, PTL DEF Spec

\* The table, the descriptors and the handles of processes are in order in
\* every state, and no row is written behind the end of ansarr (hw1.c:271 and
\* the five other places that list a row) when its slots are enough for three
\* links, the mapped files and the descriptors of every process.
THEOREM TypeCorrect ==
  ASSUME NEW CONSTANT m, NEW CONSTANT f, EnoughRows(m, f)
  PROVE  Spec => []TypeOK
<1>1. Init => Room(m, f)
  BY InvInit
<1>2. TypeInv /\ Handles /\ Room(m, f) /\ [Next]_vars => Room(m, f)'
  BY RoomNext
<1>3. TypeInv /\ Handles /\ OpenInv /\ Room(m, f) => TypeOK
  BY DEF TypeInv, Handles, OpenInv, Room, TypeOK
<1> QED
  BY <1>1, <1>2, <1>3, Invariant, PTL DEF Spec

\* However the options are combined, a row is printed exactly when it passes
\* each of them (the three loops over show in main(), hw1.c:112-184).
THEOREM FiltersAreExact == Spec => []ShownExactly
<1>1. Init => ShowInv
  BY InvInit
<1>2. TypeInv /\ ShowInv /\ [Next]_vars => ShowInv'
  BY ShowNext
<1>3. ShowInv => ShownExactly
  BY DEF ShowInv, ShownExactly, PassesC, PassesT, PassesF
<1> QED
  BY <1>1, <1>2, <1>3, Invariant, PTL DEF Spec

\* Every inode number that is printed was read for that row, whatever the
\* process did between readlink() and stat() (hw1.c:201-224, 335, 379, 457).
THEOREM NodesAreReal == Spec => []NodeReal
<1>1. Init => NodeInv
  BY InvInit
<1>2. TypeInv /\ NodeInv /\ [Next]_vars => NodeInv'
  BY NodeNext
<1>3. TypeInv /\ NodeInv => NodeReal
  <2> SUFFICES ASSUME TypeInv, NodeInv, NEW n \in show
               PROVE  printans[n].node # None
    BY DEF NodeReal
  <2>1. n \in DOMAIN ansarr /\ ansarr[n] \in FileInfo
    BY DEF TypeInv
  <2>2. printans[n].node = IF HasNode(ansarr[n]) THEN ansarr[n].node ELSE ""
    BY <2>1 DEF printans, printrown, FileInfo
  <2> QED
    BY <2>1, <2>2, FileAssumption DEF NodeInv
<1> QED
  BY <1>1, <1>2, <1>3, Invariant, PTL DEF Spec

\* What the program lists for the files whose rows README.md describes the way
\* the code makes them is what README.md asks for.
LEMMA Agree ==
  ASSUME NEW i \in Images
  PROVE  {x \in CodeRows(i) : x[3] \notin Names(Strange(i))}
           = {e \in Expected(i) : e[3] \notin Names(Strange(i))}
<1> DEFINE N == Names(Strange(i))
           Plain == Files \ Strange(i)
           Mapping(g) == <<IF g \in Deleted THEN <<"DEL">> ELSE <<"mem">>, "REG", g, g>>
<1>1. \A g \in Strange(i) : Link(g) \in N /\ strremove(g) \in N /\ g \in N
  BY DEF Link, strremove, Names
<1>2. \A c : \A g \in Strange(i) : CodeRow(c, g)[3] \in N /\ FileRow(c, g)[3] \in N
                              /\ MapRow(g)[3] \in N /\ Mapping(g)[3] \in N
  BY <1>1 DEF CodeRow, FileRow, MapRow
<1>3. \A g \in Plain : /\ Link(g) = g /\ strremove(g) = g /\ Kind(g) # "unknown"
                       /\ MapColumn(g) = <<"mem">> /\ g \notin Deleted
  BY DEF Link, strremove, MapColumn, Strange
<1>4. \A c : \A g \in Plain : CodeRow(c, g) = FileRow(c, g) /\ MapRow(g) = Mapping(g)
  BY <1>3 DEF CodeRow, FileRow, MapRow
<1>5. \A n \in Fds : i.fds[n] \in Plain => i.modes[n] = FdMode(i.fds[n]) /\ Perms[i.fds[n]] # {}
  BY DEF Strange
<1>6. \A g \in Files : g \in Plain \/ g \in Strange(i)
  OBVIOUS
<1> HIDE DEF N, Plain
<1>7. /\ i.cwd \in Files /\ i.root \in Files /\ i.exe \in Files \cup {None}
      /\ i["cwd"] = i.cwd /\ i["root"] = i.root /\ i["exe"] = i.exe
      /\ \A n \in Fds : i.fds[n] \in Files \cup {None}
      /\ \A a \in Areas : i.maps[a] \in Files \cup {None}
      /\ None \notin Files
  BY ImageType, FileAssumption
<1> DEFINE L(l) == LinkRow(i, l)
           E(l) == IF i.sealed \/ i[l] = None THEN DeniedRow(FdColumn[l], l) ELSE FileRow(FdColumn[l], i[l])
<1>8. \A l \in {"cwd", "root", "exe"} : L(l) = E(l) \/ (L(l)[3] \in N /\ E(l)[3] \in N)
  <2> SUFFICES ASSUME NEW l \in {"cwd", "root", "exe"}, ~i.sealed, i[l] # None
               PROVE  L(l) = E(l) \/ (L(l)[3] \in N /\ E(l)[3] \in N)
    BY DEF LinkRow
  <2>1. i[l] \in Files /\ L(l) = CodeRow(FdColumn[l], i[l]) /\ E(l) = FileRow(FdColumn[l], i[l])
    BY <1>7 DEF LinkRow
  <2> QED
    BY <1>2, <1>4, <1>6, <2>1
<1>9. Links(i) = {L("cwd"), L("root"), L("exe")}
  BY DEF Links, LinkRows
<1>10. /\ FdColumn["cwd"] = <<"cwd">> /\ FdColumn["root"] = <<"rtd">> /\ FdColumn["exe"] = <<"txt">>
       /\ i.cwd # None /\ i.root # None
  BY <1>7 DEF FdColumn
<1>11. i.sealed => Expected(i) = {E("cwd"), E("root"), E("exe")}
  BY <1>10 DEF Expected
<1>12. ~i.sealed => Expected(i) = {E("cwd"), E("root"), E("exe")}
                      \cup {Mapping(g) : g \in {i.maps[a] : a \in Areas} \ {None}}
                      \cup {FileRow(<<n, i.modes[n]>>, i.fds[n]) : n \in {m \in Fds : i.fds[m] # None}}
  BY <1>7, <1>10 DEF Expected
<1> HIDE DEF L, E, Mapping
<1>13. CASE i.sealed
  <2>1. CodeRows(i) = {L("cwd"), L("root"), L("exe")}
    BY <1>9, <1>13 DEF CodeRows
  <2> QED
    BY <1>8, <1>11, <1>13, <2>1 DEF N
<1>14. CASE ~i.sealed
  <2>1. CodeRows(i) = {L("cwd"), L("root"), L("exe")} \cup MapRows(i, Areas) \cup FdRows(i, Fds)
    BY <1>9, <1>14 DEF CodeRows
  <2>2. \A x \in MapRows(i, Areas) : x[3] \notin N => x \in Expected(i)
    <3> SUFFICES ASSUME NEW a \in Areas, i.maps[a] # None, MapRow(i.maps[a])[3] \notin N
                 PROVE  MapRow(i.maps[a]) \in Expected(i)
      BY DEF MapRows
    <3>1. i.maps[a] \in Plain
      BY <1>2, <1>6, <1>7
    <3> QED
      BY <1>4, <1>12, <1>14, <3>1
  <2>3. \A x \in FdRows(i, Fds) : x[3] \notin N => x \in Expected(i)
    <3> SUFFICES ASSUME NEW n \in Fds, Shown(i, n), FdRow(i, n)[3] \notin N
                 PROVE  FdRow(i, n) \in Expected(i)
      BY DEF FdRows
    <3>1. i.fds[n] \in Plain /\ i.fds[n] # None
      BY <1>2, <1>6, <1>7 DEF FdRow, Shown
    <3>2. FdRow(i, n) = FileRow(<<n, i.modes[n]>>, i.fds[n])
      BY <1>4, <1>5, <3>1 DEF FdRow
    <3> QED
      BY <1>12, <1>14, <3>1, <3>2
  <2>4. \A g \in {i.maps[a] : a \in Areas} \ {None} :
          Mapping(g)[3] \notin N => Mapping(g) \in MapRows(i, Areas)
    <3> SUFFICES ASSUME NEW a \in Areas, i.maps[a] # None, Mapping(i.maps[a])[3] \notin N
                 PROVE  Mapping(i.maps[a]) \in MapRows(i, Areas)
      OBVIOUS
    <3>1. i.maps[a] \in Plain
      BY <1>2, <1>6, <1>7
    <3> QED
      BY <1>4, <3>1 DEF MapRows
  <2>5. \A n \in {m \in Fds : i.fds[m] # None} :
          LET e == FileRow(<<n, i.modes[n]>>, i.fds[n]) IN e[3] \notin N => e \in FdRows(i, Fds)
    <3> SUFFICES ASSUME NEW n \in Fds, i.fds[n] # None,
                        FileRow(<<n, i.modes[n]>>, i.fds[n])[3] \notin N
                 PROVE  FileRow(<<n, i.modes[n]>>, i.fds[n]) \in FdRows(i, Fds)
      OBVIOUS
    <3>1. i.fds[n] \in Plain
      BY <1>2, <1>6, <1>7
    <3>2. FdRow(i, n) = FileRow(<<n, i.modes[n]>>, i.fds[n]) /\ Shown(i, n)
      BY <1>4, <1>5, <3>1 DEF FdRow, Shown
    <3> QED
      BY <3>2 DEF FdRows
  <2>6. ASSUME NEW x \in CodeRows(i), x[3] \notin N
        PROVE  x \in Expected(i)
    <3>1. x \in {L("cwd"), L("root"), L("exe")} => x \in Expected(i)
      BY <1>8, <1>12, <1>14, <2>6
    <3> QED
      BY <2>1, <2>2, <2>3, <2>6, <3>1
  <2>7. ASSUME NEW x \in Expected(i), x[3] \notin N
        PROVE  x \in CodeRows(i)
    <3>1. x \in {E("cwd"), E("root"), E("exe")} => x \in {L("cwd"), L("root"), L("exe")}
      BY <1>8, <2>7
    <3>2. CASE x \in {E("cwd"), E("root"), E("exe")}
      BY <2>1, <3>1, <3>2
    <3>3. CASE x \in {Mapping(g) : g \in {i.maps[a] : a \in Areas} \ {None}}
      <4>1. x \in MapRows(i, Areas)
        BY <2>4, <2>7, <3>3
      <4> QED
        BY <2>1, <4>1
    <3>4. CASE x \in {FileRow(<<n, i.modes[n]>>, i.fds[n]) : n \in {m \in Fds : i.fds[m] # None}}
      <4>1. PICK n \in {m \in Fds : i.fds[m] # None} : x = FileRow(<<n, i.modes[n]>>, i.fds[n])
        BY <3>4
      <4>2. x \in FdRows(i, Fds)
        BY <2>5, <2>7, <4>1
      <4> QED
        BY <2>1, <4>2
    <3> QED
      BY <1>12, <1>14, <2>7, <3>2, <3>3, <3>4
  <2> QED
    BY <2>6, <2>7 DEF N
<1> QED
  BY <1>13, <1>14

\* With two descriptors for each process and two to work with, the walk over
\* /proc (hw1.c:87-110) lists exactly the rows README.md of HW1 asks for, for
\* every process that nobody disturbs and whatever happens to the others
\* meanwhile; the files for which code and README.md differ are left out.
THEOREM WalkIsFaithful ==
  ASSUME EnoughFds
  PROVE  Spec => []Faithful
<1>1. Init => FaithInv
  BY InvInit
<1>2. /\ TypeInv /\ Handles /\ OpenInv /\ Kept /\ FaithInv /\ [Next]_vars /\ TypeInv'
      => FaithInv'
  BY FaithNext
<1>3. TypeInv /\ FaithInv => Faithful
  <2> SUFFICES ASSUME TypeInv, FaithInv, pc \in {"filterC", "filterT", "filterF", "done"},
                      NEW p \in Pids \ touched
               PROVE  IF proc[p] = None THEN RowsOf(p) = {}
                      ELSE LET i == proc[p]
                               full == {r \in RowsOf(p) : r.fd # <<"NOFD">>} IN
                           /\ {<<r.fd, r.type, r.name, printrown(r).node>> :
                                 r \in {s \in full : s.name \notin Names(Strange(i))}}
                              = {e \in Expected(i) : e[3] \notin Names(Strange(i))}
                           /\ {r.name : r \in RowsOf(p) \ full} = NoFdRows(i)
                           /\ \A r \in RowsOf(p) : /\ r.user = i.user
                                                   /\ i.command # None => r.command = i.command
    BY DEF Faithful
  <2>1. RowsRight(p)
    BY DEF FaithInv
  <2>2. CASE proc[p] = None
    BY <2>1, <2>2 DEF RowsRight
  <2>3. CASE proc[p] # None
    <3> DEFINE i == proc[p]
    <3>1. Complete(p) /\ i \in Images
      BY <2>1, <2>3 DEF RowsRight, Filters, Ended, TypeInv
    <3>2. /\ \A r \in RowsOf(p) : r.user = i.user /\ (i.command # None => r.command = i.command)
          /\ Shapes(p) = CodeRows(i) /\ Denials(p) = NoFdRows(i)
      BY <3>1 DEF Complete, Owned
    <3>3. \A r : Shape(r)[3] = r.name
      BY DEF Shape
    <3>4. {Shape(r) : r \in {s \in Full(p) : s.name \notin Names(Strange(i))}}
            = {x \in Shapes(p) : x[3] \notin Names(Strange(i))}
      BY <3>3 DEF Shapes
    <3>5. {Shape(r) : r \in {s \in Full(p) : s.name \notin Names(Strange(i))}}
            = {e \in Expected(i) : e[3] \notin Names(Strange(i))}
      BY <3>1, <3>2, <3>4, Agree
    <3> HIDE DEF i
    <3>6. {r.name : r \in RowsOf(p) \ Full(p)} = NoFdRows(i)
      BY <3>2 DEF Denials
    <3> QED
      BY <2>3, <3>2, <3>5, <3>6 DEF Shape, Full, i
  <2> QED
    BY <2>2, <2>3
<1> QED
  BY <1>1, <1>2, <1>3, Invariant, PTL DEF Spec
=============================================================================
