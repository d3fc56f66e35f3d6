------------------------------- MODULE Lsof -------------------------------
(***************************************************************************)
(* The lsof clone of HW1/hw1.c, and the processes it looks at.             *)
(*                                                                         *)
(* The program walks /proc by name: every line it prints is put together   *)
(* from several system calls, and between two of them processes exit,      *)
(* start, exec, open and close files, and pids are used again.  It never   *)
(* closes the cmdline descriptor and the maps stream of a process, so that *)
(* the calls themselves begin to fail when RLIMIT_NOFILE is reached.       *)
(*                                                                         *)
(* A process is what /proc shows of it, an image: its links, the file (or  *)
(* none) in each area of its memory, and the files and modes of its        *)
(* descriptors.  A file is a model value and stands for its name, which    *)
(* has no blank, and its inode.  Patterns are the sets of strings they     *)
(* match.                                                                  *)
(***************************************************************************)
EXTENDS Integers, Sequences, FiniteSets

CONSTANTS
  Pids, Fds,       \* process ids; descriptor numbers of the processes
  Areas,           \* the places of a process's memory, in order
  Files, Commands, Users,
  None,            \* no file, no process, no option
  Images,          \* what a process may look like
  FileType, Perms, \* st_mode of each file: its S_IFMT kind, its owner bits
  Deleted,         \* the files /proc shows with a " (deleted)" behind their names
  NamedDeleted,    \* the files with "deleted" in their names
  Leftovers,       \* what malloc may leave in a type nobody writes
  Limit, Base,     \* RLIMIT_NOFILE; descriptors open when main() starts
  Batch,           \* directory entries, or lines of maps, that one call reads
  ArrLen,          \* slots of ansarr (115200)
  COpts, TOpts, FOpts,  \* arguments of -c, -t and -f
  Bad,             \* a pattern that regcomp refuses
  MaxChanges       \* bound: how often other processes may change

Types == {"DIR", "REG", "CHR", "FIFO", "SOCK", "unknown"}
Modes == {"r", "w", "u"}
Image == [user : Users, command : Commands \cup {None}, sealed : BOOLEAN,
          cwd : Files, root : Files, exe : Files \cup {None}, maps : [Areas -> Files \cup {None}],
          fds : [Fds -> Files \cup {None}], modes : [Fds -> Modes]]
Refusals == {"cwd", "root", "exe", "maps", "fd"} \X {"denied"}

ASSUME NumberAssumption ==
  /\ Pids \subseteq Nat \ {0} /\ Fds \subseteq Nat /\ Areas \subseteq Nat
  /\ IsFiniteSet(Pids) /\ IsFiniteSet(Fds) /\ IsFiniteSet(Areas)
  /\ Limit \in Nat /\ Base \in Nat /\ Batch \in Nat \ {0}
  /\ ArrLen \in Nat /\ MaxChanges \in Nat
ASSUME FileAssumption ==
  /\ Images \subseteq Image /\ None \notin Image \cup Files \cup Commands /\ None # ""
  /\ FileType \in [Files -> Types \cup {"BLK"}] /\ Perms \in [Files -> SUBSET {"r", "w"}]
  /\ Deleted \subseteq Files /\ NamedDeleted \subseteq Files
  /\ \A f \in Files : f \notin Refusals \cup ({"deleted"} \X Files) \cup (Files \X {"(deleted)"})

VARIABLES
  proc,      \* the image behind each pid, or None
  touched,   \* pids whose image has changed since the program began
  changes,   \* changes made so far
  stale,     \* the process of the last handle has exited (its pid may live on)
  pc,        \* the system call the program makes next, or how it ended
  pids, pid, \* directory entries read and not used; the process visited
  info,      \* user and command of struct pidinfo
  special,   \* which of cwd, root and exe is looked at
  lines, area,       \* lines of maps read and not used; the last one used
  lastinode,         \* the file of the mapping listed last
  fds, fd,   \* the same for the directory of descriptors
  row,       \* the fileinfo being filled in
  open,      \* open descriptors of the program
  ansarr, show,      \* the rows, and the indices of those to print
  opts       \* the options, once the program has looked at them

envVars == <<proc, touched, changes>>
walkVars == <<pids, pid, info, special, lines, area, lastinode, fds, fd, row>>
endVars == <<show, opts>>
vars == <<envVars, stale, pc, walkVars, open, ansarr, endVars>>

Ended == {"done", "invalid", "abort", "overflow"}
Least(S) == CHOOSE x \in S : \A y \in S : x <= y
Buffered(S) == {x \in S : Cardinality({y \in S : y < x}) < Batch}

Alive == {p \in Pids : proc[p] # None}
\* /proc/pid/{cwd,root,exe,maps,fd} need the rights of ptrace.
Readable == pid \in Alive /\ ~proc[pid].sealed
CanOpen == open < Limit

----------------------------------------------------------------------------
(* The other processes (external).                                         *)

Changed(p, i) ==
  /\ pc \notin Ended /\ changes < MaxChanges
  /\ proc' = [proc EXCEPT ![p] = i]
  /\ touched' = touched \cup {p}
  /\ changes' = changes + 1
  /\ UNCHANGED <<pc, walkVars, open, ansarr, endVars>>

Start(p) == /\ proc[p] = None
            /\ \E i \in Images : Changed(p, i)
            /\ UNCHANGED stale
\* exec, chdir, open, close, mmap, munmap, setuid
Mutate(p) == /\ proc[p] # None
             /\ \E i \in Images \ {proc[p]} : Changed(p, i)
             /\ UNCHANGED stale
Exit(p) == /\ proc[p] # None
           /\ Changed(p, None)
           /\ stale' = (stale \/ p = pid)
\* An exit, and the pid is used again before the program looks.
Reuse(p) == /\ proc[p] # None
            /\ \E i \in Images : Changed(p, i)
            /\ stale' = (stale \/ p = pid)

----------------------------------------------------------------------------
(* The rows.                                                               *)

\* NAME is a file, a file without the "deleted" in its name or with the mark
\* behind it, or a denial; a NODE of None is what malloc left there.
Name == Files \cup ({"deleted"} \X Files) \cup (Files \X {"(deleted)"}) \cup Refusals
FileInfo == [pid : Pids, user : Users \cup {"unknown", "number"}, command : Commands \cup {"."},
             fd : {<<c>> : c \in {"cwd", "rtd", "txt", "mem", "DEL", "NOFD"}} \cup (Fds \X Modes),
             type : Types \cup Leftovers, node : Files \cup {None}, name : Name]

Row(name, type, node, dsc) ==
  [pid |-> pid, user |-> info.user, command |-> info.command,
   fd |-> dsc, type |-> type, node |-> node, name |-> name]
\* ansarr[ansarrnum++] = r; what lies behind the array is written without a check.
Append1(r) == ansarr' = Append(ansarr, r)
List(r, next) ==
  IF Len(ansarr) < ArrLen
  THEN Append1(r) /\ pc' = next
  ELSE pc' = "overflow" /\ UNCHANGED ansarr
Kind(f) == IF FileType[f] = "BLK" THEN "unknown" ELSE FileType[f]
\* What readlink() returns.
Link(f) == IF f \in Deleted THEN <<f, "(deleted)">> ELSE f
\* A row without descriptor and without a type.
NoFd(what, next) == \E t \in Leftovers : List(Row(<<what, "denied">>, t, None, <<"NOFD">>), next)

----------------------------------------------------------------------------
(* The walk over /proc.                                                    *)

\* An option that getopt does not know, or one without its argument.  What the
\* arguments are is chosen where the program looks at them.
GetOpt ==
  /\ pc = "getopt"
  /\ pc' \in {"start", "invalid"}
  /\ UNCHANGED <<envVars, stale, walkVars, open, ansarr, endVars>>

OpenProc ==
  /\ pc = "start"
  /\ IF CanOpen THEN open' = open + 1 /\ pc' = "walk"
                ELSE open' = open /\ pc' = "filterC"
  /\ UNCHANGED <<envVars, stale, walkVars, ansarr, endVars>>

\* readdir() fills its buffer, or finds the end and the directory is closed.
ReadProc ==
  /\ pc = "walk" /\ pids = {}
  /\ LET more == {p \in Alive : p > pid} IN
       IF more # {}
       THEN pids' = Buffered(more) /\ UNCHANGED <<pc, open>>
       ELSE pc' = "filterC" /\ open' = open - 1 /\ UNCHANGED pids
  /\ UNCHANGED <<envVars, stale, pid, info, special, lines, area, lastinode, fds, fd, row,
                 ansarr, endVars>>

\* stat() for the owner, and /etc/passwd, opened and closed, for its name.
FindUser ==
  /\ pc = "walk" /\ pids # {}
  /\ pid' = Least(pids) /\ pids' = pids \ {pid'}
  /\ info' = [info EXCEPT !.user = IF pid' \notin Alive THEN "unknown"
                                   ELSE IF CanOpen THEN proc[pid'].user ELSE "number"]
  /\ pc' = "cmdline"
  /\ UNCHANGED <<envVars, stale, special, lines, area, lastinode, fds, fd, row, open, ansarr, endVars>>

LeaksTwice == open + 2  \* mutant: another descriptor is lost with each one
KeptOpen == open + 1    \* a descriptor that nobody will close
OpenCmdline ==
  /\ pc = "cmdline"
  /\ IF pid \in Alive /\ CanOpen
     THEN open' = KeptOpen /\ pc' = "read" /\ stale' = FALSE
     ELSE pc' = "walk" /\ UNCHANGED <<open, stale>>
  /\ UNCHANGED <<envVars, walkVars, ansarr, endVars>>

RetriesRead == "read"  \* mutant: a failed read is tried again
OnError == "walk"
\* A kernel thread has no command line, and basename(NULL) is ".".
ReadCmdline ==
  /\ pc = "read"
  /\ IF stale
     THEN pc' = OnError /\ UNCHANGED <<info, special>>
     ELSE /\ LET c == proc[pid].command IN
               info' = [info EXCEPT !.command = IF c = None THEN "." ELSE c]
          /\ special' = "cwd" /\ pc' = "readlink"
  /\ UNCHANGED <<envVars, stale, pids, pid, lines, area, lastinode, fds, fd, row, open, ansarr, endVars>>

----------------------------------------------------------------------------
(* handlespecialfiles: the links cwd, root and exe.                        *)

Target == IF Readable THEN proc[pid][special] ELSE None
FdColumn == [cwd |-> <<"cwd">>, root |-> <<"rtd">>, exe |-> <<"txt">>]

ReadSpecial ==
  /\ pc = "readlink"
  /\ row' = Row(IF Target # None THEN Link(Target) ELSE <<special, "denied">>,
                None, None, FdColumn[special])
  /\ pc' = "stat"
  /\ UNCHANGED <<envVars, stale, pids, pid, info, special, lines, area, lastinode, fds, fd,
                 open, ansarr, endVars>>

StatSpecial ==
  /\ pc = "stat"
  /\ LET type == IF Target = None THEN "unknown" ELSE Kind(Target) IN
       row' = [row EXCEPT !.type = type, !.node = IF type = "unknown" THEN @ ELSE Target]
  /\ List(row', IF special = "exe" THEN "maps" ELSE "readlink")
  /\ special' = CASE special = "cwd" -> "root" [] OTHER -> "exe"
  /\ UNCHANGED <<envVars, stale, pids, pid, info, lines, area, lastinode, fds, fd, open, endVars>>

----------------------------------------------------------------------------
(* handlemapfiles: the mapped files.                                       *)

OpenMaps ==
  /\ pc = "maps"
  /\ IF Readable /\ CanOpen
     THEN /\ open' = KeptOpen /\ stale' = FALSE /\ pc' = "fgets"
          /\ lines' = <<>> /\ area' = -1 /\ lastinode' = None /\ UNCHANGED ansarr
     ELSE NoFd("maps", "opendir") /\ UNCHANGED <<open, stale, lines, area, lastinode>>
  /\ UNCHANGED <<envVars, pids, pid, info, special, fds, fd, row, endVars>>

\* fgets() needs another read(), which goes on behind the last area it got.  The
\* stream belongs to the memory the process had when it was opened: after an
\* exit or an exec it is at its end, after other changes it shows them.
ReadMaps ==
  /\ pc = "fgets" /\ DOMAIN lines = {}
  /\ LET more == {a \in Areas : a > area} IN
       \/ /\ ~stale /\ more # {}
          /\ lines' = [a \in Buffered(more) |-> proc[pid].maps[a]] /\ UNCHANGED pc
       \/ /\ stale \/ pid \in touched \/ more = {}
          /\ pc' = "opendir" /\ UNCHANGED lines
  /\ UNCHANGED <<envVars, stale, pids, pid, info, special, area, lastinode, fds, fd, row,
                 open, ansarr, endVars>>

ListsAnonymous(f) == f # lastinode \* mutant: lines with inode 0 are listed
AnyInode(f) == f # None \* mutant: the last inode is not remembered
Listable(f) == f # None /\ f # lastinode
\* The "(deleted)" of the line is behind a blank, which %s does not read.
MapColumn(f) == IF f \in NamedDeleted THEN <<"DEL">> ELSE <<"mem">>
strremove(f) == IF f \in NamedDeleted THEN <<"deleted", f>> ELSE f
ListMapping ==
  /\ pc = "fgets" /\ DOMAIN lines # {}
  /\ area' = Least(DOMAIN lines)
  /\ lines' = [a \in DOMAIN lines \ {area'} |-> lines[a]]
  /\ LET f == lines[area'] IN
       IF Listable(f)
       THEN List(Row(strremove(f), "REG", f, MapColumn(f)), "fgets") /\ lastinode' = f
       ELSE UNCHANGED <<pc, lastinode, ansarr>>
  /\ UNCHANGED <<envVars, stale, pids, pid, info, special, fds, fd, row, open, endVars>>

----------------------------------------------------------------------------
(* handlefdfiles: the descriptors.                                         *)

OpenFds ==
  /\ pc = "opendir"
  /\ IF Readable /\ CanOpen
     THEN open' = open + 1 /\ stale' = FALSE /\ fds' = {} /\ fd' = -1 /\ pc' = "readdir"
          /\ UNCHANGED ansarr
     ELSE NoFd("fd", "walk") /\ UNCHANGED <<open, stale, fds, fd>>
  /\ UNCHANGED <<envVars, pids, pid, info, special, lines, area, lastinode, row, endVars>>

ReadFds ==
  /\ pc = "readdir" /\ fds = {}
  /\ LET more == IF stale THEN {} ELSE {n \in Fds : n > fd /\ proc[pid].fds[n] # None} IN
       IF more # {}
       THEN fds' = Buffered(more) /\ UNCHANGED <<pc, open>>
       ELSE pc' = "walk" /\ open' = open - 1 /\ UNCHANGED fds
  /\ UNCHANGED <<envVars, stale, pids, pid, info, special, lines, area, lastinode, fd, row,
                 ansarr, endVars>>

\* By name, so that the process may be another one by now.
FdTarget(n) == IF Readable THEN proc[pid].fds[n] ELSE None
FdMode(f) == IF Perms[f] = {"r", "w"} THEN "u" ELSE IF "r" \in Perms[f] THEN "r" ELSE "w"
StatFd ==
  /\ pc = "readdir" /\ fds # {}
  /\ fd' = Least(fds) /\ fds' = fds \ {fd'}
  /\ LET f == FdTarget(fd') IN
       IF f = None \/ Perms[f] = {}
       THEN UNCHANGED <<pc, row>>
       ELSE row' = Row(None, Kind(f), f, <<fd', FdMode(f)>>) /\ pc' = "fdlink"
  /\ UNCHANGED <<envVars, stale, pids, pid, info, special, lines, area, lastinode, open, ansarr, endVars>>

ReadFdLink ==
  /\ pc = "fdlink"
  /\ row' = [row EXCEPT !.name = IF FdTarget(fd) # None THEN Link(FdTarget(fd))
                                                        ELSE <<"fd", "denied">>]
  /\ List(row', "readdir")
  /\ UNCHANGED <<envVars, stale, pids, pid, info, special, lines, area, lastinode, fds, fd, open, endVars>>

----------------------------------------------------------------------------
(* The filters, in the order of main(), and the output.                    *)

meetregex(target, pattern) == target \in pattern
\* A pattern that does not compile is only noticed when there is a row.
FilterC ==
  /\ pc = "filterC"
  /\ \E c \in COpts :
       /\ opts' = [opts EXCEPT !.c = c]
       /\ IF c = Bad /\ ansarr # <<>>
          THEN pc' = "abort" /\ show' = DOMAIN ansarr
          ELSE /\ show' = {i \in DOMAIN ansarr : c = None \/ meetregex(ansarr[i].command, c)}
               /\ pc' = "filterT"
  /\ UNCHANGED <<envVars, stale, walkVars, open, ansarr>>

ShowsAgain(t) == {i \in DOMAIN ansarr : ansarr[i].type = t}  \* mutant: -t forgets what -c hid
OfType(t) == {i \in show : ansarr[i].type = t}
FilterT ==
  /\ pc = "filterT"
  /\ \E t \in TOpts :
       /\ opts' = [opts EXCEPT !.t = t]
       /\ IF t = None THEN show' = show /\ pc' = "filterF"
          ELSE IF t \in Types THEN show' = OfType(t) /\ pc' = "filterF"
          ELSE show' = show /\ pc' = "invalid"
  /\ UNCHANGED <<envVars, stale, walkVars, open, ansarr>>

FilterF ==
  /\ pc = "filterF"
  /\ \E f \in FOpts :
       /\ opts' = [opts EXCEPT !.f = f]
       /\ IF f = Bad /\ ansarr # <<>>
          THEN pc' = "abort" /\ show' = show
          ELSE /\ show' = {i \in show : f = None \/ meetregex(ansarr[i].name, f)}
               /\ pc' = "done"
  /\ UNCHANGED <<envVars, stale, walkVars, open, ansarr>>

AnyNode(r) == r.fd # <<"NOFD">>  \* mutant: the type is not looked at
HasNode(r) == r.type # "unknown" /\ r.fd # <<"NOFD">>
printrown(r) == [r EXCEPT !.node = IF HasNode(r) THEN r.node ELSE ""]
printans == [i \in show |-> printrown(ansarr[i])]

----------------------------------------------------------------------------
Init ==
  /\ proc \in [Pids -> Images \cup {None}]
  /\ touched = {} /\ changes = 0 /\ stale = FALSE
  /\ pc = "getopt" /\ pids = {} /\ pid = 0
  /\ info = [user |-> "unknown", command |-> "."] /\ special = "cwd"
  /\ lines = <<>> /\ area = -1 /\ lastinode = None /\ fds = {} /\ fd = -1 /\ row = None
  /\ open = Base /\ ansarr = <<>> /\ show = {}
  /\ opts = [c |-> None, t |-> None, f |-> None]

Others == \E p \in Pids : Start(p) \/ Mutate(p) \/ Exit(p) \/ Reuse(p)
Walk == \/ OpenProc \/ ReadProc \/ FindUser \/ OpenCmdline \/ ReadCmdline
        \/ ReadSpecial \/ StatSpecial \/ OpenMaps \/ ReadMaps \/ ListMapping
        \/ OpenFds \/ ReadFds \/ StatFd \/ ReadFdLink
Program == GetOpt \/ Walk \/ FilterC \/ FilterT \/ FilterF
Next == Others \/ Program \/ (pc \in Ended /\ UNCHANGED vars)

Spec == Init /\ [][Next]_vars
FairSpec == Spec /\ WF_vars(Program)

----------------------------------------------------------------------------
(* What should hold.                                                       *)

\* Types of the variables: every row is complete when it enters ansarr, a
\* handle of a process that has not exited belongs to a living one, no row is
\* written behind the end of ansarr, and the indices to print are those of rows.
TypeOK ==
  /\ proc \in [Pids -> Images \cup {None}] /\ touched \subseteq Pids /\ changes \in 0 .. MaxChanges
  /\ pids \subseteq Pids /\ pid \in Pids \cup {0} /\ fds \subseteq Fds /\ fd \in Fds \cup {-1}
  /\ open \in Base .. Limit \cup {Base} /\ ansarr \in Seq(FileInfo)
  /\ Len(ansarr) <= ArrLen /\ pc # "overflow"
  /\ show \subseteq DOMAIN ansarr
  /\ pc \in {"read", "fgets", "readdir"} /\ ~stale /\ fds = {} => pid \in Alive

RowsOf(p) == {ansarr[i] : i \in {j \in DOMAIN ansarr : ansarr[j].pid = p}}
Denied(what) == <<what, "denied">>
\* The rows README.md of HW1 asks for, as fd, type, name and node: the mode is
\* the one a file was opened with (69-73), a mapping of a deleted file is DEL
\* (68), each opened file has a row (46) with its node (91) and its name without
\* a mark (101), and a file mapped several times has one (66).  What a kernel
\* thread's exe shows it does not say.
FileRow(column, f) == <<column, Kind(f), f, f>>
DeniedRow(column, link) == <<column, "unknown", Denied(link), "">>
Expected(i) ==
  IF i.sealed
  THEN {DeniedRow(<<"cwd">>, "cwd"), DeniedRow(<<"rtd">>, "root"), DeniedRow(<<"txt">>, "exe")}
  ELSE {FileRow(<<"cwd">>, i.cwd), FileRow(<<"rtd">>, i.root)}
       \cup {IF i.exe = None THEN DeniedRow(<<"txt">>, "exe") ELSE FileRow(<<"txt">>, i.exe)}
       \cup {<<IF f \in Deleted THEN <<"DEL">> ELSE <<"mem">>, "REG", f, f>> :
               f \in {i.maps[a] : a \in Areas} \ {None}}
       \cup {FileRow(<<n, i.modes[n]>>, i.fds[n]) : n \in {m \in Fds : i.fds[m] # None}}
NoFdRows(i) == IF i.sealed THEN {Denied("maps"), Denied("fd")} ELSE {}

\* The files for which the code does not do what README.md says, and the names
\* they may be listed by: MapColumn and strremove look for "deleted" within a
\* name, Kind knows no block device, FdMode shows the owner's permissions, and
\* without any of those StatFd lists nothing.
Strange(i) == {f \in Files : \/ f \in Deleted \cup NamedDeleted \/ Kind(f) = "unknown"
                             \/ \E n \in Fds : /\ i.fds[n] = f
                                               /\ Perms[f] = {} \/ i.modes[n] # FdMode(f)}
Names(S) == S \cup ({"deleted"} \X S) \cup (S \X {"(deleted)"})

\* After the walk, a process that nobody disturbed has exactly the rows of
\* README.md, under its user and command, whatever the processes around it did
\* and whatever descriptors the program has lost by then; only the rows of its
\* strange files are not looked at.  A process that never was has none.
Faithful ==
  pc \in {"filterC", "filterT", "filterF", "done"} =>
    \A p \in Pids \ touched :
      IF proc[p] = None THEN RowsOf(p) = {}
      ELSE LET i == proc[p]
               full == {r \in RowsOf(p) : r.fd # <<"NOFD">>} IN
           /\ {<<r.fd, r.type, r.name, printrown(r).node>> :
                 r \in {s \in full : s.name \notin Names(Strange(i))}}
              = {e \in Expected(i) : e[3] \notin Names(Strange(i))}
           /\ {r.name : r \in RowsOf(p) \ full} = NoFdRows(i)
           /\ \A r \in RowsOf(p) : /\ r.user = i.user
                                   /\ i.command # None => r.command = i.command

\* No file is listed twice for a process that nobody disturbs and that has the
\* mappings of each file in a row (README.md:66), even if its maps are read in
\* several pieces and others change in between.
InARow(i) == \A a, b, c \in Areas : a < b /\ b < c /\ i.maps[a] = i.maps[c] /\ i.maps[a] # None
                                     => i.maps[b] \in {None, i.maps[a]}
Twice(p) == \E j, k \in DOMAIN ansarr : j # k /\ ansarr[j].pid = p /\ ansarr[j] = ansarr[k]
ListedOnce == \A p \in Pids \ touched : proc[p] # None /\ InARow(proc[p]) => ~Twice(p)

\* "(Permission denied)" is printed because of the process looked at, and not
\* because the program ran out of descriptors or the link does not exist
\* (README.md:100).
NoFalseDenial ==
  \A n \in DOMAIN ansarr : LET r == ansarr[n] IN
    r.pid \notin touched /\ r.name \in Refusals => proc[r.pid].sealed

\* What is printed are the rows that pass every option, each option on its own.
ShownExactly ==
  pc = "done" =>
    show = {i \in DOMAIN ansarr : /\ opts.c = None \/ ansarr[i].command \in opts.c
                                  /\ opts.t = None \/ ansarr[i].type = opts.t
                                  /\ opts.f = None \/ ansarr[i].name \in opts.f}

\* Whatever a process does between the calls that make up its rows, the number
\* printed as the NODE of a row is one the program has read (hw1.c:201-224,
\* 335, 379, 457).
NodeReal == pc = "done" => \A i \in show : printans[i].node # None

\* The walk ends, whatever the processes do meanwhile.
Terminates == <>(pc \in Ended)
=============================================================================
