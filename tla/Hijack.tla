------------------------------ MODULE Hijack ------------------------------
(***************************************************************************)
(* The logger of HW2/hijack.c: each monitored library function is replaced *)
(* by a wrapper that calls the original one, finds out the name of the     *)
(* file it is about, and writes a line to stderr.                          *)
(*                                                                         *)
(* A wrapper is three or four steps, because the name is looked up in a    *)
(* system call of its own, before or after the call it is about: other     *)
(* processes change names in between, each lookup may change errno, and    *)
(* stderr belongs to the program, which may close it.  Names are copied    *)
(* into buffers that do not always hold them, and the program's own data   *)
(* into one that it may not fit.                                           *)
(***************************************************************************)
EXTENDS FileCalls, Sequences

CONSTANTS
  Tiny,          \* files whose paths have at most 8 bytes
  Short,         \* <<how, what>> of the names that have at most 32 bytes
  IntMax         \* the largest int

\* A name is the absolute path of a path or of a file, or a path as passed.
NameOf == ({"real", "raw"} \X Paths) \cup ({"real"} \X Files)

\* Descriptors are ints.
ASSUME LoggerAssumption ==
  /\ IntMax \in Nat \ {0} /\ Fds \subseteq 0..IntMax
  /\ Short \subseteq NameOf /\ Tiny \subseteq {f \in Files : <<"real", f>> \in Short}

VARIABLES
  name,     \* realpathstr or fdname: what the line will call the file or files
  line,     \* the line of the call; its op is "lost" if stderr did not take it
  meant,    \* when it was asked for: the file of its fd, or of rename's new path
  errno,    \* "clear"; "call": set by a call that failed; "logger": by a lookup
  disturbed \* another process has changed a name since the call was asked for

NoLine == [op |-> "none", name |-> <<>>, result |-> 0]
logVars == <<name, line, meant, errno, disturbed>>
vars == <<plainVars, logVars>>

----------------------------------------------------------------------------
(* The helpers.                                                            *)

Name(h, w, all) == [how |-> h, what |-> w, whole |-> all]
Dot == Name("dot", None, TRUE)

\* realpath(3), or the string as it was passed.
rpath(p) == Name(IF names[p] # None THEN "real" ELSE "raw", p, TRUE)

\* readlink into fdname, whose sizeof is that of a pointer: eight bytes.
fdpath(d) == IF fdt[d] = None THEN Dot ELSE Name("real", fdt[d], fdt[d] \in Tiny)
\* The same with room for 1024 bytes.
streamname(d) == IF fdt[d] = None THEN Dot ELSE Name("real", fdt[d], TRUE)

\* Every name is printed through safestr, which stops after 32 bytes.
safestr(n) == Name(n.how, n.what, n.whole /\ (n = Dot \/ <<n.how, n.what>> \in Short))
\* It copies first, into 1024 bytes, and the data of a read or a write need
\* not end within them: what is next on the stack, the name, is overwritten.
Overruns(c) == c.op \in {"read", "write", "fread", "fwrite"} /\ c.buf = "long"
Spoilt == Name("spoilt", None, FALSE)

\* Every result passes through an int; descriptors are smaller anyway.
Narrow(n) == ((n + IntMax + 1) % (2 * (IntMax + 1))) - (IntMax + 1)

----------------------------------------------------------------------------
(* The wrappers: what is looked up before the call.                        *)

Enter(c, first) ==
  /\ at = "idle" /\ at' = first /\ Asked(c)
  /\ disturbed' = FALSE /\ errno' = "clear" /\ name' = <<>> /\ line' = NoLine
  /\ meant' = CASE c.op \in FdOps \cup StreamOps -> fdt[c.fd]
                [] c.op = "rename" -> names[c.to]
                [] OTHER -> None
PathCall(op, first) == \E p \in Paths : Enter([op |-> op, path |-> p], first)
FdCall(op) == \E d \in Fds, b \in Buffers : Enter([op |-> op, fd |-> d, buf |-> b], "lookup")

chmod == PathCall("chmod", "call")
chown == PathCall("chown", "call")
close == FdCall("close")
creat == PathCall("creat", "call")
fclose == FdCall("fclose")
fopen == PathCall("fopen", "call")
fread == FdCall("fread")
fwrite == FdCall("fwrite")
open == PathCall("open", "call")
read == FdCall("read")
remove == PathCall("remove", "lookup")
rename == \E p, q \in Paths : Enter([op |-> "rename", path |-> p, to |-> q], "lookup")
tmpfile == Enter([op |-> "tmpfile"], "call")
write == FdCall("write")

----------------------------------------------------------------------------
(* What they have in common.                                               *)

AlsoRemove == {"chmod", "chown", "creat", "fopen", "open", "remove"}  \* mutant: resolved twice
AlsoFclose == {"chmod", "chown", "creat", "fopen", "open", "fclose"}  \* mutant: looked up once more
NotOpen == {"chmod", "chown", "creat", "fopen"}  \* mutant: open's rpath is missing
NamedAfter == {"chmod", "chown", "creat", "fopen", "open"}

Found == CASE call.op \in FdOps -> <<fdpath(call.fd)>>
           [] call.op \in StreamOps -> <<streamname(call.fd)>>
           [] call.op = "rename" -> <<rpath(call.path), rpath(call.to)>>
           [] OTHER -> <<rpath(call.path)>>

Lookup ==
  /\ at = "lookup" /\ at' = "call"
  /\ name' = Found /\ errno' \in {errno, "logger"}
  /\ UNCHANGED <<fileVars, counters, callVars, line, meant, disturbed>>

\* answer = orig_fnc(...)
Original ==
  /\ at = "call" /\ at' = IF call.op \in NamedAfter THEN "resolve" ELSE "log"
  /\ Effect
  /\ errno' = IF answer' = Failed THEN "call" ELSE errno
  /\ UNCHANGED <<counters, call, ret, name, line, meant, disturbed>>

\* rpath after the call; realpath sets errno when it fails, and leaves the
\* EINVAL of its last readlink when it does not.
Resolve ==
  /\ at = "resolve" /\ at' = "log"
  /\ name' = Found /\ errno' = "logger"
  /\ UNCHANGED <<fileVars, counters, callVars, line, meant, disturbed>>

\* fprintf(stderr, ...) and the return; close has no return statement and
\* returns what fprintf left in the register.
StderrWorks == 2 \in streams /\ fdt[2] # None
Counted == Narrow(answer)
\* mutant: fclose has lost its return as well
NoneReturned(printed) == IF call.op \in {"close", "fclose"} THEN (IF printed THEN 1 ELSE Failed)
                         ELSE Counted
Returned(printed) == IF call.op = "close" THEN (IF printed THEN 1 ELSE Failed) ELSE Counted
Fprintf ==
  /\ \E shown \in {[i \in DOMAIN name |-> safestr(name[i])]}
                 \cup (IF Overruns(call) THEN {<<Spoilt>>} ELSE {}) :
       line' = [op |-> IF StderrWorks THEN call.op ELSE "lost", name |-> shown, result |-> Counted]
  /\ IF StderrWorks
     THEN content' = [content EXCEPT ![fdt[2]] = @ \cup {"log"}] /\ UNCHANGED errno
     ELSE errno' = "logger" /\ UNCHANGED content
Log ==
  /\ at = "log" /\ at' = "idle" /\ Fprintf /\ ret' = Returned(StderrWorks)
  /\ UNCHANGED <<names, fdt, streams, counters, call, answer, name, meant, disturbed>>
\* A copy that goes far enough ends the program, in safestr or on the return.
Smash ==
  /\ at = "log" /\ Overruns(call) /\ at' = "crashed"
  /\ Fprintf \/ UNCHANGED <<line, content, errno>>
  /\ UNCHANGED <<names, fdt, streams, counters, callVars, name, meant, disturbed>>

Disturb == Interfere /\ disturbed' = TRUE /\ UNCHANGED <<name, line, meant, errno>>

Init == /\ InitFiles
        /\ name = <<>> /\ line = NoLine /\ meant = None /\ errno = "clear" /\ disturbed = FALSE
Wrapper == \/ chmod \/ chown \/ close \/ creat \/ fclose \/ fopen \/ fread \/ fwrite
           \/ open \/ read \/ remove \/ rename \/ tmpfile \/ write
Next == Wrapper \/ Lookup \/ Original \/ Resolve \/ Log \/ Smash \/ Disturb
Spec == Init /\ [][Next]_vars

----------------------------------------------------------------------------
(* Properties.                                                             *)

\* The types; a line is written only once its name is known, or both of them
\* (the locals of the wrappers start undefined).
TypeOK ==
  /\ names \in [Paths -> (Files \ {Term}) \cup {None}] /\ fdt \in [Fds -> Files \cup {None}]
  /\ streams \subseteq Fds /\ content \in [Files -> SUBSET {"data", "log"}]
  /\ calls \in 0..MaxCalls /\ others \in 0..MaxOthers
  /\ at \in {"idle", "lookup", "call", "resolve", "log", "crashed"}
  /\ Len(name) \in 0..2
  /\ at = "log" => Len(name) = CASE call.op = "tmpfile" -> 0 [] call.op = "rename" -> 2 [] OTHER -> 1
  /\ line.result \in -(IntMax + 1)..IntMax /\ ret \in -(IntMax + 1)..IntMax
  /\ meant \in Files \cup {None}
  /\ errno \in {"clear", "call", "logger"} /\ disturbed \in BOOLEAN

\* The wrapped program does what it does without the logger (hijack.c:62-425):
\* the same call with the same effect on names, descriptors, streams and data,
\* and the same result, whatever is looked up around it.  Left out are the log's
\* own text and the result of close; and only a read or write of data that do not
\* end within the buffer of safestr may end it where it would have gone on.
Plain == INSTANCE FileCalls WITH
  at <- CASE at \in {"idle", "crashed"} -> at [] at \in {"lookup", "call"} -> "asked" [] OTHER -> "done",
  content <- [f \in Files |-> content[f] \ {"log"}]
Transparent ==
  Plain!InitFiles /\ [][Plain!PlainNext \/ (Overruns(call) /\ at' = "crashed")]_(Plain!plainVars)

\* What the line of the call should be about.
Subjects ==
  CASE call.op \in PathOps -> <<<<"real", call.path>>>>
    [] call.op = "rename" -> <<<<"real", call.path>>, <<IF meant = None THEN "raw" ELSE "real", call.to>>>>
    [] call.op = "tmpfile" -> <<>>
    [] OTHER -> <<<<"real", meant>>>>

\* The arrays of the logger hold all of it.
Fits(subject) == subject \in Short /\ (call.op \in FdOps => meant \in Tiny)

\* The line that was written is about the call just made.
Logged == at = "idle" /\ line.op = call.op

\* Every wrapper looks the name up on the side of the call where it exists
\* (hijack.c:79, 120, 165, 334, 359): if the call succeeded, no other process
\* changed a name meanwhile and the data ended within its buffer, the line has
\* the absolute path of its argument, that of the file its descriptor had when
\* the program made the call (close and fclose take it away), or both paths of
\* a rename, the new one as it was passed if nothing had it; and all of each that
\* the logger's arrays hold.
NamesTheFile ==
  Logged /\ answer # Failed /\ ~disturbed /\ ~Overruns(call) =>
    /\ DOMAIN line.name = DOMAIN Subjects
    /\ \A i \in DOMAIN line.name :
         /\ <<line.name[i].how, line.name[i].what>> = Subjects[i]
         /\ Fits(Subjects[i]) => line.name[i].whole

\* A wrapper that finds the name before the call leaves the errno of a call
\* that failed to the program (hijack.c:109-130, 155-183, 210-273, 297-425),
\* as long as its line could be written.
ErrnoKept ==
  Logged /\ answer = Failed /\ call.op \notin {"chmod", "chown", "creat", "fopen", "open"} =>
    errno = "call"
============================================================================
