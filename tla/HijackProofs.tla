---------------------------- MODULE HijackProofs ----------------------------
(***************************************************************************)
(* Proofs about Hijack, for every set of paths, files and descriptors: the *)
(* types, the name and the errno of every line, and, if no count is too    *)
(* large for an int, that the logger implements FileCalls, the program     *)
(* without it.                                                             *)
(***************************************************************************)
EXTENDS Hijack, FiniteSetTheorems, WellFoundedInduction, TLAPS

----------------------------------------------------------------------------
(* The inductive invariant.                                                *)

\* A call whose name is not looked up before it is made.
NamedLate == NamedAfter \cup {"tmpfile"}

\* Where a call can be.
Phase ==
  /\ at = "lookup" => call.op \notin NamedLate
  /\ at = "resolve" => call.op \in NamedAfter
\* The name is made once, by the time it is needed: of as many as the call has.
Names(c) == CASE c.op = "tmpfile" -> 0 [] c.op = "rename" -> 2 [] OTHER -> 1
NameShape ==
  /\ at = "lookup" => name = <<>>
  /\ at \in {"call", "resolve"} /\ call.op \in NamedLate => name = <<>>
  /\ (at = "call" /\ call.op \notin NamedLate) \/ at = "log" => Len(name) = Names(call)
TypeInv == /\ TypeOK /\ Phase /\ NameShape
           /\ call \in Call /\ answer \in {Failed, 0} \cup Counts \cup Fds

\* What was looked up before the call, by then.
FoundEarly ==
  CASE call.op \in FdOps \cup StreamOps -> <<<<IF meant = None THEN "dot" ELSE "real", meant>>>>
    [] call.op = "rename" -> <<<<IF names[call.path] = None THEN "raw" ELSE "real", call.path>>,
                               <<IF meant = None THEN "raw" ELSE "real", call.to>>>>
    [] OTHER -> <<<<IF names[call.path] = None THEN "raw" ELSE "real", call.path>>>>
\* The names as they stand are these.
Says(ns, pairs) == /\ DOMAIN ns = DOMAIN pairs
                   /\ \A i \in DOMAIN ns : <<ns[i].how, ns[i].what>> = pairs[i]

\* What the program meant by its descriptor, or by rename's new path, is still
\* so until the call is made; the name says it, and goes on saying it.
StillMeant ==
  at \in {"lookup", "call"} =>
    /\ call.op \in FdOps \cup StreamOps => meant = fdt[call.fd]
    /\ ~disturbed /\ call.op = "rename" => meant = names[call.to]
\* All of it is there, unless the eight bytes of fdname were not enough.
Complete == (call.op \in FdOps => meant \in Tiny) => \A i \in DOMAIN name : name[i].whole
NameInv ==
  /\ StillMeant
  /\ at = "call" /\ ~disturbed /\ call.op \notin NamedLate => Says(name, FoundEarly)
  /\ at = "resolve" /\ ~disturbed /\ answer # Failed => names[call.path] # None
  /\ at = "log" /\ ~disturbed /\ answer # Failed => Says(name, Subjects)
  /\ NamesTheFile

\* Nothing but the line comes between a call that failed and the program.
ErrnoInv ==
  /\ at = "log" /\ answer = Failed /\ call.op \notin NamedAfter => errno = "call"
  /\ ErrnoKept

----------------------------------------------------------------------------
(* The operators.                                                          *)

\* The parts of a call.
LEMMA CallType ==
  ASSUME NEW c \in Call
  PROVE  /\ c.op \in PathOps \cup {"rename"} \cup FdOps \cup StreamOps \cup {"tmpfile"}
         /\ c.op \in PathOps \cup {"rename"} => c.path \in Paths
         /\ c.op = "rename" => c.to \in Paths
         /\ c.op \in FdOps \cup StreamOps => c.fd \in Fds
<1>1. CASE c \in [op : PathOps, path : Paths]
  BY <1>1 DEF PathOps, FdOps, StreamOps
<1>2. CASE c \in [op : {"rename"}, path : Paths, to : Paths]
  BY <1>2 DEF PathOps, FdOps, StreamOps
<1>3. CASE c \in [op : FdOps \cup StreamOps, fd : Fds, buf : Buffers]
  BY <1>3 DEF PathOps, FdOps, StreamOps
<1>4. CASE c \in [op : {"tmpfile"}]
  BY <1>4 DEF PathOps, FdOps, StreamOps
<1> QED
  BY <1>1, <1>2, <1>3, <1>4 DEF Call

\* Of the free descriptors there is a least one.
LEMMA LeastFree == ASSUME Free # {} PROVE Lowest \in Free
<1>1. Free \subseteq Nat
  BY CallAssumption DEF Free
<1>2. PICK d \in Free : \A e \in Free : ~ (<<e, d>> \in OpToRel(<, Nat))
  BY <1>1, WFMin, NatLessThanWellFounded
<1>3. \A e \in Free : d <= e
  <2> SUFFICES ASSUME NEW e \in Free, e < d PROVE FALSE
    BY <1>1
  <2>1. <<e, d>> \in Nat \X Nat /\ <<e, d>>[1] < <<e, d>>[2]
    BY <1>1
  <2>2. <<e, d>> \in {ss \in Nat \X Nat : ss[1] < ss[2]}
    BY <2>1, Zenon
  <2> QED
    BY <1>2, <2>2, Zenon DEF OpToRel
<1> QED
  BY <1>2, <1>3 DEF Lowest

\* An int holds what it is given, and keeps what fits.
LEMMA NarrowType ==
  ASSUME NEW n \in Int
  PROVE  /\ Narrow(n) \in -(IntMax + 1) .. IntMax
         /\ n \in -1 .. IntMax => Narrow(n) = n
<1> DEFINE M == 2 * (IntMax + 1)
<1>1. M \in Nat \ {0} /\ IntMax \in Nat
  BY LoggerAssumption
<1>2. (n + IntMax + 1) % M \in 0 .. M - 1
  BY <1>1
<1>3. n \in -1 .. IntMax => (n + IntMax + 1) % M = n + IntMax + 1
  BY <1>1
<1> QED
  BY <1>1, <1>2, <1>3 DEF Narrow

\* Every wrapper asks for one of the program's calls, and begins where it
\* must.
LEMMA WrapperEnters ==
  ASSUME Wrapper
  PROVE  \E c \in Calls : \E first \in {"lookup", "call"} :
           Enter(c, first) /\ (first = "call" <=> c.op \in NamedLate)
<1>1. ASSUME NEW c, NEW first \in {"lookup", "call"}, Enter(c, first),
             first = "call" <=> c.op \in NamedLate
      PROVE  \E d \in Calls : \E f \in {"lookup", "call"} :
               Enter(d, f) /\ (f = "call" <=> d.op \in NamedLate)
  BY <1>1 DEF Enter, Asked
<1>2. ASSUME NEW op \in NamedAfter, PathCall(op, "call")
      PROVE  \E c \in Calls : \E first \in {"lookup", "call"} :
               Enter(c, first) /\ (first = "call" <=> c.op \in NamedLate)
  BY <1>1, <1>2 DEF PathCall, NamedLate
<1>3. ASSUME NEW op \in FdOps \cup StreamOps, FdCall(op)
      PROVE  \E c \in Calls : \E first \in {"lookup", "call"} :
               Enter(c, first) /\ (first = "call" <=> c.op \in NamedLate)
  BY <1>1, <1>3 DEF FdCall, NamedLate, NamedAfter, FdOps, StreamOps
<1>4. CASE remove
  BY <1>1, <1>4 DEF remove, PathCall, NamedLate, NamedAfter
<1>5. CASE rename
  BY <1>1, <1>5 DEF rename, NamedLate, NamedAfter
<1>6. CASE tmpfile
  BY <1>1, <1>6 DEF tmpfile, NamedLate, NamedAfter
<1>7. CASE chmod \/ chown \/ creat \/ fopen \/ open
  BY <1>2, <1>7 DEF chmod, chown, creat, fopen, open, NamedAfter
<1>8. CASE close \/ fclose \/ fread \/ fwrite \/ read \/ write
  BY <1>3, <1>8 DEF close, fclose, fread, fwrite, read, write, FdOps, StreamOps
<1> QED
  BY <1>4, <1>5, <1>6, <1>7, <1>8 DEF Wrapper

\* What an effect does: the names and descriptors stay what they are, and the
\* answer is a descriptor, a count, or 0, unless the call failed.
LEMMA EffectType ==
  ASSUME TypeInv, Effect
  PROVE  /\ names' \in [Paths -> (Files \ {Term}) \cup {None}]
         /\ fdt' \in [Fds -> Files \cup {None}]
         /\ streams' \subseteq Fds /\ content' \in [Files -> SUBSET {"data", "log"}]
         /\ answer' \in {Failed, 0} \cup Counts \cup Fds
<1>1. /\ names \in [Paths -> (Files \ {Term}) \cup {None}] /\ fdt \in [Fds -> Files \cup {None}]
      /\ streams \subseteq Fds /\ content \in [Files -> SUBSET {"data", "log"}]
  BY DEF TypeInv, TypeOK
<1>2. /\ call.op \in PathOps \cup {"rename"} => call.path \in Paths
      /\ call.op = "rename" => call.to \in Paths
      /\ call.op \in FdOps \cup StreamOps => call.fd \in Fds
  BY CallType DEF TypeInv
<1> USE DEF PathOps, FdOps, StreamOps, fileVars
<1>3. ASSUME NEW f \in Files, NEW s, Opened(f, s)
      PROVE  /\ fdt' \in [Fds -> Files \cup {None}] /\ streams' \subseteq Fds /\ answer' \in Fds
  <2>1. Lowest \in Fds
    BY <1>3, LeastFree DEF Opened, Free
  <2> QED
    BY <1>1, <1>3, <2>1 DEF Opened
<1>4. ASSUME NEW f \in Files, Created(f)
      PROVE  content' \in [Files -> SUBSET {"data", "log"}]
  BY <1>1, <1>4 DEF Created
<1>5. CASE Perms
  BY <1>1, <1>5 DEF Perms
<1>6. CASE Open
  <2>1. names[call.path] \in Files
    BY <1>1, <1>2, <1>6 DEF Open
  <2> QED
    BY <1>1, <1>3, <1>6, <2>1 DEF Open
<1>7. CASE Creat
  <2>1. PICK f \in IF names[call.path] = None THEN Unused ELSE {names[call.path]} :
          Opened(f, FALSE) /\ Created(f) /\ names' = [names EXCEPT ![call.path] = f]
    BY <1>7 DEF Creat
  <2>2. f \in Files \ {Term}
    BY <1>1, <1>2, <1>7 DEF Creat, Unused
  <2> QED
    BY <1>1, <1>3, <1>4, <2>1, <2>2
<1>8. CASE Tmpfile
  BY <1>1, <1>3, <1>4, <1>8 DEF Tmpfile, Unused
<1>9. CASE Close
  BY <1>1, <1>9 DEF Close
<1>10. CASE Read
  BY <1>1, <1>10 DEF Read
<1>11. CASE Write
  <2>1. fdt[call.fd] \in Files
    BY <1>1, <1>2, <1>11 DEF Write
  <2> QED
    BY <1>1, <1>11, <2>1 DEF Write
<1>12. CASE Remove
  BY <1>1, <1>12 DEF Remove
<1>13. CASE Rename
  <2>1. names[call.path] \in Files \ {Term}
    BY <1>1, <1>2, <1>13 DEF Rename
  <2> QED
    BY <1>1, <1>13, <2>1 DEF Rename
<1>14. CASE Fail
  BY <1>1, <1>14 DEF Fail
<1> QED
  BY <1>5, <1>6, <1>7, <1>8, <1>9, <1>10, <1>11, <1>12, <1>13, <1>14 DEF Effect

\* An answer is an integer, and comes out of Narrow as an int.
LEMMA AnswerInt == ASSUME TypeInv PROVE answer \in Int
BY CallAssumption DEF TypeInv, Failed

\* As many names are found as the line has.
LEMMA FoundLen ==
  ASSUME call.op # "tmpfile"
  PROVE  Len(Found) = Names(call) /\ Len(Found) \in {1, 2}
BY DEF Found, Names, FdOps, StreamOps

\* The files without the lines in them.
written == [f \in Files |-> content[f] \ {"log"}]

\* Writing the line changes nothing but the file stderr is on.
LEMMA FprintfType ==
  ASSUME TypeInv, Fprintf
  PROVE  /\ content' \in [Files -> SUBSET {"data", "log"}] /\ errno' \in {errno, "logger"}
         /\ line'.result = Counted /\ written' = written
<1>1. content \in [Files -> SUBSET {"data", "log"}] /\ fdt \in [Fds -> Files \cup {None}]
  BY DEF TypeInv, TypeOK
<1>2. line'.result = Counted
  BY DEF Fprintf
<1>3. CASE StderrWorks
  <2>1. fdt[2] \in Files
    BY <1>1, <1>3, CallAssumption DEF StderrWorks
  <2> QED
    BY <1>1, <1>2, <1>3, <2>1 DEF Fprintf, written
<1>4. CASE ~StderrWorks
  BY <1>1, <1>2, <1>4 DEF Fprintf, written
<1> QED
  BY <1>3, <1>4

----------------------------------------------------------------------------
(* Types.                                                                  *)

LEMMA TypeInit == Init => TypeInv
<1> SUFFICES ASSUME Init PROVE TypeInv
  OBVIOUS
<1> USE DEF Init, InitFiles
<1>1. TypeOK
  <2>1. line.result = 0 /\ Len(name) = 0
    BY DEF NoLine
  <2>2. 0 \in -(IntMax + 1)..IntMax /\ 0 \in 0..MaxCalls /\ 0 \in 0..MaxOthers
    BY LoggerAssumption, CallAssumption
  <2>3. at # "log" /\ Len(name) \in 0..2 /\ line.result \in -(IntMax + 1)..IntMax
    BY <2>1, <2>2
  <2>4. /\ fdt \in [Fds -> Files \cup {None}] /\ streams \subseteq Fds
        /\ content \in [Files -> SUBSET {"data", "log"}]
    BY CallAssumption
  <2> HIDE DEF Init, InitFiles
  <2> QED
    BY <2>2, <2>3, <2>4 DEF Init, InitFiles, TypeOK
<1>2. Phase /\ NameShape
  BY DEF Phase, NameShape
<1>3. call \in Call /\ answer \in {Failed, 0} \cup Counts \cup Fds
  BY DEF Call
<1> QED
  BY <1>1, <1>2, <1>3 DEF TypeInv

LEMMA TypeNext == ASSUME TypeInv, [Next]_vars PROVE TypeInv'
<1> USE DEF fileVars, counters, callVars, logVars
<1>0. /\ TypeOK /\ Phase /\ NameShape /\ call \in Call
      /\ answer \in {Failed, 0} \cup Counts \cup Fds
  BY DEF TypeInv
<1>1. 0 \in -(IntMax + 1)..IntMax
  BY LoggerAssumption
<1>2. CASE Wrapper
  <2>1. PICK c \in Calls, first \in {"lookup", "call"} :
          Enter(c, first) /\ (first = "call" <=> c.op \in NamedLate)
    BY <1>2, WrapperEnters
  <2>2. Len(name') = 0 /\ line'.result = 0 /\ meant' \in Files \cup {None}
    <3>1. Len(name') = 0 /\ line'.result = 0
      BY <2>1 DEF Enter, NoLine
    <3>2. c \in Call
      BY CallAssumption
    <3>3. /\ c.op \in FdOps \cup StreamOps => fdt[c.fd] \in Files \cup {None}
          /\ c.op = "rename" => names[c.to] \in Files \cup {None}
      BY <1>0, <3>2, CallType DEF TypeOK
    <3>4. meant' = CASE c.op \in FdOps \cup StreamOps -> fdt[c.fd]
                     [] c.op = "rename" -> names[c.to]
                     [] OTHER -> None
      BY <2>1 DEF Enter
    <3> QED
      BY <3>1, <3>3, <3>4
  <2>3. TypeOK'
    <3>1. calls' \in 0..MaxCalls
      BY <1>0, <2>1, CallAssumption DEF Enter, Asked, TypeOK
    <3>2. at' \in {"lookup", "call"} /\ errno' = "clear" /\ disturbed' = FALSE /\ ret' = 0
          /\ UNCHANGED <<names, fdt, streams, content, others>>
      BY <2>1 DEF Enter, Asked
    <3>3. 0 \in -(IntMax + 1)..IntMax
      BY <1>1
    <3>4. at' # "log" /\ Len(name') \in 0..2 /\ at' \in {"idle", "lookup", "call", "resolve", "log", "crashed"}
      BY <2>2, <3>2
    <3>5. line'.result \in -(IntMax + 1)..IntMax /\ ret' \in -(IntMax + 1)..IntMax
      BY <2>2, <3>2, <3>3
    <3>6. /\ names' \in [Paths -> (Files \ {Term}) \cup {None}] /\ fdt' \in [Fds -> Files \cup {None}]
          /\ streams' \subseteq Fds /\ content' \in [Files -> SUBSET {"data", "log"}]
          /\ others' \in 0..MaxOthers
      BY <1>0, <3>2 DEF TypeOK
    <3> QED
      BY <2>2, <3>1, <3>2, <3>4, <3>5, <3>6 DEF TypeOK
  <2>4. Phase' /\ NameShape'
    BY <2>1 DEF Enter, Asked, Phase, NameShape
  <2> QED
    BY <2>1, <2>3, <2>4, CallAssumption DEF TypeInv, Enter, Asked
<1>3. CASE Lookup
  <2>1. at = "lookup" /\ at' = "call" /\ call' = call /\ call.op \notin NamedLate
    BY <1>0, <1>3 DEF Lookup, Phase
  <2>2. Len(name') = Names(call) /\ Len(name') \in {1, 2}
    BY <1>3, <2>1, FoundLen DEF Lookup, NamedLate
  <2>3. TypeOK'
    BY <1>0, <1>3, <2>1, <2>2 DEF Lookup, TypeOK
  <2>4. Phase' /\ NameShape'
    BY <2>1, <2>2 DEF Phase, NameShape, NamedLate, Names
  <2> QED
    BY <1>0, <1>3, <2>3, <2>4 DEF TypeInv, Lookup
<1>4. CASE Original
  <2>1. /\ at = "call" /\ at' = IF call.op \in NamedAfter THEN "resolve" ELSE "log"
        /\ UNCHANGED <<calls, others, call, ret, name, line, meant, disturbed>>
        /\ errno' \in {errno, "call"}
    BY <1>4 DEF Original
  <2>2. at' = "log" => Len(name') = Names(call')
    BY <1>0, <2>1 DEF NameShape, NamedLate, NamedAfter, Names
  <2>3. TypeOK'
    BY <1>0, <1>4, <2>1, <2>2, EffectType DEF Original, TypeOK, Names
  <2>4. Phase' /\ NameShape'
    BY <1>0, <2>1, <2>2 DEF Phase, NameShape, NamedLate, NamedAfter
  <2> QED
    BY <1>0, <1>4, <2>1, <2>3, <2>4, EffectType DEF TypeInv, Original
<1>5. CASE Resolve
  <2>1. /\ at = "resolve" /\ at' = "log" /\ call' = call /\ call.op \in NamedAfter
    BY <1>0, <1>5 DEF Resolve, Phase
  <2>2. Len(name') = 1 /\ Names(call') = 1
    BY <1>5, <2>1, FoundLen DEF Resolve, NamedAfter, Names
  <2>4. TypeOK'
    BY <1>0, <1>5, <2>2 DEF Resolve, TypeOK, Names
  <2>5. Phase' /\ NameShape'
    BY <2>1, <2>2 DEF Phase, NameShape, NamedAfter
  <2> QED
    BY <1>0, <1>5, <2>4, <2>5 DEF TypeInv, Resolve
<1>6. CASE Log
  <2>1. at' = "idle" /\ call' = call
    BY <1>6 DEF Log
  <2>2. Counted \in -(IntMax + 1)..IntMax
    BY AnswerInt, NarrowType DEF Counted
  <2>3. ret' \in -(IntMax + 1)..IntMax /\ line'.result \in -(IntMax + 1)..IntMax
    <3>1. 1 \in -(IntMax + 1)..IntMax /\ Failed \in -(IntMax + 1)..IntMax
      BY LoggerAssumption DEF Failed
    <3> QED
      BY <1>6, <2>2, <3>1 DEF Log, Fprintf, Returned
  <2>4. content' \in [Files -> SUBSET {"data", "log"}] /\ errno' \in {errno, "logger"}
    BY <1>6, FprintfType DEF Log
  <2>5. TypeOK'
    BY <1>0, <1>6, <2>1, <2>3, <2>4 DEF Log, TypeOK
  <2>6. Phase' /\ NameShape'
    BY <2>1 DEF Phase, NameShape
  <2> QED
    BY <1>0, <1>6, <2>5, <2>6 DEF TypeInv, Log
<1>7. CASE Smash
  <2>1. at' = "crashed"
    BY <1>7 DEF Smash
  <2>2. /\ content' \in [Files -> SUBSET {"data", "log"}] /\ errno' \in {errno, "logger"}
        /\ line'.result \in -(IntMax + 1)..IntMax
    <3>1. CASE Fprintf
      BY <3>1, FprintfType, AnswerInt, NarrowType DEF Counted
    <3>2. CASE UNCHANGED <<line, content, errno>>
      BY <1>0, <3>2 DEF TypeOK
    <3> QED
      BY <1>7, <3>1, <3>2 DEF Smash
  <2>3. TypeOK'
    BY <1>0, <1>7, <2>1, <2>2 DEF Smash, TypeOK
  <2>4. Phase' /\ NameShape'
    BY <2>1 DEF Phase, NameShape
  <2> QED
    BY <1>0, <1>7, <2>3, <2>4 DEF TypeInv, Smash
<1>8. CASE Disturb
  <2>1. /\ names' \in [Paths -> (Files \ {Term}) \cup {None}] /\ others' \in 0..MaxOthers
        /\ UNCHANGED <<fdt, streams, content, calls, at, call, answer, ret, name, line, meant, errno>>
        /\ disturbed' = TRUE
    BY <1>0, <1>8, CallAssumption DEF Disturb, Interfere, TypeOK
  <2>2. TypeOK'
    BY <1>0, <2>1 DEF TypeOK
  <2> QED
    BY <1>0, <2>1, <2>2 DEF TypeInv, Phase, NameShape
<1>9. CASE UNCHANGED vars
  BY <1>0, <1>9 DEF vars, plainVars, TypeInv, TypeOK, Phase, NameShape
<1> QED
  BY <1>2, <1>3, <1>4, <1>5, <1>6, <1>7, <1>8, <1>9 DEF Next

\* Every type, and every name is complete when its line is written
\* (hijack.c:62-425).
THEOREM TypeCorrect == Spec => []TypeOK
<1>1. TypeInv /\ [Next]_vars => TypeInv'
  BY TypeNext
<1>2. TypeInv => TypeOK
  BY DEF TypeInv
<1> QED
  BY TypeInit, <1>1, <1>2, PTL DEF Spec

----------------------------------------------------------------------------
(* The names in the lines.                                                 *)

\* A call that succeeded was about a file.
LEMMA EffectNames ==
  ASSUME TypeInv, Effect, answer' # Failed
  PROVE  /\ call.op \in NamedAfter => names'[call.path] # None
         /\ call.op \in {"remove", "rename"} => names[call.path] # None
         /\ call.op \in FdOps \cup StreamOps =>
              fdt[call.fd] # None /\ fdt'[call.fd] \in {fdt[call.fd], None}
<1>1. /\ call.op \in PathOps \cup {"rename"} => call.path \in Paths
      /\ call.op \in FdOps \cup StreamOps => call.fd \in Fds
  BY CallType DEF TypeInv
<1>2. names \in [Paths -> (Files \ {Term}) \cup {None}] /\ fdt \in [Fds -> Files \cup {None}]
  BY DEF TypeInv, TypeOK
<1> USE DEF NamedAfter, PathOps, FdOps, StreamOps, fileVars
<1>3. CASE Creat
  <2>1. PICK f \in IF names[call.path] = None THEN Unused ELSE {names[call.path]} :
          names' = [names EXCEPT ![call.path] = f]
    BY <1>3 DEF Creat
  <2>2. f # None
    BY CallAssumption, <2>1 DEF Unused
  <2> QED
    BY <1>1, <1>2, <1>3, <2>1, <2>2 DEF Creat
<1>4. CASE Close
  BY <1>1, <1>2, <1>4 DEF Close
<1>5. CASE Perms \/ Open \/ Tmpfile \/ Read \/ Write \/ Remove \/ Rename
  BY <1>5 DEF Perms, Open, Tmpfile, Read, Write, Remove, Rename
<1>6. CASE Fail
  BY <1>6 DEF Fail
<1> QED
  BY <1>3, <1>4, <1>5, <1>6 DEF Effect

LEMMA NameInit == Init => NameInv
BY DEF Init, InitFiles, NoLine, NameInv, StillMeant, NamesTheFile, Logged

LEMMA CompleteNext == ASSUME TypeInv, NameInv, Complete, [Next]_vars PROVE Complete'
<1> USE DEF fileVars, counters, callVars, logVars
<1>1. CASE Wrapper
  <2>1. PICK c \in Calls, first \in {"lookup", "call"} : Enter(c, first)
    BY <1>1, WrapperEnters
  <2> QED
    BY <2>1 DEF Enter, Complete
<1>2. CASE Lookup \/ Resolve
  <2>1. name' = Found /\ UNCHANGED <<call, meant>>
    BY <1>2 DEF Lookup, Resolve
  <2>2. CASE call.op \in FdOps
    <3>1. at = "lookup" /\ meant = fdt[call.fd]
      BY <1>2, <2>2 DEF Lookup, Resolve, TypeInv, Phase, NamedAfter, FdOps, NameInv, StillMeant
    <3>2. Found = <<fdpath(call.fd)>>
      BY <2>2 DEF Found, FdOps, StreamOps
    <3>3. meant \in Tiny => fdpath(call.fd).whole
      BY <3>1 DEF fdpath, Name, Dot
    <3> QED
      BY <2>1, <2>2, <3>2, <3>3 DEF Complete
  <2>3. CASE call.op \notin FdOps
    BY <2>1, <2>3 DEF Found, Complete, streamname, rpath, Name, Dot
  <2> QED
    BY <2>2, <2>3
<1>3. CASE Original \/ Log \/ Smash
  BY <1>3 DEF Original, Log, Smash, Complete
<1>4. CASE Disturb \/ UNCHANGED vars
  BY <1>4 DEF Disturb, Interfere, vars, plainVars, Complete
<1> QED
  BY <1>1, <1>2, <1>3, <1>4 DEF Next

LEMMA NameNext == ASSUME TypeInv, NameInv, Complete, [Next]_vars PROVE NameInv'
<1> USE DEF fileVars, counters, callVars, logVars
<1>1. Phase /\ NameShape
  BY DEF TypeInv
<1>sm. StillMeant
  BY DEF NameInv
<1>ops. call.op \in PathOps \cup {"rename"} \cup FdOps \cup StreamOps \cup {"tmpfile"}
  BY CallType DEF TypeInv
<1>2. CASE Wrapper
  <2>1. PICK c \in Calls, first \in {"lookup", "call"} :
          Enter(c, first) /\ (first = "call" <=> c.op \in NamedLate)
    BY <1>2, WrapperEnters
  <2>2. /\ at' \in {"lookup", "call"} /\ (at' = "call" => call'.op \in NamedLate)
        /\ call' = c /\ fdt' = fdt /\ names' = names
    BY <2>1 DEF Enter, Asked
  <2>3. meant' = CASE c.op \in FdOps \cup StreamOps -> fdt[c.fd]
                   [] c.op = "rename" -> names[c.to]
                   [] OTHER -> None
    BY <2>1 DEF Enter
  <2>4. /\ c.op \in FdOps \cup StreamOps => meant' = fdt'[c.fd]
        /\ c.op = "rename" => meant' = names'[c.to]
    BY <2>2, <2>3 DEF FdOps, StreamOps
  <2>5. ~Logged'
    BY <2>2 DEF Logged
  <2> QED
    BY <2>2, <2>4, <2>5 DEF NameInv, StillMeant, NamesTheFile
<1>3. CASE Lookup
  <2>1. /\ at = "lookup" /\ at' = "call" /\ name' = Found /\ call.op \notin NamedLate
        /\ UNCHANGED <<names, fdt, call, meant, disturbed>>
    BY <1>1, <1>3 DEF Lookup, Phase
  <2>2. FoundEarly' = FoundEarly
    BY <2>1 DEF FoundEarly
  <2>3. ~disturbed => Says(Found, FoundEarly)
    <3>1. CASE call.op \in FdOps
      <4>1. meant = fdt[call.fd]
        BY <1>sm, <2>1, <3>1 DEF StillMeant
      <4>2. Found = <<fdpath(call.fd)>>
        BY <3>1 DEF Found, FdOps, StreamOps
      <4>3. /\ fdpath(call.fd).how = IF meant = None THEN "dot" ELSE "real"
            /\ fdpath(call.fd).what = meant
        BY <4>1 DEF fdpath, Name, Dot
      <4>4. FoundEarly = <<<<IF meant = None THEN "dot" ELSE "real", meant>>>>
        BY <3>1 DEF FoundEarly, FdOps, StreamOps
      <4> QED
        BY <4>2, <4>3, <4>4 DEF Says
    <3>2. CASE call.op \in StreamOps
      BY <1>sm, <2>1, <3>2 DEF StillMeant, Found, FoundEarly, Says, streamname, Name, Dot, FdOps, StreamOps
    <3>3. CASE call.op = "rename"
      BY <1>sm, <2>1, <3>3 DEF StillMeant, Found, FoundEarly, Says, rpath, Name, FdOps, StreamOps
    <3>4. CASE call.op \notin FdOps \cup StreamOps \cup {"rename"}
      BY <2>1, <3>4 DEF Found, FoundEarly, Says, rpath, Name
    <3> QED
      BY <3>1, <3>2, <3>3, <3>4
  <2> QED
    BY <2>1, <2>2, <2>3 DEF NameInv, StillMeant, NamesTheFile, Logged, Says
<1>4. CASE Original
  <2>1. /\ at = "call" /\ at' = IF call.op \in NamedAfter THEN "resolve" ELSE "log"
        /\ Effect /\ UNCHANGED <<call, name, meant, disturbed>>
    BY <1>4 DEF Original
  <2>2. ~Logged'
    BY <2>1 DEF Logged
  <2>3. CASE call.op \in NamedAfter
    BY <2>1, <2>2, <2>3, EffectNames DEF NameInv, StillMeant, NamesTheFile
  <2>4. CASE call.op \notin NamedAfter
    <3>1. ASSUME answer' # Failed, ~disturbed PROVE Says(name, Subjects)
      <4>1. CASE call.op = "tmpfile"
        BY <1>1, <2>1, <4>1 DEF NameShape, NamedLate, Says, Subjects, PathOps
      <4>2. CASE call.op = "remove"
        <5>1. names[call.path] # None /\ Says(name, FoundEarly)
          BY <2>1, <3>1, <4>2, EffectNames DEF NameInv, StillMeant, NamedLate, NamedAfter
        <5> QED
          BY <4>2, <5>1 DEF FoundEarly, Subjects, PathOps, FdOps, StreamOps
      <4>3. CASE call.op = "rename"
        <5>1. names[call.path] # None /\ Says(name, FoundEarly)
          BY <2>1, <3>1, <4>3, EffectNames DEF NameInv, StillMeant, NamedLate, NamedAfter
        <5> QED
          BY <4>3, <5>1 DEF FoundEarly, Subjects, PathOps, FdOps, StreamOps
      <4>4. CASE call.op \in FdOps \cup StreamOps
        <5>1. meant # None /\ Says(name, FoundEarly)
          BY <2>1, <3>1, <4>4, EffectNames DEF NameInv, StillMeant, NamedLate, NamedAfter, FdOps, StreamOps
        <5> QED
          BY <4>4, <5>1 DEF FoundEarly, Subjects, PathOps, FdOps, StreamOps
      <4> QED
        BY <1>ops, <2>4, <4>1, <4>2, <4>3, <4>4 DEF NamedAfter, PathOps
    <3>2. Subjects' = Subjects
      BY <2>1 DEF Subjects
    <3> QED
      BY <2>1, <2>2, <2>4, <3>1, <3>2 DEF NameInv, StillMeant, NamesTheFile, Says
  <2> QED
    BY <2>3, <2>4
<1>5. CASE Resolve
  <2>1. /\ at = "resolve" /\ at' = "log" /\ call.op \in NamedAfter
        /\ UNCHANGED <<call, answer, disturbed, names, meant>> /\ name' = Found
    BY <1>1, <1>5 DEF Resolve, Phase
  <2>2. answer # Failed /\ ~disturbed => Says(Found, Subjects)
    BY <2>1 DEF NameInv, StillMeant, Found, Says, Subjects, rpath, Name, NamedAfter, PathOps, FdOps, StreamOps
  <2>3. Subjects' = Subjects
    BY <2>1 DEF Subjects
  <2> QED
    BY <2>1, <2>2, <2>3 DEF NameInv, StillMeant, NamesTheFile, Logged, Says
<1>6. CASE Log
  <2>1. at = "log" /\ at' = "idle" /\ Fprintf /\ UNCHANGED <<call, answer, disturbed, meant>>
    BY <1>6 DEF Log
  <2>2. ~Overruns(call) => line'.name = [i \in DOMAIN name |-> safestr(name[i])]
    BY <2>1 DEF Fprintf
  <2>3. ASSUME answer # Failed, ~disturbed, ~Overruns(call)
        PROVE  /\ Says(line'.name, Subjects)
               /\ \A i \in DOMAIN line'.name : Fits(Subjects[i]) => line'.name[i].whole
    <3>1. Says(name, Subjects)
      BY <2>1, <2>3 DEF NameInv, StillMeant
    <3>2. DOMAIN line'.name = DOMAIN name
      BY <2>2, <2>3
    <3>3. \A n : safestr(n).how = n.how /\ safestr(n).what = n.what
      BY DEF safestr, Name
    <3>4. ASSUME NEW i \in DOMAIN name, Fits(Subjects[i]) PROVE line'.name[i].whole
      <4>1. name[i].whole /\ <<name[i].how, name[i].what>> \in Short
        BY <3>1, <3>4 DEF Complete, Fits, Says
      <4>2. line'.name[i] = safestr(name[i])
        BY <2>2, <2>3
      <4>3. safestr(name[i]).whole
        BY <4>1 DEF safestr, Name
      <4> QED
        BY <4>2, <4>3
    <3> QED
      BY <2>2, <2>3, <3>1, <3>2, <3>3, <3>4 DEF Says
  <2>4. Subjects' = Subjects /\ (\A s : Fits(s)' <=> Fits(s))
    BY <2>1 DEF Subjects, Fits
  <2> QED
    BY <2>1, <2>3, <2>4 DEF NameInv, StillMeant, NamesTheFile, Says, Overruns
<1>7. CASE Smash
  <2>1. at' = "crashed"
    BY <1>7 DEF Smash
  <2> QED
    BY <2>1 DEF NameInv, StillMeant, NamesTheFile, Logged
<1>8. CASE Disturb
  <2>1. disturbed' /\ UNCHANGED <<at, call, name, fdt, meant>>
    BY <1>8 DEF Disturb, Interfere
  <2> QED
    BY <2>1 DEF NameInv, StillMeant, NamesTheFile
<1>9. CASE UNCHANGED vars
  <2>1. /\ FoundEarly' = FoundEarly /\ Subjects' = Subjects /\ (Logged' <=> Logged)
        /\ \A s : Fits(s)' <=> Fits(s)
    BY <1>9 DEF vars, plainVars, FoundEarly, Subjects, Logged, Fits
  <2> QED
    BY <1>9, <2>1 DEF vars, plainVars, NameInv, StillMeant, NamesTheFile, Says, Overruns
<1> QED
  BY <1>2, <1>3, <1>4, <1>5, <1>6, <1>7, <1>8, <1>9 DEF Next

\* The line of a call that succeeded has the resolved path of its argument, the
\* file its descriptor had when the program made the call, or both paths of a
\* rename, and all of it if the logger's arrays hold it, if no other process
\* changed a name meanwhile and the data ended within its buffer (hijack.c:79,
\* 120, 165, 334, 359).
THEOREM LinesNameTheFile == Spec => []NamesTheFile
<1>1. Init => TypeInv /\ NameInv /\ Complete
  BY TypeInit, NameInit DEF Init, Complete
<1>2. TypeInv /\ NameInv /\ Complete /\ [Next]_vars => TypeInv' /\ NameInv' /\ Complete'
  BY TypeNext, NameNext, CompleteNext
<1>3. NameInv => NamesTheFile
  BY DEF NameInv
<1> QED
  BY <1>1, <1>2, <1>3, PTL DEF Spec

----------------------------------------------------------------------------
(* errno.                                                                  *)

LEMMA ErrnoInit == Init => ErrnoInv
BY DEF Init, InitFiles, NoLine, ErrnoInv, ErrnoKept, Logged

LEMMA ErrnoNext == ASSUME TypeInv, ErrnoInv, [Next]_vars PROVE ErrnoInv'
<1> USE DEF fileVars, counters, callVars, logVars, NamedAfter, Logged
<1>1. CASE Wrapper
  <2>1. PICK c \in Calls, first \in {"lookup", "call"} : Enter(c, first)
    BY <1>1, WrapperEnters
  <2> QED
    BY <2>1 DEF Enter, ErrnoInv, ErrnoKept
<1>2. CASE Lookup
  BY <1>2 DEF Lookup, ErrnoInv, ErrnoKept
<1>3. CASE Original
  BY <1>3 DEF Original, ErrnoInv, ErrnoKept
<1>4. CASE Resolve
  BY <1>4 DEF Resolve, ErrnoInv, ErrnoKept, TypeInv, Phase
<1>5. CASE Log
  <2>1. call.op # "lost"
    BY CallType DEF TypeInv, PathOps, FdOps, StreamOps
  <2> QED
    BY <1>5, <2>1 DEF Log, Fprintf, ErrnoInv, ErrnoKept
<1>6. CASE Smash
  BY <1>6 DEF Smash, ErrnoInv, ErrnoKept
<1>7. CASE Disturb
  BY <1>7 DEF Disturb, Interfere, ErrnoInv, ErrnoKept
<1>8. CASE UNCHANGED vars
  BY <1>8 DEF vars, plainVars, ErrnoInv, ErrnoKept
<1> QED
  BY <1>1, <1>2, <1>3, <1>4, <1>5, <1>6, <1>7, <1>8 DEF Next

\* A wrapper that finds the name before the call leaves the errno of a failed
\* call to the program, if its line was written (hijack.c:109-130, 155-183,
\* 210-273, 297-425).
THEOREM ErrnoIsKept == Spec => []ErrnoKept
<1>1. Init => TypeInv /\ ErrnoInv
  BY TypeInit, ErrnoInit
<1>2. TypeInv /\ ErrnoInv /\ [Next]_vars => TypeInv' /\ ErrnoInv'
  BY TypeNext, ErrnoNext
<1>3. ErrnoInv => ErrnoKept
  BY DEF ErrnoInv
<1> QED
  BY <1>1, <1>2, <1>3, PTL DEF Spec

----------------------------------------------------------------------------
(* The refinement.                                                         *)

\* What the program without the logger would have at this point.
place == CASE at \in {"idle", "crashed"} -> at [] at \in {"lookup", "call"} -> "asked" [] OTHER -> "done"

\* The call has the same effect on files that have no lines in them.
LEMMA MapEffect == ASSUME TypeInv, Effect PROVE Plain!Effect
<1>1. content \in [Files -> SUBSET {"data", "log"}] /\ content' \in [Files -> SUBSET {"data", "log"}]
  BY EffectType DEF TypeInv, TypeOK
<1>2. fdt \in [Fds -> Files \cup {None}]
  BY DEF TypeInv, TypeOK
<1>3. call.op \in FdOps \cup StreamOps => call.fd \in Fds
  BY CallType DEF TypeInv
<1>4. Plain!Free = Free /\ Plain!Lowest = Lowest /\ Plain!Unused = Unused
  BY DEF Free, Lowest, Unused, Plain!Free, Plain!Lowest, Plain!Unused
<1>5. ASSUME NEW f, NEW s, Opened(f, s) PROVE Plain!Opened(f, s)
  BY <1>4, <1>5 DEF Opened, Plain!Opened
<1>6. ASSUME NEW f \in Files, Created(f) PROVE Plain!Created(f)
  BY <1>1, <1>6 DEF Created, Plain!Created
<1>7. content' = content => written' = written
  BY DEF written
<1> USE DEF fileVars, Plain!fileVars
<1>8. CASE Perms
  BY <1>7, <1>8 DEF Perms, Plain!Perms, Plain!Effect, written
<1>9. CASE Open
  BY <1>5, <1>7, <1>9 DEF Open, Plain!Open, Plain!Effect, written
<1>10. CASE Creat
  <2>1. PICK f \in IF names[call.path] = None THEN Unused ELSE {names[call.path]} :
          Opened(f, FALSE) /\ Created(f) /\ names' = [names EXCEPT ![call.path] = f]
    BY <1>10 DEF Creat
  <2>2. f \in Files
    BY <2>1, <1>10, CallType DEF Creat, Unused, TypeInv, TypeOK, PathOps
  <2>3. Plain!Creat
    BY <1>4, <1>5, <1>6, <1>10, <2>1, <2>2 DEF Creat, Plain!Creat
  <2> QED
    BY <2>3 DEF Plain!Effect
<1>11. CASE Tmpfile
  <2>1. PICK f \in Unused : Opened(f, TRUE) /\ Created(f)
    BY <1>11 DEF Tmpfile
  <2>2. Plain!Tmpfile
    BY <1>4, <1>5, <1>6, <1>11, <2>1 DEF Tmpfile, Plain!Tmpfile, Unused
  <2> QED
    BY <2>2 DEF Plain!Effect
<1>12. CASE Close
  BY <1>7, <1>12 DEF Close, Plain!Close, Plain!Effect, written
<1>13. CASE Read
  BY <1>7, <1>13 DEF Read, Plain!Read, Plain!Effect, written
<1>14. CASE Write
  <2>1. fdt[call.fd] \in Files
    BY <1>2, <1>3, <1>14 DEF Write, FdOps, StreamOps
  <2>2. written' = [written EXCEPT ![fdt[call.fd]] = written[fdt[call.fd]] \cup {"data"}]
    BY <1>1, <1>14, <2>1 DEF Write, written
  <2> QED
    BY <1>14, <2>2 DEF Write, Plain!Write, Plain!Effect, written
<1>15. CASE Remove
  BY <1>7, <1>15 DEF Remove, Plain!Remove, Plain!Effect, written
<1>16. CASE Rename
  BY <1>7, <1>16 DEF Rename, Plain!Rename, Plain!Effect, written
<1>17. CASE Fail
  BY <1>7, <1>17 DEF Fail, Failed, Plain!Fail, Plain!Failed, Plain!Effect, written
<1> QED
  BY <1>8, <1>9, <1>10, <1>11, <1>12, <1>13, <1>14, <1>15, <1>16, <1>17 DEF Effect

\* What fits into an int is returned as it is.
LEMMA ReturnsAnswer ==
  ASSUME Counts \subseteq 0..IntMax, TypeInv PROVE Counted = answer
<1>1. answer \in -1 .. IntMax
  BY LoggerAssumption DEF TypeInv, Failed
<1> QED
  BY <1>1, NarrowType DEF Counted

LEMMA MapNext ==
  ASSUME Counts \subseteq 0..IntMax, "close" \in AnyResult, TypeInv, [Next]_vars
  PROVE  [Plain!PlainNext \/ (Overruns(call) /\ at' = "crashed")]_(Plain!plainVars)
<1> USE DEF fileVars, counters, callVars, logVars, Plain!fileVars, Plain!counters,
            Plain!callVars, Plain!plainVars
<1>1. content' = content => written' = written
  BY DEF written
<1>2. CASE Wrapper
  <2>1. PICK c \in Calls, first \in {"lookup", "call"} : Enter(c, first)
    BY <1>2, WrapperEnters
  <2>2. place = "idle" /\ place' = "asked" /\ written' = written
    BY <1>1, <2>1 DEF Enter, Asked, place
  <2>3. Plain!Asked(c)
    BY <2>1, <2>2 DEF Enter, Asked, Legal, Plain!Asked, Plain!Legal, written, StreamOps,
       Plain!StreamOps
  <2>4. Plain!Ask
    BY <2>2, <2>3 DEF Plain!Ask, place
  <2> QED
    BY <2>4 DEF Plain!PlainNext
<1>3. CASE Lookup
  <2>1. place' = place /\ written' = written
    BY <1>1, <1>3 DEF Lookup, place
  <2> QED
    BY <1>3, <2>1 DEF Lookup, place, written
<1>4. CASE Original
  <2>1. place = "asked" /\ place' = "done" /\ Plain!Effect
    BY <1>4, MapEffect DEF Original, place
  <2>2. Plain!Perform
    BY <1>4, <2>1 DEF Original, Plain!Perform, place
  <2> QED
    BY <2>2 DEF Plain!PlainNext
<1>5. CASE Resolve
  <2>1. place' = place /\ written' = written
    BY <1>1, <1>5 DEF Resolve, place
  <2> QED
    BY <1>5, <2>1 DEF Resolve, place, written
<1>6. CASE Log
  <2>1. place = "done" /\ place' = "idle"
    BY <1>6 DEF Log, place
  <2>2. written' = written
    BY <1>6, FprintfType DEF Log
  <2>3. ret' = answer \/ call.op \in AnyResult
    BY <1>6, ReturnsAnswer DEF Log, Returned
  <2>4. Plain!Told
    BY <1>6, <2>1, <2>2, <2>3 DEF Log, Plain!Told, place, written
  <2> QED
    BY <2>4 DEF Plain!PlainNext
<1>7. CASE Smash
  BY <1>7 DEF Smash
<1>8. CASE Disturb
  <2>1. place' = place /\ written' = written
    BY <1>1, <1>8 DEF Disturb, Interfere, place
  <2>2. Plain!Interfere
    BY <1>8, <2>1 DEF Disturb, Interfere, Plain!Interfere, place, written
  <2> QED
    BY <2>2 DEF Plain!PlainNext
<1>9. CASE UNCHANGED vars
  <2>1. place' = place /\ written' = written
    BY <1>1, <1>9 DEF vars, plainVars, place
  <2> QED
    BY <1>9, <2>1 DEF vars, plainVars, place, written
<1> QED
  BY <1>2, <1>3, <1>4, <1>5, <1>6, <1>7, <1>8, <1>9 DEF Next

\* The logger is transparent: if no count is too large for an int, the program
\* does with it what it does without it, but for the result of close, and it can
\* be ended only in a read or write whose data do not end within the buffer they
\* are copied to (hijack.c:48-59, 62-425).
THEOREM LoggerTransparent ==
  ASSUME Counts \subseteq 0..IntMax, "close" \in AnyResult
  PROVE  Spec => Transparent
<1>1. Init => Plain!InitFiles
  BY DEF Init, InitFiles, Plain!InitFiles
<1>2. TypeInv /\ [Next]_vars => TypeInv'
  BY TypeNext
<1>3. TypeInv /\ [Next]_vars =>
        [Plain!PlainNext \/ (Overruns(call) /\ at' = "crashed")]_(Plain!plainVars)
  BY MapNext
<1> QED
  BY <1>1, <1>2, <1>3, TypeInit, PTL DEF Spec, Transparent
=============================================================================
