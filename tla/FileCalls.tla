----------------------------- MODULE FileCalls -----------------------------
(***************************************************************************)
(* A program that makes the library calls HW2 monitors, one at a time,     *)
(* with no logger in between: what it asks for, what the call does to      *)
(* files, names and descriptors, and what it is told.  All of it is        *)
(* external to the repository; it is what hijack.c must preserve.          *)
(*                                                                         *)
(* A stream is the descriptor it was opened on, and is not buffered.  Of a *)
(* file's bytes the model keeps who wrote any of them.                     *)
(***************************************************************************)
EXTENDS Integers

CONSTANTS
  Paths, Files,      \* the paths the program knows; files
  Fds, Term,         \* descriptors; the file stderr is on at the start
  Counts,            \* bytes a read or a write may report
  Calls,             \* what the program may ask for
  None,              \* no file
  AnyResult,         \* calls whose results are left open
  MaxCalls,          \* bound: calls the program makes
  MaxOthers          \* bound: how often other processes change names

Failed == -1  \* -1, NULL, or a short count

PathOps == {"chmod", "chown", "creat", "open", "fopen", "remove"}
FdOps == {"close", "read", "write"}
StreamOps == {"fclose", "fread", "fwrite"}
Buffers == {None, "short", "long"}
Call == [op : PathOps, path : Paths]
        \cup [op : {"rename"}, path : Paths, to : Paths]
        \cup [op : FdOps \cup StreamOps, fd : Fds, buf : Buffers]
        \cup [op : {"tmpfile"}]

ASSUME CallAssumption ==
  /\ Calls \subseteq Call /\ Fds \subseteq Nat /\ 2 \in Fds
  /\ Counts \subseteq Nat
  /\ None \notin Files /\ Term \in Files /\ {MaxCalls, MaxOthers} \subseteq Nat

VARIABLES
  names, fdt,   \* the file of each path, and of each descriptor
  streams,      \* descriptors with an open stream
  content,      \* who has written to each file
  calls,        \* calls made
  others,       \* changes other processes have made
  at,           \* where the call is
  call, answer, \* the call, and what the library answered
  ret           \* what the program was told last

fileVars == <<names, fdt, streams, content>>
callVars == <<call, answer, ret>>
counters == <<calls, others>>
plainVars == <<fileVars, counters, at, callVars>>

----------------------------------------------------------------------------
(* The calls.                                                              *)

Free == {d \in Fds : fdt[d] = None}
Lowest == CHOOSE d \in Free : \A e \in Free : d <= e
Unused == {f \in Files \ {Term} : /\ \A p \in Paths : names[p] # f
                                  /\ \A d \in Fds : fdt[d] # f}

\* The file gets the least free descriptor, and a stream if asked for.
Opened(f, stream) ==
  /\ Free # {} /\ fdt' = [fdt EXCEPT ![Lowest] = f]
  /\ streams' = IF stream THEN streams \cup {Lowest} ELSE streams
  /\ answer' = Lowest
Created(f) == content' = [content EXCEPT ![f] = {}]

Perms == /\ call.op \in {"chmod", "chown"} /\ names[call.path] # None
         /\ answer' = 0 /\ UNCHANGED fileVars
Open == /\ call.op \in {"open", "fopen"} /\ names[call.path] # None
        /\ Opened(names[call.path], call.op = "fopen")
        /\ UNCHANGED <<names, content>>
Creat == /\ call.op = "creat"
         /\ \E f \in IF names[call.path] = None THEN Unused ELSE {names[call.path]} :
              Opened(f, FALSE) /\ Created(f) /\ names' = [names EXCEPT ![call.path] = f]
Tmpfile == /\ call.op = "tmpfile"
           /\ \E f \in Unused : Opened(f, TRUE) /\ Created(f)
           /\ UNCHANGED names
Close == /\ call.op \in {"close", "fclose"} /\ fdt[call.fd] # None
         /\ fdt' = [fdt EXCEPT ![call.fd] = None]
         /\ streams' = IF call.op = "fclose" THEN streams \ {call.fd} ELSE streams
         /\ answer' = 0 /\ UNCHANGED <<names, content>>
Read == /\ call.op \in {"read", "fread"} /\ fdt[call.fd] # None
        /\ answer' \in Counts /\ UNCHANGED fileVars
Write == /\ call.op \in {"write", "fwrite"} /\ fdt[call.fd] # None
         /\ content' = [content EXCEPT ![fdt[call.fd]] = @ \cup {"data"}]
         /\ answer' \in Counts /\ UNCHANGED <<names, fdt, streams>>
Remove == /\ call.op = "remove" /\ names[call.path] # None
          /\ names' = [names EXCEPT ![call.path] = None]
          /\ answer' = 0 /\ UNCHANGED <<fdt, streams, content>>
Rename == /\ call.op = "rename" /\ names[call.path] # None
          /\ names' = [names EXCEPT ![call.path] = None, ![call.to] = names[call.path]]
          /\ answer' = 0 /\ UNCHANGED <<fdt, streams, content>>
\* Any call may fail; fclose gives the stream up all the same.
Fail == /\ answer' = Failed /\ UNCHANGED <<names, fdt, content>>
        /\ streams' = IF call.op = "fclose" THEN streams \ {call.fd} ELSE streams

Effect == \/ Perms \/ Open \/ Creat \/ Tmpfile \/ Close \/ Read \/ Write
          \/ Remove \/ Rename \/ Fail

\* A stream is not used after its fclose.
Legal(c) == c.op \in StreamOps => c.fd \in streams

----------------------------------------------------------------------------
(* The program without a logger.                                           *)

Asked(c) == /\ c \in Calls /\ Legal(c) /\ calls < MaxCalls
            /\ call' = c /\ answer' = 0 /\ ret' = 0 /\ calls' = calls + 1
            /\ UNCHANGED <<fileVars, others>>
Ask == at = "idle" /\ at' = "asked" /\ \E c \in Calls : Asked(c)
Perform == at = "asked" /\ at' = "done" /\ Effect /\ UNCHANGED <<counters, call, ret>>
Told == /\ at = "done" /\ at' = "idle"
        /\ ret' = answer \/ call.op \in AnyResult
        /\ UNCHANGED <<fileVars, counters, call, answer>>

\* Another process removes a name, or gives it to a file.
Interfere == /\ others < MaxOthers /\ others' = others + 1
             /\ \E p \in Paths : \E f \in ({names[q] : q \in Paths} \cup {None}) \ {names[p]} :
                  names' = [names EXCEPT ![p] = f]
             /\ UNCHANGED <<fdt, streams, content, calls, at, callVars>>

InitFiles == /\ names \in [Paths -> (Files \ {Term}) \cup {None}]
             /\ fdt = [d \in Fds |-> IF d = 2 THEN Term ELSE None]
             /\ streams = {2} /\ content = [f \in Files |-> {}]
             /\ calls = 0 /\ others = 0 /\ at = "idle" /\ call = [op |-> "tmpfile"]
             /\ answer = 0 /\ ret = 0
PlainNext == Ask \/ Perform \/ Told \/ Interfere
PlainSpec == InitFiles /\ [][PlainNext]_plainVars
============================================================================
