-------------------------------- MODULE Sdb --------------------------------
(***************************************************************************)
(* The instruction-level debugger of HW4/hw4.c and the program it traces.  *)
(*                                                                         *)
(* The debugger is one loop over commands; the traced program is a child   *)
(* process.  They meet at ptrace: the debugger plants the byte 0xcc at     *)
(* every breakpoint of its table, resumes the child, and sleeps in waitpid *)
(* until the child stops.  While it sleeps the child runs, and the outside *)
(* world may send the child a signal or kill it.                           *)
(*                                                                         *)
(* A command is atomic up to the waitpid it sleeps in: nothing else writes *)
(* the debugger's memory or a stopped child's text.  Addresses are the     *)
(* ones of the .text section, bytes are opaque values.                     *)
(***************************************************************************)
EXTENDS Integers, FiniteSets, Sequences

CONSTANTS
  TextStart, TextSize,  \* sh_addr and sh_size of the program's .text
  Byte, CC, ErrByte,    \* byte values; 0xcc; the 0xff of a failed PEEKTEXT
  Orig,                 \* the byte of the program file at each text address
  Starts, Length,       \* where its instructions start, and their lengths
  Succ, Exits, Entry,   \* where they lead, which ones exit, the first one
  ArrLen,               \* slots of bpoint_arr (256)
  Below,                \* words in front of bpoint_arr that delete may reach
  NULL,                 \* the null pointer; also "no address"
  STRAY,                \* a pointer to something that is no breakpoint
  Programs,             \* the names the user may load
  Sections,             \* the section headers that fopen finds under a name
  Executable,           \* the names that execvp finds
  BreakArgs, DeleteArgs, RipArgs,  \* arguments the user may type
  Outside, MaxSignals,  \* kinds of signal the child may get, and how many
  ProcLimit,            \* processes the debugger may have (RLIMIT_NPROC)
  RipRange              \* bound: the user resumes the child only from here

Text == TextStart .. (TextStart + TextSize - 1)
Slots == 0 .. (ArrLen - 1)
Cells == (0 - Below) .. (ArrLen - 1)
Bpoint == [n_addr : Text, n_chr : Byte]
Lifted == [addr : Text, byte : Byte]

ASSUME TextAssumption ==
  /\ TextStart \in Nat /\ TextSize \in Nat
  /\ CC \in Byte /\ ErrByte \in Byte /\ Orig \in [Text -> Byte]
ASSUME CodeAssumption ==
  /\ Starts \subseteq Text /\ Length \in [Starts -> Nat \ {0}]
  /\ \A a \in Starts : a .. (a + Length[a] - 1) \subseteq Text
  /\ Succ \in [Starts -> SUBSET Starts]
  /\ Exits \subseteq Starts /\ Entry \in Starts
ASSUME TableAssumption ==
  /\ ArrLen \in Nat /\ Below \in Nat
  /\ NULL \notin Bpoint /\ NULL \notin Lifted /\ NULL \notin Int
  /\ STRAY \notin Bpoint /\ STRAY # NULL
ASSUME FileAssumption ==
  /\ Executable \subseteq Programs
  /\ Sections \in [Programs -> Seq([name : STRING, sh_addr : Nat, sh_size : Nat])]
  /\ \A p \in Programs : \A i \in DOMAIN Sections[p] :
       Sections[p][i].name = ".text" =>
         Sections[p][i].sh_addr = TextStart /\ Sections[p][i].sh_size = TextSize
ASSUME InputAssumption ==
  /\ Outside \subseteq {"signal", "kill"}
  /\ BreakArgs \subseteq Nat /\ RipArgs \subseteq Nat
  /\ DeleteArgs \subseteq Int /\ \A i \in DeleteArgs : i + Below >= 0
  /\ MaxSignals \in Nat /\ ProcLimit \in Nat /\ RipRange \subseteq Int

VARIABLES
  dbg,       \* where main() is: a prompt, asleep in waitpid, or ended
  prog,      \* programstr
  sh_addr, sh_size,
  bpoint_arr, bpoint_arr_size,
  lifted,    \* oldaddr and the byte under it, while a breakpoint is lifted
  first,     \* the pending waitpid belongs to a "run" typed in state LOAD
  hit,       \* the address of the last "** breakpoint @" line
  helpers,   \* processes forked by disasm, all left stopped
  child,     \* the traced process, as the kernel sees it
  rip, text, \* its instruction pointer and its text bytes
  stop,      \* why it last stopped (the code never asks)
  moved,     \* it has executed an instruction since the last command
  signals    \* signals the outside may still send

tableVars == <<bpoint_arr, bpoint_arr_size>>
procVars == <<rip, text, stop, moved, signals>>
fileVars == <<prog, sh_addr, sh_size>>
vars == <<dbg, fileVars, tableVars, lifted, first, hit, helpers, child, procVars>>

Used == 0 .. (bpoint_arr_size - 1)
Listed == {bpoint_arr[i].n_addr : i \in Used}
Live == child \in {"stopped", "stepping", "running"}
Waiting == dbg \in {"stepover", "contwait", "siwait"}
Ended == dbg \in {"exit", "return", "errquit", "abort", "segv", "corrupt"}

----------------------------------------------------------------------------
(* The breakpoint table and the bytes of the child.                        *)

\* The least slot that holds the address, or -1.
seek_bpoint_arr(a) ==
  IF a \in Listed
  THEN CHOOSE i \in Used : /\ bpoint_arr[i].n_addr = a
                           /\ \A j \in 0 .. (i - 1) : bpoint_arr[j].n_addr # a
  ELSE -1

insert_bpoint_arr(a, b) ==
  /\ bpoint_arr' = [bpoint_arr EXCEPT ![bpoint_arr_size] = [n_addr |-> a, n_chr |-> b]]
  /\ bpoint_arr_size' = bpoint_arr_size + 1

\* The cells above idx move down by one; a negative idx moves slot 0 out of
\* the table, into the word in front of it.
KeepsLast(idx) ==  \* mutant: the slot that falls free is not cleared
  [i \in Cells |-> IF i \in idx .. (bpoint_arr_size - 2) THEN bpoint_arr[i + 1] ELSE bpoint_arr[i]]
Shifted(idx) ==
  [i \in Cells |-> IF i = bpoint_arr_size - 1 THEN NULL
                   ELSE IF i \in idx .. (bpoint_arr_size - 2) THEN bpoint_arr[i + 1]
                   ELSE bpoint_arr[i]]
remove_bpoint_arr(idx) ==
  IF bpoint_arr_size = 0 THEN UNCHANGED tableVars
  ELSE bpoint_arr' = Shifted(idx) /\ bpoint_arr_size' = bpoint_arr_size - 1

\* PTRACE_PEEKTEXT and PTRACE_POKETEXT; nothing checks whether they fail.
Peek(a) == IF Live THEN text[a] ELSE ErrByte
Poke(a, b) == text' = IF Live THEN [text EXCEPT ![a] = b] ELSE text

\* A fresh image of the program with every listed breakpoint planted.
PlantsNothing == Orig  \* mutant: breakpoints are not re-inserted in a new child
Planted == [a \in Text |-> IF a \in Listed THEN CC ELSE Orig[a]]

\* The byte of the breakpoint at rip is taken out of the child's text, and
\* whatever was lifted is put back.
LiftsNothing(mem, at) == mem  \* mutant: resume with the breakpoint in place
Lift(mem, at) == [mem EXCEPT ![at] = bpoint_arr[seek_bpoint_arr(at)].n_chr]
RestoresNothing == text  \* mutant: the breakpoint stepped over stays lifted
Restored == IF lifted = NULL THEN text ELSE [text EXCEPT ![lifted.addr] = lifted.byte]

\* The debugger's process ends; PTRACE_O_EXITKILL takes every tracee along.
End(how) ==
  /\ dbg' = how
  /\ child' = "none" /\ helpers' = 0
  /\ UNCHANGED <<fileVars, tableVars, lifted, first, hit, procVars>>

ForkOk == helpers + (IF Live THEN 1 ELSE 0) < ProcLimit

----------------------------------------------------------------------------
(* States NOT LOADED and LOADED.                                           *)

\* The first section with the name gives the bounds of .text.  When there is
\* none, or no file that can be opened, they stay what they were: 0.
readtextsection(p) ==
  LET named == {i \in DOMAIN Sections[p] : Sections[p][i].name = ".text"}
      header == Sections[p][CHOOSE i \in named : \A j \in named : i <= j]
  IN IF named = {} THEN UNCHANGED <<sh_addr, sh_size>>
     ELSE sh_addr' = header.sh_addr /\ sh_size' = header.sh_size

\* "load", or the name on the command line.  Nobody looks whether
\* readtextsection has failed: the program is reported as loaded all the same.
Load(p) ==
  /\ dbg = "noload"
  /\ dbg' = "load" /\ prog' = p
  /\ readtextsection(p)
  /\ UNCHANGED <<tableVars, lifted, first, hit, helpers, child, procVars>>

\* "exit", or the end of the script, at any prompt.
Exit == dbg \in {"noload", "load", "prompt"} /\ End("exit")

\* An empty line, or a command without its argument: strcpy from NULL.
BlankLine == dbg \in {"noload", "load", "prompt"} /\ End("segv")

\* The part that "run", "cont" and "r" share: a breakpoint under rip is
\* lifted and single-stepped over, otherwise the child just continues.
Resume(mem, at) ==
  /\ rip' = at /\ moved' = FALSE /\ hit' = NULL
  /\ \/ /\ at \in Listed
        /\ text' = Lift(mem, at)
        /\ lifted' = [addr |-> at, byte |-> mem[at]]
        /\ dbg' = "stepover" /\ child' = "stepping"
     \/ /\ at \notin Listed
        /\ text' = mem /\ lifted' = NULL
        /\ dbg' = "contwait" /\ child' = "running"

\* "run" or "start" typed in state LOADED, and the child executes the program.
Launches == dbg = "load" /\ ForkOk /\ prog \in Executable

\* fork fails, or the child cannot exec and exits under the assert.
LaunchFails ==
  /\ dbg = "load"
  /\ \/ ~ForkOk /\ End("errquit")
     \/ ForkOk /\ prog \notin Executable /\ End("abort")

\* "start": the child stops at its first instruction, breakpoints planted.
Start ==
  /\ Launches
  /\ dbg' = "prompt" /\ child' = "stopped" /\ rip' = Entry /\ text' = Planted
  /\ stop' = "exec" /\ moved' = FALSE /\ hit' = NULL
  /\ UNCHANGED <<fileVars, tableVars, lifted, first, helpers, signals>>

\* "run" in state LOADED: the same, and continue at once.
RunFromLoad ==
  /\ Launches
  /\ Resume(Planted, Entry)
  /\ first' = TRUE /\ stop' = "exec"
  /\ UNCHANGED <<fileVars, tableVars, helpers, signals>>

----------------------------------------------------------------------------
(* State RUNNING: resuming the child.                                      *)

AtPrompt == dbg = "prompt" /\ child = "stopped"

\* GETREGS on a child that was killed at the prompt, or an unknown register.
RegistersFail ==
  /\ dbg = "prompt"
  /\ End("errquit")

\* "cont", and "run" when the program is already running.
Cont ==
  /\ AtPrompt /\ rip \in RipRange
  /\ Resume(text, rip)
  /\ first' = FALSE
  /\ UNCHANGED <<fileVars, tableVars, helpers, stop, signals>>

\* waitpid returns from the step over a breakpoint, which is planted again.
\* A child that ended in that step cannot be continued: waitpid fails.
StepOverDone ==
  /\ dbg = "stepover"
  /\ \/ /\ child = "stopped"
        /\ text' = Restored
        /\ lifted' = NULL
        /\ dbg' = "contwait" /\ child' = "running"
        /\ UNCHANGED <<fileVars, tableVars, first, hit, helpers, rip, stop, moved, signals>>
     \/ child \in {"exited", "killed"} /\ End("errquit")

\* The child exited under waitpid: the message, and back to state LOADED.
ChildEnded ==
  /\ child = "exited"
  /\ dbg' = "load" /\ child' = "none" /\ lifted' = NULL
  /\ UNCHANGED <<fileVars, tableVars, first, hit, helpers, procVars>>

\* waitpid returns from PTRACE_CONT.  rip is moved back whatever the cause.
KeepsRip == rip  \* mutant: no rip-- at all
BackedUp == rip - 1
ContDone ==
  /\ dbg = "contwait"
  /\ \/ /\ child = "stopped"
        /\ hit' = IF BackedUp \in Listed THEN BackedUp ELSE NULL
        /\ rip' = BackedUp
        /\ dbg' = "prompt"
        /\ UNCHANGED <<fileVars, tableVars, lifted, first, helpers, child, text, stop, moved, signals>>
     \/ ~first /\ ChildEnded
     \/ first /\ child = "exited" /\ End("return")
     \/ child = "killed" /\ End("errquit")

\* "si".
Si ==
  /\ AtPrompt /\ rip \in RipRange
  /\ \/ /\ rip \in Listed
        /\ text' = Lift(text, rip)
        /\ lifted' = [addr |-> rip, byte |-> text[rip]]
     \/ rip \notin Listed /\ UNCHANGED <<text, lifted>>
  /\ dbg' = "siwait" /\ child' = "stepping" /\ moved' = FALSE /\ hit' = NULL
  /\ UNCHANGED <<fileVars, tableVars, first, helpers, rip, stop, signals>>

SiDone ==
  /\ dbg = "siwait"
  /\ \/ /\ child = "stopped"
        /\ text' = Restored
        /\ lifted' = NULL
        /\ hit' = IF rip \in Listed THEN rip ELSE NULL
        /\ dbg' = "prompt"
        /\ UNCHANGED <<fileVars, tableVars, first, helpers, child, rip, stop, moved, signals>>
     \/ ChildEnded
     \/ child = "killed" /\ End("errquit")

----------------------------------------------------------------------------
(* State RUNNING: the other commands.                                      *)

\* "break": refused outside .text and where a breakpoint already is.
InSection(a) == a >= sh_addr /\ a < sh_addr + sh_size
AcceptsTwice(a) == InSection(a)  \* mutant: no look at the table
Accepted(a) == InSection(a) /\ a \notin Listed
SavesPlanted(a) == CC  \* mutant: the byte is saved after 0xcc is poked
Saved(a) == Peek(a)
Break(a) ==
  /\ dbg = "prompt" /\ Accepted(a) /\ bpoint_arr_size < ArrLen
  /\ insert_bpoint_arr(a, Saved(a))
  /\ Poke(a, CC)
  /\ UNCHANGED <<dbg, fileVars, lifted, first, hit, helpers, child, rip, stop, moved, signals>>

\* The table is full and nothing checks it: the insert writes past the array.
BreakOverflow(a) ==
  /\ dbg = "prompt" /\ Accepted(a) /\ bpoint_arr_size >= ArrLen
  /\ End("corrupt")

\* "delete": an index past the end is refused, a negative one is not.  It
\* reads the words in front of the array: one of them is a breakpoint once an
\* earlier negative index has moved slot 0 there.
Delete(idx) ==
  /\ dbg = "prompt" /\ idx < bpoint_arr_size /\ bpoint_arr[idx] \in Bpoint
  /\ Poke(bpoint_arr[idx].n_addr, bpoint_arr[idx].n_chr)
  /\ remove_bpoint_arr(idx)
  /\ UNCHANGED <<dbg, fileVars, lifted, first, hit, helpers, child, rip, stop, moved, signals>>

\* What lies there otherwise is null, a crash, or belongs to another variable:
\* a crash, or a pointer to data with which the POKE fails.
DeleteStray(idx) ==
  /\ dbg = "prompt" /\ idx < bpoint_arr_size /\ bpoint_arr[idx] \notin Bpoint
  /\ \/ End("segv")
     \/ /\ bpoint_arr[idx] = STRAY
        /\ remove_bpoint_arr(idx)
        /\ UNCHANGED <<dbg, fileVars, lifted, first, hit, helpers, child, procVars>>

\* "set rip" (the other registers are data of the child).
SetRip(a) ==
  /\ AtPrompt
  /\ rip' = a /\ stop' = "exec" /\ hit' = NULL
  /\ UNCHANGED <<dbg, fileVars, tableVars, lifted, first, helpers, child, text, moved, signals>>

\* "disasm" reads a fresh process, and leaves it behind.
Disasm ==
  /\ dbg = "prompt"
  /\ \/ /\ ForkOk /\ helpers' = helpers + 1
        /\ UNCHANGED <<dbg, fileVars, tableVars, lifted, first, hit, child, procVars>>
     \/ ~ForkOk /\ End("errquit")

----------------------------------------------------------------------------
(* The child and the kernel (external): what ptrace and the processor do.  *)

Active == child \in {"stepping", "running"}
Intact(a) == \A b \in a .. (a + Length[a] - 1) : text[b] = Orig[b]
OrStop == child' = IF child = "stepping" THEN "stopped" ELSE child
debuggerVars == <<dbg, fileVars, tableVars, lifted, first, hit, helpers>>

\* int3 stops the child one byte further on.
ChildTrap ==
  /\ Active /\ rip \in Text /\ text[rip] = CC
  /\ child' = "stopped" /\ stop' = "int3" /\ rip' = rip + 1
  /\ UNCHANGED <<debuggerVars, text, moved, signals>>

ChildExec ==
  /\ Active /\ rip \in Starts \ Exits /\ text[rip] # CC /\ Intact(rip)
  /\ rip' \in Succ[rip] /\ moved' = TRUE /\ OrStop
  /\ stop' = IF child = "stepping" THEN "step" ELSE stop
  /\ UNCHANGED <<debuggerVars, text, signals>>

ChildExit ==
  /\ Active /\ rip \in Exits /\ text[rip] # CC /\ Intact(rip)
  /\ child' = "exited" /\ moved' = TRUE
  /\ UNCHANGED <<debuggerVars, rip, text, stop, signals>>

\* Bytes that are no instruction of the program: it faults or lands anywhere.
ChildWild ==
  /\ Active
  /\ rip \in Text => text[rip] # CC /\ ~(rip \in Starts /\ Intact(rip))
  /\ \/ child' = "stopped" /\ stop' = "signal" /\ UNCHANGED rip
     \/ /\ rip \in Text /\ rip' \in Text /\ OrStop
        /\ stop' = IF child = "stepping" THEN "step" ELSE stop
  /\ UNCHANGED <<debuggerVars, text, moved, signals>>

\* A signal for a traced process stops it before it is delivered.
Signal ==
  /\ "signal" \in Outside /\ signals > 0 /\ Active
  /\ child' = "stopped" /\ stop' = "signal" /\ signals' = signals - 1
  /\ UNCHANGED <<debuggerVars, rip, text, moved>>

Kill ==
  /\ "kill" \in Outside /\ signals > 0 /\ Live
  /\ child' = "killed" /\ signals' = signals - 1
  /\ UNCHANGED <<debuggerVars, rip, text, stop, moved>>

----------------------------------------------------------------------------
\* A program on the command line is loaded before the first prompt.  What is
\* in front of the array is not the debugger's to choose.
Init ==
  /\ dbg = "noload" /\ prog = NULL /\ sh_addr = 0 /\ sh_size = 0
  /\ bpoint_arr \in [Cells -> {NULL, STRAY}] /\ bpoint_arr_size = 0
  /\ \A i \in Slots : bpoint_arr[i] = NULL
  /\ lifted = NULL /\ first = FALSE /\ hit = NULL /\ helpers = 0
  /\ child = "none" /\ rip = Entry /\ text = Orig /\ stop = "exec"
  /\ moved = FALSE /\ signals = MaxSignals

ChildStep == ChildTrap \/ ChildExec \/ ChildExit \/ ChildWild
Wake == StepOverDone \/ ContDone \/ SiDone
Command ==
  \/ \E p \in Programs : Load(p)
  \/ Exit \/ BlankLine \/ LaunchFails \/ Start \/ RunFromLoad
  \/ RegistersFail \/ Cont \/ Si \/ Disasm
  \/ \E a \in BreakArgs : Break(a) \/ BreakOverflow(a)
  \/ \E i \in DeleteArgs : Delete(i) \/ DeleteStray(i)
  \/ \E a \in RipArgs : SetRip(a)
Finished == Ended /\ UNCHANGED vars
Next == Command \/ Wake \/ ChildStep \/ Signal \/ Kill \/ Finished

Spec == Init /\ [][Next]_vars

\* The kernel runs a child that can run, and waitpid returns once it stopped.
FairSpec == Spec /\ WF_vars(ChildStep) /\ WF_vars(Wake)

----------------------------------------------------------------------------
(* Properties.                                                             *)

\* Used slots hold breakpoints of .text, the slots above them are null.
TableOK ==
  /\ bpoint_arr_size \in 0 .. ArrLen
  /\ bpoint_arr \in [Cells -> Bpoint \cup {NULL, STRAY}]
  /\ \A i \in Slots : IF i \in Used THEN bpoint_arr[i] \in Bpoint ELSE bpoint_arr[i] = NULL

\* The variables have their types, the table as remove_bpoint_arr leaves it.
TypeOK ==
  /\ TableOK
  /\ dbg \in {"noload", "load", "prompt", "stepover", "contwait", "siwait",
              "exit", "return", "errquit", "abort", "segv", "corrupt"}
  /\ prog \in Programs \cup {NULL}
  /\ <<sh_addr, sh_size>> \in {<<0, 0>>, <<TextStart, TextSize>>}
  /\ lifted \in Lifted \cup {NULL}
  /\ first \in BOOLEAN /\ moved \in BOOLEAN
  /\ hit \in Text \cup {NULL}
  /\ helpers \in Nat /\ signals \in Nat
  /\ child \in {"none", "stopped", "stepping", "running", "exited", "killed"}
  /\ rip \in Int /\ text \in [Text -> Byte]
  /\ stop \in {"exec", "int3", "step", "signal"}

\* No negative index of delete has moved a breakpoint out of the table: after
\* that its 0xcc stays in the child, and a later one finds it there again.
NoneMovedOut == \A i \in Cells \ Slots : bpoint_arr[i] \notin Bpoint

\* Whenever the debugger shows a prompt or lets the child continue, the
\* child's text is the program's with 0xcc at exactly the listed breakpoints,
\* until a negative index moves one of them out of the table: none is left
\* lifted by a step over it, lost in a restart of the program or left behind by
\* a delete (hw4.c re-inserts at 211-220, 233, 479, 509, 537).
BreakpointsArmed ==
  NoneMovedOut /\ (AtPrompt \/ child = "running") => text = Planted

\* No address is listed twice, whatever is inserted and deleted in whatever
\* order: a breakpoint that was planted twice would have saved 0xcc (hw4.c:421).
UniqueAddresses ==
  \A i, j \in Used : bpoint_arr[i].n_addr = bpoint_arr[j].n_addr => i = j

\* Every slot remembers the program's own byte, so that deleting in any order
\* gives the program back (hw4.c:433, 460), until then too: a breakpoint set
\* again on a 0xcc that was left behind saves that.
SavedBytes ==
  NoneMovedOut /\ Live => \A i \in Used : bpoint_arr[i].n_chr = Orig[bpoint_arr[i].n_addr]

\* A child that was continued executes no instruction with a breakpoint on it
\* before it is stopped there, the instruction stepped over included.
NoMissedBreakpoint ==
  [][NoneMovedOut /\ child = "running" /\ (ChildExec \/ ChildExit) => rip \notin Listed]_vars

\* A stop after "cont" is announced as a breakpoint exactly when the child ran
\* into a planted 0xcc, and rip is then that breakpoint (hw4.c:547-553).
ReportExact ==
  [][ContDone /\ dbg' = "prompt" =>
       /\ stop = "int3" <=> hit' # NULL
       /\ stop = "int3" => hit' = rip']_vars

\* "cont" executes at least one instruction of the program before it shows the
\* next prompt: it never reports again the breakpoint it resumed from.
ContProgress == [][ContDone /\ dbg' = "prompt" => moved]_vars

\* The debugger gets the child back: it never sleeps in waitpid for ever when
\* every loop of the program has a breakpoint on it.
WaitReturns(loops) ==
  (Waiting /\ \A l \in loops : l \cap Listed # {}) ~> ~Waiting

=============================================================================
