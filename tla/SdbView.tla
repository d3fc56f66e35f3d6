------------------------------ MODULE SdbView ------------------------------
(***************************************************************************)
(* What sdb shows of the program's memory: dump, disasm, the instruction   *)
(* in the message of a breakpoint, and the list of mappings.  dump and the *)
(* message read the child, whose text holds 0xcc where breakpoints are;    *)
(* disasm reads a process it forks for the purpose.  All of them read      *)
(* words of eight bytes.                                                   *)
(*                                                                         *)
(* Of the bytes that are none of the program's instructions the model      *)
(* knows what capstone makes of their first: its length, or that it        *)
(* decodes nothing, which ends a listing.                                  *)
(***************************************************************************)
EXTENDS SdbTransparent

CONSTANTS
  Word,                       \* bytes that one PTRACE_PEEKTEXT reads (8)
  DumpWords, DisasmWords,     \* words read by dump (10) and disasm (18)
  CodeSize, MaxShown,         \* bytes given to cs_disasm (150), lines shown (10)
  Mapped, Other,              \* addresses mapped around .text; any other byte
  Size,                       \* what capstone makes of a byte, 0 for nothing
  Maps, Junk,                 \* the file of each mapping of the child, NULL for
                              \* none; what an array that nobody set holds
  DumpArgs, DisasmArgs        \* addresses the user may type

\* The rest of a word that holds a byte of .text is mapped as well.
ASSUME ViewAssumption ==
  /\ Word \in Nat \ {0} /\ DumpWords \in Nat /\ DisasmWords \in Nat
  /\ CodeSize \in Nat /\ MaxShown \in Nat /\ Size \in [Byte \cup {Other} -> Nat]
  /\ DumpArgs \subseteq Nat /\ DisasmArgs \subseteq Nat
  /\ (TextStart - Word + 1) .. (TextStart + TextSize + Word - 2) \subseteq Mapped

VARIABLES
  shown,  \* what the last command printed, if it showed memory
  n_msg   \* the instruction remembered for each listed breakpoint

viewVars == <<vars, shown, n_msg>>

----------------------------------------------------------------------------
(* Reading words and decoding them.                                        *)

Memory(t) == [x \in Mapped |-> IF x \in Text THEN t[x] ELSE Other]

\* n words from address a on; a word that is not all mapped reads as -1.
SameWord(a, k) == a + 2 * Word * (k \div 2)  \* mutant: dump forgets the "+8"
WordAt(a, k) == a + Word * k
Words(t, a, n) ==
  LET base(k) == WordAt(a, k)
      word(k) == base(k) .. (base(k) + Word - 1)
  IN [x \in a .. (a + n * Word - 1) |->
        LET k == (x - a) \div Word
            y == base(k) + ((x - a) % Word)
        IN IF word(k) \subseteq Mapped THEN Memory(t)[y] ELSE ErrByte]

Reading(t, a, n) == IF Live THEN Words(t, a, n) ELSE [x \in a .. (a + n * Word - 1) |-> ErrByte]

\* cs_disasm finds an instruction at x, and all of it.
Bytes(x, n) == x .. (x + n - 1)
InstrLength(code, x) ==
  IF x \in Starts /\ \A b \in Bytes(x, Length[x]) : b \in DOMAIN code /\ code[b] = Orig[b]
  THEN Length[x] ELSE Size[code[x]]
Decodes(code, x) ==
  /\ x \in DOMAIN code /\ InstrLength(code, x) > 0
  /\ Bytes(x, InstrLength(code, x)) \subseteq DOMAIN code
Line(code, x) == [b \in Bytes(x, InstrLength(code, x)) |-> code[b]]

----------------------------------------------------------------------------
(* The commands.                                                           *)

\* "dump": five lines of sixteen bytes of the child.
Dump(a) ==
  /\ dbg = "prompt"
  /\ shown' = [cmd |-> "dump", from |-> a, bytes |-> Reading(text, a, DumpWords)]
  /\ UNCHANGED <<vars, n_msg>>

\* What cs_disasm is given: the words read, and zeros behind them.
Buffer(code, a) ==
  [x \in a .. (a + CodeSize - 1) |-> IF x \in DOMAIN code THEN code[x] ELSE Other]

\* Where it finds the instructions of a buffer that begins at a: one behind the
\* other, up to the first bytes that are none.
starts(buffer, a) ==
  LET start[k \in 0 .. MaxShown] ==
        IF k = 0 THEN a
        ELSE IF Decodes(buffer, start[k - 1]) THEN start[k - 1] + InstrLength(buffer, start[k - 1])
        ELSE start[k - 1]
  IN start

\* The lines of disasm: at most ten, none at or past the end of .text; or
\* nothing but an error when already the first bytes are no instruction.
disasm_instr(code, a) ==
  LET buffer == Buffer(code, a)
      start == starts(buffer, a)
      inText(k) == start[k] < sh_addr + sh_size
      Ks == {k \in 0 .. (MaxShown - 1) : Decodes(buffer, start[k])}
  IN [cmd |-> "disasm", from |-> a,
      lines |-> {[at |-> start[k], line |-> Line(buffer, start[k])] : k \in {j \in Ks : inText(j)}},
      outOfRange |-> \E k \in Ks : ~inText(k),
      failed |-> ~Decodes(buffer, a)]

\* disasm reads the text of a process of its own, just executed.
FromChild == text  \* mutant: it reads the traced child
Fresh == Orig
gdbdisasm(a) ==
  /\ Disasm /\ helpers' = helpers + 1
  /\ shown' = disasm_instr(Words(Fresh, a, DisasmWords), a)
  /\ UNCHANGED n_msg

\* "vmmap": sscanf leaves the file name alone when the line has none, so that
\* a mapping without a file is shown with the name of the line above.  The
\* maps of a killed child are empty, or cannot be opened.
gdbvmmap ==
  /\ dbg = "prompt" /\ UNCHANGED n_msg
  /\ LET vm_filename[k \in 0 .. Len(Maps)] ==
           IF k = 0 THEN Junk ELSE IF Maps[k] = NULL THEN vm_filename[k - 1] ELSE Maps[k]
         lines == IF Live THEN DOMAIN Maps ELSE {}
     IN \/ UNCHANGED vars /\ shown' = [cmd |-> "vmmap", files |-> [k \in lines |-> vm_filename[k]]]
        \/ ~Live /\ End("segv") /\ shown' = NULL

\* The instruction that break remembers, read before 0xcc is poked.  When the
\* bytes are none, the array that should hold it stays as it was.
Message(a) == LET code == Reading(text, a, 2) IN IF Decodes(code, a) THEN Line(code, a) ELSE Junk

\* Every other step of the debugger, the child and the kernel.
Elsewhere ==
  /\ Next /\ helpers' <= helpers
  /\ n_msg' = [a \in Text |-> IF a \in Listed' \ Listed THEN Message(a)
                              ELSE IF a \in Listed' THEN n_msg[a] ELSE NULL]
  /\ shown' = NULL

ViewInit == Init /\ shown = NULL /\ n_msg = [a \in Text |-> NULL]
ViewNext ==
  \/ \E a \in DumpArgs : Dump(a)
  \/ \E a \in DisasmArgs : gdbdisasm(a)
  \/ gdbvmmap
  \/ Elsewhere

ViewSpec ==
  /\ ViewInit /\ [][ViewNext]_viewVars
  /\ WF_vars(ChildStep) /\ WF_vars(Wake)

----------------------------------------------------------------------------
(* Properties.                                                             *)

\* Every byte of .text belongs to an instruction, and MaxShown instructions of
\* m bytes fit the words that are read.
Tiled == \A s \in Starts : s + Length[s] \in Starts \cup {TextStart + TextSize}
FitWords(m) ==
  /\ \A s \in Starts : Length[s] <= m
  /\ m <= 2 * Word /\ MaxShown * m <= DisasmWords * Word /\ DisasmWords * Word <= CodeSize

Instruction(x) == [b \in Bytes(x, Length[x]) |-> Orig[b]]

\* disasm at an instruction shows the instructions of the program from there
\* on, as many as fit, with none of the 0xcc that breakpoints have put into
\* the child (HW4/README.md:44, hw4.c:657-760), and says that the end of .text
\* is reached exactly when less than ten are left and the bytes behind them
\* decode; and the message of a breakpoint names the program's own
\* instruction, whatever breakpoints were around it when it was set
\* (hw4.c:426-433).
DisasmExact ==
  /\ \A a \in Listed \cap Starts : Live => n_msg[a] = Instruction(a)
  /\ shown # NULL /\ shown.cmd = "disasm" /\ shown.from \in Starts /\ sh_size = TextSize =>
       LET rest == {s \in Starts : s >= shown.from}
           listed == {s \in rest : Cardinality({r \in rest : r < s}) < MaxShown}
           file == Buffer(Words(Orig, shown.from, DisasmWords), shown.from)
       IN /\ shown.lines = {[at |-> s, line |-> Instruction(s)] : s \in listed}
          /\ shown.outOfRange <=> /\ Cardinality(rest) < MaxShown
                                  /\ Decodes(file, TextStart + TextSize)

\* dump shows each byte of .text at its own address as the child has it: 0xcc
\* at exactly the listed breakpoints (HW4/README.md:45, hw4.c:372-391).
DumpExact ==
  shown # NULL /\ shown.cmd = "dump" /\ child = "stopped" =>
    \A x \in DOMAIN shown.bytes \cap Text : shown.bytes[x] = Planted[x]
=============================================================================
