--------------------------- MODULE SdbViewProofs ---------------------------
(***************************************************************************)
(* Proofs about what the debugger shows, for every program, table, mapping *)
(* and word size: that dump shows the child's text with the breakpoints in *)
(* it, and that disasm and the messages of breakpoints show the program's  *)
(* own instructions.                                                       *)
(***************************************************************************)
EXTENDS SdbView, SdbProofs, FiniteSetTheorems

USE DEF tableVars, procVars, fileVars, debuggerVars, vars, viewVars, Text, Slots, Bpoint, Lifted

----------------------------------------------------------------------------
(* Words.                                                                  *)

\* Where a byte is in the words that are read.
LEMMA Split ==
  ASSUME NEW d \in Nat, NEW w \in Nat \ {0}
  PROVE  /\ d = w * (d \div w) + (d % w)
         /\ d \div w \in Nat /\ d % w \in 0 .. (w - 1)
OBVIOUS

\* Each byte of .text within the words that are read is read as it is: the
\* word that holds it is mapped.
LEMMA WordsRead ==
  ASSUME NEW t, NEW a \in Nat, NEW n, NEW x \in Text, x \in a .. (a + n * Word - 1)
  PROVE  Words(t, a, n)[x] = t[x]
<1> DEFINE base == WordAt(a, (x - a) \div Word)
           y == base + ((x - a) % Word)
<1>1. x \in Int /\ x >= a /\ x - a \in Nat /\ Word \in Nat \ {0}
  BY TextAssumption, ViewAssumption
<1>2. PICK k, r \in Nat : /\ k = (x - a) \div Word /\ r = (x - a) % Word
                          /\ x - a = Word * k + r /\ r < Word /\ Word * k \in Int
  <2>1. PICK d \in Nat : d = x - a
    BY <1>1
  <2>2. d = Word * (d \div Word) + (d % Word) /\ d \div Word \in Nat /\ d % Word \in 0 .. (Word - 1)
    BY <1>1, Split
  <2>3. \A k \in Nat : Word * k \in Int
    BY <1>1
  <2>4. d % Word \in Nat /\ d % Word < Word
    BY <1>1, <2>2
  <2> QED
    BY <2>1, <2>2, <2>3, <2>4
<1>3. base \in Int /\ base <= x /\ x < base + Word /\ y = x
  BY <1>1, <1>2 DEF WordAt
<1>4. base .. (base + Word - 1) \subseteq Mapped
  <2> HIDE DEF base
  <2>1. base .. (base + Word - 1) \subseteq (TextStart - Word + 1) .. (TextStart + TextSize + Word - 2)
    BY <1>1, <1>3, TextAssumption
  <2> QED
    BY <2>1, ViewAssumption
<1>5. x \in Mapped
  <2> HIDE DEF base
  <2>1. x \in base .. (base + Word - 1)
    BY <1>1, <1>3
  <2> QED
    BY <1>4, <2>1
<1>6. Words(t, a, n)[x] = Memory(t)[y]
  BY <1>4 DEF Words
<1> QED
  BY <1>3, <1>5, <1>6 DEF Memory

\* Whatever is read is bytes.
LEMMA WordsTyped ==
  ASSUME NEW t \in [Text -> Byte], NEW a \in Nat, NEW n, NEW x \in a .. (a + n * Word - 1), x \in Int
  PROVE  Words(t, a, n)[x] \in Byte \cup {Other}
<1> DEFINE base == WordAt(a, (x - a) \div Word)
           y == base + ((x - a) % Word)
           word == base .. (base + Word - 1)
<1>1. x >= a /\ x - a \in Nat /\ Word \in Nat \ {0}
  BY ViewAssumption
<1>2. y \in word
  <2>1. PICK d \in Nat : d = x - a
    BY <1>1
  <2>2. PICK r \in Nat : r = d % Word /\ r < Word
    <3>1. d % Word \in 0 .. (Word - 1)
      BY <1>1, Split
    <3> QED
      BY <1>1, <3>1
  <2>3. base \in Int
    <3>1. PICK k \in Nat : k = d \div Word
      BY <1>1, Split
    <3>2. Word * k \in Int
      BY <1>1
    <3> QED
      BY <2>1, <3>1, <3>2 DEF WordAt
  <2>4. y = base + r
    BY <2>1, <2>2
  <2> HIDE DEF base, y
  <2> QED
    BY <1>1, <2>2, <2>3, <2>4
<1>3. Words(t, a, n)[x] = IF word \subseteq Mapped THEN Memory(t)[y] ELSE ErrByte
  BY DEF Words
<1> HIDE DEF y, word
<1>4. CASE word \subseteq Mapped
  <2>1. y \in Mapped
    BY <1>2, <1>4
  <2>2. Memory(t)[y] \in Byte \cup {Other}
    BY <2>1 DEF Memory
  <2> QED
    BY <1>3, <1>4, <2>2
<1>5. CASE ~(word \subseteq Mapped)
  BY <1>3, <1>5, TextAssumption
<1> QED
  BY <1>4, <1>5

----------------------------------------------------------------------------
(* The debugger with what it shows is the debugger.                        *)

LEMMA ViewStep == ASSUME [ViewNext]_viewVars PROVE [Next]_vars
<1>1. CASE \E a \in DumpArgs : Dump(a)
  BY <1>1 DEF Dump
<1>2. CASE \E a \in DisasmArgs : gdbdisasm(a)
  BY <1>2 DEF gdbdisasm, Next, Command
<1>3. CASE gdbvmmap
  BY <1>3 DEF gdbvmmap, BlankLine, Next, Command
<1>4. CASE Elsewhere
  BY <1>4 DEF Elsewhere
<1> QED
  BY <1>1, <1>2, <1>3, <1>4 DEF ViewNext

\* What the commands that show memory leave alone.
LEMMA ShowStep ==
  ASSUME [ViewNext]_viewVars
  PROVE  \/ \E a \in DumpArgs : Dump(a)
         \/ \E a \in DisasmArgs : gdbdisasm(a)
         \/ gdbvmmap
         \/ Elsewhere
         \/ UNCHANGED viewVars
BY DEF ViewNext

----------------------------------------------------------------------------
(* dump.                                                                   *)

LEMMA DumpNext ==
  ASSUME TypeInv, TextInv, DumpExact, [ViewNext]_viewVars
  PROVE  DumpExact'
<1>1. ASSUME NEW a \in DumpArgs, Dump(a)
      PROVE  DumpExact'
  <2> SUFFICES ASSUME child = "stopped", NEW x \in DOMAIN shown'.bytes, x \in Text
               PROVE  shown'.bytes[x] = Planted[x]
    BY <1>1, TableUnchanged DEF Dump, DumpExact
  <2>1. shown'.bytes = Words(text, a, DumpWords)
    BY <1>1 DEF Dump, Reading, Live
  <2>2. x \in a .. (a + DumpWords * Word - 1)
    BY <2>1 DEF Words
  <2>3. Words(text, a, DumpWords)[x] = text[x]
    BY <2>2, WordsRead, ViewAssumption
  <2>4. text = Planted
    BY <1>1, TextImplies DEF Dump, AtPrompt
  <2> QED
    BY <2>1, <2>3, <2>4
<1>2. CASE \E a \in DisasmArgs : gdbdisasm(a)
  BY <1>2 DEF gdbdisasm, disasm_instr, DumpExact
<1>3. CASE gdbvmmap
  BY <1>3 DEF gdbvmmap, DumpExact
<1>4. CASE Elsewhere
  BY <1>4 DEF Elsewhere, DumpExact
<1>5. CASE UNCHANGED viewVars
  BY <1>5, TableUnchanged DEF DumpExact
<1> QED
  BY <1>1, <1>2, <1>3, <1>4, <1>5, ShowStep

\* dump shows every byte of .text as the child has it, 0xcc at exactly the
\* listed breakpoints, at whatever address it begins and whatever is mapped
\* around .text (hw4.c:372-391).
THEOREM DumpIsExact ==
  ASSUME DeleteArgs \subseteq Nat
  PROVE  ViewSpec => []DumpExact
<1>1. ViewInit => TypeInv /\ TextInv /\ DumpExact
  BY TypeInit, TextInit DEF ViewInit, DumpExact
<1>2. TypeInv /\ TextInv /\ DumpExact /\ [ViewNext]_viewVars => (TypeInv /\ TextInv /\ DumpExact)'
  BY ViewStep, TypeNext, NatWithin, TextNext, DumpNext
<1> QED
  BY <1>1, <1>2, PTL DEF ViewSpec

----------------------------------------------------------------------------
(* The messages of breakpoints.                                            *)

\* The bytes of a tame program's instruction hold no breakpoint but the one
\* on it.
LEMMA NotInside ==
  ASSUME Tame, Listed \subseteq Starts, NEW a \in Starts, NEW b \in a .. (a + Length[a] - 1), b # a
  PROVE  b \in Text /\ b \notin Listed
<1>1. b \in Text /\ a \in Int /\ b \in Int /\ Length[a] \in Nat
  BY CodeAssumption, TextAssumption
<1>2. ~(b \in Starts)
  BY <1>1 DEF Tame
<1> QED
  BY <1>1, <1>2

\* What is known of each breakpoint as long as the child it was set in lives.
MsgInv ==
  child # "killed" /\ ~Ended => \A a \in Listed \cap Starts : n_msg[a] = Instruction(a)

LEMMA MessageIs ==
  ASSUME Tame, ProgramInv, NEW m \in Nat, FitWords(m), AtPrompt, NEW a \in Starts, a \notin Listed
  PROVE  Message(a) = Instruction(a)
<1> DEFINE code == Words(text, a, 2)
<1>1. a \in Text /\ a \in Nat /\ Length[a] \in Nat \ {0} /\ Length[a] <= 2 * Word /\ Word \in Nat
  BY CodeAssumption, TextAssumption, ViewAssumption DEF FitWords
<1>2. text = Planted /\ Live
  BY TextImplies DEF ProgramInv, AtPrompt, Live
<1>3. ASSUME NEW b \in a .. (a + Length[a] - 1)
      PROVE  code[b] = Orig[b]
  <2>1. b \in Text /\ b \notin Listed
    BY NotInside, <1>1 DEF ProgramInv, ExecInv
  <2>2. b \in a .. (a + 2 * Word - 1)
    BY <1>1
  <2>3. code[b] = text[b]
    BY <1>1, <2>1, <2>2, WordsRead
  <2> QED
    BY <1>2, <2>1, <2>3 DEF Planted
<1> HIDE DEF code
<1>4. \A b \in Bytes(a, Length[a]) : b \in DOMAIN code /\ code[b] = Orig[b]
  <2>1. ASSUME NEW b \in Bytes(a, Length[a]) PROVE b \in DOMAIN code
    <3>1. b \in a .. (a + 2 * Word - 1)
      BY <1>1 DEF Bytes
    <3> QED
      BY <3>1 DEF code, Words
  <2> QED
    BY <1>3, <2>1 DEF Bytes
<1>5. a \in Bytes(a, Length[a])
  BY <1>1 DEF Bytes
<1>6. InstrLength(code, a) = Length[a]
  BY <1>4 DEF InstrLength
<1>7. Decodes(code, a)
  BY <1>1, <1>4, <1>5, <1>6 DEF Decodes
<1>8. Line(code, a) = Instruction(a)
  BY <1>4, <1>6 DEF Line, Instruction
<1> QED
  BY <1>2, <1>7, <1>8 DEF Message, Reading, code

\* A step that is no "break" lists nothing new.
LEMMA ListsNothing ==
  ASSUME Tame, ProgramInv, Next, ~(\E a \in BreakArgs : Break(a))
  PROVE  Listed' \subseteq Listed
<1>1. ASSUME NEW i \in DeleteArgs, Delete(i) PROVE Listed' \subseteq Listed
  <2>1. i \in Used
    BY <1>1, TableAssumption DEF Tame, Delete, ProgramInv, TypeInv, TypeOK, TableOK, Used
  <2> QED
    BY <1>1, <2>1, RemoveDrops DEF Delete, ProgramInv, TypeInv, TypeOK
<1>2. ASSUME NEW i \in DeleteArgs, DeleteStray(i) PROVE FALSE
  BY <1>2, NoStray DEF Tame, ProgramInv, TypeInv
<1>3. ASSUME UNCHANGED tableVars PROVE Listed' \subseteq Listed
  BY <1>3, TableUnchanged
<1>4. ASSUME NEW how, End(how) PROVE UNCHANGED tableVars
  BY <1>4 DEF End
<1>5. CASE Wake
  BY <1>3, <1>4, <1>5 DEF Wake, StepOverDone, ContDone, SiDone, ChildEnded
<1>6. CASE ChildStep \/ Signal \/ Kill \/ Finished
  BY <1>3, <1>6 DEF ChildStep, ChildTrap, ChildExec, ChildExit, ChildWild, Signal, Kill, Finished
<1>7. CASE Command
  <2>1. ASSUME NEW a \in BreakArgs, BreakOverflow(a) PROVE Listed' \subseteq Listed
    BY <2>1, <1>3, <1>4 DEF BreakOverflow
  <2>2. CASE Exit \/ BlankLine \/ LaunchFails \/ RegistersFail
    BY <2>2, <1>3, <1>4 DEF Exit, BlankLine, LaunchFails, RegistersFail
  <2>3. CASE Start \/ RunFromLoad \/ Cont \/ Si \/ Disasm
    BY <2>3, <1>3, <1>4 DEF Start, RunFromLoad, Cont, Si, Disasm
  <2>4. CASE (\E p \in Programs : Load(p)) \/ (\E a \in RipArgs : SetRip(a))
    BY <2>4, <1>3 DEF Load, SetRip
  <2> QED
    BY <1>1, <1>2, <1>7, <2>1, <2>2, <2>3, <2>4 DEF Command
<1> QED
  BY <1>5, <1>6, <1>7 DEF Next

\* A child that was killed is not heard of again.
LEMMA KilledStays ==
  ASSUME ProgramInv, Next, child = "killed"
  PROVE  (child = "killed" \/ Ended)'
BY DEF ProgramInv, TextInv, ChildPhase, Next, Command, Wake, ChildStep, Load, Exit, BlankLine,
   LaunchFails, Start, RunFromLoad, Launches, RegistersFail, Cont, Si, Disasm, Break, BreakOverflow,
   Delete, DeleteStray, SetRip, AtPrompt, StepOverDone, ContDone, SiDone, ChildEnded, ChildTrap,
   ChildExec, ChildExit, ChildWild, Active, Live, Signal, Kill, Finished, End, Ended

LEMMA EndedStays == ASSUME ProgramInv, Next, Ended PROVE Ended'
BY DEF ProgramInv, TextInv, ChildPhase, Next, Command, Wake, ChildStep, Load, Exit, BlankLine,
   LaunchFails, Start, RunFromLoad, Launches, RegistersFail, Cont, Si, Disasm, Break, BreakOverflow,
   Delete, DeleteStray, SetRip, AtPrompt, StepOverDone, ContDone, SiDone, ChildTrap,
   ChildExec, ChildExit, ChildWild, Active, Live, Signal, Kill, Finished, Ended

LEMMA MsgNext ==
  ASSUME Tame, ProgramInv, NEW m \in Nat, FitWords(m), MsgInv, [ViewNext]_viewVars
  PROVE  MsgInv'
<1>1. CASE Elsewhere
  <2> SUFFICES ASSUME child' # "killed", ~Ended', NEW a \in Listed' \cap Starts
               PROVE  n_msg'[a] = Instruction(a)
    BY DEF MsgInv
  <2>1. child # "killed" /\ ~Ended
    BY <1>1, KilledStays, EndedStays DEF Elsewhere
  <2>2. /\ a \in Listed => n_msg[a] = Instruction(a)
        /\ a \in Text
    BY <2>1, CodeAssumption DEF MsgInv
  <2>3. n_msg'[a] = IF a \in Listed THEN n_msg[a] ELSE Message(a)
    BY <1>1, <2>2 DEF Elsewhere
  <2>4. a \notin Listed => AtPrompt
    <3> SUFFICES ASSUME a \notin Listed PROVE AtPrompt
      OBVIOUS
    <3>1. PICK b \in BreakArgs : Break(b)
      BY <1>1, ListsNothing DEF Elsewhere
    <3> QED
      BY <3>1, <2>1 DEF Break, AtPrompt, ProgramInv, TextInv, ChildPhase
  <2> QED
    BY <2>2, <2>3, <2>4, MessageIs
<1>2. ASSUME UNCHANGED vars, n_msg' = n_msg PROVE MsgInv'
  BY <1>2, TableUnchanged DEF MsgInv, Ended
<1>3. CASE \E a \in DumpArgs : Dump(a)
  BY <1>2, <1>3 DEF Dump
<1>4. ASSUME NEW how \in {"segv", "errquit"}, End(how) PROVE MsgInv'
  BY <1>4 DEF MsgInv, End, Ended
<1>5. CASE \E a \in DisasmArgs : gdbdisasm(a)
  BY <1>5, <1>4, TableUnchanged DEF gdbdisasm, Disasm, MsgInv, Ended
<1>6. CASE gdbvmmap
  BY <1>2, <1>4, <1>6 DEF gdbvmmap
<1> QED
  BY <1>1, <1>2, <1>3, <1>5, <1>6, ShowStep

----------------------------------------------------------------------------
(* Decoding a buffer.                                                      *)

\* What holds of 0, and of n + 1 if of n, holds of every natural number.
LEMMA Inductive ==
  ASSUME NEW S, 0 \in S, \A n \in Nat : n \in S => n + 1 \in S
  PROVE  \A n \in Nat : n \in S
<1> SUFFICES ASSUME NEW x \in Nat \ S PROVE FALSE
  OBVIOUS
<1>1. PICK d \in Nat \ S : \A e \in Nat \ S : ~ (<<e, d>> \in OpToRel(<, Nat))
  BY WFMin, NatLessThanWellFounded
<1>2. d # 0 /\ d - 1 \in Nat /\ d = (d - 1) + 1
  OBVIOUS
<1>3. d - 1 \notin S
  BY <1>2
<1>4. <<d - 1, d>> \in Nat \X Nat /\ <<d - 1, d>>[1] < <<d - 1, d>>[2]
  BY <1>2
<1>5. <<d - 1, d>> \in {ss \in Nat \X Nat : ss[1] < ss[2]}
  BY <1>4, Zenon
<1> QED
  BY <1>1, <1>2, <1>3, <1>5, Zenon DEF OpToRel

\* The recursion of starts is well defined.
LEMMA StartsIs ==
  ASSUME NEW buffer, NEW a, NEW start, start = starts(buffer, a)
  PROVE  /\ start[0] = a
         /\ \A k \in 0 .. (MaxShown - 1) :
              start[k + 1] = IF Decodes(buffer, start[k])
                             THEN start[k] + InstrLength(buffer, start[k]) ELSE start[k]
<1> DEFINE after(x) == IF Decodes(buffer, x) THEN x + InstrLength(buffer, x) ELSE x
           Unrolled(f, n) == f = [k \in 0 .. n |-> IF k = 0 THEN a ELSE after(f[k - 1])]
           Good == {n \in Nat : \E f : Unrolled(f, n)}
<1>1. starts(buffer, a) = CHOOSE f : Unrolled(f, MaxShown)
  BY DEF starts
<1> HIDE DEF after
<1>2. 0 \in Good
  <2> DEFINE f == [k \in 0 .. 0 |-> a]
  <2>1. Unrolled(f, 0)
    OBVIOUS
  <2> QED
    BY <2>1
<1>3. ASSUME NEW n \in Nat, n \in Good PROVE n + 1 \in Good
  <2>1. PICK f : Unrolled(f, n)
    BY <1>3
  <2> DEFINE g == [k \in 0 .. (n + 1) |-> IF k = 0 THEN a ELSE after(f[k - 1])]
  <2>2. \A k \in 0 .. n : g[k] = f[k]
    BY <2>1
  <2>3. \A k \in 0 .. (n + 1) : g[k] = IF k = 0 THEN a ELSE after(f[k - 1])
    OBVIOUS
  <2>4. g = [k \in 0 .. (n + 1) |-> g[k]]
    OBVIOUS
  <2>5. \A k \in 0 .. (n + 1) : g[k] = IF k = 0 THEN a ELSE after(g[k - 1])
    <3> HIDE DEF g
    <3>1. \A k \in 0 .. (n + 1) : k # 0 => k - 1 \in 0 .. n
      OBVIOUS
    <3> QED
      BY <2>2, <2>3, <3>1
  <2>6. Unrolled(g, n + 1)
    <3> HIDE DEF g
    <3> QED
      BY <2>4, <2>5
  <2> HIDE DEF Unrolled, g
  <2> QED
    BY <2>6
<1>4. MaxShown \in Good
  <2> HIDE DEF Good
  <2>1. \A n \in Nat : n \in Good
    BY <1>2, <1>3, Inductive
  <2> QED
    BY <2>1, ViewAssumption
<1>5. Unrolled(start, MaxShown)
  <2>1. \E f : Unrolled(f, MaxShown)
    BY <1>4
  <2> HIDE DEF Unrolled
  <2> QED
    BY <1>1, <2>1
<1>6. start[0] = a
  BY <1>5, ViewAssumption
<1>7. \A k \in 0 .. (MaxShown - 1) : start[k + 1] = after(start[k])
  <2> SUFFICES ASSUME NEW k \in 0 .. (MaxShown - 1) PROVE start[k + 1] = after(start[k])
    OBVIOUS
  <2>1. k + 1 \in 0 .. MaxShown /\ k + 1 # 0 /\ (k + 1) - 1 = k
    BY ViewAssumption
  <2> QED
    BY <1>5, <2>1
<1> QED
  BY <1>6, <1>7 DEF after

Past == TextStart + TextSize
Onward(a) == {s \in Starts : s >= a}
Before(a, x) == {s \in Onward(a) : s < x}

LEMMA FiniteStarts ==
  ASSUME NEW a \in Nat
  PROVE  /\ \A s \in Onward(a) : s \in Nat /\ s >= a
         /\ IsFiniteSet(Onward(a)) /\ Cardinality(Onward(a)) \in Nat
         /\ \A x : IsFiniteSet(Before(a, x)) /\ Cardinality(Before(a, x)) \in Nat
<1>1. \A s \in Onward(a) : s \in Nat /\ s >= a
  BY CodeAssumption, TextAssumption DEF Onward
<1>2. IsFiniteSet(Text)
  BY TextAssumption, FS_Interval
<1>3. IsFiniteSet(Onward(a))
  <2>1. Onward(a) \subseteq Text
    BY CodeAssumption DEF Onward
  <2> QED
    BY <1>2, <2>1, FS_Subset
<1>4. \A x : Before(a, x) \subseteq Onward(a)
  BY DEF Before
<1> QED
  BY <1>1, <1>3, <1>4, FS_Subset, FS_CardinalityType

\* The instructions follow each other without a gap up to the end of .text.
LEMMA NextStart ==
  ASSUME Tame, Tiled, NEW a \in Nat, NEW s \in Onward(a)
  PROVE  /\ s \in Nat /\ Length[s] \in Nat \ {0} /\ s + Length[s] \in Starts \cup {Past}
         /\ Before(a, s + Length[s]) = Before(a, s) \cup {s}
         /\ Cardinality(Before(a, s + Length[s])) = Cardinality(Before(a, s)) + 1
         /\ Cardinality(Before(a, s)) \in Nat
<1>1. s \in Starts /\ s \in Nat /\ Length[s] \in Nat \ {0} /\ s + Length[s] \in Starts \cup {Past}
  BY CodeAssumption, TextAssumption DEF Onward, Tiled, Past
<1>2. Before(a, s + Length[s]) = Before(a, s) \cup {s}
  <2>1. ASSUME NEW r \in Onward(a) PROVE r < s + Length[s] <=> r < s \/ r = s
    <3>1. r \in Starts /\ r \in Nat
      BY CodeAssumption, TextAssumption DEF Onward
    <3> QED
      BY <1>1, <3>1 DEF Tame
  <2> QED
    BY <2>1 DEF Before
<1>3. IsFiniteSet(Before(a, s)) /\ Cardinality(Before(a, s)) \in Nat
  BY FiniteStarts
<1>4. s \notin Before(a, s)
  BY <1>1 DEF Before
<1> QED
  BY <1>1, <1>2, <1>3, <1>4, FS_AddElement

\* Nothing begins at or past the end of .text.
LEMMA AllBefore ==
  ASSUME NEW a \in Nat, NEW x \in Int, x >= Past
  PROVE  Before(a, x) = Onward(a)
<1>1. \A s \in Onward(a) : s \in Int /\ s < x
  BY CodeAssumption, TextAssumption DEF Onward, Past
<1> QED
  BY <1>1 DEF Before

\* Two instructions with the same number of instructions before them.
LEMMA SameRank ==
  ASSUME NEW a \in Nat, NEW r \in Onward(a), NEW s \in Onward(a),
         Cardinality(Before(a, r)) = Cardinality(Before(a, s))
  PROVE  r = s
<1>1. r \in Nat /\ s \in Nat
  BY FiniteStarts
<1>2. \A x : IsFiniteSet(Before(a, x))
  BY FiniteStarts
<1>3. ASSUME NEW x \in Onward(a), NEW y \in Onward(a), x \in Nat, y \in Nat, x < y,
             Cardinality(Before(a, x)) = Cardinality(Before(a, y))
      PROVE  FALSE
  <2>1. Before(a, x) \subseteq Before(a, y)
    <3> SUFFICES ASSUME NEW z \in Onward(a), z < x PROVE z < y
      BY DEF Before
    <3>1. z \in Nat
      BY FiniteStarts
    <3> QED
      BY <1>3, <3>1
  <2>2. Before(a, x) = Before(a, y)
    BY <1>2, <1>3, <2>1, FS_Subset
  <2> QED
    BY <1>3, <2>2 DEF Before
<1> QED
  BY <1>1, <1>3

\* A buffer that begins at a and has the program's bytes in the words read.
Holds(buffer, a) ==
  /\ buffer \in [a .. (a + CodeSize - 1) -> Byte \cup {Other}]
  /\ \A x \in Text : x \in a .. (a + DisasmWords * Word - 1) => buffer[x] = Orig[x]

\* Where the k-th instruction is: at the one with k before it; right behind
\* .text; or further on, if the bytes right behind .text decode.
Reached(buffer, x, a, m, k) ==
  /\ x \in Nat
  /\ \/ x \in Onward(a) /\ x <= a + k * m /\ Cardinality(Before(a, x)) = k
     \/ x = Past /\ Cardinality(Onward(a)) <= k
     \/ x > Past /\ Cardinality(Onward(a)) < k /\ Decodes(buffer, Past)

\* Multiples, without which nothing can be said of products.
LEMMA Multiples ==
  ASSUME NEW m \in Nat, NEW n \in Nat, NEW k \in Nat, k < n
  PROVE  k * m \in Nat /\ n * m \in Nat /\ (k + 1) * m = k * m + m /\ k * m + m <= n * m
<1>1. PICK c \in Nat : n = (k + 1) + c
  <2>1. n - (k + 1) \in Nat /\ n = (k + 1) + (n - (k + 1))
    OBVIOUS
  <2> QED
    BY <2>1
<1>2. c * m \in Nat /\ n * m = (k + 1) * m + c * m /\ k * m \in Nat /\ (k + 1) * m = k * m + m
  BY <1>1
<1> QED
  BY <1>2

\* An instruction that the buffer holds is decoded as it is.
LEMMA Decoded ==
  ASSUME Tame, NEW m \in Nat, FitWords(m), NEW a \in Starts, NEW buffer, Holds(buffer, a),
         NEW x \in Onward(a), x + m <= a + DisasmWords * Word
  PROVE  /\ Decodes(buffer, x) /\ InstrLength(buffer, x) = Length[x]
         /\ Line(buffer, x) = Instruction(x)
<1>1. /\ a \in Nat /\ x \in Starts /\ x \in Text /\ x \in Nat /\ a <= x
      /\ Length[x] \in Nat \ {0} /\ Length[x] <= m
      /\ x .. (x + Length[x] - 1) \subseteq Text
  BY CodeAssumption, TextAssumption DEF Onward, FitWords
<1>2. PICK n \in Int : n = DisasmWords * Word
  BY ViewAssumption
<1>3. n <= CodeSize /\ CodeSize \in Nat /\ x + m <= a + n
  BY <1>2, ViewAssumption DEF FitWords
<1>4. DOMAIN buffer = a .. (a + CodeSize - 1)
  BY DEF Holds
<1>5. ASSUME NEW b \in Bytes(x, Length[x]) PROVE b \in DOMAIN buffer /\ buffer[b] = Orig[b]
  <2>1. b \in Text /\ b \in a .. (a + n - 1)
    BY <1>1, <1>3 DEF Bytes
  <2>2. b \in a .. (a + CodeSize - 1)
    BY <1>1, <1>3, <2>1
  <2> QED
    BY <1>2, <1>4, <2>1, <2>2 DEF Holds
<1>6. InstrLength(buffer, x) = Length[x]
  BY <1>1, <1>5 DEF InstrLength
<1>7. x \in Bytes(x, Length[x])
  BY <1>1 DEF Bytes
<1>8. Decodes(buffer, x)
  BY <1>1, <1>5, <1>6, <1>7 DEF Decodes
<1>9. Line(buffer, x) = Instruction(x)
  BY <1>5, <1>6 DEF Line, Instruction
<1> QED
  BY <1>6, <1>8, <1>9

\* What is behind .text is none of the program's instructions; when it decodes
\* the sweep moves on.
LEMMA Behind ==
  ASSUME NEW a, NEW buffer, Holds(buffer, a), NEW x \in Nat, x >= Past, Decodes(buffer, x)
  PROVE  InstrLength(buffer, x) \in Nat \ {0}
<1>1. x \notin Starts
  BY CodeAssumption, TextAssumption DEF Past
<1>2. buffer[x] \in Byte \cup {Other}
  BY DEF Holds, Decodes
<1>3. InstrLength(buffer, x) = Size[buffer[x]]
  BY <1>1 DEF InstrLength
<1>4. InstrLength(buffer, x) \in Nat
  BY <1>2, <1>3, ViewAssumption
<1> QED
  BY <1>4 DEF Decodes

\* The sweep over the buffer goes from instruction to instruction.
LEMMA Sweep ==
  ASSUME Tame, Tiled, NEW m \in Nat, FitWords(m), NEW a \in Starts, NEW buffer, Holds(buffer, a),
         NEW start, start = starts(buffer, a)
  PROVE  \A k \in 0 .. MaxShown : Reached(buffer, start[k], a, m, k)
<1> DEFINE Good == {k \in Nat : k <= MaxShown => Reached(buffer, start[k], a, m, k)}
<1>1. a \in Nat /\ a \in Onward(a) /\ MaxShown \in Nat /\ m >= 1
  BY CodeAssumption, TextAssumption, ViewAssumption DEF Onward, FitWords
<1>2. 0 \in Good
  <2>1. start[0] = a
    BY StartsIs
  <2>2. Before(a, a) = {}
    <3>1. \A s \in Onward(a) : ~(s < a)
      BY <1>1, FiniteStarts
    <3> QED
      BY <3>1 DEF Before
  <2>3. Cardinality(Before(a, a)) = 0
    BY <2>2, FS_EmptySet
  <2> QED
    BY <1>1, <2>1, <2>3 DEF Reached
<1>3. ASSUME NEW k \in Nat, k \in Good PROVE k + 1 \in Good
  <2> SUFFICES ASSUME k + 1 <= MaxShown PROVE Reached(buffer, start[k + 1], a, m, k + 1)
    OBVIOUS
  <2>1. k \in 0 .. (MaxShown - 1) /\ Reached(buffer, start[k], a, m, k)
    BY <1>1, <1>3
  <2>2. /\ k * m \in Nat /\ (k + 1) * m = k * m + m
        /\ a + k * m + m <= a + DisasmWords * Word
    <3>1. k * m \in Nat /\ MaxShown * m \in Nat /\ (k + 1) * m = k * m + m /\ k * m + m <= MaxShown * m
      BY <1>1, <2>1, Multiples
    <3>2. DisasmWords * Word \in Nat /\ MaxShown * m <= DisasmWords * Word
      BY ViewAssumption DEF FitWords
    <3> QED
      BY <1>1, <3>1, <3>2
  <2>3. PICK x : x = start[k]
    OBVIOUS
  <2>4. PICK p \in Nat : p = k * m /\ (k + 1) * m = p + m
    BY <2>2
  <2>5. x \in Nat /\ start[k + 1] = IF Decodes(buffer, x) THEN x + InstrLength(buffer, x) ELSE x
    BY <2>1, <2>3, StartsIs DEF Reached
  <2>6. Cardinality(Onward(a)) \in Nat /\ Past \in Nat
    BY <1>1, FiniteStarts, TextAssumption DEF Past
  <2>7. CASE x \in Onward(a) /\ x <= a + p /\ Cardinality(Before(a, x)) = k
    <3>1. x + m <= a + DisasmWords * Word
      <4>1. PICK n \in Nat : n = DisasmWords * Word
        BY ViewAssumption
      <4>2. a + p + m <= a + n
        BY <2>2, <2>4, <4>1
      <4> QED
        BY <1>1, <2>5, <2>7, <4>1, <4>2
    <3>2. Decodes(buffer, x) /\ InstrLength(buffer, x) = Length[x]
      BY <2>7, <3>1, Decoded
    <3>3. /\ Length[x] \in Nat /\ Length[x] <= m /\ Cardinality(Before(a, x + Length[x])) = k + 1
          /\ x + Length[x] \in Starts \cup {Past}
      BY <1>1, <2>7, NextStart DEF FitWords, Onward
    <3>4. PICK y : y = x + Length[x] /\ start[k + 1] = y
      BY <2>5, <3>2
    <3>5. y \in Nat /\ a <= y /\ y <= a + (p + m)
      <4>1. a <= x
        BY <2>7 DEF Onward
      <4> QED
        BY <1>1, <2>5, <2>7, <3>3, <3>4, <4>1
    <3>6. CASE y \in Starts
      BY <2>4, <3>3, <3>4, <3>5, <3>6 DEF Reached, Onward
    <3>7. CASE y = Past
      <4>1. Before(a, y) = Onward(a)
        BY <1>1, <3>5, <3>7, AllBefore
      <4> QED
        BY <2>6, <3>3, <3>4, <3>5, <3>7, <4>1 DEF Reached
    <3> QED
      BY <3>3, <3>4, <3>6, <3>7
  <2>8. CASE x = Past /\ Cardinality(Onward(a)) <= k
    <3>1. CASE Decodes(buffer, x)
      <4>1. PICK l \in Nat \ {0} : l = InstrLength(buffer, x)
        BY <2>5, <2>6, <2>8, <3>1, Behind
      <4>2. start[k + 1] = x + l
        BY <2>5, <3>1, <4>1
      <4> QED
        BY <2>5, <2>6, <2>8, <3>1, <4>2 DEF Reached
    <3>2. CASE ~Decodes(buffer, x)
      BY <2>5, <2>6, <2>8, <3>2 DEF Reached
    <3> QED
      BY <3>1, <3>2
  <2>9. CASE x > Past /\ Cardinality(Onward(a)) < k /\ Decodes(buffer, Past)
    <3>1. CASE Decodes(buffer, x)
      <4>1. PICK l \in Nat \ {0} : l = InstrLength(buffer, x)
        BY <2>5, <2>6, <2>9, <3>1, Behind
      <4>2. start[k + 1] = x + l
        BY <2>5, <3>1, <4>1
      <4> QED
        BY <2>5, <2>6, <2>9, <4>2 DEF Reached
    <3>2. CASE ~Decodes(buffer, x)
      BY <2>5, <2>6, <2>9, <3>2 DEF Reached
    <3> QED
      BY <3>1, <3>2
  <2> QED
    BY <2>1, <2>3, <2>4, <2>7, <2>8, <2>9 DEF Reached
<1>4. \A k \in Nat : k \in Good
  <2> HIDE DEF Good
  <2> QED
    BY <1>2, <1>3, Inductive
<1> QED
  BY <1>4

----------------------------------------------------------------------------
(* disasm.                                                                 *)

LEMMA ShowsExactly ==
  ASSUME Tame, Tiled, NEW m \in Nat, FitWords(m), NEW a \in Starts,
         sh_addr = TextStart, sh_size = TextSize,
         NEW d, d = disasm_instr(Words(Orig, a, DisasmWords), a)
  PROVE  /\ d.lines = {[at |-> s, line |-> Instruction(s)] :
                         s \in {x \in Onward(a) : Cardinality(Before(a, x)) < MaxShown}}
         /\ d.outOfRange <=> /\ Cardinality(Onward(a)) < MaxShown
                             /\ Decodes(Buffer(Words(Orig, a, DisasmWords), a), Past)
<1> DEFINE code == Words(Orig, a, DisasmWords)
           buffer == Buffer(code, a)
           start == starts(buffer, a)
           inText(k) == start[k] < Past
           Range10 == 0 .. (MaxShown - 1)
           Ks == {k \in Range10 : Decodes(buffer, start[k])}
           entry(k) == [at |-> start[k], line |-> Line(buffer, start[k])]
           begun == {x \in Onward(a) : Cardinality(Before(a, x)) < MaxShown}
<1>1. /\ d.lines = {entry(k) : k \in {j \in Ks : inText(j)}}
      /\ d.outOfRange = (\E k \in Ks : ~inText(k))
  BY DEF disasm_instr, Past
<1>2. a \in Nat /\ MaxShown \in Nat /\ a \in Onward(a) /\ Past \in Nat /\ m >= 1
  BY CodeAssumption, TextAssumption, ViewAssumption DEF Onward, Past, FitWords
<1>3. Holds(buffer, a)
  <2>1. PICK n \in Nat : n = DisasmWords * Word
    BY ViewAssumption
  <2>2. n <= CodeSize /\ CodeSize \in Nat
    BY <2>1, ViewAssumption DEF FitWords
  <2>3. DOMAIN code = a .. (a + n - 1)
    BY <2>1 DEF Words
  <2>4. ASSUME NEW x \in Text, x \in a .. (a + n - 1)
        PROVE  buffer[x] = Orig[x]
    <3>1. code[x] = Orig[x]
      BY <1>2, <2>1, <2>4, WordsRead
    <3>2. x \in a .. (a + CodeSize - 1)
      BY <1>2, <2>2, <2>4
    <3> HIDE DEF code
    <3> QED
      BY <2>3, <2>4, <3>1, <3>2 DEF Buffer
  <2>5. ASSUME NEW x \in a .. (a + n - 1) PROVE code[x] \in Byte \cup {Other}
    <3>1. x \in a .. (a + DisasmWords * Word - 1) /\ x \in Int
      BY <1>2, <2>1, <2>5
    <3> QED
      BY <1>2, <3>1, WordsTyped, TextAssumption
  <2> HIDE DEF code
  <2>6. buffer \in [a .. (a + CodeSize - 1) -> Byte \cup {Other}]
    BY <2>3, <2>5 DEF Buffer
  <2> HIDE DEF buffer
  <2> QED
    BY <2>1, <2>4, <2>6 DEF Holds
<1> HIDE DEF code, buffer
<1>4. \A k \in 0 .. MaxShown : Reached(buffer, start[k], a, m, k)
  BY <1>3, Sweep
<1> HIDE DEF start
<1>5. ASSUME NEW k \in Range10
      PROVE  k \in Nat /\ k < MaxShown /\ start[k] \in Nat /\ Reached(buffer, start[k], a, m, k)
  <2>1. k \in 0 .. MaxShown /\ k \in Nat /\ k < MaxShown
    BY <1>2, <1>5
  <2>2. Reached(buffer, start[k], a, m, k)
    BY <1>4, <2>1
  <2> QED
    BY <2>1, <2>2 DEF Reached
<1>6. ASSUME NEW k \in Range10, start[k] \in Onward(a)
      PROVE  /\ Cardinality(Before(a, start[k])) = k /\ k \in Ks /\ inText(k)
             /\ entry(k) = [at |-> start[k], line |-> Instruction(start[k])]
  <2>1. PICK x \in Onward(a) : x = start[k]
    BY <1>6
  <2>2. x < Past /\ x \in Nat
    BY CodeAssumption, TextAssumption DEF Onward, Past
  <2>3. Cardinality(Before(a, x)) = k /\ x <= a + k * m
    BY <1>2, <1>5, <2>1, <2>2 DEF Reached
  <2>4. x + m <= a + DisasmWords * Word
    <3>1. PICK p, q, n \in Nat : p = k * m /\ q = MaxShown * m /\ n = DisasmWords * Word
      <4>1. k * m \in Nat /\ MaxShown * m \in Nat /\ DisasmWords * Word \in Nat
        BY <1>2, <1>5, Multiples, ViewAssumption
      <4> QED
        BY <4>1
    <3>2. p + m <= q /\ q <= n
      BY <1>2, <1>5, <3>1, Multiples DEF FitWords
    <3> QED
      BY <1>2, <2>2, <2>3, <3>1, <3>2
  <2>5. Decodes(buffer, x) /\ Line(buffer, x) = Instruction(x)
    BY <1>3, <2>4, Decoded
  <2> QED
    BY <2>1, <2>2, <2>3, <2>5
\* An instruction with k before it is the k-th that is reached.
<1>7. ASSUME NEW s \in Onward(a), NEW k \in Range10, Cardinality(Before(a, s)) = k
      PROVE  start[k] = s
  <2>1. IsFiniteSet(Onward(a)) /\ Cardinality(Onward(a)) \in Nat
    BY <1>2, FiniteStarts
  <2>2. Before(a, s) \subseteq Onward(a) /\ s \notin Before(a, s)
    BY <1>2, FiniteStarts DEF Before
  <2>3. k < Cardinality(Onward(a))
    <3>1. k <= Cardinality(Onward(a)) /\ k # Cardinality(Onward(a))
      BY <1>7, <2>1, <2>2, FS_Subset
    <3> QED
      BY <1>2, <2>1, <3>1
  <2>4. start[k] \in Onward(a) /\ Cardinality(Before(a, start[k])) = k
    BY <1>2, <1>5, <2>1, <2>3 DEF Reached
  <2> QED
    BY <1>2, <1>7, <2>4, SameRank
<1>8. d.lines = {[at |-> s, line |-> Instruction(s)] : s \in begun}
  <2>1. ASSUME NEW k \in Ks, inText(k)
        PROVE  start[k] \in begun /\ entry(k) = [at |-> start[k], line |-> Instruction(start[k])]
    <3>1. start[k] \in Onward(a)
      BY <1>2, <1>5, <2>1 DEF Reached
    <3> QED
      BY <1>5, <1>6, <3>1
  <2>2. ASSUME NEW s \in begun
        PROVE  \E k \in Ks : inText(k) /\ entry(k) = [at |-> s, line |-> Instruction(s)]
    <3>1. PICK k \in Range10 : k = Cardinality(Before(a, s))
      BY <1>2, FiniteStarts
    <3>2. start[k] = s /\ s \in Onward(a)
      BY <1>7, <3>1
    <3> QED
      BY <1>6, <3>2
  <2> HIDE DEF inText, entry, begun, Ks
  <2> QED
    BY <1>1, <2>1, <2>2
<1>9. d.outOfRange <=> Cardinality(Onward(a)) < MaxShown /\ Decodes(buffer, Past)
  <2>0. Cardinality(Onward(a)) \in Nat
    BY <1>2, FiniteStarts
  <2>1. ASSUME NEW k \in Ks, ~inText(k)
        PROVE  Cardinality(Onward(a)) < MaxShown /\ Decodes(buffer, Past)
    <3>1. \A x \in Onward(a) : x < Past
      BY CodeAssumption, TextAssumption DEF Onward, Past
    <3>2. start[k] \notin Onward(a)
      BY <2>1, <3>1
    <3> QED
      BY <1>2, <1>5, <2>0, <2>1, <3>2 DEF Reached
  <2>2. ASSUME Cardinality(Onward(a)) < MaxShown, Decodes(buffer, Past)
        PROVE  \E k \in Ks : ~inText(k)
    <3>1. PICK k \in Range10 : k = Cardinality(Onward(a))
      BY <1>2, <2>0, <2>2
    <3>2. start[k] \notin Onward(a)
      <4> SUFFICES ASSUME start[k] \in Onward(a), Cardinality(Before(a, start[k])) = k PROVE FALSE
        BY <1>6
      <4>1. Before(a, start[k]) \subseteq Onward(a) /\ start[k] \notin Before(a, start[k])
        BY <1>5 DEF Before
      <4> QED
        BY <1>2, <3>1, <4>1, FiniteStarts, FS_Subset
    <3>3. start[k] = Past
      BY <1>2, <1>5, <2>0, <3>1, <3>2 DEF Reached
    <3> QED
      BY <1>2, <2>2, <3>3
  <2> HIDE DEF inText, Ks
  <2> QED
    BY <1>1, <2>1, <2>2
<1> QED
  BY <1>8, <1>9 DEF buffer, code

ShownInv ==
  shown # NULL /\ shown.cmd = "disasm" /\ shown.from \in Starts /\ sh_size = TextSize =>
    /\ shown.lines = {[at |-> s, line |-> Instruction(s)] :
                        s \in {x \in Onward(shown.from) : Cardinality(Before(shown.from, x)) < MaxShown}}
    /\ shown.outOfRange <=>
         /\ Cardinality(Onward(shown.from)) < MaxShown
         /\ Decodes(Buffer(Words(Orig, shown.from, DisasmWords), shown.from), Past)

LEMMA ShownNext ==
  ASSUME Tame, Tiled, NEW m \in Nat, FitWords(m), TypeOK, ShownInv, [ViewNext]_viewVars
  PROVE  ShownInv'
<1>1. ASSUME NEW a \in DisasmArgs, gdbdisasm(a)
      PROVE  ShownInv'
  <2>1. shown' = disasm_instr(Words(Orig, a, DisasmWords), a)
    BY <1>1 DEF gdbdisasm, Fresh
  <2>2. shown'.from = a
    BY <2>1 DEF disasm_instr
  <2>3. UNCHANGED fileVars
    BY <1>1 DEF gdbdisasm, Disasm, End
  <2>4. sh_size = TextSize => sh_addr = TextStart
    BY CodeAssumption, TextAssumption DEF TypeOK
  <2> QED
    BY <2>1, <2>2, <2>3, <2>4, ShowsExactly DEF ShownInv
<1>2. CASE \E a \in DumpArgs : Dump(a)
  BY <1>2 DEF Dump, ShownInv
<1>3. CASE gdbvmmap
  BY <1>3 DEF gdbvmmap, ShownInv
<1>4. CASE Elsewhere
  BY <1>4 DEF Elsewhere, ShownInv
<1>5. CASE UNCHANGED viewVars
  BY <1>5 DEF ShownInv
<1> QED
  BY <1>1, <1>2, <1>3, <1>4, <1>5, ShowStep

\* disasm at an instruction shows the program's instructions from there on
\* (hw4.c:657-764), and the message of a breakpoint the instruction it is on
\* (hw4.c:426-433), whatever breakpoints are in the child, if the words that
\* are read hold as many of the longest instruction.
THEOREM DisasmIsExact ==
  ASSUME Tame, Tiled, NEW CONSTANT m \in Nat, FitWords(m)
  PROVE  ViewSpec => []DisasmExact
<1>1. ViewInit => ProgramInv /\ MsgInv /\ ShownInv
  BY TypeInit, TextInit, ExecInit DEF ViewInit, Init, ProgramInv, MsgInv, ShownInv, Listed, Used
<1>2. ProgramInv /\ MsgInv /\ ShownInv /\ [ViewNext]_viewVars => (ProgramInv /\ MsgInv /\ ShownInv)'
  <2> SUFFICES ASSUME ProgramInv, MsgInv, ShownInv, [ViewNext]_viewVars
               PROVE  (ProgramInv /\ MsgInv /\ ShownInv)'
    OBVIOUS
  <2>1. ProgramInv'
    BY ViewStep, TypeNext, NatWithin, TextNext, ExecNext DEF ProgramInv, Tame
  <2> QED
    BY <2>1, MsgNext, ShownNext DEF ProgramInv, TypeInv
<1>3. ProgramInv /\ MsgInv /\ ShownInv => DisasmExact
  <2> SUFFICES ASSUME ProgramInv, MsgInv, ShownInv PROVE DisasmExact
    OBVIOUS
  <2>1. Live => child # "killed" /\ ~Ended
    BY DEF Live, ProgramInv, TextInv, ChildPhase
  <2> QED
    BY <2>1 DEF MsgInv, ShownInv, DisasmExact, Onward, Before, Past
<1> QED
  BY <1>1, <1>2, <1>3, PTL DEF ViewSpec
=============================================================================
