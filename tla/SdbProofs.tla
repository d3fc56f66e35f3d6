----------------------------- MODULE SdbProofs -----------------------------
(***************************************************************************)
(* Proofs about the debugger, for every program, table and input.          *)
(***************************************************************************)
EXTENDS SdbTransparent, WellFoundedInduction, TLAPS

USE DEF tableVars, procVars, fileVars, debuggerVars, vars, Text, Slots, Bpoint, Lifted

----------------------------------------------------------------------------
(* The table.                                                              *)

\* A used slot holds a breakpoint of the text section.
LEMMA UsedSlots ==
  ASSUME TableOK
  PROVE  /\ Used \subseteq Slots
         /\ \A i \in Used : bpoint_arr[i] \in Bpoint /\ bpoint_arr[i].n_addr \in Text
         /\ Listed \subseteq Text
<1>1. Used \subseteq Slots
  BY TableAssumption DEF TableOK, Used
<1>2. \A i \in Used : bpoint_arr[i] \in Bpoint /\ bpoint_arr[i].n_addr \in Text
  BY <1>1 DEF TableOK
<1>3. Listed \subseteq Text
  BY <1>2 DEF Listed
<1> QED
  BY <1>1, <1>2, <1>3

\* The array is part of the memory that an index can reach.
LEMMA CellsHold == Slots \subseteq Cells /\ Cells \subseteq Int
BY TableAssumption DEF Cells

\* Only addresses of .text are accepted by "break".
LEMMA AcceptedText ==
  ASSUME TypeOK, NEW a \in Nat, Accepted(a)
  PROVE  a \in Text /\ a \notin Listed
BY TextAssumption DEF TypeOK, Accepted, InSection

\* seek_bpoint_arr finds the slot of a listed address.
LEMMA SeekFinds ==
  ASSUME TableOK, UniqueAddresses, NEW a \in Listed
  PROVE  /\ seek_bpoint_arr(a) \in Used
         /\ bpoint_arr[seek_bpoint_arr(a)].n_addr = a
<1> DEFINE Found(i) == /\ bpoint_arr[i].n_addr = a
                       /\ \A j \in 0 .. (i - 1) : bpoint_arr[j].n_addr # a
<1>1. PICK i \in Used : bpoint_arr[i].n_addr = a
  BY DEF Listed
<1>2. Found(i)
  <2>1. ASSUME NEW j \in 0 .. (i - 1), bpoint_arr[j].n_addr = a
        PROVE  FALSE
    <3>1. j \in Used /\ j # i
      BY <1>1, TableAssumption DEF Used, TableOK
    <3> QED
      BY <3>1, <2>1, <1>1 DEF UniqueAddresses
  <2> QED
    BY <1>1, <2>1
<1>3. seek_bpoint_arr(a) = CHOOSE k \in Used : Found(k)
  BY DEF seek_bpoint_arr
<1> HIDE DEF Found
<1>4. (CHOOSE k \in Used : Found(k)) \in Used /\ Found(CHOOSE k \in Used : Found(k))
  BY <1>1, <1>2
<1> QED
  BY <1>3, <1>4 DEF Found

\* What an accepted "break" does to the table.
LEMMA InsertAdds ==
  ASSUME TableOK, UniqueAddresses, bpoint_arr_size < ArrLen,
         NEW a \in Text, a \notin Listed, NEW b \in Byte, insert_bpoint_arr(a, b)
  PROVE  /\ TableOK' /\ UniqueAddresses'
         /\ Listed' = Listed \cup {a}
         /\ \A i \in Used : i \in Used' /\ bpoint_arr'[i] = bpoint_arr[i]
         /\ Used' = Used \cup {bpoint_arr_size}
         /\ bpoint_arr'[bpoint_arr_size] = [n_addr |-> a, n_chr |-> b]
<1> DEFINE new == [n_addr |-> a, n_chr |-> b]
<1>1. new \in Bpoint /\ new # NULL /\ new # STRAY /\ new.n_addr = a
  BY TableAssumption
<1>2. bpoint_arr_size \in Slots /\ bpoint_arr_size \notin Used /\ bpoint_arr_size \in Nat
  BY TableAssumption DEF TableOK, Used
<1>3. bpoint_arr'[bpoint_arr_size] = new
  BY <1>2, CellsHold DEF insert_bpoint_arr, TableOK
<1>4. Used' = Used \cup {bpoint_arr_size}
  BY <1>2 DEF insert_bpoint_arr, Used
<1>5. \A i \in Cells \ {bpoint_arr_size} : bpoint_arr'[i] = bpoint_arr[i]
  BY DEF insert_bpoint_arr, TableOK
<1>6. \A i \in Used : i \in Used' /\ bpoint_arr'[i] = bpoint_arr[i]
  BY <1>2, <1>4, <1>5, UsedSlots, CellsHold
<1>7. TableOK'
  <2>1. bpoint_arr_size' \in 0 .. ArrLen
    BY <1>2, TableAssumption DEF insert_bpoint_arr
  <2>2. bpoint_arr' \in [Cells -> Bpoint \cup {NULL, STRAY}]
    BY <1>1 DEF insert_bpoint_arr, TableOK
  <2>3. \A i \in Slots : IF i \in Used' THEN bpoint_arr'[i] \in Bpoint ELSE bpoint_arr'[i] = NULL
    BY <1>1, <1>2, <1>3, <1>4, <1>5, CellsHold DEF TableOK
  <2> QED
    BY <2>1, <2>2, <2>3 DEF TableOK
<1> HIDE DEF new
<1>8. Listed' = Listed \cup {a}
  BY <1>1, <1>3, <1>4, <1>6 DEF Listed
<1>9. UniqueAddresses'
  <2>1. \A i \in Used : bpoint_arr'[i].n_addr # bpoint_arr'[bpoint_arr_size].n_addr
    BY <1>1, <1>3, <1>6 DEF Listed
  <2> QED
    BY <2>1, <1>4, <1>6 DEF UniqueAddresses
<1> QED
  BY <1>3, <1>4, <1>6, <1>7, <1>8, <1>9 DEF new

\* Where the slots of the new table come from when slot idx, or for a negative
\* idx slot 0, is removed: Old is injective and misses only that slot.
LEMMA RemoveMoves ==
  ASSUME TableOK, bpoint_arr_size > 0, NEW idx \in Int, idx < bpoint_arr_size,
         remove_bpoint_arr(idx)
  PROVE  /\ TableOK'
         /\ bpoint_arr_size' = bpoint_arr_size - 1
         /\ \A i \in Used' : bpoint_arr'[i] = bpoint_arr[IF i >= idx THEN i + 1 ELSE i]
<1>1. /\ bpoint_arr_size \in Nat /\ bpoint_arr_size' = bpoint_arr_size - 1
      /\ Used' = 0 .. (bpoint_arr_size - 2)
      /\ bpoint_arr_size' \in 0 .. ArrLen
  BY TableAssumption DEF TableOK, remove_bpoint_arr, Used
<1>2. ASSUME NEW i \in Cells
      PROVE  bpoint_arr'[i] = IF i = bpoint_arr_size - 1 THEN NULL
                              ELSE IF i \in idx .. (bpoint_arr_size - 2) THEN bpoint_arr[i + 1]
                              ELSE bpoint_arr[i]
  BY <1>1 DEF remove_bpoint_arr, Shifted
<1>3. Used' \subseteq Slots
  BY <1>1, TableAssumption DEF TableOK
<1>4. \A i \in Used' : bpoint_arr'[i] = bpoint_arr[IF i >= idx THEN i + 1 ELSE i]
  BY <1>1, <1>2, <1>3, CellsHold
<1>5. \A i \in Cells : i + 1 < bpoint_arr_size => i + 1 \in Cells
  BY <1>1, TableAssumption DEF TableOK, Cells
<1>6. bpoint_arr' \in [Cells -> Bpoint \cup {NULL, STRAY}]
  <2>1. \A i \in Cells : bpoint_arr'[i] \in Bpoint \cup {NULL, STRAY}
    BY <1>1, <1>2, <1>5, CellsHold DEF TableOK
  <2> QED
    BY <1>1, <2>1 DEF remove_bpoint_arr, Shifted
<1>7. \A i \in Slots : IF i \in Used' THEN bpoint_arr'[i] \in Bpoint ELSE bpoint_arr'[i] = NULL
  <2> SUFFICES ASSUME NEW i \in Slots
               PROVE  IF i \in Used' THEN bpoint_arr'[i] \in Bpoint ELSE bpoint_arr'[i] = NULL
    OBVIOUS
  <2>1. CASE i \in Used'
    <3>1. bpoint_arr'[i] = bpoint_arr[IF i >= idx THEN i + 1 ELSE i]
      BY <2>1, <1>4
    <3>2. (IF i >= idx THEN i + 1 ELSE i) \in Used
      BY <2>1, <1>1 DEF Used
    <3> QED
      BY <3>1, <3>2, <2>1, UsedSlots DEF TableOK
  <2>2. CASE i = bpoint_arr_size - 1
    BY <2>2, <1>1, <1>2, CellsHold
  <2>3. CASE i >= bpoint_arr_size
    BY <2>3, <1>1, <1>2, CellsHold DEF TableOK, Used
  <2> QED
    BY <2>1, <2>2, <2>3, <1>1, TableAssumption
<1> QED
  BY <1>1, <1>4, <1>6, <1>7 DEF TableOK

LEMMA RemoveKeepsUnique ==
  ASSUME TableOK, UniqueAddresses, bpoint_arr_size > 0,
         NEW idx \in Int, idx < bpoint_arr_size, remove_bpoint_arr(idx)
  PROVE  UniqueAddresses'
<1> DEFINE Old(i) == IF i >= idx THEN i + 1 ELSE i
<1>1. bpoint_arr_size \in Nat
  BY TableAssumption DEF TableOK
<1>2. /\ bpoint_arr_size' = bpoint_arr_size - 1
      /\ \A i \in Used' : bpoint_arr'[i] = bpoint_arr[Old(i)]
  BY RemoveMoves
<1>3. \A i \in Used' : Old(i) \in Used
  BY <1>1, <1>2 DEF Used
<1>4. \A i, j \in Used' : Old(i) = Old(j) => i = j
  BY <1>1, <1>2 DEF Used
<1> HIDE DEF Old
<1> QED
  BY <1>2, <1>3, <1>4 DEF UniqueAddresses

\* What "delete" does: one address goes, every other slot moves unchanged.
LEMMA RemoveDrops ==
  ASSUME TableOK, UniqueAddresses, NEW idx \in Used, remove_bpoint_arr(idx)
  PROVE  /\ Listed' = Listed \ {bpoint_arr[idx].n_addr}
         /\ \A i \in Used' : \E j \in Used : bpoint_arr'[i] = bpoint_arr[j]
<1> DEFINE Old(i) == IF i >= idx THEN i + 1 ELSE i
<1>1. bpoint_arr_size \in Nat /\ bpoint_arr_size > 0 /\ idx \in Nat /\ idx < bpoint_arr_size
  BY TableAssumption DEF TableOK, Used
<1>2. /\ bpoint_arr_size' = bpoint_arr_size - 1
      /\ \A i \in Used' : bpoint_arr'[i] = bpoint_arr[Old(i)]
  BY <1>1, RemoveMoves
<1>3. \A i \in Used' : Old(i) \in Used \ {idx}
  BY <1>1, <1>2 DEF Used
<1>4. \A j \in Used \ {idx} : \E i \in Used' : Old(i) = j
  <2> SUFFICES ASSUME NEW j \in Used \ {idx}
               PROVE  \E i \in Used' : Old(i) = j
    OBVIOUS
  <2>1. CASE j < idx
    BY <2>1, <1>1, <1>2 DEF Used
  <2>2. CASE j > idx
    <3>1. j - 1 \in Used' /\ Old(j - 1) = j
      BY <2>2, <1>1, <1>2 DEF Used
    <3> QED
      BY <3>1
  <2> QED
    BY <2>1, <2>2, <1>1 DEF Used
<1> HIDE DEF Old
<1>5. Listed' \subseteq Listed \ {bpoint_arr[idx].n_addr}
  BY <1>2, <1>3 DEF Listed, UniqueAddresses
<1>6. Listed \ {bpoint_arr[idx].n_addr} \subseteq Listed'
  <2> SUFFICES ASSUME NEW j \in Used, bpoint_arr[j].n_addr # bpoint_arr[idx].n_addr
               PROVE  bpoint_arr[j].n_addr \in Listed'
    BY DEF Listed
  <2>1. PICK i \in Used' : Old(i) = j
    BY <1>4
  <2> QED
    BY <2>1, <1>2 DEF Listed
<1> QED
  BY <1>2, <1>3, <1>5, <1>6

\* An index that is not negative finds a breakpoint.
LEMMA NoStray ==
  ASSUME TypeOK, NEW i \in Nat, DeleteStray(i)
  PROVE  FALSE
<1>1. i \in Used
  BY TableAssumption DEF DeleteStray, Used, TypeOK, TableOK
<1> QED
  BY <1>1, UsedSlots DEF DeleteStray, TypeOK

LEMMA TableUnchanged ==
  ASSUME UNCHANGED tableVars
  PROVE  /\ TableOK' = TableOK /\ UniqueAddresses' = UniqueAddresses
         /\ Used' = Used /\ Listed' = Listed /\ Planted' = Planted
BY DEF TableOK, UniqueAddresses, Used, Listed, Planted

----------------------------------------------------------------------------
(* Types.  The byte put back when a breakpoint is lifted is the one of the *)
(* slot that seek_bpoint_arr finds, so the types need UniqueAddresses.     *)

TypeInv == TypeOK /\ UniqueAddresses

LEMMA PlantedType == Planted \in [Text -> Byte]
BY TextAssumption DEF Planted

LEMMA LiftType ==
  ASSUME TypeInv, NEW mem \in [Text -> Byte], NEW a \in Listed
  PROVE  /\ Lift(mem, a) \in [Text -> Byte]
         /\ a \in Text
         /\ [addr |-> a, byte |-> mem[a]] \in Lifted
<1>1. bpoint_arr[seek_bpoint_arr(a)] \in Bpoint /\ a \in Text
  BY SeekFinds, UsedSlots DEF TypeInv, TypeOK
<1> QED
  BY <1>1 DEF Lift

LEMMA RestoredType == ASSUME TypeInv PROVE Restored \in [Text -> Byte]
<1>1. CASE lifted = NULL
  BY <1>1 DEF TypeInv, TypeOK, Restored
<1>2. CASE lifted # NULL
  <2>1. lifted.addr \in Text /\ lifted.byte \in Byte
    BY <1>2 DEF TypeInv, TypeOK
  <2> QED
    BY <1>2, <2>1 DEF TypeInv, TypeOK, Restored
<1> QED
  BY <1>1, <1>2

LEMMA TypeEnd ==
  ASSUME TypeInv, NEW how \in {"exit", "return", "errquit", "abort", "segv", "corrupt"}, End(how)
  PROVE  TypeInv'
BY TableUnchanged DEF TypeInv, TypeOK, End

LEMMA TypeResume ==
  ASSUME TypeInv, NEW mem \in [Text -> Byte], NEW a \in Int, Resume(mem, a), UNCHANGED tableVars,
         UNCHANGED <<fileVars, helpers, signals>>, first' \in BOOLEAN,
         stop' \in {"exec", "int3", "step", "signal"}
  PROVE  TypeInv'
<1>1. CASE a \in Listed
  <2>1. text' \in [Text -> Byte] /\ lifted' \in Lifted
    BY <1>1, LiftType DEF Resume
  <2>2. /\ dbg' = "stepover" /\ child' = "stepping" /\ rip' = a
        /\ moved' = FALSE /\ hit' = NULL
    BY <1>1 DEF Resume
  <2> QED
    BY <2>1, <2>2, TableUnchanged DEF TypeInv, TypeOK
<1>2. CASE a \notin Listed
  BY <1>2, TableUnchanged DEF TypeInv, TypeOK, Resume
<1> QED
  BY <1>1, <1>2

\* The first of the sections with a name is one of them.
LEMMA LeastSection ==
  ASSUME NEW named \in SUBSET Nat, named # {}
  PROVE  (CHOOSE i \in named : \A j \in named : i <= j) \in named
<1>1. PICK i \in named : \A j \in named : ~ (<<j, i>> \in OpToRel(<, Nat))
  BY WFMin, NatLessThanWellFounded
<1>2. ASSUME NEW j \in named PROVE i <= j
  <2>1. <<j, i>> \in Nat \X Nat /\ <<j, i>>[1] = j /\ <<j, i>>[2] = i
    OBVIOUS
  <2>2. ~(j < i)
    BY <1>1, <2>1, Zenon DEF OpToRel
  <2> QED
    BY <2>2
<1> QED
  BY <1>2

LEMMA TypeInit == Init => TypeInv
<1> SUFFICES ASSUME Init PROVE TypeInv
  OBVIOUS
<1>1. Used = {}
  BY DEF Init, Used
<1>2. TableOK /\ UniqueAddresses
  BY <1>1, CellsHold, TableAssumption DEF Init, TableOK, UniqueAddresses
<1>3. Entry \in Int
  BY CodeAssumption, TextAssumption
<1> QED
  BY <1>2, <1>3, TextAssumption, InputAssumption DEF Init, TypeInv, TypeOK

LEMMA TypeNext == TypeInv /\ [Next]_vars => TypeInv'
<1> SUFFICES ASSUME TypeInv, [Next]_vars
             PROVE  TypeInv'
  OBVIOUS
<1> USE DEF TypeInv
<1>0. Entry \in Int
  BY CodeAssumption, TextAssumption
<1>1. ASSUME NEW p \in Programs, Load(p) PROVE TypeInv'
  <2>1. <<sh_addr, sh_size>>' \in {<<0, 0>>, <<TextStart, TextSize>>}
    <3> DEFINE named == {i \in DOMAIN Sections[p] : Sections[p][i].name = ".text"}
               least == CHOOSE i \in named : \A j \in named : i <= j
    <3>1. CASE named = {}
      BY <1>1, <3>1 DEF Load, readtextsection, TypeOK
    <3>2. CASE named # {} /\ least \in named
      BY <1>1, <3>2, FileAssumption DEF Load, readtextsection
    <3>3. named \subseteq Nat
      BY FileAssumption
    <3> HIDE DEF named
    <3>4. named # {} => least \in named
      BY <3>3, LeastSection
    <3> QED
      BY <3>1, <3>2, <3>4
  <2> QED
    BY <1>1, <2>1, TableUnchanged DEF Load, TypeOK
<1>2. CASE Exit \/ BlankLine \/ LaunchFails \/ RegistersFail
  BY <1>2, TypeEnd DEF Exit, BlankLine, LaunchFails, RegistersFail
<1>3. CASE Start
  BY <1>0, <1>3, TableUnchanged, PlantedType DEF Start, Launches, TypeOK
<1>4. CASE RunFromLoad
  BY <1>0, <1>4, TypeResume, PlantedType DEF RunFromLoad, Launches
<1>5. CASE Cont
  BY <1>5, TypeResume DEF Cont, TypeOK
<1>6. CASE Si
  <2>1. CASE rip \in Listed
    <3>1. text' \in [Text -> Byte] /\ lifted' \in Lifted
      BY <1>6, <2>1, LiftType DEF Si, TypeOK
    <3>2. /\ dbg' = "siwait" /\ child' = "stepping" /\ moved' = FALSE /\ hit' = NULL
          /\ UNCHANGED <<fileVars, tableVars, first, helpers, rip, stop, signals>>
      BY <1>6 DEF Si
    <3> QED
      BY <3>1, <3>2, TableUnchanged DEF TypeOK
  <2>2. CASE rip \notin Listed
    BY <1>6, <2>2, TableUnchanged DEF Si, TypeOK
  <2> QED
    BY <2>1, <2>2
<1>7. CASE Disasm
  <2>1. CASE End("errquit")
    BY <2>1, TypeEnd
  <2>2. CASE ~End("errquit")
    <3>1. helpers' \in Nat
      BY <1>7, <2>2 DEF Disasm, TypeOK
    <3> QED
      BY <1>7, <2>2, <3>1, TableUnchanged DEF Disasm, TypeOK
  <2> QED
    BY <2>1, <2>2
<1>8. ASSUME NEW a \in BreakArgs, Break(a) PROVE TypeInv'
  <2>0. a \in Text /\ a \notin Listed
    BY <1>8, AcceptedText, InputAssumption DEF Break
  <2>1. Saved(a) \in Byte
    BY <2>0, TextAssumption DEF Saved, Peek, TypeOK
  <2>2. TableOK' /\ UniqueAddresses'
    BY <1>8, <2>0, <2>1, InsertAdds DEF Break, TypeOK
  <2>3. text' \in [Text -> Byte]
    BY <1>8, TextAssumption DEF Break, Poke, TypeOK
  <2> QED
    BY <1>8, <2>2, <2>3 DEF Break, TypeOK
<1>9. ASSUME NEW a \in BreakArgs, BreakOverflow(a) PROVE TypeInv'
  BY <1>9, TypeEnd DEF BreakOverflow
<1>10. ASSUME NEW i \in DeleteArgs, i < bpoint_arr_size, remove_bpoint_arr(i)
       PROVE  TableOK' /\ UniqueAddresses'
  <2>1. i \in Int /\ bpoint_arr_size \in Nat /\ (UNCHANGED tableVars \/ bpoint_arr_size > 0)
    BY <1>10, InputAssumption, TableAssumption DEF remove_bpoint_arr, TypeOK, TableOK
  <2> QED
    BY <1>10, <2>1, InputAssumption, TableUnchanged, RemoveMoves, RemoveKeepsUnique DEF TypeOK
<1>11. ASSUME NEW i \in DeleteArgs, Delete(i) PROVE TypeInv'
  <2>1. TableOK' /\ UniqueAddresses'
    BY <1>10, <1>11 DEF Delete
  <2>2. bpoint_arr[i].n_addr \in Text /\ bpoint_arr[i].n_chr \in Byte
    BY <1>11 DEF Delete
  <2>3. text' \in [Text -> Byte]
    BY <1>11, <2>2 DEF Delete, Poke, TypeOK
  <2> QED
    BY <1>11, <2>1, <2>3 DEF Delete, TypeOK
<1>23. ASSUME NEW i \in DeleteArgs, DeleteStray(i) PROVE TypeInv'
  <2>1. CASE End("segv")
    BY <2>1, TypeEnd
  <2>2. CASE ~End("segv")
    <3>1. TableOK' /\ UniqueAddresses'
      BY <1>10, <1>23, <2>2 DEF DeleteStray
    <3> QED
      BY <1>23, <2>2, <3>1 DEF DeleteStray, TypeOK
  <2> QED
    BY <2>1, <2>2
<1>12. ASSUME NEW a \in RipArgs, SetRip(a) PROVE TypeInv'
  BY <1>12, InputAssumption, TableUnchanged DEF SetRip, TypeOK
<1>13. CASE StepOverDone
  BY <1>13, TypeEnd, RestoredType, TableUnchanged DEF StepOverDone, TypeOK
<1>14. ASSUME ChildEnded PROVE TypeInv'
  BY <1>14, TableUnchanged DEF ChildEnded, TypeOK
<1>15. CASE ContDone
  <2>1. Listed \subseteq Text
    BY UsedSlots DEF TypeOK
  <2>2. CASE End("return") \/ End("errquit") \/ ChildEnded
    BY <1>14, <2>2, TypeEnd
  <2>3. CASE ~(End("return") \/ End("errquit") \/ ChildEnded)
    <3>1. rip - 1 \in Int
      BY DEF TypeOK
    <3> QED
      BY <1>15, <2>1, <2>3, <3>1, TableUnchanged DEF ContDone, BackedUp, TypeOK
  <2> QED
    BY <2>2, <2>3
<1>16. CASE SiDone
  <2>1. Listed \subseteq Text
    BY UsedSlots DEF TypeOK
  <2> QED
    BY <1>14, <1>16, <2>1, TypeEnd, RestoredType, TableUnchanged DEF SiDone, TypeOK
<1>17. CASE ChildTrap
  BY <1>17, TableUnchanged DEF ChildTrap, TypeOK
<1>18. CASE ChildExec
  <2>1. rip' \in Int
    BY <1>18, CodeAssumption, TextAssumption DEF ChildExec
  <2> QED
    BY <1>18, <2>1, TableUnchanged DEF ChildExec, OrStop, TypeOK
<1>19. CASE ChildExit
  BY <1>19, TableUnchanged DEF ChildExit, TypeOK
<1>20. CASE ChildWild
  <2>1. rip' \in Int
    BY <1>20, TextAssumption DEF ChildWild, TypeOK
  <2> QED
    BY <1>20, <2>1, TableUnchanged DEF ChildWild, OrStop, TypeOK
<1>21. CASE Signal \/ Kill
  <2>1. signals' \in Nat
    BY <1>21 DEF Signal, Kill, TypeOK
  <2> QED
    BY <1>21, <2>1, TableUnchanged DEF Signal, Kill, TypeOK
<1>22. CASE Finished \/ UNCHANGED vars
  <2>1. UNCHANGED vars
    BY <1>22 DEF Finished
  <2> QED
    BY <2>1, TableUnchanged DEF TypeOK
<1> QED
  BY <1>1, <1>2, <1>3, <1>4, <1>5, <1>6, <1>7, <1>8, <1>9, <1>11, <1>12, <1>13,
     <1>15, <1>16, <1>17, <1>18, <1>19, <1>20, <1>21, <1>22, <1>23
     DEF Next, Command, Wake, ChildStep

\* The variables keep their types for every program, table size and input,
\* negative indices of delete and signals included.
THEOREM TypeCorrect == Spec => []TypeOK
<1>1. Spec => []TypeInv
  BY TypeInit, TypeNext, PTL DEF Spec
<1> QED
  BY <1>1, PTL DEF TypeInv

\* No address is ever listed twice, whatever is inserted and deleted.
THEOREM AddressesUnique == Spec => []UniqueAddresses
<1>1. Spec => []TypeInv
  BY TypeInit, TypeNext, PTL DEF Spec
<1> QED
  BY <1>1, PTL DEF TypeInv

----------------------------------------------------------------------------
(* The text of the child.  BreakpointsArmed is not inductive: it needs to  *)
(* know what the text is while a breakpoint is lifted, that the byte put   *)
(* back is 0xcc, that the table saved the program's bytes, and in which    *)
(* states of the debugger there is a child at all.                         *)

ChildPhase ==
  /\ dbg \in {"noload", "load"} \/ Ended => child = "none"
  /\ dbg = "prompt" => child \in {"stopped", "killed"}
  /\ child = "running" => dbg = "contwait"
  /\ child = "stepping" => dbg \in {"stepover", "siwait"}

LiftedOK ==
  lifted # NULL => /\ dbg \in {"stepover", "siwait"} \/ Ended
                   /\ lifted.addr \in Listed /\ lifted.byte = CC

TableSaved == \A i \in Used : bpoint_arr[i].n_chr = Orig[bpoint_arr[i].n_addr]

TextFaithful ==
  text = IF lifted = NULL THEN Planted ELSE [Planted EXCEPT ![lifted.addr] = Orig[lifted.addr]]

TextInv ==
  /\ ChildPhase /\ LiftedOK
  /\ child # "killed" /\ ~Ended => TableSaved
  /\ Live => TextFaithful

\* Lifting a breakpoint from the planted text bares the program's own byte.
LEMMA LiftedImage ==
  ASSUME TypeInv, TableSaved, NEW a \in Listed
  PROVE  Lift(Planted, a) = [Planted EXCEPT ![a] = Orig[a]] /\ Planted[a] = CC
<1>1. bpoint_arr[seek_bpoint_arr(a)].n_chr = Orig[a]
  BY SeekFinds DEF TypeInv, TypeOK, TableSaved
<1>2. a \in Text
  BY UsedSlots DEF TypeInv, TypeOK
<1> QED
  BY <1>1, <1>2 DEF Lift, Planted

\* Putting it back gives the planted text.
LEMMA RestoredImage ==
  ASSUME TypeInv, LiftedOK, TextFaithful
  PROVE  Restored = Planted
<1>1. CASE lifted = NULL
  BY <1>1 DEF TextFaithful, Restored
<1>2. CASE lifted # NULL
  <2>1. lifted.addr \in Listed /\ lifted.addr \in Text /\ lifted.byte = CC
    BY <1>2, UsedSlots DEF LiftedOK, TypeInv, TypeOK
  <2>2. Restored = [text EXCEPT ![lifted.addr] = CC]
    BY <1>2, <2>1 DEF Restored
  <2>3. text = [Planted EXCEPT ![lifted.addr] = Orig[lifted.addr]]
    BY <1>2 DEF TextFaithful
  <2>4. Planted[lifted.addr] = CC
    BY <2>1 DEF Planted
  <2> QED
    BY <2>2, <2>3, <2>4, PlantedType
<1> QED
  BY <1>1, <1>2

LEMMA SavedUnchanged == ASSUME UNCHANGED tableVars PROVE TableSaved' = TableSaved
BY TableUnchanged DEF TableSaved

LEMMA TextEnd ==
  ASSUME TypeInv, TextInv,
         NEW how \in {"exit", "return", "errquit", "abort", "segv", "corrupt"}, End(how)
  PROVE  TextInv'
BY TableUnchanged DEF TextInv, ChildPhase, LiftedOK, End, Ended, Live

LEMMA TextResume ==
  ASSUME TypeInv, TableSaved, NEW a \in Int, Resume(Planted, a), UNCHANGED tableVars
  PROVE  TextInv'
<1>1. TableSaved'
  BY SavedUnchanged
<1>2. CASE a \in Listed
  <2> DEFINE rec == [addr |-> a, byte |-> Planted[a]]
  <2>1. a \in Text
    BY <1>2, UsedSlots DEF TypeInv, TypeOK
  <2>2. /\ lifted' = rec /\ dbg' = "stepover" /\ child' = "stepping"
        /\ text' = Lift(Planted, a)
    BY <1>2 DEF Resume
  <2>3. rec # NULL /\ rec.addr = a /\ rec.byte = CC
    <3>1. rec \in Lifted
      BY <2>1, PlantedType
    <3> QED
      BY <3>1, <1>2, LiftedImage, TableAssumption
  <2>4. LiftedOK'
    BY <2>2, <2>3, <1>2, TableUnchanged DEF LiftedOK
  <2>5. TextFaithful'
    BY <2>2, <2>3, <1>2, TableUnchanged, LiftedImage DEF TextFaithful
  <2> QED
    BY <1>1, <2>2, <2>4, <2>5 DEF TextInv, ChildPhase, Ended
<1>3. CASE a \notin Listed
  BY <1>1, <1>3, TableUnchanged DEF Resume, TextInv, ChildPhase, LiftedOK, TextFaithful, Ended
<1> QED
  BY <1>2, <1>3


LEMMA TextInit == Init => TextInv
BY TextAssumption, TableAssumption
   DEF Init, TextInv, ChildPhase, LiftedOK, TableSaved, Used, Ended, Live

\* Steps of the child leave the text alone, and so does a kill.
LEMMA TextChild ==
  ASSUME TypeInv, TextInv, ChildStep \/ Signal \/ Kill
  PROVE  TextInv'
<1>1. UNCHANGED <<tableVars, dbg, lifted, text>>
  BY DEF ChildStep, ChildTrap, ChildExec, ChildExit, ChildWild, Signal, Kill
<1>2. /\ Live /\ child' \in {child, "stopped", "exited", "killed"}
      /\ child \in {"stepping", "running"} \/ (child = "stopped" /\ child' = "killed")
  BY DEF ChildStep, ChildTrap, ChildExec, ChildExit, ChildWild, Signal, Kill, Active, OrStop, Live,
         TypeInv, TypeOK
<1>3. ChildPhase'
  BY <1>1, <1>2 DEF TextInv, ChildPhase, Ended
<1>4. LiftedOK'
  BY <1>1, TableUnchanged DEF TextInv, LiftedOK, Ended
<1>5. (child # "killed" /\ ~Ended => TableSaved)'
  BY <1>1, <1>2, SavedUnchanged DEF TextInv, Ended, Live
<1>6. (Live => TextFaithful)'
  BY <1>1, <1>2, TableUnchanged DEF TextInv, TextFaithful
<1> QED
  BY <1>3, <1>4, <1>5, <1>6 DEF TextInv

\* "break" plants one more 0xcc and saves the byte that was there.
LEMMA TextBreak ==
  ASSUME TypeInv, TextInv, NEW a \in BreakArgs, Break(a)
  PROVE  TextInv'
<1>1. /\ lifted = NULL /\ lifted' = NULL /\ dbg = "prompt" /\ UNCHANGED <<dbg, child>>
      /\ a \in Text /\ a \notin Listed
  BY AcceptedText, InputAssumption DEF Break, TypeInv, TextInv, LiftedOK, Ended
<1>2. Saved(a) \in Byte
  BY <1>1, TextAssumption DEF Saved, Peek, TypeInv, TypeOK
<1>3. /\ Listed' = Listed \cup {a}
      /\ \A i \in Used : bpoint_arr'[i] = bpoint_arr[i]
      /\ Used' = Used \cup {bpoint_arr_size}
      /\ bpoint_arr'[bpoint_arr_size] = [n_addr |-> a, n_chr |-> Saved(a)]
  BY <1>1, <1>2, InsertAdds DEF Break, TypeInv, TypeOK
<1>4. ASSUME Live
      PROVE  TableSaved' /\ TextFaithful'
  <2>1. text = Planted /\ TableSaved
    BY <1>1, <1>4 DEF TextInv, TextFaithful, Live, Ended
  <2>2. Saved(a) = Orig[a]
    BY <1>1, <1>4, <2>1 DEF Saved, Peek, Planted
  <2>3. TableSaved'
    BY <1>3, <2>1, <2>2 DEF TableSaved
  <2>4. text' = [Planted EXCEPT ![a] = CC]
    BY <1>4, <2>1 DEF Break, Poke
  <2>5. Planted' = [Planted EXCEPT ![a] = CC]
    BY <1>1, <1>3 DEF Planted
  <2> QED
    BY <1>1, <2>3, <2>4, <2>5 DEF TextFaithful
<1>5. child \in {"stopped", "killed"} /\ (child = "stopped" => Live)
  BY <1>1 DEF TextInv, ChildPhase, Live
<1>6. Live' = Live
  BY <1>1 DEF Live
<1> QED
  BY <1>1, <1>4, <1>5, <1>6 DEF TextInv, ChildPhase, LiftedOK, Ended

\* "delete" takes one 0xcc out and gives the saved byte back.
LEMMA TextDelete ==
  ASSUME TypeInv, TextInv, NEW idx \in DeleteArgs, idx \in Nat, Delete(idx)
  PROVE  TextInv'
<1> DEFINE a == bpoint_arr[idx].n_addr
<1>1. /\ lifted = NULL /\ lifted' = NULL /\ dbg = "prompt" /\ UNCHANGED <<dbg, child>>
      /\ idx \in Used
  BY TableAssumption DEF Delete, TypeInv, TypeOK, TableOK, Used, TextInv, LiftedOK, Ended
<1>2. a \in Listed /\ a \in Text
  BY <1>1, UsedSlots DEF Listed, TypeInv, TypeOK
<1>3. /\ Listed' = Listed \ {a}
      /\ \A i \in Used' : \E j \in Used : bpoint_arr'[i] = bpoint_arr[j]
  BY <1>1, RemoveDrops DEF Delete, TypeInv, TypeOK
<1>4. ASSUME Live
      PROVE  TableSaved' /\ TextFaithful'
  <2>1. text = Planted /\ TableSaved
    BY <1>1, <1>4 DEF TextInv, TextFaithful, Live, Ended
  <2>2. TableSaved'
    BY <1>3, <2>1 DEF TableSaved
  <2>3. text' = [Planted EXCEPT ![a] = Orig[a]]
    BY <1>1, <1>4, <2>1 DEF Delete, Poke, TableSaved
  <2>4. Planted' = [Planted EXCEPT ![a] = Orig[a]]
    BY <1>2, <1>3 DEF Planted
  <2> QED
    BY <1>1, <2>2, <2>3, <2>4 DEF TextFaithful
<1>5. child \in {"stopped", "killed"} /\ (child = "stopped" => Live)
  BY <1>1 DEF TextInv, ChildPhase, Live
<1>6. Live' = Live
  BY <1>1 DEF Live
<1> QED
  BY <1>1, <1>4, <1>5, <1>6 DEF TextInv, ChildPhase, LiftedOK, Ended

\* waitpid returned: whatever was lifted is back before the child goes on.
LEMMA TextWake ==
  ASSUME TypeInv, TextInv, Wake
  PROVE  TextInv'
<1>1. ASSUME ChildEnded, dbg \notin {"noload", "load"}, ~Ended PROVE TextInv'
  BY <1>1, SavedUnchanged DEF ChildEnded, TextInv, ChildPhase, LiftedOK, Ended, Live
<1>2. ASSUME Live, dbg \in {"stepover", "contwait", "siwait"},
             text' = Restored \/ (text' = text /\ lifted = NULL),
             lifted' = NULL, UNCHANGED tableVars,
             \/ dbg' = "contwait" /\ child' = "running"
             \/ dbg' = "prompt" /\ child' = "stopped"
      PROVE  TextInv'
  <2>1. TableSaved /\ TextFaithful
    BY <1>2 DEF TextInv, Live, Ended
  <2>2. text' = Planted
    <3>1. CASE text' = Restored
      BY <3>1, <2>1, RestoredImage DEF TextInv
    <3>2. CASE text' = text /\ lifted = NULL
      BY <3>2, <2>1 DEF TextFaithful
    <3> QED
      BY <3>1, <3>2, <1>2
  <2>3. TableSaved' /\ TextFaithful'
    BY <1>2, <2>1, <2>2, SavedUnchanged, TableUnchanged DEF TextFaithful
  <2> QED
    BY <1>2, <2>3 DEF TextInv, ChildPhase, LiftedOK, Ended
<1>3. CASE StepOverDone
  <2>1. CASE End("errquit")
    BY <2>1, TextEnd
  <2>2. CASE ~End("errquit")
    <3>1. /\ Live /\ dbg = "stepover" /\ text' = Restored /\ lifted' = NULL
          /\ UNCHANGED tableVars /\ dbg' = "contwait" /\ child' = "running"
      BY <1>3, <2>2 DEF StepOverDone, Live
    <3> QED
      BY <1>2, <3>1
  <2> QED
    BY <2>1, <2>2
<1>4. CASE ContDone
  <2>1. lifted = NULL
    BY <1>4 DEF ContDone, TextInv, LiftedOK, Ended
  <2> QED
    BY <1>1, <1>2, <1>4, <2>1, TextEnd DEF ContDone, Live, Ended
<1>5. CASE SiDone
  <2>1. CASE End("errquit") \/ ChildEnded
    BY <1>1, <1>5, <2>1, TextEnd DEF SiDone, Ended
  <2>2. CASE ~(End("errquit") \/ ChildEnded)
    <3>1. /\ Live /\ dbg = "siwait" /\ text' = Restored /\ lifted' = NULL
          /\ UNCHANGED tableVars /\ dbg' = "prompt" /\ child' = "stopped"
      BY <1>5, <2>2 DEF SiDone, Live
    <3> QED
      BY <1>2, <3>1
  <2> QED
    BY <2>1, <2>2
<1> QED
  BY <1>3, <1>4, <1>5 DEF Wake

\* The indices of this step's "delete" are slots, or leave the table alone.
WithinTable ==
  \A i \in DeleteArgs : /\ Delete(i) => i \in Nat
                        /\ DeleteStray(i) => End("segv") \/ UNCHANGED vars

\* A user who never types a negative index.
LEMMA NatWithin == ASSUME DeleteArgs \subseteq Nat, TypeInv PROVE WithinTable
BY NoStray DEF WithinTable, TypeInv

\* What a step does to the table.
LEMMA TableSteps ==
  ASSUME TypeInv, [Next]_vars
  PROVE  \/ UNCHANGED tableVars
         \/ bpoint_arr_size < ArrLen /\ \E a, b : insert_bpoint_arr(a, b)
         \/ \E i \in DeleteArgs : i < bpoint_arr_size /\ remove_bpoint_arr(i)
<1> DEFINE Goal == \/ UNCHANGED tableVars
                   \/ bpoint_arr_size < ArrLen /\ \E a, b : insert_bpoint_arr(a, b)
                   \/ \E i \in DeleteArgs : i < bpoint_arr_size /\ remove_bpoint_arr(i)
<1>1. ASSUME NEW how, End(how) PROVE Goal
  BY <1>1 DEF End
<1>2. CASE Wake
  BY <1>1, <1>2 DEF Wake, StepOverDone, ContDone, SiDone, ChildEnded
<1>3. CASE ChildStep \/ Signal \/ Kill \/ Finished \/ UNCHANGED vars
  BY <1>3 DEF ChildStep, ChildTrap, ChildExec, ChildExit, ChildWild, Signal, Kill, Finished
<1>4. ASSUME NEW a \in BreakArgs, Break(a) \/ BreakOverflow(a) PROVE Goal
  BY <1>1, <1>4 DEF Break, BreakOverflow
<1>5. ASSUME NEW i \in DeleteArgs, Delete(i) \/ DeleteStray(i) PROVE Goal
  BY <1>1, <1>5 DEF Delete, DeleteStray
<1>6. CASE Exit \/ BlankLine \/ LaunchFails \/ RegistersFail
  BY <1>1, <1>6 DEF Exit, BlankLine, LaunchFails, RegistersFail
<1>7. CASE Start \/ RunFromLoad \/ Cont \/ Si
  BY <1>7 DEF Start, RunFromLoad, Cont, Si
<1>8. CASE Disasm
  BY <1>1, <1>8 DEF Disasm
<1>9. CASE (\E p \in Programs : Load(p)) \/ (\E a \in RipArgs : SetRip(a))
  BY <1>9 DEF Load, SetRip
<1> QED
  BY <1>2, <1>3, <1>4, <1>5, <1>6, <1>7, <1>8, <1>9 DEF Next, Command

\* A negative index moves slot 0 out of the table, if it has one.
LEMMA NegativeMoves ==
  ASSUME TypeInv, NEW i \in DeleteArgs, i \notin Nat, i < bpoint_arr_size, remove_bpoint_arr(i)
  PROVE  UNCHANGED tableVars \/ ~NoneMovedOut'
<1>1. i \in Int /\ i < 0 /\ i + Below >= 0 /\ Below \in Nat
  BY InputAssumption, TableAssumption
<1>2. bpoint_arr_size \in Nat
  BY TableAssumption DEF TypeInv, TypeOK, TableOK
<1>3. CASE bpoint_arr_size = 0
  BY <1>3 DEF remove_bpoint_arr
<1>4. CASE bpoint_arr_size > 0
  <2>1. -1 \in Cells \ Slots /\ bpoint_arr' = Shifted(i)
    BY <1>1, <1>4, TableAssumption DEF Cells, remove_bpoint_arr
  <2>2. bpoint_arr'[-1] = IF bpoint_arr_size - 1 = -1 THEN NULL
                          ELSE IF -1 \in i .. (bpoint_arr_size - 2) THEN bpoint_arr[0]
                          ELSE bpoint_arr[-1]
    BY <2>1 DEF Shifted
  <2>3. bpoint_arr'[-1] = bpoint_arr[0]
    BY <1>1, <1>2, <1>4, <2>2
  <2>4. bpoint_arr[0] \in Bpoint
    BY <1>2, <1>4, UsedSlots DEF Used, TypeInv, TypeOK
  <2> QED
    BY <2>1, <2>3, <2>4 DEF NoneMovedOut
<1> QED
  BY <1>2, <1>3, <1>4

\* What has been moved out of the table stays there.
LEMMA MovedStays == ASSUME TypeInv, [Next]_vars, NoneMovedOut' PROVE NoneMovedOut
<1>1. CASE UNCHANGED tableVars
  BY <1>1 DEF NoneMovedOut
<1>2. ASSUME bpoint_arr_size < ArrLen, NEW a, NEW b, insert_bpoint_arr(a, b) PROVE NoneMovedOut
  <2>1. bpoint_arr_size \in Slots
    BY <1>2, TableAssumption DEF TypeInv, TypeOK, TableOK
  <2>2. \A i \in Cells \ Slots : bpoint_arr'[i] = bpoint_arr[i]
    BY <1>2, <2>1 DEF insert_bpoint_arr, TypeInv, TypeOK, TableOK
  <2> QED
    BY <2>2 DEF NoneMovedOut
<1>3. ASSUME NEW i \in DeleteArgs, i < bpoint_arr_size, remove_bpoint_arr(i) PROVE NoneMovedOut
  <2>1. CASE i \notin Nat
    BY <1>1, <1>3, <2>1, NegativeMoves
  <2>2. CASE i \in Nat
    <3>1. bpoint_arr_size \in Nat /\ bpoint_arr_size > 0 /\ bpoint_arr_size <= ArrLen /\ ArrLen \in Nat
      BY <1>3, <2>2, TableAssumption DEF TypeInv, TypeOK, TableOK
    <3>2. bpoint_arr' = Shifted(i)
      BY <1>3, <3>1 DEF remove_bpoint_arr
    <3>3. ASSUME NEW c \in Cells \ Slots PROVE bpoint_arr'[c] = bpoint_arr[c]
      <4>1. c \in Int /\ c < 0
        BY <3>1, <3>3, TableAssumption DEF Cells
      <4> QED
        BY <2>2, <3>1, <3>2, <4>1 DEF Shifted
    <3> QED
      BY <3>3 DEF NoneMovedOut
  <2> QED
    BY <2>1, <2>2
<1> QED
  BY <1>1, <1>2, <1>3, TableSteps

\* A step that moves nothing out of the table.
LEMMA NoneMovedWithin ==
  ASSUME TypeInv, NoneMovedOut, NoneMovedOut' PROVE WithinTable
<1>1. ASSUME NEW i \in DeleteArgs, Delete(i), i \notin Nat PROVE FALSE
  <2>1. i \in Cells \ Slots
    BY <1>1, InputAssumption, TableAssumption DEF Cells
  <2> QED
    BY <1>1, <2>1 DEF Delete, NoneMovedOut
<1>2. ASSUME NEW i \in DeleteArgs, DeleteStray(i), ~End("segv") PROVE UNCHANGED vars
  <2>1. i < bpoint_arr_size /\ remove_bpoint_arr(i)
    BY <1>2 DEF DeleteStray
  <2>2. i \notin Nat
    BY <1>2, NoStray DEF TypeInv
  <2>3. UNCHANGED tableVars
    BY <2>1, <2>2, NegativeMoves
  <2> QED
    BY <1>2, <2>3 DEF DeleteStray
<1> QED
  BY <1>1, <1>2 DEF WithinTable

LEMMA TextNext ==
  ASSUME WithinTable, TypeInv, TextInv, [Next]_vars
  PROVE  TextInv'
<1>1. ASSUME NEW p \in Programs, Load(p) PROVE TextInv'
  BY <1>1, SavedUnchanged DEF Load, TextInv, ChildPhase, LiftedOK, Ended, Live
<1>2. CASE Exit \/ BlankLine \/ LaunchFails \/ RegistersFail
  BY <1>2, TextEnd DEF Exit, BlankLine, LaunchFails, RegistersFail
<1>3. ASSUME dbg = "load" PROVE TableSaved /\ lifted = NULL
  BY <1>3 DEF TextInv, ChildPhase, LiftedOK, Ended
<1>4. CASE Start
  <2>1. text' = Planted' /\ lifted' = NULL /\ TableSaved'
    BY <1>3, <1>4, TableUnchanged, SavedUnchanged DEF Start, Launches
  <2> QED
    BY <1>4, <2>1 DEF Start, Launches, TextInv, ChildPhase, LiftedOK, TextFaithful, Ended
<1>5. CASE RunFromLoad
  <2>1. Entry \in Int
    BY CodeAssumption, TextAssumption
  <2> QED
    BY <1>3, <1>5, <2>1, TextResume DEF RunFromLoad, Launches
<1>6. ASSUME AtPrompt PROVE text = Planted /\ TableSaved /\ lifted = NULL
  BY <1>6 DEF AtPrompt, TextInv, LiftedOK, TextFaithful, Live, Ended
<1>7. CASE Cont
  BY <1>6, <1>7, TextResume DEF Cont, TypeInv, TypeOK
<1>8. CASE Si
  <2>1. text = Planted /\ TableSaved /\ lifted = NULL /\ TableSaved'
    BY <1>6, <1>8, SavedUnchanged DEF Si
  <2>2. CASE rip \in Listed
    <3> DEFINE rec == [addr |-> rip, byte |-> text[rip]]
    <3>1. rip \in Text
      BY <2>2, UsedSlots DEF TypeInv, TypeOK
    <3>2. rec \in Lifted
      BY <3>1 DEF TypeInv, TypeOK
    <3>3. lifted' = rec /\ text' = Lift(Planted, rip) /\ UNCHANGED tableVars
      BY <1>8, <2>1, <2>2 DEF Si
    <3>4. rec # NULL /\ rec.addr = rip /\ rec.byte = CC
      BY <2>1, <2>2, <3>2, LiftedImage, TableAssumption
    <3>5. TextFaithful'
      BY <2>1, <2>2, <3>3, <3>4, TableUnchanged, LiftedImage DEF TextFaithful
    <3>6. LiftedOK'
      BY <1>8, <2>2, <3>3, <3>4, TableUnchanged DEF LiftedOK, Si
    <3> QED
      BY <1>8, <2>1, <3>5, <3>6 DEF Si, TextInv, ChildPhase, Ended
  <2>3. CASE rip \notin Listed
    BY <1>8, <2>1, <2>3, TableUnchanged DEF Si, TextInv, ChildPhase, LiftedOK, TextFaithful, Ended
  <2> QED
    BY <2>2, <2>3
<1>9. CASE Disasm
  <2>1. CASE End("errquit")
    BY <2>1, TextEnd
  <2>2. CASE ~End("errquit")
    BY <1>9, <2>2, TableUnchanged, SavedUnchanged
       DEF Disasm, TextInv, ChildPhase, LiftedOK, TextFaithful, Ended, Live
  <2> QED
    BY <2>1, <2>2
<1>10. ASSUME NEW a \in BreakArgs, BreakOverflow(a) PROVE TextInv'
  BY <1>10, TextEnd DEF BreakOverflow
<1>12. ASSUME NEW a \in RipArgs, SetRip(a) PROVE TextInv'
  BY <1>12, TableUnchanged, SavedUnchanged
     DEF SetRip, AtPrompt, TextInv, ChildPhase, LiftedOK, TextFaithful, Ended, Live
<1>13. CASE Finished \/ UNCHANGED vars
  BY <1>13, TableUnchanged, SavedUnchanged
     DEF Finished, TextInv, ChildPhase, LiftedOK, TextFaithful, Ended, Live
<1>14. ASSUME NEW i \in DeleteArgs, Delete(i) \/ DeleteStray(i) PROVE TextInv'
  BY <1>13, <1>14, TextDelete, TextEnd DEF WithinTable
<1> QED
  BY <1>1, <1>2, <1>4, <1>5, <1>7, <1>8, <1>9, <1>10, <1>12, <1>13, <1>14,
     TextBreak, TextChild, TextWake
     DEF Next, Command

\* With the text known, the prompts and a continued child see every breakpoint.
LEMMA TextImplies ==
  ASSUME TypeInv, TextInv
  PROVE  /\ AtPrompt \/ child = "running" => text = Planted
         /\ Live => TableSaved
<1>1. AtPrompt \/ child = "running" => text = Planted
  BY DEF AtPrompt, TextInv, ChildPhase, LiftedOK, TextFaithful, Live, Ended
<1>2. Live => TableSaved
  BY DEF TextInv, ChildPhase, Live
<1> QED
  BY <1>1, <1>2

\* It is known as long as no breakpoint has been moved out of the table.
TableInv == TypeInv /\ (NoneMovedOut => TextInv)
LEMMA TableInvariant == Spec => []TableInv
<1>1. Init => TableInv
  BY TypeInit, TextInit DEF TableInv
<1>2. TableInv /\ [Next]_vars => TableInv'
  BY TypeNext, TextNext, MovedStays, NoneMovedWithin DEF TableInv
<1> QED
  BY <1>1, <1>2, PTL DEF Spec

\* At every prompt, and whenever the child is continued, its text holds 0xcc
\* at exactly the listed breakpoints: for every program and table, with
\* signals, kills and restarts, until a negative index of delete moves a
\* breakpoint out of the table.
THEOREM Armed == Spec => []BreakpointsArmed
<1>1. TableInv => BreakpointsArmed
  BY TextImplies DEF TableInv, BreakpointsArmed
<1> QED
  BY <1>1, TableInvariant, PTL

\* Every slot remembers the program's own byte, until then too.
THEOREM BytesSaved == Spec => []SavedBytes
<1>1. TableInv => SavedBytes
  BY TextImplies DEF TableInv, SavedBytes, TableSaved
<1> QED
  BY <1>1, TableInvariant, PTL

\* A continued child executes no instruction that has a breakpoint on it.
THEOREM NoneMissed == Spec => NoMissedBreakpoint
<1>1. TableInv /\ [Next]_vars =>
        [NoneMovedOut /\ child = "running" /\ (ChildExec \/ ChildExit) => rip \notin Listed]_vars
  <2> SUFFICES ASSUME TableInv, NoneMovedOut, child = "running", ChildExec \/ ChildExit, rip \in Listed
               PROVE  FALSE
    OBVIOUS
  <2>1. text = Planted /\ rip \in Text
    BY TextImplies, UsedSlots DEF TableInv, TypeInv, TypeOK
  <2> QED
    BY <2>1 DEF ChildExec, ChildExit, Planted
<1> QED
  BY <1>1, TableInvariant, PTL DEF Spec, NoMissedBreakpoint

----------------------------------------------------------------------------
(* Transparency.  The invariant says where rip can be: on an instruction   *)
(* whenever the child can run or the user has the prompt, one byte past a  *)
(* listed one after a trap; and that a step over a breakpoint moved on.    *)

ExecInv ==
  /\ Listed \subseteq Starts
  /\ child \in {"stepping", "running"} \/ AtPrompt => rip \in Starts
  /\ child = "stepping" => IF lifted = NULL THEN rip \notin Listed ELSE rip = lifted.addr
  /\ child = "running" /\ rip \in Listed => moved
  /\ child = "stopped" /\ dbg = "contwait" => stop = "int3" /\ rip - 1 \in Listed /\ moved
  /\ child = "stopped" /\ dbg \in {"stepover", "siwait"} => stop = "step" /\ rip \in Starts /\ moved


ProgramInv == TypeInv /\ TextInv /\ ExecInv

LEMMA ExecInit == Init => ExecInv
BY DEF Init, ExecInv, Listed, Used, AtPrompt

LEMMA ExecEnd ==
  ASSUME ExecInv,
         NEW how \in {"exit", "return", "errquit", "abort", "segv", "corrupt"}, End(how)
  PROVE  ExecInv'
BY TableUnchanged DEF ExecInv, End, AtPrompt

LEMMA ExecResume ==
  ASSUME ExecInv, NEW mem \in [Text -> Byte], NEW a \in Starts, Resume(mem, a), UNCHANGED tableVars
  PROVE  ExecInv'
<1>1. CASE a \in Listed
  <2> DEFINE rec == [addr |-> a, byte |-> mem[a]]
  <2>1. rec.addr = a /\ rec \in Lifted
    BY CodeAssumption
  <2>2. /\ lifted' = rec /\ rip' = a /\ child' = "stepping" /\ dbg' = "stepover"
        /\ Listed' = Listed
    BY <1>1, TableUnchanged DEF Resume
  <2>3. rec # NULL
    BY <2>1, TableAssumption
  <2> HIDE DEF rec
  <2> QED
    BY <2>1, <2>2, <2>3 DEF ExecInv, AtPrompt
<1>2. CASE a \notin Listed
  BY <1>2, TableUnchanged DEF Resume, ExecInv, AtPrompt
<1> QED
  BY <1>1, <1>2

\* What a child of a tame program finds at rip when it can run: 0xcc exactly
\* where it is continued into a breakpoint, its own instruction otherwise.
LEMMA TameCode ==
  ASSUME Tame, ProgramInv, Active
  PROVE  /\ rip \in Starts /\ rip \in Text
         /\ text[rip] = CC <=> child = "running" /\ rip \in Listed
         /\ text[rip] # CC => Intact(rip)
<1>1. rip \in Starts /\ rip \in Text /\ Live
  BY CodeAssumption DEF ProgramInv, ExecInv, Active, Live
<1>2. TextFaithful /\ LiftedOK
  BY <1>1 DEF ProgramInv, TextInv
<1>3. Orig[rip] # CC
  BY <1>1 DEF Tame
<1>4. CASE child = "stepping" /\ lifted # NULL
  <2>1. rip = lifted.addr /\ text = [Planted EXCEPT ![rip] = Orig[rip]]
    BY <1>2, <1>4 DEF TextFaithful, ProgramInv, ExecInv
  <2>2. ASSUME NEW b \in rip .. (rip + Length[rip] - 1) PROVE text[b] = Orig[b]
    <3>1. b \in Text /\ b \in Int
      BY <1>1, CodeAssumption, TextAssumption
    <3>2. b \in Listed => b = rip
      <4> SUFFICES ASSUME b \in Starts, b # rip PROVE FALSE
        BY DEF ProgramInv, ExecInv
      <4>1. rip < b /\ b < rip + Length[rip]
        BY <1>1, <3>1, CodeAssumption, TextAssumption
      <4> QED
        BY <1>1, <3>1, <4>1, CodeAssumption, TextAssumption DEF Tame
    <3> QED
      BY <2>1, <3>1, <3>2 DEF Planted
  <2>3. text[rip] = Orig[rip]
    BY <1>1, <2>1, PlantedType
  <2> QED
    BY <1>1, <1>3, <1>4, <2>2, <2>3 DEF Intact
<1>5. CASE lifted = NULL
  <2>1. text = Planted
    BY <1>2, <1>5 DEF TextFaithful
  <2>2. text[rip] = CC <=> rip \in Listed
    BY <1>1, <1>3, <2>1 DEF Planted
  <2>3. ASSUME rip \notin Listed, NEW b \in rip .. (rip + Length[rip] - 1) PROVE text[b] = Orig[b]
    <3>1. b \in Text /\ b \in Int
      BY <1>1, CodeAssumption, TextAssumption
    <3>2. b \notin Listed
      <4> SUFFICES ASSUME b \in Starts, b # rip PROVE FALSE
        BY <2>3 DEF ProgramInv, ExecInv
      <4>1. rip < b /\ b < rip + Length[rip]
        BY <1>1, <3>1, CodeAssumption, TextAssumption
      <4> QED
        BY <1>1, <3>1, <4>1, CodeAssumption, TextAssumption DEF Tame
    <3> QED
      BY <2>1, <3>1, <3>2 DEF Planted
  <2>4. child = "stepping" => rip \notin Listed
    BY <1>5 DEF ProgramInv, ExecInv
  <2> QED
    BY <1>1, <2>2, <2>3, <2>4 DEF Intact, Active
<1>6. child = "running" => lifted = NULL
  BY DEF ProgramInv, TextInv, LiftedOK, ChildPhase, Ended
<1> QED
  BY <1>4, <1>5, <1>6 DEF Active


LEMMA ExecChild ==
  ASSUME Tame, ProgramInv, ChildStep \/ Signal \/ Kill
  PROVE  ExecInv'
<1>1. Listed' = Listed /\ UNCHANGED <<dbg, lifted>>
  BY TableUnchanged DEF ChildStep, ChildTrap, ChildExec, ChildExit, ChildWild, Signal, Kill
<1>2. dbg = "prompt" => child \in {"stopped", "killed"}
  BY DEF ProgramInv, TextInv, ChildPhase
<1>3. CASE ChildTrap
  <2>1. child = "running" /\ rip \in Listed /\ dbg = "contwait"
    BY <1>3, TameCode DEF ChildTrap, ProgramInv, TextInv, ChildPhase
  <2>2. rip' - 1 = rip /\ moved
    BY <1>3, <2>1 DEF ChildTrap, ProgramInv, TypeInv, TypeOK, ExecInv
  <2> QED
    BY <1>1, <1>3, <2>1, <2>2 DEF ChildTrap, ProgramInv, ExecInv, AtPrompt
<1>4. CASE ChildExec
  <2>1. rip' \in Starts
    BY <1>4, CodeAssumption DEF ChildExec
  <2>2. CASE child = "stepping"
    BY <1>1, <1>2, <1>4, <2>1, <2>2
       DEF ChildExec, OrStop, ProgramInv, TextInv, ChildPhase, ExecInv, AtPrompt
  <2>3. CASE child = "running"
    BY <1>1, <1>2, <1>4, <2>1, <2>3 DEF ChildExec, OrStop, ProgramInv, ExecInv, AtPrompt
  <2> QED
    BY <1>4, <2>2, <2>3 DEF ChildExec, Active
<1>5. CASE ChildExit
  BY <1>1, <1>5 DEF ChildExit, ProgramInv, ExecInv, AtPrompt
<1>6. ASSUME ChildWild PROVE FALSE
  BY <1>6, TameCode DEF ChildWild
<1>7. ASSUME Signal PROVE FALSE
  BY <1>7 DEF Signal, Tame
<1>8. CASE Kill
  BY <1>1, <1>8 DEF Kill, ProgramInv, ExecInv, AtPrompt
<1> QED
  BY <1>3, <1>4, <1>5, <1>6, <1>7, <1>8 DEF ChildStep

LEMMA ExecNext ==
  ASSUME Tame, ProgramInv, [Next]_vars
  PROVE  ExecInv'
<1> USE DEF ProgramInv
<1>1. ASSUME NEW p \in Programs, Load(p) PROVE ExecInv'
  BY <1>1, TableUnchanged DEF Load, ExecInv, AtPrompt, TextInv, ChildPhase
<1>2. CASE Exit \/ BlankLine \/ LaunchFails \/ RegistersFail
  BY <1>2, ExecEnd DEF Exit, BlankLine, LaunchFails, RegistersFail
<1>3. CASE Start
  BY <1>3, CodeAssumption, TableUnchanged DEF Start, Launches, ExecInv, AtPrompt
<1>4. CASE RunFromLoad
  BY <1>4, CodeAssumption, ExecResume, PlantedType DEF RunFromLoad, Launches
<1>5. CASE Cont
  BY <1>5, ExecResume DEF Cont, ExecInv, TypeInv, TypeOK
<1>6. CASE Si
  <2>1. rip \in Starts /\ lifted = NULL /\ Listed' = Listed
    BY <1>6, TableUnchanged DEF Si, AtPrompt, ExecInv, TextInv, LiftedOK, Ended
  <2>2. CASE rip \in Listed
    <3> DEFINE rec == [addr |-> rip, byte |-> text[rip]]
    <3>1. rec.addr = rip /\ rec \in Lifted
      BY <2>1, CodeAssumption DEF TypeInv, TypeOK
    <3>2. rec # NULL /\ lifted' = rec
      BY <1>6, <2>2, <3>1, TableAssumption DEF Si
    <3> HIDE DEF rec
    <3> QED
      BY <1>6, <2>1, <3>1, <3>2 DEF Si, ExecInv, AtPrompt
  <2>3. CASE rip \notin Listed
    BY <1>6, <2>1, <2>3 DEF Si, ExecInv, AtPrompt
  <2> QED
    BY <2>2, <2>3
<1>7. CASE Disasm
  <2>1. CASE End("errquit")
    BY <2>1, ExecEnd
  <2>2. CASE ~End("errquit")
    BY <1>7, <2>2, TableUnchanged DEF Disasm, ExecInv, AtPrompt
  <2> QED
    BY <2>1, <2>2
<1>8. ASSUME NEW a \in BreakArgs, Break(a) PROVE ExecInv'
  <2>1. a \in Starts /\ a \in Text /\ a \notin Listed
    BY <1>8, AcceptedText, InputAssumption DEF Break, TypeInv, Tame
  <2>2. Saved(a) \in Byte
    BY <2>1, TextAssumption, CodeAssumption DEF Saved, Peek, TypeInv, TypeOK
  <2>3. Listed' = Listed \cup {a}
    BY <1>8, <2>1, <2>2, InsertAdds DEF Break, TypeInv, TypeOK
  <2>4. child \in {"stopped", "killed"}
    BY <1>8 DEF Break, TextInv, ChildPhase
  <2> QED
    BY <1>8, <2>1, <2>3, <2>4 DEF Break, ExecInv, AtPrompt
<1>9. ASSUME NEW a \in BreakArgs, BreakOverflow(a) PROVE ExecInv'
  BY <1>9, ExecEnd DEF BreakOverflow
<1>10. ASSUME NEW i \in DeleteArgs, Delete(i) PROVE ExecInv'
  <2>1. Listed' \subseteq Listed
    <3>1. i \in Used
      BY <1>10, TableAssumption DEF Tame, Delete, TypeInv, TypeOK, TableOK, Used
    <3> QED
      BY <1>10, <3>1, RemoveDrops DEF Delete, TypeInv, TypeOK
  <2>2. child \in {"stopped", "killed"}
    BY <1>10 DEF Delete, TextInv, ChildPhase
  <2> QED
    BY <1>10, <2>1, <2>2 DEF Delete, ExecInv, AtPrompt
<1>11. ASSUME NEW i \in DeleteArgs, DeleteStray(i) PROVE FALSE
  BY <1>11, NoStray DEF Tame, TypeInv
<1>12. ASSUME NEW a \in RipArgs, SetRip(a) PROVE ExecInv'
  BY <1>12, TableUnchanged DEF SetRip, AtPrompt, ExecInv, Tame
<1>13. ASSUME ChildEnded, dbg \notin {"noload", "load"} PROVE ExecInv'
  BY <1>13, TableUnchanged DEF ChildEnded, ExecInv, AtPrompt
<1>14. CASE StepOverDone
  BY <1>14, ExecEnd, TableUnchanged DEF StepOverDone, ExecInv, AtPrompt
<1>15. CASE ContDone
  <2>1. CASE End("return") \/ End("errquit") \/ ChildEnded
    BY <1>13, <1>15, <2>1, ExecEnd DEF ContDone
  <2>2. CASE ~(End("return") \/ End("errquit") \/ ChildEnded)
    BY <1>15, <2>2, TableUnchanged DEF ContDone, BackedUp, ExecInv, AtPrompt
  <2> QED
    BY <2>1, <2>2
<1>16. CASE SiDone
  BY <1>13, <1>16, ExecEnd, TableUnchanged DEF SiDone, ExecInv, AtPrompt
<1>17. CASE Finished \/ UNCHANGED vars
  BY <1>17, TableUnchanged DEF Finished, ExecInv, AtPrompt
<1> QED
  BY <1>1, <1>2, <1>3, <1>4, <1>5, <1>6, <1>7, <1>8, <1>9, <1>10, <1>11, <1>12, <1>14,
     <1>15, <1>16, <1>17, ExecChild DEF Next, Command, Wake

\* The strengthening is inductive for a tame program.
LEMMA ProgramInvariant == ASSUME Tame PROVE Spec => []ProgramInv
<1>1. Init => ProgramInv
  BY TypeInit, TextInit, ExecInit DEF ProgramInv
<1>2. ProgramInv /\ [Next]_vars => ProgramInv'
  BY TypeNext, NatWithin, TextNext, ExecNext DEF ProgramInv, Tame
<1> QED
  BY <1>1, <1>2, PTL DEF Spec


\* Every stop of a tame program after "cont" is announced, and only those.
THEOREM ReportsExactly == ASSUME Tame PROVE Spec => ReportExact
<1>1. ProgramInv /\ [Next]_vars =>
        [ContDone /\ dbg' = "prompt" => /\ stop = "int3" <=> hit' # NULL
                                        /\ stop = "int3" => hit' = rip']_vars
  <2> SUFFICES ASSUME ProgramInv, ContDone, dbg' = "prompt"
               PROVE  stop = "int3" /\ hit' # NULL /\ hit' = rip'
    OBVIOUS
  <2>1. child = "stopped" /\ dbg = "contwait"
    BY DEF ContDone, ChildEnded, End
  <2>2. stop = "int3" /\ rip - 1 \in Listed /\ rip - 1 \in Int
    BY <2>1 DEF ProgramInv, ExecInv, TypeInv, TypeOK
  <2>3. hit' = rip - 1 /\ rip' = rip - 1
    BY <2>1, <2>2 DEF ContDone, BackedUp, ChildEnded, End
  <2> QED
    BY <2>2, <2>3, TableAssumption
<1> QED
  BY <1>1, ProgramInvariant, PTL DEF Spec, ReportExact

\* "cont" always makes a tame program advance.
THEOREM ContMakesProgress == ASSUME Tame PROVE Spec => ContProgress
<1>1. ProgramInv /\ [Next]_vars => [ContDone /\ dbg' = "prompt" => moved]_vars
  BY DEF ContDone, ChildEnded, End, ProgramInv, ExecInv
<1> QED
  BY <1>1, ProgramInvariant, PTL DEF Spec, ContProgress

----------------------------------------------------------------------------
(* The refinement: steps of the child map to steps of the program, "rip--" *)
(* and the rest of the debugger to stuttering.                             *)

LEMMA MapEnd ==
  ASSUME NEW how \in {"exit", "return", "errquit", "abort", "segv", "corrupt"}, End(how)
  PROVE  Program!Next \/ UNCHANGED <<status, at>>
<1>1. status' = "none" /\ at' = Entry
  BY DEF End, status, at, Live
<1> QED
  BY <1>1 DEF status, at, Program!Next, Program!Vanish

LEMMA MapChild ==
  ASSUME Tame, ProgramInv, ChildStep
  PROVE  Program!Next \/ UNCHANGED <<status, at>>
<1>1. /\ Active /\ rip \in Starts /\ status = "alive" /\ at = rip /\ dbg # "prompt"
      /\ UNCHANGED dbg
  <2>1. Active /\ UNCHANGED dbg
    BY DEF ChildStep, ChildTrap, ChildExec, ChildExit, ChildWild
  <2> QED
    BY <2>1, TameCode DEF Active, status, at, Live, Trapped, ProgramInv, TextInv, ChildPhase
<1>2. CASE ChildTrap
  <2>1. status' = "alive" /\ at' = rip
    BY <1>1, <1>2 DEF ChildTrap, status, at, Live, Trapped, ProgramInv, TypeInv, TypeOK
  <2> QED
    BY <1>1, <2>1
<1>3. CASE ChildExec
  <2>1. child' \in {"stopped", "running"} /\ ~Trapped'
    BY <1>1, <1>3 DEF ChildExec, OrStop, Active, Trapped
  <2>2. status' = "alive" /\ at' = rip'
    BY <2>1 DEF status, at, Live
  <2> QED
    BY <1>1, <1>3, <2>2 DEF ChildExec, Program!Next, Program!Step
<1>4. CASE ChildExit
  <2>1. status' = "exited" /\ at' = rip
    BY <1>4 DEF ChildExit, status, at, Live, Trapped
  <2> QED
    BY <1>1, <1>4, <2>1 DEF ChildExit, Program!Next, Program!ExitCall
<1>5. ASSUME ChildWild PROVE FALSE
  BY <1>5, TameCode DEF ChildWild
<1> QED
  BY <1>2, <1>3, <1>4, <1>5 DEF ChildStep

LEMMA MapNext ==
  ASSUME Tame, ProgramInv, [Next]_vars
  PROVE  Program!Next \/ UNCHANGED <<status, at>>
<1> USE DEF ProgramInv
<1> DEFINE Goal == Program!Next \/ UNCHANGED <<status, at>>
<1>1. ASSUME UNCHANGED <<child, rip, stop>>, dbg = "prompt" <=> dbg' = "prompt" PROVE Goal
  BY <1>1 DEF status, at, Live, Trapped
<1>2. CASE Exit \/ BlankLine \/ LaunchFails \/ RegistersFail
  BY <1>2, MapEnd DEF Exit, BlankLine, LaunchFails, RegistersFail
<1>3. ASSUME dbg = "load", child' \in {"stopped", "stepping", "running"}, rip' = Entry,
             stop' = "exec"
      PROVE  Goal
  <2>1. status = "none" /\ at = Entry
    BY <1>3 DEF TextInv, ChildPhase, status, at, Live
  <2>2. status' = "alive" /\ at' = Entry
    BY <1>3 DEF status, at, Live, Trapped
  <2> QED
    BY <2>1, <2>2 DEF Program!Next, Program!Launch
<1>4. CASE Start \/ RunFromLoad
  BY <1>3, <1>4 DEF Start, Launches, RunFromLoad, Resume
<1>5. CASE Cont \/ Si
  <2>1. status = "alive" /\ at = rip
    BY <1>5 DEF Cont, Si, AtPrompt, status, at, Live, Trapped
  <2>2. child' \in {"stepping", "running"} /\ rip' = rip
    BY <1>5 DEF Cont, Si, Resume
  <2>3. status' = "alive" /\ at' = rip
    BY <2>2 DEF status, at, Live, Trapped
  <2> QED
    BY <2>1, <2>3
<1>6. CASE Disasm
  BY <1>1, <1>6, MapEnd DEF Disasm
<1>7. ASSUME NEW a \in BreakArgs, Break(a) \/ BreakOverflow(a) PROVE Goal
  BY <1>1, <1>7, MapEnd DEF Break, BreakOverflow
<1>8. ASSUME NEW i \in DeleteArgs, Delete(i) \/ DeleteStray(i) PROVE Goal
  BY <1>1, <1>8, MapEnd DEF Delete, DeleteStray
<1>9. ASSUME NEW a \in RipArgs, SetRip(a) PROVE Goal
  <2>1. status = "alive" /\ status' = "alive" /\ at' = a
    BY <1>9 DEF SetRip, AtPrompt, status, at, Live, Trapped
  <2> QED
    BY <2>1 DEF Program!Next, Program!Jump
<1>10. ASSUME ChildEnded PROVE Goal
  <2>1. status = "exited" /\ status' = "none" /\ at' = Entry
    BY <1>10 DEF ChildEnded, status, at, Live
  <2> QED
    BY <2>1 DEF Program!Next, Program!Vanish
<1>11. CASE StepOverDone
  <2>1. CASE End("errquit")
    BY <2>1, MapEnd
  <2>2. CASE ~End("errquit")
    <3>1. status = "alive" /\ at = rip
      BY <1>11, <2>2 DEF StepOverDone, status, at, Live, Trapped, ExecInv
    <3>2. status' = "alive" /\ at' = rip
      BY <1>11, <2>2 DEF StepOverDone, status, at, Live, Trapped
    <3> QED
      BY <3>1, <3>2
  <2> QED
    BY <2>1, <2>2
<1>12. CASE ContDone
  <2>1. CASE End("return") \/ End("errquit") \/ ChildEnded
    BY <1>10, <2>1, MapEnd
  <2>2. CASE ~(End("return") \/ End("errquit") \/ ChildEnded)
    <3>1. status = "alive" /\ at = rip - 1
      BY <1>12, <2>2 DEF ContDone, status, at, Live, Trapped, ExecInv
    <3>2. status' = "alive" /\ at' = rip - 1
      BY <1>12, <2>2 DEF ContDone, BackedUp, status, at, Live, Trapped
    <3> QED
      BY <3>1, <3>2
  <2> QED
    BY <2>1, <2>2
<1>13. CASE SiDone
  <2>1. CASE End("errquit") \/ ChildEnded
    BY <1>10, <2>1, MapEnd
  <2>2. CASE ~(End("errquit") \/ ChildEnded)
    <3>1. status = "alive" /\ at = rip
      BY <1>13, <2>2 DEF SiDone, status, at, Live, Trapped, ExecInv
    <3>2. status' = "alive" /\ at' = rip
      BY <1>13, <2>2 DEF SiDone, status, at, Live, Trapped
    <3> QED
      BY <3>1, <3>2
  <2> QED
    BY <2>1, <2>2
<1>14. CASE Kill
  <2>1. status = "alive" /\ status' = "none" /\ at' = Entry
    BY <1>14 DEF Kill, status, at, Live
  <2> QED
    BY <2>1 DEF Program!Next, Program!Vanish
<1>15. ASSUME Signal PROVE FALSE
  BY <1>15 DEF Signal, Tame
<1>16. ASSUME NEW p \in Programs, Load(p) PROVE Goal
  BY <1>1, <1>16 DEF Load
<1>17. CASE Finished \/ UNCHANGED vars
  BY <1>1, <1>17 DEF Finished
<1>18. ChildStep => Goal
  BY MapChild
<1> QED
  BY <1>2, <1>4, <1>5, <1>6, <1>7, <1>8, <1>9, <1>11, <1>12, <1>13, <1>14, <1>15, <1>16,
     <1>17, <1>18 DEF Next, Command, Wake

\* The debugger is transparent: with breakpoints and jumps on instructions, no
\* int3 in the program and no signals, the debugged child is the program.
THEOREM DebuggerTransparent == ASSUME Tame PROVE Spec => Transparent
<1>1. Init => Program!Init
  BY DEF Init, Program!Init, status, at, Live
<1>2. ProgramInv /\ [Next]_vars => [Program!Next]_<<status, at>>
  BY MapNext
<1> QED
  BY <1>1, <1>2, ProgramInvariant, PTL DEF Spec, Transparent, Program!Spec
=============================================================================
