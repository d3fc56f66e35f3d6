------------------------------- MODULE MCSdb -------------------------------
(***************************************************************************)
(* Constants of the TLC runs of Sdb.  The program is                       *)
(*    1: one byte;  2: two bytes;  4: one byte, loops to 2 or falls to 5;  *)
(*    5: the exit system call                                              *)
(* so that a breakpoint can be on the entry, inside an instruction (3), in *)
(* a loop, next to another one, and on the exit.                           *)
(***************************************************************************)
EXTENDS SdbTransparent

MCByte == {"cc", "ff", "o1", "o2", "o3", "o4", "o5"}
MCOrig == <<"o1", "o2", "o3", "o4", "o5">>
MCStarts == {1, 2, 4, 5}
MCLength == [a \in MCStarts |-> IF a = 2 THEN 2 ELSE 1]
MCSucc == [a \in MCStarts |-> CASE a = 1 -> {2} [] a = 2 -> {4}
                                [] a = 4 -> {2, 5} [] a = 5 -> {}]

\* Indices a user may type for delete.
NegativeToo == -1 .. 1
MCRipRange == -1 .. 6

\* "ok" can be read and executed; fopen finds no "missing", and no "path",
\* which is executed from a directory of PATH.
MCPrograms == {"ok", "missing", "path"}
MCExecutable == {"ok", "path"}
MCSections ==
  [p \in MCPrograms |->
     IF p = "ok" THEN <<[name |-> ".init", sh_addr |-> 0, sh_size |-> 1],
                        [name |-> ".text", sh_addr |-> 1, sh_size |-> 5]>>
     ELSE <<>>]

\* The only loop of the program is 2, 4.
LoopReturns == WaitReturns({{2, 4}})
=============================================================================
