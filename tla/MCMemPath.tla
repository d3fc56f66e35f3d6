----------------------------- MODULE MCMemPath -----------------------------
(***************************************************************************)
(* Constants of the TLC run of MemPath: what the data cache asks for.      *)
(* Plain accesses are to whole lines, with any type: one of them has LR's. *)
(***************************************************************************)
EXTENDS MemPath

Asked(op, type, line, word) ==
  [op |-> op, type |-> type, id |-> 1, line |-> line, word |-> word,
   data |-> IF op = "read" \/ type = "LR" THEN 0 ELSE 1]
MCAsks ==
  {Asked("read", "LR", "l0", "w0"), Asked("read", "SC", "l1", "w0")} \cup
  {Asked("write", "ADD", l, "w0") : l \in {"l0", "l1"}} \cup
  {Asked("amo", t, "l0", "w0") : t \in Types} \cup
  {Asked("amo", "SC", "l0", "w1")}
=============================================================================
