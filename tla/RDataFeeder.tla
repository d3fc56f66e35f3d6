---------------------------- MODULE RDataFeeder ----------------------------
(***************************************************************************)
(* The accelerator of Final_DataFeeder/.../RDataFeeder.v: a processor      *)
(* writes a length and then the elements of two arrays, and reads their    *)
(* dot product.  One step is one clock edge; op is what the bus carries in *)
(* the cycle before it.                                                    *)
(*                                                                         *)
(* Numbers are abstracted to where they come from: a sum says how often    *)
(* the product of each pair of this round was added, up to twice, and      *)
(* whether anything else was.                                              *)
(***************************************************************************)
EXTENDS Integers, FiniteSets

CONSTANTS
  BUF_LEN,   \* entries of each buffer
  Targets,   \* lengths the processor asks for
  Latency,   \* cycles the floating point unit may take
  Rounds     \* bound: dot products the processor asks for

ASSUME FeederAssumption ==
  /\ BUF_LEN \in Nat \ {0} /\ Rounds \in Nat
  /\ Targets \subseteq 1..BUF_LEN /\ Latency \subseteq Nat

VARIABLES
  A_state, S_state, target_num,
  bufread_addr, bufread_upbound,
  fresh1, fresh2,  \* entries of buffer_1 and buffer_2 written in this round
  tdata, tvalid,   \* s_axis_*: the operands offered to the unit
  fpu,             \* the floating point unit
  answer_store, READY,
  cpu,             \* the processor: what it waits for, and what it has written
  overrun          \* in this round an entry was read at or above the bound

bufferVars == <<bufread_addr, bufread_upbound, fresh1, fresh2>>
unitVars == <<tdata, tvalid, fpu>>
vars == <<A_state, S_state, target_num, bufferVars, unitVars, answer_store, READY,
          cpu, overrun>>

Entries == 0..BUF_LEN - 1
Zero == [times |-> [i \in Entries |-> 0], junk |-> FALSE]
Cap(n) == IF n > 2 THEN 2 ELSE n
\* c + a * b, where a and b come from entry d of the buffers.
MultiplyAdd(c, d, good) ==
  IF good THEN [c EXCEPT !.times[d] = Cap(@ + 1)] ELSE [c EXCEPT !.junk = TRUE]

----------------------------------------------------------------------------
(* The processor, which is external: it asks for a length, writes the      *)
(* pairs in order, each element of the first array before its partner, and *)
(* reads.  It waits for READY after each access, and does so for ever if   *)
(* none comes.                                                             *)

Idle == [kind |-> "none", i |-> 0]
Program ==
  {op \in [kind : {"target"}, i : Targets] : cpu.at = "start" /\ cpu.round < Rounds}
  \cup {op \in [kind : {"a"}, i : Entries] :
          cpu.at = "write" /\ op.i = cpu.a /\ cpu.a < target_num}
  \cup {op \in [kind : {"b"}, i : Entries] :
          cpu.at = "write" /\ op.i = cpu.b /\ cpu.b < cpu.a}
  \cup {op \in [kind : {"read"}, i : {0}] : cpu.at = "write" /\ cpu.b = target_num}

Processor(op) ==
  IF op = Idle
  THEN cpu' = IF READY /\ cpu.wait
              THEN [cpu EXCEPT !.wait = FALSE,
                               !.at = IF cpu.at = "read" THEN "start" ELSE cpu.at]
              ELSE cpu
  ELSE /\ op \in Program /\ ~cpu.wait
       /\ cpu' = CASE op.kind = "target" ->
                        [at |-> "write", wait |-> TRUE, a |-> 0, b |-> 0, round |-> cpu.round + 1]
                   [] op.kind = "a" -> [cpu EXCEPT !.wait = TRUE, !.a = @ + 1]
                   [] op.kind = "b" -> [cpu EXCEPT !.wait = TRUE, !.b = @ + 1]
                   [] op.kind = "read" -> [cpu EXCEPT !.wait = TRUE, !.at = "read"]

\* A write to any of the three areas; only an array's goes to its buffer.
writetoram_ok(op) == op.kind = "target" \/ (op.kind \in {"a", "b"} /\ op.i < BUF_LEN)

\* The floating point unit, external too: it takes the operands when they are
\* valid, and holds its result until it is taken.
result_tvalid == fpu.state = "valid"
Unit == CASE tvalid -> \E n \in Latency :
                fpu' = [state |-> IF n = 0 THEN "valid" ELSE "busy", left |-> n,
                        sum |-> MultiplyAdd(tdata.c, tdata.d, tdata.good)]
          [] fpu.state = "busy" ->
                fpu' = [fpu EXCEPT !.left = @ - 1, !.state = IF fpu.left = 1 THEN "valid" ELSE @]
          [] result_tvalid /\ S_state = "PREP" -> fpu' = [fpu EXCEPT !.state = "idle", !.sum = Zero]
          [] OTHER -> UNCHANGED fpu

----------------------------------------------------------------------------
(* The two state machines.                                                 *)

A_nextstate(op) ==
  CASE A_state = "INIT" /\ op.kind = "target" -> "FILL"
    [] A_state = "FILL" /\ op.kind = "b" /\ op.i = target_num - 1 -> "LOAD"
    [] A_state = "LOAD" /\ op.kind = "read" /\ S_state = "DONE" -> "INIT"
    [] OTHER -> A_state

OffByOne(op) ==  \* mutant: waits for the entry after the last
  CASE S_state = "INIT" -> IF bufread_upbound > 0 THEN "COMP" ELSE "INIT"
    [] S_state = "COMP" -> "WAIT"
    [] S_state = "WAIT" -> IF result_tvalid /\ ~writetoram_ok(op) THEN "PREP" ELSE "WAIT"
    [] S_state = "PREP" -> IF bufread_addr = target_num + 1 THEN "DONE" ELSE "COMP"
    [] S_state = "DONE" -> IF A_state = "INIT" THEN "INIT" ELSE "DONE"
S_next_state(op) ==
  CASE S_state = "INIT" -> IF bufread_upbound > 0 THEN "COMP" ELSE "INIT"
    [] S_state = "COMP" -> "WAIT"
    [] S_state = "WAIT" -> IF result_tvalid /\ ~writetoram_ok(op) THEN "PREP" ELSE "WAIT"
    [] S_state = "PREP" -> IF bufread_addr = target_num - 1 THEN "DONE" ELSE "COMP"
    [] S_state = "DONE" -> IF A_state = "INIT" THEN "INIT" ELSE "DONE"

----------------------------------------------------------------------------
(* The registers.                                                          *)

Target(op) == target_num' = IF op.kind = "target" THEN op.i ELSE target_num

Buffers(op) ==
  /\ fresh1' = CASE op.kind = "target" -> {} [] op.kind = "a" /\ writetoram_ok(op) -> fresh1 \cup {op.i}
                 [] OTHER -> fresh1
  /\ fresh2' = CASE op.kind = "target" -> {} [] op.kind = "b" /\ writetoram_ok(op) -> fresh2 \cup {op.i}
                 [] OTHER -> fresh2
Upbound(op) ==
  bufread_upbound' = CASE A_state = "INIT" -> 0
                       [] A_state = "FILL" /\ op.kind = "b" /\ writetoram_ok(op) -> op.i + 1
                       [] OTHER -> bufread_upbound

Ready(op) == READY' = (op.kind \in {"target", "a", "b"} \/ (op.kind = "read" /\ S_state = "DONE"))

NeverBack == bufread_addr' =  \* mutant: not reset when done
  IF A_state \in {"LOAD", "FILL"} /\ S_state = "PREP" /\ bufread_addr < bufread_upbound
  THEN bufread_addr + 1 ELSE bufread_addr
Address == bufread_addr' =
  IF S_state = "DONE" THEN 0
  ELSE IF A_state \in {"LOAD", "FILL"} /\ S_state = "PREP" /\ bufread_addr < bufread_upbound
  THEN bufread_addr + 1 ELSE bufread_addr

\* The low bits of the address select the entry.
Entry == bufread_addr % BUF_LEN
Operands ==
  /\ tvalid' = (S_state = "COMP" /\ bufread_upbound > 0)
  /\ tdata' = IF S_state = "COMP"
              THEN [d |-> Entry, good |-> Entry \in fresh1 \cap fresh2, c |-> answer_store]
              ELSE tdata
  /\ overrun' = ((overrun /\ S_state # "INIT") \/ (S_state = "COMP" /\ bufread_addr >= bufread_upbound))

KeepsSum == answer_store' =  \* mutant: not cleared between rounds
  IF S_state = "PREP" THEN fpu.sum ELSE answer_store
Answer == answer_store' = CASE S_state = "PREP" -> fpu.sum [] A_state = "INIT" -> Zero
                            [] OTHER -> answer_store

----------------------------------------------------------------------------
Init == /\ A_state = "INIT" /\ S_state = "INIT" /\ target_num = 0
        /\ bufread_addr = 0 /\ bufread_upbound = 0 /\ fresh1 = {} /\ fresh2 = {}
        /\ tdata = [d |-> 0, good |-> FALSE, c |-> Zero] /\ tvalid = FALSE
        /\ fpu = [state |-> "idle", left |-> 0, sum |-> Zero]
        /\ answer_store = Zero /\ READY = FALSE
        /\ cpu = [at |-> "start", wait |-> FALSE, a |-> 0, b |-> 0, round |-> 0]
        /\ overrun = FALSE

Clock(op) ==
  /\ A_state' = A_nextstate(op) /\ S_state' = S_next_state(op)
  /\ Target(op) /\ Buffers(op) /\ Upbound(op) /\ Ready(op) /\ Address /\ Operands /\ Answer
  /\ Processor(op) /\ Unit

Next == \E op \in Program \cup {Idle} : Clock(op)
Spec == Init /\ [][Next]_vars /\ WF_vars(Next)

----------------------------------------------------------------------------
(* Properties.                                                             *)

\* The registers fit: the read address never leaves the entries by more than
\* one, and never passes the length asked for.
TypeOK ==
  /\ A_state \in {"INIT", "FILL", "LOAD"} /\ S_state \in {"INIT", "COMP", "WAIT", "PREP", "DONE"}
  /\ target_num \in Targets \cup {0} /\ bufread_addr \in 0..target_num
  /\ bufread_upbound \in 0..BUF_LEN /\ fresh1 \cup fresh2 \subseteq Entries
  /\ tvalid \in BOOLEAN /\ fpu.state \in {"idle", "busy", "valid"} /\ READY \in BOOLEAN
  /\ tvalid => fpu.state = "idle"

Right == /\ ~answer_store.junk
         /\ \A i \in Entries : answer_store.times[i] = (IF i < target_num THEN 1 ELSE 0)

\* A read that is answered gets the product of each pair exactly once, in the
\* second round as in the first, provided that in this round the machine
\* never read at or above its bound (RDataFeeder.v:173-231).
DotProduct == cpu.at = "read" /\ READY /\ ~overrun => Right

\* Once the last pair is written the machine finishes (RDataFeeder.v:173-190),
\* even if it has spun at the bound.
Computes == (A_state = "LOAD") ~> (S_state = "DONE")
============================================================================
