------------------------- MODULE RDataFeederProofs -------------------------
(***************************************************************************)
(* Proofs about RDataFeeder, for every size of the buffers, every set of   *)
(* lengths and latencies and any number of rounds: the registers fit, and  *)
(* a round in which the reader does not overtake the writer ends with each *)
(* product in the sum once.                                                *)
(***************************************************************************)
EXTENDS RDataFeeder, TLAPS

----------------------------------------------------------------------------
(* The inductive invariant.                                                *)

Sum == [times : [Entries -> 0..2], junk : BOOLEAN]
TypeInv ==
  /\ TypeOK /\ answer_store \in Sum /\ tdata \in [d : Entries, good : BOOLEAN, c : Sum]
  /\ fpu \in [state : {"idle", "busy", "valid"}, left : Int, sum : Sum]
  /\ cpu \in [at : {"start", "write", "read"}, wait : BOOLEAN,
              a : 0..BUF_LEN, b : 0..BUF_LEN, round : Nat]

\* Where the processor is when A_state is what it is, and what it has written.
Filling ==
  /\ READY => cpu.wait
  /\ cpu.at = "start" => A_state = "INIT" /\ S_state = "INIT"
  /\ cpu.at = "write" => A_state \in {"FILL", "LOAD"}
  /\ cpu.at = "read" => \/ A_state = "LOAD" /\ ~READY
                        \/ A_state = "INIT" /\ S_state = "DONE" /\ READY
  /\ A_state = "FILL" => cpu.at = "write" /\ cpu.b < target_num
  /\ A_state = "LOAD" => cpu.b = target_num
  /\ A_state # "INIT" =>
       /\ bufread_upbound = cpu.b /\ cpu.b <= cpu.a /\ cpu.a <= target_num
       /\ fresh1 = 0..cpu.a - 1 /\ fresh2 = 0..cpu.b - 1

\* Which step of the sum the unit is at when S_state is what it is; it reads
\* no more than one entry past what was written.
Summing ==
  /\ S_state = "INIT" => bufread_addr = 0 /\ answer_store = Zero
  /\ S_state = "INIT" /\ A_state = "INIT" => bufread_upbound = 0 /\ cpu.at = "start"
  /\ S_state \in {"COMP", "WAIT", "PREP"} => A_state # "INIT" /\ bufread_upbound > 0
  /\ A_state # "INIT" => bufread_addr <= bufread_upbound
  /\ S_state # "WAIT" => ~tvalid
  /\ S_state \in {"INIT", "COMP", "DONE"} => fpu.state = "idle"
  /\ S_state = "PREP" => fpu.state = "valid"
  /\ S_state = "WAIT" => (tvalid <=> fpu.state = "idle")

\* The first k products are in the sum, once, and nothing else is.
Summed(s, k) == ~s.junk /\ \A i \in Entries : s.times[i] = IF i < k THEN 1 ELSE 0
\* As long as nothing was read too early.
SumInv == ~overrun =>
  /\ S_state = "COMP" => Summed(answer_store, bufread_addr)
  /\ S_state \in {"WAIT", "PREP"} => bufread_addr < bufread_upbound
  /\ S_state = "WAIT" /\ tvalid =>
       tdata.good /\ tdata.d = bufread_addr /\ Summed(tdata.c, bufread_addr)
  /\ S_state \in {"WAIT", "PREP"} /\ ~tvalid => Summed(fpu.sum, bufread_addr + 1)
  /\ S_state = "DONE" => Summed(answer_store, target_num)

IInv == TypeInv /\ Filling /\ Summing

----------------------------------------------------------------------------
(* The processor's accesses.                                               *)

\* What the bus may carry, and what it does to the processor.
LEMMA Accesses ==
  ASSUME TypeInv, NEW op \in Program \cup {Idle}, Processor(op)
  PROVE  \/ /\ op.kind = "none"
            /\ cpu' = IF READY /\ cpu.wait
                      THEN [cpu EXCEPT !.wait = FALSE,
                                       !.at = IF cpu.at = "read" THEN "start" ELSE cpu.at]
                      ELSE cpu
         \/ /\ op.kind = "target" /\ op.i \in Targets /\ ~cpu.wait /\ cpu.at = "start"
            /\ cpu' = [at |-> "write", wait |-> TRUE, a |-> 0, b |-> 0, round |-> cpu.round + 1]
         \/ /\ op.kind = "a" /\ op.i = cpu.a /\ cpu.a < target_num /\ ~cpu.wait /\ cpu.at = "write"
            /\ cpu' = [cpu EXCEPT !.wait = TRUE, !.a = cpu.a + 1]
         \/ /\ op.kind = "b" /\ op.i = cpu.b /\ cpu.b < cpu.a /\ ~cpu.wait /\ cpu.at = "write"
            /\ cpu' = [cpu EXCEPT !.wait = TRUE, !.b = cpu.b + 1]
         \/ /\ op.kind = "read" /\ cpu.b = target_num /\ ~cpu.wait /\ cpu.at = "write"
            /\ cpu' = [cpu EXCEPT !.wait = TRUE, !.at = "read"]
<1>1. CASE op = Idle
  BY <1>1 DEF Processor, Idle
<1>2. CASE op \in Program
  <2>1. op.kind \in {"target", "a", "b", "read"}
    BY <1>2 DEF Program
  <2>2. op # Idle
    BY <2>1 DEF Idle
  <2>3. CASE op.kind = "target"
    BY <1>2, <2>2, <2>3 DEF Program, Processor
  <2>4. CASE op.kind = "a"
    BY <1>2, <2>2, <2>4 DEF Program, Processor
  <2>5. CASE op.kind = "b"
    BY <1>2, <2>2, <2>5 DEF Program, Processor
  <2>6. CASE op.kind = "read"
    BY <1>2, <2>2, <2>6 DEF Program, Processor
  <2> QED
    BY <2>1, <2>3, <2>4, <2>5, <2>6
<1> QED
  BY <1>1, <1>2

\* Both elements of a pair go to their buffers.
LEMMA Writes ==
  ASSUME IInv, NEW op \in Program \cup {Idle}, Processor(op)
  PROVE  writetoram_ok(op) <=> op.kind \in {"target", "a", "b"}
<1>1. cpu.at = "write" => cpu.b <= cpu.a /\ cpu.a <= target_num
  BY DEF IInv, Filling
<1>2. target_num <= BUF_LEN /\ target_num \in Nat /\ BUF_LEN \in Nat
  BY FeederAssumption DEF IInv, TypeInv, TypeOK
<1>3. cpu.a \in Nat /\ cpu.b \in Nat
  BY FeederAssumption DEF IInv, TypeInv
<1> QED
  BY <1>1, <1>2, <1>3, Accesses DEF IInv, writetoram_ok

----------------------------------------------------------------------------
(* The steps.                                                              *)

LEMMA FillNext ==
  ASSUME IInv, NEW op \in Program \cup {Idle}, Clock(op)
  PROVE  Filling'
<1>1. Processor(op) /\ Target(op) /\ Buffers(op) /\ Upbound(op) /\ Ready(op)
      /\ A_state' = A_nextstate(op) /\ S_state' = S_next_state(op)
  BY DEF Clock
<1>2. writetoram_ok(op) <=> op.kind \in {"target", "a", "b"}
  BY <1>1, Writes
<1>3. /\ target_num \in Targets \cup {0} /\ target_num \in 0..BUF_LEN /\ BUF_LEN \in Nat \ {0}
      /\ cpu.a \in 0..BUF_LEN /\ cpu.b \in 0..BUF_LEN
      /\ A_state \in {"INIT", "FILL", "LOAD"} /\ S_state \in {"INIT", "COMP", "WAIT", "PREP", "DONE"}
      /\ cpu \in [at : {"start", "write", "read"}, wait : BOOLEAN,
                  a : 0..BUF_LEN, b : 0..BUF_LEN, round : Nat]
  BY FeederAssumption DEF IInv, TypeInv, TypeOK
<1>4. Filling /\ Summing
  BY DEF IInv
<1>5. CASE op.kind = "none"
  <2>1. /\ cpu' = IF READY /\ cpu.wait
                  THEN [cpu EXCEPT !.wait = FALSE,
                                   !.at = IF cpu.at = "read" THEN "start" ELSE cpu.at]
                  ELSE cpu
        /\ ~READY' /\ A_state' = A_state
        /\ UNCHANGED <<target_num, fresh1, fresh2>>
        /\ A_state # "INIT" => bufread_upbound' = bufread_upbound
    BY <1>1, <1>5, Accesses DEF IInv, Target, Buffers, Upbound, Ready, A_nextstate
  <2>2. S_state = "DONE" /\ A_state = "INIT" => S_state' = "INIT"
    BY <1>1 DEF S_next_state
  <2>3. cpu'.a = cpu.a /\ cpu'.b = cpu.b
        /\ cpu'.at = IF READY /\ cpu.at = "read" THEN "start" ELSE cpu.at
    BY <1>3, <1>4, <2>1 DEF Filling
  <2>4. cpu.at = "start" => S_state' = "INIT"
    BY <1>1, <1>4, <2>1 DEF Filling, Summing, S_next_state
  <2> QED
    BY <1>3, <1>4, <2>1, <2>2, <2>3, <2>4 DEF Filling
<1>6. CASE op.kind = "target"
  <2>1. /\ op.i \in Targets /\ cpu.at = "start" /\ A_state = "INIT"
        /\ cpu'.at = "write" /\ cpu'.wait /\ cpu'.a = 0 /\ cpu'.b = 0
    BY <1>1, <1>4, <1>6, Accesses DEF IInv, Filling
  <2>2. /\ A_state' = "FILL" /\ bufread_upbound' = 0 /\ fresh1' = {} /\ fresh2' = {}
        /\ target_num' = op.i
    BY <1>1, <1>6, <2>1 DEF A_nextstate, Upbound, Buffers, Target
  <2>3. fresh1' = 0..cpu'.a - 1 /\ fresh2' = 0..cpu'.b - 1
    BY <2>1, <2>2
  <2>4. op.i \in 1..BUF_LEN /\ BUF_LEN \in Nat
    BY <2>1, FeederAssumption
  <2> QED
    BY <1>3, <1>4, <2>1, <2>2, <2>3, <2>4 DEF Filling
<1>7. CASE op.kind = "a"
  <2>1. /\ op.i = cpu.a /\ cpu.a < target_num /\ cpu.at = "write"
        /\ cpu' = [cpu EXCEPT !.wait = TRUE, !.a = cpu.a + 1]
        /\ UNCHANGED <<A_state, target_num, fresh2, bufread_upbound>>
        /\ fresh1' = fresh1 \cup {op.i} /\ A_state # "INIT"
    BY <1>1, <1>2, <1>4, <1>7, Accesses
       DEF IInv, Filling, Target, Buffers, Upbound, A_nextstate
  <2>2. cpu'.wait /\ cpu'.at = "write" /\ cpu'.a = cpu.a + 1 /\ cpu'.b = cpu.b
    BY <1>3, <2>1
  <2>3. fresh1' = 0..cpu'.a - 1
    BY <1>3, <1>4, <2>1, <2>2 DEF Filling
  <2> QED
    BY <1>3, <1>4, <2>1, <2>2, <2>3 DEF Filling
<1>8. CASE op.kind = "b"
  <2>1. /\ op.i = cpu.b /\ cpu.b < cpu.a /\ cpu.at = "write"
        /\ cpu' = [cpu EXCEPT !.wait = TRUE, !.b = cpu.b + 1]
        /\ UNCHANGED <<target_num, fresh1>>
        /\ fresh2' = fresh2 \cup {op.i} /\ A_state = "FILL"
        /\ A_state' = IF cpu.b = target_num - 1 THEN "LOAD" ELSE "FILL"
        /\ bufread_upbound' = cpu.b + 1
    <3>1. /\ op.i = cpu.b /\ cpu.b < cpu.a /\ cpu.at = "write"
          /\ cpu' = [cpu EXCEPT !.wait = TRUE, !.b = cpu.b + 1]
      BY <1>1, <1>8, Accesses DEF IInv
    <3>2. A_state = "FILL"
      BY <1>3, <1>4, <3>1 DEF Filling
    <3> QED
      BY <1>1, <1>2, <1>8, <3>1, <3>2 DEF Target, Buffers, Upbound, A_nextstate
  <2>2. cpu'.wait /\ cpu'.at = "write" /\ cpu'.a = cpu.a /\ cpu'.b = cpu.b + 1
    BY <1>3, <2>1
  <2>3. fresh2' = 0..cpu'.b - 1
    BY <1>3, <1>4, <2>1, <2>2 DEF Filling
  <2> QED
    BY <1>3, <1>4, <2>1, <2>2, <2>3 DEF Filling
<1>9. CASE op.kind = "read"
  <2>1. /\ cpu.b = target_num /\ cpu.at = "write" /\ cpu' = [cpu EXCEPT !.wait = TRUE, !.at = "read"]
        /\ UNCHANGED <<target_num, fresh1, fresh2>>
        /\ A_state = "LOAD" /\ bufread_upbound' = bufread_upbound
        /\ A_state' = IF S_state = "DONE" THEN "INIT" ELSE "LOAD"
        /\ READY' <=> S_state = "DONE"
    <3>1. cpu.b = target_num /\ cpu.at = "write" /\ cpu' = [cpu EXCEPT !.wait = TRUE, !.at = "read"]
      BY <1>1, <1>9, Accesses DEF IInv
    <3>2. A_state = "LOAD"
      BY <1>3, <1>4, <3>1 DEF Filling
    <3>3. READY' <=> S_state = "DONE"
      BY <1>1, <1>9 DEF Ready
    <3> QED
      BY <1>1, <1>9, <3>1, <3>2, <3>3 DEF Target, Buffers, Upbound, A_nextstate
  <2>2. S_state = "DONE" => S_state' = "DONE"
    BY <1>1, <2>1 DEF S_next_state
  <2>3. cpu'.wait /\ cpu'.at = "read" /\ cpu'.a = cpu.a /\ cpu'.b = cpu.b
    BY <1>3, <2>1
  <2> QED
    BY <1>3, <1>4, <2>1, <2>2, <2>3 DEF Filling
<1> QED
  BY <1>1, <1>5, <1>6, <1>7, <1>8, <1>9, Accesses DEF IInv

\* A round's entries only grow in number, until its sum has been read; then
\* the processor is told and can begin the next.
LEMMA RoundStep ==
  ASSUME IInv, NEW op \in Program \cup {Idle}, Clock(op)
  PROVE  /\ A_state = "INIT" => bufread_upbound' = 0
         /\ A_state = "INIT" /\ A_state' = "INIT" => cpu'.at = "start" /\ target_num' = target_num
         /\ A_state = "INIT" /\ S_state = "DONE" => A_state' = "INIT"
         /\ A_state # "INIT" => /\ bufread_upbound <= bufread_upbound' /\ target_num' = target_num
                                /\ fresh1 \subseteq fresh1' /\ fresh2 \subseteq fresh2'
                                /\ S_state # "DONE" => A_state' # "INIT"
<1>1. Processor(op) /\ Target(op) /\ Buffers(op) /\ Upbound(op) /\ A_state' = A_nextstate(op)
  BY DEF Clock
<1>2. writetoram_ok(op) <=> op.kind \in {"target", "a", "b"}
  BY <1>1, Writes
<1>3. /\ cpu.a \in Nat /\ cpu.b \in Nat /\ bufread_upbound \in Nat
      /\ A_state \in {"INIT", "FILL", "LOAD"} /\ cpu.at \in {"start", "write", "read"}
      /\ cpu \in [at : {"start", "write", "read"}, wait : BOOLEAN,
                  a : 0..BUF_LEN, b : 0..BUF_LEN, round : Nat]
  BY FeederAssumption DEF IInv, TypeInv, TypeOK
<1>4. Filling /\ Summing
  BY DEF IInv
<1>5. CASE A_state = "INIT"
  <2>1. bufread_upbound' = 0
    BY <1>1, <1>5 DEF Upbound
  <2>2. cpu.at = "start" \/ (cpu.at = "read" /\ READY /\ cpu.wait)
    BY <1>3, <1>4, <1>5 DEF Filling
  <2>3. op.kind = "none" \/ (op.kind = "target" /\ cpu.at = "start")
    BY <1>1, <2>2, Accesses DEF IInv
  <2>4. op.kind = "none" => cpu'.at = "start" /\ target_num' = target_num /\ A_state' = A_state
    BY <1>1, <1>3, <2>2, Accesses DEF IInv, Target, A_nextstate
  <2>5. op.kind = "target" => A_state' = "FILL" /\ S_state = "INIT"
    BY <1>1, <1>4, <1>5, <2>3 DEF Filling, A_nextstate
  <2> QED
    BY <1>5, <2>1, <2>3, <2>4, <2>5
<1>6. CASE A_state # "INIT"
  <2>1. cpu.at # "start"
    BY <1>4, <1>6 DEF Filling
  <2>2. op.kind # "target"
    BY <1>1, <2>1, Accesses DEF IInv
  <2>3. target_num' = target_num /\ fresh1 \subseteq fresh1' /\ fresh2 \subseteq fresh2'
    BY <1>1, <1>2, <2>2 DEF Target, Buffers
  <2>4. bufread_upbound <= bufread_upbound'
    <3>1. op.kind = "b" => op.i = cpu.b
      BY <1>1, Accesses DEF IInv
    <3>2. bufread_upbound = cpu.b
      BY <1>4, <1>6 DEF Filling
    <3>3. bufread_upbound' \in {bufread_upbound, op.i + 1}
          /\ (op.kind # "b" => bufread_upbound' = bufread_upbound)
      BY <1>1, <1>6 DEF Upbound
    <3> QED
      BY <1>3, <3>1, <3>2, <3>3
  <2>5. S_state # "DONE" => A_state' # "INIT"
    BY <1>1, <1>6 DEF A_nextstate
  <2> QED
    BY <1>6, <2>3, <2>4, <2>5
<1> QED
  BY <1>5, <1>6

\* The unit takes the operands that are valid, and gives its result up in PREP.
LEMMA UnitStep ==
  ASSUME IInv, NEW op \in Program \cup {Idle}, Clock(op)
  PROVE  /\ S_state \in {"INIT", "COMP", "DONE"} => fpu' = fpu
         /\ S_state = "PREP" => fpu'.state = "idle"
         /\ S_state = "WAIT" /\ tvalid => /\ fpu'.state \in {"valid", "busy"} /\ S_state' = "WAIT"
                                          /\ fpu'.sum = MultiplyAdd(tdata.c, tdata.d, tdata.good)
         /\ S_state = "WAIT" /\ ~tvalid =>
              /\ fpu'.state \in {"valid", "busy"} /\ fpu'.sum = fpu.sum
              /\ S_state' = "PREP" => fpu'.state = "valid"
         /\ tvalid' <=> S_state = "COMP"
<1>1. Unit /\ S_state' = S_next_state(op) /\ Operands
  BY DEF Clock
<1>2. fpu \in [state : {"idle", "busy", "valid"}, left : Int, sum : Sum] /\ Summing
  BY DEF IInv, TypeInv
<1>3. tvalid' <=> S_state = "COMP"
  BY <1>1, <1>2 DEF Operands, Summing
<1>4. CASE S_state \in {"INIT", "COMP", "DONE"}
  <2>1. ~tvalid /\ fpu.state = "idle"
    BY <1>2, <1>4 DEF Summing
  <2> QED
    BY <1>1, <1>3, <1>4, <2>1 DEF Unit, result_tvalid
<1>5. CASE S_state = "PREP"
  <2>1. ~tvalid /\ fpu.state = "valid"
    BY <1>2, <1>5 DEF Summing
  <2>2. fpu' = [fpu EXCEPT !.state = "idle", !.sum = Zero]
    BY <1>1, <1>5, <2>1 DEF Unit, result_tvalid
  <2>3. fpu'.state = "idle"
    BY <1>2, <2>2
  <2> QED
    BY <1>3, <1>5, <2>3
<1>6. CASE S_state = "WAIT" /\ tvalid
  <2>1. PICK n \in Latency :
          fpu' = [state |-> IF n = 0 THEN "valid" ELSE "busy", left |-> n,
                  sum |-> MultiplyAdd(tdata.c, tdata.d, tdata.good)]
    BY <1>1, <1>2, <1>6 DEF Unit, Summing, result_tvalid
  <2>2. fpu'.state \in {"valid", "busy"} /\ fpu'.sum = MultiplyAdd(tdata.c, tdata.d, tdata.good)
    BY <2>1
  <2>3. S_state' = "WAIT"
    BY <1>1, <1>2, <1>6 DEF S_next_state, Summing, result_tvalid
  <2> QED
    BY <1>3, <1>6, <2>2, <2>3
<1>7. CASE S_state = "WAIT" /\ ~tvalid
  <2>1. fpu.state \in {"valid", "busy"}
    BY <1>2, <1>7 DEF Summing
  <2>2. CASE fpu.state = "busy"
    <3>1. fpu' = [fpu EXCEPT !.left = fpu.left - 1,
                             !.state = IF fpu.left = 1 THEN "valid" ELSE fpu.state]
      BY <1>1, <1>7, <2>2 DEF Unit
    <3>2. fpu'.state \in {"valid", "busy"} /\ fpu'.sum = fpu.sum
      BY <1>2, <2>2, <3>1
    <3>3. S_state' = "WAIT"
      BY <1>1, <1>7, <2>2 DEF S_next_state, result_tvalid
    <3> QED
      BY <1>3, <1>7, <3>2, <3>3
  <2>3. CASE fpu.state = "valid"
    <3>1. fpu' = fpu
      BY <1>1, <1>7, <2>3 DEF Unit, result_tvalid
    <3> QED
      BY <1>3, <1>7, <2>3, <3>1
  <2> QED
    BY <2>1, <2>2, <2>3
<1> QED
  BY <1>3, <1>4, <1>5, <1>6, <1>7 DEF IInv, TypeInv, TypeOK

LEMMA SumNext ==
  ASSUME IInv, NEW op \in Program \cup {Idle}, Clock(op)
  PROVE  Summing'
<1>1. /\ A_state' = A_nextstate(op) /\ S_state' = S_next_state(op) /\ Address /\ Answer
      /\ Operands
  BY DEF Clock
<1>2. /\ bufread_addr \in Nat /\ bufread_upbound \in Nat /\ target_num \in Nat
      /\ S_state \in {"INIT", "COMP", "WAIT", "PREP", "DONE"}
      /\ A_state \in {"INIT", "FILL", "LOAD"}
  BY FeederAssumption DEF IInv, TypeInv, TypeOK
<1>3. Filling /\ Summing /\ Filling'
  BY FillNext DEF IInv
<1>4. bufread_upbound' \in Nat
  <2>1. op.kind = "b" => op.i \in Nat
    BY Accesses, FeederAssumption DEF Clock, IInv, TypeInv
  <2>2. \/ bufread_upbound' = 0
        \/ bufread_upbound' = bufread_upbound
        \/ /\ op.kind = "b"
           /\ bufread_upbound' = op.i + 1
    BY DEF Clock, Upbound
  <2> QED
    BY <1>2, <2>1, <2>2
<1>5. CASE S_state = "INIT"
  <2>1. bufread_addr' = 0 /\ answer_store' = Zero /\ S_state' \in {"INIT", "COMP"}
        /\ (S_state' = "COMP" => bufread_upbound > 0)
    BY <1>1, <1>3, <1>5 DEF Summing, Address, Answer, S_next_state
  <2>2. fpu'.state = "idle" /\ ~tvalid'
    BY <1>3, <1>5, UnitStep DEF Summing
  <2>3. A_state' = "INIT" => A_state = "INIT"
    BY <1>5, RoundStep
  <2>4. S_state' = "COMP" => A_state # "INIT"
    BY <1>3, <1>5, <2>1 DEF Summing
  <2> QED
    BY <1>2, <1>4, <1>5, <2>1, <2>2, <2>3, <2>4, RoundStep DEF Summing
<1>6. CASE S_state \in {"COMP", "WAIT"}
  <2>1. /\ bufread_addr' = bufread_addr /\ S_state' \in {"WAIT", "PREP"}
        /\ (S_state = "COMP" => S_state' = "WAIT")
    BY <1>1, <1>6 DEF Address, S_next_state
  <2>2. A_state' # "INIT" /\ bufread_upbound' > 0 /\ bufread_addr' <= bufread_upbound'
    BY <1>2, <1>3, <1>4, <1>6, <2>1, RoundStep DEF Summing
  <2>3. /\ S_state' = "WAIT" => (tvalid' <=> fpu'.state = "idle")
        /\ S_state' = "PREP" => ~tvalid' /\ fpu'.state = "valid"
    BY <1>3, <1>6, <2>1, UnitStep DEF Summing
  <2> QED
    BY <2>1, <2>2, <2>3 DEF Summing
<1>7. CASE S_state = "PREP"
  <2>1. /\ bufread_addr' = IF bufread_addr < bufread_upbound THEN bufread_addr + 1
                           ELSE bufread_addr
        /\ S_state' \in {"COMP", "DONE"}
    BY <1>1, <1>2, <1>3, <1>7 DEF Address, S_next_state, Summing
  <2>2. A_state' # "INIT" /\ bufread_upbound' > 0 /\ bufread_addr' <= bufread_upbound'
    BY <1>2, <1>3, <1>4, <1>7, <2>1, RoundStep DEF Summing
  <2>3. ~tvalid' /\ fpu'.state = "idle"
    BY <1>7, UnitStep
  <2> QED
    BY <2>1, <2>2, <2>3 DEF Summing
<1>8. CASE S_state = "DONE"
  <2>1. /\ bufread_addr' = 0
        /\ S_state' = IF A_state = "INIT" THEN "INIT" ELSE "DONE"
        /\ A_state = "INIT" => answer_store' = Zero
    BY <1>1, <1>8 DEF Address, S_next_state, Answer
  <2>2. fpu'.state = "idle" /\ ~tvalid'
    BY <1>3, <1>8, UnitStep DEF Summing
  <2> QED
    BY <1>4, <1>8, <2>1, <2>2, RoundStep DEF Summing
<1> QED
  BY <1>2, <1>5, <1>6, <1>7, <1>8

\* One more product in its place in the sum.
LEMMA AddNext ==
  ASSUME NEW s \in Sum, NEW k \in Entries, Summed(s, k)
  PROVE  Summed(MultiplyAdd(s, k, TRUE), k + 1)
<1>1. s.times \in [Entries -> 0..2] /\ ~s.junk /\ k \in Int
  BY FeederAssumption DEF Sum, Summed, Entries
<1>2. MultiplyAdd(s, k, TRUE) = [s EXCEPT !.times[k] = Cap(s.times[k] + 1)]
  BY DEF MultiplyAdd
<1>3. /\ MultiplyAdd(s, k, TRUE).junk = s.junk
      /\ MultiplyAdd(s, k, TRUE).times = [s.times EXCEPT ![k] = Cap(s.times[k] + 1)]
  BY <1>2 DEF Sum
<1>4. s.times[k] = 0 /\ Cap(s.times[k] + 1) = 1
  BY <1>1 DEF Summed, Cap
<1>5. ASSUME NEW i \in Entries
      PROVE  MultiplyAdd(s, k, TRUE).times[i] = IF i < k + 1 THEN 1 ELSE 0
  <2>1. i \in Int /\ s.times[i] = IF i < k THEN 1 ELSE 0
    BY FeederAssumption DEF Summed, Entries
  <2>2. MultiplyAdd(s, k, TRUE).times[i] = IF i = k THEN 1 ELSE s.times[i]
    BY <1>1, <1>3, <1>4
  <2>3. k \in Int
    BY <1>1
  <2>4. CASE i = k
    <3>1. i < k + 1
      BY <2>3, <2>4
    <3> QED
      BY <2>2, <2>4, <3>1
  <2>5. CASE i # k
    <3>1. i < k + 1 <=> i < k
      BY <2>1, <2>3, <2>5
    <3> QED
      BY <2>1, <2>2, <2>5, <3>1
  <2> QED
    BY <2>4, <2>5
<1> QED
  BY <1>1, <1>3, <1>5 DEF Summed

\* What is added stays a sum.
LEMMA AddType ==
  ASSUME NEW s \in Sum, NEW d \in Entries, NEW good \in BOOLEAN
  PROVE  MultiplyAdd(s, d, good) \in Sum
<1>1. CASE good
  <2>1. s.times[d] \in 0..2 /\ Cap(s.times[d] + 1) \in 0..2
    BY DEF Sum, Cap
  <2>2. MultiplyAdd(s, d, good) = [s EXCEPT !.times = [s.times EXCEPT ![d] = Cap(s.times[d] + 1)]]
    BY <1>1 DEF MultiplyAdd
  <2> QED
    BY <2>1, <2>2 DEF Sum
<1>2. CASE ~good
  BY <1>2 DEF MultiplyAdd, Sum
<1> QED
  BY <1>1, <1>2

LEMMA ZeroType == Zero \in Sum /\ Summed(Zero, 0)
BY FeederAssumption DEF Zero, Sum, Summed, Entries

LEMMA TypeNext ==
  ASSUME IInv, NEW op \in Program \cup {Idle}, Clock(op)
  PROVE  TypeInv'
<1>1. /\ A_state' = A_nextstate(op) /\ S_state' = S_next_state(op) /\ Target(op)
      /\ Upbound(op) /\ Buffers(op) /\ Ready(op)
      /\ Address /\ Operands /\ Answer /\ Processor(op) /\ Unit
  BY DEF Clock
<1>2. Filling /\ Summing /\ Filling' /\ Summing' /\ TypeInv
  BY FillNext, SumNext DEF IInv
<1>3. /\ target_num \in Nat /\ BUF_LEN \in Nat \ {0} /\ bufread_addr \in Nat
      /\ cpu \in [at : {"start", "write", "read"}, wait : BOOLEAN,
                  a : 0..BUF_LEN, b : 0..BUF_LEN, round : Nat]
      /\ A_state \in {"INIT", "FILL", "LOAD"} /\ S_state \in {"INIT", "COMP", "WAIT", "PREP", "DONE"}
      /\ fpu \in [state : {"idle", "busy", "valid"}, left : Int, sum : Sum]
  BY <1>2, FeederAssumption DEF TypeInv, TypeOK
<1>4. A_state' \in {"INIT", "FILL", "LOAD"} /\ S_state' \in {"INIT", "COMP", "WAIT", "PREP", "DONE"}
  BY <1>1, <1>3 DEF A_nextstate, S_next_state
<1>5. target_num' \in Targets \cup {0} /\ READY' \in BOOLEAN
  <2>1. op.kind = "target" => op.i \in Targets
    BY <1>1, <1>2, Accesses
  <2> QED
    BY <1>1, <1>2, <2>1 DEF Target, Ready, TypeInv, TypeOK
<1>6. cpu' \in [at : {"start", "write", "read"}, wait : BOOLEAN,
                a : 0..BUF_LEN, b : 0..BUF_LEN, round : Nat]
  <2>1. cpu.at = "write" => cpu.a <= target_num /\ cpu.b <= cpu.a /\ target_num <= BUF_LEN
    BY <1>2, FeederAssumption DEF Filling, TypeInv, TypeOK
  <2>2. cpu.at = "write" /\ cpu.a < target_num => cpu.a + 1 \in 0..BUF_LEN
    BY <1>3, <2>1
  <2>3. cpu.at = "write" /\ cpu.b < cpu.a => cpu.b + 1 \in 0..BUF_LEN
    BY <1>3, <2>1
  <2>4. cpu.round + 1 \in Nat /\ 0 \in 0..BUF_LEN
    BY <1>3
  <2>5. CASE op.kind = "none"
    <3>1. cpu' = IF READY /\ cpu.wait
                 THEN [cpu EXCEPT !.wait = FALSE,
                                  !.at = IF cpu.at = "read" THEN "start" ELSE cpu.at]
                 ELSE cpu
      BY <1>1, <1>2, <2>5, Accesses
    <3> QED
      BY <1>3, <3>1
  <2>6. CASE op.kind = "target"
    <3>1. cpu' = [at |-> "write", wait |-> TRUE, a |-> 0, b |-> 0, round |-> cpu.round + 1]
      BY <1>1, <1>2, <2>6, Accesses
    <3> QED
      BY <2>4, <3>1
  <2>7. CASE op.kind = "a"
    <3>1. cpu' = [cpu EXCEPT !.wait = TRUE, !.a = cpu.a + 1] /\ cpu.a + 1 \in 0..BUF_LEN
      BY <1>1, <1>2, <2>2, <2>7, Accesses
    <3> QED
      BY <1>3, <3>1
  <2>8. CASE op.kind = "b"
    <3>1. cpu' = [cpu EXCEPT !.wait = TRUE, !.b = cpu.b + 1] /\ cpu.b + 1 \in 0..BUF_LEN
      BY <1>1, <1>2, <2>3, <2>8, Accesses
    <3> QED
      BY <1>3, <3>1
  <2>9. CASE op.kind = "read"
    <3>1. cpu' = [cpu EXCEPT !.wait = TRUE, !.at = "read"]
      BY <1>1, <1>2, <2>9, Accesses
    <3> QED
      BY <1>3, <3>1
  <2> QED
    BY <1>1, <1>2, <2>5, <2>6, <2>7, <2>8, <2>9, Accesses
<1>7. bufread_upbound' \in 0..BUF_LEN /\ bufread_addr' \in 0..target_num'
      /\ fresh1' \cup fresh2' \subseteq Entries
  <2>1. target_num' \in 0..BUF_LEN
    BY <1>3, <1>5, FeederAssumption
  <2>2. cpu'.a \in 0..BUF_LEN /\ cpu'.b \in 0..BUF_LEN
    BY <1>6
  <2>3. bufread_addr' \in Nat
    BY <1>1, <1>3 DEF Address
  <2>4. CASE A_state' # "INIT"
    <3>1. /\ bufread_upbound' = cpu'.b /\ cpu'.b <= cpu'.a /\ cpu'.a <= target_num'
          /\ fresh1' = 0..cpu'.a - 1 /\ fresh2' = 0..cpu'.b - 1
      BY <1>2, <2>4 DEF Filling
    <3>2. bufread_addr' <= bufread_upbound'
      BY <1>2, <2>4 DEF Summing
    <3>3. fresh1' \cup fresh2' \subseteq Entries
      BY <1>3, <2>2, <3>1 DEF Entries
    <3> QED
      BY <1>3, <2>1, <2>2, <2>3, <3>1, <3>2, <3>3
  <2>5. CASE A_state' = "INIT" /\ A_state # "INIT"
    <3>1. op.kind = "read" /\ S_state = "DONE"
      BY <1>1, <2>5 DEF A_nextstate
    <3>2. bufread_addr' = 0 /\ bufread_upbound' = bufread_upbound
          /\ fresh1' = fresh1 /\ fresh2' = fresh2
      BY <1>1, <2>5, <3>1 DEF Address, Upbound, Buffers
    <3> QED
      BY <1>2, <2>1, <3>2 DEF TypeInv, TypeOK
  <2>6. CASE A_state' = "INIT" /\ A_state = "INIT"
    <3>1. op.kind \in {"none", "read"}
      <4>1. cpu.at # "write"
        BY <1>2, <2>6 DEF Filling
      <4>2. op.kind # "target"
        BY <1>1, <2>6 DEF A_nextstate
      <4> QED
        BY <1>1, <1>2, <4>1, <4>2, Accesses
    <3>2. bufread_upbound' = 0 /\ fresh1' = fresh1 /\ fresh2' = fresh2
      BY <1>1, <2>6, <3>1 DEF Upbound, Buffers
    <3>3. S_state \in {"INIT", "DONE"}
      BY <1>2, <1>3, <2>6 DEF Summing
    <3>4. bufread_addr' = 0
      BY <1>1, <1>2, <3>3 DEF Address, Summing
    <3> QED
      BY <1>2, <1>3, <2>1, <3>2, <3>4 DEF TypeInv, TypeOK
  <2> QED
    BY <2>4, <2>5, <2>6
<1>8. answer_store' \in Sum
  BY <1>1, <1>2, <1>3, ZeroType DEF Answer, TypeInv
<1>9. tdata' \in [d : Entries, good : BOOLEAN, c : Sum]
  <2>1. Entry \in Entries
    BY <1>3 DEF Entry, Entries
  <2> QED
    BY <1>1, <1>2, <2>1 DEF Operands, TypeInv
<1>10. fpu' \in [state : {"idle", "busy", "valid"}, left : Int, sum : Sum]
  <2>1. MultiplyAdd(tdata.c, tdata.d, tdata.good) \in Sum
    BY <1>2, AddType DEF TypeInv
  <2>2. CASE tvalid
    <3>1. PICK n \in Latency :
            fpu' = [state |-> IF n = 0 THEN "valid" ELSE "busy", left |-> n,
                    sum |-> MultiplyAdd(tdata.c, tdata.d, tdata.good)]
      <4>1. S_state = "WAIT" /\ fpu.state = "idle"
        BY <1>2, <2>2 DEF Summing
      <4> QED
        BY <1>1, <2>2, <4>1 DEF Unit, result_tvalid
    <3>2. n \in Int
      BY FeederAssumption
    <3> QED
      BY <2>1, <3>1, <3>2
  <2>3. CASE ~tvalid /\ fpu.state = "busy"
    <3>1. fpu' = [fpu EXCEPT !.left = fpu.left - 1,
                             !.state = IF fpu.left = 1 THEN "valid" ELSE fpu.state]
      BY <1>1, <2>3 DEF Unit, result_tvalid
    <3>2. fpu.left - 1 \in Int
      BY <1>3
    <3>3. (IF fpu.left = 1 THEN "valid" ELSE fpu.state) \in {"idle", "busy", "valid"}
      BY <1>3
    <3> QED
      BY <1>3, <3>1, <3>2, <3>3
  <2>4. CASE ~tvalid /\ fpu.state = "valid" /\ S_state = "PREP"
    BY <1>1, <1>3, <2>4, ZeroType DEF Unit, result_tvalid
  <2>5. CASE ~tvalid /\ fpu.state # "busy" /\ ~(fpu.state = "valid" /\ S_state = "PREP")
    BY <1>1, <1>3, <2>5 DEF Unit, result_tvalid
  <2> QED
    BY <2>2, <2>3, <2>4, <2>5
<1>11. (tvalid' \in BOOLEAN) /\ (tvalid' => fpu'.state = "idle")
  <2>1. tvalid' \in BOOLEAN
    BY <1>1 DEF Operands
  <2>2. tvalid' => S_state' = "WAIT"
    BY <1>2 DEF Summing
  <2> QED
    BY <1>2, <2>1, <2>2 DEF Summing
<1>12. fpu'.state \in {"idle", "busy", "valid"}
  BY <1>10
<1> QED
  BY <1>4, <1>5, <1>6, <1>7, <1>8, <1>9, <1>10, <1>11, <1>12 DEF TypeInv, TypeOK

LEMMA SumInvNext ==
  ASSUME IInv, SumInv, NEW op \in Program \cup {Idle}, Clock(op)
  PROVE  SumInv'
<1> SUFFICES ASSUME ~overrun'
    PROVE  /\ S_state' = "COMP" => Summed(answer_store', bufread_addr')
           /\ S_state' \in {"WAIT", "PREP"} => bufread_addr' < bufread_upbound'
           /\ S_state' = "WAIT" /\ tvalid' =>
                tdata'.good /\ tdata'.d = bufread_addr' /\ Summed(tdata'.c, bufread_addr')
           /\ S_state' \in {"WAIT", "PREP"} /\ ~tvalid' => Summed(fpu'.sum, bufread_addr' + 1)
           /\ S_state' = "DONE" => Summed(answer_store', target_num')
  BY DEF SumInv, Summed
<1>1. S_state' = S_next_state(op) /\ Address /\ Operands /\ Answer
  BY DEF Clock
<1>2. Filling /\ Summing /\ Summing' /\ TypeInv
  BY SumNext DEF IInv
<1>3. /\ target_num \in 0..BUF_LEN /\ BUF_LEN \in Nat \ {0} /\ bufread_addr \in Nat
      /\ bufread_upbound \in Nat /\ S_state \in {"INIT", "COMP", "WAIT", "PREP", "DONE"}
      /\ cpu.a \in Nat /\ cpu.b \in Nat
  BY <1>2, FeederAssumption DEF TypeInv, TypeOK
<1>4. S_state # "INIT" => ~overrun
  BY <1>1 DEF Operands
<1>5. A_state # "INIT" => target_num' = target_num /\ bufread_upbound <= bufread_upbound'
  BY RoundStep
<1>6. bufread_upbound' \in Nat
  BY TypeNext, FeederAssumption DEF TypeInv, TypeOK
<1>7. CASE S_state = "INIT"
  <2>1. S_state' \in {"INIT", "COMP"} /\ bufread_addr' = 0 /\ answer_store' = Zero
    BY <1>1, <1>2, <1>7 DEF S_next_state, Address, Answer, Summing
  <2> QED
    BY <2>1, ZeroType
<1>8. CASE S_state = "COMP"
  <2>1. /\ A_state # "INIT" /\ bufread_addr < bufread_upbound /\ S_state' = "WAIT"
        /\ bufread_addr' = bufread_addr /\ tvalid'
    <3>1. bufread_addr < bufread_upbound
      <4>1. ~(bufread_addr >= bufread_upbound)
        BY <1>1, <1>8, Zenon DEF Operands
      <4> QED
        BY <1>3, <4>1
    <3>2. A_state # "INIT" /\ tvalid'
      BY <1>2, <1>8, UnitStep DEF Summing
    <3> QED
      BY <1>1, <1>8, <3>1, <3>2 DEF S_next_state, Address
  <2>2. Summed(answer_store, bufread_addr)
    BY <1>4, <1>8 DEF SumInv
  <2>3. bufread_addr < cpu.b /\ cpu.b <= cpu.a /\ cpu.a <= target_num
        /\ fresh1 = 0..cpu.a - 1 /\ fresh2 = 0..cpu.b - 1
    BY <1>2, <2>1 DEF Filling
  <2>4. Entry = bufread_addr
    BY <1>3, <2>3 DEF Entry
  <2>5. Entry \in fresh1 \cap fresh2
    BY <1>3, <2>3, <2>4
  <2>6. tdata' = [d |-> Entry, good |-> TRUE, c |-> answer_store]
    BY <1>1, <1>8, <2>5 DEF Operands
  <2>7. bufread_addr' < bufread_upbound'
    BY <1>3, <1>5, <1>6, <2>1
  <2> QED
    BY <2>1, <2>2, <2>4, <2>6, <2>7
<1>9. CASE S_state = "WAIT"
  <2>1. /\ A_state # "INIT" /\ S_state' \in {"WAIT", "PREP"} /\ bufread_addr' = bufread_addr
        /\ bufread_addr < bufread_upbound /\ ~tvalid'
    BY <1>1, <1>2, <1>4, <1>9 DEF S_next_state, Address, Operands, Summing, SumInv
  <2>2. bufread_addr' < bufread_upbound'
    BY <1>3, <1>5, <1>6, <2>1
  <2>3. Summed(fpu'.sum, bufread_addr + 1)
    <3>1. CASE tvalid
      <4>1. tdata.good /\ tdata.d = bufread_addr /\ Summed(tdata.c, bufread_addr)
        BY <1>4, <1>9, <3>1 DEF SumInv
      <4>2. tdata.good \in BOOLEAN /\ tdata.d \in Entries /\ tdata.c \in Sum
        BY <1>2 DEF TypeInv
      <4>3. fpu'.sum = MultiplyAdd(tdata.c, tdata.d, tdata.good) /\ tdata.good = TRUE
        BY <1>9, <3>1, <4>1, <4>2, UnitStep
      <4> QED
        BY <4>1, <4>2, <4>3, AddNext
    <3>2. CASE ~tvalid
      <4>1. Summed(fpu.sum, bufread_addr + 1)
        BY <1>4, <1>9, <3>2 DEF SumInv
      <4> QED
        BY <1>9, <3>2, <4>1, UnitStep
    <3> QED
      BY <3>1, <3>2
  <2> QED
    BY <2>1, <2>2, <2>3
<1>10. CASE S_state = "PREP"
  <2>1. Summed(fpu.sum, bufread_addr + 1) /\ bufread_addr < bufread_upbound
    BY <1>2, <1>4, <1>10 DEF SumInv, Summing
  <2>2. /\ A_state # "INIT" /\ bufread_addr' = bufread_addr + 1 /\ answer_store' = fpu.sum
        /\ S_state' = IF bufread_addr = target_num - 1 THEN "DONE" ELSE "COMP"
    <3>1. A_state \in {"FILL", "LOAD"}
      BY <1>2, <1>10 DEF Summing, TypeInv, TypeOK
    <3> QED
      BY <1>1, <1>10, <2>1, <3>1 DEF Address, Answer, S_next_state
  <2>3. S_state' = "DONE" => target_num' = bufread_addr + 1
    BY <1>3, <1>5, <2>2
  <2> QED
    BY <2>1, <2>2, <2>3
<1>11. CASE S_state = "DONE"
  <2>1. S_state' = IF A_state = "INIT" THEN "INIT" ELSE "DONE"
    BY <1>1, <1>11 DEF S_next_state
  <2>2. A_state # "INIT" => answer_store' = answer_store
    BY <1>1, <1>11 DEF Answer
  <2>3. Summed(answer_store, target_num)
    BY <1>4, <1>11 DEF SumInv
  <2> QED
    BY <1>5, <2>1, <2>2, <2>3
<1> QED
  BY <1>3, <1>7, <1>8, <1>9, <1>10, <1>11

----------------------------------------------------------------------------
(* The theorems.                                                           *)

LEMMA Initial ==
  ASSUME Init
  PROVE  IInv /\ SumInv
<1>1. 0 \in Entries /\ 0 \in 0..BUF_LEN /\ Zero \in Sum
  BY ZeroType, FeederAssumption DEF Entries
<1>2. TypeOK
  <2>1. target_num = 0 /\ 0 \in 0..0
    BY DEF Init
  <2>2. fresh1 \cup fresh2 \subseteq Entries /\ fpu.state = "idle"
    BY DEF Init
  <2> QED
    BY <1>1, <2>1, <2>2 DEF Init, TypeOK
<1>3. TypeInv
  BY <1>1, <1>2 DEF Init, TypeInv
<1>4. Filling /\ Summing /\ SumInv
  BY DEF Init, Filling, Summing, SumInv
<1> QED
  BY <1>3, <1>4 DEF IInv

LEMMA Invariant == Spec => [](IInv /\ SumInv)
<1>1. IInv /\ SumInv /\ [Next]_vars => (IInv /\ SumInv)'
  <2> SUFFICES ASSUME IInv, SumInv, [Next]_vars
               PROVE  (IInv /\ SumInv)'
    OBVIOUS
  <2>1. CASE Next
    <3>1. PICK op \in Program \cup {Idle} : Clock(op)
      BY <2>1 DEF Next
    <3> QED
      BY <3>1, TypeNext, FillNext, SumNext, SumInvNext DEF IInv
  <2>2. CASE UNCHANGED vars
    BY <2>2 DEF vars, bufferVars, unitVars, IInv, TypeInv, TypeOK, Filling, Summing, SumInv, Summed
  <2> QED
    BY <2>1, <2>2
<1> QED
  BY <1>1, Initial, PTL DEF Spec

\* The registers fit whatever the processor writes: the read address stays
\* within the length asked for and the bound within the buffers
\* (RDataFeeder.v:173-231).
THEOREM TypeCorrect == Spec => []TypeOK
<1>1. IInv => TypeOK
  BY DEF IInv, TypeInv
<1> QED
  BY <1>1, Invariant, PTL

\* A read that is answered gets each product once, in every round that did
\* not read at or above its bound: the steps of S_state add each pair in
\* order, and the sum is cleared between rounds (RDataFeeder.v:173-231).
THEOREM SumsEachProduct == Spec => []DotProduct
<1>1. IInv /\ SumInv => DotProduct
  BY DEF IInv, Filling, SumInv, Summed, DotProduct, Right
<1> QED
  BY <1>1, Invariant, PTL
=============================================================================
