----------------------------- MODULE AtomicUnit -----------------------------
(***************************************************************************)
(* The atomic unit of the Aquila core, HW5/core_rtl/atomic_unit.v: it      *)
(* passes the data cache's accesses on to memory, does LR, SC and AMO      *)
(* instructions as a read and a write, and keeps a reservation per core.   *)
(*                                                                         *)
(* AtomicTick is one edge of the core's clock; what the memory side        *)
(* answers in that cycle is a parameter.  m_data is 0 when nothing reads   *)
(* it again.  A line is one value, as AMO and SC write back the rest of it *)
(* as they read it; addition stands for the nine operations of the ALU.    *)
(***************************************************************************)
EXTENDS Bus, Integers

CONSTANTS Cores, Words,
          Modulus  \* the arithmetic's

Values == 0 .. Modulus - 1  \* of a line
\* Bits 1 and 0 of the type tell LR, SC and the rest apart.  A plain access has
\* a type too: those bits of whatever instruction it is.
Types == {"LR", "SC", "ADD"}
Request == [op : {"read", "write", "amo"}, type : Types, id : Cores,
            line : Lines, word : Words, data : Values]

ASSUME AtomicUnitAssumption ==
  /\ Cores # {} /\ Words # {} /\ None \notin Request \cup (Lines \X Words)
  /\ Modulus \in Nat \ {0}

VARIABLES
  core,        \* the request on the core's port, until it is answered, or None
  state,       \* of the state machine
  m_data,      \* the line read from memory
  reservation  \* of each core: an address, or None when its bit is clear

unit == <<state, m_data, reservation>>

----------------------------------------------------------------------------
(* Combinational signals.                                                  *)

is_amo == core # None /\ core.op = "amo"
is_lr == core.type = "LR"
is_sc == core.type = "SC"
sc_fail == reservation[core.id] # <<core.line, core.word>>

result == IF is_sc THEN core.data ELSE (m_data + core.data) % Modulus
M_strobe == IF is_amo THEN state \in {"AmoRd", "AmoWr"} ELSE core # None
M_request == [line |-> core.line,
              rw   |-> IF is_amo THEN state = "AmoWr" ELSE core.op = "write",
              data |-> IF is_amo THEN result ELSE core.data]

core_done(M_done) == IF is_amo THEN state = "AmoFinish" ELSE core # None /\ M_done
\* What the core gets: the line, or for SC whether it failed.
core_data(M_data) == IF ~is_amo THEN M_data ELSE IF is_sc THEN sc_fail ELSE m_data

----------------------------------------------------------------------------
NoWait ==  \* mutant: without the state that separates the two strobes
  IF is_lr THEN "AmoFinish" ELSE "AmoWr"
AfterRead == IF is_lr THEN "AmoFinish" ELSE "Wait"
state_next(M_done) ==
  CASE state = "Bypass" /\ is_amo -> IF is_sc /\ sc_fail THEN "AmoFinish" ELSE "AmoRd"
    [] state = "AmoRd" /\ M_done  -> AfterRead
    [] state = "Wait"             -> "AmoWr"
    [] state = "AmoWr" /\ M_done  -> "AmoFinish"
    [] state = "AmoFinish"        -> "Bypass"
    [] OTHER                      -> state

OnlyAtomics(c) ==  \* mutant: a plain write leaves the reservations alone
  IF is_lr /\ core.id = c THEN <<core.line, core.word>>
  ELSE IF core.op = "amo" THEN None ELSE reservation[c]
\* Every access that completes sets all reservations: rm_reservation, which
\* clears those of a line that is written, has nothing left to clear.
Reserved(c) == IF is_lr /\ core.id = c THEN <<core.line, core.word>> ELSE None

AtomicTick(M_done, M_data) ==
  /\ state' = state_next(M_done)
  /\ m_data' = CASE state = "AmoRd" -> M_data [] state = "AmoFinish" -> 0 [] OTHER -> m_data
  /\ reservation' = IF core_done(M_done) THEN [c \in Cores |-> Reserved(c)] ELSE reservation

AtomicInit == /\ state = "Bypass" /\ m_data = 0
              /\ reservation = [c \in Cores |-> None]
=============================================================================
