------------------------------ MODULE MemPath ------------------------------
(***************************************************************************)
(* The way of an access from the caches of the Aquila core to the DRAM, as *)
(* aquila_top.v and soc_top.v of HW5 connect it: the atomic unit and the   *)
(* core's half of the clock crossing on the core's clock, the other half   *)
(* and the arbiter on the memory's, the edges of the two clocks in any     *)
(* order.                                                                  *)
(*                                                                         *)
(* The caches (external here) hold a request up until it is answered, and  *)
(* their strobe is low for a cycle at least before the next (dcache.v:522, *)
(* icache.v:307).                                                          *)
(***************************************************************************)
EXTENDS AtomicUnit, CdcSync, MemArbiter

CONSTANTS Asks,    \* what the data cache may ask for
          Fetches  \* and the lines the instruction cache may
ASSUME PathAssumption ==
  /\ Asks \subseteq Request /\ Fetches \subseteq Lines
  /\ None \notin Lines /\ None \notin Values /\ None \notin {TRUE}
  /\ None \notin [line : Lines, rw : BOOLEAN, data : Values]

VARIABLES
  fetch,    \* the line the instruction cache waits for, or None
  \* History, for the properties:
  before,   \* mem when the data cache's request was made
  current,  \* the values of the line being fetched since the fetch was made
  linked    \* of each core: where its last LR was, if no write to it came
            \* since; "stray" once a plain access of type LR came since

vars == <<core, unit, core_side, memc_side, down, up, arbiter, fetch, before, current, linked>>

----------------------------------------------------------------------------
(* An edge of the core's clock.                                            *)

done_D == core_done(core_ready["DMEM"])
done_I == fetch # None /\ core_ready["IMEM"]
answer == core_data(data_o("DMEM"))

\* Whether the access now answered wrote to the address.
Writes(line, word) ==
  /\ core.line = line
  /\ \/ core.op = "write"
     \/ core.op = "amo" /\ core.word = word /\ ~is_lr /\ ~(is_sc /\ sc_fail)
LinkedNext(c) ==
  IF is_lr /\ core.id = c THEN IF is_amo THEN <<core.line, core.word>> ELSE "stray"
  ELSE IF linked[c] \in Lines \X Words /\ Writes(linked[c][1], linked[c][2]) THEN None
  ELSE linked[c]

Requests ==
  /\ IF core # None
     THEN core' = IF done_D THEN None ELSE core
     ELSE core' \in Asks \cup {None}
  /\ before' = IF core = None \/ done_D THEN mem ELSE before
  /\ linked' = IF done_D THEN [c \in Cores |-> LinkedNext(c)] ELSE linked
  /\ IF fetch # None
     THEN IF done_I THEN fetch' = None /\ current' = {} ELSE UNCHANGED <<fetch, current>>
     ELSE \/ UNCHANGED <<fetch, current>>
          \/ \E l \in Fetches : fetch' = l /\ current' = {mem[l]}

CoreEdge(seen) ==
  /\ Requests
  /\ AtomicTick(core_ready["DMEM"], data_o("DMEM"))
  /\ CdcCoreTick(seen,
       [c \in Channels |-> IF c = "DMEM" THEN M_strobe ELSE fetch # None],
       [c \in Channels |-> IF c = "DMEM" THEN M_request
                           ELSE [line |-> fetch, rw |-> FALSE, data |-> 0]])
  /\ UNCHANGED arbiter

----------------------------------------------------------------------------
(* An edge of the memory's clock.                                          *)

MemcEdge(seen, ready, valid) ==
  /\ CdcMemcTick(seen, done_o(ready, valid), rdata)
  /\ ArbiterTick(memc_ready, [c \in Channels |-> request_o(c)], ready, valid)
  /\ current' = IF fetch = None THEN {} ELSE current \cup {mem'[fetch]}
  /\ UNCHANGED <<core, unit, fetch, before, linked>>

----------------------------------------------------------------------------
Init ==
  /\ AtomicInit /\ CdcInit /\ ArbiterInit
  /\ core = None /\ fetch = None /\ before = mem /\ current = {}
  /\ linked = [c \in Cores |-> None]

AnyCoreEdge == \E seen \in SUBSET NonEmpty(up) : CoreEdge(seen)
\* Whether the controller is ready matters when a command waits for it.
AnyMemcEdge ==
  \E seen \in SUBSET NonEmpty(down),
     ready \in {FALSE, c_state = "M_SEND"}, valid \in {FALSE, reading # None} :
    MemcEdge(seen, ready, valid)
Next == AnyCoreEdge \/ AnyMemcEdge

\* Both clocks run; what is in a FIFO is seen some time, and the memory
\* controller is ready and answers some time.
Spec == /\ Init /\ [][Next]_vars
        /\ WF_vars(CoreEdge(NonEmpty(up)))
        /\ WF_vars(MemcEdge(NonEmpty(down), c_state = "M_SEND", reading # None))

----------------------------------------------------------------------------
(* Properties.                                                             *)

\* The types; no FIFO holds two items, nor one while the register behind it is
\* full; and for a cache that waits for nothing the arbiter holds no request and
\* the atomic unit is at rest.
TypeOK ==
  /\ core \in Request \cup {None} /\ state \in {"Bypass", "AmoRd", "Wait", "AmoWr", "AmoFinish"}
  /\ m_data \in Values /\ reservation \in [Cores -> (Lines \X Words) \cup {None}]
  /\ c_state \in {"M_IDLE", "M_SEND", "M_WAIT", "M_DONE"} /\ mem \in [Lines -> Values]
  /\ \A f \in Down : Len(down[f]) <= 1 /\ (down[f] # <<>> => latched[f] = None)
  /\ \A f \in Up : Len(up[f]) <= 1 /\ (up[f] # <<>> => collected[f] = None)
  /\ fetch = None => held["IMEM"] = None
  /\ core = None => held["DMEM"] = None /\ state = "Bypass"

\* A data access is answered after it has been done in the DRAM, once, and with
\* what was there before (atomic_unit.v:144-181, 217-237; mem_arbiter.v).
EachOnce == [][done_D =>
  LET old == before[core.line] IN
  IF ~is_amo
  THEN IF core.op = "read"
       THEN mem = before /\ answer = old
       ELSE mem = [before EXCEPT ![core.line] = core.data]
  ELSE CASE is_lr -> mem = before /\ answer = old
         [] is_sc -> mem = IF answer THEN before ELSE [before EXCEPT ![core.line] = core.data]
         [] OTHER -> answer = old
                     /\ mem = [before EXCEPT ![core.line] = (old + core.data) % Modulus]]_vars

\* A fetch gets the line as it was at some moment since it was asked for,
\* whatever the data port does (mem_arbiter.v:213-228, 268-380).
FetchCurrent == [][done_I => data_o("IMEM") \in current]_vars

\* SC succeeds only where its core's last LR was, if nothing wrote there since;
\* unless a plain access whose instruction has LR's bits set the reservation
\* again (atomic_unit.v:183-217, decode.v:239).
ScNeedsLr == [][done_D /\ is_amo /\ is_sc /\ ~answer =>
  linked[core.id] \in {<<core.line, core.word>>, "stray"}]_vars

\* Every access is answered, if both clocks run: the two strobes of an atomic
\* are told apart (atomic_unit.v:13-15), and fetches do not starve data.
Answered == (core # None ~> core = None) /\ (fetch # None ~> fetch = None)
=============================================================================
