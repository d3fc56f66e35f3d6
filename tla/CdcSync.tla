------------------------------ MODULE CdcSync ------------------------------
(***************************************************************************)
(* The crossing between the core's clock and the memory controller's,      *)
(* HW5/soc_rtl/cdc_sync.v.  A request crosses in as many FIFOs as it has   *)
(* signals, which may show their items in different cycles; each is        *)
(* collected by a state machine of its own, and one more puts them         *)
(* together.  Answers come back the same way.                              *)
(*                                                                         *)
(* The FIFOs are a vendor's: an item comes out some cycles after it went   *)
(* in, so that any FIFO with an item may still look empty ("seen" says     *)
(* which do not).  They are never full: none ever holds two items.         *)
(* A register that nothing reads again before it is loaded is None.        *)
(***************************************************************************)
EXTENDS Bus, Sequences

Signals(c) == IF c = "IMEM" THEN {"strobe", "addr"} ELSE {"strobe", "addr", "rw", "wt_data"}
Answers == {"done", "rd_data"}
Down == {f \in Channels \X {"strobe", "addr", "rw", "wt_data"} : f[2] \in Signals(f[1])}
Up == Channels \X Answers

VARIABLES
  strobed,    \* O, P: whether the strobe has been seen since it was last low
  down,       \* the FIFOs to the memory controller
  latched,    \* R, S, U, V, W, X and their registers; None in state IDLE
  asked,      \* Q, T: whether a request went out in the last cycle
  DMEM_rw_r,  \* the last direction; read by the other clock's state machine too
  answered,   \* done_i_r
  rd_data,    \* rd_data_i_r
  noted,      \* A, B: whether the answer has been put into the FIFOs
  up,         \* the FIFOs to the core
  collected,  \* E, F, G, H and their registers; None in state IDLE
  given       \* C, D: whether an answer went out in the last cycle

core_side == <<strobed, collected, given>>
memc_side == <<latched, asked, DMEM_rw_r, answered, rd_data, noted>>

----------------------------------------------------------------------------
(* FIFOs and the state machines that collect from them.                    *)

NonEmpty(fifos) == {f \in DOMAIN fifos : fifos[f] # <<>>}
Popped(fifos, seen) ==
  [f \in DOMAIN fifos |-> IF f \in seen THEN Tail(fifos[f]) ELSE fifos[f]]

\* IDLE goes to WAIT with an item and back when all have been handed on; an
\* item that comes in WAIT takes the place of the one there.
Collects(registers, fifos, seen, ready) ==
  [f \in DOMAIN fifos |->
     IF registers[f] # None /\ ready[f[1]] THEN None
     ELSE IF f \in seen THEN Head(fifos[f]) ELSE registers[f]]

----------------------------------------------------------------------------
(* To the memory controller.                                               *)

\* A request goes out, for one cycle, when all its signals are there.
memc_ready == [c \in Channels |-> ~asked[c] /\ \A s \in Signals(c) : latched[<<c, s>>] # None]
request_o(c) ==
  [line |-> latched[<<c, "addr">>].line,
   rw   |-> c = "DMEM" /\ latched[<<c, "rw">>].rw,
   data |-> IF c = "DMEM" THEN latched[<<c, "wt_data">>].data ELSE 0]

\* The answer is kept until the next request, and noted once.
Notes(c) == ~noted[c] /\ answered[c]
AnsweredNext(done_i) == [c \in Channels |-> done_i[c] \/ (answered[c] /\ ~memc_ready[c])]
Item(f) == IF f[2] = "done" THEN TRUE ELSE rd_data[f[1]]
\* No data goes up with the answer to a write.
Carries(f) == Notes(f[1]) /\ (f = <<"DMEM", "rd_data">> => ~DMEM_rw_r)

CdcMemcTick(seen, done_i, data_i) ==
  /\ asked' = memc_ready
  /\ latched' = Collects(latched, down, seen, memc_ready)
  /\ DMEM_rw_r' = IF <<"DMEM", "rw">> \in seen THEN Head(down[<<"DMEM", "rw">>]).rw ELSE DMEM_rw_r
  /\ down' = Popped(down, seen)
  /\ answered' = AnsweredNext(done_i)
  /\ rd_data' = [c \in Channels |-> IF done_i[c] THEN data_i
                                   ELSE IF memc_ready[c] \/ Notes(c) THEN 0 ELSE rd_data[c]]
  /\ noted' = answered
  /\ up' = [f \in Up |-> IF Carries(f) THEN Append(up[f], Item(f)) ELSE up[f]]
  /\ UNCHANGED core_side

----------------------------------------------------------------------------
(* To the core.                                                            *)

DoneAlone ==  \* mutant: without waiting for the data of a read
  [c \in Channels |-> ~given[c] /\ collected[<<c, "done">>] # None]
core_ready ==
  [c \in Channels |-> /\ ~given[c] /\ collected[<<c, "done">>] # None
                      /\ collected[<<c, "rd_data">>] # None \/ (c = "DMEM" /\ DMEM_rw_r)]
data_o(c) == IF core_ready[c] /\ collected[<<c, "rd_data">>] # None
             THEN collected[<<c, "rd_data">>] ELSE 0

\* A strobe is taken once; it must be low for a cycle before the next.
EveryCycle(strobe_i) == strobe_i  \* mutant: taken for as long as it is high
Taken(strobe_i) == [c \in Channels |-> strobe_i[c] /\ ~strobed[c]]
CdcCoreTick(seen, strobe_i, request_i) ==
  /\ strobed' = strobe_i
  /\ down' = [f \in Down |-> IF Taken(strobe_i)[f[1]] THEN Append(down[f], request_i[f[1]])
                             ELSE down[f]]
  /\ given' = core_ready
  /\ collected' = Collects(collected, up, seen, core_ready)
  /\ up' = Popped(up, seen)
  /\ UNCHANGED memc_side

CdcInit ==
  /\ strobed = [c \in Channels |-> FALSE] /\ asked = strobed /\ given = strobed
  /\ answered = strobed /\ noted = strobed /\ rd_data = [c \in Channels |-> 0]
  /\ down = [f \in Down |-> <<>>] /\ latched = [f \in Down |-> None]
  /\ up = [f \in Up |-> <<>>] /\ collected = [f \in Up |-> None]
  /\ DMEM_rw_r = FALSE
=============================================================================
