----------------------------- MODULE MemArbiter -----------------------------
(***************************************************************************)
(* The arbiter in front of the memory controller,                          *)
(* HW5/soc_rtl/mem_arbiter.v: it keeps one request of each port,           *)
(* instruction fetches first, and does one at a time.  The controller and  *)
(* the DRAM are external: a command is taken when the controller is ready, *)
(* in order, and the data of a read come some cycles later.                *)
(*                                                                         *)
(* ArbiterTick is one edge of the memory clock.  A register that nothing   *)
(* reads again before it is loaded is None, or 0.                          *)
(***************************************************************************)
EXTENDS Bus

VARIABLES
  held,     \* S_*_strobe_r and the request kept with it, or None
  c_state, sel_r, command,  \* the selected request, registered in M_IDLE
  rdata,    \* rdata_reorder
  mem,      \* the DRAM's contents
  reading   \* the data of a read that was sent, or None

arbiter == <<held, c_state, sel_r, command, rdata, mem, reading>>

----------------------------------------------------------------------------
sel == IF held["IMEM"] = None /\ held["DMEM"] # None THEN "DMEM" ELSE "IMEM"
have_strobe == \E p \in Channels : held[p] # None
sends(ready) == c_state = "M_SEND" /\ ready

n_state(ready, valid) ==
  CASE c_state = "M_IDLE" /\ have_strobe -> "M_SEND"
    [] sends(ready)                      -> IF command.rw THEN "M_IDLE" ELSE "M_WAIT"
    [] c_state = "M_WAIT" /\ valid       -> "M_DONE"
    [] c_state = "M_DONE"                -> "M_IDLE"
    [] OTHER                             -> c_state
finishes(ready, valid) == c_state # "M_IDLE" /\ n_state(ready, valid) = "M_IDLE"
OfTheNext(ready, valid) ==  \* mutant: the port selected now, not the registered one
  [p \in Channels |-> finishes(ready, valid) /\ sel = p]
done_o(ready, valid) == [p \in Channels |-> finishes(ready, valid) /\ sel_r = p]

Held(strobe, request, done) ==
  [p \in Channels |-> IF strobe[p] THEN request[p] ELSE IF done[p] THEN None ELSE held[p]]

ArbiterTick(strobe, request, ready, valid) ==
  /\ held' = Held(strobe, request, done_o(ready, valid))
  /\ c_state' = n_state(ready, valid)
  /\ IF c_state = "M_IDLE"
     THEN sel_r' = sel /\ command' = held[sel]
     ELSE UNCHANGED sel_r /\ command' = IF finishes(ready, valid) THEN None ELSE command
  /\ mem' = IF sends(ready) /\ command.rw THEN [mem EXCEPT ![command.line] = command.data] ELSE mem
  /\ reading' = IF sends(ready) /\ ~command.rw THEN mem[command.line]
                ELSE IF valid THEN None ELSE reading
  /\ rdata' = IF valid THEN reading ELSE IF c_state = "M_DONE" THEN 0 ELSE rdata

ArbiterInit ==
  /\ held = [p \in Channels |-> None] /\ c_state = "M_IDLE" /\ sel_r = "IMEM" /\ command = None
  /\ rdata = 0 /\ mem = [l \in Lines |-> 0] /\ reading = None
=============================================================================
