-------------------------------- MODULE Bus --------------------------------
(***************************************************************************)
(* What the modules of the memory path share: its two ports, of the        *)
(* instruction and the data cache, and the lines of memory.                *)
(***************************************************************************)
CONSTANTS Lines,
          None    \* no request, no reservation, nothing in a register

Channels == {"IMEM", "DMEM"}
=============================================================================
