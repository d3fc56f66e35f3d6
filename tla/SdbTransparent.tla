-------------------------- MODULE SdbTransparent --------------------------
(***************************************************************************)
(* The debugger is transparent: as long as breakpoints and jumps are put   *)
(* on instructions, the program has no int3 of its own and gets no signal, *)
(* the traced child does what the program does alone.                      *)
(***************************************************************************)
EXTENDS Sdb

\* What the user does and what the program is like.
Tame ==
  /\ DeleteArgs \subseteq Nat
  /\ \A a, b \in Starts : a < b => a + Length[a] <= b
  /\ BreakArgs \cap Text \subseteq Starts /\ RipArgs \subseteq Starts
  /\ \A a \in Text : Orig[a] # CC
  /\ "signal" \notin Outside

status == IF Live THEN "alive" ELSE IF child = "exited" THEN "exited" ELSE "none"

\* Between a trap and the rip-- of the debugger the program stands one byte
\* before rip.
Trapped == child = "stopped" /\ stop = "int3" /\ dbg # "prompt"
at == IF status = "none" THEN Entry ELSE IF Trapped THEN rip - 1 ELSE rip

Program == INSTANCE SdbProgram WITH Jumps <- RipArgs

\* Every step of the debugged child is a step of the program by itself.
Transparent == Program!Spec
=============================================================================
