---------------------------- MODULE SdbProgram ----------------------------
(***************************************************************************)
(* A program that runs with no debugger in sight: what a user of sdb wants *)
(* to believe of the traced process.  It can be launched and killed, it    *)
(* follows its own control flow one instruction at a time, it exits at its *)
(* own exit call, and only the user's "set rip" makes it jump.             *)
(***************************************************************************)
CONSTANTS Entry, Succ, Exits, Jumps

VARIABLES status, at

Init == status = "none" /\ at = Entry

Launch == status = "none" /\ status' = "alive" /\ at' = Entry
Step == status = "alive" /\ at \notin Exits /\ at' \in Succ[at] /\ UNCHANGED status
ExitCall == status = "alive" /\ at \in Exits /\ status' = "exited" /\ UNCHANGED at
Jump == status = "alive" /\ at' \in Jumps /\ UNCHANGED status
Vanish == status \in {"alive", "exited"} /\ status' = "none" /\ at' = Entry

Next == Launch \/ Step \/ ExitCall \/ Jump \/ Vanish

Spec == Init /\ [][Next]_<<status, at>>
=============================================================================
