----------------------------- MODULE MCLibMini -----------------------------
(***************************************************************************)
(* Constants of the TLC runs of LibMini: two signals, two or three frames. *)
(***************************************************************************)
EXTENDS LibMini

Act(h, m, r) == [handler |-> h, mask |-> m, restart |-> r, restorer |-> FALSE]

NoActs == {}
MaskingActs == {Act("handler", {}, TRUE), Act("handler", {"INT"}, FALSE)}
=============================================================================
