---------------------------- MODULE MCRDataFeeder ----------------------------
(***************************************************************************)
(* Instances of RDataFeeder for TLC.                                       *)
(***************************************************************************)
EXTENDS RDataFeeder

MCTargets == 1..BUF_LEN
MCLatency == {0, 2, 7}
==============================================================================
