------------------------------ MODULE MCDCache ------------------------------
(***************************************************************************)
(* Instances of DCache for TLC.  The first set sees everything, with three *)
(* tags for its two ways; the second only holds lines for a flush to find. *)
(***************************************************************************)
EXTENDS DCache

CONSTANTS t1, t2, t3, x, y

MCTags == {t1, t2, t3}
MCWords == {x, y}
MCRequests == [op : {"read", "write"}, tag : MCTags, line : {0}, word : {x}]
              \cup [op : {"write"}, tag : {t1, t2}, line : {1}, word : {x}]
              \cup [op : {"amo"}, tag : {t1}, line : {0}, word : {x, y}]
=============================================================================
