----------------------------- MODULE MCSdbView -----------------------------
(***************************************************************************)
(* Constants of the TLC run of SdbView: words of two bytes, so that the    *)
(* five bytes of .text take several of them at every alignment.            *)
(***************************************************************************)
EXTENDS SdbView, MCSdb

\* The word that begins right behind .text is not all mapped.
MCMapped == -1 .. 6
MCSize == [b \in MCByte \cup {"xx"} |-> CASE b = "cc" -> 1 [] b = "xx" -> 2 [] OTHER -> 0]
MCMaps == <<"program", NULL, "stack">>
=============================================================================
