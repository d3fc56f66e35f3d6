------------------------------ MODULE MCHijack ------------------------------
(***************************************************************************)
(* Instances of Hijack for TLC: one program that makes every call, on two  *)
(* paths and two descriptors, one of them stderr's, with data that end     *)
(* within the buffers of the logger and data that do not.                  *)
(***************************************************************************)
EXTENDS Hijack

CONSTANTS p, q, term, f, g

MCPaths == {p, q}
MCFiles == {term, f, g}
MCFds == {2, 3}
MCCounts == {0, 3}
MCTiny == {f}
MCShort == {<<"real", p>>, <<"raw", p>>, <<"raw", q>>, <<"real", f>>, <<"real", term>>}

MCCalls ==
  [op : PathOps, path : MCPaths]
  \cup [op : {"rename"}, path : MCPaths, to : MCPaths]
  \cup [op : {"close", "fclose"}, fd : MCFds, buf : {None}]
  \cup [op : {"read", "write", "fread", "fwrite"}, fd : MCFds, buf : {"short", "long"}]
  \cup [op : {"tmpfile"}]
=============================================================================
