------------------------------ MODULE MCLsof ------------------------------
(***************************************************************************)
(* Constants of the TLC runs of Lsof: two pids, and images that between    *)
(* them have a shell with a mapping in two pieces, a kernel thread, a      *)
(* process of somebody else, and one with all that README.md asks for and  *)
(* the code does not do.                                                   *)
(***************************************************************************)
EXTENDS Lsof

CONSTANTS dir, sh, lib, gone, kept, tty, log, disk, secret

MCFiles == {dir, sh, lib, gone, kept, tty, log, disk, secret}
MCFileType == [f \in MCFiles |-> CASE f = dir -> "DIR" [] f = tty -> "CHR"
                                   [] f = disk -> "BLK" [] OTHER -> "REG"]
MCPerms == [f \in MCFiles |-> CASE f = secret -> {} [] f = disk -> {"r"}
                                [] f = log -> {"w"} [] OTHER -> {"r", "w"}]

Shell == [user |-> "me", command |-> "sh", sealed |-> FALSE, cwd |-> dir, root |-> dir, exe |-> sh,
          maps |-> <<sh, None, sh>>, fds |-> <<tty, log>>, modes |-> <<"u", "w">>]
Kernel == [user |-> "root", command |-> None, sealed |-> FALSE, cwd |-> dir, root |-> dir,
           exe |-> None, maps |-> <<None, None, None>>, fds |-> <<None, None>>,
           modes |-> <<"r", "r">>]
Sealed == [user |-> "root", command |-> "sh", sealed |-> TRUE, cwd |-> dir, root |-> dir, exe |-> sh,
           maps |-> <<sh, lib, None>>, fds |-> <<tty, None>>, modes |-> <<"u", "r">>]
\* A deleted file mapped twice around one with "deleted" in its name, a
\* descriptor without owner bits, and a disk opened for reading and writing.
Odd == [user |-> "me", command |-> "odd", sealed |-> FALSE, cwd |-> gone, root |-> dir, exe |-> lib,
        maps |-> <<gone, kept, gone>>, fds |-> <<secret, disk>>, modes |-> <<"r", "u">>]
MCImages == {Shell, Kernel, Sealed, Odd}
MCNoThreads == {Shell, Sealed, Odd}

MCCOpts == {None, Bad, {"sh"}}
MCTOpts == {None, "invalid", "REG", "unknown"}
MCFOpts == {None, Bad, {dir, sh}}
=============================================================================
