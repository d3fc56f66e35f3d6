\* One descriptor less: the last process is not listed correctly.
CONSTANTS
  dir = dir
  sh = sh
  lib = lib
  gone = gone
  kept = kept
  tty = tty
  log = log
  disk = disk
  secret = secret
  Pids = {1, 2}
  Fds = {1, 2}
  Areas = {1, 2, 3}
  Files <- MCFiles
  Commands = {"sh", "odd"}
  Users = {"me", "root"}
  None = None
  Bad = Bad
  Images <- MCNoThreads
  FileType <- MCFileType
  Perms <- MCPerms
  Deleted = {gone}
  NamedDeleted = {kept}
  Leftovers = {"", "junk"}
  Limit = 8
  Base = 3
  Batch = 2
  ArrLen = 16
  COpts <- MCCOpts
  TOpts <- MCTOpts
  FOpts <- MCFOpts
  MaxChanges = 0
SPECIFICATION Spec
INVARIANTS NoFalseDenial
