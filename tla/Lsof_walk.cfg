\* The least descriptor limit that serves two processes.
CONSTANTS
  dir = dir
  sh = sh
  lib = lib
  gone = gone
  kept = kept
  tty = tty
  log = log
  disk = disk
  secret = secret
  Pids = {1, 2}
  Fds = {1, 2}
  Areas = {1, 2, 3}
  Files <- MCFiles
  Commands = {"sh", "odd"}
  Users = {"me", "root"}
  None = None
  Bad = Bad
  Images <- MCImages
  FileType <- MCFileType
  Perms <- MCPerms
  Deleted = {gone}
  NamedDeleted = {kept}
  Leftovers = {"", "junk"}
  Limit = 9
  Base = 3
  Batch = 2
  ArrLen = 16
  COpts <- MCCOpts
  TOpts <- MCTOpts
  FOpts <- MCFOpts
  MaxChanges = 1
SPECIFICATION FairSpec
INVARIANTS TypeOK Faithful ListedOnce ShownExactly NodeReal
PROPERTIES Terminates
