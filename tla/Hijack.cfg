\* Every call, on data of any length, stderr closed or not, one change by another process.
SPECIFICATION Spec
CONSTANTS
  None = None
  p = p
  q = q
  term = term
  f = f
  g = g
  Paths <- MCPaths
  Files <- MCFiles
  Fds <- MCFds
  Term = term
  Counts <- MCCounts
  Calls <- MCCalls
  AnyResult = {"close"}
  MaxCalls = 3
  MaxOthers = 1
  Tiny <- MCTiny
  Short <- MCShort
  IntMax = 3
INVARIANTS TypeOK NamesTheFile ErrnoKept
PROPERTIES Transparent
\* The program ends, or has been ended by a wrapper.
CHECK_DEADLOCK FALSE
