\* Breakpoints anywhere, any index of delete, more breakpoints than slots,
\* signals and kills: the table and the text of the child stay in step.
CONSTANTS
  TextStart = 1
  TextSize = 5
  Byte <- MCByte
  CC = "cc"
  ErrByte = "ff"
  Orig <- MCOrig
  Starts <- MCStarts
  Length <- MCLength
  Succ <- MCSucc
  Exits = {5}
  Entry = 1
  ArrLen = 2
  Below = 1
  NULL = NULL
  STRAY = STRAY
  Programs <- MCPrograms
  Sections <- MCSections
  Executable <- MCExecutable
  BreakArgs = {2, 3, 4}
  DeleteArgs <- NegativeToo
  RipArgs = {3}
  Outside = {"signal", "kill"}
  MaxSignals = 1
  ProcLimit = 2
  RipRange <- MCRipRange
SPECIFICATION Spec
INVARIANTS TypeOK UniqueAddresses BreakpointsArmed SavedBytes
PROPERTIES NoMissedBreakpoint
