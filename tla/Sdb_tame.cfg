\* Breakpoints on instructions, no signals: the child runs as if alone,
\* and what sdb shows of it is true.
CONSTANTS
  TextStart = 1
  TextSize = 5
  Byte <- MCByte
  CC = "cc"
  ErrByte = "ff"
  Orig <- MCOrig
  Starts <- MCStarts
  Length <- MCLength
  Succ <- MCSucc
  Exits = {5}
  Entry = 1
  ArrLen = 3
  Below = 0
  NULL = NULL
  STRAY = STRAY
  Programs <- MCPrograms
  Sections <- MCSections
  Executable <- MCExecutable
  BreakArgs = {1, 2, 4, 5}
  DeleteArgs = {0, 1, 2, 3}
  RipArgs = {4}
  Outside = {"kill"}
  MaxSignals = 1
  ProcLimit = 2
  RipRange <- MCRipRange
  Word = 2
  DumpWords = 4
  DisasmWords = 4
  CodeSize = 9
  MaxShown = 3
  Mapped <- MCMapped
  Other = "xx"
  Size <- MCSize
  Maps <- MCMaps
  Junk = Junk
  DumpArgs = {0}
  DisasmArgs = {1, 3, 4, 5}
SPECIFICATION ViewSpec
INVARIANTS DisasmExact DumpExact
PROPERTIES ReportExact ContProgress Transparent LoopReturns
