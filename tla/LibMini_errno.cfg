\* Failing calls and perror, interrupted by handlers that fail too.
CONSTANTS
  Signals = {"ALRM", "INT"}
  ALRM = "ALRM"
  NULL = NULL
  Bufs = {1}
  Vals = {1}
  HalfWord = 2
  Errors = {4, 22, 39}
  WriteErrors = {4}
  Uses = {"wrapper", "getuid", "read", "sleep", "pause", "signal", "alarm", "perror", "exit", "query"}
  Acts <- NoActs
  MainHows = {}
  HandlerHows = {}
  PoliteHandlers = TRUE
  MaxDepth = 2
SPECIFICATION Spec
INVARIANTS TypeOK ErrnoKept
\* Handlers of both signals that pause sleep for ever.
CHECK_DEADLOCK FALSE
