\* longjmp out of a handler.
CONSTANTS
  Signals = {"ALRM", "INT"}
  ALRM = "ALRM"
  NULL = NULL
  Bufs = {1}
  Vals = {1}
  HalfWord = 2
  Errors = {4, 22}
  WriteErrors = {4}
  Uses = {"signal", "setjmp", "longjmp"}
  Acts <- NoActs
  MainHows = {}
  HandlerHows = {}
  PoliteHandlers = TRUE
  MaxDepth = 3
SPECIFICATION Spec
PROPERTIES LongjmpRestores
