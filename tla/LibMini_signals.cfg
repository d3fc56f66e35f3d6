\* Handlers with sa_masks, raised and blocked signals, setjmp and longjmp.
CONSTANTS
  Signals = {"ALRM", "INT"}
  ALRM = "ALRM"
  NULL = NULL
  Bufs = {1}
  Vals = {0, 2}
  HalfWord = 2
  Errors = {4, 22}
  WriteErrors = {4}
  Uses = {"sigaction", "kill", "sigprocmask", "sigpending", "badset", "setjmp", "longjmp"}
  Acts <- MaskingActs
  MainHows = {"block", "unblock", "setmask", "bad"}
  HandlerHows = {"block"}
  PoliteHandlers = FALSE
  MaxDepth = 3
SPECIFICATION Spec
INVARIANTS MainMask NoReentry
