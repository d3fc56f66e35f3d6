\* The memory path, one core and two lines.
CONSTANTS
  Cores = {1}
  Lines = {"l0", "l1"}
  Words = {"w0", "w1"}
  Modulus = 2
  None = None
  Asks <- MCAsks
Fetches = {"l0"}
SPECIFICATION Spec
INVARIANTS TypeOK
PROPERTIES EachOnce FetchCurrent ScNeedsLr Answered
