\* Two sets of two ways, three tags; everything a processor can ask for.
SPECIFICATION Spec
CONSTANTS
  t1 = t1
  t2 = t2
  t3 = t3
  x = x
  y = y
  N_LINES = 2
  N_WAYS = 2
  Tags <- MCTags
  Words <- MCWords
  Requests <- MCRequests
  MaxAfter = 1
INVARIANTS TypeOK ReadsLastWrite NothingLost
PROPERTIES FlushWritesAll Answered
\* An access in the last cycle of a flush is never answered.
CHECK_DEADLOCK FALSE
