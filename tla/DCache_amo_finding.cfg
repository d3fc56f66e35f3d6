\* An atomic operation that misses while way 0 is dirty.
SPECIFICATION Spec
CONSTANTS
  t1 = t1
  t2 = t2
  t3 = t3
  x = x
  y = y
  N_LINES = 2
  N_WAYS = 2
  Tags <- MCTags
  Words <- MCWords
  Requests <- MCRequests
  MaxAfter = 1
INVARIANTS AtomicsHarmless
CHECK_DEADLOCK FALSE
