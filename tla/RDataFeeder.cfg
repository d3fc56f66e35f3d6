\* Buffers of four entries, two dot products, a fast and a slow unit.
SPECIFICATION Spec
CONSTANTS
  BUF_LEN = 4
  Targets <- MCTargets
  Latency <- MCLatency
  Rounds = 2
INVARIANTS TypeOK DotProduct
PROPERTIES Computes
