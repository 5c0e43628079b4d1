CONSTANTS
  Threads = {t1, t2}
  Buffers = {b1, b2, b3}
  KiB = {1}
  Sizes = {340}
  MaxAreas = 3
  MaxCalls = 2
  MaxLive = 3
  MaxSpilt = 1
SPECIFICATION Spec
SYMMETRY Symmetric
INVARIANTS MemorySafe GivenBack
PROPERTY CallerUntouched
