CONSTANTS
  NumWorkers = 1
  NumPorts = 2
  Batch = 2
  Mbuf = {m1, m2, m3}
  Ctx = {c1, c2}
  StackCapacity = 2
  TaskCapacity = 2
  McellCapacity = 2
  NULL = NULL
SPECIFICATION Spec
SYMMETRY Symmetry
INVARIANTS
  BufferOwnership
  PointersExclusion
  McellAvailable
