CONSTANTS
  NumWorkers = 2
  NumPorts = 1
  Batch = 1
  Mbuf = {m1, m2}
  Ctx = {c1, c2}
  StackCapacity = 2
  TaskCapacity = 2
  McellCapacity = 2
  NULL = NULL
SPECIFICATION Spec
SYMMETRY Symmetry
INVARIANTS
  ContextOwnership
  RequestSlotExclusion
  RunsOwnRequest
  AnsweredOnce
PROPERTY LifecycleSpec
