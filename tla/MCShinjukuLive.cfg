CONSTANTS
  NumWorkers = 1
  NumPorts = 2
  Batch = 1
  Mbuf = {m1, m2}
  Ctx = {c1, c2}
  StackCapacity = 2
  TaskCapacity = 2
  McellCapacity = 2
  NULL = NULL
SPECIFICATION FairSpec
PROPERTIES
  RequestCompletes
  NetworkerProceeds
