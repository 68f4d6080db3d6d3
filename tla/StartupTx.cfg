CONSTANTS
  NumCpus = 3
  NumEthdev = 1
  TxLimits = {2}
  RxLimits = {1}
SPECIFICATION Spec
INVARIANT TxQueuesBounded
