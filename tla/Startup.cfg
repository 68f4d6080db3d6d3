CONSTANTS
  NumCpus = 4
  NumEthdev = 2
  TxLimits = {4, 5}
  RxLimits = {0, 1, 17}
SPECIFICATION FairSpec
INVARIANTS NoLostIncrement DeviceAfterQueues TxQueuesDistinct LoopsAfterStart
PROPERTY AllReachLoop
