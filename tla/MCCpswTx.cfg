SPECIFICATION FullFairSpec
CONSTANTS
  TxDescs = 1
  RxDescs = 1
  Budget = 1
  MaxBacklog = 1
PROPERTY TxFreed
