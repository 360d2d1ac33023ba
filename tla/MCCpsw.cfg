SPECIFICATION FairSpec
CONSTANTS
  TxDescs = 1
  RxDescs = 1
  Budget = 1
  MaxBacklog = 1
INVARIANTS IrqBalanced DmaWhileOpen
PROPERTIES TxReclaimed BacklogRun
