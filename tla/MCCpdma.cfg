SPECIFICATION FairSpec
CONSTANTS
  NumDesc = 3
  RxDescs = 1
  Quota = 1
INVARIANTS
  DmaOnQueuedBuffers
  QueueIntact
  NoStalledQueue
PROPERTIES
  TransmitsComplete
