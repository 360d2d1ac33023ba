SPECIFICATION FairSpec
CONSTANTS
  Tasks = {t1, t2, t3}
  NULL = NULL
INVARIANTS
  Exclusion
  ActivityCounts
  HeadIsWriter
  NoLostWakeup
PROPERTIES
  LockSpec
  EveryWaiterServed
