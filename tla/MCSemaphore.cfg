SPECIFICATION FairSpec
CONSTANTS
  Tasks = {t1, t2, t3}
  N = 1
  MaxTotal = 2
INVARIANTS
  UnitsConserved
  NoIdleUnit
  WaitersAlive
  NoLostWakeup
PROPERTY WaitersServed
