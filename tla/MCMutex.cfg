SPECIFICATION FairSpec
CONSTANTS
  Tasks = {t1, t2, t3}
  NULL = NULL
INVARIANTS
  MutualExclusion
  NoLostWakeup
  WaitersAlive
PROPERTY FreeIsTaken
