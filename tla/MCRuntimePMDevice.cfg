SPECIFICATION Spec
CONSTANTS
  bus = bus
  dev = dev
  t1 = t1
  t2 = t2
  SOFTIRQ = SOFTIRQ
  NULL = NULL
  Devices = {dev}
  Tasks = {t1, t2}
  Parent <- NoParent
  Targets = {dev}
  CallbackFlags <- Auto
  IdleFlags <- PutAsync
  SuspendFlags <- Suspends
  ResumeFlags <- Get
  Settings = {"disable", "schedule_suspend", "forbid", "set_status", "autosuspend", "barrier"}
  Driver <- OneDriver
  SuspendResults = {"ok", "busy", "fail", "nosys"}
  ResumeResults = {"ok", "fail", "nosys"}
  IgnoreChildren = {}
SYMMETRY Symmetry
CHECK_DEADLOCK FALSE
INVARIANTS
  HeldIsActive
  CallbacksExclusive
  DisabledIsQuiet
  RequestHasWork
  NoLostWakeup
