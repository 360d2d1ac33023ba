SPECIFICATION FairSpec
CONSTANTS
  bus = bus
  dev = dev
  t1 = t1
  t2 = t2
  SOFTIRQ = SOFTIRQ
  NULL = NULL
  Devices = {bus, dev}
  Tasks = {t1}
  Parent <- ParentOf
  Targets = {dev}
  CallbackFlags <- Plain
  IdleFlags <- Put
  SuspendFlags <- Suspend
  ResumeFlags <- Get
  Settings = {}
  Driver <- OneDriver
  SuspendResults = {"ok", "busy"}
  ResumeResults = {"ok", "fail"}
  IgnoreChildren = {}
CHECK_DEADLOCK FALSE
INVARIANTS
  ParentActive
  ChildCount
  UsageBalanced
PROPERTIES
  GetReturns
  ResumeServed
