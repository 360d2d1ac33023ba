SPECIFICATION Spec
CONSTANTS
  None = None
  hub = hub
  dev = dev
  key = key
  Devices <- Registered
  Parent <- HubAndKey
  Sources = {dev, key}
  Timed = {key}
  Async = {hub, dev}
  Level = {dev}
  Failing = {dev, key}
  CountMod = 3
  InprMod = 4
  MaxEvents = 2
  FifoSize = 1
  KfifoSize = 1
CHECK_DEADLOCK FALSE
INVARIANTS
  NoWakeupLost
  CountBalanced
  
  AsleepQuiet
  AllRestored
