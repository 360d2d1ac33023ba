SPECIFICATION FairSpec
CONSTANTS
  None = None
  hub = hub
  dev = dev
  key = key
  Devices <- Registered
  Parent <- HubAndKey
  Sources = {dev}
  Timed = {}
  Async = {hub, dev}
  Level = {dev}
  Failing = {}
  CountMod = 2
  InprMod = 2
  MaxEvents = 1
  FifoSize = 1
  KfifoSize = 1
CHECK_DEADLOCK FALSE
PROPERTY TransitionEnds
