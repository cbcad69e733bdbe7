SPECIFICATION FairSpec
CONSTANTS
  s1 = s1
  s2 = s2
  e1 = e1
  e2 = e2
  Service = {s1, s2}
  Entry = {e1, e2}
  ServiceOf <- Labels
  ChannelCapacity = 1
  MaxChanges = 3
CHECK_DEADLOCK FALSE
INVARIANTS
  NoTriggerLost
PROPERTIES
  EveryEntryCatchesUp
