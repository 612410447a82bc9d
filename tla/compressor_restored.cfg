SPECIFICATION Spec
CONSTANTS
  e1 = e1
  e2 = e2
  k1 = k1
  k2 = k2
  Keys = {k1, k2}
  Events = {e1, e2}
  NoEvent = NoEvent
  NoGroup = NoGroup
  MaxGroup = 4
  Calls <- RestoredCalls
INVARIANTS
  LevelsRestorable
  CountCoversChanges
  BaseIsStored
CHECK_DEADLOCK FALSE
