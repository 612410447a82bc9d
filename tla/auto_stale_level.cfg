SPECIFICATION Spec
CONSTANTS
  e1 = e1
  k1 = k1
  k2 = k2
  k3 = k3
  r1 = r1
  r2 = r2
  Keys = {k1, k2}
  Events = {e1}
  NoEvent = NoEvent
  NoGroup = NoGroup
  MaxGroup = 4
  Rooms = {r1}
  Databases <- StatesDatabases
  Arguments <- StatesArguments
  NewDeltas <- StatesDeltas
  NewGroups = {4}
  InOrder = TRUE
PROPERTIES
  SkipResetsLevels
