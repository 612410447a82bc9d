SPECIFICATION FairSpec
CONSTANTS
  e1 = e1
  k1 = k1
  k2 = k2
  r1 = r1
  Keys = {k1, k2}
  Events = {e1}
  NoEvent = NoEvent
  NoGroup = NoGroup
  MaxGroup = 4
  Rooms = {r1}
  Databases <- StatesDatabases
  Configs <- StatesConfigs
  NewDeltas <- StatesDeltas
  NewGroups = {4}
INVARIANTS
  TypeOK
  StatesAreKept
  EdgesLeadBack
  RewritesStayInRange
PROPERTIES
  ApplyingAgainRepairs
  RunEnds
