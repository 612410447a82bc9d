SPECIFICATION FairSpec
CONSTANTS
  e1 = e1
  k1 = k1
  k2 = k2
  k3 = k3
  r1 = r1
  r2 = r2
  Keys = {k1, k2}
  Events = {e1}
  NoEvent = NoEvent
  NoGroup = NoGroup
  MaxGroup = 5
  Rooms = {r1, r2}
  Databases <- ProgressDatabases
  Arguments <- ProgressArguments
  NewDeltas <- StatesDeltas
  NewGroups = {4, 5}
  InOrder = TRUE
INVARIANTS
  NoGroupIsPassed
  ChunkIsWhole
  AlwaysFindsWork
PROPERTIES
  ProgressGrows
  EventuallyCompressed
