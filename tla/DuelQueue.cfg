SPECIFICATION FairSpec
CONSTANTS
  a = a
  b = b
  c = c
  Players = {a, b, c}
  Watchers = {b}
  NoPlayer = NoPlayer
  QueueSlots = 1
INVARIANTS TypeOK OnePlaceEach OnlyMembersCalled NobodyForgotten
PROPERTIES NoOvertaking WaiterFightsHere
CHECK_DEADLOCK FALSE
