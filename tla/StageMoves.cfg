SPECIFICATION Spec
CONSTANTS
  a = a
  b = b
  c = c
  s = s
  t = t
  Players = {a, b}
  Stages = {s, t}
  Admins = {}
  Hidden = {}
  EventMasters = {}
  NoPlayer = NoPlayer
  NoStage = NoStage
  Capacities = {2}
  DefaultMax = 2
  MaxInbox = 4
SYMMETRY Alike
CONSTRAINT OneGame
INVARIANTS NamedStageLists MasterIsMember BannedStayOut
PROPERTIES StrayedBetweenStages RemovedOnlyEmpty
CHECK_DEADLOCK FALSE
