SPECIFICATION Spec
CONSTANTS
  a = a
  b = b
  c = c
  s = s
  t = t
  Players = {a, b, c}
  Stages = {s, t}
  Admins = {a}
  Hidden = {a}
  EventMasters = {}
  NoPlayer = NoPlayer
  NoStage = NoStage
  Capacities = {1, 2}
  DefaultMax = 2
  MaxInbox = 5
SYMMETRY Ordinary
CONSTRAINT AdminsRoam
INVARIANT TypeOK
PROPERTIES MiscountedOnlyOnReentry CapacityRespected MasterKeepsStage
CHECK_DEADLOCK FALSE
