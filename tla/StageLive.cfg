SPECIFICATION FairSpec
CONSTANTS
  a = a
  b = b
  c = c
  s = s
  t = t
  Players = {a, b}
  Stages = {s}
  Admins = {a}
  Hidden = {}
  EventMasters = {a}
  NoPlayer = NoPlayer
  NoStage = NoStage
  Capacities = {1, 2}
  DefaultMax = 2
  MaxInbox = 4
PROPERTY LaunchedEnters
CHECK_DEADLOCK FALSE
