SPECIFICATION FairSpec
CONSTANTS
  a = a
  b = b
  c = c
  Players = {a, b, c}
  Admins = {c}
  Texts <- NamedOnly
  MaxMotions = 1
  MaxLost = 0
  MaxInside = 2
  MaxBox = 0
INVARIANT TypeOK
PROPERTIES StaleByDroppedResult TargetGone AskingEnds
CHECK_DEADLOCK FALSE
