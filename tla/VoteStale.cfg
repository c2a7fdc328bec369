SPECIFICATION Spec
CONSTANTS
  a = a
  b = b
  c = c
  Players = {a, b}
  Admins = {}
  Texts <- NamedOnly
  MaxMotions = 1
  MaxLost = 1
  MaxInside = 2
  MaxBox = 1
INVARIANT MessageDuringVote
CHECK_DEADLOCK FALSE
