SPECIFICATION Spec
CONSTANTS
  a = a
  b = b
  c = c
  Players = {a, b, c}
  Watchers = {}
  NoPlayer = NoPlayer
  QueueSlots = 1
PROPERTY QueueInfoFits
CHECK_DEADLOCK FALSE
