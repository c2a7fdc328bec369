SPECIFICATION Spec
CONSTANTS
  a = a
  b = b
  c = c
  Players = {a, b, c}
  Admins = {}
  Texts <- AllTexts
  MaxMotions = 2
  MaxLost = 1
  MaxInside = 3
  MaxBox = 0
PROPERTY TwoThirdsAgree
CHECK_DEADLOCK FALSE
