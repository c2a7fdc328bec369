SPECIFICATION FairSpec
CONSTANTS
  w1 = w1
  w2 = w2
  MaxConns = 2
  Workers = {w1, w2}
  StartBP = 1
  Price = 2
  Value = 1
  Debug = {FALSE, TRUE}
  MaxEarned = 1
  MaxItems = 1
  MaxLoads = 2
INVARIANTS TypeOK NoGhost UsurperWaits Conserved Solvent
PROPERTY Settles
CHECK_DEADLOCK FALSE
