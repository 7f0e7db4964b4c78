SPECIFICATION FairSpec
CONSTANTS
  w1 = w1
  w2 = w2
  deposit = deposit
  spa = spa
  Recovery = w1
  Handlers = {w2}
  CrmRows = {deposit}
  PmsRows = {spa}
INVARIANTS EachRowOnce
PROPERTIES RowsReachBoth
CHECK_DEADLOCK FALSE
