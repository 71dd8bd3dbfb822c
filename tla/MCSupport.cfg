CONSTANTS
  a1 = a1
  r1 = r1
  r2 = r2
  Agents = {a1}
  Runs = {r1, r2}
  Patience = 3
  MaxActs = 1
  MaxWrites = 1
  MaxCrashes = 1
SPECIFICATION FairSpec

  
PROPERTIES
  ReopenedStaysOpen
  NothingLingers
  EnyoLetsGo
CHECK_DEADLOCK FALSE
