CONSTANTS
  a = a
  b = b
  c = c
  j1 = j1
  j2 = j2
  filter = filter
  Staff = {a, b, c}
  Holders <- MCHolders
  Jobs = {j1}
  Parts = {filter}
  Need <- MCNeed
  Cost <- MCCost
  SlipIds = {}
  PurchaseIds = {e1}
  ExtraIds = {}
  ExtraAmounts = {1}
  Deliveries = {1, 2}
  MaxOnHand = 3
SPECIFICATION Spec
SYMMETRY Symmetry
PROPERTIES
  NothingPaidForFinished
CHECK_DEADLOCK FALSE
