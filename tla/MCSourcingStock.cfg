CONSTANTS
  a = a
  b = b
  c = c
  j1 = j1
  j2 = j2
  filter = filter
  Staff = {a, b, c}
  Holders <- MCStoreHolders
  Jobs = {j1, j2}
  Parts = {filter}
  Need <- MCNeed
  Cost <- MCCost
  SlipIds = {s1, s2, s3}
  PurchaseIds = {}
  ExtraIds = {}
  ExtraAmounts = {1}
  Deliveries = {1, 2}
  MaxOnHand = 3
SPECIFICATION Spec
SYMMETRY StockSymmetry
INVARIANTS
  TypeOK
  ReservedForApproved
  NeverOversold
  FinishedHoldsNoStock
CHECK_DEADLOCK FALSE
