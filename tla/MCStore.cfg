CONSTANTS
  ann = ann
  ben = ben
  f1 = f1
  f2 = f2
  p1 = p1
  p2 = p2
  x1 = x1
  x2 = x2
  x3 = x3
  Staff = {ann, ben}
  Forms = {f1, f2}
  Slips = {p1, p2}
  Serials = {x1, x2, x3}
  MaxQty = 2
SPECIFICATION StoreSpec
INVARIANTS
  StoreTypeOK
  
  ReleasesAreTraced
PROPERTIES
  OldestFirst
CHECK_DEADLOCK FALSE
