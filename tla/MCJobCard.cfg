CONSTANTS
  sup = sup
  mgr = mgr
  parts_line = parts_line
  labour_line = labour_line
  f1 = f1
  f2 = f2
  r1 = r1
  g1 = g1
  Staff = {sup, mgr}
  Holders <- MCHolders
  Lines = {parts_line, labour_line}
  LineTotal <- MCLineTotal
  BillTo = {"CUSTOMER", "WARRANTY"}
  Amounts = {4, 6}
  Forms = {f1, f2}
  Requests = {r1}
  PartsGroups = {g1}
SPECIFICATION Spec
SYMMETRY Symmetry
INVARIANTS
  PaidWithinEstimate
  HandedBackRefunded
  FinishedByOneDecision
  StampsTellTheStatus
PROPERTIES
  WorkStartsOnDeposit
  KeepsAccount
CHECK_DEADLOCK FALSE
