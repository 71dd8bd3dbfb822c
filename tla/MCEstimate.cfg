CONSTANTS
  sup = sup
  tech = tech
  mgr = mgr
  l1 = l1
  l2 = l2
  Staff = {sup, tech, mgr}
  Holders <- MCHolders
  LineIds = {l1, l2}
  Types = {"STORE_PART", "EXTERNAL_PART"}
  Prices = {1}
SPECIFICATION Spec
SYMMETRY Symmetry
INVARIANTS
  StorePartsMatched
PROPERTIES
  ApprovedNeverChanges
CHECK_DEADLOCK FALSE
