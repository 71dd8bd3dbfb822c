CONSTANTS
  tech = tech
  hod = hod
  boss = boss
  p1 = p1
  p2 = p2
  Staff <- MCStaff
  Heads <- MCHeads
  Headquarters = {}
  Managers <- MCManagers
  Masters = {}
  Passes = {p1, p2}
  Nobody = Nobody
  MaxKm = 1
  MaxMore = 1
  MaxRows = 1
SYMMETRY MCSymmetry
SPECIFICATION Spec
INVARIANTS
  LeftOnApproval
  ClosedNeverLeft
  ExtensionsAddUp

  
CHECK_DEADLOCK FALSE
