CONSTANTS
  ann = ann
  ben = ben
  s1 = s1
  c1 = c1
  c2 = c2
  Staff = {ann, ben}
  Services = {s1}
  Cards = {c1, c2}
  Total = 2
  Deposit = 1
SPECIFICATION FairSpec
INVARIANTS
  HandedOverOnce
  NothingOrphaned
  LeavesSettled
PROPERTIES
  HandoverCompletes
  EscalationNeverSticks
CHECK_DEADLOCK FALSE
