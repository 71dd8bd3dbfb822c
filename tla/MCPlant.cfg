CONSTANTS
  ann = ann
  ben = ben
  cy = cy
  p1 = p1
  p2 = p2
  horn = horn
  People = {ann, ben, cy}
  Pdis = {p1, p2}
  Items = {horn}
  Optional = {}
SPECIFICATION Spec
SYMMETRY Symmetry
INVARIANTS
  
  NothingUnanswered
PROPERTIES
  PassedIsFinal
CHECK_DEADLOCK FALSE
