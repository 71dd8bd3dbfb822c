CONSTANTS
  ann = ann
  ben = ben
  m1 = m1
  m2 = m2
  g1 = g1
  g2 = g2
  am = am
  pm = pm
  host1 = host1
  host2 = host2
  room = room
  Staff = {ann, ben}
  Meetings = {m1, m2}
  Visits = {g1, g2}
  Plans <- MCPlans
  NoRoom = NoRoom
  NoMeeting = NoMeeting
  LastDay = 1
SYMMETRY MCSymmetry
SPECIFICATION Spec
INVARIANTS
  NoDoubleBooking
  LastOutCompletes
PROPERTIES
  PresentVisitorsKept
CHECK_DEADLOCK FALSE
