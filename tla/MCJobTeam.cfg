CONSTANTS
  ada = ada
  bola = bola
  chi = chi
  admin = admin
  Staff = {ada, bola, chi, admin}
  Creator = ada
  Admins = {admin}
  Eligible = {bola, chi}
  Hands = {bola, chi}
SPECIFICATION TeamSpec
SYMMETRY Symmetry
INVARIANTS
  ApprovedByItsSupervisor
PROPERTIES
  FinishedTakesNobody
CHECK_DEADLOCK FALSE
