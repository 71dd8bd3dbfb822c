----------------------------- MODULE MCGatePass -----------------------------
\* Instance of GatePass: a technician, a head of department and the Manager;
\* two passes. The technician and the head never draw level in rank, so no
\* two people are interchangeable; the passes are.
EXTENDS GatePass, TLC

CONSTANTS tech, hod, boss, p1, p2

MCStaff    == {tech, hod, boss}
MCHeads    == {hod}
MCManagers == {boss}
MCSymmetry == Permutations({p1, p2})
=============================================================================
