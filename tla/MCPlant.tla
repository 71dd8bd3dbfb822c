------------------------------ MODULE MCPlant ------------------------------
(* Three people, two inspection rows of one vehicle, a checklist of one item.*)
EXTENDS Plant, TLC

CONSTANTS ann, ben, cy, p1, p2, horn

Symmetry == Permutations(People) \cup Permutations(Pdis)
=============================================================================
