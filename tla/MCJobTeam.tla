----------------------------- MODULE MCJobTeam -----------------------------
(* A small instance of JobTeam for TLC.                                     *)
EXTENDS JobTeam, TLC

CONSTANTS ada, bola, chi, admin

Symmetry == Permutations({bola, chi})
=============================================================================
