----------------------------- MODULE MCJobCard -----------------------------
(* A small instance of JobCard for TLC.                                     *)
EXTENDS JobCard, FiniteSetsExt, TLC

CONSTANTS sup, mgr, parts_line, labour_line, f1, f2, r1, g1

\* sup opened the job at the front desk, supervises it and works on it; both
\* are managers, so that each can decide what the other asked for.
MCHolders ==
  [r \in Roles |-> CASE r \in {"creator", "frontDesk", "supervisor", "technician"} -> {sup}
                     [] r = "manager"                                              -> {sup, mgr}
                     [] r \in {"finance", "store"}                                 -> {mgr}
                     [] OTHER                                                      -> {}]

Price(l) == IF l = parts_line THEN 6 ELSE 4
MCLineTotal == [S \in SUBSET Lines |-> MapThenSumSet(Price, S)]

Symmetry == Permutations(Forms) \cup Permutations(Requests)
=============================================================================
