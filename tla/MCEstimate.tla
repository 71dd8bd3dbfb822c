----------------------------- MODULE MCEstimate -----------------------------
(* A small instance of Estimate for TLC.                                    *)
EXTENDS Estimate, TLC

CONSTANTS sup, tech, mgr, l1, l2

\* mgr also matches parts for the Store; sup is a manager too, who may not
\* give the final approval to what he approved himself.
MCHolders ==
  [r \in Roles |-> CASE r \in {"creator", "technician"} -> {tech}
                     [] r = "supervisor"                -> {sup}
                     [] r = "manager"                   -> {sup, mgr}
                     [] r = "store"                     -> {mgr}
                     [] OTHER                           -> {}]

Symmetry == Permutations(LineIds)
=============================================================================
