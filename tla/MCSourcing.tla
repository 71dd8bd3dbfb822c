----------------------------- MODULE MCSourcing -----------------------------
(* A small instance of Sourcing for TLC.                                    *)
EXTENDS Sourcing, TLC

CONSTANTS a, b, c, j1, j2, filter

\* Everybody may be everything, so that only the rules on separation of duties
\* keep people apart.
MCHolders == [r \in Roles |-> Staff]

\* In the runs about stock, three people with a part each and one who
\* holds two.
MCStoreHolders ==
  [r \in Roles |-> CASE r = "workshop" -> {a}
                     [] r = "manager"  -> {a, b}
                     [] r = "store"    -> {b, c}
                     [] OTHER          -> {}]

MCNeed == [j \in Jobs |-> [p \in Parts |-> 2]]
MCCost == [j \in Jobs |-> 5]

Symmetry == Permutations(Staff) \cup Permutations(PurchaseIds)
StockSymmetry == Permutations(SlipIds) \cup Permutations(Jobs)
=============================================================================
