---------------------------- MODULE MCScheduling ----------------------------
(* A small instance of Scheduling for TLC: an arrangement for the morning  *)
(* and one for the whole day, in the same room for another host.            *)
EXTENDS Scheduling, TLC

CONSTANTS ann, ben, m1, m2, g1, g2, am, pm, host1, host2, room

MCPlans == {
  [day |-> 1, slots |-> {am}, host |-> host1, room |-> room],
  [day |-> 1, slots |-> {am, pm}, host |-> host2, room |-> room]}
MCSymmetry == Permutations({ann, ben}) \cup Permutations({m1, m2}) \cup Permutations({g1, g2})
=============================================================================
