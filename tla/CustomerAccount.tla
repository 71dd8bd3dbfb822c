-------------------------- MODULE CustomerAccount --------------------------
(***************************************************************************)
(* What the workshop promises a customer about one job, whatever happens   *)
(* inside: money is taken only while the job is open, never more is given  *)
(* back than was taken, a job ends exactly one way, and a vehicle whose    *)
(* job was cancelled is handed back only once all the money is.            *)
(***************************************************************************)
EXTENDS Integers

VARIABLES
  phase,       \* "open", "closed", "cancelled" or "returned"
  taken,       \* money received
  givenBack    \* money refunded

Init ==
  /\ phase = "open"
  /\ taken = 0
  /\ givenBack = 0

Take ==
  /\ phase = "open"
  /\ taken' \in Nat /\ taken' > taken
  /\ UNCHANGED <<phase, givenBack>>

GiveBack ==
  /\ givenBack' \in Nat /\ givenBack' > givenBack /\ givenBack' <= taken
  /\ UNCHANGED <<phase, taken>>

End ==
  /\ phase = "open"
  /\ phase' \in {"closed", "cancelled"}
  /\ UNCHANGED <<taken, givenBack>>

ReturnVehicle ==
  /\ phase \in {"closed", "cancelled"}
  /\ phase = "cancelled" => taken = givenBack
  /\ phase' = "returned"
  /\ UNCHANGED <<taken, givenBack>>

Next == Take \/ GiveBack \/ End \/ ReturnVehicle

Spec == Init /\ [][Next]_<<phase, taken, givenBack>>
=============================================================================
