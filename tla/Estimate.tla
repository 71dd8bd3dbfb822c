------------------------------ MODULE Estimate ------------------------------
(***************************************************************************)
(* The estimate of one Job Card: its lines, the Store's matching of parts  *)
(* to them, and its way from draft to the customer.                        *)
(*                                                                         *)
(* Every change of a line re-claims the estimate in the stage the editor   *)
(* saw (withEstimateUnchanged); everything else the editor saw may be old  *)
(* by then.  A change is therefore a Read step, which leaves what was      *)
(* decided in doing[u], and a Save step.  Submission decides everything    *)
(* inside the claim and is one step.                                       *)
(***************************************************************************)
EXTENDS Desk, Integers

CONSTANTS
  Holders,    \* role -> who holds it on this Job Card ("admin": Master Admin)
  LineIds,    \* identities of lines
  Types,      \* line types in use
  Prices      \* unit prices

Roles == {"creator", "supervisor", "technician", "manager", "store", "admin"}
AllTypes == {"STORE_PART", "EXTERNAL_PART", "EXTERNAL_JOB", "INTERNAL_JOB", "LABOUR", "SUNDRY"}
NoPrice == 0   \* unitPrice null

ASSUME HoldersAssumption == Holders \in [Roles -> SUBSET Staff]
ASSUME TypesAssumption   == Types \subseteq AllTypes
ASSUME PricesAssumption  == Prices \subseteq Nat \ {NoPrice}

Stages == {"NONE", "DRAFT", "SUBMITTED", "APPROVED", "MANAGER_APPROVED"}
Open   == {"DRAFT", "SUBMITTED"}

VARIABLES
  jobApproved,   \* JobCard.approvalStatus is APPROVED
  stage,         \* Estimate.status, "NONE" before the first line
  lines,         \* EstimateLineItem rows
  approvedBy,    \* Estimate.approvedById
  notified,      \* Estimate.customerNotifiedAt is set
  sellingPrice   \* Part.sellingPrice of the part Store matches

vars == <<jobApproved, stage, lines, approvedBy, notified, sellingPrice, doing>>

NoLine == [type |-> "none"]

Rows      == [type : Types, price : Prices \cup {NoPrice}, matched : BOOLEAN, by : Staff]
LineRows  == Rows \cup {NoLine}

Additions == [op : {"add"}, type : Types, price : Prices \cup {NoPrice}]
Changes   == [op : {"edit", "match"}, line : LineIds, price : Prices \cup {NoPrice}, seen : Open]
Deletions == [op : {"delete"}, line : LineIds, seen : Open]
Approvals == [op : {"approve", "finalApprove"}]
Requests  == {Idle} \cup Additions \cup Changes \cup Deletions \cup Approvals

TypeOK ==
  /\ jobApproved \in BOOLEAN
  /\ stage \in Stages
  /\ lines \in [LineIds -> LineRows]
  /\ approvedBy \in Staff \cup {Nobody}
  /\ notified \in BOOLEAN
  /\ sellingPrice \in Prices \cup {NoPrice}
  /\ doing \in [Staff -> Requests]

Init ==
  /\ jobApproved = FALSE
  /\ stage = "NONE"
  /\ lines = [l \in LineIds |-> NoLine]
  /\ approvedBy = Nobody
  /\ notified = FALSE
  /\ sellingPrice = NoPrice
  /\ doing = [u \in Staff |-> Idle]

-----------------------------------------------------------------------------
Present == {l \in LineIds : lines[l] # NoLine}
Of(t)   == {l \in Present : lines[l].type = t}
Supervisors  == Holders["supervisor"] \cup Holders["admin"]
Contributors == Supervisors \cup Holders["technician"]

\* requirePricingAuthority: a technician prices only what was sourced outside.
\* A Store part's price is never typed in, by anyone.
MayPrice(u, t) ==
  /\ t # "STORE_PART"
  /\ u \in Supervisors \/ t \in {"EXTERNAL_PART", "EXTERNAL_JOB"}


\* withEstimateUnchanged: the claim every saved line change starts with.
\*
\* Fault: the change is saved whatever stage the estimate has reached.
ClaimsNothing(seen) == stage \in Stages
StillIn(seen) == stage = seen

-----------------------------------------------------------------------------
(***************************************************************************)
(* Lines                                                                   *)
(***************************************************************************)
\* addEstimateLineItem up to the claim; the first one creates the estimate.
\* The cap of one Sundry line is decided here.
ReadForAdd(u, t, p) ==
  /\ jobApproved
  /\ u \in Contributors
  /\ stage \in {"NONE", "DRAFT"}
  /\ t = "SUNDRY" => Of("SUNDRY") = {}
  /\ p # NoPrice => MayPrice(u, t)
  /\ Start(u, [op |-> "add", type |-> t, price |-> p])
  /\ stage' = "DRAFT"
  /\ UNCHANGED <<jobApproved, lines, approvedBy, notified, sellingPrice>>

\* A line's identity is new: no row and no request in flight refers to it.
InUse(l) == \E u \in Staff : doing[u].op \in {"edit", "match", "delete"} /\ doing[u].line = l

SaveAdd(u, l) ==
  /\ doing[u].op = "add"
  /\ StillIn("DRAFT")
  /\ l \notin Present /\ ~InUse(l)
  /\ lines' = [lines EXCEPT ![l] =
       [type |-> doing[u].type, price |-> doing[u].price, matched |-> FALSE, by |-> u]]
  /\ Done(u)
  /\ UNCHANGED <<jobApproved, stage, approvedBy, notified, sellingPrice>>

\* updateEstimateLineItem: a price left blank clears the price, whatever the
\* stage; a matched Store part takes the part's price as it is now.
ReadForEdit(u, l, p) ==
  /\ l \in Present
  /\ stage \in Open
  /\ u \in Contributors
  /\ p # NoPrice => MayPrice(u, lines[l].type)
  /\ lines[l].matched => sellingPrice # NoPrice
  /\ Start(u, [op |-> "edit", line |-> l, seen |-> stage,
               price |-> IF lines[l].matched THEN sellingPrice ELSE p])
  /\ UNCHANGED <<jobApproved, stage, lines, approvedBy, notified, sellingPrice>>

SaveEdit(u) ==
  /\ doing[u].op = "edit"
  /\ StillIn(doing[u].seen)
  /\ doing[u].line \in Present
  /\ lines' = [lines EXCEPT ![doing[u].line].price = doing[u].price]
  /\ Done(u)
  /\ UNCHANGED <<jobApproved, stage, approvedBy, notified, sellingPrice>>

\* deleteEstimateLineItem: by whoever entered the line or the supervisor.
ReadForDelete(u, l) ==
  /\ l \in Present
  /\ stage \in Open
  /\ lines[l].by = u \/ u \in Supervisors
  /\ Start(u, [op |-> "delete", line |-> l, seen |-> stage])
  /\ UNCHANGED <<jobApproved, stage, lines, approvedBy, notified, sellingPrice>>

SaveDelete(u) ==
  /\ doing[u].op = "delete"
  /\ StillIn(doing[u].seen)
  /\ doing[u].line \in Present
  /\ lines' = [lines EXCEPT ![doing[u].line] = NoLine]
  /\ Done(u)
  /\ UNCHANGED <<jobApproved, stage, approvedBy, notified, sellingPrice>>

-----------------------------------------------------------------------------
(***************************************************************************)
(* Store                                                                   *)
(***************************************************************************)
\* setPartSellingPrice.
SetSellingPrice(u, p) ==
  /\ u \in Holders["store"]
  /\ sellingPrice' = p
  /\ UNCHANGED <<jobApproved, stage, lines, approvedBy, notified, doing>>

\* matchEstimateStorePartLine: the price is the one read before the claim.
ReadForMatch(u, l) ==
  /\ u \in Holders["store"]
  /\ l \in Of("STORE_PART")
  /\ stage \in Open
  /\ sellingPrice # NoPrice
  /\ Start(u, [op |-> "match", line |-> l, price |-> sellingPrice, seen |-> stage])
  /\ UNCHANGED <<jobApproved, stage, lines, approvedBy, notified, sellingPrice>>

SaveMatch(u) ==
  /\ doing[u].op = "match"
  /\ StillIn(doing[u].seen)
  /\ doing[u].line \in Present
  /\ lines' = [lines EXCEPT ![doing[u].line].price = doing[u].price,
                            ![doing[u].line].matched = TRUE]
  /\ Done(u)
  /\ UNCHANGED <<jobApproved, stage, approvedBy, notified, sellingPrice>>

-----------------------------------------------------------------------------
(***************************************************************************)
(* Stages                                                                  *)
(***************************************************************************)
\* The lines as submission leaves them: a matched part at its current price.
Repriced ==
  [l \in LineIds |-> IF l \in Present /\ lines[l].matched /\ sellingPrice # NoPrice
                       THEN [lines[l] EXCEPT !.price = sellingPrice] ELSE lines[l]]

\* submitEstimateForValidation.
\*
\* Fault: a part Store has not matched yet is waved through.
MatchedPriced(rows) == \A l \in Present : rows[l].price # NoPrice \/ ~rows[l].matched
AllPriced(rows) == \A l \in Present : rows[l].price # NoPrice

Submit(u) ==
  /\ u \in Contributors
  /\ stage = "DRAFT"
  /\ Present # {}
  /\ AllPriced(Repriced)
  /\ lines' = Repriced
  /\ stage' = "SUBMITTED"
  /\ UNCHANGED <<jobApproved, approvedBy, notified, sellingPrice, doing>>

\* approveEstimate: the matching of the parts is looked at before the claim.
ReadForApproval(u) ==
  /\ u \in Supervisors
  /\ stage = "SUBMITTED"
  /\ \A l \in Of("STORE_PART") : lines[l].matched
  /\ Start(u, [op |-> "approve"])
  /\ UNCHANGED <<jobApproved, stage, lines, approvedBy, notified, sellingPrice>>

SaveApproval(u) ==
  /\ doing[u].op = "approve"
  /\ stage = "SUBMITTED"
  /\ stage' = "APPROVED"
  /\ approvedBy' = u
  /\ Done(u)
  /\ UNCHANGED <<jobApproved, lines, notified, sellingPrice>>

\* approveEstimateAsManager: by someone other than the supervisor who approved.
ReadForFinalApproval(u) ==
  /\ u \in Holders["manager"]
  /\ stage = "APPROVED"
  /\ approvedBy # u \/ u \in Holders["admin"]
  /\ Start(u, [op |-> "finalApprove"])
  /\ UNCHANGED <<jobApproved, stage, lines, approvedBy, notified, sellingPrice>>

SaveFinalApproval(u) ==
  /\ doing[u].op = "finalApprove"
  /\ stage = "APPROVED"
  /\ stage' = "MANAGER_APPROVED"
  /\ Done(u)
  /\ UNCHANGED <<jobApproved, lines, approvedBy, notified, sellingPrice>>

\* returnEstimateForChanges.
ReturnForChanges(u) ==
  /\ u \in Holders["manager"]
  /\ stage = "APPROVED"
  /\ stage' = "SUBMITTED"
  /\ approvedBy' = Nobody
  /\ UNCHANGED <<jobApproved, lines, notified, sellingPrice, doing>>

\* notifyCustomerOfApprovedEstimate, as far as the estimate is concerned.
NotifyCustomer(u) ==
  /\ u \in Holders["creator"] \cup Holders["admin"]
  /\ stage = "MANAGER_APPROVED"
  /\ ~notified
  /\ notified' = TRUE
  /\ UNCHANGED <<jobApproved, stage, lines, approvedBy, sellingPrice, doing>>

\* approveJobCard, rejectJobCard, and reassignSupervisor, which asks for
\* approval again.  JobTeam models them; here only their outcome counts.
DecideOnJob(u) ==
  /\ \/ u \in Supervisors /\ jobApproved' \in BOOLEAN
     \/ u \in Holders["creator"] /\ jobApproved' = FALSE
  /\ UNCHANGED <<stage, lines, approvedBy, notified, sellingPrice, doing>>

\* The claim failed, a check refused or the process died.
GiveUp(u) ==
  /\ doing[u] # Idle
  /\ Done(u)
  /\ UNCHANGED <<jobApproved, stage, lines, approvedBy, notified, sellingPrice>>

-----------------------------------------------------------------------------
LineStep(u) ==
  \/ \E t \in Types, p \in Prices \cup {NoPrice} : ReadForAdd(u, t, p)
  \/ \E l \in LineIds :
       \/ SaveAdd(u, l)
       \/ \E p \in Prices \cup {NoPrice} : ReadForEdit(u, l, p)
       \/ ReadForDelete(u, l)
       \/ ReadForMatch(u, l)
  \/ SaveEdit(u)
  \/ SaveDelete(u)
  \/ SaveMatch(u)
  \/ \E p \in Prices : SetSellingPrice(u, p)

StageStep(u) ==
  \/ Submit(u)
  \/ ReadForApproval(u)
  \/ SaveApproval(u)
  \/ ReadForFinalApproval(u)
  \/ SaveFinalApproval(u)
  \/ ReturnForChanges(u)
  \/ NotifyCustomer(u)
  \/ DecideOnJob(u)

Next == \E u \in Staff : LineStep(u) \/ StageStep(u) \/ GiveUp(u)

Spec == Init /\ [][Next]_vars

-----------------------------------------------------------------------------
(***************************************************************************)
(* What must hold of an estimate                                           *)
(***************************************************************************)
\* withEstimateUnchanged: "an approved estimate never changes underneath",
\* whatever edits, matches and deletions were under way when it was approved.
ApprovedNeverChanges ==
  [][(stage \in {"APPROVED", "MANAGER_APPROVED"}) => lines' = lines]_vars

\* submitEstimateForValidation and approveEstimate: past the draft every Store
\* part is one the Store chose, though approval looks at the lines before it
\* claims the estimate.
StorePartsMatched ==
  stage \in {"SUBMITTED", "APPROVED", "MANAGER_APPROVED"} =>
    \A l \in Of("STORE_PART") : lines[l].matched

\* addEstimateLineItem, updateEstimateLineItem: a price on a Store part came
\* from the Store's matching, never from an editor.
StorePartPricedByStore == \A l \in Of("STORE_PART") : lines[l].price # NoPrice => lines[l].matched

=============================================================================
