------------------------------ MODULE Sourcing ------------------------------
(***************************************************************************)
(* Parts requests (slips) and outside purchases raised for Job Cards, the  *)
(* stock they reserve and draw, and what finishing a Job Card withdraws.   *)
(*                                                                         *)
(* Store approval and release lock the slip, then read the job, then lock  *)
(* the stock; finishing a job locks the job, then its slips, then the      *)
(* stock.  Whichever gets the slip first is entirely first, so each of     *)
(* the two is one step.  Outside purchases are not locked: finishing reads *)
(* their stages (StartFinish) and withdraws each one that is still in the  *)
(* stage read when it commits (CommitFinish), and the steps of a purchase  *)
(* read the job before they claim the purchase.                            *)
(***************************************************************************)
EXTENDS Desk, Integers, FiniteSetsExt, Functions

CONSTANTS
  Holders,      \* role -> the staff who hold it
  Jobs,         \* Job Cards with an approved estimate
  Parts,        \* catalogue parts
  Need,         \* job -> part -> units its matched Store lines ask for
  Cost,         \* job -> sum of its priced outside lines
  SlipIds,      \* rows for parts requests
  PurchaseIds,  \* rows for outside purchases
  ExtraIds,     \* rows for the lines Finance adds to a purchase
  ExtraAmounts, \* their amounts
  Deliveries,   \* units a delivery may bring
  MaxOnHand     \* bound on the units in stock

Roles == {"workshop", "manager", "store", "finance"}

ASSUME HoldersAssumption == Holders \in [Roles -> SUBSET Staff]
ASSUME NeedAssumption    == Need \in [Jobs -> [Parts -> Nat]]
ASSUME CostAssumption    == Cost \in [Jobs -> Nat]
ASSUME AmountsAssumption == /\ ExtraAmounts \subseteq Nat \ {0}
                            /\ Deliveries \subseteq Nat \ {0}
                            /\ MaxOnHand \in Nat
ASSUME RowsAssumption    == IsFiniteSet(SlipIds) /\ IsFiniteSet(ExtraIds)

SlipStages     == {"PENDING_HOD_APPROVAL", "PENDING_STORE_APPROVAL", "APPROVED", "RELEASED", "REJECTED"}
PurchaseStages == {"PENDING_FINANCE_REVIEW", "PENDING_MANAGER_APPROVAL", "APPROVED", "DISBURSED", "REJECTED"}

VARIABLES
  job,        \* "SOURCEABLE", "PAST" (ready for collection) or "FINISHED"
  finishing,  \* jobs being closed or cancelled, whose row is locked
  seen,       \* stages their purchases had when that began
  slips,      \* PartRequestSlip rows
  purchases,  \* ExternalProcurementRequest rows
  extras,     \* purchase -> amounts of its supplementary lines (0: no such line)
  onHand,     \* PartStock.quantityOnHand
  reserved    \* PartStock.quantityReserved

jobs  == <<job, finishing, seen>>
stock == <<onHand, reserved>>
vars  == <<jobs, slips, purchases, extras, stock, doing>>

None == [state |-> "none"]
NotSeen == "not seen"

\* By keeps who did what on a request; their sets stay apart by the rules on
\* separation of duties.
SlipRows == {None} \cup
  [state : SlipStages, job : Jobs, by : Staff, hod : SUBSET Staff, storeMan : SUBSET Staff]
PurchaseRows == {None} \cup
  [state : PurchaseStages, job : Jobs, by : Staff, reviewer : SUBSET Staff,
   approver : SUBSET Staff, payer : SUBSET Staff, total : Nat]
InFlight ==
  {Idle}
  \cup [op : {"slip", "purchase"}, job : Jobs]
  \cup [op : {"hod"}, slip : SlipIds]
  \cup [op : {"approve"}, purchase : PurchaseIds, total : Nat]
  \cup [op : {"disburse"}, purchase : PurchaseIds]
  \cup [op : {"extra"}, purchase : PurchaseIds, line : ExtraIds, new : BOOLEAN, amount : Nat]

TypeOK ==
  /\ job \in [Jobs -> {"SOURCEABLE", "PAST", "FINISHED"}]
  /\ finishing \in SUBSET Jobs
  /\ seen \in [PurchaseIds -> PurchaseStages \cup {NotSeen}]
  /\ slips \in [SlipIds -> SlipRows]
  /\ purchases \in [PurchaseIds -> PurchaseRows]
  /\ extras \in [PurchaseIds -> [ExtraIds -> Nat]]
  /\ onHand \in [Parts -> Nat]
  /\ reserved \in [Parts -> Nat]
  /\ doing \in [Staff -> InFlight]

Init ==
  /\ job = [j \in Jobs |-> "SOURCEABLE"]
  /\ finishing = {}
  /\ seen = [e \in PurchaseIds |-> NotSeen]
  /\ slips = [s \in SlipIds |-> None]
  /\ purchases = [e \in PurchaseIds |-> None]
  /\ extras = [e \in PurchaseIds |-> [x \in ExtraIds |-> 0]]
  /\ onHand = [p \in Parts |-> 0]
  /\ reserved = [p \in Parts |-> 0]
  /\ doing = [u \in Staff |-> Idle]


\* assertJobStillOpen.
StillOpen(j) == job[j] # "FINISHED"

\* The Job Card row is locked from StartFinish to CommitFinish.
Unlocked(j) == j \notin finishing

Raised(rows, ids)  == {r \in ids : rows[r] # None}
Of(rows, ids, j)   == {r \in Raised(rows, ids) : rows[r].job = j}
In(rows, ids, state) == {r \in Raised(rows, ids) : rows[r].state = state}

-----------------------------------------------------------------------------
(***************************************************************************)
(* Parts requests                                                          *)
(***************************************************************************)
\* requestPartRequestSlip: the Job Card's stage is read before its lock, the
\* lines no other request covers under it.
ReadForSlip(u, j) ==
  /\ u \in Holders["workshop"]
  /\ job[j] = "SOURCEABLE"
  /\ Start(u, [op |-> "slip", job |-> j])
  /\ UNCHANGED <<jobs, slips, purchases, extras, stock>>

\* Fault: the lines already covered are not looked up.
AnyTime(rows, ids, j) == TRUE
NothingActive(rows, ids, j) == \A r \in Of(rows, ids, j) : rows[r].state = "REJECTED"

SaveSlip(u, s) ==
  /\ doing[u].op = "slip"
  /\ slips[s] = None
  /\ Unlocked(doing[u].job)
  /\ NothingActive(slips, SlipIds, doing[u].job)
  /\ slips' = [slips EXCEPT ![s] =
       [state |-> "PENDING_HOD_APPROVAL", job |-> doing[u].job, by |-> u, hod |-> {}, storeMan |-> {}]]
  /\ Done(u)
  /\ UNCHANGED <<jobs, purchases, extras, stock>>

\* approvePartRequestSlipByHod: the job is read before the claim.
ReadForHod(u, s) ==
  /\ s \in In(slips, SlipIds, "PENDING_HOD_APPROVAL")
  /\ u \in Holders["manager"] \ {slips[s].by}
  /\ StillOpen(slips[s].job)
  /\ Start(u, [op |-> "hod", slip |-> s])
  /\ UNCHANGED <<jobs, slips, purchases, extras, stock>>

SaveHod(u) ==
  /\ doing[u].op = "hod"
  /\ slips[doing[u].slip].state = "PENDING_HOD_APPROVAL"
  /\ slips' = [slips EXCEPT ![doing[u].slip].state = "PENDING_STORE_APPROVAL",
                            ![doing[u].slip].hod = {u}]
  /\ Done(u)
  /\ UNCHANGED <<jobs, purchases, extras, stock>>

\* Fault: what other requests have reserved is not taken off.
OnTheShelf(p) == onHand[p]
Available(p) == onHand[p] - reserved[p]

\* approvePartRequestSlipByStore reserves the stock.
MayApproveOut(u, s) == u \in Holders["store"] \ ({slips[s].by} \cup slips[s].hod)

ApproveByStore(u, s) ==
  /\ s \in In(slips, SlipIds, "PENDING_STORE_APPROVAL")
  /\ MayApproveOut(u, s)
  /\ StillOpen(slips[s].job)
  /\ \A p \in Parts : Need[slips[s].job][p] > 0 => Available(p) >= Need[slips[s].job][p]
  /\ reserved' = [p \in Parts |-> reserved[p] + Need[slips[s].job][p]]
  /\ slips' = [slips EXCEPT ![s].state = "APPROVED", ![s].storeMan = {u}]
  /\ UNCHANGED <<jobs, purchases, extras, onHand, doing>>

\* releasePartRequestSlip turns the reservation into a reduction of stock.
\*
\* Fault: the units leave the shelf and stay reserved.
StaysReserved(j) == reserved
TakenFromReserve(j) == [p \in Parts |-> reserved[p] - Need[j][p]]

Release(u, s) ==
  /\ s \in In(slips, SlipIds, "APPROVED")
  /\ u \in Holders["store"]
  /\ StillOpen(slips[s].job)
  /\ onHand' = [p \in Parts |-> onHand[p] - Need[slips[s].job][p]]
  /\ reserved' = TakenFromReserve(slips[s].job)
  /\ slips' = [slips EXCEPT ![s].state = "RELEASED"]
  /\ UNCHANGED <<jobs, purchases, extras, doing>>

\* rejectPartRequestSlip: by whoever would approve in the stage it is in.
RejectSlip(u, s) ==
  /\ \/ s \in In(slips, SlipIds, "PENDING_HOD_APPROVAL") /\ u \in Holders["manager"]
     \/ s \in In(slips, SlipIds, "PENDING_STORE_APPROVAL") /\ u \in Holders["store"]
  /\ slips' = [slips EXCEPT ![s].state = "REJECTED"]
  /\ UNCHANGED <<jobs, purchases, extras, stock, doing>>

\* recordGoodsReceipt, as far as stock on hand is concerned.
ReceiveGoods(u, p, n) ==
  /\ u \in Holders["store"]
  /\ onHand[p] + n <= MaxOnHand
  /\ onHand' = [onHand EXCEPT ![p] = @ + n]
  /\ UNCHANGED <<jobs, slips, purchases, extras, reserved, doing>>

-----------------------------------------------------------------------------
(***************************************************************************)
(* Outside purchases                                                       *)
(***************************************************************************)
ReadForPurchase(u, j) ==
  /\ u \in Holders["workshop"]
  /\ job[j] = "SOURCEABLE"
  /\ Start(u, [op |-> "purchase", job |-> j])
  /\ UNCHANGED <<jobs, slips, purchases, extras, stock>>

\* requestExternalProcurementBatch.
SavePurchase(u, e) ==
  /\ doing[u].op = "purchase"
  /\ purchases[e] = None
  /\ Unlocked(doing[u].job)
  /\ NothingActive(purchases, PurchaseIds, doing[u].job)
  /\ purchases' = [purchases EXCEPT ![e] =
       [state |-> "PENDING_FINANCE_REVIEW", job |-> doing[u].job, by |-> u,
        reviewer |-> {}, approver |-> {}, payer |-> {}, total |-> 0]]
  /\ Done(u)
  /\ UNCHANGED <<jobs, slips, extras, stock>>

\* add-, edit- and removeExternalProcurementSupplementaryLine read the stage
\* and write the line without claiming the purchase.  Removing sets 0.
ReadForExtra(u, e, x, n) ==
  /\ e \in In(purchases, PurchaseIds, "PENDING_FINANCE_REVIEW")
  /\ u \in Holders["finance"]
  /\ extras[e][x] # n
  /\ Start(u, [op |-> "extra", purchase |-> e, line |-> x, new |-> extras[e][x] = 0, amount |-> n])
  /\ UNCHANGED <<jobs, slips, purchases, extras, stock>>

SaveExtra(u) ==
  /\ doing[u].op = "extra"
  /\ doing[u].new <=> extras[doing[u].purchase][doing[u].line] = 0
  /\ extras' = [extras EXCEPT ![doing[u].purchase][doing[u].line] = doing[u].amount]
  /\ Done(u)
  /\ UNCHANGED <<jobs, slips, purchases, stock>>

\* sendExternalProcurementToManager.
SendToManager(u, e) ==
  /\ e \in In(purchases, PurchaseIds, "PENDING_FINANCE_REVIEW")
  /\ u \in Holders["finance"] \ {purchases[e].by}
  /\ purchases' = [purchases EXCEPT ![e].state = "PENDING_MANAGER_APPROVAL", ![e].reviewer = {u}]
  /\ UNCHANGED <<jobs, slips, extras, stock, doing>>

FullTotal(e) == Cost[purchases[e].job] + SumFunction(extras[e])

\* approveExternalProcurementRequest: the total is fixed from what was read.
ReadForApproval(u, e) ==
  /\ e \in In(purchases, PurchaseIds, "PENDING_MANAGER_APPROVAL")
  /\ u \in Holders["manager"] \ ({purchases[e].by} \cup purchases[e].reviewer)
  /\ StillOpen(purchases[e].job)
  /\ Start(u, [op |-> "approve", purchase |-> e, total |-> FullTotal(e)])
  /\ UNCHANGED <<jobs, slips, purchases, extras, stock>>

SaveApproval(u) ==
  /\ doing[u].op = "approve"
  /\ purchases[doing[u].purchase].state = "PENDING_MANAGER_APPROVAL"
  /\ purchases' = [purchases EXCEPT ![doing[u].purchase].state = "APPROVED",
                                    ![doing[u].purchase].approver = {u},
                                    ![doing[u].purchase].total = doing[u].total]
  /\ Done(u)
  /\ UNCHANGED <<jobs, slips, extras, stock>>

\* disburseExternalProcurementRequest.
\*
\* Fault: the asker and the approver are not held apart.
AnyCashier(u, e) == u \in Holders["finance"]
MayPayOut(u, e) == u \in Holders["finance"] \ ({purchases[e].by} \cup purchases[e].approver)

ReadForDisbursement(u, e) ==
  /\ e \in In(purchases, PurchaseIds, "APPROVED")
  /\ MayPayOut(u, e)
  /\ StillOpen(purchases[e].job)
  /\ Start(u, [op |-> "disburse", purchase |-> e])
  /\ UNCHANGED <<jobs, slips, purchases, extras, stock>>

\* Fault: the payment is recorded whatever became of the request.
PaidRegardless(e) == purchases[e] # None
StillApproved(e) == purchases[e].state = "APPROVED"

SaveDisbursement(u) ==
  /\ doing[u].op = "disburse"
  /\ StillApproved(doing[u].purchase)
  /\ purchases' = [purchases EXCEPT ![doing[u].purchase].state = "DISBURSED",
                                    ![doing[u].purchase].payer = {u}]
  /\ Done(u)
  /\ UNCHANGED <<jobs, slips, extras, stock>>

\* rejectExternalProcurementRequest.
RejectPurchase(u, e) ==
  /\ \/ e \in In(purchases, PurchaseIds, "PENDING_FINANCE_REVIEW") /\ u \in Holders["finance"]
     \/ e \in In(purchases, PurchaseIds, "PENDING_MANAGER_APPROVAL") /\ u \in Holders["manager"]
  /\ purchases' = [purchases EXCEPT ![e].state = "REJECTED"]
  /\ UNCHANGED <<jobs, slips, extras, stock, doing>>

-----------------------------------------------------------------------------
(***************************************************************************)
(* The Job Card                                                            *)
(***************************************************************************)
\* updateJobCardStatus: ready for collection, and back to rework.
MoveOn(u, j) ==
  /\ u \in Holders["workshop"]
  /\ Unlocked(j)
  /\ StillOpen(j)
  /\ job' = [job EXCEPT ![j] = IF @ = "PAST" THEN "SOURCEABLE" ELSE "PAST"]
  /\ UNCHANGED <<finishing, seen, slips, purchases, extras, stock, doing>>

\* The stages of a job's purchases are noted when its row is locked and
\* forgotten when the transaction ends.
Note(j, stageOf(_)) ==
  seen' = [e \in PurchaseIds |-> IF e \in Of(purchases, PurchaseIds, j) THEN stageOf(e) ELSE seen[e]]
Forget(j) == Note(j, LAMBDA e : NotSeen)

\* approveCloseRequest, approveCancellationRequest: the Job Card is locked.
StartFinish(u, j) ==
  /\ u \in Holders["manager"]
  /\ Unlocked(j)
  /\ StillOpen(j)
  /\ finishing' = finishing \cup {j}
  /\ Note(j, LAMBDA e : purchases[e].state)
  /\ UNCHANGED <<job, slips, purchases, extras, stock, doing>>

\* withdrawOpenSourcing.
\*
\* Fault: requests the store has approved already are passed over.
UnapprovedSlips(j) ==
  {s \in Of(slips, SlipIds, j) : slips[s].state \notin {"APPROVED", "RELEASED", "REJECTED"}}
OpenSlips(j) ==
  {s \in Of(slips, SlipIds, j) : slips[s].state \notin {"RELEASED", "REJECTED"}}
OpenAsSeen(j) ==
  {e \in Of(purchases, PurchaseIds, j) :
     purchases[e].state \notin {"DISBURSED", "REJECTED"} /\ purchases[e].state = seen[e]}

\* Fault: what was reserved for the job is not given back.
KeptInReserve(j) == reserved
GivenBack(j) ==
  LET approved == {s \in OpenSlips(j) : slips[s].state = "APPROVED"}
  IN [p \in Parts |-> LET left == reserved[p] - Cardinality(approved) * Need[j][p]
                      IN IF left < 0 THEN 0 ELSE left]

CommitFinish(j) ==
  /\ ~Unlocked(j)
  /\ job' = [job EXCEPT ![j] = "FINISHED"]
  /\ finishing' = finishing \ {j}
  /\ Forget(j)
  /\ reserved' = GivenBack(j)
  /\ slips' = [s \in SlipIds |->
       IF s \in OpenSlips(j) THEN [slips[s] EXCEPT !.state = "REJECTED"] ELSE slips[s]]
  /\ purchases' = [e \in PurchaseIds |->
       IF e \in OpenAsSeen(j) THEN [purchases[e] EXCEPT !.state = "REJECTED"] ELSE purchases[e]]
  /\ UNCHANGED <<extras, onHand, doing>>

\* The transaction is rolled back.
AbandonFinish(j) ==
  /\ ~Unlocked(j)
  /\ finishing' = finishing \ {j}
  /\ Forget(j)
  /\ UNCHANGED <<job, slips, purchases, extras, stock, doing>>

\* A claim failed, a check under the lock refused, or the process died.
GiveUp(u) ==
  /\ doing[u] # Idle
  /\ Done(u)
  /\ UNCHANGED <<jobs, slips, purchases, extras, stock>>

-----------------------------------------------------------------------------
SlipStep(u) ==
  \/ \E j \in Jobs : ReadForSlip(u, j)
  \/ \E s \in SlipIds : \/ SaveSlip(u, s)
                        \/ ReadForHod(u, s)
                        \/ ApproveByStore(u, s)
                        \/ Release(u, s)
                        \/ RejectSlip(u, s)
  \/ SaveHod(u)
  \/ \E p \in Parts, n \in Deliveries : ReceiveGoods(u, p, n)

PurchaseStep(u) ==
  \/ \E j \in Jobs : ReadForPurchase(u, j)
  \/ \E e \in PurchaseIds : \/ SavePurchase(u, e)
                            \/ \E x \in ExtraIds, n \in ExtraAmounts \cup {0} : ReadForExtra(u, e, x, n)
                            \/ SendToManager(u, e)
                            \/ ReadForApproval(u, e)
                            \/ ReadForDisbursement(u, e)
                            \/ RejectPurchase(u, e)
  \/ SaveExtra(u)
  \/ SaveApproval(u)
  \/ SaveDisbursement(u)

JobStep == \E j \in Jobs :
  \/ \E u \in Staff : MoveOn(u, j) \/ StartFinish(u, j)
  \/ CommitFinish(j)
  \/ AbandonFinish(j)

Next == JobStep \/ \E u \in Staff : SlipStep(u) \/ PurchaseStep(u) \/ GiveUp(u)

Spec == Init /\ [][Next]_vars

-----------------------------------------------------------------------------
(***************************************************************************)
(* What must hold of sourcing                                              *)
(***************************************************************************)
\* approvePartRequestSlipByStore, releasePartRequestSlip and
\* withdrawOpenSourcing: what is reserved of a part is exactly what the
\* approved, not yet released requests ask for.  No path leaks a reservation.
ReservedForApproved ==
  \A p \in Parts :
    reserved[p] = SumFunction([s \in In(slips, SlipIds, "APPROVED") |-> Need[slips[s].job][p]])

\* approvePartRequestSlipByStore: two storekeepers never promise the same
\* units, and a release never takes more than is there.
NeverOversold == \A p \in Parts : 0 <= reserved[p] /\ reserved[p] <= onHand[p]

\* sourcing-lifecycle.ts: a job that is closed or cancelled holds no stock,
\* whichever of the approval and the withdrawal came first.
FinishedHoldsNoStock ==
  \A s \in In(slips, SlipIds, "APPROVED") : job[slips[s].job] # "FINISHED"

\* requestPartRequestSlip, requestExternalProcurementBatch: a double click or
\* two people never raise two live requests for the same lines.
OneLiveRequest ==
  /\ \A s, t \in Raised(slips, SlipIds) :
       slips[s].job = slips[t].job /\ slips[s].state # "REJECTED" /\ slips[t].state # "REJECTED" => s = t
  /\ \A d, e \in Raised(purchases, PurchaseIds) :
       purchases[d].job = purchases[e].job
       /\ purchases[d].state # "REJECTED" /\ purchases[e].state # "REJECTED" => d = e

\* Separation of duties over the whole life of a request: parts leave the
\* store and cash leaves the till only through three different people.
ThreeHands ==
  /\ \A s \in In(slips, SlipIds, "APPROVED") \cup In(slips, SlipIds, "RELEASED") :
       Cardinality({slips[s].by} \cup slips[s].hod \cup slips[s].storeMan) = 3
  /\ \A e \in In(purchases, PurchaseIds, "DISBURSED") :
       Cardinality({purchases[e].by} \cup purchases[e].approver \cup purchases[e].payer) = 3

\* rejectExternalProcurementRequest, withdrawOpenSourcing and
\* disburseExternalProcurementRequest: cash that was paid out stays paid out,
\* and a request that was turned down or withdrawn is never paid.
PaidIsFinal ==
  [][\A e \in Raised(purchases, PurchaseIds) :
       purchases[e].state \in {"DISBURSED", "REJECTED"} => purchases'[e].state = purchases[e].state]_vars

-----------------------------------------------------------------------------
(***************************************************************************)
(* What comments of the repository say and the code does not keep.         *)
(***************************************************************************)

\* sourcing-lifecycle.ts: "once the job is cancelled or finished, nothing more
\* can be approved, released, reserved or paid out for it".
NothingPaidForFinished ==
  [][\A e \in Raised(purchases, PurchaseIds) :
       purchases[e].state # "DISBURSED" /\ purchases'[e].state = "DISBURSED"
         => job[purchases[e].job] # "FINISHED"]_vars
=============================================================================
