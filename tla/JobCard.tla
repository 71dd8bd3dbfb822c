------------------------------ MODULE JobCard ------------------------------
(***************************************************************************)
(* One workshop Job Card: its status, the money taken and given back on    *)
(* it, who pays for each estimate line, the close and cancellation         *)
(* requests raised on it and the parts still being sourced for it.         *)
(*                                                                         *)
(* Every server action runs concurrently with every other.  An action that *)
(* repeats all of its checks inside its transaction (with the Job Card row *)
(* locked, or as a compare-and-set) is one step here.  An action that      *)
(* decides on what it read BEFORE the transaction is two: the first reads  *)
(* and leaves what it decided in doing[u], the second claims the row.      *)
(* Between the two anything may happen, including the process dying.       *)
(***************************************************************************)
EXTENDS Desk, Integers

CONSTANTS
  Holders,      \* role -> the staff who hold it on this Job Card
  Lines,        \* the lines of its approved estimate
  LineTotal,    \* what a set of lines adds up to (kobo)
  BillTo,       \* who may pay for a line; "CUSTOMER" is one of them
  Amounts,      \* the amounts a cashier may enter
  Forms,        \* idempotency keys of payment and refund forms
  Requests,     \* rows for close and for cancellation requests
  PartsGroups   \* groups of lines a parts or purchase request covers

Roles == {"creator", "frontDesk", "supervisor", "technician", "manager", "finance", "store", "admin"}

ASSUME HoldersAssumption   == Holders \in [Roles -> SUBSET Staff]
ASSUME LineTotalAssumption ==
  /\ LineTotal \in [SUBSET Lines -> Nat]
  /\ \A S, T \in SUBSET Lines : S \subseteq T => LineTotal[S] <= LineTotal[T]
ASSUME BillToAssumption    == "CUSTOMER" \in BillTo
ASSUME AmountsAssumption   == Amounts \subseteq Nat \ {0}

Statuses == {"CHECKED_IN", "AWAITING_CUSTOMER_APPROVAL", "IN_PROGRESS", "AWAITING_PARTS",
             "QUALITY_CHECK", "COMPLETED", "READY_FOR_COLLECTION", "CLOSED",
             "CHECKED_OUT", "CANCELLED"}
Finished == {"CANCELLED", "CLOSED", "CHECKED_OUT"}
Payable  == {"AWAITING_CUSTOMER_APPROVAL", "IN_PROGRESS", "AWAITING_PARTS",
             "QUALITY_CHECK", "COMPLETED", "READY_FOR_COLLECTION"}
Sourceable == {"IN_PROGRESS", "AWAITING_PARTS", "QUALITY_CHECK", "COMPLETED"}
Stamps   == {"workStartedAt", "completedAt", "readyForCollectionAt", "closedAt", "checkedOutAt"}

VARIABLES
  status,       \* JobCard.status
  stamps,       \* which of its timestamps are set
  notified,     \* Estimate.customerNotifiedAt is set
  billTo,       \* EstimateLineItem.billTo of every line
  paid,         \* sum of Payment.amount
  refunded,     \* sum of Refund.amount
  paidForms,    \* idempotency keys of the payments recorded
  refundForms,  \* idempotency keys of the refunds recorded
  closes,       \* CloseRequest rows
  cancels,      \* CancellationRequest rows
  parts         \* per group of lines: never asked for (or turned down), open, received

money    == <<billTo, paid, refunded, paidForms, refundForms>>
requests == <<closes, cancels>>
vars     == <<status, stamps, notified, money, requests, parts, doing>>

(***************************************************************************)
(* What a member of staff may have in flight.                              *)
(***************************************************************************)

InFlight ==
  {Idle}
  \cup [op : {"move"}, from : Statuses, to : Statuses]
  \cup [op : {"billTo"}, line : Lines, from : BillTo, to : BillTo]
  \cup [op : {"close", "cancel", "parts", "sync"}]
  \cup [op : {"count"}, from : Statuses]
  \cup [op : {"claim"}, from : Statuses, to : Statuses]

\* Who asked is kept while it matters: until the request is decided.
RequestRows ==
  [state : {"NONE", "APPROVED", "DECLINED"}] \cup [state : {"PENDING"}, by : Staff]

TypeOK ==
  /\ status \in Statuses
  /\ stamps \in SUBSET Stamps
  /\ notified \in BOOLEAN
  /\ billTo \in [Lines -> BillTo]
  /\ paid \in Nat
  /\ refunded \in Nat
  /\ paidForms \in SUBSET Forms
  /\ refundForms \in SUBSET Forms
  /\ closes \in [Requests -> RequestRows]
  /\ cancels \in [Requests -> RequestRows]
  /\ parts \in [PartsGroups -> {"NONE", "OPEN", "RECEIVED"}]
  /\ doing \in [Staff -> InFlight]

Init ==
  /\ status = "CHECKED_IN"
  /\ stamps = {}
  /\ notified = FALSE
  /\ billTo = [l \in Lines |-> "CUSTOMER"]
  /\ paid = 0
  /\ refunded = 0
  /\ paidForms = {}
  /\ refundForms = {}
  /\ closes = [r \in Requests |-> [state |-> "NONE"]]
  /\ cancels = [r \in Requests |-> [state |-> "NONE"]]
  /\ parts = [g \in PartsGroups |-> "NONE"]
  /\ doing = [u \in Staff |-> Idle]

-----------------------------------------------------------------------------
(***************************************************************************)
(* Money                                                                   *)
(***************************************************************************)
CustomerLines(bill) == {l \in Lines : bill[l] = "CUSTOMER"}
CustomerTotal == LineTotal[CustomerLines(billTo)]

\* 70% of the total, rounded half up to a whole kobo.
MinimumDeposit(total) == (7 * total + 5) \div 10

\* Fault: what was already paid is not counted.
ExceedsBalanceAlone(already, n, total) == n > total
ExceedsBalance(already, n, total) == already + n > total

\* The payment that takes the total from below the deposit (or from below
\* the full amount) to it or past it.
\*
\* Fault: any payment below the deposit counts.
CrossesAnyPayment(before, after, total) == before < MinimumDeposit(total) \/ after >= total
CrossesDeposit(before, after, total) ==
  \/ before < MinimumDeposit(total) /\ after >= MinimumDeposit(total)
  \/ before < total /\ after >= total

\* refunds.ts position(): what is still owed back to the customer.
CustomerOwes == IF status = "CANCELLED" THEN 0 ELSE CustomerTotal

\* Fault: refunds already made are not taken off.
RemainingOfPaid(owes) == IF paid - owes > 0 THEN paid - owes ELSE 0
Remaining(owes) == IF paid - refunded - owes > 0 THEN paid - refunded - owes ELSE 0

\* recordPayment.  Every check is made again with the row locked, so the whole
\* action is one step.  A form sent twice finds its key and changes nothing.
RecordPayment(u, f, n) ==
  /\ u \in Holders["finance"]
  /\ status \in Payable
  /\ f \notin paidForms
  /\ ~ExceedsBalance(paid, n, CustomerTotal)
  /\ paid' = paid + n
  /\ paidForms' = paidForms \cup {f}
  /\ IF status = "AWAITING_CUSTOMER_APPROVAL" /\ CrossesDeposit(paid, paid + n, CustomerTotal)
       THEN /\ status' = "IN_PROGRESS"
            /\ stamps' = stamps \cup {"workStartedAt"}
       ELSE UNCHANGED <<status, stamps>>
  /\ UNCHANGED <<notified, billTo, refunded, refundForms, requests, parts, doing>>

\* recordRefund: decided again under the lock, like a payment.  A cancelled
\* Job Card owes back everything paid, an active one only an overpayment.
RecordRefund(u, f, n) ==
  /\ u \in Holders["finance"]
  /\ f \notin refundForms
  /\ n <= Remaining(CustomerOwes)
  /\ refunded' = refunded + n
  /\ refundForms' = refundForms \cup {f}
  /\ UNCHANGED <<status, stamps, notified, billTo, paid, paidForms, requests, parts, doing>>

\* notifyCustomerOfApprovedEstimate: two claims in one transaction.
NotifyCustomer(u) ==
  /\ u \in Holders["creator"] \cup Holders["admin"]
  /\ ~notified
  /\ status \notin Finished
  /\ notified' = TRUE
  /\ status' = "AWAITING_CUSTOMER_APPROVAL"
  /\ UNCHANGED <<stamps, money, requests, parts, doing>>


\* setEstimateLineBillTo reads the status and the line, then claims the line
\* with the Job Card locked.  The status is not read again.
ReadBillTo(u, l, b) ==
  /\ u \in Holders["manager"]
  /\ status \notin {"CHECKED_OUT", "CANCELLED"}
  /\ b # billTo[l]
  /\ Start(u, [op |-> "billTo", line |-> l, from |-> billTo[l], to |-> b])
  /\ UNCHANGED <<status, stamps, notified, money, requests, parts>>

SaveBillTo(u) ==
  /\ doing[u].op = "billTo"
  /\ billTo[doing[u].line] = doing[u].from
  /\ billTo' = [billTo EXCEPT ![doing[u].line] = doing[u].to]
  /\ Done(u)
  /\ UNCHANGED <<status, stamps, notified, paid, refunded, paidForms, refundForms, requests, parts>>

-----------------------------------------------------------------------------
(***************************************************************************)
(* Status moves                                                            *)
(***************************************************************************)
IsRework(from, to) ==
  to = "IN_PROGRESS" /\ from \in {"QUALITY_CHECK", "COMPLETED", "READY_FOR_COLLECTION"}

\* getSelectableJobCardStatuses for everyone but a Master Admin.
Selectable(from, u) ==
  LET canProgress == u \in Holders["supervisor"] \cup Holders["technician"]
      canSignOff  == u \in Holders["supervisor"] \cup Holders["manager"]
      If(p, S)    == IF p THEN S ELSE {}
  IN CASE from = "IN_PROGRESS"          -> If(canProgress, {"AWAITING_PARTS", "QUALITY_CHECK"})
       [] from = "AWAITING_PARTS"       -> If(canProgress, {"IN_PROGRESS"})
       [] from = "QUALITY_CHECK"        -> If(canSignOff, {"COMPLETED"})
                                           \cup If(canProgress, {"IN_PROGRESS"})
       [] from = "COMPLETED"            -> If(canSignOff, {"READY_FOR_COLLECTION", "IN_PROGRESS"})
       [] from = "READY_FOR_COLLECTION" -> If(canSignOff, {"IN_PROGRESS"})
       [] from = "CLOSED"               -> If(canProgress \/ canSignOff, {"CHECKED_OUT"})
       [] OTHER                         -> {}

Pending(rows) == {r \in Requests : rows[r].state = "PENDING"}

\* A Job Card on which money is owed is not checked out; a cancelled one is
\* handed back only when everything paid has been refunded.
OwesNothing == paid >= CustomerTotal

\* Fault: any refund at all is enough.
PartlyRefunded == paid = 0 \/ refunded > 0
FullyRefunded == paid - refunded <= 0

MayMove(u, to) ==
  /\ to \notin {status, "CLOSED", "CANCELLED"}
  /\ status = "CANCELLED" =>
       to = "CHECKED_OUT" /\ u \in Holders["frontDesk"] \cup Holders["admin"] /\ FullyRefunded
  /\ (to = "CHECKED_OUT" /\ status # "CANCELLED") => OwesNothing
  /\ (status # "CANCELLED" /\ u \notin Holders["admin"]) => to \in Selectable(status, u)
  /\ IsRework(status, to) => Pending(closes) = {}

\* updateJobCardStatus up to the compare-and-set.
ReadForMove(u, to) ==
  /\ MayMove(u, to)
  /\ Start(u, [op |-> "move", from |-> status, to |-> to])
  /\ UNCHANGED <<status, stamps, notified, money, requests, parts>>

\* The timestamps the compare-and-set writes along with the status.
\*
\* Fault: rework clears nothing.
StampsKept(from, to) ==
  stamps \cup CASE to = "IN_PROGRESS"          -> {"workStartedAt"}
                [] to = "COMPLETED"            -> {"completedAt"}
                [] to = "READY_FOR_COLLECTION" -> {"readyForCollectionAt"}
                [] to = "CHECKED_OUT"          -> {"checkedOutAt"}
                [] OTHER                       -> {}
StampsAfter(from, to) ==
  LET cleared == IF IsRework(from, to)
                   THEN (IF from = "READY_FOR_COLLECTION" THEN {"readyForCollectionAt"} ELSE {})
                        \cup (IF from # "QUALITY_CHECK" THEN {"completedAt"} ELSE {})
                   ELSE {}
      set == CASE to = "IN_PROGRESS"          -> {"workStartedAt"}
               [] to = "COMPLETED"            -> {"completedAt"}
               [] to = "READY_FOR_COLLECTION" -> {"readyForCollectionAt"}
               [] to = "CHECKED_OUT"          -> {"checkedOutAt"}
               [] OTHER                       -> {}
  IN (stamps \ cleared) \cup set

\* The compare-and-set's where clause.  Fault: it names only the id.
AnyStatus(from) == TRUE
StillIn(from) == status = from

SaveMove(u) ==
  /\ doing[u].op = "move"
  /\ StillIn(doing[u].from)
  /\ status' = doing[u].to
  /\ stamps' = StampsAfter(doing[u].from, doing[u].to)
  /\ Done(u)
  /\ UNCHANGED <<notified, money, requests, parts>>

-----------------------------------------------------------------------------
(***************************************************************************)
(* Close and cancellation requests                                         *)
(***************************************************************************)
MayAsk(u) == u \in Holders["creator"] \cup Holders["supervisor"] \cup Holders["admin"]

\* requestJobCardClose, requestJobCardCancellation: status and payment are
\* read first, then one pending request is created under the lock.
ReadForClose(u) ==
  /\ MayAsk(u)
  /\ status = "READY_FOR_COLLECTION"
  /\ OwesNothing
  /\ Start(u, [op |-> "close"])
  /\ UNCHANGED <<status, stamps, notified, money, requests, parts>>

ReadForCancellation(u) ==
  /\ MayAsk(u)
  /\ status \notin Finished
  /\ Start(u, [op |-> "cancel"])
  /\ UNCHANGED <<status, stamps, notified, money, requests, parts>>

NonePending(rows) == Pending(rows) = {}

Asked(rows, r, u) ==
  /\ NonePending(rows)
  /\ rows[r].state = "NONE"
  /\ rows' = [rows EXCEPT ![r] = [state |-> "PENDING", by |-> u]]

SaveRequest(u, r) ==
  /\ \/ doing[u].op = "close"  /\ Asked(closes, r, u)  /\ UNCHANGED cancels
     \/ doing[u].op = "cancel" /\ Asked(cancels, r, u) /\ UNCHANGED closes
  /\ Done(u)
  /\ UNCHANGED <<status, stamps, notified, money, parts>>

\* Whoever asked does not decide, unless a Master Admin.
MayDecide(u, row) == u \in Holders["manager"] /\ (row.by # u \/ u \in Holders["admin"])

Decided(rows, r, decision) == [rows EXCEPT ![r] = [state |-> decision]]
Superseded(rows) ==
  [r \in Requests |-> IF rows[r].state = "PENDING" THEN [state |-> "DECLINED"] ELSE rows[r]]

\* withdrawOpenSourcing: every request still open is withdrawn.
Withdrawn == [g \in PartsGroups |-> IF parts[g] = "OPEN" THEN "NONE" ELSE parts[g]]

\* approveCancellationRequest: lock, claim the request, claim the Job Card,
\* decline a pending close, withdraw what is being sourced.
ApproveCancellation(u, r) ==
  /\ cancels[r].state = "PENDING" /\ MayDecide(u, cancels[r])
  /\ status \notin Finished
  /\ status' = "CANCELLED"
  /\ cancels' = Decided(cancels, r, "APPROVED")
  /\ closes' = Superseded(closes)
  /\ parts' = Withdrawn
  /\ UNCHANGED <<stamps, notified, money, doing>>

\* approveCloseRequest: the same shape.  Payment is not looked at again.
ApproveClose(u, r) ==
  /\ closes[r].state = "PENDING" /\ MayDecide(u, closes[r])
  /\ status = "READY_FOR_COLLECTION"
  /\ status' = "CLOSED"
  /\ stamps' = stamps \cup {"closedAt"}
  /\ closes' = Decided(closes, r, "APPROVED")
  /\ cancels' = Superseded(cancels)
  /\ parts' = Withdrawn
  /\ UNCHANGED <<notified, money, doing>>

\* declineCloseRequest, declineCancellationRequest.
DeclineRequest(u, r) ==
  /\ u \in Holders["manager"]
  /\ \/ closes[r].state = "PENDING" /\ closes' = Decided(closes, r, "DECLINED") /\ UNCHANGED cancels
     \/ cancels[r].state = "PENDING" /\ cancels' = Decided(cancels, r, "DECLINED") /\ UNCHANGED closes
  /\ UNCHANGED <<status, stamps, notified, money, parts, doing>>

-----------------------------------------------------------------------------
(***************************************************************************)
(* Parts and outside purchases, as far as the Job Card sees them           *)
(***************************************************************************)
Outstanding == {g \in PartsGroups : parts[g] = "OPEN"}

\* requestPartRequestSlip, requestExternalProcurementBatch: the status is read
\* before the lock, the lines still to be requested under it.
ReadForParts(u) ==
  /\ status \in Sourceable
  /\ Start(u, [op |-> "parts"])
  /\ UNCHANGED <<status, stamps, notified, money, requests, parts>>

SaveParts(u, g) ==
  /\ doing[u].op = "parts"
  /\ parts[g] = "NONE"
  /\ parts' = [parts EXCEPT ![g] = "OPEN"]
  /\ doing' = [doing EXCEPT ![u] = [op |-> "sync"]]
  /\ UNCHANGED <<status, stamps, notified, money, requests>>

\* releasePartRequestSlip, disburseExternalProcurementRequest: refused on a
\* finished job.  rejectPartRequestSlip, rejectExternalProcurementRequest: not.
SettleParts(u, g) ==
  /\ parts[g] = "OPEN"
  /\ \/ /\ status \notin Finished
        /\ u \in Holders["store"]
        /\ parts' = [parts EXCEPT ![g] = "RECEIVED"]
     \/ /\ u \in Holders["store"] \cup Holders["manager"]
        /\ parts' = [parts EXCEPT ![g] = "NONE"]
  /\ Start(u, [op |-> "sync"])
  /\ UNCHANGED <<status, stamps, notified, money, requests>>

\* syncJobCardSourcingStatus: read the status, count what is outstanding,
\* claim the Job Card if it is still in the status read.
SyncRead(u) ==
  /\ doing[u].op = "sync"
  /\ doing' = [doing EXCEPT ![u] = IF status \in {"IN_PROGRESS", "AWAITING_PARTS"}
                                     THEN [op |-> "count", from |-> status]
                                     ELSE Idle]
  /\ UNCHANGED <<status, stamps, notified, money, requests, parts>>

SyncTarget(from) ==
  CASE Outstanding # {} /\ from # "AWAITING_PARTS" -> "AWAITING_PARTS"
    [] Outstanding = {} /\ from = "AWAITING_PARTS" -> "IN_PROGRESS"
    [] OTHER                                       -> from

SyncCount(u) ==
  /\ doing[u].op = "count"
  /\ LET to == SyncTarget(doing[u].from)
     IN doing' = [doing EXCEPT ![u] = IF to = @.from THEN Idle
                                      ELSE [op |-> "claim", from |-> @.from, to |-> to]]
  /\ UNCHANGED <<status, stamps, notified, money, requests, parts>>

SyncSave(u) ==
  /\ doing[u].op = "claim"
  /\ StillIn(doing[u].from)
  /\ status' = doing[u].to
  /\ Done(u)
  /\ UNCHANGED <<stamps, notified, money, requests, parts>>

\* The claim found the row changed, a check under the lock refused, or the
\* process died: nothing more is written.
GiveUp(u) ==
  /\ doing[u] # Idle
  /\ Done(u)
  /\ UNCHANGED <<status, stamps, notified, money, requests, parts>>

-----------------------------------------------------------------------------
MoneyStep(u) ==
  \/ \E f \in Forms, n \in Amounts : RecordPayment(u, f, n) \/ RecordRefund(u, f, n)
  \/ \E l \in Lines, b \in BillTo : ReadBillTo(u, l, b)
  \/ SaveBillTo(u)
  \/ NotifyCustomer(u)

MoveStep(u) ==
  \/ \E to \in Statuses : ReadForMove(u, to)
  \/ SaveMove(u)

RequestStep(u) ==
  \/ ReadForClose(u)
  \/ ReadForCancellation(u)
  \/ \E r \in Requests : \/ SaveRequest(u, r)
                         \/ ApproveCancellation(u, r)
                         \/ ApproveClose(u, r)
                         \/ DeclineRequest(u, r)

PartsStep(u) ==
  \/ ReadForParts(u)
  \/ \E g \in PartsGroups : SaveParts(u, g) \/ SettleParts(u, g)
  \/ SyncRead(u)
  \/ SyncCount(u)
  \/ SyncSave(u)

Next == \E u \in Staff : MoneyStep(u) \/ MoveStep(u) \/ RequestStep(u) \/ PartsStep(u) \/ GiveUp(u)

Spec == Init /\ [][Next]_vars

-----------------------------------------------------------------------------
(***************************************************************************)
(* What must hold of a Job Card                                            *)
(***************************************************************************)
Approved(rows) == {r \in Requests : rows[r].state = "APPROVED"}
Approvals == {<<"close", r>> : r \in Approved(closes)} \cup {<<"cancel", r>> : r \in Approved(cancels)}

\* recordPayment: however cashiers, bill-to decisions and refunds interleave,
\* what was taken never passes what the whole estimate comes to.
PaidWithinEstimate == paid <= LineTotal[Lines]

\* recordRefund: no interleaving gives back more than was taken.
RefundedWithinPaid == refunded <= paid

\* updateJobCardStatus with approveCancellationRequest and recordRefund: a
\* vehicle whose job was cancelled has left only with all its money returned.
HandedBackRefunded ==
  status = "CHECKED_OUT" /\ Approved(cancels) # {} => refunded = paid

\* approveCloseRequest and approveCancellationRequest: a job is finished
\* exactly when one decision approved it, never two ("A Job Card can never
\* end up both closed and cancelled"), and its status is the one decided.
FinishedByOneDecision ==
  /\ status \in Finished <=> Approvals # {}
  /\ \A a, b \in Approvals : a = b
  /\ status = "CLOSED" => Approved(closes) # {}
  /\ status = "CANCELLED" => Approved(cancels) # {}

\* requestJobCardClose and requestJobCardCancellation: two people asking at
\* the same moment never leave two pending requests of one kind.
OnePendingEach ==
  /\ \A r, s \in Pending(closes) : r = s
  /\ \A r, s \in Pending(cancels) : r = s

\* updateJobCardStatus: the completion and collection clocks run exactly on
\* work that is finished, through any number of reworks and stale clicks.
StampsTellTheStatus ==
  /\ "completedAt" \in stamps =>
       status \in {"COMPLETED", "READY_FOR_COLLECTION"} \cup Finished
  /\ status \in {"COMPLETED", "READY_FOR_COLLECTION", "CLOSED"} => "completedAt" \in stamps
  /\ "readyForCollectionAt" \in stamps => status \in {"READY_FOR_COLLECTION"} \cup Finished
  /\ status \in {"READY_FOR_COLLECTION", "CLOSED"} => "readyForCollectionAt" \in stamps
  /\ "closedAt" \in stamps <=> Approved(closes) # {}
  /\ "checkedOutAt" \in stamps <=> status = "CHECKED_OUT"

\* recordPayment, with every other way a status can change: work is entered
\* for the first time only when the deposit has been taken.
WorkStarted == {"IN_PROGRESS", "AWAITING_PARTS", "QUALITY_CHECK", "COMPLETED", "READY_FOR_COLLECTION"}
WorkStartsOnDeposit ==
  [][status \notin WorkStarted /\ status' \in WorkStarted
       => paid' >= MinimumDeposit(CustomerTotal')]_vars

\* The Job Card keeps the promise CustomerAccount states.
Account == INSTANCE CustomerAccount WITH
  phase     <- CASE status = "CLOSED"      -> "closed"
                 [] status = "CANCELLED"   -> "cancelled"
                 [] status = "CHECKED_OUT" -> "returned"
                 [] OTHER                  -> "open",
  taken     <- paid,
  givenBack <- refunded

KeepsAccount == Account!Spec
=============================================================================
