--------------------------- MODULE VehicleService ---------------------------
(***************************************************************************)
(* The services booked for one vehicle and the Job Cards opened for it:    *)
(* the service's status line, its estimate and money, the two Manager      *)
(* decisions that end it, and its escalation to a Job Card.                *)
(*                                                                         *)
(* A handler reads the service, decides, and saves with a claim or under   *)
(* the row lock; doing[u] keeps what was read in between. Escalation is    *)
(* several database calls long: it holds a claim on the service            *)
(* (escalatedAt) that expires ten minutes later, should the request die.   *)
(***************************************************************************)
EXTENDS Desk, Naturals

CONSTANTS
  Services,   \* service rows that may be booked, all for the same vehicle
  Cards,      \* Job Card rows that may be opened for it
  Total,      \* what the priced estimate of a service adds up to
  Deposit     \* 70 % of it

NoCard    == "no card"
NoService == "no service"

ASSUME MoneyAssumption == Total \in Nat /\ Deposit \in 1..Total
ASSUME RowAssumption == NoCard \notin Cards /\ NoService \notin Services

VARIABLES
  status,     \* VehicleService.status, "NONE" before it is booked
  claim,      \* escalatedAt: "NONE", "FRESH", or "STALE" after ten minutes
  link,       \* escalatedToJobCardId
  estimate,   \* ServiceEstimate.status; "NONE": no row; "NOTIFIED": customerNotifiedAt too
  paid,       \* total of its payments
  refunded,   \* total of its refunds
  collected,  \* collectedAt is set: the vehicle was handed over
  pending,    \* how many requests of a kind wait for a Manager
  granted,    \* whether a request of a kind was approved
  card,       \* "NONE", "OPEN", or "DONE" for a cancelled, closed or checked-out card
  cardFrom    \* the service a Job Card was opened from

money    == <<estimate, paid, refunded>>
requests == <<pending, granted>>
handover == <<claim, link, card, cardFrom>>
vars     == <<status, collected, money, requests, handover, doing>>

Statuses    == {"NONE", "SCHEDULED", "CHECKED_IN", "IN_SERVICE", "COMPLETED",
                "READY_FOR_COLLECTION", "CLOSED", "COLLECTED", "CANCELLED", "ESCALATED"}
Cancellable == {"SCHEDULED", "CHECKED_IN", "IN_SERVICE", "COMPLETED", "READY_FOR_COLLECTION"}
Payable     == {"CHECKED_IN", "IN_SERVICE", "COMPLETED", "READY_FOR_COLLECTION"}
Kinds       == {"cancel", "close"}

Ladder == [from \in Statuses |->
  CASE from = "SCHEDULED"  -> {"CHECKED_IN"}
    [] from = "IN_SERVICE" -> {"COMPLETED"}
    [] from = "COMPLETED"  -> {"READY_FOR_COLLECTION"}
    [] from = "CLOSED"     -> {"COLLECTED"}
    [] OTHER               -> {}]

EstimateSteps == [DRAFT |-> "SUBMITTED", SUBMITTED |-> "APPROVED",
                  APPROVED |-> "MANAGER_APPROVED", MANAGER_APPROVED |-> "NOTIFIED"]
EstimateStatuses == {"NONE", "NOTIFIED"} \cup DOMAIN EstimateSteps

Moves     == [op : {"move"}, s : Services, from : Statuses, to : Statuses]
Pricings  == [op : {"price", "unprice"}, s : Services, from : EstimateStatuses]
Sums      == [op : {"pay", "refund"}, s : Services, amount : 1..Total]
Decisions == [op : {"ask", "approve", "decline"}, s : Services, kind : Kinds]
HandBacks == [op : {"handBack"}, s : Services]
Handovers == [op : {"escalate"}, s : Services, from : Statuses,
              step : {"read", "claimed", "checked", "opened"}]
Requests  == {Idle} \cup Moves \cup Pricings \cup Sums \cup Decisions \cup HandBacks \cup Handovers

TypeOK ==
  /\ status \in [Services -> Statuses]
  /\ claim \in [Services -> {"NONE", "FRESH", "STALE"}]
  /\ link \in [Services -> Cards \cup {NoCard}]
  /\ estimate \in [Services -> EstimateStatuses]
  /\ paid \in [Services -> 0..Total]
  /\ refunded \in [Services -> 0..Total]
  /\ collected \in [Services -> BOOLEAN]
  /\ pending \in [Services -> [Kinds -> Nat]]
  /\ granted \in [Services -> [Kinds -> BOOLEAN]]
  /\ card \in [Cards -> {"NONE", "OPEN", "DONE"}]
  /\ cardFrom \in [Cards -> Services \cup {NoService}]
  /\ doing \in [Staff -> Requests]

Init ==
  /\ status = [s \in Services |-> "NONE"]
  /\ claim = [s \in Services |-> "NONE"]
  /\ link = [s \in Services |-> NoCard]
  /\ estimate = [s \in Services |-> "NONE"]
  /\ paid = [s \in Services |-> 0]
  /\ refunded = [s \in Services |-> 0]
  /\ collected = [s \in Services |-> FALSE]
  /\ pending = [s \in Services |-> [k \in Kinds |-> 0]]
  /\ granted = [s \in Services |-> [k \in Kinds |-> FALSE]]
  /\ card = [c \in Cards |-> "NONE"]
  /\ cardFrom = [c \in Cards |-> NoService]
  /\ doing = [u \in Staff |-> Idle]

Read(u, work) ==
  Start(u, work) /\ UNCHANGED <<status, collected, money, requests, handover>>
\* A claim that no longer matches, a refusal under the lock, or a lost server.
GiveUp(u) ==
  doing[u] # Idle /\ Done(u) /\ UNCHANGED <<status, collected, money, requests, handover>>

-----------------------------------------------------------------------------
(***************************************************************************)
(* Opening, and the status line                                            *)
(***************************************************************************)
\* createVehicleService: one active visit per vehicle, decided with the
\* vehicle locked.
NoVisitOpen == \A s \in Services : status[s] \notin Cancellable
OpenService(s) ==
  /\ status[s] = "NONE"
  /\ NoVisitOpen
  /\ status' = [status EXCEPT ![s] = "SCHEDULED"]
  /\ UNCHANGED <<collected, money, requests, handover, doing>>

\* createJobCard at the desk, and the end of a Job Card.
NoCardOpen == \A c \in Cards : card[c] # "OPEN"
OpenCard(c, from) ==
  /\ card[c] = "NONE"
  /\ NoCardOpen
  /\ card' = [card EXCEPT ![c] = "OPEN"]
  /\ cardFrom' = [cardFrom EXCEPT ![c] = from]

OpenDeskCard(c) ==
  /\ OpenCard(c, NoService)
  /\ UNCHANGED <<status, collected, money, requests, claim, link, doing>>

FinishCard(c) ==
  /\ card[c] = "OPEN"
  /\ card' = [card EXCEPT ![c] = "DONE"]
  /\ UNCHANGED <<status, collected, money, requests, claim, link, cardFrom, doing>>

\* servicePaymentPosition: a service with no priced estimate owes nothing.
Owed(s) == IF estimate[s] \in {"NONE", "DRAFT"} THEN 0 ELSE Total
PaidInFull(s) == paid[s] >= Owed(s)

\* updateVehicleServiceStatus.
ReadForMove(u, s, to) ==
  /\ to \in Ladder[status[s]]
  /\ to = "COLLECTED" => PaidInFull(s)
  /\ Read(u, [op |-> "move", s |-> s, from |-> status[s], to |-> to])

StillAsRead(work) == status[work.s] = work.from
SaveMove(u) ==
  LET work == doing[u] IN
  /\ work.op = "move"
  /\ StillAsRead(work)
  /\ status' = [status EXCEPT ![work.s] = work.to]
  /\ collected' = [collected EXCEPT ![work.s] = @ \/ work.to = "COLLECTED"]
  /\ Done(u)
  /\ UNCHANGED <<money, requests, handover>>

-----------------------------------------------------------------------------
(***************************************************************************)
(* The estimate and the money                                              *)
(***************************************************************************)
\* escalationInFlight.
\*
\* Fault: a claim never expires.
NeverExpires(s) == claim[s] # "NONE" /\ link[s] = NoCard /\ status[s] # "ESCALATED"
EscalationInFlight(s) == claim[s] = "FRESH" /\ link[s] = NoCard /\ status[s] # "ESCALATED"

\* assertServiceNotEscalated, at the top of every estimate action.
NotEscalated(s) == ~ EscalationInFlight(s) /\ status[s] # "ESCALATED" /\ link[s] = NoCard

\* createServiceEstimate, and then submit, approve, approve as Manager, notify.
ReadForPricing(u, s) ==
  /\ status[s] # "NONE"
  /\ NotEscalated(s)
  /\ estimate[s] # "NOTIFIED"
  /\ Read(u, [op |-> "price", s |-> s, from |-> estimate[s]])

SavePricing(u) ==
  LET work == doing[u] IN
  /\ work.op = "price"
  /\ estimate[work.s] = work.from
  /\ estimate' = [estimate EXCEPT ![work.s] =
                    IF work.from = "NONE" THEN "DRAFT" ELSE EstimateSteps[work.from]]
  /\ Done(u)
  /\ UNCHANGED <<status, collected, paid, refunded, requests, handover>>

\* cancelServiceEstimate: the row is deleted, if still as it was read. Whoever
\* else read that row has nothing left to claim.
HoldsRow(u, s) ==
  doing[u].op \in {"price", "unprice"} /\ doing[u].s = s /\ doing[u].from # "NONE"

ReadForUnpricing(u, s) ==
  /\ NotEscalated(s)
  /\ estimate[s] \in {"DRAFT", "SUBMITTED", "APPROVED"}
  /\ Read(u, [op |-> "unprice", s |-> s, from |-> estimate[s]])

SaveUnpricing(u) ==
  LET work == doing[u] IN
  /\ work.op = "unprice"
  /\ estimate[work.s] = work.from
  /\ estimate' = [estimate EXCEPT ![work.s] = "NONE"]
  /\ doing' = [v \in Staff |-> IF HoldsRow(v, work.s) THEN Idle ELSE doing[v]]
  /\ UNCHANGED <<status, collected, paid, refunded, requests, handover>>

\* recordServicePayment: read, then decided again with the row locked.
ReadForPayment(u, s, amount) ==
  /\ estimate[s] = "NOTIFIED"
  /\ status[s] \in Payable
  /\ paid[s] + amount <= Owed(s)
  /\ Read(u, [op |-> "pay", s |-> s, amount |-> amount])

FitsBalance(s, amount) == paid[s] + amount <= Owed(s)
StillPayable(s, amount) == status[s] \in Payable /\ FitsBalance(s, amount)

SavePayment(u) ==
  LET work == doing[u]
      s    == work.s
      sum  == paid[s] + work.amount
      crosses == (paid[s] < Deposit /\ sum >= Deposit) \/ (paid[s] < Owed(s) /\ sum >= Owed(s))
  IN
  /\ work.op = "pay"
  /\ StillPayable(s, work.amount)
  /\ paid' = [paid EXCEPT ![s] = sum]
  /\ status' = [status EXCEPT ![s] = IF @ = "CHECKED_IN" /\ crosses THEN "IN_SERVICE" ELSE @]
  /\ Done(u)
  /\ UNCHANGED <<collected, estimate, refunded, requests, handover>>

\* recordRefund, for a service: only once it is cancelled.
ReadForRefund(u, s, amount) ==
  /\ status[s] = "CANCELLED"
  /\ refunded[s] + amount <= paid[s]
  /\ Read(u, [op |-> "refund", s |-> s, amount |-> amount])

\* Fault: the refunds are not read again under the lock.
RefundsNotReread(s, amount) == status[s] = "CANCELLED" /\ amount <= paid[s]
OwedBack(s, amount) == status[s] = "CANCELLED" /\ refunded[s] + amount <= paid[s]
SaveRefund(u) ==
  LET work == doing[u] IN
  /\ work.op = "refund"
  /\ OwedBack(work.s, work.amount)
  /\ refunded' = [refunded EXCEPT ![work.s] = @ + work.amount]
  /\ Done(u)
  /\ UNCHANGED <<status, collected, estimate, paid, requests, handover>>

\* handBackCancelledVehicleService: only once everything paid is refunded.
ReadForHandBack(u, s) ==
  /\ status[s] = "CANCELLED"
  /\ ~ collected[s]
  /\ paid[s] <= refunded[s]
  /\ Read(u, [op |-> "handBack", s |-> s])

SaveHandBack(u) ==
  LET s == doing[u].s IN
  /\ doing[u].op = "handBack"
  /\ status[s] = "CANCELLED" /\ ~ collected[s]
  /\ collected' = [collected EXCEPT ![s] = TRUE]
  /\ Done(u)
  /\ UNCHANGED <<status, money, requests, handover>>

-----------------------------------------------------------------------------
(***************************************************************************)
(* Closing and cancelling: asked for, then decided by a Manager            *)
(***************************************************************************)
MayEnd(s, kind) ==
  \/ kind = "cancel" /\ status[s] \in Cancellable
  \/ kind = "close"  /\ status[s] = "READY_FOR_COLLECTION" /\ PaidInFull(s)

\* requestVehicleServiceCancellation, requestVehicleServiceClose.
ReadForRequest(u, s, kind) ==
  MayEnd(s, kind) /\ Read(u, [op |-> "ask", s |-> s, kind |-> kind])

SaveRequest(u) ==
  LET work == doing[u] IN
  /\ work.op = "ask"
  /\ pending[work.s][work.kind] = 0
  /\ pending' = [pending EXCEPT ![work.s][work.kind] = 1]
  /\ Done(u)
  /\ UNCHANGED <<status, collected, money, granted, handover>>

ReadForDecision(u, s, kind, op) ==
  /\ pending[s][kind] > 0
  /\ op = "approve" => MayEnd(s, kind)
  /\ Read(u, [op |-> op, s |-> s, kind |-> kind])

\* The claim on the service when a request is approved: a cancellation never
\* lands while an escalation is opening its Job Card.
\*
\* Fault: it does.
IgnoresEscalation(s, kind) ==
  IF kind = "close" THEN status[s] = "READY_FOR_COLLECTION" ELSE status[s] \in Cancellable
StillEndable(s, kind) ==
  IF kind = "close"
  THEN status[s] = "READY_FOR_COLLECTION"
  ELSE status[s] \in Cancellable /\ link[s] = NoCard /\ claim[s] # "FRESH"

\* approveVehicleServiceCancellationRequest, approveVehicleServiceCloseRequest:
\* the other pending request is declined in the same transaction.
SaveApproval(u) ==
  LET s    == doing[u].s
      kind == doing[u].kind
  IN
  /\ doing[u].op = "approve"
  /\ pending[s][kind] > 0
  /\ StillEndable(s, kind)
  /\ status' = [status EXCEPT ![s] = IF kind = "close" THEN "CLOSED" ELSE "CANCELLED"]
  /\ pending' = [pending EXCEPT ![s] = [k \in Kinds |-> 0]]
  /\ granted' = [granted EXCEPT ![s][kind] = TRUE]
  /\ Done(u)
  /\ UNCHANGED <<collected, money, handover>>

\* declineVehicleServiceCancellationRequest, declineVehicleServiceCloseRequest.
SaveDecline(u) ==
  LET work == doing[u] IN
  /\ work.op = "decline"
  /\ pending[work.s][work.kind] > 0
  /\ pending' = [pending EXCEPT ![work.s][work.kind] = 0]
  /\ Done(u)
  /\ UNCHANGED <<status, collected, money, granted, handover>>

-----------------------------------------------------------------------------
(***************************************************************************)
(* escalateVehicleServiceToJobCard: read, claim, check again, open the Job *)
(* Card already linked, and close the service behind it                    *)
(***************************************************************************)
Escalatable == {"SCHEDULED", "CHECKED_IN", "IN_SERVICE"}
NothingSold(s) == estimate[s] = "NONE" /\ paid[s] = 0
AtStep(u, step) == doing[u].op = "escalate" /\ doing[u].step = step
ToStep(u, step) == doing' = [doing EXCEPT ![u].step = step]

ReadForEscalation(u, s) ==
  /\ link[s] = NoCard
  /\ status[s] \in Escalatable
  /\ NothingSold(s)
  /\ Read(u, [op |-> "escalate", s |-> s, from |-> status[s], step |-> "read"])

\* The hand-over is claimed unless somebody else holds it.
Unclaimed(s) == link[s] = NoCard /\ claim[s] # "FRESH"

ClaimEscalation(u) ==
  LET s == doing[u].s IN
  /\ AtStep(u, "read")
  /\ status[s] = doing[u].from
  /\ Unclaimed(s)
  /\ claim' = [claim EXCEPT ![s] = "FRESH"]
  /\ ToStep(u, "claimed")
  /\ UNCHANGED <<status, collected, money, requests, link, card, cardFrom>>

\* Checked again now that the claim is held.
CheckAgain(u) ==
  /\ AtStep(u, "claimed")
  /\ NothingSold(doing[u].s)
  /\ ToStep(u, "checked")
  /\ UNCHANGED <<status, collected, money, requests, handover>>

\* createJobCard for the escalation: one transaction opens the card and links
\* the service to it. (The claim is looked up just before; it cannot expire in
\* between, see Expire.)
Linkable(u) ==
  AtStep(u, "checked") /\ link[doing[u].s] = NoCard /\ claim[doing[u].s] = "FRESH"

\* Fault: the card is linked by a later write.
OpensUnlinked(u, c) ==
  /\ Linkable(u)
  /\ OpenCard(c, doing[u].s)
  /\ ToStep(u, "opened")
  /\ UNCHANGED <<status, collected, money, requests, claim, link>>
OpenEscalationCard(u, c) ==
  /\ Linkable(u)
  /\ OpenCard(c, doing[u].s)
  /\ link' = [link EXCEPT ![doing[u].s] = c]
  /\ ToStep(u, "opened")
  /\ UNCHANGED <<status, collected, money, requests, claim>>

\* Something was sold meanwhile, or no Job Card could be opened: the claim is
\* released.
ReleaseEscalation(u) ==
  LET s == doing[u].s IN
  /\ \/ AtStep(u, "claimed") /\ ~ NothingSold(s)
     \/ AtStep(u, "checked")
  /\ claim' = [claim EXCEPT ![s] = IF link[s] = NoCard THEN "NONE" ELSE @]
  /\ Done(u)
  /\ UNCHANGED <<status, collected, money, requests, link, card, cardFrom>>

FinishEscalation(u) ==
  LET s == doing[u].s IN
  /\ AtStep(u, "opened")
  /\ status' = [status EXCEPT ![s] = "ESCALATED"]
  /\ Done(u)
  /\ UNCHANGED <<collected, money, requests, handover>>

\* Ten minutes pass. A request never lives that long, so its claim does not
\* expire under it.
Expire(s) ==
  /\ claim[s] = "FRESH" /\ link[s] = NoCard
  /\ \A u \in Staff : doing[u] # Idle => ~ (doing[u].op = "escalate" /\ doing[u].s = s
                                            /\ doing[u].step # "read")
  /\ claim' = [claim EXCEPT ![s] = "STALE"]
  /\ UNCHANGED <<status, collected, money, requests, link, card, cardFrom, doing>>

\* normaliseEscalatedServices, before every list of tracked vehicles: a
\* linked service whose request died is completed.
\*
\* Fault: only a service still as it was booked is.
NormaliseBooked(s) ==
  /\ link[s] # NoCard
  /\ status[s] = "SCHEDULED"
  /\ status' = [status EXCEPT ![s] = "ESCALATED"]
  /\ UNCHANGED <<collected, money, requests, handover, doing>>
Normalise(s) ==
  /\ link[s] # NoCard
  /\ status[s] # "ESCALATED"
  /\ status' = [status EXCEPT ![s] = "ESCALATED"]
  /\ UNCHANGED <<collected, money, requests, handover, doing>>

-----------------------------------------------------------------------------
Reads(u) ==
  \E s \in Services :
    \/ \E to \in Statuses : ReadForMove(u, s, to)
    \/ ReadForPricing(u, s)
    \/ ReadForUnpricing(u, s)
    \/ \E amount \in 1..Total : ReadForPayment(u, s, amount) \/ ReadForRefund(u, s, amount)
    \/ ReadForHandBack(u, s)
    \/ \E kind \in Kinds : \/ ReadForRequest(u, s, kind)
                           \/ \E op \in {"approve", "decline"} : ReadForDecision(u, s, kind, op)
    \/ ReadForEscalation(u, s)

Saves(u) ==
  \/ SaveMove(u)
  \/ SavePricing(u)
  \/ SaveUnpricing(u)
  \/ SavePayment(u)
  \/ SaveRefund(u)
  \/ SaveHandBack(u)
  \/ SaveRequest(u)
  \/ SaveApproval(u)
  \/ SaveDecline(u)

Escalates(u) ==
  \/ ClaimEscalation(u)
  \/ CheckAgain(u)
  \/ \E c \in Cards : OpenEscalationCard(u, c)
  \/ ReleaseEscalation(u)
  \/ FinishEscalation(u)

Next ==
  \/ \E s \in Services : OpenService(s) \/ Expire(s) \/ Normalise(s)
  \/ \E c \in Cards : OpenDeskCard(c) \/ FinishCard(c)
  \/ \E u \in Staff : Reads(u) \/ Saves(u) \/ Escalates(u) \/ GiveUp(u)

Spec == Init /\ [][Next]_vars

\* A request ends, one way or another: the platform kills one that hangs.
\* Time passes. The service lists, and the daily reminder job, normalise.
Fairness ==
  /\ \A u \in Staff : WF_vars(Saves(u) \/ Escalates(u) \/ GiveUp(u))
  /\ \A s \in Services : WF_vars(Expire(s)) /\ WF_vars(Normalise(s))

FairSpec == Spec /\ Fairness

-----------------------------------------------------------------------------
(***************************************************************************)
(* Properties                                                              *)
(***************************************************************************)
\* A service is handed over once, whoever clicks again, dies half-way or comes
\* back ten minutes later: one Job Card names it, and it names that card.
HandedOverOnce ==
  /\ \A c, d \in Cards : cardFrom[c] = cardFrom[d] /\ cardFrom[c] # NoService => c = d
  /\ \A c \in Cards : cardFrom[c] # NoService => link[cardFrom[c]] = c

\* No money stays behind on a service that was handed over, and no cancelled
\* service has a Job Card going.
NothingOrphaned ==
  \A s \in Services : link[s] # NoCard => paid[s] = 0 /\ status[s] # "CANCELLED"

\* A vehicle leaves with its account settled: a closed service is paid in
\* full, a cancelled one is handed back when every payment was refunded, and
\* nobody is refunded more than was paid.
LeavesSettled ==
  \A s \in Services :
    /\ status[s] \in {"CLOSED", "COLLECTED"} => PaidInFull(s)
    /\ status[s] = "CANCELLED" /\ collected[s] => refunded[s] = paid[s]
    /\ refunded[s] <= paid[s] /\ paid[s] <= Total

\* One decision ends a service: closed by a close, cancelled by a
\* cancellation, never both, whatever two Managers approve at once.
EndedByOneDecision ==
  \A s \in Services :
    /\ granted[s]["close"] <=> status[s] \in {"CLOSED", "COLLECTED"}
    /\ granted[s]["cancel"] <=> status[s] = "CANCELLED"

\* Once its Job Card is open, a service becomes ESCALATED, even when the
\* request that opened the card died before saying so.
HandoverCompletes ==
  \A s \in Services : link[s] # NoCard ~> status[s] = "ESCALATED"

\* A claimed service does not stay claimed: it is handed over, released, or
\* free again after ten minutes.
EscalationNeverSticks ==
  \A s \in Services : EscalationInFlight(s) ~> ~ EscalationInFlight(s)
=============================================================================
