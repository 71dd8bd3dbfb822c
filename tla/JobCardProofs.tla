--------------------------- MODULE JobCardProofs ---------------------------
(***************************************************************************)
(* What holds of a Job Card for any number of staff, lines, forms and      *)
(* requests, and any amounts.                                              *)
(***************************************************************************)
EXTENDS JobCard, TLAPS

-----------------------------------------------------------------------------
(***************************************************************************)
(* Types                                                                   *)
(***************************************************************************)

\* What a request in flight carries, by the operation it is about to save.
LEMMA CarriedMove ==
  ASSUME NEW w \in InFlight, w.op = "move"
  PROVE  w.from \in Statuses /\ w.to \in Statuses
BY DEF InFlight, Idle

LEMMA CarriedBillTo ==
  ASSUME NEW w \in InFlight, w.op = "billTo"
  PROVE  w.line \in Lines /\ w.from \in BillTo /\ w.to \in BillTo
BY DEF InFlight, Idle

LEMMA CarriedSync ==
  ASSUME NEW w \in InFlight
  PROVE  /\ w.op = "count" => w.from \in Statuses
         /\ w.op = "claim" => w.from \in Statuses /\ w.to \in Statuses
BY DEF InFlight, Idle

\* Starting and ending a request keep the type of doing.
LEMMA DoingTyped ==
  ASSUME NEW u \in Staff, NEW w \in InFlight, doing \in [Staff -> InFlight],
         doing' = [doing EXCEPT ![u] = w]
  PROVE  doing' \in [Staff -> InFlight]
OBVIOUS

LEMMA IdleTyped == Idle \in InFlight
BY DEF InFlight

LEMMA StartTyped ==
  ASSUME NEW u \in Staff, NEW w \in InFlight, doing \in [Staff -> InFlight], Start(u, w)
  PROVE  doing' \in [Staff -> InFlight]
BY DEF Start

LEMMA DoneTyped ==
  ASSUME NEW u \in Staff, doing \in [Staff -> InFlight], Done(u)
  PROVE  doing' \in [Staff -> InFlight]
BY IdleTyped DEF Done

LEMMA StampsTyped ==
  ASSUME stamps \in SUBSET Stamps, NEW from, NEW to
  PROVE  StampsAfter(from, to) \in SUBSET Stamps
BY DEF StampsAfter, Stamps

LEMMA TotalIsNat ==
  ASSUME TypeOK
  PROVE  CustomerTotal \in Nat
<1>1. CustomerLines(billTo) \in SUBSET Lines
  BY DEF CustomerLines
<1>. QED
  BY <1>1, LineTotalAssumption DEF CustomerTotal

\* What the tables of requests become when one is asked for or decided.
LEMMA AskedTyped ==
  ASSUME NEW rows \in [Requests -> RequestRows], NEW r \in Requests, NEW u \in Staff
  PROVE  [rows EXCEPT ![r] = [state |-> "PENDING", by |-> u]] \in [Requests -> RequestRows]
BY DEF RequestRows

LEMMA DecidedTyped ==
  ASSUME NEW rows \in [Requests -> RequestRows], NEW r \in Requests
  PROVE  /\ Decided(rows, r, "APPROVED") \in [Requests -> RequestRows]
         /\ Decided(rows, r, "DECLINED") \in [Requests -> RequestRows]
         /\ Superseded(rows) \in [Requests -> RequestRows]
BY DEF Decided, Superseded, RequestRows

LEMMA MoneyTyped ==
  ASSUME TypeOK, NEW u \in Staff, MoneyStep(u)
  PROVE  TypeOK'
<1>1. ASSUME NEW f \in Forms, NEW n \in Amounts, RecordPayment(u, f, n)
      PROVE  TypeOK'
  <2>1. n \in Nat
    BY AmountsAssumption
  <2>2. status' \in Statuses /\ stamps' \in SUBSET Stamps
    BY <1>1 DEF RecordPayment, TypeOK, Statuses, Stamps
  <2>. QED
    BY <1>1, <2>1, <2>2 DEF RecordPayment, TypeOK, requests
<1>2. ASSUME NEW f \in Forms, NEW n \in Amounts, RecordRefund(u, f, n)
      PROVE  TypeOK'
  <2>1. n \in Nat
    BY AmountsAssumption
  <2>. QED
    BY <1>2, <2>1 DEF RecordRefund, TypeOK, requests
<1>3. ASSUME NEW l \in Lines, NEW b \in BillTo, ReadBillTo(u, l, b)
      PROVE  TypeOK'
  <2>1. [op |-> "billTo", line |-> l, from |-> billTo[l], to |-> b] \in InFlight
    BY DEF TypeOK, InFlight
  <2>2. doing' \in [Staff -> InFlight]
    BY <1>3, <2>1, StartTyped DEF ReadBillTo, TypeOK
  <2>. QED
    BY <1>3, <2>2 DEF ReadBillTo, TypeOK, money, requests
<1>4. CASE SaveBillTo(u)
  <2>1. doing[u].line \in Lines /\ doing[u].to \in BillTo
    BY <1>4, CarriedBillTo DEF SaveBillTo, TypeOK
  <2>2. doing' \in [Staff -> InFlight]
    BY <1>4, DoneTyped DEF SaveBillTo, TypeOK
  <2>. QED
    BY <1>4, <2>1, <2>2 DEF SaveBillTo, TypeOK, requests
<1>5. CASE NotifyCustomer(u)
  BY <1>5 DEF NotifyCustomer, TypeOK, Statuses, money, requests
<1>. QED
  BY <1>1, <1>2, <1>3, <1>4, <1>5 DEF MoneyStep

LEMMA MoveTyped ==
  ASSUME TypeOK, NEW u \in Staff, MoveStep(u)
  PROVE  TypeOK'
<1>1. ASSUME NEW to \in Statuses, ReadForMove(u, to)
      PROVE  TypeOK'
  <2>1. [op |-> "move", from |-> status, to |-> to] \in InFlight
    BY DEF TypeOK, InFlight
  <2>2. doing' \in [Staff -> InFlight]
    BY <1>1, <2>1, StartTyped DEF ReadForMove, TypeOK
  <2>. QED
    BY <1>1, <2>2 DEF ReadForMove, TypeOK, money, requests
<1>2. CASE SaveMove(u)
  <2>1. doing[u].to \in Statuses
    BY <1>2, CarriedMove DEF SaveMove, TypeOK
  <2>2. stamps' \in SUBSET Stamps
    BY <1>2, StampsTyped DEF SaveMove, TypeOK
  <2>3. doing' \in [Staff -> InFlight]
    BY <1>2, DoneTyped DEF SaveMove, TypeOK
  <2>. QED
    BY <1>2, <2>1, <2>2, <2>3 DEF SaveMove, TypeOK, money, requests
<1>. QED
  BY <1>1, <1>2 DEF MoveStep

LEMMA RequestTyped ==
  ASSUME TypeOK, NEW u \in Staff, RequestStep(u)
  PROVE  TypeOK'
<1>1. CASE ReadForClose(u)
  <2>1. [op |-> "close"] \in InFlight
    BY DEF InFlight
  <2>2. doing' \in [Staff -> InFlight]
    BY <1>1, <2>1, StartTyped DEF ReadForClose, TypeOK
  <2>. QED
    BY <1>1, <2>2 DEF ReadForClose, TypeOK, money, requests
<1>2. CASE ReadForCancellation(u)
  <2>1. [op |-> "cancel"] \in InFlight
    BY DEF InFlight
  <2>2. doing' \in [Staff -> InFlight]
    BY <1>2, <2>1, StartTyped DEF ReadForCancellation, TypeOK
  <2>. QED
    BY <1>2, <2>2 DEF ReadForCancellation, TypeOK, money, requests
<1>3. ASSUME NEW r \in Requests, SaveRequest(u, r)
      PROVE  TypeOK'
  <2>1. closes' \in [Requests -> RequestRows] /\ cancels' \in [Requests -> RequestRows]
    BY <1>3, AskedTyped DEF SaveRequest, Asked, TypeOK
  <2>2. doing' \in [Staff -> InFlight]
    BY <1>3, DoneTyped DEF SaveRequest, TypeOK
  <2>. QED
    BY <1>3, <2>1, <2>2 DEF SaveRequest, TypeOK, money
<1>4. ASSUME NEW r \in Requests, ApproveCancellation(u, r)
      PROVE  TypeOK'
  <2>1. closes' \in [Requests -> RequestRows] /\ cancels' \in [Requests -> RequestRows]
    BY <1>4, DecidedTyped DEF ApproveCancellation, TypeOK
  <2>2. parts' \in [PartsGroups -> {"NONE", "OPEN", "RECEIVED"}]
    BY <1>4 DEF ApproveCancellation, Withdrawn, TypeOK
  <2>. QED
    BY <1>4, <2>1, <2>2 DEF ApproveCancellation, TypeOK, Statuses, money
<1>5. ASSUME NEW r \in Requests, ApproveClose(u, r)
      PROVE  TypeOK'
  <2>1. closes' \in [Requests -> RequestRows] /\ cancels' \in [Requests -> RequestRows]
    BY <1>5, DecidedTyped DEF ApproveClose, TypeOK
  <2>2. parts' \in [PartsGroups -> {"NONE", "OPEN", "RECEIVED"}]
    BY <1>5 DEF ApproveClose, Withdrawn, TypeOK
  <2>3. status' \in Statuses /\ stamps' \in SUBSET Stamps
    BY <1>5 DEF ApproveClose, TypeOK, Statuses, Stamps
  <2>. QED
    BY <1>5, <2>1, <2>2, <2>3 DEF ApproveClose, TypeOK, money
<1>6. ASSUME NEW r \in Requests, DeclineRequest(u, r)
      PROVE  TypeOK'
  <2>1. closes' \in [Requests -> RequestRows] /\ cancels' \in [Requests -> RequestRows]
    BY <1>6, DecidedTyped DEF DeclineRequest, TypeOK
  <2>. QED
    BY <1>6, <2>1 DEF DeclineRequest, TypeOK, money
<1>. QED
  BY <1>1, <1>2, <1>3, <1>4, <1>5, <1>6 DEF RequestStep

LEMMA PartsTyped ==
  ASSUME TypeOK, NEW u \in Staff, PartsStep(u)
  PROVE  TypeOK'
<1>1. CASE ReadForParts(u)
  <2>1. [op |-> "parts"] \in InFlight
    BY DEF InFlight
  <2>2. doing' \in [Staff -> InFlight]
    BY <1>1, <2>1, StartTyped DEF ReadForParts, TypeOK
  <2>. QED
    BY <1>1, <2>2 DEF ReadForParts, TypeOK, money, requests
<1>2. [op |-> "sync"] \in InFlight
  BY DEF InFlight
<1>3. ASSUME NEW g \in PartsGroups, SaveParts(u, g)
      PROVE  TypeOK'
  <2>1. doing' \in [Staff -> InFlight]
    BY <1>2, <1>3 DEF SaveParts, TypeOK
  <2>. QED
    BY <1>3, <2>1 DEF SaveParts, TypeOK, money, requests
<1>4. ASSUME NEW g \in PartsGroups, SettleParts(u, g)
      PROVE  TypeOK'
  <2>1. doing' \in [Staff -> InFlight]
    BY <1>2, <1>4, StartTyped DEF SettleParts, TypeOK
  <2>2. parts' \in [PartsGroups -> {"NONE", "OPEN", "RECEIVED"}]
    BY <1>4 DEF SettleParts, TypeOK
  <2>. QED
    BY <1>4, <2>1, <2>2 DEF SettleParts, TypeOK, money, requests
<1>5. CASE SyncRead(u)
  <2>1. [op |-> "count", from |-> status] \in InFlight
    BY DEF TypeOK, InFlight
  <2>2. doing' \in [Staff -> InFlight]
    BY <1>5, <2>1, IdleTyped DEF SyncRead, TypeOK
  <2>. QED
    BY <1>5, <2>2 DEF SyncRead, TypeOK, money, requests
<1>6. CASE SyncCount(u)
  <2>1. doing[u] \in InFlight /\ doing[u].from \in Statuses
    BY <1>6, CarriedSync DEF SyncCount, TypeOK
  <2>2. SyncTarget(doing[u].from) \in Statuses
    BY <2>1 DEF SyncTarget, Statuses
  <2>3. [op |-> "claim", from |-> doing[u].from, to |-> SyncTarget(doing[u].from)] \in InFlight
    BY <2>1, <2>2 DEF InFlight
  <2>4. doing' \in [Staff -> InFlight]
    BY <1>6, <2>3, IdleTyped DEF SyncCount, TypeOK
  <2>. QED
    BY <1>6, <2>4 DEF SyncCount, TypeOK, money, requests
<1>7. CASE SyncSave(u)
  <2>1. doing[u].to \in Statuses
    BY <1>7, CarriedSync DEF SyncSave, TypeOK
  <2>2. doing' \in [Staff -> InFlight]
    BY <1>7, DoneTyped DEF SyncSave, TypeOK
  <2>. QED
    BY <1>7, <2>1, <2>2 DEF SyncSave, TypeOK, money, requests
<1>. QED
  BY <1>1, <1>3, <1>4, <1>5, <1>6, <1>7 DEF PartsStep

LEMMA GiveUpTyped ==
  ASSUME TypeOK, NEW u \in Staff, GiveUp(u)
  PROVE  TypeOK'
<1>1. doing' \in [Staff -> InFlight]
  BY DoneTyped DEF GiveUp, TypeOK
<1>. QED
  BY <1>1 DEF GiveUp, TypeOK, money, requests

LEMMA InitTyped == Init => TypeOK
<1>. SUFFICES ASSUME Init PROVE TypeOK
  OBVIOUS
<1>1. billTo \in [Lines -> BillTo]
  BY BillToAssumption DEF Init
<1>2. closes \in [Requests -> RequestRows] /\ cancels \in [Requests -> RequestRows]
  BY DEF Init, RequestRows
<1>. QED
  BY <1>1, <1>2, IdleTyped DEF Init, TypeOK, Statuses

LEMMA StepTyped ==
  ASSUME TypeOK, [Next]_vars
  PROVE  TypeOK'
<1>1. CASE Next
  BY <1>1, MoneyTyped, MoveTyped, RequestTyped, PartsTyped, GiveUpTyped DEF Next
<1>2. CASE UNCHANGED vars
  BY <1>2 DEF vars, money, requests, TypeOK
<1>. QED
  BY <1>1, <1>2

\* Every state of a Job Card, and every request in flight, has its type.
THEOREM TypeCorrect == Spec => []TypeOK
BY InitTyped, StepTyped, PTL DEF Spec

-----------------------------------------------------------------------------
(***************************************************************************)
(* Without a Master Admin, who may move a Job Card anywhere, every request *)
(* in flight keeps a little of what it checked, and that is enough.        *)
(***************************************************************************)
NoMasterAdmin == Holders["admin"] = {}

InSourcing == {"IN_PROGRESS", "AWAITING_PARTS"}

\* A stale move still leads where its checks allowed: only a closed or a
\* cancelled job is handed back, and work is not entered from outside.
MovesAllowed ==
  \A u \in Staff : doing[u].op = "move" =>
    /\ doing[u].to \notin {"CLOSED", "CANCELLED"}
    /\ doing[u].to = "CHECKED_OUT" <=> doing[u].from \in {"CLOSED", "CANCELLED"}
    /\ doing[u].to \in WorkStarted => doing[u].from \in WorkStarted
    /\ doing[u].from # "CHECKED_OUT"

SyncsAllowed ==
  \A u \in Staff :
    /\ doing[u].op = "count" => doing[u].from \in InSourcing
    /\ doing[u].op = "claim" => doing[u].from \in InSourcing /\ doing[u].to \in InSourcing

\* Whoever is about to hand back a cancelled job's vehicle saw all the money
\* returned, and nothing can be taken or returned since.
HandBackPaid ==
  \A u \in Staff : doing[u].op = "move" /\ doing[u].from = "CANCELLED" =>
    status \in {"CANCELLED", "CHECKED_OUT"} /\ refunded = paid

\* FinishedByOneDecision, said of the rows.
OneDecision ==
  /\ status \in Finished <=> \E r \in Requests : r \in Approved(closes) \/ r \in Approved(cancels)
  /\ \A r, s \in Requests :
       /\ r \in Approved(closes) /\ s \in Approved(closes) => r = s
       /\ r \in Approved(cancels) /\ s \in Approved(cancels) => r = s
       /\ ~(r \in Approved(closes) /\ s \in Approved(cancels))
  /\ status = "CLOSED" => \E r \in Requests : r \in Approved(closes)
  /\ status = "CANCELLED" => \E r \in Requests : r \in Approved(cancels)

JobInv ==
  /\ TypeOK
  /\ RefundedWithinPaid
  /\ MovesAllowed
  /\ SyncsAllowed
  /\ HandBackPaid
  /\ HandedBackRefunded
  /\ OneDecision

-----------------------------------------------------------------------------
(***************************************************************************)
(* What each part of the state is changed by.                              *)
(***************************************************************************)
LEMMA MoneyChanges ==
  ASSUME [Next]_vars
  PROVE  \/ \E u \in Staff, f \in Forms, n \in Amounts : RecordPayment(u, f, n) \/ RecordRefund(u, f, n)
         \/ UNCHANGED <<paid, refunded>>
<1>1. ASSUME NEW u \in Staff, MoneyStep(u)
      PROVE  \/ \E f \in Forms, n \in Amounts : RecordPayment(u, f, n) \/ RecordRefund(u, f, n)
             \/ UNCHANGED <<paid, refunded>>
  BY <1>1 DEF MoneyStep, ReadBillTo, SaveBillTo, NotifyCustomer, money
<1>2. ASSUME NEW u \in Staff, MoveStep(u) \/ PartsStep(u) \/ GiveUp(u)
      PROVE  UNCHANGED <<paid, refunded>>
  BY <1>2 DEF MoveStep, ReadForMove, SaveMove, PartsStep, ReadForParts, SaveParts, SettleParts,
              SyncRead, SyncCount, SyncSave, GiveUp, money
<1>3. ASSUME NEW u \in Staff, RequestStep(u)
      PROVE  UNCHANGED <<paid, refunded>>
  BY <1>3 DEF RequestStep, ReadForClose, ReadForCancellation, SaveRequest, ApproveCancellation,
              ApproveClose, DeclineRequest, money
<1>4. CASE UNCHANGED vars
  BY <1>4 DEF vars, money
<1>. QED
  BY <1>1, <1>2, <1>3, <1>4 DEF Next

LEMMA RowsChange ==
  ASSUME [Next]_vars
  PROVE  \/ \E u \in Staff, r \in Requests : \/ SaveRequest(u, r)
                                           \/ ApproveCancellation(u, r)
                                           \/ ApproveClose(u, r)
                                           \/ DeclineRequest(u, r)
         \/ UNCHANGED <<closes, cancels>>
<1>1. ASSUME NEW u \in Staff, MoneyStep(u) \/ MoveStep(u) \/ GiveUp(u)
      PROVE  UNCHANGED <<closes, cancels>>
  BY <1>1 DEF MoneyStep, RecordPayment, RecordRefund, ReadBillTo, SaveBillTo, NotifyCustomer,
              MoveStep, ReadForMove, SaveMove, GiveUp, requests
<1>2. ASSUME NEW u \in Staff, PartsStep(u)
      PROVE  UNCHANGED <<closes, cancels>>
  BY <1>2 DEF PartsStep, ReadForParts, SaveParts, SettleParts, SyncRead, SyncCount, SyncSave, requests
<1>3. ASSUME NEW u \in Staff, RequestStep(u)
      PROVE  \/ \E r \in Requests : \/ SaveRequest(u, r)
                                   \/ ApproveCancellation(u, r)
                                   \/ ApproveClose(u, r)
                                   \/ DeclineRequest(u, r)
             \/ UNCHANGED <<closes, cancels>>
  BY <1>3 DEF RequestStep, ReadForClose, ReadForCancellation, requests
<1>4. CASE UNCHANGED vars
  BY <1>4 DEF vars, requests
<1>. QED
  BY <1>1, <1>2, <1>3, <1>4 DEF Next

LEMMA StatusChanges ==
  ASSUME [Next]_vars
  PROVE  \/ \E u \in Staff : \/ \E f \in Forms, n \in Amounts : RecordPayment(u, f, n)
                            \/ NotifyCustomer(u)
                            \/ SaveMove(u)
                            \/ SyncSave(u)
                            \/ \E r \in Requests : ApproveCancellation(u, r) \/ ApproveClose(u, r)
         \/ UNCHANGED status
<1>1. ASSUME NEW u \in Staff, MoneyStep(u)
      PROVE  \/ \E f \in Forms, n \in Amounts : RecordPayment(u, f, n)
             \/ NotifyCustomer(u)
             \/ UNCHANGED status
  BY <1>1 DEF MoneyStep, RecordRefund, ReadBillTo, SaveBillTo
<1>2. ASSUME NEW u \in Staff, MoveStep(u) \/ PartsStep(u) \/ GiveUp(u)
      PROVE  SaveMove(u) \/ SyncSave(u) \/ UNCHANGED status
  BY <1>2 DEF MoveStep, ReadForMove, PartsStep, ReadForParts, SaveParts, SettleParts,
              SyncRead, SyncCount, GiveUp
<1>3. ASSUME NEW u \in Staff, RequestStep(u)
      PROVE  \/ \E r \in Requests : ApproveCancellation(u, r) \/ ApproveClose(u, r)
             \/ UNCHANGED status
  BY <1>3 DEF RequestStep, ReadForClose, ReadForCancellation, SaveRequest, DeclineRequest
<1>4. CASE UNCHANGED vars
  BY <1>4 DEF vars
<1>. QED
  BY <1>1, <1>2, <1>3, <1>4 DEF Next

\* What a member of staff may have in flight after a step that was not in
\* flight before it.
NewWork(u, w) ==
  \/ w.op \notin {"move", "count", "claim"}
  \/ \E to \in Statuses : MayMove(u, to) /\ w = [op |-> "move", from |-> status, to |-> to]
  \/ w = [op |-> "count", from |-> status] /\ status \in InSourcing
  \/ /\ doing[u].op = "count"
     /\ w = [op |-> "claim", from |-> doing[u].from, to |-> SyncTarget(doing[u].from)]

LEMMA DoingChanges ==
  ASSUME TypeOK, [Next]_vars, NEW v \in Staff
  PROVE  doing'[v] = doing[v] \/ NewWork(v, doing'[v])
<1>1. ASSUME NEW u \in Staff, NEW w, doing' = [doing EXCEPT ![u] = w], NewWork(u, w)
      PROVE  doing'[v] = doing[v] \/ NewWork(v, doing'[v])
  BY <1>1 DEF TypeOK
<1>2. \A u \in Staff : NewWork(u, Idle)
  BY DEF NewWork, Idle
<1>3. ASSUME NEW u \in Staff, MoneyStep(u)
      PROVE  doing'[v] = doing[v] \/ NewWork(v, doing'[v])
  <2>1. ASSUME NEW l \in Lines, NEW b \in BillTo, ReadBillTo(u, l, b)
        PROVE  doing'[v] = doing[v] \/ NewWork(v, doing'[v])
    <3>. DEFINE w == [op |-> "billTo", line |-> l, from |-> billTo[l], to |-> b]
    <3>1. NewWork(u, w)
      BY DEF NewWork
    <3>. QED
      BY <1>1, <2>1, <3>1 DEF ReadBillTo, Start
  <2>2. CASE SaveBillTo(u)
    BY <1>1, <1>2, <2>2 DEF SaveBillTo, Done
  <2>. QED
    BY <1>3, <2>1, <2>2 DEF MoneyStep, RecordPayment, RecordRefund, NotifyCustomer
<1>4. ASSUME NEW u \in Staff, MoveStep(u)
      PROVE  doing'[v] = doing[v] \/ NewWork(v, doing'[v])
  <2>1. ASSUME NEW to \in Statuses, ReadForMove(u, to)
        PROVE  doing'[v] = doing[v] \/ NewWork(v, doing'[v])
    <3>1. NewWork(u, [op |-> "move", from |-> status, to |-> to])
      BY <2>1 DEF NewWork, ReadForMove
    <3>. QED
      BY <1>1, <2>1, <3>1 DEF ReadForMove, Start
  <2>2. CASE SaveMove(u)
    BY <1>1, <1>2, <2>2 DEF SaveMove, Done
  <2>. QED
    BY <1>4, <2>1, <2>2 DEF MoveStep
<1>5. ASSUME NEW u \in Staff, RequestStep(u)
      PROVE  doing'[v] = doing[v] \/ NewWork(v, doing'[v])
  <2>1. NewWork(u, [op |-> "close"]) /\ NewWork(u, [op |-> "cancel"])
    BY DEF NewWork
  <2>. QED
    BY <1>1, <1>2, <1>5, <2>1 DEF RequestStep, ReadForClose, ReadForCancellation, SaveRequest,
         ApproveCancellation, ApproveClose, DeclineRequest, Start, Done
<1>6. ASSUME NEW u \in Staff, PartsStep(u)
      PROVE  doing'[v] = doing[v] \/ NewWork(v, doing'[v])
  <2>1. NewWork(u, [op |-> "parts"]) /\ NewWork(u, [op |-> "sync"])
    BY DEF NewWork
  <2>2. CASE SyncRead(u)
    <3>1. status \in InSourcing => NewWork(u, [op |-> "count", from |-> status])
      BY DEF NewWork
    <3>. QED
      BY <1>1, <1>2, <2>2, <3>1 DEF SyncRead, InSourcing
  <2>3. CASE SyncCount(u)
    <3>. DEFINE w == [op |-> "claim", from |-> doing[u].from, to |-> SyncTarget(doing[u].from)]
    <3>1. NewWork(u, w)
      BY <2>3 DEF NewWork, SyncCount
    <3>2. doing' = [doing EXCEPT ![u] = Idle] \/ doing' = [doing EXCEPT ![u] = w]
      BY <2>3 DEF SyncCount, TypeOK
    <3>. QED
      BY <1>1, <1>2, <3>1, <3>2
  <2>. QED
    BY <1>1, <1>2, <1>6, <2>1, <2>2, <2>3 DEF PartsStep, ReadForParts, SaveParts, SettleParts,
         SyncSave, Start, Done
<1>7. ASSUME NEW u \in Staff, GiveUp(u)
      PROVE  doing'[v] = doing[v] \/ NewWork(v, doing'[v])
  BY <1>1, <1>2, <1>7 DEF GiveUp, Done
<1>8. CASE UNCHANGED vars
  BY <1>8 DEF vars
<1>. QED
  BY <1>3, <1>4, <1>5, <1>6, <1>7, <1>8 DEF Next

-----------------------------------------------------------------------------
(***************************************************************************)
(* Money and requests, with or without a Master Admin                      *)
(***************************************************************************)
LEMMA RemainingBounds ==
  ASSUME TypeOK, NEW n \in Amounts, n <= Remaining(CustomerOwes)
  PROVE  n \in Nat /\ n > 0 /\ refunded + n <= paid
<1>1. n \in Nat /\ n > 0
  BY AmountsAssumption
<1>2. CustomerOwes \in Nat
  BY TotalIsNat DEF CustomerOwes
<1>. QED
  BY <1>1, <1>2 DEF Remaining, TypeOK

LEMMA RefundStep ==
  ASSUME TypeOK, RefundedWithinPaid, [Next]_vars
  PROVE  RefundedWithinPaid'
<1>1. ASSUME NEW u \in Staff, NEW f \in Forms, NEW n \in Amounts, RecordPayment(u, f, n)
      PROVE  RefundedWithinPaid'
  BY <1>1, AmountsAssumption DEF RecordPayment, RefundedWithinPaid, TypeOK
<1>2. ASSUME NEW u \in Staff, NEW f \in Forms, NEW n \in Amounts, RecordRefund(u, f, n)
      PROVE  RefundedWithinPaid'
  BY <1>2, RemainingBounds DEF RecordRefund, RefundedWithinPaid, TypeOK
<1>3. CASE UNCHANGED <<paid, refunded>>
  BY <1>3 DEF RefundedWithinPaid
<1>. QED
  BY <1>1, <1>2, <1>3, MoneyChanges

LEMMA EstimateStep ==
  ASSUME TypeOK, PaidWithinEstimate, [Next]_vars
  PROVE  PaidWithinEstimate'
<1>1. CustomerTotal <= LineTotal[Lines]
  BY LineTotalAssumption DEF CustomerTotal, CustomerLines
<1>2. ASSUME NEW u \in Staff, NEW f \in Forms, NEW n \in Amounts, RecordPayment(u, f, n)
      PROVE  PaidWithinEstimate'
  <2>1. n \in Nat /\ LineTotal[Lines] \in Nat
    BY AmountsAssumption, LineTotalAssumption
  <2>. QED
    BY <1>1, <1>2, <2>1, TotalIsNat DEF RecordPayment, ExceedsBalance, PaidWithinEstimate, TypeOK
<1>3. ASSUME NEW u \in Staff, NEW f \in Forms, NEW n \in Amounts, RecordRefund(u, f, n)
      PROVE  PaidWithinEstimate'
  BY <1>3 DEF RecordRefund, PaidWithinEstimate
<1>4. CASE UNCHANGED <<paid, refunded>>
  BY <1>4 DEF PaidWithinEstimate
<1>. QED
  BY <1>2, <1>3, <1>4, MoneyChanges

LEMMA AskedKeepsOne ==
  ASSUME NEW rows \in [Requests -> RequestRows], NEW rowsAfter, NEW r \in Requests, NEW u \in Staff,
         NonePending(rows), rowsAfter = [rows EXCEPT ![r] = [state |-> "PENDING", by |-> u]]
  PROVE  \A s, t \in Pending(rowsAfter) : s = t
BY DEF NonePending, Pending

LEMMA DecidedKeepsOne ==
  ASSUME NEW rows \in [Requests -> RequestRows], NEW r \in Requests,
         \A s, t \in Pending(rows) : s = t
  PROVE  /\ \A s, t \in Pending(Decided(rows, r, "APPROVED")) : s = t
         /\ \A s, t \in Pending(Decided(rows, r, "DECLINED")) : s = t
         /\ \A s, t \in Pending(Superseded(rows)) : s = t
BY DEF Decided, Superseded, Pending

LEMMA OnePendingStep ==
  ASSUME TypeOK, OnePendingEach, [Next]_vars
  PROVE  OnePendingEach'
<1>. USE DEF OnePendingEach
<1>1. closes \in [Requests -> RequestRows] /\ cancels \in [Requests -> RequestRows]
  BY DEF TypeOK
<1>2. ASSUME NEW u \in Staff, NEW r \in Requests, SaveRequest(u, r)
      PROVE  OnePendingEach'
  BY <1>1, <1>2, AskedKeepsOne DEF SaveRequest, Asked
<1>3. ASSUME NEW u \in Staff, NEW r \in Requests, ApproveCancellation(u, r)
      PROVE  OnePendingEach'
  BY <1>1, <1>3, DecidedKeepsOne DEF ApproveCancellation
<1>4. ASSUME NEW u \in Staff, NEW r \in Requests, ApproveClose(u, r)
      PROVE  OnePendingEach'
  BY <1>1, <1>4, DecidedKeepsOne DEF ApproveClose
<1>5. ASSUME NEW u \in Staff, NEW r \in Requests, DeclineRequest(u, r)
      PROVE  OnePendingEach'
  BY <1>1, <1>5, DecidedKeepsOne DEF DeclineRequest
<1>6. CASE UNCHANGED <<closes, cancels>>
  BY <1>6
<1>. QED
  BY <1>2, <1>3, <1>4, <1>5, <1>6, RowsChange

\* recordRefund: for any amounts, forms and interleaving, no more is given
\* back than was taken.
THEOREM RefundsBounded == Spec => []RefundedWithinPaid
<1>1. Init => RefundedWithinPaid
  BY DEF Init, RefundedWithinPaid
<1>. QED
  BY <1>1, TypeCorrect, RefundStep, PTL DEF Spec

\* recordPayment: for any estimate and any bill-to decisions, the payments
\* never pass what the whole estimate comes to.
THEOREM PaymentsBounded == Spec => []PaidWithinEstimate
<1>1. Init => PaidWithinEstimate
  <2>1. LineTotal[Lines] \in Nat
    BY LineTotalAssumption
  <2>. QED
    BY <2>1 DEF Init, PaidWithinEstimate
<1>. QED
  BY <1>1, TypeCorrect, EstimateStep, PTL DEF Spec

\* requestJobCardClose, requestJobCardCancellation: for any number of people
\* asking at once, at most one request of a kind is pending.
THEOREM OnePending == Spec => []OnePendingEach
<1>1. Init => OnePendingEach
  BY DEF Init, OnePendingEach, Pending
<1>. QED
  BY <1>1, TypeCorrect, OnePendingStep, PTL DEF Spec

-----------------------------------------------------------------------------
(***************************************************************************)
(* Status moves, without a Master Admin                                    *)
(***************************************************************************)
LEMMA MoveAllowed ==
  ASSUME NoMasterAdmin, TypeOK, NEW u \in Staff, NEW to \in Statuses, MayMove(u, to)
  PROVE  /\ to \notin {"CLOSED", "CANCELLED"}
         /\ to = "CHECKED_OUT" <=> status \in {"CLOSED", "CANCELLED"}
         /\ to \in WorkStarted => status \in WorkStarted
         /\ status # "CHECKED_OUT"
<1>1. CASE status = "CANCELLED"
  BY <1>1 DEF MayMove, WorkStarted
<1>2. CASE status # "CANCELLED"
  <2>1. to \in Selectable(status, u) /\ to \notin {"CLOSED", "CANCELLED"}
    BY <1>2 DEF MayMove, NoMasterAdmin
  <2>. QED
    BY <1>2, <2>1 DEF Selectable, WorkStarted, TypeOK, Statuses
<1>. QED
  BY <1>1, <1>2

LEMMA MovesAllowedStep ==
  ASSUME NoMasterAdmin, TypeOK, MovesAllowed, [Next]_vars
  PROVE  MovesAllowed'
<1>. SUFFICES ASSUME NEW v \in Staff, doing'[v].op = "move"
              PROVE  /\ doing'[v].to \notin {"CLOSED", "CANCELLED"}
                     /\ doing'[v].to = "CHECKED_OUT" <=> doing'[v].from \in {"CLOSED", "CANCELLED"}
                     /\ doing'[v].to \in WorkStarted => doing'[v].from \in WorkStarted
                     /\ doing'[v].from # "CHECKED_OUT"
  BY DEF MovesAllowed
<1>1. CASE doing'[v] = doing[v]
  BY <1>1 DEF MovesAllowed
<1>2. CASE NewWork(v, doing'[v])
  <2>1. PICK to \in Statuses : MayMove(v, to) /\ doing'[v] = [op |-> "move", from |-> status, to |-> to]
    BY <1>2 DEF NewWork
  <2>. QED
    BY <2>1, MoveAllowed
<1>. QED
  BY <1>1, <1>2, DoingChanges

LEMMA SyncsAllowedStep ==
  ASSUME TypeOK, SyncsAllowed, [Next]_vars
  PROVE  SyncsAllowed'
<1>. SUFFICES ASSUME NEW v \in Staff
              PROVE  /\ doing'[v].op = "count" => doing'[v].from \in InSourcing
                     /\ doing'[v].op = "claim" => doing'[v].from \in InSourcing /\ doing'[v].to \in InSourcing
  BY DEF SyncsAllowed
<1>1. CASE doing'[v] = doing[v]
  BY <1>1 DEF SyncsAllowed
<1>2. CASE NewWork(v, doing'[v])
  <2>1. ASSUME NEW from \in InSourcing
        PROVE  SyncTarget(from) \in InSourcing
    BY DEF SyncTarget, InSourcing
  <2>2. ASSUME doing'[v].op = "count"
        PROVE  doing'[v].from \in InSourcing
    <3>1. doing'[v] = [op |-> "count", from |-> status] /\ status \in InSourcing
      <4>1. \A to : [op |-> "move", from |-> status, to |-> to].op # "count"
        OBVIOUS
      <4>2. \A to : [op |-> "claim", from |-> doing[v].from, to |-> to].op # "count"
        OBVIOUS
      <4>. QED
        BY <1>2, <2>2, <4>1, <4>2, Zenon DEF NewWork
    <3>. QED
      BY <3>1
  <2>3. ASSUME doing'[v].op = "claim"
        PROVE  doing'[v].from \in InSourcing /\ doing'[v].to \in InSourcing
    <3>1. /\ doing[v].op = "count"
          /\ doing'[v] = [op |-> "claim", from |-> doing[v].from, to |-> SyncTarget(doing[v].from)]
      <4>1. \A to : [op |-> "move", from |-> status, to |-> to].op # "claim"
        OBVIOUS
      <4>2. [op |-> "count", from |-> status].op # "claim"
        OBVIOUS
      <4>. QED
        BY <1>2, <2>3, <4>1, <4>2, Zenon DEF NewWork
    <3>. QED
      BY <2>1, <3>1 DEF SyncsAllowed
  <2>. QED
    BY <2>2, <2>3
<1>. QED
  BY <1>1, <1>2, DoingChanges

\* A finished Job Card only ever becomes checked out, by a move that was
\* decided while it was closed or cancelled.
LEMMA FinishedSteps ==
  ASSUME MovesAllowed, SyncsAllowed, status \in Finished, [Next]_vars
  PROVE  \/ UNCHANGED status
         \/ \E u \in Staff : /\ SaveMove(u)
                             /\ status = doing[u].from /\ status' = "CHECKED_OUT"
                             /\ doing[u].op = "move" /\ status \in {"CLOSED", "CANCELLED"}
<1>1. ASSUME NEW u \in Staff, NEW f \in Forms, NEW n \in Amounts, RecordPayment(u, f, n)
      PROVE  FALSE
  BY <1>1 DEF RecordPayment, Payable, Finished
<1>2. ASSUME NEW u \in Staff, NotifyCustomer(u)
      PROVE  FALSE
  BY <1>2 DEF NotifyCustomer
<1>3. ASSUME NEW u \in Staff, SyncSave(u)
      PROVE  FALSE
  BY <1>3 DEF SyncSave, StillIn, SyncsAllowed, InSourcing, Finished
<1>4. ASSUME NEW u \in Staff, NEW r \in Requests, ApproveCancellation(u, r) \/ ApproveClose(u, r)
      PROVE  FALSE
  BY <1>4 DEF ApproveCancellation, ApproveClose, Finished
<1>5. ASSUME NEW u \in Staff, SaveMove(u)
      PROVE  /\ status = doing[u].from /\ status' = "CHECKED_OUT"
             /\ doing[u].op = "move" /\ status \in {"CLOSED", "CANCELLED"}
  BY <1>5 DEF SaveMove, StillIn, MovesAllowed, Finished
<1>. QED
  BY <1>1, <1>2, <1>3, <1>4, <1>5, StatusChanges

\* Only a Manager's decision finishes a Job Card.
LEMMA OpenSteps ==
  ASSUME MovesAllowed, SyncsAllowed, status \notin Finished, [Next]_vars
  PROVE  \/ status' \notin Finished
         \/ \E u \in Staff, r \in Requests : ApproveCancellation(u, r) \/ ApproveClose(u, r)
<1>1. ASSUME NEW u \in Staff, NEW f \in Forms, NEW n \in Amounts, RecordPayment(u, f, n)
      PROVE  status' \notin Finished
  BY <1>1 DEF RecordPayment, Finished
<1>2. ASSUME NEW u \in Staff, NotifyCustomer(u)
      PROVE  status' \notin Finished
  BY <1>2 DEF NotifyCustomer, Finished
<1>3. ASSUME NEW u \in Staff, SyncSave(u)
      PROVE  status' \notin Finished
  BY <1>3 DEF SyncSave, SyncsAllowed, InSourcing, Finished
<1>4. ASSUME NEW u \in Staff, SaveMove(u)
      PROVE  status' \notin Finished
  BY <1>4 DEF SaveMove, StillIn, MovesAllowed, Finished
<1>. QED
  BY <1>1, <1>2, <1>3, <1>4, StatusChanges

\* Once everything is given back on a cancelled job, no money moves again.
LEMMA SettledStays ==
  ASSUME TypeOK, status = "CANCELLED" \/ status = "CHECKED_OUT", refunded = paid, [Next]_vars
  PROVE  UNCHANGED <<paid, refunded>>
<1>1. ASSUME NEW u \in Staff, NEW f \in Forms, NEW n \in Amounts, RecordPayment(u, f, n)
      PROVE  FALSE
  BY <1>1 DEF RecordPayment, Payable
<1>2. ASSUME NEW u \in Staff, NEW f \in Forms, NEW n \in Amounts, RecordRefund(u, f, n)
      PROVE  FALSE
  <2>1. n \in Nat /\ n > 0 /\ refunded + n <= paid
    BY <1>2, RemainingBounds DEF RecordRefund
  <2>. QED
    BY <2>1 DEF TypeOK
<1>. QED
  BY <1>1, <1>2, MoneyChanges

LEMMA HandBackStep ==
  ASSUME NoMasterAdmin, JobInv, [Next]_vars
  PROVE  HandBackPaid'
<1>. USE DEF JobInv
<1>. SUFFICES ASSUME NEW v \in Staff, doing'[v].op = "move", doing'[v].from = "CANCELLED"
              PROVE  status' \in {"CANCELLED", "CHECKED_OUT"} /\ refunded' = paid'
  BY DEF HandBackPaid
<1>1. status \in {"CANCELLED", "CHECKED_OUT"} /\ refunded = paid
  <2>1. CASE doing'[v] = doing[v]
    BY <2>1 DEF HandBackPaid
  <2>2. CASE NewWork(v, doing'[v])
    <3>1. PICK to \in Statuses : MayMove(v, to) /\ doing'[v] = [op |-> "move", from |-> status, to |-> to]
      BY <2>2 DEF NewWork
    <3>2. status = "CANCELLED" /\ FullyRefunded
      BY <3>1 DEF MayMove
    <3>. QED
      BY <3>2 DEF FullyRefunded, RefundedWithinPaid, TypeOK
  <2>. QED
    BY <2>1, <2>2, DoingChanges
<1>2. UNCHANGED <<paid, refunded>>
  BY <1>1, SettledStays
<1>3. status' = status \/ status' = "CHECKED_OUT"
  BY <1>1, FinishedSteps DEF Finished
<1>. QED
  BY <1>1, <1>2, <1>3

-----------------------------------------------------------------------------
(***************************************************************************)
(* Decisions, without a Master Admin                                       *)
(***************************************************************************)
\* Asking and declining approve nothing and take back no approval.
LEMMA ApprovedStays ==
  ASSUME TypeOK, [Next]_vars,
         ~\E u \in Staff, r \in Requests : ApproveCancellation(u, r) \/ ApproveClose(u, r)
  PROVE  Approved(closes)' = Approved(closes) /\ Approved(cancels)' = Approved(cancels)
<1>1. closes \in [Requests -> RequestRows] /\ cancels \in [Requests -> RequestRows]
  BY DEF TypeOK
<1>2. ASSUME NEW u \in Staff, NEW r \in Requests, SaveRequest(u, r)
      PROVE  Approved(closes)' = Approved(closes) /\ Approved(cancels)' = Approved(cancels)
  BY <1>1, <1>2 DEF SaveRequest, Asked, Approved
<1>3. ASSUME NEW u \in Staff, NEW r \in Requests, DeclineRequest(u, r)
      PROVE  Approved(closes)' = Approved(closes) /\ Approved(cancels)' = Approved(cancels)
  BY <1>1, <1>3 DEF DeclineRequest, Decided, Approved
<1>4. CASE UNCHANGED <<closes, cancels>>
  BY <1>4 DEF Approved
<1>. QED
  BY <1>2, <1>3, <1>4, RowsChange

LEMMA DecidedApproves ==
  ASSUME NEW rows \in [Requests -> RequestRows], NEW r \in Requests, Approved(rows) = {}
  PROVE  /\ Approved(Decided(rows, r, "APPROVED")) = {r}
         /\ Approved(Superseded(rows)) = {}
BY DEF Decided, Superseded, Approved

LEMMA OneDecisionStep ==
  ASSUME JobInv, [Next]_vars
  PROVE  OneDecision'
<1>. USE DEF JobInv
<1>1. closes \in [Requests -> RequestRows] /\ cancels \in [Requests -> RequestRows]
  BY DEF TypeOK
<1>2. ASSUME status \notin Finished
      PROVE  Approved(closes) = {} /\ Approved(cancels) = {}
  BY <1>2 DEF OneDecision, Approved
<1>3. ASSUME NEW u \in Staff, NEW r \in Requests, ApproveCancellation(u, r)
      PROVE  OneDecision'
  <2>1. status' = "CANCELLED" /\ Approved(cancels') = {r} /\ Approved(closes') = {}
    BY <1>1, <1>2, <1>3, DecidedApproves DEF ApproveCancellation
  <2>. QED
    BY <2>1 DEF OneDecision, Finished, Approved
<1>4. ASSUME NEW u \in Staff, NEW r \in Requests, ApproveClose(u, r)
      PROVE  OneDecision'
  <2>1. status \notin Finished
    BY <1>4 DEF ApproveClose, Finished
  <2>2. status' = "CLOSED" /\ Approved(closes') = {r} /\ Approved(cancels') = {}
    BY <1>1, <1>2, <1>4, <2>1, DecidedApproves DEF ApproveClose
  <2>. QED
    BY <2>2 DEF OneDecision, Finished, Approved
<1>5. ASSUME ~\E u \in Staff, r \in Requests : ApproveCancellation(u, r) \/ ApproveClose(u, r)
      PROVE  OneDecision'
  <2>1. Approved(closes') = Approved(closes) /\ Approved(cancels') = Approved(cancels)
    BY <1>5, ApprovedStays DEF Approved
  <2>2. \/ status' = status
        \/ status' = "CHECKED_OUT" /\ status \in Finished
        \/ status' \notin Finished /\ status \notin Finished
    BY <1>5, FinishedSteps, OpenSteps
  <2>3. /\ status' \in Finished <=> status \in Finished
        /\ status' = "CLOSED" => status = "CLOSED"
        /\ status' = "CANCELLED" => status = "CANCELLED"
    BY <2>2 DEF Finished
  <2>4. \A r \in Requests : /\ r \in Approved(closes') <=> r \in Approved(closes)
                            /\ r \in Approved(cancels') <=> r \in Approved(cancels)
    BY <2>1
  <2>. QED
    BY <2>3, <2>4, Zenon DEF OneDecision
<1>. QED
  BY <1>3, <1>4, <1>5

LEMMA HandedBackStep ==
  ASSUME JobInv, [Next]_vars
  PROVE  HandedBackRefunded'
<1>. USE DEF JobInv
<1>. SUFFICES ASSUME status' = "CHECKED_OUT", Approved(cancels') # {}
              PROVE  refunded' = paid'
  BY DEF HandedBackRefunded, Approved
<1>1. ~\E u \in Staff, r \in Requests : ApproveCancellation(u, r) \/ ApproveClose(u, r)
  BY DEF ApproveCancellation, ApproveClose
<1>2. Approved(cancels) # {}
  BY <1>1, ApprovedStays DEF Approved
<1>3. status \in Finished /\ status # "CLOSED"
  BY <1>2 DEF OneDecision, Approved
<1>4. CASE status = "CHECKED_OUT"
  BY <1>2, <1>4, SettledStays DEF HandedBackRefunded
<1>5. CASE status = "CANCELLED"
  <2>1. PICK u \in Staff : SaveMove(u) /\ doing[u].op = "move" /\ status = doing[u].from
    BY <1>3, <1>5, FinishedSteps
  <2>2. refunded = paid
    BY <1>5, <2>1 DEF HandBackPaid
  <2>. QED
    BY <1>5, <2>2, SettledStays
<1>. QED
  BY <1>3, <1>4, <1>5 DEF Finished

LEMMA InitJobInv == Init => JobInv
<1>. SUFFICES ASSUME Init PROVE JobInv
  OBVIOUS
<1>1. TypeOK
  BY InitTyped
<1>2. \A u \in Staff : doing[u].op = "idle"
  BY DEF Init, Idle
<1>3. MovesAllowed /\ SyncsAllowed /\ HandBackPaid
  BY <1>2 DEF MovesAllowed, SyncsAllowed, HandBackPaid
<1>4. RefundedWithinPaid /\ HandedBackRefunded
  BY DEF Init, RefundedWithinPaid, HandedBackRefunded
<1>5. OneDecision
  BY DEF Init, OneDecision, Finished, Approved
<1>. QED
  BY <1>1, <1>3, <1>4, <1>5 DEF JobInv

LEMMA StepJobInv ==
  ASSUME NoMasterAdmin, JobInv, [Next]_vars
  PROVE  JobInv'
<1>1. TypeOK' /\ RefundedWithinPaid'
  BY StepTyped, RefundStep DEF JobInv
<1>2. MovesAllowed' /\ SyncsAllowed'
  BY MovesAllowedStep, SyncsAllowedStep DEF JobInv
<1>3. HandBackPaid' /\ HandedBackRefunded' /\ OneDecision'
  BY HandBackStep, HandedBackStep, OneDecisionStep
<1>. QED
  BY <1>1, <1>2, <1>3 DEF JobInv

LEMMA JobInvHolds ==
  ASSUME NoMasterAdmin
  PROVE  Spec => []JobInv
<1>1. JobInv /\ [Next]_vars => JobInv'
  BY StepJobInv
<1>. QED
  BY <1>1, InitJobInv, PTL DEF Spec

\* approveCloseRequest, approveCancellationRequest: for any staff and any
\* number of requests, a job is finished by exactly one decision.
THEOREM OneDecisionFinishes ==
  ASSUME NoMasterAdmin
  PROVE  Spec => []FinishedByOneDecision
<1>1. JobInv => FinishedByOneDecision
  BY DEF JobInv, OneDecision, FinishedByOneDecision, Approvals, Approved
<1>. QED
  BY <1>1, JobInvHolds, PTL

\* updateJobCardStatus, recordRefund: whatever crosses, a cancelled job's
\* vehicle is handed back only with all its money returned.
THEOREM HandedBackOnlyRefunded ==
  ASSUME NoMasterAdmin
  PROVE  Spec => []HandedBackRefunded
<1>1. JobInv => HandedBackRefunded
  BY DEF JobInv
<1>. QED
  BY <1>1, JobInvHolds, PTL

-----------------------------------------------------------------------------
(***************************************************************************)
(* The clocks of a Job Card, without a Master Admin                        *)
(***************************************************************************)
\* The moves getSelectableJobCardStatuses allows, and the hand-backs.
MoveOrder ==
  {<<"IN_PROGRESS", "AWAITING_PARTS">>, <<"IN_PROGRESS", "QUALITY_CHECK">>,
   <<"AWAITING_PARTS", "IN_PROGRESS">>,
   <<"QUALITY_CHECK", "COMPLETED">>, <<"QUALITY_CHECK", "IN_PROGRESS">>,
   <<"COMPLETED", "READY_FOR_COLLECTION">>, <<"COMPLETED", "IN_PROGRESS">>,
   <<"READY_FOR_COLLECTION", "IN_PROGRESS">>,
   <<"CLOSED", "CHECKED_OUT">>, <<"CANCELLED", "CHECKED_OUT">>}

\* A stale move still follows the order it was checked against.
MovesInOrder ==
  \A u \in Staff : doing[u].op = "move" => <<doing[u].from, doing[u].to>> \in MoveOrder

\* Until the customer is told of the estimate, nothing is worked on.
NothingBeforeNotice == ~notified => status \in {"CHECKED_IN"} \cup Finished

ClockInv == JobInv /\ MovesInOrder /\ NothingBeforeNotice /\ StampsTellTheStatus

LEMMA MoveOrdered ==
  ASSUME NoMasterAdmin, TypeOK, NEW u \in Staff, NEW to \in Statuses, MayMove(u, to)
  PROVE  <<status, to>> \in MoveOrder
<1>1. CASE status = "CANCELLED"
  BY <1>1 DEF MayMove, MoveOrder
<1>2. CASE status # "CANCELLED"
  <2>1. to \in Selectable(status, u) /\ to \notin {"CLOSED", "CANCELLED"}
    BY <1>2 DEF MayMove, NoMasterAdmin
  <2>. QED
    BY <1>2, <2>1 DEF Selectable, MoveOrder, TypeOK, Statuses
<1>. QED
  BY <1>1, <1>2

LEMMA MovesInOrderStep ==
  ASSUME NoMasterAdmin, TypeOK, MovesInOrder, [Next]_vars
  PROVE  MovesInOrder'
<1>. SUFFICES ASSUME NEW v \in Staff, doing'[v].op = "move"
              PROVE  <<doing'[v].from, doing'[v].to>> \in MoveOrder
  BY DEF MovesInOrder
<1>1. CASE doing'[v] = doing[v]
  BY <1>1 DEF MovesInOrder
<1>2. CASE NewWork(v, doing'[v])
  <2>. DEFINE w == doing'[v]
  <2>0. w.op = "move" /\ NewWork(v, w)
    BY <1>2
  <2>. HIDE DEF w
  <2>1. PICK to \in Statuses : MayMove(v, to) /\ w = [op |-> "move", from |-> status, to |-> to]
    BY <2>0 DEF NewWork
  <2>2. <<status, to>> \in MoveOrder
    BY <2>1, MoveOrdered
  <2>3. <<w.from, w.to>> \in MoveOrder
    BY <2>1, <2>2
  <2>. QED
    BY <2>3 DEF w
<1>. QED
  BY <1>1, <1>2, DoingChanges

\* What the steps that change the status, the notice or the stamps do to them.
LEMMA ClocksChange ==
  ASSUME [Next]_vars
  PROVE  \/ \E u \in Staff : \/ \E f \in Forms, n \in Amounts : RecordPayment(u, f, n)
                            \/ NotifyCustomer(u)
                            \/ SaveMove(u)
                            \/ SyncSave(u)
                            \/ \E r \in Requests : ApproveCancellation(u, r) \/ ApproveClose(u, r)
         \/ UNCHANGED <<status, stamps, notified>>
<1>1. ASSUME NEW u \in Staff, MoneyStep(u)
      PROVE  \/ \E f \in Forms, n \in Amounts : RecordPayment(u, f, n)
             \/ NotifyCustomer(u)
             \/ UNCHANGED <<status, stamps, notified>>
  BY <1>1 DEF MoneyStep, RecordRefund, ReadBillTo, SaveBillTo
<1>2. ASSUME NEW u \in Staff, MoveStep(u) \/ PartsStep(u) \/ GiveUp(u)
      PROVE  SaveMove(u) \/ SyncSave(u) \/ UNCHANGED <<status, stamps, notified>>
  BY <1>2 DEF MoveStep, ReadForMove, PartsStep, ReadForParts, SaveParts, SettleParts,
              SyncRead, SyncCount, GiveUp
<1>3. ASSUME NEW u \in Staff, RequestStep(u)
      PROVE  \/ \E r \in Requests : ApproveCancellation(u, r) \/ ApproveClose(u, r)
             \/ UNCHANGED <<status, stamps, notified>>
  BY <1>3 DEF RequestStep, ReadForClose, ReadForCancellation, SaveRequest, DeclineRequest
<1>4. CASE UNCHANGED vars
  BY <1>4 DEF vars
<1>. QED
  BY <1>1, <1>2, <1>3, <1>4 DEF Next

LEMMA NoticeStep ==
  ASSUME ClockInv, [Next]_vars
  PROVE  NothingBeforeNotice'
<1>1. ASSUME NEW u \in Staff, NEW f \in Forms, NEW n \in Amounts, RecordPayment(u, f, n)
      PROVE  NothingBeforeNotice'
  BY <1>1 DEF RecordPayment, Payable, Finished, ClockInv, NothingBeforeNotice
<1>2. ASSUME NEW u \in Staff, NotifyCustomer(u)
      PROVE  NothingBeforeNotice'
  BY <1>2 DEF NotifyCustomer, NothingBeforeNotice
<1>3. ASSUME NEW u \in Staff, SaveMove(u)
      PROVE  NothingBeforeNotice'
  <2>1. <<status, status'>> \in MoveOrder /\ notified' = notified
    BY <1>3 DEF SaveMove, StillIn, ClockInv, MovesInOrder
  <2>. QED
    BY <2>1 DEF ClockInv, NothingBeforeNotice, MoveOrder, Finished
<1>4. ASSUME NEW u \in Staff, SyncSave(u)
      PROVE  NothingBeforeNotice'
  BY <1>4 DEF SyncSave, StillIn, ClockInv, JobInv, SyncsAllowed, InSourcing, NothingBeforeNotice, Finished
<1>5. ASSUME NEW u \in Staff, NEW r \in Requests, ApproveCancellation(u, r) \/ ApproveClose(u, r)
      PROVE  NothingBeforeNotice'
  BY <1>5 DEF ApproveCancellation, ApproveClose, NothingBeforeNotice, Finished
<1>6. CASE UNCHANGED <<status, stamps, notified>>
  BY <1>6 DEF ClockInv, NothingBeforeNotice
<1>. QED
  BY <1>1, <1>2, <1>3, <1>4, <1>5, <1>6, ClocksChange

\* The clocks, once it is settled whether a close was approved.
ClocksFor(s, t, closed) ==
  /\ "completedAt" \in s => t \in {"COMPLETED", "READY_FOR_COLLECTION"} \cup Finished
  /\ t \in {"COMPLETED", "READY_FOR_COLLECTION", "CLOSED"} => "completedAt" \in s
  /\ "readyForCollectionAt" \in s => t \in {"READY_FOR_COLLECTION"} \cup Finished
  /\ t \in {"READY_FOR_COLLECTION", "CLOSED"} => "readyForCollectionAt" \in s
  /\ "closedAt" \in s <=> closed
  /\ "checkedOutAt" \in s <=> t = "CHECKED_OUT"

\* A move in order writes exactly the stamps that tell where it leads.
LEMMA MoveKeepsClocks ==
  ASSUME NEW from, NEW to, <<from, to>> \in MoveOrder, NEW closed \in BOOLEAN,
         ClocksFor(stamps, from, closed)
  PROVE  ClocksFor(StampsAfter(from, to), to, closed)
<1>1. CASE to = "IN_PROGRESS"
  BY <1>1 DEF MoveOrder, ClocksFor, StampsAfter, IsRework, Finished
<1>2. CASE to = "COMPLETED"
  BY <1>2 DEF MoveOrder, ClocksFor, StampsAfter, IsRework, Finished
<1>3. CASE to = "READY_FOR_COLLECTION"
  BY <1>3 DEF MoveOrder, ClocksFor, StampsAfter, IsRework, Finished
<1>4. CASE to = "CHECKED_OUT"
  BY <1>4 DEF MoveOrder, ClocksFor, StampsAfter, IsRework, Finished
<1>5. CASE to \in {"AWAITING_PARTS", "QUALITY_CHECK"}
  BY <1>5 DEF MoveOrder, ClocksFor, StampsAfter, IsRework, Finished
<1>. QED
  BY <1>1, <1>2, <1>3, <1>4, <1>5 DEF MoveOrder

LEMMA StampsStep ==
  ASSUME ClockInv, [Next]_vars
  PROVE  StampsTellTheStatus'
<1> DEFINE closed == Approved(closes) # {}
<1>0. /\ StampsTellTheStatus <=> ClocksFor(stamps, status, closed)
      /\ StampsTellTheStatus' <=> ClocksFor(stamps', status', closed')
  BY DEF StampsTellTheStatus, ClocksFor, Approved
<1>1. ClocksFor(stamps, status, closed) /\ closed \in BOOLEAN
  BY <1>0 DEF ClockInv
<1>2. closes \in [Requests -> RequestRows] /\ cancels \in [Requests -> RequestRows]
  BY DEF ClockInv, JobInv, TypeOK
<1>3. ASSUME NEW u \in Staff, NEW r \in Requests, ApproveCancellation(u, r)
      PROVE  ClocksFor(stamps', status', closed')
  <2>1. Approved(closes) = {}
    BY <1>3 DEF ApproveCancellation, ClockInv, JobInv, OneDecision, Approved
  <2>2. ~closed /\ ~closed'
    BY <1>2, <1>3, <2>1, DecidedApproves DEF ApproveCancellation, Approved
  <2>. QED
    BY <1>1, <1>3, <2>2 DEF ApproveCancellation, ClocksFor, Finished
<1>4. ASSUME NEW u \in Staff, NEW r \in Requests, ApproveClose(u, r)
      PROVE  ClocksFor(stamps', status', closed')
  <2>1. Approved(closes) = {}
    BY <1>4 DEF ApproveClose, ClockInv, JobInv, OneDecision, Approved, Finished
  <2>2. Approved(closes') = {r}
    BY <1>2, <1>4, <2>1, DecidedApproves DEF ApproveClose
  <2>3. ~closed /\ closed'
    BY <2>1, <2>2 DEF Approved
  <2>. QED
    BY <1>1, <1>4, <2>3 DEF ApproveClose, ClocksFor, Finished
<1>5. ASSUME ~\E u \in Staff, r \in Requests : ApproveCancellation(u, r) \/ ApproveClose(u, r)
      PROVE  ClocksFor(stamps', status', closed')
  <2>1. closed' = closed
    BY <1>5, ApprovedStays DEF ClockInv, JobInv
  <2>. HIDE DEF closed
  <2>2. ASSUME NEW u \in Staff, NEW f \in Forms, NEW n \in Amounts, RecordPayment(u, f, n)
        PROVE  ClocksFor(stamps', status', closed)
    BY <1>1, <2>2 DEF RecordPayment, ClocksFor, Finished
  <2>3. ASSUME NEW u \in Staff, NotifyCustomer(u)
        PROVE  ClocksFor(stamps', status', closed)
    <3>1. status = "CHECKED_IN"
      BY <2>3 DEF NotifyCustomer, ClockInv, NothingBeforeNotice
    <3>. QED
      BY <1>1, <2>3, <3>1 DEF NotifyCustomer, ClocksFor, Finished
  <2>4. ASSUME NEW u \in Staff, SaveMove(u)
        PROVE  ClocksFor(stamps', status', closed)
    <3>1. <<status, status'>> \in MoveOrder /\ stamps' = StampsAfter(status, status')
      BY <2>4 DEF SaveMove, StillIn, ClockInv, MovesInOrder
    <3>. QED
      BY <1>1, <3>1, MoveKeepsClocks
  <2>5. ASSUME NEW u \in Staff, SyncSave(u)
        PROVE  ClocksFor(stamps', status', closed)
    <3>1. status \in InSourcing /\ status' \in InSourcing /\ stamps' = stamps
      BY <2>5 DEF SyncSave, StillIn, ClockInv, JobInv, SyncsAllowed
    <3>. QED
      BY <1>1, <3>1 DEF ClocksFor, InSourcing, Finished
  <2>6. CASE UNCHANGED <<status, stamps, notified>>
    BY <1>1, <2>1, <2>6 DEF ClocksFor
  <2>. QED
    BY <1>5, <2>1, <2>2, <2>3, <2>4, <2>5, <2>6, ClocksChange
<1>. QED
  BY <1>0, <1>3, <1>4, <1>5

\* updateJobCardStatus, approveCloseRequest: for any staff and any stale
\* clicks, the completion and collection clocks run exactly on finished work.
THEOREM ClocksTellTheStatus ==
  ASSUME NoMasterAdmin
  PROVE  Spec => []StampsTellTheStatus
<1>1. Init => ClockInv
  <2> SUFFICES ASSUME Init PROVE ClockInv
    OBVIOUS
  <2>1. JobInv
    BY InitJobInv
  <2>2. MovesInOrder
    BY DEF Init, Idle, MovesInOrder
  <2>3. NothingBeforeNotice /\ StampsTellTheStatus
    BY DEF Init, NothingBeforeNotice, StampsTellTheStatus, Approved, Finished
  <2>. QED
    BY <2>1, <2>2, <2>3 DEF ClockInv
<1>2. ClockInv /\ [Next]_vars => ClockInv'
  <2> SUFFICES ASSUME ClockInv, [Next]_vars PROVE ClockInv'
    OBVIOUS
  <2>1. JobInv'
    BY StepJobInv DEF ClockInv
  <2>2. MovesInOrder'
    BY MovesInOrderStep DEF ClockInv, JobInv
  <2>. QED
    BY <2>1, <2>2, NoticeStep, StampsStep DEF ClockInv
<1>3. ClockInv => StampsTellTheStatus
  BY DEF ClockInv
<1>. QED
  BY <1>1, <1>2, <1>3, PTL DEF Spec

-----------------------------------------------------------------------------
(***************************************************************************)
(* The Job Card implements the customer's account; work waits for the      *)
(* deposit.                                                                *)
(***************************************************************************)
Phase == CASE status = "CLOSED"      -> "closed"
           [] status = "CANCELLED"   -> "cancelled"
           [] status = "CHECKED_OUT" -> "returned"
           [] OTHER                  -> "open"

LEMMA PhaseOpen ==
  /\ status \notin Finished => Phase = "open"
  /\ status' \notin Finished => Phase' = "open"
BY DEF Phase, Finished

LEMMA TakeStep ==
  ASSUME TypeOK, NEW u \in Staff, NEW f \in Forms, NEW n \in Amounts, RecordPayment(u, f, n)
  PROVE  Account!Take
<1>1. n \in Nat /\ n > 0
  BY AmountsAssumption
<1>2. paid' \in Nat /\ paid' > paid /\ UNCHANGED refunded
  BY <1>1 DEF RecordPayment, TypeOK
<1>3. status \notin Finished /\ status' \notin Finished
  BY DEF RecordPayment, Payable, Finished
<1>. QED
  BY <1>2, <1>3 DEF Account!Take, Finished

LEMMA GiveBackStep ==
  ASSUME TypeOK, NEW u \in Staff, NEW f \in Forms, NEW n \in Amounts, RecordRefund(u, f, n)
  PROVE  Account!GiveBack
<1>1. n \in Nat /\ n > 0 /\ refunded + n <= paid
  BY RemainingBounds DEF RecordRefund
<1>2. refunded' \in Nat /\ refunded' > refunded /\ refunded' <= paid
  BY <1>1 DEF RecordRefund, TypeOK
<1>3. UNCHANGED <<status, paid>>
  BY DEF RecordRefund
<1>. QED
  BY <1>2, <1>3 DEF Account!GiveBack

LEMMA AccountStep ==
  ASSUME JobInv, [Next]_vars
  PROVE  Account!Next \/ UNCHANGED <<Phase, paid, refunded>>
<1>. USE DEF JobInv
<1>1. ASSUME NEW u \in Staff, NEW f \in Forms, NEW n \in Amounts, RecordPayment(u, f, n) \/ RecordRefund(u, f, n)
      PROVE  Account!Next
  BY <1>1, TakeStep, GiveBackStep DEF Account!Next
<1>2. CASE UNCHANGED <<paid, refunded>>
  <2>1. CASE UNCHANGED status
    BY <1>2, <2>1 DEF Phase
  <2>2. ASSUME status \in Finished, status' # status
        PROVE  Account!ReturnVehicle
    <3>1. PICK u \in Staff : /\ status = doing[u].from /\ status' = "CHECKED_OUT"
                             /\ doing[u].op = "move" /\ status \in {"CLOSED", "CANCELLED"}
      BY <2>2, FinishedSteps
    <3>2. status = "CANCELLED" => paid = refunded
      BY <3>1 DEF HandBackPaid
    <3>. QED
      BY <1>2, <3>1, <3>2 DEF Account!ReturnVehicle
  <2>3. CASE status \notin Finished /\ status' \notin Finished
    BY <1>2, <2>3, PhaseOpen
  <2>4. ASSUME status \notin Finished, status' \in Finished
        PROVE  Account!End
    <3>1. status' \in {"CLOSED", "CANCELLED"}
      BY <2>4, OpenSteps DEF ApproveCancellation, ApproveClose
    <3>. QED
      BY <1>2, <2>4, <3>1 DEF Account!End, Finished
  <2>. QED
    BY <2>1, <2>2, <2>3, <2>4 DEF Account!Next
<1>. QED
  BY <1>1, <1>2, MoneyChanges

\* For any staff, lines, amounts and requests, a Job Card keeps what
\* CustomerAccount promises.
THEOREM ImplementsAccount ==
  ASSUME NoMasterAdmin
  PROVE  Spec => KeepsAccount
<1>1. Init => Account!Init
  BY DEF Init, Account!Init
<1>2. JobInv /\ [Next]_vars => [Account!Next]_<<Phase, paid, refunded>>
  BY AccountStep
<1>. QED
  BY <1>1, <1>2, JobInvHolds, PTL DEF Spec, KeepsAccount, Account!Spec, Phase

LEMMA DepositWithinTotal ==
  ASSUME NEW t \in Nat
  PROVE  MinimumDeposit(t) \in Nat /\ MinimumDeposit(t) <= t
BY DEF MinimumDeposit

\* recordPayment: for any estimate, work is entered for the first time only
\* when the deposit has been taken.
THEOREM WorkWaitsForDeposit ==
  ASSUME NoMasterAdmin
  PROVE  Spec => WorkStartsOnDeposit
<1>1. ASSUME JobInv, [Next]_vars, status \notin WorkStarted, status' \in WorkStarted
      PROVE  paid' >= MinimumDeposit(CustomerTotal')
  <2>1. ~\E u \in Staff : \/ NotifyCustomer(u) \/ SaveMove(u) \/ SyncSave(u)
                          \/ \E r \in Requests : ApproveCancellation(u, r) \/ ApproveClose(u, r)
    BY <1>1 DEF JobInv, NotifyCustomer, SaveMove, StillIn, MovesAllowed, SyncSave, SyncsAllowed,
                InSourcing, ApproveCancellation, ApproveClose, WorkStarted
  <2>2. PICK u \in Staff, f \in Forms, n \in Amounts : RecordPayment(u, f, n)
    BY <1>1, <2>1, StatusChanges
  <2>3. CustomerTotal' = CustomerTotal
    BY <2>2 DEF RecordPayment, CustomerTotal
  <2>4. CrossesDeposit(paid, paid', CustomerTotal)
    BY <1>1, <2>2 DEF RecordPayment
  <2>5. CustomerTotal \in Nat /\ paid' \in Nat
    BY <1>1, StepTyped, TotalIsNat DEF JobInv, TypeOK
  <2>. QED
    BY <2>3, <2>4, <2>5, DepositWithinTotal DEF CrossesDeposit
<1>2. JobInv /\ [Next]_vars =>
        [status \notin WorkStarted /\ status' \in WorkStarted
           => paid' >= MinimumDeposit(CustomerTotal')]_vars
  BY <1>1
<1>. QED
  BY <1>2, JobInvHolds, PTL DEF Spec, WorkStartsOnDeposit
=============================================================================
