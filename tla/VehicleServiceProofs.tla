------------------------ MODULE VehicleServiceProofs ------------------------
(***************************************************************************)
(* What holds of any number of services, Job Cards and requests in flight. *)
(* The argument: an escalation that holds its claim keeps cancellations    *)
(* and pricing away, and a service without a priced estimate takes no      *)
(* money; a service that has money has an estimate that no longer changes, *)
(* so what a Manager read of its balance stays true.                       *)
(***************************************************************************)
EXTENDS VehicleService, TLAPS

\* What holds of one service.
Sound(s) ==
  /\ paid[s] > 0 => estimate[s] = "NOTIFIED"
  /\ paid[s] = 0 => status[s] \in {"NONE", "SCHEDULED", "CHECKED_IN", "CANCELLED", "ESCALATED"}
  /\ status[s] \in {"CLOSED", "COLLECTED"} => paid[s] = Total
  /\ collected[s] => status[s] \in {"COLLECTED", "CANCELLED"}
  /\ status[s] = "CANCELLED" /\ collected[s] => refunded[s] = paid[s]
  /\ refunded[s] <= paid[s]
  /\ granted[s]["close"] <=> status[s] \in {"CLOSED", "COLLECTED"}
  /\ granted[s]["cancel"] <=> status[s] = "CANCELLED"
  /\ link[s] # NoCard => paid[s] = 0 /\ status[s] # "CANCELLED" /\ estimate[s] \in {"NONE", "DRAFT"}

Books == \A s \in Services : Sound(s)

CardsNamed == \A c \in Cards : cardFrom[c] # NoService => link[cardFrom[c]] = c

\* What holds of what a request has read, for as long as it is in flight.
LegalEscalation(w) ==
  /\ w.from \in Escalatable
  /\ w.step \in {"claimed", "checked"} =>
       claim[w.s] = "FRESH" /\ link[w.s] = NoCard /\ status[w.s] # "CANCELLED"
  /\ w.step = "checked" => paid[w.s] = 0 /\ estimate[w.s] \in {"NONE", "DRAFT"}
  /\ w.step = "opened" => link[w.s] # NoCard

LegalWork(w) ==
  /\ w.op = "move" => w.to \in Ladder[w.from]
  /\ w.op = "price" => w.from # "NOTIFIED"
  /\ w.op = "unprice" => w.from \in {"DRAFT", "SUBMITTED", "APPROVED"}
  /\ w.op \in {"price", "unprice"} /\ w.from # "NONE" => estimate[w.s] # "NONE" /\ link[w.s] = NoCard
  /\ w.op = "pay" => estimate[w.s] = "NOTIFIED"
  /\ w.op = "approve" /\ w.kind = "close" => paid[w.s] = Total
  /\ w.op = "handBack" => status[w.s] = "CANCELLED" /\ refunded[w.s] = paid[w.s]
  /\ w.op = "escalate" => LegalEscalation(w)

InFlightLegal == \A u \in Staff : LegalWork(doing[u])

\* An escalation in progress is alone with its service, and once it has
\* checked it again nobody holds an estimate of it.
Claiming(w) == w.op = "escalate" /\ w.step \in {"claimed", "checked"}
Alone == \A u, v \in Staff : Claiming(doing[u]) /\ Claiming(doing[v]) /\ doing[u].s = doing[v].s => u = v
Pricing(w) == w.op \in {"price", "unprice"} /\ w.from # "NONE"
Undisturbed ==
  \A u, v \in Staff : doing[u].op = "escalate" /\ doing[u].step = "checked" /\ Pricing(doing[v])
                        => doing[u].s # doing[v].s

IInv == TypeOK /\ Books /\ CardsNamed /\ InFlightLegal /\ Alone /\ Undisturbed

-----------------------------------------------------------------------------
(***************************************************************************)
(* Requests in flight                                                      *)
(***************************************************************************)
LEMMA OpTellsTheKind ==
  ASSUME NEW w
  PROVE  /\ w = Idle => w.op = "idle"
         /\ w \in Moves => w.op = "move"
         /\ w \in Pricings => w.op \in {"price", "unprice"}
         /\ w \in Sums => w.op \in {"pay", "refund"}
         /\ w \in Decisions => w.op \in {"ask", "approve", "decline"}
         /\ w \in HandBacks => w.op = "handBack"
         /\ w \in Handovers => w.op = "escalate"
<1>1. w = Idle => w.op = "idle"
  BY DEF Idle
<1>2. w \in Moves => w.op = "move"
  BY DEF Moves
<1>3. w \in Pricings => w.op \in {"price", "unprice"}
  BY DEF Pricings
<1>4. w \in Sums => w.op \in {"pay", "refund"}
  BY DEF Sums
<1>5. w \in Decisions => w.op \in {"ask", "approve", "decline"}
  BY DEF Decisions
<1>6. w \in HandBacks => w.op = "handBack"
  BY DEF HandBacks
<1>7. w \in Handovers => w.op = "escalate"
  BY DEF Handovers
<1>. QED
  BY <1>1, <1>2, <1>3, <1>4, <1>5, <1>6, <1>7

LEMMA KindTellsTheSet ==
  ASSUME NEW w \in Requests
  PROVE  /\ w.op = "move" => w \in Moves
         /\ w.op \in {"price", "unprice"} => w \in Pricings
         /\ w.op \in {"pay", "refund"} => w \in Sums
         /\ w.op \in {"ask", "approve", "decline"} => w \in Decisions
         /\ w.op = "handBack" => w \in HandBacks
         /\ w.op = "escalate" => w \in Handovers
<1>1. \/ w = Idle \/ w \in Moves \/ w \in Pricings \/ w \in Sums
      \/ w \in Decisions \/ w \in HandBacks \/ w \in Handovers
  BY Zenon DEF Requests
<1>. QED
  BY <1>1, OpTellsTheKind

LEMMA FieldsTyped ==
  ASSUME NEW w \in Requests
  PROVE  /\ w.op # "idle" => w.s \in Services
         /\ w.op = "move" => w.from \in Statuses /\ w.to \in Statuses
         /\ w.op \in {"price", "unprice"} => w.from \in EstimateStatuses
         /\ w.op \in {"pay", "refund"} => w.amount \in 1..Total
         /\ w.op \in {"ask", "approve", "decline"} => w.kind \in Kinds
         /\ w.op = "escalate" => w.from \in Statuses /\ w.step \in {"read", "claimed", "checked", "opened"}
<1>1. w = Idle \/ w \in Moves \/ w \in Pricings \/ w \in Sums \/ w \in Decisions
        \/ w \in HandBacks \/ w \in Handovers
  BY Zenon DEF Requests
<1>2. w \in Moves => w.s \in Services /\ w.from \in Statuses /\ w.to \in Statuses
  BY DEF Moves
<1>3. w \in Pricings => w.s \in Services /\ w.from \in EstimateStatuses
  BY DEF Pricings
<1>4. w \in Sums => w.s \in Services /\ w.amount \in 1..Total
  BY DEF Sums
<1>5. w \in Decisions => w.s \in Services /\ w.kind \in Kinds
  BY DEF Decisions
<1>6. w \in HandBacks => w.s \in Services
  BY DEF HandBacks
<1>7. w \in Handovers => /\ w.s \in Services /\ w.from \in Statuses
                         /\ w.step \in {"read", "claimed", "checked", "opened"}
  BY DEF Handovers
<1>. QED
  BY <1>1, <1>2, <1>3, <1>4, <1>5, <1>6, <1>7, OpTellsTheKind

LEMMA IdleTyped == Idle \in Requests /\ Idle.op = "idle"
BY DEF Requests, Idle

LEMMA LadderSteps ==
  ASSUME NEW from \in Statuses, NEW to \in Ladder[from]
  PROVE  \/ from = "SCHEDULED" /\ to = "CHECKED_IN"
         \/ from = "IN_SERVICE" /\ to = "COMPLETED"
         \/ from = "COMPLETED" /\ to = "READY_FOR_COLLECTION"
         \/ from = "CLOSED" /\ to = "COLLECTED"
BY DEF Ladder, Statuses

LEMMA EstimateMoves ==
  ASSUME NEW e \in EstimateStatuses, e \notin {"NONE", "NOTIFIED"}
  PROVE  /\ EstimateSteps[e] \in EstimateStatuses \ {"NONE", "DRAFT"}
         /\ "DRAFT" \in EstimateStatuses /\ "NONE" \in EstimateStatuses
BY DEF EstimateStatuses, EstimateSteps

\* A request that only reads.
LEMMA ReadKeeps ==
  ASSUME IInv, NEW u \in Staff, NEW w \in Requests, Read(u, w), LegalWork(w), ~ Claiming(w),
         \A v \in Staff : Claiming(doing[v]) /\ Pricing(w) => doing[v].s # w.s
  PROVE  IInv'
<1>1. doing' = [doing EXCEPT ![u] = w] /\ UNCHANGED <<status, collected, money, requests, handover>>
  BY DEF Read, Start
<1>2. TypeOK' /\ CardsNamed'
  BY <1>1 DEF IInv, TypeOK, CardsNamed, money, requests, handover
<1>3. Books'
  BY <1>1 DEF IInv, Books, Sound, money, requests, handover
<1>4. \A v \in Staff : doing'[v] = IF v = u THEN w ELSE doing[v]
  BY <1>1 DEF IInv, TypeOK
<1>5. InFlightLegal'
  <2>. SUFFICES ASSUME NEW v \in Staff PROVE LegalWork(doing[v])'
    BY DEF InFlightLegal
  <2>1. UNCHANGED <<status, estimate, paid, refunded, claim, link>>
    BY <1>1 DEF money, handover
  <2>2. CASE v = u
    BY <1>4, <2>1, <2>2 DEF LegalWork, LegalEscalation
  <2>3. CASE v # u
    <3>1. doing'[v] = doing[v] /\ LegalWork(doing[v])
      BY <1>4, <2>3 DEF IInv, InFlightLegal
    <3>. QED
      BY <2>1, <3>1 DEF LegalWork, LegalEscalation
  <2>. QED
    BY <2>2, <2>3
<1>6. Alone' /\ Undisturbed'
  BY <1>4 DEF IInv, Alone, Undisturbed, Claiming, Pricing
<1>. QED
  BY <1>2, <1>3, <1>5, <1>6 DEF IInv

\* A request that ends: what is left to show is about the services and about
\* the other requests.
LEMMA DoneKeeps ==
  ASSUME IInv, NEW u \in Staff, Done(u)
  PROVE  /\ doing' \in [Staff -> Requests]
         /\ Alone' /\ Undisturbed'
         /\ (\A v \in Staff \ {u} : LegalWork(doing[v])') => InFlightLegal'
<1>1. doing' = [doing EXCEPT ![u] = Idle] /\ Idle \in Requests /\ Idle.op = "idle"
  BY IdleTyped DEF Done
<1>2. \A v \in Staff : doing'[v] = IF v = u THEN Idle ELSE doing[v]
  BY <1>1 DEF IInv, TypeOK
<1>3. doing' \in [Staff -> Requests]
  BY <1>1 DEF IInv, TypeOK
<1>4. Alone' /\ Undisturbed'
  BY <1>1, <1>2 DEF IInv, Alone, Undisturbed, Claiming, Pricing
<1>5. LegalWork(doing[u])'
  BY <1>1, <1>2 DEF LegalWork, LegalEscalation
<1>. QED
  BY <1>3, <1>4, <1>5 DEF InFlightLegal

\* What another request in flight is known by.
LEMMA OtherWork ==
  ASSUME IInv, NEW u \in Staff, NEW v \in Staff \ {u}, NEW w, doing' = [doing EXCEPT ![u] = w]
  PROVE  /\ doing'[v] = doing[v] /\ LegalWork(doing[v]) /\ doing[v] \in Requests
         /\ doing[v].op # "idle" => doing[v].s \in Services
BY FieldsTyped DEF IInv, TypeOK, InFlightLegal

\* What has to stay true for what another request has read to stay legal.
LEMMA LegalStays ==
  ASSUME NEW v \in Staff, doing'[v] = doing[v], LegalWork(doing[v]),
         Pricing(doing[v]) => estimate'[doing[v].s] # "NONE" /\ link'[doing[v].s] = NoCard,
         doing[v].op = "pay" => estimate'[doing[v].s] = "NOTIFIED",
         doing[v].op = "approve" /\ doing[v].kind = "close" => paid'[doing[v].s] = Total,
         doing[v].op = "handBack" =>
           status'[doing[v].s] = "CANCELLED" /\ refunded'[doing[v].s] = paid'[doing[v].s],
         Claiming(doing[v]) =>
           /\ claim'[doing[v].s] = "FRESH" /\ link'[doing[v].s] = NoCard
           /\ status'[doing[v].s] # "CANCELLED",
         doing[v].op = "escalate" /\ doing[v].step = "checked" =>
           paid'[doing[v].s] = 0 /\ estimate'[doing[v].s] \in {"NONE", "DRAFT"},
         doing[v].op = "escalate" /\ doing[v].step = "opened" => link'[doing[v].s] # NoCard
  PROVE  LegalWork(doing[v])'
BY DEF LegalWork, LegalEscalation, Pricing, Claiming

-----------------------------------------------------------------------------
(***************************************************************************)
(* Reads                                                                   *)
(***************************************************************************)
LEMMA StaffReads ==
  ASSUME IInv, NEW u \in Staff, Reads(u)
  PROVE  IInv'
<1>1. PICK s \in Services :
        \/ \E to \in Statuses : ReadForMove(u, s, to)
        \/ ReadForPricing(u, s)
        \/ ReadForUnpricing(u, s)
        \/ \E amount \in 1..Total : ReadForPayment(u, s, amount) \/ ReadForRefund(u, s, amount)
        \/ ReadForHandBack(u, s)
        \/ \E kind \in Kinds : \/ ReadForRequest(u, s, kind)
                               \/ \E op \in {"approve", "decline"} : ReadForDecision(u, s, kind, op)
        \/ ReadForEscalation(u, s)
  BY DEF Reads
<1>2. status[s] \in Statuses /\ estimate[s] \in EstimateStatuses /\ Sound(s)
      /\ paid[s] \in 0..Total /\ refunded[s] \in 0..Total
  BY DEF IInv, TypeOK, Books
<1>3. NotEscalated(s) => /\ link[s] = NoCard
                         /\ \A v \in Staff : Claiming(doing[v]) => doing[v].s # s
  BY DEF NotEscalated, EscalationInFlight, IInv, InFlightLegal, LegalWork, LegalEscalation, Claiming
<1>4. CASE \E to \in Statuses : ReadForMove(u, s, to)
  <2>1. PICK to \in Statuses : ReadForMove(u, s, to)
    BY <1>4
  <2> DEFINE w == [op |-> "move", s |-> s, from |-> status[s], to |-> to]
  <2>2. w \in Moves /\ Read(u, w) /\ LegalWork(w) /\ w.op = "move"
    BY <1>2, <2>1 DEF ReadForMove, Moves, LegalWork
  <2>. HIDE DEF w
  <2>. QED
    BY <2>2, ReadKeeps DEF Requests, Claiming, Pricing
<1>5. CASE ReadForPricing(u, s)
  <2> DEFINE w == [op |-> "price", s |-> s, from |-> estimate[s]]
  <2>1. w \in Pricings /\ Read(u, w) /\ LegalWork(w) /\ w.op = "price" /\ w.s = s
    BY <1>2, <1>3, <1>5 DEF ReadForPricing, Pricings, LegalWork
  <2>. HIDE DEF w
  <2>. QED
    BY <1>3, <1>5, <2>1, ReadKeeps DEF ReadForPricing, Requests, Claiming
<1>6. CASE ReadForUnpricing(u, s)
  <2> DEFINE w == [op |-> "unprice", s |-> s, from |-> estimate[s]]
  <2>1. w \in Pricings /\ Read(u, w) /\ LegalWork(w) /\ w.op = "unprice" /\ w.s = s
    BY <1>2, <1>3, <1>6 DEF ReadForUnpricing, Pricings, LegalWork
  <2>. HIDE DEF w
  <2>. QED
    BY <1>3, <1>6, <2>1, ReadKeeps DEF ReadForUnpricing, Requests, Claiming
<1>7. CASE \E amount \in 1..Total : ReadForPayment(u, s, amount) \/ ReadForRefund(u, s, amount)
  <2>1. PICK amount \in 1..Total : ReadForPayment(u, s, amount) \/ ReadForRefund(u, s, amount)
    BY <1>7
  <2>2. PICK op \in {"pay", "refund"} :
          /\ Read(u, [op |-> op, s |-> s, amount |-> amount])
          /\ op = "pay" => estimate[s] = "NOTIFIED"
    BY <2>1 DEF ReadForPayment, ReadForRefund
  <2> DEFINE w == [op |-> op, s |-> s, amount |-> amount]
  <2>3. w \in Sums /\ Read(u, w) /\ LegalWork(w) /\ w.op \in {"pay", "refund"}
    BY <2>2 DEF Sums, LegalWork
  <2>. HIDE DEF w
  <2>. QED
    BY <2>3, ReadKeeps DEF Requests, Claiming, Pricing
<1>8. CASE ReadForHandBack(u, s)
  <2> DEFINE w == [op |-> "handBack", s |-> s]
  <2>0. refunded[s] = paid[s] /\ status[s] = "CANCELLED"
    BY <1>2, <1>8 DEF ReadForHandBack, Sound
  <2>1. w \in HandBacks /\ Read(u, w) /\ LegalWork(w) /\ w.op = "handBack"
    BY <1>8, <2>0 DEF ReadForHandBack, HandBacks, LegalWork
  <2>. HIDE DEF w
  <2>. QED
    BY <2>1, ReadKeeps DEF Requests, Claiming, Pricing
<1>9. CASE \E kind \in Kinds : \/ ReadForRequest(u, s, kind)
                               \/ \E op \in {"approve", "decline"} : ReadForDecision(u, s, kind, op)
  <2>1. PICK kind \in Kinds, op \in {"ask", "approve", "decline"} :
          /\ Read(u, [op |-> op, s |-> s, kind |-> kind])
          /\ op = "approve" => MayEnd(s, kind)
    BY <1>9 DEF ReadForRequest, ReadForDecision
  <2> DEFINE w == [op |-> op, s |-> s, kind |-> kind]
  <2>2. MayEnd(s, kind) /\ kind = "close" => paid[s] = Total
    BY <1>2, MoneyAssumption DEF MayEnd, PaidInFull, Owed, Sound
  <2>3. w \in Decisions /\ Read(u, w) /\ LegalWork(w) /\ w.op \in {"ask", "approve", "decline"}
    BY <2>1, <2>2 DEF Decisions, LegalWork
  <2>. HIDE DEF w
  <2>. QED
    BY <2>3, ReadKeeps DEF Requests, Claiming, Pricing
<1>10. CASE ReadForEscalation(u, s)
  <2> DEFINE w == [op |-> "escalate", s |-> s, from |-> status[s], step |-> "read"]
  <2>1. w \in Handovers /\ Read(u, w) /\ LegalWork(w) /\ w.op = "escalate" /\ w.step = "read"
    BY <1>2, <1>10 DEF ReadForEscalation, Handovers, LegalWork, LegalEscalation
  <2>. HIDE DEF w
  <2>. QED
    BY <2>1, ReadKeeps DEF Requests, Claiming, Pricing
<1>. QED
  BY <1>1, <1>4, <1>5, <1>6, <1>7, <1>8, <1>9, <1>10

-----------------------------------------------------------------------------
(***************************************************************************)
(* Saves                                                                   *)
(***************************************************************************)
LEMMA MoveKeeps ==
  ASSUME IInv, NEW u \in Staff, SaveMove(u)
  PROVE  IInv'
<1> DEFINE w == doing[u]
           s == w.s
<1>1. w \in Requests /\ w.op = "move" /\ w.to \in Ladder[w.from] /\ status[s] = w.from
  BY DEF SaveMove, StillAsRead, IInv, TypeOK, InFlightLegal, LegalWork
<1>2. s \in Services /\ w.from \in Statuses /\ w.to \in Statuses
  BY <1>1, FieldsTyped
<1>3. /\ status' = [status EXCEPT ![s] = w.to]
      /\ collected' = [collected EXCEPT ![s] = @ \/ w.to = "COLLECTED"]
      /\ Done(u) /\ UNCHANGED <<money, requests, handover>>
  BY DEF SaveMove
<1>. HIDE DEF w, s
<1>4. \/ w.from = "SCHEDULED" /\ w.to = "CHECKED_IN"
      \/ w.from = "IN_SERVICE" /\ w.to = "COMPLETED"
      \/ w.from = "COMPLETED" /\ w.to = "READY_FOR_COLLECTION"
      \/ w.from = "CLOSED" /\ w.to = "COLLECTED"
  BY <1>1, <1>2, LadderSteps
<1>5. TypeOK' /\ CardsNamed'
  BY <1>2, <1>3, DoneKeeps DEF IInv, TypeOK, CardsNamed, money, requests, handover
<1>6. Books'
  <2>. SUFFICES ASSUME NEW t \in Services PROVE Sound(t)'
    BY DEF Books
  <2>1. Sound(t) /\ status[t] \in Statuses /\ collected[t] \in BOOLEAN /\ paid[t] \in 0..Total
    BY DEF IInv, Books, TypeOK
  <2>2. CASE t = s
    BY <1>1, <1>2, <1>3, <1>4, <2>1, <2>2 DEF Sound, money, requests, handover, IInv, TypeOK
  <2>3. CASE t # s
    BY <1>2, <1>3, <2>1, <2>3 DEF Sound, money, requests, handover, IInv, TypeOK
  <2>. QED
    BY <2>2, <2>3
<1>7. InFlightLegal'
  <2>. SUFFICES ASSUME NEW v \in Staff \ {u} PROVE LegalWork(doing[v])'
    BY <1>3, DoneKeeps
  <2>1. /\ doing'[v] = doing[v] /\ LegalWork(doing[v])
        /\ doing[v].op # "idle" => doing[v].s \in Services
    BY <1>3, OtherWork DEF Done
  <2>2. \A t \in Services : (status[t] = "CANCELLED") <=> (status'[t] = "CANCELLED")
    BY <1>1, <1>2, <1>3, <1>4 DEF IInv, TypeOK
  <2>. QED
    BY <1>3, <2>1, <2>2 DEF LegalWork, LegalEscalation, money, handover
<1>. QED
  BY <1>3, <1>5, <1>6, <1>7, DoneKeeps DEF IInv

LEMMA PricingKeeps ==
  ASSUME IInv, NEW u \in Staff, SavePricing(u)
  PROVE  IInv'
<1> DEFINE w == doing[u]
           s == w.s
           e == IF w.from = "NONE" THEN "DRAFT" ELSE EstimateSteps[w.from]
<1>1. w \in Requests /\ w.op = "price" /\ w.from # "NOTIFIED" /\ estimate[s] = w.from
      /\ (w.from # "NONE" => link[s] = NoCard)
  BY DEF SavePricing, IInv, TypeOK, InFlightLegal, LegalWork
<1>2. s \in Services /\ w.from \in EstimateStatuses
  BY <1>1, FieldsTyped
<1>3. /\ estimate' = [estimate EXCEPT ![s] = e]
      /\ Done(u) /\ UNCHANGED <<status, collected, paid, refunded, requests, handover>>
  BY DEF SavePricing
<1>4. e \in EstimateStatuses \ {"NONE"} /\ (w.from = "NONE" => e = "DRAFT")
  BY <1>1, <1>2, EstimateMoves DEF EstimateStatuses, EstimateSteps
<1>5. \A v \in Staff : /\ doing[v].op = "escalate" /\ doing[v].step = "checked" /\ doing[v].s = s
                         => w.from = "NONE"
  BY <1>1 DEF IInv, Undisturbed, Pricing
<1>. HIDE DEF w, s, e
<1>6. TypeOK' /\ CardsNamed'
  BY <1>2, <1>3, <1>4, DoneKeeps DEF IInv, TypeOK, CardsNamed, money, requests, handover
<1>7. Books'
  <2>. SUFFICES ASSUME NEW t \in Services PROVE Sound(t)'
    BY DEF Books
  <2>1. Sound(t) /\ paid[t] \in 0..Total
    BY DEF IInv, Books, TypeOK
  <2>2. CASE t = s
    BY <1>1, <1>2, <1>3, <1>4, <2>1, <2>2 DEF Sound, requests, handover, IInv, TypeOK
  <2>3. CASE t # s
    BY <1>2, <1>3, <2>1, <2>3 DEF Sound, requests, handover, IInv, TypeOK
  <2>. QED
    BY <2>2, <2>3
<1>8. InFlightLegal'
  <2>. SUFFICES ASSUME NEW v \in Staff \ {u} PROVE LegalWork(doing[v])'
    BY <1>3, DoneKeeps
  <2>1. /\ doing'[v] = doing[v] /\ LegalWork(doing[v])
        /\ doing[v].op # "idle" => doing[v].s \in Services
    BY <1>3, OtherWork DEF Done
  <2>2. \A t \in Services : /\ estimate[t] # "NONE" => estimate'[t] # "NONE"
                            /\ estimate[t] = "NOTIFIED" => estimate'[t] = "NOTIFIED"
                            /\ t # s => estimate'[t] = estimate[t]
    BY <1>1, <1>2, <1>3, <1>4 DEF IInv, TypeOK
  <2>3. doing[v].op = "escalate" /\ doing[v].step = "checked"
          => estimate'[doing[v].s] \in {"NONE", "DRAFT"}
    BY <1>2, <1>3, <1>4, <1>5, <2>1, <2>2 DEF LegalWork, LegalEscalation, IInv, TypeOK
  <2>4. UNCHANGED <<status, paid, refunded, claim, link>>
    BY <1>3 DEF handover
  <2>5. Pricing(doing[v]) => estimate'[doing[v].s] # "NONE" /\ link'[doing[v].s] = NoCard
    BY <2>1, <2>2, <2>4 DEF LegalWork, Pricing, LegalEscalation
  <2>6. doing[v].op = "pay" => estimate'[doing[v].s] = "NOTIFIED"
    BY <2>1, <2>2 DEF LegalWork, LegalEscalation
  <2>. QED
    BY <2>1, <2>3, <2>4, <2>5, <2>6, LegalStays DEF LegalWork, LegalEscalation, Claiming
<1>. QED
  BY <1>3, <1>6, <1>7, <1>8, DoneKeeps DEF IInv

LEMMA UnpricingKeeps ==
  ASSUME IInv, NEW u \in Staff, SaveUnpricing(u)
  PROVE  IInv'
<1> DEFINE w == doing[u]
           s == w.s
<1>1. w \in Requests /\ w.op = "unprice" /\ w.from \in {"DRAFT", "SUBMITTED", "APPROVED"}
      /\ estimate[s] = w.from
  BY DEF SaveUnpricing, IInv, TypeOK, InFlightLegal, LegalWork
<1>2. s \in Services
  BY <1>1, FieldsTyped
<1>3. /\ estimate' = [estimate EXCEPT ![s] = "NONE"]
      /\ doing' = [v \in Staff |-> IF HoldsRow(v, s) THEN Idle ELSE doing[v]]
      /\ UNCHANGED <<status, collected, paid, refunded, requests, handover>>
  BY DEF SaveUnpricing
<1>. HIDE DEF w, s
<1>4. "NONE" \in EstimateStatuses
  BY DEF EstimateStatuses
<1>5. TypeOK' /\ CardsNamed'
  BY <1>2, <1>3, <1>4, IdleTyped DEF IInv, TypeOK, CardsNamed, money, requests, handover
<1>6. Books'
  <2>. SUFFICES ASSUME NEW t \in Services PROVE Sound(t)'
    BY DEF Books
  <2>1. Sound(t) /\ paid[t] \in 0..Total
    BY DEF IInv, Books, TypeOK
  <2>2. CASE t = s
    BY <1>1, <1>2, <1>3, <2>1, <2>2 DEF Sound, requests, handover, IInv, TypeOK
  <2>3. CASE t # s
    BY <1>2, <1>3, <2>1, <2>3 DEF Sound, requests, handover, IInv, TypeOK
  <2>. QED
    BY <2>2, <2>3
<1>7. InFlightLegal'
  <2>. SUFFICES ASSUME NEW v \in Staff PROVE LegalWork(doing[v])'
    BY DEF InFlightLegal
  <2>1. CASE HoldsRow(v, s)
    <3>1. doing'[v].op = "idle"
      BY <1>3, <2>1, IdleTyped
    <3>. QED
      BY <3>1 DEF LegalWork, LegalEscalation
  <2>2. CASE ~ HoldsRow(v, s)
    <3>1. doing'[v] = doing[v] /\ LegalWork(doing[v]) /\ doing[v] \in Requests
      BY <1>3, <2>2 DEF IInv, InFlightLegal, TypeOK
    <3>2. doing[v].op # "idle" => doing[v].s \in Services
      BY <3>1, FieldsTyped
    <3>3. \A t \in Services : /\ t # s => estimate'[t] = estimate[t]
                              /\ t = s => estimate'[t] = "NONE" /\ estimate[t] # "NOTIFIED"
      BY <1>1, <1>2, <1>3 DEF IInv, TypeOK
    <3>4. UNCHANGED <<status, paid, refunded, claim, link>>
      BY <1>3 DEF handover
    <3>5. Pricing(doing[v]) => estimate'[doing[v].s] # "NONE" /\ link'[doing[v].s] = NoCard
      BY <2>2, <3>1, <3>2, <3>3, <3>4 DEF LegalWork, Pricing, HoldsRow, LegalEscalation
    <3>6. doing[v].op = "pay" => estimate'[doing[v].s] = "NOTIFIED"
      BY <3>1, <3>2, <3>3 DEF LegalWork, LegalEscalation
    <3>7. doing[v].op = "escalate" /\ doing[v].step = "checked" =>
            paid'[doing[v].s] = 0 /\ estimate'[doing[v].s] \in {"NONE", "DRAFT"}
      BY <3>1, <3>2, <3>3, <3>4 DEF LegalWork, LegalEscalation
    <3>. QED
      BY <3>1, <3>4, <3>5, <3>6, <3>7, LegalStays DEF LegalWork, LegalEscalation, Claiming
  <2>. QED
    BY <2>1, <2>2
<1>8. Alone' /\ Undisturbed'
  BY <1>3, IdleTyped DEF IInv, Alone, Undisturbed, Claiming, Pricing
<1>. QED
  BY <1>5, <1>6, <1>7, <1>8 DEF IInv

LEMMA PaymentKeeps ==
  ASSUME IInv, NEW u \in Staff, SavePayment(u)
  PROVE  IInv'
<1> DEFINE w == doing[u]
           s == w.s
           sum == paid[s] + w.amount
<1>1. w \in Requests /\ w.op = "pay" /\ estimate[s] = "NOTIFIED"
  BY DEF SavePayment, IInv, TypeOK, InFlightLegal, LegalWork
<1>2. s \in Services /\ w.amount \in 1..Total
  BY <1>1, FieldsTyped
<1>3. paid[s] \in 0..Total /\ Total \in Nat /\ Sound(s)
  BY <1>2, MoneyAssumption DEF IInv, TypeOK, Books
<1>4. sum \in 1..Total /\ status[s] \in Payable
  BY <1>1, <1>2, <1>3 DEF SavePayment, StillPayable, FitsBalance, Owed
<1>5. PICK to \in Statuses :
        /\ status' = [status EXCEPT ![s] = to]
        /\ to = status[s] \/ (status[s] = "CHECKED_IN" /\ to = "IN_SERVICE")
  <2>1. status[s] \in Statuses /\ "IN_SERVICE" \in Statuses
    BY <1>2 DEF IInv, TypeOK, Statuses
  <2>2. \/ status' = [status EXCEPT ![s] = status[s]]
        \/ status[s] = "CHECKED_IN" /\ status' = [status EXCEPT ![s] = "IN_SERVICE"]
    BY DEF SavePayment
  <2>. HIDE DEF s
  <2>. QED
    BY <2>1, <2>2
<1>6. /\ paid' = [paid EXCEPT ![s] = sum]
      /\ Done(u) /\ UNCHANGED <<collected, estimate, refunded, requests, handover>>
  BY DEF SavePayment
<1>7. w.amount >= 1 /\ sum = paid[s] + w.amount
  BY <1>2
<1>. HIDE DEF w, s, sum
<1>8. TypeOK' /\ CardsNamed'
  BY <1>2, <1>3, <1>4, <1>5, <1>6, DoneKeeps DEF IInv, TypeOK, CardsNamed, requests, handover
<1>9. Books'
  <2>. SUFFICES ASSUME NEW t \in Services PROVE Sound(t)'
    BY DEF Books
  <2>1. Sound(t) /\ paid[t] \in 0..Total /\ refunded[t] \in 0..Total
    BY DEF IInv, Books, TypeOK
  <2>2. CASE t = s
    <3>1. paid'[s] = sum /\ status'[s] \in Payable
      BY <1>2, <1>4, <1>5, <1>6 DEF IInv, TypeOK, Payable
    <3>. QED
      BY <1>1, <1>2, <1>3, <1>4, <1>6, <1>7, <2>1, <2>2, <3>1
         DEF Sound, Payable, requests, handover
  <2>3. CASE t # s
    BY <1>2, <1>5, <1>6, <2>1, <2>3 DEF Sound, requests, handover, IInv, TypeOK
  <2>. QED
    BY <2>2, <2>3
<1>10. InFlightLegal'
  <2>. SUFFICES ASSUME NEW v \in Staff \ {u} PROVE LegalWork(doing[v])'
    BY <1>6, DoneKeeps
  <2>1. /\ doing'[v] = doing[v] /\ LegalWork(doing[v])
        /\ doing[v].op # "idle" => doing[v].s \in Services
    BY <1>6, OtherWork DEF Done
  <2>2. \A t \in Services : t # s => status'[t] = status[t] /\ paid'[t] = paid[t]
    BY <1>2, <1>5, <1>6 DEF IInv, TypeOK
  <2>3. status[s] # "CANCELLED" /\ status'[s] # "CANCELLED" /\ paid[s] # Total
    BY <1>2, <1>3, <1>4, <1>5, <1>7 DEF IInv, TypeOK, Payable
  <2>. QED
    BY <1>1, <1>6, <2>1, <2>2, <2>3 DEF LegalWork, LegalEscalation, handover
<1>. QED
  BY <1>6, <1>8, <1>9, <1>10, DoneKeeps DEF IInv

LEMMA RefundKeeps ==
  ASSUME IInv, NEW u \in Staff, SaveRefund(u) \/ SaveHandBack(u)
  PROVE  IInv'
<1> DEFINE w == doing[u]
           s == w.s
<1>1. w \in Requests /\ LegalWork(w) /\ w.op \in {"refund", "handBack"}
  BY DEF SaveRefund, SaveHandBack, IInv, TypeOK, InFlightLegal
<1>2. s \in Services /\ (w.op = "refund" => w.amount \in 1..Total)
  BY <1>1, FieldsTyped
<1>3. Done(u) /\ status[s] = "CANCELLED" /\ UNCHANGED <<status, estimate, paid, requests, handover>>
  BY DEF SaveRefund, SaveHandBack, OwedBack, money
<1>4. \/ /\ refunded' = [refunded EXCEPT ![s] = @ + w.amount] /\ w.op = "refund"
         /\ refunded[s] + w.amount <= paid[s] /\ collected' = collected
      \/ refunded[s] = paid[s] /\ collected' = [collected EXCEPT ![s] = TRUE] /\ refunded' = refunded
  BY <1>1 DEF SaveRefund, SaveHandBack, OwedBack, LegalWork, money
<1>. HIDE DEF w, s
<1>5. \A t \in Services : paid[t] \in 0..Total /\ refunded[t] \in 0..Total /\ Sound(t)
  BY DEF IInv, TypeOK, Books
<1>6. refunded' \in [Services -> 0..Total] /\ collected' \in [Services -> BOOLEAN]
  <2>1. CASE refunded' = [refunded EXCEPT ![s] = @ + w.amount] /\ w.op = "refund"
             /\ refunded[s] + w.amount <= paid[s] /\ collected' = collected
    <3>1. refunded[s] + w.amount \in 0..Total
      BY <1>2, <1>5, <2>1, MoneyAssumption
    <3>. QED
      BY <1>2, <2>1, <3>1 DEF IInv, TypeOK
  <2>2. CASE refunded[s] = paid[s] /\ collected' = [collected EXCEPT ![s] = TRUE] /\ refunded' = refunded
    BY <2>2 DEF IInv, TypeOK
  <2>. QED
    BY <1>4, <2>1, <2>2
<1>7. TypeOK' /\ CardsNamed'
  BY <1>3, <1>6, DoneKeeps DEF IInv, TypeOK, CardsNamed, requests, handover
<1>8. Books'
  <2>. SUFFICES ASSUME NEW t \in Services PROVE Sound(t)'
    BY DEF Books
  <2>2. CASE t = s
    <3>1. UNCHANGED <<status, estimate, paid, granted, link>>
      BY <1>3 DEF requests, handover
    <3>2. refunded'[t] <= paid[t] /\ (collected'[t] => refunded'[t] = paid[t])
      BY <1>2, <1>3, <1>4, <1>5, <2>2 DEF Sound, IInv, TypeOK
    <3>. QED
      BY <1>3, <1>5, <2>2, <3>1, <3>2 DEF Sound
  <2>3. CASE t # s
    <3>1. UNCHANGED <<status, estimate, paid, granted, link>>
      BY <1>3 DEF requests, handover
    <3>2. refunded'[t] = refunded[t] /\ collected'[t] = collected[t]
      BY <1>2, <1>4, <2>3 DEF IInv, TypeOK
    <3>. QED
      BY <1>5, <3>1, <3>2 DEF Sound
  <2>. QED
    BY <2>2, <2>3
<1>9. InFlightLegal'
  <2>. SUFFICES ASSUME NEW v \in Staff \ {u} PROVE LegalWork(doing[v])'
    BY <1>3, DoneKeeps
  <2>1. /\ doing'[v] = doing[v] /\ LegalWork(doing[v])
        /\ doing[v].op # "idle" => doing[v].s \in Services
    BY <1>3, OtherWork DEF Done
  <2>2. \A t \in Services : refunded[t] = paid[t] => refunded'[t] = refunded[t]
    BY <1>2, <1>4, <1>5 DEF IInv, TypeOK
  <2>. QED
    BY <1>3, <2>1, <2>2 DEF LegalWork, LegalEscalation, handover
<1>. QED
  BY <1>3, <1>7, <1>8, <1>9, DoneKeeps DEF IInv

LEMMA RequestKeeps ==
  ASSUME IInv, NEW u \in Staff, SaveRequest(u) \/ SaveDecline(u)
  PROVE  IInv'
<1>1. doing[u].s \in Services /\ doing[u].kind \in Kinds
  BY FieldsTyped DEF SaveRequest, SaveDecline, IInv, TypeOK
<1>2. Done(u) /\ UNCHANGED <<status, collected, money, granted, handover>>
  BY DEF SaveRequest, SaveDecline
<1>3. pending' \in [Services -> [Kinds -> Nat]]
  <2>1. PICK n \in {0, 1} : pending' = [pending EXCEPT ![doing[u].s][doing[u].kind] = n]
    BY DEF SaveRequest, SaveDecline
  <2>2. [pending[doing[u].s] EXCEPT ![doing[u].kind] = n] \in [Kinds -> Nat]
    BY <1>1 DEF IInv, TypeOK
  <2>. QED
    BY <1>1, <2>1, <2>2 DEF IInv, TypeOK
<1>4. TypeOK' /\ CardsNamed' /\ Books'
  BY <1>2, <1>3, DoneKeeps DEF IInv, TypeOK, CardsNamed, Books, Sound, money, handover
<1>5. InFlightLegal'
  <2>. SUFFICES ASSUME NEW v \in Staff \ {u} PROVE LegalWork(doing[v])'
    BY <1>2, DoneKeeps
  <2>1. doing'[v] = doing[v] /\ LegalWork(doing[v])
    BY <1>2, OtherWork DEF Done
  <2>. QED
    BY <1>2, <2>1 DEF LegalWork, LegalEscalation, money, handover
<1>. QED
  BY <1>2, <1>4, <1>5, DoneKeeps DEF IInv

LEMMA ApprovalKeeps ==
  ASSUME IInv, NEW u \in Staff, SaveApproval(u)
  PROVE  IInv'
<1> DEFINE w == doing[u]
           s == w.s
           k == w.kind
           to == IF k = "close" THEN "CLOSED" ELSE "CANCELLED"
<1>1. w \in Requests /\ w.op = "approve" /\ (k = "close" => paid[s] = Total)
  BY DEF SaveApproval, IInv, TypeOK, InFlightLegal, LegalWork
<1>2. s \in Services /\ k \in {"close", "cancel"}
  BY <1>1, FieldsTyped DEF Kinds
<1>3. /\ status' = [status EXCEPT ![s] = to]
      /\ pending' = [pending EXCEPT ![s] = [x \in Kinds |-> 0]]
      /\ granted' = [granted EXCEPT ![s][k] = TRUE]
      /\ Done(u) /\ UNCHANGED <<collected, money, handover>>
  BY DEF SaveApproval
<1>4. /\ k = "close" => status[s] = "READY_FOR_COLLECTION"
      /\ k = "cancel" => status[s] \in Cancellable /\ link[s] = NoCard /\ claim[s] # "FRESH"
  BY DEF SaveApproval, StillEndable
<1>5. (k = "close" /\ to = "CLOSED") \/ (k = "cancel" /\ to = "CANCELLED")
  BY <1>2
<1>. HIDE DEF w, s, k, to
<1>6. TypeOK' /\ CardsNamed'
  BY <1>2, <1>3, <1>5, DoneKeeps DEF IInv, TypeOK, CardsNamed, money, handover, Statuses, Kinds
<1>7. Books'
  <2>. SUFFICES ASSUME NEW t \in Services PROVE Sound(t)'
    BY DEF Books
  <2>1. Sound(t) /\ paid[t] \in 0..Total /\ granted[t] \in [Kinds -> BOOLEAN]
    BY DEF IInv, Books, TypeOK
  <2>2. CASE t = s
    <3>1. status'[s] = to /\ granted'[s] = [granted[s] EXCEPT ![k] = TRUE]
      BY <1>2, <1>3 DEF IInv, TypeOK
    <3>2. ~ granted[s]["close"] /\ ~ granted[s]["cancel"] /\ ~ collected[s]
      BY <1>2, <1>4, <2>1, <2>2 DEF Sound, Cancellable
    <3>3. /\ granted'[s]["close"] <=> k = "close"
          /\ granted'[s]["cancel"] <=> k = "cancel"
      BY <1>2, <2>1, <2>2, <3>1, <3>2 DEF Kinds
    <3>. QED
      BY <1>1, <1>2, <1>3, <1>4, <1>5, <2>1, <2>2, <3>1, <3>2, <3>3, MoneyAssumption
         DEF Sound, money, handover
  <2>3. CASE t # s
    BY <1>2, <1>3, <2>1, <2>3 DEF Sound, money, handover, IInv, TypeOK
  <2>. QED
    BY <2>2, <2>3
<1>8. InFlightLegal'
  <2>. SUFFICES ASSUME NEW v \in Staff \ {u} PROVE LegalWork(doing[v])'
    BY <1>3, DoneKeeps
  <2>1. /\ doing'[v] = doing[v] /\ LegalWork(doing[v])
        /\ doing[v].op # "idle" => doing[v].s \in Services
    BY <1>3, OtherWork DEF Done
  <2>2. \A t \in Services : /\ t # s => status'[t] = status[t]
                            /\ t = s => status'[t] = to /\ status[t] # "CANCELLED"
    BY <1>2, <1>3, <1>4 DEF IInv, TypeOK, Cancellable
  <2>3. doing[v].op = "escalate" /\ doing[v].step \in {"claimed", "checked"} /\ doing[v].s = s
          => to = "CLOSED"
    BY <1>4, <1>5, <2>1 DEF LegalWork, LegalEscalation
  <2>4. UNCHANGED <<estimate, paid, refunded, claim, link>>
    BY <1>3 DEF money, handover
  <2>5. doing[v].op = "handBack" => status'[doing[v].s] = "CANCELLED"
    BY <2>1, <2>2 DEF LegalWork, LegalEscalation
  <2>6. Claiming(doing[v]) => status'[doing[v].s] # "CANCELLED"
    BY <2>1, <2>2, <2>3 DEF LegalWork, LegalEscalation, Claiming
  <2>. QED
    BY <2>1, <2>4, <2>5, <2>6, LegalStays DEF LegalWork, LegalEscalation, Claiming, Pricing
<1>. QED
  BY <1>3, <1>6, <1>7, <1>8, DoneKeeps DEF IInv

-----------------------------------------------------------------------------
(***************************************************************************)
(* Escalation                                                              *)
(***************************************************************************)
\* What another request in flight stays legal by, when an escalation moves on
\* and leaves the books alone.
LEMMA OthersStay ==
  ASSUME IInv, NEW u \in Staff, NEW w, doing' = [doing EXCEPT ![u] = w],
         NEW v \in Staff \ {u}, UNCHANGED <<status, money>>,
         Claiming(doing[v]) => claim'[doing[v].s] = claim[doing[v].s],
         Claiming(doing[v]) \/ Pricing(doing[v]) => link'[doing[v].s] = link[doing[v].s],
         doing[v].op = "escalate" /\ doing[v].step = "opened" => link'[doing[v].s] # NoCard
  PROVE  LegalWork(doing[v])'
<1>1. doing'[v] = doing[v] /\ LegalWork(doing[v])
  BY OtherWork
<1>2. UNCHANGED <<status, estimate, paid, refunded>>
  BY DEF money
<1>3. Pricing(doing[v]) => estimate'[doing[v].s] # "NONE" /\ link'[doing[v].s] = NoCard
  BY <1>1, <1>2 DEF LegalWork, Pricing
<1>. QED
  BY <1>1, <1>2, <1>3, LegalStays DEF LegalWork, LegalEscalation, Claiming

LEMMA ClaimKeeps ==
  ASSUME IInv, NEW u \in Staff, ClaimEscalation(u)
  PROVE  IInv'
<1> DEFINE w == doing[u]
           s == w.s
           n == [w EXCEPT !.step = "claimed"]
<1>1. w \in Requests /\ w.op = "escalate" /\ w.step = "read" /\ LegalWork(w)
  BY DEF ClaimEscalation, AtStep, IInv, TypeOK, InFlightLegal
<1>2. w \in Handovers /\ s \in Services /\ w.from \in Escalatable
  BY <1>1, KindTellsTheSet, FieldsTyped DEF LegalWork, LegalEscalation
<1>3. n \in Handovers /\ n.op = "escalate" /\ n.step = "claimed" /\ n.s = s /\ n.from = w.from
  BY <1>1, <1>2 DEF Handovers
<1>4. /\ doing' = [doing EXCEPT ![u] = n]
      /\ claim' = [claim EXCEPT ![s] = "FRESH"]
      /\ status[s] = w.from /\ link[s] = NoCard /\ claim[s] # "FRESH"
      /\ UNCHANGED <<status, collected, money, requests, link, card, cardFrom>>
  BY DEF ClaimEscalation, ToStep, Unclaimed
<1>. HIDE DEF w, s, n
<1>5. doing' \in [Staff -> Requests] /\ doing'[u] = n
      /\ \A v \in Staff \ {u} : doing'[v] = doing[v]
  BY <1>3, <1>4 DEF IInv, TypeOK, Requests
<1>6. TypeOK' /\ CardsNamed' /\ Books'
  BY <1>2, <1>4, <1>5 DEF IInv, TypeOK, CardsNamed, Books, Sound, money, requests
<1>7. \A v \in Staff : Claiming(doing[v]) => doing[v].s # s
  BY <1>4 DEF IInv, InFlightLegal, LegalWork, LegalEscalation, Claiming
<1>8. InFlightLegal'
  <2>1. LegalWork(doing[u])'
    <3>1. claim'[s] = "FRESH" /\ link'[s] = NoCard /\ status'[s] # "CANCELLED"
      BY <1>2, <1>4 DEF IInv, TypeOK, Escalatable
    <3>. QED
      BY <1>2, <1>3, <1>5, <3>1 DEF LegalWork, LegalEscalation
  <2>2. ASSUME NEW v \in Staff \ {u} PROVE LegalWork(doing[v])'
    <3>1. Claiming(doing[v]) => doing[v].s \in Services /\ doing[v].s # s
      BY <1>4, <1>7, OtherWork DEF Claiming
    <3>2. Claiming(doing[v]) => claim'[doing[v].s] = claim[doing[v].s]
      BY <1>4, <3>1 DEF IInv, TypeOK
    <3>3. doing[v].op = "escalate" /\ doing[v].step = "opened" => link'[doing[v].s] # NoCard
      BY <1>4 DEF IInv, InFlightLegal, LegalWork, LegalEscalation
    <3>. QED
      BY <1>4, <3>2, <3>3, OthersStay
  <2>. QED
    BY <2>1, <2>2 DEF InFlightLegal
<1>9. Alone' /\ Undisturbed'
  BY <1>3, <1>5, <1>7 DEF IInv, Alone, Undisturbed, Claiming, Pricing
<1>. QED
  BY <1>6, <1>8, <1>9 DEF IInv

LEMMA CheckKeeps ==
  ASSUME IInv, NEW u \in Staff, CheckAgain(u)
  PROVE  IInv'
<1> DEFINE w == doing[u]
           s == w.s
           n == [w EXCEPT !.step = "checked"]
<1>1. w \in Requests /\ w.op = "escalate" /\ w.step = "claimed" /\ LegalWork(w)
  BY DEF CheckAgain, AtStep, IInv, TypeOK, InFlightLegal
<1>2. w \in Handovers /\ s \in Services
  BY <1>1, KindTellsTheSet, FieldsTyped
<1>3. n \in Handovers /\ n.op = "escalate" /\ n.step = "checked" /\ n.s = s /\ n.from = w.from
  BY <1>1, <1>2 DEF Handovers
<1>4. /\ doing' = [doing EXCEPT ![u] = n]
      /\ estimate[s] = "NONE" /\ paid[s] = 0
      /\ UNCHANGED <<status, collected, money, requests, handover>>
  BY DEF CheckAgain, ToStep, NothingSold
<1>. HIDE DEF s, n
<1>5. doing' \in [Staff -> Requests] /\ doing'[u] = n
      /\ \A v \in Staff \ {u} : doing'[v] = doing[v]
  BY <1>3, <1>4 DEF IInv, TypeOK, Requests
<1>6. TypeOK' /\ CardsNamed' /\ Books'
  BY <1>4, <1>5 DEF IInv, TypeOK, CardsNamed, Books, Sound, money, requests, handover
<1>7. \A v \in Staff : Pricing(doing[v]) => doing[v].s # s
  BY <1>4 DEF IInv, InFlightLegal, LegalWork, LegalEscalation, Pricing
<1>8. InFlightLegal'
  <2>1. LegalWork(doing[u])'
    BY <1>1, <1>3, <1>4, <1>5 DEF LegalWork, LegalEscalation, money, handover, s
  <2>2. ASSUME NEW v \in Staff \ {u} PROVE LegalWork(doing[v])'
    <3>1. doing[v].op = "escalate" /\ doing[v].step = "opened" => link'[doing[v].s] # NoCard
      BY <1>4 DEF IInv, InFlightLegal, LegalWork, LegalEscalation, handover
    <3>. QED
      BY <1>4, <3>1, OthersStay DEF handover
  <2>. QED
    BY <2>1, <2>2 DEF InFlightLegal
<1>9. Alone'
  BY <1>1, <1>3, <1>5 DEF IInv, Alone, Claiming, s
<1>10. Undisturbed'
  BY <1>3, <1>5, <1>7 DEF IInv, Undisturbed, Pricing
<1>. QED
  BY <1>6, <1>8, <1>9, <1>10 DEF IInv

LEMMA OpenKeeps ==
  ASSUME IInv, NEW u \in Staff, NEW c \in Cards, OpenEscalationCard(u, c)
  PROVE  IInv'
<1> DEFINE w == doing[u]
           s == w.s
           n == [w EXCEPT !.step = "opened"]
<1>1. w \in Requests /\ w.op = "escalate" /\ w.step = "checked" /\ LegalWork(w)
  BY DEF OpenEscalationCard, Linkable, AtStep, IInv, TypeOK, InFlightLegal
<1>2. w \in Handovers /\ s \in Services
  BY <1>1, KindTellsTheSet, FieldsTyped
<1>3. n \in Handovers /\ n.op = "escalate" /\ n.step = "opened" /\ n.s = s /\ n.from = w.from
  BY <1>1, <1>2 DEF Handovers
<1>4. /\ doing' = [doing EXCEPT ![u] = n]
      /\ link' = [link EXCEPT ![s] = c] /\ link[s] = NoCard
      /\ card' = [card EXCEPT ![c] = "OPEN"] /\ cardFrom' = [cardFrom EXCEPT ![c] = s]
      /\ UNCHANGED <<status, collected, money, requests, claim>>
  BY DEF OpenEscalationCard, Linkable, OpenCard, ToStep
<1>5. paid[s] = 0 /\ estimate[s] \in {"NONE", "DRAFT"} /\ status[s] # "CANCELLED"
  BY <1>1 DEF LegalWork, LegalEscalation
<1>6. \A v \in Staff \ {u} : /\ Pricing(doing[v]) => doing[v].s # s
                             /\ Claiming(doing[v]) => doing[v].s # s
  BY <1>1 DEF IInv, Undisturbed, Alone, Claiming
<1>. HIDE DEF w, s, n
<1>7. doing' \in [Staff -> Requests] /\ doing'[u] = n
      /\ \A v \in Staff \ {u} : doing'[v] = doing[v]
  BY <1>3, <1>4 DEF IInv, TypeOK, Requests
<1>8. link'[s] = c /\ c # NoCard /\ \A t \in Services \ {s} : link'[t] = link[t]
  BY <1>2, <1>4, RowAssumption DEF IInv, TypeOK
<1>9. TypeOK'
  BY <1>2, <1>4, <1>7 DEF IInv, TypeOK, money, requests
<1>10. CardsNamed'
  <2>. SUFFICES ASSUME NEW d \in Cards, cardFrom'[d] # NoService
       PROVE  link'[cardFrom'[d]] = d
    BY DEF CardsNamed
  <2>1. CASE d = c
    BY <1>4, <1>8, <2>1 DEF IInv, TypeOK
  <2>2. CASE d # c
    <3>1. cardFrom'[d] = cardFrom[d] /\ link[cardFrom[d]] = d /\ cardFrom[d] \in Services
      BY <1>4, <2>2 DEF IInv, TypeOK, CardsNamed
    <3>2. cardFrom[d] # s
      BY <1>4, <3>1, RowAssumption
    <3>. QED
      BY <1>8, <3>1, <3>2
  <2>. QED
    BY <2>1, <2>2
<1>11. Books'
  <2>. SUFFICES ASSUME NEW t \in Services PROVE Sound(t)'
    BY DEF Books
  <2>1. Sound(t) /\ (t # s => link'[t] = link[t])
    BY <1>8 DEF IInv, Books
  <2>. QED
    BY <1>4, <1>5, <2>1 DEF Sound, money, requests
<1>12. InFlightLegal'
  <2>1. LegalWork(doing[u])'
    BY <1>1, <1>3, <1>7, <1>8 DEF LegalWork, LegalEscalation
  <2>2. ASSUME NEW v \in Staff \ {u} PROVE LegalWork(doing[v])'
    <3>0. doing[v].op # "idle" => doing[v].s \in Services
      BY <1>4, OtherWork
    <3>1. Claiming(doing[v]) \/ Pricing(doing[v]) => link'[doing[v].s] = link[doing[v].s]
      BY <1>6, <1>8, <3>0 DEF Claiming, Pricing
    <3>2. doing[v].op = "escalate" /\ doing[v].step = "opened" => link'[doing[v].s] # NoCard
      BY <1>8, <3>0 DEF IInv, InFlightLegal, LegalWork, LegalEscalation
    <3>. QED
      BY <1>4, <3>1, <3>2, OthersStay
  <2>. QED
    BY <2>1, <2>2 DEF InFlightLegal
<1>13. Alone' /\ Undisturbed'
  BY <1>3, <1>7 DEF IInv, Alone, Undisturbed, Claiming, Pricing
<1>. QED
  BY <1>9, <1>10, <1>11, <1>12, <1>13 DEF IInv

LEMMA ReleaseKeeps ==
  ASSUME IInv, NEW u \in Staff, ReleaseEscalation(u)
  PROVE  IInv'
<1> DEFINE s == doing[u].s
<1>1. Claiming(doing[u]) /\ s \in Services
  BY FieldsTyped DEF ReleaseEscalation, AtStep, Claiming, IInv, TypeOK
<1>2. PICK x \in {"NONE", claim[s]} : claim' = [claim EXCEPT ![s] = x]
  BY DEF ReleaseEscalation
<1>3. Done(u) /\ UNCHANGED <<status, collected, money, requests, link, card, cardFrom>>
  BY DEF ReleaseEscalation
<1>. HIDE DEF s
<1>4. TypeOK' /\ CardsNamed' /\ Books'
  BY <1>1, <1>2, <1>3, DoneKeeps DEF IInv, TypeOK, CardsNamed, Books, Sound, money, requests
<1>5. InFlightLegal'
  <2>. SUFFICES ASSUME NEW v \in Staff \ {u} PROVE LegalWork(doing[v])'
    BY <1>3, DoneKeeps
  <2>1. Claiming(doing[v]) => doing[v].s \in Services /\ doing[v].s # s
    BY <1>1, <1>3, OtherWork DEF Done, IInv, Alone, Claiming, s
  <2>2. Claiming(doing[v]) => claim'[doing[v].s] = claim[doing[v].s]
    BY <1>1, <1>2, <2>1 DEF IInv, TypeOK
  <2>3. doing[v].op = "escalate" /\ doing[v].step = "opened" => link'[doing[v].s] # NoCard
    BY <1>3 DEF IInv, InFlightLegal, LegalWork, LegalEscalation
  <2>. QED
    BY <1>3, <2>2, <2>3, OthersStay DEF Done
<1>. QED
  BY <1>3, <1>4, <1>5, DoneKeeps DEF IInv

\* A linked service becomes ESCALATED: it has no money, so no decision was
\* taken on it.
LEMMA EscalatedBooks ==
  ASSUME IInv, NEW s \in Services, link[s] # NoCard,
         status' = [status EXCEPT ![s] = "ESCALATED"],
         UNCHANGED <<collected, money, requests, handover>>
  PROVE  /\ status' \in [Services -> Statuses] /\ Books' /\ CardsNamed'
         /\ \A v \in Staff : doing'[v] = doing[v] => LegalWork(doing[v])'
<1>1. \A t \in Services : Sound(t) /\ paid[t] \in 0..Total
  BY DEF IInv, Books, TypeOK
<1>2. \A t \in Services : status'[t] = IF t = s THEN "ESCALATED" ELSE status[t]
  BY DEF IInv, TypeOK
<1>3. status[s] \notin {"CLOSED", "COLLECTED", "CANCELLED"} /\ ~ collected[s]
  BY <1>1 DEF Sound
<1>4. status' \in [Services -> Statuses] /\ CardsNamed'
  BY DEF IInv, TypeOK, Statuses, CardsNamed, handover
<1>5. Books'
  <2>. SUFFICES ASSUME NEW t \in Services PROVE Sound(t)'
    BY DEF Books
  <2>. QED
    BY <1>1, <1>2, <1>3 DEF Sound, money, requests, handover
<1>6. ASSUME NEW v \in Staff, doing'[v] = doing[v] PROVE LegalWork(doing[v])'
  <2>1. LegalWork(doing[v]) /\ (doing[v].op # "idle" => doing[v].s \in Services)
    BY FieldsTyped DEF IInv, TypeOK, InFlightLegal
  <2>2. UNCHANGED <<estimate, paid, refunded, claim, link>>
    BY DEF money, handover
  <2>3. doing[v].op = "handBack" => status'[doing[v].s] = "CANCELLED"
    BY <1>2, <1>3, <2>1 DEF LegalWork, LegalEscalation
  <2>4. Claiming(doing[v]) => status'[doing[v].s] # "CANCELLED"
    BY <1>2, <2>1 DEF LegalWork, LegalEscalation, Claiming
  <2>. QED
    BY <1>6, <2>1, <2>2, <2>3, <2>4, LegalStays DEF LegalWork, LegalEscalation, Claiming, Pricing
<1>. QED
  BY <1>4, <1>5, <1>6

LEMMA FinishKeeps ==
  ASSUME IInv, NEW u \in Staff, FinishEscalation(u)
  PROVE  IInv'
<1> DEFINE s == doing[u].s
<1>1. s \in Services /\ link[s] # NoCard
  BY FieldsTyped DEF FinishEscalation, AtStep, IInv, TypeOK, InFlightLegal, LegalWork, LegalEscalation
<1>2. /\ status' = [status EXCEPT ![s] = "ESCALATED"]
      /\ Done(u) /\ UNCHANGED <<collected, money, requests, handover>>
  BY DEF FinishEscalation
<1>. HIDE DEF s
<1>3. /\ status' \in [Services -> Statuses] /\ Books' /\ CardsNamed'
      /\ \A v \in Staff : doing'[v] = doing[v] => LegalWork(doing[v])'
  BY <1>1, <1>2, EscalatedBooks
<1>4. \A v \in Staff \ {u} : doing'[v] = doing[v]
  BY <1>2, OtherWork DEF Done
<1>5. doing' \in [Staff -> Requests] /\ Alone' /\ Undisturbed' /\ InFlightLegal'
  BY <1>2, <1>3, <1>4, DoneKeeps
<1>6. TypeOK'
  BY <1>2, <1>3, <1>5 DEF IInv, TypeOK, money, requests, handover
<1>. QED
  BY <1>3, <1>5, <1>6 DEF IInv

-----------------------------------------------------------------------------
(***************************************************************************)
(* Steps that are nobody's request                                         *)
(***************************************************************************)
LEMMA RowKeeps ==
  ASSUME IInv, NEW s \in Services, OpenService(s) \/ Expire(s) \/ Normalise(s)
  PROVE  IInv'
<1>1. CASE Normalise(s)
  <2>1. /\ status' \in [Services -> Statuses] /\ Books' /\ CardsNamed' /\ doing' = doing
        /\ \A v \in Staff : doing'[v] = doing[v] => LegalWork(doing[v])'
    BY <1>1, EscalatedBooks DEF Normalise
  <2>2. TypeOK' /\ Alone' /\ Undisturbed'
    BY <1>1, <2>1 DEF Normalise, IInv, TypeOK, Alone, Undisturbed, money, requests, handover
  <2>. QED
    BY <2>1, <2>2 DEF IInv, InFlightLegal
<1>2. CASE OpenService(s)
  <2>1. /\ status[s] = "NONE" /\ status' = [status EXCEPT ![s] = "SCHEDULED"] /\ doing' = doing
        /\ UNCHANGED <<collected, money, requests, handover>>
    BY <1>2 DEF OpenService
  <2>2. \A t \in Services : status'[t] = IF t = s THEN "SCHEDULED" ELSE status[t]
    BY <2>1 DEF IInv, TypeOK
  <2>3. TypeOK' /\ CardsNamed' /\ Alone' /\ Undisturbed'
    BY <2>1 DEF IInv, TypeOK, CardsNamed, Alone, Undisturbed, Statuses, money, requests, handover
  <2>4. Books'
    <3>. SUFFICES ASSUME NEW t \in Services PROVE Sound(t)'
      BY DEF Books
    <3>1. Sound(t) /\ paid[t] \in 0..Total
      BY DEF IInv, Books, TypeOK
    <3>. QED
      BY <2>1, <2>2, <3>1 DEF Sound, money, requests, handover
  <2>5. InFlightLegal'
    <3>. SUFFICES ASSUME NEW v \in Staff PROVE LegalWork(doing[v])'
      BY DEF InFlightLegal
    <3>1. LegalWork(doing[v]) /\ (doing[v].op # "idle" => doing[v].s \in Services)
      BY FieldsTyped DEF IInv, TypeOK, InFlightLegal
    <3>2. UNCHANGED <<estimate, paid, refunded, claim, link, doing>>
      BY <2>1 DEF money, handover
    <3>3. doing[v].op = "handBack" => status'[doing[v].s] = "CANCELLED"
      BY <2>1, <2>2, <3>1 DEF LegalWork, LegalEscalation
    <3>4. Claiming(doing[v]) => status'[doing[v].s] # "CANCELLED"
      BY <2>2, <3>1 DEF LegalWork, LegalEscalation, Claiming
    <3>. QED
      BY <3>1, <3>2, <3>3, <3>4, LegalStays DEF LegalWork, LegalEscalation, Claiming, Pricing
  <2>. QED
    BY <2>3, <2>4, <2>5 DEF IInv
<1>3. CASE Expire(s)
  <2>1. /\ claim' = [claim EXCEPT ![s] = "STALE"] /\ doing' = doing
        /\ UNCHANGED <<status, collected, money, requests, link, card, cardFrom>>
    BY <1>3 DEF Expire
  <2>2. TypeOK' /\ CardsNamed' /\ Books' /\ Alone' /\ Undisturbed'
    BY <2>1 DEF IInv, TypeOK, CardsNamed, Books, Sound, Alone, Undisturbed, money, requests
  <2>3. InFlightLegal'
    <3>. SUFFICES ASSUME NEW v \in Staff PROVE LegalWork(doing[v])'
      BY DEF InFlightLegal
    <3>1. LegalWork(doing[v]) /\ (doing[v].op # "idle" => doing[v].s \in Services)
      BY FieldsTyped DEF IInv, TypeOK, InFlightLegal
    <3>2. UNCHANGED <<status, estimate, paid, refunded, link, doing>>
      BY <2>1 DEF money
    <3>3. Claiming(doing[v]) => doing[v].s # s /\ doing[v] # Idle
      BY <1>3, IdleTyped DEF Expire, Claiming
    <3>4. Claiming(doing[v]) => claim'[doing[v].s] = "FRESH"
      BY <2>1, <3>1, <3>3 DEF LegalWork, LegalEscalation, Claiming, IInv, TypeOK
    <3>. QED
      BY <3>1, <3>2, <3>4, LegalStays DEF LegalWork, LegalEscalation, Claiming, Pricing
  <2>. QED
    BY <2>2, <2>3 DEF IInv
<1>. QED
  BY <1>1, <1>2, <1>3

LEMMA CardKeeps ==
  ASSUME IInv, NEW c \in Cards, OpenDeskCard(c) \/ FinishCard(c)
  PROVE  IInv'
<1>1. UNCHANGED <<status, collected, money, requests, claim, link, doing>>
  BY DEF OpenDeskCard, FinishCard
<1>2. TypeOK' /\ CardsNamed'
  BY <1>1 DEF OpenDeskCard, FinishCard, OpenCard, IInv, TypeOK, CardsNamed, money, requests
<1>3. Books' /\ Alone' /\ Undisturbed'
  BY <1>1 DEF IInv, Books, Sound, Alone, Undisturbed, money, requests
<1>4. InFlightLegal'
  BY <1>1 DEF IInv, InFlightLegal, LegalWork, LegalEscalation, money
<1>. QED
  BY <1>2, <1>3, <1>4 DEF IInv

\* A request that ends without saving.
LEMMA GiveUpKeeps ==
  ASSUME IInv, NEW u \in Staff, GiveUp(u)
  PROVE  IInv'
<1>1. Done(u) /\ UNCHANGED <<status, collected, money, requests, handover>>
  BY DEF GiveUp
<1>2. TypeOK' /\ CardsNamed' /\ Books'
  BY <1>1, DoneKeeps DEF IInv, TypeOK, CardsNamed, Books, Sound, money, requests, handover
<1>3. InFlightLegal'
  <2>. SUFFICES ASSUME NEW v \in Staff \ {u} PROVE LegalWork(doing[v])'
    BY <1>1, DoneKeeps
  <2>1. doing[v].op = "escalate" /\ doing[v].step = "opened" => link'[doing[v].s] # NoCard
    BY <1>1 DEF IInv, InFlightLegal, LegalWork, LegalEscalation, handover
  <2>. QED
    BY <1>1, <2>1, OthersStay DEF Done, handover
<1>. QED
  BY <1>1, <1>2, <1>3, DoneKeeps DEF IInv

-----------------------------------------------------------------------------
(***************************************************************************)
(* The theorems                                                            *)
(***************************************************************************)
LEMMA InitHolds == Init => IInv
<1>. SUFFICES ASSUME Init PROVE IInv
  OBVIOUS
<1>1. TypeOK
  BY MoneyAssumption, IdleTyped DEF Init, TypeOK, Statuses, EstimateStatuses
<1>2. Books /\ CardsNamed
  BY DEF Init, Books, Sound, CardsNamed, Kinds
<1>3. InFlightLegal /\ Alone /\ Undisturbed
  BY IdleTyped DEF Init, InFlightLegal, LegalWork, Alone, Undisturbed, Claiming, Pricing
<1>. QED
  BY <1>1, <1>2, <1>3 DEF IInv

LEMMA NextKeeps == IInv /\ [Next]_vars => IInv'
<1>. SUFFICES ASSUME IInv, [Next]_vars PROVE IInv'
  OBVIOUS
<1>1. CASE UNCHANGED vars
  <2>1. UNCHANGED <<status, collected, money, requests, handover, doing>>
    BY <1>1 DEF vars
  <2>2. TypeOK' /\ CardsNamed' /\ Books'
    BY <2>1 DEF IInv, TypeOK, CardsNamed, Books, Sound, money, requests, handover
  <2>3. InFlightLegal' /\ Alone' /\ Undisturbed'
    BY <2>1 DEF IInv, InFlightLegal, LegalWork, LegalEscalation, Alone, Undisturbed, money, handover
  <2>. QED
    BY <2>2, <2>3 DEF IInv
<1>2. ASSUME NEW s \in Services, OpenService(s) \/ Expire(s) \/ Normalise(s)
      PROVE  IInv'
  BY <1>2, RowKeeps
<1>3. ASSUME NEW c \in Cards, OpenDeskCard(c) \/ FinishCard(c)
      PROVE  IInv'
  BY <1>3, CardKeeps
<1>4. ASSUME NEW u \in Staff, Saves(u)
      PROVE  IInv'
  BY <1>4, MoveKeeps, PricingKeeps, UnpricingKeeps, PaymentKeeps, RefundKeeps, RequestKeeps, ApprovalKeeps
     DEF Saves
<1>5. ASSUME NEW u \in Staff, Escalates(u)
      PROVE  IInv'
  BY <1>5, ClaimKeeps, CheckKeeps, OpenKeeps, ReleaseKeeps, FinishKeeps DEF Escalates
<1>6. ASSUME NEW u \in Staff, Reads(u) \/ GiveUp(u)
      PROVE  IInv'
  BY <1>6, StaffReads, GiveUpKeeps
<1>. QED
  BY <1>1, <1>2, <1>3, <1>4, <1>5, <1>6 DEF Next

LEMMA AlwaysIInv == Spec => []IInv
BY InitHolds, NextKeeps, PTL DEF Spec

\* Every variable keeps its type, the requests in flight with theirs.
THEOREM TypeCorrect == Spec => []TypeOK
<1>1. IInv => TypeOK
  BY DEF IInv
<1>. QED
  BY <1>1, AlwaysIInv, PTL

\* A service is handed over to one Job Card, which names it.
THEOREM OneHandover == Spec => []HandedOverOnce
<1>1. IInv => HandedOverOnce
  BY DEF IInv, CardsNamed, HandedOverOnce
<1>. QED
  BY <1>1, AlwaysIInv, PTL

\* No money is left on a service that was handed over, and no Job Card on one
\* that was cancelled.
THEOREM NoOrphans == Spec => []NothingOrphaned
<1>1. IInv => NothingOrphaned
  BY DEF IInv, Books, Sound, NothingOrphaned
<1>. QED
  BY <1>1, AlwaysIInv, PTL

\* No vehicle leaves with its account open, whichever payment, refund or
\* decision was in flight.
THEOREM AccountsSettled == Spec => []LeavesSettled
<1>1. IInv => LeavesSettled
  <2>. SUFFICES ASSUME IInv, NEW s \in Services
       PROVE  /\ status[s] \in {"CLOSED", "COLLECTED"} => PaidInFull(s)
              /\ status[s] = "CANCELLED" /\ collected[s] => refunded[s] = paid[s]
              /\ refunded[s] <= paid[s] /\ paid[s] <= Total
    BY DEF LeavesSettled
  <2>1. Sound(s) /\ paid[s] \in 0..Total
    BY DEF IInv, Books, TypeOK
  <2>. QED
    BY <2>1, MoneyAssumption DEF Sound, PaidInFull, Owed
<1>. QED
  BY <1>1, AlwaysIInv, PTL

\* One decision ends a service, and it ends the way it was decided.
THEOREM OneDecision == Spec => []EndedByOneDecision
<1>1. IInv => EndedByOneDecision
  BY DEF IInv, Books, Sound, EndedByOneDecision
<1>. QED
  BY <1>1, AlwaysIInv, PTL
=============================================================================
