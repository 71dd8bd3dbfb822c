------------------------------- MODULE Store --------------------------------
(***************************************************************************)
(* One catalogue part in the Store: its aggregate stock (part_stock) and   *)
(* the tracking records that say which delivery every unit came from.      *)
(*                                                                         *)
(* A QUANTITY part keeps no remainder per delivery: each release replays   *)
(* the receipts and earlier releases (replayQuantityFifo). A BATCH part    *)
(* stores the remainder, a SERIALIZED part has one row per unit. A goods   *)
(* receipt and a release read and check before their transaction; the      *)
(* opening balance of an import is loaded, and reversed, beside them.      *)
(*                                                                         *)
(* How requests come to be approved is modelled in Sourcing.               *)
(***************************************************************************)
EXTENDS Desk, Integers, FiniteSets, SequencesExt

CONSTANTS
  Forms,      \* goods receipt forms; a form may be sent any number of times
  Slips,      \* approved parts requests for the part
  Serials,    \* serial numbers that exist
  MaxQty      \* the most a delivery or a request is about (a bound)

Opening == "opening"
NoLot   == "no delivery"
OldSlip == "a release from before deliveries were recorded"
NoSlip  == "no request"

ASSUME NamesAssumption ==
  /\ Opening \notin Forms /\ NoLot \notin Forms
  /\ OldSlip \notin Slips /\ NoSlip \notin Slips
ASSUME QtyAssumption == MaxQty \in Nat \ {0}
ASSUME TablesAssumption == IsFiniteSet(Forms) /\ IsFiniteSet(Slips) /\ IsFiniteSet(Serials)

VARIABLES
  tracking,           \* Part.trackingType
  quantityOnHand,     \* PartStock.quantityOnHand
  quantityReserved,   \* PartStock.quantityReserved
  lots,               \* the receipt lines of the part, by GoodsReceipt.receivedAt
  received,           \* quantityInBaseUnit of each
  left,               \* PartBatch.remainingQuantity of each (BATCH only)
  uses,               \* PartQuantityConsumption / PartBatchConsumption, by consumedAt
  unitOf,             \* the receipt line of each PartSerial, NoLot: no such row
  issuedTo,           \* the request a PartSerial was issued to, NoSlip: IN_STOCK
  slip,               \* PartRequestSlip.status
  want                \* quantityRequested

partStock == <<quantityOnHand, quantityReserved>>
records   == <<lots, received, left, uses, unitOf, issuedTo>>
storeVars == <<tracking, partStock, records, slip, want, doing>>

Trackings == {"QUANTITY", "BATCH", "SERIALIZED"}
Lots      == Forms \cup {Opening}
StoreRequests ==
  {Idle}
  \cup [op : {"receive"}, form : Forms, qty : 1..MaxQty, units : SUBSET Serials]
  \cup [op : {"open"}, qty : 1..MaxQty, units : SUBSET Serials]
  \cup [op : {"release"}, slip : Slips, units : SUBSET Serials]
Uses == [slip : Slips \cup {OldSlip}, lot : Lots \cup {NoLot}, qty : 1..MaxQty, arrived : SUBSET Lots]

StoreTypeOK ==
  /\ tracking \in Trackings
  /\ quantityOnHand \in Nat /\ quantityReserved \in Nat
  /\ lots \in Seq(Lots)
  /\ received \in [Lots -> 0..MaxQty]
  /\ left \in [Lots -> 0..MaxQty]
  /\ uses \in Seq(Uses)
  /\ unitOf \in [Serials -> Lots \cup {NoLot}]
  /\ issuedTo \in [Serials -> Slips \cup {NoSlip}]
  /\ slip \in [Slips -> {"PENDING", "APPROVED", "RELEASED", "WITHDRAWN"}]
  /\ want \in [Slips -> 1..MaxQty]
  /\ doing \in [Staff -> StoreRequests]

-----------------------------------------------------------------------------
(***************************************************************************)
(* First in, first out                                                     *)
(***************************************************************************)
Least(a, b)  == IF a < b THEN a ELSE b
Positive(n)  == IF n > 0 THEN n ELSE 0
Position(l)  == CHOOSE i \in DOMAIN lots : lots[i] = l
Older(l)     == {lots[i] : i \in 1..(Position(l) - 1)}
Present      == {lots[i] : i \in DOMAIN lots}
Total(q, S)  == SumFunctionOnSet([l \in S |-> Positive(q[l])], S)

\* What a draw of qty takes from each delivery in S, oldest first, given what
\* each has remaining: the loop of planQuantityRelease.
\*
\* Fault: newest first.
NewestFirst(qty, rem, S) ==
  [l \in Lots |-> IF l \notin S THEN 0
                  ELSE Least(Positive(rem[l]), Positive(qty - Total(rem, (S \ Older(l)) \ {l})))]
Draw(qty, rem, S) ==
  [l \in Lots |-> IF l \notin S THEN 0
                  ELSE Least(Positive(rem[l]), Positive(qty - Total(rem, S \cap Older(l))))]

\* What a recorded use leaves: it counts against its delivery as it is, one
\* that names no delivery against the oldest that had arrived by then.
AfterUse(rem, use) ==
  IF use.lot \in Present
  THEN [rem EXCEPT ![use.lot] = @ - use.qty]
  ELSE LET drawn == Draw(use.qty, rem, use.arrived) IN [l \in Lots |-> rem[l] - drawn[l]]

\* replayQuantityFifo.
Replay ==
  LET After[n \in 0..Len(uses)] == IF n = 0 THEN received ELSE AfterUse(After[n - 1], uses[n])
  IN  After[Len(uses)]

\* What each delivery still holds.
Remaining == IF tracking = "BATCH" THEN left ELSE Replay
InStock   == {x \in Serials : unitOf[x] # NoLot /\ issuedTo[x] = NoSlip}

-----------------------------------------------------------------------------
\* A part that never moved, or a QUANTITY part of which one delivery came and
\* some was released before releases named their delivery.
StoreInit ==
  /\ tracking \in Trackings
  /\ quantityReserved = 0
  /\ left = [l \in Lots |-> 0]
  /\ unitOf = [x \in Serials |-> NoLot]
  /\ issuedTo = [x \in Serials |-> NoSlip]
  /\ slip = [p \in Slips |-> "PENDING"]
  /\ want \in [Slips -> 1..MaxQty]
  /\ doing = [u \in Staff |-> Idle]
  /\ \/ /\ lots = <<>> /\ uses = <<>> /\ quantityOnHand = 0
        /\ received = [l \in Lots |-> 0]
     \/ \E f \in Forms : \E came \in 1..MaxQty : \E went \in 1..came :
          /\ tracking = "QUANTITY"
          /\ lots = <<f>>
          /\ received = [l \in Lots |-> IF l = f THEN came ELSE 0]
          /\ uses = <<[slip |-> OldSlip, lot |-> NoLot, qty |-> went, arrived |-> {f}]>>
          /\ quantityOnHand = came - went

\* A refusal, a transaction rolled back, or a lost server.
GiveUpAtStore(u) ==
  /\ doing[u] # Idle
  /\ Done(u)
  /\ UNCHANGED <<tracking, partStock, records, slip, want>>

\* What is delivered: a serialized part comes as so many new serial numbers.
Deliverable(qty, units) ==
  IF tracking = "SERIALIZED"
  THEN Cardinality(units) = qty /\ \A x \in units : unitOf[x] = NoLot
  ELSE units = {}

Arrives(lot, qty, units) ==
  /\ received' = [received EXCEPT ![lot] = qty]
  /\ left' = [left EXCEPT ![lot] = IF tracking = "BATCH" THEN qty ELSE 0]
  /\ unitOf' = [x \in Serials |-> IF x \in units THEN lot ELSE unitOf[x]]
  /\ quantityOnHand' = quantityOnHand + qty
  /\ UNCHANGED <<tracking, quantityReserved, uses, issuedTo, slip, want>>

-----------------------------------------------------------------------------
(***************************************************************************)
(* recordGoodsReceipt: a form already recorded is answered with its        *)
(* receipt, before the transaction or, when two copies of it land at the   *)
(* same instant, by the unique index on its key                            *)
(***************************************************************************)
ReadForReceipt(u, f, qty, units) ==
  /\ f \notin Present
  /\ Deliverable(qty, units)
  /\ Start(u, [op |-> "receive", form |-> f, qty |-> qty, units |-> units])
  /\ UNCHANGED <<tracking, partStock, records, slip, want>>

\* Fault: no unique index on the key of the form.
KeyNotUnique(f) == TRUE
KeyIsFree(f) == f \notin Present

SaveReceipt(u) ==
  LET work == doing[u] IN
  /\ work.op = "receive"
  /\ KeyIsFree(work.form)
  /\ Deliverable(work.qty, work.units)
  /\ lots' = Append(lots, work.form)
  /\ Arrives(work.form, work.qty, work.units)
  /\ Done(u)

-----------------------------------------------------------------------------
(***************************************************************************)
(* approvePartRequestSlip and withdrawOpenSourcing, with the stock locked  *)
(***************************************************************************)
Approve(p) ==
  /\ slip[p] = "PENDING"
  /\ quantityOnHand - quantityReserved >= want[p]
  /\ slip' = [slip EXCEPT ![p] = "APPROVED"]
  /\ quantityReserved' = quantityReserved + want[p]
  /\ UNCHANGED <<tracking, quantityOnHand, records, want, doing>>

Withdraw(p) ==
  /\ slip[p] \in {"PENDING", "APPROVED"}
  /\ slip' = [slip EXCEPT ![p] = "WITHDRAWN"]
  /\ quantityReserved' = IF slip[p] = "APPROVED" THEN quantityReserved - want[p] ELSE quantityReserved
  /\ UNCHANGED <<tracking, quantityOnHand, records, want, doing>>

-----------------------------------------------------------------------------
(***************************************************************************)
(* releasePartRequestSlip: the request is claimed, the stock row locked,   *)
(* and the units or deliveries drawn from are recorded                     *)
(***************************************************************************)
ReadForRelease(u, p, units) ==
  /\ slip[p] = "APPROVED"
  /\ IF tracking = "SERIALIZED"
     THEN Cardinality(units) = want[p] /\ units \subseteq InStock
     ELSE units = {}
  /\ Start(u, [op |-> "release", slip |-> p, units |-> units])
  /\ UNCHANGED <<tracking, partStock, records, slip, want>>

\* The claim of the request.
\*
\* Fault: the status read before the transaction is relied on.
ReadAsApproved(p) == TRUE
StillToRelease(p) == slip[p] = "APPROVED"

\* Each unit is issued only if it is still in stock.
\*
\* Fault: it was when it was chosen.
ChosenInStock(units) == TRUE
StillInStock(units) == units \subseteq InStock

\* The uses once a release of p has recorded its own: one per delivery drawn
\* from, oldest first, and one that names none for what the deliveries do not
\* cover. A BATCH part only logs what is not covered.
UsesWith(p, drawn) ==
  LET use(l, n) == [slip |-> p, lot |-> l, qty |-> n, arrived |-> Present]
      Recorded[k \in 0..Len(lots)] ==
        IF k = 0 THEN uses
        ELSE IF drawn[lots[k]] > 0 THEN Append(Recorded[k - 1], use(lots[k], drawn[lots[k]]))
        ELSE Recorded[k - 1]
      short == want[p] - Total(drawn, Present)
  IN  IF short > 0 /\ tracking = "QUANTITY"
      THEN Append(Recorded[Len(lots)], use(NoLot, short))
      ELSE Recorded[Len(lots)]

SaveRelease(u) ==
  LET p     == doing[u].slip
      units == doing[u].units
      drawn == IF tracking = "SERIALIZED" THEN [l \in Lots |-> 0]
               ELSE Draw(want[p], Remaining, Present)
  IN
  /\ doing[u].op = "release"
  /\ StillToRelease(p)
  /\ StillInStock(units)
  /\ slip' = [slip EXCEPT ![p] = "RELEASED"]
  /\ quantityOnHand' = quantityOnHand - want[p]
  /\ quantityReserved' = quantityReserved - want[p]
  /\ uses' = IF tracking = "SERIALIZED" THEN uses ELSE UsesWith(p, drawn)
  /\ left' = IF tracking = "BATCH" THEN [l \in Lots |-> left[l] - drawn[l]] ELSE left
  /\ issuedTo' = [x \in Serials |-> IF x \in units THEN p ELSE issuedTo[x]]
  /\ Done(u)
  /\ UNCHANGED <<tracking, lots, received, unitOf, want>>

-----------------------------------------------------------------------------
(***************************************************************************)
(* The opening balance of a stock import, loaded and reversed under the    *)
(* import's own lock, which goods receipts do not take                     *)
(***************************************************************************)
NoHistory == lots = <<>> /\ quantityOnHand = 0 /\ quantityReserved = 0
Importing == \E u \in Staff : doing[u] # Idle /\ doing[u].op = "open"

\* loadStock: only for a part without history, checked in the transaction.
ReadForOpening(u, qty, units) ==
  /\ ~ Importing
  /\ NoHistory
  /\ Deliverable(qty, units)
  /\ Start(u, [op |-> "open", qty |-> qty, units |-> units])
  /\ UNCHANGED <<tracking, partStock, records, slip, want>>

\* The receipt carries the date the balance is for, before any delivery's.
SaveOpening(u) ==
  LET work == doing[u] IN
  /\ work.op = "open"
  /\ Deliverable(work.qty, work.units)
  /\ lots' = <<Opening>> \o lots
  /\ Arrives(Opening, work.qty, work.units)
  /\ Done(u)

\* reverseStockBatch: only while nothing was issued from it or is reserved.
\*
\* Fault: reservations are not looked at.
IssuedOnly ==
  \/ \E i \in DOMAIN uses : uses[i].lot = Opening
  \/ \E x \in Serials : unitOf[x] = Opening /\ issuedTo[x] # NoSlip
Blocked ==
  \/ \E i \in DOMAIN uses : uses[i].lot = Opening
  \/ \E x \in Serials : unitOf[x] = Opening /\ issuedTo[x] # NoSlip
  \/ quantityReserved # 0

ReverseOpening ==
  /\ ~ Importing
  /\ Opening \in Present
  /\ ~ Blocked
  /\ lots' = RemoveAt(lots, Position(Opening))
  /\ quantityOnHand' = quantityOnHand - received[Opening]
  /\ received' = [received EXCEPT ![Opening] = 0]
  /\ left' = [left EXCEPT ![Opening] = 0]
  /\ unitOf' = [x \in Serials |-> IF unitOf[x] = Opening THEN NoLot ELSE unitOf[x]]
  /\ UNCHANGED <<tracking, quantityReserved, uses, issuedTo, slip, want, doing>>

-----------------------------------------------------------------------------
StoreNext ==
  \/ \E p \in Slips : Approve(p) \/ Withdraw(p)
  \/ ReverseOpening
  \/ \E u \in Staff :
       \/ \E f \in Forms, qty \in 1..MaxQty, units \in SUBSET Serials : ReadForReceipt(u, f, qty, units)
       \/ \E p \in Slips, units \in SUBSET Serials : ReadForRelease(u, p, units)
       \/ \E qty \in 1..MaxQty, units \in SUBSET Serials : ReadForOpening(u, qty, units)
       \/ SaveReceipt(u)
       \/ SaveRelease(u)
       \/ SaveOpening(u)
       \/ GiveUpAtStore(u)

StoreSpec == StoreInit /\ [][StoreNext]_storeVars

-----------------------------------------------------------------------------
(***************************************************************************)
(* Properties                                                              *)
(***************************************************************************)
\* "Stock and the receipt never disagree": what the aggregate says is on the
\* shelf is what the deliveries, batches or units still hold, and what is
\* promised to requests is there, however often a form was sent, a request
\* released, or an opening balance loaded and reversed.
ShelfMatchesRecords ==
  /\ quantityOnHand = IF tracking = "SERIALIZED" THEN Cardinality(InStock)
                      ELSE SumFunction(Remaining)
  /\ quantityReserved = SumFunction([p \in Slips |-> IF slip[p] = "APPROVED" THEN want[p] ELSE 0])
  /\ quantityReserved <= quantityOnHand

\* Every unit released can be traced: a release names deliveries, or units,
\* for exactly what it took, and nothing was taken for a request that was not
\* released. The records never fall short of the shelf.
ReleasesAreTraced ==
  \A p \in Slips :
    /\ \A i \in DOMAIN uses : uses[i].slip = p => uses[i].lot \in Present
    /\ SumFunction([i \in DOMAIN uses |-> IF uses[i].slip = p THEN uses[i].qty ELSE 0])
         + Cardinality({x \in Serials : issuedTo[x] = p})
       = IF slip[p] = "RELEASED" THEN want[p] ELSE 0

\* Oldest first: a release leaves nothing in a delivery older than one it
\* draws from, whatever was recorded, reversed or unrecorded before.
OldestFirst ==
  [][\A i \in DOMAIN uses' \ DOMAIN uses :
       (uses'[i].lot \in Present =>
         \A l \in Older(uses'[i].lot) : Remaining'[l] = 0)]_storeVars
=============================================================================
