----------------------- MODULE EstimateAndTeamProofs ------------------------
(***************************************************************************)
(* The estimate of a Job Card for any number of staff, lines and prices,   *)
(* and its team for any number of staff.                                   *)
(***************************************************************************)
EXTENDS Estimate, JobTeam, TLAPS

-----------------------------------------------------------------------------
(***************************************************************************)
(* The estimate.  Submission looks at prices only; that every Store part   *)
(* is matched from then on rests on Honest: no request under way carries a *)
(* typed-in price to a Store part.                                         *)
(***************************************************************************)
\* What a request under way may be about to write.
Honest(w) ==
  /\ (w.op = "add" /\ w.type = "STORE_PART") => w.price = NoPrice
  /\ (w.op = "edit" /\ w.price # NoPrice /\ w.line \in Of("STORE_PART")) => lines[w.line].matched
NoTypedPrice == \A u \in Staff : Honest(doing[u])

IInv == TypeOK /\ StorePartsMatched /\ StorePartPricedByStore /\ NoTypedPrice

\* The claim behind ApprovedNeverChanges: nobody means to save into a stage
\* other than the one an editor may have seen.
Frozen == stage \in {"APPROVED", "MANAGER_APPROVED"} => lines' = lines

LEMMA KindTellsTheSet ==
  ASSUME NEW w \in Requests
  PROVE  /\ w.op = "add" => w \in Additions
         /\ w.op \in {"edit", "match"} => w \in Changes
         /\ w.op = "delete" => w \in Deletions
<1>1. w = Idle => w.op = "idle"
  BY DEF Idle
<1>2. w \in Additions => w.op = "add"
  BY DEF Additions
<1>3. w \in Changes => w.op \in {"edit", "match"}
  BY DEF Changes
<1>4. w \in Deletions => w.op = "delete"
  BY DEF Deletions
<1>5. w \in Approvals => w.op \in {"approve", "finalApprove"}
  BY DEF Approvals
<1>6. w = Idle \/ w \in Additions \/ w \in Changes \/ w \in Deletions \/ w \in Approvals
  BY Zenon DEF Requests
<1>. QED
  BY <1>1, <1>2, <1>3, <1>4, <1>5, <1>6

LEMMA IdleTyped == Idle \in Requests /\ Idle.op = "idle"
BY DEF Requests, Idle

\* A present row is one of the table's, with a type of the model.
LEMMA PresentRow ==
  ASSUME TypeOK, NEW l \in Present
  PROVE  l \in LineIds /\ lines[l] \in Rows
BY DEF TypeOK, Present, LineRows

LEMMA RowIsNoGap == ASSUME NEW r \in Rows PROVE r # NoLine
<1>1. r.type # "none"
  BY TypesAssumption DEF Rows, AllTypes
<1>. QED
  BY <1>1 DEF NoLine

-----------------------------------------------------------------------------
\* A request that only reads, or the first line's creation of the estimate.
LEMMA StartKeeps ==
  ASSUME IInv, NEW u \in Staff, NEW w \in Requests, Start(u, w), Honest(w),
         UNCHANGED <<jobApproved, lines, approvedBy, notified, sellingPrice>>,
         stage' \in {stage, "DRAFT"}
  PROVE  IInv'
<1>1. TypeOK'
  BY DEF IInv, TypeOK, Start, Stages
<1>2. StorePartsMatched' /\ StorePartPricedByStore'
  BY DEF IInv, StorePartsMatched, StorePartPricedByStore, Of, Present
<1>3. Honest(w)'
  BY DEF Honest, Of, Present
<1>4. ASSUME NEW v \in Staff PROVE Honest(doing[v])'
  <2>1. Honest(doing[v]) /\ doing'[v] \in {w, doing[v]}
    BY DEF IInv, TypeOK, NoTypedPrice, Start
  <2>2. CASE doing'[v] = w
    BY <2>2, <1>3 DEF Honest, Of, Present
  <2>3. CASE doing'[v] = doing[v]
    BY <2>1, <2>3 DEF Honest, Of, Present
  <2>. QED
    BY <2>1, <2>2, <2>3
<1>. QED
  BY <1>1, <1>2, <1>4 DEF IInv, NoTypedPrice

\* A request that ends with the lines as they were.
LEMMA DoneKeeps ==
  ASSUME IInv, NEW u \in Staff, Done(u), lines' = lines
  PROVE  doing' \in [Staff -> Requests] /\ NoTypedPrice'
<1>1. doing' \in [Staff -> Requests]
  BY IdleTyped DEF IInv, TypeOK, Done
<1>2. ASSUME NEW v \in Staff PROVE Honest(doing[v])'
  <2>1. Honest(doing[v]) /\ doing'[v] \in {Idle, doing[v]}
    BY DEF IInv, TypeOK, NoTypedPrice, Done
  <2>. QED
    BY <2>1, IdleTyped DEF Honest, Of, Present
<1>. QED
  BY <1>1, <1>2 DEF NoTypedPrice

\* One row is written by a request that ends: a new row in a draft, a row
\* that keeps its type and its match, or none any more.
LEMMA RowKeeps ==
  ASSUME IInv, NEW u \in Staff, NEW l \in LineIds, NEW r \in LineRows,
         lines' = [lines EXCEPT ![l] = r], Done(u),
         UNCHANGED <<jobApproved, stage, approvedBy, notified, sellingPrice>>,
         (r # NoLine /\ r.type = "STORE_PART" /\ r.price # NoPrice) => r.matched,
         \/ r = NoLine
         \/ l \in Present /\ r.type = lines[l].type /\ (lines[l].matched => r.matched)
         \/ stage = "DRAFT" /\ ~InUse(l)
  PROVE  IInv'
<1>1. TypeOK'
  BY IdleTyped DEF IInv, TypeOK, Done
<1>2. /\ lines'[l] = r
      /\ \A k \in LineIds : k # l => lines'[k] = lines[k]
      /\ Present' \subseteq LineIds
  BY DEF IInv, TypeOK, Present
<1>3. StorePartPricedByStore'
  BY <1>2 DEF IInv, StorePartPricedByStore, Of, Present
<1>4. StorePartsMatched'
  BY <1>2 DEF IInv, StorePartsMatched, Of, Present
<1>5. ASSUME NEW v \in Staff PROVE Honest(doing[v])'
  <2>1. Honest(doing[v]) /\ doing'[v] \in {Idle, doing[v]} /\ doing[v] \in Requests
    BY DEF IInv, TypeOK, NoTypedPrice, Done
  <2>2. CASE doing'[v] = Idle
    BY <2>2, IdleTyped DEF Honest
  <2>3. CASE doing'[v] = doing[v] /\ doing[v].op = "edit"
    <3>1. doing[v].line \in LineIds
      BY <2>1, <2>3, KindTellsTheSet DEF Changes
    <3>2. CASE doing[v].line # l
      BY <1>2, <2>1, <2>3, <3>1, <3>2 DEF Honest, Of, Present
    <3>3. CASE doing[v].line = l
      <4>1. InUse(l)
        BY <2>3, <3>3 DEF InUse
      <4>. QED
        BY <1>2, <2>1, <2>3, <3>1, <3>3, <4>1 DEF Honest, Of, Present
    <3>. QED
      BY <3>2, <3>3
  <2>4. CASE doing'[v] = doing[v] /\ doing[v].op # "edit"
    BY <2>1, <2>4 DEF Honest
  <2>. QED
    BY <2>1, <2>2, <2>3, <2>4
<1>. QED
  BY <1>1, <1>3, <1>4, <1>5 DEF IInv, NoTypedPrice

-----------------------------------------------------------------------------
LEMMA ReadKeeps ==
  ASSUME IInv, NEW u \in Staff,
         \/ \E t \in Types, p \in Prices \cup {NoPrice} : ReadForAdd(u, t, p)
         \/ \E l \in LineIds : \/ \E p \in Prices \cup {NoPrice} : ReadForEdit(u, l, p)
                               \/ ReadForDelete(u, l)
                               \/ ReadForMatch(u, l)
         \/ ReadForApproval(u) \/ ReadForFinalApproval(u)
  PROVE  IInv'
<1>1. ASSUME NEW t \in Types, NEW p \in Prices \cup {NoPrice}, ReadForAdd(u, t, p) PROVE IInv'
  <2> DEFINE w == [op |-> "add", type |-> t, price |-> p]
  <2>1. w \in Requests
    BY DEF Requests, Additions
  <2>2. Honest(w)
    BY <1>1 DEF ReadForAdd, MayPrice, Honest
  <2>3. Start(u, w) /\ UNCHANGED <<jobApproved, lines, approvedBy, notified, sellingPrice>>
        /\ stage' = "DRAFT"
    BY <1>1 DEF ReadForAdd
  <2>. HIDE DEF w
  <2>. QED
    BY <2>1, <2>2, <2>3, StartKeeps
<1>2. ASSUME NEW l \in LineIds, NEW p \in Prices \cup {NoPrice}, ReadForEdit(u, l, p) PROVE IInv'
  <2> DEFINE q == IF lines[l].matched THEN sellingPrice ELSE p
             w == [op |-> "edit", line |-> l, seen |-> stage, price |-> q]
  <2>1. w \in Requests
    <3>1. q \in Prices \cup {NoPrice} /\ stage \in Open
      BY <1>2 DEF IInv, TypeOK, ReadForEdit
    <3>. HIDE DEF q
    <3>. QED
      BY <3>1 DEF Requests, Changes
  <2>2. Honest(w)
    BY <1>2 DEF ReadForEdit, MayPrice, Honest, Of
  <2>3. Start(u, w) /\ UNCHANGED <<jobApproved, stage, lines, approvedBy, notified, sellingPrice>>
    BY <1>2 DEF ReadForEdit
  <2>. HIDE DEF w
  <2>. QED
    BY <2>1, <2>2, <2>3, StartKeeps
<1>3. ASSUME NEW l \in LineIds, ReadForDelete(u, l) PROVE IInv'
  <2> DEFINE w == [op |-> "delete", line |-> l, seen |-> stage]
  <2>1. w \in Requests /\ Honest(w)
    BY <1>3 DEF Requests, Deletions, ReadForDelete, Honest
  <2>2. Start(u, w) /\ UNCHANGED <<jobApproved, stage, lines, approvedBy, notified, sellingPrice>>
    BY <1>3 DEF ReadForDelete
  <2>. HIDE DEF w
  <2>. QED
    BY <2>1, <2>2, StartKeeps
<1>4. ASSUME NEW l \in LineIds, ReadForMatch(u, l) PROVE IInv'
  <2> DEFINE w == [op |-> "match", line |-> l, price |-> sellingPrice, seen |-> stage]
  <2>1. w \in Requests /\ Honest(w)
    BY <1>4 DEF Requests, Changes, ReadForMatch, Honest, IInv, TypeOK
  <2>2. Start(u, w) /\ UNCHANGED <<jobApproved, stage, lines, approvedBy, notified, sellingPrice>>
    BY <1>4 DEF ReadForMatch
  <2>. HIDE DEF w
  <2>. QED
    BY <2>1, <2>2, StartKeeps
<1>5. CASE ReadForApproval(u) \/ ReadForFinalApproval(u)
  <2>1. PICK op \in {"approve", "finalApprove"} : Start(u, [op |-> op])
    BY <1>5 DEF ReadForApproval, ReadForFinalApproval
  <2> DEFINE w == [op |-> op]
  <2>2. w \in Requests /\ Honest(w)
    BY DEF Requests, Approvals, Honest
  <2>3. Start(u, w) /\ UNCHANGED <<jobApproved, stage, lines, approvedBy, notified, sellingPrice>>
    BY <1>5, <2>1 DEF ReadForApproval, ReadForFinalApproval
  <2>. HIDE DEF w
  <2>. QED
    BY <2>2, <2>3, StartKeeps
<1>. QED
  BY <1>1, <1>2, <1>3, <1>4, <1>5

LEMMA AddKeeps ==
  ASSUME IInv, NEW u \in Staff, NEW l \in LineIds, SaveAdd(u, l)
  PROVE  IInv' /\ Frozen
<1> DEFINE r == [type |-> doing[u].type, price |-> doing[u].price, matched |-> FALSE, by |-> u]
<1>1. doing[u] \in Additions /\ Honest(doing[u])
  BY KindTellsTheSet DEF SaveAdd, IInv, TypeOK, NoTypedPrice
<1>2. r \in LineRows
  BY <1>1 DEF Additions, LineRows, Rows
<1>3. r.type = "STORE_PART" => r.price = NoPrice
  BY <1>1 DEF Honest, Additions
<1>4. /\ lines' = [lines EXCEPT ![l] = r] /\ Done(u)
      /\ stage = "DRAFT" /\ ~InUse(l)
      /\ UNCHANGED <<jobApproved, stage, approvedBy, notified, sellingPrice>>
  BY DEF SaveAdd, StillIn
<1>. HIDE DEF r
<1>5. IInv'
  BY <1>2, <1>3, <1>4, RowKeeps
<1>. QED
  BY <1>4, <1>5 DEF Frozen

LEMMA EditKeeps ==
  ASSUME IInv, NEW u \in Staff, SaveEdit(u)
  PROVE  IInv' /\ Frozen
<1> DEFINE l == doing[u].line
           r == [lines[l] EXCEPT !.price = doing[u].price]
<1>1. doing[u] \in Changes /\ Honest(doing[u]) /\ l \in Present
  BY KindTellsTheSet DEF SaveEdit, IInv, TypeOK, NoTypedPrice
<1>2. l \in LineIds /\ lines[l] \in Rows
  BY <1>1, PresentRow DEF IInv
<1>3. r \in LineRows /\ r.type = lines[l].type /\ r.matched = lines[l].matched /\ r.price = doing[u].price
  BY <1>1, <1>2 DEF Changes, LineRows, Rows
<1>4. (r.type = "STORE_PART" /\ r.price # NoPrice) => r.matched
  BY <1>1, <1>3 DEF Honest, SaveEdit, Of
<1>5. /\ lines' = [lines EXCEPT ![l] = r] /\ Done(u)
      /\ UNCHANGED <<jobApproved, stage, approvedBy, notified, sellingPrice>>
      /\ stage \in Open
  BY <1>1 DEF SaveEdit, StillIn, Changes, IInv, TypeOK
<1>. HIDE DEF l, r
<1>6. IInv'
  BY <1>1, <1>2, <1>3, <1>4, <1>5, RowKeeps
<1>. QED
  BY <1>5, <1>6 DEF Frozen, Open

LEMMA DeleteKeeps ==
  ASSUME IInv, NEW u \in Staff, SaveDelete(u)
  PROVE  IInv' /\ Frozen
<1>1. doing[u] \in Deletions
  BY KindTellsTheSet DEF SaveDelete, IInv, TypeOK
<1>2. doing[u].line \in LineIds /\ stage \in Open
  BY <1>1 DEF Deletions, SaveDelete, StillIn
<1>3. NoLine \in LineRows
  BY DEF LineRows
<1>4. IInv'
  BY <1>2, <1>3, RowKeeps DEF SaveDelete
<1>. QED
  BY <1>2, <1>4 DEF Frozen, Open

LEMMA MatchKeeps ==
  ASSUME IInv, NEW u \in Staff, SaveMatch(u)
  PROVE  IInv' /\ Frozen
<1> DEFINE l == doing[u].line
           r == [lines[l] EXCEPT !.price = doing[u].price, !.matched = TRUE]
<1>1. doing[u] \in Changes /\ l \in Present
  BY KindTellsTheSet DEF SaveMatch, IInv, TypeOK
<1>2. l \in LineIds /\ lines[l] \in Rows
  BY <1>1, PresentRow DEF IInv
<1>3. r \in LineRows /\ r.type = lines[l].type /\ r.matched
  BY <1>1, <1>2 DEF Changes, LineRows, Rows
<1>4. /\ lines' = [lines EXCEPT ![l] = r] /\ Done(u)
      /\ UNCHANGED <<jobApproved, stage, approvedBy, notified, sellingPrice>>
      /\ stage \in Open
  BY <1>1, <1>2 DEF SaveMatch, StillIn, Changes, IInv, TypeOK
<1>. HIDE DEF l, r
<1>5. IInv'
  BY <1>1, <1>2, <1>3, <1>4, RowKeeps
<1>. QED
  BY <1>4, <1>5 DEF Frozen, Open

\* Submission reprices matched lines and asks only that every line has a
\* price: a Store part that has one is matched.
LEMMA SubmitKeeps ==
  ASSUME IInv, NEW u \in Staff, Submit(u)
  PROVE  IInv' /\ Frozen
<1>1. ASSUME NEW l \in LineIds
      PROVE  /\ lines'[l] \in LineRows
             /\ (lines'[l] # NoLine) = (lines[l] # NoLine)
             /\ l \in Present => /\ lines'[l].type = lines[l].type
                                 /\ lines'[l].matched = lines[l].matched
                                 /\ ~lines[l].matched => lines'[l].price = lines[l].price
                                 /\ lines'[l].price # NoPrice
  <2>1. lines'[l] = IF l \in Present /\ lines[l].matched /\ sellingPrice # NoPrice
                      THEN [lines[l] EXCEPT !.price = sellingPrice] ELSE lines[l]
    BY DEF Submit, Repriced
  <2>2. l \in Present => lines'[l].price # NoPrice
    BY DEF Submit, AllPriced
  <2>3. CASE l \in Present
    <3>1. lines[l] \in Rows
      BY <2>3, PresentRow DEF IInv
    <3>2. lines'[l] \in Rows /\ lines'[l].type = lines[l].type /\ lines'[l].matched = lines[l].matched
      BY <2>1, <3>1 DEF Rows, IInv, TypeOK
    <3>. QED
      BY <2>1, <2>2, <2>3, <3>1, <3>2, RowIsNoGap DEF LineRows
  <2>4. CASE l \notin Present
    BY <2>1, <2>4 DEF Present, IInv, TypeOK
  <2>. QED
    BY <2>3, <2>4
<1>2. TypeOK'
  <2>1. lines' \in [LineIds -> LineRows]
    BY <1>1 DEF Submit, Repriced
  <2>. QED
    BY <2>1 DEF Submit, IInv, TypeOK, Stages
<1>3. Present' = Present
  BY <1>1 DEF Present
<1>4. \A l \in Of("STORE_PART")' : lines'[l].matched
  BY <1>1, <1>3 DEF Of, Present, IInv, StorePartPricedByStore
<1>5. StorePartsMatched' /\ StorePartPricedByStore'
  BY <1>4 DEF StorePartsMatched, StorePartPricedByStore
<1>6. NoTypedPrice'
  BY <1>1, <1>3, <1>4 DEF Submit, IInv, NoTypedPrice, Honest
<1>. QED
  BY <1>2, <1>5, <1>6 DEF IInv, Submit, Frozen

\* The stage moves on; the lines stay.
LEMMA StageKeeps ==
  ASSUME IInv, NEW u \in Staff,
         \/ SaveApproval(u) \/ SaveFinalApproval(u) \/ ReturnForChanges(u)
         \/ NotifyCustomer(u) \/ DecideOnJob(u) \/ GiveUp(u)
         \/ \E p \in Prices : SetSellingPrice(u, p)
  PROVE  IInv' /\ lines' = lines
<1>1. /\ lines' = lines /\ stage' \in Stages
      /\ jobApproved' \in BOOLEAN /\ approvedBy' \in Staff \cup {Nobody} /\ notified' \in BOOLEAN
      /\ sellingPrice' \in Prices \cup {NoPrice}
      /\ Done(u) \/ UNCHANGED doing
      /\ stage' # stage => stage \in {"SUBMITTED", "APPROVED"}
  BY DEF SaveApproval, SaveFinalApproval, ReturnForChanges, NotifyCustomer, DecideOnJob, GiveUp,
         SetSellingPrice, IInv, TypeOK, Stages
<1>2. doing' \in [Staff -> Requests] /\ NoTypedPrice'
  <2>1. CASE Done(u)
    BY <1>1, <2>1, DoneKeeps
  <2>2. CASE UNCHANGED doing
    BY <1>1, <2>2 DEF IInv, TypeOK, NoTypedPrice, Honest, Of, Present
  <2>. QED
    BY <1>1, <2>1, <2>2
<1>3. TypeOK'
  BY <1>1, <1>2 DEF IInv, TypeOK
<1>4. StorePartsMatched' /\ StorePartPricedByStore'
  BY <1>1 DEF IInv, StorePartsMatched, StorePartPricedByStore, Of, Present
<1>. QED
  BY <1>1, <1>2, <1>3, <1>4 DEF IInv

-----------------------------------------------------------------------------
LEMMA InitHolds == Init => IInv
<1> SUFFICES ASSUME Init PROVE IInv
  OBVIOUS
<1>1. TypeOK
  BY IdleTyped DEF Init, TypeOK, Stages, LineRows
<1>2. Present = {}
  BY DEF Init, Present
<1>3. StorePartsMatched /\ StorePartPricedByStore
  BY <1>2 DEF StorePartsMatched, StorePartPricedByStore, Of
<1>4. NoTypedPrice
  BY IdleTyped DEF Init, NoTypedPrice, Honest
<1>. QED
  BY <1>1, <1>3, <1>4 DEF IInv

LEMMA NextKeeps == IInv /\ [Next]_vars => IInv' /\ [Frozen]_vars
<1> SUFFICES ASSUME IInv, [Next]_vars PROVE IInv' /\ (Frozen \/ UNCHANGED vars)
  BY DEF Frozen
<1>1. CASE UNCHANGED vars
  BY <1>1 DEF vars, IInv, TypeOK, StorePartsMatched, StorePartPricedByStore, NoTypedPrice, Honest, Of, Present
<1>2. ASSUME NEW u \in Staff, LineStep(u) \/ StageStep(u) \/ GiveUp(u) PROVE IInv' /\ Frozen
  <2>1. CASE \/ \E t \in Types, p \in Prices \cup {NoPrice} : ReadForAdd(u, t, p)
             \/ \E l \in LineIds : \/ \E p \in Prices \cup {NoPrice} : ReadForEdit(u, l, p)
                                   \/ ReadForDelete(u, l)
                                   \/ ReadForMatch(u, l)
             \/ ReadForApproval(u) \/ ReadForFinalApproval(u)
    <3>1. IInv'
      BY <2>1, ReadKeeps
    <3>2. lines' = lines
      BY <2>1 DEF ReadForAdd, ReadForEdit, ReadForDelete, ReadForMatch, ReadForApproval, ReadForFinalApproval
    <3>. QED
      BY <3>1, <3>2 DEF Frozen
  <2>2. CASE \E l \in LineIds : SaveAdd(u, l)
    BY <2>2, AddKeeps
  <2>3. CASE SaveEdit(u)
    BY <2>3, EditKeeps
  <2>4. CASE SaveDelete(u)
    BY <2>4, DeleteKeeps
  <2>5. CASE SaveMatch(u)
    BY <2>5, MatchKeeps
  <2>6. CASE Submit(u)
    BY <2>6, SubmitKeeps
  <2>7. CASE \/ SaveApproval(u) \/ SaveFinalApproval(u) \/ ReturnForChanges(u)
             \/ NotifyCustomer(u) \/ DecideOnJob(u) \/ GiveUp(u)
             \/ \E p \in Prices : SetSellingPrice(u, p)
    <3>1. IInv' /\ lines' = lines
      BY <2>7, StageKeeps
    <3>. QED
      BY <3>1 DEF Frozen
  <2>. QED
    BY <1>2, <2>1, <2>2, <2>3, <2>4, <2>5, <2>6, <2>7 DEF LineStep, StageStep
<1>. QED
  BY <1>1, <1>2 DEF Next

LEMMA InductiveInvariant == Spec => []IInv
BY InitHolds, NextKeeps, PTL DEF Spec

-----------------------------------------------------------------------------
\* Every variable stays in its type.
THEOREM TypeCorrect == Spec => []TypeOK
<1>1. IInv => TypeOK
  BY DEF IInv
<1>. QED
  BY <1>1, InductiveInvariant, PTL

\* submitEstimateForValidation, approveEstimate: past the draft every Store
\* part was matched by the Store.
THEOREM SubmittedPartsMatched == Spec => []StorePartsMatched
<1>1. IInv => StorePartsMatched
  BY DEF IInv
<1>. QED
  BY <1>1, InductiveInvariant, PTL

\* addEstimateLineItem, updateEstimateLineItem: no Store part carries a price
\* that did not come with the Store's match.
THEOREM NoPriceTypedIn == Spec => []StorePartPricedByStore
<1>1. IInv => StorePartPricedByStore
  BY DEF IInv
<1>. QED
  BY <1>1, InductiveInvariant, PTL

\* withEstimateUnchanged: no line of an approved estimate changes, whatever
\* was under way when it was approved.
THEOREM ApprovedFrozen == Spec => ApprovedNeverChanges
<1>1. IInv /\ [Next]_vars => [Frozen]_vars
  BY NextKeeps
<1>2. [Frozen]_vars => [(stage \in {"APPROVED", "MANAGER_APPROVED"}) => lines' = lines]_vars
  BY DEF Frozen
<1>. QED
  BY <1>1, <1>2, InductiveInvariant, PTL DEF Spec, ApprovedNeverChanges

-----------------------------------------------------------------------------
(***************************************************************************)
(* The team.  A claim repeats what was read, so what the reader was        *)
(* allowed to do when it read is what it is allowed to do when it saves    *)
(* (Entitled).                                                             *)
(***************************************************************************)
\* Whoever is about to decide was the supervisor, or a Master Admin, of the
\* card as it was read.
Entitled ==
  \A u \in Staff : doing[u].op = "approve" => u = doing[u].supervisor \/ u \in Admins

TeamInv == TeamTypeOK /\ ApprovedByItsSupervisor /\ Entitled

LEMMA OpTellsTheKind ==
  ASSUME NEW w
  PROVE  /\ w = Idle => w.op = "idle"
         /\ w \in Decisions => w.op \in {"approve", "reject", "assign"}
         /\ w \in Reassignments => w.op = "reassign"
         /\ w \in Answers => w.op \in {"accept", "decline"}
<1>1. w = Idle => w.op = "idle"
  BY DEF Idle
<1>2. w \in Decisions => w.op \in {"approve", "reject", "assign"}
  BY DEF Decisions
<1>3. w \in Reassignments => w.op = "reassign"
  BY DEF Reassignments
<1>4. w \in Answers => w.op \in {"accept", "decline"}
  BY DEF Answers
<1>. QED
  BY <1>1, <1>2, <1>3, <1>4

LEMMA TeamKindTellsTheSet ==
  ASSUME NEW w \in TeamRequests
  PROVE  /\ w.op \in {"approve", "reject", "assign"} => w \in Decisions
         /\ w.op = "reassign" => w \in Reassignments
<1>1. w = Idle \/ w \in Decisions \/ w \in Reassignments \/ w \in Answers
  BY Zenon DEF TeamRequests
<1>. QED
  BY <1>1, OpTellsTheKind

LEMMA TeamIdleTyped == Idle \in TeamRequests /\ Idle.op = "idle"
BY DEF TeamRequests, Idle

-----------------------------------------------------------------------------
\* A request that only reads.
LEMMA TeamStartKeeps ==
  ASSUME TeamInv, NEW u \in Staff, NEW w \in TeamRequests, Start(u, w),
         w.op = "approve" => u = w.supervisor \/ u \in Admins,
         UNCHANGED <<finished, decision, assignment>>
  PROVE  TeamInv'
<1>1. TeamTypeOK' /\ ApprovedByItsSupervisor'
  BY DEF TeamInv, TeamTypeOK, ApprovedByItsSupervisor, Start, decision, assignment
<1>2. Entitled'
  BY DEF TeamInv, TeamTypeOK, Entitled, Start
<1>. QED
  BY <1>1, <1>2 DEF TeamInv

\* A request that ends leaves the others entitled.
LEMMA TeamDoneKeeps ==
  ASSUME TeamInv, NEW u \in Staff, Done(u)
  PROVE  doing' \in [Staff -> TeamRequests] /\ Entitled'
BY TeamIdleTyped DEF TeamInv, TeamTypeOK, Entitled, Done

LEMMA ReadCardKeeps ==
  ASSUME TeamInv, NEW u \in Staff, NEW op, NEW to, ReadCard(u, op, to),
         \/ op \in {"approve", "reject", "assign"} /\ to \in Staff \cup {Nobody}
         \/ op = "reassign" /\ to \in Eligible,
         op = "approve" => MayApprove(u)
  PROVE  TeamInv'
<1> DEFINE w == [op |-> op, supervisor |-> supervisor, approval |-> approval, to |-> to]
<1>1. w \in Decisions \/ w \in Reassignments
  BY DEF TeamInv, TeamTypeOK, Decisions, Reassignments
<1>2. w \in TeamRequests /\ (w.op = "approve" => u = w.supervisor \/ u \in Admins)
  BY <1>1 DEF TeamRequests, MayApprove
<1>3. Start(u, w) /\ UNCHANGED <<finished, decision, assignment>>
  BY DEF ReadCard
<1>. HIDE DEF w
<1>. QED
  BY <1>2, <1>3, TeamStartKeeps

LEMMA TeamReadKeeps ==
  ASSUME TeamInv, NEW u \in Staff,
         \/ ReadForDecision(u) \/ ReadForAnswer(u)
         \/ \E to \in Staff : ReadForReassignment(u, to) \/ ReadForAssignment(u, to)
  PROVE  TeamInv'
<1>1. CASE ReadForDecision(u)
  BY <1>1, ReadCardKeeps DEF ReadForDecision
<1>2. CASE \E to \in Staff : ReadForReassignment(u, to) \/ ReadForAssignment(u, to)
  BY <1>2, ReadCardKeeps DEF ReadForReassignment, ReadForAssignment
<1>3. CASE ReadForAnswer(u)
  <2>1. PICK op \in {"accept", "decline"} : Start(u, [op |-> op, acceptance |-> acceptance])
    BY <1>3 DEF ReadForAnswer
  <2> DEFINE w == [op |-> op, acceptance |-> acceptance]
  <2>2. w \in Answers /\ w.op # "approve"
    BY DEF TeamInv, TeamTypeOK, Answers
  <2>3. w \in TeamRequests /\ Start(u, w) /\ UNCHANGED <<finished, decision, assignment>>
    BY <1>3, <2>1, <2>2 DEF TeamRequests, ReadForAnswer
  <2>. HIDE DEF w
  <2>. QED
    BY <2>2, <2>3, TeamStartKeeps
<1>. QED
  BY <1>1, <1>2, <1>3

LEMMA DecisionKeeps ==
  ASSUME TeamInv, NEW u \in Staff, SaveCardApproval(u) \/ SaveRejection(u) \/ SaveReassignment(u)
  PROVE  TeamInv'
<1>1. doing[u] \in TeamRequests /\ doing' \in [Staff -> TeamRequests] /\ Entitled'
  BY TeamDoneKeeps DEF SaveCardApproval, SaveRejection, SaveReassignment, TeamInv, TeamTypeOK
<1>2. CASE SaveCardApproval(u)
  <2>1. u \in {supervisor} \cup Admins
    BY <1>2 DEF SaveCardApproval, AsDecided, TeamInv, Entitled
  <2>. QED
    BY <1>1, <1>2, <2>1 DEF SaveCardApproval, TeamInv, TeamTypeOK, ApprovedByItsSupervisor, assignment, ApprovalStatuses
<1>3. CASE SaveRejection(u)
  BY <1>1, <1>3 DEF SaveRejection, TeamInv, TeamTypeOK, ApprovedByItsSupervisor, assignment, ApprovalStatuses
<1>4. CASE SaveReassignment(u)
  <2>1. doing[u] \in Reassignments
    BY <1>1, <1>4, TeamKindTellsTheSet DEF SaveReassignment
  <2>2. doing[u].to \in Staff
    BY <2>1, StaffAssumption DEF Reassignments
  <2>. QED
    BY <1>1, <1>4, <2>2
       DEF SaveReassignment, AskAgain, TeamInv, TeamTypeOK, ApprovedByItsSupervisor, assignment, ApprovalStatuses
<1>. QED
  BY <1>2, <1>3, <1>4

LEMMA AssignmentKeeps ==
  ASSUME TeamInv, NEW u \in Staff, SaveAssignment(u) \/ SaveAcceptance(u) \/ SaveDecline(u)
  PROVE  TeamInv'
<1>1. doing[u] \in TeamRequests /\ doing' \in [Staff -> TeamRequests] /\ Entitled'
  BY TeamDoneKeeps DEF SaveAssignment, SaveAcceptance, SaveDecline, TeamInv, TeamTypeOK
<1>2. technician' \in Staff \cup {Nobody} /\ acceptance' \in Acceptances
  <2>1. CASE SaveAssignment(u)
    <3>1. doing[u] \in Decisions
      BY <1>1, <2>1, TeamKindTellsTheSet DEF SaveAssignment
    <3>. QED
      BY <2>1, <3>1 DEF SaveAssignment, Decisions, Acceptances
  <2>2. CASE SaveAcceptance(u) \/ SaveDecline(u)
    BY <2>2 DEF SaveAcceptance, SaveDecline, TeamInv, TeamTypeOK, Acceptances
  <2>. QED
    BY <2>1, <2>2
<1>3. UNCHANGED <<finished, decision>>
  BY DEF SaveAssignment, SaveAcceptance, SaveDecline, decision
<1>. QED
  BY <1>1, <1>2, <1>3 DEF TeamInv, TeamTypeOK, ApprovedByItsSupervisor, decision

-----------------------------------------------------------------------------
(***************************************************************************)
(* The theorems                                                            *)
(***************************************************************************)
LEMMA TeamInitHolds == TeamInit => TeamInv
BY TeamIdleTyped, StaffAssumption
   DEF TeamInit, TeamInv, TeamTypeOK, ApprovedByItsSupervisor, Entitled, ApprovalStatuses, Acceptances

LEMMA TeamNextKeeps == TeamInv /\ [TeamNext]_teamVars => TeamInv'
<1>. SUFFICES ASSUME TeamInv, [TeamNext]_teamVars PROVE TeamInv'
  OBVIOUS
<1>1. CASE UNCHANGED teamVars
  BY <1>1 DEF TeamInv, TeamTypeOK, ApprovedByItsSupervisor, Entitled, teamVars, decision, assignment
<1>2. CASE Finish
  BY <1>2 DEF Finish, TeamInv, TeamTypeOK, ApprovedByItsSupervisor, Entitled, decision, assignment
<1>3. ASSUME NEW u \in Staff, DecisionStep(u) \/ AssignmentStep(u)
      PROVE  TeamInv'
  BY <1>3, TeamReadKeeps, DecisionKeeps, AssignmentKeeps DEF DecisionStep, AssignmentStep
<1>4. ASSUME NEW u \in Staff, GiveUpOnTeam(u)
      PROVE  TeamInv'
  BY <1>4, TeamDoneKeeps DEF GiveUpOnTeam, TeamInv, TeamTypeOK, ApprovedByItsSupervisor, decision, assignment
<1>. QED
  BY <1>1, <1>2, <1>3, <1>4 DEF TeamNext

LEMMA TeamAlways == TeamSpec => []TeamInv
BY TeamInitHolds, TeamNextKeeps, PTL DEF TeamSpec

\* Every variable keeps its type, the requests in flight with theirs.
THEOREM TeamTypeCorrect == TeamSpec => []TeamTypeOK
<1>1. TeamInv => TeamTypeOK
  BY DEF TeamInv
<1>. QED
  BY <1>1, TeamAlways, PTL

\* An approved card was approved by the supervisor it has now, or by a Master
\* Admin, however decisions and reroutings cross.
THEOREM ApproverSupervises == TeamSpec => []ApprovedByItsSupervisor
<1>1. TeamInv => ApprovedByItsSupervisor
  BY DEF TeamInv
<1>. QED
  BY <1>1, TeamAlways, PTL

\* Only the technician a job is assigned to at that moment accepts it.
THEOREM AssignedAccepts == TeamSpec => AcceptedByTheAssigned
<1> DEFINE Accepting == acceptance # "ACCEPTED" /\ acceptance' = "ACCEPTED"
                          => /\ technician' = technician
                             /\ doing[technician] # Idle /\ doing'[technician] = Idle
<1>1. TeamInv /\ [TeamNext]_teamVars => [Accepting]_teamVars
  <2>. SUFFICES ASSUME TeamInv, TeamNext, acceptance # "ACCEPTED", acceptance' = "ACCEPTED"
       PROVE  /\ technician' = technician
              /\ doing[technician] # Idle /\ doing'[technician] = Idle
    OBVIOUS
  <2>1. PICK u \in Staff : SaveAcceptance(u)
    BY DEF TeamNext, Finish, DecisionStep, AssignmentStep, GiveUpOnTeam, ReadForDecision, ReadCard, SaveCardApproval,
           SaveRejection, ReadForReassignment, SaveReassignment, ReadForAssignment, SaveAssignment,
           ReadForAnswer, SaveDecline, assignment
  <2>. QED
    BY <2>1, TeamIdleTyped DEF SaveAcceptance, StillAssigned, Done, TeamInv, TeamTypeOK
<1>. QED
  BY <1>1, TeamAlways, PTL DEF TeamSpec, AcceptedByTheAssigned

\* Nobody is put on a finished job.
THEOREM FinishedLeftAlone == TeamSpec => FinishedTakesNobody
<1> DEFINE Left == finished => technician' \in {technician, Nobody}
<1>1. [TeamNext]_teamVars => [Left]_teamVars
  BY DEF TeamNext, Finish, DecisionStep, AssignmentStep, GiveUpOnTeam, ReadForDecision, ReadCard, SaveCardApproval,
         SaveRejection, ReadForReassignment, SaveReassignment, ReadForAssignment, SaveAssignment,
         AsAssigned, ReadForAnswer, SaveAcceptance, SaveDecline, assignment
<1>. QED
  BY <1>1, PTL DEF TeamSpec, FinishedTakesNobody
=============================================================================
