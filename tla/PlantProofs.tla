---------------------------- MODULE PlantProofs ----------------------------
(***************************************************************************)
(* Proofs about Plant: types, the second person, complete checklists, the  *)
(* yard, and passed inspections left alone, for every number of people,    *)
(* inspections and items.                                                  *)
(***************************************************************************)
EXTENDS Plant, TLAPS

\* N/A only where it is allowed, and complete once submitted.
Answered(p) == \A i \in Items : result[p][i] # "none"

Checklists ==
  \A p \in Pdis : /\ \A i \in Items : result[p][i] = "NA" => i \in Optional
                  /\ status[p] \in {"SUBMITTED", "PASSED"} => Answered(p)

\* What a request read stays true until it saves: a checklist read as complete
\* is complete, whoever decides has inspected nothing, and passed is passed.
Readings ==
  \A u \in People :
    /\ doing[u].step = "submit" => Answered(doing[u].pdi)
    /\ doing[u].step = "decide" => status[doing[u].pdi] # "NONE" /\ ~Inspected(u, doing[u].pdi)
    /\ doing[u].step = "passed" => status[doing[u].pdi] = "PASSED"

IInv == TypeOK /\ Checklists /\ Readings /\ SecondPersonApproves /\ YardAfterPass

LEMMA Starting == Init => IInv
<1> SUFFICES ASSUME Init PROVE IInv
  OBVIOUS
<1>1. TypeOK
  BY DEF Init, TypeOK, Stages, Statuses, Somebody, Requests
<1>2. Checklists /\ Readings /\ SecondPersonApproves /\ YardAfterPass
  BY DEF Init, Checklists, Readings, SecondPersonApproves, YardAfterPass, Idle
<1> QED
  BY <1>1, <1>2 DEF IInv

\* A step that changes only who does what, to a request that fits its reading.
LEMMA OnlyDoing ==
  ASSUME IInv, NEW u \in People, NEW request \in Requests, Does(u, request),
         UNCHANGED <<status, inspector, decidedBy, ready, items>>,
         stage' \in Stages,
         stage' = "YARD" => (stage = "YARD" \/ \E p \in Pdis : status[p] = "PASSED"),
         request.step = "submit" => Answered(request.pdi),
         request.step = "decide" => status[request.pdi] # "NONE" /\ ~Inspected(u, request.pdi),
         request.step = "passed" => status[request.pdi] = "PASSED"
  PROVE  IInv'
<1>1. doing' \in [People -> Requests] /\ \A v \in People : doing'[v] = IF v = u THEN request ELSE doing[v]
  BY DEF IInv, TypeOK, Does
<1>2. TypeOK'
  BY <1>1 DEF IInv, TypeOK, items
<1>3. Readings'
  BY <1>1 DEF IInv, Readings, Answered, Inspected, items
<1>4. Checklists' /\ SecondPersonApproves' /\ YardAfterPass'
  BY DEF IInv, Checklists, SecondPersonApproves, YardAfterPass, Answered, Inspected, items
<1> QED
  BY <1>2, <1>3, <1>4 DEF IInv

LEMMA Scanning ==
  ASSUME IInv, NEW u \in People, lookUp(u) \/ GiveUp(u)
  PROVE  IInv'
<1>1. CASE lookUp(u) /\ ~UNCHANGED doing
  BY <1>1, OnlyDoing DEF lookUp, Requests, Starts, IInv, TypeOK, Stages
<1>2. CASE lookUp(u) /\ UNCHANGED doing
  <2>1. TypeOK' /\ (stage' = "YARD" => stage = "YARD")
    BY <1>2 DEF lookUp, IInv, TypeOK, Stages, items
  <2>2. Checklists' /\ Readings' /\ SecondPersonApproves' /\ YardAfterPass'
    BY <1>2, <2>1 DEF lookUp, IInv, Checklists, Readings, SecondPersonApproves, YardAfterPass, Answered, Inspected, items
  <2> QED
    BY <2>1, <2>2 DEF IInv
<1>3. CASE GiveUp(u)
  BY <1>3, OnlyDoing DEF GiveUp, Requests, Idle, IInv, TypeOK
<1> QED
  BY <1>1, <1>2, <1>3

LEMMA Looking ==
  ASSUME IInv, NEW u \in People, NEW p \in Pdis,
         \/ openForm(u, p)
         \/ readForSubmit(u, p)
         \/ readForDecision(u, p)
         \/ moveToYard(u, p)
  PROVE  IInv'
<1>1. CASE openForm(u, p)
  BY <1>1, OnlyDoing DEF openForm, Requests, Edits, IInv, TypeOK
<1>2. CASE readForSubmit(u, p)
  <2>1. [step |-> "submit", pdi |-> p, next |-> afterSubmit(p)] \in Requests /\ Answered(p)
    BY <1>2 DEF readForSubmit, pdiBlockers, Answered, Requests, Submits, afterSubmit
  <2> QED
    BY <1>2, <2>1, OnlyDoing DEF readForSubmit, IInv, TypeOK
<1>3. CASE readForDecision(u, p)
  BY <1>3, OnlyDoing DEF readForDecision, Requests, Decisions, IInv, TypeOK
<1>4. CASE moveToYard(u, p)
  <2>1. status[p] = "PASSED"
    BY <1>4 DEF moveToYard, On, IInv, Readings
  <2>2. Idle \in Requests /\ Idle.step = "idle"
    BY DEF Requests, Idle
  <2> QED
    BY <1>4, <2>1, <2>2, OnlyDoing DEF moveToYard, IInv, TypeOK, Stages
<1> QED
  BY <1>1, <1>2, <1>3, <1>4

\* Starting, recording, cancelling and submitting: nothing that has passed.
LEMMA Recording ==
  ASSUME IInv, NEW u \in People, NEW p \in Pdis,
         \/ startPdi(u, p)
         \/ \E i \in Items, answer \in Answers : setPdiItem(u, p, i, answer)
         \/ \E complete \in BOOLEAN : setPdiReadings(u, p, complete)
         \/ cancelPdi(u, p)
         \/ submitPdi(u, p)
  PROVE  IInv'
<1> DEFINE Saved == doing' \in [People -> Requests] /\ \A v \in People : doing'[v] = IF v = u THEN Idle ELSE doing[v]
<1>0. Does(u, Idle) => Saved
  BY DEF IInv, TypeOK, Does, Requests
<1>1. CASE startPdi(u, p)
  <2>1. Saved
    BY <1>0, <1>1 DEF startPdi
  <2>2. TypeOK'
    BY <1>1, <2>1 DEF startPdi, IInv, TypeOK, Statuses, Somebody, items
  <2>3. Readings'
    BY <1>1, <2>1 DEF startPdi, IInv, TypeOK, Readings, Answered, Inspected, Idle, items, Requests, Starts, Edits, Submits, Decisions
  <2>4. Checklists' /\ SecondPersonApproves' /\ YardAfterPass'
    BY <1>1 DEF startPdi, IInv, TypeOK, Checklists, SecondPersonApproves, YardAfterPass, Answered, Inspected, items
  <2> QED
    BY <2>2, <2>3, <2>4 DEF IInv
<1>2. ASSUME NEW i \in Items, NEW answer \in Answers, setPdiItem(u, p, i, answer)
      PROVE  IInv'
  <2>1. Saved
    BY <1>0, <1>2 DEF setPdiItem
  <2>2. TypeOK'
    BY <1>2, <2>1 DEF setPdiItem, IInv, TypeOK, Somebody
  <2>3. status[p] \in EDITABLE
    BY <1>2 DEF setPdiItem, Editable
  <2>4. Readings'
    <3>1. \A q \in Pdis : Answered(q) => Answered(q)'
      BY <1>2 DEF setPdiItem, IInv, TypeOK, Answered, Answers
    <3>2. \A v \in People \ {u}, q \in Pdis : ~Inspected(v, q) => ~Inspected(v, q)'
      BY <1>2 DEF setPdiItem, IInv, TypeOK, Inspected
    <3> QED
      BY <1>2, <2>1, <3>1, <3>2 DEF setPdiItem, IInv, TypeOK, Readings, Idle, Requests, Starts, Edits, Submits, Decisions
  <2>5. Checklists' /\ SecondPersonApproves' /\ YardAfterPass'
    BY <1>2, <2>3 DEF setPdiItem, IInv, TypeOK, Checklists, SecondPersonApproves, YardAfterPass, Answered, Inspected, EDITABLE, Answers
  <2> QED
    BY <2>2, <2>4, <2>5 DEF IInv
<1>3. ASSUME NEW complete \in BOOLEAN, setPdiReadings(u, p, complete)
      PROVE  IInv'
  <2>1. Saved
    BY <1>0, <1>3 DEF setPdiReadings
  <2>2. TypeOK'
    BY <1>3, <2>1 DEF setPdiReadings, IInv, TypeOK, items
  <2>3. Readings'
    BY <1>3, <2>1 DEF setPdiReadings, IInv, Readings, Answered, Inspected, Idle, items
  <2>4. Checklists' /\ SecondPersonApproves' /\ YardAfterPass'
    BY <1>3 DEF setPdiReadings, IInv, Checklists, SecondPersonApproves, YardAfterPass, Answered, Inspected, items
  <2> QED
    BY <2>2, <2>3, <2>4 DEF IInv
<1>4. CASE cancelPdi(u, p) \/ submitPdi(u, p)
  <2>1. Saved
    BY <1>0, <1>4 DEF cancelPdi, submitPdi
  <2>2. TypeOK'
    <3>1. submitPdi(u, p) => doing[u].next \in Statuses
      BY DEF submitPdi, On, IInv, TypeOK, Requests, Idle, Starts, Edits, Submits, Decisions, Statuses
    <3> QED
      BY <1>4, <2>1, <3>1 DEF cancelPdi, submitPdi, IInv, TypeOK, Statuses, Somebody, items
  <2>3. status[p] \in EDITABLE /\ \A q \in Pdis \ {p} : status'[q] = status[q] /\ decidedBy'[q] = decidedBy[q]
    BY <1>4 DEF cancelPdi, submitPdi, Editable, IInv, TypeOK
  <2>4. status'[p] \in {"CANCELLED", "REWORK", "SUBMITTED"} /\ (status'[p] = "SUBMITTED" => Answered(p))
    <3>1. CASE cancelPdi(u, p)
      BY <3>1 DEF cancelPdi, IInv, TypeOK
    <3>2. CASE submitPdi(u, p)
      <4>1. doing[u].step = "submit" /\ doing[u].pdi = p /\ status' = [status EXCEPT ![p] = doing[u].next]
        BY <3>2 DEF submitPdi, On
      <4>2. doing[u].next \in {"REWORK", "SUBMITTED"}
        BY <4>1 DEF IInv, TypeOK, Requests, Idle, Starts, Edits, Submits, Decisions
      <4>3. Answered(p)
        BY <4>1 DEF IInv, Readings
      <4> QED
        BY <4>1, <4>2, <4>3 DEF IInv, TypeOK
    <3> QED
      BY <1>4, <3>1, <3>2
  <2>5. UNCHANGED <<stage, inspector, ready, items>>
    BY <1>4 DEF cancelPdi, submitPdi
  <2>6. Readings'
    BY <2>1, <2>3, <2>4, <2>5 DEF IInv, TypeOK, Readings, Answered, Inspected, EDITABLE, Idle, items, Requests, Starts, Edits, Submits, Decisions
  <2>7. Checklists' /\ SecondPersonApproves' /\ YardAfterPass'
    BY <2>3, <2>4, <2>5 DEF IInv, Checklists, SecondPersonApproves, YardAfterPass, Answered, Inspected, EDITABLE, items
  <2> QED
    BY <2>2, <2>6, <2>7 DEF IInv
<1> QED
  BY <1>1, <1>2, <1>3, <1>4

LEMMA Deciding ==
  ASSUME IInv, NEW u \in People, NEW p \in Pdis,
         approvePdi(u, p) \/ \E codes \in SUBSET Items : rejectPdi(u, p, codes)
  PROVE  IInv'
<1>1. CASE approvePdi(u, p)
  <2>1. [step |-> "passed", pdi |-> p] \in Requests
    BY DEF Requests, Decisions
  <2>2. doing' \in [People -> Requests] /\ \A v \in People : doing'[v] = IF v = u THEN [step |-> "passed", pdi |-> p] ELSE doing[v]
    BY <1>1, <2>1 DEF approvePdi, Does, IInv, TypeOK
  <2>3. TypeOK'
    BY <1>1, <2>2 DEF approvePdi, IInv, TypeOK, Statuses, Somebody, items
  <2>4. status' = [status EXCEPT ![p] = "PASSED"] /\ status[p] = "SUBMITTED" /\ ~Inspected(u, p)
    BY <1>1 DEF approvePdi, Undecided, On, IInv, Readings
  <2>5. Readings'
    BY <1>1, <2>2, <2>4 DEF approvePdi, IInv, TypeOK, Readings, Answered, Inspected, items
  <2>6. Checklists'
    BY <1>1, <2>4 DEF approvePdi, IInv, TypeOK, Checklists, Answered, items
  <2>7. SecondPersonApproves'
    BY <1>1, <2>4 DEF approvePdi, IInv, TypeOK, SecondPersonApproves, Inspected, items
  <2>8. YardAfterPass'
    BY <1>1, <2>4 DEF approvePdi, IInv, TypeOK, YardAfterPass
  <2> QED
    BY <2>3, <2>5, <2>6, <2>7, <2>8 DEF IInv
<1>2. ASSUME NEW codes \in SUBSET Items, rejectPdi(u, p, codes)
      PROVE  IInv'
  <2>1. doing' \in [People -> Requests] /\ \A v \in People : doing'[v] = IF v = u THEN Idle ELSE doing[v]
    BY <1>2 DEF rejectPdi, Does, IInv, TypeOK, Requests
  <2>2. /\ result' \in [Pdis -> [Items -> Answers \cup {"none"}]]
        /\ \A q \in Pdis \ {p} : result'[q] = result[q]
        /\ \A i \in Items : result'[p][i] = IF i \in codes THEN "NOT_OK" ELSE result[p][i]
    BY <1>2 DEF rejectPdi, Rejected, IInv, TypeOK, Answers
  <2>3. status' = [status EXCEPT ![p] = "REWORK"] /\ status[p] = "SUBMITTED" /\ UNCHANGED <<stage, inspector, ready, checkedBy>>
    BY <1>2 DEF rejectPdi, Undecided
  <2>4. TypeOK'
    BY <1>2, <2>1, <2>2, <2>3 DEF rejectPdi, IInv, TypeOK, Statuses, Somebody
  <2>5. \A q \in Pdis : Answered(q) => Answered(q)'
    BY <2>2 DEF Answered
  <2>6. Readings'
    BY <2>1, <2>3, <2>5 DEF IInv, TypeOK, Readings, Inspected, Idle, Requests, Starts, Edits, Submits, Decisions
  <2>7. Checklists'
    BY <2>2, <2>3, <2>5 DEF IInv, TypeOK, Checklists
  <2>8. SecondPersonApproves' /\ YardAfterPass'
    BY <1>2, <2>3 DEF rejectPdi, IInv, TypeOK, SecondPersonApproves, YardAfterPass, Inspected
  <2> QED
    BY <2>4, <2>6, <2>7, <2>8 DEF IInv
<1> QED
  BY <1>1, <1>2

----------------------------------------------------------------------------
\* The invariant is inductive: it holds throughout the life of a vehicle.
THEOREM Inductive == Spec => []IInv
<1>1. IInv /\ [Next]_vars => IInv'
  <2> SUFFICES ASSUME IInv, [Next]_vars PROVE IInv'
    OBVIOUS
  <2>1. CASE UNCHANGED vars
    BY <2>1 DEF vars, items, IInv, TypeOK, Checklists, Readings, SecondPersonApproves, YardAfterPass, Answered, Inspected
  <2>2. ASSUME NEW u \in People, lookUp(u) \/ GiveUp(u)
        PROVE  IInv'
    BY <2>2, Scanning
  <2>3. ASSUME NEW u \in People, NEW p \in Pdis,
               \/ startPdi(u, p)
               \/ openForm(u, p)
               \/ \E i \in Items, answer \in Answers : setPdiItem(u, p, i, answer)
               \/ \E complete \in BOOLEAN : setPdiReadings(u, p, complete)
               \/ cancelPdi(u, p)
               \/ readForSubmit(u, p)
               \/ submitPdi(u, p)
               \/ readForDecision(u, p)
               \/ approvePdi(u, p)
               \/ moveToYard(u, p)
               \/ \E codes \in SUBSET Items : rejectPdi(u, p, codes)
        PROVE  IInv'
    BY <2>3, Looking, Recording, Deciding
  <2> QED
    BY <2>1, <2>2, <2>3 DEF Next
<1> QED
  BY Starting, <1>1, PTL DEF Spec

\* Every reachable state is well typed, for any people, inspections and items.
THEOREM TypeCorrect == Spec => []TypeOK
<1>1. IInv => TypeOK
  BY DEF IInv
<1> QED
  BY Inductive, <1>1, PTL

\* approvePdi: whoever passed an inspection took no part in it.
THEOREM SecondPerson == Spec => []SecondPersonApproves
<1>1. IInv => SecondPersonApproves
  BY DEF IInv
<1> QED
  BY Inductive, <1>1, PTL

\* submitPdi: what is submitted or passed is answered throughout.
THEOREM ChecklistComplete == Spec => []NothingUnanswered
<1>1. IInv => NothingUnanswered
  BY DEF IInv, Checklists, Answered, NothingUnanswered
<1> QED
  BY Inductive, <1>1, PTL

\* approvePdi: the yard is reached through an inspection that passed.
THEOREM YardEarned == Spec => []YardAfterPass
<1>1. IInv => YardAfterPass
  BY DEF IInv
<1> QED
  BY Inductive, <1>1, PTL

\* Every save names the statuses it may change: a passed inspection is kept.
THEOREM PassedKept == Spec => PassedIsFinal
<1>1. IInv /\ [Next]_vars =>
        [\A p \in Pdis : status[p] = "PASSED" =>
           /\ status'[p] = "PASSED"
           /\ UNCHANGED <<inspector[p], decidedBy[p], ready[p], result[p], checkedBy[p]>>]_vars
  <2> SUFFICES ASSUME IInv, Next, NEW p \in Pdis, status[p] = "PASSED"
               PROVE  status'[p] = "PASSED" /\ UNCHANGED <<inspector[p], decidedBy[p], ready[p], result[p], checkedBy[p]>>
    BY DEF vars, items
  <2> USE DEF IInv, TypeOK
  <2>1. ASSUME NEW u \in People, lookUp(u) \/ GiveUp(u)
        PROVE  UNCHANGED <<status, inspector, decidedBy, ready, items>>
    BY <2>1 DEF lookUp, GiveUp
  <2>2. ASSUME NEW u \in People, NEW q \in Pdis,
               openForm(u, q) \/ readForSubmit(u, q) \/ readForDecision(u, q) \/ moveToYard(u, q)
        PROVE  UNCHANGED <<status, inspector, decidedBy, ready, items>>
    BY <2>2 DEF openForm, readForSubmit, readForDecision, moveToYard
  <2>3. ASSUME NEW u \in People, NEW q \in Pdis,
               \/ startPdi(u, q)
               \/ \E i \in Items, answer \in Answers : setPdiItem(u, q, i, answer)
               \/ \E complete \in BOOLEAN : setPdiReadings(u, q, complete)
               \/ cancelPdi(u, q)
               \/ submitPdi(u, q)
               \/ approvePdi(u, q)
               \/ \E codes \in SUBSET Items : rejectPdi(u, q, codes)
        PROVE  /\ q # p
               /\ q # p => /\ status'[p] = status[p]
                           /\ UNCHANGED <<inspector[p], decidedBy[p], ready[p], result[p], checkedBy[p]>>
    <3>1. status[q] \in {"NONE", "SUBMITTED"} \cup EDITABLE
      BY <2>3 DEF startPdi, setPdiItem, setPdiReadings, cancelPdi, submitPdi, approvePdi, rejectPdi, Editable, Undecided
    <3>2. q # p
      BY <3>1 DEF EDITABLE
    <3>3. CASE startPdi(u, q) \/ cancelPdi(u, q) \/ submitPdi(u, q) \/ approvePdi(u, q)
      BY <3>2, <3>3 DEF startPdi, cancelPdi, submitPdi, approvePdi, items
    <3>4. CASE (\E i \in Items, answer \in Answers : setPdiItem(u, q, i, answer)) \/ \E complete \in BOOLEAN : setPdiReadings(u, q, complete)
      BY <3>2, <3>4 DEF setPdiItem, setPdiReadings, items
    <3>5. CASE \E codes \in SUBSET Items : rejectPdi(u, q, codes)
      BY <3>2, <3>5 DEF rejectPdi
    <3> QED
      BY <2>3, <3>2, <3>3, <3>4, <3>5
  <2> QED
    BY <2>1, <2>2, <2>3 DEF Next, items
<1> QED
  BY Inductive, <1>1, PTL DEF Spec, PassedIsFinal
=============================================================================
