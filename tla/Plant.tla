-------------------------------- MODULE Plant --------------------------------
(***************************************************************************)
(* The assembly plant: one vehicle and its pre-delivery inspections (PDI). *)
(* Inspectors answer a checklist on their tablets and submit it; anything  *)
(* Not OK goes to rework; a second person approves it, which moves the     *)
(* vehicle to the yard, or rejects items back to rework.                   *)
(*                                                                         *)
(* Every handler reads the inspection with its items, decides, and saves   *)
(* with an update that names the statuses it may change; doing[u] keeps    *)
(* what was read. A request may also be refused or die (GiveUp).           *)
(***************************************************************************)
EXTENDS Naturals

CONSTANTS
  People,     \* inspectors and approvers; each has at most one request in flight
  Pdis,       \* inspection rows that may be created for the vehicle
  Items,      \* the checklist of its model
  Optional    \* items that allow N/A

Nobody == "nobody"

ASSUME ItemAssumption == Optional \subseteq Items
ASSUME PeopleAssumption == Nobody \notin People

VARIABLES
  stage,      \* PlantVehicle.stage, "NONE" before the vehicle is registered
  status,     \* PdiInspection.status, "NONE" before it is started
  inspector,  \* inspectorId
  decidedBy,  \* decidedById
  ready,      \* readings are complete and fault codes cleared: none blocks a submission
  result,     \* PdiItem.result, "none" before it is answered
  checkedBy,  \* PdiItem.checkedById
  doing       \* what each request has read and is about to save

items == <<result, checkedBy>>
vars  == <<stage, status, inspector, decidedBy, ready, items, doing>>

Stages   == {"NONE", "PDI", "YARD"}
Statuses == {"NONE", "IN_PROGRESS", "REWORK", "SUBMITTED", "PASSED", "CANCELLED"}
EDITABLE == {"IN_PROGRESS", "REWORK"}
Open     == {"IN_PROGRESS", "REWORK", "SUBMITTED"}
Answers  == {"OK", "NOT_OK", "NA"}
Somebody == People \cup {Nobody}

Idle      == [step |-> "idle"]
Starts    == [step : {"start"}]
Edits     == [step : {"edit"}, pdi : Pdis]
Submits   == [step : {"submit"}, pdi : Pdis, next : {"REWORK", "SUBMITTED"}]
Decisions == [step : {"decide", "passed"}, pdi : Pdis]
Requests  == {Idle} \cup Starts \cup Edits \cup Submits \cup Decisions

Init ==
  /\ stage = "NONE"
  /\ status = [p \in Pdis |-> "NONE"]
  /\ inspector = [p \in Pdis |-> Nobody]
  /\ decidedBy = [p \in Pdis |-> Nobody]
  /\ ready = [p \in Pdis |-> FALSE]
  /\ result = [p \in Pdis |-> [i \in Items |-> "none"]]
  /\ checkedBy = [p \in Pdis |-> [i \in Items |-> Nobody]]
  /\ doing = [u \in People |-> Idle]

IsIdle(u)        == doing[u] = Idle
Does(u, request) == doing' = [doing EXCEPT ![u] = request]
On(u, step, p)   == doing[u].step = step /\ doing[u].pdi = p

----------------------------------------------------------------------------
\* Starting

\* Scanning the VIN registers the vehicle when it is new here; a PDI that is
\* open is gone back to, and one that has passed is enough.
lookUp(u) ==
  /\ IsIdle(u)
  /\ stage' = IF stage = "NONE" THEN "PDI" ELSE stage
  /\ IF \E p \in Pdis : status[p] \in Open \cup {"PASSED"}
     THEN UNCHANGED doing
     ELSE Does(u, [step |-> "start"])
  /\ UNCHANGED <<status, inspector, decidedBy, ready, items>>

startPdi(u, p) ==
  /\ doing[u].step = "start"
  /\ status[p] = "NONE"
  /\ status' = [status EXCEPT ![p] = "IN_PROGRESS"]
  /\ inspector' = [inspector EXCEPT ![p] = u]
  /\ Does(u, Idle)
  /\ UNCHANGED <<stage, decidedBy, ready, items>>

----------------------------------------------------------------------------
\* Recording

\* Fault: an item is saved whatever became of its inspection.
AnyStatus(p) == TRUE

\* What inspectors still change: in progress or in rework.
Editable(p) == status[p] \in EDITABLE

\* Reading an inspection to record on it, or to cancel it.
openForm(u, p) ==
  /\ IsIdle(u)
  /\ status[p] # "NONE"
  /\ Does(u, [step |-> "edit", pdi |-> p])
  /\ UNCHANGED <<stage, status, inspector, decidedBy, ready, items>>

setPdiItem(u, p, i, answer) ==
  /\ On(u, "edit", p)
  /\ Editable(p)
  /\ answer = "NA" => i \in Optional
  /\ result' = [result EXCEPT ![p][i] = answer]
  /\ checkedBy' = [checkedBy EXCEPT ![p][i] = u]
  /\ Does(u, Idle)
  /\ UNCHANGED <<stage, status, inspector, decidedBy, ready>>

\* The readings form replaces all readings, blank ones included.
setPdiReadings(u, p, complete) ==
  /\ On(u, "edit", p)
  /\ Editable(p)
  /\ ready' = [ready EXCEPT ![p] = complete]
  /\ Does(u, Idle)
  /\ UNCHANGED <<stage, status, inspector, decidedBy, items>>

cancelPdi(u, p) ==
  /\ On(u, "edit", p)
  /\ Editable(p)
  /\ status' = [status EXCEPT ![p] = "CANCELLED"]
  /\ Does(u, Idle)
  /\ UNCHANGED <<stage, inspector, decidedBy, ready, items>>

----------------------------------------------------------------------------
\* Submitting: what is read decides where the inspection goes

pdiBlockers(p) == ~ready[p] \/ \E i \in Items : result[p][i] = "none"
afterSubmit(p) == IF \E i \in Items : result[p][i] = "NOT_OK" THEN "REWORK" ELSE "SUBMITTED"

readForSubmit(u, p) ==
  /\ IsIdle(u)
  /\ status[p] # "NONE"
  /\ ~pdiBlockers(p)
  /\ Does(u, [step |-> "submit", pdi |-> p, next |-> afterSubmit(p)])
  /\ UNCHANGED <<stage, status, inspector, decidedBy, ready, items>>

submitPdi(u, p) ==
  /\ On(u, "submit", p)
  /\ Editable(p)
  /\ status' = [status EXCEPT ![p] = doing[u].next]
  /\ decidedBy' = [decidedBy EXCEPT ![p] = IF doing[u].next = "SUBMITTED" THEN Nobody ELSE @]
  /\ Does(u, Idle)
  /\ UNCHANGED <<stage, inspector, ready, items>>

----------------------------------------------------------------------------
\* Deciding: never the inspector nor anyone who checked an item

Inspected(u, p) == inspector[p] = u \/ \E i \in Items : checkedBy[p][i] = u

\* Fault: a decision is saved on whatever was read as submitted.
AsRead(p) == status[p] # "CANCELLED"

\* The inspection still waits for its decision.
Undecided(p) == status[p] = "SUBMITTED"

readForDecision(u, p) ==
  /\ IsIdle(u)
  /\ status[p] = "SUBMITTED"
  /\ ~Inspected(u, p)
  /\ Does(u, [step |-> "decide", pdi |-> p])
  /\ UNCHANGED <<stage, status, inspector, decidedBy, ready, items>>

approvePdi(u, p) ==
  /\ On(u, "decide", p)
  /\ Undecided(p)
  /\ status' = [status EXCEPT ![p] = "PASSED"]
  /\ decidedBy' = [decidedBy EXCEPT ![p] = u]
  /\ Does(u, [step |-> "passed", pdi |-> p])
  /\ UNCHANGED <<stage, inspector, ready, items>>

\* A call of its own after the inspection has passed.
moveToYard(u, p) ==
  /\ On(u, "passed", p)
  /\ stage' = IF stage = "PDI" THEN "YARD" ELSE stage
  /\ Does(u, Idle)
  /\ UNCHANGED <<status, inspector, decidedBy, ready, items>>

\* Fault: rejected items are put back to unanswered.
Unanswered == "none"

\* What becomes of a rejected item.
Rejected == "NOT_OK"

rejectPdi(u, p, codes) ==
  /\ On(u, "decide", p)
  /\ Undecided(p)
  /\ codes # {}
  /\ status' = [status EXCEPT ![p] = "REWORK"]
  /\ decidedBy' = [decidedBy EXCEPT ![p] = u]
  /\ result' = [result EXCEPT ![p] = [i \in Items |-> IF i \in codes THEN Rejected ELSE @[i]]]
  /\ Does(u, Idle)
  /\ UNCHANGED <<stage, inspector, ready, checkedBy>>

\* Refused, or stopped before it saved; after the approval it is the move to
\* the yard that is lost.
GiveUp(u) ==
  /\ ~IsIdle(u)
  /\ Does(u, Idle)
  /\ UNCHANGED <<stage, status, inspector, decidedBy, ready, items>>

----------------------------------------------------------------------------
\* Specification

Next ==
  \E u \in People :
    \/ lookUp(u)
    \/ GiveUp(u)
    \/ \E p \in Pdis :
         \/ startPdi(u, p)
         \/ openForm(u, p)
         \/ \E i \in Items, answer \in Answers : setPdiItem(u, p, i, answer)
         \/ \E complete \in BOOLEAN : setPdiReadings(u, p, complete)
         \/ cancelPdi(u, p)
         \/ readForSubmit(u, p)
         \/ submitPdi(u, p)
         \/ readForDecision(u, p)
         \/ approvePdi(u, p)
         \/ moveToYard(u, p)
         \/ \E codes \in SUBSET Items : rejectPdi(u, p, codes)

Spec == Init /\ [][Next]_vars

----------------------------------------------------------------------------
\* Properties

TypeOK ==
  /\ stage \in Stages
  /\ status \in [Pdis -> Statuses]
  /\ inspector \in [Pdis -> Somebody]
  /\ decidedBy \in [Pdis -> Somebody]
  /\ ready \in [Pdis -> BOOLEAN]
  /\ result \in [Pdis -> [Items -> Answers \cup {"none"}]]
  /\ checkedBy \in [Pdis -> [Items -> Somebody]]
  /\ doing \in [People -> Requests]

\* Whoever approved an inspection neither inspected the vehicle nor checked
\* any of its items, before the decision or after it.
SecondPersonApproves ==
  \A p \in Pdis : status[p] = "PASSED" => decidedBy[p] \in People /\ ~Inspected(decidedBy[p], p)

\* Whatever the tablets do between a submission's reading and its saving,
\* nothing reaches the approver or the yard with an unanswered item, or with
\* N/A on an item every vehicle has.
NothingUnanswered ==
  \A p \in Pdis : status[p] \in {"SUBMITTED", "PASSED"} =>
    \A i \in Items : result[p][i] # "none" /\ (result[p][i] = "NA" => i \in Optional)

\* A vehicle stands in the yard only with an inspection that passed, however
\* approvals, rejections and new inspections of the vehicle overlap.
YardAfterPass == stage = "YARD" => \E p \in Pdis : status[p] = "PASSED"

\* A passed inspection is never changed again: the certificate stays true.
PassedIsFinal ==
  [][ \A p \in Pdis : status[p] = "PASSED" =>
        /\ status'[p] = "PASSED"
        /\ UNCHANGED <<inspector[p], decidedBy[p], ready[p], result[p], checkedBy[p]>> ]_vars
=============================================================================
