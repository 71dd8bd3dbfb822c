------------------------------ MODULE JobTeam ------------------------------
(***************************************************************************)
(* Who supervises a Job Card and who works on it: the supervisor's         *)
(* approval of the opened card, routing it to another supervisor, and the  *)
(* technician's answer to an assignment.                                   *)
(*                                                                         *)
(* Every action reads the Job Card, checks who is asking, and then claims  *)
(* the row: the claim's where clause names what must not have changed.     *)
(* Read and claim are two steps; what was read is kept in doing[u].        *)
(***************************************************************************)
EXTENDS Desk

CONSTANTS
  Creator,     \* who opened the Job Card
  Admins,      \* Master Administrators
  Eligible,    \* eligible supervisors of its department
  Hands        \* active technicians and supervisors


ASSUME StaffAssumption ==
  /\ Creator \in Staff
  /\ Admins \subseteq Staff
  /\ Eligible \subseteq Staff
  /\ Hands \subseteq Staff
  /\ Nobody \notin Staff

VARIABLES
  finished,    \* JobCard.status is CLOSED, CHECKED_OUT or CANCELLED
  supervisor,  \* JobCard.supervisorId
  approval,    \* JobCard.approvalStatus
  approvedById,  \* JobCard.approvedById
  technician,  \* JobCard.assignedTechnicianId
  acceptance   \* JobCard.technicianAcceptanceStatus

decision   == <<supervisor, approval, approvedById>>
assignment == <<technician, acceptance>>
teamVars       == <<finished, decision, assignment, doing>>

ApprovalStatuses   == {"PENDING", "APPROVED", "REJECTED"}
Acceptances == {"NULL", "PENDING", "ACCEPTED"}
Decisions     == [op : {"approve", "reject", "assign"}, supervisor : Staff \cup {Nobody},
                  approval : ApprovalStatuses, to : Staff \cup {Nobody}]
Reassignments == [op : {"reassign"}, supervisor : Staff \cup {Nobody}, approval : ApprovalStatuses, to : Eligible]
Answers       == [op : {"accept", "decline"}, acceptance : Acceptances]
TeamRequests      == {Idle} \cup Decisions \cup Reassignments \cup Answers

TeamTypeOK ==
  /\ finished \in BOOLEAN
  /\ supervisor \in Staff \cup {Nobody}
  /\ approval \in ApprovalStatuses
  /\ approvedById \in Staff \cup {Nobody}
  /\ technician \in Staff \cup {Nobody}
  /\ acceptance \in Acceptances
  /\ doing \in [Staff -> TeamRequests]

\* createJobCard: routed to one of the eligible supervisors.
TeamInit ==
  /\ finished = FALSE
  /\ supervisor \in Eligible
  /\ approval = "PENDING"
  /\ approvedById = Nobody
  /\ technician = Nobody
  /\ acceptance = "NULL"
  /\ doing = [u \in Staff |-> Idle]


-----------------------------------------------------------------------------
(***************************************************************************)
(* The supervisor's decision                                               *)
(***************************************************************************)
\* requireJobCardApprover.
MayApprove(u) == u = supervisor \/ u \in Admins

ReadCard(u, op, to) ==
  /\ Start(u, [op |-> op, supervisor |-> supervisor, approval |-> approval, to |-> to])
  /\ UNCHANGED <<finished, decision, assignment>>

ReadForDecision(u) ==
  /\ MayApprove(u)
  /\ \E op \in {"approve", "reject"} : ReadCard(u, op, Nobody)

\* The claim of approveJobCard and rejectJobCard.
\*
\* Fault: it names the approval status only.
SameApproval(work) == approval = work.approval
AsDecided(work) == approval = work.approval /\ supervisor = work.supervisor

\* approveJobCard.
SaveCardApproval(u) ==
  /\ doing[u].op = "approve"
  /\ AsDecided(doing[u])
  /\ approval' = "APPROVED"
  /\ approvedById' = u
  /\ Done(u)
  /\ UNCHANGED <<finished, supervisor, assignment>>

\* rejectJobCard: the card goes back to its creator, without a supervisor.
SaveRejection(u) ==
  /\ doing[u].op = "reject"
  /\ AsDecided(doing[u])
  /\ approval' = "REJECTED"
  /\ approvedById' = u
  /\ supervisor' = Nobody
  /\ Done(u)
  /\ UNCHANGED <<finished, assignment>>

\* reassignSupervisor: by the creator, to an eligible supervisor; the decision
\* is asked for again.
ReadForReassignment(u, to) ==
  /\ u \in {Creator} \cup Admins
  /\ to \in Eligible
  /\ ReadCard(u, "reassign", to)

\* The new supervisor decides afresh.
AskAgain == approval' = "PENDING" /\ approvedById' = Nobody

SaveReassignment(u) ==
  /\ doing[u].op = "reassign"
  /\ supervisor = doing[u].supervisor
  /\ supervisor' = doing[u].to
  /\ AskAgain
  /\ Done(u)
  /\ UNCHANGED <<finished, assignment>>

-----------------------------------------------------------------------------
(***************************************************************************)
(* The technician's assignment                                             *)
(***************************************************************************)
\* assignTechnician: by the supervisor, while the job is not finished.
ReadForAssignment(u, to) ==
  /\ MayApprove(u)
  /\ ~finished
  /\ to \in Hands \cup Admins
  /\ ReadCard(u, "assign", to)

\* Fault: a job that was finished meanwhile is not noticed.
SameSupervisor(work) == supervisor = work.supervisor
AsAssigned(work) == supervisor = work.supervisor /\ ~finished

SaveAssignment(u) ==
  /\ doing[u].op = "assign"
  /\ AsAssigned(doing[u])
  /\ technician' = doing[u].to
  /\ acceptance' = "PENDING"
  /\ Done(u)
  /\ UNCHANGED <<finished, decision>>

\* acceptTechnicianAssignment, rejectTechnicianAssignment.  A Master Admin who
\* is not the technician passes the first check and fails the claim.
ReadForAnswer(u) ==
  /\ u = technician
  /\ \E op \in {"accept", "decline"} : Start(u, [op |-> op, acceptance |-> acceptance])
  /\ UNCHANGED <<finished, decision, assignment>>

StillAssigned(u) == technician = u /\ acceptance = doing[u].acceptance

SaveAcceptance(u) ==
  /\ doing[u].op = "accept"
  /\ StillAssigned(u)
  /\ acceptance' = "ACCEPTED"
  /\ Done(u)
  /\ UNCHANGED <<finished, decision, technician>>

SaveDecline(u) ==
  /\ doing[u].op = "decline"
  /\ StillAssigned(u)
  /\ technician' = Nobody
  /\ acceptance' = "NULL"
  /\ Done(u)
  /\ UNCHANGED <<finished, decision>>

\* The job is closed, cancelled or checked out (JobCard).
Finish ==
  /\ ~finished
  /\ finished' = TRUE
  /\ UNCHANGED <<decision, assignment, doing>>

\* The claim failed or the process died.
GiveUpOnTeam(u) ==
  /\ doing[u] # Idle
  /\ Done(u)
  /\ UNCHANGED <<finished, decision, assignment>>

-----------------------------------------------------------------------------
DecisionStep(u) ==
  \/ ReadForDecision(u)
  \/ SaveCardApproval(u)
  \/ SaveRejection(u)
  \/ \E to \in Staff : ReadForReassignment(u, to)
  \/ SaveReassignment(u)

AssignmentStep(u) ==
  \/ \E to \in Staff : ReadForAssignment(u, to)
  \/ SaveAssignment(u)
  \/ ReadForAnswer(u)
  \/ SaveAcceptance(u)
  \/ SaveDecline(u)

TeamNext == Finish \/ \E u \in Staff : DecisionStep(u) \/ AssignmentStep(u) \/ GiveUpOnTeam(u)

TeamSpec == TeamInit /\ [][TeamNext]_teamVars

-----------------------------------------------------------------------------
(***************************************************************************)
(* What must hold of the team                                              *)
(***************************************************************************)
\* approveJobCard with reassignSupervisor: however decisions and reroutings
\* cross, an approved card was approved by the supervisor it has now.
ApprovedByItsSupervisor ==
  approval = "APPROVED" => approvedById \in {supervisor} \cup Admins

\* acceptTechnicianAssignment: "if the supervisor reassigned the job meanwhile,
\* this must not mark the new technician as having accepted".
AcceptedByTheAssigned ==
  [][acceptance # "ACCEPTED" /\ acceptance' = "ACCEPTED"
       => /\ technician' = technician
          /\ doing[technician] # Idle /\ doing'[technician] = Idle]_teamVars

\* assignTechnician: nobody is put on a job that was finished while the
\* supervisor was choosing.
FinishedTakesNobody ==
  [][finished => technician' \in {technician, Nobody}]_teamVars

=============================================================================
