--------------------------- MODULE SupportProofs ---------------------------
(***************************************************************************)
(* Proofs about Support: the row's types (with never a third reminder),    *)
(* one answer of Enyo however runs overlap or stop, and reopened tickets   *)
(* left open by runs.                                                      *)
(***************************************************************************)
EXTENDS Support, TLAPS

\* Who keeps which kind of reading, and a reminder listed is one of the two.
Roles ==
  /\ \A a \in Agents \cup {Customer} : doing[a] \in {Idle} \cup Reads
  /\ doing[Mail] \in {Idle} \cup Intakes
  /\ \A r \in Runs : doing[r] \in {Idle} \cup Waitings \cup Steps
  /\ \A r \in Runs : At(r, "waiting") => (doing[r].waited = Patience \/ doing[r].nudgeCount < 2)

Answering(r) == doing[r].step \in {"claimed", "sending", "undoing"}

\* A run that answers holds the first answer of the ticket, and it alone does.
OneAnswering ==
  /\ published \in 0..1
  /\ published = 1 => ticket.answered
  /\ \A r \in Runs : Answering(r) => /\ ticket.answered
                                     /\ published = IF At(r, "sending") THEN 1 ELSE 0
  /\ \A r, q \in Runs : Answering(r) /\ Answering(q) => r = q

Typed == /\ ticket \in Ticket
         /\ mail \subseteq 1..MaxWrites
         /\ wrote \in 0..MaxWrites
         /\ doing \in [Actors -> Work]
         /\ acts \in 0..MaxActs
         /\ crashes \in 0..MaxCrashes
         /\ Roles

IInv == Typed /\ OneAnswering

LEMMA ActorKinds ==
  /\ \A a \in Agents \cup {Customer} : a \in Actors /\ a \notin Runs /\ a # Mail
  /\ Mail \in Actors /\ Mail \notin Runs
  /\ \A r \in Runs : r \in Actors /\ r # Mail /\ r \notin Agents \cup {Customer}
BY ActorAssumption DEF Actors, Customer, Mail

LEMMA Starts == Init => IInv
<1> SUFFICES ASSUME Init PROVE IInv
  OBVIOUS
<1>1. doing \in [Actors -> Work] /\ \A x \in Actors : doing[x] = Idle
  BY DEF Init, Work
<1>2. Roles
  BY <1>1, ActorKinds DEF Roles, At, Idle
<1>3. ticket \in Ticket
  BY PatienceAssumption, BoundAssumption, ActorAssumption DEF Init, Ticket, Statuses, Outcomes, Waits, Rests, Old, NoTime
<1>4. OneAnswering
  BY <1>1, ActorKinds DEF Init, OneAnswering, Answering, Idle
<1> QED
  BY <1>1, <1>2, <1>3, <1>4, BoundAssumption DEF IInv, Typed, Init

\* What an actor outside the runs may put in its place.
LEMMA OutsideKeeps ==
  ASSUME IInv, NEW x \in Agents \cup {Customer, Mail}, NEW work,
         Does(x, work),
         x = Mail => work \in {Idle} \cup Intakes,
         x # Mail => work \in {Idle} \cup Reads,
         published' = published,
         ticket.answered => ticket'.answered
  PROVE  /\ doing' \in [Actors -> Work]
         /\ Roles'
         /\ OneAnswering'
<1>1. x \in Actors /\ x \notin Runs
  BY ActorKinds
<1>2. doing' \in [Actors -> Work]
  BY <1>1 DEF IInv, Typed, Does, Work
<1>3. \A y \in Actors : doing'[y] = IF y = x THEN work ELSE doing[y]
  BY <1>1 DEF IInv, Typed, Does
<1>4. \A r \in Runs : doing'[r] = doing[r]
  BY <1>1, <1>3, ActorKinds
<1>5. Roles'
  <2>1. \A a \in Agents \cup {Customer} : doing'[a] \in {Idle} \cup Reads
    BY <1>3, ActorKinds DEF IInv, Typed, Roles
  <2>2. doing'[Mail] \in {Idle} \cup Intakes
    BY <1>3, ActorKinds DEF IInv, Typed, Roles
  <2> QED
    BY <2>1, <2>2, <1>4 DEF IInv, Typed, Roles, At
<1>6. OneAnswering'
  BY <1>4 DEF IInv, OneAnswering, Answering, At
<1> QED
  BY <1>2, <1>5, <1>6

\* What a run may put in its place while it does not answer.
LEMMA RunKeeps ==
  ASSUME IInv, NEW r \in Runs, NEW work \in {Idle} \cup Waitings \cup Steps,
         Does(r, work),
         work.step = "waiting" => (work.waited = Patience \/ work.nudgeCount < 2)
  PROVE  /\ doing' \in [Actors -> Work]
         /\ Roles'
         /\ doing'[r] = work
         /\ \A q \in Runs \ {r} : doing'[q] = doing[q]
<1>1. doing' \in [Actors -> Work]
  BY ActorKinds DEF IInv, Typed, Does, Work
<1>2. \A y \in Actors : doing'[y] = IF y = r THEN work ELSE doing[y]
  BY ActorKinds DEF IInv, Typed, Does
<1>3. Roles'
  <2>1. \A a \in Agents \cup {Customer} : doing'[a] = doing[a]
    BY <1>2, ActorKinds
  <2>2. doing'[Mail] = doing[Mail]
    BY <1>2, ActorKinds
  <2>3. \A q \in Runs : doing'[q] \in {Idle} \cup Waitings \cup Steps
    BY <1>2, ActorKinds DEF IInv, Typed, Roles
  <2>4. \A q \in Runs : At(q, "waiting")' => (doing'[q].waited = Patience \/ doing'[q].nudgeCount < 2)
    BY <1>2, ActorKinds DEF IInv, Typed, Roles, At
  <2> QED
    BY <2>1, <2>2, <2>3, <2>4 DEF IInv, Typed, Roles
<1> QED
  BY <1>1, <1>2, <1>3, ActorKinds

\* A run that is not answering and does not begin to leaves the answers as they are.
LEMMA RunNotAnswering ==
  ASSUME IInv, NEW r \in Runs, NEW work \in {Idle} \cup Waitings \cup Steps,
         Does(r, work),
         work.step = "waiting" => (work.waited = Patience \/ work.nudgeCount < 2),
         work.step \notin {"claimed", "sending", "undoing"},
         published' = published,
         ticket.answered => ticket'.answered
  PROVE  /\ doing' \in [Actors -> Work]
         /\ Roles'
         /\ OneAnswering'
<1>1. /\ doing' \in [Actors -> Work]
      /\ Roles'
      /\ doing'[r] = work
      /\ \A q \in Runs \ {r} : doing'[q] = doing[q]
  BY RunKeeps
<1>2. OneAnswering'
  BY <1>1 DEF IInv, OneAnswering, Answering, At
<1> QED
  BY <1>1, <1>2

\* The times a handler writes.
LEMMA Times ==
  /\ NoTime \in Waits /\ NoTime \in Rests /\ 0 \in Waits /\ 0 \in Rests /\ 0 \in 0..2
  /\ \A s : Waiting(s) \in Waits /\ Resolved(s) \in Rests
BY PatienceAssumption DEF NoTime, Waits, Rests, Old, Waiting, Resolved

LEMMA PeopleKeep ==
  ASSUME IInv,
         (\E a \in Agents : AgentStep(a)) \/ CustomerStep
  PROVE  IInv'
<1> USE BoundAssumption, ActorKinds, Times
<1> DEFINE OK == ticket' \in Ticket /\ (ticket.answered => ticket'.answered)
<1>1. ASSUME NEW a \in Agents, ticketForChange(a)
      PROVE  IInv'
  <2>1. doing' \in [Actors -> Work] /\ Roles' /\ OneAnswering'
    <3>1. [step |-> "read", status |-> ticket.status, aiOutcome |-> ticket.aiOutcome] \in Reads
      BY DEF IInv, Typed, Ticket, Reads
    <3> QED
      BY <1>1, <3>1, OutsideKeeps DEF ticketForChange
  <2> QED
    BY <1>1, <2>1 DEF IInv, Typed, ticketForChange
<1>2. ASSUME NEW a \in Agents, NEW s \in Statuses, replyToSupportTicket(a, s)
      PROVE  IInv'
  <2>1. OK
    <3>1. ticket' \in Ticket
      BY <1>2 DEF IInv, Typed, Ticket, replyToSupportTicket
    <3>2. ticket'.answered
      BY <1>2, Zenon DEF IInv, Typed, Ticket, replyToSupportTicket
    <3> QED
      BY <3>1, <3>2
  <2>2. doing' \in [Actors -> Work] /\ Roles' /\ OneAnswering'
    BY <1>2, <2>1, OutsideKeeps DEF replyToSupportTicket
  <2> QED
    BY <1>2, <2>1, <2>2 DEF IInv, Typed, replyToSupportTicket
<1>3. ASSUME NEW a \in Agents, NEW s \in Statuses, setSupportTicketStatus(a, s)
      PROVE  IInv'
  <2>1. OK
    BY <1>3 DEF IInv, Typed, Ticket, setSupportTicketStatus
  <2>2. doing' \in [Actors -> Work] /\ Roles' /\ OneAnswering'
    BY <1>3, <2>1, OutsideKeeps DEF setSupportTicketStatus
  <2> QED
    BY <1>3, <2>1, <2>2 DEF IInv, Typed, setSupportTicketStatus
<1>4. ASSUME NEW x \in Agents \cup {Customer}, GiveUp(x)
      PROVE  IInv'
  <2>1. doing' \in [Actors -> Work] /\ Roles' /\ OneAnswering'
    BY <1>4, OutsideKeeps DEF GiveUp
  <2> QED
    BY <1>4, <2>1 DEF IInv, Typed, GiveUp
<1>5. ASSUME Email
      PROVE  IInv'
  <2>1. Roles' /\ OneAnswering'
    BY <1>5 DEF Email, IInv, Typed, Roles, OneAnswering, Answering, At
  <2>2. wrote' \in 1..MaxWrites
    BY <1>5 DEF Email, IInv, Typed
  <2> QED
    BY <1>5, <2>1, <2>2 DEF Email, IInv, Typed
<1>6. ASSUME OpenPage
      PROVE  IInv'
  <2>1. doing' \in [Actors -> Work] /\ Roles' /\ OneAnswering'
    <3>1. [step |-> "read", status |-> ticket.status, aiOutcome |-> ticket.aiOutcome] \in Reads
      BY DEF IInv, Typed, Ticket, Reads
    <3> QED
      BY <1>6, <3>1, OutsideKeeps DEF OpenPage
  <2> QED
    BY <1>6, <2>1 DEF IInv, Typed, OpenPage
<1>7. CASE portalReply \/ respondSolved \/ respondPerson
  <2>1. OK
    <3>1. doing[Customer] \in Reads
      BY <1>7 DEF IInv, Typed, Roles, portalReply, respondSolved, respondPerson, At, Idle
    <3>2. CASE portalReply
      <4>1. ticket' \in Ticket
        <5>1. BackToTeam(doing[Customer].status) \in Statuses
          BY DEF Statuses, BackToTeam
        <5>2. CameBack(doing[Customer].aiOutcome) \in Outcomes
          BY DEF IInv, Typed, Ticket, CameBack, Outcomes
        <5> QED
          BY <3>2, <5>1, <5>2 DEF portalReply, IInv, Typed, Ticket
      <4>2. ticket'.answered = ticket.answered
        BY <3>1, <3>2 DEF portalReply, IInv, Typed, Ticket
      <4> QED
        BY <4>1, <4>2
    <3>3. CASE respondSolved
      BY <3>1, <3>3 DEF respondSolved, IInv, Typed, Ticket, Reads, Statuses, Outcomes
    <3>4. CASE respondPerson
      <4>1. BackToTeam(doing[Customer].status) \in Statuses
        BY DEF Statuses, BackToTeam
      <4>2. ticket' \in Ticket
        BY <3>4, <4>1 DEF respondPerson, IInv, Typed, Ticket, Statuses, Outcomes
      <4>3. ticket.answered => ticket'.answered
        BY <3>4 DEF respondPerson, IInv, Typed, Ticket
      <4> QED
        BY <4>2, <4>3
    <3> QED
      BY <1>7, <3>2, <3>3, <3>4
  <2>2. doing' \in [Actors -> Work] /\ Roles' /\ OneAnswering'
    BY <1>7, <2>1, OutsideKeeps DEF portalReply, respondSolved, respondPerson
  <2> QED
    BY <1>7, <2>1, <2>2 DEF IInv, Typed, portalReply, respondSolved, respondPerson
<1> QED
  BY <1>1, <1>2, <1>3, <1>4, <1>5, <1>6, <1>7 DEF AgentStep, CustomerStep

LEMMA MailKeeps ==
  ASSUME IInv, MailStep \/ Crash(Mail)
  PROVE  IInv'
<1> USE BoundAssumption, ActorKinds, Times
<1> DEFINE OK == ticket' \in Ticket /\ (ticket.answered => ticket'.answered)
<1>1. ASSUME NEW n \in mail, takeIn(n)
      PROVE  IInv'
  <2>1. CASE ticket.status = "CLOSED"
    <3>1. Roles' /\ OneAnswering'
      BY <1>1, <2>1 DEF takeIn, IInv, Typed, Roles, OneAnswering, Answering, At
    <3> QED
      BY <1>1, <2>1, <3>1 DEF takeIn, IInv, Typed
  <2>2. CASE ticket.status # "CLOSED"
    <3>1. [step |-> "read", status |-> ticket.status, aiOutcome |-> ticket.aiOutcome, at |-> n] \in Intakes
      BY DEF IInv, Typed, Ticket, Intakes
    <3>2. doing' \in [Actors -> Work] /\ Roles' /\ OneAnswering'
      BY <1>1, <2>2, <3>1, OutsideKeeps DEF takeIn
    <3> QED
      BY <1>1, <2>2, <3>2 DEF IInv, Typed, takeIn
  <2> QED
    BY <2>1, <2>2
<1>2. CASE saveMail
  <2>1. doing[Mail] \in Intakes
    BY <1>2 DEF IInv, Typed, Roles, saveMail, At, Idle
  <2>2. OK
    <3>1. CASE ticket.status = doing[Mail].status
      <4>1. ticket' \in Ticket
        <5>1. doing[Mail].at \in 0..MaxWrites /\ BackToTeam(ticket.status) \in Statuses
          BY <2>1 DEF Intakes, Statuses, BackToTeam
        <5>2. CameBack(doing[Mail].aiOutcome) \in Outcomes
          BY DEF IInv, Typed, Ticket, CameBack, Outcomes
        <5> QED
          BY <1>2, <3>1, <5>1, <5>2 DEF saveMail, IInv, Typed, Ticket
      <4>2. ticket'.answered = ticket.answered
        BY <1>2, <3>1 DEF saveMail, IInv, Typed, Ticket
      <4> QED
        BY <4>1, <4>2
    <3>2. CASE ticket.status # doing[Mail].status
      BY <1>2, <3>2 DEF saveMail, IInv, Typed
    <3> QED
      BY <3>1, <3>2
  <2>3. [doing[Mail] EXCEPT !.step = "saved"] \in Intakes
    BY <2>1 DEF Intakes
  <2>4. doing' \in [Actors -> Work] /\ Roles' /\ OneAnswering'
    BY <1>2, <2>2, <2>3, OutsideKeeps DEF saveMail
  <2> QED
    BY <1>2, <2>2, <2>4 DEF IInv, Typed, saveMail
<1>3. CASE bringBack
  <2>1. doing[Mail] \in Intakes
    BY <1>3 DEF IInv, Typed, Roles, bringBack, At, Idle
  <2>2. OK
    <3> DEFINE back == [ticket EXCEPT !.status = "OPEN", !.resolvedAt = NoTime, !.pendingSince = NoTime,
                                      !.lastCustomer = doing[Mail].at]
    <3>1. ticket' = ticket \/ ticket' = back
      BY <1>3 DEF bringBack
    <3>2. back \in Ticket
      <4>1. doing[Mail].at \in 0..MaxWrites /\ "OPEN" \in Statuses
        BY <2>1 DEF Intakes, Statuses
      <4> QED
        BY <4>1 DEF IInv, Typed, Ticket
    <3>3. back.answered = ticket.answered
      BY DEF IInv, Typed, Ticket
    <3> QED
      BY <3>1, <3>2, <3>3 DEF IInv, Typed
  <2>3. doing' \in [Actors -> Work] /\ Roles' /\ OneAnswering'
    BY <1>3, <2>2, OutsideKeeps DEF bringBack
  <2> QED
    BY <1>3, <2>2, <2>3 DEF IInv, Typed, bringBack
<1>4. CASE Crash(Mail)
  <2>1. doing' \in [Actors -> Work] /\ Roles' /\ OneAnswering'
    BY <1>4, OutsideKeeps DEF Crash
  <2> QED
    BY <1>4, <2>1 DEF IInv, Typed, Crash
<1> QED
  BY <1>1, <1>2, <1>3, <1>4 DEF MailStep

\* Reminders, resolving, closing and the survey touch neither the answer nor
\* another run's work.
LEMMA RestKeeps ==
  ASSUME IInv, NEW r \in Runs, RestStep(r) \/ Crash(r)
  PROVE  IInv'
<1> USE BoundAssumption, Times
<1> DEFINE OK == ticket' \in Ticket /\ (ticket.answered => ticket'.answered)
           Kept == doing' \in [Actors -> Work] /\ Roles' /\ OneAnswering'
<1>0. Idle \in {Idle} \cup Waitings \cup Steps /\ Idle.step = "idle"
  BY DEF Idle
<1>1. CASE listWaiting(r)
  <2> DEFINE work == [step |-> "waiting", waited |-> ticket.pendingSince, nudgeCount |-> ticket.nudgeCount,
                      aiOutcome |-> ticket.aiOutcome]
  <2>1. ticket.pendingSince \in 0..Patience
    BY <1>1 DEF listWaiting, IInv, Typed, Ticket, Waits, NoTime
  <2>2. work \in Waitings /\ (work.waited = Patience \/ work.nudgeCount < 2)
    BY <1>1, <2>1 DEF listWaiting, Waitings, Reminds, IInv, Typed, Ticket
  <2>3. Kept
    <3>1. work.step = "waiting" /\ work \in {Idle} \cup Waitings \cup Steps
      BY <2>2
    <3>2. Does(r, work) /\ published' = published /\ ticket' = ticket
      BY <1>1 DEF listWaiting
    <3> HIDE DEF work
    <3> QED
      BY <2>2, <3>1, <3>2, RunNotAnswering
  <2> QED
    BY <1>1, <2>3 DEF listWaiting, IInv, Typed
<1>2. CASE autoResolve(r)
  <2> DEFINE new == [ticket EXCEPT !.status = "RESOLVED", !.resolvedAt = 0, !.pendingSince = NoTime,
                                   !.aiOutcome = IF doing[r].aiOutcome = "ANSWERED" THEN "ASSUMED" ELSE @]
  <2>1. ticket' = ticket \/ ticket' = new
    BY <1>2 DEF autoResolve
  <2>2. new \in Ticket /\ new.answered = ticket.answered
    BY DEF IInv, Typed, Ticket, Statuses, Outcomes
  <2>3. OK
    BY <2>1, <2>2 DEF IInv, Typed
  <2>4. Kept
    BY <1>0, <1>2, <2>3, RunNotAnswering DEF autoResolve
  <2> QED
    BY <1>2, <2>3, <2>4 DEF autoResolve, IInv, Typed
<1>3. CASE nudge(r)
  <2> DEFINE new == [ticket EXCEPT !.nudgeCount = @ + 1]
  <2>1. ticket' = ticket \/ (ticket' = new /\ ticket.nudgeCount < 2)
    <3>1. ~(doing[r].waited = Patience)
      BY <1>3, PatienceAssumption DEF nudge
    <3>2. doing[r].nudgeCount < 2
      BY <1>3, <3>1 DEF nudge, IInv, Typed, Roles
    <3> QED
      BY <1>3, <3>2 DEF nudge, SameReminder
  <2>2. ticket.nudgeCount < 2 => (new \in Ticket /\ new.answered = ticket.answered)
    BY DEF IInv, Typed, Ticket
  <2>3. OK
    BY <2>1, <2>2 DEF IInv, Typed
  <2>4. Kept
    BY <1>0, <1>3, <2>3, RunNotAnswering DEF nudge
  <2> QED
    BY <1>3, <2>3, <2>4 DEF nudge, IInv, Typed
<1>4. CASE listResolved(r) \/ listUnsurveyed(r)
  <2>1. \A s \in {"closing", "surveying"} : [step |-> s] \in Steps /\ [step |-> s].step = s
    BY DEF Steps
  <2>2. Kept
    BY <1>4, <2>1, RunNotAnswering DEF listResolved, listUnsurveyed
  <2> QED
    BY <1>4, <2>2 DEF listResolved, listUnsurveyed, IInv, Typed
<1>5. CASE closeResolved(r)
  <2>1. OK
    BY <1>5 DEF closeResolved, IInv, Typed, Ticket, Statuses
  <2>2. Kept
    BY <1>0, <1>5, <2>1, RunNotAnswering DEF closeResolved
  <2> QED
    BY <1>5, <2>1, <2>2 DEF closeResolved, IInv, Typed
<1>6. CASE sendSurvey(r)
  <2>1. OK
    BY <1>6 DEF sendSurvey, IInv, Typed, Ticket
  <2>2. Kept
    BY <1>0, <1>6, <2>1, RunNotAnswering DEF sendSurvey
  <2> QED
    BY <1>6, <2>1, <2>2 DEF sendSurvey, IInv, Typed
<1>7. CASE assume(r)
  <2>1. OK
    BY <1>7 DEF assume, IInv, Typed, Ticket, Outcomes
  <2>2. Kept
    BY <1>7, <2>1 DEF assume, IInv, Typed, Roles, OneAnswering, Answering, At
  <2> QED
    BY <1>7, <2>1, <2>2 DEF assume, IInv, Typed
<1>8. CASE Crash(r)
  <2>1. Kept
    BY <1>0, <1>8, RunNotAnswering DEF Crash
  <2> QED
    BY <1>8, <2>1 DEF Crash, IInv, Typed
<1> QED
  BY <1>1, <1>2, <1>3, <1>4, <1>5, <1>6, <1>7, <1>8 DEF RestStep

\* Claiming, keeping, taking back and releasing an answer.
LEMMA EnyoKeeps ==
  ASSUME IInv, NEW r \in Runs, EnyoStep(r)
  PROVE  IInv'
<1> USE BoundAssumption, Times
<1> DEFINE OK == ticket' \in Ticket /\ (ticket.answered => ticket'.answered)
           Kept == doing' \in [Actors -> Work] /\ Roles' /\ OneAnswering'
           Moved(s) == /\ doing'[r] = [step |-> s]
                       /\ \A q \in Runs \ {r} : doing'[q] = doing[q]
<1>0. /\ Idle \in {Idle} \cup Waitings \cup Steps /\ Idle.step = "idle"
      /\ \A s \in {"listed", "reading", "claimed", "sending", "undoing", "done"} :
           [step |-> s] \in Steps /\ [step |-> s].step = s
  BY DEF Idle, Steps
<1>1. CASE listPending(r) \/ leaveDraft(r) \/ sent(r)
  <2>1. Kept
    BY <1>0, <1>1, RunNotAnswering DEF listPending, leaveDraft, sent
  <2> QED
    BY <1>1, <2>1 DEF listPending, leaveDraft, sent, IInv, Typed
<1>2. CASE leaseTicket(r)
  <2>1. OK
    BY <1>2 DEF leaseTicket, IInv, Typed, Ticket
  <2>2. Kept
    BY <1>0, <1>2, <2>1, RunNotAnswering DEF leaseTicket
  <2> QED
    BY <1>2, <2>1, <2>2 DEF leaseTicket, IInv, Typed
<1>3. CASE claimAnswer(r) /\ ~Unanswered
  <2>1. ticket' = ticket /\ Kept
    BY <1>0, <1>3, RunNotAnswering DEF claimAnswer, Finishing
  <2> QED
    BY <1>3, <2>1 DEF claimAnswer, IInv, Typed
<1>4. CASE claimAnswer(r) /\ Unanswered
  <2>0. ticket' = [ticket EXCEPT !.status = "WAITING", !.answered = TRUE, !.pendingSince = 0,
                                 !.aiOutcome = "ANSWERED", !.aiAnsweredBy = r]
    BY <1>4 DEF claimAnswer
  <2>1. ticket' \in Ticket
    <3> HIDE <1>4
    <3>1. ticket \in Ticket /\ 0 \in Waits
      BY Times DEF IInv, Typed
    <3> QED
      BY <2>0, <3>1 DEF Ticket, Statuses, Outcomes
  <2>2. ticket'.answered
    BY <1>4, Zenon DEF claimAnswer, IInv, Typed, Ticket
  <2>3. Moved("claimed") /\ doing' \in [Actors -> Work] /\ Roles'
    BY <1>0, <1>4, RunKeeps DEF claimAnswer
  <2>4. published = 0 /\ published' = 0 /\ \A q \in Runs : ~Answering(q)
    BY <1>4 DEF claimAnswer, Unanswered, IInv, OneAnswering
  <2>5. OneAnswering'
    BY <2>2, <2>3, <2>4 DEF OneAnswering, Answering, At
  <2> QED
    BY <1>4, <2>1, <2>3, <2>5 DEF claimAnswer, IInv, Typed
<1>5. CASE keepAnswer(r)
  <2>1. Moved("sending") /\ doing' \in [Actors -> Work] /\ Roles'
    BY <1>0, <1>5, RunKeeps DEF keepAnswer
  <2>2. Answering(r) /\ ticket' = ticket /\ published = 0 /\ published' = 1
    BY <1>5 DEF keepAnswer, IInv, OneAnswering, Answering, At
  <2>3. OneAnswering'
    BY <2>1, <2>2 DEF IInv, OneAnswering, Answering, At
  <2> QED
    BY <1>5, <2>1, <2>3 DEF keepAnswer, IInv, Typed
<1>6. CASE notSent(r)
  <2>1. Moved("undoing") /\ doing' \in [Actors -> Work] /\ Roles'
    BY <1>0, <1>6, RunKeeps DEF notSent
  <2>2. Answering(r) /\ ticket' = ticket /\ published' = 0
    BY <1>6 DEF notSent, IInv, OneAnswering, Answering, At
  <2>3. OneAnswering'
    BY <2>1, <2>2 DEF IInv, OneAnswering, Answering, At
  <2> QED
    BY <1>6, <2>1, <2>3 DEF notSent, IInv, Typed
<1>7. CASE undoClaim(r)
  <2>1. Moved("done") /\ doing' \in [Actors -> Work] /\ Roles'
    BY <1>0, <1>7, RunKeeps DEF undoClaim
  <2>2. Answering(r) /\ published = 0 /\ published' = 0
    BY <1>7 DEF undoClaim, IInv, OneAnswering, Answering, At
  <2>3. OneAnswering'
    BY <2>1, <2>2 DEF IInv, OneAnswering, Answering, At
  <2>4. ticket' \in Ticket
    BY <1>7 DEF undoClaim, IInv, Typed, Ticket, Statuses, Outcomes
  <2> QED
    BY <1>7, <2>1, <2>3, <2>4 DEF undoClaim, IInv, Typed
<1>8. CASE releaseTicket(r)
  <2>1. OK
    BY <1>8 DEF releaseTicket, IInv, Typed, Ticket
  <2>2. Kept
    BY <1>0, <1>8, <2>1, RunNotAnswering DEF releaseTicket
  <2> QED
    BY <1>8, <2>1, <2>2 DEF releaseTicket, IInv, Typed
<1> QED
  BY <1>1, <1>2, <1>3, <1>4, <1>5, <1>6, <1>7, <1>8 DEF EnyoStep

\* Time and the lapsing lease change the row's clocks only.
LEMMA TimeKeeps ==
  ASSUME IInv, LeaseLapses \/ Tick
  PROVE  IInv'
<1>1. ticket' \in Ticket /\ ticket'.answered = ticket.answered
  <2>1. CASE LeaseLapses
    BY <2>1 DEF LeaseLapses, IInv, Typed, Ticket
  <2>2. CASE Tick
    <3>1. Aged(ticket.pendingSince, Patience) \in Waits /\ Aged(ticket.resolvedAt, Old) \in Rests
      BY PatienceAssumption DEF Aged, IInv, Typed, Ticket, Waits, Rests, NoTime, Old
    <3> QED
      BY <2>2, <3>1 DEF Tick, IInv, Typed, Ticket
  <2> QED
    BY <2>1, <2>2
<1>2. UNCHANGED <<published, mail, wrote, doing, acts, crashes>>
  BY DEF LeaseLapses, Tick
<1>3. Roles' /\ OneAnswering'
  BY <1>1, <1>2 DEF IInv, Typed, Roles, OneAnswering, Answering, At
<1> QED
  BY <1>1, <1>2, <1>3 DEF IInv, Typed

THEOREM Inductive == Spec => []IInv
<1>1. IInv /\ [Next]_vars => IInv'
  <2> SUFFICES ASSUME IInv, [Next]_vars PROVE IInv'
    OBVIOUS
  <2>1. CASE UNCHANGED vars
    BY <2>1 DEF vars, IInv, Typed, Roles, OneAnswering, Answering, At
  <2>2. CASE Next
    BY <2>2, PeopleKeep, MailKeeps, RestKeeps, EnyoKeeps, TimeKeeps DEF Next, RunStep
  <2> QED
    BY <2>1, <2>2
<1> QED
  BY Starts, <1>1, PTL DEF Spec

\* The row keeps its types, and no ticket gets a third reminder.
THEOREM TypeCorrect == Spec => []TypeOK
<1>1. IInv => TypeOK
  BY DEF IInv, Typed, OneAnswering, TypeOK
<1> QED
  BY Inductive, <1>1, PTL

\* Enyo answers a ticket once.
THEOREM OneAnswer == Spec => []EnyoAnswersOnce
<1>1. IInv => EnyoAnswersOnce
  BY DEF IInv, OneAnswering, EnyoAnswersOnce
<1> QED
  BY Inductive, <1>1, PTL

\* No run resolves or closes a ticket that came back since the run listed it.
THEOREM ReopenedKept == Spec => ReopenedStaysOpen
<1> DEFINE Kept == \A r \in Runs : (doing'[r] # doing[r] /\ ticket.status \in {"OPEN", "ON_HOLD"})
                     => ticket'.status \notin {"RESOLVED", "CLOSED"}
<1>1. IInv /\ [Next]_vars => Kept
  <2> SUFFICES ASSUME IInv, [Next]_vars, NEW r \in Runs, doing'[r] # doing[r],
                      ticket.status \in {"OPEN", "ON_HOLD"}
               PROVE  ticket'.status \notin {"RESOLVED", "CLOSED"}
    OBVIOUS
  <2>1. \A x \in Actors : \A work : Does(x, work) => x = r
    BY ActorKinds DEF Does, IInv, Typed
  <2>2. ASSUME NEW a \in Agents PROVE ~AgentStep(a)
    BY <2>1, ActorKinds DEF AgentStep, ticketForChange, replyToSupportTicket, setSupportTicketStatus, GiveUp
  <2>3. ~CustomerStep
    BY <2>1, ActorKinds DEF CustomerStep, Email, OpenPage, portalReply, respondSolved, respondPerson, GiveUp
  <2>4. ~MailStep /\ ~Tick /\ ~LeaseLapses /\ ~UNCHANGED vars
    BY <2>1, ActorKinds DEF MailStep, takeIn, saveMail, bringBack, Tick, LeaseLapses, vars
  <2>5. ASSUME NEW q \in Runs, RestStep(q) PROVE ticket'.status \notin {"RESOLVED", "CLOSED"}
    BY <2>5 DEF RestStep, listWaiting, autoResolve, nudge, listResolved, closeResolved, listUnsurveyed, sendSurvey,
                assume, StillWaits, StillResolved, IInv, Typed, Ticket
  <2>6. ASSUME NEW q \in Runs, EnyoStep(q) PROVE ticket'.status \notin {"RESOLVED", "CLOSED"}
    BY <2>6 DEF EnyoStep, listPending, leaseTicket, claimAnswer, leaveDraft, keepAnswer, sent, notSent, undoClaim,
                releaseTicket, IInv, Typed, Ticket
  <2>7. ASSUME NEW x \in Runs \cup {Mail}, Crash(x) PROVE ticket'.status \notin {"RESOLVED", "CLOSED"}
    BY <2>7 DEF Crash
  <2> QED
    BY <2>2, <2>3, <2>4, <2>5, <2>6, <2>7 DEF Next, RunStep
<1> QED
  BY Inductive, <1>1, PTL DEF Spec, ReopenedStaysOpen
=============================================================================
