------------------------------ MODULE Support ------------------------------
(***************************************************************************)
(* One ticket of the Support centre: colleagues and the customer work on   *)
(* it, mail about it is taken in, and two kinds of scheduled run act by    *)
(* themselves: Enyo reads and answers it, reminders and closing follow.    *)
(*                                                                         *)
(* Every handler and run reads the ticket first and saves later, naming in *)
(* its update some of what it read; doing[x] keeps what x read. A run may  *)
(* be stopped between any two calls: the lease it holds on the ticket      *)
(* (aiPendingAt, ten minutes ahead) then lapses. Requests and runs last a  *)
(* minute at most, so time passes between them.                            *)
(***************************************************************************)
EXTENDS Integers

CONSTANTS
  Agents,      \* colleagues who handle the ticket
  Runs,        \* scheduled runs that may overlap
  Patience,    \* ticks a ticket waits for the customer before it is resolved
  MaxActs,     \* bound on what colleagues do
  MaxWrites,   \* bound on what the customer sends or clicks
  MaxCrashes   \* bound on the runs that are stopped half-way

Customer == "customer"
Mail     == "mail"
Actors   == Agents \cup Runs \cup {Customer, Mail}
NoTime   == -1       \* a null time; other times are how many ticks ago
Nobody   == "nobody"

ASSUME PatienceAssumption == Patience \in Nat \ {0}
ASSUME BoundAssumption == MaxActs \in Nat /\ MaxWrites \in Nat /\ MaxCrashes \in Nat
ASSUME ActorAssumption == /\ Agents \cap Runs = {}
                          /\ Customer \notin Agents \cup Runs
                          /\ Mail \notin Agents \cup Runs
                          /\ Nobody \notin Runs

VARIABLES
  ticket,      \* the SupportTicket row
  published,   \* how many answers of Enyo the customer can read
  mail,        \* customer emails not yet taken in, numbered as they were sent
  wrote,       \* how often the customer has written or clicked
  doing,       \* what each handler or run has read and is about to save
  acts,        \* colleagues' requests so far
  crashes      \* runs stopped so far

vars == <<ticket, published, mail, wrote, doing, acts, crashes>>

Statuses == {"OPEN", "WAITING", "ON_HOLD", "RESOLVED", "CLOSED"}
Outcomes == {"none", "ANSWERED", "ASSUMED", "ESCALATED", "CONFIRMED"}
Old      == 2        \* ticks after which a resolved ticket is closed; its survey is sent after one
Waits    == NoTime..Patience
Rests    == NoTime..Old

Ticket == [status       : Statuses,
           pendingSince : Waits,                      \* null, or how long ago
           resolvedAt   : Rests,
           nudgeCount   : 0..2,
           answered     : BOOLEAN,                    \* firstResponseAt
           aiOutcome    : Outcomes,
           aiAnsweredBy : Runs \cup {Nobody},         \* whose claim aiAnsweredAt stamps
           aiPending    : {"NONE", "DUE", "HELD"},    \* aiPendingAt: null, past, ahead
           lastCustomer : 0..MaxWrites,               \* lastCustomerAt
           surveyed     : BOOLEAN]                    \* csatRequestedAt

Idle     == [step |-> "idle"]
Reads    == [step : {"read"}, status : Statuses, aiOutcome : Outcomes]
Intakes  == [step : {"read", "saved"}, status : Statuses, aiOutcome : Outcomes, at : 1..MaxWrites]
Waitings == [step : {"waiting"}, waited : 0..Patience, nudgeCount : 0..2, aiOutcome : Outcomes]
Steps    == [step : {"closing", "surveying", "listed", "reading", "claimed", "sending", "undoing", "done"}]
Work     == {Idle} \cup Reads \cup Intakes \cup Waitings \cup Steps

Init ==
  /\ ticket = [status |-> "OPEN", pendingSince |-> NoTime, resolvedAt |-> NoTime, nudgeCount |-> 0,
               answered |-> FALSE, aiOutcome |-> "none", aiAnsweredBy |-> Nobody, aiPending |-> "DUE",
               lastCustomer |-> 0, surveyed |-> FALSE]
  /\ published = 0
  /\ mail = {}
  /\ wrote = 0
  /\ doing = [x \in Actors |-> Idle]
  /\ acts = 0
  /\ crashes = 0

Does(x, work) == doing' = [doing EXCEPT ![x] = work]
At(x, step)   == doing[x].step = step
IsIdle(x)     == doing[x] = Idle

----------------------------------------------------------------------------
\* Colleagues

\* Fault: the clock keeps what it shows, for a ticket already waiting.
ClockLeftAlone(s) == ticket.pendingSince

\* The clocks a status starts: waiting for the customer, and being resolved.
Waiting(s)  == IF s = "WAITING" THEN 0 ELSE NoTime
Resolved(s) == IF s = "RESOLVED" THEN 0 ELSE NoTime

\* Every action of a colleague reads the ticket first.
ticketForChange(a) ==
  /\ IsIdle(a)
  /\ acts < MaxActs
  /\ acts' = acts + 1
  /\ Does(a, [step |-> "read", status |-> ticket.status, aiOutcome |-> ticket.aiOutcome])
  /\ UNCHANGED <<ticket, published, mail, wrote, crashes>>

\* Answering moves the ticket on, provided its status is still the one read.
\* (The colleague may confirm past the "new message arrived" refusal.)
replyToSupportTicket(a, then) ==
  /\ At(a, "read")
  /\ ticket.status = doing[a].status
  /\ then # "CLOSED"
  /\ ticket' = [ticket EXCEPT !.status = then, !.answered = TRUE, !.nudgeCount = 0,
                              !.pendingSince = Waiting(then), !.resolvedAt = Resolved(then)]
  /\ Does(a, Idle)
  /\ UNCHANGED <<published, mail, wrote, acts, crashes>>

setSupportTicketStatus(a, s) ==
  /\ At(a, "read")
  /\ s # doing[a].status
  /\ ticket.status = doing[a].status
  /\ ticket' = [ticket EXCEPT !.status = s, !.pendingSince = Waiting(s),
                              !.resolvedAt = IF s \in {"RESOLVED", "CLOSED"} THEN 0 ELSE NoTime]
  /\ Does(a, Idle)
  /\ UNCHANGED <<published, mail, wrote, acts, crashes>>

----------------------------------------------------------------------------
\* The customer

\* A message puts the ticket back with the team.
BackToTeam(s)  == IF s = "ON_HOLD" THEN "ON_HOLD" ELSE "OPEN"
CameBack(seen) == IF seen = "ANSWERED" THEN "ESCALATED" ELSE ticket.aiOutcome

Email ==
  /\ wrote < MaxWrites
  /\ wrote' = wrote + 1
  /\ mail' = mail \cup {wrote + 1}
  /\ UNCHANGED <<ticket, published, doing, acts, crashes>>

\* The customer portal, or the page the emails link to, reads the ticket.
OpenPage ==
  /\ IsIdle(Customer)
  /\ wrote < MaxWrites
  /\ wrote' = wrote + 1
  /\ Does(Customer, [step |-> "read", status |-> ticket.status, aiOutcome |-> ticket.aiOutcome])
  /\ UNCHANGED <<ticket, published, mail, acts, crashes>>

\* A reply in the portal names nothing of what it read.
portalReply ==
  /\ At(Customer, "read")
  /\ doing[Customer].status # "CLOSED"
  /\ ticket' = [ticket EXCEPT !.status = BackToTeam(doing[Customer].status),
                              !.resolvedAt = NoTime, !.pendingSince = NoTime, !.nudgeCount = 0,
                              !.lastCustomer = wrote, !.aiOutcome = CameBack(doing[Customer].aiOutcome)]
  /\ Does(Customer, Idle)
  /\ UNCHANGED <<published, mail, wrote, acts, crashes>>

\* "Solved" and "a person, please" name the status that was read.
respondSolved ==
  /\ At(Customer, "read")
  /\ doing[Customer].status \notin {"RESOLVED", "CLOSED"}
  /\ ticket.status = doing[Customer].status
  /\ ticket' = [ticket EXCEPT !.status = "RESOLVED", !.resolvedAt = 0, !.pendingSince = NoTime,
                              !.aiOutcome = IF doing[Customer].aiOutcome \in {"ANSWERED", "ASSUMED"}
                                            THEN "CONFIRMED" ELSE @]
  /\ Does(Customer, Idle)
  /\ UNCHANGED <<published, mail, wrote, acts, crashes>>

respondPerson ==
  /\ At(Customer, "read")
  /\ doing[Customer].status # "CLOSED"
  /\ ticket.status = doing[Customer].status
  /\ ticket' = [ticket EXCEPT !.status = BackToTeam(@), !.resolvedAt = NoTime, !.pendingSince = NoTime,
                              !.lastCustomer = wrote,
                              !.aiOutcome = IF doing[Customer].aiOutcome = "none" THEN @ ELSE "ESCALATED"]
  /\ Does(Customer, Idle)
  /\ UNCHANGED <<published, mail, wrote, acts, crashes>>

\* Refused, given up, or stopped by the platform before it saved.
GiveUp(x) ==
  /\ At(x, "read")
  /\ Does(x, Idle)
  /\ UNCHANGED <<ticket, published, mail, wrote, acts, crashes>>

----------------------------------------------------------------------------
\* Taking in mail: one run per mailbox at a time

\* The answer to a closed ticket opens another one.
takeIn(n) ==
  /\ IsIdle(Mail)
  /\ n \in mail
  /\ IF ticket.status = "CLOSED"
     THEN mail' = mail \ {n} /\ UNCHANGED doing
     ELSE /\ Does(Mail, [step |-> "read", status |-> ticket.status, aiOutcome |-> ticket.aiOutcome, at |-> n])
          /\ UNCHANGED mail
  /\ UNCHANGED <<ticket, published, wrote, acts, crashes>>

\* The email is kept and, if the status is still the one read, the ticket comes back.
saveMail ==
  /\ At(Mail, "read")
  /\ mail' = mail \ {doing[Mail].at}
  /\ ticket' = IF ticket.status = doing[Mail].status
               THEN [ticket EXCEPT !.status = BackToTeam(@), !.resolvedAt = NoTime, !.pendingSince = NoTime,
                                   !.nudgeCount = 0, !.lastCustomer = doing[Mail].at,
                                   !.aiOutcome = CameBack(doing[Mail].aiOutcome)]
               ELSE ticket
  /\ Does(Mail, [doing[Mail] EXCEPT !.step = "saved"])
  /\ UNCHANGED <<published, wrote, acts, crashes>>

\* Someone changed the status in between: it is still brought back.
bringBack ==
  /\ At(Mail, "saved")
  /\ ticket' = IF ticket.status \in {"WAITING", "RESOLVED"} /\ ticket.lastCustomer < doing[Mail].at
               THEN [ticket EXCEPT !.status = "OPEN", !.resolvedAt = NoTime, !.pendingSince = NoTime,
                                   !.lastCustomer = doing[Mail].at]
               ELSE ticket
  /\ Does(Mail, Idle)
  /\ UNCHANGED <<published, mail, wrote, acts, crashes>>

----------------------------------------------------------------------------
\* Scheduled runs: reminders, resolving, closing, the survey

\* Reminders fall due after one and after two ticks.
Reminds(waited, sent) == sent < 2 /\ waited > sent

listWaiting(r) ==
  /\ IsIdle(r)
  /\ ticket.status = "WAITING"
  /\ ticket.pendingSince # NoTime
  /\ ticket.pendingSince = Patience \/ Reminds(ticket.pendingSince, ticket.nudgeCount)
  /\ Does(r, [step |-> "waiting", waited |-> ticket.pendingSince, nudgeCount |-> ticket.nudgeCount,
              aiOutcome |-> ticket.aiOutcome])
  /\ UNCHANGED <<ticket, published, mail, wrote, acts, crashes>>

\* Fault: the ticket is resolved whatever became of it since it was listed.
WaitsAsListed == TRUE

\* What a run may still do to a ticket it listed as waiting, or as resolved.
StillWaits    == ticket.status = "WAITING"
StillResolved == ticket.status = "RESOLVED"

SameReminder(r) == ticket.nudgeCount = doing[r].nudgeCount

autoResolve(r) ==
  /\ At(r, "waiting")
  /\ doing[r].waited = Patience
  /\ ticket' = IF StillWaits
               THEN [ticket EXCEPT !.status = "RESOLVED", !.resolvedAt = 0, !.pendingSince = NoTime,
                                   !.aiOutcome = IF doing[r].aiOutcome = "ANSWERED" THEN "ASSUMED" ELSE @]
               ELSE ticket
  /\ Does(r, Idle)
  /\ UNCHANGED <<published, mail, wrote, acts, crashes>>

\* The reminder is counted before it is sent.
nudge(r) ==
  /\ At(r, "waiting")
  /\ doing[r].waited < Patience
  /\ ticket' = IF StillWaits /\ SameReminder(r)
               THEN [ticket EXCEPT !.nudgeCount = @ + 1]
               ELSE ticket
  /\ Does(r, Idle)
  /\ UNCHANGED <<published, mail, wrote, acts, crashes>>

listResolved(r) ==
  /\ IsIdle(r)
  /\ StillResolved
  /\ ticket.resolvedAt = Old
  /\ Does(r, [step |-> "closing"])
  /\ UNCHANGED <<ticket, published, mail, wrote, acts, crashes>>

closeResolved(r) ==
  /\ At(r, "closing")
  /\ ticket' = IF StillResolved THEN [ticket EXCEPT !.status = "CLOSED"] ELSE ticket
  /\ Does(r, Idle)
  /\ UNCHANGED <<published, mail, wrote, acts, crashes>>

listUnsurveyed(r) ==
  /\ IsIdle(r)
  /\ ticket.status \in {"RESOLVED", "CLOSED"}
  /\ ~ticket.surveyed
  /\ ticket.resolvedAt \in 1..Old
  /\ Does(r, [step |-> "surveying"])
  /\ UNCHANGED <<ticket, published, mail, wrote, acts, crashes>>

sendSurvey(r) ==
  /\ At(r, "surveying")
  /\ ticket' = [ticket EXCEPT !.surveyed = TRUE]
  /\ Does(r, Idle)
  /\ UNCHANGED <<published, mail, wrote, acts, crashes>>

\* Three days after Enyo answered with no further question: solved, one assumes.
assume(r) ==
  /\ IsIdle(r)
  /\ ticket.aiOutcome = "ANSWERED"
  /\ \A q \in Runs : doing[q].step \notin {"claimed", "sending", "undoing"}
  /\ ticket' = [ticket EXCEPT !.aiOutcome = "ASSUMED"]
  /\ UNCHANGED <<published, mail, wrote, doing, acts, crashes>>

----------------------------------------------------------------------------
\* Scheduled runs: Enyo reads the ticket and answers it or leaves a draft

listPending(r) ==
  /\ IsIdle(r)
  /\ ticket.aiPending = "DUE"
  /\ Does(r, [step |-> "listed"])
  /\ UNCHANGED <<ticket, published, mail, wrote, acts, crashes>>

\* The lease: of the runs that listed the ticket, the first holds it.
leaseTicket(r) ==
  /\ At(r, "listed")
  /\ IF ticket.aiPending = "DUE"
     THEN ticket' = [ticket EXCEPT !.aiPending = "HELD"] /\ Does(r, [step |-> "reading"])
     ELSE UNCHANGED ticket /\ Does(r, Idle)
  /\ UNCHANGED <<published, mail, wrote, acts, crashes>>

\* Fault: an open ticket is enough.
OpenIsEnough == ticket.status = "OPEN"

\* A colleague who answered meanwhile keeps Enyo quiet.
Unanswered == ticket.status = "OPEN" /\ ~ticket.answered

\* Fault: the run goes on with its next ticket.
NextTicket == Idle

\* A run that kept quiet, or is done, still has to let go of the ticket.
Finishing == [step |-> "done"]

\* The answer is claimed before it is kept and sent.
claimAnswer(r) ==
  /\ At(r, "reading")
  /\ IF Unanswered
     THEN /\ ticket' = [ticket EXCEPT !.status = "WAITING", !.answered = TRUE, !.pendingSince = 0,
                                      !.aiOutcome = "ANSWERED", !.aiAnsweredBy = r]
          /\ Does(r, [step |-> "claimed"])
     ELSE UNCHANGED ticket /\ Does(r, Finishing)
  /\ UNCHANGED <<published, mail, wrote, acts, crashes>>

leaveDraft(r) ==
  /\ At(r, "reading")
  /\ Does(r, [step |-> "done"])
  /\ UNCHANGED <<ticket, published, mail, wrote, acts, crashes>>

keepAnswer(r) ==
  /\ At(r, "claimed")
  /\ published' = published + 1
  /\ Does(r, [step |-> "sending"])
  /\ UNCHANGED <<ticket, mail, wrote, acts, crashes>>

sent(r) ==
  /\ At(r, "sending")
  /\ Does(r, [step |-> "done"])
  /\ UNCHANGED <<ticket, published, mail, wrote, acts, crashes>>

\* Not sent: the answer becomes a draft, then the claim is undone.
notSent(r) ==
  /\ At(r, "sending")
  /\ published' = published - 1
  /\ Does(r, [step |-> "undoing"])
  /\ UNCHANGED <<ticket, mail, wrote, acts, crashes>>

undoClaim(r) ==
  /\ At(r, "undoing")
  /\ ticket' = IF ticket.aiOutcome = "ANSWERED" /\ ticket.aiAnsweredBy = r
               THEN [ticket EXCEPT !.status = "OPEN", !.answered = FALSE, !.pendingSince = NoTime,
                                   !.aiOutcome = "none", !.aiAnsweredBy = Nobody]
               ELSE ticket
  /\ Does(r, [step |-> "done"])
  /\ UNCHANGED <<published, mail, wrote, acts, crashes>>

releaseTicket(r) ==
  /\ At(r, "done")
  /\ ticket' = [ticket EXCEPT !.aiPending = "NONE"]
  /\ Does(r, Idle)
  /\ UNCHANGED <<published, mail, wrote, acts, crashes>>

----------------------------------------------------------------------------
\* Stopped runs and time

Crash(x) ==
  /\ ~IsIdle(x)
  /\ crashes < MaxCrashes
  /\ crashes' = crashes + 1
  /\ Does(x, Idle)
  /\ UNCHANGED <<ticket, published, mail, wrote, acts>>

AllIdle == \A x \in Actors : IsIdle(x)

\* A lease that nobody lives to release lapses.
LeaseLapses ==
  /\ ticket.aiPending = "HELD"
  /\ \A r \in Runs : IsIdle(r)
  /\ ticket' = [ticket EXCEPT !.aiPending = "DUE"]
  /\ UNCHANGED <<published, mail, wrote, doing, acts, crashes>>

Aged(t, limit) == IF t = NoTime THEN NoTime ELSE IF t < limit THEN t + 1 ELSE t

Tick ==
  /\ AllIdle
  /\ ticket' = [ticket EXCEPT !.pendingSince = Aged(@, Patience), !.resolvedAt = Aged(@, Old)]
  /\ ticket' # ticket
  /\ UNCHANGED <<published, mail, wrote, doing, acts, crashes>>

----------------------------------------------------------------------------
\* Specification

AgentStep(a) ==
  \/ ticketForChange(a)
  \/ \E s \in Statuses : replyToSupportTicket(a, s) \/ setSupportTicketStatus(a, s)
  \/ GiveUp(a)

CustomerStep == Email \/ OpenPage \/ portalReply \/ respondSolved \/ respondPerson \/ GiveUp(Customer)

MailStep == (\E n \in mail : takeIn(n)) \/ saveMail \/ bringBack

RestStep(r) ==
  \/ listWaiting(r) \/ autoResolve(r) \/ nudge(r)
  \/ listResolved(r) \/ closeResolved(r)
  \/ listUnsurveyed(r) \/ sendSurvey(r)
  \/ assume(r)

EnyoStep(r) ==
  \/ listPending(r) \/ leaseTicket(r)
  \/ claimAnswer(r) \/ leaveDraft(r) \/ keepAnswer(r)
  \/ sent(r) \/ notSent(r) \/ undoClaim(r) \/ releaseTicket(r)

RunStep(r) == RestStep(r) \/ EnyoStep(r)

Next ==
  \/ \E a \in Agents : AgentStep(a)
  \/ CustomerStep
  \/ MailStep
  \/ \E r \in Runs : RunStep(r)
  \/ \E x \in Runs \cup {Mail} : Crash(x)
  \/ LeaseLapses
  \/ Tick

Spec == Init /\ [][Next]_vars

\* The scheduler starts runs every two and three minutes, the platform ends
\* every request and every run, and time passes. Nobody has to write.
Fairness ==
  /\ \A r \in Runs : WF_vars(RunStep(r))
  /\ \A x \in Agents \cup {Customer} : WF_vars(GiveUp(x))
  /\ WF_vars(MailStep)
  /\ WF_vars(LeaseLapses)
  /\ WF_vars(Tick)

FairSpec == Spec /\ Fairness

----------------------------------------------------------------------------
\* Properties

\* The row stays within its types: never a third reminder.
TypeOK ==
  /\ ticket \in Ticket
  /\ published \in Nat
  /\ mail \subseteq 1..MaxWrites
  /\ wrote \in 0..MaxWrites
  /\ doing \in [Actors -> Work]
  /\ acts \in 0..MaxActs
  /\ crashes \in 0..MaxCrashes

\* Enyo answers a ticket once, however many runs overlap or are stopped
\* half-way and leave the ticket to be read again.
EnyoAnswersOnce == published <= 1

\* What a colleague reopened or the customer has come back with is not
\* resolved or closed by a run that listed the ticket before.
ReopenedStaysOpen ==
  [][ \A r \in Runs : (doing'[r] # doing[r] /\ ticket.status \in {"OPEN", "ON_HOLD"})
        => ticket'.status \notin {"RESOLVED", "CLOSED"} ]_vars

\* A ticket that waits for the customer, or is resolved, is not forgotten:
\* somebody takes it up again or it is closed.
NothingLingers == ticket.status \in {"WAITING", "RESOLVED"} ~> ticket.status \in {"OPEN", "ON_HOLD", "CLOSED"}

\* Enyo lets go of every ticket it was given, also when runs are stopped.
EnyoLetsGo == ticket.aiPending # "NONE" ~> ticket.aiPending = "NONE"
=============================================================================
