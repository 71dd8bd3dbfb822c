----------------------------- MODULE Scheduling -----------------------------
(***************************************************************************)
(* Meetings in the officials' calendars and the visitor bookings at the    *)
(* gate.  A meeting's visitor groups are gate bookings of their own: the   *)
(* calendar moves and removes them call by call after the meeting itself   *)
(* is saved, while the gate checks the same visitors in and out, and the   *)
(* last group to leave completes the meeting.                              *)
(*                                                                         *)
(* A request whose claim repeats all that it has read is one step; others  *)
(* read, and save in later steps.  Time is in days; a meeting takes some   *)
(* slots of its day.  A cancelled booking is deleted by the next call:     *)
(* both are REMOVED here.                                                  *)
(***************************************************************************)
EXTENDS Integers

CONSTANTS
  Staff,      \* people at the desk and in the calendars, a request each
  Meetings,   \* appointments that may be made
  Visits,     \* gate bookings that may be made
  Plans,      \* arrangements of a meeting: its day, slots, host and room
  NoRoom,     \* held elsewhere than in a meeting room
  NoMeeting,
  LastDay     \* the last day looked at (a bound)

ASSUME PlanAssumption ==
  /\ \A p \in Plans : DOMAIN p = {"day", "slots", "host", "room"} /\ p.day \in 1..LastDay
  /\ Plans # {} /\ LastDay \in Nat /\ NoMeeting \notin Meetings

VARIABLES
  today,
  status,     \* Appointment.status
  plan,       \* startsAt, endsAt, ownerId, roomId
  visit,      \* Visit.status
  of,         \* Visit.appointmentId
  booked,     \* expectedAt, expectedDurationMinutes, hostUserId
  excused,    \* meetings with a visit removed unseen, or a check-out cut short
  doing

meetings == <<status, plan>>
bookings == <<visit, of, booked>>
vars     == <<today, meetings, bookings, excused, doing>>

\* What a gate booking repeats of its meeting.
Slot(p) == [day |-> p.day, slots |-> p.slots, host |-> p.host]
Slots   == [day : 1..LastDay, slots : {p.slots : p \in Plans}, host : {p.host : p \in Plans}]

Idle == [op |-> "idle"]
Bookings == [op : {"book", "rebook"}, meeting : Meetings, plan : Plans, was : Slots, guests : BOOLEAN]
Closings == [op : {"close"}, meeting : Meetings, to : {"COMPLETED", "NO_SHOW"}]
Moves    == [op : {"move", "invite"}, meeting : Meetings, slot : Slots]
Lookups  == [op : {"uninvite", "count", "complete"}, meeting : Meetings]
Moving   == [op : {"moving"}, left : SUBSET Visits, slot : Slots]
Removing == [op : {"removing"}, left : SUBSET Visits]
Arrivals == [op : {"arrive"}, visit : Visits]
Requests == {Idle} \cup Bookings \cup Closings \cup Moves \cup Lookups \cup Moving \cup Removing
              \cup Arrivals

TypeOK ==
  /\ today \in 1..(LastDay + 1)
  /\ status \in [Meetings -> {"NONE", "SCHEDULED", "COMPLETED", "NO_SHOW", "CANCELLED"}]
  /\ plan \in [Meetings -> Plans]
  /\ visit \in [Visits -> {"NONE", "EXPECTED", "CHECKED_IN", "CHECKED_OUT", "REMOVED"}]
  /\ of \in [Visits -> Meetings \cup {NoMeeting}]
  /\ booked \in [Visits -> Slots]
  /\ excused \in [Meetings -> BOOLEAN]
  /\ doing \in [Staff -> Requests]

Init ==
  /\ today = 1
  /\ status = [m \in Meetings |-> "NONE"]
  /\ plan \in {[m \in Meetings |-> p] : p \in {CHOOSE p \in Plans : TRUE}}
  /\ visit = [g \in Visits |-> "NONE"]
  /\ of = [g \in Visits |-> NoMeeting]
  /\ booked = [g \in Visits |-> Slot(CHOOSE p \in Plans : TRUE)]
  /\ excused = [m \in Meetings |-> FALSE]
  /\ doing = [u \in Staff |-> Idle]

Groups(m) == {g \in Visits : of[g] = m /\ visit[g] # "REMOVED"}

Do(u, r) == doing' = [doing EXCEPT ![u] = r]

Start(u, r) ==
  /\ doing[u] = Idle
  /\ Do(u, r)
  /\ UNCHANGED <<today, meetings, bookings, excused>>

-----------------------------------------------------------------------------
(***************************************************************************)
(* Calendar                                                                *)
(***************************************************************************)
Overlap(p, q) == p.day = q.day /\ p.slots \cap q.slots # {}
SharesPlace(p, q) == p.host = q.host \/ (p.room = q.room /\ p.room # NoRoom)

\* assertNoClash
NoClash(p, m) ==
  \A n \in Meetings \ {m} :
    status[n] = "SCHEDULED" => ~(Overlap(p, plan[n]) /\ SharesPlace(p, plan[n]))

\* bookExclusively checks again under the locks of the room and the host.
\*
\* Fault: the check made before the locks is relied on.
CheckedEarlier(p, m) == TRUE
NoClashUnderLocks(p, m) == NoClash(p, m)

CreateAppointment(u, m, p, guests) ==
  /\ status[m] = "NONE"
  /\ p.day >= today
  /\ NoClash(p, m)
  /\ Start(u, [op |-> "book", meeting |-> m, plan |-> p, was |-> Slot(p), guests |-> guests])

\* A new time may not have passed; the time it already has may.
UpdateAppointment(u, m, p) ==
  /\ status[m] = "SCHEDULED"
  /\ p.day >= today \/ p.day = plan[m].day
  /\ NoClash(p, m)
  /\ Start(u, [op |-> "rebook", meeting |-> m, plan |-> p, was |-> Slot(plan[m]), guests |-> FALSE])

\* Another person may have taken the slot for the new meeting meanwhile.
Book(u) ==
  LET r == doing[u] IN
  /\ r.op = "book"
  /\ status[r.meeting] = "NONE"
  /\ NoClashUnderLocks(r.plan, r.meeting)
  /\ status' = [status EXCEPT ![r.meeting] = "SCHEDULED"]
  /\ plan' = [plan EXCEPT ![r.meeting] = r.plan]
  /\ Do(u, IF r.guests THEN [op |-> "invite", meeting |-> r.meeting, slot |-> r.was] ELSE Idle)
  /\ UNCHANGED <<today, bookings, excused>>

\* The groups move if the meeting is not at the time that was read at first.
Rebook(u) ==
  LET r == doing[u] IN
  /\ r.op = "rebook"
  /\ status[r.meeting] = "SCHEDULED"
  /\ NoClashUnderLocks(r.plan, r.meeting)
  /\ plan' = [plan EXCEPT ![r.meeting] = r.plan]
  /\ Do(u, IF Slot(r.plan) # r.was
           THEN [op |-> "move", meeting |-> r.meeting, slot |-> Slot(r.plan)] ELSE Idle)
  /\ UNCHANGED <<today, status, bookings, excused>>

CancelAppointment(u, m) ==
  /\ doing[u] = Idle
  /\ status[m] = "SCHEDULED"
  /\ status' = [status EXCEPT ![m] = "CANCELLED"]
  /\ Do(u, [op |-> "uninvite", meeting |-> m])
  /\ UNCHANGED <<today, plan, bookings, excused>>

\* An outcome, once the meeting has started.
SetOutcome(u, m, to) ==
  /\ status[m] = "SCHEDULED" /\ plan[m].day <= today
  /\ Start(u, [op |-> "close", meeting |-> m, to |-> to])

Close(u) ==
  LET r == doing[u] IN
  /\ r.op = "close"
  /\ status[r.meeting] = "SCHEDULED"
  /\ status' = [status EXCEPT ![r.meeting] = r.to]
  /\ Do(u, Idle)
  /\ UNCHANGED <<today, plan, bookings, excused>>

\* groupsOf: the expected groups of the meeting, as they are now.
ReadGroups(u) ==
  LET r     == doing[u]
      still == {g \in Groups(r.meeting) : visit[g] = "EXPECTED"}
  IN /\ \/ r.op = "move" /\ Do(u, [op |-> "moving", left |-> still, slot |-> r.slot])
        \/ r.op = "uninvite" /\ Do(u, [op |-> "removing", left |-> still])
     /\ UNCHANGED <<today, meetings, bookings, excused>>

\* Every change of a booking claims it as still expected.
\*
\* Fault: the claim is on the booking's id only.
AnyBooking(g) == TRUE
StillExpected(g) == visit[g] = "EXPECTED"

Rest(r, g) == IF r.left = {g} THEN Idle ELSE [r EXCEPT !.left = @ \ {g}]

MoveGroup(u, g) ==
  LET r == doing[u] IN
  /\ r.op = "moving" /\ g \in r.left
  /\ booked' = [booked EXCEPT ![g] = IF StillExpected(g) THEN r.slot ELSE @]
  /\ Do(u, Rest(r, g))
  /\ UNCHANGED <<today, meetings, visit, of, excused>>

\* A booking that goes while its meeting stands: the meeting's last group may
\* have left already.
Remove(g) ==
  /\ visit' = [visit EXCEPT ![g] = "REMOVED"]
  /\ excused' = IF of[g] = NoMeeting THEN excused ELSE [excused EXCEPT ![of[g]] = TRUE]
  /\ UNCHANGED <<today, meetings, of, booked>>

RemoveGroup(u, g) ==
  LET r == doing[u] IN
  /\ r.op = "removing" /\ g \in r.left
  /\ IF StillExpected(g) THEN Remove(g) ELSE UNCHANGED <<today, meetings, bookings, excused>>
  /\ Do(u, Rest(r, g))

\* Nothing left to move or remove.
NoGroups(u) ==
  /\ doing[u].op \in {"moving", "removing"} /\ doing[u].left = {}
  /\ Do(u, Idle)
  /\ UNCHANGED <<today, meetings, bookings, excused>>

\* A group is booked at the time of the meeting as it was read.
AddVisitorGroup(u, m) ==
  /\ status[m] = "SCHEDULED" /\ plan[m].day >= today
  /\ Start(u, [op |-> "invite", meeting |-> m, slot |-> Slot(plan[m])])

\* createGroupBooking
Invite(u, g) ==
  LET r == doing[u] IN
  /\ r.op = "invite"
  /\ visit[g] = "NONE"
  /\ visit' = [visit EXCEPT ![g] = "EXPECTED"]
  /\ of' = [of EXCEPT ![g] = r.meeting]
  /\ booked' = [booked EXCEPT ![g] = r.slot]
  /\ Do(u, Idle)
  /\ UNCHANGED <<today, meetings, excused>>

RemoveVisitorGroup(u, g) ==
  /\ of[g] # NoMeeting /\ visit[g] = "EXPECTED"
  /\ status[of[g]] = "SCHEDULED" /\ plan[of[g]].day >= today
  /\ Start(u, [op |-> "removing", left |-> {g}])

-----------------------------------------------------------------------------
(***************************************************************************)
(* Gate                                                                    *)
(***************************************************************************)
\* preRegisterVisit, and recordArrival for a visitor nobody booked.
BookVisit(u, g, p) ==
  /\ doing[u] = Idle
  /\ visit[g] = "NONE"
  /\ \E s \in {"EXPECTED", "CHECKED_IN"} : visit' = [visit EXCEPT ![g] = s]
  /\ booked' = [booked EXCEPT ![g] = Slot(p)]
  /\ UNCHANGED <<today, meetings, of, excused, doing>>

UpdateBooking(u, g, p) ==
  /\ doing[u] = Idle
  /\ visit[g] = "EXPECTED"
  /\ booked' = [booked EXCEPT ![g] = Slot(p)]
  /\ UNCHANGED <<today, meetings, visit, of, excused, doing>>

CancelVisit(u, g) ==
  /\ visit[g] = "EXPECTED"
  /\ Start(u, [op |-> "removing", left |-> {g}])

CheckIn(u, g) ==
  /\ visit[g] = "EXPECTED"
  /\ Start(u, [op |-> "arrive", visit |-> g])

Arrive(u) ==
  LET r == doing[u] IN
  /\ r.op = "arrive"
  /\ StillExpected(r.visit)
  /\ visit' = [visit EXCEPT ![r.visit] = "CHECKED_IN"]
  /\ Do(u, Idle)
  /\ UNCHANGED <<today, meetings, of, booked, excused>>

CheckOut(u, g) ==
  /\ doing[u] = Idle
  /\ visit[g] = "CHECKED_IN"
  /\ visit' = [visit EXCEPT ![g] = "CHECKED_OUT"]
  /\ Do(u, IF of[g] = NoMeeting THEN Idle ELSE [op |-> "count", meeting |-> of[g]])
  /\ UNCHANGED <<today, meetings, of, booked, excused>>

\* Groups the meeting is still waiting for.
\*
\* Fault: counts whoever has not been cancelled.
NotCancelled(m) == Groups(m)
StillComing(m) == {g \in Groups(m) : visit[g] \in {"EXPECTED", "CHECKED_IN"}}

\* The meeting is looked up while it is SCHEDULED, then the groups are counted.
Count(u) ==
  LET m == doing[u].meeting IN
  /\ doing[u].op = "count"
  /\ Do(u, IF status[m] = "SCHEDULED" /\ StillComing(m) = {}
           THEN [op |-> "complete", meeting |-> m] ELSE Idle)
  /\ UNCHANGED <<today, meetings, bookings, excused>>

Complete(u) ==
  LET m == doing[u].meeting IN
  /\ doing[u].op = "complete"
  /\ status[m] = "SCHEDULED"
  /\ status' = [status EXCEPT ![m] = "COMPLETED"]
  /\ Do(u, Idle)
  /\ UNCHANGED <<today, plan, bookings, excused>>

\* purgeStaleBookings, whenever the visitors' list is opened.
Stale(g) == visit[g] = "EXPECTED" /\ booked[g].day < today

PurgeStaleBookings(u) ==
  /\ \E g \in Visits : Stale(g)
  /\ Start(u, [op |-> "removing", left |-> {g \in Visits : Stale(g)}])

-----------------------------------------------------------------------------
\* A claim is refused, or the request dies between two calls.
Drop(u) ==
  /\ doing[u] # Idle
  /\ Do(u, Idle)
  /\ excused' = IF doing[u].op \in {"count", "complete"}
                THEN [excused EXCEPT ![doing[u].meeting] = TRUE] ELSE excused
  /\ UNCHANGED <<today, meetings, bookings>>

NextDay ==
  /\ today <= LastDay
  /\ today' = today + 1
  /\ UNCHANGED <<meetings, bookings, excused, doing>>

Ask(u) ==
  \/ \E m \in Meetings, p \in Plans, guests \in BOOLEAN : CreateAppointment(u, m, p, guests)
  \/ \E m \in Meetings, p \in Plans : UpdateAppointment(u, m, p)
  \/ \E m \in Meetings :
       \/ CancelAppointment(u, m) \/ AddVisitorGroup(u, m)
       \/ \E to \in {"COMPLETED", "NO_SHOW"} : SetOutcome(u, m, to)
  \/ \E g \in Visits, p \in Plans : BookVisit(u, g, p) \/ UpdateBooking(u, g, p)
  \/ \E g \in Visits : RemoveVisitorGroup(u, g) \/ CancelVisit(u, g) \/ CheckIn(u, g) \/ CheckOut(u, g)
  \/ PurgeStaleBookings(u)

Save(u) ==
  \/ Book(u) \/ Rebook(u) \/ Close(u) \/ ReadGroups(u) \/ NoGroups(u)
  \/ \E g \in Visits : MoveGroup(u, g) \/ RemoveGroup(u, g) \/ Invite(u, g)
  \/ Arrive(u) \/ Count(u) \/ Complete(u)

Next == NextDay \/ \E u \in Staff : Ask(u) \/ Save(u) \/ Drop(u)

Spec == Init /\ [][Next]_vars

-----------------------------------------------------------------------------
(***************************************************************************)
(* Properties                                                              *)
(***************************************************************************)
\* Two meetings at one time never share a host or a room, however bookings
\* and moves interleave (bookExclusively).
NoDoubleBooking ==
  \A m, n \in Meetings :
    m # n /\ status[m] = "SCHEDULED" /\ status[n] = "SCHEDULED" /\ Overlap(plan[m], plan[n])
      => ~SharesPlace(plan[m], plan[n])

\* A visitor on the premises is never cancelled, removed or purged by a
\* request that saw them expected, and nobody leaves who did not come in.
PresentVisitorsKept ==
  [][\A g \in Visits :
       /\ visit[g] = "CHECKED_IN" => visit'[g] \in {"CHECKED_IN", "CHECKED_OUT"}
       /\ visit'[g] = "CHECKED_OUT" => visit[g] \in {"CHECKED_IN", "CHECKED_OUT"}]_vars

\* When all visitor groups of a meeting have left, it is completed or a
\* check-out is about to: two groups checked out at once cannot both leave it
\* to the other.  Not promised after a group was removed while others had
\* left, or a check-out died half-way.
LastOutCompletes ==
  \A m \in Meetings :
    /\ status[m] = "SCHEDULED" /\ ~excused[m] /\ Groups(m) # {}
    /\ \A g \in Groups(m) : visit[g] = "CHECKED_OUT"
    => \E u \in Staff : doing[u] \in [op : {"count", "complete"}, meeting : {m}]
=============================================================================
