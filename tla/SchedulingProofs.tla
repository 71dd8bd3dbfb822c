-------------------------- MODULE SchedulingProofs --------------------------
(***************************************************************************)
(* What holds of the calendar and of the gate bookings for any number of   *)
(* meetings, visits and people: no double booking, and nobody on the       *)
(* premises lost.  Both follow from the claim each save makes; the type    *)
(* of the requests in flight carries the rest.                             *)
(***************************************************************************)
EXTENDS Scheduling, TLAPS

IInv == TypeOK /\ NoDoubleBooking

-----------------------------------------------------------------------------
(***************************************************************************)
(* Requests in flight                                                      *)
(***************************************************************************)
LEMMA OpTellsTheKind ==
  ASSUME NEW w
  PROVE  /\ w = Idle => w.op = "idle"
         /\ w \in Bookings => w.op \in {"book", "rebook"}
         /\ w \in Closings => w.op = "close"
         /\ w \in Moves => w.op \in {"move", "invite"}
         /\ w \in Lookups => w.op \in {"uninvite", "count", "complete"}
         /\ w \in Moving => w.op = "moving"
         /\ w \in Removing => w.op = "removing"
         /\ w \in Arrivals => w.op = "arrive"
<1>1. w = Idle => w.op = "idle"
  BY DEF Idle
<1>2. w \in Bookings => w.op \in {"book", "rebook"}
  BY DEF Bookings
<1>3. w \in Closings => w.op = "close"
  BY DEF Closings
<1>4. w \in Moves => w.op \in {"move", "invite"}
  BY DEF Moves
<1>5. w \in Lookups => w.op \in {"uninvite", "count", "complete"}
  BY DEF Lookups
<1>6. w \in Moving => w.op = "moving"
  BY DEF Moving
<1>7. w \in Removing => w.op = "removing"
  BY DEF Removing
<1>8. w \in Arrivals => w.op = "arrive"
  BY DEF Arrivals
<1>. QED
  BY <1>1, <1>2, <1>3, <1>4, <1>5, <1>6, <1>7, <1>8

LEMMA KindTellsTheSet ==
  ASSUME NEW w \in Requests
  PROVE  /\ w.op \in {"book", "rebook"} => w \in Bookings
         /\ w.op = "close" => w \in Closings
         /\ w.op \in {"move", "invite"} => w \in Moves
         /\ w.op \in {"uninvite", "count", "complete"} => w \in Lookups
         /\ w.op = "moving" => w \in Moving
         /\ w.op = "removing" => w \in Removing
         /\ w.op = "arrive" => w \in Arrivals
<1>1. \/ w = Idle \/ w \in Bookings \/ w \in Closings \/ w \in Moves \/ w \in Lookups
      \/ w \in Moving \/ w \in Removing \/ w \in Arrivals
  BY Zenon DEF Requests
<1>. QED
  BY <1>1, OpTellsTheKind

LEMMA IdleTyped == Idle \in Requests
BY DEF Requests

LEMMA SlotTyped ==
  ASSUME NEW p \in Plans
  PROVE  Slot(p) \in Slots
BY PlanAssumption DEF Slot, Slots

LEMMA RestTyped ==
  ASSUME NEW r \in Moving \cup Removing, NEW g
  PROVE  Rest(r, g) \in Requests
<1>1. CASE r \in Moving
  <2>1. [r EXCEPT !.left = @ \ {g}] \in Moving
    BY <1>1 DEF Moving
  <2>. QED
    BY <2>1, IdleTyped DEF Rest, Requests
<1>2. CASE r \in Removing
  <2>1. [r EXCEPT !.left = @ \ {g}] \in Removing
    BY <1>2 DEF Removing
  <2>. QED
    BY <2>1, IdleTyped DEF Rest, Requests
<1>. QED
  BY <1>1, <1>2

\* A step that leaves the calendar alone.
LEMMA CalendarLeftAlone ==
  ASSUME IInv, NEW u \in Staff, NEW w \in Requests, Do(u, w), UNCHANGED meetings,
         today' \in 1..(LastDay + 1),
         visit' \in [Visits -> {"NONE", "EXPECTED", "CHECKED_IN", "CHECKED_OUT", "REMOVED"}],
         of' \in [Visits -> Meetings \cup {NoMeeting}],
         booked' \in [Visits -> Slots],
         excused' \in [Meetings -> BOOLEAN]
  PROVE  IInv'
<1>1. doing' \in [Staff -> Requests]
  BY DEF Do, IInv, TypeOK
<1>2. TypeOK'
  BY <1>1 DEF IInv, TypeOK, meetings
<1>3. NoDoubleBooking'
  BY DEF IInv, NoDoubleBooking, meetings
<1>. QED
  BY <1>2, <1>3 DEF IInv

LEMMA StartKeeps ==
  ASSUME IInv, NEW u \in Staff, NEW w \in Requests, Do(u, w),
         UNCHANGED <<today, meetings, bookings, excused>>
  PROVE  IInv'
BY CalendarLeftAlone DEF IInv, TypeOK, bookings

-----------------------------------------------------------------------------
(***************************************************************************)
(* Calendar                                                                *)
(***************************************************************************)
\* A meeting that takes a plan no scheduled meeting clashes with.
LEMMA TakesFreePlan ==
  ASSUME IInv, NEW m \in Meetings, NEW p \in Plans, NoClash(p, m),
         status'[m] = "SCHEDULED", plan'[m] = p,
         \A n \in Meetings \ {m} : status'[n] = status[n] /\ plan'[n] = plan[n]
  PROVE  NoDoubleBooking'
<1>. SUFFICES ASSUME NEW a \in Meetings, NEW b \in Meetings, a # b,
                     status'[a] = "SCHEDULED", status'[b] = "SCHEDULED",
                     Overlap(plan'[a], plan'[b])
              PROVE  ~SharesPlace(plan'[a], plan'[b])
  BY DEF NoDoubleBooking
<1>1. CASE a = m
  BY <1>1 DEF NoClash
<1>2. CASE b = m
  BY <1>2 DEF NoClash, Overlap, SharesPlace
<1>3. CASE a # m /\ b # m
  BY <1>3 DEF IInv, NoDoubleBooking
<1>. QED
  BY <1>1, <1>2, <1>3

\* A meeting that is over frees its place.
LEMMA EndingFreesPlace ==
  ASSUME IInv, NEW m \in Meetings, NEW s \in {"COMPLETED", "NO_SHOW", "CANCELLED"},
         status' = [status EXCEPT ![m] = s], plan' = plan
  PROVE  NoDoubleBooking'
BY DEF IInv, TypeOK, NoDoubleBooking

LEMMA BookKeeps ==
  ASSUME IInv, NEW u \in Staff, Book(u) \/ Rebook(u)
  PROVE  IInv'
<1> DEFINE r == doing[u]
<1>1. r \in Bookings
  BY KindTellsTheSet DEF Book, Rebook, IInv, TypeOK
<1>2. r.meeting \in Meetings /\ r.plan \in Plans /\ r.was \in Slots
  BY <1>1 DEF Bookings
<1>3. /\ NoClash(r.plan, r.meeting)
      /\ plan' = [plan EXCEPT ![r.meeting] = r.plan]
      /\ \/ status' = [status EXCEPT ![r.meeting] = "SCHEDULED"]
         \/ status' = status /\ status[r.meeting] = "SCHEDULED"
      /\ UNCHANGED <<today, bookings, excused>>
  BY DEF Book, Rebook, NoClashUnderLocks
<1>4. PICK w \in Requests : Do(u, w)
  <2>1. [op |-> "invite", meeting |-> r.meeting, slot |-> r.was] \in Requests
    BY <1>2 DEF Requests, Moves
  <2>2. [op |-> "move", meeting |-> r.meeting, slot |-> Slot(r.plan)] \in Requests
    BY <1>2, SlotTyped DEF Requests, Moves
  <2>. QED
    BY <2>1, <2>2, IdleTyped DEF Book, Rebook
<1>. HIDE DEF r
<1>5. doing' \in [Staff -> Requests]
  BY <1>4 DEF Do, IInv, TypeOK
<1>6. TypeOK'
  BY <1>2, <1>3, <1>5 DEF IInv, TypeOK, bookings
<1>7. NoDoubleBooking'
  BY <1>2, <1>3, TakesFreePlan DEF IInv, TypeOK
<1>. QED
  BY <1>6, <1>7 DEF IInv

LEMMA EndKeeps ==
  ASSUME IInv, NEW u \in Staff,
         Close(u) \/ Complete(u) \/ (\E m \in Meetings : CancelAppointment(u, m))
  PROVE  IInv'
<1>1. PICK m \in Meetings, s \in {"COMPLETED", "NO_SHOW", "CANCELLED"}, w \in Requests :
        /\ status' = [status EXCEPT ![m] = s] /\ plan' = plan
        /\ Do(u, w) /\ UNCHANGED <<today, bookings, excused>>
  <2>0. doing[u] \in Requests
    BY DEF IInv, TypeOK
  <2>1. CASE Close(u)
    <3>1. doing[u] \in Closings
      BY <2>0, <2>1, KindTellsTheSet DEF Close
    <3>2. doing[u].meeting \in Meetings /\ doing[u].to \in {"COMPLETED", "NO_SHOW"}
      BY <3>1 DEF Closings
    <3>. QED
      BY <2>1, <3>2, IdleTyped DEF Close
  <2>2. CASE Complete(u)
    <3>1. doing[u] \in Lookups
      BY <2>0, <2>2, KindTellsTheSet DEF Complete
    <3>2. doing[u].meeting \in Meetings
      BY <3>1 DEF Lookups
    <3>. QED
      BY <2>2, <3>2, IdleTyped DEF Complete
  <2>3. ASSUME NEW m \in Meetings, CancelAppointment(u, m)
        PROVE  /\ status' = [status EXCEPT ![m] = "CANCELLED"] /\ plan' = plan
               /\ Do(u, [op |-> "uninvite", meeting |-> m])
               /\ [op |-> "uninvite", meeting |-> m] \in Requests
               /\ UNCHANGED <<today, bookings, excused>>
    BY <2>3 DEF CancelAppointment, Requests, Lookups
  <2>. QED
    BY <2>1, <2>2, <2>3
<1>2. doing' \in [Staff -> Requests]
  BY <1>1 DEF Do, IInv, TypeOK
<1>3. TypeOK'
  BY <1>1, <1>2 DEF IInv, TypeOK, bookings
<1>4. NoDoubleBooking'
  BY <1>1, EndingFreesPlace
<1>. QED
  BY <1>3, <1>4 DEF IInv

\* Requests that only read.
LEMMA AskKeeps ==
  ASSUME IInv, NEW u \in Staff, NEW m \in Meetings, NEW p \in Plans,
         \/ \E guests \in BOOLEAN : CreateAppointment(u, m, p, guests)
         \/ UpdateAppointment(u, m, p) \/ AddVisitorGroup(u, m)
         \/ \E to \in {"COMPLETED", "NO_SHOW"} : SetOutcome(u, m, to)
  PROVE  IInv' /\ UNCHANGED visit
<1>0. plan[m] \in Plans
  BY DEF IInv, TypeOK
<1>1. PICK w \in Requests : Start(u, w)
  <2>1. ASSUME NEW guests \in BOOLEAN, CreateAppointment(u, m, p, guests)
        PROVE  \E w \in Requests : Start(u, w)
    <3> DEFINE w == [op |-> "book", meeting |-> m, plan |-> p, was |-> Slot(p), guests |-> guests]
    <3>1. w \in Requests
      BY SlotTyped DEF Requests, Bookings
    <3>. QED
      BY <2>1, <3>1 DEF CreateAppointment
  <2>2. ASSUME UpdateAppointment(u, m, p)
        PROVE  \E w \in Requests : Start(u, w)
    <3> DEFINE w == [op |-> "rebook", meeting |-> m, plan |-> p, was |-> Slot(plan[m]), guests |-> FALSE]
    <3>1. w \in Requests
      BY <1>0, SlotTyped DEF Requests, Bookings
    <3>. QED
      BY <2>2, <3>1 DEF UpdateAppointment
  <2>3. ASSUME AddVisitorGroup(u, m)
        PROVE  \E w \in Requests : Start(u, w)
    <3> DEFINE w == [op |-> "invite", meeting |-> m, slot |-> Slot(plan[m])]
    <3>1. w \in Requests
      BY <1>0, SlotTyped DEF Requests, Moves
    <3>. QED
      BY <2>3, <3>1 DEF AddVisitorGroup
  <2>4. ASSUME NEW to \in {"COMPLETED", "NO_SHOW"}, SetOutcome(u, m, to)
        PROVE  \E w \in Requests : Start(u, w)
    <3> DEFINE w == [op |-> "close", meeting |-> m, to |-> to]
    <3>1. w \in Requests
      BY DEF Requests, Closings
    <3>. QED
      BY <2>4, <3>1 DEF SetOutcome
  <2>. QED
    BY <2>1, <2>2, <2>3, <2>4
<1>. QED
  BY <1>1, StartKeeps DEF Start, bookings

-----------------------------------------------------------------------------
(***************************************************************************)
(* Bookings at the gate                                                    *)
(***************************************************************************)
\* The step of PresentVisitorsKept.
Kept ==
  \A g \in Visits :
    /\ visit[g] = "CHECKED_IN" => visit'[g] \in {"CHECKED_IN", "CHECKED_OUT"}
    /\ visit'[g] = "CHECKED_OUT" => visit[g] \in {"CHECKED_IN", "CHECKED_OUT"}

\* A step of the gate that moves one visit on.
LEMMA VisitMoves ==
  ASSUME IInv, NEW u \in Staff, NEW w \in Requests, Do(u, w),
         UNCHANGED <<today, meetings>>, NEW g \in Visits,
         NEW s \in {"EXPECTED", "CHECKED_IN", "CHECKED_OUT", "REMOVED"},
         visit' = [visit EXCEPT ![g] = s],
         of' \in [Visits -> Meetings \cup {NoMeeting}],
         booked' \in [Visits -> Slots],
         excused' \in [Meetings -> BOOLEAN],
         s = "CHECKED_OUT" <=> visit[g] = "CHECKED_IN"
  PROVE  IInv' /\ Kept
<1>1. today' \in 1..(LastDay + 1)
      /\ visit' \in [Visits -> {"NONE", "EXPECTED", "CHECKED_IN", "CHECKED_OUT", "REMOVED"}]
  BY DEF IInv, TypeOK
<1>2. IInv'
  BY <1>1, CalendarLeftAlone
<1>3. Kept
  BY DEF Kept, IInv, TypeOK
<1>. QED
  BY <1>2, <1>3

LEMMA UnchangedKeeps == UNCHANGED visit => Kept
BY DEF Kept

\* What the calendar asks of its groups, one booking after the other.
LEMMA GroupsKeep ==
  ASSUME IInv, NEW u \in Staff,
         \/ ReadGroups(u) \/ NoGroups(u)
         \/ \E g \in Visits : MoveGroup(u, g) \/ RemoveGroup(u, g) \/ Invite(u, g)
  PROVE  IInv' /\ Kept
<1>0. doing[u] \in Requests
  BY DEF IInv, TypeOK
<1>1. CASE ReadGroups(u)
  <2> DEFINE still == {g \in Groups(doing[u].meeting) : visit[g] = "EXPECTED"}
  <2>1. still \in SUBSET Visits
    BY DEF Groups
  <2>. HIDE DEF still
  <2>2. CASE doing[u].op = "move"
    <3>1. doing[u] \in Moves
      BY <1>0, <2>2, KindTellsTheSet
    <3>2. [op |-> "moving", left |-> still, slot |-> doing[u].slot] \in Requests
      BY <2>1, <3>1 DEF Moves, Moving, Requests
    <3>. QED
      BY <1>1, <2>2, <3>2, StartKeeps, UnchangedKeeps DEF ReadGroups, bookings, still
  <2>3. CASE doing[u].op = "uninvite"
    <3>1. [op |-> "removing", left |-> still] \in Requests
      BY <2>1 DEF Removing, Requests
    <3>. QED
      BY <1>1, <2>3, <3>1, StartKeeps, UnchangedKeeps DEF ReadGroups, bookings, still
  <2>. QED
    BY <1>1, <2>2, <2>3 DEF ReadGroups
<1>2. CASE NoGroups(u)
  BY <1>2, IdleTyped, StartKeeps, UnchangedKeeps DEF NoGroups, bookings
<1>3. ASSUME NEW g \in Visits, MoveGroup(u, g)
      PROVE  IInv' /\ Kept
  <2>1. doing[u] \in Moving
    BY <1>0, <1>3, KindTellsTheSet DEF MoveGroup
  <2>2. doing[u].slot \in Slots /\ Rest(doing[u], g) \in Requests
    BY <2>1, RestTyped DEF Moving
  <2>3. booked' \in [Visits -> Slots]
    BY <1>3, <2>2 DEF MoveGroup, IInv, TypeOK
  <2>4. Do(u, Rest(doing[u], g)) /\ UNCHANGED <<today, meetings, visit, of, excused>>
    BY <1>3 DEF MoveGroup
  <2>5. IInv'
    BY <2>2, <2>3, <2>4, CalendarLeftAlone DEF IInv, TypeOK
  <2>. QED
    BY <2>4, <2>5, UnchangedKeeps
<1>4. ASSUME NEW g \in Visits, RemoveGroup(u, g)
      PROVE  IInv' /\ Kept
  <2>1. doing[u] \in Removing
    BY <1>0, <1>4, KindTellsTheSet DEF RemoveGroup
  <2>2. Rest(doing[u], g) \in Requests
    BY <2>1, RestTyped
  <2>3. Do(u, Rest(doing[u], g))
    BY <1>4 DEF RemoveGroup
  <2>4. CASE StillExpected(g)
    <3>1. Remove(g) /\ visit[g] = "EXPECTED"
      BY <1>4, <2>4 DEF RemoveGroup, StillExpected
    <3>2. excused' \in [Meetings -> BOOLEAN]
      BY <3>1 DEF Remove, IInv, TypeOK
    <3>. QED
      BY <2>2, <2>3, <3>1, <3>2, VisitMoves DEF Remove, IInv, TypeOK
  <2>5. CASE ~StillExpected(g)
    BY <1>4, <2>2, <2>3, <2>5, StartKeeps, UnchangedKeeps DEF RemoveGroup, bookings
  <2>. QED
    BY <2>4, <2>5
<1>5. ASSUME NEW g \in Visits, Invite(u, g)
      PROVE  IInv' /\ Kept
  <2>1. doing[u] \in Moves
    BY <1>0, <1>5, KindTellsTheSet DEF Invite
  <2>2. doing[u].slot \in Slots /\ doing[u].meeting \in Meetings
    BY <2>1 DEF Moves
  <2>3. /\ of' \in [Visits -> Meetings \cup {NoMeeting}] /\ booked' \in [Visits -> Slots]
        /\ excused' \in [Meetings -> BOOLEAN]
    BY <1>5, <2>2 DEF Invite, IInv, TypeOK
  <2>. QED
    BY <1>5, <2>3, IdleTyped, VisitMoves DEF Invite
<1>. QED
  BY <1>1, <1>2, <1>3, <1>4, <1>5

LEMMA GateKeeps ==
  ASSUME IInv, NEW u \in Staff, NEW g \in Visits, NEW p \in Plans,
         \/ BookVisit(u, g, p) \/ UpdateBooking(u, g, p) \/ RemoveVisitorGroup(u, g)
         \/ CancelVisit(u, g) \/ CheckIn(u, g) \/ CheckOut(u, g) \/ PurgeStaleBookings(u)
  PROVE  IInv' /\ Kept
<1>0. Idle \in Requests /\ (doing[u] = Idle /\ doing' = doing => Do(u, Idle))
  BY IdleTyped DEF Do, IInv, TypeOK
<1>1. [booked EXCEPT ![g] = Slot(p)] \in [Visits -> Slots]
  BY SlotTyped DEF IInv, TypeOK
<1>2. CASE BookVisit(u, g, p)
  <2>1. PICK s \in {"EXPECTED", "CHECKED_IN"} : visit' = [visit EXCEPT ![g] = s]
    BY <1>2 DEF BookVisit
  <2>2. Do(u, Idle) /\ visit[g] = "NONE" /\ UNCHANGED <<today, meetings>>
        /\ UNCHANGED <<of, excused>> /\ booked' \in [Visits -> Slots]
    BY <1>0, <1>1, <1>2 DEF BookVisit
  <2>. QED
    BY <1>0, <2>1, <2>2, VisitMoves DEF IInv, TypeOK
<1>3. CASE UpdateBooking(u, g, p)
  <2>1. Do(u, Idle) /\ UNCHANGED meetings /\ UNCHANGED <<today, visit, of, excused>>
        /\ booked' \in [Visits -> Slots]
    BY <1>0, <1>1, <1>3 DEF UpdateBooking
  <2>2. IInv'
    BY <1>0, <2>1, CalendarLeftAlone DEF IInv, TypeOK
  <2>. QED
    BY <2>1, <2>2, UnchangedKeeps
<1>4. CASE RemoveVisitorGroup(u, g) \/ CancelVisit(u, g)
  <2>1. [op |-> "removing", left |-> {g}] \in Requests
    BY DEF Requests, Removing
  <2>. QED
    BY <1>4, <2>1, StartKeeps, UnchangedKeeps DEF RemoveVisitorGroup, CancelVisit, Start, bookings
<1>5. CASE CheckIn(u, g)
  <2>1. [op |-> "arrive", visit |-> g] \in Requests
    BY DEF Requests, Arrivals
  <2>. QED
    BY <1>5, <2>1, StartKeeps, UnchangedKeeps DEF CheckIn, Start, bookings
<1>6. CASE CheckOut(u, g)
  <2>1. of[g] # NoMeeting => [op |-> "count", meeting |-> of[g]] \in Requests
    BY DEF Requests, Lookups, IInv, TypeOK
  <2>2. PICK w \in Requests : Do(u, w)
    BY <1>0, <1>6, <2>1 DEF CheckOut
  <2>3. visit[g] = "CHECKED_IN" /\ visit' = [visit EXCEPT ![g] = "CHECKED_OUT"]
        /\ UNCHANGED <<today, meetings>> /\ UNCHANGED <<of, booked, excused>>
    BY <1>6 DEF CheckOut
  <2>. QED
    BY <2>2, <2>3, VisitMoves DEF IInv, TypeOK
<1>7. CASE PurgeStaleBookings(u)
  <2>1. [op |-> "removing", left |-> {h \in Visits : Stale(h)}] \in Requests
    BY DEF Requests, Removing
  <2>. QED
    BY <1>7, <2>1, StartKeeps, UnchangedKeeps DEF PurgeStaleBookings, Start, bookings
<1>. QED
  BY <1>2, <1>3, <1>4, <1>5, <1>6, <1>7

LEMMA SaveVisitKeeps ==
  ASSUME IInv, NEW u \in Staff, Arrive(u) \/ Count(u) \/ Drop(u)
  PROVE  IInv' /\ Kept
<1>0. doing[u] \in Requests
  BY DEF IInv, TypeOK
<1>1. CASE Arrive(u)
  <2>1. doing[u] \in Arrivals
    BY <1>0, <1>1, KindTellsTheSet DEF Arrive
  <2> DEFINE g == doing[u].visit
  <2>2. g \in Visits
    BY <2>1 DEF Arrivals
  <2>3. visit[g] = "EXPECTED" /\ visit' = [visit EXCEPT ![g] = "CHECKED_IN"] /\ Do(u, Idle)
        /\ UNCHANGED <<today, meetings>> /\ UNCHANGED <<of, booked, excused>>
    BY <1>1 DEF Arrive, StillExpected
  <2>. HIDE DEF g
  <2>. QED
    BY <2>2, <2>3, IdleTyped, VisitMoves DEF IInv, TypeOK
<1>2. CASE Count(u)
  <2>1. doing[u] \in Lookups
    BY <1>0, <1>2, KindTellsTheSet DEF Count
  <2>2. [op |-> "complete", meeting |-> doing[u].meeting] \in Requests
    BY <2>1 DEF Lookups, Requests
  <2>3. PICK w \in Requests : Do(u, w)
    BY <1>2, <2>2, IdleTyped DEF Count
  <2>4. UNCHANGED <<today, meetings, bookings, excused>>
    BY <1>2 DEF Count
  <2>. QED
    BY <2>3, <2>4, StartKeeps, UnchangedKeeps DEF bookings
<1>3. CASE Drop(u)
  <2>1. Do(u, Idle) /\ UNCHANGED meetings /\ UNCHANGED <<today, visit, of, booked>>
        /\ excused' \in [Meetings -> BOOLEAN]
    BY <1>3 DEF Drop, bookings, IInv, TypeOK
  <2>2. IInv'
    BY <2>1, IdleTyped, CalendarLeftAlone DEF IInv, TypeOK
  <2>. QED
    BY <2>1, <2>2, UnchangedKeeps
<1>. QED
  BY <1>1, <1>2, <1>3

-----------------------------------------------------------------------------
(***************************************************************************)
(* The last group to leave                                                 *)
(***************************************************************************)
\* All groups of a meeting that is still on have left, and nothing excuses it.
AllLeft(m) ==
  /\ status[m] = "SCHEDULED" /\ ~excused[m] /\ Groups(m) # {}
  /\ \A g \in Groups(m) : visit[g] = "CHECKED_OUT"

\* A request that will complete the meeting, or find that it need not.
Leaving(w, m) == w \in [op : {"count", "complete"}, meeting : {m}]

\* Groups belong to meetings that were booked: no meeting comes into being
\* with groups that have left.
Attached ==
  /\ \A g \in Visits : /\ visit[g] = "NONE" => of[g] = NoMeeting
                       /\ of[g] # NoMeeting => status[of[g]] # "NONE"
  /\ \A u \in Staff : doing[u].op = "invite" => status[doing[u].meeting] # "NONE"

LInv == IInv /\ Attached /\ LastOutCompletes

LEMMA LeavingMeans ==
  ASSUME NEW w \in Requests, NEW m \in Meetings
  PROVE  Leaving(w, m) <=> w.op \in {"count", "complete"} /\ w.meeting = m
<1>1. ASSUME w.op \in {"count", "complete"}
      PROVE  w \in Lookups
  BY <1>1, KindTellsTheSet
<1>. QED
  BY <1>1 DEF Leaving, Lookups

\* One request is served: nobody else's is touched.  No meeting becomes one
\* that all have left, and none loses the request that will complete it,
\* unless the request itself will.
LEMMA LastOutKept ==
  ASSUME LInv, NEW u \in Staff, NEW w, Do(u, w),
         \A m \in Meetings : AllLeft(m)' /\ ~Leaving(w, m) => AllLeft(m) /\ ~Leaving(doing[u], m)
  PROVE  LastOutCompletes'
<1>1. doing'[u] = w /\ \A v \in Staff : v # u => doing'[v] = doing[v]
  BY DEF Do, LInv, IInv, TypeOK
<1>2. ASSUME NEW m \in Meetings, AllLeft(m)'
      PROVE  \E v \in Staff : Leaving(doing'[v], m)
  <2>1. CASE Leaving(w, m)
    BY <1>1, <2>1
  <2>2. CASE ~Leaving(w, m)
    <3>1. AllLeft(m) /\ ~Leaving(doing[u], m)
      BY <1>2, <2>2
    <3>2. PICK v \in Staff : Leaving(doing[v], m)
      BY <3>1 DEF LInv, LastOutCompletes, AllLeft, Leaving
    <3>. QED
      BY <1>1, <3>1, <3>2
  <2>. QED
    BY <2>1, <2>2
<1>. QED
  BY <1>2 DEF LastOutCompletes, AllLeft, Leaving

\* A request that only reads, or leaves the meetings and the visits alone.
LEMMA QuietKept ==
  ASSUME LInv, NEW u \in Staff, NEW w, Do(u, w), UNCHANGED <<status, visit, of, excused>>,
         \A m \in Meetings : AllLeft(m) /\ Leaving(doing[u], m) => Leaving(w, m),
         w.op = "invite" => status[w.meeting] # "NONE"
  PROVE  Attached' /\ LastOutCompletes'
<1>1. \A m \in Meetings : AllLeft(m)' <=> AllLeft(m)
  BY DEF AllLeft, Groups
<1>2. LastOutCompletes'
  BY <1>1, LastOutKept
<1>3. Attached'
  BY DEF LInv, IInv, TypeOK, Do, Attached
<1>. QED
  BY <1>2, <1>3

\* What somebody has in hand before asking for something does not count.
LEMMA NotLeaving ==
  ASSUME LInv, NEW u \in Staff, doing[u].op \notin {"count", "complete"}
  PROVE  \A m \in Meetings : ~Leaving(doing[u], m)
BY LeavingMeans DEF LInv, IInv, TypeOK

LEMMA IdleNotLeaving == Idle.op = "idle"
BY DEF Idle

LEMMA QuietStart ==
  ASSUME LInv, NEW u \in Staff, NEW w, Start(u, w), w.op = "invite" => status[w.meeting] # "NONE"
  PROVE  Attached' /\ LastOutCompletes'
BY QuietKept, NotLeaving, IdleNotLeaving DEF Start, meetings, bookings

LEMMA AskLastOut ==
  ASSUME LInv, NEW u \in Staff, Ask(u)
  PROVE  Attached' /\ LastOutCompletes'
<1>0. TypeOK
  BY DEF LInv, IInv
<1>1. CASE \E m \in Meetings, p \in Plans, guests \in BOOLEAN : CreateAppointment(u, m, p, guests)
  BY <1>1, QuietStart DEF CreateAppointment
<1>2. CASE \E m \in Meetings, p \in Plans : UpdateAppointment(u, m, p)
  BY <1>2, QuietStart DEF UpdateAppointment
<1>3. CASE \E m \in Meetings : AddVisitorGroup(u, m)
  BY <1>3, QuietStart DEF AddVisitorGroup
<1>4. CASE \E m \in Meetings : \E to \in {"COMPLETED", "NO_SHOW"} : SetOutcome(u, m, to)
  BY <1>4, QuietStart DEF SetOutcome
<1>5. CASE \/ \E g \in Visits : RemoveVisitorGroup(u, g) \/ CancelVisit(u, g) \/ CheckIn(u, g)
           \/ PurgeStaleBookings(u)
  BY <1>5, QuietStart DEF RemoveVisitorGroup, CancelVisit, CheckIn, PurgeStaleBookings
<1>6. ASSUME NEW n \in Meetings, CancelAppointment(u, n)
      PROVE  Attached' /\ LastOutCompletes'
  <2> DEFINE w == [op |-> "uninvite", meeting |-> n]
  <2>1. /\ doing[u] = Idle /\ Do(u, w) /\ status' = [status EXCEPT ![n] = "CANCELLED"]
        /\ UNCHANGED <<visit, of, excused>> /\ w.op = "uninvite"
    BY <1>6 DEF CancelAppointment, bookings
  <2>. HIDE DEF w
  <2>2. \A m \in Meetings : AllLeft(m)' => AllLeft(m)
    BY <1>0, <2>1 DEF AllLeft, Groups, TypeOK
  <2>3. LastOutCompletes'
    BY <2>1, <2>2, LastOutKept, NotLeaving, IdleNotLeaving
  <2>4. Attached'
    BY <1>0, <2>1 DEF LInv, Attached, Do, TypeOK
  <2>. QED
    BY <2>3, <2>4
<1>7. ASSUME NEW g \in Visits, NEW p \in Plans, BookVisit(u, g, p)
      PROVE  Attached' /\ LastOutCompletes'
  <2>1. PICK s \in {"EXPECTED", "CHECKED_IN"} : visit' = [visit EXCEPT ![g] = s]
    BY <1>7 DEF BookVisit
  <2>2. /\ doing[u] = Idle /\ Do(u, Idle) /\ visit[g] = "NONE"
        /\ UNCHANGED <<status, of, excused, doing>>
    BY <1>0, <1>7 DEF BookVisit, Do, TypeOK, meetings
  <2>3. of[g] = NoMeeting
    BY <2>2 DEF LInv, Attached
  <2>4. \A m \in Meetings : AllLeft(m)' => AllLeft(m)
    BY <1>0, <2>1, <2>2, <2>3, PlanAssumption DEF AllLeft, Groups, TypeOK
  <2>5. LastOutCompletes'
    BY <2>2, <2>4, LastOutKept
  <2>6. Attached'
    BY <1>0, <2>1, <2>2 DEF LInv, Attached, TypeOK
  <2>. QED
    BY <2>5, <2>6
<1>8. ASSUME NEW g \in Visits, NEW p \in Plans, UpdateBooking(u, g, p)
      PROVE  Attached' /\ LastOutCompletes'
  <2>1. doing[u] = Idle /\ Do(u, Idle) /\ UNCHANGED <<status, visit, of, excused>>
    BY <1>0, <1>8 DEF UpdateBooking, Do, TypeOK, meetings
  <2>. QED
    BY <2>1, QuietKept, IdleNotLeaving
<1>9. ASSUME NEW g \in Visits, CheckOut(u, g)
      PROVE  Attached' /\ LastOutCompletes'
  <2> DEFINE w == IF of[g] = NoMeeting THEN Idle ELSE [op |-> "count", meeting |-> of[g]]
  <2>1. /\ doing[u] = Idle /\ Do(u, w) /\ visit[g] = "CHECKED_IN"
        /\ visit' = [visit EXCEPT ![g] = "CHECKED_OUT"] /\ UNCHANGED <<status, of, excused>>
    BY <1>9 DEF CheckOut, meetings
  <2>2. of[g] # NoMeeting => Leaving(w, of[g])
    BY DEF Leaving
  <2>3. w.op # "invite"
    BY IdleNotLeaving
  <2>. HIDE DEF w
  <2>4. \A m \in Meetings : AllLeft(m)' /\ of[g] # m => AllLeft(m)
    BY <1>0, <2>1 DEF AllLeft, Groups, TypeOK
  <2>5. \A m \in Meetings : AllLeft(m)' /\ ~Leaving(w, m) => AllLeft(m)
    BY <2>2, <2>4, PlanAssumption
  <2>6. LastOutCompletes'
    BY <2>1, <2>5, LastOutKept, NotLeaving, IdleNotLeaving
  <2>7. Attached'
    BY <1>0, <2>1, <2>3 DEF LInv, Attached, Do, TypeOK
  <2>. QED
    BY <2>6, <2>7
<1>. QED
  BY <1>1, <1>2, <1>3, <1>4, <1>5, <1>6, <1>7, <1>8, <1>9 DEF Ask

LEMMA SaveLastOut ==
  ASSUME LInv, NEW u \in Staff, Save(u)
  PROVE  Attached' /\ LastOutCompletes'
<1> DEFINE r == doing[u]
<1>0. TypeOK /\ r \in Requests
  BY DEF LInv, IInv, TypeOK
<1>1. CASE Book(u)
  <2> DEFINE w == IF r.guests THEN [op |-> "invite", meeting |-> r.meeting, slot |-> r.was] ELSE Idle
  <2>1. r.meeting \in Meetings
    BY <1>0, <1>1, KindTellsTheSet DEF Book, Bookings
  <2>2. w.op = "invite" => w.meeting = r.meeting
    BY IdleNotLeaving
  <2>3. /\ r.op = "book" /\ status[r.meeting] = "NONE" /\ Do(u, w)
        /\ status' = [status EXCEPT ![r.meeting] = "SCHEDULED"]
        /\ UNCHANGED <<visit, of, excused>>
    BY <1>1 DEF Book, bookings
  <2>. HIDE DEF w, r
  <2>4. \A m \in Meetings : AllLeft(m)' => AllLeft(m)
    <3>1. Groups(r.meeting) = {}
      BY <1>0, <2>1, <2>3, PlanAssumption DEF LInv, Attached, Groups
    <3>. QED
      BY <1>0, <2>1, <2>3, <3>1 DEF AllLeft, Groups, TypeOK
  <2>5. LastOutCompletes'
    BY <2>3, <2>4, LastOutKept, NotLeaving DEF r
  <2>6. Attached'
    BY <1>0, <2>1, <2>2, <2>3 DEF LInv, Attached, Do, TypeOK
  <2>. QED
    BY <2>5, <2>6
<1>2. CASE Rebook(u)
  <2>1. PICK w : Do(u, w) /\ w.op # "invite"
    BY <1>2, IdleNotLeaving DEF Rebook
  <2>2. r.op = "rebook" /\ UNCHANGED <<status, visit, of, excused>>
    BY <1>2 DEF Rebook, bookings
  <2>. QED
    BY <2>1, <2>2, QuietKept, NotLeaving
<1>3. CASE Close(u) \/ Complete(u)
  <2>1. r.meeting \in Meetings
    BY <1>0, <1>3, KindTellsTheSet DEF Close, Complete, Closings, Lookups
  <2>2. /\ r.op \in {"close", "complete"} /\ Do(u, Idle) /\ UNCHANGED <<visit, of, excused>>
    BY <1>3 DEF Close, Complete, bookings
  <2>3. PICK to \in {"COMPLETED", "NO_SHOW"} : status' = [status EXCEPT ![r.meeting] = to]
    <3>1. r.op = "close" => r.to \in {"COMPLETED", "NO_SHOW"}
      BY <1>0, KindTellsTheSet DEF Closings
    <3>. QED
      BY <1>3, <3>1 DEF Close, Complete
  <2>. HIDE DEF r
  <2>4. \A m \in Meetings : AllLeft(m)' => AllLeft(m) /\ m # r.meeting
    BY <1>0, <2>1, <2>2, <2>3 DEF AllLeft, Groups, TypeOK
  <2>5. \A m \in Meetings : m # r.meeting => ~Leaving(r, m)
    BY <1>0, LeavingMeans
  <2>6. LastOutCompletes'
    BY <2>2, <2>4, <2>5, LastOutKept DEF r
  <2>7. Attached'
    BY <1>0, <2>1, <2>2, <2>3, IdleNotLeaving DEF LInv, Attached, Do, TypeOK
  <2>. QED
    BY <2>6, <2>7
<1>4. CASE ReadGroups(u) \/ NoGroups(u) \/ \E g \in Visits : MoveGroup(u, g)
  <2>1. r.op \in {"move", "uninvite", "moving", "removing"} /\ UNCHANGED <<status, visit, of, excused>>
    BY <1>4 DEF ReadGroups, NoGroups, MoveGroup, meetings, bookings
  <2>2. PICK w : Do(u, w) /\ w.op # "invite"
    <3>1. ASSUME NEW g, MoveGroup(u, g)
          PROVE  Rest(r, g).op # "invite"
      <4>1. r \in Moving
        BY <1>0, <3>1, KindTellsTheSet DEF MoveGroup
      <4>. QED
        BY <4>1, IdleNotLeaving DEF Rest, Moving
    <3>. QED
      BY <1>4, <3>1, IdleNotLeaving DEF ReadGroups, NoGroups, MoveGroup
  <2>. QED
    BY <2>1, <2>2, QuietKept, NotLeaving
<1>5. ASSUME NEW g \in Visits, RemoveGroup(u, g)
      PROVE  Attached' /\ LastOutCompletes'
  <2> DEFINE w == Rest(r, g)
  <2>1. r.op = "removing" /\ Do(u, w)
    BY <1>5 DEF RemoveGroup
  <2>2. w.op # "invite"
    <3>1. r \in Removing
      BY <1>0, <2>1, KindTellsTheSet
    <3>. QED
      BY <3>1, IdleNotLeaving DEF Rest, Removing
  <2>. HIDE DEF w
  <2>3. CASE StillExpected(g)
    <3>1. /\ visit[g] = "EXPECTED" /\ visit' = [visit EXCEPT ![g] = "REMOVED"]
          /\ excused' = IF of[g] = NoMeeting THEN excused ELSE [excused EXCEPT ![of[g]] = TRUE]
          /\ UNCHANGED <<status, of>>
      BY <1>5, <2>3 DEF RemoveGroup, StillExpected, Remove, meetings
    <3>2. \A m \in Meetings : AllLeft(m)' => AllLeft(m)
      <4>1. ASSUME NEW m \in Meetings, ~excused'[m]
            PROVE  of[g] # m /\ ~excused[m]
        BY <1>0, <3>1, <4>1, PlanAssumption DEF TypeOK
      <4>. QED
        BY <1>0, <3>1, <4>1 DEF AllLeft, Groups, TypeOK
    <3>3. LastOutCompletes'
      BY <2>1, <3>2, LastOutKept, NotLeaving
    <3>4. Attached'
      BY <1>0, <2>1, <2>2, <3>1 DEF LInv, Attached, Do, TypeOK
    <3>. QED
      BY <3>3, <3>4
  <2>4. CASE ~StillExpected(g)
    <3>1. UNCHANGED <<status, visit, of, excused>>
      BY <1>5, <2>4 DEF RemoveGroup, meetings, bookings
    <3>. QED
      BY <2>1, <2>2, <3>1, QuietKept, NotLeaving
  <2>. QED
    BY <2>3, <2>4
<1>6. ASSUME NEW g \in Visits, Invite(u, g)
      PROVE  Attached' /\ LastOutCompletes'
  <2>1. r.meeting \in Meetings
    BY <1>0, <1>6, KindTellsTheSet DEF Invite, Moves
  <2>2. /\ r.op = "invite" /\ Do(u, Idle) /\ visit[g] = "NONE"
        /\ visit' = [visit EXCEPT ![g] = "EXPECTED"] /\ of' = [of EXCEPT ![g] = r.meeting]
        /\ UNCHANGED <<status, excused>>
    BY <1>6 DEF Invite, meetings
  <2>3. of[g] = NoMeeting /\ status[r.meeting] # "NONE"
    BY <2>2 DEF LInv, Attached
  <2>. HIDE DEF r
  <2>4. \A m \in Meetings : AllLeft(m)' => AllLeft(m)
    BY <1>0, <2>1, <2>2, <2>3, PlanAssumption DEF AllLeft, Groups, TypeOK
  <2>5. LastOutCompletes'
    BY <2>2, <2>4, LastOutKept, NotLeaving DEF r
  <2>6. Attached'
    BY <1>0, <2>1, <2>2, <2>3, IdleNotLeaving DEF LInv, Attached, Do, TypeOK
  <2>. QED
    BY <2>5, <2>6
<1>7. CASE Arrive(u)
  <2> DEFINE g == r.visit
  <2>1. g \in Visits
    BY <1>0, <1>7, KindTellsTheSet DEF Arrive, Arrivals
  <2>2. /\ r.op = "arrive" /\ Do(u, Idle) /\ visit[g] = "EXPECTED"
        /\ visit' = [visit EXCEPT ![g] = "CHECKED_IN"] /\ UNCHANGED <<status, of, excused>>
    BY <1>7 DEF Arrive, StillExpected, meetings
  <2>. HIDE DEF g
  <2>3. \A m \in Meetings : AllLeft(m)' => AllLeft(m)
    BY <1>0, <2>1, <2>2 DEF AllLeft, Groups, TypeOK
  <2>4. LastOutCompletes'
    BY <2>2, <2>3, LastOutKept, NotLeaving
  <2>5. Attached'
    BY <1>0, <2>1, <2>2, IdleNotLeaving DEF LInv, Attached, Do, TypeOK
  <2>. QED
    BY <2>4, <2>5
<1>8. CASE Count(u)
  <2> DEFINE n == r.meeting
             w == IF status[n] = "SCHEDULED" /\ StillComing(n) = {}
                  THEN [op |-> "complete", meeting |-> n] ELSE Idle
  <2>1. r.op = "count" /\ Do(u, w) /\ UNCHANGED <<status, visit, of, excused>>
    BY <1>8 DEF Count, meetings, bookings
  <2>2. AllLeft(n) => Leaving(w, n)
    BY DEF AllLeft, StillComing, Leaving
  <2>3. w.op # "invite"
    BY IdleNotLeaving
  <2>. HIDE DEF w
  <2>4. \A m \in Meetings : Leaving(r, m) => m = n
    BY <1>0, LeavingMeans
  <2>. HIDE DEF n
  <2>. QED
    BY <2>1, <2>2, <2>3, <2>4, QuietKept
<1>. QED
  BY <1>1, <1>2, <1>3, <1>4, <1>5, <1>6, <1>7, <1>8 DEF Save

\* A request that dies between its two calls excuses the meeting.
LEMMA DropLastOut ==
  ASSUME LInv, NEW u \in Staff, Drop(u)
  PROVE  Attached' /\ LastOutCompletes'
<1> DEFINE r == doing[u]
<1>0. TypeOK /\ r \in Requests
  BY DEF LInv, IInv, TypeOK
<1>1. /\ Do(u, Idle) /\ UNCHANGED <<status, visit, of>>
      /\ excused' = IF r.op \in {"count", "complete"} THEN [excused EXCEPT ![r.meeting] = TRUE]
                    ELSE excused
  BY DEF Drop, meetings, bookings
<1>. HIDE DEF r
<1>2. ASSUME NEW m \in Meetings, ~excused'[m]
      PROVE  ~excused[m] /\ ~Leaving(r, m)
  BY <1>0, <1>1, <1>2, LeavingMeans DEF TypeOK
<1>3. \A m \in Meetings : AllLeft(m)' => AllLeft(m) /\ ~Leaving(r, m)
  BY <1>1, <1>2 DEF AllLeft, Groups
<1>4. LastOutCompletes'
  BY <1>1, <1>3, LastOutKept DEF r
<1>5. Attached'
  BY <1>0, <1>1, IdleNotLeaving DEF LInv, Attached, Do, TypeOK
<1>. QED
  BY <1>4, <1>5

-----------------------------------------------------------------------------
(***************************************************************************)
(* The theorems                                                            *)
(***************************************************************************)
LEMMA InitHolds == Init => IInv
<1>. SUFFICES ASSUME Init PROVE IInv
  OBVIOUS
<1> DEFINE p == CHOOSE q \in Plans : TRUE
<1>1. p \in Plans
  BY PlanAssumption
<1>2. /\ plan = [m \in Meetings |-> p] /\ booked = [g \in Visits |-> Slot(p)]
  BY DEF Init
<1>. HIDE DEF p
<1>3. Slot(p) \in Slots
  BY <1>1, SlotTyped
<1>4. TypeOK
  BY <1>1, <1>2, <1>3, IdleTyped, PlanAssumption DEF Init, TypeOK
<1>5. NoDoubleBooking
  BY DEF Init, NoDoubleBooking
<1>. QED
  BY <1>4, <1>5 DEF IInv

LEMMA NextKeeps == IInv /\ [Next]_vars => IInv' /\ [Kept]_vars
<1>. SUFFICES ASSUME IInv, [Next]_vars PROVE IInv' /\ Kept
  OBVIOUS
<1>1. CASE UNCHANGED vars
  <2>1. IInv'
    BY <1>1 DEF IInv, TypeOK, NoDoubleBooking, vars, meetings, bookings
  <2>. QED
    BY <1>1, <2>1, UnchangedKeeps DEF vars, bookings
<1>2. CASE NextDay
  <2>1. today' \in 1..(LastDay + 1) /\ UNCHANGED <<status, plan, visit, of, booked, excused, doing>>
    BY <1>2, PlanAssumption DEF NextDay, meetings, bookings, IInv, TypeOK
  <2>2. IInv'
    BY <2>1 DEF IInv, TypeOK, NoDoubleBooking
  <2>. QED
    BY <2>1, <2>2, UnchangedKeeps
<1>3. ASSUME NEW u \in Staff, Ask(u)
      PROVE  IInv' /\ Kept
  <2>1. CASE \E m \in Meetings, p \in Plans :
               \/ \E guests \in BOOLEAN : CreateAppointment(u, m, p, guests)
               \/ UpdateAppointment(u, m, p)
    BY <2>1, AskKeeps, UnchangedKeeps
  <2>2. CASE \E m \in Meetings :
               \/ AddVisitorGroup(u, m)
               \/ \E to \in {"COMPLETED", "NO_SHOW"} : SetOutcome(u, m, to)
    BY <2>2, PlanAssumption, AskKeeps, UnchangedKeeps
  <2>3. CASE \E m \in Meetings : CancelAppointment(u, m)
    BY <2>3, EndKeeps, UnchangedKeeps DEF CancelAppointment, bookings
  <2>4. CASE \E g \in Visits, p \in Plans : BookVisit(u, g, p) \/ UpdateBooking(u, g, p)
    BY <2>4, GateKeeps
  <2>5. CASE \E g \in Visits :
               RemoveVisitorGroup(u, g) \/ CancelVisit(u, g) \/ CheckIn(u, g) \/ CheckOut(u, g)
    BY <2>5, PlanAssumption, GateKeeps
  <2>6. CASE PurgeStaleBookings(u)
    <3>1. PICK g \in Visits, p \in Plans : TRUE
      BY <2>6, PlanAssumption DEF PurgeStaleBookings
    <3>. QED
      BY <2>6, <3>1, GateKeeps
  <2>. QED
    BY <1>3, <2>1, <2>2, <2>3, <2>4, <2>5, <2>6 DEF Ask
<1>4. ASSUME NEW u \in Staff, Save(u)
      PROVE  IInv' /\ Kept
  <2>1. CASE Book(u) \/ Rebook(u)
    BY <2>1, BookKeeps, UnchangedKeeps DEF Book, Rebook, bookings
  <2>2. CASE Close(u) \/ Complete(u)
    BY <2>2, EndKeeps, UnchangedKeeps DEF Close, Complete, bookings
  <2>3. CASE \/ ReadGroups(u) \/ NoGroups(u)
             \/ \E g \in Visits : MoveGroup(u, g) \/ RemoveGroup(u, g) \/ Invite(u, g)
    BY <2>3, GroupsKeep
  <2>4. CASE Arrive(u) \/ Count(u)
    BY <2>4, SaveVisitKeeps
  <2>. QED
    BY <1>4, <2>1, <2>2, <2>3, <2>4 DEF Save
<1>5. ASSUME NEW u \in Staff, Drop(u)
      PROVE  IInv' /\ Kept
  BY <1>5, SaveVisitKeeps
<1>. QED
  BY <1>1, <1>2, <1>3, <1>4, <1>5 DEF Next

LEMMA AlwaysIInv == Spec => []IInv
<1>1. IInv /\ [Next]_vars => IInv'
  BY NextKeeps
<1>. QED
  BY <1>1, InitHolds, PTL DEF Spec

\* Every variable keeps its type, the requests in flight with theirs.
THEOREM TypeCorrect == Spec => []TypeOK
<1>1. IInv => TypeOK
  BY DEF IInv
<1>. QED
  BY <1>1, AlwaysIInv, PTL

\* No host and no room has two meetings at one time, whoever books at once.
THEOREM PlacesExclusive == Spec => []NoDoubleBooking
<1>1. IInv => NoDoubleBooking
  BY DEF IInv
<1>. QED
  BY <1>1, AlwaysIInv, PTL

\* No visitor on the premises is taken off the list, by anybody.
THEOREM VisitorsKept == Spec => PresentVisitorsKept
<1>1. Kept <=> \A g \in Visits :
                /\ visit[g] = "CHECKED_IN" => visit'[g] \in {"CHECKED_IN", "CHECKED_OUT"}
                /\ visit'[g] = "CHECKED_OUT" => visit[g] \in {"CHECKED_IN", "CHECKED_OUT"}
  BY DEF Kept
<1>. QED
  BY <1>1, AlwaysIInv, NextKeeps, PTL DEF Spec, PresentVisitorsKept

LEMMA AlwaysLInv == Spec => []LInv
<1>1. Init => LInv
  <2> SUFFICES ASSUME Init PROVE LInv
    OBVIOUS
  <2>1. IInv
    BY InitHolds
  <2>2. Attached
    BY IdleNotLeaving DEF Init, Attached
  <2>3. LastOutCompletes
    BY PlanAssumption DEF Init, LastOutCompletes
  <2>. QED
    BY <2>1, <2>2, <2>3 DEF LInv
<1>2. LInv /\ [Next]_vars => LInv'
  <2> SUFFICES ASSUME LInv, [Next]_vars PROVE LInv'
    OBVIOUS
  <2>1. IInv'
    BY NextKeeps DEF LInv
  <2>2. CASE NextDay \/ UNCHANGED vars
    <3>1. UNCHANGED <<status, visit, of, excused, doing>>
      BY <2>2 DEF NextDay, vars, meetings, bookings
    <3>2. Attached' /\ LastOutCompletes'
      BY <3>1 DEF LInv, Attached, LastOutCompletes, Groups
    <3>. QED
      BY <2>1, <3>2 DEF LInv
  <2>3. CASE \E u \in Staff : Ask(u) \/ Save(u) \/ Drop(u)
    BY <2>1, <2>3, AskLastOut, SaveLastOut, DropLastOut DEF LInv
  <2>. QED
    BY <2>2, <2>3 DEF Next
<1>. QED
  BY <1>1, <1>2, PTL DEF Spec

\* checkOutVisit: of any number of groups that check out at once, one will
\* find that it was the last and complete the meeting.
THEOREM LastGroupCompletes == Spec => []LastOutCompletes
<1>1. LInv => LastOutCompletes
  BY DEF LInv
<1>. QED
  BY <1>1, AlwaysLInv, PTL
=============================================================================
