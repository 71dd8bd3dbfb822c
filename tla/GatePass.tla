------------------------------ MODULE GatePass ------------------------------
(***************************************************************************)
(* Passes through the gate: employee exit passes, road test permits of one *)
(* workshop vehicle, and contractor passes with their daily attendance.    *)
(*                                                                         *)
(* Every operation reads the pass, decides, and saves with a claim: an     *)
(* update that carries the status (or the time) it has read. Signing a     *)
(* contractor in and opening a road test have no such claim. A pass and    *)
(* its attendance are read in one step: a pass never returns to a status   *)
(* it has left, so a change between the two reads fails the claim anyway.  *)
(***************************************************************************)
EXTENDS Integers, Sequences

CONSTANTS
  Staff,       \* people, each with one request in flight
  Heads,       \* department heads
  Headquarters,\* people whose requests are decided above the branch
  Managers,    \* the branch's Managers
  Masters,     \* the executive and the platform team
  Passes,      \* passes and permits that may be asked for
  Nobody,
  MaxKm,       \* highest odometer reading (a bound)
  MaxMore,     \* most time ever added to one absence (a bound)
  MaxRows      \* attendance rows of one contractor pass (a bound)

ASSUME StaffAssumption ==
  /\ Nobody \notin Staff
  /\ Heads \subseteq Staff /\ Headquarters \subseteq Staff
  /\ Managers \subseteq Staff /\ Masters \subseteq Staff
ASSUME BoundAssumption == MaxKm \in Nat /\ MaxMore \in Nat /\ MaxRows \in Nat

VARIABLES
  kind,        \* NONE: not asked for yet
  by,          \* requestedById
  status,
  head,        \* headApprovedById (exit pass)
  manager,     \* managerApprovedById
  returns,     \* ExitPass.returning
  away,        \* somebody or the vehicle has gone out on it (gateOutAt)
  added,       \* time added to expectedReturnAt / expectedDurationMinutes
  granted,     \* extra time in the audit log
  outKm,       \* startOdometer of a road test
  rows,        \* ContractorAttendance: TRUE while not signed out
  mileage,     \* CustomerVehicle.mileage
  doing

papers == <<kind, by, status, head, manager, returns>>
gate   == <<away, outKm, added, granted, rows, mileage>>
vars   == <<papers, gate, doing>>

Kinds    == {"EXIT", "ROAD", "CONTRACTOR"}
Statuses == {"PENDING_HEAD", "PENDING_MANAGER", "APPROVED", "DECLINED", "CANCELLED",
             "OUT", "RETURNED", "CLOSED", "REVOKED"}
Signs    == SUBSET {"head", "manager"}
Idle     == [op |-> "idle"]
Moves      == [op : {"move"}, pass : Passes, from : Statuses, to : Statuses, sign : Signs, km : 0..MaxKm]
Extensions == [op : {"extend"}, pass : Passes, had : 0..MaxMore, more : 1..MaxMore]
Drives     == [op : {"drive"}, pass : Passes]
Raises     == [op : {"raise"}, km : 0..MaxKm]
SignIns    == [op : {"sign in"}, pass : Passes]
SignOuts   == [op : {"sign out"}, pass : Passes, row : Nat]
Requests   == {Idle} \cup Moves \cup Extensions \cup Drives \cup Raises \cup SignIns \cup SignOuts

TypeOK ==
  /\ kind \in [Passes -> Kinds \cup {"NONE"}]
  /\ by \in [Passes -> Staff \cup {Nobody}]
  /\ status \in [Passes -> Statuses \cup {"NONE"}]
  /\ head \in [Passes -> Staff \cup {Nobody}]
  /\ manager \in [Passes -> Staff \cup {Nobody}]
  /\ returns \in [Passes -> BOOLEAN]
  /\ away \in [Passes -> BOOLEAN]
  /\ outKm \in [Passes -> 0..MaxKm]
  /\ added \in [Passes -> 0..MaxMore]
  /\ granted \in [Passes -> 0..MaxMore]
  /\ rows \in [Passes -> Seq(BOOLEAN)]
  /\ mileage \in 0..MaxKm
  /\ doing \in [Staff -> Requests]

-----------------------------------------------------------------------------
(***************************************************************************)
(* Who decides                                                             *)
(***************************************************************************)
\* ownApproverRole: who approves what they ask for themselves.
OwnApprovers == Managers \cup Masters

SeniorApprovers(x) == Masters \ {x}

ManagerApprovers(x) ==
  IF x \in OwnApprovers THEN {x}
  ELSE IF x \in Headquarters \/ Managers = {} THEN SeniorApprovers(x)
  ELSE Managers

HeadApprovers(x) ==
  IF Heads \ {x} # {} THEN Heads \ {x}
  ELSE IF x \in Headquarters THEN SeniorApprovers(x)
  ELSE ManagerApprovers(x)

\* Whether u may decide p now: nobody decides their own request, save who
\* approves their own.
\*
\* Fault: the requester is not looked at.
AnyApprover(u, p) ==
  \/ status[p] = "PENDING_HEAD" /\ u \in Heads \cup Masters
  \/ status[p] = "PENDING_MANAGER" /\ u \in Managers \cup Masters \cup Heads
MayDecide(u, p) ==
  IF u = by[p] THEN u \in OwnApprovers
  ELSE \/ u \in Masters
       \/ status[p] = "PENDING_HEAD" /\ u \in HeadApprovers(by[p])
       \/ status[p] = "PENDING_MANAGER" /\ u \in ManagerApprovers(by[p])

-----------------------------------------------------------------------------
Init ==
  /\ kind = [p \in Passes |-> "NONE"]
  /\ by = [p \in Passes |-> Nobody]
  /\ status = [p \in Passes |-> "NONE"]
  /\ head = [p \in Passes |-> Nobody]
  /\ manager = [p \in Passes |-> Nobody]
  /\ returns = [p \in Passes |-> FALSE]
  /\ away = [p \in Passes |-> FALSE]
  /\ outKm = [p \in Passes |-> 0]
  /\ added = [p \in Passes |-> 0]
  /\ granted = [p \in Passes |-> 0]
  /\ rows = [p \in Passes |-> <<>>]
  /\ mileage = 0
  /\ doing = [u \in Staff |-> Idle]

Start(u, r) ==
  /\ doing[u] = Idle
  /\ doing' = [doing EXCEPT ![u] = r]
  /\ UNCHANGED <<papers, gate>>

Done(u) == doing' = [doing EXCEPT ![u] = Idle]

\* A new pass in status s, signed by its requester for the steps in sign.
Record(u, p, k, s, sign, back) ==
  /\ kind[p] = "NONE"
  /\ kind' = [kind EXCEPT ![p] = k]
  /\ by' = [by EXCEPT ![p] = u]
  /\ status' = [status EXCEPT ![p] = s]
  /\ head' = [head EXCEPT ![p] = IF "head" \in sign THEN u ELSE Nobody]
  /\ manager' = [manager EXCEPT ![p] = IF "manager" \in sign THEN u ELSE Nobody]
  /\ returns' = [returns EXCEPT ![p] = back]
  /\ UNCHANGED gate

-----------------------------------------------------------------------------
(***************************************************************************)
(* Asking.  Nothing is approved on request in an assisted session.         *)
(***************************************************************************)
CreateExitPass(u, p, assisted) ==
  LET own == u \in OwnApprovers /\ ~assisted
      s   == IF own THEN "APPROVED"
             ELSE IF u \in Heads \cup Headquarters
                  THEN "PENDING_MANAGER" ELSE "PENDING_HEAD"
      sign == IF own THEN {"head", "manager"} ELSE IF u \in Heads THEN {"head"} ELSE {}
  IN /\ doing[u] = Idle
     /\ \E back \in BOOLEAN : Record(u, p, "EXIT", s, sign, back)
     /\ UNCHANGED doing

\* Contractor passes: requested by the front desk too, for any host.
RequestContractorPass(u, p, assisted) ==
  LET own == u \in OwnApprovers /\ ~assisted
  IN /\ doing[u] = Idle
     /\ Record(u, p, "CONTRACTOR", IF own THEN "APPROVED" ELSE "PENDING_MANAGER",
               IF own THEN {"manager"} ELSE {}, FALSE)
     /\ UNCHANGED doing

\* requestRoadTest looks for an open permit of the vehicle, then creates one.
RoadTestOpen == \E p \in Passes : kind[p] = "ROAD" /\ status[p] \in {"PENDING_MANAGER", "APPROVED", "OUT"}

AskRoadTest(u, p) ==
  /\ kind[p] = "NONE"
  /\ ~RoadTestOpen
  /\ Start(u, [op |-> "drive", pass |-> p])

CreateRoadTest(u, assisted) ==
  LET own == u \in OwnApprovers /\ ~assisted
  IN /\ doing[u].op = "drive"
     /\ Record(u, doing[u].pass, "ROAD", IF own THEN "APPROVED" ELSE "PENDING_MANAGER",
               IF own THEN {"manager"} ELSE {}, FALSE)
     /\ Done(u)

-----------------------------------------------------------------------------
(***************************************************************************)
(* Deciding, withdrawing, and the gate: what each request has read.        *)
(***************************************************************************)
Move(p, to, sign, km) ==
  [op |-> "move", pass |-> p, from |-> status[p], to |-> to, sign |-> sign, km |-> km]

Decline(u, p) ==
  /\ status[p] \in {"PENDING_HEAD", "PENDING_MANAGER"}
  /\ MayDecide(u, p) /\ u # by[p]
  /\ Start(u, Move(p, "DECLINED", {}, 0))

\* A head who is also the Manager, and who approves their own, signs both steps.
Approve(u, p) ==
  LET atHead == status[p] = "PENDING_HEAD"
      both   == atHead /\ (u = by[p] \/ u \in ManagerApprovers(by[p]))
  IN /\ status[p] \in {"PENDING_HEAD", "PENDING_MANAGER"}
     /\ MayDecide(u, p)
     /\ Start(u, IF atHead /\ ~both THEN Move(p, "PENDING_MANAGER", {"head"}, 0)
                 ELSE Move(p, "APPROVED", IF both THEN {"head", "manager"} ELSE {"manager"}, 0))

\* Who may cancel differs per kind; a contractor team must not be on site.
Cancel(u, p) ==
  /\ status[p] \in {"PENDING_HEAD", "PENDING_MANAGER", "APPROVED"}
  /\ CASE kind[p] = "EXIT"       -> u = by[p]
       [] kind[p] = "ROAD"       -> u = by[p] \/ u \in OwnApprovers
       [] kind[p] = "CONTRACTOR" -> \A i \in DOMAIN rows[p] : ~rows[p][i]
  /\ Start(u, Move(p, "CANCELLED", {}, 0))

Revoke(u, p) ==
  /\ kind[p] = "CONTRACTOR" /\ status[p] = "APPROVED"
  /\ u \in OwnApprovers
  /\ \A i \in DOMAIN rows[p] : ~rows[p][i]
  /\ Start(u, Move(p, "REVOKED", {}, 0))

\* The reading may not be below the vehicle's last one, nor at the return below
\* the one at the exit.
GateOut(u, p) ==
  /\ kind[p] \in {"EXIT", "ROAD"} /\ status[p] = "APPROVED"
  /\ IF kind[p] = "EXIT"
     THEN Start(u, Move(p, IF returns[p] THEN "OUT" ELSE "CLOSED", {}, 0))
     ELSE \E km \in mileage..MaxKm : Start(u, Move(p, "OUT", {}, km))

GateIn(u, p) ==
  /\ kind[p] \in {"EXIT", "ROAD"} /\ status[p] = "OUT"
  /\ IF kind[p] = "EXIT"
     THEN Start(u, Move(p, "RETURNED", {}, 0))
     ELSE \E km \in outKm[p]..MaxKm : Start(u, Move(p, "RETURNED", {}, km))

Extend(u, p) ==
  /\ status[p] = "OUT"
  /\ \E more \in 1..(MaxMore - added[p]) :
       Start(u, [op |-> "extend", pass |-> p, had |-> added[p], more |-> more])

SignIn(u, p) ==
  /\ kind[p] = "CONTRACTOR" /\ status[p] = "APPROVED"
  /\ \A i \in DOMAIN rows[p] : ~rows[p][i]
  /\ Start(u, [op |-> "sign in", pass |-> p])

\* Whatever the pass's status is by now.
SignOut(u, p) ==
  \E i \in DOMAIN rows[p] :
    /\ rows[p][i]
    /\ Start(u, [op |-> "sign out", pass |-> p, row |-> i])

-----------------------------------------------------------------------------
(***************************************************************************)
(* Saving                                                                  *)
(***************************************************************************)
\* The claim of an update: the status is still the one that was read.
\*
\* Fault: the claim is on the record's id only.
AnyStatus(r) == TRUE
StillAsRead(r) == status[r.pass] = r.from

\* A returned vehicle's reading is saved by a second call, after the permit.
SaveMove(u) ==
  LET r == doing[u]
      p == r.pass
  IN /\ r.op = "move"
     /\ StillAsRead(r)
     /\ status' = [status EXCEPT ![p] = r.to]
     /\ head' = [head EXCEPT ![p] = IF "head" \in r.sign THEN u ELSE @]
     /\ manager' = [manager EXCEPT ![p] = IF "manager" \in r.sign THEN u ELSE @]
     /\ away' = [away EXCEPT ![p] = @ \/ r.to \in {"OUT", "CLOSED"}]
     /\ outKm' = [outKm EXCEPT ![p] = IF r.to = "OUT" THEN r.km ELSE @]
     /\ IF kind[p] = "ROAD" /\ r.to = "RETURNED"
        THEN doing' = [doing EXCEPT ![u] = [op |-> "raise", km |-> r.km]]
        ELSE Done(u)
     /\ UNCHANGED <<kind, by, returns, added, granted, rows, mileage>>

\* Only ever raises the recorded mileage.
\*
\* Fault: saves what the officer entered.
Entered(km, old) == km
Raised(km, old) == IF old < km THEN km ELSE old

SaveMileage(u) ==
  /\ doing[u].op = "raise"
  /\ mileage' = Raised(doing[u].km, mileage)
  /\ Done(u)
  /\ UNCHANGED <<papers, away, outKm, added, granted, rows>>

\* The claim of an extension carries the time it adds to.
\*
\* Fault: only that they are still out.
StillOut(r) == status[r.pass] = "OUT"
StillOutAsRead(r) == status[r.pass] = "OUT" /\ added[r.pass] = r.had

SaveExtend(u) ==
  LET r == doing[u]
      p == r.pass
  IN /\ r.op = "extend"
     /\ StillOutAsRead(r)
     /\ added' = [added EXCEPT ![p] = r.had + r.more]
     /\ granted' = [granted EXCEPT ![p] = @ + r.more]
     /\ Done(u)
     /\ UNCHANGED <<papers, away, outKm, rows, mileage>>

SaveSignIn(u) ==
  LET p == doing[u].pass
  IN /\ doing[u].op = "sign in"
     /\ Len(rows[p]) < MaxRows
     /\ rows' = [rows EXCEPT ![p] = Append(@, TRUE)]
     /\ Done(u)
     /\ UNCHANGED <<papers, away, outKm, added, granted, mileage>>

SaveSignOut(u) ==
  LET r == doing[u]
  IN /\ r.op = "sign out"
     /\ rows[r.pass][r.row]
     /\ rows' = [rows EXCEPT ![r.pass][r.row] = FALSE]
     /\ Done(u)
     /\ UNCHANGED <<papers, away, outKm, added, granted, mileage>>

\* The claim is refused, or the request dies before its next call.
Drop(u) ==
  /\ doing[u] # Idle
  /\ Done(u)
  /\ UNCHANGED <<papers, gate>>

Save(u) == SaveMove(u) \/ SaveMileage(u) \/ SaveExtend(u) \/ SaveSignIn(u) \/ SaveSignOut(u)

Next ==
  \E u \in Staff :
    \/ \E p \in Passes, assisted \in BOOLEAN :
         CreateExitPass(u, p, assisted) \/ RequestContractorPass(u, p, assisted)
    \/ \E assisted \in BOOLEAN : CreateRoadTest(u, assisted)
    \/ \E p \in Passes :
         \/ AskRoadTest(u, p) \/ Decline(u, p) \/ Approve(u, p) \/ Cancel(u, p) \/ Revoke(u, p)
         \/ GateOut(u, p) \/ GateIn(u, p) \/ Extend(u, p) \/ SignIn(u, p) \/ SignOut(u, p)
    \/ Save(u)
    \/ Drop(u)

Spec == Init /\ [][Next]_vars

-----------------------------------------------------------------------------
(***************************************************************************)
(* Properties                                                              *)
(***************************************************************************)
\* Whoever went out, and every team let in, did so on an approval of somebody
\* who decides over the requester or decides their own, and plain staff went
\* out only with both steps signed: decisions of two approvers interleave
\* with each other and with a withdrawal.
LeftOnApproval ==
  \A p \in Passes : away[p] \/ rows[p] # <<>> =>
    /\ manager[p] \in Staff
    /\ manager[p] = by[p] => by[p] \in OwnApprovers
    /\ kind[p] = "EXIT" /\ by[p] \notin Headquarters =>
         /\ head[p] \in Staff
         /\ head[p] = by[p] => by[p] \in Heads \cup OwnApprovers

\* A declined pass was never approved and, like a cancelled one, let nobody
\* out: a decision, a withdrawal and the officer at the gate who have read
\* the same status cannot all be saved.
ClosedNeverLeft ==
  \A p \in Passes :
    /\ status[p] = "DECLINED" => manager[p] = Nobody
    /\ status[p] \in {"DECLINED", "CANCELLED"} => ~away[p]
    /\ status[p] = "REVOKED" => manager[p] # Nobody

\* The time somebody is expected back covers every extension in the audit
\* log: two officers who extend at once never lose one.
ExtensionsAddUp == \A p \in Passes : added[p] = granted[p]

\* The reading of a returning vehicle, saved after its permit is closed and
\* perhaps after the next road test is back, never lowers the mileage.
MileageNeverFalls == [][mileage' >= mileage]_vars
=============================================================================
