--------------------------- MODULE GatePassProofs ---------------------------
(***************************************************************************)
(* What holds of the gate's passes for any staff, any pass and any number  *)
(* of requests in flight.  The argument: a claim fixes the status it moves *)
(* from, so a request in flight may stand for a move that was legal when   *)
(* it was read (LegalMove), and is legal still when its claim succeeds.    *)
(***************************************************************************)
EXTENDS GatePass, SequenceTheorems, TLAPS

\* The approvals a pass has, by the status it is in.
Approved == {"APPROVED", "OUT", "RETURNED", "CLOSED", "REVOKED"}
Pending  == {"PENDING_HEAD", "PENDING_MANAGER"}

Signed(p) ==
  /\ kind[p] = "NONE" <=> status[p] = "NONE"
  /\ kind[p] # "NONE" => by[p] \in Staff
  /\ status[p] \in Approved => manager[p] \in Staff
  /\ status[p] \in {"NONE", "PENDING_HEAD", "PENDING_MANAGER", "DECLINED"} => manager[p] = Nobody
  /\ manager[p] \in Staff /\ manager[p] = by[p] => by[p] \in OwnApprovers
  /\ kind[p] = "EXIT" /\ by[p] \notin Headquarters /\ status[p] \in Approved \cup {"PENDING_MANAGER"}
       => head[p] \in Staff
  /\ kind[p] = "EXIT" /\ head[p] \in Staff /\ head[p] = by[p] => by[p] \in Heads \cup OwnApprovers

SignedSoFar == \A p \in Passes : Signed(p)

UsedAfterApproval ==
  \A p \in Passes :
    /\ away[p] => status[p] \in {"OUT", "RETURNED", "CLOSED"} /\ kind[p] # "CONTRACTOR"
    /\ rows[p] # <<>> => manager[p] \in Staff /\ kind[p] = "CONTRACTOR"

\* A move in flight was legal from the status it was read at.
LegalMove(u, r) ==
  LET p == r.pass IN
  /\ kind[p] # "NONE"
  /\ \/ /\ r.from = "PENDING_HEAD" /\ r.to = "PENDING_MANAGER"
        /\ r.sign = {"head"} /\ u # by[p]
     \/ /\ r.from = "PENDING_HEAD" /\ r.to = "APPROVED"
        /\ r.sign = {"head", "manager"} /\ (u = by[p] => u \in OwnApprovers)
     \/ /\ r.from = "PENDING_MANAGER" /\ r.to = "APPROVED"
        /\ r.sign = {"manager"} /\ (u = by[p] => u \in OwnApprovers)
     \/ r.from \in Pending /\ r.to = "DECLINED" /\ r.sign = {}
     \/ r.from \in Pending \cup {"APPROVED"} /\ r.to = "CANCELLED" /\ r.sign = {}
     \/ r.from = "APPROVED" /\ r.to = "REVOKED" /\ r.sign = {} /\ kind[p] = "CONTRACTOR"
     \/ r.from = "APPROVED" /\ r.to \in {"OUT", "CLOSED"} /\ r.sign = {} /\ kind[p] # "CONTRACTOR"
     \/ r.from = "OUT" /\ r.to = "RETURNED" /\ r.sign = {} /\ kind[p] # "CONTRACTOR"

\* What the request u has in flight stands for.
Legal(u) ==
  /\ doing[u].op = "move" => LegalMove(u, doing[u])
  /\ doing[u].op = "sign in" =>
       manager[doing[u].pass] \in Staff /\ kind[doing[u].pass] = "CONTRACTOR"
  /\ doing[u].op = "extend" => doing[u].had + doing[u].more <= MaxMore

InFlightLegal == \A u \in Staff : Legal(u)

IInv == TypeOK /\ ExtensionsAddUp /\ SignedSoFar /\ UsedAfterApproval /\ InFlightLegal

-----------------------------------------------------------------------------
(***************************************************************************)
(* Requests in flight                                                      *)
(***************************************************************************)
LEMMA OpTellsTheKind ==
  ASSUME NEW w
  PROVE  /\ w = Idle => w.op = "idle"
         /\ w \in Moves => w.op = "move"
         /\ w \in Extensions => w.op = "extend"
         /\ w \in Drives => w.op = "drive"
         /\ w \in Raises => w.op = "raise"
         /\ w \in SignIns => w.op = "sign in"
         /\ w \in SignOuts => w.op = "sign out"
<1>1. w = Idle => w.op = "idle"
  BY DEF Idle
<1>2. w \in Moves => w.op = "move"
  BY DEF Moves
<1>3. w \in Extensions => w.op = "extend"
  BY DEF Extensions
<1>4. w \in Drives => w.op = "drive"
  BY DEF Drives
<1>5. w \in Raises => w.op = "raise"
  BY DEF Raises
<1>6. w \in SignIns => w.op = "sign in"
  BY DEF SignIns
<1>7. w \in SignOuts => w.op = "sign out"
  BY DEF SignOuts
<1>. QED
  BY <1>1, <1>2, <1>3, <1>4, <1>5, <1>6, <1>7

LEMMA KindTellsTheSet ==
  ASSUME NEW w \in Requests
  PROVE  /\ w.op = "move" => w \in Moves
         /\ w.op = "extend" => w \in Extensions
         /\ w.op = "drive" => w \in Drives
         /\ w.op = "raise" => w \in Raises
         /\ w.op = "sign in" => w \in SignIns
         /\ w.op = "sign out" => w \in SignOuts
<1>1. \/ w = Idle \/ w \in Moves \/ w \in Extensions \/ w \in Drives
      \/ w \in Raises \/ w \in SignIns \/ w \in SignOuts
  BY Zenon DEF Requests
<1>. QED
  BY <1>1, OpTellsTheKind

LEMMA DoingTyped ==
  ASSUME NEW u \in Staff, NEW w \in Requests, doing \in [Staff -> Requests],
         doing' = [doing EXCEPT ![u] = w]
  PROVE  doing' \in [Staff -> Requests]
OBVIOUS

LEMMA IdleTyped == Idle \in Requests /\ Idle.op = "idle"
BY DEF Requests, Idle

\* The rest of the system, when only doing changes.
LEMMA StartKeeps ==
  ASSUME IInv, NEW u \in Staff, NEW w \in Requests, Start(u, w),
         w.op = "move" => LegalMove(u, w),
         w.op = "sign in" => manager[w.pass] \in Staff /\ kind[w.pass] = "CONTRACTOR",
         w.op = "extend" => w.had + w.more <= MaxMore
  PROVE  IInv'
<1>1. TypeOK'
  BY DoingTyped DEF IInv, TypeOK, Start, papers, gate
<1>2. ExtensionsAddUp' /\ SignedSoFar' /\ UsedAfterApproval'
  BY DEF IInv, ExtensionsAddUp, SignedSoFar, Signed, UsedAfterApproval, Start, papers, gate
<1>3. InFlightLegal'
  <2>. SUFFICES ASSUME NEW v \in Staff
       PROVE  Legal(v)'
    BY DEF InFlightLegal
  <2>1. doing'[v] = IF v = u THEN w ELSE doing[v]
    BY DEF Start, IInv, TypeOK
  <2>2. UNCHANGED <<kind, by, manager>>
    BY DEF Start, papers
  <2>3. CASE v = u
    <3>1. doing'[v] = w
      BY <2>1, <2>3
    <3>. QED
      BY <2>2, <2>3, <3>1 DEF Legal, LegalMove
  <2>4. CASE v # u
    <3>1. doing'[v] = doing[v] /\ Legal(v)
      BY <2>1, <2>4 DEF IInv, InFlightLegal
    <3>. QED
      BY <2>2, <3>1 DEF Legal, LegalMove
  <2>. QED
    BY <2>3, <2>4
<1>. QED
  BY <1>1, <1>2, <1>3 DEF IInv

\* A request that ends leaves what the others have in flight legal.
LEMMA OthersStayLegal ==
  ASSUME IInv, NEW u \in Staff, NEW w \in Requests, w.op \notin {"move", "sign in", "extend"},
         doing' = [doing EXCEPT ![u] = w],
         \A p \in Passes : kind[p] # "NONE" => kind'[p] = kind[p] /\ by'[p] = by[p],
         \A p \in Passes : manager[p] \in Staff => manager'[p] \in Staff
  PROVE  InFlightLegal'
<1>. SUFFICES ASSUME NEW v \in Staff
     PROVE  Legal(v)'
  BY DEF InFlightLegal
<1>1. doing'[v] = IF v = u THEN w ELSE doing[v]
  BY DEF IInv, TypeOK
<1>2. CASE v = u
  BY <1>1, <1>2 DEF Legal
<1>3. CASE v # u
  <2>1. doing'[v] = doing[v] /\ Legal(v) /\ doing[v] \in Requests
    BY <1>1, <1>3 DEF IInv, InFlightLegal, TypeOK
  <2>2. CASE doing[v].op = "move"
    <3>1. doing[v].pass \in Passes
      BY <2>1, <2>2, KindTellsTheSet DEF Moves
    <3>. QED
      BY <2>1, <2>2, <3>1 DEF Legal, LegalMove
  <2>3. CASE doing[v].op = "sign in"
    <3>1. doing[v].pass \in Passes
      BY <2>1, <2>3, KindTellsTheSet DEF SignIns
    <3>2. kind[doing[v].pass] = "CONTRACTOR" /\ manager[doing[v].pass] \in Staff
      BY <2>1, <2>3 DEF Legal
    <3>. QED
      BY <2>1, <2>3, <3>1, <3>2 DEF Legal
  <2>4. CASE doing[v].op \notin {"move", "sign in"}
    BY <2>1, <2>4 DEF Legal
  <2>. QED
    BY <2>2, <2>3, <2>4
<1>. QED
  BY <1>2, <1>3

\* The parts of IInv about the passes, when only doing changes.
LEMMA IdleKeeps ==
  ASSUME IInv, NEW u \in Staff, Done(u), UNCHANGED <<papers, gate>>
  PROVE  IInv'
<1>1. doing' \in [Staff -> Requests]
  BY DoingTyped, IdleTyped DEF Done, IInv, TypeOK
<1>2. InFlightLegal'
  BY OthersStayLegal, IdleTyped DEF Done, papers
<1>. QED
  BY <1>1, <1>2 DEF IInv, TypeOK, ExtensionsAddUp, SignedSoFar, Signed, UsedAfterApproval, papers, gate

-----------------------------------------------------------------------------
(***************************************************************************)
(* Asking                                                                  *)
(***************************************************************************)
\* What u may sign of a new pass of kind k, and the status that gives it.
Proper(u, k, s, sign) ==
  /\ k \in Kinds /\ s \in {"PENDING_HEAD", "PENDING_MANAGER", "APPROVED"} /\ sign \in Signs
  /\ "manager" \in sign <=> s = "APPROVED"
  /\ "manager" \in sign => u \in OwnApprovers
  /\ k = "EXIT" /\ s # "PENDING_HEAD" /\ u \notin Headquarters => "head" \in sign
  /\ "head" \in sign => u \in Heads \cup OwnApprovers

LEMMA RecordKeeps ==
  ASSUME IInv, NEW u \in Staff, NEW p \in Passes, NEW k, NEW s, NEW sign, NEW back \in BOOLEAN,
         Record(u, p, k, s, sign, back), Proper(u, k, s, sign), Done(u)
  PROVE  IInv'
<1>. USE DEF Proper
<1>0. doing' = [doing EXCEPT ![u] = Idle] /\ Idle \in Requests /\ Idle.op = "idle"
  BY IdleTyped DEF Done
<1>1. /\ kind' = [kind EXCEPT ![p] = k] /\ by' = [by EXCEPT ![p] = u]
      /\ status' = [status EXCEPT ![p] = s] /\ kind[p] = "NONE" /\ UNCHANGED gate
      /\ head' = [head EXCEPT ![p] = IF "head" \in sign THEN u ELSE Nobody]
      /\ manager' = [manager EXCEPT ![p] = IF "manager" \in sign THEN u ELSE Nobody]
      /\ returns' = [returns EXCEPT ![p] = back]
  BY DEF Record
<1>2. TypeOK'
  BY <1>0, <1>1, DoingTyped DEF IInv, TypeOK, gate, Kinds, Statuses
<1>3. ExtensionsAddUp'
  BY <1>1 DEF IInv, ExtensionsAddUp, gate
<1>4. status[p] = "NONE" /\ manager[p] = Nobody /\ ~away[p] /\ rows[p] = <<>>
  BY <1>1, StaffAssumption DEF IInv, SignedSoFar, Signed, UsedAfterApproval
<1>5. SignedSoFar'
  <2>. SUFFICES ASSUME NEW q \in Passes PROVE Signed(q)'
    BY DEF SignedSoFar
  <2>. USE <1>1, <1>4, StaffAssumption DEF Signed, Approved, Kinds
  <2>1. CASE q = p
    BY <2>1 DEF IInv, TypeOK
  <2>2. CASE q # p
    BY <2>2 DEF IInv, TypeOK, SignedSoFar
  <2>. QED
    BY <2>1, <2>2
<1>6. UsedAfterApproval'
  BY <1>1, <1>4 DEF IInv, TypeOK, UsedAfterApproval, gate
<1>7. InFlightLegal'
  BY <1>0, <1>1, <1>4, StaffAssumption, OthersStayLegal DEF IInv, TypeOK
<1>. QED
  BY <1>2, <1>3, <1>5, <1>6, <1>7 DEF IInv

LEMMA SignsExist ==
  /\ {} \in Signs /\ {"head"} \in Signs /\ {"manager"} \in Signs /\ {"head", "manager"} \in Signs
BY DEF Signs

LEMMA AskKeeps ==
  ASSUME IInv, NEW u \in Staff, NEW p \in Passes, NEW assisted \in BOOLEAN,
         CreateExitPass(u, p, assisted) \/ RequestContractorPass(u, p, assisted)
  PROVE  IInv'
<1>1. Done(u)
  BY DEF CreateExitPass, RequestContractorPass, Done, IInv, TypeOK
<1>2. CASE CreateExitPass(u, p, assisted)
  <2> DEFINE own  == u \in OwnApprovers /\ ~assisted
             s    == IF own THEN "APPROVED"
                     ELSE IF u \in Heads \cup Headquarters THEN "PENDING_MANAGER" ELSE "PENDING_HEAD"
             sign == IF own THEN {"head", "manager"} ELSE IF u \in Heads THEN {"head"} ELSE {}
  <2>1. PICK back \in BOOLEAN : Record(u, p, "EXIT", s, sign, back)
    BY <1>2 DEF CreateExitPass
  <2>2. Proper(u, "EXIT", s, sign)
    BY SignsExist DEF Proper, Kinds
  <2>. QED
    BY <1>1, <2>1, <2>2, RecordKeeps
<1>3. CASE RequestContractorPass(u, p, assisted)
  <2> DEFINE own  == u \in OwnApprovers /\ ~assisted
             s    == IF own THEN "APPROVED" ELSE "PENDING_MANAGER"
             sign == IF own THEN {"manager"} ELSE {}
  <2>1. Record(u, p, "CONTRACTOR", s, sign, FALSE)
    BY <1>3 DEF RequestContractorPass
  <2>2. Proper(u, "CONTRACTOR", s, sign)
    BY SignsExist DEF Proper, Kinds
  <2>. QED
    BY <1>1, <2>1, <2>2, RecordKeeps
<1>. QED
  BY <1>2, <1>3

LEMMA RoadTestKeeps ==
  ASSUME IInv, NEW u \in Staff, NEW assisted \in BOOLEAN, CreateRoadTest(u, assisted)
  PROVE  IInv'
<1> DEFINE own  == u \in OwnApprovers /\ ~assisted
           s    == IF own THEN "APPROVED" ELSE "PENDING_MANAGER"
           sign == IF own THEN {"manager"} ELSE {}
<1>1. Record(u, doing[u].pass, "ROAD", s, sign, FALSE) /\ Done(u) /\ doing[u].op = "drive"
  BY DEF CreateRoadTest
<1>3. Proper(u, "ROAD", s, sign)
  BY SignsExist DEF Proper, Kinds
<1>. HIDE DEF s, sign
<1>a. doing[u] \in Requests
  BY DEF IInv, TypeOK
<1>b. doing[u] \in Drives
  BY <1>1, <1>a, KindTellsTheSet
<1>2. doing[u].pass \in Passes
  BY <1>b DEF Drives
<1> DEFINE p == doing[u].pass
<1>. HIDE DEF p
<1>4. p \in Passes /\ Record(u, p, "ROAD", s, sign, FALSE)
  BY <1>1, <1>2 DEF p
<1>. QED
  BY <1>1, <1>3, <1>4, RecordKeeps

-----------------------------------------------------------------------------
(***************************************************************************)
(* Reading                                                                 *)
(***************************************************************************)
LEMMA MoveTyped ==
  ASSUME IInv, NEW p \in Passes, kind[p] # "NONE", NEW to \in Statuses, NEW sign \in Signs,
         NEW km \in 0..MaxKm
  PROVE  /\ Move(p, to, sign, km) \in Requests
         /\ Move(p, to, sign, km).op = "move"
<1>1. status[p] \in Statuses
  BY DEF IInv, TypeOK, SignedSoFar, Signed
<1>2. Move(p, to, sign, km) \in Moves
  BY <1>1 DEF Move, Moves
<1>. QED
  BY <1>2, OpTellsTheKind DEF Requests

\* Starting a legal move keeps the invariant.
LEMMA StartMove ==
  ASSUME IInv, NEW u \in Staff, NEW p \in Passes, NEW to \in Statuses, NEW sign \in Signs,
         NEW km \in 0..MaxKm, Start(u, Move(p, to, sign, km)),
         LegalMove(u, Move(p, to, sign, km))
  PROVE  IInv'
<1>1. kind[p] # "NONE"
  BY DEF LegalMove, Move
<1>. QED
  BY <1>1, MoveTyped, StartKeeps

LEMMA DecideKeeps ==
  ASSUME IInv, NEW u \in Staff, NEW p \in Passes,
         Decline(u, p) \/ Approve(u, p) \/ Cancel(u, p) \/ Revoke(u, p)
  PROVE  IInv'
<1>1. 0 \in 0..MaxKm
  BY BoundAssumption
<1>2. status[p] \in Statuses => kind[p] # "NONE"
  BY DEF IInv, SignedSoFar, Signed, Statuses
<1>3. CASE Decline(u, p)
  <2>1. LegalMove(u, Move(p, "DECLINED", {}, 0))
    BY <1>2, <1>3 DEF Decline, LegalMove, Move, Pending, Statuses
  <2>. QED
    BY <1>1, <1>3, <2>1, SignsExist, StartMove DEF Decline, Statuses
<1>4. CASE Approve(u, p)
  <2>1. CASE status[p] = "PENDING_HEAD" /\ ~(u = by[p] \/ u \in ManagerApprovers(by[p]))
    <3>1. Start(u, Move(p, "PENDING_MANAGER", {"head"}, 0))
      BY <1>4, <2>1 DEF Approve
    <3>2. LegalMove(u, Move(p, "PENDING_MANAGER", {"head"}, 0))
      BY <1>2, <2>1 DEF LegalMove, Move, Statuses
    <3>. QED
      BY <1>1, <3>1, <3>2, SignsExist, StartMove DEF Statuses
  <2>2. CASE status[p] = "PENDING_HEAD" /\ (u = by[p] \/ u \in ManagerApprovers(by[p]))
    <3>1. Start(u, Move(p, "APPROVED", {"head", "manager"}, 0)) /\ (u = by[p] => u \in OwnApprovers)
      BY <1>4, <2>2 DEF Approve, MayDecide
    <3>2. LegalMove(u, Move(p, "APPROVED", {"head", "manager"}, 0))
      BY <1>2, <2>2, <3>1 DEF LegalMove, Move, Statuses
    <3>. QED
      BY <1>1, <3>1, <3>2, SignsExist, StartMove DEF Statuses
  <2>3. CASE status[p] = "PENDING_MANAGER"
    <3>1. Start(u, Move(p, "APPROVED", {"manager"}, 0)) /\ (u = by[p] => u \in OwnApprovers)
      BY <1>4, <2>3 DEF Approve, MayDecide
    <3>2. LegalMove(u, Move(p, "APPROVED", {"manager"}, 0))
      BY <1>2, <2>3, <3>1 DEF LegalMove, Move, Statuses
    <3>. QED
      BY <1>1, <3>1, <3>2, SignsExist, StartMove DEF Statuses
  <2>. QED
    BY <1>4, <2>1, <2>2, <2>3 DEF Approve
<1>5. CASE Cancel(u, p)
  <2>1. LegalMove(u, Move(p, "CANCELLED", {}, 0))
    BY <1>2, <1>5 DEF Cancel, LegalMove, Move, Pending, Statuses
  <2>. QED
    BY <1>1, <1>5, <2>1, SignsExist, StartMove DEF Cancel, Statuses
<1>6. CASE Revoke(u, p)
  <2>1. LegalMove(u, Move(p, "REVOKED", {}, 0))
    BY <1>2, <1>6 DEF Revoke, LegalMove, Move, Statuses
  <2>. QED
    BY <1>1, <1>6, <2>1, SignsExist, StartMove DEF Revoke, Statuses
<1>. QED
  BY <1>3, <1>4, <1>5, <1>6

LEMMA GateKeeps ==
  ASSUME IInv, NEW u \in Staff, NEW p \in Passes, GateOut(u, p) \/ GateIn(u, p)
  PROVE  IInv'
<1>1. 0 \in 0..MaxKm /\ mileage..MaxKm \subseteq 0..MaxKm /\ outKm[p]..MaxKm \subseteq 0..MaxKm
  BY BoundAssumption DEF IInv, TypeOK
<1>2. CASE GateOut(u, p)
  <2>1. PICK to \in {"OUT", "CLOSED"}, km \in 0..MaxKm : Start(u, Move(p, to, {}, km))
    BY <1>1, <1>2 DEF GateOut
  <2>2. LegalMove(u, Move(p, to, {}, km))
    BY <1>2 DEF GateOut, LegalMove, Move
  <2>. QED
    BY <2>1, <2>2, SignsExist, StartMove DEF Statuses
<1>3. CASE GateIn(u, p)
  <2>1. PICK km \in 0..MaxKm : Start(u, Move(p, "RETURNED", {}, km))
    BY <1>1, <1>3 DEF GateIn
  <2>2. LegalMove(u, Move(p, "RETURNED", {}, km))
    BY <1>3 DEF GateIn, LegalMove, Move
  <2>. QED
    BY <2>1, <2>2, SignsExist, StartMove DEF Statuses
<1>. QED
  BY <1>2, <1>3

LEMMA OtherReadKeeps ==
  ASSUME IInv, NEW u \in Staff, NEW p \in Passes,
         AskRoadTest(u, p) \/ Extend(u, p) \/ SignIn(u, p) \/ SignOut(u, p)
  PROVE  IInv'
<1>1. CASE AskRoadTest(u, p)
  <2> DEFINE w == [op |-> "drive", pass |-> p]
  <2>1. w \in Requests /\ w.op = "drive"
    BY DEF Requests, Drives
  <2>. QED
    BY <1>1, <2>1, StartKeeps DEF AskRoadTest
<1>2. CASE Extend(u, p)
  <2>1. PICK more \in 1..(MaxMore - added[p]) :
          Start(u, [op |-> "extend", pass |-> p, had |-> added[p], more |-> more])
    BY <1>2 DEF Extend
  <2> DEFINE w == [op |-> "extend", pass |-> p, had |-> added[p], more |-> more]
  <2>2. more \in 1..MaxMore /\ added[p] \in 0..MaxMore /\ added[p] + more <= MaxMore
    BY BoundAssumption DEF IInv, TypeOK
  <2>3. w \in Extensions
    BY <2>2 DEF Extensions
  <2>4. w \in Requests /\ w.op = "extend" /\ w.had + w.more <= MaxMore
    BY <2>2, <2>3 DEF Requests
  <2>. HIDE DEF w
  <2>5. Start(u, w)
    BY <2>1 DEF w
  <2>. QED
    BY <2>4, <2>5, StartKeeps
<1>3. CASE SignIn(u, p)
  <2> DEFINE w == [op |-> "sign in", pass |-> p]
  <2>1. w \in Requests /\ w.op = "sign in" /\ w.pass = p
    BY DEF Requests, SignIns
  <2>2. manager[p] \in Staff /\ kind[p] = "CONTRACTOR" /\ Start(u, w)
    BY <1>3 DEF SignIn, IInv, SignedSoFar, Signed, Approved
  <2>. HIDE DEF w
  <2>. QED
    BY <2>1, <2>2, StartKeeps
<1>4. CASE SignOut(u, p)
  <2>1. PICK i \in DOMAIN rows[p] : Start(u, [op |-> "sign out", pass |-> p, row |-> i])
    BY <1>4 DEF SignOut
  <2> DEFINE w == [op |-> "sign out", pass |-> p, row |-> i]
  <2>2. i \in Nat
    BY DEF IInv, TypeOK
  <2>3. w \in Requests /\ w.op = "sign out"
    BY <2>2 DEF Requests, SignOuts
  <2>4. Start(u, w)
    BY <2>1
  <2>. HIDE DEF w
  <2>. QED
    BY <2>3, <2>4, StartKeeps
<1>. QED
  BY <1>1, <1>2, <1>3, <1>4

-----------------------------------------------------------------------------
(***************************************************************************)
(* Saving                                                                  *)
(***************************************************************************)
LEMMA SaveMoveKeeps ==
  ASSUME IInv, NEW u \in Staff, SaveMove(u)
  PROVE  IInv'
<1> DEFINE r == doing[u]
           p == r.pass
<1>1. r \in Moves /\ r.op = "move" /\ LegalMove(u, r)
  BY KindTellsTheSet DEF SaveMove, IInv, TypeOK, InFlightLegal, Legal
<1>2. p \in Passes /\ r.to \in Statuses /\ r.km \in 0..MaxKm
  BY <1>1 DEF Moves
<1>3. /\ status[p] = r.from
      /\ status' = [status EXCEPT ![p] = r.to]
      /\ head' = [head EXCEPT ![p] = IF "head" \in r.sign THEN u ELSE @]
      /\ manager' = [manager EXCEPT ![p] = IF "manager" \in r.sign THEN u ELSE @]
      /\ away' = [away EXCEPT ![p] = @ \/ r.to \in {"OUT", "CLOSED"}]
      /\ outKm' = [outKm EXCEPT ![p] = IF r.to = "OUT" THEN r.km ELSE @]
      /\ UNCHANGED <<kind, by, returns, added, granted, rows, mileage>>
  BY DEF SaveMove, StillAsRead
<1>4. PICK w \in Requests : w.op \in {"idle", "raise"} /\ doing' = [doing EXCEPT ![u] = w]
  <2>1. CASE kind[p] = "ROAD" /\ r.to = "RETURNED"
    <3>1. [op |-> "raise", km |-> r.km] \in Requests
      BY <1>2 DEF Requests, Raises
    <3>. QED
      BY <2>1, <3>1 DEF SaveMove
  <2>2. CASE ~(kind[p] = "ROAD" /\ r.to = "RETURNED")
    BY <2>2, IdleTyped DEF SaveMove, Done
  <2>. QED
    BY <2>1, <2>2
<1>. HIDE DEF r, p
<1>5. TypeOK'
  BY <1>2, <1>3, <1>4, DoingTyped DEF IInv, TypeOK
<1>6. ExtensionsAddUp'
  BY <1>3 DEF IInv, ExtensionsAddUp
<1>7. SignedSoFar'
  <2>. SUFFICES ASSUME NEW q \in Passes PROVE Signed(q)'
    BY DEF SignedSoFar
  <2>1. CASE q = p
    BY <1>1, <1>2, <1>3, <2>1, StaffAssumption
       DEF IInv, TypeOK, SignedSoFar, Signed, LegalMove, Approved, Pending, p
  <2>2. CASE q # p
    BY <1>2, <1>3, <2>2 DEF IInv, TypeOK, SignedSoFar, Signed
  <2>. QED
    BY <2>1, <2>2
<1>8. UsedAfterApproval'
  BY <1>1, <1>2, <1>3 DEF IInv, TypeOK, UsedAfterApproval, LegalMove, Pending, p
<1>9. InFlightLegal'
  BY <1>2, <1>3, <1>4, OthersStayLegal DEF IInv, TypeOK
<1>. QED
  BY <1>5, <1>6, <1>7, <1>8, <1>9 DEF IInv

LEMMA SaveMileageKeeps ==
  ASSUME IInv, NEW u \in Staff, SaveMileage(u)
  PROVE  IInv' /\ mileage' >= mileage
<1>1. doing[u] \in Raises
  BY KindTellsTheSet DEF SaveMileage, IInv, TypeOK
<1>2. doing[u].km \in 0..MaxKm
  BY <1>1 DEF Raises
<1>3. mileage' \in 0..MaxKm /\ mileage' >= mileage
  BY <1>2, BoundAssumption DEF SaveMileage, Raised, IInv, TypeOK
<1>4. doing' = [doing EXCEPT ![u] = Idle] /\ UNCHANGED <<papers, away, outKm, added, granted, rows>>
  BY DEF SaveMileage, Done
<1>5. TypeOK'
  BY <1>3, <1>4, DoingTyped, IdleTyped DEF IInv, TypeOK, papers
<1>6. ExtensionsAddUp' /\ SignedSoFar' /\ UsedAfterApproval'
  BY <1>4 DEF IInv, ExtensionsAddUp, SignedSoFar, Signed, UsedAfterApproval, papers
<1>7. InFlightLegal'
  BY <1>4, OthersStayLegal, IdleTyped DEF papers
<1>. QED
  BY <1>3, <1>5, <1>6, <1>7 DEF IInv

LEMMA SaveExtendKeeps ==
  ASSUME IInv, NEW u \in Staff, SaveExtend(u)
  PROVE  IInv'
<1> DEFINE r == doing[u]
           p == r.pass
<1>1. r \in Extensions /\ r.had + r.more <= MaxMore
  BY KindTellsTheSet DEF SaveExtend, IInv, TypeOK, InFlightLegal, Legal
<1>2. p \in Passes /\ r.had \in 0..MaxMore /\ r.more \in 1..MaxMore
  BY <1>1 DEF Extensions
<1>3. /\ added[p] = r.had
      /\ added' = [added EXCEPT ![p] = r.had + r.more]
      /\ granted' = [granted EXCEPT ![p] = @ + r.more]
      /\ doing' = [doing EXCEPT ![u] = Idle]
      /\ UNCHANGED <<papers, away, outKm, rows, mileage>>
  BY DEF SaveExtend, StillOutAsRead, Done
<1>. HIDE DEF r, p
<1>4. r.had + r.more \in 0..MaxMore
  BY <1>1, <1>2, BoundAssumption
<1>5. granted[p] = added[p]
  BY <1>2 DEF IInv, ExtensionsAddUp
<1>6. TypeOK'
  BY <1>2, <1>3, <1>4, <1>5, DoingTyped, IdleTyped DEF IInv, TypeOK, papers
<1>7. ExtensionsAddUp'
  BY <1>2, <1>3, <1>5 DEF IInv, TypeOK, ExtensionsAddUp
<1>8. SignedSoFar' /\ UsedAfterApproval'
  BY <1>3 DEF IInv, SignedSoFar, Signed, UsedAfterApproval, papers
<1>9. InFlightLegal'
  BY <1>3, OthersStayLegal, IdleTyped DEF papers
<1>. QED
  BY <1>6, <1>7, <1>8, <1>9 DEF IInv

\* Attendance rows may only be added to a pass a Manager has signed.
LEMMA RowsKeep ==
  ASSUME IInv, NEW u \in Staff, NEW p \in Passes, NEW new \in Seq(BOOLEAN),
         manager[p] \in Staff, kind[p] = "CONTRACTOR",
         rows' = [rows EXCEPT ![p] = new], Done(u),
         UNCHANGED <<papers, away, outKm, added, granted, mileage>>
  PROVE  IInv'
<1>1. TypeOK'
  BY DoingTyped, IdleTyped DEF IInv, TypeOK, papers, Done
<1>2. ExtensionsAddUp' /\ SignedSoFar'
  BY DEF IInv, ExtensionsAddUp, SignedSoFar, Signed, papers
<1>3. UsedAfterApproval'
  BY DEF IInv, TypeOK, UsedAfterApproval, papers
<1>4. InFlightLegal'
  BY OthersStayLegal, IdleTyped DEF papers, Done
<1>. QED
  BY <1>1, <1>2, <1>3, <1>4 DEF IInv

LEMMA SaveSignKeeps ==
  ASSUME IInv, NEW u \in Staff, SaveSignIn(u) \/ SaveSignOut(u)
  PROVE  IInv'
<1>0. doing[u] \in Requests
  BY DEF IInv, TypeOK
<1>1. CASE SaveSignIn(u)
  <2>1. doing[u] \in SignIns
    BY <1>0, <1>1, KindTellsTheSet DEF SaveSignIn
  <2> DEFINE p == doing[u].pass
  <2>2. p \in Passes /\ manager[p] \in Staff /\ kind[p] = "CONTRACTOR"
    BY <1>1, <2>1 DEF SignIns, SaveSignIn, IInv, InFlightLegal, Legal
  <2>3. rows' = [rows EXCEPT ![p] = Append(rows[p], TRUE)]
    BY <1>1 DEF SaveSignIn
  <2>. HIDE DEF p
  <2>4. rows[p] \in Seq(BOOLEAN)
    BY <2>2 DEF IInv, TypeOK
  <2>5. Append(rows[p], TRUE) \in Seq(BOOLEAN)
    BY <2>4
  <2>. QED
    BY <1>1, <2>2, <2>3, <2>5, RowsKeep DEF SaveSignIn
<1>2. CASE SaveSignOut(u)
  <2>1. doing[u] \in SignOuts
    BY <1>0, <1>2, KindTellsTheSet DEF SaveSignOut
  <2> DEFINE p == doing[u].pass
             i == doing[u].row
  <2>2. p \in Passes
    BY <2>1 DEF SignOuts
  <2>3. rows' = [rows EXCEPT ![p] = [rows[p] EXCEPT ![i] = FALSE]]
    BY <1>2 DEF SaveSignOut
  <2>. HIDE DEF p, i
  <2>4. rows[p] \in Seq(BOOLEAN)
    BY <2>2 DEF IInv, TypeOK
  <2>5. [rows[p] EXCEPT ![i] = FALSE] \in Seq(BOOLEAN)
    <3> DEFINE n == Len(rows[p])
    <3>1. n \in Nat /\ rows[p] \in [1..n -> BOOLEAN]
      BY <2>4
    <3>. HIDE DEF n
    <3>2. [rows[p] EXCEPT ![i] = FALSE] \in [1..n -> BOOLEAN]
      BY <3>1
    <3>3. \A f \in [1..n -> BOOLEAN] : f \in Seq(BOOLEAN)
      BY <3>1, SeqDef
    <3>. QED
      BY <3>2, <3>3
  <2>6. CASE rows[p] = <<>>
    <3>1. [rows[p] EXCEPT ![i] = FALSE] = rows[p]
      BY <2>4, <2>6
    <3>2. rows' = rows
      BY <2>2, <2>3, <3>1 DEF IInv, TypeOK
    <3>. QED
      BY <1>2, <3>2, IdleKeeps DEF SaveSignOut, gate
  <2>7. CASE rows[p] # <<>>
    <3>1. manager[p] \in Staff /\ kind[p] = "CONTRACTOR"
      BY <2>2, <2>7 DEF IInv, UsedAfterApproval
    <3>. QED
      BY <1>2, <2>2, <2>3, <2>5, <3>1, RowsKeep DEF SaveSignOut
  <2>. QED
    BY <2>6, <2>7
<1>. QED
  BY <1>1, <1>2

-----------------------------------------------------------------------------
(***************************************************************************)
(* The theorems                                                            *)
(***************************************************************************)
LEMMA InitHolds == Init => IInv
<1>. SUFFICES ASSUME Init PROVE IInv
  OBVIOUS
<1>1. TypeOK
  BY IdleTyped, BoundAssumption DEF Init, TypeOK
<1>2. ExtensionsAddUp /\ SignedSoFar /\ UsedAfterApproval
  BY StaffAssumption DEF Init, ExtensionsAddUp, SignedSoFar, Signed, UsedAfterApproval, Approved
<1>3. InFlightLegal
  BY IdleTyped DEF Init, InFlightLegal, Legal
<1>. QED
  BY <1>1, <1>2, <1>3 DEF IInv

LEMMA NextKeeps == IInv /\ [Next]_vars => IInv' /\ mileage' >= mileage
<1>. SUFFICES ASSUME IInv, [Next]_vars PROVE IInv' /\ mileage' >= mileage
  OBVIOUS
<1>0. UNCHANGED mileage => mileage' >= mileage
  BY BoundAssumption DEF IInv, TypeOK
<1>1. CASE UNCHANGED vars
  <2>1. TypeOK' /\ UNCHANGED mileage
    BY <1>1 DEF IInv, TypeOK, vars, papers, gate
  <2>3. ExtensionsAddUp' /\ SignedSoFar' /\ UsedAfterApproval'
    BY <1>1 DEF IInv, ExtensionsAddUp, SignedSoFar, Signed, UsedAfterApproval, vars, papers, gate
  <2>2. InFlightLegal'
    <3>. SUFFICES ASSUME NEW v \in Staff PROVE Legal(v)'
      BY DEF InFlightLegal
    <3>1. Legal(v) /\ doing' = doing /\ kind' = kind /\ by' = by /\ manager' = manager
      BY <1>1 DEF IInv, InFlightLegal, vars, papers
    <3>2. doing[v].op = "move" => LegalMove(v, doing[v])'
      BY <3>1 DEF Legal, LegalMove
    <3>. QED
      BY <3>1, <3>2 DEF Legal
  <2>. QED
    BY <1>0, <2>1, <2>2, <2>3 DEF IInv
<1>2. CASE Next
  <2>1. PICK u \in Staff :
          \/ \E p \in Passes, assisted \in BOOLEAN :
               CreateExitPass(u, p, assisted) \/ RequestContractorPass(u, p, assisted)
          \/ \E assisted \in BOOLEAN : CreateRoadTest(u, assisted)
          \/ \E p \in Passes :
               \/ AskRoadTest(u, p) \/ Decline(u, p) \/ Approve(u, p) \/ Cancel(u, p) \/ Revoke(u, p)
               \/ GateOut(u, p) \/ GateIn(u, p) \/ Extend(u, p) \/ SignIn(u, p) \/ SignOut(u, p)
          \/ Save(u)
          \/ Drop(u)
    BY <1>2 DEF Next
  <2>2. ASSUME NEW p \in Passes, NEW assisted \in BOOLEAN,
               CreateExitPass(u, p, assisted) \/ RequestContractorPass(u, p, assisted)
        PROVE  IInv' /\ UNCHANGED mileage
    BY <2>2, AskKeeps DEF CreateExitPass, RequestContractorPass, Record, gate
  <2>3. ASSUME NEW assisted \in BOOLEAN, CreateRoadTest(u, assisted)
        PROVE  IInv' /\ UNCHANGED mileage
    BY <2>3, RoadTestKeeps DEF CreateRoadTest, Record, gate
  <2>4. ASSUME NEW p \in Passes, Decline(u, p) \/ Approve(u, p) \/ Cancel(u, p) \/ Revoke(u, p)
        PROVE  IInv' /\ UNCHANGED mileage
    BY <2>4, DecideKeeps DEF Decline, Approve, Cancel, Revoke, Start, gate
  <2>5. ASSUME NEW p \in Passes, GateOut(u, p) \/ GateIn(u, p)
        PROVE  IInv' /\ UNCHANGED mileage
    BY <2>5, GateKeeps DEF GateOut, GateIn, Start, gate
  <2>6. ASSUME NEW p \in Passes,
               AskRoadTest(u, p) \/ Extend(u, p) \/ SignIn(u, p) \/ SignOut(u, p)
        PROVE  IInv' /\ UNCHANGED mileage
    BY <2>6, OtherReadKeeps DEF AskRoadTest, Extend, SignIn, SignOut, Start, gate
  <2>7. CASE SaveMileage(u)
    BY <2>7, SaveMileageKeeps
  <2>8. CASE SaveMove(u) \/ SaveExtend(u) \/ SaveSignIn(u) \/ SaveSignOut(u)
    <3>1. IInv'
      BY <2>8, SaveMoveKeeps, SaveExtendKeeps, SaveSignKeeps
    <3>2. UNCHANGED mileage
      BY <2>8 DEF SaveMove, SaveExtend, SaveSignIn, SaveSignOut
    <3>. QED
      BY <1>0, <3>1, <3>2
  <2>9. CASE Drop(u)
    BY <1>0, <2>9, IdleKeeps DEF Drop, gate
  <2>. QED
    BY <1>0, <2>1, <2>2, <2>3, <2>4, <2>5, <2>6, <2>7, <2>8, <2>9 DEF Save
<1>. QED
  BY <1>1, <1>2

LEMMA AlwaysIInv == Spec => []IInv
BY InitHolds, NextKeeps, PTL DEF Spec

\* Every variable keeps its type, the requests in flight with theirs.
THEOREM TypeCorrect == Spec => []TypeOK
<1>1. IInv => TypeOK
  BY DEF IInv
<1>. QED
  BY <1>1, AlwaysIInv, PTL

\* Nobody goes out and no team comes in without the approvals the pass needs,
\* whoever decides at the same time.
THEOREM ApprovedBeforeLeaving == Spec => []LeftOnApproval
<1>1. IInv => LeftOnApproval
  BY DEF IInv, TypeOK, SignedSoFar, Signed, UsedAfterApproval, LeftOnApproval, Approved
<1>. QED
  BY <1>1, AlwaysIInv, PTL

\* A pass that was declined or withdrawn let nobody out.
THEOREM ClosedPassesUnused == Spec => []ClosedNeverLeft
<1>1. IInv => ClosedNeverLeft
  BY StaffAssumption
     DEF IInv, TypeOK, SignedSoFar, Signed, UsedAfterApproval, ClosedNeverLeft, Approved
<1>. QED
  BY <1>1, AlwaysIInv, PTL

\* No extension granted at the gate is lost to another one.
THEOREM NoExtensionLost == Spec => []ExtensionsAddUp
<1>1. IInv => ExtensionsAddUp
  BY DEF IInv
<1>. QED
  BY <1>1, AlwaysIInv, PTL

\* The recorded mileage of a vehicle never goes down.
THEOREM MileageMonotone == Spec => MileageNeverFalls
BY AlwaysIInv, NextKeeps, PTL DEF Spec, MileageNeverFalls
=============================================================================
