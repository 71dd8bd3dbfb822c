# EJO 100: a TLA+ verification of the workshop and its desks

This directory models the workflows of EJO 100, a multi-organisation ERP for vehicle
workshops, in TLA+: the Job Card with its estimate, team, parts and money, the Vehicle
Service and its escalation, the Store, the gate, the calendar, the Support desk and the
assembly plant. Each module is checked on a small instance with TLC, and every safety
property the runs check is proved for every instance with TLAPS.

File names below are relative to `src/`; `lib/` stands for
`src/apps/portal/lib/`.

## 1. The system

The staff portal (`apps/portal`, Next.js on Vercel) carries all business
workflows. Every write is a *server action* in `lib/actions/*.ts` that talks to
one PostgreSQL database through Prisma. There is no in-memory state that
survives a request: **the state of the system is rows in tables, and its
concurrency is that of requests**, each of which reads some rows, decides, and
writes. Four primitives keep requests apart (`lib/integrity.ts`,
`lib/integrity-core.ts`):

* `lockRows`/`lockExisting`: `SELECT ... FOR UPDATE` inside a transaction;
* compare-and-set: `updateMany` whose `where` names what must not have changed,
  followed by `claimed()`, which aborts when no row was updated;
* idempotency keys with a unique index (payments, refunds, goods receipts);
* `retryOnNumberClash`: run the whole attempt again when two documents took the
  same number.

Transactions run at PostgreSQL's default level (READ COMMITTED), so what was read
*before* a lock may be old by the time of the write. Which checks are repeated
under the lock and which are not is exactly what a unit test does not reach, and
what this project is about.

### Components

| Component | Code | State | Operations | Interacts with | Must hold |
|---|---|---|---|---|---|
| Job Card | `actions/workshop.ts`, `refunds.ts`, `estimate-billing.ts`, `job-card-status-rules.ts` | status, timestamps, payments, refunds, who pays each line, close and cancellation requests | payment, refund, notify, bill-to, status moves, request/approve/decline close and cancellation, automatic sync | estimate, sourcing, Vehicle Service | money bounded, one way to finish, timestamps and status agree, deposit before work |
| Estimate | `actions/workshop.ts`, `actions/store.ts` | stage, lines, matched parts, prices | add, edit, delete, match, price, submit, approve, final approval, return | Job Card, Store | an approved estimate never changes; Store parts carry Store prices |
| Team | `actions/workshop.ts` | supervisor and their decision, technician and their answer | approve, reject, reroute, assign, accept, decline | Job Card | a decision belongs to the supervisor who is named; nobody answers for somebody else |
| Sourcing | `actions/sourcing.ts`, `sourcing-lifecycle.ts` | parts requests, outside purchases, reserved and on-hand stock | request, three approvals, release, reject, pay, withdraw | Job Card, Store, Finance | no leaked or double reservation, one live request per line, three people per request, nothing paid twice |
| Store | `actions/store.ts`, `inventory/*`, `data-exchange/inventory-server.ts` | aggregate stock, receipts, serial units, batches, consumptions | receive, approve, release, withdraw, load and reverse an opening balance | Sourcing, data exchange | stock equals its records, every unit is traced, oldest first |
| Vehicle Service | `actions/vehicle-service*.ts`, `vehicle-service-cycle.ts` | a lighter kind of visit with its own status, estimate, payments and requests; the claim and link of its escalation | move, price, pay, refund, close, cancel, hand back, escalate, repair | Job Card, gate | one hand-over, no money left behind, accounts settled, escalation ends |
| Gate | `actions/security.ts` | exit passes, road tests, contractor passes, attendance, mileage; visitor bookings | ask, decide, cancel, revoke, out, in, extend, sign in and out | calendar | nobody leaves unapproved, a closed pass is dead, no extension or mileage is lost |
| Calendar | `actions/scheduling.ts`, `actions/security.ts` | meetings, their visitor groups | book, move, cancel, close, invite, check in and out, purge | gate | no place double-booked, present visitors kept, the last one out completes |
| Support | `actions/support.ts`, `support/automations.ts`, `support/intake.ts`, the website's replies | a ticket, its clocks, reminders, Enyo's lease and answer | reply, set status, portal and link replies, intake, reminders, resolve, close, survey, Enyo | mail, cron | one automatic answer, reopened tickets stay open, none is forgotten |
| Plant | `actions/plant.ts`, `plant/pdi.ts` | vehicle stage, inspections, items, readings | start, answer, read, submit, approve, reject, cancel | nothing | a second person approves, complete checklists, passed is final |
| Warranty | `actions/warranty*.ts` | warranties, claims | register, claim, decide | bill-to of lines | no claim without cover |
| Recycle bin | `recycle-bin/*` | deleted records | delete, restore, purge | everything | no dangling reference |
| Users, access control, CRM, mail, data exchange, audit journal, analytics, website | `actions/*.ts`, `packages/*`, `apps/website` | their own records | record keeping | the above | see `PROJECT.json` |

The Job Card's life: it is opened at the front desk (`CHECKED_IN`) and routed to a
supervisor, who approves it and assigns a technician. An estimate is written,
submitted, approved by the supervisor and then by a manager, and sent to the
customer (`AWAITING_CUSTOMER_APPROVAL`). The payment that crosses 70% of the
customer's total starts the work (`IN_PROGRESS`). Parts come from the Store or
are bought outside (`AWAITING_PARTS`); after the quality check the job is
`COMPLETED`, then `READY_FOR_COLLECTION`, closed by a manager on request, and
checked out. At any time before that it can be cancelled on request.

A Vehicle Service is the lighter visit: booked, inspected, perhaps priced and paid by itself,
or *escalated*: then a Job Card is opened for it and the service is over. A vehicle may be
road-tested (a permit at the gate) and its owner visits (the calendar and the gate).

### Hard behaviours

`PROJECT.json` lists each at its line, with the properties about it. They are of seven kinds:

* a check made before the lock and not repeated under it;
* two transactions that resolve each other's records;
* an update whose `where` names less than was decided on, so that a state that was left and
  reached again is taken for the one that was read;
* several database calls that belong together (escalation, moving the groups of a meeting,
  Enyo's answer), and a request that dies between two of them;
* a form or a scheduled run that happens twice;
* a chain of legal steps (rework, refunds, bill-to changes) that reaches a state nobody meant;
* totals compared at a boundary (the deposit, the full amount, the stock) while they move.

The database keeps the data when a process dies. A crash shows as a request that reads and
does not write, or that stops between two of its calls.

## 2. How code becomes a model

A handler that repeats every check under the lock (or in its `where` clause) is
**one action**. A handler that decides on what it read earlier is **two**: `Read...`
checks and leaves what it decided in `doing[u]`, `Save...` claims the row under the
conditions the `where` clause names. `GiveUp` ends a request whose claim fails or
whose process dies; it is always possible, so a request never owes its second
step. Each person has one request in flight in the model; two browser tabs of one
person are two people with the same roles.

Roles are a constant (`Holders`): who holds which role on the record. The
permission catalogue is not modelled. E-mails, notifications, PDFs, the audit log
and wording are left out: they follow the writes, are fail-soft, and no property
refers to them. Amounts are natural numbers of kobo. Reads of one row and its
relations by one Prisma call are one instant; Prisma issues several statements,
so this leaves out interleavings inside such a read. Time-based guards (a
20-second guard against doubles, working-day deadlines) are left out: everything
is shown without their help.

Where time itself matters it is a step: a claim that lapses (`Expire`, `LeaseLapses`), a day
that ends (`NextDay`), a ticket that grows older (`Tick`).

## 3. Modules

| Module | Models |
|---|---|
| `Desk` | What every desk has: who works there, the request each has in flight (`doing`), and how one begins and ends. `JobCard`, `Estimate`, `JobTeam`, `Sourcing`, `Store` and `VehicleService` extend it. |
| `CustomerAccount` | What the workshop promises a customer: abstract, a few lines of state machine. |
| `JobCard` | One Job Card. `RecordPayment`, `RecordRefund`, `NotifyCustomer`, `ReadBillTo`/`SaveBillTo`; `ReadForMove`/`SaveMove` for `updateJobCardStatus`; `ReadForClose`, `ReadForCancellation`, `SaveRequest`, `ApproveClose`, `ApproveCancellation`, `DeclineRequest`; parts as the card sees them (`ReadForParts`, `SaveParts`, `SettleParts`) and `SyncRead`/`SyncCount`/`SyncSave` for `syncJobCardSourcingStatus`. |
| `Estimate` | The estimate: line edits as read and claim, Store matching and pricing, submission, both approvals, return for changes. |
| `JobTeam` | The supervisor's decision, rerouting, assignment and answer. |
| `Sourcing` | Parts requests and outside purchases of several jobs over shared stock; finishing a job locks it (`StartFinish`) and withdraws (`CommitFinish`). |
| `Store` | One catalogue part with its deliveries, batches and serial units. `ReadForReceipt`/`SaveReceipt` for `recordGoodsReceipt` with its form key; `ReadForRelease`/`SaveRelease` for `releasePartRequestSlip` with the first-in-first-out draw; `Approve`, `Withdraw`; `ReadForOpening`/`SaveOpening`/`ReverseOpening` for an import's opening balance. |
| `VehicleService` | A vehicle's services and Job Cards: status moves, pricing, payment, refund, close and cancellation, hand-back; escalation as its four calls (`ClaimEscalation`, `CheckAgain`, `OpenEscalationCard`, `FinishEscalation`) with `ReleaseEscalation`, `Expire` and `Normalise` (`normaliseEscalatedServices`). |
| `GatePass` | Exit passes, road tests, contractor passes: ask, decide, cancel, revoke, out, in, extend, sign in and out, and the vehicle's mileage. |
| `Scheduling` | Meetings and visitor bookings: the calendar saves the meeting, then walks its groups call by call (`Moving`, `Removing`), while the gate checks them in and out. |
| `Support` | A ticket: colleagues, the portal, e-mail links, incoming mail, the run that reminds, resolves, closes and surveys, and Enyo's run with its lease. |
| `Plant` | A vehicle's pre-delivery inspections, recorded from several tablets. |
| `...Proofs` | The theorems of `JobCard`, `Estimate` and `JobTeam` (together in `EstimateAndTeamProofs`), `Sourcing` and `Store` (together in `SourcingAndStoreProofs`), `VehicleService`, `GatePass`, `Scheduling`, `Support` and `Plant`. |
| `MC...` | Small instances for TLC: people, role tables, prices, symmetry. |

`JobCard` refines `CustomerAccount` (`Account == INSTANCE CustomerAccount WITH ...`,
property `KeepsAccount`): `phase` is the status seen from outside, `taken` the
payments, `givenBack` the refunds.

How the modules fit together. Each holds the rows one kind of document owns, and meets its
neighbours through the rows they share, as the code does: `Sourcing` and `Store` both change
the aggregate stock (`Sourcing` with how requests come about, `Store` with where units come
from); `JobCard` and `Sourcing` share the finishing of a job; `VehicleService` opens the Job
Cards that `JobCard` continues; `Scheduling` is the calendar composed with the gate's visitor
list.

Simplifications to know when reading them:

* `JobCard`: `SettleParts` looks at the status in the step that settles a request.
  `disburseExternalProcurementRequest` reads it a moment earlier; that race is in
  `Sourcing`, where it matters. A parts group is never both half open and half
  received. A second rejection and a never-asked group are the same (`"NONE"`).
  An estimate that is already approved by the manager is assumed.
* `Estimate`: the job's approval can change at any time (`DecideOnJob`); the team's
  side is `JobTeam`. One catalogue part stands for every match.
* `Sourcing`: a job's matched Store lines are requested together, as are its priced
  outside lines (the code requests every line not yet covered). Roles are those of
  one branch. `signsAgainAsMaster` (a Master Admin may take several of the steps,
  each logged) is left out. Store approval and release lock the slip first and
  finishing locks it too, so each is one step; purchases are not locked and the
  race between the two is kept. `RowsAssumption`: the rows of a table are finitely many, which
  is what makes the sums over them (what is reserved, what is approved) defined.
* `JobTeam`: the assignment's compare-and-set names the status; the model has only
  whether it is finished, so it allows more than the code. A Master Admin passes
  `requireAssignedTechnician` but fails the claim unless they are the technician.
* `Store`: a delivery carries one line of one part and one batch number. Requests are
  raised and signed in `Sourcing`; here they are pending until the Store approves them.
  `TablesAssumption`: forms, requests and serial numbers are finitely many, as the rows of a
  table are.
* `VehicleService`: the price of a service is one amount, fixed by its estimate; the steps of
  the estimate are kept, its lines are not. Who may do what is left out: every colleague may
  do everything, which allows more than the code.
* `GatePass`: the reading of the odometer at the gate is one of `0..MaxKm`; a request is not
  asked for in an assisted session (there it must be confirmed later by its owner).
* `Scheduling`: a cancelled booking and the deleted row that follows are the same
  (`"REMOVED"`). `excused` marks a meeting of which a group was removed after others had
  left, or of which a check-out was cut off: for those nothing looks again, and
  `LastOutCompletes` says nothing of them.
* `Support`: time is the age of the two clocks the runs look at; the answer's text and the
  decision whether Enyo answers or leaves a draft are a choice.
* `Plant`: one checklist; readings are complete or not.

## 4. Runs

All runs use `CHECK_DEADLOCK FALSE`: a finished job, a closed pass, ticket or meeting stops for
good, and forms, request rows, lines, days and stock are finite.

| Run | Shows | Bounds |
|---|---|---|
| `job_card` | payments within the estimate, hand-back only after refund, work only with the deposit, one decision finishes, timestamps agree with the status, `CustomerAccount` implemented | two lines (6 and 4), payments of 4 and 6, two forms, two people, one row per kind of request, one parts group |
| `estimate` | an approved estimate never changes; Store parts are matched | two lines, three people, one price, two line types |
| `sourcing_stock` | reservations exact and never oversold; finished jobs hold none | two jobs, three slips, one part, at most 3 units on hand while each request needs 2 |
| `sourcing_cash` | one live purchase per line; three people per payment; paid is final | two purchases, one supplementary line; three people who all hold every role |
| `job_team` | decisions belong to those named; a finished job takes nobody | creator, two supervisors/technicians, a Master Admin |
| `vehicle_service` | one hand-over, nothing orphaned, accounts settled; and, with fairness, every hand-over completes and no claim sticks | two people, one service, two Job Cards, a price of 2 with a deposit of 1 |
| `store` | shelf and records agree, every unit traced, oldest first, nothing reversed under a reservation | each tracking type; two people, two forms, two requests, quantities up to 2, three serial numbers |
| `gate_pass` | leaving on approval, closed passes dead, extensions and mileage kept | a technician, a head, the Manager; two passes of any kind; odometer 0..1, one extension step, one attendance row |
| `scheduling` | no double booking, present visitors kept, the last group completes the meeting | two people, two meetings, two groups, two arrangements that overlap in the room and the morning, one day and the day after |
| `support` | one automatic answer, reopened tickets stay open; and, with fairness, nothing lingers and every lease ends | one colleague, two runs, one act, one message or click, one stop, three ticks of patience |
| `plant` | a second person approves, checklists complete, passed is final | three people, two inspections, one item that every vehicle has |
| `sourcing_paid` | the violation below | one purchase |

Why this is enough to show something: two people, forms, runs or slips are what it takes to
race, and a third person is what separation of duties needs; the third slip lets a decision
follow a rejected one. Amounts are such that the second payment reaches the deposit (7 of 10) and the
total, and a bill-to change moves both below what was paid; stock of 3 serves one
request of 2 and not two; two deliveries, and an opening balance before them, are what the
order of first in, first out can get wrong; a second Job Card is what a double hand-over
needs. Every property is broken by at least one plausible fault of the code (a definition
placed before the correct one and named "Fault" in its comment), so none of them holds by the
shape of the model.

### Fairness

Two runs assume fairness; nobody is ever assumed to write, click or decide.

* `VehicleService!FairSpec`: a request that was started goes on, is refused or is killed by
  the platform (`WF` of its steps together with `GiveUp`, so *any* of the three may be what
  happens); time passes (`Expire`: the escalation's claim lapses after ten minutes, longer
  than a request lives); `normaliseEscalatedServices` runs before every list of tracked
  vehicles and in the daily reminder job (`WF` of `Normalise`). `HandoverCompletes` needs the
  last: the request that opened the Job Card may be gone.
* `Support!FairSpec`: the scheduler starts both kinds of run every two or three minutes and
  the platform ends every run within a minute, every request likewise; mail is taken in; the
  ten-minute lease of a stopped run lapses; time passes. The number of stopped runs is
  finite.

The Job Card has no such scheduler behind it: people act or do not, so nothing eventual is
stated there.

### Where code and text disagree

`sourcing_paid` is kept as a run. `sourcing-lifecycle.ts:8` says that once a job is finished
nothing more can be paid out for it. TLC's trace: the withdrawal lists the purchase as waiting
for the Manager; the Manager approves it; the withdrawal updates it only if still in the stage
it saw, and passes it by; Finance, whose look at the job came before the commit, pays.

The others below were met while modelling, in the source or in a counterexample to an
earlier form of a property, and are not kept as runs.

| Where | The text says | What the code does |
|---|---|---|
| `actions/workshop.ts:3019` | reaching 70% starts the work (2907) | only crossing it by a payment does; a bill-to change can bring the deposit below what is paid, and the job stays waiting |
| `actions/sourcing.ts:628` | everything in flight is withdrawn (`sourcing-lifecycle.ts:10`) | a parts request or purchase checks the status before the lock and is raised after the withdrawal; so are close and cancellation requests (`workshop.ts:3260`) |
| `actions/workshop.ts:2137` | every line is priced once submitted (2322) | a blank price in an edit of a submitted estimate clears it |
| `actions/sourcing.ts:1568` | the Manager approves the full total (1745) | a supplementary line is written without claiming the purchase |
| `actions/workshop.ts:1545` | a decision in the meantime wins (1543) | rerouting names the supervisor only and overwrites their approval with PENDING |
| `actions/vehicle-service-estimate.ts:67` | escalation happens before any pricing (`vehicle-service.ts:2093`) | `createServiceEstimate` checks for an escalation, then creates the row: an escalation in between hands over a service with an estimate |
| `actions/vehicle-service-estimate.ts:95` | undone only while DRAFT or SUBMITTED (81) | APPROVED as well |
| `data-exchange/inventory-server.ts:257` | "checked again under the lock", so that nothing is counted twice (256) | the lock is the import's own, which goods receipts do not take: a delivery, and a release from it, can land between this check and the load, and the balance is then put in front of them |
| `support/automations.ts:233` | each step changes only rows still in the state it read (17) | the update names the status, not the time: a ticket listed as waiting, reopened by the customer and answered afresh is resolved at once |
| `actions/plant.ts:320` | anything Not OK goes to rework (17-19) | what is read decides: a Not OK saved from another tablet before the submission is saved goes to the approver |

Smaller ones: who pays a line can still change on a CLOSED card, which takes no payments
(`estimate-billing.ts:85`); checkout sums payments without refunds (`workshop.ts:1138`, against
`ARCHITECTURE_BASELINE.md:265`); the cap of one Sundry line is decided before the claim
(`workshop.ts:2018`); `approveEstimate` claims the estimate by its stage only (`workshop.ts:2511`),
so a line edited after the supervisor's read is approved with it; a technician can decline a
finished job (`workshop.ts:1808`); a Master Admin may move a job straight to CHECKED_OUT, which
withdraws nothing (`workshop.ts:1148`); a contractor team is signed in on a pass read as
approved and revoked meanwhile (`security.ts:1908`); two road tests of one vehicle can be
asked for at once (`security.ts:1304`); the groups of a moved meeting are moved one by one
(`scheduling.ts:269`), a group can be invited to a meeting cancelled meanwhile
(`scheduling.ts:541`), and the purge deletes a booking moved to a later day after it was listed
(`security.ts:337`); undoing Enyo's unsent answer also undoes what a colleague's reply set
(`automations.ts:167`), and a stop between its claim and its sending loses the answer; a
customer's e-mail that races the automatic close stays on the closed ticket
(`intake.ts:210`) and a portal reply reopens it (`customer-portal/support.ts:52`); a stop
between PASSED and YARD leaves the vehicle in PDI (`plant.ts:342`) and two tablets can start an
inspection each (`plant.ts:219`); and the architecture document still says that the stock of a
cancelled job stays reserved (line 260), while `withdrawOpenSourcing` gives it back.

## 5. Proofs

All theorems hold for every set of people, documents and amounts allowed by the named
assumptions of the module, and are listed in `PROJECT.json`. Each module's type invariant is
one of them (`TypeCorrect`; `TeamTypeCorrect` for `JobTeam`, `StoreTypeCorrect` for `Store`). None uses a symmetry or a bound of the runs; where a bound is a
constant of the module (`MaxKm`, `MaxActs`, `MaxQty`), the theorem holds for each value of it.

| Module | Proved | Inductive invariant, and why it is needed |
|---|---|---|
| `JobCard` | `PaymentsBounded`, `RefundsBounded`, `OnePending`; with nobody Master Admin on the job: `OneDecisionFinishes`, `HandedBackOnlyRefunded`, `WorkWaitsForDeposit`, `ClocksTellTheStatus`, `ImplementsAccount` | `JobInv`, and for the clocks `ClockInv`: see below |
| `Estimate` | `SubmittedPartsMatched`, `NoPriceTypedIn`, `ApprovedFrozen` | `IInv` adds `NoTypedPrice`: an addition in flight carries no price for a Store part, and an edit in flight carries one only for a matched line, where it is the Store's |
| `JobTeam` | `ApproverSupervises`, `AssignedAccepts`, `FinishedLeftAlone` | `IInv` adds `Entitled`: whoever is about to approve was the supervisor, or a Master Admin, of the card as read; the claim names that supervisor |
| `Sourcing` | `NoReservationLeaks`, `StockCoversReservations`, `FinishedJobReleasesStock`, `NoDoubleRequest`, `SeparationOfDuties`, `PaymentsAndRefusalsStand` | `SInv`: see below |
| `Store` | `ShelfAgrees`, `ReleasesTraced`, `FirstInFirstOut`, `ReplayFindsWhatIsLeft` | `StoreInv`: see below |
| `VehicleService` | `OneHandover`, `NoOrphans`, `AccountsSettled`, `OneDecision` | `IInv` = types, `Books` (each service's own row adds up), `CardsNamed` (links go both ways), `InFlightLegal` (what a request in flight carries was allowed when read and stays allowed as long as its claim would succeed), `Alone` (one request holds a fresh claim) and `Undisturbed` (the service it holds is not sold, ended or linked by anybody else after `CheckAgain`) |
| `GatePass` | `ApprovedBeforeLeaving`, `ClosedPassesUnused`, `NoExtensionLost`, `MileageMonotone` | `IInv` adds `SignedSoFar` (each status has the signatures it stands for), `UsedAfterApproval` and `InFlightLegal` |
| `Scheduling` | `PlacesExclusive`, `VisitorsKept`, `LastGroupCompletes` | `NoDoubleBooking` is inductive with the types, because `bookExclusively` checks again under the locks. `LastGroupCompletes` needs `LInv`: see below |
| `Support` | `OneAnswer`, `ReopenedKept` | `IInv` adds `OneAnswering`: of all runs, at most one is between its claim and the undoing of it, and then the ticket says so |
| `Plant` | `SecondPerson`, `ChecklistComplete`, `YardEarned`, `PassedKept` | `IInv` adds `Checklists` and `Readings`: what a submission in flight has read as answered stays answered, and whoever is about to decide has inspected nothing |

The argument for the Job Card. `PaymentsBounded` rests on monotonicity: whatever the lines the
customer pays for, their total is at most the whole estimate's, and a payment is
refused beyond the former. `RefundsBounded` is inductive with the type invariant.
For the others neither is, because a request in flight (`doing[u]`) will write a
status decided earlier. The strengthening `JobInv` says what such a request may
carry: `MovesAllowed` (a pending move is one the rules of `job-card-status-rules.ts`
allow from the status it was decided in), `SyncsAllowed` (the sync only moves
between `IN_PROGRESS` and `AWAITING_PARTS`) and `HandBackPaid` (a pending hand-back
was decided when everything paid had been refunded, and stays true because a
cancelled card takes no payment and owes nothing more). With them,
`HandedBackRefunded` and `OneDecision` are inductive: `SettledStays` shows that
money stays settled on a cancelled card, `FinishedSteps` and `OpenSteps` say how
the status may change from a finished and from an open card. Four frame lemmas
(`MoneyChanges`, `RowsChange`, `StatusChanges`, `DoingChanges`) state once which
actions touch which variables, so each action appears only where it matters.
`ImplementsAccount` then shows that each step is a step of `CustomerAccount` or a
stutter. The five theorems without a Master Admin (`Holders["admin"] = {}`) are false with
one: the code lets a Master Admin make any status move, `CHECKED_OUT` included.

The clocks of the Job Card (`ClocksTellTheStatus`). Whether a timestamp stands follows from the
status, but a move decided on one status is saved on it later, and stamps by where it comes
from and where it goes. `ClockInv` adds `MovesInOrder`, that each pending move is one of the
order in which a job proceeds (`MoveOrder`, which the rules for the move, `AWAITING_PARTS`, the
sync and rework all stay within), and `NothingBeforeNotice`: a status that only follows the
notice to the customer is not found, nor decided on, before it.

The argument for Sourcing. The code never stores the sum of the reservations of a part; it adds
and subtracts, request by request. `ReservedForApproved` says that what it keeps is that sum,
and is inductive only with `FinishedHoldsNoStock` (finishing a job, which looks through its
requests under the locks, forgets none), `OneLiveRequest` and the types. So the proof needs to
know what a finite sum does when one term is added, removed or raised. `SumFunctionOnSet` is a
fold by a recursive function over finite sets, of which the prover knows only that *if* a
function satisfies the recursion, the fold is its value. That one exists is proved first
(`SubsetInduction`, `GraphUnfolds`, `SumUnfolds`): graphs over the subsets of small
cardinality exist by the least counterexample (`LeastNat`), and two of them agree. The lemmas
`SumPick`, `SumAgrees`, `SumRemove` and `SumGrows` are all the actions then use.
`SeparationOfDuties` rests on `Hands` (each state of a request has the signatures it stands for,
pairwise different) and `InFlightLegal` (who is about to sign was none of those who had signed,
as long as the claim would still succeed).

The argument for the Store. A QUANTITY part keeps no remainder per delivery: every release
replays all receipts and uses. What is proved rests on a closed form of that replay: a delivery
holds what it brought less what the uses of it took (`Holds`). `ReplayIsHolds` shows that the
replay finds just that, because the closed form solves the equation of its recursion and two
solutions agree (at the least step where they differed, they would agree). It needs the uses to
be in order: each names a delivery that is there, except one from before deliveries were
recorded, which is the first (`UsesNamed`), so the draw it is replayed with meets one delivery.
For a BATCH part `NothingOverdrawn` says that the stored remainder is the same number, so one
argument serves both. The draw is proved by going through the deliveries in order: the first
`k` give what is asked for, or all they have (`DrawnInAll`), and a delivery is touched only when
the older ones are emptied (`OlderEmptied`). The loop that records the uses is a recursion of
which the prover first has to be told that it has a solution (`StepsExist`); it then logs, of
the first `k` deliveries, what was drawn from each (`Logged`). Together: what is promised to a
request is reserved, what is reserved is on the shelf, the shelf is what the deliveries hold,
so a release is covered in full, its uses add up to what was asked for, and both sides of
"stock and records agree" go down by the same amount. For a SERIALIZED part the same follows
from counting units (`UnitsTracked`; `UnitsChosen`: a release in flight has chosen as many units
as are asked for). An opening balance can be reversed because nothing reserved or used is of it;
that it can be loaded beside goods receipts, which do not take its lock, is harmless to the
sums because its receipt comes first (`LotsInOrder`) and there is one import at a time
(`OneImport`). `FirstInFirstOut` is the action property, read off `ReleaseDraws`.

The last group to leave (`LastGroupCompletes`). The gate closes a visitor group in one call,
asks in a later one whether the meeting's other groups are gone, and a third completes it; so
"all gone and not completed" is a state on the way, allowed only while some check-out is still
on its way to ask or to save. The proof follows the last of them: it finds nobody left, unless
somebody invited a group in between, which then has not left. `LInv` adds `Attached` (groups
belong to meetings that were booked) and the property itself; `Leaving` says which requests
count.

The other modules follow the same line: an update that names what was read in its `where`
clause succeeds only if what was decided still holds, so the invariant has to say, for each
kind of request in flight, what stays true as long as its claim would succeed.

Only model-checked: the liveness properties. Liveness under fairness and `ENABLED` are out of
the prover's reach. `NothingPaidForFinished` of `sourcing_paid` is
false.

## 6. Not modelled

Warranty, the recycle bin, users and access control, CRM, mail, the audit journal, analytics
and the website beyond its support pages; `PROJECT.json` gives the reason for each. In the
modelled components, besides what section 3 lists:

* workshop: reminders, complaints, inspection reports, number clashes, changes of role while a
  request is in flight;
* Vehicle Service: the team's approval and assignment, inspections, estimate lines, stopTracking,
  reminders, requests for parts;
* Store: several lines and batches per delivery, unit conversion, pricing alerts, catalogue
  editing;
* gate: deliveries, incidents, `confirmVehicleExit`, receiving and extending a visit;
* calendar: participants, rooms, delegates, reminders, renaming a group;
* Support: assignment, queues, priority, notes, ratings, handover texts, target checks, learning,
  assisted sessions.

## 7. Plan

Done: `CustomerAccount`, `JobCard`, `Estimate`, `JobTeam`, `VehicleService`, `GatePass`,
`Scheduling`, `Support`, `Plant`, `Sourcing` and `Store` with proofs. Next, in this order:

1. `Warranty`: registration, coverage, claims and their effect on the bill-to of lines.
2. The composition of `JobCard` and `Sourcing` with a Master Admin, and of `VehicleService` with
   `JobCard` on one vehicle (an abstract "visit" both implement).
3. `Numbering` (`retryOnNumberClash` against the unique index), stated abstractly and used by the
   others.
4. `RecycleBin`, `AuditJournal`, deliveries and incidents at the gate.
