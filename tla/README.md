# Verification of DAZAT mobility

TLA+ specifications of DAZAT, a ride service: what a Booking, an offer to a
Driver, a Journey, a fatigue report, a payment intent, a code, a message and a
support case go through, in which order and by whose hand, and what the Rider's
and the Driver's screens make of it. TLC checks them on small instances; TLAPS
proves what matters most for every instance.

## 1. The system

`services/api` is one Node process over PostgreSQL. A *service* module holds the
commands of one area; a command runs in one or several transactions, and its
only memory is the database. So the state of the system is its tables, and its
hard behaviour is what happens *between* two transactions of one command, or
between two statements of one transaction that decide on different rows. The
apps hold a copy of what they were last answered, and nothing else.

| component | state | commands | modules |
|---|---|---|---|
| Booking path (`domain/booking-status.ts`) | `booking.booking` status and `aggregate_version` | written by Booking, Dispatch, Journey, fair treatment | `BookingSpine` |
| Booking and pricing (`modules/booking`) | `pricing.quote`, `pricing.fare_agreement`, two `command_deduplication` tables | create, quote, confirm | `Booking` |
| Dispatch and availability (`modules/dispatch`) | `dispatch_attempt`, `driver_offer`, outcome attribution, `driver_assignment`, `availability_state`, shift | start a search, list, decline, accept, set availability | `Dispatch` |
| Pickup, RideCheck, start (`journey-service.ts`) | `journey`, `journey_leg`, `ridecheck_session`, `operational_hold` | acknowledge, locate, arrive, start and verify RideCheck, start | `Journey` |
| Live journey (`live-journey-service.ts`) | location observations, approach and completion evidence, route changes | locate, arriving, complete, route requests | `Journey`, `LiveJourney` |
| Safety signals (`modules/safety`) | `safety.safety_signal` | create | `LiveJourney` |
| Core journey (`modules/core-journey`) | none: a page over seven rows | read | `CoreJourney` |
| Driver daily operations | shift, fatigue observation, hold, reconciliation, support case | report fatigue, clear after rest, reconcile, support case | `Dispatch`, `Journey`, `DriverCare` |
| Fair treatment | safety termination, conduct case, appeal | safe termination, conduct, appeal, screen | `Journey`, `DriverCare` |
| Maintenance | pre-shift check, defect, restriction, availability | pre-shift check; page and gate | `DriverCare`, `DriverStanding` |
| Driver operations | application, permissions, evidence | start or resume; eligibility page | `DriverStanding` |
| Control room fatigue handover | `driver_fatigue_handover`, task scope, role assignment | claim, safe stop, replace, transfer, recover, complete; queue and page | `FatigueHandover` |
| Identity, sessions | account, challenge, session, dedup | register, challenge, confirm, authenticate, revoke | `OneTimeCode`, `Identity` |
| Finance | `payment_intent`, `payment`, triggers of 0032-0037 | prepare an intent; move, record and update within the triggers | `Payment` |
| Communications | communication, plan, delivery observation, acknowledgement | request, observe, acknowledge, suppress | `CommunicationRules`, `Communications` |
| Rider and Driver apps | React state of one screen | the handlers behind the buttons | `RiderScreen`, `DriverScreen`, `Apps` |
| Fleet, organisations, institutional transport, telephony, server wiring, workers, contracts, scripts | see section 7 | | not modelled |

How they interact. Booking hands a Booking over at `READY_FOR_DISPATCH`; Dispatch
at `DRIVER_ASSIGNED`; Journey leaves it `COMPLETED`, where payment begins. They
call nothing of each other: each reads and writes the others' tables, and the
status of `booking.booking` with its version is what keeps them apart. The rows
of a Driver (availability, shift, fatigue) are written from Dispatch, Journey,
daily operations, fair treatment and maintenance. Apps call commands, poll, and
retry with an idempotency key.

What is hard, and reached by no test of the repository: commands of one Booking
that overlap; a request that dies between two of its transactions; a key that is
used again, or by two requests at once; acceptance, decline, expiry and
withdrawal of one offer; eligibility read early and used late, or read by five
deciders in five queries; a fatigue report during RideCheck, start or completion;
the unsafe end of a Journey and what may still be sent afterwards; location
reports, deliveries and answers that arrive late and in another order; rows of
several services that have to tell one story, and the pages that tell it.
`PROJECT.json` lists these hazards with their lines and properties.

## 2. Plan

| order | module | composes | abstract specification | stage |
|---|---|---|---|---|
| 1 | `BookingSpine` | - | is one | done |
| 2 | `Booking`, `BookingProofs` | INSTANCE `BookingSpine` | refines the spine (TLC and TLAPS) | done |
| 3 | `Dispatch`, `DispatchProofs` | INSTANCE `BookingSpine` | every Booking write is a spine step (TLAPS) | done |
| 4 | `Journey`, `JourneyProofs` | INSTANCE `BookingSpine` | every Booking write is a spine step (TLAPS) | done |
| 5 | `CoreJourney`; theorems in `JourneyProofs` | EXTENDS `Journey` | - | done |
| 6 | `FatigueHandover`; theorems in `JourneyProofs` | EXTENDS `Journey` | refines `Journey` (TLAPS) | done |
| 7 | `OneTimeCode`, `Identity`, `IdentityProofs` | INSTANCE `OneTimeCode` | refines `OneTimeCode` (TLC and TLAPS) | done |
| 8 | `Payment`, `PaymentProofs` | - | - | done |
| 9 | `DriverCare`, `DriverCareProofs` | - | - | done |
| 10 | `CommunicationRules`, `Communications`, `CommunicationsProofs` | EXTENDS the rules | - | done |
| 11 | `LiveJourney`, `LiveJourneyProofs` | - | - | done |
| 12 | `RiderScreen`, `DriverScreen`, `Apps`; theorems in `CommunicationsProofs` | INSTANCE both screens | - | done |
| 13 | `DriverStanding`; theorems in `DriverCareProofs` | - | - | done |
| 14 | The API of `Apps` shown to be a view of `Booking`, `Dispatch` and `Journey` | | | next |
| 15 | Replacement and transfer of a handover in the next-state relation | `FatigueHandover` | | once code creates a second assignment |

## 3. The modules

**BookingSpine** — `status` and `version` of each Booking; `Create`, `Advance`
along `FORWARD_TRANSITIONS`, `FailSearch` (two forward steps in one transaction)
and `RaiseIncident`. Nothing writes the remaining exception statuses.

**Booking** — one `worker` is one HTTP request; `pc[w]` is the transaction it runs
next, and `target`, `key`, `chosen`, `nextStatus` are its local variables. Each
transaction is one action, but `persistQuote` is two: the scan for OFFERED quotes
of the `UPDATE ... SET status = 'SUPERSEDED'` takes its snapshot before the
INSERT of another request commits. `Abandon` ends a request between two
transactions: an error, a conflict, a lost process. `QuoteLapses` and
`ScheduledTimeArrives` are the clock. `KeyScope[b]` is the set of keys that
clients use for Booking `b`; the assumption `DistinctKeys` says that no key is
used for two Bookings. Prices and requirements are left out: no property tells
them apart.

**Dispatch** — from `READY_FOR_DISPATCH` to `DRIVER_ASSIGNED` or
`NO_ELIGIBLE_DRIVER`. `startBookingDispatch` reads its candidates and inserts
offers later (`scanning`, `candidates`); `acceptDriverOffer` reads eligibility
without a lock and commits later (`accepting`), holding the row locks of attempt
and offer. All other commands lock the row they decide on and are one action.
The many inputs of the eligibility evaluation are one value per Driver,
`evidence`: *clear*, *fatigue* or *blocked*; what stands behind that value is in
`DriverStanding`. Unique indexes and the CHECK of `availability_state` are
conjuncts. `late` is the passed expiry of an offer.

**Journey** — from `SEARCHING_FOR_DRIVER` to `COMPLETED` or `ACTIVE_INCIDENT`.
Every command opens with `readLockedJourney`, which locks Journey, Booking,
assignment and leg, so a command is one action. `reportDriverFatigue` is two:
it looks for a verified passenger, and commits later; `reports` holds the open
ones and the assignment row they lock. A location is *none usable*, *near* the
destination or *at* the place the next decision needs; `LiveJourney` has what
makes it so. `acceptDriverOffer` and `setDriverAvailability` appear in the small
form that this module needs; Dispatch has them in full.

**CoreJourney** — `projectCoreJourneyProgress` as operators over the rows of
Journey, with the payment intent at any status. It adds no variable, so every
step of Journey is a step of the page; the run of Journey checks it.

**FatigueHandover** — the handover that a report with a passenger requests, and
the Control Room that takes it over. `stage` and `supportCase` are the statuses
of the two rows; `roles` and `tasks` are immutable rows with an expiry, and
`now` is the clock that decides which are current. `JourneyCommand` is any step
of Journey, and inserts handover and case when `reportDriverFatigue` writes its
hold. Each command locks handover, case and hold, and is one action; `now` stands
still during it, so that its last check of the expiry follows from the first.
`AssignRole` is external: nothing in the repository inserts a role.
`PermittedNextActions` and `RecoverableHandovers` are the task page and the queue
of expired tasks. `RecoverFatigueHandoverOwnership`, the two commands of a
replacement and `CompleteFatigueHandover` stand outside the next-state relation,
because no reachable state accepts them; `OffersAndAnswers` says so, in every state
in which they are offered. What a command asks for, the trigger of the table
included, is an operator of its own (`AcceptsSafeStop`, `AcceptsCompletion`, ...), so
that the property and its proof need no `ENABLED`. The replacement itself, a second assignment and leg that
no code creates, is left open: the commands are refused whatever replacement there
is.

**OneTimeCode, Identity** — `OneTimeCode` is what contact verification promises:
one open code per account, spent once, for one session that ends for good. It
has no attempts, resends, deliveries or requests. `Identity` has them:
`startAccountRegistration` and `startContactVerification` are two actions each,
since they read before they insert; `delivered` is the set of codes that reached
the person, in any order, late or never. `CodePhase` and `CodeSession` are the
refinement mapping. A registered account has one contact point, so the contact is
named by its account.

**Payment** — `preparePaymentIntent` in two actions (key, then Booking under its
lock), and the provider side as a relation: `UpdateIntent` and `UpdatePayment`
write anything that the triggers and indexes of 0007 and 0032-0037 accept, and
nothing else, since no provider code exists. `Fare` counts an amount in units.

**DriverCare** — a request of one Driver stands between its statements
(`request`, `profileLock`, `shareLock`): reconciliation, support case, appeal,
pre-shift check and the fair-treatment screen, which reads counts and lists in
separate statements. `effect` and `stored` relate what a key did to what it
answers. `availability`, `journey` and their versions move under it as the other
services move them.

**CommunicationRules, Communications** — the three decisions of the domain
(notification policy, delivery assurance, closure route) as operators, and the
rows they decide on: a request that reads contacts, preference and channel health
in statements of their own, observations of a delivery in any order, and
acknowledgements whose key is looked up before the message is locked.

**LiveJourney** — one Journey on a line of places, with a clock: a report is
`(place, observed, good)`, is stored with the verdict of the moment it came in,
and is judged again at each decision. The decisions that take the first of several
cases that fit are written with IF, in the order of the code. The page, the route changes and the Safety
signals are read and raised from any version of the page.

**RiderScreen, DriverScreen, Apps** — a screen is a record of its React state; a
press closes over the values of its render (`booking`, `arg` of a call), and an
answer sets what the handler sets. `Apps` has the network: a call is *sent*,
*answered*, *read*, or *orphaned* when the app has given up on it and the API may
execute it still. `busy` is a flag that does not count its handlers. The API is
what Booking, Dispatch and Journey show of themselves to a screen.

**DriverStanding** — the application with its key, version and those who move it:
the Driver, the staff and the demo seed. `Resumed` is what a start makes of the
application, `ProfileWrites` what it writes to the profile, and `StartAccepted` what the
command and the triggers ask of it. One of these is deferred and looks at every
version of the profile that the transaction wrote, as the application is at COMMIT
(`ProjectsAtCommit`); a start that is refused is rolled back and is no step. The
contact may be withdrawn and restored while the session goes on. One record of
`evidence` is read by five deciders: eligibility page,
maintenance page, going online, Dispatch and the start of a Journey. They are
operators, each translated from its own query, and are compared.

The `MC*` modules give TLC symmetry sets, key scopes and inputs. Definitions whose
comment begins *Faulty variant* are plausible mistakes in the code: put in the
place of the definition after them, each makes a property fail.

## 4. The runs

| run | instance | distinct states | shows |
|---|---|---|---|
| `booking_race` | 1 Booking, 2 quotes, 2 keys, 2 requests | 110,605 | overlapping and dying requests keep to the spine and confirm only an accepted quote of the Booking |
| `dispatch_pair` | 2 Bookings, 2 Drivers, waves of 2 | 371,202 | offers close once, with the right outcome; one assignment per Driver; availability, shift and assignment agree |
| `journey_pair` | 2 Bookings, 1 Driver, 2 attempts | 193,137 | records agree, RideCheck protects the start, completion is clear, an incident is final, the progress page only advances, a started Journey ends or is held |
| `handover_pair` | 1 Booking, 2 operators, tasks of 2 hours in 3 | 262,368 | handover, case, task and hold agree, one operator at a time, rest clears nothing while a handover is open, what the pages offer and what the commands then do |
| `identity_pair` | 2 accounts, challenges, sessions, keys, requests; 2 attempts | 659,245 | a session proves its contact; the promise of `OneTimeCode` under overlap, resend, late delivery and replay |
| `payment_pair` | 2 Bookings, intents, keys, requests; 1 payment | 357,914 | one open intent per Booking; captured money is not forgotten by any move, record or update that the triggers and indexes accept |
| `apps_pair` | 2 Bookings, 2 handlers at once, 1 job | 1,494,370 | a confirmation carries a quote of its own Booking; no screen is ahead of the API |
| `care_pair` | 2 requests, 1 key, 2 subjects, 1 Journey | 1,614,904 | one effect per key; an appeal that is counted is listed; a reconciliation records one moment |
| `communications_pair` | 2 messages, 1 person, 2 keys, 2 client ids, 2 calls | 733,400 | an acknowledgement is of the message it names; plan and notification policy agree, as do the view and two routers about what is in time and can be delivered; a late observation changes nothing |
| `live_pair` | 3 reports, 3 places, 4 times, 2 people and the Driver, 2 requests | 1,895,101 | plausible locations are a way the vehicle can have gone; a completion has its witnesses; the page does not show more than the decisions use |
| `standing_pair` | 2 keys, 6 versions, 2 changes of evidence | 213,493 | an application that is there can always be resumed, and a first start is accepted only with an unverified contact; five deciders agree where they must |
| `journey_fatigue_race` | 1 Booking, 1 Driver | - | expects a violation: a report that overlaps RideCheck and start leaves a running Journey of a tired Driver without its hold |

The last one states what two documents of the repository say (`findings` in
`PROJECT.json` quotes one), and shows the interleaving of a fatigue report with
RideCheck and start in which the code does otherwise. The other disagreements between
code and documents, which need no interleaving to be seen, are in section 7.

**Bounds.** Most of the state is finite without counters: a Booking moves forward
at most thirteen times, quotes, challenges, sessions, intents and payments are
never deleted and there are two of each. Named bounds:

- `MaxAttempts` 2 (RideCheck, codes): a wrong attempt that is not the last.
- Two requests, operators, keys or calls: every decision compares a row with what
  one other command may have done to it, and a key has to be new once and used
  once. Two quotes are needed for one to supersede the other; two Bookings and
  two Drivers with waves of two give two offers to one Driver, two Drivers for one
  Booking, and a Driver who is not asked because evidence is missing. One Driver
  with two Bookings carries availability, fatigue and BREAK from one Journey into
  the next.
- `TaskLife` 2 in a `Horizon` of 3: a role lasts one to three hours and a task
  two, so either may end first, and a second operator may follow.
- `Slots` (two handlers at once: the busy flag is cleared by one while the other
  runs) and `MaxJobs` 1 in Apps. The second Booking is there for an answer of an
  earlier form.
- `MaxVersion` 3 in DriverCare: a reconciliation before, between and after two
  moves of the availability; 6 in DriverStanding: an application that is started,
  resumed and goes back once before it is closed. `MaxChanges` 2: any two
  parts of the evidence may be out of order together.
- `Readings`, `Horizon` 3, `MaxRequests` 2 in LiveJourney: every place at every
  time up to one step ahead of the clock, and a poor reading; `MaxAge` 1 lets a
  report be used, age and lapse; three reports are one for the pickup and two for
  the way, and one may wait on the device behind the others. All units are
  scaled: a step of time and of place stand for the limits of the policy.
- `Requests`, `Contacts`, `Observations`, `Horizon` 2 in Communications: one value
  for each branch of the decisions, two observations that can come in both orders.

Symmetry is used between members of a set that no code orders; `journey_pair` uses
none, because it checks a liveness property. What is a theorem (section 6) holds
without any of these bounds.

**Deadlock** is looked for in the runs of Dispatch, Journey, FatigueHandover and
Communications, where somebody can always send something. The other runs say
`CHECK_DEADLOCK FALSE`, since those systems really stop: every Booking is confirmed
and both quotes have lapsed; codes, sessions, intents, report ids, keys and
support matters are used up, and no request is open; the clock, the versions and
the evidence have reached their bound.

## 5. Fairness

Only `StartedJourneyEnds` needs it; all other properties are about single steps.
`Fairness` of Journey says: the transaction of a fatigue report ends (weak; it may
abort). A Driver with a Journey under way reports a location at the destination
again and again, and sends `markJourneyArriving` and `completeJourney` again and
again (strong). Strong, because the commands are not enabled all the time: a
location goes stale and has to be reported anew, and a report that holds the
assignment row makes the others wait. These are presses of a Driver who wants to
finish (`sendLocation`, `markDestinationApproach`, `finishJourney` of the app), and
PostgreSQL serves those who wait for a lock. Nothing is assumed about the
way to the start, the passenger, or RideCheck, which a documented decision
(ADR-0005) leaves without a restart; and no fault is ever required to happen or
to stop. The property has three ways to end, and the hold is one: whether the
Control Room then closes the handover is outside the assumption, and section 7
says why it cannot.

## 6. Proofs

`BookingProofs` — the invariant ties the requests to the rows: a request past
`acceptQuote` has an agreement, agreements and ACCEPTED quotes belong to each
other, and an accept key that is recorded names a Booking with an agreement.
Confirmation is not inductive without these, because `acceptQuote` and the status
change are separate transactions. `ConfirmedBookingHasOwnAgreement` assumes
`DistinctKeys`: section 7 says what happens without it.
`PresentedBookingHasOwnQuote` has its own invariant: a key that persistQuote
recorded is one of the Booking of its quote, and a request that leaves DRAFT holds
a quote of its Booking. `AcceptedBookingResumable` needs that acceptance and dedup
row are one transaction and that an answer is recorded after the last status
change. The refinement `BookingImplementsSpine` needs only the expected status in
`transitionBooking`.

`DispatchProofs` — the invariant adds to the properties what the open
transactions hold: an acceptance in flight has its attempt and an OFFERED offer
locked, and at most one is in flight per attempt; a scan's Booking is still
READY. That carries the checks of `acceptDriverOffer` to its commit. That a
Driver is assigned once rests on the unique index and not on eligibility.

`JourneyProofs` — the invariant is a conjunction of parts, each there because
another is not inductive without it:

- `TypeOK`, with *an open session has attempts left* and *no session before pickup*;
- `RecordsAgree` for each Booking, with *the driver of an assignment is a Driver*;
- `AssignedWhileActive`, which rests on the parts above, since an availability
  row is shared by all the Bookings of its Driver;
- a session is LOCKED exactly while its EXHAUSTED hold is there, so that the start
  finds no verified session under a hold;
- an open report that saw a verified passenger holds the assignment row, so the
  passenger is still there when it commits; a handover has its hold, a hold its
  assignment. `CompletionIsClear` and `HeldDriverStaysFatigued` follow from it.

The same module has the theorems of the two modules that extend Journey.
`HandoverImplementsJourney` shows that a step of the composition is a step of Journey
or leaves Journey alone; the invariant above then holds under the Control Room too,
and the rest builds on it. The invariant of FatigueHandover adds the three properties
of the state to that one. They need each other: a claim gives a second task to nobody,
because a handover in `REQUESTED` has no task; its hold is active because no command
of Journey releases it, and a Journey does not complete under an open handover
(`CompletionIsClear`, used on the step). `ClearanceWaitsForHandover` follows, since an
open handover has a Journey in a status that rest clearance refuses.
`OffersAreAnswered` adds that no case is ever resolved (`NeverResolved`), as only a
completion resolves one, and a completion wants a reason that no hold has: so whatever
the task page offers as a safe stop is accepted, and the rest ends nowhere.
`PageOnlyAdvances` needs of the invariant that the records agree and that the status
ASSIGNED of a Journey is not written (`PageInv`); it reads the milestones off the rows
one by one (`MilestoneTable`) and shows for each action which rows it moves.

`LiveJourneyProofs` — the decisions read the newest row of some set, so the invariant
says that every such query has an answer (`NewestInv`). `OrderInv` relates the order
of arrival to the order of observation: rows of the pickup come before those of the
Journey, and what is plausible after the start was observed after all that was
plausible before; without it a late report could get between two plausible ones, and
`PlausiblePathIsPossible` would not be inductive. Distances on the line obey the
triangle inequality, which carries reachability over a row to the next. The witnesses
of a completion are kept from the time they are found (`WitnessInv`), and rows are
only added, so they stay. `ShownLocationCounts` and `SignalIsNotPlayedDown` are then
about the three encodings of one state.

`IdentityProofs` — seven conjuncts. A start in the middle holds the contact point,
so what it saw of the live challenge is still true when it inserts
(`RequestsOK`); recorded keys and accounts correspond one to one (`KeysOK`); with
them a contact has one live challenge, a live challenge has an attempt left, and a
session has a consumed challenge of its own account (`SessionProvesContact`). The refinement
`IdentityImplementsOneTimeCode` maps each action to `Issue`, `Die`, `Spend`, `End`
or a stutter; a session that ends is an `End` because no two sessions have one
challenge.

`PaymentProofs` — the transition tables leave no captured status for an uncaptured
one, and only an active status leads to an active one (`Tables`); the unique index
does the rest for `OneOpenIntentPerBooking`. That captured money stays
needs `CapturedIsDated`, which several triggers keep between them: a captured
status comes with money, with its time, and with no more refunded than captured.

`DriverCareProofs` — for DriverCare: a reconciliation past its reads holds both locks, its key is
still free and the rows it read have not moved (`HolderOK`); a request with an
effect is the writer of the answer that its key keeps (`WriterOK`), and an answer
that names a writer is the one that is kept (`AnswerOK`). `OneEffectPerKey`
follows. `ReconciledSnapshotIsCurrent` is about the one step that reconciles. For the
screen, the counted appeals of a request that has not read its lists yet are still
appeals of the Driver (`ScreenOK`), since an appeal is resolved and never deleted.
For DriverStanding: there is one application at most, the profile has its status, and
its version is 1 while it is STARTED (`OneApplication`). A start that finds it writes
the profile once at most, so every trigger accepts it; a first start writes it twice
when the contact is verified, and is accepted exactly when it is not
(`ApplicationsResume`; section 7 says what follows). The
agreement of the deciders does not depend on how the evidence came about: it is
proved of any evidence at all, and holds in every state for that reason.

`CommunicationsProofs` — acknowledgements belong to rows that asked for them, are
unique by key and by client id, and what a caller was told is what is recorded;
a call past its look-up holds the row (`LockHolds`), which makes the insert safe.
`LateObservationsChangeNothing` rests on an order without ties: no two observations of one
message have the same id, the last key of the order (`ObservedInv`), so the latest is
unique and an earlier one does not displace it. `DecidersAgreeInTime` is built of two
lemmas. `PlanIsPermitted` needs that a plan's
currency is CURRENT or stale as its request's source version is (`CurrencyInv`), and is
then a comparison of two decision tables for every contact, preference and health of a
channel. `RoutersAgreeOnRows` needs that only what was requested with an
acknowledgement is acknowledged (`RequiredInv`). Neither says that the deciders
always agree: section 7 has the inputs that only some of them know.

The same module has the theorems of Apps, whose invariant is about time: what a call
was answered, and what a screen shows, *has been so* (`HasBeen`, `JourneyHasBeen`,
`HasDriver`), and the API only moves on (`ApiMoves`), so it has been so ever after
(`WhatHasBeen`). Each handler is shown to put on the screen only what its answer says
of the Booking it was called for, and each button to name a Booking of the screen.
Nothing in it depends on which handler runs when, or on `busy`, so it holds for any
number of handlers at once. `OwnQuotesOnly` needs of the API that a confirmation
compares the quote with the Booking it belongs to.

All are for arbitrary sets, and any clock, with the assumptions named in the
modules (`None`, `Nil` and `NoAnswer` are no members; `WaveSize`, `MaxAttempts`,
`TaskLife`, `Fare` and the version bounds positive; what a device can report is a
place, a time and a quality).

Only model-checked: `StartedJourneyEnds`, which is a liveness property under fairness
and out of this prover's reach. Every other property of the passing runs has its
theorem. The run that expects a violation is a counterexample and has none.

## 7. Not modelled, and where the code departs from its documents

Left out of every module: the contents of rows (prices, names, payloads), outbox
and audit rows, which are written in the same transaction as what they record and
read by nothing; authorisation, which every command checks before it reads; dedup
of single-transaction commands, where the key and the effect commit together; the
serialisation failures and lock waits of PostgreSQL, except as actions that end a
transaction without effect.

Components without a module. *Fleet marketplace*, *organisations*, *institutional
transport* and *telephony*: guarded inserts of one row and reads; no row of theirs
takes a second step in this code. *API server*: wiring and configuration; a request
cut off by a shutdown is `Abandon`, `Fail` or `RollBack` of the modules.
*Workers*: a stub, nothing reads the outbox. *Contracts, scripts, tests, design
system*: read as statements of what the code means to do.

Parts of modelled components. *Fatigue handover*: the second
assignment of the Booking that a replacement is, as no code creates it; the statuses
`REPLACEMENT_ASSIGNED` and `PASSENGER_TRANSFERRED` are not reached. *Finance*:
ledger, refund and payout rows have no writer; of the provider's writes, deleting a
row, moving a payment to another intent and inserting an intent past CREATED are left
out, although the schema would accept them. *Driver operations*: how the demo seed's
requirement and decision rows satisfy the guards of an approval. *Maintenance*: repairs, recalls and
perks have no command in the service. *Communications*: the pages of
`communications-operations` and `communications-closure` are reads. *Apps*:
registration, `requestStop`, payment, location reports and the sections that only
read.

The deciders of one message know different things, and decide differently where that
matters. The closure route is told neither the acknowledgement deadline nor whether the
recipient can be reached: where delivery assurance opens a failure case for one of these
reasons, it may only wait, or try a fallback or the primary channel. It stops at the attempt
cap what assurance still waits for or leaves alone, and opens a case as soon as a critical
message has failed without a fallback, where assurance does nothing until the limit. The
notification policy knows neither expiry nor quiet hours: it may allow a message that the
core records as EXPIRED, or queues without a channel until the quiet hours end.
The parts of `DecidersAgreeOnCommonFacts`, `PlansFollowPolicy` and `RoutersAgree`, are
about the rest. Only the missed deadline contradicts a document; it is in the table below.

An ordinary first start of a Driver's application, with a verified contact, does not
commit in this code (the table below), and so `standing_pair` reaches applications in two ways only:
a first start while the contact is withdrawn, which writes the profile once, and
the demo seed. What follows from there is the same for an application that staff
would open.

While the modules were written, the code was found to do other than a document
says in these places. None needs an interleaving to be seen, and no property
could be more than a restatement of the line, so they are kept here.

| code | what it does | what is said |
|---|---|---|
| `booking-service.ts:508` | a confirmation that dies between its last two transactions leaves the Booking CONFIRMED, and no command takes it further | ADR-0003:14: the Rider "confirms it, and reaches `READY_FOR_DISPATCH`" |
| `booking-service.ts:378` | the answer of a quote request that was overtaken names a superseded quote as OFFERED | `contracts/booking.ts:70` types the status as `'OFFERED'` |
| `booking-service.ts:410` | `AcceptBookingQuote` keys are looked up without their Booking, so a key used for two Bookings confirms the second without an agreement of its own | ADR-0007:14 prepares payment "from the immutable FareAgreement" of the Booking |
| `dispatch-service.ts:871` | a search whose last offer is declined or expires stays SEARCHING | `phase-0.73-confirmed-booking-dispatch-http.md:5`: not "an indefinite search" |
| `dispatch-service.ts:425` | BREAK inserts a tuple without region and vehicle, which the CHECK of `0004…sql:112` refuses before ON CONFLICT is looked at | `README.md:323`: "BREAK and FINISHING_SOON are normal, non-punitive work intent" |
| `dispatch-service.ts:410` | fatigue is ignored when a new shift starts from OFFLINE, and the new shift has no observation | `phase-0-36-checklist.md:6`: "Stop new offers and Journey starts immediately" |
| `dispatch-service.ts:618` | a search wants `READY_FOR_DISPATCH`; nothing takes a SCHEDULED Booking there | - |
| `control-room-fatigue-service.ts:371` | recovery of an expired ownership keeps the status, which the trigger of `0024…sql:74` refuses | `phase-0-46` traceability, line 5: "No stranded expired task" |
| `control-room-fatigue-service.ts:570` | completion, and the replacement before it (lines 707 and 828), want a hold `DRIVER_FATIGUE_SAFETY`; `reportDriverFatigue` writes `DRIVER_FATIGUE_REPORTED` | `phase-0-43-checklist.md:6`: "release only the linked active `DRIVER_FATIGUE_SAFETY` hold" |
| `live-journey-service.ts:482` | a governed service completes with a `handover_record` only, a table that no code writes | ADR-0006, item 11, means it so: the command waits for an authority model |
| `finance-service.ts:96` | only a CREATED intent is found again; a Booking whose intent was captured is prepared a second time, and the partial index of `0007…sql:39` allows it | ADR-0007:14: one charge "after governed Booking completion" |
| `maintenance-reliability-service.ts:160` | a concern joins on `journey.assignment_id`; the column is `active_assignment_id` (`0005…sql:24`), so the whole check is rolled back | ADR-0010:14: "A concern creates a precautionary defect and restriction" |
| `dispatch-service.ts:410`, `journey-service.ts:798` | going online ignores services that the vehicle is restricted for; the start of a Journey looks at neither permissions nor the pair's insurance | `phase-0-8-checklist.md:21`: "Going online, candidate selection and offer acceptance revalidate current service permission"; ADR-0010, item 5: "the same maintenance gate" |
| `communications-service.ts:376` | a request whose expiry is not after its creation is suppressed as EXPIRED and then refused by a CHECK of its row | `assessCommunicationCurrency` means to keep it as SUPPRESSED |
| `live-journey-service.ts:184` | a report of a clock that is ahead is stored STALE and answered `usableForCriticalDecision: false` (`contracts/journey.ts:19`), and accepted as evidence once the server's clock has caught up | - |
| `safety-service.ts:120` | a signal records the confidence that the location had when it was stored, LIVE perhaps, whatever its age | `phase-0-6-checklist.md:9`: "read-time freshness" |
| `driver-operations-service.ts:133` | a first start writes STARTED to the profile and, with a verified contact, CONTACT_VERIFIED in the same transaction (line 161); the trigger of `0008…sql:130-143` is deferred and fires for each row version, so it refuses the first at COMMIT (`StartAccepted`) | ADR-0008:15: the command "can create/resume an application and recognise an already-authoritative verified contact" |
| `communications-closure.ts:298` | the closure route is not told the acknowledgement deadline and waits for a delivered message whose deadline has passed; the acknowledgement view and delivery assurance call a human | ADR-0013:24: "Failure, `UNKNOWN`, expiry or a missed deadline requires human escalation" |
| `core-journey-service.ts` | a refunded payment is shown as PAYMENT_PROVIDER_UNAVAILABLE; a locked RideCheck keeps the disposition ACTIVE | - |
| `apps/driver/App.tsx:205` | `reconcileAuthoritativeState` reads the day and leaves availability, offers and assignment of the screen as they are | `phase-0-12-checklist.md:12`: "weak-signal reconciliation that replaces speculative state" |
| `apps/driver/App.tsx:782` | a completed Journey stays on the screen, and the button that acknowledges the next assignment is shown without a Journey only | - |
