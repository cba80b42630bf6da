------------------------------ MODULE Dispatch ------------------------------
(***************************************************************************)
(* modules/dispatch/dispatch-service.ts: from a Booking that is ready for  *)
(* dispatch to an assigned Driver.  The candidates are read in one         *)
(* statement and the offers inserted later in the same transaction; an     *)
(* acceptance evaluates eligibility without locking what it read and       *)
(* writes the assignment later.  These two transactions have two steps     *)
(* each; every other one locks the row it decides on and is one step.      *)
(***************************************************************************)
EXTENDS Naturals, FiniteSets

CONSTANTS Bookings,            \* Bookings that have reached READY_FOR_DISPATCH
          Drivers,             \* Driver profiles
          WaveSize,            \* config.dispatchOfferWaveSize
          DisclosureComplete,  \* pickup ETA and earning estimate are configured
          None

ASSUME NoneIsNotADriver == None \notin Drivers
ASSUME WaveSizeAssumption == WaveSize \in Nat \ {0}
ASSUME DisclosureAssumption == DisclosureComplete \in BOOLEAN

VARIABLES
  status, version,  \* booking.booking
  attempt,       \* dispatch_attempt.status of the Booking's only attempt
  offer,         \* offer[b][d]: driver_offer.status of d's offer for b
  outcome,       \* outcome[b][d]: driver_offer_outcome_attribution.outcome
  late,          \* late[b][d]: driver_offer.expires_at is not after the clock
  assignment,    \* the Driver of b's ACTIVE driver_assignment
  availability,  \* driver.availability_state.status
  onShift,       \* the Driver has an ACTIVE driver_shift_session
  evidence,      \* the other inputs of the eligibility evaluation, see below
  scanning,      \* Bookings whose startBookingDispatch transaction is open
  candidates,    \* candidates[b]: the eligible Drivers that transaction read
  accepting      \* <<b, d>>: d's accept of b's offer has passed its checks

bookingRow == <<status, version>>
offerRows == <<offer, outcome, late>>
driverRows == <<availability, onShift, evidence>>
openTransactions == <<scanning, candidates, accepting>>
vars == <<bookingRow, attempt, offerRows, assignment, driverRows, openTransactions>>

Spine == INSTANCE BookingSpine

BookingStatuses ==
  {"READY_FOR_DISPATCH", "SEARCHING_FOR_DRIVER", "NO_ELIGIBLE_DRIVER", "DRIVER_ASSIGNED"}
AttemptStatuses == {"ABSENT", "OFFERING", "ASSIGNED", "NO_ELIGIBLE_DRIVER"}
OfferStatuses == {"ABSENT", "OFFERED", "ACCEPTED", "DECLINED", "EXPIRED", "WITHDRAWN"}
Outcomes == {"ACCEPTED", "DECLINED", "TIMED_OUT", "WITHDRAWN",
             "DRIVER_BECAME_INELIGIBLE", "ASSIGNED_ELSEWHERE"}

\* DRIVER_AVAILABILITY_STATUSES without OFFERED, which nothing writes.
AvailabilityStatuses == {"OFFLINE", "AVAILABLE", "ASSIGNED", "BREAK", "FINISHING_SOON"}
WorkIntents == {"AVAILABLE", "FINISHING_SOON", "OFFLINE", "BREAK"}

\* "clear": account, compliance, vehicle, permission, schedule, location and
\* fatigue evidence all pass; "fatigue": only the fatigue policy blocks.
Evidence == {"clear", "fatigue", "blocked"}

TypeOK ==
  /\ status \in [Bookings -> BookingStatuses]
  /\ version \in [Bookings -> Nat]
  /\ attempt \in [Bookings -> AttemptStatuses]
  /\ offer \in [Bookings -> [Drivers -> OfferStatuses]]
  /\ outcome \in [Bookings -> [Drivers -> Outcomes \cup {"NONE"}]]
  /\ late \in [Bookings -> [Drivers -> BOOLEAN]]
  /\ assignment \in [Bookings -> Drivers \cup {None}]
  /\ availability \in [Drivers -> AvailabilityStatuses]
  /\ onShift \in [Drivers -> BOOLEAN]
  /\ evidence \in [Drivers -> Evidence]
  /\ scanning \in SUBSET Bookings
  /\ candidates \in [Bookings -> SUBSET Drivers]
  /\ accepting \in SUBSET (Bookings \X Drivers)

\* confirmRiderBooking leaves READY_FOR_DISPATCH at version 5.
Init ==
  /\ status = [b \in Bookings |-> "READY_FOR_DISPATCH"]
  /\ version = [b \in Bookings |-> 5]
  /\ attempt = [b \in Bookings |-> "ABSENT"]
  /\ offer = [b \in Bookings |-> [d \in Drivers |-> "ABSENT"]]
  /\ outcome = [b \in Bookings |-> [d \in Drivers |-> "NONE"]]
  /\ late = [b \in Bookings |-> [d \in Drivers |-> FALSE]]
  /\ assignment = [b \in Bookings |-> None]
  /\ availability = [d \in Drivers |-> "OFFLINE"]
  /\ onShift = [d \in Drivers |-> FALSE]
  /\ evidence = [d \in Drivers |-> "clear"]
  /\ scanning = {}
  /\ candidates = [b \in Bookings |-> {}]
  /\ accepting = {}

-----------------------------------------------------------------------------
(* What the handlers share. *)

\* availabilityTransitions of domain/dispatch.ts.
AvailabilityTransitions ==
  { <<"OFFLINE", "AVAILABLE">>,
    <<"AVAILABLE", "OFFLINE">>, <<"AVAILABLE", "ASSIGNED">>,
    <<"AVAILABLE", "BREAK">>, <<"AVAILABLE", "FINISHING_SOON">>,
    <<"BREAK", "AVAILABLE">>, <<"BREAK", "OFFLINE">>, <<"BREAK", "FINISHING_SOON">>,
    <<"FINISHING_SOON", "AVAILABLE">>, <<"FINISHING_SOON", "OFFLINE">>,
    <<"FINISHING_SOON", "ASSIGNED">>, <<"FINISHING_SOON", "BREAK">> }

\* Faulty variant: ASSIGNED may be left from this table as well.
MayBecomeFromAssigned(from, to) ==
  from = to \/ from = "ASSIGNED" \/ <<from, to>> \in AvailabilityTransitions

\* Faulty variant: any status but ASSIGNED may be left for any other.
MayBecomeUnlessAssigned(from, to) == from = to \/ from # "ASSIGNED"

\* assertDriverAvailabilityTransition, which lets a status stay what it is.
MayBecome(from, to) == from = to \/ <<from, to>> \in AvailabilityTransitions

HasActiveAssignment(d) == \E b \in Bookings : assignment[b] = d

\* evaluateDriverDispatchEligibility has no blockers.
Eligible(d) ==
  /\ evidence[d] = "clear"
  /\ availability[d] \in {"AVAILABLE", "FINISHING_SOON"}
  /\ ~HasActiveAssignment(d)

\* Faulty variant: going OFFLINE only starts no shift.
RecordShiftStartOnly(d, to) ==
  onShift' = [onShift EXCEPT ![d] = @ \/ (to # "OFFLINE")]

\* recordDriverShiftAvailabilityEvent: a shift is started by any status but
\* OFFLINE and ended by OFFLINE.
RecordShift(d, to) == onShift' = [onShift EXCEPT ![d] = (to # "OFFLINE")]

\* An open acceptance holds the row locks of its attempt and of its offer.
AttemptLocked(b) == \E d \in Drivers : <<b, d>> \in accepting
OfferLocked(b, d) == <<b, d>> \in accepting

\* Offers closed with one status and attributed in the same transaction.
CloseOffers(set, to, why) ==
  /\ offer' = [b \in Bookings |-> [d \in Drivers |->
                 IF <<b, d>> \in set THEN to ELSE offer[b][d]]]
  /\ outcome' = [b \in Bookings |-> [d \in Drivers |->
                 IF <<b, d>> \in set THEN why ELSE outcome[b][d]]]

OpenOffersTo(d) == {p \in Bookings \X {d} : offer[p[1]][d] = "OFFERED"}

-----------------------------------------------------------------------------
(* startBookingDispatch. *)

\* The Booking row is locked and READY_FOR_DISPATCH; the candidates are read.
StartDispatchScan(b) ==
  /\ b \notin scanning
  /\ status[b] = "READY_FOR_DISPATCH"
  /\ scanning' = scanning \cup {b}
  /\ candidates' = [candidates EXCEPT ![b] = {d \in Drivers : Eligible(d)}]
  /\ UNCHANGED <<bookingRow, attempt, offerRows, assignment, driverRows, accepting>>

EndScan(b) ==
  /\ scanning' = scanning \ {b}
  /\ candidates' = [candidates EXCEPT ![b] = {}]

\* Candidates were found: the first WaveSize of the ranking get an offer.
StartDispatchOffer(b, wave) ==
  /\ b \in scanning
  /\ wave # {}
  /\ wave \subseteq candidates[b]
  /\ wave = candidates[b] \/ Cardinality(wave) = WaveSize
  /\ Cardinality(wave) <= WaveSize
  /\ status' = [status EXCEPT ![b] = "SEARCHING_FOR_DRIVER"]
  /\ version' = [version EXCEPT ![b] = @ + 1]
  /\ attempt' = [attempt EXCEPT ![b] = "OFFERING"]
  /\ offer' = [offer EXCEPT ![b] = [d \in Drivers |->
                 IF d \in wave THEN "OFFERED" ELSE "ABSENT"]]
  /\ EndScan(b)
  /\ UNCHANGED <<outcome, late, assignment, driverRows, accepting>>

\* No candidate passed the hard filter: both Booking transitions, through
\* SEARCHING_FOR_DRIVER to NO_ELIGIBLE_DRIVER, commit together.
StartDispatchNoDriver(b) ==
  /\ b \in scanning
  /\ candidates[b] = {}
  /\ status' = [status EXCEPT ![b] = "NO_ELIGIBLE_DRIVER"]
  /\ version' = [version EXCEPT ![b] = @ + 2]
  /\ attempt' = [attempt EXCEPT ![b] = "NO_ELIGIBLE_DRIVER"]
  /\ EndScan(b)
  /\ UNCHANGED <<offerRows, assignment, driverRows, accepting>>

\* The transaction rolls back or its connection is lost.
StartDispatchAbort(b) ==
  /\ b \in scanning
  /\ EndScan(b)
  /\ UNCHANGED <<bookingRow, attempt, offerRows, assignment, driverRows, accepting>>

-----------------------------------------------------------------------------
(* Offers. *)

\* The clock passes expires_at.
OfferLapses(b, d) ==
  /\ offer[b][d] = "OFFERED" /\ ~late[b][d]
  /\ late' = [late EXCEPT ![b][d] = TRUE]
  /\ UNCHANGED <<bookingRow, attempt, offer, outcome, assignment, driverRows, openTransactions>>

\* listDriverOffers closes the Driver's own expired offers before it reads.
\* Nothing else closes an offer because its time has passed.
ListDriverOffers(d) ==
  LET expired == {p \in OpenOffersTo(d) : late[p[1]][d]} IN
  /\ expired # {}
  /\ \A p \in expired : ~OfferLocked(p[1], d)
  /\ CloseOffers(expired, "EXPIRED", "TIMED_OUT")
  /\ UNCHANGED <<bookingRow, attempt, late, assignment, driverRows, openTransactions>>

\* Faulty variant: the status of the locked offer is not looked at.
DeclineAnyOffer(b, d) ==
  /\ offer[b][d] # "ABSENT" /\ ~late[b][d]
  /\ ~OfferLocked(b, d)
  /\ CloseOffers({<<b, d>>}, "DECLINED", "DECLINED")
  /\ UNCHANGED <<bookingRow, attempt, late, assignment, driverRows, openTransactions>>

DeclineDriverOffer(b, d) ==
  /\ offer[b][d] = "OFFERED" /\ ~late[b][d]
  /\ ~OfferLocked(b, d)
  /\ CloseOffers({<<b, d>>}, "DECLINED", "DECLINED")
  /\ UNCHANGED <<bookingRow, attempt, late, assignment, driverRows, openTransactions>>

-----------------------------------------------------------------------------
(* acceptDriverOffer. *)

\* The attempt and the offer are locked and both still open.
AcceptMayProceed(b, d) ==
  /\ ~AttemptLocked(b)
  /\ attempt[b] = "OFFERING"
  /\ offer[b][d] = "OFFERED"

\* The offer's time has passed: EXPIRED is committed, then the call fails.
AcceptTooLate(b, d) ==
  /\ AcceptMayProceed(b, d)
  /\ late[b][d]
  /\ CloseOffers({<<b, d>>}, "EXPIRED", "TIMED_OUT")
  /\ UNCHANGED <<bookingRow, attempt, late, assignment, driverRows, openTransactions>>

\* Eligibility is revalidated and fails: the offer is withdrawn and committed.
AcceptIneligible(b, d) ==
  /\ AcceptMayProceed(b, d)
  /\ ~late[b][d] /\ DisclosureComplete
  /\ status[b] = "SEARCHING_FOR_DRIVER"
  /\ ~Eligible(d)
  /\ CloseOffers({<<b, d>>}, "WITHDRAWN", "DRIVER_BECAME_INELIGIBLE")
  /\ UNCHANGED <<bookingRow, attempt, late, assignment, driverRows, openTransactions>>

\* Every check passes; the locks of attempt and offer are kept.
AcceptBegin(b, d) ==
  /\ AcceptMayProceed(b, d)
  /\ ~late[b][d] /\ DisclosureComplete
  /\ status[b] = "SEARCHING_FOR_DRIVER"
  /\ Eligible(d)
  /\ accepting' = accepting \cup {<<b, d>>}
  /\ UNCHANGED <<bookingRow, attempt, offerRows, assignment, driverRows, scanning, candidates>>

\* The two partial unique indexes on the ACTIVE rows of driver_assignment.
UniqueAssignment(b, d) == assignment[b] = None /\ ~HasActiveAssignment(d)

\* The other offers of the attempt that are still open.
CompetingOffers(b, d) == {p \in {b} \X (Drivers \ {d}) : offer[b][p[2]] = "OFFERED"}

\* The assignment is written, competing offers are withdrawn, and the Driver's
\* availability, read again and locked, must still allow ASSIGNED.
AcceptCommit(b, d) ==
  /\ <<b, d>> \in accepting
  /\ UniqueAssignment(b, d)
  /\ MayBecome(availability[d], "ASSIGNED")
  /\ status[b] = "SEARCHING_FOR_DRIVER"
  /\ assignment' = [assignment EXCEPT ![b] = d]
  /\ offer' = [offer EXCEPT ![b] = [e \in Drivers |->
                 IF e = d THEN "ACCEPTED"
                 ELSE IF <<b, e>> \in CompetingOffers(b, d) THEN "WITHDRAWN" ELSE @[e]]]
  /\ outcome' = [outcome EXCEPT ![b] = [e \in Drivers |->
                 IF e = d THEN "ACCEPTED"
                 ELSE IF <<b, e>> \in CompetingOffers(b, d) THEN "ASSIGNED_ELSEWHERE" ELSE @[e]]]
  /\ attempt' = [attempt EXCEPT ![b] = "ASSIGNED"]
  /\ availability' = [availability EXCEPT ![d] = "ASSIGNED"]
  /\ RecordShift(d, "ASSIGNED")
  /\ status' = [status EXCEPT ![b] = "DRIVER_ASSIGNED"]
  /\ version' = [version EXCEPT ![b] = @ + 1]
  /\ accepting' = accepting \ {<<b, d>>}
  /\ UNCHANGED <<late, evidence, scanning, candidates>>

\* A check of the commit step fails, the transaction is chosen as the victim
\* of a deadlock, or its connection is lost: everything is rolled back.
AcceptAbort(b, d) ==
  /\ <<b, d>> \in accepting
  /\ accepting' = accepting \ {<<b, d>>}
  /\ UNCHANGED <<bookingRow, attempt, offerRows, assignment, driverRows, scanning, candidates>>

-----------------------------------------------------------------------------
(* setDriverAvailability. *)

\* The eligibility a Driver needs to go online.  The fatigue policy is not
\* applied from OFFLINE, because there is no shift yet to measure duty by.
MayGoOnline(d) ==
  /\ ~HasActiveAssignment(d)
  /\ \/ evidence[d] = "clear"
     \/ evidence[d] = "fatigue" /\ availability[d] = "OFFLINE"

\* The CHECK of availability_state on the tuple of the INSERT, which PostgreSQL
\* tests before ON CONFLICT: region and vehicle are only passed by a request
\* that goes online, so a BREAK request is refused.
TupleSatisfiesCheck(to) == to = "OFFLINE" \/ to \in {"AVAILABLE", "FINISHING_SOON"}

SetDriverAvailability(d, to) ==
  /\ MayBecome(availability[d], to)
  /\ to \in {"AVAILABLE", "FINISHING_SOON"} => MayGoOnline(d)
  /\ TupleSatisfiesCheck(to)
  /\ availability' = [availability EXCEPT ![d] = to]
  /\ RecordShift(d, to)
  /\ IF to \in {"OFFLINE", "BREAK"}
     THEN /\ \A p \in OpenOffersTo(d) : ~OfferLocked(p[1], d)
          /\ CloseOffers(OpenOffersTo(d), "WITHDRAWN", "WITHDRAWN")
     ELSE UNCHANGED <<offer, outcome>>
  /\ UNCHANGED <<bookingRow, attempt, late, assignment, evidence, openTransactions>>

-----------------------------------------------------------------------------
(* What other services do to the state Dispatch reads. *)

\* reportDriverFatigue of a Driver without a verified passenger: the Driver is
\* moved to BREAK, and offers already made to the Driver stay open.
ReportDriverFatigue(d) ==
  /\ onShift[d]
  /\ evidence' = [evidence EXCEPT ![d] = IF @ = "clear" THEN "fatigue" ELSE @]
  /\ availability' = [availability EXCEPT ![d] =
       IF @ \in {"AVAILABLE", "FINISHING_SOON"} THEN "BREAK" ELSE @]
  /\ UNCHANGED <<bookingRow, attempt, offerRows, assignment, onShift, openTransactions>>

\* Compliance, vehicle, permission, restriction, location, duty time and rest
\* evidence is written elsewhere and also changes with the clock.
EvidenceChanges(d, e) ==
  /\ evidence[d] # e
  /\ evidence' = [evidence EXCEPT ![d] = e]
  /\ UNCHANGED <<bookingRow, attempt, offerRows, assignment, availability, onShift, openTransactions>>

-----------------------------------------------------------------------------
StartBookingDispatch(b) ==
  \/ StartDispatchScan(b)
  \/ \E wave \in SUBSET Drivers : StartDispatchOffer(b, wave)
  \/ StartDispatchNoDriver(b)
  \/ StartDispatchAbort(b)

AcceptDriverOffer(b, d) ==
  \/ AcceptTooLate(b, d) \/ AcceptIneligible(b, d)
  \/ AcceptBegin(b, d) \/ AcceptCommit(b, d) \/ AcceptAbort(b, d)

Next ==
  \/ \E b \in Bookings : StartBookingDispatch(b)
  \/ \E d \in Drivers : ListDriverOffers(d)
  \/ \E b \in Bookings, d \in Drivers :
        OfferLapses(b, d) \/ DeclineDriverOffer(b, d) \/ AcceptDriverOffer(b, d)
  \/ \E d \in Drivers, to \in WorkIntents : SetDriverAvailability(d, to)
  \/ \E d \in Drivers : ReportDriverFatigue(d)
  \/ \E d \in Drivers, e \in Evidence : EvidenceChanges(d, e)

Spec == Init /\ [][Next]_vars

-----------------------------------------------------------------------------
(* Properties. *)

\* A Driver never has two active assignments, although the eligibility read and
\* the availability table (ASSIGNED may stay ASSIGNED) would let two acceptances
\* that overlap both through.
DriverHasOneAssignment ==
  \A b, c \in Bookings : (assignment[b] # None /\ assignment[b] = assignment[c]) => b = c

\* The records of one assignment, kept by Booking, Dispatch and Driver and
\* written by acceptDriverOffer, say the same.
AssignmentAgreesEverywhere ==
  /\ \A b \in Bookings :
       /\ (assignment[b] # None) <=> (status[b] = "DRIVER_ASSIGNED")
       /\ (assignment[b] # None) <=> (attempt[b] = "ASSIGNED")
       /\ \A d \in Drivers : (assignment[b] = d) <=> (offer[b][d] = "ACCEPTED")
  /\ \A d \in Drivers : (availability[d] = "ASSIGNED") <=> HasActiveAssignment(d)

OutcomeMatches(state, attributed) ==
  <<state, attributed>> \in
    { <<"ABSENT", "NONE">>, <<"OFFERED", "NONE">>, <<"ACCEPTED", "ACCEPTED">>,
      <<"DECLINED", "DECLINED">>, <<"EXPIRED", "TIMED_OUT">>, <<"WITHDRAWN", "WITHDRAWN">>,
      <<"WITHDRAWN", "DRIVER_BECAME_INELIGIBLE">>, <<"WITHDRAWN", "ASSIGNED_ELSEWHERE">> }

\* An offer is open and unattributed, or closed with the outcome its closing
\* handler had: every terminal offer has an exact outcome attribution.
OfferOutcomeAttributed ==
  \A b \in Bookings, d \in Drivers : OutcomeMatches(offer[b][d], outcome[b][d])

\* No Driver is shown an open offer for a Booking that is no longer searching.
NoOfferOutlivesSearch ==
  \A b \in Bookings, d \in Drivers : offer[b][d] = "OFFERED" =>
    attempt[b] = "OFFERING" /\ status[b] = "SEARCHING_FOR_DRIVER"

\* A closed offer keeps its status and its outcome: an acceptance, a decline, an
\* expiry and a withdrawal of one offer that race have one winner.
ClosedOfferIsFinal ==
  [][\A b \in Bookings, d \in Drivers : offer[b][d] \notin {"ABSENT", "OFFERED"} =>
       offer'[b][d] = offer[b][d] /\ outcome'[b][d] = outcome[b][d]]_vars

\* A shift is active exactly while the Driver is not OFFLINE, whichever of
\* setDriverAvailability, acceptDriverOffer and reportDriverFatigue moved last.
ShiftFollowsAvailability ==
  \A d \in Drivers : onShift[d] <=> (availability[d] # "OFFLINE")

\* An acceptance only assigns a Driver who is working at that moment, although
\* eligibility was read earlier and a fatigue report may have come in between.
AssignsOnlyWorkingDrivers ==
  [][\A b \in Bookings, d \in Drivers :
       (assignment'[b] = d /\ assignment[b] # d) =>
          availability[d] \in {"AVAILABLE", "FINISHING_SOON"}]_vars

\* Every write of booking.booking by Dispatch is a step of the spine.
BookingStepsFollowSpine == [][Spine!SpineNext]_bookingRow

=============================================================================
