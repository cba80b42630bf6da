------------------------------ MODULE Journey -------------------------------
(***************************************************************************)
(* modules/journey/journey-service.ts and live-journey-service.ts, with    *)
(* the two transactions of other services that decide on the same rows:    *)
(* reportDriverFatigue and createRiderConductCase.  From the assignment of *)
(* a Driver to the completion, or the unsafe end, of the Journey.          *)
(*                                                                         *)
(* Every command here opens with readLockedJourney, which locks the        *)
(* Journey, its Booking, its assignment and its leg until it commits, so   *)
(* it is one step.  reportDriverFatigue reads the Driver's work first and  *)
(* writes afterwards, and locks the assignment only when it finds one with *)
(* a verified passenger: it has two steps.                                 *)
(***************************************************************************)
EXTENDS Naturals, FiniteSets

CONSTANTS Bookings,     \* Bookings that Dispatch is searching a Driver for
          Drivers,      \* Driver profiles
          MaxAttempts,  \* config.rideCheckMaximumAttempts
          None

ASSUME JourneyNoneAssumption == None \notin Drivers /\ None \notin Bookings
ASSUME MaxAttemptsAssumption == MaxAttempts \in Nat \ {0}

VARIABLES
  status, version,  \* booking.booking
  journey,       \* journey.journey.status; "ABSENT" before the row exists
  leg,           \* journey.journey_leg.status of the only leg
  assignment,    \* dispatch.driver_assignment.status of the only assignment
  driver,        \* driver_assignment.driver_profile_id
  fix,           \* the location the next decision reads: none usable, near, at
  rideCheck,     \* journey.ridecheck_session.status of the only session
  attempts,      \* ridecheck_session.attempts_used
  expired,       \* ridecheck_session.expires_at has passed
  hold,          \* reason codes of the ACTIVE rows of journey.operational_hold
  handover,      \* the driver_fatigue_handover row of the Journey exists
  incident,      \* journey.safety_termination, with the OPEN continuity_case
  availability,  \* driver.availability_state.status
  fatigued,      \* ACTIVE DRIVER_REPORTED_FATIGUE observation of the open shift
  reports        \* <<d, b>>: d's open fatigue report found the verified
                 \* passenger of b; <<d, None>>: it found none

bookingRow == <<status, version>>
journeyRows == <<journey, leg>>
assignmentRow == <<assignment, driver>>
rideCheckRow == <<rideCheck, attempts, expired>>
interventions == <<hold, handover, incident>>
driverRows == <<availability, fatigued>>
vars == <<bookingRow, journeyRows, assignmentRow, fix, rideCheckRow,
          interventions, driverRows, reports>>

Spine == INSTANCE BookingSpine

\* legStatusForJourney, and the Booking status each command writes along with
\* the Journey status.
Progress ==
  [ASSIGNED           |-> [leg |-> "ASSIGNED",       booking |-> "DRIVER_ASSIGNED"],
   EN_ROUTE           |-> [leg |-> "EN_ROUTE",       booking |-> "DRIVER_EN_ROUTE"],
   ARRIVED            |-> [leg |-> "ARRIVED",        booking |-> "DRIVER_ARRIVED"],
   AWAITING_RIDECHECK |-> [leg |-> "ARRIVED",        booking |-> "AWAITING_RIDECHECK"],
   PASSENGER_VERIFIED |-> [leg |-> "READY_TO_START", booking |-> "PASSENGER_VERIFIED"],
   IN_PROGRESS        |-> [leg |-> "IN_PROGRESS",    booking |-> "IN_PROGRESS"],
   ARRIVING           |-> [leg |-> "ARRIVING",       booking |-> "ARRIVING"],
   COMPLETED          |-> [leg |-> "COMPLETED",      booking |-> "COMPLETED"]]

JourneyStatuses == DOMAIN Progress
LegStatuses == {Progress[j].leg : j \in JourneyStatuses} \cup {"INTERRUPTED"}
BookingStatuses ==
  {Progress[j].booking : j \in JourneyStatuses} \cup {"SEARCHING_FOR_DRIVER", "ACTIVE_INCIDENT"}
AssignmentStatuses == {"ABSENT", "ACTIVE", "COMPLETED", "CANCELLED"}
RideCheckStatuses == {"ABSENT", "PENDING", "VERIFIED", "LOCKED", "EXPIRED"}
HoldReasons == {"RIDECHECK_ATTEMPTS_EXHAUSTED", "DRIVER_FATIGUE_REPORTED"}

\* A shift is open exactly while the status is not OFFLINE (proved in
\* DispatchProofs), and FINISHING_SOON makes no difference to a Journey.
AvailabilityStatuses == {"OFFLINE", "AVAILABLE", "ASSIGNED", "BREAK"}

TypeOK ==
  /\ status \in [Bookings -> BookingStatuses]
  /\ version \in [Bookings -> Nat]
  /\ journey \in [Bookings -> JourneyStatuses \cup {"ABSENT"}]
  /\ leg \in [Bookings -> LegStatuses \cup {"ABSENT"}]
  /\ assignment \in [Bookings -> AssignmentStatuses]
  /\ driver \in [Bookings -> Drivers \cup {None}]
  /\ fix \in [Bookings -> {"none", "near", "at"}]
  /\ rideCheck \in [Bookings -> RideCheckStatuses]
  /\ attempts \in [Bookings -> 0..MaxAttempts]
  /\ expired \in [Bookings -> BOOLEAN]
  /\ hold \in [Bookings -> SUBSET HoldReasons]
  /\ handover \in [Bookings -> BOOLEAN]
  /\ incident \in [Bookings -> BOOLEAN]
  /\ availability \in [Drivers -> AvailabilityStatuses]
  /\ fatigued \in [Drivers -> BOOLEAN]
  /\ reports \in SUBSET (Drivers \X (Bookings \cup {None}))

\* startBookingDispatch leaves SEARCHING_FOR_DRIVER at version 6.
Init ==
  /\ status = [b \in Bookings |-> "SEARCHING_FOR_DRIVER"]
  /\ version = [b \in Bookings |-> 6]
  /\ journey = [b \in Bookings |-> "ABSENT"]
  /\ leg = [b \in Bookings |-> "ABSENT"]
  /\ assignment = [b \in Bookings |-> "ABSENT"]
  /\ driver = [b \in Bookings |-> None]
  /\ fix = [b \in Bookings |-> "none"]
  /\ rideCheck = [b \in Bookings |-> "ABSENT"]
  /\ attempts = [b \in Bookings |-> 0]
  /\ expired = [b \in Bookings |-> FALSE]
  /\ hold = [b \in Bookings |-> {}]
  /\ handover = [b \in Bookings |-> FALSE]
  /\ incident = [b \in Bookings |-> FALSE]
  /\ availability = [d \in Drivers |-> "OFFLINE"]
  /\ fatigued = [d \in Drivers |-> FALSE]
  /\ reports = {}

-----------------------------------------------------------------------------
(* What the handlers share. *)

\* An open report holds the row lock of the Driver's shift ...
Reporting(d) == \E b \in Bookings \cup {None} : <<d, b>> \in reports

\* ... and, once it found a passenger, of the assignment.
AssignmentLocked(b) == \E d \in Drivers : <<d, b>> \in reports

\* Faulty variant: the lock of an open report is not waited for.
ByAssignedDriverUnlocked(b) == assignment[b] = "ACTIVE"

\* readLockedJourney with assertAssignedDriver: the rows can be locked, and the
\* command comes from the Driver of an ACTIVE assignment.
ByAssignedDriver(b) == assignment[b] = "ACTIVE" /\ ~AssignmentLocked(b)

\* appendJourneyTransition and appendBookingTransition of one command.
Transition(b, to) ==
  /\ journey' = [journey EXCEPT ![b] = to]
  /\ leg' = [leg EXCEPT ![b] = Progress[to].leg]
  /\ status' = [status EXCEPT ![b] = Progress[to].booking]
  /\ version' = [version EXCEPT ![b] = @ + 1]

\* Faulty variant: only the Journey's status is compared.
JourneyStandsAt(b, from) == journey[b] = from

\* What every command checks before it makes the Transition.
StandsAt(b, from) == journey[b] = from /\ status[b] = Progress[from].booking

SetAvailability(d, to) == availability' = [availability EXCEPT ![d] = to]

-----------------------------------------------------------------------------
(* Around the Journey: Dispatch and the Driver's work intent. *)

\* acceptDriverOffer, one step here: Dispatch shows what it leaves behind.
AcceptDriverOffer(b, d) ==
  /\ status[b] = "SEARCHING_FOR_DRIVER"
  /\ availability[d] = "AVAILABLE" /\ ~fatigued[d] /\ ~Reporting(d)
  /\ assignment' = [assignment EXCEPT ![b] = "ACTIVE"]
  /\ driver' = [driver EXCEPT ![b] = d]
  /\ status' = [status EXCEPT ![b] = "DRIVER_ASSIGNED"]
  /\ version' = [version EXCEPT ![b] = @ + 1]
  /\ SetAvailability(d, "ASSIGNED")
  /\ UNCHANGED <<journeyRows, fix, rideCheckRow, interventions, fatigued, reports>>

\* Faulty variant: ASSIGNED may be left for OFFLINE.
SetDriverAvailabilityAnyTime(d, to) ==
  /\ availability[d] # to /\ ~Reporting(d)
  /\ SetAvailability(d, to)
  /\ fatigued' = [fatigued EXCEPT ![d] = @ /\ to # "OFFLINE"]
  /\ UNCHANGED <<bookingRow, journeyRows, assignmentRow, fix, rideCheckRow, interventions, reports>>

\* setDriverAvailability: never out of ASSIGNED.  It writes the shift event and
\* waits for the shift row; OFFLINE ends the shift, whose observations no longer
\* count.  Eligibility, read before, only narrows a step to AVAILABLE.
SetDriverAvailability(d, to) ==
  /\ availability[d] \notin {"ASSIGNED", to} /\ ~Reporting(d)
  /\ SetAvailability(d, to)
  /\ fatigued' = [fatigued EXCEPT ![d] = @ /\ to # "OFFLINE"]
  /\ UNCHANGED <<bookingRow, journeyRows, assignmentRow, fix, rideCheckRow, interventions, reports>>

-----------------------------------------------------------------------------
(* journey-service.ts: pickup, RideCheck and protected start. *)

\* The row is created ASSIGNED and moved to EN_ROUTE by the same transaction.
AcknowledgeDriverAssignment(b) ==
  /\ ByAssignedDriver(b) /\ status[b] = "DRIVER_ASSIGNED" /\ journey[b] = "ABSENT"
  /\ Transition(b, "EN_ROUTE")
  /\ UNCHANGED <<assignmentRow, fix, rideCheckRow, interventions, driverRows, reports>>

\* recordDriverLocationObservation before the start and recordActiveJourneyLocation
\* after it: the newest usable location, which may be anywhere.
RecordLocation(b, place) ==
  /\ ByAssignedDriver(b)
  /\ journey[b] \in {"EN_ROUTE", "ARRIVED", "AWAITING_RIDECHECK", "PASSENGER_VERIFIED",
                     "IN_PROGRESS", "ARRIVING"}
  /\ fix' = [fix EXCEPT ![b] = place]
  /\ UNCHANGED <<bookingRow, journeyRows, assignmentRow, rideCheckRow, interventions,
                 driverRows, reports>>

\* The newest location becomes too old for evaluateLocationEvidence.
LocationStales(b) ==
  /\ fix[b] # "none"
  /\ fix' = [fix EXCEPT ![b] = "none"]
  /\ UNCHANGED <<bookingRow, journeyRows, assignmentRow, rideCheckRow, interventions,
                 driverRows, reports>>

MarkDriverArrived(b) ==
  /\ ByAssignedDriver(b) /\ StandsAt(b, "EN_ROUTE")
  /\ fix[b] = "at"
  /\ Transition(b, "ARRIVED")
  /\ UNCHANGED <<assignmentRow, fix, rideCheckRow, interventions, driverRows, reports>>

\* A command of the passenger: the assignment's status is not looked at.
StartRideCheck(b) ==
  /\ ~AssignmentLocked(b) /\ StandsAt(b, "ARRIVED") /\ hold[b] = {}
  /\ rideCheck' = [rideCheck EXCEPT ![b] = "PENDING"]
  /\ Transition(b, "AWAITING_RIDECHECK")
  /\ UNCHANGED <<assignmentRow, fix, attempts, expired, interventions, driverRows, reports>>

\* The clock passes expires_at.
RideCheckExpires(b) ==
  /\ rideCheck[b] # "ABSENT" /\ ~expired[b]
  /\ expired' = [expired EXCEPT ![b] = TRUE]
  /\ UNCHANGED <<bookingRow, journeyRows, assignmentRow, fix, rideCheck, attempts,
                 interventions, driverRows, reports>>

\* Faulty variant of evaluateRideCheckAttempt: the code is compared before the
\* status of the session is looked at.
RideCheckResultByCode(session, matches, late, used) ==
  IF matches THEN "VERIFIED"
  ELSE IF session # "PENDING" THEN session
  ELSE IF late THEN "EXPIRED"
  ELSE IF used + 1 >= MaxAttempts THEN "LOCKED"
  ELSE "PENDING"

\* evaluateRideCheckAttempt: the status of the session after an attempt.
RideCheckResult(session, matches, late, used) ==
  IF session # "PENDING" THEN session
  ELSE IF late THEN "EXPIRED"
  ELSE IF matches THEN "VERIFIED"
  ELSE IF used + 1 >= MaxAttempts THEN "LOCKED"
  ELSE "PENDING"

\* verifyRideCheck.  A session that is no longer PENDING answers with its status
\* and changes nothing, and neither does an answer after the expiry, except that
\* the session becomes EXPIRED.
VerifyRideCheck(b, matches) ==
  LET result == RideCheckResult(rideCheck[b], matches, expired[b], attempts[b]) IN
  /\ ByAssignedDriver(b) /\ StandsAt(b, "AWAITING_RIDECHECK")
  /\ result # rideCheck[b] \/ result = "PENDING"
  /\ rideCheck' = [rideCheck EXCEPT ![b] = result]
  /\ attempts' = [attempts EXCEPT ![b] = IF rideCheck[b] = "PENDING" /\ result # "EXPIRED" THEN @ + 1 ELSE @]
  /\ hold' = [hold EXCEPT ![b] = IF result = "LOCKED"
                THEN @ \cup {"RIDECHECK_ATTEMPTS_EXHAUSTED"} ELSE @]
  /\ IF result = "VERIFIED" THEN Transition(b, "PASSENGER_VERIFIED")
                            ELSE UNCHANGED <<bookingRow, journeyRows>>
  /\ UNCHANGED <<assignmentRow, fix, expired, handover, incident, driverRows, reports>>

\* canStartJourney.  The evidence of an accepted arrival exists since ARRIVED;
\* account, compliance, vehicle and duty time evidence can refuse as well.  No
\* ACTIVE_JOURNEY location exists at the start.
StartJourney(b) ==
  /\ ByAssignedDriver(b) /\ StandsAt(b, "PASSENGER_VERIFIED")
  /\ rideCheck[b] = "VERIFIED" /\ hold[b] = {}
  /\ ~fatigued[driver[b]]
  /\ fix[b] = "at"
  /\ Transition(b, "IN_PROGRESS")
  /\ fix' = [fix EXCEPT ![b] = "none"]
  /\ UNCHANGED <<assignmentRow, rideCheckRow, interventions, driverRows, reports>>

-----------------------------------------------------------------------------
(* live-journey-service.ts: on the way and completed. *)

\* Within the approach radius; an active hold does not stop it.
MarkJourneyArriving(b) ==
  /\ ByAssignedDriver(b) /\ StandsAt(b, "IN_PROGRESS")
  /\ fix[b] \in {"near", "at"}
  /\ Transition(b, "ARRIVING")
  /\ UNCHANGED <<assignmentRow, fix, rideCheckRow, interventions, driverRows, reports>>

\* Faulty variant: a Driver with a fatigue observation is refused.
CompleteUnlessFatigued(b) ==
  /\ ByAssignedDriver(b) /\ StandsAt(b, "ARRIVING")
  /\ fix[b] = "at" /\ hold[b] = {} /\ ~incident[b] /\ ~fatigued[driver[b]]
  /\ availability[driver[b]] = "ASSIGNED"
  /\ Transition(b, "COMPLETED")
  /\ assignment' = [assignment EXCEPT ![b] = "COMPLETED"]
  /\ SetAvailability(driver[b], "AVAILABLE")
  /\ UNCHANGED <<driver, fix, rideCheckRow, interventions, fatigued, reports>>

\* completeJourney of a standard service, whose completion needs no handover to
\* a responsible adult.  The Driver goes back to AVAILABLE with the passenger.
CompleteJourney(b) ==
  /\ ByAssignedDriver(b) /\ StandsAt(b, "ARRIVING")
  /\ fix[b] = "at" /\ hold[b] = {} /\ ~incident[b]
  /\ availability[driver[b]] = "ASSIGNED"
  /\ Transition(b, "COMPLETED")
  /\ assignment' = [assignment EXCEPT ![b] = "COMPLETED"]
  /\ SetAvailability(driver[b], "AVAILABLE")
  /\ UNCHANGED <<driver, fix, rideCheckRow, interventions, fatigued, reports>>

-----------------------------------------------------------------------------
(* driver-daily-operations-service.ts: fatigue. *)

\* The work a report looks for.
CarriesVerifiedPassenger(d, b) ==
  /\ assignment[b] = "ACTIVE" /\ driver[b] = d
  /\ journey[b] \in {"PASSENGER_VERIFIED", "IN_PROGRESS", "ARRIVING"}

\* reportDriverFatigue up to the query for the active assignment.
ReportFatigueBegin(d) ==
  /\ availability[d] # "OFFLINE" /\ ~Reporting(d)
  /\ \/ \E b \in Bookings :
          /\ CarriesVerifiedPassenger(d, b)
          /\ reports' = reports \cup {<<d, b>>}
     \/ /\ \A b \in Bookings : ~CarriesVerifiedPassenger(d, b)
        /\ reports' = reports \cup {<<d, None>>}
  /\ UNCHANGED <<bookingRow, journeyRows, assignmentRow, fix, rideCheckRow, interventions, driverRows>>

\* With a passenger: the hold, the support case and the handover of the report,
\* each unless it is there already.
ReportFatigueHold(d, b) ==
  /\ <<d, b>> \in reports
  /\ fatigued' = [fatigued EXCEPT ![d] = TRUE]
  /\ hold' = [hold EXCEPT ![b] = @ \cup {"DRIVER_FATIGUE_REPORTED"}]
  /\ handover' = [handover EXCEPT ![b] = TRUE]
  /\ reports' = reports \ {<<d, b>>}
  /\ UNCHANGED <<bookingRow, journeyRows, assignmentRow, fix, rideCheckRow, incident, availability>>

\* Faulty variant: every Driver is moved to BREAK.
ReportFatigueBreakAlways(d) ==
  /\ <<d, None>> \in reports
  /\ fatigued' = [fatigued EXCEPT ![d] = TRUE]
  /\ SetAvailability(d, "BREAK")
  /\ reports' = reports \ {<<d, None>>}
  /\ UNCHANGED <<bookingRow, journeyRows, assignmentRow, fix, rideCheckRow, interventions>>

\* Without one: a Driver who is working is moved to BREAK.
ReportFatigueBreak(d) ==
  /\ <<d, None>> \in reports
  /\ fatigued' = [fatigued EXCEPT ![d] = TRUE]
  /\ SetAvailability(d, IF availability[d] = "AVAILABLE" THEN "BREAK" ELSE availability[d])
  /\ reports' = reports \ {<<d, None>>}
  /\ UNCHANGED <<bookingRow, journeyRows, assignmentRow, fix, rideCheckRow, interventions>>

\* The transaction rolls back: an error, a lost connection or, as it waits for
\* rows a Journey command holds while that waits for the assignment, a deadlock.
ReportFatigueAbort(d) ==
  /\ Reporting(d)
  /\ reports' = {r \in reports : r[1] # d}
  /\ UNCHANGED <<bookingRow, journeyRows, assignmentRow, fix, rideCheckRow, interventions, driverRows>>

ReportDriverFatigue(d) ==
  \/ ReportFatigueBegin(d)
  \/ \E b \in Bookings : ReportFatigueHold(d, b)
  \/ ReportFatigueBreak(d)
  \/ ReportFatigueAbort(d)

\* Faulty variant: only the assignments of the Driver are looked at.
ClearBetweenAssignments(d) ==
  /\ fatigued[d] /\ availability[d] = "BREAK" /\ ~Reporting(d)
  /\ \A b \in Bookings : driver[b] = d => assignment[b] # "ACTIVE"
  /\ fatigued' = [fatigued EXCEPT ![d] = FALSE]
  /\ UNCHANGED <<bookingRow, journeyRows, assignmentRow, fix, rideCheckRow, interventions,
                 availability, reports>>

\* clearDriverFatigueAfterRest, once the rest is long enough.  A Journey that was
\* ended by an incident keeps its status, and still counts as work here.
ClearDriverFatigueAfterRest(d) ==
  /\ fatigued[d] /\ availability[d] = "BREAK" /\ ~Reporting(d)
  /\ \A b \in Bookings : driver[b] = d =>
       /\ assignment[b] # "ACTIVE"
       /\ journey[b] \notin {"ASSIGNED", "ARRIVING", "PASSENGER_VERIFIED", "IN_PROGRESS"}
  /\ fatigued' = [fatigued EXCEPT ![d] = FALSE]
  /\ UNCHANGED <<bookingRow, journeyRows, assignmentRow, fix, rideCheckRow, interventions,
                 availability, reports>>

-----------------------------------------------------------------------------
(* driver-fair-treatment-service.ts: the unsafe end of a Journey. *)

\* Faulty variant: the assignment is left as it is.
TerminateKeepingAssignment(b) ==
  /\ ByAssignedDriver(b)
  /\ journey[b] \in JourneyStatuses \ {"ASSIGNED", "COMPLETED"}
  /\ availability[driver[b]] = "ASSIGNED"
  /\ leg' = [leg EXCEPT ![b] = "INTERRUPTED"]
  /\ incident' = [incident EXCEPT ![b] = TRUE]
  /\ status' = [status EXCEPT ![b] = "ACTIVE_INCIDENT"]
  /\ version' = [version EXCEPT ![b] = @ + 1]
  /\ SetAvailability(driver[b], "BREAK")
  /\ UNCHANGED <<journey, assignmentRow, fix, rideCheckRow, hold, handover, fatigued, reports>>

\* createRiderConductCase with terminateJourney.  The Journey keeps its status.
SafelyTerminateUnsafeJourney(b) ==
  /\ ByAssignedDriver(b)
  /\ journey[b] \in JourneyStatuses \ {"ASSIGNED", "COMPLETED"}
  /\ availability[driver[b]] = "ASSIGNED"
  /\ leg' = [leg EXCEPT ![b] = "INTERRUPTED"]
  /\ assignment' = [assignment EXCEPT ![b] = "CANCELLED"]
  /\ incident' = [incident EXCEPT ![b] = TRUE]
  /\ status' = [status EXCEPT ![b] = "ACTIVE_INCIDENT"]
  /\ version' = [version EXCEPT ![b] = @ + 1]
  /\ SetAvailability(driver[b], "BREAK")
  /\ UNCHANGED <<journey, driver, fix, rideCheckRow, hold, handover, fatigued, reports>>

-----------------------------------------------------------------------------
Next ==
  \/ \E b \in Bookings, d \in Drivers : AcceptDriverOffer(b, d)
  \/ \E d \in Drivers, to \in {"AVAILABLE", "OFFLINE"} : SetDriverAvailability(d, to)
  \/ \E b \in Bookings :
       \/ AcknowledgeDriverAssignment(b) \/ MarkDriverArrived(b)
       \/ \E place \in {"none", "near", "at"} : RecordLocation(b, place)
       \/ LocationStales(b)
       \/ StartRideCheck(b) \/ RideCheckExpires(b)
       \/ \E matches \in BOOLEAN : VerifyRideCheck(b, matches)
       \/ StartJourney(b) \/ MarkJourneyArriving(b) \/ CompleteJourney(b)
       \/ SafelyTerminateUnsafeJourney(b)
  \/ \E d \in Drivers : ReportDriverFatigue(d) \/ ClearDriverFatigueAfterRest(d)

Spec == Init /\ [][Next]_vars

\* A Driver under way gets to the destination, reports it again when the report
\* has become too old, and sends the commands that are left; another report of
\* fatigue may come in between, but its transaction ends.  Nothing is assumed of
\* the way to the start, nor of the passenger.
Fairness ==
  /\ \A d \in Drivers :
       WF_vars(ReportFatigueAbort(d) \/ ReportFatigueBreak(d)
               \/ \E b \in Bookings : ReportFatigueHold(d, b))
  /\ \A b \in Bookings :
       /\ SF_vars(journey[b] \in {"IN_PROGRESS", "ARRIVING"} /\ RecordLocation(b, "at"))
       /\ SF_vars(MarkJourneyArriving(b) \/ CompleteJourney(b))

FairSpec == Spec /\ Fairness
-----------------------------------------------------------------------------
(* Properties. *)

\* The Booking, the Journey, its leg and its assignment are four rows written by
\* three services; whatever order their commands come in, they tell one story.
RecordsAgree ==
  \A b \in Bookings :
    /\ assignment[b] = "ABSENT" <=> status[b] = "SEARCHING_FOR_DRIVER"
    /\ journey[b] = "ABSENT" <=> status[b] \in {"SEARCHING_FOR_DRIVER", "DRIVER_ASSIGNED"}
    /\ IF incident[b]
       THEN /\ status[b] = "ACTIVE_INCIDENT" /\ leg[b] = "INTERRUPTED"
            /\ assignment[b] = "CANCELLED"
       ELSE /\ journey[b] # "ABSENT" => StandsAt(b, journey[b]) /\ leg[b] = Progress[journey[b]].leg
            /\ assignment[b] = "COMPLETED" <=> journey[b] = "COMPLETED"
            /\ assignment[b] # "CANCELLED"

\* A Driver is ASSIGNED exactly while one active assignment is theirs, through
\* completion, incident, fatigue report and a shift that the Driver wants to end.
AssignedWhileActive ==
  \A d \in Drivers :
    /\ availability[d] = "ASSIGNED" <=> \E b \in Bookings : assignment[b] = "ACTIVE" /\ driver[b] = d
    /\ \A b, c \in Bookings :
         (assignment[b] = "ACTIVE" /\ assignment[c] = "ACTIVE" /\ driver[b] = d /\ driver[c] = d) => b = c

\* No Journey gets past RideCheck on a session that expired or was locked, in
\* whatever order attempts and expiry come, and a locked one leaves a hold.
StartIsProtected ==
  \A b \in Bookings :
    /\ journey[b] \in {"PASSENGER_VERIFIED", "IN_PROGRESS", "ARRIVING", "COMPLETED"} =>
         /\ rideCheck[b] = "VERIFIED"
         /\ "RIDECHECK_ATTEMPTS_EXHAUSTED" \notin hold[b]
    /\ rideCheck[b] = "LOCKED" => "RIDECHECK_ATTEMPTS_EXHAUSTED" \in hold[b]

\* A Journey is never completed around a fatigue report: no hold and no
\* controlled handover comes to be on a Journey that is already over.
CompletionIsClear ==
  \A b \in Bookings : journey[b] = "COMPLETED" => hold[b] = {} /\ ~handover[b]

\* While a Driver still has the passenger of a Journey held for fatigue, the
\* observation stays: neither rest nor a new shift takes it away.
HeldDriverStaysFatigued ==
  \A b \in Bookings :
    ("DRIVER_FATIGUE_REPORTED" \in hold[b] /\ assignment[b] = "ACTIVE") => fatigued[driver[b]]

\* After the unsafe end of a Journey no later command, of the Driver or of the
\* passenger, moves its Booking, its leg or its assignment again.
IncidentIsFinal ==
  [][\A b \in Bookings : incident[b] =>
       /\ status'[b] = status[b] /\ journey'[b] = journey[b]
       /\ leg'[b] = leg[b] /\ assignment'[b] = assignment[b]]_vars

\* Every write of booking.booking on the way is a step of the spine.
BookingStepsFollowSpine == [][Spine!SpineNext]_bookingRow

\* A Journey that was started does not get stuck on the road: it is completed, it
\* ends in an incident, or it is held for the Control Room, whatever locations go
\* stale and whatever the Driver reports meanwhile.
StartedJourneyEnds ==
  \A b \in Bookings :
    journey[b] = "IN_PROGRESS" ~> (journey[b] = "COMPLETED" \/ incident[b] \/ hold[b] # {})

\* A Journey under way whose Driver has a recorded fatigue observation is held.
FatiguedJourneyIsHeld ==
  \A b \in Bookings :
    (journey[b] \in {"IN_PROGRESS", "ARRIVING"} /\ assignment[b] = "ACTIVE"
       /\ fatigued[driver[b]] /\ ~Reporting(driver[b]))
      => "DRIVER_FATIGUE_REPORTED" \in hold[b]
=============================================================================
