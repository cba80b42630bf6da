---------------------------- MODULE JourneyProofs ----------------------------
(* Proofs about Journey, about the Control Room's FatigueHandover over it  *)
(* and about the progress page CoreJourney, for every set of Bookings,     *)
(* Drivers and operators, every limit of RideCheck attempts and every      *)
(* length of tasks and roles.                                              *)
EXTENDS CoreJourney, FatigueHandover, TLAPS

\* One Booking's part of RecordsAgree, with the Driver of its assignment.
Agrees(b) ==
  /\ assignment[b] = "ABSENT" <=> status[b] = "SEARCHING_FOR_DRIVER"
  /\ journey[b] = "ABSENT" <=> status[b] \in {"SEARCHING_FOR_DRIVER", "DRIVER_ASSIGNED"}
  /\ assignment[b] # "ABSENT" => driver[b] \in Drivers
  /\ IF incident[b]
     THEN /\ status[b] = "ACTIVE_INCIDENT" /\ leg[b] = "INTERRUPTED"
          /\ assignment[b] = "CANCELLED"
     ELSE /\ journey[b] # "ABSENT" => StandsAt(b, journey[b]) /\ leg[b] = Progress[journey[b]].leg
          /\ assignment[b] = "COMPLETED" <=> journey[b] = "COMPLETED"
          /\ assignment[b] # "CANCELLED"

AgreeInv == \A b \in Bookings : Agrees(b)

\* The attempt that uses the last one up closes the session, and the session is
\* only opened at the pickup.
AttemptsLeft ==
  \A b \in Bookings :
    /\ rideCheck[b] \in {"ABSENT", "PENDING"} => attempts[b] < MaxAttempts
    /\ journey[b] \in {"ABSENT", "EN_ROUTE", "ARRIVED"} => rideCheck[b] = "ABSENT"

TInv == TypeOK /\ AttemptsLeft

\* A session is the one that let the passenger in, or it is locked and held.
RideCheckInv ==
  \A b \in Bookings :
    /\ journey[b] \in {"PASSENGER_VERIFIED", "IN_PROGRESS", "ARRIVING", "COMPLETED"} =>
         rideCheck[b] = "VERIFIED"
    /\ rideCheck[b] = "LOCKED" <=> "RIDECHECK_ATTEMPTS_EXHAUSTED" \in hold[b]

\* An open report that found a passenger still has that passenger: it holds the
\* lock of the assignment.  What reports leave behind hangs together.
FatigueInv ==
  /\ \A d \in Drivers, b \in Bookings : <<d, b>> \in reports => CarriesVerifiedPassenger(d, b)
  /\ \A b \in Bookings :
       /\ handover[b] => "DRIVER_FATIGUE_REPORTED" \in hold[b]
       /\ "DRIVER_FATIGUE_REPORTED" \in hold[b] => assignment[b] # "ABSENT"

\* The inductive invariant.
IInv == TInv /\ AgreeInv /\ AssignedWhileActive /\ RideCheckInv /\ FatigueInv
          /\ CompletionIsClear /\ HeldDriverStaysFatigued

USE DEF bookingRow, journeyRows, assignmentRow, rideCheckRow, interventions, driverRows

\* The table Progress, entry by entry.
LEMMA ProgressTable ==
  /\ JourneyStatuses = {"ASSIGNED", "EN_ROUTE", "ARRIVED", "AWAITING_RIDECHECK",
                        "PASSENGER_VERIFIED", "IN_PROGRESS", "ARRIVING", "COMPLETED"}
  /\ Progress["ASSIGNED"].booking = "DRIVER_ASSIGNED"
  /\ Progress["EN_ROUTE"].booking = "DRIVER_EN_ROUTE"
  /\ Progress["ARRIVED"].booking = "DRIVER_ARRIVED"
  /\ Progress["AWAITING_RIDECHECK"].booking = "AWAITING_RIDECHECK"
  /\ Progress["PASSENGER_VERIFIED"].booking = "PASSENGER_VERIFIED"
  /\ Progress["IN_PROGRESS"].booking = "IN_PROGRESS"
  /\ Progress["ARRIVING"].booking = "ARRIVING"
  /\ Progress["COMPLETED"].booking = "COMPLETED"
  BY DEF JourneyStatuses, Progress

\* Every entry has a leg status and a Booking status.
LEMMA ProgressTypes ==
  ASSUME NEW j \in JourneyStatuses
  PROVE  /\ Progress[j].leg \in LegStatuses
         /\ Progress[j].booking \in BookingStatuses
  BY DEF LegStatuses, BookingStatuses

-----------------------------------------------------------------------------
\* The initial state.
LEMMA InitIInv == Init => IInv
<1> SUFFICES ASSUME Init PROVE IInv
  OBVIOUS
<1>0. AttemptsLeft
  BY MaxAttemptsAssumption DEF Init, AttemptsLeft
<1>1. TypeOK
  BY MaxAttemptsAssumption DEF Init, TypeOK, BookingStatuses, AssignmentStatuses,
     RideCheckStatuses, AvailabilityStatuses
<1>2. AgreeInv
  BY DEF Init, AgreeInv, Agrees
<1>3. AssignedWhileActive /\ RideCheckInv /\ FatigueInv /\ CompletionIsClear
        /\ HeldDriverStaysFatigued
  BY DEF Init, AssignedWhileActive, RideCheckInv, FatigueInv, CompletionIsClear,
     HeldDriverStaysFatigued
<1> QED BY <1>0, <1>1, <1>2, <1>3 DEF IInv, TInv

\* What Transition leaves well typed.
LEMMA TransitionTypes ==
  ASSUME TypeOK, NEW b \in Bookings, NEW to \in JourneyStatuses, Transition(b, to)
  PROVE  /\ status' \in [Bookings -> BookingStatuses]
         /\ version' \in [Bookings -> Nat]
         /\ journey' \in [Bookings -> JourneyStatuses \cup {"ABSENT"}]
         /\ leg' \in [Bookings -> LegStatuses \cup {"ABSENT"}]
<1>1. Progress[to].leg \in LegStatuses /\ Progress[to].booking \in BookingStatuses
  BY ProgressTypes
<1> QED BY <1>1 DEF TypeOK, Transition

\* Types are kept by every step.
LEMMA NextTypeOK == TInv /\ [Next]_vars => TypeOK'
<1> SUFFICES ASSUME TypeOK, AttemptsLeft, [Next]_vars PROVE TypeOK'
  BY DEF TInv
<1> USE DEF SetAvailability
<1>1. ASSUME NEW b \in Bookings, NEW d \in Drivers, AcceptDriverOffer(b, d) PROVE TypeOK'
  <2>1. "DRIVER_ASSIGNED" \in BookingStatuses
    BY ProgressTypes, ProgressTable
  <2> QED BY <1>1, <2>1 DEF AcceptDriverOffer, TypeOK, AssignmentStatuses, AvailabilityStatuses
<1>2. ASSUME NEW d \in Drivers, NEW to \in {"AVAILABLE", "OFFLINE"}, SetDriverAvailability(d, to)
      PROVE TypeOK'
  BY <1>2 DEF SetDriverAvailability, TypeOK, AvailabilityStatuses
<1>3. ASSUME NEW b \in Bookings, AcknowledgeDriverAssignment(b) PROVE TypeOK'
  BY <1>3, TransitionTypes, ProgressTable DEF AcknowledgeDriverAssignment, TypeOK
<1>4. ASSUME NEW b \in Bookings, MarkDriverArrived(b) PROVE TypeOK'
  BY <1>4, TransitionTypes, ProgressTable DEF MarkDriverArrived, TypeOK
<1>5. ASSUME NEW b \in Bookings, NEW place \in {"none", "near", "at"}, RecordLocation(b, place)
      PROVE TypeOK'
  BY <1>5 DEF RecordLocation, TypeOK
<1>6. ASSUME NEW b \in Bookings, LocationStales(b) PROVE TypeOK'
  BY <1>6 DEF LocationStales, TypeOK
<1>7. ASSUME NEW b \in Bookings, StartRideCheck(b) PROVE TypeOK'
  BY <1>7, TransitionTypes, ProgressTable DEF StartRideCheck, TypeOK, RideCheckStatuses
<1>8. ASSUME NEW b \in Bookings, RideCheckExpires(b) PROVE TypeOK'
  BY <1>8 DEF RideCheckExpires, TypeOK
<1>9. ASSUME NEW b \in Bookings, NEW matches \in BOOLEAN, VerifyRideCheck(b, matches) PROVE TypeOK'
  <2> DEFINE result == RideCheckResult(rideCheck[b], matches, expired[b], attempts[b])
  <2>1. result \in RideCheckStatuses
    BY <1>9 DEF RideCheckResult, RideCheckStatuses, TypeOK
  <2>2. rideCheck' = [rideCheck EXCEPT ![b] = result]
    BY <1>9 DEF VerifyRideCheck
  <2>3. /\ status' \in [Bookings -> BookingStatuses]
        /\ version' \in [Bookings -> Nat]
        /\ journey' \in [Bookings -> JourneyStatuses \cup {"ABSENT"}]
        /\ leg' \in [Bookings -> LegStatuses \cup {"ABSENT"}]
    BY <1>9, TransitionTypes, ProgressTable DEF VerifyRideCheck, TypeOK
  <2>4. attempts' \in [Bookings -> 0..MaxAttempts]
    <3>1. attempts[b] \in Nat /\ MaxAttempts \in Nat /\ attempts[b] <= MaxAttempts
      BY MaxAttemptsAssumption DEF TypeOK
    <3>2. rideCheck[b] = "PENDING" => attempts[b] + 1 \in 0..MaxAttempts
      BY <3>1 DEF AttemptsLeft
    <3>3. attempts' = [attempts EXCEPT ![b] = IF rideCheck[b] = "PENDING" /\ result # "EXPIRED"
                                                THEN @ + 1 ELSE @]
      BY <1>9 DEF VerifyRideCheck
    <3> HIDE DEF result
    <3> QED BY <3>2, <3>3 DEF TypeOK
  <2>5. hold' \in [Bookings -> SUBSET HoldReasons]
    BY <1>9 DEF VerifyRideCheck, TypeOK, HoldReasons
  <2> QED BY <1>9, <2>1, <2>2, <2>3, <2>4, <2>5 DEF VerifyRideCheck, TypeOK
<1>10. ASSUME NEW b \in Bookings, StartJourney(b) PROVE TypeOK'
  BY <1>10, TransitionTypes, ProgressTable DEF StartJourney, TypeOK
<1>11. ASSUME NEW b \in Bookings, MarkJourneyArriving(b) PROVE TypeOK'
  BY <1>11, TransitionTypes, ProgressTable DEF MarkJourneyArriving, TypeOK
<1>12. ASSUME NEW b \in Bookings, CompleteJourney(b) PROVE TypeOK'
  BY <1>12, TransitionTypes, ProgressTable
     DEF CompleteJourney, TypeOK, AssignmentStatuses, AvailabilityStatuses
<1>13. ASSUME NEW b \in Bookings, SafelyTerminateUnsafeJourney(b) PROVE TypeOK'
  <2>1. "INTERRUPTED" \in LegStatuses /\ "ACTIVE_INCIDENT" \in BookingStatuses
    BY DEF LegStatuses, BookingStatuses
  <2>2. /\ status' \in [Bookings -> BookingStatuses]
        /\ version' \in [Bookings -> Nat]
        /\ leg' \in [Bookings -> LegStatuses \cup {"ABSENT"}]
    BY <1>13, <2>1 DEF SafelyTerminateUnsafeJourney, TypeOK
  <2>3. /\ assignment' \in [Bookings -> AssignmentStatuses]
        /\ incident' \in [Bookings -> BOOLEAN]
        /\ availability' \in [Drivers -> AvailabilityStatuses]
    BY <1>13 DEF SafelyTerminateUnsafeJourney, TypeOK, AssignmentStatuses, AvailabilityStatuses
  <2> QED BY <1>13, <2>2, <2>3 DEF SafelyTerminateUnsafeJourney, TypeOK
<1>14. ASSUME NEW d \in Drivers, ReportFatigueBegin(d) PROVE TypeOK'
  BY <1>14 DEF ReportFatigueBegin, TypeOK
<1>15. ASSUME NEW d \in Drivers, NEW b \in Bookings, ReportFatigueHold(d, b) PROVE TypeOK'
  BY <1>15 DEF ReportFatigueHold, TypeOK, HoldReasons
<1>16. ASSUME NEW d \in Drivers, ReportFatigueBreak(d) PROVE TypeOK'
  BY <1>16 DEF ReportFatigueBreak, TypeOK, AvailabilityStatuses
<1>17. ASSUME NEW d \in Drivers, ReportFatigueAbort(d) PROVE TypeOK'
  BY <1>17 DEF ReportFatigueAbort, TypeOK
<1>18. ASSUME NEW d \in Drivers, ClearDriverFatigueAfterRest(d) PROVE TypeOK'
  BY <1>18 DEF ClearDriverFatigueAfterRest, TypeOK
<1>19. CASE UNCHANGED vars
  BY <1>19 DEF vars, TypeOK
<1> QED
  BY <1>1, <1>2, <1>3, <1>4, <1>5, <1>6, <1>7, <1>8, <1>9, <1>10, <1>11, <1>12, <1>13,
     <1>14, <1>15, <1>16, <1>17, <1>18, <1>19 DEF Next, ReportDriverFatigue

\* A journey past the pickup comes from a step that starts or answers a RideCheck.
LEMMA NextAttemptsLeft == TInv /\ [Next]_vars => AttemptsLeft'
<1> SUFFICES ASSUME TInv, [Next]_vars, NEW c \in Bookings
             PROVE  /\ rideCheck'[c] \in {"ABSENT", "PENDING"} => attempts'[c] < MaxAttempts
                    /\ journey'[c] \in {"ABSENT", "EN_ROUTE", "ARRIVED"} => rideCheck'[c] = "ABSENT"
  BY DEF AttemptsLeft
<1> DEFINE Left(d) == /\ rideCheck[d] \in {"ABSENT", "PENDING"} => attempts[d] < MaxAttempts
                      /\ journey[d] \in {"ABSENT", "EN_ROUTE", "ARRIVED"} => rideCheck[d] = "ABSENT"
<1>0. /\ \A d \in Bookings : Left(d)
      /\ attempts[c] \in Nat /\ MaxAttempts \in Nat
  BY MaxAttemptsAssumption DEF TInv, TypeOK, AttemptsLeft
<1>1. CASE \E b \in Bookings : AcknowledgeDriverAssignment(b) \/ MarkDriverArrived(b)
  BY <1>0, <1>1 DEF AcknowledgeDriverAssignment, MarkDriverArrived, Transition, StandsAt, TInv, TypeOK
<1>2. ASSUME NEW b \in Bookings, StartRideCheck(b) PROVE Left(c)'
  BY <1>0, <1>2 DEF StartRideCheck, Transition, StandsAt, TInv, TypeOK
<1>3. ASSUME NEW b \in Bookings, NEW matches \in BOOLEAN, VerifyRideCheck(b, matches) PROVE Left(c)'
  <2>1. CASE c # b
    <3>1. rideCheck'[c] = rideCheck[c] /\ attempts'[c] = attempts[c] /\ journey'[c] = journey[c]
      BY <1>3, <2>1 DEF VerifyRideCheck, Transition, TInv, TypeOK
    <3> QED BY <1>0, <3>1
  <2>2. CASE c = b
    <3>1. journey'[b] \in {"AWAITING_RIDECHECK", "PASSENGER_VERIFIED"}
      BY <1>3 DEF VerifyRideCheck, Transition, StandsAt, TInv, TypeOK
    <3>2. rideCheck'[b] = RideCheckResult(rideCheck[b], matches, expired[b], attempts[b])
      BY <1>3 DEF VerifyRideCheck, TInv, TypeOK
    <3>3. rideCheck'[b] # "ABSENT" \/ rideCheck[b] = "ABSENT"
      BY <3>2 DEF RideCheckResult
    <3>4. attempts'[b] = IF rideCheck[b] = "PENDING" /\ rideCheck'[b] # "EXPIRED"
                           THEN attempts[b] + 1 ELSE attempts[b]
      BY <1>3, <3>2 DEF VerifyRideCheck, TInv, TypeOK
    <3>5. rideCheck'[b] \in {"ABSENT", "PENDING"} => attempts'[b] < MaxAttempts
      BY <1>0, <2>2, <3>2, <3>4 DEF RideCheckResult
    <3> QED BY <2>2, <3>1, <3>5
  <2> QED BY <2>1, <2>2
<1>4. CASE \E b \in Bookings : StartJourney(b) \/ MarkJourneyArriving(b) \/ CompleteJourney(b)
  BY <1>0, <1>4 DEF StartJourney, MarkJourneyArriving, CompleteJourney, Transition, TInv, TypeOK
<1>5. CASE UNCHANGED <<journey, rideCheck, attempts>>
  BY <1>0, <1>5
<1> QED
  BY <1>1, <1>2, <1>3, <1>4, <1>5 DEF Next, ReportDriverFatigue, vars, AcceptDriverOffer,
     SetDriverAvailability, RecordLocation, LocationStales, RideCheckExpires, SafelyTerminateUnsafeJourney,
     ReportFatigueBegin, ReportFatigueHold, ReportFatigueBreak, ReportFatigueAbort,
     ClearDriverFatigueAfterRest

LEMMA NextTInv == TInv /\ [Next]_vars => TInv'
  BY NextTypeOK, NextAttemptsLeft DEF TInv

-----------------------------------------------------------------------------
(* The records of a Booking. *)

\* What Agrees(c) reads.
SameRecords(c) ==
  /\ status'[c] = status[c] /\ journey'[c] = journey[c] /\ leg'[c] = leg[c]
  /\ assignment'[c] = assignment[c] /\ driver'[c] = driver[c] /\ incident'[c] = incident[c]

LEMMA SameRecordsAgree ==
  ASSUME NEW c, SameRecords(c), Agrees(c)
  PROVE  Agrees(c)'
  BY DEF SameRecords, Agrees, StandsAt

\* A Transition of a Booking whose assignment stays leaves its records in agreement.
LEMMA TransitionAgrees ==
  ASSUME TypeOK, NEW b \in Bookings, Agrees(b), ~incident[b], incident' = incident,
         assignment[b] = "ACTIVE", driver' = driver,
         NEW to \in JourneyStatuses \ {"ASSIGNED"}, Transition(b, to),
         assignment'[b] = IF to = "COMPLETED" THEN "COMPLETED" ELSE "ACTIVE"
  PROVE  Agrees(b)'
<1>1. /\ journey'[b] = to /\ leg'[b] = Progress[to].leg /\ status'[b] = Progress[to].booking
  BY DEF Transition, TypeOK
<1>2. to # "ABSENT" /\ Progress[to].booking \notin {"SEARCHING_FOR_DRIVER", "DRIVER_ASSIGNED"}
  BY ProgressTable
<1>3. driver[b] \in Drivers
  BY DEF Agrees
<1> QED BY <1>1, <1>2, <1>3 DEF Agrees, StandsAt

\* A Journey under way has an assignment, and it is ACTIVE until it is over.
LEMMA UnderWayIsActive ==
  ASSUME TypeOK, NEW b \in Bookings, Agrees(b),
         journey[b] \in JourneyStatuses \ {"COMPLETED"}, ~incident[b]
  PROVE  assignment[b] = "ACTIVE"
<1>1. journey[b] # "ABSENT"
  BY ProgressTable
<1> QED BY <1>1 DEF Agrees, TypeOK, AssignmentStatuses

\* The Booking of a Journey that stands at a status of the table has no incident.
LEMMA StandingIsNoIncident ==
  ASSUME NEW b \in Bookings, Agrees(b), NEW from \in JourneyStatuses, StandsAt(b, from)
  PROVE  ~incident[b]
  BY ProgressTable DEF Agrees, StandsAt

LEMMA ActiveIsNoIncident ==
  ASSUME NEW b \in Bookings, Agrees(b), assignment[b] = "ACTIVE"
  PROVE  ~incident[b]
  BY DEF Agrees

\* Every step keeps the records of every Booking in agreement.
LEMMA NextAgreeInv == TypeOK /\ AgreeInv /\ [Next]_vars => AgreeInv'
<1> SUFFICES ASSUME TypeOK, AgreeInv, [Next]_vars, NEW c \in Bookings PROVE Agrees(c)'
  BY DEF AgreeInv
<1>0. \A b \in Bookings : Agrees(b)
  BY DEF AgreeInv
<1>1. ASSUME NEW b \in Bookings, NEW d \in Drivers, AcceptDriverOffer(b, d) PROVE Agrees(c)'
  <2>1. CASE c # b
    BY <1>0, <1>1, <2>1, SameRecordsAgree DEF SameRecords, AcceptDriverOffer, TypeOK
  <2>2. CASE c = b
    <3>1. status'[b] = "DRIVER_ASSIGNED" /\ assignment'[b] = "ACTIVE" /\ driver'[b] = d
      BY <1>1 DEF AcceptDriverOffer, TypeOK
    <3>2. journey'[b] = "ABSENT" /\ ~incident'[b]
      BY <1>0, <1>1 DEF AcceptDriverOffer, Agrees
    <3> QED BY <2>2, <3>1, <3>2 DEF Agrees
  <2> QED BY <2>1, <2>2
<1>2. ASSUME NEW b \in Bookings, NEW to \in JourneyStatuses \ {"ASSIGNED", "COMPLETED"},
             Transition(b, to), UNCHANGED <<assignment, driver, incident>>,
             assignment[b] = "ACTIVE"
      PROVE  Agrees(c)'
  <2>1. CASE c # b
    BY <1>0, <1>2, <2>1, SameRecordsAgree DEF SameRecords, Transition, TypeOK
  <2>2. CASE c = b
    BY <1>0, <1>2, <2>2, TransitionAgrees, ActiveIsNoIncident
  <2> QED BY <2>1, <2>2
<1>3. CASE \E b \in Bookings : AcknowledgeDriverAssignment(b) \/ MarkDriverArrived(b)
                                \/ StartJourney(b) \/ MarkJourneyArriving(b)
  BY <1>2, <1>3, ProgressTable DEF AcknowledgeDriverAssignment, MarkDriverArrived, StartJourney,
     MarkJourneyArriving, ByAssignedDriver
<1>4. ASSUME NEW b \in Bookings, StartRideCheck(b) PROVE Agrees(c)'
  <2>1. assignment[b] = "ACTIVE"
    BY <1>0, <1>4, UnderWayIsActive, StandingIsNoIncident, ProgressTable DEF StartRideCheck, StandsAt
  <2> QED BY <1>2, <1>4, <2>1, ProgressTable DEF StartRideCheck
<1>5. ASSUME NEW b \in Bookings, NEW matches \in BOOLEAN, VerifyRideCheck(b, matches) PROVE Agrees(c)'
  <2>1. CASE Transition(b, "PASSENGER_VERIFIED")
    BY <1>2, <1>5, <2>1, ProgressTable DEF VerifyRideCheck, ByAssignedDriver
  <2>2. CASE UNCHANGED <<bookingRow, journeyRows>>
    BY <1>0, <1>5, <2>2, SameRecordsAgree DEF SameRecords, VerifyRideCheck
  <2> QED BY <1>5, <2>1, <2>2 DEF VerifyRideCheck
<1>6. ASSUME NEW b \in Bookings, CompleteJourney(b) PROVE Agrees(c)'
  <2>1. CASE c # b
    BY <1>0, <1>6, <2>1, SameRecordsAgree DEF SameRecords, CompleteJourney, Transition, TypeOK
  <2>2. CASE c = b
    <3>1. assignment'[b] = "COMPLETED" /\ assignment[b] = "ACTIVE" /\ Transition(b, "COMPLETED")
          /\ UNCHANGED <<driver, incident>>
      BY <1>6 DEF CompleteJourney, ByAssignedDriver, TypeOK
    <3> QED BY <1>0, <2>2, <3>1, TransitionAgrees, ActiveIsNoIncident, ProgressTable
  <2> QED BY <2>1, <2>2
<1>7. ASSUME NEW b \in Bookings, SafelyTerminateUnsafeJourney(b) PROVE Agrees(c)'
  <2>1. CASE c # b
    BY <1>0, <1>7, <2>1, SameRecordsAgree DEF SameRecords, SafelyTerminateUnsafeJourney, TypeOK
  <2>2. CASE c = b
    <3>1. /\ status'[b] = "ACTIVE_INCIDENT" /\ leg'[b] = "INTERRUPTED"
          /\ assignment'[b] = "CANCELLED" /\ incident'[b]
      BY <1>7 DEF SafelyTerminateUnsafeJourney, TypeOK
    <3>2. journey'[b] # "ABSENT" /\ driver'[b] \in Drivers
      BY <1>0, <1>7, ProgressTable DEF SafelyTerminateUnsafeJourney, ByAssignedDriver, Agrees
    <3> QED BY <2>2, <3>1, <3>2 DEF Agrees
  <2> QED BY <2>1, <2>2
<1>8. CASE UNCHANGED <<status, journey, leg, assignment, driver, incident>>
  BY <1>0, <1>8, SameRecordsAgree DEF SameRecords
<1> QED
  BY <1>1, <1>3, <1>4, <1>5, <1>6, <1>7, <1>8 DEF Next, ReportDriverFatigue, vars,
     SetDriverAvailability, RecordLocation, LocationStales, RideCheckExpires,
     ReportFatigueBegin, ReportFatigueHold, ReportFatigueBreak, ReportFatigueAbort,
     ClearDriverFatigueAfterRest

-----------------------------------------------------------------------------
(* Drivers and their assignments. *)

\* The steps that change an assignment or an availability, and what they change.
LEMMA NextAssignedWhileActive ==
  TypeOK /\ AgreeInv /\ AssignedWhileActive /\ [Next]_vars => AssignedWhileActive'
<1> SUFFICES ASSUME TypeOK, AgreeInv, AssignedWhileActive, [Next]_vars PROVE AssignedWhileActive'
  OBVIOUS
<1> DEFINE Works(d, b) == assignment[b] = "ACTIVE" /\ driver[b] = d
<1>0. /\ \A d \in Drivers : availability[d] = "ASSIGNED" <=> \E b \in Bookings : Works(d, b)
      /\ \A d \in Drivers, b, c \in Bookings : Works(d, b) /\ Works(d, c) => b = c
      /\ \A b \in Bookings : assignment[b] # "ABSENT" => driver[b] \in Drivers
      /\ \A b \in Bookings : status[b] = "SEARCHING_FOR_DRIVER" => assignment[b] = "ABSENT"
  BY DEF AssignedWhileActive, AgreeInv, Agrees
<1>1. ASSUME NEW b \in Bookings, NEW d \in Drivers, AcceptDriverOffer(b, d)
      PROVE  AssignedWhileActive'
  <2>1. /\ assignment' = [assignment EXCEPT ![b] = "ACTIVE"]
        /\ driver' = [driver EXCEPT ![b] = d]
        /\ availability' = [availability EXCEPT ![d] = "ASSIGNED"]
        /\ assignment[b] = "ABSENT" /\ availability[d] = "AVAILABLE"
    BY <1>0, <1>1 DEF AcceptDriverOffer, SetAvailability
  <2>2. \A e \in Drivers, c \in Bookings : Works(e, c)' <=> (Works(e, c) \/ (e = d /\ c = b))
    BY <2>1 DEF TypeOK
  <2>3. \A c \in Bookings : ~Works(d, c)
    BY <1>0, <2>1
  <2>4. \A e \in Drivers : availability'[e] = "ASSIGNED" <=> (availability[e] = "ASSIGNED" \/ e = d)
    BY <2>1 DEF TypeOK
  <2>5. \A e \in Drivers : availability'[e] = "ASSIGNED" <=> \E c \in Bookings : Works(e, c)'
    BY <1>0, <2>2, <2>4
  <2>6. \A e \in Drivers, c1, c2 \in Bookings : Works(e, c1)' /\ Works(e, c2)' => c1 = c2
    BY <1>0, <2>2, <2>3
  <2> QED BY <2>5, <2>6 DEF AssignedWhileActive
<1>2. ASSUME NEW b \in Bookings, NEW done \in {"COMPLETED", "CANCELLED"},
             NEW to \in {"AVAILABLE", "BREAK"}, assignment[b] = "ACTIVE", driver' = driver,
             assignment' = [assignment EXCEPT ![b] = done], SetAvailability(driver[b], to)
      PROVE  AssignedWhileActive'
  <2> DEFINE d == driver[b]
  <2>1. d \in Drivers /\ Works(d, b)
    BY <1>0, <1>2
  <2>2. \A e \in Drivers, c \in Bookings : Works(e, c)' <=> (Works(e, c) /\ c # b)
    BY <1>2 DEF TypeOK
  <2>3. \A e \in Drivers : availability'[e] = "ASSIGNED" <=> (availability[e] = "ASSIGNED" /\ e # d)
    BY <1>2, <2>1 DEF TypeOK, SetAvailability
  <2>4. \A e \in Drivers : availability'[e] = "ASSIGNED" <=> \E c \in Bookings : Works(e, c)'
    BY <1>0, <2>1, <2>2, <2>3
  <2>5. \A e \in Drivers, c1, c2 \in Bookings : Works(e, c1)' /\ Works(e, c2)' => c1 = c2
    BY <1>0, <2>2
  <2> QED BY <2>4, <2>5 DEF AssignedWhileActive
<1>3. CASE \E b \in Bookings : CompleteJourney(b) \/ SafelyTerminateUnsafeJourney(b)
  BY <1>2, <1>3 DEF CompleteJourney, SafelyTerminateUnsafeJourney, ByAssignedDriver
<1>4. ASSUME NEW d \in Drivers, NEW to \in {"AVAILABLE", "OFFLINE", "BREAK"},
             availability[d] # "ASSIGNED" \/ to = availability[d],
             SetAvailability(d, to), UNCHANGED <<assignment, driver>>
      PROVE  AssignedWhileActive'
  <2>1. \A e \in Drivers : availability'[e] = "ASSIGNED" <=> availability[e] = "ASSIGNED"
    BY <1>4 DEF TypeOK, SetAvailability
  <2> QED BY <1>0, <1>4, <2>1 DEF AssignedWhileActive
<1>5. ASSUME NEW d \in Drivers, NEW to \in {"AVAILABLE", "OFFLINE"}, SetDriverAvailability(d, to)
      PROVE  AssignedWhileActive'
  BY <1>4, <1>5 DEF SetDriverAvailability
<1>6. ASSUME NEW d \in Drivers, ReportFatigueBreak(d) PROVE AssignedWhileActive'
  <2>1. CASE availability[d] = "AVAILABLE"
    BY <1>4, <1>6, <2>1 DEF ReportFatigueBreak
  <2>2. CASE availability[d] # "AVAILABLE"
    <3>1. availability' = availability /\ UNCHANGED <<assignment, driver>>
      BY <1>6, <2>2 DEF ReportFatigueBreak, SetAvailability, TypeOK
    <3> QED BY <1>0, <3>1 DEF AssignedWhileActive
  <2> QED BY <2>1, <2>2
<1>7. CASE UNCHANGED <<assignment, driver, availability>>
  BY <1>0, <1>7 DEF AssignedWhileActive
<1> QED
  BY <1>1, <1>3, <1>5, <1>6, <1>7 DEF Next, ReportDriverFatigue, vars,
     AcknowledgeDriverAssignment, MarkDriverArrived, RecordLocation, LocationStales, StartRideCheck,
     RideCheckExpires, VerifyRideCheck, StartJourney, MarkJourneyArriving,
     ReportFatigueBegin, ReportFatigueHold, ReportFatigueAbort, ClearDriverFatigueAfterRest

-----------------------------------------------------------------------------
(* RideCheck. *)

LEMMA NextRideCheckInv == TypeOK /\ RideCheckInv /\ [Next]_vars => RideCheckInv'
<1> DEFINE Past == {"PASSENGER_VERIFIED", "IN_PROGRESS", "ARRIVING", "COMPLETED"}
           Checked(c) == /\ journey[c] \in Past => rideCheck[c] = "VERIFIED"
                         /\ rideCheck[c] = "LOCKED" <=> "RIDECHECK_ATTEMPTS_EXHAUSTED" \in hold[c]
<1> SUFFICES ASSUME TypeOK, RideCheckInv, [Next]_vars, NEW c \in Bookings PROVE Checked(c)'
  BY DEF RideCheckInv
<1>0. \A b \in Bookings : Checked(b)
  BY DEF RideCheckInv
<1>1. ASSUME NEW b \in Bookings, StartRideCheck(b) PROVE Checked(c)'
  BY <1>0, <1>1 DEF StartRideCheck, Transition, TypeOK
<1>2. ASSUME NEW b \in Bookings, NEW matches \in BOOLEAN, VerifyRideCheck(b, matches) PROVE Checked(c)'
  <2> DEFINE result == RideCheckResult(rideCheck[b], matches, expired[b], attempts[b])
  <2>1. CASE c # b
    <3>1. journey'[c] = journey[c] /\ rideCheck'[c] = rideCheck[c] /\ hold'[c] = hold[c]
      BY <1>2, <2>1 DEF VerifyRideCheck, Transition, TypeOK
    <3> QED BY <1>0, <3>1
  <2>2. CASE c = b
    <3>1. /\ rideCheck'[b] = result
          /\ hold'[b] = IF result = "LOCKED" THEN hold[b] \cup {"RIDECHECK_ATTEMPTS_EXHAUSTED"}
                                             ELSE hold[b]
          /\ IF result = "VERIFIED" THEN journey'[b] = "PASSENGER_VERIFIED"
                                    ELSE journey'[b] = "AWAITING_RIDECHECK"
      BY <1>2 DEF VerifyRideCheck, StandsAt, Transition, TypeOK
    <3>2. rideCheck[b] = "PENDING"
      BY <1>2 DEF VerifyRideCheck, RideCheckResult
    <3> HIDE DEF result
    <3>3. "RIDECHECK_ATTEMPTS_EXHAUSTED" \notin hold[b]
      BY <1>0, <3>2
    <3> QED BY <2>2, <3>1, <3>3
  <2> QED BY <2>1, <2>2
<1>3. CASE \E b \in Bookings : \/ AcknowledgeDriverAssignment(b) \/ MarkDriverArrived(b)
  BY <1>0, <1>3 DEF AcknowledgeDriverAssignment, MarkDriverArrived, Transition, TypeOK
<1>4. CASE \E b \in Bookings : StartJourney(b) \/ MarkJourneyArriving(b) \/ CompleteJourney(b)
  BY <1>0, <1>4 DEF StartJourney, MarkJourneyArriving, CompleteJourney, Transition, StandsAt, TypeOK
<1>5. ASSUME NEW d \in Drivers, NEW b \in Bookings, ReportFatigueHold(d, b) PROVE Checked(c)'
  BY <1>0, <1>5 DEF ReportFatigueHold, TypeOK
<1>6. CASE UNCHANGED <<journey, rideCheck, hold>>
  BY <1>0, <1>6
<1> QED
  BY <1>1, <1>2, <1>3, <1>4, <1>5, <1>6 DEF Next, ReportDriverFatigue, vars, AcceptDriverOffer,
     SetDriverAvailability, RecordLocation, LocationStales, RideCheckExpires,
     SafelyTerminateUnsafeJourney, ReportFatigueBegin, ReportFatigueBreak, ReportFatigueAbort,
     ClearDriverFatigueAfterRest

-----------------------------------------------------------------------------
(* Fatigue. *)

\* A step of a Journey whose assignment is not locked by a report.
LEMMA UnlockedHasNoReport ==
  ASSUME NEW b \in Bookings, ~AssignmentLocked(b), NEW d \in Drivers
  PROVE  <<d, b>> \notin reports
  BY DEF AssignmentLocked

\* What a report found is still there when it commits.
LEMMA NextFatigueInv ==
  TypeOK /\ AgreeInv /\ FatigueInv /\ [Next]_vars => FatigueInv'
<1> DEFINE Found(d, c) == <<d, c>> \in reports => CarriesVerifiedPassenger(d, c)
           Linked(c) == /\ handover[c] => "DRIVER_FATIGUE_REPORTED" \in hold[c]
                        /\ "DRIVER_FATIGUE_REPORTED" \in hold[c] => assignment[c] # "ABSENT"
<1> SUFFICES ASSUME TypeOK, AgreeInv, FatigueInv, [Next]_vars,
                    NEW c \in Bookings
             PROVE  Linked(c)' /\ \A e \in Drivers : Found(e, c)'
  BY DEF FatigueInv
<1>0. Linked(c) /\ \A e \in Drivers : Found(e, c)
  BY DEF FatigueInv
<1>1. ASSUME NEW b \in Bookings, reports' = reports, ~AssignmentLocked(b),
             UNCHANGED <<hold, handover>>,
             b # c => /\ assignment'[c] = assignment[c] /\ driver'[c] = driver[c]
                      /\ journey'[c] = journey[c],
             assignment'[b] # "ABSENT"
      PROVE  Linked(c)' /\ \A e \in Drivers : Found(e, c)'
  BY <1>0, <1>1, UnlockedHasNoReport DEF CarriesVerifiedPassenger
<1>2. ASSUME NEW b \in Bookings, NEW d \in Drivers, AcceptDriverOffer(b, d)
      PROVE  Linked(c)' /\ \A e \in Drivers : Found(e, c)'
  <2>1. assignment[b] = "ABSENT"
    BY <1>2 DEF AcceptDriverOffer, AgreeInv, Agrees
  <2>2. ~AssignmentLocked(b)
    BY <2>1 DEF AssignmentLocked, FatigueInv, CarriesVerifiedPassenger
  <2> QED BY <1>1, <1>2, <2>2 DEF AcceptDriverOffer, TypeOK
<1>3. ASSUME NEW b \in Bookings,
             AcknowledgeDriverAssignment(b) \/ MarkDriverArrived(b) \/ StartJourney(b)
               \/ MarkJourneyArriving(b) \/ CompleteJourney(b) \/ SafelyTerminateUnsafeJourney(b)
      PROVE  Linked(c)' /\ \A e \in Drivers : Found(e, c)'
  <2>1. ~AssignmentLocked(b) /\ assignment'[b] # "ABSENT" /\ UNCHANGED <<reports, hold, handover>>
    BY <1>3 DEF AcknowledgeDriverAssignment, MarkDriverArrived, StartJourney, MarkJourneyArriving,
       CompleteJourney, SafelyTerminateUnsafeJourney, ByAssignedDriver, TypeOK
  <2>2. b # c => /\ assignment'[c] = assignment[c] /\ driver'[c] = driver[c]
                 /\ journey'[c] = journey[c]
    BY <1>3 DEF AcknowledgeDriverAssignment, MarkDriverArrived, StartJourney, MarkJourneyArriving,
       CompleteJourney, SafelyTerminateUnsafeJourney, Transition, TypeOK
  <2> QED BY <1>1, <2>1, <2>2
<1>4. ASSUME NEW b \in Bookings, StartRideCheck(b)
      PROVE  Linked(c)' /\ \A e \in Drivers : Found(e, c)'
  <2>1. assignment[b] # "ABSENT"
    BY <1>4, ProgressTable DEF StartRideCheck, StandsAt, AgreeInv, Agrees
  <2> QED BY <1>1, <1>4, <2>1 DEF StartRideCheck, Transition, TypeOK
<1>5. ASSUME NEW b \in Bookings, NEW matches \in BOOLEAN, VerifyRideCheck(b, matches)
      PROVE  Linked(c)' /\ \A e \in Drivers : Found(e, c)'
  <2>1. "DRIVER_FATIGUE_REPORTED" \in hold'[c] <=> "DRIVER_FATIGUE_REPORTED" \in hold[c]
    BY <1>5 DEF VerifyRideCheck, TypeOK
  <2>2. b # c => journey'[c] = journey[c]
    BY <1>5 DEF VerifyRideCheck, Transition, TypeOK
  <2>3. ~AssignmentLocked(b) /\ UNCHANGED <<reports, handover, assignment, driver>>
    BY <1>5 DEF VerifyRideCheck, ByAssignedDriver
  <2> QED BY <1>0, <2>1, <2>2, <2>3, UnlockedHasNoReport DEF CarriesVerifiedPassenger
<1>6. ASSUME NEW d \in Drivers, ReportFatigueBegin(d)
      PROVE  Linked(c)' /\ \A e \in Drivers : Found(e, c)'
  <2>1. Linked(c)'
    BY <1>0, <1>6 DEF ReportFatigueBegin
  <2>2. \A e \in Drivers : <<e, c>> \in reports' => <<e, c>> \in reports \/ CarriesVerifiedPassenger(e, c)
    BY <1>6, JourneyNoneAssumption DEF ReportFatigueBegin
  <2>3. UNCHANGED <<assignment, driver, journey>>
    BY <1>6 DEF ReportFatigueBegin
  <2> QED BY <1>0, <2>1, <2>2, <2>3 DEF CarriesVerifiedPassenger
<1>7. ASSUME NEW d \in Drivers, NEW b \in Bookings, ReportFatigueHold(d, b)
      PROVE  Linked(c)' /\ \A e \in Drivers : Found(e, c)'
  <2>1. CarriesVerifiedPassenger(d, b)
    BY <1>7 DEF FatigueInv, ReportFatigueHold
  <2>2. reports' \subseteq reports /\ UNCHANGED <<assignment, driver, journey>>
    BY <1>7 DEF ReportFatigueHold
  <2>3. \A e \in Drivers : Found(e, c)'
    BY <1>0, <2>2 DEF CarriesVerifiedPassenger
  <2>4. Linked(c)'
    BY <1>0, <1>7, <2>1, <2>2 DEF ReportFatigueHold, CarriesVerifiedPassenger, TypeOK
  <2> QED BY <2>3, <2>4
<1>8. CASE reports' \subseteq reports /\ UNCHANGED <<assignment, driver, journey, hold, handover>>
  BY <1>0, <1>8 DEF CarriesVerifiedPassenger
<1> QED
  BY <1>2, <1>3, <1>4, <1>5, <1>6, <1>7, <1>8 DEF Next, ReportDriverFatigue, vars,
     SetDriverAvailability, RecordLocation, LocationStales, RideCheckExpires,
     ReportFatigueBreak, ReportFatigueAbort, ClearDriverFatigueAfterRest

\* A completion looks at the holds, and what comes later finds no passenger.
LEMMA NextCompletionIsClear ==
  TypeOK /\ FatigueInv /\ CompletionIsClear /\ [Next]_vars => CompletionIsClear'
<1> DEFINE Clear(c) == journey[c] = "COMPLETED" => hold[c] = {} /\ ~handover[c]
<1> SUFFICES ASSUME TypeOK, FatigueInv, CompletionIsClear, [Next]_vars, NEW c \in Bookings
             PROVE  Clear(c)'
  BY DEF CompletionIsClear
<1>0. Clear(c)
  BY DEF CompletionIsClear
<1>1. ASSUME NEW b \in Bookings, CompleteJourney(b) PROVE Clear(c)'
  BY <1>0, <1>1 DEF CompleteJourney, Transition, FatigueInv, TypeOK
<1>2. ASSUME NEW b \in Bookings, NEW to \in JourneyStatuses \ {"COMPLETED"}, Transition(b, to),
             UNCHANGED <<hold, handover>>
      PROVE  Clear(c)'
  BY <1>0, <1>2 DEF Transition, TypeOK
<1>3. CASE \E b \in Bookings : AcknowledgeDriverAssignment(b) \/ MarkDriverArrived(b)
             \/ StartRideCheck(b) \/ StartJourney(b) \/ MarkJourneyArriving(b)
  BY <1>2, <1>3, ProgressTable DEF AcknowledgeDriverAssignment, MarkDriverArrived, StartRideCheck,
     StartJourney, MarkJourneyArriving
<1>4. ASSUME NEW b \in Bookings, NEW matches \in BOOLEAN, VerifyRideCheck(b, matches) PROVE Clear(c)'
  <2>1. journey'[b] # "COMPLETED"
    BY <1>4 DEF VerifyRideCheck, StandsAt, Transition, TypeOK
  <2>2. c # b => journey'[c] = journey[c] /\ hold'[c] = hold[c]
    BY <1>4 DEF VerifyRideCheck, Transition, TypeOK
  <2>3. handover' = handover
    BY <1>4 DEF VerifyRideCheck
  <2> QED BY <1>0, <2>1, <2>2, <2>3
<1>5. ASSUME NEW d \in Drivers, NEW b \in Bookings, ReportFatigueHold(d, b) PROVE Clear(c)'
  <2>1. journey[b] # "COMPLETED"
    BY <1>5 DEF FatigueInv, ReportFatigueHold, CarriesVerifiedPassenger
  <2>2. c # b => hold'[c] = hold[c] /\ handover'[c] = handover[c]
    BY <1>5 DEF ReportFatigueHold, TypeOK
  <2> QED BY <1>0, <1>5, <2>1, <2>2 DEF ReportFatigueHold
<1>6. CASE UNCHANGED <<journey, hold, handover>>
  BY <1>0, <1>6
<1> QED
  BY <1>1, <1>3, <1>4, <1>5, <1>6 DEF Next, ReportDriverFatigue, vars, AcceptDriverOffer,
     SetDriverAvailability, RecordLocation, LocationStales, RideCheckExpires,
     SafelyTerminateUnsafeJourney, ReportFatigueBegin, ReportFatigueBreak, ReportFatigueAbort,
     ClearDriverFatigueAfterRest

\* An observation is only taken from a Driver who has no active assignment.
LEMMA NextHeldDriverStaysFatigued ==
  TypeOK /\ AgreeInv /\ AssignedWhileActive /\ FatigueInv /\ HeldDriverStaysFatigued /\ [Next]_vars
    => HeldDriverStaysFatigued'
<1> DEFINE Held(c) == "DRIVER_FATIGUE_REPORTED" \in hold[c] /\ assignment[c] = "ACTIVE"
<1> SUFFICES ASSUME TypeOK, AgreeInv, AssignedWhileActive, FatigueInv, HeldDriverStaysFatigued,
                    [Next]_vars, NEW c \in Bookings, Held(c)'
             PROVE  fatigued'[driver'[c]]
  BY DEF HeldDriverStaysFatigued
<1>0. Held(c) => fatigued[driver[c]] /\ driver[c] \in Drivers
  BY DEF HeldDriverStaysFatigued, AgreeInv, Agrees
<1>1. ASSUME NEW b \in Bookings, NEW d \in Drivers, AcceptDriverOffer(b, d)
      PROVE  fatigued'[driver'[c]]
  <2>1. assignment[b] = "ABSENT" /\ "DRIVER_FATIGUE_REPORTED" \notin hold[b]
    BY <1>1 DEF AcceptDriverOffer, AgreeInv, Agrees, FatigueInv
  <2>2. c # b /\ Held(c) /\ driver'[c] = driver[c] /\ fatigued' = fatigued
    BY <1>1, <2>1 DEF AcceptDriverOffer, TypeOK
  <2> QED BY <1>0, <2>2
<1>2. ASSUME NEW d \in Drivers, NEW to \in {"AVAILABLE", "OFFLINE"}, SetDriverAvailability(d, to)
      PROVE  fatigued'[driver'[c]]
  <2>1. Held(c) /\ driver' = driver /\ availability[d] # "ASSIGNED"
    BY <1>2 DEF SetDriverAvailability
  <2>2. driver[c] # d
    BY <2>1 DEF AssignedWhileActive
  <2> QED BY <1>0, <1>2, <2>1, <2>2 DEF SetDriverAvailability, TypeOK
<1>3. ASSUME NEW d \in Drivers, ClearDriverFatigueAfterRest(d) PROVE fatigued'[driver'[c]]
  <2>1. Held(c) /\ driver' = driver
    BY <1>3 DEF ClearDriverFatigueAfterRest
  <2>2. driver[c] # d
    BY <1>3, <2>1 DEF ClearDriverFatigueAfterRest
  <2> QED BY <1>0, <1>3, <2>1, <2>2 DEF ClearDriverFatigueAfterRest, TypeOK
<1>4. ASSUME NEW d \in Drivers, NEW b \in Bookings, ReportFatigueHold(d, b)
      PROVE  fatigued'[driver'[c]]
  <2>1. driver[b] = d
    BY <1>4 DEF FatigueInv, ReportFatigueHold, CarriesVerifiedPassenger
  <2>2. fatigued' = [fatigued EXCEPT ![d] = TRUE] /\ UNCHANGED <<assignment, driver>>
    BY <1>4 DEF ReportFatigueHold
  <2>3. CASE c = b
    BY <2>1, <2>2, <2>3 DEF TypeOK
  <2>4. CASE c # b
    <3>1. Held(c)
      BY <1>4, <2>2, <2>4 DEF ReportFatigueHold, TypeOK
    <3> QED BY <1>0, <2>2, <3>1 DEF TypeOK
  <2> QED BY <2>3, <2>4
<1>5. ASSUME NEW d \in Drivers, ReportFatigueBreak(d) PROVE fatigued'[driver'[c]]
  <2>1. Held(c) /\ driver' = driver
    BY <1>5 DEF ReportFatigueBreak
  <2> QED BY <1>0, <1>5, <2>1 DEF ReportFatigueBreak, TypeOK
<1>6. ASSUME NEW b \in Bookings, NEW matches \in BOOLEAN, VerifyRideCheck(b, matches)
      PROVE  fatigued'[driver'[c]]
  <2>1. Held(c) /\ UNCHANGED <<driver, fatigued>>
    BY <1>6 DEF VerifyRideCheck, TypeOK
  <2> QED BY <1>0, <2>1
<1>7. ASSUME NEW b \in Bookings, CompleteJourney(b) \/ SafelyTerminateUnsafeJourney(b)
      PROVE  fatigued'[driver'[c]]
  <2>1. Held(c) /\ UNCHANGED <<driver, fatigued>>
    BY <1>7 DEF CompleteJourney, SafelyTerminateUnsafeJourney, TypeOK
  <2> QED BY <1>0, <2>1
<1>8. CASE UNCHANGED <<hold, assignment, driver, fatigued>>
  BY <1>0, <1>8
<1> QED
  BY <1>1, <1>2, <1>3, <1>4, <1>5, <1>6, <1>7, <1>8 DEF Next, ReportDriverFatigue, vars,
     AcknowledgeDriverAssignment, MarkDriverArrived, RecordLocation, LocationStales, StartRideCheck,
     RideCheckExpires, StartJourney, MarkJourneyArriving, ReportFatigueBegin, ReportFatigueAbort

-----------------------------------------------------------------------------
(* The results. *)

LEMMA NextIInv == IInv /\ [Next]_vars => IInv'
  BY NextTInv, NextAgreeInv, NextAssignedWhileActive, NextRideCheckInv, NextFatigueInv,
     NextCompletionIsClear, NextHeldDriverStaysFatigued DEF IInv, TInv

LEMMA Invariance == Spec => []IInv
  BY InitIInv, NextIInv, PTL DEF Spec

\* Every reachable state is well typed; in particular no RideCheck session counts
\* more attempts than the limit.
THEOREM JourneyTypeCorrect == Spec => []TypeOK
<1>1. IInv => TypeOK
  BY DEF IInv, TInv
<1> QED BY Invariance, <1>1, PTL

\* Booking, Journey, leg and assignment tell one story.
THEOREM JourneyRecordsAgree == Spec => []RecordsAgree
<1>1. IInv => RecordsAgree
  BY DEF IInv, AgreeInv, Agrees, RecordsAgree
<1> QED BY Invariance, <1>1, PTL

\* A Driver is ASSIGNED exactly while one active assignment is theirs.
THEOREM DriverAssignedWhileActive == Spec => []AssignedWhileActive
<1>1. IInv => AssignedWhileActive
  BY DEF IInv
<1> QED BY Invariance, <1>1, PTL

\* No Journey gets past RideCheck on a session that expired or was locked.
THEOREM ProtectedStart == Spec => []StartIsProtected
<1>1. IInv => StartIsProtected
  BY DEF IInv, RideCheckInv, StartIsProtected
<1> QED BY Invariance, <1>1, PTL

\* No Journey is completed around a fatigue report.
THEOREM CompletionClearOfFatigue == Spec => []CompletionIsClear
<1>1. IInv => CompletionIsClear
  BY DEF IInv
<1> QED BY Invariance, <1>1, PTL

\* The observation stays while the Driver has the held passenger.
THEOREM HeldDriverKeepsObservation == Spec => []HeldDriverStaysFatigued
<1>1. IInv => HeldDriverStaysFatigued
  BY DEF IInv
<1> QED BY Invariance, <1>1, PTL

\* No command moves the records of a Journey that was ended by an incident.
THEOREM IncidentsAreFinal == Spec => IncidentIsFinal
<1> DEFINE Final == \A b \in Bookings : incident[b] =>
             /\ status'[b] = status[b] /\ journey'[b] = journey[b]
             /\ leg'[b] = leg[b] /\ assignment'[b] = assignment[b]
<1>1. IInv /\ [Next]_vars => Final
  <2> SUFFICES ASSUME IInv, [Next]_vars, NEW c \in Bookings, incident[c]
               PROVE  /\ status'[c] = status[c] /\ journey'[c] = journey[c]
                      /\ leg'[c] = leg[c] /\ assignment'[c] = assignment[c]
    OBVIOUS
  <2>0. TypeOK /\ assignment[c] = "CANCELLED" /\ status[c] = "ACTIVE_INCIDENT"
          /\ \A from \in JourneyStatuses : ~StandsAt(c, from)
    BY StandingIsNoIncident DEF IInv, TInv, AgreeInv, Agrees
  <2>1. ASSUME NEW b \in Bookings, NEW d \in Drivers, AcceptDriverOffer(b, d)
        PROVE  b # c /\ UNCHANGED <<journey, leg>> /\ status'[c] = status[c]
                 /\ assignment'[c] = assignment[c]
    BY <2>0, <2>1 DEF AcceptDriverOffer, TypeOK
  <2>2. ASSUME NEW b \in Bookings,
               AcknowledgeDriverAssignment(b) \/ MarkDriverArrived(b) \/ StartJourney(b)
                 \/ MarkJourneyArriving(b) \/ CompleteJourney(b) \/ SafelyTerminateUnsafeJourney(b)
        PROVE  /\ status'[c] = status[c] /\ journey'[c] = journey[c]
               /\ leg'[c] = leg[c] /\ assignment'[c] = assignment[c]
    <3>1. b # c
      BY <2>0, <2>2 DEF AcknowledgeDriverAssignment, MarkDriverArrived, StartJourney,
         MarkJourneyArriving, CompleteJourney, SafelyTerminateUnsafeJourney, ByAssignedDriver
    <3> QED
      BY <2>0, <2>2, <3>1 DEF AcknowledgeDriverAssignment, MarkDriverArrived, StartJourney,
         MarkJourneyArriving, CompleteJourney, SafelyTerminateUnsafeJourney, Transition, TypeOK
  <2>3. ASSUME NEW b \in Bookings, StartRideCheck(b)
        PROVE  /\ status'[c] = status[c] /\ journey'[c] = journey[c]
               /\ leg'[c] = leg[c] /\ assignment'[c] = assignment[c]
    <3>1. b # c
      BY <2>0, <2>3, ProgressTable DEF StartRideCheck
    <3> QED BY <2>0, <2>3, <3>1 DEF StartRideCheck, Transition, TypeOK
  <2>4. ASSUME NEW b \in Bookings, NEW matches \in BOOLEAN, VerifyRideCheck(b, matches)
        PROVE  /\ status'[c] = status[c] /\ journey'[c] = journey[c]
               /\ leg'[c] = leg[c] /\ assignment'[c] = assignment[c]
    <3>1. b # c
      BY <2>0, <2>4 DEF VerifyRideCheck, ByAssignedDriver
    <3> QED BY <2>0, <2>4, <3>1 DEF VerifyRideCheck, Transition, TypeOK
  <2>5. CASE UNCHANGED <<status, journey, leg, assignment>>
    BY <2>5
  <2> QED
    BY <2>1, <2>2, <2>3, <2>4, <2>5 DEF Next, ReportDriverFatigue, vars, SetDriverAvailability,
       RecordLocation, LocationStales, RideCheckExpires, ReportFatigueBegin, ReportFatigueHold,
       ReportFatigueBreak, ReportFatigueAbort, ClearDriverFatigueAfterRest
<1> QED BY <1>1, Invariance, PTL DEF Spec, IncidentIsFinal

\* A Transition along the path of the Journey is a step forward of the Booking.
LEMMA TransitionAdvances ==
  ASSUME NEW b \in Bookings, NEW to \in JourneyStatuses, Transition(b, to),
         <<status[b], Progress[to].booking>> \in Spine!ForwardTransitions
  PROVE  Spine!SpineNext
<1>1. /\ <<status[b], Progress[to].booking>>[1] = status[b]
      /\ <<status[b], Progress[to].booking>>[2] = Progress[to].booking
  OBVIOUS
<1>2. Spine!Advance(b, Progress[to].booking)
  BY DEF Spine!Advance, Transition, Spine!CanUseCanonicalForwardTransition
<1> QED BY <1>1, <1>2 DEF Spine!SpineNext

\* Every write of booking.booking by these services is a step of the spine.
THEOREM JourneyFollowsSpine == Spec => BookingStepsFollowSpine
<1>1. IInv /\ [Next]_vars => [Spine!SpineNext]_bookingRow
  <2> SUFFICES ASSUME IInv, [Next]_vars PROVE Spine!SpineNext \/ UNCHANGED <<status, version>>
    BY DEF bookingRow
  <2>1. ASSUME NEW b \in Bookings, NEW d \in Drivers, AcceptDriverOffer(b, d) PROVE Spine!SpineNext
    <3>1. Spine!Advance(b, "DRIVER_ASSIGNED")
      BY <2>1 DEF AcceptDriverOffer, Spine!Advance, Spine!CanUseCanonicalForwardTransition,
         Spine!ForwardTransitions
    <3>2. <<status[b], "DRIVER_ASSIGNED">> \in Spine!ForwardTransitions
      BY <3>1 DEF Spine!Advance, Spine!CanUseCanonicalForwardTransition
    <3>3. /\ <<status[b], "DRIVER_ASSIGNED">>[1] = status[b]
          /\ <<status[b], "DRIVER_ASSIGNED">>[2] = "DRIVER_ASSIGNED"
      OBVIOUS
    <3> QED BY <3>1, <3>2, <3>3 DEF Spine!SpineNext
  <2>2. ASSUME NEW b \in Bookings, AcknowledgeDriverAssignment(b) PROVE Spine!SpineNext
    BY <2>2, TransitionAdvances, ProgressTable DEF AcknowledgeDriverAssignment, Spine!ForwardTransitions
  <2>3. ASSUME NEW b \in Bookings, MarkDriverArrived(b) PROVE Spine!SpineNext
    BY <2>3, TransitionAdvances, ProgressTable DEF MarkDriverArrived, StandsAt, Spine!ForwardTransitions
  <2>4. ASSUME NEW b \in Bookings, StartRideCheck(b) PROVE Spine!SpineNext
    BY <2>4, TransitionAdvances, ProgressTable DEF StartRideCheck, StandsAt, Spine!ForwardTransitions
  <2>5. ASSUME NEW b \in Bookings, NEW matches \in BOOLEAN, VerifyRideCheck(b, matches)
        PROVE  Spine!SpineNext \/ UNCHANGED <<status, version>>
    <3>1. CASE Transition(b, "PASSENGER_VERIFIED")
      BY <2>5, <3>1, TransitionAdvances, ProgressTable DEF VerifyRideCheck, StandsAt, Spine!ForwardTransitions
    <3> QED BY <2>5, <3>1 DEF VerifyRideCheck
  <2>6. ASSUME NEW b \in Bookings, StartJourney(b) PROVE Spine!SpineNext
    BY <2>6, TransitionAdvances, ProgressTable DEF StartJourney, StandsAt, Spine!ForwardTransitions
  <2>7. ASSUME NEW b \in Bookings, MarkJourneyArriving(b) PROVE Spine!SpineNext
    BY <2>7, TransitionAdvances, ProgressTable DEF MarkJourneyArriving, StandsAt, Spine!ForwardTransitions
  <2>8. ASSUME NEW b \in Bookings, CompleteJourney(b) PROVE Spine!SpineNext
    BY <2>8, TransitionAdvances, ProgressTable DEF CompleteJourney, StandsAt, Spine!ForwardTransitions
  <2>9. ASSUME NEW b \in Bookings, SafelyTerminateUnsafeJourney(b) PROVE Spine!SpineNext
    <3>1. journey[b] \in JourneyStatuses \ {"ASSIGNED", "COMPLETED"} /\ assignment[b] = "ACTIVE"
      BY <2>9 DEF SafelyTerminateUnsafeJourney, ByAssignedDriver
    <3>2. status[b] = Progress[journey[b]].booking
      BY <3>1, ProgressTable, ActiveIsNoIncident DEF IInv, AgreeInv, Agrees, StandsAt
    <3>3. Spine!RaiseIncident(b)
      BY <2>9, <3>1, <3>2, ProgressTable DEF SafelyTerminateUnsafeJourney, Spine!RaiseIncident
    <3> QED BY <3>3 DEF Spine!SpineNext
  <2>10. CASE UNCHANGED <<status, version>>
    BY <2>10
  <2> QED
    BY <2>1, <2>2, <2>3, <2>4, <2>5, <2>6, <2>7, <2>8, <2>9, <2>10 DEF Next, ReportDriverFatigue, vars,
       SetDriverAvailability, RecordLocation, LocationStales, RideCheckExpires, ReportFatigueBegin,
       ReportFatigueHold, ReportFatigueBreak, ReportFatigueAbort, ClearDriverFatigueAfterRest
<1> QED BY <1>1, Invariance, PTL DEF Spec, BookingStepsFollowSpine

-----------------------------------------------------------------------------
(* The Control Room.  What is shown of a Journey above holds under its      *)
(* commands as well.                                                        *)

Carrying == {"PASSENGER_VERIFIED", "IN_PROGRESS", "ARRIVING"}

\* The inductive invariant of the composition.
HInv == IInv /\ HandoverTypeOK /\ HandoverRecordsAgree /\ TaskIsExclusiveAndBounded

USE DEF handoverRows, authorityRows

\* A task ends with its role at the latest.
LEMMA TaskExpiryBounded ==
  ASSUME NEW role \in Role, now \in Nat
  PROVE  TaskExpiry(role) \in Nat /\ TaskExpiry(role) <= role.until
  BY ClockAssumption DEF TaskExpiry, Role

-----------------------------------------------------------------------------
(* The composition and Journey. *)

\* Every command of the Control Room leaves the rows of Journey alone.
LEMMA StepIsJourneyStep == [HandoverNext]_handoverVars => [Next]_vars
  BY DEF HandoverNext, handoverVars, JourneyCommand, AssignRole, ClaimFatigueHandover,
     ConfirmFatigueSafeStop, Tick

\* The composition implements Journey.
THEOREM HandoverImplementsJourney == HandoverSpec => Spec
<1>1. HandoverInit => Init
  BY DEF HandoverInit
<1> QED BY <1>1, StepIsJourneyStep, PTL DEF HandoverSpec, Spec

\* A requested handover stays, and its Journey keeps carrying the passenger
\* until an incident; one that is requested has found a passenger.
LEMMA HandoverKeepsItsJourney ==
  ASSUME IInv, [Next]_vars, NEW b \in Bookings
  PROVE  /\ handover[b] => handover'[b]
         /\ handover[b] /\ journey[b] \in Carrying => journey'[b] \in Carrying
         /\ handover'[b] /\ ~handover[b] => journey'[b] \in Carrying
<1> USE DEF Carrying
<1>0. TypeOK /\ CompletionIsClear' /\ FatigueInv
  BY NextIInv DEF IInv, TInv
<1>1. ASSUME NEW c \in Bookings, NEW to \in {"EN_ROUTE", "ARRIVED", "AWAITING_RIDECHECK",
               "PASSENGER_VERIFIED", "IN_PROGRESS", "ARRIVING", "COMPLETED"},
             Transition(c, to), handover' = handover, journey[c] \in Carrying =>
               to \in Carrying \cup {"COMPLETED"}
      PROVE  handover[b] /\ journey[b] \in Carrying => journey'[b] \in Carrying
  <2>1. journey'[b] = "COMPLETED" => ~handover'[b]
    BY <1>0 DEF CompletionIsClear
  <2> QED BY <1>0, <1>1, <2>1 DEF Transition, TypeOK
<1> DEFINE Kept == /\ handover[b] => handover'[b]
                   /\ handover[b] /\ journey[b] \in Carrying => journey'[b] \in Carrying
                   /\ handover'[b] /\ ~handover[b] => journey'[b] \in Carrying
<1>2. ASSUME NEW c \in Bookings,
             AcknowledgeDriverAssignment(c) \/ MarkDriverArrived(c) \/ StartRideCheck(c)
               \/ StartJourney(c) \/ MarkJourneyArriving(c) \/ CompleteJourney(c)
      PROVE  Kept
  BY <1>1, <1>2 DEF AcknowledgeDriverAssignment, MarkDriverArrived, StartRideCheck, StartJourney,
     MarkJourneyArriving, CompleteJourney, StandsAt
<1>3. ASSUME NEW c \in Bookings, NEW matches \in BOOLEAN, VerifyRideCheck(c, matches)
      PROVE  Kept
  <2>1. handover' = handover
    BY <1>3 DEF VerifyRideCheck
  <2>2. CASE Transition(c, "PASSENGER_VERIFIED")
    BY <1>1, <2>1, <2>2
  <2>3. CASE journey' = journey
    BY <2>1, <2>3
  <2>4. Transition(c, "PASSENGER_VERIFIED") \/ journey' = journey
    BY <1>3 DEF VerifyRideCheck
  <2> QED BY <2>2, <2>3, <2>4
<1>4. ASSUME NEW d \in Drivers, NEW c \in Bookings, ReportFatigueHold(d, c)
      PROVE  Kept
  BY <1>0, <1>4 DEF ReportFatigueHold, FatigueInv, CarriesVerifiedPassenger, TypeOK
<1>5. CASE UNCHANGED <<journey, handover>>
  BY <1>5
<1> QED
  <2>1. Kept
    BY <1>2, <1>3, <1>4, <1>5 DEF Next, ReportDriverFatigue, vars, AcceptDriverOffer,
       SetDriverAvailability, RecordLocation, LocationStales, RideCheckExpires,
       SafelyTerminateUnsafeJourney, ReportFatigueBegin, ReportFatigueBreak, ReportFatigueAbort,
       ClearDriverFatigueAfterRest
  <2> QED BY <2>1

-----------------------------------------------------------------------------
(* The invariant. *)

LEMMA InitHInv == HandoverInit => HInv
<1> SUFFICES ASSUME HandoverInit PROVE HInv
  OBVIOUS
<1>1. IInv
  BY InitIInv DEF HandoverInit
<1>2. HandoverTypeOK
  BY DEF HandoverInit, HandoverTypeOK
<1>3. HandoverRecordsAgree
  BY DEF HandoverInit, Init, HandoverRecordsAgree
<1>4. TaskIsExclusiveAndBounded
  BY DEF HandoverInit, TaskIsExclusiveAndBounded
<1> QED BY <1>1, <1>2, <1>3, <1>4 DEF HInv

LEMMA NextHandoverTypeOK == HandoverTypeOK /\ [HandoverNext]_handoverVars => HandoverTypeOK'
<1> SUFFICES ASSUME HandoverTypeOK, [HandoverNext]_handoverVars PROVE HandoverTypeOK'
  OBVIOUS
<1>1. CASE JourneyCommand
  BY <1>1 DEF JourneyCommand, HandoverTypeOK, HandoverStatuses, CaseStatuses
<1>2. ASSUME NEW o \in Operators, NEW until \in 1..Horizon, AssignRole(o, until)
      PROVE  HandoverTypeOK'
  <2>1. [operator |-> o, until |-> until] \in Role
    BY ClockAssumption DEF Role
  <2> QED BY <1>2, <2>1 DEF AssignRole, HandoverTypeOK
<1>3. ASSUME NEW o \in Operators, NEW b \in Bookings, ClaimFatigueHandover(o, b)
      PROVE  HandoverTypeOK'
  <2>1. PICK role \in roles : InsertTask(o, b, role)
    BY <1>3 DEF ClaimFatigueHandover
  <2>2. [operator |-> o, booking |-> b, role |-> role, until |-> TaskExpiry(role)] \in Task
    BY TaskExpiryBounded DEF HandoverTypeOK, Task
  <2>3. tasks' \in SUBSET Task
    BY <2>1, <2>2 DEF InsertTask, HandoverTypeOK
  <2> QED
    BY <1>3, <2>3 DEF ClaimFatigueHandover, UpdateHandover, HandoverTypeOK, HandoverStatuses,
       CaseStatuses
<1>4. ASSUME NEW o \in Operators, NEW b \in Bookings, ConfirmFatigueSafeStop(o, b)
      PROVE  HandoverTypeOK'
  BY <1>4 DEF ConfirmFatigueSafeStop, UpdateHandover, HandoverTypeOK, HandoverStatuses
<1>5. CASE Tick
  BY <1>5 DEF Tick, HandoverTypeOK
<1>6. CASE UNCHANGED handoverVars
  BY <1>6 DEF handoverVars, HandoverTypeOK
<1> QED BY <1>1, <1>2, <1>3, <1>4, <1>5, <1>6 DEF HandoverNext

LEMMA NextHandoverRecordsAgree ==
  HInv /\ [HandoverNext]_handoverVars => HandoverRecordsAgree'
<1> DEFINE Agree(c) ==
      /\ handover[c] <=> stage[c] # "ABSENT"
      /\ supportCase[c] = "ABSENT" <=> stage[c] = "ABSENT"
      /\ supportCase[c] = "HUMAN_ESCALATION_REQUIRED" <=> stage[c] = "REQUESTED"
      /\ stage[c] \in {"ABSENT", "REQUESTED"} <=> \A t \in tasks : t.booking # c
      /\ stage[c] # "ABSENT" => HoldIsActive(c) /\ journey[c] \in Carrying
<1> SUFFICES ASSUME HInv, [HandoverNext]_handoverVars, NEW c \in Bookings PROVE Agree(c)'
  BY DEF HandoverRecordsAgree, Carrying
<1>0. Agree(c) /\ HandoverTypeOK /\ IInv /\ TypeOK
  BY DEF HInv, HandoverRecordsAgree, Carrying, IInv, TInv
<1>1. CASE JourneyCommand
  <2>1. TypeOK' /\ FatigueInv'
    BY <1>0, <1>1, NextIInv DEF JourneyCommand, IInv, TInv
  <2>2. handover'[c] => HoldIsActive(c)'
    BY <2>1 DEF FatigueInv, HoldIsActive
  <2>3. /\ handover[c] => handover'[c]
        /\ handover[c] /\ journey[c] \in Carrying => journey'[c] \in Carrying
        /\ handover'[c] /\ ~handover[c] => journey'[c] \in Carrying
    BY <1>0, <1>1, HandoverKeepsItsJourney DEF JourneyCommand
  <2>4. tasks' = tasks
    BY <1>1 DEF JourneyCommand
  <2>5. CASE handover'[c] /\ ~handover[c]
    <3>1. stage'[c] = "REQUESTED" /\ supportCase'[c] = "HUMAN_ESCALATION_REQUIRED"
      BY <1>1, <2>5 DEF JourneyCommand
    <3> QED BY <1>0, <2>2, <2>3, <2>4, <2>5, <3>1
  <2>6. CASE ~(handover'[c] /\ ~handover[c])
    <3>1. stage'[c] = stage[c] /\ supportCase'[c] = supportCase[c]
      BY <1>1, <2>6 DEF JourneyCommand
    <3> QED BY <1>0, <2>2, <2>3, <2>4, <2>6, <3>1
  <2> QED BY <2>5, <2>6
<1>2. ASSUME NEW o \in Operators, NEW b \in Bookings, ClaimFatigueHandover(o, b)
      PROVE  Agree(c)'
  <2>1. PICK role \in roles : InsertTask(o, b, role)
    BY <1>2 DEF ClaimFatigueHandover
  <2>2. UNCHANGED <<handover, hold, journey>> /\ (HoldIsActive(c)' <=> HoldIsActive(c))
    BY <1>2 DEF ClaimFatigueHandover, vars, interventions, journeyRows, HoldIsActive
  <2>3. CASE c = b
    <3>1. /\ stage[c] = "REQUESTED" /\ stage'[c] = "OWNED" /\ supportCase'[c] = "IN_PROGRESS"
      BY <1>0, <1>2, <2>3 DEF ClaimFatigueHandover, UpdateHandover, HandoverTypeOK
    <3> DEFINE new == [operator |-> o, booking |-> b, role |-> role, until |-> TaskExpiry(role)]
    <3>2. new \in tasks' /\ new.booking = c
      BY <2>1, <2>3 DEF InsertTask
    <3>3. handover'[c] /\ HoldIsActive(c)' /\ journey'[c] \in Carrying
      BY <1>0, <2>2, <3>1
    <3> QED BY <3>1, <3>2, <3>3
  <2>4. CASE c # b
    <3>1. stage'[c] = stage[c] /\ supportCase'[c] = supportCase[c]
      BY <1>0, <1>2, <2>4 DEF ClaimFatigueHandover, UpdateHandover, HandoverTypeOK
    <3>2. (\A t \in tasks' : t.booking # c) <=> (\A t \in tasks : t.booking # c)
      BY <2>1, <2>4 DEF InsertTask
    <3> QED BY <1>0, <2>2, <3>1, <3>2
  <2> QED BY <2>3, <2>4
<1>3. ASSUME NEW o \in Operators, NEW b \in Bookings, ConfirmFatigueSafeStop(o, b)
      PROVE  Agree(c)'
  <2>1. UNCHANGED <<handover, hold, journey, tasks, supportCase>> /\ (HoldIsActive(c)' <=> HoldIsActive(c))
    BY <1>3 DEF ConfirmFatigueSafeStop, vars, interventions, journeyRows, HoldIsActive
  <2>2. stage'[c] = stage[c] \/ (stage[c] \in {"OWNED", "REPLACEMENT_ASSIGNED"}
                                  /\ stage'[c] = "SAFE_STOP_CONFIRMED")
    BY <1>0, <1>3 DEF ConfirmFatigueSafeStop, AcceptsSafeStop, UpdateHandover, HandoverTypeOK
  <2> QED BY <1>0, <2>1, <2>2
<1>4. CASE UNCHANGED <<handover, hold, journey, tasks, handoverRows>>
  BY <1>0, <1>4 DEF HoldIsActive
<1> QED
  BY <1>1, <1>2, <1>3, <1>4 DEF HandoverNext, handoverVars, AssignRole, Tick, vars, interventions,
     journeyRows

\* Only the claim inserts a task, and it finds none for the handover.
LEMMA NextTaskIsExclusiveAndBounded ==
  HInv /\ [HandoverNext]_handoverVars => TaskIsExclusiveAndBounded'
<1> SUFFICES ASSUME HInv, [HandoverNext]_handoverVars PROVE TaskIsExclusiveAndBounded'
  OBVIOUS
<1>0. TaskIsExclusiveAndBounded /\ HandoverTypeOK /\ HandoverRecordsAgree
  BY DEF HInv
<1>1. ASSUME NEW o \in Operators, NEW b \in Bookings, ClaimFatigueHandover(o, b)
      PROVE  TaskIsExclusiveAndBounded'
  <2>1. PICK role \in roles : role.operator = o /\ InsertTask(o, b, role)
    BY <1>1 DEF ClaimFatigueHandover
  <2> DEFINE new == [operator |-> o, booking |-> b, role |-> role, until |-> TaskExpiry(role)]
  <2>2. tasks' = tasks \cup {new} /\ roles' = roles /\ now' = now
    BY <1>1, <2>1 DEF InsertTask, ClaimFatigueHandover
  <2>3. \A t \in tasks : t.booking # b
    BY <1>0, <1>1 DEF ClaimFatigueHandover, HandoverRecordsAgree
  <2>4. \A t, u \in tasks' : (t.booking = u.booking /\ Current(t)' /\ Current(u)') => t = u
    BY <1>0, <2>2, <2>3 DEF TaskIsExclusiveAndBounded, Current
  <2>5. new.role \in roles /\ new.operator = new.role.operator /\ new.until <= new.role.until
    BY <1>0, <2>1, TaskExpiryBounded DEF HandoverTypeOK
  <2> QED BY <1>0, <2>2, <2>4, <2>5 DEF TaskIsExclusiveAndBounded
<1>2. CASE Tick
  <2>1. \A t \in tasks : Current(t)' => Current(t)
    BY <1>0, <1>2 DEF Tick, Current, HandoverTypeOK, Task
  <2> QED BY <1>0, <1>2, <2>1 DEF Tick, TaskIsExclusiveAndBounded
<1>3. CASE UNCHANGED <<tasks, now>> /\ roles \subseteq roles'
  BY <1>0, <1>3 DEF TaskIsExclusiveAndBounded, Current
<1> QED
  BY <1>1, <1>2, <1>3 DEF HandoverNext, handoverVars, JourneyCommand, AssignRole,
     ConfirmFatigueSafeStop

LEMMA NextHInv == HInv /\ [HandoverNext]_handoverVars => HInv'
<1>1. IInv /\ [HandoverNext]_handoverVars => IInv'
  BY StepIsJourneyStep, NextIInv
<1> QED
  BY <1>1, NextHandoverTypeOK, NextHandoverRecordsAgree, NextTaskIsExclusiveAndBounded DEF HInv

LEMMA HandoverInvariance == HandoverSpec => []HInv
  BY InitHInv, NextHInv, PTL DEF HandoverSpec

-----------------------------------------------------------------------------
(* The results. *)

\* Every reachable state of the composition is well typed.
THEOREM HandoverTypeCorrect == HandoverSpec => []HandoverTypeOK
<1>1. HInv => HandoverTypeOK
  BY DEF HInv
<1> QED BY HandoverInvariance, <1>1, PTL

\* Handover, support case, task, hold and Journey agree.
THEOREM HandoverRowsAgree == HandoverSpec => []HandoverRecordsAgree
<1>1. HInv => HandoverRecordsAgree
  BY DEF HInv
<1> QED BY HandoverInvariance, <1>1, PTL

\* One operator at most works on a handover, within the time of the role.
THEOREM TasksExclusive == HandoverSpec => []TaskIsExclusiveAndBounded
<1>1. HInv => TaskIsExclusiveAndBounded
  BY DEF HInv
<1> QED BY HandoverInvariance, <1>1, PTL

\* Rest clears no observation while a handover of the Driver is open.
THEOREM RestWaitsForHandover == HandoverSpec => ClearanceWaitsForHandover
<1> DEFINE Waits == \A d \in Drivers, b \in Bookings :
      (fatigued[d] /\ ~fatigued'[d] /\ availability'[d] # "OFFLINE" /\ driver[b] = d)
        => stage[b] \in {"ABSENT", "COMPLETED"}
<1>1. HInv /\ [HandoverNext]_handoverVars => Waits
  <2> SUFFICES ASSUME HInv, [HandoverNext]_handoverVars, NEW d \in Drivers, NEW b \in Bookings,
                      fatigued[d], ~fatigued'[d], availability'[d] # "OFFLINE", driver[b] = d
               PROVE  stage[b] \in {"ABSENT", "COMPLETED"}
    OBVIOUS
  <2>0. TypeOK /\ HandoverRecordsAgree /\ [Next]_vars
    BY StepIsJourneyStep DEF HInv, IInv, TInv
  <2>1. ASSUME NEW e \in Drivers, NEW to \in {"AVAILABLE", "OFFLINE"}, SetDriverAvailability(e, to)
        PROVE  FALSE
    BY <2>0, <2>1 DEF SetDriverAvailability, SetAvailability, TypeOK
  <2>2. ASSUME NEW e \in Drivers, ClearDriverFatigueAfterRest(e)
        PROVE  journey[b] \notin {"PASSENGER_VERIFIED", "IN_PROGRESS", "ARRIVING"}
    BY <2>0, <2>2 DEF ClearDriverFatigueAfterRest, TypeOK
  <2>3. ASSUME NEW e \in Drivers, NEW c \in Bookings, ReportFatigueHold(e, c) PROVE FALSE
    BY <2>0, <2>3 DEF ReportFatigueHold, TypeOK
  <2>4. ASSUME NEW e \in Drivers, ReportFatigueBreak(e) PROVE FALSE
    BY <2>0, <2>4 DEF ReportFatigueBreak, TypeOK
  <2>5. CASE fatigued' = fatigued
    BY <2>5
  <2>6. journey[b] \notin {"PASSENGER_VERIFIED", "IN_PROGRESS", "ARRIVING"}
    BY <2>0, <2>1, <2>2, <2>3, <2>4, <2>5 DEF Next, ReportDriverFatigue, vars, AcceptDriverOffer,
       AcknowledgeDriverAssignment, RecordLocation, LocationStales, MarkDriverArrived,
       StartRideCheck, RideCheckExpires, VerifyRideCheck, StartJourney, MarkJourneyArriving,
       CompleteJourney, SafelyTerminateUnsafeJourney, ReportFatigueBegin, ReportFatigueAbort
  <2> QED BY <2>0, <2>6 DEF HandoverRecordsAgree
<1> QED BY <1>1, HandoverInvariance, PTL DEF HandoverSpec, ClearanceWaitsForHandover

-----------------------------------------------------------------------------
(* The commands of the Control Room that get nowhere. *)

\* Only completeFatigueHandover resolves the case.
NeverResolved == \A b \in Bookings : supportCase[b] # "RESOLVED"

LEMMA NextNeverResolved ==
  HandoverTypeOK /\ NeverResolved /\ [HandoverNext]_handoverVars => NeverResolved'
<1> SUFFICES ASSUME HandoverTypeOK, NeverResolved, [HandoverNext]_handoverVars, NEW c \in Bookings
             PROVE  supportCase'[c] # "RESOLVED"
  BY DEF NeverResolved
<1>0. supportCase[c] # "RESOLVED"
  BY DEF NeverResolved
<1>1. CASE JourneyCommand
  BY <1>0, <1>1 DEF JourneyCommand
<1>2. ASSUME NEW o \in Operators, NEW b \in Bookings, ClaimFatigueHandover(o, b)
      PROVE  supportCase'[c] # "RESOLVED"
  BY <1>0, <1>2 DEF ClaimFatigueHandover, HandoverTypeOK
<1>3. CASE UNCHANGED supportCase
  BY <1>0, <1>3
<1> QED
  BY <1>1, <1>2, <1>3 DEF HandoverNext, handoverVars, AssignRole, ConfirmFatigueSafeStop, Tick

LEMMA NeverResolvedInvariance == HandoverSpec => [](HInv /\ NeverResolved)
<1>1. HandoverInit => NeverResolved
  BY DEF HandoverInit, NeverResolved
<1>2. HInv /\ NeverResolved /\ [HandoverNext]_handoverVars => NeverResolved'
  BY NextNeverResolved DEF HInv
<1> QED BY HandoverInvariance, <1>1, <1>2, PTL DEF HandoverSpec

\* What a page offers as a safe stop is accepted: nobody but completeFatigueHandover
\* resolves the case, and it is never accepted.
LEMMA OfferedSafeStop ==
  ASSUME HInv, NeverResolved, NEW o \in Operators, NEW b \in Bookings,
         "CONFIRM_SAFE_STOP" \in PermittedNextActions(o, b)
  PROVE  AcceptsSafeStop(o, b)
<1>1. HasTask(o, b) /\ stage[b] \in {"OWNED", "REPLACEMENT_ASSIGNED"}
  BY DEF PermittedNextActions
<1>2. supportCase[b] = "IN_PROGRESS" /\ HoldIsActive(b)
  BY <1>1 DEF HInv, HandoverRecordsAgree, HandoverTypeOK, CaseStatuses, NeverResolved
<1> QED BY <1>1, <1>2 DEF AcceptsSafeStop, TriggerAccepts, UnderWay, LifecycleTransitions

\* The table refuses a recovery, which keeps the status; the reason of the hold that
\* a replacement, its transfer and a completion ask for is one that no hold has.
LEMMA NeverAccepted ==
  ASSUME HInv, NEW o \in Operators, NEW b \in Bookings
  PROVE  /\ ~AcceptsRecovery(o, b) /\ ~AcceptsReplacement(o, b)
         /\ ~AcceptsTransfer(o, b) /\ ~AcceptsCompletion(o, b)
<1>1. <<stage[b], stage[b]>> \notin LifecycleTransitions
  BY DEF LifecycleTransitions
<1>2. "DRIVER_FATIGUE_SAFETY" \notin hold[b]
  BY DEF HInv, IInv, TInv, TypeOK, HoldReasons
<1> QED
  BY <1>1, <1>2 DEF AcceptsRecovery, AcceptsReplacement, AcceptsTransfer, AcceptsCompletion,
     TriggerAccepts

\* Whatever operators and handovers there are: a safe stop that the task page offers
\* is accepted, nobody has the page of a handover in the queue of the expired ones,
\* and what page and queue offer besides ends nowhere.
THEOREM OffersAreAnswered == HandoverSpec => []OffersAndAnswers
<1>1. ASSUME HInv, NEW o \in Operators, NEW b \in RecoverableHandovers(o), NEW p \in Operators
      PROVE  PermittedNextActions(p, b) = {}
  <2>1. \A t \in tasks : t.booking = b => ~Current(t)
    BY <1>1 DEF RecoverableHandovers, Recoverable, TaskExpired
  <2>2. ~HasTask(p, b)
    BY <2>1 DEF HasTask
  <2> QED BY <2>2 DEF PermittedNextActions
<1>2. HInv /\ NeverResolved => OffersAndAnswers
  BY <1>1, OfferedSafeStop, NeverAccepted DEF OffersAndAnswers
<1> QED BY <1>2, NeverResolvedInvariance, PTL

-----------------------------------------------------------------------------
(* The progress page. *)

\* The status ASSIGNED of a Journey is never written.
PageInv == IInv /\ \A b \in Bookings : journey[b] # "ASSIGNED"

\* What the page promises of one state.
PagePromise ==
  \A b \in Bookings, payment \in PaymentStatuses :
    /\ \A m \in CompletedMilestones(b, "ABSENT") : 1..m \subseteq CompletedMilestones(b, "ABSENT")
    /\ NextAction(b, payment) \in {"RIDECHECK", "JOURNEY"} => assignment[b] = "ACTIVE"
    /\ Disposition(b, payment) = "CLOSED" => assignment[b] = "COMPLETED"

LEMMA PageInvariance == Spec => []PageInv
<1>1. Init => \A b \in Bookings : journey[b] # "ASSIGNED"
  BY DEF Init
<1>2. ASSUME PageInv, [Next]_vars, NEW c \in Bookings
      PROVE  journey'[c] # "ASSIGNED"
  <2>0. journey[c] # "ASSIGNED" /\ TypeOK
    BY <1>2 DEF PageInv, IInv, TInv
  <2>1. ASSUME NEW b \in Bookings, NEW to, to # "ASSIGNED", Transition(b, to)
        PROVE  journey'[c] # "ASSIGNED"
    BY <2>0, <2>1 DEF Transition, TypeOK
  <2>2. CASE UNCHANGED journey
    BY <2>0, <2>2
  <2> QED
    BY <1>2, <2>1, <2>2 DEF Next, ReportDriverFatigue, vars, AcceptDriverOffer, SetDriverAvailability,
       AcknowledgeDriverAssignment, MarkDriverArrived, RecordLocation, LocationStales, StartRideCheck,
       RideCheckExpires, VerifyRideCheck, StartJourney, MarkJourneyArriving, CompleteJourney,
       SafelyTerminateUnsafeJourney, ReportFatigueBegin, ReportFatigueHold, ReportFatigueBreak,
       ReportFatigueAbort, ClearDriverFatigueAfterRest
<1>3. PageInv /\ [Next]_vars => (\A b \in Bookings : journey[b] # "ASSIGNED")'
  BY <1>2
<1> QED BY <1>1, <1>3, Invariance, PTL DEF Spec, PageInv

\* The milestones one by one.
LEMMA MilestoneTable ==
  ASSUME NEW b, NEW payment
  PROVE  /\ CompletedMilestones(b, payment) \subseteq 1..8 /\ DOMAIN Milestones = 1..8
         /\ {1, 2} \subseteq CompletedMilestones(b, payment)
         /\ 3 \in CompletedMilestones(b, payment) <=> AssignmentFound(b)
         /\ 4 \in CompletedMilestones(b, payment) <=> AssignmentFound(b)
         /\ 5 \in CompletedMilestones(b, payment) <=> ArrivalAccepted(b)
         /\ 6 \in CompletedMilestones(b, payment) <=> rideCheck[b] = "VERIFIED"
         /\ 7 \in CompletedMilestones(b, payment) <=> journey[b] = "COMPLETED"
         /\ 8 \in CompletedMilestones(b, payment) <=> payment = "CAPTURED"
<1>1. /\ DOMAIN Milestones = 1..8
      /\ Milestones[1] = "BOOKING" /\ Milestones[2] = "FARE_AGREEMENT" /\ Milestones[3] = "DISPATCH"
      /\ Milestones[4] = "DRIVER_ASSIGNED" /\ Milestones[5] = "ARRIVAL" /\ Milestones[6] = "RIDECHECK"
      /\ Milestones[7] = "JOURNEY" /\ Milestones[8] = "FINANCE"
  BY DEF Milestones
<1> HIDE DEF AssignmentFound, ArrivalAccepted
<1> DEFINE Holds(m) == CASE Milestones[m] \in {"BOOKING", "FARE_AGREEMENT"} -> TRUE
       [] Milestones[m] \in {"DISPATCH", "DRIVER_ASSIGNED"} -> AssignmentFound(b)
       [] Milestones[m] = "ARRIVAL" -> ArrivalAccepted(b)
       [] Milestones[m] = "RIDECHECK" -> rideCheck[b] = "VERIFIED"
       [] Milestones[m] = "JOURNEY" -> journey[b] = "COMPLETED"
       [] Milestones[m] = "FINANCE" -> payment = "CAPTURED"
<1>2. CompletedMilestones(b, payment) = {m \in 1..8 : Holds(m)}
  BY <1>1 DEF CompletedMilestones
<1>3. /\ Holds(1) /\ Holds(2)
      /\ Holds(3) <=> AssignmentFound(b)
      /\ Holds(4) <=> AssignmentFound(b)
      /\ Holds(5) <=> ArrivalAccepted(b)
      /\ Holds(6) <=> rideCheck[b] = "VERIFIED"
      /\ Holds(7) <=> journey[b] = "COMPLETED"
      /\ Holds(8) <=> payment = "CAPTURED"
  BY <1>1
<1> HIDE DEF Holds
<1> QED BY <1>1, <1>2, <1>3

\* Each milestone has those before it: the passenger is verified at an arrival,
\* the arrival is that of an assignment, and no Journey completes unverified.
LEMMA MilestoneOrder ==
  ASSUME PageInv, NEW b \in Bookings
  PROVE  /\ ArrivalAccepted(b) => AssignmentFound(b)
         /\ rideCheck[b] = "VERIFIED" => ArrivalAccepted(b)
         /\ journey[b] = "COMPLETED" => rideCheck[b] = "VERIFIED"
<1>1. ArrivalAccepted(b) => AssignmentFound(b)
  BY DEF PageInv, IInv, AgreeInv, Agrees, ArrivalAccepted, AssignmentFound
<1>2. rideCheck[b] = "VERIFIED" => ArrivalAccepted(b)
  BY DEF PageInv, IInv, TInv, AttemptsLeft, ArrivalAccepted
<1>3. journey[b] = "COMPLETED" => rideCheck[b] = "VERIFIED"
  BY DEF PageInv, IInv, RideCheckInv
<1> QED BY <1>1, <1>2, <1>3

LEMMA PageKeepsPromise == PageInv => PagePromise
<1> SUFFICES ASSUME PageInv, NEW b \in Bookings, NEW payment \in PaymentStatuses
             PROVE  /\ \A m \in CompletedMilestones(b, "ABSENT") :
                         1..m \subseteq CompletedMilestones(b, "ABSENT")
                    /\ NextAction(b, payment) \in {"RIDECHECK", "JOURNEY"} => assignment[b] = "ACTIVE"
                    /\ Disposition(b, payment) = "CLOSED" => assignment[b] = "COMPLETED"
  BY DEF PagePromise
<1> DEFINE done == CompletedMilestones(b, payment)
<1>1. ASSUME NEW m \in CompletedMilestones(b, "ABSENT"), NEW i \in 1..m
      PROVE  i \in CompletedMilestones(b, "ABSENT")
  <2>1. m \in 1..8 /\ i \in 1..8 /\ i <= m
    BY <1>1, MilestoneTable
  <2> QED BY <1>1, <2>1, MilestoneTable, MilestoneOrder
<1>2. ~Interrupted(b) => ~incident[b]
  BY DEF PageInv, IInv, AgreeInv, Agrees, Interrupted
<1>3. ASSUME NextAction(b, payment) \in {"RIDECHECK", "JOURNEY"}
      PROVE  assignment[b] = "ACTIVE"
  <2> DEFINE open == 1..8 \ done
  <2>1. ~Interrupted(b) /\ open # {}
          /\ NextAction(b, payment) = Milestones[CHOOSE m \in open : \A n \in open : m <= n]
    BY <1>3, MilestoneTable DEF NextAction
  <2>2. \E m \in open : \A n \in open : m <= n
    <3>1. open \subseteq 1..8 /\ open # {}
      BY <2>1
    <3> HIDE DEF open
    <3>2. CASE 1 \in open
      BY <3>1, <3>2
    <3>3. CASE 1 \notin open /\ 2 \in open
      BY <3>1, <3>3
    <3>4. CASE {1, 2} \cap open = {} /\ 3 \in open
      BY <3>1, <3>4
    <3>5. CASE {1, 2, 3} \cap open = {} /\ 4 \in open
      BY <3>1, <3>5
    <3>6. CASE {1, 2, 3, 4} \cap open = {} /\ 5 \in open
      BY <3>1, <3>6
    <3>7. CASE {1, 2, 3, 4, 5} \cap open = {} /\ 6 \in open
      BY <3>1, <3>7
    <3>8. CASE {1, 2, 3, 4, 5, 6} \cap open = {} /\ 7 \in open
      BY <3>1, <3>8
    <3>9. CASE {1, 2, 3, 4, 5, 6, 7} \cap open = {} /\ 8 \in open
      BY <3>1, <3>9
    <3>10. \/ 1 \in open \/ 2 \in open \/ 3 \in open \/ 4 \in open
           \/ 5 \in open \/ 6 \in open \/ 7 \in open \/ 8 \in open
      <4>1. PICK m \in open : m \in 1..8
        BY <3>1
      <4> QED BY <4>1
    <3> QED BY <3>2, <3>3, <3>4, <3>5, <3>6, <3>7, <3>8, <3>9, <3>10
  <2>3. PICK m \in open : NextAction(b, payment) = Milestones[m] /\ \A n \in open : m <= n
    <3> HIDE DEF open
    <3> QED BY <2>1, <2>2
  <2>4. m \in {6, 7} /\ 5 \notin open
    <3>1. m \in {6, 7}
      BY <1>3, <2>3 DEF Milestones
    <3> QED BY <2>3, <3>1
  <2>5. ArrivalAccepted(b) /\ journey[b] # "COMPLETED"
    <3>1. ArrivalAccepted(b)
      BY <2>4, MilestoneTable
    <3>2. 7 \notin done
      BY <2>3, <2>4, MilestoneTable, MilestoneOrder
    <3> QED BY <3>1, <3>2, MilestoneTable
  <2>6. journey[b] \in JourneyStatuses \ {"COMPLETED"}
    BY <2>5 DEF ArrivalAccepted, PageInv, IInv, TInv, TypeOK
  <2> QED BY <1>2, <2>1, <2>6, UnderWayIsActive DEF PageInv, IInv, TInv, AgreeInv
<1>4. Disposition(b, payment) = "CLOSED" => assignment[b] = "COMPLETED"
  BY <1>2, ProgressTable DEF Disposition, PageInv, IInv, AgreeInv, Agrees
<1> QED BY <1>1, <1>3, <1>4

\* No command takes back what a milestone stands on, or the Driver of the page.
LEMMA MilestonesStand ==
  ASSUME IInv, [Next]_vars, NEW c \in Bookings
  PROVE  /\ AssignmentFound(c) => AssignmentFound(c)' /\ driver'[c] = driver[c]
         /\ ArrivalAccepted(c) => ArrivalAccepted(c)'
         /\ rideCheck[c] = "VERIFIED" => rideCheck'[c] = "VERIFIED"
         /\ journey[c] = "COMPLETED" => journey'[c] = "COMPLETED"
<1> DEFINE Stands == /\ AssignmentFound(c) => AssignmentFound(c)' /\ driver'[c] = driver[c]
                     /\ ArrivalAccepted(c) => ArrivalAccepted(c)'
                     /\ rideCheck[c] = "VERIFIED" => rideCheck'[c] = "VERIFIED"
                     /\ journey[c] = "COMPLETED" => journey'[c] = "COMPLETED"
<1> USE DEF AssignmentFound, ArrivalAccepted
<1>0. TypeOK /\ \A b \in Bookings : Agrees(b)
  BY DEF IInv, TInv, AgreeInv
<1>1. ASSUME NEW b \in Bookings, NEW d \in Drivers, AcceptDriverOffer(b, d) PROVE Stands
  <2>1. assignment[b] = "ABSENT"
    BY <1>0, <1>1 DEF AcceptDriverOffer, Agrees
  <2> QED BY <1>0, <1>1, <2>1 DEF AcceptDriverOffer, TypeOK
<1>2. ASSUME NEW b \in Bookings, NEW to, Transition(b, to), assignment'[c] # "ABSENT" \/ assignment' = assignment,
             driver' = driver,
             rideCheck[c] = "VERIFIED" => rideCheck'[c] = "VERIFIED",
             journey[b] # "COMPLETED", ArrivalAccepted(b) => to \notin {"ABSENT", "ASSIGNED", "EN_ROUTE"}
      PROVE  Stands
  BY <1>0, <1>2 DEF Transition, TypeOK
<1>3. ASSUME NEW b \in Bookings, AcknowledgeDriverAssignment(b) \/ MarkDriverArrived(b) \/ StartJourney(b)
                                 \/ MarkJourneyArriving(b)
      PROVE  Stands
  BY <1>0, <1>2, <1>3 DEF AcknowledgeDriverAssignment, MarkDriverArrived, StartJourney, MarkJourneyArriving,
     StandsAt
<1>4. ASSUME NEW b \in Bookings, CompleteJourney(b) PROVE Stands
  <2>1. assignment'[c] # "ABSENT" \/ assignment'[c] = assignment[c]
    BY <1>0, <1>4 DEF CompleteJourney, TypeOK
  <2>2. journey' = [journey EXCEPT ![b] = "COMPLETED"] /\ UNCHANGED <<driver, rideCheck>>
    BY <1>4 DEF CompleteJourney, Transition
  <2> QED BY <1>0, <2>1, <2>2 DEF TypeOK
<1>5. ASSUME NEW b \in Bookings, StartRideCheck(b) PROVE Stands
  <2>1. rideCheck[b] = "ABSENT"
    BY <1>5 DEF StartRideCheck, StandsAt, IInv, TInv, AttemptsLeft
  <2>2. rideCheck[c] = "VERIFIED" => rideCheck'[c] = "VERIFIED"
    BY <1>0, <1>5, <2>1 DEF StartRideCheck, TypeOK
  <2>3. UNCHANGED <<assignment, driver>> /\ Transition(b, "AWAITING_RIDECHECK") /\ journey[b] # "COMPLETED"
    BY <1>5 DEF StartRideCheck, StandsAt
  <2> QED BY <1>2, <2>2, <2>3
<1>6. ASSUME NEW b \in Bookings, NEW matches \in BOOLEAN, VerifyRideCheck(b, matches) PROVE Stands
  <2>1. rideCheck[c] = "VERIFIED" => rideCheck'[c] = "VERIFIED"
    BY <1>0, <1>6 DEF VerifyRideCheck, RideCheckResult, TypeOK
  <2>2. UNCHANGED <<assignment, driver>> /\ journey[b] # "COMPLETED"
    BY <1>6 DEF VerifyRideCheck, StandsAt
  <2>3. CASE Transition(b, "PASSENGER_VERIFIED")
    BY <1>2, <2>1, <2>2, <2>3
  <2>4. CASE journey' = journey
    BY <2>1, <2>2, <2>4
  <2> QED BY <1>6, <2>3, <2>4 DEF VerifyRideCheck
<1>7. ASSUME NEW b \in Bookings, SafelyTerminateUnsafeJourney(b) PROVE Stands
  BY <1>0, <1>7 DEF SafelyTerminateUnsafeJourney, TypeOK
<1>8. ASSUME NEW b \in Bookings, RideCheckExpires(b) PROVE Stands
  BY <1>0, <1>8 DEF RideCheckExpires, TypeOK
<1>9. CASE UNCHANGED <<journey, assignment, driver, rideCheck>>
  BY <1>9
<1> QED
  <2>1. Stands
    BY <1>1, <1>3, <1>4, <1>5, <1>6, <1>7, <1>8, <1>9 DEF Next, ReportDriverFatigue, vars,
       SetDriverAvailability, RecordLocation, LocationStales, ReportFatigueBegin, ReportFatigueHold,
       ReportFatigueBreak, ReportFatigueAbort, ClearDriverFatigueAfterRest
  <2> QED BY <2>1

\* The page of a Booking only goes forward, and sends nobody on who is not assigned.
THEOREM PageOnlyAdvances == Spec => MilestonesOnlyAdvance
<1> DEFINE Advances ==
      \A b \in Bookings :
        LET before == CompletedMilestones(b, "ABSENT")
            after == CompletedMilestones(b, "ABSENT")'
        IN /\ before \subseteq after
           /\ \A m \in after : 1..m \subseteq after
           /\ \A d \in Drivers : DriverMayRead(d, b) => DriverMayRead(d, b)'
           /\ \A payment \in PaymentStatuses :
                /\ NextAction(b, payment)' \in {"RIDECHECK", "JOURNEY"} => assignment'[b] = "ACTIVE"
                /\ Disposition(b, payment)' = "CLOSED" => assignment'[b] = "COMPLETED"
<1>1. ASSUME PageInv, [Next]_vars, NEW b \in Bookings
      PROVE  /\ CompletedMilestones(b, "ABSENT") \subseteq CompletedMilestones(b, "ABSENT")'
             /\ \A d \in Drivers : DriverMayRead(d, b) => DriverMayRead(d, b)'
  <2>1. /\ AssignmentFound(b) => AssignmentFound(b)' /\ driver'[b] = driver[b]
        /\ ArrivalAccepted(b) => ArrivalAccepted(b)'
        /\ rideCheck[b] = "VERIFIED" => rideCheck'[b] = "VERIFIED"
        /\ journey[b] = "COMPLETED" => journey'[b] = "COMPLETED"
    BY <1>1, MilestonesStand DEF PageInv
  <2>2. \A d \in Drivers : DriverMayRead(d, b) => DriverMayRead(d, b)'
    BY <2>1 DEF DriverMayRead, AssignmentFound
  <2>3. CompletedMilestones(b, "ABSENT") \subseteq CompletedMilestones(b, "ABSENT")'
    BY <2>1 DEF CompletedMilestones
  <2> QED BY <2>2, <2>3
<1>2. PageInv /\ [Next]_vars /\ PagePromise' => Advances
  BY <1>1 DEF PagePromise, PaymentStatuses
<1>3. PageInv => PagePromise
  BY PageKeepsPromise
<1> QED BY <1>2, <1>3, PageInvariance, PTL DEF Spec, MilestonesOnlyAdvance

=============================================================================
