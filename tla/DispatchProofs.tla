--------------------------- MODULE DispatchProofs ---------------------------
(* Proofs about Dispatch, for every set of Bookings and Drivers, every     *)
(* wave size and with or without complete disclosures.                     *)
EXTENDS Dispatch, TLAPS

\* Bookings, attempts, assignments and Drivers: what is written together.  An open
\* startBookingDispatch holds the row lock of a Booking that is still ready.
AssignmentInv ==
  /\ \A b \in Bookings :
       /\ (status[b] = "READY_FOR_DISPATCH") <=> (attempt[b] = "ABSENT")
       /\ (status[b] = "SEARCHING_FOR_DRIVER") <=> (attempt[b] = "OFFERING")
       /\ (status[b] = "DRIVER_ASSIGNED") <=> (attempt[b] = "ASSIGNED")
       /\ (status[b] = "DRIVER_ASSIGNED") <=> (assignment[b] # None)
       /\ b \in scanning => status[b] = "READY_FOR_DISPATCH"
  /\ \A d \in Drivers :
       /\ (availability[d] = "ASSIGNED") <=> (\E b \in Bookings : assignment[b] = d)
       /\ onShift[d] <=> (availability[d] # "OFFLINE")
  /\ DriverHasOneAssignment

\* Offers exist under an attempt, the open ones under an open attempt.
OffersMatchAttempt ==
  \A b \in Bookings, d \in Drivers :
    /\ (assignment[b] = d) <=> (offer[b][d] = "ACCEPTED")
    /\ offer[b][d] = "OFFERED" => attempt[b] = "OFFERING"
    /\ attempt[b] = "ABSENT" => offer[b][d] = "ABSENT"

\* An acceptance in flight holds the locks of its attempt and of an open offer.
AcceptanceHoldsLocks ==
  /\ \A b \in Bookings, d \in Drivers : <<b, d>> \in accepting => offer[b][d] = "OFFERED"
  /\ \A b \in Bookings, d, e \in Drivers :
       (<<b, d>> \in accepting /\ <<b, e>> \in accepting) => d = e

OfferInv == OffersMatchAttempt /\ AcceptanceHoldsLocks

\* The inductive invariant.  The locks in OfferInv are what carries the checks of
\* an acceptance over to its commit.
IInv == TypeOK /\ AssignmentInv /\ OfferInv /\ OfferOutcomeAttributed

USE DEF bookingRow, offerRows, driverRows, openTransactions

\* Nothing has been offered, nobody is on shift.
LEMMA InitIInv == Init => IInv
  BY NoneIsNotADriver
  DEF Init, IInv, TypeOK, AssignmentInv, OfferInv, OffersMatchAttempt,
      AcceptanceHoldsLocks, OutcomeMatches, DriverHasOneAssignment,
      OfferOutcomeAttributed, BookingStatuses, AttemptStatuses, OfferStatuses, Outcomes,
      AvailabilityStatuses, Evidence

-----------------------------------------------------------------------------
(* What the helpers do to the offers. *)

\* Each offer after its step is as before, or was open, not being accepted, and is
\* closed with one of the outcomes a handler can close it with.
ClosesOpenOffers ==
  /\ offer' \in [Bookings -> [Drivers -> OfferStatuses]]
  /\ outcome' \in [Bookings -> [Drivers -> Outcomes \cup {"NONE"}]]
  /\ \A b \in Bookings, d \in Drivers :
       \/ offer'[b][d] = offer[b][d] /\ outcome'[b][d] = outcome[b][d]
       \/ /\ offer[b][d] = "OFFERED"
          /\ <<b, d>> \notin accepting
          /\ <<offer'[b][d], outcome'[b][d]>> \in
               {<<"DECLINED", "DECLINED">>, <<"EXPIRED", "TIMED_OUT">>,
                <<"WITHDRAWN", "WITHDRAWN">>, <<"WITHDRAWN", "DRIVER_BECAME_INELIGIBLE">>}

\* CloseOffers, used on open offers that no acceptance has locked.
LEMMA CloseOffersCloses ==
  ASSUME TypeOK, NEW set, NEW to, NEW why, CloseOffers(set, to, why),
         <<to, why>> \in {<<"DECLINED", "DECLINED">>, <<"EXPIRED", "TIMED_OUT">>,
           <<"WITHDRAWN", "WITHDRAWN">>, <<"WITHDRAWN", "DRIVER_BECAME_INELIGIBLE">>},
         \A b \in Bookings, d \in Drivers : <<b, d>> \in set =>
           offer[b][d] = "OFFERED" /\ <<b, d>> \notin accepting
  PROVE  ClosesOpenOffers
  <1>1. to \in OfferStatuses /\ why \in Outcomes
    BY DEF OfferStatuses, Outcomes
  <1>2. /\ offer' \in [Bookings -> [Drivers -> OfferStatuses]]
        /\ outcome' \in [Bookings -> [Drivers -> Outcomes \cup {"NONE"}]]
    BY <1>1 DEF TypeOK, CloseOffers
  <1>3. ASSUME NEW b \in Bookings, NEW d \in Drivers
        PROVE  /\ <<b, d>> \in set => offer'[b][d] = to /\ outcome'[b][d] = why
               /\ <<b, d>> \notin set =>
                    offer'[b][d] = offer[b][d] /\ outcome'[b][d] = outcome[b][d]
    BY DEF CloseOffers
  <1>4. QED
    BY <1>2, <1>3 DEF ClosesOpenOffers

\* The offers that OpenOffersTo names.
LEMMA OpenOffersMembers ==
  \A d \in Drivers : \A b \in Bookings, e \in Drivers :
    <<b, e>> \in OpenOffersTo(d) <=> (e = d /\ offer[b][d] = "OFFERED")
  BY DEF OpenOffersTo

\* listDriverOffers closes open offers only.
LEMMA ListCloses ==
  ASSUME TypeOK, NEW d \in Drivers, ListDriverOffers(d)
  PROVE  ClosesOpenOffers
  <1> DEFINE expired == {p \in OpenOffersTo(d) : late[p[1]][d]}
  <1>1. CloseOffers(expired, "EXPIRED", "TIMED_OUT")
    BY DEF ListDriverOffers
  <1>2. ASSUME NEW b \in Bookings, NEW e \in Drivers, <<b, e>> \in expired
        PROVE  offer[b][e] = "OFFERED" /\ <<b, e>> \notin accepting
    <2>1. e = d /\ offer[b][d] = "OFFERED"
      BY <1>2, OpenOffersMembers
    <2>2. ~OfferLocked(<<b, e>>[1], d)
      BY <1>2 DEF ListDriverOffers
    <2>3. QED
      BY <2>1, <2>2 DEF OfferLocked
  <1> HIDE DEF expired
  <1>3. QED
    BY <1>1, <1>2, CloseOffersCloses

\* setDriverAvailability closes open offers or leaves the offers alone.
LEMMA AvailabilityCloses ==
  ASSUME TypeOK, NEW d \in Drivers, NEW to \in WorkIntents, SetDriverAvailability(d, to)
  PROVE  ClosesOpenOffers
  <1>1. CASE to \in {"OFFLINE", "BREAK"}
    <2>1. CloseOffers(OpenOffersTo(d), "WITHDRAWN", "WITHDRAWN")
      BY <1>1 DEF SetDriverAvailability
    <2>2. ASSUME NEW b \in Bookings, NEW e \in Drivers, <<b, e>> \in OpenOffersTo(d)
          PROVE  offer[b][e] = "OFFERED" /\ <<b, e>> \notin accepting
      <3>1. e = d /\ offer[b][d] = "OFFERED"
        BY <2>2, OpenOffersMembers
      <3>2. ~OfferLocked(<<b, e>>[1], d)
        BY <1>1, <2>2 DEF SetDriverAvailability
      <3>3. QED
        BY <3>1, <3>2 DEF OfferLocked
    <2>3. QED
      BY <2>1, <2>2, CloseOffersCloses
  <1>2. CASE to \notin {"OFFLINE", "BREAK"}
    BY <1>2 DEF SetDriverAvailability, TypeOK, ClosesOpenOffers
  <1>3. QED
    BY <1>1, <1>2

\* So do a decline and the two refusals of an acceptance.
LEMMA RefusalCloses ==
  ASSUME TypeOK, NEW b \in Bookings, NEW d \in Drivers,
         DeclineDriverOffer(b, d) \/ AcceptTooLate(b, d) \/ AcceptIneligible(b, d)
  PROVE  ClosesOpenOffers
  <1>1. offer[b][d] = "OFFERED" /\ <<b, d>> \notin accepting
    BY DEF DeclineDriverOffer, AcceptTooLate, AcceptIneligible, AcceptMayProceed,
           AttemptLocked, OfferLocked
  <1>2. PICK to \in OfferStatuses, why \in Outcomes :
           /\ CloseOffers({<<b, d>>}, to, why)
           /\ <<to, why>> \in {<<"DECLINED", "DECLINED">>, <<"EXPIRED", "TIMED_OUT">>,
                <<"WITHDRAWN", "WITHDRAWN">>, <<"WITHDRAWN", "DRIVER_BECAME_INELIGIBLE">>}
    BY DEF DeclineDriverOffer, AcceptTooLate, AcceptIneligible, OfferStatuses, Outcomes
  <1>3. ASSUME NEW c \in Bookings, NEW e \in Drivers, <<c, e>> \in {<<b, d>>}
        PROVE  offer[c][e] = "OFFERED" /\ <<c, e>> \notin accepting
    BY <1>1, <1>3
  <1>4. QED
    BY <1>2, <1>3, CloseOffersCloses

\* Closing open, unlocked offers keeps what is known of offers.
LEMMA ClosingKeepsOfferInv ==
  ASSUME IInv, ClosesOpenOffers, UNCHANGED <<attempt, assignment, accepting>>
  PROVE  (OfferInv /\ OfferOutcomeAttributed)'
  <1>1. ASSUME NEW b \in Bookings, NEW d \in Drivers
        PROVE  \/ offer'[b][d] = offer[b][d] /\ outcome'[b][d] = outcome[b][d]
               \/ /\ offer[b][d] = "OFFERED" /\ <<b, d>> \notin accepting
                  /\ offer'[b][d] \in {"DECLINED", "EXPIRED", "WITHDRAWN"}
                  /\ OutcomeMatches(offer'[b][d], outcome'[b][d])
    BY DEF ClosesOpenOffers, OutcomeMatches
  <1>2. OfferOutcomeAttributed'
    <2> SUFFICES ASSUME NEW b \in Bookings, NEW d \in Drivers
                 PROVE  OutcomeMatches(offer'[b][d], outcome'[b][d])
      BY DEF OfferOutcomeAttributed
    <2>1. OutcomeMatches(offer[b][d], outcome[b][d])
      BY DEF IInv, OfferOutcomeAttributed
    <2>2. QED
      BY <1>1, <2>1
  <1>3. OffersMatchAttempt'
    <2> SUFFICES ASSUME NEW b \in Bookings, NEW d \in Drivers
                 PROVE  /\ (assignment'[b] = d) <=> (offer'[b][d] = "ACCEPTED")
                        /\ offer'[b][d] = "OFFERED" => attempt'[b] = "OFFERING"
                        /\ attempt'[b] = "ABSENT" => offer'[b][d] = "ABSENT"
      BY DEF OffersMatchAttempt
    <2>1. /\ (assignment[b] = d) <=> (offer[b][d] = "ACCEPTED")
          /\ offer[b][d] = "OFFERED" => attempt[b] = "OFFERING"
          /\ attempt[b] = "ABSENT" => offer[b][d] = "ABSENT"
      BY DEF IInv, OfferInv, OffersMatchAttempt
    <2>2. CASE offer'[b][d] = offer[b][d]
      BY <2>1, <2>2
    <2>3. CASE offer[b][d] = "OFFERED" /\ offer'[b][d] \in {"DECLINED", "EXPIRED", "WITHDRAWN"}
      BY <2>1, <2>3
    <2>4. QED
      BY <1>1, <2>2, <2>3
  <1>4. AcceptanceHoldsLocks'
    BY <1>1 DEF IInv, OfferInv, AcceptanceHoldsLocks
  <1>5. QED
    BY <1>2, <1>3, <1>4 DEF OfferInv

-----------------------------------------------------------------------------
(* Every step keeps the inductive invariant. *)

\* The types.
LEMMA NextTypeOK == TypeOK /\ [Next]_vars => TypeOK'
  <1> SUFFICES ASSUME TypeOK, [Next]_vars PROVE TypeOK'
    OBVIOUS
  <1> USE DEF TypeOK, BookingStatuses, AttemptStatuses, OfferStatuses, Outcomes,
              AvailabilityStatuses, Evidence
  <1>1. ASSUME NEW b \in Bookings,
               StartDispatchScan(b)
        PROVE  TypeOK'
    BY <1>1 DEF StartDispatchScan, Eligible
  <1>2. ASSUME NEW b \in Bookings, NEW wave \in SUBSET Drivers,
               StartDispatchOffer(b, wave)
        PROVE  TypeOK'
    BY <1>2 DEF StartDispatchOffer, EndScan
  <1>3. ASSUME NEW b \in Bookings,
               StartDispatchNoDriver(b)
        PROVE  TypeOK'
    BY <1>3 DEF StartDispatchNoDriver, EndScan
  <1>4. ASSUME NEW b \in Bookings,
               StartDispatchAbort(b)
        PROVE  TypeOK'
    BY <1>4 DEF StartDispatchAbort, EndScan
  <1>5. ASSUME NEW d \in Drivers,
               ListDriverOffers(d)
        PROVE  TypeOK'
    BY <1>5, ListCloses DEF ListDriverOffers, ClosesOpenOffers
  <1>6. ASSUME NEW b \in Bookings, NEW d \in Drivers,
               OfferLapses(b, d)
        PROVE  TypeOK'
    BY <1>6 DEF OfferLapses
  <1>7. ASSUME NEW b \in Bookings, NEW d \in Drivers,
               DeclineDriverOffer(b, d)
        PROVE  TypeOK'
    BY <1>7, RefusalCloses DEF DeclineDriverOffer, ClosesOpenOffers
  <1>8. ASSUME NEW b \in Bookings, NEW d \in Drivers,
               AcceptTooLate(b, d)
        PROVE  TypeOK'
    BY <1>8, RefusalCloses DEF AcceptTooLate, ClosesOpenOffers
  <1>9. ASSUME NEW b \in Bookings, NEW d \in Drivers,
               AcceptIneligible(b, d)
        PROVE  TypeOK'
    BY <1>9, RefusalCloses DEF AcceptIneligible, ClosesOpenOffers
  <1>10. ASSUME NEW b \in Bookings, NEW d \in Drivers,
               AcceptBegin(b, d)
        PROVE  TypeOK'
    BY <1>10 DEF AcceptBegin, AcceptMayProceed, AttemptLocked
  <1>11. ASSUME NEW b \in Bookings, NEW d \in Drivers,
               AcceptCommit(b, d)
        PROVE  TypeOK'
    BY <1>11 DEF AcceptCommit, RecordShift
  <1>12. ASSUME NEW b \in Bookings, NEW d \in Drivers,
               AcceptAbort(b, d)
        PROVE  TypeOK'
    BY <1>12 DEF AcceptAbort
  <1>13. ASSUME NEW d \in Drivers, NEW to \in WorkIntents,
               SetDriverAvailability(d, to)
        PROVE  TypeOK'
    BY <1>13, AvailabilityCloses DEF SetDriverAvailability, RecordShift, WorkIntents, ClosesOpenOffers
  <1>14. ASSUME NEW d \in Drivers,
               ReportDriverFatigue(d)
        PROVE  TypeOK'
    BY <1>14 DEF ReportDriverFatigue
  <1>15. ASSUME NEW d \in Drivers, NEW e \in Evidence,
               EvidenceChanges(d, e)
        PROVE  TypeOK'
    BY <1>15 DEF EvidenceChanges
  <1>16. CASE UNCHANGED vars
    BY <1>16 DEF vars
  <1> HIDE DEF TypeOK, BookingStatuses, AttemptStatuses, OfferStatuses, Outcomes,
           AvailabilityStatuses, Evidence
  <1>17. QED
    BY <1>1, <1>2, <1>3, <1>4, <1>5, <1>6, <1>7, <1>8,
       <1>9, <1>10, <1>11, <1>12, <1>13, <1>14, <1>15, <1>16
    DEF Next, StartBookingDispatch, AcceptDriverOffer

\* Bookings, attempts, assignments and Drivers.
LEMMA NextAssignmentInv == TypeOK /\ AssignmentInv /\ [Next]_vars => AssignmentInv'
  <1> SUFFICES ASSUME TypeOK, AssignmentInv, [Next]_vars PROVE AssignmentInv'
    OBVIOUS
  <1> USE NoneIsNotADriver DEF TypeOK, AssignmentInv, DriverHasOneAssignment
  <1>1. ASSUME NEW b \in Bookings,
               StartDispatchScan(b)
        PROVE  AssignmentInv'
    BY <1>1 DEF StartDispatchScan, Eligible
  <1>2. ASSUME NEW b \in Bookings, NEW wave \in SUBSET Drivers,
               StartDispatchOffer(b, wave)
        PROVE  AssignmentInv'
    BY <1>2 DEF StartDispatchOffer, EndScan
  <1>3. ASSUME NEW b \in Bookings,
               StartDispatchNoDriver(b)
        PROVE  AssignmentInv'
    BY <1>3 DEF StartDispatchNoDriver, EndScan
  <1>4. ASSUME NEW b \in Bookings,
               StartDispatchAbort(b)
        PROVE  AssignmentInv'
    BY <1>4 DEF StartDispatchAbort, EndScan
  <1>5. ASSUME NEW d \in Drivers,
               ListDriverOffers(d)
        PROVE  AssignmentInv'
    BY <1>5 DEF ListDriverOffers
  <1>6. ASSUME NEW b \in Bookings, NEW d \in Drivers,
               OfferLapses(b, d)
        PROVE  AssignmentInv'
    BY <1>6 DEF OfferLapses
  <1>7. ASSUME NEW b \in Bookings, NEW d \in Drivers,
               DeclineDriverOffer(b, d)
        PROVE  AssignmentInv'
    BY <1>7 DEF DeclineDriverOffer
  <1>8. ASSUME NEW b \in Bookings, NEW d \in Drivers,
               AcceptTooLate(b, d)
        PROVE  AssignmentInv'
    BY <1>8 DEF AcceptTooLate
  <1>9. ASSUME NEW b \in Bookings, NEW d \in Drivers,
               AcceptIneligible(b, d)
        PROVE  AssignmentInv'
    BY <1>9 DEF AcceptIneligible
  <1>10. ASSUME NEW b \in Bookings, NEW d \in Drivers,
               AcceptBegin(b, d)
        PROVE  AssignmentInv'
    BY <1>10 DEF AcceptBegin
  <1>11. ASSUME NEW b \in Bookings, NEW d \in Drivers,
               AcceptCommit(b, d)
        PROVE  AssignmentInv'
    <2> USE <1>11 DEF AcceptCommit, UniqueAssignment, HasActiveAssignment, RecordShift
    <2>1. assignment'[b] = d /\ \A c \in Bookings \ {b} : assignment'[c] = assignment[c]
      OBVIOUS
    <2>2. availability'[d] = "ASSIGNED" /\ \A e \in Drivers \ {d} : availability'[e] = availability[e]
      OBVIOUS
    <2>3. \A c \in Bookings :
            /\ (status'[c] = "READY_FOR_DISPATCH") <=> (attempt'[c] = "ABSENT")
            /\ (status'[c] = "SEARCHING_FOR_DRIVER") <=> (attempt'[c] = "OFFERING")
            /\ (status'[c] = "DRIVER_ASSIGNED") <=> (attempt'[c] = "ASSIGNED")
            /\ (status'[c] = "DRIVER_ASSIGNED") <=> (assignment'[c] # None)
            /\ c \in scanning' => status'[c] = "READY_FOR_DISPATCH"
      OBVIOUS
    <2>4. \A e \in Drivers :
            (availability'[e] = "ASSIGNED") <=> (\E c \in Bookings : assignment'[c] = e)
      BY <2>1, <2>2
    <2>5. \A e \in Drivers : onShift'[e] <=> (availability'[e] # "OFFLINE")
      OBVIOUS
    <2>6. DriverHasOneAssignment'
      BY <2>1
    <2>7. QED
      BY <2>3, <2>4, <2>5, <2>6
  <1>12. ASSUME NEW b \in Bookings, NEW d \in Drivers,
               AcceptAbort(b, d)
        PROVE  AssignmentInv'
    BY <1>12 DEF AcceptAbort
  <1>13. ASSUME NEW d \in Drivers, NEW to \in WorkIntents,
               SetDriverAvailability(d, to)
        PROVE  AssignmentInv'
    <2>1. availability[d] # "ASSIGNED" /\ to # "ASSIGNED"
      BY <1>13 DEF SetDriverAvailability, MayBecome, AvailabilityTransitions, WorkIntents
    <2>2. /\ availability' = [availability EXCEPT ![d] = to]
          /\ onShift' = [onShift EXCEPT ![d] = (to # "OFFLINE")]
          /\ UNCHANGED <<status, attempt, assignment, scanning>>
      BY <1>13 DEF SetDriverAvailability, RecordShift
    <2>3. \A e \in Drivers :
            /\ (availability'[e] = "ASSIGNED") <=> (availability[e] = "ASSIGNED")
            /\ onShift'[e] <=> (availability'[e] # "OFFLINE")
      BY <2>1, <2>2
    <2>4. QED
      BY <2>2, <2>3
  <1>14. ASSUME NEW d \in Drivers,
               ReportDriverFatigue(d)
        PROVE  AssignmentInv'
    BY <1>14 DEF ReportDriverFatigue
  <1>15. ASSUME NEW d \in Drivers, NEW e \in Evidence,
               EvidenceChanges(d, e)
        PROVE  AssignmentInv'
    BY <1>15 DEF EvidenceChanges
  <1>16. CASE UNCHANGED vars
    BY <1>16 DEF vars
  <1> HIDE DEF TypeOK, AssignmentInv, DriverHasOneAssignment
  <1>17. QED
    BY <1>1, <1>2, <1>3, <1>4, <1>5, <1>6, <1>7, <1>8,
       <1>9, <1>10, <1>11, <1>12, <1>13, <1>14, <1>15, <1>16
    DEF Next, StartBookingDispatch, AcceptDriverOffer

\* Offers, their attribution and the locks on them.
LEMMA NextOfferInv ==
  IInv /\ [Next]_vars => (OfferInv /\ OfferOutcomeAttributed)'
  <1> SUFFICES ASSUME IInv, [Next]_vars PROVE (OfferInv /\ OfferOutcomeAttributed)'
    OBVIOUS
  <1>0. TypeOK
    BY DEF IInv
  <1> USE NoneIsNotADriver
      DEF IInv, TypeOK, AssignmentInv, OfferInv, OffersMatchAttempt, AcceptanceHoldsLocks,
          OfferOutcomeAttributed
  <1>1. ASSUME NEW b \in Bookings,
               StartDispatchScan(b)
        PROVE  (OfferInv /\ OfferOutcomeAttributed)'
    BY <1>1 DEF StartDispatchScan, Eligible
  <1>2. ASSUME NEW b \in Bookings, NEW wave \in SUBSET Drivers,
               StartDispatchOffer(b, wave)
        PROVE  (OfferInv /\ OfferOutcomeAttributed)'
    <2>1. attempt[b] = "ABSENT" /\ assignment[b] = None
      BY <1>2 DEF StartDispatchOffer
    <2>2. \A d \in Drivers : offer[b][d] = "ABSENT" /\ outcome[b][d] = "NONE"
      <3> SUFFICES ASSUME NEW d \in Drivers
                   PROVE  offer[b][d] = "ABSENT" /\ outcome[b][d] = "NONE"
        OBVIOUS
      <3>1. offer[b][d] = "ABSENT" /\ OutcomeMatches(offer[b][d], outcome[b][d])
        BY <2>1
      <3>2. QED
        BY <3>1 DEF OutcomeMatches
    <2>3. \A d \in Drivers : offer'[b][d] \in {"ABSENT", "OFFERED"} /\ outcome'[b][d] = "NONE"
      BY <1>2, <2>2 DEF StartDispatchOffer
    <2>4. \A c \in Bookings \ {b}, d \in Drivers :
            /\ offer'[c][d] = offer[c][d] /\ outcome'[c][d] = outcome[c][d]
            /\ attempt'[c] = attempt[c]
      BY <1>2 DEF StartDispatchOffer
    <2>5. attempt'[b] = "OFFERING" /\ assignment' = assignment /\ accepting' = accepting
      BY <1>2 DEF StartDispatchOffer
    <2>6. OffersMatchAttempt' /\ AcceptanceHoldsLocks'
      <3>1. \A d \in Drivers :
              /\ <<b, d>> \notin accepting
              /\ assignment[b] # d
        BY <2>1, <2>2
      <3>2. OffersMatchAttempt'
        <4> SUFFICES ASSUME NEW c \in Bookings, NEW d \in Drivers
                     PROVE  /\ (assignment'[c] = d) <=> (offer'[c][d] = "ACCEPTED")
                            /\ offer'[c][d] = "OFFERED" => attempt'[c] = "OFFERING"
                            /\ attempt'[c] = "ABSENT" => offer'[c][d] = "ABSENT"
          OBVIOUS
        <4>1. CASE c = b
          BY <2>3, <2>5, <3>1, <4>1
        <4>2. CASE c # b
          BY <2>4, <2>5, <4>2
        <4>3. QED
          BY <4>1, <4>2
      <3>3. AcceptanceHoldsLocks'
        BY <2>4, <2>5, <3>1
      <3>4. QED
        BY <3>2, <3>3
    <2>7. OfferOutcomeAttributed'
      <3> SUFFICES ASSUME NEW c \in Bookings, NEW d \in Drivers
                   PROVE  OutcomeMatches(offer'[c][d], outcome'[c][d])
        OBVIOUS
      <3>1. CASE c = b
        BY <2>3, <3>1 DEF OutcomeMatches
      <3>2. CASE c # b
        BY <2>4, <3>2
      <3>3. QED
        BY <3>1, <3>2
    <2>8. QED
      BY <2>6, <2>7
  <1>3. ASSUME NEW b \in Bookings,
               StartDispatchNoDriver(b)
        PROVE  (OfferInv /\ OfferOutcomeAttributed)'
    BY <1>3 DEF StartDispatchNoDriver, EndScan
  <1>4. ASSUME NEW b \in Bookings,
               StartDispatchAbort(b)
        PROVE  (OfferInv /\ OfferOutcomeAttributed)'
    BY <1>4 DEF StartDispatchAbort, EndScan
  <1>5. ASSUME NEW d \in Drivers,
               ListDriverOffers(d)
        PROVE  (OfferInv /\ OfferOutcomeAttributed)'
    <2>1. ClosesOpenOffers
      BY <1>0, <1>5, ListCloses
    <2>2. UNCHANGED <<attempt, assignment, accepting>>
      BY <1>5 DEF ListDriverOffers
    <2> HIDE DEF IInv, OfferInv, OffersMatchAttempt, AcceptanceHoldsLocks, OfferOutcomeAttributed
    <2>3. QED
      BY <2>1, <2>2, ClosingKeepsOfferInv
  <1>6. ASSUME NEW b \in Bookings, NEW d \in Drivers,
               OfferLapses(b, d)
        PROVE  (OfferInv /\ OfferOutcomeAttributed)'
    BY <1>6 DEF OfferLapses
  <1>7. ASSUME NEW b \in Bookings, NEW d \in Drivers,
               DeclineDriverOffer(b, d)
        PROVE  (OfferInv /\ OfferOutcomeAttributed)'
    <2>1. ClosesOpenOffers
      BY <1>0, <1>7, RefusalCloses
    <2>2. UNCHANGED <<attempt, assignment, accepting>>
      BY <1>7 DEF DeclineDriverOffer
    <2> HIDE DEF IInv, OfferInv, OffersMatchAttempt, AcceptanceHoldsLocks, OfferOutcomeAttributed
    <2>3. QED
      BY <2>1, <2>2, ClosingKeepsOfferInv
  <1>8. ASSUME NEW b \in Bookings, NEW d \in Drivers,
               AcceptTooLate(b, d)
        PROVE  (OfferInv /\ OfferOutcomeAttributed)'
    <2>1. ClosesOpenOffers
      BY <1>0, <1>8, RefusalCloses
    <2>2. UNCHANGED <<attempt, assignment, accepting>>
      BY <1>8 DEF AcceptTooLate
    <2> HIDE DEF IInv, OfferInv, OffersMatchAttempt, AcceptanceHoldsLocks, OfferOutcomeAttributed
    <2>3. QED
      BY <2>1, <2>2, ClosingKeepsOfferInv
  <1>9. ASSUME NEW b \in Bookings, NEW d \in Drivers,
               AcceptIneligible(b, d)
        PROVE  (OfferInv /\ OfferOutcomeAttributed)'
    <2>1. ClosesOpenOffers
      BY <1>0, <1>9, RefusalCloses
    <2>2. UNCHANGED <<attempt, assignment, accepting>>
      BY <1>9 DEF AcceptIneligible
    <2> HIDE DEF IInv, OfferInv, OffersMatchAttempt, AcceptanceHoldsLocks, OfferOutcomeAttributed
    <2>3. QED
      BY <2>1, <2>2, ClosingKeepsOfferInv
  <1>10. ASSUME NEW b \in Bookings, NEW d \in Drivers,
               AcceptBegin(b, d)
        PROVE  (OfferInv /\ OfferOutcomeAttributed)'
    <2>1. \A e \in Drivers : <<b, e>> \notin accepting
      BY <1>10 DEF AcceptBegin, AcceptMayProceed, AttemptLocked
    <2>2. QED
      BY <1>10, <2>1 DEF AcceptBegin, AcceptMayProceed
  <1>11. ASSUME NEW b \in Bookings, NEW d \in Drivers,
               AcceptCommit(b, d)
        PROVE  (OfferInv /\ OfferOutcomeAttributed)'
    <2>1. /\ assignment'[b] = d /\ attempt'[b] = "ASSIGNED"
          /\ assignment[b] = None /\ offer[b][d] = "OFFERED"
          /\ <<b, d>> \in accepting /\ accepting' = accepting \ {<<b, d>>}
      BY <1>11 DEF AcceptCommit, UniqueAssignment
    <2>2. ASSUME NEW c \in Bookings, NEW e \in Drivers, c # b
          PROVE  /\ assignment'[c] = assignment[c] /\ attempt'[c] = attempt[c]
                 /\ offer'[c][e] = offer[c][e] /\ outcome'[c][e] = outcome[c][e]
      BY <1>11, <2>2 DEF AcceptCommit
    <2>3. ASSUME NEW e \in Drivers
          PROVE  /\ e = d => offer'[b][e] = "ACCEPTED" /\ outcome'[b][e] = "ACCEPTED"
                 /\ (e # d /\ offer[b][e] = "OFFERED") =>
                      offer'[b][e] = "WITHDRAWN" /\ outcome'[b][e] = "ASSIGNED_ELSEWHERE"
                 /\ (e # d /\ offer[b][e] # "OFFERED") =>
                      offer'[b][e] = offer[b][e] /\ outcome'[b][e] = outcome[b][e]
      BY <1>11 DEF AcceptCommit, CompetingOffers
    <2>4. OffersMatchAttempt'
      BY <2>1, <2>2, <2>3
    <2>5. AcceptanceHoldsLocks'
      BY <2>1, <2>2, <2>3
    <2>6. ASSUME NEW c \in Bookings, NEW e \in Drivers
          PROVE  OutcomeMatches(offer'[c][e], outcome'[c][e])
      <3>1. OutcomeMatches(offer[c][e], outcome[c][e])
        OBVIOUS
      <3>2. CASE c = b /\ (e = d \/ offer[b][e] = "OFFERED")
        BY <2>3, <3>2 DEF OutcomeMatches
      <3>3. CASE ~(c = b /\ (e = d \/ offer[b][e] = "OFFERED"))
        BY <2>2, <2>3, <3>1, <3>3
      <3>4. QED
        BY <3>2, <3>3
    <2>7. QED
      BY <2>4, <2>5, <2>6
  <1>12. ASSUME NEW b \in Bookings, NEW d \in Drivers,
               AcceptAbort(b, d)
        PROVE  (OfferInv /\ OfferOutcomeAttributed)'
    BY <1>12 DEF AcceptAbort
  <1>13. ASSUME NEW d \in Drivers, NEW to \in WorkIntents,
               SetDriverAvailability(d, to)
        PROVE  (OfferInv /\ OfferOutcomeAttributed)'
    <2>1. ClosesOpenOffers
      BY <1>0, <1>13, AvailabilityCloses
    <2>2. UNCHANGED <<attempt, assignment, accepting>>
      BY <1>13 DEF SetDriverAvailability
    <2> HIDE DEF IInv, OfferInv, OffersMatchAttempt, AcceptanceHoldsLocks, OfferOutcomeAttributed
    <2>3. QED
      BY <2>1, <2>2, ClosingKeepsOfferInv
  <1>14. ASSUME NEW d \in Drivers,
               ReportDriverFatigue(d)
        PROVE  (OfferInv /\ OfferOutcomeAttributed)'
    BY <1>14 DEF ReportDriverFatigue
  <1>15. ASSUME NEW d \in Drivers, NEW e \in Evidence,
               EvidenceChanges(d, e)
        PROVE  (OfferInv /\ OfferOutcomeAttributed)'
    BY <1>15 DEF EvidenceChanges
  <1>16. CASE UNCHANGED vars
    BY <1>16 DEF vars
  <1> HIDE DEF IInv, TypeOK, AssignmentInv, OfferInv, OffersMatchAttempt,
           AcceptanceHoldsLocks, OfferOutcomeAttributed
  <1>17. QED
    BY <1>1, <1>2, <1>3, <1>4, <1>5, <1>6, <1>7, <1>8,
       <1>9, <1>10, <1>11, <1>12, <1>13, <1>14, <1>15, <1>16
    DEF Next, StartBookingDispatch, AcceptDriverOffer

-----------------------------------------------------------------------------
(* Theorems. *)

LEMMA NextIInv == IInv /\ [Next]_vars => IInv'
  BY NextTypeOK, NextAssignmentInv, NextOfferInv DEF IInv

LEMMA Invariance == Spec => []IInv
  BY InitIInv, NextIInv, PTL DEF Spec

\* Every variable keeps its type.
THEOREM DispatchTypeCorrect == Spec => []TypeOK
  BY Invariance, PTL DEF IInv

\* No interleaving of acceptances gives a Driver two active assignments.
THEOREM DriverNeverDoublyAssigned == Spec => []DriverHasOneAssignment
  <1>1. IInv => DriverHasOneAssignment
    BY DEF IInv, AssignmentInv
  <1>2. QED
    BY <1>1, Invariance, PTL

\* Booking, Dispatch and Driver never disagree about an assignment.
THEOREM AssignmentRecordsAgree == Spec => []AssignmentAgreesEverywhere
  <1>1. IInv => AssignmentAgreesEverywhere
    BY DEF IInv, AssignmentInv, OfferInv, OffersMatchAttempt, AssignmentAgreesEverywhere,
           HasActiveAssignment
  <1>2. QED
    BY <1>1, Invariance, PTL

\* Every terminal offer has the outcome attribution of the handler that closed it.
THEOREM TerminalOffersAttributed == Spec => []OfferOutcomeAttributed
  BY Invariance, PTL DEF IInv

\* An assignment, or the end of a search, leaves no offer open.
THEOREM NoOpenOfferAfterSearch == Spec => []NoOfferOutlivesSearch
  <1>1. IInv => NoOfferOutlivesSearch
    BY DEF IInv, AssignmentInv, OfferInv, OffersMatchAttempt, NoOfferOutlivesSearch
  <1>2. QED
    BY <1>1, Invariance, PTL

\* A Driver has an active shift exactly while not OFFLINE.
THEOREM ShiftExactlyWhileOnline == Spec => []ShiftFollowsAvailability
  <1>1. IInv => ShiftFollowsAvailability
    BY DEF IInv, AssignmentInv, ShiftFollowsAvailability
  <1>2. QED
    BY <1>1, Invariance, PTL

\* A Driver is only assigned from AVAILABLE or FINISHING_SOON: ASSIGNED, which the
\* availability table lets stay ASSIGNED, is excluded by the per-Driver index.
THEOREM OnlyWorkingDriversAssigned == Spec => AssignsOnlyWorkingDrivers
  <1> DEFINE Good == \A b \in Bookings, d \in Drivers :
                       (assignment'[b] = d /\ assignment[b] # d) =>
                          availability[d] \in {"AVAILABLE", "FINISHING_SOON"}
  <1>1. IInv /\ [Next]_vars => [Good]_vars
    <2> SUFFICES ASSUME IInv, Next PROVE Good
      OBVIOUS
    <2>1. ASSUME NEW b \in Bookings, NEW d \in Drivers, AcceptCommit(b, d)
          PROVE  Good
      <3>1. /\ availability[d] \in {"AVAILABLE", "FINISHING_SOON"}
        BY <2>1 DEF AcceptCommit, UniqueAssignment, HasActiveAssignment, MayBecome,
                    AvailabilityTransitions, IInv, AssignmentInv, TypeOK
      <3>2. assignment' = [assignment EXCEPT ![b] = d]
        BY <2>1 DEF AcceptCommit
      <3>3. QED
        BY <3>1, <3>2 DEF IInv, TypeOK
    <2>2. CASE UNCHANGED assignment
      BY <2>2
    <2>3. QED
      BY <2>1, <2>2
      DEF Next, StartBookingDispatch, StartDispatchScan, StartDispatchOffer,
          StartDispatchNoDriver, StartDispatchAbort, ListDriverOffers, OfferLapses,
          DeclineDriverOffer, AcceptDriverOffer, AcceptTooLate, AcceptIneligible,
          AcceptBegin, AcceptAbort, SetDriverAvailability, ReportDriverFatigue,
          EvidenceChanges
  <1>2. QED
    BY <1>1, Invariance, PTL DEF Spec, AssignsOnlyWorkingDrivers

\* Whatever races for an offer, the first to close it decides for good.
THEOREM ClosedOffersStay == Spec => ClosedOfferIsFinal
  <1> DEFINE Stays == \A b \in Bookings, d \in Drivers :
                        offer[b][d] \notin {"ABSENT", "OFFERED"} =>
                          offer'[b][d] = offer[b][d] /\ outcome'[b][d] = outcome[b][d]
  <1>1. IInv /\ [Next]_vars => [Stays]_vars
    <2> SUFFICES ASSUME IInv, Next PROVE Stays
      OBVIOUS
    <2>0. TypeOK
      BY DEF IInv
    <2>1. ASSUME ClosesOpenOffers PROVE Stays
      BY <2>1 DEF ClosesOpenOffers
    <2>2. ASSUME NEW b \in Bookings, NEW wave \in SUBSET Drivers, StartDispatchOffer(b, wave)
          PROVE  Stays
      BY <2>2 DEF StartDispatchOffer, IInv, TypeOK, AssignmentInv, OfferInv, OffersMatchAttempt
    <2>3. ASSUME NEW b \in Bookings, NEW d \in Drivers, AcceptCommit(b, d)
          PROVE  Stays
      BY <2>3 DEF AcceptCommit, CompetingOffers, IInv, TypeOK, OfferInv, AcceptanceHoldsLocks
    <2>4. ASSUME NEW d \in Drivers, ListDriverOffers(d)
          PROVE  Stays
      BY <2>0, <2>1, <2>4, ListCloses
    <2>5. ASSUME NEW d \in Drivers, NEW to \in WorkIntents, SetDriverAvailability(d, to)
          PROVE  Stays
      BY <2>0, <2>1, <2>5, AvailabilityCloses
    <2>6. ASSUME NEW b \in Bookings, NEW d \in Drivers,
                 DeclineDriverOffer(b, d) \/ AcceptTooLate(b, d) \/ AcceptIneligible(b, d)
          PROVE  Stays
      BY <2>0, <2>1, <2>6, RefusalCloses
    <2>7. CASE UNCHANGED <<offer, outcome>>
      BY <2>7
    <2> HIDE DEF Stays
    <2>8. QED
      BY <2>2, <2>3, <2>4, <2>5, <2>6, <2>7
      DEF Next, StartBookingDispatch, StartDispatchScan, StartDispatchNoDriver,
          StartDispatchAbort, OfferLapses, AcceptDriverOffer, AcceptBegin, AcceptAbort,
          ReportDriverFatigue, EvidenceChanges
  <1>2. QED
    BY <1>1, Invariance, PTL DEF Spec, ClosedOfferIsFinal

\* Dispatch writes booking.booking only by steps of the spine.
THEOREM DispatchFollowsSpine == Spec => BookingStepsFollowSpine
  <1>1. IInv /\ [Next]_vars => [Spine!SpineNext]_bookingRow
    <2> SUFFICES ASSUME IInv, Next PROVE Spine!SpineNext \/ UNCHANGED bookingRow
      BY DEF vars
    <2>1. ASSUME NEW b \in Bookings, NEW wave \in SUBSET Drivers, StartDispatchOffer(b, wave)
          PROVE  Spine!Advance(b, "SEARCHING_FOR_DRIVER")
      BY <2>1 DEF StartDispatchOffer, IInv, AssignmentInv, Spine!Advance,
                  Spine!CanUseCanonicalForwardTransition, Spine!ForwardTransitions
    <2>2. ASSUME NEW b \in Bookings, StartDispatchNoDriver(b)
          PROVE  Spine!FailSearch(b)
      BY <2>2 DEF StartDispatchNoDriver, IInv, AssignmentInv, Spine!FailSearch
    <2>3. ASSUME NEW b \in Bookings, NEW d \in Drivers, AcceptCommit(b, d)
          PROVE  Spine!Advance(b, "DRIVER_ASSIGNED")
      BY <2>3 DEF AcceptCommit, Spine!Advance,
                  Spine!CanUseCanonicalForwardTransition, Spine!ForwardTransitions
    <2>4. ASSUME NEW b \in Bookings, NEW to \in {"SEARCHING_FOR_DRIVER", "DRIVER_ASSIGNED"},
                 Spine!Advance(b, to)
          PROVE  Spine!SpineNext
      <3>1. /\ <<status[b], to>> \in Spine!ForwardTransitions
            /\ <<status[b], to>>[1] = status[b] /\ <<status[b], to>>[2] = to
        BY <2>4 DEF Spine!Advance, Spine!CanUseCanonicalForwardTransition
      <3> QED BY <2>4, <3>1 DEF Spine!SpineNext
    <2>5. CASE UNCHANGED bookingRow
      BY <2>5
    <2>6. QED
      BY <2>1, <2>2, <2>3, <2>4, <2>5
      DEF Next, StartBookingDispatch, StartDispatchScan, StartDispatchAbort,
          ListDriverOffers, OfferLapses, DeclineDriverOffer, AcceptDriverOffer,
          AcceptTooLate, AcceptIneligible, AcceptBegin, AcceptAbort,
          SetDriverAvailability, ReportDriverFatigue, EvidenceChanges, Spine!SpineNext
  <1>2. QED
    BY <1>1, Invariance, PTL DEF Spec, BookingStepsFollowSpine
=============================================================================
