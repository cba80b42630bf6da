---------------------------- MODULE CoreJourney -----------------------------
(***************************************************************************)
(* modules/core-journey: the progress page that the Rider, the Driver and  *)
(* the Control Room read of a Booking.  It keeps no state: every read puts *)
(* the rows of Booking, Dispatch, Journey and Finance together anew.       *)
(*                                                                         *)
(* A Booking of Journey has its FareAgreement and its Dispatch attempt.    *)
(* Its payment intent belongs to Finance and may have any status.          *)
(***************************************************************************)
EXTENDS Journey, Sequences

\* No payment intent, one that waits for its provider, one captured, and one
\* captured and given back, which the page does not count as captured.
PaymentStatuses == {"ABSENT", "AUTHORISED", "CAPTURED", "REFUNDED"}

Milestones == <<"BOOKING", "FARE_AGREEMENT", "DISPATCH", "DRIVER_ASSIGNED",
                "ARRIVAL", "RIDECHECK", "JOURNEY", "FINANCE">>

\* SUPPORT_EXCEPTION_STATUSES, of which a Journey reaches one.  No command
\* writes a status of CLOSED_EXCEPTION_STATUSES.
Interrupted(b) == status[b] = "ACTIVE_INCIDENT"

\* Faulty variant: the assignment has to be ACTIVE still.
AssignmentFoundActive(b) == assignment[b] = "ACTIVE"

\* The latest assignment of the latest attempt, whatever its status.
AssignmentFound(b) == assignment[b] # "ABSENT"

\* Arrival evidence is written by markDriverArrived, and accepted.
ArrivalAccepted(b) == journey[b] \notin {"ABSENT", "ASSIGNED", "EN_ROUTE"}

\* projectCoreJourneyProgress.  An interruption blocks the milestones that are
\* not completed and keeps the others; whether an open milestone is shown as
\* NOT_STARTED, IN_PROGRESS or BLOCKED is left out.
CompletedMilestones(b, payment) ==
  {m \in DOMAIN Milestones :
     CASE Milestones[m] \in {"BOOKING", "FARE_AGREEMENT"} -> TRUE
       [] Milestones[m] \in {"DISPATCH", "DRIVER_ASSIGNED"} -> AssignmentFound(b)
       [] Milestones[m] = "ARRIVAL" -> ArrivalAccepted(b)
       [] Milestones[m] = "RIDECHECK" -> rideCheck[b] = "VERIFIED"
       [] Milestones[m] = "JOURNEY" -> journey[b] = "COMPLETED"
       [] Milestones[m] = "FINANCE" -> payment = "CAPTURED"}

Disposition(b, payment) ==
  IF Interrupted(b) THEN "SUPPORT_REQUIRED"
  ELSE IF journey[b] = "COMPLETED" /\ payment = "CAPTURED" THEN "CLOSED" ELSE "ACTIVE"

\* The first milestone that is not completed, unless the payment or an
\* interruption goes before it.
NextAction(b, payment) ==
  LET open == DOMAIN Milestones \ CompletedMilestones(b, payment) IN
  IF Interrupted(b) THEN "SUPPORT_REQUIRED"
  ELSE IF payment \notin {"ABSENT", "CAPTURED"} THEN "PAYMENT_PROVIDER_UNAVAILABLE"
  ELSE IF open = {} THEN "JOURNEY_CLOSED"
  ELSE Milestones[CHOOSE m \in open : \A n \in open : m <= n]

\* getDriverCoreJourneyProgress: any assignment of the Driver, past or present.
DriverMayRead(d, b) == assignment[b] # "ABSENT" /\ driver[b] = d

-----------------------------------------------------------------------------
(* Properties. *)

\* Whatever the commands of three services do to the rows of a Booking, and
\* whatever its payment is: on the page the milestones before FINANCE are
\* completed in their order, one that was completed stays so through incident
\* and completion, a Driver who could read the page keeps it, and a page that
\* sends the Driver on to RideCheck or Journey is about a Driver still assigned.
MilestonesOnlyAdvance ==
  [][\A b \in Bookings :
       LET before == CompletedMilestones(b, "ABSENT")
           after == CompletedMilestones(b, "ABSENT")'
       IN /\ before \subseteq after
          /\ \A m \in after : 1..m \subseteq after
          /\ \A d \in Drivers : DriverMayRead(d, b) => DriverMayRead(d, b)'
          /\ \A payment \in PaymentStatuses :
               /\ NextAction(b, payment)' \in {"RIDECHECK", "JOURNEY"} => assignment'[b] = "ACTIVE"
               /\ Disposition(b, payment)' = "CLOSED" => assignment'[b] = "COMPLETED"]_vars
=============================================================================
