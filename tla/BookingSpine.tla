---------------------------- MODULE BookingSpine ----------------------------
(***************************************************************************)
(* What every writer of booking.booking promises: a Booking is created     *)
(* once, in DRAFT at version 1, and afterwards moves one canonical forward *)
(* step at a time, or leaves the path for an incident, each step adding    *)
(* one to aggregate_version.  Booking, Dispatch and Journey are checked to *)
(* follow this specification.                                              *)
(***************************************************************************)
EXTENDS Naturals

CONSTANT Bookings

VARIABLES status,   \* booking.status; "ABSENT" before the row exists
          version   \* booking.aggregate_version

spineVars == <<status, version>>

\* booking-status.ts: AUTHORITATIVE_BOOKING_STATUSES, in the order of the file.
AuthoritativeStatuses ==
  {"DRAFT", "QUOTE_CREATED", "AWAITING_CONFIRMATION", "CONFIRMED", "SCHEDULED",
   "READY_FOR_DISPATCH", "SEARCHING_FOR_DRIVER", "DRIVER_ASSIGNED",
   "DRIVER_EN_ROUTE", "DRIVER_ARRIVED", "AWAITING_RIDECHECK",
   "PASSENGER_VERIFIED", "IN_PROGRESS", "ARRIVING", "COMPLETED",
   "PAYMENT_PROCESSING", "PAID", "CLOSED"}

\* The exception statuses some writer reaches: two through the forward table,
\* ACTIVE_INCIDENT past it.  Nothing writes the other EXCEPTION_BOOKING_STATUSES.
ExceptionStatuses == {"NO_ELIGIBLE_DRIVER", "PAYMENT_FAILED", "ACTIVE_INCIDENT"}

BookingStatus == AuthoritativeStatuses \cup ExceptionStatuses

\* FORWARD_TRANSITIONS as a relation on statuses.
ForwardTransitions ==
  { <<"DRAFT", "QUOTE_CREATED">>,
    <<"QUOTE_CREATED", "AWAITING_CONFIRMATION">>,
    <<"AWAITING_CONFIRMATION", "CONFIRMED">>,
    <<"CONFIRMED", "SCHEDULED">>,
    <<"CONFIRMED", "READY_FOR_DISPATCH">>,
    <<"SCHEDULED", "READY_FOR_DISPATCH">>,
    <<"READY_FOR_DISPATCH", "SEARCHING_FOR_DRIVER">>,
    <<"SEARCHING_FOR_DRIVER", "DRIVER_ASSIGNED">>,
    <<"SEARCHING_FOR_DRIVER", "NO_ELIGIBLE_DRIVER">>,
    <<"DRIVER_ASSIGNED", "DRIVER_EN_ROUTE">>,
    <<"DRIVER_EN_ROUTE", "DRIVER_ARRIVED">>,
    <<"DRIVER_ARRIVED", "AWAITING_RIDECHECK">>,
    <<"AWAITING_RIDECHECK", "PASSENGER_VERIFIED">>,
    <<"PASSENGER_VERIFIED", "IN_PROGRESS">>,
    <<"IN_PROGRESS", "ARRIVING">>,
    <<"ARRIVING", "COMPLETED">>,
    <<"COMPLETED", "PAYMENT_PROCESSING">>,
    <<"PAYMENT_PROCESSING", "PAID">>,
    <<"PAYMENT_PROCESSING", "PAYMENT_FAILED">>,
    <<"PAID", "CLOSED">> }

CanUseCanonicalForwardTransition(from, to) == <<from, to>> \in ForwardTransitions

-----------------------------------------------------------------------------

Create(b) ==
  /\ status[b] = "ABSENT"
  /\ status' = [status EXCEPT ![b] = "DRAFT"]
  /\ version' = [version EXCEPT ![b] = 1]

Advance(b, to) ==
  /\ CanUseCanonicalForwardTransition(status[b], to)
  /\ status' = [status EXCEPT ![b] = to]
  /\ version' = [version EXCEPT ![b] = @ + 1]

\* A search that finds no Driver takes two forward steps in one transaction.
FailSearch(b) ==
  /\ status[b] = "READY_FOR_DISPATCH"
  /\ status' = [status EXCEPT ![b] = "NO_ELIGIBLE_DRIVER"]
  /\ version' = [version EXCEPT ![b] = @ + 2]

\* The Driver ends a Journey that has become unsafe before it is completed.
RaiseIncident(b) ==
  /\ status[b] \in {"DRIVER_EN_ROUTE", "DRIVER_ARRIVED", "AWAITING_RIDECHECK",
                    "PASSENGER_VERIFIED", "IN_PROGRESS", "ARRIVING"}
  /\ status' = [status EXCEPT ![b] = "ACTIVE_INCIDENT"]
  /\ version' = [version EXCEPT ![b] = @ + 1]

SpineInit ==
  /\ status = [b \in Bookings |-> "ABSENT"]
  /\ version = [b \in Bookings |-> 0]

SpineNext ==
  \E b \in Bookings :
     \/ Create(b)
     \/ \E step \in ForwardTransitions : status[b] = step[1] /\ Advance(b, step[2])
     \/ FailSearch(b)
     \/ RaiseIncident(b)

SpineSpec == SpineInit /\ [][SpineNext]_spineVars
=============================================================================
