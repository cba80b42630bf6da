-------------------------------- MODULE Apps ---------------------------------
(***************************************************************************)
(* The Rider's or the Driver's app over an unreliable network.  A handler  *)
(* sends a command with an idempotency key of its own, then reads a        *)
(* projection, and sets state after each answer; any of it may fail, and a *)
(* command whose answer was given up on may still be executed.  The        *)
(* handlers and screens are those of RiderScreen and DriverScreen; the API *)
(* is what Booking, Dispatch, Journey and Payment show of it, as far as    *)
(* the screens can tell.                                                   *)
(*                                                                         *)
(* One app is looked at in a behaviour.  The other party is anybody who    *)
(* may send the other party's commands, at any time.                       *)
(***************************************************************************)
EXTENDS Naturals, FiniteSets

CONSTANTS
  Bookings, Nil,
  Slots,         \* bound: room for handlers of the app under way or still executing
  MaxJobs        \* bound: Bookings that the Driver is assigned to in a behaviour

ASSUME AppsConstants ==
  /\ Nil \notin Bookings
  /\ MaxJobs \in Nat

VARIABLES
  status,        \* booking.booking.status, up to the assignment
  agreed,        \* the quote a Booking was confirmed with
  journey,       \* journey.journey.status
  signals,       \* Bookings whose Journey has a persisted Safety signal
  assigned,      \* the Booking of the Driver's ACTIVE assignment
  availability,  \* driver.availability_state.status
  offers,        \* the Driver's OFFERED offers
  app,           \* the app that is looked at
  screen,        \* what it shows and remembers
  calls,         \* its handlers under way
  busy           \* its busy flag

INSTANCE RiderScreen
INSTANCE DriverScreen

bookingRows == <<status, agreed>>
journeyRows == <<journey, signals>>
driverRows == <<assigned, availability, offers>>
api == <<bookingRows, journeyRows, driverRows>>
appsVars == <<api, app, screen, calls, busy>>

\* The orders of the statuses a screen may be behind in.
BookingOrder ==
  [ABSENT |-> 0, NONE |-> 0, DRAFT |-> 1, AWAITING_CONFIRMATION |-> 2, READY_FOR_DISPATCH |-> 3,
   NO_ELIGIBLE_DRIVER |-> 4, SEARCHING_FOR_DRIVER |-> 4, DRIVER_ASSIGNED |-> 5,
   ACTIVE_INCIDENT |-> 6]

JourneyOrder ==
  [NONE |-> 0, EN_ROUTE |-> 1, ARRIVED |-> 2, AWAITING_RIDECHECK |-> 3,
   PASSENGER_VERIFIED |-> 4, IN_PROGRESS |-> 5, ARRIVING |-> 6, COMPLETED |-> 7]

NoAnswer ==
  [booking |-> Nil, status |-> "NONE", journey |-> "NONE", availability |-> "NONE", offers |-> {}]
Phases == {"sent", "orphaned", "answered", "read", "failed"}

AppsTypeOK ==
  /\ status \in [Bookings -> DOMAIN BookingOrder]
  /\ agreed \in [Bookings -> Bookings \cup {Nil}]
  /\ journey \in [Bookings -> DOMAIN JourneyOrder]
  /\ signals \in SUBSET Bookings
  /\ assigned \in Bookings \cup {Nil}
  /\ availability \in {"OFFLINE", "AVAILABLE", "BREAK", "ASSIGNED"}
  /\ offers \in SUBSET Bookings
  /\ app \in {"rider", "driver"}
  /\ \A c \in calls : c.slot \in Slots /\ c.phase \in Phases
  /\ busy \in BOOLEAN

\* A Rider's app starts without a Booking, a Driver's app with the confirmed
\* Bookings of others.
AppsInit ==
  /\ app \in {"rider", "driver"}
  /\ \E confirmed \in SUBSET Bookings :
       /\ Cardinality(confirmed) = IF app = "rider" THEN 0 ELSE MaxJobs
       /\ status = [b \in Bookings |-> IF b \in confirmed THEN "READY_FOR_DISPATCH" ELSE "ABSENT"]
       /\ agreed = [b \in Bookings |-> IF b \in confirmed THEN b ELSE Nil]
  /\ availability \in IF app = "rider" THEN {"OFFLINE", "AVAILABLE"} ELSE {"OFFLINE"}
  /\ journey = [b \in Bookings |-> "NONE"]
  /\ signals = {}
  /\ assigned = Nil
  /\ offers = {}
  /\ screen = IF app = "rider" THEN RiderStart ELSE DriverStart
  /\ calls = {}
  /\ busy = FALSE

-----------------------------------------------------------------------------
(* The API: what one command does.  Its guards, keys and rows are those of  *)
(* Booking, Dispatch, Journey and Payment; a key that is used once never    *)
(* finds an earlier answer.                                                 *)

\* createRiderBooking: every key makes a Booking.
CreateRiderBooking(c, b) ==
  /\ c.op = "createBookingDraft"
  /\ status[b] = "ABSENT"
  /\ status' = [status EXCEPT ![b] = "DRAFT"]
  /\ UNCHANGED <<agreed, journeyRows, driverRows>>

QuoteRiderBooking(c, b) ==
  /\ c.op = "requestQuote" /\ b = c.booking
  /\ status[b] = "DRAFT"
  /\ status' = [status EXCEPT ![b] = "AWAITING_CONFIRMATION"]
  /\ UNCHANGED <<agreed, journeyRows, driverRows>>

\* Faulty variant: the quote is found by its id alone, and the status that is
\* looked at is that of its Booking.
ConfirmByQuoteAlone(c, b) ==
  /\ c.op = "confirmQuote" /\ b = c.booking
  /\ status[c.arg] = "AWAITING_CONFIRMATION"
  /\ status' = [status EXCEPT ![b] = "READY_FOR_DISPATCH"]
  /\ agreed' = [agreed EXCEPT ![b] = c.arg]
  /\ UNCHANGED <<journeyRows, driverRows>>

\* The quote that the screen held must be one of the Booking that it held.  A
\* Booking has one quote, which is named by its Booking.
ConfirmRiderBooking(c, b) ==
  /\ c.op = "confirmQuote" /\ b = c.booking
  /\ status[b] = "AWAITING_CONFIRMATION" /\ c.arg = b
  /\ status' = [status EXCEPT ![b] = "READY_FOR_DISPATCH"]
  /\ agreed' = [agreed EXCEPT ![b] = c.arg]
  /\ UNCHANGED <<journeyRows, driverRows>>

\* The search of a Booking, with the Driver as the only candidate.
StartBookingDispatch(c, b) ==
  /\ c.op = "beginDispatch" /\ b = c.booking
  /\ status[b] = "READY_FOR_DISPATCH"
  /\ IF availability = "AVAILABLE"
     THEN /\ status' = [status EXCEPT ![b] = "SEARCHING_FOR_DRIVER"]
          /\ offers' = offers \cup {b}
     ELSE /\ status' = [status EXCEPT ![b] = "NO_ELIGIBLE_DRIVER"]
          /\ UNCHANGED offers
  /\ UNCHANGED <<agreed, journeyRows, assigned, availability>>

SetDriverAvailability(c, b) ==
  /\ b = Nil
  /\ \/ c.op = "changeWorkIntent" /\ c.arg = "AVAILABLE" /\ availability # "ASSIGNED"
        /\ UNCHANGED offers
     \/ c.op = "goOffline" /\ c.arg = "OFFLINE" /\ availability # "ASSIGNED" /\ offers' = {}
  /\ availability' = c.arg
  /\ UNCHANGED <<bookingRows, journeyRows, assigned>>

\* The Driver has to be working and without an assignment.
AcceptDriverOffer(c, b) ==
  /\ c.op = "accept" /\ b = c.booking
  /\ b \in offers /\ availability = "AVAILABLE" /\ assigned = Nil
  /\ Cardinality({x \in Bookings : BookingOrder[status[x]] >= 5}) < MaxJobs
  /\ status' = [status EXCEPT ![b] = "DRIVER_ASSIGNED"]
  /\ offers' = offers \ {b}
  /\ assigned' = b
  /\ availability' = "ASSIGNED"
  /\ UNCHANGED <<agreed, journeyRows>>

DeclineDriverOffer(c, b) ==
  /\ c.op = "decline" /\ b = c.booking /\ b \in offers
  /\ offers' = offers \ {b}
  /\ UNCHANGED <<bookingRows, journeyRows, assigned, availability>>

\* The commands of a Journey that move it one status on.
JourneySteps ==
  { <<"acknowledge", "NONE", "EN_ROUTE">>, <<"arrive", "EN_ROUTE", "ARRIVED">>,
    <<"createRideCheck", "ARRIVED", "AWAITING_RIDECHECK">>,
    <<"verifyRideCheck", "AWAITING_RIDECHECK", "PASSENGER_VERIFIED">>,
    <<"startProtectedJourney", "PASSENGER_VERIFIED", "IN_PROGRESS">>,
    <<"markDestinationApproach", "IN_PROGRESS", "ARRIVING">> }

\* The passenger's command does not look at the assignment.  A RideCheck is
\* answered with the right PIN; a wrong one moves nothing.
StepJourney(c, b) ==
  /\ b = c.booking
  /\ \E s \in JourneySteps :
       /\ s[1] = c.op /\ s[2] = journey[b]
       /\ journey' = [journey EXCEPT ![b] = s[3]]
  /\ c.op # "createRideCheck" => assigned = b
  /\ UNCHANGED <<bookingRows, signals, driverRows>>

CompleteJourney(c, b) ==
  /\ c.op = "finishJourney" /\ b = c.booking
  /\ assigned = b /\ journey[b] = "ARRIVING"
  /\ journey' = [journey EXCEPT ![b] = "COMPLETED"]
  /\ assigned' = Nil
  /\ availability' = "AVAILABLE"
  /\ UNCHANGED <<bookingRows, signals, offers>>

\* Safety signals of either party and the unsafe end of the Journey.
CreateSafetySignal(c, b) ==
  /\ c.op \in {"sendSos", "signalSafety"} /\ b = c.booking
  /\ journey[b] \in {"IN_PROGRESS", "ARRIVING"}
  /\ signals' = signals \cup {b}
  /\ UNCHANGED <<bookingRows, journey, driverRows>>

SafelyTerminateUnsafeJourney(c, b) ==
  /\ c.op = "terminateUnsafe" /\ b = c.booking
  /\ assigned = b
  /\ signals' = signals \cup {b}
  /\ status' = [status EXCEPT ![b] = "ACTIVE_INCIDENT"]
  /\ assigned' = Nil
  /\ availability' = "BREAK"
  /\ UNCHANGED <<agreed, journey, offers>>

\* reconcileDriverConnectivity records what was observed and changes no state
\* of the Driver.
ReconcileDriverConnectivity(c, b) ==
  c.op = "reconcileAuthoritativeState" /\ b = Nil /\ UNCHANGED api

CommandOfBooking(c, b) ==
  \/ CreateRiderBooking(c, b) \/ QuoteRiderBooking(c, b) \/ ConfirmRiderBooking(c, b)
  \/ StartBookingDispatch(c, b) \/ AcceptDriverOffer(c, b) \/ DeclineDriverOffer(c, b)
  \/ StepJourney(c, b) \/ CompleteJourney(c, b)
  \/ CreateSafetySignal(c, b) \/ SafelyTerminateUnsafeJourney(c, b)

Command(c, b) ==
  \/ b \in Bookings /\ CommandOfBooking(c, b)
  \/ SetDriverAvailability(c, b) \/ ReconcileDriverConnectivity(c, b)

\* listDriverOffers closes what has expired; nothing else does.
OfferExpires(b) ==
  /\ b \in offers
  /\ offers' = offers \ {b}
  /\ UNCHANGED <<bookingRows, journeyRows, assigned, availability, app, screen, calls, busy>>

-----------------------------------------------------------------------------
(* run(action), its handlers and the network. *)

\* What the other party sends, except what this app can neither show nor miss.
RiderCommands == {"beginDispatch", "createRideCheck"}
DriverCommands == {"accept", "acknowledge", "arrive", "verifyRideCheck", "startProtectedJourney",
                   "markDestinationApproach", "finishJourney", "terminateUnsafe"}

OtherParty ==
  /\ \E op \in IF app = "rider" THEN DriverCommands ELSE RiderCommands, b \in Bookings :
       CommandOfBooking([op |-> op, booking |-> b, arg |-> Nil], b)
  /\ UNCHANGED <<app, screen, calls, busy>>

Buttons == IF app = "rider" THEN RiderButtons(screen, busy) ELSE DriverButtons(screen, busy)
ReadsOnly == RiderReadsOnly \cup DriverReadsOnly
ReadsAfter == RiderReadsAfter \cup DriverReadsAfter

Shown(command, c) ==
  IF app = "rider"
  THEN IF command THEN RiderAfterCommand(screen, c) ELSE RiderAfterRead(screen, c)
  ELSE IF command THEN DriverAfterCommand(screen, c) ELSE DriverAfterRead(screen, c)

\* The projection that a handler reads, as it is when the API reads it.  A
\* Booking's Dispatch shows whether it has a Driver, whom the end of the Journey
\* takes away.
Projection(c) ==
  CASE c.op \in {"beginDispatch", "refreshDispatch"} ->
         [NoAnswer EXCEPT !.status = status[c.booking], !.journey = journey[c.booking]]
    [] c.op = "refreshOffers" -> [NoAnswer EXCEPT !.offers = offers]
    [] c.op = "refreshDailyOperationsTruth" -> [NoAnswer EXCEPT !.availability = availability]
    [] c.op \in DriverDailyReads \cup {"refreshCommunications"} -> NoAnswer
    [] OTHER -> [NoAnswer EXCEPT !.journey = journey[c.booking]]

\* A read is answered with what the API holds when it is asked; the answer may
\* be late.  There is no Journey to read before there is one.
Ask(c) ==
  IF c.op = "refreshJourney" /\ journey[c.booking] = "NONE"
  THEN [c EXCEPT !.phase = "failed", !.answer = NoAnswer]
  ELSE [c EXCEPT !.phase = "read", !.answer = Projection(c)]

\* A button is pressed: busy is set, and the handler's first request is sent.
Press(p) ==
  \E slot \in Slots \ {c.slot : c \in calls} :
  LET c == [slot |-> slot, op |-> p[1], booking |-> p[2], arg |-> p[3],
            phase |-> "sent", answer |-> NoAnswer]
  IN /\ calls' = calls \cup {IF c.op \in ReadsOnly THEN Ask(c) ELSE c}
     /\ busy' = TRUE
     /\ UNCHANGED <<api, app, screen>>

Replace(c, d) == calls' = (calls \ {c}) \cup {d}

\* The API executes a command.  The call may have been given up on meanwhile.
Execute(c) ==
  /\ c.phase \in {"sent", "orphaned"}
  /\ \E b \in Bookings \cup {Nil} :
       /\ Command(c, b)
       /\ LET answer == IF b = Nil THEN [NoAnswer EXCEPT !.availability = availability']
                        ELSE [NoAnswer EXCEPT !.booking = b, !.status = status'[b]]
          IN IF c.phase = "sent" THEN Replace(c, [c EXCEPT !.phase = "answered", !.answer = answer])
                                 ELSE calls' = calls \ {c}
  /\ UNCHANGED <<app, screen, busy>>

\* finally { setBusy(false) }: the flag does not count the handlers.
Finish(c) == calls' = calls \ {c} /\ busy' = FALSE

\* The answer of the command arrives; the handler goes on to its read or ends.
ShowAnswer(c) ==
  /\ c.phase = "answered"
  /\ screen' = Shown(TRUE, c)
  /\ IF c.op \in ReadsAfter THEN Replace(c, Ask(c)) /\ UNCHANGED busy ELSE Finish(c)
  /\ UNCHANGED <<api, app>>

ShowRead(c) ==
  /\ c.phase = "read"
  /\ screen' = Shown(FALSE, c)
  /\ Finish(c)
  /\ UNCHANGED <<api, app>>

\* Faulty variant: an accepted offer is shown whatever was answered.
Fail_ShownAsAccepted(c) ==
  /\ c.phase # "orphaned"
  /\ screen' = IF c.op = "accept" THEN [screen EXCEPT !.assigned = c.booking] ELSE screen
  /\ Finish(c)
  /\ UNCHANGED <<api, app>>

\* A refusal, an error or a lost answer.
Fail(c) ==
  /\ c.phase # "orphaned"
  /\ Finish(c)
  /\ UNCHANGED <<api, app, screen>>

\* The connection breaks before the command arrives, and it may arrive yet.
GiveUp(c) ==
  /\ c.phase = "sent"
  /\ Replace(c, [c EXCEPT !.phase = "orphaned"])
  /\ busy' = FALSE
  /\ UNCHANGED <<api, app, screen>>

Settle(c) == Execute(c) \/ ShowAnswer(c) \/ ShowRead(c) \/ Fail(c) \/ GiveUp(c)

AppsNext ==
  \/ \E p \in Buttons : Press(p)
  \/ \E c \in calls : Settle(c)
  \/ \E b \in Bookings : OfferExpires(b)
  \/ OtherParty

AppsSpec == AppsInit /\ [][AppsNext]_appsVars

-----------------------------------------------------------------------------
(* Properties. *)

\* Whatever was pressed twice, lost or answered late, a Booking is confirmed
\* with a quote of its own; a late answer of createBookingDraft can leave the
\* screen with one Booking and the quote of another.
ConfirmedWithOwnQuote ==
  \A b \in Bookings : BookingOrder[status[b]] >= 3 => agreed[b] = b

\* A screen may be behind the API and never ahead of it, although answers come
\* late and in any order; "SOS persisted" and "Safety case persisted" are shown of
\* persisted ones only.
ScreenIsNeverAhead ==
  /\ screen.journey.booking # Nil =>
       JourneyOrder[screen.journey.status] <= JourneyOrder[journey[screen.journey.booking]]
  /\ app = "rider" /\ screen.booking # Nil =>
       BookingOrder[screen.status] <= BookingOrder[status[screen.booking]]
  /\ app = "driver" /\ screen.assigned # Nil =>
       BookingOrder[status[screen.assigned]] >= 5
  /\ screen.notice \subseteq signals

=============================================================================
