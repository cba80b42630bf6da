----------------------------- MODULE DriverScreen ----------------------------
(***************************************************************************)
(* apps/driver/App.tsx on DRIVER_HOME: what the screen remembers, which    *)
(* buttons it offers, and what an answer of the API does to it.  The same  *)
(* form as RiderScreen; a press is <<handler, Booking, work intent>>.      *)
(***************************************************************************)
CONSTANT Nil

DriverNoJourney == [booking |-> Nil, status |-> "NONE"]

\* useState: availability, offers, assignment, journey and safetyStatus.  What
\* dailyOperations holds is shown beside them and decides nothing.
\* FINISHING_SOON is AVAILABLE here: its offers and assignment are the same.
DriverStart ==
  [availability |-> "OFFLINE", offers |-> {}, assigned |-> Nil,
   journey |-> DriverNoJourney, notice |-> {}]

\* The row of go online and go offline and the row of the work intents, all
\* SecondaryButtons.
DriverIntentButtons(s) ==
  {<<"changeWorkIntent", Nil, to>> : to \in
     IF s.availability = "OFFLINE" THEN {"AVAILABLE"}
     ELSE IF s.availability = "ASSIGNED" THEN {}
     ELSE {"BREAK", "AVAILABLE"} \ {s.availability}}
  \cup {<<"goOffline", Nil, "OFFLINE">> : x \in {s.availability} \ {"OFFLINE", "ASSIGNED"}}
  \cup {<<"refreshDailyOperationsTruth", Nil, Nil>>, <<"reconcileAuthoritativeState", Nil, Nil>>}

\* An offer is accepted with a PrimaryButton and declined with a SecondaryButton.
DriverOfferButtons(s, busy) ==
  {<<"decline", b, Nil>> : b \in s.offers}
  \cup IF busy THEN {} ELSE {<<"refreshOffers", Nil, Nil>>}
                            \cup {<<"accept", b, Nil>> : b \in s.offers}

\* The commands of a Journey by its status, all disabled while busy.
JourneyCommands(status) ==
  CASE status = "EN_ROUTE" -> {"arrive"}
    [] status = "AWAITING_RIDECHECK" -> {"verifyRideCheck"}
    [] status = "PASSENGER_VERIFIED" -> {"startProtectedJourney"}
    [] status = "IN_PROGRESS" -> {"sendSos", "terminateUnsafe", "markDestinationApproach"}
    [] status = "ARRIVING" -> {"sendSos", "terminateUnsafe", "finishJourney"}
    [] OTHER -> {}

\* The section that is shown with an assignment.
DriverJourneyButtons(s, busy) ==
  IF s.assigned = Nil THEN {}
  ELSE IF s.journey = DriverNoJourney
    THEN IF busy THEN {} ELSE {<<"acknowledge", s.assigned, Nil>>}
  ELSE {<<"refreshJourney", s.journey.booking, Nil>>}
       \cup IF busy THEN {}
            ELSE {<<op, s.journey.booking, Nil>> : op \in JourneyCommands(s.journey.status)}

DriverButtons(s, busy) ==
  DriverIntentButtons(s) \cup DriverOfferButtons(s, busy) \cup DriverJourneyButtons(s, busy)

-----------------------------------------------------------------------------
(* Answers. *)

\* The refreshing handlers send no command.  Those of earnings, support cases,
\* communications and telephony change nothing that is modelled here.
DriverReadsOnly == {"refreshDailyOperationsTruth", "refreshOffers", "refreshJourney"}

\* Commands that are followed by the read of a projection that is modelled.
DriverDailyReads == {"refreshDailyOperationsTruth", "reconcileAuthoritativeState",
                     "changeWorkIntent", "goOffline"}

DriverReadsAfter ==
  (DriverDailyReads \ DriverReadsOnly)
  \cup {"acknowledge", "arrive", "verifyRideCheck", "startProtectedJourney", "sendSos",
        "markDestinationApproach", "finishJourney"}

\* What is set between the command's answer and the next await.
DriverAfterCommand(s, c) ==
  CASE c.op = "changeWorkIntent" -> [s EXCEPT !.availability = c.answer.availability]
    [] c.op = "goOffline" -> [s EXCEPT !.availability = c.answer.availability, !.offers = {}]
    [] c.op = "accept" ->
         [s EXCEPT !.assigned = c.answer.booking, !.availability = "ASSIGNED", !.offers = {}]
    [] c.op = "decline" -> [s EXCEPT !.offers = @ \ {c.booking}]
    [] c.op = "sendSos" -> [s EXCEPT !.notice = @ \cup {c.booking}]
    [] c.op = "terminateUnsafe" ->
         [s EXCEPT !.availability = "BREAK", !.notice = @ \cup {c.booking}]
    [] c.op = "finishJourney" -> [s EXCEPT !.availability = "AVAILABLE"]
    [] OTHER -> s

\* What is set when the projection has been read.  Only the refresh sets the
\* availability of the screen from the daily operations.
DriverAfterRead(s, c) ==
  CASE c.op = "refreshDailyOperationsTruth" -> [s EXCEPT !.availability = c.answer.availability]
    [] c.op \in DriverDailyReads -> s
    [] c.op = "refreshOffers" -> [s EXCEPT !.offers = c.answer.offers]
    [] OTHER -> [s EXCEPT !.journey = [booking |-> c.booking, status |-> c.answer.journey]]
=============================================================================
