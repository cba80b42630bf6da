----------------------------- MODULE RiderScreen -----------------------------
(***************************************************************************)
(* apps/rider/App.tsx after the contact is verified: what the screen       *)
(* remembers, which buttons it offers, and what an answer of the API does  *)
(* to it.  The screen is a value; Apps.tla owns the variable that holds it *)
(* and the calls under way.                                                *)
(*                                                                         *)
(* A press is <<handler, Booking, quote>>: a handler closes over the state *)
(* of the render it was pressed on, and keeps these values across every    *)
(* await.                                                                  *)
(***************************************************************************)


CONSTANT Nil


NoJourney == [booking |-> Nil, status |-> "NONE"]

\* useState: flow, booking, quote, dispatch, journey and journeyNotice,
\* where a session starts.
RiderStart ==
  [flow |-> "BOOK", booking |-> Nil, status |-> "NONE", quote |-> Nil,
   dispatch |-> "NONE", journey |-> NoJourney, notice |-> {}]

When(condition, presses) == IF condition THEN presses ELSE {}

\* The sections of the Booking, which hold PrimaryButtons only.
RiderBookingButtons(s) ==
  When(s.flow = "BOOK", {<<"createBookingDraft", Nil, Nil>>})
  \cup When(s.flow = "QUOTE" /\ s.booking # Nil,
            IF s.quote = Nil THEN {<<"requestQuote", s.booking, Nil>>}
                              ELSE {<<"confirmQuote", s.booking, s.quote>>})
  \cup When(s.flow = "READY" /\ s.booking # Nil,
            IF s.dispatch = "NONE" THEN {<<"beginDispatch", s.booking, Nil>>}
                                   ELSE {<<"refreshDispatch", s.booking, Nil>>})

\* The section of the Dispatch: its PrimaryButtons.
RiderJourneyButtons(s) ==
  When(s.flow = "READY" /\ s.dispatch # "NONE",
    When(s.dispatch = "ASSIGNED", {<<"refreshJourney", s.booking, Nil>>})
    \cup When(s.journey.status = "ARRIVED", {<<"createRideCheck", s.journey.booking, Nil>>}))

\* SecondaryButtons do not look at busy.
RiderFreeButtons(s) ==
  {<<"refreshCommunications", Nil, Nil>>}
  \cup When(s.flow = "READY" /\ s.journey.status \in {"IN_PROGRESS", "ARRIVING"},
            {<<"signalSafety", s.journey.booking, Nil>>})

RiderButtons(s, busy) ==
  RiderFreeButtons(s)
  \cup When(~busy, RiderBookingButtons(s) \cup RiderJourneyButtons(s))

-----------------------------------------------------------------------------
(* Answers.  c is the call, with what was captured and what was answered. *)

\* The refreshing handlers send no command.  refreshCommunications stands for
\* every refresh that changes nothing modelled here.
RiderReadsOnly == {"refreshDispatch", "refreshJourney", "refreshCommunications"}

\* Commands that are followed by the read of a projection.
RiderReadsAfter == {"beginDispatch", "createRideCheck", "signalSafety"}

\* What is set between the command's answer and the next await.
RiderAfterCommand(s, c) ==
  CASE c.op = "createBookingDraft" ->
         [s EXCEPT !.booking = c.answer.booking, !.status = c.answer.status, !.flow = "QUOTE"]
    [] c.op = "requestQuote" ->
         [s EXCEPT !.booking = c.answer.booking, !.status = c.answer.status,
                   !.quote = c.answer.booking]
    [] c.op = "confirmQuote" ->
         [s EXCEPT !.booking = c.answer.booking, !.status = c.answer.status, !.flow = "READY"]
    [] c.op = "beginDispatch" ->
         [s EXCEPT !.booking = c.booking, !.status = c.answer.status]
    [] c.op = "signalSafety" -> [s EXCEPT !.notice = @ \cup {c.booking}]
    [] OTHER -> s

\* driverAssigned of the projection: the latest attempt has an ACTIVE assignment,
\* which the end of the Journey and an incident end.
DispatchShown(answer) ==
  IF answer.status = "DRIVER_ASSIGNED" /\ answer.journey # "COMPLETED" THEN "ASSIGNED" ELSE "SHOWN"

\* What is set when the projection has been read.
RiderAfterRead(s, c) ==
  CASE c.op = "beginDispatch" -> [s EXCEPT !.dispatch = DispatchShown(c.answer)]
    [] c.op = "refreshDispatch" ->
         [s EXCEPT !.dispatch = DispatchShown(c.answer), !.booking = c.booking,
                   !.status = c.answer.status]
    [] c.op \in {"refreshJourney", "createRideCheck", "signalSafety"} ->
         [s EXCEPT !.journey = [booking |-> c.booking, status |-> c.answer.journey]]
    [] OTHER -> s
=============================================================================
