------------------------------ MODULE Booking ------------------------------
(***************************************************************************)
(* The Rider booking workflow of modules/booking/booking-service.ts:       *)
(* create, quote and confirm.  Quote and confirm are not one transaction:  *)
(* each handler reads the Booking outside a transaction and then runs      *)
(* three or four short transactions, any of which may be the last one that *)
(* happens.  A worker is one in-flight HTTP request; its program counter   *)
(* names the transaction it runs next.                                     *)
(***************************************************************************)
EXTENDS Naturals

CONSTANTS Bookings,  \* ids of booking.booking
          Quotes,    \* ids of pricing.quote
          Keys,      \* values of the Idempotency-Key header
          Workers,   \* requests in flight at the same time
          KeyScope,  \* KeyScope[b]: the keys clients send with b's commands
          None

ASSUME NoneAssumption ==
  /\ None \notin Bookings
  /\ None \notin Quotes
  /\ None \notin Keys

ASSUME KeyScopeAssumption == KeyScope \in [Bookings -> SUBSET Keys]

VARIABLES
  status,        \* booking.booking.status, "ABSENT" before the INSERT
  version,       \* booking.booking.aggregate_version
  upcoming,      \* booking.scheduled_for is later than the clock
  quoteStatus,   \* pricing.quote.status, "ABSENT" before the INSERT
  quoteBooking,  \* pricing.quote.booking_id
  lapsed,        \* pricing.quote.expires_at is not later than the clock
  agreement,     \* pricing.fare_agreement: the quote agreed for a Booking
  createKey,     \* pricing dedup, CreateBookingQuote: the recorded quoteId
  acceptKey,     \* pricing dedup, AcceptBookingQuote: the agreement's Booking
  commandKey,    \* booking dedup, per command type: the Booking of the row
  pc,            \* the next transaction of each worker
  target, key,   \* the request's bookingId and idempotency key
  chosen,        \* quote: the quoteId to answer; confirm: the requested quoteId
  scanned,       \* the rows the superseding UPDATE found in its snapshot
  nextStatus     \* the readiness classification computed from Date.now()

bookingRow == <<status, version, upcoming>>
pricingRows == <<quoteStatus, quoteBooking, lapsed, agreement, createKey, acceptKey>>
workerVars == <<pc, target, key, chosen, scanned, nextStatus>>
vars == <<bookingRow, pricingRows, commandKey, workerVars>>

Spine == INSTANCE BookingSpine

CommandTypes == {"CreateRiderBooking", "QuoteRiderBooking", "ConfirmRiderBooking"}
QuoteStatuses == {"ABSENT", "OFFERED", "ACCEPTED", "SUPERSEDED"}
BookingStatuses == {"ABSENT", "DRAFT", "QUOTE_CREATED", "AWAITING_CONFIRMATION",
                    "CONFIRMED", "SCHEDULED", "READY_FOR_DISPATCH"}
QuoteSteps == {"price", "persist", "markQuoted", "markPresented", "recordQuote"}
ConfirmSteps == {"accept", "markConfirmed", "classify", "recordConfirm"}
Steps == {"idle"} \cup QuoteSteps \cup ConfirmSteps

TypeOK ==
  /\ status \in [Bookings -> BookingStatuses]
  /\ version \in [Bookings -> Nat]
  /\ upcoming \in [Bookings -> BOOLEAN]
  /\ quoteStatus \in [Quotes -> QuoteStatuses]
  /\ quoteBooking \in [Quotes -> Bookings \cup {None}]
  /\ lapsed \in [Quotes -> BOOLEAN]
  /\ agreement \in [Bookings -> Quotes \cup {None}]
  /\ createKey \in [Keys -> Quotes \cup {None}]
  /\ acceptKey \in [Keys -> Bookings \cup {None}]
  /\ commandKey \in [CommandTypes -> [Keys -> Bookings \cup {None}]]
  /\ pc \in [Workers -> Steps]
  /\ target \in [Workers -> Bookings \cup {None}]
  /\ key \in [Workers -> Keys \cup {None}]
  /\ chosen \in [Workers -> Quotes \cup {None}]
  /\ scanned \in [Workers -> SUBSET Quotes]
  /\ nextStatus \in [Workers -> {"SCHEDULED", "READY_FOR_DISPATCH"}]

Init ==
  /\ status = [b \in Bookings |-> "ABSENT"]
  /\ version = [b \in Bookings |-> 0]
  /\ upcoming = [b \in Bookings |-> FALSE]
  /\ quoteStatus = [q \in Quotes |-> "ABSENT"]
  /\ quoteBooking = [q \in Quotes |-> None]
  /\ lapsed = [q \in Quotes |-> FALSE]
  /\ agreement = [b \in Bookings |-> None]
  /\ createKey = [k \in Keys |-> None]
  /\ acceptKey = [k \in Keys |-> None]
  /\ commandKey = [t \in CommandTypes |-> [k \in Keys |-> None]]
  /\ pc = [w \in Workers |-> "idle"]
  /\ target = [w \in Workers |-> None]
  /\ key = [w \in Workers |-> None]
  /\ chosen = [w \in Workers |-> None]
  /\ scanned = [w \in Workers |-> {}]
  /\ nextStatus = [w \in Workers |-> "READY_FOR_DISPATCH"]

-----------------------------------------------------------------------------
(* Worker bookkeeping. *)

Goto(w, step) == pc' = [pc EXCEPT ![w] = step]

\* The request is answered, or dies: everything it held in memory is gone.
Release(w) ==
  /\ Goto(w, "idle")
  /\ target' = [target EXCEPT ![w] = None]
  /\ key' = [key EXCEPT ![w] = None]
  /\ chosen' = [chosen EXCEPT ![w] = None]
  /\ scanned' = [scanned EXCEPT ![w] = {}]
  /\ nextStatus' = [nextStatus EXCEPT ![w] = "READY_FOR_DISPATCH"]

\* A row of booking.command_deduplication, INSERT ... ON CONFLICT DO NOTHING.
Deduplicate(type, w) ==
  commandKey' = IF commandKey[type][key[w]] = None
                THEN [commandKey EXCEPT ![type][key[w]] = target[w]]
                ELSE commandKey

\* Faulty variant: the locked row's status is not compared with expectedFrom.
TransitionWithoutExpectedFrom(b, expectedFrom, to) ==
  /\ status' = [status EXCEPT ![b] = to]
  /\ version' = [version EXCEPT ![b] = @ + 1]
  /\ UNCHANGED <<upcoming, pricingRows, commandKey>>

\* transitionBooking: one transaction that locks the row, requires the expected
\* status and moves it one step on with the next version.
TransitionBooking(b, expectedFrom, to) ==
  /\ Spine!CanUseCanonicalForwardTransition(expectedFrom, to)
  /\ status[b] = expectedFrom
  /\ status' = [status EXCEPT ![b] = to]
  /\ version' = [version EXCEPT ![b] = @ + 1]
  /\ UNCHANGED <<upcoming, pricingRows, commandKey>>

-----------------------------------------------------------------------------
(* createRiderBooking: one transaction. *)

CreateRiderBooking(b, k, later) ==
  /\ k \in KeyScope[b]
  /\ status[b] = "ABSENT"
  /\ commandKey["CreateRiderBooking"][k] = None
  /\ status' = [status EXCEPT ![b] = "DRAFT"]
  /\ version' = [version EXCEPT ![b] = 1]
  /\ upcoming' = [upcoming EXCEPT ![b] = later]
  /\ commandKey' = [commandKey EXCEPT !["CreateRiderBooking"][k] = b]
  /\ UNCHANGED <<pricingRows, workerVars>>

-----------------------------------------------------------------------------
(* quoteRiderBooking. *)

\* The unlocked read: no stored answer for this key and Booking, and DRAFT.
\* A stored answer or another status ends the request without an effect.
QuoteRiderBooking(w, b, k) ==
  /\ pc[w] = "idle"
  /\ k \in KeyScope[b]
  /\ commandKey["QuoteRiderBooking"][k] # b
  /\ status[b] = "DRAFT"
  /\ Goto(w, "price")
  /\ target' = [target EXCEPT ![w] = b]
  /\ key' = [key EXCEPT ![w] = k]
  /\ UNCHANGED <<bookingRow, pricingRows, commandKey, chosen, scanned, nextStatus>>

\* persistQuote finds the key already recorded: it answers the recorded quote.
PersistQuoteReplay(w) ==
  /\ pc[w] = "price"
  /\ createKey[key[w]] # None
  /\ chosen' = [chosen EXCEPT ![w] = createKey[key[w]]]
  /\ Goto(w, "markQuoted")
  /\ UNCHANGED <<bookingRow, pricingRows, commandKey, target, key, scanned, nextStatus>>

\* Otherwise the UPDATE takes its snapshot of the OFFERED quotes.
PersistQuoteScan(w) ==
  /\ pc[w] = "price"
  /\ createKey[key[w]] = None
  /\ scanned' = [scanned EXCEPT ![w] =
       {q \in Quotes : quoteStatus[q] = "OFFERED" /\ quoteBooking[q] = target[w]}]
  /\ Goto(w, "persist")
  /\ UNCHANGED <<bookingRow, pricingRows, commandKey, target, key, chosen, nextStatus>>

\* Faulty variant: the UPDATE does not re-test the status of the rows it found.
SupersededUnconditionally(w, q) == q \in scanned[w]

\* Under READ COMMITTED a row found in the snapshot is re-tested once it is
\* locked; a row inserted since is not seen.
Superseded(w, q) == q \in scanned[w] /\ quoteStatus[q] = "OFFERED"

\* Insert the new quote and commit.  The UNIQUE key of the pricing dedup table
\* refuses a second insert of the same key (the transaction then rolls back).
PersistQuoteCommit(w, q) ==
  /\ pc[w] = "persist"
  /\ createKey[key[w]] = None
  /\ quoteStatus[q] = "ABSENT"
  /\ quoteStatus' = [p \in Quotes |-> IF p = q THEN "OFFERED"
                                      ELSE IF Superseded(w, p) THEN "SUPERSEDED"
                                      ELSE quoteStatus[p]]
  /\ quoteBooking' = [quoteBooking EXCEPT ![q] = target[w]]
  /\ createKey' = [createKey EXCEPT ![key[w]] = q]
  /\ chosen' = [chosen EXCEPT ![w] = q]
  /\ scanned' = [scanned EXCEPT ![w] = {}]
  /\ Goto(w, "markQuoted")
  /\ UNCHANGED <<bookingRow, lapsed, agreement, acceptKey, commandKey, target, key, nextStatus>>

MarkQuoteCreated(w) ==
  /\ pc[w] = "markQuoted"
  /\ TransitionBooking(target[w], "DRAFT", "QUOTE_CREATED")
  /\ Goto(w, "markPresented")
  /\ UNCHANGED <<target, key, chosen, scanned, nextStatus>>

MarkAwaitingConfirmation(w) ==
  /\ pc[w] = "markPresented"
  /\ TransitionBooking(target[w], "QUOTE_CREATED", "AWAITING_CONFIRMATION")
  /\ Goto(w, "recordQuote")
  /\ UNCHANGED <<target, key, chosen, scanned, nextStatus>>

RecordQuoteResponse(w) ==
  /\ pc[w] = "recordQuote"
  /\ Deduplicate("QuoteRiderBooking", w)
  /\ Release(w)
  /\ UNCHANGED <<bookingRow, pricingRows>>

-----------------------------------------------------------------------------
(* confirmRiderBooking. *)

ConfirmRiderBooking(w, b, k, q) ==
  /\ pc[w] = "idle"
  /\ k \in KeyScope[b]
  /\ commandKey["ConfirmRiderBooking"][k] # b
  /\ status[b] = "AWAITING_CONFIRMATION"
  /\ Goto(w, "accept")
  /\ target' = [target EXCEPT ![w] = b]
  /\ key' = [key EXCEPT ![w] = k]
  /\ chosen' = [chosen EXCEPT ![w] = q]
  /\ UNCHANGED <<bookingRow, pricingRows, commandKey, scanned, nextStatus>>

\* Faulty variant: the look-up's empty result is taken for a recorded agreement.
ReplayWithoutRecordedAgreement(w) ==
  /\ pc[w] = "accept"
  /\ Goto(w, "markConfirmed")
  /\ UNCHANGED <<bookingRow, pricingRows, commandKey, target, key, chosen, scanned, nextStatus>>

\* acceptQuote finds the key already recorded and answers that agreement.
AcceptQuoteReplay(w) ==
  /\ pc[w] = "accept"
  /\ acceptKey[key[w]] # None
  /\ Goto(w, "markConfirmed")
  /\ UNCHANGED <<bookingRow, pricingRows, commandKey, target, key, chosen, scanned, nextStatus>>

\* isQuoteUsable.
IsQuoteUsable(q) == quoteStatus[q] = "OFFERED" /\ ~lapsed[q]

\* The quote is selected by id and booking_id.
QuoteOfBooking(w) == quoteBooking[chosen[w]] = target[w]

\* Faulty variant: the dedup row of the acceptance is left out.
AcceptanceNotRecorded(w) == UNCHANGED acceptKey

\* The AcceptBookingQuote row, written in the acceptance's own transaction.
RecordAcceptance(w) == acceptKey' = [acceptKey EXCEPT ![key[w]] = target[w]]

\* acceptQuote: the quote is locked and must be usable; UNIQUE (booking_id)
\* allows one agreement for a Booking.  An unusable quote throws, and the
\* ROLLBACK also takes back the UPDATE to EXPIRED, so no quote becomes EXPIRED.
AcceptQuote(w) ==
  /\ pc[w] = "accept"
  /\ acceptKey[key[w]] = None
  /\ QuoteOfBooking(w)
  /\ IsQuoteUsable(chosen[w])
  /\ agreement[target[w]] = None
  /\ agreement' = [agreement EXCEPT ![target[w]] = chosen[w]]
  /\ quoteStatus' = [quoteStatus EXCEPT ![chosen[w]] = "ACCEPTED"]
  /\ RecordAcceptance(w)
  /\ Goto(w, "markConfirmed")
  /\ UNCHANGED <<bookingRow, quoteBooking, lapsed, createKey, commandKey,
                 target, key, chosen, scanned, nextStatus>>

\* After this transaction commits the handler compares scheduledFor with now.
MarkConfirmed(w) ==
  /\ pc[w] = "markConfirmed"
  /\ TransitionBooking(target[w], "AWAITING_CONFIRMATION", "CONFIRMED")
  /\ nextStatus' = [nextStatus EXCEPT ![w] =
       IF upcoming[target[w]] THEN "SCHEDULED" ELSE "READY_FOR_DISPATCH"]
  /\ Goto(w, "classify")
  /\ UNCHANGED <<target, key, chosen, scanned>>

ClassifyReadiness(w) ==
  /\ pc[w] = "classify"
  /\ TransitionBooking(target[w], "CONFIRMED", nextStatus[w])
  /\ Goto(w, "recordConfirm")
  /\ UNCHANGED <<target, key, chosen, scanned, nextStatus>>

RecordConfirmResponse(w) ==
  /\ pc[w] = "recordConfirm"
  /\ Deduplicate("ConfirmRiderBooking", w)
  /\ Release(w)
  /\ UNCHANGED <<bookingRow, pricingRows>>

-----------------------------------------------------------------------------
(* The environment. *)

\* Any in-flight request may end between two transactions: a conflict or an
\* unusable quote throws, a constraint rolls back, the connection or the
\* process is lost.  What was committed stays.
Abandon(w) ==
  /\ pc[w] # "idle"
  /\ Release(w)
  /\ UNCHANGED <<bookingRow, pricingRows, commandKey>>

\* The clock passes a quote's expires_at or a Booking's scheduled_for.
QuoteLapses(q) ==
  /\ quoteStatus[q] # "ABSENT" /\ ~lapsed[q]
  /\ lapsed' = [lapsed EXCEPT ![q] = TRUE]
  /\ UNCHANGED <<bookingRow, quoteStatus, quoteBooking, agreement, createKey,
                 acceptKey, commandKey, workerVars>>

ScheduledTimeArrives(b) ==
  /\ upcoming[b]
  /\ upcoming' = [upcoming EXCEPT ![b] = FALSE]
  /\ UNCHANGED <<status, version, pricingRows, commandKey, workerVars>>

\* The transactions of a request that has been admitted.
WorkerStep(w) ==
  \/ PersistQuoteReplay(w) \/ PersistQuoteScan(w)
  \/ \E q \in Quotes : PersistQuoteCommit(w, q)
  \/ MarkQuoteCreated(w) \/ MarkAwaitingConfirmation(w) \/ RecordQuoteResponse(w)
  \/ AcceptQuoteReplay(w) \/ AcceptQuote(w)
  \/ MarkConfirmed(w) \/ ClassifyReadiness(w) \/ RecordConfirmResponse(w)

Next ==
  \/ \E b \in Bookings, k \in Keys, later \in BOOLEAN : CreateRiderBooking(b, k, later)
  \/ \E w \in Workers, b \in Bookings, k \in Keys : QuoteRiderBooking(w, b, k)
  \/ \E w \in Workers, b \in Bookings, k \in Keys, q \in Quotes :
        ConfirmRiderBooking(w, b, k, q)
  \/ \E w \in Workers : WorkerStep(w) \/ Abandon(w)
  \/ \E q \in Quotes : QuoteLapses(q)
  \/ \E b \in Bookings : ScheduledTimeArrives(b)

Spec == Init /\ [][Next]_vars

-----------------------------------------------------------------------------
(* Properties. *)

\* The statuses a Booking has once the Rider's confirmation has been committed.
Confirmed == {"CONFIRMED", "SCHEDULED", "READY_FOR_DISPATCH"}

\* Clients never send one key for two Bookings.
DistinctKeys == \A b, c \in Bookings : b # c => KeyScope[b] \cap KeyScope[c] = {}

\* A Booking that confirmRiderBooking has moved on has a fare agreement of its
\* own: for a quote of this Booking, and that quote is ACCEPTED.  acceptQuote and
\* the status change are separate transactions, and acceptQuote looks its key up
\* without the Booking, so this needs the keys of two Bookings to be distinct.
ConfirmedHasOwnAgreement ==
  \A b \in Bookings : status[b] \in Confirmed =>
    /\ agreement[b] \in Quotes
    /\ quoteBooking[agreement[b]] = b
    /\ quoteStatus[agreement[b]] = "ACCEPTED"

\* A Booking shown to the Rider for confirmation has a quote of its own
\* (persistQuote commits before the status leaves DRAFT).
PresentedHasOwnQuote ==
  \A b \in Bookings : status[b] \in {"QUOTE_CREATED", "AWAITING_CONFIRMATION"} =>
    \E q \in Quotes : quoteBooking[q] = b /\ quoteStatus[q] # "ABSENT"

\* A crash after acceptQuote and before the status change can be repaired: some
\* key passes both dedup look-ups of confirmRiderBooking and leads past acceptQuote.
AcceptedBookingIsResumable ==
  \A b \in Bookings : (status[b] = "AWAITING_CONFIRMATION" /\ agreement[b] # None) =>
    \E k \in KeyScope[b] : acceptKey[k] # None /\ commandKey["ConfirmRiderBooking"][k] # b

\* A late persistQuote of another request never takes back an accepted quote, and
\* no step replaces the agreement made from it.
AcceptedQuoteIsFinal ==
  [][ /\ \A q \in Quotes : quoteStatus[q] = "ACCEPTED" => quoteStatus'[q] = "ACCEPTED"
      /\ \A b \in Bookings : agreement[b] # None => agreement'[b] = agreement[b] ]_vars

\* Every write of booking.booking by this service is a step of the spine.
ImplementsSpine == Spine!SpineSpec

=============================================================================
