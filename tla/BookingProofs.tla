--------------------------- MODULE BookingProofs ---------------------------
(* Proofs about Booking, for every set of Bookings, quotes, keys and       *)
(* in-flight requests.                                                      *)
EXTENDS Booking, TLAPS

\* A request in flight carries the Booking and one of that Booking's keys, and a
\* confirm request carries a quote.
RequestsWellFormed ==
  \A w \in Workers : pc[w] # "idle" =>
    /\ target[w] \in Bookings
    /\ key[w] \in KeyScope[target[w]]
    /\ pc[w] \in ConfirmSteps => chosen[w] \in Quotes

\* An agreement is for an ACCEPTED quote of its own Booking.
AgreementsMatchQuotes ==
  \A b \in Bookings : agreement[b] # None =>
    /\ quoteBooking[agreement[b]] = b
    /\ quoteStatus[agreement[b]] = "ACCEPTED"

\* An AcceptBookingQuote row is stored under a key of the Booking it is for,
\* and that Booking has its agreement.
AcceptKeysMatchAgreements ==
  \A k \in Keys : acceptKey[k] # None =>
    k \in KeyScope[acceptKey[k]] /\ agreement[acceptKey[k]] # None

\* A request about to mark its Booking CONFIRMED has seen its agreement.
ConfirmersHaveAgreement ==
  \A w \in Workers : pc[w] = "markConfirmed" => agreement[target[w]] # None

ConfirmedHasSomeAgreement ==
  \A b \in Bookings : status[b] \in Confirmed => agreement[b] # None

\* What the types alone need: it holds whatever keys clients send.
TInv == TypeOK /\ RequestsWellFormed

\* The inductive invariant.  ConfirmedHasSomeAgreement alone is not inductive: the
\* status change trusts what an earlier transaction of the same request saw.
IInv ==
  /\ TInv
  /\ AgreementsMatchQuotes
  /\ AcceptKeysMatchAgreements
  /\ ConfirmersHaveAgreement
  /\ ConfirmedHasSomeAgreement

USE DEF bookingRow, pricingRows, workerVars

\* The database starts empty and no request is in flight.
LEMMA InitIInv == Init => IInv
  BY NoneAssumption, KeyScopeAssumption
  DEF Init, IInv, TInv, TypeOK, RequestsWellFormed, AgreementsMatchQuotes,
      AcceptKeysMatchAgreements, ConfirmersHaveAgreement, ConfirmedHasSomeAgreement,
      BookingStatuses, QuoteStatuses, CommandTypes, Steps, QuoteSteps, ConfirmSteps, Confirmed

\* Every step of every handler keeps the types, and a request in flight its inputs.
LEMMA NextTInv == TInv /\ [Next]_vars => TInv'
  <1> SUFFICES ASSUME TInv, [Next]_vars PROVE TInv'
    OBVIOUS
  <1> USE NoneAssumption, KeyScopeAssumption
      DEF TInv, TypeOK, RequestsWellFormed,
          BookingStatuses, QuoteStatuses, CommandTypes, Steps, QuoteSteps, ConfirmSteps,
          Goto
  <1>1. ASSUME NEW b \in Bookings, NEW k \in Keys, NEW later \in BOOLEAN, CreateRiderBooking(b, k, later)
        PROVE  TInv'
    BY <1>1 DEF CreateRiderBooking
  <1>2. ASSUME NEW w \in Workers, NEW b \in Bookings, NEW k \in Keys, QuoteRiderBooking(w, b, k)
        PROVE  TInv'
    BY <1>2 DEF QuoteRiderBooking
  <1>3. ASSUME NEW w \in Workers, NEW b \in Bookings, NEW k \in Keys, NEW q \in Quotes, ConfirmRiderBooking(w, b, k, q)
        PROVE  TInv'
    BY <1>3 DEF ConfirmRiderBooking
  <1>4. ASSUME NEW w \in Workers, PersistQuoteReplay(w)
        PROVE  TInv'
    BY <1>4 DEF PersistQuoteReplay
  <1>5. ASSUME NEW w \in Workers, PersistQuoteScan(w)
        PROVE  TInv'
    BY <1>5 DEF PersistQuoteScan
  <1>6. ASSUME NEW w \in Workers, NEW q \in Quotes, PersistQuoteCommit(w, q)
        PROVE  TInv'
    BY <1>6 DEF PersistQuoteCommit, Superseded
  <1>7. ASSUME NEW w \in Workers, MarkQuoteCreated(w)
        PROVE  TInv'
    BY <1>7 DEF MarkQuoteCreated, TransitionBooking
  <1>8. ASSUME NEW w \in Workers, MarkAwaitingConfirmation(w)
        PROVE  TInv'
    BY <1>8 DEF MarkAwaitingConfirmation, TransitionBooking
  <1>9. ASSUME NEW w \in Workers, RecordQuoteResponse(w)
        PROVE  TInv'
    BY <1>9 DEF RecordQuoteResponse, Deduplicate, Release
  <1>10. ASSUME NEW w \in Workers, AcceptQuoteReplay(w)
        PROVE  TInv'
    BY <1>10 DEF AcceptQuoteReplay
  <1>11. ASSUME NEW w \in Workers, AcceptQuote(w)
        PROVE  TInv'
    BY <1>11 DEF AcceptQuote, QuoteOfBooking, IsQuoteUsable, RecordAcceptance
  <1>12. ASSUME NEW w \in Workers, MarkConfirmed(w)
        PROVE  TInv'
    BY <1>12 DEF MarkConfirmed, TransitionBooking
  <1>13. ASSUME NEW w \in Workers, ClassifyReadiness(w)
        PROVE  TInv'
    BY <1>13 DEF ClassifyReadiness, TransitionBooking
  <1>14. ASSUME NEW w \in Workers, RecordConfirmResponse(w)
        PROVE  TInv'
    BY <1>14 DEF RecordConfirmResponse, Deduplicate, Release
  <1>15. ASSUME NEW w \in Workers, Abandon(w)
        PROVE  TInv'
    BY <1>15 DEF Abandon, Release
  <1>16. ASSUME NEW q \in Quotes, QuoteLapses(q)
        PROVE  TInv'
    BY <1>16 DEF QuoteLapses
  <1>17. ASSUME NEW b \in Bookings, ScheduledTimeArrives(b)
        PROVE  TInv'
    BY <1>17 DEF ScheduledTimeArrives
  <1>18. CASE UNCHANGED vars
    BY <1>18 DEF vars
  <1> HIDE NoneAssumption, KeyScopeAssumption DEF TInv
  <1>19. QED
    BY <1>1, <1>2, <1>3, <1>4, <1>5, <1>6, <1>7, <1>8, <1>9,
       <1>10, <1>11, <1>12, <1>13, <1>14, <1>15, <1>16, <1>17, <1>18 DEF Next, WorkerStep

\* Every step of every handler keeps the inductive invariant.
LEMMA NextIInv == ASSUME DistinctKeys PROVE IInv /\ [Next]_vars => IInv'
  <1> SUFFICES ASSUME IInv, [Next]_vars PROVE IInv'
    OBVIOUS
  <1>t. TInv'
    BY NextTInv DEF IInv
  <1> USE NoneAssumption, KeyScopeAssumption, DistinctKeys
      DEF IInv, TInv, TypeOK, RequestsWellFormed, AgreementsMatchQuotes,
          AcceptKeysMatchAgreements, ConfirmersHaveAgreement, ConfirmedHasSomeAgreement,
          BookingStatuses, QuoteStatuses, CommandTypes, Steps, QuoteSteps, ConfirmSteps,
          Confirmed, DistinctKeys, Goto
  <1>1. ASSUME NEW b \in Bookings, NEW k \in Keys, NEW later \in BOOLEAN, CreateRiderBooking(b, k, later)
        PROVE  IInv'
    BY <1>1, <1>t DEF CreateRiderBooking
  <1>2. ASSUME NEW w \in Workers, NEW b \in Bookings, NEW k \in Keys, QuoteRiderBooking(w, b, k)
        PROVE  IInv'
    BY <1>2, <1>t DEF QuoteRiderBooking
  <1>3. ASSUME NEW w \in Workers, NEW b \in Bookings, NEW k \in Keys, NEW q \in Quotes, ConfirmRiderBooking(w, b, k, q)
        PROVE  IInv'
    BY <1>3, <1>t DEF ConfirmRiderBooking
  <1>4. ASSUME NEW w \in Workers, PersistQuoteReplay(w)
        PROVE  IInv'
    BY <1>4, <1>t DEF PersistQuoteReplay
  <1>5. ASSUME NEW w \in Workers, PersistQuoteScan(w)
        PROVE  IInv'
    BY <1>5, <1>t DEF PersistQuoteScan
  <1>6. ASSUME NEW w \in Workers, NEW q \in Quotes, PersistQuoteCommit(w, q)
        PROVE  IInv'
    BY <1>6, <1>t DEF PersistQuoteCommit, Superseded
  <1>7. ASSUME NEW w \in Workers, MarkQuoteCreated(w)
        PROVE  IInv'
    BY <1>7, <1>t DEF MarkQuoteCreated, TransitionBooking
  <1>8. ASSUME NEW w \in Workers, MarkAwaitingConfirmation(w)
        PROVE  IInv'
    BY <1>8, <1>t DEF MarkAwaitingConfirmation, TransitionBooking
  <1>9. ASSUME NEW w \in Workers, RecordQuoteResponse(w)
        PROVE  IInv'
    BY <1>9, <1>t DEF RecordQuoteResponse, Deduplicate, Release
  <1>10. ASSUME NEW w \in Workers, AcceptQuoteReplay(w)
        PROVE  IInv'
    BY <1>10, <1>t DEF AcceptQuoteReplay
  <1>11. ASSUME NEW w \in Workers, AcceptQuote(w)
        PROVE  IInv'
    BY <1>11, <1>t DEF AcceptQuote, QuoteOfBooking, IsQuoteUsable, RecordAcceptance
  <1>12. ASSUME NEW w \in Workers, MarkConfirmed(w)
        PROVE  IInv'
    BY <1>12, <1>t DEF MarkConfirmed, TransitionBooking
  <1>13. ASSUME NEW w \in Workers, ClassifyReadiness(w)
        PROVE  IInv'
    BY <1>13, <1>t DEF ClassifyReadiness, TransitionBooking
  <1>14. ASSUME NEW w \in Workers, RecordConfirmResponse(w)
        PROVE  IInv'
    BY <1>14, <1>t DEF RecordConfirmResponse, Deduplicate, Release
  <1>15. ASSUME NEW w \in Workers, Abandon(w)
        PROVE  IInv'
    BY <1>15, <1>t DEF Abandon, Release
  <1>16. ASSUME NEW q \in Quotes, QuoteLapses(q)
        PROVE  IInv'
    BY <1>16, <1>t DEF QuoteLapses
  <1>17. ASSUME NEW b \in Bookings, ScheduledTimeArrives(b)
        PROVE  IInv'
    BY <1>17, <1>t DEF ScheduledTimeArrives
  <1>18. CASE UNCHANGED vars
    BY <1>18, <1>t DEF vars
  <1> HIDE NoneAssumption, KeyScopeAssumption DEF IInv, DistinctKeys
  <1>19. QED
    BY <1>1, <1>2, <1>3, <1>4, <1>5, <1>6, <1>7, <1>8, <1>9,
       <1>10, <1>11, <1>12, <1>13, <1>14, <1>15, <1>16, <1>17, <1>18 DEF Next, WorkerStep

\* The three facts an invariance proof needs: IInv holds initially, is kept by
\* every step, and implies what the runs check.
LEMMA IInvImplies == IInv => ConfirmedHasOwnAgreement
  BY DEF IInv, TInv, TypeOK, AgreementsMatchQuotes, ConfirmedHasSomeAgreement, ConfirmedHasOwnAgreement

\* The rows of the booking service keep their types, whatever requests race,
\* repeat or die between two transactions.
THEOREM BookingTypeCorrect == Spec => []TypeOK
  <1>1. Init => TInv
    BY InitIInv DEF IInv
  <1>2. TInv => TypeOK
    BY DEF TInv
  <1>3. QED
    BY <1>1, <1>2, NextTInv, PTL DEF Spec

\* As long as no client sends one idempotency key for two Bookings, a confirmed
\* Booking has a fare agreement of its own, from an ACCEPTED quote of its own.
THEOREM ConfirmedBookingHasOwnAgreement ==
  ASSUME DistinctKeys PROVE Spec => []ConfirmedHasOwnAgreement
  BY InitIInv, NextIInv, IInvImplies, PTL DEF Spec

\* One step: an ACCEPTED quote stays ACCEPTED and an agreement is not replaced.
AcceptedStays ==
  /\ \A q \in Quotes : quoteStatus[q] = "ACCEPTED" => quoteStatus'[q] = "ACCEPTED"
  /\ \A b \in Bookings : agreement[b] # None => agreement'[b] = agreement[b]

\* Only acceptQuote and persistQuote write pricing rows; neither takes back what an
\* earlier transaction accepted.
THEOREM AcceptedQuoteStays == Spec => AcceptedQuoteIsFinal
  <1>1. TInv /\ [Next]_vars => [AcceptedStays]_vars
    <2> SUFFICES ASSUME TInv, Next PROVE AcceptedStays
      OBVIOUS
    <2> USE DEF TInv, TypeOK, RequestsWellFormed, AcceptedStays
    <2>1. ASSUME NEW w \in Workers, NEW q \in Quotes, PersistQuoteCommit(w, q)
          PROVE  AcceptedStays
      BY <2>1 DEF PersistQuoteCommit, Superseded
    <2>2. ASSUME NEW w \in Workers, AcceptQuote(w)
          PROVE  AcceptedStays
      BY <2>2 DEF AcceptQuote, IsQuoteUsable, ConfirmSteps
    <2>3. CASE UNCHANGED <<quoteStatus, agreement>>
      BY <2>3
    <2>4. QED
      BY <2>1, <2>2, <2>3
      DEF Next, WorkerStep, CreateRiderBooking, QuoteRiderBooking, ConfirmRiderBooking,
          PersistQuoteReplay, PersistQuoteScan, MarkQuoteCreated, MarkAwaitingConfirmation,
          RecordQuoteResponse, AcceptQuoteReplay, MarkConfirmed, ClassifyReadiness,
          RecordConfirmResponse, Abandon, QuoteLapses, ScheduledTimeArrives, TransitionBooking
  <1>2. Init => TInv
    BY InitIInv DEF IInv
  <1>3. QED
    BY <1>1, <1>2, NextTInv, PTL DEF Spec, AcceptedQuoteIsFinal, AcceptedStays

-----------------------------------------------------------------------------
(* What the Rider is shown. *)

\* A quote of Booking b is stored.
IsQuoteOf(q, b) == q \in Quotes /\ quoteBooking[q] = b /\ quoteStatus[q] # "ABSENT"

\* A CreateQuote row is stored under a key of the Booking whose quote it answers.
CreateKeysMatchQuotes ==
  \A k \in Keys : createKey[k] # None =>
    \E b \in Bookings : k \in KeyScope[b] /\ IsQuoteOf(createKey[k], b)

\* A request about to mark its Booking QUOTE_CREATED has a quote of that Booking.
QuotersHaveQuote == \A w \in Workers : pc[w] = "markQuoted" => IsQuoteOf(chosen[w], target[w])

\* What one request does.
RequestStep(w) ==
  \/ \E b \in Bookings, k \in Keys : QuoteRiderBooking(w, b, k)
  \/ \E b \in Bookings, k \in Keys, q \in Quotes : ConfirmRiderBooking(w, b, k, q)
  \/ WorkerStep(w) \/ Abandon(w)

PresentedInv == TInv /\ CreateKeysMatchQuotes /\ QuotersHaveQuote /\ PresentedHasOwnQuote

\* No transaction deletes a quote or gives it to another Booking.
LEMMA QuotesStay ==
  ASSUME TInv, [Next]_vars, NEW q \in Quotes, NEW b \in Bookings, IsQuoteOf(q, b)
  PROVE  IsQuoteOf(q, b)'
  <1> USE DEF TInv, TypeOK, IsQuoteOf
  <1>1. ASSUME NEW w \in Workers, NEW p \in Quotes, PersistQuoteCommit(w, p)
        PROVE  IsQuoteOf(q, b)'
    BY <1>1 DEF PersistQuoteCommit
  <1>2. ASSUME NEW w \in Workers, AcceptQuote(w)
        PROVE  IsQuoteOf(q, b)'
    BY <1>2 DEF AcceptQuote
  <1>3. CASE UNCHANGED <<quoteStatus, quoteBooking>>
    BY <1>3
  <1>4. QED
    BY <1>1, <1>2, <1>3
    DEF Next, WorkerStep, CreateRiderBooking, QuoteRiderBooking, ConfirmRiderBooking, vars,
        PersistQuoteReplay, PersistQuoteScan, MarkQuoteCreated, MarkAwaitingConfirmation,
        RecordQuoteResponse, AcceptQuoteReplay, MarkConfirmed, ClassifyReadiness,
        RecordConfirmResponse, Abandon, QuoteLapses, ScheduledTimeArrives, TransitionBooking

\* The quote that persistQuote inserts is one of the Booking of its request.
LEMMA CommittedQuote ==
  ASSUME TInv, NEW w \in Workers, NEW q \in Quotes, PersistQuoteCommit(w, q)
  PROVE  IsQuoteOf(q, target[w])' /\ chosen'[w] = q /\ createKey'[key[w]] = q
  <1>1. target[w] \in Bookings /\ key[w] \in Keys
    BY KeyScopeAssumption DEF PersistQuoteCommit, TInv, TypeOK, RequestsWellFormed
  <1>2. IsQuoteOf(q, target[w])'
    BY <1>1 DEF PersistQuoteCommit, IsQuoteOf, TInv, TypeOK
  <1>3. chosen'[w] = q /\ createKey'[key[w]] = q
    BY <1>1 DEF PersistQuoteCommit, TInv, TypeOK
  <1> QED BY <1>2, <1>3

\* The dedup rows of persistQuote keep their quotes.
LEMMA NextCreateKeys == PresentedInv /\ [Next]_vars => CreateKeysMatchQuotes'
  <1> SUFFICES ASSUME PresentedInv, [Next]_vars, NEW k \in Keys, createKey'[k] # None
               PROVE  \E b \in Bookings : k \in KeyScope[b] /\ IsQuoteOf(createKey[k], b)'
    BY DEF CreateKeysMatchQuotes
  <1>1. CASE createKey'[k] = createKey[k]
    <2>1. PICK b \in Bookings : k \in KeyScope[b] /\ IsQuoteOf(createKey[k], b)
      BY <1>1 DEF PresentedInv, CreateKeysMatchQuotes
    <2>2. IsQuoteOf(createKey[k], b)'
      BY <1>1, <2>1, QuotesStay DEF PresentedInv, IsQuoteOf
    <2> QED BY <2>1, <2>2
  <1>2. ASSUME NEW w \in Workers, NEW q \in Quotes, PersistQuoteCommit(w, q), createKey'[k] # createKey[k]
        PROVE  \E b \in Bookings : k \in KeyScope[b] /\ IsQuoteOf(createKey[k], b)'
    <2>1. k = key[w] /\ target[w] \in Bookings /\ key[w] \in KeyScope[target[w]] /\ target' = target
      BY <1>2 DEF PresentedInv, TInv, TypeOK, RequestsWellFormed, PersistQuoteCommit
    <2>2. IsQuoteOf(q, target[w])' /\ createKey'[k] = q
      BY <1>2, <2>1, CommittedQuote DEF PresentedInv
    <2> QED BY <2>1, <2>2 DEF IsQuoteOf
  <1>3. QED
    BY <1>1, <1>2
    DEF Next, WorkerStep, CreateRiderBooking, QuoteRiderBooking, ConfirmRiderBooking, vars,
        PersistQuoteReplay, PersistQuoteScan, MarkQuoteCreated, MarkAwaitingConfirmation,
        RecordQuoteResponse, AcceptQuoteReplay, AcceptQuote, MarkConfirmed, ClassifyReadiness,
        RecordConfirmResponse, Abandon, QuoteLapses, ScheduledTimeArrives, TransitionBooking

\* A request reaches markQuoted with a stored quote or with the one it inserted.
LEMMA NextQuoters ==
  ASSUME DistinctKeys PROVE PresentedInv /\ [Next]_vars => QuotersHaveQuote'
  <1> SUFFICES ASSUME PresentedInv, [Next]_vars, NEW w \in Workers, pc'[w] = "markQuoted"
               PROVE  IsQuoteOf(chosen[w], target[w])'
    BY DEF QuotersHaveQuote
  <1> USE DEF PresentedInv, TInv, TypeOK, RequestsWellFormed, Goto
  <1>1. CASE pc[w] = "markQuoted" /\ chosen'[w] = chosen[w] /\ target'[w] = target[w]
    <2>1. IsQuoteOf(chosen[w], target[w]) /\ target[w] \in Bookings
      BY <1>1 DEF QuotersHaveQuote
    <2>2. IsQuoteOf(chosen[w], target[w])'
      BY <1>1, <2>1, QuotesStay DEF IsQuoteOf
    <2> QED BY <2>2
  <1>2. CASE PersistQuoteReplay(w)
    <2>1. PICK b \in Bookings : key[w] \in KeyScope[b] /\ IsQuoteOf(createKey[key[w]], b)
      BY <1>2, KeyScopeAssumption DEF PersistQuoteReplay, CreateKeysMatchQuotes
    <2>2. b = target[w]
      BY <1>2, <2>1, DistinctKeys DEF PersistQuoteReplay, DistinctKeys
    <2>3. IsQuoteOf(createKey[key[w]], b)'
      BY <2>1, <1>2 DEF PersistQuoteReplay, IsQuoteOf
    <2> QED BY <1>2, <2>2, <2>3 DEF PersistQuoteReplay, IsQuoteOf
  <1>3. ASSUME NEW q \in Quotes, PersistQuoteCommit(w, q)
        PROVE  IsQuoteOf(chosen[w], target[w])'
    BY <1>3, CommittedQuote DEF PersistQuoteCommit, IsQuoteOf
  <1>4. ASSUME NEW v \in Workers, RequestStep(v), v # w
        PROVE  IsQuoteOf(chosen[w], target[w])'
    <2>1. pc[w] = "markQuoted" /\ chosen'[w] = chosen[w] /\ target'[w] = target[w]
      BY <1>4
      DEF RequestStep, WorkerStep, QuoteRiderBooking, ConfirmRiderBooking, PersistQuoteReplay,
          PersistQuoteScan, PersistQuoteCommit, MarkQuoteCreated, MarkAwaitingConfirmation,
          RecordQuoteResponse, AcceptQuoteReplay, AcceptQuote, MarkConfirmed, ClassifyReadiness,
          RecordConfirmResponse, Abandon, Release
    <2> QED BY <1>1, <2>1
  <1>5. ASSUME RequestStep(w)
        PROVE  IsQuoteOf(chosen[w], target[w])'
    <2>1. PersistQuoteReplay(w) \/ \E q \in Quotes : PersistQuoteCommit(w, q)
      BY <1>5
      DEF RequestStep, WorkerStep, QuoteRiderBooking, ConfirmRiderBooking, PersistQuoteScan,
          MarkQuoteCreated, MarkAwaitingConfirmation, RecordQuoteResponse, AcceptQuoteReplay,
          AcceptQuote, MarkConfirmed, ClassifyReadiness, RecordConfirmResponse, Abandon, Release
    <2> QED BY <1>2, <1>3, <2>1
  <1>6. CASE UNCHANGED workerVars
    <2>1. pc[w] = "markQuoted" /\ chosen'[w] = chosen[w] /\ target'[w] = target[w]
      BY <1>6
    <2> QED BY <1>1, <2>1
  <1> HIDE DEF PresentedInv
  <1>7. QED
    BY <1>4, <1>5, <1>6
    DEF Next, RequestStep, vars, CreateRiderBooking, QuoteLapses, ScheduledTimeArrives

\* Only the request that holds a quote leaves DRAFT.
LEMMA NextPresented == PresentedInv /\ [Next]_vars => PresentedHasOwnQuote'
  <1> DEFINE Shown == {"QUOTE_CREATED", "AWAITING_CONFIRMATION"}
  <1> SUFFICES ASSUME PresentedInv, [Next]_vars, NEW b \in Bookings, status'[b] \in Shown
               PROVE  \E q \in Quotes : IsQuoteOf(q, b)'
    BY DEF PresentedHasOwnQuote, IsQuoteOf
  <1>1. CASE \E q \in Quotes : IsQuoteOf(q, b)
    BY <1>1, QuotesStay DEF PresentedInv
  <1>2. CASE status[b] \in Shown
    BY <1>1, <1>2 DEF PresentedInv, PresentedHasOwnQuote, IsQuoteOf
  <1>3. ASSUME NEW w \in Workers, MarkQuoteCreated(w), target[w] = b
        PROVE  \E q \in Quotes : IsQuoteOf(q, b)'
    BY <1>1, <1>3 DEF MarkQuoteCreated, PresentedInv, QuotersHaveQuote, IsQuoteOf
  <1>4. CASE status[b] \notin Shown
    <2> USE DEF PresentedInv, TInv, TypeOK
    <2>1. ASSUME NEW w \in Workers, MarkQuoteCreated(w) PROVE target[w] = b
      BY <1>4, <2>1 DEF MarkQuoteCreated, TransitionBooking
    <2>2. ASSUME NEW w \in Workers,
                 MarkAwaitingConfirmation(w) \/ MarkConfirmed(w) \/ ClassifyReadiness(w)
          PROVE  FALSE
      BY <1>4, <2>2 DEF MarkAwaitingConfirmation, MarkConfirmed, ClassifyReadiness, TransitionBooking
    <2>3. ASSUME NEW c \in Bookings, NEW k \in Keys, NEW later \in BOOLEAN,
                 CreateRiderBooking(c, k, later)
          PROVE  FALSE
      BY <1>4, <2>3 DEF CreateRiderBooking
    <2> HIDE DEF PresentedInv
    <2>4. CASE UNCHANGED status
      BY <1>4, <2>4
    <2> QED
      BY <1>3, <2>1, <2>2, <2>3, <2>4
      DEF Next, WorkerStep, QuoteRiderBooking, ConfirmRiderBooking, vars, PersistQuoteReplay,
          PersistQuoteScan, PersistQuoteCommit, RecordQuoteResponse, AcceptQuoteReplay,
          AcceptQuote, RecordConfirmResponse, Abandon, QuoteLapses, ScheduledTimeArrives
  <1> QED BY <1>2, <1>4

\* As long as no key is sent for two Bookings, what the Rider is asked to confirm
\* has a quote of its own, whichever requests raced or died on the way.
THEOREM PresentedBookingHasOwnQuote ==
  ASSUME DistinctKeys PROVE Spec => []PresentedHasOwnQuote
  <1>1. Init => PresentedInv
    BY InitIInv DEF IInv, PresentedInv, Init, CreateKeysMatchQuotes, QuotersHaveQuote,
       PresentedHasOwnQuote
  <1>2. PresentedInv /\ [Next]_vars => PresentedInv'
    BY NextTInv, NextCreateKeys, NextQuoters, NextPresented, DistinctKeys DEF PresentedInv
  <1>3. PresentedInv => PresentedHasOwnQuote
    BY DEF PresentedInv
  <1>4. QED
    BY <1>1, <1>2, <1>3, PTL DEF Spec

-----------------------------------------------------------------------------
(* What a confirmation that died can be resumed with. *)

\* The first acceptance for a Booking is recorded under a key of that Booking.
AgreementsAreRecorded ==
  \A b \in Bookings : agreement[b] # None => \E k \in KeyScope[b] : acceptKey[k] = b

\* A request answers the Rider, or has answered, only about a confirmed Booking.
AnswersAreConfirmed ==
  /\ \A w \in Workers : pc[w] = "recordConfirm" => status[target[w]] \in Confirmed
  /\ \A k \in Keys, b \in Bookings :
       commandKey["ConfirmRiderBooking"][k] = b => status[b] \in Confirmed

ResumeInv == TInv /\ AgreementsAreRecorded /\ AnswersAreConfirmed

\* No step takes a Booking back from its confirmation.
LEMMA ConfirmedStays ==
  ASSUME TInv, [Next]_vars, NEW b \in Bookings, status[b] \in Confirmed
  PROVE  status'[b] \in Confirmed
  <1> USE DEF TInv, TypeOK, Confirmed
  <1>1. ASSUME NEW c \in Bookings, NEW k \in Keys, NEW later \in BOOLEAN,
               CreateRiderBooking(c, k, later)
        PROVE  status'[b] \in Confirmed
    BY <1>1 DEF CreateRiderBooking
  <1>2. ASSUME NEW w \in Workers,
               \/ MarkQuoteCreated(w) \/ MarkAwaitingConfirmation(w)
               \/ MarkConfirmed(w) \/ ClassifyReadiness(w)
        PROVE  status'[b] \in Confirmed
    BY <1>2 DEF MarkQuoteCreated, MarkAwaitingConfirmation, MarkConfirmed, ClassifyReadiness,
                TransitionBooking
  <1>3. CASE UNCHANGED status
    BY <1>3
  <1> QED
    BY <1>1, <1>2, <1>3
    DEF Next, WorkerStep, QuoteRiderBooking, ConfirmRiderBooking, vars, PersistQuoteReplay,
        PersistQuoteScan, PersistQuoteCommit, RecordQuoteResponse, AcceptQuoteReplay,
        AcceptQuote, RecordConfirmResponse, Abandon, QuoteLapses, ScheduledTimeArrives

\* acceptQuote writes agreement and dedup row together, and a dedup row stays.
LEMMA NextAgreementsAreRecorded == ResumeInv /\ [Next]_vars => AgreementsAreRecorded'
  <1> SUFFICES ASSUME ResumeInv, [Next]_vars, NEW b \in Bookings, agreement'[b] # None
               PROVE  \E k \in KeyScope[b] : acceptKey'[k] = b
    BY DEF AgreementsAreRecorded
  <1> USE KeyScopeAssumption, NoneAssumption DEF ResumeInv, TInv, TypeOK, RequestsWellFormed
  <1>1. ASSUME NEW w \in Workers, AcceptQuote(w)
        PROVE  \E k \in KeyScope[b] : acceptKey'[k] = b
    <2>1. acceptKey[key[w]] = None /\ target[w] \in Bookings /\ key[w] \in KeyScope[target[w]]
      BY <1>1 DEF AcceptQuote
    <2>2. acceptKey' = [acceptKey EXCEPT ![key[w]] = target[w]]
      BY <1>1 DEF AcceptQuote, RecordAcceptance
    <2>3. CASE target[w] = b
      BY <2>1, <2>2, <2>3
    <2>4. CASE target[w] # b
      <3>1. agreement[b] # None
        BY <1>1, <2>1, <2>4 DEF AcceptQuote
      <3>2. PICK k \in KeyScope[b] : acceptKey[k] = b
        BY <3>1 DEF AgreementsAreRecorded
      <3>3. acceptKey'[k] = b
        BY <2>1, <2>2, <3>2
      <3> QED BY <3>3
    <2> QED BY <2>3, <2>4
  <1>2. CASE UNCHANGED <<agreement, acceptKey>>
    BY <1>2 DEF AgreementsAreRecorded
  <1> HIDE DEF ResumeInv
  <1> QED
    BY <1>1, <1>2
    DEF Next, WorkerStep, CreateRiderBooking, QuoteRiderBooking, ConfirmRiderBooking, vars,
        PersistQuoteReplay, PersistQuoteScan, PersistQuoteCommit, MarkQuoteCreated,
        MarkAwaitingConfirmation, RecordQuoteResponse, AcceptQuoteReplay, MarkConfirmed,
        ClassifyReadiness, RecordConfirmResponse, Abandon, QuoteLapses, ScheduledTimeArrives,
        TransitionBooking

\* The last status change comes before the recorded answer.
LEMMA NextAnswersAreConfirmed == ResumeInv /\ [Next]_vars => AnswersAreConfirmed'
  <1> SUFFICES ASSUME ResumeInv, [Next]_vars PROVE AnswersAreConfirmed'
    OBVIOUS
  <1> USE KeyScopeAssumption, NoneAssumption DEF ResumeInv, TInv, TypeOK, RequestsWellFormed
  <1>1. ASSUME NEW w \in Workers, pc'[w] = "recordConfirm"
        PROVE  status'[target'[w]] \in Confirmed
    <2> USE <1>1
    <2>1. CASE pc[w] = "recordConfirm" /\ target'[w] = target[w]
      BY <2>1, ConfirmedStays DEF AnswersAreConfirmed
    <2>2. ASSUME ClassifyReadiness(w)
          PROVE  status'[target'[w]] \in Confirmed
      BY <2>2 DEF ClassifyReadiness, TransitionBooking, Confirmed
    <2>3. ASSUME NEW v \in Workers, RequestStep(v), v # w
          PROVE  pc[w] = "recordConfirm" /\ target'[w] = target[w]
      BY <2>3
      DEF RequestStep, WorkerStep, QuoteRiderBooking, ConfirmRiderBooking, PersistQuoteReplay,
          PersistQuoteScan, PersistQuoteCommit, MarkQuoteCreated, MarkAwaitingConfirmation,
          RecordQuoteResponse, AcceptQuoteReplay, AcceptQuote, MarkConfirmed, ClassifyReadiness,
          RecordConfirmResponse, Abandon, Release, Goto
    <2>4. ASSUME RequestStep(w) PROVE ClassifyReadiness(w)
      BY <2>4
      DEF RequestStep, WorkerStep, QuoteRiderBooking, ConfirmRiderBooking, PersistQuoteReplay,
          PersistQuoteScan, PersistQuoteCommit, MarkQuoteCreated, MarkAwaitingConfirmation,
          RecordQuoteResponse, AcceptQuoteReplay, AcceptQuote, MarkConfirmed,
          RecordConfirmResponse, Abandon, Release, Goto
    <2>5. CASE UNCHANGED workerVars
      BY <2>1, <2>5
    <2> HIDE DEF ResumeInv
    <2> QED
      BY <2>1, <2>2, <2>3, <2>4, <2>5
      DEF Next, RequestStep, vars, CreateRiderBooking, QuoteLapses, ScheduledTimeArrives
  <1>2. ASSUME NEW k \in Keys, NEW b \in Bookings, commandKey'["ConfirmRiderBooking"][k] = b
        PROVE  status'[b] \in Confirmed
    <2>1. CASE commandKey["ConfirmRiderBooking"][k] = b
      BY <2>1, ConfirmedStays DEF AnswersAreConfirmed
    <2>2. ASSUME NEW w \in Workers, RecordConfirmResponse(w),
                 commandKey["ConfirmRiderBooking"][k] # b
          PROVE  status'[b] \in Confirmed
      <3>1. target[w] = b
        BY <1>2, <2>2 DEF RecordConfirmResponse, Deduplicate, CommandTypes
      <3> QED BY <2>2, <3>1, ConfirmedStays DEF RecordConfirmResponse, AnswersAreConfirmed
    <2>3. ASSUME NEW w \in Workers, RecordQuoteResponse(w)
          PROVE  commandKey'["ConfirmRiderBooking"][k] = commandKey["ConfirmRiderBooking"][k]
      BY <2>3 DEF RecordQuoteResponse, Deduplicate, CommandTypes
    <2>4. ASSUME NEW c \in Bookings, NEW i \in Keys, NEW later \in BOOLEAN,
                 CreateRiderBooking(c, i, later)
          PROVE  commandKey'["ConfirmRiderBooking"][k] = commandKey["ConfirmRiderBooking"][k]
      BY <2>4 DEF CreateRiderBooking, CommandTypes
    <2>5. CASE UNCHANGED commandKey
      BY <1>2, <2>1, <2>5
    <2> HIDE DEF ResumeInv
    <2> QED
      BY <1>2, <2>1, <2>2, <2>3, <2>4, <2>5
      DEF Next, WorkerStep, QuoteRiderBooking, ConfirmRiderBooking, vars, PersistQuoteReplay,
          PersistQuoteScan, PersistQuoteCommit, MarkQuoteCreated, MarkAwaitingConfirmation,
          AcceptQuoteReplay, AcceptQuote, MarkConfirmed, ClassifyReadiness, Abandon,
          QuoteLapses, ScheduledTimeArrives, TransitionBooking
  <1> HIDE DEF ResumeInv
  <1> QED BY <1>1, <1>2 DEF AnswersAreConfirmed

\* However a confirmation dies after acceptQuote, a key of the Booking is recorded
\* that leads a retry past acceptQuote, and no answer is stored that would end it.
THEOREM AcceptedBookingResumable == Spec => []AcceptedBookingIsResumable
  <1>1. Init => ResumeInv
    BY InitIInv, NoneAssumption
    DEF IInv, ResumeInv, Init, AgreementsAreRecorded, AnswersAreConfirmed, CommandTypes
  <1>2. ResumeInv /\ [Next]_vars => ResumeInv'
    BY NextTInv, NextAgreementsAreRecorded, NextAnswersAreConfirmed DEF ResumeInv
  <1>3. ResumeInv => AcceptedBookingIsResumable
    BY KeyScopeAssumption, NoneAssumption
    DEF ResumeInv, AgreementsAreRecorded, AnswersAreConfirmed, AcceptedBookingIsResumable, Confirmed
  <1>4. QED
    BY <1>1, <1>2, <1>3, PTL DEF Spec

\* The booking service implements the spine: its rows are created once, in DRAFT at
\* version 1, and then move one canonical step and one version at a time.
THEOREM BookingImplementsSpine == Spec => ImplementsSpine
  <1>1. Init => Spine!SpineInit
    BY DEF Init, Spine!SpineInit
  <1>2. TInv /\ [Next]_vars => [Spine!SpineNext]_(Spine!spineVars)
    <2> SUFFICES ASSUME TInv, Next PROVE Spine!SpineNext \/ UNCHANGED Spine!spineVars
      BY DEF vars, Spine!spineVars
    <2>1. ASSUME NEW b \in Bookings, NEW k \in Keys, NEW later \in BOOLEAN,
                 CreateRiderBooking(b, k, later)
          PROVE  Spine!SpineNext
      BY <2>1 DEF CreateRiderBooking, Spine!SpineNext, Spine!Create
    <2>2. ASSUME NEW b \in Bookings, NEW from, NEW to \in Spine!BookingStatus,
                 TransitionBooking(b, from, to)
          PROVE  Spine!SpineNext
      <3>1. <<from, to>> \in Spine!ForwardTransitions /\ status[b] = <<from, to>>[1]
        BY <2>2 DEF TransitionBooking, Spine!CanUseCanonicalForwardTransition
      <3>2. Spine!Advance(b, <<from, to>>[2])
        BY <2>2 DEF TransitionBooking, Spine!Advance
      <3> QED BY <3>1, <3>2 DEF Spine!SpineNext
    <2>3. ASSUME NEW w \in Workers,
                 MarkQuoteCreated(w) \/ MarkAwaitingConfirmation(w)
                   \/ MarkConfirmed(w) \/ ClassifyReadiness(w)
          PROVE  Spine!SpineNext
      BY <2>2, <2>3
      DEF MarkQuoteCreated, MarkAwaitingConfirmation, MarkConfirmed, ClassifyReadiness,
          TInv, TypeOK, RequestsWellFormed, Spine!BookingStatus, Spine!AuthoritativeStatuses
    <2>4. CASE UNCHANGED <<status, version>>
      BY <2>4 DEF Spine!spineVars
    <2>5. QED
      BY <2>1, <2>3, <2>4
      DEF Next, WorkerStep, QuoteRiderBooking, ConfirmRiderBooking, PersistQuoteReplay,
          PersistQuoteScan, PersistQuoteCommit, RecordQuoteResponse, AcceptQuoteReplay,
          AcceptQuote, RecordConfirmResponse, Abandon, QuoteLapses, ScheduledTimeArrives
  <1>3. Init => TInv
    BY InitIInv DEF IInv
  <1>4. QED
    BY <1>1, <1>2, <1>3, NextTInv, PTL DEF Spec, ImplementsSpine, Spine!SpineSpec
=============================================================================
