----------------------------- MODULE PaymentProofs -----------------------------
(* Proofs about Payment, for every set of Bookings, intents, payments, keys *)
(* and requests and every fare.                                             *)
EXTENDS Payment, TLAPS

\* An intent exists exactly when it charges a Booking, and a payment belongs to one.
RowsLinked ==
  /\ \A i \in Intents : intent[i] # "NONE" <=> charges[i] \in Bookings
  /\ \A p \in Payments : payment[p] # "NONE" => pays[p] \in Intents

\* A captured status comes with money and with its time.
CapturedIsDated ==
  \A p \in Payments :
    payment[p] \in CapturedStatuses => captured[p] > 0 /\ p \in dated /\ refunded[p] <= captured[p]

\* The inductive invariant.
IInv ==
  /\ TypeOK
  /\ RowsLinked
  /\ OneOpenIntentPerBooking
  /\ AnswersNameTheirIntents
  /\ CapturedIsDated

USE DEF intentVars, paymentVars

-----------------------------------------------------------------------------
(* The tables. *)

\* No table leaves the statuses, and neither leads from a captured status to an
\* uncaptured one; only the active statuses lead to an active one.
LEMMA Tables ==
  ASSUME NEW from \in PaymentStatuses
  PROVE  /\ IntentTransitions(from) \subseteq PaymentStatuses
         /\ PaymentTransitions(from) \subseteq PaymentStatuses
         /\ from \in CapturedStatuses => PaymentTransitions(from) \subseteq CapturedStatuses
         /\ from \notin ActiveStatuses => IntentTransitions(from) \cap ActiveStatuses = {}
  BY DEF PaymentStatuses, CapturedStatuses, ActiveStatuses, IntentTransitions, PaymentTransitions

\* Neither list of statuses knows the row that does not exist.
LEMMA NoRowNoStatus ==
  /\ "NONE" \notin PaymentStatuses
  /\ CapturedStatuses \subseteq PaymentStatuses
  /\ ActiveStatuses \subseteq PaymentStatuses
  /\ "CREATED" \in ActiveStatuses
  /\ "CREATED" \in PaymentStatuses
  BY DEF PaymentStatuses, CapturedStatuses, ActiveStatuses

LEMMA InitIInv == Init => IInv
  BY NoneIsFresh, FarePositive, NoRowNoStatus
  DEF Init, IInv, TypeOK, RowsLinked, OneOpenIntentPerBooking, ActiveIntents,
      AnswersNameTheirIntents, CapturedIsDated

-----------------------------------------------------------------------------
(* The steps of preparePaymentIntent and of the Journey service. *)

\* A request that reaches the Booking names one, and a key.
LEMMA AskNames ==
  ASSUME TypeOK, NEW r \in Requests, asks[r] # None
  PROVE  asks[r][1] \in Bookings /\ asks[r][2] \in Keys
  <1>1. asks[r] \in Bookings \X Keys
    BY DEF TypeOK
  <1> QED BY <1>1

LEMMA CompleteBookingStep ==
  ASSUME IInv, NEW b \in Bookings, CompleteBooking(b)
  PROVE  IInv'
  BY DEF IInv, CompleteBooking, TypeOK, RowsLinked, OneOpenIntentPerBooking, ActiveIntents,
         AnswersNameTheirIntents, CapturedIsDated

LEMMA LookUpStep ==
  ASSUME IInv, NEW r \in Requests, NEW b \in Bookings, NEW k \in Keys, LookUpPreparation(r, b, k)
  PROVE  IInv'
  BY DEF IInv, LookUpPreparation, TypeOK, RowsLinked, OneOpenIntentPerBooking, ActiveIntents,
         AnswersNameTheirIntents, CapturedIsDated

LEMMA RollBackStep ==
  ASSUME IInv, NEW r \in Requests, RollBack(r)
  PROVE  IInv'
  BY DEF IInv, RollBack, TypeOK, RowsLinked, OneOpenIntentPerBooking, ActiveIntents,
         AnswersNameTheirIntents, CapturedIsDated

\* Where a stored answer is found after StoreAnswer: one new entry, the rest as before.
LEMMA StoredAnswers ==
  ASSUME TypeOK, NEW r \in Requests, NEW i \in Intents, asks[r] # None, StoreAnswer(r, i)
  PROVE  /\ prepared' \in [Bookings -> [Keys -> Intents \cup {None}]]
         /\ asks' \in [Requests -> (Bookings \X Keys) \cup {None}]
         /\ prepared'[asks[r][1]][asks[r][2]] = i
         /\ prepared[asks[r][1]][asks[r][2]] = None
         /\ \A b \in Bookings, k \in Keys :
              <<b, k>> # asks[r] => prepared'[b][k] = prepared[b][k]
  <1> DEFINE B == asks[r][1]
             K == asks[r][2]
  <1>1. B \in Bookings /\ K \in Keys /\ asks[r] = <<B, K>>
    <2>1. asks[r] \in Bookings \X Keys
      BY DEF TypeOK
    <2> QED BY <2>1
  <1>2. prepared \in [Bookings -> [Keys -> Intents \cup {None}]]
    BY DEF TypeOK
  <1>3. prepared' = [prepared EXCEPT ![B] = [prepared[B] EXCEPT ![K] = i]]
    BY DEF StoreAnswer
  <1>4. [prepared[B] EXCEPT ![K] = i] \in [Keys -> Intents \cup {None}]
    BY <1>1, <1>2
  <1>5. prepared' \in [Bookings -> [Keys -> Intents \cup {None}]]
    BY <1>2, <1>3, <1>4
  <1>6. asks' \in [Requests -> (Bookings \X Keys) \cup {None}]
    BY DEF StoreAnswer, TypeOK
  <1>7. prepared'[B][K] = i /\ prepared[B][K] = None
    BY <1>1, <1>2, <1>3 DEF StoreAnswer
  <1>8. ASSUME NEW b \in Bookings, NEW k \in Keys, <<b, k>> # asks[r]
        PROVE  prepared'[b][k] = prepared[b][k]
    <2>1. b # B \/ k # K
      BY <1>1, <1>8
    <2> QED BY <1>1, <1>2, <1>3, <2>1
  <1> HIDE DEF B, K
  <1> QED BY <1>5, <1>6, <1>7, <1>8 DEF B, K

LEMMA ReuseStep ==
  ASSUME IInv, NEW r \in Requests, NEW i \in Intents, ReuseCreatedIntent(r, i)
  PROVE  IInv'
  <1>1. asks[r] # None /\ asks[r][1] \in completed /\ charges[i] = asks[r][1]
        /\ intent[i] = "CREATED" /\ StoreAnswer(r, i)
    BY DEF ReuseCreatedIntent
  <1>2. TypeOK
    BY DEF IInv
  <1>3. asks[r][1] \in Bookings /\ asks[r][2] \in Keys /\ asks[r] \in Bookings \X Keys
    <2>1. asks[r] \in Bookings \X Keys
      BY <1>1, <1>2 DEF TypeOK
    <2> QED BY <2>1
  <1>4. TypeOK'
    BY <1>1, <1>2, StoredAnswers DEF ReuseCreatedIntent, TypeOK
  <1>5. RowsLinked' /\ OneOpenIntentPerBooking' /\ CapturedIsDated'
    BY DEF IInv, ReuseCreatedIntent, RowsLinked, OneOpenIntentPerBooking, ActiveIntents, CapturedIsDated
  <1>6. ASSUME NEW b \in Bookings, NEW k \in Keys, prepared'[b][k] # None
        PROVE  charges'[prepared'[b][k]] = b /\ b \in completed'
    <2>1. CASE <<b, k>> = asks[r]
      <3>1. b = asks[r][1] /\ k = asks[r][2]
        BY <2>1
      <3>2. prepared'[b][k] = i
        BY <1>1, <1>2, <3>1, StoredAnswers
      <3> QED BY <1>1, <3>1, <3>2 DEF ReuseCreatedIntent
    <2>2. CASE <<b, k>> # asks[r]
      <3>1. prepared'[b][k] = prepared[b][k]
        BY <1>1, <1>2, <2>2, StoredAnswers
      <3> QED BY <1>6, <3>1 DEF IInv, AnswersNameTheirIntents, ReuseCreatedIntent
    <2> QED BY <2>1, <2>2
  <1>7. ASSUME NEW j \in Intents, intent'[j] # "NONE"
        PROVE  \E b \in Bookings, k \in Keys : prepared'[b][k] = j
    <2>1. PICK b \in Bookings, k \in Keys : prepared[b][k] = j
      BY <1>7 DEF IInv, AnswersNameTheirIntents, ReuseCreatedIntent
    <2>2. CASE <<b, k>> = asks[r]
      <3>1. b = asks[r][1] /\ k = asks[r][2]
        BY <2>2
      <3>2. prepared[b][k] = None
        BY <1>1, <1>2, <3>1, StoredAnswers
      <3> QED BY <2>1, <3>2, NoneIsFresh
    <2>3. CASE <<b, k>> # asks[r]
      <3>1. prepared'[b][k] = prepared[b][k]
        BY <1>1, <1>2, <2>3, StoredAnswers
      <3> QED BY <2>1, <3>1
    <2> QED BY <2>2, <2>3
  <1>8. AnswersNameTheirIntents'
    BY <1>6, <1>7 DEF AnswersNameTheirIntents
  <1> QED BY <1>4, <1>5, <1>8 DEF IInv

LEMMA InsertStep ==
  ASSUME IInv, NEW r \in Requests, NEW i \in Intents, InsertIntent(r, i)
  PROVE  IInv'
  <1>1. asks[r] # None /\ asks[r][1] \in completed /\ intent[i] = "NONE"
        /\ ActiveIntents(asks[r][1]) = {} /\ StoreAnswer(r, i)
    BY DEF InsertIntent
  <1>2. TypeOK
    BY DEF IInv
  <1>3. asks[r][1] \in Bookings /\ asks[r][2] \in Keys
    BY <1>1, <1>2, AskNames
  <1>4. TypeOK'
    BY <1>1, <1>2, <1>3, StoredAnswers, NoRowNoStatus DEF InsertIntent, TypeOK
  <1>5. RowsLinked'
    BY <1>3, <1>2, NoneIsFresh DEF IInv, InsertIntent, RowsLinked, TypeOK
  <1>6. CapturedIsDated'
    BY DEF IInv, InsertIntent, CapturedIsDated
  <1>7. ASSUME NEW j \in Intents
        PROVE  /\ j # i => intent'[j] = intent[j] /\ charges'[j] = charges[j]
               /\ intent'[i] = "CREATED" /\ charges'[i] = asks[r][1]
    BY <1>2 DEF InsertIntent, TypeOK
  <1>8. OneOpenIntentPerBooking'
    <2> SUFFICES ASSUME NEW b \in Bookings, NEW j \in Intents, NEW m \in Intents,
                        charges'[j] = b, intent'[j] \in ActiveStatuses,
                        charges'[m] = b, intent'[m] \in ActiveStatuses
                 PROVE  j = m
      BY DEF OneOpenIntentPerBooking, ActiveIntents
    <2>1. CASE b = asks[r][1]
      BY <1>1, <1>7, <2>1 DEF ActiveIntents
    <2>2. CASE b # asks[r][1]
      BY <1>7, <2>2 DEF IInv, OneOpenIntentPerBooking, ActiveIntents
    <2> QED BY <2>1, <2>2
  <1>9. ASSUME NEW b \in Bookings, NEW k \in Keys, prepared'[b][k] # None
        PROVE  charges'[prepared'[b][k]] = b /\ b \in completed'
    <2>1. CASE <<b, k>> = asks[r]
      <3>1. b = asks[r][1] /\ k = asks[r][2]
        BY <2>1
      <3>2. prepared'[b][k] = i
        BY <1>1, <1>2, <3>1, StoredAnswers
      <3> QED BY <1>1, <1>7, <3>1, <3>2 DEF InsertIntent
    <2>2. CASE <<b, k>> # asks[r]
      <3>1. prepared'[b][k] = prepared[b][k]
        BY <1>1, <1>2, <2>2, StoredAnswers
      <3>2. prepared[b][k] \in Intents
        BY <1>2, <1>9, <3>1 DEF TypeOK
      <3>3. charges[prepared[b][k]] = b /\ b \in completed
        BY <1>9, <3>1 DEF IInv, AnswersNameTheirIntents
      <3>4. prepared[b][k] # i
        BY <1>1, <3>3 DEF IInv, RowsLinked
      <3> QED BY <1>7, <3>1, <3>2, <3>3, <3>4 DEF InsertIntent
    <2> QED BY <2>1, <2>2
  <1>10. ASSUME NEW j \in Intents, intent'[j] # "NONE"
         PROVE  \E b \in Bookings, k \in Keys : prepared'[b][k] = j
    <2>1. CASE j = i
      BY <1>1, <1>2, <1>3, <2>1, StoredAnswers
    <2>2. CASE j # i
      <3>1. PICK b \in Bookings, k \in Keys : prepared[b][k] = j
        BY <1>7, <1>10, <2>2 DEF IInv, AnswersNameTheirIntents
      <3>2. <<b, k>> # asks[r]
        <4>1. prepared[asks[r][1]][asks[r][2]] = None
          BY <1>1, <1>2, StoredAnswers
        <4> QED BY <3>1, <4>1, NoneIsFresh
      <3>3. prepared'[b][k] = prepared[b][k]
        BY <1>1, <1>2, <3>2, StoredAnswers
      <3> QED BY <3>1, <3>3
    <2> QED BY <2>1, <2>2
  <1>11. AnswersNameTheirIntents'
    BY <1>9, <1>10 DEF AnswersNameTheirIntents
  <1> QED BY <1>4, <1>5, <1>6, <1>8, <1>11 DEF IInv

-----------------------------------------------------------------------------
(* The provider side. *)

LEMMA MoveIntentStep ==
  ASSUME IInv, NEW i \in Intents, NEW to \in PaymentStatuses, MoveIntent(i, to)
  PROVE  IInv'
  <1>1. intent[i] \in PaymentStatuses /\ intent[i] # "NONE"
    BY DEF IInv, TypeOK, MoveIntent
  <1>2. to \in ActiveStatuses => intent[i] \in ActiveStatuses
    BY <1>1, Tables DEF MoveIntent
  <1>3. TypeOK' /\ RowsLinked'
    BY <1>1, NoRowNoStatus DEF IInv, MoveIntent, TypeOK, RowsLinked
  <1>4. ASSUME NEW j \in Intents
        PROVE  charges'[j] = charges[j] /\ intent'[j] = (IF j = i THEN to ELSE intent[j])
    BY DEF IInv, MoveIntent, TypeOK
  <1>5. OneOpenIntentPerBooking'
    <2> SUFFICES ASSUME NEW b \in Bookings, NEW j \in Intents, NEW m \in Intents,
                        charges'[j] = b, intent'[j] \in ActiveStatuses,
                        charges'[m] = b, intent'[m] \in ActiveStatuses
                 PROVE  j = m
      BY DEF OneOpenIntentPerBooking, ActiveIntents
    <2> QED BY <1>2, <1>4 DEF IInv, OneOpenIntentPerBooking, ActiveIntents
  <1>6. AnswersNameTheirIntents'
    BY <1>1, <1>4 DEF IInv, MoveIntent, AnswersNameTheirIntents
  <1>7. CapturedIsDated'
    BY DEF IInv, MoveIntent, CapturedIsDated
  <1> QED BY <1>3, <1>5, <1>6, <1>7 DEF IInv

\* The new row of a payment, and what it leaves alone.
LEMMA WrittenPayment ==
  ASSUME TypeOK, CapturedIsDated, NEW p \in Payments, NEW i, NEW status \in PaymentStatuses,
         NEW cap \in 0 .. Fare, NEW ref \in 0 .. Fare, WritePayment(p, i, status, cap, ref)
  PROVE  /\ payment' \in [Payments -> PaymentStatuses \cup {"NONE"}]
         /\ captured' \in [Payments -> 0 .. Fare]
         /\ refunded' \in [Payments -> 0 .. Fare]
         /\ dated' \subseteq Payments
         /\ CapturedIsDated'
         /\ payment'[p] = status
         /\ \A q \in Payments : q # p => payment'[q] = payment[q]
  <1>1. /\ payment' \in [Payments -> PaymentStatuses \cup {"NONE"}]
        /\ captured' \in [Payments -> 0 .. Fare]
        /\ refunded' \in [Payments -> 0 .. Fare]
        /\ dated' \subseteq Payments
    BY DEF TypeOK, WritePayment
  <1>2. ASSUME NEW q \in Payments
        PROVE  /\ payment'[q] = (IF q = p THEN status ELSE payment[q])
               /\ captured'[q] = (IF q = p THEN cap ELSE captured[q])
               /\ refunded'[q] = (IF q = p THEN ref ELSE refunded[q])
    BY DEF TypeOK, WritePayment
  <1>3. ASSUME NEW q \in Payments, payment'[q] \in CapturedStatuses
        PROVE  captured'[q] > 0 /\ q \in dated' /\ refunded'[q] <= captured'[q]
    <2>1. CASE q = p
      BY <1>2, <1>3, <2>1 DEF WritePayment, Consistent
    <2>2. CASE q # p
      BY <1>2, <1>3, <2>2 DEF WritePayment, CapturedIsDated
    <2> QED BY <2>1, <2>2
  <1>4. CapturedIsDated'
    BY <1>3 DEF CapturedIsDated
  <1> QED BY <1>1, <1>2, <1>4

LEMMA RecordPaymentStep ==
  ASSUME IInv, NEW p \in Payments, NEW i \in Intents, NEW status \in PaymentStatuses,
         NEW cap \in 0 .. Fare, NEW ref \in 0 .. Fare, RecordPayment(p, i, status, cap, ref)
  PROVE  IInv'
  <1>1. WritePayment(p, i, status, cap, ref)
    BY DEF RecordPayment
  <1>2. TypeOK' /\ RowsLinked' /\ CapturedIsDated'
    BY <1>1, WrittenPayment DEF IInv, RecordPayment, WritePayment, TypeOK, RowsLinked
  <1>3. OneOpenIntentPerBooking' /\ AnswersNameTheirIntents'
    BY <1>1 DEF IInv, WritePayment, OneOpenIntentPerBooking, ActiveIntents, AnswersNameTheirIntents
  <1> QED BY <1>2, <1>3 DEF IInv

LEMMA UpdatePaymentStep ==
  ASSUME IInv, NEW p \in Payments, NEW status \in PaymentStatuses,
         NEW cap \in 0 .. Fare, NEW ref \in 0 .. Fare, UpdatePayment(p, status, cap, ref)
  PROVE  IInv'
  <1>1. WritePayment(p, pays[p], status, cap, ref)
    BY DEF UpdatePayment
  <1>2. TypeOK' /\ RowsLinked' /\ CapturedIsDated'
    BY <1>1, WrittenPayment DEF IInv, UpdatePayment, WritePayment, TypeOK, RowsLinked
  <1>3. OneOpenIntentPerBooking' /\ AnswersNameTheirIntents'
    BY <1>1 DEF IInv, WritePayment, OneOpenIntentPerBooking, ActiveIntents, AnswersNameTheirIntents
  <1> QED BY <1>2, <1>3 DEF IInv

LEMMA NextIInv == IInv /\ [Next]_vars => IInv'
  <1> SUFFICES ASSUME IInv, [Next]_vars PROVE IInv'
    OBVIOUS
  <1>1. CASE \E b \in Bookings : CompleteBooking(b)
    BY <1>1, CompleteBookingStep
  <1>2. CASE \E r \in Requests, b \in Bookings, k \in Keys : LookUpPreparation(r, b, k)
    BY <1>2, LookUpStep
  <1>3. CASE \E r \in Requests, i \in Intents : ReuseCreatedIntent(r, i)
    BY <1>3, ReuseStep
  <1>4. CASE \E r \in Requests, i \in Intents : InsertIntent(r, i)
    BY <1>4, InsertStep
  <1>5. CASE \E r \in Requests : RollBack(r)
    BY <1>5, RollBackStep
  <1>6. CASE \E i \in Intents, to \in PaymentStatuses : MoveIntent(i, to)
    BY <1>6, MoveIntentStep
  <1>7. CASE \E p \in Payments, status \in PaymentStatuses, cap, ref \in 0 .. Fare :
               \E i \in Intents : RecordPayment(p, i, status, cap, ref)
    BY <1>7, RecordPaymentStep
  <1>8. CASE \E p \in Payments, status \in PaymentStatuses, cap, ref \in 0 .. Fare :
               UpdatePayment(p, status, cap, ref)
    BY <1>8, UpdatePaymentStep
  <1>9. CASE UNCHANGED vars
    BY <1>9 DEF vars, IInv, TypeOK, RowsLinked, OneOpenIntentPerBooking, ActiveIntents,
                AnswersNameTheirIntents, CapturedIsDated
  <1> QED BY <1>1, <1>2, <1>3, <1>4, <1>5, <1>6, <1>7, <1>8, <1>9 DEF Next

LEMMA SpecIInv == Spec => []IInv
  BY InitIInv, NextIInv, PTL DEF Spec

-----------------------------------------------------------------------------
(* The theorems. *)

\* Every reachable state of preparePaymentIntent and the finance rows is well typed.
THEOREM PaymentTypeOK == Spec => []TypeOK
  <1>1. IInv => TypeOK
    BY DEF IInv
  <1> QED BY SpecIInv, <1>1, PTL

\* A Booking has one intent that may still charge, for any number of requests.
THEOREM PaymentOneOpenIntent == Spec => []OneOpenIntentPerBooking
  <1>1. IInv => OneOpenIntentPerBooking
    BY DEF IInv
  <1> QED BY SpecIInv, <1>1, PTL

\* Every stored answer of preparePaymentIntent names an intent of its own Booking.
THEOREM PaymentAnswersTrue == Spec => []AnswersNameTheirIntents
  <1>1. IInv => AnswersNameTheirIntents
    BY DEF IInv
  <1> QED BY SpecIInv, <1>1, PTL

\* What a step does to a captured payment.
LEMMA StepKeepsCaptured ==
  ASSUME IInv, [Next]_vars, NEW p \in Payments, payment[p] \in CapturedStatuses
  PROVE  payment'[p] \in CapturedStatuses
  <1>1. payment[p] \in PaymentStatuses /\ payment[p] # "NONE"
    BY NoRowNoStatus
  <1>2. CASE payment' = payment
    BY <1>2
  <1>3. ASSUME NEW q \in Payments, NEW i \in Intents, NEW status \in PaymentStatuses,
               NEW cap \in 0 .. Fare, NEW ref \in 0 .. Fare, RecordPayment(q, i, status, cap, ref)
        PROVE  payment'[p] \in CapturedStatuses
    <2>1. q # p
      BY <1>1, <1>3 DEF RecordPayment
    <2> QED BY <1>3, <2>1 DEF IInv, TypeOK, RecordPayment, WritePayment
  <1>4. ASSUME NEW q \in Payments, NEW status \in PaymentStatuses,
               NEW cap \in 0 .. Fare, NEW ref \in 0 .. Fare, UpdatePayment(q, status, cap, ref)
        PROVE  payment'[p] \in CapturedStatuses
    <2>1. payment'[p] = (IF p = q THEN status ELSE payment[p])
      BY <1>4 DEF IInv, TypeOK, UpdatePayment, WritePayment
    <2>2. p = q => status \in CapturedStatuses
      BY <1>1, <1>4, Tables DEF UpdatePayment
    <2> QED BY <2>1, <2>2
  <1>5. \/ payment' = payment
        \/ \E q \in Payments, i \in Intents, status \in PaymentStatuses, cap, ref \in 0 .. Fare :
             RecordPayment(q, i, status, cap, ref)
        \/ \E q \in Payments, status \in PaymentStatuses, cap, ref \in 0 .. Fare :
             UpdatePayment(q, status, cap, ref)
    BY DEF Next, vars, CompleteBooking, LookUpPreparation, ReuseCreatedIntent, InsertIntent,
           RollBack, MoveIntent
  <1> QED BY <1>2, <1>3, <1>4, <1>5

\* Captured money stays on record with its time, in whatever order the provider
\* side moves intents and records and updates payments within the guards of the
\* schema.
THEOREM PaymentCapturedMoneyStays == Spec => CapturedMoneyStays
  <1>1. ASSUME IInv, IInv', [Next]_vars, NEW p \in Payments, payment[p] \in CapturedStatuses
        PROVE  /\ payment'[p] \in CapturedStatuses
               /\ captured'[p] > 0
               /\ p \in dated'
               /\ refunded'[p] <= captured'[p]
    <2>1. payment'[p] \in CapturedStatuses
      BY <1>1, StepKeepsCaptured
    <2> QED BY <1>1, <2>1 DEF IInv, CapturedIsDated
  <1>2. IInv /\ IInv' /\ [Next]_vars =>
          [\A p \in Payments :
             payment[p] \in CapturedStatuses =>
               /\ payment'[p] \in CapturedStatuses
               /\ captured'[p] > 0
               /\ p \in dated'
               /\ refunded'[p] <= captured'[p]]_vars
    BY <1>1
  <1> QED BY SpecIInv, <1>2, PTL DEF Spec, CapturedMoneyStays

==============================================================================
