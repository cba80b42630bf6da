-------------------------------- MODULE Payment --------------------------------
(***************************************************************************)
(* Preparing a charge after a completed Booking                            *)
(* (services/api/src/modules/finance) and the rows of the finance schema.  *)
(*                                                                         *)
(* preparePaymentIntent looks its key up before it locks the Booking, so   *)
(* it is two actions. The provider side is not in the repository: it moves *)
(* an intent, and records and updates a payment, as the triggers and       *)
(* indexes of the schema let it. It deletes no row, leaves a payment with  *)
(* its intent and begins no intent past CREATED, which the schema would    *)
(* let it do. An amount is counted in units of which the fare is Fare.     *)
(***************************************************************************)
EXTENDS Naturals

CONSTANTS
    Bookings, Intents, Payments, Keys, Requests, None,
    Fare   \* amount_minor of the fare agreement of every Booking

ASSUME NoneIsFresh == None \notin Bookings \cup Intents \cup Keys
ASSUME FarePositive == Fare \in Nat \ {0}

VARIABLES
    completed,   \* Bookings whose status is COMPLETED
    intent,      \* intent[i]: status of finance.payment_intent, "NONE" before
    charges,     \* charges[i]: its booking_id
    prepared,    \* prepared[b][k]: the intent stored as the answer to key k for Booking b
    payment,     \* payment[p]: status of finance.payment, "NONE" before
    pays,        \* pays[p]: its payment_intent_id
    captured,    \* captured[p]: captured_amount_minor
    refunded,    \* refunded[p]: refunded_amount_minor
    dated,       \* payments with a captured_at
    asks         \* asks[r]: the Booking and key of a request past its look-up, or None

intentVars == <<intent, charges, prepared>>
paymentVars == <<payment, pays, captured, refunded, dated>>
vars == <<completed, intentVars, paymentVars, asks>>

PaymentStatuses ==
    {"CREATED", "PROCESSING", "REQUIRES_ACTION", "AUTHORISED", "CAPTURED", "PARTIALLY_REFUNDED",
     "REFUNDED", "FAILED", "VOIDED", "EXPIRED", "STATUS_UNKNOWN", "DISPUTED", "CHARGEBACK"}

CapturedStatuses == {"CAPTURED", "PARTIALLY_REFUNDED", "REFUNDED", "DISPUTED", "CHARGEBACK"}

(* finance_one_active_payment_intent_per_booking *)
ActiveStatuses == {"CREATED", "PROCESSING", "REQUIRES_ACTION", "AUTHORISED", "STATUS_UNKNOWN"}

(* paymentTransitions of the domain, and the guard of payment_intent *)
IntentTransitions(from) ==
    CASE from = "CREATED" -> {"PROCESSING", "EXPIRED", "VOIDED"}
      [] from = "PROCESSING" -> {"REQUIRES_ACTION", "AUTHORISED", "FAILED", "STATUS_UNKNOWN"}
      [] from = "REQUIRES_ACTION" -> {"PROCESSING", "AUTHORISED", "FAILED", "EXPIRED", "STATUS_UNKNOWN"}
      [] from = "AUTHORISED" -> {"CAPTURED", "VOIDED", "STATUS_UNKNOWN"}
      [] from = "CAPTURED" -> {"PARTIALLY_REFUNDED", "REFUNDED", "DISPUTED", "CHARGEBACK"}
      [] from = "PARTIALLY_REFUNDED" -> {"PARTIALLY_REFUNDED", "REFUNDED", "DISPUTED", "CHARGEBACK"}
      [] from = "REFUNDED" -> {"DISPUTED", "CHARGEBACK"}
      [] from = "STATUS_UNKNOWN" -> {"REQUIRES_ACTION", "AUTHORISED", "CAPTURED", "FAILED", "VOIDED"}
      [] from = "DISPUTED" -> {"CAPTURED", "PARTIALLY_REFUNDED", "REFUNDED", "CHARGEBACK"}
      [] OTHER -> {}

(* Faulty variant: an unknown outcome of a disputed payment is let in. *)
PaymentTransitions_UnknownAfterDispute(from) ==
    IF from = "DISPUTED" THEN {"CAPTURED", "STATUS_UNKNOWN"} ELSE IntentTransitions(from)

(* guard_payment_status_transition has a table of its own. *)
PaymentTransitions(from) ==
    CASE from = "CREATED" -> {"PROCESSING", "REQUIRES_ACTION", "AUTHORISED", "FAILED", "VOIDED",
                              "EXPIRED", "STATUS_UNKNOWN"}
      [] from = "PROCESSING" -> {"REQUIRES_ACTION", "AUTHORISED", "CAPTURED", "FAILED", "STATUS_UNKNOWN"}
      [] from = "AUTHORISED" -> {"CAPTURED", "VOIDED", "FAILED", "STATUS_UNKNOWN"}
      [] from = "STATUS_UNKNOWN" -> {"PROCESSING", "REQUIRES_ACTION", "AUTHORISED", "CAPTURED",
                                     "FAILED", "VOIDED"}
      [] OTHER -> IntentTransitions(from) \ {from}

ActiveIntents(b) == {i \in Intents : charges[i] = b /\ intent[i] \in ActiveStatuses}

TypeOK ==
    /\ completed \subseteq Bookings
    /\ intent \in [Intents -> PaymentStatuses \cup {"NONE"}]
    /\ charges \in [Intents -> Bookings \cup {None}]
    /\ prepared \in [Bookings -> [Keys -> Intents \cup {None}]]
    /\ payment \in [Payments -> PaymentStatuses \cup {"NONE"}]
    /\ pays \in [Payments -> Intents \cup {None}]
    /\ captured \in [Payments -> 0 .. Fare]
    /\ refunded \in [Payments -> 0 .. Fare]
    /\ dated \subseteq Payments
    /\ asks \in [Requests -> (Bookings \X Keys) \cup {None}]

Init ==
    /\ completed = {}
    /\ intent = [i \in Intents |-> "NONE"]
    /\ charges = [i \in Intents |-> None]
    /\ prepared = [b \in Bookings |-> [k \in Keys |-> None]]
    /\ payment = [p \in Payments |-> "NONE"]
    /\ pays = [p \in Payments |-> None]
    /\ captured = [p \in Payments |-> 0]
    /\ refunded = [p \in Payments |-> 0]
    /\ dated = {}
    /\ asks = [r \in Requests |-> None]

(* The Journey service completes a Booking. *)
CompleteBooking(b) ==
    /\ completed' = completed \cup {b}
    /\ UNCHANGED <<intentVars, paymentVars, asks>>

(***************************************************************************)
(* preparePaymentIntent                                                    *)
(***************************************************************************)

(* assertBookingPayer passed and the key is not stored; a key that is       *)
(* stored gets the stored answer, which changes nothing.                    *)
LookUpPreparation(r, b, k) ==
    /\ asks[r] = None
    /\ prepared[b][k] = None
    /\ asks' = [asks EXCEPT ![r] = <<b, k>>]
    /\ UNCHANGED <<completed, intentVars, paymentVars>>

StoreAnswer(r, i) ==
    /\ prepared[asks[r][1]][asks[r][2]] = None
    /\ prepared' = [prepared EXCEPT ![asks[r][1]][asks[r][2]] = i]
    /\ asks' = [asks EXCEPT ![r] = None]

ReuseCreatedIntent(r, i) ==
    /\ asks[r] # None
    /\ asks[r][1] \in completed
    /\ charges[i] = asks[r][1]
    /\ intent[i] = "CREATED"
    /\ StoreAnswer(r, i)
    /\ UNCHANGED <<completed, intent, charges, paymentVars>>

(* Faulty variant: without the unique index only CREATED intents are seen. *)
InsertIntent_NoIndex(r, i) ==
    /\ asks[r] # None
    /\ asks[r][1] \in completed
    /\ ~ \E j \in Intents : charges[j] = asks[r][1] /\ intent[j] = "CREATED"
    /\ intent[i] = "NONE"
    /\ intent' = [intent EXCEPT ![i] = "CREATED"]
    /\ charges' = [charges EXCEPT ![i] = asks[r][1]]
    /\ StoreAnswer(r, i)
    /\ UNCHANGED <<completed, paymentVars>>

InsertIntent(r, i) ==
    /\ asks[r] # None
    /\ asks[r][1] \in completed
    /\ ActiveIntents(asks[r][1]) = {}
    /\ intent[i] = "NONE"
    /\ intent' = [intent EXCEPT ![i] = "CREATED"]
    /\ charges' = [charges EXCEPT ![i] = asks[r][1]]
    /\ StoreAnswer(r, i)
    /\ UNCHANGED <<completed, paymentVars>>

(* The Booking is not COMPLETED, an intent is active at the provider, the   *)
(* key was stored by another request meanwhile, or the process died.        *)
RollBack(r) ==
    /\ asks[r] # None
    /\ asks' = [asks EXCEPT ![r] = None]
    /\ UNCHANGED <<completed, intentVars, paymentVars>>

(***************************************************************************)
(* The provider side, inside the guards of the schema                      *)
(***************************************************************************)

(* guard_payment_intent_status_transition. *)
MoveIntent(i, to) ==
    /\ intent[i] # "NONE"
    /\ to \in IntentTransitions(intent[i])
    /\ intent' = [intent EXCEPT ![i] = to]
    /\ UNCHANGED <<completed, charges, prepared, paymentVars, asks>>

(* guard_payment_intent_consistency on the new row. *)
Consistent(i, status, cap, ref) ==
    /\ ref <= cap
    /\ status \in CapturedStatuses => cap > 0
    /\ status \in {"PARTIALLY_REFUNDED", "REFUNDED"} => ref > 0
    /\ status = "REFUNDED" => ref = cap
    /\ intent[i] = "CREATED" => cap = 0

(* guard_payment_capture_timestamp leaves captured_at no choice: a captured *)
(* status needs it and the others may not have it.                          *)
WritePayment(p, i, status, cap, ref) ==
    /\ Consistent(i, status, cap, ref)
    /\ payment' = [payment EXCEPT ![p] = status]
    /\ captured' = [captured EXCEPT ![p] = cap]
    /\ refunded' = [refunded EXCEPT ![p] = ref]
    /\ dated' = IF status \in CapturedStatuses THEN dated \cup {p} ELSE dated \ {p}
    /\ UNCHANGED <<completed, intentVars, asks>>

RecordPayment(p, i, status, cap, ref) ==
    /\ payment[p] = "NONE"
    /\ intent[i] # "NONE"
    /\ pays' = [pays EXCEPT ![p] = i]
    /\ WritePayment(p, i, status, cap, ref)

(* A change of status needs its payment_transition row in the transaction,  *)
(* which is written with it.                                                *)
UpdatePayment(p, status, cap, ref) ==
    /\ payment[p] # "NONE"
    /\ status \in PaymentTransitions(payment[p]) \cup {payment[p]}
    /\ WritePayment(p, pays[p], status, cap, ref)
    /\ UNCHANGED pays

Next ==
    \/ \E b \in Bookings : CompleteBooking(b)
    \/ \E r \in Requests :
        \/ \E b \in Bookings, k \in Keys : LookUpPreparation(r, b, k)
        \/ \E i \in Intents : ReuseCreatedIntent(r, i) \/ InsertIntent(r, i)
        \/ RollBack(r)
    \/ \E i \in Intents, to \in PaymentStatuses : MoveIntent(i, to)
    \/ \E p \in Payments, status \in PaymentStatuses, cap, ref \in 0 .. Fare :
        \/ \E i \in Intents : RecordPayment(p, i, status, cap, ref)
        \/ UpdatePayment(p, status, cap, ref)

Spec == Init /\ [][Next]_vars

(***************************************************************************)
(* Reads                                                                   *)
(***************************************************************************)

(* getReceiptByBooking: the payments it chooses from. *)
Receipts(b) == {p \in Payments : captured[p] > 0 /\ charges[pays[p]] = b}

(* getPaymentStatus: retries are never offered, and an unknown outcome asks *)
(* for reconciliation first.                                                *)
ReconciliationRequired(i) == intent[i] = "STATUS_UNKNOWN"

(***************************************************************************)
(* Properties                                                              *)
(***************************************************************************)

(* A Booking has one intent that may still charge, whatever keys its payer  *)
(* sends, however requests overlap and wherever the provider has taken the  *)
(* intent meanwhile; an unknown outcome counts as one.                      *)
OneOpenIntentPerBooking ==
    \A b \in Bookings : \A i, j \in ActiveIntents(b) : i = j

(* What a key was answered with is an intent of that Booking, which is      *)
(* COMPLETED, and every intent was the answer of some key.                  *)
AnswersNameTheirIntents ==
    /\ \A b \in Bookings, k \in Keys :
        prepared[b][k] # None => charges[prepared[b][k]] = b /\ b \in completed
    /\ \A i \in Intents :
        intent[i] # "NONE" => \E b \in Bookings, k \in Keys : prepared[b][k] = i

(* Captured money stays on record with its time: once a payment has been    *)
(* captured no dispute, refund or correction makes its receipt disappear.   *)
CapturedMoneyStays ==
    [][\A p \in Payments :
        payment[p] \in CapturedStatuses =>
            /\ payment'[p] \in CapturedStatuses
            /\ captured'[p] > 0
            /\ p \in dated'
            /\ refunded'[p] <= captured'[p]]_vars

==============================================================================
