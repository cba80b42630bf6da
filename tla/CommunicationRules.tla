-------------------------- MODULE CommunicationRules --------------------------
(***************************************************************************)
(* The decisions of the Communications domain: packages/domain             *)
(* communications.ts, communications-operations.ts and                     *)
(* communications-closure.ts.  They were written in three phases and       *)
(* decide on the same messages; Communications compares them.  A list of   *)
(* blockers is a set, an ordered route is the set of its channels.         *)
(***************************************************************************)
EXTENDS Integers

Contactless == {"IN_APP", "PUSH", "PROTECTED_CHAT", "AUTHENTICATED_PORTAL"}
Voice == {"VOICE_CALL", "MASKED_CALL"}
Channels == Contactless \cup Voice \cup {"SMS", "EMAIL"}

Purposes == {"BOOKING_OPERATIONAL", "JOURNEY_OPERATIONAL", "SAFETY", "SCHOOL_SAFEGUARDING",
             "PAYMENT", "ACCOUNT_SECURITY", "DRIVER_OPERATIONS", "SUPPORT", "BUSINESS", "MARKETING"}
CriticalPurposes == {"SAFETY", "SCHOOL_SAFEGUARDING", "ACCOUNT_SECURITY"}
Priorities == {"P0", "P1", "P2", "P3", "P4"}

DeliveryStates == {"QUEUED", "SENT", "DELIVERED", "READ", "FAILED", "EXPIRED", "UNKNOWN", "SUPPRESSED_STALE"}
Failed == {"FAILED", "UNKNOWN", "EXPIRED"}
Arrived == {"DELIVERED", "READ"}

-----------------------------------------------------------------------------
(* communications.ts *)

\* critical, inside planCommunicationRoute.
Critical(q) == q.priority \in {"P0", "P1"} \/ q.purpose \in CriticalPurposes

\* The filters of planCommunicationRoute over what was seen of the recipient:
\* channels of a verified contact, denied, blocked and out of order.
SafeChannels(q, seen) ==
  {c \in q.channels :
     /\ c \notin seen.denied \cup seen.blocked \cup seen.down
     /\ c \in Contactless \cup seen.verified
     /\ ~(q.silent /\ c \in Voice)}

Route(state, channels) == [state |-> state, channels |-> channels]

\* Faulty variant: Silent Assistance is left to the caller.
PlanCommunicationRoute_Aloud(q, seen) ==
  LET safe == SafeChannels([q EXCEPT !.silent = FALSE], seen) IN
  IF q.purpose = "MARKETING" /\ ~seen.consent THEN Route("SUPPRESSED_NO_CONSENT", {})
  ELSE IF q.quiet /\ ~Critical(q) THEN Route("DEFERRED_QUIET_HOURS", {})
  ELSE IF safe = {} THEN Route("NO_SAFE_CHANNEL", {})
  ELSE Route("ROUTABLE", safe)

PlanCommunicationRoute(q, seen) ==
  LET safe == SafeChannels(q, seen) IN
  IF q.purpose = "MARKETING" /\ ~seen.consent THEN Route("SUPPRESSED_NO_CONSENT", {})
  ELSE IF q.quiet /\ ~Critical(q) THEN Route("DEFERRED_QUIET_HOURS", {})
  ELSE IF safe = {} THEN Route("NO_SAFE_CHANNEL", {})
  ELSE Route("ROUTABLE", safe)

\* assessCommunicationCurrency of a QUEUED communication; "CURRENT" for none.
AssessCommunicationCurrency(expired, current) ==
  IF expired THEN "EXPIRED" ELSE IF current THEN "CURRENT" ELSE "SOURCE_VERSION_STALE"

AcknowledgementAction(required, state, overdue, acknowledged) ==
  IF ~required THEN "NOT_REQUIRED"
  ELSE IF acknowledged THEN "ACKNOWLEDGED"
  ELSE IF state \in Failed \cup {"SUPPRESSED_STALE"} \/ overdue THEN "HUMAN_ESCALATION_REQUIRED"
  ELSE "WAITING"

-----------------------------------------------------------------------------
(* communications-operations.ts *)

CriticalClasses == {"SAFETY_CRITICAL", "SAFEGUARDING", "ACTIVE_JOURNEY", "SECURITY"}
OutageStates == {"HEALTHY", "DEGRADED", "PARTIAL_OUTAGE", "OUTAGE", "RECOVERING", "UNKNOWN"}
PolicyVoice == {"MASKED_CALL", "AUTOMATED_VOICE", "OPERATOR_CALL", "LANDLINE"}

\* evaluateNotificationPolicy.  defects holds the failings of policy, event and
\* wording that block on their own; the others need a second input.
NotificationPolicy(in) ==
  LET blocked == \/ in.defects # {}
                 \/ in.stale
                 \/ in.class = "MARKETING" /\ ~in.consent
      permitted == {c \in in.channels : c \notin in.unsafe /\ ~(in.silent /\ c \in PolicyVoice)}
  IN [allowed    |-> ~blocked /\ permitted # {},
      permitted  |-> permitted,
      escalation |-> in.class \in CriticalClasses /\ (permitted = {} \/ blocked)]

\* deliveryAssuranceDecision.
DeliveryAssurance(in) ==
  IF in.required /\ in.acknowledged THEN "COMPLETE"
  ELSE IF ~in.required /\ in.state \in Arrived THEN "COMPLETE"
  ELSE IF in.required /\ in.state \in Arrived /\ ~in.overdue THEN "WAIT_FOR_ACKNOWLEDGEMENT"
  ELSE IF in.critical /\ (\/ in.contact = "UNREACHABLE" \/ in.overdue
                          \/ in.attempts >= in.limit /\ ~in.fallback)
       THEN "OPEN_COMMUNICATION_FAILURE_CASE"
  ELSE IF in.fallback /\ in.attempts < in.limit /\ in.state \in Failed THEN "TRIGGER_FALLBACK"
  ELSE "NO_ACTION"

\* providerOutageRoutingDecision.
ProviderOutage(health, class, alternate, rules, current, replay) ==
  IF health = "RECOVERING" /\ replay THEN IF current THEN "HOLD_FOR_REVALIDATION" ELSE "DISCARD_STALE"
  ELSE IF health = "HEALTHY" THEN "NORMAL"
  ELSE IF class \in {"MARKETING", "ROUTINE"} THEN "DELAY"
  ELSE IF alternate /\ rules THEN "APPROVED_FAILOVER"
  ELSE "HUMAN_CONTINGENCY"

-----------------------------------------------------------------------------
(* communications-closure.ts *)

\* Faulty variant: an arrived message completes, acknowledged or not.
ClosureRoute_Arrived(in) ==
  IF in.acknowledged \/ in.state \in Arrived THEN "COMPLETE"
  ELSE IF in.attempts = 0 THEN "ATTEMPT_PRIMARY"
  ELSE IF in.attempts >= in.limit
       THEN IF in.critical THEN "OPEN_COMMUNICATION_FAILURE_CASE" ELSE "STOP_ATTEMPT_CAP"
  ELSE IF in.state \in Failed /\ in.fallback THEN "ATTEMPT_FALLBACK"
  ELSE IF in.critical /\ in.state \in Failed THEN "OPEN_COMMUNICATION_FAILURE_CASE"
  ELSE "WAIT_FOR_DELIVERY_OR_ACKNOWLEDGEMENT"

\* decideCommunicationsClosureRoute of a message that is current, permitted and
\* under no operator's control: the steps before turn every other one away.
ClosureRoute(in) ==
  IF in.acknowledged \/ (~in.required /\ in.state \in Arrived) THEN "COMPLETE"
  ELSE IF in.attempts = 0 THEN "ATTEMPT_PRIMARY"
  ELSE IF in.attempts >= in.limit
       THEN IF in.critical THEN "OPEN_COMMUNICATION_FAILURE_CASE" ELSE "STOP_ATTEMPT_CAP"
  ELSE IF in.state \in Failed /\ in.fallback THEN "ATTEMPT_FALLBACK"
  ELSE IF in.critical /\ in.state \in Failed THEN "OPEN_COMMUNICATION_FAILURE_CASE"
  ELSE "WAIT_FOR_DELIVERY_OR_ACKNOWLEDGEMENT"

\* decideCommunicationsDegradedMode of an event that is no duplicate, with the
\* security service available.
DegradedMode(health, class, alternate, current, replay) ==
  IF replay THEN IF current THEN "HOLD_FOR_REVALIDATION" ELSE "DISCARD_STALE"
  ELSE IF health = "HEALTHY" THEN "NORMAL"
  ELSE IF class \in {"MARKETING", "ROUTINE"} THEN "DELAY"
  ELSE IF alternate THEN "APPROVED_FAILOVER"
  ELSE "HUMAN_CONTINGENCY"

\* The two answers to an outage are one wherever both look at the same facts: a
\* replay is asked for while the provider recovers, and an alternate is approved
\* only if it keeps privacy, consent and template rules.
OutageRoutesAgree ==
  \A health \in OutageStates, class \in CriticalClasses \cup {"MARKETING", "ROUTINE", "FINANCIAL"} :
    \A alternate, current, replay \in BOOLEAN :
      (replay => health = "RECOVERING") =>
        ProviderOutage(health, class, alternate, TRUE, current, replay)
          = DegradedMode(health, class, alternate, current, replay)
=============================================================================
