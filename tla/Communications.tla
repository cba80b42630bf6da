----------------------------- MODULE Communications -----------------------------
(***************************************************************************)
(* modules/communications: what a service asks to be sent, the plan made   *)
(* of it, and the recipient's acknowledgement.                             *)
(*                                                                         *)
(* requestInternalCommunication reads the recipient's contacts, preference *)
(* and the channels' health in statements of their own, holds no lock and  *)
(* inserts in the end.  acknowledgeCommunication looks its key up, then    *)
(* locks the communication until it commits.  No provider is connected:    *)
(* the worker that will move a communication and observe its deliveries is *)
(* outside the repository and here only keeps to the tables' rules.        *)
(***************************************************************************)
EXTENDS CommunicationRules, Sequences

CONSTANTS People, Messages, Keys, ClientIds, Calls, None,
          Requests,         \* what the other services ask for
          Contacts,         \* the sets of contact points a person may have
          Blockable,        \* channels a person may block
          Breakable,        \* channels that may be out of order
          Observations,     \* what may be observed of a delivery
          Horizon           \* bound of the clock

\* InternalCommunicationRequest.  silent, quiet, current and template stand for
\* what the caller passes of Silent Assistance, quiet hours, the aggregate's
\* version and an approved template.
RequestSet ==
  [recipient : People, purpose : Purposes, priority : Priorities, channels : SUBSET Channels,
   silent : BOOLEAN, quiet : BOOLEAN, current : BOOLEAN, template : BOOLEAN,
   required : BOOLEAN, deadline : Nat \cup {None}, expires : Nat \cup {None}]

ContactSet == [type : {"EMAIL", "MOBILE", "LANDLINE"}, verified : BOOLEAN, denied : BOOLEAN]

ASSUME NoneAssumption == None \notin Nat
ASSUME RequestsAssumption == Requests \subseteq RequestSet
ASSUME ContactsAssumption == Contacts \subseteq SUBSET ContactSet
ASSUME ObservationsAssumption ==
  Observations \subseteq [at : Nat, attempt : Nat, id : Nat, state : DeliveryStates]
ASSUME ChannelsAssumption == Blockable \cup Breakable \subseteq Channels
ASSUME HorizonAssumption == Horizon \in Nat

VARIABLES
  now,        \* the clock of the database
  planning,   \* the request under way, or None
  row,        \* communications.communication, None before it exists
  acks,       \* communication_acknowledgement
  observed,   \* message_delivery of a message, in the order of arrival
  kept,       \* communication_command_deduplication
  call,       \* the acknowledgements under way
  told        \* <<p, m>>: p was told that m is acknowledged

ackRows == <<acks, kept>>
vars == <<now, planning, row, ackRows, observed, call, told>>

Statuses == {"QUEUED", "DELIVERY_PENDING", "DELIVERED", "ACK_REQUIRED", "ACKNOWLEDGED",
             "FAILED", "EXPIRED", "SUPPRESSED"}
Reasons == {"SOURCE_VERSION_STALE", "EXPIRED", "NO_MARKETING_CONSENT", "NO_SAFE_CHANNEL",
            "TEMPLATE_UNAVAILABLE"}

\* What an acknowledgement says.
Body == [person : People, message : Messages, key : Keys, client : ClientIds]
Ack == [message : Messages, person : People, client : ClientIds]
Row == [request : Requests, status : Statuses, reason : Reasons \cup {None}, channels : SUBSET Channels]

ASSUME RowAssumption == None \notin Row \cup Reasons

\* What has been read about the recipient so far.
Seen ==
  [verified : SUBSET Channels, denied : SUBSET Channels, blocked : SUBSET Channels,
   consent : BOOLEAN, down : SUBSET Channels]

Planning ==
  [request : Requests, step : {"contacts", "preference", "health", "insert"}, seen : Seen,
   currency : {"CURRENT", "EXPIRED", "SOURCE_VERSION_STALE"}]

TypeOK ==
  /\ now \in Nat
  /\ planning \in Planning \cup {None}
  /\ row \in [Messages -> Row \cup {None}]
  /\ acks \in SUBSET Ack
  /\ kept \in SUBSET Body
  /\ call \in [Calls -> [step : {"looked", "locked"}, body : Body] \cup {None}]
  /\ told \in SUBSET (People \X Messages)

Init ==
  /\ now = 0
  /\ planning = None
  /\ row = [m \in Messages |-> None]
  /\ observed = [m \in Messages |-> <<>>]
  /\ acks = {} /\ kept = {} /\ told = {}
  /\ call = [c \in Calls |-> None]

-----------------------------------------------------------------------------
(* requestInternalCommunication. *)

ChannelsForContactType(type) ==
  CASE type = "EMAIL"    -> {"EMAIL"}
    [] type = "LANDLINE" -> {"VOICE_CALL", "MASKED_CALL"}
    [] type = "MOBILE"   -> {"SMS", "VOICE_CALL", "MASKED_CALL"}

ContactsOf(contacts, channel) == {k \in contacts : channel \in ChannelsForContactType(k.type)}

\* A channel is verified if one of its contacts is, denied if all of them are.
Verified(contacts) == {ch \in Channels : \E k \in ContactsOf(contacts, ch) : k.verified}
Denied(contacts) ==
  {ch \in Channels : ContactsOf(contacts, ch) # {} /\ \A k \in ContactsOf(contacts, ch) : k.denied}

NothingSeen == [verified |-> {}, denied |-> {}, blocked |-> {}, consent |-> FALSE, down |-> {}]

\* The versions are compared and the template is read first.  Nothing is asked for
\* beyond the bound of the messages.
RequestInternalCommunication(q) ==
  /\ planning = None
  /\ \E m \in Messages : row[m] = None
  /\ planning' = [request |-> q, step |-> "contacts", seen |-> NothingSeen,
                  currency |-> AssessCommunicationCurrency(q.expires # None /\ q.expires <= now, q.current)]
  /\ UNCHANGED <<now, row, ackRows, observed, call, told>>

\* Contacts, preference and health change between the statements: each reads
\* whatever is there.
ReadContacts ==
  /\ planning # None /\ planning.step = "contacts"
  /\ \E contacts \in Contacts :
       planning' = [planning EXCEPT !.step = "preference",
                      !.seen.verified = Verified(contacts), !.seen.denied = Denied(contacts)]
  /\ UNCHANGED <<now, row, ackRows, observed, call, told>>

ReadPreference ==
  /\ planning # None /\ planning.step = "preference"
  /\ \E blocked \in SUBSET Blockable, consent \in BOOLEAN :
       planning' = [planning EXCEPT !.step = "health",
                      !.seen.blocked = blocked, !.seen.consent = consent]
  /\ UNCHANGED <<now, row, ackRows, observed, call, told>>

ReadHealth ==
  /\ planning # None /\ planning.step = "health"
  /\ \E down \in SUBSET Breakable :
       planning' = [planning EXCEPT !.step = "insert", !.seen.down = down]
  /\ UNCHANGED <<now, row, ackRows, observed, call, told>>

\* suppressionReason: the first that applies, None to queue.
SuppressionReason(p, route) ==
  IF p.currency # "CURRENT" THEN p.currency
  ELSE IF ~p.request.template THEN "TEMPLATE_UNAVAILABLE"
  ELSE IF route.state = "SUPPRESSED_NO_CONSENT" THEN "NO_MARKETING_CONSENT"
  ELSE IF route.state = "NO_SAFE_CHANNEL" THEN "NO_SAFE_CHANNEL"
  ELSE None

\* The CHECK constraints of communications.communication.
RowIsAccepted(q) ==
  /\ q.required => q.deadline # None
  /\ q.deadline # None => q.deadline > now
  /\ q.expires # None => q.expires > now

InsertCommunication(m) ==
  LET q == planning.request
      route == PlanCommunicationRoute(q, planning.seen)
      reason == SuppressionReason(planning, route)
  IN /\ planning # None /\ planning.step = "insert" /\ row[m] = None
     /\ RowIsAccepted(q)
     /\ row' = [row EXCEPT ![m] = [request |-> q, reason |-> reason, channels |-> route.channels,
                                   status |-> IF reason = None THEN "QUEUED" ELSE "SUPPRESSED"]]
     /\ planning' = None
     /\ UNCHANGED <<now, ackRows, observed, call, told>>

\* An error, of a constraint or of the connection, rolls the insertion back.
RequestFails ==
  /\ planning # None
  /\ planning' = None
  /\ UNCHANGED <<now, row, ackRows, observed, call, told>>

-----------------------------------------------------------------------------
(* acknowledgeCommunication. *)

Locked(m) == \E c \in Calls : call[c] # None /\ call[c].step = "locked" /\ call[c].body.message = m

Tell(p, m) == told' = told \cup {<<p, m>>}

\* The key is looked up before anything is locked.  The answer kept for it is
\* given again; another request under it is refused.
AcknowledgeCommunication(c, body) ==
  LET prior == {k \in kept : k.person = body.person /\ k.key = body.key} IN
  /\ call[c] = None
  /\ IF prior = {} THEN /\ call' = [call EXCEPT ![c] = [step |-> "looked", body |-> body]]
                        /\ UNCHANGED told
                   ELSE /\ body \in prior
                        /\ Tell(body.person, body.message)
                        /\ UNCHANGED call
  /\ UNCHANGED <<now, planning, row, ackRows, observed>>

\* The checks under the lock; whatever fails one is refused.  An acknowledgement
\* of the same communication cannot exist while it is ACK_REQUIRED.
Acknowledgeable(body) ==
  /\ row[body.message] # None
  /\ row[body.message].request.recipient = body.person
  /\ row[body.message].request.required
  /\ row[body.message].status = "ACK_REQUIRED"
  /\ \A a \in acks : (a.person = body.person /\ a.client = body.client) => a.message = body.message

\* timely: the client's time lies between the creation and now.
LockCommunication(c, timely) ==
  /\ call[c] # None /\ call[c].step = "looked" /\ ~Locked(call[c].body.message)
  /\ call' = [call EXCEPT ![c] = IF timely /\ Acknowledgeable(call[c].body)
                                 THEN [@ EXCEPT !.step = "locked"] ELSE None]
  /\ UNCHANGED <<now, planning, row, ackRows, observed, told>>

\* UNIQUE (recipient, client id) and UNIQUE (command, actor, key): another call
\* may have written since the look.
KeysAreFree(body) ==
  /\ \A a \in acks : ~(a.person = body.person /\ a.client = body.client)
  /\ \A k \in kept : ~(k.person = body.person /\ k.key = body.key)

\* Faulty variant: an existing row is reused, and the communication left alone.
RecordAcknowledgement_Reusing(c) ==
  LET body == call[c].body
      fresh == \A a \in acks : ~(a.person = body.person /\ a.client = body.client)
  IN /\ call[c] # None /\ call[c].step = "locked"
     /\ acks' = IF fresh THEN acks \cup {[message |-> body.message, person |-> body.person, client |-> body.client]}
                ELSE acks
     /\ row' = IF fresh THEN [row EXCEPT ![body.message].status = "ACKNOWLEDGED"] ELSE row
     /\ kept' = kept \cup {body}
     /\ Tell(body.person, body.message)
     /\ call' = [call EXCEPT ![c] = None]
     /\ UNCHANGED <<now, planning, observed>>

\* The acknowledgement, the status and the kept answer are committed together;
\* the answer may be lost on its way.
RecordAcknowledgement(c) ==
  LET body == call[c].body IN
  /\ call[c] # None /\ call[c].step = "locked"
  /\ KeysAreFree(body)
  /\ acks' = acks \cup {[message |-> body.message, person |-> body.person, client |-> body.client]}
  /\ row' = [row EXCEPT ![body.message].status = "ACKNOWLEDGED"]
  /\ kept' = kept \cup {body}
  /\ UNCHANGED told \/ Tell(body.person, body.message)
  /\ call' = [call EXCEPT ![c] = None]
  /\ UNCHANGED <<now, planning, observed>>

\* A unique index or a lost connection: the transaction rolls back.
CallFails(c) ==
  /\ call[c] # None
  /\ call' = [call EXCEPT ![c] = None]
  /\ UNCHANGED <<now, planning, row, ackRows, observed, told>>

-----------------------------------------------------------------------------
(* getCommunication. *)

Acknowledged(m) == \E a \in acks : a.message = m

Before(o, p) ==
  \/ o.at < p.at
  \/ o.at = p.at /\ o.attempt < p.attempt
  \/ o.at = p.at /\ o.attempt = p.attempt /\ o.id < p.id

\* Faulty variant: the observation that arrived last.
Latest_Arrived(seen) == seen[Len(seen)]

\* ORDER BY occurred_at, attempt_number, id: the last one.
Latest(seen) ==
  CHOOSE o \in {seen[i] : i \in DOMAIN seen} : \A i \in DOMAIN seen : ~Before(o, seen[i])

LatestState(m) == IF observed[m] = <<>> THEN "QUEUED" ELSE Latest(observed[m]).state

Overdue(m) == row[m].request.deadline # None /\ row[m].request.deadline <= now

AcknowledgementEscalation(m) ==
  AcknowledgementAction(row[m].request.required, LatestState(m), Overdue(m), Acknowledged(m))

\* The row and its acknowledgement are read in one statement; the deliveries, read
\* in the next one, decide on the escalation of a message without it only.
GetCommunication(p, m) ==
  /\ row[m] # None /\ row[m].request.recipient = p /\ Acknowledged(m)
  /\ Tell(p, m)
  /\ UNCHANGED <<now, planning, row, ackRows, observed, call>>

\* listCommunications: the inbox shows the status of each message of the recipient.
ListCommunications(p) ==
  LET shown == {m \in Messages : /\ row[m] # None /\ row[m].request.recipient = p
                                 /\ row[m].status = "ACKNOWLEDGED"}
  IN /\ shown # {}
     /\ told' = told \cup {<<p, m>> : m \in shown}
     /\ UNCHANGED <<now, planning, row, ackRows, observed, call>>

-----------------------------------------------------------------------------
(* Outside the repository. *)

\* guard_communication_update, without the transition of the recipient.
WorkerTransitions ==
  ({"QUEUED"} \X {"DELIVERY_PENDING", "SUPPRESSED", "EXPIRED", "FAILED"})
  \cup ({"DELIVERY_PENDING"} \X {"DELIVERED", "ACK_REQUIRED", "SUPPRESSED", "EXPIRED", "FAILED"})
  \cup ({"DELIVERED"} \X {"ACK_REQUIRED", "EXPIRED"})
  \cup ({"ACK_REQUIRED"} \X {"EXPIRED", "FAILED"})

WorkerMoves(m, to) ==
  /\ row[m] # None /\ ~Locked(m)
  /\ <<row[m].status, to>> \in WorkerTransitions
  /\ row' = [row EXCEPT ![m] = [row[m] EXCEPT !.status = to,
               !.reason = IF to = "SUPPRESSED" THEN "SOURCE_VERSION_STALE" ELSE row[m].reason]]
  /\ UNCHANGED <<now, planning, ackRows, observed, call, told>>

\* A delivery observation may arrive long after it occurred.
ObserveDelivery(m, o) ==
  /\ row[m] # None /\ row[m].status \notin {"QUEUED", "SUPPRESSED"}
  /\ o.at <= now
  /\ \A n \in Messages : \A i \in DOMAIN observed[n] : observed[n][i].id # o.id
  /\ observed' = [observed EXCEPT ![m] = Append(@, o)]
  /\ UNCHANGED <<now, planning, row, ackRows, call, told>>

Tick ==
  /\ now < Horizon
  /\ now' = now + 1
  /\ UNCHANGED <<planning, row, ackRows, observed, call, told>>
-----------------------------------------------------------------------------
Next ==
  \/ \E q \in Requests : RequestInternalCommunication(q)
  \/ ReadContacts \/ ReadPreference \/ ReadHealth \/ RequestFails
  \/ \E m \in Messages : InsertCommunication(m)
  \/ \E c \in Calls :
       \/ \E body \in Body : AcknowledgeCommunication(c, body)
       \/ \E timely \in BOOLEAN : LockCommunication(c, timely)
       \/ RecordAcknowledgement(c) \/ CallFails(c)
  \/ \E p \in People : ListCommunications(p) \/ \E m \in Messages : GetCommunication(p, m)
  \/ \E m \in Messages, to \in Statuses : WorkerMoves(m, to)
  \/ \E m \in Messages, o \in Observations : ObserveDelivery(m, o)
  \/ Tick

Spec == Init /\ [][Next]_vars
-----------------------------------------------------------------------------
(* Properties. *)

\* Whoever was told that a message is acknowledged can rely on it: through calls
\* that wait for each other, keys and client ids that are used again, lost answers
\* and retries, each acknowledgement is one row, of the recipient, of a message
\* that is ACKNOWLEDGED, and no other message is.
AcknowledgementsAreTrue ==
  /\ \A t \in told : \E a \in acks : a.person = t[1] /\ a.message = t[2]
  /\ \A a \in acks : /\ row[a.message] # None
                      /\ row[a.message].status = "ACKNOWLEDGED"
                      /\ row[a.message].request.recipient = a.person
  /\ \A m \in Messages : (row[m] # None /\ row[m].status = "ACKNOWLEDGED") => Acknowledged(m)
  /\ \A a, b \in acks :
       (a.message = b.message \/ (a.person = b.person /\ a.client = b.client)) => a = b

\* A delivery observation that arrives after a newer one leaves the recipient's
\* view alone: a late failure does not call for an escalation, and a late success
\* does not silence one.
LateObservationChangesNothing ==
  [][\A m \in Messages :
       (observed[m] # <<>> /\ observed'[m] # observed[m]
          /\ Before(observed'[m][Len(observed'[m])], Latest(observed[m])))
         => AcknowledgementEscalation(m)' = AcknowledgementEscalation(m)]_vars

PolicyNames(channels) == {IF c = "VOICE_CALL" THEN "AUTOMATED_VOICE" ELSE c : c \in channels}

\* The plan as the notification policy would judge it, on what was seen.
PolicyOf(p) ==
  NotificationPolicy(
    [class    |-> IF p.request.purpose = "MARKETING" THEN "MARKETING" ELSE "SERVICE_OPERATIONAL",
     defects  |-> IF p.request.template THEN {} ELSE {"ACTIVE_NOTIFICATION_POLICY_REQUIRED"},
     stale    |-> ~p.request.current,
     consent  |-> p.seen.consent,
     silent   |-> p.request.silent,
     channels |-> PolicyNames(p.request.channels),
     unsafe   |-> PolicyNames(p.seen.denied \cup p.seen.blocked \cup p.seen.down
                              \cup (Channels \ (Contactless \cup p.seen.verified)))])

\* The core and the notification policy were written apart for one message.  What
\* the core suppresses for its source, its wording, a missing consent or want of a
\* safe channel the policy does not allow either, and what the core queues with a
\* route goes over exactly the channels that the policy permits.  The policy knows
\* neither expiry nor quiet hours: it may allow a message that has EXPIRED, or one
\* that the core defers by queueing it without a channel.
PlansFollowPolicy ==
  (planning # None /\ planning.step = "insert") =>
    LET route == PlanCommunicationRoute(planning.request, planning.seen)
        reason == SuppressionReason(planning, route)
        policy == PolicyOf(planning)
    IN /\ reason \notin {None, "EXPIRED"} => ~policy.allowed
       /\ (reason = None /\ route.state = "ROUTABLE") =>
            policy.allowed /\ policy.permitted = PolicyNames(route.channels)

\* What the routers are asked about a message, by their remaining inputs.
Asked(m, fallback, contact, limit) ==
  [required |-> row[m].request.required, acknowledged |-> Acknowledged(m), state |-> LatestState(m),
   overdue |-> Overdue(m), critical |-> Critical(row[m].request), attempts |-> Len(observed[m]),
   fallback |-> fallback, contact |-> contact, limit |-> limit]

\* The recipient's view, delivery assurance and the closure route were written
\* apart and decide one by one on the same rows.
\* The two routers close the same messages, among them every acknowledged one and
\* none that still calls for a human; where assurance moves to another channel the
\* closure route does too; they answer an outage alike.  While the deadline has not
\* passed and the recipient can be reached, a case that assurance opens the closure
\* route opens, what assurance waits for below the attempt cap it waits for, and it
\* only waits for no critical message that calls for a human.
\* Elsewhere they differ.  The closure route asks for neither the deadline nor
\* contactability, and only waits for a delivered alert whose acknowledgement is
\* overdue, where the others call a human.  It starts with the primary attempt,
\* stops at the cap what assurance still waits for or leaves alone, and opens
\* a case as soon as a critical message has failed with no fallback.
RoutersAgree ==
  /\ OutageRoutesAgree
  /\ \A m \in Messages, fallback \in BOOLEAN, contact \in {"REACHABLE", "UNREACHABLE"}, limit \in 1..2 :
       row[m] # None =>
         LET in == Asked(m, fallback, contact, limit)
             view == AcknowledgementEscalation(m)
             assured == DeliveryAssurance(in)
             route == ClosureRoute(in)
         IN /\ assured = "COMPLETE" <=> route = "COMPLETE"
            /\ view = "ACKNOWLEDGED" => route = "COMPLETE"
            /\ view = "HUMAN_ESCALATION_REQUIRED" => assured # "COMPLETE"
            /\ in.attempts > 0 =>
                 /\ assured = "TRIGGER_FALLBACK" => route = "ATTEMPT_FALLBACK"
                 /\ ~in.overdue /\ contact = "REACHABLE" =>
                      /\ assured = "OPEN_COMMUNICATION_FAILURE_CASE" => route = assured
                      /\ (assured = "WAIT_FOR_ACKNOWLEDGEMENT" /\ in.attempts < limit) =>
                           route = "WAIT_FOR_DELIVERY_OR_ACKNOWLEDGEMENT"
                      /\ (view = "HUMAN_ESCALATION_REQUIRED" /\ in.critical
                            /\ in.state # "SUPPRESSED_STALE") =>
                           route \in {"ATTEMPT_FALLBACK", "OPEN_COMMUNICATION_FAILURE_CASE"}

\* The deciders of one message agree about what all of them are told.  That leaves
\* out what the two parts name: expiry and quiet hours, of which the policy knows
\* nothing, a missed deadline and an unreachable recipient, of which the closure
\* route knows nothing, and their different counts of attempts.
DecidersAgreeOnCommonFacts == PlansFollowPolicy /\ RoutersAgree
=============================================================================
