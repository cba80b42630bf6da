------------------------- MODULE CommunicationsProofs -------------------------
(* Proofs about Communications, for every set of recipients, messages, keys, *)
(* client ids, calls, requests, contacts and observations, and about Apps,   *)
(* for every set of Bookings and any number of handlers under way.           *)
EXTENDS Communications, Apps, TLAPS

\* What the acknowledgement says of the rows: the second to fourth part of
\* AcknowledgementsAreTrue.
AcksMatchRows ==
  /\ \A a \in acks : /\ row[a.message] # None
                      /\ row[a.message].status = "ACKNOWLEDGED"
                      /\ row[a.message].request.recipient = a.person
  /\ \A m \in Messages : (row[m] # None /\ row[m].status = "ACKNOWLEDGED") => Acknowledged(m)

AcksAreUnique ==
  \A a, b \in acks :
    (a.message = b.message \/ (a.person = b.person /\ a.client = b.client)) => a = b

ToldIsTrue == \A t \in told : \E a \in acks : a.person = t[1] /\ a.message = t[2]

\* A kept answer has the acknowledgement that it reports.
KeptIsTrue == \A k \in kept : \E a \in acks : a.person = k.person /\ a.message = k.message

IsLocked(c) == call[c] # None /\ call[c].step = "locked"

\* Whoever passed the checks still passes those about the row: the lock keeps every
\* other writer of the row out, and is held by one call at a time.
LockHolds ==
  /\ \A c \in Calls : IsLocked(c) =>
       /\ row[call[c].body.message] # None
       /\ row[call[c].body.message].status = "ACK_REQUIRED"
       /\ row[call[c].body.message].request.recipient = call[c].body.person
  /\ \A c, d \in Calls :
       (IsLocked(c) /\ IsLocked(d) /\ call[c].body.message = call[d].body.message) => c = d

IInv == TypeOK /\ AcksMatchRows /\ AcksAreUnique /\ ToldIsTrue /\ KeptIsTrue /\ LockHolds

USE DEF ackRows

-----------------------------------------------------------------------------
(* The planning of a communication. *)

LEMMA PlannedChannels ==
  ASSUME NEW q, NEW seen, q.channels \subseteq Channels
  PROVE  PlanCommunicationRoute(q, seen).channels \subseteq Channels
  BY DEF PlanCommunicationRoute, Route, SafeChannels

LEMMA SuppressionReasons ==
  ASSUME NEW p \in Planning, NEW route
  PROVE  SuppressionReason(p, route) \in Reasons \cup {None}
  BY DEF Planning, SuppressionReason, Reasons

LEMMA InitIInv == Init => IInv
  BY DEF Init, IInv, TypeOK, AcksMatchRows, AcksAreUnique, ToldIsTrue, KeptIsTrue, LockHolds, IsLocked

\* The steps of the planning write nothing that an acknowledgement reads.
LEMMA PlanningStep ==
  ASSUME TypeOK,
         \/ \E q \in Requests : RequestInternalCommunication(q)
         \/ ReadContacts \/ ReadPreference \/ ReadHealth \/ RequestFails
  PROVE  planning' \in Planning \cup {None} /\ UNCHANGED <<now, row, ackRows, observed, call, told>>
  <1>1. ASSUME NEW q \in Requests, RequestInternalCommunication(q)
        PROVE  planning' \in Planning
    <2>1. AssessCommunicationCurrency(q.expires # None /\ q.expires <= now, q.current)
            \in {"CURRENT", "EXPIRED", "SOURCE_VERSION_STALE"}
      BY DEF AssessCommunicationCurrency
    <2>2. NothingSeen \in Seen
      BY DEF NothingSeen, Seen
    <2> QED BY <1>1, <2>1, <2>2 DEF RequestInternalCommunication, Planning
  <1>2. ASSUME ReadContacts
        PROVE  planning' \in Planning
    <2>1. planning \in Planning
      BY <1>2 DEF ReadContacts, TypeOK
    <2>2. PICK contacts \in Contacts :
            planning' = [planning EXCEPT !.step = "preference",
                           !.seen.verified = Verified(contacts), !.seen.denied = Denied(contacts)]
      BY <1>2 DEF ReadContacts
    <2>3. Verified(contacts) \subseteq Channels /\ Denied(contacts) \subseteq Channels
      BY DEF Verified, Denied
    <2> QED BY <2>1, <2>2, <2>3 DEF Planning, Seen
  <1>3. ASSUME ReadPreference
        PROVE  planning' \in Planning
    <2>1. planning \in Planning
      BY <1>3 DEF ReadPreference, TypeOK
    <2>2. PICK blocked \in SUBSET Blockable, consent \in BOOLEAN :
            planning' = [planning EXCEPT !.step = "health", !.seen.blocked = blocked, !.seen.consent = consent]
      BY <1>3 DEF ReadPreference
    <2>3. blocked \subseteq Channels
      BY ChannelsAssumption
    <2>4. [planning.seen EXCEPT !.blocked = blocked, !.consent = consent] \in Seen
      BY <2>1, <2>3 DEF Planning, Seen
    <2>5. planning' = [planning EXCEPT !.step = "health",
                         !.seen = [planning.seen EXCEPT !.blocked = blocked, !.consent = consent]]
      BY <2>1, <2>2 DEF Planning, Seen
    <2> QED BY <2>1, <2>4, <2>5 DEF Planning
  <1>4. ASSUME ReadHealth
        PROVE  planning' \in Planning
    <2>1. planning \in Planning
      BY <1>4 DEF ReadHealth, TypeOK
    <2>2. PICK down \in SUBSET Breakable :
            planning' = [planning EXCEPT !.step = "insert", !.seen.down = down]
      BY <1>4 DEF ReadHealth
    <2>3. down \subseteq Channels
      BY ChannelsAssumption
    <2> QED BY <2>1, <2>2, <2>3 DEF Planning, Seen
  <1>5. RequestFails => planning' = None
    BY DEF RequestFails
  <1>6. UNCHANGED <<now, row, ackRows, observed, call, told>>
    BY DEF RequestInternalCommunication, ReadContacts, ReadPreference, ReadHealth, RequestFails
  <1> QED BY <1>1, <1>2, <1>3, <1>4, <1>5, <1>6

LEMMA PlanningKeepsIInv ==
  ASSUME IInv, planning' \in Planning \cup {None},
         UNCHANGED <<now, row, ackRows, observed, call, told>>
  PROVE  IInv'
  BY DEF IInv, TypeOK, AcksMatchRows, AcksAreUnique, ToldIsTrue, KeptIsTrue, LockHolds, IsLocked,
         Acknowledged

-----------------------------------------------------------------------------
(* The steps that write a row. *)

\* A row that is no acknowledged one may change, if it stays so and no call has it locked.
LEMMA RowStep ==
  ASSUME IInv, NEW m \in Messages, NEW r \in Row,
         row[m] = None \/ row[m].status # "ACKNOWLEDGED",
         r.status # "ACKNOWLEDGED", ~Locked(m),
         row' = [row EXCEPT ![m] = r],
         planning' \in Planning \cup {None},
         UNCHANGED <<now, ackRows, call, told>>
  PROVE  IInv'
  <1>1. TypeOK'
    BY DEF IInv, TypeOK
  <1>2. \A a \in acks : a.message # m
    BY DEF IInv, AcksMatchRows
  <1>3. row'[m] = r /\ \A n \in Messages : n # m => row'[n] = row[n]
    BY DEF IInv, TypeOK
  <1>4. \A a \in acks : a.message \in Messages
    BY DEF IInv, TypeOK, Ack
  <1>5. AcksMatchRows'
    BY <1>2, <1>3, <1>4 DEF IInv, AcksMatchRows, Acknowledged
  <1>6. \A c \in Calls : IsLocked(c) => call[c].body.message # m /\ call[c].body.message \in Messages
    BY DEF IInv, TypeOK, Body, IsLocked, Locked
  <1>7. LockHolds'
    BY <1>3, <1>6 DEF IInv, LockHolds, IsLocked
  <1> QED BY <1>1, <1>5, <1>7 DEF IInv, AcksAreUnique, ToldIsTrue, KeptIsTrue

LEMMA InsertStep ==
  ASSUME IInv, NEW m \in Messages, InsertCommunication(m)
  PROVE  IInv'
  <1> DEFINE q == planning.request
             route == PlanCommunicationRoute(q, planning.seen)
             reason == SuppressionReason(planning, route)
             r == [request |-> q, reason |-> reason, channels |-> route.channels,
                   status |-> IF reason = None THEN "QUEUED" ELSE "SUPPRESSED"]
  <1>1. planning \in Planning
    BY DEF IInv, TypeOK, InsertCommunication
  <1>2. q \in Requests /\ q.channels \subseteq Channels
    BY <1>1, RequestsAssumption DEF Planning, RequestSet
  <1>3. route.channels \subseteq Channels
    BY <1>2, PlannedChannels
  <1>4. reason \in Reasons \cup {None}
    BY <1>1, SuppressionReasons
  <1>5. /\ row[m] = None
        /\ row' = [row EXCEPT ![m] = r]
        /\ planning' = None
        /\ UNCHANGED <<now, ackRows, observed, call, told>>
    BY DEF InsertCommunication
  <1>6. r.status # "ACKNOWLEDGED"
    OBVIOUS
  <1> HIDE DEF q, route, reason
  <1>7. r \in Row
    BY <1>2, <1>3, <1>4 DEF Row, Statuses
  <1>8. ~Locked(m)
    BY <1>5 DEF IInv, LockHolds, IsLocked, Locked
  <1> HIDE DEF r
  <1> QED BY <1>5, <1>6, <1>7, <1>8, RowStep

LEMMA WorkerStep ==
  ASSUME IInv, NEW m \in Messages, NEW to \in Statuses, WorkerMoves(m, to)
  PROVE  IInv'
  <1> DEFINE r == [row[m] EXCEPT !.status = to,
               !.reason = IF to = "SUPPRESSED" THEN "SOURCE_VERSION_STALE" ELSE row[m].reason]
  <1>1. row[m] \in Row
    BY DEF WorkerMoves, IInv, TypeOK
  <1>2. r \in Row /\ r.status = to
    BY <1>1 DEF Row, Reasons
  <1>3. row[m].status # "ACKNOWLEDGED" /\ to # "ACKNOWLEDGED"
    BY DEF WorkerMoves, WorkerTransitions
  <1>4. row' = [row EXCEPT ![m] = r] /\ ~Locked(m) /\ UNCHANGED <<now, planning, ackRows, call, told>>
    BY DEF WorkerMoves
  <1>5. planning' \in Planning \cup {None}
    BY <1>4 DEF IInv, TypeOK
  <1> HIDE DEF r
  <1> QED BY <1>2, <1>3, <1>4, <1>5, RowStep

-----------------------------------------------------------------------------
(* acknowledgeCommunication and getCommunication. *)

LEMMA LookUpStep ==
  ASSUME IInv, NEW c \in Calls, NEW body \in Body, AcknowledgeCommunication(c, body)
  PROVE  IInv'
  <1>1. TypeOK'
    BY DEF IInv, TypeOK, AcknowledgeCommunication, Tell, Body
  <1>2. ToldIsTrue'
    BY DEF IInv, AcknowledgeCommunication, Tell, ToldIsTrue, KeptIsTrue
  <1>3. \A d \in Calls : IsLocked(d)' => d # c /\ IsLocked(d) /\ call'[d] = call[d]
    BY DEF IInv, TypeOK, AcknowledgeCommunication, IsLocked
  <1>4. LockHolds'
    BY <1>3 DEF IInv, LockHolds, AcknowledgeCommunication, IsLocked
  <1>5. AcksMatchRows' /\ AcksAreUnique' /\ KeptIsTrue'
    BY DEF IInv, AcknowledgeCommunication, AcksMatchRows, AcksAreUnique, KeptIsTrue, Acknowledged
  <1> QED BY <1>1, <1>2, <1>4, <1>5 DEF IInv

\* A call that takes the lock has checked the row, and finds no other call on it.
LEMMA LockStep ==
  ASSUME IInv, NEW c \in Calls, NEW timely \in BOOLEAN, LockCommunication(c, timely)
  PROVE  IInv'
  <1>1. TypeOK'
    BY DEF IInv, TypeOK, LockCommunication
  <1>2. \A d \in Calls : (d # c /\ IsLocked(d)') =>
          IsLocked(d) /\ call'[d] = call[d] /\ call[d].body.message # call[c].body.message
    BY DEF IInv, TypeOK, LockCommunication, IsLocked, Locked
  <1>3. IsLocked(c)' => Acknowledgeable(call[c].body) /\ call'[c].body = call[c].body
    BY DEF IInv, TypeOK, LockCommunication, IsLocked
  <1>4. LockHolds'
    <2>1. ASSUME NEW d \in Calls, IsLocked(d)'
          PROVE  /\ row[call'[d].body.message] # None
                 /\ row[call'[d].body.message].status = "ACK_REQUIRED"
                 /\ row[call'[d].body.message].request.recipient = call'[d].body.person
      <3>1. CASE d = c
        BY <1>3, <2>1, <3>1 DEF Acknowledgeable
      <3>2. CASE d # c
        BY <1>2, <2>1, <3>2 DEF IInv, LockHolds
      <3> QED BY <3>1, <3>2
    <2>2. ASSUME NEW d \in Calls, NEW e \in Calls, IsLocked(d)', IsLocked(e)',
                 call'[d].body.message = call'[e].body.message
          PROVE  d = e
      BY <1>2, <1>3, <2>2 DEF IInv, LockHolds
    <2>3. row' = row
      BY DEF LockCommunication
    <2> QED BY <2>1, <2>2, <2>3 DEF LockHolds, IsLocked
  <1>5. AcksMatchRows' /\ AcksAreUnique' /\ KeptIsTrue' /\ ToldIsTrue'
    BY DEF IInv, LockCommunication, AcksMatchRows, AcksAreUnique, KeptIsTrue, ToldIsTrue, Acknowledged
  <1> QED BY <1>1, <1>4, <1>5 DEF IInv

LEMMA FailStep ==
  ASSUME IInv, NEW c \in Calls, CallFails(c)
  PROVE  IInv'
  <1>1. TypeOK'
    BY DEF IInv, TypeOK, CallFails
  <1>2. \A d \in Calls : IsLocked(d)' => IsLocked(d) /\ call'[d] = call[d]
    BY DEF IInv, TypeOK, CallFails, IsLocked
  <1>3. LockHolds'
    BY <1>2 DEF IInv, LockHolds, CallFails, IsLocked
  <1>4. AcksMatchRows' /\ AcksAreUnique' /\ KeptIsTrue' /\ ToldIsTrue'
    BY DEF IInv, CallFails, AcksMatchRows, AcksAreUnique, KeptIsTrue, ToldIsTrue, Acknowledged
  <1> QED BY <1>1, <1>3, <1>4 DEF IInv

LEMMA RecordStep ==
  ASSUME IInv, NEW c \in Calls, RecordAcknowledgement(c)
  PROVE  IInv'
  <1> DEFINE body == call[c].body
             m == body.message
             new == [message |-> m, person |-> body.person, client |-> body.client]
             r == [row[m] EXCEPT !.status = "ACKNOWLEDGED"]
  <1>1. body \in Body /\ IsLocked(c)
    BY DEF IInv, TypeOK, RecordAcknowledgement, IsLocked
  <1>2. m \in Messages /\ body.person \in People /\ new \in Ack
    BY <1>1 DEF Body, Ack
  <1>3. row[m] \in Row /\ row[m].status = "ACK_REQUIRED" /\ row[m].request.recipient = body.person
    BY <1>1, <1>2 DEF IInv, TypeOK, LockHolds
  <1>4. r \in Row /\ r.status = "ACKNOWLEDGED" /\ r.request.recipient = body.person
    BY <1>3 DEF Row, Statuses
  <1>5. /\ row' = [row EXCEPT ![m] = r] /\ acks' = acks \cup {new} /\ kept' = kept \cup {body}
        /\ call' = [call EXCEPT ![c] = None]
        /\ told' = told \/ told' = told \cup {<<body.person, m>>}
        /\ KeysAreFree(body) /\ UNCHANGED <<now, planning, observed>>
    BY DEF RecordAcknowledgement, Tell
  <1>6. row'[m] = r /\ \A n \in Messages : n # m => row'[n] = row[n]
    BY <1>2, <1>5 DEF IInv, TypeOK
  <1>7. \A d \in Calls : IsLocked(d)' =>
          IsLocked(d) /\ call'[d] = call[d] /\ call[d].body.message # m /\ call[d].body.message \in Messages
    BY <1>1, <1>5 DEF IInv, TypeOK, LockHolds, IsLocked, Body
  <1>8. \A a \in acks : a.message # m /\ a.message \in Messages
    BY <1>3 DEF IInv, TypeOK, AcksMatchRows, Ack
  <1>9. new.message = m /\ new.person = body.person /\ new.client = body.client
    OBVIOUS
  <1> HIDE DEF body, m, new, r
  <1>10. TypeOK'
    BY <1>1, <1>2, <1>4, <1>5 DEF IInv, TypeOK
  <1>11. AcksMatchRows'
    <2>1. r # None
      BY <1>4, RowAssumption
    <2>2. \A a \in acks : row'[a.message] = row[a.message]
      BY <1>6, <1>8
    <2>3. \A a \in acks' : /\ row'[a.message] # None
                            /\ row'[a.message].status = "ACKNOWLEDGED"
                            /\ row'[a.message].request.recipient = a.person
      BY <1>4, <1>5, <1>6, <1>9, <2>1, <2>2 DEF IInv, AcksMatchRows
    <2>4. ASSUME NEW n \in Messages, row'[n] # None /\ row'[n].status = "ACKNOWLEDGED"
          PROVE  Acknowledged(n)'
      BY <1>5, <1>6, <1>9, <2>4 DEF IInv, AcksMatchRows, Acknowledged
    <2> QED BY <2>3, <2>4 DEF AcksMatchRows
  <1>12. AcksAreUnique'
    BY <1>5, <1>8, <1>9 DEF IInv, AcksAreUnique, KeysAreFree
  <1>13. ToldIsTrue' /\ KeptIsTrue'
    BY <1>5, <1>9, m = body.message DEF IInv, ToldIsTrue, KeptIsTrue, m
  <1>14. LockHolds'
    BY <1>6, <1>7 DEF IInv, LockHolds, IsLocked
  <1> QED BY <1>10, <1>11, <1>12, <1>13, <1>14 DEF IInv

LEMMA GetStep ==
  ASSUME IInv, NEW p \in People, NEW m \in Messages, GetCommunication(p, m)
  PROVE  IInv'
  <1>1. PICK a \in acks : a.message = m /\ a.person = p
    BY DEF GetCommunication, Acknowledged, IInv, AcksMatchRows
  <1>2. TypeOK' /\ ToldIsTrue'
    BY <1>1 DEF IInv, TypeOK, ToldIsTrue, GetCommunication, Tell
  <1>3. AcksMatchRows' /\ AcksAreUnique' /\ KeptIsTrue' /\ LockHolds'
    BY DEF IInv, GetCommunication, AcksMatchRows, AcksAreUnique, KeptIsTrue, LockHolds, IsLocked, Acknowledged
  <1> QED BY <1>2, <1>3 DEF IInv

LEMMA ListStep ==
  ASSUME IInv, NEW p \in People, ListCommunications(p)
  PROVE  IInv'
  <1> DEFINE shown == {m \in Messages : /\ row[m] # None /\ row[m].request.recipient = p
                                        /\ row[m].status = "ACKNOWLEDGED"}
  <1>1. told' = told \cup {<<p, m>> : m \in shown}
        /\ UNCHANGED <<now, planning, row, ackRows, observed, call>>
    BY DEF ListCommunications
  <1>2. \A m \in shown : \E a \in acks : a.person = p /\ a.message = m
    BY DEF IInv, AcksMatchRows, Acknowledged
  <1>3. shown \subseteq Messages
    OBVIOUS
  <1> HIDE DEF shown
  <1>4. ToldIsTrue'
    <2>1. SUFFICES ASSUME NEW t \in told' PROVE \E a \in acks' : a.person = t[1] /\ a.message = t[2]
      BY DEF ToldIsTrue
    <2>2. CASE t \in told
      BY <1>1, <2>2 DEF IInv, ToldIsTrue
    <2>3. CASE t \notin told
      <3>1. PICK m \in shown : t = <<p, m>>
        BY <1>1, <2>3
      <3> QED BY <1>1, <1>2, <3>1
    <2> QED BY <2>2, <2>3
  <1>5. TypeOK'
    BY <1>1, <1>3 DEF IInv, TypeOK
  <1>6. AcksMatchRows' /\ AcksAreUnique' /\ KeptIsTrue' /\ LockHolds'
    BY <1>1 DEF IInv, AcksMatchRows, AcksAreUnique, KeptIsTrue, LockHolds, IsLocked, Acknowledged
  <1> QED BY <1>4, <1>5, <1>6 DEF IInv

\* The clock and the observations are read by none of it.
LEMMA OutsideStep ==
  ASSUME IInv, Tick \/ \E m \in Messages, o \in Observations : ObserveDelivery(m, o)
  PROVE  IInv'
  <1>1. now' \in Nat /\ UNCHANGED <<planning, row, ackRows, call, told>>
    BY HorizonAssumption DEF IInv, TypeOK, Tick, ObserveDelivery
  <1> QED BY <1>1 DEF IInv, TypeOK, AcksMatchRows, AcksAreUnique, ToldIsTrue, KeptIsTrue, LockHolds,
                      IsLocked, Acknowledged

LEMMA NextIInv == IInv /\ [Next]_vars => IInv'
  <1> SUFFICES ASSUME IInv, [Next]_vars PROVE IInv'
    OBVIOUS
  <1>1. CASE \/ \E q \in Requests : RequestInternalCommunication(q)
             \/ ReadContacts \/ ReadPreference \/ ReadHealth \/ RequestFails
    <2>1. TypeOK
      BY DEF IInv
    <2> QED BY <1>1, <2>1, PlanningStep, PlanningKeepsIInv
  <1>2. CASE \E m \in Messages : InsertCommunication(m)
    BY <1>2, InsertStep
  <1>3. CASE \E c \in Calls, body \in Body : AcknowledgeCommunication(c, body)
    BY <1>3, LookUpStep
  <1>4. CASE \E c \in Calls, timely \in BOOLEAN : LockCommunication(c, timely)
    BY <1>4, LockStep
  <1>5. CASE \E c \in Calls : RecordAcknowledgement(c)
    BY <1>5, RecordStep
  <1>6. CASE \E c \in Calls : CallFails(c)
    BY <1>6, FailStep
  <1>7. CASE \E p \in People, m \in Messages : GetCommunication(p, m)
    BY <1>7, GetStep
  <1>8. CASE \E m \in Messages, to \in Statuses : WorkerMoves(m, to)
    BY <1>8, WorkerStep
  <1>9. CASE Tick \/ \E m \in Messages, o \in Observations : ObserveDelivery(m, o)
    BY <1>9, OutsideStep
  <1>10. CASE UNCHANGED vars
    <2>1. planning' \in Planning \cup {None} /\ UNCHANGED <<now, row, ackRows, observed, call, told>>
      BY <1>10 DEF vars, IInv, TypeOK
    <2> QED BY <2>1, PlanningKeepsIInv
  <1>11. CASE \E p \in People : ListCommunications(p)
    BY <1>11, ListStep
  <1> QED BY <1>1, <1>2, <1>3, <1>4, <1>5, <1>6, <1>7, <1>8, <1>9, <1>10, <1>11 DEF Next

-----------------------------------------------------------------------------
(* The theorems. *)

THEOREM SpecIInv == Spec => []IInv
  BY InitIInv, NextIInv, PTL DEF Spec

\* Every reachable state is well typed.
THEOREM CommunicationsTypeOK == Spec => []TypeOK
  <1>1. IInv => TypeOK
    BY DEF IInv
  <1> QED BY <1>1, SpecIInv, PTL

\* Whoever acknowledgeCommunication or getCommunication told that a message is
\* acknowledged can rely on it, for any number of calls, keys and client ids.
THEOREM AcknowledgementsTrue == Spec => []AcknowledgementsAreTrue
  <1>1. IInv => AcknowledgementsAreTrue
    BY DEF IInv, AcknowledgementsAreTrue, AcksMatchRows, AcksAreUnique, ToldIsTrue
  <1> QED BY <1>1, SpecIInv, PTL
-----------------------------------------------------------------------------
(* The observations of a message. *)

\* Before orders the observations; two of different ids are never level.
LEMMA BeforeIsAnOrder ==
  ASSUME NEW o \in Observations, NEW p \in Observations, NEW q \in Observations
  PROVE  /\ ~(Before(o, p) /\ Before(p, o))
         /\ (Before(o, p) /\ Before(p, q)) => Before(o, q)
         /\ o.id # p.id => Before(o, p) \/ Before(p, o)
  <1>1. /\ o.at \in Nat /\ o.attempt \in Nat /\ o.id \in Nat
        /\ p.at \in Nat /\ p.attempt \in Nat /\ p.id \in Nat
        /\ q.at \in Nat /\ q.attempt \in Nat /\ q.id \in Nat
    BY ObservationsAssumption
  <1> QED BY <1>1 DEF Before

\* The observations of one message: no id twice, and one that none is after.
IsLatest(o, seen) == \A i \in 1..Len(seen) : ~Before(o, seen[i])

SeenOK(seen) ==
  /\ seen \in Seq(Observations)
  /\ \A i, j \in 1..Len(seen) : seen[i].id = seen[j].id => i = j
  /\ seen # <<>> => \E i \in 1..Len(seen) : IsLatest(seen[i], seen)

ObservedInv ==
  /\ DOMAIN observed = Messages
  /\ \A m \in Messages : SeenOK(observed[m])

\* There is one latest observation, and Latest chooses it.
LEMMA LatestIsUnique ==
  ASSUME NEW seen, SeenOK(seen), seen # <<>>
  PROVE  /\ \E i \in 1..Len(seen) : Latest(seen) = seen[i]
         /\ IsLatest(Latest(seen), seen)
         /\ \A i \in 1..Len(seen) : IsLatest(seen[i], seen) => seen[i] = Latest(seen)
  <1> DEFINE some == {seen[i] : i \in DOMAIN seen}
  <1>1. DOMAIN seen = 1..Len(seen) /\ \A i \in 1..Len(seen) : seen[i] \in Observations
    BY DEF SeenOK
  <1>2. \E o \in some : \A i \in DOMAIN seen : ~Before(o, seen[i])
    BY <1>1 DEF SeenOK, IsLatest
  <1>3. Latest(seen) \in some /\ \A i \in DOMAIN seen : ~Before(Latest(seen), seen[i])
    BY <1>2 DEF Latest
  <1>4. PICK n \in 1..Len(seen) : Latest(seen) = seen[n]
    BY <1>1, <1>3
  <1>5. IsLatest(Latest(seen), seen)
    BY <1>1, <1>3 DEF IsLatest
  <1>6. ASSUME NEW i \in 1..Len(seen), IsLatest(seen[i], seen)
        PROVE  seen[i] = Latest(seen)
    <2>1. ~Before(seen[i], seen[n]) /\ ~Before(seen[n], seen[i])
      BY <1>4, <1>5, <1>6 DEF IsLatest
    <2>2. seen[i].id = seen[n].id
      BY <1>1, <2>1, BeforeIsAnOrder
    <2> QED BY <1>4, <2>2 DEF SeenOK
  <1> QED BY <1>4, <1>5, <1>6

LEMMA ObservationIsAdded ==
  ASSUME NEW seen, SeenOK(seen), NEW o \in Observations,
         \A i \in 1..Len(seen) : seen[i].id # o.id
  PROVE  SeenOK(Append(seen, o))
  <1> DEFINE more == Append(seen, o)
             n == Len(seen) + 1
  <1>1. seen \in Seq(Observations) /\ Len(seen) \in Nat
    BY DEF SeenOK
  <1>2. /\ more \in Seq(Observations) /\ Len(more) = n /\ more[n] = o
        /\ \A i \in 1..Len(seen) : more[i] = seen[i]
    BY <1>1
  <1>3. \A i \in 1..n : i = n \/ i \in 1..Len(seen)
    BY <1>1
  <1>4. n \in 1..n /\ \A i \in 1..Len(seen) : i \in 1..n
    BY <1>1
  <1>5. \A i \in 1..Len(seen) : seen[i] \in Observations
    BY <1>1
  <1> HIDE DEF more, n
  <1>6. ~Before(o, o)
    BY BeforeIsAnOrder
  <1>7. \A i, j \in 1..n : more[i].id = more[j].id => i = j
    <2> SUFFICES ASSUME NEW i \in 1..n, NEW j \in 1..n, more[i].id = more[j].id
                 PROVE  i = j
      OBVIOUS
    <2>1. CASE i \in 1..Len(seen) /\ j \in 1..Len(seen)
      BY <1>2, <2>1 DEF SeenOK
    <2>2. CASE i = n \/ j = n
      BY <1>2, <1>3, <2>2
    <2> QED BY <1>3, <2>1, <2>2
  <1>8. \E i \in 1..n : IsLatest(more[i], more)
    <2>1. CASE \A i \in 1..Len(seen) : ~Before(o, seen[i])
      <3>1. IsLatest(more[n], more)
        BY <1>2, <1>3, <1>6, <2>1 DEF IsLatest
      <3> QED BY <1>4, <3>1
    <2>2. CASE \E i \in 1..Len(seen) : Before(o, seen[i])
      <3>1. seen # <<>>
        BY <2>2
      <3>2. PICK k \in 1..Len(seen) : IsLatest(seen[k], seen)
        BY <3>1 DEF SeenOK
      <3>3. PICK l \in 1..Len(seen) : Before(o, seen[l])
        BY <2>2
      <3>4. ~Before(seen[k], o)
        BY <1>5, <3>2, <3>3, BeforeIsAnOrder DEF IsLatest
      <3>5. IsLatest(more[k], more)
        BY <1>2, <1>3, <3>2, <3>4 DEF IsLatest
      <3> QED BY <1>4, <3>5
    <2> QED BY <2>1, <2>2
  <1> QED BY <1>2, <1>7, <1>8 DEF SeenOK, more

\* Only an observation touches the observations.
LEMMA OnlyObserved ==
  ASSUME [Next]_vars, observed' # observed
  PROVE  \E m \in Messages, o \in Observations : ObserveDelivery(m, o)
  BY DEF Next, vars, RequestInternalCommunication, ReadContacts, ReadPreference, ReadHealth, RequestFails,
         InsertCommunication, AcknowledgeCommunication, LockCommunication, RecordAcknowledgement, CallFails,
         ListCommunications, GetCommunication, WorkerMoves, Tick

LEMMA ObservedInvariance == Spec => []ObservedInv
  <1>1. Init => ObservedInv
    <2> SUFFICES ASSUME Init PROVE ObservedInv
      OBVIOUS
    <2>1. DOMAIN observed = Messages /\ \A m \in Messages : observed[m] = <<>>
      BY DEF Init
    <2>2. SeenOK(<<>>)
      BY DEF SeenOK
    <2> QED BY <2>1, <2>2 DEF ObservedInv
  <1>2. ObservedInv /\ [Next]_vars => ObservedInv'
    <2> SUFFICES ASSUME ObservedInv, [Next]_vars PROVE ObservedInv'
      OBVIOUS
    <2>1. CASE observed' = observed
      BY <2>1 DEF ObservedInv
    <2>2. CASE observed' # observed
      <3>1. PICK m \in Messages, o \in Observations : ObserveDelivery(m, o)
        BY <2>2, OnlyObserved
      <3>2. observed' = [observed EXCEPT ![m] = Append(observed[m], o)]
        BY <3>1 DEF ObserveDelivery
      <3>3. SeenOK(observed[m])
        BY DEF ObservedInv
      <3>4. \A i \in 1..Len(observed[m]) : observed[m][i].id # o.id
        BY <3>1, <3>3 DEF ObserveDelivery, SeenOK
      <3>5. SeenOK(Append(observed[m], o))
        BY <3>3, <3>4, ObservationIsAdded
      <3>6. \A n \in Messages : observed'[n] = IF n = m THEN Append(observed[m], o) ELSE observed[n]
        BY <3>2 DEF ObservedInv
      <3> QED BY <3>2, <3>5, <3>6 DEF ObservedInv
    <2> QED BY <2>1, <2>2
  <1> QED BY <1>1, <1>2, PTL DEF Spec

\* An observation that is before the latest leaves the latest as it is, and with it
\* what getCommunication says of an escalation.
LEMMA LateObservation ==
  ASSUME ObservedInv, [Next]_vars, NEW m \in Messages, observed[m] # <<>>, observed'[m] # observed[m],
         Before(observed'[m][Len(observed'[m])], Latest(observed[m]))
  PROVE  AcknowledgementEscalation(m)' = AcknowledgementEscalation(m)
  <1>1. PICK k \in Messages, o \in Observations : ObserveDelivery(k, o)
    BY OnlyObserved
  <1>2. k = m /\ observed'[m] = Append(observed[m], o) /\ UNCHANGED <<now, row, acks>>
    BY <1>1 DEF ObserveDelivery, ObservedInv
  <1> DEFINE seen == observed[m]
             more == Append(seen, o)
  <1>3. SeenOK(seen) /\ seen # <<>> /\ \A i \in 1..Len(seen) : seen[i].id # o.id
    BY <1>1, <1>2 DEF ObservedInv, ObserveDelivery, SeenOK
  <1>4. seen \in Seq(Observations) /\ Len(seen) \in Nat
    BY <1>3 DEF SeenOK
  <1>5. /\ Len(more) = Len(seen) + 1 /\ more[Len(seen) + 1] = o
        /\ \A i \in 1..Len(seen) : more[i] = seen[i] /\ i \in 1..Len(more) /\ seen[i] \in Observations
        /\ \A i \in 1..Len(more) : i \in 1..Len(seen) \/ i = Len(seen) + 1
    BY <1>4
  <1>6. Before(o, Latest(seen))
    BY <1>2, <1>5
  <1> HIDE DEF seen, more
  <1>7. SeenOK(more)
    BY <1>3, ObservationIsAdded DEF more
  <1>8. PICK n \in 1..Len(seen) : Latest(seen) = seen[n]
    BY <1>3, LatestIsUnique
  <1>9. IsLatest(Latest(seen), seen)
    BY <1>3, LatestIsUnique
  <1>10. ~Before(seen[n], o)
    BY <1>5, <1>6, <1>8, BeforeIsAnOrder
  <1>11. IsLatest(more[n], more)
    BY <1>5, <1>8, <1>9, <1>10 DEF IsLatest
  <1>12. more # <<>>
    BY <1>5, <1>8
  <1>13. Latest(more) = Latest(seen)
    BY <1>5, <1>7, <1>8, <1>11, <1>12, LatestIsUnique
  <1>14. LatestState(m)' = LatestState(m)
    BY <1>2, <1>3, <1>12, <1>13 DEF LatestState, seen, more
  <1> QED BY <1>2, <1>14 DEF AcknowledgementEscalation, Overdue, Acknowledged

\* A delivery observation that arrives after a newer one changes nothing that the
\* recipient is shown (the ordering in getCommunication).
THEOREM LateObservationsChangeNothing == Spec => LateObservationChangesNothing
  <1>1. ObservedInv /\ [Next]_vars =>
          \A m \in Messages :
            (observed[m] # <<>> /\ observed'[m] # observed[m]
               /\ Before(observed'[m][Len(observed'[m])], Latest(observed[m])))
              => AcknowledgementEscalation(m)' = AcknowledgementEscalation(m)
    BY LateObservation
  <1> QED BY <1>1, ObservedInvariance, PTL DEF Spec, LateObservationChangesNothing
-----------------------------------------------------------------------------
(* The plan and the notification policy. *)

\* What the currency of a plan says of the version its request carries.
CurrencyInv ==
  planning # None =>
    /\ planning.currency = "SOURCE_VERSION_STALE" => ~planning.request.current
    /\ planning.currency = "CURRENT" => planning.request.current

LEMMA CurrencyInvariance == Spec => []CurrencyInv
  <1>1. Init => CurrencyInv
    BY DEF Init, CurrencyInv
  <1>2. IInv /\ CurrencyInv /\ [Next]_vars => CurrencyInv'
    <2> SUFFICES ASSUME IInv, CurrencyInv, [Next]_vars PROVE CurrencyInv'
      OBVIOUS
    <2>0. planning \in Planning \cup {None}
      BY DEF IInv, TypeOK
    <2>1. ASSUME NEW q \in Requests, RequestInternalCommunication(q)
          PROVE  CurrencyInv'
      <3>1. planning'.request = q
            /\ planning'.currency
                 = AssessCommunicationCurrency(q.expires # None /\ q.expires <= now, q.current)
        BY <2>1 DEF RequestInternalCommunication
      <3> QED BY <3>1 DEF CurrencyInv, AssessCommunicationCurrency
    <2>2. ASSUME planning # None, planning' # None,
                 planning'.request = planning.request, planning'.currency = planning.currency
          PROVE  CurrencyInv'
      BY <2>2 DEF CurrencyInv
    <2>3. CASE ReadContacts
      BY <2>0, <2>2, <2>3 DEF ReadContacts, CurrencyInv, Planning
    <2>4. CASE ReadPreference
      BY <2>0, <2>2, <2>4 DEF ReadPreference, CurrencyInv, Planning
    <2>5. CASE ReadHealth
      BY <2>0, <2>2, <2>5 DEF ReadHealth, CurrencyInv, Planning
    <2>6. CASE planning' = None \/ planning' = planning
      BY <2>6 DEF CurrencyInv
    <2> QED
      BY <2>1, <2>3, <2>4, <2>5, <2>6
      DEF Next, vars, RequestFails, InsertCommunication, AcknowledgeCommunication, LockCommunication,
          RecordAcknowledgement, CallFails, ListCommunications, GetCommunication, WorkerMoves,
          ObserveDelivery, Tick
  <1> QED BY <1>1, <1>2, SpecIInv, PTL DEF Spec

\* The policy has a name of its own for a voice call, and no channel shares one.
PolicyName(c) == IF c = "VOICE_CALL" THEN "AUTOMATED_VOICE" ELSE c

LEMMA PolicyNamesAreDistinct ==
  ASSUME NEW b \in Channels, NEW c \in Channels
  PROVE  /\ PolicyName(b) = PolicyName(c) => b = c
         /\ PolicyName(c) \in PolicyVoice <=> c \in Voice
  BY DEF PolicyName, Channels, Contactless, Voice, PolicyVoice

\* The policy permits the channels that the route takes to be safe.
LEMMA PermittedChannels ==
  ASSUME NEW p \in Planning
  PROVE  PolicyOf(p).permitted = PolicyNames(SafeChannels(p.request, p.seen))
  <1> DEFINE asked == p.request.channels
             unsafe == p.seen.denied \cup p.seen.blocked \cup p.seen.down
                         \cup (Channels \ (Contactless \cup p.seen.verified))
             permitted == {c \in PolicyNames(asked) :
                             c \notin PolicyNames(unsafe) /\ ~(p.request.silent /\ c \in PolicyVoice)}
             safe == SafeChannels(p.request, p.seen)
  <1>1. PolicyOf(p).permitted = permitted
    BY DEF PolicyOf, NotificationPolicy
  <1>2. asked \subseteq Channels
    BY RequestsAssumption DEF Planning, RequestSet
  <1>3. unsafe \subseteq Channels
    BY DEF Planning, Seen
  <1>4. safe = {c \in asked : c \notin unsafe /\ ~(p.request.silent /\ c \in Voice)}
    BY <1>2 DEF SafeChannels
  <1>5. \A channels : PolicyNames(channels) = {PolicyName(c) : c \in channels}
    BY DEF PolicyNames, PolicyName
  <1> HIDE DEF asked, unsafe, safe
  <1>6. \A c \in asked :
          PolicyName(c) \in permitted <=> c \notin unsafe /\ ~(p.request.silent /\ c \in Voice)
    <2> SUFFICES ASSUME NEW c \in asked
                 PROVE  PolicyName(c) \in permitted <=> c \notin unsafe /\ ~(p.request.silent /\ c \in Voice)
      OBVIOUS
    <2>1. PolicyName(c) \in PolicyNames(asked)
      BY <1>5
    <2>2. PolicyName(c) \in PolicyNames(unsafe) <=> c \in unsafe
      <3>1. ASSUME PolicyName(c) \in PolicyNames(unsafe)
            PROVE  c \in unsafe
        <4>1. PICK u \in unsafe : PolicyName(c) = PolicyName(u)
          BY <1>5, <3>1
        <4>2. c \in Channels /\ u \in Channels
          BY <1>2, <1>3
        <4>3. c = u
          BY <4>1, <4>2, PolicyNamesAreDistinct
        <4> QED BY <4>3
      <3>2. c \in unsafe => PolicyName(c) \in PolicyNames(unsafe)
        BY <1>5
      <3> QED BY <3>1, <3>2
    <2>3. PolicyName(c) \in PolicyVoice <=> c \in Voice
      BY <1>2, PolicyNamesAreDistinct
    <2> QED BY <2>1, <2>2, <2>3
  <1>7. permitted \subseteq PolicyNames(safe)
    <2> SUFFICES ASSUME NEW d \in permitted PROVE d \in PolicyNames(safe)
      OBVIOUS
    <2>1. PICK c \in asked : d = PolicyName(c)
      BY <1>5
    <2>2. c \in safe
      BY <1>4, <1>6, <2>1
    <2> QED BY <1>5, <2>1, <2>2
  <1>8. PolicyNames(safe) \subseteq permitted
    <2> SUFFICES ASSUME NEW d \in PolicyNames(safe) PROVE d \in permitted
      OBVIOUS
    <2>1. PICK c \in safe : d = PolicyName(c)
      BY <1>5
    <2>2. c \in asked /\ c \notin unsafe /\ ~(p.request.silent /\ c \in Voice)
      BY <1>4, <2>1
    <2> QED BY <1>6, <2>1, <2>2
  <1> QED BY <1>1, <1>7, <1>8 DEF safe

\* When the policy allows a plan, on what was seen.
LEMMA PolicyAllows ==
  ASSUME NEW p \in Planning
  PROVE  PolicyOf(p).allowed <=>
           /\ p.request.template /\ p.request.current
           /\ ~(p.request.purpose = "MARKETING" /\ ~p.seen.consent)
           /\ SafeChannels(p.request, p.seen) # {}
  <1> DEFINE safe == SafeChannels(p.request, p.seen)
             class == IF p.request.purpose = "MARKETING" THEN "MARKETING" ELSE "SERVICE_OPERATIONAL"
             defects == IF p.request.template THEN {} ELSE {"ACTIVE_NOTIFICATION_POLICY_REQUIRED"}
             blocked == defects # {} \/ ~p.request.current \/ (class = "MARKETING" /\ ~p.seen.consent)
  <1>1. PolicyOf(p).allowed = (~blocked /\ PolicyOf(p).permitted # {})
    BY DEF PolicyOf, NotificationPolicy
  <1>2. PolicyOf(p).permitted # {} <=> safe # {}
    <2>1. PolicyNames(safe) # {} <=> safe # {}
      BY DEF PolicyNames
    <2> QED BY <2>1, PermittedChannels
  <1>3. blocked <=> ~p.request.template \/ ~p.request.current
                      \/ (p.request.purpose = "MARKETING" /\ ~p.seen.consent)
    OBVIOUS
  <1> HIDE DEF blocked, safe
  <1>4. PolicyOf(p).allowed <=> ~blocked /\ safe # {}
    BY <1>1, <1>2
  <1> QED BY <1>3, <1>4 DEF safe

LEMMA PlanIsPermitted ==
  ASSUME IInv, CurrencyInv
  PROVE  PlansFollowPolicy
  <1> SUFFICES ASSUME planning # None
               PROVE  LET route == PlanCommunicationRoute(planning.request, planning.seen)
                          reason == SuppressionReason(planning, route)
                          policy == PolicyOf(planning)
                      IN /\ reason \notin {None, "EXPIRED"} => ~policy.allowed
                         /\ (reason = None /\ route.state = "ROUTABLE") =>
                              policy.allowed /\ policy.permitted = PolicyNames(route.channels)
    BY DEF PlansFollowPolicy
  <1> DEFINE q == planning.request
             seen == planning.seen
             safe == SafeChannels(q, seen)
             route == PlanCommunicationRoute(q, seen)
             reason == SuppressionReason(planning, route)
             policy == PolicyOf(planning)
  <1>1. planning \in Planning
    BY DEF IInv, TypeOK
  <1>2. /\ policy.allowed <=> /\ q.template /\ q.current
                              /\ ~(q.purpose = "MARKETING" /\ ~seen.consent) /\ safe # {}
        /\ policy.permitted = PolicyNames(safe)
    BY <1>1, PolicyAllows, PermittedChannels
  <1>3. /\ planning.currency = "SOURCE_VERSION_STALE" => ~q.current
        /\ planning.currency = "CURRENT" => q.current
        /\ planning.currency \in {"CURRENT", "EXPIRED", "SOURCE_VERSION_STALE"}
    BY <1>1 DEF CurrencyInv, Planning
  <1>4. /\ route.state = "SUPPRESSED_NO_CONSENT" => q.purpose = "MARKETING" /\ ~seen.consent
        /\ route.state = "NO_SAFE_CHANNEL" => safe = {}
        /\ route.state = "ROUTABLE" =>
             route.channels = safe /\ safe # {} /\ ~(q.purpose = "MARKETING" /\ ~seen.consent)
    BY DEF PlanCommunicationRoute, Route
  <1>5. \/ planning.currency # "CURRENT" /\ reason = planning.currency
        \/ planning.currency = "CURRENT" /\ ~q.template
        \/ planning.currency = "CURRENT" /\ q.template /\ route.state = "SUPPRESSED_NO_CONSENT"
        \/ planning.currency = "CURRENT" /\ q.template /\ route.state = "NO_SAFE_CHANNEL"
        \/ planning.currency = "CURRENT" /\ q.template /\ reason = None
    BY DEF SuppressionReason
  <1>6. reason = None => planning.currency = "CURRENT" /\ q.template
    BY <1>3, RowAssumption DEF SuppressionReason, Reasons
  <1> HIDE DEF q, seen, safe, route, reason, policy
  <1>7. reason \notin {None, "EXPIRED"} => ~policy.allowed
    BY <1>2, <1>3, <1>4, <1>5
  <1>8. (reason = None /\ route.state = "ROUTABLE") =>
          policy.allowed /\ policy.permitted = PolicyNames(route.channels)
    BY <1>2, <1>3, <1>4, <1>6
  <1> QED BY <1>7, <1>8 DEF q, seen, route, reason, policy
-----------------------------------------------------------------------------
(* The routers. *)

\* Only a message that asks for it is acknowledged, and no lock is held for another.
RequiredInv ==
  /\ \A a \in acks : row[a.message].request.required
  /\ \A c \in Calls : IsLocked(c) => row[call[c].body.message].request.required

\* A message keeps the request that it was made for.
LEMMA RequestsStay ==
  ASSUME IInv, [Next]_vars, NEW m \in Messages, row[m] # None
  PROVE  row'[m].request = row[m].request
  <1>1. row \in [Messages -> Row \cup {None}] /\ row[m] \in Row
    BY DEF IInv, TypeOK
  <1>2. ASSUME NEW n \in Messages, InsertCommunication(n)
        PROVE  row'[m].request = row[m].request
    BY <1>1, <1>2 DEF InsertCommunication
  <1>3. ASSUME NEW n \in Messages, NEW to \in Statuses, WorkerMoves(n, to)
        PROVE  row'[m].request = row[m].request
    BY <1>1, <1>3 DEF WorkerMoves, Row
  <1>4. ASSUME NEW c \in Calls, RecordAcknowledgement(c)
        PROVE  row'[m].request = row[m].request
    BY <1>1, <1>4 DEF RecordAcknowledgement, Row
  <1> QED
    BY <1>2, <1>3, <1>4
    DEF Next, vars, RequestInternalCommunication, ReadContacts, ReadPreference, ReadHealth, RequestFails,
        AcknowledgeCommunication, LockCommunication, CallFails, ListCommunications, GetCommunication,
        ObserveDelivery, Tick

LEMMA RequiredInvariance == Spec => []RequiredInv
  <1>1. Init => RequiredInv
    BY DEF Init, RequiredInv, IsLocked
  <1>2. IInv /\ RequiredInv /\ [Next]_vars => RequiredInv'
    <2> SUFFICES ASSUME IInv, RequiredInv, [Next]_vars PROVE RequiredInv'
      OBVIOUS
    <2>1. \A c \in Calls : IsLocked(c) =>
            call[c].body.message \in Messages /\ row[call[c].body.message] # None
      BY DEF IInv, TypeOK, LockHolds, IsLocked, Body
    <2>2. \A a \in acks : a.message \in Messages /\ row[a.message] # None
      BY DEF IInv, TypeOK, AcksMatchRows, Ack
    <2>3. ASSUME acks' = acks, \A c \in Calls : IsLocked(c)' => IsLocked(c) /\ call'[c].body = call[c].body
          PROVE  RequiredInv'
      <3>1. \A a \in acks' : row'[a.message].request.required
        BY <2>2, <2>3, RequestsStay DEF RequiredInv
      <3>2. ASSUME NEW c \in Calls, IsLocked(c)'
            PROVE  row'[call'[c].body.message].request.required
        BY <2>1, <2>3, <3>2, RequestsStay DEF RequiredInv
      <3> QED BY <3>1, <3>2 DEF RequiredInv
    <2>4. ASSUME NEW c \in Calls, NEW timely \in BOOLEAN, LockCommunication(c, timely)
          PROVE  RequiredInv'
      <3>1. \A d \in Calls : (d # c /\ IsLocked(d)') => IsLocked(d) /\ call'[d] = call[d]
        BY <2>4 DEF IInv, TypeOK, LockCommunication, IsLocked
      <3>2. IsLocked(c)' => Acknowledgeable(call[c].body) /\ call'[c].body = call[c].body
        BY <2>4 DEF IInv, TypeOK, LockCommunication, IsLocked
      <3>3. acks' = acks /\ row' = row
        BY <2>4 DEF LockCommunication
      <3> QED BY <3>1, <3>2, <3>3 DEF RequiredInv, Acknowledgeable
    <2>5. ASSUME NEW c \in Calls, RecordAcknowledgement(c)
          PROVE  RequiredInv'
      <3> DEFINE body == call[c].body
                 new == [message |-> body.message, person |-> body.person, client |-> body.client]
      <3>1. IsLocked(c) /\ acks' = acks \cup {new} /\ call' = [call EXCEPT ![c] = None]
        BY <2>5 DEF RecordAcknowledgement, IsLocked
      <3>2. row'[body.message].request.required
        BY <2>1, <3>1, RequestsStay DEF RequiredInv
      <3>3. new.message = body.message
        OBVIOUS
      <3> HIDE DEF body, new
      <3>4. \A a \in acks' : row'[a.message].request.required
        BY <2>2, <3>1, <3>2, <3>3, RequestsStay DEF RequiredInv
      <3>5. \A d \in Calls : IsLocked(d)' => IsLocked(d) /\ call'[d] = call[d]
        BY <3>1 DEF IInv, TypeOK, IsLocked
      <3>6. ASSUME NEW d \in Calls, IsLocked(d)'
            PROVE  row'[call'[d].body.message].request.required
        BY <2>1, <3>5, <3>6, RequestsStay DEF RequiredInv
      <3> QED BY <3>4, <3>6 DEF RequiredInv
    <2>6. ASSUME NEW c \in Calls, NEW body \in Body, AcknowledgeCommunication(c, body)
          PROVE  RequiredInv'
      BY <2>3, <2>6 DEF IInv, TypeOK, AcknowledgeCommunication, IsLocked
    <2>7. ASSUME NEW c \in Calls, CallFails(c)
          PROVE  RequiredInv'
      BY <2>3, <2>7 DEF IInv, TypeOK, CallFails, IsLocked
    <2>8. ASSUME UNCHANGED <<acks, call>>
          PROVE  RequiredInv'
      BY <2>3, <2>8 DEF IsLocked
    <2> QED
      BY <2>4, <2>5, <2>6, <2>7, <2>8
      DEF Next, vars, RequestInternalCommunication, ReadContacts, ReadPreference, ReadHealth, RequestFails,
          InsertCommunication, ListCommunications, GetCommunication, WorkerMoves, ObserveDelivery, Tick
  <1> QED BY <1>1, <1>2, SpecIInv, PTL DEF Spec

\* The two answers to an outage are one: a replay has been asked for in recovery.
LEMMA OutagesAgree == OutageRoutesAgree
  BY DEF OutageRoutesAgree, ProviderOutage, DegradedMode, OutageStates, CriticalClasses

\* The two routers close the same messages, those that the recipient has done with
\* and no others, as long as only what asks for it is acknowledged.
LEMMA RoutersClose ==
  ASSUME NEW in, in.attempts \in Nat, in.limit \in Nat, in.acknowledged => in.required
  PROVE  /\ DeliveryAssurance(in) = "COMPLETE" <=> ClosureRoute(in) = "COMPLETE"
         /\ ClosureRoute(in) = "COMPLETE" <=> in.acknowledged \/ (~in.required /\ in.state \in Arrived)
         /\ (DeliveryAssurance(in) = "TRIGGER_FALLBACK" /\ in.attempts > 0)
              => ClosureRoute(in) = "ATTEMPT_FALLBACK"
         /\ (DeliveryAssurance(in) = "OPEN_COMMUNICATION_FAILURE_CASE" /\ in.attempts > 0
               /\ ~in.overdue /\ in.contact = "REACHABLE")
              => ClosureRoute(in) = "OPEN_COMMUNICATION_FAILURE_CASE"
         /\ (DeliveryAssurance(in) = "WAIT_FOR_ACKNOWLEDGEMENT" /\ in.attempts > 0
               /\ in.attempts < in.limit)
              => ClosureRoute(in) = "WAIT_FOR_DELIVERY_OR_ACKNOWLEDGEMENT"
         /\ (in.required /\ ~in.acknowledged /\ in.state \in Failed /\ in.critical /\ in.attempts > 0)
              => ClosureRoute(in) \in {"ATTEMPT_FALLBACK", "OPEN_COMMUNICATION_FAILURE_CASE"}
  <1>1. ClosureRoute(in) = "COMPLETE" <=> in.acknowledged \/ (~in.required /\ in.state \in Arrived)
    BY DEF ClosureRoute
  <1>2. DeliveryAssurance(in) = "COMPLETE" <=> in.acknowledged \/ (~in.required /\ in.state \in Arrived)
    BY DEF DeliveryAssurance
  <1>3. ASSUME DeliveryAssurance(in) = "TRIGGER_FALLBACK", in.attempts > 0
        PROVE  ClosureRoute(in) = "ATTEMPT_FALLBACK"
    <2>1. ~in.acknowledged /\ in.fallback /\ in.attempts < in.limit /\ in.state \in Failed
      BY <1>3 DEF DeliveryAssurance
    <2>2. in.state \notin Arrived
      BY <2>1 DEF Failed, Arrived
    <2>3. ~(in.attempts = 0) /\ ~(in.attempts >= in.limit)
      BY <1>3, <2>1
    <2> QED BY <2>1, <2>2, <2>3 DEF ClosureRoute
  <1>4. ASSUME DeliveryAssurance(in) = "OPEN_COMMUNICATION_FAILURE_CASE", in.attempts > 0,
               ~in.overdue, in.contact = "REACHABLE"
        PROVE  ClosureRoute(in) = "OPEN_COMMUNICATION_FAILURE_CASE"
    <2>1. /\ in.critical /\ in.attempts >= in.limit
          /\ ~(in.required /\ in.acknowledged) /\ ~(~in.required /\ in.state \in Arrived)
      BY <1>4 DEF DeliveryAssurance
    <2>2. ~(in.acknowledged \/ (~in.required /\ in.state \in Arrived)) /\ ~(in.attempts = 0)
      BY <1>4, <2>1
    <2> QED BY <2>1, <2>2 DEF ClosureRoute
  <1>5. ASSUME DeliveryAssurance(in) = "WAIT_FOR_ACKNOWLEDGEMENT", in.attempts > 0,
               in.attempts < in.limit
        PROVE  ClosureRoute(in) = "WAIT_FOR_DELIVERY_OR_ACKNOWLEDGEMENT"
    <2>1. in.required /\ ~in.acknowledged /\ in.state \in Arrived
      BY <1>5 DEF DeliveryAssurance
    <2>2. in.state \notin Failed
      BY <2>1 DEF Failed, Arrived
    <2>3. ~(in.attempts = 0) /\ ~(in.attempts >= in.limit)
      BY <1>5
    <2> QED BY <2>1, <2>2, <2>3 DEF ClosureRoute
  <1>6. ASSUME in.required, ~in.acknowledged, in.state \in Failed, in.critical, in.attempts > 0
        PROVE  ClosureRoute(in) \in {"ATTEMPT_FALLBACK", "OPEN_COMMUNICATION_FAILURE_CASE"}
    <2>1. in.state \notin Arrived /\ ~(in.attempts = 0)
      BY <1>6 DEF Failed, Arrived
    <2> QED BY <1>6, <2>1 DEF ClosureRoute
  <1> QED BY <1>1, <1>2, <1>3, <1>4, <1>5, <1>6

LEMMA RoutersAgreeOnRows ==
  ASSUME IInv, ObservedInv, RequiredInv
  PROVE  RoutersAgree
  <1>1. ASSUME NEW m \in Messages, NEW fallback \in BOOLEAN, NEW contact \in {"REACHABLE", "UNREACHABLE"},
               NEW limit \in 1..2, row[m] # None
        PROVE  LET in == Asked(m, fallback, contact, limit)
                   view == AcknowledgementEscalation(m)
                   assured == DeliveryAssurance(in)
                   route == ClosureRoute(in)
               IN /\ assured = "COMPLETE" <=> route = "COMPLETE"
                  /\ view = "ACKNOWLEDGED" => route = "COMPLETE"
                  /\ view = "HUMAN_ESCALATION_REQUIRED" => assured # "COMPLETE"
                  /\ in.attempts > 0 =>
                       /\ assured = "TRIGGER_FALLBACK" => route = "ATTEMPT_FALLBACK"
                       /\ ~in.overdue /\ contact = "REACHABLE" =>
                            /\ assured = "OPEN_COMMUNICATION_FAILURE_CASE" => route = assured
                            /\ (assured = "WAIT_FOR_ACKNOWLEDGEMENT" /\ in.attempts < limit) =>
                                 route = "WAIT_FOR_DELIVERY_OR_ACKNOWLEDGEMENT"
                            /\ (view = "HUMAN_ESCALATION_REQUIRED" /\ in.critical
                                  /\ in.state # "SUPPRESSED_STALE") =>
                                 route \in {"ATTEMPT_FALLBACK", "OPEN_COMMUNICATION_FAILURE_CASE"}
    <2> DEFINE in == Asked(m, fallback, contact, limit)
               view == AcknowledgementEscalation(m)
               assured == DeliveryAssurance(in)
               route == ClosureRoute(in)
    <2>1. /\ in.required = row[m].request.required /\ in.acknowledged = Acknowledged(m)
          /\ in.attempts = Len(observed[m]) /\ in.limit = limit
          /\ in.overdue = Overdue(m) /\ in.contact = contact /\ in.state = LatestState(m)
      BY DEF Asked
    <2>2. in.attempts \in Nat /\ in.limit \in Nat
      <3>1. observed[m] \in Seq(Observations)
        BY DEF ObservedInv, SeenOK
      <3> QED BY <2>1, <3>1
    <2>3. Acknowledged(m) => row[m].request.required
      BY DEF RequiredInv, Acknowledged
    <2>4. in.acknowledged => in.required
      BY <2>1, <2>3
    <2>5. /\ view = "ACKNOWLEDGED" => in.required /\ in.acknowledged
          /\ view = "HUMAN_ESCALATION_REQUIRED" => in.required /\ ~in.acknowledged
          /\ (view = "HUMAN_ESCALATION_REQUIRED" /\ ~in.overdue /\ in.state # "SUPPRESSED_STALE")
               => in.state \in Failed
      BY <2>1 DEF AcknowledgementEscalation, AcknowledgementAction
    <2> HIDE DEF in, view
    <2>6. /\ assured = "COMPLETE" <=> route = "COMPLETE"
          /\ route = "COMPLETE" <=> in.acknowledged \/ (~in.required /\ in.state \in Arrived)
          /\ (assured = "TRIGGER_FALLBACK" /\ in.attempts > 0) => route = "ATTEMPT_FALLBACK"
          /\ (assured = "OPEN_COMMUNICATION_FAILURE_CASE" /\ in.attempts > 0
                /\ ~in.overdue /\ in.contact = "REACHABLE")
               => route = "OPEN_COMMUNICATION_FAILURE_CASE"
          /\ (assured = "WAIT_FOR_ACKNOWLEDGEMENT" /\ in.attempts > 0 /\ in.attempts < in.limit)
               => route = "WAIT_FOR_DELIVERY_OR_ACKNOWLEDGEMENT"
          /\ (in.required /\ ~in.acknowledged /\ in.state \in Failed /\ in.critical /\ in.attempts > 0)
               => route \in {"ATTEMPT_FALLBACK", "OPEN_COMMUNICATION_FAILURE_CASE"}
      BY <2>2, <2>4, RoutersClose
    <2> HIDE DEF assured, route
    <2>7. view = "ACKNOWLEDGED" => route = "COMPLETE"
      BY <2>5, <2>6
    <2>8. view = "HUMAN_ESCALATION_REQUIRED" => assured # "COMPLETE"
      BY <2>5, <2>6
    <2>9. ASSUME in.attempts > 0, ~in.overdue, contact = "REACHABLE"
          PROVE  /\ assured = "OPEN_COMMUNICATION_FAILURE_CASE" => route = assured
                 /\ (assured = "WAIT_FOR_ACKNOWLEDGEMENT" /\ in.attempts < limit) =>
                      route = "WAIT_FOR_DELIVERY_OR_ACKNOWLEDGEMENT"
                 /\ (view = "HUMAN_ESCALATION_REQUIRED" /\ in.critical /\ in.state # "SUPPRESSED_STALE")
                      => route \in {"ATTEMPT_FALLBACK", "OPEN_COMMUNICATION_FAILURE_CASE"}
      BY <2>1, <2>5, <2>6, <2>9
    <2> QED BY <2>6, <2>7, <2>8, <2>9 DEF in, view, assured, route
  <1> QED BY <1>1, OutagesAgree DEF RoutersAgree

\* The deciders of a message agree about what all of them are told, whatever contacts,
\* preferences, health and observations the rows come to hold: planCommunicationRoute
\* beside evaluateNotificationPolicy, of what has not expired and is not deferred for
\* quiet hours; the recipient's view, deliveryAssuranceDecision and
\* decideCommunicationsClosureRoute, which close the same messages, and take the same
\* way with one that has been attempted, is in time and can be delivered.  Nothing is
\* said of a missed deadline, which the closure route is not told of.
THEOREM DecidersAgreeInTime == Spec => []DecidersAgreeOnCommonFacts
  <1>1. IInv /\ CurrencyInv /\ ObservedInv /\ RequiredInv => DecidersAgreeOnCommonFacts
    BY PlanIsPermitted, RoutersAgreeOnRows DEF DecidersAgreeOnCommonFacts
  <1> QED BY <1>1, SpecIInv, CurrencyInvariance, ObservedInvariance, RequiredInvariance, PTL
-----------------------------------------------------------------------------
(* The apps: what the API holds only moves on, and what an app is told or   *)
(* shows has been so.                                                       *)

\* The rows that the screens are compared with.
ApiInv ==
  /\ status \in [Bookings -> DOMAIN BookingOrder]
  /\ journey \in [Bookings -> DOMAIN JourneyOrder]
  /\ DOMAIN agreed = Bookings
  /\ offers \subseteq Bookings /\ \A b \in offers : status[b] = "SEARCHING_FOR_DRIVER"
  /\ assigned # Nil => assigned \in Bookings /\ status[assigned] = "DRIVER_ASSIGNED"
  /\ ConfirmedWithOwnQuote

\* A value that a Booking, or its Journey, has had is no further than where it is.
HasBeen(b, value) ==
  /\ b \in Bookings /\ value \in DOMAIN BookingOrder
  /\ BookingOrder[value] <= BookingOrder[status[b]]

JourneyHasBeen(b, value) ==
  /\ b \in Bookings /\ value \in DOMAIN JourneyOrder
  /\ JourneyOrder[value] <= JourneyOrder[journey[b]]

HasDriver(b) == b \in Bookings /\ BookingOrder[status[b]] >= 5

SafetyOps == {"sendSos", "signalSafety", "terminateUnsafe"}

\* What a handler knows when its command, or its read, has been answered.
AnsweredOK(c) ==
  /\ c.answer.booking # Nil => HasBeen(c.answer.booking, c.answer.status)
  /\ c.op = "beginDispatch" => c.answer.booking = c.booking
  /\ c.op = "accept" => HasDriver(c.answer.booking)
  /\ c.op \in SafetyOps => c.booking \in signals

ReadOK(c) ==
  /\ c.booking # Nil => HasBeen(c.booking, c.answer.status) /\ JourneyHasBeen(c.booking, c.answer.journey)
  /\ c.answer.offers \subseteq Bookings

CallOK(c) ==
  /\ DOMAIN c = {"slot", "op", "booking", "arg", "phase", "answer"}
  /\ c.booking \in Bookings \cup {Nil}
  /\ c.phase = "answered" => AnsweredOK(c)
  /\ c.phase = "read" => ReadOK(c)

ScreenOK(s) ==
  /\ s.journey.booking # Nil => JourneyHasBeen(s.journey.booking, s.journey.status)
  /\ s.notice \subseteq signals
  /\ app = "rider" => DOMAIN s = DOMAIN RiderStart /\ (s.booking # Nil => HasBeen(s.booking, s.status))
  /\ app = "driver" => /\ DOMAIN s = DOMAIN DriverStart
                       /\ s.assigned # Nil => HasDriver(s.assigned)
                       /\ s.offers \subseteq Bookings

AppsInv ==
  /\ ApiInv
  /\ app \in {"rider", "driver"}
  /\ ScreenOK(screen)
  /\ \A c \in calls : CallOK(c)

LEMMA OrdersAreNumbers ==
  /\ \A s \in DOMAIN BookingOrder : BookingOrder[s] \in Nat
  /\ \A s \in DOMAIN JourneyOrder : JourneyOrder[s] \in Nat
  BY DEF BookingOrder, JourneyOrder

LEMMA BookingOrders ==
  /\ "ABSENT" \in DOMAIN BookingOrder /\ "NONE" \in DOMAIN BookingOrder
  /\ "DRAFT" \in DOMAIN BookingOrder /\ "AWAITING_CONFIRMATION" \in DOMAIN BookingOrder
  /\ "READY_FOR_DISPATCH" \in DOMAIN BookingOrder /\ "NO_ELIGIBLE_DRIVER" \in DOMAIN BookingOrder
  /\ "SEARCHING_FOR_DRIVER" \in DOMAIN BookingOrder /\ "DRIVER_ASSIGNED" \in DOMAIN BookingOrder
  /\ "ACTIVE_INCIDENT" \in DOMAIN BookingOrder
  /\ BookingOrder["ABSENT"] = 0 /\ BookingOrder["NONE"] = 0 /\ BookingOrder["DRAFT"] = 1
  /\ BookingOrder["AWAITING_CONFIRMATION"] = 2 /\ BookingOrder["READY_FOR_DISPATCH"] = 3
  /\ BookingOrder["NO_ELIGIBLE_DRIVER"] = 4 /\ BookingOrder["SEARCHING_FOR_DRIVER"] = 4
  /\ BookingOrder["DRIVER_ASSIGNED"] = 5 /\ BookingOrder["ACTIVE_INCIDENT"] = 6
  BY DEF BookingOrder

\* Every step of a Journey is forward.
LEMMA JourneyStepsAdvance ==
  /\ \A s \in JourneySteps : /\ s[2] \in DOMAIN JourneyOrder /\ s[3] \in DOMAIN JourneyOrder
                             /\ JourneyOrder[s[2]] <= JourneyOrder[s[3]]
  /\ {"NONE", "ARRIVING", "COMPLETED"} \subseteq DOMAIN JourneyOrder
  /\ JourneyOrder["NONE"] = 0 /\ JourneyOrder["ARRIVING"] <= JourneyOrder["COMPLETED"]
  BY DEF JourneySteps, JourneyOrder

\* What the API holds of a Booking moves on or stays.
ApiMoves ==
  /\ \A b \in Bookings : BookingOrder[status[b]] <= BookingOrder[status'[b]]
  /\ \A b \in Bookings : JourneyOrder[journey[b]] <= JourneyOrder[journey'[b]]
  /\ signals \subseteq signals'

LEMMA StatusMove ==
  ASSUME ApiInv, NEW b \in Bookings, NEW to \in DOMAIN BookingOrder,
         status' = [status EXCEPT ![b] = to],
         BookingOrder[status[b]] <= BookingOrder[to],
         UNCHANGED journey, signals \subseteq signals'
  PROVE  /\ ApiMoves
         /\ status' \in [Bookings -> DOMAIN BookingOrder] /\ journey' \in [Bookings -> DOMAIN JourneyOrder]
         /\ status'[b] = to /\ \A x \in Bookings \ {b} : status'[x] = status[x]
  <1>1. status'[b] = to /\ \A x \in Bookings \ {b} : status'[x] = status[x]
    BY DEF ApiInv
  <1>2. \A x \in Bookings : BookingOrder[status[x]] <= BookingOrder[status'[x]]
    BY <1>1, OrdersAreNumbers DEF ApiInv
  <1>3. \A x \in Bookings : JourneyOrder[journey[x]] <= JourneyOrder[journey'[x]]
    BY OrdersAreNumbers DEF ApiInv
  <1> QED BY <1>1, <1>2, <1>3 DEF ApiInv, ApiMoves

LEMMA JourneyMove ==
  ASSUME ApiInv, NEW b \in Bookings, NEW to \in DOMAIN JourneyOrder,
         journey' = [journey EXCEPT ![b] = to],
         JourneyOrder[journey[b]] <= JourneyOrder[to],
         UNCHANGED <<status, signals>>
  PROVE  ApiMoves /\ journey' \in [Bookings -> DOMAIN JourneyOrder]
  <1>1. \A x \in Bookings : JourneyOrder[journey[x]] <= JourneyOrder[journey'[x]]
    BY OrdersAreNumbers DEF ApiInv
  <1>2. \A x \in Bookings : BookingOrder[status[x]] <= BookingOrder[status'[x]]
    BY OrdersAreNumbers DEF ApiInv
  <1> QED BY <1>1, <1>2 DEF ApiInv, ApiMoves

LEMMA RowsAsTheyWere ==
  ASSUME ApiInv, UNCHANGED <<status, journey>>, signals \subseteq signals'
  PROVE  ApiMoves
  BY OrdersAreNumbers DEF ApiInv, ApiMoves

\* What a command has done to the Booking that it names.
Done(c, b) ==
  /\ b \in Bookings => status'[b] \in DOMAIN BookingOrder
  /\ c.op \in {"beginDispatch", "accept"} \cup SafetyOps => b \in Bookings /\ b = c.booking
  /\ c.op = "accept" => BookingOrder[status'[b]] >= 5
  /\ c.op \in SafetyOps => b \in signals'

LEMMA CommandOfBookingStep ==
  ASSUME ApiInv, NEW c, NEW b \in Bookings, CommandOfBooking(c, b)
  PROVE  ApiInv' /\ ApiMoves /\ Done(c, b)
  <1> USE DEF bookingRows, journeyRows, driverRows
  <1>0. status[b] \in DOMAIN BookingOrder /\ \A x \in Bookings : status[x] \in DOMAIN BookingOrder
    BY DEF ApiInv
  <1>1. CASE CreateRiderBooking(c, b)
    <2>1. ApiMoves /\ status' \in [Bookings -> DOMAIN BookingOrder] /\ status'[b] = "DRAFT"
          /\ journey' \in [Bookings -> DOMAIN JourneyOrder]
          /\ \A x \in Bookings \ {b} : status'[x] = status[x]
      <3>1. /\ status' = [status EXCEPT ![b] = "DRAFT"] /\ UNCHANGED journey /\ signals \subseteq signals'
            /\ BookingOrder[status[b]] <= BookingOrder["DRAFT"] /\ "DRAFT" \in DOMAIN BookingOrder
        BY <1>1, BookingOrders DEF CreateRiderBooking
      <3> QED BY <3>1, StatusMove
    <2>2. ApiInv'
      BY <1>1, <2>1, BookingOrders DEF CreateRiderBooking, ApiInv, ConfirmedWithOwnQuote
    <2> QED BY <1>1, <2>1, <2>2 DEF CreateRiderBooking, Done, SafetyOps
  <1>2. CASE QuoteRiderBooking(c, b)
    <2>1. ApiMoves /\ status' \in [Bookings -> DOMAIN BookingOrder] /\ status'[b] = "AWAITING_CONFIRMATION"
          /\ journey' \in [Bookings -> DOMAIN JourneyOrder]
          /\ \A x \in Bookings \ {b} : status'[x] = status[x]
      <3>1. /\ status' = [status EXCEPT ![b] = "AWAITING_CONFIRMATION"] /\ UNCHANGED journey /\ signals \subseteq signals'
            /\ BookingOrder[status[b]] <= BookingOrder["AWAITING_CONFIRMATION"] /\ "AWAITING_CONFIRMATION" \in DOMAIN BookingOrder
        BY <1>2, BookingOrders DEF QuoteRiderBooking
      <3> QED BY <3>1, StatusMove
    <2>2. ApiInv'
      BY <1>2, <2>1, BookingOrders DEF QuoteRiderBooking, ApiInv, ConfirmedWithOwnQuote
    <2> QED BY <1>2, <2>1, <2>2 DEF QuoteRiderBooking, Done, SafetyOps
  <1>3. CASE ConfirmRiderBooking(c, b)
    <2>1. ApiMoves /\ status' \in [Bookings -> DOMAIN BookingOrder] /\ status'[b] = "READY_FOR_DISPATCH"
          /\ journey' \in [Bookings -> DOMAIN JourneyOrder]
          /\ \A x \in Bookings \ {b} : status'[x] = status[x]
      <3>1. /\ status' = [status EXCEPT ![b] = "READY_FOR_DISPATCH"] /\ UNCHANGED journey /\ signals \subseteq signals'
            /\ BookingOrder[status[b]] <= BookingOrder["READY_FOR_DISPATCH"] /\ "READY_FOR_DISPATCH" \in DOMAIN BookingOrder
        BY <1>3, BookingOrders DEF ConfirmRiderBooking
      <3> QED BY <3>1, StatusMove
    <2>2. DOMAIN agreed' = Bookings /\ agreed'[b] = b /\ \A x \in Bookings \ {b} : agreed'[x] = agreed[x]
      BY <1>3 DEF ConfirmRiderBooking, ApiInv
    <2>3. ConfirmedWithOwnQuote'
      BY <2>1, <2>2 DEF ApiInv, ConfirmedWithOwnQuote
    <2>4. ApiInv'
      BY <1>3, <2>1, <2>2, <2>3 DEF ConfirmRiderBooking, ApiInv
    <2> QED BY <1>3, <2>1, <2>4 DEF ConfirmRiderBooking, Done, SafetyOps
  <1>4. CASE StartBookingDispatch(c, b)
    <2>1. PICK to \in {"SEARCHING_FOR_DRIVER", "NO_ELIGIBLE_DRIVER"} :
             /\ status' = [status EXCEPT ![b] = to]
             /\ offers' = offers \/ (to = "SEARCHING_FOR_DRIVER" /\ offers' = offers \cup {b})
      BY <1>4 DEF StartBookingDispatch
    <2>2. ApiMoves /\ status' \in [Bookings -> DOMAIN BookingOrder] /\ status'[b] = to
          /\ journey' \in [Bookings -> DOMAIN JourneyOrder]
          /\ \A x \in Bookings \ {b} : status'[x] = status[x]
      <3>1. /\ status' = [status EXCEPT ![b] = to] /\ UNCHANGED journey /\ signals \subseteq signals'
            /\ BookingOrder[status[b]] <= BookingOrder[to] /\ to \in DOMAIN BookingOrder
        BY <1>4, <2>1, BookingOrders DEF StartBookingDispatch
      <3> QED BY <3>1, StatusMove
    <2>3. offers' \subseteq Bookings /\ \A x \in offers' : status'[x] = "SEARCHING_FOR_DRIVER"
      BY <1>4, <2>1, <2>2 DEF StartBookingDispatch, ApiInv
    <2>4. ConfirmedWithOwnQuote'
      BY <1>4, <2>2, BookingOrders DEF StartBookingDispatch, ApiInv, ConfirmedWithOwnQuote
    <2>5. ApiInv'
      BY <1>4, <2>2, <2>3, <2>4 DEF StartBookingDispatch, ApiInv
    <2> QED BY <1>4, <2>2, <2>5 DEF StartBookingDispatch, Done, SafetyOps
  <1>5. CASE AcceptDriverOffer(c, b)
    <2>1. status[b] = "SEARCHING_FOR_DRIVER"
      BY <1>5 DEF AcceptDriverOffer, ApiInv
    <2>2. ApiMoves /\ status' \in [Bookings -> DOMAIN BookingOrder] /\ status'[b] = "DRIVER_ASSIGNED"
          /\ journey' \in [Bookings -> DOMAIN JourneyOrder]
          /\ \A x \in Bookings \ {b} : status'[x] = status[x]
      <3>1. /\ status' = [status EXCEPT ![b] = "DRIVER_ASSIGNED"] /\ UNCHANGED journey /\ signals \subseteq signals'
            /\ BookingOrder[status[b]] <= BookingOrder["DRIVER_ASSIGNED"] /\ "DRIVER_ASSIGNED" \in DOMAIN BookingOrder
        BY <1>5, <2>1, BookingOrders DEF AcceptDriverOffer
      <3> QED BY <3>1, StatusMove
    <2>3. ConfirmedWithOwnQuote'
      BY <1>5, <2>1, <2>2, BookingOrders DEF AcceptDriverOffer, ApiInv, ConfirmedWithOwnQuote
    <2>4. ApiInv'
      BY <1>5, <2>2, <2>3 DEF AcceptDriverOffer, ApiInv
    <2> QED BY <1>5, <2>2, <2>4, BookingOrders DEF AcceptDriverOffer, Done, SafetyOps
  <1>6. CASE DeclineDriverOffer(c, b)
    <2>1. UNCHANGED <<status, agreed, journey, signals, assigned>> /\ offers' \subseteq offers
      BY <1>6 DEF DeclineDriverOffer
    <2>2. ApiInv' /\ ApiMoves
      BY <2>1, RowsAsTheyWere DEF ApiInv, ConfirmedWithOwnQuote
    <2> QED BY <1>0, <1>6, <2>1, <2>2 DEF DeclineDriverOffer, Done, SafetyOps
  <1>7. CASE StepJourney(c, b)
    <2>1. PICK s \in JourneySteps : s[1] = c.op /\ s[2] = journey[b] /\ journey' = [journey EXCEPT ![b] = s[3]]
      BY <1>7 DEF StepJourney
    <2>2. ApiMoves /\ journey' \in [Bookings -> DOMAIN JourneyOrder]
      BY <1>7, <2>1, JourneyStepsAdvance, JourneyMove DEF StepJourney
    <2>3. UNCHANGED <<status, agreed, signals, assigned, offers>>
      BY <1>7 DEF StepJourney
    <2>4. ApiInv'
      BY <2>2, <2>3 DEF ApiInv, ConfirmedWithOwnQuote
    <2>5. c.op \notin {"beginDispatch", "accept"} \cup SafetyOps
      BY <2>1 DEF JourneySteps, SafetyOps
    <2>6. c.op # "accept" /\ c.op \notin SafetyOps
      BY <2>5
    <2> QED BY <1>0, <2>2, <2>3, <2>4, <2>5, <2>6 DEF Done
  <1>8. CASE CompleteJourney(c, b)
    <2>1. ApiMoves /\ journey' \in [Bookings -> DOMAIN JourneyOrder]
      BY <1>8, JourneyStepsAdvance, JourneyMove DEF CompleteJourney
    <2>2. ApiInv'
      BY <1>8, <2>1 DEF CompleteJourney, ApiInv, ConfirmedWithOwnQuote
    <2> QED BY <1>0, <1>8, <2>1, <2>2 DEF CompleteJourney, Done, SafetyOps
  <1>9. CASE CreateSafetySignal(c, b)
    <2>1. UNCHANGED <<status, agreed, journey, assigned, offers>> /\ signals' = signals \cup {b}
          /\ b = c.booking /\ c.op \in {"sendSos", "signalSafety"}
      BY <1>9 DEF CreateSafetySignal
    <2>2. ApiInv' /\ ApiMoves
      BY <2>1, RowsAsTheyWere DEF ApiInv, ConfirmedWithOwnQuote
    <2> QED BY <1>0, <2>1, <2>2 DEF Done, SafetyOps
  <1>10. CASE SafelyTerminateUnsafeJourney(c, b)
    <2>1. status[b] = "DRIVER_ASSIGNED"
      BY <1>10, AppsConstants DEF SafelyTerminateUnsafeJourney, ApiInv
    <2>2. signals' = signals \cup {b}
      BY <1>10 DEF SafelyTerminateUnsafeJourney
    <2>3. ApiMoves /\ status' \in [Bookings -> DOMAIN BookingOrder] /\ status'[b] = "ACTIVE_INCIDENT"
          /\ journey' \in [Bookings -> DOMAIN JourneyOrder]
          /\ \A x \in Bookings \ {b} : status'[x] = status[x]
      <3>1. /\ status' = [status EXCEPT ![b] = "ACTIVE_INCIDENT"] /\ UNCHANGED journey /\ signals \subseteq signals'
            /\ BookingOrder[status[b]] <= BookingOrder["ACTIVE_INCIDENT"] /\ "ACTIVE_INCIDENT" \in DOMAIN BookingOrder
        BY <1>10, <2>1, <2>2, BookingOrders DEF SafelyTerminateUnsafeJourney
      <3> QED BY <3>1, StatusMove
    <2>4. ConfirmedWithOwnQuote'
      BY <1>10, <2>1, <2>3, BookingOrders DEF SafelyTerminateUnsafeJourney, ApiInv, ConfirmedWithOwnQuote
    <2>5. ApiInv'
      BY <1>10, <2>1, <2>3, <2>4 DEF SafelyTerminateUnsafeJourney, ApiInv
    <2> QED BY <1>10, <2>2, <2>3, <2>5 DEF SafelyTerminateUnsafeJourney, Done, SafetyOps
  <1> QED
    BY <1>1, <1>2, <1>3, <1>4, <1>5, <1>6, <1>7, <1>8, <1>9, <1>10 DEF CommandOfBooking

LEMMA CommandStep ==
  ASSUME ApiInv, NEW c, NEW b \in Bookings \cup {Nil}, Command(c, b)
  PROVE  ApiInv' /\ ApiMoves /\ Done(c, b)
  <1>1. CASE b \in Bookings /\ CommandOfBooking(c, b)
    BY <1>1, CommandOfBookingStep
  <1>2. CASE SetDriverAvailability(c, b) \/ ReconcileDriverConnectivity(c, b)
    <2>1. /\ b = Nil /\ UNCHANGED <<status, agreed, journey, signals, assigned>>
          /\ offers' = offers \/ offers' = {}
          /\ c.op \in {"changeWorkIntent", "goOffline", "reconcileAuthoritativeState"}
      BY <1>2 DEF SetDriverAvailability, ReconcileDriverConnectivity, api, bookingRows, journeyRows, driverRows
    <2>2. ApiInv' /\ ApiMoves
      BY <2>1, RowsAsTheyWere DEF ApiInv, ConfirmedWithOwnQuote
    <2> QED BY <2>1, <2>2, AppsConstants DEF Done, SafetyOps
  <1> QED BY <1>1, <1>2 DEF Command

\* What has been so has been so after every further step.
LEMMA WhatHasBeen ==
  ASSUME ApiInv, ApiInv', ApiMoves
  PROVE  /\ \A b, v : HasBeen(b, v) => HasBeen(b, v)'
         /\ \A b, v : JourneyHasBeen(b, v) => JourneyHasBeen(b, v)'
         /\ \A b : HasDriver(b) => HasDriver(b)'
  <1>1. /\ \A v \in DOMAIN BookingOrder : BookingOrder[v] \in Nat
        /\ \A v \in DOMAIN JourneyOrder : JourneyOrder[v] \in Nat
        /\ \A b \in Bookings : /\ BookingOrder[status[b]] \in Nat /\ BookingOrder[status'[b]] \in Nat
                               /\ JourneyOrder[journey[b]] \in Nat /\ JourneyOrder[journey'[b]] \in Nat
    BY OrdersAreNumbers DEF ApiInv
  <1>2. \A b, v : HasBeen(b, v) => HasBeen(b, v)'
    BY <1>1 DEF HasBeen, ApiMoves
  <1>3. \A b, v : JourneyHasBeen(b, v) => JourneyHasBeen(b, v)'
    BY <1>1 DEF JourneyHasBeen, ApiMoves
  <1>4. \A b : HasDriver(b) => HasDriver(b)'
    BY <1>1 DEF HasDriver, ApiMoves
  <1> QED BY <1>2, <1>3, <1>4

LEMMA CallStays ==
  ASSUME ApiInv, ApiInv', ApiMoves, NEW c, CallOK(c)
  PROVE  CallOK(c)'
  <1>1. c.phase = "answered" => AnsweredOK(c)'
    BY WhatHasBeen DEF CallOK, AnsweredOK, ApiMoves
  <1>2. c.phase = "read" => ReadOK(c)'
    BY WhatHasBeen DEF CallOK, ReadOK
  <1> QED BY <1>1, <1>2 DEF CallOK

LEMMA ScreenStays ==
  ASSUME ApiInv, ApiInv', ApiMoves, UNCHANGED app, NEW s, ScreenOK(s)
  PROVE  ScreenOK(s)'
  <1>1. s.journey.booking # Nil => JourneyHasBeen(s.journey.booking, s.journey.status)'
    BY WhatHasBeen DEF ScreenOK
  <1>2. s.notice \subseteq signals'
    BY DEF ScreenOK, ApiMoves
  <1>3. app' = "rider" => DOMAIN s = DOMAIN RiderStart
                          /\ (s.booking # Nil => HasBeen(s.booking, s.status)')
    BY WhatHasBeen DEF ScreenOK
  <1>4. app' = "driver" => /\ DOMAIN s = DOMAIN DriverStart
                           /\ s.assigned # Nil => HasDriver(s.assigned)'
                           /\ s.offers \subseteq Bookings
    BY WhatHasBeen DEF ScreenOK
  <1> QED BY <1>1, <1>2, <1>3, <1>4 DEF ScreenOK

\* What a read is answered with is so when it is asked.
LEMMA AskedOfTheApi ==
  ASSUME ApiInv, NEW c, DOMAIN c = {"slot", "op", "booking", "arg", "phase", "answer"},
         c.booking \in Bookings \cup {Nil}
  PROVE  CallOK(Ask(c))
  <1>1. CASE c.op = "refreshJourney" /\ journey[c.booking] = "NONE"
    BY <1>1 DEF Ask, CallOK
  <1>2. CASE ~(c.op = "refreshJourney" /\ journey[c.booking] = "NONE")
    <2>1. Ask(c) = [c EXCEPT !.phase = "read", !.answer = Projection(c)]
      BY <1>2 DEF Ask
    <2>2. /\ Projection(c).offers \in {{}, offers}
          /\ Projection(c).status \in {"NONE", status[c.booking]}
          /\ Projection(c).journey \in {"NONE", journey[c.booking]}
      BY DEF Projection, NoAnswer
    <2>3. Projection(c).offers \subseteq Bookings
      BY <2>2 DEF ApiInv
    <2>4. c.booking # Nil => /\ HasBeen(c.booking, Projection(c).status)
                             /\ JourneyHasBeen(c.booking, Projection(c).journey)
      BY <2>2, OrdersAreNumbers, BookingOrders, JourneyStepsAdvance
      DEF HasBeen, JourneyHasBeen, ApiInv
    <2> HIDE DEF Projection
    <2>5. ReadOK(Ask(c))
      BY <2>1, <2>3, <2>4 DEF ReadOK
    <2> QED BY <2>1, <2>5 DEF CallOK
  <1> QED BY <1>1, <1>2

\* What an answer puts on a screen is so when it is put there.
RiderFields == {"flow", "booking", "status", "quote", "dispatch", "journey", "notice"}
DriverFields == {"availability", "offers", "assigned", "journey", "notice"}

LEMMA FieldsOfTheScreens == DOMAIN RiderStart = RiderFields /\ DOMAIN DriverStart = DriverFields
  BY DEF RiderStart, DriverStart, RiderFields, DriverFields

LEMMA RiderShowsAnswers ==
  ASSUME app = "rider", NEW s, ScreenOK(s), NEW c, AnsweredOK(c)
  PROVE  ScreenOK(RiderAfterCommand(s, c))
  <1> DEFINE t == RiderAfterCommand(s, c)
  <1>0. DOMAIN s = RiderFields /\ (s.booking # Nil => HasBeen(s.booking, s.status))
    BY FieldsOfTheScreens DEF ScreenOK
  <1>1. /\ DOMAIN t = RiderFields /\ t.journey = s.journey
        /\ t.notice = s.notice \/ (c.op = "signalSafety" /\ t.notice = s.notice \cup {c.booking})
    BY <1>0 DEF RiderAfterCommand, RiderFields
  <1>2. \/ t.booking = s.booking /\ t.status = s.status
        \/ t.booking = c.answer.booking /\ t.status = c.answer.status
        \/ c.op = "beginDispatch" /\ t.booking = c.booking /\ t.status = c.answer.status
    BY <1>0 DEF RiderAfterCommand, RiderFields
  <1> HIDE DEF t
  <1>3. t.booking # Nil => HasBeen(t.booking, t.status)
    BY <1>0, <1>2 DEF AnsweredOK
  <1>4. t.notice \subseteq signals
    BY <1>1 DEF ScreenOK, AnsweredOK, SafetyOps
  <1>5. t.journey.booking # Nil => JourneyHasBeen(t.journey.booking, t.journey.status)
    BY <1>1 DEF ScreenOK
  <1>6. ScreenOK(t)
    BY <1>1, <1>3, <1>4, <1>5, FieldsOfTheScreens DEF ScreenOK
  <1> QED BY <1>6 DEF t

LEMMA RiderShowsReads ==
  ASSUME app = "rider", NEW s, ScreenOK(s), NEW c, ReadOK(c)
  PROVE  ScreenOK(RiderAfterRead(s, c))
  <1> DEFINE t == RiderAfterRead(s, c)
  <1>0. DOMAIN s = RiderFields /\ (s.booking # Nil => HasBeen(s.booking, s.status))
    BY FieldsOfTheScreens DEF ScreenOK
  <1>1. /\ DOMAIN t = RiderFields /\ t.notice = s.notice
        /\ t.journey = s.journey \/ t.journey = [booking |-> c.booking, status |-> c.answer.journey]
        /\ \/ t.booking = s.booking /\ t.status = s.status
           \/ t.booking = c.booking /\ t.status = c.answer.status
    BY <1>0 DEF RiderAfterRead, RiderFields
  <1> HIDE DEF t
  <1>2. t.booking # Nil => HasBeen(t.booking, t.status)
    BY <1>0, <1>1 DEF ReadOK
  <1>3. t.journey.booking # Nil => JourneyHasBeen(t.journey.booking, t.journey.status)
    <2>1. CASE t.journey = s.journey
      BY <2>1 DEF ScreenOK
    <2>2. CASE t.journey = [booking |-> c.booking, status |-> c.answer.journey]
      BY <2>2 DEF ReadOK
    <2> QED BY <1>1, <2>1, <2>2
  <1>4. t.notice \subseteq signals
    BY <1>1 DEF ScreenOK
  <1>5. ScreenOK(t)
    BY <1>1, <1>2, <1>3, <1>4, FieldsOfTheScreens DEF ScreenOK
  <1> QED BY <1>5 DEF t

LEMMA DriverShowsAnswers ==
  ASSUME app = "driver", NEW s, ScreenOK(s), NEW c, AnsweredOK(c)
  PROVE  ScreenOK(DriverAfterCommand(s, c))
  <1> DEFINE t == DriverAfterCommand(s, c)
  <1>0. DOMAIN s = DriverFields /\ (s.assigned # Nil => HasDriver(s.assigned)) /\ s.offers \subseteq Bookings
    BY FieldsOfTheScreens DEF ScreenOK
  <1>1. /\ DOMAIN t = DriverFields /\ t.journey = s.journey
        /\ t.assigned = s.assigned \/ (c.op = "accept" /\ t.assigned = c.answer.booking)
    BY <1>0 DEF DriverAfterCommand, DriverFields
  <1>2. /\ t.offers \in {s.offers, {}, s.offers \ {c.booking}}
        /\ \/ t.notice = s.notice
           \/ c.op \in {"sendSos", "terminateUnsafe"} /\ t.notice = s.notice \cup {c.booking}
    BY <1>0 DEF DriverAfterCommand, DriverFields
  <1> HIDE DEF t
  <1>3. (t.assigned # Nil => HasDriver(t.assigned)) /\ t.offers \subseteq Bookings
    BY <1>0, <1>1, <1>2 DEF AnsweredOK
  <1>4. t.notice \subseteq signals
    BY <1>2 DEF ScreenOK, AnsweredOK, SafetyOps
  <1>5. t.journey.booking # Nil => JourneyHasBeen(t.journey.booking, t.journey.status)
    BY <1>1 DEF ScreenOK
  <1>6. ScreenOK(t)
    BY <1>1, <1>3, <1>4, <1>5, FieldsOfTheScreens DEF ScreenOK
  <1> QED BY <1>6 DEF t

LEMMA DriverShowsReads ==
  ASSUME app = "driver", NEW s, ScreenOK(s), NEW c, ReadOK(c)
  PROVE  ScreenOK(DriverAfterRead(s, c))
  <1> DEFINE t == DriverAfterRead(s, c)
  <1>0. DOMAIN s = DriverFields /\ (s.assigned # Nil => HasDriver(s.assigned)) /\ s.offers \subseteq Bookings
    BY FieldsOfTheScreens DEF ScreenOK
  <1>1. /\ DOMAIN t = DriverFields /\ t.notice = s.notice /\ t.assigned = s.assigned
        /\ t.offers \in {s.offers, c.answer.offers}
        /\ t.journey = s.journey \/ t.journey = [booking |-> c.booking, status |-> c.answer.journey]
    BY <1>0 DEF DriverAfterRead, DriverFields
  <1> HIDE DEF t
  <1>2. t.offers \subseteq Bookings
    BY <1>0, <1>1 DEF ReadOK
  <1>3. t.journey.booking # Nil => JourneyHasBeen(t.journey.booking, t.journey.status)
    <2>1. CASE t.journey = s.journey
      BY <2>1 DEF ScreenOK
    <2>2. CASE t.journey = [booking |-> c.booking, status |-> c.answer.journey]
      BY <2>2 DEF ReadOK
    <2> QED BY <1>1, <2>1, <2>2
  <1>4. t.notice \subseteq signals
    BY <1>1 DEF ScreenOK
  <1>5. ScreenOK(t)
    BY <1>0, <1>1, <1>2, <1>3, <1>4, FieldsOfTheScreens DEF ScreenOK
  <1> QED BY <1>5 DEF t

\* A button names a Booking that the screen shows, or none.
LEMMA ButtonsNameBookings ==
  ASSUME ScreenOK(screen), app \in {"rider", "driver"}, NEW p \in Buttons
  PROVE  p[2] \in Bookings \cup {Nil}
  <1>0. screen.journey.booking \in Bookings \cup {Nil}
    BY DEF ScreenOK, JourneyHasBeen
  <1>1. CASE app = "rider"
    <2>1. screen.booking \in Bookings \cup {Nil}
      BY <1>1 DEF ScreenOK, HasBeen
    <2>2. p \in RiderFreeButtons(screen) \/ p \in RiderBookingButtons(screen) \/ p \in RiderJourneyButtons(screen)
      BY <1>1 DEF Buttons, RiderButtons, When
    <2>3. p[2] \in {Nil, screen.booking, screen.journey.booking}
      BY <2>2 DEF RiderFreeButtons, RiderBookingButtons, RiderJourneyButtons, When
    <2> QED BY <1>0, <2>1, <2>3
  <1>2. CASE app = "driver"
    <2>1. screen.assigned \in Bookings \cup {Nil} /\ screen.offers \subseteq Bookings
      BY <1>2 DEF ScreenOK, HasDriver
    <2>2. p \in DriverIntentButtons(screen) \/ p \in DriverOfferButtons(screen, busy)
          \/ p \in DriverJourneyButtons(screen, busy)
      BY <1>2 DEF Buttons, DriverButtons
    <2>3. p \in DriverIntentButtons(screen) => p[2] = Nil
      BY DEF DriverIntentButtons
    <2>4. p \in DriverOfferButtons(screen, busy) => p[2] \in {Nil} \cup screen.offers
      BY DEF DriverOfferButtons
    <2>5. p \in DriverJourneyButtons(screen, busy) => p[2] \in {screen.assigned, screen.journey.booking}
      BY DEF DriverJourneyButtons
    <2> QED BY <1>0, <2>1, <2>2, <2>3, <2>4, <2>5
  <1> QED BY <1>1, <1>2

\* An app's own steps leave what the API holds alone.
LEMMA ApiAtRest ==
  ASSUME ApiInv, UNCHANGED api
  PROVE  ApiInv' /\ ApiMoves
  <1>1. UNCHANGED <<status, agreed, journey, signals, assigned, availability, offers>>
    BY DEF api, bookingRows, journeyRows, driverRows
  <1> QED BY <1>1, RowsAsTheyWere DEF ApiInv, ConfirmedWithOwnQuote

\* A step that shows nothing else and adds at most a sound call.
LEMMA OnlyCallsChange ==
  ASSUME AppsInv, ApiInv', ApiMoves, UNCHANGED app, ScreenOK(screen'),
         \A d \in calls' : d \in calls \/ CallOK(d)'
  PROVE  AppsInv'
  <1>1. ScreenOK(screen)'
    <2>1. PICK s : s = screen'
      OBVIOUS
    <2>2. ScreenOK(s)'
      BY <2>1, ScreenStays DEF AppsInv
    <2> QED BY <2>1, <2>2 DEF ScreenOK
  <1>2. \A d \in calls' : CallOK(d)'
    BY CallStays DEF AppsInv
  <1> QED BY <1>1, <1>2 DEF AppsInv

LEMMA PressStep ==
  ASSUME AppsInv, NEW p \in Buttons, Press(p)
  PROVE  AppsInv'
  <1>1. PICK slot \in Slots :
          LET c == [slot |-> slot, op |-> p[1], booking |-> p[2], arg |-> p[3],
                    phase |-> "sent", answer |-> NoAnswer]
          IN calls' = calls \cup {IF c.op \in ReadsOnly THEN Ask(c) ELSE c}
    BY DEF Press
  <1>2. UNCHANGED <<api, app, screen>>
    BY DEF Press
  <1> DEFINE c == [slot |-> slot, op |-> p[1], booking |-> p[2], arg |-> p[3],
                   phase |-> "sent", answer |-> NoAnswer]
  <1>3. c.booking \in Bookings \cup {Nil} /\ DOMAIN c = {"slot", "op", "booking", "arg", "phase", "answer"}
        /\ c.phase = "sent"
    BY ButtonsNameBookings DEF AppsInv
  <1>4. calls' = calls \cup {IF c.op \in ReadsOnly THEN Ask(c) ELSE c}
    BY <1>1
  <1> HIDE DEF c
  <1>5. CallOK(Ask(c)) /\ CallOK(c)
    BY <1>3, AskedOfTheApi DEF AppsInv, CallOK
  <1>6. PICK d : calls' = calls \cup {d} /\ CallOK(d)
    BY <1>4, <1>5
  <1>7. ApiInv' /\ ApiMoves
    BY <1>2, ApiAtRest DEF AppsInv
  <1>8. CallOK(d)'
    BY <1>6, <1>7, CallStays DEF AppsInv
  <1> QED BY <1>2, <1>6, <1>7, <1>8, OnlyCallsChange DEF AppsInv

LEMMA ExecuteStep ==
  ASSUME AppsInv, NEW c \in calls, Execute(c)
  PROVE  AppsInv'
  <1>1. PICK b \in Bookings \cup {Nil} :
          /\ Command(c, b)
          /\ LET answer == IF b = Nil THEN [NoAnswer EXCEPT !.availability = availability']
                           ELSE [NoAnswer EXCEPT !.booking = b, !.status = status'[b]]
             IN IF c.phase = "sent" THEN Replace(c, [c EXCEPT !.phase = "answered", !.answer = answer])
                                    ELSE calls' = calls \ {c}
    BY DEF Execute
  <1>2. UNCHANGED <<app, screen>>
    BY DEF Execute
  <1>3. ApiInv' /\ ApiMoves /\ Done(c, b)
    BY <1>1, CommandStep DEF AppsInv
  <1>4. CallOK(c)
    BY DEF AppsInv
  <1>5. PICK answer : /\ answer = IF b = Nil THEN [NoAnswer EXCEPT !.availability = availability']
                                  ELSE [NoAnswer EXCEPT !.booking = b, !.status = status'[b]]
                      /\ \/ calls' = (calls \ {c}) \cup {[c EXCEPT !.phase = "answered", !.answer = answer]}
                         \/ calls' = calls \ {c}
    BY <1>1 DEF Replace
  <1>6. /\ answer.booking = b
        /\ b # Nil => answer.status = status'[b]
    BY <1>5 DEF NoAnswer
  <1>7. PICK d : d = [c EXCEPT !.phase = "answered", !.answer = answer]
    OBVIOUS
  <1>8. /\ DOMAIN d = {"slot", "op", "booking", "arg", "phase", "answer"}
        /\ d.op = c.op /\ d.booking = c.booking /\ d.phase = "answered" /\ d.answer = answer
    BY <1>4, <1>7 DEF CallOK
  <1>9. AnsweredOK(d)'
    <2>1. d.answer.booking # Nil => HasBeen(d.answer.booking, d.answer.status)'
      <3>1. ASSUME b # Nil PROVE HasBeen(b, answer.status)'
        BY <1>3, <1>6, <3>1, OrdersAreNumbers DEF HasBeen, Done
      <3> QED BY <1>6, <1>8, <3>1
    <2>2. d.op = "beginDispatch" => d.answer.booking = d.booking
      BY <1>3, <1>6, <1>8 DEF Done
    <2>3. d.op = "accept" => HasDriver(d.answer.booking)'
      BY <1>3, <1>6, <1>8 DEF Done, HasDriver
    <2>4. d.op \in SafetyOps => d.booking \in signals'
      BY <1>3, <1>8 DEF Done
    <2> QED BY <2>1, <2>2, <2>3, <2>4 DEF AnsweredOK
  <1>10. CallOK(d)'
    BY <1>4, <1>8, <1>9 DEF CallOK
  <1>11. \A e \in calls' : e \in calls \/ CallOK(e)'
    BY <1>5, <1>7, <1>10
  <1> QED BY <1>2, <1>3, <1>11, OnlyCallsChange DEF AppsInv

LEMMA ShowStep ==
  ASSUME AppsInv, NEW c \in calls, ShowAnswer(c) \/ ShowRead(c)
  PROVE  AppsInv'
  <1>1. CallOK(c) /\ UNCHANGED <<api, app>> /\ ApiInv' /\ ApiMoves
    BY ApiAtRest DEF AppsInv, ShowAnswer, ShowRead
  <1>2. CASE ShowAnswer(c)
    <2>1. ScreenOK(Shown(TRUE, c))
      BY <1>1, <1>2, RiderShowsAnswers, DriverShowsAnswers DEF AppsInv, Shown, ShowAnswer, CallOK
    <2>2. CallOK(Ask(c))
      BY <1>1, AskedOfTheApi DEF AppsInv, CallOK
    <2>3. PICK d : d = Ask(c)
      OBVIOUS
    <2>4. CallOK(d)'
      BY <1>1, <2>2, <2>3, CallStays DEF AppsInv
    <2>5. calls' = (calls \ {c}) \cup {d} \/ calls' = calls \ {c}
      BY <1>2, <2>3 DEF ShowAnswer, Replace, Finish
    <2>6. ScreenOK(screen')
      BY <1>2, <2>1 DEF ShowAnswer
    <2> QED BY <1>1, <2>4, <2>5, <2>6, OnlyCallsChange
  <1>3. CASE ShowRead(c)
    <2>1. ScreenOK(Shown(FALSE, c))
      BY <1>1, <1>3, RiderShowsReads, DriverShowsReads DEF AppsInv, Shown, ShowRead, CallOK
    <2>2. ScreenOK(screen') /\ calls' = calls \ {c}
      BY <1>3, <2>1 DEF ShowRead, Finish
    <2> QED BY <1>1, <2>2, OnlyCallsChange
  <1> QED BY <1>2, <1>3

LEMMA EndStep ==
  ASSUME AppsInv, NEW c \in calls, Fail(c) \/ GiveUp(c)
  PROVE  AppsInv'
  <1>1. CallOK(c) /\ UNCHANGED <<api, app, screen>> /\ ApiInv' /\ ApiMoves
    BY ApiAtRest DEF AppsInv, Fail, GiveUp
  <1>2. PICK d : d = [c EXCEPT !.phase = "orphaned"]
    OBVIOUS
  <1>3. calls' = (calls \ {c}) \cup {d} \/ calls' = calls \ {c}
    BY <1>2 DEF Fail, GiveUp, Replace, Finish
  <1>4. CallOK(d)
    BY <1>1, <1>2 DEF CallOK
  <1>5. CallOK(d)'
    BY <1>1, <1>4, CallStays DEF AppsInv
  <1> QED BY <1>1, <1>3, <1>5, OnlyCallsChange DEF AppsInv

LEMMA OfferExpiresStep ==
  ASSUME AppsInv, NEW b \in Bookings, OfferExpires(b)
  PROVE  AppsInv'
  <1>1. UNCHANGED <<status, agreed, journey, signals, assigned, app, screen, calls>> /\ offers' \subseteq offers
    BY DEF OfferExpires, bookingRows, journeyRows
  <1>2. ApiInv' /\ ApiMoves
    BY <1>1, RowsAsTheyWere DEF AppsInv, ApiInv, ConfirmedWithOwnQuote
  <1> QED BY <1>1, <1>2, OnlyCallsChange DEF AppsInv

LEMMA OtherPartyStep ==
  ASSUME AppsInv, OtherParty
  PROVE  AppsInv'
  <1>1. PICK op \in DriverCommands \cup RiderCommands, b \in Bookings :
          CommandOfBooking([op |-> op, booking |-> b, arg |-> Nil], b)
    BY DEF OtherParty
  <1>2. ApiInv' /\ ApiMoves
    BY <1>1, CommandOfBookingStep DEF AppsInv
  <1> QED BY <1>2, OnlyCallsChange DEF AppsInv, OtherParty

LEMMA AppsInvariance == AppsSpec => []AppsInv
  <1>1. AppsInit => AppsInv
    <2> SUFFICES ASSUME AppsInit PROVE AppsInv
      OBVIOUS
    <2>1. \A b \in Bookings : status[b] \in {"READY_FOR_DISPATCH", "ABSENT"}
                              /\ (status[b] = "READY_FOR_DISPATCH" => agreed[b] = b)
      BY DEF AppsInit
    <2>2. /\ status \in [Bookings -> DOMAIN BookingOrder] /\ DOMAIN agreed = Bookings
          /\ journey \in [Bookings -> DOMAIN JourneyOrder]
      BY BookingOrders, JourneyStepsAdvance DEF AppsInit
    <2>3. ApiInv
      BY <2>1, <2>2, BookingOrders DEF AppsInit, ApiInv, ConfirmedWithOwnQuote
    <2>4. ScreenOK(screen)
      BY DEF AppsInit, ScreenOK, RiderStart, DriverStart, NoJourney, DriverNoJourney
    <2> QED BY <2>3, <2>4 DEF AppsInit, AppsInv
  <1>2. AppsInv /\ [AppsNext]_appsVars => AppsInv'
    <2> SUFFICES ASSUME AppsInv, [AppsNext]_appsVars PROVE AppsInv'
      OBVIOUS
    <2>1. CASE \E p \in Buttons : Press(p)
      BY <2>1, PressStep
    <2>2. CASE \E c \in calls : Settle(c)
      <3>1. PICK c \in calls : Settle(c)
        BY <2>2
      <3> QED BY <3>1, ExecuteStep, ShowStep, EndStep DEF Settle
    <2>3. CASE \E b \in Bookings : OfferExpires(b)
      BY <2>3, OfferExpiresStep
    <2>4. CASE OtherParty
      BY <2>4, OtherPartyStep
    <2>5. CASE UNCHANGED appsVars
      <3>1. UNCHANGED <<api, app, screen, calls>>
        BY <2>5 DEF appsVars
      <3>2. ApiInv' /\ ApiMoves
        BY <3>1, ApiAtRest DEF AppsInv
      <3> QED BY <3>1, <3>2, OnlyCallsChange DEF AppsInv
    <2> QED BY <2>1, <2>2, <2>3, <2>4, <2>5 DEF AppsNext
  <1> QED BY <1>1, <1>2, PTL DEF AppsSpec

\* What AppsInv does not say of the types.
RestOK ==
  /\ agreed \in [Bookings -> Bookings \cup {Nil}]
  /\ signals \in SUBSET Bookings
  /\ availability \in {"OFFLINE", "AVAILABLE", "BREAK", "ASSIGNED"}
  /\ busy \in BOOLEAN
  /\ \A c \in calls : c.slot \in Slots /\ c.phase \in Phases

LEMMA CommandOfBookingTypes ==
  ASSUME RestOK, NEW c, NEW b \in Bookings, CommandOfBooking(c, b)
  PROVE  /\ agreed' \in [Bookings -> Bookings \cup {Nil}]
         /\ signals' \in SUBSET Bookings
         /\ availability' \in {"OFFLINE", "AVAILABLE", "BREAK", "ASSIGNED"}
  <1> USE DEF bookingRows, journeyRows, driverRows
  <1>1. agreed' = agreed \/ agreed' = [agreed EXCEPT ![b] = b]
    BY DEF CommandOfBooking, CreateRiderBooking, QuoteRiderBooking, ConfirmRiderBooking,
       StartBookingDispatch, AcceptDriverOffer, DeclineDriverOffer, StepJourney, CompleteJourney,
       CreateSafetySignal, SafelyTerminateUnsafeJourney
  <1>2. signals' = signals \/ signals' = signals \cup {b}
    BY DEF CommandOfBooking, CreateRiderBooking, QuoteRiderBooking, ConfirmRiderBooking,
       StartBookingDispatch, AcceptDriverOffer, DeclineDriverOffer, StepJourney, CompleteJourney,
       CreateSafetySignal, SafelyTerminateUnsafeJourney
  <1>3. availability' \in {availability, "ASSIGNED", "AVAILABLE", "BREAK"}
    BY DEF CommandOfBooking, CreateRiderBooking, QuoteRiderBooking, ConfirmRiderBooking,
       StartBookingDispatch, AcceptDriverOffer, DeclineDriverOffer, StepJourney, CompleteJourney,
       CreateSafetySignal, SafelyTerminateUnsafeJourney
  <1> QED BY <1>1, <1>2, <1>3 DEF RestOK

LEMMA CommandTypes ==
  ASSUME RestOK, NEW c, NEW b \in Bookings \cup {Nil}, Command(c, b)
  PROVE  /\ agreed' \in [Bookings -> Bookings \cup {Nil}]
         /\ signals' \in SUBSET Bookings
         /\ availability' \in {"OFFLINE", "AVAILABLE", "BREAK", "ASSIGNED"}
  <1>1. CASE b \in Bookings /\ CommandOfBooking(c, b)
    BY <1>1, CommandOfBookingTypes
  <1>2. CASE SetDriverAvailability(c, b) \/ ReconcileDriverConnectivity(c, b)
    <2>1. /\ UNCHANGED <<agreed, signals>>
          /\ availability' \in {availability, "AVAILABLE", "OFFLINE"}
      BY <1>2 DEF SetDriverAvailability, ReconcileDriverConnectivity, api, bookingRows, journeyRows, driverRows
    <2> QED BY <2>1 DEF RestOK
  <1> QED BY <1>1, <1>2 DEF Command

LEMMA RestInvariance == AppsSpec => []RestOK
  <1>1. AppsInit => RestOK
    BY DEF AppsInit, RestOK
  <1>2. AppsInv /\ RestOK /\ [AppsNext]_appsVars => RestOK'
    <2> SUFFICES ASSUME AppsInv, RestOK, [AppsNext]_appsVars PROVE RestOK'
      OBVIOUS
    <2> DEFINE RowsOK == /\ agreed \in [Bookings -> Bookings \cup {Nil}]
                             /\ signals \in SUBSET Bookings
                             /\ availability \in {"OFFLINE", "AVAILABLE", "BREAK", "ASSIGNED"}
               CallsTyped == \A c \in calls : c.slot \in Slots /\ c.phase \in Phases
    <2>0. RowsOK /\ CallsTyped
      BY DEF RestOK
    <2>1. CASE \E p \in Buttons : Press(p)
      <3>1. PICK p \in Buttons : Press(p)
        BY <2>1
      <3>2. PICK slot \in Slots :
              LET c == [slot |-> slot, op |-> p[1], booking |-> p[2], arg |-> p[3],
                        phase |-> "sent", answer |-> NoAnswer]
              IN calls' = calls \cup {IF c.op \in ReadsOnly THEN Ask(c) ELSE c}
        BY <3>1 DEF Press
      <3> DEFINE c == [slot |-> slot, op |-> p[1], booking |-> p[2], arg |-> p[3],
                       phase |-> "sent", answer |-> NoAnswer]
      <3>3. c.slot \in Slots /\ c.phase \in Phases /\ Ask(c).slot \in Slots /\ Ask(c).phase \in Phases
        BY DEF Phases, Ask
      <3>4. calls' = calls \cup {IF c.op \in ReadsOnly THEN Ask(c) ELSE c}
        BY <3>2
      <3> HIDE DEF c
      <3>5. CallsTyped'
        BY <2>0, <3>3, <3>4
      <3>6. RowsOK' /\ busy' = TRUE
        BY <2>0, <3>1 DEF Press, api, bookingRows, journeyRows, driverRows
      <3> QED BY <3>5, <3>6 DEF RestOK
    <2>2. ASSUME NEW c \in calls, Execute(c) PROVE RestOK'
      <3>1. PICK b \in Bookings \cup {Nil} : Command(c, b)
        BY <2>2 DEF Execute
      <3>2. RowsOK'
        BY <3>1, CommandTypes
      <3>3. PICK answer : \/ calls' = (calls \ {c}) \cup {[c EXCEPT !.phase = "answered", !.answer = answer]}
                          \/ calls' = calls \ {c}
        BY <2>2 DEF Execute, Replace
      <3>4. DOMAIN c = {"slot", "op", "booking", "arg", "phase", "answer"}
        BY DEF AppsInv, CallOK
      <3>5. CallsTyped'
        BY <2>0, <3>3, <3>4 DEF Phases
      <3>6. busy' = busy
        BY <2>2 DEF Execute
      <3> QED BY <3>2, <3>5, <3>6 DEF RestOK
    <2>3. ASSUME NEW c \in calls, ShowAnswer(c) \/ ShowRead(c) \/ Fail(c) \/ GiveUp(c) PROVE RestOK'
      <3>1. RowsOK'
        BY <2>0, <2>3 DEF ShowAnswer, ShowRead, Fail, GiveUp, api, bookingRows, journeyRows, driverRows
      <3>2. DOMAIN c = {"slot", "op", "booking", "arg", "phase", "answer"}
        BY DEF AppsInv, CallOK
      <3>3. \/ calls' = calls \ {c}
            \/ calls' = (calls \ {c}) \cup {Ask(c)}
            \/ calls' = (calls \ {c}) \cup {[c EXCEPT !.phase = "orphaned"]}
        BY <2>3 DEF ShowAnswer, ShowRead, Fail, GiveUp, Replace, Finish
      <3>4. Ask(c).slot \in Slots /\ Ask(c).phase \in Phases
        BY <2>0, <3>2 DEF Ask, Phases
      <3>5. CallsTyped'
        BY <2>0, <3>2, <3>3, <3>4 DEF Phases
      <3>6. busy' = busy \/ busy' = FALSE
        BY <2>3 DEF ShowAnswer, ShowRead, Fail, GiveUp, Finish
      <3> QED BY <3>1, <3>5, <3>6 DEF RestOK
    <2>4. CASE \E b \in Bookings : OfferExpires(b)
      BY <2>4 DEF OfferExpires, RestOK, bookingRows, journeyRows
    <2>5. CASE OtherParty
      <3>1. PICK op \in DriverCommands \cup RiderCommands, b \in Bookings :
              CommandOfBooking([op |-> op, booking |-> b, arg |-> Nil], b)
        BY <2>5 DEF OtherParty
      <3>2. RowsOK'
        BY <3>1, CommandOfBookingTypes
      <3> QED BY <2>0, <2>5, <3>2 DEF OtherParty, RestOK
    <2>6. CASE UNCHANGED appsVars
      BY <2>6 DEF RestOK, appsVars, api, bookingRows, journeyRows, driverRows
    <2> QED BY <2>1, <2>2, <2>3, <2>4, <2>5, <2>6 DEF AppsNext, Settle
  <1> QED BY <1>1, <1>2, AppsInvariance, PTL DEF AppsSpec

\* Every reachable state of an app and of what the API shows it is well typed.
THEOREM AppsTypes == AppsSpec => []AppsTypeOK
  <1>1. AppsInv /\ RestOK => AppsTypeOK
    BY DEF AppsInv, ApiInv, RestOK, AppsTypeOK
  <1> QED BY <1>1, AppsInvariance, RestInvariance, PTL

\* Whatever was pressed twice, lost, given up on or answered late, a Booking that got
\* as far as its confirmation was confirmed with its own quote.
THEOREM OwnQuotesOnly == AppsSpec => []ConfirmedWithOwnQuote
  <1>1. AppsInv => ConfirmedWithOwnQuote
    BY DEF AppsInv, ApiInv
  <1> QED BY <1>1, AppsInvariance, PTL

\* A screen may be behind the API and is never ahead of it, in whatever order the
\* answers of however many handlers come back.
THEOREM ScreensAreNeverAhead == AppsSpec => []ScreenIsNeverAhead
  <1>1. AppsInv => ScreenIsNeverAhead
    BY DEF AppsInv, ScreenOK, ScreenIsNeverAhead, HasBeen, JourneyHasBeen, HasDriver
  <1> QED BY <1>1, AppsInvariance, PTL
=============================================================================
