---------------------------- MODULE LiveJourney ------------------------------
(***************************************************************************)
(* What the parties of one Journey and its Driver tell the system while it *)
(* is under way: the location reports of the Driver's device, the route    *)
(* changes the parties ask for and the Safety signals anybody raises, with *)
(* the decisions and the live page that are made from them (journey and    *)
(* live-journey-service.ts, safety-service.ts).  Holds, RideCheck attempts *)
(* and the Driver's own rows, which can refuse the same commands, are the  *)
(* matter of module Journey.                                               *)
(*                                                                         *)
(* Every command locks the Journey, so it is one step.  A report is sent   *)
(* again until it is answered, waits in the queue of the device while it   *)
(* has no signal, and can come in after later ones.                        *)
(***************************************************************************)
EXTENDS Naturals, Sequences, FiniteSets

CONSTANTS Reports,   \* the clientObservationIds the device uses
          People,    \* booker and passenger
          Driver,    \* the account of the assigned Driver
          Keys,      \* idempotency keys a person uses
          Readings,  \* what the device can report: where, when by its own clock,
                     \* and whether accuracy and confidence are within the policy
          Signals,   \* the kinds of Safety signal that are raised
          DropOff,   \* the places are 0, the pickup, to DropOff, on a line
          MaxSpeed,  \* activeJourneyMaximumPlausibleSpeedMetresPerSecond
          MaxAge, MaxSkew,                             \* of a usable report
          PickupRadius, ApproachRadius, FinalRadius,   \* journey...RadiusMetres
          Horizon, MaxRequests  \* bounds of the model

ASSUME LiveJourneyAssumption ==
  /\ Driver \notin People
  /\ Readings \subseteq [place : 0..DropOff, observed : Nat, good : BOOLEAN]
  /\ Signals \subseteq {"SOS", "SILENT_ASSISTANCE", "FEEL_UNSAFE", "WRONG_DESTINATION",
                       "UNEXPECTED_STOP", "CHECK_ROUTE", "OTHER"}
  /\ {DropOff, MaxSpeed, MaxAge, MaxSkew, PickupRadius, ApproachRadius,
      FinalRadius, Horizon, MaxRequests} \subseteq Nat

VARIABLES
  now,
  status,     \* journey.journey.status
  version,    \* journey.journey.aggregate_version
  rows,       \* journey.driver_location_observation, in the order received
  approach,   \* destination_approach_evidence: its row, or NoRow
  final,      \* completion_evidence: its row, or NoRow
  handover,   \* completion_requirement_snapshot.handover_required
  changes,    \* journey.route_change_request with its deduplicated command
  signals     \* safety.safety_event with its deduplicated command

evidence == <<rows, approach, final, handover>>
requests == <<changes, signals>>
vars == <<now, status, version, evidence, requests>>

NoRow == 0
PickupStatuses == {"EN_ROUTE", "ARRIVED", "PASSENGER_VERIFIED"}
ActiveStatuses == {"IN_PROGRESS", "ARRIVING"}

-----------------------------------------------------------------------------
(* domain/journey.ts and live-journey.ts. *)

Distance(p, q) == IF p < q THEN q - p ELSE p - q

InFuture(reading, at) == reading.observed > at + MaxSkew
TooOld(reading, at) == at > reading.observed + MaxAge

\* evaluateLocationEvidence at the time given.
EvidenceState(reading, at) ==
  IF InFuture(reading, at) \/ TooOld(reading, at) THEN "STALE"
  ELSE IF ~reading.good THEN "DEGRADED"
  ELSE IF 2 * at > 2 * reading.observed + MaxAge THEN "DELAYED" ELSE "LIVE"

UsableAt(reading, at) == EvidenceState(reading, at) \in {"LIVE", "DELAYED"}

\* evaluateArrivalEvidence and evaluateDestinationEvidence.
Accepted(reading, place, radius) ==
  UsableAt(reading, now) /\ Distance(reading.place, place) <= radius

\* Faulty variant: only the speed between the two times is looked at.
PlausibleInAnyOrder(previous, next) ==
  Distance(previous.place, next.place) <= MaxSpeed * Distance(next.observed, previous.observed)

\* evaluateMovementPlausibility: neither OUT_OF_ORDER_LOCATION nor IMPOSSIBLE_JUMP.
PlausibleMovement(previous, next) ==
  /\ next.observed > previous.observed
  /\ Distance(previous.place, next.place) <= MaxSpeed * (next.observed - previous.observed)

RouteConcernSeverity(category) ==
  CASE category = "FEEL_UNSAFE" -> "CRITICAL"
    [] category \in {"WRONG_DESTINATION", "UNEXPECTED_STOP"} -> "SIGNIFICANT"
    [] category \in {"CHECK_ROUTE", "OTHER"} -> "MODERATE"

RouteConcernHealth ==
  [CRITICAL |-> "INCIDENT", SIGNIFICANT |-> "AT_RISK", MODERATE |-> "ATTENTION"]

\* healthForSafetySignal, or the health of the route concern of that category.
HealthForSignal(kind) ==
  CASE kind = "SOS" -> "INCIDENT"
    [] kind = "SILENT_ASSISTANCE" -> "AT_RISK"
    [] OTHER -> RouteConcernHealth[RouteConcernSeverity(kind)]

\* Faulty variant: AT_RISK is stored as ATTENTION.
SafetySeverityTwoLevels(health) == IF health = "INCIDENT" THEN "CRITICAL" ELSE "ATTENTION"

SafetySeverity(health) == IF health = "INCIDENT" THEN "CRITICAL" ELSE health

-----------------------------------------------------------------------------
(* Queries. *)

\* ORDER BY observed_at DESC, received_at DESC LIMIT 1.
Newest(S) ==
  IF S = {} THEN NoRow
  ELSE CHOOSE i \in S : \A j \in S :
         rows[j].observed < rows[i].observed \/ (rows[j].observed = rows[i].observed /\ j <= i)

AllRows == DOMAIN rows
ActiveRows == {i \in AllRows : rows[i].purpose = "ACTIVE_JOURNEY"}
PlausibleRows == {i \in AllRows : rows[i].plausible}

\* Faulty variant: the newest location, plausible or not.
LatestActiveOfAny(S) == Newest(S)

LatestLocation == Newest(AllRows)
LatestPlausibleLocation == Newest(PlausibleRows)
LatestActive(S) == Newest(S \cap PlausibleRows)
LatestActiveLocation == LatestActive(ActiveRows)

Answered(reqs, p, k) == \E r \in reqs : r.by = p /\ r.key = k

-----------------------------------------------------------------------------
(* The live page. *)

Rank == [NORMAL |-> 0, ATTENTION |-> 1, AT_RISK |-> 2, INCIDENT |-> 3]

\* getActiveJourneyProjection: no code resolves a Safety event.
JourneyHealth ==
  LET severities == {s.severity : s \in signals} IN
  IF "CRITICAL" \in severities THEN "INCIDENT"
  ELSE IF "AT_RISK" \in severities THEN "AT_RISK"
  ELSE IF severities = {} THEN "NORMAL" ELSE "ATTENTION"

\* Faulty variant: freshness at the time of reading is all that counts.
ShownTelemetryByAge(row) == EvidenceState(row, now)

\* getJourneyLiveProjection: how the newest location of all is labelled.
ShownTelemetry(row) ==
  LET read == EvidenceState(row, now) IN
  IF "STALE" \in {read, row.telemetry} THEN "STALE"
  ELSE IF ~row.plausible \/ row.telemetry = "DEGRADED" THEN "DEGRADED" ELSE read

-----------------------------------------------------------------------------
\* acknowledgeDriverAssignment leaves EN_ROUTE at version 2.
Init ==
  /\ now = 0
  /\ status = "EN_ROUTE" /\ version = 2
  /\ rows = <<>>
  /\ approach = NoRow /\ final = NoRow /\ handover = FALSE
  /\ changes = {} /\ signals = {}

Tick ==
  /\ now < Horizon
  /\ now' = now + 1
  /\ UNCHANGED <<status, version, evidence, requests>>

Move(to, steps) == status' = to /\ version' = version + steps

-----------------------------------------------------------------------------
(* Location reports. *)

\* A clientObservationId that is known is answered from its row, or refused when
\* the payload is another one.
NewReport(client) == \A i \in AllRows : rows[i].client # client

Store(client, reading, purpose, telemetry, plausible) ==
  /\ rows' = Append(rows,
       [client |-> client, place |-> reading.place, observed |-> reading.observed,
        good |-> reading.good, purpose |-> purpose, telemetry |-> telemetry,
        plausible |-> plausible])
  /\ UNCHANGED <<now, status, version, approach, final, handover, requests>>

\* Before the start; the column movement_plausible is left at its default.
RecordDriverLocationObservation(client, reading) ==
  /\ status \in PickupStatuses
  /\ NewReport(client)
  /\ Store(client, reading, "ACTIVE_ASSIGNMENT_PICKUP", EvidenceState(reading, now), TRUE)

\* After it.  A report that is not plausible is kept as DEGRADED evidence.
RecordActiveJourneyLocation(client, reading) ==
  LET previous == LatestPlausibleLocation
      telemetry == EvidenceState(reading, now)
      plausible == previous # NoRow => PlausibleMovement(rows[previous], reading)
  IN /\ status \in ActiveStatuses
     /\ NewReport(client)
     /\ Store(client, reading, "ACTIVE_JOURNEY",
              IF telemetry # "STALE" /\ ~plausible THEN "DEGRADED" ELSE telemetry, plausible)

-----------------------------------------------------------------------------
(* The decisions that are made from them. *)

MarkDriverArrived ==
  /\ status = "EN_ROUTE"
  /\ LatestLocation # NoRow /\ Accepted(rows[LatestLocation], 0, PickupRadius)
  /\ Move("ARRIVED", 1)
  /\ UNCHANGED <<now, evidence, requests>>

\* startRideCheck and a verifyRideCheck that succeeds.
PassRideCheck ==
  /\ status = "ARRIVED"
  /\ Move("PASSENGER_VERIFIED", 2)
  /\ UNCHANGED <<now, evidence, requests>>

StartJourney ==
  /\ status = "PASSENGER_VERIFIED"
  /\ LatestLocation # NoRow /\ Accepted(rows[LatestLocation], 0, PickupRadius)
  /\ Move("IN_PROGRESS", 1)
  /\ UNCHANGED <<now, evidence, requests>>

\* deriveCompletionRequirements: a requirement of the Booking asks for a handover.
HandoverRequired(types) == types \cap {"SCHOOL", "HOSPITAL", "SPECIALIST", "HANDOVER"} # {}

MarkJourneyArriving(types) ==
  /\ status = "IN_PROGRESS"
  /\ LatestActiveLocation # NoRow
  /\ Accepted(rows[LatestActiveLocation], DropOff, ApproachRadius)
  /\ approach' = LatestActiveLocation
  /\ handover' = HandoverRequired(types)
  /\ Move("ARRIVING", 1)
  /\ UNCHANGED <<now, rows, final, requests>>

\* evaluateJourneyCompletion.  No code writes the journey.handover_record that a
\* school, hospital or specialist service needs.
CompleteJourney ==
  /\ status = "ARRIVING" /\ approach # NoRow /\ ~handover
  /\ LatestActiveLocation # NoRow
  /\ Accepted(rows[LatestActiveLocation], DropOff, FinalRadius)
  /\ final' = LatestActiveLocation
  /\ Move("COMPLETED", 1)
  /\ UNCHANGED <<now, rows, approach, handover, requests>>

-----------------------------------------------------------------------------
(* What the parties ask for. *)

MayAsk == Cardinality(changes) + Cardinality(signals) < MaxRequests

RecordChange(p, k, expected) ==
  /\ changes' = changes \cup {[by |-> p, key |-> k, expected |-> expected]}
  /\ version' = version + 1
  /\ UNCHANGED <<now, status, evidence, signals>>

\* Faulty variant: any version the page has shown will do.
RequestRouteChangeUnversioned(p, k, expected) ==
  /\ MayAsk /\ status \in ActiveStatuses /\ ~Answered(changes, p, k)
  /\ RecordChange(p, k, expected)

\* Expected is the version the page of the person shows, which may be old.  A
\* repeated key is answered from the recorded response.  The route stays as it
\* is: the request is PENDING_POLICY_REVIEW and nothing reviews it.
RequestRouteChange(p, k, expected) ==
  /\ MayAsk /\ status \in ActiveStatuses /\ ~Answered(changes, p, k)
  /\ expected = version
  /\ RecordChange(p, k, expected)

\* The confidence is that of the newest active location as it was stored.
CreateSafetySignal(p, k, kind) ==
  LET location == Newest(ActiveRows) IN
  /\ MayAsk /\ status \in ActiveStatuses /\ ~Answered(signals, p, k)
  /\ signals' = signals \cup
       {[by |-> p, key |-> k, kind |-> kind, told |-> HealthForSignal(kind),
         severity |-> SafetySeverity(HealthForSignal(kind)),
         confidence |-> IF location = NoRow THEN "UNKNOWN" ELSE rows[location].telemetry]}
  /\ UNCHANGED <<now, status, version, evidence, changes>>

-----------------------------------------------------------------------------
Next ==
  \/ Tick
  \/ \E client \in Reports, reading \in Readings :
       RecordDriverLocationObservation(client, reading) \/ RecordActiveJourneyLocation(client, reading)
  \/ MarkDriverArrived \/ PassRideCheck \/ StartJourney
  \/ \E types \in SUBSET {"SCHOOL", "WHEELCHAIR"} : MarkJourneyArriving(types)
  \/ CompleteJourney
  \/ \E p \in People, k \in Keys, expected \in 2..version : RequestRouteChange(p, k, expected)
  \/ \E p \in People \cup {Driver}, k \in Keys, kind \in Signals : CreateSafetySignal(p, k, kind)

Spec == Init /\ [][Next]_vars
-----------------------------------------------------------------------------
(* Properties. *)

\* The vehicle can have been at the one and then at the other.
Reachable(from, to) ==
  /\ to.observed > from.observed
  /\ Distance(from.place, to.place) <= MaxSpeed * (to.observed - from.observed)

\* The locations that decisions rest on are a way the vehicle can have gone: in
\* whatever order the reports come in, each plausible one was observed after, and
\* within reach of, every one that was stored before it.
PlausiblePathIsPossible ==
  \A i, j \in ActiveRows \cap PlausibleRows :
    j < i => Reachable(rows[j], rows[i])

\* A completed Journey has two witnesses: a location near the destination, and
\* one at it that is not older, with every plausible one between them passable.
CompletionIsWitnessed ==
  status = "COMPLETED" =>
    /\ {approach, final} \subseteq ActiveRows \cap PlausibleRows /\ ~handover
    /\ Distance(rows[approach].place, DropOff) <= ApproachRadius
    /\ Distance(rows[final].place, DropOff) <= FinalRadius
    /\ approach = final \/ Reachable(rows[approach], rows[final])

\* While the live page shows an active location as LIVE or DELAYED, that is the
\* location the next decision reads, and its telemetry does not refuse it.
ShownLocationCounts ==
  (status \in ActiveStatuses /\ LatestLocation \in ActiveRows
     /\ ShownTelemetry(rows[LatestLocation]) \in {"LIVE", "DELAYED"})
    => LatestActiveLocation = LatestLocation /\ UsableAt(rows[LatestLocation], now)

\* The health somebody was told for a Safety signal is what the page of every
\* party shows from then on, or worse: the answer, the stored severity and the
\* page are three encodings, in two languages, of one scale.
SignalIsNotPlayedDown == \A s \in signals : Rank[JourneyHealth] >= Rank[s.told]

\* Two people who saw the same Journey cannot both have changed its route, and
\* neither can one whose page is older than the Journey.
OneRouteChangePerVersion ==
  /\ \A c, d \in changes : c.expected = d.expected => c = d
  /\ \A c \in changes : c.expected < version

=============================================================================
