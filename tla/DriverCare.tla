------------------------------ MODULE DriverCare ------------------------------
(***************************************************************************)
(* What one Driver asks of the platform between Journeys: to be told the   *)
(* state of the day and reconcile it after a weak signal, to open a        *)
(* support case, to appeal a decision and to record a pre-shift check      *)
(* (modules driver-daily-operations, driver-fair-treatment and             *)
(* maintenance-reliability).                                               *)
(*                                                                         *)
(* Appeals and reconciliations hold the Driver profile; a reconciliation   *)
(* also holds its availability FOR SHARE from the moment it reads it until *)
(* it commits. A support case holds nothing: it looks its key up and       *)
(* inserts later. The availability and the Journey are moved by the other  *)
(* components, here only as far as a request of this module can see them.  *)
(***************************************************************************)
EXTENDS Naturals

CONSTANTS
    Requests, Keys,
    Subjects,      \* decisions that can be appealed, and matters of a support case
    Journeys,
    None,
    MaxVersion     \* bound on every version counter

ASSUME NoneIsFresh == None \notin Requests \cup Keys \cup Subjects \cup Journeys
ASSUME RefusalsAreNotWriters == {"CONFLICT", "REUSED", "UNAVAILABLE"} \cap Requests = {}
ASSUME MaxVersionPositive == MaxVersion \in Nat \ {0}

VARIABLES
    availability,  \* status of driver.availability_state
    version,       \* its version, 0 while there is no row
    journey,       \* the Journey of the ACTIVE assignment, or None
    moved,         \* moved[j]: aggregate_version of Journey j, 0 before it exists
    profileLock,   \* the request that holds the Driver profile FOR UPDATE, or None
    shareLock,     \* the request that holds the availability FOR SHARE, or None
    appealed,      \* subjects with a driver_decision_appeal
    resolved,      \* those whose appeal was resolved
    restricted,    \* an ALL_SERVICES restriction of the vehicle is active
    effect,        \* effect[c]: the requests whose command c wrote its rows
    stored,        \* stored[c][k]: body and writer of the answer kept for key k, or None
    known,         \* what the app was last told of the day
    request        \* request[r]: where request r stands

movingVars == <<availability, version, journey, moved>>
lockVars == <<profileLock, shareLock>>
caseVars == <<appealed, resolved, restricted>>
keptVars == <<effect, stored>>
vars == <<movingVars, lockVars, caseVars, keptVars, known, request>>

Commands ==
    {"SubmitDriverAppeal", "ReconcileDriverConnectivity", "OpenDriverSupportCase", "SubmitPreShiftCheck"}

AvailabilityStatuses == {"OFFLINE", "AVAILABLE", "ASSIGNED", "BREAK"}

(* The queue, age and clock of a connectivity observation *)
Signals == {"QUIET", "QUEUED", "STALE", "UNREACHABLE", "FUTURE"}

Observations ==
    [version: 0 .. MaxVersion, journey: Journeys \cup {None}, moved: 0 .. MaxVersion]

Unread == [version |-> 0, journey |-> None, moved |-> 0]

(* What a request of a command can say *)
BodySet(c) ==
    CASE c = "ReconcileDriverConnectivity" -> [signal: Signals, knows: Observations]
      [] c = "SubmitPreShiftCheck" -> {"PASS", "CONCERN"}
      [] OTHER -> Subjects

(* A row of command_deduplication: its fingerprint and whose answer it keeps *)
Rows(c) == [body: BodySet(c), by: Requests]

ASSUME NoneIsNoRow == None \notin Commands /\ \A c \in Commands : None \notin Rows(c)

MovedOf(j) == IF j = None THEN 0 ELSE moved[j]

(* driver.current_daily_operations_projection *)
Today == [version |-> version, journey |-> journey, moved |-> MovedOf(journey)]

(* assessDriverConnectivity of the domain *)
AssessDriverConnectivity(signal, applied) ==
    CASE signal = "UNREACHABLE" -> "OFFLINE"
      [] signal # "UNREACHABLE" /\ ~applied -> "RECOVERING"
      [] signal = "STALE" /\ applied -> "STALE"
      [] signal = "QUEUED" /\ applied -> "DEGRADED"
      [] OTHER -> "ONLINE"

SnapshotRequired(state) == state \in {"RECOVERING", "STALE", "OFFLINE"}

Idle == [step |-> "idle", command |-> None, key |-> None, body |-> None, read |-> None, answer |-> None]

Bodies(c) ==
    IF c = "ReconcileDriverConnectivity" THEN [signal: Signals, knows: {known}] ELSE BodySet(c)

Answered(r, a) ==
    request' = [request EXCEPT ![r] = [@ EXCEPT !.step = "done", !.answer = a]]

KeyIsFree(r) == stored[request[r].command][request[r].key] = None

(* The rows of a command and its command_deduplication row *)
Record(r) ==
    LET c == request[r].command IN
    /\ effect' = [effect EXCEPT ![c] = @ \cup {r}]
    /\ stored' = [stored EXCEPT ![c][request[r].key] = [body |-> request[r].body, by |-> r]]

(***************************************************************************)
(* Reads                                                                   *)
(***************************************************************************)

GetDriverDailyOperations ==
    /\ known' = Today
    /\ UNCHANGED <<movingVars, lockVars, caseVars, keptVars, request>>

(* The summary of the view first, *)
FairTreatmentSummary(r) ==
    /\ request[r].step = "idle"
    /\ request' = [request EXCEPT ![r] = [@ EXCEPT !.step = "listing", !.read = appealed \ resolved]]
    /\ UNCHANGED <<movingVars, lockVars, caseVars, keptVars, known>>

(* Faulty variant: the lists are taken with the summary of an earlier read. *)
GetDriverFairTreatmentProjection_ListsFirst(r) ==
    /\ request[r].step = "listing"
    /\ request' = [request EXCEPT ![r] =
          [@ EXCEPT !.step = "done",
                    !.answer = [counted |-> appealed \ resolved, listed |-> request[r].read]]]
    /\ UNCHANGED <<movingVars, lockVars, caseVars, keptVars, known>>

(* then the lists, in statements of their own. *)
GetDriverFairTreatmentProjection(r) ==
    /\ request[r].step = "listing"
    /\ request' = [request EXCEPT ![r] =
          [@ EXCEPT !.step = "done", !.answer = [counted |-> request[r].read, listed |-> appealed]]]
    /\ UNCHANGED <<movingVars, lockVars, caseVars, keptVars, known>>

(***************************************************************************)
(* Commands                                                                *)
(***************************************************************************)

Send(r) ==
    /\ request[r].step = "idle"
    /\ \E c \in Commands, k \in Keys : \E b \in Bodies(c) :
          request' = [request EXCEPT ![r] =
             [@ EXCEPT !.step = "sent", !.command = c, !.key = k, !.body = b]]
    /\ UNCHANGED <<movingVars, lockVars, caseVars, keptVars, known>>

At(r, c) == request[r].step = "sent" /\ request[r].command = c

(* Every command looks its key up before it writes. *)
Replay(r) ==
    /\ request[r].step = "sent"
    /\ request[r].command \in {"SubmitDriverAppeal", "ReconcileDriverConnectivity"} => profileLock = None
    /\ ~KeyIsFree(r)
    /\ LET kept == stored[request[r].command][request[r].key] IN
       Answered(r, IF kept.body = request[r].body THEN kept.by ELSE "REUSED")
    /\ UNCHANGED <<movingVars, lockVars, caseVars, keptVars, known>>

(* One transaction under the profile lock. *)
SubmitDriverAppeal(r) ==
    /\ At(r, "SubmitDriverAppeal")
    /\ profileLock = None
    /\ KeyIsFree(r)
    /\ IF request[r].body \in appealed
       THEN Answered(r, "CONFLICT") /\ UNCHANGED <<appealed, keptVars>>
       ELSE /\ appealed' = appealed \cup {request[r].body}
            /\ Record(r)
            /\ Answered(r, r)
    /\ UNCHANGED <<movingVars, lockVars, resolved, restricted, known>>

ReconcileFuture(r) ==
    /\ At(r, "ReconcileDriverConnectivity")
    /\ profileLock = None
    /\ KeyIsFree(r)
    /\ request[r].body.signal = "FUTURE"
    /\ Answered(r, "CONFLICT")
    /\ UNCHANGED <<movingVars, lockVars, caseVars, keptVars, known>>

(* Faulty variant: the availability is read without FOR SHARE. *)
ReadAuthoritativeState_NoShare(r) ==
    /\ At(r, "ReconcileDriverConnectivity")
    /\ profileLock = None
    /\ KeyIsFree(r)
    /\ request[r].body.signal # "FUTURE"
    /\ profileLock' = r
    /\ LET row == [Today EXCEPT !.version = IF version = 0 THEN 1 ELSE version]
           state == AssessDriverConnectivity(request[r].body.signal, request[r].body.knows = row) IN
       request' = [request EXCEPT ![r] =
          [@ EXCEPT !.step = "holding",
                    !.read = [row |-> row, status |-> availability, state |-> state,
                              replace |-> SnapshotRequired(state)]]]
    /\ UNCHANGED <<movingVars, shareLock, caseVars, keptVars, known>>

(* The transaction takes the profile, creates the availability row when    *)
(* there is none, holds it FOR SHARE, and reads the active Journey without *)
(* a lock.                                                                 *)
ReadAuthoritativeState(r) ==
    /\ At(r, "ReconcileDriverConnectivity")
    /\ profileLock = None
    /\ KeyIsFree(r)
    /\ request[r].body.signal # "FUTURE"
    /\ profileLock' = r
    /\ shareLock' = r
    /\ LET row == [Today EXCEPT !.version = IF version = 0 THEN 1 ELSE version]
           state == AssessDriverConnectivity(request[r].body.signal, request[r].body.knows = row) IN
       request' = [request EXCEPT ![r] =
          [@ EXCEPT !.step = "holding",
                    !.read = [row |-> row, status |-> availability, state |-> state,
                              replace |-> SnapshotRequired(state)]]]
    /\ UNCHANGED <<movingVars, caseVars, keptVars, known>>

ReconcileDriverConnectivity(r) ==
    /\ request[r].step = "holding"
    /\ Record(r)
    /\ version' = IF version = 0 THEN 1 ELSE version
    /\ profileLock' = IF profileLock = r THEN None ELSE profileLock
    /\ shareLock' = IF shareLock = r THEN None ELSE shareLock
    /\ Answered(r, r)
    /\ UNCHANGED <<availability, journey, moved, caseVars, known>>

(* The look-up of a key that is free; no lock is held. *)
LookUpSupportCase(r) ==
    /\ At(r, "OpenDriverSupportCase")
    /\ KeyIsFree(r)
    /\ request' = [request EXCEPT ![r].step = "filing"]
    /\ UNCHANGED <<movingVars, lockVars, caseVars, keptVars, known>>

(* Faulty variant: no unique key on the deduplication row. *)
OpenDriverSupportCase_Twice(r) ==
    /\ request[r].step = "filing"
    /\ Record(r)
    /\ Answered(r, r)
    /\ UNCHANGED <<movingVars, lockVars, caseVars, known>>

(* The unique key of the deduplication row rolls the second case back, and *)
(* its caller is told that support is unavailable.                         *)
OpenDriverSupportCase(r) ==
    /\ request[r].step = "filing"
    /\ IF KeyIsFree(r)
       THEN Record(r) /\ Answered(r, r)
       ELSE Answered(r, "UNAVAILABLE") /\ UNCHANGED keptVars
    /\ UNCHANGED <<movingVars, lockVars, caseVars, known>>

SubmitPreShiftCheck(r) ==
    /\ At(r, "SubmitPreShiftCheck")
    /\ KeyIsFree(r)
    /\ request[r].body = "PASS"
    /\ Record(r)
    /\ Answered(r, r)
    /\ UNCHANGED <<movingVars, lockVars, caseVars, known>>

(* A concern writes the check, a defect, a restriction and a quarantine,   *)
(* takes the Driver offline, and then asks for the Journey by              *)
(* journey.assignment_id. The table has only active_assignment_id: the     *)
(* statement fails and the transaction takes all of it back.               *)
SubmitPreShiftConcern(r) ==
    /\ At(r, "SubmitPreShiftCheck")
    /\ KeyIsFree(r)
    /\ request[r].body = "CONCERN"
    /\ Answered(r, "UNAVAILABLE")
    /\ UNCHANGED <<movingVars, lockVars, caseVars, keptVars, known>>

(***************************************************************************)
(* The other components and the staff                                      *)
(***************************************************************************)

ChangeAvailability(from, to) ==
    /\ shareLock = None
    /\ availability = from
    /\ version < MaxVersion
    /\ availability' = to
    /\ version' = version + 1

(* Offline, online and break of a Driver without work *)
SetDriverAvailability ==
    /\ \E from, to \in AvailabilityStatuses \ {"ASSIGNED"} :
          from # to /\ ChangeAvailability(from, to)
    /\ UNCHANGED <<journey, moved, lockVars, caseVars, keptVars, known, request>>

AcceptDriverOffer ==
    /\ ChangeAvailability("AVAILABLE", "ASSIGNED")
    /\ UNCHANGED <<journey, moved, lockVars, caseVars, keptVars, known, request>>

(* The Journey is created without touching the availability row. *)
AcknowledgeDriverAssignment(j) ==
    /\ availability = "ASSIGNED"
    /\ journey = None
    /\ moved[j] = 0
    /\ journey' = j
    /\ moved' = [moved EXCEPT ![j] = 1]
    /\ UNCHANGED <<availability, version, lockVars, caseVars, keptVars, known, request>>

AdvanceJourney ==
    /\ journey # None
    /\ moved[journey] < MaxVersion
    /\ moved' = [moved EXCEPT ![journey] = @ + 1]
    /\ UNCHANGED <<availability, version, journey, lockVars, caseVars, keptVars, known, request>>

(* Completion releases the Driver, an unsafe termination sends it on break. *)
EndJourney ==
    /\ journey # None
    /\ \E to \in {"AVAILABLE", "BREAK"} : ChangeAvailability("ASSIGNED", to)
    /\ journey' = None
    /\ UNCHANGED <<moved, lockVars, caseVars, keptVars, known, request>>

ResolveAppeal(s) ==
    /\ s \in appealed \ resolved
    /\ resolved' = resolved \cup {s}
    /\ UNCHANGED <<movingVars, lockVars, appealed, restricted, keptVars, known, request>>

StaffRestrictVehicle ==
    /\ restricted' = ~restricted
    /\ UNCHANGED <<movingVars, lockVars, appealed, resolved, keptVars, known, request>>

-----------------------------------------------------------------------------

Init ==
    /\ availability = "OFFLINE"
    /\ version = 0
    /\ journey = None
    /\ moved = [j \in Journeys |-> 0]
    /\ profileLock = None
    /\ shareLock = None
    /\ appealed = {}
    /\ resolved = {}
    /\ restricted = FALSE
    /\ effect = [c \in Commands |-> {}]
    /\ stored = [c \in Commands |-> [k \in Keys |-> None]]
    /\ known = Unread
    /\ request = [r \in Requests |-> Idle]

Serve(r) ==
    \/ FairTreatmentSummary(r)
    \/ GetDriverFairTreatmentProjection(r)
    \/ Send(r)
    \/ Replay(r)
    \/ SubmitDriverAppeal(r)
    \/ ReconcileFuture(r)
    \/ ReadAuthoritativeState(r)
    \/ ReconcileDriverConnectivity(r)
    \/ LookUpSupportCase(r)
    \/ OpenDriverSupportCase(r)
    \/ SubmitPreShiftCheck(r)
    \/ SubmitPreShiftConcern(r)

Next ==
    \/ GetDriverDailyOperations
    \/ \E r \in Requests : Serve(r)
    \/ SetDriverAvailability
    \/ AcceptDriverOffer
    \/ \E j \in Journeys : AcknowledgeDriverAssignment(j)
    \/ AdvanceJourney
    \/ EndJourney
    \/ \E s \in Subjects : ResolveAppeal(s)
    \/ StaffRestrictVehicle

Spec == Init /\ [][Next]_vars

(***************************************************************************)
(* Properties                                                              *)
(***************************************************************************)

(* A request of a command, with its key and body from the time it is sent. *)
RequestOK(q) ==
    /\ DOMAIN q = DOMAIN Idle
    /\ q.step \in {"idle", "listing", "sent", "holding", "filing", "done"}
    /\ q.step \in {"idle", "listing"} => q.command = None
    /\ q.step \in {"sent", "holding", "filing"} =>
          q.command \in Commands /\ q.key \in Keys /\ q.body \in BodySet(q.command)
    /\ q.step = "holding" => q.command = "ReconcileDriverConnectivity"
    /\ q.step = "filing" => q.command = "OpenDriverSupportCase"

(* The rows, locks and requests hold what their columns and steps allow. *)
TypeOK ==
    /\ availability \in AvailabilityStatuses
    /\ version \in 0 .. MaxVersion
    /\ journey \in Journeys \cup {None}
    /\ moved \in [Journeys -> 0 .. MaxVersion]
    /\ profileLock \in Requests \cup {None}
    /\ shareLock \in Requests \cup {None}
    /\ resolved \subseteq appealed
    /\ appealed \subseteq Subjects
    /\ restricted \in BOOLEAN
    /\ effect \in [Commands -> SUBSET Requests]
    /\ stored = [c \in Commands |-> [k \in Keys |-> stored[c][k]]]
    /\ \A c \in Commands, k \in Keys : stored[c][k] \in Rows(c) \cup {None}
    /\ known \in Observations
    /\ DOMAIN request = Requests
    /\ \A r \in Requests : RequestOK(request[r])

(* When a reconciliation is committed, the availability it recorded is the *)
(* one the Driver has, and a Journey it named is the one the Driver is on: *)
(* no other command moved them between the read and the commit.            *)
SnapshotIsCurrent(r) ==
    /\ request[r].read.status = availability'
    /\ request[r].read.row.version = version'
    /\ request[r].read.row.journey \in {None, journey'}

ReconciledSnapshotIsCurrent ==
    [][\A r \in Requests : r \in effect'["ReconcileDriverConnectivity"] \ effect["ReconcileDriverConnectivity"]
          => SnapshotIsCurrent(r)]_vars

(* Whatever two requests under one key of one command do to each other,    *)
(* one of them wrote, and every answer that names a writer names that one. *)
OneEffectPerKey ==
    \A c \in Commands, k \in Keys :
       /\ \A r \in effect[c] : request[r].key = k => stored[c][k] # None /\ stored[c][k].by = r
       /\ \A r \in Requests :
             /\ request[r].command = c
             /\ request[r].key = k
             /\ request[r].answer \in Requests
             => stored[c][k] # None /\ stored[c][k].by = request[r].answer

(* The fair-treatment screen never counts an open appeal that its list of  *)
(* appeals does not show, though the two are read by separate statements.  *)
AppealsCountedAreListed ==
    \A r \in Requests :
       request[r].command = None /\ request[r].step = "done"
          => request[r].answer.counted \subseteq request[r].answer.listed

=============================================================================
