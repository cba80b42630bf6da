--------------------------- MODULE DriverStanding ---------------------------
(***************************************************************************)
(* modules/driver-operations: the application of a Driver, and the         *)
(* evidence that the staff keeps of the Driver and of one vehicle.  Five   *)
(* deciders read that evidence: the operating eligibility page, the        *)
(* maintenance page, going online, Dispatch for an offer, and the start of *)
(* a Journey.  Each was written on its own.                                *)
(*                                                                         *)
(* What the deciders ask besides (availability, location, fatigue, the     *)
(* schedule, the Journey itself) is in Dispatch and Journey.               *)
(***************************************************************************)
EXTENDS Naturals, Sequences

CONSTANTS StartKeys,           \* idempotency keys of the Driver's app
          HighRisk,            \* services whose permission needs a confirmed competency
          ApplicationVersions, \* bound on the version of the application
          MaxChanges,          \* bound on the changes of the evidence
          NoAnswer             \* what a key has before it is answered

ASSUME StandingAssumption ==
  /\ ApplicationVersions \in Nat /\ ApplicationVersions >= 2
  /\ MaxChanges \in Nat
  /\ NoAnswer \notin Nat

VARIABLES
  applications,  \* driver_application rows of the profile, by created_at
  profile,       \* driver_profile.onboarding_status
  contact,       \* of the account: UNVERIFIED, VERIFIED, or WITHDRAWN since
  answers,       \* driver.command_deduplication: key -> version answered
  evidence,      \* what the deciders read of the Driver and the vehicle
  changes        \* how often the evidence has changed

applicationVars == <<applications, profile, contact, answers>>
standingVars == <<applicationVars, evidence, changes>>

ApplicationStatuses ==
  {"STARTED", "CONTACT_VERIFIED", "IDENTITY_PENDING", "DOCUMENTS_PENDING", "TRAINING_PENDING",
   "VEHICLE_PENDING", "REVIEW_PENDING", "APPROVED", "DECLINED", "WITHDRAWN", "EXPIRED"}

Services == {"STANDARD", "SCHOOL", "WAV", "HOSPITAL", "SPECIALIST"}
RequirementTypes == {"SCHOOL", "WHEELCHAIR", "HOSPITAL", "HANDOVER", "CHILD_SEAT"}
RestrictionScopes ==
  {"ALL_SERVICES", "NEW_JOURNEYS", "SCHOOL_ONLY", "WAV_ONLY", "PAYOUT_ONLY", "SPECIFIC_VEHICLE"}
Urgencies == {"ROUTINE", "DUE_SOON", "OVERDUE", "SAFETY_REVIEW", "DO_NOT_USE"}

Application == [status : ApplicationStatuses, version : Nat \ {0}]

-----------------------------------------------------------------------------
(* The application. *)

Closed == {"APPROVED", "DECLINED", "WITHDRAWN", "EXPIRED"}
Evidenced == {"DOCUMENTS_PENDING", "TRAINING_PENDING", "VEHICLE_PENDING", "REVIEW_PENDING"}

\* applicationTransitions, and the trigger guard_application_transition.
Transitions(from) ==
  CASE from = "STARTED" -> {"CONTACT_VERIFIED", "WITHDRAWN", "EXPIRED"}
    [] from = "CONTACT_VERIFIED" -> {"IDENTITY_PENDING", "WITHDRAWN", "EXPIRED"}
    [] from = "IDENTITY_PENDING" -> {"DOCUMENTS_PENDING", "DECLINED", "WITHDRAWN", "EXPIRED"}
    [] from = "REVIEW_PENDING" ->
         (Evidenced \ {from}) \cup {"APPROVED", "DECLINED", "WITHDRAWN", "EXPIRED"}
    [] from \in Evidenced \ {"REVIEW_PENDING"} ->
         (Evidenced \ {from}) \cup {"DECLINED", "WITHDRAWN", "EXPIRED"}
    [] from \in Closed -> {}

UpdateAccepted(old, new) ==
  IF new.status = old.status THEN new.version = old.version
  ELSE new.status \in Transitions(old.status) /\ new.version = old.version + 1

\* current_application_projection: the newest, whatever its status.
CurrentApplication(rows) == rows[Len(rows)]

\* A Driver and a vehicle whose evidence was in order when it was recorded.
StandingInit ==
  /\ applications = <<>> /\ profile = "NOT_STARTED" /\ contact = "UNVERIFIED"
  /\ answers = [k \in StartKeys |-> NoAnswer]
  /\ evidence =
       [account |-> TRUE, compliance |-> TRUE, snapshot |-> TRUE,
        authorised |-> TRUE, insured |-> TRUE,
        granted |-> {"STANDARD", "SCHOOL"}, competent |-> {"SCHOOL"},
        restrictions |-> {}, capabilities |-> {"SCHOOL", "WHEELCHAIR", "HANDOVER"},
        plan |-> TRUE, urgencies |-> {"ROUTINE"}, allServices |-> FALSE,
        restricted |-> {}, recall |-> FALSE]
  /\ changes = 0

\* The application that a Driver who starts is answered with, before the start.
Found == IF applications = <<>> THEN <<[status |-> "STARTED", version |-> 1]>> ELSE applications

\* Faulty variant: the contact is recorded whatever has become of the application.
ResumedAnyStatus(current) ==
  IF contact = "VERIFIED" THEN [status |-> "CONTACT_VERIFIED", version |-> 2] ELSE current

\* What starting makes of it: only a verified contact moves it, and only once.
Resumed(current) ==
  IF current.status = "STARTED" /\ contact = "VERIFIED"
  THEN [status |-> "CONTACT_VERIFIED", version |-> 2] ELSE current

\* What the start writes to the profile: an application that is new is recorded
\* there, and again when the same command takes it further.
ProfileWrites ==
  LET current == CurrentApplication(Found) IN
  (IF applications = <<>> THEN {"STARTED"} ELSE {})
    \cup (IF Resumed(current) # current THEN {Resumed(current).status} ELSE {})

\* guard_profile_onboarding_projection is deferred and fires for every update:
\* each status that was written is compared with the application at COMMIT.
ProjectsAtCommit(writes, newest) ==
  \A status \in writes : status # "NOT_STARTED" => status = newest.status

\* What the command and the triggers ask of the start.  A start that they
\* refuse is rolled back.
StartAccepted ==
  LET current == CurrentApplication(Found) IN
  /\ applications = <<>> => profile = "NOT_STARTED"
  /\ UpdateAccepted(current, Resumed(current))
  /\ ProjectsAtCommit(ProfileWrites, Resumed(current))

\* startOrResumeDriverApplication.  Its session is of a contact that was
\* verified once.  It locks the profile before it looks its key up, and the
\* staff writes the profile along with every application, so it is one step.  A
\* key that has its answer gets it again.
StartOrResumeDriverApplication(k) ==
  /\ contact # "UNVERIFIED" /\ answers[k] = NoAnswer
  /\ StartAccepted
  /\ LET resumed == Resumed(CurrentApplication(Found))
     IN /\ applications' = [Found EXCEPT ![Len(Found)] = resumed]
        /\ profile' = IF ProfileWrites = {} THEN profile ELSE resumed.status
        /\ answers' = [answers EXCEPT ![k] = resumed.version]
  /\ UNCHANGED <<contact, evidence, changes>>

\* confirmContactVerification of Identity.
VerifyContact ==
  /\ contact = "UNVERIFIED" /\ contact' = "VERIFIED"
  /\ UNCHANGED <<applications, profile, answers, evidence, changes>>

\* A contact is found COMPROMISED or is REVOKED, and another takes its place,
\* outside the repository.  The sessions of the account stay.
ContactChanges ==
  /\ contact # "UNVERIFIED"
  /\ contact' = IF contact = "VERIFIED" THEN "WITHDRAWN" ELSE "VERIFIED"
  /\ UNCHANGED <<applications, profile, answers, evidence, changes>>

\* seed-demo-driver approves a Driver without an application in one transaction,
\* which writes the profile once.  It gives the Driver a new vehicle, unless one is
\* authorised, and a permission, which may not overlap another.
SeedDemoDriver ==
  /\ applications = <<>> /\ ~evidence.authorised /\ "STANDARD" \notin evidence.granted
  /\ applications' = <<[status |-> "APPROVED", version |-> 1]>> /\ profile' = "APPROVED"
  /\ evidence' = [evidence EXCEPT
       !.compliance = TRUE, !.granted = @ \cup {"STANDARD"},
       !.restrictions = @ \ {"SPECIFIC_VEHICLE"},
       !.authorised = TRUE, !.insured = TRUE, !.snapshot = TRUE, !.capabilities = {},
       !.plan = TRUE, !.urgencies = {"ROUTINE"}, !.allServices = FALSE, !.restricted = {},
       !.recall = FALSE]
  /\ UNCHANGED <<contact, answers, changes>>

\* The staff's workflow, outside the repository, under the deferred triggers by
\* which the profile has the status of the newest application.
StaffMovesApplication(to) ==
  /\ applications # <<>>
  /\ LET current == CurrentApplication(applications)
         moved == [status |-> to, version |-> current.version + 1]
     IN /\ current.version < ApplicationVersions
        /\ to # current.status /\ UpdateAccepted(current, moved)
        /\ applications' = [applications EXCEPT ![Len(applications)] = moved]
  /\ profile' = to
  /\ UNCHANGED <<contact, answers, evidence, changes>>

-----------------------------------------------------------------------------
(* The evidence.  Staff and providers, outside the repository, write it, and *)
(* time ends its validity: a row that is current is in the record.           *)

Toggle(set, x) == IF x \in set THEN set \ {x} ELSE set \cup {x}

EvidenceChanges ==
  /\ changes < MaxChanges /\ changes' = changes + 1
  /\ \/ \E f \in {"account", "compliance", "snapshot", "authorised", "insured", "plan",
                  "allServices", "recall"} :
          evidence' = [evidence EXCEPT ![f] = ~evidence[f]]
     \/ \E s \in Services, f \in {"granted", "competent", "restricted"} :
          evidence' = [evidence EXCEPT ![f] = Toggle(evidence[f], s)]
     \/ \E r \in RestrictionScopes :
          evidence' = [evidence EXCEPT !.restrictions = Toggle(evidence.restrictions, r)]
     \/ \E t \in RequirementTypes :
          evidence' = [evidence EXCEPT !.capabilities = Toggle(evidence.capabilities, t)]
     \/ \E u \in Urgencies :
          evidence' = [evidence EXCEPT !.urgencies = Toggle(evidence.urgencies, u)]
  /\ UNCHANGED applicationVars

-----------------------------------------------------------------------------
(* The views that the deciders share. *)

\* current_driver_vehicle_authorisation: with the insurance of the pair.
CurrentAuthorisation == evidence.authorised /\ evidence.insured

\* current_permission_projection: high risk needs its competency.
CurrentPermissions ==
  {s \in evidence.granted : s \in HighRisk => s \in evidence.competent}

\* current_vehicle_maintenance_gate.
OperatingPermitted ==
  /\ evidence.plan /\ evidence.urgencies # {}
  /\ evidence.urgencies \cap {"SAFETY_REVIEW", "DO_NOT_USE"} = {}
  /\ ~evidence.allServices /\ ~evidence.recall

HasRestriction(scope) == scope \in evidence.restrictions

-----------------------------------------------------------------------------
(* The pages. *)

\* Faulty variant: the scope names the only service that is left.
OutsideRestrictionsOnly(services) ==
  {s \in services :
     /\ HasRestriction("SCHOOL_ONLY") => s = "SCHOOL"
     /\ HasRestriction("WAV_ONLY") => s = "WAV"}

\* evaluateDriverOperatingEligibility: a scope names the service it restricts.
OutsideRestrictions(services) ==
  {s \in services :
     /\ HasRestriction("SCHOOL_ONLY") => s # "SCHOOL"
     /\ HasRestriction("WAV_ONLY") => s # "WAV"}

HardBlocked ==
  \/ ~evidence.account \/ profile # "APPROVED" \/ ~evidence.compliance
  \/ ~CurrentAuthorisation \/ ~evidence.snapshot \/ ~OperatingPermitted
  \/ HasRestriction("ALL_SERVICES") \/ HasRestriction("NEW_JOURNEYS")
  \/ HasRestriction("SPECIFIC_VEHICLE")
  \/ OutsideRestrictions(CurrentPermissions) = {}

\* getDriverOperatingEligibilityProjection with the vehicle selected; without
\* one it grants nothing.
EligibleServiceCodes ==
  IF HardBlocked THEN {} ELSE OutsideRestrictions(CurrentPermissions) \ evidence.restricted

OperatingEligibility ==
  IF HardBlocked \/ EligibleServiceCodes = {} THEN "NOT_ELIGIBLE"
  ELSE IF EligibleServiceCodes # CurrentPermissions THEN "PARTIALLY_ELIGIBLE" ELSE "ELIGIBLE"

\* getDriverVehicleMaintenanceProjection: evaluateMaintenanceOperatingGate works
\* from the highest urgency what the view has worked out as well.
MaintenancePagePermits(services) ==
  /\ CurrentAuthorisation
  /\ evidence.plan /\ evidence.urgencies # {}
  /\ "DO_NOT_USE" \notin evidence.urgencies /\ "SAFETY_REVIEW" \notin evidence.urgencies
  /\ ~evidence.allServices /\ ~evidence.recall
  /\ services \cap evidence.restricted = {}

-----------------------------------------------------------------------------
(* Dispatch. *)

\* requiredPermissionServiceCodes.
RequiredServices(requirements) ==
  LET named == {s \in Services :
        \/ s = "SCHOOL" /\ "SCHOOL" \in requirements
        \/ s = "WAV" /\ "WHEELCHAIR" \in requirements
        \/ s = "HOSPITAL" /\ "HOSPITAL" \in requirements
        \/ s = "SPECIALIST" /\ "HANDOVER" \in requirements}
  IN IF named = {} THEN {"STANDARD"} ELSE named

\* maintenancePermitsServices.
MaintenancePermits(services) == OperatingPermitted /\ services \cap evidence.restricted = {}

\* service_permission_match: with no service named, any permission that no
\* scope restricts will do.
PermissionMatch(services) ==
  IF services = {} THEN OutsideRestrictions(CurrentPermissions) # {}
                   ELSE services \subseteq CurrentPermissions

\* operating_restriction_active.
RestrictionActive(services) ==
  \/ HasRestriction("ALL_SERVICES") \/ HasRestriction("NEW_JOURNEYS")
  \/ HasRestriction("SPECIFIC_VEHICLE")
  \/ HasRestriction("SCHOOL_ONLY") /\ "SCHOOL" \in services
  \/ HasRestriction("WAV_ONLY") /\ "WAV" \in services

\* readDriverEligibility with evaluateDriverDispatchEligibility, as far as it
\* rests on the evidence.
StandsFor(services, requirements) ==
  /\ evidence.account /\ profile = "APPROVED" /\ evidence.compliance
  /\ CurrentAuthorisation
  /\ MaintenancePermits(services) /\ evidence.snapshot
  /\ PermissionMatch(services) /\ ~RestrictionActive(services)
  /\ requirements \subseteq evidence.capabilities

\* acceptDriverOffer of a Booking.
DispatchTakes(requirements) == StandsFor(RequiredServices(requirements), requirements)

\* getDriverEligibility, and setDriverAvailability on the way online.
MayGoOnline == StandsFor({}, {})

-----------------------------------------------------------------------------
(* The start of a Journey. *)

\* Faulty variant: the services that the vehicle may not do are not looked at.
StartTakesAnyService(requirements) ==
  /\ profile = "APPROVED" /\ evidence.account /\ evidence.authorised
  /\ evidence.compliance /\ evidence.snapshot /\ OperatingPermitted
  /\ requirements \subseteq evidence.capabilities

\* assignmentStillEligible: the authorisation without the insurance of the
\* pair, and neither permissions nor restrictions of the Driver.
StartTakes(requirements) ==
  LET services ==
        (IF "SCHOOL" \in requirements THEN {"SCHOOL"} ELSE {})
          \cup (IF "WHEELCHAIR" \in requirements THEN {"WAV"} ELSE {})
          \cup (IF "HOSPITAL" \in requirements THEN {"HOSPITAL"} ELSE {})
          \cup (IF "HANDOVER" \in requirements THEN {"SPECIALIST"} ELSE {})
      asked == IF services = {} THEN {"STANDARD"} ELSE services
  IN /\ profile = "APPROVED" /\ evidence.account /\ evidence.authorised
     /\ evidence.compliance /\ evidence.snapshot /\ OperatingPermitted
     /\ evidence.restricted \cap asked = {}
     /\ requirements \subseteq evidence.capabilities

-----------------------------------------------------------------------------
StandingNext ==
  \/ \E k \in StartKeys : StartOrResumeDriverApplication(k)
  \/ VerifyContact \/ ContactChanges \/ SeedDemoDriver
  \/ \E to \in ApplicationStatuses : StaffMovesApplication(to)
  \/ EvidenceChanges

StandingSpec == StandingInit /\ [][StandingNext]_standingVars
-----------------------------------------------------------------------------
(* Properties. *)

StandingTypeOK ==
  /\ applications \in Seq(Application)
  /\ profile \in ApplicationStatuses \cup {"NOT_STARTED"}
  /\ contact \in {"UNVERIFIED", "VERIFIED", "WITHDRAWN"}
  /\ answers \in [StartKeys -> 1..ApplicationVersions \cup {NoAnswer}]
  /\ changes \in 0..MaxChanges

\* Whatever the staff has made of an application in the meantime, and whatever
\* has become of the contact, a Driver who starts again gets an answer and never
\* a second application; profile and application agree, and no answer that an
\* app has is ahead of the application.  A first start is answered only while the
\* contact is not verified: with a verified one it writes STARTED and then
\* CONTACT_VERIFIED to the profile, and the deferred trigger refuses the first of
\* the two at COMMIT, which ADR-0008 does not mean.
ApplicationIsResumable ==
  /\ StartAccepted <=> (applications # <<>> \/ contact # "VERIFIED")
  /\ Len(applications) <= 1
  /\ applications = <<>> => profile = "NOT_STARTED" /\ \A k \in StartKeys : answers[k] = NoAnswer
  /\ applications # <<>> =>
       /\ profile = CurrentApplication(applications).status
       /\ \A k \in StartKeys : answers[k] # NoAnswer =>
            answers[k] <= CurrentApplication(applications).version

\* On the same evidence the eligibility page, the maintenance page and going
\* online promise what Dispatch keeps: a service is on the page exactly when
\* Dispatch takes the Driver for it, nobody whom Dispatch would take is told to
\* leave the vehicle, and who has a service on the page may go online.  Who may
\* go online with none has a vehicle that is restricted for some service, which
\* going online does not look at.
PagesPromiseWhatDispatchKeeps ==
  /\ \A requirements \in SUBSET RequirementTypes :
       LET services == RequiredServices(requirements) IN
       requirements \subseteq evidence.capabilities =>
         /\ DispatchTakes(requirements) <=> services \subseteq EligibleServiceCodes
         /\ DispatchTakes(requirements) => MaintenancePagePermits(services)
  /\ OperatingEligibility # "NOT_ELIGIBLE" => MayGoOnline
  /\ (MayGoOnline /\ OperatingEligibility = "NOT_ELIGIBLE") => evidence.restricted # {}

\* The start of a Journey refuses no Driver whom Dispatch would still take for
\* it, and takes one whom Dispatch would refuse for three reasons only: the
\* insurance of the pair, a permission or a restriction has changed since.
StartLooksAgain ==
  \A requirements \in SUBSET RequirementTypes :
    LET services == RequiredServices(requirements) IN
    /\ DispatchTakes(requirements) => StartTakes(requirements)
    /\ (StartTakes(requirements) /\ ~DispatchTakes(requirements)) =>
         ~evidence.insured \/ ~PermissionMatch(services) \/ RestrictionActive(services)
=============================================================================
