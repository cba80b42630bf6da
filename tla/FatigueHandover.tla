--------------------------- MODULE FatigueHandover ---------------------------
(***************************************************************************)
(* modules/control-room-fatigue: operators of the Control Room take over   *)
(* the handover that a fatigue report with a passenger has requested.      *)
(* Composed with Journey, whose reportDriverFatigue creates the handover   *)
(* and its support case, and whose commands go on under it.                *)
(*                                                                         *)
(* An operator acts under a task scope: an immutable row, bounded in time, *)
(* that hangs on a role assignment, which is immutable and bounded too.    *)
(* Every command locks handover, support case and hold, and is one step.   *)
(***************************************************************************)
EXTENDS Journey

CONSTANTS Operators,  \* people with Control Room authority
          TaskLife,   \* the longest a task lasts: four hours
          Horizon     \* bound of the clock

ASSUME ClockAssumption == TaskLife \in Nat \ {0} /\ Horizon \in Nat

VARIABLES
  stage,        \* driver_fatigue_handover.status; "ABSENT" before the row exists
  supportCase,  \* driver_support_case.status of the handover's case
  roles,        \* control_room_role_assignment
  tasks,        \* control_room_task_scope
  now           \* the clock of the database, in hours

handoverRows == <<stage, supportCase>>
authorityRows == <<roles, tasks>>
handoverVars == <<vars, handoverRows, authorityRows, now>>

HandoverStatuses == {"REQUESTED", "OWNED", "REPLACEMENT_ASSIGNED", "PASSENGER_TRANSFERRED",
                     "SAFE_STOP_CONFIRMED", "COMPLETED"}
CaseStatuses == {"HUMAN_ESCALATION_REQUIRED", "IN_PROGRESS", "RESOLVED"}

\* Rows; from is not kept, as every row is valid from its insertion.
Role == [operator : Operators, until : Nat]
Task == [operator : Operators, booking : Bookings, role : Role, until : Nat]

HandoverTypeOK ==
  /\ stage \in [Bookings -> HandoverStatuses \cup {"ABSENT"}]
  /\ supportCase \in [Bookings -> CaseStatuses \cup {"ABSENT"}]
  /\ roles \in SUBSET Role
  /\ tasks \in SUBSET Task
  /\ now \in Nat

HandoverInit ==
  /\ Init
  /\ stage = [b \in Bookings |-> "ABSENT"]
  /\ supportCase = [b \in Bookings |-> "ABSENT"]
  /\ roles = {} /\ tasks = {} /\ now = 0

-----------------------------------------------------------------------------
(* What the commands share. *)

Current(row) == row.until > now

\* guard_driver_fatigue_handover_update, the trigger of migration 0024.
LifecycleTransitions ==
  {<<"REQUESTED", "OWNED">>,
   <<"OWNED", "REPLACEMENT_ASSIGNED">>, <<"OWNED", "SAFE_STOP_CONFIRMED">>,
   <<"REPLACEMENT_ASSIGNED", "PASSENGER_TRANSFERRED">>,
   <<"REPLACEMENT_ASSIGNED", "SAFE_STOP_CONFIRMED">>,
   <<"PASSENGER_TRANSFERRED", "COMPLETED">>, <<"SAFE_STOP_CONFIRMED", "COMPLETED">>}

TriggerAccepts(b, to) == <<stage[b], to>> \in LifecycleTransitions

\* UPDATE operations.driver_fatigue_handover, under that trigger.
UpdateHandover(b, to) ==
  /\ TriggerAccepts(b, to)
  /\ stage' = [stage EXCEPT ![b] = to]

\* The handover's hold is the one that reportDriverFatigue wrote.
HoldIsActive(b) == "DRIVER_FATIGUE_REPORTED" \in hold[b]

\* The case is owned and the hold stands: every command after the claim.
UnderWay(b) == supportCase[b] = "IN_PROGRESS" /\ HoldIsActive(b)

\* The operator's own task, and the role it was given under, are current.
HasTask(o, b) ==
  \E t \in tasks : t.operator = o /\ t.booking = b /\ Current(t) /\ Current(t.role)

\* The task rows of a handover are read by the newest expiry.
TaskExpired(b) ==
  /\ \E t \in tasks : t.booking = b
  /\ \A t \in tasks : t.booking = b => ~Current(t)

\* Faulty variant: the remaining time of the role is not looked at.
TaskExpiryOfLife(role) == now + TaskLife

\* Math.min of the role's expiry and four hours from now.
TaskExpiry(role) == IF role.until < now + TaskLife THEN role.until ELSE now + TaskLife

InsertTask(o, b, role) ==
  tasks' = tasks \cup {[operator |-> o, booking |-> b, role |-> role, until |-> TaskExpiry(role)]}

-----------------------------------------------------------------------------
(* The commands. *)

\* A command of Journey.  reportDriverFatigue inserts the handover and its
\* support case along with the hold.
JourneyCommand ==
  LET requested == {b \in Bookings : handover'[b] /\ ~handover[b]} IN
  /\ Next
  /\ stage' = [b \in Bookings |-> IF b \in requested THEN "REQUESTED" ELSE stage[b]]
  /\ supportCase' = [b \in Bookings |-> IF b \in requested THEN "HUMAN_ESCALATION_REQUIRED"
                                                           ELSE supportCase[b]]
  /\ UNCHANGED <<authorityRows, now>>

\* The staff process that assigns roles is outside the repository.
AssignRole(o, until) ==
  /\ until > now
  /\ roles' = roles \cup {[operator |-> o, until |-> until]}
  /\ UNCHANGED <<vars, handoverRows, tasks, now>>

\* Faulty variant: the support case stays with the escalation.
ClaimLeavingCase(o, b) ==
  /\ stage[b] = "REQUESTED" /\ supportCase[b] = "HUMAN_ESCALATION_REQUIRED" /\ HoldIsActive(b)
  /\ \E role \in roles : role.operator = o /\ Current(role) /\ InsertTask(o, b, role)
  /\ UpdateHandover(b, "OWNED")
  /\ UNCHANGED <<vars, supportCase, roles, now>>

\* The first current role in the order of role codes, which are left out: any.
ClaimFatigueHandover(o, b) ==
  /\ stage[b] = "REQUESTED" /\ supportCase[b] = "HUMAN_ESCALATION_REQUIRED" /\ HoldIsActive(b)
  /\ \E role \in roles : role.operator = o /\ Current(role) /\ InsertTask(o, b, role)
  /\ UpdateHandover(b, "OWNED")
  /\ supportCase' = [supportCase EXCEPT ![b] = "IN_PROGRESS"]
  /\ UNCHANGED <<vars, roles, now>>

\* All that confirmFatigueSafeStop asks for, and the table after it.
AcceptsSafeStop(o, b) ==
  /\ HasTask(o, b) /\ UnderWay(b)
  /\ stage[b] \in {"OWNED", "REPLACEMENT_ASSIGNED"}
  /\ TriggerAccepts(b, "SAFE_STOP_CONFIRMED")

ConfirmFatigueSafeStop(o, b) ==
  /\ AcceptsSafeStop(o, b)
  /\ UpdateHandover(b, "SAFE_STOP_CONFIRMED")
  /\ UNCHANGED <<vars, supportCase, authorityRows, now>>

Tick == now < Horizon /\ now' = now + 1 /\ UNCHANGED <<vars, handoverRows, authorityRows>>

-----------------------------------------------------------------------------
(* Commands that no reachable state accepts, as OffersAndAnswers shows.     *)

\* What recoverFatigueHandoverOwnership looks for.
Recoverable(b) ==
  /\ stage[b] \in {"OWNED", "REPLACEMENT_ASSIGNED", "PASSENGER_TRANSFERRED", "SAFE_STOP_CONFIRMED"}
  /\ TaskExpired(b) /\ UnderWay(b)

\* The UPDATE writes a new owner and leaves the status, which is a transition
\* from the status to itself.
AcceptsRecovery(o, b) ==
  /\ Recoverable(b) /\ TriggerAccepts(b, stage[b])
  /\ \E role \in roles : role.operator = o /\ Current(role)

RecoverFatigueHandoverOwnership(o, b) ==
  /\ AcceptsRecovery(o, b)
  /\ \E role \in roles : role.operator = o /\ Current(role) /\ InsertTask(o, b, role)
  /\ UpdateHandover(b, stage[b])
  /\ UNCHANGED <<vars, supportCase, roles, now>>

\* The passenger is no longer with the tired Driver: what completion asks of
\* the original assignment and its leg.
OriginalIsOver(b) ==
  assignment[b] \in {"CANCELLED", "COMPLETED", "REASSIGNED"} /\ leg[b] \in {"INTERRUPTED", "COMPLETED"}

\* The Driver was taken off the Journey by its unsafe end.  The replacement, a
\* second assignment and leg of the Journey that no code creates, is left open.
OriginalIsInterrupted(b) ==
  assignment[b] \in {"CANCELLED", "REASSIGNED"} /\ leg[b] = "INTERRUPTED"

\* Both commands of a replacement want a hold with the reason
\* DRIVER_FATIGUE_SAFETY, whatever replacement there is.
AcceptsReplacement(o, b) ==
  /\ HasTask(o, b) /\ UnderWay(b) /\ OriginalIsInterrupted(b)
  /\ stage[b] = "OWNED" /\ "DRIVER_FATIGUE_SAFETY" \in hold[b]
  /\ TriggerAccepts(b, "REPLACEMENT_ASSIGNED")

RecordFatigueReplacementAssignment(o, b) ==
  /\ AcceptsReplacement(o, b)
  /\ UpdateHandover(b, "REPLACEMENT_ASSIGNED")
  /\ UNCHANGED <<vars, supportCase, authorityRows, now>>

AcceptsTransfer(o, b) ==
  /\ HasTask(o, b) /\ UnderWay(b) /\ OriginalIsInterrupted(b)
  /\ stage[b] = "REPLACEMENT_ASSIGNED" /\ "DRIVER_FATIGUE_SAFETY" \in hold[b]
  /\ TriggerAccepts(b, "PASSENGER_TRANSFERRED")

RecordFatiguePassengerTransfer(o, b) ==
  /\ AcceptsTransfer(o, b)
  /\ UpdateHandover(b, "PASSENGER_TRANSFERRED")
  /\ UNCHANGED <<vars, supportCase, authorityRows, now>>

\* completeFatigueHandover wants a hold with the reason DRIVER_FATIGUE_SAFETY.
AcceptsCompletion(o, b) ==
  /\ HasTask(o, b) /\ UnderWay(b) /\ OriginalIsOver(b)
  /\ stage[b] \in {"PASSENGER_TRANSFERRED", "SAFE_STOP_CONFIRMED"}
  /\ "DRIVER_FATIGUE_SAFETY" \in hold[b]
  /\ TriggerAccepts(b, "COMPLETED")

CompleteFatigueHandover(o, b) ==
  /\ AcceptsCompletion(o, b)
  /\ UpdateHandover(b, "COMPLETED")
  /\ hold' = [hold EXCEPT ![b] = @ \ {"DRIVER_FATIGUE_SAFETY"}]
  /\ supportCase' = [supportCase EXCEPT ![b] = "RESOLVED"]
  /\ UNCHANGED <<bookingRow, journeyRows, assignmentRow, fix, rideCheckRow, handover, incident,
                 driverRows, reports, authorityRows, now>>

-----------------------------------------------------------------------------
(* What the Control Room is shown. *)

\* listRecoverableFatigueHandovers, for an operator with a current role.
RecoverableHandovers(o) ==
  {b \in Bookings : Recoverable(b) /\ \E role \in roles : role.operator = o /\ Current(role)}

\* Faulty variant: the safe stop is still offered when it is confirmed.
OfferedUntilCompleted(o, b) ==
  IF ~HasTask(o, b) THEN {}
  ELSE CASE stage[b] = "OWNED" -> {"RECORD_REPLACEMENT_ASSIGNMENT", "CONFIRM_SAFE_STOP"}
         [] stage[b] = "REPLACEMENT_ASSIGNED" -> {"RECORD_PASSENGER_TRANSFER", "CONFIRM_SAFE_STOP"}
         [] stage[b] \in {"PASSENGER_TRANSFERRED", "SAFE_STOP_CONFIRMED"} ->
              {"COMPLETE_HANDOVER", "CONFIRM_SAFE_STOP"}
         [] OTHER -> {}

\* getFatigueHandoverTask: only the holder of the current task sees the page,
\* and the status alone decides what it offers.
PermittedNextActions(o, b) ==
  IF ~HasTask(o, b) THEN {}
  ELSE CASE stage[b] = "OWNED" -> {"RECORD_REPLACEMENT_ASSIGNMENT", "CONFIRM_SAFE_STOP"}
         [] stage[b] = "REPLACEMENT_ASSIGNED" -> {"RECORD_PASSENGER_TRANSFER", "CONFIRM_SAFE_STOP"}
         [] stage[b] \in {"PASSENGER_TRANSFERRED", "SAFE_STOP_CONFIRMED"} -> {"COMPLETE_HANDOVER"}
         [] OTHER -> {}

-----------------------------------------------------------------------------
HandoverNext ==
  \/ JourneyCommand
  \/ \E o \in Operators, until \in 1..Horizon : AssignRole(o, until)
  \/ \E o \in Operators, b \in Bookings : ClaimFatigueHandover(o, b) \/ ConfirmFatigueSafeStop(o, b)
  \/ Tick

HandoverSpec == HandoverInit /\ [][HandoverNext]_handoverVars
-----------------------------------------------------------------------------
(* Properties. *)

\* Handover, support case, task, hold and Journey are rows of three services.
\* A handover that is open has its hold and a Journey that carries, or carried
\* until its incident, the passenger; the case is in progress from the claim on,
\* which is when there is a task.
HandoverRecordsAgree ==
  \A b \in Bookings :
    /\ handover[b] <=> stage[b] # "ABSENT"
    /\ supportCase[b] = "ABSENT" <=> stage[b] = "ABSENT"
    /\ supportCase[b] = "HUMAN_ESCALATION_REQUIRED" <=> stage[b] = "REQUESTED"
    /\ stage[b] \in {"ABSENT", "REQUESTED"} <=> \A t \in tasks : t.booking # b
    /\ stage[b] # "ABSENT" => /\ HoldIsActive(b)
                              /\ journey[b] \in {"PASSENGER_VERIFIED", "IN_PROGRESS", "ARRIVING"}

\* At any time one operator at most works on a handover, and a task does not
\* outlive the role it was given under, whichever of the two is longer.
TaskIsExclusiveAndBounded ==
  /\ \A t, u \in tasks : (t.booking = u.booking /\ Current(t) /\ Current(u)) => t = u
  /\ \A t \in tasks : t.role \in roles /\ t.operator = t.role.operator /\ t.until <= t.role.until

\* A Driver's own rest does not settle a Journey that the Control Room has not
\* closed: no observation is cleared in a shift while the handover of any Journey
\* of this Driver, the present one or one that ended in an incident, is open.
ClearanceWaitsForHandover ==
  [][\A d \in Drivers, b \in Bookings :
       (fatigued[d] /\ ~fatigued'[d] /\ availability'[d] # "OFFLINE" /\ driver[b] = d)
         => stage[b] \in {"ABSENT", "COMPLETED"}]_handoverVars

\* A safe stop that the task page offers is accepted although the page looks at
\* neither the support case nor the hold, and no handover is in the queue of the
\* expired ones while somebody has its page.  What the queue and the page offer
\* besides ends nowhere: a listed handover cannot be taken over, because the
\* table refuses an update that keeps the status, and an offered replacement or
\* completion is refused, because it wants a hold with a reason that no command
\* writes.  Nor is a passenger transferred, as no replacement was recorded.
OffersAndAnswers ==
  \A o \in Operators, b \in Bookings :
    /\ "CONFIRM_SAFE_STOP" \in PermittedNextActions(o, b) => AcceptsSafeStop(o, b)
    /\ "COMPLETE_HANDOVER" \in PermittedNextActions(o, b) => ~AcceptsCompletion(o, b)
    /\ "RECORD_REPLACEMENT_ASSIGNMENT" \in PermittedNextActions(o, b) => ~AcceptsReplacement(o, b)
    /\ ~AcceptsTransfer(o, b)
    /\ b \in RecoverableHandovers(o) =>
         /\ \A p \in Operators : PermittedNextActions(p, b) = {}
         /\ ~AcceptsRecovery(o, b)
=============================================================================
