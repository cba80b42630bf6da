---------------------------- MODULE DriverCareProofs ----------------------------
(***************************************************************************)
(* Proofs about DriverCare: its types, that a key has one effect, that a   *)
(* reconciliation records the state it is committed in, and that the two   *)
(* statements of the fair-treatment screen agree.                          *)
(*                                                                         *)
(* And about DriverStanding: that a Driver who has an application can      *)
(* always start again, and that the five readers of the evidence agree as  *)
(* far as they should.                                                     *)
(***************************************************************************)
EXTENDS DriverCare, DriverStanding, TLAPS

(* A reconciliation past its reads holds both locks, its key is still free *)
(* and the rows it read have not moved.                                    *)
HolderOK(r) ==
    /\ profileLock = r
    /\ shareLock = r
    /\ KeyIsFree(r)
    /\ request[r].read.status = availability
    /\ request[r].read.row.version = IF version = 0 THEN 1 ELSE version
    /\ request[r].read.row.journey \in {None, journey}

(* A request that wrote is done, and its key keeps its answer. *)
WriterOK(c, r) ==
    /\ request[r].step = "done"
    /\ request[r].command = c
    /\ request[r].key \in Keys
    /\ stored[c][request[r].key] # None
    /\ stored[c][request[r].key].by = r

(* An answer that names a writer is the one its key keeps. *)
AnswerOK(r) ==
    request[r].command \in Commands /\ request[r].key \in Keys /\ request[r].answer \in Requests
       => /\ stored[request[r].command][request[r].key] # None
          /\ stored[request[r].command][request[r].key].by = request[r].answer

IInv ==
    /\ TypeOK
    /\ \A r \in Requests : request[r].step = "holding" => HolderOK(r)
    /\ \A c \in Commands : \A r \in effect[c] : WriterOK(c, r)
    /\ \A r \in Requests : AnswerOK(r)
    /\ \A r \in Requests : request[r].step # "done" => request[r].answer = None

LEMMA InitIInv == Init => IInv
  <1> SUFFICES ASSUME Init PROVE IInv
    OBVIOUS
  <1>1. TypeOK
    <2>1. known \in Observations
      BY MaxVersionPositive DEF Init, Observations, Unread
    <2>2. RequestOK(Idle)
      BY DEF RequestOK, Idle
    <2>3. moved \in [Journeys -> 0 .. MaxVersion] /\ version \in 0 .. MaxVersion
      BY MaxVersionPositive DEF Init
    <2>4. stored = [c \in Commands |-> [k \in Keys |-> stored[c][k]]]
      BY DEF Init
    <2> QED
      BY <2>1, <2>2, <2>3, <2>4 DEF Init, TypeOK, AvailabilityStatuses
  <1>2. \A r \in Requests : AnswerOK(r)
    BY NoneIsNoRow DEF Init, AnswerOK, Idle
  <1> QED
    BY <1>1, <1>2 DEF Init, IInv, Idle

(***************************************************************************)
(* Steps of the other components: the requests and the kept answers stay   *)
(***************************************************************************)

LEMMA MovingStep ==
  ASSUME IInv, TypeOK', UNCHANGED <<lockVars, keptVars, request>>,
         \/ UNCHANGED <<availability, version, journey>>
         \/ shareLock = None
         \/ journey = None /\ UNCHANGED <<availability, version>>
  PROVE  IInv'
  <1>1. ASSUME NEW r \in Requests, request'[r].step = "holding"
        PROVE  HolderOK(r)'
    <2>1. HolderOK(r)
      BY <1>1 DEF IInv
    <2>2. shareLock # None
      BY <2>1, NoneIsFresh DEF HolderOK
    <2>3. availability' = availability /\ version' = version /\ (journey' = journey \/ journey = None)
      BY <2>2
    <2> QED
      BY <2>1, <2>3 DEF HolderOK, KeyIsFree, lockVars, keptVars
  <1>2. \A c \in Commands : \A r \in effect'[c] : WriterOK(c, r)'
    BY DEF IInv, WriterOK, keptVars
  <1>3. \A r \in Requests : AnswerOK(r)'
    BY DEF IInv, AnswerOK, keptVars
  <1> QED
    BY <1>1, <1>2, <1>3 DEF IInv

(***************************************************************************)
(* A step of request r, which leaves the other requests alone              *)
(***************************************************************************)

(* It writes nothing. *)
LEMMA QuietStep ==
  ASSUME IInv, NEW r \in Requests, NEW q, TypeOK',
         request' = [request EXCEPT ![r] = q],
         UNCHANGED <<movingVars, keptVars>>,
         request[r].step # "done", request[r].step # "holding",
         UNCHANGED lockVars \/ profileLock = None,
         q.step = "holding" => HolderOK(r)',
         q.step # "done" => q.answer = None,
         AnswerOK(r)'
  PROVE  IInv'
  <1>1. request'[r] = q /\ \A s \in Requests \ {r} : request'[s] = request[s]
    BY DEF IInv, TypeOK
  <1>2. ASSUME NEW s \in Requests, request'[s].step = "holding"
        PROVE  HolderOK(s)'
    <2>1. CASE s = r
      BY <1>1, <1>2, <2>1
    <2>2. CASE s # r
      <3>1. HolderOK(s)
        BY <1>1, <1>2, <2>2 DEF IInv
      <3>2. UNCHANGED lockVars
        BY <3>1, NoneIsFresh DEF HolderOK
      <3> QED
        BY <1>1, <2>2, <3>1, <3>2 DEF HolderOK, KeyIsFree, lockVars, keptVars, movingVars
    <2> QED
      BY <2>1, <2>2
  <1>3. ASSUME NEW c \in Commands, NEW s \in effect'[c]
        PROVE  WriterOK(c, s)'
    <2>1. WriterOK(c, s) /\ s \in Requests
      BY <1>3 DEF IInv, TypeOK, keptVars
    <2>2. s # r
      BY <2>1 DEF WriterOK
    <2> QED
      BY <1>1, <2>1, <2>2 DEF WriterOK, keptVars
  <1>4. ASSUME NEW s \in Requests
        PROVE  AnswerOK(s)'
    <2>1. CASE s = r
      BY <2>1
    <2>2. CASE s # r
      BY <1>1, <2>2 DEF IInv, AnswerOK, keptVars
    <2> QED
      BY <2>1, <2>2
  <1>5. \A s \in Requests : request'[s].step # "done" => request'[s].answer = None
    BY <1>1 DEF IInv
  <1> QED
    BY <1>2, <1>3, <1>4, <1>5 DEF IInv

(* It writes its rows and answers with itself. No other request is then    *)
(* between the reads and the commit of a reconciliation of the same key.   *)
LEMMA WritingStep ==
  ASSUME IInv, NEW r \in Requests, TypeOK',
         request[r].step \in {"sent", "holding", "filing"},
         Record(r), KeyIsFree(r), Answered(r, r),
         \A s \in Requests \ {r} : request[s].step = "holding" =>
            /\ request[r].command # "ReconcileDriverConnectivity"
            /\ UNCHANGED <<lockVars, movingVars>>
  PROVE  IInv'
  <1> DEFINE cmd == request[r].command
             key == request[r].key
  <1>1. cmd \in Commands /\ key \in Keys /\ DOMAIN request[r] = DOMAIN Idle
    BY DEF IInv, TypeOK, RequestOK
  <1>2. /\ request'[r].step = "done" /\ request'[r].answer = r
        /\ request'[r].command = cmd /\ request'[r].key = key
        /\ \A s \in Requests \ {r} : request'[s] = request[s]
    BY <1>1 DEF Answered, IInv, TypeOK, Idle
  <1>3. /\ stored'[cmd][key] = [body |-> request[r].body, by |-> r]
        /\ \A c \in Commands, k \in Keys : c # cmd \/ k # key => stored'[c][k] = stored[c][k]
    BY <1>1 DEF Record, IInv, TypeOK
  <1>4. stored'[cmd][key] # None /\ stored'[cmd][key].by = r
    <2>1. stored'[cmd][key] \in Rows(cmd)
      BY <1>1, <1>3 DEF Rows, IInv, TypeOK, RequestOK
    <2> QED
      BY <1>1, <1>3, <2>1, NoneIsNoRow
  <1>5. ASSUME NEW s \in Requests, request'[s].step = "holding"
        PROVE  HolderOK(s)'
    <2>1. s # r
      BY <1>2, <1>5
    <2>2. request[s].step = "holding" /\ HolderOK(s)
      BY <1>2, <1>5, <2>1 DEF IInv
    <2>3. request[s].command = "ReconcileDriverConnectivity" /\ request[s].key \in Keys
      BY <2>2 DEF IInv, TypeOK, RequestOK
    <2>4. cmd # "ReconcileDriverConnectivity" /\ UNCHANGED <<lockVars, movingVars>>
      BY <2>1, <2>2
    <2>5. stored'[request[s].command][request[s].key] = stored[request[s].command][request[s].key]
      BY <1>3, <2>3, <2>4 DEF Commands
    <2> QED
      BY <1>2, <2>1, <2>2, <2>4, <2>5 DEF HolderOK, KeyIsFree, lockVars, movingVars
  <1>6. ASSUME NEW c \in Commands, NEW s \in effect'[c]
        PROVE  WriterOK(c, s)'
    <2>1. CASE s = r /\ c = cmd
      BY <1>1, <1>2, <1>4, <2>1 DEF WriterOK
    <2>2. CASE s \in effect[c]
      <3>1. WriterOK(c, s) /\ s \in Requests
        BY <2>2 DEF IInv, TypeOK
      <3>2. s # r /\ (c # cmd \/ request[s].key # key)
        BY <3>1 DEF WriterOK, KeyIsFree
      <3> QED
        BY <1>2, <1>3, <3>1, <3>2 DEF WriterOK
    <2> QED
      BY <1>6, <2>1, <2>2 DEF Record, IInv, TypeOK
  <1>7. ASSUME NEW s \in Requests
        PROVE  AnswerOK(s)'
    <2>1. CASE s = r
      BY <1>2, <1>4, <2>1 DEF AnswerOK
    <2>2. CASE s # r
      <3>1. AnswerOK(s) /\ request'[s] = request[s]
        BY <1>2, <2>2 DEF IInv
      <3> QED
        BY <1>3, <1>4, <3>1 DEF AnswerOK, KeyIsFree
    <2> QED
      BY <2>1, <2>2
  <1>8. \A s \in Requests : request'[s].step # "done" => request'[s].answer = None
    BY <1>2 DEF IInv
  <1> QED
    BY <1>5, <1>6, <1>7, <1>8 DEF IInv

(***************************************************************************)
(* Types                                                                   *)
(***************************************************************************)

LEMMA RequestType ==
  ASSUME TypeOK, NEW r \in Requests, NEW q, RequestOK(q),
         request' = [request EXCEPT ![r] = q]
  PROVE  DOMAIN request' = Requests /\ \A s \in Requests : RequestOK(request'[s])
  <1>1. \A s \in Requests : request'[s] = IF s = r THEN q ELSE request[s]
    BY DEF TypeOK
  <1> QED
    BY <1>1 DEF TypeOK

LEMMA AnsweredType ==
  ASSUME TypeOK, NEW r \in Requests, NEW a, Answered(r, a),
         request[r].step \in {"listing", "sent", "holding", "filing"}
  PROVE  DOMAIN request' = Requests /\ \A s \in Requests : RequestOK(request'[s])
  <1> DEFINE q == [request[r] EXCEPT !.step = "done", !.answer = a]
  <1>1. RequestOK(request[r])
    BY DEF TypeOK
  <1>2. RequestOK(q)
    BY <1>1 DEF RequestOK, Idle
  <1> QED
    BY <1>2, RequestType DEF Answered

LEMMA RecordType ==
  ASSUME TypeOK, NEW r \in Requests, Record(r),
         request[r].step \in {"sent", "holding", "filing"}
  PROVE  /\ effect' \in [Commands -> SUBSET Requests]
         /\ stored' = [c \in Commands |-> [k \in Keys |-> stored'[c][k]]]
         /\ \A c \in Commands, k \in Keys : stored'[c][k] \in Rows(c) \cup {None}
  <1> DEFINE cmd == request[r].command
             key == request[r].key
             row == [body |-> request[r].body, by |-> r]
  <1>1. cmd \in Commands /\ key \in Keys /\ row \in Rows(cmd)
    BY DEF TypeOK, RequestOK, Rows
  <1>2. effect' \in [Commands -> SUBSET Requests]
    BY <1>1 DEF Record, TypeOK
  <1>3. \A c \in Commands : stored'[c] = IF c = cmd THEN [stored[c] EXCEPT ![key] = row] ELSE stored[c]
    BY <1>1 DEF Record, TypeOK
  <1>4. \A c \in Commands, k \in Keys :
           stored'[c][k] = IF c = cmd /\ k = key THEN row ELSE stored[c][k]
    <2>1. \A c \in Commands : DOMAIN stored[c] = Keys
      BY DEF TypeOK
    <2> QED
      BY <1>1, <1>3, <2>1
  <1>5. stored' = [c \in Commands |-> [k \in Keys |-> stored'[c][k]]]
    <2>1. DOMAIN stored' = Commands /\ stored' = [c \in Commands |-> stored'[c]]
      BY DEF Record, TypeOK
    <2>2. ASSUME NEW c \in Commands PROVE stored'[c] = [k \in Keys |-> stored'[c][k]]
      <3>1. stored[c] = [k \in Keys |-> stored[c][k]]
        BY DEF TypeOK
      <3> QED
        BY <1>3, <3>1
    <2> QED
      BY <2>1, <2>2
  <1>6. \A c \in Commands, k \in Keys : stored'[c][k] \in Rows(c) \cup {None}
    BY <1>1, <1>4 DEF TypeOK
  <1> QED
    BY <1>2, <1>5, <1>6

LEMMA TodayType ==
  ASSUME TypeOK
  PROVE  Today \in Observations
  BY MaxVersionPositive DEF TypeOK, Today, MovedOf, Observations

LEMMA TypeStep ==
  ASSUME TypeOK, Next
  PROVE  TypeOK'
  <1>1. CASE GetDriverDailyOperations
    BY <1>1, TodayType DEF GetDriverDailyOperations, TypeOK, movingVars, lockVars, caseVars, keptVars
  <1>2. ASSUME NEW r \in Requests, FairTreatmentSummary(r)
        PROVE  TypeOK'
    <2>1. RequestOK([request[r] EXCEPT !.step = "listing", !.read = appealed \ resolved])
      BY <1>2 DEF FairTreatmentSummary, TypeOK, RequestOK, Idle
    <2> QED
      BY <1>2, <2>1, RequestType
      DEF FairTreatmentSummary, TypeOK, movingVars, lockVars, caseVars, keptVars
  <1>3. ASSUME NEW r \in Requests, GetDriverFairTreatmentProjection(r)
        PROVE  TypeOK'
    <2>1. Answered(r, [counted |-> request[r].read, listed |-> appealed])
      BY <1>3 DEF GetDriverFairTreatmentProjection, Answered
    <2>2. request[r].step = "listing"
      BY <1>3 DEF GetDriverFairTreatmentProjection
    <2> QED
      BY <1>3, <2>1, <2>2, AnsweredType
      DEF GetDriverFairTreatmentProjection, TypeOK, movingVars, lockVars, caseVars, keptVars
  <1>4. ASSUME NEW r \in Requests, Send(r)
        PROVE  TypeOK'
    <2>1. PICK c \in Commands, k \in Keys : \E b \in Bodies(c) :
             request' = [request EXCEPT ![r] =
                [@ EXCEPT !.step = "sent", !.command = c, !.key = k, !.body = b]]
      BY <1>4 DEF Send
    <2>2. PICK b \in Bodies(c) :
             request' = [request EXCEPT ![r] =
                [@ EXCEPT !.step = "sent", !.command = c, !.key = k, !.body = b]]
      BY <2>1
    <2>3. b \in BodySet(c)
      BY <2>2 DEF Bodies, BodySet, TypeOK
    <2>4. RequestOK([request[r] EXCEPT !.step = "sent", !.command = c, !.key = k, !.body = b])
      BY <1>4, <2>3 DEF Send, TypeOK, RequestOK, Idle
    <2> QED
      BY <1>4, <2>2, <2>4, RequestType DEF Send, TypeOK, movingVars, lockVars, caseVars, keptVars
  <1>5. ASSUME NEW r \in Requests, Replay(r)
        PROVE  TypeOK'
    <2>1. PICK a : Answered(r, a)
      BY <1>5 DEF Replay
    <2> QED
      BY <1>5, <2>1, AnsweredType DEF Replay, TypeOK, movingVars, lockVars, caseVars, keptVars
  <1>6. ASSUME NEW r \in Requests, SubmitDriverAppeal(r)
        PROVE  TypeOK'
    <2>1. request[r].step = "sent" /\ request[r].body \in Subjects
      BY <1>6 DEF SubmitDriverAppeal, At, TypeOK, RequestOK, BodySet, Commands
    <2>2. CASE request[r].body \in appealed
      BY <1>6, <2>1, <2>2, AnsweredType
      DEF SubmitDriverAppeal, TypeOK, movingVars, lockVars, keptVars
    <2>3. CASE request[r].body \notin appealed
      <3>1. Record(r) /\ Answered(r, r)
        BY <1>6, <2>3 DEF SubmitDriverAppeal
      <3> QED
        BY <1>6, <2>1, <2>3, <3>1, AnsweredType, RecordType
        DEF SubmitDriverAppeal, TypeOK, movingVars, lockVars
    <2> QED
      BY <2>2, <2>3
  <1>7. ASSUME NEW r \in Requests, ReconcileFuture(r)
        PROVE  TypeOK'
    BY <1>7, AnsweredType DEF ReconcileFuture, At, TypeOK, movingVars, lockVars, caseVars, keptVars
  <1>8. ASSUME NEW r \in Requests, ReadAuthoritativeState(r)
        PROVE  TypeOK'
    <2>1. PICK d : request' = [request EXCEPT ![r] = [@ EXCEPT !.step = "holding", !.read = d]]
      BY <1>8 DEF ReadAuthoritativeState
    <2>2. RequestOK([request[r] EXCEPT !.step = "holding", !.read = d])
      BY <1>8 DEF ReadAuthoritativeState, At, TypeOK, RequestOK, Idle
    <2> QED
      BY <1>8, <2>1, <2>2, RequestType
      DEF ReadAuthoritativeState, TypeOK, movingVars, caseVars, keptVars
  <1>9. ASSUME NEW r \in Requests, ReconcileDriverConnectivity(r)
        PROVE  TypeOK'
    <2>1. Record(r) /\ Answered(r, r) /\ request[r].step = "holding"
      BY <1>9 DEF ReconcileDriverConnectivity
    <2>2. version' \in 0 .. MaxVersion
      BY <1>9, MaxVersionPositive DEF ReconcileDriverConnectivity, TypeOK
    <2> QED
      BY <1>9, <2>1, <2>2, AnsweredType, RecordType
      DEF ReconcileDriverConnectivity, TypeOK, caseVars
  <1>10. ASSUME NEW r \in Requests, LookUpSupportCase(r)
         PROVE  TypeOK'
    <2>1. RequestOK([request[r] EXCEPT !.step = "filing"])
      BY <1>10 DEF LookUpSupportCase, At, TypeOK, RequestOK, Idle
    <2>2. request' = [request EXCEPT ![r] = [request[r] EXCEPT !.step = "filing"]]
      BY <1>10 DEF LookUpSupportCase
    <2> QED
      BY <1>10, <2>1, <2>2, RequestType
      DEF LookUpSupportCase, TypeOK, movingVars, lockVars, caseVars, keptVars
  <1>11. ASSUME NEW r \in Requests, OpenDriverSupportCase(r)
         PROVE  TypeOK'
    <2>1. CASE KeyIsFree(r)
      <3>1. Record(r) /\ Answered(r, r) /\ request[r].step = "filing"
        BY <1>11, <2>1 DEF OpenDriverSupportCase
      <3> QED
        BY <1>11, <3>1, AnsweredType, RecordType
        DEF OpenDriverSupportCase, TypeOK, movingVars, lockVars, caseVars
    <2>2. CASE ~KeyIsFree(r)
      BY <1>11, <2>2, AnsweredType
      DEF OpenDriverSupportCase, TypeOK, movingVars, lockVars, caseVars, keptVars
    <2> QED
      BY <2>1, <2>2
  <1>12. ASSUME NEW r \in Requests, SubmitPreShiftCheck(r)
         PROVE  TypeOK'
    <2>1. Record(r) /\ Answered(r, r) /\ request[r].step = "sent"
      BY <1>12 DEF SubmitPreShiftCheck, At
    <2> QED
      BY <1>12, <2>1, AnsweredType, RecordType
      DEF SubmitPreShiftCheck, TypeOK, movingVars, lockVars, caseVars
  <1>13. ASSUME NEW r \in Requests, SubmitPreShiftConcern(r)
         PROVE  TypeOK'
    BY <1>13, AnsweredType DEF SubmitPreShiftConcern, At, TypeOK, movingVars, lockVars, caseVars, keptVars
  <1>14. CASE SetDriverAvailability
    BY <1>14, MaxVersionPositive DEF SetDriverAvailability, ChangeAvailability, TypeOK, lockVars, caseVars, keptVars
  <1>15. CASE AcceptDriverOffer
    BY <1>15, MaxVersionPositive
    DEF AcceptDriverOffer, ChangeAvailability, TypeOK, AvailabilityStatuses, lockVars, caseVars, keptVars
  <1>16. ASSUME NEW j \in Journeys, AcknowledgeDriverAssignment(j)
         PROVE  TypeOK'
    <2>1. moved' \in [Journeys -> 0 .. MaxVersion]
      BY <1>16, MaxVersionPositive DEF AcknowledgeDriverAssignment, TypeOK
    <2> QED
      BY <1>16, <2>1 DEF AcknowledgeDriverAssignment, TypeOK, lockVars, caseVars, keptVars
  <1>17. CASE AdvanceJourney
    <2>1. journey \in Journeys
      BY <1>17 DEF AdvanceJourney, TypeOK
    <2>2. moved[journey] + 1 \in 0 .. MaxVersion
      BY <1>17, <2>1, MaxVersionPositive DEF AdvanceJourney, TypeOK
    <2>3. moved' \in [Journeys -> 0 .. MaxVersion]
      BY <1>17, <2>1, <2>2 DEF AdvanceJourney, TypeOK
    <2> QED
      BY <1>17, <2>3 DEF AdvanceJourney, TypeOK, lockVars, caseVars, keptVars
  <1>18. CASE EndJourney
    BY <1>18, MaxVersionPositive
    DEF EndJourney, ChangeAvailability, TypeOK, AvailabilityStatuses, lockVars, caseVars, keptVars
  <1>19. ASSUME NEW s \in Subjects, ResolveAppeal(s)
         PROVE  TypeOK'
    BY <1>19 DEF ResolveAppeal, TypeOK, movingVars, lockVars, keptVars
  <1>20. CASE StaffRestrictVehicle
    BY <1>20 DEF StaffRestrictVehicle, TypeOK, movingVars, lockVars, keptVars
  <1> QED
    BY <1>1, <1>2, <1>3, <1>4, <1>5, <1>6, <1>7, <1>8, <1>9, <1>10, <1>11, <1>12, <1>13,
       <1>14, <1>15, <1>16, <1>17, <1>18, <1>19, <1>20 DEF Next, Serve

(***************************************************************************)
(* The inductive invariant                                                 *)
(***************************************************************************)

(* An answer that names no writer keeps the invariant. *)
LEMMA RefusedStep ==
  ASSUME IInv, TypeOK', NEW r \in Requests, NEW a, a \notin Requests, Answered(r, a),
         request[r].step \in {"listing", "sent", "filing"},
         UNCHANGED <<movingVars, lockVars, keptVars>>
  PROVE  IInv'
  <1> DEFINE q == [request[r] EXCEPT !.step = "done", !.answer = a]
  <1>1. DOMAIN request[r] = DOMAIN Idle /\ DOMAIN request = Requests
    BY DEF IInv, TypeOK, RequestOK
  <1>2. q.step = "done" /\ q.answer = a /\ request' = [request EXCEPT ![r] = q] /\ request'[r] = q
    BY <1>1 DEF Idle, Answered
  <1>3. AnswerOK(r)'
    BY <1>2 DEF AnswerOK
  <1>4. request[r].step # "done" /\ request[r].step # "holding"
    OBVIOUS
  <1> HIDE DEF q
  <1> QED
    BY <1>2, <1>3, <1>4, QuietStep

LEMMA ReplayStep ==
  ASSUME IInv, TypeOK', NEW r \in Requests, Replay(r)
  PROVE  IInv'
  <1> DEFINE kept == stored[request[r].command][request[r].key]
             a == IF kept.body = request[r].body THEN kept.by ELSE "REUSED"
             q == [request[r] EXCEPT !.step = "done", !.answer = a]
  <1>1. /\ DOMAIN request[r] = DOMAIN Idle /\ DOMAIN request = Requests
        /\ request[r].command \in Commands /\ request[r].key \in Keys
    BY DEF IInv, TypeOK, RequestOK, Replay
  <1>2. /\ q.step = "done" /\ q.answer = a /\ q.command = request[r].command /\ q.key = request[r].key
        /\ request' = [request EXCEPT ![r] = q] /\ request'[r] = q
    BY <1>1 DEF Idle, Answered, Replay
  <1>3. kept # None
    BY DEF Replay, KeyIsFree
  <1>4. a \in Requests => a = kept.by
    BY RefusalsAreNotWriters
  <1>5. AnswerOK(r)'
    BY <1>2, <1>3, <1>4 DEF AnswerOK, Replay, keptVars
  <1>6. request[r].step # "done" /\ request[r].step # "holding"
    BY DEF Replay
  <1>7. UNCHANGED <<movingVars, lockVars, keptVars>>
    BY DEF Replay
  <1> HIDE DEF q
  <1> QED
    BY <1>2, <1>5, <1>6, <1>7, QuietStep

LEMMA ReadStep ==
  ASSUME IInv, TypeOK', NEW r \in Requests, ReadAuthoritativeState(r)
  PROVE  IInv'
  <1> DEFINE row == [Today EXCEPT !.version = IF version = 0 THEN 1 ELSE version]
             state == AssessDriverConnectivity(request[r].body.signal, request[r].body.knows = row)
             read == [row |-> row, status |-> availability, state |-> state,
                      replace |-> SnapshotRequired(state)]
             q == [request[r] EXCEPT !.step = "holding", !.read = read]
  <1>1. /\ DOMAIN request[r] = DOMAIN Idle /\ DOMAIN request = Requests
        /\ request[r].step = "sent" /\ request[r].answer = None
    BY DEF IInv, TypeOK, RequestOK, ReadAuthoritativeState, At
  <1>2. /\ q.step = "holding" /\ q.read = read /\ q.answer = None
        /\ q.command = request[r].command /\ q.key = request[r].key
        /\ request' = [request EXCEPT ![r] = q] /\ request'[r] = q
    BY <1>1 DEF Idle, ReadAuthoritativeState
  <1>3. row.version = (IF version = 0 THEN 1 ELSE version) /\ row.journey = journey
    BY DEF Today
  <1>3a. request'[r].read = read
    <2> HIDE DEF q, read
    <2> QED
      BY <1>2
  <1>3b. read.status = availability /\ read.row = row
    <2> HIDE DEF row, state
    <2> QED
      OBVIOUS
  <1>4. HolderOK(r)'
    <2>1. KeyIsFree(r)'
      BY <1>2 DEF ReadAuthoritativeState, KeyIsFree, keptVars
    <2>2. /\ request'[r].read.status = availability
          /\ request'[r].read.row = row
      <3> HIDE DEF row, read, q
      <3> QED
        BY <1>3a, <1>3b
    <2>3. profileLock' = r /\ shareLock' = r /\ UNCHANGED movingVars
      BY DEF ReadAuthoritativeState
    <2> HIDE DEF row, read, q
    <2> QED
      BY <1>3, <2>1, <2>2, <2>3 DEF HolderOK, movingVars
  <1>5. AnswerOK(r)'
    BY <1>2, NoneIsFresh DEF AnswerOK
  <1>6. UNCHANGED <<movingVars, keptVars>> /\ profileLock = None
    BY DEF ReadAuthoritativeState
  <1> HIDE DEF q
  <1> QED
    BY <1>1, <1>2, <1>4, <1>5, <1>6, QuietStep

(* A step that only sends, lists or looks up. *)
LEMMA OnwardStep ==
  ASSUME IInv, TypeOK', NEW r \in Requests, NEW q,
         request' = [request EXCEPT ![r] = q],
         q.step \notin {"done", "holding"}, q.answer = request[r].answer,
         request[r].step \in {"idle", "sent"},
         UNCHANGED <<movingVars, lockVars, keptVars>>
  PROVE  IInv'
  <1>1. request'[r] = q /\ request[r].answer = None
    BY DEF IInv, TypeOK
  <1>2. AnswerOK(r)'
    BY <1>1, NoneIsFresh DEF AnswerOK
  <1> QED
    BY <1>1, <1>2, QuietStep

LEMMA NextIInv ==
  ASSUME IInv, Next
  PROVE  IInv'
  <1>0. TypeOK' /\ TypeOK
    BY TypeStep DEF IInv
  <1>1. CASE GetDriverDailyOperations
    BY <1>0, <1>1, MovingStep DEF GetDriverDailyOperations, movingVars
  <1>2. ASSUME NEW r \in Requests, FairTreatmentSummary(r)
        PROVE  IInv'
    <2> DEFINE q == [request[r] EXCEPT !.step = "listing", !.read = appealed \ resolved]
    <2>1. q.step = "listing" /\ q.answer = request[r].answer
      BY <1>0 DEF TypeOK, RequestOK, Idle
    <2>2. request' = [request EXCEPT ![r] = q]
      BY <1>2 DEF FairTreatmentSummary
    <2> HIDE DEF q
    <2> QED
      BY <1>0, <1>2, <2>1, <2>2, OnwardStep DEF FairTreatmentSummary
  <1>3. ASSUME NEW r \in Requests, GetDriverFairTreatmentProjection(r)
        PROVE  IInv'
    <2> DEFINE q == [request[r] EXCEPT !.step = "done",
                        !.answer = [counted |-> request[r].read, listed |-> appealed]]
    <2>1. /\ q.step = "done" /\ q.command = None
          /\ request[r].step = "listing"
      BY <1>0, <1>3 DEF GetDriverFairTreatmentProjection, TypeOK, RequestOK, Idle
    <2>2. request' = [request EXCEPT ![r] = q] /\ request'[r] = q
      BY <1>0, <1>3 DEF GetDriverFairTreatmentProjection, TypeOK
    <2>3. AnswerOK(r)'
      BY <2>1, <2>2, NoneIsNoRow DEF AnswerOK
    <2> HIDE DEF q
    <2> QED
      BY <1>0, <1>3, <2>1, <2>2, <2>3, QuietStep DEF GetDriverFairTreatmentProjection
  <1>4. ASSUME NEW r \in Requests, Send(r)
        PROVE  IInv'
    <2>1. PICK c \in Commands, k \in Keys : \E b \in Bodies(c) :
             request' = [request EXCEPT ![r] =
                [@ EXCEPT !.step = "sent", !.command = c, !.key = k, !.body = b]]
      BY <1>4 DEF Send
    <2>2. PICK b \in Bodies(c) :
             request' = [request EXCEPT ![r] =
                [@ EXCEPT !.step = "sent", !.command = c, !.key = k, !.body = b]]
      BY <2>1
    <2> DEFINE q == [request[r] EXCEPT !.step = "sent", !.command = c, !.key = k, !.body = b]
    <2>3. q.step = "sent" /\ q.answer = request[r].answer
      BY <1>0 DEF TypeOK, RequestOK, Idle
    <2>4. request' = [request EXCEPT ![r] = q]
      BY <2>2
    <2> HIDE DEF q
    <2> QED
      BY <1>0, <1>4, <2>3, <2>4, OnwardStep DEF Send
  <1>5. ASSUME NEW r \in Requests, Replay(r)
        PROVE  IInv'
    BY <1>0, <1>5, ReplayStep
  <1>6. ASSUME NEW r \in Requests, SubmitDriverAppeal(r)
        PROVE  IInv'
    <2>1. CASE request[r].body \in appealed
      BY <1>0, <1>6, <2>1, RefusedStep, RefusalsAreNotWriters DEF SubmitDriverAppeal, At
    <2>2. CASE request[r].body \notin appealed
      <3>1. Record(r) /\ Answered(r, r) /\ KeyIsFree(r) /\ request[r].step = "sent"
        BY <1>6, <2>2 DEF SubmitDriverAppeal, At
      <3>2. \A s \in Requests \ {r} : request[s].step # "holding"
        BY <1>6, NoneIsFresh DEF SubmitDriverAppeal, IInv, HolderOK
      <3> QED
        BY <1>0, <3>1, <3>2, WritingStep
    <2> QED
      BY <2>1, <2>2
  <1>7. ASSUME NEW r \in Requests, ReconcileFuture(r)
        PROVE  IInv'
    BY <1>0, <1>7, RefusedStep, RefusalsAreNotWriters DEF ReconcileFuture, At
  <1>8. ASSUME NEW r \in Requests, ReadAuthoritativeState(r)
        PROVE  IInv'
    BY <1>0, <1>8, ReadStep
  <1>9. ASSUME NEW r \in Requests, ReconcileDriverConnectivity(r)
        PROVE  IInv'
    <2>1. Record(r) /\ Answered(r, r) /\ request[r].step = "holding"
      BY <1>9 DEF ReconcileDriverConnectivity
    <2>2. KeyIsFree(r) /\ profileLock = r
      BY <2>1 DEF IInv, HolderOK
    <2>3. \A s \in Requests \ {r} : request[s].step # "holding"
      BY <2>2 DEF IInv, HolderOK
    <2> QED
      BY <1>0, <2>1, <2>2, <2>3, WritingStep
  <1>10. ASSUME NEW r \in Requests, LookUpSupportCase(r)
         PROVE  IInv'
    <2> DEFINE q == [request[r] EXCEPT !.step = "filing"]
    <2>1. q.step = "filing" /\ q.answer = request[r].answer
      BY <1>0 DEF TypeOK, RequestOK, Idle
    <2>2. request' = [request EXCEPT ![r] = q]
      BY <1>10 DEF LookUpSupportCase
    <2> HIDE DEF q
    <2> QED
      BY <1>0, <1>10, <2>1, <2>2, OnwardStep DEF LookUpSupportCase, At
  <1>11. ASSUME NEW r \in Requests, OpenDriverSupportCase(r)
         PROVE  IInv'
    <2>1. CASE KeyIsFree(r)
      <3>1. Record(r) /\ Answered(r, r) /\ request[r].step = "filing"
        BY <1>11, <2>1 DEF OpenDriverSupportCase
      <3>2. request[r].command # "ReconcileDriverConnectivity"
        BY <1>0, <3>1 DEF TypeOK, RequestOK
      <3> QED
        BY <1>0, <1>11, <2>1, <3>1, <3>2, WritingStep DEF OpenDriverSupportCase
    <2>2. CASE ~KeyIsFree(r)
      BY <1>0, <1>11, <2>2, RefusedStep, RefusalsAreNotWriters DEF OpenDriverSupportCase
    <2> QED
      BY <2>1, <2>2
  <1>12. ASSUME NEW r \in Requests, SubmitPreShiftCheck(r)
         PROVE  IInv'
    <2>1. /\ Record(r) /\ Answered(r, r) /\ KeyIsFree(r) /\ request[r].step = "sent"
          /\ request[r].command # "ReconcileDriverConnectivity"
      BY <1>12 DEF SubmitPreShiftCheck, At
    <2> QED
      BY <1>0, <1>12, <2>1, WritingStep DEF SubmitPreShiftCheck
  <1>13. ASSUME NEW r \in Requests, SubmitPreShiftConcern(r)
         PROVE  IInv'
    BY <1>0, <1>13, RefusedStep, RefusalsAreNotWriters DEF SubmitPreShiftConcern, At
  <1>14. CASE SetDriverAvailability
    BY <1>0, <1>14, MovingStep DEF SetDriverAvailability, ChangeAvailability
  <1>15. CASE AcceptDriverOffer
    BY <1>0, <1>15, MovingStep DEF AcceptDriverOffer, ChangeAvailability
  <1>16. ASSUME NEW j \in Journeys, AcknowledgeDriverAssignment(j)
         PROVE  IInv'
    BY <1>0, <1>16, MovingStep DEF AcknowledgeDriverAssignment
  <1>17. CASE AdvanceJourney
    BY <1>0, <1>17, MovingStep DEF AdvanceJourney
  <1>18. CASE EndJourney
    BY <1>0, <1>18, MovingStep DEF EndJourney, ChangeAvailability
  <1>19. ASSUME NEW s \in Subjects, ResolveAppeal(s)
         PROVE  IInv'
    BY <1>0, <1>19, MovingStep DEF ResolveAppeal, movingVars
  <1>20. CASE StaffRestrictVehicle
    BY <1>0, <1>20, MovingStep DEF StaffRestrictVehicle, movingVars
  <1> QED
    BY <1>1, <1>2, <1>3, <1>4, <1>5, <1>6, <1>7, <1>8, <1>9, <1>10, <1>11, <1>12, <1>13,
       <1>14, <1>15, <1>16, <1>17, <1>18, <1>19, <1>20 DEF Next, Serve

LEMMA StutterIInv ==
  ASSUME IInv, UNCHANGED vars
  PROVE  IInv'
  <1>1. TypeOK'
    BY DEF IInv, TypeOK, vars, movingVars, lockVars, caseVars, keptVars
  <1> QED
    BY <1>1, MovingStep DEF vars, movingVars

THEOREM Invariance == Spec => []IInv
  <1>1. Init => IInv
    BY InitIInv
  <1>2. IInv /\ [Next]_vars => IInv'
    BY NextIInv, StutterIInv
  <1> QED
    BY <1>1, <1>2, PTL DEF Spec

(***************************************************************************)
(* Theorems                                                                *)
(***************************************************************************)

(* The rows, the locks and the requests of the module keep their types     *)
(* whatever its commands and the other components do.                      *)
THEOREM CareTypes == Spec => []TypeOK
  BY Invariance, PTL DEF IInv

(* Two requests under one key of one command write at most once, and every *)
(* answer they give is that of the one that wrote (the deduplication rows  *)
(* of the three services).                                                 *)
THEOREM KeysHaveOneEffect == Spec => []OneEffectPerKey
  <1>1. IInv => OneEffectPerKey
    <2> SUFFICES ASSUME IInv, NEW c \in Commands, NEW k \in Keys
                 PROVE  /\ \A r \in effect[c] :
                              request[r].key = k => stored[c][k] # None /\ stored[c][k].by = r
                        /\ \A r \in Requests :
                              request[r].command = c /\ request[r].key = k /\ request[r].answer \in Requests
                                 => stored[c][k] # None /\ stored[c][k].by = request[r].answer
      BY DEF OneEffectPerKey
    <2>1. \A r \in effect[c] :
             request[r].key = k => stored[c][k] # None /\ stored[c][k].by = r
      BY DEF IInv, WriterOK
    <2>2. \A r \in Requests :
             request[r].command = c /\ request[r].key = k /\ request[r].answer \in Requests
                => stored[c][k] # None /\ stored[c][k].by = request[r].answer
      BY DEF IInv, AnswerOK
    <2> QED
      BY <2>1, <2>2
  <1> QED
    BY <1>1, Invariance, PTL

LEMMA OnlyTheCommitReconciles ==
  ASSUME IInv, Next, NEW r \in Requests,
         r \in effect'["ReconcileDriverConnectivity"], r \notin effect["ReconcileDriverConnectivity"]
  PROVE  ReconcileDriverConnectivity(r)
  <1>1. \E s \in Requests :
           \/ ReconcileDriverConnectivity(s)
           \/ Record(s) /\ request[s].command # "ReconcileDriverConnectivity"
    BY DEF Next, Serve, GetDriverDailyOperations, FairTreatmentSummary, GetDriverFairTreatmentProjection,
           Send, Replay, SubmitDriverAppeal, ReconcileFuture, ReadAuthoritativeState,
           LookUpSupportCase, OpenDriverSupportCase, SubmitPreShiftCheck,
           SubmitPreShiftConcern, SetDriverAvailability, AcceptDriverOffer, AcknowledgeDriverAssignment,
           AdvanceJourney, EndJourney, ResolveAppeal, StaffRestrictVehicle, keptVars,
           At, IInv, TypeOK, RequestOK
  <1>2. PICK s \in Requests :
           \/ ReconcileDriverConnectivity(s)
           \/ Record(s) /\ request[s].command # "ReconcileDriverConnectivity"
    BY <1>1
  <1>3. Record(s)
    BY <1>2 DEF ReconcileDriverConnectivity
  <1>4. effect'["ReconcileDriverConnectivity"] \subseteq effect["ReconcileDriverConnectivity"] \cup {s}
    BY <1>3 DEF Record, IInv, TypeOK
  <1>5. request[s].command = "ReconcileDriverConnectivity" /\ s = r
    BY <1>3, <1>4 DEF Record, IInv, TypeOK
  <1> QED
    BY <1>2, <1>5

(* What a reconciliation records of the availability and of the Journey is *)
(* so when it commits: the shared lock of the availability row also keeps  *)
(* a Journey from ending in between.                                       *)
THEOREM SnapshotsAreCurrent == Spec => ReconciledSnapshotIsCurrent
  <1>1. ASSUME IInv, [Next]_vars, NEW r \in Requests,
               r \in effect'["ReconcileDriverConnectivity"] \ effect["ReconcileDriverConnectivity"]
        PROVE  SnapshotIsCurrent(r)
    <2>1. Next
      BY <1>1 DEF vars, keptVars
    <2>2. ReconcileDriverConnectivity(r)
      BY <1>1, <2>1, OnlyTheCommitReconciles
    <2>3. HolderOK(r)
      BY <1>1, <2>2 DEF IInv, ReconcileDriverConnectivity
    <2> QED
      BY <2>2, <2>3 DEF HolderOK, ReconcileDriverConnectivity, SnapshotIsCurrent
  <1>2. IInv /\ [Next]_vars =>
           [\A r \in Requests :
              r \in effect'["ReconcileDriverConnectivity"] \ effect["ReconcileDriverConnectivity"]
                 => SnapshotIsCurrent(r)]_vars
    BY <1>1
  <1> QED
    BY <1>2, Invariance, PTL DEF Spec, ReconciledSnapshotIsCurrent

(***************************************************************************)
(* The two statements of the fair-treatment screen                         *)
(***************************************************************************)

(* What a screen has read is appealed still, and what it shows is listed. *)
ScreenOK(q, subjects) ==
    /\ q.step = "listing" => q.read \subseteq subjects
    /\ q.command = None /\ q.step = "done" => q.answer.counted \subseteq q.answer.listed

ScreensInv == \A r \in Requests : ScreenOK(request[r], appealed)

(* A step of one request leaves the other screens as they are, for no appeal *)
(* is ever taken back.                                                       *)
LEMMA ScreensKept ==
  ASSUME TypeOK, ScreensInv, NEW r \in Requests, NEW q,
         request' = [request EXCEPT ![r] = q],
         appealed \subseteq appealed', ScreenOK(q, appealed')
  PROVE  ScreensInv'
  <1> SUFFICES ASSUME NEW s \in Requests
               PROVE  ScreenOK(request'[s], appealed')
    BY DEF ScreensInv
  <1>1. CASE s = r
    <2>1. request'[s] = q
      BY <1>1 DEF TypeOK
    <2> QED
      BY <2>1 DEF ScreenOK
  <1>2. CASE s # r
    <2>1. request'[s] = request[s] /\ ScreenOK(request[s], appealed)
      BY <1>2 DEF TypeOK, ScreensInv
    <2> QED
      BY <2>1 DEF ScreenOK
  <1> QED
    BY <1>1, <1>2

LEMMA CommandIsNoScreen ==
  ASSUME TypeOK, ScreensInv, NEW r \in Requests, NEW a,
         request[r].step \in {"sent", "holding", "filing"},
         Answered(r, a), appealed \subseteq appealed'
  PROVE  ScreensInv'
  <1> DEFINE q == [request[r] EXCEPT !.step = "done", !.answer = a]
  <1>1. request[r].command # None /\ DOMAIN request[r] = DOMAIN Idle
    BY NoneIsNoRow DEF TypeOK, RequestOK
  <1>2. q.step = "done" /\ q.command # None
    BY <1>1 DEF Idle
  <1>3. request' = [request EXCEPT ![r] = q]
    BY DEF Answered
  <1> HIDE DEF q
  <1>4. ScreenOK(q, appealed')
    BY <1>2 DEF ScreenOK
  <1> QED
    BY <1>3, <1>4, ScreensKept

LEMMA ServeKeepsScreens ==
  ASSUME TypeOK, ScreensInv, NEW r \in Requests, Serve(r)
  PROVE  ScreensInv'
  <1>0. DOMAIN request[r] = DOMAIN Idle
    BY DEF TypeOK, RequestOK
  <1>1. CASE FairTreatmentSummary(r)
    <2> DEFINE q == [request[r] EXCEPT !.step = "listing", !.read = appealed \ resolved]
    <2>1. q.step = "listing" /\ q.read = appealed \ resolved
      BY <1>0 DEF Idle
    <2>2. request' = [request EXCEPT ![r] = q] /\ appealed' = appealed
      BY <1>1 DEF FairTreatmentSummary, caseVars
    <2> HIDE DEF q
    <2>3. ScreenOK(q, appealed')
      BY <2>1, <2>2 DEF ScreenOK
    <2> QED
      BY <2>2, <2>3, ScreensKept
  <1>2. CASE GetDriverFairTreatmentProjection(r)
    <2> DEFINE a == [counted |-> request[r].read, listed |-> appealed]
               q == [request[r] EXCEPT !.step = "done", !.answer = a]
    <2>1. q.step = "done" /\ q.answer = a
      BY <1>0 DEF Idle
    <2>2. a.counted \subseteq a.listed
      BY <1>2 DEF GetDriverFairTreatmentProjection, ScreensInv, ScreenOK
    <2>3. request' = [request EXCEPT ![r] = q] /\ appealed' = appealed
      BY <1>2 DEF GetDriverFairTreatmentProjection, caseVars
    <2> HIDE DEF q, a
    <2>4. ScreenOK(q, appealed')
      BY <2>1, <2>2 DEF ScreenOK
    <2> QED
      BY <2>3, <2>4, ScreensKept
  <1>3. CASE Send(r)
    <2>1. PICK c \in Commands, k \in Keys : \E b \in Bodies(c) :
             request' = [request EXCEPT ![r] =
                [@ EXCEPT !.step = "sent", !.command = c, !.key = k, !.body = b]]
      BY <1>3 DEF Send
    <2>2. PICK b \in Bodies(c) :
             request' = [request EXCEPT ![r] =
                [@ EXCEPT !.step = "sent", !.command = c, !.key = k, !.body = b]]
      BY <2>1
    <2> DEFINE q == [request[r] EXCEPT !.step = "sent", !.command = c, !.key = k, !.body = b]
    <2>3. q.step = "sent"
      BY <1>0 DEF Idle
    <2>4. request' = [request EXCEPT ![r] = q] /\ appealed' = appealed
      BY <1>3, <2>2 DEF Send, caseVars
    <2> HIDE DEF q
    <2>5. ScreenOK(q, appealed')
      BY <2>3 DEF ScreenOK
    <2> QED
      BY <2>4, <2>5, ScreensKept
  <1>4. CASE Replay(r)
    <2>1. PICK a : Answered(r, a)
      BY <1>4 DEF Replay
    <2> QED
      BY <1>4, <2>1, CommandIsNoScreen DEF Replay, caseVars
  <1>5. CASE SubmitDriverAppeal(r)
    <2>1. appealed \subseteq appealed'
      BY <1>5 DEF SubmitDriverAppeal
    <2>2. PICK a : Answered(r, a)
      BY <1>5 DEF SubmitDriverAppeal
    <2> QED
      BY <1>5, <2>1, <2>2, CommandIsNoScreen DEF SubmitDriverAppeal, At
  <1>6. CASE ReconcileFuture(r)
    BY <1>6, CommandIsNoScreen DEF ReconcileFuture, At, caseVars
  <1>7. CASE ReadAuthoritativeState(r)
    <2>1. PICK read :
             request' = [request EXCEPT ![r] = [@ EXCEPT !.step = "holding", !.read = read]]
      BY <1>7 DEF ReadAuthoritativeState
    <2> DEFINE q == [request[r] EXCEPT !.step = "holding", !.read = read]
    <2>2. q.step = "holding"
      BY <1>0 DEF Idle
    <2>3. request' = [request EXCEPT ![r] = q] /\ appealed' = appealed
      BY <1>7, <2>1 DEF ReadAuthoritativeState, caseVars
    <2> HIDE DEF q
    <2>4. ScreenOK(q, appealed')
      BY <2>2 DEF ScreenOK
    <2> QED
      BY <2>3, <2>4, ScreensKept
  <1>8. CASE ReconcileDriverConnectivity(r)
    BY <1>8, CommandIsNoScreen DEF ReconcileDriverConnectivity, caseVars
  <1>9. CASE LookUpSupportCase(r)
    <2> DEFINE q == [request[r] EXCEPT !.step = "filing"]
    <2>1. q.step = "filing"
      BY <1>0 DEF Idle
    <2>2. request' = [request EXCEPT ![r] = q] /\ appealed' = appealed
      BY <1>9 DEF LookUpSupportCase, caseVars
    <2> HIDE DEF q
    <2>3. ScreenOK(q, appealed')
      BY <2>1 DEF ScreenOK
    <2> QED
      BY <2>2, <2>3, ScreensKept
  <1>10. CASE OpenDriverSupportCase(r)
    <2>1. PICK a : Answered(r, a)
      BY <1>10 DEF OpenDriverSupportCase
    <2> QED
      BY <1>10, <2>1, CommandIsNoScreen DEF OpenDriverSupportCase, caseVars
  <1>11. CASE SubmitPreShiftCheck(r)
    BY <1>11, CommandIsNoScreen DEF SubmitPreShiftCheck, At, caseVars
  <1>12. CASE SubmitPreShiftConcern(r)
    BY <1>12, CommandIsNoScreen DEF SubmitPreShiftConcern, At, caseVars
  <1> QED
    BY <1>1, <1>2, <1>3, <1>4, <1>5, <1>6, <1>7, <1>8, <1>9, <1>10, <1>11, <1>12 DEF Serve

(* The fair-treatment screen counts no open appeal that its list leaves out: *)
(* the summary is read first, and an appeal that was counted is never        *)
(* deleted before the list is read.                                          *)
THEOREM CountedAppealsAreListed == Spec => []AppealsCountedAreListed
  <1>1. Init => ScreensInv
    <2> SUFFICES ASSUME Init, NEW r \in Requests
                 PROVE  ScreenOK(request[r], appealed)
      BY DEF ScreensInv
    <2>1. request[r] = Idle
      BY DEF Init
    <2>2. Idle.step = "idle"
      BY DEF Idle
    <2> QED
      BY <2>1, <2>2 DEF ScreenOK
  <1>2. TypeOK /\ ScreensInv /\ [Next]_vars => ScreensInv'
    <2> SUFFICES ASSUME TypeOK, ScreensInv, [Next]_vars
                 PROVE  ScreensInv'
      OBVIOUS
    <2>1. ASSUME NEW r \in Requests, Serve(r)
          PROVE  ScreensInv'
      BY <2>1, ServeKeepsScreens
    <2>2. ASSUME UNCHANGED <<appealed, request>>
          PROVE  ScreensInv'
      BY <2>2 DEF ScreensInv, ScreenOK
    <2> QED
      BY <2>1, <2>2
      DEF Next, vars, caseVars, GetDriverDailyOperations, SetDriverAvailability, AcceptDriverOffer,
          AcknowledgeDriverAssignment, AdvanceJourney, EndJourney, ResolveAppeal, StaffRestrictVehicle
  <1>3. ScreensInv => AppealsCountedAreListed
    BY DEF ScreensInv, ScreenOK, AppealsCountedAreListed
  <1> QED
    BY <1>1, <1>2, <1>3, CareTypes, PTL DEF Spec

(***************************************************************************)
(* The application of the Driver, and the readers of the evidence          *)
(***************************************************************************)

(* There is one application at most, and the profile, the answers and the  *)
(* version a start has to find go with it.                                 *)
OneApplication(a) ==
    /\ profile = a.status
    /\ a.version <= ApplicationVersions
    /\ a.status = "STARTED" => a.version = 1
    /\ \A k \in StartKeys : answers[k] # NoAnswer => answers[k] <= a.version

ApplicationInv ==
    /\ StandingTypeOK
    /\ \/ applications = <<>> /\ profile = "NOT_STARTED" /\ \A k \in StartKeys : answers[k] = NoAnswer
       \/ \E a \in Application : applications = <<a>> /\ OneApplication(a)

LEMMA StartedIsTheFirst ==
  ASSUME NEW from \in ApplicationStatuses
  PROVE  /\ "STARTED" \notin Transitions(from)
         /\ Transitions(from) \subseteq ApplicationStatuses
         /\ from = "STARTED" => "CONTACT_VERIFIED" \in Transitions(from)
  BY DEF Transitions, ApplicationStatuses, Evidenced, Closed

(* Once there is an application a start is accepted, for it writes the     *)
(* profile once at most; a first start writes it twice when the contact is *)
(* verified.  What a start makes of the application fits it.               *)
LEMMA ResumedFits ==
  ASSUME ApplicationInv
  PROVE  /\ StartAccepted <=> (applications # <<>> \/ contact # "VERIFIED")
         /\ \E a \in Application :
               /\ Found = <<a>>
               /\ CurrentApplication(Found) = a
               /\ Resumed(a) \in Application
               /\ Resumed(a).version \in 1 .. ApplicationVersions
               /\ a.version <= Resumed(a).version
               /\ Resumed(a).status = "STARTED" => Resumed(a).version = 1
               /\ Resumed(a) = a \/ Resumed(a).status # a.status
  <1>1. PICK a \in Application :
           /\ Found = <<a>>
           /\ a.version <= ApplicationVersions
           /\ a.status = "STARTED" => a.version = 1
           /\ applications = <<>> => profile = "NOT_STARTED" /\ a.status = "STARTED"
    <2>1. CASE applications = <<>>
      <3>1. [status |-> "STARTED", version |-> 1] \in Application
        BY DEF Application, ApplicationStatuses
      <3> QED
        BY <2>1, <3>1, StandingAssumption DEF Found, ApplicationInv
    <2>2. CASE applications # <<>>
      BY <2>2 DEF ApplicationInv, OneApplication, Found
    <2> QED
      BY <2>1, <2>2
  <1>2. CurrentApplication(Found) = a
    BY <1>1 DEF CurrentApplication
  <1>3. ProfileWrites = (IF applications = <<>> THEN {"STARTED"} ELSE {})
                          \cup (IF Resumed(a) # a THEN {Resumed(a).status} ELSE {})
    BY <1>2 DEF ProfileWrites
  <1>4. CASE a.status = "STARTED" /\ contact = "VERIFIED"
    <2> DEFINE b == [status |-> "CONTACT_VERIFIED", version |-> 2]
    <2>1. Resumed(a) = b /\ b \in Application /\ b.status = "CONTACT_VERIFIED" /\ b.version = 2
      BY <1>4 DEF Resumed, Application, ApplicationStatuses
    <2> HIDE DEF b
    <2>2. "CONTACT_VERIFIED" \in Transitions(a.status)
      BY <1>4, StartedIsTheFirst DEF Application
    <2>3. UpdateAccepted(a, b)
      BY <1>1, <1>4, <2>1, <2>2 DEF UpdateAccepted
    <2>4. ProjectsAtCommit(ProfileWrites, b) <=> applications # <<>>
      <3>1. CASE applications = <<>>
        <4>1. "STARTED" \in ProfileWrites
          BY <1>3, <3>1
        <4> QED
          BY <2>1, <3>1, <4>1 DEF ProjectsAtCommit
      <3>2. CASE applications # <<>>
        BY <1>3, <2>1, <3>2 DEF ProjectsAtCommit
      <3> QED
        BY <3>1, <3>2
    <2> QED
      BY <1>1, <1>2, <1>4, <2>1, <2>3, <2>4, StandingAssumption DEF StartAccepted
  <1>5. CASE ~(a.status = "STARTED" /\ contact = "VERIFIED")
    <2>1. Resumed(a) = a
      BY <1>5 DEF Resumed
    <2>2. UpdateAccepted(a, a)
      BY DEF UpdateAccepted
    <2>3. ProjectsAtCommit(ProfileWrites, a)
      BY <1>1, <1>3, <2>1 DEF ProjectsAtCommit
    <2>4. applications # <<>> \/ contact # "VERIFIED"
      BY <1>1, <1>5
    <2> QED
      BY <1>1, <1>2, <2>4, <2>1, <2>2, <2>3, StandingAssumption DEF StartAccepted, Application
  <1> QED
    BY <1>4, <1>5

LEMMA StartKeepsApplication ==
  ASSUME ApplicationInv, NEW k \in StartKeys, StartOrResumeDriverApplication(k)
  PROVE  ApplicationInv'
  <1>1. PICK a \in Application :
           /\ Found = <<a>>
           /\ CurrentApplication(Found) = a
           /\ Resumed(a) \in Application
           /\ Resumed(a).version \in 1 .. ApplicationVersions
           /\ a.version <= Resumed(a).version
           /\ Resumed(a).status = "STARTED" => Resumed(a).version = 1
           /\ Resumed(a) = a \/ Resumed(a).status # a.status
    BY ResumedFits
  <1>0. PICK b \in Application : b = Resumed(a)
    BY <1>1
  <1>2. CurrentApplication(Found) = a /\ Len(Found) = 1
    BY <1>1 DEF CurrentApplication
  <1>3. applications' = <<b>>
    BY <1>0, <1>1, <1>2 DEF StartOrResumeDriverApplication
  <1>4. profile' = b.status
    <2>1. CASE ProfileWrites # {}
      BY <1>0, <1>2, <2>1 DEF StartOrResumeDriverApplication
    <2>2. CASE ProfileWrites = {}
      <3>0. applications # <<>> /\ a = b
        BY <1>0, <1>2, <2>2 DEF ProfileWrites
      <3>1. applications = <<b>> /\ profile' = profile
        BY <1>1, <2>2, <3>0 DEF StartOrResumeDriverApplication, Found
      <3>2. PICK c \in Application : applications = <<c>> /\ OneApplication(c)
        BY <3>1 DEF ApplicationInv
      <3>3. c = b
        BY <3>1, <3>2
      <3> QED
        BY <3>1, <3>2, <3>3 DEF OneApplication
    <2> QED
      BY <2>1, <2>2
  <1>5. answers' = [answers EXCEPT ![k] = b.version] /\ UNCHANGED <<contact, changes>>
    BY <1>0, <1>2 DEF StartOrResumeDriverApplication
  <1>6. \A l \in StartKeys : answers[l] # NoAnswer => answers[l] <= a.version
    <2>1. CASE applications = <<>>
      BY <2>1 DEF ApplicationInv
    <2>2. CASE applications # <<>>
      <3>1. PICK c \in Application : applications = <<c>> /\ OneApplication(c)
        BY <2>2 DEF ApplicationInv
      <3>2. c = a
        BY <1>1, <2>2, <3>1 DEF Found
      <3> QED
        BY <3>1, <3>2 DEF OneApplication
    <2> QED
      BY <2>1, <2>2
  <1>7. b \in Application /\ b.version \in 1 .. ApplicationVersions /\ a.version <= b.version
        /\ (b.status = "STARTED" => b.version = 1)
    BY <1>0, <1>1
  <1>8. a.version \in Nat /\ b.version \in Nat /\ b.status \in ApplicationStatuses
    BY <1>7 DEF Application
  <1>9. /\ answers \in [StartKeys -> 1..ApplicationVersions \cup {NoAnswer}]
        /\ contact \in {"UNVERIFIED", "VERIFIED", "WITHDRAWN"} /\ changes \in 0..MaxChanges
    BY DEF ApplicationInv, StandingTypeOK
  <1>10. answers' \in [StartKeys -> 1..ApplicationVersions \cup {NoAnswer}]
    BY <1>5, <1>7, <1>9
  <1>11. \A l \in StartKeys : answers'[l] # NoAnswer => answers'[l] <= b.version
    <2> SUFFICES ASSUME NEW l \in StartKeys, answers'[l] # NoAnswer
                 PROVE  answers'[l] <= b.version
      OBVIOUS
    <2>1. CASE l = k
      BY <1>5, <1>8, <1>9, <2>1
    <2>2. CASE l # k
      <3>1. answers'[l] = answers[l] /\ answers[l] \in 1..ApplicationVersions /\ answers[l] <= a.version
        BY <1>5, <1>6, <1>9, <2>2
      <3> QED
        BY <1>7, <1>8, <3>1, StandingAssumption
    <2> QED
      BY <2>1, <2>2
  <1>12. OneApplication(b)'
    BY <1>3, <1>4, <1>7, <1>8, <1>11, StandingAssumption DEF OneApplication
  <1> QED
    BY <1>3, <1>4, <1>5, <1>7, <1>8, <1>9, <1>10, <1>12 DEF ApplicationInv, StandingTypeOK

LEMMA StaffKeepsApplication ==
  ASSUME ApplicationInv, NEW to \in ApplicationStatuses, StaffMovesApplication(to)
  PROVE  ApplicationInv'
  <1>1. PICK a \in Application : applications = <<a>> /\ OneApplication(a)
    BY DEF ApplicationInv, StaffMovesApplication
  <1> DEFINE b == [status |-> to, version |-> a.version + 1]
  <1>2. CurrentApplication(applications) = a /\ Len(applications) = 1
    BY <1>1 DEF CurrentApplication
  <1>3. /\ applications' = <<b>>
        /\ a.version < ApplicationVersions
        /\ to # a.status /\ UpdateAccepted(a, b)
        /\ profile' = to
        /\ UNCHANGED <<contact, answers, changes>>
    BY <1>1, <1>2 DEF StaffMovesApplication
  <1>4. to # "STARTED"
    BY <1>3, StartedIsTheFirst DEF UpdateAccepted, Application
  <1>5. b \in Application /\ b.status = to /\ b.version = a.version + 1 /\ a.version \in Nat
    BY DEF Application
  <1> HIDE DEF b
  <1>6. /\ answers \in [StartKeys -> 1..ApplicationVersions \cup {NoAnswer}]
        /\ contact \in {"UNVERIFIED", "VERIFIED", "WITHDRAWN"} /\ changes \in 0..MaxChanges
    BY DEF ApplicationInv, StandingTypeOK
  <1>7. \A k \in StartKeys : answers[k] # NoAnswer => answers[k] <= b.version
    <2> SUFFICES ASSUME NEW k \in StartKeys, answers[k] # NoAnswer
                 PROVE  answers[k] <= b.version
      OBVIOUS
    <2>1. answers[k] \in 1..ApplicationVersions /\ answers[k] <= a.version
      BY <1>1, <1>6 DEF OneApplication
    <2> QED
      BY <1>5, <2>1, StandingAssumption
  <1>8. OneApplication(b)'
    BY <1>3, <1>4, <1>5, <1>7, StandingAssumption DEF OneApplication
  <1> QED
    BY <1>3, <1>5, <1>6, <1>8 DEF ApplicationInv, StandingTypeOK

LEMMA SeedKeepsApplication ==
  ASSUME ApplicationInv, SeedDemoDriver
  PROVE  ApplicationInv'
  <1> DEFINE b == [status |-> "APPROVED", version |-> 1]
  <1>1. b \in Application /\ b.status = "APPROVED" /\ b.version = 1
    BY DEF Application, ApplicationStatuses
  <1>2. applications' = <<b>> /\ profile' = "APPROVED" /\ UNCHANGED <<contact, answers, changes>>
    BY DEF SeedDemoDriver
  <1> HIDE DEF b
  <1>3. \A k \in StartKeys : answers[k] = NoAnswer
    BY DEF ApplicationInv, SeedDemoDriver
  <1>4. OneApplication(b)'
    BY <1>1, <1>2, <1>3, StandingAssumption DEF OneApplication
  <1>5. applications' \in Seq(Application)
    BY <1>1, <1>2
  <1>6. profile' \in ApplicationStatuses \cup {"NOT_STARTED"}
    BY <1>2 DEF ApplicationStatuses
  <1>7. StandingTypeOK'
    BY <1>2, <1>5, <1>6 DEF ApplicationInv, StandingTypeOK
  <1> QED
    BY <1>1, <1>2, <1>4, <1>7 DEF ApplicationInv

LEMMA ApplicationInvariance == StandingSpec => []ApplicationInv
  <1>1. StandingInit => ApplicationInv
    <2> SUFFICES ASSUME StandingInit PROVE ApplicationInv
      OBVIOUS
    <2>1. /\ applications = <<>> /\ profile = "NOT_STARTED" /\ contact = "UNVERIFIED" /\ changes = 0
          /\ answers = [k \in StartKeys |-> NoAnswer]
      BY DEF StandingInit
    <2>2. applications \in Seq(Application)
      BY <2>1
    <2>5. changes \in 0..MaxChanges
      BY <2>1, StandingAssumption
    <2>6. contact \in {"UNVERIFIED", "VERIFIED", "WITHDRAWN"}
      BY <2>1
    <2>3. \A k \in StartKeys : answers[k] = NoAnswer
      BY <2>1
    <2>4. answers \in [StartKeys -> 1..ApplicationVersions \cup {NoAnswer}]
      BY <2>1
    <2> QED
      BY <2>1, <2>2, <2>3, <2>4, <2>5, <2>6 DEF ApplicationInv, StandingTypeOK
  <1>2. ApplicationInv /\ [StandingNext]_standingVars => ApplicationInv'
    <2> SUFFICES ASSUME ApplicationInv, [StandingNext]_standingVars
                 PROVE  ApplicationInv'
      OBVIOUS
    <2>1. ASSUME NEW k \in StartKeys, StartOrResumeDriverApplication(k)
          PROVE  ApplicationInv'
      BY <2>1, StartKeepsApplication
    <2>2. ASSUME NEW to \in ApplicationStatuses, StaffMovesApplication(to)
          PROVE  ApplicationInv'
      BY <2>2, StaffKeepsApplication
    <2>3. ASSUME UNCHANGED <<applications, profile, answers>>,
                 contact' \in {"UNVERIFIED", "VERIFIED", "WITHDRAWN"}, changes' \in 0..MaxChanges
          PROVE  ApplicationInv'
      BY <2>3 DEF ApplicationInv, StandingTypeOK, OneApplication
    <2>4. CASE VerifyContact \/ ContactChanges
      BY <2>3, <2>4 DEF VerifyContact, ContactChanges, ApplicationInv, StandingTypeOK
    <2>5. CASE EvidenceChanges
      <3>1. UNCHANGED <<applications, profile, answers, contact>> /\ changes' \in 0..MaxChanges
        BY <2>5, StandingAssumption
        DEF EvidenceChanges, applicationVars, ApplicationInv, StandingTypeOK
      <3> QED
        BY <2>3, <3>1 DEF ApplicationInv, StandingTypeOK
    <2>6. CASE UNCHANGED standingVars
      BY <2>3, <2>6 DEF standingVars, applicationVars, ApplicationInv, StandingTypeOK
    <2>7. CASE SeedDemoDriver
      BY <2>7, SeedKeepsApplication
    <2> QED
      BY <2>1, <2>2, <2>4, <2>5, <2>6, <2>7 DEF StandingNext
  <1> QED
    BY <1>1, <1>2, PTL DEF StandingSpec

(* Every reachable state of the application is well typed. *)
THEOREM StandingTypes == StandingSpec => []StandingTypeOK
  <1>1. ApplicationInv => StandingTypeOK
    BY DEF ApplicationInv
  <1> QED
    BY <1>1, ApplicationInvariance, PTL

(* A Driver who has an application and starts again is answered with the   *)
(* one application, which the profile follows and no answer is ahead of,   *)
(* whatever the staff has made of it and whatever has become of the        *)
(* contact (startOrResumeDriverApplication and the triggers, the deferred  *)
(* one among them).  A first start is accepted exactly when the contact is *)
(* not verified: with a verified one the deferred trigger refuses it.      *)
THEOREM ApplicationsResume == StandingSpec => []ApplicationIsResumable
  <1>1. ApplicationInv => ApplicationIsResumable
    <2> SUFFICES ASSUME ApplicationInv
                 PROVE  ApplicationIsResumable
      OBVIOUS
    <2>1. StartAccepted <=> (applications # <<>> \/ contact # "VERIFIED")
      BY ResumedFits
    <2>2. CASE applications = <<>>
      BY <2>1, <2>2 DEF ApplicationInv, ApplicationIsResumable
    <2>3. CASE applications # <<>>
      <3>1. PICK a \in Application : applications = <<a>> /\ OneApplication(a)
        BY <2>3 DEF ApplicationInv
      <3>2. CurrentApplication(applications) = a /\ Len(applications) = 1
        BY <3>1 DEF CurrentApplication
      <3> QED
        BY <2>1, <2>3, <3>1, <3>2 DEF ApplicationIsResumable, OneApplication
    <2> QED
      BY <2>2, <2>3
  <1> QED
    BY <1>1, ApplicationInvariance, PTL

(* Every requirement of a Booking asks for a service. *)
LEMMA AServiceIsAsked ==
  ASSUME NEW requirements \in SUBSET RequirementTypes
  PROVE  RequiredServices(requirements) # {}
  BY DEF RequiredServices

(* A scope restricts the services that Dispatch asks for exactly when it   *)
(* takes one of them off the page.                                         *)
LEMMA ScopesAgree ==
  ASSUME NEW services, ~HasRestriction("ALL_SERVICES"), ~HasRestriction("NEW_JOURNEYS"),
         ~HasRestriction("SPECIFIC_VEHICLE")
  PROVE  services \subseteq CurrentPermissions
           => (~RestrictionActive(services) <=> services \subseteq OutsideRestrictions(CurrentPermissions))
  BY DEF RestrictionActive, OutsideRestrictions

(* On the same evidence the pages promise what Dispatch keeps              *)
(* (evaluateDriverOperatingEligibility and evaluateMaintenanceOperatingGate *)
(* beside readDriverEligibility), for every set of high-risk services.     *)
THEOREM PagesKeepTheirPromise == StandingSpec => []PagesPromiseWhatDispatchKeeps
  <1>1. PagesPromiseWhatDispatchKeeps
    <2>1. ASSUME NEW requirements \in SUBSET RequirementTypes, requirements \subseteq evidence.capabilities
          PROVE  LET services == RequiredServices(requirements) IN
                   /\ DispatchTakes(requirements) <=> services \subseteq EligibleServiceCodes
                   /\ DispatchTakes(requirements) => MaintenancePagePermits(services)
      <3> DEFINE services == RequiredServices(requirements)
      <3>1. services # {}
        BY AServiceIsAsked
      <3> HIDE DEF services
      <3>2. ASSUME DispatchTakes(requirements)
            PROVE  services \subseteq EligibleServiceCodes
        <4>1. StandsFor(services, requirements)
          BY <3>2 DEF DispatchTakes, services
        <4>2. /\ ~HasRestriction("ALL_SERVICES") /\ ~HasRestriction("NEW_JOURNEYS")
              /\ ~HasRestriction("SPECIFIC_VEHICLE") /\ ~RestrictionActive(services)
              /\ services \subseteq CurrentPermissions /\ services \cap evidence.restricted = {}
          BY <3>1, <4>1 DEF StandsFor, RestrictionActive, PermissionMatch, MaintenancePermits
        <4>3. services \subseteq OutsideRestrictions(CurrentPermissions)
          BY <4>2, ScopesAgree
        <4>4. ~HardBlocked
          BY <3>1, <4>1, <4>2, <4>3 DEF HardBlocked, StandsFor, MaintenancePermits
        <4> QED
          BY <4>2, <4>3, <4>4 DEF EligibleServiceCodes
      <3>3. ASSUME services \subseteq EligibleServiceCodes
            PROVE  DispatchTakes(requirements)
        <4>1. ~HardBlocked /\ services \subseteq OutsideRestrictions(CurrentPermissions) \ evidence.restricted
          BY <3>1, <3>3 DEF EligibleServiceCodes
        <4>2. services \subseteq CurrentPermissions
          BY <4>1 DEF OutsideRestrictions
        <4>3. ~RestrictionActive(services)
          BY <4>1, <4>2, ScopesAgree DEF HardBlocked
        <4>4. PermissionMatch(services) /\ MaintenancePermits(services)
          BY <3>1, <4>1, <4>2 DEF PermissionMatch, MaintenancePermits, HardBlocked
        <4>5. StandsFor(services, requirements)
          BY <2>1, <4>1, <4>3, <4>4 DEF StandsFor, HardBlocked
        <4> QED
          BY <4>5 DEF DispatchTakes, services
      <3>4. ASSUME DispatchTakes(requirements)
            PROVE  MaintenancePagePermits(services)
        <4>1. StandsFor(services, requirements)
          BY <3>4 DEF DispatchTakes, services
        <4> QED
          BY <4>1 DEF StandsFor, MaintenancePermits, OperatingPermitted, MaintenancePagePermits
      <3> QED
        BY <3>2, <3>3, <3>4 DEF services
    <2>2. MayGoOnline <=> ~HardBlocked
      BY DEF MayGoOnline, StandsFor, HardBlocked, MaintenancePermits, PermissionMatch, RestrictionActive
    <2>3. OperatingEligibility # "NOT_ELIGIBLE" => MayGoOnline
      BY <2>2 DEF OperatingEligibility
    <2>4. ASSUME MayGoOnline, OperatingEligibility = "NOT_ELIGIBLE"
          PROVE  evidence.restricted # {}
      <3>1. ~HardBlocked /\ EligibleServiceCodes = {}
        BY <2>2, <2>4 DEF OperatingEligibility
      <3>2. OutsideRestrictions(CurrentPermissions) # {}
        BY <3>1 DEF HardBlocked
      <3> QED
        BY <3>1, <3>2 DEF EligibleServiceCodes
    <2> QED
      BY <2>1, <2>3, <2>4 DEF PagesPromiseWhatDispatchKeeps
  <1> QED
    BY <1>1, PTL

(* The services a start asks for are those that Dispatch asked for. *)
LEMMA StartAsksTheSame ==
  ASSUME NEW requirements \in SUBSET RequirementTypes
  PROVE  StartTakes(requirements) <=>
           /\ profile = "APPROVED" /\ evidence.account /\ evidence.authorised
           /\ evidence.compliance /\ evidence.snapshot /\ OperatingPermitted
           /\ evidence.restricted \cap RequiredServices(requirements) = {}
           /\ requirements \subseteq evidence.capabilities
  <1> DEFINE services ==
               (IF "SCHOOL" \in requirements THEN {"SCHOOL"} ELSE {})
                 \cup (IF "WHEELCHAIR" \in requirements THEN {"WAV"} ELSE {})
                 \cup (IF "HOSPITAL" \in requirements THEN {"HOSPITAL"} ELSE {})
                 \cup (IF "HANDOVER" \in requirements THEN {"SPECIALIST"} ELSE {})
             named == {s \in Services :
               \/ s = "SCHOOL" /\ "SCHOOL" \in requirements
               \/ s = "WAV" /\ "WHEELCHAIR" \in requirements
               \/ s = "HOSPITAL" /\ "HOSPITAL" \in requirements
               \/ s = "SPECIALIST" /\ "HANDOVER" \in requirements}
             asked == IF services = {} THEN {"STANDARD"} ELSE services
  <1>1. services = named
    BY DEF Services
  <1>2. RequiredServices(requirements) = IF named = {} THEN {"STANDARD"} ELSE named
    BY DEF RequiredServices
  <1>3. asked = RequiredServices(requirements)
    BY <1>1, <1>2
  <1>4. StartTakes(requirements) <=>
           /\ profile = "APPROVED" /\ evidence.account /\ evidence.authorised
           /\ evidence.compliance /\ evidence.snapshot /\ OperatingPermitted
           /\ evidence.restricted \cap asked = {}
           /\ requirements \subseteq evidence.capabilities
    BY DEF StartTakes
  <1> HIDE DEF asked
  <1> QED
    BY <1>3, <1>4

(* The start of a Journey looks at the evidence again and refuses nobody   *)
(* whom Dispatch would take; what it lets pass is the insurance of the     *)
(* pair, a permission or a restriction of the Driver                       *)
(* (assignmentStillEligible beside readDriverEligibility).                 *)
THEOREM StartsLookAgain == StandingSpec => []StartLooksAgain
  <1>1. StartLooksAgain
    <2>1. ASSUME NEW requirements \in SUBSET RequirementTypes
          PROVE  LET services == RequiredServices(requirements) IN
                   /\ DispatchTakes(requirements) => StartTakes(requirements)
                   /\ (StartTakes(requirements) /\ ~DispatchTakes(requirements)) =>
                        ~evidence.insured \/ ~PermissionMatch(services) \/ RestrictionActive(services)
      BY <2>1, StartAsksTheSame
      DEF DispatchTakes, StandsFor, CurrentAuthorisation, MaintenancePermits
    <2> QED
      BY <2>1 DEF StartLooksAgain
  <1> QED
    BY <1>1, PTL

=============================================================================
