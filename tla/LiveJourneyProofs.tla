-------------------------- MODULE LiveJourneyProofs --------------------------
(* Proofs about LiveJourney, for every set of reports, people and readings, *)
(* and every radius, speed and age of its policy.                           *)
EXTENDS LiveJourney, SequenceTheorems, TLAPS

Row == [client : Reports, place : 0..DropOff, observed : Nat, good : BOOLEAN,
        purpose : {"ACTIVE_ASSIGNMENT_PICKUP", "ACTIVE_JOURNEY"},
        telemetry : {"STALE", "DEGRADED", "DELAYED", "LIVE"}, plausible : BOOLEAN]

\* What a Safety signal was told and stored as.
Signal == [by : People \cup {Driver}, key : Keys, kind : Signals,
           told : {"ATTENTION", "AT_RISK", "INCIDENT"},
           severity : {"ATTENTION", "AT_RISK", "CRITICAL"},
           confidence : {"UNKNOWN", "STALE", "DEGRADED", "DELAYED", "LIVE"}]

TypeInv ==
  /\ now \in Nat
  /\ status \in PickupStatuses \cup ActiveStatuses \cup {"COMPLETED"}
  /\ version \in Nat
  /\ rows \in Seq(Row)
  /\ handover \in BOOLEAN
  /\ changes \subseteq [by : People, key : Keys, expected : Nat]
  /\ signals \subseteq Signal

\* The locations that decisions rest on.
Trusted == ActiveRows \cap PlausibleRows

IsNewest(S, i) ==
  i \in S /\ \A j \in S :
    rows[j].observed < rows[i].observed \/ (rows[j].observed = rows[i].observed /\ j <= i)

HasNewest(S) == S # {} => \E i \in S : IsNewest(S, i)

\* Every query that a decision or a page makes has an answer.
NewestInv ==
  HasNewest(AllRows) /\ HasNewest(PlausibleRows) /\ HasNewest(ActiveRows) /\ HasNewest(Trusted)

\* Reports of the pickup were stored before those of the Journey, and all count
\* as plausible; what is plausible after the start is newer than all that was
\* plausible before.
OrderInv ==
  /\ status \in PickupStatuses => ActiveRows = {}
  /\ \A i \in ActiveRows, j \in AllRows \ ActiveRows : j < i
  /\ \A i \in Trusted, j \in PlausibleRows : j < i => rows[j].observed < rows[i].observed

\* The evidence of the approach and of the completion, from the time it is kept.
WitnessInv ==
  /\ status \in {"ARRIVING", "COMPLETED"} =>
       approach \in Trusted /\ Distance(rows[approach].place, DropOff) <= ApproachRadius
  /\ status = "COMPLETED" =>
       /\ final \in Trusted /\ Distance(rows[final].place, DropOff) <= FinalRadius /\ ~handover
       /\ approach = final \/ Reachable(rows[approach], rows[final])

\* What is stored of a signal is the encoding of what was told.
SignalInv == \A s \in signals : s.severity = SafetySeverity(s.told)

\* The inductive invariant.
IInv == /\ TypeInv /\ NewestInv /\ OrderInv /\ PlausiblePathIsPossible
        /\ WitnessInv /\ SignalInv /\ OneRouteChangePerVersion

USE LiveJourneyAssumption DEF evidence, requests

-----------------------------------------------------------------------------
(* The newest location. *)

LEMMA RowsTyped ==
  ASSUME TypeInv
  PROVE  /\ Len(rows) \in Nat /\ AllRows = 1..Len(rows)
         /\ \A i \in AllRows : i \in Nat /\ i > 0 /\ rows[i] \in Row
  BY DEF TypeInv, AllRows

\* A query that has an answer is answered with it.
LEMMA NewestIs ==
  ASSUME NEW S, HasNewest(S), S # {}
  PROVE  Newest(S) \in S /\ IsNewest(S, Newest(S))
<1>1. \E i \in S : \A j \in S :
         rows[j].observed < rows[i].observed \/ (rows[j].observed = rows[i].observed /\ j <= i)
  BY DEF HasNewest, IsNewest
<1> QED BY <1>1, Zenon DEF Newest, IsNewest

\* NoRow is the answer of an empty query only.
LEMMA NewestOf ==
  ASSUME TypeInv, NEW S \in SUBSET AllRows, HasNewest(S)
  PROVE  /\ S = {} <=> Newest(S) = NoRow
         /\ S # {} => Newest(S) \in S /\ IsNewest(S, Newest(S))
<1>1. S = {} => Newest(S) = NoRow
  BY DEF Newest
<1>2. S # {} => Newest(S) \in S /\ IsNewest(S, Newest(S))
  BY NewestIs
<1>3. NoRow \notin AllRows
  BY RowsTyped DEF NoRow
<1> QED BY <1>1, <1>2, <1>3

\* A set of rows has one newest row.
LEMMA NewestUnique ==
  ASSUME TypeInv, NEW S \in SUBSET AllRows, NEW i, NEW j, IsNewest(S, i), IsNewest(S, j)
  PROVE  i = j
<1>1. i \in Nat /\ j \in Nat /\ rows[i].observed \in Nat /\ rows[j].observed \in Nat
  BY RowsTyped DEF IsNewest, Row
<1> QED BY <1>1 DEF IsNewest

\* The newest of all is the newest of every set that it belongs to.
LEMMA NewestOfSubset ==
  ASSUME NEW S, NEW T, T \subseteq S, NEW i \in T, IsNewest(S, i)
  PROVE  IsNewest(T, i)
  BY DEF IsNewest

-----------------------------------------------------------------------------
(* Distances. *)

LEMMA DistanceTriangle ==
  ASSUME NEW p \in Nat, NEW q \in Nat, NEW r \in Nat
  PROVE  Distance(p, r) \in Nat /\ Distance(p, r) <= Distance(p, q) + Distance(q, r)
  BY DEF Distance

\* Whoever can go from a to b and on to c can go from a to c.
LEMMA ReachableTransitive ==
  ASSUME NEW a \in Row, NEW b \in Row, NEW c \in Row, Reachable(a, b), Reachable(b, c)
  PROVE  Reachable(a, c)
<1> DEFINE x == a.observed  y == b.observed  z == c.observed
<1>1. /\ x \in Nat /\ y \in Nat /\ z \in Nat /\ MaxSpeed \in Nat
      /\ a.place \in Nat /\ b.place \in Nat /\ c.place \in Nat
  BY DEF Row
<1>2. x < y /\ y < z
  BY DEF Reachable
<1>3. MaxSpeed * (z - x) = MaxSpeed * (y - x) + MaxSpeed * (z - y)
  BY <1>1
<1>4. /\ Distance(a.place, b.place) <= MaxSpeed * (y - x)
      /\ Distance(b.place, c.place) <= MaxSpeed * (z - y)
  BY DEF Reachable
<1>5. /\ Distance(a.place, b.place) \in Nat /\ Distance(b.place, c.place) \in Nat
      /\ Distance(a.place, c.place) \in Nat
      /\ Distance(a.place, c.place) <= Distance(a.place, b.place) + Distance(b.place, c.place)
  BY <1>1, DistanceTriangle
<1>6. /\ MaxSpeed * (y - x) \in Int /\ MaxSpeed * (z - y) \in Int /\ MaxSpeed * (z - x) \in Int
  BY <1>1
<1>7. Distance(a.place, c.place) <= MaxSpeed * (z - x)
  <2> HIDE DEF x, y, z
  <2> QED BY <1>3, <1>4, <1>5, <1>6
<1> QED BY <1>1, <1>2, <1>7 DEF Reachable

-----------------------------------------------------------------------------
(* Storing a report. *)

LEMMA EvidenceStateType ==
  ASSUME NEW reading, NEW at
  PROVE  EvidenceState(reading, at) \in {"STALE", "DEGRADED", "DELAYED", "LIVE"}
  BY DEF EvidenceState

\* The rows that were there stay, and one is added after them.
LEMMA StoreStep ==
  ASSUME TypeInv, NEW client \in Reports, NEW reading \in Readings,
         NEW purpose \in {"ACTIVE_ASSIGNMENT_PICKUP", "ACTIVE_JOURNEY"},
         NEW telemetry \in {"STALE", "DEGRADED", "DELAYED", "LIVE"}, NEW plausible \in BOOLEAN,
         Store(client, reading, purpose, telemetry, plausible),
         NEW n, n = Len(rows) + 1
  PROVE  /\ TypeInv' /\ UNCHANGED <<now, status, version, approach, final, handover, requests>>
         /\ n \in Nat /\ AllRows' = AllRows \cup {n}
         /\ \A j \in AllRows : j < n /\ rows'[j] = rows[j]
         /\ rows'[n].place = reading.place /\ rows'[n].observed = reading.observed
         /\ rows'[n].purpose = purpose /\ rows'[n].plausible = plausible
<1> DEFINE row == [client |-> client, place |-> reading.place, observed |-> reading.observed,
                   good |-> reading.good, purpose |-> purpose, telemetry |-> telemetry,
                   plausible |-> plausible]
<1>1. row \in Row
  BY DEF Row
<1>2. rows \in Seq(Row) /\ rows' = Append(rows, row)
  BY DEF TypeInv, Store
<1>3. /\ rows' \in Seq(Row) /\ Len(rows') = n /\ rows'[n] = row
      /\ \A j \in 1..Len(rows) : rows'[j] = rows[j]
  <2> HIDE DEF row
  <2> QED BY <1>1, <1>2
<1>4. AllRows = 1..Len(rows) /\ AllRows' = 1..n /\ Len(rows) \in Nat
  BY <1>2, <1>3 DEF AllRows
<1>5. TypeInv'
  BY <1>3 DEF TypeInv, Store
<1> QED BY <1>3, <1>4, <1>5 DEF Store

\* The newest of a set of rows stays it until one is added that is not older.
LEMMA NewestAppended ==
  ASSUME TypeInv, TypeInv', NEW n \in Nat, AllRows' = AllRows \cup {n},
         \A j \in AllRows : j < n /\ rows'[j] = rows[j],
         NEW S \in SUBSET AllRows, HasNewest(S), NEW T \in {S, S \cup {n}}, T # {}
  PROVE  \E i \in T : \A j \in T :
           rows'[j].observed < rows'[i].observed \/ (rows'[j].observed = rows'[i].observed /\ j <= i)
<1>1. /\ \A j \in AllRows : j \in Nat /\ rows'[j].observed \in Nat
      /\ rows'[n].observed \in Nat
  <2>1. \A j \in AllRows' : rows'[j] \in Row
    BY DEF TypeInv, AllRows
  <2> QED BY <2>1, RowsTyped DEF Row
<1>2. CASE S = {}
  BY <1>1, <1>2
<1>3. CASE S # {}
  <2>1. PICK i \in S : IsNewest(S, i)
    BY <1>3 DEF HasNewest
  <2>2. \A j \in S : rows'[j].observed < rows'[i].observed
                    \/ (rows'[j].observed = rows'[i].observed /\ j <= i)
    BY <2>1 DEF IsNewest
  <2>3. CASE T = S
    BY <2>2, <2>3
  <2>4. CASE T = S \cup {n} /\ rows'[n].observed < rows'[i].observed
    BY <2>2, <2>4
  <2>5. CASE T = S \cup {n} /\ ~(rows'[n].observed < rows'[i].observed)
    <3>1. \A j \in S : rows'[j].observed < rows'[n].observed
                      \/ (rows'[j].observed = rows'[n].observed /\ j <= n)
      BY <1>1, <2>2, <2>5
    <3> QED BY <1>1, <2>5, <3>1
  <2> QED BY <2>3, <2>4, <2>5
<1> QED BY <1>2, <1>3

\* The queries keep an answer when a row is added.
LEMMA NewestInvStep ==
  ASSUME TypeInv, TypeInv', NewestInv, NEW n \in Nat, AllRows' = AllRows \cup {n},
         \A j \in AllRows : j < n /\ rows'[j] = rows[j]
  PROVE  NewestInv'
<1> DEFINE First(T) == \E i \in T : \A j \in T :
            rows'[j].observed < rows'[i].observed \/ (rows'[j].observed = rows'[i].observed /\ j <= i)
<1>0. ASSUME NEW S \in SUBSET AllRows, HasNewest(S), NEW T \in {S, S \cup {n}}, T # {}
      PROVE  First(T)
  BY <1>0, NewestAppended
<1>1. /\ ActiveRows \in SUBSET AllRows /\ PlausibleRows \in SUBSET AllRows
      /\ Trusted \in SUBSET AllRows /\ AllRows \in SUBSET AllRows
  BY DEF ActiveRows, PlausibleRows, Trusted
<1>2. /\ ActiveRows' \in {ActiveRows, ActiveRows \cup {n}}
      /\ PlausibleRows' \in {PlausibleRows, PlausibleRows \cup {n}}
  BY DEF ActiveRows, PlausibleRows
<1>3. Trusted' \in {Trusted, Trusted \cup {n}}
  <2>1. n \notin AllRows
    OBVIOUS
  <2> QED BY <1>1, <1>2, <2>1 DEF Trusted
<1>4. HasNewest(AllRows)'
  <2>1. AllRows' # {} => First(AllRows')
    <3> HIDE DEF First
    <3> QED BY <1>0, <1>1, <1>2, <1>3 DEF NewestInv
  <2> QED BY <2>1 DEF HasNewest, IsNewest
<1>5. HasNewest(PlausibleRows)'
  <2>1. PlausibleRows' # {} => First(PlausibleRows')
    <3> HIDE DEF First
    <3> QED BY <1>0, <1>1, <1>2, <1>3 DEF NewestInv
  <2> QED BY <2>1 DEF HasNewest, IsNewest
<1>6. HasNewest(ActiveRows)'
  <2>1. ActiveRows' # {} => First(ActiveRows')
    <3> HIDE DEF First
    <3> QED BY <1>0, <1>1, <1>2, <1>3 DEF NewestInv
  <2> QED BY <2>1 DEF HasNewest, IsNewest
<1>7. HasNewest(Trusted)'
  <2>1. Trusted' # {} => First(Trusted')
    <3> HIDE DEF First
    <3> QED BY <1>0, <1>1, <1>2, <1>3 DEF NewestInv
  <2> QED BY <2>1 DEF HasNewest, IsNewest
<1> QED BY <1>4, <1>5, <1>6, <1>7 DEF NewestInv

-----------------------------------------------------------------------------
(* The inductive invariant. *)

LEMMA InitIInv == Init => IInv
<1> SUFFICES ASSUME Init PROVE IInv
  OBVIOUS
<1>1. rows = <<>> /\ AllRows = {}
  BY DEF Init, AllRows
<1>2. TypeInv
  <2>1. rows \in Seq(Row)
    BY <1>1
  <2> QED BY <2>1 DEF Init, TypeInv, PickupStatuses
<1>3. ActiveRows = {} /\ PlausibleRows = {} /\ Trusted = {}
  BY <1>1 DEF ActiveRows, PlausibleRows, Trusted
<1>4. NewestInv /\ OrderInv /\ PlausiblePathIsPossible
  BY <1>1, <1>3 DEF NewestInv, HasNewest, OrderInv, PlausiblePathIsPossible, Trusted
<1>5. WitnessInv /\ SignalInv /\ OneRouteChangePerVersion
  BY DEF Init, WitnessInv, SignalInv, OneRouteChangePerVersion
<1> QED BY <1>2, <1>4, <1>5 DEF IInv

\* A step that stores no report changes none of what is said of the reports.
LEMMA RowsUnchanged ==
  ASSUME IInv, UNCHANGED rows, status' \in PickupStatuses => status \in PickupStatuses
  PROVE  NewestInv' /\ OrderInv' /\ PlausiblePathIsPossible'
<1>1. UNCHANGED <<AllRows, ActiveRows, PlausibleRows, Trusted>>
  BY DEF AllRows, ActiveRows, PlausibleRows, Trusted
<1>2. NewestInv'
  BY <1>1 DEF IInv, NewestInv, HasNewest, IsNewest
<1>3. OrderInv'
  BY <1>1 DEF IInv, OrderInv
<1>4. PlausiblePathIsPossible'
  BY <1>1 DEF IInv, PlausiblePathIsPossible
<1> QED BY <1>2, <1>3, <1>4

\* A report before the start counts as plausible, and comes before all active ones.
LEMMA PickupReportStep ==
  ASSUME IInv, NEW client \in Reports, NEW reading \in Readings,
         RecordDriverLocationObservation(client, reading)
  PROVE  IInv'
<1> DEFINE n == Len(rows) + 1
<1> HIDE DEF n
<1>1. /\ TypeInv' /\ UNCHANGED <<now, status, version, approach, final, handover, requests>>
      /\ n \in Nat /\ AllRows' = AllRows \cup {n}
      /\ \A j \in AllRows : j < n /\ rows'[j] = rows[j]
      /\ rows'[n].purpose = "ACTIVE_ASSIGNMENT_PICKUP"
  <2> DEFINE kept == EvidenceState(reading, now)  plausible == TRUE
  <2>1. kept \in {"STALE", "DEGRADED", "DELAYED", "LIVE"} /\ plausible \in BOOLEAN
    BY EvidenceStateType
  <2>2. Store(client, reading, "ACTIVE_ASSIGNMENT_PICKUP", kept, plausible)
    BY DEF RecordDriverLocationObservation
  <2> HIDE DEF kept, plausible
  <2> QED BY <2>1, <2>2, StoreStep DEF IInv, n
<1>2. status \in PickupStatuses /\ ActiveRows = {}
  BY DEF RecordDriverLocationObservation, IInv, OrderInv
<1>3. ActiveRows' = {} /\ Trusted' = {}
  BY <1>1, <1>2 DEF ActiveRows, Trusted
<1>4. NewestInv'
  BY <1>1, NewestInvStep DEF IInv
<1>5. OrderInv' /\ PlausiblePathIsPossible'
  BY <1>3 DEF OrderInv, PlausiblePathIsPossible, Trusted
<1>6. WitnessInv'
  BY <1>1, <1>2 DEF WitnessInv, PickupStatuses
<1>7. SignalInv' /\ OneRouteChangePerVersion'
  BY <1>1 DEF IInv, SignalInv, OneRouteChangePerVersion
<1> QED BY <1>1, <1>4, <1>5, <1>6, <1>7 DEF IInv

\* A report after it is plausible only when it is newer than, and within reach
\* of, the newest plausible one.  That one is the newest of the active ones too,
\* once one of them is plausible: it can be none that was stored before them.
LEMMA ActiveReportStep ==
  ASSUME IInv, NEW client \in Reports, NEW reading \in Readings,
         RecordActiveJourneyLocation(client, reading)
  PROVE  IInv'
<1> DEFINE n == Len(rows) + 1
           p == LatestPlausibleLocation
           plausible == p # NoRow => PlausibleMovement(rows[p], reading)
           kept == IF EvidenceState(reading, now) # "STALE" /\ ~plausible
                   THEN "DEGRADED" ELSE EvidenceState(reading, now)
<1>0. /\ status \in ActiveStatuses
      /\ Store(client, reading, "ACTIVE_JOURNEY", kept, plausible)
      /\ kept \in {"STALE", "DEGRADED", "DELAYED", "LIVE"} /\ plausible \in BOOLEAN
  <2>1. plausible \in BOOLEAN
    BY DEF PlausibleMovement
  <2>2. EvidenceState(reading, now) \in {"STALE", "DEGRADED", "DELAYED", "LIVE"}
    BY EvidenceStateType
  <2>3. Store(client, reading, "ACTIVE_JOURNEY", kept, plausible) /\ status \in ActiveStatuses
    BY DEF RecordActiveJourneyLocation
  <2> HIDE DEF plausible
  <2> QED BY <2>1, <2>2, <2>3
<1> HIDE DEF n, kept, plausible
<1>1. /\ TypeInv' /\ UNCHANGED <<now, status, version, approach, final, handover, requests>>
      /\ n \in Nat /\ AllRows' = AllRows \cup {n}
      /\ \A j \in AllRows : j < n /\ rows'[j] = rows[j]
      /\ rows'[n].place = reading.place /\ rows'[n].observed = reading.observed
      /\ rows'[n].purpose = "ACTIVE_JOURNEY" /\ rows'[n].plausible = plausible
  BY <1>0, StoreStep DEF IInv, n
<1>2. /\ ActiveRows' = ActiveRows \cup {n} /\ n \notin AllRows
      /\ PlausibleRows' = IF plausible THEN PlausibleRows \cup {n} ELSE PlausibleRows
      /\ Trusted' = IF plausible THEN Trusted \cup {n} ELSE Trusted
  <2>1. n \notin AllRows
    BY <1>1
  <2>2. ActiveRows' = ActiveRows \cup {n}
    BY <1>1 DEF ActiveRows
  <2>3. PlausibleRows' = IF plausible THEN PlausibleRows \cup {n} ELSE PlausibleRows
    BY <1>0, <1>1 DEF PlausibleRows
  <2>4. ActiveRows \subseteq AllRows /\ PlausibleRows \subseteq AllRows
    BY DEF ActiveRows, PlausibleRows
  <2> QED BY <2>1, <2>2, <2>3, <2>4 DEF Trusted
<1>3. /\ \A j \in AllRows : j \in Nat /\ j # n /\ rows[j] \in Row /\ rows[j].observed \in Nat
      /\ ActiveRows \subseteq AllRows /\ PlausibleRows \subseteq AllRows
      /\ Trusted \subseteq AllRows /\ Trusted \subseteq PlausibleRows
      /\ rows'[n] \in Row /\ rows'[n].observed \in Nat
  <2>1. TypeInv'
    BY <1>1
  <2>2. \A j \in AllRows' : rows'[j] \in Row
    BY <2>1 DEF TypeInv, AllRows
  <2>3. rows'[n] \in Row
    BY <1>1, <2>2
  <2> QED BY <1>2, <2>3, RowsTyped DEF IInv, Row, ActiveRows, PlausibleRows, Trusted
<1>4. ASSUME plausible, NEW j \in PlausibleRows
      PROVE  rows[j].observed < rows'[n].observed
  <2>1. p \in PlausibleRows /\ IsNewest(PlausibleRows, p) /\ p # NoRow
    BY <1>3, NewestOf, RowsTyped DEF LatestPlausibleLocation, IInv, NewestInv
  <2>2. rows[p].observed < rows'[n].observed
    BY <1>1, <1>4, <2>1 DEF plausible, PlausibleMovement
  <2>3. rows[j].observed <= rows[p].observed
    BY <1>3, <1>4, <2>1 DEF IsNewest
  <2> QED BY <1>3, <1>4, <2>1, <2>2, <2>3
<1>5. ASSUME plausible, NEW j \in Trusted
      PROVE  Reachable(rows[j], rows'[n])
  <2>1. p \in PlausibleRows /\ IsNewest(PlausibleRows, p) /\ p # NoRow
    BY <1>3, <1>5, NewestOf, RowsTyped DEF LatestPlausibleLocation, IInv, NewestInv
  <2>2. Reachable(rows[p], rows'[n])
    BY <1>1, <1>5, <2>1 DEF plausible, PlausibleMovement, Reachable
  <2>3. CASE j = p
    BY <2>2, <2>3
  <2>4. CASE j < p
    <3>1. p \in Trusted
      BY <1>3, <1>5, <2>1, <2>4 DEF IInv, OrderInv, Trusted
    <3>2. Reachable(rows[j], rows[p])
      BY <1>5, <2>4, <3>1 DEF IInv, PlausiblePathIsPossible, Trusted
    <3> QED BY <1>3, <1>5, <2>1, <2>2, <3>2, ReachableTransitive
  <2>5. CASE p < j
    <3>1. rows[p].observed < rows[j].observed
      BY <1>5, <2>1, <2>5 DEF IInv, OrderInv
    <3>2. rows[j].observed <= rows[p].observed
      BY <1>3, <1>5, <2>1 DEF IsNewest
    <3> QED BY <1>3, <1>5, <2>1, <3>1, <3>2
  <2> QED BY <1>3, <1>5, <2>1, <2>3, <2>4, <2>5
<1>6. NewestInv'
  BY <1>1, NewestInvStep DEF IInv
<1>7. OrderInv'
  <2>1. status' \notin PickupStatuses
    BY <1>0, <1>1 DEF PickupStatuses, ActiveStatuses
  <2>2. \A i \in ActiveRows', j \in AllRows' \ ActiveRows' : j < i
    BY <1>1, <1>2, <1>3 DEF IInv, OrderInv
  <2>3. ASSUME NEW i \in Trusted', NEW j \in PlausibleRows', j < i
        PROVE  rows'[j].observed < rows'[i].observed
    <3>1. j # n
      BY <1>1, <1>2, <1>3, <2>3
    <3>2. j \in PlausibleRows
      BY <1>2, <2>3, <3>1
    <3>3. CASE i = n
      BY <1>1, <1>2, <1>3, <1>4, <2>3, <3>2, <3>3
    <3>4. CASE i # n
      BY <1>1, <1>2, <1>3, <2>3, <3>2, <3>4 DEF IInv, OrderInv
    <3> QED BY <3>3, <3>4
  <2> QED BY <2>1, <2>2, <2>3 DEF OrderInv
<1>8. PlausiblePathIsPossible'
  <2>1. ASSUME NEW i \in Trusted', NEW j \in Trusted', j < i
        PROVE  Reachable(rows'[j], rows'[i])
    <3>1. j \in Trusted
      BY <1>1, <1>2, <1>3, <2>1
    <3>2. CASE i = n
      BY <1>1, <1>2, <1>3, <1>5, <2>1, <3>1, <3>2
    <3>3. CASE i # n
      BY <1>1, <1>2, <1>3, <2>1, <3>1, <3>3 DEF IInv, PlausiblePathIsPossible, Trusted
    <3> QED BY <3>2, <3>3
  <2> QED BY <2>1 DEF PlausiblePathIsPossible, Trusted
<1>9. WitnessInv'
  BY <1>0, <1>1, <1>2, <1>3 DEF IInv, WitnessInv, ActiveStatuses
<1>10. SignalInv' /\ OneRouteChangePerVersion'
  BY <1>1 DEF IInv, SignalInv, OneRouteChangePerVersion
<1> QED BY <1>1, <1>6, <1>7, <1>8, <1>9, <1>10 DEF IInv

\* What the steps that leave the reports alone keep, for a status that has no
\* witnesses to name.
LEMMA DecisionStep ==
  ASSUME IInv, UNCHANGED <<now, evidence, requests>>,
         \/ status = "EN_ROUTE" /\ Move("ARRIVED", 1)
         \/ status = "ARRIVED" /\ Move("PASSENGER_VERIFIED", 2)
         \/ status = "PASSENGER_VERIFIED" /\ Move("IN_PROGRESS", 1)
  PROVE  IInv'
<1>1. /\ UNCHANGED <<now, rows, handover, changes, signals>>
      /\ status' \in {"ARRIVED", "PASSENGER_VERIFIED", "IN_PROGRESS"} /\ status \in PickupStatuses
      /\ version \in Nat /\ version' \in Nat /\ version' > version
  BY DEF Move, IInv, TypeInv, PickupStatuses
<1>2. TypeInv'
  BY <1>1 DEF IInv, TypeInv, PickupStatuses, ActiveStatuses
<1>3. NewestInv' /\ OrderInv' /\ PlausiblePathIsPossible'
  BY <1>1, RowsUnchanged
<1>4. WitnessInv'
  BY <1>1 DEF WitnessInv
<1>5. SignalInv'
  BY <1>1 DEF IInv, SignalInv
<1>6. OneRouteChangePerVersion'
  BY <1>1 DEF IInv, TypeInv, OneRouteChangePerVersion
<1> QED BY <1>2, <1>3, <1>4, <1>5, <1>6 DEF IInv

\* The location that the destination is judged from is the newest trusted one.
LEMMA LatestActiveIs ==
  ASSUME IInv, LatestActiveLocation # NoRow
  PROVE  LatestActiveLocation \in Trusted /\ IsNewest(Trusted, LatestActiveLocation)
<1>1. LatestActiveLocation = Newest(Trusted)
  BY DEF LatestActiveLocation, LatestActive, Trusted
<1>2. Trusted \in SUBSET AllRows /\ HasNewest(Trusted)
  BY DEF IInv, NewestInv, Trusted, ActiveRows
<1> QED BY <1>1, <1>2, NewestOf DEF IInv

LEMMA ArrivingStep ==
  ASSUME IInv, NEW types, MarkJourneyArriving(types)
  PROVE  IInv'
<1>1. /\ UNCHANGED <<now, rows, changes, signals>> /\ status' = "ARRIVING" /\ status = "IN_PROGRESS"
      /\ version \in Nat /\ version' \in Nat /\ version' > version
      /\ handover' \in BOOLEAN
  BY DEF MarkJourneyArriving, Move, IInv, TypeInv, HandoverRequired
<1>2. TypeInv'
  BY <1>1 DEF IInv, TypeInv, ActiveStatuses
<1>3. NewestInv' /\ OrderInv' /\ PlausiblePathIsPossible'
  BY <1>1, RowsUnchanged DEF PickupStatuses
<1>4. WitnessInv'
  <2>1. approach' \in Trusted /\ Distance(rows[approach'].place, DropOff) <= ApproachRadius
    BY LatestActiveIs DEF MarkJourneyArriving, Accepted
  <2>2. Trusted' = Trusted
    BY <1>1 DEF Trusted, ActiveRows, PlausibleRows, AllRows
  <2> QED BY <1>1, <2>1, <2>2 DEF WitnessInv
<1>5. SignalInv'
  BY <1>1 DEF IInv, SignalInv
<1>6. OneRouteChangePerVersion'
  BY <1>1 DEF IInv, TypeInv, OneRouteChangePerVersion
<1> QED BY <1>2, <1>3, <1>4, <1>5, <1>6 DEF IInv

\* The location of the completion is the newest, so that of the approach is it
\* or lies before it on the way.
LEMMA CompleteStep ==
  ASSUME IInv, CompleteJourney
  PROVE  IInv'
<1>1. /\ UNCHANGED <<now, rows, approach, handover, changes, signals>>
      /\ status' = "COMPLETED" /\ status = "ARRIVING" /\ ~handover
      /\ version \in Nat /\ version' \in Nat /\ version' > version
  BY DEF CompleteJourney, Move, IInv, TypeInv
<1>2. TypeInv'
  BY <1>1 DEF IInv, TypeInv
<1>3. NewestInv' /\ OrderInv' /\ PlausiblePathIsPossible'
  BY <1>1, RowsUnchanged DEF PickupStatuses
<1>4. WitnessInv'
  <2>1. /\ final' \in Trusted /\ IsNewest(Trusted, final')
        /\ Distance(rows[final'].place, DropOff) <= FinalRadius
    BY LatestActiveIs DEF CompleteJourney, Accepted
  <2>2. Trusted' = Trusted
    BY <1>1 DEF Trusted, ActiveRows, PlausibleRows, AllRows
  <2>3. approach \in Trusted /\ Distance(rows[approach].place, DropOff) <= ApproachRadius
    BY <1>1 DEF IInv, WitnessInv
  <2>4. approach = final' \/ Reachable(rows[approach], rows[final'])
    <3>1. /\ approach \in Nat /\ final' \in Nat
          /\ rows[approach].observed \in Nat /\ rows[final'].observed \in Nat
          /\ Trusted \subseteq PlausibleRows
      BY <2>1, <2>3, RowsTyped DEF IInv, Trusted, ActiveRows, Row
    <3>2. CASE approach < final'
      BY <2>1, <2>3, <3>2 DEF IInv, PlausiblePathIsPossible, Trusted
    <3>3. CASE final' < approach
      <4>1. rows[final'].observed < rows[approach].observed
        BY <2>1, <2>3, <3>1, <3>3 DEF IInv, OrderInv
      <4>2. rows[approach].observed <= rows[final'].observed
        BY <2>1, <2>3, <3>1 DEF IsNewest
      <4> QED BY <3>1, <4>1, <4>2
    <3> QED BY <3>1, <3>2, <3>3
  <2> QED BY <1>1, <2>1, <2>2, <2>3, <2>4 DEF WitnessInv
<1>5. SignalInv'
  BY <1>1 DEF IInv, SignalInv
<1>6. OneRouteChangePerVersion'
  BY <1>1 DEF IInv, TypeInv, OneRouteChangePerVersion
<1> QED BY <1>2, <1>3, <1>4, <1>5, <1>6 DEF IInv

LEMMA RouteChangeStep ==
  ASSUME IInv, NEW p \in People, NEW k \in Keys, NEW expected \in 2..version,
         RequestRouteChange(p, k, expected)
  PROVE  IInv'
<1>1. /\ UNCHANGED <<now, status, rows, approach, final, handover, signals>>
      /\ expected = version /\ version \in Nat /\ version' = version + 1
      /\ changes' = changes \cup {[by |-> p, key |-> k, expected |-> expected]}
  BY DEF RequestRouteChange, RecordChange, IInv, TypeInv
<1>2. TypeInv'
  BY <1>1 DEF IInv, TypeInv
<1>3. NewestInv' /\ OrderInv' /\ PlausiblePathIsPossible'
  BY <1>1, RowsUnchanged
<1>4. WitnessInv'
  <2>1. Trusted' = Trusted
    BY <1>1 DEF Trusted, ActiveRows, PlausibleRows, AllRows
  <2> QED BY <1>1, <2>1 DEF IInv, WitnessInv
<1>5. SignalInv'
  BY <1>1 DEF IInv, SignalInv
<1>6. OneRouteChangePerVersion'
  <2>1. \A c \in changes : c.expected \in Nat /\ c.expected < version
    BY DEF IInv, TypeInv, OneRouteChangePerVersion
  <2>2. \A c \in changes' : c \in changes \/ c = [by |-> p, key |-> k, expected |-> version]
    BY <1>1
  <2>3. \A c \in changes' : c.expected < version'
    BY <1>1, <2>1, <2>2
  <2>4. \A c, d \in changes' : c.expected = d.expected => c = d
    BY <1>1, <2>1, <2>2 DEF IInv, OneRouteChangePerVersion
  <2> QED BY <2>3, <2>4 DEF OneRouteChangePerVersion
<1> QED BY <1>2, <1>3, <1>4, <1>5, <1>6 DEF IInv

LEMMA SignalTypes ==
  ASSUME NEW kind \in Signals
  PROVE  /\ HealthForSignal(kind) \in {"ATTENTION", "AT_RISK", "INCIDENT"}
         /\ SafetySeverity(HealthForSignal(kind)) \in {"ATTENTION", "AT_RISK", "CRITICAL"}
<1>1. kind \in {"SOS", "SILENT_ASSISTANCE", "FEEL_UNSAFE", "WRONG_DESTINATION",
               "UNEXPECTED_STOP", "CHECK_ROUTE", "OTHER"}
  BY DEF LiveJourneyAssumption
<1>2. HealthForSignal(kind) \in {"ATTENTION", "AT_RISK", "INCIDENT"}
  BY <1>1 DEF HealthForSignal, RouteConcernHealth, RouteConcernSeverity
<1> QED BY <1>2 DEF SafetySeverity

LEMMA SafetySignalStep ==
  ASSUME IInv, NEW p \in People \cup {Driver}, NEW k \in Keys, NEW kind \in Signals,
         CreateSafetySignal(p, k, kind)
  PROVE  IInv'
<1> DEFINE location == Newest(ActiveRows)
           confidence == IF location = NoRow THEN "UNKNOWN" ELSE rows[location].telemetry
           health == HealthForSignal(kind)
           signal == [by |-> p, key |-> k, kind |-> kind, told |-> health,
                      severity |-> SafetySeverity(health), confidence |-> confidence]
<1>1. /\ UNCHANGED <<now, status, version, rows, approach, final, handover, changes>>
      /\ signals' = signals \cup {signal}
  BY DEF CreateSafetySignal
<1>2. signal \in Signal /\ signal.severity = SafetySeverity(signal.told)
  <2>1. confidence \in {"UNKNOWN", "STALE", "DEGRADED", "DELAYED", "LIVE"}
    <3>1. location # NoRow => location \in AllRows
      BY NewestOf DEF IInv, NewestInv, ActiveRows
    <3> QED BY <3>1, RowsTyped DEF IInv, Row
  <2>2. /\ health \in {"ATTENTION", "AT_RISK", "INCIDENT"}
        /\ SafetySeverity(health) \in {"ATTENTION", "AT_RISK", "CRITICAL"}
    BY SignalTypes
  <2> HIDE DEF confidence, health
  <2> QED BY <2>1, <2>2 DEF Signal
<1> HIDE DEF signal
<1>3. TypeInv'
  BY <1>1, <1>2 DEF IInv, TypeInv
<1>4. NewestInv' /\ OrderInv' /\ PlausiblePathIsPossible'
  BY <1>1, RowsUnchanged
<1>5. WitnessInv'
  <2>1. Trusted' = Trusted
    BY <1>1 DEF Trusted, ActiveRows, PlausibleRows, AllRows
  <2> QED BY <1>1, <2>1 DEF IInv, WitnessInv
<1>6. SignalInv'
  BY <1>1, <1>2 DEF IInv, SignalInv
<1>7. OneRouteChangePerVersion'
  BY <1>1 DEF IInv, OneRouteChangePerVersion
<1> QED BY <1>3, <1>4, <1>5, <1>6, <1>7 DEF IInv

\* The clock, and a step of another component, leave all of it as it is.
LEMMA ClockStep ==
  ASSUME IInv, UNCHANGED <<status, version, evidence, requests>>, now' \in Nat
  PROVE  IInv'
<1>1. UNCHANGED <<status, version, rows, approach, final, handover, changes, signals>>
  OBVIOUS
<1>2. TypeInv'
  BY <1>1 DEF IInv, TypeInv
<1>3. NewestInv' /\ OrderInv' /\ PlausiblePathIsPossible'
  BY <1>1, RowsUnchanged
<1>4. WitnessInv'
  <2>1. Trusted' = Trusted
    BY <1>1 DEF Trusted, ActiveRows, PlausibleRows, AllRows
  <2> QED BY <1>1, <2>1 DEF IInv, WitnessInv
<1>5. SignalInv' /\ OneRouteChangePerVersion'
  BY <1>1 DEF IInv, SignalInv, OneRouteChangePerVersion
<1> QED BY <1>2, <1>3, <1>4, <1>5 DEF IInv

LEMMA NextIInv == IInv /\ [Next]_vars => IInv'
<1> SUFFICES ASSUME IInv, [Next]_vars PROVE IInv'
  OBVIOUS
<1>1. CASE Tick
  BY <1>1, ClockStep DEF Tick, IInv, TypeInv
<1>2. CASE \E client \in Reports, reading \in Readings :
             RecordDriverLocationObservation(client, reading) \/ RecordActiveJourneyLocation(client, reading)
  BY <1>2, PickupReportStep, ActiveReportStep
<1>3. CASE MarkDriverArrived \/ PassRideCheck \/ StartJourney
  BY <1>3, DecisionStep DEF MarkDriverArrived, PassRideCheck, StartJourney
<1>4. CASE \E types \in SUBSET {"SCHOOL", "WHEELCHAIR"} : MarkJourneyArriving(types)
  BY <1>4, ArrivingStep
<1>5. CASE CompleteJourney
  BY <1>5, CompleteStep
<1>6. CASE \E p \in People, k \in Keys, expected \in 2..version : RequestRouteChange(p, k, expected)
  BY <1>6, RouteChangeStep
<1>7. CASE \E p \in People \cup {Driver}, k \in Keys, kind \in Signals : CreateSafetySignal(p, k, kind)
  BY <1>7, SafetySignalStep
<1>8. CASE UNCHANGED vars
  BY <1>8, ClockStep DEF vars, IInv, TypeInv
<1> QED BY <1>1, <1>2, <1>3, <1>4, <1>5, <1>6, <1>7, <1>8 DEF Next

-----------------------------------------------------------------------------
(* The theorems. *)

\* In every state the reports are in the order that the code receives them, every
\* query for a newest one has an answer, and the evidence stands.
THEOREM Invariance == Spec => []IInv
  BY InitIInv, NextIInv, PTL DEF Spec

\* Every row, request and clock stays of its type.
THEOREM LiveTypes == Spec => []TypeInv
<1>1. IInv => TypeInv
  BY DEF IInv
<1> QED BY <1>1, Invariance, PTL

\* Whatever the order that reports come in, the plausible ones of the Journey are
\* a way that the vehicle can have gone.
THEOREM PathIsPossible == Spec => []PlausiblePathIsPossible
<1>1. IInv => PlausiblePathIsPossible
  BY DEF IInv
<1> QED BY <1>1, Invariance, PTL

\* No Journey is COMPLETED without its two witnesses.
THEOREM CompletionWitnessed == Spec => []CompletionIsWitnessed
<1>1. IInv => CompletionIsWitnessed
  BY DEF IInv, WitnessInv, CompletionIsWitnessed, Trusted
<1> QED BY <1>1, Invariance, PTL

\* What the page shows as good is what the next decision uses, and can use.
THEOREM ShownCounts == Spec => []ShownLocationCounts
<1>1. ASSUME IInv, LatestLocation \in ActiveRows,
             ShownTelemetry(rows[LatestLocation]) \in {"LIVE", "DELAYED"}
      PROVE  LatestActiveLocation = LatestLocation /\ UsableAt(rows[LatestLocation], now)
  <2>1. LatestLocation \in AllRows /\ IsNewest(AllRows, LatestLocation)
    BY <1>1, NewestOf DEF IInv, NewestInv, LatestLocation, ActiveRows
  <2>2. rows[LatestLocation].plausible /\ UsableAt(rows[LatestLocation], now)
    BY <1>1, EvidenceStateType DEF ShownTelemetry, UsableAt
  <2>3. LatestLocation \in Trusted /\ Trusted \subseteq AllRows
    BY <1>1, <2>1, <2>2 DEF Trusted, PlausibleRows, ActiveRows
  <2>4. IsNewest(Trusted, LatestLocation)
    BY <2>1, <2>3, NewestOfSubset
  <2>5. LatestActiveLocation = Newest(Trusted)
    BY DEF LatestActiveLocation, LatestActive, Trusted
  <2>6. IsNewest(Trusted, LatestActiveLocation)
    BY <1>1, <2>3, <2>5, NewestOf DEF IInv, NewestInv
  <2> QED BY <1>1, <2>2, <2>3, <2>4, <2>6, NewestUnique DEF IInv
<1>2. IInv => ShownLocationCounts
  BY <1>1 DEF ShownLocationCounts
<1> QED BY <1>2, Invariance, PTL

\* Nobody is shown a better health than the one that somebody was told.
THEOREM SignalNotPlayedDown == Spec => []SignalIsNotPlayedDown
<1>1. ASSUME IInv, NEW e \in signals
      PROVE  Rank[JourneyHealth] >= Rank[e.told]
  <2> DEFINE severities == {s.severity : s \in signals}
  <2>1. /\ e.told \in {"ATTENTION", "AT_RISK", "INCIDENT"} /\ e.severity = SafetySeverity(e.told)
        /\ e.severity \in severities
    BY <1>1 DEF IInv, TypeInv, Signal, SignalInv
  <2>2. JourneyHealth = IF "CRITICAL" \in severities THEN "INCIDENT"
                        ELSE IF "AT_RISK" \in severities THEN "AT_RISK"
                        ELSE IF severities = {} THEN "NORMAL" ELSE "ATTENTION"
    BY DEF JourneyHealth
  <2> HIDE DEF severities
  <2>3. CASE e.told = "INCIDENT"
    BY <2>1, <2>2, <2>3 DEF SafetySeverity, Rank
  <2>4. CASE e.told = "AT_RISK"
    BY <2>1, <2>2, <2>4 DEF SafetySeverity, Rank
  <2>5. CASE e.told = "ATTENTION"
    BY <2>1, <2>2, <2>5 DEF SafetySeverity, Rank
  <2> QED BY <2>1, <2>3, <2>4, <2>5
<1>2. IInv => SignalIsNotPlayedDown
  BY <1>1 DEF SignalIsNotPlayedDown
<1> QED BY <1>2, Invariance, PTL

\* No two route changes were made from one version, and none from a later one
\* than the Journey had.
THEOREM OneRouteChange == Spec => []OneRouteChangePerVersion
<1>1. IInv => OneRouteChangePerVersion
  BY DEF IInv
<1> QED BY <1>1, Invariance, PTL

=============================================================================
