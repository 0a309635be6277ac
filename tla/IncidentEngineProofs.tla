------------------------ MODULE IncidentEngineProofs ------------------------
(***************************************************************************)
(* IncidentEngine for every set of drones, detection cycles, operators and *)
(* readings, and every window: type correctness, one incident per          *)
(* suppression window, no downgrade, that it implements IncidentLog, and    *)
(* that its audit trail accounts for every status.                         *)
(***************************************************************************)
EXTENDS IncidentEngine, SequenceTheorems, TLAPS

\* A graded score is a severity, and merging two keeps one of them.
LEMMA GradingTypes ==
  ASSUME NEW s \in Nat, NEW p, p.critical \in Nat, p.high \in Nat
  PROVE  PolicySeverity(s, p) \in Severities
  BY DEF PolicySeverity, Severities

\* _merge_severity is at least the policy's band and never unranked.
LEMMA MergeProperties ==
  ASSUME NEW d \in Severities \cup {Unranked}, NEW p \in Severities
  PROVE  /\ MergeSeverity(d, p) \in Severities
         /\ MergeSeverity(d, p) >= p
         /\ MergeSeverity(d, p) >= d
  BY DEF MergeSeverity, Severities, Unranked

\* The row a cycle inserts is an incident.
LEMMA NewIncidentType ==
  ASSUME TypeOK, NEW w \in Detectors, pc[w] = "creating"
  PROVE  NewIncident(w) \in Incident
  <1>1. job[w] \in Job
    BY DEF TypeOK, AtRest
  <1>2. /\ Reading(w) \in Readings /\ Drone(w) \in Drones /\ job[w].policy \in Policies
        /\ job[w].startedAt \in Nat /\ job[w].checkedAt \in Nat
    BY <1>1 DEF Job, Reading, Drone
  <1>3. /\ Reading(w).score \in Scores /\ Reading(w).attack \in Attacks
        /\ Reading(w).score \in Nat
        /\ Reading(w).severity \in Severities \cup {Unranked}
    BY <1>2, ConstantsAssumption DEF Scores, Attacks
  <1>4. PolicySeverity(Reading(w).score, job[w].policy) \in Severities
    BY <1>2, <1>3, ConstantsAssumption, GradingTypes
  <1>5. MergeSeverity(Reading(w).severity,
                      PolicySeverity(Reading(w).score, job[w].policy)) \in Severities
    BY <1>3, <1>4, MergeProperties
  <1>6. NEW_ \in Statuses
    BY DEF NEW_, CLOSED, Statuses
  <1> QED
    BY <1>2, <1>3, <1>5, <1>6 DEF NewIncident, Incident

\* What a session holds of a row.
LEMMA RowType ==
  ASSUME NEW i \in Nat, NEW inc \in Incident
  PROVE  Row(i, inc) \in Seen
  BY DEF Row, Incident, Seen

\* Folding a reading into a row leaves an incident, of the same drone, status
\* and times.
LEMMA UpdatedType ==
  ASSUME TypeOK, NEW w \in Detectors, pc[w] = "updating", NEW inc \in Incident
  PROVE  /\ Updated(inc, w) \in Incident
         /\ Updated(inc, w).drone = inc.drone
         /\ Updated(inc, w).status = inc.status
         /\ Updated(inc, w).resolved = inc.resolved
         /\ Updated(inc, w).detectedAt = inc.detectedAt
         /\ Updated(inc, w).checkedAt = inc.checkedAt
  <1>1. job[w] \in Job /\ seen[w] \in Seen
    BY DEF TypeOK, AtRest
  <1>2. Reading(w) \in Readings /\ job[w].policy \in Policies
    BY <1>1 DEF Job, Reading
  <1>3. /\ Reading(w).score \in Scores /\ Reading(w).attack \in Attacks
        /\ Reading(w).score \in Nat
        /\ Reading(w).severity \in Severities \cup {Unranked}
    BY <1>2, ConstantsAssumption DEF Scores, Attacks
  <1>4. PolicySeverity(Reading(w).score, job[w].policy) \in Severities
    BY <1>2, <1>3, ConstantsAssumption, GradingTypes
  <1>5. FoldedSeverity(w) \in Severities
    BY <1>1, <1>4, MergeProperties DEF FoldedSeverity, Seen
  <1>6. FoldedAttack(w) \in Attacks
    BY <1>1, <1>3 DEF FoldedAttack, Seen
  <1>7. MergeSeverity(Reading(w).severity, inc.declared) \in Severities \cup {Unranked}
    BY <1>3 DEF MergeSeverity, Incident
  <1> QED
    BY <1>3, <1>5, <1>6, <1>7 DEF Updated, Incident

\* One more row is at the end of the table, and the others are unchanged.
LEMMA InsertedRows ==
  ASSUME TypeOK, NEW inc \in Incident
  PROVE  /\ Append(incidents, inc) \in Seq(Incident)
         /\ Len(Append(incidents, inc)) = Len(incidents) + 1
         /\ DOMAIN Append(incidents, inc) = 1 .. (Len(incidents) + 1)
         /\ DOMAIN incidents = 1 .. Len(incidents)
         /\ Len(incidents) \in Nat
         /\ \A i \in DOMAIN incidents : Append(incidents, inc)[i] = incidents[i]
         /\ Append(incidents, inc)[Len(incidents) + 1] = inc
  <1>1. incidents \in Seq(Incident)
    BY DEF TypeOK
  <1>2. /\ Len(incidents) \in Nat /\ DOMAIN incidents = 1 .. Len(incidents)
    BY <1>1, LenProperties
  <1>3. /\ Append(incidents, inc) \in Seq(Incident)
        /\ Len(Append(incidents, inc)) = Len(incidents) + 1
        /\ \A i \in 1 .. Len(incidents) : Append(incidents, inc)[i] = incidents[i]
        /\ Append(incidents, inc)[Len(incidents) + 1] = inc
    BY <1>1, AppendProperties
  <1>4. DOMAIN Append(incidents, inc) = 1 .. Len(Append(incidents, inc))
    BY <1>3, LenProperties
  <1> QED
    BY <1>2, <1>3, <1>4

\* An update of row r leaves the table's length and the other rows.
LEMMA UpdatedRows ==
  ASSUME TypeOK, NEW r \in DOMAIN incidents, NEW inc \in Incident
  PROVE  /\ [incidents EXCEPT ![r] = inc] \in Seq(Incident)
         /\ Len([incidents EXCEPT ![r] = inc]) = Len(incidents)
         /\ DOMAIN [incidents EXCEPT ![r] = inc] = DOMAIN incidents
         /\ \A i \in DOMAIN incidents :
              [incidents EXCEPT ![r] = inc][i] = IF i = r THEN inc ELSE incidents[i]
  <1>1. incidents \in Seq(Incident)
    BY DEF TypeOK
  <1>2. DOMAIN incidents = 1 .. Len(incidents)
    BY <1>1, LenProperties
  <1> QED
    BY <1>1, <1>2, ExceptSeq

\* The rows and their ids are typed.
LEMMA RowsTyped ==
  ASSUME TypeOK
  PROVE  /\ \A i \in DOMAIN incidents : i \in Nat /\ incidents[i] \in Incident
         /\ DOMAIN incidents = 1 .. Len(incidents)
         /\ Len(incidents) \in Nat
  <1>1. incidents \in Seq(Incident)
    BY DEF TypeOK
  <1>2. DOMAIN incidents = 1 .. Len(incidents) /\ Len(incidents) \in Nat
    BY <1>1, LenProperties
  <1> QED
    BY <1>1, <1>2, ElementOfSeq

\* A walk's rows are hops, and adding rows to a trail gives a trail.
LEMMA WalkType ==
  ASSUME NEW a \in Statuses, NEW b \in Statuses
  PROVE  Walk(a, b) \subseteq Hop
  BY DEF Walk, Statuses, NEW_, CLOSED, Hop

-----------------------------------------------------------------------------
\* Every step keeps the types: ids in sessions, requests and the lost set are
\* rows of the table, which only grows.
LEMMA TypeStep == TypeOK /\ [Next]_vars => TypeOK'
  <1> SUFFICES ASSUME TypeOK, [Next]_vars
               PROVE  TypeOK'
    OBVIOUS
  <1> USE DEF AtRest, Locked, Publishing, Steps
  <1>0. /\ \A i \in DOMAIN incidents : i \in Nat /\ incidents[i] \in Incident
        /\ DOMAIN incidents = 1 .. Len(incidents)
        /\ Len(incidents) \in Nat
    BY RowsTyped
  <1>1. ASSUME NEW w \in Detectors, BeginDetection(w)
        PROVE  TypeOK'
    <2>1. PICK d \in Drones, r \in Readings, p \in Policies :
            job' = [job EXCEPT ![w] = [drone |-> d, reading |-> r, policy |-> p,
                                       startedAt |-> clock, checkedAt |-> 0]]
      BY <1>1 DEF BeginDetection
    <2>2. [drone |-> d, reading |-> r, policy |-> p,
           startedAt |-> clock, checkedAt |-> 0] \in Job
      BY DEF TypeOK, Job
    <2> QED
      BY <1>1, <2>1, <2>2 DEF BeginDetection, TypeOK, table
  <1>2. ASSUME NEW w \in Detectors, AcquireLock(w)
        PROVE  TypeOK'
    BY <1>2 DEF AcquireLock, TypeOK, table
  <1>3. ASSUME NEW w \in Detectors, CheckSuppression(w)
        PROVE  TypeOK'
    <2>1. job[w] \in Job
      BY <1>3 DEF CheckSuppression, TypeOK
    <2>2. [job[w] EXCEPT !.checkedAt = clock] \in Job
      BY <2>1 DEF Job, TypeOK
    <2> QED
      BY <1>3, <2>2 DEF CheckSuppression, TypeOK, table
  <1>4. ASSUME NEW w \in Detectors, CreateIncident(w)
        PROVE  TypeOK'
    <2>1. NewIncident(w) \in Incident
      BY <1>4, NewIncidentType DEF CreateIncident
    <2>2. /\ incidents' \in Seq(Incident)
          /\ Len(incidents') = Len(incidents) + 1
          /\ DOMAIN incidents' = 1 .. (Len(incidents) + 1)
      BY <1>4, <2>1, InsertedRows DEF CreateIncident
    <2>3. Row(Len(incidents) + 1, NewIncident(w)) \in Seen
      BY <1>0, <2>1, RowType
    <2>4. trail' \in Seq(Trail) /\ Len(trail') = Len(trail) + 1
      <3>1. trail \in Seq(Trail) /\ NoRows \in Trail
        BY DEF TypeOK, NoRows, Trail
      <3> QED
        BY <1>4, <3>1, AppendProperties DEF CreateIncident
    <2>5. Row(Len(incidents) + 1, NewIncident(w)).id \in DOMAIN incidents'
      BY <1>0, <2>2 DEF Row
    <2>6. DOMAIN incidents \subseteq DOMAIN incidents'
      BY <1>0, <2>2
    <2> QED
      BY <1>4, <2>2, <2>3, <2>4, <2>5, <2>6 DEF CreateIncident, Release, TypeOK
  <1>5. ASSUME NEW w \in Detectors, LoadLive(w)
        PROVE  TypeOK'
    <2>1. CASE Finish(w, "dropped") /\ Release(Drone(w))
      BY <1>5, <2>1 DEF LoadLive, Finish, Release, TypeOK, table
    <2>2. CASE \E i \in NewestLive(Drone(w)) :
                 /\ seen' = [seen EXCEPT ![w] = Row(i, incidents[i])]
                 /\ pc' = [pc EXCEPT ![w] = "updating"]
                 /\ UNCHANGED <<lock, job>>
      <3>1. PICK i \in NewestLive(Drone(w)) :
                 /\ seen' = [seen EXCEPT ![w] = Row(i, incidents[i])]
                 /\ pc' = [pc EXCEPT ![w] = "updating"]
                 /\ UNCHANGED <<lock, job>>
        BY <2>2
      <3>2. i \in DOMAIN incidents
        BY DEF NewestLive, LiveIncidents
      <3>3. Row(i, incidents[i]) \in Seen /\ Row(i, incidents[i]).id = i
        BY <1>0, <3>2, RowType DEF Row
      <3> QED
        BY <1>5, <3>1, <3>2, <3>3 DEF LoadLive, TypeOK, table
    <2> QED
      BY <1>5, <2>1, <2>2 DEF LoadLive
  <1>6. ASSUME NEW w \in Detectors, UpdateIncident(w)
        PROVE  TypeOK'
    <2>1. seen[w].id \in DOMAIN incidents
      BY <1>6 DEF UpdateIncident, TypeOK
    <2>2. Updated(incidents[seen[w].id], w) \in Incident
      BY <1>0, <1>6, <2>1, UpdatedType DEF UpdateIncident
    <2>3. /\ incidents' \in Seq(Incident) /\ Len(incidents') = Len(incidents)
          /\ DOMAIN incidents' = DOMAIN incidents
      BY <1>6, <2>1, <2>2, UpdatedRows DEF UpdateIncident
    <2>4. CASE Escalated(w)
      BY <1>6, <2>3, <2>4 DEF UpdateIncident, Release, TypeOK
    <2>5. CASE ~Escalated(w)
      BY <1>6, <2>3, <2>5 DEF UpdateIncident, Release, Finish, TypeOK
    <2> QED
      BY <2>4, <2>5
  <1>7. ASSUME NEW w \in Detectors, RefreshIncident(w)
        PROVE  TypeOK'
    <2>1. seen[w].id \in DOMAIN incidents
      BY <1>7 DEF RefreshIncident, TypeOK
    <2>2. /\ Row(seen[w].id, incidents[seen[w].id]) \in Seen
          /\ Row(seen[w].id, incidents[seen[w].id]).id = seen[w].id
      BY <1>0, <2>1, RowType DEF Row
    <2> QED
      BY <1>7, <2>1, <2>2 DEF RefreshIncident, TypeOK, table
  <1>8. ASSUME NEW w \in Detectors, BroadcastIncident(w)
        PROVE  TypeOK'
    <2>1. [id |-> seen[w].id, severity |-> seen[w].severity,
           attack |-> seen[w].attack] \in Frame
      BY <1>8 DEF BroadcastIncident, TypeOK, Seen, Frame
    <2> QED
      BY <1>8, <2>1 DEF BroadcastIncident, Finish, TypeOK, table
  <1>9. ASSUME NEW w \in Detectors, FailDetection(w)
        PROVE  TypeOK'
    BY <1>9 DEF FailDetection, Release, Finish, TypeOK, table
  <1>10. ASSUME NEW w \in Detectors, FailBroadcast(w)
         PROVE  TypeOK'
    BY <1>10 DEF FailBroadcast, Finish, TypeOK, table
  <1>11. ASSUME NEW o \in Operators, LoadIncident(o)
         PROVE  TypeOK'
    <2>1. PICK i \in DOMAIN incidents, t \in Targets :
            request' = [request EXCEPT ![o] =
                          [id |-> i, from |-> incidents[i].status, to |-> t]]
      BY <1>11 DEF LoadIncident
    <2>2. t \in Statuses
      BY TargetsAssumption DEF Statuses, ACKNOWLEDGED, NEW_, CLOSED
    <2>3. [id |-> i, from |-> incidents[i].status, to |-> t] \in Request
      BY <1>0, <2>2 DEF Request, Incident
    <2> QED
      BY <1>11, <2>1, <2>3 DEF LoadIncident, TypeOK, table, detection
  <1>12. ASSUME NEW o \in Operators, CommitWalk(o)
         PROVE  TypeOK'
    <2> DEFINE q == request[o]
               inc == Walked(incidents[q.id], q)
    <2>1. q \in Request /\ q.id \in DOMAIN incidents
      BY <1>12 DEF CommitWalk, TypeOK
    <2>2. inc \in Incident
      BY <1>0, <2>1 DEF Walked, Request, Incident
    <2>3. incidents' = [incidents EXCEPT ![q.id] = inc]
      BY <1>12 DEF CommitWalk
    <2>4. /\ incidents' \in Seq(Incident) /\ Len(incidents') = Len(incidents)
          /\ DOMAIN incidents' = DOMAIN incidents
      BY <2>1, <2>2, <2>3, UpdatedRows
    <2>5. trail' \in Seq(Trail) /\ Len(trail') = Len(trail)
      <3>1. trail \in Seq(Trail) /\ q.id \in 1 .. Len(trail)
        BY <1>0, <2>1 DEF TypeOK
      <3>2. trail[q.id] \in Trail
        BY <3>1, ElementOfSeq
      <3>3. PICK rows : rows = [h \in Hop |-> IF h \in Walk(q.from, q.to)
                                             THEN trail[q.id][h] + 1 ELSE trail[q.id][h]]
        OBVIOUS
      <3>4. rows \in Trail
        BY <3>2, <3>3 DEF Trail
      <3>5. trail' = [trail EXCEPT ![q.id] = rows]
        BY <1>12, <3>3 DEF CommitWalk
      <3> QED
        BY <3>1, <3>4, <3>5, ExceptSeq
    <2> QED
      BY <1>12, <2>4, <2>5 DEF CommitWalk, TypeOK, detection
  <1>13. ASSUME NEW o \in Operators, FailRequest(o)
         PROVE  TypeOK'
    BY <1>13 DEF FailRequest, TypeOK, table, detection
  <1>14. CASE Tick
    BY <1>14 DEF Tick, TypeOK, table, detection
  <1>15. CASE UNCHANGED vars
    BY <1>15 DEF vars, TypeOK
  <1> QED
    BY <1>1, <1>2, <1>3, <1>4, <1>5, <1>6, <1>7, <1>8, <1>9, <1>10, <1>11, <1>12,
       <1>13, <1>14, <1>15 DEF Next, DetectionStep

\* Type correctness: in every behaviour the table, the sessions and the
\* requests hold values of their types, and sessions and requests name rows
\* that exist.
THEOREM TypeCorrect == Spec => []TypeOK
  <1>1. Init => TypeOK
    <2> SUFFICES ASSUME Init
                 PROVE  TypeOK
      OBVIOUS
    <2>1. /\ incidents \in Seq(Incident) /\ trail \in Seq(Trail)
          /\ Len(trail) = Len(incidents)
      BY EmptySeq DEF Init
    <2> QED
      BY <2>1 DEF Init, TypeOK, AtRest, Locked, Publishing, Steps
  <1> QED
    BY <1>1, TypeStep, PTL DEF Spec

-----------------------------------------------------------------------------
\* Two cycles between check and commit are of different drones.
LEMMA LockExclusive ==
  ASSUME LockHeld, NEW v \in Detectors, NEW w \in Detectors,
         pc[v] \in Locked, pc[w] \in Locked, Drone(v) = Drone(w)
  PROVE  v = w
  BY DEF LockHeld

\* Taking and releasing the lock keeps LockHeld: only a free lock is taken, and
\* a released one was the releasing cycle's.
LEMMA LockStep ==
  ASSUME TypeOK, LockHeld, [Next]_vars
  PROVE  LockHeld'
  <1> USE DEF LockHeld, Locked, AtRest, Publishing, Drone
  <1>1. ASSUME NEW w \in Detectors, BeginDetection(w) PROVE LockHeld'
    <2>1. /\ \A v \in Detectors \ {w} : job'[v] = job[v] /\ pc'[v] = pc[v]
          /\ pc'[w] = "waiting" /\ lock' = lock
      BY <1>1 DEF BeginDetection, TypeOK
    <2> QED
      BY <2>1
  <1>2. ASSUME NEW w \in Detectors, AcquireLock(w) PROVE LockHeld'
    <2>1. job[w].drone \in Drones
      BY <1>2 DEF AcquireLock, TypeOK, Job
    <2> QED
      BY <1>2, <2>1, ConstantsAssumption DEF AcquireLock, TypeOK
  <1>3. ASSUME NEW w \in Detectors, CheckSuppression(w) PROVE LockHeld'
    <2>1. job[w] \in Job
      BY <1>3 DEF CheckSuppression, TypeOK
    <2>2. \A v \in Detectors : job'[v].drone = job[v].drone
      BY <1>3, <2>1 DEF CheckSuppression, TypeOK, Job
    <2> QED
      BY <1>3, <2>2 DEF CheckSuppression, TypeOK
  <1>4. ASSUME NEW w \in Detectors, pc[w] \in Locked, pc'[w] \notin Locked,
               Release(Drone(w)),
               \A v \in Detectors \ {w} : job'[v] = job[v] /\ pc'[v] = pc[v]
        PROVE  LockHeld'
    BY <1>4 DEF Release, TypeOK
  <1>5. ASSUME NEW w \in Detectors, CreateIncident(w) PROVE LockHeld'
    BY <1>4, <1>5 DEF CreateIncident, TypeOK
  <1>6. ASSUME NEW w \in Detectors, LoadLive(w) PROVE LockHeld'
    <2>1. CASE Finish(w, "dropped") /\ Release(Drone(w))
      BY <1>4, <1>6, <2>1 DEF LoadLive, Finish, TypeOK
    <2>2. CASE pc' = [pc EXCEPT ![w] = "updating"] /\ UNCHANGED <<lock, job>>
      BY <1>6, <2>2 DEF LoadLive, TypeOK
    <2> QED
      BY <1>6, <2>1, <2>2 DEF LoadLive
  <1>7. ASSUME NEW w \in Detectors, UpdateIncident(w) PROVE LockHeld'
    BY <1>4, <1>7 DEF UpdateIncident, Finish, TypeOK
  <1>8. ASSUME NEW w \in Detectors, RefreshIncident(w) PROVE LockHeld'
    BY <1>8 DEF RefreshIncident, TypeOK
  <1>9. ASSUME NEW w \in Detectors, BroadcastIncident(w) PROVE LockHeld'
    BY <1>9 DEF BroadcastIncident, Finish, TypeOK
  <1>10. ASSUME NEW w \in Detectors, FailDetection(w) PROVE LockHeld'
    <2>1. CASE pc[w] = "waiting"
      BY <1>10, <2>1 DEF FailDetection, Finish, TypeOK
    <2>2. CASE pc[w] # "waiting"
      BY <1>4, <1>10, <2>2 DEF FailDetection, Finish, TypeOK
    <2> QED
      BY <2>1, <2>2
  <1>11. ASSUME NEW w \in Detectors, FailBroadcast(w) PROVE LockHeld'
    BY <1>11 DEF FailBroadcast, Finish, TypeOK
  <1>12. ASSUME NEW o \in Operators, LoadIncident(o) \/ CommitWalk(o) \/ FailRequest(o)
         PROVE  LockHeld'
    BY <1>12 DEF LoadIncident, CommitWalk, FailRequest, detection
  <1>13. CASE Tick
    BY <1>13 DEF Tick, detection
  <1>14. CASE UNCHANGED vars
    BY <1>14 DEF vars
  <1> QED
    BY <1>1, <1>2, <1>3, <1>5, <1>6, <1>7, <1>8, <1>9, <1>10, <1>11, <1>12, <1>13,
       <1>14 DEF Next, DetectionStep

-----------------------------------------------------------------------------
Facts == NotLiveIsResolved /\ CheckHolds /\ SeenIsFresh /\ OneIncidentPerWindow

\* What a step that writes no incident needs: no cycle enters "creating" or
\* "updating", none already there changes what it has read, no request appears.
LEMMA QuietStep ==
  ASSUME Facts, incidents' = incidents,
         \A v \in Detectors : pc'[v] \in {"creating", "updating"} =>
           pc'[v] = pc[v] /\ job'[v] = job[v] /\ seen'[v] = seen[v],
         \A o \in Operators : request'[o] # None => request'[o] = request[o]
  PROVE  Facts'
  <1>1. NotLiveIsResolved'
    BY DEF Facts, NotLiveIsResolved, Live
  <1>2. CheckHolds'
    BY DEF Facts, CheckHolds, Drone
  <1>3. SeenIsFresh'
    BY DEF Facts, SeenIsFresh, Drone, Row
  <1>4. OneIncidentPerWindow'
    BY DEF Facts, OneIncidentPerWindow
  <1> QED
    BY <1>1, <1>2, <1>3, <1>4 DEF Facts

\* The suppression check finds every unresolved incident in the window.
LEMMA CheckSuppressionStep ==
  ASSUME TypeOK, Facts, NEW w \in Detectors, CheckSuppression(w)
  PROVE  Facts'
  <1> USE DEF CheckSuppression
  <1>1. job[w] \in Job
    BY DEF TypeOK, AtRest
  <1>2. /\ job'[w].checkedAt = clock /\ job'[w].drone = job[w].drone
        /\ \A v \in Detectors \ {w} : job'[v] = job[v] /\ pc'[v] = pc[v]
        /\ pc'[w] # "updating"
        /\ pc'[w] = "creating" => ~Suppressed(Drone(w))
        /\ incidents' = incidents /\ seen' = seen /\ request' = request
    BY <1>1 DEF TypeOK, Job, table
  <1>3. NotLiveIsResolved'
    BY <1>2 DEF Facts, NotLiveIsResolved, Live
  <1>4. CheckHolds'
    <2> SUFFICES ASSUME NEW v \in Detectors, pc'[v] = "creating",
                        NEW i \in DOMAIN incidents,
                        incidents[i].drone = job'[v].drone, ~incidents[i].resolved
                 PROVE  incidents[i].detectedAt + Window < job'[v].checkedAt
      BY <1>2 DEF CheckHolds, Drone
    <2>1. CASE v # w
      BY <1>2, <2>1 DEF Facts, CheckHolds, Drone
    <2>2. CASE v = w
      <3>1. Live(i)
        BY DEF Facts, NotLiveIsResolved
      <3>2. ~(incidents[i].detectedAt + Window >= clock)
        BY <1>2, <2>2, <3>1 DEF Suppressed, Drone
      <3>3. incidents[i] \in Incident
        BY RowsTyped
      <3>4. incidents[i].detectedAt \in Nat /\ clock \in Nat
        BY <3>3 DEF TypeOK, Incident
      <3> QED
        BY <1>2, <2>2, <3>2, <3>4, ConstantsAssumption
    <2> QED
      BY <2>1, <2>2
  <1>5. SeenIsFresh'
    BY <1>2 DEF Facts, SeenIsFresh, Drone, Row
  <1>6. OneIncidentPerWindow'
    BY <1>2 DEF Facts, OneIncidentPerWindow
  <1> QED
    BY <1>3, <1>4, <1>5, <1>6 DEF Facts

\* An insert respects the window, and no other cycle is counting on the drone.
LEMMA CreateIncidentStep ==
  ASSUME TypeOK, LockHeld, Facts, NEW w \in Detectors, CreateIncident(w)
  PROVE  Facts'
  <1> USE DEF CreateIncident
  <1> DEFINE n == Len(incidents) + 1
  <1>1. NewIncident(w) \in Incident
    BY NewIncidentType
  <1>2. /\ incidents' \in Seq(Incident)
        /\ DOMAIN incidents' = 1 .. n
        /\ DOMAIN incidents = 1 .. Len(incidents)
        /\ Len(incidents) \in Nat
        /\ \A i \in DOMAIN incidents : incidents'[i] = incidents[i]
        /\ incidents'[n] = NewIncident(w)
    BY <1>1, InsertedRows
  <1>3. /\ incidents'[n].drone = Drone(w) /\ incidents'[n].status = NEW_
        /\ incidents'[n].checkedAt = job[w].checkedAt
    BY <1>2 DEF NewIncident
  <1>4. /\ \A v \in Detectors \ {w} : pc'[v] = pc[v] /\ seen'[v] = seen[v]
        /\ pc'[w] = "refreshing" /\ job' = job /\ request' = request
    BY DEF TypeOK
  <1>5. \A v \in Detectors \ {w} : pc[v] \in Locked => Drone(v) # Drone(w)
    BY LockExclusive DEF Locked
  <1>6. NotLiveIsResolved'
    <2>1. \A i \in DOMAIN incidents' : ~Live(i)' => incidents'[i].resolved
      BY <1>2, <1>3 DEF Facts, NotLiveIsResolved, Live, LiveStatuses, NEW_, CONTAINED
    <2>2. \A o \in Operators : request[o] # None => request[o].id \in DOMAIN incidents
      BY DEF TypeOK
    <2> QED
      BY <1>2, <1>4, <2>1, <2>2 DEF Facts, NotLiveIsResolved
  <1>7. CheckHolds'
    <2> SUFFICES ASSUME NEW v \in Detectors, pc'[v] = "creating",
                        NEW i \in DOMAIN incidents',
                        incidents'[i].drone = Drone(v), ~incidents'[i].resolved
                 PROVE  incidents'[i].detectedAt + Window < job[v].checkedAt
      BY <1>4 DEF CheckHolds, Drone
    <2>1. v # w /\ pc[v] = "creating"
      BY <1>4
    <2>2. i # n
      BY <1>3, <1>5, <2>1 DEF Locked
    <2>3. i \in DOMAIN incidents /\ incidents'[i] = incidents[i]
      BY <1>2, <2>2
    <2> QED
      BY <2>1, <2>3 DEF Facts, CheckHolds
  <1>8. SeenIsFresh'
    <2>1. \A v \in Detectors : pc[v] = "updating" => seen[v].id \in DOMAIN incidents
      BY DEF TypeOK
    <2>2. ASSUME NEW v \in Detectors, pc'[v] = "updating"
          PROVE  /\ incidents'[seen'[v].id].drone = job'[v].drone
                 /\ Row(seen'[v].id, incidents'[seen'[v].id]) = seen'[v]
      <3>1. v # w /\ pc[v] = "updating" /\ seen'[v] = seen[v] /\ job'[v] = job[v]
        BY <1>4, <2>2
      <3>2. incidents'[seen[v].id] = incidents[seen[v].id]
        BY <1>2, <2>1, <3>1
      <3> QED
        BY <3>1, <3>2 DEF Facts, SeenIsFresh, Drone
    <2> QED
      BY <2>2 DEF SeenIsFresh, Drone, Row
  <1>9. OneIncidentPerWindow'
    <2> SUFFICES ASSUME NEW i \in DOMAIN incidents', NEW j \in DOMAIN incidents', i < j,
                        incidents'[i].drone = incidents'[j].drone, ~incidents'[i].resolved
                 PROVE  incidents'[i].detectedAt + Window < incidents'[j].checkedAt
      BY DEF OneIncidentPerWindow
    <2>1. i \in DOMAIN incidents /\ incidents'[i] = incidents[i]
      BY <1>2
    <2>2. CASE j = n
      BY <1>3, <2>1, <2>2 DEF Facts, CheckHolds
    <2>3. CASE j # n
      <3>1. j \in DOMAIN incidents /\ incidents'[j] = incidents[j]
        BY <1>2, <2>3
      <3> QED
        BY <2>1, <3>1 DEF Facts, OneIncidentPerWindow
    <2> QED
      BY <2>2, <2>3
  <1> QED
    BY <1>6, <1>7, <1>8, <1>9 DEF Facts

\* The row selected for folding is the drone's, as stored.
LEMMA SelectStep ==
  ASSUME TypeOK, Facts, NEW w \in Detectors, NEW i \in NewestLive(Drone(w)),
         pc[w] = "folding",
         seen' = [seen EXCEPT ![w] = Row(i, incidents[i])],
         pc' = [pc EXCEPT ![w] = "updating"],
         UNCHANGED <<incidents, job, request>>
  PROVE  Facts'
  <1>1. i \in DOMAIN incidents /\ incidents[i].drone = Drone(w)
    BY DEF NewestLive, LiveIncidents
  <1>2. /\ \A v \in Detectors \ {w} : pc'[v] = pc[v] /\ seen'[v] = seen[v]
        /\ pc'[w] = "updating" /\ seen'[w] = Row(i, incidents[i])
    BY DEF TypeOK
  <1>3. NotLiveIsResolved' /\ OneIncidentPerWindow'
    BY DEF Facts, NotLiveIsResolved, OneIncidentPerWindow, Live
  <1>4. CheckHolds'
    BY <1>2 DEF Facts, CheckHolds, Drone
  <1>5. SeenIsFresh'
    BY <1>1, <1>2 DEF Facts, SeenIsFresh, Drone, Row
  <1> QED
    BY <1>3, <1>4, <1>5 DEF Facts

\* Folding changes neither what identifies a row nor what bounds its window, and
\* no other cycle holds a row of this drone.
LEMMA UpdateIncidentStep ==
  ASSUME TypeOK, LockHeld, Facts, NEW w \in Detectors, UpdateIncident(w)
  PROVE  Facts'
  <1> USE DEF UpdateIncident
  <1> DEFINE r == seen[w].id
  <1>1. r \in DOMAIN incidents /\ incidents[r] \in Incident
    BY RowsTyped DEF TypeOK
  <1>2. /\ Updated(incidents[r], w) \in Incident
        /\ Updated(incidents[r], w).drone = incidents[r].drone
        /\ Updated(incidents[r], w).status = incidents[r].status
        /\ Updated(incidents[r], w).resolved = incidents[r].resolved
        /\ Updated(incidents[r], w).detectedAt = incidents[r].detectedAt
        /\ Updated(incidents[r], w).checkedAt = incidents[r].checkedAt
    BY <1>1, UpdatedType
  <1>3. /\ DOMAIN incidents' = DOMAIN incidents
        /\ \A i \in DOMAIN incidents :
             incidents'[i] = IF i = r THEN Updated(incidents[r], w) ELSE incidents[i]
    BY <1>1, <1>2, UpdatedRows
  <1>4. \A i \in DOMAIN incidents :
          /\ incidents'[i].drone = incidents[i].drone
          /\ incidents'[i].status = incidents[i].status
          /\ incidents'[i].resolved = incidents[i].resolved
          /\ incidents'[i].detectedAt = incidents[i].detectedAt
          /\ incidents'[i].checkedAt = incidents[i].checkedAt
    BY <1>2, <1>3
  <1>5. /\ \A v \in Detectors \ {w} :
             pc'[v] = pc[v] /\ seen'[v] = seen[v] /\ job'[v] = job[v]
        /\ pc'[w] \in {"refreshing", "idle"} /\ request' = request
    BY DEF Finish, TypeOK
  <1>6. NotLiveIsResolved'
    <2>1. \A o \in Operators : request[o] # None => request[o].id \in DOMAIN incidents
      BY DEF TypeOK
    <2> QED
      BY <1>3, <1>4, <1>5, <2>1 DEF Facts, NotLiveIsResolved, Live
  <1>7. CheckHolds'
    BY <1>3, <1>4, <1>5 DEF Facts, CheckHolds, Drone
  <1>8. SeenIsFresh'
    <2>1. ASSUME NEW v \in Detectors, pc'[v] = "updating"
          PROVE  /\ incidents'[seen'[v].id].drone = job'[v].drone
                 /\ Row(seen'[v].id, incidents'[seen'[v].id]) = seen'[v]
      <3>1. v # w /\ pc[v] = "updating" /\ seen'[v] = seen[v] /\ job'[v] = job[v]
        BY <1>5, <2>1
      <3>2. seen[v].id \in DOMAIN incidents
        BY <3>1 DEF TypeOK
      <3>3. Drone(v) # Drone(w)
        BY <3>1, LockExclusive DEF Locked
      <3>4. seen[v].id # r
        BY <3>1, <3>3 DEF Facts, SeenIsFresh
      <3>5. incidents'[seen[v].id] = incidents[seen[v].id]
        BY <1>3, <3>2, <3>4
      <3> QED
        BY <3>1, <3>5 DEF Facts, SeenIsFresh, Drone
    <2> QED
      BY <2>1 DEF SeenIsFresh, Drone, Row
  <1>9. OneIncidentPerWindow'
    BY <1>3, <1>4 DEF Facts, OneIncidentPerWindow
  <1> QED
    BY <1>6, <1>7, <1>8, <1>9 DEF Facts

\* A request remembers RESOLVED or later only of an incident that was resolved.
LEMMA LoadIncidentStep ==
  ASSUME TypeOK, Facts, NEW o \in Operators, LoadIncident(o)
  PROVE  Facts'
  <1>1. PICK i \in DOMAIN incidents, t \in Targets :
          request' = [request EXCEPT ![o] =
                        [id |-> i, from |-> incidents[i].status, to |-> t]]
    BY DEF LoadIncident
  <1>2. /\ \A p \in Operators \ {o} : request'[p] = request[p]
        /\ request'[o] = [id |-> i, from |-> incidents[i].status, to |-> t]
        /\ incidents' = incidents /\ pc' = pc /\ job' = job /\ seen' = seen
    BY <1>1 DEF LoadIncident, TypeOK, table, detection
  <1>3. incidents[i].status >= RESOLVED => incidents[i].resolved
    BY DEF Facts, NotLiveIsResolved, Live, LiveStatuses, RESOLVED, CONTAINED
  <1>4. NotLiveIsResolved'
    BY <1>2, <1>3 DEF Facts, NotLiveIsResolved, Live
  <1>5. CheckHolds' /\ SeenIsFresh' /\ OneIncidentPerWindow'
    BY <1>2 DEF Facts, CheckHolds, SeenIsFresh, OneIncidentPerWindow, Drone, Row
  <1> QED
    BY <1>4, <1>5 DEF Facts

\* A walk changes the status, and resolves an incident it takes past CONTAINED.
LEMMA CommitWalkStep ==
  ASSUME TypeOK, Facts, NEW o \in Operators, CommitWalk(o)
  PROVE  Facts'
  <1> DEFINE q == request[o]
  <1>1. /\ q # None /\ q \in Request /\ q.id \in DOMAIN incidents
        /\ incidents[q.id] \in Incident
    BY RowsTyped DEF CommitWalk, TypeOK
  <1>2. Walked(incidents[q.id], q) \in Incident
    BY <1>1 DEF Walked, Request, Incident
  <1>3. /\ DOMAIN incidents' = DOMAIN incidents
        /\ \A i \in DOMAIN incidents :
             incidents'[i] = IF i = q.id THEN Walked(incidents[i], q) ELSE incidents[i]
    BY <1>1, <1>2, UpdatedRows DEF CommitWalk
  <1>4. \A i \in DOMAIN incidents :
          /\ incidents'[i].drone = incidents[i].drone
          /\ incidents'[i].severity = incidents[i].severity
          /\ incidents'[i].score = incidents[i].score
          /\ incidents'[i].attack = incidents[i].attack
          /\ incidents'[i].detectedAt = incidents[i].detectedAt
          /\ incidents'[i].checkedAt = incidents[i].checkedAt
          /\ incidents[i].resolved => incidents'[i].resolved
    BY <1>1, <1>3 DEF Walked, Incident
  <1>5. /\ \A p \in Operators : request'[p] # None => request'[p] = request[p]
        /\ pc' = pc /\ job' = job /\ seen' = seen
    BY DEF CommitWalk, TypeOK, detection
  <1>6. NotLiveIsResolved'
    <2>1. ASSUME ~(incidents'[q.id].status \in LiveStatuses)
          PROVE  incidents'[q.id].resolved
      <3>1. incidents'[q.id].status = q.to
        BY <1>1, <1>3 DEF Walked, Incident
      <3>2. q.to >= RESOLVED /\ q.from \in Nat
        BY <1>1, <2>1, <3>1
           DEF Request, Statuses, LiveStatuses, NEW_, CLOSED, CONTAINED, RESOLVED
      <3>3. CASE q.from < RESOLVED
        BY <1>1, <1>3, <3>2, <3>3 DEF Walked, Incident
      <3>4. CASE q.from >= RESOLVED
        BY <1>1, <1>4, <3>4 DEF Facts, NotLiveIsResolved
      <3> QED
        BY <3>2, <3>3, <3>4 DEF RESOLVED
    <2>2. \A p \in Operators : request[p] # None => request[p].id \in DOMAIN incidents
      BY DEF TypeOK
    <2> QED
      BY <1>3, <1>4, <1>5, <2>1, <2>2 DEF Facts, NotLiveIsResolved, Live
  <1>7. CheckHolds'
    BY <1>3, <1>4, <1>5 DEF Facts, CheckHolds, Drone
  <1>8. SeenIsFresh'
    <2>1. \A v \in Detectors : pc[v] = "updating" => seen[v].id \in DOMAIN incidents
      BY DEF TypeOK
    <2> QED
      BY <1>4, <1>5, <2>1 DEF Facts, SeenIsFresh, Drone, Row
  <1>9. OneIncidentPerWindow'
    BY <1>3, <1>4 DEF Facts, OneIncidentPerWindow
  <1> QED
    BY <1>6, <1>7, <1>8, <1>9 DEF Facts

-----------------------------------------------------------------------------
\* Consistent is inductive, given the types.
LEMMA ConsistentStep == TypeOK /\ Consistent /\ [Next]_vars => Consistent'
  <1> SUFFICES ASSUME TypeOK, Consistent, [Next]_vars
               PROVE  Consistent'
    OBVIOUS
  <1>0. LockHeld /\ Facts
    BY DEF Consistent, Facts
  <1>1. LockHeld'
    BY <1>0, LockStep
  <1>2. Facts'
    <2>1. ASSUME NEW w \in Detectors, BeginDetection(w) PROVE Facts'
      BY <1>0, <2>1, QuietStep DEF BeginDetection, TypeOK, table
    <2>2. ASSUME NEW w \in Detectors, AcquireLock(w) PROVE Facts'
      BY <1>0, <2>2, QuietStep DEF AcquireLock, TypeOK, table
    <2>3. ASSUME NEW w \in Detectors, CheckSuppression(w) PROVE Facts'
      BY <1>0, <2>3, CheckSuppressionStep
    <2>4. ASSUME NEW w \in Detectors, CreateIncident(w) PROVE Facts'
      BY <1>0, <2>4, CreateIncidentStep
    <2>5. ASSUME NEW w \in Detectors, LoadLive(w) PROVE Facts'
      <3>1. CASE Finish(w, "dropped")
        BY <1>0, <2>5, <3>1, QuietStep DEF LoadLive, Finish, TypeOK, table
      <3>2. CASE \E i \in NewestLive(Drone(w)) :
                   /\ seen' = [seen EXCEPT ![w] = Row(i, incidents[i])]
                   /\ pc' = [pc EXCEPT ![w] = "updating"]
                   /\ UNCHANGED <<lock, job>>
        BY <1>0, <2>5, <3>2, SelectStep DEF LoadLive, table
      <3> QED
        BY <2>5, <3>1, <3>2 DEF LoadLive
    <2>6. ASSUME NEW w \in Detectors, UpdateIncident(w) PROVE Facts'
      BY <1>0, <2>6, UpdateIncidentStep
    <2>7. ASSUME NEW w \in Detectors, RefreshIncident(w) PROVE Facts'
      BY <1>0, <2>7, QuietStep DEF RefreshIncident, TypeOK, table
    <2>8. ASSUME NEW w \in Detectors, BroadcastIncident(w) PROVE Facts'
      BY <1>0, <2>8, QuietStep DEF BroadcastIncident, Finish, TypeOK, table
    <2>9. ASSUME NEW w \in Detectors, FailDetection(w) PROVE Facts'
      BY <1>0, <2>9, QuietStep DEF FailDetection, Finish, TypeOK, table
    <2>10. ASSUME NEW w \in Detectors, FailBroadcast(w) PROVE Facts'
      BY <1>0, <2>10, QuietStep DEF FailBroadcast, Finish, TypeOK, table
    <2>11. ASSUME NEW o \in Operators, LoadIncident(o) PROVE Facts'
      BY <1>0, <2>11, LoadIncidentStep
    <2>12. ASSUME NEW o \in Operators, CommitWalk(o) PROVE Facts'
      BY <1>0, <2>12, CommitWalkStep
    <2>13. ASSUME NEW o \in Operators, FailRequest(o) PROVE Facts'
      BY <1>0, <2>13, QuietStep DEF FailRequest, TypeOK, table, detection
    <2>14. CASE Tick
      BY <1>0, <2>14, QuietStep DEF Tick, table, detection
    <2>15. CASE UNCHANGED vars
      BY <1>0, <2>15, QuietStep DEF vars
    <2> QED
      BY <2>1, <2>2, <2>3, <2>4, <2>5, <2>6, <2>7, <2>8, <2>9, <2>10, <2>11, <2>12,
         <2>13, <2>14, <2>15 DEF Next, DetectionStep
  <1> QED
    BY <1>1, <1>2 DEF Facts, Consistent

\* What a cycle read still holds when it commits: it holds its drone's lock
\* from check to commit, and nothing operators write in between can bring an
\* unresolved incident into its window or change the row it grades.
THEOREM Consistency == Spec => []Consistent
  <1>1. Init => Consistent
    BY DEF Init, Consistent, LockHeld, NotLiveIsResolved, CheckHolds, SeenIsFresh,
           OneIncidentPerWindow, Locked
  <1> QED
    BY <1>1, TypeCorrect, ConsistentStep, PTL DEF Spec

\* Within the window one drone means one incident, whatever cycles of however
\* many packets race to raise it, until an operator resolves it.
THEOREM WindowHolds == Spec => []OneIncidentPerWindow
  <1>1. Consistent => OneIncidentPerWindow
    BY DEF Consistent
  <1> QED
    BY <1>1, Consistency, PTL

\* What a cycle writes into the row it has read: the row is still as it read it,
\* no value gets better, and the cycle goes on to tell if one operators see
\* changed.
LEMMA Folding ==
  ASSUME TypeOK, Consistent, NEW w \in Detectors, UpdateIncident(w)
  PROVE  LET r == seen[w].id
             old == incidents[r]
             new == incidents'[r] IN
         /\ r \in DOMAIN incidents /\ DOMAIN incidents' = DOMAIN incidents
         /\ old \in Incident /\ new \in Incident
         /\ incidents'[r] = Updated(old, w)
         /\ \A i \in DOMAIN incidents \ {r} : incidents'[i] = incidents[i]
         /\ new.severity = FoldedSeverity(w) /\ new.severity >= old.severity
         /\ new.attack = FoldedAttack(w)
         /\ new.score = IF Worse(w) THEN Reading(w).score ELSE old.score
         /\ Worse(w) <=> Reading(w).score > old.score
         /\ Worse(w) => new.attack = Reading(w).attack
         /\ ~Worse(w) => new.severity = old.severity /\ new.attack = old.attack
         /\ new.drone = old.drone /\ new.detectedAt = old.detectedAt
         /\ new.resolved = old.resolved
         /\ Escalated(w) <=> new.severity # old.severity \/ new.attack # old.attack
  <1> DEFINE r == seen[w].id
             old == incidents[r]
             new == Updated(old, w)
  <1>1. r \in DOMAIN incidents /\ old \in Incident /\ seen[w] \in Seen
    BY RowsTyped DEF UpdateIncident, TypeOK
  <1>2. /\ new \in Incident /\ new.drone = old.drone
        /\ new.detectedAt = old.detectedAt /\ new.resolved = old.resolved
    BY <1>1, UpdatedType DEF UpdateIncident
  <1>3. /\ DOMAIN incidents' = DOMAIN incidents
        /\ \A i \in DOMAIN incidents : incidents'[i] = IF i = r THEN new ELSE incidents[i]
    BY <1>1, <1>2, UpdatedRows DEF UpdateIncident
  <1>4. /\ seen[w].severity = old.severity /\ seen[w].score = old.score
        /\ seen[w].attack = old.attack
    <2>1. Row(r, old) = seen[w]
      BY DEF Consistent, SeenIsFresh, UpdateIncident
    <2>2. /\ Row(r, old).severity = old.severity /\ Row(r, old).score = old.score
          /\ Row(r, old).attack = old.attack
      BY DEF Row
    <2> QED
      BY <2>1, <2>2
  <1>5. job[w] \in Job /\ Reading(w) \in Readings /\ Reading(w).score \in Nat
    BY ConstantsAssumption DEF UpdateIncident, TypeOK, AtRest, Job, Reading
  <1>6. PolicySeverity(Reading(w).score, job[w].policy) \in Severities
    BY <1>5, ConstantsAssumption, GradingTypes DEF Job
  <1>7. old.severity \in Severities
    BY <1>1 DEF Incident
  <1>8. FoldedSeverity(w) \in Severities /\ FoldedSeverity(w) >= old.severity
    BY <1>4, <1>6, <1>7, MergeProperties DEF FoldedSeverity, Severities
  <1>9. /\ new.severity = FoldedSeverity(w) /\ new.attack = FoldedAttack(w)
        /\ new.score = IF Worse(w) THEN Reading(w).score ELSE old.score
    BY <1>1, <1>4 DEF Updated, Incident
  <1>10. /\ Worse(w) => FoldedAttack(w) = Reading(w).attack
         /\ ~Worse(w) => FoldedSeverity(w) = old.severity /\ FoldedAttack(w) = old.attack
         /\ Worse(w) <=> Reading(w).score > old.score
    BY <1>4 DEF Worse, FoldedAttack, FoldedSeverity
  <1>11. Escalated(w) <=> FoldedSeverity(w) # old.severity \/ FoldedAttack(w) # old.attack
    BY <1>4, <1>7, <1>8 DEF Escalated, Severities
  <1> QED
    BY <1>1, <1>2, <1>3, <1>8, <1>9, <1>10, <1>11

\* A reading folded into an incident, graded from a row read earlier, never
\* lowers its severity or score, and relabels it only with a worse score.
THEOREM Monotone == Spec => NeverDowngraded
  <1> DEFINE Kept ==
        \A i \in DOMAIN incidents :
          /\ incidents'[i].severity >= incidents[i].severity
          /\ incidents'[i].score >= incidents[i].score
          /\ incidents'[i].attack # incidents[i].attack =>
               incidents'[i].score > incidents[i].score
  <1>1. TypeOK /\ Consistent /\ [Next]_vars => [Kept]_vars
    <2> SUFFICES ASSUME TypeOK, Consistent, [Next]_vars
                 PROVE  Kept
      OBVIOUS
    <2>0. \A i \in DOMAIN incidents :
            /\ incidents[i] \in Incident
            /\ incidents[i].severity \in Nat /\ incidents[i].score \in Nat
      BY RowsTyped, ConstantsAssumption DEF Incident, Severities, Scores
    <2>1. ASSUME incidents' = incidents PROVE Kept
      BY <2>0, <2>1
    <2>2. ASSUME NEW w \in Detectors, CreateIncident(w) PROVE Kept
      <3>1. NewIncident(w) \in Incident
        BY <2>2, NewIncidentType DEF CreateIncident
      <3> QED
        BY <2>0, <2>2, <3>1, InsertedRows DEF CreateIncident
    <2>3. ASSUME NEW w \in Detectors, UpdateIncident(w) PROVE Kept
      <3>1. PICK r : r = seen[w].id
        OBVIOUS
      <3>2. /\ \A i \in DOMAIN incidents \ {r} : incidents'[i] = incidents[i]
            /\ incidents'[r].severity >= incidents[r].severity
            /\ incidents'[r].score = IF Worse(w) THEN Reading(w).score ELSE incidents[r].score
            /\ Worse(w) <=> Reading(w).score > incidents[r].score
            /\ ~Worse(w) => incidents'[r].attack = incidents[r].attack
        BY <2>3, <3>1, Folding
      <3>3. r \in DOMAIN incidents /\ Reading(w).score \in Nat
        BY <2>3, <3>1, ConstantsAssumption
           DEF UpdateIncident, TypeOK, AtRest, Job, Reading
      <3> QED
        BY <2>0, <3>2, <3>3
    <2>4. ASSUME NEW o \in Operators, CommitWalk(o) PROVE Kept
      <3> DEFINE q == request[o]
      <3>1. q \in Request /\ q.id \in DOMAIN incidents
        BY <2>4 DEF CommitWalk, TypeOK
      <3>2. Walked(incidents[q.id], q) \in Incident
        BY <2>0, <3>1 DEF Walked, Request, Incident
      <3>3. \A i \in DOMAIN incidents :
              incidents'[i] = IF i = q.id THEN Walked(incidents[i], q) ELSE incidents[i]
        BY <2>4, <3>1, <3>2, UpdatedRows DEF CommitWalk
      <3>4. \A i \in DOMAIN incidents :
              /\ incidents'[i].severity = incidents[i].severity
              /\ incidents'[i].score = incidents[i].score
              /\ incidents'[i].attack = incidents[i].attack
        BY <2>0, <3>3 DEF Walked, Incident
      <3> QED
        BY <2>0, <3>4
    <2>5. ASSUME NEW w \in Detectors,
                 \/ BeginDetection(w) \/ AcquireLock(w) \/ CheckSuppression(w)
                 \/ LoadLive(w) \/ RefreshIncident(w) \/ BroadcastIncident(w)
                 \/ FailDetection(w) \/ FailBroadcast(w)
          PROVE  Kept
      BY <2>1, <2>5 DEF BeginDetection, AcquireLock, CheckSuppression, LoadLive,
                        RefreshIncident, BroadcastIncident, FailDetection,
                        FailBroadcast, table
    <2>6. ASSUME NEW o \in Operators, LoadIncident(o) \/ FailRequest(o) PROVE Kept
      BY <2>1, <2>6 DEF LoadIncident, FailRequest, table
    <2>7. CASE Tick
      BY <2>1, <2>7 DEF Tick, table
    <2>8. CASE UNCHANGED vars
      BY <2>1, <2>8 DEF vars
    <2> QED
      BY <2>2, <2>3, <2>4, <2>5, <2>6, <2>7, <2>8 DEF Next, DetectionStep
  <1> QED
    BY <1>1, TypeCorrect, Consistency, PTL DEF Spec, NeverDowngraded

-----------------------------------------------------------------------------
(***************************************************************************)
(* The engine implements IncidentLog.                                      *)
(***************************************************************************)

\* A cycle looked, and started, no later than now.
Dated ==
  \A w \in Detectors :
    pc[w] \notin AtRest => job[w].startedAt <= clock /\ job[w].checkedAt <= clock

\* A frame about to be sent carries a severity its incident has had.
Carried ==
  \A w \in Detectors :
    pc[w] = "sending" => seen[w].severity <= incidents[seen[w].id].severity

\* Cycle w will send incident i as it is, if nothing else changes it.
WillTell(w, i) ==
  /\ seen[w].id = i
  /\ \/ pc[w] = "refreshing"
     \/ /\ pc[w] = "sending"
        /\ seen[w].severity = incidents[i].severity /\ seen[w].attack = incidents[i].attack

\* EveryEscalationAnnounced, with the frame that will be the right one.
Announced ==
  \A i \in DOMAIN incidents :
    \/ i \in lost
    \/ \E w \in Detectors : WillTell(w, i)
    \/ [id |-> i, severity |-> incidents[i].severity,
        attack |-> incidents[i].attack] \in frames

Telling == Dated /\ Carried /\ Announced

\* A step that changes no severity or label, and no cycle that publishes.
LEMMA QuietTelling ==
  ASSUME TypeOK, Telling, Dated',
         DOMAIN incidents' = DOMAIN incidents,
         \A i \in DOMAIN incidents : /\ incidents'[i].severity = incidents[i].severity
                                     /\ incidents'[i].attack = incidents[i].attack,
         \A v \in Detectors : pc[v] \in Publishing \/ pc'[v] \in Publishing =>
           pc'[v] = pc[v] /\ seen'[v] = seen[v],
         UNCHANGED <<lost, frames>>
  PROVE  Telling'
  <1>1. \A v \in Detectors : pc[v] \in Publishing => seen[v].id \in DOMAIN incidents
    BY DEF TypeOK
  <1>2. Carried'
    BY <1>1 DEF Telling, Carried, Publishing
  <1>3. Announced'
    <2> SUFFICES ASSUME NEW i \in DOMAIN incidents
                 PROVE  \/ i \in lost
                        \/ \E w \in Detectors : WillTell(w, i)'
                        \/ [id |-> i, severity |-> incidents[i].severity,
                            attack |-> incidents[i].attack] \in frames
      BY DEF Announced
    <2>1. \A w \in Detectors : WillTell(w, i) => WillTell(w, i)'
      BY DEF WillTell, Publishing
    <2> QED
      BY <2>1 DEF Telling, Announced
  <1> QED
    BY <1>2, <1>3 DEF Telling

\* Cycles start, look and end no later than now.
LEMMA DatedStep ==
  ASSUME TypeOK, Dated, [Next]_vars
  PROVE  Dated'
  <1> USE DEF Dated, AtRest
  <1>0. clock \in Nat
    BY DEF TypeOK
  <1>1. ASSUME NEW w \in Detectors, BeginDetection(w) PROVE Dated'
    BY <1>0, <1>1 DEF BeginDetection, TypeOK
  <1>2. ASSUME NEW w \in Detectors, CheckSuppression(w) PROVE Dated'
    <2>1. job[w] \in Job
      BY <1>2 DEF CheckSuppression, TypeOK
    <2>2. /\ job'[w].startedAt = job[w].startedAt /\ job'[w].checkedAt = clock
          /\ \A v \in Detectors \ {w} : job'[v] = job[v] /\ pc'[v] = pc[v]
          /\ pc[w] \notin AtRest /\ clock' = clock
      BY <1>2, <2>1 DEF CheckSuppression, TypeOK, Job
    <2> QED
      BY <1>0, <2>2
  <1>3. ASSUME NEW w \in Detectors,
               \/ UNCHANGED <<job, clock>> /\ pc[w] \notin AtRest
                  /\ \A v \in Detectors \ {w} : pc'[v] = pc[v]
               \/ UNCHANGED clock /\ (\E how \in AtRest : Finish(w, how))
        PROVE  Dated'
    BY <1>3 DEF Finish, TypeOK
  <1>4. ASSUME NEW w \in Detectors,
               \/ AcquireLock(w) \/ CreateIncident(w) \/ LoadLive(w) \/ UpdateIncident(w)
               \/ RefreshIncident(w) \/ BroadcastIncident(w) \/ FailDetection(w)
               \/ FailBroadcast(w)
        PROVE  Dated'
    BY <1>3, <1>4 DEF AcquireLock, CreateIncident, LoadLive, UpdateIncident,
          RefreshIncident, BroadcastIncident, FailDetection, FailBroadcast, TypeOK
  <1>5. ASSUME NEW o \in Operators, LoadIncident(o) \/ CommitWalk(o) \/ FailRequest(o)
        PROVE  Dated'
    BY <1>5 DEF LoadIncident, CommitWalk, FailRequest, detection
  <1>6. CASE Tick
    <2>1. \A v \in Detectors : pc[v] \notin AtRest =>
            job[v].startedAt \in Nat /\ job[v].checkedAt \in Nat
      BY DEF TypeOK, Job
    <2> QED
      BY <1>0, <1>6, <2>1 DEF Tick, detection
  <1>7. CASE UNCHANGED vars
    BY <1>7 DEF vars
  <1> QED
    BY <1>1, <1>2, <1>4, <1>5, <1>6, <1>7 DEF Next, DetectionStep

\* What cycles publish is typed.
LEMMA SeenTyped ==
  ASSUME TypeOK, NEW w \in Detectors, pc[w] \in Publishing \cup {"updating"}
  PROVE  /\ seen[w] \in Seen /\ seen[w].id \in DOMAIN incidents
         /\ seen[w].severity \in Nat /\ seen[w].attack \in Attacks
  BY DEF TypeOK, Seen, Severities

\* Telling is inductive: a change is written by a cycle that will read the row
\* again before it tells, so the last to tell tells what is stored.
LEMMA TellingStep == TypeOK /\ Consistent /\ Telling /\ [Next]_vars => Telling'
  <1> SUFFICES ASSUME TypeOK, Consistent, Telling, [Next]_vars
               PROVE  Telling'
    OBVIOUS
  <1>0. Dated'
    BY DatedStep DEF Telling
  <1> USE <1>0 DEF Publishing
  <1>a. \A v \in Detectors : pc[v] \in Publishing => seen[v].id \in DOMAIN incidents
    BY DEF TypeOK
  <1>1. ASSUME NEW w \in Detectors,
               \/ BeginDetection(w) \/ AcquireLock(w) \/ CheckSuppression(w)
               \/ FailDetection(w)
        PROVE  Telling'
    BY <1>1, QuietTelling DEF BeginDetection, AcquireLock, CheckSuppression,
       FailDetection, Finish, TypeOK, table, AtRest, Locked
  <1>2. ASSUME NEW w \in Detectors, LoadLive(w) PROVE Telling'
    <2>1. /\ incidents' = incidents /\ UNCHANGED <<lost, frames>>
          /\ pc[w] = "folding" /\ pc'[w] \in {"dropped", "updating"}
          /\ \A v \in Detectors \ {w} : pc'[v] = pc[v] /\ seen'[v] = seen[v]
      <3>1. CASE Finish(w, "dropped")
        BY <1>2, <3>1 DEF LoadLive, Finish, TypeOK, table
      <3>2. CASE \E i \in NewestLive(Drone(w)) :
                   /\ seen' = [seen EXCEPT ![w] = Row(i, incidents[i])]
                   /\ pc' = [pc EXCEPT ![w] = "updating"]
        BY <1>2, <3>2 DEF LoadLive, TypeOK, table
      <3> QED
        BY <1>2, <3>1, <3>2 DEF LoadLive
    <2> QED
      BY <2>1, QuietTelling
  <1>3. ASSUME NEW w \in Detectors, CreateIncident(w) PROVE Telling'
    <2>0. PICK new : new = Len(incidents) + 1
      OBVIOUS
    <2>1. NewIncident(w) \in Incident
      BY <1>3, NewIncidentType DEF CreateIncident
    <2>2. /\ DOMAIN incidents' = DOMAIN incidents \cup {new} /\ new \notin DOMAIN incidents
          /\ \A i \in DOMAIN incidents : incidents'[i] = incidents[i]
      BY <1>3, <2>0, <2>1, InsertedRows DEF CreateIncident
    <2>3. /\ pc[w] = "creating" /\ pc'[w] = "refreshing" /\ seen'[w].id = new
          /\ \A v \in Detectors \ {w} : pc'[v] = pc[v] /\ seen'[v] = seen[v]
          /\ UNCHANGED <<lost, frames>>
      BY <1>3, <2>0 DEF CreateIncident, Row, TypeOK
    <2>4. Carried'
      BY <1>a, <2>2, <2>3 DEF Telling, Carried
    <2>5. WillTell(w, new)'
      BY <2>3 DEF WillTell
    <2>6. ASSUME NEW v \in Detectors, NEW i \in DOMAIN incidents, WillTell(v, i)
          PROVE  WillTell(v, i)'
      BY <2>2, <2>3, <2>6 DEF WillTell
    <2>7. Announced'
      BY <2>2, <2>3, <2>5, <2>6 DEF Telling, Announced
    <2> QED
      BY <2>4, <2>7 DEF Telling
  <1>4. ASSUME NEW w \in Detectors, UpdateIncident(w) PROVE Telling'
    <2> DEFINE r == seen[w].id
    <2>1. /\ r \in DOMAIN incidents /\ DOMAIN incidents' = DOMAIN incidents
          /\ \A i \in DOMAIN incidents \ {r} : incidents'[i] = incidents[i]
          /\ incidents[r].severity \in Nat /\ incidents'[r].severity \in Nat
          /\ incidents'[r].severity >= incidents[r].severity
          /\ Escalated(w) <=> \/ incidents'[r].severity # incidents[r].severity
                              \/ incidents'[r].attack # incidents[r].attack
      BY <1>4, Folding DEF Incident, Severities
    <2>2. /\ pc[w] = "updating"
          /\ \A v \in Detectors \ {w} : pc'[v] = pc[v] /\ seen'[v] = seen[v]
          /\ Escalated(w) => pc'[w] = "refreshing" /\ seen'[w] = seen[w]
          /\ ~Escalated(w) => pc'[w] = "idle"
          /\ UNCHANGED <<lost, frames>>
      BY <1>4 DEF UpdateIncident, Finish, TypeOK
    <2>3. CASE ~Escalated(w)
      BY <2>1, <2>2, <2>3, QuietTelling
    <2>4. CASE Escalated(w)
      <3>1. Carried'
        <4> SUFFICES ASSUME NEW v \in Detectors, pc'[v] = "sending"
                     PROVE  seen'[v].severity <= incidents'[seen'[v].id].severity
          BY DEF Carried
        <4>1. /\ pc[v] = "sending" /\ seen'[v] = seen[v]
              /\ seen[v].severity <= incidents[seen[v].id].severity
              /\ seen[v].id \in DOMAIN incidents /\ seen[v].severity \in Nat
          BY <2>2, <2>4, SeenTyped DEF Telling, Carried
        <4>2. CASE seen[v].id = r
          BY <2>1, <4>1, <4>2
        <4>3. CASE seen[v].id # r
          BY <2>1, <4>1, <4>3
        <4> QED
          BY <4>2, <4>3
      <3>2. WillTell(w, r)'
        BY <2>2, <2>4 DEF WillTell
      <3>3. \A v \in Detectors, i \in DOMAIN incidents \ {r} :
              WillTell(v, i) => WillTell(v, i)'
        BY <2>1, <2>2 DEF WillTell
      <3>4. \A i \in DOMAIN incidents \ {r} :
              \/ i \in lost
              \/ \E v \in Detectors : WillTell(v, i)'
              \/ [id |-> i, severity |-> incidents'[i].severity,
                  attack |-> incidents'[i].attack] \in frames
        BY <2>1, <3>3 DEF Telling, Announced
      <3>5. Announced'
        BY <2>1, <2>2, <2>4, <3>2, <3>4 DEF Announced
      <3> QED
        BY <3>1, <3>5 DEF Telling
    <2> QED
      BY <2>3, <2>4
  <1>5. ASSUME NEW w \in Detectors, RefreshIncident(w) PROVE Telling'
    <2> DEFINE r == seen[w].id
    <2>1. /\ pc[w] = "refreshing" /\ pc'[w] = "sending" /\ r \in DOMAIN incidents
          /\ seen'[w].id = r /\ seen'[w].severity = incidents[r].severity
          /\ seen'[w].attack = incidents[r].attack
          /\ \A v \in Detectors \ {w} : pc'[v] = pc[v] /\ seen'[v] = seen[v]
          /\ UNCHANGED <<incidents, lost, frames>>
      BY <1>5 DEF RefreshIncident, Row, TypeOK, table
    <2>9. incidents[r] \in Incident
      BY <2>1, RowsTyped
    <2>2. incidents[r].severity \in Nat
      BY <2>9 DEF Incident, Severities
    <2>3. Carried'
      BY <2>1, <2>2 DEF Telling, Carried
    <2>4. \A v \in Detectors, i \in DOMAIN incidents : WillTell(v, i) => WillTell(v, i)'
      BY <2>1 DEF WillTell
    <2>5. Announced'
      BY <2>1, <2>4 DEF Telling, Announced
    <2> QED
      BY <2>3, <2>5 DEF Telling
  <1>6. ASSUME NEW w \in Detectors, BroadcastIncident(w) \/ FailBroadcast(w)
        PROVE  Telling'
    <2> DEFINE r == seen[w].id
               frame == [id |-> seen[w].id, severity |-> seen[w].severity,
                         attack |-> seen[w].attack]
    <2>1. /\ pc[w] \in Publishing /\ pc'[w] = "idle" /\ incidents' = incidents
          /\ \A v \in Detectors \ {w} : pc'[v] = pc[v] /\ seen'[v] = seen[v]
          /\ lost \subseteq lost' /\ frames \subseteq frames'
          /\ r \in lost' \/ (pc[w] = "sending" /\ frame \in frames')
      BY <1>6 DEF BroadcastIncident, FailBroadcast, Finish, TypeOK, table
    <2>2. Carried'
      BY <2>1 DEF Telling, Carried
    <2>3. \A v \in Detectors \ {w}, i \in DOMAIN incidents : WillTell(v, i) => WillTell(v, i)'
      BY <2>1 DEF WillTell
    <2>4. ASSUME NEW i \in DOMAIN incidents, WillTell(w, i)
          PROVE  \/ i \in lost'
                 \/ [id |-> i, severity |-> incidents[i].severity,
                     attack |-> incidents[i].attack] \in frames'
      BY <2>1, <2>4 DEF WillTell
    <2>5. Announced'
      BY <2>1, <2>3, <2>4 DEF Telling, Announced
    <2> QED
      BY <2>2, <2>5 DEF Telling
  <1>7. ASSUME NEW o \in Operators, CommitWalk(o) PROVE Telling'
    <2> DEFINE q == request[o]
    <2>1. q \in Request /\ q.id \in DOMAIN incidents
      BY <1>7 DEF CommitWalk, TypeOK
    <2>2. /\ Walked(incidents[q.id], q) \in Incident
          /\ Walked(incidents[q.id], q).severity = incidents[q.id].severity
          /\ Walked(incidents[q.id], q).attack = incidents[q.id].attack
      BY <2>1, RowsTyped DEF Walked, Request, Incident
    <2>3. /\ DOMAIN incidents' = DOMAIN incidents
          /\ \A i \in DOMAIN incidents : /\ incidents'[i].severity = incidents[i].severity
                                         /\ incidents'[i].attack = incidents[i].attack
      BY <1>7, <2>1, <2>2, UpdatedRows DEF CommitWalk
    <2> QED
      BY <1>7, <2>3, QuietTelling DEF CommitWalk, detection
  <1>8. ASSUME NEW o \in Operators, LoadIncident(o) \/ FailRequest(o) PROVE Telling'
    BY <1>8, QuietTelling DEF LoadIncident, FailRequest, table, detection
  <1>9. CASE Tick
    BY <1>9, QuietTelling DEF Tick, table, detection
  <1>10. CASE UNCHANGED vars
    BY <1>10, QuietTelling DEF vars, table, detection
  <1> QED
    BY <1>1, <1>2, <1>3, <1>4, <1>5, <1>6, <1>7, <1>8, <1>9, <1>10 DEF Next, DetectionStep

\* The invariant of a behaviour, and what it says of operators.
LEMMA Told == Spec => []Telling
  <1>1. Init => Telling
    BY DEF Init, Telling, Dated, Carried, Announced, AtRest
  <1> QED
    BY <1>1, TypeCorrect, Consistency, TellingStep, PTL DEF Spec

\* What operators are told is what is stored: for any number of cycles and
\* operators, once no cycle is about to publish an incident and no frame of it
\* was lost, one of the frames carried its present severity and label.
THEOREM Announcements == Spec => []EveryEscalationAnnounced
  <1>1. Telling => EveryEscalationAnnounced
    BY DEF Telling, Announced, WillTell, EveryEscalationAnnounced, Publishing
  <1> QED
    BY <1>1, Told, PTL

-----------------------------------------------------------------------------
\* The rows, as IncidentLog sees them.
Rows == [i \in DOMAIN incidents |-> Logged(incidents[i])]
LoggedRow == [drone : Drones, severity : Severities, score : Scores, attack : Attacks,
              detectedAt : Nat, resolved : BOOLEAN]

\* What is kept of an incident is a row.
LEMMA LoggedType ==
  ASSUME NEW inc \in Incident
  PROVE  Logged(inc) \in LoggedRow
  BY DEF Logged, Incident, LoggedRow

\* Two rows with the same fields are one.
LEMMA FieldsMake ==
  ASSUME NEW old \in LoggedRow, NEW new \in LoggedRow, NEW s, NEW a, NEW b,
         new.drone = old.drone, new.detectedAt = old.detectedAt,
         new.resolved = old.resolved, new.score = s, new.attack = a, new.severity = b
  PROVE  new = [old EXCEPT !.score = s, !.attack = a, !.severity = b]
  BY DEF LoggedRow

\* The rows are a sequence, as long as the table.
LEMMA RowsType ==
  ASSUME TypeOK
  PROVE  /\ Rows \in Seq(LoggedRow)
         /\ Len(Rows) = Len(incidents)
         /\ DOMAIN Rows = DOMAIN incidents
  <1>1. Len(incidents) \in Nat /\ DOMAIN incidents = 1 .. Len(incidents)
    BY RowsTyped
  <1>2. Rows \in [1 .. Len(incidents) -> LoggedRow]
    BY <1>1, RowsTyped, LoggedType DEF Rows
  <1>3. Rows \in Seq(LoggedRow)
    BY <1>1, <1>2, SeqDef
  <1> QED
    BY <1>1, <1>2, <1>3, LenProperties

\* A step that leaves what IncidentLog sees of each row and each debt.
LEMMA Stutter ==
  ASSUME DOMAIN incidents' = DOMAIN incidents,
         \A i \in DOMAIN incidents : Logged(incidents'[i]) = Logged(incidents[i]),
         \A v \in Detectors : /\ pc'[v] \in Publishing <=> pc[v] \in Publishing
                              /\ pc[v] \in Publishing => seen'[v].id = seen[v].id,
         UNCHANGED <<frames, lost>>
  PROVE  Rows' = Rows /\ Owed' = Owed /\ UNCHANGED <<frames, lost>>
  BY DEF Rows, Owed

\* The incident a cycle raises.
LEMMA RaiseStep ==
  ASSUME TypeOK, Consistent, Telling, NEW w \in Detectors, CreateIncident(w)
  PROVE  Log!Raise(Drone(w))
  <1> DEFINE inc == NewIncident(w)
             row == [drone |-> Drone(w), severity |-> inc.severity,
                     score |-> Reading(w).score, attack |-> Reading(w).attack,
                     detectedAt |-> job[w].startedAt, resolved |-> FALSE]
  <1>1. inc \in Incident
    BY NewIncidentType DEF CreateIncident
  <1>2. job[w] \in Job /\ Reading(w) \in Readings /\ pc[w] = "creating"
    BY DEF CreateIncident, TypeOK, AtRest, Job, Reading
  <1>3. PICK n : n = Len(incidents) + 1
    OBVIOUS
  <1>4. /\ incidents' = Append(incidents, inc)
        /\ DOMAIN incidents' = 1 .. n /\ DOMAIN incidents = 1 .. Len(incidents)
        /\ Len(incidents) \in Nat
        /\ \A i \in DOMAIN incidents : incidents'[i] = incidents[i]
        /\ incidents'[n] = inc
    BY <1>1, <1>3, InsertedRows DEF CreateIncident
  <1>5. /\ Rows \in Seq(LoggedRow) /\ Len(Rows) = Len(incidents)
        /\ DOMAIN Rows = DOMAIN incidents
    BY RowsType
  <1>6. Logged(inc) = row /\ row \in LoggedRow
    BY <1>1, LoggedType DEF Logged, NewIncident
  <1>7. Rows' = Append(Rows, row)
    <2>1. /\ Append(Rows, row) \in Seq(LoggedRow) /\ Len(Append(Rows, row)) = n
          /\ \A i \in DOMAIN incidents : Append(Rows, row)[i] = Rows[i]
          /\ Append(Rows, row)[n] = row
      BY <1>3, <1>4, <1>5, <1>6, AppendProperties
    <2>2. Append(Rows, row) = [i \in 1 .. n |-> Append(Rows, row)[i]]
      BY <2>1
    <2>3. Rows' = [i \in 1 .. n |-> Logged(incidents'[i])]
      BY <1>4 DEF Rows
    <2>4. ASSUME NEW i \in 1 .. n
          PROVE  Append(Rows, row)[i] = Logged(incidents'[i])
      <3>1. CASE i = n
        BY <1>4, <1>6, <2>1, <3>1
      <3>2. CASE i # n
        <4>1. i \in DOMAIN incidents
          BY <1>3, <1>4, <3>2
        <4> QED
          BY <1>4, <2>1, <4>1 DEF Rows
      <3> QED
        BY <3>1, <3>2
    <2> QED
      BY <2>2, <2>3, <2>4
  <1>8. inc.severity \in Severities /\ inc.severity >= Reading(w).severity
    <2>1. PolicySeverity(Reading(w).score, job[w].policy) \in Severities
      BY <1>2, ConstantsAssumption, GradingTypes DEF Job
    <2> QED
      BY <1>2, <2>1, ConstantsAssumption, MergeProperties DEF NewIncident
  <1>9. job[w].startedAt \in 0 .. clock
    <2>1. job[w].startedAt \in Nat /\ clock \in Nat
      BY <1>2 DEF Job, TypeOK
    <2>2. job[w].startedAt <= clock
      BY <1>2 DEF Telling, Dated, AtRest
    <2> QED
      BY <2>1, <2>2
  <1>10. \A i \in DOMAIN Rows :
           Rows[i].drone = Drone(w) /\ ~Rows[i].resolved => Rows[i].detectedAt + Window < clock
    <2> SUFFICES ASSUME NEW i \in DOMAIN incidents, incidents[i].drone = Drone(w),
                        ~incidents[i].resolved
                 PROVE  incidents[i].detectedAt + Window < clock
      BY <1>5 DEF Rows, Logged
    <2>1. incidents[i].detectedAt + Window < job[w].checkedAt
      BY <1>2 DEF Consistent, CheckHolds
    <2>2. job[w].checkedAt <= clock /\ job[w].checkedAt \in Nat /\ clock \in Nat
      BY <1>2 DEF Telling, Dated, AtRest, Job, TypeOK
    <2>3. incidents[i].detectedAt + Window \in Nat
      BY RowsTyped, ConstantsAssumption DEF Incident
    <2> QED
      BY <2>1, <2>2, <2>3
  <1>11. Owed' = Owed \cup {n}
    <2>1. /\ pc'[w] = "refreshing" /\ seen'[w].id = n
          /\ \A v \in Detectors \ {w} : pc'[v] = pc[v] /\ seen'[v] = seen[v]
      BY <1>3 DEF CreateIncident, Row, TypeOK
    <2>2. \A v \in Detectors : pc[v] \in Publishing => seen[v].id \in DOMAIN incidents
      BY DEF TypeOK
    <2> QED
      BY <1>2, <1>3, <1>4, <2>1, <2>2 DEF Owed, Publishing
  <1>12. UNCHANGED <<clock, frames, lost>>
    BY DEF CreateIncident
  <1>13. Log!Quiet(Drone(w))
    BY <1>10 DEF Log!Quiet, Rows
  <1>14. \E r \in Readings, severity \in Severities, at \in 0 .. clock :
           /\ severity >= r.severity
           /\ Rows' = Append(Rows, [drone |-> Drone(w), severity |-> severity,
                                    score |-> r.score, attack |-> r.attack,
                                    detectedAt |-> at, resolved |-> FALSE])
    BY <1>2, <1>7, <1>8, <1>9
  <1> QED
    BY <1>3, <1>5, <1>11, <1>12, <1>13, <1>14 DEF Log!Raise, Rows

\* A worse reading of an incident, or one that changes nothing operators see.
LEMMA WorsenStep ==
  ASSUME TypeOK, Consistent, Telling, NEW w \in Detectors, UpdateIncident(w)
  PROVE  Log!Worsen(seen[w].id) \/ UNCHANGED Log!logVars
  <1>0. PICK r : r = seen[w].id
    OBVIOUS
  <1>1. /\ r \in DOMAIN incidents /\ DOMAIN incidents' = DOMAIN incidents
        /\ incidents[r] \in Incident /\ incidents'[r] \in Incident
        /\ \A i \in DOMAIN incidents \ {r} : incidents'[i] = incidents[i]
        /\ incidents'[r].severity >= incidents[r].severity
        /\ incidents'[r].score = IF Worse(w) THEN Reading(w).score ELSE incidents[r].score
        /\ Worse(w) <=> Reading(w).score > incidents[r].score
        /\ Worse(w) => incidents'[r].attack = Reading(w).attack
        /\ ~Worse(w) => /\ incidents'[r].severity = incidents[r].severity
                        /\ incidents'[r].attack = incidents[r].attack
        /\ incidents'[r].drone = incidents[r].drone
        /\ incidents'[r].detectedAt = incidents[r].detectedAt
        /\ incidents'[r].resolved = incidents[r].resolved
        /\ Escalated(w) <=> \/ incidents'[r].severity # incidents[r].severity
                            \/ incidents'[r].attack # incidents[r].attack
    BY <1>0, Folding
  <1>2. /\ pc[w] = "updating" /\ UNCHANGED <<clock, frames, lost>>
        /\ \A v \in Detectors \ {w} : pc'[v] = pc[v] /\ seen'[v] = seen[v]
        /\ Escalated(w) => pc'[w] = "refreshing" /\ seen'[w].id = r
        /\ ~Escalated(w) => pc'[w] = "idle"
    BY <1>0 DEF UpdateIncident, Finish, TypeOK
  <1>3. Rows \in Seq(LoggedRow) /\ DOMAIN Rows = DOMAIN incidents
    BY RowsType
  <1>4. CASE ~Worse(w)
    <2>1. \A i \in DOMAIN incidents : Logged(incidents'[i]) = Logged(incidents[i])
      BY <1>1, <1>4 DEF Logged
    <2>2. ~Escalated(w)
      BY <1>1, <1>4
    <2>3. Rows' = Rows /\ Owed' = Owed /\ UNCHANGED <<frames, lost>>
      BY <1>1, <1>2, <2>1, <2>2, Stutter DEF Publishing
    <2> QED
      BY <1>2, <2>3 DEF Log!logVars, Rows
  <1>5. CASE Worse(w)
    <2>1. job[w] \in Job /\ Reading(w) \in Readings
      BY <1>2 DEF TypeOK, AtRest, Job, Reading
    <2>2. incidents'[r].severity \in Severities
      BY <1>1 DEF Incident
    <2>3. Logged(incidents'[r]) = [Logged(incidents[r]) EXCEPT
                                     !.score = Reading(w).score, !.attack = Reading(w).attack,
                                     !.severity = incidents'[r].severity]
      <3>1. Logged(incidents[r]) \in LoggedRow /\ Logged(incidents'[r]) \in LoggedRow
        BY <1>1, LoggedType
      <3>2. LET old == Logged(incidents[r])
                new == Logged(incidents'[r]) IN
            /\ new.drone = old.drone /\ new.detectedAt = old.detectedAt
            /\ new.resolved = old.resolved /\ new.score = Reading(w).score
            /\ new.attack = Reading(w).attack /\ new.severity = incidents'[r].severity
        BY <1>1, <1>5 DEF Logged
      <3> QED
        BY <3>1, <3>2, FieldsMake
    <2>4. Rows' = [Rows EXCEPT ![r].score = Reading(w).score, ![r].attack = Reading(w).attack,
                               ![r].severity = incidents'[r].severity]
      <3>1. Rows' = [i \in DOMAIN incidents |-> IF i = r THEN Logged(incidents'[r]) ELSE Rows[i]]
        BY <1>1 DEF Rows
      <3>2. Rows[r] = Logged(incidents[r])
        BY <1>1 DEF Rows
      <3> QED
        BY <1>1, <1>3, <2>3, <3>1, <3>2
    <2>5. /\ Rows'[r].score > Rows[r].score /\ Rows'[r].severity >= Rows[r].severity
          /\ Rows'[r].severity # Rows[r].severity <=>
               incidents'[r].severity # incidents[r].severity
          /\ Rows'[r].attack # Rows[r].attack <=> incidents'[r].attack # incidents[r].attack
      BY <1>1, <1>5 DEF Rows, Logged
    <2>6. Owed' = IF Escalated(w) THEN Owed \cup {r} ELSE Owed
      BY <1>1, <1>2 DEF Owed, Publishing
    <2>7. Owed' = IF \/ Rows'[r].severity # Rows[r].severity
                     \/ Rows'[r].attack # Rows[r].attack
                  THEN Owed \cup {r} ELSE Owed
      BY <1>1, <2>5, <2>6
    <2>8. \E q \in Readings, severity \in Severities :
            Rows' = [Rows EXCEPT ![r].score = q.score, ![r].attack = q.attack,
                                 ![r].severity = severity]
      BY <2>1, <2>2, <2>4
    <2>9. Log!Worsen(r)
      BY <1>2, <2>5, <2>7, <2>8 DEF Log!Worsen, Rows
    <2> QED
      BY <1>0, <2>9
  <1> QED
    BY <1>4, <1>5

\* A walk that enters RESOLVED resolves the incident; the others are not seen.
LEMMA ResolveStep ==
  ASSUME TypeOK, NEW o \in Operators, CommitWalk(o)
  PROVE  Log!Resolve(request[o].id) \/ UNCHANGED Log!logVars
  <1>0. PICK q : q = request[o]
    OBVIOUS
  <1>1. q \in Request /\ q.id \in DOMAIN incidents
    BY <1>0 DEF CommitWalk, TypeOK
  <1>2. PICK inc \in Incident : inc = incidents[q.id]
    BY <1>1, RowsTyped
  <1>3. PICK hop \in BOOLEAN : hop = (q.from < RESOLVED /\ RESOLVED <= q.to)
    OBVIOUS
  <1>4. Walked(inc, q) \in Incident
    BY <1>1, <1>2 DEF Walked, Request, Incident
  <1>5. /\ DOMAIN incidents' = DOMAIN incidents
        /\ \A i \in DOMAIN incidents :
             incidents'[i] = IF i = q.id THEN Walked(inc, q) ELSE incidents[i]
    BY <1>0, <1>1, <1>2, <1>4, UpdatedRows DEF CommitWalk
  <1>6. Walked(inc, q) = [inc EXCEPT !.status = q.to, !.resolved = inc.resolved \/ hop]
    BY <1>3 DEF Walked
  <1>7. UNCHANGED <<clock, frames, lost, pc, seen>>
    BY DEF CommitWalk, detection
  <1>8. Owed' = Owed
    BY <1>5, <1>7 DEF Owed
  <1>9. CASE ~hop
    <2>1. Logged(Walked(inc, q)) = Logged(inc)
      BY <1>2, <1>6, <1>9 DEF Logged, Incident
    <2>2. Rows' = Rows
      BY <1>1, <1>2, <1>5, <2>1 DEF Rows
    <2> QED
      BY <1>7, <1>8, <2>2 DEF Log!logVars, Rows
  <1>10. CASE hop
    <2>1. Logged(Walked(inc, q)) = [Logged(inc) EXCEPT !.resolved = TRUE]
      <3>1. Logged(inc) \in LoggedRow /\ Logged(Walked(inc, q)) \in LoggedRow
        BY <1>2, <1>4, LoggedType
      <3>2. Walked(inc, q) = [inc EXCEPT !.status = q.to, !.resolved = TRUE]
        BY <1>6, <1>10
      <3>3. LET old == Logged(inc)
                new == Logged(Walked(inc, q)) IN
            /\ new.drone = old.drone /\ new.severity = old.severity
            /\ new.score = old.score /\ new.attack = old.attack
            /\ new.detectedAt = old.detectedAt /\ new.resolved
        BY <1>2, <3>2 DEF Logged, Incident
      <3> QED
        BY <3>1, <3>3 DEF LoggedRow
    <2>2. Rows' = [Rows EXCEPT ![q.id].resolved = TRUE]
      <3>1. Rows' = [i \in DOMAIN incidents |->
                       IF i = q.id THEN Logged(Walked(inc, q)) ELSE Rows[i]]
        BY <1>5 DEF Rows
      <3>2. Rows[q.id] = Logged(inc) /\ DOMAIN Rows = DOMAIN incidents
        BY <1>1, <1>2 DEF Rows
      <3> QED
        BY <1>1, <2>1, <3>1, <3>2 DEF Rows
    <2>3. Log!Resolve(q.id)
      BY <1>7, <1>8, <2>2 DEF Log!Resolve, Rows
    <2> QED
      BY <1>0, <2>3
  <1> QED
    BY <1>9, <1>10

\* A frame is sent: the debt stays while another cycle has one to pay for the
\* incident, and the last frame, or one before it, carried what is stored.
LEMMA AnnounceStep ==
  ASSUME TypeOK, Telling, NEW w \in Detectors, BroadcastIncident(w)
  PROVE  Log!Announce(seen[w].id)
  <1>0. PICK i : i = seen[w].id
    OBVIOUS
  <1>1. /\ pc[w] = "sending" /\ i \in DOMAIN incidents /\ incidents' = incidents
        /\ seen[w].severity \in Severities /\ seen[w].attack \in Attacks
        /\ UNCHANGED <<clock, lost>>
    BY <1>0 DEF BroadcastIncident, TypeOK, Publishing, Seen, table
  <1>2. /\ pc'[w] = "idle"
        /\ \A v \in Detectors \ {w} : pc'[v] = pc[v] /\ seen'[v] = seen[v]
    BY DEF BroadcastIncident, Finish, TypeOK
  <1>3. frames' = frames \cup {Log!Frame(i, seen[w].severity, seen[w].attack)}
    BY <1>0 DEF BroadcastIncident, Log!Frame
  <1>4. seen[w].severity <= incidents[i].severity
    BY <1>0, <1>1 DEF Telling, Carried
  <1>5. i \in Owed
    BY <1>0, <1>1 DEF Owed, Publishing
  <1>6. Rows' = Rows /\ Rows[i] = Logged(incidents[i])
    BY <1>1 DEF Rows
  <1>7. /\ Rows[i].severity = incidents[i].severity
        /\ Rows[i].attack = incidents[i].attack
    BY <1>6 DEF Logged
  <1>8. \/ Owed' = Owed
        \/ /\ Owed' = Owed \ {i}
           /\ i \in lost \/ Log!Frame(i, incidents[i].severity, incidents[i].attack) \in frames'
    <2>1. CASE \E v \in Detectors \ {w} : pc[v] \in Publishing /\ seen[v].id = i
      BY <1>0, <1>1, <1>2, <2>1 DEF Owed, Publishing
    <2>2. CASE ~\E v \in Detectors \ {w} : pc[v] \in Publishing /\ seen[v].id = i
      <3>1. Owed' = Owed \ {i}
        BY <1>0, <1>1, <1>2, <2>2 DEF Owed, Publishing
      <3>2. CASE i \in lost
        BY <3>1, <3>2
      <3>3. CASE \E v \in Detectors : WillTell(v, i)
        <4>1. WillTell(w, i)
          BY <2>2, <3>3 DEF WillTell, Publishing
        <4> QED
          BY <1>1, <1>3, <3>1, <4>1 DEF WillTell
      <3>4. CASE [id |-> i, severity |-> incidents[i].severity,
                  attack |-> incidents[i].attack] \in frames
        BY <1>3, <3>1, <3>4 DEF Log!Frame
      <3> QED
        BY <1>1, <3>2, <3>3, <3>4 DEF Telling, Announced
    <2> QED
      BY <2>1, <2>2
  <1>9. \E severity \in Severities, attack \in {r.attack : r \in Readings} :
          /\ severity <= Rows[i].severity
          /\ frames' = frames \cup {Log!Frame(i, severity, attack)}
    BY <1>1, <1>3, <1>4, <1>7 DEF Attacks
  <1>10. Log!Announce(i)
    BY <1>1, <1>5, <1>6, <1>7, <1>8, <1>9 DEF Log!Announce, Rows
  <1> QED
    BY <1>0, <1>10

\* A frame is not sent: the incident is among the lost.
LEMMA LoseStep ==
  ASSUME TypeOK, NEW w \in Detectors, FailBroadcast(w)
  PROVE  Log!Lose(seen[w].id)
  <1>0. PICK i : i = seen[w].id
    OBVIOUS
  <1>1. /\ pc[w] \in Publishing /\ incidents' = incidents /\ lost' = lost \cup {i}
        /\ UNCHANGED <<clock, frames>> /\ i \in DOMAIN incidents
    BY <1>0 DEF FailBroadcast, TypeOK, table
  <1>2. /\ pc'[w] = "idle"
        /\ \A v \in Detectors \ {w} : pc'[v] = pc[v] /\ seen'[v] = seen[v]
    BY DEF FailBroadcast, Finish, TypeOK
  <1>3. i \in Owed
    BY <1>0, <1>1 DEF Owed
  <1>4. Owed' \in {Owed, Owed \ {i}}
    <2>1. CASE \E v \in Detectors \ {w} : pc[v] \in Publishing /\ seen[v].id = i
      BY <1>0, <1>1, <1>2, <2>1 DEF Owed, Publishing
    <2>2. CASE ~\E v \in Detectors \ {w} : pc[v] \in Publishing /\ seen[v].id = i
      BY <1>0, <1>1, <1>2, <2>2 DEF Owed, Publishing
    <2> QED
      BY <2>1, <2>2
  <1>5. Rows' = Rows
    BY <1>1 DEF Rows
  <1>6. Log!Lose(i)
    BY <1>1, <1>3, <1>4, <1>5 DEF Log!Lose, Rows
  <1> QED
    BY <1>0, <1>6

\* Every step of the engine is a step of IncidentLog, or one it does not see.
LEMMA LogStep == TypeOK /\ Consistent /\ Telling /\ [Next]_vars => [Log!Next]_(Log!logVars)
  <1> SUFFICES ASSUME TypeOK, Consistent, Telling, [Next]_vars
               PROVE  Log!Next \/ UNCHANGED Log!logVars
    OBVIOUS
  <1>0. DOMAIN Rows = DOMAIN incidents
    BY DEF Rows
  <1>1. ASSUME incidents' = incidents, UNCHANGED <<clock, frames, lost>>,
               \A v \in Detectors : /\ pc'[v] \in Publishing <=> pc[v] \in Publishing
                                    /\ pc[v] \in Publishing => seen'[v].id = seen[v].id
        PROVE  UNCHANGED Log!logVars
    BY <1>1, Stutter DEF Log!logVars, Rows
  <1>2. ASSUME NEW w \in Detectors,
               \/ BeginDetection(w) \/ AcquireLock(w) \/ CheckSuppression(w)
               \/ FailDetection(w)
        PROVE  UNCHANGED Log!logVars
    BY <1>1, <1>2 DEF BeginDetection, AcquireLock, CheckSuppression, FailDetection,
       Finish, TypeOK, table, AtRest, Locked, Publishing
  <1>3. ASSUME NEW w \in Detectors, LoadLive(w) PROVE UNCHANGED Log!logVars
    <2>1. /\ incidents' = incidents /\ UNCHANGED <<clock, lost, frames>>
          /\ pc[w] = "folding" /\ pc'[w] \in {"dropped", "updating"}
          /\ \A v \in Detectors \ {w} : pc'[v] = pc[v] /\ seen'[v] = seen[v]
      <3>1. CASE Finish(w, "dropped")
        BY <1>3, <3>1 DEF LoadLive, Finish, TypeOK, table
      <3>2. CASE \E i \in NewestLive(Drone(w)) :
                   /\ seen' = [seen EXCEPT ![w] = Row(i, incidents[i])]
                   /\ pc' = [pc EXCEPT ![w] = "updating"]
        BY <1>3, <3>2 DEF LoadLive, TypeOK, table
      <3> QED
        BY <1>3, <3>1, <3>2 DEF LoadLive
    <2> QED
      BY <1>1, <2>1 DEF Publishing
  <1>4. ASSUME NEW w \in Detectors, RefreshIncident(w) PROVE UNCHANGED Log!logVars
    BY <1>1, <1>4 DEF RefreshIncident, Row, TypeOK, table, Publishing
  <1>5. ASSUME NEW w \in Detectors, CreateIncident(w) PROVE Log!Next
    <2>1. Drone(w) \in Drones
      BY <1>5 DEF CreateIncident, TypeOK, AtRest, Job, Drone
    <2> QED
      BY <1>5, <2>1, RaiseStep DEF Log!Next
  <1>6. ASSUME NEW w \in Detectors, UpdateIncident(w)
        PROVE  Log!Next \/ UNCHANGED Log!logVars
    <2>1. seen[w].id \in DOMAIN Rows
      BY <1>0, <1>6 DEF UpdateIncident, TypeOK
    <2> QED
      BY <1>6, <2>1, WorsenStep DEF Log!Next, Rows
  <1>7. ASSUME NEW w \in Detectors, BroadcastIncident(w) \/ FailBroadcast(w) PROVE Log!Next
    <2>1. seen[w].id \in DOMAIN Rows
      BY <1>0, <1>7 DEF BroadcastIncident, FailBroadcast, TypeOK, Publishing
    <2> QED
      BY <1>7, <2>1, AnnounceStep, LoseStep DEF Log!Next, Rows
  <1>8. ASSUME NEW o \in Operators, CommitWalk(o)
        PROVE  Log!Next \/ UNCHANGED Log!logVars
    <2>1. request[o].id \in DOMAIN Rows
      BY <1>0, <1>8 DEF CommitWalk, TypeOK
    <2> QED
      BY <1>8, <2>1, ResolveStep DEF Log!Next, Rows
  <1>9. ASSUME NEW o \in Operators, LoadIncident(o) \/ FailRequest(o)
        PROVE  UNCHANGED Log!logVars
    BY <1>1, <1>9 DEF LoadIncident, FailRequest, table, detection
  <1>10. CASE Tick
    <2>1. clock' = clock + 1 /\ incidents' = incidents /\ UNCHANGED <<frames, lost, pc, seen>>
      BY <1>10 DEF Tick, table, detection
    <2>2. Rows' = Rows /\ Owed' = Owed
      BY <2>1 DEF Rows, Owed
    <2>3. Log!Pass
      BY <2>1, <2>2 DEF Log!Pass, Rows
    <2> QED
      BY <2>3 DEF Log!Next
  <1>11. CASE UNCHANGED vars
    BY <1>1, <1>11 DEF vars, table, detection
  <1> QED
    BY <1>2, <1>3, <1>4, <1>5, <1>6, <1>7, <1>8, <1>9, <1>10, <1>11 DEF Next, DetectionStep

\* The engine implements IncidentLog: with any number of cycles and operators
\* interleaved and failing, the table changes as if incidents were raised,
\* worsened and resolved one at a time, and what operators must hear of is owed
\* until a frame of the present state was sent or lost.
THEOREM Refinement == Spec => ImplementsLog
  <1>1. Init => Log!Init
    BY DEF Init, Log!Init, Owed, Publishing, Logged
  <1> QED
    BY <1>1, LogStep, TypeCorrect, Consistency, Told, PTL DEF Spec, ImplementsLog, Log!Spec

-----------------------------------------------------------------------------
(***************************************************************************)
(* The audit trail.                                                        *)
(***************************************************************************)

\* StatusIsAudited, of one incident and its rows.
Audited(inc, rows) ==
  /\ \A h \in Hop : rows[h] > 0 => h.to = h.from + 1
  /\ OPEN .. inc.status \subseteq Entered(rows)
  /\ inc.resolved <=> RESOLVED \in Entered(rows)
  /\ \/ \A s \in Entered(rows) : s <= inc.status
     \/ \E h \in Hop : rows[h] > 1

\* A walk goes from one state to a later one, and a request has read a status
\* that rows account for, whatever the incident's status is by now.
Forward ==
  \A o \in Operators : request[o] # None =>
    /\ request[o].from < request[o].to
    /\ OPEN .. request[o].from \subseteq Entered(trail[request[o].id])

\* The rows of an incident and of a walk.
Longer(rows, from, to) ==
  [h \in Hop |-> IF h \in Walk(from, to) THEN rows[h] + 1 ELSE rows[h]]

\* A walk's rows enter the states it walks through, and no other.
LEMMA LongerEntered ==
  ASSUME NEW rows \in Trail, NEW a \in Statuses, NEW b \in Statuses
  PROVE  /\ Longer(rows, a, b) \in Trail
         /\ \A h \in Hop : Longer(rows, a, b)[h] >= rows[h]
         /\ Entered(Longer(rows, a, b)) = Entered(rows) \cup (a + 1 .. b)
         /\ Entered(rows) \subseteq Statuses
  <1>0. \A h \in Hop : rows[h] \in Nat
    BY DEF Trail
  <1>1. Longer(rows, a, b) \in Trail
    BY <1>0 DEF Longer, Trail
  <1>2. \A h \in Hop :
          /\ Longer(rows, a, b)[h] >= rows[h]
          /\ Longer(rows, a, b)[h] > 0 <=> rows[h] > 0 \/ h \in Walk(a, b)
    BY <1>0 DEF Longer
  <1>3. ASSUME NEW s \in a + 1 .. b
        PROVE  [from |-> s - 1, to |-> s] \in Hop /\ [from |-> s - 1, to |-> s] \in Walk(a, b)
    BY DEF Walk, Hop, Statuses, NEW_, CLOSED
  <1>4. \A h \in Walk(a, b) : h.to \in a + 1 .. b
    BY DEF Walk
  <1>5. PICK all : all = Longer(rows, a, b)
    OBVIOUS
  <1>6. \A h \in Hop : all[h] > 0 <=> rows[h] > 0 \/ h \in Walk(a, b)
    BY <1>2, <1>5
  <1>7. ASSUME NEW s \in Entered(all) PROVE s \in Entered(rows) \cup (a + 1 .. b)
    <2>1. PICK h \in Hop : all[h] > 0 /\ s = h.to
      BY <1>7 DEF Entered
    <2>2. CASE rows[h] > 0
      BY <2>1, <2>2 DEF Entered
    <2>3. CASE h \in Walk(a, b)
      BY <2>1, <2>3, <1>4
    <2> QED
      BY <2>1, <2>2, <2>3, <1>6
  <1>8. ASSUME NEW s \in Entered(rows) PROVE s \in Entered(all)
    <2>1. PICK h \in Hop : rows[h] > 0 /\ s = h.to
      BY <1>8 DEF Entered
    <2> QED
      BY <2>1, <1>6 DEF Entered
  <1>9. ASSUME NEW s \in a + 1 .. b PROVE s \in Entered(all)
    <2> DEFINE h == [from |-> s - 1, to |-> s]
    <2>1. h \in Hop /\ h \in Walk(a, b) /\ h.to = s
      BY <1>3
    <2>2. all[h] > 0
      BY <2>1, <1>6
    <2> HIDE DEF h
    <2> QED
      BY <2>1, <2>2 DEF Entered
  <1>10. Entered(all) = Entered(rows) \cup (a + 1 .. b)
    BY <1>7, <1>8, <1>9
  <1>11. Entered(rows) \subseteq Statuses
    BY DEF Entered, Hop
  <1> QED
    BY <1>1, <1>2, <1>5, <1>10, <1>11

\* The rows of a walk, put beside those of an incident, from whatever status the
\* walk was validated, account for the walked incident: the walk starts at its
\* status, or enters a state that was entered before.
LEMMA WalkAudited ==
  ASSUME NEW inc \in Incident, NEW rows \in Trail, Audited(inc, rows),
         NEW q \in Request, q.from < q.to, OPEN .. q.from \subseteq Entered(rows)
  PROVE  Audited(Walked(inc, q), Longer(rows, q.from, q.to))
  <1> DEFINE all == Longer(rows, q.from, q.to)
  <1>0. /\ q.from \in Statuses /\ q.to \in Statuses /\ inc.status \in Statuses
        /\ q.from \in Nat /\ q.to \in Nat /\ inc.status \in Nat
    BY DEF Request, Incident, Statuses, NEW_, CLOSED
  <1>1. /\ all \in Trail /\ \A h \in Hop : all[h] >= rows[h]
        /\ Entered(all) = Entered(rows) \cup (q.from + 1 .. q.to)
        /\ Entered(rows) \subseteq Statuses
    BY <1>0, LongerEntered
  <1>2. \A h \in Hop : rows[h] \in Nat /\ all[h] \in Nat
    BY <1>1 DEF Trail
  <1> HIDE DEF all
  <1>3. \A h \in Hop : all[h] > 0 => h.to = h.from + 1
    <2> SUFFICES ASSUME NEW h \in Hop, all[h] > 0 PROVE h.to = h.from + 1
      OBVIOUS
    <2>1. CASE h \in Walk(q.from, q.to)
      BY <1>0, <2>1 DEF Walk
    <2>2. CASE h \notin Walk(q.from, q.to)
      BY <2>2 DEF all, Longer, Audited
    <2> QED
      BY <2>1, <2>2
  <1>4. /\ Walked(inc, q).status = q.to
        /\ Walked(inc, q).resolved <=>
             inc.resolved \/ (q.from < RESOLVED /\ RESOLVED <= q.to)
    <2>1. PICK hop \in BOOLEAN : hop = (q.from < RESOLVED /\ RESOLVED <= q.to)
      OBVIOUS
    <2>2. Walked(inc, q) = [inc EXCEPT !.status = q.to, !.resolved = inc.resolved \/ hop]
      BY <2>1 DEF Walked
    <2>3. Walked(inc, q).status = q.to /\ Walked(inc, q).resolved = (inc.resolved \/ hop)
      BY <2>2 DEF Incident
    <2> QED
      BY <2>1, <2>3
  <1>5. OPEN .. q.to \subseteq Entered(all)
    <2>1. OPEN .. q.to \subseteq (OPEN .. q.from) \cup (q.from + 1 .. q.to)
      BY <1>0 DEF OPEN
    <2> QED
      BY <1>1, <2>1
  <1>6. RESOLVED \in Entered(all) <=>
          RESOLVED \in Entered(rows) \/ (q.from < RESOLVED /\ RESOLVED <= q.to)
    BY <1>0, <1>1 DEF RESOLVED
  <1>7. (\A s \in Entered(all) : s <= q.to) \/ \E h \in Hop : all[h] > 1
    <2>1. CASE \E h \in Hop : rows[h] > 1
      BY <1>1, <1>2, <2>1
    <2>2. ASSUME q.from < inc.status PROVE \E h \in Hop : all[h] > 1
      <3>1. q.from + 1 \in OPEN .. inc.status
        BY <1>0, <2>2 DEF OPEN, Statuses, NEW_
      <3>2. q.from + 1 \in Entered(rows)
        BY <3>1 DEF Audited
      <3>3. PICK h \in Hop : rows[h] > 0 /\ h.to = q.from + 1
        BY <3>2 DEF Entered
      <3>4. h.from \in Nat /\ h.to = h.from + 1 /\ h = [from |-> h.from, to |-> h.to]
        BY <3>3 DEF Audited, Hop, Statuses, NEW_, CLOSED
      <3>5. h.from = q.from
        BY <1>0, <3>3, <3>4
      <3>6. h \in Walk(q.from, q.to)
        <4>1. q.from + 1 \in q.from + 1 .. q.to /\ (q.from + 1) - 1 = q.from
          BY <1>0
        <4> QED
          BY <3>3, <3>4, <3>5, <4>1 DEF Walk
      <3>7. all[h] = rows[h] + 1
        BY <3>6 DEF all, Longer
      <3> QED
        BY <1>2, <3>3, <3>7
    <2>3. ASSUME \A s \in Entered(rows) : s <= inc.status, inc.status <= q.from
          PROVE  \A s \in Entered(all) : s <= q.to
      <3>1. \A s \in Entered(rows) : s \in Nat
        BY <1>1 DEF Statuses, NEW_, CLOSED
      <3> QED
        BY <1>0, <1>1, <2>3, <3>1
    <2> QED
      BY <1>0, <2>1, <2>2, <2>3 DEF Audited
  <1>8. Walked(inc, q).resolved <=> RESOLVED \in Entered(all)
    BY <1>4, <1>6 DEF Audited
  <1> QED
    BY <1>3, <1>4, <1>5, <1>7, <1>8 DEF Audited, all

\* The trails are as many as the incidents.
LEMMA TrailTyped ==
  ASSUME TypeOK
  PROVE  /\ trail \in Seq(Trail) /\ DOMAIN trail = DOMAIN incidents
         /\ \A i \in DOMAIN incidents : trail[i] \in Trail
  <1>1. trail \in Seq(Trail) /\ DOMAIN trail = DOMAIN incidents
    BY RowsTyped, LenProperties DEF TypeOK
  <1> QED
    BY <1>1, ElementOfSeq, LenProperties

\* Every step keeps each status what its rows say: a cycle writes neither, and a
\* request writes both.
LEMMA AuditStep ==
  TypeOK /\ StatusIsAudited /\ Forward /\ [Next]_vars => StatusIsAudited' /\ Forward'
  <1> SUFFICES ASSUME TypeOK, StatusIsAudited, Forward, [Next]_vars
               PROVE  StatusIsAudited' /\ Forward'
    OBVIOUS
  <1>0. \A i \in DOMAIN incidents : Audited(incidents[i], trail[i])
    BY DEF StatusIsAudited, Audited
  <1>1. (\A i \in DOMAIN incidents' : Audited(incidents'[i], trail'[i])) => StatusIsAudited'
    BY DEF StatusIsAudited, Audited
  <1>2. ASSUME UNCHANGED <<incidents, trail>>,
               \A o \in Operators : request'[o] # None => request'[o] = request[o]
        PROVE  StatusIsAudited' /\ Forward'
    BY <1>0, <1>1, <1>2 DEF Forward
  <1>a. \A o \in Operators : request[o] # None => request[o].id \in DOMAIN incidents
    BY DEF TypeOK
  <1>3. ASSUME NEW w \in Detectors,
               \/ BeginDetection(w) \/ AcquireLock(w) \/ CheckSuppression(w) \/ LoadLive(w)
               \/ RefreshIncident(w) \/ BroadcastIncident(w) \/ FailDetection(w)
               \/ FailBroadcast(w)
        PROVE  StatusIsAudited' /\ Forward'
    BY <1>2, <1>3 DEF BeginDetection, AcquireLock, CheckSuppression, LoadLive,
       RefreshIncident, BroadcastIncident, FailDetection, FailBroadcast, table
  <1>4. ASSUME NEW w \in Detectors, CreateIncident(w) PROVE StatusIsAudited' /\ Forward'
    <2>0. PICK n : n = Len(incidents) + 1
      OBVIOUS
    <2>1. NewIncident(w) \in Incident
      BY <1>4, NewIncidentType DEF CreateIncident
    <2>2. /\ DOMAIN incidents' = DOMAIN incidents \cup {n}
          /\ \A i \in DOMAIN incidents : incidents'[i] = incidents[i]
          /\ incidents'[n] = NewIncident(w) /\ n = Len(trail) + 1
      BY <1>4, <2>0, <2>1, InsertedRows DEF CreateIncident, TypeOK
    <2>3. /\ \A i \in DOMAIN incidents : trail'[i] = trail[i]
          /\ trail'[n] = NoRows
      BY <1>4, <2>2, TrailTyped, AppendProperties, LenProperties DEF CreateIncident
    <2>4. Audited(NewIncident(w), NoRows)
      <3>1. Entered(NoRows) = {}
        BY DEF Entered, NoRows
      <3>2. NewIncident(w).status = 1 /\ ~NewIncident(w).resolved
        BY DEF NewIncident, NEW_
      <3> QED
        BY <3>1, <3>2 DEF Audited, NoRows, OPEN
    <2>5. \A i \in DOMAIN incidents' : Audited(incidents'[i], trail'[i])
      BY <1>0, <2>2, <2>3, <2>4
    <2> QED
      BY <1>1, <1>4, <1>a, <2>3, <2>5 DEF CreateIncident, Forward
  <1>5. ASSUME NEW w \in Detectors, UpdateIncident(w) PROVE StatusIsAudited' /\ Forward'
    <2>1. PICK r : r = seen[w].id /\ r \in DOMAIN incidents
      BY <1>5 DEF UpdateIncident, TypeOK
    <2>2. PICK new : new = Updated(incidents[r], w)
      OBVIOUS
    <2>3. new \in Incident /\ new.status = incidents[r].status
          /\ new.resolved = incidents[r].resolved
      BY <1>5, <2>1, <2>2, RowsTyped, UpdatedType DEF UpdateIncident
    <2>4. /\ DOMAIN incidents' = DOMAIN incidents /\ trail' = trail
          /\ \A i \in DOMAIN incidents : incidents'[i] = IF i = r THEN new ELSE incidents[i]
      BY <1>5, <2>1, <2>2, <2>3, UpdatedRows DEF UpdateIncident
    <2>5. \A i \in DOMAIN incidents' : Audited(incidents'[i], trail'[i])
      BY <1>0, <2>3, <2>4 DEF Audited
    <2> QED
      BY <1>1, <1>5, <2>5 DEF UpdateIncident, Forward
  <1>6. ASSUME NEW o \in Operators, CommitWalk(o) PROVE StatusIsAudited' /\ Forward'
    <2>1. PICK q \in Request : q = request[o] /\ q.id \in DOMAIN incidents
      BY <1>6 DEF CommitWalk, TypeOK
    <2>2. PICK inc \in Incident : inc = incidents[q.id]
      BY <2>1, RowsTyped
    <2>3. PICK rows \in Trail : rows = trail[q.id]
      BY <2>1, TrailTyped
    <2>4. q.from < q.to /\ OPEN .. q.from \subseteq Entered(rows)
      BY <1>6, <2>1, <2>3 DEF Forward, CommitWalk
    <2>5. Audited(Walked(inc, q), Longer(rows, q.from, q.to))
      BY <1>0, <2>1, <2>2, <2>3, <2>4, WalkAudited
    <2>6. Walked(inc, q) \in Incident
      BY <2>1, <2>2 DEF Walked, Request, Incident
    <2>7. /\ DOMAIN incidents' = DOMAIN incidents
          /\ \A i \in DOMAIN incidents :
               incidents'[i] = IF i = q.id THEN Walked(inc, q) ELSE incidents[i]
      BY <1>6, <2>1, <2>2, <2>6, UpdatedRows DEF CommitWalk
    <2>8. \A i \in DOMAIN incidents :
            trail'[i] = IF i = q.id THEN Longer(rows, q.from, q.to) ELSE trail[i]
      BY <1>6, <2>1, <2>3, TrailTyped DEF CommitWalk, Longer
    <2>9. \A i \in DOMAIN incidents' : Audited(incidents'[i], trail'[i])
      BY <1>0, <2>5, <2>7, <2>8
    <2>10. \A p \in Operators : request'[p] # None => request'[p] = request[p]
      BY <1>6 DEF CommitWalk, TypeOK
    <2>11. \A i \in DOMAIN incidents : Entered(trail[i]) \subseteq Entered(trail'[i])
      BY <2>1, <2>3, <2>8, LongerEntered DEF Request
    <2> QED
      BY <1>1, <1>a, <2>9, <2>10, <2>11 DEF Forward
  <1>7. ASSUME NEW o \in Operators, LoadIncident(o) PROVE StatusIsAudited' /\ Forward'
    <2>1. StatusIsAudited'
      BY <1>0, <1>1, <1>7 DEF LoadIncident, table
    <2>2. PICK i \in DOMAIN incidents, t \in Targets :
            /\ incidents[i].status < t
            /\ request' = [request EXCEPT ![o] = [id |-> i, from |-> incidents[i].status,
                                                  to |-> t]]
      BY <1>7 DEF LoadIncident
    <2>3. OPEN .. incidents[i].status \subseteq Entered(trail[i])
      BY <1>0, <2>2 DEF Audited
    <2>4. \A p \in Operators \ {o} : request'[p] = request[p]
      BY <2>2 DEF TypeOK
    <2>5. request'[o] = [id |-> i, from |-> incidents[i].status, to |-> t] /\ trail' = trail
      BY <1>7, <2>2 DEF TypeOK, LoadIncident, table
    <2>6. Forward'
      BY <2>2, <2>3, <2>4, <2>5 DEF Forward
    <2> QED
      BY <2>1, <2>6
  <1>8. ASSUME NEW o \in Operators, FailRequest(o) PROVE StatusIsAudited' /\ Forward'
    BY <1>2, <1>8 DEF FailRequest, table, TypeOK
  <1>9. CASE Tick \/ UNCHANGED vars
    BY <1>2, <1>9 DEF Tick, vars, table
  <1> QED
    BY <1>3, <1>4, <1>5, <1>6, <1>7, <1>8, <1>9 DEF Next, DetectionStep

\* The audit trail accounts for every status: for any operators, however their
\* requests race on one incident and whatever order its rows are read in, each row
\* is a single hop, the rows enter each state up to the status, and RESOLVED if and
\* only if there is a resolution time; where they record no hop twice, the status
\* is the furthest state they enter.
THEOREM Audit == Spec => []StatusIsAudited
  <1>1. Init => StatusIsAudited /\ Forward
    BY DEF Init, StatusIsAudited, Forward
  <1> QED
    BY <1>1, AuditStep, TypeCorrect, PTL DEF Spec
=============================================================================
