--------------------------- MODULE IncidentEngine ---------------------------
(***************************************************************************)
(* The incident table and the actors that write it:                        *)
(*                                                                         *)
(*  - detection cycles (services/incident_engine.py, one thread per        *)
(*    ingested packet), which raise an incident or fold a reading into the *)
(*    live one under a per-drone advisory lock, commit, re-read the row    *)
(*    and broadcast it;                                                    *)
(*  - operator requests (routers/incidents.py), which read an incident     *)
(*    without a lock, walk its lifecycle forward and commit the walk with  *)
(*    its audit rows.                                                      *)
(*                                                                         *)
(* The database is PostgreSQL under READ COMMITTED: every action below is  *)
(* one statement or one commit, and sees what was committed before it.  An *)
(* UPDATE writes only the columns its session changed, so detection        *)
(* (severity, score, attack) and operators (status, resolution time) never *)
(* overwrite each other's columns.                                         *)
(***************************************************************************)
EXTENDS Naturals, Sequences

CONSTANTS
  Drones,        \* (organization, drone_id) pairs: the advisory lock's key
  Detectors,     \* threads that run record_detection
  Operators,     \* sessions of the incidents router
  Readings,      \* anomalous readings: [attack, score, severity]
  Targets,       \* states operators ask for: one route each, past OPEN
  Policies,      \* severity bands an organization may set: [critical, high]
  Window,        \* AlertService.suppression_window_seconds
  None,          \* no lock holder, no job, no request
  MaxClock,      \* bound: the last instant
  MaxIncidents,  \* bound: rows at which no cycle begins any more
  MaxTrail       \* bound: times a hop is audited before requests are refused

Severities == 1 .. 4       \* SEVERITY_RANK: LOW, MEDIUM, HIGH, CRITICAL
Unranked == 0              \* a detector severity SEVERITY_RANK does not hold

ASSUME ConstantsAssumption ==
  /\ None \notin Detectors
  /\ Window \in Nat
  /\ \A r \in Readings : r.score \in Nat /\ r.severity \in Severities \cup {Unranked}
  /\ \A p \in Policies : p.critical \in Nat /\ p.high \in Nat

(***************************************************************************)
(* LIFECYCLE, as positions in the list.                                    *)
(***************************************************************************)
NEW_           == 1
OPEN          == 2
ACKNOWLEDGED  == 3
INVESTIGATING == 4
CONTAINED     == 5
RESOLVED      == 6
CLOSED        == 7

Statuses == NEW_ .. CLOSED
LiveStatuses == NEW_ .. CONTAINED

ASSUME TargetsAssumption == Targets \subseteq ACKNOWLEDGED .. CLOSED

VARIABLES
  clock,      \* seconds
  lock,       \* lock[d]: the transaction holding d's advisory lock, or None
  incidents,  \* the incident table, by id
  trail,      \* trail[i][h]: how many STATUS_TRANSITION audit rows of incident i
              \* record hop h
  pc,         \* pc[w]: what detection cycle w does next
  job,        \* job[w]: its reading and what its transaction has read
  seen,       \* seen[w]: the row it folds into or broadcasts
  frames,     \* incident frames handed to the broker
  lost,       \* incidents a frame of which was not sent
  request     \* request[o]: the walk o has validated and not committed, or None

detection == <<pc, job, seen>>
table == <<incidents, trail>>
vars == <<clock, lock, incidents, trail, pc, job, seen, frames, lost, request>>

Attacks == {r.attack : r \in Readings}
Scores == {r.score : r \in Readings}

\* `declared` and `checkedAt` are history: the worst severity a detector gave
\* the incident, and when the transaction that raised it looked for a live one.
Incident == [drone : Drones, status : Statuses, severity : Severities,
             score : Scores, attack : Attacks, detectedAt : Nat,
             resolved : BOOLEAN, checkedAt : Nat,
             declared : Severities \cup {Unranked}]

\* The rows are read by created_at, which is when their transaction began: the
\* order they were committed in is nowhere in the table, so a trail is a bag.
Hop == [from : Statuses, to : Statuses]
Trail == [Hop -> Nat]
NoRows == [h \in Hop |-> 0]
Job == [drone : Drones, reading : Readings, policy : Policies,
        startedAt : Nat, checkedAt : Nat]
Seen == [id : Nat, severity : Severities, score : Scores, attack : Attacks]
Request == [id : Nat, from : Statuses, to : Statuses]
Frame == [id : Nat, severity : Severities, attack : Attacks]

AtRest == {"idle", "dropped"}
Locked == {"locked", "creating", "folding", "updating"}
Publishing == {"refreshing", "sending"}
Steps == AtRest \cup {"waiting"} \cup Locked \cup Publishing

TypeOK ==
  /\ clock \in Nat
  /\ lock \in [Drones -> Detectors \cup {None}]
  /\ incidents \in Seq(Incident)
  /\ trail \in Seq(Trail) /\ Len(trail) = Len(incidents)
  /\ pc \in [Detectors -> Steps]
  /\ job \in [Detectors -> Job \cup {None}]
  /\ seen \in [Detectors -> Seen \cup {None}]
  /\ \A w \in Detectors :
       /\ pc[w] \notin AtRest => job[w] \in Job
       /\ pc[w] \in Publishing \cup {"updating"} =>
            seen[w] \in Seen /\ seen[w].id \in DOMAIN incidents
  /\ frames \subseteq Frame
  /\ lost \subseteq DOMAIN incidents
  /\ request \in [Operators -> Request \cup {None}]
  /\ \A o \in Operators :
       request[o] # None => request[o] \in Request /\ request[o].id \in DOMAIN incidents

Init ==
  /\ clock = 0
  /\ lock = [d \in Drones |-> None]
  /\ incidents = <<>>
  /\ trail = <<>>
  /\ pc = [w \in Detectors |-> "idle"]
  /\ job = [w \in Detectors |-> None]
  /\ seen = [w \in Detectors |-> None]
  /\ frames = {}
  /\ lost = {}
  /\ request = [o \in Operators |-> None]

(***************************************************************************)
(* Grading.                                                                *)
(***************************************************************************)

\* generate_alert_severity; the MEDIUM floor is not configurable.
PolicySeverity(score, policy) ==
  IF score >= policy.critical THEN 4
  ELSE IF score >= policy.high THEN 3
  ELSE IF score >= 40 THEN 2 ELSE 1

\* _merge_severity: an unranked detector value loses to any policy band.
MergeSeverity(detector, policy) == IF detector >= policy THEN detector ELSE policy

(***************************************************************************)
(* Reads of the incident table.                                            *)
(***************************************************************************)
Live(i) == incidents[i].status \in LiveStatuses

\* Mutant: the cutoff instant itself falls outside the window.
SuppressedExclusive(d) ==
  \E i \in DOMAIN incidents :
    /\ incidents[i].drone = d
    /\ Live(i)
    /\ incidents[i].detectedAt + Window > clock

\* is_alert_suppressed: a live incident of the drone detected since the cutoff,
\* whatever its attack type.
Suppressed(d) ==
  \E i \in DOMAIN incidents :
    /\ incidents[i].drone = d
    /\ Live(i)
    /\ incidents[i].detectedAt + Window >= clock

LiveIncidents(d) == {i \in DOMAIN incidents : incidents[i].drone = d /\ Live(i)}

\* order_by(created_at.desc()).first(), with no window.  created_at and
\* detection_time are both now(), the transaction's start.
NewestLive(d) ==
  {i \in LiveIncidents(d) :
     \A j \in LiveIncidents(d) : incidents[j].detectedAt <= incidents[i].detectedAt}

(***************************************************************************)
(* A detection cycle.                                                      *)
(***************************************************************************)
Drone(w) == job[w].drone
Reading(w) == job[w].reading

\* The cycle is over: its session is closed, its advisory lock (if it holds
\* one) released.
Finish(w, how) ==
  /\ pc' = [pc EXCEPT ![w] = how]
  /\ job' = [job EXCEPT ![w] = None]
  /\ seen' = [seen EXCEPT ![w] = None]

Release(d) == lock' = [lock EXCEPT ![d] = None]

\* record_detection of an anomalous reading, up to the lock.  The transaction
\* starts with its first read and takes the organization's bands with it.
BeginDetection(w) ==
  /\ pc[w] \in AtRest
  /\ Len(incidents) < MaxIncidents
  /\ \E d \in Drones, r \in Readings, p \in Policies :
       job' = [job EXCEPT ![w] = [drone |-> d, reading |-> r, policy |-> p,
                                  startedAt |-> clock, checkedAt |-> 0]]
  /\ pc' = [pc EXCEPT ![w] = "waiting"]
  /\ UNCHANGED <<clock, lock, table, seen, frames, lost, request>>

\* Mutant: no advisory lock is waited for.
AcquireLockUnserialised(w) ==
  /\ pc[w] = "waiting"
  /\ lock' = [lock EXCEPT ![Drone(w)] = w]
  /\ pc' = [pc EXCEPT ![w] = "locked"]
  /\ UNCHANGED <<clock, table, job, seen, frames, lost, request>>

\* _serialize_incident_writes: pg_advisory_xact_lock waits for the holder's end.
AcquireLock(w) ==
  /\ pc[w] = "waiting"
  /\ lock[Drone(w)] = None
  /\ lock' = [lock EXCEPT ![Drone(w)] = w]
  /\ pc' = [pc EXCEPT ![w] = "locked"]
  /\ UNCHANGED <<clock, table, job, seen, frames, lost, request>>

\* process_alert
CheckSuppression(w) ==
  /\ pc[w] = "locked"
  /\ job' = [job EXCEPT ![w].checkedAt = clock]
  /\ pc' = [pc EXCEPT ![w] = IF Suppressed(Drone(w)) THEN "folding" ELSE "creating"]
  /\ UNCHANGED <<clock, lock, table, seen, frames, lost, request>>

NewIncident(w) ==
  [drone |-> Drone(w), status |-> NEW_,
   severity |-> MergeSeverity(Reading(w).severity,
                              PolicySeverity(Reading(w).score, job[w].policy)),
   score |-> Reading(w).score, attack |-> Reading(w).attack,
   detectedAt |-> job[w].startedAt, resolved |-> FALSE,
   checkedAt |-> job[w].checkedAt, declared |-> Reading(w).severity]

\* The row a session holds for incident i.
Row(i, inc) == [id |-> i, severity |-> inc.severity, score |-> inc.score,
                attack |-> inc.attack]

\* INSERT and commit, which releases the advisory lock.
CreateIncident(w) ==
  /\ pc[w] = "creating"
  /\ incidents' = Append(incidents, NewIncident(w))
  /\ trail' = Append(trail, NoRows)
  /\ seen' = [seen EXCEPT ![w] = Row(Len(incidents) + 1, NewIncident(w))]
  /\ Release(Drone(w))
  /\ pc' = [pc EXCEPT ![w] = "refreshing"]
  /\ UNCHANGED <<clock, job, frames, lost, request>>

\* _update_existing_incident's SELECT.  The live row the suppression check saw
\* may have been resolved since: then nothing is recorded.
LoadLive(w) ==
  /\ pc[w] = "folding"
  /\ \/ /\ NewestLive(Drone(w)) = {}
        /\ Finish(w, "dropped")
        /\ Release(Drone(w))
     \/ \E i \in NewestLive(Drone(w)) :
          /\ seen' = [seen EXCEPT ![w] = Row(i, incidents[i])]
          /\ pc' = [pc EXCEPT ![w] = "updating"]
          /\ UNCHANGED <<lock, job>>
  /\ UNCHANGED <<clock, table, frames, lost, request>>

\* What the session makes of the row it read: the score and label of the worse
\* reading, the severity its policy band adds.  A reading no worse changes none.
Worse(w) == Reading(w).score > seen[w].score

FoldedAttack(w) == IF Worse(w) THEN Reading(w).attack ELSE seen[w].attack
FoldedSeverity(w) ==
  IF Worse(w)
  THEN MergeSeverity(seen[w].severity, PolicySeverity(Reading(w).score, job[w].policy))
  ELSE seen[w].severity

\* Mutant: a new label alone is not worth telling.
EscalatedBySeverityOnly(w) == FoldedSeverity(w) > seen[w].severity

\* The operator must be told: a higher band or another label.
Escalated(w) ==
  FoldedSeverity(w) > seen[w].severity \/ FoldedAttack(w) # seen[w].attack

\* The UPDATE statement names only the columns whose value the session changed.
Updated(inc, w) ==
  [inc EXCEPT
     !.score = IF Worse(w) THEN Reading(w).score ELSE @,
     !.attack = IF FoldedAttack(w) # seen[w].attack THEN FoldedAttack(w) ELSE @,
     !.severity = IF FoldedSeverity(w) # seen[w].severity THEN FoldedSeverity(w) ELSE @,
     !.declared = MergeSeverity(Reading(w).severity, @)]

\* The UPDATE, by primary key and whatever the row's status is by now; commit,
\* which releases the lock; report the row only if it got worse.
UpdateIncident(w) ==
  /\ pc[w] = "updating"
  /\ incidents' = [incidents EXCEPT ![seen[w].id] = Updated(@, w)]
  /\ Release(Drone(w))
  /\ \/ /\ Escalated(w)
        /\ pc' = [pc EXCEPT ![w] = "refreshing"]
        /\ UNCHANGED <<job, seen>>
     \/ /\ ~Escalated(w)
        /\ Finish(w, "idle")
  /\ UNCHANGED <<clock, trail, frames, lost, request>>

\* db.refresh after the commit: the frame carries the row as it is now.
RefreshIncident(w) ==
  /\ pc[w] = "refreshing"
  /\ seen' = [seen EXCEPT ![w] = Row(seen[w].id, incidents[seen[w].id])]
  /\ pc' = [pc EXCEPT ![w] = "sending"]
  /\ UNCHANGED <<clock, lock, table, job, frames, lost, request>>

\* run_detection's broadcast of the payload, outside the transaction.
BroadcastIncident(w) ==
  /\ pc[w] = "sending"
  /\ frames' = frames \cup {[id |-> seen[w].id, severity |-> seen[w].severity,
                             attack |-> seen[w].attack]}
  /\ Finish(w, "idle")
  /\ UNCHANGED <<clock, lock, table, lost, request>>

\* Mutant: a session left open after an error keeps the lock.
FailDetectionKeepingLock(w) ==
  /\ pc[w] \in Locked \cup {"waiting"}
  /\ Finish(w, "idle")
  /\ UNCHANGED <<clock, lock, table, frames, lost, request>>

\* An error before the commit, or the process's death: rollback, which
\* releases the lock.  run_detection logs it and drops the reading.
FailDetection(w) ==
  /\ pc[w] \in Locked \cup {"waiting"}
  /\ IF pc[w] = "waiting" THEN UNCHANGED lock ELSE Release(Drone(w))
  /\ Finish(w, "idle")
  /\ UNCHANGED <<clock, table, frames, lost, request>>

\* The same after the commit: the refresh or the broadcast fails.
FailBroadcast(w) ==
  /\ pc[w] \in Publishing
  /\ lost' = lost \cup {seen[w].id}
  /\ Finish(w, "idle")
  /\ UNCHANGED <<clock, lock, table, frames, request>>

(***************************************************************************)
(* An operator's request.                                                  *)
(***************************************************************************)

\* _load_incident and the checks of _advance_to.  A target at or behind the
\* status read is refused and changes nothing.
LoadIncident(o) ==
  /\ request[o] = None
  /\ \E i \in DOMAIN incidents, t \in Targets :
       /\ \A h \in Hop : trail[i][h] < MaxTrail
       /\ incidents[i].status < t
       /\ request' = [request EXCEPT ![o] =
                        [id |-> i, from |-> incidents[i].status, to |-> t]]
  /\ UNCHANGED <<clock, lock, table, detection, frames, lost>>

\* Mutant: one audit row for the whole walk.
WalkSkipping(from, to) == {[from |-> from, to |-> to]}

\* One audit row for each state entered on the way to the target.
Walk(from, to) == {[from |-> s - 1, to |-> s] : s \in from + 1 .. to}

\* The walk starts from the status that was read; entering RESOLVED stamps
\* resolution_time, which nothing ever clears.
Walked(inc, q) ==
  [inc EXCEPT !.status = q.to,
              !.resolved = @ \/ (q.from < RESOLVED /\ RESOLVED <= q.to)]

\* _advance_to's commit.
CommitWalk(o) ==
  LET q == request[o] IN
  /\ q # None
  /\ incidents' = [incidents EXCEPT ![q.id] = Walked(@, q)]
  /\ trail' = [trail EXCEPT ![q.id] =
                 [h \in Hop |-> IF h \in Walk(q.from, q.to) THEN @[h] + 1 ELSE @[h]]]
  /\ request' = [request EXCEPT ![o] = None]
  /\ UNCHANGED <<clock, lock, detection, frames, lost>>

\* The request fails before its commit: no status and no audit row is written.
FailRequest(o) ==
  /\ request[o] # None
  /\ request' = [request EXCEPT ![o] = None]
  /\ UNCHANGED <<clock, lock, table, detection, frames, lost>>

Tick ==
  /\ clock < MaxClock
  /\ clock' = clock + 1
  /\ UNCHANGED <<lock, table, detection, frames, lost, request>>

DetectionStep(w) ==
  \/ CheckSuppression(w)
  \/ CreateIncident(w)
  \/ LoadLive(w)
  \/ UpdateIncident(w)
  \/ RefreshIncident(w)
  \/ BroadcastIncident(w)

Next ==
  \/ \E w \in Detectors :
       \/ BeginDetection(w)
       \/ AcquireLock(w)
       \/ DetectionStep(w)
       \/ FailDetection(w)
       \/ FailBroadcast(w)
  \/ \E o \in Operators : LoadIncident(o) \/ CommitWalk(o) \/ FailRequest(o)
  \/ Tick

Spec == Init /\ [][Next]_vars

\* A running thread is scheduled, and PostgreSQL queues the waiters of an
\* advisory lock, so a cycle is not overtaken for ever.
Fairness ==
  \A w \in Detectors : WF_vars(DetectionStep(w)) /\ SF_vars(AcquireLock(w))

FairSpec == Spec /\ Fairness

-----------------------------------------------------------------------------
(***************************************************************************)
(* The abstract specification the engine implements: of an incident the    *)
(* lifecycle is forgotten but for the resolution, and an incident is owed   *)
(* while some cycle has committed it and not yet published it.             *)
(***************************************************************************)
Logged(inc) ==
  [drone |-> inc.drone, severity |-> inc.severity, score |-> inc.score,
   attack |-> inc.attack, detectedAt |-> inc.detectedAt, resolved |-> inc.resolved]

Owed == {i \in DOMAIN incidents : \E w \in Detectors : pc[w] \in Publishing /\ seen[w].id = i}

Log == INSTANCE IncidentLog WITH
  Bands <- Severities, now <- clock,
  log <- [i \in DOMAIN incidents |-> Logged(incidents[i])],
  owed <- Owed, told <- frames

\* However many cycles and operators interleave, and whichever statement fails,
\* the table changes as if incidents were raised, worsened and resolved one at a
\* time, and a debt to the operators ends only with a frame of the present state.
ImplementsLog == Log!Spec

-----------------------------------------------------------------------------
(***************************************************************************)
(* Safety.                                                                 *)
(***************************************************************************)

\* "Within the window, one drone means one incident" (alert_service): unless
\* an operator resolved the earlier one, a later incident of the same drone was
\* raised by a transaction that looked after the earlier one's window.  Each
\* cycle's check and insert are several statements, and so are the others'.
OneIncidentPerWindow ==
  \A i, j \in DOMAIN incidents :
    (/\ i < j
     /\ incidents[i].drone = incidents[j].drone
     /\ ~incidents[i].resolved)
    => incidents[i].detectedAt + Window < incidents[j].checkedAt

\* What operators are told is what is stored: once no cycle is about to publish
\* incident i, and no frame of it was lost, some frame has carried its present
\* severity and label, whichever of several cycles wrote them.
EveryEscalationAnnounced ==
  \A i \in DOMAIN incidents :
    \/ i \in lost
    \/ \E w \in Detectors : pc[w] \in Publishing /\ seen[w].id = i
    \/ [id |-> i, severity |-> incidents[i].severity,
        attack |-> incidents[i].attack] \in frames

\* The states that some row enters.
Entered(rows) == {h.to : h \in {g \in Hop : rows[g] > 0}}

\* "No state is ever skipped in the audit trail", and "a partially-walked
\* lifecycle must never reach the table": every row is a single hop, the rows
\* enter each state up to the incident's status, and RESOLVED if and only if it
\* has a resolution time, across failed and racing requests.  A status that has
\* fallen behind its trail shows there: racing walks recorded some hop twice.
StatusIsAudited ==
  \A i \in DOMAIN incidents :
    /\ \A h \in Hop : trail[i][h] > 0 => h.to = h.from + 1
    /\ OPEN .. incidents[i].status \subseteq Entered(trail[i])
    /\ incidents[i].resolved <=> RESOLVED \in Entered(trail[i])
    /\ \/ \A s \in Entered(trail[i]) : s <= incidents[i].status
       \/ \E h \in Hop : trail[i][h] > 1

(***************************************************************************)
(* The inductive invariant behind OneIncidentPerWindow and NeverDowngraded. *)
(***************************************************************************)

\* From the suppression check to the commit a cycle holds its drone's lock.
LockHeld == \A w \in Detectors : pc[w] \in Locked => lock[Drone(w)] = w

\* An incident leaves the live statuses only through RESOLVED.
NotLiveIsResolved ==
  /\ \A i \in DOMAIN incidents : ~Live(i) => incidents[i].resolved
  /\ \A o \in Operators :
       request[o] # None /\ request[o].from >= RESOLVED
         => incidents[request[o].id].resolved

\* A cycle about to insert has no unresolved incident in its window, still.
CheckHolds ==
  \A w \in Detectors : pc[w] = "creating" =>
    \A i \in DOMAIN incidents :
      incidents[i].drone = Drone(w) /\ ~incidents[i].resolved
        => incidents[i].detectedAt + Window < job[w].checkedAt

\* A cycle about to update grades from the row as it still is.
SeenIsFresh ==
  \A w \in Detectors : pc[w] = "updating" =>
    /\ incidents[seen[w].id].drone = Drone(w)
    /\ Row(seen[w].id, incidents[seen[w].id]) = seen[w]

\* Every cycle's reading of the incident table is still true when it commits,
\* although operators write that table without the lock.
Consistent ==
  LockHeld /\ NotLiveIsResolved /\ CheckHolds /\ SeenIsFresh /\ OneIncidentPerWindow

(***************************************************************************)
(* Steps.                                                                  *)
(***************************************************************************)

\* "Never downgrade": no cycle, grading from a row it read earlier, lowers an
\* incident's severity or score, and the label only follows a worse reading.
NeverDowngraded ==
  [][\A i \in DOMAIN incidents :
       /\ incidents'[i].severity >= incidents[i].severity
       /\ incidents'[i].score >= incidents[i].score
       /\ incidents'[i].attack # incidents[i].attack =>
            incidents'[i].score > incidents[i].score]_vars

(***************************************************************************)
(* Liveness.                                                               *)
(***************************************************************************)

\* A cycle that asks for the lock gets through: no holder keeps it for ever.
EveryCycleEnds ==
  \A w \in Detectors : pc[w] = "waiting" ~> pc[w] \in AtRest

(***************************************************************************)
(* What the code says of itself, refuted.                                  *)
(***************************************************************************)

\* _advance_to: "The lifecycle does not move backwards."
LifecycleNeverMovesBackwards ==
  [][\A i \in DOMAIN incidents : incidents'[i].status >= incidents[i].status]_vars

\* _update_existing_incident: "Incidents already resolved or closed are never
\* touched".
ResolvedIsHistory ==
  [][\A i \in DOMAIN incidents :
       ~Live(i) => /\ incidents'[i].severity = incidents[i].severity
                   /\ incidents'[i].score = incidents[i].score
                   /\ incidents'[i].attack = incidents[i].attack]_vars

\* record_detection: detector severity is "a floor that configuration cannot
\* lower": no incident is graded below a reading recorded in it.
DetectorSeverityIsAFloor ==
  \A i \in DOMAIN incidents : incidents[i].severity >= incidents[i].declared

\* LIVE_INCIDENT_STATUSES: a detection an incident no longer stands for "must
\* be recorded and broadcast": no cycle ends with its reading in no incident.
NoDetectionDropped ==
  \A w \in Detectors : pc[w] # "dropped"
=============================================================================
