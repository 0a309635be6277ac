---------------------------- MODULE IngestProofs ----------------------------
(***************************************************************************)
(* Theorems about the way in of a packet: the drones table and its sweep    *)
(* (DroneFeed), the MAVLink receiver (MavlinkReceiver) and the samples the  *)
(* guard rates (KinematicGuard).                                           *)
(***************************************************************************)
EXTENDS DroneFeed, MavlinkReceiver, KinematicGuard,
        SequenceTheorems, FiniteSetTheorems, WellFoundedInduction, TLAPS

-----------------------------------------------------------------------------
(***************************************************************************)
(* DroneFeed.                                                              *)
(***************************************************************************)

\* What WriteMarks leaves in the table.
LEMMA WriteMarksType ==
  ASSUME TypeOK, pass # None, WriteMarks
  PROVE  /\ row' \in [Drones -> DroneRow \cup {None}]
         /\ heardAt' \in [Drones -> Nat] /\ heardSince' \in [Drones -> Nat]
         /\ \A d \in Drones : row'[d] = None <=> row[d] = None
         /\ \A d \in Drones : d \in pass.marked => row'[d].status = "SILENT"
         /\ \A d \in Drones \ pass.marked : row'[d] = row[d]
  <1>1. pass \in Pass /\ \A d \in pass.marked : row[d] # None
    BY DEF TypeOK
  <1>2. [status |-> "SILENT", lastSeen |-> pass.since] \in DroneRow
    BY <1>1 DEF Pass, DroneRow
  <1> QED
    BY <1>1, <1>2, NoneAssumption DEF WriteMarks, TypeOK

\* The type invariant is inductive.
LEMMA FeedTypeStep == TypeOK /\ [Next]_vars => TypeOK'
  <1> SUFFICES ASSUME TypeOK, [Next]_vars PROVE TypeOK'
    OBVIOUS
  <1>1. ASSUME NEW p \in Ingests, BeginIngest(p) PROVE TypeOK'
    <2>1. PICK d \in Drones :
            ingest' = [ingest EXCEPT ![p] = [drone |-> d, known |-> row[d] # None,
                                             silent |-> Silent(d), at |-> clock]]
      BY <1>1 DEF BeginIngest
    <2>2. ingest' \in [Ingests -> Session \cup {None}]
      BY <2>1 DEF TypeOK, Session, Silent
    <2>3. \A q \in Ingests : ingest'[q] # None /\ ingest'[q].known => row[ingest'[q].drone] # None
      BY <2>1 DEF TypeOK
    <2> QED
      BY <1>1, <2>2, <2>3 DEF BeginIngest, TypeOK, ghosts, silences
  <1>2. ASSUME NEW p \in Ingests, CommitIngest(p) PROVE TypeOK'
    <2> DEFINE d == ingest[p].drone
    <2>1. d \in Drones /\ row[d] \in DroneRow /\ ingest[p].at \in Nat
      BY <1>2 DEF CommitIngest, TypeOK, Session
    <2>2. row' = [row EXCEPT ![d] = row'[d]] /\ row'[d] \in DroneRow
      BY <1>2, <2>1 DEF CommitIngest, TypeOK, DroneRow
    <2>3. row' \in [Drones -> DroneRow \cup {None}] /\ \A e \in Drones : row[e] # None => row'[e] # None
      BY <2>1, <2>2, NoneAssumption DEF TypeOK
    <2>4. ingest' \in [Ingests -> Session \cup {None}]
          /\ \A q \in Ingests : ingest'[q] # None => ingest'[q] = ingest[q]
      BY <1>2 DEF CommitIngest, TypeOK
    <2>5. heardAt' \in [Drones -> Nat] /\ heardSince' \in [Drones -> Nat]
      BY <1>2, <2>1 DEF CommitIngest, Heard, TypeOK
    <2>6. \A q \in Ingests : ingest[q] # None => ingest[q].drone \in Drones
      BY DEF TypeOK, Session
    <2>7. pass # None => \A e \in pass.todo \cup pass.marked \cup pass.alerts : row'[e] # None
      BY <2>3 DEF TypeOK, Pass
    <2> QED
      BY <1>2, <2>3, <2>4, <2>5, <2>6, <2>7 DEF CommitIngest, TypeOK, silences
  <1>3. ASSUME NEW p \in Ingests, RegisterDrone(p) PROVE TypeOK'
    BY <1>3, NoneAssumption DEF RegisterDrone, Heard, TypeOK, Session, DroneRow, silences
  <1>4. ASSUME NEW p \in Ingests, FailIngest(p) PROVE TypeOK'
    BY <1>4 DEF FailIngest, TypeOK, ghosts, silences
  <1>5. CASE BeginPass
    BY <1>5 DEF BeginPass, TypeOK, Pass, Overdue, ghosts, silences
  <1>6. CASE MarkSilent
    <2>1. PICK d \in pass.todo, path \in {"creating", "folding"} :
            pass' = [pass EXCEPT !.phase = path, !.on = d, !.todo = @ \ {d},
                                 !.marked = @ \cup {d}]
      BY <1>6 DEF MarkSilent
    <2>2. pass \in Pass /\ d \in Drones
      BY <1>6 DEF MarkSilent, TypeOK, Pass
    <2>3. pass' \in Pass /\ pass'.on \in pass'.marked
          /\ pass'.todo \cup pass'.marked \cup pass'.alerts
               \subseteq pass.todo \cup pass.marked \cup pass.alerts
      BY <2>1, <2>2 DEF Pass
    <2> QED
      BY <1>6, <2>2, <2>3 DEF MarkSilent, TypeOK, ghosts, silences
  <1>7. ASSUME pass # None, pass.phase \in {"creating", "folding"}, NEW alerts \in SUBSET {pass.on},
               Recorded(alerts)
        PROVE  TypeOK'
    <2>1. pass \in Pass /\ pass.on \in pass.marked /\ pass.on \in Drones
      BY <1>7 DEF TypeOK, Pass
    <2>2. pass' \in Pass /\ pass'.phase = "marking" /\ pass'.marked = {}
          /\ pass'.todo = pass.todo /\ pass'.alerts = pass.alerts \cup alerts
      BY <1>7, <2>1 DEF Recorded, TypeOK, Pass
    <2>3. \A d \in pass'.todo \cup pass'.marked \cup pass'.alerts : row'[d] # None
      BY <1>7, <2>1, <2>2, WriteMarksType DEF Recorded, TypeOK, Pass
    <2>4. \A q \in Ingests : ingest'[q] # None /\ ingest'[q].known => row'[ingest'[q].drone] # None
      BY <1>7, WriteMarksType DEF Recorded, TypeOK, Session
    <2> QED
      BY <1>7, <2>1, <2>2, <2>3, <2>4, WriteMarksType DEF Recorded, TypeOK, Live
  <1>8. CASE CreateSilence
    BY <1>7, <1>8 DEF CreateSilence
  <1>9. CASE FoldSilence
    BY <1>7, <1>9 DEF FoldSilence
  <1>10. CASE DropSilence
    BY <1>10 DEF DropSilence, TypeOK, Pass, ghosts, silences
  <1>11. CASE CommitMarks
    <2>1. pass \in Pass
      BY <1>11 DEF CommitMarks, TypeOK
    <2>2. pass' \in Pass /\ pass'.phase = "telling" /\ pass'.marked = {}
          /\ pass'.todo = pass.todo /\ pass'.alerts = pass.alerts
      BY <1>11, <2>1 DEF CommitMarks, Pass
    <2>3. \A d \in pass'.todo \cup pass'.marked \cup pass'.alerts : row'[d] # None
      BY <1>11, <2>1, <2>2, WriteMarksType DEF CommitMarks, TypeOK, Pass
    <2>4. \A q \in Ingests : ingest'[q] # None /\ ingest'[q].known => row'[ingest'[q].drone] # None
      BY <1>11, WriteMarksType DEF CommitMarks, TypeOK, Session
    <2> QED
      BY <1>11, <2>1, <2>2, <2>3, <2>4, WriteMarksType DEF CommitMarks, TypeOK, silences
  <1>12. CASE TellSilence
    BY <1>12 DEF TellSilence, TypeOK, Pass, ghosts, silences
  <1>13. CASE EndPass
    BY <1>13 DEF EndPass, TypeOK, ghosts, silences
  <1>14. CASE FailPass
    BY <1>14 DEF FailPass, TypeOK, ghosts, silences
  <1>15. ASSUME NEW d \in Drones, OtherDetection(d) \/ ResolveIncident(d) PROVE TypeOK'
    BY <1>15 DEF OtherDetection, ResolveIncident, TypeOK, Live, ghosts, silences
  <1>16. CASE Tick
    BY <1>16 DEF Tick, TypeOK, ghosts, silences
  <1>17. CASE UNCHANGED vars
    BY <1>17 DEF vars, TypeOK
  <1> QED
    BY <1>1, <1>2, <1>3, <1>4, <1>5, <1>6, <1>8, <1>9, <1>10, <1>11, <1>12, <1>13, <1>14,
       <1>15, <1>16, <1>17 DEF Next, PassStep

\* DroneFeed.TypeOK: the drones table, the ingest sessions (telemetry.py) and the
\* heartbeat pass keep their shape; a drone that a session or the sweep has in
\* hand keeps its row.
THEOREM FeedTypeCorrect == Spec => []TypeOK
  <1>1. Init => TypeOK
    BY DEF Init, TypeOK, Live
  <1> QED
    BY <1>1, FeedTypeStep, PTL DEF Spec

-----------------------------------------------------------------------------
\* Sets of sessions are counted.
LEMMA SessionsCount ==
  ASSUME NEW S \in SUBSET Ingests, NEW T \in SUBSET S
  PROVE  /\ Cardinality(S) \in Nat /\ Cardinality(T) \in Nat /\ Cardinality(Ingests) \in Nat
         /\ Cardinality(T) <= Cardinality(S) /\ Cardinality(S) <= Cardinality(Ingests)
         /\ \A p \in S \ T : Cardinality(T) <= Cardinality(S) - 1
  <1>1. IsFiniteSet(S) /\ IsFiniteSet(T)
        /\ Cardinality(T) <= Cardinality(S) /\ Cardinality(S) <= Cardinality(Ingests)
    BY FS_Subset, ConstantsAssumption DEF ConstantsAssumption
  <1>2. Cardinality(S) \in Nat /\ Cardinality(T) \in Nat /\ Cardinality(Ingests) \in Nat
    BY <1>1, FS_CardinalityType, ConstantsAssumption DEF ConstantsAssumption
  <1>3. ASSUME NEW p \in S \ T PROVE Cardinality(T) <= Cardinality(S) - 1
    <2>1. IsFiniteSet(S \ {p}) /\ Cardinality(S \ {p}) = Cardinality(S) - 1
      BY <1>1, <1>3, FS_RemoveElement
    <2>2. T \subseteq S \ {p}
      BY <1>3
    <2> QED
      BY <2>1, <2>2, FS_Subset
  <1> QED
    BY <1>1, <1>2, <1>3

\* The sessions that will stamp drone d and leave its mark.
Blind(d) == {p \in Ingests : /\ ingest[p] # None
                             /\ ingest[p].drone = d
                             /\ ~ingest[p].silent}

\* A step that raises no count and adds no blind session keeps the bound.
LEMMA QuietMarks ==
  ASSUME TypeOK, MarkOutlivedByInFlightOnly, NEW d \in Drones, Silent(d),
         heardSince'[d] = heardSince[d], Blind(d)' \subseteq Blind(d)
  PROVE  heardSince'[d] + Cardinality(Blind(d)') <= Cardinality(Ingests)
  <1>1. heardSince[d] \in Nat
        /\ heardSince[d] + Cardinality(Blind(d)) <= Cardinality(Ingests)
    BY DEF TypeOK, MarkOutlivedByInFlightOnly, Blind
  <1>2. Blind(d) \in SUBSET Ingests
    BY DEF Blind
  <1>3. Cardinality(Blind(d)) \in Nat /\ Cardinality(Blind(d)') \in Nat /\ Cardinality(Ingests) \in Nat
        /\ Cardinality(Blind(d)') <= Cardinality(Blind(d))
    BY <1>2, SessionsCount
  <1> QED
    BY <1>1, <1>3

\* Each packet counted since a mark was a blind session when the mark was written.
LEMMA MarksStep ==
  TypeOK /\ MarkOutlivedByInFlightOnly /\ [Next]_vars => MarkOutlivedByInFlightOnly'
  <1> SUFFICES ASSUME TypeOK, MarkOutlivedByInFlightOnly, [Next]_vars,
                      NEW d \in Drones, Silent(d)'
               PROVE  heardSince'[d] + Cardinality(Blind(d)') <= Cardinality(Ingests)
    BY DEF MarkOutlivedByInFlightOnly, Blind
  <1> USE DEF Silent
  <1>1. ASSUME NEW p \in Ingests, BeginIngest(p)
        PROVE  heardSince'[d] + Cardinality(Blind(d)') <= Cardinality(Ingests)
    <2>1. Blind(d)' \subseteq Blind(d) /\ UNCHANGED <<row, heardSince>>
      <3>1. PICK e \in Drones :
              ingest' = [ingest EXCEPT ![p] = [drone |-> e, known |-> row[e] # None,
                                               silent |-> Silent(e), at |-> clock]]
        BY <1>1 DEF BeginIngest
      <3>2. UNCHANGED <<row, heardSince>>
        BY <1>1 DEF BeginIngest, ghosts
      <3>3. Silent(d)
        BY <3>2
      <3>4. ASSUME NEW q \in Blind(d)' PROVE q \in Blind(d)
        <4>1. q # p
          BY <3>1, <3>3, <3>4 DEF Blind, TypeOK
        <4> QED
          BY <3>1, <3>4, <4>1 DEF Blind, TypeOK
      <3> QED
        BY <3>2, <3>4
    <2> QED
      BY <2>1, QuietMarks
  <1>2. ASSUME NEW p \in Ingests, CommitIngest(p)
        PROVE  heardSince'[d] + Cardinality(Blind(d)') <= Cardinality(Ingests)
    <2>1. Blind(d)' \subseteq Blind(d) \ {p}
      BY <1>2 DEF CommitIngest, Blind, TypeOK
    <2>2. CASE ingest[p].drone # d
      <3>1. row'[d] = row[d] /\ heardSince'[d] = heardSince[d]
        BY <1>2, <2>2 DEF CommitIngest, Heard, TypeOK
      <3> QED
        BY <2>1, <3>1, QuietMarks
    <2>3. CASE ingest[p].drone = d
      <3>1. ~ingest[p].silent /\ Silent(d) /\ p \in Blind(d)
        BY <1>2, <2>3 DEF CommitIngest, Blind, TypeOK
      <3>2. heardSince'[d] = heardSince[d] + 1 /\ heardSince[d] \in Nat
        BY <1>2, <2>3 DEF CommitIngest, Heard, TypeOK
      <3>3. Blind(d) \in SUBSET Ingests /\ p \in Blind(d) \ Blind(d)'
        BY <2>1, <3>1 DEF Blind
      <3>4. Cardinality(Blind(d)) \in Nat /\ Cardinality(Blind(d)') \in Nat
            /\ Cardinality(Blind(d)') <= Cardinality(Blind(d)) - 1
        BY <2>1, <3>3, SessionsCount
      <3>5. heardSince[d] + Cardinality(Blind(d)) <= Cardinality(Ingests)
        BY <3>1 DEF MarkOutlivedByInFlightOnly, Blind
      <3>6. Cardinality(Ingests) \in Nat
        BY <3>3, SessionsCount
      <3> QED
        BY <3>2, <3>4, <3>5, <3>6
    <2> QED
      BY <2>2, <2>3
  <1>3. ASSUME NEW p \in Ingests, RegisterDrone(p)
        PROVE  heardSince'[d] + Cardinality(Blind(d)') <= Cardinality(Ingests)
    <2>1. row'[d] = row[d] /\ heardSince'[d] = heardSince[d] /\ Blind(d)' \subseteq Blind(d)
      BY <1>3 DEF RegisterDrone, Heard, Blind, TypeOK
    <2> QED
      BY <2>1, QuietMarks
  <1>4. ASSUME NEW p \in Ingests, FailIngest(p)
        PROVE  heardSince'[d] + Cardinality(Blind(d)') <= Cardinality(Ingests)
    <2>1. Blind(d)' \subseteq Blind(d) /\ UNCHANGED <<row, heardSince>>
      BY <1>4 DEF FailIngest, Blind, TypeOK, ghosts
    <2> QED
      BY <2>1, QuietMarks
  <1>5. ASSUME pass # None, WriteMarks, UNCHANGED ingest
        PROVE  heardSince'[d] + Cardinality(Blind(d)') <= Cardinality(Ingests)
    <2>1. Blind(d)' = Blind(d) /\ Blind(d) \in SUBSET Ingests
      BY <1>5 DEF Blind
    <2>2. CASE d \in pass.marked
      <3>1. heardSince'[d] = 0
        BY <1>5, <2>2 DEF WriteMarks
      <3>2. Cardinality(Blind(d)) \in Nat /\ Cardinality(Blind(d)) <= Cardinality(Ingests)
        BY <2>1, SessionsCount
      <3> QED
        BY <2>1, <3>1, <3>2
    <2>3. CASE d \notin pass.marked
      <3>1. row'[d] = row[d] /\ heardSince'[d] = heardSince[d]
        BY <1>5, <2>3 DEF WriteMarks
      <3> QED
        BY <2>1, <3>1, QuietMarks
    <2> QED
      BY <2>2, <2>3
  <1>6. CASE CreateSilence \/ FoldSilence \/ CommitMarks
    BY <1>5, <1>6 DEF CreateSilence, FoldSilence, CommitMarks, Recorded
  <1>7. CASE UNCHANGED <<row, ingest, heardSince>>
    <2>1. Blind(d)' \subseteq Blind(d)
      BY <1>7 DEF Blind
    <2> QED
      BY <1>7, <2>1, QuietMarks
  <1>8. CASE BeginPass \/ MarkSilent \/ DropSilence \/ TellSilence \/ EndPass \/ FailPass \/ Tick
    BY <1>7, <1>8 DEF BeginPass, MarkSilent, DropSilence, TellSilence, EndPass, FailPass, Tick, ghosts
  <1>9. ASSUME NEW e \in Drones, OtherDetection(e) \/ ResolveIncident(e)
        PROVE  heardSince'[d] + Cardinality(Blind(d)') <= Cardinality(Ingests)
    BY <1>7, <1>9 DEF OtherDetection, ResolveIncident, ghosts
  <1>10. CASE UNCHANGED vars
    BY <1>7, <1>10 DEF vars
  <1> QED
    BY <1>1, <1>2, <1>3, <1>4, <1>6, <1>8, <1>9, <1>10 DEF Next, PassStep

\* DroneFeed.MarkOutlivedByInFlightOnly: an ingest session that read the drone
\* ACTIVE does not write its status, so its commit leaves the sweep's mark.
\* However many packets are in flight when a drone is marked silent, no more
\* than those leave the mark standing: the next packet brings the drone back.
THEOREM MarksEnd == Spec => []MarkOutlivedByInFlightOnly
  <1>1. Init => MarkOutlivedByInFlightOnly
    BY DEF Init, MarkOutlivedByInFlightOnly, Silent
  <1> QED
    BY <1>1, FeedTypeCorrect, MarksStep, PTL DEF Spec

-----------------------------------------------------------------------------
\* Behind a mark that a commit will write stands a dropped silence, or the drone
\* in hand, whose incident the commit carries; what is still to be marked is not
\* SILENT, so forgetting its last silence leaves no mark by itself.
MarksCovered ==
  /\ MarkHasItsIncident
  /\ pass # None =>
       /\ pass.todo \cap pass.marked = {}
       /\ \A d \in pass.todo : ~Silent(d)
       /\ pass.phase = "marking" => pass.marked \subseteq dropped
       /\ pass.phase \in {"creating", "folding"} => pass.marked \ {pass.on} \subseteq dropped

\* A step that writes no mark and turns no drone SILENT.
LEMMA QuietCovered ==
  ASSUME MarksCovered, UNCHANGED <<pass, recorded, dropped>>,
         \A d \in Drones : Silent(d)' => Silent(d), TypeOK
  PROVE  MarksCovered'
  BY DEF MarksCovered, MarkHasItsIncident, TypeOK, Pass

LEMMA CoveredStep == TypeOK /\ MarksCovered /\ [Next]_vars => MarksCovered'
  <1> SUFFICES ASSUME TypeOK, MarksCovered, [Next]_vars PROVE MarksCovered'
    OBVIOUS
  <1>0. pass # None => pass \in Pass /\ pass.todo \subseteq Drones /\ pass.marked \subseteq Drones
    BY DEF TypeOK, Pass
  <1>1. ASSUME NEW p \in Ingests,
               BeginIngest(p) \/ CommitIngest(p) \/ RegisterDrone(p) \/ FailIngest(p)
        PROVE  MarksCovered'
    <2>1. UNCHANGED <<pass, recorded, dropped>>
      BY <1>1 DEF BeginIngest, CommitIngest, RegisterDrone, FailIngest, ghosts, silences
    <2>2. ASSUME NEW d \in Drones, Silent(d)' PROVE Silent(d)
      <3>1. CASE BeginIngest(p) \/ FailIngest(p)
        BY <2>2, <3>1 DEF BeginIngest, FailIngest, Silent
      <3>2. CASE CommitIngest(p)
        <4>1. ingest[p].drone \in Drones /\ row[ingest[p].drone] # None
          BY <3>2 DEF CommitIngest, TypeOK, Session
        <4> QED
          BY <2>2, <3>2, <4>1 DEF CommitIngest, Silent, TypeOK
      <3>3. CASE RegisterDrone(p)
        BY <2>2, <3>3 DEF RegisterDrone, Silent, TypeOK
      <3> QED
        BY <1>1, <3>1, <3>2, <3>3
    <2> QED
      BY <2>1, <2>2, QuietCovered
  <1>2. CASE BeginPass
    <2>1. /\ pass' # None /\ pass'.todo = {d \in Drones : Overdue(d)} /\ pass'.marked = {}
          /\ pass'.phase = "marking" /\ UNCHANGED <<row, recorded, dropped>>
      BY <1>2, NoneAssumption DEF BeginPass, ghosts, silences, Pass, TypeOK
    <2> QED
      BY <2>1 DEF MarksCovered, MarkHasItsIncident, Silent, Overdue
  <1>3. CASE MarkSilent
    <2>1. PICK d \in pass.todo, path \in {"creating", "folding"} :
            /\ pass' = [pass EXCEPT !.phase = path, !.on = d, !.todo = @ \ {d},
                                    !.marked = @ \cup {d}]
            /\ recorded' = recorded \ {d} /\ dropped' = dropped \ {d}
      BY <1>3 DEF MarkSilent
    <2>2. pass # None /\ pass.phase = "marking" /\ pass \in Pass /\ UNCHANGED row
      BY <1>0, <1>3 DEF MarkSilent
    <2>3. /\ pass'.phase \in {"creating", "folding"} /\ pass'.on = d
          /\ pass'.todo = pass.todo \ {d} /\ pass'.marked = pass.marked \cup {d}
      BY <2>1, <2>2 DEF Pass
    <2>4. d \notin pass.marked /\ ~Silent(d) /\ pass.marked \subseteq dropped
      BY <2>1, <2>2 DEF MarksCovered
    <2> QED
      BY <2>1, <2>2, <2>3, <2>4 DEF MarksCovered, MarkHasItsIncident, Silent
  <1>4. ASSUME NEW alerts, pass # None, pass.phase \in {"creating", "folding"}, Recorded(alerts)
        PROVE  MarksCovered'
    <2>1. /\ pass'.phase = "marking" /\ pass'.marked = {} /\ pass'.todo = pass.todo
          /\ recorded' = recorded \cup {pass.on} /\ UNCHANGED dropped
      BY <1>0, <1>4 DEF Recorded, Pass
    <2>2. ASSUME NEW d \in Drones, Silent(d)' PROVE d \in (recorded \cup dropped)'
      <3>1. CASE d \in pass.marked
        BY <1>4, <2>1, <3>1 DEF MarksCovered
      <3>2. CASE d \notin pass.marked
        BY <1>4, <2>1, <2>2, <3>2, WriteMarksType DEF Recorded, MarksCovered, MarkHasItsIncident, Silent
      <3> QED
        BY <3>1, <3>2
    <2>3. \A d \in pass.todo : row'[d] = row[d]
      BY <1>0, <1>4, WriteMarksType DEF Recorded, MarksCovered
    <2> QED
      BY <1>4, <2>1, <2>2, <2>3 DEF MarksCovered, MarkHasItsIncident, Silent
  <1>5. CASE CreateSilence \/ FoldSilence
    BY <1>4, <1>5 DEF CreateSilence, FoldSilence
  <1>6. CASE DropSilence
    <2>1. /\ pass # None /\ pass.phase = "folding" /\ UNCHANGED <<row, recorded>>
          /\ pass'.phase = "marking" /\ pass'.marked = pass.marked /\ pass'.todo = pass.todo
          /\ dropped' = dropped \cup {pass.on}
      BY <1>0, <1>6 DEF DropSilence, Pass
    <2> QED
      BY <2>1 DEF MarksCovered, MarkHasItsIncident, Silent
  <1>7. CASE CommitMarks
    <2>1. /\ pass # None /\ pass.phase = "marking" /\ pass.todo = {}
          /\ pass'.phase = "telling" /\ pass'.marked = {} /\ pass'.todo = {}
          /\ UNCHANGED <<recorded, dropped>>
      BY <1>0, <1>7 DEF CommitMarks, Pass, silences
    <2>2. ASSUME NEW d \in Drones, Silent(d)' PROVE d \in recorded \cup dropped
      <3>1. CASE d \in pass.marked
        BY <2>1, <3>1 DEF MarksCovered
      <3>2. CASE d \notin pass.marked
        BY <1>7, <2>1, <2>2, <3>2, WriteMarksType DEF CommitMarks, MarksCovered, MarkHasItsIncident, Silent
      <3> QED
        BY <3>1, <3>2
    <2> QED
      BY <2>1, <2>2 DEF MarksCovered, MarkHasItsIncident
  <1>8. CASE TellSilence
    <2>1. /\ pass # None /\ pass.phase = "telling" /\ pass'.phase = "telling"
          /\ pass'.marked = pass.marked /\ pass'.todo = pass.todo
          /\ UNCHANGED <<row, recorded, dropped>>
      BY <1>0, <1>8 DEF TellSilence, Pass, ghosts, silences
    <2> QED
      BY <2>1 DEF MarksCovered, MarkHasItsIncident, Silent
  <1>9. CASE EndPass \/ FailPass
    <2>1. pass' = None /\ UNCHANGED <<row, recorded, dropped>>
      BY <1>9 DEF EndPass, FailPass, ghosts, silences
    <2> QED
      BY <2>1 DEF MarksCovered, MarkHasItsIncident, Silent
  <1>10. ASSUME UNCHANGED <<row, pass, recorded, dropped>> PROVE MarksCovered'
    BY <1>10, QuietCovered DEF Silent
  <1>11. ASSUME NEW d \in Drones, OtherDetection(d) \/ ResolveIncident(d) PROVE MarksCovered'
    BY <1>10, <1>11 DEF OtherDetection, ResolveIncident, ghosts, silences
  <1>12. CASE Tick \/ UNCHANGED vars
    BY <1>10, <1>12 DEF Tick, vars, ghosts, silences
  <1> QED
    BY <1>1, <1>2, <1>3, <1>5, <1>6, <1>7, <1>8, <1>9, <1>11, <1>12 DEF Next, PassStep

\* DroneFeed.MarkHasItsIncident: the engine's commit for a drone and the sweep's own
\* last commit write every mark set so far (heartbeat_service.py:110-161), so a mark
\* may be committed by another drone's incident, but never before its own drone's
\* incident is, or was found resolved.
THEOREM MarkRecorded == Spec => []MarkHasItsIncident
  <1>1. Init => MarksCovered
    BY DEF Init, MarksCovered, MarkHasItsIncident, Silent
  <1>2. MarksCovered => MarkHasItsIncident
    BY DEF MarksCovered
  <1> QED
    BY <1>1, <1>2, CoveredStep, FeedTypeCorrect, PTL DEF Spec

-----------------------------------------------------------------------------
\* Nothing is stamped later than now.
InTheDay ==
  /\ \A p \in Ingests : ingest[p] # None => ingest[p].at <= clock
  /\ pass # None => pass.began <= clock

\* Every drone the running pass could not have heard is marked, or will be by a
\* commit of this pass.
UnheardInHand ==
  pass # None => \A d \in Drones : Unheard(d) => Silent(d) \/ d \in pass.todo \cup pass.marked

Swept == InTheDay /\ ActiveWasHeard /\ UnheardInHand

\* A step that leaves rows and packets alone and the pass with what it has in hand.
LEMMA QuietSweep ==
  ASSUME TypeOK, Swept, UNCHANGED <<row, heardAt>>, InTheDay',
         pass' # None => /\ pass # None /\ pass'.began = pass.began
                         /\ pass'.todo \cup pass'.marked = pass.todo \cup pass.marked
  PROVE  Swept'
  BY DEF Swept, ActiveWasHeard, UnheardInHand, Unheard, Silent

\* A session's commit stamps a drone with an instant the pass cannot call overdue.
LEMMA HeardSweep ==
  ASSUME TypeOK, Swept, NEW d \in Drones, NEW p \in Ingests, ingest[p] # None, ingest[p].drone = d,
         row'[d] # None, row'[d].lastSeen = ingest[p].at, heardAt'[d] = clock,
         \A e \in Drones \ {d} : row'[e] = row[e] /\ heardAt'[e] = heardAt[e],
         ingest' = [ingest EXCEPT ![p] = None], UNCHANGED <<clock, pass>>
  PROVE  Swept'
  <1>1. ingest[p].at <= clock /\ clock \in Nat /\ ingest[p].at \in Nat /\ Threshold \in Nat
    BY ConstantsAssumption DEF Swept, InTheDay, TypeOK, Session, ConstantsAssumption
  <1>2. InTheDay'
    BY DEF Swept, InTheDay, TypeOK
  <1>3. ActiveWasHeard'
    BY <1>1 DEF Swept, ActiveWasHeard
  <1>4. UnheardInHand'
    <2>1. pass # None => pass.began \in Nat /\ pass.began <= clock
      BY DEF Swept, InTheDay, TypeOK, Pass
    <2> QED
      BY <1>1, <2>1 DEF Swept, UnheardInHand, Unheard, Silent
  <1> QED
    BY <1>2, <1>3, <1>4 DEF Swept

\* A commit of the sweep turns its marks into rows.
LEMMA WrittenSweep ==
  ASSUME TypeOK, Swept, pass # None, WriteMarks, pass' # None, UNCHANGED <<clock, ingest>>,
         pass'.began = pass.began, pass'.todo = pass.todo
  PROVE  Swept'
  <1>1. InTheDay'
    BY DEF Swept, InTheDay
  <1>2. ActiveWasHeard'
    BY WriteMarksType DEF Swept, ActiveWasHeard, WriteMarks, TypeOK
  <1>3. UnheardInHand'
    BY WriteMarksType DEF Swept, UnheardInHand, Unheard, Silent, WriteMarks, TypeOK
  <1> QED
    BY <1>1, <1>2, <1>3 DEF Swept

LEMMA SweptStep == TypeOK /\ Swept /\ [Next]_vars => Swept'
  <1> SUFFICES ASSUME TypeOK, Swept, [Next]_vars PROVE Swept'
    OBVIOUS
  <1> USE NoneAssumption
  <1>1. /\ pass # None => pass \in Pass
        /\ pass' # None => pass' \in Pass
        /\ clock \in Nat
    BY FeedTypeStep DEF TypeOK
  <1>2. ASSUME NEW p \in Ingests, BeginIngest(p) PROVE Swept'
    <2>1. InTheDay'
      BY <1>1, <1>2 DEF BeginIngest, Swept, InTheDay, TypeOK
    <2> QED
      BY <1>2, <2>1, QuietSweep DEF BeginIngest, ghosts
  <1>3. ASSUME NEW p \in Ingests, CommitIngest(p) PROVE Swept'
    <2> DEFINE d == ingest[p].drone
    <2>1. d \in Drones /\ row[d] \in DroneRow
      BY <1>3 DEF CommitIngest, TypeOK, Session
    <2>2. row'[d] # None /\ row'[d].lastSeen = ingest[p].at /\ heardAt'[d] = clock
      <3>1. row'[d] \in DroneRow /\ row'[d].lastSeen = ingest[p].at
        BY <1>3, <2>1 DEF CommitIngest, TypeOK, DroneRow, Session
      <3> QED
        BY <1>3, <2>1, <3>1 DEF CommitIngest, Heard, TypeOK
    <2>3. \A e \in Drones \ {d} : row'[e] = row[e] /\ heardAt'[e] = heardAt[e]
      BY <1>3, <2>1 DEF CommitIngest, Heard, TypeOK
    <2> QED
      BY <1>3, <2>1, <2>2, <2>3, HeardSweep DEF CommitIngest
  <1>4. ASSUME NEW p \in Ingests, RegisterDrone(p) PROVE Swept'
    <2> DEFINE d == ingest[p].drone
    <2>1. d \in Drones /\ row'[d] = [status |-> "ACTIVE", lastSeen |-> ingest[p].at]
          /\ ingest[p].at \in Nat
      BY <1>4 DEF RegisterDrone, TypeOK, Session
    <2>2. row'[d] # None /\ row'[d].lastSeen = ingest[p].at /\ heardAt'[d] = clock
      BY <1>4, <2>1 DEF RegisterDrone, Heard, TypeOK, DroneRow
    <2>3. \A e \in Drones \ {d} : row'[e] = row[e] /\ heardAt'[e] = heardAt[e]
      BY <1>4, <2>1 DEF RegisterDrone, Heard, TypeOK
    <2> QED
      BY <1>4, <2>1, <2>2, <2>3, HeardSweep DEF RegisterDrone
  <1>5. ASSUME NEW p \in Ingests, FailIngest(p) PROVE Swept'
    <2>1. InTheDay'
      BY <1>5 DEF FailIngest, Swept, InTheDay, TypeOK
    <2> QED
      BY <1>5, <2>1, QuietSweep DEF FailIngest, ghosts
  <1>6. CASE BeginPass
    <2>1. /\ pass' # None /\ pass'.began = clock /\ pass'.marked = {}
          /\ pass'.todo = {d \in Drones : Overdue(d)}
      BY <1>1, <1>6 DEF BeginPass, Pass, TypeOK
    <2>2. InTheDay'
      BY <1>1, <1>6, <2>1 DEF BeginPass, Swept, InTheDay
    <2>3. ActiveWasHeard'
      BY <1>6 DEF BeginPass, ghosts, Swept, ActiveWasHeard
    <2>4. ASSUME NEW d \in Drones, row[d] # None, heardAt[d] + Threshold < clock, ~Silent(d)
          PROVE  Overdue(d)
      <3>1. row[d] \in DroneRow /\ row[d].status = "ACTIVE" /\ row[d].lastSeen \in Nat
            /\ heardAt[d] \in Nat
        BY <2>4 DEF Silent, TypeOK, DroneRow
      <3>2. row[d].lastSeen <= heardAt[d]
        BY <2>4, <3>1 DEF Swept, ActiveWasHeard
      <3> QED
        BY <1>1, <2>4, <3>1, <3>2, ConstantsAssumption DEF Overdue, ConstantsAssumption
    <2>5. UnheardInHand'
      BY <1>6, <2>1, <2>4 DEF BeginPass, ghosts, UnheardInHand, Unheard, Silent
    <2> QED
      BY <2>2, <2>3, <2>5 DEF Swept
  <1>7. ASSUME pass # None, pass' # None, UNCHANGED <<clock, row, ingest, heardAt>>,
               pass'.began = pass.began,
               pass'.todo \cup pass'.marked = pass.todo \cup pass.marked
        PROVE  Swept'
    <2>1. InTheDay'
      BY <1>7 DEF Swept, InTheDay
    <2> QED
      BY <1>7, <2>1, QuietSweep
  <1>8. CASE MarkSilent
    <2>1. PICK d \in pass.todo, path \in {"creating", "folding"} :
            pass' = [pass EXCEPT !.phase = path, !.on = d, !.todo = @ \ {d},
                                 !.marked = @ \cup {d}]
      BY <1>8 DEF MarkSilent
    <2>2. pass \in Pass /\ d \in Drones
      BY <1>1, <1>8 DEF MarkSilent, Pass
    <2>3. /\ pass' \in Pass /\ pass'.began = pass.began
          /\ pass'.todo \cup pass'.marked = pass.todo \cup pass.marked
      BY <2>1, <2>2 DEF Pass
    <2> QED
      BY <1>7, <1>8, <2>3 DEF MarkSilent, ghosts
  <1>9. CASE DropSilence
    <2>1. pass \in Pass /\ pass' = [pass EXCEPT !.phase = "marking", !.on = None]
      BY <1>1, <1>9 DEF DropSilence
    <2>2. /\ pass' \in Pass /\ pass'.began = pass.began
          /\ pass'.todo = pass.todo /\ pass'.marked = pass.marked
      BY <2>1 DEF Pass
    <2> QED
      BY <1>7, <1>9, <2>2 DEF DropSilence, ghosts
  <1>10. CASE TellSilence
    <2>1. PICK d \in pass.alerts : pass' = [pass EXCEPT !.alerts = @ \ {d}]
      BY <1>10 DEF TellSilence
    <2>2. /\ pass # None /\ pass' \in Pass /\ pass'.began = pass.began
          /\ pass'.todo = pass.todo /\ pass'.marked = pass.marked
      BY <1>1, <1>10, <2>1 DEF TellSilence, Pass
    <2> QED
      BY <1>7, <1>10, <2>2 DEF TellSilence, ghosts
  <1>11. ASSUME NEW alerts, pass # None, Recorded(alerts),
                alerts \subseteq Drones
         PROVE  Swept'
    <2>1. pass' \in Pass /\ pass'.began = pass.began /\ pass'.todo = pass.todo
      BY <1>1, <1>11 DEF Recorded, Pass
    <2> QED
      BY <1>11, <2>1, WrittenSweep DEF Recorded
  <1>12. CASE CreateSilence \/ FoldSilence
    <2>1. pass # None /\ pass.on \in Drones
      BY <1>12 DEF CreateSilence, FoldSilence, TypeOK, Pass
    <2> QED
      BY <1>11, <1>12, <2>1 DEF CreateSilence, FoldSilence
  <1>13. CASE CommitMarks
    <2>1. pass \in Pass /\ pass' = [pass EXCEPT !.phase = "telling", !.marked = {}]
      BY <1>1, <1>13 DEF CommitMarks
    <2>2. pass' \in Pass /\ pass'.began = pass.began /\ pass'.todo = pass.todo
      BY <2>1 DEF Pass
    <2> QED
      BY <1>13, <2>2, WrittenSweep DEF CommitMarks
  <1>14. CASE EndPass \/ FailPass
    <2>1. InTheDay'
      BY <1>14 DEF EndPass, FailPass, Swept, InTheDay
    <2> QED
      BY <1>14, <2>1, QuietSweep DEF EndPass, FailPass, ghosts
  <1>15. ASSUME NEW d \in Drones, OtherDetection(d) \/ ResolveIncident(d) PROVE Swept'
    <2>1. InTheDay'
      BY <1>15 DEF OtherDetection, ResolveIncident, Swept, InTheDay
    <2> QED
      BY <1>15, <2>1, QuietSweep DEF OtherDetection, ResolveIncident, ghosts
  <1>16. CASE Tick
    <2>1. \A t \in Nat : t <= clock => t <= clock'
      BY <1>1, <1>16 DEF Tick
    <2>2. InTheDay'
      BY <1>1, <1>16, <2>1 DEF Tick, Swept, InTheDay, TypeOK, Session, Pass
    <2> QED
      BY <1>16, <2>2, QuietSweep DEF Tick, ghosts
  <1>17. CASE UNCHANGED vars
    BY <1>17 DEF vars, Swept, InTheDay, ActiveWasHeard, UnheardInHand, Unheard, Silent
  <1> QED
    BY <1>2, <1>3, <1>4, <1>5, <1>6, <1>8, <1>9, <1>10, <1>12, <1>13, <1>14, <1>15, <1>16, <1>17
       DEF Next, PassStep

LEMMA SweptHolds == Spec => []Swept
  <1>1. Init => Swept
    BY DEF Init, Swept, InTheDay, ActiveWasHeard, UnheardInHand
  <1> QED
    BY <1>1, FeedTypeCorrect, SweptStep, PTL DEF Spec

\* DroneFeed.ActiveWasHeard: the sweep's own UPDATE refreshes last_seen of silent drones only: what an
\* ACTIVE drone shows was stamped by a packet.
THEOREM ActiveHeard == Spec => []ActiveWasHeard
  <1>1. Swept => ActiveWasHeard
    BY DEF Swept
  <1> QED
    BY <1>1, SweptHolds, PTL

\* DroneFeed.NoSilenceMissed: a heartbeat pass that reaches its last commit leaves no unheard drone ACTIVE, for any
\* number of drones and of packets that cross its commits.
THEOREM SweepComplete == Spec => NoSilenceMissed
  <1>1. TypeOK /\ Swept /\ [Next]_vars =>
          [CommitMarks => \A d \in Drones : Unheard(d) => row'[d].status = "SILENT"]_vars
    <2> SUFFICES ASSUME TypeOK, Swept, CommitMarks, NEW d \in Drones, Unheard(d)
                 PROVE  row'[d].status = "SILENT"
      OBVIOUS
    <2>1. pass # None /\ pass.todo = {} /\ WriteMarks
      BY DEF CommitMarks
    <2>2. Silent(d) \/ d \in pass.marked
      BY <2>1 DEF Swept, UnheardInHand
    <2> QED
      BY <2>1, <2>2, WriteMarksType DEF Silent
  <1> QED
    BY <1>1, FeedTypeCorrect, SweptHolds, PTL DEF Spec, NoSilenceMissed

-----------------------------------------------------------------------------
(***************************************************************************)
(* MavlinkReceiver.                                                        *)
(***************************************************************************)
LEMMA ReceiverConstants ==
  /\ MinDelay \in Nat /\ MaxDelay \in Nat /\ ConnectTime \in Nat /\ WriteTime \in Nat
  /\ 0 < MinDelay /\ MinDelay <= MaxDelay /\ WriteTime <= ConnectTime + MaxDelay
  /\ NoPacket \notin [drone : Systems, low : BOOLEAN]
  BY ReceiverAssumption, WriteAssumption DEF ReceiverAssumption, WriteAssumption

DroneRows == [stored : BOOLEAN, before : BOOLEAN, low : BOOLEAN, heard : Counts, first : BOOLEAN]
Cycle == [pc : {"idle"}] \cup [pc : {"asked", "fresh", "stale"}, drone : Systems]

\* The rows once the packet is stored, whoever commits it.
LEMMA StoredType ==
  ASSUME ReceiverTypeOK, packet # NoPacket
  PROVE  /\ packet.drone \in Systems /\ packet.low \in BOOLEAN
         /\ Stored \in [Systems -> DroneRows]
         /\ Stored[packet.drone] =
              [stored |-> TRUE, before |-> rows[packet.drone].low, low |-> packet.low,
               heard |-> heard[packet.drone], first |-> packet.drone \notin seen]
         /\ \A d \in Systems \ {packet.drone} : Stored[d] = rows[d]
  <1>1. packet.drone \in Systems /\ packet.low \in BOOLEAN
    BY DEF ReceiverTypeOK
  <1>2. rows \in [Systems -> DroneRows] /\ heard[packet.drone] \in Counts
    BY <1>1 DEF ReceiverTypeOK, DroneRows
  <1>3. [stored |-> TRUE, before |-> rows[packet.drone].low, low |-> packet.low,
         heard |-> heard[packet.drone], first |-> packet.drone \notin seen] \in DroneRows
    BY <1>1, <1>2 DEF DroneRows
  <1> QED
    BY <1>1, <1>2, <1>3 DEF Stored

\* A cycle overtaken by a packet goes on; the one fired was idle.
LEMMA AskedType ==
  ASSUME ReceiverTypeOK, NEW d \in Systems, NEW f \in Asked(d)
  PROVE  /\ f \in [Tasks -> Cycle]
         /\ \E t \in Tasks : /\ f[t] = [pc |-> "asked", drone |-> d]
                             /\ \A u \in Tasks \ {t} : f[u] = Overtaken(d)[u]
                             /\ task[t].pc = "idle"
  <1>1. PICK t \in Idle : f = [Overtaken(d) EXCEPT ![t] = [pc |-> "asked", drone |-> d]]
    BY DEF Asked
  <1>2. task \in [Tasks -> Cycle]
    BY DEF ReceiverTypeOK, Cycle
  <1>3. Overtaken(d) \in [Tasks -> Cycle]
    <2>1. ASSUME NEW u \in Tasks PROVE Overtaken(d)[u] \in Cycle
      BY <1>2, <2>1 DEF Overtaken, Cycle
    <2> QED
      BY <2>1 DEF Overtaken
  <1>4. [pc |-> "asked", drone |-> d] \in Cycle
    BY DEF Cycle
  <1> QED
    BY <1>1, <1>3, <1>4 DEF Idle

\* The type invariant is inductive: in particular no wait exceeds what its
\* stage of the loop is given, and a packet is in hand only while it is written.
LEMMA ReceiverTypeStep == ReceiverTypeOK /\ [ReceiverNext]_receiverVars => ReceiverTypeOK'
  <1> SUFFICES ASSUME ReceiverTypeOK, [ReceiverNext]_receiverVars PROVE ReceiverTypeOK'
    OBVIOUS
  <1> USE ReceiverConstants
  <1>0. /\ MinDelay \in MinDelay .. MaxDelay /\ 0 \in 0 .. Bound + 1
        /\ 0 \in Timeouts /\ WriteTime \in Timeouts
    BY DEF Timeouts, Bound
  <1>1. CASE ConnectSucceeds
    BY <1>0, <1>1 DEF ConnectSucceeds, memory, cycles, ReceiverTypeOK
  <1>2. CASE ConnectFails
    BY <1>2 DEF ConnectFails, memory, cycles, ReceiverTypeOK, Timeouts, Bound
  <1>3. CASE Wake
    BY <1>3 DEF Wake, TryToConnect, memory, cycles, ReceiverTypeOK, Timeouts, Bound
  <1>4. CASE ReadFails
    BY <1>4 DEF ReadFails, TryToConnect, memory, cycles, ReceiverTypeOK, Timeouts, Bound
  <1>5. ASSUME NEW d \in Systems, Gps(d) PROVE ReceiverTypeOK'
    BY <1>5 DEF Gps, link, cycles, ReceiverTypeOK, Timeouts, Bound, Counts
  <1>6. ASSUME NEW d \in Systems, GlobalPosition(d) PROVE ReceiverTypeOK'
    <2>1. packet' \in [drone : Systems, low : BOOLEAN]
      BY <1>6 DEF GlobalPosition, ReceiverTypeOK
    <2> QED
      BY <1>0, <1>6, <2>1 DEF GlobalPosition, Reading, cycles, ReceiverTypeOK
  <1>7. CASE Commit
    <2>1. packet # NoPacket
      BY <1>7 DEF Commit, ReceiverTypeOK
    <2>2. rows' \in [Systems -> DroneRows] /\ seen' \subseteq Systems
      BY <1>7, <2>1, StoredType DEF Commit, ReceiverTypeOK
    <2>3. task' \in [Tasks -> Cycle]
      BY <1>7, <2>1, StoredType, AskedType DEF Commit
    <2>4. outcome' \in [judged : SUBSET Systems, failed : SUBSET Systems]
      BY <1>7 DEF Commit, Unjudged, ReceiverTypeOK
    <2> QED
      BY <1>7, <2>2, <2>3, <2>4 DEF Commit, ReceiverTypeOK, Timeouts, Bound, DroneRows, Cycle
  <1>8. CASE DropPacket
    BY <1>8 DEF DropPacket, cycles, ReceiverTypeOK, Timeouts, Bound
  <1>9. ASSUME NEW t \in Tasks, Load(t) \/ Conclude(t) \/ FailCycle(t) PROVE ReceiverTypeOK'
    <2>1. task \in [Tasks -> Cycle] /\ (task[t].pc # "idle" => task[t].drone \in Systems)
      BY DEF ReceiverTypeOK, Cycle
    <2>2. task' \in [Tasks -> Cycle]
      BY <1>9, <2>1 DEF Load, Conclude, FailCycle, Cycle
    <2>3. outcome' \in [judged : SUBSET Systems, failed : SUBSET Systems]
      BY <1>9, <2>1 DEF Load, Conclude, FailCycle, ReceiverTypeOK
    <2> QED
      BY <1>9, <2>2, <2>3 DEF Load, Conclude, FailCycle, link, memory, ReceiverTypeOK, Cycle, Bound, Timeouts
  <1>10. CASE Restart
    <2>1. rows' \in [Systems -> DroneRows]
      BY <1>10, StoredType DEF Restart, ReceiverTypeOK, DroneRows
    <2>2. task' \in [Tasks -> Cycle]
          /\ outcome' \in [judged : SUBSET Systems, failed : SUBSET Systems]
      BY <1>10 DEF Restart, ReceiverTypeOK, Cycle
    <2> QED
      BY <1>10, <2>1, <2>2 DEF Restart, TryToConnect, ReceiverTypeOK, Timeouts, Bound, DroneRows, Cycle, Counts
  <1>11. CASE EndpointFalls
    <2>1. conn' \in {"none", "sound", "broken", "deaf"}
          /\ (loop' \in {"connecting", "sleeping"} => conn' = "none")
      BY <1>11 DEF EndpointFalls, ReceiverTypeOK
    <2> QED
      BY <1>0, <1>11, <2>1 DEF EndpointFalls, memory, cycles, ReceiverTypeOK
  <1>12. CASE EndpointReturns \/ LossShows
    BY <1>0, <1>12 DEF EndpointReturns, LossShows, memory, cycles, ReceiverTypeOK
  <1>13. CASE Elapse
    BY <1>13 DEF Elapse, Waiting, memory, cycles, ReceiverTypeOK, Timeouts, Bound
  <1>14. CASE UNCHANGED receiverVars
    BY <1>14 DEF receiverVars, link, memory, cycles, ReceiverTypeOK, Timeouts, Bound
  <1> QED
    BY <1>1, <1>2, <1>3, <1>4, <1>5, <1>6, <1>7, <1>8, <1>9, <1>10, <1>11, <1>12, <1>13, <1>14
       DEF ReceiverNext

\* MavlinkReceiver.ReceiverTypeOK: the link's task, the detection cycles it starts
\* and the memory the detector keeps between them keep their shape.
THEOREM ReceiverTypeCorrect == ReceiverSpec => []ReceiverTypeOK
  <1>1. ReceiverInit => ReceiverTypeOK
    BY ReceiverConstants DEF ReceiverInit, ReceiverTypeOK, NoRow, Timeouts, Bound, Counts
  <1> QED
    BY <1>1, ReceiverTypeStep, PTL DEF ReceiverSpec

-----------------------------------------------------------------------------
\* What is left of the budget at each stage: an attempt that began before the
\* endpoint came back, one longest delay, and one attempt that finds it.  A write
\* that outlasts the connection takes no longer than the first two.
InBudget ==
  /\ hopeful => up
  /\ ~up => since = 0
  /\ loop = "connecting" =>
       /\ timer <= ConnectTime
       /\ since + timer <= IF hopeful THEN Bound ELSE ConnectTime
  /\ loop = "sleeping" => timer <= MaxDelay /\ since + timer <= ConnectTime + MaxDelay
  /\ loop = "reading" => timer = 0
  /\ loop \in {"reading", "writing"} =>
       /\ conn # "none"
       /\ conn = "broken" => since + timer <= ConnectTime + MaxDelay

LEMMA InBudgetStep == ReceiverTypeOK /\ InBudget /\ [ReceiverNext]_receiverVars => InBudget'
  <1> SUFFICES ASSUME ReceiverTypeOK, InBudget, [ReceiverNext]_receiverVars PROVE InBudget'
    OBVIOUS
  <1>0. /\ since \in Nat /\ timer \in Nat /\ delay \in Nat /\ delay <= MaxDelay
        /\ timer <= ConnectTime + MaxDelay
        /\ up \in BOOLEAN /\ hopeful \in BOOLEAN
        /\ loop \in {"connecting", "sleeping", "reading", "writing", "ended"}
    BY ReceiverConstants DEF ReceiverTypeOK, Timeouts, Bound
  <1> USE ReceiverConstants, <1>0 DEF InBudget, Bound
  <1>1. CASE ConnectSucceeds \/ ConnectFails
    BY <1>1 DEF ConnectSucceeds, ConnectFails
  <1>2. CASE Wake
    BY <1>2 DEF Wake, TryToConnect
  <1>3. CASE ReadFails
    BY <1>3 DEF ReadFails, TryToConnect
  <1>4. ASSUME NEW d \in Systems, Gps(d) \/ GlobalPosition(d) PROVE InBudget'
    BY <1>4 DEF Gps, GlobalPosition, Reading, link
  <1>5. CASE Commit \/ DropPacket
    BY <1>5 DEF Commit, DropPacket
  <1>6. ASSUME NEW t \in Tasks, Load(t) \/ Conclude(t) \/ FailCycle(t) PROVE InBudget'
    BY <1>6 DEF Load, Conclude, FailCycle, link
  <1>7. CASE Restart
    BY <1>7 DEF Restart, TryToConnect
  <1>8. CASE EndpointFalls
    BY <1>8 DEF EndpointFalls, ReceiverTypeOK
  <1>9. CASE EndpointReturns \/ LossShows
    BY <1>9 DEF EndpointReturns, LossShows, ReceiverTypeOK
  <1>10. CASE Elapse
    BY <1>10 DEF Elapse, Waiting, Patient, ReceiverTypeOK
  <1>11. CASE UNCHANGED receiverVars
    BY <1>11 DEF receiverVars, link
  <1> QED
    BY <1>1, <1>2, <1>3, <1>4, <1>5, <1>6, <1>7, <1>8, <1>9, <1>10, <1>11 DEF ReceiverNext

\* MavlinkReceiver.ReturnsInTime: the delay between attempts doubles up to its
\* cap and is reset by a connection. For any delays and time-outs, the receiver reads again within two attempts and
\* the longest delay of the endpoint's return.
THEOREM Returns == ReceiverSpec => []ReturnsInTime
  <1>1. ReceiverInit => InBudget
    BY ReceiverConstants DEF ReceiverInit, InBudget, Bound
  <1>2. ReceiverTypeOK /\ InBudget => ReturnsInTime
    BY ReceiverConstants DEF ReceiverTypeOK, InBudget, ReturnsInTime, Bound, Timeouts
  <1> QED
    BY <1>1, <1>2, ReceiverTypeCorrect, InBudgetStep, PTL DEF ReceiverSpec

-----------------------------------------------------------------------------
\* What the process remembers of a drone is what the drone last sent it, and a
\* drone it has only packets of shows no satellites.
Remembered ==
  /\ \A d \in Systems : known[d] = (heard[d] = "good")
  /\ packet # NoPacket => packet.low = ~known[packet.drone]
  /\ \A d \in seen : heard[d] = "unknown" => rows[d].low
  /\ NoInventedLoss

\* A packet stored, by a commit or by a write that outlives its process.
LEMMA StoredRemembered ==
  ASSUME ReceiverTypeOK, Remembered, packet # NoPacket, rows' = Stored
  PROVE  /\ NoInventedLoss'
         /\ \A d \in seen \cup {packet.drone} : heard[d] = "unknown" => rows'[d].low
  <1> DEFINE s == packet.drone
  <1>1. /\ s \in Systems /\ packet.low \in BOOLEAN /\ heard[s] \in Counts /\ seen \subseteq Systems
        /\ packet.low = ~known[s] /\ known[s] = (heard[s] = "good")
    BY StoredType DEF ReceiverTypeOK, Remembered
  <1>2. /\ rows'[s].before = rows[s].low /\ rows'[s].low = packet.low
        /\ rows'[s].heard = heard[s] /\ rows'[s].first = (s \notin seen)
        /\ \A d \in Systems \ {s} : rows'[d] = rows[d]
    BY StoredType
  <1>3. rows'[s].low /\ ~rows'[s].before => rows'[s].heard = "low" \/ rows'[s].first
    BY <1>1, <1>2 DEF Remembered, Counts
  <1>4. heard[s] = "unknown" => rows'[s].low
    BY <1>1, <1>2
  <1> QED
    BY <1>1, <1>2, <1>3, <1>4 DEF Remembered, NoInventedLoss

LEMMA RememberedStep == ReceiverTypeOK /\ Remembered /\ [ReceiverNext]_receiverVars => Remembered'
  <1> SUFFICES ASSUME ReceiverTypeOK, Remembered, [ReceiverNext]_receiverVars PROVE Remembered'
    OBVIOUS
  <1>1. CASE UNCHANGED memory
    BY <1>1 DEF memory, Remembered, NoInventedLoss
  <1>2. CASE ConnectSucceeds \/ ConnectFails \/ Wake \/ ReadFails
    BY <1>1, <1>2 DEF ConnectSucceeds, ConnectFails, Wake, ReadFails
  <1>3. ASSUME NEW d \in Systems, Gps(d) PROVE Remembered'
    <2>1. packet = NoPacket
      BY <1>3 DEF Gps, Reading, ReceiverTypeOK
    <2>2. PICK count \in Counts \ {"unknown"} :
            /\ heard' = [heard EXCEPT ![d] = count]
            /\ known' = [known EXCEPT ![d] = count = "good"]
      BY <1>3 DEF Gps
    <2>3. \A e \in Systems : known'[e] = (heard'[e] = "good")
      BY <2>2 DEF Remembered, ReceiverTypeOK
    <2>4. \A e \in seen : heard'[e] = "unknown" => rows[e].low
      BY <2>2 DEF Remembered, ReceiverTypeOK
    <2> QED
      BY <1>3, <2>1, <2>3, <2>4 DEF Gps, Remembered, NoInventedLoss
  <1>4. ASSUME NEW d \in Systems, GlobalPosition(d) PROVE Remembered'
    <2>1. packet'.low = ~known[packet'.drone]
      BY <1>4 DEF GlobalPosition
    <2> QED
      BY <1>4, <2>1 DEF GlobalPosition, Remembered, NoInventedLoss
  <1>5. CASE Commit
    <2>1. packet # NoPacket /\ rows' = Stored /\ seen' = seen \cup {packet.drone}
          /\ packet' = NoPacket /\ UNCHANGED <<known, heard>>
      BY <1>5 DEF Commit, ReceiverTypeOK
    <2> QED
      BY <2>1, StoredRemembered DEF Remembered
  <1>6. CASE DropPacket
    BY <1>6 DEF DropPacket, Remembered, NoInventedLoss
  <1>7. ASSUME NEW t \in Tasks, Load(t) \/ Conclude(t) \/ FailCycle(t) PROVE Remembered'
    BY <1>1, <1>7 DEF Load, Conclude, FailCycle
  <1>8. CASE Restart
    <2>1. NoInventedLoss'
      <3>1. CASE rows' = rows
        BY <3>1 DEF Remembered, NoInventedLoss
      <3>2. CASE rows' # rows
        BY <1>8, <3>2, StoredRemembered DEF Restart
      <3> QED
        BY <3>1, <3>2
    <2>2. \A d \in Systems : known'[d] = (heard'[d] = "good")
      BY <1>8 DEF Restart
    <2> QED
      BY <1>8, <2>1, <2>2 DEF Restart, Remembered
  <1>9. CASE EndpointFalls \/ EndpointReturns \/ LossShows \/ Elapse
    BY <1>1, <1>9 DEF EndpointFalls, EndpointReturns, LossShows, Elapse
  <1>10. CASE UNCHANGED receiverVars
    BY <1>1, <1>10 DEF receiverVars
  <1> QED
    BY <1>2, <1>3, <1>4, <1>5, <1>6, <1>7, <1>8, <1>9, <1>10 DEF ReceiverNext

\* MavlinkReceiver.NoInventedLoss: the detector compares a satellite count with the
\* last it remembers. No reconnection, unknown count, other drone or write that outlives its process
\* makes up a loss of satellites, but for the first packet after a restart.
THEOREM LossIsReal == ReceiverSpec => []NoInventedLoss
  <1>1. ReceiverInit => Remembered
    <2> SUFFICES ASSUME ReceiverInit PROVE Remembered
      OBVIOUS
    <2>1. \A d \in Systems : known[d] = (heard[d] = "good")
      BY DEF ReceiverInit
    <2> QED
      BY <2>1 DEF ReceiverInit, Remembered, NoInventedLoss, NoRow
  <1>2. Remembered => NoInventedLoss
    BY DEF Remembered
  <1> QED
    BY <1>1, <1>2, ReceiverTypeCorrect, RememberedStep, PTL DEF ReceiverSpec

-----------------------------------------------------------------------------
LEMMA JudgedStep == ReceiverTypeOK /\ NewestIsJudged /\ [ReceiverNext]_receiverVars => NewestIsJudged'
  <1> SUFFICES ASSUME ReceiverTypeOK, NewestIsJudged, [ReceiverNext]_receiverVars PROVE NewestIsJudged'
    OBVIOUS
  <1>1. CASE UNCHANGED <<rows, cycles>>
    BY <1>1 DEF cycles, NewestIsJudged
  <1>2. CASE ConnectSucceeds \/ ConnectFails \/ Wake \/ ReadFails
    BY <1>1, <1>2 DEF ConnectSucceeds, ConnectFails, Wake, ReadFails, memory
  <1>3. ASSUME NEW d \in Systems, Gps(d) \/ GlobalPosition(d) PROVE NewestIsJudged'
    BY <1>1, <1>3 DEF Gps, GlobalPosition
  <1>4. CASE Commit
    <2> DEFINE s == packet.drone
    <2>1. packet # NoPacket /\ s \in Systems
      BY <1>4, StoredType DEF Commit, ReceiverTypeOK
    <2>2. PICK t \in Tasks : /\ task'[t] = [pc |-> "asked", drone |-> s]
                             /\ \A u \in Tasks \ {t} : task'[u] = Overtaken(s)[u]
                             /\ task[t].pc = "idle"
      BY <1>4, <2>1, AskedType DEF Commit
    <2>3. ASSUME NEW d \in Systems, rows'[d].stored
          PROVE  \/ d \in outcome'.judged \cup outcome'.failed
                 \/ \E u \in Tasks : task'[u].pc \in {"asked", "fresh"} /\ task'[u].drone = d
      <3>1. CASE d = s
        BY <2>2, <3>1
      <3>2. CASE d # s
        <4>1. rows'[d] = rows[d]
          BY <1>4, <2>1, <3>2, StoredType DEF Commit
        <4>2. CASE d \in outcome.judged \cup outcome.failed
          BY <1>4, <3>2, <4>2 DEF Commit, Unjudged
        <4>3. ASSUME NEW u \in Tasks, task[u].pc \in {"asked", "fresh"}, task[u].drone = d
              PROVE  task'[u] = task[u]
          BY <2>2, <3>2, <4>3 DEF Overtaken
        <4> QED
          BY <2>3, <4>1, <4>2, <4>3 DEF NewestIsJudged
      <3> QED
        BY <3>1, <3>2
    <2> QED
      BY <2>3 DEF NewestIsJudged
  <1>5. CASE DropPacket
    BY <1>1, <1>5 DEF DropPacket
  <1>6. ASSUME NEW t \in Tasks, Load(t) PROVE NewestIsJudged'
    <2>1. /\ task'[t].pc = "fresh" /\ task'[t].drone = task[t].drone
          /\ \A u \in Tasks \ {t} : task'[u] = task[u]
          /\ UNCHANGED <<rows, outcome>>
      BY <1>6 DEF Load, memory, ReceiverTypeOK
    <2> QED
      BY <2>1 DEF NewestIsJudged
  <1>7. ASSUME NEW t \in Tasks, Conclude(t) PROVE NewestIsJudged'
    <2>1. /\ \A u \in Tasks \ {t} : task'[u] = task[u]
          /\ task[t].pc \in {"fresh", "stale"}
          /\ outcome.judged \cup outcome.failed \subseteq outcome'.judged \cup outcome'.failed
          /\ task[t].pc = "fresh" => task[t].drone \in outcome'.judged
          /\ UNCHANGED rows
      BY <1>7 DEF Conclude, memory, ReceiverTypeOK
    <2> QED
      BY <2>1 DEF NewestIsJudged
  <1>8. ASSUME NEW t \in Tasks, FailCycle(t) PROVE NewestIsJudged'
    <2>1. /\ \A u \in Tasks \ {t} : task'[u] = task[u]
          /\ outcome.judged \cup outcome.failed \subseteq outcome'.judged \cup outcome'.failed
          /\ task[t].pc # "stale" => task[t].drone \in outcome'.failed
          /\ UNCHANGED rows
      BY <1>8 DEF FailCycle, memory, ReceiverTypeOK
    <2> QED
      BY <2>1 DEF NewestIsJudged
  <1>9. CASE Restart
    <2>1. outcome'.failed = Systems
      BY <1>9 DEF Restart, ReceiverTypeOK
    <2> QED
      BY <2>1 DEF NewestIsJudged
  <1>10. CASE EndpointFalls \/ EndpointReturns \/ LossShows \/ Elapse
    BY <1>1, <1>10 DEF EndpointFalls, EndpointReturns, LossShows, Elapse, memory
  <1>11. CASE UNCHANGED receiverVars
    BY <1>1, <1>11 DEF receiverVars, memory
  <1> QED
    BY <1>2, <1>3, <1>4, <1>5, <1>6, <1>7, <1>8, <1>9, <1>10, <1>11 DEF ReceiverNext

\* MavlinkReceiver.NewestIsJudged: a cycle judges the newest row it finds, not the
\* packet that fired it.
\* Whichever cycle judges, and in whatever order the cycles of a drone load and
\* conclude, the newest row is judged unless a cycle failed or a process died.
THEOREM NewestJudged == ReceiverSpec => []NewestIsJudged
  <1>1. ReceiverInit => NewestIsJudged
    BY DEF ReceiverInit, NewestIsJudged, NoRow
  <1> QED
    BY <1>1, ReceiverTypeCorrect, JudgedStep, PTL DEF ReceiverSpec

-----------------------------------------------------------------------------
(***************************************************************************)
(* KinematicGuard: extremes of finite sets of indices, and sequences.      *)
(***************************************************************************)
LEMMA FlightConstants ==
  /\ End \in Nat /\ Samples \in Nat /\ Boots \in Nat /\ Uptime \in Nat /\ Threads \in Nat
  /\ Window \in Nat /\ MaxSpeed \in Nat /\ MaxClimb \in Nat /\ SpeedError \in Nat
  /\ MaxLead \in Nat /\ MaxReorder \in Nat /\ MinGap \in Nat
  /\ Speed \in Nat /\ Climb \in Nat /\ Displacements \subseteq [x : Int, y : Int]
  /\ Speed <= MaxSpeed /\ Speed <= SpeedError /\ Climb <= MaxClimb /\ Window > 1
  /\ MaxLead <= MaxReorder + MinGap
  BY GuardAssumption, LeadAssumption DEF GuardAssumption, LeadAssumption

\* A set of naturals has a least element: the initial segments below its members
\* are ordered by strict inclusion, which is well-founded on finite sets.
LEMMA LeastNat ==
  ASSUME NEW T \in SUBSET Nat, T # {}
  PROVE  \E m \in T : \A n \in T : m <= n
  <1>1. PICK b \in T : TRUE
    OBVIOUS
  <1> DEFINE S == 0 .. b
             U == {0 .. n : n \in {k \in T : k <= b}}
  <1>2. IsFiniteSet(S)
    BY FS_Interval
  <1>3. IsWellFoundedOn(StrictSubsetOrdering(S), SUBSET S)
    BY <1>2, FS_StrictSubsetOrderingWellFounded, FS_FiniteSubsetsOfFinite
  <1>4. U \subseteq SUBSET S /\ 0 .. b \in U
    OBVIOUS
  <1>5. PICK u \in U : \A v \in U : ~(<<v, u>> \in StrictSubsetOrdering(S))
    <2> HIDE DEF S, U
    <2> QED
      BY <1>3, <1>4, WFMin
  <1>6. PICK m \in T : u = 0 .. m /\ m <= b
    OBVIOUS
  <1>7. ASSUME NEW n \in T, n < m PROVE FALSE
    <2>1. 0 .. n \in U /\ 0 .. n \subseteq 0 .. m /\ m \notin 0 .. n /\ m \in 0 .. m
      BY <1>6, <1>7
    <2> QED
      BY <1>4, <1>5, <1>6, <2>1 DEF StrictSubsetOrdering
  <1> QED
    BY <1>7

LEMMA GreatestIndex ==
  ASSUME NEW n \in Nat, NEW T \in SUBSET (1 .. n), T # {}
  PROVE  \E m \in T : \A k \in T : k <= m
  <1> DEFINE U == {n - k : k \in T}
  <1>1. U \in SUBSET Nat /\ U # {}
    <2>1. \A k \in T : n - k \in Nat
      OBVIOUS
    <2> QED
      BY <2>1
  <1>2. PICK u \in U : \A v \in U : u <= v
    <2> HIDE DEF U
    <2> QED
      BY <1>1, LeastNat
  <1>3. PICK m \in T : u = n - m
    OBVIOUS
  <1>4. \A k \in T : n - m <= n - k
    BY <1>2, <1>3
  <1> HIDE DEF U
  <1> QED
    BY <1>4

\* The window: the newest rows, in order, and among them the last.
LEMMA RecentProperties ==
  ASSUME NEW q \in Seq(Row)
  PROVE  /\ Recent(q) \in Seq(Row)
         /\ Len(Recent(q)) = IF Len(q) > Window THEN Window ELSE Len(q)
         /\ \A i \in 1 .. Len(Recent(q)) : Recent(q)[i] = q[Len(q) - Len(Recent(q)) + i]
         /\ Len(q) > 0 => Recent(q)[Len(Recent(q))] = q[Len(q)]
  <1> DEFINE m == IF Len(q) > Window THEN Len(q) - Window + 1 ELSE 1
  <1>1. Window \in Nat /\ Window > 1 /\ Len(q) \in Nat
    BY FlightConstants, LenProperties
  <1>2. m \in Int /\ \A i \in m .. Len(q) : q[i] \in Row
    BY <1>1, LenProperties
  <1>3. \/ Len(q) > Window /\ m = Len(q) - Window + 1
        \/ Len(q) <= Window /\ m = 1
    BY <1>1
  <1>4. Recent(q) = SubSeq(q, m, Len(q))
    BY DEF Recent
  <1> HIDE DEF m
  <1>5. SubSeq(q, m, Len(q)) \in Seq(Row)
        /\ Len(SubSeq(q, m, Len(q))) = (IF m <= Len(q) THEN Len(q) - m + 1 ELSE 0)
        /\ \A i \in 1 .. Len(q) - m + 1 : SubSeq(q, m, Len(q))[i] = q[m + i - 1]
    BY <1>1, <1>2, SubSeqProperties
  <1>6. CASE Len(q) > Window
    <2>1. Len(Recent(q)) = Window /\ \A i \in 1 .. Window : Recent(q)[i] = q[m + i - 1]
      BY <1>1, <1>3, <1>4, <1>5, <1>6
    <2>2. \A i \in 1 .. Window : m + i - 1 = Len(q) - Window + i
      BY <1>1, <1>3, <1>6
    <2>3. Window \in 1 .. Window /\ Len(q) - Window + Window = Len(q)
      BY <1>1
    <2>4. \A i \in 1 .. Window : Recent(q)[i] = q[Len(q) - Window + i]
      BY <2>1, <2>2
    <2>5. Recent(q)[Window] = q[Len(q)]
      BY <2>3, <2>4
    <2> QED
      BY <1>4, <1>5, <1>6, <2>1, <2>4, <2>5
  <1>7. CASE Len(q) <= Window
    <2>1. Len(Recent(q)) = Len(q) /\ \A i \in 1 .. Len(q) : Recent(q)[i] = q[m + i - 1]
      BY <1>1, <1>3, <1>4, <1>5, <1>7
    <2>2. \A i \in 1 .. Len(q) : m + i - 1 = i /\ Len(q) - Len(q) + i = i
      BY <1>1, <1>3, <1>7
    <2>3. \A i \in 1 .. Len(q) : Recent(q)[i] = q[Len(q) - Len(q) + i]
      BY <2>1, <2>2
    <2>4. Len(q) > 0 => Recent(q)[Len(q)] = q[Len(q)]
      <3>1. Len(q) > 0 => Len(q) \in 1 .. Len(q)
        BY <1>1
      <3> QED
        BY <2>1, <2>2, <3>1
    <2>5. Len(Recent(q)) = IF Len(q) > Window THEN Window ELSE Len(q)
      BY <1>1, <1>7, <2>1
    <2> QED
      BY <1>4, <1>5, <2>1, <2>3, <2>4, <2>5
  <1> QED
    BY <1>1, <1>6, <1>7

LEMMA RowTypes ==
  ASSUME NEW r \in Row
  PROVE  /\ r.packet \in Packet /\ r.created \in Nat
         /\ r.packet.at \in Nat /\ r.packet.at <= End /\ r.packet.boot \in Int
         /\ r.packet.off.x \in Int /\ r.packet.off.y \in Int
         /\ Clock(r) = r.packet.at - r.packet.boot
         /\ Clock(r) \in Int /\ -End <= Clock(r) /\ Clock(r) <= End + Uptime
  <1>1. r.packet.off \in [x : Int, y : Int]
    BY FlightConstants DEF Row, Packet, Nowhere
  <1> QED
    BY <1>1, FlightConstants DEF Row, Packet, Ticks, Clock

\* The choice of the latest and of the earliest device clock among some rows.
LEMMA LatestProperties ==
  ASSUME NEW q \in Seq(Row), NEW S \in SUBSET (1 .. Len(q)), S # {}
  PROVE  \E i \in S : /\ Latest(q, S) = q[i]
                      /\ \A j \in S : Clock(q[j]) <= Clock(q[i])
  <1> DEFINE B == End + Uptime
             T == {B - Clock(q[i]) : i \in S}
  <1>1. B \in Nat /\ \A i \in S : Clock(q[i]) \in Int /\ Clock(q[i]) <= B
    <2>1. \A i \in S : q[i] \in Row
      BY LenProperties
    <2>2. B \in Nat
      BY FlightConstants
    <2>3. \A i \in S : Clock(q[i]) \in Int /\ Clock(q[i]) <= B
      BY <2>1, RowTypes
    <2> QED
      BY <2>2, <2>3
  <1>2. T \in SUBSET Nat /\ T # {}
    <2>1. \A i \in S : B - Clock(q[i]) \in Nat
      BY <1>1
    <2> QED
      BY <2>1
  <1>3. PICK t \in T : \A u \in T : t <= u
    <2> HIDE DEF T
    <2> QED
      BY <1>2, LeastNat
  <1>4. PICK k \in S : t = B - Clock(q[k])
    OBVIOUS
  <1>5. \A j \in S : Clock(q[j]) <= Clock(q[k])
    <2>1. \A j \in S : B - Clock(q[k]) <= B - Clock(q[j])
      BY <1>3, <1>4
    <2> HIDE DEF B, T
    <2> QED
      BY <1>1, <2>1
  <1> DEFINE E == {j \in S : Clock(q[j]) = Clock(q[k])}
             P(i) == \A j \in S : \/ Clock(q[j]) < Clock(q[i])
                                  \/ Clock(q[j]) = Clock(q[i]) /\ j <= i
  <1>6. PICK m \in E : \A j \in E : j <= m
    BY LenProperties, GreatestIndex
  <1>7. m \in S /\ P(m)
    BY <1>1, <1>5, <1>6
  <1>8. (CHOOSE i \in S : P(i)) \in S /\ P(CHOOSE i \in S : P(i))
    <2> HIDE DEF P
    <2> QED
      BY <1>7
  <1>9. Latest(q, S) = q[CHOOSE i \in S : P(i)]
    BY DEF Latest
  <1> DEFINE c == CHOOSE i \in S : P(i)
  <1>10. \A j \in S : Clock(q[j]) <= Clock(q[c])
    <2>1. c \in S /\ P(c)
      <3> HIDE DEF P
      <3> QED
        BY <1>8
    <2> HIDE DEF c
    <2> QED
      BY <1>1, <2>1
  <1> QED
    BY <1>8, <1>9, <1>10

LEMMA EarliestProperties ==
  ASSUME NEW q \in Seq(Row), NEW S \in SUBSET (1 .. Len(q)), S # {}
  PROVE  \E i \in S : /\ Earliest(q, S) = q[i]
                      /\ \A j \in S : Clock(q[i]) <= Clock(q[j])
  <1> DEFINE T == {Clock(q[i]) + End : i \in S}
  <1>1. End \in Nat /\ \A i \in S : Clock(q[i]) \in Int /\ -End <= Clock(q[i])
    <2>1. \A i \in S : q[i] \in Row
      BY LenProperties
    <2> QED
      BY <2>1, FlightConstants, RowTypes
  <1>2. T \in SUBSET Nat /\ T # {}
    <2>1. \A i \in S : Clock(q[i]) + End \in Nat
      BY <1>1
    <2> QED
      BY <2>1
  <1>3. PICK t \in T : \A u \in T : t <= u
    <2> HIDE DEF T
    <2> QED
      BY <1>2, LeastNat
  <1>4. PICK k \in S : t = Clock(q[k]) + End
    OBVIOUS
  <1>5. \A j \in S : Clock(q[k]) <= Clock(q[j])
    <2>1. \A j \in S : Clock(q[k]) + End <= Clock(q[j]) + End
      BY <1>3, <1>4
    <2> HIDE DEF T
    <2> QED
      BY <1>1, <2>1
  <1> DEFINE E == {j \in S : Clock(q[j]) = Clock(q[k])}
             P(i) == \A j \in S : \/ Clock(q[j]) > Clock(q[i])
                                  \/ Clock(q[j]) = Clock(q[i]) /\ j >= i
  <1>6. PICK m \in E : \A j \in E : m <= j
    <2>1. E \in SUBSET Nat
      <3>1. Len(q) \in Nat
        BY LenProperties
      <3>2. \A j \in 1 .. Len(q) : j \in Nat
        BY <3>1
      <3> QED
        BY <3>2
    <2>2. E # {}
      OBVIOUS
    <2> HIDE DEF E
    <2> QED
      BY <2>1, <2>2, LeastNat
  <1>7. m \in S /\ P(m)
    BY <1>1, <1>5, <1>6
  <1>8. (CHOOSE i \in S : P(i)) \in S /\ P(CHOOSE i \in S : P(i))
    <2> HIDE DEF P
    <2> QED
      BY <1>7
  <1>9. Earliest(q, S) = q[CHOOSE i \in S : P(i)]
    BY DEF Earliest
  <1> DEFINE c == CHOOSE i \in S : P(i)
  <1>10. \A j \in S : Clock(q[c]) <= Clock(q[j])
    <2>1. c \in S /\ P(c)
      <3> HIDE DEF P
      <3> QED
        BY <1>8
    <2> HIDE DEF c
    <2>2. \A j \in S : Clock(q[j]) \in Int
      BY <1>1
    <2>3. SUFFICES ASSUME NEW j \in S PROVE Clock(q[c]) <= Clock(q[j])
      OBVIOUS
    <2>4. Clock(q[j]) > Clock(q[c]) \/ Clock(q[j]) = Clock(q[c])
      BY <2>1
    <2> QED
      BY <2>1, <2>2, <2>4
  <1> QED
    BY <1>8, <1>9, <1>10

-----------------------------------------------------------------------------
(***************************************************************************)
(* The pair that is rated.                                                 *)
(***************************************************************************)
Partners(q) == {i \in 1 .. Len(q) - 1 : Timed(q[i])}
Before(q) == {i \in Partners(q) : Clock(q[i]) < Clock(q[Len(q)])}
After(q) == {i \in Partners(q) : Clock(q[i]) > Clock(q[Len(q)])}

\* The four ways to pair the newest row: by arrival, with its predecessor on the
\* device clock, with its successor, and with the stand-in for a clock that
\* cannot be used.
LEMMA PairCases ==
  ASSUME NEW q \in Seq(Row), Len(q) > 1, NEW c, c = q[Len(q)], NEW s, s = q[Len(q) - 1]
  PROVE  \/ ~Timed(c) /\ Pair(q) = Paired(s, c, IntervalSeconds(s, c))
         \/ /\ Timed(c)
            /\ \E i \in Before(q) : /\ \A j \in Before(q) : Clock(q[j]) <= Clock(q[i])
                                    /\ IntervalSeconds(q[i], c).base = "device"
                                    /\ Pair(q) = Paired(q[i], c, IntervalSeconds(q[i], c))
         \/ /\ Timed(c)
            /\ \/ Before(q) = {}
               \/ \E i \in Before(q) : IntervalSeconds(q[i], c).base # "device"
            /\ \/ \E i \in After(q) :
                    /\ Clock(q[i]) - Clock(c) <= MaxReorder
                    /\ Pair(q) = Paired(c, q[i], Interval(Clock(q[i]) - Clock(c), "device", "reordered"))
               \/ /\ \A i \in After(q) : Clock(q[i]) - Clock(c) > MaxReorder
                  /\ \E p : /\ Pair(q) = FallBack(p, c)
                            /\ \/ Before(q) = {} /\ p = s
                               \/ \E i \in Before(q) : p = q[i]
  <1> DEFINE timed == {i \in 1 .. Len(q) - 1 : Timed(q[i])}
             before == {i \in timed : Clock(q[i]) < Clock(c)}
             after == {i \in timed : Clock(q[i]) > Clock(c)}
             step == Clock(Earliest(q, after)) - Clock(c)
             l == Latest(q, before)
  <1>1. Len(q) \in Nat /\ before = Before(q) /\ after = After(q)
    BY LenProperties DEF Partners, Before, After
  <1>2. before \in SUBSET (1 .. Len(q)) /\ after \in SUBSET (1 .. Len(q))
    BY <1>1
  <1>3. /\ Clock(c) \in Int
        /\ \A i \in before \cup after : Clock(q[i]) \in Int
    BY <1>1, <1>2, RowTypes, LenProperties
  <1>4. before # {} => \E i \in before : l = q[i] /\ \A j \in before : Clock(q[j]) <= Clock(q[i])
    BY <1>2, LatestProperties
  <1>5. after # {} => \E i \in after : Earliest(q, after) = q[i] /\ \A j \in after : Clock(q[i]) <= Clock(q[j])
    BY <1>2, EarliestProperties
  <1>6. Pair(q) =
          CASE ~Timed(c) -> Paired(s, c, IntervalSeconds(s, c))
            [] Timed(c) /\ before # {} /\ IntervalSeconds(l, c).base = "device" ->
                 Paired(l, c, IntervalSeconds(l, c))
            [] OTHER ->
                 IF after # {} /\ step <= MaxReorder
                 THEN Paired(c, Earliest(q, after), Interval(step, "device", "reordered"))
                 ELSE FallBack(IF before # {} THEN l ELSE s, c)
    BY DEF Pair, Last
  <1> HIDE DEF before, after, l
  <1>7. CASE ~Timed(c)
    BY <1>6, <1>7
  <1>8. CASE Timed(c) /\ before # {} /\ IntervalSeconds(l, c).base = "device"
    <2>1. Pair(q) = Paired(l, c, IntervalSeconds(l, c))
      BY <1>6, <1>8
    <2> QED
      BY <1>1, <1>4, <1>8, <2>1
  <1>9. CASE Timed(c) /\ ~(before # {} /\ IntervalSeconds(l, c).base = "device")
    <2>1. \/ Before(q) = {}
          \/ \E i \in Before(q) : IntervalSeconds(q[i], c).base # "device"
      BY <1>1, <1>4, <1>9
    <2>2. Pair(q) = IF after # {} /\ step <= MaxReorder
                    THEN Paired(c, Earliest(q, after), Interval(step, "device", "reordered"))
                    ELSE FallBack(IF before # {} THEN l ELSE s, c)
      BY <1>6, <1>9
    <2>3. CASE after # {} /\ step <= MaxReorder
      <3>1. Pair(q) = Paired(c, Earliest(q, after), Interval(step, "device", "reordered"))
        BY <2>2, <2>3
      <3> QED
        BY <1>1, <1>5, <1>9, <2>1, <2>3, <3>1
    <2>4. CASE ~(after # {} /\ step <= MaxReorder)
      <3>1. Pair(q) = FallBack(IF before # {} THEN l ELSE s, c)
        BY <2>2, <2>4
      <3>2. \A i \in After(q) : Clock(q[i]) - Clock(c) > MaxReorder
        <4>1. ASSUME after # {}
              PROVE  \A i \in after : Clock(q[i]) - Clock(c) > MaxReorder
          <5>1. PICK k \in after : Earliest(q, after) = q[k] /\ \A j \in after : Clock(q[k]) <= Clock(q[j])
            BY <1>5, <4>1
          <5>2. Clock(q[k]) \in Int /\ MaxReorder \in Nat /\ step = Clock(q[k]) - Clock(c)
            BY <1>3, <5>1, FlightConstants
          <5>3. Clock(q[k]) - Clock(c) > MaxReorder
            <6> HIDE DEF step
            <6> QED
              BY <1>3, <2>4, <4>1, <5>2
          <5> QED
            BY <1>3, <5>1, <5>2, <5>3
        <4> QED
          BY <1>1, <4>1
      <3>3. \E p : /\ Pair(q) = FallBack(p, c)
                   /\ \/ Before(q) = {} /\ p = s
                      \/ \E i \in Before(q) : p = q[i]
        BY <1>1, <1>4, <3>1
      <3> QED
        BY <1>9, <2>1, <3>2, <3>3
    <2> QED
      BY <2>3, <2>4
  <1> QED
    BY <1>7, <1>8, <1>9

-----------------------------------------------------------------------------
(***************************************************************************)
(* The stored packets.                                                     *)
(***************************************************************************)

\* The rows in the window are the last rows stored.
LEMMA WindowRows ==
  ASSUME NEW q \in Seq(Row)
  PROVE  /\ \A i \in 1 .. Len(q) : i > Len(q) - Window =>
              \E k \in 1 .. Len(Recent(q)) : Recent(q)[k] = q[i]
         /\ \A k \in 1 .. Len(Recent(q)) :
              \E i \in 1 .. Len(q) : /\ i > Len(q) - Window /\ Recent(q)[k] = q[i]
                                     /\ i = Len(q) - Len(Recent(q)) + k
  <1>1. Window \in Nat /\ Window > 1 /\ Len(q) \in Nat
    BY FlightConstants, LenProperties
  <1>2. Len(Recent(q)) = IF Len(q) > Window THEN Window ELSE Len(q)
    BY RecentProperties
  <1>3. \A k \in 1 .. Len(Recent(q)) : Recent(q)[k] = q[Len(q) - Len(Recent(q)) + k]
    BY RecentProperties
  <1> DEFINE l == Len(Recent(q))
             e == Len(q)
  <1>0. e \in Nat /\ l \in 0 .. e /\ ((l = e /\ e <= Window) \/ (l = Window /\ e > Window))
    <2>1. l = IF e > Window THEN Window ELSE e
      BY <1>2
    <2>2. e \in Nat /\ Window \in Nat
      BY <1>1
    <2> HIDE DEF l, e
    <2> QED
      BY <2>1, <2>2
  <1>4. ASSUME NEW i \in 1 .. Len(q), i > Len(q) - Window
        PROVE  \E k \in 1 .. Len(Recent(q)) : Recent(q)[k] = q[i]
    <2> DEFINE k == i - (e - l)
    <2>1. k \in 1 .. l /\ e - l + k = i
      <3> HIDE DEF l
      <3> QED
        BY <1>0, <1>1, <1>4
    <2> HIDE DEF k
    <2> QED
      BY <1>3, <2>1
  <1>5. ASSUME NEW k \in 1 .. Len(Recent(q))
        PROVE  \E i \in 1 .. Len(q) : /\ i > Len(q) - Window /\ Recent(q)[k] = q[i]
                                      /\ i = Len(q) - Len(Recent(q)) + k
    <2> DEFINE i == Len(q) - Len(Recent(q)) + k
    <2>1. i \in 1 .. Len(q) /\ i > Len(q) - Window
      <3>1. k \in 1 .. l
        OBVIOUS
      <3> HIDE DEF l
      <3>2. e - l + k \in 1 .. e /\ e - l + k > e - Window
        BY <1>0, <1>1, <3>1
      <3> QED
        BY <3>2 DEF l
    <2>2. Recent(q)[k] = q[i]
      BY <1>3
    <2> QED
      BY <2>1, <2>2
  <1> QED
    BY <1>4, <1>5

\* An insert leaves the older rows in place and moves the younger ones up by one.
LEMMA InsertProperties ==
  ASSUME NEW q \in Seq(Row), NEW r \in Row,
         \A i, j \in 1 .. Len(q) : i < j => q[i].created <= q[j].created
  PROVE  /\ Insert(r, q) \in Seq(Row) /\ Len(Insert(r, q)) = Len(q) + 1
         /\ \E n \in 0 .. Len(q) :
              /\ \A i \in 1 .. n : Insert(r, q)[i] = q[i] /\ q[i].created <= r.created
              /\ Insert(r, q)[n + 1] = r
              /\ \A i \in n + 2 .. Len(q) + 1 : Insert(r, q)[i] = q[i - 1] /\ q[i - 1].created > r.created
  <1>1. Len(q) \in Nat /\ DOMAIN q = 1 .. Len(q) /\ \A i \in 1 .. Len(q) : q[i] \in Row
    BY LenProperties
  <1>2. r.created \in Nat /\ \A i \in 1 .. Len(q) : q[i].created \in Nat
    BY <1>1, RowTypes
  <1> DEFINE older == {i \in DOMAIN q : q[i].created <= r.created}
             n == IF older = {} THEN 0 ELSE CHOOSE i \in older : \A j \in older : j <= i
  <1>3. /\ n \in 0 .. Len(q)
        /\ \A i \in 1 .. n : q[i].created <= r.created
        /\ \A i \in n + 1 .. Len(q) : q[i].created > r.created
    <2>1. CASE older = {}
      BY <1>1, <1>2, <2>1
    <2>2. CASE older # {}
      <3>1. \E m \in older : \A k \in older : k <= m
        BY <1>1, <2>2, GreatestIndex
      <3>2. n \in older /\ \A k \in older : k <= n
        <4> HIDE DEF older
        <4> QED
          BY <2>2, <3>1
      <3> HIDE DEF n
      <3>3. n \in 1 .. Len(q) /\ q[n].created <= r.created
        BY <1>1, <3>2
      <3>4. ASSUME NEW i \in 1 .. n PROVE q[i].created <= r.created
        <4>1. i \in 1 .. Len(q) /\ (i = n \/ i < n)
          BY <1>1, <3>3
        <4>2. q[i].created <= q[n].created
          BY <1>2, <3>3, <4>1
        <4> QED
          BY <1>2, <3>3, <4>1, <4>2
      <3>5. ASSUME NEW i \in n + 1 .. Len(q) PROVE q[i].created > r.created
        <4>1. i \in 1 .. Len(q) /\ ~(i <= n)
          BY <1>1, <3>3
        <4> QED
          BY <1>1, <1>2, <3>2, <4>1
      <3> QED
        BY <1>1, <3>3, <3>4, <3>5
    <2> QED
      BY <2>1, <2>2
  <1>4. Insert(r, q) = SubSeq(q, 1, n) \o <<r>> \o SubSeq(q, n + 1, Len(q))
    BY DEF Insert
  <1> HIDE DEF n
  <1> DEFINE u == SubSeq(q, 1, n)
             w == SubSeq(q, n + 1, Len(q))
  <1>5. u \in Seq(Row) /\ Len(u) = n /\ \A i \in 1 .. n : u[i] = q[i]
    <2>1. n \in Int /\ 1 \in Int /\ \A i \in 1 .. n : q[i] \in Row
      BY <1>1, <1>3
    <2>2. /\ SubSeq(q, 1, n) \in Seq(Row)
          /\ Len(SubSeq(q, 1, n)) = IF 1 <= n THEN n - 1 + 1 ELSE 0
          /\ \A i \in 1 .. n - 1 + 1 : SubSeq(q, 1, n)[i] = q[1 + i - 1]
      BY <2>1, SubSeqProperties
    <2>3. \A i \in 1 .. n : i \in 1 .. n - 1 + 1 /\ 1 + i - 1 = i
      BY <1>1, <1>3
    <2>4. Len(u) = n
      <3>1. Len(u) = IF 1 <= n THEN n - 1 + 1 ELSE 0
        BY <2>2
      <3> HIDE DEF u
      <3> QED
        BY <1>1, <1>3, <3>1
    <2> QED
      BY <2>2, <2>3, <2>4
  <1>6. w \in Seq(Row) /\ Len(w) = Len(q) - n /\ \A i \in 1 .. Len(q) - n : w[i] = q[n + i]
    <2>1. n + 1 \in Int /\ Len(q) \in Int /\ \A i \in n + 1 .. Len(q) : q[i] \in Row
      BY <1>1, <1>3
    <2>2. /\ SubSeq(q, n + 1, Len(q)) \in Seq(Row)
          /\ Len(SubSeq(q, n + 1, Len(q))) = IF n + 1 <= Len(q) THEN Len(q) - (n + 1) + 1 ELSE 0
          /\ \A i \in 1 .. Len(q) - (n + 1) + 1 : SubSeq(q, n + 1, Len(q))[i] = q[(n + 1) + i - 1]
      BY <2>1, SubSeqProperties
    <2>3. \A i \in 1 .. Len(q) - n : i \in 1 .. Len(q) - (n + 1) + 1 /\ (n + 1) + i - 1 = n + i
      BY <1>1, <1>3
    <2>4. Len(w) = Len(q) - n
      <3>1. Len(w) = IF n + 1 <= Len(q) THEN Len(q) - (n + 1) + 1 ELSE 0
        BY <2>2
      <3> DEFINE e == Len(q)
      <3>2. e \in Nat /\ n \in 0 .. e
        BY <1>1, <1>3
      <3> HIDE DEF w, e
      <3>3. Len(w) = IF n + 1 <= e THEN e - (n + 1) + 1 ELSE 0
        BY <3>1 DEF e
      <3>4. Len(w) = e - n
        BY <3>2, <3>3
      <3> QED
        BY <3>4 DEF e
    <2> QED
      BY <2>2, <2>3, <2>4
  <1> HIDE DEF u, w
  <1>7. <<r>> \in Seq(Row) /\ Len(<<r>>) = 1 /\ <<r>>[1] = r
    OBVIOUS
  <1>8. /\ u \o <<r>> \in Seq(Row) /\ Len(u \o <<r>>) = n + 1
        /\ \A i \in 1 .. n + 1 : (u \o <<r>>)[i] = IF i <= n THEN u[i] ELSE <<r>>[i - n]
    <2>1. /\ u \o <<r>> \in Seq(Row)
          /\ Len(u \o <<r>>) = Len(u) + Len(<<r>>)
          /\ \A i \in 1 .. Len(u) + Len(<<r>>) :
               (u \o <<r>>)[i] = IF i <= Len(u) THEN u[i] ELSE <<r>>[i - Len(u)]
      BY <1>5, <1>7, ConcatProperties
    <2>2. Len(u) = n /\ Len(<<r>>) = 1
      BY <1>5, <1>7
    <2> QED
      BY <2>1, <2>2
  <1>9. /\ (u \o <<r>>) \o w \in Seq(Row)
        /\ Len((u \o <<r>>) \o w) = n + 1 + (Len(q) - n)
        /\ \A i \in 1 .. n + 1 + (Len(q) - n) :
             ((u \o <<r>>) \o w)[i] = IF i <= n + 1 THEN (u \o <<r>>)[i] ELSE w[i - (n + 1)]
    <2> DEFINE x == u \o <<r>>
    <2>1. x \in Seq(Row) /\ Len(x) = n + 1 /\ Len(w) = Len(q) - n /\ w \in Seq(Row)
      BY <1>6, <1>8
    <2> HIDE DEF x
    <2>2. /\ x \o w \in Seq(Row)
          /\ Len(x \o w) = Len(x) + Len(w)
          /\ \A i \in 1 .. Len(x) + Len(w) : (x \o w)[i] = IF i <= Len(x) THEN x[i] ELSE w[i - Len(x)]
      BY <2>1, ConcatProperties
    <2>3. /\ x \o w \in Seq(Row)
          /\ Len(x \o w) = n + 1 + (Len(q) - n)
          /\ \A i \in 1 .. n + 1 + (Len(q) - n) : (x \o w)[i] = IF i <= n + 1 THEN x[i] ELSE w[i - (n + 1)]
      BY <2>1, <2>2
    <2> QED
      BY <2>3 DEF x
  <1>10. Insert(r, q) = (u \o <<r>>) \o w /\ n + 1 + (Len(q) - n) = Len(q) + 1
    BY <1>1, <1>3, <1>4 DEF u, w
  <1>11. ASSUME NEW i \in 1 .. n PROVE Insert(r, q)[i] = q[i]
    <2>1. i \in 1 .. n + 1 /\ i \in 1 .. n + 1 + (Len(q) - n) /\ i <= n + 1 /\ i <= n
      BY <1>1, <1>3
    <2> QED
      BY <1>5, <1>8, <1>9, <1>10, <2>1
  <1>12. Insert(r, q)[n + 1] = r
    <2>1. n + 1 \in 1 .. n + 1 /\ n + 1 \in 1 .. n + 1 + (Len(q) - n) /\ ~(n + 1 <= n) /\ n + 1 - n = 1
      BY <1>1, <1>3
    <2> QED
      BY <1>7, <1>8, <1>9, <1>10, <2>1
  <1>13. ASSUME NEW i \in n + 2 .. Len(q) + 1 PROVE Insert(r, q)[i] = q[i - 1] /\ q[i - 1].created > r.created
    <2>1. /\ i \in 1 .. n + 1 + (Len(q) - n) /\ ~(i <= n + 1)
          /\ i - (n + 1) \in 1 .. Len(q) - n /\ n + (i - (n + 1)) = i - 1
          /\ i - 1 \in n + 1 .. Len(q)
      BY <1>1, <1>3
    <2>2. Insert(r, q)[i] = w[i - (n + 1)]
      BY <1>9, <1>10, <2>1
    <2>3. w[i - (n + 1)] = q[n + (i - (n + 1))]
      BY <1>6, <2>1
    <2> QED
      BY <1>3, <2>1, <2>2, <2>3
  <1> QED
    BY <1>3, <1>9, <1>10, <1>11, <1>12, <1>13

-----------------------------------------------------------------------------
(***************************************************************************)
(* KinematicGuard: the inductive invariant.                                *)
(***************************************************************************)

\* Packets are conserved: sampled, then in the air, in ingest or stored.
InFlight ==
  /\ IsFiniteSet(air) /\ IsFiniteSet(begun) /\ IsFiniteSet(passed)
  /\ Cardinality(air) + Cardinality(begun) + Cardinality(passed) + Len(history) <= sampled

\* Nothing is sampled, stamped or stored ahead of time.
Stamped ==
  /\ \A p \in air : p.at <= now
  /\ \A r \in begun \cup passed : r.packet.at <= r.created /\ r.created <= now
  /\ \A i \in DOMAIN history : history[i].created <= now

\* At most one packet is not an honest, dated sample.
OneOdd ==
  /\ \A p, o \in Known : p.kind # "true" /\ o.kind # "true" => p = o
  /\ \A p \in Known : p.kind # "forged" => p.off = Nowhere

\* What the staleness check refuses r for.
Late(newer, r) ==
  /\ Timed(newer) /\ Timed(r)
  /\ Clock(newer) - Clock(r) > MaxReorder
  /\ \/ r.created - newer.created < MinGap
     \/ ~CouldHaveReset(Clock(r), r.created - newer.created)

\* A packet that nothing overtook since its transaction began is younger than all
\* that is stored; one that nothing overtook since its check was checked against
\* the rows as they still are.
CheckHolds ==
  /\ \A r \in begun \cup passed : r.overtaken = "never" => \A i \in DOMAIN history : history[i].created <= r.created
  /\ \A r \in begun : r.overtaken # "passed"
  /\ \A r \in passed : r.overtaken # "passed" =>
       \A i \in DOMAIN history : i > Len(history) - Window => ~Late(history[i], r)

\* Nor is it late once it is stored, beside an older row of the window that nothing
\* overtook at all.
StoredInTime ==
  \A i, j \in DOMAIN history :
    /\ i < j /\ i > Len(history) - Window
    /\ history[i].overtaken = "never" /\ history[j].overtaken # "passed"
    => ~Late(history[i], history[j])

FlightInv == FlightTypeOK /\ InFlight /\ Stamped /\ OneOdd /\ CheckHolds /\ StoredInTime

\* Receive(p) makes a row of p.
Arrived(p) == [packet |-> p, created |-> now, overtaken |-> "never"]

LEMMA ArrivedProperties ==
  ASSUME NEW p \in Packet, now \in Ticks
  PROVE  /\ Arrived(p) \in Row /\ Arrived(p).packet = p /\ Arrived(p).created = now
         /\ Arrived(p).overtaken = "never"
  BY DEF Arrived, Row

LEMMA StaleIsLate ==
  ASSUME NEW w
  PROVE  Stale(w) <=> \E k \in DOMAIN Recent(history) : Late(Recent(history)[k], w)
  BY DEF Stale, Late

LEMMA FlightInitInv == ASSUME FlightInit PROVE FlightInv
  <1>1. /\ now = 0 /\ boot = -Uptime /\ boots = 0 /\ sampled = 0
        /\ air = {} /\ begun = {} /\ passed = {} /\ history = <<>>
    BY DEF FlightInit
  <1>2. history \in Seq(Row) /\ Len(history) = 0 /\ DOMAIN history = {}
    BY <1>1
  <1>3. FlightTypeOK
    <2>1. now \in Ticks /\ boot \in -Uptime .. now /\ boots \in 0 .. Boots /\ sampled \in 0 .. Samples
      BY <1>1, FlightConstants DEF Ticks
    <2>2. Len(history) <= Samples
      BY <1>2, FlightConstants
    <2> QED
      BY <1>1, <1>2, <2>1, <2>2 DEF FlightTypeOK
  <1>4. InFlight
    BY <1>1, <1>2, FS_EmptySet DEF InFlight
  <1>5. Stamped
    BY <1>1, <1>2 DEF Stamped
  <1>6. OneOdd
    <2>1. Known = {}
      BY <1>1, <1>2 DEF Known, Range
    <2> QED
      BY <2>1 DEF OneOdd
  <1>7. CheckHolds /\ StoredInTime
    BY <1>1, <1>2 DEF CheckHolds, StoredInTime
  <1> QED
    BY <1>3, <1>4, <1>5, <1>6, <1>7 DEF FlightInv

\* The facts of the invariant, unfolded.
LEMMA FlightFacts ==
  ASSUME FlightInv
  PROVE  /\ now \in Nat /\ now <= End /\ now \in Ticks /\ boot \in Int /\ -Uptime <= boot /\ boot <= now
         /\ boots \in Nat /\ boots <= Boots /\ sampled \in Nat /\ sampled <= Samples
         /\ \A p \in air : p \in Packet /\ p.at \in Nat /\ p.at <= now /\ p.boot \in Int
         /\ \A r \in begun \cup passed : r \in Row /\ r.packet.at <= r.created /\ r.created <= now /\ r.created \in Nat
         /\ history \in Seq(Row) /\ Len(history) \in Nat /\ DOMAIN history = 1 .. Len(history)
         /\ \A i \in DOMAIN history : /\ history[i] \in Row /\ history[i].created \in Nat
                                      /\ history[i].packet.at <= history[i].created
                                      /\ history[i].created <= now
         /\ \A i, j \in DOMAIN history : i < j => history[i].created <= history[j].created
         /\ Cardinality(air) \in Nat /\ Cardinality(begun) \in Nat /\ Cardinality(passed) \in Nat
  <1>1. /\ FlightTypeOK /\ InFlight /\ Stamped
    BY DEF FlightInv
  <1>2. /\ now \in Nat /\ now <= End /\ now \in Ticks /\ boot \in Int /\ -Uptime <= boot /\ boot <= now
        /\ boots \in Nat /\ boots <= Boots /\ sampled \in Nat /\ sampled <= Samples
    BY <1>1, FlightConstants DEF FlightTypeOK, Ticks
  <1>3. \A p \in air : p \in Packet /\ p.at \in Nat /\ p.at <= now /\ p.boot \in Int
    BY <1>1, FlightConstants DEF FlightTypeOK, Stamped, Packet, Ticks
  <1>4. \A r \in begun \cup passed : r \in Row /\ r.packet.at <= r.created /\ r.created <= now /\ r.created \in Nat
    BY <1>1, RowTypes DEF FlightTypeOK, Stamped
  <1>5. history \in Seq(Row) /\ Len(history) \in Nat /\ DOMAIN history = 1 .. Len(history)
    BY <1>1, LenProperties DEF FlightTypeOK
  <1>6. \A i \in DOMAIN history : /\ history[i] \in Row /\ history[i].created \in Nat
                                  /\ history[i].packet.at <= history[i].created
                                  /\ history[i].created <= now
    <2>1. \A i \in DOMAIN history : history[i] \in Row
      BY <1>5, LenProperties
    <2> QED
      BY <1>1, <2>1, RowTypes DEF FlightTypeOK, Stamped
  <1>7. \A i, j \in DOMAIN history : i < j => history[i].created <= history[j].created
    BY <1>1 DEF FlightTypeOK
  <1>8. Cardinality(air) \in Nat /\ Cardinality(begun) \in Nat /\ Cardinality(passed) \in Nat
    BY <1>1, FS_CardinalityType DEF InFlight
  <1> QED
    BY <1>2, <1>3, <1>4, <1>5, <1>6, <1>7, <1>8

\* A step that leaves the rows in ingest and in store alone leaves their checks so.
LEMMA FlightQuiet ==
  ASSUME FlightInv, UNCHANGED <<begun, passed, history>>
  PROVE  CheckHolds' /\ StoredInTime'
  BY DEF FlightInv, CheckHolds, StoredInTime, Late, Timed, Clock, CouldHaveReset

LEMMA FlyStep ==
  ASSUME FlightInv, Fly
  PROVE  FlightInv'
  <1>1. /\ now < End /\ now' = now + 1 /\ UNCHANGED <<begun, passed, history>>
        /\ \/ UNCHANGED <<boot, boots>>
           \/ boots < Boots /\ boot' = now' /\ boots' = boots + 1
        /\ \/ \E kind \in Kinds : \E off \in IF kind = "forged" THEN Displacements ELSE {Nowhere} : Sampled(kind, off)
           \/ UNCHANGED <<air, sampled>>
    BY DEF Fly
  <1>2. /\ now \in Nat /\ now <= End /\ now \in Ticks /\ boot \in Int /\ -Uptime <= boot /\ boot <= now
        /\ boots \in Nat /\ boots <= Boots /\ sampled \in Nat /\ sampled <= Samples
    BY FlightFacts
  <1>3. /\ now' \in Ticks /\ now' \in Nat /\ boot' \in -Uptime .. now' /\ boots' \in 0 .. Boots
        /\ boot' \in -Uptime .. End
    BY <1>1, <1>2, FlightConstants DEF Ticks
  <1>4. FlightTypeOK /\ InFlight /\ Stamped /\ OneOdd
    BY DEF FlightInv
  <1>5. /\ \A p \in air' : p \in Packet /\ p.at <= now'
        /\ sampled' \in 0 .. Samples
        /\ IsFiniteSet(air') /\ Cardinality(air') + Cardinality(begun) + Cardinality(passed) + Len(history) <= sampled'
        /\ OneOdd'
    <2>1. CASE UNCHANGED <<air, sampled>>
      <3>1. \A p \in air : p \in Packet /\ p.at \in Nat /\ p.at <= now
        BY FlightFacts
      <3>2. \A p \in air' : p \in Packet /\ p.at <= now'
        BY <1>1, <1>2, <2>1, <3>1
      <3>3. OneOdd'
        BY <1>1, <1>4, <2>1 DEF OneOdd, Known
      <3> QED
        BY <1>2, <1>4, <2>1, <3>2, <3>3 DEF InFlight
    <2>2. ASSUME NEW kind \in Kinds, NEW off \in IF kind = "forged" THEN Displacements ELSE {Nowhere},
                 Sampled(kind, off)
          PROVE  /\ \A p \in air' : p \in Packet /\ p.at <= now'
                 /\ sampled' \in 0 .. Samples
                 /\ IsFiniteSet(air') /\ Cardinality(air') + Cardinality(begun) + Cardinality(passed) + Len(history) <= sampled'
                 /\ OneOdd'
      <3> DEFINE fresh == [at |-> now', boot |-> boot', kind |-> kind, off |-> off]
      <3>1. /\ sampled < Samples /\ sampled' = sampled + 1 /\ air' = air \cup {fresh}
            /\ kind = "true" \/ \A p \in Known : p.kind = "true"
        BY <2>2 DEF Sampled
      <3>2. fresh \in Packet /\ fresh.at = now' /\ fresh.kind = kind
             /\ (kind # "forged" => fresh.off = Nowhere)
        BY <1>3, <2>2 DEF Packet
      <3> HIDE DEF fresh
      <3>3. \A p \in air : p \in Packet /\ p.at \in Nat /\ p.at <= now
        BY FlightFacts
      <3>4. \A p \in air' : p \in Packet /\ p.at <= now'
        BY <1>1, <1>2, <1>3, <3>1, <3>2, <3>3
      <3>5. IsFiniteSet(air') /\ Cardinality(air') <= Cardinality(air) + 1 /\ Cardinality(air') \in Nat
        <4>1. IsFiniteSet(air) /\ Cardinality(air) \in Nat
          BY <1>4, FlightFacts DEF InFlight
        <4>2. /\ IsFiniteSet(air \cup {fresh})
              /\ Cardinality(air \cup {fresh}) = IF fresh \in air THEN Cardinality(air) ELSE Cardinality(air) + 1
          BY <4>1, FS_AddElement
        <4> QED
          BY <3>1, <4>1, <4>2
      <3>6. Cardinality(air') + Cardinality(begun) + Cardinality(passed) + Len(history) <= sampled'
        BY <1>2, <1>4, <3>1, <3>5, FlightFacts DEF InFlight
      <3>7. Known' = Known \cup {fresh}
        BY <1>1, <3>1 DEF Known
      <3>8. OneOdd'
        BY <1>4, <3>1, <3>2, <3>7 DEF OneOdd
      <3> QED
        BY <1>2, FlightConstants, <3>1, <3>4, <3>5, <3>6, <3>8
    <2> QED
      BY <1>1, <2>1, <2>2
  <1>6. FlightTypeOK'
    <2>1. /\ history' = history /\ begun' = begun /\ passed' = passed
      BY <1>1
    <2> QED
      BY <1>3, <1>4, <1>5, <2>1 DEF FlightTypeOK
  <1>7. InFlight'
    BY <1>1, <1>4, <1>5 DEF InFlight
  <1>8. Stamped'
    <2>1. \A r \in begun \cup passed : r.packet.at <= r.created /\ r.created <= now /\ r.created \in Nat
      BY FlightFacts
    <2>2. \A i \in DOMAIN history : history[i].created \in Nat /\ history[i].created <= now
      BY FlightFacts
    <2>3. \A r \in begun \cup passed : r.created <= now + 1
      BY <1>2, <2>1
    <2>4. \A i \in DOMAIN history : history[i].created <= now + 1
      BY <1>2, <2>2
    <2> QED
      BY <1>1, <1>5, <2>1, <2>3, <2>4 DEF Stamped
  <1> QED
    BY <1>1, <1>5, <1>6, <1>7, <1>8, FlightQuiet DEF FlightInv

LEMMA ReceiveStep ==
  ASSUME FlightInv, NEW p \in air, Receive(p)
  PROVE  FlightInv'
  <1>1. /\ air' = air \ {p} /\ UNCHANGED <<now, boot, boots, sampled, passed, history>>
        /\ begun' = begun \cup {Arrived(p)}
    BY DEF Receive, Arrived
  <1>2. FlightTypeOK /\ InFlight /\ Stamped /\ OneOdd /\ CheckHolds /\ StoredInTime
    BY DEF FlightInv
  <1>3. /\ p \in Packet /\ p.at <= now /\ p.at \in Nat /\ now \in Nat /\ now \in Ticks
        /\ Cardinality(air) \in Nat /\ Cardinality(begun) \in Nat /\ Cardinality(passed) \in Nat
        /\ Len(history) \in Nat /\ sampled \in Nat
    BY FlightFacts
  <1>4. /\ Arrived(p) \in Row /\ Arrived(p).packet = p /\ Arrived(p).created = now
        /\ Arrived(p).overtaken = "never"
    BY <1>3, ArrivedProperties
  <1>5. FlightTypeOK'
    <2>1. air' \subseteq Packet /\ begun' \subseteq Row
      BY <1>1, <1>2, <1>4 DEF FlightTypeOK
    <2> QED
      BY <1>1, <1>2, <2>1 DEF FlightTypeOK
  <1>6. InFlight'
    <2>1. IsFiniteSet(air') /\ Cardinality(air') = Cardinality(air) - 1
      BY <1>1, <1>2, FS_RemoveElement DEF InFlight
    <2>2. IsFiniteSet(begun') /\ Cardinality(begun') <= Cardinality(begun) + 1 /\ Cardinality(begun') \in Nat
      <3>1. IsFiniteSet(begun)
        BY <1>2 DEF InFlight
      <3>2. /\ IsFiniteSet(begun \cup {Arrived(p)})
            /\ Cardinality(begun \cup {Arrived(p)})
                 = IF Arrived(p) \in begun THEN Cardinality(begun) ELSE Cardinality(begun) + 1
        BY <3>1, FS_AddElement
      <3> QED
        BY <1>1, <1>3, <3>2
    <2>3. /\ UNCHANGED <<passed, history, sampled>> /\ IsFiniteSet(passed)
          /\ Cardinality(air) + Cardinality(begun) + Cardinality(passed) + Len(history) <= sampled
      BY <1>1, <1>2 DEF InFlight
    <2>4. Cardinality(air') + Cardinality(begun') + Cardinality(passed) + Len(history) <= sampled
      BY <1>3, <2>1, <2>2, <2>3
    <2> QED
      BY <2>1, <2>2, <2>3, <2>4 DEF InFlight
  <1>7. Stamped'
    <2>1. \A r \in begun' \cup passed' : r.packet.at <= r.created /\ r.created <= now
      BY <1>1, <1>2, <1>3, <1>4 DEF Stamped
    <2> QED
      BY <1>1, <1>2, <2>1 DEF Stamped
  <1>8. OneOdd'
    <2>1. {r.packet : r \in begun' \cup passed \cup Range(history)}
            \subseteq {r.packet : r \in begun \cup passed \cup Range(history)} \cup {p}
      BY <1>1, <1>4
    <2>2. Known' \subseteq Known
      BY <1>1, <2>1 DEF Known
    <2> QED
      BY <1>2, <2>2 DEF OneOdd
  <1>9. CheckHolds'
    <2>1. /\ \A i \in DOMAIN history : history[i].created <= Arrived(p).created
          /\ Arrived(p).overtaken # "passed"
      BY <1>2, <1>4 DEF Stamped
    <2>2. \A r \in begun' \cup passed : r.overtaken = "never" => \A i \in DOMAIN history : history[i].created <= r.created
      BY <1>1, <1>2, <2>1 DEF CheckHolds
    <2>3. \A r \in begun' : r.overtaken # "passed"
      BY <1>1, <1>2, <2>1 DEF CheckHolds
    <2> QED
      BY <1>1, <1>2, <2>2, <2>3 DEF CheckHolds, Late, Timed, Clock, CouldHaveReset
  <1>10. StoredInTime'
    BY <1>1, <1>2 DEF StoredInTime, Late, Timed, Clock, CouldHaveReset
  <1> QED
    BY <1>5, <1>6, <1>7, <1>8, <1>9, <1>10 DEF FlightInv

LEMMA CheckStep ==
  ASSUME FlightInv, NEW w \in begun, Check(w)
  PROVE  FlightInv'
  <1>1. /\ begun' = begun \ {w} /\ UNCHANGED <<now, boot, boots, sampled, air, history>>
        /\ passed' = IF Stale(w) THEN passed ELSE passed \cup {w}
    BY DEF Check
  <1>2. FlightTypeOK /\ InFlight /\ Stamped /\ OneOdd /\ CheckHolds /\ StoredInTime
    BY DEF FlightInv
  <1>3. /\ w \in Row
        /\ Cardinality(air) \in Nat /\ Cardinality(begun) \in Nat /\ Cardinality(passed) \in Nat
        /\ Len(history) \in Nat /\ sampled \in Nat
        /\ history \in Seq(Row) /\ DOMAIN history = 1 .. Len(history)
    BY FlightFacts
  <1>4. passed' \subseteq passed \cup {w} /\ begun' \cup passed' \subseteq begun \cup passed
    BY <1>1
  <1>5. FlightTypeOK'
    <2>1. begun' \subseteq Row /\ passed' \subseteq Row
      BY <1>2, <1>3, <1>4 DEF FlightTypeOK
    <2> QED
      BY <1>1, <1>2, <2>1 DEF FlightTypeOK
  <1>6. InFlight'
    <2>1. IsFiniteSet(begun') /\ Cardinality(begun') = Cardinality(begun) - 1
      BY <1>1, <1>2, FS_RemoveElement DEF InFlight
    <2>2. IsFiniteSet(passed') /\ Cardinality(passed') <= Cardinality(passed) + 1 /\ Cardinality(passed') \in Nat
      <3>1. CASE Stale(w)
        BY <1>1, <1>2, <1>3, <3>1 DEF InFlight
      <3>2. CASE ~Stale(w)
        <4>1. passed' = passed \cup {w} /\ IsFiniteSet(passed)
          BY <1>1, <1>2, <3>2 DEF InFlight
        <4>2. /\ IsFiniteSet(passed \cup {w})
              /\ Cardinality(passed \cup {w}) = IF w \in passed THEN Cardinality(passed) ELSE Cardinality(passed) + 1
          BY <4>1, FS_AddElement
        <4> QED
          BY <1>3, <4>1, <4>2
      <3> QED
        BY <3>1, <3>2
    <2>3. /\ UNCHANGED <<air, history, sampled>> /\ IsFiniteSet(air)
          /\ Cardinality(air) + Cardinality(begun) + Cardinality(passed) + Len(history) <= sampled
      BY <1>1, <1>2 DEF InFlight
    <2>4. Cardinality(air) + Cardinality(begun') + Cardinality(passed') + Len(history) <= sampled
      BY <1>3, <2>1, <2>2, <2>3
    <2> QED
      BY <2>1, <2>2, <2>3, <2>4 DEF InFlight
  <1>7. Stamped'
    BY <1>1, <1>2, <1>4 DEF Stamped
  <1>8. OneOdd'
    <2>1. {r.packet : r \in begun' \cup passed' \cup Range(history)}
            \subseteq {r.packet : r \in begun \cup passed \cup Range(history)}
      BY <1>4
    <2>2. Known' \subseteq Known
      BY <1>1, <2>1 DEF Known
    <2> QED
      BY <1>2, <2>2 DEF OneOdd
  <1>9. CheckHolds'
    <2>1. ASSUME NEW r \in passed', r \notin passed, NEW i \in DOMAIN history, i > Len(history) - Window
          PROVE  ~Late(history[i], r)
      <3>1. r = w /\ ~Stale(w)
        BY <1>1, <2>1
      <3>2. \A k \in DOMAIN Recent(history) : ~Late(Recent(history)[k], r)
        BY <3>1, StaleIsLate
      <3>3. DOMAIN Recent(history) = 1 .. Len(Recent(history))
        BY <1>3, RecentProperties, LenProperties
      <3>4. PICK k \in 1 .. Len(Recent(history)) : Recent(history)[k] = history[i]
        BY <1>3, <2>1, WindowRows
      <3> QED
        BY <3>2, <3>3, <3>4
    <2>2. \A r \in passed' : r.overtaken # "passed" =>
            \A i \in DOMAIN history : i > Len(history) - Window => ~Late(history[i], r)
      BY <1>2, <2>1 DEF CheckHolds
    <2>3. \A r \in begun' \cup passed' : r.overtaken = "never" => \A i \in DOMAIN history : history[i].created <= r.created
      BY <1>2, <1>4 DEF CheckHolds
    <2>4. \A r \in begun' : r.overtaken # "passed"
      BY <1>1, <1>2 DEF CheckHolds
    <2> QED
      BY <1>1, <2>2, <2>3, <2>4 DEF CheckHolds, Late, Timed, Clock, CouldHaveReset
  <1>10. StoredInTime'
    BY <1>1, <1>2 DEF StoredInTime, Late, Timed, Clock, CouldHaveReset
  <1> QED
    BY <1>5, <1>6, <1>7, <1>8, <1>9, <1>10 DEF FlightInv

\* Storing a row overtakes those left in ingest.
Overtake(r, where) == [r EXCEPT !.overtaken = where]

LEMMA OvertakeProperties ==
  ASSUME NEW r \in Row, NEW where \in {"begun", "passed"}
  PROVE  /\ Overtake(r, where) \in Row /\ Overtake(r, where).packet = r.packet
         /\ Overtake(r, where).created = r.created /\ Overtake(r, where).overtaken = where
  BY DEF Overtake, Row

\* Marking the rows of a set does not make them more.
LEMMA OvertakeCounts ==
  ASSUME NEW X, IsFiniteSet(X), NEW where, NEW Y, Y = {Overtake(r, where) : r \in X}
  PROVE  IsFiniteSet(Y) /\ Cardinality(Y) <= Cardinality(X) /\ Cardinality(Y) \in Nat
  <1> DEFINE f == [r \in X |-> Overtake(r, where)]
  <1>1. f \in Surjection(X, Y)
    BY DEF Surjection
  <1> HIDE DEF f
  <1>2. IsFiniteSet(Y) /\ Cardinality(Y) <= Cardinality(X)
    BY <1>1, FS_Surjection
  <1> QED
    BY <1>2, FS_CardinalityType

LEMMA StoreStep ==
  ASSUME FlightInv, NEW added \in passed, Store(added)
  PROVE  FlightInv'
  <1>1. /\ history' = Insert(added, history)
        /\ begun' = {Overtake(r, "begun") : r \in begun}
        /\ passed' = {Overtake(r, "passed") : r \in passed \ {added}}
        /\ UNCHANGED <<now, boot, boots, sampled, air>>
    BY DEF Store, Overtake
  <1>2. FlightTypeOK /\ InFlight /\ Stamped /\ OneOdd /\ CheckHolds /\ StoredInTime
    BY DEF FlightInv
  <1>3. /\ added \in Row /\ added.packet.at <= added.created /\ added.created <= now /\ added.created \in Nat
        /\ history \in Seq(Row) /\ Len(history) \in Nat /\ DOMAIN history = 1 .. Len(history)
        /\ Cardinality(air) \in Nat /\ Cardinality(begun) \in Nat /\ Cardinality(passed) \in Nat
        /\ sampled \in Nat /\ sampled <= Samples
    BY FlightFacts
  <1>4. \A r \in begun \cup passed : r \in Row /\ r.packet.at <= r.created /\ r.created <= now
    BY FlightFacts
  <1>5. /\ \A i \in 1 .. Len(history) : /\ history[i] \in Row /\ history[i].created \in Nat
                                        /\ history[i].packet.at <= history[i].created
                                        /\ history[i].created <= now
        /\ \A i, j \in 1 .. Len(history) : i < j => history[i].created <= history[j].created
    BY FlightFacts
  <1> DEFINE q == history
             z == Insert(added, history)
  <1>6. /\ z \in Seq(Row) /\ Len(z) = Len(q) + 1 /\ DOMAIN z = 1 .. Len(q) + 1
        /\ \E n \in 0 .. Len(q) :
              /\ \A i \in 1 .. n : z[i] = q[i] /\ q[i].created <= added.created
              /\ z[n + 1] = added
              /\ \A i \in n + 2 .. Len(q) + 1 : z[i] = q[i - 1] /\ q[i - 1].created > added.created
    BY <1>3, <1>5, InsertProperties, LenProperties
  <1> HIDE DEF z
  <1>7. PICK n \in 0 .. Len(q) :
              /\ \A i \in 1 .. n : z[i] = q[i] /\ q[i].created <= added.created
              /\ z[n + 1] = added
              /\ \A i \in n + 2 .. Len(q) + 1 : z[i] = q[i - 1] /\ q[i - 1].created > added.created
    BY <1>6
  <1>8. history' = z
    BY <1>1 DEF z
  <1>9. \A i \in 1 .. Len(q) + 1 : i \in 1 .. n \/ i = n + 1 \/ i \in n + 2 .. Len(q) + 1
    BY <1>3, <1>7
  <1>10. \A i \in 1 .. Len(q) + 1 : z[i] = added \/ \E k \in 1 .. Len(q) : z[i] = q[k]
    <2> SUFFICES ASSUME NEW i \in 1 .. Len(q) + 1, z[i] # added
                 PROVE  \E k \in 1 .. Len(q) : z[i] = q[k]
      OBVIOUS
    <2>1. CASE i \in 1 .. n
      BY <1>3, <1>7, <2>1
    <2>2. CASE i \in n + 2 .. Len(q) + 1
      <3>1. z[i] = q[i - 1] /\ i - 1 \in 1 .. Len(q)
        BY <1>3, <1>7, <2>2
      <3> QED
        BY <3>1
    <2> QED
      BY <1>7, <1>9, <2>1, <2>2
  <1>11. ASSUME NEW r \in begun' \cup passed'
         PROVE  /\ \E o \in begun \cup passed : r.packet = o.packet /\ r.created = o.created
                /\ r \in Row /\ r.overtaken # "never" /\ (r \in begun' => r.overtaken = "begun")
                /\ r \in passed' => r.overtaken = "passed"
    <2>1. ASSUME NEW o \in begun, r = Overtake(o, "begun")
          PROVE  r \in Row /\ r.packet = o.packet /\ r.created = o.created /\ r.overtaken = "begun"
      BY <1>4, <2>1, OvertakeProperties
    <2>2. ASSUME NEW o \in passed, r = Overtake(o, "passed")
          PROVE  r \in Row /\ r.packet = o.packet /\ r.created = o.created /\ r.overtaken = "passed"
      BY <1>4, <2>2, OvertakeProperties
    <2>3. CASE r \in begun'
      <3>1. PICK o \in begun : r = Overtake(o, "begun")
        BY <1>1, <2>3
      <3>2. r \notin passed'
        <4>1. \A o2 \in passed : r # Overtake(o2, "passed")
          BY <2>1, <2>2, <3>1
        <4> QED
          BY <1>1, <4>1
      <3> QED
        BY <2>1, <3>1, <3>2
    <2>4. CASE r \in passed'
      <3>1. PICK o \in passed : r = Overtake(o, "passed")
        BY <1>1, <2>4
      <3>2. r \notin begun'
        <4>1. \A o2 \in begun : r # Overtake(o2, "begun")
          BY <2>1, <2>2, <3>1
        <4> QED
          BY <1>1, <4>1
      <3> QED
        BY <2>2, <3>1, <3>2
    <2> QED
      BY <2>3, <2>4
  <1>12. InFlight'
    <2> DEFINE X == passed \ {added}
    <2>0. /\ IsFiniteSet(air) /\ IsFiniteSet(begun) /\ IsFiniteSet(passed)
          /\ Cardinality(air) + Cardinality(begun) + Cardinality(passed) + Len(q) <= sampled
      BY <1>2 DEF InFlight
    <2>1. IsFiniteSet(X) /\ Cardinality(X) = Cardinality(passed) - 1
      BY <2>0, FS_RemoveElement
    <2>2. passed' = {Overtake(r, "passed") : r \in X}
      BY <1>1
    <2> HIDE DEF X
    <2>3. IsFiniteSet(passed') /\ Cardinality(passed') <= Cardinality(X) /\ Cardinality(passed') \in Nat
      BY <2>1, <2>2, OvertakeCounts
    <2>4. IsFiniteSet(begun') /\ Cardinality(begun') <= Cardinality(begun) /\ Cardinality(begun') \in Nat
      BY <1>1, <2>0, OvertakeCounts
    <2>5. air' = air /\ sampled' = sampled
      BY <1>1
    <2>6. Cardinality(air) + Cardinality(begun') + Cardinality(passed') + (Len(q) + 1) <= sampled
      BY <1>3, <2>0, <2>1, <2>3, <2>4
    <2> QED
      BY <1>6, <1>8, <2>0, <2>3, <2>4, <2>5, <2>6 DEF InFlight
  <1>13. FlightTypeOK'
    <2>1. begun' \subseteq Row /\ passed' \subseteq Row
      BY <1>11
    <2>2. Len(z) <= Samples
      <3>1. /\ Cardinality(air') + Cardinality(begun') + Cardinality(passed') + Len(z) <= sampled
            /\ IsFiniteSet(air') /\ IsFiniteSet(begun') /\ IsFiniteSet(passed')
        BY <1>1, <1>8, <1>12 DEF InFlight
      <3>2. Cardinality(air') \in Nat /\ Cardinality(begun') \in Nat /\ Cardinality(passed') \in Nat
        BY <3>1, FS_CardinalityType
      <3> QED
        BY <1>3, <1>6, <3>1, <3>2, FlightConstants
    <2>3. \A i \in 1 .. Len(q) + 1 : z[i].packet.at <= z[i].created
      BY <1>3, <1>5, <1>10
    <2>4. ASSUME NEW i \in 1 .. Len(q) + 1, NEW j \in 1 .. Len(q) + 1, i < j
          PROVE  z[i].created <= z[j].created
      <3>1. CASE i \in 1 .. n /\ j \in 1 .. n
        BY <1>3, <1>5, <1>7, <2>4, <3>1
      <3>2. CASE i \in 1 .. n /\ j = n + 1
        BY <1>3, <1>7, <3>2
      <3>3. CASE i \in 1 .. n /\ j \in n + 2 .. Len(q) + 1
        <4>1. i \in 1 .. Len(q) /\ j - 1 \in 1 .. Len(q) /\ i < j - 1
          BY <1>3, <1>7, <3>3
        <4> QED
          BY <1>5, <1>7, <3>3, <4>1
      <3>4. CASE i = n + 1 /\ j \in n + 2 .. Len(q) + 1
        <4>1. z[i] = added /\ z[j] = q[j - 1] /\ q[j - 1].created > added.created /\ j - 1 \in 1 .. Len(q)
          BY <1>3, <1>7, <3>4
        <4> QED
          BY <1>3, <1>5, <4>1
      <3>5. CASE i \in n + 2 .. Len(q) + 1 /\ j \in n + 2 .. Len(q) + 1
        <4>1. i - 1 \in 1 .. Len(q) /\ j - 1 \in 1 .. Len(q) /\ i - 1 < j - 1
          BY <1>3, <1>7, <2>4, <3>5
        <4> QED
          BY <1>5, <1>7, <3>5, <4>1
      <3>6. ~(j \in 1 .. n /\ i \notin 1 .. n) /\ ~(j = n + 1 /\ i = n + 1) /\ ~(j = n + 1 /\ i \in n + 2 .. Len(q) + 1)
        BY <1>3, <1>7, <2>4
      <3> QED
        BY <1>9, <3>1, <3>2, <3>3, <3>4, <3>5, <3>6
    <2> QED
      BY <1>1, <1>2, <1>6, <1>8, <2>1, <2>2, <2>3, <2>4 DEF FlightTypeOK
  <1>14. Stamped'
    <2>1. \A r \in begun' \cup passed' : r.packet.at <= r.created /\ r.created <= now
      BY <1>4, <1>11
    <2>2. \A i \in 1 .. Len(q) + 1 : z[i].created <= now
      BY <1>3, <1>5, <1>10
    <2> QED
      BY <1>1, <1>2, <1>6, <1>8, <2>1, <2>2 DEF Stamped
  <1>15. OneOdd'
    <2>1. \A r \in Range(z) : r = added \/ r \in Range(q)
      <3> SUFFICES ASSUME NEW i \in 1 .. Len(q) + 1
                   PROVE  z[i] = added \/ z[i] \in Range(q)
        BY <1>6 DEF Range
      <3>1. \A k \in 1 .. Len(q) : q[k] \in Range(q)
        BY <1>3 DEF Range
      <3> QED
        BY <1>10, <3>1
    <2>2. Known' \subseteq Known
      <3> SUFFICES ASSUME NEW r \in begun' \cup passed' \cup Range(z)
                   PROVE  \E o \in begun \cup passed \cup Range(q) : r.packet = o.packet
        BY <1>1, <1>8 DEF Known
      <3> QED
        BY <1>11, <2>1
    <2> QED
      BY <1>2, <2>2 DEF OneOdd
  <1>16. CheckHolds'
    <2>1. \A r \in begun' \cup passed' : r.overtaken # "never"
      BY <1>11
    <2>2. (\A r \in begun' : r.overtaken # "passed") /\ \A r \in passed' : r.overtaken = "passed"
      BY <1>11
    <2> QED
      BY <2>1, <2>2 DEF CheckHolds
  <1>17. StoredInTime'
    <2>1. ASSUME NEW i \in 1 .. Len(q) + 1, NEW j \in 1 .. Len(q) + 1, i < j,
                 i > Len(q) + 1 - Window, z[i].overtaken = "never", z[j].overtaken # "passed"
          PROVE  ~Late(z[i], z[j])
      <3>0. Window \in Nat
        BY FlightConstants
      <3>1. CASE i \in 1 .. n /\ j \in 1 .. n
        <4>1. i > Len(q) - Window
          BY <1>3, <2>1, <3>0
        <4>2. i \in 1 .. Len(q) /\ j \in 1 .. Len(q) /\ z[i] = q[i] /\ z[j] = q[j]
          BY <1>3, <1>7, <3>1
        <4> QED
          BY <1>2, <1>3, <2>1, <4>1, <4>2 DEF StoredInTime
      <3>2. CASE i \in 1 .. n /\ j = n + 1
        <4>1. i > Len(q) - Window
          BY <1>3, <2>1, <3>0
        <4>2. i \in 1 .. Len(q) /\ z[i] = q[i] /\ z[j] = added
          BY <1>3, <1>7, <3>2
        <4> QED
          BY <1>2, <1>3, <2>1, <4>1, <4>2 DEF CheckHolds
      <3>3. CASE i \in 1 .. n /\ j \in n + 2 .. Len(q) + 1
        <4>1. i > Len(q) - Window
          BY <1>3, <2>1, <3>0
        <4>2. i \in 1 .. Len(q) /\ j - 1 \in 1 .. Len(q) /\ i < j - 1 /\ z[i] = q[i] /\ z[j] = q[j - 1]
          <5>1. i \in 1 .. Len(q) /\ j - 1 \in 1 .. Len(q) /\ i < j - 1
            BY <1>3, <1>7, <3>3
          <5>2. z[i] = q[i] /\ z[j] = q[j - 1]
            BY <1>7, <3>3
          <5> QED
            BY <5>1, <5>2
        <4> QED
          BY <1>2, <1>3, <2>1, <4>1, <4>2 DEF StoredInTime
      <3>4. CASE i = n + 1 /\ j \in n + 2 .. Len(q) + 1
        <4>1. z[i] = added /\ q[j - 1].created > added.created /\ j - 1 \in 1 .. Len(q)
          BY <1>3, <1>7, <3>4
        <4>2. q[j - 1].created <= added.created
          BY <1>2, <1>3, <2>1, <4>1 DEF CheckHolds
        <4> QED
          BY <1>3, <1>5, <4>1, <4>2
      <3>5. CASE i \in n + 2 .. Len(q) + 1 /\ j \in n + 2 .. Len(q) + 1
        <4>1. i - 1 \in 1 .. Len(q) /\ j - 1 \in 1 .. Len(q) /\ i - 1 < j - 1 /\ i - 1 > Len(q) - Window
          BY <1>3, <1>7, <2>1, <3>0, <3>5
        <4>2. z[i] = q[i - 1] /\ z[j] = q[j - 1]
          BY <1>7, <3>5
        <4> QED
          BY <1>2, <1>3, <2>1, <4>1, <4>2 DEF StoredInTime
      <3>6. ~(j \in 1 .. n /\ i \notin 1 .. n) /\ ~(j = n + 1 /\ i = n + 1) /\ ~(j = n + 1 /\ i \in n + 2 .. Len(q) + 1)
        BY <1>3, <1>7, <2>1
      <3> QED
        BY <1>9, <3>1, <3>2, <3>3, <3>4, <3>5, <3>6
    <2>2. /\ DOMAIN history' = 1 .. Len(q) + 1 /\ Len(history') = Len(q) + 1
          /\ \A i \in 1 .. Len(q) + 1 : history'[i] = z[i]
      BY <1>6, <1>8
    <2> SUFFICES ASSUME NEW i \in DOMAIN history', NEW j \in DOMAIN history', i < j,
                        i > Len(history') - Window,
                        history'[i].overtaken = "never", history'[j].overtaken # "passed"
                 PROVE  ~Late(history'[i], history'[j])
      BY DEF StoredInTime, Late, Timed, Clock, CouldHaveReset
    <2>3. i \in 1 .. Len(q) + 1 /\ j \in 1 .. Len(q) + 1 /\ i > Len(q) + 1 - Window
      BY <1>3, <2>2, FlightConstants
    <2> QED
      BY <2>1, <2>2, <2>3
  <1> QED
    BY <1>12, <1>13, <1>14, <1>15, <1>16, <1>17 DEF FlightInv

LEMMA FlightStep ==
  ASSUME FlightInv, [FlightNext]_flightVars
  PROVE  FlightInv'
  <1>1. CASE Fly
    BY <1>1, FlyStep
  <1>2. ASSUME NEW p \in air, Receive(p) PROVE FlightInv'
    BY <1>2, ReceiveStep
  <1>3. ASSUME NEW r \in passed, Store(r) PROVE FlightInv'
    BY <1>3, StoreStep
  <1>5. ASSUME NEW r \in begun, Check(r) PROVE FlightInv'
    BY <1>5, CheckStep
  <1>4. CASE UNCHANGED flightVars
    <2>1. FlightTypeOK' /\ InFlight' /\ Stamped' /\ OneOdd'
      BY <1>4 DEF FlightInv, flightVars, FlightTypeOK, InFlight, Stamped, OneOdd, Known
    <2>2. CheckHolds' /\ StoredInTime'
      BY <1>4, FlightQuiet DEF flightVars
    <2> QED
      BY <2>1, <2>2 DEF FlightInv
  <1> QED
    BY <1>1, <1>2, <1>3, <1>4, <1>5 DEF FlightNext

LEMMA FlightHolds == FlightSpec => []FlightInv
  <1>1. FlightInit => FlightInv
    BY FlightInitInv
  <1>2. FlightInv /\ [FlightNext]_flightVars => FlightInv'
    BY FlightStep
  <1> QED
    BY <1>1, <1>2, PTL DEF FlightSpec

\* KinematicGuard.FlightTypeOK: the packets in the air, in ingest and in store keep
\* their types, the stored ones in the order _load_history reads them, no
\* more of them than were sampled.
THEOREM FlightTypeCorrect == FlightSpec => []FlightTypeOK
  <1>1. FlightInv => FlightTypeOK
    BY DEF FlightInv
  <1> QED
    BY <1>1, FlightHolds, PTL

-----------------------------------------------------------------------------
(***************************************************************************)
(* KinematicGuard: the staleness check.                                    *)
(***************************************************************************)

\* What the invariant says of the window.
LEMMA WindowFacts ==
  ASSUME FlightInv, NEW q, q = Recent(history)
  PROVE  /\ q \in Seq(Row) /\ Len(q) \in Nat /\ DOMAIN q = 1 .. Len(q)
         /\ \A r : r \in Rows <=> \E k \in 1 .. Len(q) : r = q[k]
         /\ \A k \in 1 .. Len(q) :
              /\ q[k] \in Row /\ q[k].packet \in Packet /\ q[k].packet \in Known
              /\ q[k].created \in Nat /\ q[k].packet.at \in Nat /\ q[k].packet.boot \in Int
              /\ q[k].packet.at <= q[k].created /\ q[k].created <= now
              /\ Clock(q[k]) = q[k].packet.at - q[k].packet.boot
         /\ \A k, m \in 1 .. Len(q) : k < m =>
              /\ q[k].created <= q[m].created
              /\ q[k].overtaken # "never" \/ q[m].overtaken = "passed" \/ ~Late(q[k], q[m])
         /\ Len(q) > 1 <=> Len(history) > 1
         /\ Len(q) > 1 => q[Len(q)] = history[Len(history)]
  <1>1. history \in Seq(Row) /\ Len(history) \in Nat /\ DOMAIN history = 1 .. Len(history)
    BY FlightFacts
  <1>2. q \in Seq(Row) /\ Len(q) \in Nat /\ DOMAIN q = 1 .. Len(q)
    BY <1>1, RecentProperties, LenProperties
  <1>3. \A r : r \in Rows <=> \E k \in 1 .. Len(q) : r = q[k]
    BY <1>2 DEF Rows, Range
  <1>4. \A k \in 1 .. Len(q) : \E i \in 1 .. Len(history) :
          i > Len(history) - Window /\ q[k] = history[i] /\ i = Len(history) - Len(q) + k
    BY <1>1, WindowRows
  <1>5. ASSUME NEW k \in 1 .. Len(q)
        PROVE  /\ q[k] \in Row /\ q[k].packet \in Packet /\ q[k].packet \in Known
               /\ q[k].created \in Nat /\ q[k].packet.at \in Nat /\ q[k].packet.boot \in Int
               /\ q[k].packet.at <= q[k].created /\ q[k].created <= now
               /\ Clock(q[k]) = q[k].packet.at - q[k].packet.boot
    <2>1. PICK i \in 1 .. Len(history) : q[k] = history[i]
      BY <1>4
    <2>2. history[i] \in Row /\ history[i].packet.at <= history[i].created /\ history[i].created <= now
      BY <1>1, FlightFacts
    <2>3. history[i] \in Range(history)
      BY <1>1 DEF Range
    <2>4. history[i].packet \in Known
      BY <2>3 DEF Known
    <2> QED
      BY <2>1, <2>2, <2>4, RowTypes
  <1>6. ASSUME NEW k \in 1 .. Len(q), NEW m \in 1 .. Len(q), k < m
        PROVE  /\ q[k].created <= q[m].created
               /\ q[k].overtaken # "never" \/ q[m].overtaken = "passed" \/ ~Late(q[k], q[m])
    <2>1. PICK i \in 1 .. Len(history) :
            i > Len(history) - Window /\ q[k] = history[i] /\ i = Len(history) - Len(q) + k
      BY <1>4
    <2>2. PICK j \in 1 .. Len(history) : q[m] = history[j] /\ j = Len(history) - Len(q) + m
      BY <1>4
    <2>3. i < j
      BY <1>1, <1>2, <1>6, <2>1, <2>2
    <2>4. history[i].created <= history[j].created
      BY <1>1, <2>3, FlightFacts
    <2>5. history[i].overtaken # "never" \/ history[j].overtaken = "passed" \/ ~Late(history[i], history[j])
      BY <1>1, <2>1, <2>3 DEF FlightInv, StoredInTime
    <2> QED
      BY <2>1, <2>2, <2>4, <2>5
  <1>7. Len(q) > 1 <=> Len(history) > 1
    <2> DEFINE e == Len(history)
               l == Len(q)
    <2>1. l = IF e > Window THEN Window ELSE e
      BY <1>1, RecentProperties
    <2>2. Window \in Nat /\ Window > 1 /\ e \in Nat
      BY <1>1, FlightConstants
    <2> HIDE DEF l, e
    <2>3. l > 1 <=> e > 1
      BY <2>1, <2>2
    <2> QED
      BY <2>3 DEF l, e
  <1>8. Len(q) > 1 => q[Len(q)] = history[Len(history)]
    <2>1. Len(history) > 1 => Len(history) > 0
      BY <1>1
    <2> QED
      BY <1>1, <1>7, <2>1, RecentProperties
  <1> QED
    BY <1>2, <1>3, <1>5, <1>6, <1>7, <1>8

\* A clock too young for a reset since an arrival started before it.
LEMMA StartedBefore ==
  ASSUME NEW a \in Int, NEW b \in Int, NEW c \in Int, NEW d \in Int, NEW l \in Int,
         a <= c, ~(a - b <= (c - d) + l)
  PROVE  d > b + l
  OBVIOUS

LEMMA LateIsOld == ASSUME FlightInv PROVE RefusedIsLate
  <1> SUFFICES ASSUME NEW w \in begun, NEW p, p = w.packet, Stale(w)
               PROVE  \E r \in Rows :
                        \/ r.packet.boot = p.boot /\ r.packet.at - p.at > MaxReorder
                        \/ r.packet.boot > p.boot
                        \/ r.packet.boot < p.boot /\ (r.created > p.boot + MaxLead \/ w.created - r.created < MinGap)
    BY DEF RefusedIsLate
  <1> DEFINE q == Recent(history)
  <1>1. w \in Row /\ p.at \in Nat /\ p.boot \in Int /\ w.created \in Nat /\ p.at <= w.created
    BY FlightFacts, RowTypes
  <1>2. /\ DOMAIN q = 1 .. Len(q)
        /\ \A k \in 1 .. Len(q) : /\ q[k] \in Rows /\ q[k].created \in Nat
                                  /\ q[k].packet.at \in Nat /\ q[k].packet.boot \in Int
    BY WindowFacts
  <1>3. PICK k \in 1 .. Len(q) : Late(q[k], w)
    BY <1>2, StaleIsLate
  <1> DEFINE r == q[k]
  <1>4. r \in Rows /\ r.created \in Nat /\ r.packet.at \in Nat /\ r.packet.boot \in Int
    BY <1>2
  <1>5. /\ (r.packet.at - r.packet.boot) - (p.at - p.boot) > MaxReorder
        /\ \/ w.created - r.created < MinGap
           \/ ~(p.at - p.boot <= (w.created - r.created) + MaxLead)
    BY <1>3 DEF Late, Clock, CouldHaveReset
  <1> HIDE DEF r, q
  <1>6. MaxReorder \in Nat /\ MinGap \in Nat /\ MaxLead \in Nat
    BY FlightConstants
  <1>7. CASE r.packet.boot = p.boot
    <2>1. r.packet.at - p.at > MaxReorder
      BY <1>1, <1>4, <1>5, <1>6, <1>7
    <2> QED
      BY <1>4, <1>7, <2>1
  <1>8. CASE r.packet.boot > p.boot
    BY <1>4, <1>8
  <1>9. CASE r.packet.boot < p.boot
    <2>1. w.created - r.created < MinGap \/ r.created > p.boot + MaxLead
      <3> SUFFICES ASSUME ~(p.at - p.boot <= (w.created - r.created) + MaxLead)
                   PROVE  r.created > p.boot + MaxLead
        BY <1>5
      <3>1. /\ p.at \in Int /\ p.boot \in Int /\ w.created \in Int /\ r.created \in Int /\ MaxLead \in Int
            /\ p.at <= w.created
        BY <1>1, <1>4, <1>6
      <3> QED
        BY <3>1, StartedBefore
    <2> QED
      BY <1>4, <1>9, <2>1
  <1> QED
    BY <1>1, <1>4, <1>7, <1>8, <1>9

\* KinematicGuard.RefusedIsLate: check() in ingest_staleness.py refuses a packet
\* only if one in the window is newer by more than the reorder slack, or is of
\* another boot and cannot be told from such a one by when it arrived.
THEOREM RefusedLate == FlightSpec => []RefusedIsLate
  <1>1. FlightInv => RefusedIsLate
    BY LateIsOld
  <1> QED
    BY <1>1, FlightHolds, PTL

\* The notes under which a pair is declined or kept.
LEMMA IntervalCases ==
  ASSUME NEW r, NEW s, NEW v, v = IntervalSeconds(r, s)
  PROVE  \/ /\ ~Timed(r) \/ ~Timed(s)
            /\ v.dt = Arrival(r, s) /\ v.base = "arrival" /\ v.note = "device_time_absent"
         \/ /\ Timed(r) /\ Timed(s) /\ Device(r, s) <= 0
            /\ v.dt = Arrival(r, s) /\ v.base = "arrival" /\ v.note = "device_clock_not_monotonic"
         \/ /\ Timed(r) /\ Timed(s) /\ ~(Device(r, s) <= 0) /\ Device(r, s) > Arrival(r, s) + MaxLead
            /\ v.dt = Arrival(r, s) /\ v.base = "arrival" /\ v.note = "device_interval_exceeds_arrival"
         \/ /\ Timed(r) /\ Timed(s) /\ ~(Device(r, s) <= 0) /\ ~(Device(r, s) > Arrival(r, s) + MaxLead)
            /\ v.dt = Device(r, s) /\ v.base = "device" /\ v.note = "none"
  BY DEF IntervalSeconds, Interval

LEMMA FallBackCases ==
  ASSUME NEW r, NEW s, NEW v, v = IntervalSeconds(r, s)
  PROVE  \/ /\ FallBack(r, s) = Paired(r, s, Declined)
            /\ \/ v.note \in ClocksDisagree /\ v.dt < MinGap
               \/ /\ v.note = "device_clock_not_monotonic" /\ Timed(r) /\ Clock(s) < Clock(r)
                  /\ ~CouldHaveReset(Clock(s), v.dt)
         \/ /\ FallBack(r, s) = Paired(r, s, v)
            /\ ~(v.note \in ClocksDisagree /\ v.dt < MinGap)
  BY DEF FallBack

LEMMA DeclinedIsLate == ASSUME FlightInv PROVE DeclinedWasRefused
  <1> DEFINE q == Recent(history)
             p == Pair(q)
             c == q[Len(q)]
             s == q[Len(q) - 1]
  <1> SUFFICES ASSUME Len(history) > 1, p.interval.note = "arrival_gap_too_small_to_rate",
                      Clock(p.curr) < Clock(p.prev)
               PROVE  p.curr.overtaken = "passed" \/ p.prev.overtaken # "never"
    BY DEF DeclinedWasRefused
  <1>1. /\ q \in Seq(Row) /\ Len(q) \in Nat /\ Len(q) > 1
        /\ \A k \in 1 .. Len(q) : q[k] \in Row
        /\ \A k, m \in 1 .. Len(q) : k < m =>
             q[k].overtaken # "never" \/ q[m].overtaken = "passed" \/ ~Late(q[k], q[m])
    BY WindowFacts
  <1>2. Len(q) \in 1 .. Len(q) /\ Len(q) - 1 \in 1 .. Len(q) /\ Len(q) - 1 < Len(q) /\ Len(q) - 1 \in 1 .. Len(q) - 1
    BY <1>1
  <1>3. s.overtaken # "never" \/ c.overtaken = "passed" \/ ~Late(s, c)
    BY <1>1, <1>2
  <1>4. \A k \in 1 .. Len(q) : Clock(q[k]) \in Int /\ Clock(c) \in Int
    BY <1>1, <1>2, RowTypes
  <1>5. \A r, v : Paired(r, c, v).prev = r /\ Paired(r, c, v).curr = c /\ Paired(r, c, v).interval = v
    BY DEF Paired
  <1> HIDE DEF q
  <1>6. \/ ~Timed(c) /\ p = Paired(s, c, IntervalSeconds(s, c))
        \/ \E i \in Before(q) : p = Paired(q[i], c, IntervalSeconds(q[i], c))
        \/ \E i \in After(q) : p = Paired(c, q[i], Interval(Clock(q[i]) - Clock(c), "device", "reordered"))
        \/ /\ \A i \in After(q) : Clock(q[i]) - Clock(c) > MaxReorder
           /\ \E o : /\ p = FallBack(o, c)
                     /\ \/ Before(q) = {} /\ o = s
                        \/ \E i \in Before(q) : o = q[i]
    BY <1>1, PairCases
  <1>7. \A r : IntervalSeconds(r, c).note # "arrival_gap_too_small_to_rate"
    <2> SUFFICES ASSUME NEW r PROVE IntervalSeconds(r, c).note # "arrival_gap_too_small_to_rate"
      OBVIOUS
    <2> QED
      BY IntervalCases
  <1>8. CASE ~Timed(c) /\ p = Paired(s, c, IntervalSeconds(s, c))
    BY <1>5, <1>7, <1>8
  <1>9. CASE \E i \in Before(q) : p = Paired(q[i], c, IntervalSeconds(q[i], c))
    BY <1>5, <1>7, <1>9
  <1>10. CASE \E i \in After(q) : p = Paired(c, q[i], Interval(Clock(q[i]) - Clock(c), "device", "reordered"))
    <2>1. p.interval.note = "reordered"
      BY <1>10 DEF Paired, Interval
    <2> QED
      BY <2>1
  <1>11. CASE /\ \A i \in After(q) : Clock(q[i]) - Clock(c) > MaxReorder
              /\ \E o : /\ p = FallBack(o, c)
                        /\ \/ Before(q) = {} /\ o = s
                           \/ \E i \in Before(q) : o = q[i]
    <2>1. PICK o : /\ p = FallBack(o, c)
                   /\ \/ Before(q) = {} /\ o = s
                      \/ \E i \in Before(q) : o = q[i]
      BY <1>11
    <2> DEFINE v == IntervalSeconds(o, c)
    <2>2. \/ /\ p = Paired(o, c, Declined)
             /\ \/ v.note \in ClocksDisagree /\ v.dt < MinGap
                \/ /\ v.note = "device_clock_not_monotonic" /\ Timed(o) /\ Clock(c) < Clock(o)
                   /\ ~CouldHaveReset(Clock(c), v.dt)
          \/ p = Paired(o, c, v)
      BY <2>1, FallBackCases
    <2>3. p = Paired(o, c, Declined)
      BY <1>5, <1>7, <2>2
    <2>4. p.prev = o /\ p.curr = c /\ Clock(c) < Clock(o)
      BY <1>5, <2>3
    <2>5. o = s
      <3>1. \A i \in Before(q) : i \in 1 .. Len(q) /\ Clock(q[i]) < Clock(c)
        BY <1>1 DEF Before, Partners
      <3>2. \A i \in Before(q) : ~(Clock(c) < Clock(q[i]))
        BY <1>4, <3>1
      <3> QED
        BY <2>1, <2>4, <3>2
    <2>6. v.note \in ClocksDisagree
      BY <1>5, <1>7, <2>2, <2>3, <2>4 DEF ClocksDisagree, Declined, Interval
    <2>7. Device(o, c) = Clock(c) - Clock(o) /\ Device(o, c) <= 0
      BY <1>2, <1>4, <2>4, <2>5 DEF Device
    <2>8. Timed(o) /\ Timed(c) /\ v.dt = Arrival(o, c) /\ v.note = "device_clock_not_monotonic"
      BY <2>6, <2>7, IntervalCases DEF ClocksDisagree
    <2>9. Len(q) - 1 \in After(q)
      BY <1>2, <2>4, <2>5, <2>8 DEF After, Partners
    <2>10. Clock(s) - Clock(c) > MaxReorder
      BY <1>11, <2>9
    <2>11. c.created - s.created < MinGap \/ ~CouldHaveReset(Clock(c), c.created - s.created)
      <3>1. v.dt = c.created - s.created
        BY <2>5, <2>8 DEF Arrival
      <3>2. v.dt < MinGap \/ ~CouldHaveReset(Clock(c), v.dt)
        BY <2>2, <2>3, <2>4, <1>5, <1>7, <2>8 DEF Declined, Interval
      <3> QED
        BY <3>1, <3>2
    <2>12. Late(s, c)
      BY <2>5, <2>8, <2>10, <2>11 DEF Late
    <2> QED
      BY <1>3, <2>4, <2>5, <2>12
  <1> QED
    BY <1>6, <1>8, <1>9, <1>10, <1>11

\* KinematicGuard.DeclinedWasRefused: the check at ingest and the guard apply the
\* same rule to the same two times, so the guard is left to decline a pair only if
\* the check of the later one did not see the earlier: another packet was stored
\* between that check and its insert, or while the earlier one was in ingest.
THEOREM DeclinedOvertaken == FlightSpec => []DeclinedWasRefused
  <1>1. FlightInv => DeclinedWasRefused
    BY DeclinedIsLate
  <1> QED
    BY <1>1, FlightHolds, PTL

-----------------------------------------------------------------------------
(***************************************************************************)
(* KinematicGuard: the verdict.                                            *)
(***************************************************************************)
LEMMA TimesMinus ==
  ASSUME NEW x \in Nat, NEW y \in Int, NEW d \in Int
  PROVE  x * y - x * d = x * (y - d) /\ x * y \in Int /\ x * d \in Int
  OBVIOUS

LEMMA TimesMonotone ==
  ASSUME NEW x \in Nat, NEW y \in Nat, x <= y, NEW d \in Nat
  PROVE  x * d <= y * d /\ x * d \in Nat /\ y * d \in Nat
  OBVIOUS

LEMMA GapProperties ==
  ASSUME NEW d \in Int
  PROVE  Gap(d) \in Nat /\ (d >= 0 => Gap(d) = d) /\ (d <= 0 => Gap(d) = -d)
  BY DEF Gap

LEMMA SquareMonotone ==
  ASSUME NEW x \in Nat, NEW y \in Nat, x <= y
  PROVE  Square(x) <= Square(y) /\ Square(x) \in Nat /\ Square(y) \in Nat
  <1>1. x * x <= y * x /\ x * x \in Nat /\ y * x \in Nat
    BY TimesMonotone
  <1>2. x * y <= y * y /\ y * y \in Nat
    BY TimesMonotone
  <1>3. x * y = y * x
    OBVIOUS
  <1> QED
    BY <1>1, <1>2, <1>3 DEF Square

\* Only what lies within a distance of the origin has a square within its square.
LEMMA SquareBounds ==
  ASSUME NEW e \in Int, NEW b \in Nat, Square(e) <= Square(b)
  PROVE  -b <= e /\ e <= b
  <1>1. Gap(e) \in Nat /\ (Gap(e) = e \/ Gap(e) = -e) /\ (Gap(e) <= b => -b <= e /\ e <= b)
    BY DEF Gap
  <1>2. Square(Gap(e)) = Square(e)
    <2>1. (-e) * (-e) = e * e
      OBVIOUS
    <2> QED
      BY <1>1, <2>1 DEF Square
  <1> DEFINE g == Gap(e)
  <1> HIDE DEF g
  <1>3. ASSUME g > b, g \in Nat PROVE g * g > b * b
    <2>1. g * g >= (b + 1) * (b + 1)
      <3>1. b + 1 \in Nat /\ b + 1 <= g
        BY <1>3
      <3> QED
        BY <1>3, <3>1, SquareMonotone DEF Square
    <2>2. (b + 1) * (b + 1) = b * b + 2 * b + 1
      OBVIOUS
    <2>3. b * b \in Nat /\ g * g \in Nat
      BY <1>3
    <2> QED
      BY <1>3, <2>1, <2>2, <2>3
  <1>4. ~(g > b)
    <2>1. g \in Nat /\ Square(g) <= Square(b)
      BY <1>1, <1>2 DEF g
    <2>2. g * g \in Nat /\ b * b \in Nat /\ g * g <= b * b
      BY <2>1 DEF Square
    <2> QED
      BY <1>3, <2>1, <2>2
  <1> QED
    BY <1>1, <1>4 DEF g

\* The triangle inequality: a steps along the flight and a displacement (u, v) lead
\* no farther than b only if the displacement is no longer than a + b.
LEMMA Triangle ==
  ASSUME NEW a \in Nat, NEW b \in Nat, NEW u \in Int, NEW v \in Int,
         Square(a + u) + Square(v) <= Square(b)
  PROVE  Square(u) + Square(v) <= Square(a + b)
  <1> DEFINE e == a + u
  <1>1. e \in Int /\ Square(e) \in Nat /\ Square(v) \in Nat /\ Square(b) \in Nat
    BY DEF Square
  <1>2. -b <= e
    <2>1. Square(e) <= Square(b)
      <3>1. Square(e) + Square(v) <= Square(b)
        OBVIOUS
      <3> HIDE DEF e
      <3> QED
        BY <1>1, <3>1
    <2> QED
      BY <1>1, <2>1, SquareBounds
  <1>3. u = e - a
    OBVIOUS
  <1> HIDE DEF e
  <1>4. Square(u) = Square(e) - 2 * (a * e) + Square(a)
    BY <1>1, <1>3 DEF Square
  <1>5. Square(a + b) = Square(a) + 2 * (a * b) + Square(b)
    BY DEF Square
  <1>6. -(a * e) <= a * b /\ a * e \in Int /\ a * b \in Int
    <2>1. b + e \in Nat
      BY <1>1, <1>2
    <2>2. a * (b + e) \in Nat
      BY <2>1
    <2>3. a * (b + e) = a * b + a * e
      BY <1>1
    <2>4. a * e \in Int /\ a * b \in Int
      BY <1>1
    <2> QED
      BY <2>2, <2>3, <2>4
  <1>7. Square(a) \in Nat /\ Square(u) \in Int
    BY DEF Square
  <1>8. Square(e) + Square(v) <= Square(b)
    BY DEF e
  <1> QED
    BY <1>1, <1>4, <1>5, <1>6, <1>7, <1>8

LEMMA ChecksProperties ==
  ASSUME NEW p
  PROVE  /\ Checks(p) \subseteq {"gps_implied_speed", "gps_airframe_speed_mismatch", "vertical_speed", "satellite_loss"}
         /\ "gps_implied_speed" \in Checks(p) <=> Moved(p) > Square(MaxSpeed * p.interval.dt)
         /\ "gps_airframe_speed_mismatch" \in Checks(p) <=>
              \/ Moved(p) > Square((Speed + SpeedError) * p.interval.dt)
              \/ Speed > SpeedError /\ Moved(p) < Square((Speed - SpeedError) * p.interval.dt)
         /\ "vertical_speed" \in Checks(p) <=> Gap(Altitude(p.curr) - Altitude(p.prev)) > MaxClimb * p.interval.dt
         /\ "satellite_loss" \in Checks(p) <=> ~Jammed(p.prev) /\ Jammed(p.curr)
  BY DEF Checks

\* How far a sample is from a true one.
LEMMA MovedProperties ==
  ASSUME NEW r \in Row, NEW s \in Row, NEW v, r.packet.off = Nowhere
  PROVE  Moved(Paired(r, s, v))
           = Square(Speed * (s.packet.at - r.packet.at) + s.packet.off.x) + Square(s.packet.off.y)
  <1> DEFINE x == s.packet.at
             y == r.packet.at
             a == s.packet.off.x
             b == s.packet.off.y
  <1>1. x \in Int /\ y \in Int /\ a \in Int /\ b \in Int /\ Speed \in Nat
    BY RowTypes, FlightConstants
  <1>2. /\ Position(s).x = Speed * x + a /\ Position(s).y = b
        /\ Position(r).x = Speed * y + 0 /\ Position(r).y = 0
    BY DEF Position, Nowhere
  <1>3. Moved(Paired(r, s, v)) = Square(Position(s).x - Position(r).x) + Square(Position(s).y - Position(r).y)
    BY DEF Moved, Paired
  <1> HIDE DEF x, y, a, b
  <1>4. Speed * x - Speed * y = Speed * (x - y) /\ Speed * x \in Int /\ Speed * y \in Int
    BY <1>1, TimesMinus
  <1>5. Position(s).x - Position(r).x = Speed * (x - y) + a /\ Position(s).y - Position(r).y = b
    BY <1>1, <1>2, <1>4
  <1> QED
    BY <1>3, <1>5 DEF x, y, a, b

\* Between two rows whose positions are true, no rate is out of bounds when it is
\* taken over the time that passed on the flight, or when no time did.
LEMMA TrueRates ==
  ASSUME NEW r \in Row, NEW s \in Row, r.packet.off = Nowhere, s.packet.off = Nowhere,
         NEW v, v.dt \in Nat,
         s.packet.at - r.packet.at = v.dt \/ s.packet.at = r.packet.at
  PROVE  /\ Checks(Paired(r, s, v)) \subseteq {"satellite_loss"}
         /\ "satellite_loss" \in Checks(Paired(r, s, v)) => Jammed(s)
  <1> DEFINE p == Paired(r, s, v)
             d == s.packet.at - r.packet.at
             dt == v.dt
  <1>1. p.prev = r /\ p.curr = s /\ p.interval.dt = dt
    BY DEF Paired
  <1>2. r.packet.at \in Nat /\ s.packet.at \in Nat /\ d \in Nat /\ dt \in Nat /\ (d = dt \/ d = 0) /\ d <= dt
    BY RowTypes
  <1>3. /\ Speed \in Nat /\ Climb \in Nat /\ MaxSpeed \in Nat /\ MaxClimb \in Nat /\ SpeedError \in Nat
        /\ Speed <= MaxSpeed /\ Speed <= SpeedError /\ Climb <= MaxClimb
    BY FlightConstants
  <1>4. Moved(p) = Square(Speed * d)
    <2>1. Moved(p) = Square(Speed * d + 0) + Square(0)
      BY MovedProperties DEF Nowhere
    <2>2. Speed * d \in Nat
      BY <1>2, <1>3, TimesMonotone
    <2> HIDE DEF p, d
    <2>3. Speed * d + 0 = Speed * d /\ Square(0) = 0 /\ Square(Speed * d) \in Nat
      BY <2>2, SquareMonotone DEF Square
    <2> QED
      BY <2>1, <2>3
  <1>5. Altitude(s) - Altitude(r) = Climb * d
    BY <1>2, <1>3, TimesMinus DEF Altitude
  <1> HIDE DEF p, d, dt
  <1>6. /\ Speed * d \in Nat /\ Climb * d \in Nat
        /\ MaxSpeed * dt \in Nat /\ MaxClimb * dt \in Nat /\ (Speed + SpeedError) * dt \in Nat
        /\ Speed * d <= MaxSpeed * dt /\ Speed * d <= (Speed + SpeedError) * dt /\ Climb * d <= MaxClimb * dt
    <2>1. Speed + SpeedError \in Nat /\ Speed <= Speed + SpeedError
      BY <1>3
    <2>2. /\ Speed * dt \in Nat /\ Speed * dt <= MaxSpeed * dt /\ Speed * dt <= (Speed + SpeedError) * dt
          /\ Climb * dt <= MaxClimb * dt /\ Climb * dt \in Nat
          /\ MaxSpeed * dt \in Nat /\ MaxClimb * dt \in Nat /\ (Speed + SpeedError) * dt \in Nat
      BY <1>2, <1>3, <2>1, TimesMonotone
    <2>3. Speed * d <= Speed * dt /\ Climb * d <= Climb * dt /\ Speed * d \in Nat /\ Climb * d \in Nat
      <3>1. d * Speed <= dt * Speed /\ d * Climb <= dt * Climb
        BY <1>2, <1>3, TimesMonotone
      <3>2. d * Speed = Speed * d /\ dt * Speed = Speed * dt /\ d * Climb = Climb * d /\ dt * Climb = Climb * dt
        BY <1>2, <1>3
      <3>3. Speed * d \in Nat /\ Climb * d \in Nat
        BY <1>2, <1>3, TimesMonotone
      <3> QED
        BY <3>1, <3>2, <3>3
    <2> DEFINE sd == Speed * d
               cd == Climb * d
               st == Speed * dt
               ct == Climb * dt
               mt == MaxSpeed * dt
               et == (Speed + SpeedError) * dt
               lt == MaxClimb * dt
    <2> HIDE DEF sd, cd, st, ct, mt, et, lt
    <2>4. sd <= mt /\ sd <= et /\ cd <= lt
      <3>1. /\ sd \in Nat /\ cd \in Nat /\ st \in Nat /\ ct \in Nat /\ mt \in Nat /\ et \in Nat /\ lt \in Nat
            /\ sd <= st /\ cd <= ct /\ st <= mt /\ st <= et /\ ct <= lt
        BY <2>2, <2>3 DEF sd, cd, st, ct, mt, et, lt
      <3> QED
        BY <3>1
    <2> QED
      BY <2>2, <2>3, <2>4 DEF sd, cd, mt, et, lt
  <1>7. Gap(Altitude(p.curr) - Altitude(p.prev)) = Climb * d
    BY <1>1, <1>5, <1>6, GapProperties
  <1>8. ~(Moved(p) > Square(MaxSpeed * dt)) /\ ~(Moved(p) > Square((Speed + SpeedError) * dt))
    <2>1. /\ Square(Speed * d) <= Square(MaxSpeed * dt) /\ Square(Speed * d) <= Square((Speed + SpeedError) * dt)
          /\ Square(Speed * d) \in Nat /\ Square(MaxSpeed * dt) \in Nat /\ Square((Speed + SpeedError) * dt) \in Nat
      BY <1>6, SquareMonotone
    <2> QED
      BY <1>4, <2>1
  <1>9. ~(Speed > SpeedError)
    BY <1>3
  <1>10. ~(Gap(Altitude(p.curr) - Altitude(p.prev)) > MaxClimb * dt)
    BY <1>6, <1>7
  <1> QED
    BY <1>1, <1>8, <1>9, <1>10, ChecksProperties DEF p

\* The time between two packets of one boot is taken from the device clock unless
\* one was delayed by more than the slack.
LEMMA PromptInterval ==
  ASSUME NEW r \in Row, NEW s \in Row, Timed(r), Timed(s),
         r.packet.boot = s.packet.boot, Clock(r) < Clock(s),
         s.packet.at <= s.created, r.created - r.packet.at <= MaxLead
  PROVE  /\ IntervalSeconds(r, s).base = "device"
         /\ IntervalSeconds(r, s).dt = s.packet.at - r.packet.at
         /\ s.packet.at - r.packet.at \in Nat /\ s.packet.at - r.packet.at > 0
  <1>1. /\ r.packet.at \in Nat /\ r.packet.boot \in Int /\ r.created \in Nat
        /\ s.packet.at \in Nat /\ s.packet.boot \in Int /\ s.created \in Nat
        /\ Clock(r) = r.packet.at - r.packet.boot /\ Clock(s) = s.packet.at - s.packet.boot
        /\ MaxLead \in Nat
    BY RowTypes, FlightConstants
  <1>2. Device(r, s) = s.packet.at - r.packet.at
    BY <1>1 DEF Device
  <1>3. s.packet.at - r.packet.at \in Nat /\ s.packet.at - r.packet.at > 0
    BY <1>1
  <1>4. ~(Device(r, s) > Arrival(r, s) + MaxLead)
    BY <1>1, <1>2 DEF Arrival
  <1>5. ~(Device(r, s) <= 0)
    BY <1>2, <1>3
  <1> QED
    BY <1>2, <1>3, <1>4, <1>5, IntervalCases

\* A pair that is not rated, or that at most lost its satellites.
LEMMA QuietVerdict ==
  ASSUME NEW q, Len(q) > 1, Len(q) \in Nat, NEW p, p = Pair(q),
         \/ p.interval.dt = 0
         \/ /\ Checks(p) \subseteq {"satellite_loss"}
            /\ "satellite_loss" \in Checks(p) => Jammed(p.curr)
  PROVE  Evaluate(q) = "none" \/ (Evaluate(q) = "SIGNAL_JAMMING" /\ Jammed(p.curr))
  BY DEF Evaluate, Classify

\* A packet delivered within the slack, after one that is newer by more than the
\* reorder slack, came too soon after it for the gap to be rated.
LEMMA ReorderedIsSmall ==
  ASSUME NEW x \in Nat, NEW y \in Nat, NEW t \in Nat, NEW u \in Nat,
         x <= t, u - y <= MaxLead, x - y > MaxReorder
  PROVE  u - t < MinGap
  BY FlightConstants

LEMMA HonestIsQuiet == ASSUME FlightInv PROVE HonestFlightIsQuiet
  <1> DEFINE q == Recent(history)
             p == Pair(q)
             c == q[Len(q)]
             s == q[Len(q) - 1]
  <1> SUFFICES ASSUME OneBoot, Prompt, Dated, \A r \in Rows : r.packet.kind # "forged"
               PROVE  Evaluate(q) = "none" \/ (Evaluate(q) = "SIGNAL_JAMMING" /\ \E r \in Rows : Jammed(r))
    BY DEF HonestFlightIsQuiet
  <1>1. /\ q \in Seq(Row) /\ Len(q) \in Nat
        /\ \A k \in 1 .. Len(q) :
             /\ q[k] \in Rows /\ q[k] \in Row /\ q[k].packet \in Known
             /\ q[k].created \in Nat /\ q[k].packet.at \in Nat /\ q[k].packet.boot \in Int
             /\ q[k].packet.at <= q[k].created
             /\ Clock(q[k]) = q[k].packet.at - q[k].packet.boot
        /\ \A k, m \in 1 .. Len(q) : k < m => q[k].created <= q[m].created
    BY WindowFacts
  <1> HIDE DEF q
  <1>2. \A k, m \in 1 .. Len(q) :
          /\ q[k].packet.boot = q[m].packet.boot /\ q[k].created - q[k].packet.at <= MaxLead
          /\ Timed(q[k]) /\ q[k].packet.off = Nowhere
    <2>1. \A k \in 1 .. Len(q) : q[k].packet \in Known /\ q[k].packet.kind # "forged"
      BY <1>1
    <2>2. \A k \in 1 .. Len(q) : q[k].packet.off = Nowhere
      BY <2>1 DEF FlightInv, OneOdd
    <2> QED
      BY <1>1, <2>2 DEF OneBoot, Prompt, Dated
  <1>3. CASE ~(Len(q) > 1)
    <2>1. Len(q) < 2
      BY <1>1, <1>3
    <2> QED
      BY <2>1 DEF Evaluate
  <1>4. CASE Len(q) > 1
    <2>1. Len(q) \in 1 .. Len(q) /\ Len(q) - 1 \in 1 .. Len(q) /\ Len(q) - 1 < Len(q) /\ Len(q) - 1 \in 1 .. Len(q) - 1
      BY <1>1, <1>4
    <2>2. \A i \in Before(q) : /\ i \in 1 .. Len(q) /\ Clock(q[i]) < Clock(c)
                               /\ IntervalSeconds(q[i], c).base = "device"
                               /\ IntervalSeconds(q[i], c).dt = c.packet.at - q[i].packet.at
                               /\ c.packet.at - q[i].packet.at \in Nat
      <3> SUFFICES ASSUME NEW i \in Before(q)
                   PROVE  /\ i \in 1 .. Len(q) /\ Clock(q[i]) < Clock(c)
                          /\ IntervalSeconds(q[i], c).base = "device"
                          /\ IntervalSeconds(q[i], c).dt = c.packet.at - q[i].packet.at
                          /\ c.packet.at - q[i].packet.at \in Nat
        OBVIOUS
      <3>1. i \in 1 .. Len(q) /\ Clock(q[i]) < Clock(c)
        BY <1>1 DEF Before, Partners
      <3> QED
        BY <1>1, <1>2, <2>1, <3>1, PromptInterval
    <2>3. \/ \E i \in Before(q) : p = Paired(q[i], c, IntervalSeconds(q[i], c))
          \/ \E i \in After(q) : p = Paired(c, q[i], Interval(Clock(q[i]) - Clock(c), "device", "reordered"))
          \/ /\ Before(q) = {} /\ p = FallBack(s, c)
             /\ \A i \in After(q) : Clock(q[i]) - Clock(c) > MaxReorder
      <3>1. \/ ~Timed(c) /\ p = Paired(s, c, IntervalSeconds(s, c))
            \/ \E i \in Before(q) : p = Paired(q[i], c, IntervalSeconds(q[i], c))
            \/ /\ \/ Before(q) = {}
                  \/ \E i \in Before(q) : IntervalSeconds(q[i], c).base # "device"
               /\ \/ \E i \in After(q) : p = Paired(c, q[i], Interval(Clock(q[i]) - Clock(c), "device", "reordered"))
                  \/ /\ \A i \in After(q) : Clock(q[i]) - Clock(c) > MaxReorder
                     /\ \E o : /\ p = FallBack(o, c)
                               /\ \/ Before(q) = {} /\ o = s
                                  \/ \E i \in Before(q) : o = q[i]
        BY <1>1, <1>4, PairCases
      <3>2. Timed(c)
        BY <1>2, <2>1
      <3> QED
        BY <2>2, <3>1, <3>2
    <2>4. /\ \/ p.interval.dt = 0
             \/ /\ Checks(p) \subseteq {"satellite_loss"}
                /\ "satellite_loss" \in Checks(p) => Jammed(p.curr)
          /\ p.curr \in Rows
      <3>1. CASE \E i \in Before(q) : p = Paired(q[i], c, IntervalSeconds(q[i], c))
        <4>1. PICK i \in Before(q) : p = Paired(q[i], c, IntervalSeconds(q[i], c))
          BY <3>1
        <4>2. p.curr = c
          BY <4>1 DEF Paired
        <4>3. /\ Checks(p) \subseteq {"satellite_loss"}
              /\ "satellite_loss" \in Checks(p) => Jammed(c)
          <5>1. /\ q[i] \in Row /\ q[i].packet.off = Nowhere /\ c \in Row /\ c.packet.off = Nowhere
                /\ IntervalSeconds(q[i], c).dt \in Nat
                /\ c.packet.at - q[i].packet.at = IntervalSeconds(q[i], c).dt
            BY <1>1, <1>2, <2>1, <2>2
          <5> QED
            BY <4>1, <5>1, TrueRates
        <4> QED
          BY <1>1, <2>1, <4>2, <4>3
      <3>2. CASE \E i \in After(q) : p = Paired(c, q[i], Interval(Clock(q[i]) - Clock(c), "device", "reordered"))
        <4> DEFINE V(i) == Interval(Clock(q[i]) - Clock(c), "device", "reordered")
        <4>1. PICK i \in After(q) : p = Paired(c, q[i], V(i))
          BY <3>2
        <4>2. i \in 1 .. Len(q) /\ Clock(q[i]) > Clock(c)
          BY <1>1 DEF After, Partners
        <4>3. V(i).dt = q[i].packet.at - c.packet.at /\ V(i).dt \in Nat
          <5>1. /\ q[i].packet.boot = c.packet.boot /\ q[i].packet.boot \in Int
                /\ q[i].packet.at \in Nat /\ c.packet.at \in Nat
                /\ Clock(q[i]) = q[i].packet.at - q[i].packet.boot /\ Clock(c) = c.packet.at - c.packet.boot
            BY <1>1, <1>2, <2>1, <4>2
          <5>2. Clock(q[i]) - Clock(c) = q[i].packet.at - c.packet.at /\ q[i].packet.at - c.packet.at \in Nat
            BY <4>2, <5>1
          <5> QED
            BY <5>2 DEF Interval
        <4>4. p.curr = q[i]
          BY <4>1 DEF Paired
        <4> HIDE DEF V
        <4>5. /\ Checks(p) \subseteq {"satellite_loss"}
              /\ "satellite_loss" \in Checks(p) => Jammed(q[i])
          BY <1>1, <1>2, <2>1, <4>1, <4>2, <4>3, TrueRates
        <4> QED
          BY <1>1, <4>2, <4>4, <4>5
      <3>3. CASE /\ Before(q) = {} /\ p = FallBack(s, c)
                 /\ \A i \in After(q) : Clock(q[i]) - Clock(c) > MaxReorder
        <4> DEFINE v == IntervalSeconds(s, c)
        <4>1. /\ Timed(s) /\ Timed(c) /\ s.packet.boot = c.packet.boot
              /\ c.created - c.packet.at <= MaxLead
              /\ s.created \in Nat /\ s.packet.at \in Nat /\ s.packet.boot \in Int /\ s \in Row
              /\ c.created \in Nat /\ c.packet.at \in Nat /\ c.packet.boot \in Int /\ c \in Row
              /\ s.packet.at <= s.created /\ s.created <= c.created
              /\ Clock(s) = s.packet.at - s.packet.boot /\ Clock(c) = c.packet.at - c.packet.boot
          BY <1>1, <1>2, <2>1
        <4>2. ~(Clock(s) < Clock(c))
          BY <2>1, <3>3, <4>1 DEF Before, Partners
        <4>3. Device(s, c) <= 0
          BY <4>1, <4>2 DEF Device
        <4>4. v.dt = c.created - s.created /\ v.note = "device_clock_not_monotonic"
          BY <4>1, <4>3, IntervalCases DEF Arrival
        <4>5. \/ p = Paired(s, c, Declined)
              \/ p = Paired(s, c, v) /\ ~(v.dt < MinGap)
          BY <3>3, <4>4, FallBackCases DEF ClocksDisagree
        <4>6. p.curr = c
          BY <4>5 DEF Paired
        <4>7. CASE p = Paired(s, c, Declined)
          <5>1. p.interval.dt = 0
            BY <4>7 DEF Paired, Declined, Interval
          <5> QED
            BY <1>1, <2>1, <4>6, <5>1
        <4>8. CASE p = Paired(s, c, v) /\ ~(v.dt < MinGap)
          <5>1. ~(Clock(s) > Clock(c))
            <6> SUFFICES ASSUME Clock(s) > Clock(c) PROVE FALSE
              OBVIOUS
            <6>1. Len(q) - 1 \in After(q)
              BY <2>1, <4>1 DEF After, Partners
            <6>2. Clock(s) - Clock(c) > MaxReorder
              BY <3>3, <6>1
            <6>3. s.packet.at - c.packet.at > MaxReorder
              BY <4>1, <6>2, FlightConstants
            <6>4. c.created - s.created < MinGap
              BY <4>1, <6>3, ReorderedIsSmall
            <6> QED
              BY <4>4, <4>8, <6>4
          <5>2. c.packet.at = s.packet.at
            BY <4>1, <4>2, <5>1
          <5>3. v.dt \in Nat
            BY <4>1, <4>4
          <5>4. /\ Checks(p) \subseteq {"satellite_loss"}
                /\ "satellite_loss" \in Checks(p) => Jammed(c)
            <6> HIDE DEF v
            <6> QED
              BY <1>2, <2>1, <4>1, <4>8, <5>2, <5>3, TrueRates
          <5> QED
            BY <1>1, <2>1, <4>6, <5>4
        <4> QED
          BY <4>5, <4>7, <4>8
      <3> QED
        BY <2>3, <3>1, <3>2, <3>3
    <2> HIDE DEF p
    <2>5. p = Pair(q)
      BY DEF p
    <2> QED
      BY <1>1, <1>4, <2>4, <2>5, QuietVerdict
  <1> QED
    BY <1>3, <1>4

\* KinematicGuard.HonestFlightIsQuiet: _pair and _interval_seconds never turn the
\* order in which the packets of one boot arrive into an impossible rate.
THEOREM HonestQuiet == FlightSpec => []HonestFlightIsQuiet
  <1>1. FlightInv => HonestFlightIsQuiet
    BY HonestIsQuiet
  <1> QED
    BY <1>1, FlightHolds, PTL

LEMMA ForgedIsFlagged == ASSUME FlightInv PROVE ForgeryIsFlagged
  <1> DEFINE q == Recent(history)
             p == Pair(q)
             c == q[Len(q)]
             s == q[Len(q) - 1]
  <1> SUFFICES ASSUME Len(history) > 1, Last(history).packet.kind = "forged", OneBoot, Prompt,
                      NEW r \in Rows,
                      Last(history).packet.at - r.packet.at > 0,
                      Square((2 * Speed + SpeedError) * (Last(history).packet.at - r.packet.at))
                        < Square(Last(history).packet.off.x) + Square(Last(history).packet.off.y)
               PROVE  Evaluate(q) = "GPS_SPOOFING"
    BY DEF ForgeryIsFlagged
  <1>1. /\ q \in Seq(Row) /\ Len(q) \in Nat
        /\ \A o : o \in Rows <=> \E k \in 1 .. Len(q) : o = q[k]
        /\ \A k \in 1 .. Len(q) :
             /\ q[k] \in Rows /\ q[k] \in Row /\ q[k].packet \in Known
             /\ q[k].created \in Nat /\ q[k].packet.at \in Nat /\ q[k].packet.boot \in Int
             /\ q[k].packet.at <= q[k].created
             /\ Clock(q[k]) = q[k].packet.at - q[k].packet.boot
        /\ Len(q) > 1 /\ c = history[Len(history)]
    BY WindowFacts
  <1>2. Last(history) = c
    BY <1>1 DEF Last
  <1> HIDE DEF q
  <1>3. \A k, m \in 1 .. Len(q) :
          q[k].packet.boot = q[m].packet.boot /\ q[k].created - q[k].packet.at <= MaxLead
    BY <1>1 DEF OneBoot, Prompt
  <1>4. Len(q) \in 1 .. Len(q) /\ c \in Row /\ c.packet.kind = "forged" /\ Timed(c)
    BY <1>1, <1>2 DEF Timed
  <1>5. \A k \in 1 .. Len(q) : q[k].packet.at # c.packet.at => q[k].packet.kind = "true"
    BY <1>1, <1>4 DEF FlightInv, OneOdd
  <1>6. PICK k \in 1 .. Len(q) : r = q[k]
    BY <1>1
  <1> DEFINE d == c.packet.at - r.packet.at
             u == c.packet.off.x
             v == c.packet.off.y
  <1>7. /\ d \in Nat /\ d > 0 /\ r.packet.at # c.packet.at
        /\ Square((2 * Speed + SpeedError) * d) < Square(u) + Square(v)
    BY <1>1, <1>2, <1>4, <1>6
  <1>8. k \in Before(q)
    <2>1. k \in 1 .. Len(q) - 1
      BY <1>1, <1>6, <1>7
    <2>2. Timed(q[k]) /\ Clock(q[k]) < Clock(c)
      <3>1. q[k].packet.kind = "true"
        BY <1>5, <1>6, <1>7
      <3>2. /\ q[k].packet.boot = c.packet.boot /\ c.packet.boot \in Int
            /\ q[k].packet.at \in Nat /\ c.packet.at \in Nat /\ c.packet.at - q[k].packet.at > 0
            /\ Clock(q[k]) = q[k].packet.at - q[k].packet.boot /\ Clock(c) = c.packet.at - c.packet.boot
        BY <1>1, <1>3, <1>4, <1>6, <1>7
      <3> QED
        BY <3>1, <3>2 DEF Timed
    <2> QED
      BY <2>1, <2>2 DEF Before, Partners
  <1>9. \A i \in Before(q) : /\ i \in 1 .. Len(q) /\ Clock(q[i]) < Clock(c)
                             /\ IntervalSeconds(q[i], c).base = "device"
                             /\ IntervalSeconds(q[i], c).dt = c.packet.at - q[i].packet.at
                             /\ c.packet.at - q[i].packet.at \in Nat /\ c.packet.at - q[i].packet.at > 0
    <2> SUFFICES ASSUME NEW i \in Before(q)
                 PROVE  /\ i \in 1 .. Len(q) /\ Clock(q[i]) < Clock(c)
                        /\ IntervalSeconds(q[i], c).base = "device"
                        /\ IntervalSeconds(q[i], c).dt = c.packet.at - q[i].packet.at
                        /\ c.packet.at - q[i].packet.at \in Nat /\ c.packet.at - q[i].packet.at > 0
      OBVIOUS
    <2>1. i \in 1 .. Len(q) /\ Clock(q[i]) < Clock(c) /\ Timed(q[i])
      BY <1>1 DEF Before, Partners
    <2> QED
      BY <1>1, <1>3, <1>4, <2>1, PromptInterval
  <1>10. PICK i \in Before(q) : /\ \A j \in Before(q) : Clock(q[j]) <= Clock(q[i])
                                /\ p = Paired(q[i], c, IntervalSeconds(q[i], c))
    <2>1. \/ ~Timed(c) /\ p = Paired(s, c, IntervalSeconds(s, c))
          \/ \E i \in Before(q) : /\ \A j \in Before(q) : Clock(q[j]) <= Clock(q[i])
                                  /\ p = Paired(q[i], c, IntervalSeconds(q[i], c))
          \/ \/ Before(q) = {}
             \/ \E i \in Before(q) : IntervalSeconds(q[i], c).base # "device"
      BY <1>1, PairCases
    <2> QED
      BY <1>4, <1>8, <1>9, <2>1
  <1> DEFINE o == q[i]
             dt == c.packet.at - o.packet.at
  <1>11. /\ dt \in Nat /\ dt > 0 /\ dt <= d /\ o \in Row /\ o.packet.off = Nowhere
         /\ p.prev = o /\ p.curr = c /\ p.interval.dt = dt
    <2>1. i \in 1 .. Len(q) /\ dt \in Nat /\ dt > 0 /\ IntervalSeconds(o, c).dt = dt
      BY <1>9
    <2>2. p.prev = o /\ p.curr = c /\ p.interval = IntervalSeconds(o, c)
      BY <1>10 DEF Paired
    <2>3. Clock(q[k]) <= Clock(o)
      BY <1>8, <1>10
    <2>4. dt <= d
      <3>1. /\ Clock(q[k]) = r.packet.at - q[k].packet.boot /\ Clock(o) = o.packet.at - o.packet.boot
            /\ r.packet.at \in Nat /\ o.packet.at \in Nat /\ c.packet.at \in Nat /\ o.packet.boot \in Int
            /\ q[k].packet.boot = o.packet.boot
        BY <1>1, <1>3, <1>4, <1>6, <2>1
      <3>2. r.packet.at <= o.packet.at
        BY <2>3, <3>1
      <3> QED
        BY <3>1, <3>2
    <2>5. o.packet.at # c.packet.at
      <3>1. o.packet.at \in Nat /\ c.packet.at \in Nat /\ c.packet.at - o.packet.at > 0
        BY <1>1, <1>4, <2>1
      <3> QED
        BY <3>1
    <2>6. o \in Row /\ o.packet.off = Nowhere
      <3>1. o.packet.kind = "true" /\ o.packet \in Known /\ o \in Row
        BY <1>1, <1>5, <2>1, <2>5
      <3> QED
        BY <3>1 DEF FlightInv, OneOdd
    <2> QED
      BY <2>1, <2>2, <2>4, <2>6
  <1>12. Moved(p) = Square(Speed * dt + u) + Square(v) /\ u \in Int /\ v \in Int
    <2>1. p = Paired(o, c, IntervalSeconds(o, c))
      BY <1>10
    <2>2. c \in Row /\ o \in Row /\ o.packet.off = Nowhere
      BY <1>4, <1>11
    <2>3. u \in Int /\ v \in Int
      BY <2>2, RowTypes
    <2> DEFINE w == IntervalSeconds(o, c)
    <2> HIDE DEF w
    <2>4. Moved(Paired(o, c, w)) = Square(Speed * (c.packet.at - o.packet.at) + c.packet.off.x) + Square(c.packet.off.y)
      <3> HIDE DEF o, c
      <3> QED
        BY <2>2, MovedProperties
    <2> QED
      BY <2>1, <2>3, <2>4 DEF w
  <1>13. Speed \in Nat /\ SpeedError \in Nat
    BY FlightConstants
  <1> HIDE DEF dt, d, o, p, u, v
  <1>14. /\ Speed * dt \in Nat /\ (Speed + SpeedError) * dt \in Nat
         /\ Square(Speed * dt + (Speed + SpeedError) * dt) <= Square((2 * Speed + SpeedError) * d)
    <2> DEFINE k2 == 2 * Speed + SpeedError
    <2>1. Speed + SpeedError \in Nat /\ k2 \in Nat
      BY <1>13
    <2>2. Speed * dt \in Nat /\ (Speed + SpeedError) * dt \in Nat
      BY <1>11, <1>13, <2>1, TimesMonotone
    <2>3. Speed * dt + (Speed + SpeedError) * dt = k2 * dt
      BY <1>11, <1>13
    <2> HIDE DEF k2
    <2>4. k2 * dt <= k2 * d /\ k2 * dt \in Nat /\ k2 * d \in Nat
      <3>1. dt * k2 <= d * k2 /\ dt * k2 \in Nat /\ d * k2 \in Nat
        BY <1>7, <1>11, <2>1, TimesMonotone
      <3>2. dt * k2 = k2 * dt /\ d * k2 = k2 * d
        BY <1>7, <1>11, <2>1
      <3> QED
        BY <3>1, <3>2
    <2>5. Square(k2 * dt) <= Square(k2 * d)
      BY <2>4, SquareMonotone
    <2> QED
      BY <2>2, <2>3, <2>5 DEF k2
  <1>15. Moved(p) > Square((Speed + SpeedError) * dt)
    <2> DEFINE a == Speed * dt
               b == (Speed + SpeedError) * dt
               far == Square((2 * Speed + SpeedError) * d)
    <2>1. a \in Nat /\ b \in Nat /\ Square(a + b) <= far /\ far < Square(u) + Square(v) /\ Moved(p) = Square(a + u) + Square(v)
      BY <1>7, <1>12, <1>14
    <2>2. far \in Int
      BY <1>7, <1>13 DEF Square
    <2> HIDE DEF a, b, far
    <2>3. /\ Square(a + b) \in Int /\ Square(u) \in Int /\ Square(v) \in Int
          /\ Square(a + u) \in Int /\ Square(b) \in Int
      BY <1>12, <2>1 DEF Square
    <2>4. ~(Square(a + u) + Square(v) <= Square(b))
      <3>1. ~(Square(u) + Square(v) <= Square(a + b))
        BY <2>1, <2>2, <2>3
      <3> QED
        BY <1>12, <2>1, <3>1, Triangle
    <2>5. Moved(p) > Square(b)
      BY <2>1, <2>3, <2>4
    <2> QED
      BY <2>5 DEF b
  <1>16. "gps_airframe_speed_mismatch" \in Checks(p)
    BY <1>11, <1>15, ChecksProperties
  <1>17. p = Pair(q)
    BY DEF p
  <1>18. ~(Len(q) < 2) /\ ~(p.interval.dt <= 0)
    BY <1>1, <1>11
  <1> QED
    BY <1>16, <1>17, <1>18 DEF Evaluate, Classify

\* KinematicGuard.ForgeryIsFlagged: whatever the order the window was stored in,
\* the newest position is compared with the sample taken just before it, and a
\* displacement too long for the time between shows, whichever way it points.
THEOREM ForgeryFlagged == FlightSpec => []ForgeryIsFlagged
  <1>1. FlightInv => ForgeryIsFlagged
    BY ForgedIsFlagged
  <1> QED
    BY <1>1, FlightHolds, PTL
=============================================================================
