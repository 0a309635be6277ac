------------------------------ MODULE DroneFeed ------------------------------
(***************************************************************************)
(* The drones table, and the two that write it:                            *)
(*                                                                         *)
(*  - ingest (services/telemetry_service.py), one session per packet, which*)
(*    reads a drone's row, stamps last_seen and brings a silent drone back;*)
(*  - the heartbeat pass (services/heartbeat_service.py), one session for  *)
(*    the whole sweep, which marks drones silent past the threshold, has   *)
(*    the incident engine record each silence and reports what to tell.    *)
(*                                                                         *)
(* Neither locks the row.  An UPDATE writes the columns its session        *)
(* changed and, through the column's onupdate, last_seen when it did not   *)
(* set it.  The incident engine, modelled statement by statement in        *)
(* IncidentEngine, appears here by what it leaves: a drone's live incident.*)
(***************************************************************************)
EXTENDS Naturals, FiniteSets

CONSTANTS
  Drones,     \* drones, of any organization: the sweep crosses tenants
  Ingests,    \* sessions that store a packet
  Threshold,  \* SILENCE_THRESHOLD_SECONDS
  None,       \* no row, no packet, no pass
  MaxClock    \* bound: the last instant

ASSUME ConstantsAssumption ==
  /\ Threshold \in Nat
  /\ IsFiniteSet(Ingests)

VARIABLES
  clock,       \* seconds
  row,         \* row[d]: the drone's row, or None before its first packet
  live,        \* live[d]: its live incident: "none", "minor" or "major"
  ingest,      \* ingest[p]: the packet session p has read a row for, or None
  pass,        \* the heartbeat pass's session, or None
  heardAt,     \* history: when the drone's last packet was committed
  heardSince,  \* history: packets committed since the drone was marked silent
  recorded,    \* history: drones whose last silence an incident records
  dropped      \* history: drones whose last silence found its incident resolved

silences == <<recorded, dropped>>
ghosts == <<heardAt, heardSince, silences>>
vars == <<clock, row, live, ingest, pass, heardAt, heardSince, recorded, dropped>>

DroneRow == [status : {"ACTIVE", "SILENT"}, lastSeen : Nat]

\* A silence is recorded with score 90: an incident below that gets worse.
Live == {"none", "minor", "major"}

Session == [drone : Drones, known : BOOLEAN, silent : BOOLEAN, at : Nat]

\* `since` is the start of its current transaction, `marked` what it has changed
\* and not committed, `alerts` what it will return.
Pass == [phase : {"marking", "creating", "folding", "telling"},
         began : Nat, since : Nat, on : Drones \cup {None},
         todo : SUBSET Drones, marked : SUBSET Drones, alerts : SUBSET Drones]

ASSUME NoneAssumption == None \notin Drones \cup DroneRow \cup Session \cup Pass

TypeOK ==
  /\ clock \in Nat
  /\ row \in [Drones -> DroneRow \cup {None}]
  /\ live \in [Drones -> Live]
  /\ ingest \in [Ingests -> Session \cup {None}]
  /\ \A p \in Ingests : ingest[p] # None /\ ingest[p].known => row[ingest[p].drone] # None
  /\ pass \in Pass \cup {None}
  /\ pass # None =>
       /\ pass.phase \in {"creating", "folding"} => pass.on \in pass.marked
       /\ \A d \in pass.todo \cup pass.marked \cup pass.alerts : row[d] # None
  /\ heardAt \in [Drones -> Nat]
  /\ heardSince \in [Drones -> Nat]
  /\ recorded \subseteq Drones
  /\ dropped \subseteq Drones

Init ==
  /\ clock = 0
  /\ row = [d \in Drones |-> None]
  /\ live = [d \in Drones |-> "none"]
  /\ ingest = [p \in Ingests |-> None]
  /\ pass = None
  /\ heardAt = [d \in Drones |-> 0]
  /\ heardSince = [d \in Drones |-> 0]
  /\ recorded = {}
  /\ dropped = {}

Silent(d) == row[d] # None /\ row[d].status = "SILENT"

(***************************************************************************)
(* Ingest.                                                                 *)
(***************************************************************************)

\* process_telemetry's SELECT, and the clock it reads for last_seen.
BeginIngest(p) ==
  /\ ingest[p] = None
  /\ \E d \in Drones :
       ingest' = [ingest EXCEPT ![p] = [drone |-> d, known |-> row[d] # None,
                                        silent |-> Silent(d), at |-> clock]]
  /\ UNCHANGED <<clock, row, live, pass, ghosts>>

Heard(d) ==
  /\ heardAt' = [heardAt EXCEPT ![d] = clock]
  /\ heardSince' = [heardSince EXCEPT ![d] = IF row'[d].status = "SILENT" THEN @ + 1 ELSE 0]

\* Mutant: a packet stamps last_seen and leaves the status alone.
CommitIngestStampOnly(p) ==
  LET q == ingest[p] IN
  /\ q # None
  /\ q.known
  /\ row' = [row EXCEPT ![q.drone] = [@ EXCEPT !.lastSeen = q.at]]
  /\ heardSince[q.drone] <= Cardinality(Ingests)
  /\ Heard(q.drone)
  /\ ingest' = [ingest EXCEPT ![p] = None]
  /\ UNCHANGED <<clock, live, pass, silences>>

\* A known drone: last_seen, and ACTIVE only if the row read was not.
CommitIngest(p) ==
  LET q == ingest[p] IN
  /\ q # None
  /\ q.known
  /\ row' = [row EXCEPT ![q.drone] =
               [status |-> IF q.silent THEN "ACTIVE" ELSE @.status, lastSeen |-> q.at]]
  /\ Heard(q.drone)
  /\ ingest' = [ingest EXCEPT ![p] = None]
  /\ UNCHANGED <<clock, live, pass, silences>>

\* A drone not seen before: INSERT.
RegisterDrone(p) ==
  LET q == ingest[p] IN
  /\ q # None
  /\ ~q.known
  /\ row[q.drone] = None
  /\ row' = [row EXCEPT ![q.drone] = [status |-> "ACTIVE", lastSeen |-> q.at]]
  /\ Heard(q.drone)
  /\ ingest' = [ingest EXCEPT ![p] = None]
  /\ UNCHANGED <<clock, live, pass, silences>>

\* The commit fails and is rolled back: among others, another first packet of
\* the drone was committed meanwhile (uq_drones_org_drone_id).
FailIngest(p) ==
  /\ ingest[p] # None
  /\ ingest' = [ingest EXCEPT ![p] = None]
  /\ UNCHANGED <<clock, row, live, pass, ghosts>>

(***************************************************************************)
(* The heartbeat pass.                                                     *)
(***************************************************************************)
Overdue(d) ==
  row[d] # None /\ row[d].status = "ACTIVE" /\ row[d].lastSeen + Threshold < clock

\* The one SELECT of the sweep.
BeginPass ==
  /\ pass = None
  /\ pass' = [phase |-> "marking", began |-> clock, since |-> clock, on |-> None,
              todo |-> {d \in Drones : Overdue(d)}, marked |-> {}, alerts |-> {}]
  /\ UNCHANGED <<clock, row, live, ingest, ghosts>>

\* Mutant: the mark is committed before the incident is recorded.
MarkSilentAtOnce ==
  /\ pass # None /\ pass.phase = "marking"
  /\ \E d \in pass.todo, path \in {"creating", "folding"} :
       /\ path = "folding" => live[d] # "none"
       /\ pass' = [pass EXCEPT !.phase = path, !.on = d, !.todo = @ \ {d}, !.since = clock]
       /\ row' = [row EXCEPT ![d] = [status |-> "SILENT", lastSeen |-> pass.since]]
       /\ heardSince' = [heardSince EXCEPT ![d] = 0]
       /\ recorded' = recorded \ {d}
       /\ dropped' = dropped \ {d}
  /\ UNCHANGED <<clock, live, ingest, heardAt>>

\* The next drone: set its status, and let the engine look for a live incident,
\* which suppresses a new one unless it is older than the window.
MarkSilent ==
  /\ pass # None /\ pass.phase = "marking"
  /\ \E d \in pass.todo, path \in {"creating", "folding"} :
       /\ path = "folding" => live[d] # "none"
       /\ pass' = [pass EXCEPT !.phase = path, !.on = d, !.todo = @ \ {d},
                               !.marked = @ \cup {d}]
       /\ recorded' = recorded \ {d}
       /\ dropped' = dropped \ {d}
  /\ UNCHANGED <<clock, row, live, ingest, heardAt, heardSince>>

\* Mutant: an UPDATE that touches the row and leaves its status.
WriteMarksTouching ==
  /\ row' = [d \in Drones |-> IF d \in pass.marked
                              THEN [status |-> row[d].status, lastSeen |-> pass.since]
                              ELSE row[d]]
  /\ UNCHANGED <<heardAt, heardSince>>

\* A commit writes every status the session has changed, by primary key and
\* whatever the row has become; last_seen becomes now(), the transaction's start.
WriteMarks ==
  /\ row' = [d \in Drones |-> IF d \in pass.marked
                              THEN [status |-> "SILENT", lastSeen |-> pass.since]
                              ELSE row[d]]
  /\ heardSince' = [d \in Drones |-> IF d \in pass.marked THEN 0 ELSE heardSince[d]]
  /\ UNCHANGED heardAt

\* The engine's commit for the drone in hand; a new transaction follows.
Recorded(alerts) ==
  /\ WriteMarks
  /\ live' = [live EXCEPT ![pass.on] = "major"]
  /\ recorded' = recorded \cup {pass.on}
  /\ pass' = [pass EXCEPT !.phase = "marking", !.on = None, !.marked = {},
                          !.since = clock, !.alerts = @ \cup alerts]
  /\ UNCHANGED <<clock, ingest, dropped>>

\* A new SIGNAL_LOSS_JAMMING incident.
CreateSilence ==
  /\ pass # None /\ pass.phase = "creating"
  /\ Recorded({pass.on})

\* Folded into the live incident, and reported if that made it worse.
FoldSilence ==
  /\ pass # None /\ pass.phase = "folding"
  /\ live[pass.on] # "none"
  /\ Recorded(IF live[pass.on] = "minor" THEN {pass.on} ELSE {})

\* The incident was resolved meanwhile: the engine returns without a commit, the
\* mark waits for the next one.
DropSilence ==
  /\ pass # None /\ pass.phase = "folding"
  /\ live[pass.on] = "none"
  /\ pass' = [pass EXCEPT !.phase = "marking", !.on = None]
  /\ dropped' = dropped \cup {pass.on}
  /\ UNCHANGED <<clock, row, live, ingest, heardAt, heardSince, recorded>>

\* Mutant: no commit of its own.
CommitMarksNever ==
  /\ pass # None /\ pass.phase = "marking"
  /\ pass.todo = {}
  /\ pass' = [pass EXCEPT !.phase = "telling", !.marked = {}]
  /\ UNCHANGED <<clock, row, live, ingest, ghosts>>

\* "This carries the status changes for drones it did not write one for."
CommitMarks ==
  /\ pass # None /\ pass.phase = "marking"
  /\ pass.todo = {}
  /\ WriteMarks
  /\ pass' = [pass EXCEPT !.phase = "telling", !.marked = {}]
  /\ UNCHANGED <<clock, live, ingest, silences>>

\* heartbeat_pass: each organization on its own, so a send that fails loses its
\* own alert only.  Sent or failed, the pass is done with it.
TellSilence ==
  /\ pass # None /\ pass.phase = "telling"
  /\ \E d \in pass.alerts : pass' = [pass EXCEPT !.alerts = @ \ {d}]
  /\ UNCHANGED <<clock, row, live, ingest, ghosts>>

EndPass ==
  /\ pass # None /\ pass.phase = "telling"
  /\ pass.alerts = {}
  /\ pass' = None
  /\ UNCHANGED <<clock, row, live, ingest, ghosts>>

\* An exception or a crash: the uncommitted marks are rolled back, and what the
\* pass would have told goes with it.
FailPass ==
  /\ pass # None
  /\ pass' = None
  /\ UNCHANGED <<clock, row, live, ingest, ghosts>>

(***************************************************************************)
(* Everyone else.                                                          *)
(***************************************************************************)

\* Another detector raises or escalates an incident of the drone.
OtherDetection(d) ==
  /\ row[d] # None
  /\ \/ live[d] = "none" /\ live' = [live EXCEPT ![d] = "minor"]
     \/ live[d] # "major" /\ live' = [live EXCEPT ![d] = "major"]
  /\ UNCHANGED <<clock, row, ingest, pass, ghosts>>

\* An operator resolves it.
ResolveIncident(d) ==
  /\ live[d] # "none"
  /\ live' = [live EXCEPT ![d] = "none"]
  /\ UNCHANGED <<clock, row, ingest, pass, ghosts>>

Tick ==
  /\ clock < MaxClock
  /\ clock' = clock + 1
  /\ UNCHANGED <<row, live, ingest, pass, ghosts>>

PassStep ==
  \/ MarkSilent \/ CreateSilence \/ FoldSilence \/ DropSilence
  \/ CommitMarks \/ TellSilence \/ EndPass

Next ==
  \/ \E p \in Ingests :
       BeginIngest(p) \/ CommitIngest(p) \/ RegisterDrone(p) \/ FailIngest(p)
  \/ BeginPass \/ PassStep \/ FailPass
  \/ \E d \in Drones : OtherDetection(d) \/ ResolveIncident(d)
  \/ Tick

Spec == Init /\ [][Next]_vars

-----------------------------------------------------------------------------
\* No packet of the drone was committed in the threshold before the pass began,
\* nor since.
Unheard(d) == row[d] # None /\ heardAt[d] + Threshold < pass.began

\* A mark outlives the packets that were in flight when it was written, and no
\* other: a drone that goes on reporting is ACTIVE again.  (An in-flight packet
\* read ACTIVE, so it stamps last_seen and leaves the mark.)
MarkOutlivedByInFlightOnly ==
  \A d \in Drones : Silent(d) =>
    heardSince[d] + Cardinality({p \in Ingests : /\ ingest[p] # None
                                                 /\ ingest[p].drone = d
                                                 /\ ~ingest[p].silent})
      <= Cardinality(Ingests)

\* No mark is committed without the incident of its silence, wherever in the
\* sweep an exception, a crash or a commit for another drone falls: a drone that
\* is SILENT is not swept again, so nothing would make up for it.  Only a live
\* incident that is resolved under the sweep leaves a mark by itself.
MarkHasItsIncident == \A d \in Drones : Silent(d) => d \in recorded \cup dropped

\* An ACTIVE drone was last seen no later than its last packet was committed:
\* last_seen, which the pass's own UPDATE refreshes, never hides a silence.
ActiveWasHeard ==
  \A d \in Drones :
    row[d] # None /\ row[d].status = "ACTIVE" => row[d].lastSeen <= heardAt[d]

\* "Mark drones silent past the threshold": a pass that gets through leaves
\* every drone unheard since before its cutoff SILENT, whichever of its several
\* commits, or packets of other transactions, wrote the row last.
NoSilenceMissed ==
  [][CommitMarks => \A d \in Drones : Unheard(d) => row'[d].status = "SILENT"]_vars

(***************************************************************************)
(* What the code says of itself, refuted.                                  *)
(***************************************************************************)

\* "... and record an incident for each": a pass that gets through leaves every
\* such drone with its silence recorded in an incident.
EverySilenceRecorded ==
  [][CommitMarks => \A d \in Drones : Unheard(d) => d \in recorded]_vars
=============================================================================
