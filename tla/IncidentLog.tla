----------------------------- MODULE IncidentLog -----------------------------
(***************************************************************************)
(* What the incident engine promises the organization, without its threads, *)
(* locks and transactions: incidents are raised, get worse and are resolved *)
(* in single steps, and every change an operator must hear of is owed until *)
(* a frame that carries the incident as it then stands has been sent.       *)
(***************************************************************************)
EXTENDS Naturals, Sequences

CONSTANTS
  Drones,    \* (organization, drone_id) pairs
  Readings,  \* anomalous readings: [attack, score, severity]
  Bands,     \* severities, in order
  Window     \* seconds one incident stands for a drone

VARIABLES
  now,   \* seconds
  log,   \* the incidents, in the order they were raised
  owed,  \* incidents changed since operators were last told
  told,  \* the frames sent
  lost   \* incidents a frame of which failed

logVars == <<now, log, owed, told, lost>>

Init ==
  /\ now = 0
  /\ log = <<>>
  /\ owed = {}
  /\ told = {}
  /\ lost = {}

Frame(i, severity, attack) == [id |-> i, severity |-> severity, attack |-> attack]

\* One unresolved incident stands for its drone through its window.
Quiet(d) ==
  \A i \in DOMAIN log :
    log[i].drone = d /\ ~log[i].resolved => log[i].detectedAt + Window < now

\* A reading of a quiet drone: graded no lower than its detector says, dated
\* from an earlier instant, and owed to the operators.
Raise(d) ==
  /\ owed' = owed \cup {Len(log) + 1}
  /\ Quiet(d)
  /\ UNCHANGED <<now, told, lost>>
  /\ \E r \in Readings, severity \in Bands, at \in 0 .. now :
       /\ severity >= r.severity
       /\ log' = Append(log, [drone |-> d, severity |-> severity, score |-> r.score,
                              attack |-> r.attack, detectedAt |-> at, resolved |-> FALSE])

\* A worse reading of an incident: it takes the reading's score and label, its
\* severity does not fall, and a new severity or label is owed.
Worsen(i) ==
  /\ log'[i].score > log[i].score
  /\ log'[i].severity >= log[i].severity
  /\ \E r \in Readings, severity \in Bands :
       log' = [log EXCEPT ![i].score = r.score, ![i].attack = r.attack,
                          ![i].severity = severity]
  /\ owed' = IF log'[i].severity # log[i].severity \/ log'[i].attack # log[i].attack
             THEN owed \cup {i} ELSE owed
  /\ UNCHANGED <<now, told, lost>>

\* Once resolved, always resolved.
Resolve(i) ==
  /\ log' = [log EXCEPT ![i].resolved = TRUE]
  /\ UNCHANGED <<now, owed, told, lost>>

\* A frame carries a state the incident has been in; the debt is settled by the
\* one that leaves the present state among the frames sent.
Announce(i) ==
  /\ i \in owed
  /\ \E severity \in Bands, attack \in {r.attack : r \in Readings} :
       /\ severity <= log[i].severity
       /\ told' = told \cup {Frame(i, severity, attack)}
  /\ \/ owed' = owed
     \/ /\ owed' = owed \ {i}
        /\ i \in lost \/ Frame(i, log[i].severity, log[i].attack) \in told'
  /\ UNCHANGED <<now, log, lost>>

Lose(i) ==
  /\ i \in owed
  /\ lost' = lost \cup {i}
  /\ owed' \in {owed, owed \ {i}}
  /\ UNCHANGED <<now, log, told>>

Pass ==
  /\ now' = now + 1
  /\ UNCHANGED <<log, owed, told, lost>>

Next ==
  \/ \E d \in Drones : Raise(d)
  \/ \E i \in DOMAIN log : Worsen(i) \/ Resolve(i) \/ Announce(i) \/ Lose(i)
  \/ Pass

Spec == Init /\ [][Next]_logVars
=============================================================================
