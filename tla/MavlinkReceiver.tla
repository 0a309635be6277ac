---------------------------- MODULE MavlinkReceiver ----------------------------
(***************************************************************************)
(* services/mavlink_receiver.py of one process: the loop that connects,     *)
(* reads and stores, what it remembers of each drone, and the detection     *)
(* cycle it fires after every packet (services/detection_pipeline.py).      *)
(*                                                                         *)
(* The loop is one task: it connects and stores in a worker thread and      *)
(* waits for it, so it does one thing at a time; cycles run beside it.  The *)
(* endpoint is outside.  A connection to it may break, or go deaf: the far  *)
(* end is gone and every read still says that there is nothing to read.     *)
(***************************************************************************)
EXTENDS Naturals

CONSTANTS
  Systems,      \* MAVLink system ids
  Tasks,        \* bound: detection cycles at once
  NoPacket,     \* no packet is being stored
  MinDelay,     \* MIN_RECONNECT_DELAY
  MaxDelay,     \* MAX_RECONNECT_DELAY
  ConnectTime,  \* wait_heartbeat's timeout
  WriteTime     \* how long storing a packet may take

ASSUME ReceiverAssumption ==
  /\ {MinDelay, MaxDelay, ConnectTime, WriteTime} \subseteq Nat
  /\ 0 < MinDelay /\ MinDelay <= MaxDelay /\ NoPacket \notin [drone : Systems, low : BOOLEAN]

\* DB_POOL_TIMEOUT is 10 seconds, MAX_RECONNECT_DELAY a minute.
ASSUME WriteAssumption == WriteTime <= ConnectTime + MaxDelay

VARIABLES
  stream,    \* the protocol has connections (tcp), or not (udp)
  up,        \* the endpoint can be had
  since,     \* for how long it could, without the receiver reading from it
  conn,      \* mav_connection
  loop,      \* where _listen_loop is
  timer,     \* what is left of its wait
  hopeful,   \* the endpoint could be had since this attempt to connect began
  delay,     \* reconnect_delay
  known,     \* drone_states[d]["satellites"] is at least GUARD_MIN_SATELLITES
  heard,     \* the count the drone last sent this process
  packet,    \* the packet being stored
  rows,      \* the drone's two newest rows
  seen,      \* history: drones of which this process has stored a packet
  task,      \* detection cycles
  outcome    \* history: drones whose newest row a cycle has judged, or for
             \* which a cycle that would have seen that row failed or died

link == <<stream, up, since, conn, loop, timer, hopeful, delay>>
memory == <<known, heard, packet, rows, seen>>
cycles == <<task, outcome>>
receiverVars == <<link, memory, cycles>>

Counts == {"low", "good", "unknown"}  \* 255 satellites: unknown
Bound == 2 * ConnectTime + MaxDelay
Timeouts == 0 .. ConnectTime + MaxDelay

ReceiverTypeOK ==
  /\ stream \in BOOLEAN /\ up \in BOOLEAN /\ hopeful \in BOOLEAN
  /\ since \in 0 .. Bound + 1
  /\ conn \in {"none", "sound", "broken", "deaf"}
  /\ loop \in {"connecting", "sleeping", "reading", "writing", "ended"}
  /\ loop \in {"connecting", "sleeping"} => conn = "none"
  /\ timer \in Timeouts /\ delay \in MinDelay .. MaxDelay
  /\ known \in [Systems -> BOOLEAN]
  /\ heard \in [Systems -> Counts]
  /\ packet \in [drone : Systems, low : BOOLEAN] \cup {NoPacket}
  /\ packet # NoPacket <=> loop = "writing"
  /\ rows \in [Systems -> [stored : BOOLEAN, before : BOOLEAN, low : BOOLEAN,
                          heard : Counts, first : BOOLEAN]]
  /\ seen \subseteq Systems
  /\ task \in [Tasks -> [pc : {"idle"}] \cup [pc : {"asked", "fresh", "stale"}, drone : Systems]]
  /\ outcome \in [judged : SUBSET Systems, failed : SUBSET Systems]

NoRow == [stored |-> FALSE, before |-> TRUE, low |-> TRUE, heard |-> "unknown", first |-> TRUE]

ReceiverInit ==
  /\ stream \in BOOLEAN /\ up \in BOOLEAN /\ since = 0
  /\ conn = "none" /\ loop = "connecting" /\ timer = ConnectTime /\ hopeful = up
  /\ delay = MinDelay
  /\ known = [d \in Systems |-> FALSE]
  /\ heard = [d \in Systems |-> "unknown"]
  /\ packet = NoPacket
  /\ rows = [d \in Systems |-> NoRow]
  /\ seen = {}
  /\ task = [t \in Tasks |-> [pc |-> "idle"]]
  /\ outcome = [judged |-> {}, failed |-> {}]

-----------------------------------------------------------------------------
(***************************************************************************)
(* The loop.                                                               *)
(***************************************************************************)

\* The top of the loop without a connection: _connect, in a thread.
TryToConnect ==
  /\ conn' = "none"
  /\ loop' = "connecting" /\ timer' = ConnectTime /\ hopeful' = up

\* _connect returns True: the endpoint answered, or, without connections,
\* wait_heartbeat gave up quietly.
ConnectSucceeds ==
  /\ loop = "connecting"
  /\ up \/ ~stream
  /\ conn' = "sound" /\ loop' = "reading" /\ timer' = 0 /\ hopeful' = FALSE
  /\ delay' = MinDelay /\ since' = 0
  /\ UNCHANGED <<stream, up, memory, cycles>>

\* _connect raised, and the loop sleeps.
ConnectFails ==
  /\ loop = "connecting"
  /\ ~hopeful
  /\ loop' = "sleeping" /\ timer' = delay
  /\ UNCHANGED <<stream, up, since, conn, hopeful, delay, memory, cycles>>

\* Mutant: the delay grows without a ceiling.
WakeUncapped ==
  /\ loop = "sleeping" /\ timer = 0
  /\ delay' = 2 * delay
  /\ TryToConnect
  /\ UNCHANGED <<stream, up, since, memory, cycles>>

Wake ==
  /\ loop = "sleeping" /\ timer = 0
  /\ delay' = IF 2 * delay < MaxDelay THEN 2 * delay ELSE MaxDelay
  /\ TryToConnect
  /\ UNCHANGED <<stream, up, since, memory, cycles>>

\* Mutant: a new connection starts from an empty memory.
ReadFailsForgetting ==
  /\ loop = "reading" /\ conn = "broken"
  /\ TryToConnect
  /\ known' = [d \in Systems |-> FALSE]
  /\ UNCHANGED <<stream, up, since, delay, heard, packet, rows, seen, cycles>>

\* recv_match raises: the connection is given up.  close may raise too, and
\* nothing catches that: the task ends and nobody starts it again.
ReadFails ==
  /\ loop = "reading" /\ conn = "broken"
  /\ \/ TryToConnect
     \/ loop' = "ended" /\ UNCHANGED <<conn, timer, hopeful>>
  /\ UNCHANGED <<stream, up, since, delay, memory, cycles>>

Reading == loop = "reading" /\ conn = "sound" /\ up

\* GPS_RAW_INT: an unknown count is ignored.
Gps(d) ==
  /\ Reading
  /\ \E count \in Counts \ {"unknown"} :
       /\ heard' = [heard EXCEPT ![d] = count]
       /\ known' = [known EXCEPT ![d] = count = "good"]
  /\ UNCHANGED <<link, packet, rows, seen, cycles>>

\* GLOBAL_POSITION_INT: a packet with what is known of the drone, 0 satellites
\* until it has sent a count.
GlobalPosition(d) ==
  /\ Reading
  /\ packet' = [drone |-> d, low |-> ~known[d]]
  /\ loop' = "writing" /\ timer' = WriteTime
  /\ UNCHANGED <<stream, up, since, conn, hopeful, delay, known, heard, rows, seen, cycles>>

\* The rows of the packet's drone once it is stored.
Stored ==
  [rows EXCEPT ![packet.drone] =
     [stored |-> TRUE, before |-> rows[packet.drone].low, low |-> packet.low,
      heard |-> heard[packet.drone], first |-> packet.drone \notin seen]]

\* Cycles of d that have read its rows have not seen the new one.
Overtaken(d) ==
  [t \in Tasks |-> IF task[t].pc = "fresh" /\ task[t].drone = d
                   THEN [task[t] EXCEPT !.pc = "stale"] ELSE task[t]]

Unjudged(d) == [judged |-> outcome.judged \ {d}, failed |-> outcome.failed \ {d}]

Idle == {t \in Tasks : task[t].pc = "idle"}

\* Mutant: one cycle of a drone at a time is enough.
AskedOnce(d) ==
  IF \E t \in Tasks : task[t].pc # "idle" /\ task[t].drone = d THEN {Overtaken(d)}
  ELSE {[Overtaken(d) EXCEPT ![t] = [pc |-> "asked", drone |-> d]] : t \in Idle}

\* A cycle is fired for d.
Asked(d) == {[Overtaken(d) EXCEPT ![t] = [pc |-> "asked", drone |-> d]] : t \in Idle}

\* The packet is committed, and its cycle fired.
Commit ==
  /\ loop = "writing"
  /\ rows' = Stored
  /\ seen' = seen \cup {packet.drone}
  /\ task' \in Asked(packet.drone)
  /\ outcome' = Unjudged(packet.drone)
  /\ loop' = "reading" /\ timer' = 0 /\ packet' = NoPacket
  /\ UNCHANGED <<stream, up, since, conn, hopeful, delay, known, heard>>

\* Refused by validation or by the database: logged, and dropped.
DropPacket ==
  /\ loop = "writing"
  /\ loop' = "reading" /\ timer' = 0 /\ packet' = NoPacket
  /\ UNCHANGED <<stream, up, since, conn, hopeful, delay, known, heard, rows, seen, cycles>>

-----------------------------------------------------------------------------
(***************************************************************************)
(* The detection cycles.                                                   *)
(***************************************************************************)

\* _load_history: the newest rows, whichever packet asked.
Load(t) ==
  /\ task[t].pc = "asked"
  /\ task' = [task EXCEPT ![t].pc = "fresh"]
  /\ UNCHANGED <<link, memory, outcome>>

\* The detectors have judged the newest row of what was loaded.
Conclude(t) ==
  /\ task[t].pc \in {"fresh", "stale"}
  /\ task' = [task EXCEPT ![t] = [pc |-> "idle"]]
  /\ outcome' = IF task[t].pc = "fresh"
                THEN [outcome EXCEPT !.judged = @ \cup {task[t].drone}] ELSE outcome
  /\ UNCHANGED <<link, memory>>

\* run_detection logs what was raised, and ends.
FailCycle(t) ==
  /\ task[t].pc # "idle"
  /\ task' = [task EXCEPT ![t] = [pc |-> "idle"]]
  /\ outcome' = IF task[t].pc = "stale" THEN outcome
                ELSE [outcome EXCEPT !.failed = @ \cup {task[t].drone}]
  /\ UNCHANGED <<link, memory>>

-----------------------------------------------------------------------------
(***************************************************************************)
(* Outside.                                                                *)
(***************************************************************************)

\* The process dies, or is stopped, and another starts; a write in its thread
\* may still be committed, and nothing is fired for it.
Restart ==
  /\ TryToConnect
  /\ delay' = MinDelay /\ since' = 0
  /\ known' = [d \in Systems |-> FALSE]
  /\ heard' = [d \in Systems |-> "unknown"]
  /\ packet' = NoPacket
  /\ seen' = {}
  /\ rows' \in {rows} \cup (IF packet # NoPacket THEN {Stored} ELSE {})
  /\ task' = [t \in Tasks |-> [pc |-> "idle"]]
  /\ outcome' = [outcome EXCEPT !.failed = Systems]
  /\ UNCHANGED <<stream, up>>

\* The endpoint goes away: a connection to it breaks, or is deaf from now on.
EndpointFalls ==
  /\ up
  /\ up' = FALSE /\ hopeful' = FALSE /\ since' = 0
  /\ IF stream /\ conn = "sound" THEN conn' \in {"broken", "deaf"} ELSE UNCHANGED conn
  /\ UNCHANGED <<stream, loop, timer, delay, memory, cycles>>

EndpointReturns ==
  /\ ~up
  /\ up' = TRUE
  /\ UNCHANGED <<stream, since, conn, loop, timer, hopeful, delay, memory, cycles>>

\* What went deaf is known to be broken at last: a reset, a keepalive.
LossShows ==
  /\ conn = "deaf"
  /\ conn' = "broken" /\ since' = 0
  /\ UNCHANGED <<stream, up, loop, timer, hopeful, delay, memory, cycles>>

\* Nothing of the loop is due: a thread answers within its time, a sleep ends
\* on time, and the loop polls its connection.
Patient ==
  /\ loop \in {"connecting", "sleeping", "writing"} => timer > 0
  /\ ~(loop = "reading" /\ conn = "broken")

Waiting == up /\ conn \in {"none", "broken"} /\ since <= Bound

Elapse ==
  /\ Patient
  /\ timer' = IF timer > 0 THEN timer - 1 ELSE 0
  /\ since' = IF Waiting THEN since + 1 ELSE since
  /\ UNCHANGED <<stream, up, conn, loop, hopeful, delay, memory, cycles>>

ReceiverNext ==
  \/ ConnectSucceeds \/ ConnectFails \/ Wake \/ ReadFails
  \/ \E d \in Systems : Gps(d) \/ GlobalPosition(d)
  \/ Commit \/ DropPacket
  \/ \E t \in Tasks : Load(t) \/ Conclude(t) \/ FailCycle(t)
  \/ Restart \/ EndpointFalls \/ EndpointReturns \/ LossShows \/ Elapse

ReceiverSpec == ReceiverInit /\ [][ReceiverNext]_receiverVars

-----------------------------------------------------------------------------
(***************************************************************************)
(* Properties.                                                             *)
(***************************************************************************)

\* However the connection was lost, and however long the outage and its backoff
\* were, the receiver reads again within two attempts and the longest delay of
\* the endpoint's return.  A connection that is deaf, and a close that raised,
\* are the two losses it does not come back from.
ReturnsInTime ==
  up /\ loop # "ended" /\ conn \in {"none", "broken"} => since <= Bound

\* The fall of the satellite count that the guard takes for jamming is one the
\* drone has sent: no reconnection, unknown count or other drone makes one up.
\* The first packet after a restart does: its count is 0 until one is heard.
NoInventedLoss ==
  \A d \in Systems :
    rows[d].stored /\ rows[d].low /\ ~rows[d].before
      => rows[d].heard = "low" \/ rows[d].first

\* When the cycles of a drone are over, one has judged its newest row, although
\* each judges what it finds and not the packet that fired it: the newest row is
\* left unjudged only where a cycle failed that came after it, or a process died.
NewestIsJudged ==
  \A d \in Systems :
    rows[d].stored =>
      \/ d \in outcome.judged \cup outcome.failed
      \/ \E t \in Tasks : task[t].pc \in {"asked", "fresh"} /\ task[t].drone = d
=============================================================================
