# SwarmGuard AI: TLA+ models and proofs

SwarmGuard AI ingests drone telemetry over HTTP and MAVLink, judges every packet
(kinematic guard, geofence, ML models), files incidents, and relays telemetry
and incidents to operators' browsers over WebSockets. The backend
(`src/backend`) is FastAPI on several uvicorn workers, with PostgreSQL
(READ COMMITTED) and, optionally, Redis shared by the workers. This directory
models the parts of it whose correctness depends on interleaving, failure and
time, checks them with TLC on small instances, and proves the main safety
properties with TLAPS for every instance.

## 1. Inventory

| part | state | operations | interacts with | what is hard | what makes it correct |
|---|---|---|---|---|---|
| Incident engine (`services/incident_engine.py`, `alert_service.py`) | `incidents` rows | `record_detection`: suppress, create, fold, escalate | detection cycles, heartbeat, operators (same table) | one thread per packet; the advisory lock binds detectors only | one incident per window, no downgrade, every escalation told |
| Detection pipeline (`detection_pipeline.py`) | none between cycles | `run_detection`: load history, run detectors, record, broadcast | engine, guard, geofence, ML, WebSocket relay | cycles of one drone overlap; failure after the commit | a reading is recorded or its failure logged; frames say what is stored |
| Incidents router (`routers/incidents.py`) | incident status, audit rows | acknowledge, investigate, contain, resolve, close | engine (same rows, no lock) | read, validate, commit | every state is audited; the lifecycle moves forward |
| Background loops (`supervisor.py`) and pass claim (`leader.py`, `shared_store.py`) | `LoopState` per worker; a claim key in Redis | start, run, back off, respawn, stop, `stalled` | Redis, `/ready`, every pass | several workers, crashes, a store that comes and goes | one worker per claimed pass while Redis keeps the claim, no long gap, honest alarms |
| Heartbeat monitor (`heartbeat_service.py`) | `drones.status` | sweep, record, tell | ingest (same rows), engine, relay | one SELECT, several commits | every silence is marked, recorded and told; a reporting drone is ACTIVE |
| Telemetry ingest (`routers/telemetry.py`, `telemetry_service.py`, `mavlink_receiver.py`) | `drones`, `telemetry_logs`, the receiver's connection | upsert drone, store packet, broadcast, detect | heartbeat, pipeline, device credentials | two sessions on one row, first packets, reconnects | no lost mark; the link comes back |
| Kinematic guard (`kinematic_guard.py`, `ingest_staleness.py`), geofence (`geofence_service.py`) | none (pure over a window of packets) | `evaluate`, `check` | pipeline | reordered packets, reboots, missing clocks | a pair is never measured over a wrong interval |
| WebSocket relay (`ws_manager.py`) | sockets and listeners per organization | connect, disconnect, broadcast, relay | broker, handshake | awaits between read and write of the registry | each frame once per socket, no organization without a listener |
| Handshake (`ws_tickets.py`, `routers/websocket.py`) | spent tickets | issue, redeem, ping | Redis, accounts | two redemptions at once; expiry noticed on a ping | a ticket opens one socket while its mark is kept |
| WebSocket client (`frontend/src/services/websocket.ts`) | one socket, timers | connect, retry, heartbeat, disconnect | handshake | re-entry across awaits | one socket, and it retries |
| Accounts (`routers/users.py`, `auth.py`, `auth_middleware.py`) | users, `token_version` | login, change role, disable, delete, change password | every route | concurrent administrators | no lock-out; a revoked token stays revoked |
| Commands, devices, settings (`routers/…`) | command requests, device keys, one settings row | request/approve, issue/revoke, first use | accounts, ingest | two requests of one row | one decision, one row |
| Admission and pools (`middleware/admission.py`, `config.py`, `database.py`) | semaphore, connection pool | admit, wait, refuse, release | every request, background threads | holding one resource while waiting for another | never everyone waiting on everyone |

The parts that are not modelled, and why, are in section 7; the complete list,
with the hazards of each at their lines, is in `PROJECT.json`.

## 2. Modules

| module | what it is |
|---|---|
| `IncidentEngine` | the incident table, detection cycles and operator requests |
| `IncidentLog` | what the engine promises, without threads, locks or transactions; `IncidentEngine` implements it |
| `SupervisedPass` | one background pass as all workers run it, with its claim in Redis |
| `DroneFeed` | the drones table, ingest and the heartbeat sweep |
| `MavlinkReceiver` | the receiver's connection, what it remembers, and the cycles it fires |
| `KinematicGuard` | the staleness check, the choice of two samples and their interval, the verdict |
| `Admission` | the admission limit, the threads and the connection pool of one worker process |
| `Accounts` | users, tokens, sign-in and administration |
| `TenantRecords` | a device credential, a command request and the settings row |
| `Handshake` | tickets, the spent marks, and a socket until its session expires |
| `WsRelay` | one worker's sockets, listeners and broadcasts |
| `WsClient` | the telemetry sockets of one browser page |
| `MC<module>` | the instance of each run |
| `<module>Proofs` | theorems about `IncidentEngine`, `Accounts`, `TenantRecords`, `Handshake`, `WsRelay`, `WsClient` |
| `WorkerProofs` | theorems about what the worker processes share: `SupervisedPass` and `Admission` |
| `IngestProofs` | theorems about the way in of a packet: `DroneFeed`, `MavlinkReceiver` and `KinematicGuard` |

How they fit together: `DroneFeed`'s sweep is the work of a `SupervisedPass`, and each
silence goes through `IncidentEngine`, of which it keeps only what the sweep can
tell apart (whether the drone has a live incident and whether a silence makes it
worse). `MavlinkReceiver` and `DroneFeed`'s ingest fire the cycles of
`IncidentEngine`, whose reading is what `KinematicGuard` (among other detectors)
concludes. `WsRelay` carries the frames `IncidentEngine` hands over, to sockets
that `Handshake` opened for `WsClient`; `Accounts` is where the `token_version`
comes from that a handshake compares.

### IncidentEngine

One action is one SQL statement or one commit. A cycle walks
`BeginDetection`, `AcquireLock` (`pg_advisory_xact_lock`), `CheckSuppression`
(`process_alert`), then `CreateIncident`, or `LoadLive` and `UpdateIncident`
(`_update_existing_incident`), `RefreshIncident` (`db.refresh` after the
commit) and `BroadcastIncident`. `FailDetection` and `FailBroadcast` stand for an
exception or the process's death before and after the commit. A request is
`LoadIncident` (read and validate) and `CommitWalk` (status, audit rows and
`resolution_time` in one transaction), or `FailRequest`. An UPDATE writes only
the columns its session changed, as SQLAlchemy does, so a cycle and an operator
never overwrite each other's columns, and a status read by one may be stale
when it commits. A score is a number of 0..100, a severity its rank, a lifecycle state its
position. `declared` and `checkedAt` are history: no action reads
them. An incident's audit trail is a bag of hops. The rows are read in the order of
`created_at` (`incidents.py:364`), which is the start of the transaction that wrote them
(`models.py:205`), and their ids follow the flush: neither is the order of the commits, so
nothing a reader of the table can compute tells which of two racing walks committed last.

`IncidentLog` is the same table with one step per promise: `Raise`, `Worsen`,
`Resolve`, `Announce`, `Lose`. Under `Log`'s refinement mapping an incident forgets its
lifecycle but for the resolution, and it is *owed* to the operators while some
cycle has committed it and not yet published it.

Left out: priority, recommendation, explanation and evidence (data no property
reads), `assign_incident` (one column nothing else reads), and what the
detectors conclude, which is an input: any reading of `Readings`.

### SupervisedPass

`loop[w]` is what worker `w`'s task does. `RunClaimed`, `RunUnclaimed` and `Skip`
are the three outcomes of `guarded()`; `Succeed`, `Fail` and `Escape` those of the work;
`Respawn` is `_on_task_done`; `Start`, `Stop` and `Crash` are the process's.
`SET NX EX` is one step, the key's expiry is `claimLeft`, and `client[w]` is what
`redis_client` found at its first use, which it keeps for good. Redis as it is deployed saves
nothing and evicts keys that expire (`docker-compose.yml:89-108`), so it may forget a claim
at any time (`StoreForgets`), up or down; and a SET whose answer was lost may have been done
(`RunUnclaimed`). `lost` is history: running passes whose claim was forgotten under them. Time is kept as
ages and remaining waits, so no clock needs a bound: an age stops growing at
its horizon, past which nothing tells it apart (`TimesAssumption`
says how large the horizons must be; `DoneHorizon` is 0 in `supervised_pass`, none of
whose properties looks at `sinceDone`).

`_on_task_done` also leaves alone a task that was cancelled while the supervisor runs;
nothing in the program cancels one, so that path has no action.

### DroneFeed

An ingest session is `BeginIngest` (the SELECT and `datetime.now()`) and
`CommitIngest` or `RegisterDrone` or `FailIngest`. The sweep is one session:
`BeginPass` is its SELECT; `MarkSilent` takes the next drone; `CreateSilence` and
`FoldSilence` are the engine's commits, each of which writes every mark set so
far; `DropSilence` is the engine returning nothing; `CommitMarks` is the sweep's own
commit; `TellSilence` the broadcast. A commit writes `SILENT` by primary key,
whatever the row has become, and `last_seen` becomes `now()`, the start of the
transaction, because the column has `onupdate` (`models.py:156`).
`SAFE_MODE`, which the sweep also selects, is never written by the program.

One sweep runs at a time, which is `ClaimedPassesExclusive` while Redis answers and keeps
the claim. Sweeps of two workers without Redis, or after it forgot a claim, are not modelled here.

### Admission

`slots` is the value of the `asyncio.Semaphore`; `at[r]` is where a request is. The
semaphore hands a slot to a waiter (`Hand`) before the waiter resumes (`Enter`), so
a wait that times out in between gives it back (`GiveBack`). Inside, a request is a
number of thread hops (authentication, permission, endpoint) and, for an
ingest, the detection that the call waits for: `TakeThread`, `AskConnection`,
`Checkout`, `EndHop`, `Detect`, `Leave`. Between hops the session keeps its
connection or, after a commit, has returned it. A background thread is
`Begin`, `CheckoutJob`, `EndJob`, whatever pass or packet it works for. Sockets take
one hop at the handshake and no slot. `TimeOut` and its like are `DB_POOL_TIMEOUT`.

What the queries do is left out, and so is the order in which the limiter, the
executor and the pool serve their waiters: any order.

### MavlinkReceiver

One process's `_listen_loop`, its `mav_connection` (sound, broken, or deaf: the far end
is gone and reads still find nothing), the backoff, the write of a packet in a
worker thread, the satellite count remembered per drone, and the cycle fired
after each packet. `since` and `timer` are remaining and elapsed times, so no
clock needs a bound. `wait_heartbeat` returns `None` at its timeout and the code
goes on as connected; over UDP every attempt connects. The task is not
supervised: it ends for good when `close()` raises. Left out: battery, mode and
armed state, which are copied; and several workers (each starts a receiver of
its own, and nothing is shared but the table).

### KinematicGuard

One drone flies straight within its envelope; its packets arrive late and out of
order. `Receive` begins the request's transaction, whose start `created_at` will be, with the
SELECT that authenticates the device (`telemetry.py:81`); `Check` is the staleness check,
later (`telemetry.py:136`); `Store` the insert, later again. Others may be stored in between:
`overtaken` is history and says how far a packet had come when that happened. `Recent` is `_load_history`, `Pair` the choice of the two samples,
with the device clock where it may be trusted and `created_at` otherwise, `Evaluate`
the four checks and their order. Positions lie in a plane, a forged one is off in any
direction, and rates are compared without dividing and distances by their squares, so a
wrong verdict on an honest flight is a wrong pair or a wrong interval. The haversine distance, the units and the wording of the verdict are left out.

### Accounts

A request is `Begin` (authenticate), `Load` (the SELECT of the account it acts on) and
`Commit` (an UPDATE or DELETE by primary key of values computed from what was
read): `token_version` is read, incremented in Python and written back. `revoked`
and `overtaken` are history.

### TenantRecords

Three rows that are read, decided from and written back without a lock, in one module
because they share that shape and their requests. `beside` is history: who was between
read and commit when the row changed.

### Handshake

`Issue`, then `Verify`, the claim (`ClaimInRedis`: one SET NX; or `LookHere` and `AddHere`, the
two statements on the worker's own set), `Resolve` to an account, `Ping` until the
session expires. `TryStore` and `StoreAnswers` are the first use of the Redis client, whose
`_tried` flag is set before the answer is known: a second thread in that window uses
the worker's own set, and the first one Redis. A Redis that answered once may fail later
(`ClaimFails`: the call raises, the ticket is marked or not, and the handshake ends), and loses
marks as it loses claims (`Forget`). `claims` is history: where a handshake spent its ticket, in
a race or not, and whether Redis has lost that mark since. The token version of an open socket is
not looked at again, and `_resolve_user` does not test `is_active`; the model does neither.

### WsRelay

Code between two awaits is one action. `Connect` registers the socket and, with the broker
already connected, starts the listener at once; otherwise `Join` follows the await.
`Subscribe`, `Relay`, `SubscriptionEnds` are the listener task; `Publish`,
`PublishElsewhere` and `BroadcastLocally` the three ways of a broadcast; `SendLocal` drops the sockets
whose send fails. `ghosts` is history: organizations whose first sockets raced, or
missed the broker, and frames a raising publish sent twice over.

### WsClient

One callback is one action. The methods of `TelemetrySocket` are functions of its
fields (`Connect`, `ScheduleReconnect`, `Disconnected`, `Opened`, `Closed`) and the actions
apply them; `Mount`, `Unmount` and `Reconnect` are the provider's. `effect` is the socket the provider's
effect closed over: its cleanup disconnects that one (`WebSocketContext.tsx:87-96`), also when
`reconnect()` has replaced it (`:108`). `orphans` is history: sockets disconnected while
their ticket was in flight, which the ticket's failure revives, and replacements that the
cleanup left running.

## 3. Runs

Every run finishes within four minutes on two cores.

| run | instance | shows |
|---|---|---|
| `incident_detection` | 2 cycles, 1 operator who resolves, 1 drone, 3 readings, window 0, clock to 1, 2 rows | `OneIncidentPerWindow`, `EveryEscalationAnnounced`, and that the engine implements `IncidentLog` (`ImplementsLog`) |
| `incident_requests` | 2 cycles, 2 operators who acknowledge or resolve, 3 readings, 1 row, no clock, `FairSpec` | `StatusIsAudited` and `EveryCycleEnds` |
| `supervised_pass` | 2 workers, interval 3, claim 2, back-off 1 to 4, a pass of 1, a Redis that fails and forgets | `ClaimedPassesExclusive`, `PassGapBounded`, `NoFalseAlarm` |
| `drone_feed` | 2 drones, 2 ingest sessions, threshold 0, clock to 2 | `MarkOutlivedByInFlightOnly`, `MarkHasItsIncident`, `ActiveWasHeard`, `NoSilenceMissed` |
| `admission` | 3 requests of at most 2 hops, 1 handshake, 1 background thread; 2 slots, no reserve, 3 connections, 2 worker threads; `FairSpec` | `NoSlotLost`, `CheckoutNeverWaits`, `NoStandoff`, `EveryRequestAnswered` |
| `accounts` | 2 users, 2 requests, 2 versions, 2 tokens, 1 account created | `RevokedStaysRevoked`, `TokenRoleIsCurrent`, `LockoutNeedsARace` |
| `tenant_records` | 3 requests, 4 threshold values | `RevocationStands`, `DecisionNeedsARace`, `OneSettingsRow`, `InvertedOnlyByRace` |
| `handshake` | 2 workers, 3 handshakes, 1 ticket, clock to 2, a Redis that fails and forgets | `OneSocketPerTicket` |
| `ws_relay` | 2 sockets of one organization, 1 of another, 1 frame, a broker that comes and goes; `FairSpec` | `TenantIsolation`, `AtMostOnce`, `Served`, `EveryEventRelayed` |
| `ws_client` | 3 sockets of one page, 1 retry each; `FairSpec` | `NoFeedLeftBehind`, `OneAttempt`, `ShownIsTheFeed`, `FeedSettles` |
| `kinematic_guard` | 3 samples over 5 ticks, 1 reboot, 2 in ingest at once, a window of 3, 3 displacements | `HonestFlightIsQuiet`, `ForgeryIsFlagged`, `DeclinedWasRefused`, `RefusedIsLate` |
| `mavlink_receiver` | 1 drone, 2 cycles, delays 1 to 4 | `ReturnsInTime`, `NoInventedLoss`, `NewestIsJudged` |

### Bounds, and why they are enough

*IncidentEngine.* The advisory lock and every query are per drone, so one drone
shows all interference. Two cycles are the least that race, and the lock
admits one at a time. Two rows are needed for a second incident after the first
was resolved or its window passed; one second of the clock is longer than the
window, and an instant on the cutoff is still inside it.  Where there is one row
(`incident_requests`) no cycle begins once it exists, so at most one of the two
folds while both operators walk. The readings
hold one graded above its score, one past every band under another label, and
one below both: escalation by severity, by label, by neither. `MaxTrail` refuses
requests on an incident of which some hop was audited twice, which happens only because
racing walks can go back.
Every bound is a guard on something that *begins*; what has begun always may finish.

*SupervisedPass.* The times keep the order the heartbeat monitor's have: claim below
interval, pass below claim, and a back-off that doubles past the interval (4 against 3, as
`supervisor.py:51`'s 60 seconds against the monitor's 10). Two workers are enough for one
to defer to, outlive or overlap with another. Deadlock is checked: the system never stops.

*DroneFeed.* One unit of the clock is longer than the threshold; two are a
silence, a sweep that outlasts it and a second silence. Two drones make the
sweep commit one drone's mark with another's incident; two sessions make packets of one drone
cross.

*Admission.* One request more than the slots, so one queues; one handshake more
than the reserve and fewer threads than clients, so threads and connections both
run out: every state the deadlock of 2026-09-22 went through is reached, short
of the deadlock. Two hops are a connection held across one. Deadlock is checked:
requests keep arriving. Nothing is symmetric in a run with a liveness property.

*Accounts.* Requests interfere in pairs, and a pair of users is what an administrator
needs to lose the role to another. Two changes of one account are the least that lose an
increment; one creation reuses a deleted name.

*TenantRecords.* Three requests: one that has read, one that overtakes it, one that comes
after. Four values leave room for two bands to move and cross.

*Handshake.* Two workers, of which one can hold two of the three handshakes: the same
set and different sets. A claim may take as long as the ticket lives and as long as the
slack, the boundary case of `SlackAssumption`; the clock reaches the session's end and the
end of a spent mark. Redis may fail or forget at any time.

*WsRelay.* Two sockets of one organization race for its listener and leave in either
order, the third belongs to another organization. One frame is enough, because frames do not
interact.

*WsClient.* One socket owned, one let go, one orphaned. One retry is both the first and the
last one.

*KinematicGuard.* Three packets, all in the window: the newest, and a neighbour on each side of it in the
order of the device clocks. A delay of up to four ticks is longer than the reorder slack and
than the clock's lead; a reboot leaves a clock far below its predecessor's. A forged position is
off aside and behind, by more than a tick or two of flight could make up for, or as far behind as
leaves one tick's implied speed what it was (which the guard cannot tell, and
`ForgeryIsFlagged` does not promise). That the window moves on
is not in the run: the theorems hold for a window of any length and any number of samples.

*MavlinkReceiver.* The back-off doubles twice before its cap. Two cycles see the table before and
after each other. Drones share only the loop, and an instance with two (9 million
states, too long for a regular run) gave the same result. The times `ReturnsInTime` adds up are the
loop's own: what `mavlink_connection` takes to connect or retry over TCP, and a statement that
the database does not answer, are outside them.

Where deadlock is not checked, the bounds end every behaviour, or the system may stop
(every socket closed, the receiver's task ended, the flight over).

### Fairness

Fairness is of what the runtime schedules: a thread that runs, a task that can run, a timer
that is set, a request the library bounds with a time-out. None is assumed of
arrivals, of operators, of failures, of the network's outages, or of the clock.

- `incident_requests`: `WF(DetectionStep(w))`, a thread that has begun a statement finishes
  it; `SF(AcquireLock(w))`, PostgreSQL queues the waiters of an advisory lock, so a waiter is not
  overtaken for ever.
- `admission`: strong fairness of each request's, handshake's and background
  thread's own steps: the thread limiter, the executor and the pool each serve their
  waiters in the order they came. None of `Hand` or of any time-out: an answer
  may not depend on one.
- `ws_relay`: `WF(Relay(s))` and `WF(Join(s))`, a task that can run is run by the event loop.
- `ws_client`: weak fairness of a ticket's answer, of the timer, of the heartbeat's staleness
  check, and of the browser reporting the end of an attempt or of a close. A mute connection
  reports nothing: only the heartbeat finds it.

## 4. What is proved

The proofs are for any number of drones, cycles, operators, workers and
readings, any times that satisfy the assumptions, and any value of the
bounds.

*IncidentEngineProofs.* `TypeCorrect`: `Spec => []TypeOK`. `Consistency`:
`Spec => []Consistent`, from which `WindowHolds` (`OneIncidentPerWindow`) and
`Monotone` (`NeverDowngraded`). Neither is inductive alone. `Consistent`
adds what makes them so: a cycle between check and commit holds its drone's lock
(`LockHeld`); an incident leaves the live statuses only through RESOLVED, and a
request that read it resolved stays right about that (`NotLiveIsResolved`), so the
racing walks that move a status *back* cannot make an unresolved incident
invisible to the suppression check; what the check concluded still holds at the
INSERT (`CheckHolds`); and the row being folded into is still the row that was
read (`SeenIsFresh`). The argument is one lemma per statement of the cycle and of
the request (`CheckSuppressionStep`, `CreateIncidentStep`, ...), with `QuietStep`
for the steps that write no row.

On `Consistent` rest three more results. `Announcements` (`EveryEscalationAnnounced`) needs `Telling`:
a cycle looked no later than now (`Dated`), a frame about to be sent carries a severity its
incident has had (`Carried`), and the latest severity and label of every row are in a frame, or about to be
sent by a cycle that will read them, or a failure to send them was logged (`Announced`). `Audit`
(`StatusIsAudited`) needs that a request walks forward and that the status it read is accounted for by the rows
(`Forward`): then the rows of its walk, added to those of the incident as it is now, account for the walked incident,
and a row fallen behind its trail is one of which some hop was recorded twice (`WalkAudited`, `LongerEntered`). `Refinement` states that `Spec` implements `IncidentLog`
(`ImplementsLog`): one lemma per step the log sees (`RaiseStep`, `WorsenStep`, `ResolveStep`,
`AnnounceStep`, `LoseStep`); every other step stutters.

*WorkerProofs, SupervisedPass.* `PassTypeCorrect`, then `Timely`: `PassSpec => []Timing`, and from
it `Exclusive`, `GapBounded` and `AlarmIsTrue`, for any back-off cap. `Timing` is the sum the three
properties cannot see: the remaining life of a claim that Redis has not lost exceeds what
remains of the pass it was taken for; the claim key is no older than the last pass begun; what
remains of each wait ends before the gap's bound, which for a worker whose work raised is a pass
and the back-off's cap; a loop that has not failed ticks within an interval and a pass.

*WorkerProofs, Admission.* `TypeCorrect` carries who may hold a connection at which stage.
With it `NoSlotLost` is inductive (`SlotStep`: a request joins or leaves the admitted
exactly when a slot is taken or returned), which gives `SlotsKept`. The other two are its consequences in every
state: `NeverWaits`, because whoever holds or asks for a connection is admitted, in the
background or shaking hands (`Users`, `PoolFits`), and `NoDeadlock`, because the pool is
larger than the limit, so that when it is empty a background thread or a
handshake holds a connection, and neither waits for anything while it does (`SomeoneWorks`).

*AccountsProofs.* `IInv`: no token, and nothing a request has read, is ahead of its account's
version, and at the same version it carries the account's role (`TokensBehind`, `ReadsBehind`);
primary keys only grow, so a recreated account is never taken for the deleted one
(`KeysGivenOut`). `Revocation`, `RoleCurrent`, and `Lockout`, an action property: the last administrator is
lost only to a request whose author no longer is one.

*TenantRecordsProofs.* `IInv`: what a request at work has read is still so, or the row was changed beside
it (`ReadsHold`). `Revocation`, `Decision`, `SettingsUnique`, `BandsOrdered`.

*HandshakeProofs.* `IInv`: a spent ticket is marked in the store it was spent in, in Redis for longer than any claim
that verified it may still take unless Redis lost the mark (`InTime`, `Marked`, with `SlackAssumption`). `SpentOnce`.

*WsRelayProofs.* `IInv`: listeners, registered sockets and queued frames belong to their organization
(`Owned`); one first socket at a time, but for a race (`Firsts`); a frame that waits in a queue has
reached nobody (`Unsent`). `Isolation`, `DeliveredOnce`, `ListenerServes`. That no listener, running or registered,
outlives the sockets of its organization is `ListenerRemoved`, from `Kept`: a registered socket is at a
handler that has not ended, so the drop that empties the registry finds the listener and ends it (`KeptDropped`).

*WsClientProofs.* `IInv`: a socket that was let go, and is no orphan, is at rest (`LetGo`), whichever socket the
effect's cleanup disconnects.
`AttemptsExclude`, `FeedsLetGo`, `Shown`; one lemma per method of the class.

*IngestProofs, DroneFeed.* `FeedTypeCorrect`, in which a packet that knew a drone's row, or a sweep that has
the drone in hand, finds it there. `MarksEnd`: the sessions that read a drone ACTIVE before it was marked (`Blind`)
are all that a mark outlives, so each that commits leaves one fewer (`MarksStep`; the argument is about the cardinality
of that set). `MarkRecorded` (`MarkHasItsIncident`) rests on `MarksCovered`: a mark that is set and not yet committed
belongs to a drone the engine had nothing for, or to the one whose incident the same commit writes. The other two rest on `Swept`: no row is stamped ahead of the clock (`InTheDay`), an
ACTIVE row was stamped by a packet (`ActiveWasHeard`), and a drone that was due at the sweep's SELECT and not heard from
since is still in the sweep's hands, or marked by it (`UnheardInHand`). The last clause is what a commit in the
middle of the sweep could break, because it writes every mark set so far and stamps `last_seen` as it does. From it
follow `ActiveHeard` and, for the step that ends the sweep, `SweepComplete`.

*IngestProofs, MavlinkReceiver.* `ReceiverTypeCorrect`. `Returns` needs `InBudget`: what is left of the bound at each
stage of the loop, split over an attempt that began before the endpoint came back, one longest
delay and one attempt that finds it. `LossIsReal` needs `Remembered`: what the process remembers of a drone's satellites is
what the drone last sent it, and a drone it has only packets of shows none. `NewestJudged` is inductive with the types.

*IngestProofs, KinematicGuard.* `FlightInv` adds five parts to the types. `InFlight`: packets are conserved, which bounds what is
stored. `Stamped`: nothing is stamped ahead of time. `OneOdd`: at most one packet is not honest. `CheckHolds`: a packet that
nothing overtook since its transaction began is younger than everything stored, and one that nothing overtook since its
check is late beside no row of the window as it is now. `StoredInTime`: nor is it once it is stored, beside an older row
of the window that nothing overtook at all, however the rows move up when a packet is inserted below them.
The step lemmas are `FlyStep`, `ReceiveStep`, `CheckStep` and `StoreStep`; `InsertProperties` says what an insert leaves in place.
`RefusedLate` needs the stamps only. `DeclinedOvertaken` sets `StoredInTime` against what `FallBack` declines:
the two are the same rule, applied at ingest and by the guard. `HonestQuiet` and `ForgeryFlagged` are about the pair itself; a forged position is
further from its partner than speed and slack allow by the triangle inequality (`Triangle`), in squares.
`PairCases` lists the four ways to choose it, from the latest and the earliest device clock among the rows
(`LatestProperties`, `EarliestProperties`, which find an extreme of a finite set by `LeastNat`); `PromptInterval` and
`TrueRates` then say that within one boot the interval is the time that passed on the flight, unless no time did. The
window may hold any number of rows.

`RefusedLate`, `HonestQuiet` and `ForgeryFlagged` say something only of flights that `OneBoot`, `Prompt` and the like describe;
the run `kinematic_guard` reaches them, and each property has a change of the code that breaks it there.

Assumptions: `ConstantsAssumption`, `TargetsAssumption` (IncidentEngine),
`TimesAssumption` (SupervisedPass), `LimitsAssumption` and `NamesAssumption`
(Admission; the first is what startup checks), `RolesAssumption` and `NoneAssumption` (Accounts),
`LevelsAssumption` (TenantRecords; the defaults are in order), `TimesAssumption` and
`SlackAssumption` (Handshake; a mark outlives its ticket by 5 seconds and a call to Redis takes
at most one), `OrgsAssumption` (WsRelay), `ClientAssumption` (WsClient), `ConstantsAssumption` and
`NoneAssumption` (DroneFeed), `ReceiverAssumption` and `WriteAssumption` (MavlinkReceiver; a write waits at most
10 seconds for a connection, a delay may reach a minute), `GuardAssumption` and `LeadAssumption` (KinematicGuard).

`GuardAssumption` puts the flight within the guard's envelope, its speed also within the speed error.
`LeadAssumption`, `MaxLead <= MaxReorder + MinGap`, holds for the defaults (10, 10 and 1 seconds; `config.py:344`, `:350`, `:357`), but
startup does not check it, and `HonestQuiet` needs it: without it, and with a lead one longer, TLC finds on the
instance of `kinematic_guard` an honest flight that is called spoofing. A packet may then be late by less than the slack for delays and still follow one that is newer
by more than the reorder slack, at an arrival gap long enough to be rated. Whoever raises `GUARD_DEVICE_CLOCK_MAX_LEAD_S` should
raise `GUARD_DEVICE_CLOCK_MAX_REORDER_S` with it.

SupervisedPass's
`TimesAssumption` holds for the intervals and back-offs `main.py` registers, provided a pass takes less than 0.9
of its interval: the exclusion of two passes is as true as that, and as long as Redis keeps the claim.

## 5. What is only model-checked

Every liveness property (`EveryCycleEnds`, `EveryRequestAnswered`, `EveryEventRelayed`,
`FeedSettles`): TLAPS does not prove temporal statements that rest on fairness. Every invariant, every
action property and the refinement that a run checks is also a theorem.

## 6. Where the code and what it says of itself differ

The modules state these as formulas, under the names given; none is among the properties of a run, because
TLC refutes each (put the name into the module's `.cfg` to see the behaviour). What holds instead is a property of
a run wherever there is such a statement.

| what is said | what the code does | formula |
|---|---|---|
| `incidents.py:247`: "The lifecycle does not move backwards." | the status is read without a lock (:67) and written by primary key (:268): of two walks the shorter may commit last | `LifecycleNeverMovesBackwards`; `StatusIsAudited` holds |
| `incident_engine.py:327`: "Incidents already resolved or closed are never touched" | the SELECT tests the status (:336), the UPDATE (:391) does not | `ResolvedIsHistory` |
| `alert_service.py:21`: a detection an incident no longer stands for "is a new event and must be recorded and broadcast" | resolved between the suppression check and the SELECT, it is in no incident (`incident_engine.py:345`) | `NoDetectionDropped` |
| `incident_engine.py:222`: a floor "that configuration cannot lower" | a fold merges the policy's band of the score only (:375): a later reading's own severity is not counted | `DetectorSeverityIsAFloor` |
| `supervisor.py:13`: "records the time of the last successful pass" | a pass another worker holds returns quietly (`leader.py:55`) and is recorded as a success | `TickedMeansDone` |
| `heartbeat_service.py:68`: "record an incident for each" | the engine may return nothing (`incident_engine.py:344`) | `EverySilenceRecorded` |
| `admission.py:17`: "a checkout never waits" | handshakes take connections and no slot (`websocket.py:66`, `:137`) | `NoCheckoutWaits` |
| `kinematic_guard.py`: no false positive on a physically valid flight | two samples may be rated over the arrival gap, across a reboot, and also within one boot when a packet is delivered later than `GUARD_DEVICE_CLOCK_MAX_LEAD_S` | `ValidFlightIsQuiet`; `HonestFlightIsQuiet` holds within one boot, for packets that are not that late |
| `settings.py:71`: "Validate the *resulting* band ordering" | two updates each validate against the row before the other (:66) | `BandsStayOrdered`; `InvertedOnlyByRace` holds |
| `users.py`, `update_user`: the rule "keeps an organization from locking itself out" | two administrators may demote each other at once | `OrganizationKeepsAnAdmin`; `LockoutNeedsARace` holds |

The same way, in the other properties: two approvers may both decide a command that both read as pending
(`commands.py:125`); two revocations of a credential at once leave the later name and date
(`device_credentials.py:125`); a ticket's failure after `disconnect()` reconnects a socket that was let go
(`websocket.ts`, `orphans`), and a socket that
`reconnect()` made is not disconnected when the provider unmounts (`WebSocketContext.tsx:87-96`; no page calls `reconnect()` today);
a ticket opens a second socket, and a pass runs twice at once, when Redis loses a mark or a claim before its time
(`docker-compose.yml:89` says that nothing in Redis needs to survive a restart; these two would); the first packet after a restart of the MAVLink receiver carries a
satellite count of 0, which the guard takes for a loss.

## 7. What is not modelled, and why

- ML inference, feature engineering, explanation: numeric; their result is an
  input of the detection cycle.
- Recommendation, priority, severity wording, reports: maps to data no property reads.
- `experimental/`: not imported by the application.
- Alembic migrations, bootstrap, deployment and training scripts: run once, outside the system.
- Metrics, logging, error tracking, rate limits: observation, or a library's counters.
- Readiness probes: timed calls without state; the background probe is `Stalled`.
- Retention: the hourly check reads the database's own policy, and the daily
  purge is one DELETE; their loops are `SupervisedPass` with `RunFirst`.
- Geofence: a pure function of one position and the zones, asked only when the
  guard is silent; it keeps nothing, and its zones change by one INSERT or DELETE. Its verdict is an
  input of the detection cycle.
- The frontend's pages: presentation over the API.

What is left out is most of the repository's lines (notebooks, training scripts,
load tests, configuration fields, response schemas, plots): code without state or
without a second actor, of which a model would be a copy. The modules cover the
code whose outcome depends on the order of steps.
