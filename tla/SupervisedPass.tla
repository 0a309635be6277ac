--------------------------- MODULE SupervisedPass ---------------------------
(***************************************************************************)
(* One background pass (the heartbeat monitor, a retention check) as every *)
(* worker process runs it: a supervised loop (services/supervisor.py)      *)
(* whose work is claimed in Redis first (services/leader.py), so that one  *)
(* worker has each interval's pass.                                        *)
(*                                                                         *)
(* Time is kept as ages and remaining waits rather than instants, so no    *)
(* bound on the clock is needed: an age stops growing at its horizon, past *)
(* which nothing distinguishes it.                                         *)
(***************************************************************************)
EXTENDS Naturals

CONSTANTS
  Workers,         \* worker processes
  Interval,        \* interval_s
  ClaimFor,        \* the claim's lifetime, 0.9 of the interval
  InitialBackoff,  \* initial_backoff_s
  MaxBackoff,      \* max_backoff_s
  StallGrace,      \* stall_grace_s
  RunFirst,        \* whether the first pass runs before the first sleep
  Shared,          \* whether REDIS_URL is set
  PassTime,        \* bound: the longest a pass takes
  Never,           \* last_tick of a loop that has not ticked
  Horizon,         \* bound: the oldest age of a loop's start or tick told apart
  PassHorizon,     \* bound: the oldest age of a pass begun told apart
  DoneHorizon      \* bound: the oldest age of a pass that succeeded told apart

ASSUME TimesAssumption ==
  /\ {Interval, ClaimFor, InitialBackoff, MaxBackoff, PassTime} \subseteq Nat \ {0}
  /\ StallGrace \in Nat
  /\ {Horizon, PassHorizon, DoneHorizon} \subseteq Nat
  /\ ClaimFor < Interval
  /\ PassTime < ClaimFor
  /\ InitialBackoff <= MaxBackoff
  /\ StallGrace + 3 * Interval < Horizon
  /\ ClaimFor + Interval <= PassHorizon
  /\ PassTime + MaxBackoff < PassHorizon
  /\ RunFirst \in BOOLEAN
  /\ Shared \in BOOLEAN
  /\ Never \notin Nat

VARIABLES
  loop,        \* loop[w]: what w's task does; "down" when w has no process
  wait,        \* wait[w]: what is left of its sleep, or of PassTime
  backoff,     \* backoff[w]: the sleep after the next failure
  sinceStart,  \* sinceStart[w]: the age of started_at
  sinceTick,   \* sinceTick[w]: the age of last_tick, or Never
  client,      \* client[w]: shared_store's client: "untried", "yes" or "no"
  store,       \* Redis answers
  claimLeft,   \* what is left of the claim key's lifetime; 0: no key
  holds,       \* workers whose running pass was claimed in Redis
  lost,        \* history: those of them whose claim Redis has forgotten
  sinceBegun,  \* history: the age of the last pass any worker began
  sinceDone,   \* history: the age of the last pass that succeeded
  failed       \* history: workers whose work has raised since their last tick

task == <<loop, wait, backoff, sinceStart, sinceTick, client, failed>>
redis == <<store, claimLeft>>
claims == <<holds, lost>>
passVars == <<loop, wait, backoff, sinceStart, sinceTick, client, store, claimLeft,
          holds, lost, sinceBegun, sinceDone, failed>>

Ages == 0 .. Horizon
Backoffs == InitialBackoff .. MaxBackoff
Waits == 0 .. (IF MaxBackoff > Interval THEN MaxBackoff ELSE Interval)

PassTypeOK ==
  /\ loop \in [Workers -> {"down", "sleeping", "working", "ended"}]
  /\ wait \in [Workers -> Waits]
  /\ backoff \in [Workers -> Backoffs]
  /\ sinceStart \in [Workers -> Ages]
  /\ sinceTick \in [Workers -> Ages \cup {Never}]
  /\ client \in [Workers -> {"untried", "yes", "no"}]
  /\ store \in BOOLEAN
  /\ claimLeft \in 0 .. ClaimFor
  /\ holds \subseteq {w \in Workers : loop[w] = "working"}
  /\ lost \subseteq holds
  /\ sinceBegun \in 0 .. PassHorizon
  /\ sinceDone \in 0 .. DoneHorizon
  /\ failed \subseteq Workers

PassInit ==
  /\ loop = [w \in Workers |-> "down"]
  /\ wait = [w \in Workers |-> 0]
  /\ backoff = [w \in Workers |-> InitialBackoff]
  /\ sinceStart = [w \in Workers |-> Horizon]
  /\ sinceTick = [w \in Workers |-> Never]
  /\ client = [w \in Workers |-> "untried"]
  /\ store = TRUE
  /\ claimLeft = 0
  /\ holds = {}
  /\ lost = {}
  /\ sinceBegun = PassHorizon
  /\ sinceDone = DoneHorizon
  /\ failed = {}

(***************************************************************************)
(* The loop.                                                               *)
(***************************************************************************)
FirstWait == IF RunFirst THEN 0 ELSE Interval

Sleep(w, time) ==
  /\ loop' = [loop EXCEPT ![w] = "sleeping"]
  /\ wait' = [wait EXCEPT ![w] = time]

\* _spawn, and the start of _run: its backoff is a local of the task, last_tick
\* is the loop's and outlives it.
Spawn(w) ==
  /\ Sleep(w, FirstWait)
  /\ sinceStart' = [sinceStart EXCEPT ![w] = 0]
  /\ backoff' = [backoff EXCEPT ![w] = InitialBackoff]

\* start, in a new process.
Start(w) ==
  /\ loop[w] = "down"
  /\ Spawn(w)
  /\ sinceTick' = [sinceTick EXCEPT ![w] = Never]
  /\ client' = [client EXCEPT ![w] = "untried"]
  /\ failed' = failed \ {w}
  /\ UNCHANGED <<redis, claims, sinceBegun, sinceDone>>

\* The work returned: the loop's reckoning of a successful pass.
Ticked(w) ==
  /\ Sleep(w, Interval)
  /\ sinceTick' = [sinceTick EXCEPT ![w] = 0]
  /\ backoff' = [backoff EXCEPT ![w] = InitialBackoff]
  /\ failed' = failed \ {w}

Due(w) == loop[w] = "sleeping" /\ wait[w] = 0

\* redis_client: connected at its first use and never again, so a worker that
\* found Redis unreachable then goes without for good.
Connected(w) == client[w] = "yes" \/ (client[w] = "untried" /\ Shared /\ store)

Tried(w) == client' = [client EXCEPT ![w] = IF Connected(w) THEN "yes" ELSE "no"]

\* The pass that w had claimed is over; the key in Redis stays as it is.
GiveUp(w) ==
  /\ holds' = holds \ {w}
  /\ lost' = lost \ {w}

Work(w) ==
  /\ loop' = [loop EXCEPT ![w] = "working"]
  /\ wait' = [wait EXCEPT ![w] = PassTime]
  /\ sinceBegun' = 0

\* Mutant: SET without NX takes the claim from whoever has it.
RunClaimedOverwriting(w) ==
  /\ Due(w)
  /\ Connected(w) /\ store
  /\ claimLeft' = ClaimFor
  /\ holds' = holds \cup {w}
  /\ Work(w)
  /\ Tried(w)
  /\ UNCHANGED <<backoff, sinceStart, sinceTick, store, lost, sinceDone, failed>>

\* Mutant: the claim outlives the interval.
RunClaimedLingering(w) ==
  /\ Due(w)
  /\ Connected(w) /\ store
  /\ claimLeft = 0
  /\ claimLeft' = 2 * Interval
  /\ holds' = holds \cup {w}
  /\ Work(w)
  /\ Tried(w)
  /\ UNCHANGED <<backoff, sinceStart, sinceTick, store, lost, sinceDone, failed>>

\* The claim is taken, atomically, and the work begins.
RunClaimed(w) ==
  /\ Due(w)
  /\ Connected(w) /\ store
  /\ claimLeft = 0
  /\ claimLeft' = ClaimFor
  /\ holds' = holds \cup {w}
  /\ Work(w)
  /\ Tried(w)
  /\ UNCHANGED <<backoff, sinceStart, sinceTick, store, lost, sinceDone, failed>>

\* No store, or one that cannot answer: the pass runs here, unclaimed. The SET
\* whose answer is lost may have been done.
RunUnclaimed(w) ==
  /\ Due(w)
  /\ ~(Connected(w) /\ store)
  /\ \/ UNCHANGED claimLeft
     \/ Connected(w) /\ claimLeft = 0 /\ claimLeft' = ClaimFor
  /\ Work(w)
  /\ Tried(w)
  /\ UNCHANGED <<backoff, sinceStart, sinceTick, store, claims, sinceDone, failed>>

\* Mutant: a pass another worker has is not a tick.
SkipUnticked(w) ==
  /\ Due(w)
  /\ Connected(w) /\ store
  /\ claimLeft > 0
  /\ Sleep(w, Interval)
  /\ Tried(w)
  /\ UNCHANGED <<backoff, sinceStart, sinceTick, redis, claims, sinceBegun, sinceDone, failed>>

\* The claim is held: guarded() returns, and the loop cannot tell that from a
\* pass that succeeded.
Skip(w) ==
  /\ Due(w)
  /\ Connected(w) /\ store
  /\ claimLeft > 0
  /\ Ticked(w)
  /\ Tried(w)
  /\ UNCHANGED <<sinceStart, redis, claims, sinceBegun, sinceDone>>

Succeed(w) ==
  /\ loop[w] = "working"
  /\ Ticked(w)
  /\ GiveUp(w)
  /\ sinceDone' = 0
  /\ UNCHANGED <<sinceStart, client, redis, sinceBegun>>

\* The work raised: retry after the backoff, which doubles up to its maximum.
\* The claim is not given back.
Fail(w) ==
  /\ loop[w] = "working"
  /\ Sleep(w, backoff[w])
  /\ backoff' = [backoff EXCEPT ![w] = IF 2 * @ < MaxBackoff THEN 2 * @ ELSE MaxBackoff]
  /\ GiveUp(w)
  /\ failed' = failed \cup {w}
  /\ UNCHANGED <<sinceStart, sinceTick, client, redis, sinceBegun, sinceDone>>

\* A BaseException leaves the loop body: the task ends.
Escape(w) ==
  /\ loop[w] = "working"
  /\ loop' = [loop EXCEPT ![w] = "ended"]
  /\ wait' = [wait EXCEPT ![w] = 0]
  /\ GiveUp(w)
  /\ failed' = failed \cup {w}
  /\ UNCHANGED <<backoff, sinceStart, sinceTick, client, redis, sinceBegun, sinceDone>>

\* _on_task_done: the loop comes back.
Respawn(w) ==
  /\ loop[w] = "ended"
  /\ Spawn(w)
  /\ UNCHANGED <<sinceTick, client, redis, claims, sinceBegun, sinceDone, failed>>

Exit(w) ==
  /\ loop[w] # "down"
  /\ loop' = [loop EXCEPT ![w] = "down"]
  /\ wait' = [wait EXCEPT ![w] = 0]
  /\ GiveUp(w)
  /\ UNCHANGED <<backoff, sinceStart, sinceTick, client, redis, sinceBegun, failed>>

\* stop cancels the task; the thread a pass runs in is not cancelled with it and
\* may finish its work.
Stop(w) ==
  /\ Exit(w)
  /\ \/ loop[w] = "working" /\ sinceDone' = 0
     \/ UNCHANGED sinceDone

\* The process dies, and its claim is left to expire.
Crash(w) == Exit(w) /\ UNCHANGED sinceDone

(***************************************************************************)
(* Redis and time.                                                         *)
(***************************************************************************)
StoreFails ==
  /\ Shared /\ store
  /\ store' = FALSE
  /\ UNCHANGED <<task, claimLeft, claims, sinceBegun, sinceDone>>

StoreRecovers ==
  /\ ~store
  /\ store' = TRUE
  /\ UNCHANGED <<task, claimLeft, claims, sinceBegun, sinceDone>>

\* Redis keeps nothing over a restart, and evicts keys that expire when its
\* memory is full: the claim is gone before its time.
StoreForgets ==
  /\ claimLeft > 0
  /\ claimLeft' = 0
  /\ lost' = holds
  /\ UNCHANGED <<task, store, holds, sinceBegun, sinceDone>>

Older(age, oldest) == IF age < oldest THEN age + 1 ELSE age
Less(time) == IF time > 0 THEN time - 1 ELSE 0

\* A loop whose sleep is over runs before more time passes, a task that ended
\* is respawned, and a pass takes at most PassTime.
Prompt ==
  \A w \in Workers : loop[w] # "ended" /\ (loop[w] # "down" => wait[w] > 0)

Tick ==
  /\ Prompt
  /\ wait' = [w \in Workers |-> Less(wait[w])]
  /\ sinceStart' = [w \in Workers |-> Older(sinceStart[w], Horizon)]
  /\ sinceTick' = [w \in Workers |-> IF sinceTick[w] = Never THEN Never
                                  ELSE Older(sinceTick[w], Horizon)]
  /\ claimLeft' = Less(claimLeft)
  /\ sinceBegun' = Older(sinceBegun, PassHorizon)
  /\ sinceDone' = Older(sinceDone, DoneHorizon)
  /\ UNCHANGED <<loop, backoff, client, store, claims, failed>>

PassNext ==
  \/ \E w \in Workers :
       \/ Start(w)
       \/ RunClaimed(w)
       \/ RunUnclaimed(w)
       \/ Skip(w)
       \/ Succeed(w)
       \/ Fail(w)
       \/ Escape(w)
       \/ Respawn(w)
       \/ Stop(w)
       \/ Crash(w)
  \/ StoreFails
  \/ StoreRecovers
  \/ StoreForgets
  \/ Tick

PassSpec == PassInit /\ [][PassNext]_passVars

-----------------------------------------------------------------------------
StallAfter == 3 * Interval + StallGrace

\* stalled() measures from the last tick, or from the start if there is none.
Reference(w) == IF sinceTick[w] # Never THEN sinceTick[w] ELSE sinceStart[w]

Stalled(w) == loop[w] # "down" /\ Reference(w) > StallAfter

\* "One worker per pass": no two claimed passes run at once, whatever crashes,
\* failures and outages come between a claim and the end of its pass, unless
\* Redis lost the claim of the one under it.
ClaimedPassesExclusive == \A v, w \in holds \ lost : v = w

\* "A worker that dies holding a claim costs one skipped pass": while a worker
\* stays up, the next pass begins, somewhere, less than a claim and an interval
\* after the last, although that worker skips what others claimed and lost. Only
\* a worker whose work raised may wait longer: a pass and its backoff.
PassGapBounded ==
  \A w \in Workers : loop[w] # "down" =>
    \/ w \notin failed /\ sinceBegun < ClaimFor + Interval
    \/ w \in failed /\ sinceBegun <= PassTime + MaxBackoff
    \/ sinceStart[w] <= Interval

\* A loop is reported stalled only after its work has raised: sharing the
\* passes with other workers, skipping most of them, or a Redis that comes and
\* goes raises no alarm.
NoFalseAlarm == \A w \in Workers : Stalled(w) => w \in failed

(***************************************************************************)
(* The inductive invariant behind the three.                               *)
(***************************************************************************)

\* A claim that is not lost outlives the pass it was taken for.
ClaimOutlives ==
  /\ \A w \in holds \ lost : wait[w] < claimLeft
  /\ ClaimedPassesExclusive

\* The claim key is as old as some pass, or younger than its lifetime leaves.
ClaimIsRecent == claimLeft > 0 => sinceBegun + claimLeft <= ClaimFor

\* What is left of a worker's wait ends before the gap does.
Closes(w) ==
  /\ loop[w] = "sleeping" =>
       \/ w \notin failed /\ sinceBegun + wait[w] < ClaimFor + Interval
       \/ w \in failed /\ sinceBegun + wait[w] <= PassTime + MaxBackoff
       \/ sinceStart[w] + wait[w] <= Interval
  /\ loop[w] = "working" => sinceBegun + wait[w] <= PassTime
  /\ loop[w] = "ended" => sinceBegun <= PassTime

GapCloses == \A w \in Workers : Closes(w)

\* A loop whose work has not raised ticks within an interval and a pass.
OnTime(w) ==
  loop[w] # "down" /\ w \notin failed =>
    /\ loop[w] # "ended"
    /\ loop[w] = "sleeping" => Reference(w) + wait[w] <= Interval
    /\ loop[w] = "working" => Reference(w) + wait[w] <= Interval + PassTime

TicksOnTime == \A w \in Workers : OnTime(w)

\* However passes fail, crash and expire, the waits still to come add up.
Timing == ClaimOutlives /\ ClaimIsRecent /\ GapCloses /\ TicksOnTime

(***************************************************************************)
(* What the code says of itself, refuted.                                  *)
(***************************************************************************)

\* "Records the time of the last successful pass": while a worker that has been
\* up longer than that does not report the loop stalled, some worker's pass
\* succeeded within what a stall takes and the claim it may have deferred to.
TickedMeansDone ==
  \A w \in Workers :
    loop[w] # "down" /\ sinceStart[w] > StallAfter /\ ~Stalled(w)
      => sinceDone <= StallAfter + ClaimFor + PassTime
=============================================================================
