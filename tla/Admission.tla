------------------------------ MODULE Admission ------------------------------
(***************************************************************************)
(* What one worker process shares among everything it serves: the slots of *)
(* the admission limit (middleware/admission.py), the worker threads that  *)
(* run the hops of a request, the background threads behind                *)
(* asyncio.to_thread (main.py), and the connection pool (database.py).     *)
(*                                                                         *)
(* A request holds its connection from one thread hop to the next, and a   *)
(* thread while it waits for a connection: the deadlock the limits of      *)
(* config.Settings are there to exclude.  WebSocket handshakes take a      *)
(* worker thread and a connection without a slot.                          *)
(***************************************************************************)
EXTENDS Integers, FiniteSets

CONSTANTS
  Requests,       \* HTTP requests at the door or inside
  Sockets,        \* WebSocket handshakes
  Background,     \* BACKGROUND_THREADS of them
  None,           \* a background thread that serves no request
  MaxInFlight,    \* HTTP_MAX_IN_FLIGHT
  Reserve,        \* DB_POOL_RESERVE
  Pool,           \* DB_POOL_SIZE + DB_MAX_OVERFLOW
  WorkerThreads,  \* tokens of the thread limiter
  MaxHops         \* bound: the thread hops of a request

\* _connections_fit_the_pool.
ConnectionsFitThePool ==
  /\ MaxInFlight >= 1 /\ Cardinality(Background) >= 1
  /\ MaxInFlight + Cardinality(Background) + Reserve <= Pool

\* Startup insists on the last conjunct.
ASSUME LimitsAssumption ==
  /\ IsFiniteSet(Requests) /\ IsFiniteSet(Sockets) /\ IsFiniteSet(Background)
  /\ {WorkerThreads, MaxHops} \subseteq Nat \ {0}
  /\ {MaxInFlight, Reserve, Pool} \subseteq Nat
  /\ ConnectionsFitThePool

ASSUME NamesAssumption ==
  /\ None \notin Requests \cup Sockets
  /\ Requests \cap Sockets = {}
  /\ (Requests \cup Sockets) \cap Background = {}

VARIABLES
  slots,   \* the semaphore's value
  at,      \* at[x]: where request or handshake x is
  left,    \* left[r]: hops r has not finished, the present one included
  thread,  \* thread[b]: what background thread b does
  serves,  \* serves[b]: the request whose detection b runs, or None
  conn     \* who has a connection checked out

vars == <<slots, at, left, thread, serves, conn>>

Clients == Requests \cup Sockets

OnThread == {"running", "checkout"}
Inside == {"waiting", "detecting", "detected"} \cup OnThread

\* Requests that hold a slot, one handed to them included.
Admitted == {r \in Requests : at[r] \in Inside \cup {"handed"}}

\* Handshakes that hold a worker thread.
Handshakes == {s \in Sockets : at[s] \in OnThread}

Busy == {x \in Clients : at[x] \in OnThread}

TypeOK ==
  /\ slots \in Nat
  /\ at \in [Clients -> {"outside", "queued", "handed"} \cup Inside]
  /\ left \in [Requests -> 0 .. MaxHops]
  /\ thread \in [Background -> {"idle", "checkout", "working"}]
  /\ serves \in [Background -> Requests \cup {None}]
  /\ conn \subseteq Clients \cup Background
  /\ \A r \in conn \cap Requests : at[r] \in Inside \ {"checkout"}
  /\ \A s \in conn \cap Sockets : at[s] = "running"
  /\ \A b \in conn \cap Background : thread[b] = "working"
  /\ \A b \in Background : serves[b] # None =>
       /\ thread[b] # "idle"
       /\ at[serves[b]] = "detecting"
       /\ \A c \in Background : serves[c] = serves[b] => c = b

Init ==
  /\ slots = MaxInFlight
  /\ at = [x \in Clients |-> "outside"]
  /\ left = [r \in Requests |-> 0]
  /\ thread = [b \in Background |-> "idle"]
  /\ serves = [b \in Background |-> None]
  /\ conn = {}

Move(x, where) == at' = [at EXCEPT ![x] = where]

FreeThread == Cardinality(Busy) < WorkerThreads
FreeConnection == Cardinality(conn) < Pool

(***************************************************************************)
(* At the door.                                                            *)
(***************************************************************************)
Arrive(r) ==
  /\ at[r] = "outside"
  /\ Move(r, "queued")
  /\ UNCHANGED <<slots, left, thread, serves, conn>>

\* The semaphore hands a slot to a waiter, which has yet to resume.
Hand(r) ==
  /\ at[r] = "queued"
  /\ slots > 0
  /\ slots' = slots - 1
  /\ Move(r, "handed")
  /\ UNCHANGED <<left, thread, serves, conn>>

\* HTTP_ADMISSION_WAIT_S is over: 503.
Refuse(r) ==
  /\ at[r] = "queued"
  /\ Move(r, "outside")
  /\ UNCHANGED <<slots, left, thread, serves, conn>>

\* ... just as a slot was handed to it: acquire gives the slot back.
GiveBack(r) ==
  /\ at[r] = "handed"
  /\ Move(r, "outside")
  /\ slots' = slots + 1
  /\ UNCHANGED <<left, thread, serves, conn>>

\* Mutant: acquire is called and not awaited.
EnterWithoutSlot(r) ==
  /\ at[r] \in {"queued", "handed"}
  /\ Move(r, "waiting")
  /\ \E n \in 1 .. MaxHops : left' = [left EXCEPT ![r] = n]
  /\ UNCHANGED <<slots, thread, serves, conn>>

Enter(r) ==
  /\ at[r] = "handed"
  /\ Move(r, "waiting")
  /\ \E n \in 1 .. MaxHops : left' = [left EXCEPT ![r] = n]
  /\ UNCHANGED <<slots, thread, serves, conn>>

(***************************************************************************)
(* Inside.                                                                 *)
(***************************************************************************)
\* The next hop gets a worker thread.
TakeThread(x) ==
  /\ at[x] = "waiting"
  /\ FreeThread
  /\ Move(x, "running")
  /\ UNCHANGED <<slots, left, thread, serves, conn>>

\* The hop's first query, in a session without a connection.
AskConnection(x) ==
  /\ at[x] = "running"
  /\ x \notin conn
  /\ Move(x, "checkout")
  /\ UNCHANGED <<slots, left, thread, serves, conn>>

Checkout(x) ==
  /\ at[x] = "checkout"
  /\ FreeConnection
  /\ conn' = conn \cup {x}
  /\ Move(x, "running")
  /\ UNCHANGED <<slots, left, thread, serves>>

\* The hop is over.  A session that committed has returned its connection; one
\* that only read keeps it, through the next hop or the detection that follows.
EndHop(r) ==
  /\ at[r] = "running"
  /\ left[r] > 0
  /\ left' = [left EXCEPT ![r] = @ - 1]
  /\ conn' \in {conn, conn \ {r}}
  /\ \/ left[r] > 1 /\ Move(r, "waiting")
     \/ left[r] = 1 /\ Move(r, "detecting")
     \/ left[r] = 1 /\ Move(r, "detected")
  /\ UNCHANGED <<slots, thread, serves>>

\* Mutant: the slot is released on the way out of a good request only.
LeaveKeepingSlot(r) ==
  /\ at[r] \in {"running", "detected"}
  /\ Move(r, "outside")
  /\ left' = [left EXCEPT ![r] = 0]
  /\ conn' = conn \ {r}
  /\ slots' = IF at[r] = "detected" THEN slots + 1 ELSE slots
  /\ UNCHANGED <<thread, serves>>

\* Mutant: the request's session is not closed.
LeaveKeepingConnection(r) ==
  /\ at[r] \in {"running", "detected"}
  /\ Move(r, "outside")
  /\ left' = [left EXCEPT ![r] = 0]
  /\ slots' = slots + 1
  /\ UNCHANGED <<thread, serves, conn>>

\* The call returns, background tasks included, or a hop raised: get_db closes
\* the session, on a thread of its own, and the slot is released.
Leave(r) ==
  /\ at[r] \in {"running", "detected"}
  /\ Move(r, "outside")
  /\ left' = [left EXCEPT ![r] = 0]
  /\ conn' = conn \ {r}
  /\ slots' = slots + 1
  /\ UNCHANGED <<thread, serves>>

\* DB_POOL_TIMEOUT is over: QueuePool raises, and the request fails with 500.
TimeOut(r) ==
  /\ at[r] = "checkout"
  /\ Move(r, "outside")
  /\ left' = [left EXCEPT ![r] = 0]
  /\ slots' = slots + 1
  /\ UNCHANGED <<thread, serves, conn>>

(***************************************************************************)
(* A WebSocket handshake: one hop, no slot.                                *)
(***************************************************************************)
Connect(s) ==
  /\ at[s] = "outside"
  /\ Move(s, "waiting")
  /\ UNCHANGED <<slots, left, thread, serves, conn>>

\* Mutant: the handshake's session is not closed.
EndHandshakeKeepingConnection(s) ==
  /\ at[s] = "running"
  /\ Move(s, "outside")
  /\ UNCHANGED <<slots, left, thread, serves, conn>>

\* _resolve_user returns, and has closed its session; or its checkout timed out.
EndHandshake(s) ==
  /\ at[s] = "running"
  /\ Move(s, "outside")
  /\ conn' = conn \ {s}
  /\ UNCHANGED <<slots, left, thread, serves>>

TimeOutHandshake(s) ==
  /\ at[s] = "checkout"
  /\ Move(s, "outside")
  /\ UNCHANGED <<slots, left, thread, serves, conn>>

(***************************************************************************)
(* Background threads.                                                     *)
(***************************************************************************)
Begin(b, r) ==
  /\ thread[b] = "idle"
  /\ thread' = [thread EXCEPT ![b] = "checkout"]
  /\ serves' = [serves EXCEPT ![b] = r]
  /\ UNCHANGED <<slots, at, left, conn>>

\* run_detection's to_thread, for a request whose call waits for it.
Detect(b, r) ==
  /\ at[r] = "detecting"
  /\ \A c \in Background : serves[c] # r
  /\ Begin(b, r)

\* A pass of a background loop, or a MAVLink packet.
Job(b) == Begin(b, None)

CheckoutJob(b) ==
  /\ thread[b] = "checkout"
  /\ FreeConnection
  /\ conn' = conn \cup {b}
  /\ thread' = [thread EXCEPT ![b] = "working"]
  /\ UNCHANGED <<slots, at, left, serves>>

Finish(b) ==
  /\ thread' = [thread EXCEPT ![b] = "idle"]
  /\ serves' = [serves EXCEPT ![b] = None]
  /\ at' = [x \in Clients |-> IF x = serves[b] THEN "detected" ELSE at[x]]
  /\ conn' = conn \ {b}
  /\ UNCHANGED <<slots, left>>

EndJob(b) == thread[b] = "working" /\ Finish(b)

TimeOutJob(b) == thread[b] = "checkout" /\ Finish(b)

RequestStep(r) ==
  \/ Enter(r) \/ TakeThread(r) \/ Checkout(r) \/ EndHop(r) \/ Leave(r)
  \/ \E b \in Background : Detect(b, r)

SocketStep(s) == TakeThread(s) \/ Checkout(s) \/ EndHandshake(s)

JobStep(b) == CheckoutJob(b) \/ EndJob(b)

Next ==
  \/ \E r \in Requests :
       \/ Arrive(r) \/ Hand(r) \/ Refuse(r) \/ GiveBack(r)
       \/ AskConnection(r) \/ RequestStep(r) \/ TimeOut(r)
  \/ \E s \in Sockets :
       Connect(s) \/ AskConnection(s) \/ SocketStep(s) \/ TimeOutHandshake(s)
  \/ \E b \in Background : Job(b) \/ JobStep(b) \/ TimeOutJob(b)

Spec == Init /\ [][Next]_vars
\* A running thread runs on; and the thread limiter, the executor and the pool
\* each serve their waiters in turn.  No timeout is relied on.
Fairness ==
  /\ \A r \in Requests : SF_vars(RequestStep(r))
  /\ \A s \in Sockets : SF_vars(SocketStep(s))
  /\ \A b \in Background : SF_vars(JobStep(b))

FairSpec == Spec /\ Fairness

-----------------------------------------------------------------------------
CheckingOut ==
  {x \in Clients : at[x] = "checkout"} \cup {b \in Background : thread[b] = "checkout"}

AtWork(x) == IF x \in Background THEN thread[x] = "working" ELSE at[x] = "running"

\* A slot is handed, given back by a waiter whose time was up, or released by a
\* call that returned or raised: never twice, and never not at all.
NoSlotLost == slots + Cardinality(Admitted) = MaxInFlight

\* "Demand cannot exceed the pool": while no more handshakes run than the
\* reserve allows, nobody who asks for a connection has to wait for one.
CheckoutNeverWaits ==
  Cardinality(Handshakes) <= Reserve => (CheckingOut # {} => FreeConnection)

\* The deadlock of 2026-09-22 cannot form, however many handshakes there are:
\* when every connection is out, some holder is at work and waits for nothing.
NoStandoff == ~FreeConnection => \E x \in conn : AtWork(x)

\* A request that was admitted is answered, without a pool timeout to break
\* what the others wait for.
EveryRequestAnswered == \A r \in Requests : at[r] = "waiting" ~> at[r] = "outside"

(***************************************************************************)
(* What the code says of itself, refuted.                                  *)
(***************************************************************************)

\* "A checkout never waits."
NoCheckoutWaits == CheckingOut # {} => FreeConnection
=============================================================================
