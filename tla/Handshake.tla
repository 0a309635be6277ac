------------------------------- MODULE Handshake -------------------------------
(***************************************************************************)
(* Opening the telemetry socket: a ticket minted from a session             *)
(* (routers/auth.py), presented to any worker, verified, spent and resolved *)
(* to an account (services/ws_tickets.py, routers/websocket.py), and the    *)
(* socket's life until its session has expired.                            *)
(*                                                                         *)
(* A handshake runs in a thread of its worker; spending a ticket is one     *)
(* SET NX in Redis, or, without Redis, a look at the worker's own set and   *)
(* then an insertion.  The Redis client is made on first use, once per      *)
(* process (utils/shared_store.py).  Redis may stop answering later, and may *)
(* lose a mark before its time.                                            *)
(***************************************************************************)
EXTENDS Naturals

CONSTANTS
  Workers,     \* processes
  Handshakes,  \* handshakes, each at one worker
  Tickets,     \* tickets, by jti
  None,        \* no ticket
  Lifetime,    \* TICKET_LIFETIME
  Slack,       \* seconds a spent mark is kept after it
  MaxDelay,    \* longest time from verifying a ticket to spending it
  SessionEnd,  \* when the session expires
  MaxClock,    \* bound: the last instant
  MaxVersion   \* bound: the last token_version

ASSUME TimesAssumption ==
  Lifetime \in Nat /\ Slack \in Nat /\ MaxDelay \in Nat /\ SessionEnd \in Nat

\* A mark is kept 5 seconds longer than its ticket; a call to Redis times out
\* after one.
ASSUME SlackAssumption == MaxDelay <= Slack

VARIABLES
  now,      \* seconds
  version,  \* the account's token_version
  ticket,   \* tickets minted: version and expiry
  store,    \* the Redis client of each worker
  spent,    \* Redis: until when a ticket is marked spent; 0, never marked
  here,     \* _spent_here of each worker
  hs,       \* where each handshake is
  claims    \* history: where a handshake spent its ticket, and whether in a race
            \* or under a mark that Redis lost

vars == <<now, version, ticket, store, spent, here, hs, claims>>

Pcs == {"idle", "verified", "connecting", "adding", "claimed", "open", "closed"}
Claimed == {"claimed", "open", "closed"}

TypeOK ==
  /\ now \in Nat /\ version \in Nat
  /\ ticket \in [Tickets -> [tv : Nat, exp : Nat] \cup {None}]
  /\ store \in [Workers -> {"untried", "connecting", "shared", "none"}]
  /\ spent \in [Tickets -> Nat]
  /\ here \in [Workers -> SUBSET Tickets]
  /\ hs \in [Handshakes -> [pc : Pcs, ticket : Tickets, worker : Workers, since : Nat]]
  /\ \A h \in Handshakes : hs[h].pc \in Claimed => claims[h] # "none"
  /\ claims \in [Handshakes -> {"none", "redis", "lost", "own", "raced"}]

Init ==
  /\ now = 0 /\ version = 0
  /\ ticket = [t \in Tickets |-> None]
  /\ store = [w \in Workers |-> "untried"]
  /\ spent = [t \in Tickets |-> 0]
  /\ here = [w \in Workers |-> {}]
  /\ hs \in [Handshakes -> [pc : {"idle"}, ticket : Tickets, worker : Workers, since : {0}]]
  /\ claims = [h \in Handshakes |-> "none"]

-----------------------------------------------------------------------------
Goto(h, pc) == hs' = [hs EXCEPT ![h].pc = pc]

\* Refused: 1008 before the socket is accepted, which spends nothing more.
Refuse(h) == Goto(h, "idle") /\ UNCHANGED claims

\* websocket_ticket, of a session that authenticates now.
Issue(t) ==
  /\ ticket[t] = None
  /\ now < SessionEnd
  /\ ticket' = [ticket EXCEPT ![t] = [tv |-> version, exp |-> now + Lifetime]]
  /\ UNCHANGED <<now, version, store, spent, here, hs, claims>>

\* redeem, up to _claim: neither the ticket nor its session has expired.
Verify(h) ==
  /\ hs[h].pc = "idle" /\ claims[h] = "none"
  /\ ticket[hs[h].ticket] # None
  /\ now < ticket[hs[h].ticket].exp
  /\ now < SessionEnd
  /\ hs' = [hs EXCEPT ![h].pc = "verified", ![h].since = now]
  /\ UNCHANGED <<now, version, ticket, store, spent, here, claims>>

\* redis_client, first use: it is tried once, and the flag is set before it has
\* answered.
TryStore(h) ==
  /\ hs[h].pc = "verified"
  /\ store[hs[h].worker] = "untried"
  /\ store' = [store EXCEPT ![hs[h].worker] = "connecting"]
  /\ Goto(h, "connecting")
  /\ UNCHANGED <<now, version, ticket, spent, here, claims>>

\* The ping is answered, or the process has no shared store for good.
StoreAnswers(h) ==
  /\ hs[h].pc = "connecting"
  /\ \E answer \in {"shared", "none"} : store' = [store EXCEPT ![hs[h].worker] = answer]
  /\ Goto(h, "verified")
  /\ UNCHANGED <<now, version, ticket, spent, here, claims>>

\* Mutant: the mark is kept as long as the ticket, and no longer.
KeptForLifetime == Lifetime

\* The expiry given to the mark.
KeptFor == Lifetime + Slack

\* NX: no mark, or one that has expired.
Free(t) == spent[t] <= now

ClaimInRedis(h) ==
  LET t == hs[h].ticket IN
  /\ hs[h].pc = "verified"
  /\ store[hs[h].worker] = "shared"
  /\ IF Free(t)
     THEN /\ spent' = [spent EXCEPT ![t] = now + KeptFor]
          /\ claims' = [claims EXCEPT ![h] = "redis"]
          /\ Goto(h, "claimed")
     ELSE Refuse(h) /\ UNCHANGED spent
  /\ UNCHANGED <<now, version, ticket, store, here>>

\* A Redis that has answered once fails later: the call raises and the handshake
\* ends, its ticket marked or not.
ClaimFails(h) ==
  LET t == hs[h].ticket IN
  /\ hs[h].pc = "verified"
  /\ store[hs[h].worker] = "shared"
  /\ \/ UNCHANGED spent
     \/ Free(t) /\ spent' = [spent EXCEPT ![t] = now + KeptFor]
  /\ Refuse(h)
  /\ UNCHANGED <<now, version, ticket, store, here>>

\* Redis keeps nothing over a restart, and evicts keys that expire when its
\* memory is full: a mark is gone before its time.
Forget(t) ==
  /\ ~Free(t)
  /\ spent' = [spent EXCEPT ![t] = 0]
  /\ claims' = [h \in Handshakes |->
                  IF hs[h].ticket = t /\ claims[h] = "redis" THEN "lost" ELSE claims[h]]
  /\ UNCHANGED <<now, version, ticket, store, here, hs>>

\* redis_client is None: there is no Redis, or another thread of the process is
\* still connecting to it.
LookHere(h) ==
  /\ hs[h].pc = "verified"
  /\ store[hs[h].worker] \in {"connecting", "none"}
  /\ IF hs[h].ticket \in here[hs[h].worker] THEN Refuse(h) ELSE Goto(h, "adding") /\ UNCHANGED claims
  /\ UNCHANGED <<now, version, ticket, store, spent, here>>

\* Another handshake of this worker has added it since the look.
SpentSince(h) == hs[h].ticket \in here[hs[h].worker]

Noted(h) == [here EXCEPT ![hs[h].worker] = @ \cup {hs[h].ticket}]

AddHere(h) ==
  /\ hs[h].pc = "adding"
  /\ here' = Noted(h)
  /\ claims' = [claims EXCEPT ![h] = IF SpentSince(h) THEN "raced" ELSE "own"]
  /\ Goto(h, "claimed")
  /\ UNCHANGED <<now, version, ticket, store, spent>>

\* _resolve_user's SELECT: the version is compared once, here.  A refused
\* handshake has spent its ticket.
Resolve(h) ==
  /\ hs[h].pc = "claimed"
  /\ Goto(h, IF ticket[hs[h].ticket].tv = version THEN "open" ELSE "closed")
  /\ UNCHANGED <<now, version, ticket, store, spent, here, claims>>

\* A ping of an expired session is answered with a close; any other with a pong.
Ping(h) ==
  /\ hs[h].pc = "open"
  /\ now >= SessionEnd
  /\ Goto(h, "closed")
  /\ UNCHANGED <<now, version, ticket, store, spent, here, claims>>

\* The client goes, or the handshake's thread fails.
Leave(h) ==
  /\ hs[h].pc \in {"claimed", "open"}
  /\ Goto(h, "closed")
  /\ UNCHANGED <<now, version, ticket, store, spent, here, claims>>

\* A password change, a sign-out, a change of role.
Bump ==
  /\ version < MaxVersion
  /\ version' = version + 1
  /\ UNCHANGED <<now, ticket, store, spent, here, hs, claims>>

\* Redis answers or times out (one second), so no thread dwells on a claim.
Tick ==
  /\ now < MaxClock
  /\ \A h \in Handshakes :
       hs[h].pc \in {"verified", "connecting", "adding"} => now - hs[h].since < MaxDelay
  /\ now' = now + 1
  /\ UNCHANGED <<version, ticket, store, spent, here, hs, claims>>

Next ==
  \/ \E t \in Tickets : Issue(t) \/ Forget(t)
  \/ \E h \in Handshakes :
       \/ Verify(h) \/ TryStore(h) \/ StoreAnswers(h) \/ ClaimInRedis(h) \/ ClaimFails(h)
       \/ LookHere(h) \/ AddHere(h) \/ Resolve(h) \/ Ping(h) \/ Leave(h)
  \/ Bump
  \/ Tick

Spec == Init /\ [][Next]_vars

-----------------------------------------------------------------------------
\* "Opens exactly one socket": two handshakes have spent one ticket only when one
\* of them went by its worker's own set, and then, at one worker, only if they
\* looked at the set at once or Redis answered in between; or when Redis lost the
\* mark of one.
OneSocketPerTicket ==
  \A g, h \in Handshakes :
    (g # h /\ claims[g] # "none" /\ claims[h] # "none" /\ hs[g].ticket = hs[h].ticket)
      => \/ claims[g] \in {"raced", "lost"} \/ claims[h] \in {"raced", "lost"}
         \/ claims[g] # claims[h]
         \/ claims[g] = "own" /\ hs[g].worker # hs[h].worker
=============================================================================
