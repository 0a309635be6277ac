------------------------------ MODULE WsClient ------------------------------
(***************************************************************************)
(* frontend/src/services/websocket.ts and contexts/WebSocketContext.tsx:    *)
(* the telemetry sockets of one browser page.  A TelemetrySocket fetches a  *)
(* ticket, opens a browser socket with it, watches it with a heartbeat and  *)
(* reconnects with a backoff.  The provider owns one of them at a time and  *)
(* shows the connection state its sockets report.                          *)
(*                                                                         *)
(* JavaScript runs one callback at a time: a callback is one action.  The   *)
(* network is outside: a ticket request or a socket may end in any way.     *)
(***************************************************************************)
EXTENDS Naturals

CONSTANTS
  Clients,     \* TelemetrySocket objects
  MaxRetries,  \* options.maxRetries
  None         \* no socket

ASSUME ClientAssumption == MaxRetries \in Nat /\ None \notin Clients

VARIABLES
  token,    \* a session token is stored: isAuthenticated()
  client,   \* the fields of each TelemetrySocket, and its browser socket
  current,  \* socketRef.current
  effect,   \* the socket the mounted provider's effect made, and cleans up
  bound,    \* sockets whose onStateChange reaches the mounted provider
  shown,    \* connectionState
  orphans   \* history: sockets let go of that nothing stops

provider == <<current, effect, bound>>
vars == <<token, client, current, effect, bound, shown, orphans>>

States == {"CONNECTING", "CONNECTED", "DISCONNECTED", "RECONNECTING", "OFFLINE"}

\* link is the browser's socket; a mute one is open here and dead at the far end.
Socket == [born : BOOLEAN, state : States, retries : 0 .. MaxRetries,
           intentionalClose : BOOLEAN, timer : BOOLEAN, asking : BOOLEAN, held : BOOLEAN,
           beating : BOOLEAN, link : {"none", "connecting", "open", "mute", "closing"}]

Constructed ==
  [born |-> FALSE, state |-> "DISCONNECTED", retries |-> 0, intentionalClose |-> FALSE,
   timer |-> FALSE, asking |-> FALSE, held |-> FALSE, beating |-> FALSE, link |-> "none"]

\* A mounted provider has one socket, which reports to it, and one it was mounted with.
TypeOK ==
  /\ token \in BOOLEAN
  /\ client \in [Clients -> Socket]
  /\ current \in Clients \cup {None}
  /\ effect \in Clients \cup {None}
  /\ current = None <=> effect = None
  /\ current # None => current \in bound /\ client[effect].born
  /\ bound \subseteq {c \in Clients : client[c].born}
  /\ shown \in States
  /\ orphans \subseteq Clients

\* A page that was just loaded.
Init ==
  /\ token \in BOOLEAN
  /\ client = [c \in Clients |-> Constructed]
  /\ current = None /\ effect = None /\ bound = {} /\ shown = "DISCONNECTED" /\ orphans = {}

-----------------------------------------------------------------------------
(***************************************************************************)
(* The methods, as functions of the object's fields.                       *)
(***************************************************************************)

\* connect: without a token there is nothing to do; with a socket, neither.
Connect(r) ==
  IF ~token THEN [r EXCEPT !.state = "OFFLINE"]
  ELSE IF r.held /\ r.link \in {"connecting", "open", "mute"} THEN r
  ELSE [r EXCEPT !.intentionalClose = FALSE, !.asking = TRUE,
                 !.state = IF r.retries > 0 THEN "RECONNECTING" ELSE "CONNECTING"]

\* scheduleReconnect.
ScheduleReconnect(r) ==
  IF r.timer THEN r
  ELSE IF r.retries >= MaxRetries THEN [r EXCEPT !.state = "OFFLINE"]
  ELSE [r EXCEPT !.retries = @ + 1, !.timer = TRUE, !.state = "RECONNECTING"]

\* Mutant: the pending reconnect is not cleared.
DisconnectedTimerKept(r) ==
  [r EXCEPT !.intentionalClose = TRUE, !.beating = FALSE, !.held = FALSE,
            !.link = IF r.link \in {"connecting", "open", "mute"} THEN "closing" ELSE @,
            !.state = "OFFLINE"]

\* disconnect.
Disconnected(r) ==
  [r EXCEPT !.intentionalClose = TRUE, !.beating = FALSE, !.timer = FALSE, !.held = FALSE,
            !.link = IF r.link \in {"connecting", "open", "mute"} THEN "closing" ELSE @,
            !.state = "OFFLINE"]

\* Mutant: the socket is never watched.
OpenedUnwatched(r) == [r EXCEPT !.link = "open", !.retries = 0, !.state = "CONNECTED"]

\* onopen.
Opened(r) == [r EXCEPT !.link = "open", !.retries = 0, !.state = "CONNECTED", !.beating = TRUE]

Released(r) == [r EXCEPT !.beating = FALSE, !.held = FALSE, !.link = "none"]

\* Mutant: onclose does not ask who closed.
ClosedAlways(r, policy) == ScheduleReconnect([Released(r) EXCEPT !.state = "DISCONNECTED"])

\* onclose: policy is close code 1008.
Closed(r, policy) ==
  IF r.intentionalClose \/ policy THEN [Released(r) EXCEPT !.state = "OFFLINE"]
  ELSE ScheduleReconnect([Released(r) EXCEPT !.state = "DISCONNECTED"])

\* updateState reports a state that differs; the provider shows the last report.
Report(c, r) == IF c \in bound /\ r.state # client[c].state THEN r.state ELSE shown

Becomes(c, r) ==
  /\ client' = [client EXCEPT ![c] = r]
  /\ shown' = Report(c, r)
  /\ UNCHANGED provider

-----------------------------------------------------------------------------
(***************************************************************************)
(* The callbacks of a socket.                                              *)
(***************************************************************************)

\* getSocketTicket answered with a ticket.
TicketIssued(c) ==
  /\ client[c].asking
  /\ Becomes(c, IF client[c].intentionalClose THEN [client[c] EXCEPT !.asking = FALSE]
                ELSE [client[c] EXCEPT !.asking = FALSE, !.held = TRUE, !.link = "connecting"])
  /\ UNCHANGED <<token, orphans>>

\* getSocketTicket failed: the server is away, or the session has ended while
\* the page shows the login form and stays.  new WebSocket(url) that throws too.
TicketFailed(c) ==
  /\ client[c].asking
  /\ Becomes(c, ScheduleReconnect([client[c] EXCEPT !.asking = FALSE]))
  /\ \/ UNCHANGED token
     \/ current = None /\ token' = FALSE
  /\ UNCHANGED orphans

\* A 401 on any other page logs out and loads the login page: every socket dies.
SessionEnded(c) ==
  /\ client[c].asking /\ current # None
  /\ token' = FALSE
  /\ client' = [x \in Clients |-> Constructed]
  /\ current' = None /\ effect' = None /\ bound' = {} /\ shown' = "DISCONNECTED" /\ orphans' = {}

\* Mutant: the fired timer is still held.
FireHolding(c) ==
  /\ client[c].timer
  /\ Becomes(c, IF client[c].asking THEN client[c] ELSE Connect(client[c]))
  /\ UNCHANGED <<token, orphans>>

\* The backoff is over.
Fire(c) ==
  /\ client[c].timer
  /\ Becomes(c, Connect([client[c] EXCEPT !.timer = FALSE]))
  /\ UNCHANGED <<token, orphans>>

Open(c) ==
  /\ client[c].link = "connecting"
  /\ Becomes(c, Opened(client[c]))
  /\ UNCHANGED <<token, orphans>>

\* The close event: refused, closed by the server, or after close().
Close(c) ==
  /\ client[c].link # "none"
  /\ \E policy \in BOOLEAN :
       /\ policy => client[c].link = "open"
       /\ Becomes(c, Closed(client[c], policy))
  /\ UNCHANGED <<token, orphans>>

\* The far end is gone and nothing says so.
GoMute(c) ==
  /\ client[c].link = "open"
  /\ Becomes(c, [client[c] EXCEPT !.link = "mute"])
  /\ UNCHANGED <<token, orphans>>

\* The heartbeat found nothing received for staleAfterMs and closes the socket.
Stale(c) ==
  /\ client[c].beating /\ client[c].held /\ client[c].link = "mute"
  /\ Becomes(c, [client[c] EXCEPT !.link = "closing"])
  /\ UNCHANGED <<token, orphans>>

-----------------------------------------------------------------------------
(***************************************************************************)
(* The provider and the session.                                           *)
(***************************************************************************)

\* createWebSocket: its first state is reported like every other.
Create(c, others, audience) ==
  LET r == Connect([Constructed EXCEPT !.born = TRUE])
  IN /\ ~client[c].born
     /\ client' = [others EXCEPT ![c] = r]
     /\ current' = c
     /\ bound' = audience \cup {c}
     /\ shown' = IF r.state # Constructed.state THEN r.state ELSE shown

\* The effect of a newly mounted provider. The router shows no page with one
\* without a token.
Mount(c) ==
  /\ current = None /\ token
  /\ Create(c, client, {})
  /\ effect' = c
  /\ UNCHANGED <<token, orphans>>

\* disconnect of socket c, and what it leaves in flight.
Stop(c) == [client EXCEPT ![c] = Disconnected(client[c])]
Orphan(c) == IF client[c].asking THEN {c} ELSE {}

\* The cleanup of the effect; the provider is gone. It disconnects the socket the
\* effect made, also when that is no longer the provider's: its replacement is left.
Unmount ==
  /\ current # None
  /\ client' = Stop(effect)
  /\ orphans' = orphans \cup Orphan(effect) \cup ({current} \ {effect})
  /\ current' = None /\ effect' = None /\ bound' = {} /\ shown' = "DISCONNECTED"
  /\ UNCHANGED token

\* The context's reconnect: the same provider, a new socket.
Reconnect(c) ==
  /\ current # None
  /\ Create(c, Stop(current), bound)
  /\ orphans' = orphans \cup Orphan(current)
  /\ UNCHANGED <<token, effect>>

\* Another tab or the sign-out button; signing in again.
Session ==
  /\ token' = ~token
  /\ UNCHANGED <<client, provider, shown, orphans>>

Answer(c) == TicketIssued(c) \/ TicketFailed(c) \/ SessionEnded(c)
Event(c) == Open(c) \/ Close(c)

Next ==
  \/ \E c \in Clients : Answer(c) \/ Fire(c) \/ Event(c) \/ GoMute(c) \/ Stale(c)
                        \/ Mount(c) \/ Reconnect(c)
  \/ Unmount \/ Session

Spec == Init /\ [][Next]_vars

\* Requests are answered, timers and heartbeats fire, and the browser reports
\* the end of a connection attempt and of a close.
Fairness ==
  \A c \in Clients :
    /\ WF_vars(Answer(c)) /\ WF_vars(Fire(c)) /\ WF_vars(Stale(c))
    /\ WF_vars(client[c].link \in {"connecting", "closing"} /\ Event(c))

FairSpec == Spec /\ Fairness

-----------------------------------------------------------------------------
(***************************************************************************)
(* Properties.                                                             *)
(***************************************************************************)

\* A socket the page has let go of opens no connection any more and plans
\* none, with two exceptions: one let go of while its ticket was in flight, whose
\* failure reconnects without asking whether the close was intended, and one that
\* reconnect() made, which the unmounting provider does not disconnect.
NoFeedLeftBehind ==
  \A c \in Clients :
    /\ client[c].born /\ c # current
    /\ client[c].timer \/ client[c].asking \/ client[c].link \in {"connecting", "open", "mute"}
    => c \in orphans

\* A socket is never at two attempts at once: a ticket request, a pending
\* reconnect and a browser socket exclude each other, so that a callback's
\* writes to this.ws never hit another attempt's socket.
OneAttempt ==
  \A c \in Clients :
    LET r == client[c]
    IN /\ ~(r.asking /\ r.timer)
       /\ r.link # "none" => ~r.asking /\ ~r.timer

\* What the page shows is the state of the socket it owns: no socket it has
\* let go of reports over it, while none of the sockets that report to it was let go
\* of with a ticket in flight.
ShownIsTheFeed ==
  current # None /\ orphans \cap bound = {} => shown = client[current].state

\* A feed that is being established, or is open and silent, ends up connected
\* with a live socket or offline, however often the server goes away.
Settled(r) == ~r.born \/ r.state = "OFFLINE" \/ (r.state = "CONNECTED" /\ r.link = "open")
FeedSettles == \A c \in Clients : ~Settled(client[c]) ~> Settled(client[c])
=============================================================================
