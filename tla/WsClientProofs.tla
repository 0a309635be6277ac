--------------------------- MODULE WsClientProofs ---------------------------
(***************************************************************************)
(* Proofs about WsClient, for any number of sockets a page makes and any    *)
(* number of retries: types, one attempt at a time, and what a socket the   *)
(* page has let go of can still do.                                        *)
(***************************************************************************)
EXTENDS WsClient, TLAPS

\* OneAttempt of one socket's fields.
Exclusive(r) == ~(r.asking /\ r.timer) /\ (r.link # "none" => ~r.asking /\ ~r.timer)

\* A socket that was let go of, and does nothing more than end.
AtRest(r) ==
  /\ r.intentionalClose /\ ~r.timer /\ ~r.asking
  /\ r.link \in {"none", "closing"} /\ r.state = "OFFLINE"

LetGo ==
  \A c \in Clients : client[c].born /\ c # current /\ c \notin orphans => AtRest(client[c])

IInv == TypeOK /\ OneAttempt /\ LetGo /\ ShownIsTheFeed

-----------------------------------------------------------------------------
\* What each method makes of a socket's fields.
LEMMA ConstructedSocket ==
  Constructed \in Socket /\ Exclusive(Constructed)
BY ClientAssumption DEF Constructed, Socket, Exclusive, States

LEMMA ConnectSocket ==
  ASSUME NEW r \in Socket, Exclusive(r), ~r.timer, r.link = "none"
  PROVE  /\ Connect(r) \in Socket /\ Exclusive(Connect(r)) /\ Connect(r).born = r.born
         /\ Connect(r).state # "DISCONNECTED" \/ Connect(r).state = r.state
BY DEF Connect, Socket, Exclusive, States

LEMMA RetrySocket ==
  ASSUME NEW r \in Socket, ~r.asking, r.link = "none"
  PROVE  /\ ScheduleReconnect(r) \in Socket /\ Exclusive(ScheduleReconnect(r))
         /\ ScheduleReconnect(r).born = r.born
<1>1. CASE r.timer
  BY <1>1 DEF ScheduleReconnect, Exclusive
<1>2. CASE ~r.timer /\ r.retries >= MaxRetries
  BY <1>2 DEF ScheduleReconnect, Exclusive, Socket, States
<1>3. CASE ~r.timer /\ ~(r.retries >= MaxRetries)
  <2>1. r.retries + 1 \in 0 .. MaxRetries
    BY <1>3, ClientAssumption DEF Socket
  <2> QED
    BY <1>3, <2>1 DEF ScheduleReconnect, Exclusive, Socket, States
<1> QED
  BY <1>1, <1>2, <1>3

LEMMA DisconnectSocket ==
  ASSUME NEW r \in Socket, Exclusive(r)
  PROVE  /\ Disconnected(r) \in Socket /\ Exclusive(Disconnected(r))
         /\ Disconnected(r).born = r.born
         /\ ~r.asking => AtRest(Disconnected(r))
BY DEF Disconnected, Socket, Exclusive, AtRest, States

LEMMA CloseSocket ==
  ASSUME NEW r \in Socket, Exclusive(r), r.link # "none", NEW policy \in BOOLEAN
  PROVE  /\ Closed(r, policy) \in Socket /\ Exclusive(Closed(r, policy))
         /\ Closed(r, policy).born = r.born
         /\ AtRest(r) => AtRest(Closed(r, policy))
<1>1. CASE r.intentionalClose \/ policy
  BY <1>1 DEF Closed, Released, Socket, Exclusive, AtRest, States
<1>2. CASE ~(r.intentionalClose \/ policy)
  <2> DEFINE q == [Released(r) EXCEPT !.state = "DISCONNECTED"]
  <2>1. q \in Socket /\ ~q.asking /\ q.link = "none" /\ q.born = r.born
    BY DEF Released, Socket, Exclusive, States
  <2>2. Closed(r, policy) = ScheduleReconnect(q)
    BY <1>2 DEF Closed
  <2>3. ~AtRest(r)
    BY <1>2 DEF AtRest
  <2> HIDE DEF q
  <2> QED
    BY <2>1, <2>2, <2>3, RetrySocket
<1> QED
  BY <1>1, <1>2

-----------------------------------------------------------------------------
\* A callback of socket c that leaves it with fields r.
LEMMA Called ==
  ASSUME IInv, NEW c \in Clients, NEW r \in Socket, Becomes(c, r),
         token' \in BOOLEAN, UNCHANGED orphans,
         Exclusive(r), r.born = client[c].born,
         AtRest(client[c]) => AtRest(r)
  PROVE  IInv'
<1>1. client' \in [Clients -> Socket] /\ client'[c] = r /\ \A d \in Clients \ {c} : client'[d] = client[d]
  BY DEF Becomes, provider, IInv, TypeOK
<1>2. TypeOK'
  BY <1>1 DEF Becomes, provider, Report, IInv, TypeOK, Socket
<1>3. OneAttempt'
  BY <1>1 DEF IInv, OneAttempt, Exclusive
<1>4. LetGo'
  BY <1>1 DEF Becomes, provider, IInv, LetGo
<1>5. ShownIsTheFeed'
  <2> SUFFICES ASSUME current # None, orphans \cap bound = {}
               PROVE  shown' = client'[current].state
    BY DEF Becomes, provider, ShownIsTheFeed
  <2>1. current \in Clients /\ current \in bound /\ shown = client[current].state
    BY DEF IInv, TypeOK, ShownIsTheFeed
  <2>2. CASE c = current
    BY <1>1, <2>1, <2>2 DEF Becomes, provider, Report
  <2>3. CASE c # current
    <3>1. c \in bound => r.state = client[c].state
      <4> SUFFICES ASSUME c \in bound PROVE r.state = client[c].state
        OBVIOUS
      <4>1. AtRest(client[c])
        BY <2>3 DEF IInv, TypeOK, LetGo
      <4> QED
        BY <4>1 DEF AtRest
    <3> QED
      BY <1>1, <2>1, <2>3, <3>1 DEF Becomes, provider, Report
  <2> QED
    BY <2>2, <2>3
<1> QED
  BY <1>2, <1>3, <1>4, <1>5 DEF IInv

\* What is known of a socket before its callback.
LEMMA Known ==
  ASSUME IInv, NEW c \in Clients
  PROVE  client[c] \in Socket /\ Exclusive(client[c])
BY DEF IInv, TypeOK, OneAttempt, Exclusive

LEMMA Answered ==
  ASSUME IInv, NEW c \in Clients, TicketIssued(c) \/ TicketFailed(c)
  PROVE  IInv'
<1> DEFINE q == [client[c] EXCEPT !.asking = FALSE]
           o == [client[c] EXCEPT !.asking = FALSE, !.held = TRUE, !.link = "connecting"]
<1>1. /\ client[c].asking /\ ~client[c].timer /\ client[c].link = "none"
      /\ ~AtRest(client[c])
  BY Known DEF TicketIssued, TicketFailed, Exclusive, AtRest
<1>2. q \in Socket /\ q.born = client[c].born /\ ~q.asking /\ q.link = "none" /\ Exclusive(q)
  BY <1>1, Known DEF Socket, Exclusive
<1>3. o \in Socket /\ o.born = client[c].born /\ Exclusive(o)
  BY <1>1, Known DEF Socket, Exclusive
<1>4. token' \in BOOLEAN /\ UNCHANGED orphans
  BY DEF TicketIssued, TicketFailed, IInv, TypeOK
<1>5. CASE TicketIssued(c)
  <2>1. Becomes(c, q) \/ Becomes(c, o)
    BY <1>5 DEF TicketIssued
  <2> HIDE DEF q, o
  <2> QED
    BY <1>1, <1>2, <1>3, <1>4, <2>1, Called
<1>6. CASE TicketFailed(c)
  <2>1. Becomes(c, ScheduleReconnect(q))
    BY <1>6 DEF TicketFailed
  <2> HIDE DEF q
  <2> QED
    BY <1>1, <1>2, <1>4, <2>1, RetrySocket, Called
<1> QED
  BY <1>5, <1>6

LEMMA Fired ==
  ASSUME IInv, NEW c \in Clients, Fire(c)
  PROVE  IInv'
<1> DEFINE q == [client[c] EXCEPT !.timer = FALSE]
<1>1. client[c].timer /\ ~client[c].asking /\ client[c].link = "none" /\ ~AtRest(client[c])
  BY Known DEF Fire, Exclusive, AtRest
<1>2. q \in Socket /\ q.born = client[c].born /\ ~q.timer /\ q.link = "none" /\ Exclusive(q)
  BY <1>1, Known DEF Socket, Exclusive
<1>3. Becomes(c, Connect(q)) /\ token' \in BOOLEAN /\ UNCHANGED orphans
  BY DEF Fire, IInv, TypeOK
<1> HIDE DEF q
<1> QED
  BY <1>1, <1>2, <1>3, ConnectSocket, Called

LEMMA LinkChanged ==
  ASSUME IInv, NEW c \in Clients, Open(c) \/ Close(c) \/ GoMute(c) \/ Stale(c)
  PROVE  IInv'
<1> DEFINE s == client[c]
<1>1. s \in Socket /\ Exclusive(s)
  BY Known
<1>2. token' \in BOOLEAN /\ UNCHANGED orphans
  BY DEF Open, Close, GoMute, Stale, IInv, TypeOK
<1>3. CASE Open(c)
  <2>1. s.link = "connecting" /\ ~AtRest(s)
    BY <1>3 DEF Open, AtRest
  <2>2. 0 \in 0 .. MaxRetries
    BY ClientAssumption
  <2> HIDE DEF s
  <2>3. Opened(s) \in Socket /\ Opened(s).born = s.born
    BY <1>1, <2>2 DEF Opened, Socket, States
  <2>4. Exclusive(Opened(s))
    BY <1>1, <2>1 DEF Opened, Socket, Exclusive
  <2> USE DEF s
  <2>5. Becomes(c, Opened(s))
    BY <1>3 DEF Open
  <2> QED
    BY <1>2, <2>1, <2>3, <2>4, <2>5, Called
<1>4. CASE Close(c)
  <2>1. PICK policy \in BOOLEAN : Becomes(c, Closed(s, policy))
    BY <1>4 DEF Close
  <2>2. s.link # "none"
    BY <1>4 DEF Close
  <2> QED
    BY <1>1, <1>2, <2>1, <2>2, CloseSocket, Called
<1>5. CASE GoMute(c)
  <2> DEFINE q == [s EXCEPT !.link = "mute"]
  <2>1. q \in Socket /\ Exclusive(q) /\ q.born = s.born /\ ~AtRest(s)
    BY <1>1, <1>5 DEF GoMute, Socket, Exclusive, AtRest
  <2>2. Becomes(c, q)
    BY <1>5 DEF GoMute
  <2> HIDE DEF q
  <2> QED
    BY <1>2, <2>1, <2>2, Called
<1>6. CASE Stale(c)
  <2> DEFINE q == [s EXCEPT !.link = "closing"]
  <2>1. q \in Socket /\ Exclusive(q) /\ q.born = s.born /\ ~AtRest(s)
    BY <1>1, <1>6 DEF Stale, Socket, Exclusive, AtRest
  <2>2. Becomes(c, q)
    BY <1>6 DEF Stale
  <2> HIDE DEF q
  <2> QED
    BY <1>2, <2>1, <2>2, Called
<1> QED
  BY <1>3, <1>4, <1>5, <1>6

-----------------------------------------------------------------------------
\* A new socket c beside others that are at rest or orphans.
LEMMA Created ==
  ASSUME IInv, NEW c \in Clients, NEW others \in [Clients -> Socket], NEW audience,
         Create(c, others, audience), UNCHANGED token, effect' \in {effect, c},
         current = None => effect' = c,
         audience \subseteq bound, orphans' \in SUBSET Clients, orphans \subseteq orphans',
         \A d \in Clients : Exclusive(others[d]) /\ others[d].born = client[d].born,
         \A d \in Clients \ orphans' : others[d].born => AtRest(others[d])
  PROVE  IInv'
<1> DEFINE q == [Constructed EXCEPT !.born = TRUE]
           r == Connect(q)
<1>1. q \in Socket /\ q.born /\ ~q.timer /\ q.link = "none" /\ Exclusive(q) /\ q.state = "DISCONNECTED"
  BY ConstructedSocket DEF Constructed, Socket, Exclusive
<1>2. r.state # "DISCONNECTED"
  BY DEF Connect, Constructed
<1>3. r \in Socket /\ Exclusive(r) /\ r.born
  BY <1>1, ConnectSocket
<1>4. /\ client' = [others EXCEPT ![c] = r] /\ current' = c /\ bound' = audience \cup {c}
      /\ shown' = r.state
  BY <1>2 DEF Create, Constructed
<1> HIDE DEF r
<1>5. client' \in [Clients -> Socket] /\ client'[c] = r /\ \A d \in Clients \ {c} : client'[d] = others[d]
  BY <1>3, <1>4
<1>6. TypeOK'
  BY <1>3, <1>4, <1>5, ClientAssumption DEF IInv, TypeOK, Socket
<1>7. OneAttempt'
  BY <1>3, <1>5 DEF OneAttempt, Exclusive
<1>8. LetGo'
  BY <1>4, <1>5 DEF LetGo
<1>9. ShownIsTheFeed'
  BY <1>4, <1>5 DEF ShownIsTheFeed
<1> QED
  BY <1>6, <1>7, <1>8, <1>9 DEF IInv

\* A socket is disconnected, and nothing else that was not at rest is let go of.
LEMMA Stopped ==
  ASSUME IInv, NEW c \in Clients, NEW left \in SUBSET Clients,
         orphans \cup Orphan(c) \subseteq left, current \in left \cup {c, None}
  PROVE  /\ Stop(c) \in [Clients -> Socket]
         /\ \A d \in Clients : Exclusive(Stop(c)[d]) /\ Stop(c)[d].born = client[d].born
         /\ \A d \in Clients \ left : Stop(c)[d].born => AtRest(Stop(c)[d])
<1>1. PICK others : others = Stop(c)
  OBVIOUS
<1>2. /\ Disconnected(client[c]) \in Socket
      /\ Exclusive(Disconnected(client[c]))
      /\ Disconnected(client[c]).born = client[c].born
      /\ ~client[c].asking => AtRest(Disconnected(client[c]))
  BY Known, DisconnectSocket
<1>3. /\ others \in [Clients -> Socket]
      /\ others[c] = Disconnected(client[c])
      /\ \A d \in Clients \ {c} : others[d] = client[d]
  BY <1>1, <1>2 DEF IInv, TypeOK, Stop
<1>4. \A d \in Clients : Exclusive(others[d]) /\ others[d].born = client[d].born
  BY <1>2, <1>3, Known
<1>5. \A d \in Clients \ left : others[d].born => AtRest(others[d])
  <2> SUFFICES ASSUME NEW d \in Clients \ left, others[d].born PROVE AtRest(others[d])
    OBVIOUS
  <2>1. CASE d = c
    BY <1>2, <1>3, <2>1 DEF Orphan
  <2>2. CASE d # c
    BY <1>3, <2>2, ClientAssumption DEF IInv, LetGo
  <2> QED
    BY <2>1, <2>2
<1> QED
  BY <1>1, <1>3, <1>4, <1>5

LEMMA ProviderStep ==
  ASSUME IInv, (\E c \in Clients : Mount(c) \/ Reconnect(c) \/ SessionEnded(c)) \/ Unmount
  PROVE  IInv'
<1>1. ASSUME NEW c \in Clients, Mount(c) PROVE IInv'
  <2>1. client \in [Clients -> Socket] /\ orphans \in SUBSET Clients /\ {} \subseteq bound
    BY DEF IInv, TypeOK
  <2>2. \A d \in Clients \ orphans : client[d].born => AtRest(client[d])
    BY <1>1, ClientAssumption DEF Mount, IInv, LetGo
  <2>3. /\ Create(c, client, {}) /\ UNCHANGED token /\ effect' = c
        /\ orphans' \in SUBSET Clients /\ orphans \subseteq orphans'
        /\ \A d \in Clients \ orphans' : client[d].born => AtRest(client[d])
    BY <1>1, <2>1, <2>2 DEF Mount
  <2>4. \A d \in Clients : Exclusive(client[d]) /\ client[d].born = client[d].born
    BY Known
  <2> QED
    BY <2>1, <2>3, <2>4, Created
<1>2. ASSUME NEW c \in Clients, Reconnect(c) PROVE IInv'
  <2> DEFINE left == orphans \cup Orphan(current)
  <2>1. PICK others : others = Stop(current)
    OBVIOUS
  <2>2. /\ current # None /\ Create(c, others, bound)
        /\ orphans' = left /\ UNCHANGED <<token, effect>>
    BY <1>2, <2>1 DEF Reconnect
  <2>3. current \in Clients /\ left \in SUBSET Clients
    BY <2>2 DEF IInv, TypeOK, Orphan
  <2>4. /\ others \in [Clients -> Socket]
        /\ \A d \in Clients : Exclusive(others[d]) /\ others[d].born = client[d].born
        /\ \A d \in Clients \ left : others[d].born => AtRest(others[d])
    BY <2>1, <2>3, Stopped
  <2>5. orphans \subseteq left
    OBVIOUS
  <2> HIDE DEF left
  <2> QED
    BY <2>2, <2>3, <2>4, <2>5, Created
<1>3. CASE Unmount
  <2> DEFINE left == orphans \cup Orphan(effect) \cup ({current} \ {effect})
  <2>1. PICK others : others = Stop(effect)
    OBVIOUS
  <2>2. /\ current # None /\ client' = others /\ orphans' = left
        /\ current' = None /\ effect' = None /\ bound' = {} /\ shown' = "DISCONNECTED"
        /\ UNCHANGED token
    BY <1>3, <2>1 DEF Unmount
  <2>3. effect \in Clients /\ left \in SUBSET Clients
    BY <2>2 DEF IInv, TypeOK, Orphan
  <2>4. /\ others \in [Clients -> Socket]
        /\ \A d \in Clients : Exclusive(others[d])
        /\ \A d \in Clients \ left : others[d].born => AtRest(others[d])
    BY <2>1, <2>3, Stopped
  <2> HIDE DEF left
  <2> QED
    BY <2>2, <2>3, <2>4 DEF IInv, TypeOK, OneAttempt, Exclusive, LetGo, ShownIsTheFeed, States
<1>4. ASSUME NEW c \in Clients, SessionEnded(c) PROVE IInv'
  <2>1. client' \in [Clients -> Socket] /\ \A d \in Clients : client'[d] = Constructed
    BY <1>4, ConstructedSocket DEF SessionEnded
  <2>2. ~Constructed.born /\ Exclusive(Constructed)
    BY ConstructedSocket DEF Constructed
  <2> HIDE DEF Constructed
  <2> QED
    BY <1>4, <2>1, <2>2 DEF SessionEnded, IInv, TypeOK, OneAttempt, Exclusive, LetGo, ShownIsTheFeed, States
<1> QED
  BY <1>1, <1>2, <1>3, <1>4

-----------------------------------------------------------------------------
LEMMA InitHolds == Init => IInv
<1> SUFFICES ASSUME Init PROVE IInv
  OBVIOUS
<1>1. client \in [Clients -> Socket] /\ \A c \in Clients : client[c] = Constructed
  BY ConstructedSocket DEF Init
<1>2. ~Constructed.born
  BY DEF Constructed
<1> HIDE DEF Constructed
<1> QED
  BY <1>1, <1>2, ConstructedSocket
     DEF Init, IInv, TypeOK, OneAttempt, Exclusive, LetGo, ShownIsTheFeed, States

LEMMA NextHolds == IInv /\ [Next]_vars => IInv'
<1> SUFFICES ASSUME IInv, [Next]_vars PROVE IInv'
  OBVIOUS
<1>1. ASSUME NEW c \in Clients, TicketIssued(c) \/ TicketFailed(c) PROVE IInv'
  BY <1>1, Answered
<1>2. ASSUME NEW c \in Clients, Fire(c) PROVE IInv'
  BY <1>2, Fired
<1>3. ASSUME NEW c \in Clients, Open(c) \/ Close(c) \/ GoMute(c) \/ Stale(c) PROVE IInv'
  BY <1>3, LinkChanged
<1>4. CASE (\E c \in Clients : Mount(c) \/ Reconnect(c) \/ SessionEnded(c)) \/ Unmount
  BY <1>4, ProviderStep
<1>5. CASE Session
  BY <1>5 DEF Session, provider, IInv, TypeOK, OneAttempt, LetGo, ShownIsTheFeed
<1>6. CASE UNCHANGED vars
  BY <1>6 DEF vars, IInv, TypeOK, OneAttempt, LetGo, ShownIsTheFeed
<1> QED
  BY <1>1, <1>2, <1>3, <1>4, <1>5, <1>6 DEF Next, Answer, Event

\* A socket that was let go of is at rest, or its ticket was in flight, or the effect's
\* cleanup passed it over: the inductive invariant.
THEOREM Invariance == Spec => []IInv
<1> QED
  BY InitHolds, NextHolds, PTL DEF Spec

\* A socket makes one attempt at a time.
THEOREM AttemptsExclude == Spec => []OneAttempt
<1>1. IInv => OneAttempt
  BY DEF IInv
<1> QED
  BY <1>1, Invariance, PTL

\* Of the sockets a page has let go of, only those with a ticket in flight, and a
\* replacement whose provider was unmounted, can still open a feed.
THEOREM FeedsLetGo == Spec => []NoFeedLeftBehind
<1>1. IInv => NoFeedLeftBehind
  BY DEF IInv, LetGo, AtRest, NoFeedLeftBehind
<1> QED
  BY <1>1, Invariance, PTL

\* The page shows its own socket's state.
THEOREM Shown == Spec => []ShownIsTheFeed
<1>1. IInv => ShownIsTheFeed
  BY DEF IInv
<1> QED
  BY <1>1, Invariance, PTL
=============================================================================
