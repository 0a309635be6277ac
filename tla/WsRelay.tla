------------------------------- MODULE WsRelay -------------------------------
(***************************************************************************)
(* services/ws_manager.py in one worker process: which sockets it holds for *)
(* each organization, the listener tasks that relay what is published on   *)
(* the broker, and the delivery of a frame.                                *)
(*                                                                         *)
(* The manager is one object on one event loop: code between two awaits is *)
(* one action.  Its lock is never held across an await, so it never waits. *)
(* The broker (Redis pub/sub behind the `broadcaster` library) is outside:  *)
(* it is reachable or not, and delivers what is published to whoever is     *)
(* subscribed at that moment.                                              *)
(***************************************************************************)
EXTENDS Naturals

CONSTANTS
  Sockets,   \* handshakes that reach ws_manager.connect
  Orgs,      \* organizations
  Frames,    \* messages
  OrgOf,     \* the organization of a socket and of a frame
  None       \* no listener

ASSUME OrgsAssumption == OrgOf \in [Sockets \cup Frames -> Orgs] /\ None \notin Sockets

VARIABLES
  up,         \* the broker can be reached
  connected,  \* self._connected
  pc,         \* where the handler of each socket is
  first,      \* first_for_org, as socket s computed it
  registry,   \* self._connections, by organization
  listeners,  \* self._listeners: the socket whose connect created the task
  task,       \* the listener task that socket s created
  queue,      \* frames the broker has for that task
  sent,       \* frames broadcast
  got,        \* how many times socket s was sent frame f
  ghosts      \* history: organizations that had two first sockets, or a first
              \* socket without a listener; frames sent twice over

manager == <<connected, first, registry, listeners, task>>
vars == <<up, pc, manager, queue, sent, got, ghosts>>

Waiting == {"none", "starting"}
Live == {"starting", "subscribed"}

TypeOK ==
  /\ up \in BOOLEAN /\ connected \in BOOLEAN
  /\ pc \in [Sockets -> {"new", "joining", "open", "closed"}]
  /\ first \in [Sockets -> BOOLEAN]
  /\ registry \in [Orgs -> SUBSET Sockets]
  /\ listeners \in [Orgs -> Sockets \cup {None}]
  /\ task \in [Sockets -> Live \cup {"none", "ended", "cancelled"}]
  /\ queue \in [Sockets -> SUBSET Frames]
  /\ \A s \in Sockets : queue[s] # {} => task[s] \notin Waiting
  /\ sent \subseteq Frames
  /\ got \in [Sockets -> [Frames -> Nat]]
  /\ ghosts \in [raced : SUBSET Orgs, missed : SUBSET Orgs, twice : SUBSET Frames]

Init ==
  /\ up \in BOOLEAN /\ connected = FALSE
  /\ pc = [s \in Sockets |-> "new"]
  /\ first = [s \in Sockets |-> FALSE]
  /\ registry = [o \in Orgs |-> {}]
  /\ listeners = [o \in Orgs |-> None]
  /\ task = [s \in Sockets |-> "none"]
  /\ queue = [s \in Sockets |-> {}]
  /\ sent = {}
  /\ got = [s \in Sockets |-> [f \in Frames |-> 0]]
  /\ ghosts = [raced |-> {}, missed |-> {}, twice |-> {}]

-----------------------------------------------------------------------------
(***************************************************************************)
(* The registry.                                                           *)
(***************************************************************************)

\* create_task(self._subscribe(org)), entered over whatever entry there is.
Listen(s) ==
  /\ listeners' = [listeners EXCEPT ![OrgOf[s]] = s]
  /\ task' = [task EXCEPT ![s] = "starting"]

FirstForOrg(s) == listeners[OrgOf[s]] = None

\* A socket of s's organization that will start a listener has not done so yet.
AnotherFirst(s) ==
  \E r \in Sockets \ {s} : OrgOf[r] = OrgOf[s] /\ pc[r] = "joining" /\ first[r]

\* connect: the socket is registered.  With the broker connected nothing is
\* awaited, and the listener starts in the same step.
Connect(s) ==
  /\ pc[s] = "new"
  /\ registry' = [registry EXCEPT ![OrgOf[s]] = @ \cup {s}]
  /\ first' = [first EXCEPT ![s] = FirstForOrg(s)]
  /\ pc' = [pc EXCEPT ![s] = IF connected THEN "open" ELSE "joining"]
  /\ IF connected /\ FirstForOrg(s) THEN Listen(s) ELSE UNCHANGED <<listeners, task>>
  /\ ghosts' =
       [ghosts EXCEPT
          !.raced = IF FirstForOrg(s) /\ AnotherFirst(s) THEN @ \cup {OrgOf[s]} ELSE @,
          !.missed = IF connected /\ FirstForOrg(s) THEN @ \ {OrgOf[s]} ELSE @]
  /\ UNCHANGED <<up, connected, queue, sent, got>>

\* What _ensure_broadcaster leaves in self._connected.
Joined(s) == connected \/ up

\* connect after _ensure_broadcaster: it fails while the broker is away, unless
\* another socket has connected it meanwhile.
Join(s) ==
  /\ pc[s] = "joining"
  /\ connected' = Joined(s)
  /\ pc' = [pc EXCEPT ![s] = "open"]
  /\ IF first[s] /\ connected'
     THEN /\ Listen(s)
          /\ ghosts' = [ghosts EXCEPT !.missed = @ \ {OrgOf[s]}]
     ELSE /\ UNCHANGED <<listeners, task>>
          /\ ghosts' = IF first[s] THEN [ghosts EXCEPT !.missed = @ \cup {OrgOf[s]}] ELSE ghosts
  /\ UNCHANGED <<up, first, registry, queue, sent, got>>

\* Mutant: any disconnect ends the organization's listener.
DropListener(o, gone) ==
  /\ registry' = [registry EXCEPT ![o] = @ \ gone]
  /\ IF listeners[o] # None
     THEN /\ listeners' = [listeners EXCEPT ![o] = None]
          /\ task' = [task EXCEPT ![listeners[o]] = IF @ \in Live THEN "cancelled" ELSE @]
     ELSE UNCHANGED <<listeners, task>>

\* Mutant: the listener outlives the organization's last socket.
DropKeeping(o, gone) ==
  /\ registry' = [registry EXCEPT ![o] = @ \ gone]
  /\ UNCHANGED <<listeners, task>>

\* disconnect, of each socket in `gone`: an empty organization's listener is
\* removed and cancelled.
Drop(o, gone) ==
  LET empty == registry[o] \ gone = {} IN
  /\ registry' = [registry EXCEPT ![o] = @ \ gone]
  /\ IF empty /\ listeners[o] # None
     THEN /\ listeners' = [listeners EXCEPT ![o] = None]
          /\ task' = [task EXCEPT ![listeners[o]] = IF @ \in Live THEN "cancelled" ELSE @]
     ELSE UNCHANGED <<listeners, task>>

\* The handler's finally, however its loop ended, and whether or not a failed
\* send has dropped the socket before.
Disconnect(s) ==
  /\ pc[s] = "open"
  /\ pc' = [pc EXCEPT ![s] = "closed"]
  /\ Drop(OrgOf[s], {s})
  /\ UNCHANGED <<up, connected, first, queue, sent, got, ghosts>>

(***************************************************************************)
(* Delivery.                                                               *)
(***************************************************************************)

\* _send_local: every socket registered for the organization, of which those
\* whose peer is gone fail and are dropped.
SendLocal(o, f) ==
  \E gone \in SUBSET registry[o] :
    /\ got' = [s \in Sockets |-> IF s \in registry[o] \ gone
                                  THEN [got[s] EXCEPT ![f] = @ + 1] ELSE got[s]]
    /\ IF gone = {} THEN UNCHANGED <<registry, listeners, task>> ELSE Drop(o, gone)

\* Mutant: one channel for all organizations.
SubscribersShared(f) == {s \in Sockets : task[s] = "subscribed"}

\* channel_for: one channel per organization.
Subscribers(f) == {s \in Sockets : task[s] = "subscribed" /\ OrgOf[s] = OrgOf[f]}

Enqueue(f) ==
  queue' = [s \in Sockets |-> IF s \in Subscribers(f) THEN queue[s] \cup {f} ELSE queue[s]]

\* Mutant: published frames are sent to local sockets as well.
PublishAndSend(f) ==
  /\ connected /\ up /\ f \notin sent
  /\ sent' = sent \cup {f}
  /\ Enqueue(f)
  /\ SendLocal(OrgOf[f], f)
  /\ UNCHANGED <<up, pc, connected, first, ghosts>>

\* broadcast with the broker: "Publish only".
Publish(f) ==
  /\ connected /\ up /\ f \notin sent
  /\ sent' = sent \cup {f}
  /\ Enqueue(f)
  /\ UNCHANGED <<up, pc, manager, got, ghosts>>

\* Another worker's broadcast: it reaches this one through the broker.
PublishElsewhere(f) ==
  /\ up /\ f \notin sent
  /\ sent' = sent \cup {f}
  /\ Enqueue(f)
  /\ UNCHANGED <<up, pc, manager, got, ghosts>>

\* broadcast without the broker, or with a publish that raises: local delivery.
\* A publish may raise after the broker took the frame.
BroadcastLocally(f) ==
  /\ f \notin sent
  /\ sent' = sent \cup {f}
  /\ \/ /\ ~connected \/ ~up
        /\ UNCHANGED <<queue, ghosts>>
     \/ /\ connected /\ up
        /\ Enqueue(f)
        /\ ghosts' = [ghosts EXCEPT !.twice = @ \cup {f}]
  /\ SendLocal(OrgOf[f], f)
  /\ UNCHANGED <<up, pc, connected, first>>

\* _subscribe reaches the broker, or ends with an exception it logs.
Subscribe(s) ==
  /\ task[s] = "starting"
  /\ task' = [task EXCEPT ![s] = IF up THEN "subscribed" ELSE "ended"]
  /\ UNCHANGED <<up, pc, connected, first, registry, listeners, queue, sent, got, ghosts>>

\* The subscription ends while the broker is away; its entry stays.
SubscriptionEnds(s) ==
  /\ task[s] = "subscribed"
  /\ ~up
  /\ task' = [task EXCEPT ![s] = "ended"]
  /\ UNCHANGED <<up, pc, connected, first, registry, listeners, queue, sent, got, ghosts>>

\* Mutant: the event is taken and its delivery left to a task that is lost.
RelayDropping(s) ==
  /\ task[s] = "subscribed"
  /\ \E f \in queue[s] : queue' = [queue EXCEPT ![s] = @ \ {f}]
  /\ UNCHANGED <<up, pc, manager, sent, got, ghosts>>

\* One event of the subscription is sent to the sockets held here.
Relay(s) ==
  /\ task[s] = "subscribed"
  /\ \E f \in queue[s] :
       /\ queue' = [queue EXCEPT ![s] = @ \ {f}]
       /\ SendLocal(OrgOf[s], f)
  /\ UNCHANGED <<up, pc, connected, first, sent, ghosts>>

\* shutdown, and the end of the process: its tasks, the leaked ones too, and its
\* sockets are gone.
Shutdown ==
  /\ \E s \in Sockets : pc[s] = "open"
  /\ pc' = [s \in Sockets |-> IF pc[s] = "new" THEN "new" ELSE "closed"]
  /\ registry' = [o \in Orgs |-> {}]
  /\ listeners' = [o \in Orgs |-> None]
  /\ task' = [s \in Sockets |-> IF task[s] \in Live THEN "cancelled" ELSE task[s]]
  /\ connected' = FALSE
  /\ ghosts' = [ghosts EXCEPT !.missed = {}]
  /\ UNCHANGED <<up, first, queue, sent, got>>

BrokerTurns ==
  /\ up' = ~up
  /\ UNCHANGED <<pc, manager, queue, sent, got, ghosts>>

Next ==
  \/ \E s \in Sockets :
       \/ Connect(s) \/ Join(s) \/ Disconnect(s)
       \/ Subscribe(s) \/ SubscriptionEnds(s) \/ Relay(s)
  \/ \E f \in Frames : Publish(f) \/ PublishElsewhere(f) \/ BroadcastLocally(f)
  \/ Shutdown
  \/ BrokerTurns

Spec == Init /\ [][Next]_vars

\* A task that can run is run by the event loop.
FairSpec == Spec /\ \A s \in Sockets : WF_vars(Relay(s)) /\ WF_vars(Join(s))

-----------------------------------------------------------------------------
\* "Tenant-scoped fan-out": a socket is sent frames of its own organization
\* only, through whichever listener, fallback or leaked task it comes.
TenantIsolation ==
  \A s \in Sockets, f \in Frames : got[s][f] > 0 => OrgOf[s] = OrgOf[f]

\* "publishing *and* sending locally would deliver twice": a socket is sent a
\* frame once.  Twice takes a publish that raises after the broker took the
\* frame, or two sockets of one organization that both found no listener before
\* the broker was first connected: each starts one, and the first is leaked.
AtMostOnce ==
  \A s \in Sockets, f \in Frames :
    got[s][f] <= 1 \/ f \in ghosts.twice \/ OrgOf[s] \in ghosts.raced

\* A listener task that runs is its organization's, but for a leaked one.
NoOrphanListener ==
  \A s \in Sockets :
    task[s] \in Live =>
      \/ listeners[OrgOf[s]] = s
      \/ OrgOf[s] \in ghosts.raced

\* An organization's listener is removed with the handler of its last socket.
NoListenerLeft ==
  \A o \in Orgs :
    listeners[o] # None => \E s \in Sockets : OrgOf[s] = o /\ pc[s] \in {"joining", "open"}

\* Frames published by any worker reach an organization's sockets for as long as
\* it has any: it has a listener as soon as one of them is open, and none, running or
\* registered, once all their handlers have ended, but for a leaked task.  It is deaf
\* only while its listener's task has ended, or since a first socket joined while the
\* broker was away.
Served ==
  /\ \A s \in Sockets :
       LET o == OrgOf[s] IN
       s \in registry[o] /\ pc[s] = "open"
         => \/ listeners[o] # None /\ task[listeners[o]] # "cancelled"
            \/ o \in ghosts.missed
  /\ NoOrphanListener
  /\ NoListenerLeft

\* What a listener has taken from the broker reaches each socket registered
\* then, unless the socket goes or the listener ends.
EveryEventRelayed ==
  \A t, s \in Sockets, f \in Frames :
    (f \in queue[t] /\ s \in registry[OrgOf[t]] /\ task[t] = "subscribed")
      ~> (got[s][f] > 0 \/ s \notin registry[OrgOf[t]] \/ task[t] # "subscribed")
=============================================================================
