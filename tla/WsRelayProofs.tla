---------------------------- MODULE WsRelayProofs ----------------------------
(***************************************************************************)
(* Proofs about WsRelay, for any sockets, organizations and frames: a frame *)
(* stays within its organization, reaches a socket once, and an            *)
(* organization with an open socket has its listener.                      *)
(***************************************************************************)
EXTENDS WsRelay, TLAPS

\* What belongs to an organization stays with it, and its listener is not one
\* that was cancelled.
Owned ==
  /\ \A o \in Orgs, s \in Sockets : s \in registry[o] => OrgOf[s] = o
  /\ \A o \in Orgs : listeners[o] # None =>
       OrgOf[listeners[o]] = o /\ task[listeners[o]] \in Live \cup {"ended"}
  /\ \A s \in Sockets, f \in Frames : f \in queue[s] => OrgOf[f] = OrgOf[s]

\* A socket creates its task last, and of the first sockets of an organization
\* one only may still do so, before there is a listener.
Firsts ==
  \A s \in Sockets :
    /\ pc[s] \in {"new", "joining"} => task[s] = "none"
    /\ pc[s] = "joining" /\ first[s] /\ OrgOf[s] \notin ghosts.raced =>
         /\ listeners[OrgOf[s]] = None
         /\ \A r \in Sockets : pc[r] = "joining" /\ first[r] /\ OrgOf[r] = OrgOf[s] => r = s

\* A registered socket has a listener, or is the one that will start it.
Heard ==
  \A s \in Sockets : s \in registry[OrgOf[s]] =>
    /\ pc[s] = "open" => listeners[OrgOf[s]] # None \/ OrgOf[s] \in ghosts.missed
    /\ pc[s] = "joining" /\ ~first[s] => listeners[OrgOf[s]] # None

\* A frame is published once; while it waits for its listener nobody has it.
Unsent ==
  \A f \in Frames, t \in Sockets :
    /\ f \notin sent => got[t][f] = 0 /\ f \notin queue[t]
    /\ f \in queue[t] /\ task[t] = "subscribed" /\ f \notin ghosts.twice /\ OrgOf[t] \notin ghosts.raced =>
         \A s \in Sockets : OrgOf[s] = OrgOf[t] => got[s][f] = 0

Rest == TypeOK /\ Owned /\ Firsts /\ Heard /\ NoOrphanListener
IInv == Rest /\ Unsent /\ TenantIsolation /\ AtMostOnce

-----------------------------------------------------------------------------
LEMMA Orgs_ ==
  /\ \A s \in Sockets : OrgOf[s] \in Orgs
  /\ \A f \in Frames : OrgOf[f] \in Orgs
  /\ None \notin Sockets
BY OrgsAssumption

LEMMA InitHolds == Init => IInv
<1> SUFFICES ASSUME Init PROVE IInv
  OBVIOUS
<1>1. TypeOK
  BY DEF Init, TypeOK
<1> QED
  BY <1>1, Orgs_ DEF Init, IInv, Rest, Owned, Firsts, Heard, NoOrphanListener, Unsent,
                     TenantIsolation, AtMostOnce, Live

\* What deliveries say is untouched by a step that delivers and publishes
\* nothing, and subscribes nobody to a queue that holds a frame.
LEMMA Undelivered ==
  ASSUME IInv, UNCHANGED <<queue, sent, got>>,
         ghosts'.twice = ghosts.twice, ghosts.raced \subseteq ghosts'.raced,
         \A t \in Sockets : task'[t] = "subscribed" /\ task[t] # "subscribed" => queue[t] = {}
  PROVE  Unsent' /\ TenantIsolation' /\ AtMostOnce'
BY DEF IInv, Unsent, TenantIsolation, AtMostOnce

\* Sockets leave, or stay: an organization's listener goes with the last of them.
Left(o) ==
  \/ \E gone \in SUBSET Sockets : Drop(o, gone)
  \/ UNCHANGED <<registry, listeners, task>>

\* A listener is taken away from an empty organization only, and cancelled.
Removed(o) ==
  \/ UNCHANGED <<listeners, task>>
  \/ /\ registry'[o] = {}
     /\ listeners[o] \in Sockets /\ listeners' = [listeners EXCEPT ![o] = None]
     /\ task' = [task EXCEPT ![listeners[o]] = IF @ \in Live THEN "cancelled" ELSE @]

LEMMA Dropped ==
  ASSUME TypeOK, NEW o \in Orgs, Left(o)
  PROVE  /\ registry' \in [Orgs -> SUBSET Sockets]
         /\ \A p \in Orgs : registry'[p] \subseteq registry[p]
         /\ Removed(o)
<1>1. CASE UNCHANGED <<registry, listeners, task>>
  BY <1>1 DEF TypeOK, Removed
<1>2. ASSUME NEW gone \in SUBSET Sockets, Drop(o, gone)
      PROVE  /\ registry' \in [Orgs -> SUBSET Sockets]
             /\ \A p \in Orgs : registry'[p] \subseteq registry[p]
             /\ Removed(o)
  <2>1. registry' = [registry EXCEPT ![o] = registry[o] \ gone]
    BY <1>2 DEF Drop
  <2>2. /\ registry' \in [Orgs -> SUBSET Sockets]
        /\ registry'[o] = registry[o] \ gone
        /\ \A p \in Orgs : registry'[p] \subseteq registry[p]
    BY <2>1 DEF TypeOK
  <2>3. Removed(o)
    BY <1>2, <2>2 DEF Drop, Removed, TypeOK
  <2> QED
    BY <2>2, <2>3
<1> QED
  BY <1>1, <1>2 DEF Left

\* The listeners and tasks after that, one by one.
LEMMA Pointwise ==
  ASSUME TypeOK, NEW o \in Orgs, Removed(o)
  PROVE  /\ listeners' \in [Orgs -> Sockets \cup {None}]
         /\ task' \in [Sockets -> Live \cup {"none", "ended", "cancelled"}]
         /\ \A p \in Orgs : \/ listeners'[p] = listeners[p]
                            \/ p = o /\ listeners'[p] = None /\ registry'[p] = {}
         /\ \A t \in Sockets : \/ task'[t] = task[t]
                               \/ /\ task[t] \in Live /\ task'[t] = "cancelled"
                                  /\ t = listeners[o] /\ listeners'[o] = None
         /\ listeners[o] \in Sockets /\ listeners'[o] = None => task'[listeners[o]] \notin Live
<1>1. CASE UNCHANGED <<listeners, task>>
  <2>1. listeners' = listeners /\ task' = task
    BY <1>1
  <2>2. listeners' \in [Orgs -> Sockets \cup {None}]
        /\ task' \in [Sockets -> Live \cup {"none", "ended", "cancelled"}]
    BY <2>1 DEF TypeOK
  <2>3. ~(listeners[o] \in Sockets /\ listeners'[o] = None)
    BY <2>1, Orgs_
  <2> QED
    BY <2>1, <2>2, <2>3
<1>2. CASE /\ registry'[o] = {}
           /\ listeners[o] \in Sockets /\ listeners' = [listeners EXCEPT ![o] = None]
           /\ task' = [task EXCEPT ![listeners[o]] = IF @ \in Live THEN "cancelled" ELSE @]
  <2>1. listeners' \in [Orgs -> Sockets \cup {None}]
    BY <1>2 DEF TypeOK
  <2>2. task' \in [Sockets -> Live \cup {"none", "ended", "cancelled"}]
    BY <1>2 DEF TypeOK
  <2>3. /\ \A t \in Sockets : \/ task'[t] = task[t]
                              \/ task[t] \in Live /\ task'[t] = "cancelled" /\ t = listeners[o]
        /\ task'[listeners[o]] \notin Live
    BY <1>2 DEF TypeOK, Live
  <2>4. /\ listeners'[o] = None
        /\ \A p \in Orgs : p # o => listeners'[p] = listeners[p]
    BY <1>2 DEF TypeOK
  <2> QED
    BY <1>2, <2>1, <2>2, <2>3, <2>4
<1> QED
  BY <1>1, <1>2 DEF Removed

\* After sockets have left, wherever their handlers are.
LEMMA RestDropped ==
  ASSUME Rest, NEW o \in Orgs, Left(o),
         UNCHANGED <<up, connected, first>>,
         ghosts' \in [raced : SUBSET Orgs, missed : SUBSET Orgs, twice : SUBSET Frames],
         ghosts'.raced = ghosts.raced, ghosts'.missed = ghosts.missed,
         pc' \in [Sockets -> {"new", "joining", "open", "closed"}],
         \A s \in Sockets : pc'[s] = pc[s] \/ pc'[s] = "closed",
         queue' \in [Sockets -> SUBSET Frames],
         \A s \in Sockets : queue'[s] \subseteq queue[s] \/ task[s] = "subscribed",
         \A s \in Sockets, f \in Frames : f \in queue'[s] => f \in queue[s] \/ OrgOf[f] = OrgOf[s],
         sent' \in SUBSET Frames, got' \in [Sockets -> [Frames -> Nat]]
  PROVE  Rest'
<1> USE DEF Rest
<1>0. TypeOK /\ Removed(o) /\ registry' \in [Orgs -> SUBSET Sockets]
      /\ \A p \in Orgs : registry'[p] \subseteq registry[p]
  BY Dropped
<1>1. TypeOK'
  <2>1. \A s \in Sockets : queue'[s] # {} => task'[s] \notin Waiting
    BY <1>0, Pointwise DEF TypeOK, Waiting, Live
  <2> QED
    BY <1>0, <2>1, Pointwise DEF TypeOK
<1>2. Owned'
  <2>1. \A p \in Orgs, s \in Sockets : s \in registry'[p] => OrgOf[s] = p
    BY <1>0 DEF Owned
  <2>2. ASSUME NEW p \in Orgs, listeners'[p] # None
        PROVE  OrgOf[listeners'[p]] = p /\ task'[listeners'[p]] \in Live \cup {"ended"}
    <3>1. listeners'[p] = listeners[p] /\ listeners[p] \in Sockets
      BY <1>0, <2>2, Pointwise DEF TypeOK
    <3>2. OrgOf[listeners[p]] = p /\ task[listeners[p]] \in Live \cup {"ended"}
      BY <2>2, <3>1 DEF Owned
    <3>3. task'[listeners[p]] = task[listeners[p]]
      <4> SUFFICES ASSUME task'[listeners[p]] # task[listeners[p]] PROVE FALSE
        OBVIOUS
      <4>1. listeners[p] = listeners[o] /\ listeners'[o] = None /\ listeners[o] # None
        BY <1>0, <3>1, Pointwise, Orgs_
      <4>2. OrgOf[listeners[o]] = o
        BY <4>1 DEF Owned
      <4> QED
        BY <2>2, <3>2, <4>1, <4>2
    <3> QED
      BY <3>1, <3>2, <3>3
  <2>3. \A s \in Sockets, f \in Frames : f \in queue'[s] => OrgOf[f] = OrgOf[s]
    BY DEF Owned
  <2> QED
    BY <2>1, <2>2, <2>3 DEF Owned
<1>3. Firsts'
  <2> SUFFICES ASSUME NEW s \in Sockets
               PROVE  /\ pc'[s] \in {"new", "joining"} => task'[s] = "none"
                      /\ pc'[s] = "joining" /\ first[s] /\ OrgOf[s] \notin ghosts.raced =>
                           /\ listeners'[OrgOf[s]] = None
                           /\ \A r \in Sockets :
                                pc'[r] = "joining" /\ first[r] /\ OrgOf[r] = OrgOf[s] => r = s
    BY DEF Firsts
  <2>1. pc'[s] \in {"new", "joining"} => task'[s] = "none"
    BY <1>0, Pointwise DEF Firsts, Live
  <2>2. \A r \in Sockets : pc'[r] = "joining" => pc[r] = "joining"
    OBVIOUS
  <2>3. listeners[OrgOf[s]] = None => listeners'[OrgOf[s]] = None
    BY <1>0, Pointwise, Orgs_
  <2> QED
    BY <2>1, <2>2, <2>3 DEF Firsts
<1>4. Heard'
  <2> SUFFICES ASSUME NEW s \in Sockets, s \in registry'[OrgOf[s]]
               PROVE  /\ pc'[s] = "open" => listeners'[OrgOf[s]] # None \/ OrgOf[s] \in ghosts.missed
                      /\ pc'[s] = "joining" /\ ~first[s] => listeners'[OrgOf[s]] # None
    BY DEF Heard
  <2>1. s \in registry[OrgOf[s]] /\ listeners'[OrgOf[s]] = listeners[OrgOf[s]]
    BY <1>0, Pointwise, Orgs_
  <2>2. pc'[s] \in {"open", "joining"} => pc'[s] = pc[s]
    OBVIOUS
  <2> QED
    BY <2>1, <2>2 DEF Heard
<1>5. NoOrphanListener'
  <2> SUFFICES ASSUME NEW s \in Sockets, task'[s] \in Live, OrgOf[s] \notin ghosts.raced
               PROVE  listeners'[OrgOf[s]] = s
    BY DEF NoOrphanListener
  <2>1. task'[s] = task[s] /\ listeners[OrgOf[s]] = s /\ OrgOf[s] \in Orgs
    BY <1>0, Pointwise, Orgs_ DEF NoOrphanListener, Live
  <2> QED
    BY <1>0, <2>1, Pointwise
<1> QED
  BY <1>1, <1>2, <1>3, <1>4, <1>5

\* A delivery: who is registered gets the frame once more.
LEMMA Delivered ==
  ASSUME Rest, NEW o \in Orgs, NEW f \in Frames, SendLocal(o, f)
  PROVE  /\ Left(o)
         /\ got' \in [Sockets -> [Frames -> Nat]]
         /\ \A s \in Sockets, g \in Frames :
              \/ got'[s][g] = got[s][g]
              \/ g = f /\ OrgOf[s] = o /\ got'[s][g] = got[s][g] + 1
<1>1. PICK gone \in SUBSET registry[o] :
        /\ got' = [s \in Sockets |-> IF s \in registry[o] \ gone
                                      THEN [got[s] EXCEPT ![f] = @ + 1] ELSE got[s]]
        /\ IF gone = {} THEN UNCHANGED <<registry, listeners, task>> ELSE Drop(o, gone)
  BY DEF SendLocal
<1>2. got \in [Sockets -> [Frames -> Nat]] /\ registry[o] \subseteq Sockets
  BY DEF Rest, TypeOK
<1>3. ASSUME NEW s \in Sockets
      PROVE  /\ got'[s] \in [Frames -> Nat]
             /\ \A g \in Frames : \/ got'[s][g] = got[s][g]
                                  \/ g = f /\ s \in registry[o] /\ got'[s][g] = got[s][g] + 1
  <2>1. CASE s \in registry[o] \ gone
    <3>1. got'[s] = [got[s] EXCEPT ![f] = got[s][f] + 1] /\ got[s] \in [Frames -> Nat]
      BY <1>1, <1>2, <2>1
    <3> QED
      BY <2>1, <3>1
  <2>2. CASE s \notin registry[o] \ gone
    BY <1>1, <1>2, <2>2
  <2> QED
    BY <2>1, <2>2
<1>4. got' \in [Sockets -> [Frames -> Nat]]
  <2>1. DOMAIN got' = Sockets /\ got' = [s \in Sockets |-> got'[s]]
    BY <1>1
  <2> QED
    BY <1>3, <2>1
<1>5. \A s \in Sockets : s \in registry[o] => OrgOf[s] = o
  BY DEF Rest, Owned
<1>6. Left(o)
  BY <1>1, <1>2 DEF Left
<1> QED
  BY <1>3, <1>4, <1>5, <1>6

-----------------------------------------------------------------------------
\* The sockets' own steps.
LEMMA Connected ==
  ASSUME IInv, NEW s \in Sockets, Connect(s)
  PROVE  IInv'
<1> USE DEF IInv, Rest
<1> DEFINE o == OrgOf[s]
<1>0. o \in Orgs /\ None \notin Sockets
  BY Orgs_
<1>1. /\ registry' \in [Orgs -> SUBSET Sockets]
      /\ registry'[o] = registry[o] \cup {s}
      /\ \A p \in Orgs \ {o} : registry'[p] = registry[p]
  BY <1>0 DEF Connect, TypeOK
<1>2. /\ first' \in [Sockets -> BOOLEAN] /\ first'[s] = FirstForOrg(s)
      /\ \A r \in Sockets \ {s} : first'[r] = first[r]
  BY DEF Connect, TypeOK, FirstForOrg
<1>3. /\ pc' \in [Sockets -> {"new", "joining", "open", "closed"}]
      /\ pc[s] = "new" /\ pc'[s] = IF connected THEN "open" ELSE "joining"
      /\ \A r \in Sockets \ {s} : pc'[r] = pc[r]
  BY DEF Connect, TypeOK
<1>4. /\ ghosts' \in [raced : SUBSET Orgs, missed : SUBSET Orgs, twice : SUBSET Frames]
      /\ ghosts'.twice = ghosts.twice /\ ghosts.raced \subseteq ghosts'.raced
      /\ FirstForOrg(s) /\ AnotherFirst(s) => o \in ghosts'.raced
      /\ \A p \in Orgs : p \in ghosts.missed => p \in ghosts'.missed \/ (p = o /\ connected /\ FirstForOrg(s))
      /\ ghosts'.missed \subseteq ghosts.missed
  BY <1>0 DEF Connect, TypeOK
<1>5. CASE connected /\ FirstForOrg(s)
  <2>1. /\ listeners' \in [Orgs -> Sockets \cup {None}]
        /\ listeners'[o] = s /\ \A p \in Orgs \ {o} : listeners'[p] = listeners[p]
        /\ listeners[o] = None
    BY <1>0, <1>5 DEF Connect, Listen, TypeOK, FirstForOrg
  <2>2. /\ task' \in [Sockets -> Live \cup {"none", "ended", "cancelled"}]
        /\ task'[s] = "starting" /\ \A r \in Sockets \ {s} : task'[r] = task[r]
        /\ task[s] = "none"
    BY <1>3, <1>5 DEF Connect, Listen, TypeOK, Live, Firsts
  <2>3. TypeOK'
    BY <1>1, <1>2, <1>3, <1>4, <2>1, <2>2 DEF Connect, TypeOK, Waiting
  <2>4. Owned'
    <3>1. \A p \in Orgs : listeners'[p] # None =>
            OrgOf[listeners'[p]] = p /\ task'[listeners'[p]] \in Live \cup {"ended"}
      BY <1>0, <2>1, <2>2 DEF Owned, TypeOK, Live
    <3>2. \A p \in Orgs, r \in Sockets : r \in registry'[p] => OrgOf[r] = p
      BY <1>1 DEF Owned
    <3> QED
      BY <3>1, <3>2 DEF Connect, Owned
  <2>5. Firsts'
    <3> SUFFICES ASSUME NEW r \in Sockets
                 PROVE  /\ pc'[r] \in {"new", "joining"} => task'[r] = "none"
                        /\ pc'[r] = "joining" /\ first'[r] /\ OrgOf[r] \notin ghosts'.raced =>
                             /\ listeners'[OrgOf[r]] = None
                             /\ \A q \in Sockets :
                                  pc'[q] = "joining" /\ first'[q] /\ OrgOf[q] = OrgOf[r] => q = r
      BY DEF Firsts
    <3>1. CASE r = s
      BY <1>3, <1>5, <3>1
    <3>2. CASE r # s /\ OrgOf[r] = o
      BY <1>2, <1>3, <1>4, <1>5, <2>2, <3>2 DEF AnotherFirst, Firsts
    <3>3. CASE OrgOf[r] # o
      BY <1>2, <1>3, <1>4, <1>5, <2>1, <2>2, <3>3, Orgs_ DEF Firsts
    <3> QED
      BY <3>1, <3>2, <3>3
  <2>6. Heard'
    <3> SUFFICES ASSUME NEW r \in Sockets, r \in registry'[OrgOf[r]]
                 PROVE  /\ pc'[r] = "open" => listeners'[OrgOf[r]] # None \/ OrgOf[r] \in ghosts'.missed
                        /\ pc'[r] = "joining" /\ ~first'[r] => listeners'[OrgOf[r]] # None
      BY DEF Heard
    <3>1. CASE OrgOf[r] = o
      BY <1>0, <2>1, <3>1
    <3>2. CASE OrgOf[r] # o
      BY <1>1, <1>2, <1>3, <1>4, <2>1, <3>2, Orgs_ DEF Heard
    <3> QED
      BY <3>1, <3>2
  <2>7. NoOrphanListener'
    <3> SUFFICES ASSUME NEW t \in Sockets, task'[t] \in Live, OrgOf[t] \notin ghosts'.raced
                 PROVE  listeners'[OrgOf[t]] = t
      BY DEF NoOrphanListener
    <3>1. CASE t = s
      BY <2>1, <3>1
    <3>2. CASE t # s
      <4>1. listeners[OrgOf[t]] = t
        BY <1>4, <2>2, <3>2 DEF NoOrphanListener
      <4> QED
        BY <1>0, <2>1, <4>1, Orgs_
    <3> QED
      BY <3>1, <3>2
  <2>8. Unsent' /\ TenantIsolation' /\ AtMostOnce'
    BY <1>4, <2>2, Undelivered DEF Connect
  <2> QED
    BY <2>3, <2>4, <2>5, <2>6, <2>7, <2>8
<1>6. CASE ~(connected /\ FirstForOrg(s))
  <2>1. listeners' = listeners /\ task' = task
    BY <1>6 DEF Connect
  <2>2. TypeOK'
    BY <1>1, <1>2, <1>3, <1>4, <2>1 DEF Connect, TypeOK
  <2>3. Owned'
    BY <1>1, <2>1 DEF Connect, Owned
  <2>4. Firsts'
    <3> SUFFICES ASSUME NEW r \in Sockets
                 PROVE  /\ pc'[r] \in {"new", "joining"} => task'[r] = "none"
                        /\ pc'[r] = "joining" /\ first'[r] /\ OrgOf[r] \notin ghosts'.raced =>
                             /\ listeners'[OrgOf[r]] = None
                             /\ \A q \in Sockets :
                                  pc'[q] = "joining" /\ first'[q] /\ OrgOf[q] = OrgOf[r] => q = r
      BY DEF Firsts
    <3>1. pc'[r] \in {"new", "joining"} => task'[r] = "none"
      BY <1>3, <2>1 DEF Firsts
    <3>2. ASSUME pc'[r] = "joining", first'[r], OrgOf[r] \notin ghosts'.raced
          PROVE  /\ listeners'[OrgOf[r]] = None
                 /\ \A q \in Sockets : pc'[q] = "joining" /\ first'[q] /\ OrgOf[q] = OrgOf[r] => q = r
      <4>1. CASE r = s
        BY <1>2, <1>3, <1>4, <2>1, <3>2, <4>1 DEF FirstForOrg, AnotherFirst
      <4>2. CASE r # s
        <5>1. pc[r] = "joining" /\ first[r] /\ OrgOf[r] \notin ghosts.raced
          BY <1>2, <1>3, <1>4, <3>2, <4>2
        <5>2. listeners[OrgOf[r]] = None
          BY <5>1 DEF Firsts
        <5>3. ASSUME NEW q \in Sockets, pc'[q] = "joining", first'[q], OrgOf[q] = OrgOf[r] PROVE q = r
          <6>1. CASE q = s
            BY <1>2, <1>4, <3>2, <4>2, <5>1, <5>3, <6>1 DEF AnotherFirst
          <6>2. CASE q # s
            BY <1>2, <1>3, <5>1, <5>3, <6>2 DEF Firsts
          <6> QED
            BY <6>1, <6>2
        <5> QED
          BY <2>1, <5>2, <5>3
      <4> QED
        BY <4>1, <4>2
    <3> QED
      BY <3>1, <3>2
  <2>5. Heard'
    <3> SUFFICES ASSUME NEW r \in Sockets, r \in registry'[OrgOf[r]]
                 PROVE  /\ pc'[r] = "open" => listeners'[OrgOf[r]] # None \/ OrgOf[r] \in ghosts'.missed
                        /\ pc'[r] = "joining" /\ ~first'[r] => listeners'[OrgOf[r]] # None
      BY DEF Heard
    <3>1. CASE r = s
      BY <1>2, <1>3, <1>6, <2>1, <3>1 DEF FirstForOrg
    <3>2. CASE r # s
      BY <1>1, <1>2, <1>3, <1>4, <1>6, <2>1, <3>2, Orgs_ DEF Heard
    <3> QED
      BY <3>1, <3>2
  <2>6. NoOrphanListener'
    BY <1>4, <2>1 DEF NoOrphanListener
  <2>7. Unsent' /\ TenantIsolation' /\ AtMostOnce'
    BY <1>4, <2>1, Undelivered DEF Connect
  <2> QED
    BY <2>2, <2>3, <2>4, <2>5, <2>6, <2>7
<1> QED
  BY <1>5, <1>6

LEMMA JoinedManager ==
  ASSUME IInv, NEW s \in Sockets, Join(s)
  PROVE  IInv'
<1> USE DEF IInv, Rest
<1> DEFINE o == OrgOf[s]
<1>0. o \in Orgs /\ None \notin Sockets
  BY Orgs_
<1>1. /\ pc' \in [Sockets -> {"new", "joining", "open", "closed"}]
      /\ pc[s] = "joining" /\ pc'[s] = "open" /\ \A r \in Sockets \ {s} : pc'[r] = pc[r]
  BY DEF Join, TypeOK
<1>2. /\ connected' \in BOOLEAN
      /\ UNCHANGED <<up, first, registry, queue, sent, got>>
  BY DEF Join, Joined, TypeOK
<1>3. /\ ghosts' \in [raced : SUBSET Orgs, missed : SUBSET Orgs, twice : SUBSET Frames]
      /\ ghosts'.twice = ghosts.twice /\ ghosts'.raced = ghosts.raced
      /\ \A p \in Orgs : p \in ghosts.missed => p \in ghosts'.missed \/ (p = o /\ first[s] /\ connected')
      /\ first[s] /\ ~connected' => o \in ghosts'.missed
  BY <1>0 DEF Join, TypeOK
<1>4. CASE first[s] /\ connected'
  <2>1. /\ listeners' \in [Orgs -> Sockets \cup {None}]
        /\ listeners'[o] = s /\ \A p \in Orgs \ {o} : listeners'[p] = listeners[p]
    <3>1. listeners' = [listeners EXCEPT ![o] = s] /\ listeners \in [Orgs -> Sockets \cup {None}]
      BY <1>4 DEF Join, Listen, TypeOK
    <3> QED
      BY <1>0, <3>1
  <2>2. /\ task' \in [Sockets -> Live \cup {"none", "ended", "cancelled"}]
        /\ task'[s] = "starting" /\ \A r \in Sockets \ {s} : task'[r] = task[r]
        /\ task[s] = "none"
    BY <1>1, <1>4 DEF Join, Listen, TypeOK, Live, Firsts
  <2>3. TypeOK'
    BY <1>1, <1>2, <1>3, <2>1, <2>2 DEF TypeOK, Waiting
  <2>4. Owned'
    <3>1. \A p \in Orgs : listeners'[p] # None =>
            OrgOf[listeners'[p]] = p /\ task'[listeners'[p]] \in Live \cup {"ended"}
      BY <1>0, <2>1, <2>2 DEF Owned, TypeOK, Live
    <3> QED
      BY <1>2, <3>1 DEF Owned
  <2>5. Firsts'
    <3> SUFFICES ASSUME NEW r \in Sockets
                 PROVE  /\ pc'[r] \in {"new", "joining"} => task'[r] = "none"
                        /\ pc'[r] = "joining" /\ first'[r] /\ OrgOf[r] \notin ghosts'.raced =>
                             /\ listeners'[OrgOf[r]] = None
                             /\ \A q \in Sockets :
                                  pc'[q] = "joining" /\ first'[q] /\ OrgOf[q] = OrgOf[r] => q = r
      BY DEF Firsts
    <3>1. CASE r = s
      BY <1>1, <3>1
    <3>2. CASE r # s /\ OrgOf[r] = o
      BY <1>1, <1>2, <1>3, <1>4, <2>2, <3>2 DEF Firsts
    <3>3. CASE OrgOf[r] # o
      BY <1>1, <1>2, <1>3, <2>1, <2>2, <3>3, Orgs_ DEF Firsts
    <3> QED
      BY <3>1, <3>2, <3>3
  <2>6. Heard'
    <3> SUFFICES ASSUME NEW r \in Sockets, r \in registry'[OrgOf[r]]
                 PROVE  /\ pc'[r] = "open" => listeners'[OrgOf[r]] # None \/ OrgOf[r] \in ghosts'.missed
                        /\ pc'[r] = "joining" /\ ~first'[r] => listeners'[OrgOf[r]] # None
      BY DEF Heard
    <3>1. CASE OrgOf[r] = o
      BY <1>0, <2>1, <3>1
    <3>2. CASE OrgOf[r] # o
      BY <1>1, <1>2, <1>3, <2>1, <3>2, Orgs_ DEF Heard
    <3> QED
      BY <3>1, <3>2
  <2>7. NoOrphanListener'
    <3> SUFFICES ASSUME NEW t \in Sockets, task'[t] \in Live, OrgOf[t] \notin ghosts'.raced
                 PROVE  listeners'[OrgOf[t]] = t
      BY DEF NoOrphanListener
    <3>1. CASE t = s
      BY <2>1, <3>1
    <3>2. CASE t # s
      <4>1. listeners[OrgOf[t]] = t
        BY <1>3, <2>2, <3>2 DEF NoOrphanListener
      <4>2. OrgOf[t] # o
        BY <1>0, <1>1, <1>3, <1>4, <4>1 DEF Firsts
      <4> QED
        BY <2>1, <4>1, <4>2, Orgs_
    <3> QED
      BY <3>1, <3>2
  <2>8. Unsent' /\ TenantIsolation' /\ AtMostOnce'
    BY <1>2, <1>3, <2>2, Undelivered
  <2> QED
    BY <2>3, <2>4, <2>5, <2>6, <2>7, <2>8
<1>5. CASE ~(first[s] /\ connected')
  <2>1. listeners' = listeners /\ task' = task
    BY <1>5 DEF Join
  <2>2. TypeOK'
    BY <1>1, <1>2, <1>3, <2>1 DEF TypeOK
  <2>3. Owned' /\ NoOrphanListener'
    BY <1>2, <1>3, <2>1 DEF Owned, NoOrphanListener
  <2>4. Firsts'
    BY <1>1, <1>2, <1>3, <2>1 DEF Firsts
  <2>5. Heard'
    BY <1>1, <1>2, <1>3, <1>5, <2>1, Orgs_ DEF Heard
  <2>6. Unsent' /\ TenantIsolation' /\ AtMostOnce'
    BY <1>2, <1>3, <2>1, Undelivered
  <2> QED
    BY <2>2, <2>3, <2>4, <2>5, <2>6
<1> QED
  BY <1>4, <1>5

LEMMA Disconnected ==
  ASSUME IInv, NEW s \in Sockets, Disconnect(s)
  PROVE  IInv'
<1> USE DEF IInv
<1>1. OrgOf[s] \in Orgs /\ Left(OrgOf[s])
  BY Orgs_ DEF Disconnect, Left
<1>2. /\ pc' \in [Sockets -> {"new", "joining", "open", "closed"}]
      /\ \A r \in Sockets : pc'[r] = pc[r] \/ pc'[r] = "closed"
      /\ UNCHANGED <<up, connected, first, queue, sent, got, ghosts>>
  BY DEF Disconnect, Rest, TypeOK
<1>3. Rest'
  BY <1>1, <1>2, RestDropped DEF Rest, TypeOK
<1>4. \A t \in Sockets : task'[t] = "subscribed" => task[t] = "subscribed"
  BY <1>1, Dropped, Pointwise DEF Rest
<1>5. Unsent' /\ TenantIsolation' /\ AtMostOnce'
  BY <1>2, <1>4, Undelivered
<1> QED
  BY <1>3, <1>5

-----------------------------------------------------------------------------
\* Publishing and delivering.
LEMMA Published ==
  ASSUME IInv, NEW f \in Frames, Publish(f) \/ PublishElsewhere(f)
  PROVE  IInv'
<1> USE DEF IInv
<1>1. /\ f \notin sent /\ sent' = sent \cup {f}
      /\ UNCHANGED <<up, pc, connected, first, registry, listeners, task, got, ghosts>>
      /\ Enqueue(f)
  BY DEF Publish, PublishElsewhere, manager
<1>2. /\ queue' \in [Sockets -> SUBSET Frames]
      /\ \A t \in Sockets : \/ queue'[t] = queue[t]
                            \/ /\ task[t] = "subscribed" /\ OrgOf[t] = OrgOf[f]
                               /\ queue'[t] = queue[t] \cup {f}
  BY <1>1 DEF Enqueue, Subscribers, Rest, TypeOK
<1>3. Left(OrgOf[f]) /\ OrgOf[f] \in Orgs
  BY <1>1, Orgs_ DEF Left
<1>4. Rest'
  <2>1. \A s \in Sockets, g \in Frames : g \in queue'[s] => g \in queue[s] \/ OrgOf[g] = OrgOf[s]
    BY <1>2
  <2>2. \A s \in Sockets : queue'[s] \subseteq queue[s] \/ task[s] = "subscribed"
    BY <1>2
  <2>3. TypeOK /\ sent' \in SUBSET Frames
    BY <1>1 DEF Rest, TypeOK
  <2> QED
    BY <1>1, <1>2, <1>3, <2>1, <2>2, <2>3, RestDropped DEF TypeOK
<1>5. Unsent'
  BY <1>1, <1>2 DEF Unsent
<1>6. TenantIsolation' /\ AtMostOnce'
  BY <1>1 DEF TenantIsolation, AtMostOnce
<1> QED
  BY <1>4, <1>5, <1>6

LEMMA SentLocally ==
  ASSUME IInv, NEW f \in Frames, BroadcastLocally(f)
  PROVE  IInv'
<1> USE DEF IInv
<1>1. /\ f \notin sent /\ sent' = sent \cup {f}
      /\ UNCHANGED <<up, pc, connected, first>>
      /\ SendLocal(OrgOf[f], f) /\ OrgOf[f] \in Orgs
  BY Orgs_ DEF BroadcastLocally
<1>2. /\ queue' \in [Sockets -> SUBSET Frames]
      /\ \A t \in Sockets : \/ queue'[t] = queue[t]
                            \/ /\ task[t] = "subscribed" /\ OrgOf[t] = OrgOf[f] /\ f \in ghosts'.twice
                               /\ queue'[t] = queue[t] \cup {f}
      /\ ghosts' \in [raced : SUBSET Orgs, missed : SUBSET Orgs, twice : SUBSET Frames]
      /\ ghosts'.raced = ghosts.raced /\ ghosts'.missed = ghosts.missed
      /\ ghosts.twice \subseteq ghosts'.twice
  <2>1. CASE UNCHANGED <<queue, ghosts>>
    BY <2>1 DEF Rest, TypeOK
  <2>2. CASE Enqueue(f) /\ ghosts' = [ghosts EXCEPT !.twice = @ \cup {f}]
    BY <2>2 DEF Enqueue, Subscribers, Rest, TypeOK
  <2> QED
    BY <2>1, <2>2 DEF BroadcastLocally
<1>3. /\ Left(OrgOf[f])
      /\ got' \in [Sockets -> [Frames -> Nat]]
      /\ \A s \in Sockets, g \in Frames :
           \/ got'[s][g] = got[s][g]
           \/ g = f /\ OrgOf[s] = OrgOf[f] /\ got'[s][g] = got[s][g] + 1
  BY <1>1, Delivered
<1>4. Rest'
  <2>1. \A s \in Sockets, g \in Frames : g \in queue'[s] => g \in queue[s] \/ OrgOf[g] = OrgOf[s]
    BY <1>2
  <2>2. \A s \in Sockets : queue'[s] \subseteq queue[s] \/ task[s] = "subscribed"
    BY <1>2
  <2>3. TypeOK /\ sent' \in SUBSET Frames
    BY <1>1 DEF Rest, TypeOK
  <2> QED
    BY <1>1, <1>2, <1>3, <2>1, <2>2, <2>3, RestDropped DEF TypeOK
<1>5. \A t \in Sockets : task'[t] = "subscribed" => task[t] = "subscribed"
  BY <1>1, <1>3, Dropped, Pointwise DEF Rest
<1>6. \A s \in Sockets : got[s][f] = 0 /\ f \notin queue[s]
  BY <1>1 DEF Unsent
<1>7. Unsent'
  <2> SUFFICES ASSUME NEW g \in Frames, NEW t \in Sockets
               PROVE  /\ g \notin sent' => got'[t][g] = 0 /\ g \notin queue'[t]
                      /\ /\ g \in queue'[t] /\ task'[t] = "subscribed" /\ g \notin ghosts'.twice
                         /\ OrgOf[t] \notin ghosts'.raced
                         => \A s \in Sockets : OrgOf[s] = OrgOf[t] => got'[s][g] = 0
    BY DEF Unsent
  <2>1. CASE g = f
    BY <1>1, <1>2, <1>6, <2>1
  <2>2. CASE g # f
    <3>1. \A s \in Sockets : got'[s][g] = got[s][g]
      BY <1>3, <2>2
    <3>2. g \in queue'[t] => g \in queue[t]
      BY <1>2, <2>2
    <3> QED
      BY <1>1, <1>2, <1>5, <2>2, <3>1, <3>2 DEF Unsent
  <2> QED
    BY <2>1, <2>2
<1>8. TenantIsolation'
  BY <1>3 DEF TenantIsolation
<1>9. AtMostOnce'
  BY <1>2, <1>3, <1>6 DEF AtMostOnce
<1> QED
  BY <1>4, <1>7, <1>8, <1>9

LEMMA Relayed ==
  ASSUME IInv, NEW t \in Sockets, Relay(t)
  PROVE  IInv'
<1> USE DEF IInv
<1>0. UNCHANGED <<up, pc, connected, first, sent, ghosts>> /\ task[t] = "subscribed"
  BY DEF Relay
<1>1. PICK f \in queue[t] : queue' = [queue EXCEPT ![t] = @ \ {f}] /\ SendLocal(OrgOf[t], f)
  BY DEF Relay
<1>2. /\ f \in Frames /\ OrgOf[t] \in Orgs
      /\ queue' \in [Sockets -> SUBSET Frames]
      /\ f \notin queue'[t] /\ \A s \in Sockets : queue'[s] \subseteq queue[s]
  BY <1>1, Orgs_ DEF Rest, TypeOK
<1>3. /\ Left(OrgOf[t])
      /\ got' \in [Sockets -> [Frames -> Nat]]
      /\ \A s \in Sockets, g \in Frames :
           \/ got'[s][g] = got[s][g]
           \/ g = f /\ OrgOf[s] = OrgOf[t] /\ got'[s][g] = got[s][g] + 1
  BY <1>1, <1>2, Delivered
<1>4. Rest'
  BY <1>0, <1>2, <1>3, RestDropped DEF Rest, TypeOK
<1>5. \A s \in Sockets : task'[s] = "subscribed" => task[s] = "subscribed"
  BY <1>2, <1>3, Dropped, Pointwise DEF Rest
<1>6. OrgOf[f] = OrgOf[t] /\ f \in sent
  BY <1>1, <1>2 DEF Rest, Owned, Unsent
<1>7. f \notin ghosts.twice /\ OrgOf[t] \notin ghosts.raced =>
        /\ \A s \in Sockets : OrgOf[s] = OrgOf[t] => got[s][f] = 0
        /\ \A u \in Sockets : OrgOf[u] = OrgOf[t] /\ task[u] = "subscribed" => u = t
  BY <1>0, <1>1, <1>2 DEF Unsent, Rest, NoOrphanListener, Live
<1>8. Unsent'
  <2> SUFFICES ASSUME NEW g \in Frames, NEW u \in Sockets
               PROVE  /\ g \notin sent' => got'[u][g] = 0 /\ g \notin queue'[u]
                      /\ /\ g \in queue'[u] /\ task'[u] = "subscribed" /\ g \notin ghosts'.twice
                         /\ OrgOf[u] \notin ghosts'.raced
                         => \A s \in Sockets : OrgOf[s] = OrgOf[u] => got'[s][g] = 0
    BY DEF Unsent
  <2>1. CASE g = f
    <3>1. f \in queue'[u] => OrgOf[u] = OrgOf[t]
      BY <1>2, <1>6 DEF Rest, Owned
    <3> QED
      BY <1>0, <1>2, <1>5, <1>6, <1>7, <2>1, <3>1
  <2>2. CASE g # f
    <3>1. \A s \in Sockets : got'[s][g] = got[s][g]
      BY <1>3, <2>2
    <3>2. g \in queue'[u] => g \in queue[u]
      BY <1>2
    <3> QED
      BY <1>0, <1>5, <3>1, <3>2 DEF Unsent
  <2> QED
    BY <2>1, <2>2
<1>9. TenantIsolation'
  BY <1>3, <1>6 DEF TenantIsolation
<1>10. AtMostOnce'
  BY <1>0, <1>3, <1>7 DEF AtMostOnce
<1> QED
  BY <1>4, <1>8, <1>9, <1>10

-----------------------------------------------------------------------------
\* Tasks and the process.
LEMMA TaskStep ==
  ASSUME IInv, NEW s \in Sockets, Subscribe(s) \/ SubscriptionEnds(s)
  PROVE  IInv'
<1> USE DEF IInv, Rest
<1>1. /\ UNCHANGED <<up, pc, connected, first, registry, listeners, queue, sent, got, ghosts>>
      /\ task[s] \in Live
      /\ task' \in [Sockets -> Live \cup {"none", "ended", "cancelled"}]
      /\ task'[s] \in {"subscribed", "ended"}
      /\ \A t \in Sockets \ {s} : task'[t] = task[t]
      /\ task'[s] = "subscribed" => task[s] = "starting"
  BY DEF Subscribe, SubscriptionEnds, TypeOK, Live
<1>2. TypeOK'
  BY <1>1 DEF TypeOK, Live, Waiting
<1>3. Owned'
  <2>1. \A o \in Orgs : listeners[o] # None =>
          listeners[o] \in Sockets /\ task'[listeners[o]] \in Live \cup {"ended"}
    <3> SUFFICES ASSUME NEW o \in Orgs, listeners[o] # None
                 PROVE  listeners[o] \in Sockets /\ task'[listeners[o]] \in Live \cup {"ended"}
      OBVIOUS
    <3>1. listeners[o] \in Sockets /\ task[listeners[o]] \in Live \cup {"ended"}
      BY DEF TypeOK, Owned
    <3>2. CASE listeners[o] = s
      BY <1>1, <3>1, <3>2 DEF Live
    <3>3. CASE listeners[o] # s
      BY <1>1, <3>1, <3>3
    <3> QED
      BY <3>2, <3>3
  <2> QED
    BY <1>1, <2>1 DEF Owned
<1>4. Firsts'
  BY <1>1 DEF Firsts, Live
<1>5. Heard'
  BY <1>1 DEF Heard
<1>6. NoOrphanListener'
  BY <1>1 DEF NoOrphanListener
<1>7. \A t \in Sockets : task'[t] = "subscribed" /\ task[t] # "subscribed" => queue[t] = {}
  BY <1>1 DEF TypeOK, Waiting
<1>8. Unsent' /\ TenantIsolation' /\ AtMostOnce'
  BY <1>1, <1>7, Undelivered
<1> QED
  BY <1>2, <1>3, <1>4, <1>5, <1>6, <1>8

LEMMA ShutDown ==
  ASSUME IInv, Shutdown
  PROVE  IInv'
<1> USE DEF IInv, Rest
<1>1. /\ pc' \in [Sockets -> {"new", "joining", "open", "closed"}]
      /\ \A s \in Sockets : pc'[s] \in {"new", "closed"} /\ (pc'[s] = "new" => pc[s] = "new")
      /\ task' \in [Sockets -> Live \cup {"none", "ended", "cancelled"}]
      /\ \A s \in Sockets : task'[s] \notin Live /\ (task[s] \notin Live => task'[s] = task[s])
      /\ \A s \in Sockets : task'[s] = task[s] \/ task'[s] = "cancelled"
      /\ \A o \in Orgs : registry'[o] = {} /\ listeners'[o] = None
      /\ registry' \in [Orgs -> SUBSET Sockets] /\ listeners' \in [Orgs -> Sockets \cup {None}]
      /\ ghosts' \in [raced : SUBSET Orgs, missed : SUBSET Orgs, twice : SUBSET Frames]
      /\ ghosts'.raced = ghosts.raced /\ ghosts'.twice = ghosts.twice
      /\ connected' = FALSE /\ UNCHANGED <<up, first, queue, sent, got>>
  BY DEF Shutdown, TypeOK, Live
<1>2. TypeOK'
  BY <1>1 DEF TypeOK, Waiting
<1>3. Owned' /\ Firsts' /\ Heard' /\ NoOrphanListener'
  BY <1>1, Orgs_ DEF Owned, Firsts, Heard, NoOrphanListener, Live
<1>4. Unsent' /\ TenantIsolation' /\ AtMostOnce'
  BY <1>1, Undelivered
<1> QED
  BY <1>2, <1>3, <1>4

\* Neither the broker's reach nor a step that changes nothing matters.
LEMMA Unmoved ==
  ASSUME IInv, up' \in BOOLEAN, UNCHANGED <<pc, manager, queue, sent, got, ghosts>>
  PROVE  IInv'
BY DEF manager, IInv, Rest, TypeOK, Owned, Firsts, Heard, NoOrphanListener, Unsent, TenantIsolation, AtMostOnce

LEMMA NextHolds == IInv /\ [Next]_vars => IInv'
<1> SUFFICES ASSUME IInv, [Next]_vars PROVE IInv'
  OBVIOUS
<1>1. ASSUME NEW s \in Sockets, Connect(s) PROVE IInv'
  BY <1>1, Connected
<1>2. ASSUME NEW s \in Sockets, Join(s) PROVE IInv'
  BY <1>2, JoinedManager
<1>3. ASSUME NEW s \in Sockets, Disconnect(s) PROVE IInv'
  BY <1>3, Disconnected
<1>4. ASSUME NEW s \in Sockets, Subscribe(s) \/ SubscriptionEnds(s) PROVE IInv'
  BY <1>4, TaskStep
<1>5. ASSUME NEW s \in Sockets, Relay(s) PROVE IInv'
  BY <1>5, Relayed
<1>6. ASSUME NEW f \in Frames, Publish(f) \/ PublishElsewhere(f) PROVE IInv'
  BY <1>6, Published
<1>7. ASSUME NEW f \in Frames, BroadcastLocally(f) PROVE IInv'
  BY <1>7, SentLocally
<1>8. CASE Shutdown
  BY <1>8, ShutDown
<1>9. up \in BOOLEAN
  BY DEF IInv, Rest, TypeOK
<1>10. CASE BrokerTurns
  BY <1>9, <1>10, Unmoved DEF BrokerTurns
<1>11. CASE UNCHANGED vars
  BY <1>9, <1>11, Unmoved DEF vars
<1> QED
  BY <1>1, <1>2, <1>3, <1>4, <1>5, <1>6, <1>7, <1>8, <1>10, <1>11 DEF Next

\* Listeners stay with their organization and frames with theirs, and one live
\* listener per organization takes a frame once: the inductive invariant.
THEOREM Invariance == Spec => []IInv
<1> QED
  BY InitHolds, NextHolds, PTL DEF Spec

\* No socket is ever sent another organization's frame.
THEOREM Isolation == Spec => []TenantIsolation
<1>1. IInv => TenantIsolation
  BY DEF IInv
<1> QED
  BY <1>1, Invariance, PTL

\* A frame reaches a socket twice only by a publish that raised after it was
\* taken, or two first sockets.
THEOREM DeliveredOnce == Spec => []AtMostOnce
<1>1. IInv => AtMostOnce
  BY DEF IInv
<1> QED
  BY <1>1, Invariance, PTL

-----------------------------------------------------------------------------
\* What NoListenerLeft rests on: a registered socket's handler has not ended.
Kept ==
  /\ \A o \in Orgs, s \in Sockets :
       s \in registry[o] => OrgOf[s] = o /\ pc[s] \in {"joining", "open"}
  /\ NoListenerLeft

\* Sockets that leave take the listener with the last of them.
LEMMA KeptDropped ==
  ASSUME TypeOK, Kept, NEW o \in Orgs, NEW gone \in SUBSET Sockets, Drop(o, gone),
         \A s \in Sockets \ gone : pc'[s] = pc[s],
         \A s \in Sockets : pc'[s] # pc[s] => OrgOf[s] = o
  PROVE  Kept'
<1>1. /\ registry'[o] = registry[o] \ gone
      /\ \A p \in Orgs \ {o} : registry'[p] = registry[p] /\ listeners'[p] = listeners[p]
      /\ listeners'[o] # None => registry'[o] # {}
  BY DEF Drop, TypeOK
<1>2. \A p \in Orgs, s \in Sockets : s \in registry'[p] => s \in registry[p] /\ pc'[s] = pc[s]
  BY <1>1 DEF Kept
<1>3. NoListenerLeft'
  <2> SUFFICES ASSUME NEW p \in Orgs, listeners'[p] # None
               PROVE  \E s \in Sockets : OrgOf[s] = p /\ pc'[s] \in {"joining", "open"}
    BY DEF NoListenerLeft
  <2>1. CASE p = o
    <3>1. PICK s \in registry'[o] : TRUE
      BY <1>1, <2>1
    <3>2. s \in Sockets
      BY <1>1, <3>1 DEF TypeOK
    <3> QED
      BY <1>2, <2>1, <3>1, <3>2 DEF Kept
  <2>2. CASE p # o
    <3>1. PICK s \in Sockets : OrgOf[s] = p /\ pc[s] \in {"joining", "open"}
      BY <1>1, <2>2 DEF Kept, NoListenerLeft
    <3> QED
      BY <2>2, <3>1
  <2> QED
    BY <2>1, <2>2
<1> QED
  BY <1>2, <1>3 DEF Kept

LEMMA KeptStep == TypeOK /\ Kept /\ [Next]_vars => Kept'
<1> SUFFICES ASSUME TypeOK, Kept, [Next]_vars PROVE Kept'
  OBVIOUS
<1>1. ASSUME NEW s \in Sockets, Connect(s) PROVE Kept'
  <2>1. /\ pc[s] = "new" /\ pc'[s] \in {"joining", "open"} /\ OrgOf[s] \in Orgs
        /\ \A r \in Sockets \ {s} : pc'[r] = pc[r]
    BY <1>1, Orgs_ DEF Connect, TypeOK
  <2>2. /\ registry'[OrgOf[s]] = registry[OrgOf[s]] \cup {s}
        /\ \A o \in Orgs \ {OrgOf[s]} : registry'[o] = registry[o]
    BY <1>1, <2>1 DEF Connect, TypeOK
  <2>3. \A o \in Orgs \ {OrgOf[s]} : listeners'[o] = listeners[o]
    BY <1>1 DEF Connect, Listen, TypeOK
  <2>4. ASSUME NEW o \in Orgs, NEW r \in Sockets, r \in registry'[o]
        PROVE  OrgOf[r] = o /\ pc'[r] \in {"joining", "open"}
    BY <2>1, <2>2, <2>4 DEF Kept
  <2>5. NoListenerLeft'
    BY <2>1, <2>3 DEF Kept, NoListenerLeft
  <2> QED
    BY <2>4, <2>5 DEF Kept
<1>2. ASSUME NEW s \in Sockets, Join(s) PROVE Kept'
  <2>1. /\ pc[s] = "joining" /\ pc'[s] = "open" /\ OrgOf[s] \in Orgs
        /\ \A r \in Sockets \ {s} : pc'[r] = pc[r]
        /\ registry' = registry
        /\ \A o \in Orgs : listeners'[o] # None => listeners[o] # None \/ o = OrgOf[s]
    BY <1>2, Orgs_ DEF Join, Listen, TypeOK
  <2> QED
    BY <2>1 DEF Kept, NoListenerLeft
<1>3. ASSUME NEW s \in Sockets, Disconnect(s) PROVE Kept'
  <2>1. Drop(OrgOf[s], {s}) /\ OrgOf[s] \in Orgs /\ \A r \in Sockets \ {s} : pc'[r] = pc[r]
    BY <1>3, Orgs_ DEF Disconnect, TypeOK
  <2> QED
    BY <2>1, KeptDropped
<1>4. ASSUME NEW o \in Orgs, NEW f \in Frames, SendLocal(o, f), UNCHANGED pc PROVE Kept'
  <2>1. PICK gone \in SUBSET registry[o] :
          IF gone = {} THEN UNCHANGED <<registry, listeners, task>> ELSE Drop(o, gone)
    BY <1>4 DEF SendLocal
  <2>2. CASE UNCHANGED <<registry, listeners, task>>
    BY <1>4, <2>2 DEF Kept, NoListenerLeft
  <2>3. CASE Drop(o, gone)
    BY <1>4, <2>3, KeptDropped DEF TypeOK
  <2> QED
    BY <2>1, <2>2, <2>3
<1>5. ASSUME NEW f \in Frames, BroadcastLocally(f) PROVE Kept'
  BY <1>4, <1>5, Orgs_ DEF BroadcastLocally
<1>6. ASSUME NEW s \in Sockets, Relay(s) PROVE Kept'
  <2>1. PICK f \in queue[s] : SendLocal(OrgOf[s], f)
    BY <1>6 DEF Relay
  <2>2. f \in Frames
    BY <2>1 DEF TypeOK
  <2> QED
    BY <1>4, <1>6, <2>1, <2>2, Orgs_ DEF Relay
<1>7. CASE Shutdown
  BY <1>7 DEF Shutdown, Kept, NoListenerLeft
<1>8. ASSUME UNCHANGED <<pc, registry, listeners>> PROVE Kept'
  BY <1>8 DEF Kept, NoListenerLeft
<1>9. ASSUME NEW f \in Frames, Publish(f) \/ PublishElsewhere(f) PROVE Kept'
  BY <1>8, <1>9 DEF Publish, PublishElsewhere, manager
<1>10. ASSUME NEW s \in Sockets, Subscribe(s) \/ SubscriptionEnds(s) PROVE Kept'
  BY <1>8, <1>10 DEF Subscribe, SubscriptionEnds
<1>11. CASE BrokerTurns \/ UNCHANGED vars
  BY <1>8, <1>11 DEF BrokerTurns, manager, vars
<1> QED
  BY <1>1, <1>2, <1>3, <1>5, <1>6, <1>7, <1>9, <1>10, <1>11 DEF Next

\* However connects, failed sends and handlers' ends are interleaved, an
\* organization whose last handler has ended has no listener registered.
THEOREM ListenerRemoved == Spec => []NoListenerLeft
<1>1. Init => Kept
  BY DEF Init, Kept, NoListenerLeft
<1>2. IInv => TypeOK
  BY DEF IInv, Rest
<1>3. Kept => NoListenerLeft
  BY DEF Kept
<1> QED
  BY <1>1, <1>2, <1>3, KeptStep, Invariance, PTL DEF Spec


\* An organization with an open socket has its listener, and one without has none.
THEOREM ListenerServes == Spec => []Served
<1>1. IInv /\ NoListenerLeft => Served
  BY Orgs_ DEF IInv, Rest, TypeOK, Owned, Heard, Served, Live
<1> QED
  BY <1>1, Invariance, ListenerRemoved, PTL
=============================================================================
