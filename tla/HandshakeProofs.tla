--------------------------- MODULE HandshakeProofs ---------------------------
(***************************************************************************)
(* Proofs about Handshake, for any number of workers, handshakes and        *)
(* tickets and any lifetimes: a ticket is spent once, except where workers  *)
(* without Redis cannot tell, or Redis has lost the mark.                  *)
(***************************************************************************)
EXTENDS Handshake, TLAPS

\* A ticket expires within its lifetime.
TicketsExpire == \A t \in Tickets : ticket[t] # None => ticket[t].exp <= now + Lifetime

\* A handshake has spent its ticket or is about to, and one that is about to
\* found it unexpired no longer ago than a claim may take.
InTime ==
  \A h \in Handshakes :
    /\ claims[h] # "none" <=> hs[h].pc \in Claimed
    /\ hs[h].pc \in {"verified", "connecting", "adding"} =>
         /\ ticket[hs[h].ticket] # None
         /\ hs[h].since < ticket[hs[h].ticket].exp
         /\ now <= hs[h].since + MaxDelay

\* What was spent is marked, in Redis for longer than any claim may still come,
\* unless the mark was lost, or in the worker's own set.
Marked ==
  \A h \in Handshakes :
    /\ claims[h] = "redis" =>
         /\ ticket[hs[h].ticket] # None
         /\ ticket[hs[h].ticket].exp + Slack <= spent[hs[h].ticket]
    /\ claims[h] \in {"own", "raced"} => hs[h].ticket \in here[hs[h].worker]

IInv == TypeOK /\ TicketsExpire /\ InTime /\ Marked /\ OneSocketPerTicket

-----------------------------------------------------------------------------
LEMMA InitHolds == Init => IInv
<1> SUFFICES ASSUME Init PROVE IInv
  OBVIOUS
<1>1. \A h \in Handshakes : hs[h].pc = "idle"
  BY DEF Init
<1>2. TypeOK
  BY <1>1 DEF Init, TypeOK, Pcs, Claimed
<1> QED
  BY <1>1, <1>2 DEF Init, IInv, TicketsExpire, InTime, Marked, OneSocketPerTicket, Claimed

\* A step of h that spends nothing and leaves it at pc.
LEMMA Moved ==
  ASSUME IInv, NEW h \in Handshakes, NEW pc \in Pcs, Goto(h, pc),
         store' \in [Workers -> {"untried", "connecting", "shared", "none"}],
         UNCHANGED <<now, version, ticket, spent, here, claims>>,
         hs[h].pc \in Claimed <=> pc \in Claimed,
         pc \in {"verified", "connecting", "adding"} => hs[h].pc \in {"verified", "connecting", "adding"}
  PROVE  IInv'
<1>1. /\ hs' \in [Handshakes -> [pc : Pcs, ticket : Tickets, worker : Workers, since : Nat]]
      /\ hs'[h].pc = pc
      /\ \A g \in Handshakes : /\ hs'[g].ticket = hs[g].ticket
                               /\ hs'[g].worker = hs[g].worker
                               /\ hs'[g].since = hs[g].since
                               /\ g # h => hs'[g].pc = hs[g].pc
  BY DEF Goto, IInv, TypeOK
<1>2. InTime'
  BY <1>1 DEF IInv, InTime
<1>3. TypeOK'
  BY <1>1, <1>2 DEF IInv, TypeOK, InTime
<1>4. TicketsExpire' /\ Marked' /\ OneSocketPerTicket'
  BY <1>1 DEF IInv, TicketsExpire, Marked, OneSocketPerTicket
<1> QED
  BY <1>2, <1>3, <1>4 DEF IInv

LEMMA Issued ==
  ASSUME IInv, NEW t \in Tickets, Issue(t)
  PROVE  IInv'
<1> USE TimesAssumption
<1>1. /\ ticket' \in [Tickets -> [tv : Nat, exp : Nat] \cup {None}]
      /\ ticket'[t].exp = now + Lifetime
      /\ \A u \in Tickets : ticket[u] # None => ticket'[u] = ticket[u]
      /\ \A u \in Tickets : u # t => ticket'[u] = ticket[u]
  BY DEF Issue, IInv, TypeOK
<1>2. TypeOK'
  BY <1>1 DEF Issue, IInv, TypeOK
<1>3. TicketsExpire'
  BY <1>1 DEF Issue, IInv, TypeOK, TicketsExpire
<1>4. InTime' /\ Marked'
  BY <1>1 DEF Issue, IInv, TypeOK, InTime, Marked
<1> QED
  BY <1>2, <1>3, <1>4 DEF Issue, IInv, OneSocketPerTicket

LEMMA Verified ==
  ASSUME IInv, NEW h \in Handshakes, Verify(h)
  PROVE  IInv'
<1> USE TimesAssumption
<1>1. /\ hs' \in [Handshakes -> [pc : Pcs, ticket : Tickets, worker : Workers, since : Nat]]
      /\ hs'[h].pc = "verified" /\ hs'[h].since = now
      /\ \A g \in Handshakes : /\ hs'[g].ticket = hs[g].ticket
                               /\ hs'[g].worker = hs[g].worker
                               /\ g # h => hs'[g] = hs[g]
  BY DEF Verify, IInv, TypeOK, Pcs
<1>2. InTime'
  BY <1>1 DEF Verify, IInv, TypeOK, InTime, Claimed
<1>3. TypeOK'
  BY <1>1, <1>2 DEF Verify, IInv, TypeOK, InTime
<1>4. TicketsExpire' /\ Marked' /\ OneSocketPerTicket'
  BY <1>1 DEF Verify, IInv, TicketsExpire, Marked, OneSocketPerTicket
<1> QED
  BY <1>2, <1>3, <1>4 DEF IInv

\* h spends its ticket and is told how.
LEMMA Spent ==
  ASSUME IInv, NEW h \in Handshakes, NEW how \in {"redis", "own", "raced"}, Goto(h, "claimed"),
         hs[h].pc \in {"verified", "adding"},
         claims' = [claims EXCEPT ![h] = how],
         spent' \in [Tickets -> Nat], \A t \in Tickets : spent[t] <= spent'[t],
         here' \in [Workers -> SUBSET Tickets], \A w \in Workers : here[w] \subseteq here'[w],
         UNCHANGED <<now, version, ticket, store>>,
         how = "redis" => Free(hs[h].ticket) /\ spent'[hs[h].ticket] = now + KeptFor,
         how # "redis" => hs[h].ticket \in here'[hs[h].worker],
         how = "own" => hs[h].ticket \notin here[hs[h].worker]
  PROVE  IInv'
<1> USE TimesAssumption
<1>1. /\ hs' \in [Handshakes -> [pc : Pcs, ticket : Tickets, worker : Workers, since : Nat]]
      /\ hs'[h].pc = "claimed"
      /\ \A g \in Handshakes : /\ hs'[g].ticket = hs[g].ticket
                               /\ hs'[g].worker = hs[g].worker
                               /\ hs'[g].since = hs[g].since
                               /\ g # h => hs'[g].pc = hs[g].pc
  BY DEF Goto, IInv, TypeOK, Pcs
<1>2. /\ claims' \in [Handshakes -> {"none", "redis", "lost", "own", "raced"}]
      /\ claims'[h] = how
      /\ \A g \in Handshakes \ {h} : claims'[g] = claims[g]
  BY DEF IInv, TypeOK
<1>3. /\ hs[h].ticket \in Tickets /\ hs[h].since \in Nat /\ now \in Nat
      /\ ticket[hs[h].ticket] # None /\ ticket[hs[h].ticket].exp \in Nat
      /\ hs[h].since < ticket[hs[h].ticket].exp
      /\ now <= hs[h].since + MaxDelay
      /\ ticket[hs[h].ticket].exp <= now + Lifetime
  BY DEF IInv, TypeOK, InTime, TicketsExpire
<1>4. InTime'
  BY <1>1, <1>2 DEF IInv, InTime, Claimed
<1>5. TypeOK'
  BY <1>1, <1>2, <1>4 DEF IInv, TypeOK, InTime
<1>6. TicketsExpire'
  BY DEF IInv, TicketsExpire
<1>7. Marked'
  <2> SUFFICES ASSUME NEW g \in Handshakes
               PROVE  /\ claims'[g] = "redis" =>
                           /\ ticket'[hs'[g].ticket] # None
                           /\ ticket'[hs'[g].ticket].exp + Slack <= spent'[hs'[g].ticket]
                      /\ claims'[g] \in {"own", "raced"} => hs'[g].ticket \in here'[hs'[g].worker]
    BY DEF Marked
  <2>1. CASE g = h
    BY <1>1, <1>2, <1>3, <2>1 DEF KeptFor
  <2>2. CASE g # h
    <3>1. /\ hs[g].ticket \in Tickets /\ hs[g].worker \in Workers
          /\ ticket[hs[g].ticket] # None => ticket[hs[g].ticket].exp \in Nat
          /\ spent[hs[g].ticket] \in Nat /\ spent'[hs[g].ticket] \in Nat
      BY DEF IInv, TypeOK
    <3> QED
      BY <1>1, <1>2, <2>2, <3>1 DEF IInv, Marked
  <2> QED
    BY <2>1, <2>2
<1>8. ASSUME NEW g \in Handshakes, g # h, hs[g].ticket = hs[h].ticket
      PROVE  /\ how = "redis" => claims[g] # "redis"
             /\ how = "own" /\ claims[g] = "own" => hs[g].worker # hs[h].worker
  <2>1. ASSUME how = "redis", claims[g] = "redis" PROVE FALSE
    <3>1. ticket[hs[h].ticket].exp + Slack <= spent[hs[h].ticket] /\ spent[hs[h].ticket] <= now
      BY <1>8, <2>1 DEF IInv, Marked, Free
    <3>2. spent[hs[h].ticket] \in Nat
      BY <1>3 DEF IInv, TypeOK
    <3> QED
      BY <1>3, <3>1, <3>2, SlackAssumption
  <2> QED
    BY <1>8, <2>1 DEF IInv, Marked
<1>9. OneSocketPerTicket'
  BY <1>1, <1>2, <1>8 DEF IInv, OneSocketPerTicket
<1> QED
  BY <1>4, <1>5, <1>6, <1>7, <1>9 DEF IInv

LEMMA ClaimedInRedis ==
  ASSUME IInv, NEW h \in Handshakes, ClaimInRedis(h)
  PROVE  IInv'
<1>1. CASE Free(hs[h].ticket)
  <2>1. /\ spent' \in [Tickets -> Nat]
        /\ \A t \in Tickets : spent[t] <= spent'[t]
        /\ spent'[hs[h].ticket] = now + KeptFor
    <3>1. hs[h].ticket \in Tickets /\ now \in Nat /\ KeptFor \in Nat /\ spent \in [Tickets -> Nat]
      BY TimesAssumption DEF KeptFor, IInv, TypeOK
    <3>2. spent' = [spent EXCEPT ![hs[h].ticket] = now + KeptFor]
      BY <1>1 DEF ClaimInRedis
    <3> QED
      BY <1>1, <3>1, <3>2 DEF Free
  <2> QED
    BY <1>1, <2>1, Spent DEF ClaimInRedis, IInv, TypeOK
<1>2. CASE ~Free(hs[h].ticket)
  BY <1>2, Moved DEF ClaimInRedis, Refuse, IInv, TypeOK, Pcs, Claimed
<1> QED
  BY <1>1, <1>2

\* A claim that fails leaves at most a mark, which lasts as long as any.
LEMMA FailedInRedis ==
  ASSUME IInv, NEW h \in Handshakes, ClaimFails(h)
  PROVE  IInv'
<1> USE TimesAssumption
<1>1. /\ hs' \in [Handshakes -> [pc : Pcs, ticket : Tickets, worker : Workers, since : Nat]]
      /\ hs'[h].pc = "idle"
      /\ \A g \in Handshakes : /\ hs'[g].ticket = hs[g].ticket
                               /\ hs'[g].worker = hs[g].worker
                               /\ g # h => hs'[g] = hs[g]
  BY DEF ClaimFails, Refuse, Goto, IInv, TypeOK, Pcs
<1>2. /\ spent' \in [Tickets -> Nat]
      /\ \A t \in Tickets : spent[t] <= spent'[t]
  BY DEF ClaimFails, Free, KeptFor, IInv, TypeOK
<1>3. UNCHANGED <<now, version, ticket, store, here, claims>> /\ claims[h] = "none"
  BY DEF ClaimFails, Refuse, IInv, InTime, Claimed
<1>4. InTime'
  BY <1>1, <1>3 DEF IInv, InTime, Claimed
<1>5. TypeOK'
  BY <1>1, <1>2, <1>3, <1>4 DEF IInv, TypeOK, InTime
<1>6. ASSUME NEW g \in Handshakes, claims[g] = "redis"
      PROVE  /\ ticket[hs[g].ticket] # None
             /\ ticket[hs[g].ticket].exp + Slack <= spent'[hs[g].ticket]
  <2>1. /\ hs[g].ticket \in Tickets /\ ticket[hs[g].ticket] # None
        /\ ticket[hs[g].ticket].exp + Slack <= spent[hs[g].ticket]
        /\ ticket[hs[g].ticket].exp \in Nat /\ spent[hs[g].ticket] \in Nat
    BY <1>6 DEF IInv, TypeOK, Marked
  <2>2. spent[hs[g].ticket] <= spent'[hs[g].ticket] /\ spent'[hs[g].ticket] \in Nat
    BY <1>2, <2>1
  <2> QED
    BY <2>1, <2>2
<1>7. Marked' /\ TicketsExpire' /\ OneSocketPerTicket'
  BY <1>1, <1>3, <1>6 DEF IInv, Marked, TicketsExpire, OneSocketPerTicket
<1> QED
  BY <1>4, <1>5, <1>7 DEF IInv

\* A mark that is lost is no longer relied on.
LEMMA Forgotten ==
  ASSUME IInv, NEW t \in Tickets, Forget(t)
  PROVE  IInv'
<1>1. /\ claims' \in [Handshakes -> {"none", "redis", "lost", "own", "raced"}]
      /\ \A h \in Handshakes :
           /\ claims'[h] = "redis" => claims[h] = "redis" /\ hs[h].ticket # t
           /\ claims'[h] # "lost" => claims'[h] = claims[h]
           /\ claims'[h] = "lost" => claims[h] \in {"redis", "lost"}
  BY DEF Forget, IInv, TypeOK
<1>2. /\ spent' \in [Tickets -> Nat]
      /\ \A u \in Tickets : u # t => spent'[u] = spent[u]
      /\ UNCHANGED <<now, version, ticket, store, here, hs>>
  BY DEF Forget, IInv, TypeOK
<1>3. InTime'
  BY <1>1, <1>2 DEF IInv, InTime
<1>4. TypeOK'
  BY <1>1, <1>2 DEF IInv, TypeOK
<1>5. Marked'
  BY <1>1, <1>2 DEF IInv, TypeOK, Marked
<1>6. OneSocketPerTicket'
  BY <1>1, <1>2 DEF IInv, OneSocketPerTicket
<1> QED
  BY <1>2, <1>3, <1>4, <1>5, <1>6 DEF IInv, TicketsExpire

LEMMA AddedHere ==
  ASSUME IInv, NEW h \in Handshakes, AddHere(h)
  PROVE  IInv'
<1>1. /\ here' \in [Workers -> SUBSET Tickets]
      /\ \A w \in Workers : here[w] \subseteq here'[w]
      /\ hs[h].ticket \in here'[hs[h].worker]
  BY DEF AddHere, Noted, IInv, TypeOK
<1>2. PICK how \in {"own", "raced"} :
        /\ claims' = [claims EXCEPT ![h] = how]
        /\ how = "own" => hs[h].ticket \notin here[hs[h].worker]
  BY DEF AddHere, SpentSince
<1>3. spent' \in [Tickets -> Nat] /\ \A t \in Tickets : spent[t] <= spent'[t]
  BY DEF AddHere, IInv, TypeOK
<1> QED
  BY <1>1, <1>2, <1>3, Spent DEF AddHere

LEMMA Stepped ==
  ASSUME IInv, NEW h \in Handshakes,
         TryStore(h) \/ StoreAnswers(h) \/ LookHere(h) \/ Resolve(h) \/ Ping(h) \/ Leave(h)
  PROVE  IInv'
<1>1. CASE TryStore(h)
  BY <1>1, Moved DEF TryStore, IInv, TypeOK, Pcs, Claimed
<1>2. CASE StoreAnswers(h)
  BY <1>2, Moved DEF StoreAnswers, IInv, TypeOK, Pcs, Claimed
<1>3. CASE LookHere(h)
  BY <1>3, Moved DEF LookHere, Refuse, IInv, TypeOK, Pcs, Claimed
<1>4. CASE Resolve(h)
  BY <1>4, Moved DEF Resolve, IInv, TypeOK, Pcs, Claimed
<1>5. CASE Ping(h)
  BY <1>5, Moved DEF Ping, IInv, TypeOK, Pcs, Claimed
<1>6. CASE Leave(h)
  BY <1>6, Moved DEF Leave, IInv, TypeOK, Pcs, Claimed
<1> QED
  BY <1>1, <1>2, <1>3, <1>4, <1>5, <1>6

\* Time does not pass over a claim that has taken as long as it may.
LEMMA Ticked ==
  ASSUME IInv, Tick
  PROVE  IInv'
<1> USE TimesAssumption
<1>1. now \in Nat /\ now' = now + 1
  BY DEF Tick, IInv, TypeOK
<1>2. TicketsExpire'
  BY <1>1 DEF Tick, IInv, TypeOK, TicketsExpire
<1>3. InTime'
  BY <1>1 DEF Tick, IInv, TypeOK, InTime
<1> QED
  BY <1>1, <1>2, <1>3 DEF Tick, IInv, TypeOK, Marked, OneSocketPerTicket

LEMMA NextHolds == IInv /\ [Next]_vars => IInv'
<1> SUFFICES ASSUME IInv, [Next]_vars PROVE IInv'
  OBVIOUS
<1>1. ASSUME NEW t \in Tickets, Issue(t) PROVE IInv'
  BY <1>1, Issued
<1>2. ASSUME NEW h \in Handshakes, Verify(h) PROVE IInv'
  BY <1>2, Verified
<1>3. ASSUME NEW h \in Handshakes, ClaimInRedis(h) PROVE IInv'
  BY <1>3, ClaimedInRedis
<1>9. ASSUME NEW h \in Handshakes, ClaimFails(h) PROVE IInv'
  BY <1>9, FailedInRedis
<1>10. ASSUME NEW t \in Tickets, Forget(t) PROVE IInv'
  BY <1>10, Forgotten
<1>4. ASSUME NEW h \in Handshakes, AddHere(h) PROVE IInv'
  BY <1>4, AddedHere
<1>5. ASSUME NEW h \in Handshakes,
             TryStore(h) \/ StoreAnswers(h) \/ LookHere(h) \/ Resolve(h) \/ Ping(h) \/ Leave(h)
      PROVE  IInv'
  BY <1>5, Stepped
<1>6. CASE Bump
  BY <1>6 DEF Bump, IInv, TypeOK, TicketsExpire, InTime, Marked, OneSocketPerTicket
<1>7. CASE Tick
  BY <1>7, Ticked
<1>8. CASE UNCHANGED vars
  BY <1>8 DEF vars, IInv, TypeOK, TicketsExpire, InTime, Marked, OneSocketPerTicket
<1> QED
  BY <1>1, <1>2, <1>3, <1>4, <1>5, <1>6, <1>7, <1>8, <1>9, <1>10 DEF Next

\* A claim under way comes before the mark of an earlier one can expire: the
\* inductive invariant.
THEOREM Invariance == Spec => []IInv
<1> QED
  BY InitHolds, NextHolds, PTL DEF Spec

\* However long a claim takes within its bound, a ticket is spent once in Redis,
\* unless Redis lost its mark, and once at each worker without it.
THEOREM SpentOnce == Spec => []OneSocketPerTicket
<1>1. IInv => OneSocketPerTicket
  BY DEF IInv
<1> QED
  BY <1>1, Invariance, PTL
=============================================================================
