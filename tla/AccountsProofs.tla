--------------------------- MODULE AccountsProofs ---------------------------
(***************************************************************************)
(* Proofs about Accounts, for any number of accounts, requests, roles and   *)
(* tokens: types, what a revoked token can never do again, and when an      *)
(* organization may lose its last administrator.                           *)
(***************************************************************************)
EXTENDS Accounts, TLAPS

\* A request's argument fits its operation, and no management request acts on
\* the account that makes it.
Fits ==
  \A r \in Requests : request[r] # None =>
    /\ request[r].op \in {"role", "create"} => request[r].arg \in Roles
    /\ request[r].op = "active" => request[r].arg \in BOOLEAN
    /\ request[r].op \in ManageOps => request[r].actor # request[r].target

\* Primary keys only grow: whatever was read or issued carries one given out.
KeysGivenOut ==
  /\ \A u \in Users : rows[u] # None => rows[u].key <= keys
  /\ \A t \in tokens : t.key <= keys
  /\ \A r \in Requests : request[r] # None /\ request[r].read # None => request[r].read.key <= keys

\* A token's version is never ahead of its account's, and behind it if revoked;
\* at the same version it carries the account's role.
TokensBehind ==
  \A t \in tokens : Accountable(t) =>
    /\ t.tv <= rows[t.sub].version
    /\ t \in revoked => t.tv < rows[t.sub].version
    /\ t.tv = rows[t.sub].version => t.role = rows[t.sub].role

\* The same of what a request has read.
ReadsBehind ==
  \A r \in Requests :
    LET q == request[r] IN
    /\ q # None /\ q.read # None /\ rows[q.target] # None
    /\ rows[q.target].key = q.read.key /\ q.target \notin overtaken
    => /\ q.read.version <= rows[q.target].version
       /\ q.read.version = rows[q.target].version => q.read.role = rows[q.target].role

IInv == TypeOK /\ Fits /\ KeysGivenOut /\ TokensBehind /\ ReadsBehind

-----------------------------------------------------------------------------
LEMMA InitHolds == Init => IInv
<1> SUFFICES ASSUME Init PROVE IInv
  OBVIOUS
<1> USE RolesAssumption
<1>1. \A u \in Users : rows[u] \in Row
  BY DEF Init, Row
<1>2. TypeOK
  BY <1>1 DEF Init, TypeOK
<1>3. KeysGivenOut
  BY DEF Init, KeysGivenOut
<1> QED
  BY <1>2, <1>3 DEF Init, IInv, Fits, TokensBehind, ReadsBehind

\* A step that begins or advances request r changes only what r holds.
LEMMA Asked ==
  ASSUME IInv, NEW r \in Requests, NEW q \in Request \cup {None},
         request' = [request EXCEPT ![r] = q],
         UNCHANGED <<rows, keys, tokens, revoked, overtaken>>,
         q # None =>
           /\ q.pc = "loaded" /\ q.op # "create" => q.read \in Row
           /\ q.read # None => q.read.key <= keys
           /\ q.op \in {"role", "create"} => q.arg \in Roles
           /\ q.op = "active" => q.arg \in BOOLEAN
           /\ q.op \in ManageOps => q.actor # q.target
           /\ q.read # None => q.read = rows[q.target]
  PROVE  IInv'
<1>1. TypeOK'
  BY DEF IInv, TypeOK
<1>2. Fits'
  BY DEF IInv, TypeOK, Fits
<1>3. KeysGivenOut'
  BY DEF IInv, TypeOK, KeysGivenOut
<1>4. TokensBehind'
  BY DEF IInv, TokensBehind, Accountable
<1>5. ReadsBehind'
  <2> SUFFICES ASSUME NEW s \in Requests,
                      request'[s] # None, request'[s].read # None,
                      rows[request'[s].target] # None,
                      rows[request'[s].target].key = request'[s].read.key,
                      request'[s].target \notin overtaken
               PROVE  /\ request'[s].read.version <= rows[request'[s].target].version
                      /\ request'[s].read.version = rows[request'[s].target].version =>
                           request'[s].read.role = rows[request'[s].target].role
    BY DEF ReadsBehind
  <2>1. CASE s = r
    <3>1. request'[s] = q
      BY <2>1 DEF IInv, TypeOK
    <3>2. rows[q.target] \in Row
      BY <3>1 DEF IInv, TypeOK, Request
    <3> QED
      BY <3>1, <3>2 DEF Row
  <2>2. CASE s # r
    <3>1. request'[s] = request[s]
      BY <2>2 DEF IInv, TypeOK
    <3> QED
      BY <3>1 DEF IInv, ReadsBehind
  <2> QED
    BY <2>1, <2>2
<1> QED
  BY <1>1, <1>2, <1>3, <1>4, <1>5 DEF IInv

LEMMA Begun ==
  ASSUME IInv, NEW r \in Requests,
         \/ \E u \in Users : BeginLogin(r, u)
         \/ \E t \in tokens, op \in SelfOps : BeginSelf(r, t, op)
         \/ \E t \in tokens, op \in ManageOps, u \in Users :
              \E arg \in Arguments(op) : BeginManage(r, t, op, u, arg)
         \/ LoadTarget(r)
         \/ FailRequest(r)
  PROVE  IInv'
<1> USE RolesAssumption
<1>1. ASSUME NEW u \in Users, BeginLogin(r, u) PROVE IInv'
  <2> DEFINE q == [op |-> "login", actor |-> u, target |-> u, arg |-> None,
                   read |-> rows[u], pc |-> "loaded"]
  <2>1. rows[u] \in Row /\ rows[u].key <= keys
    BY <1>1 DEF BeginLogin, IInv, TypeOK, KeysGivenOut
  <2>2. q \in Request
    BY <2>1 DEF Request
  <2> QED
    BY <1>1, <2>1, <2>2, Asked DEF BeginLogin, ManageOps
<1>2. ASSUME NEW t \in tokens, NEW op \in SelfOps, BeginSelf(r, t, op) PROVE IInv'
  <2> DEFINE q == [op |-> op, actor |-> t.sub, target |-> t.sub, arg |-> None,
                   read |-> rows[t.sub], pc |-> "loaded"]
  <2>1. t.sub \in Users /\ rows[t.sub] \in Row /\ rows[t.sub].key <= keys
    BY <1>2 DEF BeginSelf, Valid, IInv, TypeOK, Token, KeysGivenOut
  <2>2. q \in Request
    BY <2>1 DEF Request
  <2> QED
    BY <1>2, <2>1, <2>2, Asked DEF BeginSelf, SelfOps, ManageOps
<1>3. ASSUME NEW t \in tokens, NEW op \in ManageOps, NEW u \in Users, NEW arg \in Arguments(op),
             BeginManage(r, t, op, u, arg)
      PROVE IInv'
  <2> DEFINE q == [op |-> op, actor |-> t.sub, target |-> u, arg |-> arg,
                   read |-> None, pc |-> "authenticated"]
  <2>1. t.sub \in Users
    BY DEF IInv, TypeOK, Token
  <2>2. arg \in Roles \cup BOOLEAN \cup {None}
        /\ (op \in {"role", "create"} => arg \in Roles) /\ (op = "active" => arg \in BOOLEAN)
    BY DEF Arguments, ManageOps
  <2>3. q \in Request
    BY <2>1, <2>2 DEF Request
  <2> QED
    BY <1>3, <2>2, <2>3, Asked DEF BeginManage, OtherAccount
<1>4. ASSUME LoadTarget(r) PROVE IInv'
  <2> DEFINE u == request[r].target
             q == [request[r] EXCEPT !.read = rows[u], !.pc = "loaded"]
  <2>1. request[r] \in Request /\ u \in Users /\ rows[u] \in Row \cup {None}
    BY <1>4 DEF LoadTarget, At, IInv, TypeOK, Request
  <2>2. q \in Request
    BY <2>1 DEF Request
  <2>3. request' = [request EXCEPT ![r] = q]
    BY <1>4, <2>1 DEF LoadTarget, IInv, TypeOK
  <2>4. q.op # "create" => q.read \in Row
    BY <1>4, <2>1 DEF LoadTarget, Request
  <2>5. /\ q.read = rows[q.target] /\ q.op = request[r].op /\ q.arg = request[r].arg
        /\ q.actor = request[r].actor /\ q.target = request[r].target
    BY <2>1 DEF Request
  <2>6. q.read # None => q.read.key <= keys
    BY <2>1, <2>5 DEF IInv, KeysGivenOut
  <2>7. request[r] # None
    BY <1>4 DEF LoadTarget, At
  <2>8. UNCHANGED <<rows, keys, tokens, revoked, overtaken>>
    BY <1>4 DEF LoadTarget
  <2>9. /\ q.op \in {"role", "create"} => q.arg \in Roles
        /\ q.op = "active" => q.arg \in BOOLEAN
        /\ q.op \in ManageOps => q.actor # q.target
    BY <2>5, <2>7 DEF IInv, Fits
  <2> HIDE DEF q
  <2> QED
    BY <2>2, <2>3, <2>4, <2>5, <2>6, <2>8, <2>9, Asked
<1>5. ASSUME FailRequest(r) PROVE IInv'
  BY <1>5, Asked DEF FailRequest, End
<1> QED
  BY <1>1, <1>2, <1>3, <1>4, <1>5

\* Ending a request: what the others hold is what they held.
LEMMA Ended ==
  ASSUME TypeOK, NEW r \in Requests, End(r)
  PROVE  /\ request' \in [Requests -> Request \cup {None}]
         /\ \A s \in Requests : request'[s] # None => s # r /\ request'[s] = request[s]
BY DEF TypeOK, End

\* A token carries what its request read, and what it read was not ahead.
LEMMA Issued ==
  ASSUME IInv, NEW r \in Requests, IssueToken(r)
  PROVE  IInv'
<1> DEFINE q == request[r]
           new == [sub |-> q.target, role |-> q.read.role, tv |-> q.read.version, key |-> q.read.key]
<1>1. q \in Request /\ q.read \in Row /\ q # None /\ q.read # None
  BY NoneAssumption DEF IssueToken, At, IInv, TypeOK
<1>2. new \in Token
  BY <1>1 DEF Request, Row, Token
<1>3. /\ tokens' = tokens \cup {new} /\ UNCHANGED <<rows, keys, revoked, overtaken>> /\ End(r)
  BY DEF IssueToken
<1>4. TypeOK'
  BY <1>2, <1>3, Ended DEF IInv, TypeOK
<1>5. Fits'
  BY <1>3, Ended DEF IInv, Fits
<1>6. KeysGivenOut'
  BY <1>1, <1>3, Ended DEF IInv, KeysGivenOut
<1>7. new.sub = q.target /\ new.role = q.read.role /\ new.tv = q.read.version /\ new.key = q.read.key
  OBVIOUS
<1>8. new \in revoked => new \in tokens
  BY DEF IInv, TypeOK
<1>9. TokensBehind'
  <2> SUFFICES ASSUME NEW t \in tokens', Accountable(t)'
               PROVE  /\ t.tv <= rows[t.sub].version
                      /\ t \in revoked => t.tv < rows[t.sub].version
                      /\ t.tv = rows[t.sub].version => t.role = rows[t.sub].role
    BY <1>3 DEF TokensBehind
  <2>1. Accountable(t)
    BY <1>3 DEF Accountable
  <2>2. CASE t \in tokens
    BY <2>1, <2>2 DEF IInv, TokensBehind
  <2>3. CASE t = new /\ new \notin tokens
    BY <1>1, <1>7, <1>8, <2>1, <2>3 DEF IInv, ReadsBehind, Accountable
  <2> QED
    BY <1>3, <2>2, <2>3
<1>10. ReadsBehind'
  BY <1>3, Ended DEF IInv, ReadsBehind
<1> QED
  BY <1>4, <1>5, <1>6, <1>9, <1>10 DEF IInv

-----------------------------------------------------------------------------
\* A change of an account: the row a request read, or the one it has become.
LEMMA UpdateCommitted ==
  ASSUME IInv, NEW r \in Requests, CommitUpdate(r)
  PROVE  IInv'
<1> DEFINE q == request[r]
           u == q.target
           new == Written(rows[u], q)
<1>1. /\ q \in Request /\ q # None /\ q.read \in Row /\ q.read # None /\ u \in Users
      /\ rows[u] \in Row /\ rows[u] # None /\ rows[u].key = q.read.key
      /\ q.op \in SelfOps \cup {"role", "active"}
  BY NoneAssumption DEF CommitUpdate, StillThere, At, IInv, TypeOK, Request, SelfOps
<1>2. /\ q.op = "role" => q.arg \in Roles
      /\ q.op = "active" => q.arg \in BOOLEAN
  BY <1>1 DEF IInv, Fits
<1>3. /\ new \in Row /\ new.key = rows[u].key /\ new.version = q.read.version + 1 /\ new # None
  <2>1. Bumps(q.op)
    BY <1>1 DEF Bumps
  <2>2. q.read.version + 1 \in Nat
    BY <1>1 DEF Row
  <2> DEFINE role == IF q.op = "role" /\ q.arg # q.read.role THEN q.arg ELSE rows[u].role
             active == IF q.op = "active" /\ q.arg # q.read.active THEN q.arg ELSE rows[u].active
  <2>3. role \in Roles
    BY <1>1, <1>2 DEF Row
  <2>4. active \in BOOLEAN
    BY <1>1, <1>2 DEF Row
  <2>5. new = [rows[u] EXCEPT !.role = role, !.active = active, !.version = q.read.version + 1]
    BY <2>1 DEF Written
  <2> HIDE DEF new, role, active
  <2>6. new \in Row /\ new.key = rows[u].key /\ new.version = q.read.version + 1
    BY <1>1, <2>2, <2>3, <2>4, <2>5 DEF Row
  <2> QED
    BY <2>6, NoneAssumption
<1>4. /\ rows' = [rows EXCEPT ![u] = new] /\ End(r) /\ UNCHANGED <<keys, tokens>>
      /\ revoked' = revoked \cup TokensOf(u)
      /\ overtaken' = IF rows[u] = q.read THEN overtaken ELSE overtaken \cup {u}
  BY DEF CommitUpdate, Remember
<1> HIDE DEF new
<1>5. \A w \in Users : rows'[w] = IF w = u THEN new ELSE rows[w]
  BY <1>1, <1>4 DEF IInv, TypeOK
<1>6. TypeOK'
  BY <1>1, <1>3, <1>4, Ended DEF IInv, TypeOK, TokensOf
<1>7. Fits'
  BY <1>4, Ended DEF IInv, Fits
<1>8. KeysGivenOut'
  BY <1>1, <1>3, <1>4, <1>5, Ended DEF IInv, KeysGivenOut
<1>9. u \notin overtaken' => u \notin overtaken /\ new.version = rows[u].version + 1
  BY <1>3, <1>4
<1>10. TokensBehind'
  <2> SUFFICES ASSUME NEW t \in tokens, Accountable(t)'
               PROVE  /\ t.tv <= rows'[t.sub].version
                      /\ t \in revoked' => t.tv < rows'[t.sub].version
                      /\ t.tv = rows'[t.sub].version => t.role = rows'[t.sub].role
    BY <1>4 DEF TokensBehind
  <2>1. t.sub \in Users /\ t.tv \in Nat
    BY DEF IInv, TypeOK, Token
  <2>2. CASE t.sub = u
    <3>1. Accountable(t) /\ new.version = rows[u].version + 1
      BY <1>1, <1>3, <1>5, <1>9, <2>1, <2>2 DEF Accountable
    <3>2. t.tv <= rows[u].version
      BY <2>2, <3>1 DEF IInv, TokensBehind
    <3> QED
      BY <1>1, <1>5, <2>1, <2>2, <3>1, <3>2 DEF Row
  <2>3. CASE t.sub # u
    <3>1. Accountable(t) /\ rows'[t.sub] = rows[t.sub]
      BY <1>4, <1>5, <2>1, <2>3 DEF Accountable
    <3>2. t \in revoked' => t \in revoked
      BY <1>4, <2>3 DEF TokensOf
    <3> QED
      BY <3>1, <3>2 DEF IInv, TokensBehind
  <2> QED
    BY <2>2, <2>3
<1>11. ReadsBehind'
  <2> SUFFICES ASSUME NEW s \in Requests,
                      request'[s] # None, request'[s].read # None,
                      rows'[request'[s].target] # None,
                      rows'[request'[s].target].key = request'[s].read.key,
                      request'[s].target \notin overtaken'
               PROVE  /\ request'[s].read.version <= rows'[request'[s].target].version
                      /\ request'[s].read.version = rows'[request'[s].target].version =>
                           request'[s].read.role = rows'[request'[s].target].role
    BY DEF ReadsBehind
  <2> DEFINE p == request[s]
  <2>1. request'[s] = p /\ p \in Request /\ p # None /\ p.read \in Row /\ p.target \in Users
    BY <1>4, Ended DEF IInv, TypeOK, Request
  <2>2. CASE p.target = u
    <3>1. new.version = rows[u].version + 1 /\ u \notin overtaken /\ rows[u].key = p.read.key
      BY <1>3, <1>5, <1>9, <2>1, <2>2
    <3>2. p.read.version <= rows[u].version
      BY <1>1, <2>1, <2>2, <3>1 DEF IInv, ReadsBehind
    <3> QED
      BY <1>1, <1>5, <2>1, <2>2, <3>1, <3>2 DEF Row
  <2>3. CASE p.target # u
    BY <1>4, <1>5, <2>1, <2>3 DEF IInv, ReadsBehind
  <2> QED
    BY <2>2, <2>3
<1> QED
  BY <1>6, <1>7, <1>8, <1>10, <1>11 DEF IInv

\* A deleted account has no row: nothing is said of it any more.
LEMMA DeleteCommitted ==
  ASSUME IInv, NEW r \in Requests, CommitDelete(r)
  PROVE  IInv'
<1> DEFINE q == request[r]
           u == q.target
<1>1. q \in Request /\ u \in Users
  BY DEF CommitDelete, At, IInv, TypeOK, Request
<1>2. End(r) /\ UNCHANGED <<keys, tokens>>
  BY DEF CommitDelete
<1>3. CASE StillThere(q)
  <2>1. /\ rows' = [rows EXCEPT ![u] = None]
        /\ revoked' = revoked \cup TokensOf(u)
        /\ overtaken' = IF rows[u] = q.read THEN overtaken ELSE overtaken \cup {u}
    BY <1>3 DEF CommitDelete, Remember
  <2>2. \A w \in Users : rows'[w] = IF w = u THEN None ELSE rows[w]
    BY <1>1, <2>1 DEF IInv, TypeOK
  <2>3. TypeOK'
    BY <1>1, <1>2, <2>1, Ended DEF IInv, TypeOK, TokensOf
  <2>4. Fits'
    BY <1>2, Ended DEF IInv, Fits
  <2>5. KeysGivenOut'
    BY <1>2, <2>2, Ended DEF IInv, KeysGivenOut
  <2>6. TokensBehind'
    <3> SUFFICES ASSUME NEW t \in tokens, Accountable(t)'
                 PROVE  /\ t.tv <= rows'[t.sub].version
                        /\ t \in revoked' => t.tv < rows'[t.sub].version
                        /\ t.tv = rows'[t.sub].version => t.role = rows'[t.sub].role
      BY <1>2 DEF TokensBehind
    <3>1. t.sub \in Users /\ t.sub # u
      BY <2>2 DEF IInv, TypeOK, Token, Accountable
    <3>2. Accountable(t) /\ rows'[t.sub] = rows[t.sub]
      BY <2>1, <2>2, <3>1 DEF Accountable
    <3>3. t \in revoked' => t \in revoked
      BY <2>1, <3>1 DEF TokensOf
    <3> QED
      BY <3>2, <3>3 DEF IInv, TokensBehind
  <2>7. ReadsBehind'
    <3> SUFFICES ASSUME NEW s \in Requests,
                        request'[s] # None, request'[s].read # None,
                        rows'[request'[s].target] # None,
                        rows'[request'[s].target].key = request'[s].read.key,
                        request'[s].target \notin overtaken'
                 PROVE  /\ request'[s].read.version <= rows'[request'[s].target].version
                        /\ request'[s].read.version = rows'[request'[s].target].version =>
                             request'[s].read.role = rows'[request'[s].target].role
      BY DEF ReadsBehind
    <3>1. request'[s] = request[s] /\ request[s].target \in Users /\ request[s].target # u
      BY <1>2, <2>2, Ended DEF IInv, TypeOK, Request
    <3> QED
      BY <2>1, <2>2, <3>1 DEF IInv, ReadsBehind
  <2> QED
    BY <2>3, <2>4, <2>5, <2>6, <2>7 DEF IInv
<1>4. CASE ~StillThere(q)
  <2>1. UNCHANGED <<rows, revoked, overtaken>>
    BY <1>4 DEF CommitDelete
  <2>2. TypeOK' /\ Fits' /\ KeysGivenOut' /\ ReadsBehind'
    BY <1>2, <2>1, Ended DEF IInv, TypeOK, Fits, KeysGivenOut, ReadsBehind
  <2>3. TokensBehind'
    BY <1>2, <2>1 DEF IInv, TokensBehind, Accountable
  <2> QED
    BY <2>2, <2>3 DEF IInv
<1> QED
  BY <1>3, <1>4

\* A new account's key is one nobody has read and no token carries.
LEMMA CreateCommitted ==
  ASSUME IInv, NEW r \in Requests, CommitCreate(r)
  PROVE  IInv'
<1> DEFINE q == request[r]
           u == q.target
           new == NewRow(q.arg)
<1>1. q \in Request /\ u \in Users /\ q.arg \in Roles
  BY DEF CommitCreate, At, IInv, TypeOK, Request, Fits
<1>2. /\ rows' = [rows EXCEPT ![u] = new] /\ rows[u] = None /\ keys' = keys + 1
      /\ End(r) /\ UNCHANGED <<tokens, revoked, overtaken>>
  BY DEF CommitCreate
<1>3. keys \in Nat /\ new \in Row /\ new # None /\ new.key = keys + 1
  <2>1. keys \in Nat
    BY DEF IInv, TypeOK
  <2>2. new = [key |-> keys + 1, role |-> q.arg, active |-> TRUE, version |-> 0]
    BY DEF NewRow
  <2> HIDE DEF new
  <2>3. new \in Row /\ new.key = keys + 1
    BY <1>1, <2>1, <2>2 DEF Row
  <2> QED
    BY <2>1, <2>3, NoneAssumption
<1> HIDE DEF new
<1>4. \A w \in Users : rows'[w] = IF w = u THEN new ELSE rows[w]
  BY <1>1, <1>2 DEF IInv, TypeOK
<1>5. TypeOK'
  BY <1>1, <1>2, <1>3, Ended DEF IInv, TypeOK
<1>6. Fits'
  BY <1>2, Ended DEF IInv, Fits
<1>7. KeysGivenOut'
  <2>1. \A w \in Users : rows'[w] # None => rows'[w].key <= keys + 1
    BY <1>3, <1>4 DEF IInv, TypeOK, KeysGivenOut, Row
  <2>2. \A t \in tokens : t.key <= keys + 1
    BY <1>3 DEF IInv, TypeOK, KeysGivenOut, Token
  <2>3. \A s \in Requests :
          request'[s] # None /\ request'[s].read # None => request'[s].read.key <= keys + 1
    BY <1>2, <1>3, Ended DEF IInv, TypeOK, KeysGivenOut, Request, Row
  <2> QED
    BY <1>2, <2>1, <2>2, <2>3 DEF KeysGivenOut
<1>8. TokensBehind'
  <2> SUFFICES ASSUME NEW t \in tokens, Accountable(t)'
               PROVE  /\ t.tv <= rows'[t.sub].version
                      /\ t \in revoked => t.tv < rows'[t.sub].version
                      /\ t.tv = rows'[t.sub].version => t.role = rows'[t.sub].role
    BY <1>2 DEF TokensBehind
  <2>1. t.sub \in Users /\ t.key \in Nat /\ t.key <= keys
    BY DEF IInv, TypeOK, Token, KeysGivenOut
  <2>2. t.sub # u
    BY <1>3, <1>4, <2>1 DEF Accountable
  <2>3. Accountable(t) /\ rows'[t.sub] = rows[t.sub]
    BY <1>2, <1>4, <2>1, <2>2 DEF Accountable
  <2> QED
    BY <2>3 DEF IInv, TokensBehind
<1>9. ReadsBehind'
  <2> SUFFICES ASSUME NEW s \in Requests,
                      request'[s] # None, request'[s].read # None,
                      rows'[request'[s].target] # None,
                      rows'[request'[s].target].key = request'[s].read.key,
                      request'[s].target \notin overtaken'
               PROVE  /\ request'[s].read.version <= rows'[request'[s].target].version
                      /\ request'[s].read.version = rows'[request'[s].target].version =>
                           request'[s].read.role = rows'[request'[s].target].role
    BY DEF ReadsBehind
  <2>1. /\ request'[s] = request[s] /\ request[s].target \in Users
        /\ request[s].read.key \in Nat /\ request[s].read.key <= keys
    BY <1>2, Ended DEF IInv, TypeOK, Request, Row, KeysGivenOut
  <2>2. request[s].target # u
    BY <1>3, <1>4, <2>1
  <2> QED
    BY <1>2, <1>4, <2>1, <2>2 DEF IInv, ReadsBehind
<1> QED
  BY <1>5, <1>6, <1>7, <1>8, <1>9 DEF IInv

LEMMA StepKeepsIInv == IInv /\ [Next]_vars => IInv'
<1> SUFFICES ASSUME IInv, [Next]_vars PROVE IInv'
  OBVIOUS
<1>1. ASSUME NEW r \in Requests, Commit(r) PROVE IInv'
  BY <1>1, UpdateCommitted, DeleteCommitted, CreateCommitted DEF Commit
<1>2. CASE UNCHANGED vars
  BY <1>2 DEF vars, IInv, TypeOK, Fits, KeysGivenOut, TokensBehind, ReadsBehind, Accountable
<1> QED
  BY <1>1, <1>2, Begun, Issued DEF Next

LEMMA IInvHolds == Spec => []IInv
  BY InitHolds, StepKeepsIInv, PTL DEF Spec

\* Every variable keeps its type, whatever the requests do.
THEOREM TypeCorrect == Spec => []TypeOK
<1>1. IInv => TypeOK
  BY DEF IInv
<1> QED
  BY <1>1, IInvHolds, PTL

\* What logout, change_password and update_user promise: a token a committed
\* change revoked never works again.
THEOREM Revocation == Spec => []RevokedStaysRevoked
<1>1. IInv => RevokedStaysRevoked
  <2> SUFFICES ASSUME IInv, NEW t \in revoked, Accountable(t) PROVE ~Valid(t)
    BY DEF RevokedStaysRevoked
  <2>1. t \in tokens /\ t.tv \in Nat /\ rows[t.sub].version \in Nat
    BY DEF IInv, TypeOK, Token, Accountable, Row
  <2> QED
    BY <2>1 DEF IInv, TokensBehind, Valid
<1> QED
  BY <1>1, IInvHolds, PTL

\* A working token claims the role its account has.
THEOREM RoleCurrent == Spec => []TokenRoleIsCurrent
<1>1. IInv => TokenRoleIsCurrent
  BY DEF IInv, TokensBehind, TokenRoleIsCurrent, Valid
<1> QED
  BY <1>1, IInvHolds, PTL

\* Whoever is an administrator when a request of theirs commits still is one
\* after it: only a request whose author no longer is one takes the last away.
LEMMA StepLockout ==
  ASSUME IInv, Next, HasAdmin, ~HasAdmin'
  PROVE  \E r \in Requests :
           /\ request[r] # None /\ request'[r] = None
           /\ request[r].op \in ManageOps /\ ~IsAdmin(request[r].actor)
<1>1. rows' # rows
  BY DEF HasAdmin, IsAdmin
<1>2. PICK r \in Requests : Commit(r)
  BY <1>1 DEF Next, BeginLogin, IssueToken, BeginSelf, BeginManage, LoadTarget, FailRequest
<1> DEFINE q == request[r]
           u == q.target
<1>3. q \in Request /\ q # None /\ u \in Users /\ q.actor \in Users /\ request'[r] = None
  BY <1>2 DEF Commit, CommitUpdate, CommitDelete, CommitCreate, At, End, IInv, TypeOK, Request
<1>4. PICK w \in Users : IsAdmin(w)
  BY DEF HasAdmin
<1>5. \A v \in Users : rows'[v] # rows[v] => v = u
  BY <1>2, <1>3 DEF Commit, CommitUpdate, CommitDelete, CommitCreate, IInv, TypeOK
<1>6. \A v \in Users : IsAdmin(v) => v = u
  BY <1>5 DEF HasAdmin, IsAdmin
<1>7. q.op \in ManageOps
  <2> SUFFICES ASSUME CommitUpdate(r), q.op \in SelfOps PROVE FALSE
    BY <1>2 DEF Commit, CommitUpdate, CommitDelete, CommitCreate, ManageOps
  <2>1. rows[u] \in Row /\ rows[u] # None
    BY <1>4, <1>6, <1>3 DEF IsAdmin, IInv, TypeOK
  <2>2. rows'[u] = Written(rows[u], q)
    BY <1>3 DEF CommitUpdate, IInv, TypeOK
  <2>3. q.op # "role" /\ q.op # "active"
    BY DEF SelfOps
  <2>4. q.read.version + 1 \in Nat
    BY <1>3, NoneAssumption DEF CommitUpdate, At, IInv, TypeOK, SelfOps, Row
  <2> DEFINE version == IF Bumps(q.op) THEN q.read.version + 1 ELSE rows[u].version
  <2>5. version \in Nat
    BY <2>1, <2>4 DEF Row
  <2>6. rows'[u] = [rows[u] EXCEPT !.role = @, !.active = @, !.version = version]
    BY <2>2, <2>3 DEF Written
  <2> HIDE DEF version
  <2>7. rows'[u] \in Row /\ rows'[u].role = rows[u].role /\ rows'[u].active = rows[u].active
    BY <2>1, <2>5, <2>6 DEF Row
  <2> QED
    BY <1>3, <1>4, <1>6, <2>7, NoneAssumption DEF HasAdmin, IsAdmin
<1>8. q.actor # u
  BY <1>3, <1>7 DEF IInv, Fits
<1> QED
  BY <1>3, <1>6, <1>7, <1>8

\* The rule against changing one's own account keeps an administrator, but for
\* a request that outlives its author's rights.
THEOREM Lockout == Spec => LockoutNeedsARace
<1>1. IInv /\ [Next]_vars =>
        [HasAdmin /\ ~HasAdmin' =>
           \E r \in Requests :
             /\ request[r] # None /\ request'[r] = None
             /\ request[r].op \in ManageOps /\ ~IsAdmin(request[r].actor)]_vars
  BY StepLockout
<1> QED
  BY <1>1, IInvHolds, PTL DEF Spec, LockoutNeedsARace
=============================================================================
