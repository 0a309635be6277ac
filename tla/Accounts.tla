------------------------------- MODULE Accounts -------------------------------
(***************************************************************************)
(* The accounts of one organization (routers/users.py, routers/auth.py,    *)
(* middleware/auth_middleware.py): sign-in, sign-out, password changes and *)
(* the administration of other accounts.                                   *)
(*                                                                         *)
(* Every request runs in a worker thread and a session of its own, under   *)
(* READ COMMITTED and without row locks.  It authenticates with one SELECT *)
(* by the token's username, reads the account it acts on with another, and *)
(* commits later an UPDATE or DELETE by primary key of the values it       *)
(* computed from what it read: in particular `token_version` is read,       *)
(* incremented in Python and written back.                                 *)
(***************************************************************************)
EXTENDS Naturals, FiniteSets

CONSTANTS
  Users,        \* usernames (unique)
  Requests,     \* requests in flight
  Roles,        \* what an account may be
  Admin,        \* the role that holds USER_MANAGE
  None,         \* no row, no request
  MaxVersion,   \* bound: changes of an account at which no request begins
  MaxAccounts,  \* bound: accounts created
  MaxTokens     \* bound: tokens at which no sign-in begins

ASSUME RolesAssumption ==
  Admin \in Roles /\ None \notin Roles /\ MaxVersion \in Nat /\ MaxAccounts \in Nat /\ MaxTokens \in Nat

VARIABLES
  rows,       \* the users table by username
  keys,       \* primary keys given out so far
  tokens,     \* access tokens issued: their claims, and the account they are for
  request,    \* what each request in flight has read
  revoked,    \* history: tokens that a committed change claimed to revoke
  overtaken   \* history: accounts changed by a request that had read an older row

vars == <<rows, keys, tokens, request, revoked, overtaken>>

\* `key` is the primary key; it tells a recreated account from the deleted one.
Row == [key : Nat, role : Roles, active : BOOLEAN, version : Nat]

ASSUME NoneAssumption == None \notin Row

\* sub, role and tv are claims.  The key is not in the token.
Token == [sub : Users, role : Roles, tv : Nat, key : Nat]

SelfOps == {"logout", "password"}
ManageOps == {"role", "active", "delete", "create"}

\* A request: its operation, the account that makes it, the account it acts on,
\* its argument, what it read of that account, and the statement it is at.
Request ==
  [op : SelfOps \cup ManageOps \cup {"login"}, actor : Users, target : Users,
   arg : Roles \cup BOOLEAN \cup {None}, read : Row \cup {None},
   pc : {"authenticated", "loaded"}]

TypeOK ==
  /\ rows \in [Users -> Row \cup {None}]
  /\ keys \in Nat
  /\ tokens \subseteq Token
  /\ request \in [Requests -> Request \cup {None}]
  /\ \A r \in Requests :
       request[r] # None /\ request[r].pc = "loaded" /\ request[r].op # "create"
         => request[r].read \in Row
  /\ revoked \subseteq tokens
  /\ overtaken \subseteq Users

NewRow(role) == [key |-> keys + 1, role |-> role, active |-> TRUE, version |-> 0]

\* Any accounts, one of them an administrator.
Init ==
  /\ \E first \in Users, role \in [Users -> Roles] :
       /\ role[first] = Admin
       /\ rows = [u \in Users |-> [key |-> 0, role |-> role[u], active |-> TRUE, version |-> 0]]
  /\ keys = 0
  /\ tokens = {}
  /\ request = [r \in Requests |-> None]
  /\ revoked = {}
  /\ overtaken = {}

-----------------------------------------------------------------------------
IsAdmin(u) == rows[u] # None /\ rows[u].active /\ rows[u].role = Admin

\* Mutant: the version claim is not compared.
ValidUnversioned(t) == rows[t.sub] # None /\ rows[t.sub].active

\* get_current_user: the account exists, is active, and the token's version is
\* the account's.
Valid(t) ==
  /\ rows[t.sub] # None
  /\ rows[t.sub].active
  /\ rows[t.sub].version = t.tv

Changes(u) == rows[u].version + keys

Idle(r) == request[r] = None
At(r, where) == request[r] # None /\ request[r].pc = where
End(r) == request' = [request EXCEPT ![r] = None]

\* login's SELECT, with the right password.  A disabled account is refused.
BeginLogin(r, u) ==
  /\ Idle(r)
  /\ Cardinality(tokens) < MaxTokens
  /\ rows[u] # None
  /\ rows[u].active
  /\ request' = [request EXCEPT ![r] =
                   [op |-> "login", actor |-> u, target |-> u, arg |-> None,
                    read |-> rows[u], pc |-> "loaded"]]
  /\ UNCHANGED <<rows, keys, tokens, revoked, overtaken>>

\* create_access_token from the row read, and the answer.
IssueToken(r) ==
  /\ At(r, "loaded")
  /\ request[r].op = "login"
  /\ tokens' = tokens \cup {[sub |-> request[r].target, role |-> request[r].read.role,
                             tv |-> request[r].read.version, key |-> request[r].read.key]}
  /\ End(r)
  /\ UNCHANGED <<rows, keys, revoked, overtaken>>

\* logout and change_password: the authenticated row is the one they change.
BeginSelf(r, t, op) ==
  /\ Idle(r)
  /\ Valid(t)
  /\ Changes(t.sub) < MaxVersion
  /\ request' = [request EXCEPT ![r] =
                   [op |-> op, actor |-> t.sub, target |-> t.sub, arg |-> None,
                    read |-> rows[t.sub], pc |-> "loaded"]]
  /\ UNCHANGED <<rows, keys, tokens, revoked, overtaken>>

\* Mutant: administrators reach their own account through the management routes.
OtherAccountAny(actor, target) == TRUE

\* "Use your own profile routes to change your account."
OtherAccount(actor, target) == actor # target

Arguments(op) ==
  CASE op \in {"role", "create"} -> Roles
    [] op = "active" -> BOOLEAN
    [] OTHER -> {None}

\* require_permission(USER_MANAGE): the role of the row, not of the token.
BeginManage(r, t, op, u, arg) ==
  /\ Idle(r)
  /\ Valid(t)
  /\ rows[t.sub].role = Admin
  /\ OtherAccount(t.sub, u)
  /\ request' = [request EXCEPT ![r] =
                   [op |-> op, actor |-> t.sub, target |-> u, arg |-> arg,
                    read |-> None, pc |-> "authenticated"]]
  /\ UNCHANGED <<rows, keys, tokens, revoked, overtaken>>

\* _managed_user (404 without a row), or create_user's look for the name (400
\* with one).
LoadTarget(r) ==
  LET u == request[r].target IN
  /\ At(r, "authenticated")
  /\ IF request[r].op = "create"
     THEN rows[u] = None /\ keys < MaxAccounts
     ELSE rows[u] # None /\ Changes(u) < MaxVersion
  /\ request' = [request EXCEPT ![r].read = rows[u], ![r].pc = "loaded"]
  /\ UNCHANGED <<rows, keys, tokens, revoked, overtaken>>

\* Mutant: a change of role alone does not bump the version.
BumpsExceptRole(op) == op \in SelfOps \cup {"active"}

\* The operations that end the account's sessions by its version.
Bumps(op) == op \in SelfOps \cup {"role", "active"}

\* The columns the session changed, written over whatever the row is by now.
Written(row, q) ==
  [row EXCEPT
     !.role = IF q.op = "role" /\ q.arg # q.read.role THEN q.arg ELSE @,
     !.active = IF q.op = "active" /\ q.arg # q.read.active THEN q.arg ELSE @,
     !.version = IF Bumps(q.op) THEN q.read.version + 1 ELSE @]

\* The row a request read is still there, by primary key.
StillThere(q) == rows[q.target] # None /\ rows[q.target].key = q.read.key

TokensOf(u) == {t \in tokens : t.sub = u}

Remember(q) ==
  /\ revoked' = revoked \cup TokensOf(q.target)
  /\ overtaken' = IF rows[q.target] = q.read THEN overtaken ELSE overtaken \cup {q.target}

\* The UPDATE and its commit.  No row by that key is a StaleDataError: FailRequest.
CommitUpdate(r) ==
  LET q == request[r] IN
  /\ At(r, "loaded")
  /\ q.op \in SelfOps \cup {"role", "active"}
  /\ StillThere(q)
  /\ rows' = [rows EXCEPT ![q.target] = Written(@, q)]
  /\ Remember(q)
  /\ End(r)
  /\ UNCHANGED <<keys, tokens>>

\* delete_user.  A DELETE that finds no row is only a warning.
CommitDelete(r) ==
  LET q == request[r] IN
  /\ At(r, "loaded")
  /\ q.op = "delete"
  /\ IF StillThere(q)
     THEN rows' = [rows EXCEPT ![q.target] = None] /\ Remember(q)
     ELSE UNCHANGED <<rows, revoked, overtaken>>
  /\ End(r)
  /\ UNCHANGED <<keys, tokens>>

\* create_user's INSERT.  A name taken meanwhile is an IntegrityError: 409.
CommitCreate(r) ==
  LET q == request[r] IN
  /\ At(r, "loaded")
  /\ q.op = "create"
  /\ rows[q.target] = None
  /\ rows' = [rows EXCEPT ![q.target] = NewRow(q.arg)]
  /\ keys' = keys + 1
  /\ End(r)
  /\ UNCHANGED <<tokens, revoked, overtaken>>

\* A refusal, an error, a conflict: rollback, nothing is written.
FailRequest(r) ==
  /\ request[r] # None
  /\ End(r)
  /\ UNCHANGED <<rows, keys, tokens, revoked, overtaken>>

Commit(r) == CommitUpdate(r) \/ CommitDelete(r) \/ CommitCreate(r)

Next ==
  \E r \in Requests :
    \/ \E u \in Users : BeginLogin(r, u)
    \/ IssueToken(r)
    \/ \E t \in tokens, op \in SelfOps : BeginSelf(r, t, op)
    \/ \E t \in tokens, op \in ManageOps, u \in Users :
         \E arg \in Arguments(op) : BeginManage(r, t, op, u, arg)
    \/ LoadTarget(r)
    \/ Commit(r)
    \/ FailRequest(r)

Spec == Init /\ [][Next]_vars

-----------------------------------------------------------------------------
\* The account a token was issued to, unless it was deleted and its name taken
\* by a new one, or a request overwrote a change it had not seen.
Accountable(t) ==
  rows[t.sub] # None /\ rows[t.sub].key = t.key /\ t.sub \notin overtaken

\* "Incrementing token_version invalidates every token issued to this user"
\* (logout), "sessions have been signed out" (change_password), "a disabled
\* account must stop working now" (update_user): once such a change committed, no
\* token issued before works again, however many later changes, sign-ins and
\* re-enablings follow.  It takes two overlapping changes of one account, or a
\* new account under a deleted one's name, to bring one back.
RevokedStaysRevoked ==
  \A t \in revoked : Accountable(t) => ~Valid(t)

\* "A role change must not leave a token carrying the old one in circulation":
\* the role a working token claims is the role of its account, unless two overlapping
\* changes of the account lost one, or a new account took a deleted one's name.
TokenRoleIsCurrent ==
  \A t \in tokens : Accountable(t) /\ Valid(t) => t.role = rows[t.sub].role

HasAdmin == \E u \in Users : IsAdmin(u)

\* What the rule "an administrator cannot change their own account here" buys:
\* the organization loses its last administrator only to a request whose author
\* was an administrator when it authenticated and is none when it commits.
LockoutNeedsARace ==
  [][HasAdmin /\ ~HasAdmin' =>
       \E r \in Requests :
         /\ request[r] # None /\ request'[r] = None
         /\ request[r].op \in ManageOps /\ ~IsAdmin(request[r].actor)]_vars

\* update_user: the rule "keeps an organization from locking itself out: only an
\* administrator can reach this route, so the one making the change always
\* remains one."
OrganizationKeepsAnAdmin == HasAdmin
=============================================================================
