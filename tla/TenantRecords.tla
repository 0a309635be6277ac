--------------------------- MODULE TenantRecords ---------------------------
(***************************************************************************)
(* Three rows of one organization that requests read, decide from and      *)
(* write back: a device credential (routers/devices.py, device_credentials  *)
(* and the ingest route), a command request (routers/commands.py) and the   *)
(* settings (routers/settings.py).                                         *)
(*                                                                         *)
(* A request runs in a thread with its own session: a SELECT sees what is   *)
(* committed, nothing is locked, and the commit writes the columns the      *)
(* session changed by primary key.  A request may fail before its commit.   *)
(***************************************************************************)
EXTENDS Naturals

CONSTANTS
  Requests,  \* requests, each handled by one thread
  Levels,    \* threshold values
  DefaultHigh, DefaultCritical,  \* the column defaults
  None       \* no row, or nobody

ASSUME LevelsAssumption ==
  /\ Levels \subseteq Nat /\ {DefaultHigh, DefaultCritical} \subseteq Levels
  /\ DefaultHigh < DefaultCritical
  /\ None \notin Requests \cup Levels

VARIABLES
  credential,  \* the device credential's row: who revoked it, and last_used_at set
  command,     \* the command request's row
  settings,    \* the settings row, or {} before it is created
  job,         \* what each request is doing, and what it read
  beside       \* history, by row: requests that were between read and commit
               \* when another request changed the row they read

rows == <<credential, command, settings>>
vars == <<rows, job, beside>>

Status == {"PENDING", "APPROVED", "REJECTED"}
Bands == [high : Levels, critical : Levels]
Patch == [high : Levels \cup {None}, critical : Levels \cup {None}]
Idle == [pc |-> "new"]
Done == [pc |-> "done"]

\* A request holds what it read while it is at work, and only then.
Job ==
  {Idle, Done, [pc |-> "failed"]}
    \cup [pc : {"packet", "revoke"}, used : BOOLEAN]
    \cup [pc : {"decide"}, approved : BOOLEAN]
    \cup [pc : {"create", "reread"}, patch : Patch]
    \cup [pc : {"update"}, patch : Patch, read : Bands]

TypeOK ==
  /\ credential \in [revokedBy : Requests \cup {None}, used : BOOLEAN]
  /\ command \in [status : Status, by : Requests \cup {None}]
  /\ command.status = "PENDING" <=> command.by = None
  /\ settings \in SUBSET Bands
  /\ job \in [Requests -> Job]
  /\ beside \in [credential : SUBSET Requests, command : SUBSET Requests, settings : SUBSET Requests]

Init ==
  /\ credential = [revokedBy |-> None, used |-> FALSE]
  /\ command = [status |-> "PENDING", by |-> None]
  /\ settings = {}
  /\ job = [r \in Requests |-> Idle]
  /\ beside = [credential |-> {}, command |-> {}, settings |-> {}]

Becomes(r, j) == job' = [job EXCEPT ![r] = j]

\* Requests that work on the same row as r and are not finished.
Beside(r, pcs) == {s \in Requests \ {r} : job[s].pc \in pcs}

-----------------------------------------------------------------------------
(***************************************************************************)
(* The device credential.                                                  *)
(***************************************************************************)

Unrevoked == credential.revokedBy = None

\* authenticate: the packet's key; last_used_at is staged when it is due.
Authenticate(r) ==
  /\ job[r] = Idle
  /\ Becomes(r, IF Unrevoked THEN [pc |-> "packet", used |-> credential.used] ELSE Done)
  /\ UNCHANGED <<rows, beside>>

\* Mutant: the commit writes the row as it was read.
StampRow(r) == [revokedBy |-> None, used |-> TRUE]

\* The credential's columns after the commit of r's packet.
Stamp(r) == [credential EXCEPT !.used = @ \/ ~job[r].used]

\* The commit of the packet writes last_used_at with it.
StorePacket(r) ==
  /\ job[r].pc = "packet"
  /\ credential' = Stamp(r)
  /\ Becomes(r, Done)
  /\ UNCHANGED <<command, settings, beside>>

\* revoke_credential: a key that is revoked already is returned as it is.
LoadCredential(r) ==
  /\ job[r] = Idle
  /\ Becomes(r, IF Unrevoked THEN [pc |-> "revoke", used |-> credential.used] ELSE Done)
  /\ UNCHANGED <<rows, beside>>

\* The commit: revoked_at and revoked_by.
Revoke(r) ==
  /\ job[r].pc = "revoke"
  /\ credential' = [credential EXCEPT !.revokedBy = r]
  /\ beside' = [beside EXCEPT !.credential = @ \cup Beside(r, {"revoke"})]
  /\ Becomes(r, Done)
  /\ UNCHANGED <<command, settings>>

-----------------------------------------------------------------------------
(***************************************************************************)
(* The command request.                                                    *)
(***************************************************************************)

\* Mutant: whatever its status, the command may be decided.
LoadCommandAny(r) ==
  /\ job[r] = Idle
  /\ \E approved \in BOOLEAN : Becomes(r, [pc |-> "decide", approved |-> approved])
  /\ UNCHANGED <<rows, beside>>

\* approve_command: only a pending one is decided.
LoadCommand(r) ==
  /\ job[r] = Idle
  /\ \/ /\ command.status = "PENDING"
        /\ \E approved \in BOOLEAN : Becomes(r, [pc |-> "decide", approved |-> approved])
     \/ command.status # "PENDING" /\ Becomes(r, Done)
  /\ UNCHANGED <<rows, beside>>

\* The commit: the decision, signed.
Decide(r) ==
  /\ job[r].pc = "decide"
  /\ command' = [status |-> IF job[r].approved THEN "APPROVED" ELSE "REJECTED", by |-> r]
  /\ beside' = [beside EXCEPT !.command = @ \cup Beside(r, {"decide"})]
  /\ Becomes(r, Done)
  /\ UNCHANGED <<credential, settings>>

-----------------------------------------------------------------------------
(***************************************************************************)
(* The settings.                                                           *)
(***************************************************************************)

Given(value, old) == IF value = None THEN old ELSE value

\* SystemSettingsOrdering of the fields that arrived and those that were read.
Ordered(patch, read) == Given(patch.high, read.high) < Given(patch.critical, read.critical)

\* Mutant: only the fields that arrived are compared.
ValidArrived(patch, read) ==
  patch.high # None /\ patch.critical # None => patch.high < patch.critical

\* update_settings refuses bands it would leave out of order; a patch without
\* a threshold is not looked at.
Valid(patch, read) == patch = [high |-> None, critical |-> None] \/ Ordered(patch, read)

\* What the handler does once it has the row.
Work(patch, read) == IF Valid(patch, read) THEN [pc |-> "update", patch |-> patch, read |-> read] ELSE Done

\* get_or_create_settings, the SELECT.
LoadSettings(r) ==
  /\ job[r] = Idle
  /\ \E patch \in Patch :
       \/ settings = {} /\ Becomes(r, [pc |-> "create", patch |-> patch])
       \/ \E read \in settings : Becomes(r, Work(patch, read))
  /\ UNCHANGED <<rows, beside>>

DefaultRow == [high |-> DefaultHigh, critical |-> DefaultCritical]

\* Mutant: no unique index lets one INSERT through.
InsertAlways(r) ==
  /\ job[r].pc = "create"
  /\ settings' = settings \cup {DefaultRow}
  /\ Becomes(r, [job[r] EXCEPT !.pc = "reread"])
  /\ UNCHANGED <<credential, command, beside>>

\* The INSERT: the loser of a race rolls back.
Insert(r) ==
  /\ job[r].pc = "create"
  /\ settings' = IF settings = {} THEN {DefaultRow} ELSE settings
  /\ Becomes(r, [job[r] EXCEPT !.pc = "reread"])
  /\ UNCHANGED <<credential, command, beside>>

\* The winner refreshes its row, and the loser adopts it.
Reread(r) ==
  /\ job[r].pc = "reread"
  /\ \E read \in settings : Becomes(r, Work(job[r].patch, read))
  /\ UNCHANGED <<rows, beside>>

\* A column is written when its value differs from the one read.
Written(value, read, now) == IF value \in {None, read} THEN now ELSE value

UpdateSettings(r) ==
  /\ job[r].pc = "update"
  /\ LET p == job[r].patch
         read == job[r].read
     IN settings' = {[high |-> Written(p.high, read.high, row.high),
                      critical |-> Written(p.critical, read.critical, row.critical)] : row \in settings}
  /\ beside' = [beside EXCEPT !.settings =
                  IF settings' = settings THEN @ ELSE @ \cup Beside(r, {"update"})]
  /\ Becomes(r, Done)
  /\ UNCHANGED <<credential, command>>

\* The request ends with an exception and its session is closed.
Fail(r) ==
  /\ job[r].pc \notin {"new", "done", "failed"}
  /\ Becomes(r, [pc |-> "failed"])
  /\ UNCHANGED <<rows, beside>>

Next ==
  \E r \in Requests :
    \/ Authenticate(r) \/ StorePacket(r) \/ LoadCredential(r) \/ Revoke(r)
    \/ LoadCommand(r) \/ Decide(r)
    \/ LoadSettings(r) \/ Insert(r) \/ Reread(r) \/ UpdateSettings(r)
    \/ Fail(r)

Spec == Init /\ [][Next]_vars

-----------------------------------------------------------------------------
(***************************************************************************)
(* Properties.                                                             *)
(***************************************************************************)

\* A revocation stands: the packets whose commits follow it do not undo it with
\* what they read before, and only a revocation that was under way beside it
\* puts another name and date on it.
RevocationStands ==
  [][~Unrevoked => \/ UNCHANGED credential
                   \/ credential'.revokedBy = credential.revokedBy
                   \/ \E r \in beside.credential : credential'.revokedBy = r]_vars

\* A decision on a command stands, unless another request had read it as
\* pending and was under way when it was made.
DecisionNeedsARace ==
  [][command.status # "PENDING" =>
       \/ UNCHANGED command
       \/ \E r \in beside.command : command'.by = r]_vars

\* However the first requests of an organization race for its settings, one
\* row is what all of them work on from then on.
OneSettingsRow ==
  /\ \A a, b \in settings : a = b
  /\ (\E r \in Requests : job[r].pc \in {"reread", "update"}) => settings # {}

\* The high band is below the critical one, unless an update was committed
\* while another was under way that had checked its own against the old row.
InvertedOnlyByRace ==
  beside.settings = {} => \A row \in settings : row.high < row.critical

\* Documented: the resulting order of the bands is validated, not just the
\* fields that arrived.
BandsStayOrdered == \A row \in settings : row.high < row.critical
=============================================================================
