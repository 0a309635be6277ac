------------------------- MODULE TenantRecordsProofs -------------------------
(***************************************************************************)
(* Proofs about TenantRecords, for any number of requests and any           *)
(* threshold values: what is written back from a stale read can only be     *)
(* wrong where two requests overlapped.                                     *)
(***************************************************************************)
EXTENDS TenantRecords, TLAPS

\* What a revocation, a decision or an update at work has read is still so, or
\* the row was changed beside it.
ReadsHold ==
  \A r \in Requests :
    /\ job[r].pc = "revoke" => Unrevoked \/ r \in beside.credential
    /\ job[r].pc = "decide" => command.status = "PENDING" \/ r \in beside.command
    /\ job[r].pc = "update" =>
         /\ Valid(job[r].patch, job[r].read)
         /\ settings = {job[r].read} \/ r \in beside.settings

IInv == TypeOK /\ OneSettingsRow /\ InvertedOnlyByRace /\ ReadsHold

-----------------------------------------------------------------------------
\* What a request holds at each of its statements.
LEMMA Holds ==
  ASSUME NEW j \in Job
  PROVE  /\ j.pc \in {"packet", "revoke"} => j.used \in BOOLEAN
         /\ j.pc = "decide" => j.approved \in BOOLEAN
         /\ j.pc \in {"create", "reread", "update"} => j.patch \in Patch
         /\ j.pc = "update" => j.read \in Bands
BY DEF Job, Idle, Done

\* A step of r that changes no row, and leaves r with what it has just read.
LEMMA Advanced ==
  ASSUME IInv, NEW r \in Requests, NEW j \in Job, Becomes(r, j),
         UNCHANGED <<rows, beside>>,
         j.pc = "revoke" => Unrevoked,
         j.pc = "decide" => command.status = "PENDING",
         j.pc = "update" => Valid(j.patch, j.read) /\ settings = {j.read},
         j.pc = "reread" => settings # {}
  PROVE  IInv'
<1>1. job' \in [Requests -> Job] /\ job'[r] = j /\ \A s \in Requests \ {r} : job'[s] = job[s]
  BY DEF Becomes, IInv, TypeOK
<1>2. TypeOK'
  BY <1>1 DEF IInv, TypeOK, rows
<1>3. OneSettingsRow'
  BY <1>1 DEF IInv, OneSettingsRow, rows
<1>4. InvertedOnlyByRace'
  BY DEF IInv, InvertedOnlyByRace, rows
<1>5. ReadsHold'
  <2> SUFFICES ASSUME NEW s \in Requests
               PROVE  /\ job'[s].pc = "revoke" => Unrevoked' \/ s \in beside'.credential
                      /\ job'[s].pc = "decide" => command'.status = "PENDING" \/ s \in beside'.command
                      /\ job'[s].pc = "update" =>
                           /\ Valid(job'[s].patch, job'[s].read)
                           /\ settings' = {job'[s].read} \/ s \in beside'.settings
    BY DEF ReadsHold
  <2>1. UNCHANGED <<Unrevoked, command, settings, beside>>
    BY DEF rows, Unrevoked
  <2> QED
    BY <1>1, <2>1 DEF IInv, ReadsHold
<1> QED
  BY <1>2, <1>3, <1>4, <1>5 DEF IInv

\* The row a request goes to work on is the only one.
LEMMA WorkHolds ==
  ASSUME IInv, NEW patch \in Patch, NEW read \in settings
  PROVE  /\ Work(patch, read) \in Job
         /\ Work(patch, read).pc \in {"update", "done"}
         /\ Work(patch, read).pc = "update" =>
              /\ Valid(Work(patch, read).patch, Work(patch, read).read)
              /\ settings = {Work(patch, read).read}
<1>1. read \in Bands /\ settings = {read}
  BY DEF IInv, TypeOK, OneSettingsRow
<1> QED
  BY <1>1 DEF Work, Job, Done

LEMMA InitHolds == Init => IInv
<1> SUFFICES ASSUME Init PROVE IInv
  OBVIOUS
<1>1. TypeOK
  BY DEF Init, TypeOK, Job, Idle, Status
<1> QED
  BY <1>1 DEF Init, IInv, OneSettingsRow, InvertedOnlyByRace, ReadsHold, Idle

\* Reading a row, and ending without a commit.
LEMMA Read ==
  ASSUME IInv, NEW r \in Requests,
         Authenticate(r) \/ LoadCredential(r) \/ LoadCommand(r) \/ LoadSettings(r) \/ Reread(r) \/ Fail(r)
  PROVE  IInv'
<1>0. Done \in Job /\ Done.pc = "done"
  BY DEF Job, Done
<1>1. CASE Authenticate(r)
  <2> DEFINE j == IF Unrevoked THEN [pc |-> "packet", used |-> credential.used] ELSE Done
  <2>1. j \in Job /\ j.pc \in {"packet", "done"}
    BY <1>0 DEF Job, IInv, TypeOK
  <2> QED
    BY <1>1, <2>1, Advanced DEF Authenticate
<1>2. CASE LoadCredential(r)
  <2> DEFINE j == IF Unrevoked THEN [pc |-> "revoke", used |-> credential.used] ELSE Done
  <2>1. j \in Job /\ j.pc \in {"revoke", "done"} /\ (j.pc = "revoke" => Unrevoked)
    BY <1>0 DEF Job, IInv, TypeOK
  <2> QED
    BY <1>2, <2>1, Advanced DEF LoadCredential
<1>3. CASE LoadCommand(r)
  <2>1. ASSUME command.status = "PENDING", NEW approved \in BOOLEAN,
               Becomes(r, [pc |-> "decide", approved |-> approved])
        PROVE  IInv'
    <3>1. [pc |-> "decide", approved |-> approved] \in Job
      BY DEF Job
    <3> QED
      BY <1>3, <2>1, <3>1, Advanced DEF LoadCommand
  <2>2. ASSUME Becomes(r, Done) PROVE IInv'
    BY <1>3, <1>0, <2>2, Advanced DEF LoadCommand
  <2> QED
    BY <1>3, <2>1, <2>2 DEF LoadCommand
<1>4. CASE LoadSettings(r)
  <2>1. PICK patch \in Patch :
          \/ settings = {} /\ Becomes(r, [pc |-> "create", patch |-> patch])
          \/ \E read \in settings : Becomes(r, Work(patch, read))
    BY <1>4 DEF LoadSettings
  <2>2. CASE Becomes(r, [pc |-> "create", patch |-> patch])
    <3>1. [pc |-> "create", patch |-> patch] \in Job
      BY DEF Job
    <3> QED
      BY <1>4, <2>2, <3>1, Advanced DEF LoadSettings
  <2>3. ASSUME NEW read \in settings, Becomes(r, Work(patch, read)) PROVE IInv'
    BY <1>4, <2>3, WorkHolds, Advanced DEF LoadSettings
  <2> QED
    BY <2>1, <2>2, <2>3
<1>5. CASE Reread(r)
  <2>1. PICK read \in settings : Becomes(r, Work(job[r].patch, read))
    BY <1>5 DEF Reread
  <2>2. job[r].patch \in Patch
    BY <1>5, Holds DEF Reread, IInv, TypeOK
  <2> QED
    BY <1>5, <2>1, <2>2, WorkHolds, Advanced DEF Reread
<1>6. CASE Fail(r)
  <2>1. [pc |-> "failed"] \in Job
    BY DEF Job
  <2> QED
    BY <1>6, <2>1, Advanced DEF Fail
<1> QED
  BY <1>1, <1>2, <1>3, <1>4, <1>5, <1>6

\* A commit of r that is then done: what changed for the others.
LEMMA Ended ==
  ASSUME IInv, NEW r \in Requests, Becomes(r, Done)
  PROVE  /\ job' \in [Requests -> Job] /\ job'[r].pc = "done"
         /\ \A s \in Requests \ {r} : job'[s] = job[s]
BY DEF Becomes, IInv, TypeOK, Job, Done

LEMMA Committed ==
  ASSUME IInv, NEW r \in Requests,
         StorePacket(r) \/ Revoke(r) \/ Decide(r)
  PROVE  IInv'
<1>1. CASE StorePacket(r)
  <2>1. /\ credential' \in [revokedBy : Requests \cup {None}, used : BOOLEAN]
        /\ credential'.revokedBy = credential.revokedBy
    BY <1>1, Holds DEF StorePacket, Stamp, IInv, TypeOK
  <2>2. TypeOK'
    BY <1>1, <2>1, Ended DEF StorePacket, IInv, TypeOK
  <2>3. ReadsHold'
    BY <1>1, <2>1, Ended DEF StorePacket, IInv, ReadsHold, Unrevoked
  <2> QED
    BY <1>1, <2>2, <2>3, Ended DEF StorePacket, IInv, OneSettingsRow, InvertedOnlyByRace
<1>2. CASE Revoke(r)
  <2>1. /\ credential' \in [revokedBy : Requests \cup {None}, used : BOOLEAN]
        /\ beside' \in [credential : SUBSET Requests, command : SUBSET Requests, settings : SUBSET Requests]
        /\ beside'.credential = beside.credential \cup Beside(r, {"revoke"})
        /\ beside'.command = beside.command /\ beside'.settings = beside.settings
    BY <1>2 DEF Revoke, IInv, TypeOK, Beside
  <2>2. TypeOK'
    BY <1>2, <2>1, Ended DEF Revoke, IInv, TypeOK
  <2>3. ReadsHold'
    BY <1>2, <2>1, Ended DEF Revoke, IInv, ReadsHold, Beside
  <2> QED
    BY <1>2, <2>1, <2>2, <2>3, Ended DEF Revoke, IInv, OneSettingsRow, InvertedOnlyByRace
<1>3. CASE Decide(r)
  <2>1. /\ command' \in [status : Status, by : Requests \cup {None}]
        /\ command'.status # "PENDING" /\ command'.by = r /\ r # None
        /\ beside' \in [credential : SUBSET Requests, command : SUBSET Requests, settings : SUBSET Requests]
        /\ beside'.command = beside.command \cup Beside(r, {"decide"})
        /\ beside'.credential = beside.credential /\ beside'.settings = beside.settings
    BY <1>3, LevelsAssumption DEF Decide, IInv, TypeOK, Beside, Status
  <2>2. TypeOK'
    BY <1>3, <2>1, Ended DEF Decide, IInv, TypeOK
  <2>3. ReadsHold'
    BY <1>3, <2>1, Ended DEF Decide, IInv, ReadsHold, Beside, Unrevoked
  <2> QED
    BY <1>3, <2>1, <2>2, <2>3, Ended DEF Decide, IInv, OneSettingsRow, InvertedOnlyByRace
<1> QED
  BY <1>1, <1>2, <1>3

\* The row that loses the race to be inserted is the one all adopt.
LEMMA Inserted ==
  ASSUME IInv, NEW r \in Requests, Insert(r)
  PROVE  IInv'
<1> DEFINE j == [job[r] EXCEPT !.pc = "reread"]
<1>1. DefaultRow \in Bands /\ DefaultRow.high < DefaultRow.critical
  BY LevelsAssumption DEF DefaultRow, Bands
<1>2. job[r] \in Job /\ job[r].pc = "create"
  BY DEF Insert, IInv, TypeOK
<1>3. j \in Job /\ j.pc = "reread"
  BY <1>2 DEF Job, Idle, Done
<1>4. job' \in [Requests -> Job] /\ job'[r] = j /\ \A s \in Requests \ {r} : job'[s] = job[s]
  BY <1>3 DEF Insert, Becomes, IInv, TypeOK
<1>5. CASE settings = {}
  <2>1. settings' = {DefaultRow}
    BY <1>5 DEF Insert
  <2>2. TypeOK'
    BY <1>1, <1>4, <2>1 DEF Insert, IInv, TypeOK
  <2>3. ReadsHold'
    BY <1>3, <1>4, <1>5 DEF Insert, IInv, ReadsHold, OneSettingsRow, Unrevoked
  <2> QED
    BY <1>1, <2>1, <2>2, <2>3 DEF IInv, OneSettingsRow, InvertedOnlyByRace
<1>6. CASE settings # {}
  <2>1. settings' = settings
    BY <1>6 DEF Insert
  <2>2. TypeOK'
    BY <1>4, <2>1 DEF Insert, IInv, TypeOK
  <2>3. ReadsHold'
    BY <1>3, <1>4, <2>1 DEF Insert, IInv, ReadsHold, Unrevoked
  <2>4. OneSettingsRow'
    BY <1>6, <2>1 DEF IInv, OneSettingsRow
  <2> QED
    BY <2>1, <2>2, <2>3, <2>4 DEF Insert, IInv, InvertedOnlyByRace
<1> QED
  BY <1>5, <1>6

\* What is left of a patch that was validated against the row it is written to.
LEMMA WrittenInOrder ==
  ASSUME NEW patch \in Patch, NEW read \in Bands, Valid(patch, read), read.high < read.critical
  PROVE  Written(patch.high, read.high, read.high) < Written(patch.critical, read.critical, read.critical)
<1>1. /\ Written(patch.high, read.high, read.high) = Given(patch.high, read.high)
      /\ Written(patch.critical, read.critical, read.critical) = Given(patch.critical, read.critical)
  BY LevelsAssumption DEF Written, Given, Patch, Bands
<1>2. CASE patch = [high |-> None, critical |-> None]
  BY <1>1, <1>2 DEF Given
<1>3. CASE Ordered(patch, read)
  BY <1>1, <1>3 DEF Ordered
<1> QED
  BY <1>2, <1>3 DEF Valid

LEMMA UpdatedSettings ==
  ASSUME IInv, NEW r \in Requests, UpdateSettings(r)
  PROVE  IInv'
<1> DEFINE p == job[r].patch
           read == job[r].read
           W(row) == [high |-> Written(p.high, read.high, row.high),
                      critical |-> Written(p.critical, read.critical, row.critical)]
<1>1. p \in Patch /\ read \in Bands /\ Valid(p, read) /\ settings # {}
      /\ (settings = {read} \/ r \in beside.settings)
  BY Holds DEF UpdateSettings, IInv, TypeOK, ReadsHold, OneSettingsRow
<1>2. PICK row \in Bands : settings = {row}
  BY <1>1 DEF IInv, TypeOK, OneSettingsRow
<1>3. settings' = {W(row)}
  BY <1>2 DEF UpdateSettings
<1>4. W(row) \in Bands
  BY <1>1, LevelsAssumption DEF Written, Patch, Bands
<1>5. /\ beside' \in [credential : SUBSET Requests, command : SUBSET Requests, settings : SUBSET Requests]
      /\ beside'.credential = beside.credential /\ beside'.command = beside.command
      /\ beside.settings \subseteq beside'.settings
      /\ settings' # settings => Beside(r, {"update"}) \subseteq beside'.settings
  BY DEF UpdateSettings, IInv, TypeOK, Beside
<1>6. TypeOK'
  BY <1>3, <1>4, <1>5, Ended DEF UpdateSettings, IInv, TypeOK
<1>7. OneSettingsRow'
  BY <1>3 DEF OneSettingsRow
<1>8. ReadsHold'
  <2> SUFFICES ASSUME NEW s \in Requests
               PROVE  /\ job'[s].pc = "revoke" => Unrevoked' \/ s \in beside'.credential
                      /\ job'[s].pc = "decide" => command'.status = "PENDING" \/ s \in beside'.command
                      /\ job'[s].pc = "update" =>
                           /\ Valid(job'[s].patch, job'[s].read)
                           /\ settings' = {job'[s].read} \/ s \in beside'.settings
    BY DEF ReadsHold
  <2>1. CASE s = r
    BY <2>1, Ended DEF UpdateSettings
  <2>2. CASE s # r
    <3>1. job'[s] = job[s] /\ UNCHANGED <<credential, command>>
      BY <2>2, Ended DEF UpdateSettings
    <3>2. settings' # settings /\ job[s].pc = "update" => s \in beside'.settings
      BY <1>5, <2>2 DEF Beside
    <3> QED
      BY <1>5, <3>1, <3>2 DEF IInv, ReadsHold, Unrevoked
  <2> QED
    BY <2>1, <2>2
<1>9. InvertedOnlyByRace'
  <2> SUFFICES ASSUME beside'.settings = {} PROVE W(row).high < W(row).critical
    BY <1>3 DEF InvertedOnlyByRace
  <2>1. row = read /\ row.high < row.critical
    BY <1>1, <1>2, <1>5 DEF IInv, InvertedOnlyByRace
  <2> QED
    BY <1>1, <2>1, WrittenInOrder
<1> QED
  BY <1>6, <1>7, <1>8, <1>9 DEF IInv

LEMMA NextHolds == IInv /\ [Next]_vars => IInv'
<1> SUFFICES ASSUME IInv, [Next]_vars PROVE IInv'
  OBVIOUS
<1>1. ASSUME NEW r \in Requests,
             Authenticate(r) \/ LoadCredential(r) \/ LoadCommand(r) \/ LoadSettings(r) \/ Reread(r) \/ Fail(r)
      PROVE  IInv'
  BY <1>1, Read
<1>2. ASSUME NEW r \in Requests, StorePacket(r) \/ Revoke(r) \/ Decide(r) PROVE IInv'
  BY <1>2, Committed
<1>3. ASSUME NEW r \in Requests, Insert(r) PROVE IInv'
  BY <1>3, Inserted
<1>4. ASSUME NEW r \in Requests, UpdateSettings(r) PROVE IInv'
  BY <1>4, UpdatedSettings
<1>5. CASE UNCHANGED vars
  BY <1>5 DEF vars, rows, IInv, TypeOK, OneSettingsRow, InvertedOnlyByRace, ReadsHold, Unrevoked
<1> QED
  BY <1>1, <1>2, <1>3, <1>4, <1>5 DEF Next

\* Each commit agrees with what its request had read, or with a request that
\* changed the row beside it: the inductive invariant.
THEOREM Invariance == Spec => []IInv
<1> QED
  BY InitHolds, NextHolds, PTL DEF Spec

\* The three rows, what the requests hold and the history have their types.
THEOREM TypeCorrect == Spec => []TypeOK
<1>1. IInv => TypeOK
  BY DEF IInv
<1> QED
  BY <1>1, Invariance, PTL

\* However many first requests race, the organization has one settings row.
THEOREM SettingsUnique == Spec => []OneSettingsRow
<1>1. IInv => OneSettingsRow
  BY DEF IInv
<1> QED
  BY <1>1, Invariance, PTL

\* Bands are out of order only after two updates overlapped.
THEOREM BandsOrdered == Spec => []InvertedOnlyByRace
<1>1. IInv => InvertedOnlyByRace
  BY DEF IInv
<1> QED
  BY <1>1, Invariance, PTL

LEMMA RevocationStep ==
  IInv /\ [Next]_vars =>
    [~Unrevoked => \/ UNCHANGED credential
                   \/ credential'.revokedBy = credential.revokedBy
                   \/ \E r \in beside.credential : credential'.revokedBy = r]_vars
<1> SUFFICES ASSUME IInv, Next, ~Unrevoked, ~UNCHANGED credential
             PROVE  \/ credential'.revokedBy = credential.revokedBy
                    \/ \E r \in beside.credential : credential'.revokedBy = r
  OBVIOUS
<1>1. PICK r \in Requests : StorePacket(r) \/ Revoke(r)
  BY DEF Next, Authenticate, LoadCredential, LoadCommand, Decide, LoadSettings, Insert, Reread,
         UpdateSettings, Fail, rows
<1>2. CASE StorePacket(r)
  BY <1>2 DEF StorePacket, Stamp, IInv, TypeOK
<1>3. CASE Revoke(r)
  <2>1. r \in beside.credential
    BY <1>3 DEF Revoke, IInv, ReadsHold
  <2>2. credential'.revokedBy = r
    BY <1>3 DEF Revoke, IInv, TypeOK
  <2> QED
    BY <2>1, <2>2
<1> QED
  BY <1>1, <1>2, <1>3

\* No packet undoes a revocation, and only one under way beside it re-dates it.
THEOREM Revocation == Spec => RevocationStands
<1> QED
  BY Invariance, RevocationStep, PTL DEF Spec, RevocationStands

LEMMA DecisionStep ==
  IInv /\ [Next]_vars =>
    [command.status # "PENDING" => \/ UNCHANGED command
                                   \/ \E r \in beside.command : command'.by = r]_vars
<1> SUFFICES ASSUME IInv, Next, command.status # "PENDING", ~UNCHANGED command
             PROVE  \E r \in beside.command : command'.by = r
  OBVIOUS
<1>1. PICK r \in Requests : Decide(r)
  BY DEF Next, Authenticate, StorePacket, LoadCredential, Revoke, LoadCommand, LoadSettings, Insert, Reread,
         UpdateSettings, Fail, rows
<1>2. r \in beside.command
  BY <1>1 DEF Decide, IInv, ReadsHold
<1>3. command'.by = r
  BY <1>1 DEF Decide
<1> QED
  BY <1>2, <1>3

\* A decision stands unless a request that overlapped it decides again.
THEOREM Decision == Spec => DecisionNeedsARace
<1> QED
  BY Invariance, DecisionStep, PTL DEF Spec, DecisionNeedsARace
=============================================================================
