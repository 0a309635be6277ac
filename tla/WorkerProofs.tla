---------------------------- MODULE WorkerProofs ----------------------------
(***************************************************************************)
(* Theorems about the worker processes: the passes they share              *)
(* (SupervisedPass), for any number of workers and any times its           *)
(* assumption admits, and what each shares among its requests (Admission): *)
(* the slots, and the pool that is never short and never at a standoff,    *)
(* for any limits that the configuration check accepts.                    *)
(***************************************************************************)
EXTENDS SupervisedPass, Admission, FiniteSetTheorems, TLAPS

-----------------------------------------------------------------------------
(***************************************************************************)
(* SupervisedPass.                                                         *)
(***************************************************************************)
\* The arithmetic of the times, in the form the steps use.
LEMMA Times ==
  /\ Interval \in Nat /\ Interval > 0 /\ ClaimFor \in Nat /\ ClaimFor > 0
  /\ InitialBackoff \in Nat /\ InitialBackoff > 0 /\ MaxBackoff \in Nat
  /\ InitialBackoff <= MaxBackoff
  /\ PassTime \in Nat /\ PassTime > 0 /\ PassTime < ClaimFor /\ ClaimFor < Interval
  /\ StallGrace \in Nat /\ {Horizon, PassHorizon, DoneHorizon} \subseteq Nat
  /\ StallGrace + 3 * Interval < Horizon
  /\ ClaimFor + Interval <= PassHorizon /\ PassTime + MaxBackoff < PassHorizon
  /\ Never \notin Nat
  /\ FirstWait \in {0, Interval}
BY TimesAssumption DEF FirstWait

\* Each age and wait stays in its range.
LEMMA Bounded ==
  /\ \A age \in Ages : Older(age, Horizon) \in Ages
  /\ \A age \in 0 .. PassHorizon : Older(age, PassHorizon) \in 0 .. PassHorizon
  /\ \A age \in 0 .. DoneHorizon : Older(age, DoneHorizon) \in 0 .. DoneHorizon
  /\ \A time \in Waits : Less(time) \in Waits
  /\ \A time \in 0 .. ClaimFor : Less(time) \in 0 .. ClaimFor
  /\ {0, Interval, PassTime, FirstWait} \cup Backoffs \subseteq Waits
  /\ InitialBackoff \in Backoffs
  /\ \A b \in Backoffs : (IF 2 * b < MaxBackoff THEN 2 * b ELSE MaxBackoff) \in Backoffs
BY Times DEF Older, Less, Ages, Waits, Backoffs

\* The types are kept by every step.
LEMMA PassTypeStep == PassTypeOK /\ [PassNext]_passVars => PassTypeOK'
<1> SUFFICES ASSUME PassTypeOK, [PassNext]_passVars PROVE PassTypeOK'
  OBVIOUS
<1> USE Bounded, Times
<1>1. ASSUME NEW w \in Workers, Start(w) PROVE PassTypeOK'
  BY <1>1 DEF PassTypeOK, Start, Spawn, Sleep, redis, claims, Ages
<1>2. ASSUME NEW w \in Workers, RunClaimed(w) PROVE PassTypeOK'
  BY <1>2 DEF PassTypeOK, RunClaimed, Due, Work, Tried
<1>3. ASSUME NEW w \in Workers, RunUnclaimed(w) PROVE PassTypeOK'
  BY <1>3 DEF PassTypeOK, RunUnclaimed, Due, Work, Tried, claims
<1>4. ASSUME NEW w \in Workers, Skip(w) PROVE PassTypeOK'
  BY <1>4 DEF PassTypeOK, Skip, Due, Ticked, Sleep, Tried, redis, claims, Ages
<1>5. ASSUME NEW w \in Workers, Succeed(w) PROVE PassTypeOK'
  BY <1>5 DEF PassTypeOK, Succeed, Ticked, Sleep, redis, claims, GiveUp, Ages
<1>6. ASSUME NEW w \in Workers, Fail(w) PROVE PassTypeOK'
  BY <1>6 DEF PassTypeOK, Fail, Sleep, redis, claims, GiveUp
<1>7. ASSUME NEW w \in Workers, Escape(w) PROVE PassTypeOK'
  BY <1>7 DEF PassTypeOK, Escape, redis, claims, GiveUp
<1>8. ASSUME NEW w \in Workers, Respawn(w) PROVE PassTypeOK'
  BY <1>8 DEF PassTypeOK, Respawn, Spawn, Sleep, redis, claims, Ages
<1>9. ASSUME NEW w \in Workers, Stop(w) PROVE PassTypeOK'
  BY <1>9 DEF PassTypeOK, Stop, Exit, redis, claims, GiveUp
<1>10. ASSUME NEW w \in Workers, Crash(w) PROVE PassTypeOK'
  BY <1>10 DEF PassTypeOK, Crash, Exit, redis, claims, GiveUp
<1>11. CASE StoreFails \/ StoreRecovers
  BY <1>11 DEF PassTypeOK, StoreFails, StoreRecovers, task, claims
<1>14. CASE StoreForgets
  BY <1>14 DEF PassTypeOK, StoreForgets, task
<1>12. CASE Tick
  BY <1>12 DEF PassTypeOK, Tick, Prompt, claims
<1>13. CASE UNCHANGED passVars
  BY <1>13 DEF PassTypeOK, passVars
<1> QED
  BY <1>1, <1>2, <1>3, <1>4, <1>5, <1>6, <1>7, <1>8, <1>9, <1>10, <1>11, <1>12, <1>13, <1>14 DEF PassNext

\* Type correctness.
THEOREM PassTypeCorrect == PassSpec => []PassTypeOK
<1>1. PassInit => PassTypeOK
  BY Bounded, Times DEF PassInit, PassTypeOK, Ages
<1> QED
  BY <1>1, PassTypeStep, PTL DEF PassSpec

-----------------------------------------------------------------------------
\* What the steps of Timing have in hand: the types it reads, one by one.
TimingTypes ==
  /\ loop \in [Workers -> {"down", "sleeping", "working", "ended"}]
  /\ wait \in [Workers -> Nat]
  /\ sinceStart \in [Workers -> Nat]
  /\ sinceTick \in [Workers -> Nat \cup {Never}]
  /\ backoff \in [Workers -> Nat] /\ \A w \in Workers : backoff[w] <= MaxBackoff
  /\ claimLeft \in Nat /\ sinceBegun \in Nat
  /\ holds \subseteq {w \in Workers : loop[w] = "working"} /\ lost \subseteq holds

LEMMA TypesOfTiming == PassTypeOK => TimingTypes
<1> SUFFICES ASSUME PassTypeOK PROVE TimingTypes
  OBVIOUS
<1>1. Ages \subseteq Nat /\ Waits \subseteq Nat /\ \A b \in Backoffs : b \in Nat /\ b <= MaxBackoff
  BY Times DEF Ages, Waits, Backoffs
<1>2. claimLeft \in Nat /\ sinceBegun \in Nat
  BY Times DEF PassTypeOK
<1>3. sinceTick \in [Workers -> Nat \cup {Never}] /\ sinceStart \in [Workers -> Nat]
  BY <1>1 DEF PassTypeOK
<1>4. wait \in [Workers -> Nat]
  BY <1>1 DEF PassTypeOK
<1>5. backoff \in [Workers -> Nat] /\ \A w \in Workers : backoff[w] <= MaxBackoff
  BY <1>1 DEF PassTypeOK
<1> QED
  BY <1>2, <1>3, <1>4, <1>5 DEF PassTypeOK, TimingTypes

\* An age grows by at most one at a tick, a wait that is left shrinks by one.
LEMMA Ticking ==
  /\ \A n \in Nat, h \in Nat : Older(n, h) \in Nat /\ Older(n, h) <= n + 1
  /\ \A n \in Nat : Less(n) \in Nat /\ (n > 0 => Less(n) = n - 1) /\ (n = 0 => Less(n) = 0)
BY DEF Older, Less

\* A step of worker w's: the other loops are left alone, the gap does not widen.
StepOf(w) ==
  /\ sinceBegun' \in Nat /\ sinceBegun' <= sinceBegun
  /\ \A v \in Workers \ {w} :
       /\ loop'[v] = loop[v] /\ wait'[v] = wait[v] /\ sinceStart'[v] = sinceStart[v]
       /\ sinceTick'[v] = sinceTick[v] /\ (v \in failed' <=> v \in failed)
       /\ v \in holds' <=> v \in holds
       /\ v \in lost' <=> v \in lost

\* What the others' waits promised, they still promise.
LEMMA OthersKeep ==
  ASSUME NEW w \in Workers, TimingTypes, Timing, StepOf(w)
  PROVE  \A v \in Workers \ {w} : Closes(v)' /\ OnTime(v)'
<1> SUFFICES ASSUME NEW v \in Workers \ {w} PROVE Closes(v)' /\ OnTime(v)'
  OBVIOUS
<1>1. Closes(v) /\ OnTime(v)
  BY DEF Timing, GapCloses, TicksOnTime
<1>2. Closes(v)'
  BY <1>1, Times DEF StepOf, Closes, TimingTypes
<1>3. OnTime(v)'
  BY <1>1, Times DEF StepOf, OnTime, Reference, TimingTypes
<1> QED
  BY <1>2, <1>3

\* A step that takes no claim leaves the claims that run as they are, though it
\* may set a key that no running pass counts on.
LEMMA ClaimsKeep ==
  ASSUME NEW w \in Workers, TimingTypes, Timing, StepOf(w), holds' \subseteq holds,
         w \in holds' => wait'[w] = wait[w], w \in holds' => (w \in lost' <=> w \in lost),
         \/ UNCHANGED claimLeft
         \/ claimLeft = 0 /\ claimLeft' = ClaimFor /\ sinceBegun' = 0
  PROVE  ClaimOutlives' /\ ClaimIsRecent'
<1>1. \A v \in (holds \ lost)' : wait'[v] = wait[v] /\ v \in holds \ lost
  BY DEF StepOf, TimingTypes
<1>2. ClaimOutlives'
  BY <1>1, Times DEF Timing, ClaimOutlives, ClaimedPassesExclusive, TimingTypes
<1>3. ClaimIsRecent'
  BY Times DEF Timing, ClaimIsRecent, StepOf, TimingTypes
<1> QED
  BY <1>2, <1>3

\* Every step keeps Timing.
LEMMA TimingStep == PassTypeOK /\ PassTypeOK' /\ Timing /\ [PassNext]_passVars => Timing'
<1> SUFFICES ASSUME PassTypeOK, PassTypeOK', Timing, [PassNext]_passVars PROVE Timing'
  OBVIOUS
<1>0. TimingTypes
  BY TypesOfTiming
<1> USE <1>0, Times
<1>1. ASSUME NEW w \in Workers, Start(w) PROVE Timing'
  <2>1. StepOf(w)
    BY <1>1 DEF Start, Spawn, Sleep, redis, claims, StepOf, TimingTypes
  <2>2. /\ UNCHANGED <<claimLeft, sinceBegun, holds>> /\ loop[w] = "down" /\ w \notin holds
        /\ loop'[w] = "sleeping" /\ wait'[w] = FirstWait
        /\ sinceStart'[w] = 0 /\ sinceTick'[w] = Never
    BY <1>1 DEF Start, Spawn, Sleep, redis, claims, TimingTypes
  <2>3. ClaimOutlives' /\ ClaimIsRecent'
    BY <2>1, <2>2, ClaimsKeep DEF TimingTypes
  <2>4. Closes(w)'
    BY <2>1, <2>2 DEF Timing, GapCloses, Closes, ClaimIsRecent, StepOf, TimingTypes
  <2>5. OnTime(w)'
    BY <2>2 DEF Timing, TicksOnTime, OnTime, Reference, TimingTypes
  <2> QED
    BY <2>1, <2>3, <2>4, <2>5, OthersKeep DEF Timing, GapCloses, TicksOnTime
<1>2. ASSUME NEW w \in Workers, RunClaimed(w) PROVE Timing'
  <2>1. StepOf(w)
    BY <1>2, Times DEF RunClaimed, Due, Work, StepOf, TimingTypes
  <2>2. /\ loop[w] = "sleeping" /\ wait[w] = 0 /\ claimLeft = 0
        /\ loop'[w] = "working" /\ wait'[w] = PassTime /\ sinceBegun' = 0
        /\ claimLeft' = ClaimFor /\ holds' = holds \cup {w}
        /\ UNCHANGED <<sinceStart, sinceTick, failed, lost>>
    BY <1>2 DEF RunClaimed, Due, Work, TimingTypes
  <2>3. ClaimOutlives' /\ ClaimIsRecent'
    <3>1. holds \ lost = {} /\ (holds \ lost)' \subseteq {w}
      BY <2>2 DEF Timing, ClaimOutlives, TimingTypes
    <3> QED
      BY <2>2, <3>1 DEF ClaimOutlives, ClaimIsRecent, ClaimedPassesExclusive
  <2>4. Closes(w)'
    BY <2>1, <2>2 DEF Timing, GapCloses, Closes, ClaimIsRecent, StepOf, TimingTypes
  <2>5. OnTime(w)'
    BY <2>2 DEF Timing, TicksOnTime, OnTime, Reference, TimingTypes
  <2> QED
    BY <2>1, <2>3, <2>4, <2>5, OthersKeep DEF Timing, GapCloses, TicksOnTime
<1>3. ASSUME NEW w \in Workers, RunUnclaimed(w) PROVE Timing'
  <2>1. StepOf(w)
    BY <1>3, Times DEF RunUnclaimed, Due, Work, claims, StepOf, TimingTypes
  <2>2. /\ loop[w] = "sleeping" /\ wait[w] = 0 /\ w \notin holds
        /\ loop'[w] = "working" /\ wait'[w] = PassTime /\ sinceBegun' = 0
        /\ claimLeft' = claimLeft \/ (claimLeft = 0 /\ claimLeft' = ClaimFor)
        /\ UNCHANGED <<holds, sinceStart, sinceTick, failed>>
    BY <1>3 DEF RunUnclaimed, Due, Work, claims, TimingTypes
  <2>3. ClaimOutlives' /\ ClaimIsRecent'
    BY <2>1, <2>2, ClaimsKeep DEF TimingTypes
  <2>4. Closes(w)'
    BY <2>1, <2>2 DEF Timing, GapCloses, Closes, ClaimIsRecent, StepOf, TimingTypes
  <2>5. OnTime(w)'
    BY <2>2 DEF Timing, TicksOnTime, OnTime, Reference, TimingTypes
  <2> QED
    BY <2>1, <2>3, <2>4, <2>5, OthersKeep DEF Timing, GapCloses, TicksOnTime
<1>4. ASSUME NEW w \in Workers, Skip(w) PROVE Timing'
  <2>1. StepOf(w)
    BY <1>4 DEF Skip, Due, Ticked, Sleep, redis, claims, StepOf, TimingTypes
  <2>2. /\ loop[w] = "sleeping" /\ wait[w] = 0 /\ claimLeft > 0 /\ w \notin holds
        /\ loop'[w] = "sleeping" /\ wait'[w] = Interval /\ sinceTick'[w] = 0
        /\ w \notin failed' /\ UNCHANGED <<claimLeft, holds, sinceBegun>>
    BY <1>4 DEF Skip, Due, Ticked, Sleep, redis, claims, TimingTypes
  <2>3. ClaimOutlives' /\ ClaimIsRecent'
    BY <2>1, <2>2, ClaimsKeep DEF TimingTypes
  <2>4. Closes(w)'
    BY <2>1, <2>2 DEF Timing, GapCloses, Closes, ClaimIsRecent, StepOf, TimingTypes
  <2>5. OnTime(w)'
    BY <2>2 DEF Timing, TicksOnTime, OnTime, Reference, TimingTypes
  <2> QED
    BY <2>1, <2>3, <2>4, <2>5, OthersKeep DEF Timing, GapCloses, TicksOnTime
<1>5. ASSUME NEW w \in Workers, Succeed(w) PROVE Timing'
  <2>1. StepOf(w)
    BY <1>5 DEF Succeed, Ticked, Sleep, redis, claims, GiveUp, StepOf, TimingTypes
  <2>2. /\ loop[w] = "working" /\ loop'[w] = "sleeping" /\ wait'[w] = Interval
        /\ sinceTick'[w] = 0 /\ holds' = holds \ {w} /\ w \notin failed'
        /\ UNCHANGED <<claimLeft, sinceBegun>>
    BY <1>5 DEF Succeed, Ticked, Sleep, redis, claims, GiveUp, TimingTypes
  <2>3. ClaimOutlives' /\ ClaimIsRecent'
    BY <2>1, <2>2, ClaimsKeep DEF TimingTypes
  <2>4. Closes(w)'
    BY <2>1, <2>2 DEF Timing, GapCloses, Closes, ClaimIsRecent, StepOf, TimingTypes
  <2>5. OnTime(w)'
    BY <2>2 DEF Timing, TicksOnTime, OnTime, Reference, TimingTypes
  <2> QED
    BY <2>1, <2>3, <2>4, <2>5, OthersKeep DEF Timing, GapCloses, TicksOnTime
<1>6. ASSUME NEW w \in Workers, Fail(w) PROVE Timing'
  <2>1. StepOf(w)
    BY <1>6 DEF Fail, Sleep, redis, claims, GiveUp, StepOf, TimingTypes
  <2>2. /\ loop[w] = "working" /\ loop'[w] = "sleeping" /\ wait'[w] = backoff[w]
        /\ holds' = holds \ {w} /\ w \in failed'
        /\ UNCHANGED <<claimLeft, sinceBegun>>
    BY <1>6 DEF Fail, Sleep, redis, claims, GiveUp, TimingTypes
  <2>3. ClaimOutlives' /\ ClaimIsRecent'
    BY <2>1, <2>2, ClaimsKeep DEF TimingTypes
  <2>4. Closes(w)'
    BY <2>1, <2>2 DEF Timing, GapCloses, Closes, ClaimIsRecent, StepOf, TimingTypes
  <2>5. OnTime(w)'
    BY <2>2 DEF Timing, TicksOnTime, OnTime, Reference, TimingTypes
  <2> QED
    BY <2>1, <2>3, <2>4, <2>5, OthersKeep DEF Timing, GapCloses, TicksOnTime
<1>7. ASSUME NEW w \in Workers, Escape(w) PROVE Timing'
  <2>1. StepOf(w)
    BY <1>7 DEF Escape, redis, claims, GiveUp, StepOf, TimingTypes
  <2>2. /\ loop[w] = "working" /\ loop'[w] = "ended"
        /\ holds' = holds \ {w} /\ w \in failed'
        /\ UNCHANGED <<claimLeft, sinceBegun>>
    BY <1>7 DEF Escape, redis, claims, GiveUp, TimingTypes
  <2>3. ClaimOutlives' /\ ClaimIsRecent'
    BY <2>1, <2>2, ClaimsKeep DEF TimingTypes
  <2>4. Closes(w)'
    BY <2>1, <2>2 DEF Timing, GapCloses, Closes, ClaimIsRecent, StepOf, TimingTypes
  <2>5. OnTime(w)'
    BY <2>2 DEF Timing, TicksOnTime, OnTime, Reference, TimingTypes
  <2> QED
    BY <2>1, <2>3, <2>4, <2>5, OthersKeep DEF Timing, GapCloses, TicksOnTime
<1>8. ASSUME NEW w \in Workers, Respawn(w) PROVE Timing'
  <2>1. StepOf(w)
    BY <1>8 DEF Respawn, Spawn, Sleep, redis, claims, StepOf, TimingTypes
  <2>2. /\ loop[w] = "ended" /\ loop'[w] = "sleeping" /\ wait'[w] = FirstWait
        /\ sinceStart'[w] = 0 /\ w \notin holds
        /\ UNCHANGED <<claimLeft, sinceBegun, holds, sinceTick, failed>>
    BY <1>8 DEF Respawn, Spawn, Sleep, redis, claims, TimingTypes
  <2>3. ClaimOutlives' /\ ClaimIsRecent'
    BY <2>1, <2>2, ClaimsKeep DEF TimingTypes
  <2>4. Closes(w)'
    BY <2>1, <2>2 DEF Timing, GapCloses, Closes, ClaimIsRecent, StepOf, TimingTypes
  <2>5. OnTime(w)'
    BY <2>2 DEF Timing, TicksOnTime, OnTime, Reference, TimingTypes
  <2> QED
    BY <2>1, <2>3, <2>4, <2>5, OthersKeep DEF Timing, GapCloses, TicksOnTime
<1>9. ASSUME NEW w \in Workers, Stop(w) \/ Crash(w) PROVE Timing'
  <2>1. StepOf(w)
    BY <1>9 DEF Stop, Crash, Exit, redis, claims, GiveUp, StepOf, TimingTypes
  <2>2. /\ loop'[w] = "down" /\ holds' = holds \ {w}
        /\ UNCHANGED <<claimLeft, sinceBegun>>
    BY <1>9 DEF Stop, Crash, Exit, redis, claims, GiveUp, TimingTypes
  <2>3. ClaimOutlives' /\ ClaimIsRecent'
    BY <2>1, <2>2, ClaimsKeep DEF TimingTypes
  <2>4. Closes(w)'
    BY <2>1, <2>2 DEF Timing, GapCloses, Closes, ClaimIsRecent, StepOf, TimingTypes
  <2>5. OnTime(w)'
    BY <2>2 DEF Timing, TicksOnTime, OnTime, Reference, TimingTypes
  <2> QED
    BY <2>1, <2>3, <2>4, <2>5, OthersKeep DEF Timing, GapCloses, TicksOnTime
<1>10. CASE StoreFails \/ StoreRecovers \/ UNCHANGED passVars
  <2>1. UNCHANGED <<task, claimLeft, claims, sinceBegun>>
    BY <1>10 DEF StoreFails, StoreRecovers, passVars, task, claims
  <2> QED
    BY <2>1 DEF task, claims, Timing, ClaimOutlives, ClaimedPassesExclusive, ClaimIsRecent,
                GapCloses, Closes, TicksOnTime, OnTime, Reference
<1>11. CASE StoreForgets
  <2>1. UNCHANGED <<task, sinceBegun>> /\ claimLeft' = 0 /\ (holds \ lost)' = {}
    BY <1>11 DEF StoreForgets, task
  <2>2. ClaimOutlives' /\ ClaimIsRecent'
    BY <2>1 DEF ClaimOutlives, ClaimedPassesExclusive, ClaimIsRecent
  <2> QED
    BY <2>1, <2>2 DEF task, Timing, GapCloses, Closes, TicksOnTime, OnTime, Reference
<1>12. CASE Tick
  <2>1. /\ sinceBegun' \in Nat /\ sinceBegun' <= sinceBegun + 1
        /\ claimLeft > 0 => claimLeft' = claimLeft - 1
        /\ claimLeft = 0 => claimLeft' = 0
        /\ UNCHANGED <<loop, holds, lost, failed>>
    BY <1>12, Ticking DEF Tick, claims, TimingTypes
  <2>2. ASSUME NEW w \in Workers, loop[w] # "down"
        PROVE  loop[w] # "ended" /\ wait[w] > 0 /\ wait'[w] = wait[w] - 1
    BY <1>12, <2>2, Ticking DEF Tick, Prompt, TimingTypes
  <2>3. ASSUME NEW w \in Workers
        PROVE  Reference(w)' \in Nat /\ Reference(w)' <= Reference(w) + 1
    <3>1. sinceStart'[w] = Older(sinceStart[w], Horizon)
      BY <1>12 DEF Tick
    <3>2. sinceTick'[w] = IF sinceTick[w] = Never THEN Never ELSE Older(sinceTick[w], Horizon)
      BY <1>12 DEF Tick
    <3>3. CASE sinceTick[w] = Never
      <4>1. Reference(w)' = Older(Reference(w), Horizon) /\ Reference(w) \in Nat
        BY <3>1, <3>2, <3>3 DEF Reference, TimingTypes
      <4> QED
        BY <4>1, Ticking
    <3>4. CASE sinceTick[w] # Never
      <4>1. sinceTick[w] \in Nat /\ Older(sinceTick[w], Horizon) \in Nat
        BY <3>4, Ticking DEF TimingTypes
      <4>2. Reference(w)' = Older(Reference(w), Horizon) /\ Reference(w) \in Nat
        BY <3>2, <3>4, <4>1 DEF Reference
      <4> QED
        BY <4>2, Ticking
    <3> QED
      BY <3>3, <3>4
  <2>4. ASSUME NEW w \in Workers
        PROVE  sinceStart'[w] \in Nat /\ sinceStart'[w] <= sinceStart[w] + 1
    BY <1>12, Ticking DEF Tick, TimingTypes
  <2>5. ASSUME NEW w \in Workers PROVE Reference(w) \in Nat
    BY DEF Reference, TimingTypes
  <2>6. ClaimOutlives' /\ ClaimIsRecent'
    BY <2>1, <2>2 DEF Timing, ClaimOutlives, ClaimIsRecent, ClaimedPassesExclusive, TimingTypes
  <2>7. ASSUME NEW w \in Workers PROVE Closes(w)'
    BY <2>1, <2>2, <2>4 DEF Timing, GapCloses, Closes, TimingTypes
  <2>8. ASSUME NEW w \in Workers PROVE OnTime(w)'
    BY <2>1, <2>2, <2>3, <2>5 DEF Timing, TicksOnTime, OnTime, TimingTypes
  <2> QED
    BY <2>6, <2>7, <2>8 DEF Timing, GapCloses, TicksOnTime
<1> QED
  BY <1>1, <1>2, <1>3, <1>4, <1>5, <1>6, <1>7, <1>8, <1>9, <1>10, <1>11, <1>12 DEF PassNext

\* The inductive invariant.
THEOREM Timely == PassSpec => []Timing
<1>1. PassInit => Timing
  BY Times DEF PassInit, Timing, ClaimOutlives, ClaimedPassesExclusive, ClaimIsRecent,
               GapCloses, Closes, TicksOnTime, OnTime
<1> QED
  BY <1>1, TimingStep, PassTypeCorrect, PTL DEF PassSpec

\* "One worker per pass".
THEOREM Exclusive == PassSpec => []ClaimedPassesExclusive
<1>1. Timing => ClaimedPassesExclusive
  BY DEF Timing, ClaimOutlives
<1> QED
  BY <1>1, Timely, PTL

\* "A worker that dies holding a claim costs one skipped pass."
THEOREM GapBounded == PassSpec => []PassGapBounded
<1>1. PassTypeOK /\ Timing => PassGapBounded
  BY TypesOfTiming, Times DEF Timing, GapCloses, Closes, PassGapBounded, TimingTypes
<1> QED
  BY <1>1, Timely, PassTypeCorrect, PTL

\* A stall is reported of failing work only.
THEOREM AlarmIsTrue == PassSpec => []NoFalseAlarm
<1>1. PassTypeOK /\ Timing => NoFalseAlarm
  BY TypesOfTiming, Times
  DEF Timing, TicksOnTime, OnTime, Reference, NoFalseAlarm, Stalled, StallAfter, TimingTypes
<1> QED
  BY <1>1, Timely, PassTypeCorrect, PTL

-----------------------------------------------------------------------------
(***************************************************************************)
(* Admission.                                                              *)
(***************************************************************************)
\* The limits and the names, in the form the steps use.
LEMMA Limits ==
  /\ MaxInFlight \in Nat /\ MaxHops \in Nat /\ Pool \in Nat /\ Reserve \in Nat
  /\ Cardinality(Background) \in Nat /\ Cardinality(Background) >= 1
  /\ MaxInFlight + Cardinality(Background) + Reserve <= Pool
  /\ IsFiniteSet(Requests) /\ IsFiniteSet(Sockets) /\ IsFiniteSet(Background)
  /\ None \notin Requests /\ None \notin Sockets /\ Requests \cap Sockets = {}
  /\ \A b \in Background : b \notin Requests /\ b \notin Sockets
BY FS_CardinalityType, LimitsAssumption, NamesAssumption DEF ConnectionsFitThePool

-----------------------------------------------------------------------------
\* Every step keeps the types: connections belong to who may hold one, and each
\* detection to one request that waits for it.
LEMMA TypeStep == TypeOK /\ [Next]_vars => TypeOK'
<1> SUFFICES ASSUME TypeOK, [Next]_vars PROVE TypeOK'
  OBVIOUS
<1>1. ASSUME NEW r \in Requests, Arrive(r) PROVE TypeOK'
  BY <1>1, Limits DEF Arrive, TypeOK, Move, Clients, OnThread, Inside
<1>2. ASSUME NEW r \in Requests, Hand(r) PROVE TypeOK'
  BY <1>2, Limits DEF Hand, TypeOK, Move, Clients, OnThread, Inside
<1>3. ASSUME NEW r \in Requests, Refuse(r) PROVE TypeOK'
  BY <1>3, Limits DEF Refuse, TypeOK, Move, Clients, OnThread, Inside
<1>4. ASSUME NEW r \in Requests, GiveBack(r) PROVE TypeOK'
  BY <1>4, Limits DEF GiveBack, TypeOK, Move, Clients, OnThread, Inside
<1>5. ASSUME NEW r \in Requests, Enter(r) PROVE TypeOK'
  BY <1>5, Limits DEF Enter, TypeOK, Move, Clients, OnThread, Inside
<1>6. ASSUME NEW r \in Requests, EndHop(r) PROVE TypeOK'
  BY <1>6, Limits DEF EndHop, TypeOK, Move, Clients, OnThread, Inside
<1>7. ASSUME NEW r \in Requests, Leave(r) PROVE TypeOK'
  BY <1>7, Limits DEF Leave, TypeOK, Move, Clients, OnThread, Inside
<1>8. ASSUME NEW r \in Requests, TimeOut(r) PROVE TypeOK'
  BY <1>8, Limits DEF TimeOut, TypeOK, Move, Clients, OnThread, Inside
<1>9. ASSUME NEW x \in Clients, TakeThread(x) PROVE TypeOK'
  BY <1>9, Limits DEF TakeThread, TypeOK, Move, Clients, OnThread, Inside
<1>10. ASSUME NEW x \in Clients, AskConnection(x) PROVE TypeOK'
  BY <1>10, Limits DEF AskConnection, TypeOK, Move, Clients, OnThread, Inside
<1>11. ASSUME NEW x \in Clients, Checkout(x) PROVE TypeOK'
  BY <1>11, Limits DEF Checkout, TypeOK, Move, Clients, OnThread, Inside
<1>12. ASSUME NEW s \in Sockets, Connect(s) PROVE TypeOK'
  BY <1>12, Limits DEF Connect, TypeOK, Move, Clients, OnThread, Inside
<1>13. ASSUME NEW s \in Sockets, EndHandshake(s) PROVE TypeOK'
  BY <1>13, Limits DEF EndHandshake, TypeOK, Move, Clients, OnThread, Inside
<1>14. ASSUME NEW s \in Sockets, TimeOutHandshake(s) PROVE TypeOK'
  BY <1>14, Limits DEF TimeOutHandshake, TypeOK, Move, Clients, OnThread, Inside
<1>15. ASSUME NEW b \in Background, Job(b) PROVE TypeOK'
  BY <1>15, Limits DEF Job, Begin, TypeOK, Clients, OnThread, Inside
<1>16. ASSUME NEW b \in Background, CheckoutJob(b) PROVE TypeOK'
  BY <1>16, Limits DEF CheckoutJob, TypeOK, Clients, OnThread, Inside
<1>17. ASSUME NEW b \in Background, EndJob(b) PROVE TypeOK'
  BY <1>17, Limits DEF EndJob, Finish, TypeOK, Clients, OnThread, Inside
<1>18. ASSUME NEW b \in Background, TimeOutJob(b) PROVE TypeOK'
  BY <1>18, Limits DEF TimeOutJob, Finish, TypeOK, Clients, OnThread, Inside
<1>19. ASSUME NEW b \in Background, NEW r \in Requests, Detect(b, r) PROVE TypeOK'
  <2>1. /\ thread[b] = "idle" /\ thread' = [thread EXCEPT ![b] = "checkout"]
        /\ serves' = [serves EXCEPT ![b] = r] /\ at[r] = "detecting"
        /\ \A c \in Background : serves[c] # r
        /\ UNCHANGED <<slots, at, left, conn>>
    BY <1>19 DEF Detect, Begin
  <2>2. b \notin conn
    BY <2>1 DEF TypeOK
  <2>3. \A a \in Background : serves'[a] # None =>
          /\ thread'[a] # "idle"
          /\ at'[serves'[a]] = "detecting"
          /\ \A c \in Background : serves'[c] = serves'[a] => c = a
    BY <2>1 DEF TypeOK
  <2>4. thread' \in [Background -> {"idle", "checkout", "working"}]
        /\ serves' \in [Background -> Requests \cup {None}]
    BY <2>1 DEF TypeOK
  <2> QED
    BY <2>1, <2>2, <2>3, <2>4 DEF TypeOK
<1>20. CASE UNCHANGED vars
  BY <1>20 DEF TypeOK, vars
<1> QED
  BY <1>1, <1>2, <1>3, <1>4, <1>5, <1>6, <1>7, <1>8, <1>9, <1>10, <1>11, <1>12, <1>13, <1>14, <1>15, <1>16, <1>17, <1>18, <1>19, <1>20 DEF Next, RequestStep, SocketStep, JobStep, Clients

\* Type correctness: connections are held by those at a stage that may hold
\* one, and a background thread's request waits for it.
THEOREM TypeCorrect == Spec => []TypeOK
<1>1. Init => TypeOK
  BY Limits DEF Init, TypeOK, Clients, Inside, OnThread
<1> QED
  BY <1>1, TypeStep, PTL DEF Spec

-----------------------------------------------------------------------------
\* A request that moves within the limit, or outside it, moves no slot.
LEMMA SameAdmitted ==
  ASSUME Admitted' = Admitted, slots' = slots, NoSlotLost
  PROVE  NoSlotLost'
BY Limits DEF NoSlotLost

LEMMA AdmittedFinite == IsFiniteSet(Admitted) /\ Cardinality(Admitted) \in Nat
BY Limits, FS_Subset, FS_CardinalityType DEF Admitted

\* A request that is handed a slot is one more of those that hold one.
LEMMA OneMore ==
  ASSUME TypeOK, NoSlotLost, NEW r \in Requests, r \notin Admitted,
         Admitted' = Admitted \cup {r}, slots' = slots - 1
  PROVE  NoSlotLost'
<1>1. Cardinality(Admitted') = Cardinality(Admitted) + 1
  BY AdmittedFinite, FS_AddElement
<1> QED
  BY <1>1, AdmittedFinite, Limits DEF NoSlotLost, TypeOK

\* One that gives its slot back, or releases it, is one less.
LEMMA OneLess ==
  ASSUME TypeOK, NoSlotLost, NEW r \in Requests, r \in Admitted,
         Admitted' = Admitted \ {r}, slots' = slots + 1
  PROVE  NoSlotLost'
<1>1. Cardinality(Admitted') = Cardinality(Admitted) - 1
  BY AdmittedFinite, FS_RemoveElement
<1> QED
  BY <1>1, AdmittedFinite, Limits DEF NoSlotLost, TypeOK

\* Every step keeps the count.
LEMMA SlotStep == TypeOK /\ NoSlotLost /\ [Next]_vars => NoSlotLost'
<1> SUFFICES ASSUME TypeOK, NoSlotLost, [Next]_vars PROVE NoSlotLost'
  OBVIOUS
<1> USE DEF Move, Inside, OnThread
<1>1. ASSUME NEW r \in Requests,
             Arrive(r) \/ Refuse(r) \/ Enter(r) \/ EndHop(r)
      PROVE  NoSlotLost'
  <2>1. Admitted' = Admitted /\ slots' = slots
    BY <1>1 DEF Arrive, Refuse, Enter, EndHop, Admitted, TypeOK, Clients
  <2> QED
    BY <2>1, SameAdmitted
<1>2. ASSUME NEW x \in Clients, TakeThread(x) \/ AskConnection(x) \/ Checkout(x)
      PROVE  NoSlotLost'
  <2>1. Admitted' = Admitted /\ slots' = slots
    BY <1>2 DEF TakeThread, AskConnection, Checkout, Admitted, TypeOK, Clients
  <2> QED
    BY <2>1, SameAdmitted
<1>3. ASSUME NEW s \in Sockets, Connect(s) \/ EndHandshake(s) \/ TimeOutHandshake(s)
      PROVE  NoSlotLost'
  <2>1. Admitted' = Admitted /\ slots' = slots
    BY <1>3, Limits DEF Connect, EndHandshake, TimeOutHandshake, Admitted, TypeOK, Clients
  <2> QED
    BY <2>1, SameAdmitted
<1>4. ASSUME NEW b \in Background,
             Job(b) \/ CheckoutJob(b) \/ \E r \in Requests : Detect(b, r)
      PROVE  NoSlotLost'
  <2>1. Admitted' = Admitted /\ slots' = slots
    BY <1>4 DEF Job, Detect, Begin, CheckoutJob, Admitted
  <2> QED
    BY <2>1, SameAdmitted
<1>5. ASSUME NEW b \in Background, EndJob(b) \/ TimeOutJob(b)
      PROVE  NoSlotLost'
  <2>1. Admitted' = Admitted /\ slots' = slots
    BY <1>5, Limits DEF EndJob, TimeOutJob, Finish, Admitted, TypeOK, Clients
  <2> QED
    BY <2>1, SameAdmitted
<1>6. ASSUME NEW r \in Requests, Hand(r) PROVE NoSlotLost'
  <2>1. r \notin Admitted /\ Admitted' = Admitted \cup {r} /\ slots' = slots - 1
    BY <1>6 DEF Hand, Admitted, TypeOK, Clients
  <2> QED
    BY <2>1, OneMore
<1>7. ASSUME NEW r \in Requests, GiveBack(r) \/ Leave(r) \/ TimeOut(r)
      PROVE  NoSlotLost'
  <2>1. r \in Admitted /\ Admitted' = Admitted \ {r} /\ slots' = slots + 1
    BY <1>7 DEF GiveBack, Leave, TimeOut, Admitted, TypeOK, Clients
  <2> QED
    BY <2>1, OneLess
<1>8. CASE UNCHANGED vars
  <2>1. Admitted' = Admitted /\ slots' = slots
    BY <1>8 DEF vars, Admitted
  <2> QED
    BY <2>1, SameAdmitted
<1> QED
  BY <1>1, <1>2, <1>3, <1>4, <1>5, <1>6, <1>7, <1>8
  DEF Next, RequestStep, SocketStep, JobStep, Clients

\* No slot is lost or made, whatever times out, raises or races: what the
\* semaphore has left and the requests that hold a slot always make the limit.
THEOREM SlotsKept == Spec => []NoSlotLost
<1>1. Init => NoSlotLost
  <2>1. Init => Admitted = {}
    BY DEF Init, Admitted, Clients, Inside, OnThread
  <2> QED
    BY <2>1, FS_EmptySet, Limits DEF Init, NoSlotLost
<1> QED
  BY <1>1, SlotStep, TypeCorrect, PTL DEF Spec

-----------------------------------------------------------------------------
\* The limit in the form the pool's arithmetic uses.
LEMMA AdmittedBounded ==
  ASSUME TypeOK, NoSlotLost
  PROVE  Cardinality(Admitted) <= MaxInFlight
BY AdmittedFinite, Limits DEF TypeOK, NoSlotLost

\* Only who is admitted, runs in the background or shakes hands uses a
\* connection, or is about to.
LEMMA Users ==
  ASSUME TypeOK
  PROVE  conn \cup CheckingOut \subseteq (Admitted \cup Background) \cup Handshakes
BY DEF TypeOK, CheckingOut, Admitted, Handshakes, Inside, OnThread, Clients

LEMMA UsersFinite ==
  ASSUME NEW A, NEW B, NEW C, IsFiniteSet(A), IsFiniteSet(B), IsFiniteSet(C),
         NEW S \in SUBSET ((A \cup B) \cup C)
  PROVE  /\ IsFiniteSet(S)
         /\ Cardinality(S) <= Cardinality(A) + Cardinality(B) + Cardinality(C)
<1>1. /\ IsFiniteSet(A \cup B)
      /\ Cardinality(A \cup B) = Cardinality(A) + Cardinality(B) - Cardinality(A \cap B)
  BY FS_Union
<1>2. /\ IsFiniteSet((A \cup B) \cup C)
      /\ Cardinality((A \cup B) \cup C)
           = Cardinality(A \cup B) + Cardinality(C) - Cardinality((A \cup B) \cap C)
  BY <1>1, FS_Union
<1>3. IsFiniteSet(A \cap B) /\ IsFiniteSet((A \cup B) \cap C)
  BY FS_Intersection, <1>1
<1>4. IsFiniteSet(S) /\ Cardinality(S) <= Cardinality((A \cup B) \cup C)
  BY <1>2, FS_Subset
<1>5. /\ Cardinality(A) \in Nat /\ Cardinality(B) \in Nat /\ Cardinality(C) \in Nat
      /\ Cardinality(A \cup B) \in Nat /\ Cardinality(S) \in Nat
      /\ Cardinality(A \cap B) \in Nat /\ Cardinality((A \cup B) \cap C) \in Nat
      /\ Cardinality((A \cup B) \cup C) \in Nat
  BY <1>1, <1>2, <1>3, <1>4, FS_CardinalityType
<1> QED
  BY <1>1, <1>2, <1>4, <1>5

\* The arithmetic of _connections_fit_the_pool.
LEMMA PoolFits ==
  ASSUME TypeOK, NoSlotLost PROVE CheckoutNeverWaits
<1> SUFFICES ASSUME Cardinality(Handshakes) <= Reserve, CheckingOut # {}
             PROVE  FreeConnection
  BY DEF CheckoutNeverWaits
<1>1. PICK x \in CheckingOut : TRUE
  OBVIOUS
<1>2. x \notin conn
  BY <1>1, Limits DEF CheckingOut, TypeOK, Clients, Inside, OnThread
<1>3. IsFiniteSet(Handshakes)
  BY Limits, FS_Subset DEF Handshakes
<1>4. conn \cup {x} \in SUBSET ((Admitted \cup Background) \cup Handshakes)
  BY <1>1, Users
<1>5. Cardinality(conn \cup {x})
        <= Cardinality(Admitted) + Cardinality(Background) + Cardinality(Handshakes)
  BY <1>3, <1>4, AdmittedFinite, Limits, UsersFinite
<1>6. IsFiniteSet(conn)
  <2>1. conn \in SUBSET ((Admitted \cup Background) \cup Handshakes)
    BY <1>4
  <2> QED
    BY <2>1, <1>3, AdmittedFinite, Limits, UsersFinite
<1>7. Cardinality(conn \cup {x}) = Cardinality(conn) + 1
  BY <1>2, <1>6, FS_AddElement
<1>8. Cardinality(conn) \in Nat /\ Cardinality(Handshakes) \in Nat
  BY <1>3, <1>6, FS_CardinalityType
<1> QED
  BY <1>5, <1>7, <1>8, AdmittedFinite, AdmittedBounded, Limits DEF FreeConnection

\* With limits that startup accepts, and no more handshakes at a time than the
\* reserve, a checkout never waits.
THEOREM NeverWaits == Spec => []CheckoutNeverWaits
BY TypeCorrect, SlotsKept, PoolFits, PTL

\* More connections are out than requests can hold: a handshake or a background
\* thread holds one, and neither waits for anything while it does.
LEMMA SomeoneWorks ==
  ASSUME TypeOK, NoSlotLost PROVE NoStandoff
<1> SUFFICES ASSUME ~FreeConnection, \A x \in conn : ~AtWork(x)
             PROVE  FALSE
  BY DEF NoStandoff
<1>1. conn \subseteq Admitted
  <2>1. ASSUME NEW x \in conn PROVE x \in Admitted
    <3>1. x \notin Background
      BY <2>1, Limits DEF TypeOK, AtWork
    <3>2. x \notin Sockets
      BY <2>1, <3>1 DEF TypeOK, AtWork
    <3> QED
      BY <2>1, <3>1, <3>2 DEF TypeOK, Clients, Admitted
  <2> QED
    BY <2>1
<1>2. IsFiniteSet(conn) /\ Cardinality(conn) <= Cardinality(Admitted)
  BY <1>1, AdmittedFinite, FS_Subset
<1>3. Cardinality(conn) \in Nat
  BY <1>2, FS_CardinalityType
<1> QED
  BY <1>2, <1>3, AdmittedFinite, AdmittedBounded, Limits DEF FreeConnection

\* Whatever the number of handshakes, connections are never all held by those
\* who wait for something else.
THEOREM NoDeadlock == Spec => []NoStandoff
BY TypeCorrect, SlotsKept, SomeoneWorks, PTL
=============================================================================
