--------------------------- MODULE KinematicGuard ---------------------------
(***************************************************************************)
(* services/kinematic_guard.py and services/ingest_staleness.py for one     *)
(* drone: which packets ingest refuses as stale, which two stored samples   *)
(* the guard rates, over which interval, and its verdict.                   *)
(*                                                                         *)
(* The drone flies straight at a constant speed and climb within its        *)
(* envelope, samples its state on a clock that restarts when it reboots,    *)
(* and the packets arrive late and out of order.  A rate is wrong only if    *)
(* its interval is, so a verdict on an honest flight is a false alarm.       *)
(* Positions lie in a plane, x along the flight.  Times are in ticks; rates  *)
(* are compared without dividing, and distances by their squares.           *)
(***************************************************************************)
EXTENDS Integers, Sequences, FiniteSets, SequencesExt

CONSTANTS
  End,        \* bound: the flight ends
  Samples,    \* bound: packets sampled
  Boots,      \* bound: reboots
  Uptime,     \* how long the drone has been up
  Threads,    \* bound: packets in ingest at once
  Window,     \* MAX_HISTORY_PACKETS
  MaxSpeed, MaxClimb, SpeedError,  \* GUARD_MAX_SPEED_MPS, _MAX_CLIMB_MPS, _GPS_SPEED_ERROR_MPS
  MaxLead, MaxReorder, MinGap,     \* GUARD_DEVICE_CLOCK_MAX_LEAD_S, _MAX_REORDER_S, _MIN_RESET_GAP_S
  Speed, Climb,                    \* of the flight
  Displacements,                   \* how far off a forged position can be
  Kinds       \* "true", "forged" position, "jammed" receiver, "undated" by the device

ASSUME GuardAssumption ==
  /\ {End, Samples, Boots, Uptime, Threads, Window, MaxSpeed, MaxClimb, SpeedError, MaxLead, MaxReorder, MinGap,
      Speed, Climb} \subseteq Nat
  /\ Displacements \subseteq [x : Int, y : Int]
  /\ Speed <= MaxSpeed /\ Speed <= SpeedError /\ Climb <= MaxClimb /\ Window > 1
  /\ Kinds \subseteq {"true", "forged", "jammed", "undated"}

\* The defaults are 10, 10 and 1 seconds.
ASSUME LeadAssumption == MaxLead <= MaxReorder + MinGap

VARIABLES
  now,      \* true time
  boot,     \* when the device clock last started
  boots,    \* reboots so far
  sampled,  \* packets sampled so far
  air,      \* packets on their way
  begun,    \* packets whose transaction has begun and that are not checked yet
  passed,   \* packets that passed the staleness check and are not stored yet
  history   \* the stored packets, by (created_at, id)

flightVars == <<now, boot, boots, sampled, air, begun, passed, history>>

Ticks == 0 .. End
Nowhere == [x |-> 0, y |-> 0]
Packet == [at : Ticks, boot : -Uptime .. End, kind : Kinds, off : Displacements \cup {Nowhere}]
\* created is now() of the request's transaction, which begins with the read that
\* authenticates the device, before the check; overtaken, how far the packet had
\* come when another was stored ahead of it.
Row == [packet : Packet, created : Ticks, overtaken : {"never", "begun", "passed"}]

\* Rows are stamped after they were sampled, and kept in the order they are read.
FlightTypeOK ==
  /\ now \in Ticks /\ boot \in -Uptime .. now /\ boots \in 0 .. Boots /\ sampled \in 0 .. Samples
  /\ air \subseteq Packet
  /\ begun \subseteq Row /\ passed \subseteq Row
  /\ history \in Seq(Row) /\ Len(history) <= Samples
  /\ \A i \in DOMAIN history : history[i].packet.at <= history[i].created
  /\ \A i, j \in DOMAIN history : i < j => history[i].created <= history[j].created

FlightInit ==
  /\ now = 0 /\ boot = -Uptime /\ boots = 0 /\ sampled = 0
  /\ air = {} /\ begun = {} /\ passed = {} /\ history = <<>>

-----------------------------------------------------------------------------
(***************************************************************************)
(* What a packet says.                                                     *)
(***************************************************************************)

Timed(row) == row.packet.kind # "undated"
\* sample_time_ms
Clock(row) == row.packet.at - row.packet.boot
Position(row) == [x |-> Speed * row.packet.at + row.packet.off.x, y |-> row.packet.off.y]
Altitude(row) == Climb * row.packet.at
Jammed(row) == row.packet.kind = "jammed"

Gap(n) == IF n < 0 THEN -n ELSE n
Square(n) == n * n

\* _load_history: the newest rows, oldest first.
Recent(rows) == SubSeq(rows, IF Len(rows) > Window THEN Len(rows) - Window + 1 ELSE 1, Len(rows))

-----------------------------------------------------------------------------
(***************************************************************************)
(* The interval between two samples.                                       *)
(***************************************************************************)

Arrival(prev, curr) == curr.created - prev.created
Device(prev, curr) == Clock(curr) - Clock(prev)

Interval(dt, base, note) == [dt |-> dt, base |-> base, note |-> note]

\* _interval_seconds.  Rows always have created_at.
IntervalSeconds(prev, curr) ==
  IF ~Timed(prev) \/ ~Timed(curr)
  THEN Interval(Arrival(prev, curr), "arrival", "device_time_absent")
  ELSE IF Device(prev, curr) <= 0
  THEN Interval(Arrival(prev, curr), "arrival", "device_clock_not_monotonic")
  ELSE IF Device(prev, curr) > Arrival(prev, curr) + MaxLead
  THEN Interval(Arrival(prev, curr), "arrival", "device_interval_exceeds_arrival")
  ELSE Interval(Device(prev, curr), "device", "none")

ClocksDisagree == {"device_clock_not_monotonic", "device_interval_exceeds_arrival"}

\* could_have_reset.
CouldHaveReset(clock, since) == clock <= since + MaxLead

Paired(prev, curr, interval) == [prev |-> prev, curr |-> curr, interval |-> interval]
Declined == Interval(0, "none", "arrival_gap_too_small_to_rate")

\* The arrival time that stands in for a device clock that cannot be used.
FallBack(partner, curr) ==
  LET i == IntervalSeconds(partner, curr)
  IN IF \/ i.note \in ClocksDisagree /\ i.dt < MinGap
        \/ /\ i.note = "device_clock_not_monotonic"
           /\ Timed(partner) /\ Clock(curr) < Clock(partner)
           /\ ~CouldHaveReset(Clock(curr), i.dt)
     THEN Paired(partner, curr, Declined)
     ELSE Paired(partner, curr, i)

\* The latest clock among equals is the one stored last; the earliest, first.
Latest(rows, S) == rows[CHOOSE i \in S : \A j \in S : \/ Clock(rows[j]) < Clock(rows[i])
                                                      \/ Clock(rows[j]) = Clock(rows[i]) /\ j <= i]
Earliest(rows, S) == rows[CHOOSE i \in S : \A j \in S : \/ Clock(rows[j]) > Clock(rows[i])
                                                        \/ Clock(rows[j]) = Clock(rows[i]) /\ j >= i]

\* Mutant: the packet stored just before, whatever its sample time.
PairStored(rows) ==
  LET curr == Last(rows)
      prev == rows[Len(rows) - 1]
  IN Paired(prev, curr, IntervalSeconds(prev, curr))

\* _pair: the newest row and its nearest neighbour on the device clock.
Pair(rows) ==
  LET curr == Last(rows)
      stored == rows[Len(rows) - 1]
      timed == {i \in 1 .. Len(rows) - 1 : Timed(rows[i])}
      before == {i \in timed : Clock(rows[i]) < Clock(curr)}
      after == {i \in timed : Clock(rows[i]) > Clock(curr)}
      step == Clock(Earliest(rows, after)) - Clock(curr)
  IN CASE ~Timed(curr) -> Paired(stored, curr, IntervalSeconds(stored, curr))
       [] Timed(curr) /\ before # {}
            /\ IntervalSeconds(Latest(rows, before), curr).base = "device" ->
            Paired(Latest(rows, before), curr, IntervalSeconds(Latest(rows, before), curr))
       [] OTHER ->
            IF after # {} /\ step <= MaxReorder
            THEN Paired(curr, Earliest(rows, after), Interval(step, "device", "reordered"))
            ELSE FallBack(IF before # {} THEN Latest(rows, before) ELSE stored, curr)

-----------------------------------------------------------------------------
(***************************************************************************)
(* The checks.                                                             *)
(***************************************************************************)

\* The square of the distance.
Moved(p) ==
  LET a == Position(p.prev)  b == Position(p.curr)
  IN Square(b.x - a.x) + Square(b.y - a.y)

Checks(p) ==
  LET dt == p.interval.dt IN
  {c \in {"gps_implied_speed", "gps_airframe_speed_mismatch", "vertical_speed", "satellite_loss"} :
     CASE c = "gps_implied_speed" -> Moved(p) > Square(MaxSpeed * dt)
       [] c = "gps_airframe_speed_mismatch" ->
            \/ Moved(p) > Square((Speed + SpeedError) * dt)
            \/ Speed > SpeedError /\ Moved(p) < Square((Speed - SpeedError) * dt)
       [] c = "vertical_speed" -> Gap(Altitude(p.curr) - Altitude(p.prev)) > MaxClimb * dt
       [] c = "satellite_loss" -> ~Jammed(p.prev) /\ Jammed(p.curr)}

\* _classify, and "none" when nothing failed.
Classify(checks) ==
  IF checks \cap {"gps_implied_speed", "gps_airframe_speed_mismatch"} # {} THEN "GPS_SPOOFING"
  ELSE IF "satellite_loss" \in checks THEN "SIGNAL_JAMMING"
  ELSE IF checks # {} THEN "FLIGHT_INSTABILITY" ELSE "none"

\* evaluate: what a detection cycle concludes from the stored rows.
Evaluate(rows) ==
  IF Len(rows) < 2 \/ Pair(rows).interval.dt <= 0 THEN "none"
  ELSE Classify(Checks(Pair(rows)))

-----------------------------------------------------------------------------
(***************************************************************************)
(* Ingest.                                                                 *)
(***************************************************************************)

\* Mutant: only a delivery of the same instant rules a reset out.
StaleByGap(row) ==
  /\ Timed(row)
  /\ \E r \in Range(Recent(history)) :
       Timed(r) /\ Clock(r) - Clock(row) > MaxReorder /\ row.created - r.created < MinGap

\* Mutant: a clock that stepped back is never a reset.
StaleByClock(row) ==
  /\ Timed(row)
  /\ \E r \in Range(Recent(history)) : Timed(r) /\ Clock(r) - Clock(row) > MaxReorder

\* ingest_staleness.check.  since is measured to now(), the time the row will be
\* stamped with: it is negative beside a row whose transaction began later.
Stale(row) ==
  /\ Timed(row)
  /\ \E i \in DOMAIN Recent(history) :
       LET newer == Recent(history)[i]
           since == row.created - newer.created
       IN /\ Timed(newer)
          /\ Clock(newer) - Clock(row) > MaxReorder
          /\ since < MinGap \/ ~CouldHaveReset(Clock(row), since)

\* bound: at most one packet of a flight is not an honest, dated sample.
Known == air \cup {r.packet : r \in begun \cup passed \cup Range(history)}
Sampled(kind, off) ==
  /\ sampled < Samples
  /\ kind = "true" \/ \A p \in Known : p.kind = "true"
  /\ sampled' = sampled + 1
  /\ air' = air \cup {[at |-> now', boot |-> boot', kind |-> kind, off |-> off]}

\* A tick of flight: the drone may reboot, and may send a sample.
Fly ==
  /\ now < End
  /\ now' = now + 1
  /\ \/ UNCHANGED <<boot, boots>>
     \/ boots < Boots /\ boot' = now' /\ boots' = boots + 1
  /\ \/ \E kind \in Kinds : \E off \in IF kind = "forged" THEN Displacements ELSE {Nowhere} : Sampled(kind, off)
     \/ UNCHANGED <<air, sampled>>
  /\ UNCHANGED <<begun, passed, history>>

\* A packet reaches ingest: authentication reads the device's credentials, and
\* with that the transaction begins.
Receive(p) ==
  /\ Cardinality(begun \cup passed) < Threads
  /\ air' = air \ {p}
  /\ begun' = begun \cup {[packet |-> p, created |-> now, overtaken |-> "never"]}
  /\ UNCHANGED <<now, boot, boots, sampled, passed, history>>

\* The check reads what is stored by now; a stale packet is refused.
Check(row) ==
  /\ begun' = begun \ {row}
  /\ passed' = IF Stale(row) THEN passed ELSE passed \cup {row}
  /\ UNCHANGED <<now, boot, boots, sampled, air, history>>

\* The insert of a packet that passed: read among the rows by its created_at,
\* and after those of the same instant.
Insert(row, rows) ==
  LET older == {i \in DOMAIN rows : rows[i].created <= row.created}
      n == IF older = {} THEN 0 ELSE CHOOSE i \in older : \A j \in older : j <= i
  IN SubSeq(rows, 1, n) \o <<row>> \o SubSeq(rows, n + 1, Len(rows))

Store(row) ==
  /\ history' = Insert(row, history)
  /\ begun' = {[r EXCEPT !.overtaken = "begun"] : r \in begun}
  /\ passed' = {[r EXCEPT !.overtaken = "passed"] : r \in passed \ {row}}
  /\ UNCHANGED <<now, boot, boots, sampled, air>>

\* A packet that is lost stays in the air.
FlightNext ==
  \/ Fly
  \/ \E p \in air : Receive(p)
  \/ \E r \in begun : Check(r)
  \/ \E r \in passed : Store(r)

FlightSpec == FlightInit /\ [][FlightNext]_flightVars

-----------------------------------------------------------------------------
(***************************************************************************)
(* Properties.                                                             *)
(***************************************************************************)

Rows == Range(Recent(history))
OneBoot == \A r, s \in Rows : r.packet.boot = s.packet.boot
\* Delivered within the slack the guard grants the device clock.
Prompt == \A r \in Rows : r.created - r.packet.at <= MaxLead
Dated == \A r \in Rows : Timed(r)

\* Whatever the order the packets of one boot arrive in, an honest flight is
\* never called spoofing or unstable, as long as no packet was delayed by more
\* than the slack the guard grants the clock; satellite loss is only ever seen
\* where the receiver was jammed.
HonestFlightIsQuiet ==
  OneBoot /\ Prompt /\ Dated /\ (\A r \in Rows : r.packet.kind # "forged") =>
    Evaluate(Recent(history)) \in
      {"none"} \cup (IF \E r \in Rows : Jammed(r) THEN {"SIGNAL_JAMMING"} ELSE {})

\* A forged position stored last is called spoofing, in whatever direction it is
\* off, whenever an honest sample is in the window that was taken so shortly before
\* it that the drone could not have come there and back; wherever in the order that
\* sample was stored.  A lesser displacement can leave the implied speed as it was.
ForgeryIsFlagged ==
  LET last == Last(history)
      off == last.packet.off
  IN /\ Len(history) > 1 /\ last.packet.kind = "forged"
     /\ OneBoot /\ Prompt
     /\ \E r \in Rows : LET d == last.packet.at - r.packet.at
                        IN d > 0 /\ Square((2 * Speed + SpeedError) * d) < Square(off.x) + Square(off.y)
     => Evaluate(Recent(history)) = "GPS_SPOOFING"

\* The packet the guard will not rate because its clock stepped back without a
\* reset is one ingest refuses, if its check sees the neighbour.  It is stored only
\* if the neighbour was stored between its check and its insert, or was itself in
\* ingest when this or another packet was stored.
DeclinedWasRefused ==
  Len(history) > 1 =>
    LET p == Pair(Recent(history))
    IN /\ p.interval.note = "arrival_gap_too_small_to_rate"
       /\ Clock(p.curr) < Clock(p.prev)
       => p.curr.overtaken = "passed" \/ p.prev.overtaken # "never"

\* A drone that reboots is not locked out, nor is a reordered packet refused:
\* ingest refuses a packet only if it really is late, or if a packet of the
\* drone's previous boot was itself delivered late, in the same instant or in a
\* transaction that began later.
RefusedIsLate ==
  \A row \in begun :
    LET p == row.packet IN
    Stale(row) =>
      \E r \in Rows :
        \/ r.packet.boot = p.boot /\ r.packet.at - p.at > MaxReorder
        \/ r.packet.boot > p.boot
        \/ r.packet.boot < p.boot /\ (r.created > p.boot + MaxLead \/ row.created - r.created < MinGap)

\* Documented: a threshold beyond the airframe's envelope cannot fire on a real
\* manoeuvre.  No window without a forged or jammed packet has a verdict.
ValidFlightIsQuiet ==
  (\A r \in Rows : r.packet.kind = "true") => Evaluate(Recent(history)) = "none"
=============================================================================
