----------------------------- MODULE FanControl -----------------------------
(***************************************************************************)
(* One pass of the fan control loop: the guards that outrank the setting    *)
(* (critical heat, a lost sensor, the checker that watches whether the fans *)
(* answer, a stall), the hold they keep on the hardware, the mode request    *)
(* that is tried and rolled back, and the writes, each of which may fail.   *)
(*                                                                         *)
(* A pass runs under the state lock, its writes included, so it is one step.*)
(* What it reads is any reading; how long ago anything happened is any      *)
(* answer to "has it been that long".  A speed is a member of Speeds and    *)
(* the two fans have one order.  FanOwnership says who else has the fans    *)
(* and when; here they are simply taken, moved and given back.              *)
(***************************************************************************)
EXTENDS Naturals

CONSTANTS
  Speeds,      \* the speeds a curve or a manual setting can ask for
  DefaultPwm,  \* the manual speed of a configuration that has none yet
  BelowFloor,  \* those the fans cannot hold, so the firmware gets the fans
  Slow,        \* those under STALL_MIN_PWM and MANUAL_BLIND_BELOW_PWM
  Temps,       \* the temperatures that are read, in degrees; 0 is no reading
  SensorTicks, \* SENSOR_FAILURE_TICKS
  Requests,    \* the mode requests clients make: records [mode, pwm]
  LossActions, \* the sensor failure actions a user chooses between
  MaxEvents    \* bound: how many requests and disturbances there are

Orders == {"auto", "max"} \cup Speeds
Elsewhere == "elsewhere"   \* where somebody else, or a write that failed, left the fans
None == "none"
NoRequest == [mode |-> None, pwm |-> None]
Modes == {"auto", "max", "manual", "curve"}
NeedsPwm(m) == m \in {"manual", "curve"}

CriticalC == 90
CriticalClearC == 80
HotC == 85
CoolC == 75
TrippedCoolC == 55

ASSUME FanAssumption ==
  /\ Speeds # {} /\ {"auto", "max", Elsewhere, None} \cap Speeds = {}
  /\ DefaultPwm \in Speeds
  /\ BelowFloor \subseteq Slow /\ Slow \subseteq Speeds
  /\ Temps \subseteq Nat \ {0}
  /\ SensorTicks \in Nat \ {0}
  /\ Requests \subseteq [mode : Modes, pwm : Speeds \cup {None}]
  /\ \A req \in Requests : req.mode = "manual" => req.pwm # None
  /\ LossActions \subseteq {"auto", "max"} /\ LossActions # {}
  /\ MaxEvents \in Nat

VARIABLES
  setting,   \* what a request may change and a rollback restores (ModeSnapshot),
             \* and the two settings of the guards, which no pass changes
  pending,   \* State::pending_mode, a request or NoRequest
  hold,      \* State::safety_hold, the order a guard keeps, or None
  critical,  \* State::critical, the latch
  blind,     \* State::sensor_watch, bad readings in a row
  checker,   \* State::checker, the phase of the episode and what began it
  still,     \* State::zero_rpm, the fans were seen standing
  known,     \* State::hardware_state is Known
  order,     \* the hardware: what the fans were last told
  taken,     \* State::calibrating or State::cleaning, and what follows
  slept,     \* the loop has not run since the machine woke up
  moved,     \* history: the fans were moved since the last pass that wrote
  events     \* how many requests and disturbances there were, for MaxEvents

vars == <<setting, pending, hold, critical, blind, checker, still, known,
          order, taken, slept, moved, events>>

Phases == {"idle", "watching", "answered", "firmware", "heard", "max"}
Idle == [phase |-> "idle", tripped |-> FALSE]

\* The types of the variables.
TypeOK ==
  /\ setting \in [mode : Modes, pwm : Speeds, owned : BOOLEAN,
                  stalled : BOOLEAN, released : BOOLEAN,
                  last : Orders \cup {None},
                  checks : BOOLEAN, lostTo : LossActions]
  /\ pending \in Requests \cup {NoRequest}
  /\ hold \in {"auto", "max", None}
  /\ critical \in BOOLEAN
  /\ blind \in 0..SensorTicks
  /\ checker \in [phase : Phases, tripped : BOOLEAN]
  /\ still \in BOOLEAN
  /\ known \in BOOLEAN
  /\ order \in Orders \cup {Elsewhere}
  /\ taken \in {"no", "taken", "tripping"}
  /\ slept \in BOOLEAN
  /\ moved \in BOOLEAN
  /\ events \in 0..MaxEvents

\* A daemon that restores its mode owns it; one that adopts what it finds does not.
Init ==
  /\ setting \in [mode : Modes, pwm : Speeds, owned : BOOLEAN,
                  stalled : {FALSE}, released : {FALSE}, last : {None},
                  checks : {TRUE}, lostTo : LossActions]
  /\ setting.mode # "manual" => setting.pwm = DefaultPwm
  /\ setting.mode = "curve" => setting.owned
  /\ order = CASE setting.owned -> Elsewhere
               [] ~setting.owned /\ setting.mode = "manual" -> setting.pwm
               [] OTHER -> setting.mode
  /\ pending = NoRequest
  /\ hold = None
  /\ critical = FALSE
  /\ blind = 0
  /\ checker = Idle
  /\ still = FALSE
  /\ known = FALSE
  /\ taken = "no"
  /\ slept = FALSE
  /\ moved = FALSE
  /\ events = 0

\* State::forget_writes.
Forget(s) == [s EXCEPT !.last = None, !.released = FALSE]

\* Mutant: a new mode does not end a stall.
TentativeStalled(s, req) ==
  [Forget(s) EXCEPT !.mode = req.mode,
                    !.pwm = IF req.pwm = None THEN @ ELSE req.pwm,
                    !.owned = TRUE]

\* What a request changes before it is known whether it can be applied.
Tentative(s, req) ==
  [Forget(s) EXCEPT !.mode = req.mode,
                    !.pwm = IF req.pwm = None THEN @ ELSE req.pwm,
                    !.owned = TRUE,
                    !.stalled = FALSE]

\* The modes that are blind without a sensor.
Watched(s) == s.mode = "curve" \/ (s.mode = "manual" /\ s.pwm \in Slow)

(***************************************************************************)
(* What a pass reads.  `seen` is the curve's own sensor: a reading, the     *)
(* same reading for STALE_SENSOR_SECS, or none.  `fans` is what the         *)
(* tachometers say next to the clock: they rose, they turn, they have not   *)
(* risen for ANSWER_SECS, they stand, they have stood for STALL_SECS.       *)
(* Values nothing would look at are left out.                               *)
(***************************************************************************)
Readings(s, idle) ==
  [hottest : Temps \cup {0},
   seen : CASE s.mode = "curve" -> {"fresh", "stale", "lost"}
            [] s.mode # "curve" /\ Watched(s) -> {"fresh", "stale"}
            [] OTHER -> {"fresh"},
   fans : {"turning"}
          \cup (IF checker.phase \in {"watching", "firmware"} THEN {"rose", "unmoved"} ELSE {})
          \cup (IF NeedsPwm(s.mode) /\ s.owned THEN {"stand"} ELSE {})
          \cup (IF idle THEN {"stood"} ELSE {})]

\* The curve's own sensor is one of the two the hottest reading is taken from.
Sound(s, r) == s.mode = "curve" /\ r.hottest = 0 => r.seen = "lost"

\* Mutant: the critical latch never lets go.
LatchForGood(t) == t >= CriticalC \/ critical

\* CriticalLatch::observe.
Latch(t) == IF t >= CriticalC THEN TRUE
            ELSE IF t # 0 /\ t < CriticalClearC THEN FALSE ELSE critical

\* SensorWatch::observe; a mode it does not watch resets it.
BadReading(s, r) ==
  IF s.mode = "curve" THEN r.seen # "fresh" ELSE r.hottest = 0 \/ r.seen = "stale"

Blindness(s, r) ==
  IF ~Watched(s) \/ ~BadReading(s, r) THEN 0
  ELSE IF blind < SensorTicks THEN blind + 1 ELSE blind

\* ThermalChecker::observe.
Cooled(r) ==
  r.hottest # 0 /\ r.hottest <= IF checker.tripped THEN TrippedCoolC ELSE CoolC

Observe(s, r) ==
  LET to(phase) == [checker EXCEPT !.phase = phase]
      unmoved == r.fans \in {"unmoved", "stood"}
  IN CASE checker.phase = "idle" ->
            IF s.checks /\ r.hottest >= HotC THEN to("watching") ELSE Idle
       [] checker.phase # "idle" /\ (Cooled(r) \/ (~s.checks /\ ~checker.tripped)) -> Idle
       [] OTHER ->
            CASE checker.phase = "watching" /\ r.fans = "rose" -> to("answered")
              [] checker.phase = "watching" /\ unmoved -> to("firmware")
              [] checker.phase = "firmware" /\ r.fans = "rose" -> to("heard")
              [] checker.phase = "firmware" /\ unmoved -> to("max")
              [] OTHER -> checker

\* ThermalChecker::command.
Commanded(ck) ==
  CASE ck.phase \in {"firmware", "heard"} -> "auto"
    [] ck.phase = "max" -> "max"
    [] OTHER -> None

\* Mutant: the checker is asked before the critical latch.
ForcedCheckerFirst(s, hot, bad, ck) ==
  IF Commanded(ck) # None THEN Commanded(ck)
  ELSE IF hot /\ NeedsPwm(s.mode) THEN "max"
  ELSE IF bad = SensorTicks THEN s.lostTo
  ELSE None

\* The order a guard wants, most urgent first.
Forced(s, hot, bad, ck) ==
  IF hot /\ NeedsPwm(s.mode) THEN "max"
  ELSE IF bad = SensorTicks THEN s.lostTo
  ELSE IF Commanded(ck) # None THEN Commanded(ck)
  ELSE IF s.stalled /\ NeedsPwm(s.mode) THEN "auto"
  ELSE None

(***************************************************************************)
(* The branches of a pass.  A pass p has the request it tries (req), the    *)
(* setting before it (base) and in it (s), whether the fans were standing   *)
(* (idle), what it made of its readings (v), and how a write may end.        *)
(* Whether REASSERT_SECS have gone by since a write is any answer.          *)
(***************************************************************************)

\* control::apply and record_write.  A sequence that fails may have stopped
\* after its first write.
Send(goal, lands) ==
  /\ order' = IF lands THEN goal ELSE Elsewhere
  /\ known' = lands
  /\ moved' = (moved /\ ~lands)

SendNothing == UNCHANGED <<order, known, moved>>

\* Mutant: a mode that could not be applied stays in force.
ConcludeNoRollback(p, s, applied) ==
  /\ setting' = s
  /\ pending' = IF applied THEN NoRequest ELSE p.req

\* A request that was not applied leaves the setting as it was and stays
\* pending; a pass that tried none keeps what it learnt.
Conclude(p, s, applied) ==
  /\ setting' = IF p.req = NoRequest \/ applied THEN s ELSE p.base
  /\ pending' = IF applied THEN NoRequest ELSE p.req

\* A guard has the fans.
HoldFans(p) ==
  /\ p.v.forced # None
  /\ still' = p.idle
  /\ \/ /\ hold = p.v.forced
        /\ SendNothing
        /\ Conclude(p, p.s, FALSE)
        /\ UNCHANGED hold
     \/ \E lands \in p.writes :
          /\ Send(p.v.forced, lands)
          /\ hold' = IF lands THEN p.v.forced ELSE hold
          /\ Conclude(p, Forget(p.s), FALSE)

\* The guard let go of a mode the daemon only adopted: put back, once.
PutBack(p) ==
  /\ p.v.forced = None
  /\ hold # None
  /\ ~p.s.owned
  /\ hold' = None
  /\ still' = FALSE
  /\ \E lands \in p.writes :
       /\ Send(IF NeedsPwm(p.s.mode) THEN p.s.pwm ELSE p.s.mode, lands)
       /\ Conclude(p, Forget(p.s), lands)

\* Watching, not driving.
Watch(p) ==
  /\ p.v.forced = None
  /\ hold = None
  /\ ~p.s.owned
  /\ still' = p.idle
  /\ SendNothing
  /\ Conclude(p, p.s, FALSE)
  /\ UNCHANGED hold

\* The setting a pass goes on with: what a guard left is forgotten.
Freed(p) == IF hold = None THEN p.s ELSE Forget(p.s)
Stood(p) == hold = None /\ p.idle

\* A curve whose sensor reads nothing cannot be followed.
CannotFollow(p) ==
  /\ p.v.forced = None
  /\ p.s.owned
  /\ p.s.mode = "curve"
  /\ p.v.lost
  /\ hold' = None
  /\ still' = Stood(p)
  /\ SendNothing
  /\ Conclude(p, Freed(p), FALSE)

\* Mutant: a mode that was only found is driven.
FollowsAdopted(p) ==
  /\ p.v.forced = None
  /\ p.s.mode = "curve" => ~p.v.lost

Follows(p) ==
  /\ p.v.forced = None
  /\ p.s.owned
  /\ p.s.mode = "curve" => ~p.v.lost

\* What the mode asks for: a speed wherever the curve leads, or no speed.
Goals(s) == CASE s.mode = "curve" -> Speeds
              [] s.mode = "manual" -> {s.pwm}
              [] OTHER -> {s.mode}

\* A speed under the floor: the firmware gets the fans, and is told so once.
ReleaseFans(p) ==
  /\ Follows(p)
  /\ Goals(p.s) \cap BelowFloor # {}
  /\ hold' = None
  /\ \/ /\ Freed(p).released
        /\ still' = Stood(p)
        /\ SendNothing
        /\ Conclude(p, Freed(p), TRUE)
     \/ /\ ~Freed(p).released
        /\ still' = FALSE
        /\ \E lands \in p.writes :
             /\ Send("auto", lands)
             /\ Conclude(p, [Freed(p) EXCEPT !.released = TRUE, !.last = None],
                         lands)

\* Mutant: a speed is written and the fans are still on file as released.
ResumedReleased(p) == Freed(p)

\* A speed above it after a release: the last write says nothing any more.
Resumed(p) == IF Freed(p).released THEN Forget(p.s) ELSE Freed(p)

\* ZeroRpmWatch::observe.
Stands(p, goal) == p.v.standing # "no" /\ goal \in Speeds \ Slow
Stalls(p, goal) == Stands(p, goal) /\ Stood(p) /\ p.v.standing = "long"

\* A speed is commanded and nothing turns: the firmware gets the fans.
Stall(p) ==
  /\ Follows(p)
  /\ \E goal \in Goals(p.s) \ BelowFloor : Stalls(p, goal)
  /\ still' = FALSE
  /\ \E lands \in p.writes :
       /\ Send("auto", lands)
       /\ hold' = IF lands THEN "auto" ELSE None
  /\ Conclude(p, [Resumed(p) EXCEPT !.stalled = TRUE, !.last = None], FALSE)

\* The setting itself.  With nothing on file it is always written; otherwise
\* when the interval or the measured speed asks for it, auto never.
Drive(p) ==
  /\ Follows(p)
  /\ hold' = None
  /\ \E s \in {Resumed(p)} :
       \E goal \in Goals(p.s) \ BelowFloor :
          /\ ~Stalls(p, goal)
          /\ still' = Stands(p, goal)
          /\ \/ /\ s.last # None
                /\ SendNothing
                /\ Conclude(p, s, FALSE)
             \/ /\ s.last # None => goal # "auto"
                /\ \E lands \in p.writes :
                     /\ Send(goal, lands)
                     /\ Conclude(p, IF lands THEN [s EXCEPT !.last = goal] ELSE s,
                                 lands)

\* Cool, every sensor and tachometer in order.
CalmReadings == [hottest : {t \in Temps : t <= TrippedCoolC}, seen : {"fresh"}, fans : {"turning"}]

Free == taken # "taken"

\* tick_with_mode_request: a request is tried for as long as it is pending.
\* A calm pass reads nothing alarming and its write lands; only Fairness asks
\* for one.
Verdict(s, r) ==
  LET hot == Latch(r.hottest)
      bad == Blindness(s, r)
      ck == Observe(s, r)
  IN [critical |-> hot, blind |-> bad, checker |-> ck,
      forced |-> Forced(s, hot, bad, ck),
      lost |-> r.seen = "lost",
      standing |-> CASE r.fans = "stood" -> "long" [] r.fans = "stand" -> "yes" [] OTHER -> "no"]

Verdicts(s, idle, calm) ==
  {Verdict(s, r) : r \in IF calm THEN CalmReadings
                         ELSE {reading \in Readings(s, idle) : Sound(s, reading)}}

PassFrom(base, wasStill, req, calm) ==
  \/ /\ ~Free
     /\ setting' = base
     /\ pending' = req
     /\ still' = wasStill
     /\ UNCHANGED <<hold, critical, blind, checker, order, known, moved>>
  \/ /\ Free
     /\ LET s == IF req = NoRequest THEN base ELSE Tentative(base, req)
            idle == req = NoRequest /\ wasStill
        IN \E v \in Verdicts(s, idle, calm) :
             \E p \in {[base |-> base, s |-> s, req |-> req, idle |-> idle, v |-> v,
                         writes |-> IF calm THEN {TRUE} ELSE BOOLEAN]} :
               /\ critical' = v.critical
               /\ blind' = v.blind
               /\ checker' = v.checker
               /\ \/ HoldFans(p)
                  \/ PutBack(p)
                  \/ Watch(p)
                  \/ CannotFollow(p)
                  \/ ReleaseFans(p)
                  \/ Stall(p)
                  \/ Drive(p)

(***************************************************************************)
(* The control loop, the operations and what happens around them.           *)
(***************************************************************************)

Event ==
  /\ events < MaxEvents
  /\ events' = events + 1

\* A pass of the loop.  One that comes late, as after a suspend, forgets first.
Loop(calm) ==
  /\ slept' = FALSE
  /\ UNCHANGED <<taken, events>>
  /\ IF slept THEN PassFrom(Forget(setting), FALSE, pending, calm)
              ELSE PassFrom(setting, still, pending, calm)

LoopPass == Loop(FALSE)

SetMode(req) ==
  /\ PassFrom(setting, still, req, FALSE)
  /\ Event
  /\ UNCHANGED <<taken, slept>>

\* setCurve and setGpuFan: somebody deciding to try again after a stall.  When
\* there was none they do what Redecide does.
SetCurve ==
  /\ setting.stalled
  /\ PassFrom([Forget(setting) EXCEPT !.stalled = FALSE], FALSE, pending, FALSE)
  /\ Event
  /\ UNCHANGED <<taken, slept>>

\* A new power profile, another floor, another curve: decided anew.
Redecide ==
  /\ PassFrom(Forget(setting), FALSE, pending, FALSE)
  /\ Event
  /\ UNCHANGED <<taken, slept>>

\* Choosing what is chosen already is a pass like the loop's.
SetGuards(checks, lostTo) ==
  /\ <<checks, lostTo>> # <<setting.checks, setting.lostTo>>
  /\ PassFrom([setting EXCEPT !.checks = checks, !.lostTo = lostTo], still, pending, FALSE)
  /\ Event
  /\ UNCHANGED <<taken, slept>>

\* A pass panics, perhaps with a request tried and not yet rolled back.
\* after_panic orders auto, and the third panic in a row stops the driving.
Panic ==
  /\ Event
  /\ \E s \in {setting} \cup {Tentative(setting, req) : req \in {pending} \ {NoRequest}},
        third \in BOOLEAN :
       /\ Free \/ s = setting
       /\ setting' = [Forget(s) EXCEPT !.owned = @ /\ ~third]
  /\ order' \in {"auto", Elsewhere}
  /\ hold' = None
  /\ still' = FALSE
  /\ slept' = FALSE
  /\ moved' = TRUE
  /\ UNCHANGED <<pending, critical, blind, checker, known, taken>>

\* The machine suspends and wakes up; the firmware may have reset the fans.
Sleep ==
  /\ Event
  /\ slept' = TRUE
  /\ moved' = TRUE
  /\ order' = Elsewhere
  /\ UNCHANGED <<setting, pending, hold, critical, blind, checker, still, known, taken>>

\* claim_fans, or a cycle of the cleaner: the fans are moved by another thread.
Take ==
  /\ Event
  /\ taken = "no"
  /\ taken' = "taken"
  /\ order' = Elsewhere
  /\ moved' = TRUE
  /\ UNCHANGED <<setting, pending, hold, critical, blind, checker, still, known, slept>>

\* FanClaim::drop and finish_cycle.  A measurement stopped by the heat trips
\* the checker next; the tick_once both end with is the next pass.
GiveBack ==
  /\ taken = "taken"
  /\ taken' \in {"no", "tripping"}
  /\ setting' = Forget(setting)
  /\ still' = FALSE
  /\ UNCHANGED <<pending, hold, critical, blind, checker, known, order, slept, moved,
                 events>>

\* trip_after_measurement: straight to the second step, the setting on or off.
Trip ==
  /\ taken = "tripping"
  /\ taken' = "no"
  /\ checker' = [phase |-> "firmware", tripped |-> TRUE]
  /\ UNCHANGED <<setting, pending, hold, critical, blind, still, known, order, slept,
                 moved, events>>

Next ==
  \/ LoopPass
  \/ \E req \in Requests : SetMode(req)
  \/ SetCurve
  \/ Redecide
  \/ \E checks \in BOOLEAN, lostTo \in LossActions : SetGuards(checks, lostTo)
  \/ Panic
  \/ Sleep
  \/ Take
  \/ GiveBack
  \/ Trip

Spec == Init /\ [][Next]_vars

\* The loop goes on every two seconds, and over and over finds the machine
\* cool, its sensors well and the write accepted; who takes the fans gives
\* them back (FansReturned of FanOwnership) and trips the checker at once.
Fairness ==
  /\ SF_vars(Loop(TRUE))
  /\ WF_vars(GiveBack)
  /\ WF_vars(Trip)

FairSpec == Spec /\ Fairness

(***************************************************************************)
(* What should hold.                                                        *)
(***************************************************************************)

\* What the hardware is told in a setting that has the fans.
Realised ==
  \/ order = setting.mode
  \/ setting.mode = "manual" /\ order = setting.pwm
  \/ setting.mode = "curve" /\ order \in Speeds
  \/ NeedsPwm(setting.mode) /\ setting.released /\ order = "auto"

\* With the state reported as known, nothing pending and nobody else having
\* moved the fans, what is on file as held, released or last written is what
\* the hardware was told: the record_write of one branch and the hysteresis,
\* the hold and the release flag of another never disagree.
HonestStatus ==
  known /\ pending = NoRequest /\ ~moved =>
    /\ hold # None => order = hold
    /\ hold = None /\ setting.released => order = "auto"
    /\ hold = None /\ setting.last # None => order = setting.last

\* At critical heat the fans of a mode that commands a speed are at full,
\* whatever the checker, a stall or a lost sensor would have them do.
CriticalAtFull ==
  critical /\ NeedsPwm(setting.mode) /\ pending = NoRequest /\ known /\ ~moved /\ taken = "no"
    => order = "max"

\* A mode becomes the one in force only in the step whose write put it on the
\* hardware: a request that a guard or a refused write stopped leaves no trace.
CommittedModeRan ==
  [][\/ <<setting.mode, setting.pwm, setting.owned>>'
        = <<setting.mode, setting.pwm, setting.owned>>
     \/ known' /\ hold' = None /\ Realised'
     \/ Panic]_vars

\* A mode the daemon does not own is not driven: its fans move only into a
\* guard's hold, and out of one back to the mode that was found.
AdoptedLeftAlone ==
  [][~setting.owned /\ ~setting'.owned /\ pending' = NoRequest /\ taken' = taken /\ order' # order =>
       \/ hold' # None
       \/ hold # None /\ order' = IF NeedsPwm(setting.mode) THEN setting.pwm ELSE setting.mode
       \/ ~known'
       \/ Panic
       \/ Sleep]_vars

\* A request stays pending only until a pass finds nothing in its way.
RequestServed == pending # NoRequest ~> pending = NoRequest

\* A guard that had the fans of a mode the daemon owns lets them go once the
\* machine is calm, and the setting is on the hardware again, unless it was a
\* stall, which waits for the user, or the loop stood down.  (A speed under the
\* floor is the exception ReleasedMeansFirmware is about.)
SettingBack ==
  hold # None /\ setting.owned ~>
    \/ hold = None /\ (Realised \/ setting.released)
    \/ setting.stalled
    \/ ~setting.owned

(***************************************************************************)
(* What the code says of itself and does not keep.                          *)
(***************************************************************************)

\* A request that was not applied takes nothing from a guard: as long as a mode
\* that commands a speed is in force at critical heat, fans held at full stay
\* there.  CriticalAtFull says so only while nothing is pending.
CriticalHeld ==
  [][critical /\ critical' /\ hold = "max" /\ order = "max" /\ NeedsPwm(setting'.mode)
       /\ known' /\ ~moved' /\ taken' = "no" => order' = "max"]_vars

\* Fans on file as handed to the firmware were handed to it.
ReleasedMeansFirmware ==
  setting.released /\ hold = None /\ ~moved /\ taken = "no" => order = "auto"
=============================================================================
