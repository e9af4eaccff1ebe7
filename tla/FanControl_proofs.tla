-------------------------- MODULE FanControl_proofs --------------------------
(***************************************************************************)
(* What holds of FanControl for any speeds, temperatures, requests and      *)
(* number of disturbances: the types, and every safety property of its run. *)
(*                                                                         *)
(* Every operation that moves the fans is a pass, so the proof is about a   *)
(* pass p in any of its seven branches, from any setting it may start on.   *)
(***************************************************************************)
EXTENDS FanControl, TLAPS

Settings == [mode : Modes, pwm : Speeds, owned : BOOLEAN,
             stalled : BOOLEAN, released : BOOLEAN,
             last : Orders \cup {None},
             checks : BOOLEAN, lostTo : LossActions]
Asked == Requests \cup {NoRequest}
Checkers == [phase : Phases, tripped : BOOLEAN]
VerdictRecords == [critical : BOOLEAN, blind : 0..SensorTicks, checker : Checkers,
                   forced : {"auto", "max", None}, lost : BOOLEAN,
                   standing : {"no", "yes", "long"}]
Passes == [base : Settings, s : Settings, req : Asked, idle : BOOLEAN,
           v : VerdictRecords, writes : SUBSET BOOLEAN]

\* What a pass may do to the fans.
Branch(p) == HoldFans(p) \/ PutBack(p) \/ Watch(p) \/ CannotFollow(p)
             \/ ReleaseFans(p) \/ Stall(p) \/ Drive(p)

\* A setting a pass may start on: what was set is as it was, and what was written is as it was
\* or forgotten.
StartOn(base) ==
  /\ base.mode = setting.mode /\ base.pwm = setting.pwm /\ base.owned = setting.owned
  /\ base.last # None => base.last = setting.last
  /\ base.released => setting.released

\* A pass in the open, as PassFrom starts it.
Started(p) ==
  /\ p \in Passes
  /\ StartOn(p.base)
  /\ p.s = IF p.req = NoRequest THEN p.base ELSE Tentative(p.base, p.req)
  /\ p.req = NoRequest => pending = NoRequest
  /\ p.v.critical /\ NeedsPwm(p.s.mode) => p.v.forced = "max"

-----------------------------------------------------------------------------
(* Types.                                                                   *)

LEMMA ForgetTypes ==
  ASSUME NEW s \in Settings
  PROVE  /\ Forget(s) \in Settings
         /\ Forget(s).mode = s.mode /\ Forget(s).pwm = s.pwm /\ Forget(s).owned = s.owned
         /\ Forget(s).last = None /\ Forget(s).released = FALSE
         /\ Forget(s).stalled = s.stalled
BY DEF Forget, Settings

LEMMA TentativeTypes ==
  ASSUME NEW s \in Settings, NEW req \in Requests
  PROVE  /\ Tentative(s, req) \in Settings
         /\ Tentative(s, req).mode = req.mode /\ Tentative(s, req).owned = TRUE
         /\ Tentative(s, req).last = None /\ Tentative(s, req).released = FALSE
<1>1. req.mode \in Modes /\ (IF req.pwm = None THEN s.pwm ELSE req.pwm) \in Speeds
  BY FanAssumption DEF Settings
<1> QED
  BY <1>1 DEF Tentative, Forget, Settings

\* A request is not the absence of one.
LEMMA RequestsAreModes == NoRequest \notin Requests /\ None \notin Modes
<1>1. None \notin Modes
  BY DEF Modes, None
<1> QED
  BY <1>1, FanAssumption DEF NoRequest

LEMMA VerdictTypes ==
  ASSUME TypeOK, NEW s \in Settings, NEW r, r.hottest \in Nat
  PROVE  /\ Verdict(s, r) \in VerdictRecords
         /\ Verdict(s, r).critical /\ NeedsPwm(s.mode) => Verdict(s, r).forced = "max"
<1> DEFINE hot == Latch(r.hottest)
           bad == Blindness(s, r)
           ck == Observe(s, r)
<1>1. hot \in BOOLEAN
  BY DEF Latch, TypeOK, CriticalC, CriticalClearC
<1>2. bad \in 0..SensorTicks
  BY FanAssumption DEF Blindness, TypeOK
<1>3. ck \in Checkers
  <2>1. checker \in Checkers /\ Idle \in Checkers
    BY DEF TypeOK, Checkers, Idle, Phases
  <2>2. \A phase \in Phases : [checker EXCEPT !.phase = phase] \in Checkers
    BY <2>1 DEF Checkers
  <2>3. {"watching", "answered", "firmware", "heard", "max"} \subseteq Phases
    BY DEF Phases
  <2> QED
    BY <2>1, <2>2, <2>3 DEF Observe
<1>4. s.lostTo \in {"auto", "max"}
  BY FanAssumption DEF Settings
<1>5. Commanded(ck) \in {"auto", "max", None}
  BY DEF Commanded
<1>6. Forced(s, hot, bad, ck) \in {"auto", "max", None}
  BY <1>4, <1>5 DEF Forced
<1>7. hot /\ NeedsPwm(s.mode) => Forced(s, hot, bad, ck) = "max"
  BY DEF Forced
<1>8. (CASE r.fans = "stood" -> "long" [] r.fans = "stand" -> "yes" [] OTHER -> "no")
        \in {"no", "yes", "long"}
  OBVIOUS
<1> HIDE DEF hot, bad, ck
<1>9. Verdict(s, r) = [critical |-> hot, blind |-> bad, checker |-> ck,
                       forced |-> Forced(s, hot, bad, ck), lost |-> r.seen = "lost",
                       standing |-> CASE r.fans = "stood" -> "long"
                                      [] r.fans = "stand" -> "yes" [] OTHER -> "no"]
  BY DEF Verdict, hot, bad, ck
<1>10. (r.seen = "lost") \in BOOLEAN
  OBVIOUS
<1> QED
  BY <1>1, <1>2, <1>3, <1>6, <1>7, <1>8, <1>9, <1>10 DEF VerdictRecords

\* A pass that runs is a pass of one of the seven branches.
LEMMA PassRuns ==
  ASSUME TypeOK, NEW base \in Settings, NEW wasStill \in BOOLEAN, NEW req \in Asked,
         NEW calm \in BOOLEAN, PassFrom(base, wasStill, req, calm), Free,
         StartOn(base), req = NoRequest => pending = NoRequest
  PROVE  \E p : /\ Started(p) /\ p.req = req /\ p.base = base /\ Branch(p)
                /\ critical' = p.v.critical /\ blind' = p.v.blind /\ checker' = p.v.checker
<1> DEFINE s == IF req = NoRequest THEN base ELSE Tentative(base, req)
           idle == req = NoRequest /\ wasStill
           pass(v) == [base |-> base, s |-> s, req |-> req, idle |-> idle, v |-> v,
                       writes |-> IF calm THEN {TRUE} ELSE BOOLEAN]
<1>1. s \in Settings /\ idle \in BOOLEAN
  BY TentativeTypes DEF Asked
<1>2. PICK v \in Verdicts(s, idle, calm) :
        /\ critical' = v.critical /\ blind' = v.blind /\ checker' = v.checker
        /\ Branch(pass(v))
  BY DEF PassFrom, Branch
<1>3. PICK r : v = Verdict(s, r) /\ r.hottest \in Nat
  <2>1. ASSUME NEW r \in CalmReadings PROVE r.hottest \in Nat
    BY <2>1, FanAssumption DEF CalmReadings
  <2>2. ASSUME NEW r \in Readings(s, idle) PROVE r.hottest \in Nat
    BY <2>2, FanAssumption DEF Readings
  <2> HIDE DEF s, idle
  <2>3. \E r \in (IF calm THEN CalmReadings
                  ELSE {reading \in Readings(s, idle) : Sound(s, reading)}) : v = Verdict(s, r)
    BY <1>2 DEF Verdicts
  <2> QED
    BY <2>1, <2>2, <2>3
<1>4. /\ v \in VerdictRecords
      /\ v.critical /\ NeedsPwm(s.mode) => v.forced = "max"
  BY <1>1, <1>3, VerdictTypes
<1>5. Started(pass(v))
  <2>1. pass(v) \in Passes
    <3>1. (IF calm THEN {TRUE} ELSE BOOLEAN) \in SUBSET BOOLEAN
      OBVIOUS
    <3> HIDE DEF s, idle
    <3> QED
      BY <1>1, <1>4, <3>1 DEF Passes
  <2>2. pass(v).base = base /\ pass(v).s = s /\ pass(v).req = req /\ pass(v).v = v
    OBVIOUS
  <2> HIDE DEF pass
  <2> QED
    BY <1>4, <2>1, <2>2 DEF Started
<1> QED
  BY <1>2, <1>5

\* What a pass leaves is of its types.
LEMMA BranchTypes ==
  ASSUME TypeOK, NEW p \in Passes, Branch(p)
  PROVE  /\ setting' \in Settings /\ pending' \in Asked
         /\ hold' \in {"auto", "max", None} /\ still' \in BOOLEAN
         /\ known' \in BOOLEAN /\ moved' \in BOOLEAN
         /\ order' \in Orders \cup {Elsewhere}
<1>0. /\ p.base \in Settings /\ p.s \in Settings /\ p.req \in Asked /\ p.idle \in BOOLEAN
      /\ p.writes \subseteq BOOLEAN /\ p.v.forced \in {"auto", "max", None}
      /\ Forget(p.s) \in Settings
  BY ForgetTypes DEF Passes, VerdictRecords
<1>1. Freed(p) \in Settings /\ Resumed(p) \in Settings /\ Stood(p) \in BOOLEAN
  BY <1>0, ForgetTypes DEF Freed, Resumed, Stood
<1>2. ASSUME NEW s \in Settings, NEW applied \in BOOLEAN, Conclude(p, s, applied)
      PROVE  setting' \in Settings /\ pending' \in Asked
  BY <1>0, <1>2 DEF Conclude, Asked
<1>3. ASSUME NEW goal \in Orders, NEW lands \in BOOLEAN, Send(goal, lands)
      PROVE  known' \in BOOLEAN /\ moved' \in BOOLEAN /\ order' \in Orders \cup {Elsewhere}
  BY <1>3 DEF Send, TypeOK
<1>4. ASSUME SendNothing
      PROVE  known' \in BOOLEAN /\ moved' \in BOOLEAN /\ order' \in Orders \cup {Elsewhere}
  BY <1>4 DEF SendNothing, TypeOK
<1>5. hold \in {"auto", "max", None} /\ {"auto", "max"} \subseteq Orders
  BY DEF TypeOK, Orders
<1>6. CASE HoldFans(p)
  <2>1. p.v.forced \in Orders
    BY <1>0, <1>5, <1>6 DEF HoldFans
  <2> QED
    BY <1>0, <1>2, <1>3, <1>4, <1>5, <1>6, <2>1 DEF HoldFans
<1>7. CASE PutBack(p)
  <2>1. (IF NeedsPwm(p.s.mode) THEN p.s.pwm ELSE p.s.mode) \in Orders
    BY <1>0 DEF Settings, NeedsPwm, Modes, Orders
  <2> QED
    BY <1>0, <1>2, <1>3, <1>7, <2>1 DEF PutBack
<1>8. CASE Watch(p)
  BY <1>0, <1>2, <1>4, <1>5, <1>8 DEF Watch
<1>9. CASE CannotFollow(p)
  BY <1>0, <1>1, <1>2, <1>4, <1>9 DEF CannotFollow
<1>10. CASE ReleaseFans(p)
  <2>1. [Freed(p) EXCEPT !.released = TRUE, !.last = None] \in Settings
    BY <1>1 DEF Settings
  <2>2. CASE Freed(p).released
    BY <1>1, <1>2, <1>4, <1>10, <2>2 DEF ReleaseFans
  <2>3. CASE ~Freed(p).released
    <3>1. PICK lands \in p.writes :
            /\ Send("auto", lands)
            /\ Conclude(p, [Freed(p) EXCEPT !.released = TRUE, !.last = None], lands)
      BY <1>10, <2>3 DEF ReleaseFans
    <3> QED
      BY <1>0, <1>2, <1>3, <1>5, <1>10, <2>1, <2>3, <3>1 DEF ReleaseFans
  <2> QED
    BY <2>2, <2>3
<1>11. CASE Stall(p)
  <2>1. [Resumed(p) EXCEPT !.stalled = TRUE, !.last = None] \in Settings
    BY <1>1 DEF Settings
  <2>2. PICK lands \in p.writes :
          Send("auto", lands) /\ hold' = IF lands THEN "auto" ELSE None
    BY <1>11 DEF Stall
  <2> QED
    BY <1>0, <1>2, <1>3, <1>5, <1>11, <2>1, <2>2 DEF Stall
<1>12. CASE Drive(p)
  <2>1. PICK goal \in Goals(p.s) \ BelowFloor :
          /\ still' = Stands(p, goal)
          /\ \/ SendNothing /\ Conclude(p, Resumed(p), FALSE)
             \/ \E lands \in p.writes :
                  /\ Send(goal, lands)
                  /\ Conclude(p, IF lands THEN [Resumed(p) EXCEPT !.last = goal]
                                 ELSE Resumed(p), lands)
    BY <1>12 DEF Drive
  <2>2. goal \in Orders
    BY <1>0, <2>1 DEF Goals, Settings, Modes, Orders
  <2>3. [Resumed(p) EXCEPT !.last = goal] \in Settings
    BY <1>1, <2>2 DEF Settings
  <2>4. still' \in BOOLEAN /\ hold' = None
    BY <1>12, <2>1 DEF Stands, Drive
  <2>5. CASE SendNothing /\ Conclude(p, Resumed(p), FALSE)
    BY <1>1, <1>2, <1>4, <2>4, <2>5
  <2>6. ASSUME NEW lands \in p.writes, Send(goal, lands),
               Conclude(p, IF lands THEN [Resumed(p) EXCEPT !.last = goal]
                           ELSE Resumed(p), lands)
        PROVE  /\ setting' \in Settings /\ pending' \in Asked
               /\ known' \in BOOLEAN /\ moved' \in BOOLEAN /\ order' \in Orders \cup {Elsewhere}
    <3>1. (IF lands THEN [Resumed(p) EXCEPT !.last = goal] ELSE Resumed(p)) \in Settings
          /\ lands \in BOOLEAN
      BY <1>0, <1>1, <2>3
    <3> QED
      BY <1>2, <1>3, <2>2, <2>6, <3>1
  <2> QED
    BY <2>1, <2>4, <2>5, <2>6
<1> QED
  BY <1>6, <1>7, <1>8, <1>9, <1>10, <1>11, <1>12 DEF Branch

\* A pass on some setting, by the loop or in an operation of a client.
OnePass(base, wasStill, req, calm) ==
  /\ PassFrom(base, wasStill, req, calm)
  /\ StartOn(base)
  /\ req = NoRequest => pending = NoRequest
  /\ taken' = taken /\ slept' \in BOOLEAN /\ events' \in 0..MaxEvents

Passing == \E base \in Settings, wasStill \in BOOLEAN, req \in Asked, calm \in BOOLEAN :
             OnePass(base, wasStill, req, calm)

\* What was last written is a speed or nothing; a setting may always be started on as it is, and
\* with what was written forgotten.
LEMMA StartsOn ==
  ASSUME TypeOK
  PROVE  /\ setting \in Settings /\ StartOn(setting)
         /\ Forget(setting) \in Settings /\ StartOn(Forget(setting))
<1>1. setting \in Settings
  BY DEF TypeOK, Settings
<1> QED
  BY <1>1, ForgetTypes DEF StartOn

LEMMA Operations ==
  ASSUME TypeOK, Next
  PROVE  Passing \/ Panic \/ Sleep \/ Take \/ GiveBack \/ Trip
<1>0. /\ still \in BOOLEAN /\ pending \in Asked /\ slept \in BOOLEAN /\ events \in 0..MaxEvents
      /\ {TRUE, FALSE} \subseteq BOOLEAN
  BY DEF TypeOK, Asked
<1>1. Event => events' \in 0..MaxEvents
  BY <1>0, FanAssumption DEF Event
<1>2. ASSUME NEW base \in Settings, StartOn(base), NEW wasStill \in BOOLEAN, NEW req \in Asked,
             NEW calm \in BOOLEAN, PassFrom(base, wasStill, req, calm),
             req = NoRequest => pending = NoRequest, UNCHANGED taken,
             slept' \in BOOLEAN, events' \in 0..MaxEvents
      PROVE  Passing
  BY <1>2 DEF Passing, OnePass
<1>3. CASE LoopPass
  <2>1. CASE slept
    <3>1. PassFrom(Forget(setting), FALSE, pending, FALSE)
      BY <1>3, <2>1 DEF LoopPass, Loop
    <3> QED
      BY <1>0, <1>2, <1>3, <3>1, StartsOn DEF LoopPass, Loop
  <2>2. CASE ~slept
    <3>1. PassFrom(setting, still, pending, FALSE)
      BY <1>3, <2>2 DEF LoopPass, Loop
    <3> QED
      BY <1>0, <1>2, <1>3, <3>1, StartsOn DEF LoopPass, Loop
  <2> QED
    BY <2>1, <2>2
<1>4. ASSUME NEW req \in Requests, SetMode(req) PROVE Passing
  BY <1>0, <1>1, <1>2, <1>4, StartsOn, RequestsAreModes DEF SetMode, Asked
<1>5. CASE SetCurve
  <2> DEFINE base == [Forget(setting) EXCEPT !.stalled = FALSE]
  <2>1. base \in Settings /\ StartOn(base)
    BY StartsOn DEF Settings, StartOn
  <2>2. PassFrom(base, FALSE, pending, FALSE)
    BY <1>5 DEF SetCurve
  <2> HIDE DEF base
  <2> QED
    BY <1>0, <1>1, <1>2, <1>5, <2>1, <2>2 DEF SetCurve
<1>6. CASE Redecide
  BY <1>0, <1>1, <1>2, <1>6, StartsOn DEF Redecide
<1>7. ASSUME NEW checks \in BOOLEAN, NEW lostTo \in LossActions, SetGuards(checks, lostTo)
      PROVE Passing
  <2> DEFINE base == [setting EXCEPT !.checks = checks, !.lostTo = lostTo]
  <2>1. base \in Settings /\ StartOn(base)
    BY StartsOn DEF Settings, StartOn
  <2>2. PassFrom(base, still, pending, FALSE)
    BY <1>7 DEF SetGuards
  <2> HIDE DEF base
  <2> QED
    BY <1>0, <1>1, <1>2, <1>7, <2>1, <2>2 DEF SetGuards
<1> QED
  BY <1>3, <1>4, <1>5, <1>6, <1>7 DEF Next

LEMMA TypesAtFirst == Init => TypeOK
<1> SUFFICES ASSUME Init PROVE TypeOK
  OBVIOUS
<1>1. setting \in Settings /\ setting.mode \in Modes /\ setting.pwm \in Speeds
  BY DEF Init, Settings
<1>2. order \in Orders \cup {Elsewhere}
  BY <1>1 DEF Init, Orders, Modes
<1>3. blind \in 0..SensorTicks /\ events \in 0..MaxEvents
  BY FanAssumption DEF Init
<1>4. checker \in Checkers /\ NoRequest \in Asked
  BY DEF Init, Idle, Checkers, Phases, Asked
<1> QED
  BY <1>1, <1>2, <1>3, <1>4 DEF Init, TypeOK, Settings, Checkers, Asked

LEMMA TypesKept == TypeOK /\ [Next]_vars => TypeOK'
<1> SUFFICES ASSUME TypeOK, [Next]_vars PROVE TypeOK'
  OBVIOUS
<1>0. setting \in Settings /\ Forget(setting) \in Settings
  BY StartsOn
<1>1. Event => events' \in 0..MaxEvents
  BY FanAssumption DEF Event, TypeOK
<1>2. ASSUME NEW base \in Settings, NEW wasStill \in BOOLEAN, NEW req \in Asked,
             NEW calm \in BOOLEAN, OnePass(base, wasStill, req, calm)
      PROVE  TypeOK'
  <2>1. CASE ~Free
    BY <1>2, <2>1 DEF OnePass, PassFrom, TypeOK, Settings, Asked
  <2>2. CASE Free
    <3>1. PICK p : /\ Started(p) /\ Branch(p)
                   /\ critical' = p.v.critical /\ blind' = p.v.blind /\ checker' = p.v.checker
      BY <1>2, <2>2, PassRuns DEF OnePass
    <3>2. p \in Passes
      BY <3>1 DEF Started
    <3>3. /\ setting' \in Settings /\ pending' \in Asked
          /\ hold' \in {"auto", "max", None} /\ still' \in BOOLEAN
          /\ known' \in BOOLEAN /\ moved' \in BOOLEAN
          /\ order' \in Orders \cup {Elsewhere}
      BY <3>1, <3>2, BranchTypes
    <3>4. critical' \in BOOLEAN /\ blind' \in 0..SensorTicks /\ checker' \in Checkers
      BY <3>1, <3>2 DEF Passes, VerdictRecords
    <3> QED
      BY <1>2, <3>3, <3>4 DEF OnePass, TypeOK, Settings, Asked, Checkers
  <2> QED
    BY <2>1, <2>2
<1>3. CASE Panic
  <2>1. PICK s \in {setting} \cup {Tentative(setting, req) : req \in {pending} \ {NoRequest}},
             third \in BOOLEAN : setting' = [Forget(s) EXCEPT !.owned = @ /\ ~third]
    BY <1>3 DEF Panic
  <2>2. s \in Settings
    <3>1. pending \in Requests \/ pending = NoRequest
      BY DEF TypeOK
    <3>2. s = setting \/ (pending \in Requests /\ s = Tentative(setting, pending))
      BY <2>1, <3>1
    <3> QED
      BY <1>0, <3>2, TentativeTypes
  <2>3. setting' \in Settings
    <3>1. Forget(s) \in Settings /\ (Forget(s).owned /\ ~third) \in BOOLEAN
      BY <2>2, ForgetTypes
    <3> QED
      BY <2>1, <3>1 DEF Settings
  <2>4. order' \in Orders \cup {Elsewhere}
    BY <1>3 DEF Panic, Orders
  <2> QED
    BY <1>1, <1>3, <2>3, <2>4 DEF Panic, TypeOK, Settings
<1>4. CASE Sleep
  BY <1>1, <1>4 DEF Sleep, TypeOK
<1>5. CASE Take
  BY <1>1, <1>5 DEF Take, TypeOK
<1>6. CASE GiveBack
  <2>1. setting' \in Settings /\ taken' \in {"no", "taken", "tripping"} /\ still' \in BOOLEAN
    BY <1>0, <1>6 DEF GiveBack
  <2> QED
    BY <1>6, <2>1 DEF GiveBack, TypeOK, Settings
<1>7. CASE Trip
  <2>1. checker' \in Checkers
    BY <1>7 DEF Trip, Checkers, Phases
  <2> QED
    BY <1>7, <2>1 DEF Trip, TypeOK, Checkers
<1>8. CASE UNCHANGED vars
  BY <1>8 DEF vars, TypeOK
<1> QED
  BY <1>2, <1>3, <1>4, <1>5, <1>6, <1>7, <1>8, Operations DEF Passing

\* The variables keep their types, the count of bad readings its limit (SensorWatch::observe).
THEOREM FanTypes == Spec => []TypeOK
BY TypesAtFirst, TypesKept, PTL DEF Spec

-----------------------------------------------------------------------------
(* What is on file and what the fans were told.                             *)

\* Whoever has taken the fans has moved them.
TakenMoved == taken = "taken" => moved

\* CriticalAtFull, whoever is about to give the fans back.
FullAtHeat ==
  critical /\ NeedsPwm(setting.mode) /\ pending = NoRequest /\ known /\ ~moved => order = "max"

Told == HonestStatus /\ FullAtHeat /\ TakenMoved

\* What a pass leaves on file, given what it wrote: nothing, or goal.  The setting is s wherever
\* nothing is pending.
LEMMA PassEnds ==
  ASSUME NEW p, p.req = NoRequest => pending = NoRequest, NEW s, NEW applied,
         Conclude(p, s, applied), pending' = NoRequest
  PROVE  /\ setting' = s
         /\ applied \/ (p.req = NoRequest /\ pending = NoRequest)
BY DEF Conclude

\* The setting a pass tries was released, or has something on file, only if it was so before and
\* no request is tried.
LEMMA TriedOn ==
  ASSUME NEW p, Started(p)
  PROVE  /\ p.s \in Settings /\ p.s.mode \in Modes
         /\ p.s.released \/ p.s.last # None => p.req = NoRequest /\ pending = NoRequest
         /\ p.s.released => setting.released
         /\ p.s.last # None => p.s.last = setting.last
         /\ Freed(p) \in Settings /\ Resumed(p) \in Settings
         /\ Freed(p).mode = p.s.mode /\ Resumed(p).mode = p.s.mode
         /\ Freed(p).pwm = p.s.pwm /\ Resumed(p).pwm = p.s.pwm
         /\ Resumed(p).released = FALSE
         /\ Freed(p).released => hold = None /\ p.s.released
         /\ Freed(p).last # None => hold = None /\ Freed(p).last = p.s.last
         /\ Resumed(p).last # None => hold = None /\ Resumed(p).last = p.s.last
<1>1. p.base \in Settings /\ p.s \in Settings /\ p.req \in Asked
  BY DEF Started, Passes
<1>2. /\ p.s.released \/ p.s.last # None => p.req = NoRequest /\ p.s = p.base
  <2>1. CASE p.req = NoRequest
    BY <2>1 DEF Started
  <2>2. CASE p.req # NoRequest
    <3>1. p.req \in Requests /\ p.s = Tentative(p.base, p.req)
      BY <1>1, <2>2 DEF Started, Asked
    <3>2. \A s \in Settings, req \in Requests :
             Tentative(s, req).last = None /\ Tentative(s, req).released = FALSE
      BY TentativeTypes
    <3>3. p.s.last = None /\ p.s.released = FALSE
      BY <1>1, <3>1, <3>2
    <3> QED
      BY <3>3
  <2> QED
    BY <2>1, <2>2
<1>3. /\ p.s.released => setting.released
      /\ p.s.last # None => p.s.last = setting.last
      /\ p.s.released \/ p.s.last # None => p.req = NoRequest /\ pending = NoRequest
  BY <1>2 DEF Started, StartOn
<1>4. /\ Freed(p) \in Settings /\ Freed(p).mode = p.s.mode /\ Freed(p).pwm = p.s.pwm
      /\ Freed(p).released => hold = None /\ p.s.released
      /\ Freed(p).last # None => hold = None /\ Freed(p).last = p.s.last
  BY <1>1, ForgetTypes DEF Freed
<1>5. /\ Resumed(p) \in Settings /\ Resumed(p).mode = p.s.mode /\ Resumed(p).pwm = p.s.pwm
      /\ Resumed(p).released = FALSE
      /\ Resumed(p).last # None => Resumed(p) = Freed(p)
  <2>1. CASE Freed(p).released
    BY <1>1, <2>1, ForgetTypes DEF Resumed
  <2>2. CASE ~Freed(p).released
    BY <1>4, <2>2 DEF Resumed, Settings
  <2> QED
    BY <2>1, <2>2
<1>6. p.s.mode \in Modes
  BY <1>1 DEF Settings
<1> QED
  BY <1>1, <1>3, <1>4, <1>5, <1>6

LEMMA BranchHonest ==
  ASSUME TypeOK, HonestStatus, NEW p, Started(p), Branch(p)
  PROVE  HonestStatus'
<1> SUFFICES ASSUME known', pending' = NoRequest, ~moved'
             PROVE  /\ hold' # None => order' = hold'
                    /\ hold' = None /\ setting'.released => order' = "auto"
                    /\ hold' = None /\ setting'.last # None => order' = setting'.last
  BY DEF HonestStatus
<1>0. p.req = NoRequest => pending = NoRequest
  BY DEF Started
<1>1. ASSUME NEW goal, NEW lands \in p.writes, Send(goal, lands)
      PROVE  order' = goal /\ lands
  BY <1>1 DEF Send
<1>2. ASSUME SendNothing, pending = NoRequest
      PROVE  /\ order' = order
             /\ hold # None => order = hold
             /\ hold = None /\ setting.released => order = "auto"
             /\ hold = None /\ setting.last # None => order = setting.last
  BY <1>2 DEF SendNothing, HonestStatus
<1>3. CASE HoldFans(p)
  <2>1. p.v.forced # None
    BY <1>3 DEF HoldFans
  <2>2. CASE hold = p.v.forced /\ SendNothing /\ Conclude(p, p.s, FALSE) /\ UNCHANGED hold
    BY <1>0, <1>2, <2>1, <2>2, PassEnds
  <2>3. ASSUME NEW lands \in p.writes, Send(p.v.forced, lands),
               hold' = IF lands THEN p.v.forced ELSE hold
        PROVE  hold' # None /\ order' = hold'
    BY <1>1, <2>1, <2>3
  <2> QED
    BY <1>3, <2>2, <2>3 DEF HoldFans
<1>4. CASE PutBack(p)
  <2>1. PICK lands \in p.writes : Conclude(p, Forget(p.s), lands)
    BY <1>4 DEF PutBack
  <2>2. setting' = Forget(p.s) /\ hold' = None
    BY <1>0, <1>4, <2>1, PassEnds DEF PutBack
  <2> QED
    BY <2>2, TriedOn, ForgetTypes
<1>5. CASE Watch(p)
  <2>1. SendNothing /\ setting' = p.s /\ pending = NoRequest /\ hold = None /\ hold' = None
    BY <1>0, <1>5, PassEnds DEF Watch
  <2> QED
    BY <1>2, <2>1, TriedOn
<1>6. CASE CannotFollow(p)
  <2>1. SendNothing /\ setting' = Freed(p) /\ pending = NoRequest /\ hold' = None
    BY <1>0, <1>6, PassEnds DEF CannotFollow
  <2> QED
    BY <1>2, <2>1, TriedOn
<1>7. CASE ReleaseFans(p)
  <2>1. CASE Freed(p).released
    <3>1. SendNothing /\ setting' = Freed(p) /\ hold' = None
      BY <1>0, <1>7, <2>1, PassEnds DEF ReleaseFans
    <3>2. pending = NoRequest
      BY <2>1, TriedOn
    <3> QED
      BY <1>2, <3>1, <3>2, <2>1, TriedOn
  <2>2. CASE ~Freed(p).released
    <3>1. PICK lands \in p.writes :
            /\ Send("auto", lands)
            /\ Conclude(p, [Freed(p) EXCEPT !.released = TRUE, !.last = None], lands)
      BY <1>7, <2>2 DEF ReleaseFans
    <3>2. setting' = [Freed(p) EXCEPT !.released = TRUE, !.last = None] /\ order' = "auto"
      BY <1>0, <1>1, <3>1, PassEnds
    <3>3. setting'.last = None
      BY <3>2, TriedOn DEF Settings
    <3> QED
      BY <1>7, <3>2, <3>3 DEF ReleaseFans
  <2> QED
    BY <2>1, <2>2
<1>8. CASE Stall(p)
  <2>1. PICK lands \in p.writes :
          Send("auto", lands) /\ hold' = IF lands THEN "auto" ELSE None
    BY <1>8 DEF Stall
  <2>2. hold' = "auto" /\ order' = "auto"
    BY <1>1, <2>1
  <2> QED
    BY <2>2 DEF None
<1>9. CASE Drive(p)
  <2>1. PICK goal \in Goals(p.s) \ BelowFloor :
          \/ Resumed(p).last # None /\ SendNothing /\ Conclude(p, Resumed(p), FALSE)
          \/ \E lands \in p.writes :
               /\ Send(goal, lands)
               /\ Conclude(p, IF lands THEN [Resumed(p) EXCEPT !.last = goal]
                              ELSE Resumed(p), lands)
    BY <1>9 DEF Drive
  <2>2. hold' = None
    BY <1>9 DEF Drive
  <2>3. CASE Resumed(p).last # None /\ SendNothing /\ Conclude(p, Resumed(p), FALSE)
    <3>1. setting' = Resumed(p) /\ pending = NoRequest
      BY <1>0, <2>3, PassEnds
    <3> QED
      BY <1>2, <2>2, <2>3, <3>1, TriedOn
  <2>4. ASSUME NEW lands \in p.writes, Send(goal, lands),
               Conclude(p, IF lands THEN [Resumed(p) EXCEPT !.last = goal] ELSE Resumed(p), lands)
        PROVE  order' = goal /\ setting' = [Resumed(p) EXCEPT !.last = goal]
    BY <1>0, <1>1, <2>4, PassEnds
  <2>5. [Resumed(p) EXCEPT !.last = goal].last = goal
        /\ [Resumed(p) EXCEPT !.last = goal].released = FALSE
    BY TriedOn DEF Settings
  <2> QED
    BY <2>1, <2>2, <2>3, <2>4, <2>5
<1> QED
  BY <1>3, <1>4, <1>5, <1>6, <1>7, <1>8, <1>9 DEF Branch

\* Whatever branch a pass ends in, the mode of the setting it leaves is the one it tried, and a
\* mode that is not the one before was put on the hardware in it.
LEMMA BranchCommits ==
  ASSUME TypeOK, NEW p, Started(p), Branch(p)
  PROVE  /\ pending' = NoRequest => setting'.mode = p.s.mode /\ setting'.owned = p.s.owned
         /\ \/ <<setting.mode, setting.pwm, setting.owned>>'
                 = <<setting.mode, setting.pwm, setting.owned>>
            \/ known' /\ hold' = None /\ Realised'
<1>0. /\ p.req = NoRequest => pending = NoRequest
      /\ p.base.mode = setting.mode /\ p.base.pwm = setting.pwm /\ p.base.owned = setting.owned
      /\ p.req = NoRequest => p.s = p.base
      /\ p.s \in Settings /\ p.writes \subseteq BOOLEAN
      /\ p.req # NoRequest => p.s.owned = TRUE
  <2>1. p.req # NoRequest => p.s.owned = TRUE
    <3>1. p.base \in Settings /\ p.req \in Asked
      BY DEF Started, Passes
    <3>2. p.req # NoRequest => p.req \in Requests /\ p.s = Tentative(p.base, p.req)
      BY <3>1 DEF Started, Asked
    <3> QED
      BY <3>1, <3>2, TentativeTypes
  <2> QED
    BY <2>1 DEF Started, StartOn, Passes
<1>1. ASSUME NEW s, NEW applied \in BOOLEAN, Conclude(p, s, applied),
             s.mode = p.s.mode, s.pwm = p.s.pwm, s.owned = p.s.owned
      PROVE  /\ pending' = NoRequest => setting'.mode = p.s.mode /\ setting'.owned = p.s.owned
             /\ \/ <<setting.mode, setting.pwm, setting.owned>>'
                     = <<setting.mode, setting.pwm, setting.owned>>
                \/ p.req # NoRequest /\ applied /\ setting' = s
  BY <1>0, <1>1 DEF Conclude
<1>2. /\ Forget(p.s).mode = p.s.mode /\ Forget(p.s).pwm = p.s.pwm /\ Forget(p.s).owned = p.s.owned
      /\ Freed(p) \in Settings
      /\ Freed(p).mode = p.s.mode /\ Freed(p).pwm = p.s.pwm /\ Freed(p).owned = p.s.owned
      /\ Resumed(p) \in Settings
      /\ Resumed(p).mode = p.s.mode /\ Resumed(p).pwm = p.s.pwm /\ Resumed(p).owned = p.s.owned
  BY <1>0, ForgetTypes DEF Freed, Resumed
<1>3. CASE HoldFans(p)
  BY <1>0, <1>1, <1>2, <1>3 DEF HoldFans
<1>4. CASE PutBack(p)
  <2>1. p.req = NoRequest
    BY <1>0, <1>4 DEF PutBack
  <2> QED
    BY <1>0, <1>1, <1>2, <1>4, <2>1 DEF PutBack
<1>5. CASE Watch(p)
  BY <1>0, <1>1, <1>5 DEF Watch
<1>6. CASE CannotFollow(p)
  BY <1>1, <1>2, <1>6 DEF CannotFollow
<1>7. CASE ReleaseFans(p)
  <2>1. CASE Freed(p).released
    <3>1. p.req = NoRequest
      BY <2>1, TriedOn
    <3> QED
      BY <1>1, <1>2, <1>7, <2>1, <3>1 DEF ReleaseFans
  <2>2. CASE ~Freed(p).released
    <3> DEFINE s == [Freed(p) EXCEPT !.released = TRUE, !.last = None]
    <3>1. PICK lands \in p.writes : Send("auto", lands) /\ Conclude(p, s, lands)
      BY <1>7, <2>2 DEF ReleaseFans
    <3>2. s.mode = p.s.mode /\ s.pwm = p.s.pwm /\ s.owned = p.s.owned /\ s.released = TRUE
      BY <1>2 DEF Settings
    <3>3. NeedsPwm(p.s.mode)
      <4>1. Goals(p.s) \cap BelowFloor # {} /\ BelowFloor \subseteq Speeds
            /\ "auto" \notin Speeds /\ "max" \notin Speeds /\ p.s.mode \in Modes
        BY <1>0, <1>7, FanAssumption DEF ReleaseFans, Settings
      <4> QED
        BY <4>1 DEF Goals, NeedsPwm, Modes
    <3> HIDE DEF s
    <3>4. lands /\ setting' = s => known' /\ hold' = None /\ Realised'
      BY <1>7, <3>1, <3>2, <3>3 DEF ReleaseFans, Send, Realised
    <3> QED
      BY <1>0, <1>1, <3>1, <3>2, <3>4
  <2> QED
    BY <2>1, <2>2
<1>8. CASE Stall(p)
  <2> DEFINE s == [Resumed(p) EXCEPT !.stalled = TRUE, !.last = None]
  <2>1. Conclude(p, s, FALSE)
    BY <1>8 DEF Stall
  <2>2. s.mode = p.s.mode /\ s.pwm = p.s.pwm /\ s.owned = p.s.owned
    BY <1>2 DEF Settings
  <2> HIDE DEF s
  <2> QED
    BY <1>1, <2>1, <2>2
<1>9. CASE Drive(p)
  <2>1. PICK goal \in Goals(p.s) \ BelowFloor :
          \/ SendNothing /\ Conclude(p, Resumed(p), FALSE)
          \/ \E lands \in p.writes :
               /\ Send(goal, lands)
               /\ Conclude(p, IF lands THEN [Resumed(p) EXCEPT !.last = goal]
                              ELSE Resumed(p), lands)
    BY <1>9 DEF Drive
  <2>2. CASE SendNothing /\ Conclude(p, Resumed(p), FALSE)
    BY <1>1, <1>2, <2>2
  <2>3. ASSUME NEW lands \in p.writes, Send(goal, lands),
               Conclude(p, IF lands THEN [Resumed(p) EXCEPT !.last = goal]
                           ELSE Resumed(p), lands)
        PROVE  /\ pending' = NoRequest => setting'.mode = p.s.mode /\ setting'.owned = p.s.owned
               /\ \/ <<setting.mode, setting.pwm, setting.owned>>'
                       = <<setting.mode, setting.pwm, setting.owned>>
                  \/ known' /\ hold' = None /\ Realised'
    <3> DEFINE s == IF lands THEN [Resumed(p) EXCEPT !.last = goal] ELSE Resumed(p)
    <3>1. s.mode = p.s.mode /\ s.pwm = p.s.pwm /\ s.owned = p.s.owned /\ lands \in BOOLEAN
      BY <1>0, <1>2 DEF Settings
    <3>2. Conclude(p, s, lands)
      BY <2>3
    <3> HIDE DEF s
    <3>3. lands /\ setting' = s => known' /\ hold' = None /\ Realised'
      <4> SUFFICES ASSUME lands, setting' = s PROVE known' /\ hold' = None /\ Realised'
        OBVIOUS
      <4>1. order' = goal /\ known' /\ hold' = None
        BY <1>9, <2>3 DEF Send, Drive
      <4>2. p.s.mode \in Modes
        BY <1>0 DEF Settings
      <4> QED
        BY <2>1, <3>1, <4>1, <4>2 DEF Realised, Goals, Modes
    <3> QED
      BY <1>1, <3>1, <3>2, <3>3
  <2> QED
    BY <2>1, <2>2, <2>3
<1> QED
  BY <1>3, <1>4, <1>5, <1>6, <1>7, <1>8, <1>9 DEF Branch

\* At critical heat a pass keeps the fans of a mode that commands a speed at full.
LEMMA BranchFull ==
  ASSUME TypeOK, HonestStatus, NEW p, Started(p), Branch(p), critical' = p.v.critical
  PROVE  FullAtHeat'
<1> SUFFICES ASSUME critical', NeedsPwm(setting'.mode), pending' = NoRequest, known', ~moved'
             PROVE  order' = "max"
  BY DEF FullAtHeat
<1>1. setting'.mode = p.s.mode
  BY BranchCommits
<1>2. p.v.forced = "max" /\ "max" # None
  BY <1>1 DEF Started, None
<1>3. HoldFans(p)
  BY <1>2 DEF Branch, PutBack, Watch, CannotFollow, ReleaseFans, Stall, Drive, Follows
<1>4. CASE hold = "max" /\ SendNothing /\ Conclude(p, p.s, FALSE)
  <2>1. pending = NoRequest
    BY <1>4, PassEnds DEF Started
  <2> QED
    BY <1>2, <1>4, <2>1 DEF SendNothing, HonestStatus
<1>5. ASSUME NEW lands, Send("max", lands) PROVE order' = "max"
  BY <1>5 DEF Send
<1> QED
  BY <1>2, <1>3, <1>4, <1>5 DEF HoldFans

LEMMA ToldKept == TypeOK /\ Told /\ [Next]_vars => Told'
<1> SUFFICES ASSUME TypeOK, Told, [Next]_vars PROVE Told'
  OBVIOUS
<1>1. ASSUME NEW base \in Settings, NEW wasStill \in BOOLEAN, NEW req \in Asked,
             NEW calm \in BOOLEAN, OnePass(base, wasStill, req, calm)
      PROVE  Told'
  <2>1. CASE ~Free
    <3>1. moved' /\ taken' = taken
      BY <1>1, <2>1 DEF OnePass, PassFrom, Free, Told, TakenMoved
    <3> QED
      BY <3>1 DEF Told, HonestStatus, FullAtHeat, TakenMoved
  <2>2. CASE Free
    <3>1. PICK p : Started(p) /\ Branch(p) /\ critical' = p.v.critical
      BY <1>1, <2>2, PassRuns DEF OnePass
    <3>2. HonestStatus' /\ FullAtHeat'
      BY <3>1, BranchHonest, BranchFull DEF Told
    <3>3. TakenMoved'
      BY <1>1, <2>2 DEF OnePass, Free, TakenMoved
    <3> QED
      BY <3>2, <3>3 DEF Told
  <2> QED
    BY <2>1, <2>2
<1>2. CASE Panic \/ Sleep \/ Take
  <2>1. moved'
    BY <1>2 DEF Panic, Sleep, Take
  <2> QED
    BY <2>1 DEF Told, HonestStatus, FullAtHeat, TakenMoved
<1>3. CASE GiveBack
  <2>1. moved'
    BY <1>3 DEF GiveBack, Told, TakenMoved
  <2> QED
    BY <2>1 DEF Told, HonestStatus, FullAtHeat, TakenMoved
<1>4. CASE Trip
  <2>1. UNCHANGED <<setting, pending, hold, critical, known, order, moved>> /\ taken' = "no"
    BY <1>4 DEF Trip
  <2> QED
    BY <2>1 DEF Told, HonestStatus, FullAtHeat, TakenMoved
<1>5. CASE UNCHANGED vars
  BY <1>5 DEF vars, Told, HonestStatus, FullAtHeat, TakenMoved
<1> QED
  BY <1>1, <1>2, <1>3, <1>4, <1>5, Operations DEF Passing

LEMMA ToldAtFirst == Init => Told
BY DEF Init, Told, HonestStatus, FullAtHeat, TakenMoved

\* What is on file as held, released or last written is what the fans were told, through every
\* order of guards, requests, refused writes, panics, suspends and cycles (tick_with_mode_request).
THEOREM AlwaysHonest == Spec => []HonestStatus
<1>1. Told => HonestStatus
  BY DEF Told
<1> QED
  BY <1>1, TypesAtFirst, TypesKept, ToldAtFirst, ToldKept, PTL DEF Spec

\* At critical heat the fans of a mode that commands a speed are at full, whatever the checker, a
\* stall or a lost sensor would have them do, for any temperatures and any number of guards.
THEOREM AlwaysCriticalAtFull == Spec => []CriticalAtFull
<1>1. Told => CriticalAtFull
  BY DEF Told, FullAtHeat, CriticalAtFull
<1> QED
  BY <1>1, TypesAtFirst, TypesKept, ToldAtFirst, ToldKept, PTL DEF Spec

-----------------------------------------------------------------------------
(* What a step may do.                                                      *)

\* A request that a guard or a refused write stopped leaves no trace in the mode in force.
THEOREM OnlyWhatRanIsCommitted == Spec => CommittedModeRan
<1> DEFINE Commits == \/ <<setting.mode, setting.pwm, setting.owned>>'
                           = <<setting.mode, setting.pwm, setting.owned>>
                      \/ known' /\ hold' = None /\ Realised'
                      \/ Panic
<1>1. TypeOK /\ [Next]_vars => [Commits]_vars
  <2> SUFFICES ASSUME TypeOK, Next PROVE Commits
    OBVIOUS
  <2>1. ASSUME NEW base \in Settings, NEW wasStill \in BOOLEAN, NEW req \in Asked,
               NEW calm \in BOOLEAN, OnePass(base, wasStill, req, calm)
        PROVE  Commits
    <3>1. CASE ~Free
      BY <2>1, <3>1 DEF OnePass, PassFrom, StartOn
    <3>2. CASE Free
      <4>1. PICK p : Started(p) /\ Branch(p)
        BY <2>1, <3>2, PassRuns DEF OnePass
      <4> QED
        BY <4>1, BranchCommits
    <3> QED
      BY <3>1, <3>2
  <2>2. CASE Sleep \/ Take \/ Trip
    BY <2>2 DEF Sleep, Take, Trip
  <2>3. CASE GiveBack
    BY <2>3, StartsOn, ForgetTypes DEF GiveBack
  <2> QED
    BY <2>1, <2>2, <2>3, Operations DEF Passing
<1> QED
  BY <1>1, TypesAtFirst, TypesKept, PTL DEF Spec, CommittedModeRan

\* A mode the daemon only found is not driven: its fans move into a guard's hold, or out of one
\* back to that mode, and nowhere else.
THEOREM AdoptedIsLeftAlone == Spec => AdoptedLeftAlone
<1> DEFINE Leaves == ~setting.owned /\ ~setting'.owned /\ pending' = NoRequest /\ taken' = taken
                       /\ order' # order =>
                       \/ hold' # None
                       \/ hold # None
                          /\ order' = IF NeedsPwm(setting.mode) THEN setting.pwm ELSE setting.mode
                       \/ ~known'
                       \/ Panic
                       \/ Sleep
<1>1. ASSUME TypeOK, NEW p, Started(p), Branch(p), ~setting.owned, ~setting'.owned,
             pending' = NoRequest, order' # order
      PROVE  \/ hold' # None
             \/ hold # None
                /\ order' = IF NeedsPwm(setting.mode) THEN setting.pwm ELSE setting.mode
             \/ ~known'
  <2>1. ~p.s.owned
    <3>1. setting'.owned = p.s.owned
      BY <1>1, BranchCommits
    <3> QED
      BY <1>1, <3>1
  <2>2. p.req = NoRequest
    <3>1. p.base \in Settings /\ p.req \in Asked
      BY <1>1 DEF Started, Passes
    <3>2. \A s \in Settings, req \in Requests : Tentative(s, req).owned
      BY TentativeTypes
    <3> QED
      BY <1>1, <2>1, <3>1, <3>2 DEF Started, Asked
  <2>3. p.s.mode = setting.mode /\ p.s.pwm = setting.pwm
    BY <1>1, <2>2 DEF Started, StartOn
  <2>4. HoldFans(p) \/ PutBack(p)
    BY <1>1, <2>1 DEF Branch, Watch, CannotFollow, ReleaseFans, Stall, Drive, Follows, SendNothing
  <2>5. CASE HoldFans(p)
    BY <1>1, <2>5 DEF HoldFans, Send, SendNothing
  <2>6. CASE PutBack(p)
    BY <2>3, <2>6 DEF PutBack, Send
  <2> QED
    BY <2>4, <2>5, <2>6
<1>2. TypeOK /\ [Next]_vars => [Leaves]_vars
  <2> SUFFICES ASSUME TypeOK, Next PROVE Leaves
    OBVIOUS
  <2>1. ASSUME NEW base \in Settings, NEW wasStill \in BOOLEAN, NEW req \in Asked,
               NEW calm \in BOOLEAN, OnePass(base, wasStill, req, calm)
        PROVE  Leaves
    <3>1. CASE ~Free
      BY <2>1, <3>1 DEF OnePass, PassFrom
    <3>2. CASE Free
      <4>1. PICK p : Started(p) /\ Branch(p)
        BY <2>1, <3>2, PassRuns DEF OnePass
      <4> QED
        BY <1>1, <4>1
    <3> QED
      BY <3>1, <3>2
  <2>2. CASE Take \/ GiveBack \/ Trip
    BY <2>2 DEF Take, GiveBack, Trip
  <2> QED
    BY <2>1, <2>2, Operations DEF Passing
<1> QED
  BY <1>2, TypesAtFirst, TypesKept, PTL DEF Spec, AdoptedLeftAlone
=============================================================================
