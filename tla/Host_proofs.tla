----------------------------- MODULE Host_proofs -----------------------------
(***************************************************************************)
(* Three parts of the daemon that share no state, for any number of         *)
(* connections, threads and modes: one thread at most has the keyboards,    *)
(* neither a signal nor a hand-over ends the process with the hardware in   *)
(* its hands, and a mode picked by hand is a ceiling for the switcher.      *)
(***************************************************************************)
EXTENDS MCHost, TLAPS

(***************************************************************************)
(* The remapping worker.                                                    *)
(***************************************************************************)

Busy == {"opening", "forwarding", "leaving"}
Driving == {"forwarding", "leaving"}

\* One busy thread, and what the flags say of any threads ws.
OneBusy(ws) == \A v, w \in Workers : ws[v] \in Busy /\ ws[w] \in Busy => v = w
OpeningSaid(ws, flag) == flag <=> \E w \in Workers : ws[w] = "opening"
DrivingSaid(ws, flag) == flag <=> \E w \in Workers : ws[w] \in Driving

\* OneWorker with the types, thread by thread.
WorkerKnown ==
  /\ KeymapTypes
  /\ OneBusy(worker) /\ OpeningSaid(worker, starting) /\ DrivingSaid(worker, remapping)

LEMMA KeymapTypesAtFirst == KeymapInit => KeymapTypes
  BY DEF KeymapInit, KeymapTypes

\* What start makes of threads of which one, w0, is on its way out and busy no more.
LEMMA StartKept ==
  ASSUME NEW ws \in [Workers -> {"none", "opening", "forwarding", "leaving", "again"}],
         starting \in BOOLEAN, remapping \in BOOLEAN, stop \in BOOLEAN,
         OneBusy(ws), OpeningSaid(ws, starting), DrivingSaid(ws, remapping),
         Start(ws)
  PROVE  /\ starting' \in BOOLEAN /\ stop' \in BOOLEAN
         /\ worker' \in [Workers -> {"none", "opening", "forwarding", "leaving", "again"}]
         /\ OneBusy(worker') /\ OpeningSaid(worker', starting') /\ DrivingSaid(worker', remapping)
<1>1. CASE worker' = ws /\ UNCHANGED starting /\ stop' \in BOOLEAN
  BY <1>1
<1>2. ASSUME ~remapping, ~starting, stop' = FALSE, starting' = TRUE,
             NEW w \in Workers, worker' = [ws EXCEPT ![w] = "opening"]
      PROVE  /\ worker' \in [Workers -> {"none", "opening", "forwarding", "leaving", "again"}]
             /\ OneBusy(worker') /\ OpeningSaid(worker', starting') /\ DrivingSaid(worker', remapping)
  <2>1. \A v \in Workers : ws[v] \notin Busy
    BY <1>2 DEF OpeningSaid, DrivingSaid, Busy, Driving
  <2>2. \A v \in Workers : worker'[v] = IF v = w THEN "opening" ELSE ws[v]
    BY <1>2
  <2> QED
    BY <1>2, <2>1, <2>2 DEF OneBusy, OpeningSaid, DrivingSaid, Busy, Driving
<1> QED
  BY <1>1, <1>2 DEF Start

LEMMA WorkerKnownAtFirst == KeymapInit => WorkerKnown
<1> SUFFICES ASSUME KeymapInit PROVE WorkerKnown
  OBVIOUS
<1>1. PICK first \in Workers :
        worker = [w \in Workers |-> IF w = first /\ enabled THEN "opening" ELSE "none"]
  BY DEF KeymapInit
<1>2. starting = enabled /\ remapping = FALSE /\ enabled \in BOOLEAN
  BY DEF KeymapInit
<1> QED
  BY <1>1, <1>2, KeymapTypesAtFirst
     DEF WorkerKnown, OneBusy, OpeningSaid, DrivingSaid, Busy, Driving

\* A call by a client, or a step of a thread.
LEMMA WorkerKnownKept == WorkerKnown /\ [KeymapNext]_keymapVars => WorkerKnown'
<1> SUFFICES ASSUME WorkerKnown, [KeymapNext]_keymapVars
             PROVE  WorkerKnown'
  OBVIOUS
<1> USE DEF WorkerKnown
<1>1. ASSUME NEW c \in Callers, NEW wish \in BOOLEAN, SetEnabled(c, wish)
      PROVE  WorkerKnown'
  BY <1>1 DEF SetEnabled, KeymapTypes, OneBusy, OpeningSaid, DrivingSaid
<1>2. ASSUME NEW c \in Callers, CallStart(c)
      PROVE  WorkerKnown'
  <2>1. /\ starting' \in BOOLEAN /\ stop' \in BOOLEAN
        /\ worker' \in [Workers -> {"none", "opening", "forwarding", "leaving", "again"}]
        /\ OneBusy(worker') /\ OpeningSaid(worker', starting') /\ DrivingSaid(worker', remapping)
    BY <1>2, StartKept DEF CallStart, KeymapTypes
  <2> QED
    BY <1>2, <2>1 DEF CallStart, KeymapTypes, OneBusy, OpeningSaid, DrivingSaid
<1>3. ASSUME NEW c \in Callers, CallStop(c)
      PROVE  WorkerKnown'
  BY <1>3 DEF CallStop, KeymapTypes, OneBusy, OpeningSaid, DrivingSaid
<1>4. ASSUME NEW w \in Workers, CannotRun(w)
      PROVE  WorkerKnown'
  <2>1. \A v \in Workers : worker'[v] = IF v = w THEN "none" ELSE worker[v]
    BY <1>4 DEF CannotRun, KeymapTypes
  <2>2. KeymapTypes'
    BY <1>4 DEF CannotRun, KeymapTypes
  <2> QED
    BY <1>4, <2>1, <2>2 DEF CannotRun, OneBusy, OpeningSaid, DrivingSaid, Busy, Driving
<1>5. ASSUME NEW w \in Workers, TakeKeyboards(w)
      PROVE  WorkerKnown'
  <2>1. \A v \in Workers : worker'[v] = IF v = w THEN "forwarding" ELSE worker[v]
    BY <1>5 DEF TakeKeyboards, KeymapTypes
  <2>2. KeymapTypes'
    BY <1>5 DEF TakeKeyboards, KeymapTypes
  <2> QED
    BY <1>5, <2>1, <2>2 DEF TakeKeyboards, OneBusy, OpeningSaid, DrivingSaid, Busy, Driving
<1>6. ASSUME NEW w \in Workers, SeeStop(w)
      PROVE  WorkerKnown'
  <2>1. \A v \in Workers : worker'[v] = IF v = w THEN "leaving" ELSE worker[v]
    BY <1>6 DEF SeeStop, KeymapTypes
  <2>2. KeymapTypes'
    BY <1>6 DEF SeeStop, KeymapTypes
  <2> QED
    BY <1>6, <2>1, <2>2 DEF SeeStop, OneBusy, OpeningSaid, DrivingSaid, Busy, Driving
<1>7. ASSUME NEW w \in Workers, FinishRun(w)
      PROVE  WorkerKnown'
  <2>1. PICK to \in {"again", "none"} : worker' = [worker EXCEPT ![w] = to]
    BY <1>7 DEF FinishRun
  <2>2. \A v \in Workers : worker'[v] = IF v = w THEN to ELSE worker[v]
    BY <2>1 DEF KeymapTypes
  <2>3. KeymapTypes'
    BY <1>7, <2>1 DEF FinishRun, KeymapTypes
  <2> QED
    BY <1>7, <2>2, <2>3 DEF FinishRun, OneBusy, OpeningSaid, DrivingSaid, Busy, Driving
<1>8. ASSUME NEW w \in Workers, StartAgain(w)
      PROVE  WorkerKnown'
  <2> DEFINE ws == [worker EXCEPT ![w] = "none"]
  <2>1. ws \in [Workers -> {"none", "opening", "forwarding", "leaving", "again"}]
    BY DEF KeymapTypes
  <2>2. \A v \in Workers : ws[v] = IF v = w THEN "none" ELSE worker[v]
    BY DEF KeymapTypes
  <2>3. OneBusy(ws) /\ OpeningSaid(ws, starting) /\ DrivingSaid(ws, remapping)
    BY <1>8, <2>2 DEF StartAgain, OneBusy, OpeningSaid, DrivingSaid, Busy, Driving
  <2>4. Start(ws)
    BY <1>8 DEF StartAgain
  <2> HIDE DEF ws
  <2>5. /\ starting' \in BOOLEAN /\ stop' \in BOOLEAN
        /\ worker' \in [Workers -> {"none", "opening", "forwarding", "leaving", "again"}]
        /\ OneBusy(worker') /\ OpeningSaid(worker', starting') /\ DrivingSaid(worker', remapping)
    BY <2>1, <2>3, <2>4, StartKept DEF KeymapTypes
  <2> QED
    BY <1>8, <2>5 DEF StartAgain, KeymapTypes, OneBusy, OpeningSaid, DrivingSaid
<1>9. CASE UNCHANGED keymapVars
  BY <1>9 DEF keymapVars, KeymapTypes, OneBusy, OpeningSaid, DrivingSaid
<1> QED
  BY <1>1, <1>2, <1>3, <1>4, <1>5, <1>6, <1>7, <1>8, <1>9
     DEF KeymapNext, WorkerStep, CallerStep

LEMMA KnownIsOneWorker == WorkerKnown => OneWorker
  BY DEF WorkerKnown, KeymapTypes, OneWorker, At, OneBusy, OpeningSaid, DrivingSaid, Busy, Driving

\* However the calls to setEnabled cross with each other and with a thread that comes up or
\* goes down, one thread at most has the keyboards, and the flags say which (start, run).
THEOREM OneWorkerAlways == KeymapSpec => []OneWorker
  BY WorkerKnownAtFirst, WorkerKnownKept, KnownIsOneWorker, PTL DEF KeymapSpec

(***************************************************************************)
(* The end of the process.                                                  *)
(***************************************************************************)

\* The signals are blocked while the modules may exist; a thread that is about to end the
\* process has released the hardware first, and those threads start after the modules.  Main,
\* which exits when its socket fails, keeps nothing of the kind.
HandsKnown ==
  /\ process \in {"settling", "building", "serving", "gone"}
  /\ process \in {"building", "serving"} => masked
  /\ open => watcher = "exec"
  /\ watcher \in {"unblocking", "exec"} => ~driven
  /\ signals = "exiting" => ~driven
  /\ process \in {"settling", "gone"} => ~driven
  /\ process # "serving" => signals = "none" /\ watcher = "none"

LEMMA HandsKnownAtFirst == LifecycleInit => HandsKnown
  BY DEF LifecycleInit, HandsKnown

LEMMA HandsKnownKept == HandsKnown /\ [LifecycleNext]_lifecycleVars => HandsKnown'
<1> SUFFICES ASSUME HandsKnown, [LifecycleNext]_lifecycleVars
             PROVE  HandsKnown'
  OBVIOUS
<1> USE DEF HandsKnown
<1>1. CASE BlockTermination
  BY <1>1 DEF BlockTermination
<1>2. CASE BuildModules
  BY <1>2 DEF BuildModules
<1>3. CASE Serve
  BY <1>3 DEF Serve
<1>4. CASE Terminate \/ Catch
  BY <1>4 DEF Terminate, Catch
<1>5. CASE Deliver \/ GiveUpClaim \/ LoseSocket
  BY <1>5 DEF Deliver, GiveUpClaim, LoseSocket, End
<1>6. CASE LeaveOnSignal \/ ReleaseOnSignal
  BY <1>6 DEF LeaveOnSignal, ReleaseOnSignal
<1>7. CASE ExitOnSignal
  BY <1>7 DEF ExitOnSignal, End
<1>8. CASE SomebodyElse \/ LeaveForUser \/ ReleaseForUser \/ Unblock
  BY <1>8 DEF SomebodyElse, LeaveForUser, ReleaseForUser, Unblock
<1>9. CASE Exec
  BY <1>9 DEF Exec, End, NewProcess
<1>10. CASE StartService
  BY <1>10 DEF StartService, NewProcess
<1>11. CASE UNCHANGED lifecycleVars
  BY <1>11 DEF lifecycleVars
<1> QED
  BY <1>1, <1>2, <1>3, <1>4, <1>5, <1>6, <1>7, <1>8, <1>9, <1>10, <1>11 DEF LifecycleNext

\* A step that ends or replaces the process finds the hardware released, or is main's.
LEMMA EndingReleased ==
  HandsKnown /\ [LifecycleNext]_lifecycleVars =>
    [process # process' /\ process' \in {"gone", "settling"}
       => ~driven \/ endedBy' = "socket"]_lifecycleVars
<1> SUFFICES ASSUME HandsKnown, [LifecycleNext]_lifecycleVars,
                    process # process', process' \in {"gone", "settling"}
             PROVE  ~driven \/ endedBy' = "socket"
  OBVIOUS
<1> USE DEF HandsKnown
<1>1. CASE BlockTermination \/ BuildModules \/ Serve \/ Terminate \/ Catch
  BY <1>1 DEF BlockTermination, BuildModules, Serve, Terminate, Catch
<1>2. CASE Deliver \/ ExitOnSignal \/ Exec \/ GiveUpClaim \/ StartService
  BY <1>2 DEF Deliver, ExitOnSignal, Exec, GiveUpClaim, StartService
<1>5. CASE LoseSocket
  BY <1>5 DEF LoseSocket, End
<1>3. CASE LeaveOnSignal \/ ReleaseOnSignal \/ SomebodyElse \/ LeaveForUser
             \/ ReleaseForUser \/ Unblock
  BY <1>3 DEF LeaveOnSignal, ReleaseOnSignal, SomebodyElse, LeaveForUser, ReleaseForUser, Unblock
<1>4. CASE UNCHANGED lifecycleVars
  BY <1>4 DEF lifecycleVars
<1> QED
  BY <1>1, <1>2, <1>3, <1>4, <1>5 DEF LifecycleNext

\* However a stop and a change of user cross, neither ends or replaces the process with the
\* hardware still in its hands (main.rs, try_leave and the signal mask).  The one end that may
\* is main's own, when the socket fails: it exits without a release.
THEOREM HardwareReleasedAtEnd == LifecycleSpec => EndsReleased
<1>1. LifecycleSpec => []HandsKnown
  BY HandsKnownAtFirst, HandsKnownKept, PTL DEF LifecycleSpec
<1> QED
  BY <1>1, EndingReleased, PTL DEF LifecycleSpec, EndsReleased

(***************************************************************************)
(* The switcher.                                                            *)
(***************************************************************************)

Outcomes == [switcher : SwitcherState, go : Decisions]
Readings == [source : Sources \cup {NoSource}, load : LoadBands,
             heat : {"hot", "between", "cool"}, lowBattery : BOOLEAN]

\* The modes are numbers, and what is preferred is one of them.
LEMMA ModesAreNumbers ==
  ASSUME auto \in AutoConfigs, NEW src \in Sources \cup {NoSource}
  PROVE  /\ PowerModes = 0..3 /\ NoMode \notin PowerModes
         /\ Floor(src) \in PowerModes /\ Ceiling(src) \in PowerModes
         /\ Preferred(src) \in PowerModes
         /\ src = "battery" => Floor(src) = 0
         /\ SystemEnabled(src) \in BOOLEAN /\ auto.backOff \in BOOLEAN
         /\ auto.enabled \in BOOLEAN
  BY AutoAssumption
     DEF AutoConfigType, PowerModes, NoMode, Floor, Ceiling, Preferred, SystemEnabled, Eco,
         Balanced, Performance, Unlimited

LEMMA ResetKept ==
  ASSUME NEW s \in SwitcherState
  PROVE  /\ Reset(s) \in SwitcherState
         /\ Reset(s).manual = s.manual /\ Reset(s).source = s.source
         /\ Reset(s).deferred = s.deferred /\ Reset(s).hot = s.hot
<1>1. 0 \in 0..SamplesToSwitch - 1
  BY AutoAssumption
<1> QED
  BY <1>1 DEF SwitcherState, Reset

\* One step down and one up stay among the modes and move the way their names say.
LEMMA StepsAreSteps ==
  ASSUME NEW mode \in PowerModes, NEW floor \in PowerModes, NEW ceiling \in PowerModes
  PROVE  /\ StepDown(mode, floor) \in PowerModes /\ StepDown(mode, floor) <= mode
         /\ StepUp(mode, ceiling) \in PowerModes
         /\ Lower(mode, floor) \in PowerModes /\ Lower(mode, floor) <= mode
  BY DEF PowerModes, Eco, Unlimited, StepDown, StepUp, Lower

\* Conditions point to a mode, and never above one that was picked by hand unless it is heat
\* that speaks.
LEMMA RefineBounded ==
  ASSUME auto \in AutoConfigs, NEW s \in SwitcherState, NEW in \in Readings,
         NEW mode \in PowerModes
  PROVE  /\ Refine(s, in, mode) \in Decisions
         /\ ByHand(s, in.source) /\ Refine(s, in, mode).why = "refined"
              => Refine(s, in, mode).mode <= s.manual
<1> DEFINE src == in.source
           home == Baseline(s, src)
           below == StepDown(home, Floor(src))
           above == IF ByHand(s, src) THEN home ELSE StepUp(home, Ceiling(src))
           To(to, why) == [mode |-> to, why |-> why]
           r == Refine(s, in, mode)
<1>1. src \in Sources \cup {NoSource} /\ in.load \in LoadBands /\ in.lowBattery \in BOOLEAN
  BY DEF Readings
<1>2. /\ PowerModes = 0..3 /\ NoMode \notin PowerModes
      /\ Floor(src) \in PowerModes /\ Ceiling(src) \in PowerModes /\ Preferred(src) \in PowerModes
      /\ src = "battery" => Floor(src) = 0
  BY <1>1, ModesAreNumbers
<1>3. home \in PowerModes /\ (ByHand(s, src) => home = s.manual)
  BY <1>2 DEF Baseline, ByHand, SwitcherState
<1>4. /\ below \in PowerModes /\ below <= home /\ above \in PowerModes
      /\ ByHand(s, src) => above = home
      /\ Lower(below, mode) \in PowerModes
      /\ Lower(Floor(src), mode) \in PowerModes /\ Lower(Floor(src), mode) <= Floor(src)
  <2> HIDE DEF home, src
  <2> QED
    BY <1>2, <1>3, StepsAreSteps
<1>5. \/ r = To(Lower(below, mode), "heat")
      \/ src = "battery" /\ r = To(Lower(Floor(src), mode), "refined")
      \/ ~ByHand(s, src) /\ r = To(Floor(src), "refined")
      \/ ~ByHand(s, src) /\ r = To(Ceiling(src), "refined")
      \/ r = To(above, "refined")
      \/ r = To(below, "refined")
      \/ r = To(home, "refined")
      \/ r = Stay
  BY DEF Refine
<1> HIDE DEF r, src, home, below, above
<1>6. r \in Decisions
  BY <1>2, <1>3, <1>4, <1>5 DEF Decisions
<1>7. ASSUME ByHand(s, src), r.why = "refined" PROVE r.mode <= s.manual
  <2>1. s.manual \in 0..3
    BY <1>2, <1>3, <1>7
  <2> QED
    BY <1>2, <1>3, <1>4, <1>5, <1>7, <2>1 DEF Stay
<1> QED
  BY <1>6, <1>7 DEF r, src

\* What the decision is about stays: the source believed in and the mode picked by hand.
Faithful(s, r) == r.switcher.manual = s.manual /\ r.switcher.source = s.source
Ceilinged(s, in, r) ==
  ByHand(s, in.source) /\ r.go.why = "refined" => r.go.mode <= s.manual

LEMMA QuietKept ==
  ASSUME NEW s \in SwitcherState, NEW in
  PROVE  Quiet(s) \in Outcomes /\ Faithful(s, Quiet(s)) /\ Ceilinged(s, in, Quiet(s))
  BY ResetKept DEF Quiet, Outcomes, Decisions, Faithful, Ceilinged, Stay

LEMMA RefinementBounded ==
  ASSUME auto \in AutoConfigs, NEW s \in SwitcherState, NEW in \in Readings,
         NEW mode \in PowerModes
  PROVE  /\ Refinement(s, in, mode) \in Outcomes
         /\ Faithful(s, Refinement(s, in, mode)) /\ Ceilinged(s, in, Refinement(s, in, mode))
<1> DEFINE to == Refine(s, in, mode)
           count == IF s.pending = to.mode THEN s.count + 1 ELSE 1
           r == Refinement(s, in, mode)
<1>1. /\ to \in Decisions
      /\ ByHand(s, in.source) /\ to.why = "refined" => to.mode <= s.manual
  BY RefineBounded
<1>2. CASE r = Quiet(s)
  BY <1>2, QuietKept
<1>3. CASE r = [switcher |-> Reset(s), go |-> to]
  BY <1>1, <1>3, ResetKept DEF Outcomes, Faithful, Ceilinged
<1>4. CASE /\ ~Enough(count) /\ to # Stay
           /\ r = [switcher |-> [s EXCEPT !.pending = to.mode, !.count = count], go |-> Stay]
  <2>1. to.mode \in PowerModes
    BY <1>1, <1>4 DEF Decisions
  <2>2. s.count \in Nat /\ SamplesToSwitch \in Nat
    BY AutoAssumption DEF SwitcherState
  <2>3. count \in 0..SamplesToSwitch - 1
    BY <1>4, <2>2 DEF Enough
  <2> DEFINE next == [s EXCEPT !.pending = to.mode, !.count = count]
  <2> HIDE DEF to, count
  <2>4. next \in SwitcherState /\ next.manual = s.manual /\ next.source = s.source
    BY <2>1, <2>3 DEF SwitcherState
  <2>5. r = [switcher |-> next, go |-> Stay]
    BY <1>4
  <2> HIDE DEF next, r
  <2>6. r \in Outcomes /\ Faithful(s, r) /\ Ceilinged(s, in, r)
    BY <2>4, <2>5 DEF Outcomes, Decisions, Faithful, Ceilinged, Stay
  <2> QED
    BY <2>6 DEF r
<1>5. \/ r = Quiet(s)
      \/ r = [switcher |-> Reset(s), go |-> to]
      \/ /\ ~Enough(count) /\ to # Stay
         /\ r = [switcher |-> [s EXCEPT !.pending = to.mode, !.count = count], go |-> Stay]
  BY DEF Refinement
<1> QED
  BY <1>2, <1>3, <1>4, <1>5

LEMMA TransitionBounded ==
  ASSUME auto \in AutoConfigs, NEW s \in SwitcherState, NEW in \in Readings,
         NEW mode \in PowerModes, s.deferred # NoSource
  PROVE  /\ Transition(s, in.source, mode) \in Outcomes
         /\ Faithful(s, Transition(s, in.source, mode))
         /\ Ceilinged(s, in, Transition(s, in.source, mode))
<1> DEFINE done == [s EXCEPT !.deferred = NoSource]
           gone == [done EXCEPT !.gap = TRUE]
           r == Transition(s, in.source, mode)
<1>1. /\ done \in SwitcherState /\ done.manual = s.manual /\ done.source = s.source
      /\ gone \in SwitcherState /\ gone.manual = s.manual /\ gone.source = s.source
  BY DEF SwitcherState
<1>2. Preferred(s.deferred) \in PowerModes
  BY ModesAreNumbers DEF SwitcherState
<1>3. \/ r = [switcher |-> done, go |-> Stay]
      \/ r = [switcher |-> s, go |-> Stay]
      \/ r = [switcher |-> gone, go |-> [mode |-> Preferred(s.deferred), why |-> "transition"]]
  BY DEF Transition, HeldBack
<1> HIDE DEF done, gone, r
<1>4. r \in Outcomes /\ Faithful(s, r) /\ Ceilinged(s, in, r)
  BY <1>1, <1>2, <1>3 DEF Outcomes, Decisions, Faithful, Ceilinged, Stay
<1> QED
  BY <1>4 DEF r

\* The switcher believes in the source it reads, or has just been told a first one.
LEMMA ObservedBounded ==
  ASSUME auto \in AutoConfigs, NEW s0 \in SwitcherState, NEW in \in Readings,
         NEW mode \in PowerModes
  PROVE  /\ ObservedAt(s0, in, mode) \in Outcomes
         /\ s0.source \in {NoSource, in.source}
              => /\ ObservedAt(s0, in, mode).switcher.manual = s0.manual
                 /\ ObservedAt(s0, in, mode).switcher.source \in {NoSource, in.source}
                 /\ Ceilinged(s0, in, ObservedAt(s0, in, mode))
<1> DEFINE s == [s0 EXCEPT !.hot = Latched(@, in.heat)]
           src == in.source
           news == s.source \notin {NoSource, src}
           t == IF news THEN Confirmed(s, src)
                ELSE IF s.source = NoSource THEN [s EXCEPT !.source = src]
                ELSE [s EXCEPT !.unconfirmed = NoSource]
           u == [s EXCEPT !.unconfirmed = src]
           r == ObservedAt(s0, in, mode)
<1>1. src \in Sources \cup {NoSource} /\ in.heat \in {"hot", "between", "cool"}
  BY DEF Readings
<1>2. Latched(s0.hot, in.heat) \in BOOLEAN
  BY <1>1 DEF Latched, SwitcherState
<1>3. s \in SwitcherState /\ s.manual = s0.manual /\ s.source = s0.source
  BY <1>2 DEF SwitcherState
<1>4. u \in SwitcherState /\ u.manual = s0.manual /\ u.source = s0.source
  <2> HIDE DEF s, src
  <2> QED
    BY <1>1, <1>3 DEF SwitcherState
<1>5. Confirmed(s, src) \in SwitcherState
  <2> HIDE DEF s, src
  <2>1. Reset(s) \in SwitcherState
    BY <1>3, ResetKept
  <2> QED
    BY <1>1, <2>1 DEF Confirmed, SwitcherState
<1>6. /\ t \in SwitcherState
      /\ ~news => t.manual = s0.manual /\ t.source \in {NoSource, src}
  <2> HIDE DEF s, src
  <2> QED
    BY <1>1, <1>3, <1>5 DEF SwitcherState
<1>7. \/ r = Refinement(s, in, mode) /\ src = NoSource
      \/ r = [switcher |-> u, go |-> Stay] /\ news
      \/ t.deferred # NoSource /\ r = Transition(t, src, mode)
      \/ r = Refinement(t, in, mode)
  BY DEF ObservedAt
<1>8. news <=> s0.source \notin {NoSource, in.source}
  BY <1>3
<1>9. \A v \in SwitcherState : v.manual = s0.manual => (ByHand(v, in.source) <=> ByHand(s0, in.source))
  BY DEF ByHand
<1> HIDE DEF t, s, u, r, news
<1>10. CASE r = Refinement(s, in, mode)
  BY <1>3, <1>9, <1>10, RefinementBounded DEF Faithful, Ceilinged, r
<1>11. CASE r = [switcher |-> u, go |-> Stay] /\ news
  BY <1>4, <1>8, <1>11 DEF Outcomes, Decisions, Stay, r
<1>12. CASE t.deferred # NoSource /\ r = Transition(t, src, mode)
  BY <1>6, <1>8, <1>9, <1>12, TransitionBounded DEF Faithful, Ceilinged, r
<1>13. CASE r = Refinement(t, in, mode)
  BY <1>6, <1>8, <1>9, <1>13, RefinementBounded DEF Faithful, Ceilinged, r
<1> QED
  BY <1>7, <1>10, <1>11, <1>12, <1>13

\* The mode last picked by hand is the one the switcher goes by, once its client has told it,
\* and nothing it believes of the cable can make it forget.
PickStands ==
  picked # NoMode /\ ~early =>
    /\ switcher.source \in {NoSource, cable}
    /\ \A c \in Choosers : adopting[c] \in {NoMode, picked}
    /\ ~Adopting => switcher.manual = picked

SwitcherKnown == SwitcherTypes /\ PickStands

LEMMA SwitcherKnownAtFirst == AutoInit => SwitcherKnown
<1> SUFFICES ASSUME AutoInit PROVE SwitcherKnown
  OBVIOUS
<1>1. 0 \in 0..SamplesToSwitch - 1
  BY AutoAssumption
<1>2. switcher \in SwitcherState
  BY <1>1 DEF AutoInit, FreshSwitcher, SwitcherState
<1> QED
  BY <1>2 DEF SwitcherTypes, AutoInit, SwitcherKnown, PickStands, Decisions

\* What one sample makes of the switcher, paused or not.
LEMMA TickBounded ==
  ASSUME SwitcherKnown, Tick
  PROVE  /\ switcher' \in SwitcherState /\ held' \in Decisions
         /\ switcher.source \in {NoSource, cable}
              => /\ switcher'.manual = switcher.manual
                 /\ switcher'.source \in {NoSource, cable}
                 /\ (ByHand(switcher, cable) /\ held'.why = "refined")
                      => held'.mode <= switcher.manual
<1> USE DEF SwitcherKnown
<1>1. PICK in \in Samples :
        LET r == Unpaused(ObservedAt(switcher, in, inForce))
        IN  switcher' = r.switcher /\ held' = r.go
  BY DEF Tick
<1>2. in \in Readings /\ in.source = cable
  BY AutoAssumption DEF SwitcherTypes, Samples, Readings
<1> DEFINE o == ObservedAt(switcher, in, inForce)
<1>3. /\ o \in Outcomes
      /\ switcher.source \in {NoSource, cable}
           => /\ o.switcher.manual = switcher.manual
              /\ o.switcher.source \in {NoSource, cable}
              /\ Ceilinged(switcher, in, o)
  BY <1>2, ObservedBounded DEF SwitcherTypes
<1>4. /\ switcher' = Unpaused(o).switcher /\ held' = Unpaused(o).go
      /\ Unpaused(o) = o \/ Unpaused(o) = Quiet(o.switcher)
  BY <1>1 DEF Unpaused
<1> HIDE DEF o
<1>5. o.switcher \in SwitcherState /\ o.go \in Decisions
  BY <1>3 DEF Outcomes
<1>6. CASE Unpaused(o) = o
  BY <1>2, <1>3, <1>4, <1>5, <1>6 DEF Ceilinged
<1>7. CASE Unpaused(o) = Quiet(o.switcher)
  BY <1>3, <1>4, <1>5, <1>7, ResetKept DEF Quiet, Decisions, Stay
<1> QED
  BY <1>4, <1>6, <1>7

LEMMA SwitcherKnownKept == SwitcherKnown /\ [AutoNext]_autoVars => SwitcherKnown'
<1> SUFFICES ASSUME SwitcherKnown, [AutoNext]_autoVars
             PROVE  SwitcherKnown'
  OBVIOUS
<1> USE DEF SwitcherKnown
<1>0. /\ switcher \in SwitcherState /\ auto \in AutoConfigs /\ inForce \in PowerModes
      /\ paused \in BOOLEAN /\ cable \in Sources \cup {NoSource} /\ held \in Decisions
      /\ adopting \in [Choosers -> PowerModes \cup {NoMode}]
      /\ picked \in PowerModes \cup {NoMode} /\ early \in BOOLEAN
  BY DEF SwitcherTypes
<1>a. NoMode \notin PowerModes /\ Picks \subseteq PowerModes
  BY AutoAssumption DEF PowerModes, NoMode, Eco, Unlimited
<1>b. ASSUME NEW mode \in PowerModes \cup {NoMode}
      PROVE  /\ AdoptPick(switcher, mode) \in SwitcherState
             /\ AdoptPick(switcher, mode).manual = mode
             /\ AdoptPick(switcher, mode).source = switcher.source
  BY <1>0, ResetKept DEF AdoptPick, SwitcherState
<1>1. CASE Tick
  BY <1>0, <1>1, TickBounded DEF SwitcherTypes, Tick, PickStands, Adopting
<1>2. CASE Apply
  BY <1>0, <1>2 DEF SwitcherTypes, Apply, PickStands, Adopting, Decisions, Stay
<1>3. ASSUME NEW c \in Choosers, NEW mode \in Picks, Choose(c, mode)
      PROVE  SwitcherKnown'
  <2>1. /\ switcher' \in SwitcherState /\ switcher'.source = switcher.source
        /\ switcher'.manual = switcher.manual
    BY <1>0, <1>3, ResetKept DEF Choose
  <2>2. CASE UNCHANGED <<inForce, adopting, picked, early>>
    BY <1>0, <1>3, <2>1, <2>2 DEF SwitcherTypes, Choose, PickStands, Adopting
  <2>3. CASE inForce' = mode /\ adopting' = [adopting EXCEPT ![c] = mode] /\ Pick(mode)
    <3>1. \A d \in Choosers : adopting'[d] = IF d = c THEN mode ELSE adopting[d]
      BY <1>0, <2>3
    <3>2. SwitcherTypes'
      BY <1>0, <1>3, <1>a, <2>1, <2>3 DEF SwitcherTypes, Choose, Pick
    <3>3. PickStands'
      BY <1>3, <1>a, <2>1, <2>3, <3>1 DEF Choose, PickStands, Pick, Adopting
    <3> QED
      BY <3>2, <3>3
  <2> QED
    BY <1>3, <2>2, <2>3 DEF Choose
<1>4. ASSUME NEW c \in Choosers, AdoptChoice(c)
      PROVE  SwitcherKnown'
  <2>1. /\ switcher' \in SwitcherState /\ switcher'.source = switcher.source
        /\ switcher'.manual = adopting[c]
    BY <1>0, <1>4, <1>b DEF AdoptChoice
  <2>2. \A d \in Choosers : adopting'[d] = IF d = c THEN NoMode ELSE adopting[d]
    BY <1>0, <1>4 DEF AdoptChoice
  <2>3. SwitcherTypes'
    BY <1>0, <1>4, <2>1 DEF SwitcherTypes, AdoptChoice
  <2>4. PickStands'
    BY <1>4, <2>1, <2>2 DEF AdoptChoice, PickStands, Adopting
  <2> QED
    BY <2>3, <2>4
<1>5. ASSUME NEW new \in AutoConfigs, SetAutoConfig(new)
      PROVE  SwitcherKnown'
  <2>1. FreshSwitcher \in SwitcherState
    BY AutoAssumption DEF FreshSwitcher, SwitcherState
  <2> QED
    BY <1>0, <1>5, <2>1, ResetKept DEF SwitcherTypes, SetAutoConfig, PickStands, Adopting
<1>6. ASSUME NEW mode \in Picks, Follow(mode)
      PROVE  SwitcherKnown'
  BY <1>0, <1>6, <1>a, <1>b DEF SwitcherTypes, Follow, Pick, PickStands, Adopting
<1>7. CASE MoveCable \/ PauseEnds
  BY <1>0, <1>7 DEF SwitcherTypes, MoveCable, PauseEnds, PickStands, Adopting
<1>8. CASE GapEnds
  <2>1. /\ switcher' \in SwitcherState /\ switcher'.source = switcher.source
        /\ switcher'.manual = switcher.manual
    BY <1>0, <1>8 DEF GapEnds, SwitcherState
  <2> QED
    BY <1>0, <1>8, <2>1 DEF SwitcherTypes, GapEnds, PickStands, Adopting
<1>9. CASE UNCHANGED autoVars
  BY <1>9 DEF autoVars, SwitcherTypes, PickStands, Adopting
<1> QED
  BY <1>1, <1>2, <1>3, <1>4, <1>5, <1>6, <1>7, <1>8, <1>9 DEF AutoNext

LEMMA TickUnderPick ==
  SwitcherKnown /\ [AutoNext]_autoVars =>
    [(Tick /\ held'.why = "refined" /\ picked \notin {NoMode, Preferred(cable)}
       /\ ~early /\ ~Adopting)
      => held'.mode <= picked]_autoVars
<1> SUFFICES ASSUME SwitcherKnown, Tick, held'.why = "refined",
                    picked \notin {NoMode, Preferred(cable)}, ~early, ~Adopting
             PROVE  held'.mode <= picked
  OBVIOUS
<1>1. switcher.source \in {NoSource, cable} /\ switcher.manual = picked
  BY DEF SwitcherKnown, PickStands
<1>2. ByHand(switcher, cable)
  BY <1>1 DEF ByHand
<1> QED
  BY <1>1, <1>2, TickBounded

\* The types hold for any clients, configurations and number of samples.
THEOREM SwitcherTypesAlways == AutoSpec => []SwitcherTypes
<1>1. SwitcherKnown => SwitcherTypes
  BY DEF SwitcherKnown
<1> QED
  BY <1>1, SwitcherKnownAtFirst, SwitcherKnownKept, PTL DEF AutoSpec

\* No refinement is decided above a mode picked by hand, however its pick, its adoption, the
\* cable, the pause and the supervisor's two locks cross, and however many decisions have been
\* applied since the pick (the doc of refine, rule 4).
THEOREM PickIsACeiling == AutoSpec => NeverAbovePick
<1>1. AutoSpec => []SwitcherKnown
  BY SwitcherKnownAtFirst, SwitcherKnownKept, PTL DEF AutoSpec
<1> QED
  BY <1>1, TickUnderPick, PTL DEF AutoSpec, NeverAbovePick

(***************************************************************************)
(* The three parts side by side, as the run has them.                       *)
(***************************************************************************)

\* What each part keeps it keeps beside the others, which do not move while it does.
HostKnown == SwitcherKnown /\ WorkerKnown /\ HandsKnown

LEMMA PartsOfHost ==
  [ServicesNext]_allVars =>
    [AutoNext]_autoVars /\ [KeymapNext]_keymapVars /\ [LifecycleNext]_lifecycleVars
  BY DEF ServicesNext, allVars

LEMMA HostAlwaysKnown == ServicesSpec => []HostKnown
<1>1. ServicesInit => HostKnown
  BY SwitcherKnownAtFirst, WorkerKnownAtFirst, HandsKnownAtFirst DEF ServicesInit, HostKnown
<1>2. HostKnown /\ [ServicesNext]_allVars => HostKnown'
  BY PartsOfHost, SwitcherKnownKept, WorkerKnownKept, HandsKnownKept DEF HostKnown
<1> QED
  BY <1>1, <1>2, PTL DEF ServicesSpec

\* What is proved of each part alone holds of the specification the run explores: one remapping
\* thread, the pick as a ceiling, and a release before every end that is not the lost socket's.
THEOREM HostKeepsItsWord == ServicesSpec => []OneWorker /\ NeverAbovePick /\ EndsReleased
<1>1. HostKnown => OneWorker /\ SwitcherKnown /\ HandsKnown
  BY KnownIsOneWorker DEF HostKnown
<1>2. [ServicesNext]_allVars =>
        [AutoNext]_autoVars /\ [KeymapNext]_keymapVars /\ [LifecycleNext]_lifecycleVars
  BY PartsOfHost
<1> QED
  BY <1>1, <1>2, HostAlwaysKnown, TickUnderPick, EndingReleased, PTL
     DEF ServicesSpec, NeverAbovePick, EndsReleased
==============================================================================
