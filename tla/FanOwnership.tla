---------------------------- MODULE FanOwnership ----------------------------
(***************************************************************************)
(* Who drives the fans.  The threads of the daemon that command them: IPC   *)
(* clients (startCleaning, stopCleaning, getStatus, setMode, the            *)
(* measurements), the two-second control loop, one watchdog per cleaning    *)
(* cycle, the thread that ends a cycle a dead daemon left behind, and the   *)
(* thread that hands the fans back when the daemon leaves.  Each ACPI or    *)
(* pwm write is a step of its own, because the code makes it without the    *)
(* state lock; what the code does under one lock is one step.               *)
(*                                                                          *)
(* crates/fan/src/lib.rs and crates/fan/src/cleaner.rs.                     *)
(***************************************************************************)
EXTENDS Naturals, FiniteSets

CONSTANTS
  Clients,        \* threads serving an IPC connection
  Cycles,         \* cycle ids, each also the name of the cycle's watchdog
  Loop,           \* the control loop
  Exit,           \* the thread that runs on_exit
  Recovery,       \* the thread recover_interrupted_cycle may spawn
  TopSpeed,       \* reverse speeds are 0..TopSpeed (bound; hundreds of rpm)
  TachReadable,   \* whether fan?_input can be read
  Leaves,         \* whether the daemon is ever told to leave (bound)
  MaxRestarts     \* how often the daemon is killed and started again (bound)

Phases == {"idle", "starting", "stopping"}
Threads == Clients \cup Cycles \cup {Loop, Exit, Recovery}

ASSUME ThreadsAssumption ==
  /\ Clients \cap Cycles = {}
  /\ {Loop, Exit, Recovery} \cap (Clients \cup Cycles) = {}
  /\ Loop # Exit /\ Loop # Recovery /\ Exit # Recovery
  /\ Cycles \cap Phases = {}

ASSUME BoundsAssumption ==
  /\ TopSpeed \in Nat \ {0}
  /\ TachReadable \in BOOLEAN
  /\ Leaves \in BOOLEAN
  /\ MaxRestarts \in Nat

VARIABLES
  pc,           \* where each thread is
  cleaning,     \* State::cleaning; a member of Cycles is Running(that cycle)
  calibrating,  \* State::calibrating
  exiting,      \* State::exiting
  error,        \* whether State::last_cleaner_error holds an error
  override,     \* the firmware's fan override: [on, speed], speed in reverse
  spin,         \* what the blades do
  order,        \* the last order in the pwm files
  found,        \* the order a measurement found, and will restore
  speed,        \* the ramp's position, in each thread running one
  failed,       \* threads whose stop sequence had a write refused
  rolling,      \* threads rolling a failed start back
  hot,          \* threads that ended a cycle for its heat
  due,          \* cycles whose time is up
  generation,   \* the firmware generation this machine has
  restarts      \* how often the daemon has been started again

state == <<cleaning, calibrating, exiting, error>>
hardware == <<override, spin, order>>
locals == <<found, speed, failed, rolling, hot>>
world == <<due, generation, restarts>>
vars == <<pc, state, hardware, locals, world>>

\* What the pwm files say: the firmware's own control, or a speed (full speed
\* included) that somebody ordered.
Orders == {"auto", "speed"}
Released == [on |-> FALSE, speed |-> 0]
Reverse(s) == [on |-> TRUE, speed |-> s]

StartLabels == {"probe", "brake", "await", "engage", "toggleOn", "run"}
StopLabels == {"query", "ramp", "release", "toggleOff", "finish"}
SequenceLabels == StartLabels \cup StopLabels \cup {"refuse"}
MeasureLabels == {"measure", "unclaim"}
TickLabels == {"tick", "tickAfterStop", "noteHeat"}
Labels ==
  SequenceLabels \cup MeasureLabels \cup TickLabels
    \cup {"idle", "pass", "unarmed", "armed", "done", "spawned",
          "serving", "handBack", "left", "gone"}

\* The types of the variables; a ramp never leaves the speeds there are.
TypeOK ==
  /\ pc \in [Threads -> Labels]
  /\ cleaning \in Phases \cup Cycles
  /\ calibrating \in BOOLEAN
  /\ exiting \in BOOLEAN
  /\ error \in BOOLEAN
  /\ override \in [on : BOOLEAN, speed : 0..TopSpeed]
  /\ spin \in {"forward", "stopped", "backward"}
  /\ order \in Orders
  /\ found \in [Clients -> Orders]
  /\ speed \in [Threads -> 0..TopSpeed]
  /\ failed \subseteq Threads
  /\ rolling \subseteq Threads
  /\ hot \subseteq Threads
  /\ due \subseteq Cycles
  /\ generation \in {"modern", "legacy"}
  /\ restarts \in 0..MaxRestarts

\* Where a thread of a daemon that has just come up is.
Fresh(recover) ==
  [t \in Threads |->
     IF t \in Clients THEN "idle"
     ELSE IF t \in Cycles THEN "unarmed"
     ELSE IF t = Loop THEN "pass"
     ELSE IF t = Exit THEN "serving"
     ELSE IF recover THEN "spawned" ELSE "done"]

Init ==
  /\ pc = Fresh(FALSE)
  /\ cleaning = "idle"
  /\ calibrating = FALSE
  /\ exiting = FALSE
  /\ error = FALSE
  /\ override = Released
  /\ spin = "forward"
  /\ order \in Orders
  /\ found = [t \in Clients |-> "auto"]
  /\ speed = [t \in Threads |-> 0]
  /\ failed = {}
  /\ rolling = {}
  /\ hot = {}
  /\ due = {}
  /\ generation \in {"modern", "legacy"}
  /\ restarts = 0

-----------------------------------------------------------------------------
(* A thread's position.  Once the process is gone, no thread moves.         *)

At(t, label) == pc[t] = label /\ pc[Exit] # "gone"
Go(t, label) == pc' = [pc EXCEPT ![t] = label]
Move(t, from, to) == At(t, from) /\ Go(t, to)

Home(t) ==
  IF t = Loop THEN "pass" ELSE IF t \in Clients THEN "idle" ELSE "done"

\* cleaner::stop and cleaner::emergency_stop choose by generation.
StopEntry == IF generation = "modern" THEN "query" ELSE "toggleOff"

\* Who picks up after a stop sequence has released the override.
AfterStop(t) ==
  IF t = Exit THEN "handBack" ELSE IF t \in rolling THEN "refuse" ELSE "finish"

Running == cleaning \in Cycles
SeenBackward == TachReadable /\ spin = "backward"

-----------------------------------------------------------------------------
(* Starting a cycle: start_cleaning, begin_cycle, cleaner::start.           *)

\* Bound: as many cycles as there are ids.
StartCleaning(t) ==
  /\ Move(t, "idle", "probe")
  /\ cleaning = "idle"
  /\ ~calibrating
  /\ \E c \in Cycles : pc[c] = "unarmed"
  /\ cleaning' = "starting"
  /\ error' = FALSE
  /\ UNCHANGED <<calibrating, exiting, hardware, locals, world>>

\* The firmware is asked what it can do and the sensors how hot it is; any
\* of the refusals of begin_cycle and cleaner::start ends the attempt.
Probe(t) ==
  /\ At(t, "probe")
  /\ \/ Go(t, IF generation = "modern" THEN "brake" ELSE "toggleOn")
     \/ Go(t, "refuse")
  /\ UNCHANGED <<state, hardware, locals, world>>

RollBack(t) ==
  /\ Go(t, "query")
  /\ rolling' = rolling \cup {t}

Brake(t) ==
  /\ At(t, "brake")
  /\ \/ Go(t, "await") /\ override' = Reverse(0) /\ UNCHANGED rolling
     \/ RollBack(t) /\ UNCHANGED override
  /\ UNCHANGED <<state, spin, order, found, speed, failed, hot, world>>

\* Mutant: a brake that times out engages all the same.
AwaitStoppedAnyhow(t) ==
  /\ Move(t, "await", "engage")
  /\ UNCHANGED <<state, hardware, locals, world>>

\* Fans read as stopped when they are, and when there is nothing to read;
\* turning fans are waited for until the brake times out.
AwaitStopped(t) ==
  /\ At(t, "await")
  /\ IF TachReadable /\ spin # "stopped"
     THEN RollBack(t)
     ELSE Go(t, "engage") /\ UNCHANGED rolling
  /\ UNCHANGED <<state, hardware, found, speed, failed, hot, world>>

Engage(t) ==
  /\ At(t, "engage")
  /\ \/ Go(t, "run") /\ override' = Reverse(TopSpeed) /\ UNCHANGED rolling
     \/ RollBack(t) /\ UNCHANGED override
  /\ UNCHANGED <<state, spin, order, found, speed, failed, hot, world>>

\* The legacy firmware has one switch.  A refused one is not rolled back.
ToggleOn(t) ==
  /\ At(t, "toggleOn")
  /\ \/ Go(t, "run") /\ override' = Reverse(TopSpeed)
     \/ Go(t, "refuse") /\ UNCHANGED override
  /\ UNCHANGED <<state, spin, order, locals, world>>

\* The cycle is entered under the lock and its watchdog is spawned.
Run(t) ==
  /\ At(t, "run")
  /\ \E c \in Cycles :
       /\ pc[c] = "unarmed"
       /\ cleaning' = c
       /\ pc' = [pc EXCEPT ![t] = "idle", ![c] = "armed"]
  /\ UNCHANGED <<calibrating, exiting, error, hardware, locals, world>>

\* Mutant: a start that fails never gives its claim back.
RefuseKeepsClaim(t) ==
  /\ Move(t, "refuse", "idle")
  /\ error' = TRUE
  /\ rolling' = rolling \ {t}
  /\ UNCHANGED <<cleaning, calibrating, exiting, hardware, found, speed, failed, hot, world>>

\* start_cleaning's error arm.
Refuse(t) ==
  /\ Move(t, "refuse", "idle")
  /\ cleaning' = "idle"
  /\ error' = TRUE
  /\ rolling' = rolling \ {t}
  /\ UNCHANGED <<calibrating, exiting, hardware, found, speed, failed, hot, world>>

-----------------------------------------------------------------------------
(* Who ends a cycle.                                                        *)

BeginStop(t) ==
  /\ Go(t, StopEntry)
  /\ cleaning' = "stopping"
  /\ UNCHANGED <<calibrating, exiting, error>>

StopCleaning(t) ==
  /\ At(t, "idle")
  /\ Running
  /\ BeginStop(t)
  /\ UNCHANGED <<hardware, locals, world>>

\* stop_if_expired: its time is up, or the machine is too hot for it.
EndExpired(t, tooHot) ==
  /\ Running
  /\ cleaning \in due \/ tooHot
  /\ BeginStop(t)
  /\ hot' = IF tooHot THEN hot \cup {t} ELSE hot
  /\ UNCHANGED <<hardware, found, speed, failed, rolling, world>>

StatusEnds(t) == At(t, "idle") /\ \E tooHot \in BOOLEAN : EndExpired(t, tooHot)

\* Mutant: a watchdog ends whatever cycle is running.
FireAny(c) ==
  /\ At(c, "armed")
  /\ c \in due
  /\ IF Running
     THEN BeginStop(c)
     ELSE Go(c, "done") /\ UNCHANGED state
  /\ UNCHANGED <<hardware, locals, world>>

\* A watchdog wakes when its cycle is over and ends that cycle only.
Fire(c) ==
  /\ At(c, "armed")
  /\ c \in due
  /\ IF cleaning = c
     THEN BeginStop(c)
     ELSE Go(c, "done") /\ UNCHANGED state
  /\ UNCHANGED <<hardware, locals, world>>

Expire(c) ==
  /\ pc[c] = "armed"
  /\ due' = due \cup {c}
  /\ UNCHANGED <<pc, state, hardware, locals, generation, restarts>>

\* recover_interrupted_cycle's thread takes the fans without looking.
Recover ==
  /\ At(Recovery, "spawned")
  /\ BeginStop(Recovery)
  /\ UNCHANGED <<hardware, locals, world>>

-----------------------------------------------------------------------------
(* The stop sequence: cleaner::ramp_down and the legacy switch.             *)

\* Where the ramp starts: the speed commanded, if the firmware says, else
\* what the tachometers read, else no ramp at all.
RampStart(answered) ==
  LET commanded == IF answered /\ override.on THEN override.speed ELSE 0
  IN  IF commanded > 0 THEN {commanded}
      ELSE IF SeenBackward THEN 0..TopSpeed ELSE {}

\* Mutant: nothing to ramp is taken for nothing to release.
QuerySkipsRelease(t) ==
  /\ At(t, "query")
  /\ \E answered \in BOOLEAN :
       IF RampStart(answered) = {}
       THEN Go(t, AfterStop(t)) /\ UNCHANGED speed
       ELSE /\ Go(t, "ramp")
            /\ \E s \in RampStart(answered) : speed' = [speed EXCEPT ![t] = s]
  /\ UNCHANGED <<state, hardware, found, failed, rolling, hot, world>>

Query(t) ==
  /\ At(t, "query")
  /\ \E answered \in BOOLEAN :
       IF RampStart(answered) = {}
       THEN Go(t, "release") /\ UNCHANGED speed
       ELSE /\ Go(t, "ramp")
            /\ \E s \in RampStart(answered) : speed' = [speed EXCEPT ![t] = s]
  /\ UNCHANGED <<state, hardware, found, failed, rolling, hot, world>>

\* A write lands or is refused, and the sequence goes on either way.  A start
\* being rolled back has an error already and forgets this one.
Command(t, to) ==
  /\ \/ override' = to /\ UNCHANGED failed
     \/ /\ failed' = IF t \in rolling THEN failed ELSE failed \cup {t}
        /\ UNCHANGED override
  /\ UNCHANGED <<state, spin, order, found, rolling, hot, world>>

Ramp(t) ==
  /\ At(t, "ramp")
  /\ Command(t, Reverse(speed[t]))
  /\ IF speed[t] = 0
     THEN Go(t, "release") /\ UNCHANGED speed
     ELSE speed' = [speed EXCEPT ![t] = @ - 1] /\ UNCHANGED pc

Release(t) ==
  /\ Move(t, "release", AfterStop(t))
  /\ Command(t, Released)
  /\ UNCHANGED speed

ToggleOff(t) ==
  /\ Move(t, "toggleOff", AfterStop(t))
  /\ Command(t, Released)
  /\ UNCHANGED speed

\* Mutant: the refusal met on the way is forgotten.
FinishForgets(t) ==
  /\ Move(t, "finish", "tickAfterStop")
  /\ cleaning' = "idle"
  /\ error' = FALSE
  /\ failed' = failed \ {t}
  /\ UNCHANGED <<calibrating, exiting, hardware, found, speed, rolling, hot, world>>

\* finish_cycle, whichever way the stop went; a control pass follows.
Finish(t) ==
  /\ Move(t, "finish", "tickAfterStop")
  /\ cleaning' = "idle"
  /\ error' = (t \in failed)
  /\ failed' = failed \ {t}
  /\ UNCHANGED <<calibrating, exiting, hardware, found, speed, rolling, hot, world>>

\* stop_if_expired records afterwards that the heat ended the cycle.
NoteHeat(t) ==
  /\ Move(t, "noteHeat", IF t = Loop THEN "tick" ELSE Home(t))
  /\ error' = TRUE
  /\ hot' = hot \ {t}
  /\ UNCHANGED <<cleaning, calibrating, exiting, hardware, found, speed, failed, rolling, world>>

-----------------------------------------------------------------------------
(* The control pass, from whichever thread runs it.                         *)

\* Mutant: the control pass does not ask about the cleaner.
MayControlForgetsCleaner == ~exiting /\ ~calibrating

\* tick_locked gives way to the exit, to a measurement and to the cleaner.
MayControl == ~exiting /\ ~calibrating /\ cleaning = "idle"

AfterTick(t) ==
  IF pc[t] = "tickAfterStop"
  THEN IF t \in hot THEN "noteHeat" ELSE IF t = Loop THEN "tick" ELSE Home(t)
  ELSE Home(t)

\* What the pass decides to write is FanControl's business: here, anything.
Tick(t) ==
  /\ At(t, "tick") \/ At(t, "tickAfterStop")
  /\ Go(t, AfterTick(t))
  /\ IF MayControl THEN order' \in Orders ELSE UNCHANGED order
  /\ UNCHANGED <<state, override, spin, locals, world>>

\* setMode, setCurve and the rest end in a control pass of their own.
ClientTick(t) ==
  /\ Move(t, "idle", "tick")
  /\ UNCHANGED <<state, hardware, locals, world>>

\* Mutant: the loop leaves a cycle's countdown to its watchdog.
LoopPassTrustsWatchdog ==
  /\ Move(Loop, "pass", "tick")
  /\ UNCHANGED <<state, hardware, locals, world>>

LoopPass ==
  \/ /\ Move(Loop, "pass", "tick")
     /\ cleaning \notin due
     /\ UNCHANGED <<state, hardware, locals, world>>
  \/ At(Loop, "pass") /\ \E tooHot \in BOOLEAN : EndExpired(Loop, tooHot)

\* after_panic: the fans go to the firmware with no lock held.
LoopPanics ==
  /\ Move(Loop, "tick", "pass")
  /\ order' \in {order, "auto"}
  /\ UNCHANGED <<state, override, spin, locals, world>>

-----------------------------------------------------------------------------
(* Measurements: calibrate, the speed and split probes, the write check.    *)

\* Mutant: a claim looks at the other measurements only.
ClaimFansUnderCleaner(t) ==
  /\ Move(t, "idle", "measure")
  /\ ~calibrating
  /\ calibrating' = TRUE
  /\ found' = [found EXCEPT ![t] = order]
  /\ UNCHANGED <<cleaning, exiting, error, hardware, speed, failed, rolling, hot, world>>

ClaimFans(t) ==
  /\ Move(t, "idle", "measure")
  /\ ~calibrating
  /\ cleaning = "idle"
  /\ calibrating' = TRUE
  /\ found' = [found EXCEPT ![t] = order]
  /\ UNCHANGED <<cleaning, exiting, error, hardware, speed, failed, rolling, hot, world>>

Measure(t) ==
  /\ At(t, "measure")
  /\ order' = "speed"
  /\ UNCHANGED <<pc, state, override, spin, locals, world>>

\* The Restore guard: back to what was found, to auto if that is refused,
\* and nowhere if that is refused as well.
Restore(t) ==
  /\ Move(t, "measure", "unclaim")
  /\ order' \in {found[t], "auto", order}
  /\ UNCHANGED <<state, override, spin, locals, world>>

\* FanClaim's drop.  A control pass follows, except after the write check and
\* after a measurement that failed for anything but heat.
Unclaim(t) ==
  /\ At(t, "unclaim")
  /\ Go(t, "tick") \/ Go(t, "idle")
  /\ calibrating' = FALSE
  /\ found' = [found EXCEPT ![t] = "auto"]
  /\ UNCHANGED <<cleaning, exiting, error, hardware, speed, failed, rolling, hot, world>>

-----------------------------------------------------------------------------
(* Leaving, and coming back.                                                *)

Leave ==
  /\ Leaves
  /\ Move(Exit, "serving",
          IF cleaning # "idle" \/ SeenBackward THEN StopEntry ELSE "handBack")
  /\ exiting' = TRUE
  /\ UNCHANGED <<cleaning, calibrating, error, hardware, locals, world>>

HandBack ==
  /\ Move(Exit, "handBack", "left")
  /\ \/ order' = "auto" /\ UNCHANGED failed
     \/ failed' = failed \cup {Exit} /\ UNCHANGED order
  /\ UNCHANGED <<state, override, spin, found, speed, rolling, hot, world>>

Die ==
  /\ Move(Exit, "left", "gone")
  /\ UNCHANGED <<state, hardware, locals, world>>

\* The process is killed, or has left, and is started again: all it knew is
\* lost, all the hardware was told stays.  with_store looks at the blades.
\* Bound: a restart on fans nobody overrides is the initial state again.
Restart ==
  /\ restarts < MaxRestarts
  /\ override.on
  /\ restarts' = restarts + 1
  /\ pc' = Fresh(SeenBackward)
  /\ cleaning' = "idle"
  /\ calibrating' = FALSE
  /\ exiting' = FALSE
  /\ error' = FALSE
  /\ found' = [t \in Clients |-> "auto"]
  /\ speed' = [t \in Threads |-> 0]
  /\ failed' = {}
  /\ rolling' = {}
  /\ hot' = {}
  /\ due' = {}
  /\ UNCHANGED <<hardware, generation>>

\* The blades follow the override: braked they stop, reversed they come
\* round through a stop, released they come round the other way, and the
\* firmware may stop and start them.
Spin ==
  /\ spin' = IF ~override.on
             THEN IF spin = "stopped" THEN "forward" ELSE "stopped"
             ELSE IF override.speed = 0 \/ spin = "forward"
                  THEN "stopped" ELSE "backward"
  /\ UNCHANGED <<pc, state, override, order, locals, world>>

-----------------------------------------------------------------------------

\* What a thread goes on doing once it has begun.
Carry(t) ==
  \/ Probe(t) \/ Brake(t) \/ AwaitStopped(t) \/ Engage(t) \/ ToggleOn(t)
  \/ Run(t) \/ Refuse(t)
  \/ Query(t) \/ Ramp(t) \/ Release(t) \/ ToggleOff(t) \/ Finish(t) \/ NoteHeat(t)
  \/ Tick(t)

Client(t) ==
  \/ StartCleaning(t) \/ StopCleaning(t) \/ StatusEnds(t) \/ ClientTick(t)
  \/ ClaimFans(t) \/ Measure(t) \/ Restore(t) \/ Unclaim(t)

Step ==
  \/ \E t \in Threads : Carry(t)
  \/ \E t \in Clients : Client(t)
  \/ \E c \in Cycles : Fire(c) \/ Expire(c)
  \/ LoopPass \/ LoopPanics
  \/ Recover
  \/ Leave \/ HandBack \/ Die
  \/ Spin

Next == Step \/ Restart

\* No thread of the daemon is starved once it has begun, a measurement's
\* time runs out, a cycle's time runs out, and the loop runs.  Nothing makes
\* a watchdog wake, a client ask or the daemon leave.
Fairness ==
  /\ \A t \in Threads : WF_vars(Carry(t))
  /\ \A t \in Clients : WF_vars(Restore(t)) /\ WF_vars(Unclaim(t))
  /\ \A c \in Cycles : WF_vars(Expire(c))
  /\ WF_vars(LoopPass)
  /\ WF_vars(Recover)
  /\ WF_vars(HandBack) /\ WF_vars(Die)

\* One life of the daemon, and lives that end anywhere.
LifeSpec == Init /\ [][Step]_vars /\ Fairness
CrashSpec == Init /\ [][Next]_vars /\ Fairness

-----------------------------------------------------------------------------
(* Properties.                                                              *)

Workers == Threads \ {Exit}
Drives(t) == pc[t] \in SequenceLabels \cup MeasureLabels

\* At most one thread of a daemon that came up on fans nobody had reversed
\* is inside an ACPI sequence or a measurement: the claim made under the
\* lock covers everything done outside it, until the fans are given back.
\* on_exit's own sequence is left out: it looks at what is under way and
\* drives all the same (HandedBack says what it is for).
OneDriver ==
  \A t, u \in Workers : Drives(t) /\ Drives(u) => t = u

\* The two flags that reserve the fans are never both set, and each is set
\* exactly while some thread is there to clear it or a cycle is running.
FlagsMatchDrivers ==
  /\ calibrating <=> \E t \in Workers : pc[t] \in MeasureLabels
  /\ cleaning \in {"starting", "stopping"} <=> \E t \in Workers : pc[t] \in SequenceLabels

\* Why OneDriver is inductive.  Each thread stays among the labels of its own
\* code; a rollback belongs to a client inside its stop sequence; a thread
\* inside a sequence holds the cleaner's flag in the phase it is in, and a
\* measuring one holds the other flag.
Places ==
  /\ \A t \in Clients : pc[t] \in {"idle"} \cup SequenceLabels \cup MeasureLabels \cup TickLabels
  /\ \A c \in Cycles : pc[c] \in {"unarmed", "armed", "done"} \cup StopLabels \cup TickLabels
  /\ pc[Loop] \in {"pass"} \cup StopLabels \cup TickLabels
  /\ pc[Exit] \in {"serving", "handBack", "left", "gone"} \cup (StopLabels \ {"finish"})
  /\ pc[Recovery] = "done"
  /\ rolling \subseteq Clients

Claims ==
  /\ calibrating => cleaning = "idle"
  /\ \A t \in Workers :
       /\ pc[t] \in MeasureLabels => calibrating
       /\ pc[t] \in StartLabels \cup {"refuse"} => cleaning = "starting"
       /\ pc[t] \in StopLabels /\ t \notin rolling => cleaning = "stopping"
       /\ t \in rolling => pc[t] \in {"query", "ramp", "release", "refuse"} /\ cleaning = "starting"

IInv == TypeOK /\ Places /\ Claims /\ OneDriver

\* When no cycle is under way the firmware's override is off, or the status
\* says what went wrong: the fans are never left reversed in silence.
NoSilentReverse ==
  ~exiting /\ cleaning = "idle" /\ override.on => error

\* What a thread inside a sequence knows of the hardware while the daemon is
\* not leaving: a braked fan stays braked until its own thread engages it, and
\* one that ends a cycle has seen the release accepted or notes that it was not.
Grip ==
  /\ pc[Exit] # "serving" => exiting
  /\ \A t \in Workers : ~exiting =>
       /\ pc[t] \in {"await", "engage"} => override = Reverse(0)
       /\ pc[t] = "engage" /\ TachReadable => spin = "stopped"
       /\ pc[t] = "finish" /\ override.on => t \in failed

\* A cycle engages reverse only on blades that stand still, whatever the
\* other threads did since the wait for them ended (modern firmware, the one
\* that can brake; until the daemon leaves).
NeverReversedAtSpeed ==
  [][\A t \in Clients : pc[t] = "engage" /\ pc'[t] = "run" /\ ~exiting
       => spin = "stopped"]_vars

\* A watchdog never ends a cycle other than the one it was armed for.
OwnCycleOnly ==
  [][\A c \in Cycles : pc[c] = "armed" /\ cleaning' # cleaning /\ pc'[c] # "armed"
       => cleaning = c]_vars

\* Whoever has claimed the fans gives them back, even if no watchdog ever
\* wakes: a cycle's countdown is enforced by the loop as well.
FansReturned ==
  cleaning # "idle" \/ calibrating
    ~> (cleaning = "idle" /\ ~calibrating) \/ pc[Exit] = "gone"

\* The abstract specification.
Tenant ==
  IF calibrating THEN "measuring"
  ELSE IF cleaning \in Cycles THEN "running"
  ELSE IF cleaning = "idle" THEN "control" ELSE cleaning

Tenure == INSTANCE FanTenure WITH tenant <- Tenant, closed <- exiting
TenureKept == Tenure!Spec

\* A daemon that starts on fans spinning backwards ends the reverse, or says
\* why it could not.
ReverseRecovered ==
  pc[Recovery] = "spawned" ~> ~override.on \/ error \/ pc[Exit] = "gone"

\* on_exit hands the fans back: when the process is gone nothing is left
\* reversed and the firmware has the speed, unless a write was refused.
HandedBack ==
  pc[Exit] = "gone" /\ Exit \notin failed => ~override.on /\ order = "auto"

=============================================================================
