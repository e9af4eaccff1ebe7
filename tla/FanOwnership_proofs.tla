------------------------ MODULE FanOwnership_proofs ------------------------
(***************************************************************************)
(* What holds of FanOwnership for any number of clients and cycles: the     *)
(* types, that one thread drives the fans at a time, that the two flags say *)
(* so, and that the threads together implement FanTenure.                   *)
(***************************************************************************)
EXTENDS FanOwnership, TLAPS

-----------------------------------------------------------------------------
(* Types.                                                                   *)

LEMMA InitTypeOK == Init => TypeOK
<1> SUFFICES ASSUME Init PROVE TypeOK
  OBVIOUS
<1>1. pc \in [Threads -> Labels]
  BY DEF Init, Fresh, Labels
<1>2. override \in [on : BOOLEAN, speed : 0..TopSpeed]
  BY BoundsAssumption DEF Init, Released
<1>3. speed \in [Threads -> 0..TopSpeed] /\ restarts \in 0..MaxRestarts
  BY BoundsAssumption DEF Init
<1>4. QED
  BY <1>1, <1>2, <1>3 DEF Init, TypeOK, Orders, Phases

\* What a stop sequence is entered at, left for and goes home to are labels.
LEMMA LabelsReached ==
  ASSUME NEW t \in Threads
  PROVE  /\ StopEntry \in Labels
         /\ AfterStop(t) \in Labels
         /\ AfterTick(t) \in Labels
         /\ Home(t) \in Labels
BY DEF StopEntry, AfterStop, AfterTick, Home, Labels, SequenceLabels,
       StartLabels, StopLabels, MeasureLabels, TickLabels

LEMMA GoTypeOK ==
  ASSUME TypeOK, NEW t \in Threads, NEW label \in Labels, Go(t, label)
  PROVE  pc' \in [Threads -> Labels]
BY DEF TypeOK, Go

\* What the firmware is told is a state of the override.
LEMMA OverrideTypeOK ==
  /\ Released \in [on : BOOLEAN, speed : 0..TopSpeed]
  /\ \A s \in 0..TopSpeed : Reverse(s) \in [on : BOOLEAN, speed : 0..TopSpeed]
BY BoundsAssumption DEF Released, Reverse

LEMMA CommandTypeOK ==
  ASSUME TypeOK, NEW t \in Threads,
         NEW to \in [on : BOOLEAN, speed : 0..TopSpeed], Command(t, to)
  PROVE  /\ override' \in [on : BOOLEAN, speed : 0..TopSpeed]
         /\ failed' \subseteq Threads
         /\ UNCHANGED <<state, spin, order, found, rolling, hot, world>>
BY DEF TypeOK, Command

\* A ramp starts at a speed there is.
LEMMA RampStartTypeOK ==
  ASSUME TypeOK, NEW answered \in BOOLEAN
  PROVE  RampStart(answered) \subseteq 0..TopSpeed
BY BoundsAssumption DEF TypeOK, RampStart

LEMMA StepTypeOK == TypeOK /\ [Step]_vars => TypeOK'
<1> SUFFICES ASSUME TypeOK, [Step]_vars PROVE TypeOK'
  OBVIOUS
<1> USE BoundsAssumption
<1> USE DEF TypeOK, At, Move, Threads, Phases, vars, state, hardware, locals, world
<1>1. ASSUME NEW t \in Threads, Carry(t) PROVE TypeOK'
  <2>1. CASE Probe(t)
    BY <2>1, GoTypeOK DEF Probe, Labels, SequenceLabels, StartLabels
  <2>2. CASE Brake(t)
    <3>1. pc' \in [Threads -> Labels]
      BY <2>2, GoTypeOK DEF Brake, RollBack, Labels, SequenceLabels, StartLabels, StopLabels
    <3>2. override' \in [on : BOOLEAN, speed : 0..TopSpeed]
      BY <2>2, OverrideTypeOK DEF Brake
    <3>3. QED
      BY <2>2, <3>1, <3>2 DEF Brake, RollBack
  <2>3. CASE AwaitStopped(t)
    BY <2>3, GoTypeOK DEF AwaitStopped, RollBack, Labels, SequenceLabels, StartLabels, StopLabels
  <2>4. CASE Engage(t)
    <3>1. pc' \in [Threads -> Labels]
      BY <2>4, GoTypeOK DEF Engage, RollBack, Labels, SequenceLabels, StartLabels, StopLabels
    <3>2. override' \in [on : BOOLEAN, speed : 0..TopSpeed]
      BY <2>4, OverrideTypeOK DEF Engage
    <3>3. QED
      BY <2>4, <3>1, <3>2 DEF Engage, RollBack
  <2>5. CASE ToggleOn(t)
    <3>1. pc' \in [Threads -> Labels]
      BY <2>5, GoTypeOK DEF ToggleOn, Labels, SequenceLabels, StartLabels
    <3>2. override' \in [on : BOOLEAN, speed : 0..TopSpeed]
      BY <2>5, OverrideTypeOK DEF ToggleOn
    <3>3. QED
      BY <2>5, <3>1, <3>2 DEF ToggleOn
  <2>6. CASE Run(t)
    BY <2>6 DEF Run, Labels
  <2>7. CASE Refuse(t)
    BY <2>7, GoTypeOK DEF Refuse, Labels
  <2>8. CASE Query(t)
    <3>1. pc' \in [Threads -> Labels]
      BY <2>8, GoTypeOK DEF Query, Labels, SequenceLabels, StopLabels
    <3>2. speed' \in [Threads -> 0..TopSpeed]
      BY <2>8, RampStartTypeOK DEF Query
    <3>3. QED
      BY <2>8, <3>1, <3>2 DEF Query
  <2>9. CASE Ramp(t)
    <3>1. pc' \in [Threads -> Labels]
      BY <2>9, GoTypeOK DEF Ramp, Labels, SequenceLabels, StopLabels
    <3>2. speed' \in [Threads -> 0..TopSpeed]
      BY <2>9 DEF Ramp
    <3>3. Command(t, Reverse(speed[t])) /\ Reverse(speed[t]) \in [on : BOOLEAN, speed : 0..TopSpeed]
      BY <2>9, OverrideTypeOK DEF Ramp
    <3>4. QED
      BY <3>1, <3>2, <3>3, CommandTypeOK
  <2>10. CASE Release(t)
    <3>1. pc' \in [Threads -> Labels]
      BY <2>10, GoTypeOK, LabelsReached DEF Release
    <3>2. Command(t, Released) /\ UNCHANGED speed
      BY <2>10 DEF Release
    <3>3. QED
      BY <3>1, <3>2, CommandTypeOK, OverrideTypeOK
  <2>11. CASE ToggleOff(t)
    <3>1. pc' \in [Threads -> Labels]
      BY <2>11, GoTypeOK, LabelsReached DEF ToggleOff
    <3>2. Command(t, Released) /\ UNCHANGED speed
      BY <2>11 DEF ToggleOff
    <3>3. QED
      BY <3>1, <3>2, CommandTypeOK, OverrideTypeOK
  <2>12. CASE Finish(t)
    BY <2>12, GoTypeOK DEF Finish, Labels, TickLabels
  <2>13. CASE NoteHeat(t)
    BY <2>13, GoTypeOK, LabelsReached DEF NoteHeat, Labels, TickLabels
  <2>14. CASE Tick(t)
    BY <2>14, GoTypeOK, LabelsReached DEF Tick
  <2>15. QED
    BY <1>1, <2>1, <2>2, <2>3, <2>4, <2>5, <2>6, <2>7, <2>8, <2>9, <2>10,
       <2>11, <2>12, <2>13, <2>14 DEF Carry
<1>2. ASSUME NEW t \in Clients, Client(t) PROVE TypeOK'
  <2>1. CASE StartCleaning(t)
    BY <2>1, GoTypeOK DEF StartCleaning, Labels, SequenceLabels, StartLabels
  <2>2. CASE StopCleaning(t)
    BY <2>2, GoTypeOK, LabelsReached DEF StopCleaning, BeginStop
  <2>3. CASE StatusEnds(t)
    BY <2>3, GoTypeOK, LabelsReached DEF StatusEnds, EndExpired, BeginStop
  <2>4. CASE ClientTick(t)
    BY <2>4, GoTypeOK DEF ClientTick, Labels, TickLabels
  <2>5. CASE ClaimFans(t)
    BY <2>5, GoTypeOK DEF ClaimFans, Labels, MeasureLabels
  <2>6. CASE Measure(t)
    BY <2>6 DEF Measure, Orders
  <2>7. CASE Restore(t)
    BY <2>7, GoTypeOK DEF Restore, Labels, MeasureLabels, Orders
  <2>8. CASE Unclaim(t)
    BY <2>8, GoTypeOK DEF Unclaim, Labels, TickLabels, Orders
  <2>9. QED
    BY <1>2, <2>1, <2>2, <2>3, <2>4, <2>5, <2>6, <2>7, <2>8 DEF Client
<1>3. ASSUME NEW c \in Cycles, Fire(c) \/ Expire(c) PROVE TypeOK'
  <2>1. CASE Fire(c)
    BY <2>1, GoTypeOK, LabelsReached DEF Fire, BeginStop, Labels
  <2>2. CASE Expire(c)
    BY <2>2 DEF Expire
  <2>3. QED
    BY <1>3, <2>1, <2>2
<1>4. CASE LoopPass
  BY <1>4, GoTypeOK, LabelsReached DEF LoopPass, EndExpired, BeginStop, Labels, TickLabels
<1>5. CASE LoopPanics
  BY <1>5, GoTypeOK DEF LoopPanics, Labels, Orders
<1>6. CASE Recover
  BY <1>6, GoTypeOK, LabelsReached DEF Recover, BeginStop
<1>7. CASE Leave
  BY <1>7, GoTypeOK, LabelsReached DEF Leave, Labels
<1>8. CASE HandBack
  <2>1. pc' \in [Threads -> Labels]
    BY <1>8, GoTypeOK DEF HandBack, Labels
  <2>2. failed' \subseteq Threads /\ order' \in Orders
    BY <1>8 DEF HandBack, Orders
  <2>3. QED
    BY <1>8, <2>1, <2>2 DEF HandBack
<1>9. CASE Die
  BY <1>9, GoTypeOK DEF Die, Labels
<1>10. CASE Spin
  BY <1>10 DEF Spin
<1>11. CASE UNCHANGED vars
  BY <1>11
<1>12. QED
  BY <1>1, <1>2, <1>3, <1>4, <1>5, <1>6, <1>7, <1>8, <1>9, <1>10, <1>11 DEF Step

\* Every variable keeps its type through one life of the daemon.
THEOREM TypeCorrect == LifeSpec => []TypeOK
<1>1. QED
  BY InitTypeOK, StepTypeOK, PTL DEF LifeSpec

\* A daemon started again knows nothing of the one before it, and is where one starts.
LEMMA RestartTypeOK == TypeOK /\ Restart => TypeOK'
<1> SUFFICES ASSUME TypeOK, Restart PROVE TypeOK'
  OBVIOUS
<1>1. pc' \in [Threads -> Labels]
  BY DEF Restart, Fresh, Labels
<1>2. speed' \in [Threads -> 0..TopSpeed] /\ restarts' \in 0..MaxRestarts
  BY BoundsAssumption DEF Restart, TypeOK
<1>3. QED
  BY <1>1, <1>2 DEF Restart, TypeOK, hardware, Phases, Orders

\* The types hold over lives that end anywhere and begin on reversed fans, too.
THEOREM TypeCorrectOverLives == CrashSpec => []TypeOK
<1>1. TypeOK /\ [Next]_vars => TypeOK'
  BY StepTypeOK, RestartTypeOK DEF Next
<1>2. QED
  BY InitTypeOK, <1>1, PTL DEF CrashSpec

-----------------------------------------------------------------------------
(* One driver.                                                              *)

LEMMA InitIInv == Init => IInv
<1> SUFFICES ASSUME Init PROVE IInv
  OBVIOUS
<1>1. TypeOK
  BY InitTypeOK
<1>2. Places
  BY ThreadsAssumption DEF Init, Fresh, Threads, Places
<1>3. \A t \in Workers : pc[t] \in {"idle", "unarmed", "pass", "done"}
  BY DEF Init, Fresh, Threads, Workers
<1>4. Claims /\ OneDriver
  BY <1>3 DEF Init, Claims, OneDriver, Drives, SequenceLabels, StartLabels,
              StopLabels, MeasureLabels
<1>5. QED
  BY <1>1, <1>2, <1>4 DEF IInv

\* A thread that moves among the driving labels, under flags that stay as
\* they are, takes nothing from another and leaves nothing to another.
LEMMA StepIInv == IInv /\ [Step]_vars => IInv'
<1> SUFFICES ASSUME IInv, [Step]_vars PROVE Places' /\ Claims' /\ OneDriver'
  BY StepTypeOK DEF IInv
<1> USE ThreadsAssumption
<1> USE DEF IInv, TypeOK, Places, Claims, OneDriver, Drives, Workers, Threads, At, Move, Go,
            state, hardware, locals, world, vars, SequenceLabels, StartLabels,
            StopLabels, MeasureLabels, TickLabels
<1>1. ASSUME NEW t \in Threads, Carry(t) PROVE Places' /\ Claims' /\ OneDriver'
  <2>1. CASE Probe(t)
    BY <2>1 DEF Probe
  <2>2. CASE Brake(t)
    BY <2>2 DEF Brake, RollBack
  <2>3. CASE AwaitStopped(t)
    BY <2>3 DEF AwaitStopped, RollBack
  <2>4. CASE Engage(t)
    BY <2>4 DEF Engage, RollBack
  <2>5. CASE ToggleOn(t)
    BY <2>5 DEF ToggleOn
  <2>6. CASE Run(t)
    BY <2>6 DEF Run, Phases
  <2>7. CASE Refuse(t)
    BY <2>7 DEF Refuse
  <2>8. CASE Query(t)
    BY <2>8 DEF Query
  <2>9. CASE Ramp(t)
    BY <2>9 DEF Ramp, Command
  <2>10. CASE Release(t)
    BY <2>10 DEF Release, Command, AfterStop
  <2>11. CASE ToggleOff(t)
    BY <2>11 DEF ToggleOff, Command, AfterStop
  <2>12. CASE Finish(t)
    BY <2>12 DEF Finish
  <2>13. CASE NoteHeat(t)
    BY <2>13 DEF NoteHeat, Home
  <2>14. CASE Tick(t)
    BY <2>14 DEF Tick, AfterTick, Home
  <2>15. QED
    BY <1>1, <2>1, <2>2, <2>3, <2>4, <2>5, <2>6, <2>7, <2>8, <2>9, <2>10,
       <2>11, <2>12, <2>13, <2>14 DEF Carry
<1>2. ASSUME NEW t \in Clients, Client(t) PROVE Places' /\ Claims' /\ OneDriver'
  <2>1. CASE StartCleaning(t)
    BY <2>1 DEF StartCleaning
  <2>2. CASE StopCleaning(t)
    BY <2>2 DEF StopCleaning, BeginStop, StopEntry, Running, Phases
  <2>3. CASE StatusEnds(t)
    BY <2>3 DEF StatusEnds, EndExpired, BeginStop, StopEntry, Running, Phases
  <2>4. CASE ClientTick(t)
    BY <2>4 DEF ClientTick
  <2>5. CASE ClaimFans(t)
    BY <2>5 DEF ClaimFans
  <2>6. CASE Measure(t)
    BY <2>6 DEF Measure
  <2>7. CASE Restore(t)
    BY <2>7 DEF Restore
  <2>8. CASE Unclaim(t)
    BY <2>8 DEF Unclaim
  <2>9. QED
    BY <1>2, <2>1, <2>2, <2>3, <2>4, <2>5, <2>6, <2>7, <2>8 DEF Client
<1>3. ASSUME NEW c \in Cycles, Fire(c) \/ Expire(c) PROVE Places' /\ Claims' /\ OneDriver'
  <2>1. CASE Fire(c)
    BY <2>1 DEF Fire, BeginStop, StopEntry, Phases
  <2>2. CASE Expire(c)
    BY <2>2 DEF Expire
  <2>3. QED
    BY <1>3, <2>1, <2>2
<1>4. CASE LoopPass
  BY <1>4 DEF LoopPass, EndExpired, BeginStop, StopEntry, Running, Phases
<1>5. CASE LoopPanics
  BY <1>5 DEF LoopPanics
<1>6. CASE Recover
  BY <1>6 DEF Recover
<1>7. CASE Leave
  BY <1>7 DEF Leave, StopEntry
<1>8. CASE HandBack
  BY <1>8 DEF HandBack
<1>9. CASE Die
  BY <1>9 DEF Die
<1>10. CASE Spin
  BY <1>10 DEF Spin
<1>11. CASE UNCHANGED vars
  BY <1>11
<1>12. QED
  BY <1>1, <1>2, <1>3, <1>4, <1>5, <1>6, <1>7, <1>8, <1>9, <1>10, <1>11 DEF Step

\* At most one thread drives the fans, however many clients ask and however
\* many cycles are run.
THEOREM OneDriverAtATime == LifeSpec => []OneDriver
<1>1. IInv => OneDriver
  BY DEF IInv
<1>2. QED
  BY InitIInv, StepIInv, <1>1, PTL DEF LifeSpec

\* A daemon that has just come up on fans it does not see reversed, whatever the one before it
\* left on them (with_store).
ComesUp ==
  /\ TypeOK /\ pc = Fresh(FALSE)
  /\ cleaning = "idle" /\ calibrating = FALSE /\ exiting = FALSE /\ rolling = {}

LEMMA ComesUpIInv == ComesUp => IInv
<1> SUFFICES ASSUME ComesUp PROVE IInv
  OBVIOUS
<1>1. Places
  BY ThreadsAssumption DEF ComesUp, Fresh, Threads, Places
<1>2. \A t \in Workers : pc[t] \in {"idle", "unarmed", "pass", "done"}
  BY DEF ComesUp, Fresh, Threads, Workers
<1>3. Claims /\ OneDriver
  BY <1>2 DEF ComesUp, Claims, OneDriver, Drives, SequenceLabels, StartLabels,
              StopLabels, MeasureLabels
<1>4. QED
  BY <1>1, <1>3 DEF ComesUp, IInv

\* Every restart on fans that are not seen reversed begins such a life.
THEOREM RestartsComeUp == CrashSpec => [][Restart /\ ~SeenBackward => ComesUp']_vars
<1>1. TypeOK /\ Restart /\ ~SeenBackward => ComesUp'
  <2> SUFFICES ASSUME TypeOK, Restart, ~SeenBackward PROVE ComesUp'
    OBVIOUS
  <2>1. TypeOK'
    BY RestartTypeOK
  <2>2. /\ pc' = Fresh(FALSE) /\ cleaning' = "idle" /\ calibrating' = FALSE
        /\ exiting' = FALSE /\ rolling' = {}
    BY DEF Restart, Fresh
  <2>3. QED
    BY <2>1, <2>2 DEF ComesUp, Fresh
<1>2. TypeOK => [Restart /\ ~SeenBackward => ComesUp']_vars
  BY <1>1
<1>3. QED
  BY TypeCorrectOverLives, <1>2, PTL DEF CrashSpec

\* In every later life that spawns no recovery thread, too, at most one thread drives the fans:
\* what the daemon before it left on the hardware gives nobody a second claim.
THEOREM OneDriverInLaterLives == ComesUp /\ [][Step]_vars => []OneDriver
<1>1. IInv => OneDriver
  BY DEF IInv
<1>2. QED
  BY ComesUpIInv, StepIInv, <1>1, PTL

-----------------------------------------------------------------------------
(* The flags.                                                               *)

LEMMA InitFlags == Init => FlagsMatchDrivers
BY DEF Init, Fresh, Workers, Threads, FlagsMatchDrivers, SequenceLabels,
       StartLabels, StopLabels, MeasureLabels

\* A thread that stops driving clears its flag, or sets a cycle running, in
\* the same step.
LEMMA StepFlags ==
  IInv /\ FlagsMatchDrivers /\ [Step]_vars => FlagsMatchDrivers'
<1> SUFFICES ASSUME IInv, FlagsMatchDrivers, [Step]_vars PROVE FlagsMatchDrivers'
  OBVIOUS
<1> USE ThreadsAssumption
<1> USE DEF IInv, TypeOK, Places, Claims, OneDriver, Drives, Workers, Threads, At, Move, Go,
            state, hardware, locals, world, vars, SequenceLabels, StartLabels,
            StopLabels, MeasureLabels, TickLabels, FlagsMatchDrivers
<1>1. ASSUME NEW t \in Threads, Carry(t) PROVE FlagsMatchDrivers'
  <2>1. CASE Probe(t)
    BY <2>1 DEF Probe
  <2>2. CASE Brake(t)
    BY <2>2 DEF Brake, RollBack, Reverse
  <2>3. CASE AwaitStopped(t)
    BY <2>3 DEF AwaitStopped, RollBack
  <2>4. CASE Engage(t)
    BY <2>4 DEF Engage, RollBack
  <2>5. CASE ToggleOn(t)
    BY <2>5 DEF ToggleOn
  <2>6. CASE Run(t)
    BY <2>6 DEF Run, Phases
  <2>7. CASE Refuse(t)
    BY <2>7 DEF Refuse
  <2>8. CASE Query(t)
    BY <2>8 DEF Query
  <2>9. CASE Ramp(t)
    BY <2>9 DEF Ramp, Command
  <2>10. CASE Release(t)
    BY <2>10 DEF Release, Command, AfterStop, Released
  <2>11. CASE ToggleOff(t)
    BY <2>11 DEF ToggleOff, Command, AfterStop, Released
  <2>12. CASE Finish(t)
    BY <2>12 DEF Finish
  <2>13. CASE NoteHeat(t)
    BY <2>13 DEF NoteHeat, Home
  <2>14. CASE Tick(t)
    BY <2>14 DEF Tick, AfterTick, Home
  <2>15. QED
    BY <1>1, <2>1, <2>2, <2>3, <2>4, <2>5, <2>6, <2>7, <2>8, <2>9, <2>10,
       <2>11, <2>12, <2>13, <2>14 DEF Carry
<1>2. ASSUME NEW t \in Clients, Client(t) PROVE FlagsMatchDrivers'
  <2>1. CASE StartCleaning(t)
    BY <2>1 DEF StartCleaning
  <2>2. CASE StopCleaning(t)
    BY <2>2 DEF StopCleaning, BeginStop, StopEntry, Running, Phases
  <2>3. CASE StatusEnds(t)
    BY <2>3 DEF StatusEnds, EndExpired, BeginStop, StopEntry, Running, Phases
  <2>4. CASE ClientTick(t)
    BY <2>4 DEF ClientTick
  <2>5. CASE ClaimFans(t)
    BY <2>5 DEF ClaimFans
  <2>6. CASE Measure(t)
    BY <2>6 DEF Measure
  <2>7. CASE Restore(t)
    BY <2>7 DEF Restore
  <2>8. CASE Unclaim(t)
    BY <2>8 DEF Unclaim
  <2>9. QED
    BY <1>2, <2>1, <2>2, <2>3, <2>4, <2>5, <2>6, <2>7, <2>8 DEF Client
<1>3. ASSUME NEW c \in Cycles, Fire(c) \/ Expire(c) PROVE FlagsMatchDrivers'
  <2>1. CASE Fire(c)
    BY <2>1 DEF Fire, BeginStop, StopEntry, Phases
  <2>2. CASE Expire(c)
    BY <2>2 DEF Expire
  <2>3. QED
    BY <1>3, <2>1, <2>2
<1>4. CASE LoopPass
  BY <1>4 DEF LoopPass, EndExpired, BeginStop, StopEntry, Running, Phases
<1>5. CASE LoopPanics
  BY <1>5 DEF LoopPanics
<1>6. CASE Recover
  BY <1>6 DEF Recover
<1>7. CASE Leave
  BY <1>7 DEF Leave, StopEntry
<1>8. CASE HandBack
  BY <1>8 DEF HandBack
<1>9. CASE Die
  BY <1>9 DEF Die
<1>10. CASE Spin
  BY <1>10 DEF Spin
<1>11. CASE UNCHANGED vars
  BY <1>11
<1>12. QED
  BY <1>1, <1>2, <1>3, <1>4, <1>5, <1>6, <1>7, <1>8, <1>9, <1>10, <1>11 DEF Step

\* A flag is set exactly while a thread is there to clear it.
THEOREM FlagsSound == LifeSpec => []FlagsMatchDrivers
<1>1. QED
  BY InitIInv, StepIInv, InitFlags, StepFlags, PTL DEF LifeSpec

-----------------------------------------------------------------------------
(* The hardware.                                                            *)

LEMMA InitGrip == Init => Grip /\ NoSilentReverse
BY ThreadsAssumption DEF Init, Fresh, Workers, Threads, Grip, NoSilentReverse, Released

\* Nobody but the driver commands the firmware while the daemon stays.
LEMMA StepGrip ==
  IInv /\ Grip /\ NoSilentReverse /\ [Step]_vars => Grip' /\ NoSilentReverse'
<1> SUFFICES ASSUME IInv, Grip, NoSilentReverse, [Step]_vars PROVE Grip' /\ NoSilentReverse'
  OBVIOUS
<1> USE ThreadsAssumption
<1> USE DEF IInv, TypeOK, Places, Claims, OneDriver, Drives, Workers, Threads, At, Move, Go,
            state, hardware, locals, world, vars, SequenceLabels, StartLabels,
            StopLabels, MeasureLabels, TickLabels, Grip,
            NoSilentReverse
<1>1. ASSUME NEW t \in Threads, Carry(t) PROVE Grip' /\ NoSilentReverse'
  <2>1. CASE Probe(t)
    BY <2>1 DEF Probe
  <2>2. CASE Brake(t)
    BY <2>2 DEF Brake, RollBack, Reverse
  <2>3. CASE AwaitStopped(t)
    BY <2>3 DEF AwaitStopped, RollBack
  <2>4. CASE Engage(t)
    BY <2>4 DEF Engage, RollBack
  <2>5. CASE ToggleOn(t)
    BY <2>5 DEF ToggleOn
  <2>6. CASE Run(t)
    BY <2>6 DEF Run, Phases
  <2>7. CASE Refuse(t)
    BY <2>7 DEF Refuse
  <2>8. CASE Query(t)
    BY <2>8 DEF Query
  <2>9. CASE Ramp(t)
    BY <2>9 DEF Ramp, Command
  <2>10. CASE Release(t)
    BY <2>10 DEF Release, Command, AfterStop, Released
  <2>11. CASE ToggleOff(t)
    BY <2>11 DEF ToggleOff, Command, AfterStop, Released
  <2>12. CASE Finish(t)
    BY <2>12 DEF Finish
  <2>13. CASE NoteHeat(t)
    BY <2>13 DEF NoteHeat, Home
  <2>14. CASE Tick(t)
    BY <2>14 DEF Tick, AfterTick, Home
  <2>15. QED
    BY <1>1, <2>1, <2>2, <2>3, <2>4, <2>5, <2>6, <2>7, <2>8, <2>9, <2>10,
       <2>11, <2>12, <2>13, <2>14 DEF Carry
<1>2. ASSUME NEW t \in Clients, Client(t) PROVE Grip' /\ NoSilentReverse'
  <2>1. CASE StartCleaning(t)
    BY <2>1 DEF StartCleaning
  <2>2. CASE StopCleaning(t)
    BY <2>2 DEF StopCleaning, BeginStop, StopEntry, Running, Phases
  <2>3. CASE StatusEnds(t)
    BY <2>3 DEF StatusEnds, EndExpired, BeginStop, StopEntry, Running, Phases
  <2>4. CASE ClientTick(t)
    BY <2>4 DEF ClientTick
  <2>5. CASE ClaimFans(t)
    BY <2>5 DEF ClaimFans
  <2>6. CASE Measure(t)
    BY <2>6 DEF Measure
  <2>7. CASE Restore(t)
    BY <2>7 DEF Restore
  <2>8. CASE Unclaim(t)
    BY <2>8 DEF Unclaim
  <2>9. QED
    BY <1>2, <2>1, <2>2, <2>3, <2>4, <2>5, <2>6, <2>7, <2>8 DEF Client
<1>3. ASSUME NEW c \in Cycles, Fire(c) \/ Expire(c) PROVE Grip' /\ NoSilentReverse'
  <2>1. CASE Fire(c)
    BY <2>1 DEF Fire, BeginStop, StopEntry, Phases
  <2>2. CASE Expire(c)
    BY <2>2 DEF Expire
  <2>3. QED
    BY <1>3, <2>1, <2>2
<1>4. CASE LoopPass
  BY <1>4 DEF LoopPass, EndExpired, BeginStop, StopEntry, Running, Phases
<1>5. CASE LoopPanics
  BY <1>5 DEF LoopPanics
<1>6. CASE Recover
  BY <1>6 DEF Recover
<1>7. CASE Leave
  BY <1>7 DEF Leave, StopEntry
<1>8. CASE HandBack
  BY <1>8 DEF HandBack
<1>9. CASE Die
  BY <1>9 DEF Die
<1>10. CASE Spin
  BY <1>10 DEF Spin, Reverse
<1>11. CASE UNCHANGED vars
  BY <1>11
<1>12. QED
  BY <1>1, <1>2, <1>3, <1>4, <1>5, <1>6, <1>7, <1>8, <1>9, <1>10, <1>11 DEF Step

\* The fans are never left reversed with no cycle under way and nothing said.
THEOREM NeverSilentlyReversed == LifeSpec => []NoSilentReverse
<1>1. QED
  BY InitIInv, StepIInv, InitGrip, StepGrip, PTL DEF LifeSpec

\* The grip a thread at "engage" has is what the action property asks for.
LEMMA EngagedStopped ==
  ASSUME TachReadable, Grip, NEW t \in Clients, pc[t] = "engage", ~exiting,
         Exit \notin Clients
  PROVE  spin = "stopped"
BY DEF Grip, Workers, Threads

\* Where the fans can be read, no cycle reverses blades that turn.
THEOREM StoppedBeforeReversed ==
  ASSUME TachReadable PROVE LifeSpec => NeverReversedAtSpeed
<1>1. Exit \notin Clients
  BY ThreadsAssumption
<1>2. Grip
        => [\A t \in Clients : pc[t] = "engage" /\ pc'[t] = "run" /\ ~exiting
              => spin = "stopped"]_vars
  BY <1>1, EngagedStopped
<1>3. QED
  BY InitIInv, StepIInv, InitGrip, StepGrip, <1>2, PTL DEF LifeSpec, NeverReversedAtSpeed

\* A thread that is not an armed watchdog leaves the armed ones as they are, and an armed one
\* takes the cleaner's flag from its own cycle only.
LEMMA WatchdogsStay ==
  TypeOK /\ Step =>
    \A c \in Cycles : pc[c] = "armed" /\ cleaning' # cleaning /\ pc'[c] # "armed" => cleaning = c
<1> SUFFICES ASSUME TypeOK, Step,
                    NEW c \in Cycles, pc[c] = "armed", cleaning' # cleaning, pc'[c] # "armed"
             PROVE  cleaning = c
  OBVIOUS
<1>1. pc \in [Threads -> Labels] /\ c \in Threads
  BY DEF TypeOK, Threads
<1>2. \A t \in Threads, label \in STRING : Go(t, label) /\ pc[t] # "armed" => pc'[c] = "armed"
  BY <1>1 DEF Go
<1> USE DEF At, Move, Go, state
<1>3. ASSUME NEW t \in Threads, Carry(t) PROVE FALSE
  <2>1. CASE Run(t)
    BY <1>1, <2>1 DEF Run
  <2>2. CASE Refuse(t)
    BY <1>1, <2>2 DEF Refuse
  <2>3. CASE Finish(t)
    BY <1>1, <2>3 DEF Finish
  <2>4. UNCHANGED cleaning \/ Run(t) \/ Refuse(t) \/ Finish(t)
    BY <1>3 DEF Carry, Probe, Brake, AwaitStopped, Engage, ToggleOn, Query, Ramp, Release,
                ToggleOff, NoteHeat, Tick, Command
  <2> QED
    BY <2>1, <2>2, <2>3, <2>4
<1>4. ASSUME NEW t \in Clients, Client(t) PROVE FALSE
  <2>1. t \in Threads
    BY DEF Threads
  <2>2. CASE StartCleaning(t) \/ StopCleaning(t) \/ StatusEnds(t)
    BY <1>1, <2>1, <2>2 DEF StartCleaning, StopCleaning, StatusEnds, EndExpired, BeginStop
  <2>3. CASE ClientTick(t) \/ ClaimFans(t) \/ Measure(t) \/ Restore(t) \/ Unclaim(t)
    BY <2>3 DEF ClientTick, ClaimFans, Measure, Restore, Unclaim
  <2> QED
    BY <1>4, <2>2, <2>3 DEF Client
<1>5. ASSUME NEW d \in Cycles, Fire(d) \/ Expire(d) PROVE cleaning = c
  <2>1. d \in Threads
    BY DEF Threads
  <2>2. CASE Fire(d)
    BY <1>1, <2>1, <2>2 DEF Fire, BeginStop
  <2>3. CASE Expire(d)
    BY <2>3 DEF Expire
  <2> QED
    BY <1>5, <2>2, <2>3
<1>6. Loop \in Threads /\ Recovery \in Threads /\ Exit \in Threads
  BY DEF Threads
<1>7. ~LoopPass /\ ~Recover
  BY <1>1, <1>6 DEF LoopPass, EndExpired, BeginStop, Recover
<1>8. ~LoopPanics /\ ~Leave /\ ~HandBack /\ ~Die /\ ~Spin
  BY DEF LoopPanics, Leave, HandBack, Die, Spin
<1> QED
  BY <1>3, <1>4, <1>5, <1>7, <1>8 DEF Step

\* No watchdog ends a cycle other than the one it was armed for, however many cycles there are
\* (arm_watchdog).
THEOREM WatchdogEndsItsOwn == LifeSpec => OwnCycleOnly
<1>1. TypeOK /\ [Step]_vars
        => [\A c \in Cycles : pc[c] = "armed" /\ cleaning' # cleaning /\ pc'[c] # "armed"
              => cleaning = c]_vars
  BY WatchdogsStay
<1>2. QED
  BY InitTypeOK, StepTypeOK, <1>1, PTL DEF LifeSpec, OwnCycleOnly

-----------------------------------------------------------------------------
(* FanOwnership implements FanTenure.                                       *)

LEMMA InitTenure == Init => Tenure!Init
BY ThreadsAssumption DEF Init, Tenure!Init, Tenant, Phases

LEMMA StepTenure == IInv /\ [Step]_vars => [Tenure!Next]_(Tenure!vars)
<1> SUFFICES ASSUME IInv, [Step]_vars PROVE Tenure!Next \/ UNCHANGED Tenure!vars
  OBVIOUS
<1> DEFINE Implemented == Tenure!Next \/ UNCHANGED Tenure!vars
<1> USE ThreadsAssumption
<1> USE DEF IInv, TypeOK, Places, Claims, Workers, Threads, At, Move, Go,
            state, hardware, locals, world, vars, SequenceLabels, StartLabels,
            StopLabels, MeasureLabels, TickLabels, Phases,
            Tenant, Tenure!vars, Tenure!Next, Tenure!Become
<1>1. ASSUME NEW t \in Threads, Carry(t) PROVE Implemented
  <2>1. CASE Probe(t)
    BY <2>1 DEF Probe
  <2>2. CASE Brake(t)
    BY <2>2 DEF Brake, RollBack
  <2>3. CASE AwaitStopped(t)
    BY <2>3 DEF AwaitStopped, RollBack
  <2>4. CASE Engage(t)
    BY <2>4 DEF Engage, RollBack
  <2>5. CASE ToggleOn(t)
    BY <2>5 DEF ToggleOn
  <2>6. CASE Run(t)
    BY <2>6 DEF Run, Phases
  <2>7. CASE Refuse(t)
    BY <2>7 DEF Refuse
  <2>8. CASE Query(t)
    BY <2>8 DEF Query
  <2>9. CASE Ramp(t)
    BY <2>9 DEF Ramp, Command
  <2>10. CASE Release(t)
    BY <2>10 DEF Release, Command
  <2>11. CASE ToggleOff(t)
    BY <2>11 DEF ToggleOff, Command
  <2>12. CASE Finish(t)
    BY <2>12 DEF Finish
  <2>13. CASE NoteHeat(t)
    BY <2>13 DEF NoteHeat
  <2>14. CASE Tick(t)
    BY <2>14 DEF Tick, MayControl, Tenure!Control
  <2>15. QED
    BY <1>1, <2>1, <2>2, <2>3, <2>4, <2>5, <2>6, <2>7, <2>8, <2>9, <2>10,
       <2>11, <2>12, <2>13, <2>14 DEF Carry
<1>2. ASSUME NEW t \in Clients, Client(t) PROVE Implemented
  <2>1. CASE StartCleaning(t)
    BY <2>1 DEF StartCleaning
  <2>2. CASE StopCleaning(t)
    BY <2>2 DEF StopCleaning, BeginStop, Running, Phases
  <2>3. CASE StatusEnds(t)
    BY <2>3 DEF StatusEnds, EndExpired, BeginStop, Running, Phases
  <2>4. CASE ClientTick(t)
    BY <2>4 DEF ClientTick
  <2>5. CASE ClaimFans(t)
    BY <2>5 DEF ClaimFans
  <2>6. CASE Measure(t)
    BY <2>6 DEF Measure, Orders, Tenure!Measure
  <2>7. CASE Restore(t)
    BY <2>7 DEF Restore, Orders, Tenure!Measure
  <2>8. CASE Unclaim(t)
    BY <2>8 DEF Unclaim
  <2>9. QED
    BY <1>2, <2>1, <2>2, <2>3, <2>4, <2>5, <2>6, <2>7, <2>8 DEF Client
<1>3. ASSUME NEW c \in Cycles, Fire(c) \/ Expire(c) PROVE Implemented
  <2>1. CASE Fire(c)
    BY <2>1 DEF Fire, BeginStop, Phases
  <2>2. CASE Expire(c)
    BY <2>2 DEF Expire
  <2>3. QED
    BY <1>3, <2>1, <2>2
<1>4. CASE LoopPass
  BY <1>4 DEF LoopPass, EndExpired, BeginStop, Running, Phases
<1>5. CASE LoopPanics
  BY <1>5 DEF LoopPanics, Tenure!ToFirmware
<1>6. CASE Recover
  BY <1>6 DEF Recover
<1>7. CASE Leave
  BY <1>7 DEF Leave, Tenure!Close
<1>8. CASE HandBack
  BY <1>8 DEF HandBack, Tenure!ToFirmware
<1>9. CASE Die
  BY <1>9 DEF Die
<1>10. CASE Spin
  BY <1>10 DEF Spin
<1>11. CASE UNCHANGED vars
  BY <1>11
<1>12. QED
  BY <1>1, <1>2, <1>3, <1>4, <1>5, <1>6, <1>7, <1>8, <1>9, <1>10, <1>11 DEF Step

\* The threads together keep the promise of FanTenure: one tenant at a time,
\* nothing ordered by the control loop while another has the fans or once the
\* daemon leaves.
THEOREM ImplementsTenure == LifeSpec => TenureKept
<1>1. QED
  BY InitIInv, StepIInv, InitTenure, StepTenure, PTL DEF LifeSpec, TenureKept, Tenure!Spec

\* So does every later life that spawns no recovery thread, from whatever order it finds on the
\* fans, with its flags as sound and its watchdogs as faithful as those of the first.
THEOREM LaterLivesImplementTenure ==
  ComesUp /\ [][Step]_vars => TenureKept /\ []FlagsMatchDrivers /\ OwnCycleOnly
<1>1. ComesUp => Tenure!Init
  BY ThreadsAssumption DEF ComesUp, TypeOK, Tenure!Init, Tenant, Phases
<1>2. ComesUp => FlagsMatchDrivers
  BY DEF ComesUp, Fresh, Workers, Threads, FlagsMatchDrivers, SequenceLabels, StartLabels,
         StopLabels, MeasureLabels
<1>3. IInv /\ [Step]_vars
        => [\A c \in Cycles : pc[c] = "armed" /\ cleaning' # cleaning /\ pc'[c] # "armed"
              => cleaning = c]_vars
  BY WatchdogsStay DEF IInv
<1>4. QED
  BY ComesUpIInv, StepIInv, StepTenure, StepFlags, <1>1, <1>2, <1>3, PTL
     DEF TenureKept, Tenure!Spec, OwnCycleOnly

=============================================================================
