---------------------------- MODULE Power_proofs ----------------------------
(***************************************************************************)
(* What holds of Power for any number of clients, changes and restarts: the *)
(* types, and each of the four invariants that its run checks.              *)
(***************************************************************************)
EXTENDS Power, TLAPS

-----------------------------------------------------------------------------
(* Types.                                                                   *)

Machines == [profile : {Eco, Balanced, Performance}, envelope : Tunable \cup {Stock}]
Ears == [profile : PowerModes \cup {NoMode}, last : 0..MaxChanges, heard : BOOLEAN]

LEMMA ModesAreNumbers ==
  /\ PowerModes = {Eco, Balanced, Performance, Unlimited}
  /\ NoMode \notin PowerModes
  /\ \A m \in PowerModes : Family(m) \in {Eco, Balanced, Performance}
  /\ \A m \in {Eco, Balanced, Performance} : m \in PowerModes /\ Family(m) = m
BY DEF PowerModes, Eco, Balanced, Performance, Unlimited, NoMode, Family

LEMMA EnvelopeTypes ==
  ASSUME NEW c \in Configs, NEW mach \in Machines, NEW m \in PowerModes, NEW lands \in BOOLEAN
  PROVE  /\ EnvelopeConfig(c, m, lands) \in Configs
         /\ EnvelopeConfig(c, m, lands).mode = c.mode
         /\ EnvelopeConfig(c, m, lands).restore = c.restore
         /\ EnvelopeConfig(c, m, lands).tuned = c.tuned
         /\ EnvelopeOn(mach, c, m, lands) \in Machines
         /\ EnvelopeOn(mach, c, m, lands).profile = mach.profile
<1>1. EnvelopeOf(c, m) \in Tunable \cup {Stock}
  BY DEF EnvelopeOf, Configs
<1> QED
  BY <1>1 DEF EnvelopeConfig, EnvelopeOn, Configs, Machines

\* What applying a mode leaves of the configuration and the machine.
LEMMA AppliedTypes ==
  ASSUME config \in Configs, machine \in Machines, NEW m \in PowerModes, NEW outcome \in Outcomes
  PROVE  /\ AppliedConfig(m, outcome) \in Configs
         /\ AppliedConfig(m, outcome).mode = config.mode
         /\ AppliedConfig(m, outcome).restore = config.restore
         /\ AppliedConfig(m, outcome).tuned = config.tuned
         /\ AppliedMachine(m, outcome) \in Machines
         /\ AppliedMachine(m, outcome).profile = IF outcome = "refused" THEN machine.profile
                                                 ELSE Family(m)
<1>1. [machine EXCEPT !.profile = Family(m)] \in Machines
  BY ModesAreNumbers DEF Machines
<1>2. [machine EXCEPT !.profile = Family(m)].profile = Family(m)
  BY DEF Machines
<1>3. (outcome = "applied") \in BOOLEAN
  OBVIOUS
<1>4. CASE outcome = "refused"
  BY <1>4 DEF AppliedConfig, AppliedMachine
<1>5. CASE outcome # "refused"
  <2> DEFINE moved == [machine EXCEPT !.profile = Family(m)]
             lands == outcome = "applied"
  <2>1. /\ AppliedConfig(m, outcome) = EnvelopeConfig(config, m, lands)
        /\ AppliedMachine(m, outcome) = EnvelopeOn(moved, config, m, lands)
    BY <1>5 DEF AppliedConfig, AppliedMachine
  <2>2. moved \in Machines /\ moved.profile = Family(m) /\ lands \in BOOLEAN
    BY <1>1, <1>2, <1>3
  <2> HIDE DEF moved, lands
  <2> QED
    BY <1>5, <2>1, <2>2, EnvelopeTypes
<1> QED
  BY <1>4, <1>5

\* What the fan module makes of an announcement.
LEMMA HearTypes ==
  ASSUME fan \in Ears, NEW n \in News, FanHears(n)
  PROVE  fan' \in Ears
<1>1. [profile |-> n.mode, last |-> n.generation, heard |-> TRUE] \in Ears
  BY PowerAssumption DEF News, NoNews, Ears
<1> QED
  BY <1>1 DEF FanHears

\* The types, and that the generations of this life are among the changes of all.
TypesKnown == PowerTypes /\ generation <= changes

\* A recorded change.
LEMMA RecordTypes ==
  ASSUME TypesKnown, NEW t \in Threads, NEW m \in PowerModes, Record(t, m)
  PROVE  /\ mode' \in PowerModes /\ generation' \in 0..MaxChanges
         /\ changes' \in 0..MaxChanges /\ news' \in [Threads -> News]
         /\ generation' <= changes'
<1>1. generation + 1 \in 0..MaxChanges /\ changes + 1 \in 0..MaxChanges /\ generation + 1 <= changes + 1
  BY PowerAssumption DEF TypesKnown, PowerTypes, Record
<1>2. [mode |-> m, generation |-> generation + 1] \in News
  BY <1>1 DEF News
<1> QED
  BY <1>1, <1>2 DEF Record, TypesKnown, PowerTypes

\* What set_mode and the supervisor do to the state, apart from the configuration.
LEMMA ApplyTypes ==
  ASSUME TypesKnown, NEW t \in Threads, NEW m \in PowerModes, NEW outcome \in Outcomes,
         ApplyTo(t, m, outcome)
  PROVE  /\ mode' \in PowerModes /\ generation' \in 0..MaxChanges
         /\ changes' \in 0..MaxChanges /\ news' \in [Threads -> News]
         /\ generation' <= changes'
         /\ machine' \in Machines /\ expected' \in {Eco, Balanced, Performance}
         /\ refused' \in BOOLEAN /\ foreign' \in BOOLEAN
<1>1. machine' \in Machines
  BY AppliedTypes DEF ApplyTo, TypesKnown, PowerTypes, Machines
<1>2. expected' \in {Eco, Balanced, Performance} /\ refused' \in BOOLEAN /\ foreign' \in BOOLEAN
  BY <1>1 DEF ApplyTo, TypesKnown, PowerTypes, Machines
<1>3. CASE Took(outcome)
  BY <1>1, <1>2, <1>3, RecordTypes DEF ApplyTo
<1>4. CASE ~Took(outcome)
  BY <1>1, <1>2, <1>4 DEF ApplyTo, TypesKnown, PowerTypes
<1> QED
  BY <1>3, <1>4

LEMMA PersistTypes ==
  ASSUME TypesKnown, NEW c \in Configs, Persist(c)
  PROVE  saved' \in Configs /\ unsaved' \in BOOLEAN
BY DEF Persist, TypesKnown, PowerTypes

LEMMA SetModeTypes ==
  ASSUME TypesKnown, NEW t \in Threads, NEW m \in PowerModes, SetModeOn(t, m)
  PROVE  /\ mode' \in PowerModes /\ generation' \in 0..MaxChanges
         /\ changes' \in 0..MaxChanges /\ news' \in [Threads -> News]
         /\ generation' <= changes'
         /\ machine' \in Machines /\ expected' \in {Eco, Balanced, Performance}
         /\ refused' \in BOOLEAN /\ foreign' \in BOOLEAN
         /\ config' \in Configs /\ saved' \in Configs /\ unsaved' \in BOOLEAN
<1>1. PICK outcome \in Outcomes :
        /\ ApplyTo(t, m, outcome)
        /\ config' = [AppliedConfig(m, outcome) EXCEPT !.mode = IF Took(outcome) THEN m ELSE @]
        /\ Persist(config')
  BY DEF SetModeOn
<1>2. AppliedConfig(m, outcome) \in Configs
  BY AppliedTypes DEF TypesKnown, PowerTypes, Machines
<1>3. config' \in Configs
  BY <1>1, <1>2 DEF Configs
<1> QED
  BY <1>1, <1>3, ApplyTypes, PersistTypes

LEMMA PowerTypesAtFirst == PowerInit => TypesKnown
<1> SUFFICES ASSUME PowerInit PROVE TypesKnown
  OBVIOUS
<1>1. mode \in {Eco, Balanced, Performance} /\ mode \in PowerModes
  BY ModesAreNumbers DEF PowerInit
<1>2. 0 \in 0..MaxChanges /\ 0 \in 0..MaxRestarts /\ NoNews \in News
  BY PowerAssumption DEF News
<1>3. config \in Configs
  BY DEF PowerInit, Configs
<1>4. machine \in Machines /\ fan \in Ears /\ reapply \in [Clients -> PowerModes \cup {NoMode}]
  BY <1>1, <1>2 DEF PowerInit, Machines, Ears
<1>5. news \in [Threads -> News] /\ wiring \in Stages
  BY <1>2 DEF PowerInit, Stages
<1>6. generation <= changes
  BY DEF PowerInit
<1> QED
  BY <1>1, <1>2, <1>3, <1>4, <1>5, <1>6
     DEF PowerInit, TypesKnown, PowerTypes, Machines, Ears

LEMMA PowerTypesKept == TypesKnown /\ [PowerNext]_powerVars => TypesKnown'
<1> SUFFICES ASSUME TypesKnown, [PowerNext]_powerVars
             PROVE  TypesKnown'
  OBVIOUS
<1>0. /\ UsedModes \subseteq PowerModes /\ Tunable \subseteq PowerModes
      /\ \A c \in Clients : c \in Threads
      /\ "supervisor" \in Threads /\ "watcher" \in Threads
      /\ NoNews \in News /\ 0 \in 0..MaxChanges
  BY PowerAssumption DEF Threads, News
<1>1. ASSUME NEW c \in Clients, NEW m \in UsedModes, SetMode(c, m) PROVE TypesKnown'
  BY <1>0, <1>1, SetModeTypes DEF SetMode, Life, TypesKnown, PowerTypes, Machines
<1>2. ASSUME NEW c \in Clients, NEW m \in Tunable, SetTuning(c, m) PROVE TypesKnown'
  <2>1. config' \in Configs
    BY <1>2 DEF SetTuning, TypesKnown, PowerTypes, Configs
  <2>2. reapply' \in [Clients -> PowerModes \cup {NoMode}]
    BY <1>0, <1>2 DEF SetTuning, TypesKnown, PowerTypes
  <2>3. saved' \in Configs /\ unsaved' \in BOOLEAN
    BY <1>2, <2>1, PersistTypes DEF SetTuning
  <2> QED
    BY <1>2, <2>1, <2>2, <2>3 DEF SetTuning, Life, TypesKnown, PowerTypes
<1>3. ASSUME NEW c \in Clients, SetApplyToOsProfile(c) PROVE TypesKnown'
  <2>1. reapply' \in [Clients -> PowerModes \cup {NoMode}]
    BY <1>3 DEF SetApplyToOsProfile, TypesKnown, PowerTypes
  <2>2. saved' \in Configs /\ unsaved' \in BOOLEAN
    BY <1>3, PersistTypes DEF SetApplyToOsProfile, TypesKnown, PowerTypes
  <2> QED
    BY <1>3, <2>1, <2>2 DEF SetApplyToOsProfile, Life, TypesKnown, PowerTypes
<1>4. ASSUME NEW c \in Clients, Reapply(c) PROVE TypesKnown'
  <2>1. reapply[c] \in PowerModes
    BY <1>4 DEF Reapply, TypesKnown, PowerTypes
  <2>2. reapply' \in [Clients -> PowerModes \cup {NoMode}]
    BY <1>4 DEF Reapply, TypesKnown, PowerTypes
  <2> QED
    BY <1>0, <1>4, <2>1, <2>2, SetModeTypes DEF Reapply, Life, TypesKnown, PowerTypes, Machines
<1>5. ASSUME NEW c \in Clients, NEW on \in BOOLEAN, SetRestoreOnStart(c, on) PROVE TypesKnown'
  <2>1. config' \in Configs
    BY <1>5 DEF SetRestoreOnStart, TypesKnown, PowerTypes, Configs
  <2>2. saved' \in Configs /\ unsaved' \in BOOLEAN
    BY <1>5, <2>1, PersistTypes DEF SetRestoreOnStart
  <2> QED
    BY <1>5, <2>1, <2>2 DEF SetRestoreOnStart, Life, TypesKnown, PowerTypes
<1>6. CASE Decide
  BY <1>0, <1>6 DEF Decide, Life, TypesKnown, PowerTypes
<1>7. CASE Supervise
  <2>1. decision \in PowerModes
    BY <1>7 DEF Supervise, TypesKnown, PowerTypes
  <2>2. PICK outcome \in Outcomes :
          /\ ApplyTo("supervisor", decision, outcome)
          /\ \/ /\ config' = [AppliedConfig(decision, outcome) EXCEPT !.mode = decision]
                /\ Persist(config')
             \/ config' = AppliedConfig(decision, outcome) /\ UNCHANGED <<saved, unsaved>>
    BY <1>7 DEF Supervise
  <2>3. AppliedConfig(decision, outcome) \in Configs
    BY <2>1, AppliedTypes DEF TypesKnown, PowerTypes, Machines
  <2>4. config' \in Configs
    BY <2>1, <2>2, <2>3 DEF Configs
  <2>5. saved' \in Configs /\ unsaved' \in BOOLEAN
    BY <2>2, <2>4, PersistTypes DEF TypesKnown, PowerTypes
  <2> QED
    BY <1>0, <1>7, <2>1, <2>2, <2>4, <2>5, ApplyTypes
       DEF Supervise, Life, TypesKnown, PowerTypes, Machines
<1>8. CASE Watch
  <2>1. machine.profile \in {Eco, Balanced, Performance} /\ machine.profile \in PowerModes
    BY ModesAreNumbers DEF TypesKnown, PowerTypes
  <2>2. PICK lands \in BOOLEAN :
          /\ machine' = EnvelopeOn(machine, config, machine.profile, lands)
          /\ config' = [EnvelopeConfig(config, machine.profile, lands)
                          EXCEPT !.mode = machine.profile]
          /\ refused' = ~lands
    BY <1>8 DEF Watch
  <2>3. machine' \in Machines /\ EnvelopeConfig(config, machine.profile, lands) \in Configs
    BY <2>1, <2>2, EnvelopeTypes DEF TypesKnown, PowerTypes, Machines
  <2>4. config' \in Configs
    BY <2>1, <2>2, <2>3 DEF Configs
  <2>5. saved' \in Configs /\ unsaved' \in BOOLEAN
    BY <1>8, <2>4, PersistTypes DEF Watch
  <2> QED
    BY <1>0, <1>8, <2>1, <2>2, <2>3, <2>4, <2>5, RecordTypes
       DEF Watch, Life, TypesKnown, PowerTypes, Machines
<1>9. CASE WatchSameMode
  BY <1>9 DEF WatchSameMode, Life, TypesKnown, PowerTypes
<1>10. ASSUME NEW m \in UsedModes, Outsider(Family(m)) PROVE TypesKnown'
  BY <1>0, <1>10, ModesAreNumbers DEF Outsider, Life, TypesKnown, PowerTypes
<1>11. ASSUME NEW t \in Threads, Deliver(t) PROVE TypesKnown'
  <2>1. news' \in [Threads -> News]
    BY <1>0, <1>11 DEF Deliver, TypesKnown, PowerTypes
  <2>2. news[t] \in News /\ fan \in Ears
    BY <1>11 DEF TypesKnown, PowerTypes, Ears
  <2>3. fan' \in Ears
    BY <1>11, <2>2, HearTypes DEF Deliver
  <2> QED
    BY <1>11, <2>1, <2>3 DEF Deliver, TypesKnown, PowerTypes, Ears
<1>12. CASE Wire
  <2>1. snapshot' \in News
    BY <1>0, <1>12 DEF Wire, TypesKnown, PowerTypes, News
  <2>2. fan' \in Ears
    <3>1. fan \in Ears /\ snapshot \in News
      BY DEF TypesKnown, PowerTypes, Ears
    <3> QED
      BY <1>12, <3>1, HearTypes DEF Wire
  <2>3. wiring' \in Stages
    BY <1>12 DEF Wire, Stages
  <2> QED
    BY <1>12, <2>1, <2>2, <2>3 DEF Wire, State, TypesKnown, PowerTypes, Ears
<1>13. CASE Leave
  <2>1. config' \in Configs
    BY <1>13 DEF Leave, TypesKnown, PowerTypes, Configs
  <2>2. saved' \in Configs /\ unsaved' \in BOOLEAN
    BY <1>13, <2>1, PersistTypes DEF Leave, TypesKnown, PowerTypes
  <2> QED
    BY <1>13, <2>1, <2>2 DEF Leave, State, TypesKnown, PowerTypes, Stages
<1>14. ASSUME NEW handover \in BOOLEAN, NEW reboot \in BOOLEAN, Start(handover, reboot)
       PROVE TypesKnown'
  <2> DEFINE mach == IF reboot THEN [machine EXCEPT !.envelope = Stock] ELSE machine
  <2>1. mach \in Machines
    BY DEF TypesKnown, PowerTypes, Machines
  <2>2. /\ mode' \in PowerModes /\ machine' \in Machines /\ config' \in Configs
        /\ refused' \in BOOLEAN /\ forgotten' \in BOOLEAN
    <3>1. forgotten' = (mach.envelope # Stock /\ ~saved.owned)
      BY <1>14 DEF Start
    <3>2. CASE mode' = mach.profile /\ machine' = mach /\ config' = saved /\ refused' = TRUE
      BY <2>1, <3>1, <3>2, ModesAreNumbers DEF TypesKnown, PowerTypes, Machines
    <3>3. ASSUME NEW m \in BootModes(saved.mode), NEW outcome \in {"applied", "limits refused"},
                 saved.mode # NoMode,
                 mode' = m,
                 machine' = EnvelopeOn([mach EXCEPT !.profile = Family(m)], saved, m,
                                       outcome = "applied"),
                 config' = EnvelopeConfig(saved, m, outcome = "applied"),
                 refused' = (outcome # "applied")
          PROVE  /\ mode' \in PowerModes /\ machine' \in Machines /\ config' \in Configs
                 /\ refused' \in BOOLEAN /\ forgotten' \in BOOLEAN
      <4>1. m \in PowerModes /\ saved \in Configs
        BY <3>3, ModesAreNumbers DEF BootModes, TypesKnown, PowerTypes, Configs
      <4>2. [mach EXCEPT !.profile = Family(m)] \in Machines /\ (outcome = "applied") \in BOOLEAN
        BY <2>1, <4>1, ModesAreNumbers DEF Machines
      <4> QED
        BY <3>1, <3>3, <4>1, <4>2, EnvelopeTypes
    <3> QED
      BY <1>14, <3>2, <3>3 DEF Start
  <2>3. expected' \in {Eco, Balanced, Performance}
    BY <1>14, <2>2 DEF Start, Machines
  <2>4. restarts' \in 0..MaxRestarts
    BY <1>14, PowerAssumption DEF Start, TypesKnown, PowerTypes
  <2>5. reapply' \in [Clients -> PowerModes \cup {NoMode}] /\ news' \in [Threads -> News]
    BY <1>0, <1>14 DEF Start
  <2>6. fan' \in Ears /\ wiring' \in Stages /\ snapshot' \in News /\ decision' = NoMode
    BY <1>0, <1>14 DEF Start, Ears, Stages
  <2>7. generation' = 0 /\ UNCHANGED <<saved, changes>> /\ foreign' \in BOOLEAN /\ unsaved' \in BOOLEAN
    BY <1>14 DEF Start
  <2> HIDE DEF mach
  <2>8. generation' <= changes'
    BY <2>7, PowerAssumption DEF TypesKnown, PowerTypes
  <2> QED
    BY <1>0, <2>2, <2>3, <2>4, <2>5, <2>6, <2>7, <2>8 DEF TypesKnown, PowerTypes, Machines, Ears
<1>15. CASE UNCHANGED powerVars
  BY <1>15 DEF powerVars, TypesKnown, PowerTypes
<1> QED
  BY <1>1, <1>2, <1>3, <1>4, <1>5, <1>6, <1>7, <1>8, <1>9, <1>10, <1>11, <1>12, <1>13, <1>14, <1>15
     DEF PowerNext

\* Every state of the module and of its surroundings has the types it is written with.
THEOREM PowerTypesAlways == PowerSpec => []PowerTypes
<1>1. TypesKnown => PowerTypes
  BY DEF TypesKnown
<1> QED
  BY <1>1, PowerTypesAtFirst, PowerTypesKept, PTL DEF PowerSpec

-----------------------------------------------------------------------------
(* The mode in force and the firmware's profile.                            *)

LEMMA ApplyInMode ==
  ASSUME TypesKnown, MachineInMode, NEW t \in Threads, NEW m \in PowerModes,
         NEW outcome \in Outcomes, ApplyTo(t, m, outcome)
  PROVE  MachineInMode'
<1>1. machine'.profile = IF outcome = "refused" THEN machine.profile ELSE Family(m)
  BY AppliedTypes DEF ApplyTo, TypesKnown, PowerTypes, Machines
<1>2. CASE Took(outcome)
  BY <1>1, <1>2 DEF ApplyTo, Record, Took, MachineInMode
<1>3. CASE ~Took(outcome)
  BY <1>1, <1>3 DEF ApplyTo, Took, MachineInMode
<1> QED
  BY <1>2, <1>3

LEMMA MachineInModeKept ==
  TypesKnown /\ MachineInMode /\ [PowerNext]_powerVars => MachineInMode'
<1> SUFFICES ASSUME TypesKnown, MachineInMode, [PowerNext]_powerVars
             PROVE  MachineInMode'
  OBVIOUS
<1>0. /\ UsedModes \subseteq PowerModes /\ \A c \in Clients : c \in Threads
      /\ "supervisor" \in Threads
  BY PowerAssumption DEF Threads
<1>1. ASSUME NEW t \in Threads, NEW m \in PowerModes, SetModeOn(t, m) PROVE MachineInMode'
  BY <1>1, ApplyInMode DEF SetModeOn
<1>2. ASSUME NEW c \in Clients, NEW m \in UsedModes, SetMode(c, m) PROVE MachineInMode'
  BY <1>0, <1>1, <1>2 DEF SetMode
<1>3. ASSUME NEW c \in Clients, Reapply(c) PROVE MachineInMode'
  <2>1. reapply[c] \in PowerModes
    BY <1>3 DEF Reapply, TypesKnown, PowerTypes
  <2> QED
    BY <1>0, <1>1, <1>3, <2>1 DEF Reapply
<1>4. CASE Supervise
  <2>1. decision \in PowerModes
    BY <1>4 DEF Supervise, TypesKnown, PowerTypes
  <2>2. \E outcome \in Outcomes : ApplyTo("supervisor", decision, outcome)
    BY <1>4 DEF Supervise
  <2> QED
    BY <1>0, <2>1, <2>2, ApplyInMode
<1>5. CASE Watch
  <2>1. machine.profile \in PowerModes /\ Family(machine.profile) = machine.profile
    BY ModesAreNumbers DEF TypesKnown, PowerTypes
  <2>2. machine'.profile = machine.profile /\ mode' = machine.profile
    BY <1>5, <2>1, EnvelopeTypes DEF Watch, Record, TypesKnown, PowerTypes, Machines
  <2> QED
    BY <2>1, <2>2 DEF MachineInMode
<1>6. ASSUME NEW m \in UsedModes, Outsider(Family(m)) PROVE MachineInMode'
  BY <1>6 DEF Outsider, MachineInMode
<1>7. ASSUME NEW handover \in BOOLEAN, NEW reboot \in BOOLEAN, Start(handover, reboot)
      PROVE MachineInMode'
  <2> DEFINE mach == IF reboot THEN [machine EXCEPT !.envelope = Stock] ELSE machine
  <2>1. mach \in Machines
    BY DEF TypesKnown, PowerTypes, Machines
  <2>2. CASE mode' = mach.profile /\ machine' = mach
    BY <2>1, <2>2, ModesAreNumbers DEF Machines, MachineInMode
  <2>3. ASSUME NEW m \in BootModes(saved.mode), NEW lands \in BOOLEAN, saved.mode # NoMode,
               mode' = m, machine' = EnvelopeOn([mach EXCEPT !.profile = Family(m)], saved, m, lands)
        PROVE  MachineInMode'
    <3> DEFINE moved == [mach EXCEPT !.profile = Family(m)]
    <3>1. m \in PowerModes /\ saved \in Configs
      BY <2>3, ModesAreNumbers DEF BootModes, TypesKnown, PowerTypes, Configs
    <3>2. moved \in Machines /\ moved.profile = Family(m)
      BY <2>1, <3>1, ModesAreNumbers DEF Machines
    <3> HIDE DEF moved
    <3>3. EnvelopeOn(moved, saved, m, lands).profile = Family(m)
      BY <2>3, <3>1, <3>2, EnvelopeTypes
    <3> QED
      BY <2>3, <3>3 DEF MachineInMode, moved
  <2> QED
    BY <1>7, <2>2, <2>3 DEF Start
<1>8. CASE WatchSameMode
  BY <1>8 DEF WatchSameMode, MachineInMode
<1>9. CASE UNCHANGED <<mode, machine, foreign>>
  BY <1>9 DEF MachineInMode
<1>11. ASSUME NEW c \in Clients, SetApplyToOsProfile(c) PROVE MachineInMode'
  BY <1>9, <1>11 DEF SetApplyToOsProfile
<1>12. ASSUME NEW c \in Clients, NEW on \in BOOLEAN, SetRestoreOnStart(c, on) PROVE MachineInMode'
  BY <1>9, <1>12 DEF SetRestoreOnStart
<1>13. ASSUME NEW t \in Threads, Deliver(t) PROVE MachineInMode'
  BY <1>9, <1>13 DEF Deliver
<1>14. CASE Decide \/ Wire \/ Leave
  BY <1>9, <1>14 DEF Decide, Wire, Leave, State
<1>15. CASE UNCHANGED powerVars
  BY <1>9, <1>15 DEF powerVars
<1>16. ASSUME NEW c \in Clients, NEW m \in Tunable, SetTuning(c, m) PROVE MachineInMode'
  BY <1>9, <1>16 DEF SetTuning
<1> QED
  BY <1>2, <1>3, <1>4, <1>5, <1>6, <1>7, <1>8, <1>11, <1>12, <1>13, <1>14, <1>15, <1>16
     DEF PowerNext

\* The mode the daemon reports is the one the firmware is in, unless another program moved the
\* firmware: after any number of refused applies, followed moves and restarts (set_mode).
THEOREM MachineAlwaysInMode == PowerSpec => []MachineInMode
<1>1. PowerInit => MachineInMode
  BY ModesAreNumbers DEF PowerInit, MachineInMode
<1> QED
  BY <1>1, PowerTypesAtFirst, PowerTypesKept, MachineInModeKept, PTL DEF PowerSpec

-----------------------------------------------------------------------------
(* The limits.                                                              *)

\* Limits that the configuration does not own are the firmware's.
LimitsOwned == config.owned \/ forgotten \/ machine.envelope = Stock

LimitsKnown == LimitsOwned /\ CapsFollowMode

\* The two together of a configuration c, a machine and a mode, where every write landed.
Following(c, mach, m) == mach.envelope = EnvelopeOf(c, m)
Owned(c, mach) == c.owned \/ mach.envelope = Stock

\* Writing a mode's limits: they are owned as long as they are there, and if they land they are
\* that mode's.
LEMMA EnvelopeWritten ==
  ASSUME NEW c \in Configs, NEW mach \in Machines, NEW m \in PowerModes, NEW lands \in BOOLEAN,
         Owned(c, mach)
  PROVE  /\ Owned(EnvelopeConfig(c, m, lands), EnvelopeOn(mach, c, m, lands))
         /\ lands => Following(EnvelopeConfig(c, m, lands), EnvelopeOn(mach, c, m, lands), m)
<1>1. CASE Idle(c, m)
  BY <1>1 DEF Idle, EnvelopeConfig, EnvelopeOn, EnvelopeOf, Owned, Following
<1>2. CASE ~Idle(c, m) /\ lands
  <2>1. /\ EnvelopeConfig(c, m, lands).owned = (m \in c.tuned)
        /\ EnvelopeConfig(c, m, lands).tuned = c.tuned
    BY <1>2 DEF EnvelopeConfig, Configs
  <2>2. EnvelopeOn(mach, c, m, lands).envelope = EnvelopeOf(c, m)
    BY <1>2 DEF EnvelopeOn, Machines
  <2> QED
    BY <2>1, <2>2 DEF EnvelopeOf, Owned, Following
<1>3. CASE ~Idle(c, m) /\ ~lands
  <2>1. EnvelopeConfig(c, m, lands).owned = TRUE
    BY <1>3 DEF EnvelopeConfig, Configs
  <2> QED
    BY <1>3, <2>1 DEF Owned
<1> QED
  BY <1>1, <1>2, <1>3

\* The mode a configuration names has nothing to do with its limits.
LEMMA ModeAside ==
  ASSUME NEW c \in Configs, NEW mach, NEW m, NEW named
  PROVE  /\ Owned([c EXCEPT !.mode = named], mach) = Owned(c, mach)
         /\ Following([c EXCEPT !.mode = named], mach, m) = Following(c, mach, m)
BY DEF Owned, Following, EnvelopeOf, Configs

\* A machine that moved to another profile is as limited as it was.
LEMMA ProfileAside ==
  ASSUME NEW c \in Configs, NEW mach \in Machines, NEW profile
  PROVE  Owned(c, [mach EXCEPT !.profile = profile]) = Owned(c, mach)
BY DEF Owned, Machines

\* Applying m, on what is in force: the configuration c that is left, whatever mode it names.
LEMMA ApplyLimits ==
  ASSUME TypesKnown, LimitsKnown, NEW t \in Threads, NEW m \in PowerModes,
         NEW outcome \in Outcomes, ApplyTo(t, m, outcome), NEW named,
         \/ config' = AppliedConfig(m, outcome)
         \/ config' = [AppliedConfig(m, outcome) EXCEPT !.mode = named],
         UNCHANGED forgotten
  PROVE  LimitsKnown'
<1>0. config \in Configs /\ machine \in Machines /\ AppliedConfig(m, outcome) \in Configs
  BY AppliedTypes DEF TypesKnown, PowerTypes, Machines
<1>1. CASE forgotten
  BY <1>1 DEF LimitsKnown, LimitsOwned, CapsFollowMode
<1>2. CASE ~forgotten /\ outcome = "refused"
  <2>1. machine' = machine /\ refused'
    BY <1>2 DEF ApplyTo, AppliedMachine
  <2>2. Owned(config, machine)
    BY <1>2 DEF LimitsKnown, LimitsOwned, Owned
  <2>3. Owned(config', machine')
    BY <1>0, <1>2, <2>1, <2>2, ModeAside DEF AppliedConfig
  <2> QED
    BY <2>1, <2>3 DEF LimitsKnown, LimitsOwned, CapsFollowMode, Owned
<1>3. CASE ~forgotten /\ outcome # "refused"
  <2> DEFINE moved == [machine EXCEPT !.profile = Family(m)]
             lands == outcome = "applied"
  <2>1. /\ AppliedConfig(m, outcome) = EnvelopeConfig(config, m, lands)
        /\ machine' = EnvelopeOn(moved, config, m, lands)
        /\ mode' = m /\ refused' = ~lands
    BY <1>3 DEF ApplyTo, AppliedMachine, AppliedConfig, Took, Record
  <2>2. moved \in Machines /\ lands \in BOOLEAN
    BY <1>0, ModesAreNumbers DEF Machines
  <2>3. Owned(config, moved)
    BY <1>0, <1>3, ProfileAside DEF LimitsKnown, LimitsOwned, Owned
  <2> HIDE DEF moved, lands
  <2>4. /\ Owned(AppliedConfig(m, outcome), machine')
        /\ lands => Following(AppliedConfig(m, outcome), machine', m)
    BY <1>0, <2>1, <2>2, <2>3, EnvelopeWritten
  <2>5. Owned(config', machine') /\ (lands => Following(config', machine', m))
    BY <1>0, <2>4, ModeAside
  <2> QED
    BY <1>3, <2>1, <2>5 DEF LimitsKnown, LimitsOwned, CapsFollowMode, Owned, Following
<1> QED
  BY <1>1, <1>2, <1>3

LEMMA LimitsKept == TypesKnown /\ LimitsKnown /\ [PowerNext]_powerVars => LimitsKnown'
<1> SUFFICES ASSUME TypesKnown, LimitsKnown, [PowerNext]_powerVars
             PROVE  LimitsKnown'
  OBVIOUS
<1>0. /\ UsedModes \subseteq PowerModes /\ \A c \in Clients : c \in Threads
      /\ "supervisor" \in Threads
      /\ config \in Configs /\ machine \in Machines
  BY PowerAssumption DEF Threads, TypesKnown, PowerTypes, Machines
<1>1. ASSUME NEW t \in Threads, NEW m \in PowerModes, SetModeOn(t, m), UNCHANGED forgotten
      PROVE  LimitsKnown'
  BY <1>1, ApplyLimits DEF SetModeOn
<1>2. ASSUME NEW c \in Clients, NEW m \in UsedModes, SetMode(c, m) PROVE LimitsKnown'
  BY <1>0, <1>1, <1>2 DEF SetMode, Life
<1>3. ASSUME NEW c \in Clients, Reapply(c) PROVE LimitsKnown'
  <2>1. reapply[c] \in PowerModes
    BY <1>3 DEF Reapply, TypesKnown, PowerTypes
  <2> QED
    BY <1>0, <1>1, <1>3, <2>1 DEF Reapply, Life
<1>4. CASE Supervise
  <2>1. decision \in PowerModes
    BY <1>4 DEF Supervise, TypesKnown, PowerTypes
  <2>2. PICK outcome \in Outcomes :
          /\ ApplyTo("supervisor", decision, outcome)
          /\ \/ config' = [AppliedConfig(decision, outcome) EXCEPT !.mode = decision]
             \/ config' = AppliedConfig(decision, outcome)
    BY <1>4 DEF Supervise
  <2> QED
    BY <1>0, <1>4, <2>1, <2>2, ApplyLimits DEF Supervise, Life
<1>5. CASE Watch
  <2>1. machine.profile \in PowerModes
    BY ModesAreNumbers DEF TypesKnown, PowerTypes
  <2>2. PICK lands \in BOOLEAN :
          /\ machine' = EnvelopeOn(machine, config, machine.profile, lands)
          /\ config' = [EnvelopeConfig(config, machine.profile, lands)
                          EXCEPT !.mode = machine.profile]
          /\ refused' = ~lands
    BY <1>5 DEF Watch
  <2>3. mode' = machine.profile /\ UNCHANGED forgotten
    BY <1>5 DEF Watch, Record, Life
  <2>4. CASE forgotten
    BY <2>3, <2>4 DEF LimitsKnown, LimitsOwned, CapsFollowMode
  <2>5. CASE ~forgotten
    <3>1. Owned(config, machine)
      BY <2>5 DEF LimitsKnown, LimitsOwned, Owned
    <3>2. EnvelopeConfig(config, machine.profile, lands) \in Configs
      BY <1>0, <2>1, EnvelopeTypes
    <3> DEFINE c == EnvelopeConfig(config, machine.profile, lands)
               mach == EnvelopeOn(machine, config, machine.profile, lands)
    <3>a. Owned(c, mach) /\ (lands => Following(c, mach, machine.profile))
      BY <1>0, <2>1, <3>1, EnvelopeWritten
    <3>b. c \in Configs /\ config' = [c EXCEPT !.mode = machine.profile] /\ machine' = mach
      BY <2>2, <3>2
    <3> HIDE DEF c, mach
    <3>c. /\ Owned(config', mach) = Owned(c, mach)
          /\ Following(config', mach, machine.profile) = Following(c, mach, machine.profile)
      BY <3>b, ModeAside
    <3>3. Owned(config', machine') /\ (lands => Following(config', machine', machine.profile))
      BY <3>a, <3>b, <3>c
    <3> QED
      BY <2>2, <2>3, <3>3 DEF LimitsKnown, LimitsOwned, CapsFollowMode, Owned, Following
  <2> QED
    BY <2>4, <2>5
<1>6. ASSUME NEW handover \in BOOLEAN, NEW reboot \in BOOLEAN, Start(handover, reboot)
      PROVE LimitsKnown'
  <2> DEFINE mach == IF reboot THEN [machine EXCEPT !.envelope = Stock] ELSE machine
  <2>1. mach \in Machines /\ saved \in Configs
    BY DEF TypesKnown, PowerTypes, Machines
  <2>2. forgotten' = (mach.envelope # Stock /\ ~saved.owned)
    BY <1>6 DEF Start
  <2>3. CASE forgotten'
    BY <2>3 DEF LimitsKnown, LimitsOwned, CapsFollowMode
  <2>4. CASE ~forgotten'
    <3>1. Owned(saved, mach)
      BY <2>2, <2>4 DEF Owned
    <3>2. CASE machine' = mach /\ config' = saved /\ refused' = TRUE
      BY <3>1, <3>2 DEF LimitsKnown, LimitsOwned, CapsFollowMode, Owned
    <3>3. ASSUME NEW m \in BootModes(saved.mode), NEW lands \in BOOLEAN, saved.mode # NoMode,
                 mode' = m, machine' = EnvelopeOn([mach EXCEPT !.profile = Family(m)], saved, m, lands),
                 config' = EnvelopeConfig(saved, m, lands), refused' = ~lands
          PROVE  LimitsKnown'
      <4> DEFINE moved == [mach EXCEPT !.profile = Family(m)]
      <4>1. m \in PowerModes
        BY <2>1, <3>3, ModesAreNumbers DEF BootModes, Configs
      <4>2. moved \in Machines /\ Owned(saved, moved)
        BY <2>1, <3>1, <4>1, ModesAreNumbers, ProfileAside DEF Machines
      <4> HIDE DEF moved, mach
      <4>3. /\ Owned(EnvelopeConfig(saved, m, lands), EnvelopeOn(moved, saved, m, lands))
            /\ lands => Following(EnvelopeConfig(saved, m, lands), EnvelopeOn(moved, saved, m, lands), m)
        BY <2>1, <3>3, <4>1, <4>2, EnvelopeWritten
      <4>4. Owned(config', machine') /\ (lands => Following(config', machine', m))
        BY <3>3, <4>3 DEF moved
      <4> QED
        BY <3>3, <4>4 DEF LimitsKnown, LimitsOwned, CapsFollowMode, Owned, Following
    <3> QED
      BY <1>6, <3>2, <3>3 DEF Start
  <2> QED
    BY <2>3, <2>4
<1>7. CASE UNCHANGED <<mode, config, machine, refused, forgotten>> /\ \A c \in Clients : reapply'[c] = NoMode => reapply[c] = NoMode
  BY <1>7 DEF LimitsKnown, LimitsOwned, CapsFollowMode, EnvelopeOf
<1>8. ASSUME NEW c \in Clients, NEW m \in Tunable, SetTuning(c, m) PROVE LimitsKnown'
  <2>1. /\ config'.owned = config.owned
        /\ \A n \in PowerModes : n # m => ((n \in config'.tuned) = (n \in config.tuned))
    BY <1>0, <1>8 DEF SetTuning, Configs
  <2>2. UNCHANGED <<mode, machine, refused, forgotten>> /\ mode \in PowerModes
    BY <1>8 DEF SetTuning, Life, TypesKnown, PowerTypes
  <2>3. /\ reapply'[c] = IF mode = m THEN m ELSE NoMode
        /\ \A d \in Clients : d # c => reapply'[d] = reapply[d]
        /\ reapply[c] = NoMode
    BY <1>8 DEF SetTuning, Free, TypesKnown, PowerTypes
  <2>4. m # NoMode
    BY PowerAssumption, ModesAreNumbers
  <2>5. LimitsOwned'
    BY <2>1, <2>2 DEF LimitsKnown, LimitsOwned
  <2>6. CapsFollowMode'
    <3>1. CASE mode = m
      BY <2>3, <2>4, <3>1 DEF CapsFollowMode
    <3>2. CASE mode # m
      BY <2>1, <2>2, <2>3, <3>2 DEF LimitsKnown, CapsFollowMode, EnvelopeOf
    <3> QED
      BY <3>1, <3>2
  <2> QED
    BY <2>5, <2>6 DEF LimitsKnown
<1>9. ASSUME NEW c \in Clients, SetApplyToOsProfile(c) PROVE LimitsKnown'
  BY <1>7, <1>9 DEF SetApplyToOsProfile, Free, Life, TypesKnown, PowerTypes
<1>10. ASSUME config' = [config EXCEPT !.mode = mode]
              \/ (\E on \in BOOLEAN : config' = [config EXCEPT !.restore = on, !.mode = IF on THEN mode ELSE @]),
              UNCHANGED <<mode, machine, refused, forgotten, reapply>>
       PROVE LimitsKnown'
  <2>1. config'.owned = config.owned /\ config'.tuned = config.tuned
    BY <1>0, <1>10 DEF Configs
  <2> QED
    BY <1>10, <2>1 DEF LimitsKnown, LimitsOwned, CapsFollowMode, EnvelopeOf
<1>11. ASSUME NEW c \in Clients, NEW on \in BOOLEAN, SetRestoreOnStart(c, on) PROVE LimitsKnown'
  BY <1>10, <1>11 DEF SetRestoreOnStart, Life
<1>12. CASE Leave
  BY <1>7, <1>10, <1>12 DEF Leave, State
<1>13. ASSUME NEW t \in Threads, Deliver(t) PROVE LimitsKnown'
  BY <1>7, <1>13 DEF Deliver
<1>14. CASE Decide \/ Wire \/ WatchSameMode
  BY <1>7, <1>14 DEF Decide, Wire, WatchSameMode, State, Life
<1>15. ASSUME NEW m \in UsedModes, Outsider(Family(m)) PROVE LimitsKnown'
  <2>1. machine'.envelope = machine.envelope
    BY <1>0, <1>15 DEF Outsider, Machines
  <2>2. UNCHANGED <<mode, config, refused, forgotten, reapply>>
    BY <1>15 DEF Outsider, Life
  <2> QED
    BY <2>1, <2>2 DEF LimitsKnown, LimitsOwned, CapsFollowMode, EnvelopeOf
<1>16. CASE UNCHANGED powerVars
  BY <1>7, <1>16 DEF powerVars
<1> QED
  BY <1>2, <1>3, <1>4, <1>5, <1>6, <1>8, <1>9, <1>11, <1>12, <1>13, <1>14, <1>15, <1>16
     DEF PowerNext

\* The limits on the machine are those of the mode in force: a cap does not outlive its mode,
\* through any sequence of edits, switches, followed moves, hand-overs and reboots, unless a
\* write was refused or a crash lost whose the limits were (apply_envelope, envelope_owned).
THEOREM CapsAlwaysFollow == PowerSpec => []CapsFollowMode
<1>1. PowerInit => LimitsKnown
  BY DEF PowerInit, LimitsKnown, LimitsOwned, CapsFollowMode
<1>2. LimitsKnown => CapsFollowMode
  BY DEF LimitsKnown
<1> QED
  BY <1>1, <1>2, PowerTypesAtFirst, PowerTypesKept, LimitsKept, PTL DEF PowerSpec

-----------------------------------------------------------------------------
(* What comes back at the next start.                                       *)

\* Once a mode has been set in this life, the configuration in memory names the mode in force.
ModeKept == (generation > 0 /\ config.restore) => config.mode = mode

RestoreKnown == ModeKept /\ RestoreReady

\* A save puts the file in step with the configuration, or is noted as failed.
LEMMA SavedInStep ==
  ASSUME Persist(config'), ModeKept'
  PROVE  RestoreKnown'
BY DEF Persist, RestoreKnown, RestoreReady, ModeKept

\* set_mode: the mode that took is the mode kept.
LEMMA SetModeKeeps ==
  ASSUME TypesKnown, RestoreKnown, NEW t \in Threads, NEW m \in PowerModes, SetModeOn(t, m)
  PROVE  RestoreKnown'
<1>1. PICK outcome \in Outcomes :
        /\ ApplyTo(t, m, outcome)
        /\ config' = [AppliedConfig(m, outcome) EXCEPT !.mode = IF Took(outcome) THEN m ELSE @]
        /\ Persist(config')
  BY DEF SetModeOn
<1>2. /\ AppliedConfig(m, outcome) \in Configs
      /\ AppliedConfig(m, outcome).mode = config.mode
      /\ AppliedConfig(m, outcome).restore = config.restore
  BY AppliedTypes DEF TypesKnown, PowerTypes, Machines
<1>3. CASE Took(outcome)
  <2>1. config'.mode = m /\ mode' = m
    BY <1>1, <1>2, <1>3 DEF ApplyTo, Record, Configs
  <2> QED
    BY <1>1, <2>1, SavedInStep DEF ModeKept
<1>4. CASE ~Took(outcome)
  <2>1. /\ config'.mode = config.mode /\ config'.restore = config.restore
        /\ mode' = mode /\ generation' = generation
    BY <1>1, <1>2, <1>4 DEF ApplyTo, Configs
  <2> QED
    BY <1>1, <2>1, SavedInStep DEF ModeKept, RestoreKnown
<1> QED
  BY <1>3, <1>4

LEMMA RestoreKept == TypesKnown /\ RestoreKnown /\ [PowerNext]_powerVars => RestoreKnown'
<1> SUFFICES ASSUME TypesKnown, RestoreKnown, [PowerNext]_powerVars
             PROVE  RestoreKnown'
  OBVIOUS
<1>0. /\ UsedModes \subseteq PowerModes /\ \A c \in Clients : c \in Threads
      /\ "supervisor" \in Threads
      /\ config \in Configs /\ machine \in Machines
  BY PowerAssumption DEF Threads, TypesKnown, PowerTypes, Machines
<1>1. ASSUME NEW c \in Clients, NEW m \in UsedModes, SetMode(c, m) PROVE RestoreKnown'
  BY <1>0, <1>1, SetModeKeeps DEF SetMode
<1>2. ASSUME NEW c \in Clients, Reapply(c) PROVE RestoreKnown'
  <2>1. reapply[c] \in PowerModes
    BY <1>2 DEF Reapply, TypesKnown, PowerTypes
  <2> QED
    BY <1>0, <1>2, <2>1, SetModeKeeps DEF Reapply
<1>3. CASE Supervise
  <2>1. decision \in PowerModes
    BY <1>3 DEF Supervise, TypesKnown, PowerTypes
  <2>2. PICK outcome \in Outcomes :
          /\ ApplyTo("supervisor", decision, outcome)
          /\ IF Took(outcome) /\ Keeps(AppliedConfig(decision, outcome))
             THEN config' = [AppliedConfig(decision, outcome) EXCEPT !.mode = decision] /\ Persist(config')
             ELSE config' = AppliedConfig(decision, outcome) /\ UNCHANGED <<saved, unsaved>>
    BY <1>3 DEF Supervise
  <2>3. /\ AppliedConfig(decision, outcome) \in Configs
        /\ AppliedConfig(decision, outcome).mode = config.mode
        /\ AppliedConfig(decision, outcome).restore = config.restore
    BY <1>0, <2>1, AppliedTypes DEF TypesKnown, PowerTypes, Machines
  <2>4. CASE Took(outcome) /\ Keeps(AppliedConfig(decision, outcome))
    <3>1. config'.mode = decision /\ mode' = decision
      BY <2>2, <2>3, <2>4 DEF ApplyTo, Record, Configs
    <3> QED
      BY <2>2, <2>4, <3>1, SavedInStep DEF ModeKept
  <2>5. CASE Took(outcome) /\ ~Keeps(AppliedConfig(decision, outcome))
    BY <2>2, <2>3, <2>5 DEF Keeps, RestoreKnown, ModeKept, RestoreReady
  <2>6. CASE ~Took(outcome)
    BY <2>2, <2>3, <2>6 DEF ApplyTo, RestoreKnown, ModeKept, RestoreReady
  <2> QED
    BY <2>4, <2>5, <2>6
<1>4. CASE Watch
  <2>1. machine.profile \in PowerModes
    BY ModesAreNumbers DEF TypesKnown, PowerTypes
  <2>2. PICK lands \in BOOLEAN :
          config' = [EnvelopeConfig(config, machine.profile, lands) EXCEPT !.mode = machine.profile]
    BY <1>4 DEF Watch
  <2>3. EnvelopeConfig(config, machine.profile, lands) \in Configs
    BY <1>0, <2>1, EnvelopeTypes
  <2>4. config'.mode = machine.profile /\ mode' = machine.profile
    BY <1>4, <2>2, <2>3 DEF Watch, Record, Configs
  <2> QED
    BY <1>4, <2>4, SavedInStep DEF Watch, ModeKept
<1>5. ASSUME NEW c \in Clients, NEW m \in Tunable, SetTuning(c, m) PROVE RestoreKnown'
  <2>1. /\ config'.mode = config.mode /\ config'.restore = config.restore
        /\ UNCHANGED <<mode, generation>>
    BY <1>0, <1>5 DEF SetTuning, Configs
  <2> QED
    BY <1>5, <2>1, SavedInStep DEF SetTuning, RestoreKnown, ModeKept
<1>6. ASSUME NEW c \in Clients, SetApplyToOsProfile(c) PROVE RestoreKnown'
  <2>1. Persist(config') /\ UNCHANGED <<config, mode, generation>>
    BY <1>6 DEF SetApplyToOsProfile, Persist
  <2> QED
    BY <2>1, SavedInStep DEF RestoreKnown, ModeKept
<1>7. ASSUME NEW c \in Clients, NEW on \in BOOLEAN, SetRestoreOnStart(c, on) PROVE RestoreKnown'
  <2>1. config'.restore = on /\ (on => config'.mode = mode) /\ UNCHANGED <<mode, generation>>
    BY <1>0, <1>7 DEF SetRestoreOnStart, Configs
  <2> QED
    BY <1>7, <2>1, SavedInStep DEF SetRestoreOnStart, ModeKept
<1>8. CASE Leave
  <2>1. CASE config.mode # mode
    <3>1. config'.mode = mode /\ UNCHANGED <<mode, generation>>
      BY <1>0, <1>8, <2>1 DEF Leave, State, Configs
    <3> QED
      BY <1>8, <2>1, <3>1, SavedInStep DEF Leave, ModeKept
  <2>2. CASE config.mode = mode
    BY <1>8, <2>2 DEF Leave, State, RestoreKnown, ModeKept, RestoreReady
  <2> QED
    BY <2>1, <2>2
<1>9. CASE UNCHANGED <<mode, generation, config, saved, unsaved>>
  BY <1>9 DEF RestoreKnown, ModeKept, RestoreReady
<1>10. CASE Decide \/ WatchSameMode \/ Wire
  BY <1>9, <1>10 DEF Decide, WatchSameMode, Wire, State
<1>11. ASSUME NEW m, Outsider(m) PROVE RestoreKnown'
  BY <1>9, <1>11 DEF Outsider
<1>12. ASSUME NEW t \in Threads, Deliver(t) PROVE RestoreKnown'
  BY <1>9, <1>12 DEF Deliver
<1>13. ASSUME NEW handover, NEW reboot, Start(handover, reboot) PROVE RestoreKnown'
  <2>1. generation' = 0
    BY <1>13 DEF Start
  <2> QED
    BY <2>1 DEF RestoreKnown, ModeKept, RestoreReady
<1>14. CASE UNCHANGED powerVars
  BY <1>9, <1>14 DEF powerVars
<1> QED
  BY <1>1, <1>2, <1>3, <1>4, <1>5, <1>6, <1>7, <1>8, <1>10, <1>11, <1>12, <1>13, <1>14
     DEF PowerNext

\* With restoreModeOnStart on, the mode on file is the one in force after any change of it,
\* by a client, the supervisor or another program, unless a save failed (set_mode,
\* supervise_once, watch_once).
THEOREM RestoreAlwaysReady == PowerSpec => []RestoreReady
<1>1. PowerInit => RestoreKnown
  BY DEF PowerInit, RestoreKnown, ModeKept, RestoreReady
<1>2. RestoreKnown => RestoreReady
  BY DEF RestoreKnown
<1> QED
  BY <1>1, <1>2, PowerTypesAtFirst, PowerTypesKept, RestoreKept, PTL DEF PowerSpec

-----------------------------------------------------------------------------
(* What the fan module has heard.                                           *)

\* Some thread still has the mode in force to announce; the fan module has heard it already.
Announcing == \E t \in Threads : news[t] # NoNews /\ news[t].generation = generation
Current == fan.heard /\ fan.last = generation

\* Nothing announced, heard or read is newer than the mode in force, and what is as new is it.
NewsKnown == \A t \in Threads : news[t] # NoNews =>
  /\ news[t].generation <= generation
  /\ news[t].generation = generation => news[t].mode = mode
EarsKnown == fan.heard => /\ fan.last <= generation
                          /\ fan.last = generation => fan.profile = mode
SnapshotKnown == wiring = "read" =>
  /\ snapshot.generation <= generation
  /\ snapshot.generation = generation => snapshot.mode = mode
  /\ snapshot.generation = generation \/ Announcing \/ Current

\* Once the socket is served, the mode in force has been heard or is still on its way.
FanKnown == /\ NewsKnown /\ EarsKnown /\ SnapshotKnown
            /\ Serving => Announcing \/ Current

\* A change is newer than anything announced before, and its own announcement is on its way.
LEMMA RecordedIsAnnounced ==
  ASSUME TypesKnown, FanKnown, NEW t \in Threads, NEW m \in PowerModes, Record(t, m),
         UNCHANGED <<wiring, snapshot, fan>>
  PROVE  FanKnown'
<1>1. /\ generation \in Nat /\ generation' = generation + 1 /\ mode' = m
      /\ fan.last \in Nat /\ snapshot.generation \in Nat
      /\ \A u \in Threads : news[u].generation \in Nat
  BY PowerAssumption DEF TypesKnown, PowerTypes, Record, News, NoNews
<1>2. /\ news'[t] # NoNews /\ news'[t].generation = generation' /\ news'[t].mode = m
      /\ \A u \in Threads : u # t => news'[u] = news[u]
  BY ModesAreNumbers DEF Record, NoNews, TypesKnown, PowerTypes
<1>3. Announcing'
  BY <1>2 DEF Announcing
<1>4. NewsKnown'
  <2> SUFFICES ASSUME NEW u \in Threads, news'[u] # NoNews
               PROVE  /\ news'[u].generation <= generation'
                      /\ news'[u].generation = generation' => news'[u].mode = mode'
    BY DEF NewsKnown
  <2>1. CASE u = t
    BY <1>1, <1>2, <2>1
  <2>2. CASE u # t
    <3>1. news'[u] = news[u] /\ news[u].generation <= generation
      BY <1>2, <2>2 DEF FanKnown, NewsKnown
    <3> QED
      BY <1>1, <3>1
  <2> QED
    BY <2>1, <2>2
<1>5. EarsKnown'
  BY <1>1 DEF FanKnown, EarsKnown
<1>6. SnapshotKnown'
  BY <1>1, <1>3 DEF FanKnown, SnapshotKnown
<1> QED
  BY <1>3, <1>4, <1>5, <1>6 DEF FanKnown

\* An announcement, or the mode read at the start, as the fan module takes it.
LEMMA HeardInOrder ==
  ASSUME TypesKnown, EarsKnown, NEW n \in News, FanHears(n), UNCHANGED <<mode, generation>>,
         n.generation <= generation, n.generation = generation => n.mode = mode
  PROVE  /\ EarsKnown'
         /\ (n.generation = generation \/ Current) => Current'
<1>1. /\ generation \in Nat /\ fan.last \in Nat /\ n.generation \in Nat
  BY PowerAssumption DEF TypesKnown, PowerTypes, News, NoNews
<1>2. CASE Hears(fan, n)
  <2>1. fan'.heard /\ fan'.last = n.generation /\ fan'.profile = n.mode
    BY <1>2 DEF FanHears
  <2>2. fan.heard => n.generation > fan.last
    BY <1>2 DEF Hears
  <2> QED
    BY <1>1, <2>1, <2>2 DEF EarsKnown, Current
<1>3. CASE ~Hears(fan, n)
  <2>1. fan' = fan /\ fan.heard /\ ~(n.generation > fan.last)
    BY <1>3 DEF FanHears, Hears
  <2> QED
    BY <1>1, <2>1 DEF EarsKnown, Current
<1> QED
  BY <1>2, <1>3

LEMMA FanKnownKept == TypesKnown /\ FanKnown /\ [PowerNext]_powerVars => FanKnown'
<1> SUFFICES ASSUME TypesKnown, FanKnown, [PowerNext]_powerVars
             PROVE  FanKnown'
  OBVIOUS
<1>0. /\ UsedModes \subseteq PowerModes /\ \A c \in Clients : c \in Threads
      /\ "supervisor" \in Threads /\ "watcher" \in Threads
  BY PowerAssumption DEF Threads
<1>1. CASE UNCHANGED <<mode, generation, news, wiring, snapshot, fan>>
  BY <1>1 DEF FanKnown, NewsKnown, EarsKnown, SnapshotKnown, Serving, Announcing, Current
<1>2. ASSUME NEW t \in Threads, NEW m \in PowerModes, NEW outcome \in Outcomes,
             ApplyTo(t, m, outcome), UNCHANGED <<wiring, snapshot, fan>>
      PROVE  FanKnown'
  BY <1>1, <1>2, RecordedIsAnnounced DEF ApplyTo
<1>3. ASSUME NEW c \in Clients, NEW m \in UsedModes, SetMode(c, m) PROVE FanKnown'
  BY <1>0, <1>2, <1>3 DEF SetMode, SetModeOn, Life
<1>4. ASSUME NEW c \in Clients, Reapply(c) PROVE FanKnown'
  <2>1. reapply[c] \in PowerModes
    BY <1>4 DEF Reapply, TypesKnown, PowerTypes
  <2> QED
    BY <1>0, <1>2, <1>4, <2>1 DEF Reapply, SetModeOn, Life
<1>5. CASE Supervise
  <2>1. decision \in PowerModes
    BY <1>5 DEF Supervise, TypesKnown, PowerTypes
  <2>2. PICK outcome \in Outcomes : ApplyTo("supervisor", decision, outcome)
    BY <1>5 DEF Supervise
  <2> QED
    BY <1>0, <1>2, <1>5, <2>1, <2>2 DEF Supervise, Life
<1>6. CASE Watch
  <2>1. machine.profile \in PowerModes
    BY ModesAreNumbers DEF TypesKnown, PowerTypes
  <2>2. Record("watcher", machine.profile) /\ UNCHANGED <<wiring, snapshot, fan>>
    BY <1>6 DEF Watch, Life
  <2> QED
    BY <1>0, <2>1, <2>2, RecordedIsAnnounced
<1>7. ASSUME NEW c \in Clients, NEW m \in Tunable, SetTuning(c, m) PROVE FanKnown'
  BY <1>1, <1>7 DEF SetTuning, Life
<1>8. ASSUME NEW c \in Clients, SetApplyToOsProfile(c) PROVE FanKnown'
  BY <1>1, <1>8 DEF SetApplyToOsProfile, Life
<1>9. ASSUME NEW c \in Clients, NEW on \in BOOLEAN, SetRestoreOnStart(c, on) PROVE FanKnown'
  BY <1>1, <1>9 DEF SetRestoreOnStart, Life
<1>10. CASE Decide \/ WatchSameMode
  BY <1>1, <1>10 DEF Decide, WatchSameMode, Life
<1>11. ASSUME NEW m, Outsider(m) PROVE FanKnown'
  BY <1>1, <1>11 DEF Outsider, Life
<1>12. ASSUME NEW t \in Threads, Deliver(t) PROVE FanKnown'
  <2>1. /\ news[t] # NoNews /\ UNCHANGED <<mode, generation, wiring, snapshot>>
        /\ news'[t] = NoNews /\ \A u \in Threads : u # t => news'[u] = news[u]
    BY <1>12 DEF Deliver, TypesKnown, PowerTypes
  <2>2. news[t] \in News /\ news[t].generation <= generation
        /\ (news[t].generation = generation => news[t].mode = mode)
    BY <1>12, <2>1 DEF TypesKnown, PowerTypes, FanKnown, NewsKnown
  <2>3. NewsKnown'
    BY <2>1 DEF FanKnown, NewsKnown
  <2>4. CASE wiring \in {"none", "bus"}
    <3>1. UNCHANGED fan /\ wiring' # "read" /\ wiring' \notin {"serving", "leaving"}
      BY <1>12, <2>1, <2>4 DEF Deliver
    <3> QED
      BY <2>1, <2>3, <3>1 DEF FanKnown, EarsKnown, SnapshotKnown, Serving
  <2>5. CASE wiring \notin {"none", "bus"}
    <3>1. /\ EarsKnown'
          /\ (news[t].generation = generation \/ Current) => Current'
      BY <1>12, <2>1, <2>2, <2>5, HeardInOrder DEF Deliver, FanKnown
    <3>2. Announcing => Announcing' \/ news[t].generation = generation
      BY <2>1 DEF Announcing
    <3> QED
      BY <2>1, <2>3, <3>1, <3>2 DEF FanKnown, SnapshotKnown, Serving
  <2> QED
    BY <2>4, <2>5
<1>13. CASE Wire
  <2>1. UNCHANGED <<mode, generation, news>>
    BY <1>13 DEF Wire, State
  <2>2. NewsKnown' /\ (Announcing => Announcing')
    BY <2>1 DEF FanKnown, NewsKnown, Announcing
  <2>3. CASE wiring' \in {"bus", "listening"} /\ UNCHANGED fan
    BY <2>1, <2>2, <2>3 DEF FanKnown, EarsKnown, SnapshotKnown, Serving
  <2>4. CASE wiring' = "read" /\ snapshot' = [mode |-> mode, generation |-> generation] /\ UNCHANGED fan
    <3>1. snapshot'.generation = generation' /\ snapshot'.mode = mode' /\ generation' \in Nat
      BY <2>1, <2>4, PowerAssumption DEF TypesKnown, PowerTypes
    <3> QED
      BY <2>1, <2>2, <2>4, <3>1 DEF FanKnown, EarsKnown, SnapshotKnown, Serving
  <2>5. CASE wiring = "read" /\ wiring' = "serving" /\ FanHears(snapshot)
    <3>1. /\ EarsKnown'
          /\ (snapshot.generation = generation \/ Current) => Current'
      BY <2>1, <2>5, HeardInOrder DEF FanKnown, SnapshotKnown, TypesKnown, PowerTypes
    <3> QED
      BY <2>2, <2>5, <3>1 DEF FanKnown, SnapshotKnown, Serving
  <2> QED
    BY <1>13, <2>3, <2>4, <2>5 DEF Wire
<1>14. CASE Leave
  <2>1. /\ UNCHANGED <<mode, generation, news, snapshot, fan>>
        /\ wiring = "serving" /\ wiring' = "leaving"
    BY <1>14 DEF Leave, State
  <2> QED
    BY <2>1 DEF FanKnown, NewsKnown, EarsKnown, SnapshotKnown, Serving, Announcing, Current
<1>15. ASSUME NEW handover, NEW reboot, Start(handover, reboot) PROVE FanKnown'
  <2>1. /\ \A t \in Threads : news'[t] = NoNews
        /\ fan'.heard = FALSE /\ wiring' = "none"
    BY <1>15 DEF Start
  <2> QED
    BY <2>1 DEF FanKnown, NewsKnown, EarsKnown, SnapshotKnown, Serving
<1>16. CASE UNCHANGED powerVars
  BY <1>1, <1>16 DEF powerVars
<1> QED
  BY <1>3, <1>4, <1>5, <1>6, <1>7, <1>8, <1>9, <1>10, <1>11, <1>12, <1>13, <1>14, <1>15, <1>16
     DEF PowerNext

\* Once nothing is being announced, the fan module runs the curve of the mode the machine is
\* in, in whatever order the announcements of any number of threads arrived and however much
\* was announced before anybody listened (set_active_profile_versioned, mode_snapshot).
THEOREM FanAlwaysFollows == PowerSpec => []FanFollows
<1>1. PowerInit => FanKnown
  BY DEF PowerInit, FanKnown, NewsKnown, EarsKnown, SnapshotKnown, Serving
<1>2. FanKnown => FanFollows
  BY DEF FanKnown, FanFollows, Announcing, Current, EarsKnown
<1> QED
  BY <1>1, <1>2, PowerTypesAtFirst, PowerTypesKept, FanKnownKept, PTL DEF PowerSpec
=============================================================================
