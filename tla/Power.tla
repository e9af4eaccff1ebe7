------------------------------- MODULE Power -------------------------------
(***************************************************************************)
(* The power module's state and who changes it: clients, the supervisor,    *)
(* the watcher that follows other programs; what is applied to the machine  *)
(* (the firmware profile and the envelope of limits), what is kept in       *)
(* power.json over crashes, hand-overs and reboots, and how a change gets   *)
(* to the fan module over the event bus.                                    *)
(*                                                                         *)
(* Every change is applied and recorded under the state lock, and announced *)
(* after it is released, on the thread that made it: two announcements may  *)
(* arrive in either order.  What the supervisor decides is AutoSwitcher's;  *)
(* here it is any mode.                                                     *)
(***************************************************************************)
EXTENDS PowerModes

CONSTANTS
  Clients,     \* the connections that call the module
  UsedModes,   \* the modes that are asked for
  Tunable,     \* the modes whose limits somebody edits
  MaxChanges,  \* bound: mode changes, over all lives of the daemon
  MaxRestarts  \* bound: lives of the daemon after the first

Threads == Clients \cup {"supervisor", "watcher"}

ASSUME PowerAssumption ==
  /\ Clients # {} /\ {"supervisor", "watcher"} \cap Clients = {}
  /\ UsedModes \subseteq PowerModes /\ UsedModes # {}
  /\ Tunable \subseteq PowerModes
  /\ MaxChanges \in Nat /\ MaxRestarts \in Nat

VARIABLES
  mode,       \* State::mode
  generation, \* State::mode_generation
  config,     \* State::config: mode, restore, tuned, owned
  saved,      \* power.json, the same fields
  unsaved,    \* State::last_save_error is set
  machine,    \* the firmware profile and the envelope that are on the machine
  expected,   \* State::expected.platform_profile
  decision,   \* the mode the supervisor holds between its two locks, or NoMode
  reapply,    \* per client, the mode it is about to apply again, or NoMode
  news,       \* per thread, the announcement it is making, or NoNews
  wiring,     \* how far main has got with the bus
  snapshot,   \* the mode and generation main has read for the fan module
  fan,        \* the fan module's active profile and last generation
  changes,    \* for MaxChanges
  restarts,   \* for MaxRestarts
  foreign,    \* history: the firmware profile was last set by another program
  refused,    \* history: the last apply was refused in part, or there was none
  forgotten   \* history: a daemon started on limits it did not know for its own

powerVars == <<mode, generation, config, saved, unsaved, machine, expected, decision,
               reapply, news, wiring, snapshot, fan, changes, restarts, foreign,
               refused, forgotten>>

NoNews == [mode |-> NoMode, generation |-> 0]
News == [mode : PowerModes, generation : 0..MaxChanges] \cup {NoNews}
Stock == NoMode          \* the envelope the firmware shipped
Configs == [mode : PowerModes \cup {NoMode}, restore : BOOLEAN,
            tuned : SUBSET Tunable, owned : BOOLEAN]
Stages == {"none", "bus", "listening", "read", "serving", "leaving"}

\* The types of the power module's variables.
PowerTypes ==
  /\ mode \in PowerModes
  /\ generation \in 0..MaxChanges
  /\ config \in Configs /\ saved \in Configs
  /\ unsaved \in BOOLEAN
  /\ machine \in [profile : {Eco, Balanced, Performance},
                  envelope : Tunable \cup {Stock}]
  /\ expected \in {Eco, Balanced, Performance}
  /\ decision \in PowerModes \cup {NoMode}
  /\ reapply \in [Clients -> PowerModes \cup {NoMode}]
  /\ news \in [Threads -> News]
  /\ wiring \in Stages
  /\ snapshot \in News
  /\ fan \in [profile : PowerModes \cup {NoMode}, last : 0..MaxChanges, heard : BOOLEAN]
  /\ changes \in 0..MaxChanges /\ restarts \in 0..MaxRestarts
  /\ foreign \in BOOLEAN /\ refused \in BOOLEAN /\ forgotten \in BOOLEAN

PowerInit ==
  /\ mode \in {Eco, Balanced, Performance} \cap UsedModes
  /\ generation = 0
  /\ config = [mode |-> NoMode, restore |-> FALSE, tuned |-> {}, owned |-> FALSE]
  /\ saved = config
  /\ unsaved = FALSE
  /\ machine = [profile |-> mode, envelope |-> Stock]
  /\ expected = mode
  /\ decision = NoMode
  /\ reapply = [c \in Clients |-> NoMode]
  /\ news = [t \in Threads |-> NoNews]
  /\ wiring = "none"
  /\ snapshot = NoNews
  /\ fan = [profile |-> NoMode, last |-> 0, heard |-> FALSE]
  /\ changes = 0 /\ restarts = 0
  /\ foreign = FALSE /\ refused = TRUE /\ forgotten = FALSE

-----------------------------------------------------------------------------
(* Applying a mode.                                                        *)

\* Mutant: a mode nobody tuned writes nothing, whatever is on the machine.
IdleWhenUntuned(c, m) == m \notin c.tuned
\* apply_envelope: a mode nobody tuned writes nothing, unless the envelope on
\* the machine is one this daemon wrote.
Idle(c, m) == m \notin c.tuned /\ ~c.owned

\* What writing the envelope of m leaves: owned until stock is really back.
EnvelopeConfig(c, m, lands) ==
  IF Idle(c, m) THEN c ELSE [c EXCEPT !.owned = m \in c.tuned \/ ~lands]
EnvelopeOf(c, m) == IF m \in c.tuned THEN m ELSE Stock
EnvelopeOn(mach, c, m, lands) ==
  IF Idle(c, m) \/ ~lands THEN mach ELSE [mach EXCEPT !.envelope = EnvelopeOf(c, m)]

\* apply_profile: the firmware profile, then the envelope.  A profile the
\* firmware refuses is rolled back, and no envelope is written for it.
Outcomes == {"applied", "limits refused", "refused"}
AppliedConfig(m, outcome) ==
  IF outcome = "refused" THEN config ELSE EnvelopeConfig(config, m, outcome = "applied")
AppliedMachine(m, outcome) ==
  IF outcome = "refused" THEN machine
  ELSE EnvelopeOn([machine EXCEPT !.profile = Family(m)], config, m, outcome = "applied")

\* Mutant: the mode is recorded whether or not anything took effect.
TookAnyhow(outcome) == TRUE
\* ApplyReport::is_empty is false: only then is the mode recorded and announced.
Took(outcome) == outcome # "refused"

\* persist: a save that fails is noted and nothing else.
Persist(c) ==
  \/ saved' = c /\ unsaved' = FALSE
  \/ saved' = saved /\ unsaved' = TRUE

\* The mode in force is m from here on, and thread t has it to announce.
Record(t, m) ==
  /\ changes < MaxChanges
  /\ changes' = changes + 1
  /\ mode' = m
  /\ generation' = generation + 1
  /\ news' = [news EXCEPT ![t] = [mode |-> m, generation |-> generation + 1]]

\* What set_mode and the supervisor both do to the machine for m.
ApplyTo(t, m, outcome) ==
  /\ machine' = AppliedMachine(m, outcome)
  /\ expected' = machine'.profile
  /\ refused' = (outcome # "applied")
  /\ IF Took(outcome)
     THEN Record(t, m) /\ foreign' = FALSE
     ELSE UNCHANGED <<mode, generation, changes, news, foreign>>

\* set_mode, on thread t.
SetModeOn(t, m) ==
  \E outcome \in Outcomes :
    /\ ApplyTo(t, m, outcome)
    /\ config' = [AppliedConfig(m, outcome) EXCEPT !.mode = IF Took(outcome) THEN m ELSE @]
    /\ Persist(config')

Serving == wiring \in {"serving", "leaving"}
Free(c) == Serving /\ news[c] = NoNews /\ reapply[c] = NoMode

Life == <<wiring, snapshot, fan, restarts, forgotten>>

-----------------------------------------------------------------------------
(* The clients.                                                            *)

\* setMode and the performance key's cycle.
SetMode(c, m) ==
  /\ Free(c)
  /\ SetModeOn(c, m)
  /\ UNCHANGED <<decision, reapply, Life>>

\* setTuning: the numbers are kept under one lock; if they are those of the
\* mode in force, that mode is applied again under another.
SetTuning(c, m) ==
  /\ Free(c)
  /\ config' = [config EXCEPT !.tuned = IF m \in @ THEN @ \ {m} ELSE @ \cup {m}]
  /\ reapply' = [reapply EXCEPT ![c] = IF mode = m THEN m ELSE NoMode]
  /\ Persist(config')
  /\ UNCHANGED <<mode, generation, changes, machine, expected, decision, news, foreign,
                 refused, Life>>

\* setApplyToOsProfile: the mode is read under the lock that keeps the switch,
\* and applied again under another.
SetApplyToOsProfile(c) ==
  /\ Free(c)
  /\ reapply' = [reapply EXCEPT ![c] = mode]
  /\ Persist(config)
  /\ UNCHANGED <<mode, generation, changes, config, machine, expected, decision, news,
                 foreign, refused, Life>>

Reapply(c) ==
  /\ reapply[c] # NoMode
  /\ SetModeOn(c, reapply[c])
  /\ reapply' = [reapply EXCEPT ![c] = NoMode]
  /\ UNCHANGED <<decision, Life>>

\* setRestoreOnStart: switched on, what is in force now is what comes back.
SetRestoreOnStart(c, on) ==
  /\ Free(c)
  /\ config' = [config EXCEPT !.restore = on, !.mode = IF on THEN mode ELSE @]
  /\ Persist(config')
  /\ UNCHANGED <<mode, generation, changes, machine, expected, decision, reapply, news,
                 foreign, refused, Life>>

-----------------------------------------------------------------------------
(* The supervisor and the watcher.                                         *)

\* supervise_once, its first lock.
Decide ==
  /\ news["supervisor"] = NoNews /\ decision = NoMode
  /\ decision' \in UsedModes \ {mode}
  /\ UNCHANGED <<mode, generation, changes, config, saved, unsaved, machine, expected,
                 reapply, news, foreign, refused, Life>>

\* Mutant: a switch nobody asked for is never written down.
KeepsNever(c) == FALSE
\* Only a mode that is to survive a restart is worth a write.
Keeps(c) == c.restore

\* supervise_once, its second lock: the decision is applied whatever has
\* happened since it was taken.
Supervise ==
  /\ decision # NoMode
  /\ \E outcome \in Outcomes :
       LET c == AppliedConfig(decision, outcome)
       IN /\ ApplyTo("supervisor", decision, outcome)
          /\ IF Took(outcome) /\ Keeps(c)
             THEN config' = [c EXCEPT !.mode = decision] /\ Persist(config')
             ELSE config' = c /\ UNCHANGED <<saved, unsaved>>
  /\ decision' = NoMode
  /\ UNCHANGED <<reapply, Life>>

\* watch_once: a firmware profile of another mode is followed, with that mode's
\* envelope and without pushing the profile back.
Watch ==
  /\ news["watcher"] = NoNews
  /\ machine.profile # expected /\ machine.profile # Family(mode)
  /\ Record("watcher", machine.profile)
  /\ \E lands \in BOOLEAN :
       /\ machine' = EnvelopeOn(machine, config, machine.profile, lands)
       /\ config' = [EnvelopeConfig(config, machine.profile, lands)
                       EXCEPT !.mode = machine.profile]
       /\ refused' = ~lands
  /\ Persist(config')
  /\ expected' = machine.profile
  /\ foreign' = FALSE
  /\ UNCHANGED <<decision, reapply, Life>>

\* watch_once: another name for the mode in force is the new reference.
WatchSameMode ==
  /\ news["watcher"] = NoNews
  /\ machine.profile # expected /\ machine.profile = Family(mode)
  /\ expected' = machine.profile
  /\ foreign' = FALSE
  /\ UNCHANGED <<mode, generation, changes, config, saved, unsaved, machine, decision,
                 reapply, news, refused, Life>>

\* Another program writes the firmware profile: Fn+P, TLP, the desktop's menu.
Outsider(profile) ==
  /\ profile # machine.profile
  /\ machine' = [machine EXCEPT !.profile = profile]
  /\ foreign' = TRUE
  /\ UNCHANGED <<mode, generation, changes, config, saved, unsaved, expected, decision,
                 reapply, news, refused, Life>>

-----------------------------------------------------------------------------
(* The bus, the fan module and the daemon's life.                          *)

\* Mutant: whatever arrives is taken for the newest.
HearsAny(heard, news1) == TRUE
\* set_active_profile_versioned: a commit older than the last one is dropped.
Hears(heard, news1) == heard.heard => news1.generation > heard.last

FanHears(news1) ==
  fan' = IF Hears(fan, news1)
         THEN [profile |-> news1.mode, last |-> news1.generation, heard |-> TRUE]
         ELSE fan

\* EventBus::publish, on the announcing thread: with no bus yet, or nobody
\* listening, the news is gone.
Deliver(t) ==
  /\ news[t] # NoNews
  /\ IF wiring \in {"none", "bus"} THEN UNCHANGED fan ELSE FanHears(news[t])
  /\ news' = [news EXCEPT ![t] = NoNews]
  /\ UNCHANGED <<mode, generation, changes, config, saved, unsaved, machine, expected,
                 decision, reapply, wiring, snapshot, restarts, foreign, refused, forgotten>>

State == <<mode, generation, changes, machine, expected, decision, reapply, news,
           restarts, foreign, refused, forgotten>>

\* main: publish_to, subscribe, mode_snapshot, the first profile, the socket.
Wire ==
  /\ \/ wiring = "none" /\ wiring' = "bus" /\ UNCHANGED <<snapshot, fan>>
     \/ wiring = "bus" /\ wiring' = "listening" /\ UNCHANGED <<snapshot, fan>>
     \/ /\ wiring = "listening" /\ wiring' = "read"
        /\ snapshot' = [mode |-> mode, generation |-> generation]
        /\ UNCHANGED fan
     \/ /\ wiring = "read" /\ wiring' = "serving"
        /\ FanHears(snapshot)
        /\ snapshot' = NoNews
  /\ UNCHANGED <<config, saved, unsaved, State>>

\* release, on the way out: remember_mode.  The threads are still running.
Leave ==
  /\ wiring = "serving"
  /\ wiring' = "leaving"
  /\ IF config.mode # mode
     THEN config' = [config EXCEPT !.mode = mode] /\ Persist(config')
     ELSE UNCHANGED <<config, saved, unsaved>>
  /\ UNCHANGED <<snapshot, fan, State>>

\* boot_mode: on battery, the battery's preference instead of a fast mode.
BootModes(m) == {m} \cup IF m \in {Performance, Unlimited} THEN {Eco, Balanced} ELSE {}

\* PowerModule::with_store, in a new process: after a crash or an exit, after
\* a hand-over, or after a reboot, which resets the envelope.
Start(handover, reboot) ==
  /\ restarts < MaxRestarts
  /\ restarts' = restarts + 1
  /\ handover => wiring = "leaving"
  /\ LET mach == IF reboot THEN [machine EXCEPT !.envelope = Stock] ELSE machine
         restores == saved.mode # NoMode /\ (saved.restore \/ handover)
     IN /\ forgotten' = (mach.envelope # Stock /\ ~saved.owned)
        /\ \/ /\ restores
              /\ \E m \in BootModes(saved.mode), outcome \in {"applied", "limits refused"} :
                   /\ mode' = m
                   /\ machine' = EnvelopeOn([mach EXCEPT !.profile = Family(m)], saved, m,
                                            outcome = "applied")
                   /\ config' = EnvelopeConfig(saved, m, outcome = "applied")
                   /\ refused' = (outcome # "applied")
           \/ /\ mode' = mach.profile   \* nothing to restore, or it was refused
              /\ machine' = mach
              /\ config' = saved
              /\ refused' = TRUE
  /\ expected' = machine'.profile
  /\ generation' = 0
  /\ foreign' = FALSE
  /\ unsaved' = FALSE
  /\ decision' = NoMode
  /\ reapply' = [c \in Clients |-> NoMode]
  /\ news' = [t \in Threads |-> NoNews]
  /\ wiring' = "none"
  /\ snapshot' = NoNews
  /\ fan' = [profile |-> NoMode, last |-> 0, heard |-> FALSE]
  /\ UNCHANGED <<saved, changes>>

PowerNext ==
  \/ \E c \in Clients :
       \/ \E m \in UsedModes : SetMode(c, m)
       \/ \E m \in Tunable : SetTuning(c, m)
       \/ SetApplyToOsProfile(c)
       \/ Reapply(c)
       \/ \E on \in BOOLEAN : SetRestoreOnStart(c, on)
  \/ Decide
  \/ Supervise
  \/ Watch
  \/ WatchSameMode
  \/ \E profile \in {Family(m) : m \in UsedModes} : Outsider(profile)
  \/ \E t \in Threads : Deliver(t)
  \/ Wire
  \/ Leave
  \/ \E handover, reboot \in BOOLEAN : ~(handover /\ reboot) /\ Start(handover, reboot)

PowerSpec == PowerInit /\ [][PowerNext]_powerVars

-----------------------------------------------------------------------------
(* Properties.                                                             *)

\* Once nothing is being announced, the fan module runs the curve of the mode
\* the machine is in, whatever order the announcements arrived in and whatever
\* was announced before anybody listened (set_active_profile_versioned).
FanFollows ==
  (Serving /\ \A t \in Threads : news[t] = NoNews) => fan.profile = mode

\* The mode the daemon reports is the one the firmware is in, unless another
\* program moved the firmware (set_mode: "Only record the mode if something
\* actually took effect").
MachineInMode == foreign \/ machine.profile = Family(mode)

\* The limits on the machine are those of the mode in force: a cap does not
\* outlive its mode, unless a write was refused, or the daemon was restarted
\* without having been told that the limits were its own (envelope_owned).
CapsFollowMode ==
  (~refused /\ ~forgotten /\ \A c \in Clients : reapply[c] = NoMode)
    => machine.envelope = EnvelopeOf(config, mode)

\* With restoreModeOnStart on, the mode on file is the one in force after any
\* change of it, whoever made it, if the last save worked.
RestoreReady ==
  (generation > 0 /\ config.restore /\ ~unsaved) => saved.restore /\ saved.mode = mode

\* Limits this daemon put on the machine are on file as its own, if the last
\* save worked: the cap outlives a restart of the daemon (envelope_owned).
CapRemembered == (machine.envelope # Stock /\ ~unsaved /\ ~forgotten) => saved.owned

\* A firmware profile that is not the mode's is one the watcher will notice
\* and follow (watch.rs, "the machine is in that mode, whoever put it there").
MoveNoticed == machine.profile = Family(mode) \/ machine.profile # expected
=============================================================================
