# PYREN in TLA+

PYREN is a control hub for HP OMEN laptops: a root daemon (`daemon/`, Rust) that
owns the fans, the power limits, the GPU's clocks, the keyboard and the network
queue of the machine, a Tauri app and a GTK overlay that talk to it over a Unix
socket, and a patched `hp-wmi` driver. This directory holds TLA+ models of the
daemon's concurrent parts, the TLC configurations that check them, and TLAPS
proofs. Paths below are relative to the repository; `PROJECT.json` maps every
definition to the lines it stands for.

## 1. Inventory

Every module of the daemon is an object with a `Mutex<State>`; IPC connections
call it from one thread each, and most modules have threads of their own. The
rule everywhere is that hardware is written *without* the state lock, so what a
module must get right is what may happen between a decision and its write.

| component | state it keeps | operations | hard because |
|---|---|---|---|
| fan (`crates/fan`) | mode, curve, `cleaning`, `calibrating`, `exiting`, guards' memories, the safety hold | `setMode`, `setCurve`, `startCleaning`, `stopCleaning`, `calibrate`, probes, the 2 s loop, a watchdog per cycle, `on_exit`, recovery | five kinds of thread write one ACPI file and one pwm pair; refused writes; kills in mid-cycle; the guards' priorities |
| overclock (`crates/overclock`) | `applied`, `pending`, confirmed targets, consent, the armed flag on disk | `apply`, `confirm`, `cancel`, `reset`, `setConsent`, watchdog, restore, hand-over | timer against late answer; stale pending change; crash between write and save |
| power (`crates/power`) | mode, manual override, generation, automatic switcher | `setMode`, `setAuto`, supervisor, OS profile watcher, `on_exit` | two-lock decisions, echoes of its own writes, oscillation |
| event bus (`crates/core/src/events.rs`) | ring of 64 events, listeners | `publish`, `subscribe`, `read_since`, `latest` | listeners run outside the lock; readers fall behind; sequence restarts with the daemon |
| users (`crates/users`) | who the profiles on disk belong to, who is being restored | `look`, `set_aside`, `adopt`, `restore`, interrupted restore | crash between two files, saves that fail |
| daemon (`daemon/src/main.rs`, `core/signals.rs`, `core/socket.rs`) | the leaving lock, the instance lock | start, claim the machine, hand-over by exec, SIGTERM | a signal racing a hand-over; order of the exits |
| network (`crates/network`) | wanted and applied mode, rules per application | `setMode`, `setRule`, `keep_mode`, `on_exit` | decisions taken before the operation lock |
| config store (`crates/config`) | one JSON file per module | `load`, `save`, `preserve_broken` | two processes, corrupt and future files |
| keymap (`crates/keymap`) | `running`, `starting`, `stop`, the key map | `start`, `stop`, `set_enabled`, the worker | one worker only, across its own shutdown |
| hotkey (`crates/hotkey`) | bindings, the learn window and its waiters | `learn`, `setTriggers`, the watcher | several clients waiting on one condition variable, keys read in batches |
| rgb (`crates/rgb`) | the look, the effect, `dark`, the effect's thread | `setZones`, `setEffect`, `powerOn`, `powerOff`, `on_exit` | a thread drawing frames while others write |
| installer (`crates/installer`) | the modules on disk | install, restore, by two strategies | steps refused or cut off, and what the next plan finds |
| osd (`src/osd`) | the mode it shows, where it has read to | the poller, the clicks | a daemon that restarts between two polls |
| system, gpu | samples | reads, one sysfs write | nothing shared |
| ctl, check, app, driver | no shared state of their own | clients and a kernel module | out of scope, or seen only through the daemon |

How they meet: power publishes `power.mode` on the event bus and the fan module
takes the curve of that mode; the lifecycle calls every module's exit; users
restores files the other modules then load; every module persists through the
config store; the fan module's cleaner and the power limits share `/proc/acpi/call`.

What makes each correct, in a sentence: **fan** - one driver at a time, never
reversed in silence, always given back; **overclock** - nothing unconfirmed stays
or comes back; **power** - the last explicit choice wins; **event bus** - the last
event delivered is the last published; **users** - a profile is whole; **daemon** -
each exit runs once; **network** - the interface has the mode last asked for;
**config** - a good file is never lost; **keymap** - one worker, as enabled;
**hotkey** - a key press answers one question; **rgb** - the lights show what was set
last; **installer** - a restore that reports success and was let do all its steps has put
the distribution's module back; **osd** - the widget comes to show the mode in force.

## 2. Modules

In all of them, an operation that releases a lock, waits or writes between two
steps is as many actions as it has such steps, and any other thread may run in
between; what runs under one lock without waiting is one action. A write to the
hardware or to a file lands or is refused, at any time it is made. History
variables are marked as such; only properties read them.

| module | models | state and actions against the code |
|---|---|---|
| `FanTenure` | the promise of the fan module | tenant, order and closed flag; six tenancies, no thread in it |
| `FanOwnership` | `fan/src/lib.rs`, `cleaner.rs`: who drives the fans | `cleaning`, `calibrating`, `exiting`, `error` are `State`'s fields; `override`, `spin`, `order` are the hardware; `pc` says where each thread is between two lock steps |
| `FanControl` | `tick_locked` and what feeds it: guards, hold, mode requests, `safety.rs`, `stall.rs` | `setting`, `pending`, `hold`, `checker`, `critical`, `blind` are `State`'s fields, `order` what the fans were told. A pass is one action, `Loop`, built of one operator per part of it, in the code's order |
| `PowerModes` | the modes and their families | shared by the next two |
| `Power` | `power/src/lib.rs`, `watch.rs`: the mode, the limits, `power.json`, the announcements and the fan module that hears them | `mode`, `generation`, `config`, `expected` are `State`'s fields, `saved` the file, `machine` the profile and limits in force; the supervisor's decision and a client's second apply are held between two locks |
| `AutoSwitcher` | `power/src/auto.rs`, `supervise_once`, `choose` | `switcher` is `AutoSwitcher`, `Refine` is `refine` rule by rule; `Tick` and `Apply`, `Choose` and `AdoptChoice` are the two locks of the supervisor and of a client |
| `Events` | `core/src/events.rs` and its reader, `osd/src/daemon.rs` | `ring`, `latest`, `oldest`; the widget's poller, its clicks and its mode tracker |
| `Users` | `users/src/lib.rs`, `profiles.rs` | `account` and `accountFile` are the config and `users.json`, `live` and `copies` the files; `task` walks over them one at a time |
| `Network` | `network/src/lib.rs`: `setMode`, `keep_mode`, `on_exit` | `operation`, `committed`, `wanted`, `applied`, `retry` are the five locks' contents; `doing` says where each thread is |
| `Keymap` | `keymap/src/lib.rs`: the worker | `enabled`, `starting`, `remapping`, `stop`, `unavailable`; `calls` holds the second half of a `setEnabled` |
| `Lifecycle` | `daemon/src/main.rs`, `core/signals.rs` | `leaving` is the one right to end the process, `masked` and `pending` the signal mask; `main`'s own exits, on a refused claim and a failed socket, are `GiveUpClaim` and `LoseSocket`, and `endedBy` remembers which end it was |
| `Installer` | `installer/src/plan.rs`, `execute.rs` | `files`, `backups`, `updates`, `index`, `loaded` are the disk and the kernel; one action per step of a plan |
| `ConfigStore` | `config/src/lib.rs` | `inPlace`, `temp`, `aside` are the three files, `lock` the file lock, `durable` what a power cut may bring back; one action per system call |
| `Lights` | `rgb/src/lib.rs`, `effects.rs` | `wish`, `dark`, `owned`, `error` are `State`'s fields, `hw` the writer lock, `frames` the effect's thread, `lit` the keyboard |
| `Hotkey` | `hotkey/src/lib.rs`, `devices.rs` | `window` is `State::learning`, `waiting` the threads at the condition variable, `unread` and `batch` what the kernel and the watcher hold |
| `*_proofs` | | the theorems of section 5 |
| `MC*` | | the instances of section 3 |

Operators whose comment says "Mutant" are plausible mistakes in the definition that
follows; `PROJECT.json` pairs each with the property that notices it.

### What is abstracted

**Who drives the fans.** What a control pass decides to write is any order (it is
`FanControl`); a cycle's duration and temperature limits are "may expire" and "may
be too hot"; ids of cycles are never reused (bound `Cycles`); reverse speeds are
`0..TopSpeed`; `acpi_call` is loaded; the floor override of the driver is left
out; the settle wait of the ramp is part of `Release`; a measurement's reading of
what it will restore is part of its claim; `Run` enters the cycle and spawns its
watchdog in one step; the loop may panic only inside its control pass.
`mode_operation` is left out because the control pass is under the state lock.

**The control pass.** Speeds are a small set and the two fans get one order;
a timer is a free answer to "has it been that long"; temperatures are read from a
set around the thresholds. The smoother of a curve, `raise_floor`, the split
between the CPU and GPU fan and the watch on a stall's tachometers are left
out, and exits are `FanOwnership`'s. Three things the code does are in the model
and worth knowing: a resume, or the end of a measurement, leaves `safety_hold` as it
was, so the order of a guard is not put on the fans again for up to a minute; an
adopted mode is put back once after a hold; a write refused there is not retried.

**Power.** The machine has a platform profile. Override reports, the OS power
manager's half, fallback names of a profile and a supply that cannot be read are
left out; what the supervisor decides is any mode in `Power` and the real
decision in `AutoSwitcher`, where readings are bands and time is two yes or no
questions (is the pause over, is the gap over).

**Users.** A namespace is one value, so the machine's own keys inside it are
left out; nobody but the daemon edits `users.json`, except the administrator who turns the
setting over while it stands down (`SetStandDown`). **Network.** The rules
per application and the eBPF program are left out. **Keymap.** The substitution of
keys has no state of its own. **Lifecycle.** What the exit does to each module is in
that module. **Installer.** The initramfs step, kernel upgrades, half-copied files
and two installers at once are left out. **Events.** One reader, the most demanding.

**ConfigStore.** A file is its kind (absent, whole, broken by hand, torn) and the
version that wrote it. An editor writes only while no process holds the lock: it
takes none, and what it does between a check and a rename nothing can prevent.
**Lights.** Zones and brightness are one look; the throttle on battery, under a
shut lid or with the backlight off is left out; whether the next life restores
the file is free; a thread that cannot be spawned is left out. An effect's
thread always ends when it is told to: `STOP_TIMEOUT` (7 s) is longer than a
firmware call may take (5 s). **Hotkey.** Modifiers are part of which key it is; a
keyboard plugged in later or unplugged, and `hotkey.press`, are left out.

**Overclock.** A target is a member of a small set, so merging a request, the clamp and
the steps of the ramp are `Climb`'s intermediate `Adrift`; the hold may run out, or
the card report a fault, at any moment (`Due`); the retry delay is left out; a
request for what is already there does nothing and is no action; notes and
errors shown to the user are left out; GPUs are the drivable ones and do not come and
go. `Restart` stands for every end of the process: an exec, a stop, a crash (cards keep
their offsets) and a machine that hangs or reboots (cards are at stock).

## 3. Runs

Each passing run explores its whole state space. No configuration turns
deadlock checking off.

Small parts that share no state are checked in one run: a variable `alone` of the
MC module names the part that runs, the others stay at one of their initial
states, and fairness is stated for the part that runs. This is a union of
separate state spaces, not a product; nothing about one part can hide in another.

| run | bounds | what it shows |
|---|---|---|
| `fan_ownership` | 2 clients, 2 cycles, 1 life; at most one cycle was armed when the daemon is told to leave (`LeavesEarly`) | at most one thread drives the fans; flags match drivers; never reversed in silence; reverse only on blades at rest; a watchdog ends its own cycle only; the model implements `FanTenure` |
| `fan_restart` | 1 client, 1 cycle, 1 kill | fans are always given back; a daemon that comes up on reversed fans ends the reverse or says why not |
| `fan_control` | temperatures 50, 86 and 90 (cool, hot, critical), 2 speeds of which one is under the floor, requests for `auto`, `curve` and a speed, 2 events (requests, settings, resumes, measurements, panics); starts with the firmware in control or a curve restored (`MCSpec`) | what the status says was written is what the fans were told; full speed at critical heat whatever else competes; a mode is committed only by the write that ran it; adopted fans are left alone; a request is served; a guard lets go |
| `overclock` | 1 card, 2 targets, 1 change a life, 1 restart, saves may fail | an unconfirmed change is armed on disk; a revert goes to the confirmed target; nothing unanswered stays unless the card refuses for ever |
| `power` | 1 client, 2 modes of which one is tuned, 2 changes, 1 restart, hand-over or reboot; two changes only in one life (`ChangesShared`) | the fan module ends on the mode in force; the mode reported is the machine's; limits follow the mode; the file is ready for a restore |
| `host`: switcher | picks of two modes, three configurations, three bands | a pick is a ceiling for every later refinement, also after switches of the switcher's own; a moved cable is answered |
| `host`: keymap | 2 callers, 3 threads over time | one worker; it follows the switch |
| `host`: lifecycle | one signal at a time, any number of hand-overs, claims refused and sockets that fail | neither a signal nor a hand-over ends a process with the hardware in its hands; an exit on a failed socket does |
| `session`: users | 2 users and a stranger, 2 files, 1 change, 1 fault, 1 crash | settings are their owner's, whole; one hand-over for an arrival; an arrival is served |
| `session`: network | 1 client and the keeper, 2 devices, 1 move, 1 refusal, 1 restart | off means off; auto follows the route |
| `session`: events | ring of 1, 2 events, 1 restart | no gap a reader cannot see; the widget catches up |
| `session`: installer | either strategy, any order, any step refused or cut off | a restore that reports success runs the stock module, unless one was cut off half way or DKMS's copy was not removed |
| `devices`: cards | 2 cards, 2 targets, 2 changes | no stale revert, queued reset or probe leaves the record out of step with a card; only what runs is confirmed |
| `devices`: store | 2 processes of two builds, 1 edit, 1 power cut, kills and refusals anywhere | the file in place is never torn, and replaced or moved aside only as it may be |
| `devices`: lights | 1 caller and the exit, 2 looks, 1 effect, 1 restart | the lights show what was set last, and no frame lands on top |
| `devices`: hotkey | 2 learners, a key with no code and a button, 2 presses | a report answers one learner, who asked before it, or runs the action, once |
| `fan_exit` (violation) | 1 client, may leave | a measurement in flight orders a speed after `on_exit` handed the fans back |
| `fan_no_tach` (violation) | tachometers unreadable | the brake does not wait and reverse is engaged on turning blades |
| `overclock_hang` (violation) | 1 restart | a hang during the climb is not recognised: the saved offset is restored |
| `overclock_reset` (violation) | 1 restart | after a restart of the daemon alone, consent withdrawn leaves the offset on the card |

Why the bounds are enough to show the cases: two clients and two cycles are the
least with which a stale watchdog, a second start and a measurement all meet; one
reverse step above zero is enough for a ramp that can be cut short. Two changes in a
life let a thread revert the first when the second is pending, or an older
announcement arrive after a newer one; one client with the supervisor, the
watcher and an outsider gives four writers of the mode. A ring of one event is the
least that evicts. Three keymap threads are one leaving, one coming up and one
a third caller may start. Two processes of two builds are a writer, a loader and
a file neither may lose. The type invariants of `Users`, `Network`, `Events` and
`Installer` are checked in `session` as well as proved; those of the other modules are
proved (section 5).

### Fairness

**Fans.** Weak fairness of every thread that has begun a sequence (the operating
system runs threads), of the end of a measurement and of a cycle's time, and of the
loop. None of a watchdog waking, of a client asking, or of the daemon
leaving: `FansReturned` must hold from the loop's own countdown, which is what
`stop_if_expired` is in the loop for.

**Control pass.** The loop runs every two seconds, and over and over finds the machine
cool, its sensors well and the write accepted (strong fairness of `Loop(TRUE)`):
`RequestServed` and `SettingBack` speak of a machine that does not stay in trouble.
Whoever takes the fans gives them back, which is `FansReturned`.

**Overclock.** Weak fairness of every operation begun and of the watchdog. Nothing
says a card ever accepts a write, so `UndoneUnlessRefused` asks that it be tried
again for ever in that case. With two cards, `std::sync::Mutex` gives no order to
its waiters and a client that resets the other card in a loop could starve the
watchdog, so the liveness run has one card, where such a reset ends the change itself.

**The rest.** Weak fairness of the threads each module has (the supervisor's two halves
and the end of the gap between transitions; the remapping threads and the calls
begun; the users' daemon; the calls, the keeper and the end of its back-off; the
widget's poller, an announcement to be made, and a service that is started
again). No client has to call, no route to stay, no cable to move.

## 4. What disagrees

`PROJECT.json` "findings" quotes the documents. In short: `on_exit` does not wait
for or stop a measurement; a tachometer that cannot be read counts as a fan at
rest; an overclock is armed on disk only after its climb, and the climb is when a
machine hangs; a reset after a restart trusts an empty `applied`.

The modules also state, outside the runs, what one might expect and TLC finds
violated. Some follow from a comment, some only from a reader's hope; all are races
or failures a maintainer may want to know of:

| property | module | what happens |
|---|---|---|
| `OneDriver` over `CrashSpec` | `FanOwnership` | the recovery thread takes the stop sequence without looking, and a client that began before it was scheduled drives beside it |
| `CriticalHeld` | `FanControl` | a resume or the end of a measurement at critical heat leaves the fans off full speed until the next rewrite |
| `ReleasedMeansFirmware` | `FanControl` | `released` may stay set over a hold, with the fans somewhere else |
| `ChoiceStands` | `AutoSwitcher` | a decision taken before a pick is applied after it |
| `CapRemembered`, `MoveNoticed` | `Power` | limits set by the supervisor are not on file as ours; a refused switch leaves a profile the watcher takes for its own |
| `ChosenMode` | `Network` | `keep_mode` decides, `setMode(off)` runs, and auto is put back |
| `OwnSettingsAnyhow` | `Users` | a save of who is being restored fails, the process dies, and one user's files count as another's |
| `ReleasedAtEveryEnd` | `Lifecycle` | `serve_unix_socket` fails and `main` exits with every module driving: nothing is released (`main.rs` 684) |
| `StopKnown` | `Lifecycle` | a stop that arrives around the exec of a hand-over |
| `WidgetRereads` | `Events` | the widget does not look at `missed` |
| `RestoreAlwaysStock` | `Installer` | a restore cut off between its halves makes the next install keep a copy of ours as stock; and a restore whose optional `dkms remove` failed or was declined reports success with DKMS's copy loaded, since `depmod` prefers `updates/` |
| `UndoPutsBack` | `Overclock` | a revert on a card whose daemon was restarted goes to the saved target, which may not have been on the card |
| `BrokenKept` | `ConfigStore` | a save over a file that does not parse replaces it: only a load keeps it aside |
| `QuietWhileLearning` | `Hotkey` | a learner whose key a second one took times out, shuts the second one's window, and the next key fires the old binding |
| `OwnedIsWritten` | `Lights` | `owned` is set before the restore of a start, which may find no dialect to write with |
| `StoppedWithReason` | `Lights` | taking the truncated four-zone write away may stop an effect with nothing in `error` |
| `LookStands` | `Lights` | `stopEffect` reads the zones before it waits for the writer lock (needs two players) |

## 5. Proofs

Every proof is for all values of the constants, infinite sets of clients included.

`FanOwnership_proofs`, from `ThreadsAssumption` and `BoundsAssumption` (thread
names are distinct; bounds are of their types), over `LifeSpec` (one life):

- `TypeCorrect`: `[]TypeOK`; `TypeCorrectOverLives` says it of `CrashSpec`, lives that
  end anywhere and begin on fans left reversed.
- `OneDriverAtATime`: `[]OneDriver`, by the inductive invariant `IInv`. Mutual
  exclusion alone is not inductive: a step must know that a thread inside a
  sequence holds the claim. `Places` keeps each thread among the labels of its
  own code, and `Claims` ties each label to the flag that was taken under the lock
  (`cleaning` in the right phase, or `calibrating`) and the two flags to each other.
- `FlagsSound`: the converse: a flag set has a thread to clear it.
- `NeverSilentlyReversed` and `StoppedBeforeReversed`: by `Grip`, what a thread in
  a sequence may rely on of the hardware (braked stays braked; a stop that ends on
  an override still on has noted a refusal), which rests on `OneDriver`.
- `WatchdogEndsItsOwn`: `OwnCycleOnly`. Every other thread that takes the cleaner's flag
  leaves the armed watchdogs as they are, and a watchdog that fires compares first.
- `ImplementsTenure`: every step of `FanOwnership` is a step of `FanTenure` or
  a stutter, under `Tenant`.
- `RestartsComeUp`, `OneDriverInLaterLives` and `LaterLivesImplementTenure`: a restart on fans not
  seen reversed begins a life with nothing claimed (`ComesUp`), and such a life, whatever is
  still on the hardware, keeps `OneDriver`, `FlagsMatchDrivers`, `OwnCycleOnly` and the tenure. A life that
  begins with the recovery thread is left out: there `OneDriver` fails (section 4).

`FanControl_proofs`, from `FanAssumption`, over `FairSpec`: `FanTypes`; `AlwaysHonest` and
`AlwaysCriticalAtFull` by `Told`, which is `HonestStatus` with `FullAtHeat`
(the critical guarantee of a mode that commands a speed, without its exception for fans
that are away, since they come
back in mid-pass) and `TakenMoved` (fans that were taken count as moved until a pass
has written them); `OnlyWhatRanIsCommitted` and `AdoptedIsLeftAlone`, action
properties that follow from what one pass may do. A pass is taken apart once, by
lemmas about its parts, and put together for each.

`Power_proofs`, from `PowerAssumption`: `PowerTypesAlways`; `MachineAlwaysInMode`;
`CapsAlwaysFollow` by `LimitsOwned` (limits that are not stock are ours, unless the
daemon was not told); `RestoreAlwaysReady` by `ModeKept`; `FanAlwaysFollows` by
`FanKnown`: every announcement carries a generation no newer than the machine's, one
of the current generation carries its mode, and either the fan module has heard the
current generation or somebody is still announcing it or the start's snapshot will
bring it.

`Host_proofs`, from the assumptions of `AutoSwitcher` and `Keymap`, over each part's own
specification and then over `ServicesSpec`:

- `SwitcherTypesAlways`, and `PickIsACeiling`: `NeverAbovePick`. What a tick decides is
  `refine`'s doing, so this is an argument about its rules in their order: unless the
  switcher is taking the machine's mode over, a mode it did not hand out itself has
  been noted as a pick, and no later rule goes above a pick that is noted. By `PickStands`:
  once its client has told the switcher, the pick is what it goes by, and what it
  believes of the cable cannot make it forget, nor can a switch of its own: the pick is
  remembered until the cable moves or the switcher is switched back on.
- `OneWorkerAlways` by `WorkerKnown` (the flags name the busy thread).
- `HardwareReleasedAtEnd` by `HandsKnown` (of the two threads that end the process on
  purpose, the one about to has the right and has let go). `main`, which exits without
  a release when its socket fails, is the exception the property names.
- `HostKeepsItsWord`: the three together, of the specification that the run `host` explores.

`Devices_proofs`, over each part's own specification and then over `ServicesSpec`:

- `StoreTypesAlways`, and `AlwaysReplacedSafely` by `StoreInv`: whoever is past the lock
  holds it, so what a holder saw of the file in place still holds when it acts, the
  temporary file is its own, and nothing torn is ever in place or durable.
- `LightsTypesAlways`, and `LightsAlwaysAsSet` by `LightsKnown`: who is past the wait for the
  writer lock holds it (`HolderWrites`), an effect's thread has ended before anything
  else is written (`EffectStops`), and what a call brings, or has read under the lock,
  is what is or is about to be recorded (`JobKnown`).
- `AlwaysAnsweredOnce`, an action property, by `ReportKnown`: a key that was caught came after
  whoever waits had asked, and nobody has had it.
- `HotkeyTypesAlways` by `PressesCounted`: reports dealt with, read or still in the kernel and
  the keys held are at most two for each press. `ButtonsStayUnbound`: no button is ever
  bound, learnt or asked for. `WindowAlwaysAttended`: an open window has somebody at it.
- `DevicesKeepTheirWord`: the properties together, of the specification that the run
  `devices` explores.

`Session_proofs`, over each part's own specification and then over `ServicesSpec`:

- `RestoreAlwaysMeansStock` by `InstallerKnown`: under every step of a plan one of the two
  names is home to the distribution's module, in place or in a backup that no step of
  that plan overwrites (`HomeAt`), a plan's remaining steps fit what is on disk
  (`PlanKnown`), and DKMS's module is there only while it is registered (`DkmsKnown`): one
  still there after a restore is a `dkms remove` that failed or was declined. That case and
  a restore cut off between its halves are the property's exceptions.
- `EventsAlwaysAccounted` by `EventsKnown`: the ring is the newest numbers without a gap
  (`RingKnown`), what was heard and what was lost add up to where the reader has got
  (`HeardKnown`), and a batch on its way spans exactly what lies between its reader's
  number and its own (`BatchKnown`), also when the daemon it came from has ended.
- `SettingsAlwaysOwn` by `SettingsKnown`: whoever is not the owner has their last settings
  in their copy (`CopiesStand`), the owner as far as they have been put aside, and the
  files put back so far are their new owner's. `OwnSettings` alone says nothing of a
  copy, and it is the copy that will be in use. `TaskKnown` says which file operations
  there are: for somebody else than the owner, put back only before the modules are built.
- `OneHandOverOnly`, an action property, by `HandOverDone`: whoever the last hand-over was
  for is being served, has become the owner, or has been given up.
- `SessionTypesAlways` and `SessionKeepsItsWord`: the types and the properties of the four
  parts together, of the very specification that the run `session` explores.

`Network_proofs`: `OffAlwaysMeansOff` by `OffKnown` (the operation lock is held
through the commit, so who commits off has taken the queuing off), and
`NetworkTypesAlways`, whose links are numbered within bounds because each device
replaced is counted.

`Overclock_proofs`, from `ThreadsAssumption`, `CardsAssumption` and
`BoundsAssumption`, over `Spec`, restarts and failed saves included:

- `TypeCorrect`: `[]TypeOK`.
- `ArmedOnDisk` and `RevertsToTheConfirmed`: `[]ArmedWhilePending`,
  `[]RevertToConfirmed`. The armed flag in memory follows the pending change
  (`Armed`), a save makes disk and memory equal, and only what ends a change moves
  the target it goes back to.
- `CardIsKnown`: `[]CardKnown`. Seen between two operations it is not inductive, since
  a write and the note of it are two steps. `Exclusion` says who may be
  between them (a thread that holds `hardware_operation`; while the daemon starts,
  the main thread, which does not take the lock and does not need it, as nobody
  is served yet), `Writes` what such a thread knows of the card, and `Known` is
  `CardKnown` but for the cards a thread is about to note (`Wrote`).
- `OnlyWhatRunsIsConfirmed`: `ConfirmsWhatRuns`, an action property. `confirm` takes
  the state lock alone, so it may come in the middle of a revert: that a change
  that is still `coherent` is on its card (`Confirmable`) needs every undo to have
  marked it first (`Identity`), whichever of the timer, a cancel or a reset it is.

Assumed nowhere: that a write lands, that a save works, that a thread is fast.

Only model-checked: liveness, which needs fairness and `ENABLED` (`FansReturned`,
`ReverseRecovered`, `UndoneUnlessRefused`, `RequestServed`, `SettingBack`,
`TransitionServed`, `FollowsSwitch`, `ArrivalServed`, `AutoKept`, `WidgetCatchesUp`).
Every invariant and every action property of a passing run is a theorem. No algorithm here is recursive.

## 6. What the plan has left

1. Abstract specifications for `Overclock` (a card that is stock, on trial or confirmed) and
   for `Users` (whose settings are in use), with the refinements proved as that of
   `FanTenure` is; the rules of `FanControl` for lives that begin on adopted fans.
2. `Network`'s rules per application, and the throttle of `Lights` with the race in
   `apply_throttle`.
3. The measurements of the fan module as state machines (what they conclude from
   readings is arithmetic; when they stop is not).
4. `FanControl` with the two fans apart.

## 7. Not modelled, and why

The map covers a small share of the repository's lines, and most of the rest has no
behaviour a state machine would show: parsing and byte formats (rgb dialects, driver
patching, metrics, identity), arithmetic (curves, smoothing, clamps, ramps, the
sweeps' statistics), the command line tools and the user interfaces, transport
(sockets, framing, logging), the C driver and the eBPF program, and status reports
assembled as JSON. The components whose source keeps state that several threads share are
the ones modelled. `PROJECT.json` "components" gives the reason for each.
