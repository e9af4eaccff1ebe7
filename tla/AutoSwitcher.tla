---------------------------- MODULE AutoSwitcher ----------------------------
(***************************************************************************)
(* The supervisor that picks a power mode on its own: the confirmation of a *)
(* moved cable, the transition it answers with and may have to hold back,   *)
(* the slow refinement around the preferred or hand-picked mode, the heat   *)
(* latch, and the pause a choice made by hand imposes.                      *)
(*                                                                         *)
(* The supervisor decides under the state lock, reads the backend with the  *)
(* lock released, and applies under a second lock (Tick, then Apply).  A    *)
(* client sets a mode and tells the switcher under two locks as well        *)
(* (Choose, then AdoptChoice).  Time is two questions with either answer: is the  *)
(* pause over, is the gap between two transitions over.                     *)
(***************************************************************************)
EXTENDS PowerModes

CONSTANTS
  Choosers,        \* the client connections that set a mode
  Picks,           \* the modes they, and programs outside, choose between
  AutoConfigs,     \* the configurations setAutoConfig may be given
  SamplesToSwitch, \* AutoConfig::samples_to_switch
  Loads            \* the readings of the load, members of LoadBands

LoadBands == {"low", "below", "middle", "above", "high"}
NoSource == "none"   \* a machine without a battery; also an empty Option
Sources == {"battery", "mains"}
Stay == [mode |-> NoMode, why |-> "nothing"]

AutoConfigType ==
  [enabled : BOOLEAN, onBattery : {Eco, Balanced}, onMains : {Balanced, Performance},
   ecoOnBattery : BOOLEAN, performanceOnLoad : BOOLEAN, backOff : BOOLEAN]

ASSUME AutoAssumption ==
  /\ Choosers # {} /\ Picks \subseteq PowerModes /\ Picks # {}
  /\ AutoConfigs \subseteq AutoConfigType /\ AutoConfigs # {}
  /\ SamplesToSwitch \in Nat \ {0}
  /\ Loads \subseteq LoadBands /\ Loads # {}

VARIABLES
  switcher, \* State::switcher
  auto,     \* State::config.auto
  inForce,  \* State::mode
  paused,   \* State::manual_override_at is recent
  cable,    \* what the machine runs on
  held,     \* the decision the supervisor holds between its two locks, or Stay
  adopting, \* per client, the mode it has set and not yet told the switcher
  picked,   \* history: the mode last picked by hand since the cable moved, or since
            \* the switcher was last switched back on
  early     \* history: it was picked while another pick was not yet adopted,
            \* or before the switcher believed that the cable had moved

autoVars == <<switcher, auto, inForce, paused, cable, held, adopting, picked, early>>

FreshSwitcher == [source |-> NoSource, unconfirmed |-> NoSource, deferred |-> NoSource,
          gap |-> FALSE, pending |-> NoMode, count |-> 0, hot |-> FALSE,
          manual |-> NoMode]

SwitcherState ==
  [source : Sources \cup {NoSource}, unconfirmed : Sources \cup {NoSource},
   deferred : Sources \cup {NoSource}, gap : BOOLEAN, pending : PowerModes \cup {NoMode},
   count : 0..SamplesToSwitch - 1, hot : BOOLEAN, manual : PowerModes \cup {NoMode}]
Decisions == {Stay} \cup [mode : PowerModes, why : {"transition", "heat", "refined"}]

\* The types of the switcher's variables.
SwitcherTypes ==
  /\ switcher \in SwitcherState
  /\ auto \in AutoConfigs
  /\ inForce \in PowerModes
  /\ paused \in BOOLEAN
  /\ cable \in Sources \cup {NoSource}
  /\ held \in Decisions
  /\ adopting \in [Choosers -> PowerModes \cup {NoMode}]
  /\ picked \in PowerModes \cup {NoMode}
  /\ early \in BOOLEAN

AutoInit ==
  /\ switcher = FreshSwitcher
  /\ auto \in AutoConfigs
  /\ inForce \in PowerModes
  /\ paused = FALSE
  /\ cable \in Sources \cup {NoSource}
  /\ held = Stay
  /\ adopting = [c \in Choosers |-> NoMode]
  /\ picked = NoMode
  /\ early = FALSE

-----------------------------------------------------------------------------
(* The switcher's own decisions, on a record s of its state.               *)

\* range: where refinement moves on each source; no battery counts as mains.
Floor(source) == IF source = "battery" THEN Eco ELSE Balanced
Ceiling(source) == IF source = "battery" THEN Balanced ELSE Performance
Preferred(source) == IF source = "battery" THEN auto.onBattery ELSE auto.onMains
SystemEnabled(source) ==
  IF source = "battery" THEN auto.ecoOnBattery ELSE auto.performanceOnLoad

Lower(a, b) == IF a <= b THEN a ELSE b
StepDown(mode, floor) == IF mode <= floor THEN mode ELSE mode - 1
StepUp(mode, ceiling) == IF mode >= ceiling THEN mode ELSE mode + 1

\* Mutant: a take-over forgets what was picked by hand as well.
ResetForgets(s) == [s EXCEPT !.pending = NoMode, !.count = 0, !.manual = NoMode]
\* AutoSwitcher::reset.
Reset(s) == [s EXCEPT !.pending = NoMode, !.count = 0]

\* AutoSwitcher::adopt.
AdoptPick(s, mode) == [Reset(s) EXCEPT !.manual = mode]

\* A hand-picked mode that is the preference is not treated as hand-picked.
ByHand(s, source) == s.manual \notin {NoMode, Preferred(source)}
Baseline(s, source) == IF ByHand(s, source) THEN s.manual ELSE Preferred(source)

\* HeatLatch::observe: between the two thresholds, or unread, nothing changes.
Latched(hot, heat) ==
  CASE heat = "hot" -> TRUE
    [] heat = "cool" -> FALSE
    [] OTHER -> hot

\* refine: where conditions point, the first rule that fires, or Stay.
Refine(s, in, mode) ==
  LET src == in.source
      home == Baseline(s, src)
      below == StepDown(home, Floor(src))
      above == IF ByHand(s, src) THEN home ELSE StepUp(home, Ceiling(src))
      To(to, why) == [mode |-> to, why |-> why]
  IN IF s.hot /\ auto.backOff THEN To(Lower(below, mode), "heat")
     ELSE IF src = "battery" /\ in.lowBattery THEN To(Lower(Floor(src), mode), "refined")
     ELSE IF ~ByHand(s, src) /\ mode < Floor(src) THEN To(Floor(src), "refined")
     ELSE IF ~ByHand(s, src) /\ mode > Ceiling(src) THEN To(Ceiling(src), "refined")
     ELSE IF in.load = "high" THEN To(above, "refined")
     ELSE IF in.load = "low" THEN To(below, "refined")
     ELSE IF mode > home /\ in.load \in {"below", "middle"} THEN To(home, "refined")
     ELSE IF mode < home /\ in.load \in {"middle", "above"} THEN To(home, "refined")
     ELSE Stay

Quiet(s) == [switcher |-> Reset(s), go |-> Stay]

Enough(count) == count >= SamplesToSwitch

\* AutoSwitcher::refinement: the same target SamplesToSwitch times in a row.
Refinement(s, in, mode) ==
  LET to == Refine(s, in, mode)
      count == IF s.pending = to.mode THEN s.count + 1 ELSE 1
  IN IF \/ mode = Unlimited
        \/ ~SystemEnabled(in.source) /\ ~(s.hot /\ auto.backOff)
        \/ to = Stay
        \/ to.mode = mode
     THEN Quiet(s)
     ELSE IF Enough(count)
     THEN [switcher |-> Reset(s), go |-> to]
     ELSE [switcher |-> [s EXCEPT !.pending = to.mode, !.count = count], go |-> Stay]

\* A second sample in a row confirms the new source (SOURCE_SAMPLES_TO_SWITCH).
\* A choice made for the old source is not one for the new one.
Confirmed(s, source) ==
  [Reset(s) EXCEPT !.source = source, !.unconfirmed = NoSource, !.manual = NoMode,
                   !.deferred = IF SystemEnabled(source) THEN source ELSE NoSource]

\* Mutant: a transition that comes too soon is dropped.
HeldBackDropped(s) == [switcher |-> [s EXCEPT !.deferred = NoSource], go |-> Stay]
\* A transition that comes too soon is kept, and nothing is refined meanwhile.
HeldBack(s) == [switcher |-> s, go |-> Stay]

\* The answer to a confirmed source, held back while the last one is recent.
Transition(s, source, mode) ==
  LET to == Preferred(s.deferred)
      done == [s EXCEPT !.deferred = NoSource]
  IN IF s.deferred # source \/ to = mode
     THEN [switcher |-> done, go |-> Stay]
     ELSE IF s.gap
     THEN HeldBack(s)
     ELSE [switcher |-> [done EXCEPT !.gap = TRUE],
           go |-> [mode |-> to, why |-> "transition"]]

\* AutoSwitcher::observe_at, on the state s0 of the switcher.
ObservedAt(s0, in, mode) ==
  LET s == [s0 EXCEPT !.hot = Latched(@, in.heat)]
      src == in.source
      news == s.source \notin {NoSource, src}
      t == IF news THEN Confirmed(s, src)
           ELSE IF s.source = NoSource THEN [s EXCEPT !.source = src]
           ELSE [s EXCEPT !.unconfirmed = NoSource]
  IN IF src = NoSource THEN Refinement(s, in, mode)
     ELSE IF news /\ s.unconfirmed # src
     THEN [switcher |-> [s EXCEPT !.unconfirmed = src], go |-> Stay]
     ELSE IF t.deferred # NoSource THEN Transition(t, src, mode)
     ELSE Refinement(t, in, mode)

\* A pause silences every refinement that is not about heat.
Unpaused(r) ==
  IF paused /\ ~r.switcher.hot /\ r.go.why \notin {"transition", "heat"}
  THEN Quiet(r.switcher) ELSE r

-----------------------------------------------------------------------------
(* The supervisor.                                                         *)

\* AutoInputs::sample: the heat and the battery are looked at last.
Samples == [source : {cable}, load : Loads, heat : {"hot", "between", "cool"},
            lowBattery : IF cable = "battery" THEN BOOLEAN ELSE {FALSE}]

\* supervise_once, its first lock: one sample and what it decides.
Tick ==
  /\ held = Stay
  /\ auto.enabled
  /\ \E in \in Samples :
       \E r \in {Unpaused(ObservedAt(switcher, in, inForce))} :
         /\ switcher' = r.switcher
         /\ held' = r.go
  /\ UNCHANGED <<auto, inForce, paused, cable, adopting, picked, early>>

\* Mutant: a decision that is applied takes the place of what was picked by hand.
ApplyForgets ==
  /\ held # Stay
  /\ held' = Stay
  /\ inForce' \in {held.mode, inForce}
  /\ switcher' = [switcher EXCEPT !.manual = NoMode]
  /\ UNCHANGED <<auto, paused, cable, adopting, picked, early>>
\* supervise_once, its second lock: the decision is applied, unless no
\* mechanism took it.
Apply ==
  /\ held # Stay
  /\ held' = Stay
  /\ inForce' \in {held.mode, inForce}
  /\ UNCHANGED <<switcher, auto, paused, cable, adopting, picked, early>>

(* The clients.                                                            *)

Adopting == \E c \in Choosers : adopting[c] # NoMode
Pick(mode) ==
  /\ picked' = mode
  /\ early' = (Adopting \/ switcher.source \notin {NoSource, cable})

\* set_mode for choose: the mode and the pause, under one lock; a mode no
\* mechanism took still pauses the supervisor and ends there.
Choose(c, mode) ==
  /\ adopting[c] = NoMode
  /\ paused' = TRUE
  /\ switcher' = Reset(switcher)
  /\ \/ /\ inForce' = mode
        /\ adopting' = [adopting EXCEPT ![c] = mode]
        /\ Pick(mode)
     \/ UNCHANGED <<inForce, adopting, picked, early>>
  /\ UNCHANGED <<auto, cable, held>>

\* choose, its second lock.
AdoptChoice(c) ==
  /\ adopting[c] # NoMode
  /\ switcher' = AdoptPick(switcher, adopting[c])
  /\ adopting' = [adopting EXCEPT ![c] = NoMode]
  /\ UNCHANGED <<auto, inForce, paused, cable, held, picked, early>>

\* setAutoConfig: switched back on, it starts from nothing.
SetAutoConfig(new) ==
  /\ new # auto
  /\ auto' = new
  /\ switcher' = IF new.enabled /\ ~auto.enabled THEN FreshSwitcher ELSE Reset(switcher)
  /\ picked' = IF new.enabled /\ ~auto.enabled THEN NoMode ELSE picked
  /\ UNCHANGED <<inForce, paused, cable, held, adopting, early>>

(* The world.                                                              *)

\* watch_once follows a firmware profile another program set: a choice too.
Follow(mode) ==
  /\ Family(mode) # Family(inForce)
  /\ inForce' = mode
  /\ paused' = TRUE
  /\ switcher' = AdoptPick(switcher, mode)
  /\ Pick(mode)
  /\ UNCHANGED <<auto, cable, held, adopting>>

MoveCable ==
  /\ cable # NoSource
  /\ cable' \in Sources \ {cable}
  /\ picked' = NoMode
  /\ UNCHANGED <<switcher, auto, inForce, paused, held, adopting, early>>

\* manual_override_secs have passed; nobody's choose takes that long.
PauseEnds ==
  /\ paused
  /\ ~Adopting
  /\ paused' = FALSE
  /\ UNCHANGED <<switcher, auto, inForce, cable, held, adopting, picked, early>>

\* TRANSITION_GAP has passed since the last transition.
GapEnds ==
  /\ switcher.gap
  /\ switcher' = [switcher EXCEPT !.gap = FALSE]
  /\ UNCHANGED <<auto, inForce, paused, cable, held, adopting, picked, early>>

AutoNext ==
  \/ Tick
  \/ Apply
  \/ \E c \in Choosers : (\E mode \in Picks : Choose(c, mode)) \/ AdoptChoice(c)
  \/ \E new \in AutoConfigs : SetAutoConfig(new)
  \/ \E mode \in Picks : Follow(mode)
  \/ MoveCable
  \/ PauseEnds
  \/ GapEnds

AutoSpec == AutoInit /\ [][AutoNext]_autoVars

\* The supervisor's thread keeps running, and time passes.
AutoFairness ==
  /\ WF_autoVars(Tick)
  /\ WF_autoVars(Apply)
  /\ WF_autoVars(GapEnds)

-----------------------------------------------------------------------------
(* Properties.                                                             *)

\* A mode picked by hand is a ceiling: while the cable stays where it was, and
\* the pick is not the preference itself, no refinement is decided that goes
\* above it, however long after the pause and however many switches of its own
\* the switcher has made since (the doc of refine, rule 4).  Picks
\* made at the same time, and those made before the switcher has believed a
\* moved cable, are left out: ChoiceStands is about them.
NeverAbovePick ==
  [][(Tick /\ held'.why = "refined" /\ picked \notin {NoMode, Preferred(cable)}
       /\ ~early /\ ~Adopting)
       => held'.mode <= picked]_autoVars

\* A change of power source is answered: once it has been seen, the transition
\* to the preferred mode is handed out, however long the gap holds it back,
\* unless the machine got to that mode another way, the cable moved again, or
\* the system for that source is off (TRANSITION_GAP).
TransitionServed ==
  \A src \in Sources :
    (switcher.unconfirmed = src) ~>
      \/ held.why = "transition" /\ held.mode = Preferred(src)
      \/ inForce = Preferred(src)
      \/ cable # src
      \/ ~auto.enabled \/ ~SystemEnabled(src)

\* What a person picked stands: a switch that is not about heat takes the
\* machine above the mode last picked only if the cable was moved after the
\* pick (auto.rs, "It must not fight the user").
ChoiceStands ==
  [][(Apply /\ held.why # "heat" /\ picked \notin {NoMode, Preferred(cable)})
       => inForce' <= picked \/ inForce' = inForce]_autoVars
=============================================================================
