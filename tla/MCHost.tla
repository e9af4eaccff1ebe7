------------------------------- MODULE MCHost -------------------------------
(***************************************************************************)
(* Three parts that share no state, each explored by itself in one run:     *)
(* `alone` names the one that runs, the others stay at one initial state.   *)
(***************************************************************************)
EXTENDS AutoSwitcher, Keymap, Lifecycle

MCConfig(on, battery, system) ==
  [enabled |-> on, onBattery |-> battery, onMains |-> Performance,
   ecoOnBattery |-> TRUE, performanceOnLoad |-> system, backOff |-> TRUE]
MCAuto == {MCConfig(TRUE, Eco, TRUE), MCConfig(TRUE, Balanced, FALSE), MCConfig(FALSE, Eco, TRUE)}

Services == {"auto", "keymap", "lifecycle"}

VARIABLE alone

allVars == <<alone, autoVars, keymapVars, lifecycleVars>>

ServicesInit ==
  /\ alone \in Services
  /\ AutoInit /\ (alone # "auto" => auto = MCConfig(TRUE, Eco, TRUE) /\ inForce = Eco /\ cable = NoSource)
  /\ KeymapInit /\ (alone # "keymap" => ~enabled /\ worker = [w \in Workers |-> "none"])
  /\ LifecycleInit

ServicesNext ==
  /\ UNCHANGED alone
  /\ \/ alone = "auto" /\ AutoNext
           /\ UNCHANGED <<keymapVars, lifecycleVars>>
     \/ alone = "keymap" /\ KeymapNext
           /\ UNCHANGED <<autoVars, lifecycleVars>>
     \/ alone = "lifecycle" /\ LifecycleNext
           /\ UNCHANGED <<autoVars, keymapVars>>

\* The fairness each module states, of the service that runs.
RunsFair ==
  /\ WF_autoVars(alone = "auto" /\ Tick)
  /\ WF_autoVars(alone = "auto" /\ Apply)
  /\ WF_autoVars(alone = "auto" /\ GapEnds)
  /\ \A w \in Workers : WF_keymapVars(alone = "keymap" /\ WorkerStep(w))
  /\ \A c \in Callers : WF_keymapVars(alone = "keymap" /\ CallerStep(c))

ServicesSpec == ServicesInit /\ [][ServicesNext]_allVars /\ RunsFair
=============================================================================
