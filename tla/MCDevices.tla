------------------------------ MODULE MCDevices ------------------------------
(***************************************************************************)
(* Four parts that share no state, each explored by itself, for safety:     *)
(* two graphics cards, a file of the configuration, the lights, the hotkey. *)
(* `alone` names the one that runs, the others stay at one initial state.   *)
(***************************************************************************)
EXTENDS Overclock, ConfigStore, Lights, Hotkey, TLC

Services == {"cards", "store", "lights", "hotkey"}

VARIABLE alone

allVars == <<alone, vars, storeVars, lightsVars, hotkeyVars>>

ServicesInit ==
  /\ alone \in Services
  /\ Init
  /\ StoreInit /\ (alone # "store" => inPlace = "absent")
  /\ LightsInit
  /\ HotkeyInit /\ (alone # "hotkey" => triggers = {} /\ ~cannot)

ServicesNext ==
  /\ UNCHANGED alone
  /\ \/ alone = "cards" /\ Next /\ UNCHANGED <<storeVars, lightsVars, hotkeyVars>>
     \/ alone = "store" /\ StoreNext /\ UNCHANGED <<vars, lightsVars, hotkeyVars>>
     \/ alone = "lights" /\ LightsNext /\ UNCHANGED <<vars, storeVars, hotkeyVars>>
     \/ alone = "hotkey" /\ HotkeyNext /\ UNCHANGED <<vars, storeVars, lightsVars>>

ServicesSpec == ServicesInit /\ [][ServicesNext]_allVars

\* Cards stand for each other, and so do targets other than stock.
CardSymmetry == Permutations(GPUs) \cup Permutations(Offsets)
=============================================================================
