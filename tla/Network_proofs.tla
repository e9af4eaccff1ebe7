--------------------------- MODULE Network_proofs ---------------------------
(***************************************************************************)
(* The proof that an interface the network module says is off has no qdisc  *)
(* of ours on it, for any number of clients and devices.                    *)
(***************************************************************************)
EXTENDS Network, TLAPS

\* What the switch needs of the types.
SwitchTypes ==
  /\ route \in Devices \cup {NoDevice}
  /\ ifindex \in [Devices -> Nat] /\ queuing \in [Devices -> BOOLEAN]
  /\ applied = NoLink \/ applied.device \in Devices
  /\ lastOn = NoLink \/ lastOn.device \in Devices
  /\ doing \in [Switchers -> Doings]

\* tc runs, and what it did is committed, under the operation lock, on a device.
AtWork(t) == doing[t].at \in {"tc", "commit"}
LockHeld ==
  \A t \in Switchers : AtWork(t) => operation = t /\ doing[t].device \in Devices

\* What on_exit and the keeper clean is a device.
CleanDevice ==
  /\ doing["keeper"].at = "clean" => doing["keeper"].device \in Devices
  /\ exit = "waiting" => handing.device \in Devices

\* An off that tc has carried out stays carried out until it is committed.
OffDone ==
  \A t \in Switchers :
    (doing[t].at = "commit" /\ doing[t].took /\ doing[t].mode = "off")
      => ~queuing[doing[t].device]

\* OffMeansOff, up to the tc command of the next switch.
OffStands ==
  (/\ committed = "off" /\ \A t \in Switchers : doing[t].at # "commit"
   /\ lastOn # NoLink /\ lastOn = Link(lastOn.device))
    => ~queuing[lastOn.device]

OffKnown == SwitchTypes /\ LockHeld /\ CleanDevice /\ OffDone /\ OffStands

Elsewhere == <<route, ifindex, queuing, applied, lastOn, committed, exit, handing>>

LEMMA KeeperSwitches == "keeper" \in Switchers
  BY DEF Switchers

LEMMA LockIsNobodys == Free \notin Switchers
  BY NetworkAssumption DEF Switchers, Free

LEMMA OffKnownAtFirst == NetworkInit => OffKnown
<1> SUFFICES ASSUME NetworkInit PROVE OffKnown
  OBVIOUS
<1>1. SwitchTypes
  BY DEF NetworkInit, SwitchTypes, Doings, Resting, NetModes
<1> QED
  BY <1>1, KeeperSwitches
     DEF NetworkInit, OffKnown, LockHeld, AtWork, CleanDevice, OffDone, OffStands, Resting

\* A thread that goes to a place outside the lock, everything else as it was.
LEMMA MoveKept ==
  ASSUME OffKnown, NEW t \in Switchers, NEW there \in Doings,
         doing[t].at # "commit", there.at \notin {"tc", "commit"},
         there.at = "clean" => there.device \in Devices,
         doing' = [doing EXCEPT ![t] = there],
         UNCHANGED <<Elsewhere, operation>>
  PROVE  OffKnown'
<1> USE DEF OffKnown, Elsewhere
<1>1. \A u \in Switchers : doing'[u] = IF u = t THEN there ELSE doing[u]
  BY DEF SwitchTypes
<1>2. SwitchTypes'
  BY DEF SwitchTypes
<1>3. LockHeld'
  BY <1>1 DEF LockHeld, AtWork
<1>4. CleanDevice'
  BY <1>1, KeeperSwitches DEF CleanDevice
<1>5. OffDone'
  BY <1>1 DEF OffDone
<1>6. OffStands'
  BY <1>1 DEF OffStands, Link
<1> QED
  BY <1>2, <1>3, <1>4, <1>5, <1>6

\* One qdisc taken off, or left: by the keeper, by on_exit, by a device that went.
LEMMA TakenOffKept ==
  ASSUME OffKnown, NEW d \in Devices, NEW left \in BOOLEAN,
         queuing' = [queuing EXCEPT ![d] = @ /\ left]
  PROVE  /\ queuing' \in [Devices -> BOOLEAN]
         /\ \A e \in Devices : queuing'[e] => queuing[e]
  BY DEF OffKnown, SwitchTypes

LEMMA BeginSwitchKept ==
  ASSUME OffKnown, NEW t \in Switchers, BeginSwitch(t) PROVE OffKnown'
<1> USE DEF BeginSwitch, Goes
<1>0. doing[t] \in Doings
  BY DEF OffKnown, SwitchTypes
<1>1. CASE route = NoDevice
  <2> DEFINE there == IF t = "keeper" THEN [doing[t] EXCEPT !.at = "reply", !.took = FALSE]
                                      ELSE Resting
  <2>1. there \in Doings /\ there.at \in {"reply", "idle"}
    BY <1>0 DEF Doings, Resting, NetModes
  <2>2. doing' = [doing EXCEPT ![t] = there]
    BY <1>1
  <2> HIDE DEF there
  <2> QED
    BY <1>1, <2>1, <2>2, MoveKept DEF Elsewhere
<1>2. CASE route # NoDevice
  <2> DEFINE there == [doing[t] EXCEPT !.at = "tc", !.device = route]
  <2>1. there \in Doings /\ there.at = "tc" /\ there.device = route
    BY <1>0, <1>2 DEF Doings, OffKnown, SwitchTypes
  <2>2. doing' = [doing EXCEPT ![t] = there] /\ operation' = t
    BY <1>2
  <2> HIDE DEF there
  <2>3. \A u \in Switchers : doing'[u] = IF u = t THEN there ELSE doing[u]
    BY <2>2 DEF OffKnown, SwitchTypes
  <2>4. \A u \in Switchers : ~AtWork(u)
    BY LockIsNobodys DEF OffKnown, LockHeld
  <2> QED
    BY <1>2, <2>1, <2>2, <2>3, <2>4, KeeperSwitches
       DEF OffKnown, SwitchTypes, LockHeld, AtWork, CleanDevice, OffDone, OffStands, Link
<1> QED
  BY <1>1, <1>2

LEMMA RunTcKept ==
  ASSUME OffKnown, NEW t \in Switchers, RunTc(t) PROVE OffKnown'
<1>1. PICK took \in BOOLEAN, on \in BOOLEAN :
        /\ on = (doing[t].mode = "auto") \/ (~took /\ on = queuing[doing[t].device])
        /\ queuing' = [queuing EXCEPT ![doing[t].device] = on]
        /\ doing' = [doing EXCEPT ![t] = [doing[t] EXCEPT !.at = "commit", !.took = took]]
  BY DEF RunTc, Goes
<1> DEFINE there == [doing[t] EXCEPT !.at = "commit", !.took = took]
<1>2. doing[t] \in Doings /\ doing[t].at = "tc" /\ doing[t].device \in Devices /\ operation = t
  BY DEF RunTc, OffKnown, SwitchTypes, LockHeld, AtWork
<1>3. /\ there \in Doings /\ there.at = "commit" /\ there.device = doing[t].device
      /\ there.took = took /\ there.mode = doing[t].mode
  BY <1>2 DEF Doings
<1>4. doing' = [doing EXCEPT ![t] = there]
  BY <1>1
<1> HIDE DEF there
<1>5. \A u \in Switchers : doing'[u] = IF u = t THEN there ELSE doing[u]
  BY <1>4 DEF OffKnown, SwitchTypes
<1>6. \A u \in Switchers : u # t => ~AtWork(u)
  BY <1>2 DEF OffKnown, LockHeld
<1>7. UNCHANGED <<route, ifindex, operation, committed, applied, exit, lastOn, handing>>
  BY DEF RunTc
<1>8. SwitchTypes'
  BY <1>1, <1>3, <1>4, <1>7 DEF OffKnown, SwitchTypes, NoLink
<1>9. LockHeld'
  BY <1>2, <1>3, <1>5, <1>7 DEF OffKnown, LockHeld, AtWork
<1>10. CleanDevice'
  BY <1>3, <1>5, <1>7, KeeperSwitches DEF OffKnown, CleanDevice
<1>11. OffDone'
  <2> SUFFICES ASSUME NEW u \in Switchers,
                      doing'[u].at = "commit", doing'[u].took, doing'[u].mode = "off"
               PROVE  ~queuing'[doing'[u].device]
    BY DEF OffDone
  <2>1. u = t
    BY <1>5, <1>6 DEF AtWork
  <2>2. took /\ doing[t].mode = "off" /\ on = FALSE
    BY <1>1, <1>3, <1>5, <2>1
  <2> QED
    BY <1>1, <1>2, <1>3, <1>5, <2>1, <2>2 DEF OffKnown, SwitchTypes
<1>12. OffStands'
  BY <1>3, <1>5 DEF OffStands
<1> QED
  BY <1>8, <1>9, <1>10, <1>11, <1>12 DEF OffKnown

LEMMA CommitKept ==
  ASSUME OffKnown, NEW t \in Switchers, Commit(t) PROVE OffKnown'
<1> DEFINE there == IF doing[t].took \/ t = "keeper" THEN [doing[t] EXCEPT !.at = "reply"] ELSE Resting
<1>1. /\ doing[t] \in Doings /\ doing[t].at = "commit" /\ doing[t].device \in Devices
      /\ operation = t
  BY DEF Commit, OffKnown, SwitchTypes, LockHeld, AtWork
<1>2. there \in Doings /\ there.at \in {"reply", "idle"}
  BY <1>1 DEF Doings, Resting, NetModes
<1>3. doing' = [doing EXCEPT ![t] = there] /\ operation' = Free
  BY DEF Commit, Goes
<1> HIDE DEF there
<1>4. \A u \in Switchers : doing'[u] = IF u = t THEN there ELSE doing[u]
  BY <1>3 DEF OffKnown, SwitchTypes
<1>5. \A u \in Switchers : u # t => ~AtWork(u)
  BY <1>1 DEF OffKnown, LockHeld
<1>6. UNCHANGED <<route, ifindex, queuing, exit, handing>>
  BY DEF Commit
<1>7. /\ committed' \in IF doing[t].took THEN {doing[t].mode} ELSE Observed(doing[t].device)
      /\ applied' = IF committed' = "auto" THEN Link(doing[t].device) ELSE NoLink
      /\ lastOn' = Link(doing[t].device)
  BY DEF Commit
<1>8. SwitchTypes'
  BY <1>1, <1>2, <1>3, <1>6, <1>7 DEF OffKnown, SwitchTypes, NoLink, Link
<1>9. LockHeld'
  BY <1>2, <1>4, <1>5 DEF LockHeld, AtWork
<1>10. CleanDevice'
  BY <1>2, <1>4, <1>6, KeeperSwitches DEF OffKnown, CleanDevice
<1>11. OffDone'
  BY <1>2, <1>4, <1>5 DEF OffDone, AtWork
<1>12. OffStands'
  <2> SUFFICES ASSUME committed' = "off" PROVE ~queuing'[lastOn'.device]
    BY DEF OffStands
  <2>1. lastOn'.device = doing[t].device
    BY <1>7 DEF Link
  <2>2. CASE doing[t].took
    BY <1>1, <1>6, <1>7, <2>1, <2>2 DEF OffKnown, OffDone
  <2>3. CASE ~doing[t].took
    BY <1>6, <1>7, <2>1, <2>3 DEF Observed
  <2> QED
    BY <2>2, <2>3
<1> QED
  BY <1>8, <1>9, <1>10, <1>11, <1>12 DEF OffKnown

\* setMode's other steps, and the keeper's decision, move one thread and nothing it is about.
LEMMA CallKept ==
  ASSUME OffKnown, NEW c \in NetClients, NEW mode \in NetModes,
         SetMode(c, mode) \/ Reply(c) \/ Remembered(c) \/ Save(c)
  PROVE  OffKnown'
<1>1. c \in Switchers /\ doing[c] \in Doings
  BY DEF Switchers, OffKnown, SwitchTypes
<1>2. PICK there \in Doings :
        /\ there.at \in {"switch", "remember", "save", "idle"}
        /\ doing' = [doing EXCEPT ![c] = there]
  <2>1. [Resting EXCEPT !.at = "switch", !.mode = mode] \in Doings /\ Resting \in Doings
    BY DEF Resting, Doings, NetModes
  <2>2. [doing[c] EXCEPT !.at = "remember"] \in Doings /\ [doing[c] EXCEPT !.at = "save"] \in Doings
    BY <1>1 DEF Doings
  <2>3. /\ [Resting EXCEPT !.at = "switch", !.mode = mode].at = "switch" /\ Resting.at = "idle"
        /\ [doing[c] EXCEPT !.at = "remember"].at = "remember"
        /\ [doing[c] EXCEPT !.at = "save"].at = "save"
    BY <1>1 DEF Doings, Resting
  <2> QED
    BY <2>1, <2>2, <2>3 DEF SetMode, Reply, Remembered, Save, Goes
<1>3. doing[c].at # "commit" /\ UNCHANGED <<Elsewhere, operation>>
  BY DEF SetMode, Reply, Remembered, Save, Elsewhere
<1> QED
  BY <1>1, <1>2, <1>3, MoveKept

LEMMA KeepKept ==
  ASSUME OffKnown, Keep PROVE OffKnown'
<1> DEFINE there == IF applied.device \in Devices \ {route}
                      THEN [at |-> "clean", mode |-> "auto", device |-> applied.device,
                            took |-> FALSE]
                      ELSE [Resting EXCEPT !.at = "switch", !.mode = "auto"]
<1>1. /\ there \in Doings /\ there.at \in {"clean", "switch"}
      /\ there.at = "clean" => there.device \in Devices
  BY DEF Doings, Resting, NetModes
<1>2. doing' = [doing EXCEPT !["keeper"] = there]
  BY DEF Keep, Goes
<1>3. doing["keeper"].at # "commit" /\ UNCHANGED <<Elsewhere, operation>>
  BY DEF Keep, Elsewhere
<1> HIDE DEF there
<1> QED
  BY <1>1, <1>2, <1>3, KeeperSwitches, MoveKept

LEMMA KeptKept ==
  ASSUME OffKnown, Kept PROVE OffKnown'
<1>1. Resting \in Doings /\ Resting.at = "idle"
  BY DEF Doings, Resting, NetModes
<1> QED
  BY <1>1, KeeperSwitches, MoveKept DEF Kept, Goes, Elsewhere

\* With nobody at work, a qdisc comes off or stays, and nothing else that OffKnown is about moves.
LEMMA CleanedKept ==
  ASSUME OffKnown, \A u \in Switchers : doing'[u] = doing[u] \/ doing'[u].at = "switch",
         doing' \in [Switchers -> Doings],
         queuing' \in [Devices -> BOOLEAN], \A e \in Devices : queuing'[e] => queuing[e],
         \A u \in Switchers : doing[u].at # "commit",
         exit' = "waiting" => exit = "waiting" /\ handing' = handing,
         UNCHANGED <<route, ifindex, applied, lastOn, committed, operation>>
  PROVE  OffKnown'
<1> USE DEF OffKnown
<1>1. SwitchTypes'
  BY DEF SwitchTypes, NoLink
<1>2. LockHeld'
  BY DEF LockHeld, AtWork
<1>3. CleanDevice'
  BY KeeperSwitches DEF CleanDevice
<1>4. \A u \in Switchers : doing'[u].at # "commit"
  OBVIOUS
<1>5. OffDone'
  BY <1>4 DEF OffDone
<1>6. OffStands'
  BY DEF OffStands, Link, SwitchTypes
<1> QED
  BY <1>1, <1>2, <1>3, <1>5, <1>6

LEMMA CleanKept ==
  ASSUME OffKnown, Clean PROVE OffKnown'
<1> DEFINE there == [Resting EXCEPT !.at = "switch", !.mode = "auto"]
<1>1. PICK took \in BOOLEAN : queuing' = [queuing EXCEPT ![doing["keeper"].device] = @ /\ ~took]
  BY DEF Clean
<1>2. doing["keeper"].device \in Devices /\ (~took) \in BOOLEAN
  BY DEF Clean, OffKnown, CleanDevice
<1>3. queuing' \in [Devices -> BOOLEAN] /\ \A e \in Devices : queuing'[e] => queuing[e]
  BY <1>1, <1>2, TakenOffKept
<1>4. there \in Doings /\ there.at = "switch"
  BY DEF Doings, Resting, NetModes
<1>5. doing' = [doing EXCEPT !["keeper"] = there]
  BY DEF Clean, Goes
<1> HIDE DEF there
<1>6. /\ doing' \in [Switchers -> Doings]
      /\ \A u \in Switchers : doing'[u] = IF u = "keeper" THEN there ELSE doing[u]
  BY <1>4, <1>5, KeeperSwitches DEF OffKnown, SwitchTypes
<1>7. \A u \in Switchers : doing[u].at # "commit"
  BY LockIsNobodys DEF Clean, OffKnown, LockHeld, AtWork
<1> QED
  BY <1>3, <1>4, <1>6, <1>7, CleanedKept DEF Clean

LEMMA HandBackKept ==
  ASSUME OffKnown, HandBackLink PROVE OffKnown'
<1>1. PICK took \in BOOLEAN : queuing' = [queuing EXCEPT ![handing.device] = @ /\ ~took]
  BY DEF HandBackLink
<1>2. handing.device \in Devices /\ (~took) \in BOOLEAN
  BY DEF HandBackLink, OffKnown, CleanDevice
<1>3. queuing' \in [Devices -> BOOLEAN] /\ \A e \in Devices : queuing'[e] => queuing[e]
  BY <1>1, <1>2, TakenOffKept
<1>4. \A u \in Switchers : doing[u].at # "commit"
  BY LockIsNobodys DEF HandBackLink, OffKnown, LockHeld, AtWork
<1> QED
  BY <1>3, <1>4, CleanedKept DEF HandBackLink, OffKnown, SwitchTypes

LEMMA BeginExitKept ==
  ASSUME OffKnown, BeginExit PROVE OffKnown'
  BY DEF BeginExit, OffKnown, SwitchTypes, LockHeld, AtWork, CleanDevice, OffDone, OffStands,
         Link, NoLink

LEMMA NetRestartKept ==
  ASSUME OffKnown, NetRestart PROVE OffKnown'
<1>1. Resting \in Doings /\ Resting.at = "idle"
  BY DEF Doings, Resting, NetModes
<1>2. \A u \in Switchers : doing'[u] = Resting
  BY DEF NetRestart
<1> QED
  BY <1>1, <1>2, KeeperSwitches
     DEF NetRestart, OffKnown, SwitchTypes, LockHeld, AtWork, CleanDevice, OffDone, OffStands,
         NoLink

LEMMA MoveRouteKept ==
  ASSUME OffKnown, NEW d \in Devices \cup {NoDevice}, MoveRoute(d) PROVE OffKnown'
  BY DEF MoveRoute, OffKnown, SwitchTypes, LockHeld, AtWork, CleanDevice, OffDone, OffStands,
         Link, NoLink

LEMMA ReplugKept ==
  ASSUME OffKnown, NEW d \in Devices, Replug(d) PROVE OffKnown'
<1>0. ifindex[d] + 1 \in Nat
  BY DEF OffKnown, SwitchTypes
<1>1. /\ queuing' \in [Devices -> BOOLEAN] /\ ifindex' \in [Devices -> Nat]
      /\ ~queuing'[d] /\ \A e \in Devices : e # d => queuing'[e] = queuing[e]
      /\ \A e \in Devices : e # d => ifindex'[e] = ifindex[e]
  BY <1>0 DEF Replug, OffKnown, SwitchTypes
<1>2. SwitchTypes' /\ LockHeld' /\ CleanDevice'
  BY <1>1 DEF Replug, OffKnown, SwitchTypes, LockHeld, AtWork, CleanDevice, NoLink
<1>3. OffDone'
  BY <1>1 DEF Replug, OffKnown, OffDone, LockHeld, AtWork
<1>4. OffStands'
  BY <1>1 DEF Replug, OffKnown, OffStands, Link, SwitchTypes
<1> QED
  BY <1>2, <1>3, <1>4 DEF OffKnown

LEMMA OffKnownKept == OffKnown /\ [NetworkNext]_networkVars => OffKnown'
<1> SUFFICES ASSUME OffKnown, [NetworkNext]_networkVars
             PROVE  OffKnown'
  OBVIOUS
<1>1. ASSUME NEW t \in Switchers, SwitchStep(t) PROVE OffKnown'
  BY <1>1, BeginSwitchKept, RunTcKept, CommitKept DEF SwitchStep
<1>2. ASSUME NEW c \in NetClients, ClientStep(c) PROVE OffKnown'
  <2>1. c \in Switchers /\ "off" \in NetModes
    BY DEF Switchers, NetModes
  <2> QED
    BY <1>1, <1>2, <2>1, CallKept DEF ClientStep
<1>3. ASSUME NEW c \in NetClients, NEW mode \in NetModes, SetMode(c, mode) PROVE OffKnown'
  BY <1>3, CallKept
<1>4. CASE KeeperStep
  BY <1>1, <1>4, KeeperSwitches, KeepKept, CleanKept, KeptKept DEF KeeperStep
<1>5. CASE BackoffOver
  BY <1>5 DEF BackoffOver, OffKnown, SwitchTypes, LockHeld, AtWork, CleanDevice, OffDone, OffStands,
              Link, NoLink
<1>6. CASE BeginExit \/ HandBackLink \/ NetRestart
  BY <1>6, BeginExitKept, HandBackKept, NetRestartKept
<1>7. ASSUME NEW d \in Devices \cup {NoDevice}, MoveRoute(d) PROVE OffKnown'
  BY <1>7, MoveRouteKept
<1>8. ASSUME NEW d \in Devices, Replug(d) PROVE OffKnown'
  BY <1>8, ReplugKept
<1>9. CASE UNCHANGED networkVars
  BY <1>9 DEF networkVars, OffKnown, SwitchTypes, LockHeld, AtWork, CleanDevice, OffDone, OffStands,
              Link, NoLink
<1> QED
  BY <1>2, <1>3, <1>4, <1>5, <1>6, <1>7, <1>8, <1>9 DEF NetworkNext

LEMMA KnownMeansOff == OffKnown => OffMeansOff
  BY LockIsNobodys DEF OffKnown, OffMeansOff, OffStands, LockHeld, AtWork, NoLink

\* While nobody is at work on it, an interface the module says is off has no qdisc of ours
\* (switch_mode's one critical section, keep_mode, on_exit).
THEOREM OffAlwaysMeansOff == NetworkSpec => []OffMeansOff
  BY OffKnownAtFirst, OffKnownKept, KnownMeansOff, PTL DEF NetworkSpec

\* A number of a link changes once for each device replaced, so the bound on those bounds it.
NetworkKnown == OffKnown /\ NetworkTypes /\ \A d \in Devices : ifindex[d] <= moves

LEMMA LinksKnown ==
  ASSUME NetworkTypes, NEW d \in Devices
  PROVE  Link(d) \in Links /\ NoLink \in Links
  BY DEF NetworkTypes, Link, Links, NoLink

\* What a thread does next is a thing a thread does.
LEMMA DoingsKept == NetworkKnown /\ NetworkNext => doing' \in [Switchers -> Doings]
<1> SUFFICES ASSUME NetworkKnown, NetworkNext PROVE doing' \in [Switchers -> Doings]
  OBVIOUS
<1>1. /\ doing \in [Switchers -> Doings] /\ route \in Devices \cup {NoDevice}
      /\ Resting \in Doings
  BY DEF NetworkKnown, NetworkTypes, Doings, Resting, NetModes
<1>2. ASSUME NEW t \in Switchers, NEW there \in Doings, doing' = [doing EXCEPT ![t] = there]
      PROVE  doing' \in [Switchers -> Doings]
  BY <1>1, <1>2
<1>3. \A t \in Switchers :
        /\ [doing[t] EXCEPT !.at = "reply", !.took = FALSE] \in Doings
        /\ [doing[t] EXCEPT !.at = "tc", !.device = route] \in Doings
        /\ \A took \in BOOLEAN : [doing[t] EXCEPT !.at = "commit", !.took = took] \in Doings
        /\ \A at \in {"reply", "remember", "save"} : [doing[t] EXCEPT !.at = at] \in Doings
  BY <1>1 DEF Doings
<1>4. \A mode \in NetModes : [Resting EXCEPT !.at = "switch", !.mode = mode] \in Doings
  BY DEF Resting, Doings
<1>5. ASSUME NEW t \in Switchers, SwitchStep(t) PROVE doing' \in [Switchers -> Doings]
  <2>1. CASE BeginSwitch(t)
    BY <1>1, <1>2, <1>3, <2>1 DEF BeginSwitch, Goes
  <2>2. CASE RunTc(t)
    BY <1>2, <1>3, <2>2 DEF RunTc, Goes
  <2>3. CASE Commit(t)
    BY <1>1, <1>2, <1>3, <2>3 DEF Commit, Goes
  <2> QED
    BY <1>5, <2>1, <2>2, <2>3 DEF SwitchStep
<1>6. ASSUME NEW c \in NetClients, Reply(c) \/ Remembered(c) \/ Save(c)
                                   \/ \E mode \in NetModes : SetMode(c, mode)
      PROVE  doing' \in [Switchers -> Doings]
  BY <1>1, <1>2, <1>3, <1>4, <1>6 DEF Switchers, Reply, Remembered, Save, SetMode, Goes
<1>7. CASE Keep
  <2>1. ASSUME applied.device \in Devices
        PROVE  [at |-> "clean", mode |-> "auto", device |-> applied.device, took |-> FALSE]
                 \in Doings
    BY <2>1 DEF Doings, NetModes
  <2> QED
    BY <1>2, <1>4, <1>7, <2>1, KeeperSwitches DEF Keep, Goes, NetModes
<1>8. CASE Clean
  BY <1>2, <1>4, <1>8, KeeperSwitches DEF Clean, Goes, NetModes
<1>9. CASE Kept
  BY <1>1, <1>2, <1>9, KeeperSwitches DEF Kept, Goes
<1>10. CASE NetRestart
  BY <1>1, <1>10 DEF NetRestart
<1>11. CASE \/ BackoffOver \/ BeginExit \/ HandBackLink
            \/ \E d \in Devices \cup {NoDevice} : MoveRoute(d)
            \/ \E d \in Devices : Replug(d)
  BY <1>1, <1>11 DEF BackoffOver, BeginExit, HandBackLink, MoveRoute, Replug
<1>12. "keeper" \in Switchers /\ NetClients \subseteq Switchers
  BY DEF Switchers
<1> QED
  BY <1>5, <1>6, <1>7, <1>8, <1>9, <1>10, <1>11, <1>12 DEF NetworkNext, ClientStep, KeeperStep

\* Where auto is, was, and is being taken off.
LEMMA LinksKept ==
  NetworkKnown /\ NetworkNext => applied' \in Links /\ handing' \in Links /\ lastOn' \in Links
<1> SUFFICES ASSUME NetworkKnown, NetworkNext
             PROVE  applied' \in Links /\ handing' \in Links /\ lastOn' \in Links
  OBVIOUS
<1>1. applied \in Links /\ handing \in Links /\ lastOn \in Links /\ NoLink \in Links
  BY DEF NetworkKnown, NetworkTypes, Links
<1>2. ASSUME NEW t \in Switchers, Commit(t)
      PROVE  applied' \in Links /\ handing' \in Links /\ lastOn' \in Links
  <2>1. doing[t].device \in Devices
    BY <1>2 DEF Commit, NetworkKnown, OffKnown, LockHeld, AtWork
  <2>2. Link(doing[t].device) \in Links
    BY <2>1, LinksKnown DEF NetworkKnown
  <2> QED
    BY <1>1, <1>2, <2>2 DEF Commit
<1>3. ASSUME NEW t \in Switchers, BeginSwitch(t) \/ RunTc(t)
      PROVE  UNCHANGED <<applied, handing, lastOn>>
  BY <1>3 DEF BeginSwitch, RunTc
<1>4. CASE \/ \E c \in NetClients : \/ Reply(c) \/ Remembered(c) \/ Save(c)
                                    \/ \E mode \in NetModes : SetMode(c, mode)
           \/ Keep \/ Clean \/ Kept \/ BackoffOver \/ BeginExit \/ HandBackLink \/ NetRestart
           \/ \E d \in Devices \cup {NoDevice} : MoveRoute(d)
           \/ \E d \in Devices : Replug(d)
  BY <1>1, <1>4 DEF Reply, Remembered, Save, SetMode, Keep, Clean, Kept, BackoffOver, BeginExit,
                    HandBackLink, NetRestart, MoveRoute, Replug
<1>5. "keeper" \in Switchers /\ NetClients \subseteq Switchers
  BY DEF Switchers
<1> QED
  BY <1>1, <1>2, <1>3, <1>4, <1>5 DEF NetworkNext, ClientStep, KeeperStep, SwitchStep

\* The numbers of the links, and the bounds.
LEMMA CountsKept ==
  NetworkKnown /\ NetworkNext =>
    /\ ifindex' \in [Devices -> 0..MaxMoves] /\ \A d \in Devices : ifindex'[d] <= moves'
    /\ moves' \in 0..MaxMoves /\ refusals' \in 0..MaxRefusals /\ netLives' \in 0..MaxNetLives
<1> SUFFICES ASSUME NetworkKnown, NetworkNext
             PROVE  /\ ifindex' \in [Devices -> 0..MaxMoves]
                    /\ \A d \in Devices : ifindex'[d] <= moves'
                    /\ moves' \in 0..MaxMoves /\ refusals' \in 0..MaxRefusals
                    /\ netLives' \in 0..MaxNetLives
  OBVIOUS
<1>1. /\ ifindex \in [Devices -> 0..MaxMoves] /\ \A d \in Devices : ifindex[d] <= moves
      /\ moves \in 0..MaxMoves /\ refusals \in 0..MaxRefusals /\ netLives \in 0..MaxNetLives
      /\ MaxMoves \in Nat /\ MaxRefusals \in Nat /\ MaxNetLives \in Nat
  BY NetworkAssumption DEF NetworkKnown, NetworkTypes
<1>2. CASE \E d \in Devices : Replug(d)
  <2>1. PICK d \in Devices : Replug(d)
    BY <1>2
  <2>2. /\ moves < MaxMoves /\ moves' = moves + 1 /\ UNCHANGED <<refusals, netLives>>
        /\ \A e \in Devices : ifindex'[e] = IF e = d THEN ifindex[e] + 1 ELSE ifindex[e]
        /\ ifindex' = [ifindex EXCEPT ![d] = @ + 1]
    BY <1>1, <2>1 DEF Replug
  <2>3. \A e \in Devices : ifindex'[e] \in 0..MaxMoves /\ ifindex'[e] <= moves'
    BY <1>1, <2>2
  <2>4. moves' \in 0..MaxMoves
    BY <1>1, <2>2
  <2> QED
    BY <1>1, <2>2, <2>3, <2>4
<1>3. CASE \E d \in Devices \cup {NoDevice} : MoveRoute(d)
  <2>1. moves < MaxMoves /\ moves' = moves + 1 /\ UNCHANGED <<ifindex, refusals, netLives>>
    BY <1>3 DEF MoveRoute
  <2>2. moves' \in 0..MaxMoves /\ \A e \in Devices : ifindex[e] <= moves'
    BY <1>1, <2>1
  <2> QED
    BY <1>1, <2>1, <2>2
<1>4. CASE NetRestart
  BY <1>1, <1>4 DEF NetRestart
<1>5. CASE HandBackLink \/ Clean \/ \E t \in Switchers : RunTc(t)
  <2>1. /\ UNCHANGED <<ifindex, moves, netLives>>
        /\ \E took \in BOOLEAN : /\ took \/ refusals < MaxRefusals
                                 /\ refusals' = IF took THEN refusals ELSE refusals + 1
    <3>1. CASE HandBackLink
      BY <3>1 DEF HandBackLink
    <3>2. CASE Clean
      BY <3>2 DEF Clean
    <3>3. CASE \E t \in Switchers : RunTc(t)
      BY <3>3 DEF RunTc
    <3> QED
      BY <1>5, <3>1, <3>2, <3>3
  <2> QED
    BY <1>1, <2>1
<1>6. CASE \/ \E t \in Switchers : BeginSwitch(t) \/ Commit(t)
           \/ \E c \in NetClients : \/ Reply(c) \/ Remembered(c) \/ Save(c)
                                    \/ \E mode \in NetModes : SetMode(c, mode)
           \/ Keep \/ Kept \/ BackoffOver \/ BeginExit
  <2>1. UNCHANGED <<ifindex, moves, refusals, netLives>>
    BY <1>6 DEF BeginSwitch, Commit, Reply, Remembered, Save, SetMode, Keep, Kept, BackoffOver,
                BeginExit
  <2> QED
    BY <1>1, <2>1
<1>7. "keeper" \in Switchers /\ NetClients \subseteq Switchers
  BY DEF Switchers
<1> QED
  BY <1>2, <1>3, <1>4, <1>5, <1>6, <1>7 DEF NetworkNext, ClientStep, KeeperStep, SwitchStep

LEMMA NetworkTypesKept == NetworkKnown /\ [NetworkNext]_networkVars => NetworkTypes'
<1> SUFFICES ASSUME NetworkKnown, NetworkNext PROVE NetworkTypes'
  BY DEF NetworkKnown, NetworkTypes, networkVars
<1>1. /\ route \in Devices \cup {NoDevice} /\ operation \in Switchers \cup {Free}
      /\ committed \in NetModes \cup {"unknown"} /\ wanted \in NetModes /\ netFile \in NetModes
      /\ retry \in BOOLEAN /\ exit \in {"no", "waiting", "done"}
      /\ doing \in [Switchers -> Doings]
  BY DEF NetworkKnown, NetworkTypes
<1>2. \A t \in Switchers : doing[t].mode \in NetModes /\ doing[t].took \in BOOLEAN
  BY <1>1 DEF Doings
<1>3. "keeper" \in Switchers /\ NetClients \subseteq Switchers /\ {"off", "auto"} = NetModes
  BY DEF Switchers, NetModes
<1>4. queuing' \in [Devices -> BOOLEAN] /\ route' \in Devices \cup {NoDevice}
  <2>1. OffKnown'
    BY OffKnownKept DEF NetworkKnown
  <2> QED
    BY <2>1 DEF OffKnown, SwitchTypes
<1>5. \A d : Observed(d) \subseteq NetModes \cup {"unknown"}
  BY <1>3 DEF Observed
<1>6. /\ operation' \in Switchers \cup {Free} /\ committed' \in NetModes \cup {"unknown"}
      /\ exit' \in {"no", "waiting", "done"}
  <2>1. ASSUME NEW t \in Switchers, Commit(t)
        PROVE  operation' = Free /\ committed' \in NetModes \cup {"unknown"} /\ UNCHANGED exit
    BY <1>2, <1>5, <2>1 DEF Commit
  <2>2. ASSUME NEW t \in Switchers, BeginSwitch(t) \/ RunTc(t)
        PROVE  operation' \in {operation, t} /\ UNCHANGED <<committed, exit>>
    BY <2>2 DEF BeginSwitch, RunTc
  <2>3. ASSUME \/ \E c \in NetClients : \/ Reply(c) \/ Remembered(c) \/ Save(c)
                                      \/ \E mode \in NetModes : SetMode(c, mode)
               \/ Keep \/ Clean \/ Kept \/ BackoffOver \/ BeginExit \/ HandBackLink \/ NetRestart
               \/ \E d \in Devices \cup {NoDevice} : MoveRoute(d)
               \/ \E d \in Devices : Replug(d)
        PROVE  /\ operation' \in {operation, Free} /\ committed' \in {committed, "off"}
               /\ exit' \in {exit, "no", "waiting", "done"}
    BY <2>3 DEF Reply, Remembered, Save, SetMode, Keep, Clean, Kept, BackoffOver, BeginExit,
                HandBackLink, NetRestart, MoveRoute, Replug
  <2> QED
    BY <1>1, <1>3, <2>1, <2>2, <2>3 DEF NetworkNext, ClientStep, KeeperStep, SwitchStep
<1>7. wanted' \in NetModes /\ netFile' \in NetModes /\ retry' \in BOOLEAN
  <2>1. ASSUME NEW t \in Switchers, BeginSwitch(t) \/ RunTc(t) \/ Commit(t)
        PROVE  UNCHANGED <<wanted, netFile, retry>>
    BY <2>1 DEF BeginSwitch, RunTc, Commit
  <2>2. ASSUME NEW c \in NetClients, \/ Reply(c) \/ Remembered(c) \/ Save(c)
                                     \/ \E mode \in NetModes : SetMode(c, mode)
        PROVE  /\ wanted' \in {wanted, doing[c].mode} /\ netFile' \in {wanted, netFile}
               /\ retry' \in {retry, FALSE}
    BY <2>2 DEF Reply, Remembered, Save, SetMode
  <2>3. ASSUME \/ Keep \/ Clean \/ Kept \/ BackoffOver \/ BeginExit \/ HandBackLink \/ NetRestart
               \/ \E d \in Devices \cup {NoDevice} : MoveRoute(d)
               \/ \E d \in Devices : Replug(d)
        PROVE  wanted' \in {wanted, netFile} /\ UNCHANGED netFile /\ retry' \in BOOLEAN
    BY <1>1, <1>2, <1>3, <2>3 DEF Keep, Clean, Kept, BackoffOver, BeginExit, HandBackLink,
                                  NetRestart, MoveRoute, Replug
  <2> QED
    BY <1>1, <1>2, <1>3, <2>1, <2>2, <2>3 DEF NetworkNext, ClientStep, KeeperStep, SwitchStep
<1> QED
  BY <1>4, <1>6, <1>7, DoingsKept, LinksKept, CountsKept DEF NetworkTypes

LEMMA NetworkKnownAtFirst == NetworkInit => NetworkKnown
<1> SUFFICES ASSUME NetworkInit PROVE NetworkKnown
  OBVIOUS
<1>1. NetworkTypes
  <2>1. 0 \in 0..MaxMoves /\ 0 \in 0..MaxRefusals /\ 0 \in 0..MaxNetLives
    BY NetworkAssumption
  <2>2. Resting \in Doings /\ NoLink \in Links
    BY DEF Resting, Doings, NetModes, Links
  <2> QED
    BY <2>1, <2>2 DEF NetworkInit, NetworkTypes, NetModes
<1> QED
  BY <1>1, OffKnownAtFirst DEF NetworkKnown, NetworkInit

LEMMA NetworkKnownKept == NetworkKnown /\ [NetworkNext]_networkVars => NetworkKnown'
<1> SUFFICES ASSUME NetworkKnown, [NetworkNext]_networkVars PROVE NetworkKnown'
  OBVIOUS
<1>1. \A d \in Devices : ifindex'[d] <= moves'
  BY CountsKept DEF NetworkKnown, networkVars
<1> QED
  BY <1>1, OffKnownKept, NetworkTypesKept DEF NetworkKnown

\* The state the network module is in is always one its code has names for.
THEOREM NetworkTypesAlways == NetworkSpec => []NetworkTypes
<1>1. NetworkKnown => NetworkTypes
  BY DEF NetworkKnown
<1> QED
  BY <1>1, NetworkKnownAtFirst, NetworkKnownKept, PTL DEF NetworkSpec
=============================================================================
