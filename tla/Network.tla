------------------------------ MODULE Network ------------------------------
(***************************************************************************)
(* Smart queuing on the interface of the default route.  Clients switch it, *)
(* a background thread keeps a wanted auto in place while the route moves   *)
(* and devices come and go, and the way out takes it off again.  tc runs    *)
(* under the operation lock, through the commit of what it did; what is     *)
(* wanted, where auto was applied and whether to retry are three more locks *)
(* read and written outside it.                                             *)
(***************************************************************************)
EXTENDS Naturals

CONSTANTS
  NetClients,   \* the connections that call setMode
  Devices,      \* the network devices
  NoDevice,     \* no default route
  MaxMoves,     \* bound: moves of the route and devices replaced
  MaxRefusals,  \* bound: tc commands refused
  MaxNetLives   \* bound: lives of the daemon after the first

ASSUME NetworkAssumption ==
  /\ NetClients # {} /\ NetClients \cap {"keeper", "free"} = {}
  /\ NoDevice \notin Devices
  /\ MaxMoves \in Nat /\ MaxRefusals \in Nat /\ MaxNetLives \in Nat

Switchers == NetClients \cup {"keeper"}
Free == "free"
NetModes == {"off", "auto"}

VARIABLES
  route,     \* the device the default route goes out of
  ifindex,   \* per device, a number that changes when it goes and comes back
  queuing,   \* per device, whether our qdisc is on it
  operation, \* who holds Inner::operation
  committed, \* ModeState::committed
  wanted,    \* Inner::wanted
  netFile,   \* network.json
  applied,   \* Inner::applied_on
  retry,     \* Inner::retry_after is set and lies ahead
  doing,     \* per thread, where in setMode or keep_mode it is
  exit,      \* on_exit: not called, waiting for the operation lock, done
  handing,   \* the link on_exit has taken
  moves, refusals, netLives,  \* for the bounds
  lastOn     \* history: the link of the last commit

networkVars == <<route, ifindex, queuing, operation, committed, wanted, netFile, applied, retry,
                 doing, exit, handing, moves, refusals, netLives, lastOn>>

Link(d) == [device |-> d, index |-> ifindex[d]]
NoLink == [device |-> NoDevice, index |-> 0]
Links == [device : Devices, index : 0..MaxMoves] \cup {NoLink}
Resting == [at |-> "idle", mode |-> "off", device |-> NoDevice, took |-> FALSE]
Doings == [at : {"idle", "clean", "switch", "tc", "commit", "reply", "remember", "save"},
           mode : NetModes, device : Devices \cup {NoDevice}, took : BOOLEAN]

\* The types of the network module's variables.
NetworkTypes ==
  /\ route \in Devices \cup {NoDevice}
  /\ ifindex \in [Devices -> 0..MaxMoves]
  /\ queuing \in [Devices -> BOOLEAN]
  /\ operation \in Switchers \cup {Free}
  /\ committed \in NetModes \cup {"unknown"}
  /\ wanted \in NetModes /\ netFile \in NetModes
  /\ applied \in Links /\ handing \in Links /\ lastOn \in Links
  /\ retry \in BOOLEAN
  /\ doing \in [Switchers -> Doings]
  /\ exit \in {"no", "waiting", "done"}
  /\ moves \in 0..MaxMoves /\ refusals \in 0..MaxRefusals /\ netLives \in 0..MaxNetLives

NetworkInit ==
  /\ route \in Devices \cup {NoDevice}
  /\ ifindex = [d \in Devices |-> 0]
  /\ queuing = [d \in Devices |-> FALSE]
  /\ operation = Free /\ committed = "off"
  /\ wanted \in NetModes /\ netFile = wanted
  /\ applied = NoLink /\ retry = FALSE
  /\ doing = [t \in Switchers |-> Resting]
  /\ exit = "no" /\ handing = NoLink
  /\ moves = 0 /\ refusals = 0 /\ netLives = 0
  /\ lastOn = NoLink

Goes(t, there) == doing' = [doing EXCEPT ![t] = there]

-----------------------------------------------------------------------------
(* switch_mode, for a client's setMode and for the keeper.                  *)

\* The operation lock is taken and the route read; without one there is nothing to do.
BeginSwitch(t) ==
  /\ doing[t].at = "switch" /\ operation = Free
  /\ IF route = NoDevice
       THEN /\ Goes(t, IF t = "keeper" THEN [doing[t] EXCEPT !.at = "reply", !.took = FALSE]
                                       ELSE Resting)
            /\ UNCHANGED operation
       ELSE Goes(t, [doing[t] EXCEPT !.at = "tc", !.device = route]) /\ operation' = t
  /\ UNCHANGED <<route, ifindex, queuing, committed, wanted, netFile, applied, retry, exit,
                 moves, refusals, netLives, lastOn, handing>>

\* apply_mode: tc does what it is told; or fails, and may have done it all the same.
RunTc(t) ==
  /\ doing[t].at = "tc"
  /\ \E took \in BOOLEAN :
       /\ took \/ refusals < MaxRefusals
       /\ refusals' = IF took THEN refusals ELSE refusals + 1
       /\ \E on \in BOOLEAN :
            /\ on = (doing[t].mode = "auto") \/ (~took /\ on = queuing[doing[t].device])
            /\ queuing' = [queuing EXCEPT ![doing[t].device] = on]
       /\ Goes(t, [doing[t] EXCEPT !.at = "commit", !.took = took])
  /\ UNCHANGED <<route, ifindex, operation, committed, wanted, netFile, applied, retry, exit,
                 moves, netLives, lastOn, handing>>

\* Mutant of Observed: a command that failed is taken to have left nothing.
ObservedOff(d) == {"off", "unknown"}

\* What a failed command is taken to have left behind: what is read back, or nothing sure.
Observed(d) == {IF queuing[d] THEN "auto" ELSE "off", "unknown"}

\* The commit, where auto is from now on, and the lock released.
Commit(t) ==
  /\ doing[t].at = "commit"
  /\ committed' \in IF doing[t].took THEN {doing[t].mode} ELSE Observed(doing[t].device)
  /\ applied' = IF committed' = "auto" THEN Link(doing[t].device) ELSE NoLink
  /\ lastOn' = Link(doing[t].device)
  /\ operation' = Free
  /\ Goes(t, IF doing[t].took \/ t = "keeper" THEN [doing[t] EXCEPT !.at = "reply"] ELSE Resting)
  /\ UNCHANGED <<route, ifindex, queuing, wanted, netFile, retry, exit, moves, refusals,
                 netLives, handing>>

-----------------------------------------------------------------------------
(* setMode: the switch, the status for the reply, and only then the choice. *)

SetMode(c, mode) ==
  /\ doing[c].at = "idle"
  /\ Goes(c, [Resting EXCEPT !.at = "switch", !.mode = mode])
  /\ UNCHANGED <<route, ifindex, queuing, operation, committed, wanted, netFile, applied, retry,
                 exit, moves, refusals, netLives, lastOn, handing>>

\* status waits for the operation lock, like everything else that looks.
Reply(c) ==
  /\ doing[c].at = "reply" /\ operation = Free
  /\ Goes(c, [doing[c] EXCEPT !.at = "remember"])
  /\ UNCHANGED <<route, ifindex, queuing, operation, committed, wanted, netFile, applied, retry,
                 exit, moves, refusals, netLives, lastOn, handing>>

Remembered(c) ==
  /\ doing[c].at = "remember"
  /\ wanted' = doing[c].mode /\ retry' = FALSE
  /\ Goes(c, [doing[c] EXCEPT !.at = "save"])
  /\ UNCHANGED <<route, ifindex, queuing, operation, committed, netFile, applied, exit, moves,
                 refusals, netLives, lastOn, handing>>

\* save: what is wanted now, unless the file cannot be written.
Save(c) ==
  /\ doing[c].at = "save" /\ Goes(c, Resting)
  /\ netFile' \in {wanted, netFile}
  /\ UNCHANGED <<route, ifindex, queuing, operation, committed, wanted, applied, retry, exit,
                 moves, refusals, netLives, lastOn, handing>>

-----------------------------------------------------------------------------
(* keep_mode.                                                               *)

\* Mutant of Keep: a link is known by its name alone.
KeepByName ==
  /\ doing["keeper"].at = "idle"
  /\ wanted = "auto" /\ route # NoDevice /\ applied.device # route /\ ~retry
  /\ Goes("keeper", IF applied.device \in Devices
                      THEN [at |-> "clean", mode |-> "auto", device |-> applied.device,
                            took |-> FALSE]
                      ELSE [Resting EXCEPT !.at = "switch", !.mode = "auto"])
  /\ UNCHANGED <<route, ifindex, queuing, operation, committed, wanted, netFile, applied, retry,
                 exit, moves, refusals, netLives, lastOn, handing>>

\* Everything keep_mode looks at before it takes the operation lock.
Keep ==
  /\ doing["keeper"].at = "idle"
  /\ wanted = "auto" /\ route # NoDevice /\ applied # Link(route) /\ ~retry
  /\ Goes("keeper", IF applied.device \in Devices \ {route}
                      THEN [at |-> "clean", mode |-> "auto", device |-> applied.device,
                            took |-> FALSE]
                      ELSE [Resting EXCEPT !.at = "switch", !.mode = "auto"])
  /\ UNCHANGED <<route, ifindex, queuing, operation, committed, wanted, netFile, applied, retry,
                 exit, moves, refusals, netLives, lastOn, handing>>

\* The qdisc on the device the route has left; a refusal is not looked at.
Clean ==
  /\ doing["keeper"].at = "clean" /\ operation = Free
  /\ \E took \in BOOLEAN :
       /\ took \/ refusals < MaxRefusals
       /\ refusals' = IF took THEN refusals ELSE refusals + 1
       /\ queuing' = [queuing EXCEPT ![doing["keeper"].device] = @ /\ ~took]
  /\ Goes("keeper", [Resting EXCEPT !.at = "switch", !.mode = "auto"])
  /\ UNCHANGED <<route, ifindex, operation, committed, wanted, netFile, applied, retry, exit,
                 moves, netLives, lastOn, handing>>

\* A restore that failed is left alone for RESTORE_BACKOFF.
Kept ==
  /\ doing["keeper"].at = "reply" /\ Goes("keeper", Resting)
  /\ retry' = ~doing["keeper"].took
  /\ UNCHANGED <<route, ifindex, queuing, operation, committed, wanted, netFile, applied, exit,
                 moves, refusals, netLives, lastOn, handing>>

BackoffOver ==
  /\ retry /\ retry' = FALSE
  /\ UNCHANGED <<route, ifindex, queuing, operation, committed, wanted, netFile, applied, doing,
                 exit, moves, refusals, netLives, lastOn, handing>>

-----------------------------------------------------------------------------
(* The end of the process, and what is not the daemon's.  A daemon that is   *)
(* told to leave is one that another will follow (MaxNetLives).              *)

\* on_exit, first half: where auto is, taken without the operation lock.
BeginExit ==
  /\ exit = "no" /\ netLives < MaxNetLives
  /\ exit' = IF applied = NoLink THEN "done" ELSE "waiting"
  /\ applied' = NoLink /\ handing' = applied
  /\ UNCHANGED <<route, ifindex, queuing, operation, committed, wanted, netFile, retry, doing,
                 moves, refusals, netLives, lastOn>>

\* on_exit, second half.
HandBackLink ==
  /\ exit = "waiting" /\ operation = Free /\ exit' = "done"
  /\ \E took \in BOOLEAN :
       /\ took \/ refusals < MaxRefusals
       /\ refusals' = IF took THEN refusals ELSE refusals + 1
       /\ queuing' = [queuing EXCEPT ![handing.device] = @ /\ ~took]
  /\ handing' = NoLink
  /\ UNCHANGED <<route, ifindex, operation, committed, wanted, netFile, applied, retry, doing,
                 moves, netLives, lastOn>>

\* The process ends, after on_exit or killed anywhere, and another starts.
NetRestart ==
  /\ netLives < MaxNetLives /\ netLives' = netLives + 1
  /\ operation' = Free /\ committed' = "off" /\ wanted' = netFile
  /\ applied' = NoLink /\ retry' = FALSE /\ handing' = NoLink /\ lastOn' = NoLink
  /\ doing' = [t \in Switchers |-> Resting] /\ exit' = "no"
  /\ UNCHANGED <<route, ifindex, queuing, netFile, moves, refusals>>

MoveRoute(d) ==
  /\ moves < MaxMoves /\ moves' = moves + 1
  /\ d # route /\ route' = d
  /\ UNCHANGED <<ifindex, queuing, operation, committed, wanted, netFile, applied, retry, doing,
                 exit, refusals, netLives, lastOn, handing>>

\* A device goes and comes back under its name, without our qdisc.
Replug(d) ==
  /\ moves < MaxMoves /\ moves' = moves + 1
  /\ ifindex' = [ifindex EXCEPT ![d] = @ + 1]
  /\ queuing' = [queuing EXCEPT ![d] = FALSE]
  /\ UNCHANGED <<route, operation, committed, wanted, netFile, applied, retry, doing, exit,
                 refusals, netLives, lastOn, handing>>

SwitchStep(t) == BeginSwitch(t) \/ RunTc(t) \/ Commit(t)

ClientStep(c) == SwitchStep(c) \/ Reply(c) \/ Remembered(c) \/ Save(c)

KeeperStep == SwitchStep("keeper") \/ Keep \/ Clean \/ Kept

NetworkNext ==
  \/ \E c \in NetClients : ClientStep(c) \/ \E mode \in NetModes : SetMode(c, mode)
  \/ KeeperStep \/ BackoffOver
  \/ BeginExit \/ HandBackLink \/ NetRestart
  \/ \E d \in Devices \cup {NoDevice} : MoveRoute(d)
  \/ \E d \in Devices : Replug(d)

NetworkSpec == NetworkInit /\ [][NetworkNext]_networkVars

\* tc has a deadline of its own, so whoever holds the lock lets go of it; the background thread
\* looks every few seconds.
NetworkFairness ==
  /\ \A c \in NetClients : WF_networkVars(ClientStep(c))
  /\ WF_networkVars(KeeperStep)
  /\ WF_networkVars(BackoffOver)

-----------------------------------------------------------------------------

\* While nobody is at work on it, an interface the module says is off has no qdisc of ours: a tc
\* that was started earlier cannot land after a later switch has been committed.  Only the link
\* committed last is spoken of.
OffMeansOff ==
  (operation = Free /\ committed = "off" /\ lastOn # NoLink /\ lastOn = Link(lastOn.device))
    => ~queuing[lastOn.device]

\* A wanted auto follows the default route: whatever else is going on, the module comes to have
\* applied it to the link the route is on.  What it has on record (applied) is meant: a device
\* replugged between its tc and the look at its link number is outside it.
AutoKept ==
  []<>(wanted = "off" \/ route = NoDevice \/ exit # "no" \/ applied = Link(route))

\* keep_mode "makes the interface match the mode the user chose", so with nothing under way and
\* off chosen, the module has not put auto anywhere.
ChosenMode ==
  (\A t \in Switchers : doing[t].at = "idle") /\ wanted = "off" => applied = NoLink
=============================================================================
