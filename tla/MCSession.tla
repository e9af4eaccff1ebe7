------------------------------ MODULE MCSession ------------------------------
(***************************************************************************)
(* Four more parts that share no state, as MCHost's.                       *)
(***************************************************************************)
EXTENDS Users, Network, Events, Installer

Services == {"users", "network", "events", "installer"}

VARIABLE alone

allVars == <<alone, usersVars, networkVars, eventsVars, installerVars>>

ServicesInit ==
  /\ alone \in Services
  /\ UsersInit /\ (alone # "users" => live = [f \in Index |-> Absent])
  /\ NetworkInit /\ (alone # "network" => route = NoDevice /\ wanted = "off")
  /\ EventsInit /\ (alone # "events" => daemon.mode = 1 /\ widget.mode = 1)
  /\ InstallerInit /\ (alone # "installer" => index = "ko")

ServicesNext ==
  /\ UNCHANGED alone
  /\ \/ alone = "users" /\ UsersNext
           /\ UNCHANGED <<networkVars, eventsVars, installerVars>>
     \/ alone = "network" /\ NetworkNext
           /\ UNCHANGED <<usersVars, eventsVars, installerVars>>
     \/ alone = "events" /\ EventsNext
           /\ UNCHANGED <<usersVars, networkVars, installerVars>>
     \/ alone = "installer" /\ InstallerNext
           /\ UNCHANGED <<usersVars, networkVars, eventsVars>>

\* The fairness each module states, of the service that runs.
RunsFair ==
  /\ WF_usersVars(alone = "users" /\ DaemonStep)
  /\ \A c \in NetClients : WF_networkVars(alone = "network" /\ ClientStep(c))
  /\ WF_networkVars(alone = "network" /\ KeeperStep)
  /\ WF_networkVars(alone = "network" /\ BackoffOver)
  /\ WF_eventsVars(alone = "events" /\ PollerStep)
  /\ WF_eventsVars(alone = "events" /\ ClickerStep)
  /\ WF_eventsVars(alone = "events" /\ \E what \in unsaid : Publish(what))
  /\ WF_eventsVars(alone = "events" /\ BeginDaemon)

ServicesSpec == ServicesInit /\ [][ServicesNext]_allVars /\ RunsFair

\* The types of the variables of the service that runs.
SessionTypes ==
  /\ alone = "users" => UsersTypes
  /\ alone = "network" => NetworkTypes
  /\ alone = "events" => EventsTypes
  /\ alone = "installer" => InstallerTypes
=============================================================================
