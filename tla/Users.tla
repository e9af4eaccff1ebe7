------------------------------- MODULE Users -------------------------------
(***************************************************************************)
(* Whose settings the daemon runs.  The files in use are somebody's; when   *)
(* another of Pyren's users becomes the active one they are put aside as    *)
(* their owner's and the other's copy is put back, file by file, by a       *)
(* daemon that has replaced itself and built no module yet.                 *)
(*                                                                         *)
(* Any write may be refused, and the process may die between any two of     *)
(* them.  users.json marks a restore for as long as it lasts.  File 1 is    *)
(* the one whose module keeps its mode in memory until it is told to write  *)
(* it down (power.json, fan.json).                                          *)
(***************************************************************************)
EXTENDS Naturals

CONSTANTS
  Members,     \* the users in the socket's group
  Stranger,    \* somebody who is not
  NoOne,       \* no uid: nobody at the seat, no owner, no mark
  Files,       \* how many files are somebody's (NAMESPACES has seven)
  Values,      \* what a client may put in one
  Absent,      \* a file that is not there
  MaxEdits,    \* bound: changes made by clients
  MaxFaults,   \* bound: refused writes and looks without an answer
  MaxLives     \* bound: times the process dies without being asked to replace itself

ASSUME UsersAssumption ==
  /\ Files \in Nat \ {0}
  /\ MaxEdits \in Nat /\ MaxFaults \in Nat /\ MaxLives \in Nat
  /\ Absent \notin Values
  /\ Stranger \notin Members /\ NoOne \notin Members \cup {Stranger}

VARIABLES
  account,   \* State::config
  accountFile, \* users.json
  seated,    \* who is at the machine
  seen,      \* State::active, the last person a look saw
  gaveUp,    \* State::gave_up_on
  live,      \* the files in use
  copies,    \* per user, the files put aside as theirs
  running,   \* what the module of file 1 runs, its file may say otherwise
  life,      \* how far this process has got
  handed,    \* this start is a hand-over and not a boot
  task,      \* the file operation the state lock is held for
  edits, faults, lives,  \* for the bounds
  theirs,    \* history: per user, the settings that were last in use as theirs
  astray,    \* history: a process ended with users.json not saying what it knew
  handedFor  \* history: whom the last hand-over was for, nothing having changed since

usersVars == <<account, accountFile, seated, seen, gaveUp, live, copies, running, life,
               handed, task, edits, faults, lives, theirs, astray, handedFor>>

Index == 1..Files
Contents == [Index -> Values \cup {Absent}]
Persons == Members \cup {Stranger, NoOne}
UsersConfig == [standDown : BOOLEAN, owner : Members \cup {NoOne},
                restoring : Members \cup {NoOne}]
Idle == [step |-> "none", next |-> NoOne, adopts |-> FALSE, at |-> 1]
Tasks == [step : {"none", "save", "put"}, next : Members \cup {NoOne},
          adopts : BOOLEAN, at : 1..Files + 1]

\* The types of the users module's variables.
UsersTypes ==
  /\ account \in UsersConfig /\ accountFile \in UsersConfig
  /\ seated \in Persons /\ seen \in Persons
  /\ gaveUp \in Members \cup {NoOne}
  /\ live \in Contents /\ copies \in [Members -> Contents]
  /\ running \in Values \cup {Absent}
  /\ life \in {"starting", "settling", "standing", "settled", "running", "leaving"}
  /\ handed \in BOOLEAN
  /\ task \in Tasks
  /\ edits \in 0..MaxEdits /\ faults \in 0..MaxFaults /\ lives \in 0..MaxLives
  /\ theirs \in [Members -> Contents]
  /\ astray \in BOOLEAN
  /\ handedFor \in Persons

-----------------------------------------------------------------------------
(* The machine as the daemon finds it: settings nobody has claimed.         *)

UsersInit ==
  /\ account = [standDown |-> FALSE, owner |-> NoOne, restoring |-> NoOne]
  /\ accountFile = account
  /\ seated = NoOne /\ seen = NoOne /\ gaveUp = NoOne
  /\ live \in Contents
  /\ copies = [u \in Members |-> [f \in Index |-> Absent]]
  /\ running = live[1]
  /\ life = "starting" /\ handed = FALSE /\ task = Idle
  /\ edits = 0 /\ faults = 0 /\ lives = 0
  /\ theirs = copies
  /\ astray = FALSE /\ handedFor = NoOne

Fault == faults < MaxFaults /\ faults' = faults + 1
NoFault == UNCHANGED faults

\* Profiles::exists: any file at all.
HasCopy(u) == \E f \in Index : copies[u][f] # Absent

\* UsersModule::persist, which only logs a refusal.
PersistAccount(config) ==
  /\ account' = config
  /\ \/ NoFault /\ accountFile' = config
     \/ Fault /\ UNCHANGED accountFile

\* What the owner has, their running mode included.
InUse == IF life = "running" /\ task.step # "save" THEN [live EXCEPT ![1] = running] ELSE live

\* Mutant of Remember: the modes are not written down before the files are copied.
RememberNothing == live' = live

\* Before the settings in use are copied, and on the way out.
Remember == live' = [live EXCEPT ![1] = running]

-----------------------------------------------------------------------------
(* Who is active.                                                           *)

\* Mutant of StillGivenUp: forgotten at the next look.
StillGivenUpNever(person) == NoOne

\* Mutant of StillGivenUp: whose turn was given up once never gets another.
StillGivenUpForGood(person) == gaveUp

\* UsersModule::look: what State says after a look that was answered, or not.
Look ==
  \/ NoFault /\ seen' = seated
  \/ Fault /\ seen' = seen

StillGivenUp(person) == IF gaveUp = person THEN gaveUp ELSE NoOne

\* Mutant of Called: anybody may adopt the settings when there is no standing down.
CalledAnybody(person) ==
  IF account.restoring # NoOne \/ person = NoOne THEN "keep"
  ELSE IF person = Stranger /\ account.standDown THEN "stand down"
  ELSE IF person \in {account.owner, StillGivenUp(person)} THEN "keep"
  ELSE IF person \in Members /\ HasCopy(person) THEN "restore" ELSE "adopt"

\* decide, and what look makes of it.
Called(person) ==
  IF account.restoring # NoOne \/ person = NoOne THEN "keep"
  ELSE IF person = Stranger THEN IF account.standDown THEN "stand down" ELSE "keep"
  ELSE IF person \in {account.owner, StillGivenUp(person)} THEN "keep"
  ELSE IF HasCopy(person) THEN "restore" ELSE "adopt"

\* set_aside is called for, and there is somebody to put settings aside for.
Aside(next) == account.owner \notin {NoOne, next}

\* The first step of adopt or restore once its lock is taken.
Undertake(next, adopts) ==
  task' = [step |-> "save", next |-> next, adopts |-> adopts,
           at |-> IF Aside(next) THEN 1 ELSE Files + 1]

\* Profiles::restore for this user, from its first file.
PutBack(u) ==
  [step |-> "put", next |-> u, adopts |-> FALSE, at |-> IF HasCopy(u) THEN 1 ELSE Files + 1]

-----------------------------------------------------------------------------
(* settle, before any module is built.                                      *)

\* finish_interrupted_restore.
FinishInterrupted ==
  /\ life = "starting" /\ life' = "settling"
  /\ IF account.restoring # NoOne
       THEN task' = PutBack(account.restoring) /\ handed' = TRUE
       ELSE UNCHANGED <<task, handed>>
  /\ UNCHANGED <<account, accountFile, seated, seen, gaveUp, live, copies, running, edits,
                 faults, lives, theirs, astray, handedFor>>

\* One turn of settle's loop.
SettleLook ==
  /\ life = "settling" /\ task.step = "none"
  /\ Look
  /\ gaveUp' = StillGivenUp(seen')
  /\ \/ Called(seen') = "keep" /\ life' = "settled" /\ UNCHANGED <<task, handed>>
     \/ Called(seen') = "stand down" /\ life' = "standing" /\ handed' = TRUE /\ UNCHANGED task
     \/ /\ Called(seen') \in {"adopt", "restore"} /\ life' = "settled"
        /\ Undertake(seen', Called(seen') = "adopt") /\ UNCHANGED handed
  /\ handedFor' = IF seen' # seated THEN NoOne ELSE handedFor
  /\ UNCHANGED <<account, accountFile, seated, live, copies, running, edits, lives, theirs,
                 astray>>

\* Mutant of Reload: only the setting ends the standing down, not somebody's return.
ReloadWaitsForSetting ==
  /\ life = "standing"
  /\ life' = IF accountFile.standDown THEN "standing" ELSE "settling"
  /\ account' = [account EXCEPT !.standDown = accountFile.standDown]
  /\ UNCHANGED <<accountFile, seated, seen, gaveUp, live, copies, running, handed, task, edits,
                 faults, lives, theirs, astray, handedFor>>

\* settle, asleep: reload takes standDownForOthers from the file, then looks again.
Reload ==
  /\ life = "standing" /\ life' = "settling"
  /\ account' = [account EXCEPT !.standDown = accountFile.standDown]
  /\ UNCHANGED <<accountFile, seated, seen, gaveUp, live, copies, running, handed, task, edits,
                 faults, lives, theirs, astray, handedFor>>

\* main builds the modules on the files it finds.  The mode in file 1 is applied when this is
\* a hand-over or its user asked for that at boot; otherwise the machine's goes on.
Build ==
  /\ life = "settled" /\ task.step = "none" /\ life' = "running"
  /\ \E mode \in IF handed THEN {live[1]} ELSE Values \cup {live[1]} :
       /\ running' = mode
       /\ theirs' = IF account.owner # NoOne /\ account.restoring = NoOne
                      THEN [theirs EXCEPT ![account.owner] = [live EXCEPT ![1] = mode]]
                      ELSE theirs
  /\ UNCHANGED <<account, accountFile, seated, seen, gaveUp, live, copies, handed, task, edits,
                 faults, lives, astray, handedFor>>

-----------------------------------------------------------------------------
(* watch, and the way out.                                                  *)

\* UsersModule::watch: one look.  A hand-over flushes the modes, and ends the watching.
WatchLook ==
  /\ life = "running" /\ task.step = "none"
  /\ Look
  /\ gaveUp' = StillGivenUp(seen')
  /\ \/ Called(seen') = "keep" /\ UNCHANGED <<life, live, task, handedFor>>
     \/ /\ Called(seen') = "adopt" /\ Undertake(seen', TRUE)
        /\ IF Aside(seen') THEN Remember ELSE UNCHANGED live
        /\ UNCHANGED <<life, handedFor>>
     \/ /\ Called(seen') \in {"restore", "stand down"}
        /\ life' = "leaving" /\ Remember /\ handedFor' = seen'
        /\ UNCHANGED task
  /\ UNCHANGED <<account, accountFile, seated, copies, running, handed, edits, lives, theirs,
                 astray>>

KnewMore == account.owner # accountFile.owner \/ account.restoring # accountFile.restoring

\* A fresh process: with_parts reads users.json.
FreshUsers(isHandOver) ==
  /\ account' = accountFile /\ seen' = NoOne /\ gaveUp' = NoOne
  /\ life' = "starting" /\ handed' = isHandOver /\ task' = Idle
  /\ running' = live'[1]
  /\ astray' = (astray \/ KnewMore)

\* replace_self, everything let go of.
Replace ==
  /\ life = "leaving"
  /\ UNCHANGED <<accountFile, seated, live, copies, edits, faults, lives, theirs, handedFor>>
  /\ FreshUsers(TRUE)

\* The process ends: on a signal with the modes written down, or at once.  A new one is started.
Die ==
  /\ lives < MaxLives /\ lives' = lives + 1
  /\ \/ life = "running" /\ task.step = "none" /\ Remember
     \/ UNCHANGED live
  /\ FreshUsers(FALSE)
  /\ handedFor' = NoOne
  /\ theirs' = IF account.owner # NoOne /\ account.restoring = NoOne
                 THEN [theirs EXCEPT ![account.owner] = live'] ELSE theirs
  /\ UNCHANGED <<accountFile, seated, copies, edits, faults>>

-----------------------------------------------------------------------------
(* The file operations, one write at a time, under the state lock.          *)

Next1 == [task EXCEPT !.at = @ + 1]

\* Profiles::save, one file: copied, or its copy removed.  Refused, the user's turn is given up.
SaveFile ==
  /\ task.step = "save" /\ task.at <= Files
  /\ \/ /\ NoFault
        /\ copies' = [copies EXCEPT ![account.owner][task.at] = live[task.at]]
        /\ task' = Next1 /\ UNCHANGED <<gaveUp, theirs>>
     \/ /\ Fault /\ gaveUp' = task.next /\ task' = Idle
        /\ theirs' = [theirs EXCEPT ![account.owner] =
                        IF life = "running" THEN [live EXCEPT ![1] = running] ELSE live]
        /\ UNCHANGED copies
  /\ UNCHANGED <<account, accountFile, seated, seen, live, running, life, handed, edits, lives,
                 astray, handedFor>>

\* adopt, the previous owner's settings put aside.
Adopt ==
  /\ task.step = "save" /\ task.at > Files /\ task.adopts
  /\ PersistAccount([account EXCEPT !.owner = task.next])
  /\ task' = Idle
  /\ theirs' = [theirs EXCEPT ![task.next] =
                  IF life = "running" THEN [live EXCEPT ![1] = running] ELSE live]
  /\ UNCHANGED <<seated, seen, gaveUp, live, copies, running, life, handed, edits, lives,
                 astray, handedFor>>

\* restore, the previous owner's settings put aside: the mark, and on to the files.
Mark ==
  /\ task.step = "save" /\ task.at > Files /\ ~task.adopts
  /\ PersistAccount([account EXCEPT !.restoring = task.next])
  /\ task' = PutBack(task.next) /\ handed' = TRUE
  /\ UNCHANGED <<seated, seen, gaveUp, live, copies, running, life, edits, lives, theirs,
                 astray, handedFor>>

\* Profiles::restore, one file: put back, or the file in use removed.  Refused, the mark stays.
RestoreFile ==
  /\ task.step = "put" /\ task.at <= Files
  /\ \/ /\ NoFault
        /\ live' = [live EXCEPT ![task.at] = copies[task.next][task.at]]
        /\ task' = Next1
     \/ Fault /\ task' = Idle /\ UNCHANGED live
  /\ UNCHANGED <<account, accountFile, seated, seen, gaveUp, copies, running, life, handed,
                 edits, lives, theirs, astray, handedFor>>

\* put_back, every file in place.
Claim ==
  /\ task.step = "put" /\ task.at > Files
  /\ PersistAccount([account EXCEPT !.owner = task.next, !.restoring = NoOne])
  /\ task' = Idle
  /\ UNCHANGED <<seated, seen, gaveUp, live, copies, running, life, handed, edits, lives,
                 theirs, astray, handedFor>>

-----------------------------------------------------------------------------
(* What is not this module's.                                               *)

\* Somebody comes to the seat, or leaves it.
Arrive(person) ==
  /\ person # seated /\ seated' = person /\ handedFor' = NoOne
  /\ UNCHANGED <<account, accountFile, seen, gaveUp, live, copies, running, life, handed, task,
                 edits, faults, lives, theirs, astray>>

\* A change is its owner's until the file it is in has been put aside, and one that is in
\* memory only until the modes have been written down.
Counts(f, written) ==
  /\ account.owner # NoOne /\ account.restoring = NoOne
  /\ task.step = "save" => written /\ f >= task.at
  /\ life = "leaving" => written

\* A client changes a setting of a module, which writes its file; a mode may stay in memory.
Edit(f, v, written) ==
  /\ life \in {"running", "leaving"} /\ edits < MaxEdits /\ edits' = edits + 1
  /\ written \/ f = 1
  /\ live' = IF written THEN [live EXCEPT ![f] = v] ELSE live
  /\ running' = IF f = 1 THEN v ELSE running
  /\ theirs' = IF Counts(f, written) THEN [theirs EXCEPT ![account.owner][f] = v] ELSE theirs
  /\ UNCHANGED <<account, accountFile, seated, seen, gaveUp, copies, life, handed, task,
                 faults, lives, astray, handedFor>>

\* setStandDownForOthers; while the daemon stands down it is an edit of the file instead.
SetStandDown(enabled) ==
  /\ \/ /\ life \in {"running", "leaving"} /\ task.step = "none"
        /\ PersistAccount([account EXCEPT !.standDown = enabled])
     \/ /\ life = "standing" /\ NoFault
        /\ accountFile' = [accountFile EXCEPT !.standDown = enabled]
        /\ UNCHANGED account
  /\ handedFor' = NoOne
  /\ UNCHANGED <<seated, seen, gaveUp, live, copies, running, life, handed, task, edits, lives,
                 theirs, astray>>

DaemonStep ==
  \/ FinishInterrupted \/ SettleLook \/ Reload \/ Build \/ WatchLook \/ Replace
  \/ SaveFile \/ Adopt \/ Mark \/ RestoreFile \/ Claim

UsersNext ==
  \/ DaemonStep
  \/ Die
  \/ \E person \in Persons : Arrive(person)
  \/ \E f \in Index, v \in Values, written \in BOOLEAN : Edit(f, v, written)
  \/ \E enabled \in BOOLEAN : SetStandDown(enabled)

UsersSpec == UsersInit /\ [][UsersNext]_usersVars

\* The watcher and main are never blocked: each waits only for its own timers.
UsersFairness == WF_usersVars(DaemonStep)

-----------------------------------------------------------------------------
(* What the module promises.                                                *)

\* The settings in use are exactly what their owner last had: whole, theirs and not a mixture
\* with somebody else's, over any number of hand-overs, refused writes and crashes, unless a
\* process ended with users.json not saying whose they were (UsersModule::restore, put_back).
OwnSettings ==
  (account.owner # NoOne /\ account.restoring = NoOne /\ ~astray) =>
    \A f \in Index : \/ task.step = "save" /\ f < task.at
                     \/ InUse[f] = theirs[account.owner][f]

\* The same, whatever was written: the mark is there "so one that was interrupted is finished
\* rather than mistaken for the previous owner's settings" (UsersConfig::restoring).
OwnSettingsAnyhow ==
  (account.owner # NoOne /\ account.restoring = NoOne) =>
    \A f \in Index : \/ task.step = "save" /\ f < task.at
                     \/ InUse[f] = theirs[account.owner][f]

\* The daemon replaces itself once for an arrival: a switch that could not be made is not tried
\* again at every poll (State::gave_up_on).  An arrival ends when somebody else comes, when the
\* process dies, when the standing down is set, and when settle looks and does not see who is
\* at the seat.
OneHandOver == [][life' = "leaving" /\ life = "running" => handedFor # seen']_usersVars

\* Whoever of Pyren's users stays at the machine comes to have their settings in use, unless
\* putting the previous owner's aside, or putting theirs back, was refused; and whose turn was
\* given up has another once they have been away for a look (UsersModule::look).
ArrivalServed ==
  \A u \in Members :
    /\ []<>(seated # u \/ account.owner = u \/ gaveUp = u \/ account.restoring # NoOne)
    /\ []<>(seated = u \/ gaveUp # u)
=============================================================================
