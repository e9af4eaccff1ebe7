----------------------------- MODULE Lifecycle -----------------------------
(***************************************************************************)
(* How the daemon's process begins and ends.  Two threads end it on         *)
(* purpose: the one that waits for SIGTERM, which lets go of the hardware   *)
(* and exits, and the one that watches the active user, which lets go of    *)
(* the hardware and replaces the process with a fresh daemon.  The signals  *)
(* are blocked in every thread from before the modules are built, and       *)
(* unblocked in one just before the exec.  The main thread ends it as well, *)
(* when it cannot claim the machine and when its socket fails, and asks     *)
(* neither of them.                                                         *)
(***************************************************************************)
EXTENDS Naturals

VARIABLES
  process, \* how far the process is
  masked,  \* the termination signals are blocked in this process's threads
  open,    \* the watcher has unblocked them in its own thread
  pending, \* a termination signal is pending for the process
  signals, \* the thread that waits for them
  watcher, \* the thread that watches the active user
  leaving, \* who has the one right to end the process
  driven,  \* the modules of this process drive the hardware
  asked,   \* history: the service was asked to stop, and has not
  endedBy  \* history: what ended or replaced the last process

lifecycleVars == <<process, masked, open, pending, signals, watcher, leaving, driven, asked,
                   endedBy>>

\* The types of the life cycle's variables.
LifecycleTypes ==
  /\ process \in {"settling", "building", "serving", "gone"}
  /\ masked \in BOOLEAN /\ open \in BOOLEAN /\ pending \in BOOLEAN
  /\ signals \in {"none", "waiting", "caught", "releasing", "exiting", "parked"}
  /\ watcher \in {"none", "looking", "arrived", "releasing", "unblocking", "exec"}
  /\ leaving \in {"free", "signals", "watcher"}
  /\ driven \in BOOLEAN /\ asked \in BOOLEAN
  /\ endedBy \in {"none", "signal", "handover", "claim", "socket"}

NewProcess ==
  /\ process' = "settling" /\ masked' = FALSE /\ open' = FALSE
  /\ signals' = "none" /\ watcher' = "none" /\ leaving' = "free" /\ driven' = FALSE

LifecycleInit ==
  /\ process = "settling" /\ masked = FALSE /\ open = FALSE /\ pending = FALSE
  /\ signals = "none" /\ watcher = "none" /\ leaving = "free"
  /\ driven = FALSE /\ asked = FALSE /\ endedBy = "none"

End(by) ==
  /\ process' = "gone" /\ masked' = FALSE /\ open' = FALSE /\ pending' = FALSE
  /\ signals' = "none" /\ watcher' = "none" /\ leaving' = "free" /\ driven' = FALSE
  /\ endedBy' = by

\* main: another daemon controls this system, and nothing has been built yet.
GiveUpClaim ==
  /\ process = "settling"
  /\ End("claim") /\ asked' = FALSE

\* Mutant of BlockTermination: the signals stay as they were.
BlockTerminationNot ==
  /\ process = "settling" /\ process' = "building"
  /\ UNCHANGED <<masked, open, pending, signals, watcher, leaving, driven, asked, endedBy>>
\* main, settled: the signals are blocked before any module exists.
BlockTermination ==
  /\ process = "settling" /\ process' = "building"
  /\ masked' = TRUE
  /\ UNCHANGED <<open, pending, signals, watcher, leaving, driven, asked, endedBy>>

\* main: the modules are built, and drive the hardware from here.
BuildModules ==
  /\ process = "building" /\ ~driven /\ driven' = TRUE
  /\ UNCHANGED <<process, masked, open, pending, signals, watcher, leaving, asked, endedBy>>

\* main: on_termination, users.watch, and the socket.
Serve ==
  /\ process = "building" /\ driven /\ process' = "serving"
  /\ signals' = "waiting" /\ watcher' = "looking"
  /\ UNCHANGED <<masked, open, pending, leaving, driven, asked, endedBy>>

\* Somebody asks the service to stop.
Terminate ==
  /\ process # "gone" /\ ~asked
  /\ asked' = TRUE /\ pending' = TRUE
  /\ UNCHANGED <<process, masked, open, signals, watcher, leaving, driven, endedBy>>

\* A signal that is not blocked somewhere is delivered there and ends the process.
Deliver ==
  /\ pending /\ process # "gone" /\ (~masked \/ open)
  /\ End("signal") /\ asked' = FALSE

\* on_termination: sigwait returns, and the signal is consumed.
Catch ==
  /\ signals = "waiting" /\ pending
  /\ signals' = "caught" /\ pending' = FALSE
  /\ UNCHANGED <<process, masked, open, watcher, leaving, driven, asked, endedBy>>

\* try_leave for the signal thread; too late, the signal is raised again and the thread parks.
LeaveOnSignal ==
  /\ signals = "caught"
  /\ IF leaving = "free"
       THEN leaving' = "signals" /\ signals' = "releasing" /\ UNCHANGED pending
       ELSE UNCHANGED leaving /\ signals' = "parked" /\ pending' = TRUE
  /\ UNCHANGED <<process, masked, open, watcher, driven, asked, endedBy>>

\* release: the fans, the power override, the queuing.
ReleaseOnSignal ==
  /\ signals = "releasing" /\ signals' = "exiting" /\ driven' = FALSE
  /\ UNCHANGED <<process, masked, open, pending, watcher, leaving, asked, endedBy>>

ExitOnSignal ==
  /\ signals = "exiting" /\ End("signal") /\ asked' = FALSE

\* The watcher sees somebody who calls for a hand-over.
SomebodyElse ==
  /\ watcher = "looking" /\ watcher' = "arrived"
  /\ UNCHANGED <<process, masked, open, pending, signals, leaving, driven, asked, endedBy>>

\* try_leave for the watcher; too late, it returns and looks no more.
LeaveForUser ==
  /\ watcher = "arrived"
  /\ IF leaving = "free" THEN leaving' = "watcher" /\ watcher' = "releasing"
                         ELSE UNCHANGED leaving /\ watcher' = "none"
  /\ UNCHANGED <<process, masked, open, pending, signals, driven, asked, endedBy>>

\* release, then OverclockModule::on_handover, which is Overclock's.
ReleaseForUser ==
  /\ watcher = "releasing" /\ watcher' = "unblocking" /\ driven' = FALSE
  /\ UNCHANGED <<process, masked, open, pending, signals, leaving, asked, endedBy>>

\* replace_self: unblock_termination, then the exec.
Unblock ==
  /\ watcher = "unblocking" /\ watcher' = "exec" /\ open' = TRUE
  /\ UNCHANGED <<process, masked, pending, signals, leaving, driven, asked, endedBy>>

\* The exec takes every other thread with it, whatever it was doing; it may be refused, and
\* then the process ends and systemd starts another.
Exec ==
  /\ watcher = "exec" /\ ~pending
  /\ \/ NewProcess /\ endedBy' = "handover" /\ UNCHANGED pending
     \/ End("handover")
  /\ UNCHANGED asked

\* main: the socket cannot be bound, or a connection not accepted.  The process exits there
\* and then, whoever is leaving: nothing is released.
LoseSocket ==
  /\ process = "serving"
  /\ End("socket") /\ asked' = FALSE

\* The service is started: by systemd, or because somebody wants it again.
StartService ==
  /\ process = "gone" /\ NewProcess /\ asked' = FALSE
  /\ UNCHANGED <<pending, endedBy>>

LifecycleNext ==
  \/ BlockTermination \/ BuildModules \/ Serve \/ Terminate \/ Deliver
  \/ Catch \/ LeaveOnSignal \/ ReleaseOnSignal \/ ExitOnSignal
  \/ SomebodyElse \/ LeaveForUser \/ ReleaseForUser \/ Unblock \/ Exec
  \/ GiveUpClaim \/ LoseSocket \/ StartService

LifecycleSpec == LifecycleInit /\ [][LifecycleNext]_lifecycleVars

-----------------------------------------------------------------------------

\* However a stop and a change of user cross, no process ends or is replaced with the hardware
\* still in its hands (try_leave, the signal mask), but for the one whose socket failed: main
\* exits without a release there.
EndsReleased ==
  [][process # process' /\ process' \in {"gone", "settling"}
       => ~driven \/ endedBy' = "socket"]_lifecycleVars

\* The same without the exception, which is what release is for ("No destructor runs after
\* this: a curve's low speed or a calibration's near-stall floor would stay on the fans
\* otherwise", main).  It does not hold: LoseSocket.
ReleasedAtEveryEnd ==
  [][process # process' /\ process' \in {"gone", "settling"} => ~driven]_lifecycleVars

\* A request to stop stays known to somebody until it is honoured ("Either way the request to
\* stop is not lost", signals::raise).
StopKnown ==
  (asked /\ process # "gone")
    => pending \/ signals \in {"caught", "releasing", "exiting"}
=============================================================================
