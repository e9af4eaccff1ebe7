------------------------------- MODULE Keymap -------------------------------
(***************************************************************************)
(* The key remapper: one thread that takes every keyboard for itself and    *)
(* forwards what it reads through a virtual one.  Clients turn it on and    *)
(* off; setEnabled records the wish under the state lock and then starts or *)
(* stops the thread in a second critical section, so two calls may cross,   *)
(* and each may meet a thread that is still coming up or already going      *)
(* down.  Which key becomes which is looked up afresh for every batch and   *)
(* has no state of its own.                                                 *)
(***************************************************************************)
EXTENDS Naturals, FiniteSets

CONSTANTS
  Callers,  \* the connections that call setEnabled
  Workers   \* the threads there are to start

ASSUME KeymapAssumption == Callers # {} /\ Workers # {} /\ IsFiniteSet(Workers)

VARIABLES
  enabled,     \* State::config.enabled
  starting,    \* State::starting
  remapping,   \* State::running
  unavailable, \* State::unavailable is set
  stop,        \* KeymapModule::stop
  calls,       \* per caller, the half of setEnabled it has yet to do
  worker       \* per thread, where in run it is

keymapVars == <<enabled, starting, remapping, unavailable, stop, calls, worker>>

\* The types of the remapper's variables.
KeymapTypes ==
  /\ enabled \in BOOLEAN /\ starting \in BOOLEAN /\ remapping \in BOOLEAN
  /\ unavailable \in BOOLEAN /\ stop \in BOOLEAN
  /\ calls \in [Callers -> {"none", "start", "stop"}]
  /\ worker \in [Workers -> {"none", "opening", "forwarding", "leaving", "again"}]

-----------------------------------------------------------------------------

\* Mutant of Start: a thread that is still coming up is not counted.
StartTwice(workers) ==
  IF ~enabled THEN UNCHANGED <<stop, starting>> /\ worker' = workers
  ELSE /\ stop' = FALSE
       /\ IF remapping
            THEN UNCHANGED starting /\ worker' = workers
            ELSE \E w \in Workers :
                   /\ workers[w] = "none"
                   /\ starting' = TRUE
                   /\ worker' = [workers EXCEPT ![w] = "opening"]

\* KeymapModule::start, in one piece under the state lock but for the spawn.
Start(workers) ==
  IF ~enabled THEN UNCHANGED <<stop, starting>> /\ worker' = workers
  ELSE /\ stop' = FALSE
       /\ IF remapping \/ starting
            THEN UNCHANGED starting /\ worker' = workers
            ELSE \E w \in Workers :
                   /\ workers[w] = "none"
                   /\ starting' = TRUE
                   /\ worker' = [workers EXCEPT ![w] = "opening"]

KeymapInit ==
  /\ enabled \in BOOLEAN
  /\ remapping = FALSE /\ unavailable = FALSE /\ stop = FALSE
  /\ calls = [c \in Callers |-> "none"]
  /\ starting = enabled
  /\ worker \in {[w \in Workers |-> IF w = first /\ enabled THEN "opening" ELSE "none"] :
                   first \in Workers}

\* setEnabled, first half: what is wanted.
SetEnabled(c, wish) ==
  /\ calls[c] = "none"
  /\ enabled' = wish
  /\ calls' = [calls EXCEPT ![c] = IF wish THEN "start" ELSE "stop"]
  /\ UNCHANGED <<starting, remapping, unavailable, stop, worker>>

\* setEnabled, second half, for a caller that wanted it on.
CallStart(c) ==
  /\ calls[c] = "start" /\ calls' = [calls EXCEPT ![c] = "none"]
  /\ Start(worker)
  /\ UNCHANGED <<enabled, remapping, unavailable>>

\* ... and off: asked again what is wanted now, beside the flag.
CallStop(c) ==
  /\ calls[c] = "stop" /\ calls' = [calls EXCEPT ![c] = "none"]
  /\ stop' = (stop \/ ~enabled)
  /\ UNCHANGED <<enabled, starting, remapping, unavailable, worker>>

\* run: no keyboard could be taken, or no virtual one made; those taken are let go of.
CannotRun(w) ==
  /\ worker[w] = "opening" /\ worker' = [worker EXCEPT ![w] = "none"]
  /\ starting' = FALSE /\ unavailable' = TRUE
  /\ UNCHANGED <<enabled, remapping, stop, calls>>

\* run: the keyboards are this thread's.
TakeKeyboards(w) ==
  /\ worker[w] = "opening" /\ worker' = [worker EXCEPT ![w] = "forwarding"]
  /\ starting' = FALSE /\ remapping' = TRUE /\ unavailable' = FALSE
  /\ UNCHANGED <<enabled, stop, calls>>

\* run: the stop is seen between two batches, and the loop is left for good.
SeeStop(w) ==
  /\ worker[w] = "forwarding" /\ stop
  /\ worker' = [worker EXCEPT ![w] = "leaving"]
  /\ UNCHANGED <<enabled, starting, remapping, unavailable, stop, calls>>

\* Mutant of FinishRun: a stop that was called off too late is not made up for.
FinishRunForGood(w) ==
  /\ worker[w] = "leaving"
  /\ remapping' = FALSE
  /\ worker' = [worker EXCEPT ![w] = "none"]
  /\ UNCHANGED <<enabled, starting, unavailable, stop, calls>>

\* finish_run_after_handoff, the keyboards let go of: was the stop called off meanwhile?
FinishRun(w) ==
  /\ worker[w] = "leaving"
  /\ remapping' = FALSE
  /\ worker' = [worker EXCEPT ![w] = IF enabled /\ ~stop THEN "again" ELSE "none"]
  /\ UNCHANGED <<enabled, starting, unavailable, stop, calls>>

\* finish_run_after_handoff, the lock released and taken again by start.
StartAgain(w) ==
  /\ worker[w] = "again"
  /\ Start([worker EXCEPT ![w] = "none"])
  /\ UNCHANGED <<enabled, remapping, unavailable, calls>>

WorkerStep(w) ==
  CannotRun(w) \/ TakeKeyboards(w) \/ SeeStop(w) \/ FinishRun(w) \/ StartAgain(w)

CallerStep(c) == CallStart(c) \/ CallStop(c)

KeymapNext ==
  \/ \E w \in Workers : WorkerStep(w)
  \/ \E c \in Callers : CallerStep(c) \/ \E wish \in BOOLEAN : SetEnabled(c, wish)

KeymapSpec == KeymapInit /\ [][KeymapNext]_keymapVars

\* A call under way comes to its end, and the poll of a running worker times out.
KeymapFairness ==
  /\ \A w \in Workers : WF_keymapVars(WorkerStep(w))
  /\ \A c \in Callers : WF_keymapVars(CallerStep(c))

-----------------------------------------------------------------------------

At(places) == {w \in Workers : worker[w] \in places}

\* However the calls cross, one thread at most has the keyboards or is about to, and the flags
\* say which: a second grab would find every keyboard taken and report that there is none.
OneWorker ==
  /\ \A v, w \in At({"opening", "forwarding", "leaving"}) : v = w
  /\ starting = (At({"opening"}) # {})
  /\ remapping = (At({"forwarding", "leaving"}) # {})

\* What was wanted last comes about: left on, the keys are remapped or the status says why not;
\* left off, the keyboards are given back (start and stop revalidate, a worker hands off).
FollowsSwitch ==
  /\ []<>(~enabled \/ At({"forwarding"}) # {} \/ (unavailable /\ At({"opening", "leaving"}) = {}))
  /\ []<>(enabled \/ At({"opening", "forwarding", "leaving"}) = {})
=============================================================================
