----------------------------- MODULE Overclock -----------------------------
(***************************************************************************)
(* An overclock and the timer that undoes it.  Clients apply, confirm,      *)
(* cancel and reset; the watchdog reverts what nobody confirmed; the main   *)
(* thread restores the confirmed targets when the daemon starts and puts    *)
(* the cards back when it hands the machine to another user.  Writes to a   *)
(* card are serialised by hardware_operation and made without the state     *)
(* lock; what the code does under the state lock is one step.               *)
(*                                                                          *)
(* crates/overclock/src/lib.rs.                                             *)
(***************************************************************************)
EXTENDS Naturals

CONSTANTS
  Clients,        \* threads serving an IPC connection
  Watchdog,       \* the revert timer
  Main,           \* the thread that starts the daemon and hands over
  GPUs,           \* the cards that can be driven
  Offsets,        \* targets other than stock
  MaxApplies,     \* how many changes are armed in a life of the daemon (bound)
  MaxRestarts,    \* how often the daemon or the machine restarts (bound)
  SavesFail       \* whether overclock.json can fail to be written (bound)

Stock == "stock"
Targets == {Stock} \cup Offsets

\* A card between two targets, or one that took half a write.
Adrift == "adrift"

\* What the daemon believes of a card it has never written.
Unmoved == "unmoved"
None == "none"

Threads == Clients \cup {Watchdog, Main}

ASSUME ThreadsAssumption ==
  Watchdog # Main /\ {Watchdog, Main} \cap Clients = {} /\ None \notin Threads

ASSUME CardsAssumption ==
  {Stock, Adrift, Unmoved} \cap Offsets = {} /\ None \notin GPUs

ASSUME BoundsAssumption ==
  MaxApplies \in Nat /\ MaxRestarts \in Nat /\ SavesFail \in BOOLEAN

VARIABLES
  pc,           \* where each thread is
  hardware,     \* who holds hardware_operation
  card,         \* what is on each card
  refused,      \* cards whose last write was refused (history)
  applied,      \* State::applied
  pending,      \* State::pending
  generation,   \* State::next_pending_generation
  config,       \* State::config
  disk,         \* overclock.json
  saved,        \* whether the last persist went through
  unconfirmed,  \* State::unconfirmed_at_start
  interrupted,  \* whether the last life ended on an unconfirmed apply (history)
  copy,         \* the pending change a thread read, and goes on to revert
  on,           \* the card a thread is busy with
  goal,         \* where a climb is going
  found,        \* what a probe read; else what a climb began on (history)
  todo,         \* the cards a reset, a restore or a hand-over has left
  restarts      \* restarts so far

cards == <<card, refused>>
store == <<config, disk, saved>>
change == <<pending, generation>>
climbs == <<on, goal, found>>
locals == <<copy, climbs, todo>>
life == <<unconfirmed, interrupted, restarts>>
vars == <<pc, hardware, cards, applied, change, store, locals, life>>

Phases == {"coherent", "reverting", "revertFailed"}
Contents == Targets \cup {Adrift}

\* found is history: what the change replaced, None if a refused write left
\* nobody sure.
NoChange ==
  [generation |-> 0, gpu |-> None, revertTo |-> Stock, phase |-> "coherent", found |-> None]
Changes ==
  [generation : Nat, gpu : GPUs \cup {None}, revertTo : Targets, phase : Phases,
   found : Contents \cup {None}]

Configs ==
  [consent : BOOLEAN, targets : [GPUs -> Targets], restore : BOOLEAN,
   armed : GPUs \cup {None}]

\* Where a thread stands: it climbs, it reverts, it resets or it hands over.
ClimbLabels == {"climb", "commit"}
RevertLabels == {"revert", "undo", "settle"}
ResetLabels == {"reset", "each", "putBack", "record"}
ProbeLabels == {"probe"}
MainLabels == {"load", "restore", "restored", "serving", "handOver", "stow", "stowed", "leaving"}
Labels ==
  {"idle"} \cup ClimbLabels \cup RevertLabels \cup ResetLabels \cup ProbeLabels \cup MainLabels

\* The types of the variables; a change always has a target to go back to.
TypeOK ==
  /\ pc \in [Threads -> Labels]
  /\ hardware \in Threads \cup {None}
  /\ card \in [GPUs -> Contents]
  /\ refused \subseteq GPUs
  /\ applied \in [GPUs -> Targets \cup {Unmoved}]
  /\ pending \in Changes
  /\ generation \in Nat
  /\ config \in Configs
  /\ disk \in Configs
  /\ saved \in BOOLEAN
  /\ unconfirmed \in BOOLEAN
  /\ interrupted \in BOOLEAN
  /\ copy \in [Threads -> Changes]
  /\ on \in [Threads -> GPUs \cup {None}]
  /\ goal \in [Threads -> Targets]
  /\ found \in [Threads -> Contents \cup {None}]
  /\ todo \in [Threads -> SUBSET GPUs]
  /\ restarts \in 0..MaxRestarts

Fresh == [t \in Threads |-> IF t = Main THEN "load" ELSE "idle"]
Defaults ==
  [consent |-> FALSE, targets |-> [g \in GPUs |-> Stock], restore |-> FALSE, armed |-> None]

Init ==
  /\ pc = Fresh
  /\ hardware = None
  /\ card = [g \in GPUs |-> Stock]
  /\ refused = {}
  /\ applied = [g \in GPUs |-> Unmoved]
  /\ pending = NoChange
  /\ generation = 0
  /\ config = Defaults
  /\ disk = Defaults
  /\ saved = TRUE
  /\ unconfirmed = FALSE
  /\ interrupted = FALSE
  /\ copy = [t \in Threads |-> NoChange]
  /\ on = [t \in Threads |-> None]
  /\ goal = [t \in Threads |-> Stock]
  /\ found = [t \in Threads |-> None]
  /\ todo = [t \in Threads |-> {}]
  /\ restarts = 0

-----------------------------------------------------------------------------

At(t, label) == pc[t] = label
Go(t, label) == pc' = [pc EXCEPT ![t] = label]
Move(t, from, to) == At(t, from) /\ Go(t, to)

Serving == pc[Main] \notin {"load", "restore", "climb", "restored"}
Idle(t) == t \in Clients /\ At(t, "idle") /\ Serving

Take(t) == hardware = None /\ hardware' = t
Drop == hardware' = None

ForgetClimb(t) ==
  /\ on' = [on EXCEPT ![t] = None]
  /\ goal' = [goal EXCEPT ![t] = Stock]
  /\ found' = [found EXCEPT ![t] = None]

Pending == pending # NoChange
PendingOn(g) == pending.gpu = g

\* What is on the card as far as the daemon knows: what it wrote, else what
\* was confirmed for it.
Current(g) == IF applied[g] = Unmoved THEN config.targets[g] ELSE applied[g]

\* overclock.json is saved under the state lock; a failed save is noted and
\* nothing else.
Persist(c) ==
  /\ config' = c
  /\ \/ disk' = c /\ saved' = TRUE
     \/ SavesFail /\ saved' = FALSE /\ UNCHANGED disk

\* A whole target written to a card, or a write the driver refused before or
\* after it had changed a knob.
Written(g, to) ==
  /\ card' = [card EXCEPT ![g] = to]
  /\ refused' = refused \ {g}

RefusedAt(g, left) ==
  /\ \E what \in left : card' = [card EXCEPT ![g] = what]
  /\ refused' = refused \cup {g}
Refused(g) == RefusedAt(g, {card[g], Adrift})

-----------------------------------------------------------------------------
(* Consent, and the settings.                                               *)

Consent(t) ==
  /\ Idle(t)
  /\ Persist([config EXCEPT !.consent = TRUE])
  /\ UNCHANGED <<pc, hardware, cards, applied, change, locals, life>>

\* Withdrawing it is recorded first; the reset that follows waits its turn.
Withdraw(t) ==
  /\ Idle(t)
  /\ Go(t, "reset")
  /\ Persist([config EXCEPT !.consent = FALSE])
  /\ todo' = [todo EXCEPT ![t] = GPUs]
  /\ UNCHANGED <<hardware, cards, applied, change, copy, climbs, life>>

SetRestoreOnStart(t) ==
  /\ Idle(t)
  /\ \E enabled \in BOOLEAN : Persist([config EXCEPT !.restore = enabled])
  /\ UNCHANGED <<pc, hardware, cards, applied, change, locals, life>>

-----------------------------------------------------------------------------
(* The probe that finds out whether a card can be written, by writing what  *)
(* it has just read.                                                        *)

\* Mutant: what is read is read before the hardware is held.
ProbeUnheld(t) ==
  /\ Idle(t)
  /\ ~Pending
  /\ Go(t, "probe")
  /\ \E g \in GPUs : on' = [on EXCEPT ![t] = g] /\ found' = [found EXCEPT ![t] = card[g]]
  /\ UNCHANGED <<hardware, cards, applied, change, store, copy, goal, todo, life>>

Probe(t) ==
  /\ Idle(t)
  /\ Take(t)
  /\ ~Pending
  /\ Go(t, "probe")
  /\ \E g \in GPUs : on' = [on EXCEPT ![t] = g] /\ found' = [found EXCEPT ![t] = card[g]]
  /\ UNCHANGED <<cards, applied, change, store, copy, goal, todo, life>>

ProbeWrites(t) ==
  /\ Move(t, "probe", "idle")
  /\ Drop
  /\ card' = [card EXCEPT ![on[t]] = found[t]]
  /\ ForgetClimb(t)
  /\ UNCHANGED <<refused, applied, change, store, copy, todo, life>>

-----------------------------------------------------------------------------
(* apply, and the climb it shares with restore_on_start.                    *)

\* Bound: MaxApplies changes armed in a life.
Apply(t, g, to) ==
  /\ Idle(t)
  /\ Take(t)
  /\ config.consent
  /\ ~Pending
  /\ to # Current(g)
  /\ generation < MaxApplies
  /\ Go(t, "climb")
  /\ on' = [on EXCEPT ![t] = g]
  /\ goal' = [goal EXCEPT ![t] = to]
  /\ found' = [found EXCEPT ![t] = IF g \in refused THEN None ELSE card[g]]
  /\ UNCHANGED <<cards, applied, change, store, copy, todo, life>>

\* A step of the climb, the last of which is the target asked for.
Climb(t) ==
  /\ At(t, "climb")
  /\ \/ Written(on[t], Adrift) /\ UNCHANGED pc
     \/ Written(on[t], goal[t]) /\ Go(t, IF t = Main THEN "restored" ELSE "commit")
  /\ UNCHANGED <<hardware, applied, change, store, locals, life>>

Start(t) == IF t = Main THEN Stock ELSE Current(on[t])

\* A step is refused or does not read back: the start of the climb is
\* written again, and whether that was refused too is not looked at.
ClimbFails(t) ==
  /\ At(t, "climb")
  /\ \/ Written(on[t], Start(t))
     \/ RefusedAt(on[t], {card[on[t]], goal[t], Adrift})
  /\ IF t = Main
     THEN Go(t, "restore") /\ UNCHANGED hardware
     ELSE Go(t, "idle") /\ Drop
  /\ ForgetClimb(t)
  /\ UNCHANGED <<applied, change, store, copy, todo, life>>

\* Mutant: the change is armed in memory and the file is not told.
ArmUnsaved(g, was) ==
  /\ generation' = generation + 1
  /\ pending' = [generation |-> generation + 1, gpu |-> g, found |-> was,
                 revertTo |-> config.targets[g], phase |-> "coherent"]
  /\ Persist(config)

\* The change is recorded, armed, and only then saved.
Arm(g, was) ==
  /\ generation' = generation + 1
  /\ pending' = [generation |-> generation + 1, gpu |-> g, found |-> was,
                 revertTo |-> config.targets[g], phase |-> "coherent"]
  /\ Persist([config EXCEPT !.armed = g])

Commit(t) ==
  /\ Move(t, "commit", "idle")
  /\ applied' = [applied EXCEPT ![on[t]] = goal[t]]
  /\ IF goal[t] = Stock
     THEN /\ Persist([config EXCEPT !.targets[on[t]] = Stock, !.armed = None])
          /\ UNCHANGED change
     ELSE Arm(on[t], found[t])
  /\ Drop
  /\ ForgetClimb(t)
  /\ UNCHANGED <<cards, copy, todo, life>>

-----------------------------------------------------------------------------
(* confirm.                                                                 *)

Keep ==
  /\ pending' = NoChange
  /\ Persist([config EXCEPT !.targets[pending.gpu] = Current(pending.gpu), !.armed = None])

\* Mutant: a change that is being reverted can still be confirmed.
ConfirmAnyPhase(t) ==
  /\ Idle(t)
  /\ Pending
  /\ Keep
  /\ UNCHANGED <<pc, hardware, cards, applied, generation, locals, life>>

Confirm(t) ==
  /\ Idle(t)
  /\ Pending
  /\ pending.phase = "coherent"
  /\ Keep
  /\ UNCHANGED <<pc, hardware, cards, applied, generation, locals, life>>

-----------------------------------------------------------------------------
(* Undoing a change: cancel and the watchdog share revert.                  *)

\* The pending change is read under the lock and reverted after it.
Cancel(t) ==
  /\ Idle(t)
  /\ Pending
  /\ Go(t, "revert")
  /\ copy' = [copy EXCEPT ![t] = pending]
  /\ UNCHANGED <<hardware, cards, applied, change, store, climbs, todo, life>>

\* Mutant: the watchdog tries once.
NoticeOnce ==
  /\ Move(Watchdog, "idle", "revert")
  /\ Serving
  /\ Pending
  /\ pending.phase = "coherent"
  /\ copy' = [copy EXCEPT ![Watchdog] = pending]
  /\ UNCHANGED <<hardware, cards, applied, change, store, climbs, todo, life>>

\* The hold ran out, the card reported a fault, or a failed revert is tried
\* again; time is left out.
Due == Pending /\ pending.phase # "reverting"

Notice ==
  /\ Move(Watchdog, "idle", "revert")
  /\ Serving
  /\ Due
  /\ copy' = [copy EXCEPT ![Watchdog] = pending]
  /\ UNCHANGED <<hardware, cards, applied, change, store, climbs, todo, life>>

ForgetCopy(t) == copy' = [copy EXCEPT ![t] = NoChange]
SameChange(t) == pending.generation = copy[t].generation

\* Mutant: whatever is pending by now is reverted.
RevertAnyChange(t) ==
  /\ At(t, "revert")
  /\ hardware = None
  /\ IF Pending /\ pending.phase # "reverting"
     THEN /\ Take(t)
          /\ Go(t, "undo")
          /\ pending' = [pending EXCEPT !.phase = "reverting"]
          /\ UNCHANGED copy
     ELSE /\ Go(t, "idle") /\ ForgetCopy(t)
          /\ UNCHANGED <<hardware, pending>>
  /\ UNCHANGED <<cards, applied, generation, store, climbs, todo, life>>

\* With the hardware held, the change is looked at again.
Revert(t) ==
  /\ At(t, "revert")
  /\ hardware = None
  /\ IF Pending /\ SameChange(t) /\ pending.phase # "reverting"
     THEN /\ Take(t)
          /\ Go(t, "undo")
          /\ pending' = [pending EXCEPT !.phase = "reverting"]
          /\ UNCHANGED copy
     ELSE /\ Go(t, "idle") /\ ForgetCopy(t)
          /\ UNCHANGED <<hardware, pending>>
  /\ UNCHANGED <<cards, applied, generation, store, climbs, todo, life>>

Undo(t) ==
  /\ Move(t, "undo", "settle")
  /\ Written(copy[t].gpu, copy[t].revertTo) \/ Refused(copy[t].gpu)
  /\ UNCHANGED <<hardware, applied, change, store, locals, life>>

\* The outcome is recorded, if the change it belongs to is still there.
Settle(t) ==
  /\ Move(t, "settle", "idle")
  /\ Drop
  /\ ForgetCopy(t)
  /\ IF ~SameChange(t)
     THEN UNCHANGED <<applied, pending, store>>
     ELSE IF copy[t].gpu \in refused
     THEN /\ pending' = [pending EXCEPT !.phase = "revertFailed"]
          /\ Persist(config)
          /\ UNCHANGED applied
     ELSE /\ pending' = NoChange
          /\ applied' = [applied EXCEPT ![copy[t].gpu] = copy[t].revertTo]
          /\ Persist([config EXCEPT !.armed = None])
  /\ UNCHANGED <<cards, generation, climbs, todo, life>>

-----------------------------------------------------------------------------
(* reset: back to stock, on one card or on all of them.                     *)

Reset(t, ids) ==
  /\ Idle(t)
  /\ Go(t, "reset")
  /\ todo' = [todo EXCEPT ![t] = ids]
  /\ UNCHANGED <<hardware, cards, applied, change, store, copy, climbs, life>>

ResetBegins(t) ==
  /\ Move(t, "reset", "each")
  /\ Take(t)
  /\ UNCHANGED <<cards, applied, change, store, locals, life>>

\* Only a card this daemon has moved is written.
Moved(g) == PendingOn(g) \/ applied[g] \in Offsets

\* Mutant: the pending change outlives the reset of its card.
ClearedKeepsPending(g) ==
  /\ applied' = [applied EXCEPT ![g] = Stock]
  /\ Persist([config EXCEPT !.targets[g] = Stock])
  /\ UNCHANGED pending

\* The card is at stock as far as the daemon knows: so is the user's choice.
Cleared(g) ==
  /\ applied' = [applied EXCEPT ![g] = Stock]
  /\ pending' = IF PendingOn(g) THEN NoChange ELSE pending
  /\ Persist([config EXCEPT !.targets[g] = Stock,
                            !.armed = IF PendingOn(g) THEN None ELSE @])

ResetOne(t, g) ==
  /\ todo' = [todo EXCEPT ![t] = @ \ {g}]
  /\ IF Moved(g)
     THEN /\ Go(t, "putBack")
          /\ on' = [on EXCEPT ![t] = g]
          /\ pending' = IF PendingOn(g) THEN [pending EXCEPT !.phase = "reverting"]
                                        ELSE pending
          /\ UNCHANGED <<applied, store>>
     ELSE Cleared(g) /\ UNCHANGED <<pc, on>>
  /\ UNCHANGED <<hardware, cards, generation, copy, goal, found, life>>

ResetCard(t) == At(t, "each") /\ \E g \in todo[t] : ResetOne(t, g)

\* A card that refuses does not keep the others from being put back.
PutBack(t) ==
  /\ At(t, "putBack")
  /\ \/ /\ Written(on[t], Stock)
        /\ Go(t, "record")
        /\ UNCHANGED <<pending, on>>
     \/ /\ Refused(on[t])
        /\ Go(t, "each")
        /\ on' = [on EXCEPT ![t] = None]
        /\ pending' = IF PendingOn(on[t]) THEN [pending EXCEPT !.phase = "revertFailed"]
                                          ELSE pending
  /\ UNCHANGED <<hardware, applied, generation, store, copy, goal, found, todo, life>>

Record(t) ==
  /\ Move(t, "record", "each")
  /\ Cleared(on[t])
  /\ on' = [on EXCEPT ![t] = None]
  /\ UNCHANGED <<hardware, cards, generation, copy, goal, found, todo, life>>

ResetEnds(t) ==
  /\ Move(t, "each", "idle")
  /\ todo[t] = {}
  /\ Drop
  /\ UNCHANGED <<cards, applied, change, store, locals, life>>

-----------------------------------------------------------------------------
(* Starting, restarting and handing over.                                   *)

\* with_store: the file is read, an armed flag is taken, and the confirmed
\* targets are restored if everything says so, before anyone is served.
Load ==
  /\ At(Main, "load")
  /\ config' = [disk EXCEPT !.armed = None]
  /\ unconfirmed' = (disk.armed # None)
  /\ LET wanted == {g \in GPUs : disk.targets[g] # Stock}
     IN  IF disk.restore /\ wanted # {} /\ disk.armed = None /\ disk.consent
         THEN Go(Main, "restore") /\ todo' = [todo EXCEPT ![Main] = wanted]
         ELSE Go(Main, "serving") /\ UNCHANGED todo
  /\ UNCHANGED <<hardware, cards, applied, change, disk, saved, copy, climbs, interrupted, restarts>>

RestoreNext ==
  /\ At(Main, "restore")
  /\ IF todo[Main] = {}
     THEN Go(Main, "serving") /\ UNCHANGED <<todo, on, goal>>
     ELSE \E g \in todo[Main] :
            /\ Go(Main, "climb")
            /\ todo' = [todo EXCEPT ![Main] = @ \ {g}]
            /\ on' = [on EXCEPT ![Main] = g]
            /\ goal' = [goal EXCEPT ![Main] = config.targets[g]]
  /\ UNCHANGED <<hardware, cards, applied, change, store, copy, found, life>>

Restored ==
  /\ Move(Main, "restored", "restore")
  /\ applied' = [applied EXCEPT ![on[Main]] = goal[Main]]
  /\ ForgetClimb(Main)
  /\ UNCHANGED <<hardware, cards, change, store, copy, todo, life>>

\* on_handover: every moved card to stock, nothing of it written down.
HandOver ==
  /\ Move(Main, "serving", "handOver")
  /\ Take(Main)
  /\ todo' = [todo EXCEPT ![Main] = GPUs]
  /\ UNCHANGED <<cards, applied, change, store, copy, climbs, life>>

HandOverCard ==
  /\ At(Main, "handOver")
  /\ IF todo[Main] = {}
     THEN Go(Main, "leaving") /\ Drop /\ UNCHANGED <<todo, on>>
     ELSE \E g \in todo[Main] :
            /\ todo' = [todo EXCEPT ![Main] = @ \ {g}]
            /\ IF Moved(g)
               THEN Go(Main, "stow") /\ on' = [on EXCEPT ![Main] = g]
               ELSE UNCHANGED <<pc, on>>
            /\ UNCHANGED hardware
  /\ UNCHANGED <<cards, applied, change, store, copy, goal, found, life>>

Stow ==
  /\ At(Main, "stow")
  /\ \/ Written(on[Main], Stock) /\ Go(Main, "stowed") /\ UNCHANGED on
     \/ Refused(on[Main]) /\ Go(Main, "handOver") /\ on' = [on EXCEPT ![Main] = None]
  /\ UNCHANGED <<hardware, applied, change, store, copy, goal, found, todo, life>>

Stowed ==
  /\ Move(Main, "stowed", "handOver")
  /\ applied' = [applied EXCEPT ![on[Main]] = Stock]
  /\ on' = [on EXCEPT ![Main] = None]
  /\ UNCHANGED <<hardware, cards, change, store, copy, goal, found, todo, life>>

\* The process ends: a hand-over's exec, a stop, a crash, or the machine
\* hanging.  A card keeps what it was told unless the machine went down too.
Restart ==
  /\ restarts < MaxRestarts
  /\ restarts' = restarts + 1
  /\ pc' = Fresh
  /\ hardware' = None
  /\ refused' = {}
  /\ card' \in {card, [g \in GPUs |-> Stock]}
  /\ applied' = [g \in GPUs |-> Unmoved]
  /\ pending' = NoChange
  /\ generation' = 0
  /\ saved' = TRUE
  /\ unconfirmed' = FALSE
  /\ interrupted' = (Pending \/ \E t \in Clients : pc[t] \in ClimbLabels)
  /\ copy' = [t \in Threads |-> NoChange]
  /\ on' = [t \in Threads |-> None]
  /\ goal' = [t \in Threads |-> Stock]
  /\ found' = [t \in Threads |-> None]
  /\ todo' = [t \in Threads |-> {}]
  /\ config' = Defaults
  /\ UNCHANGED disk

-----------------------------------------------------------------------------

\* What a thread goes on doing once it has begun.
Carry(t) ==
  \/ ProbeWrites(t)
  \/ Climb(t) \/ ClimbFails(t) \/ Commit(t)
  \/ Revert(t) \/ Undo(t) \/ Settle(t)
  \/ ResetBegins(t) \/ ResetCard(t) \/ PutBack(t) \/ Record(t) \/ ResetEnds(t)

Client(t) ==
  \/ Consent(t) \/ Withdraw(t) \/ SetRestoreOnStart(t) \/ Probe(t)
  \/ \E g \in GPUs, to \in Targets : Apply(t, g, to)
  \/ Confirm(t) \/ Cancel(t)
  \/ Reset(t, GPUs) \/ \E g \in GPUs : Reset(t, {g})

Boot == Load \/ RestoreNext \/ Restored
Leaving == HandOver \/ HandOverCard \/ Stow \/ Stowed

Step ==
  \/ \E t \in Threads : Carry(t)
  \/ \E t \in Clients : Client(t)
  \/ Notice
  \/ Boot
  \/ Leaving

Next == Step \/ Restart

\* Every operation that has begun goes on, a climb comes to its end one way
\* or the other, and the watchdog's time comes.
Fairness ==
  /\ \A t \in Threads : WF_vars(Carry(t))
  /\ \A t \in Threads : WF_vars(At(t, "climb") /\ Carry(t) /\ pc' # pc)
  /\ WF_vars(Boot) /\ WF_vars(HandOverCard \/ Stow \/ Stowed)
  /\ WF_vars(Notice)

Spec == Init /\ [][Next]_vars /\ Fairness

-----------------------------------------------------------------------------
(* Properties.                                                              *)

\* While nobody is writing, a card the daemon believes it has moved is at the
\* target it believes, unless its last write was refused: no operation's
\* record is left out of step with its writes by another operation.
CardKnown ==
  hardware = None =>
    \A g \in GPUs \ refused : applied[g] \in Offsets => card[g] = applied[g]

\* A change waiting to be confirmed is on disk as such, so that a machine
\* that hangs on it is recognised when it comes back (unless the file could
\* not be written).
ArmedWhilePending == Pending /\ saved => disk.armed = pending.gpu

\* What a pending change goes back to stays the last target a human
\* confirmed, whatever was confirmed, reset or cancelled meanwhile.
RevertToConfirmed == Pending => pending.revertTo = config.targets[pending.gpu]

\* A target is recorded as confirmed only while it is on the card (until the
\* daemon hands over).
ConfirmedOnCard ==
  \A g \in GPUs :
    /\ pc[Main] = "serving"
    /\ config'.targets[g] # config.targets[g]
    /\ config'.targets[g] # Stock
    => card[g] = config'.targets[g] /\ g \notin refused

ConfirmsWhatRuns == [][ConfirmedOnCard]_vars

\* Why these are inductive.  Each thread stays among the labels of its own
\* code, is busy with a card where it needs one, and goes on to revert a
\* change there was.
CardLabels == {"climb", "commit", "probe", "putBack", "record", "restored", "stow", "stowed"}

IsChange(c) == c.gpu \in GPUs /\ c.generation \in 1..generation

Places ==
  /\ \A t \in Clients :
       pc[t] \in {"idle"} \cup ClimbLabels \cup RevertLabels \cup ResetLabels \cup ProbeLabels
  /\ pc[Watchdog] \in {"idle"} \cup RevertLabels
  /\ pc[Main] \in MainLabels \cup {"climb"}
  /\ \A t \in Threads : pc[t] \in CardLabels => on[t] \in GPUs
  /\ \A t \in Threads : pc[t] = "probe" => found[t] \in Contents
  /\ \A t \in Threads : pc[t] \in RevertLabels => IsChange(copy[t])
  /\ Pending => IsChange(pending)

\* A thread between its first and its last write holds the hardware; while
\* the daemon starts there is nobody else and nothing pending.
Holds(t) ==
  \/ pc[t] \in {"commit", "probe", "undo", "settle", "each", "putBack", "record",
                "handOver", "stow", "stowed"}
  \/ pc[t] = "climb" /\ t # Main

Exclusion ==
  /\ \A t \in Threads : Holds(t) => hardware = t
  /\ ~Serving => ~Pending /\ \A t \in Threads \ {Main} : pc[t] = "idle"

\* Nothing is pending under a climb or a probe; a change has one generation,
\* one being undone is still the pending one, and one whose card is being put
\* back can no longer be confirmed.
Identity ==
  /\ \A t \in Clients : pc[t] \in ClimbLabels \cup ProbeLabels => ~Pending
  /\ \A t \in Threads : pc[t] \in RevertLabels /\ SameChange(t) =>
       copy[t].gpu = pending.gpu /\ copy[t].revertTo = pending.revertTo
  /\ \A t \in Threads : pc[t] \in {"undo", "settle"} =>
       SameChange(t) /\ pending.phase = "reverting"
  /\ \A t \in Threads : pc[t] \in {"putBack", "record"} /\ PendingOn(on[t]) =>
       pending.phase # "coherent"

\* What is on disk is what is in memory, once something was saved.
Armed ==
  Pending => config.armed = pending.gpu /\ (saved => disk = config)

\* What a thread that has just written a card knows is on it; of the others,
\* and of a change that can be confirmed, the record is right.
Wrote(t, g) ==
  \/ pc[t] \in {"climb", "commit", "record", "stowed"} /\ t # Main /\ on[t] = g
  \/ pc[t] = "stowed" /\ on[t] = g
  \/ pc[t] = "settle" /\ copy[t].gpu = g

Writes ==
  \A t \in Threads :
    /\ pc[t] \in {"commit", "restored"} => on[t] \notin refused /\ card[on[t]] = goal[t]
    /\ pc[t] \in {"record", "stowed"} => on[t] \notin refused /\ card[on[t]] = Stock
    /\ pc[t] = "probe" => card[on[t]] = found[t]
    /\ pc[t] = "settle" /\ copy[t].gpu \notin refused => card[copy[t].gpu] = copy[t].revertTo

Known ==
  \A g \in GPUs \ refused :
    applied[g] \in Offsets => card[g] = applied[g] \/ \E t \in Threads : Wrote(t, g)

Unstarted ==
  /\ pc[Main] = "load" => \A g \in GPUs : applied[g] = Unmoved
  /\ pc[Main] \in {"climb", "restored"} => applied[on[Main]] = Unmoved /\ on[Main] \notin todo[Main]
  /\ ~Serving => \A g \in todo[Main] : applied[g] = Unmoved

Confirmable ==
  Pending /\ pending.phase = "coherent" /\ pc[Main] = "serving" =>
    /\ applied[pending.gpu] \in Offsets
    /\ pending.gpu \notin refused
    /\ card[pending.gpu] = applied[pending.gpu]

IInv ==
  /\ TypeOK /\ Places /\ Exclusion /\ Identity
  /\ Armed /\ RevertToConfirmed
  /\ Writes /\ Known /\ Unstarted /\ Confirmable

\* Undoing a change made on a card at stock, after the timer or after a climb
\* that failed, leaves the card at stock.
UndoPutsBack ==
  [][\A t \in Threads :
       /\ pc[t] = "undo" /\ pc'[t] = "settle"
       /\ copy[t].found = Stock
       /\ copy[t].gpu \notin refused'
       => card'[copy[t].gpu] = Stock]_vars

\* Nothing stays applied because a user stopped answering: a change comes to
\* be confirmed, reverted or reset, unless its card refuses every attempt, and
\* then the attempts never stop.
UndoneUnlessRefused ==
  \A n \in 1..MaxApplies :
    LET Waits == pending.generation = n
        RefusedAgain ==
          /\ Waits
          /\ pending.gpu \in refused'
          /\ \E t \in Threads : pc[t] \in {"undo", "putBack"} /\ pc'[t] # pc[t]
    IN  (Waits ~> ~Waits) \/ []<><<RefusedAgain>>_vars

\* "Whatever is on the cards goes back to stock": when a reset has ended,
\* every card is at stock unless it refused to be put back.
ResetMeansStock ==
  [][\A t \in Clients :
       /\ pc[t] = "each" /\ pc'[t] = "idle"
       /\ restarts' = restarts
       => \A g \in GPUs \ refused : card[g] = Stock]_vars

\* A start after an apply that was never confirmed restores nothing.
NothingRestoredInDoubt ==
  interrupted => pc[Main] \notin {"restore", "climb", "restored"}

=============================================================================
