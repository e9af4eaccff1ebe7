-------------------------- MODULE Overclock_proofs --------------------------
(***************************************************************************)
(* What holds of Overclock for any number of clients, cards, targets,       *)
(* changes and restarts, whichever writes and saves are refused.            *)
(***************************************************************************)
EXTENDS Overclock, TLAPS

-----------------------------------------------------------------------------
(* Types, and the labels of each thread's own code.                         *)

\* A card's current target is a whole target, written or confirmed.
LEMMA TargetsReached ==
  ASSUME TypeOK, NEW g \in GPUs
  PROVE  Current(g) \in Targets
BY DEF TypeOK, Current, Configs

\* Stock is a target, and a target is something a card can be at.
LEMMA StockTypeOK ==
  /\ Stock \in Targets /\ Stock \in Contents /\ Adrift \in Contents
  /\ Targets \subseteq Contents
BY DEF Targets, Contents

\* The absence of a change has the type of one.
LEMMA NoChangeTypeOK == NoChange \in Changes
BY DEF NoChange, Changes, Targets, Phases

\* A change keeps its type whatever phase it is in.
LEMMA PhaseTypeOK ==
  ASSUME NEW c \in Changes, NEW p \in Phases
  PROVE  /\ [c EXCEPT !.phase = p] \in Changes
         /\ [c EXCEPT !.phase = p].gpu = c.gpu
         /\ [c EXCEPT !.phase = p].generation = c.generation
         /\ [c EXCEPT !.phase = p].revertTo = c.revertTo
         /\ [c EXCEPT !.phase = p].phase = p
BY DEF Changes

\* A pending change that only changes phase is the same change.
LEMMA PhaseMove ==
  ASSUME NEW c \in Changes, NEW d, NEW p \in Phases, d = [c EXCEPT !.phase = p]
  PROVE  d.gpu = c.gpu /\ d.generation = c.generation /\ d.revertTo = c.revertTo /\ d.phase = p
BY PhaseTypeOK

\* The absence of a change is on no card and has no generation.
LEMMA NoChangeFields == NoChange.generation = 0 /\ NoChange.gpu = None /\ NoChange.phase = "coherent"
BY DEF NoChange

\* The edits the code makes to its configuration.
LEMMA ConfigTypeOK ==
  ASSUME NEW c \in Configs, NEW b \in BOOLEAN, NEW g \in GPUs, NEW to \in Targets,
         NEW a \in GPUs \cup {None}
  PROVE  /\ [c EXCEPT !.consent = b] \in Configs
         /\ [c EXCEPT !.restore = b] \in Configs
         /\ [c EXCEPT !.armed = a] \in Configs
         /\ [c EXCEPT !.targets[g] = to, !.armed = a] \in Configs
BY DEF Configs

\* An edit of one field leaves the others.
LEMMA ConfigFields ==
  ASSUME NEW c \in Configs, NEW b \in BOOLEAN, NEW g \in GPUs, NEW to \in Targets,
         NEW a \in GPUs \cup {None}
  PROVE  /\ [c EXCEPT !.consent = b].armed = c.armed
         /\ [c EXCEPT !.consent = b].targets = c.targets
         /\ [c EXCEPT !.restore = b].armed = c.armed
         /\ [c EXCEPT !.restore = b].targets = c.targets
         /\ [c EXCEPT !.armed = a].armed = a
         /\ [c EXCEPT !.armed = a].targets = c.targets
         /\ [c EXCEPT !.targets[g] = to, !.armed = a].armed = a
         /\ [c EXCEPT !.targets[g] = to, !.armed = a].targets = [c.targets EXCEPT ![g] = to]
BY DEF Configs

\* What is saved is what memory holds; a failed save leaves the file.
LEMMA PersistTypeOK ==
  ASSUME TypeOK, NEW c \in Configs, Persist(c)
  PROVE  /\ config' = c /\ config' \in Configs
         /\ disk' \in Configs
         /\ saved' \in BOOLEAN
         /\ saved' => disk' = config'
BY DEF TypeOK, Persist

\* A whole write keeps the types of the cards.
LEMMA WrittenTypeOK ==
  ASSUME TypeOK, NEW g \in GPUs, NEW to \in Contents, Written(g, to)
  PROVE  card' \in [GPUs -> Contents] /\ refused' \subseteq GPUs
BY DEF TypeOK, Written

\* A refused write keeps the types of the cards.
LEMMA RefusedTypeOK ==
  ASSUME TypeOK, NEW g \in GPUs, NEW left \in SUBSET Contents, RefusedAt(g, left)
  PROVE  card' \in [GPUs -> Contents] /\ refused' \subseteq GPUs
BY DEF TypeOK, RefusedAt

\* A refused write leaves the other cards as they are.
LEMMA RefusedHere ==
  ASSUME TypeOK, NEW g \in GPUs, Refused(g)
  PROVE  /\ card' \in [GPUs -> Contents] /\ refused' = refused \cup {g}
         /\ \A h \in GPUs \ {g} : card'[h] = card[h]
BY StockTypeOK DEF TypeOK, Refused, RefusedAt

\* A card cleared takes its pending change with it, and leaves another's alone.
LEMMA ClearedChange ==
  ASSUME TypeOK, NEW g \in GPUs, Cleared(g)
  PROVE  \/ pending' = NoChange
         \/ /\ pending' = pending /\ pending.gpu # g
            /\ config'.armed = config.armed
            /\ \A h \in GPUs \ {g} : config'.targets[h] = config.targets[h]
            /\ saved' => disk' = config'
<1>1. CASE PendingOn(g)
  BY <1>1 DEF Cleared
<1>2. CASE ~PendingOn(g)
  <2>1. Persist([config EXCEPT !.targets[g] = Stock, !.armed = config.armed])
    BY <1>2 DEF Cleared
  <2>2. config \in Configs /\ config.armed \in GPUs \cup {None} /\ config.targets \in [GPUs -> Targets]
    BY DEF TypeOK, Configs
  <2>3. [config EXCEPT !.targets[g] = Stock, !.armed = config.armed] \in Configs
    BY <2>2, StockTypeOK, ConfigTypeOK
  <2>4. PICK c \in Configs : c = [config EXCEPT !.targets[g] = Stock, !.armed = config.armed]
    BY <2>3
  <2>5. c.armed = config.armed /\ c.targets = [config.targets EXCEPT ![g] = Stock]
    BY <2>2, <2>4, StockTypeOK, ConfigFields
  <2>6. config' = c /\ (saved' => disk' = config')
    BY <2>1, <2>4 DEF Persist
  <2>7. QED
    BY <1>2, <2>2, <2>5, <2>6 DEF Cleared, PendingOn
<1>3. QED
  BY <1>1, <1>2

\* Clearing a card keeps the types.
LEMMA ClearedTypeOK ==
  ASSUME TypeOK, NEW g \in GPUs, Cleared(g)
  PROVE  /\ applied' \in [GPUs -> Targets \cup {Unmoved}]
         /\ pending' \in Changes /\ pending' \in {pending, NoChange}
         /\ config' \in Configs /\ disk' \in Configs /\ saved' \in BOOLEAN
<1>1. config \in Configs /\ config.armed \in GPUs \cup {None}
  BY DEF TypeOK, Configs
<1>2. \A a \in GPUs \cup {None} : [config EXCEPT !.targets[g] = Stock, !.armed = a] \in Configs
  BY <1>1, StockTypeOK, ConfigTypeOK
<1>3. [config EXCEPT !.targets[g] = Stock, !.armed = IF PendingOn(g) THEN None ELSE @] \in Configs
  BY <1>1, StockTypeOK DEF Configs
<1>4. QED
  BY <1>3, StockTypeOK, NoChangeTypeOK, PersistTypeOK DEF Cleared, TypeOK

\* Every step keeps the types, and every thread in its own code.
LEMMA StepTypeOK ==
  TypeOK /\ Places /\ [Next]_vars
  => TypeOK' /\ Places'
<1> SUFFICES ASSUME TypeOK, Places, [Next]_vars
             PROVE  TypeOK' /\ Places'
  OBVIOUS
<1> USE ThreadsAssumption, CardsAssumption
<1> USE DEF TypeOK, Places, Pending, IsChange, Go, At, Move, Threads, Take, Drop, Idle, Labels,
            ClimbLabels, RevertLabels, ResetLabels, ProbeLabels, MainLabels, CardLabels, ForgetClimb,
            ForgetCopy, vars, cards, store, change, climbs, locals, life
<1>1. ASSUME NEW t \in Threads, Carry(t) PROVE TypeOK' /\ Places'
  <2>1. CASE ProbeWrites(t)
    BY <2>1, StockTypeOK DEF ProbeWrites
  <2>2. CASE Climb(t)
    BY <2>2, WrittenTypeOK DEF Climb, Contents, Written
  <2>3. CASE ClimbFails(t)
    BY <2>3, TargetsReached DEF ClimbFails, Contents, Written, RefusedAt, Start, Targets
  <2>4. CASE Commit(t)
    <3>1. on[t] \in GPUs /\ config \in Configs /\ found[t] \in Contents \cup {None}
      BY <2>4 DEF Commit
    <3>2. config.targets[on[t]] \in Targets
      BY <3>1 DEF Configs
    <3>3. /\ [config EXCEPT !.targets[on[t]] = Stock, !.armed = None] \in Configs
          /\ [config EXCEPT !.armed = on[t]] \in Configs
      BY <3>1, ConfigTypeOK, StockTypeOK
    <3>4. generation + 1 \in Nat /\ generation + 1 # 0
      BY DEF TypeOK
    <3>5. [generation |-> generation + 1, gpu |-> on[t], found |-> found[t],
            revertTo |-> config.targets[on[t]], phase |-> "coherent"] \in Changes
      BY <3>1, <3>2, <3>4 DEF Changes, Phases
    <3>6. generation' \in Nat /\ generation' >= generation /\ pending' \in Changes /\ (Pending' => IsChange(pending)')
      BY <2>4, <3>1, <3>4, <3>5 DEF Commit, Arm
    <3>7. config' \in Configs /\ disk' \in Configs /\ saved' \in BOOLEAN
      BY <2>4, <3>3, PersistTypeOK DEF Commit, Arm
    <3>8. QED
      BY <2>4, <3>6, <3>7, StockTypeOK DEF Commit
  <2>5. CASE Revert(t)
    <3>1. [pending EXCEPT !.phase = "reverting"] \in Changes
      BY PhaseTypeOK DEF Phases
    <3>2. /\ [pending EXCEPT !.phase = "reverting"].gpu = pending.gpu
          /\ [pending EXCEPT !.phase = "reverting"].generation = pending.generation
      BY PhaseTypeOK DEF Phases
    <3>3. CASE Pending /\ SameChange(t) /\ pending.phase # "reverting"
      <4>1. pending' \in Changes /\ IsChange(pending)'
        BY <2>5, <3>1, <3>2, <3>3 DEF Revert
      <4>2. QED
        BY <2>5, <3>3, <4>1 DEF Revert
    <3>4. CASE ~(Pending /\ SameChange(t) /\ pending.phase # "reverting")
      BY <2>5, <3>4, NoChangeTypeOK DEF Revert
    <3>5. QED
      BY <3>3, <3>4
  <2>6. CASE Undo(t)
    <3>1. copy[t].gpu \in GPUs /\ copy[t].revertTo \in Contents
      BY <2>6, StockTypeOK DEF Undo, Changes
    <3>2. card' \in [GPUs -> Contents] /\ refused' \subseteq GPUs
      BY <2>6, <3>1, WrittenTypeOK, RefusedHere DEF Undo
    <3>3. QED
      BY <2>6, <3>2 DEF Undo
  <2>7. CASE Settle(t)
    <3>1. copy[t].gpu \in GPUs /\ copy[t].revertTo \in Targets
      BY <2>7 DEF Settle, Changes
    <3>2. [pending EXCEPT !.phase = "revertFailed"] \in Changes
      BY PhaseTypeOK DEF Phases
    <3>3. /\ [pending EXCEPT !.phase = "revertFailed"].gpu = pending.gpu
          /\ [pending EXCEPT !.phase = "revertFailed"].generation = pending.generation
      BY PhaseTypeOK DEF Phases
    <3>4. [config EXCEPT !.armed = None] \in Configs
      BY ConfigTypeOK DEF Configs
    <3>5. config' \in Configs /\ disk' \in Configs /\ saved' \in BOOLEAN
      BY <2>7, <3>4, PersistTypeOK DEF Settle, store
    <3>6. pending' \in Changes /\ (Pending' => IsChange(pending)')
      <4>1. CASE ~SameChange(t)
        BY <2>7, <4>1 DEF Settle
      <4>2. CASE SameChange(t) /\ copy[t].gpu \in refused
        <5>1. pending.generation # 0 /\ Pending
          BY <2>7, <4>2 DEF Settle, SameChange, NoChange
        <5>2. QED
          BY <2>7, <3>2, <3>3, <4>2, <5>1 DEF Settle
      <4>3. CASE SameChange(t) /\ copy[t].gpu \notin refused
        BY <2>7, <4>3, NoChangeTypeOK DEF Settle
      <4>4. QED
        BY <4>1, <4>2, <4>3
    <3>7. applied' \in [GPUs -> Targets \cup {Unmoved}]
      BY <2>7, <3>1 DEF Settle
    <3>8. QED
      BY <2>7, <3>5, <3>6, <3>7, NoChangeTypeOK DEF Settle
  <2>8. CASE ResetBegins(t)
    BY <2>8 DEF ResetBegins
  <2>9. CASE ResetCard(t)
    <3>1. PICK g \in todo[t] : ResetOne(t, g)
      BY <2>9 DEF ResetCard
    <3>2. g \in GPUs
      OBVIOUS
    <3>3. [pending EXCEPT !.phase = "reverting"] \in Changes
      BY PhaseTypeOK DEF Phases
    <3>4. /\ [pending EXCEPT !.phase = "reverting"].gpu = pending.gpu
          /\ [pending EXCEPT !.phase = "reverting"].generation = pending.generation
      BY PhaseTypeOK DEF Phases
    <3>5. CASE Moved(g)
      <4>1. IsChange(pending) => IsChange(pending)'
        BY <3>1, <3>3, <3>4, <3>5 DEF ResetOne
      <4>2. PendingOn(g) => Pending
        BY <3>2, CardsAssumption DEF PendingOn, NoChange
      <4>3. QED
        BY <2>9, <3>1, <3>2, <3>3, <3>5, <4>1, <4>2 DEF ResetCard, ResetOne
    <3>6. CASE ~Moved(g)
      BY <2>9, <3>1, <3>2, <3>6, ClearedTypeOK DEF ResetCard, ResetOne
    <3>7. QED
      BY <3>5, <3>6
  <2>10. CASE PutBack(t)
    <3>1. on[t] \in GPUs
      BY <2>10 DEF PutBack
    <3>2. [pending EXCEPT !.phase = "revertFailed"] \in Changes
      BY PhaseTypeOK DEF Phases
    <3>3. /\ [pending EXCEPT !.phase = "revertFailed"].gpu = pending.gpu
          /\ [pending EXCEPT !.phase = "revertFailed"].generation = pending.generation
      BY PhaseTypeOK DEF Phases
    <3>4. card' \in [GPUs -> Contents] /\ refused' \subseteq GPUs
      BY <2>10, <3>1, StockTypeOK, WrittenTypeOK, RefusedHere DEF PutBack
    <3>5. PendingOn(on[t]) => Pending
      BY <3>1, CardsAssumption DEF PendingOn, NoChange
    <3>6. pending' \in Changes /\ (Pending' => IsChange(pending)')
      BY <2>10, <3>2, <3>3, <3>5 DEF PutBack
    <3>7. QED
      BY <2>10, <3>4, <3>6 DEF PutBack
  <2>11. CASE Record(t)
    BY <2>11, ClearedTypeOK DEF Record
  <2>12. CASE ResetEnds(t)
    BY <2>12 DEF ResetEnds
  <2>13. QED
    BY <1>1, <2>1, <2>2, <2>3, <2>4, <2>5, <2>6, <2>7, <2>8, <2>9, <2>10, <2>11, <2>12 DEF Carry
<1>2. ASSUME NEW t \in Clients, Client(t) PROVE TypeOK' /\ Places'
  <2>1. CASE Consent(t)
    <3>1. [config EXCEPT !.consent = TRUE] \in Configs
      BY <2>1 DEF Configs
    <3>2. QED
      BY <2>1, <3>1, PersistTypeOK DEF Consent
  <2>2. CASE Withdraw(t)
    <3>1. [config EXCEPT !.consent = FALSE] \in Configs
      BY <2>2 DEF Configs
    <3>2. QED
      BY <2>2, <3>1, PersistTypeOK DEF Withdraw
  <2>3. CASE SetRestoreOnStart(t)
    <3>1. \A enabled \in BOOLEAN : [config EXCEPT !.restore = enabled] \in Configs
      BY <2>3 DEF Configs
    <3>2. QED
      BY <2>3, <3>1, PersistTypeOK DEF SetRestoreOnStart
  <2>4. CASE Probe(t)
    BY <2>4 DEF Probe
  <2>5. ASSUME NEW g \in GPUs, NEW to \in Targets, Apply(t, g, to) PROVE TypeOK' /\ Places'
    BY <2>5 DEF Apply
  <2>6. CASE Confirm(t)
    <3>1. pending.gpu \in GPUs
      BY <2>6 DEF Confirm
    <3>2. [config EXCEPT !.targets[pending.gpu] = Current(pending.gpu), !.armed = None] \in Configs
      BY <3>1, TargetsReached, ConfigTypeOK
    <3>3. QED
      BY <2>6, <3>2, PersistTypeOK, NoChangeTypeOK DEF Confirm, Keep
  <2>7. CASE Cancel(t)
    BY <2>7 DEF Cancel
  <2>8. ASSUME NEW ids \in SUBSET GPUs, Reset(t, ids) PROVE TypeOK' /\ Places'
    BY <2>8 DEF Reset
  <2>9. CASE Reset(t, GPUs)
    BY <2>8, <2>9
  <2>10. ASSUME NEW g \in GPUs, Reset(t, {g}) PROVE TypeOK' /\ Places'
    BY <2>8, <2>10
  <2>11. QED
    BY <1>2, <2>1, <2>2, <2>3, <2>4, <2>5, <2>6, <2>7, <2>8, <2>9, <2>10 DEF Client
<1>3. CASE Notice
  BY <1>3 DEF Notice, Due
<1>4. CASE Load
  <2>1. [disk EXCEPT !.armed = None] \in Configs
    BY ConfigTypeOK DEF Configs
  <2>2. QED
    BY <1>4, <2>1 DEF Load
<1>5. CASE RestoreNext
  <2>1. \A g \in GPUs : config.targets[g] \in Targets
    BY DEF Configs
  <2>2. QED
    BY <1>5, <2>1 DEF RestoreNext
<1>6. CASE Restored
  BY <1>6, StockTypeOK DEF Restored
<1>7. CASE HandOver
  BY <1>7 DEF HandOver
<1>8. CASE HandOverCard
  BY <1>8 DEF HandOverCard
<1>9. CASE Stow
  <2>1. on[Main] \in GPUs
    BY <1>9 DEF Stow
  <2>2. card' \in [GPUs -> Contents] /\ refused' \subseteq GPUs
    BY <1>9, <2>1, StockTypeOK, WrittenTypeOK, RefusedHere DEF Stow
  <2>3. QED
    BY <1>9, <2>2 DEF Stow
<1>10. CASE Stowed
  BY <1>10, StockTypeOK DEF Stowed
<1>11. CASE Restart
  <2>1. card' \in [GPUs -> Contents]
    BY <1>11, StockTypeOK DEF Restart
  <2>2. Fresh \in [Threads -> Labels] /\ Defaults \in Configs
    BY StockTypeOK DEF Fresh, Defaults, Configs
  <2>3. restarts' \in 0..MaxRestarts
    BY <1>11, BoundsAssumption DEF Restart
  <2>4. QED
    BY <1>11, <2>1, <2>2, <2>3, StockTypeOK, NoChangeTypeOK DEF Restart, Fresh
<1>12. CASE UNCHANGED vars
  BY <1>12
<1>13. QED
  BY <1>1, <1>2, <1>3, <1>4, <1>5, <1>6, <1>7, <1>8, <1>9, <1>10, <1>11, <1>12 DEF Next, Step, Boot, Leaving

-----------------------------------------------------------------------------
(* Who holds the hardware, and which change a thread undoes.                *)

\* Only a thread that took the hardware writes a card, and nothing is pending
\* before the daemon serves.
LEMMA StepExclusion ==
  TypeOK /\ Places /\ Exclusion /\ [Next]_vars
  => Exclusion'
<1> SUFFICES ASSUME TypeOK, Places, Exclusion, [Next]_vars
             PROVE  Exclusion'
  OBVIOUS
<1> USE ThreadsAssumption, CardsAssumption
<1> USE DEF TypeOK, Places, Exclusion, Holds, Serving, Pending, SameChange, Go, At, Move, Threads, Take,
            Drop, Idle, ClimbLabels, RevertLabels, ResetLabels, ProbeLabels, MainLabels, CardLabels,
            ForgetClimb, ForgetCopy, vars, cards, store, change, climbs, locals, life
<1>1. ASSUME NEW t \in Threads, Carry(t) PROVE Exclusion'
  <2>1. CASE ProbeWrites(t)
    BY <2>1 DEF ProbeWrites
  <2>2. CASE Climb(t)
    BY <2>2 DEF Climb
  <2>3. CASE ClimbFails(t)
    BY <2>3 DEF ClimbFails
  <2>4. CASE Commit(t)
    BY <2>4 DEF Commit, Arm
  <2>5. CASE Revert(t)
    BY <2>5 DEF Revert
  <2>6. CASE Undo(t)
    BY <2>6 DEF Undo
  <2>7. CASE Settle(t)
    BY <2>7 DEF Settle
  <2>8. CASE ResetBegins(t)
    BY <2>8 DEF ResetBegins
  <2>9. CASE ResetCard(t)
    BY <2>9 DEF ResetCard, ResetOne, Cleared
  <2>10. CASE PutBack(t)
    BY <2>10 DEF PutBack
  <2>11. CASE Record(t)
    BY <2>11 DEF Record, Cleared
  <2>12. CASE ResetEnds(t)
    BY <2>12 DEF ResetEnds
  <2>13. QED
    BY <1>1, <2>1, <2>2, <2>3, <2>4, <2>5, <2>6, <2>7, <2>8, <2>9, <2>10, <2>11, <2>12 DEF Carry
<1>2. ASSUME NEW t \in Clients, Client(t) PROVE Exclusion'
  <2>1. CASE Consent(t)
    BY <2>1 DEF Consent
  <2>2. CASE Withdraw(t)
    BY <2>2 DEF Withdraw
  <2>3. CASE SetRestoreOnStart(t)
    BY <2>3 DEF SetRestoreOnStart
  <2>4. CASE Probe(t)
    BY <2>4 DEF Probe
  <2>5. ASSUME NEW g \in GPUs, NEW to \in Targets, Apply(t, g, to) PROVE Exclusion'
    BY <2>5 DEF Apply
  <2>6. CASE Confirm(t)
    BY <2>6 DEF Confirm, Keep
  <2>7. CASE Cancel(t)
    BY <2>7 DEF Cancel
  <2>8. ASSUME NEW ids \in SUBSET GPUs, Reset(t, ids) PROVE Exclusion'
    BY <2>8 DEF Reset
  <2>9. CASE Reset(t, GPUs)
    BY <2>8, <2>9
  <2>10. ASSUME NEW g \in GPUs, Reset(t, {g}) PROVE Exclusion'
    BY <2>8, <2>10
  <2>11. QED
    BY <1>2, <2>1, <2>2, <2>3, <2>4, <2>5, <2>6, <2>7, <2>8, <2>9, <2>10 DEF Client
<1>3. CASE Notice
  BY <1>3 DEF Notice, Due
<1>4. CASE Load
  BY <1>4 DEF Load
<1>5. CASE RestoreNext
  BY <1>5 DEF RestoreNext
<1>6. CASE Restored
  BY <1>6 DEF Restored
<1>7. CASE HandOver
  BY <1>7 DEF HandOver
<1>8. CASE HandOverCard
  BY <1>8 DEF HandOverCard
<1>9. CASE Stow
  BY <1>9 DEF Stow
<1>10. CASE Stowed
  BY <1>10 DEF Stowed
<1>11. CASE Restart
  BY <1>11 DEF Restart, Fresh
<1>12. CASE UNCHANGED vars
  BY <1>12
<1>13. QED
  BY <1>1, <1>2, <1>3, <1>4, <1>5, <1>6, <1>7, <1>8, <1>9, <1>10, <1>11, <1>12 DEF Next, Step, Boot, Leaving

\* A change being undone stays the pending one until its outcome is recorded.
LEMMA StepIdentity ==
  TypeOK /\ Places /\ Exclusion /\ Identity /\ [Next]_vars
  => Identity'
<1> SUFFICES ASSUME TypeOK, Places, Exclusion, Identity, [Next]_vars
             PROVE  Identity'
  OBVIOUS
<1> USE ThreadsAssumption, CardsAssumption
<1> USE DEF TypeOK, Places, Exclusion, Identity, Holds, Serving, Pending, SameChange, Go, At, Move, Threads, Take,
            Drop, Idle, ClimbLabels, RevertLabels, ResetLabels, ProbeLabels, MainLabels, CardLabels,
            ForgetClimb, ForgetCopy, vars, cards, store, change, climbs, locals, life, IsChange, PendingOn
<1>1. ASSUME NEW t \in Threads, Carry(t) PROVE Identity'
  <2>1. CASE ProbeWrites(t)
    BY <2>1 DEF ProbeWrites
  <2>2. CASE Climb(t)
    BY <2>2 DEF Climb
  <2>3. CASE ClimbFails(t)
    BY <2>3 DEF ClimbFails
  <2>4. CASE Commit(t)
    BY <2>4 DEF Commit, Arm
  <2>5. CASE Revert(t)
    <3>1. CASE Pending /\ SameChange(t) /\ pending.phase # "reverting"
      <4>1. pending' = [pending EXCEPT !.phase = "reverting"] /\ pc' = [pc EXCEPT ![t] = "undo"] /\ copy' = copy
        BY <2>5, <3>1 DEF Revert
      <4>2. /\ pending'.gpu = pending.gpu /\ pending'.generation = pending.generation
            /\ pending'.revertTo = pending.revertTo /\ pending'.phase = "reverting"
        BY <4>1, PhaseMove DEF Phases
      <4>3. \A u \in Threads : ~Holds(u)
        BY <2>5 DEF Revert
      <4>4. pc[t] = "revert" /\ t \in Clients \cup {Watchdog}
        BY <2>5 DEF Revert
      <4>5. QED
        BY <4>1, <4>2, <4>3, <4>4, <3>1
    <3>2. CASE ~(Pending /\ SameChange(t) /\ pending.phase # "reverting")
      BY <2>5, <3>2 DEF Revert
    <3>3. QED
      BY <3>1, <3>2
  <2>6. CASE Undo(t)
    BY <2>6 DEF Undo
  <2>7. CASE Settle(t)
    <3>1. /\ hardware = t /\ pc[t] = "settle" /\ pc' = [pc EXCEPT ![t] = "idle"]
          /\ copy' = [copy EXCEPT ![t] = NoChange]
      BY <2>7 DEF Settle
    <3>2. CASE SameChange(t) /\ copy[t].gpu \in refused
      <4>1. pending' = [pending EXCEPT !.phase = "revertFailed"]
        BY <2>7, <3>2 DEF Settle
      <4>2. /\ pending'.gpu = pending.gpu /\ pending'.generation = pending.generation
            /\ pending'.revertTo = pending.revertTo
        BY <4>1, PhaseMove DEF Phases
      <4>3. pending # NoChange
        BY <3>1, <3>2, NoChangeFields
      <4>4. QED
        BY <3>1, <4>2, <4>3
    <3>3. CASE SameChange(t) /\ copy[t].gpu \notin refused
      <4>1. pending' = NoChange
        BY <2>7, <3>3 DEF Settle
      <4>2. QED
        BY <3>1, <4>1, NoChangeFields
    <3>4. QED
      BY <3>1, <3>2, <3>3
  <2>8. CASE ResetBegins(t)
    BY <2>8 DEF ResetBegins
  <2>9. CASE ResetCard(t)
    <3>1. PICK g \in todo[t] : ResetOne(t, g)
      BY <2>9 DEF ResetCard
    <3>2. g \in GPUs
      OBVIOUS
    <3>3. hardware = t /\ pc[t] = "each" /\ copy' = copy /\ pc' \in {pc, [pc EXCEPT ![t] = "putBack"]}
      BY <2>9, <3>1 DEF ResetCard, ResetOne
    <3>4. \/ pending' = [pending EXCEPT !.phase = "reverting"] /\ PendingOn(g)
          \/ pending' = pending /\ (pc'[t] = "putBack" => on'[t] = g /\ pending.gpu # g)
          \/ pending' = NoChange /\ pc' = pc
      BY <2>9, <3>1 DEF ResetCard, ResetOne, Cleared
    <3>5. CASE pending' = [pending EXCEPT !.phase = "reverting"] /\ PendingOn(g)
      <4>1. /\ pending'.gpu = pending.gpu /\ pending'.generation = pending.generation
            /\ pending'.revertTo = pending.revertTo /\ pending'.phase = "reverting"
        BY <3>5, PhaseMove DEF Phases
      <4>2. pending # NoChange
        BY <3>2, <3>5, NoChangeFields DEF PendingOn
      <4>3. QED
        BY <3>3, <4>1, <4>2
    <3>6. CASE pending' = pending /\ (pc'[t] = "putBack" => on'[t] = g /\ pending.gpu # g)
      BY <3>3, <3>6
    <3>7. CASE pending' = NoChange /\ pc' = pc
      BY <3>3, <3>7, NoChangeFields
    <3>8. QED
      BY <3>4, <3>5, <3>6, <3>7
  <2>10. CASE PutBack(t)
    <3>1. /\ hardware = t /\ pc[t] = "putBack" /\ copy' = copy /\ on[t] \in GPUs
          /\ \/ pc' = [pc EXCEPT ![t] = "record"] /\ on' = on
             \/ pc' = [pc EXCEPT ![t] = "each"]
      BY <2>10 DEF PutBack
    <3>2. CASE pending' = pending
      BY <3>1, <3>2
    <3>3. CASE pending' = [pending EXCEPT !.phase = "revertFailed"] /\ PendingOn(on[t])
      <4>1. /\ pending'.gpu = pending.gpu /\ pending'.generation = pending.generation
            /\ pending'.revertTo = pending.revertTo /\ pending'.phase = "revertFailed"
        BY <3>3, PhaseMove DEF Phases
      <4>2. pending # NoChange
        BY <3>1, <3>3, NoChangeFields DEF PendingOn
      <4>3. QED
        BY <3>1, <4>1, <4>2
    <3>4. QED
      BY <2>10, <3>2, <3>3 DEF PutBack
  <2>11. CASE Record(t)
    <3>1. /\ hardware = t /\ pc[t] = "record" /\ copy' = copy /\ pc' = [pc EXCEPT ![t] = "each"]
          /\ pending' = pending \/ pending' = NoChange
      BY <2>11 DEF Record, Cleared
    <3>2. QED
      BY <3>1, NoChangeFields
  <2>12. CASE ResetEnds(t)
    BY <2>12 DEF ResetEnds
  <2>13. QED
    BY <1>1, <2>1, <2>2, <2>3, <2>4, <2>5, <2>6, <2>7, <2>8, <2>9, <2>10, <2>11, <2>12 DEF Carry
<1>2. ASSUME NEW t \in Clients, Client(t) PROVE Identity'
  <2>1. CASE Consent(t)
    BY <2>1 DEF Consent
  <2>2. CASE Withdraw(t)
    BY <2>2 DEF Withdraw
  <2>3. CASE SetRestoreOnStart(t)
    BY <2>3 DEF SetRestoreOnStart
  <2>4. CASE Probe(t)
    BY <2>4 DEF Probe
  <2>5. ASSUME NEW g \in GPUs, NEW to \in Targets, Apply(t, g, to) PROVE Identity'
    BY <2>5 DEF Apply
  <2>6. CASE Confirm(t)
    <3>1. pending' = NoChange /\ pc' = pc /\ on' = on /\ copy' = copy /\ pending.phase = "coherent"
      BY <2>6 DEF Confirm, Keep
    <3>2. QED
      BY <3>1, NoChangeFields
  <2>7. CASE Cancel(t)
    BY <2>7 DEF Cancel
  <2>8. ASSUME NEW ids \in SUBSET GPUs, Reset(t, ids) PROVE Identity'
    BY <2>8 DEF Reset
  <2>9. CASE Reset(t, GPUs)
    BY <2>8, <2>9
  <2>10. ASSUME NEW g \in GPUs, Reset(t, {g}) PROVE Identity'
    BY <2>8, <2>10
  <2>11. QED
    BY <1>2, <2>1, <2>2, <2>3, <2>4, <2>5, <2>6, <2>7, <2>8, <2>9, <2>10 DEF Client
<1>3. CASE Notice
  BY <1>3 DEF Notice, Due
<1>4. CASE Load
  BY <1>4 DEF Load
<1>5. CASE RestoreNext
  BY <1>5 DEF RestoreNext
<1>6. CASE Restored
  BY <1>6 DEF Restored
<1>7. CASE HandOver
  BY <1>7 DEF HandOver
<1>8. CASE HandOverCard
  BY <1>8 DEF HandOverCard
<1>9. CASE Stow
  BY <1>9 DEF Stow
<1>10. CASE Stowed
  BY <1>10 DEF Stowed
<1>11. CASE Restart
  BY <1>11 DEF Restart, Fresh
<1>12. CASE UNCHANGED vars
  BY <1>12
<1>13. QED
  BY <1>1, <1>2, <1>3, <1>4, <1>5, <1>6, <1>7, <1>8, <1>9, <1>10, <1>11, <1>12 DEF Next, Step, Boot, Leaving

-----------------------------------------------------------------------------
(* What is armed is on disk, and goes back to what was confirmed.           *)

\* The armed flag and the pending change come and go together, in memory and
\* on disk, and only the end of a change moves the target it goes back to.
LEMMA StepArmed ==
  TypeOK /\ Places /\ Exclusion /\ Identity /\ Armed /\ RevertToConfirmed /\ [Next]_vars
  => Armed' /\ RevertToConfirmed'
<1> SUFFICES ASSUME TypeOK, Places, Exclusion, Identity, Armed, RevertToConfirmed, [Next]_vars
             PROVE  Armed' /\ RevertToConfirmed'
  OBVIOUS
<1> USE ThreadsAssumption, CardsAssumption
<1> USE DEF TypeOK, Places, Pending, IsChange, Armed, RevertToConfirmed, Go, At, Move, Threads,
            CardLabels, vars, cards, store, change, climbs, locals, life
<1>1. ASSUME NEW t \in Threads, Carry(t) PROVE Armed' /\ RevertToConfirmed'
  <2>1. CASE ProbeWrites(t)
    BY <2>1 DEF ProbeWrites
  <2>2. CASE Climb(t)
    BY <2>2 DEF Climb
  <2>3. CASE ClimbFails(t)
    BY <2>3 DEF ClimbFails
  <2>4. CASE Commit(t)
    <3>1. on[t] \in GPUs /\ ~Pending
      BY <2>4 DEF Commit, Identity, Exclusion, Serving, ClimbLabels, RevertLabels, MainLabels
    <3>2. CASE goal[t] = Stock
      BY <2>4, <3>1, <3>2 DEF Commit
    <3>3. CASE goal[t] # Stock
      <4>1. /\ pending'.gpu = on[t] /\ pending'.revertTo = config.targets[on[t]]
            /\ Persist([config EXCEPT !.armed = on[t]])
        BY <2>4, <3>3 DEF Commit, Arm
      <4>2. config'.armed = on[t] /\ config'.targets = config.targets /\ (saved' => disk' = config')
        BY <3>1, <4>1, ConfigTypeOK, ConfigFields DEF Persist, Configs
      <4>3. QED
        BY <4>1, <4>2
    <3>4. QED
      BY <3>2, <3>3
  <2>5. CASE Revert(t)
    <3>1. CASE pending' = pending
      BY <2>5, <3>1 DEF Revert
    <3>2. CASE Pending /\ pending' = [pending EXCEPT !.phase = "reverting"]
      <4>1. pending'.gpu = pending.gpu /\ pending'.revertTo = pending.revertTo
        BY <3>2, PhaseMove DEF Phases
      <4>2. QED
        BY <2>5, <3>2, <4>1 DEF Revert
    <3>3. QED
      BY <2>5, <3>1, <3>2 DEF Revert
  <2>6. CASE Undo(t)
    BY <2>6 DEF Undo
  <2>7. CASE Settle(t)
    <3>1. CASE ~SameChange(t)
      BY <2>7, <3>1 DEF Settle
    <3>2. CASE SameChange(t) /\ copy[t].gpu \in refused
      <4>1. pending' = [pending EXCEPT !.phase = "revertFailed"] /\ Persist(config)
        BY <2>7, <3>2 DEF Settle
      <4>2. pending'.gpu = pending.gpu /\ pending'.revertTo = pending.revertTo
        BY <4>1, PhaseMove DEF Phases
      <4>3. Pending
        BY <2>7, <3>2, NoChangeFields DEF Settle, SameChange, RevertLabels
      <4>4. QED
        BY <4>1, <4>2, <4>3 DEF Persist
    <3>3. CASE SameChange(t) /\ copy[t].gpu \notin refused
      BY <2>7, <3>3 DEF Settle
    <3>4. QED
      BY <3>1, <3>2, <3>3
  <2>8. CASE ResetBegins(t)
    BY <2>8 DEF ResetBegins
  <2>9. CASE ResetCard(t)
    <3>1. PICK g \in todo[t] : ResetOne(t, g)
      BY <2>9 DEF ResetCard
    <3>2. g \in GPUs
      OBVIOUS
    <3>3. CASE Moved(g) /\ PendingOn(g)
      <4>1. pending' = [pending EXCEPT !.phase = "reverting"] /\ UNCHANGED store
        BY <3>1, <3>3 DEF ResetOne
      <4>2. pending'.gpu = pending.gpu /\ pending'.revertTo = pending.revertTo
        BY <4>1, PhaseMove DEF Phases
      <4>3. Pending
        BY <3>2, <3>3, CardsAssumption, NoChangeFields DEF PendingOn
      <4>4. QED
        BY <4>1, <4>2, <4>3
    <3>4. CASE Moved(g) /\ ~PendingOn(g)
      BY <3>1, <3>4 DEF ResetOne
    <3>5. CASE ~Moved(g)
      <4>1. Cleared(g)
        BY <3>1, <3>5 DEF ResetOne
      <4>2. QED
        BY <3>2, <4>1, ClearedChange
    <3>6. QED
      BY <3>3, <3>4, <3>5
  <2>10. CASE PutBack(t)
    <3>1. UNCHANGED store /\ on[t] \in GPUs
      BY <2>10 DEF PutBack
    <3>2. CASE pending' = pending
      BY <3>1, <3>2
    <3>3. CASE pending' = [pending EXCEPT !.phase = "revertFailed"] /\ PendingOn(on[t])
      <4>1. pending'.gpu = pending.gpu /\ pending'.revertTo = pending.revertTo
        BY <3>3, PhaseMove DEF Phases
      <4>2. Pending
        BY <3>1, <3>3, CardsAssumption, NoChangeFields DEF PendingOn
      <4>3. QED
        BY <3>1, <4>1, <4>2
    <3>4. QED
      BY <2>10, <3>2, <3>3 DEF PutBack
  <2>11. CASE Record(t)
    <3>1. on[t] \in GPUs /\ Cleared(on[t])
      BY <2>11 DEF Record
    <3>2. QED
      BY <3>1, ClearedChange
  <2>12. CASE ResetEnds(t)
    BY <2>12 DEF ResetEnds
  <2>13. QED
    BY <1>1, <2>1, <2>2, <2>3, <2>4, <2>5, <2>6, <2>7, <2>8, <2>9, <2>10, <2>11, <2>12 DEF Carry
<1>2. ASSUME NEW t \in Clients, Client(t) PROVE Armed' /\ RevertToConfirmed'
  <2>1. CASE Consent(t)
    <3>1. /\ config'.armed = config.armed /\ config'.targets = config.targets
          /\ pending' = pending /\ (saved' => disk' = config')
      BY <2>1, ConfigTypeOK, ConfigFields, PersistTypeOK DEF Consent, Persist, Configs
    <3>2. QED
      BY <3>1
  <2>2. CASE Withdraw(t)
    <3>1. /\ config'.armed = config.armed /\ config'.targets = config.targets
          /\ pending' = pending /\ (saved' => disk' = config')
      BY <2>2, ConfigTypeOK, ConfigFields, PersistTypeOK DEF Withdraw, Persist, Configs
    <3>2. QED
      BY <3>1
  <2>3. CASE SetRestoreOnStart(t)
    <3>1. PICK b \in BOOLEAN : Persist([config EXCEPT !.restore = b])
      BY <2>3 DEF SetRestoreOnStart
    <3>2. PICK c \in Configs : c = [config EXCEPT !.restore = b]
      BY <3>1 DEF Configs
    <3>3. c.armed = config.armed /\ c.targets = config.targets
      BY <3>2 DEF Configs
    <3>4. config' = c /\ (saved' => disk' = config') /\ pending' = pending
      BY <2>3, <3>1, <3>2 DEF Persist, SetRestoreOnStart
    <3>5. QED
      BY <3>3, <3>4
  <2>4. CASE Probe(t)
    BY <2>4 DEF Probe
  <2>5. ASSUME NEW g \in GPUs, NEW to \in Targets, Apply(t, g, to) PROVE Armed' /\ RevertToConfirmed'
    BY <2>5 DEF Apply
  <2>6. CASE Confirm(t)
    BY <2>6 DEF Confirm, Keep
  <2>7. CASE Cancel(t)
    BY <2>7 DEF Cancel
  <2>8. ASSUME NEW ids \in SUBSET GPUs, Reset(t, ids) PROVE Armed' /\ RevertToConfirmed'
    BY <2>8 DEF Reset
  <2>9. CASE Reset(t, GPUs)
    BY <2>8, <2>9
  <2>10. ASSUME NEW g \in GPUs, Reset(t, {g}) PROVE Armed' /\ RevertToConfirmed'
    BY <2>8, <2>10
  <2>11. QED
    BY <1>2, <2>1, <2>2, <2>3, <2>4, <2>5, <2>6, <2>7, <2>8, <2>9, <2>10 DEF Client
<1>3. CASE Notice
  BY <1>3 DEF Notice
<1>4. CASE Load
  BY <1>4 DEF Load, Exclusion, Serving
<1>5. CASE RestoreNext
  BY <1>5 DEF RestoreNext
<1>6. CASE Restored
  BY <1>6 DEF Restored
<1>7. CASE HandOver
  BY <1>7 DEF HandOver
<1>8. CASE HandOverCard
  BY <1>8 DEF HandOverCard
<1>9. CASE Stow
  BY <1>9 DEF Stow
<1>10. CASE Stowed
  BY <1>10 DEF Stowed
<1>11. CASE Restart
  BY <1>11 DEF Restart
<1>12. CASE UNCHANGED vars
  BY <1>12
<1>13. QED
  BY <1>1, <1>2, <1>3, <1>4, <1>5, <1>6, <1>7, <1>8, <1>9, <1>10, <1>11, <1>12 DEF Next, Step, Boot, Leaving

-----------------------------------------------------------------------------
(* What the daemon knows of the cards.                                      *)

\* No thread writes a card under another one.
LEMMA StepWrites ==
  TypeOK /\ Places /\ Exclusion /\ Identity /\ Writes /\ Known /\ Unstarted /\ Confirmable /\ [Next]_vars
  => Writes'
<1> SUFFICES ASSUME TypeOK, Places, Exclusion, Identity, Writes, Known, Unstarted, Confirmable, [Next]_vars
             PROVE  Writes'
  OBVIOUS
<1> USE ThreadsAssumption, CardsAssumption
<1> USE DEF TypeOK, Places, IsChange, Exclusion, Identity, Writes, Known, Wrote, Unstarted, Confirmable, Holds, Serving,
            Pending, Go, At, Move, Threads, Take, Drop, Idle, ClimbLabels, RevertLabels, ResetLabels,
            ProbeLabels, MainLabels, CardLabels, ForgetClimb, ForgetCopy,
            vars, cards, store, change, climbs, locals, life
<1>1. ASSUME NEW t \in Threads, Carry(t) PROVE Writes'
  <2>1. CASE ProbeWrites(t)
    BY <2>1 DEF ProbeWrites
  <2>2. CASE Climb(t)
    BY <2>2 DEF Climb, Written
  <2>3. CASE ClimbFails(t)
    BY <2>3 DEF ClimbFails, Written, RefusedAt, Start, Current
  <2>4. CASE Commit(t)
    BY <2>4 DEF Commit, Arm
  <2>5. CASE Revert(t)
    BY <2>5 DEF Revert
  <2>6. CASE Undo(t)
    <3>1. hardware = t /\ pc[t] = "undo" /\ pc' = [pc EXCEPT ![t] = "settle"] /\ copy[t].gpu \in GPUs
      BY <2>6 DEF Undo
    <3>2. \A u \in Threads \ {t} : ~Holds(u)
      BY <3>1, ThreadsAssumption
    <3>3. pc[Main] \notin {"climb", "restored"}
      BY <3>1
    <3>4. UNCHANGED <<copy, on, goal, found>>
      BY <2>6 DEF Undo
    <3>5. CASE Written(copy[t].gpu, copy[t].revertTo)
      BY <3>1, <3>2, <3>3, <3>4, <3>5 DEF Written
    <3>6. CASE Refused(copy[t].gpu)
      BY <3>1, <3>2, <3>3, <3>4, <3>6, RefusedHere
    <3>7. QED
      BY <2>6, <3>5, <3>6 DEF Undo
  <2>7. CASE Settle(t)
    BY <2>7 DEF Settle
  <2>8. CASE ResetBegins(t)
    BY <2>8 DEF ResetBegins
  <2>9. CASE ResetCard(t)
    BY <2>9 DEF ResetCard, ResetOne, Cleared
  <2>10. CASE PutBack(t)
    BY <2>10 DEF PutBack, Written, Refused, RefusedAt
  <2>11. CASE Record(t)
    BY <2>11 DEF Record, Cleared
  <2>12. CASE ResetEnds(t)
    BY <2>12 DEF ResetEnds
  <2>13. QED
    BY <1>1, <2>1, <2>2, <2>3, <2>4, <2>5, <2>6, <2>7, <2>8, <2>9, <2>10, <2>11, <2>12 DEF Carry
<1>2. ASSUME NEW t \in Clients, Client(t) PROVE Writes'
  <2>1. CASE Consent(t)
    BY <2>1 DEF Consent
  <2>2. CASE Withdraw(t)
    BY <2>2 DEF Withdraw
  <2>3. CASE SetRestoreOnStart(t)
    BY <2>3 DEF SetRestoreOnStart
  <2>4. CASE Probe(t)
    BY <2>4 DEF Probe
  <2>5. ASSUME NEW g \in GPUs, NEW to \in Targets, Apply(t, g, to) PROVE Writes'
    BY <2>5 DEF Apply
  <2>6. CASE Confirm(t)
    BY <2>6 DEF Confirm, Keep
  <2>7. CASE Cancel(t)
    BY <2>7 DEF Cancel
  <2>8. ASSUME NEW ids \in SUBSET GPUs, Reset(t, ids) PROVE Writes'
    BY <2>8 DEF Reset
  <2>9. CASE Reset(t, GPUs)
    BY <2>8, <2>9
  <2>10. ASSUME NEW g \in GPUs, Reset(t, {g}) PROVE Writes'
    BY <2>8, <2>10
  <2>11. QED
    BY <1>2, <2>1, <2>2, <2>3, <2>4, <2>5, <2>6, <2>7, <2>8, <2>9, <2>10 DEF Client
<1>3. CASE Notice
  BY <1>3 DEF Notice, Due
<1>4. CASE Load
  BY <1>4 DEF Load
<1>5. CASE RestoreNext
  BY <1>5 DEF RestoreNext
<1>6. CASE Restored
  BY <1>6 DEF Restored
<1>7. CASE HandOver
  BY <1>7 DEF HandOver
<1>8. CASE HandOverCard
  BY <1>8 DEF HandOverCard
<1>9. CASE Stow
  BY <1>9 DEF Stow, Written, Refused, RefusedAt
<1>10. CASE Stowed
  BY <1>10 DEF Stowed
<1>11. CASE Restart
  BY <1>11 DEF Restart, Fresh
<1>12. CASE UNCHANGED vars
  BY <1>12
<1>13. QED
  BY <1>1, <1>2, <1>3, <1>4, <1>5, <1>6, <1>7, <1>8, <1>9, <1>10, <1>11, <1>12 DEF Next, Step, Boot, Leaving

\* The record of a card is out of step with it only between one thread's write
\* and its note of it.
LEMMA StepKnown ==
  TypeOK /\ Places /\ Exclusion /\ Identity /\ Writes /\ Known /\ Unstarted /\ Confirmable /\ [Next]_vars
  => Known'
<1> SUFFICES ASSUME TypeOK, Places, Exclusion, Identity, Writes, Known, Unstarted, Confirmable, [Next]_vars
             PROVE  Known'
  OBVIOUS
<1> USE ThreadsAssumption, CardsAssumption
<1> USE DEF TypeOK, Places, IsChange, Exclusion, Identity, Writes, Known, Wrote, Unstarted, Confirmable, Holds, Serving,
            Pending, Go, At, Move, Threads, Take, Drop, Idle, ClimbLabels, RevertLabels, ResetLabels,
            ProbeLabels, MainLabels, CardLabels, ForgetClimb, ForgetCopy,
            vars, cards, store, change, climbs, locals, life
<1>1. ASSUME NEW t \in Threads, Carry(t) PROVE Known'
  <2>1. CASE ProbeWrites(t)
    BY <2>1 DEF ProbeWrites
  <2>2. CASE Climb(t)
    BY <2>2 DEF Climb, Written
  <2>3. CASE ClimbFails(t)
    BY <2>3 DEF ClimbFails, Written, RefusedAt, Start, Current
  <2>4. CASE Commit(t)
    BY <2>4 DEF Commit, Arm
  <2>5. CASE Revert(t)
    BY <2>5 DEF Revert
  <2>6. CASE Undo(t)
    BY <2>6 DEF Undo, Written, Refused, RefusedAt
  <2>7. CASE Settle(t)
    BY <2>7 DEF Settle
  <2>8. CASE ResetBegins(t)
    BY <2>8 DEF ResetBegins
  <2>9. CASE ResetCard(t)
    BY <2>9 DEF ResetCard, ResetOne, Cleared
  <2>10. CASE PutBack(t)
    BY <2>10 DEF PutBack, Written, Refused, RefusedAt
  <2>11. CASE Record(t)
    BY <2>11 DEF Record, Cleared
  <2>12. CASE ResetEnds(t)
    BY <2>12 DEF ResetEnds
  <2>13. QED
    BY <1>1, <2>1, <2>2, <2>3, <2>4, <2>5, <2>6, <2>7, <2>8, <2>9, <2>10, <2>11, <2>12 DEF Carry
<1>2. ASSUME NEW t \in Clients, Client(t) PROVE Known'
  <2>1. CASE Consent(t)
    BY <2>1 DEF Consent
  <2>2. CASE Withdraw(t)
    BY <2>2 DEF Withdraw
  <2>3. CASE SetRestoreOnStart(t)
    BY <2>3 DEF SetRestoreOnStart
  <2>4. CASE Probe(t)
    BY <2>4 DEF Probe
  <2>5. ASSUME NEW g \in GPUs, NEW to \in Targets, Apply(t, g, to) PROVE Known'
    BY <2>5 DEF Apply
  <2>6. CASE Confirm(t)
    BY <2>6 DEF Confirm, Keep
  <2>7. CASE Cancel(t)
    BY <2>7 DEF Cancel
  <2>8. ASSUME NEW ids \in SUBSET GPUs, Reset(t, ids) PROVE Known'
    BY <2>8 DEF Reset
  <2>9. CASE Reset(t, GPUs)
    BY <2>8, <2>9
  <2>10. ASSUME NEW g \in GPUs, Reset(t, {g}) PROVE Known'
    BY <2>8, <2>10
  <2>11. QED
    BY <1>2, <2>1, <2>2, <2>3, <2>4, <2>5, <2>6, <2>7, <2>8, <2>9, <2>10 DEF Client
<1>3. CASE Notice
  BY <1>3 DEF Notice, Due
<1>4. CASE Load
  BY <1>4 DEF Load
<1>5. CASE RestoreNext
  BY <1>5 DEF RestoreNext
<1>6. CASE Restored
  BY <1>6 DEF Restored
<1>7. CASE HandOver
  BY <1>7 DEF HandOver
<1>8. CASE HandOverCard
  BY <1>8 DEF HandOverCard
<1>9. CASE Stow
  BY <1>9 DEF Stow, Written, Refused, RefusedAt
<1>10. CASE Stowed
  BY <1>10 DEF Stowed
<1>11. CASE Restart
  BY <1>11 DEF Restart, Fresh
<1>12. CASE UNCHANGED vars
  BY <1>12
<1>13. QED
  BY <1>1, <1>2, <1>3, <1>4, <1>5, <1>6, <1>7, <1>8, <1>9, <1>10, <1>11, <1>12 DEF Next, Step, Boot, Leaving

\* A card is restored before anything else is done with it.
LEMMA StepUnstarted ==
  TypeOK /\ Places /\ Exclusion /\ Identity /\ Writes /\ Known /\ Unstarted /\ Confirmable /\ [Next]_vars
  => Unstarted'
<1> SUFFICES ASSUME TypeOK, Places, Exclusion, Identity, Writes, Known, Unstarted, Confirmable, [Next]_vars
             PROVE  Unstarted'
  OBVIOUS
<1> USE ThreadsAssumption, CardsAssumption
<1> USE DEF TypeOK, Places, IsChange, Exclusion, Identity, Writes, Known, Wrote, Unstarted, Confirmable, Holds, Serving,
            Pending, Go, At, Move, Threads, Take, Drop, Idle, ClimbLabels, RevertLabels, ResetLabels,
            ProbeLabels, MainLabels, CardLabels, ForgetClimb, ForgetCopy,
            vars, cards, store, change, climbs, locals, life
<1>1. ASSUME NEW t \in Threads, Carry(t) PROVE Unstarted'
  <2>1. CASE ProbeWrites(t)
    BY <2>1 DEF ProbeWrites
  <2>2. CASE Climb(t)
    BY <2>2 DEF Climb, Written
  <2>3. CASE ClimbFails(t)
    BY <2>3 DEF ClimbFails, Written, RefusedAt, Start, Current
  <2>4. CASE Commit(t)
    BY <2>4 DEF Commit, Arm
  <2>5. CASE Revert(t)
    BY <2>5 DEF Revert
  <2>6. CASE Undo(t)
    BY <2>6 DEF Undo, Written, Refused, RefusedAt
  <2>7. CASE Settle(t)
    BY <2>7 DEF Settle
  <2>8. CASE ResetBegins(t)
    BY <2>8 DEF ResetBegins
  <2>9. CASE ResetCard(t)
    BY <2>9 DEF ResetCard, ResetOne, Cleared
  <2>10. CASE PutBack(t)
    BY <2>10 DEF PutBack, Written, Refused, RefusedAt
  <2>11. CASE Record(t)
    BY <2>11 DEF Record, Cleared
  <2>12. CASE ResetEnds(t)
    BY <2>12 DEF ResetEnds
  <2>13. QED
    BY <1>1, <2>1, <2>2, <2>3, <2>4, <2>5, <2>6, <2>7, <2>8, <2>9, <2>10, <2>11, <2>12 DEF Carry
<1>2. ASSUME NEW t \in Clients, Client(t) PROVE Unstarted'
  <2>1. CASE Consent(t)
    BY <2>1 DEF Consent
  <2>2. CASE Withdraw(t)
    BY <2>2 DEF Withdraw
  <2>3. CASE SetRestoreOnStart(t)
    BY <2>3 DEF SetRestoreOnStart
  <2>4. CASE Probe(t)
    BY <2>4 DEF Probe
  <2>5. ASSUME NEW g \in GPUs, NEW to \in Targets, Apply(t, g, to) PROVE Unstarted'
    BY <2>5 DEF Apply
  <2>6. CASE Confirm(t)
    BY <2>6 DEF Confirm, Keep
  <2>7. CASE Cancel(t)
    BY <2>7 DEF Cancel
  <2>8. ASSUME NEW ids \in SUBSET GPUs, Reset(t, ids) PROVE Unstarted'
    BY <2>8 DEF Reset
  <2>9. CASE Reset(t, GPUs)
    BY <2>8, <2>9
  <2>10. ASSUME NEW g \in GPUs, Reset(t, {g}) PROVE Unstarted'
    BY <2>8, <2>10
  <2>11. QED
    BY <1>2, <2>1, <2>2, <2>3, <2>4, <2>5, <2>6, <2>7, <2>8, <2>9, <2>10 DEF Client
<1>3. CASE Notice
  BY <1>3 DEF Notice, Due
<1>4. CASE Load
  BY <1>4 DEF Load
<1>5. CASE RestoreNext
  BY <1>5 DEF RestoreNext
<1>6. CASE Restored
  BY <1>6 DEF Restored
<1>7. CASE HandOver
  BY <1>7 DEF HandOver
<1>8. CASE HandOverCard
  BY <1>8 DEF HandOverCard
<1>9. CASE Stow
  BY <1>9 DEF Stow, Written, Refused, RefusedAt
<1>10. CASE Stowed
  BY <1>10 DEF Stowed
<1>11. CASE Restart
  BY <1>11 DEF Restart, Fresh
<1>12. CASE UNCHANGED vars
  BY <1>12
<1>13. QED
  BY <1>1, <1>2, <1>3, <1>4, <1>5, <1>6, <1>7, <1>8, <1>9, <1>10, <1>11, <1>12 DEF Next, Step, Boot, Leaving

\* A change that can still be confirmed is the one on the card.
LEMMA StepConfirmable ==
  TypeOK /\ Places /\ Exclusion /\ Identity /\ Writes /\ Known /\ Unstarted /\ Confirmable /\ [Next]_vars
  => Confirmable'
<1> SUFFICES ASSUME TypeOK, Places, Exclusion, Identity, Writes, Known, Unstarted, Confirmable, [Next]_vars
             PROVE  Confirmable'
  OBVIOUS
<1> USE ThreadsAssumption, CardsAssumption
<1> USE DEF TypeOK, Places, IsChange, Exclusion, Identity, Writes, Known, Wrote, Unstarted, Confirmable, Holds, Serving,
            Pending, Go, At, Move, Threads, Take, Drop, Idle, ClimbLabels, RevertLabels, ResetLabels,
            ProbeLabels, MainLabels, CardLabels, ForgetClimb, ForgetCopy,
            vars, cards, store, change, climbs, locals, life
<1>1. ASSUME NEW t \in Threads, Carry(t) PROVE Confirmable'
  <2>1. CASE ProbeWrites(t)
    BY <2>1 DEF ProbeWrites
  <2>2. CASE Climb(t)
    BY <2>2 DEF Climb, Written
  <2>3. CASE ClimbFails(t)
    BY <2>3 DEF ClimbFails, Written, RefusedAt, Start, Current
  <2>4. CASE Commit(t)
    <3>1. ~Pending /\ on[t] \in GPUs /\ on[t] \notin refused /\ card[on[t]] = goal[t] /\ goal[t] \in Targets
      BY <2>4 DEF Commit
    <3>2. CASE goal[t] = Stock
      BY <2>4, <3>1, <3>2 DEF Commit
    <3>3. CASE goal[t] # Stock
      <4>1. pending'.gpu = on[t]
        BY <2>4, <3>3 DEF Commit, Arm
      <4>2. card' = card /\ refused' = refused /\ applied'[on[t]] = goal[t]
        BY <2>4, <3>1 DEF Commit
      <4>3. goal[t] \in Offsets
        BY <3>1, <3>3 DEF Targets
      <4>4. QED
        BY <3>1, <4>1, <4>2, <4>3
    <3>4. QED
      BY <3>2, <3>3
  <2>5. CASE Revert(t)
    <3>1. UNCHANGED <<card, refused, applied>> /\ t # Main /\ pc'[Main] = pc[Main]
      BY <2>5 DEF Revert
    <3>2. CASE pending' = pending
      BY <3>1, <3>2
    <3>3. CASE pending' = [pending EXCEPT !.phase = "reverting"]
      BY <3>3, PhaseMove DEF Phases
    <3>4. QED
      BY <2>5, <3>2, <3>3 DEF Revert
  <2>6. CASE Undo(t)
    BY <2>6 DEF Undo, Written, Refused, RefusedAt
  <2>7. CASE Settle(t)
    <3>1. SameChange(t)
      BY <2>7 DEF Settle
    <3>2. CASE copy[t].gpu \in refused
      <4>1. pending' = [pending EXCEPT !.phase = "revertFailed"]
        BY <2>7, <3>1, <3>2 DEF Settle
      <4>2. QED
        BY <4>1, PhaseMove DEF Phases
    <3>3. CASE copy[t].gpu \notin refused
      BY <2>7, <3>1, <3>3 DEF Settle
    <3>4. QED
      BY <3>2, <3>3
  <2>8. CASE ResetBegins(t)
    BY <2>8 DEF ResetBegins
  <2>9. CASE ResetCard(t)
    <3>1. PICK g \in todo[t] : ResetOne(t, g)
      BY <2>9 DEF ResetCard
    <3>2. g \in GPUs
      OBVIOUS
    <3>3. pc[t] = "each" /\ t \in Clients /\ UNCHANGED cards /\ pc'[Main] = pc[Main]
      BY <2>9, <3>1 DEF ResetCard, ResetOne
    <3>4. CASE pending' = [pending EXCEPT !.phase = "reverting"]
      BY <3>4, PhaseMove DEF Phases
    <3>5. CASE Moved(g) /\ pending' = pending
      BY <3>1, <3>3, <3>5 DEF ResetOne
    <3>6. CASE ~Moved(g)
      <4>1. Cleared(g)
        BY <3>1, <3>6 DEF ResetOne
      <4>2. pending' = NoChange \/ (pending' = pending /\ pending.gpu # g)
        BY <3>2, <4>1, ClearedChange
      <4>3. \A h \in GPUs \ {g} : applied'[h] = applied[h]
        BY <4>1 DEF Cleared
      <4>4. QED
        BY <3>3, <4>2, <4>3
    <3>7. QED
      BY <3>1, <3>4, <3>5, <3>6 DEF ResetOne
  <2>10. CASE PutBack(t)
    <3>1. pc[t] = "putBack" /\ t \in Clients /\ on[t] \in GPUs /\ UNCHANGED applied /\ pc'[Main] = pc[Main]
      BY <2>10 DEF PutBack
    <3>2. PendingOn(on[t]) => pending.phase # "coherent"
      BY <3>1
    <3>3. CASE pending' = [pending EXCEPT !.phase = "revertFailed"]
      BY <3>3, PhaseMove DEF Phases
    <3>4. CASE pending' = pending /\ (PendingOn(on[t]) => pending.phase # "coherent")
      <4>1. \A h \in GPUs \ {on[t]} : card'[h] = card[h] /\ (h \in refused' => h \in refused)
        BY <2>10, <3>1, RefusedHere DEF PutBack, Written
      <4>2. QED
        BY <3>1, <3>4, <4>1 DEF PendingOn
    <3>5. QED
      BY <2>10, <3>2, <3>3, <3>4 DEF PutBack
  <2>11. CASE Record(t)
    BY <2>11 DEF Record, Cleared
  <2>12. CASE ResetEnds(t)
    BY <2>12 DEF ResetEnds
  <2>13. QED
    BY <1>1, <2>1, <2>2, <2>3, <2>4, <2>5, <2>6, <2>7, <2>8, <2>9, <2>10, <2>11, <2>12 DEF Carry
<1>2. ASSUME NEW t \in Clients, Client(t) PROVE Confirmable'
  <2>1. CASE Consent(t)
    BY <2>1 DEF Consent
  <2>2. CASE Withdraw(t)
    BY <2>2 DEF Withdraw
  <2>3. CASE SetRestoreOnStart(t)
    BY <2>3 DEF SetRestoreOnStart
  <2>4. CASE Probe(t)
    BY <2>4 DEF Probe
  <2>5. ASSUME NEW g \in GPUs, NEW to \in Targets, Apply(t, g, to) PROVE Confirmable'
    BY <2>5 DEF Apply
  <2>6. CASE Confirm(t)
    BY <2>6 DEF Confirm, Keep
  <2>7. CASE Cancel(t)
    BY <2>7 DEF Cancel
  <2>8. ASSUME NEW ids \in SUBSET GPUs, Reset(t, ids) PROVE Confirmable'
    BY <2>8 DEF Reset
  <2>9. CASE Reset(t, GPUs)
    BY <2>8, <2>9
  <2>10. ASSUME NEW g \in GPUs, Reset(t, {g}) PROVE Confirmable'
    BY <2>8, <2>10
  <2>11. QED
    BY <1>2, <2>1, <2>2, <2>3, <2>4, <2>5, <2>6, <2>7, <2>8, <2>9, <2>10 DEF Client
<1>3. CASE Notice
  BY <1>3 DEF Notice, Due
<1>4. CASE Load
  BY <1>4 DEF Load
<1>5. CASE RestoreNext
  BY <1>5 DEF RestoreNext
<1>6. CASE Restored
  BY <1>6 DEF Restored
<1>7. CASE HandOver
  BY <1>7 DEF HandOver
<1>8. CASE HandOverCard
  BY <1>8 DEF HandOverCard
<1>9. CASE Stow
  BY <1>9 DEF Stow, Written, Refused, RefusedAt
<1>10. CASE Stowed
  BY <1>10 DEF Stowed
<1>11. CASE Restart
  BY <1>11 DEF Restart, Fresh
<1>12. CASE UNCHANGED vars
  BY <1>12
<1>13. QED
  BY <1>1, <1>2, <1>3, <1>4, <1>5, <1>6, <1>7, <1>8, <1>9, <1>10, <1>11, <1>12 DEF Next, Step, Boot, Leaving

\* A card cleared is one whose choice is stock.
LEMMA ClearedTargets ==
  ASSUME TypeOK, NEW g \in GPUs, Cleared(g)
  PROVE  config'.targets = [config.targets EXCEPT ![g] = Stock]
<1>1. config \in Configs /\ config.armed \in GPUs \cup {None}
  BY DEF TypeOK, Configs
<1>2. PICK a \in GPUs \cup {None} : config' = [config EXCEPT !.targets[g] = Stock, !.armed = a]
  BY <1>1 DEF Cleared, Persist
<1>3. QED
  BY <1>1, <1>2, StockTypeOK, ConfigFields

\* Only confirm records a choice other than stock, and it records what is on
\* the card.
LEMMA StepConfirms ==
  TypeOK /\ Places /\ Confirmable /\ [Next]_vars
  => ConfirmedOnCard
<1> SUFFICES ASSUME TypeOK, Places, Confirmable, [Next]_vars
             PROVE  ConfirmedOnCard
  OBVIOUS
<1> USE ThreadsAssumption, CardsAssumption
<1> USE DEF TypeOK, Places, IsChange, Confirmable, ConfirmedOnCard, Pending, vars, cards, store, change, climbs,
            locals, life
<1>1. ASSUME NEW t \in Threads, Carry(t) PROVE ConfirmedOnCard
  <2>1. CASE ProbeWrites(t)
    BY <2>1 DEF ProbeWrites
  <2>2. CASE Climb(t)
    BY <2>2 DEF Climb
  <2>3. CASE ClimbFails(t)
    BY <2>3 DEF ClimbFails
  <2>4. CASE Commit(t)
    <3>1. on[t] \in GPUs /\ config \in Configs
      BY <2>4 DEF Commit, Move, At, CardLabels
    <3>2. CASE goal[t] = Stock
      <4>1. config' = [config EXCEPT !.targets[on[t]] = Stock, !.armed = None]
        BY <2>4, <3>2 DEF Commit, Persist
      <4>2. config'.targets = [config.targets EXCEPT ![on[t]] = Stock]
        BY <3>1, <4>1, StockTypeOK, ConfigFields
      <4>3. QED
        BY <3>1, <4>2 DEF Configs
    <3>3. CASE goal[t] # Stock
      <4>1. config' = [config EXCEPT !.armed = on[t]]
        BY <2>4, <3>3 DEF Commit, Arm, Persist
      <4>2. config'.targets = config.targets
        BY <3>1, <4>1 DEF Configs
      <4>3. QED
        BY <4>2
    <3>4. QED
      BY <3>2, <3>3
  <2>5. CASE Revert(t)
    BY <2>5 DEF Revert
  <2>6. CASE Undo(t)
    BY <2>6 DEF Undo
  <2>7. CASE Settle(t)
    <3>1. config' \in {config, [config EXCEPT !.armed = None]}
      BY <2>7 DEF Settle, Persist
    <3>2. config'.targets = config.targets
      BY <3>1 DEF Configs
    <3>3. QED
      BY <3>2
  <2>8. CASE ResetBegins(t)
    BY <2>8 DEF ResetBegins
  <2>9. CASE ResetCard(t)
    <3>1. PICK g \in todo[t] : ResetOne(t, g)
      BY <2>9 DEF ResetCard
    <3>2. g \in GPUs
      OBVIOUS
    <3>3. CASE Cleared(g)
      BY <3>2, <3>3, ClearedTargets DEF Configs
    <3>4. CASE UNCHANGED store
      BY <3>4
    <3>5. QED
      BY <3>1, <3>3, <3>4 DEF ResetOne
  <2>10. CASE PutBack(t)
    BY <2>10 DEF PutBack
  <2>11. CASE Record(t)
    <3>1. on[t] \in GPUs /\ Cleared(on[t])
      BY <2>11 DEF Record, Move, At, CardLabels
    <3>2. QED
      BY <3>1, ClearedTargets DEF Configs
  <2>12. CASE ResetEnds(t)
    BY <2>12 DEF ResetEnds
  <2>13. QED
    BY <1>1, <2>1, <2>2, <2>3, <2>4, <2>5, <2>6, <2>7, <2>8, <2>9, <2>10, <2>11, <2>12 DEF Carry
<1>2. ASSUME NEW t \in Clients, Client(t) PROVE ConfirmedOnCard
  <2>1. CASE Consent(t)
    <3>1. config'.targets = config.targets
      BY <2>1 DEF Consent, Persist, Configs
    <3>2. QED
      BY <3>1
  <2>2. CASE Withdraw(t)
    <3>1. config'.targets = config.targets
      BY <2>2 DEF Withdraw, Persist, Configs
    <3>2. QED
      BY <3>1
  <2>3. CASE SetRestoreOnStart(t)
    <3>1. PICK b \in BOOLEAN : Persist([config EXCEPT !.restore = b])
      BY <2>3 DEF SetRestoreOnStart
    <3>2. config'.targets = config.targets
      BY <3>1 DEF Persist, Configs
    <3>3. QED
      BY <3>2
  <2>4. CASE Probe(t)
    BY <2>4 DEF Probe
  <2>5. ASSUME NEW g \in GPUs, NEW to \in Targets, Apply(t, g, to) PROVE ConfirmedOnCard
    BY <2>5 DEF Apply
  <2>6. CASE Confirm(t)
    <3>1. /\ pending.gpu \in GPUs /\ config \in Configs
          /\ Pending /\ pending.phase = "coherent" /\ card' = card
      BY <2>6 DEF Confirm
    <3>2. config' = [config EXCEPT !.targets[pending.gpu] = Current(pending.gpu), !.armed = None]
      BY <2>6 DEF Confirm, Keep, Persist
    <3>3. config'.targets = [config.targets EXCEPT ![pending.gpu] = Current(pending.gpu)]
      BY <3>1, <3>2, TargetsReached, ConfigFields
    <3>4. pc[Main] = "serving" => applied[pending.gpu] \in Offsets /\ pending.gpu \notin refused /\ card[pending.gpu] = applied[pending.gpu]
      BY <3>1
    <3>5. QED
      BY <3>1, <3>3, <3>4, CardsAssumption DEF Current, Configs
  <2>7. CASE Cancel(t)
    BY <2>7 DEF Cancel
  <2>8. ASSUME NEW ids \in SUBSET GPUs, Reset(t, ids) PROVE ConfirmedOnCard
    BY <2>8 DEF Reset
  <2>9. CASE Reset(t, GPUs)
    BY <2>8, <2>9
  <2>10. ASSUME NEW g \in GPUs, Reset(t, {g}) PROVE ConfirmedOnCard
    BY <2>8, <2>10
  <2>11. QED
    BY <1>2, <2>1, <2>2, <2>3, <2>4, <2>5, <2>6, <2>7, <2>8, <2>9, <2>10 DEF Client
<1>3. CASE Notice
  BY <1>3 DEF Notice, Due
<1>4. CASE Load
  BY <1>4 DEF Load, At
<1>5. CASE RestoreNext
  BY <1>5 DEF RestoreNext
<1>6. CASE Restored
  BY <1>6 DEF Restored
<1>7. CASE HandOver
  BY <1>7 DEF HandOver
<1>8. CASE HandOverCard
  BY <1>8 DEF HandOverCard
<1>9. CASE Stow
  BY <1>9 DEF Stow
<1>10. CASE Stowed
  BY <1>10 DEF Stowed
<1>11. CASE Restart
  BY <1>11 DEF Restart, Defaults
<1>12. CASE UNCHANGED vars
  BY <1>12
<1>13. QED
  BY <1>1, <1>2, <1>3, <1>4, <1>5, <1>6, <1>7, <1>8, <1>9, <1>10, <1>11, <1>12 DEF Next, Step, Boot, Leaving

-----------------------------------------------------------------------------
(* The theorems.                                                            *)

\* The daemon starts in the invariant.
LEMMA InitIInv == Init => IInv
<1> SUFFICES ASSUME Init PROVE IInv
  OBVIOUS
<1> USE ThreadsAssumption, CardsAssumption, BoundsAssumption, StockTypeOK, NoChangeTypeOK
<1>1. TypeOK
  <2>1. Fresh \in [Threads -> Labels] /\ Defaults \in Configs
    BY DEF Fresh, Labels, MainLabels, Defaults, Configs
  <2>2. pc \in [Threads -> Labels] /\ config \in Configs /\ disk \in Configs /\ pending \in Changes
    BY <2>1 DEF Init
  <2>3. /\ card \in [GPUs -> Contents] /\ applied \in [GPUs -> Targets \cup {Unmoved}]
        /\ copy \in [Threads -> Changes] /\ on \in [Threads -> GPUs \cup {None}]
        /\ goal \in [Threads -> Targets] /\ found \in [Threads -> Contents \cup {None}]
        /\ todo \in [Threads -> SUBSET GPUs]
    BY DEF Init
  <2>4. /\ hardware \in Threads \cup {None} /\ refused \subseteq GPUs
        /\ generation \in Nat /\ restarts \in 0..MaxRestarts
    BY DEF Init
  <2>5. saved \in BOOLEAN /\ unconfirmed \in BOOLEAN /\ interrupted \in BOOLEAN
    BY DEF Init
  <2>6. QED
    BY <2>2, <2>3, <2>4, <2>5 DEF TypeOK
<1>2. Places /\ Exclusion /\ Identity
  BY DEF Init, Fresh, Threads, Pending, NoChange, Places, Exclusion, Identity, Holds, Serving,
         ClimbLabels, RevertLabels, ResetLabels, ProbeLabels, MainLabels, CardLabels
<1>3. Armed /\ RevertToConfirmed /\ Confirmable
  BY DEF Init, Pending, Armed, RevertToConfirmed, Confirmable
<1>4. Writes /\ Unstarted /\ Known
  BY DEF Init, Fresh, Threads, Writes, Unstarted, Known
<1>5. QED
  BY <1>1, <1>2, <1>3, <1>4 DEF IInv

\* And no step of any thread, and no restart, leaves it.
LEMMA StepIInv == IInv /\ [Next]_vars => IInv'
BY StepTypeOK, StepExclusion, StepIdentity, StepArmed, StepWrites, StepKnown, StepUnstarted,
   StepConfirmable DEF IInv

\* The types, for any number of threads, cards, targets and restarts.
THEOREM TypeCorrect == Spec => []TypeOK
<1>1. IInv => TypeOK
  BY DEF IInv
<1>2. QED
  BY InitIInv, StepIInv, <1>1, PTL DEF Spec

\* A change waiting for its confirmation is on disk as such, whatever order
\* clients, watchdog and restarts come in.
THEOREM ArmedOnDisk == Spec => []ArmedWhilePending
<1>1. IInv => ArmedWhilePending
  BY DEF IInv, Armed, ArmedWhilePending
<1>2. QED
  BY InitIInv, StepIInv, <1>1, PTL DEF Spec

\* What the timer would put back is the last target a human confirmed.
THEOREM RevertsToTheConfirmed == Spec => []RevertToConfirmed
<1>1. IInv => RevertToConfirmed
  BY DEF IInv
<1>2. QED
  BY InitIInv, StepIInv, <1>1, PTL DEF Spec

LEMMA KnownCard == IInv => CardKnown
  BY ThreadsAssumption
     DEF IInv, Known, CardKnown, Wrote, Exclusion, Holds, TypeOK, Places, RevertLabels, MainLabels

\* While nobody is writing, a card believed moved is where it is believed to
\* be, unless it refused its last write.
THEOREM CardIsKnown == Spec => []CardKnown
  BY InitIInv, StepIInv, KnownCard, PTL DEF Spec

\* No interleaving confirms a target the card is not at.
THEOREM OnlyWhatRunsIsConfirmed == Spec => ConfirmsWhatRuns
<1>1. IInv /\ [Next]_vars => [ConfirmedOnCard]_vars
  BY StepConfirms DEF IInv
<1>2. QED
  BY InitIInv, StepIInv, <1>1, PTL DEF Spec, ConfirmsWhatRuns

=============================================================================
