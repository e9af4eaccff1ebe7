---------------------------- MODULE Devices_proofs ----------------------------
(***************************************************************************)
(* Three parts of the daemon that share no state, for any number of         *)
(* processes, callers and keys: a file of the configuration is replaced     *)
(* safely, the lights are as they were set, and a key that is learned       *)
(* answers one learner.                                                     *)
(***************************************************************************)
EXTENDS MCDevices, Overclock_proofs, FiniteSetTheorems, TLAPS

(***************************************************************************)
(* The configuration's store.                                               *)
(***************************************************************************)

\* Whoever is past the lock holds it.
HoldersLock == \A p \in Processes : at[p] \in Locked => lock = p

\* What a holder saw of the file in place still holds.
SeenHolds ==
  \A p \in Processes :
    /\ at[p] = "moving" => inPlace = "broken"
    /\ at[p] \in {"creating", "writing", "flushing", "renaming"} => ~TooNew(p)

\* The temporary file is the holder's, and whole before it is renamed.
TempIsOwn ==
  \A p \in Processes :
    /\ at[p] \in {"flushing", "renaming"} => temp.text = VersionOf(p)
    /\ at[p] = "renaming" => temp.flushed

\* Nothing of ours that was cut short can be in place, now or after a power cut.
NothingTorn == inPlace # "torn" /\ "torn" \notin durable

StoreInv == StoreTypes /\ HoldersLock /\ SeenHolds /\ TempIsOwn /\ NothingTorn

\* One step of one process.
StepOf(p) ==
  \/ LoadFile(p) \/ Lock(p) \/ Reread(p) \/ MoveAside(p)
  \/ BeginSave(p) \/ Check(p) \/ Create(p) \/ Write(p) \/ Flush(p) \/ Rename(p)
  \/ Kill(p)

-----------------------------------------------------------------------------

\* The first state satisfies the invariant.
LEMMA StoreInitInv == StoreInit => StoreInv
  BY StoreAssumption DEF StoreInit, StoreInv, StoreTypes, HoldersLock, SeenHolds, TempIsOwn,
     NothingTorn, Texts, Whole, NoTemp, Locked, Loading, Saving

\* A step of a process keeps the types.
LEMMA StepTypes ==
  ASSUME StoreInv, NEW p \in Processes, StepOf(p)
  PROVE  StoreTypes'
<1> USE DEF StoreTypes, Texts, Whole, Loading, Saving, Moves, Return, Bounds
<1>0. StoreTypes
  BY DEF StoreInv
<1>1. CASE LoadFile(p)
  BY <1>0, <1>1 DEF LoadFile
<1>2. CASE Lock(p)
  BY <1>0, <1>2 DEF Lock
<1>3. CASE Reread(p)
  BY <1>0, <1>3 DEF Reread
<1>4. CASE MoveAside(p)
  <2>1. inPlace = "broken"
    BY <1>4 DEF MoveAside, StoreInv, SeenHolds
  <2> QED
    BY <1>0, <1>4, <2>1 DEF MoveAside
<1>5. CASE BeginSave(p)
  BY <1>0, <1>5 DEF BeginSave
<1>6. CASE Check(p)
  BY <1>0, <1>6 DEF Check
<1>7. CASE Create(p)
  BY <1>0, <1>7 DEF Create
<1>8. CASE Write(p)
  BY <1>0, <1>8 DEF Write, VersionOf
<1>9. CASE Flush(p)
  BY <1>0, <1>9 DEF Flush
<1>10. CASE Rename(p)
  BY <1>0, <1>10 DEF Rename, NoTemp
<1>11. CASE Kill(p)
  BY <1>0, <1>11 DEF Kill, TurnedAway
<1> QED
  BY <1>1, <1>2, <1>3, <1>4, <1>5, <1>6, <1>7, <1>8, <1>9, <1>10, <1>11 DEF StepOf

\* Where a process can be after its step, and what it has then.
LEMMA StepOfOne ==
  ASSUME StoreInv, NEW p \in Processes, StepOf(p)
  PROVE  /\ \A q \in Processes \ {p} : at'[q] = at[q]
         /\ at'[p] \in Locked => lock' = p
         /\ lock' # lock => lock \in {p, "nobody"}
         /\ at[p] \notin Locked => UNCHANGED <<inPlace, durable, temp>>
         /\ edits' = edits /\ cuts' = cuts
<1> USE DEF StoreTypes, Loading, Saving, Locked, Moves, Return, Bounds
<1>0. StoreTypes /\ (at[p] \in Locked => lock = p)
  BY DEF StoreInv, HoldersLock
<1>1. CASE LoadFile(p)
  BY <1>0, <1>1 DEF LoadFile
<1>2. CASE Lock(p)
  BY <1>0, <1>2 DEF Lock
<1>3. CASE Reread(p)
  BY <1>0, <1>3 DEF Reread
<1>4. CASE MoveAside(p)
  BY <1>0, <1>4 DEF MoveAside
<1>5. CASE BeginSave(p)
  BY <1>0, <1>5 DEF BeginSave
<1>6. CASE Check(p)
  BY <1>0, <1>6 DEF Check
<1>7. CASE Create(p)
  BY <1>0, <1>7 DEF Create
<1>8. CASE Write(p)
  BY <1>0, <1>8 DEF Write
<1>9. CASE Flush(p)
  BY <1>0, <1>9 DEF Flush
<1>10. CASE Rename(p)
  BY <1>0, <1>10 DEF Rename
<1>11. CASE Kill(p)
  BY <1>0, <1>11 DEF Kill, TurnedAway
<1> QED
  BY <1>1, <1>2, <1>3, <1>4, <1>5, <1>6, <1>7, <1>8, <1>9, <1>10, <1>11 DEF StepOf

\* What the process that steps has seen and written, after its step.
LEMMA StepOwn ==
  ASSUME StoreInv, NEW p \in Processes, StepOf(p)
  PROVE  /\ at'[p] = "moving" => inPlace' = "broken"
         /\ at'[p] \in {"creating", "writing", "flushing", "renaming"} => ~TooNew(p)'
         /\ at'[p] \in {"flushing", "renaming"} => temp'.text = VersionOf(p)
         /\ at'[p] = "renaming" => temp'.flushed
         /\ NothingTorn'
<1> USE DEF StoreTypes, Loading, Saving, Moves, Return, NothingTorn, TooNew, VersionOf
<1>0. StoreTypes /\ NothingTorn
  BY DEF StoreInv
<1>a. /\ at[p] = "moving" => inPlace = "broken"
      /\ at[p] \in {"creating", "writing", "flushing", "renaming"} => ~TooNew(p)
      /\ at[p] \in {"flushing", "renaming"} => temp.text = VersionOf(p)
      /\ at[p] = "renaming" => temp.flushed
  BY DEF StoreInv, SeenHolds, TempIsOwn
<1>1. CASE LoadFile(p)
  BY <1>0, <1>1 DEF LoadFile
<1>2. CASE Lock(p)
  BY <1>0, <1>2 DEF Lock
<1>3. CASE Reread(p)
  BY <1>0, <1>3 DEF Reread, Unparsed
<1>4. CASE MoveAside(p)
  BY <1>0, <1>a, <1>4 DEF MoveAside
<1>5. CASE BeginSave(p)
  BY <1>0, <1>5 DEF BeginSave
<1>6. CASE Check(p)
  BY <1>0, <1>6 DEF Check
<1>7. CASE Create(p)
  BY <1>0, <1>a, <1>7 DEF Create
<1>8. CASE Write(p)
  BY <1>0, <1>a, <1>8 DEF Write
<1>9. CASE Flush(p)
  BY <1>0, <1>a, <1>9 DEF Flush
<1>10. CASE Rename(p)
  BY <1>0, <1>a, <1>10 DEF Rename
<1>11. CASE Kill(p)
  BY <1>0, <1>11 DEF Kill, TurnedAway
<1> QED
  BY <1>1, <1>2, <1>3, <1>4, <1>5, <1>6, <1>7, <1>8, <1>9, <1>10, <1>11 DEF StepOf

\* A step of a process keeps the invariant: while another holds the lock, this one changes
\* neither the file nor the temporary one.
LEMMA StepInv ==
  ASSUME StoreInv, NEW p \in Processes, StepOf(p)
  PROVE  StoreInv'
<1>1. StoreTypes' /\ NothingTorn'
  BY StepTypes, StepOwn
<1>2. HoldersLock'
  BY StepOfOne, StoreAssumption DEF StoreInv, HoldersLock, Locked
<1>3. ASSUME NEW q \in Processes \ {p}, at'[q] \in Locked
      PROVE  UNCHANGED <<inPlace, durable, temp>> /\ at'[q] = at[q]
  <2>1. at[q] \in Locked /\ lock = q
    BY <1>3, StepOfOne DEF StoreInv, HoldersLock
  <2>2. at[p] \notin Locked
    BY <2>1 DEF StoreInv, HoldersLock
  <2> QED
    BY <1>3, <2>2, StepOfOne
<1>4. SeenHolds'
  <2> SUFFICES ASSUME NEW q \in Processes
               PROVE  /\ at'[q] = "moving" => inPlace' = "broken"
                      /\ at'[q] \in {"creating", "writing", "flushing", "renaming"} => ~TooNew(q)'
    BY DEF SeenHolds
  <2>1. CASE q = p
    BY <2>1, StepOwn
  <2>2. CASE q # p
    BY <1>3, <2>2 DEF StoreInv, SeenHolds, TooNew, Locked
  <2> QED
    BY <2>1, <2>2
<1>5. TempIsOwn'
  <2> SUFFICES ASSUME NEW q \in Processes
               PROVE  /\ at'[q] \in {"flushing", "renaming"} => temp'.text = VersionOf(q)
                      /\ at'[q] = "renaming" => temp'.flushed
    BY DEF TempIsOwn, VersionOf
  <2>1. CASE q = p
    BY <2>1, StepOwn
  <2>2. CASE q # p
    BY <1>3, <2>2 DEF StoreInv, TempIsOwn, Locked
  <2> QED
    BY <2>1, <2>2
<1> QED
  BY <1>1, <1>2, <1>4, <1>5 DEF StoreInv

\* The disk and the editor keep it: a power cut leaves nobody at work, and an editor finds
\* nobody at work.
LEMMA OutsideInv ==
  ASSUME StoreInv, SyncDirectory \/ PowerCut \/ Edit
  PROVE  StoreInv'
<1> USE StoreAssumption DEF StoreInv, StoreTypes, Texts, Whole, Bounds
<1>1. CASE SyncDirectory
  BY <1>1 DEF SyncDirectory, HoldersLock, SeenHolds, TempIsOwn, NothingTorn, TooNew, VersionOf
<1>2. CASE PowerCut
  BY <1>2 DEF PowerCut, HoldersLock, SeenHolds, TempIsOwn, NothingTorn, TooNew, VersionOf, Locked
<1>3. CASE Edit
  <2>1. \A p \in Processes : at[p] \notin Locked
    BY <1>3 DEF Edit, HoldersLock
  <2> QED
    BY <1>3, <2>1 DEF Edit, HoldersLock, SeenHolds, TempIsOwn, NothingTorn, TooNew, VersionOf, Locked
<1> QED
  BY <1>1, <1>2, <1>3

LEMMA StoreInvKept == StoreInv /\ [StoreNext]_storeVars => StoreInv'
<1> SUFFICES ASSUME StoreInv, [StoreNext]_storeVars PROVE StoreInv'
  OBVIOUS
<1>1. CASE UNCHANGED storeVars
  BY <1>1 DEF storeVars, StoreInv, StoreTypes, HoldersLock, SeenHolds, TempIsOwn, NothingTorn, TooNew, VersionOf
<1>2. CASE SyncDirectory \/ PowerCut \/ Edit
  BY <1>2, OutsideInv
<1>3. CASE \E p \in Processes : StepOf(p)
  BY <1>3, StepInv
<1> QED
  BY <1>1, <1>2, <1>3 DEF StoreNext, StepOf

\* The invariant holds for ever.
THEOREM StoreAlwaysInv == StoreSpec => []StoreInv
  BY StoreInvKept, StoreInitInv, PTL DEF StoreSpec

\* What each step may do to the file in place.
LEMMA ReplaceStep ==
  ASSUME StoreInv, StoreInv', [StoreNext]_storeVars, inPlace' # inPlace
  PROVE  /\ inPlace' # "torn"
         /\ edits' = edits /\ cuts' = cuts =>
              /\ inPlace' \in Whole \/ (inPlace' = "absent" /\ inPlace = "broken")
              /\ inPlace = "newer" => inPlace' = "newer"
<1>1. inPlace' # "torn"
  BY DEF StoreInv, NothingTorn
<1>2. CASE PowerCut \/ Edit
  BY <1>1, <1>2 DEF PowerCut, Edit, StoreInv, StoreTypes
<1>3. ASSUME NEW p \in Processes, MoveAside(p)
      PROVE  inPlace' = "absent" /\ inPlace = "broken"
  BY <1>3 DEF MoveAside, Return, Moves, StoreInv, SeenHolds
<1>4. ASSUME NEW p \in Processes, Rename(p)
      PROVE  inPlace' = VersionOf(p) /\ (inPlace = "newer" => p \in Newer)
  BY <1>4 DEF Rename, Return, Moves, StoreInv, SeenHolds, TempIsOwn, TooNew
<1>5. PowerCut \/ Edit \/ \E p \in Processes : MoveAside(p) \/ Rename(p)
  BY DEF StoreNext, storeVars, LoadFile, Lock, Reread, BeginSave, Check, Create, Write, Flush,
     Kill, TurnedAway, SyncDirectory
<1> QED
  BY <1>1, <1>2, <1>3, <1>4, <1>5 DEF VersionOf, Whole

-----------------------------------------------------------------------------

\* The types of ConfigStore hold for ever, for any processes and bounds.
THEOREM StoreTypesAlways == StoreSpec => []StoreTypes
  BY StoreAlwaysInv, PTL DEF StoreInv

LEMMA StoreReplaces ==
  StoreInv /\ StoreInv' /\ [StoreNext]_storeVars =>
    [inPlace' # inPlace =>
       /\ inPlace' # "torn"
       /\ edits' = edits /\ cuts' = cuts =>
            /\ inPlace' \in Whole \/ (inPlace' = "absent" /\ inPlace = "broken")
            /\ inPlace = "newer" => inPlace' = "newer"]_storeVars
  BY ReplaceStep

\* The file in place is never one of ours cut short; it gives way only to a whole one or is
\* moved aside because it does not parse, and a newer build's only to its own (save_inner,
\* load_inner, preserve_broken).
THEOREM AlwaysReplacedSafely == StoreSpec => ReplacedSafely
  BY StoreAlwaysInv, StoreReplaces, PTL DEF StoreSpec, ReplacedSafely

(***************************************************************************)
(* The lights.                                                              *)
(***************************************************************************)

\* Who is past the wait for the writer lock holds it.
HolderWrites == \A a \in Actors : job[a].at \in {"stopping", "writing"} <=> hw = a

\* The running effect was told to stop by the holder, who writes only when it has ended.
EffectStops ==
  /\ frames.effect = NoEffect => frames = NoThread
  /\ hw = Nobody => ~frames.told
  /\ \A a \in Actors : job[a].at = "stopping" => frames.effect = NoEffect \/ frames.told
  /\ \A a \in Actors : job[a].at = "writing" => frames = NoThread

\* What a call brings, or has read under the lock.
JobKnown ==
  /\ \A a \in Actors :
       /\ job[a].what = "none" => job[a].at = "idle"
       /\ job[a].what \in {"leave", "shutdown"} => ending
       /\ job[a].what \in {"effect", "again"} => job[a].effect # NoEffect
       /\ job[a].what = "on" /\ hw = a => job[a].look = wish.look /\ job[a].effect = wish.effect
  /\ ~ending => job["exit"].at = "idle"

LightsKnown == LightsTypes /\ HolderWrites /\ EffectStops /\ JobKnown /\ LightsAsSet

LEMMA NobodyIsNoActor == Nobody \notin Actors
  BY LightsAssumption DEF Actors, Nobody

\* What a call turns into once it has the lock.
LEMMA TurnedKnown ==
  ASSUME NEW task \in Jobs, NEW answers \in BOOLEAN, wish \in Wishes
  PROVE  LET r == Turned(task, answers)
         IN  /\ r \in Jobs
             /\ r.what \in {"leave", "shutdown"} => task.what \in {"leave", "shutdown"}
             /\ r.what \in {"effect", "again"} =>
                  \/ r.effect = wish.effect /\ wish.effect # NoEffect
                  \/ r.effect = task.effect /\ r.what = task.what
             /\ r.what = "on" => r.look = wish.look /\ r.effect = wish.effect
             /\ r # NoJob /\ task.what # "none" => r.what # "none"
<1> DEFINE As(what) == [task EXCEPT !.what = what, !.look = wish.look, !.effect = wish.effect]
           r == Turned(task, answers)
<1>1. \/ r = NoJob
      \/ r = As("zones") \/ r = As("silence") \/ r = As("on") \/ r = As("off")
      \/ r = As("again") /\ wish.effect # NoEffect
      \/ r = As("leave") /\ task.what \in {"leave", "shutdown"}
      \/ r = task /\ task.what \notin {"brightness", "restart", "on", "shutdown", "leave"}
  BY DEF Turned
<1>2. \A what \in {"zones", "silence", "on", "off", "again", "leave"} :
        /\ As(what) \in Jobs /\ As(what).what = what
        /\ As(what).look = wish.look /\ As(what).effect = wish.effect
  BY DEF Jobs, Wishes
<1>3. NoJob \in Jobs /\ NoJob.what = "none"
  BY LightsAssumption DEF NoJob, Jobs
<1> HIDE DEF r, As
<1> QED
  BY <1>1, <1>2, <1>3 DEF r

LEMMA LightsKnownAtFirst == LightsInit => LightsKnown
<1> SUFFICES ASSUME LightsInit PROVE LightsKnown
  OBVIOUS
<1>1. NoJob \in Jobs /\ NoJob.what = "none" /\ NoJob.at = "idle"
  BY LightsAssumption DEF NoJob, Jobs
<1>2. lit \in Looks \cup {Foreign} /\ wish \in Wishes /\ onFile \in Wishes
  BY LightsAssumption DEF LightsInit, Wishes
<1>3. frames \in [effect : Moving \cup {NoEffect}, told : BOOLEAN]
  BY DEF LightsInit, NoThread
<1>4. job \in [Actors -> Jobs]
  BY <1>1 DEF LightsInit
<1>5. starts \in 0..MaxStarts
  BY LightsAssumption DEF LightsInit
<1>6. LightsTypes
  BY <1>2, <1>3, <1>4, <1>5 DEF LightsInit, LightsTypes
<1> QED
  BY <1>1, <1>6, NobodyIsNoActor
     DEF LightsInit, LightsKnown, HolderWrites, EffectStops, JobKnown, LightsAsSet, NoThread, Actors

\* A step that ends the call of the one who holds the lock, with the rest of its promises.
LEMMA EndJobKept ==
  ASSUME LightsKnown, NEW a \in Actors, hw = a, EndJob(a), LightsTypes',
         UNCHANGED ending, ~frames'.told, frames'.effect = NoEffect => frames' = NoThread,
         LightsAsSet'
  PROVE  LightsKnown'
<1>1. NoJob.what = "none" /\ NoJob.at = "idle" /\ "exit" \in Actors
  BY DEF NoJob, Actors
<1>2. \A b \in Actors : job'[b] = IF b = a THEN NoJob ELSE job[b]
  BY DEF EndJob, LightsKnown, LightsTypes
<1>3. \A b \in Actors : job'[b].at \notin {"stopping", "writing"}
  BY <1>1, <1>2 DEF LightsKnown, HolderWrites
<1>4. hw' = Nobody
  BY DEF EndJob
<1>5. HolderWrites'
  BY <1>3, <1>4, NobodyIsNoActor DEF HolderWrites
<1>6. EffectStops'
  BY <1>3 DEF EffectStops
<1>7. JobKnown'
  BY <1>1, <1>2, <1>4, NobodyIsNoActor DEF LightsKnown, JobKnown
<1> QED
  BY <1>5, <1>6, <1>7 DEF LightsKnown

LEMMA WriteFailsKept ==
  ASSUME LightsKnown, NEW a \in Actors, job[a].at = "writing", WriteFails(a),
         UNCHANGED <<speaks, lifetime>>
  PROVE  LightsKnown'
<1>1. hw = a /\ frames = NoThread
  BY DEF LightsKnown, HolderWrites, EffectStops
<1>2. NoJob \in Jobs
  BY LightsAssumption DEF NoJob, Jobs
<1>3. LightsTypes'
  BY <1>2 DEF WriteFails, EndJob, lifetime, LightsKnown, LightsTypes
<1>4. LightsAsSet'
  BY DEF WriteFails, LightsAsSet
<1> QED
  BY <1>1, <1>3, <1>4, EndJobKept DEF WriteFails, lifetime, NoThread

\* A call that begins: it waits, and has not the lock.
LEMMA AskKept ==
  ASSUME LightsKnown, NEW a \in Actors, job[a].at \notin {"stopping", "writing"}, NEW task \in Jobs,
         task.at = "asked", task.what # "none", job' = [job EXCEPT ![a] = task],
         task.what \in {"leave", "shutdown"} => ending',
         task.what \in {"effect", "again"} => task.effect # NoEffect,
         ending' = TRUE \/ (ending' = ending /\ a # "exit"),
         UNCHANGED <<lit, wish, onFile, speaks, status, frames, hw, starts>>
  PROVE  LightsKnown'
<1>1. \A b \in Actors : job'[b] = IF b = a THEN task ELSE job[b]
  BY DEF LightsKnown, LightsTypes
<1>2. hw # a
  BY DEF LightsKnown, HolderWrites
<1>3. LightsTypes'
  BY DEF LightsKnown, LightsTypes, status
<1>4. HolderWrites'
  BY <1>1, <1>2 DEF LightsKnown, HolderWrites
<1>5. EffectStops'
  BY <1>1 DEF LightsKnown, EffectStops
<1>6. JobKnown'
  BY <1>1, <1>2 DEF LightsKnown, JobKnown, Actors
<1>7. LightsAsSet'
  BY DEF LightsKnown, LightsAsSet, status
<1> QED
  BY <1>3, <1>4, <1>5, <1>6, <1>7 DEF LightsKnown

LEMMA AskedKept ==
  ASSUME LightsKnown, NEW a \in Players, NEW look \in Looks, NEW effect \in Moving \cup {NoEffect},
         NEW what \in {"zones", "static", "brightness", "effect", "restart", "on", "off"},
         what = "effect" => effect # NoEffect,
         Ask(a, what, look, effect)
  PROVE  LightsKnown'
<1> DEFINE task == [what |-> what, at |-> "asked", look |-> look, effect |-> effect]
<1>1. task \in Jobs
  BY DEF Jobs
<1>2. a \in Actors /\ a # "exit" /\ job[a].at \notin {"stopping", "writing"}
  <2>1. a # "exit"
    BY LightsAssumption
  <2>2. a \in Actors /\ job[a].what = "none"
    BY DEF Ask, Actors
  <2> QED
    BY <2>1, <2>2 DEF LightsKnown, JobKnown
<1>3. job' = [job EXCEPT ![a] = task] /\ UNCHANGED <<lit, wish, onFile, speaks, status, frames, hw, lifetime>>
  BY DEF Ask
<1>4. UNCHANGED <<starts, ending>>
  BY <1>3 DEF lifetime
<1> QED
  BY <1>1, <1>2, <1>3, <1>4, AskKept

LEMMA CallKept ==
  ASSUME LightsKnown, NEW a \in Players,
         \/ \E look \in Looks : SetZones(a, look)
         \/ \E effect \in Moving : SetEffect(a, effect)
         \/ \E what \in {"on", "off"}, ifEnabled \in BOOLEAN : PowerLights(a, what, ifEnabled)
         \/ StopEffect(a) \/ SetBrightness(a) \/ AllowTruncated(a)
  PROVE  LightsKnown'
<1>1. Black \in Looks /\ wish.look \in Looks /\ NoEffect \notin Moving
  BY LightsAssumption DEF LightsKnown, LightsTypes, Wishes
<1>2. CASE \E look \in Looks : SetZones(a, look)
  BY <1>2, AskedKept DEF SetZones
<1>3. CASE \E effect \in Moving : SetEffect(a, effect)
  BY <1>1, <1>3, AskedKept DEF SetEffect
<1>4. CASE \E what \in {"on", "off"}, ifEnabled \in BOOLEAN : PowerLights(a, what, ifEnabled)
  BY <1>1, <1>4, AskedKept DEF PowerLights
<1>5. CASE StopEffect(a) \/ SetBrightness(a) \/ AllowTruncated(a)
  BY <1>1, <1>5, AskedKept DEF StopEffect, SetBrightness, AllowTruncated
<1> QED
  BY <1>2, <1>3, <1>4, <1>5

LEMMA ExitKept ==
  ASSUME LightsKnown, NEW what \in {"leave", "shutdown"}, Exit(what)
  PROVE  LightsKnown'
<1> DEFINE task == [NoJob EXCEPT !.what = what, !.at = "asked"]
<1>1. task \in Jobs /\ task.at = "asked" /\ task.what = what
  BY LightsAssumption DEF NoJob, Jobs
<1>2. "exit" \in Actors /\ job["exit"].at \notin {"stopping", "writing"}
  BY DEF Actors, Exit, LightsKnown, JobKnown
<1> QED
  BY <1>1, <1>2, AskKept DEF Exit

\* The call that has its turn: with nothing to write it is over, and otherwise it holds the lock
\* and has told the effect's thread.
LEMMA TakeHwKept == ASSUME LightsKnown, NEW a \in Actors, TakeHw(a) PROVE LightsKnown'
<1> DEFINE task == Turned(job[a], speaks')
<1>1. job[a] \in Jobs /\ job[a].at = "asked" /\ hw = Nobody /\ wish \in Wishes
  BY DEF TakeHw, LightsKnown, LightsTypes
<1>2. speaks' \in BOOLEAN
  BY DEF TakeHw, LightsKnown, LightsTypes
<1>3. /\ task \in Jobs
      /\ task.what \in {"leave", "shutdown"} => job[a].what \in {"leave", "shutdown"}
      /\ task.what \in {"effect", "again"} =>
           \/ task.effect = wish.effect /\ wish.effect # NoEffect
           \/ task.effect = job[a].effect /\ task.what = job[a].what
      /\ task.what = "on" => task.look = wish.look /\ task.effect = wish.effect
      /\ task # NoJob /\ job[a].what # "none" => task.what # "none"
  BY <1>1, <1>2, TurnedKnown
<1>4. job[a].what # "none" /\ (a = "exit" => ending)
  BY <1>1 DEF LightsKnown, JobKnown
<1>5. onFile' \in Wishes
  BY <1>1 DEF TakeHw, Save, LightsKnown, LightsTypes
<1>6. UNCHANGED <<lit, wish, dark, owned, error, standing, ending, starts>>
  BY DEF TakeHw, status, lifetime
<1>7. NoJob \in Jobs /\ NoJob.what = "none" /\ NoJob.at = "idle"
  BY LightsAssumption DEF NoJob, Jobs
<1>8. \A b \in Actors : job[b].at \notin {"stopping", "writing"}
  BY <1>1, NobodyIsNoActor DEF LightsKnown, HolderWrites
<1>9. CASE job' = [job EXCEPT ![a] = NoJob] /\ UNCHANGED <<hw, frames>>
  <2>1. \A b \in Actors : job'[b] = IF b = a THEN NoJob ELSE job[b]
    BY <1>9 DEF LightsKnown, LightsTypes
  <2>2. LightsTypes'
    BY <1>2, <1>5, <1>6, <1>7, <1>9 DEF LightsKnown, LightsTypes
  <2>3. HolderWrites' /\ EffectStops'
    BY <1>1, <1>7, <1>8, <1>9, <2>1, NobodyIsNoActor DEF LightsKnown, HolderWrites, EffectStops
  <2>4. JobKnown'
    BY <1>1, <1>4, <1>6, <1>7, <1>9, <2>1, NobodyIsNoActor DEF LightsKnown, JobKnown, Actors
  <2>5. LightsAsSet'
    BY <1>6, <1>9 DEF LightsKnown, LightsAsSet
  <2> QED
    BY <2>2, <2>3, <2>4, <2>5 DEF LightsKnown
<1>10. CASE /\ task # NoJob
            /\ hw' = a
            /\ job' = [job EXCEPT ![a] = [task EXCEPT !.at = "stopping"]]
            /\ frames' = [frames EXCEPT !.told = frames.effect # NoEffect]
  <2> DEFINE toStop == [task EXCEPT !.at = "stopping"]
  <2>1. /\ toStop \in Jobs /\ toStop.at = "stopping"
        /\ toStop.what = task.what /\ toStop.look = task.look /\ toStop.effect = task.effect
    BY <1>3 DEF Jobs
  <2>2. \A b \in Actors : job'[b] = IF b = a THEN toStop ELSE job[b]
    BY <1>10 DEF LightsKnown, LightsTypes
  <2>3. frames \in [effect : Moving \cup {NoEffect}, told : BOOLEAN]
    BY DEF LightsKnown, LightsTypes
  <2>4. /\ frames' \in [effect : Moving \cup {NoEffect}, told : BOOLEAN]
        /\ frames'.effect = frames.effect /\ (frames'.told <=> frames.effect # NoEffect)
        /\ frames.effect = NoEffect => frames' = NoThread
    BY <1>10, <2>3 DEF NoThread
  <2>5. a # Nobody
    BY NobodyIsNoActor
  <2> HIDE DEF toStop
  <2>6. LightsTypes'
    <3>1. job' \in [Actors -> Jobs]
      BY <1>10, <2>1 DEF LightsKnown, LightsTypes, toStop
    <3> QED
      BY <1>2, <1>5, <1>6, <1>10, <2>4, <3>1 DEF LightsKnown, LightsTypes
  <2>7. HolderWrites'
    BY <1>8, <1>10, <2>1, <2>2 DEF HolderWrites
  <2>8. EffectStops'
    BY <1>8, <1>10, <2>1, <2>2, <2>4, <2>5 DEF EffectStops
  <2>9. JobKnown'
    BY <1>3, <1>4, <1>6, <1>8, <1>10, <2>1, <2>2 DEF LightsKnown, JobKnown, Actors
  <2>10. LightsAsSet'
    BY <1>10, <2>5 DEF LightsAsSet
  <2> QED
    BY <2>6, <2>7, <2>8, <2>9, <2>10 DEF LightsKnown
<1> QED
  BY <1>9, <1>10 DEF TakeHw

LEMMA AwaitStopKept == ASSUME LightsKnown, NEW a \in Actors, AwaitStop(a) PROVE LightsKnown'
<1> DEFINE toWrite == [job[a] EXCEPT !.at = "writing"]
<1>1. job[a] \in Jobs /\ job[a].at = "stopping" /\ hw = a /\ frames = NoThread
  BY DEF AwaitStop, Stopped, LightsKnown, LightsTypes, HolderWrites, EffectStops
<1>2. /\ toWrite \in Jobs /\ toWrite.at = "writing"
      /\ toWrite.what = job[a].what /\ toWrite.look = job[a].look /\ toWrite.effect = job[a].effect
  BY <1>1 DEF Jobs
<1>3. job' = [job EXCEPT ![a] = toWrite]
  BY <1>1 DEF AwaitStop
<1>4. \A b \in Actors : job'[b] = IF b = a THEN toWrite ELSE job[b]
  BY <1>3 DEF LightsKnown, LightsTypes
<1>5. UNCHANGED <<lit, wish, onFile, speaks, dark, owned, error, standing, frames, hw, ending, starts>>
  BY DEF AwaitStop, status, lifetime
<1>6. LightsTypes'
  BY <1>2, <1>3, <1>5 DEF LightsKnown, LightsTypes
<1> HIDE DEF toWrite
<1>7. HolderWrites' /\ EffectStops'
  BY <1>1, <1>2, <1>4, <1>5 DEF LightsKnown, HolderWrites, EffectStops
<1>8. JobKnown'
  BY <1>1, <1>2, <1>4, <1>5 DEF LightsKnown, JobKnown, Actors
<1>9. LightsAsSet'
  BY <1>5 DEF LightsKnown, LightsAsSet
<1> QED
  BY <1>6, <1>7, <1>8, <1>9 DEF LightsKnown

LEMMA WriteKept ==
  ASSUME LightsKnown, NEW a \in Actors,
         \/ WriteZones(a) \/ WriteEffect(a) \/ WriteOn(a) \/ WriteOff(a) \/ WriteLeave(a)
         \/ WriteNothing(a)
  PROVE  LightsKnown'
<1>1. /\ job[a].at = "writing" /\ hw = a /\ frames = NoThread
      /\ job[a] \in Jobs /\ wish \in Wishes /\ onFile \in Wishes
  BY DEF WriteZones, WriteEffect, WriteOn, WriteOff, WriteLeave, WriteNothing,
         LightsKnown, LightsTypes, HolderWrites, EffectStops
<1>2. NoJob \in Jobs
  BY LightsAssumption DEF NoJob, Jobs
<1>3. \A look \in Looks, effect \in Moving \cup {NoEffect} :
        /\ [wish EXCEPT !.look = look, !.effect = effect] \in Wishes
        /\ [wish EXCEPT !.effect = effect] \in Wishes
        /\ [effect |-> effect, told |-> FALSE] \in [effect : Moving \cup {NoEffect}, told : BOOLEAN]
  BY <1>1 DEF Wishes
<1>4. /\ job[a].look \in Looks /\ job[a].effect \in Moving \cup {NoEffect}
      /\ NoEffect \in Moving \cup {NoEffect} /\ Black \in Looks
  BY <1>1, LightsAssumption DEF Jobs
<1>5. CASE WriteZones(a) /\ ~WriteFails(a)
  <2>1. /\ lit' = job[a].look /\ Save(wish') /\ Recorded(FALSE) /\ EndJob(a)
        /\ wish' = [wish EXCEPT !.look = job[a].look, !.effect = NoEffect]
        /\ UNCHANGED <<frames, speaks, ending, starts>>
    BY <1>5 DEF WriteZones, lifetime
  <2>2. wish' \in Wishes /\ wish'.look = job[a].look /\ wish'.effect = NoEffect
    BY <1>1, <1>3, <1>4, <2>1 DEF Wishes
  <2>3. LightsTypes'
    BY <1>1, <1>2, <1>4, <2>1, <2>2 DEF LightsKnown, LightsTypes, EndJob, Recorded, Save
  <2>4. LightsAsSet'
    BY <1>1, <2>1, <2>2 DEF LightsAsSet, Recorded
  <2> QED
    BY <1>1, <2>1, <2>3, <2>4, EndJobKept DEF NoThread
<1>6. CASE WriteEffect(a) /\ ~WriteFails(a)
  <2>1. /\ StartEffect(job[a].effect) /\ EndJob(a) /\ (Save(wish') \/ UNCHANGED onFile)
        /\ wish' = [wish EXCEPT !.effect = job[a].effect] /\ job[a].effect # NoEffect
        /\ UNCHANGED <<lit, speaks, ending, starts>>
    BY <1>6 DEF WriteEffect, lifetime, LightsKnown, JobKnown
  <2>2. wish' \in Wishes /\ wish'.effect = job[a].effect
    BY <1>1, <1>3, <1>4, <2>1 DEF Wishes
  <2>3. /\ frames' = [effect |-> job[a].effect, told |-> FALSE] /\ Recorded(FALSE)
        /\ frames' \in [effect : Moving \cup {NoEffect}, told : BOOLEAN]
    BY <1>3, <1>4, <2>1 DEF StartEffect
  <2>4. LightsTypes'
    BY <1>1, <1>2, <2>1, <2>2, <2>3 DEF LightsKnown, LightsTypes, EndJob, Recorded, Save
  <2>5. LightsAsSet'
    BY <2>1, <2>2, <2>3 DEF LightsAsSet, Recorded
  <2> QED
    BY <1>1, <2>1, <2>3, <2>4, <2>5, EndJobKept
<1>7. CASE WriteOn(a) /\ ~WriteFails(a)
  <2>1. EndJob(a) /\ UNCHANGED <<wish, onFile, speaks, ending, starts>>
    BY <1>7 DEF WriteOn, lifetime
  <2>2. job[a].look = wish.look /\ job[a].effect = wish.effect
    BY <1>1, <1>7 DEF WriteOn, LightsKnown, JobKnown
  <2>3. CASE job[a].effect = NoEffect /\ lit' = job[a].look /\ Recorded(FALSE) /\ UNCHANGED frames
    <3>1. LightsTypes'
      BY <1>2, <1>4, <2>1, <2>3 DEF LightsKnown, LightsTypes, EndJob, Recorded
    <3>2. LightsAsSet'
      BY <1>1, <2>1, <2>2, <2>3 DEF LightsAsSet, Recorded
    <3> QED
      BY <1>1, <2>1, <2>3, <3>1, <3>2, EndJobKept DEF NoThread
  <2>4. CASE job[a].effect # NoEffect /\ lit' = Foreign /\ StartEffect(job[a].effect)
    <3>1. /\ frames' = [effect |-> job[a].effect, told |-> FALSE] /\ Recorded(FALSE)
          /\ frames' \in [effect : Moving \cup {NoEffect}, told : BOOLEAN]
      BY <1>3, <1>4, <2>4 DEF StartEffect
    <3>2. LightsTypes'
      BY <1>2, <2>1, <2>4, <3>1 DEF LightsKnown, LightsTypes, EndJob, Recorded
    <3>3. LightsAsSet'
      BY <2>1, <2>2, <2>4, <3>1 DEF LightsAsSet, Recorded
    <3> QED
      BY <1>1, <2>1, <2>4, <3>1, <3>2, <3>3, EndJobKept
  <2>5. CASE lit' = Foreign /\ standing' = FALSE /\ UNCHANGED <<dark, owned, error, frames>>
    <3>1. LightsTypes'
      BY <1>2, <2>1, <2>5 DEF LightsKnown, LightsTypes, EndJob
    <3>2. LightsAsSet'
      BY <2>5 DEF LightsAsSet
    <3> QED
      BY <1>1, <2>1, <2>5, <3>1, <3>2, EndJobKept DEF NoThread
  <2> QED
    BY <1>7, <2>3, <2>4, <2>5 DEF WriteOn
<1>8. CASE WriteOff(a) /\ ~WriteFails(a)
  <2>1. /\ lit' = Black /\ Recorded(TRUE) /\ EndJob(a)
        /\ UNCHANGED <<wish, onFile, frames, speaks, ending, starts>>
    BY <1>8 DEF WriteOff, lifetime
  <2>2. LightsTypes'
    BY <1>2, <1>4, <2>1 DEF LightsKnown, LightsTypes, EndJob, Recorded
  <2>3. LightsAsSet'
    BY <1>1, <2>1 DEF LightsAsSet, Recorded
  <2> QED
    BY <1>1, <2>1, <2>2, <2>3, EndJobKept DEF NoThread
<1>9. CASE WriteLeave(a)
  <2>1. EndJob(a) /\ UNCHANGED <<wish, onFile, speaks, dark, owned, error, standing, frames, ending, starts>>
    BY <1>9 DEF WriteLeave, lifetime, status
  <2>2. ending /\ lit' \in Looks \cup {Foreign}
    BY <1>4, <1>9 DEF WriteLeave, LightsKnown, LightsTypes, JobKnown
  <2>3. LightsTypes'
    BY <1>2, <2>1, <2>2 DEF LightsKnown, LightsTypes, EndJob
  <2>4. LightsAsSet'
    BY <2>1, <2>2 DEF LightsAsSet
  <2> QED
    BY <1>1, <2>1, <2>3, <2>4, EndJobKept DEF NoThread
<1>10. CASE WriteNothing(a)
  <2>1. /\ EndJob(a) /\ standing' = FALSE
        /\ UNCHANGED <<lit, wish, onFile, speaks, dark, owned, error, frames, ending, starts>>
    BY <1>10 DEF WriteNothing, lifetime
  <2>2. LightsTypes'
    BY <1>2, <2>1 DEF LightsKnown, LightsTypes, EndJob
  <2>3. LightsAsSet'
    BY <2>1 DEF LightsAsSet
  <2> QED
    BY <1>1, <2>1, <2>2, <2>3, EndJobKept DEF NoThread
<1>11. CASE WriteFails(a)
  <2>1. UNCHANGED <<speaks, lifetime>>
    BY DEF WriteZones, WriteEffect, WriteOn, WriteOff, WriteLeave, WriteNothing
  <2> QED
    BY <1>1, <1>11, <2>1, WriteFailsKept
<1> QED
  BY <1>5, <1>6, <1>7, <1>8, <1>9, <1>10, <1>11

(* The settings and the effect's thread, which take no lock.                *)

LEMMA LightsAloneKept ==
  ASSUME LightsKnown,
         SetDialect \/ SetPowerAnimation \/ DrawFrame \/ EndEffect \/ GiveUpEffect
  PROVE  LightsKnown'
<1>1. UNCHANGED <<hw, job, dark, owned, standing, ending, starts>>
  BY DEF SetDialect, SetPowerAnimation, DrawFrame, EndEffect, GiveUpEffect, status, lifetime
<1>2. HolderWrites'
  BY <1>1 DEF LightsKnown, HolderWrites
<1>3. /\ wish' \in Wishes /\ onFile' \in Wishes
      /\ wish'.look = wish.look /\ wish'.effect = wish.effect
  BY DEF SetDialect, SetPowerAnimation, DrawFrame, EndEffect, GiveUpEffect, Save, Wishes,
         LightsKnown, LightsTypes
<1>4. JobKnown'
  BY <1>1, <1>3 DEF LightsKnown, JobKnown
<1>5. CASE SetDialect \/ SetPowerAnimation
  <2>1. UNCHANGED <<lit, error, frames>> /\ speaks' \in BOOLEAN
    BY <1>5 DEF SetDialect, SetPowerAnimation, status, LightsKnown, LightsTypes
  <2> QED
    BY <1>1, <1>2, <1>3, <1>4, <2>1 DEF LightsKnown, LightsTypes, EffectStops, LightsAsSet
<1>6. CASE DrawFrame
  BY <1>1, <1>2, <1>3, <1>4, <1>6
     DEF DrawFrame, status, LightsKnown, LightsTypes, EffectStops, LightsAsSet, NoThread
<1>7. CASE EndEffect \/ GiveUpEffect
  <2>1. /\ frames' = NoThread /\ UNCHANGED <<lit, speaks, wish>>
        /\ error' \in BOOLEAN /\ (error' \/ hw # Nobody)
    BY <1>7 DEF EndEffect, GiveUpEffect, status, LightsKnown, LightsTypes, EffectStops
  <2>2. NoThread \in [effect : Moving \cup {NoEffect}, told : BOOLEAN] /\ ~NoThread.told /\ NoThread.effect = NoEffect
    BY DEF NoThread
  <2> QED
    <3>1. LightsTypes'
      BY <1>1, <1>3, <2>1, <2>2 DEF LightsKnown, LightsTypes
    <3>2. EffectStops'
      BY <2>1, <2>2 DEF EffectStops
    <3>3. LightsAsSet'
      BY <1>1, <2>1 DEF LightsAsSet
    <3> QED
      BY <1>2, <1>4, <3>1, <3>2, <3>3 DEF LightsKnown
<1> QED
  BY <1>5, <1>6, <1>7

LEMMA StartLightsKept == ASSUME LightsKnown, StartLights PROVE LightsKnown'
<1>1. PICK restoring \in BOOLEAN : LightsBegin(onFile, restoring)
  BY DEF StartLights
<1>2. NoJob \in Jobs /\ NoJob.what = "none" /\ NoJob.at = "idle"
  BY LightsAssumption DEF NoJob, Jobs
<1>3. onFile \in Wishes /\ wish' = onFile /\ onFile' = onFile
  BY <1>1 DEF LightsBegin, StartLights, LightsKnown, LightsTypes
<1>4. /\ NoThread \in [effect : Moving \cup {NoEffect}, told : BOOLEAN]
      /\ [effect |-> onFile.effect, told |-> FALSE] \in [effect : Moving \cup {NoEffect}, told : BOOLEAN]
  BY <1>3 DEF NoThread, Wishes
<1>5. frames' \in [effect : Moving \cup {NoEffect}, told : BOOLEAN] /\ ~frames'.told
  BY <1>1, <1>4 DEF LightsBegin, NoThread
<1>6. frames'.effect = NoEffect => frames' = NoThread
  BY <1>1 DEF LightsBegin, NoThread
<1>7. lit' \in Looks \cup {Foreign}
  BY <1>1, <1>3 DEF LightsBegin, Wishes, LightsKnown, LightsTypes
<1>8. starts' \in 0..MaxStarts
  BY LightsAssumption DEF StartLights, LightsKnown, LightsTypes
<1>9. /\ hw' = Nobody /\ job' = [b \in Actors |-> NoJob] /\ ending' = FALSE
      /\ dark' = FALSE /\ owned' \in BOOLEAN /\ standing' \in BOOLEAN
  BY <1>1 DEF LightsBegin
<1>10. speaks' \in BOOLEAN /\ error' \in BOOLEAN
  BY <1>1 DEF LightsBegin, StartLights
<1>11. LightsTypes'
  BY <1>2, <1>3, <1>5, <1>7, <1>8, <1>9, <1>10 DEF LightsTypes
<1>12. HolderWrites' /\ JobKnown'
  BY <1>2, <1>9, NobodyIsNoActor DEF HolderWrites, JobKnown, Actors
<1>13. EffectStops'
  BY <1>2, <1>5, <1>6, <1>9 DEF EffectStops
<1>14. LightsAsSet'
  BY <1>1, <1>3 DEF LightsBegin, LightsAsSet, NoThread
<1> QED
  BY <1>11, <1>12, <1>13, <1>14 DEF LightsKnown

LEMMA LightsKnownKept == LightsKnown /\ [LightsNext]_lightsVars => LightsKnown'
<1> SUFFICES ASSUME LightsKnown, [LightsNext]_lightsVars PROVE LightsKnown'
  OBVIOUS
<1>1. CASE UNCHANGED lightsVars
  BY <1>1 DEF lightsVars, LightsKnown, LightsTypes, HolderWrites, EffectStops, JobKnown, LightsAsSet
<1>2. CASE Exit("leave") \/ Exit("shutdown")
  BY <1>2, ExitKept
<1>3. ASSUME NEW a \in Actors, TakeHw(a) \/ AwaitStop(a) PROVE LightsKnown'
  BY <1>3, TakeHwKept, AwaitStopKept
<1> QED
  BY <1>1, <1>2, <1>3, CallKept, WriteKept, LightsAloneKept, StartLightsKept DEF LightsNext

\* The types of the lights hold for ever, for any callers, looks and effects.
THEOREM LightsTypesAlways == LightsSpec => []LightsTypes
<1>1. LightsKnown => LightsTypes
  BY DEF LightsKnown
<1> QED
  BY <1>1, LightsKnownAtFirst, LightsKnownKept, PTL DEF LightsSpec

\* With nobody at them, the lights are what was last set: the write lands after the last frame of
\* the effect it stops, whatever calls, refusals, exits and restarts come in between
\* (State::hw, Animator::stop).
THEOREM LightsAlwaysAsSet == LightsSpec => []LightsAsSet
<1>1. LightsKnown => LightsAsSet
  BY DEF LightsKnown
<1> QED
  BY <1>1, LightsKnownAtFirst, LightsKnownKept, PTL DEF LightsSpec

(***************************************************************************)
(* The key watcher.                                                         *)
(***************************************************************************)

\* A key that was caught came after whoever waits asked, and nobody has had it.
ReportKnown ==
  /\ heard \in Nat /\ used \subseteq 1..heard
  /\ waiting \in [Learners -> [open : BOOLEAN, since : Nat, bind : BOOLEAN]]
  /\ \A c \in Learners : waiting[c].since <= heard
  /\ window.caught.number \in 0..heard
  /\ window.caught # Silence =>
       /\ window.caught.number \in 1..heard \ used
       /\ \A c \in Learners : waiting[c].open => waiting[c].since < window.caught.number

LEMMA ReportKnownAtFirst == HotkeyInit => ReportKnown
<1> SUFFICES ASSUME HotkeyInit PROVE ReportKnown
  OBVIOUS
<1>1. /\ waiting \in [Learners -> [open : BOOLEAN, since : Nat, bind : BOOLEAN]]
      /\ \A c \in Learners : waiting[c].since = 0
  BY DEF HotkeyInit, NotWaiting
<1>2. window.caught = Silence /\ window.caught.number = 0
  BY DEF HotkeyInit, Silence
<1>3. heard = 0 /\ used = {}
  BY DEF HotkeyInit
<1> QED
  BY <1>1, <1>2, <1>3 DEF ReportKnown

\* A report that is dealt with and caught by no window.
LEMMA ReportPassed ==
  ASSUME ReportKnown, heard' = heard + 1, UNCHANGED <<window, waiting>>,
         used' \in {used, used \cup {heard + 1}}
  PROVE  ReportKnown'
  BY DEF ReportKnown

LEMMA ReportKnownKept == ReportKnown /\ [HotkeyNext]_hotkeyVars => ReportKnown'
<1> SUFFICES ASSUME ReportKnown, [HotkeyNext]_hotkeyVars
             PROVE  ReportKnown'
  OBVIOUS
<1>1. ASSUME UNCHANGED <<window, waiting, heard, used>> PROVE ReportKnown'
  BY <1>1 DEF ReportKnown
<1>2. ASSUME NEW k \in Keys, PressKey(k) \/ LiftKey(k) PROVE ReportKnown'
  BY <1>1, <1>2 DEF PressKey, LiftKey
<1>3. CASE StartWatching \/ OpenKeyboards \/ ReadKeys \/ GuardOver \/ Enable
  BY <1>1, <1>3 DEF StartWatching, OpenKeyboards, ReadKeys, GuardOver, Enable
<1>4. CASE Catch
  BY <1>4 DEF Catch, NextReport, Reported, ReportKnown
<1>5. CASE SwallowButton \/ DropKey
  BY <1>5, ReportPassed DEF SwallowButton, DropKey, NextReport
<1>6. CASE Fire
  BY <1>6, ReportPassed DEF Fire, NextReport, Reported
<1>7. ASSUME NEW c \in Learners, NEW bind \in BOOLEAN, Learn(c, bind) PROVE ReportKnown'
  BY <1>7 DEF Learn, Opened, Silence, ReportKnown
<1>8. ASSUME NEW c \in Learners, Answer(c) PROVE ReportKnown'
  <2>1. window'.caught = Silence /\ window'.caught.number = 0
    BY <1>8 DEF Answer, Taken, Silence
  <2>2. /\ waiting' \in [Learners -> [open : BOOLEAN, since : Nat, bind : BOOLEAN]]
        /\ \A d \in Learners : waiting'[d].since <= heard
    BY <1>8 DEF Answer, NotWaiting, ReportKnown
  <2>3. used' \subseteq 1..heard /\ heard' = heard
    BY <1>8 DEF Answer, ReportKnown
  <2> QED
    BY <2>1, <2>2, <2>3 DEF ReportKnown
<1>9. ASSUME NEW c \in Learners, GiveUp(c) PROVE ReportKnown'
  BY <1>9 DEF GiveUp, Taken, NotWaiting, Silence, ReportKnown
<1>10. ASSUME NEW keys \in SUBSET Keys, SetTriggers(keys) PROVE ReportKnown'
  BY <1>1, <1>10 DEF SetTriggers
<1>11. CASE UNCHANGED hotkeyVars
  BY <1>1, <1>11 DEF hotkeyVars
<1> QED
  BY <1>2, <1>3, <1>4, <1>5, <1>6, <1>7, <1>8, <1>9, <1>10, <1>11 DEF HotkeyNext

\* A learner that stops waiting while a report is used up is the one that is answered.
LEMMA AnsweredWithNews ==
  ReportKnown /\ [HotkeyNext]_hotkeyVars =>
    [\A c \in Learners :
       waiting[c].open /\ used' # used /\ ~waiting'[c].open =>
         window.caught.number > waiting[c].since /\ window.caught.number \notin used]_hotkeyVars
<1> SUFFICES ASSUME ReportKnown, HotkeyNext, NEW c \in Learners,
                    waiting[c].open, used' # used, ~waiting'[c].open
             PROVE  window.caught.number > waiting[c].since /\ window.caught.number \notin used
  OBVIOUS
<1>1. PICK d \in Learners : Answer(d)
  BY DEF HotkeyNext, PressKey, LiftKey, StartWatching, OpenKeyboards, ReadKeys, Catch,
         SwallowButton, DropKey, Fire, GuardOver, Learn, GiveUp, SetTriggers, Enable
<1> QED
  BY <1>1 DEF Answer, ReportKnown

\* Whoever waits, however many, is answered with a report that came after it asked and was used
\* for nothing else (learn, deliver_to_learner, run).
THEOREM AlwaysAnsweredOnce == HotkeySpec => AnsweredOnce
<1>1. HotkeySpec => []ReportKnown
  BY ReportKnownAtFirst, ReportKnownKept, PTL DEF HotkeySpec
<1> QED
  BY <1>1, AnsweredWithNews, PTL DEF HotkeySpec, AnsweredOnce

\* Every report comes of a key that went down, or of the same key on its way up: what has been
\* dealt with, waits, or is still to come from the keys held is at most two for each press.
PressesCounted ==
  /\ IsFiniteSet(held)
  /\ heard + Len(batch) + Len(unread) + Cardinality(held) <= 2 * presses

\* No button is bound, nor caught to be bound.
NoButtonBound ==
  /\ triggers \cap Buttons = {}
  /\ window.caught # Silence => window.caught.key \notin Buttons

HotkeyKnown == HotkeyTypes /\ ReportKnown /\ PressesCounted /\ NoButtonBound

LEMMA HotkeyKnownAtFirst == HotkeyInit => HotkeyKnown
<1> SUFFICES ASSUME HotkeyInit PROVE HotkeyKnown
  OBVIOUS
<1>1. MaxPresses \in Nat /\ 0 \in 0..MaxPresses /\ 0 \in 0..2 * MaxPresses
  BY HotkeyAssumption
<1>2. HotkeyTypes
  <2>1. waiting \in [Learners -> [open : BOOLEAN, since : 0..2 * MaxPresses, bind : BOOLEAN]]
    BY <1>1 DEF HotkeyInit, NotWaiting
  <2>2. /\ triggers \subseteq Keys /\ held \subseteq Keys /\ used \subseteq 1..2 * MaxPresses
        /\ active \in BOOLEAN /\ cannot \in BOOLEAN /\ watching = "not yet"
    BY DEF HotkeyInit
  <2>3. unread \in Seq(Keys) /\ batch \in Seq(Keys)
    <3>1. unread = <<>> /\ batch = <<>>
      BY DEF HotkeyInit
    <3> QED
      BY <3>1
  <2>4. window \in [open : BOOLEAN, caught : Reports \cup {Silence}]
    BY DEF HotkeyInit
  <2>5. lastFire \in [key : Keys \cup {NoKey}, recent : BOOLEAN]
    BY DEF HotkeyInit
  <2>6. presses \in 0..MaxPresses /\ heard \in 0..2 * MaxPresses
    BY <1>1 DEF HotkeyInit
  <2> QED
    BY <2>1, <2>2, <2>3, <2>4, <2>5, <2>6 DEF HotkeyTypes
<1>3. PressesCounted
  <2>1. held = {} /\ unread = <<>> /\ batch = <<>> /\ heard = 0 /\ presses = 0
    BY DEF HotkeyInit
  <2>2. IsFiniteSet(held) /\ Cardinality(held) = 0
    BY <2>1, FS_EmptySet
  <2>3. Len(unread) = 0 /\ Len(batch) = 0
    BY <2>1
  <2> QED
    BY <2>1, <2>2, <2>3 DEF PressesCounted
<1>4. NoButtonBound
  BY DEF HotkeyInit, NoButtonBound, Silence
<1> QED
  BY <1>2, <1>3, <1>4, ReportKnownAtFirst DEF HotkeyKnown

\* A report that is dealt with is one fewer that waits, and its number is one there is.
LEMMA NextKnown ==
  ASSUME HotkeyKnown, NextReport
  PROVE  /\ Reported \in Reports /\ Reported.key \in Keys /\ heard' \in 0..2 * MaxPresses
         /\ batch' \in Seq(Keys) /\ heard' + Len(batch') = heard + Len(batch)
<1>1. /\ batch \in Seq(Keys) /\ batch # <<>> /\ unread \in Seq(Keys) /\ heard \in Nat
      /\ presses \in 0..MaxPresses /\ MaxPresses \in Nat /\ IsFiniteSet(held)
      /\ heard + Len(batch) + Len(unread) + Cardinality(held) <= 2 * presses
  <2>1. heard \in 0..2 * MaxPresses /\ MaxPresses \in Nat
    BY HotkeyAssumption DEF HotkeyKnown, HotkeyTypes
  <2>2. heard \in Nat
    BY <2>1
  <2>3. batch # <<>>
    BY DEF NextReport
  <2> QED
    BY <2>1, <2>2, <2>3 DEF HotkeyKnown, HotkeyTypes, PressesCounted
<1>2. Cardinality(held) \in Nat
  BY <1>1, FS_CardinalityType
<1>3. /\ Head(batch) \in Keys /\ Tail(batch) \in Seq(Keys) /\ Len(batch) \in Nat \ {0}
      /\ Len(Tail(batch)) = Len(batch) - 1 /\ Len(unread) \in Nat
  BY <1>1
<1>4. heard + 1 \in 1..2 * MaxPresses
  BY <1>1, <1>2, <1>3
<1> QED
  BY <1>1, <1>3, <1>4 DEF NextReport, Reported, Reports

\* The queues and the count, when the keyboard and the watcher move them.
LEMMA QueuesKept ==
  HotkeyKnown /\ HotkeyNext =>
    /\ held' \subseteq Keys /\ unread' \in Seq(Keys) /\ batch' \in Seq(Keys)
    /\ presses' \in 0..MaxPresses /\ heard' \in 0..2 * MaxPresses /\ PressesCounted'
<1> SUFFICES ASSUME HotkeyKnown, HotkeyNext
             PROVE  /\ held' \subseteq Keys /\ unread' \in Seq(Keys) /\ batch' \in Seq(Keys)
                    /\ presses' \in 0..MaxPresses /\ heard' \in 0..2 * MaxPresses
                    /\ PressesCounted'
  OBVIOUS
<1>1. /\ held \subseteq Keys /\ unread \in Seq(Keys) /\ batch \in Seq(Keys) /\ IsFiniteSet(held)
      /\ presses \in 0..MaxPresses /\ heard \in 0..2 * MaxPresses /\ MaxPresses \in Nat
      /\ heard + Len(batch) + Len(unread) + Cardinality(held) <= 2 * presses
  BY HotkeyAssumption DEF HotkeyKnown, HotkeyTypes, PressesCounted
<1>2. Cardinality(held) \in Nat /\ Len(batch) \in Nat /\ Len(unread) \in Nat
  BY <1>1, FS_CardinalityType
<1>3. ASSUME NEW k \in Keys, PressKey(k)
      PROVE  /\ held' \subseteq Keys /\ unread' \in Seq(Keys) /\ UNCHANGED <<batch, heard>>
             /\ presses' \in 0..MaxPresses /\ PressesCounted'
  <2>1. IsFiniteSet(held') /\ Cardinality(held') = Cardinality(held) + 1
    BY <1>1, <1>3, FS_AddElement DEF PressKey
  <2>2. /\ unread' \in Seq(Keys) /\ Len(unread') = Len(unread) + 1
        /\ presses' = presses + 1 /\ presses < MaxPresses /\ UNCHANGED <<batch, heard>>
        /\ held' \subseteq Keys
    BY <1>1, <1>3 DEF PressKey
  <2> QED
    BY <1>1, <1>2, <2>1, <2>2 DEF PressesCounted
<1>4. ASSUME NEW k \in Keys, LiftKey(k)
      PROVE  /\ held' \subseteq Keys /\ unread' \in Seq(Keys)
             /\ UNCHANGED <<batch, heard, presses>> /\ PressesCounted'
  <2>1. IsFiniteSet(held') /\ Cardinality(held') = Cardinality(held) - 1
    BY <1>1, <1>4, FS_RemoveElement DEF LiftKey
  <2>2. /\ unread' \in Seq(Keys) /\ Len(unread') <= Len(unread) + 1 /\ Len(unread') \in Nat
        /\ UNCHANGED <<batch, heard, presses>> /\ held' \subseteq Keys
    BY <1>1, <1>4 DEF LiftKey
  <2> QED
    BY <1>1, <1>2, <2>1, <2>2 DEF PressesCounted
<1>5. CASE ReadKeys
  <2>1. /\ batch = <<>> /\ Len(batch) = 0 /\ batch' = unread /\ unread' = <<>> /\ Len(unread') = 0
        /\ UNCHANGED <<held, presses, heard>>
    BY <1>5 DEF ReadKeys
  <2>2. unread' \in Seq(Keys)
    BY <2>1
  <2> QED
    BY <1>1, <1>2, <2>1, <2>2 DEF PressesCounted
<1>6. CASE Catch \/ SwallowButton \/ DropKey \/ Fire
  <2>1. NextReport /\ UNCHANGED <<held, unread, presses>>
    BY <1>6 DEF Catch, SwallowButton, DropKey, Fire, keyboard
  <2>2. /\ heard' \in 0..2 * MaxPresses /\ batch' \in Seq(Keys)
        /\ heard' + Len(batch') = heard + Len(batch)
    BY <2>1, NextKnown
  <2> QED
    BY <1>1, <2>1, <2>2 DEF PressesCounted
<1>7. CASE UNCHANGED <<keyboard, batch, heard>>
  BY <1>1, <1>7 DEF PressesCounted, keyboard
<1>8. CASE \/ StartWatching \/ OpenKeyboards \/ GuardOver \/ Enable
           \/ \E c \in Learners : Answer(c) \/ GiveUp(c) \/ \E bind \in BOOLEAN : Learn(c, bind)
           \/ \E keys \in SUBSET Keys : SetTriggers(keys)
  <2>1. UNCHANGED <<keyboard, batch, heard>>
    BY <1>8 DEF StartWatching, OpenKeyboards, GuardOver, Enable, Answer, GiveUp, Learn, SetTriggers
  <2> QED
    BY <1>7, <2>1
<1> QED
  BY <1>1, <1>3, <1>4, <1>5, <1>6, <1>8 DEF HotkeyNext

\* The window, the learners, and what a learner or a client binds.
LEMMA WindowKept ==
  HotkeyKnown /\ HotkeyNext =>
    /\ triggers' \subseteq Keys /\ window' \in [open : BOOLEAN, caught : Reports \cup {Silence}]
    /\ waiting' \in [Learners -> [open : BOOLEAN, since : 0..2 * MaxPresses, bind : BOOLEAN]]
    /\ lastFire' \in [key : Keys \cup {NoKey}, recent : BOOLEAN]
    /\ used' \subseteq 1..2 * MaxPresses /\ NoButtonBound'
<1> SUFFICES ASSUME HotkeyKnown, HotkeyNext
             PROVE  /\ triggers' \subseteq Keys
                    /\ window' \in [open : BOOLEAN, caught : Reports \cup {Silence}]
                    /\ waiting' \in [Learners -> [open : BOOLEAN, since : 0..2 * MaxPresses,
                                                  bind : BOOLEAN]]
                    /\ lastFire' \in [key : Keys \cup {NoKey}, recent : BOOLEAN]
                    /\ used' \subseteq 1..2 * MaxPresses /\ NoButtonBound'
  OBVIOUS
<1>1. /\ triggers \subseteq Keys /\ window \in [open : BOOLEAN, caught : Reports \cup {Silence}]
      /\ waiting \in [Learners -> [open : BOOLEAN, since : 0..2 * MaxPresses, bind : BOOLEAN]]
      /\ lastFire \in [key : Keys \cup {NoKey}, recent : BOOLEAN]
      /\ used \subseteq 1..2 * MaxPresses /\ heard \in 0..2 * MaxPresses
      /\ triggers \cap Buttons = {}
      /\ window.caught # Silence => window.caught.key \notin Buttons
  BY DEF HotkeyKnown, HotkeyTypes, NoButtonBound
<1>2. NotWaiting \in [open : BOOLEAN, since : 0..2 * MaxPresses, bind : BOOLEAN]
  BY HotkeyAssumption DEF NotWaiting
<1>3. /\ Taken \in [open : BOOLEAN, caught : Reports \cup {Silence}] /\ Taken.caught = Silence
      /\ Opened \in [open : BOOLEAN, caught : Reports \cup {Silence}] /\ Opened.caught = Silence
  BY DEF Taken, Opened
<1>4. CASE UNCHANGED <<triggers, window, waiting, lastFire, used>>
  BY <1>1, <1>4 DEF NoButtonBound
<1>5. CASE Catch
  <2>1. /\ window' = [open |-> FALSE, caught |-> Reported] /\ Reported \in Reports
        /\ Reported.key \notin Buttons /\ UNCHANGED <<triggers, waiting, lastFire, used>>
    BY <1>5, NextKnown DEF Catch, settings
  <2> QED
    BY <1>1, <2>1 DEF NoButtonBound
<1>6. CASE Fire
  <2>1. Reported \in Reports /\ Reported.key \in Keys /\ Reported.number \in 1..2 * MaxPresses
    BY <1>6, NextKnown DEF Fire, Reports
  <2>2. /\ lastFire' = [key |-> Reported.key, recent |-> TRUE]
        /\ used' = used \cup {Reported.number} /\ UNCHANGED <<triggers, window, waiting>>
    BY <1>6 DEF Fire, settings
  <2> QED
    BY <1>1, <2>1, <2>2 DEF NoButtonBound
<1>7. CASE GuardOver
  BY <1>1, <1>7 DEF GuardOver, settings, NoButtonBound
<1>8. ASSUME NEW c \in Learners, NEW bind \in BOOLEAN, Learn(c, bind)
      PROVE  /\ waiting' \in [Learners -> [open : BOOLEAN, since : 0..2 * MaxPresses,
                                           bind : BOOLEAN]]
             /\ window' = Opened /\ UNCHANGED <<triggers, lastFire, used>>
  BY <1>1, <1>8 DEF Learn, settings
<1>9. ASSUME NEW c \in Learners, Answer(c)
      PROVE  /\ waiting' \in [Learners -> [open : BOOLEAN, since : 0..2 * MaxPresses,
                                           bind : BOOLEAN]]
             /\ window' = Taken /\ UNCHANGED lastFire /\ used' \subseteq 1..2 * MaxPresses
             /\ triggers' \subseteq Keys /\ triggers' \cap Buttons = {}
  <2>1. window.caught \in Reports /\ window.caught.key \notin Buttons
    BY <1>1, <1>9 DEF Answer
  <2>2. window.caught.key \in Keys /\ window.caught.number \in 1..2 * MaxPresses
    BY <2>1 DEF Reports
  <2> QED
    BY <1>1, <1>2, <1>9, <2>1, <2>2 DEF Answer
<1>10. ASSUME NEW c \in Learners, GiveUp(c)
       PROVE  /\ waiting' \in [Learners -> [open : BOOLEAN, since : 0..2 * MaxPresses,
                                            bind : BOOLEAN]]
              /\ window' = Taken /\ UNCHANGED <<triggers, lastFire, used>>
  BY <1>1, <1>2, <1>10 DEF GiveUp, settings
<1>11. CASE \E keys \in SUBSET Keys : SetTriggers(keys)
  BY <1>1, <1>11 DEF SetTriggers, NoButtonBound
<1>12. CASE \/ \E k \in Keys : PressKey(k) \/ LiftKey(k)
            \/ StartWatching \/ OpenKeyboards \/ ReadKeys \/ SwallowButton \/ DropKey \/ Enable
  BY <1>4, <1>12 DEF PressKey, LiftKey, StartWatching, OpenKeyboards, ReadKeys, SwallowButton,
                     DropKey, Enable, settings
<1>13. CASE \E c \in Learners : Answer(c) \/ GiveUp(c) \/ \E bind \in BOOLEAN : Learn(c, bind)
  BY <1>1, <1>3, <1>8, <1>9, <1>10, <1>13 DEF NoButtonBound
<1> QED
  BY <1>5, <1>6, <1>7, <1>11, <1>12, <1>13 DEF HotkeyNext

LEMMA HotkeyKnownKept == HotkeyKnown /\ [HotkeyNext]_hotkeyVars => HotkeyKnown'
<1> SUFFICES ASSUME HotkeyKnown, HotkeyNext PROVE HotkeyKnown'
  BY ReportKnownKept DEF HotkeyKnown, HotkeyTypes, PressesCounted, NoButtonBound, hotkeyVars
<1>1. active' \in BOOLEAN /\ cannot' \in BOOLEAN
      /\ watching' \in {"not yet", "coming", "reading", "never"}
  BY DEF HotkeyKnown, HotkeyTypes, HotkeyNext, PressKey, LiftKey, StartWatching, OpenKeyboards,
         ReadKeys, Catch, SwallowButton, DropKey, Fire, GuardOver, Learn, Answer, GiveUp,
         SetTriggers, Enable, settings
<1>2. HotkeyTypes'
  BY <1>1, QueuesKept, WindowKept DEF HotkeyTypes
<1> QED
  BY <1>2, QueuesKept, WindowKept, ReportKnownKept DEF HotkeyKnown

\* The types of the watcher's variables: a key that is held reports at most once more, so two
\* reports for each press are all there are, in the kernel, read, or dealt with.
THEOREM HotkeyTypesAlways == HotkeySpec => []HotkeyTypes
<1>1. HotkeyKnown => HotkeyTypes
  BY DEF HotkeyKnown
<1> QED
  BY <1>1, HotkeyKnownAtFirst, HotkeyKnownKept, PTL DEF HotkeySpec

\* No button of a pointing device is ever bound, whether a client asks for it or presses it into
\* an open window (set_triggers, deliver_to_learner).
THEOREM ButtonsStayUnbound == HotkeySpec => [](triggers \cap Buttons = {})
<1>1. HotkeyKnown => triggers \cap Buttons = {}
  BY DEF HotkeyKnown, NoButtonBound
<1> QED
  BY <1>1, HotkeyKnownAtFirst, HotkeyKnownKept, PTL DEF HotkeySpec

LEMMA AttendedKept == HotkeyKnown /\ WindowAttended /\ [HotkeyNext]_hotkeyVars => WindowAttended'
<1> SUFFICES ASSUME HotkeyKnown, WindowAttended, [HotkeyNext]_hotkeyVars PROVE WindowAttended'
  OBVIOUS
<1>1. ASSUME NEW c \in Learners, NEW bind \in BOOLEAN, Learn(c, bind) PROVE WindowAttended'
  BY <1>1 DEF Learn, WindowAttended, HotkeyKnown, HotkeyTypes
<1>2. ASSUME NEW c \in Learners, Answer(c) \/ GiveUp(c) PROVE WindowAttended'
  BY <1>2 DEF Answer, GiveUp, Taken, WindowAttended
<1>3. CASE Catch
  BY <1>3 DEF Catch, WindowAttended
<1>4. CASE UNCHANGED <<window, waiting>>
  BY <1>4 DEF WindowAttended
<1> QED
  BY <1>1, <1>2, <1>3, <1>4 DEF HotkeyNext, hotkeyVars, PressKey, LiftKey, StartWatching,
     OpenKeyboards, ReadKeys, SwallowButton, DropKey, Fire, GuardOver, SetTriggers, Enable

\* A window that is open has somebody waiting at it, whoever gives up and however they overlap,
\* so no key is swallowed for nobody (learn).
THEOREM WindowAlwaysAttended == HotkeySpec => []WindowAttended
<1>1. HotkeyInit => WindowAttended
  <2> SUFFICES ASSUME HotkeyInit, window.open PROVE FALSE
    BY DEF WindowAttended
  <2>1. window = [open |-> FALSE, caught |-> Silence]
    BY DEF HotkeyInit
  <2>2. window.open = FALSE
    BY <2>1
  <2> QED
    BY <2>2
<1> QED
  BY <1>1, HotkeyKnownAtFirst, HotkeyKnownKept, AttendedKept, PTL DEF HotkeySpec

(***************************************************************************)
(* The four parts side by side, as the run has them.                        *)
(***************************************************************************)

\* What each part keeps it keeps beside the others, which do not move while it does.
DevicesKnown == IInv /\ StoreInv /\ LightsKnown /\ ReportKnown

LEMMA PartsOfDevices ==
  [ServicesNext]_allVars =>
    /\ [Next]_vars /\ [StoreNext]_storeVars
    /\ [LightsNext]_lightsVars /\ [HotkeyNext]_hotkeyVars
  BY DEF ServicesNext, allVars

LEMMA DevicesAlwaysKnown == ServicesSpec => []DevicesKnown
<1>1. ServicesInit => DevicesKnown
  BY InitIInv, StoreInitInv, LightsKnownAtFirst, ReportKnownAtFirst DEF ServicesInit, DevicesKnown
<1>2. DevicesKnown /\ [ServicesNext]_allVars => DevicesKnown'
  BY PartsOfDevices, StepIInv, StoreInvKept, LightsKnownKept, ReportKnownKept DEF DevicesKnown
<1> QED
  BY <1>1, <1>2, PTL DEF ServicesSpec

\* What is proved of each part alone holds of the specification the run explores.
THEOREM DevicesKeepTheirWord ==
  ServicesSpec => /\ [](CardKnown /\ LightsAsSet)
                  /\ ConfirmsWhatRuns /\ ReplacedSafely /\ AnsweredOnce
<1>1. DevicesKnown => CardKnown /\ LightsAsSet /\ IInv /\ StoreInv /\ ReportKnown
  BY KnownCard DEF DevicesKnown, LightsKnown
<1>2. IInv /\ [Next]_vars => [ConfirmedOnCard]_vars
  BY StepConfirms DEF IInv
<1> QED
  BY <1>1, <1>2, DevicesAlwaysKnown, PartsOfDevices, StoreReplaces, AnsweredWithNews, PTL
     DEF ServicesSpec, ConfirmsWhatRuns, ReplacedSafely, AnsweredOnce
===============================================================================
