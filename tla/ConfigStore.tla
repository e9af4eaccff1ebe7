----------------------------- MODULE ConfigStore -----------------------------
(***************************************************************************)
(* One namespace of the configuration on disk, and the processes of this    *)
(* build and of a newer one that load and save it.  A save checks what is   *)
(* there and replaces it under a lock that every writer takes: a temporary  *)
(* file, flushed, then renamed over the target.  A load takes the lock only  *)
(* to move a file it could not parse aside.                                 *)
(*                                                                         *)
(* Any call may be refused, a process may be killed and the power may fail  *)
(* between any two of them.  A rename is visible at once and durable later:  *)
(* after a power cut the name shows any file it has shown since the last     *)
(* flush of the directory, with the data that was flushed with it.           *)
(***************************************************************************)
EXTENDS Naturals

CONSTANTS
  Processes,  \* those that may load and save
  Newer,      \* the ones of a build with a higher CURRENT_VERSION
  MaxEdits,   \* bound: how often somebody writes the file by hand
  MaxCuts     \* bound: how often the power fails

ASSUME StoreAssumption ==
  /\ Newer \subseteq Processes
  /\ "nobody" \notin Processes
  /\ MaxEdits \in Nat /\ MaxCuts \in Nat

Whole == {"this", "newer"}   \* a file some build wrote, by its version
Texts == Whole \cup {"absent", "broken", "torn"}   \* broken by hand, torn by us

VARIABLES
  inPlace,  \* what the name shows
  durable,  \* what it may show after a power cut
  temp,     \* the temporary file, the same path for every writer
  aside,    \* the file moved aside, or "absent"
  lock,     \* who holds the lock file, or "nobody"
  at,       \* where each process is
  edits, cuts   \* for the bounds

storeVars == <<inPlace, durable, temp, aside, lock, at, edits, cuts>>
Bounds == <<edits, cuts>>

Loading == {"recovering", "rereading", "moving"}
Saving == {"saving", "checking", "creating", "writing", "flushing", "renaming"}
Locked == {"rereading", "moving", "checking", "creating", "writing", "flushing", "renaming"}

\* The types of the store's variables.
StoreTypes ==
  /\ inPlace \in Texts
  /\ durable \subseteq Texts /\ durable # {}
  /\ temp \in [text : Texts, flushed : BOOLEAN]
  /\ aside \in {"absent", "broken", "torn"}
  /\ lock \in Processes \cup {"nobody"}
  /\ at \in [Processes -> {"idle"} \cup Loading \cup Saving]
  /\ edits \in 0..MaxEdits /\ cuts \in 0..MaxCuts

NoTemp == [text |-> "absent", flushed |-> FALSE]

StoreInit ==
  /\ inPlace \in Whole \cup {"absent", "broken"}
  /\ durable = {inPlace}
  /\ temp = NoTemp /\ aside = "absent"
  /\ lock = "nobody" /\ at = [p \in Processes |-> "idle"]
  /\ edits = 0 /\ cuts = 0

\* The version a process writes, and whether a file is of a later one.
VersionOf(p) == IF p \in Newer THEN "newer" ELSE "this"
TooNew(p) == inPlace = "newer" /\ p \notin Newer
Unparsed == inPlace \in {"broken", "torn"}

Moves(p, here, there) == at[p] = here /\ at' = [at EXCEPT ![p] = there]

\* The call returns; the lock goes with it.
Return(p, here) ==
  /\ Moves(p, here, "idle")
  /\ lock' = IF lock = p THEN "nobody" ELSE lock

\* A system call is refused.
TurnedAway(p, here) == Return(p, here) /\ UNCHANGED <<inPlace, durable, temp, aside, Bounds>>

-----------------------------------------------------------------------------
(* load.                                                                    *)

\* The first read.  What can be answered at once, a read that fails included,
\* needs no step; a file that does not parse does.
LoadFile(p) ==
  /\ Unparsed
  /\ Moves(p, "idle", "recovering")
  /\ UNCHANGED <<inPlace, durable, temp, aside, lock, Bounds>>

\* Mutant: what the first read found is moved aside, whatever is there now.
LockForGood(p) ==
  /\ lock = "nobody" /\ lock' = p
  /\ Moves(p, "recovering", "moving") \/ Moves(p, "saving", "checking")
  /\ UNCHANGED <<inPlace, durable, temp, aside, Bounds>>

\* lock_for_save, for either.
Lock(p) ==
  /\ lock = "nobody" /\ lock' = p
  /\ Moves(p, "recovering", "rereading") \/ Moves(p, "saving", "checking")
  /\ UNCHANGED <<inPlace, durable, temp, aside, Bounds>>

\* The file may have been replaced since: read and classified again.
Reread(p) ==
  /\ \/ Unparsed /\ Moves(p, "rereading", "moving") /\ UNCHANGED lock
     \/ ~Unparsed /\ Return(p, "rereading")
  /\ UNCHANGED <<inPlace, durable, temp, aside, Bounds>>

\* preserve_broken.
MoveAside(p) ==
  /\ Return(p, "moving")
  /\ aside' = inPlace /\ inPlace' = "absent"
  /\ durable' = durable \cup {"absent"}
  /\ UNCHANGED <<temp, Bounds>>

-----------------------------------------------------------------------------
(* save.                                                                    *)

BeginSave(p) ==
  /\ Moves(p, "idle", "saving")
  /\ UNCHANGED <<inPlace, durable, temp, aside, lock, Bounds>>

\* A newer build's file is left alone.
Check(p) ==
  /\ IF TooNew(p) THEN Return(p, "checking")
                  ELSE Moves(p, "checking", "creating") /\ UNCHANGED lock
  /\ UNCHANGED <<inPlace, durable, temp, aside, Bounds>>

Create(p) ==
  /\ Moves(p, "creating", "writing")
  /\ temp' = [text |-> "torn", flushed |-> FALSE]
  /\ UNCHANGED <<inPlace, durable, aside, lock, Bounds>>

\* Mutant: the data is not flushed before the rename.
WriteUnflushed(p) ==
  /\ Moves(p, "writing", "renaming")
  /\ temp' = [temp EXCEPT !.text = VersionOf(p)]
  /\ UNCHANGED <<inPlace, durable, aside, lock, Bounds>>

Write(p) ==
  /\ Moves(p, "writing", "flushing")
  /\ temp' = [temp EXCEPT !.text = VersionOf(p)]
  /\ UNCHANGED <<inPlace, durable, aside, lock, Bounds>>

\* sync_all.
Flush(p) ==
  /\ Moves(p, "flushing", "renaming")
  /\ temp' = [temp EXCEPT !.flushed = TRUE]
  /\ UNCHANGED <<inPlace, durable, aside, lock, Bounds>>

Rename(p) ==
  /\ Return(p, "renaming")
  /\ inPlace' = temp.text
  /\ durable' = durable \cup {IF temp.flushed THEN temp.text ELSE "torn"}
  /\ temp' = NoTemp
  /\ UNCHANGED <<aside, Bounds>>

-----------------------------------------------------------------------------
(* What happens to the processes, the disk and the file.                    *)

Kill(p) == \E here \in Loading \cup Saving : TurnedAway(p, here)

\* The directory reaches the disk.
SyncDirectory ==
  /\ durable # {inPlace} /\ durable' = {inPlace}
  /\ UNCHANGED <<inPlace, temp, aside, lock, at, Bounds>>

PowerCut ==
  /\ cuts < MaxCuts /\ cuts' = cuts + 1
  /\ inPlace' \in durable /\ durable' = {inPlace'}
  /\ temp' = IF temp.flushed THEN temp ELSE [temp EXCEPT !.text = "torn"]
  /\ lock' = "nobody" /\ at' = [p \in Processes |-> "idle"]
  /\ UNCHANGED <<aside, edits>>

\* Somebody writes the file with an editor, which knows no lock; not in the
\* instant a process has it.
Edit ==
  /\ lock = "nobody"
  /\ edits < MaxEdits /\ edits' = edits + 1
  /\ inPlace' \in {"this", "broken"}
  /\ durable' = durable \cup {inPlace'}
  /\ UNCHANGED <<temp, aside, lock, at, cuts>>

StoreNext ==
  \/ \E p \in Processes :
       \/ LoadFile(p) \/ Lock(p) \/ Reread(p) \/ MoveAside(p)
       \/ BeginSave(p) \/ Check(p) \/ Create(p) \/ Write(p) \/ Flush(p) \/ Rename(p)
       \/ Kill(p)
  \/ SyncDirectory \/ PowerCut \/ Edit

StoreSpec == StoreInit /\ [][StoreNext]_storeVars

-----------------------------------------------------------------------------

\* Whatever is refused, killed or cut off, and whoever else is writing: the file in place is
\* never one of ours cut short (the module's doc, "Writing in place risks leaving a truncated
\* file"); it gives way only to a whole one, or is moved aside for not parsing, and one of a
\* newer build gives way only to its own (save_inner, "silently downgrade the file").  What
\* editors do, and what a power cut brings back, is not held to more than the first.
ReplacedSafely ==
  [][inPlace' # inPlace =>
       /\ inPlace' # "torn"
       /\ edits' = edits /\ cuts' = cuts =>
            /\ inPlace' \in Whole \/ (inPlace' = "absent" /\ inPlace = "broken")
            /\ inPlace = "newer" => inPlace' = "newer"]_storeVars

\* "A corrupt file is never overwritten silently" (the module's doc): what
\* does not parse leaves its place only to be kept aside.
BrokenKept ==
  [][inPlace = "broken" /\ inPlace' # inPlace /\ edits' = edits /\ cuts' = cuts =>
       aside' = "broken" /\ inPlace' = "absent"]_storeVars
=============================================================================
