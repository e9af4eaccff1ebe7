------------------------------- MODULE Lights -------------------------------
(***************************************************************************)
(* The keyboard's lights.  Callers set colours, an effect, or put the       *)
(* lights out and on again; the thread of a running effect writes frames.   *)
(* Whoever is about to write holds `hw` from the stop of the running effect *)
(* to the record of the write; the effect's thread never takes it, and only *)
(* the stop keeps its last frame from landing on top of what is written     *)
(* next.                                                                    *)
(*                                                                         *)
(* Four zones and their brightness are one look.  A sweep is its last       *)
(* write.  An effect that cannot be written three times in a row gives up;  *)
(* that takes it longer than the record of its start.                       *)
(***************************************************************************)
EXTENDS Naturals

CONSTANTS
  Players,   \* the connections that call the module
  Looks,     \* the static looks that are set
  Moving,    \* the effects that are set
  MaxStarts  \* bound: lives of the daemon after the first

Nobody == "nobody"
Black == "black"
Foreign == "foreign"     \* what the firmware, or a frame of an effect, shows
NoEffect == "no effect"

ASSUME LightsAssumption ==
  /\ Black \in Looks /\ Foreign \notin Looks
  /\ NoEffect \notin Moving /\ {"exit", Nobody} \cap Players = {}
  /\ MaxStarts \in Nat

Actors == Players \cup {"exit"}

VARIABLES
  lit,      \* what the keyboard shows
  wish,     \* State::config: the look, the effect, power_animation
  onFile,   \* rgb.json
  speaks,   \* the dialect that is chosen answers
  dark,     \* State::dark
  owned,    \* State::owned
  error,    \* State::last_error is set
  frames,   \* the effect's thread: its effect, and whether it was told to stop
  hw,       \* who holds the writer lock
  job,      \* per actor, the call it is in
  ending,   \* the modules are being told to let go
  starts,   \* for MaxStarts
  standing  \* history: this life has written the lights, and nothing it started was taken away

lightsVars == <<lit, wish, onFile, speaks, dark, owned, error, frames, hw, job, ending,
                starts, standing>>

Wishes == [look : Looks, effect : Moving \cup {NoEffect}, animate : BOOLEAN]
NoThread == [effect |-> NoEffect, told |-> FALSE]
NoJob == [what |-> "none", at |-> "idle", look |-> Black, effect |-> NoEffect]
Jobs == [what : {"none", "zones", "static", "brightness", "effect", "again", "restart", "silence",
                 "on", "off", "leave", "shutdown"},
         at : {"idle", "asked", "stopping", "writing"},
         look : Looks, effect : Moving \cup {NoEffect}]

\* The types of the lights' variables.
LightsTypes ==
  /\ lit \in Looks \cup {Foreign}
  /\ wish \in Wishes /\ onFile \in Wishes
  /\ speaks \in BOOLEAN /\ dark \in BOOLEAN /\ owned \in BOOLEAN /\ error \in BOOLEAN
  /\ frames \in [effect : Moving \cup {NoEffect}, told : BOOLEAN]
  /\ hw \in Actors \cup {Nobody}
  /\ job \in [Actors -> Jobs]
  /\ ending \in BOOLEAN /\ starts \in 0..MaxStarts /\ standing \in BOOLEAN

lifetime == <<ending, starts>>
status == <<dark, owned, error, standing>>

-----------------------------------------------------------------------------
(* What every call is made of.                                              *)

\* Mutant: the thread is told, and not waited for.
StoppedTold == frames.effect = NoEffect \/ frames.told
\* Animator::stop: told, and its thread waited for; STOP_TIMEOUT is longer than a
\* firmware call may take.
Stopped == frames.effect = NoEffect

\* The call ends and lets the lock go.
EndJob(a) == job' = [job EXCEPT ![a] = NoJob] /\ hw' = Nobody

\* persist, which may fail.
Save(new) == onFile' \in {new, onFile}

\* A write of the lights that is refused, in part or as a whole.
WriteFails(a) ==
  /\ lit' \in {lit, Foreign} /\ error' = TRUE
  /\ UNCHANGED <<wish, onFile, dark, owned, frames, standing>>
  /\ EndJob(a)

Recorded(out) == dark' = out /\ owned' = TRUE /\ error' = FALSE /\ standing' = TRUE

\* start_effect_locked: a thread of its own, which has yet to draw.
StartEffect(effect) ==
  /\ frames' = [effect |-> effect, told |-> FALSE]
  /\ Recorded(FALSE)

-----------------------------------------------------------------------------
(* Calls.                                                                   *)

\* A call up to the wait for hw.  stopEffect has read the look it will write by then;
\* setZones brings its own.
Ask(a, what, look, effect) ==
  /\ job[a].what = "none"
  /\ job' = [job EXCEPT ![a] = [what |-> what, at |-> "asked", look |-> look, effect |-> effect]]
  /\ UNCHANGED <<lit, wish, onFile, speaks, status, frames, hw, lifetime>>

SetZones(a, look) == Ask(a, "zones", look, NoEffect)
StopEffect(a) == Ask(a, "static", wish.look, NoEffect)
SetEffect(a, effect) == Ask(a, "effect", Black, effect)
SetBrightness(a) == Ask(a, "brightness", Black, NoEffect)
AllowTruncated(a) == Ask(a, "restart", Black, NoEffect)

\* powerOn and powerOff; with ifEnabled, for the suspend hook, looked up before the lock.
PowerLights(a, what, ifEnabled) ==
  /\ ifEnabled => wish.animate /\ (what = "on" => dark)
  /\ Ask(a, what, Black, NoEffect)

\* on_exit, on a thread of its own.
Exit(what) ==
  /\ ~ending /\ ending' = TRUE
  /\ job' = [job EXCEPT !["exit"] = [NoJob EXCEPT !.what = what, !.at = "asked"]]
  /\ UNCHANGED <<lit, wish, onFile, speaks, status, frames, hw, starts>>

Running == frames.effect # NoEffect /\ ~frames.told

\* What a call does once it has the lock, from what the config says under it; NoJob if there
\* is nothing to write.
Turned(task, answers) ==
  LET As(what) == [task EXCEPT !.what = what, !.look = wish.look, !.effect = wish.effect]
      Reached(job_) == IF answers THEN job_ ELSE NoJob
      Left == IF Running THEN As("leave") ELSE NoJob
  IN CASE task.what = "brightness" ->
            IF wish.effect = NoEffect THEN Reached(As("zones"))
            ELSE IF Running THEN NoJob ELSE Reached(As("again"))
       [] task.what = "restart" ->
            IF ~Running \/ wish.effect = NoEffect THEN NoJob
            ELSE IF answers THEN As("again") ELSE As("silence")
       [] task.what = "on" -> Reached(As("on"))
       [] task.what = "shutdown" -> IF wish.animate THEN Reached(As("off")) ELSE Left
       [] task.what = "leave" -> Left
       [] OTHER -> Reached(task)

\* What the setting and the slider change is saved here.
TakeHw(a) ==
  /\ job[a].at = "asked" /\ hw = Nobody
  /\ speaks' \in IF job[a].what = "restart" THEN BOOLEAN ELSE {speaks}
  /\ LET task == Turned(job[a], speaks') IN
       IF task = NoJob
         THEN job' = [job EXCEPT ![a] = NoJob] /\ UNCHANGED <<hw, frames>>
         ELSE /\ hw' = a
              /\ job' = [job EXCEPT ![a] = [task EXCEPT !.at = "stopping"]]
              /\ frames' = [frames EXCEPT !.told = frames.effect # NoEffect]
  /\ IF job[a].what = "restart" \/ (job[a].what = "brightness" /\ wish.effect # NoEffect)
       THEN Save(wish) ELSE UNCHANGED onFile
  /\ UNCHANGED <<lit, wish, status, lifetime>>

AwaitStop(a) ==
  /\ job[a].at = "stopping" /\ Stopped
  /\ job' = [job EXCEPT ![a].at = "writing"]
  /\ UNCHANGED <<lit, wish, onFile, speaks, status, frames, hw, lifetime>>

\* apply_locked, from its write.
WriteZones(a) ==
  /\ job[a].at = "writing" /\ job[a].what \in {"zones", "static"}
  /\ \/ /\ lit' = job[a].look
        /\ wish' = [wish EXCEPT !.look = job[a].look, !.effect = NoEffect] /\ Save(wish')
        /\ Recorded(FALSE) /\ EndJob(a) /\ UNCHANGED frames
     \/ WriteFails(a)
  /\ UNCHANGED <<speaks, lifetime>>

\* set_effect, and the restarts of the effect that is set.
WriteEffect(a) ==
  /\ job[a].at = "writing" /\ job[a].what \in {"effect", "again"}
  /\ \/ /\ StartEffect(job[a].effect)
        /\ wish' = [wish EXCEPT !.effect = job[a].effect]
        /\ IF job[a].what = "effect" THEN Save(wish') ELSE UNCHANGED onFile
        /\ EndJob(a) /\ UNCHANGED lit
     \/ WriteFails(a)
  /\ UNCHANGED <<speaks, lifetime>>

\* power_on_locked, from its sweep; the effect starts from its end.
WriteOn(a) ==
  /\ job[a].at = "writing" /\ job[a].what = "on"
  /\ \/ /\ job[a].effect = NoEffect
        /\ lit' = job[a].look /\ Recorded(FALSE)
        /\ EndJob(a) /\ UNCHANGED <<wish, onFile, frames>>
     \/ /\ job[a].effect # NoEffect
        /\ lit' = Foreign /\ StartEffect(job[a].effect)
        /\ EndJob(a) /\ UNCHANGED <<wish, onFile>>
     \/ \* The dialect has gone during the sweep: refused, with nothing recorded.
        /\ job[a].effect # NoEffect /\ ~speaks
        /\ lit' = Foreign /\ standing' = FALSE
        /\ EndJob(a) /\ UNCHANGED <<wish, onFile, dark, owned, error, frames>>
     \/ WriteFails(a)
  /\ UNCHANGED <<speaks, lifetime>>

\* power_off_locked, from its sweep.
WriteOff(a) ==
  /\ job[a].at = "writing" /\ job[a].what = "off"
  /\ \/ /\ lit' = Black /\ Recorded(TRUE)
        /\ EndJob(a) /\ UNCHANGED <<wish, onFile, frames>>
     \/ WriteFails(a)
  /\ UNCHANGED <<speaks, lifetime>>

\* exit_now, its static colours; what is refused is only logged.
WriteLeave(a) ==
  /\ job[a].at = "writing" /\ job[a].what = "leave"
  /\ lit' \in {lit, Foreign} \cup (IF speaks THEN {job[a].look} ELSE {})
  /\ EndJob(a)
  /\ UNCHANGED <<wish, onFile, speaks, status, frames, lifetime>>

\* setAllowTruncatedFourZone that has taken the dialect away: the effect stays stopped.
WriteNothing(a) ==
  /\ job[a].at = "writing" /\ job[a].what = "silence"
  /\ standing' = FALSE /\ EndJob(a)
  /\ UNCHANGED <<lit, wish, onFile, speaks, dark, owned, error, frames, lifetime>>

\* setDialect, and what a new probe finds: no call of its own, and no lock.
SetDialect ==
  /\ speaks' = ~speaks /\ Save(wish)
  /\ UNCHANGED <<lit, wish, status, frames, hw, job, lifetime>>

\* setPowerAnimation.
SetPowerAnimation ==
  /\ wish' = [wish EXCEPT !.animate = ~@] /\ Save(wish')
  /\ UNCHANGED <<lit, speaks, status, frames, hw, job, lifetime>>

-----------------------------------------------------------------------------
(* The effect's thread.                                                     *)

DrawFrame ==
  /\ frames.effect # NoEffect /\ lit # Foreign /\ lit' = Foreign
  /\ UNCHANGED <<wish, onFile, speaks, status, frames, hw, job, lifetime>>

\* Told to stop, seen between two frames.
EndEffect ==
  /\ frames.told /\ frames' = NoThread
  /\ UNCHANGED <<lit, wish, onFile, speaks, status, hw, job, lifetime>>

\* Three frames refused: the error is recorded and the thread ends.
GiveUpEffect ==
  /\ frames.effect # NoEffect /\ frames' = NoThread
  /\ error' = TRUE
  /\ UNCHANGED <<lit, wish, onFile, speaks, dark, owned, hw, job, lifetime, standing>>

-----------------------------------------------------------------------------
(* Lives of the daemon.                                                     *)

\* with_store: what is restored is written before anybody can call.
LightsBegin(file, restoring) ==
  /\ wish' = file
  /\ dark' = FALSE /\ owned' = restoring
  /\ hw' = Nobody /\ job' = [a \in Actors |-> NoJob] /\ ending' = FALSE
  /\ standing' \in {FALSE, restoring /\ speaks'}
  /\ error' = (restoring /\ speaks' /\ ~standing')
  /\ frames' = IF standing' THEN [effect |-> file.effect, told |-> FALSE] ELSE NoThread
  /\ lit' \in IF standing' /\ file.effect = NoEffect THEN {file.look}
              ELSE IF error' \/ standing' THEN {lit, Foreign} ELSE {lit}

LightsInit ==
  /\ lit = Foreign /\ speaks = TRUE
  /\ wish = [look |-> Black, effect |-> NoEffect, animate |-> FALSE]
  /\ onFile = wish
  /\ dark = FALSE /\ owned = FALSE /\ error = FALSE /\ standing = FALSE
  /\ frames = NoThread /\ hw = Nobody /\ job = [a \in Actors |-> NoJob]
  /\ ending = FALSE /\ starts = 0

\* The process ends, after its exit or killed, and the next one begins; whether it
\* restores the file is a setting (restore_on_start), a hand-over, or a file that is not there.
StartLights ==
  /\ starts < MaxStarts /\ starts' = starts + 1
  /\ speaks' \in BOOLEAN
  /\ \E restoring \in BOOLEAN : LightsBegin(onFile, restoring)
  /\ UNCHANGED onFile

LightsNext ==
  \/ \E a \in Players :
       \/ \E look \in Looks : SetZones(a, look)
       \/ \E effect \in Moving : SetEffect(a, effect)
       \/ \E what \in {"on", "off"}, ifEnabled \in BOOLEAN : PowerLights(a, what, ifEnabled)
       \/ StopEffect(a) \/ SetBrightness(a) \/ AllowTruncated(a)
  \/ Exit("leave") \/ Exit("shutdown")
  \/ \E a \in Actors :
       \/ TakeHw(a) \/ AwaitStop(a)
       \/ WriteZones(a) \/ WriteEffect(a) \/ WriteOn(a) \/ WriteOff(a) \/ WriteLeave(a)
       \/ WriteNothing(a)
  \/ SetDialect \/ SetPowerAnimation
  \/ DrawFrame \/ EndEffect \/ GiveUpEffect
  \/ StartLights

LightsSpec == LightsInit /\ [][LightsNext]_lightsVars

-----------------------------------------------------------------------------

\* With nobody at the lights, and nothing refused since: they are out if they were put out,
\* show the look that is set if no effect is, and otherwise the effect that is set is the one
\* that runs.  No frame of another one lands on top (hw, "cannot interleave frames - and an
\* effect cannot be left running after a write that cleared it").
LightsAsSet ==
  hw = Nobody /\ standing /\ ~error /\ ~ending =>
    IF dark THEN lit = Black /\ frames = NoThread
    ELSE IF wish.effect = NoEffect THEN lit = wish.look /\ frames = NoThread
    ELSE frames = [effect |-> wish.effect, told |-> FALSE]

\* "Whether *this daemon* put the lights where they are. False until something is written"
\* (State::owned).
OwnedIsWritten == owned => standing \/ error

\* "a restart that fails here ... leaves the reason in `error`" (set_allow_truncated_four_zone).
StoppedWithReason ==
  [][\A a \in Players : WriteNothing(a) => error']_lightsVars

\* "Back to the static zones, which are written again" (stop_effect): the ones that are set.
LookStands ==
  [][\A a \in Players : WriteZones(a) /\ job[a].what = "static" => wish'.look = wish.look]_lightsVars
=============================================================================
