------------------------------- MODULE Hotkey -------------------------------
(***************************************************************************)
(* The key watcher: one thread that reads every keyboard and hands each     *)
(* key that goes down to a learn window somebody opened, or runs the action *)
(* if the key is bound.  Clients open windows, wait behind a condition      *)
(* variable and change the bindings meanwhile.                              *)
(*                                                                         *)
(* What a keyboard reports of a key is the key, whether it has a keycode    *)
(* and whether it is a button; a key without a keycode ("bare") reports     *)
(* itself again when it comes up.  Modifiers are part of which key it is.    *)
(* Time is whether the window has timed out and whether the guard against   *)
(* repeats is over.                                                         *)
(***************************************************************************)
EXTENDS Naturals, Sequences

CONSTANTS
  Learners,  \* the connections that call hotkey.learn
  Keys,      \* the keys there are
  Bare,      \* those the kernel has no keycode for
  Buttons,   \* those that are buttons of a pointing device
  MaxPresses \* bound: how often a key goes down

ASSUME HotkeyAssumption ==
  /\ Bare \subseteq Keys /\ Buttons \subseteq Keys /\ Bare \cap Buttons = {}
  /\ MaxPresses \in Nat

NoKey == "no key"
Silence == [key |-> NoKey, number |-> 0]
Reports == [key : Keys, number : 1..2 * MaxPresses]

VARIABLES
  active,    \* config.enabled
  triggers,  \* config.triggers
  watching,  \* State::watching, and whether the thread has opened the keyboards
  cannot,    \* State::unavailable is set
  window,    \* State::learning: whether it is open, and what it caught
  waiting,   \* per learner, whether it waits and since which report
  held,      \* the keys that are down
  unread,    \* what the kernel keeps for the watcher
  batch,     \* what the watcher has read and not dealt with
  lastFire,  \* the key of run's last_fire, and whether the guard still runs
  presses,   \* for MaxPresses
  heard,     \* how many reports the watcher has dealt with
  used       \* history: the reports that answered a learner or ran the action

hotkeyVars == <<active, triggers, watching, cannot, window, waiting, held, unread, batch,
                lastFire, presses, heard, used>>

NotWaiting == [open |-> FALSE, since |-> 0, bind |-> FALSE]

\* The types of the watcher's variables.
HotkeyTypes ==
  /\ active \in BOOLEAN /\ triggers \subseteq Keys
  /\ watching \in {"not yet", "coming", "reading", "never"} /\ cannot \in BOOLEAN
  /\ window \in [open : BOOLEAN, caught : Reports \cup {Silence}]
  /\ waiting \in [Learners -> [open : BOOLEAN, since : 0..2 * MaxPresses, bind : BOOLEAN]]
  /\ held \subseteq Keys
  /\ unread \in Seq(Keys) /\ batch \in Seq(Keys)
  /\ lastFire \in [key : Keys \cup {NoKey}, recent : BOOLEAN]
  /\ presses \in 0..MaxPresses /\ heard \in 0..2 * MaxPresses
  /\ used \subseteq 1..2 * MaxPresses

HotkeyInit ==
  /\ active = TRUE /\ triggers \in {{}} \cup {{k} : k \in Keys \ Buttons}
  /\ watching = "not yet" /\ cannot \in BOOLEAN
  /\ window = [open |-> FALSE, caught |-> Silence]
  /\ waiting = [c \in Learners |-> NotWaiting]
  /\ held = {} /\ unread = <<>> /\ batch = <<>>
  /\ lastFire = [key |-> NoKey, recent |-> FALSE]
  /\ presses = 0 /\ heard = 0 /\ used = {}

settings == <<active, triggers>>
keyboard == <<held, unread, presses>>

-----------------------------------------------------------------------------
(* The keyboard.                                                            *)

\* absorb: a key that goes down is reported.
PressKey(k) ==
  /\ watching = "reading" /\ k \notin held /\ presses < MaxPresses
  /\ presses' = presses + 1 /\ held' = held \cup {k}
  /\ unread' = Append(unread, k)
  /\ UNCHANGED <<settings, watching, cannot, window, waiting, batch, lastFire, heard, used>>

\* absorb: the scancode of a release is dropped with it, unless the release is all scancode.
LiftKey(k) ==
  /\ k \in held /\ held' = held \ {k}
  /\ unread' = IF k \in Bare THEN Append(unread, k) ELSE unread
  /\ UNCHANGED <<settings, watching, cannot, window, waiting, batch, lastFire, presses, heard, used>>

-----------------------------------------------------------------------------
(* The watcher.                                                             *)

\* watch, called once by main: a machine that had no keyboard is asked again.
StartWatching ==
  /\ watching = "not yet"
  /\ \/ watching' = "coming" /\ cannot' = FALSE
     \/ cannot /\ watching' = "never" /\ UNCHANGED cannot
  /\ UNCHANGED <<settings, window, waiting, keyboard, batch, lastFire, heard, used>>

\* run, from its start: the keyboards are opened, or none can be any more.
OpenKeyboards ==
  /\ watching = "coming"
  /\ \/ watching' = "reading" /\ UNCHANGED cannot
     \/ watching' = "never" /\ cannot' = TRUE
  /\ UNCHANGED <<settings, window, waiting, keyboard, batch, lastFire, heard, used>>

\* wait_for_presses.
ReadKeys ==
  /\ watching = "reading" /\ batch = <<>> /\ unread # <<>>
  /\ batch' = unread /\ unread' = <<>>
  /\ UNCHANGED <<settings, watching, cannot, window, waiting, held, lastFire, presses, heard, used>>

Reported == [key |-> Head(batch), number |-> heard + 1]
NextReport == batch # <<>> /\ batch' = Tail(batch) /\ heard' = heard + 1

\* deliver_to_learner, of a key: the window takes it and is shut.
Catch ==
  /\ NextReport /\ window.open /\ Reported.key \notin Buttons
  /\ window' = [open |-> FALSE, caught |-> Reported]
  /\ UNCHANGED <<settings, watching, cannot, waiting, keyboard, lastFire, used>>

\* deliver_to_learner, of a button: swallowed, the window stays.
SwallowButton ==
  /\ NextReport /\ window.open /\ Reported.key \in Buttons
  /\ UNCHANGED <<settings, watching, cannot, window, waiting, keyboard, lastFire, used>>

Bound == active /\ Reported.key \in triggers
Repeated == lastFire = [key |-> Reported.key, recent |-> TRUE]

\* run: nobody is learning, and the key is not bound, or is taken for its own echo.
DropKey ==
  /\ NextReport /\ ~window.open /\ (~Bound \/ Repeated)
  /\ UNCHANGED <<settings, watching, cannot, window, waiting, keyboard, lastFire, used>>

\* run: the action.
Fire ==
  /\ NextReport /\ ~window.open /\ Bound /\ ~Repeated
  /\ lastFire' = [key |-> Reported.key, recent |-> TRUE]
  /\ used' = used \cup {Reported.number}
  /\ UNCHANGED <<settings, watching, cannot, window, waiting, keyboard>>

\* repeat_guard_ms have gone by.
GuardOver ==
  /\ lastFire.recent /\ lastFire' = [lastFire EXCEPT !.recent = FALSE]
  /\ UNCHANGED <<settings, watching, cannot, window, waiting, keyboard, batch, heard, used>>

-----------------------------------------------------------------------------
(* Clients.                                                                 *)

\* Mutant: what an earlier window caught is still in it.
OpenedOver == [window EXCEPT !.open = TRUE]
Opened == [open |-> TRUE, caught |-> Silence]

\* learn, up to the first wait; anything else is refused.
Learn(c, bind) ==
  /\ watching \in {"coming", "reading"} /\ ~cannot /\ ~window.open /\ ~waiting[c].open
  /\ window' = Opened
  /\ waiting' = [waiting EXCEPT ![c] = [open |-> TRUE, since |-> heard, bind |-> bind]]
  /\ UNCHANGED <<settings, watching, cannot, keyboard, batch, lastFire, heard, used>>

Taken == [open |-> FALSE, caught |-> Silence]

\* learn, woken with a key: whoever waits first takes it.
Answer(c) ==
  /\ waiting[c].open /\ window.caught # Silence
  /\ window' = Taken
  /\ waiting' = [waiting EXCEPT ![c] = NotWaiting]
  /\ triggers' = IF waiting[c].bind THEN {window.caught.key} ELSE triggers
  /\ used' = used \cup {window.caught.number}
  /\ UNCHANGED <<active, watching, cannot, keyboard, batch, lastFire, heard>>

\* learn, timed out with nothing caught.
GiveUp(c) ==
  /\ waiting[c].open /\ window.caught = Silence
  /\ window' = Taken
  /\ waiting' = [waiting EXCEPT ![c] = NotWaiting]
  /\ UNCHANGED <<settings, watching, cannot, keyboard, batch, lastFire, heard, used>>

\* setTriggers, which refuses a button, and setEnabled.
SetTriggers(keys) ==
  /\ keys # triggers /\ keys \cap Buttons = {} /\ triggers' = keys
  /\ UNCHANGED <<active, watching, cannot, window, waiting, keyboard, batch, lastFire, heard, used>>

Enable ==
  /\ active' = ~active
  /\ UNCHANGED <<triggers, watching, cannot, window, waiting, keyboard, batch, lastFire, heard, used>>

HotkeyNext ==
  \/ \E k \in Keys : PressKey(k) \/ LiftKey(k)
  \/ StartWatching \/ OpenKeyboards \/ ReadKeys \/ Catch \/ SwallowButton \/ DropKey \/ Fire \/ GuardOver
  \/ \E c \in Learners : Answer(c) \/ GiveUp(c) \/ \E bind \in BOOLEAN : Learn(c, bind)
  \/ \E keys \in SUBSET Keys : SetTriggers(keys)
  \/ Enable

HotkeySpec == HotkeyInit /\ [][HotkeyNext]_hotkeyVars

-----------------------------------------------------------------------------

\* A report answers one learner or runs the action, once, and a learner is answered with one
\* that was dealt with after it asked, however many wait and whoever wakes first (learn:
\* "reports exactly one key press - the one they pressed to answer the question",
\* devices.rs:34).
AnsweredOnce ==
  [][\A c \in Learners :
       waiting[c].open /\ used' # used /\ ~waiting'[c].open =>
         window.caught.number > waiting[c].since /\ window.caught.number \notin used]_hotkeyVars

\* A window that is open has somebody waiting at it, or keys would be swallowed for nobody.
WindowAttended == window.open => \E c \in Learners : waiting[c].open

\* "A learn window swallows the key: somebody is in the middle of rebinding" (run): nothing
\* fires while somebody waits for a key that has not come.
QuietWhileLearning ==
  [][Fire /\ window.caught = Silence => \A c \in Learners : ~waiting[c].open]_hotkeyVars
=============================================================================
