------------------------------- MODULE Events -------------------------------
(***************************************************************************)
(* The event bus's ring and its most demanding reader: the on-screen widget *)
(* (osd), which shows the power mode.  The daemon moves its mode under a    *)
(* lock and announces it after; two announcements may enter the ring in     *)
(* either order, and each carries the generation of its move.  The widget's *)
(* poller reads the ring with a long poll and the state with a call of its  *)
(* own; its other thread sets the mode when somebody clicks.  The daemon    *)
(* may end and be started again between any two calls.                      *)
(*                                                                         *)
(* A message for the widget's drawing thread is handled when it is sent:    *)
(* the channel is a queue with one reader.                                  *)
(***************************************************************************)
EXTENDS Naturals, FiniteSets, Sequences, SequencesExt

CONSTANTS
  Shown,        \* the power modes
  Capacity,     \* how many events the ring keeps (CAPACITY)
  MaxPublished, \* bound: moves of the mode, and other events, in all
  MaxDaemons    \* bound: lives of the daemon after the first

ASSUME EventsAssumption ==
  /\ Cardinality(Shown) > 1 /\ 0 \notin Shown
  /\ Capacity \in Nat \ {0}
  /\ MaxPublished \in Nat /\ MaxDaemons \in Nat

NoSeq == MaxPublished + 1     \* no `since`, no generation
Seqs == 0..MaxPublished
Other == [mode |-> 0, generation |-> 0]
Updates == [mode : Shown, generation : Seqs \cup {NoSeq}]

VARIABLES
  serving,   \* the daemon answers
  daemon,    \* its mode and the generation of its last move
  unsaid,    \* moves and other things not announced yet
  latest,    \* Ring::latest
  oldest,    \* Ring::oldest, the last event evicted
  ring,      \* Ring::events, the newest last
  poller,    \* poll_until_closed: where it is, `since`, `connected`
  batch,     \* the answer it holds
  glance,    \* what current_mode has answered it
  clicker,   \* the thread that carries out a click
  widget,    \* the mode shown and ModeTracker::last_generation
  daemons, published,  \* for the bounds
  stream,    \* history: the daemon `since` came from, where it began, what was told of it
  lower,     \* history: an answer with a lower number than `since` has not been acted upon
  tracked    \* history: the daemon last_generation came from

eventsVars == <<serving, daemon, unsaid, latest, oldest, ring, poller, batch, glance, clicker,
                widget, daemons, published, stream, lower, tracked>>

NoGlance == [life |-> 0, update |-> Other]
NoBatch == [life |-> 0, seq |-> 0, events |-> {}, missed |-> 0]
Entry == [seq : Seqs, mode : Shown \cup {0}, generation : Seqs]
Announced == [mode : Shown, generation : Seqs] \cup {Other}

BusTypes ==
  /\ serving \in BOOLEAN
  /\ daemon \in [mode : Shown, generation : Seqs]
  /\ unsaid \subseteq Announced
  /\ latest \in Seqs /\ oldest \in Seqs
  /\ ring \in Seq(Entry) /\ Len(ring) <= Capacity
  /\ daemons \in 0..MaxDaemons /\ published \in Seqs

ReaderTypes ==
  /\ poller \in [at : {"seed", "poll", "wait", "answer", "look", "tell", "adopt", "deliver"},
                 since : Seqs \cup {NoSeq}, connected : BOOLEAN,
                 then : {"poll", "adopt", "deliver"}]
  /\ batch \in [life : 0..MaxDaemons, seq : Seqs, events : SUBSET Entry, missed : Seqs]
  /\ glance \in [life : 0..MaxDaemons, update : Updates \cup {Other}]
  /\ stream \in [life : 0..MaxDaemons, from : Seqs, heard : SUBSET Seqs, lost : Seqs]
  /\ lower \in BOOLEAN

WidgetTypes ==
  /\ clicker \in [at : {"idle", "setting", "read", "send"}, life : 0..MaxDaemons,
                  update : Updates \cup {Other}]
  /\ widget \in [mode : Shown, last : Seqs \cup {NoSeq}]
  /\ tracked \in 0..MaxDaemons

\* The types of the bus's and the widget's variables.
EventsTypes == BusTypes /\ ReaderTypes /\ WidgetTypes

Idling == [at |-> "idle", life |-> 0, update |-> Other]

EventsInit ==
  /\ serving = TRUE
  /\ daemon \in [mode : Shown, generation : {0}]
  /\ unsaid = {} /\ latest = 0 /\ oldest = 0 /\ ring = <<>>
  /\ poller = [at |-> "seed", since |-> NoSeq, connected |-> FALSE, then |-> "poll"]
  /\ batch = NoBatch /\ glance = NoGlance
  /\ clicker = Idling
  /\ widget \in [mode : Shown, last : {NoSeq}]
  /\ daemons = 0 /\ published = 0
  /\ stream = [life |-> 0, from |-> 0, heard |-> {}, lost |-> 0]
  /\ lower = FALSE
  /\ tracked = 0

-----------------------------------------------------------------------------
(* The daemon.                                                              *)

busVars == <<latest, oldest, ring>>
readerVars == <<poller, batch, glance, stream, lower>>

\* The mode moves; the announcement is still to come.
Move(m) ==
  /\ serving /\ published < MaxPublished /\ published' = published + 1
  /\ m # daemon.mode
  /\ daemon' = [mode |-> m, generation |-> daemon.generation + 1]
  /\ unsaid' = unsaid \cup {daemon'}

\* Somebody else moves it: the app, ctl, the supervisor, the watcher.
MoveElsewhere(m) ==
  /\ Move(m)
  /\ UNCHANGED <<serving, busVars, readerVars, clicker, widget, daemons, tracked>>

\* Anything else that is announced: a key, the fan mode.
Happen ==
  /\ serving /\ published < MaxPublished /\ published' = published + 1
  /\ unsaid' = unsaid \cup {Other}
  /\ UNCHANGED <<serving, daemon, busVars, readerVars, clicker, widget, daemons, tracked>>

\* Mutant of Evict: the oldest event still held is taken for the last one evicted.
EvictNext(events) == Head(Tail(events)).seq
\* Making room: which event has been evicted last.
Evict(events) == Head(events).seq

\* EventBus::publish.
Publish(what) ==
  /\ serving /\ what \in unsaid /\ unsaid' = unsaid \ {what}
  /\ latest' = latest + 1
  /\ LET events == Append(ring, [seq |-> latest + 1, mode |-> what.mode,
                                 generation |-> what.generation])
     IN IF Len(events) > Capacity
          THEN ring' = Tail(events) /\ oldest' = Evict(events)
          ELSE ring' = events /\ UNCHANGED oldest
  /\ UNCHANGED <<serving, daemon, readerVars, clicker, widget, daemons, published, tracked>>

\* The daemon ends: what it had not announced is gone.
EndDaemon ==
  /\ serving /\ daemons < MaxDaemons
  /\ serving' = FALSE /\ unsaid' = {}
  /\ UNCHANGED <<daemon, busVars, readerVars, clicker, widget, daemons, published, tracked>>

\* Another begins, in whatever mode it finds the machine.
BeginDaemon ==
  /\ ~serving /\ serving' = TRUE /\ daemons' = daemons + 1
  /\ daemon' \in [mode : Shown, generation : {0}]
  /\ latest' = 0 /\ oldest' = 0 /\ ring' = <<>>
  /\ UNCHANGED <<unsaid, readerVars, clicker, widget, published, tracked>>

-----------------------------------------------------------------------------
(* What the drawing thread does with a message.                             *)

\* Mutant of Accepts: whatever comes last is shown.
AcceptsAnything(update) == TRUE
\* ModeTracker::accepts.
Accepts(update) ==
  IF update.generation = NoSeq THEN widget.last = NoSeq
  ELSE widget.last = NoSeq \/ update.generation > widget.last

\* Message::Mode.
Show(update, life) ==
  IF Accepts(update)
    THEN /\ widget' = [mode |-> update.mode, last |-> update.generation]
         /\ tracked' = IF update.generation = NoSeq THEN tracked ELSE life
    ELSE UNCHANGED <<widget, tracked>>

\* Message::ResetModeGeneration.
Forget == widget' = [widget EXCEPT !.last = NoSeq] /\ UNCHANGED tracked

\* The batch's modes, one message each; what stays is the newest that is news.
ShowAll(events, life) ==
  LET moves == {e \in events : e.mode \in Shown}
  IN IF moves = {} THEN UNCHANGED <<widget, tracked>>
     ELSE \E newest \in moves :
            /\ \A e \in moves : e.generation <= newest.generation
            /\ Show([mode |-> newest.mode, generation |-> newest.generation], life)

-----------------------------------------------------------------------------
(* The poller.                                                              *)

restVars == <<serving, daemon, unsaid, busVars, clicker, daemons, published>>

\* push_state, first half: power.getState, if it answers.
Glance(next) ==
  \/ /\ serving /\ glance' = [life |-> daemons, update |-> daemon]
     /\ poller' = [poller EXCEPT !.at = "tell", !.then = next]
  \/ /\ ~serving /\ glance' = NoGlance /\ poller' = [poller EXCEPT !.at = next]

Seed ==
  /\ poller.at = "seed" /\ Glance("poll")
  /\ UNCHANGED <<batch, widget, stream, lower, tracked, restVars>>

Reread ==
  /\ poller.at = "look" /\ Glance(poller.then)
  /\ UNCHANGED <<batch, widget, stream, lower, tracked, restVars>>

\* push_state, second half.
Tell ==
  /\ poller.at = "tell" /\ poller' = [poller EXCEPT !.at = poller.then]
  /\ Show(glance.update, glance.life) /\ glance' = NoGlance
  /\ UNCHANGED <<batch, stream, lower, restVars>>

\* No daemon, or one that ended before it answered: start from now when there is one.
Unreachable ==
  /\ poller.at \in {"poll", "wait"} /\ ~serving
  /\ poller' = [at |-> "poll", since |-> NoSeq, connected |-> FALSE, then |-> "poll"]
  /\ Forget /\ lower' = FALSE
  /\ UNCHANGED <<batch, glance, stream, restVars>>

\* core.nextEvent arrives; without `since` it starts from now.
Poll ==
  /\ poller.at = "poll" /\ serving
  /\ IF poller.since = NoSeq
       THEN /\ poller' = [poller EXCEPT !.at = "wait", !.since = latest]
            /\ stream' = [life |-> daemons, from |-> latest, heard |-> {}, lost |-> 0]
       ELSE poller' = [poller EXCEPT !.at = "wait"] /\ UNCHANGED stream
  /\ UNCHANGED lower
  /\ UNCHANGED <<batch, glance, widget, tracked, restVars>>

\* EventBus::batch.
BatchSince(since) ==
  [life |-> daemons, seq |-> latest, events |-> {e \in Range(ring) : e.seq > since},
   missed |-> IF oldest > since THEN oldest - since ELSE 0]

\* EventBus::read_since: what there is since then, or nothing when the time is up.
Answer ==
  /\ poller.at = "wait" /\ serving
  /\ poller' = [poller EXCEPT !.at = "answer"]
  /\ batch' = IF latest > poller.since THEN BatchSince(poller.since)
              ELSE [NoBatch EXCEPT !.life = daemons, !.seq = latest]
  /\ lower' = (lower \/ latest < poller.since)
  /\ UNCHANGED <<glance, widget, stream, tracked, restVars>>

\* The first answer since the daemon was unreachable: what it is set to is asked again.
Connect ==
  /\ poller.at = "answer"
  /\ poller' = IF poller.connected THEN [poller EXCEPT !.at = "adopt"]
               ELSE [poller EXCEPT !.at = "look", !.connected = TRUE, !.then = "adopt"]
  /\ UNCHANGED <<batch, glance, widget, stream, lower, tracked, restVars>>

\* Mutant of AdoptSeq: a lower number is taken as any other.
AdoptSeqCarriesOn ==
  /\ poller.at = "adopt"
  /\ poller' = [poller EXCEPT !.at = "deliver", !.since = batch.seq]
  /\ stream' = [stream EXCEPT !.heard = @ \cup {e.seq : e \in batch.events},
                              !.lost = @ + batch.missed]
  /\ UNCHANGED <<batch, glance, widget, lower, tracked, restVars>>
\* A lower number is a new daemon's.  What was told of this one is kept for the property.
AdoptSeq ==
  /\ poller.at = "adopt"
  /\ IF batch.seq < poller.since
       THEN /\ poller' = [poller EXCEPT !.at = "look", !.since = batch.seq, !.then = "deliver"]
            /\ stream' = [life |-> batch.life, from |-> batch.seq, heard |-> {}, lost |-> 0]
            /\ Forget /\ lower' = FALSE
       ELSE /\ poller' = [poller EXCEPT !.at = "deliver", !.since = batch.seq]
            /\ stream' = [stream EXCEPT !.heard = @ \cup {e.seq : e \in batch.events},
                                        !.lost = @ + batch.missed]
            /\ UNCHANGED <<widget, lower, tracked>>
  /\ UNCHANGED <<batch, glance, restVars>>

DeliverBatch ==
  /\ poller.at = "deliver" /\ poller' = [poller EXCEPT !.at = "poll"]
  /\ ShowAll(batch.events, stream.life) /\ batch' = NoBatch
  /\ UNCHANGED <<glance, stream, lower, restVars>>

-----------------------------------------------------------------------------
(* A click: power.setMode, which announces before it answers, then getState. *)

clickRest == <<serving, busVars, readerVars, daemons>>

Click(m) ==
  /\ clicker.at = "idle" /\ Move(m)
  /\ clicker' = [at |-> "setting", life |-> daemons, update |-> daemon']
  /\ UNCHANGED <<clickRest, widget, tracked>>

\* The answer to setMode; without one the click is refused and nothing is shown.
SetAnswered ==
  /\ clicker.at = "setting" /\ clicker.update \notin unsaid
  /\ clicker' = IF serving /\ clicker.life = daemons THEN [clicker EXCEPT !.at = "read"] ELSE Idling
  /\ UNCHANGED <<clickRest, daemon, unsaid, widget, published, tracked>>

\* current_mode; unanswered, the mode clicked, of no generation.
ReadBack ==
  /\ clicker.at = "read"
  /\ clicker' = IF serving THEN [at |-> "send", life |-> daemons, update |-> daemon]
                ELSE [clicker EXCEPT !.at = "send", !.update.generation = NoSeq]
  /\ UNCHANGED <<clickRest, daemon, unsaid, widget, published, tracked>>

SendBack ==
  /\ clicker.at = "send" /\ clicker' = Idling
  /\ Show(clicker.update, clicker.life)
  /\ UNCHANGED <<clickRest, daemon, unsaid, published>>

PollerStep ==
  Seed \/ Reread \/ Tell \/ Unreachable \/ Poll \/ Answer \/ Connect \/ AdoptSeq \/ DeliverBatch
ClickerStep == SetAnswered \/ ReadBack \/ SendBack

EventsNext ==
  \/ \E m \in Shown : MoveElsewhere(m) \/ Click(m)
  \/ Happen \/ EndDaemon \/ BeginDaemon
  \/ \E what \in unsaid : Publish(what)
  \/ PollerStep \/ ClickerStep

EventsSpec == EventsInit /\ [][EventsNext]_eventsVars

\* The poller polls, a poll ends by its timeout, a commit is announced, a daemon comes back.
EventsFairness ==
  /\ WF_eventsVars(PollerStep) /\ WF_eventsVars(ClickerStep)
  /\ WF_eventsVars(\E what \in unsaid : Publish(what))
  /\ WF_eventsVars(BeginDaemon)

-----------------------------------------------------------------------------

\* A reader is never handed a gap it cannot see: of one daemon's events, each since it began to
\* read was either in an answer or counted in `missed` (EventBus::batch, Batch::missed).
EventsAccounted ==
  serving /\ stream.life = daemons /\ poller.at \in {"poll", "wait"} /\ poller.since # NoSeq
    => Cardinality(stream.heard) + stream.lost = poller.since - stream.from

\* It counts on with the numbers of a daemon that has ended, having seen neither a refused call
\* nor a lower number.
OldNumbers ==
  /\ ~lower
  /\ \/ poller.since # NoSeq /\ stream.life # daemons
     \/ widget.last # NoSeq /\ tracked # daemons

\* The widget comes to show the mode in force, whatever order moves, announcements, answers and
\* clicks come in, unless events were evicted before it read them or it goes on with the numbers
\* of a daemon that has ended and nothing it was told gave that away (ModeTracker,
\* poll_until_closed: a lower number does).
WidgetCatchesUp ==
  []<>(~serving \/ widget.mode = daemon.mode \/ stream.lost > 0 \/ OldNumbers)

\* "Non-zero means you missed something, re-read the state" (Batch::missed): then the widget
\* catches up however far it fell behind.
WidgetRereads ==
  []<>(~serving \/ widget.mode = daemon.mode \/ OldNumbers)
=============================================================================
