------------------------------ MODULE SdiInput ------------------------------
(***************************************************************************)
(* One SDI input (decklink/DeckLinkInput).  A worker thread opens and      *)
(* reopens the device, applies the format changes the card reports and     *)
(* watches for streams that have gone quiet; the card's callback thread    *)
(* delivers frames and format changes.  The two meet in three places:      *)
(* pendingFormat_ under formatM_, the atomics (streaming_, connected_,     *)
(* fpsN_/fpsD_, lastFrameNs_), and StopStreams, which waits for a callback *)
(* in flight.  The card and its driver are external: it delivers frames    *)
(* while it runs, reports a mode once when the signal it detects changes,  *)
(* and may be taken away or stall at any time (at most MaxEvents times).   *)
(***************************************************************************)
EXTENDS Integers

CONSTANTS Modes,     \* display modes the card and the signal can have
          Seed,      \* the mode an auto-detecting input is opened with
          MaxEvents  \* bound on what happens to the card and its signal

NoMode == "no mode"
SdiAssumption == Seed \in Modes /\ NoMode \notin Modes /\ MaxEvents \in Nat

VARIABLES forced,     \* the mode the ref names, or NoMode (fixed)
          detects,    \* the card detects formats (fixed)
          signal,     \* the mode on the wire, or NoMode
          avail,      \* the device is there and nobody else holds it
          card,       \* the open device: enabled mode, running, told, stalled
          worker,     \* the worker's place in run()
          taken,      \* the mode the worker is starting, or NoMode for the seed
          opening,    \* it is starting it for open(), not for a format change
          streaming, connected, fresh,   \* streaming_, connected_, quiet <= 3 s
          pending,    \* pendingFormat_ while formatPending_, else NoMode
          fps,        \* the mode whose rate is in fpsN_/fpsD_, at first the seed's
          callback,   \* the callback in flight
          published,  \* mode and rate of the last frame published
          events      \* how often the outside world has interfered

card_vars == <<card, callback, published>>
vars == <<forced, detects, signal, avail, worker, taken, opening, streaming,
          connected, fresh, pending, fps, events, card_vars>>

Closed == [enabled |-> NoMode, running |-> FALSE, told |-> NoMode, stalled |-> FALSE]
Idle   == [kind |-> "none", mode |-> NoMode]

Init ==
  /\ forced \in Modes \cup {NoMode} /\ detects \in BOOLEAN
  /\ signal \in Modes \cup {NoMode} /\ avail \in BOOLEAN
  /\ card = Closed /\ callback = Idle
  /\ worker = "loop" /\ taken = NoMode /\ opening = FALSE
  /\ streaming = FALSE /\ connected = FALSE /\ fresh = FALSE
  /\ pending = NoMode /\ fps = Seed
  /\ published = [mode |-> NoMode, rate |-> NoMode] /\ events = 0

---------------------------------------------------------------------------
(* The worker.                                                             *)

\* Faulty variant: the lock is kept until the streams are stopped.
HeldThroughStop == {"take", "stop"}

\* formatM_ is its only lock; these are the places where it holds it.
HoldsFormatM == {"take"}

\* One turn of the loop: a stream that is not running is opened again.
Loop ==
  /\ worker = "loop"
  /\ worker' = IF streaming THEN "take" ELSE "close"
  /\ UNCHANGED <<forced, detects, signal, avail, taken, opening, streaming, connected,
                 fresh, pending, fps, events, card_vars>>

\* close(): StopStreams returns once no callback is in flight, then the callback
\* is cleared and the device released.
Close ==
  /\ worker = "close" /\ callback = Idle
  /\ card' = Closed /\ streaming' = FALSE /\ connected' = FALSE
  /\ worker' = "clear"
  /\ UNCHANGED <<forced, detects, signal, avail, taken, opening, fresh, pending, fps,
                 events, callback, published>>

\* A change that refers to the device just closed is forgotten, and open()
\* finds the device or fails.
Open ==
  /\ worker = "clear"
  /\ pending' = NoMode
  /\ \/ avail /\ taken' = forced /\ worker' = "enable"
     \/ ~avail /\ worker' = "loop" /\ UNCHANGED taken
  /\ opening' = TRUE
  /\ UNCHANGED <<forced, detects, signal, avail, streaming, connected, fresh,
                 fps, events, card_vars>>

\* open() that failed waits a second and starts over; one that succeeded looks
\* for a change at once; a restart goes on to the watchdog.
Unstarted == IF opening THEN "loop" ELSE "watch"
Started   == IF opening THEN "take" ELSE "watch"

\* startStreams in its three steps: the card is given the mode, the rate is
\* stored for the frames to come, the streams start.  Another process may hold
\* the card: then there is no stream and the next turn closes the device.
Enable ==
  /\ worker = "enable"
  /\ IF avail
       THEN /\ card' = LET dm == IF taken = NoMode THEN Seed ELSE taken
                       IN [card EXCEPT !.enabled = dm, !.told = dm, !.stalled = FALSE]
            /\ worker' = "rate" /\ UNCHANGED streaming
       ELSE streaming' = FALSE /\ worker' = Unstarted /\ UNCHANGED card
  /\ UNCHANGED <<forced, detects, signal, avail, taken, opening, connected, fresh,
                 pending, fps, events, callback, published>>

Rate ==
  /\ worker = "rate"
  /\ fps' = IF taken = NoMode THEN fps ELSE taken
  /\ worker' = "run"
  /\ UNCHANGED <<forced, detects, signal, avail, taken, opening, streaming, connected,
                 fresh, pending, events, card_vars>>

Run ==
  /\ worker = "run"
  /\ \/ /\ avail /\ card' = [card EXCEPT !.running = TRUE]
        /\ streaming' = TRUE /\ fresh' = TRUE /\ worker' = Started
     \/ ~avail /\ streaming' = FALSE /\ worker' = Unstarted /\ UNCHANGED <<card, fresh>>
  /\ UNCHANGED <<forced, detects, signal, avail, taken, opening, connected, pending,
                 fps, events, callback, published>>

\* applyPendingFormat: the change is taken under formatM_, which is let go
\* before StopStreams.
Take ==
  /\ worker = "take"
  /\ IF pending = NoMode
       THEN worker' = "watch" /\ UNCHANGED <<taken, pending>>
       ELSE taken' = pending /\ pending' = NoMode /\ worker' = "stop"
  /\ opening' = FALSE
  /\ UNCHANGED <<forced, detects, signal, avail, streaming, connected, fresh,
                 fps, events, card_vars>>

Stop ==
  /\ worker = "stop" /\ callback = Idle
  /\ card' = [card EXCEPT !.running = FALSE] /\ worker' = "enable"
  /\ UNCHANGED <<forced, detects, signal, avail, taken, opening, streaming, connected,
                 fresh, pending, fps, events, callback, published>>

\* The watchdog: no frame for 3 s and the device is reopened.
Watch ==
  /\ worker = "watch"
  /\ streaming' = (streaming /\ fresh) /\ worker' = "loop"
  /\ UNCHANGED <<forced, detects, signal, avail, taken, opening, connected, fresh,
                 pending, fps, events, card_vars>>

Worker == Loop \/ Close \/ Open \/ Enable \/ Rate \/ Run \/ Take \/ Stop \/ Watch

---------------------------------------------------------------------------
(* The callback thread: one callback at a time, and none once stopped.     *)
CardReports ==
  /\ card.running /\ detects /\ callback = Idle /\ ~card.stalled
  /\ signal \notin {NoMode, card.told}
  /\ callback' = [kind |-> "format", mode |-> signal]
  /\ card' = [card EXCEPT !.told = signal]
  /\ UNCHANGED <<forced, detects, signal, avail, worker, taken, opening, streaming,
                 connected, fresh, pending, fps, events, published>>

\* onFormatChanged: record what the card reported, touch nothing else.
OnFormatChanged ==
  /\ callback.kind = "format" /\ worker \notin HoldsFormatM
  /\ pending' = callback.mode /\ callback' = Idle
  /\ UNCHANGED <<forced, detects, signal, avail, worker, taken, opening, streaming,
                 connected, fresh, fps, events, card, published>>

\* onFrame up to the flags: a frame without a source is no picture.
FrameArrives ==
  /\ card.running /\ ~card.stalled /\ callback = Idle
  /\ fresh' = TRUE
  /\ IF signal = card.enabled
       THEN connected' = TRUE /\ callback' = [kind |-> "frame", mode |-> signal]
       ELSE connected' = FALSE /\ UNCHANGED callback
  /\ UNCHANGED <<forced, detects, signal, avail, card, worker, taken, opening, streaming,
                 pending, fps, events, published>>

\* The rest of onFrame: the description takes the rate that is stored now.
OnFrame ==
  /\ callback.kind = "frame"
  /\ published' = [mode |-> callback.mode, rate |-> fps]
  /\ callback' = Idle
  /\ UNCHANGED <<forced, detects, signal, avail, card, worker, taken, opening, streaming,
                 connected, fresh, pending, fps, events>>

---------------------------------------------------------------------------
(* The world: the signal changes, the streams stall, the device comes and  *)
(* goes, 3 s pass without a frame.                                         *)
World ==
  /\ events < MaxEvents /\ events' = events + 1
  /\ \/ /\ signal' \in (Modes \cup {NoMode}) \ {signal}
        /\ UNCHANGED <<avail, card>>
     \/ /\ card.running /\ ~card.stalled
        /\ card' = [card EXCEPT !.stalled = TRUE] /\ UNCHANGED <<signal, avail>>
     \/ /\ avail' = ~avail
        /\ card' = [card EXCEPT !.stalled = card.running] /\ UNCHANGED signal
  /\ UNCHANGED <<forced, detects, worker, taken, opening, streaming, connected, fresh,
                 pending, fps, callback, published>>

Quiet ==
  /\ fresh /\ streaming /\ (card.stalled \/ ~card.running)
  /\ fresh' = FALSE
  /\ UNCHANGED <<forced, detects, signal, avail, worker, taken, opening, streaming,
                 connected, pending, fps, events, card_vars>>

Next ==
  \/ Worker \/ CardReports \/ OnFormatChanged \/ FrameArrives \/ OnFrame
  \/ World \/ Quiet

Spec == Init /\ [][Next]_vars

\* The threads run, the card delivers and reports while it runs, time passes.
Fairness ==
  /\ WF_vars(Worker) /\ WF_vars(OnFrame) /\ SF_vars(OnFormatChanged)
  /\ SF_vars(CardReports) /\ SF_vars(FrameArrives) /\ SF_vars(Quiet)
FairSpec == Spec /\ Fairness

---------------------------------------------------------------------------
TypeOK ==
  /\ forced \in Modes \cup {NoMode} /\ detects \in BOOLEAN
  /\ signal \in Modes \cup {NoMode} /\ avail \in BOOLEAN
  /\ card \in [enabled : Modes \cup {NoMode}, running : BOOLEAN,
               told : Modes \cup {NoMode}, stalled : BOOLEAN]
  /\ callback \in [kind : {"none", "format", "frame"}, mode : Modes \cup {NoMode}]
  /\ worker \in {"loop", "close", "clear", "enable", "rate", "run", "take",
                 "stop", "watch"}
  /\ taken \in Modes \cup {NoMode} /\ pending \in Modes \cup {NoMode}
  /\ fps \in Modes /\ events \in 0..MaxEvents
  /\ {opening, streaming, connected, fresh} \subseteq BOOLEAN
  /\ published \in [mode : Modes \cup {NoMode}, rate : Modes \cup {NoMode}]

\* A frame published in a mode the card reported (or the ref named) carries that
\* mode's rate: the rate is stored while the streams are stopped, so no frame of
\* the old mode is described with the new one or the other way round
\* (applyPendingFormat, startStreams, onFrame).  A frame in the seed mode may
\* carry the rate of an earlier mode: startStreams leaves it alone.
RateIsTheFrames ==
  published.mode \notin {NoMode, Seed} => published.rate = published.mode

\* The card can capture what is on the wire: it detects formats, or the mode it
\* is opened with is the signal's.
Capturable ==
  /\ avail /\ signal # NoMode
  /\ detects \/ signal = (IF forced = NoMode THEN Seed ELSE forced)

\* Whatever happened before, an input whose device is there and whose signal can
\* be captured ends up connected in the mode of the signal, and one without a
\* signal ends up disconnected (run, onFormatChanged, onFrame's no-source flag).
SettlesOnSignal ==
  <>[](/\ Capturable => connected /\ card.enabled = signal
       /\ signal = NoMode => ~connected)

\* The rate described is the signal's once the input has settled.  "Anything
\* valid works" as the seed mode only if the card corrects the rate as well.
RateFollowsSignal ==
  <>[](Capturable => published = [mode |-> signal, rate |-> signal])
=============================================================================
