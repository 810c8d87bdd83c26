------------------------------- MODULE SdiPool -------------------------------
(***************************************************************************)
(* The frames an SDI output hands to its card (out/DeckLinkOutput).  A     *)
(* fixed pool of frames circulates between the free list (under freeM_),   *)
(* the send thread's hand and the card, which keeps a frame until it has   *)
(* been clocked out and gives it back on its own thread.  The card starts  *)
(* to play once enough frames are scheduled.  PackSlots models where the   *)
(* pictures come from; here a tick brings one or does not.  The card is    *)
(* external: it may refuse to open, to lend a buffer, to schedule or to    *)
(* start (a bounded number of times), and its queue may be counted with or *)
(* without the frame on air.                                               *)
(***************************************************************************)
EXTENDS Integers, Sequences, FiniteSets

CONSTANTS FrameRing,     \* kFrameRing, the size of the pool
          MaxFaults,     \* bound on the refusals of the card
          MaxStartFails  \* bound on those of StartScheduledPlayback

SdiPoolAssumption == FrameRing \in Nat \ {0} /\ MaxFaults \in Nat /\ MaxStartFails \in Nat

Pool == 1..FrameRing
Nobody == 0
None == [f \in Pool |-> 0]

VARIABLES step,       \* the send thread: "open", "wait", "take", "hold",
                      \* "stop", "closed"
          free,       \* how often each frame is in free_
          hand,       \* the frame the send thread has taken
          card,       \* frames scheduled and not yet given back, in order
          onair,      \* the first of them is being clocked out
          playing,
          scheduled,  \* scheduledFrames_, counted up to the preroll
          stopping, faults, startFails

pool == <<free, hand, card>>
vars == <<step, pool, onair, playing, scheduled, stopping, faults, startFails>>

\* Frames handed over before the card plays.
TargetPreroll == 3

Init ==
  /\ step = "open" /\ free = None /\ hand = Nobody /\ card = << >>
  /\ onair = FALSE /\ playing = FALSE /\ scheduled = 0
  /\ stopping = FALSE /\ faults = 0 /\ startFails = 0

Fault == faults < MaxFaults /\ faults' = faults + 1

---------------------------------------------------------------------------
(* The send thread.                                                        *)

\* open(): every frame of the pool is created and free, or nothing is kept.
Open ==
  /\ step = "open"
  /\ \/ stopping /\ step' = "stop" /\ UNCHANGED <<free, faults, scheduled>>
     \/ Fault /\ UNCHANGED <<step, free, scheduled>>
     \/ /\ step' = "wait" /\ scheduled' = 0 /\ UNCHANGED faults
        /\ free' = [f \in Pool |-> 1]
  /\ UNCHANGED <<hand, card, onair, playing, stopping, startFails>>

\* A tick was read back.  Its slot may be gone, or the card's queue be deep.
Buffered == {Len(card), Len(card) - (IF onair THEN 1 ELSE 0)}
Deep == TargetPreroll + 3

Wake ==
  /\ step = "wait"
  /\ \/ stopping /\ step' = "stop"
     \/ playing /\ \E b \in Buffered : b >= Deep /\ UNCHANGED step
     \/ (~playing \/ \E b \in Buffered : b < Deep) /\ step' = "take"
  /\ UNCHANGED <<pool, onair, playing, scheduled, stopping, faults, startFails>>

\* Which free frame is taken is immaterial: the first one round the pool from the
\* frame scheduled last.
Round(f) == (f - (IF card = << >> THEN 0 ELSE card[Len(card)]) + FrameRing - 1) % FrameRing

Taken == CHOOSE f \in Pool : free[f] > 0 /\ \A g \in Pool : free[g] > 0 => Round(f) <= Round(g)

Take ==
  /\ step = "take"
  /\ IF free = None THEN step' = "wait" /\ UNCHANGED pool
     ELSE /\ hand' = Taken
          /\ free' = [free EXCEPT ![hand'] = @ - 1] /\ step' = "hold"
          /\ UNCHANGED card
  /\ UNCHANGED <<onair, playing, scheduled, stopping, faults, startFails>>

\* Faulty variant: the frame is not given back.
PutAside == UNCHANGED free

\* The frame in hand goes back to the free list.
PutBack == free' = [free EXCEPT ![hand] = @ + 1]

\* Faulty variant: only the frame that completes the preroll tries to start.
OnPreroll(n) == n = TargetPreroll /\ scheduled < TargetPreroll

\* Playback starts with a full pipeline; a start that failed is tried again
\* after the next frame.
TriesToStart(n) == n >= TargetPreroll

\* The slot cannot be pinned (or was recycled meanwhile), or the card does not
\* lend the frame's buffer or does not schedule it: the frame is free again.
\* A start that failed is tried again after a frame that could not be scheduled,
\* too.
GiveUp ==
  /\ step = "hold" /\ step' = "wait"
  /\ \/ UNCHANGED <<faults, playing>>
     \/ Fault /\ playing' \in {playing, playing \/ TriesToStart(scheduled)}
  /\ PutBack /\ hand' = Nobody
  /\ UNCHANGED <<card, onair, scheduled, stopping, startFails>>

\* The picture is copied into the frame and the frame scheduled.
Schedule ==
  LET n == IF scheduled < TargetPreroll THEN scheduled + 1 ELSE scheduled
  IN /\ step = "hold" /\ step' = "wait"
     /\ card' = Append(card, hand) /\ hand' = Nobody
     /\ scheduled' = n
     /\ IF playing \/ ~TriesToStart(n) THEN UNCHANGED <<playing, startFails>>
        ELSE \/ playing' = TRUE /\ UNCHANGED startFails
             \/ /\ startFails < MaxStartFails /\ startFails' = startFails + 1
                /\ UNCHANGED playing
     /\ UNCHANGED <<free, onair, stopping, faults>>

---------------------------------------------------------------------------
(* The destructor: join, then close(), which lets every frame go.          *)
Destroy == /\ ~stopping /\ stopping' = TRUE
           /\ UNCHANGED <<step, pool, onair, playing, scheduled, faults, startFails>>

Close ==
  /\ step = "stop" /\ step' = "closed"
  /\ free' = None /\ card' = << >> /\ onair' = FALSE /\ playing' = FALSE
  /\ UNCHANGED <<hand, scheduled, stopping, faults, startFails>>

---------------------------------------------------------------------------
(* The card.                                                               *)
ClockOut == /\ playing /\ ~onair /\ card # << >> /\ onair' = TRUE
            /\ UNCHANGED <<step, pool, playing, scheduled, stopping, faults, startFails>>

\* onFrameCompleted: displayed, late or dropped, the frame is free again.
Completed == /\ onair /\ onair' = FALSE
             /\ free' = [free EXCEPT ![Head(card)] = @ + 1] /\ card' = Tail(card)
             /\ UNCHANGED <<step, hand, playing, scheduled, stopping, faults, startFails>>

Send == Open \/ Wake \/ Take \/ GiveUp \/ Schedule \/ Close
Next == Send \/ Destroy \/ ClockOut \/ Completed

Spec == Init /\ [][Next]_vars

\* The send thread runs, not every picture is missed, the card plays.
Fairness ==
  /\ WF_vars(Send) /\ SF_vars(Schedule)
  /\ WF_vars(ClockOut) /\ WF_vars(Completed)
FairSpec == Spec /\ Fairness

---------------------------------------------------------------------------
TypeOK ==
  /\ step \in {"open", "wait", "take", "hold", "stop", "closed"}
  /\ hand \in Pool \cup {Nobody}
  /\ free \in [Pool -> 0..FrameRing] /\ card \in Seq(Pool)
  /\ {onair, playing, stopping} \subseteq BOOLEAN
  /\ scheduled \in 0..TargetPreroll /\ faults \in 0..MaxFaults
  /\ startFails \in 0..MaxStartFails

\* Every frame of the pool is in one place: free, in the send thread's hand or in
\* the card's.  None is written while the card clocks it out, none is lost on an
\* error path (run, schedule, onFrameCompleted, close).
PoolIsWhole ==
  step \notin {"open", "stop", "closed"} =>
    \A f \in Pool :
      LET lent == {i \in DOMAIN card : card[i] = f}
      IN IF f = hand THEN free[f] = 0 /\ lent = {}
         ELSE free[f] + Cardinality(lent) = 1

\* The output starts to play and goes on feeding the card, if the start fails no
\* more often than the pool has frames beyond the preroll (run's last block).
PlaysOut == <>[](stopping \/ playing) /\ []<>(stopping \/ onair)
=============================================================================
