------------------------------ MODULE AudioLane ------------------------------
(***************************************************************************)
(* One input's lane of the mixer (audio/AudioEngine, audio/AudioRing): the *)
(* receive thread writes samples into the ring in bursts, the mixer takes  *)
(* one chunk (kChunkFrames, 5 ms) per tick once the ring has reached the   *)
(* prefill, and trims it when it runs too full.  Everything is counted in  *)
(* chunks.  The sender is external: it sends as much as the mixer takes,   *)
(* holds back at most Hold chunks between bursts, is a little fast, or     *)
(* stalls and comes back with a backlog.                                   *)
(***************************************************************************)
EXTENDS Integers

CONSTANTS Prefill,     \* kPrefillFrames / kChunkFrames
          MaxFill,     \* kMaxFillFrames / kChunkFrames
          RingSize,    \* kRingFrames / kChunkFrames
          Hold,        \* what a sender on cadence holds back at most
          MaxStalls    \* bound on stalls

LaneAssumption ==
  /\ {Prefill, MaxFill, RingSize, Hold, MaxStalls} \subseteq Nat
  /\ 0 < Prefill /\ Prefill < MaxFill /\ MaxFill < RingSize

\* 20 ms are enough for the bursts of a sender on cadence.
CadenceAssumption == Hold <= Prefill

VARIABLES fill,       \* chunks in the ring
          backlog,    \* chunks the sender holds back
          sending,    \* the sender is there
          broken,     \* it has stalled since the lane was last armed
          holding,    \* holding_: wait for the prefill
          seen,       \* the fill the mixer has looked at
          synced,     \* syncManaged (fixed)
          step,       \* the mixer's place in a tick: "trim", "arm", "read"
          gap,        \* the lane ran dry with its sender on cadence
          stalls

sender == <<backlog, sending, stalls>>
vars == <<fill, sender, broken, holding, seen, synced, step, gap>>

Init ==
  /\ fill = 0 /\ backlog = 0 /\ sending = FALSE /\ stalls = 0
  /\ broken = TRUE /\ holding = TRUE /\ seen = 0
  /\ synced \in BOOLEAN /\ step = "trim" /\ gap = FALSE

Least(a, b) == IF a < b THEN a ELSE b

---------------------------------------------------------------------------
(* The receive thread: what does not fit is dropped (AudioRing::write).    *)
Deliver ==
  /\ sending
  /\ \E n \in 1..backlog : backlog' = backlog - n /\ fill' = Least(fill + n, RingSize)
  /\ UNCHANGED <<sending, stalls, broken, holding, seen, synced, step, gap>>

\* A sender a little fast adds a chunk now and then.
Drift ==
  /\ sending /\ fill' = Least(fill + 1, RingSize)
  /\ UNCHANGED <<sender, broken, holding, seen, synced, step, gap>>

Stall ==
  /\ sending /\ stalls < MaxStalls /\ stalls' = stalls + 1
  /\ sending' = FALSE /\ backlog' = 0 /\ broken' = TRUE
  /\ UNCHANGED <<fill, holding, seen, synced, step, gap>>

Connect ==
  /\ ~sending /\ sending' = TRUE /\ backlog' = 0
  /\ \E burst \in {0, Prefill, MaxFill + 1} : fill' = Least(fill + burst, RingSize)
  /\ UNCHANGED <<stalls, broken, holding, seen, synced, step, gap>>

---------------------------------------------------------------------------
(* The mixer's tick.  Only it takes samples out.                           *)

\* The latency guard drops what is above the prefill.
TrimTo == Prefill

\* The fill is looked at; too full, it is trimmed by what was seen and looked at
\* again (the writer may have added to it).
Trim ==
  /\ step = "trim" /\ step' = "arm"
  /\ fill' = IF fill > MaxFill THEN TrimTo ELSE fill
  /\ seen' = fill'
  /\ UNCHANGED <<sender, broken, holding, synced, gap>>

\* A held lane plays from this fill on.
Armed == Prefill

\* A lane that was held plays once the prefill was seen; a synchronised input
\* first drops what was seen above it.
Arm ==
  /\ step = "arm" /\ step' = "read"
  /\ IF holding /\ seen >= Armed
       THEN /\ holding' = FALSE /\ broken' = ~sending
            /\ fill' = IF synced /\ seen > Prefill THEN fill - (seen - Prefill) ELSE fill
       ELSE UNCHANGED <<holding, broken, fill>>
  /\ UNCHANGED <<sender, seen, synced, gap>>

\* A chunk is read; one that is not complete is filled with silence and the lane
\* is held again.  By the next tick the sender owes another chunk; on cadence it
\* has delivered all but Hold of what it owes.
Read ==
  /\ step = "read" /\ step' = "trim"
  /\ IF holding THEN UNCHANGED <<fill, holding, gap>>
     ELSE IF fill >= 1 THEN fill' = fill - 1 /\ UNCHANGED <<holding, gap>>
     ELSE fill' = 0 /\ holding' = TRUE /\ gap' = (gap \/ ~broken)
  /\ backlog < Hold \/ ~sending
  /\ backlog' = IF sending THEN backlog + 1 ELSE 0
  /\ UNCHANGED <<sending, stalls, broken, seen, synced>>

Next == Deliver \/ Drift \/ Stall \/ Connect \/ Trim \/ Arm \/ Read

Spec == Init /\ [][Next]_vars

---------------------------------------------------------------------------
TypeOK ==
  /\ {fill, seen} \subseteq 0..RingSize /\ backlog \in 0..Hold
  /\ {sending, broken, holding, synced, gap} \subseteq BOOLEAN
  /\ step \in {"trim", "arm", "read"} /\ stalls \in 0..MaxStalls

\* A lane that was armed with its sender on cadence never runs dry: neither the
\* arm level nor either trim leaves less than the bursts need (run's prefill,
\* latency guard and re-arm).
NoGapOnCadence == ~gap
=============================================================================
