------------------------------ MODULE FrameFeed ------------------------------
(***************************************************************************)
(* What a pack feed promises its outputs, whatever the render thread, the  *)
(* GPU queues and the other outputs are doing: every output is handed a    *)
(* subsequence of the composited frames, in order, and never a frame whose *)
(* read-back has not completed.  Frames may be skipped (the outputs drop   *)
(* to the latest), so nothing says each one arrives.                       *)
(*                                                                         *)
(* A frame is identified by the timeline value of the tick that made it.   *)
(***************************************************************************)
EXTENDS Naturals

CONSTANT Outs            \* the outputs that consume the feed

VARIABLES
    ready,               \* the newest frame the host memory holds
    delivered            \* [Outs -> Nat]: the last frame each output sent, 0 = none

feedVars == <<ready, delivered>>

FeedInit ==
    /\ ready = 0
    /\ delivered = [o \in Outs |-> 0]

\* A later frame has been read back (values may be skipped).
Publish ==
    /\ ready' \in Nat
    /\ ready' > ready
    /\ UNCHANGED delivered

\* An output sends a frame newer than its last one.
Deliver(o) ==
    /\ \E v \in delivered[o] + 1 .. ready :
          delivered' = [delivered EXCEPT ![o] = v]
    /\ UNCHANGED ready

FeedNext == Publish \/ \E o \in Outs : Deliver(o)

FeedSpec == FeedInit /\ [][FeedNext]_feedVars
==============================================================================
