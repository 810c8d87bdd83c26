----------------------------- MODULE OutputSide -----------------------------
(***************************************************************************)
(* What leaves the switcher, checked side by side: the buffers the SRT and *)
(* the recording encoders read (NvHandoff), a recording from its events to *)
(* its trailer (RecordDrain), the connection of an SRT output (SrtMux) and *)
(* the frames an SDI output lends to its card (SdiPool).  The part that    *)
(* moves is chosen at the start; a liveness property holds under the       *)
(* fairness of its own part.                                               *)
(***************************************************************************)
EXTENDS NvHandoff

CONSTANTS
  MaxFrames, PacketRing, AacFrame, MaxFailures,  \* of RecordDrain
  StreamRing, MaxOutages,                        \* of SrtMux
  FrameRing, MaxRefusals, MaxStartFails          \* of SdiPool

VARIABLES
  part,
  \* RecordDrain
  queued, frames, chunks, done, never, encode, held, packets, mux, file, lost, dtor, failures,
  \* SrtMux
  rings, hand, step, connected, backoff, reachable, stopping, stale, sent, faults,
  \* SdiPool
  send, free, lent, card, onair, playing, scheduled, ending, refusals, startFails

drainVars == <<queued, frames, chunks, done, never, encode, held, packets, mux, file, lost, dtor,
               failures>>
muxVars == <<rings, hand, step, connected, backoff, reachable, stopping, stale, sent, faults>>
poolVars == <<send, free, lent, card, onair, playing, scheduled, ending, refusals, startFails>>
outputVars == <<part, vars, drainVars, muxVars, poolVars>>

Drain == INSTANCE RecordDrain
  WITH RingSize <- PacketRing, MaxFaults <- MaxFailures,
       events <- queued, rings <- packets, faults <- failures

Mux == INSTANCE SrtMux WITH RingSize <- StreamRing, MaxFaults <- MaxOutages

Pool == INSTANCE SdiPool
  WITH MaxFaults <- MaxRefusals,
       step <- send, hand <- lent, stopping <- ending, faults <- refusals

ASSUME OutputAssumption ==
  /\ Drain!RecordAssumption /\ Mux!SrtAssumption /\ Pool!SdiPoolAssumption

\* The parts that do not move stay in one of their initial states.
OutputInit ==
  /\ part \in {"handoff", "drain", "mux", "pool"}
  /\ Init /\ Drain!Init /\ Pool!Init
  /\ Mux!Init /\ (reachable => part = "mux")

OutputNext ==
  \/ part = "handoff" /\ Next
     /\ UNCHANGED <<part, drainVars, muxVars, poolVars>>
  \/ part = "drain" /\ Drain!Next
     /\ UNCHANGED <<part, vars, muxVars, poolVars>>
  \/ part = "mux" /\ Mux!Next
     /\ UNCHANGED <<part, vars, drainVars, poolVars>>
  \/ part = "pool" /\ Pool!Next
     /\ UNCHANGED <<part, vars, drainVars, muxVars>>

OutputSpec == OutputInit /\ [][OutputNext]_outputVars

---------------------------------------------------------------------------
(* The properties, each stated in the module of its part.                  *)

\* Every part keeps the types of its variables.
OutputTypes ==
  CASE part = "handoff" -> TypeOK
    [] part = "drain" -> Drain!TypeOK
    [] part = "mux" -> Mux!TypeOK
    [] part = "pool" -> Pool!TypeOK

\* The SRT encoder reads the frame it was told of, its ring never refuses one, and
\* no event goes to a recorder that is being stopped (NvHandoff).
HandoffSafe == part = "handoff" => SrtReadsItsFrame /\ SrtRingSuffices /\ NoWorkForRetired

\* Every frame an SDI output lends is in one place (DeckLinkOutput).
PoolIsWhole == part = "pool" => Pool!PoolIsWhole

\* A recording that was stopped is whole, and a viewer of a stream gets nothing from
\* before the connection (FileRecorder, SrtOutput).
PacketsWhole ==
  /\ part = "drain" => Drain!RecordingWhole
  /\ part = "mux" => Mux!JoinsAtNow

\* Stopping a recording comes to its end, whatever the GPU or the encoder does.
RecordingsStop ==
  /\ part = "handoff" /\ Fairness => RequestsFinish
  /\ part = "drain" /\ Drain!Fairness => Drain!StopReturns

\* An output recovers from what its peer or its card does to it: the stream goes on and
\* the card plays.
OutputsRecover ==
  /\ part = "mux" /\ Mux!Fairness => Mux!EndsUpSending
  /\ part = "pool" /\ Pool!Fairness => Pool!PlaysOut
=============================================================================
