----------------------------- MODULE RecordDrain -----------------------------
(***************************************************************************)
(* A recording from its pack events to the file (out/FileRecorder,         *)
(* media/AacEncoder).  The render thread queues events and the mixer pushes *)
(* chunks while the recorder accepts them; the encode thread waits for the *)
(* GPU and turns events into packets; the mux thread writes the packets of *)
(* both rings; the destructor stops the two threads in order.  NvHandoff   *)
(* models who may still push when the destructor runs (nobody) and the     *)
(* buffers behind the events.  The encoders are external: each holds back  *)
(* at most one packet until the next frame or until it is drained.         *)
(***************************************************************************)
EXTENDS Integers, SequencesExt

CONSTANTS MaxFrames,     \* bound on events queued and on chunks pushed
          RingSize,      \* places of a packet ring
          AacFrame,      \* chunks in an AAC frame
          MaxFaults      \* bound on late or failing GPU, encoder and file

RecordAssumption == MaxFrames \in Nat /\ RingSize \in Nat \ {0}
                    /\ AacFrame \in Nat \ {0} /\ MaxFaults \in Nat

VARIABLES events,      \* events_: frames queued for encoding
          frames,      \* frames queued so far
          chunks,      \* chunks pushed so far; the AAC frame holds chunks % AacFrame
          done,        \* frames the GPU has finished
          never,       \* frames whose submission failed: never finished
          encode,      \* the encode thread: step and frame in hand
          held,        \* packets inside the encoders, video and audio
          rings,       \* videoPackets_ and audioPackets_
          mux,         \* the mux thread: "run" or "closed"
          file,        \* the packets written, and whether the trailer is
          lost,        \* packets given up, by kind
          dtor,        \* how far the destructor has got
          faults

vars == <<events, frames, chunks, done, never, encode, held, rings, mux, file,
          lost, dtor, faults>>

Streams == {"video", "audio"}
Nothing == [k \in Streams |-> << >>]
Fault == faults < MaxFaults /\ faults' = faults + 1

Init ==
  /\ events = << >> /\ frames = 0 /\ chunks = 0 /\ done = {} /\ never = {}
  /\ encode = [step |-> "pop", frame |-> 0]
  /\ held = Nothing /\ rings = Nothing /\ mux = "run"
  /\ file = [packets |-> Nothing, trailer |-> FALSE]
  /\ lost = [k \in Streams |-> {}] /\ dtor = "none" /\ faults = 0

Accepting == dtor = "none"

\* What an encoder gives out when packet p goes in: the one it held back.
GivenOut(k, p) == held[k]
Holding(k, p)  == <<p>>

\* The packets ps (one at most) are pushed to ring k, or freed when it is full.
Pushed(k, ps) ==
  IF Len(rings[k]) + Len(ps) <= RingSize
    THEN rings' = [rings EXCEPT ![k] = @ \o ps] /\ UNCHANGED lost
    ELSE lost' = [lost EXCEPT ![k] = @ \cup ToSet(ps)] /\ UNCHANGED rings

---------------------------------------------------------------------------
(* The render thread, the GPU and the mixer.                               *)
PushEvent ==
  /\ Accepting /\ frames < MaxFrames
  /\ frames' = frames + 1 /\ events' = Append(events, frames + 1)
  /\ \/ UNCHANGED <<never, faults>>
     \/ Fault /\ never' = never \cup {frames + 1}
  /\ UNCHANGED <<chunks, done, encode, held, rings, mux, file, lost, dtor>>

GpuFinishes ==
  /\ done # (1..frames) \ never
  /\ done' = done \cup {CHOOSE f \in (1..frames) \ (never \cup done) :
                          \A g \in (1..frames) \ (never \cup done) : f <= g}
  /\ UNCHANGED <<events, frames, chunks, never, encode, held, rings, mux, file,
                 lost, dtor, faults>>

\* pushAudio: a chunk completes an AAC frame or waits in it.  The encoder can
\* refuse the frame, or take it and fail to give out the packet it held back.
PushAudio ==
  /\ Accepting /\ chunks < MaxFrames
  /\ chunks' = chunks + 1
  /\ IF chunks' % AacFrame # 0 THEN UNCHANGED <<held, rings, lost, faults>>
     ELSE LET p == chunks' \div AacFrame
              Takes == held' = [held EXCEPT !["audio"] = Holding("audio", p)]
          IN \/ Takes /\ Pushed("audio", GivenOut("audio", p)) /\ UNCHANGED faults
             \/ /\ Takes /\ Fault /\ UNCHANGED rings
                /\ lost' = [lost EXCEPT !["audio"] = @ \cup ToSet(GivenOut("audio", p))]
             \/ /\ Fault /\ lost' = [lost EXCEPT !["audio"] = @ \cup {p}]
                /\ UNCHANGED <<held, rings>>
  /\ UNCHANGED <<events, frames, done, never, encode, mux, file, dtor>>

---------------------------------------------------------------------------
(* The encode thread: it stops when asked to and its queue is empty.       *)
Stopped == dtor # "none"

Pop ==
  /\ encode.step = "pop"
  /\ IF events # << >>
       THEN /\ encode' = [step |-> "wait", frame |-> Head(events)]
            /\ events' = Tail(events)
       ELSE Stopped /\ encode' = [step |-> "drain", frame |-> 0] /\ UNCHANGED events
  /\ UNCHANGED <<frames, chunks, done, never, held, rings, mux, file, lost, dtor, faults>>

\* The frame is packed and becomes a packet, or the encoder fails on it.
Encode ==
  /\ encode.step = "wait" /\ encode.frame \in done
  /\ \/ /\ Pushed("video", GivenOut("video", encode.frame))
        /\ held' = [held EXCEPT !["video"] = Holding("video", encode.frame)]
        /\ UNCHANGED faults
     \/ /\ Fault /\ lost' = [lost EXCEPT !["video"] = @ \cup {encode.frame}]
        /\ UNCHANGED <<held, rings>>
  /\ encode' = [step |-> "pop", frame |-> 0]
  /\ UNCHANGED <<events, frames, chunks, done, never, mux, file, dtor>>

\* Faulty variant: the wait is not bounded.
NeverAgain == FALSE

\* A wait of 100 ms that timed out is the last one when the recorder is being
\* stopped; a frame that never comes uses up the five seconds of the bound.
WaitIsOver == Stopped \/ encode.frame \in never

\* A GPU that is only slow, and answers after the five seconds, is a fault: the
\* frame is given up although it will be done.
Abandon ==
  /\ encode.step = "wait" /\ encode.frame \notin done
  /\ \/ WaitIsOver /\ UNCHANGED faults
     \/ Fault
  /\ lost' = [lost EXCEPT !["video"] = @ \cup {encode.frame}]
  /\ encode' = [step |-> "pop", frame |-> 0]
  /\ UNCHANGED <<events, frames, chunks, done, never, held, rings, mux, file, dtor>>

Drain ==
  /\ encode.step = "drain"
  /\ Pushed("video", held["video"]) /\ held' = [held EXCEPT !["video"] = << >>]
  /\ encode' = [step |-> "ended", frame |-> 0]
  /\ UNCHANGED <<events, frames, chunks, done, never, mux, file, dtor, faults>>

---------------------------------------------------------------------------
(* The mux thread: video first; once stopped it leaves when both rings are  *)
(* empty, and writes the trailer.                                          *)

\* Faulty variant: the mux thread leaves at once when it is stopped.
LeavesAtOnce == dtor = "joinMux"

MayLeave == dtor = "joinMux" /\ rings = Nothing

Write ==
  /\ mux = "run" /\ ~MayLeave
  /\ \E k \in Streams :
       /\ rings[k] # << >> /\ (k = "audio" => rings["video"] = << >>)
       /\ rings' = [rings EXCEPT ![k] = Tail(@)]
       /\ \/ /\ file' = [file EXCEPT !.packets[k] = Append(@, Head(rings[k]))]
             /\ UNCHANGED <<lost, faults>>
          \/ /\ Fault /\ lost' = [lost EXCEPT ![k] = @ \cup {Head(rings[k])}]
             /\ UNCHANGED file
  /\ UNCHANGED <<events, frames, chunks, done, never, encode, held, mux, dtor>>

CloseMux ==
  /\ mux = "run" /\ MayLeave
  /\ mux' = "closed" /\ file' = [file EXCEPT !.trailer = TRUE]
  /\ UNCHANGED <<events, frames, chunks, done, never, encode, held, rings, lost, dtor, faults>>

---------------------------------------------------------------------------
(* The destructor: accept nothing, join the encode thread, drain the AAC   *)
(* encoder, join the mux thread.                                           *)
Destroy ==
  /\ dtor = "none" /\ dtor' = "joinEncode"
  /\ UNCHANGED <<events, frames, chunks, done, never, encode, held, rings, mux, file, lost, faults>>

DrainAudio ==
  /\ dtor = "joinEncode" /\ encode.step = "ended"
  /\ Pushed("audio", held["audio"]) /\ held' = [held EXCEPT !["audio"] = << >>]
  /\ dtor' = "joinMux"
  /\ UNCHANGED <<events, frames, chunks, done, never, encode, mux, file, faults>>

\* What is left in the rings is freed.
Destroyed ==
  /\ dtor = "joinMux" /\ mux = "closed" /\ dtor' = "gone"
  /\ rings' = Nothing
  /\ UNCHANGED <<events, frames, chunks, done, never, encode, held, mux, file, lost, faults>>

Encoder == Pop \/ Encode \/ Abandon \/ Drain
Writer  == Write \/ CloseMux
Next ==
  \/ PushEvent \/ GpuFinishes \/ PushAudio \/ Encoder \/ Writer
  \/ Destroy \/ DrainAudio \/ Destroyed

Spec == Init /\ [][Next]_vars
Fairness == WF_vars(Encoder) /\ WF_vars(Writer) /\ WF_vars(DrainAudio \/ Destroyed)

FairSpec == Spec /\ Fairness

---------------------------------------------------------------------------
Packets == 1..MaxFrames

TypeOK ==
  /\ events \in Seq(Packets) /\ frames \in 0..MaxFrames /\ chunks \in 0..MaxFrames
  /\ done \subseteq Packets /\ never \subseteq Packets
  /\ encode \in [step : {"pop", "wait", "drain", "ended"}, frame : 0..MaxFrames]
  /\ \A k \in Streams : /\ held[k] \in Seq(Packets) /\ Len(held[k]) <= 1
                      /\ rings[k] \in Seq(Packets) /\ Len(rings[k]) <= RingSize
                      /\ file.packets[k] \in Seq(Packets) /\ lost[k] \subseteq Packets
  /\ file.trailer \in BOOLEAN /\ mux \in {"run", "closed"}
  /\ dtor \in {"none", "joinEncode", "joinMux", "gone"} /\ faults \in 0..MaxFaults

Made(k) == IF k = "video" THEN 1..frames ELSE 1..(chunks \div AacFrame)

\* A recording that has been stopped is whole: its trailer is written, and every
\* frame queued and every complete AAC frame is in the file, in order, unless it
\* failed, timed out or found its ring full (the order of the destructor, the
\* loop conditions, the two drains).
RecordingWhole ==
  dtor = "gone" =>
    /\ file.trailer
    /\ \A k \in Streams :
         /\ ToSet(file.packets[k]) = Made(k) \ lost[k]
         /\ \A i, j \in DOMAIN file.packets[k] :
              i < j => file.packets[k][i] < file.packets[k][j]

\* Stopping a recording ends, also when a frame it waits for never comes
\* (encodeLoop's bounded wait, ~FileRecorder).
StopReturns == (dtor = "joinEncode") ~> (dtor = "gone")
=============================================================================
