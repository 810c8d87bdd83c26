------------------------------- MODULE NvHandoff -------------------------------
(***************************************************************************)
(* The NV12 pack buffers, one per frame in flight, that the render thread  *)
(* fills for the SRT output and the recorder, and the handshake by which   *)
(* their encoders give them back, while control threads start, stop and    *)
(* replace the recorder.                                                   *)
(*                                                                         *)
(* A tick is the render timeline value it reserves; the GPU finishes the   *)
(* ticks in order.  Consumer 0 is the SRT output, the others are the       *)
(* recorders in the order they are made.  What the encoders produce, and   *)
(* the clean recorder, the same code on buffers of its own, are left out.  *)
(***************************************************************************)
EXTENDS Naturals, Sequences, FiniteSets

CONSTANTS
    FramesInFlight,  \* kFramesInFlight
    Capacity,        \* of an encoder's ring of events
    SrtOn,           \* an SRT output is configured
    Controllers,     \* threads that request recordings
    Kinds,           \* the requests they make: "start", "stop"
    MaxRequests,     \* bound: requests
    MaxValue         \* bound: ticks

ASSUME SizesAssumption == FramesInFlight \in Nat \ {0} /\ Capacity \in Nat \ {0}
ASSUME SrtAssumption == SrtOn \in BOOLEAN
ASSUME KindsAssumption == Kinds \subseteq {"start", "stop"}
ASSUME BoundsAssumption == MaxRequests \in Nat /\ MaxValue \in Nat

VARIABLES
    value,       \* last value reserved on renderTL_
    gpu,         \* renderTL_ has completed up to here
    packing,     \* values whose submission packs NV12
    buf,         \* the value whose frame each buffer holds
    slot,        \* recorder_, 0 for none
    generation,  \* recorderGeneration_
    render,      \* render thread: [pc, rec]: where, and the recorder it holds
    seen,        \* seenRecorderGeneration
    srtPushed,   \* srtNvPushed_
    recPushed,   \* recordNvPushed_
    events,      \* each consumer's ring
    job,         \* what each encoder is encoding, 0 for nothing
    copied,      \* copied_ of each consumer
    life,        \* "unborn", "live", "stopping", "gone"
    ctl,         \* control threads: [pc, prev]
    requests

Recorders == 1 .. MaxRequests
Consumers == {0} \cup Recorders
Fifs == 0 .. FramesInFlight - 1
Fif(v) == v % FramesInFlight

gpuVars == <<gpu, packing, buf>>
slotVars == <<slot, generation>>
tickVars == <<value, render, seen, srtPushed, recPushed>>
encVars == <<job, copied>>
ctlVars == <<ctl, requests>>
vars == <<gpuVars, slotVars, tickVars, events, encVars, life, ctlVars>>

Init ==
    /\ value = 0 /\ gpu = 0 /\ packing = {}
    /\ buf = [f \in Fifs |-> 0]
    /\ slot = 0 /\ generation = 0
    /\ render = [pc |-> "idle", rec |-> 0]
    /\ seen = 0
    /\ srtPushed = [f \in Fifs |-> 0] /\ recPushed = [f \in Fifs |-> 0]
    /\ events = [c \in Consumers |-> << >>]
    /\ job = [c \in Consumers |-> 0]
    /\ copied = [c \in Consumers |-> [f \in Fifs |-> 0]]
    /\ life = [c \in Consumers |-> IF c = 0 /\ SrtOn THEN "live" ELSE "unborn"]
    /\ ctl = [t \in Controllers |-> [pc |-> "idle", prev |-> 0]]
    /\ requests = 0

------------------------------------------------------------------------------
(* Render thread *)

\* Faulty variant: the buffer's last submission is not waited for.
BeginNoWait ==
    /\ render.pc = "idle"
    /\ value < MaxValue
    /\ value' = value + 1
    /\ render' = [pc |-> "loaded", rec |-> slot]
    /\ UNCHANGED <<seen, srtPushed, recPushed>>
    /\ UNCHANGED <<gpuVars, slotVars, events, encVars, life, ctlVars>>

\* Wait out the submission that used this buffer, then take hold of the recorder.
Begin ==
    /\ render.pc = "idle"
    /\ value < MaxValue
    /\ value + 1 <= gpu + FramesInFlight
    /\ value' = value + 1
    /\ render' = [pc |-> "loaded", rec |-> slot]
    /\ UNCHANGED <<seen, srtPushed, recPushed>>
    /\ UNCHANGED <<gpuVars, slotVars, events, encVars, life, ctlVars>>

\* A new generation: forget what was pushed.
LoadGeneration ==
    /\ render.pc = "loaded"
    /\ render' = [render EXCEPT !.pc = "ready"]
    /\ seen' = generation
    /\ recPushed' = IF generation # seen THEN [f \in Fifs |-> 0] ELSE recPushed
    /\ UNCHANGED <<value, srtPushed, gpuVars, slotVars, events, encVars, life, ctlVars>>

Users == (IF SrtOn THEN {0} ELSE {}) \cup (IF render.rec = 0 THEN {} ELSE {render.rec})
Pushed(c) == IF c = 0 THEN srtPushed ELSE recPushed

Released(c, f) == copied[c][f] >= Pushed(c)[f]

DoNv == Users # {} /\ \A c \in Users : Released(c, Fif(value))

Accepts(c) == DoNv /\ c \in Users /\ Len(events[c]) < Capacity

Noted(pushed, c) == IF Accepts(c) THEN [pushed EXCEPT ![Fif(value)] = value] ELSE pushed

\* Record and submit the tick, push it to the encoders, let go of the recorder.
Pack ==
    /\ render.pc = "ready"
    /\ packing' = IF DoNv THEN packing \cup {value} ELSE packing
    /\ events' = [c \in Consumers |-> IF Accepts(c) THEN Append(events[c], value) ELSE events[c]]
    /\ srtPushed' = Noted(srtPushed, 0)
    /\ recPushed' = IF render.rec = 0 THEN recPushed ELSE Noted(recPushed, render.rec)
    /\ render' = [pc |-> "idle", rec |-> 0]
    /\ UNCHANGED <<value, gpu, buf, slotVars, seen, encVars, life, ctlVars>>

RenderStep == LoadGeneration \/ Pack

\* The GPU finishes the next tick; its pack is in the buffer.
Submitted == IF render.pc = "idle" THEN value ELSE value - 1

GpuCompletes ==
    /\ gpu < Submitted
    /\ gpu' = gpu + 1
    /\ buf' = IF gpu' \in packing THEN [buf EXCEPT ![Fif(gpu')] = gpu'] ELSE buf
    /\ packing' = packing \ {gpu'}
    /\ UNCHANGED <<slotVars, tickVars, events, encVars, life, ctlVars>>

------------------------------------------------------------------------------
(* Encoders *)

\* An encoder pops an event and waits for its value.  Nothing but a refused push
\* could tell a popped event from a queued one, so the pop is part of what ends
\* the wait.
Waits(c) == life[c] \in {"live", "stopping"} /\ job[c] = 0 /\ events[c] # << >>

\* The value is completed: encode() reads the imported buffer.
StartEncode(c) ==
    /\ Waits(c)
    /\ Head(events[c]) <= gpu
    /\ job' = [job EXCEPT ![c] = Head(events[c])]
    /\ events' = [events EXCEPT ![c] = Tail(@)]
    /\ UNCHANGED <<copied, gpuVars, slotVars, tickVars, life, ctlVars>>

\* encode() returns, whether it succeeds or fails.
EndEncode(c) ==
    /\ job[c] # 0
    /\ job' = [job EXCEPT ![c] = 0]
    /\ copied' = [copied EXCEPT ![c][Fif(job[c])] = job[c]]
    /\ UNCHANGED <<gpuVars, slotVars, tickVars, events, life, ctlVars>>

\* A recorder gives a frame up after fifty waits, or when it is stopping.
Abandon(c) ==
    /\ c # 0
    /\ Waits(c)
    /\ Head(events[c]) > gpu
    /\ copied' = [copied EXCEPT ![c][Fif(Head(events[c]))] = Head(events[c])]
    /\ events' = [events EXCEPT ![c] = Tail(@)]
    /\ UNCHANGED <<job, gpuVars, slotVars, tickVars, life, ctlVars>>

EncoderStep(c) == StartEncode(c) \/ EndEncode(c) \/ Abandon(c)

------------------------------------------------------------------------------
(* requestRecordingImpl *)

Unborn == CHOOSE r \in Recorders : life[r] = "unborn" /\ \A s \in 1 .. r - 1 : life[s] # "unborn"

\* Exchange the recorder for a new one, or for none: a stop, or a recorder
\* that could not be opened.
Exchange(t, made) ==
    /\ ctl[t].pc = "idle"
    /\ requests < MaxRequests
    /\ requests' = requests + 1
    /\ slot' = IF made THEN Unborn ELSE 0
    /\ life' = IF made THEN [life EXCEPT ![Unborn] = "live"] ELSE life
    /\ ctl' = [ctl EXCEPT ![t] = [pc |-> "bump", prev |-> slot]]
    /\ UNCHANGED <<generation, gpuVars, tickVars, events, encVars>>

Bump(t) ==
    /\ ctl[t].pc = "bump"
    /\ generation' = generation + 1
    /\ ctl' = [ctl EXCEPT ![t].pc = "wait"]
    /\ UNCHANGED <<slot, requests, gpuVars, tickVars, events, encVars, life>>

\* Faulty variant: the old recorder is destroyed at once.
DestroyAtOnce(t) ==
    /\ ctl[t].pc = "wait"
    /\ life' = IF ctl[t].prev = 0 THEN life ELSE [life EXCEPT ![ctl[t].prev] = "stopping"]
    /\ ctl' = [ctl EXCEPT ![t].pc = "join"]
    /\ UNCHANGED <<requests, gpuVars, slotVars, tickVars, events, encVars>>

\* When no other thread holds the old recorder, its destructor stops it.
Destroy(t) ==
    /\ ctl[t].pc = "wait"
    /\ ctl[t].prev = 0 \/ render.rec # ctl[t].prev
    /\ life' = IF ctl[t].prev = 0 THEN life ELSE [life EXCEPT ![ctl[t].prev] = "stopping"]
    /\ ctl' = [ctl EXCEPT ![t].pc = "join"]
    /\ UNCHANGED <<requests, gpuVars, slotVars, tickVars, events, encVars>>

\* The encoder has drained its events and is joined.
Join(t) ==
    LET p == ctl[t].prev
    IN  /\ ctl[t].pc = "join"
        /\ p # 0 => events[p] = << >> /\ job[p] = 0
        /\ life' = IF p = 0 THEN life ELSE [life EXCEPT ![p] = "gone"]
        /\ ctl' = [ctl EXCEPT ![t] = [pc |-> "idle", prev |-> 0]]
        /\ UNCHANGED <<requests, gpuVars, slotVars, tickVars, events, encVars>>

ControlStep(t) == Bump(t) \/ Destroy(t) \/ Join(t)

Request(t) ==
    \/ "start" \in Kinds /\ \E made \in BOOLEAN : Exchange(t, made)
    \/ "stop" \in Kinds /\ Exchange(t, FALSE)

\* The end of a bounded run, all work done.
AllDone ==
    /\ value = MaxValue /\ gpu = value /\ render.pc = "idle" /\ requests = MaxRequests
    /\ \A c \in Consumers : events[c] = << >> /\ job[c] = 0
    /\ \A t \in Controllers : ctl[t].pc = "idle"
    /\ UNCHANGED vars

Next ==
    \/ Begin \/ RenderStep \/ GpuCompletes
    \/ \E c \in Consumers : EncoderStep(c)
    \/ \E t \in Controllers : Request(t) \/ ControlStep(t)
    \/ AllDone

Spec == Init /\ [][Next]_vars

\* Threads that can run do; nothing is said of the GPU.
Fairness ==
    /\ WF_vars(RenderStep)
    /\ \A c \in Consumers : WF_vars(EncoderStep(c))
    /\ \A t \in Controllers : WF_vars(ControlStep(t))

FairSpec == Spec /\ Fairness

\* The GPU works too.
GpuFairSpec == FairSpec /\ WF_vars(GpuCompletes)

------------------------------------------------------------------------------
(* Properties *)

TypeOK ==
    /\ gpu <= value /\ value <= gpu + FramesInFlight
    /\ packing \subseteq gpu + 1 .. value
    /\ buf \in [Fifs -> 0 .. gpu]
    /\ slot \in {0} \cup Recorders /\ seen <= generation /\ generation <= requests
    /\ render.pc \in {"idle", "loaded", "ready"} /\ render.rec \in {0} \cup Recorders
    /\ \A c \in Consumers : Len(events[c]) <= Capacity /\ job[c] \in 0 .. gpu

\* The buffer a consumer encodes from holds the frame it was told of, and no
\* pack of another is under way.
Intact(c) ==
    job[c] # 0 => /\ buf[Fif(job[c])] = job[c]
                  /\ \A v \in packing : Fif(v) # Fif(job[c])

\* "The render thread will not repack that slot until it sees that store": for
\* the SRT output, whatever is done to the recorder.
SrtReadsItsFrame == Intact(0)

\* The render thread holds only live recorders, so that no event is pushed to
\* one whose encoder has been told to drain and end.
NoWorkForRetired == render.rec # 0 => life[render.rec] = "live"

\* The SRT encoder never has more than one event per buffer outstanding: its
\* ring of sixteen never refuses one.
SrtRingSuffices ==
    Len(events[0]) + (IF job[0] = 0 THEN 0 ELSE 1) <= FramesInFlight

\* A request to record comes to its end although the GPU may hang, for its old
\* recorder drains: "an unbounded wait here hangs every STOP RECORD".
RequestsFinish == \A t \in Controllers : ctl[t].pc # "idle" ~> ctl[t].pc = "idle"

\* "Keep the copied_ handshake moving so the render thread never stalls waiting
\* for this fif": a buffer the recorder is thought to hold is given back.
HandshakeMoves ==
    \A r \in Recorders, f \in Fifs :
        slot = r /\ copied[r][f] < recPushed[f]
            ~> slot # r \/ copied[r][f] >= recPushed[f]

==============================================================================
