--------------------------- MODULE OutputSideProofs ---------------------------
(***************************************************************************)
(* For any number of frames in flight, places in a ring, control threads,  *)
(* requests and ticks: the SRT encoder reads the frame it was told of, its *)
(* ring never refuses one, no recorder is given work once it is retired,   *)
(* the frames of an SDI output are each in one place, every packet of a    *)
(* recording that was stopped is in the file or counted as lost, and a     *)
(* viewer gets no packet from before the connection.                       *)
(***************************************************************************)
EXTENDS OutputSide, FiniteSetTheorems, WellFoundedInduction, TLAPS

USE SizesAssumption, SrtAssumption, KindsAssumption, BoundsAssumption

------------------------------------------------------------------------------
(* The handoff of NV12 buffers: the inductive invariant *)

Lives == {"unborn", "live", "stopping", "gone"}

HandoffTypes ==
    /\ value \in Nat /\ gpu \in Nat /\ generation \in Nat /\ seen \in Nat /\ requests \in Nat
    /\ srtPushed \in [Fifs -> Nat] /\ recPushed \in [Fifs -> Nat]
    /\ events \in [Consumers -> Seq(Nat)]
    /\ job \in [Consumers -> Nat]
    /\ copied \in [Consumers -> [Fifs -> Nat]]
    /\ life \in [Consumers -> Lives]
    /\ render \in [pc : {"idle", "loaded", "ready"}, rec : {0} \cup Recorders]
    /\ ctl \in [Controllers -> [pc : {"idle", "bump", "wait", "join"}, prev : {0} \cup Recorders]]

\* A tick that is being recorded is not submitted.
TimelineInv ==
    /\ gpu <= value /\ value <= gpu + FramesInFlight
    /\ packing \subseteq gpu + 1 .. value
    /\ buf \in [Fifs -> 0 .. gpu]
    /\ render.pc # "idle" => gpu < value /\ value \notin packing

\* Requests that have exchanged the recorder but not yet counted the generation.
Bumping == {t \in Controllers : ctl[t].pc = "bump"}

RequestInv ==
    /\ IsFiniteSet(Bumping) /\ generation + Cardinality(Bumping) <= requests
    /\ seen <= generation
    /\ slot \in {0} \cup Recorders
    /\ \A r \in Recorders : r > requests => life[r] = "unborn"

\* One thread at most retires a recorder, and only when it is out of the slot.
LifeInv ==
    /\ slot # 0 => life[slot] = "live"
    /\ render.rec # 0 => life[render.rec] = "live"
    /\ \A t \in Controllers : ctl[t].prev # 0 =>
          /\ ctl[t].prev # slot
          /\ ctl[t].pc # "idle"
          /\ life[ctl[t].prev] = IF ctl[t].pc = "join" THEN "stopping" ELSE "live"
    /\ \A t, u \in Controllers : t # u /\ ctl[t].prev # 0 => ctl[t].prev # ctl[u].prev

EncoderInv == \A c \in Consumers : Len(events[c]) <= Capacity /\ job[c] <= gpu

\* What the SRT encoder was told of and has not given back: the buffer is noted as
\* pushed, holds the frame or is about to, and no other pack into it is under way.
Promised(e) ==
    /\ e # 0 /\ srtPushed[Fif(e)] = e /\ copied[0][Fif(e)] < e
    /\ e \in packing \/ (e <= gpu /\ buf[Fif(e)] = e)
    /\ \A v \in packing : Fif(v) = Fif(e) => v = e

\* What it was told of: the events in its ring and the one it is encoding.
Told == {events[0][i] : i \in 1 .. Len(events[0])} \cup ({job[0]} \ {0})

Promises == \A e \in Told : Promised(e)

\* It is told of a tick once.
ToldOnce ==
    /\ \A i \in 1 .. Len(events[0]) : events[0][i] # job[0]
    /\ \A i, j \in 1 .. Len(events[0]) : i # j => events[0][i] # events[0][j]

Handshake ==
    /\ \A f \in Fifs : /\ copied[0][f] <= srtPushed[f] /\ srtPushed[f] <= value
                       /\ render.pc # "idle" => srtPushed[f] < value
    /\ ~SrtOn => Told = {}

SrtInv == Promises /\ ToldOnce /\ Handshake

HandoffInv == HandoffTypes /\ TimelineInv /\ RequestInv /\ LifeInv /\ EncoderInv /\ SrtInv

------------------------------------------------------------------------------
(* Arithmetic of frames in flight *)

\* A tick has its place among the frames in flight.
LEMMA FifType ==
    ASSUME NEW v \in Nat
    PROVE  Fif(v) \in Fifs
BY DEF Fif, Fifs

\* Two ticks of one window that use the same buffer are the same tick.
LEMMA FifWindow ==
    ASSUME NEW n \in Nat, NEW v \in n + 1 .. n + FramesInFlight,
           NEW w \in n + 1 .. n + FramesInFlight, Fif(v) = Fif(w)
    PROVE  v = w
<1> DEFINE F == FramesInFlight
           a == v \div F
           b == w \div F
<1>1. F \in Nat /\ F > 0 /\ v \in Nat /\ w \in Nat /\ a \in Int /\ b \in Int
  OBVIOUS
<1>2. v % F = v - F * a /\ w % F = w - F * b
  BY <1>1
<1>3. v - w = F * (a - b) /\ v - w < F /\ w - v < F
  BY <1>1, <1>2 DEF Fif
<1> HIDE DEF F, a, b
<1>4. CASE a - b >= 1
  <2>1. F * (a - b) >= F
    BY <1>1, <1>4
  <2> QED BY <1>3, <2>1, <1>1
<1>5. CASE a - b <= -1
  <2>1. F * (a - b) <= -F
    BY <1>1, <1>5
  <2> QED BY <1>3, <2>1, <1>1
<1>6. CASE a = b
  BY <1>1, <1>3, <1>6
<1> QED BY <1>1, <1>4, <1>5, <1>6

\* A set that is not empty has a member of least rank.
LEMMA LeastRank ==
    ASSUME NEW S, S # {}, NEW rank \in [S -> Nat]
    PROVE  \E x \in S : \A y \in S : rank[x] <= rank[y]
<1> DEFINE Upto == {0 .. rank[x] : x \in S}
           Less == StrictSubsetOrdering(Nat)
<1>1. PICK i \in Upto : \A j \in Upto : ~(<<j, i>> \in Less)
  <2>1. Upto \subseteq FiniteSubsetsOf(Nat) /\ Upto # {}
    <3>1. \A x \in S : 0 .. rank[x] \in SUBSET Nat /\ IsFiniteSet(0 .. rank[x])
      BY FS_Interval
    <3> QED BY <3>1 DEF FiniteSubsetsOf
  <2> HIDE DEF Upto, Less
  <2> QED BY <2>1, FS_StrictSubsetOrderingWellFounded, WFMin DEF Less
<1>2. PICK x \in S : i = 0 .. rank[x]
  BY <1>1
<1>3. ASSUME NEW y \in S, rank[y] < rank[x] PROVE FALSE
  <2>1. /\ 0 .. rank[y] \in SUBSET Nat /\ 0 .. rank[x] \in SUBSET Nat
        /\ 0 .. rank[y] \subseteq 0 .. rank[x]
        /\ rank[x] \in 0 .. rank[x] /\ rank[x] \notin 0 .. rank[y]
    BY <1>3
  <2>2. 0 .. rank[y] \in Upto /\ 0 .. rank[y] # 0 .. rank[x]
    BY <2>1
  <2>3. <<0 .. rank[y], 0 .. rank[x]>> \in Less
    BY <2>1, <2>2, Zenon DEF StrictSubsetOrdering
  <2> QED BY <1>1, <1>2, <2>2, <2>3
<1> QED BY <1>3

\* While there is a request left there is a recorder that was never made, and
\* Unborn is the first of them.
LEMMA UnbornExists ==
    ASSUME requests \in Nat, requests < MaxRequests,
           \A r \in Recorders : r > requests => life[r] = "unborn"
    PROVE  /\ Unborn \in Recorders /\ life[Unborn] = "unborn"
           /\ Unborn <= requests + 1
<1> DEFINE T == {r \in Recorders : life[r] = "unborn"}
           itself == [r \in T |-> r]
<1>1. requests + 1 \in T /\ T \subseteq Nat
  BY DEF Recorders
<1>2. itself \in [T -> Nat] /\ \A r \in T : itself[r] = r
  BY <1>1
<1>3. PICK x \in T : \A y \in T : itself[x] <= itself[y]
  <2> HIDE DEF T, itself
  <2> QED BY <1>1, <1>2, LeastRank
<1>4. \A y \in T : x <= y
  BY <1>2, <1>3
<1>5. x \in Recorders /\ life[x] = "unborn" /\ \A s \in 1 .. x - 1 : life[s] # "unborn"
  BY <1>4 DEF Recorders
<1>6. Unborn \in Recorders /\ life[Unborn] = "unborn"
      /\ \A s \in 1 .. Unborn - 1 : life[s] # "unborn"
  BY <1>5 DEF Unborn
<1> QED BY <1>1, <1>6 DEF Recorders

------------------------------------------------------------------------------
(* The handoff: each part of the invariant is kept *)

\* At the start nothing is recorded, in flight or encoded.
LEMMA HandoffInit == Init => HandoffInv
<1> SUFFICES ASSUME Init PROVE HandoffInv
  OBVIOUS
<1>1. Bumping = {}
  BY DEF Init, Bumping
<1> QED
  BY <1>1, FS_EmptySet DEF Init, HandoffInv, HandoffTypes, TimelineInv, RequestInv, LifeInv,
     EncoderInv, SrtInv, Promises, Told, ToldOnce, Handshake, Lives, Fifs, Consumers, Recorders

\* A step of the handoff keeps the types.
LEMMA HandoffTypesStep == HandoffInv /\ Next => HandoffTypes'
<1> SUFFICES ASSUME HandoffInv, Next PROVE HandoffTypes'
  OBVIOUS
<1> USE DEF HandoffInv, HandoffTypes, gpuVars, slotVars, tickVars, encVars, ctlVars
<1>1. CASE Begin
  BY <1>1 DEF Begin, RequestInv
<1>2. CASE LoadGeneration
  BY <1>2 DEF LoadGeneration
<1>3. CASE Pack
  <2>1. srtPushed' \in [Fifs -> Nat] /\ recPushed' \in [Fifs -> Nat]
    BY <1>3, FifType DEF Pack, Noted
  <2>2. events' \in [Consumers -> Seq(Nat)]
    BY <1>3 DEF Pack
  <2> QED BY <1>3, <2>1, <2>2 DEF Pack
<1>4. CASE GpuCompletes
  BY <1>4 DEF GpuCompletes
<1>5. ASSUME NEW c \in Consumers, StartEncode(c) PROVE HandoffTypes'
  <2>1. Head(events[c]) \in Nat /\ Tail(events[c]) \in Seq(Nat)
    <3>1. events[c] \in Seq(Nat) /\ events[c] # << >>
      BY <1>5 DEF StartEncode, Waits
    <3> QED BY <3>1
  <2> QED BY <1>5, <2>1 DEF StartEncode
<1>6. ASSUME NEW c \in Consumers, EndEncode(c) PROVE HandoffTypes'
  BY <1>6, FifType DEF EndEncode
<1>7. ASSUME NEW c \in Consumers, Abandon(c) PROVE HandoffTypes'
  <2>1. Head(events[c]) \in Nat /\ Tail(events[c]) \in Seq(Nat)
    <3>1. events[c] \in Seq(Nat) /\ events[c] # << >>
      BY <1>7 DEF Abandon, Waits
    <3> QED BY <3>1
  <2> QED BY <1>7, <2>1 DEF Abandon
<1>8. ASSUME NEW t \in Controllers, NEW made \in BOOLEAN, Exchange(t, made)
      PROVE  HandoffTypes'
  <2>1. Unborn \in Recorders
    BY <1>8, UnbornExists DEF Exchange, RequestInv
  <2>2. life' \in [Consumers -> Lives]
    BY <1>8, <2>1 DEF Exchange, Consumers, Lives
  <2> QED BY <1>8, <2>2 DEF Exchange, RequestInv
<1>9. ASSUME NEW t \in Controllers, Bump(t) PROVE HandoffTypes'
  <2>1. ctl' \in [Controllers -> [pc : {"idle", "bump", "wait", "join"}, prev : {0} \cup Recorders]]
    BY <1>9 DEF Bump
  <2>2. generation' \in Nat
    BY <1>9 DEF Bump
  <2> QED BY <1>9, <2>1, <2>2 DEF Bump
<1>10. ASSUME NEW t \in Controllers, Destroy(t) PROVE HandoffTypes'
  BY <1>10 DEF Destroy, Lives, Consumers
<1>11. ASSUME NEW t \in Controllers, Join(t) PROVE HandoffTypes'
  BY <1>11 DEF Join, Lives, Consumers
<1>12. CASE AllDone
  BY <1>12 DEF AllDone, vars
<1>13. /\ HandoffInv /\ Next
  OBVIOUS
<1> HIDE DEF HandoffInv, HandoffTypes
<1> QED
  BY <1>1, <1>2, <1>3, <1>4, <1>5, <1>6, <1>7, <1>8, <1>9, <1>10, <1>11, <1>12, <1>13, Zenon
  DEF Next, RenderStep, EncoderStep, Request, ControlStep

\* The encoders and the control threads touch neither the ticks nor the GPU, and the
\* control threads touch no encoder.
LEMMA Bystanders ==
    /\ \A c \in Consumers : EncoderStep(c) =>
          UNCHANGED <<value, gpu, packing, buf, render, seen, srtPushed, slot, generation, life,
                      ctl, requests>>
    /\ \A t \in Controllers : Request(t) \/ ControlStep(t) =>
          UNCHANGED <<value, gpu, packing, buf, render, seen, srtPushed, events, job, copied>>
BY DEF EncoderStep, StartEncode, EndEncode, Abandon, Request, Exchange, ControlStep, Bump,
   Destroy, Join, gpuVars, slotVars, tickVars, encVars, ctlVars

\* A tick that is being recorded is not yet submitted, and the GPU finishes only what was
\* (renderTL_).
LEMMA TimelineStep == HandoffInv /\ Next => TimelineInv'
<1> SUFFICES ASSUME HandoffTypes, TimelineInv, Next PROVE TimelineInv'
  BY DEF HandoffInv
<1>t. /\ value \in Nat /\ gpu \in Nat
      /\ render \in [pc : {"idle", "loaded", "ready"}, rec : {0} \cup Recorders]
  BY DEF HandoffTypes
<1>1. CASE Begin
  BY <1>1, <1>t DEF Begin, TimelineInv, gpuVars
<1>2. CASE LoadGeneration
  BY <1>2, <1>t DEF LoadGeneration, TimelineInv, gpuVars
<1>3. CASE Pack
  BY <1>3, <1>t DEF Pack, TimelineInv
<1>4. CASE GpuCompletes
  <2>1. /\ gpu' = gpu + 1 /\ gpu' <= value /\ (render.pc # "idle" => gpu' < value)
        /\ packing' = packing \ {gpu'} /\ value' = value /\ render' = render
        /\ buf' = IF gpu' \in packing THEN [buf EXCEPT ![Fif(gpu')] = gpu'] ELSE buf
    BY <1>4, <1>t DEF GpuCompletes, Submitted, TimelineInv, tickVars
  <2>2. buf' \in [Fifs -> 0 .. gpu']
    <3>1. buf \in [Fifs -> 0 .. gpu'] /\ gpu' \in 0 .. gpu'
      BY <2>1, <1>t DEF TimelineInv
    <3> QED BY <2>1, <3>1
  <2> QED BY <2>1, <2>2, <1>t DEF TimelineInv
<1>5. ASSUME UNCHANGED <<value, gpu, packing, buf, render>> PROVE TimelineInv'
  BY <1>5 DEF TimelineInv
<1>6. CASE AllDone
  BY <1>5, <1>6 DEF AllDone, vars, gpuVars, tickVars
<1> QED
  BY <1>1, <1>2, <1>3, <1>4, <1>5, <1>6, Bystanders DEF Next, RenderStep

\* A control thread counts the generation once for each recorder it exchanges.
LEMMA RequestStep == HandoffInv /\ Next => RequestInv'
<1> SUFFICES ASSUME HandoffTypes, RequestInv, LifeInv, Next PROVE RequestInv'
  BY DEF HandoffInv
<1>t. /\ requests \in Nat /\ generation \in Nat /\ seen \in Nat
      /\ life \in [Consumers -> Lives]
      /\ ctl \in [Controllers -> [pc : {"idle", "bump", "wait", "join"},
                                  prev : {0} \cup Recorders]]
  BY DEF HandoffTypes
<1>b. /\ IsFiniteSet(Bumping) /\ Cardinality(Bumping) \in Nat
      /\ generation + Cardinality(Bumping) <= requests
  BY FS_CardinalityType DEF RequestInv
<1>1. ASSUME NEW t \in Controllers, NEW made \in BOOLEAN, Exchange(t, made)
      PROVE  RequestInv'
  <2>1. Bumping' = Bumping \cup {t} /\ t \notin Bumping
    BY <1>1, <1>t DEF Exchange, Bumping
  <2>2. IsFiniteSet(Bumping') /\ Cardinality(Bumping') = Cardinality(Bumping) + 1
    BY <2>1, <1>b, FS_AddElement
  <2>3. requests' = requests + 1 /\ generation' = generation /\ seen' = seen
    BY <1>1 DEF Exchange, tickVars
  <2>4. Unborn \in Recorders /\ Unborn <= requests'
    BY <1>1, <1>t, <2>3, UnbornExists DEF Exchange, RequestInv
  <2>5. slot' \in {0} \cup Recorders
    BY <1>1, <2>4 DEF Exchange
  <2>6. \A r \in Recorders : r > requests' => life'[r] = "unborn"
    BY <1>1, <1>t, <2>3, <2>4 DEF Exchange, RequestInv, Recorders, Consumers
  <2> QED BY <1>b, <1>t, <2>2, <2>3, <2>5, <2>6 DEF RequestInv
<1>2. ASSUME NEW t \in Controllers, Bump(t) PROVE RequestInv'
  <2>1. Bumping' = Bumping \ {t} /\ t \in Bumping
    BY <1>2, <1>t DEF Bump, Bumping
  <2>2. IsFiniteSet(Bumping') /\ Cardinality(Bumping') = Cardinality(Bumping) - 1
    BY <2>1, <1>b, FS_RemoveElement
  <2>3. generation' = generation + 1
        /\ UNCHANGED <<requests, slot, life, seen>>
    BY <1>2 DEF Bump, tickVars
  <2> QED BY <1>b, <1>t, <2>2, <2>3 DEF RequestInv
<1>3. ASSUME Bumping' = Bumping, UNCHANGED <<requests, slot, life, generation>>,
             seen' \in {seen, generation}
      PROVE  RequestInv'
  BY <1>3, <1>t DEF RequestInv
<1>4. ASSUME NEW t \in Controllers, Destroy(t) \/ Join(t) PROVE RequestInv'
  <2>1. Bumping' = Bumping
    BY <1>4, <1>t DEF Destroy, Join, Bumping
  <2>2. UNCHANGED <<requests, slot, generation, seen>>
    BY <1>4 DEF Destroy, Join, slotVars, tickVars
  <2>3. ASSUME NEW r \in Recorders, r > requests PROVE life'[r] = "unborn"
    <3>1. life[r] = "unborn"
      BY <2>3 DEF RequestInv
    <3>2. r # 0 /\ ctl[t].prev # r
      BY <3>1 DEF LifeInv, Recorders
    <3> QED BY <1>4, <1>t, <3>1, <3>2 DEF Destroy, Join, Consumers
  <2> QED BY <2>1, <2>2, <2>3 DEF RequestInv
<1>5. CASE Begin \/ RenderStep \/ GpuCompletes \/ AllDone \/ \E c \in Consumers : EncoderStep(c)
  <2>1. /\ UNCHANGED <<requests, slot, life, generation, ctl>> /\ seen' \in {seen, generation}
    BY <1>5, Bystanders DEF Begin, RenderStep, LoadGeneration, Pack, GpuCompletes, AllDone,
       slotVars, tickVars, ctlVars, vars
  <2> QED BY <1>3, <2>1 DEF Bumping
<1> QED
  BY <1>1, <1>2, <1>4, <1>5 DEF Next, Request, ControlStep

\* No ring is over its capacity, and what is encoded was finished by the GPU.
LEMMA EncoderInvStep == HandoffInv /\ Next => EncoderInv'
<1> SUFFICES ASSUME HandoffTypes, EncoderInv, Next PROVE EncoderInv'
  BY DEF HandoffInv
<1>t. /\ value \in Nat /\ gpu \in Nat
      /\ events \in [Consumers -> Seq(Nat)] /\ job \in [Consumers -> Nat]
  BY DEF HandoffTypes
<1>1. CASE Pack
  <2>1. ASSUME NEW c \in Consumers PROVE Len(events'[c]) <= Capacity
    BY <1>1, <1>t DEF Pack, Accepts, EncoderInv
  <2>2. UNCHANGED <<job, gpu>>
    BY <1>1 DEF Pack, encVars
  <2> QED BY <2>1, <2>2 DEF EncoderInv
<1>2. CASE GpuCompletes
  <2>1. gpu' = gpu + 1 /\ UNCHANGED <<job, events>>
    BY <1>2 DEF GpuCompletes, encVars
  <2> QED BY <2>1, <1>t DEF EncoderInv
<1>3. ASSUME NEW c \in Consumers, StartEncode(c) \/ Abandon(c) PROVE EncoderInv'
  <2>1. events[c] \in Seq(Nat) /\ events[c] # << >>
    BY <1>3, <1>t DEF StartEncode, Abandon, Waits
  <2>2. Len(Tail(events[c])) <= Len(events[c]) /\ Len(events[c]) \in Nat
        /\ Len(Tail(events[c])) \in Nat
    BY <2>1
  <2>3. /\ events' = [events EXCEPT ![c] = Tail(events[c])] /\ gpu' = gpu
        /\ job' = job \/ (job' = [job EXCEPT ![c] = Head(events[c])] /\ Head(events[c]) <= gpu)
    BY <1>3 DEF StartEncode, Abandon, gpuVars
  <2> QED BY <2>2, <2>3, <1>t DEF EncoderInv
<1>4. ASSUME NEW c \in Consumers, EndEncode(c) PROVE EncoderInv'
  BY <1>4, <1>t DEF EndEncode, EncoderInv, gpuVars
<1>5. ASSUME UNCHANGED <<events, job, gpu>> PROVE EncoderInv'
  BY <1>5 DEF EncoderInv
<1>6. CASE Begin \/ LoadGeneration \/ AllDone
  BY <1>5, <1>6 DEF Begin, LoadGeneration, AllDone, encVars, gpuVars, vars
<1> QED
  BY <1>1, <1>2, <1>3, <1>4, <1>5, <1>6, Bystanders DEF Next, RenderStep, EncoderStep

\* A recorder in the slot, or seen by the render thread, lives, and one thread at most
\* retires it.
LEMMA LifeStep == HandoffInv /\ Next => LifeInv'
<1> SUFFICES ASSUME HandoffTypes, RequestInv, LifeInv, Next PROVE LifeInv'
  BY DEF HandoffInv
<1>t. /\ slot \in {0} \cup Recorders /\ requests \in Nat
      /\ render \in [pc : {"idle", "loaded", "ready"}, rec : {0} \cup Recorders]
      /\ life \in [Consumers -> Lives] /\ Recorders \subseteq Consumers /\ 0 \notin Recorders
      /\ ctl \in [Controllers -> [pc : {"idle", "bump", "wait", "join"},
                                  prev : {0} \cup Recorders]]
  BY DEF HandoffTypes, RequestInv, Consumers, Recorders
<1>1. ASSUME UNCHANGED <<slot, life, ctl>>, render'.rec \in {0, slot, render.rec}
      PROVE  LifeInv'
  BY <1>1 DEF LifeInv
<1>2. CASE Begin \/ RenderStep \/ GpuCompletes \/ AllDone \/ \E c \in Consumers : EncoderStep(c)
  <2>1. UNCHANGED <<slot, life, ctl>> /\ render'.rec \in {0, slot, render.rec}
    BY <1>2, <1>t, Bystanders DEF Begin, RenderStep, LoadGeneration, Pack, GpuCompletes, AllDone,
       slotVars, tickVars, ctlVars, vars
  <2> QED BY <1>1, <2>1
<1>3. ASSUME NEW t \in Controllers, NEW made \in BOOLEAN, Exchange(t, made)
      PROVE  LifeInv'
  <2>1. Unborn \in Recorders /\ life[Unborn] = "unborn"
    BY <1>3, <1>t, UnbornExists DEF Exchange, RequestInv
  <2>2. /\ ctl' = [ctl EXCEPT ![t] = [pc |-> "bump", prev |-> slot]] /\ ctl[t].pc = "idle"
        /\ slot' = IF made THEN Unborn ELSE 0
        /\ life' = IF made THEN [life EXCEPT ![Unborn] = "live"] ELSE life
        /\ render' = render
    BY <1>3 DEF Exchange, tickVars
  <2>3. ctl[t].prev = 0
    BY <2>2 DEF LifeInv
  <2>4. \A r \in Recorders : life[r] # "unborn" => life'[r] = life[r] /\ r # slot'
    BY <2>1, <2>2, <1>t
  <2>5. \A u \in Controllers : ctl[u].prev # 0 =>
           ctl[u].prev \in Recorders /\ life[ctl[u].prev] # "unborn"
    BY <1>t DEF LifeInv
  <2>6. slot' # 0 => life'[slot'] = "live"
    BY <2>1, <2>2, <1>t
  <2>7. render'.rec # 0 => life'[render'.rec] = "live"
    BY <2>2, <2>4, <1>t DEF LifeInv
  <2>8. ASSUME NEW u \in Controllers, ctl'[u].prev # 0
        PROVE  /\ ctl'[u].prev # slot'
               /\ ctl'[u].pc # "idle"
               /\ life'[ctl'[u].prev] = IF ctl'[u].pc = "join" THEN "stopping" ELSE "live"
    <3>1. CASE u = t
      BY <3>1, <2>2, <2>4, <2>8, <1>t DEF LifeInv
    <3>2. CASE u # t
      BY <3>2, <2>2, <2>4, <2>5, <2>8, <1>t DEF LifeInv
    <3> QED BY <3>1, <3>2
  <2>9. \A u, w \in Controllers : u # w /\ ctl'[u].prev # 0 => ctl'[u].prev # ctl'[w].prev
    BY <2>2, <1>t DEF LifeInv
  <2> QED BY <2>6, <2>7, <2>8, <2>9 DEF LifeInv
<1>4. ASSUME NEW t \in Controllers, Bump(t) PROVE LifeInv'
  <2>1. /\ \A u \in Controllers : ctl'[u].prev = ctl[u].prev
        /\ ctl[t].pc = "bump" /\ ctl'[t].pc = "wait"
        /\ \A u \in Controllers : u # t => ctl'[u].pc = ctl[u].pc
        /\ UNCHANGED <<slot, life, render>>
    BY <1>4, <1>t DEF Bump, tickVars
  <2>2. ASSUME NEW u \in Controllers
        PROVE  /\ (ctl'[u].pc = "join") = (ctl[u].pc = "join")
               /\ (ctl'[u].pc = "idle") = (ctl[u].pc = "idle")
    <3>1. CASE u = t
      BY <2>1, <3>1
    <3>2. CASE u # t
      BY <2>1, <3>2
    <3> QED BY <3>1, <3>2
  <2> QED BY <2>1, <2>2 DEF LifeInv
<1>5. ASSUME NEW t \in Controllers, Destroy(t) PROVE LifeInv'
  <2>1. /\ \A u \in Controllers : ctl'[u].prev = ctl[u].prev
        /\ ctl[t].pc = "wait" /\ ctl'[t].pc = "join"
        /\ \A u \in Controllers : u # t => ctl'[u].pc = ctl[u].pc
        /\ ctl[t].prev = 0 \/ render.rec # ctl[t].prev
        /\ life' = IF ctl[t].prev = 0 THEN life ELSE [life EXCEPT ![ctl[t].prev] = "stopping"]
        /\ UNCHANGED <<slot, render>>
    BY <1>5, <1>t DEF Destroy, slotVars, tickVars
  <2>2. \A r \in Recorders : r # ctl[t].prev => life'[r] = life[r]
    BY <2>1, <1>t
  <2>3. ctl[t].prev # 0 => life'[ctl[t].prev] = "stopping"
    BY <2>1, <1>t
  <2>4. \A u \in Controllers : u # t /\ ctl[u].prev # 0 => ctl[u].prev # ctl[t].prev
    BY DEF LifeInv
  <2>5. ASSUME NEW u \in Controllers, ctl'[u].prev # 0
        PROVE  /\ ctl'[u].prev # slot'
               /\ ctl'[u].pc # "idle"
               /\ life'[ctl'[u].prev] = IF ctl'[u].pc = "join" THEN "stopping" ELSE "live"
    <3>1. CASE u = t
      BY <3>1, <2>1, <2>3, <2>5 DEF LifeInv
    <3>2. CASE u # t
      BY <3>2, <2>1, <2>2, <2>4, <2>5, <1>t DEF LifeInv
    <3> QED BY <3>1, <3>2
  <2>6. slot' # 0 => life'[slot'] = "live"
    BY <2>1, <2>2, <1>t DEF LifeInv
  <2>7. render'.rec # 0 => life'[render'.rec] = "live"
    BY <2>1, <2>2, <1>t DEF LifeInv
  <2> QED BY <2>1, <2>5, <2>6, <2>7 DEF LifeInv
<1>6. ASSUME NEW t \in Controllers, Join(t) PROVE LifeInv'
  <2>1. /\ ctl[t].pc = "join" /\ ctl' = [ctl EXCEPT ![t] = [pc |-> "idle", prev |-> 0]]
        /\ life' = IF ctl[t].prev = 0 THEN life ELSE [life EXCEPT ![ctl[t].prev] = "gone"]
        /\ UNCHANGED <<slot, render>>
    BY <1>6 DEF Join, slotVars, tickVars
  <2>2. \A r \in Recorders : r # ctl[t].prev => life'[r] = life[r]
    BY <2>1, <1>t
  <2>3. ctl[t].prev # 0 => life[ctl[t].prev] = "stopping" /\ ctl[t].prev # slot
    BY <2>1 DEF LifeInv
  <2>4. \A u \in Controllers : u # t /\ ctl[u].prev # 0 => ctl[u].prev # ctl[t].prev
    BY DEF LifeInv
  <2>5. /\ ctl'[t].prev = 0
        /\ \A u \in Controllers : u # t => ctl'[u] = ctl[u]
    BY <2>1, <1>t
  <2>6. slot' # 0 => life'[slot'] = "live"
    BY <2>1, <2>2, <2>3, <1>t DEF LifeInv
  <2>7. render'.rec # 0 => life'[render'.rec] = "live"
    BY <2>1, <2>2, <2>3, <1>t DEF LifeInv
  <2> QED BY <2>1, <2>2, <2>4, <2>5, <2>6, <2>7, <1>t DEF LifeInv
<1> QED
  BY <1>2, <1>3, <1>4, <1>5, <1>6 DEF Next, Request, ControlStep

\* A promise is kept as long as the buffers, the packs under way and the handshake of
\* its frame in flight are.
LEMMA PromiseKept ==
    ASSUME NEW e, Promised(e),
           srtPushed'[Fif(e)] = srtPushed[Fif(e)], copied'[0][Fif(e)] = copied[0][Fif(e)],
           buf'[Fif(e)] = buf[Fif(e)], gpu' = gpu,
           \A v \in packing' : v \in packing \/ Fif(v) # Fif(e),
           e \in packing => e \in packing'
    PROVE  Promised(e)'
BY DEF Promised, Fif

\* What the SRT encoder was told of stays in its buffer until it has copied it.
LEMMA SrtStep == HandoffInv /\ Next => SrtInv'
<1> SUFFICES ASSUME HandoffInv, Next PROVE SrtInv'
  OBVIOUS
<1>t. /\ value \in Nat /\ gpu \in Nat /\ 0 \in Consumers
      /\ srtPushed \in [Fifs -> Nat]
      /\ events \in [Consumers -> Seq(Nat)] /\ job \in [Consumers -> Nat]
      /\ copied \in [Consumers -> [Fifs -> Nat]]
      /\ render \in [pc : {"idle", "loaded", "ready"}, rec : {0} \cup Recorders]
  BY DEF HandoffInv, HandoffTypes, Consumers
<1>s. Promises /\ ToldOnce /\ Handshake /\ TimelineInv
  BY DEF HandoffInv, SrtInv
<1>q. /\ events[0] \in Seq(Nat) /\ job[0] \in Nat /\ copied[0] \in [Fifs -> Nat]
      /\ Len(events[0]) \in Nat
  BY <1>t
<1>n. Told \subseteq Nat
  BY <1>q DEF Told
<1>1. CASE Begin
  <2>1. /\ value' = value + 1
        /\ UNCHANGED <<srtPushed, gpu, packing, buf, events, job, copied>>
    BY <1>1 DEF Begin, gpuVars, encVars
  <2>2. Promises'
    BY <2>1, <1>s, PromiseKept DEF Promises, Told
  <2>3. Told' = Told /\ copied'[0] = copied[0]
    BY <2>1 DEF Told
  <2>4. ASSUME NEW f \in Fifs
        PROVE  /\ copied'[0][f] <= srtPushed'[f] /\ srtPushed'[f] <= value'
               /\ render'.pc # "idle" => srtPushed'[f] < value'
    <3>1. /\ copied[0][f] <= srtPushed[f] /\ srtPushed[f] <= value /\ srtPushed[f] \in Nat
          /\ render.pc # "idle" => srtPushed[f] < value
      BY <1>s, <1>t DEF Handshake
    <3> QED BY <2>1, <2>3, <3>1, <1>t
  <2>5. Handshake'
    BY <2>3, <2>4, <1>s DEF Handshake
  <2> QED BY <2>1, <2>2, <2>5, <1>s DEF SrtInv, ToldOnce
<1>2. CASE LoadGeneration
  <2>1. /\ render.pc = "loaded"
        /\ UNCHANGED <<value, srtPushed, gpu, packing, buf, events, job, copied>>
    BY <1>2 DEF LoadGeneration, gpuVars, encVars
  <2>2. Promises'
    BY <2>1, <1>s, PromiseKept DEF Promises, Told
  <2>3. Told' = Told /\ copied'[0] = copied[0]
    BY <2>1 DEF Told
  <2>4. ASSUME NEW f \in Fifs
        PROVE  /\ copied'[0][f] <= srtPushed'[f] /\ srtPushed'[f] <= value'
               /\ render'.pc # "idle" => srtPushed'[f] < value'
    <3>1. /\ copied[0][f] <= srtPushed[f] /\ srtPushed[f] <= value /\ srtPushed[f] \in Nat
          /\ render.pc # "idle" => srtPushed[f] < value
      BY <1>s, <1>t DEF Handshake
    <3> QED BY <2>1, <2>3, <3>1, <1>t
  <2>5. Handshake'
    BY <2>3, <2>4, <1>s DEF Handshake
  <2> QED BY <2>1, <2>2, <2>5, <1>s DEF SrtInv, ToldOnce
<1>3. CASE Pack
  <2>1. /\ render.pc = "ready" /\ render'.pc = "idle"
        /\ packing' = IF DoNv THEN packing \cup {value} ELSE packing
        /\ events'[0] = IF Accepts(0) THEN Append(events[0], value) ELSE events[0]
        /\ srtPushed' = IF Accepts(0) THEN [srtPushed EXCEPT ![Fif(value)] = value] ELSE srtPushed
        /\ UNCHANGED <<value, gpu, buf, job, copied>>
    BY <1>3, <1>t DEF Pack, Noted, encVars
  <2>2. Fif(value) \in Fifs /\ value # 0 /\ value \in gpu + 1 .. gpu + FramesInFlight
    BY <2>1, <1>t, <1>s, FifType DEF TimelineInv
  <2>3. Accepts(0) => SrtOn /\ DoNv
    <3>1. 0 \notin Recorders
      BY DEF Recorders
    <3> QED BY <3>1, <1>t DEF Accepts, Users
  <2>4. SrtOn /\ DoNv => copied[0][Fif(value)] >= srtPushed[Fif(value)]
    BY DEF DoNv, Users, Released, Pushed
  <2>5. ASSUME NEW e \in Told
        PROVE  Promised(e)' /\ (DoNv => e # value)
    <3>1. Promised(e) /\ SrtOn /\ e \in Nat
      BY <1>s, <1>n DEF Promises, Handshake
    <3>2. DoNv => Fif(e) # Fif(value)
      BY <2>2, <2>4, <3>1, <1>q, <1>t DEF Promised
    <3>3. srtPushed'[Fif(e)] = srtPushed[Fif(e)]
      BY <2>1, <2>3, <3>1, <3>2, <1>t, FifType
    <3>4. Promised(e)'
      BY <2>1, <3>1, <3>2, <3>3, PromiseKept
    <3> QED BY <3>2, <3>4
  <2>6. \A f \in Fifs : copied'[0][f] <= srtPushed'[f] /\ srtPushed'[f] <= value'
    BY <2>1, <2>2, <1>q, <1>t, <1>s DEF Handshake
  <2>7. CASE ~Accepts(0)
    <3>1. Told' = Told /\ events'[0] = events[0] /\ job'[0] = job[0]
      BY <2>1, <2>7 DEF Told
    <3> QED BY <2>1, <2>5, <2>6, <3>1, <1>s DEF SrtInv, Promises, ToldOnce, Handshake
  <2>8. CASE Accepts(0)
    <3>1. Promised(value)'
      <4>1. \A v \in packing : v \in gpu + 1 .. gpu + FramesInFlight
        BY <1>s, <1>t DEF TimelineInv
      <4>2. \A v \in packing' : Fif(v) = Fif(value) => v = value
        BY <2>1, <2>2, <4>1, <1>t, FifWindow
      <4>3. srtPushed'[Fif(value)] = value
        BY <2>1, <2>2, <2>8, <1>t
      <4>4. copied'[0][Fif(value)] < value
        BY <2>1, <2>2, <1>q, <1>t, <1>s DEF Handshake
      <4>5. value \in packing'
        BY <2>1, <2>3, <2>8
      <4>6. value' = value
        BY <2>1
      <4> QED BY <2>2, <4>2, <4>3, <4>4, <4>5, <4>6 DEF Promised, Fif
    <3>2. /\ Len(events'[0]) = Len(events[0]) + 1
          /\ \A i \in 1 .. Len(events[0]) : events'[0][i] = events[0][i]
          /\ events'[0][Len(events[0]) + 1] = value
      BY <2>1, <2>8, <1>q, <1>t
    <3>3. Told' = Told \cup {value} /\ job' = job
      BY <2>1, <3>2, <1>q DEF Told
    <3>4. Promises'
      <4>1. ASSUME NEW e \in Told' PROVE Promised(e)'
        <5>1. CASE e \in Told
          BY <2>5, <5>1
        <5>2. CASE e = value
          <6>1. value' = value
            BY <2>1
          <6> QED BY <3>1, <5>2, <6>1 DEF Promised, Fif
        <5> QED BY <3>3, <5>1, <5>2
      <4> QED BY <4>1 DEF Promises
    <3>5. value # job[0] /\ \A i \in 1 .. Len(events[0]) : events[0][i] # value
      BY <2>2, <2>3, <2>5, <2>8 DEF Told
    <3>6. ToldOnce'
      <4>1. job'[0] = job[0] /\ 1 .. Len(events'[0]) = (1 .. Len(events[0])) \cup {Len(events[0]) + 1}
        BY <3>2, <3>3, <1>q
      <4>2. \A i \in 1 .. Len(events'[0]) : events'[0][i] # job'[0]
        BY <3>2, <3>5, <4>1, <1>s DEF ToldOnce
      <4>3. \A i, j \in 1 .. Len(events'[0]) : i # j => events'[0][i] # events'[0][j]
        BY <3>2, <3>5, <4>1, <1>s DEF ToldOnce
      <4> QED BY <4>2, <4>3 DEF ToldOnce
    <3> QED BY <2>1, <2>3, <2>6, <2>8, <3>4, <3>6 DEF SrtInv, Handshake
  <2> QED BY <2>7, <2>8
<1>4. CASE GpuCompletes
  <2>1. /\ gpu' = gpu + 1 /\ packing' = packing \ {gpu'}
        /\ buf' = IF gpu' \in packing THEN [buf EXCEPT ![Fif(gpu')] = gpu'] ELSE buf
        /\ UNCHANGED <<value, srtPushed, events, job, copied, render>>
    BY <1>4 DEF GpuCompletes, tickVars, encVars
  <2>2. ASSUME NEW e \in Told PROVE Promised(e)'
    <3>1. Promised(e) /\ e \in Nat
      BY <1>s, <1>n DEF Promises
    <3>2. buf \in [Fifs -> 0 .. gpu] /\ Fif(e) \in Fifs /\ Fif(gpu') \in Fifs
      <4>1. gpu' \in Nat
        BY <2>1, <1>t
      <4> QED BY <3>1, <4>1, <1>s, FifType DEF TimelineInv
    <3>3. CASE e = gpu' /\ e \in packing
      <4>1. buf'[Fif(e)] = e
        BY <2>1, <3>2, <3>3
      <4> QED BY <2>1, <3>1, <3>3, <4>1, <1>t DEF Promised, Fif
    <3>4. CASE ~(e = gpu' /\ e \in packing)
      <4>1. gpu' \in packing => Fif(gpu') # Fif(e)
        BY <3>1, <3>4 DEF Promised
      <4>2. buf'[Fif(e)] = buf[Fif(e)]
        BY <2>1, <3>2, <4>1
      <4>3. e \in packing => e \in packing'
        BY <2>1, <3>4
      <4>4. e <= gpu => e <= gpu'
        BY <2>1, <3>1, <1>t
      <4>5. e \in packing' \/ (e <= gpu' /\ buf'[Fif(e)] = e)
        BY <3>1, <4>2, <4>3, <4>4 DEF Promised
      <4> QED BY <2>1, <3>1, <4>5 DEF Promised, Fif
    <3> QED BY <3>3, <3>4
  <2>3. Told' = Told
    BY <2>1 DEF Told
  <2> QED BY <2>1, <2>2, <2>3, <1>s DEF SrtInv, Promises, ToldOnce, Handshake
<1>5. ASSUME UNCHANGED <<value, gpu, packing, buf, render, srtPushed, events[0], job[0], copied[0]>>
      PROVE  SrtInv'
  <2>1. Told' = Told
    BY <1>5 DEF Told
  <2>2. Promises'
    BY <1>5, <2>1, <1>s, PromiseKept DEF Promises
  <2> QED BY <1>5, <2>1, <2>2, <1>s DEF SrtInv, ToldOnce, Handshake
<1>6. ASSUME NEW c \in Consumers \ {0}, EncoderStep(c) PROVE SrtInv'
  <2>1. UNCHANGED <<events[0], job[0], copied[0]>>
    BY <1>6, <1>t DEF EncoderStep, StartEncode, EndEncode, Abandon
  <2> QED BY <1>5, <1>6, <2>1, Bystanders
<1>7. CASE StartEncode(0)
  <2>1. /\ events[0] # << >> /\ job[0] = 0
        /\ job'[0] = Head(events[0]) /\ events'[0] = Tail(events[0])
        /\ UNCHANGED <<value, gpu, packing, buf, render, srtPushed, copied>>
    BY <1>7, <1>t DEF StartEncode, Waits, gpuVars, tickVars
  <2>2. /\ Len(events[0]) >= 1 /\ Head(events[0]) = events[0][1]
        /\ Len(events'[0]) = Len(events[0]) - 1
        /\ \A i \in 1 .. Len(events'[0]) : events'[0][i] = events[0][i + 1]
    BY <2>1, <1>q
  <2>3. Told' \subseteq Told
    BY <2>1, <2>2, <1>q DEF Told
  <2>4. Promises'
    BY <2>1, <2>3, <1>s, PromiseKept DEF Promises
  <2>5. ToldOnce'
    BY <2>1, <2>2, <1>q, <1>s DEF ToldOnce
  <2> QED BY <2>1, <2>3, <2>4, <2>5, <1>s DEF SrtInv, Handshake
<1>8. CASE EndEncode(0)
  <2>1. /\ job[0] # 0 /\ job'[0] = 0
        /\ copied'[0] = [copied[0] EXCEPT ![Fif(job[0])] = job[0]]
        /\ UNCHANGED <<value, gpu, packing, buf, render, srtPushed, events>>
    BY <1>8, <1>t DEF EndEncode, gpuVars, tickVars
  <2>2. Promised(job[0]) /\ Fif(job[0]) \in Fifs /\ job[0] \in Told
    BY <2>1, <1>q, <1>s, FifType DEF Promises, Told
  <2>3. Told' \subseteq Told \ {job[0]}
    BY <2>1, <1>s DEF Told, ToldOnce
  <2>4. ASSUME NEW e \in Told' PROVE Promised(e)'
    <3>1. Promised(e) /\ e # job[0] /\ e \in Nat
      BY <2>3, <1>s, <1>n DEF Promises
    <3>2. Fif(e) # Fif(job[0]) /\ Fif(e) \in Fifs
      BY <2>2, <3>1, FifType DEF Promised
    <3>3. copied'[0][Fif(e)] = copied[0][Fif(e)]
      BY <2>1, <3>2, <1>q
    <3> QED BY <2>1, <3>1, <3>3, PromiseKept
  <2>5. \A f \in Fifs : copied'[0][f] <= srtPushed'[f]
    BY <2>1, <2>2, <1>q, <1>t, <1>s DEF Handshake, Promised
  <2>6. \A e \in Told : e # 0
    BY <1>s DEF Promises, Promised
  <2>7. ToldOnce'
    BY <2>1, <2>6, <1>s DEF ToldOnce, Told
  <2> QED BY <2>1, <2>3, <2>4, <2>5, <2>7, <1>s DEF SrtInv, Promises, Handshake
<1>9. ~Abandon(0)
  BY DEF Abandon
<1>10. ASSUME NEW t \in Controllers, Request(t) \/ ControlStep(t) PROVE SrtInv'
  BY <1>5, <1>10, Bystanders
<1>11. CASE AllDone
  BY <1>5, <1>11 DEF AllDone, vars, gpuVars, tickVars, encVars
<1> QED
  BY <1>1, <1>2, <1>3, <1>4, <1>6, <1>7, <1>8, <1>9, <1>10, <1>11
  DEF Next, RenderStep, EncoderStep

\* Every step of the handoff keeps the invariant, a stutter too.
LEMMA HandoffStep == HandoffInv /\ [Next]_vars => HandoffInv'
<1>1. CASE Next
  BY <1>1, HandoffTypesStep, TimelineStep, RequestStep, LifeStep, EncoderInvStep, SrtStep
  DEF HandoffInv
<1>2. ASSUME HandoffInv, UNCHANGED vars PROVE HandoffInv'
  <2> USE <1>2 DEF vars, gpuVars, slotVars, tickVars, encVars, ctlVars, HandoffInv
  <2>1. HandoffTypes' /\ TimelineInv' /\ EncoderInv'
    BY DEF HandoffTypes, TimelineInv, EncoderInv
  <2>2. RequestInv' /\ LifeInv'
    BY DEF RequestInv, Bumping, LifeInv
  <2>3. Told' = Told
    BY DEF Told
  <2>4. Promises'
    BY <2>3, PromiseKept DEF SrtInv, Promises
  <2>5. ToldOnce' /\ Handshake'
    BY <2>3 DEF SrtInv, ToldOnce, Handshake
  <2> QED BY <2>1, <2>2, <2>4, <2>5 DEF SrtInv
<1> QED BY <1>1, <1>2

------------------------------------------------------------------------------
(* The handoff: what the invariant gives *)

\* Two different ticks the SRT encoder was told of use different buffers.
LEMMA ToldApart ==
    ASSUME HandoffInv, NEW d \in Told, NEW e \in Told, Fif(d) = Fif(e)
    PROVE  d = e
BY DEF HandoffInv, SrtInv, Promises, Promised

\* So it was never told of more ticks than there are buffers.
LEMMA RingBound == HandoffInv => SrtRingSuffices
<1> SUFFICES ASSUME HandoffInv PROVE SrtRingSuffices
  OBVIOUS
<1> DEFINE q == events[0]
           n == Len(q)
           m == n + (IF job[0] = 0 THEN 0 ELSE 1)
           nth(i) == IF i <= n THEN q[i] ELSE job[0]
           place == [i \in 1 .. m |-> Fif(nth(i))]
<1>1. q \in Seq(Nat) /\ n \in Nat /\ m \in Nat /\ job[0] \in Nat
  BY DEF HandoffInv, HandoffTypes, Consumers
<1>m. \A i \in 1 .. m : i \in 1 .. n \/ (i = n + 1 /\ job[0] # 0)
  <2>1. m = n + (IF job[0] = 0 THEN 0 ELSE 1)
    OBVIOUS
  <2> HIDE DEF m, n
  <2>2. CASE job[0] = 0
    BY <1>1, <2>1, <2>2
  <2>3. CASE job[0] # 0
    BY <1>1, <2>1, <2>3
  <2> QED BY <2>2, <2>3
<1>2. ASSUME NEW i \in 1 .. m PROVE nth(i) \in Told /\ nth(i) \in Nat
  <2>1. CASE i \in 1 .. n
    <3>1. nth(i) = q[i] /\ q[i] \in Nat
      BY <1>1, <2>1
    <3> QED BY <2>1, <3>1 DEF Told
  <2>2. CASE i = n + 1 /\ job[0] # 0
    <3>1. nth(i) = job[0]
      BY <1>1, <2>2
    <3> QED BY <1>1, <2>2, <3>1 DEF Told
  <2> QED BY <1>m, <2>1, <2>2
<1>3. ASSUME NEW i \in 1 .. m, NEW j \in 1 .. m, i # j PROVE nth(i) # nth(j)
  <2>1. /\ \A k \in 1 .. n : q[k] # job[0]
        /\ \A k, l \in 1 .. n : k # l => q[k] # q[l]
    BY DEF HandoffInv, SrtInv, ToldOnce
  <2> HIDE DEF q, m
  <2>2. CASE i \in 1 .. n /\ j \in 1 .. n
    BY <1>1, <1>3, <2>1, <2>2
  <2>3. CASE i \in 1 .. n /\ j = n + 1
    BY <1>1, <2>1, <2>3
  <2>4. CASE i = n + 1 /\ j \in 1 .. n
    BY <1>1, <2>1, <2>4
  <2> QED BY <1>m, <1>3, <2>2, <2>3, <2>4
<1> HIDE DEF m, nth
<1>4. place \in [1 .. m -> Fifs]
  BY <1>2, FifType
<1>5. IsFiniteSet(1 .. m) /\ Cardinality(1 .. m) = m
  <2>1. 1 \in Int /\ m \in Int /\ (IF 1 > m THEN 0 ELSE m - 1 + 1) = m
    BY <1>1
  <2> QED BY <2>1, FS_Interval
<1>6. IsFiniteSet(Fifs) /\ Cardinality(Fifs) = FramesInFlight
  <2>1. 0 \in Int /\ FramesInFlight - 1 \in Int /\ ~(0 > FramesInFlight - 1)
    OBVIOUS
  <2> QED BY <2>1, FS_Interval DEF Fifs
<1>7. ~(\E i, j \in 1 .. m : i # j /\ place[i] = place[j])
  <2> SUFFICES ASSUME NEW i \in 1 .. m, NEW j \in 1 .. m, i # j, Fif(nth(i)) = Fif(nth(j))
               PROVE  FALSE
    BY <1>4
  <2> QED BY <1>2, <1>3, ToldApart
<1> HIDE DEF place
<1>8. ~(Cardinality(Fifs) < Cardinality(1 .. m))
  <2> SUFFICES ASSUME Cardinality(Fifs) < Cardinality(1 .. m) PROVE FALSE
    OBVIOUS
  <2> \E i, j \in 1 .. m : i # j /\ place[i] = place[j]
    <3> DEFINE S == 1 .. m
    <3>1. IsFiniteSet(S) /\ place \in [S -> Fifs] /\ Cardinality(Fifs) < Cardinality(S)
      BY <1>4, <1>5
    <3> HIDE DEF S
    <3>2. \E i, j \in S : i # j /\ place[i] = place[j]
      BY <3>1, <1>6, FS_PigeonHole
    <3> QED BY <3>2 DEF S
  <2> QED BY <1>7
<1>9. m <= FramesInFlight
  BY <1>1, <1>5, <1>6, <1>8
<1> QED BY <1>9 DEF SrtRingSuffices, m

\* The frame it encodes is the one it was told of, and stays so until it is done.
LEMMA FrameIntact == HandoffInv => SrtReadsItsFrame
<1> SUFFICES ASSUME HandoffInv, job[0] # 0
             PROVE  /\ buf[Fif(job[0])] = job[0]
                    /\ \A v \in packing : Fif(v) # Fif(job[0])
  BY DEF SrtReadsItsFrame, Intact
<1>1. Promised(job[0])
  BY DEF HandoffInv, SrtInv, Promises, Told
<1>2. job[0] <= gpu /\ job[0] \in Nat /\ gpu \in Nat /\ packing \subseteq gpu + 1 .. value
  BY DEF HandoffInv, EncoderInv, HandoffTypes, TimelineInv, Consumers
<1>3. job[0] \notin packing
  BY <1>2 DEF HandoffInv, HandoffTypes
<1> QED BY <1>1, <1>3 DEF Promised

\* The parts of TypeOK are parts of the invariant.
LEMMA HandoffTypeOK == HandoffInv => TypeOK
<1> SUFFICES ASSUME HandoffInv PROVE TypeOK
  OBVIOUS
<1>1. Cardinality(Bumping) \in Nat /\ generation \in Nat /\ requests \in Nat
  BY FS_CardinalityType DEF HandoffInv, HandoffTypes, RequestInv
<1>2. seen <= generation /\ generation <= requests /\ slot \in {0} \cup Recorders
  BY <1>1 DEF HandoffInv, RequestInv
<1>3. \A c \in Consumers : Len(events[c]) <= Capacity /\ job[c] \in 0 .. gpu
  BY DEF HandoffInv, HandoffTypes, EncoderInv
<1>4. render.pc \in {"idle", "loaded", "ready"} /\ render.rec \in {0} \cup Recorders
  BY DEF HandoffInv, HandoffTypes
<1> QED BY <1>2, <1>3, <1>4 DEF TypeOK, HandoffInv, TimelineInv

\* All that HandoffSafe asks follows.
LEMMA HandoffGuarantees ==
    HandoffInv => TypeOK /\ SrtReadsItsFrame /\ SrtRingSuffices /\ NoWorkForRetired
BY HandoffTypeOK, FrameIntact, RingBound DEF HandoffInv, LifeInv, NoWorkForRetired

\* The handoff on its own (NvHandoff's Spec): the SRT encoder reads the frame it was
\* told of, its ring never refuses one, and no event goes to a retired recorder,
\* whatever the control threads do to the recorder.
THEOREM HandoffCorrect ==
    Spec => [](TypeOK /\ SrtReadsItsFrame /\ SrtRingSuffices /\ NoWorkForRetired)
<1>1. Spec => []HandoffInv
  BY HandoffInit, HandoffStep, PTL DEF Spec
<1> QED BY <1>1, HandoffGuarantees, PTL

------------------------------------------------------------------------------
(* The pool of frames of an SDI output *)

PoolTypes ==
    /\ send \in {"open", "wait", "take", "hold", "stop", "closed"}
    /\ free \in [Pool!Pool -> {0, 1}]
    /\ lent \in Pool!Pool \cup {0} /\ card \in Seq(Pool!Pool)
    /\ onair \in BOOLEAN /\ playing \in BOOLEAN /\ ending \in BOOLEAN
    /\ scheduled \in 0 .. 3 /\ refusals \in 0 .. MaxRefusals /\ startFails \in 0 .. MaxStartFails

\* No frame is in two places, and from the opening to the stop each is in one.
Apart ==
    /\ \A i, j \in DOMAIN card : i # j => card[i] # card[j]
    /\ \A i \in DOMAIN card : free[card[i]] = 0 /\ card[i] # lent
    /\ lent # 0 => free[lent] = 0

Somewhere ==
    send \in {"wait", "take", "hold"} =>
        \A f \in Pool!Pool : free[f] = 1 \/ f = lent \/ \E i \in DOMAIN card : card[i] = f

PoolStages ==
    /\ (lent # 0) <=> (send = "hold")
    /\ onair => card # << >>
    /\ send = "open" => card = << >> /\ \A f \in Pool!Pool : free[f] = 0

PoolInv == PoolTypes /\ Apart /\ Somewhere /\ PoolStages

\* The frame the send thread takes is a free one.
LEMMA TakenIsFree ==
    ASSUME PoolTypes, free # Pool!None
    PROVE  Pool!Taken \in Pool!Pool /\ free[Pool!Taken] = 1
<1> USE OutputAssumption DEF Pool!SdiPoolAssumption
<1> DEFINE T == {f \in Pool!Pool : free[f] > 0}
           rank == [f \in T |-> Pool!Round(f)]
<1>1. T # {}
  BY DEF PoolTypes, Pool!None
<1>2. rank \in [T -> Nat]
  <2> SUFFICES ASSUME NEW f \in T PROVE Pool!Round(f) \in Nat
    OBVIOUS
  <2>1. (IF card = << >> THEN 0 ELSE card[Len(card)]) \in Int
    <3>1. card # << >> => Len(card) \in DOMAIN card /\ card[Len(card)] \in Pool!Pool
      BY DEF PoolTypes
    <3> QED BY <3>1 DEF Pool!Pool
  <2> QED BY <2>1 DEF Pool!Round, Pool!Pool
<1>3. PICK x \in T : \A y \in T : rank[x] <= rank[y]
  <2> HIDE DEF T, rank
  <2> QED BY <1>1, <1>2, LeastRank
<1>4. x \in Pool!Pool /\ free[x] > 0
      /\ \A g \in Pool!Pool : free[g] > 0 => Pool!Round(x) <= Pool!Round(g)
  BY <1>3
<1>5. Pool!Taken \in Pool!Pool /\ free[Pool!Taken] > 0
  BY <1>4, Zenon DEF Pool!Taken
<1> QED BY <1>5 DEF PoolTypes

\* At the start the pool is closed and empty.
LEMMA PoolInit == Pool!Init => PoolInv
<1> USE OutputAssumption DEF Pool!SdiPoolAssumption
<1> SUFFICES ASSUME Pool!Init PROVE PoolInv
  OBVIOUS
<1>1. /\ send = "open" /\ lent = 0 /\ card = << >> /\ onair = FALSE /\ playing = FALSE /\ ending = FALSE
      /\ scheduled = 0 /\ refusals = 0 /\ startFails = 0
  BY DEF Pool!Init, Pool!Nobody
<1>2. free \in [Pool!Pool -> {0, 1}] /\ \A f \in Pool!Pool : free[f] = 0
  BY DEF Pool!Init, Pool!None
<1>3. PoolTypes
  <2>1. lent \in Pool!Pool \cup {0} /\ card \in Seq(Pool!Pool)
    BY <1>1
  <2>2. onair \in BOOLEAN /\ playing \in BOOLEAN /\ ending \in BOOLEAN
    BY <1>1
  <2>3. scheduled \in 0 .. 3
    BY <1>1
  <2>4. refusals \in 0 .. MaxRefusals /\ startFails \in 0 .. MaxStartFails
    BY <1>1
  <2> QED BY <1>1, <1>2, <2>1, <2>2, <2>3, <2>4 DEF PoolTypes
<1>4. Apart /\ Somewhere /\ PoolStages
  BY <1>1, <1>2 DEF Apart, Somewhere, PoolStages
<1> QED BY <1>3, <1>4 DEF PoolInv

\* A step of the send thread, of the card or of the destructor keeps it.
LEMMA PoolStep == PoolInv /\ Pool!Next => PoolInv'
<1> SUFFICES ASSUME PoolInv, Pool!Next PROVE PoolInv'
  OBVIOUS
<1> USE OutputAssumption DEF Pool!SdiPoolAssumption, Pool!pool
<1>t. PoolTypes /\ Apart /\ Somewhere /\ PoolStages
  BY DEF PoolInv
<1>f. free \in [Pool!Pool -> {0, 1}] /\ card \in Seq(Pool!Pool) /\ lent \in Pool!Pool \cup {0}
      /\ 0 \notin Pool!Pool
  BY <1>t DEF PoolTypes, Pool!Pool
<1>1. CASE Pool!Open
  <2>1. /\ send = "open" /\ lent = 0 /\ card = << >> /\ UNCHANGED <<lent, card, onair, playing, ending>>
        /\ \/ send' \in {"stop", "open"} /\ free' = free
           \/ send' = "wait" /\ free' = [f \in Pool!Pool |-> 1]
    BY <1>1, <1>t DEF Pool!Open, PoolStages
  <2>2. PoolTypes'
    BY <1>1, <1>t, <2>1 DEF Pool!Open, Pool!Fault, PoolTypes
  <2>3. Apart' /\ Somewhere' /\ PoolStages'
    BY <1>t, <1>f, <2>1 DEF Apart, Somewhere, PoolStages
  <2> QED BY <2>2, <2>3 DEF PoolInv
<1>2. CASE Pool!Wake
  <2>1. /\ send = "wait" /\ send' \in {"stop", "wait", "take"}
        /\ UNCHANGED <<free, lent, card, onair, playing, scheduled, ending, refusals, startFails>>
    BY <1>2 DEF Pool!Wake
  <2> QED BY <1>t, <2>1 DEF PoolInv, PoolTypes, Apart, Somewhere, PoolStages
<1>3. CASE Pool!Take
  <2>1. send = "take" /\ lent = 0
        /\ UNCHANGED <<card, onair, playing, scheduled, ending, refusals, startFails>>
    BY <1>3, <1>t DEF Pool!Take, PoolStages
  <2>2. CASE free = Pool!None
    <3>1. send' = "wait" /\ UNCHANGED <<free, lent>>
      BY <1>3, <2>2 DEF Pool!Take
    <3> QED BY <1>t, <2>1, <3>1 DEF PoolInv, PoolTypes, Apart, Somewhere, PoolStages
  <2>3. CASE free # Pool!None
    <3>1. Pool!Taken \in Pool!Pool /\ free[Pool!Taken] = 1
      BY <1>t, <2>3, TakenIsFree
    <3>2. /\ lent' = Pool!Taken /\ send' = "hold"
          /\ free' = [free EXCEPT ![lent'] = 0]
      BY <1>3, <1>f, <2>3, <3>1 DEF Pool!Take
    <3>3. lent' \in Pool!Pool /\ free[lent'] = 1 /\ lent' # 0
      BY <1>f, <3>1, <3>2
    <3>4. free' \in [Pool!Pool -> {0, 1}] /\ free'[lent'] = 0
          /\ \A f \in Pool!Pool : f # lent' => free'[f] = free[f]
      BY <1>f, <3>2, <3>3
    <3>5. \A i \in DOMAIN card : card[i] \in Pool!Pool /\ card[i] # lent'
      BY <1>t, <1>f, <3>3 DEF Apart
    <3>6. PoolTypes'
      BY <1>t, <2>1, <3>2, <3>3, <3>4 DEF PoolTypes
    <3>7. Apart'
      BY <1>t, <2>1, <3>4, <3>5 DEF Apart
    <3>8. Somewhere' /\ PoolStages'
      BY <1>t, <2>1, <3>2, <3>3, <3>4 DEF Somewhere, PoolStages
    <3> QED BY <3>6, <3>7, <3>8 DEF PoolInv
  <2> QED BY <2>2, <2>3
<1>4. CASE Pool!GiveUp
  <2>1. /\ send = "hold" /\ send' = "wait" /\ lent # 0 /\ lent' = 0
        /\ free' = [free EXCEPT ![lent] = 1]
        /\ playing' \in BOOLEAN /\ refusals' \in 0 .. MaxRefusals
        /\ UNCHANGED <<card, onair, scheduled, ending, startFails>>
    <3>1. /\ send = "hold" /\ send' = "wait" /\ lent # 0 /\ lent' = 0
          /\ UNCHANGED <<card, onair, scheduled, ending, startFails>>
      BY <1>4, <1>t DEF Pool!GiveUp, Pool!Nobody, PoolStages
    <3>2. free[lent] = 0 /\ free' = [free EXCEPT ![lent] = free[lent] + 1]
      BY <1>4, <1>t, <3>1 DEF Pool!GiveUp, Pool!PutBack, Apart
    <3>3. playing' \in BOOLEAN /\ refusals' \in 0 .. MaxRefusals
      <4>1. playing \in BOOLEAN /\ refusals \in 0 .. MaxRefusals
        BY <1>t DEF PoolTypes
      <4>2. /\ playing' \in {playing, playing \/ Pool!TriesToStart(scheduled)}
            /\ refusals' = refusals \/ (refusals < MaxRefusals /\ refusals' = refusals + 1)
        BY <1>4, Zenon DEF Pool!GiveUp, Pool!Fault
      <4>3. playing' \in BOOLEAN
        BY <4>1, <4>2, Zenon
      <4>4. refusals' \in 0 .. MaxRefusals
        BY <4>1, <4>2
      <4> QED BY <4>3, <4>4
    <3> QED BY <3>1, <3>2, <3>3
  <2>2. free' \in [Pool!Pool -> {0, 1}] /\ lent \in Pool!Pool /\ free'[lent] = 1
        /\ \A f \in Pool!Pool : f # lent => free'[f] = free[f]
    BY <1>f, <2>1
  <2>3. \A i \in DOMAIN card : card[i] \in Pool!Pool /\ card[i] # lent
    BY <1>t, <1>f DEF Apart
  <2>4. PoolTypes'
    BY <1>t, <2>1, <2>2 DEF PoolTypes
  <2>5. Apart'
    BY <1>t, <1>f, <2>1, <2>2, <2>3 DEF Apart
  <2>6. Somewhere' /\ PoolStages'
    BY <1>t, <2>1, <2>2 DEF Somewhere, PoolStages
  <2> QED BY <2>4, <2>5, <2>6 DEF PoolInv
<1>5. CASE Pool!Schedule
  <2>1. /\ send = "hold" /\ send' = "wait" /\ lent # 0 /\ lent' = 0 /\ lent \in Pool!Pool
        /\ card' = Append(card, lent) /\ UNCHANGED <<free, onair, ending, refusals>>
    BY <1>5, <1>t, <1>f DEF Pool!Schedule, Pool!Nobody, PoolStages
  <2>2. /\ card' \in Seq(Pool!Pool) /\ card' # << >> /\ Len(card) \in Nat
        /\ DOMAIN card' = DOMAIN card \cup {Len(card) + 1}
        /\ card'[Len(card) + 1] = lent
        /\ \A i \in DOMAIN card : card'[i] = card[i] /\ card[i] \in Pool!Pool
    BY <1>f, <2>1
  <2>3. PoolTypes'
    <3>1. scheduled' \in 0 .. 3 /\ playing' \in BOOLEAN /\ startFails' \in 0 .. MaxStartFails
      <4>1. scheduled \in 0 .. 3 /\ playing \in BOOLEAN /\ startFails \in 0 .. MaxStartFails
        BY <1>t DEF PoolTypes
      <4>2. scheduled' = IF scheduled < 3 THEN scheduled + 1 ELSE scheduled
        BY <1>5 DEF Pool!Schedule, Pool!TargetPreroll
      <4>3. /\ playing' \in {playing, TRUE}
            /\ startFails' = startFails \/ (startFails < MaxStartFails /\ startFails' = startFails + 1)
        BY <1>5, Zenon DEF Pool!Schedule
      <4>4. playing' \in BOOLEAN
        BY <4>1, <4>3, Zenon
      <4>5. scheduled' \in 0 .. 3 /\ startFails' \in 0 .. MaxStartFails
        <5> HIDE <4>4
        <5> QED BY <4>1, <4>2, <4>3
      <4> QED BY <4>4, <4>5
    <3> QED BY <1>t, <2>1, <2>2, <3>1 DEF PoolTypes
  <2>4. Apart'
    <3>1. \A i \in DOMAIN card : card[i] # lent /\ free[card[i]] = 0
      BY <1>t DEF Apart
    <3>2. \A i, j \in DOMAIN card' : i # j => card'[i] # card'[j]
      BY <1>t, <2>2, <3>1 DEF Apart
    <3>3. \A i \in DOMAIN card' : free'[card'[i]] = 0 /\ card'[i] # lent'
      BY <1>t, <1>f, <2>1, <2>2, <3>1 DEF Apart
    <3> QED BY <2>1, <3>2, <3>3 DEF Apart
  <2>5. Somewhere' /\ PoolStages'
    BY <1>t, <2>1, <2>2 DEF Somewhere, PoolStages
  <2> QED BY <2>3, <2>4, <2>5 DEF PoolInv
<1>6. CASE Pool!Close
  <2>1. /\ send = "stop" /\ send' = "closed" /\ card' = << >> /\ lent = 0 /\ lent' = 0
        /\ free' = Pool!None /\ onair' = FALSE /\ playing' = FALSE
        /\ UNCHANGED <<scheduled, ending, refusals, startFails>>
    BY <1>6, <1>t DEF Pool!Close, PoolStages
  <2>2. free' \in [Pool!Pool -> {0, 1}]
    BY <2>1 DEF Pool!None
  <2>3. /\ card' \in Seq(Pool!Pool) /\ lent' \in Pool!Pool \cup {0}
        /\ onair' \in BOOLEAN /\ playing' \in BOOLEAN
    <3>1. card' \in Seq(Pool!Pool) /\ lent' \in Pool!Pool \cup {0}
      BY <2>1
    <3>2. onair' \in BOOLEAN /\ playing' \in BOOLEAN
      BY <2>1
    <3> QED BY <3>1, <3>2
  <2>4. PoolTypes'
    BY <1>t, <2>1, <2>2, <2>3 DEF PoolTypes
  <2> QED BY <1>t, <2>1, <2>4 DEF PoolInv, Apart, Somewhere, PoolStages
<1>7. CASE Pool!Destroy
  BY <1>7, <1>t DEF Pool!Destroy, PoolInv, PoolTypes, Apart, Somewhere, PoolStages
<1>8. CASE Pool!ClockOut
  BY <1>8, <1>t DEF Pool!ClockOut, PoolInv, PoolTypes, Apart, Somewhere, PoolStages
<1>9. CASE Pool!Completed
  <2> DEFINE g == card[1]
  <2>1. /\ card # << >> /\ onair' = FALSE /\ card' = Tail(card)
        /\ UNCHANGED <<send, lent, playing, scheduled, ending, refusals, startFails>>
    BY <1>9, <1>t DEF Pool!Completed, PoolStages
  <2>2. /\ Len(card) \in Nat /\ Len(card) >= 1 /\ g \in Pool!Pool /\ 1 \in DOMAIN card
        /\ card' \in Seq(Pool!Pool) /\ DOMAIN card = 1 .. Len(card)
        /\ DOMAIN card' = 1 .. Len(card) - 1
        /\ \A i \in 1 .. Len(card) - 1 : card'[i] = card[i + 1] /\ card[i + 1] \in Pool!Pool
    BY <1>f, <2>1
  <2>3. free[g] = 0 /\ g # lent
    BY <1>t, <2>2 DEF Apart
  <2>4. free' = [free EXCEPT ![g] = 1]
    <3>1. free' = [free EXCEPT ![Head(card)] = free[Head(card)] + 1] /\ Head(card) = g
      BY <1>9, <1>f, <2>1 DEF Pool!Completed
    <3>2. free[Head(card)] + 1 = 1
      BY <2>3, <3>1
    <3> HIDE DEF g
    <3> QED BY <3>1, <3>2
  <2>5. free' \in [Pool!Pool -> {0, 1}] /\ free'[g] = 1
        /\ \A f \in Pool!Pool : f # g => free'[f] = free[f]
    BY <1>f, <2>2, <2>4
  <2>6. \A i \in 1 .. Len(card) - 1 : card[i + 1] # g
    BY <1>t, <2>2 DEF Apart
  <2> HIDE DEF g
  <2>7. PoolTypes'
    BY <1>t, <2>1, <2>2, <2>5 DEF PoolTypes
  <2>8. Apart'
    <3>1. \A i, j \in DOMAIN card' : i # j => card'[i] # card'[j]
      BY <1>t, <2>2, SMTT(30) DEF Apart
    <3>2. \A i \in DOMAIN card' : free'[card'[i]] = 0 /\ card'[i] # lent'
      BY <1>t, <2>1, <2>2, <2>5, <2>6 DEF Apart
    <3>3. lent' # 0 => free'[lent'] = 0
      BY <1>t, <1>f, <2>1, <2>3, <2>5 DEF Apart
    <3> QED BY <3>1, <3>2, <3>3 DEF Apart
  <2>9. Somewhere'
    <3> SUFFICES ASSUME send \in {"wait", "take", "hold"}, NEW f \in Pool!Pool, f # lent, f # g,
                        free[f] # 1
                 PROVE  \E i \in DOMAIN card' : card'[i] = f
      BY <2>1, <2>5 DEF Somewhere
    <3>1. PICK i \in DOMAIN card : card[i] = f
      BY <1>t DEF Somewhere
    <3>2. i # 1
      BY <3>1 DEF g
    <3>3. i - 1 \in 1 .. Len(card) - 1 /\ (i - 1) + 1 = i
      BY <2>2, <3>1, <3>2
    <3>4. card'[i - 1] = f
      BY <2>2, <3>1, <3>3
    <3> QED BY <2>2, <3>3, <3>4
  <2>10. PoolStages'
    BY <1>t, <2>1, <2>2 DEF PoolStages
  <2> QED BY <2>7, <2>8, <2>9, <2>10 DEF PoolInv
<1> QED
  BY <1>1, <1>2, <1>3, <1>4, <1>5, <1>6, <1>7, <1>8, <1>9 DEF Pool!Next, Pool!Send

\* So each frame is free, in the send thread's hand or once in the card's queue.
LEMMA PoolGuarantees == PoolInv => Pool!PoolIsWhole /\ Pool!TypeOK
<1> SUFFICES ASSUME PoolInv PROVE Pool!PoolIsWhole /\ Pool!TypeOK
  OBVIOUS
<1> USE OutputAssumption DEF Pool!SdiPoolAssumption
<1>1. ASSUME send \notin {"open", "stop", "closed"}, NEW f \in Pool!Pool
      PROVE  /\ f = lent => free[f] = 0 /\ {i \in DOMAIN card : card[i] = f} = {}
             /\ f # lent => free[f] + Cardinality({i \in DOMAIN card : card[i] = f}) = 1
  <2> DEFINE places == {i \in DOMAIN card : card[i] = f}
  <2>1. free[f] \in {0, 1} /\ f # 0
    BY DEF PoolInv, PoolTypes, Pool!Pool
  <2>2. CASE f = lent
    BY <2>1, <2>2 DEF PoolInv, Apart
  <2>3. CASE f # lent /\ free[f] = 1
    <3>1. places = {}
      BY <2>3 DEF PoolInv, Apart
    <3> QED BY <2>3, <3>1, FS_EmptySet
  <2>4. CASE f # lent /\ free[f] = 0
    <3>1. send \in {"wait", "take", "hold"}
      BY <1>1 DEF PoolInv, PoolTypes
    <3>2. PICK i \in DOMAIN card : card[i] = f
      BY <2>4, <3>1 DEF PoolInv, Somewhere
    <3>3. places = {i}
      BY <3>2 DEF PoolInv, Apart
    <3>4. Cardinality(places) = 1
      BY <3>3, FS_Singleton
    <3> QED BY <2>4, <3>4
  <2> QED BY <2>1, <2>2, <2>3, <2>4
<1>2. Pool!PoolIsWhole
  <2>1. \A S : Pool!Cardinality(S) = Cardinality(S)
    BY DEF Pool!Cardinality, Cardinality
  <2> QED BY <1>1, <2>1, Zenon DEF Pool!PoolIsWhole
<1>3. Pool!TypeOK
  <2>1. free \in [Pool!Pool -> 0 .. FrameRing]
    BY DEF PoolInv, PoolTypes
  <2> QED BY <2>1 DEF PoolInv, PoolTypes, Pool!TypeOK, Pool!TargetPreroll, Pool!Nobody
<1> QED BY <1>2, <1>3

------------------------------------------------------------------------------
(* The connection of an SRT output *)

MuxTypes ==
    /\ rings \in [Mux!Streams -> Seq({"old", "new"})]
    /\ hand \in [kind : Mux!Streams \cup {"none"}, age : {"old", "new", "none"}]
    /\ step \in {"pop", "open", "flush", "write", "closed"} /\ faults \in 0 .. MaxOutages

MuxFlags ==
    /\ connected \in BOOLEAN /\ backoff \in BOOLEAN /\ reachable \in BOOLEAN
    /\ stopping \in BOOLEAN /\ stale \in BOOLEAN /\ sent \in BOOLEAN

RingsFit == \A k \in Mux!Streams : Len(rings[k]) <= StreamRing

\* Old packets exist only between the handshake and the flush, and what is about to be
\* written is new.
NothingOld ==
    /\ ~stale
    /\ step # "flush" => \A k \in Mux!Streams : \A i \in DOMAIN rings[k] : rings[k][i] = "new"
    /\ step = "write" => hand.age = "new"

MuxInv == MuxTypes /\ MuxFlags /\ RingsFit /\ NothingOld

\* At the start there is no connection and no packet.
LEMMA MuxInit == Mux!Init => MuxInv
<1> USE OutputAssumption DEF Mux!SrtAssumption
<1> SUFFICES ASSUME Mux!Init PROVE MuxInv
  OBVIOUS
<1>1. rings \in [Mux!Streams -> Seq({"old", "new"})] /\ \A k \in Mux!Streams : rings[k] = << >>
  BY DEF Mux!Init, Mux!Empty
<1>2. MuxTypes
  <2>1. /\ hand \in [kind : Mux!Streams \cup {"none"}, age : {"old", "new", "none"}]
        /\ step \in {"pop", "open", "flush", "write", "closed"} /\ faults \in 0 .. MaxOutages
    BY DEF Mux!Init, Mux!NoPacket
  <2> QED BY <1>1, <2>1 DEF MuxTypes
<1>2a. MuxFlags
  BY DEF Mux!Init, MuxFlags
<1>3. RingsFit
  BY <1>1 DEF RingsFit
<1>4. NothingOld
  BY <1>1 DEF NothingOld, Mux!Init
<1> QED BY <1>2, <1>2a, <1>3, <1>4 DEF MuxInv

\* A step of the encoders, of the mux thread or of the network keeps it.
LEMMA MuxStep == MuxInv /\ Mux!Next => MuxInv'
<1> SUFFICES ASSUME MuxInv, Mux!Next PROVE MuxInv'
  OBVIOUS
<1> USE OutputAssumption DEF Mux!SrtAssumption
<1>t. MuxTypes /\ MuxFlags /\ RingsFit /\ NothingOld
  BY DEF MuxInv
<1>r. rings \in [Mux!Streams -> Seq({"old", "new"})]
  BY <1>t DEF MuxTypes
<1>f. MuxFlags'
  <2>1. Mux!Next => /\ connected' \in {connected, TRUE, FALSE} /\ backoff' \in {backoff, TRUE, FALSE}
                    /\ reachable' \in {reachable, ~reachable}
                    /\ stopping' \in {stopping, TRUE} /\ sent' \in {sent, TRUE, FALSE}
                    /\ stale' \in {stale, stale \/ hand.age = "old"}
    <3>1. Mux!Mux => /\ connected' \in {connected, TRUE, FALSE} /\ backoff' \in {backoff, TRUE, FALSE}
                     /\ reachable' = reachable
                     /\ stopping' = stopping /\ sent' \in {sent, TRUE, FALSE}
                     /\ stale' \in {stale, stale \/ hand.age = "old"}
      BY Zenon DEF Mux!Mux, Mux!Pop, Mux!Open, Mux!Flush, Mux!Write, Mux!Leave
    <3> QED BY <3>1, Zenon DEF Mux!Next, Mux!Push, Mux!Second, Mux!Peer, Mux!Destroy
  <2> QED BY <1>t, <2>1, Zenon DEF MuxFlags
<1>1. ASSUME NEW k \in Mux!Streams, Mux!Push(k) PROVE MuxInv'
  <2>1. /\ rings' = [rings EXCEPT ![k] = Append(rings[k], "new")] /\ Len(rings[k]) < StreamRing
        /\ UNCHANGED <<hand, step, connected, backoff, reachable, stopping, stale, sent, faults>>
    BY <1>1 DEF Mux!Push
  <2>2. rings[k] \in Seq({"old", "new"}) /\ Len(rings[k]) \in Nat
    BY <1>r
  <2>3. /\ Append(rings[k], "new") \in Seq({"old", "new"})
        /\ Len(Append(rings[k], "new")) = Len(rings[k]) + 1
        /\ \A i \in DOMAIN Append(rings[k], "new") :
              Append(rings[k], "new")[i] = IF i \in DOMAIN rings[k] THEN rings[k][i] ELSE "new"
    BY <2>2
  <2>4. MuxTypes'
    BY <1>t, <2>1, <2>3 DEF MuxTypes
  <2>5. RingsFit'
    BY <1>t, <1>r, <2>1, <2>2, <2>3 DEF RingsFit
  <2>6. NothingOld'
    BY <1>t, <1>r, <2>1, <2>3 DEF NothingOld
  <2> QED BY <1>f, <1>1, <2>4, <2>5, <2>6 DEF MuxInv
<1>2. CASE Mux!Pop
  <2> DEFINE k == Mux!First
  <2>1. k \in Mux!Streams
    BY DEF Mux!First, Mux!Streams
  <2>2. /\ step = "pop" /\ rings[k] # << >> /\ rings' = [rings EXCEPT ![k] = Tail(rings[k])]
        /\ \/ hand' = [kind |-> k, age |-> Head(rings[k])] /\ step' \in {"write", "open"}
           \/ UNCHANGED <<hand, step>>
        /\ UNCHANGED <<connected, backoff, reachable, stopping, stale, sent, faults>>
    BY <1>2 DEF Mux!Pop
  <2> HIDE DEF k
  <2>3. rings[k] \in Seq({"old", "new"}) /\ Len(rings[k]) \in Nat /\ rings[k] # << >>
    BY <1>r, <2>1, <2>2
  <2>4. /\ Tail(rings[k]) \in Seq({"old", "new"}) /\ Len(Tail(rings[k])) = Len(rings[k]) - 1
        /\ 1 \in DOMAIN rings[k] /\ Head(rings[k]) = rings[k][1]
        /\ \A i \in DOMAIN Tail(rings[k]) :
              i + 1 \in DOMAIN rings[k] /\ Tail(rings[k])[i] = rings[k][i + 1]
    BY <2>3
  <2>5. Head(rings[k]) = "new"
    BY <1>t, <2>1, <2>2, <2>4 DEF NothingOld
  <2>6. MuxTypes'
    <3>1. rings' \in [Mux!Streams -> Seq({"old", "new"})]
      BY <1>r, <2>2, <2>4
    <3>2. hand' \in [kind : Mux!Streams \cup {"none"}, age : {"old", "new", "none"}]
      BY <1>t, <2>1, <2>2, <2>5 DEF MuxTypes
    <3>3. step' \in {"pop", "open", "flush", "write", "closed"}
      BY <2>2
    <3> QED BY <1>t, <2>2, <3>1, <3>2, <3>3 DEF MuxTypes
  <2>7. RingsFit'
    BY <1>t, <1>r, <2>2, <2>3, <2>4 DEF RingsFit
  <2>8. \A l \in Mux!Streams : \A i \in DOMAIN rings'[l] : rings'[l][i] = "new"
    BY <1>t, <1>r, <2>1, <2>2, <2>4 DEF NothingOld
  <2>9. NothingOld'
    BY <1>t, <2>2, <2>5, <2>8 DEF NothingOld
  <2> QED BY <1>f, <1>2, <2>6, <2>7, <2>9 DEF MuxInv
<1>3. CASE Mux!Open
  <2>1. ASSUME rings' = Mux!Aged, step' = "flush", hand' = [hand EXCEPT !.age = "old"],
               UNCHANGED <<stale, faults>>
        PROVE  MuxInv'
    <3>1. /\ rings' \in [Mux!Streams -> Seq({"old", "new"})]
          /\ \A k \in Mux!Streams : Len(rings'[k]) = Len(rings[k])
      <4>1. ASSUME NEW k \in Mux!Streams
            PROVE  /\ [i \in DOMAIN rings[k] |-> "old"] \in Seq({"old", "new"})
                   /\ Len([i \in DOMAIN rings[k] |-> "old"]) = Len(rings[k])
        <5>1. rings[k] \in Seq({"old", "new"})
          BY <1>r
        <5> QED BY <5>1
      <4> QED BY <2>1, <4>1 DEF Mux!Aged
    <3>2. MuxTypes'
      BY <1>t, <2>1, <3>1 DEF MuxTypes
    <3> QED BY <1>f, <1>t, <2>1, <3>1, <3>2 DEF MuxInv, RingsFit, NothingOld
  <2>2. ASSUME hand' = Mux!NoPacket, step = "open", step' = "pop", UNCHANGED <<rings, stale, faults>>
        PROVE  MuxInv'
    BY <1>f, <1>t, <2>2 DEF MuxInv, MuxTypes, RingsFit, NothingOld, Mux!NoPacket
  <2> QED BY <1>3, <2>1, <2>2 DEF Mux!Open
<1>4. CASE Mux!Flush
  <2>1. /\ rings' \in [Mux!Streams -> Seq({"old", "new"})] /\ \A k \in Mux!Streams : rings'[k] = << >>
        /\ step' = "pop" /\ hand' = Mux!NoPacket /\ UNCHANGED <<stale, faults>>
    BY <1>4 DEF Mux!Flush, Mux!Dropped, Mux!Empty
  <2>2. MuxTypes'
    BY <1>t, <2>1 DEF MuxTypes, Mux!NoPacket
  <2>3. RingsFit'
    BY <2>1 DEF RingsFit
  <2> QED BY <1>f, <1>t, <2>1, <2>2, <2>3 DEF MuxInv, NothingOld
<1>5. CASE Mux!Write
  <2>1. /\ step = "write" /\ step' = "pop" /\ hand' = Mux!NoPacket /\ rings' = rings
        /\ stale' \in {stale, stale \/ hand.age = "old"}
    BY <1>5, Zenon DEF Mux!Write
  <2>2. faults' \in 0 .. MaxOutages
    <3>1. faults' = faults \/ (faults < MaxOutages /\ faults' = faults + 1) \/ ~reachable
      BY <1>5 DEF Mux!Write
    <3>2. ~reachable => faults' = faults
      BY <1>5 DEF Mux!Write
    <3> QED BY <1>t, <3>1, <3>2 DEF MuxTypes
  <2>3. ~stale'
    <3>1. hand.age # "old" /\ ~stale
      BY <1>t, <2>1 DEF NothingOld
    <3> QED BY <2>1, <3>1
  <2>4. MuxTypes'
    BY <1>t, <2>1, <2>2 DEF MuxTypes, Mux!NoPacket
  <2> QED BY <1>f, <1>t, <2>1, <2>3, <2>4 DEF MuxInv, RingsFit, NothingOld
<1>6. CASE Mux!Leave \/ Mux!Second \/ Mux!Peer \/ Mux!Destroy
  <2>1. /\ step' = step \/ (step = "pop" /\ step' = "closed")
        /\ faults' = faults \/ (faults < MaxOutages /\ faults' = faults + 1)
        /\ UNCHANGED <<rings, hand, stale>>
    BY <1>6 DEF Mux!Leave, Mux!Second, Mux!Peer, Mux!Destroy
  <2>2. MuxTypes'
    BY <1>t, <2>1 DEF MuxTypes
  <2>3. RingsFit' /\ NothingOld'
    BY <1>t, <2>1 DEF RingsFit, NothingOld
  <2> QED BY <1>f, <2>2, <2>3 DEF MuxInv
<1> QED
  BY <1>1, <1>2, <1>3, <1>4, <1>5, <1>6 DEF Mux!Next, Mux!Mux

\* A viewer gets nothing from before the connection.
LEMMA MuxGuarantees == MuxInv => Mux!JoinsAtNow /\ Mux!TypeOK
<1> SUFFICES ASSUME MuxInv PROVE Mux!JoinsAtNow /\ Mux!TypeOK
  OBVIOUS
<1>1. Mux!JoinsAtNow
  BY DEF MuxInv, NothingOld, Mux!JoinsAtNow
<1>2. {connected, backoff, reachable, stopping, stale, sent} \subseteq BOOLEAN
  BY DEF MuxInv, MuxFlags
<1>3. \A k \in Mux!Streams : rings[k] \in Seq({"old", "new"}) /\ Len(rings[k]) <= StreamRing
  BY DEF MuxInv, MuxTypes, RingsFit
<1>4. Mux!TypeOK
  BY <1>2, <1>3 DEF MuxInv, MuxTypes, Mux!TypeOK
<1> QED BY <1>1, <1>4

------------------------------------------------------------------------------
(* A recording from its events to its trailer *)

\* Where a packet of a stream can be on its way to the file.
Stages == 1 .. 5

Hand == IF encode.step = "wait" THEN <<encode.frame>> ELSE << >>

Line(k) ==
    [a \in Stages |->
        CASE a = 1 -> file.packets[k]
          [] a = 2 -> packets[k]
          [] a = 3 -> held[k]
          [] a = 4 /\ k = "video" -> Hand
          [] a = 5 /\ k = "video" -> queued
          [] OTHER -> << >>]

Rising(s) == \A i, j \in DOMAIN s : i < j => s[i] < s[j]

\* The packets on the line L are in order within a stage and from stage to stage, and with
\* those lost they are the ones made, each either on the line or lost.
Accounted(L, gone, made) ==
    /\ \A a \in Stages : Rising(L[a]) /\ \A x \in Drain!ToSet(L[a]) : x \notin gone
    /\ \A a, b \in Stages : a < b =>
          \A x \in Drain!ToSet(L[a]), y \in Drain!ToSet(L[b]) : x < y
    /\ \A x : x \in made <=> x \in gone \/ \E a \in Stages : x \in Drain!ToSet(L[a])

DrainTypes ==
    /\ queued \in Seq(Drain!Packets) /\ frames \in 0 .. MaxFrames /\ chunks \in 0 .. MaxFrames
    /\ encode \in [step : {"pop", "wait", "drain", "ended"}, frame : 0 .. MaxFrames]
    /\ encode.step = "wait" => encode.frame # 0
    /\ held \in [Drain!Streams -> {<< >>} \cup {<<p>> : p \in Drain!Packets}]
    /\ packets \in [Drain!Streams -> Seq(Drain!Packets)]
    /\ \A k \in Drain!Streams : Len(packets[k]) <= PacketRing
    /\ file \in [packets : [Drain!Streams -> Seq(Drain!Packets)], trailer : BOOLEAN]
    /\ lost \in [Drain!Streams -> SUBSET Drain!Packets]
    /\ mux \in {"run", "closed"} /\ dtor \in {"none", "joinEncode", "joinMux", "gone"}
    /\ failures \in 0 .. MaxFailures

\* The GPU finishes frames that were queued and can be finished.
GpuInv == done \cup never \subseteq 1 .. frames /\ done \cap never = {}

\* What is over by the time the destructor and the two threads have got this far.
EndInv ==
    /\ encode.step \in {"drain", "ended"} => dtor # "none" /\ queued = << >>
    /\ encode.step = "ended" => held["video"] = << >>
    /\ dtor \in {"joinMux", "gone"} => encode.step = "ended" /\ held["audio"] = << >>
    /\ mux = "closed" => /\ dtor \in {"joinMux", "gone"} /\ packets = Drain!Nothing
                         /\ file.trailer
    /\ dtor = "gone" => mux = "closed"

LineInv == \A k \in Drain!Streams : Accounted(Line(k), lost[k], Drain!Made(k))

DrainInv == DrainTypes /\ GpuInv /\ EndInv /\ LineInv

\* The head of a rising queue comes before the rest.
LEMMA TailOfRising ==
    ASSUME NEW s \in Seq(Nat), s # << >>, Rising(s)
    PROVE  /\ Head(s) \in Nat /\ Tail(s) \in Seq(Nat)
           /\ Rising(Tail(s)) /\ Head(s) \in Drain!ToSet(s)
           /\ \A x \in Drain!ToSet(Tail(s)) : Head(s) < x /\ x \in Drain!ToSet(s)
           /\ \A x \in Drain!ToSet(s) : x = Head(s) \/ x \in Drain!ToSet(Tail(s))
<1>1. /\ Len(s) \in Nat /\ Len(s) >= 1 /\ Head(s) = s[1] /\ DOMAIN s = 1 .. Len(s)
      /\ Head(s) \in Nat /\ Tail(s) \in Seq(Nat) /\ DOMAIN Tail(s) = 1 .. Len(s) - 1
      /\ \A i \in 1 .. Len(s) - 1 : Tail(s)[i] = s[i + 1]
  OBVIOUS
<1>2. Rising(Tail(s))
  BY <1>1 DEF Rising
<1>3. \A x \in Drain!ToSet(Tail(s)) : Head(s) < x /\ x \in Drain!ToSet(s)
  <2> SUFFICES ASSUME NEW i \in 1 .. Len(s) - 1
               PROVE  Head(s) < s[i + 1] /\ s[i + 1] \in Drain!ToSet(s)
    BY <1>1 DEF Drain!ToSet
  <2> QED BY <1>1 DEF Rising, Drain!ToSet
<1>4. ASSUME NEW x \in Drain!ToSet(s), x # Head(s) PROVE x \in Drain!ToSet(Tail(s))
  <2>1. PICK i \in 1 .. Len(s) : x = s[i]
    BY <1>1 DEF Drain!ToSet
  <2>2. i - 1 \in 1 .. Len(s) - 1 /\ Tail(s)[i - 1] = x
    <3>1. i # 1
      BY <1>1, <1>4, <2>1
    <3>2. i - 1 \in 1 .. Len(s) - 1 /\ (i - 1) + 1 = i
      BY <1>1, <3>1
    <3> QED BY <1>1, <2>1, <3>2
  <2> QED BY <1>1, <2>2 DEF Drain!ToSet
<1>5. Head(s) \in Drain!ToSet(s)
  BY <1>1 DEF Drain!ToSet
<1> QED BY <1>1, <1>2, <1>3, <1>4, <1>5

\* A queue keeps rising when something later than all of it is appended.
LEMMA AppendToRising ==
    ASSUME NEW s \in Seq(Nat), Rising(s), NEW x \in Nat, \A y \in Drain!ToSet(s) : y < x
    PROVE  /\ Append(s, x) \in Seq(Nat) /\ Rising(Append(s, x))
           /\ \A y : y \in Drain!ToSet(Append(s, x)) <=> y \in Drain!ToSet(s) \/ y = x
<1>1. /\ Len(s) \in Nat /\ DOMAIN s = 1 .. Len(s) /\ Append(s, x) \in Seq(Nat)
      /\ DOMAIN Append(s, x) = 1 .. Len(s) + 1 /\ Append(s, x)[Len(s) + 1] = x
      /\ \A i \in 1 .. Len(s) : Append(s, x)[i] = s[i]
  OBVIOUS
<1>2. \A i \in 1 .. Len(s) : s[i] < x
  BY <1>1 DEF Drain!ToSet
<1>3. Rising(Append(s, x))
  <2> SUFFICES ASSUME NEW i \in 1 .. Len(s) + 1, NEW j \in 1 .. Len(s) + 1, i < j
               PROVE  Append(s, x)[i] < Append(s, x)[j]
    BY <1>1 DEF Rising
  <2>1. i \in 1 .. Len(s)
    BY <1>1
  <2>2. CASE j \in 1 .. Len(s)
    BY <1>1, <2>1, <2>2 DEF Rising
  <2>3. CASE j = Len(s) + 1
    BY <1>1, <1>2, <2>1, <2>3
  <2> QED BY <1>1, <2>2, <2>3
<1>4. ASSUME NEW y PROVE y \in Drain!ToSet(Append(s, x)) <=> y \in Drain!ToSet(s) \/ y = x
  <2>1. y \in Drain!ToSet(Append(s, x)) <=> \E i \in 1 .. Len(s) + 1 : Append(s, x)[i] = y
    BY <1>1 DEF Drain!ToSet
  <2>2. y \in Drain!ToSet(s) <=> \E i \in 1 .. Len(s) : s[i] = y
    BY <1>1 DEF Drain!ToSet
  <2>3. \A i \in 1 .. Len(s) + 1 : i \in 1 .. Len(s) \/ i = Len(s) + 1
    BY <1>1
  <2>4. Len(s) + 1 \in 1 .. Len(s) + 1 /\ \A i \in 1 .. Len(s) : i \in 1 .. Len(s) + 1
    BY <1>1
  <2> QED BY <1>1, <2>1, <2>2, <2>3, <2>4
<1> QED BY <1>1, <1>3, <1>4

\* Accounting is kept when the first packet of a stage moves on to the stage before,
LEMMA HeadMoves ==
    ASSUME NEW L \in [Stages -> Seq(Nat)], NEW K \in [Stages -> Seq(Nat)], NEW gone, NEW made,
           Accounted(L, gone, made),
           NEW a \in Stages, a + 1 \in Stages, L[a + 1] # << >>,
           K[a] = Append(L[a], Head(L[a + 1])), K[a + 1] = Tail(L[a + 1]),
           \A c \in Stages \ {a, a + 1} : K[c] = L[c]
    PROVE  Accounted(K, gone, made)
<1> DEFINE S(s) == Drain!ToSet(s)
           b == a + 1
           h == Head(L[b])
<1>1. /\ \A c \in Stages : Rising(L[c]) /\ \A x \in S(L[c]) : x \notin gone
      /\ \A c, d \in Stages : c < d => \A x \in S(L[c]), y \in S(L[d]) : x < y
      /\ \A x : x \in made <=> x \in gone \/ \E c \in Stages : x \in S(L[c])
  BY DEF Accounted
<1>2. a \in Stages /\ b \in Stages /\ a < b /\ \A c \in Stages : (c < a \/ c = a \/ c = b \/ b < c)
  BY SMTT(30) DEF Stages
<1>3. /\ h \in Nat /\ Rising(K[b]) /\ h \in S(L[b])
      /\ \A x \in S(K[b]) : h < x /\ x \in S(L[b])
      /\ \A x \in S(L[b]) : x = h \/ x \in S(K[b])
  BY <1>1, <1>2, TailOfRising
<1>4. Rising(K[a]) /\ \A y : y \in S(K[a]) <=> y \in S(L[a]) \/ y = h
  <2>1. \A y \in S(L[a]) : y < h
    BY <1>1, <1>2, <1>3
  <2> QED BY <1>1, <1>2, <1>3, <2>1, AppendToRising
<1>5. \A c \in Stages : c # a /\ c # b => K[c] = L[c]
  BY <1>2
<1> HIDE DEF S, b, h
<1>6. ASSUME NEW c \in Stages PROVE Rising(K[c]) /\ \A x \in S(K[c]) : x \notin gone
  BY <1>1, <1>2, <1>3, <1>4, <1>5
<1>7. ASSUME NEW c \in Stages, NEW d \in Stages, c < d, NEW x \in S(K[c]), NEW y \in S(K[d])
      PROVE  x < y
  <2>1. CASE c = a /\ d = b
    <3>1. h < y /\ y \in S(L[b])
      BY <1>3, <1>7, <2>1
    <3>2. x \in S(L[a]) \/ x = h
      BY <1>4, <1>7, <2>1
    <3> QED BY <1>1, <1>2, <3>1, <3>2
  <2>2. CASE c = a /\ d # b
    <3>1. b < d /\ d # a
      BY <1>2, <1>7, <2>2, SMTT(30) DEF Stages
    <3>2. y \in S(L[d]) /\ (x \in S(L[a]) \/ x = h)
      BY <1>4, <1>5, <1>7, <2>2, <3>1
    <3> QED BY <1>1, <1>2, <1>3, <1>7, <2>2, <3>1, <3>2
  <2>3. CASE c = b
    <3>1. d # a /\ d # b
      BY <1>2, <1>7, <2>3 DEF Stages
    <3> QED BY <1>1, <1>2, <1>3, <1>5, <1>7, <2>3, <3>1
  <2>4. CASE c # a /\ c # b
    <3>1. x \in S(L[c])
      BY <1>5, <1>7, <2>4
    <3>2. CASE d = a
      <4>1. c < b
        BY <1>2, <1>7, <3>2 DEF Stages
      <4> QED BY <1>1, <1>2, <1>3, <1>4, <1>7, <3>1, <3>2, <4>1
    <3>3. CASE d = b
      BY <1>1, <1>2, <1>3, <1>7, <3>1, <3>3
    <3>4. CASE d # a /\ d # b
      BY <1>1, <1>5, <1>7, <3>1, <3>4
    <3> QED BY <3>2, <3>3, <3>4
  <2> QED BY <2>1, <2>2, <2>3, <2>4
<1>8. ASSUME NEW x
      PROVE  (\E c \in Stages : x \in S(K[c])) <=> (\E c \in Stages : x \in S(L[c]))
  BY <1>2, <1>3, <1>4, <1>5
<1> QED BY <1>1, <1>6, <1>7, <1>8 DEF Accounted, S

\* when it is lost instead,
LEMMA HeadLost ==
    ASSUME NEW L \in [Stages -> Seq(Nat)], NEW K \in [Stages -> Seq(Nat)], NEW gone, NEW made,
           Accounted(L, gone, made),
           NEW b \in Stages, L[b] # << >>, K[b] = Tail(L[b]),
           \A c \in Stages \ {b} : K[c] = L[c]
    PROVE  Accounted(K, gone \cup {Head(L[b])}, made)
<1> DEFINE S(s) == Drain!ToSet(s)
           h == Head(L[b])
<1>1. /\ \A c \in Stages : Rising(L[c]) /\ \A x \in S(L[c]) : x \notin gone
      /\ \A c, d \in Stages : c < d => \A x \in S(L[c]), y \in S(L[d]) : x < y
      /\ \A x : x \in made <=> x \in gone \/ \E c \in Stages : x \in S(L[c])
  BY DEF Accounted
<1>2. \A c \in Stages : c < b \/ c = b \/ b < c
  BY DEF Stages
<1>3. /\ h \in Nat /\ Rising(K[b]) /\ h \in S(L[b])
      /\ \A x \in S(K[b]) : h < x /\ x \in S(L[b])
      /\ \A x \in S(L[b]) : x = h \/ x \in S(K[b])
  BY <1>1, TailOfRising
<1>4. \A c \in Stages : c # b => K[c] = L[c]
  OBVIOUS
<1> HIDE DEF S, h
<1>5. ASSUME NEW c \in Stages PROVE Rising(K[c]) /\ \A x \in S(K[c]) : x \in S(L[c])
  BY <1>1, <1>3, <1>4
<1>6. ASSUME NEW c \in Stages, NEW x \in S(K[c]) PROVE x \notin gone \cup {h}
  <2>1. CASE c = b
    <3>1. h < x /\ x \notin gone
      BY <1>1, <1>3, <1>5, <1>6, <2>1
    <3> QED BY <1>3, <3>1
  <2>2. CASE c # b
    <3>1. x \in S(L[c]) /\ x \notin gone
      BY <1>1, <1>5, <1>6
    <3>2. x < h \/ h < x
      BY <1>1, <1>2, <1>3, <2>2, <3>1
    <3> QED BY <1>3, <3>1, <3>2
  <2> QED BY <2>1, <2>2
<1>7. ASSUME NEW c \in Stages, NEW d \in Stages, c < d, NEW x \in S(K[c]), NEW y \in S(K[d])
      PROVE  x < y
  BY <1>1, <1>5, <1>7
<1>8. ASSUME NEW x
      PROVE  x \in made <=> x \in gone \cup {h} \/ \E c \in Stages : x \in S(K[c])
  BY <1>1, <1>3, <1>4, <1>5
<1> QED BY <1>5, <1>6, <1>7, <1>8 DEF Accounted, S, h

\* and when a packet later than all that were made comes to the end of the line.
LEMMA NewComes ==
    ASSUME NEW L \in [Stages -> Seq(Nat)], NEW K \in [Stages -> Seq(Nat)], NEW gone, NEW made,
           Accounted(L, gone, made),
           NEW x \in Nat, \A y \in made : y < x,
           NEW b \in Stages, K[b] = Append(L[b], x), \A c \in Stages \ {b} : K[c] = L[c],
           \A c \in Stages : b < c => L[c] = << >>
    PROVE  Accounted(K, gone, made \cup {x})
<1> DEFINE S(s) == Drain!ToSet(s)
<1>1. /\ \A c \in Stages : Rising(L[c]) /\ \A y \in S(L[c]) : y \notin gone
      /\ \A c, d \in Stages : c < d => \A y \in S(L[c]), z \in S(L[d]) : y < z
      /\ \A y : y \in made <=> y \in gone \/ \E c \in Stages : y \in S(L[c])
  BY DEF Accounted
<1>2. /\ \A c \in Stages : \A y \in S(L[c]) : y < x
      /\ x \notin gone
  BY <1>1
<1>3. Rising(K[b]) /\ \A y : y \in S(K[b]) <=> y \in S(L[b]) \/ y = x
  BY <1>1, <1>2, AppendToRising
<1>4. \A c \in Stages : c # b => K[c] = L[c]
  OBVIOUS
<1>5. \A c \in Stages : b < c => \A y : y \notin S(L[c])
  <2>1. \A y : y \notin S(<< >>)
    BY DEF Drain!ToSet
  <2> HIDE DEF S
  <2> QED BY <2>1
<1> HIDE DEF S
<1>6. ASSUME NEW c \in Stages PROVE Rising(K[c]) /\ \A y \in S(K[c]) : y \notin gone
  BY <1>1, <1>2, <1>3, <1>4
<1>7. ASSUME NEW c \in Stages, NEW d \in Stages, c < d, NEW y \in S(K[c]), NEW z \in S(K[d])
      PROVE  y < z
  <2>1. CASE c = b
    <3>1. d # b /\ b < d
      BY <1>7, <2>1 DEF Stages
    <3> QED BY <1>4, <1>5, <1>7, <3>1
  <2>2. CASE c # b /\ d = b
    <3>1. y \in S(L[c])
      BY <1>4, <1>7, <2>2
    <3>2. z \in S(L[b]) \/ z = x
      BY <1>3, <1>7, <2>2
    <3> QED BY <1>1, <1>2, <1>7, <2>2, <3>1, <3>2
  <2>3. CASE c # b /\ d # b
    BY <1>1, <1>4, <1>7, <2>3
  <2> QED BY <2>1, <2>2, <2>3
<1>8. ASSUME NEW y
      PROVE  y \in made \cup {x} <=> y \in gone \/ \E c \in Stages : y \in S(K[c])
  BY <1>1, <1>3, <1>4
<1> QED BY <1>6, <1>7, <1>8 DEF Accounted, S

LineShape ==
    \A k \in Drain!Streams :
        /\ Line(k) \in [Stages -> Seq(Nat)]
        /\ Line(k)[1] = file.packets[k] /\ Line(k)[2] = packets[k] /\ Line(k)[3] = held[k]
        /\ Line(k)[4] = IF k = "video" THEN Hand ELSE << >>
        /\ Line(k)[5] = IF k = "video" THEN queued ELSE << >>

\* A packet later than all that were made is lost before it comes to the line.
LEMMA NewLost ==
    ASSUME NEW L \in [Stages -> Seq(Nat)], NEW gone, NEW made, Accounted(L, gone, made),
           NEW x \in Nat, \A y \in made : y < x
    PROVE  Accounted(L, gone \cup {x}, made \cup {x})
<1> DEFINE S(s) == Drain!ToSet(s)
<1>1. /\ \A c \in Stages : Rising(L[c]) /\ \A y \in S(L[c]) : y \notin gone
      /\ \A c, d \in Stages : c < d => \A y \in S(L[c]), z \in S(L[d]) : y < z
      /\ \A y : y \in made <=> y \in gone \/ \E c \in Stages : y \in S(L[c])
  BY DEF Accounted
<1> HIDE DEF S
<1>2. \A c \in Stages : \A y \in S(L[c]) : y < x
  BY <1>1
<1>3. \A c \in Stages : \A y \in S(L[c]) : y \notin gone \cup {x}
  <2>1. ~(x < x)
    OBVIOUS
  <2> QED BY <1>1, <1>2, <2>1
<1>4. ASSUME NEW y
      PROVE  y \in made \cup {x} <=> y \in gone \cup {x} \/ \E c \in Stages : y \in S(L[c])
  BY <1>1
<1> QED BY <1>1, <1>3, <1>4 DEF Accounted, S

\* The stages of a line, one by one, now and after a step.
LEMMA LineParts == DrainTypes => LineShape
<1> USE OutputAssumption DEF Drain!RecordAssumption
<1> SUFFICES ASSUME DrainTypes, NEW k \in Drain!Streams
             PROVE  /\ Line(k) \in [Stages -> Seq(Nat)]
                    /\ Line(k)[1] = file.packets[k] /\ Line(k)[2] = packets[k] /\ Line(k)[3] = held[k]
                    /\ Line(k)[4] = IF k = "video" THEN Hand ELSE << >>
                    /\ Line(k)[5] = IF k = "video" THEN queued ELSE << >>
  BY DEF LineShape
<1>1. Drain!Packets \subseteq Nat /\ Stages = {1, 2, 3, 4, 5}
  BY DEF Drain!Packets, Stages
<1>2. ASSUME NEW s \in Seq(Drain!Packets) PROVE s \in Seq(Nat)
  <2>1. Len(s) \in Nat /\ s \in [1 .. Len(s) -> Drain!Packets]
    OBVIOUS
  <2>2. s \in [1 .. Len(s) -> Nat]
    BY <1>1, <2>1
  <2> QED BY <2>1, <2>2
<1>3. file.packets[k] \in Seq(Nat) /\ packets[k] \in Seq(Nat) /\ queued \in Seq(Nat)
  BY <1>2 DEF DrainTypes
<1>4. held[k] \in Seq(Nat)
  <2>1. held[k] \in {<< >>} \cup {<<p>> : p \in Drain!Packets}
    BY DEF DrainTypes
  <2>2. CASE held[k] = << >>
    BY <2>2
  <2>3. CASE held[k] # << >>
    <3>1. PICK p \in Drain!Packets : held[k] = <<p>>
      BY <2>1, <2>3
    <3>2. p \in Nat
      BY <1>1
    <3> QED BY <3>1, <3>2
  <2> QED BY <2>2, <2>3
<1>5. encode.frame \in Nat
  BY DEF DrainTypes
<1>6. Hand \in Seq(Nat) /\ << >> \in Seq(Nat)
  BY <1>5 DEF Hand
<1>7. /\ Line(k)[1] = file.packets[k] /\ Line(k)[2] = packets[k] /\ Line(k)[3] = held[k]
      /\ Line(k)[4] = IF k = "video" THEN Hand ELSE << >>
      /\ Line(k)[5] = IF k = "video" THEN queued ELSE << >>
  BY <1>1 DEF Line
<1>8. \A a \in Stages : Line(k)[a] \in Seq(Nat)
  BY <1>1, <1>3, <1>4, <1>6, <1>7
<1>9. Line(k) \in [Stages -> Seq(Nat)]
  BY <1>8 DEF Line
<1> QED BY <1>7, <1>9

\* The same after a step.
LEMMA LinePartsNext == DrainTypes' => LineShape'
BY LineParts, PTL

\* What an encoder held back goes to the ring, or is lost when the ring is full: the line
\* stays accounted for.
LEMMA HeldPushed ==
    ASSUME DrainTypes, NEW k \in Drain!Streams, Drain!Pushed(k, held[k]),
           Accounted(Line(k), lost[k], Drain!Made(k))
    PROVE  /\ packets' \in [Drain!Streams -> Seq(Drain!Packets)]
           /\ \A j \in Drain!Streams : Len(packets'[j]) <= PacketRing
           /\ lost' \in [Drain!Streams -> SUBSET Drain!Packets]
           /\ \A j \in Drain!Streams \ {k} : packets'[j] = packets[j] /\ lost'[j] = lost[j]
           /\ \A K \in [Stages -> Seq(Nat)] :
                 /\ K[2] = packets'[k] /\ K[3] = << >>
                 /\ \A c \in {1, 4, 5} : K[c] = Line(k)[c]
                 => Accounted(K, lost'[k], Drain!Made(k))
<1> USE OutputAssumption DEF Drain!RecordAssumption
<1>t. /\ packets \in [Drain!Streams -> Seq(Drain!Packets)]
      /\ \A j \in Drain!Streams : Len(packets[j]) <= PacketRing
      /\ lost \in [Drain!Streams -> SUBSET Drain!Packets]
  BY DEF DrainTypes
<1>l. /\ Line(k) \in [Stages -> Seq(Nat)] /\ Line(k)[2] = packets[k] /\ Line(k)[3] = held[k]
  BY LineParts DEF LineShape
<1>s. Stages = {1, 2, 3, 4, 5}
  BY DEF Stages
<1>1. CASE held[k] = << >>
  <2>1. packets' = packets /\ lost' = lost
    <3>1. packets[k] \o << >> = packets[k] /\ Len(<< >>) = 0 /\ Drain!ToSet(<< >>) = {}
      BY <1>t DEF Drain!ToSet
    <3>2. [packets EXCEPT ![k] = packets[k]] = packets /\ [lost EXCEPT ![k] = lost[k] \cup {}] = lost
      BY <1>t
    <3> QED BY <1>1, <3>1, <3>2 DEF Drain!Pushed
  <2>2. ASSUME NEW K \in [Stages -> Seq(Nat)],
               K[2] = packets'[k], K[3] = << >>, \A c \in {1, 4, 5} : K[c] = Line(k)[c]
        PROVE  Accounted(K, lost'[k], Drain!Made(k))
    <3>1. \A c \in Stages : K[c] = Line(k)[c]
      BY <1>1, <1>l, <1>s, <2>1, <2>2
    <3>2. K = Line(k)
      BY <1>l, <3>1
    <3> QED BY <2>1, <3>2
  <2> QED BY <1>t, <2>1, <2>2
<1>2. CASE held[k] # << >>
  <2>1. PICK p \in Drain!Packets : held[k] = <<p>>
    BY <1>2 DEF DrainTypes
  <2>2. /\ packets[k] \in Seq(Drain!Packets) /\ packets[k] \o <<p>> = Append(packets[k], p)
        /\ Append(packets[k], p) \in Seq(Drain!Packets) /\ Len(packets[k]) \in Nat
        /\ Len(Append(packets[k], p)) = Len(packets[k]) + 1
        /\ Len(<<p>>) = 1 /\ Head(<<p>>) = p /\ Tail(<<p>>) = << >>
    BY <1>t
  <2>3. Drain!ToSet(<<p>>) = {p}
    BY DEF Drain!ToSet
  <2>4. CASE Len(packets[k]) + 1 <= PacketRing
    <3>1. packets' = [packets EXCEPT ![k] = Append(packets[k], p)] /\ lost' = lost
      BY <2>1, <2>2, <2>4 DEF Drain!Pushed
    <3>2. ASSUME NEW K \in [Stages -> Seq(Nat)],
                 K[2] = packets'[k], K[3] = << >>, \A c \in {1, 4, 5} : K[c] = Line(k)[c]
          PROVE  Accounted(K, lost'[k], Drain!Made(k))
      <4>1. K[2] = Append(Line(k)[2], Head(Line(k)[3])) /\ K[3] = Tail(Line(k)[3])
            /\ Line(k)[3] # << >>
        <5>1. packets'[k] = Append(packets[k], p)
          BY <1>t, <3>1
        <5>2. Line(k)[3] = <<p>> /\ <<p>> # << >>
          BY <1>l, <2>1
        <5> QED BY <1>l, <2>2, <3>2, <5>1, <5>2
      <4>2. \A c \in Stages \ {2, 2 + 1} : K[c] = Line(k)[c]
        BY <1>s, <3>2
      <4>3. 2 \in Stages /\ 2 + 1 \in Stages /\ 2 + 1 = 3
        BY <1>s
      <4> QED BY <1>l, <3>1, <4>1, <4>2, <4>3, HeadMoves
    <3>3. \A j \in Drain!Streams : Len(packets'[j]) <= PacketRing
      BY <1>t, <2>2, <2>4, <3>1
    <3> QED BY <1>t, <2>2, <3>1, <3>2, <3>3
  <2>5. CASE ~(Len(packets[k]) + 1 <= PacketRing)
    <3>1. packets' = packets /\ lost' = [lost EXCEPT ![k] = lost[k] \cup {p}]
      BY <2>1, <2>2, <2>3, <2>5 DEF Drain!Pushed
    <3>2. ASSUME NEW K \in [Stages -> Seq(Nat)],
                 K[2] = packets'[k], K[3] = << >>, \A c \in {1, 4, 5} : K[c] = Line(k)[c]
          PROVE  Accounted(K, lost'[k], Drain!Made(k))
      <4>1. K[3] = Tail(Line(k)[3]) /\ Line(k)[3] # << >> /\ Head(Line(k)[3]) = p
        BY <1>l, <2>1, <2>2, <3>2
      <4>2. \A c \in Stages \ {3} : K[c] = Line(k)[c]
        BY <1>s, <1>l, <3>1, <3>2
      <4>3. 3 \in Stages /\ lost'[k] = lost[k] \cup {p}
        BY <1>s, <1>t, <3>1
      <4>4. Accounted(K, lost[k] \cup {Head(Line(k)[3])}, Drain!Made(k))
        BY <1>l, <4>1, <4>2, <4>3, HeadLost
      <4> QED BY <4>1, <4>3, <4>4
    <3> QED BY <1>t, <3>1, <3>2
  <2> QED BY <2>4, <2>5
<1> QED BY <1>1, <1>2

\* A line nothing happens to stays accounted for.
LEMMA LineKept ==
    ASSUME DrainTypes, DrainTypes', NEW k \in Drain!Streams,
           Accounted(Line(k), lost[k], Drain!Made(k)),
           file'.packets[k] = file.packets[k], packets'[k] = packets[k], held'[k] = held[k],
           k = "video" => Hand' = Hand /\ queued' = queued,
           lost'[k] = lost[k], Drain!Made(k)' = Drain!Made(k)
    PROVE  Accounted(Line(k), lost[k], Drain!Made(k))'
<1>1. /\ Line(k) \in [Stages -> Seq(Nat)] /\ Line(k)' \in [Stages -> Seq(Nat)]
      /\ Line(k)[1] = file.packets[k] /\ Line(k)[2] = packets[k] /\ Line(k)[3] = held[k]
      /\ Line(k)[4] = IF k = "video" THEN Hand ELSE << >>
      /\ Line(k)[5] = IF k = "video" THEN queued ELSE << >>
  BY LineParts, LinePartsNext DEF LineShape
<1>2. /\ Line(k)'[1] = file'.packets[k] /\ Line(k)'[2] = packets'[k] /\ Line(k)'[3] = held'[k]
      /\ Line(k)'[4] = IF k = "video" THEN Hand' ELSE << >>
      /\ Line(k)'[5] = IF k = "video" THEN queued' ELSE << >>
  BY LinePartsNext DEF LineShape
<1>3. \A a \in Stages : Line(k)'[a] = Line(k)[a]
  <2>1. Stages = {1, 2, 3, 4, 5}
    BY DEF Stages
  <2> QED BY <1>1, <1>2, <2>1
<1>4. Line(k)' = Line(k)
  BY <1>1, <1>3
<1> QED BY <1>4

\* A chunk completes an AAC frame, or does not.
LEMMA AacFrames ==
    ASSUME NEW c \in Nat, NEW A \in Nat \ {0}
    PROVE  /\ c \div A \in Nat /\ (c + 1) \div A \in Nat /\ (c + 1) \div A <= c + 1
           /\ (c + 1) \div A = IF (c + 1) % A = 0 THEN c \div A + 1 ELSE c \div A
<1> DEFINE q == c \div A
           r == c % A
           u == (c + 1) \div A
           v == (c + 1) % A
<1>1. q \in Int /\ u \in Int /\ r \in 0 .. A - 1 /\ v \in 0 .. A - 1 /\ q >= 0 /\ u >= 0
  OBVIOUS
<1>2. r = c - A * q /\ v = (c + 1) - A * u
  OBVIOUS
<1> HIDE DEF q, r, u, v
<1>3. A * (u - q) = 1 + r - v
  BY <1>1, <1>2
<1>4. u <= c + 1
  <2>1. A * u <= c + 1
    BY <1>1, <1>2
  <2>2. u <= A * u
    BY <1>1
  <2> QED BY <1>1, <2>1, <2>2
<1>5. ASSUME u - q >= 2 PROVE FALSE
  <2>1. A * (u - q) >= 2 * A
    BY <1>1, <1>5
  <2> QED BY <1>1, <1>3, <2>1
<1>6. ASSUME u - q <= -1 PROVE FALSE
  <2>1. A * (u - q) <= -A
    BY <1>1, <1>6
  <2> QED BY <1>1, <1>3, <2>1
<1>7. u = q \/ u = q + 1
  BY <1>1, <1>5, <1>6
<1>8. u = q => v # 0
  BY <1>1, <1>3
<1>9. u = q + 1 => v = 0
  BY <1>1, <1>3
<1>10. u = IF v = 0 THEN q + 1 ELSE q
  BY <1>7, <1>8, <1>9
<1> QED BY <1>1, <1>4, <1>10 DEF q, r, u, v

\* At the start nothing was made and nothing is lost.
LEMMA DrainInit == Drain!Init => DrainInv
<1> USE OutputAssumption DEF Drain!RecordAssumption
<1> SUFFICES ASSUME Drain!Init PROVE DrainInv
  OBVIOUS
<1>1. /\ queued = << >> /\ frames = 0 /\ chunks = 0 /\ done = {} /\ never = {}
      /\ encode = [step |-> "pop", frame |-> 0] /\ mux = "run" /\ dtor = "none" /\ failures = 0
      /\ held = Drain!Nothing /\ packets = Drain!Nothing
      /\ file = [packets |-> Drain!Nothing, trailer |-> FALSE]
      /\ lost = [k \in Drain!Streams |-> {}]
  BY DEF Drain!Init
<1>2. /\ \A k \in Drain!Streams : Drain!Nothing[k] = << >>
      /\ Drain!Nothing \in [Drain!Streams -> Seq(Drain!Packets)]
      /\ Drain!Nothing \in [Drain!Streams -> {<< >>} \cup {<<p>> : p \in Drain!Packets}]
  BY DEF Drain!Nothing
<1>3. DrainTypes
  BY <1>1, <1>2 DEF DrainTypes
<1>4. GpuInv /\ EndInv
  BY <1>1 DEF GpuInv, EndInv
<1>5. ASSUME NEW k \in Drain!Streams PROVE Accounted(Line(k), lost[k], Drain!Made(k))
  <2>1. \A a \in Stages : Line(k)[a] = << >>
    <3>1. Stages = {1, 2, 3, 4, 5} /\ Hand = << >>
      BY <1>1 DEF Stages, Hand
    <3> QED BY <1>1, <1>2, <1>3, <3>1, LineParts DEF LineShape
  <2>2. \A a \in Stages : Rising(Line(k)[a]) /\ Drain!ToSet(Line(k)[a]) = {}
    BY <2>1 DEF Rising, Drain!ToSet
  <2>3. Drain!Made(k) = {} /\ lost[k] = {}
    <3>1. 0 \div AacFrame = 0
      OBVIOUS
    <3> QED BY <1>1, <3>1 DEF Drain!Made
  <2> QED BY <2>2, <2>3 DEF Accounted
<1> QED BY <1>3, <1>4, <1>5 DEF DrainInv, LineInv

\* The types are kept, by the packets given out of an encoder too.
LEMMA DrainTypesStep == DrainInv /\ Drain!Next => DrainTypes'
<1> USE OutputAssumption DEF Drain!RecordAssumption
<1> SUFFICES ASSUME DrainInv, Drain!Next PROVE DrainTypes'
  OBVIOUS
<1>i. DrainTypes /\ GpuInv /\ EndInv /\ LineInv
  BY DEF DrainInv
<1>t. /\ queued \in Seq(Drain!Packets) /\ frames \in 0 .. MaxFrames /\ chunks \in 0 .. MaxFrames
      /\ encode \in [step : {"pop", "wait", "drain", "ended"}, frame : 0 .. MaxFrames]
      /\ encode.step = "wait" => encode.frame # 0
      /\ held \in [Drain!Streams -> {<< >>} \cup {<<p>> : p \in Drain!Packets}]
      /\ packets \in [Drain!Streams -> Seq(Drain!Packets)]
      /\ \A k \in Drain!Streams : Len(packets[k]) <= PacketRing
      /\ file \in [packets : [Drain!Streams -> Seq(Drain!Packets)], trailer : BOOLEAN]
      /\ lost \in [Drain!Streams -> SUBSET Drain!Packets]
      /\ mux \in {"run", "closed"} /\ dtor \in {"none", "joinEncode", "joinMux", "gone"}
      /\ failures \in 0 .. MaxFailures
  BY <1>i, Zenon DEF DrainTypes
<1>s. "video" \in Drain!Streams /\ "audio" \in Drain!Streams
  BY DEF Drain!Streams
<1>p. \A k \in Drain!Streams : Drain!Pushed(k, held[k]) =>
         /\ packets' \in [Drain!Streams -> Seq(Drain!Packets)]
         /\ \A j \in Drain!Streams : Len(packets'[j]) <= PacketRing
         /\ lost' \in [Drain!Streams -> SUBSET Drain!Packets]
  BY <1>i, HeldPushed DEF LineInv
<1>f. Drain!Fault => failures' \in 0 .. MaxFailures
  BY <1>t DEF Drain!Fault
<1>h. ASSUME NEW k \in Drain!Streams, NEW p \in Drain!Packets
      PROVE  /\ [held EXCEPT ![k] = <<p>>] \in [Drain!Streams -> {<< >>} \cup {<<x>> : x \in Drain!Packets}]
             /\ [held EXCEPT ![k] = << >>] \in [Drain!Streams -> {<< >>} \cup {<<x>> : x \in Drain!Packets}]
  BY <1>t
<1>1. CASE Drain!PushEvent
  <2>1. queued' \in Seq(Drain!Packets) /\ frames' \in 0 .. MaxFrames
    BY <1>1, <1>t DEF Drain!PushEvent, Drain!Packets
  <2>2. failures' \in 0 .. MaxFailures
    BY <1>1, <1>t, <1>f DEF Drain!PushEvent
  <2>3. UNCHANGED <<chunks, encode, held, packets, mux, file, lost, dtor>>
    BY <1>1 DEF Drain!PushEvent
  <2> QED BY <1>t, <2>1, <2>2, <2>3 DEF DrainTypes
<1>2. CASE Drain!GpuFinishes
  <2>1. UNCHANGED <<queued, frames, chunks, encode, held, packets, mux, file, lost, dtor, failures>>
    BY <1>2 DEF Drain!GpuFinishes
  <2> QED BY <1>t, <2>1 DEF DrainTypes
<1>3. CASE Drain!PushAudio
  <2>1. chunks' = chunks + 1 /\ chunks' \in 0 .. MaxFrames
        /\ UNCHANGED <<queued, frames, encode, mux, file, dtor>>
    BY <1>3, <1>t DEF Drain!PushAudio
  <2>2. CASE chunks' % AacFrame # 0
    <3>1. UNCHANGED <<held, packets, lost, failures>>
      BY <1>3, <2>2 DEF Drain!PushAudio
    <3> QED BY <1>t, <2>1, <3>1 DEF DrainTypes
  <2>3. CASE chunks' % AacFrame = 0
    <3> DEFINE p == chunks' \div AacFrame
    <3>1. p \in Drain!Packets
      <4>1. chunks \in Nat /\ MaxFrames \in Nat /\ AacFrame \in Nat \ {0}
        BY <1>t
      <4>2. p = chunks \div AacFrame + 1 /\ p <= chunks + 1 /\ chunks \div AacFrame \in Nat
        BY <2>1, <2>3, <4>1, AacFrames
      <4> HIDE DEF p
      <4> QED BY <2>1, <4>1, <4>2 DEF Drain!Packets
    <3>2. \/ /\ held' = [held EXCEPT !["audio"] = <<p>>]
             /\ Drain!Pushed("audio", held["audio"]) /\ failures' = failures
          \/ /\ held' = [held EXCEPT !["audio"] = <<p>>] /\ Drain!Fault /\ packets' = packets
             /\ lost' = [lost EXCEPT !["audio"] = lost["audio"] \cup Drain!ToSet(held["audio"])]
          \/ /\ Drain!Fault /\ lost' = [lost EXCEPT !["audio"] = lost["audio"] \cup {p}]
             /\ UNCHANGED <<held, packets>>
      BY <1>3, <2>3 DEF Drain!PushAudio, Drain!GivenOut, Drain!Holding
    <3> HIDE DEF p
    <3>3. [held EXCEPT !["audio"] = <<p>>] \in [Drain!Streams -> {<< >>} \cup {<<x>> : x \in Drain!Packets}]
      BY <1>h, <1>s, <3>1
    <3>4. CASE /\ held' = [held EXCEPT !["audio"] = <<p>>]
               /\ Drain!Pushed("audio", held["audio"]) /\ failures' = failures
      BY <1>t, <1>p, <1>s, <2>1, <3>3, <3>4 DEF DrainTypes
    <3>5. CASE /\ held' = [held EXCEPT !["audio"] = <<p>>] /\ Drain!Fault /\ packets' = packets
               /\ lost' = [lost EXCEPT !["audio"] = lost["audio"] \cup Drain!ToSet(held["audio"])]
      <4>1. Drain!ToSet(held["audio"]) \subseteq Drain!Packets
        <5>1. held["audio"] \in {<< >>} \cup {<<x>> : x \in Drain!Packets}
          BY <1>t, <1>s
        <5>2. CASE held["audio"] = << >>
          BY <5>2 DEF Drain!ToSet
        <5>3. ASSUME NEW x \in Drain!Packets, held["audio"] = <<x>>
              PROVE  Drain!ToSet(held["audio"]) \subseteq Drain!Packets
          <6>1. Drain!ToSet(<<x>>) = {x}
            BY DEF Drain!ToSet
          <6> QED BY <5>3, <6>1
        <5> QED BY <5>1, <5>2, <5>3
      <4>2. lost' \in [Drain!Streams -> SUBSET Drain!Packets]
        BY <1>t, <1>s, <3>5, <4>1
      <4> QED BY <1>t, <1>f, <2>1, <3>3, <3>5, <4>2 DEF DrainTypes
    <3>6. CASE /\ Drain!Fault /\ lost' = [lost EXCEPT !["audio"] = lost["audio"] \cup {p}]
               /\ UNCHANGED <<held, packets>>
      <4>1. lost' \in [Drain!Streams -> SUBSET Drain!Packets]
        BY <1>t, <1>s, <3>1, <3>6
      <4> QED BY <1>t, <1>f, <2>1, <3>6, <4>1 DEF DrainTypes
    <3> QED BY <3>2, <3>4, <3>5, <3>6
  <2> QED BY <2>2, <2>3
<1>4. CASE Drain!Pop
  <2>1. UNCHANGED <<frames, chunks, held, packets, mux, file, lost, dtor, failures>>
    BY <1>4 DEF Drain!Pop
  <2>2. CASE queued # << >>
    <3>1. Head(queued) \in Drain!Packets /\ Tail(queued) \in Seq(Drain!Packets)
      BY <1>t, <2>2
    <3>2. encode' = [step |-> "wait", frame |-> Head(queued)] /\ queued' = Tail(queued)
      BY <1>4, <2>2 DEF Drain!Pop
    <3>3. /\ encode' \in [step : {"pop", "wait", "drain", "ended"}, frame : 0 .. MaxFrames]
          /\ encode'.frame # 0
      BY <3>1, <3>2 DEF Drain!Packets
    <3> QED BY <1>t, <2>1, <3>1, <3>2, <3>3 DEF DrainTypes
  <2>3. CASE queued = << >>
    <3>1. encode' = [step |-> "drain", frame |-> 0] /\ queued' = queued
      BY <1>4, <2>3 DEF Drain!Pop
    <3>2. /\ encode' \in [step : {"pop", "wait", "drain", "ended"}, frame : 0 .. MaxFrames]
          /\ encode'.step # "wait"
      BY <3>1
    <3> QED BY <1>t, <2>1, <3>1, <3>2 DEF DrainTypes
  <2> QED BY <2>2, <2>3
<1>w. encode.step = "wait" => encode.frame \in Drain!Packets
  BY <1>t DEF Drain!Packets
<1>e. ASSUME NEW st \in {"pop", "ended"}, encode' = [step |-> st, frame |-> 0]
      PROVE  /\ encode' \in [step : {"pop", "wait", "drain", "ended"}, frame : 0 .. MaxFrames]
             /\ encode'.step # "wait"
  BY <1>e
<1>5. CASE Drain!Encode
  <2>1. /\ encode' = [step |-> "pop", frame |-> 0] /\ encode.step = "wait"
        /\ UNCHANGED <<queued, frames, chunks, mux, file, dtor>>
    BY <1>5 DEF Drain!Encode
  <2>2. CASE /\ Drain!Pushed("video", held["video"])
             /\ held' = [held EXCEPT !["video"] = <<encode.frame>>] /\ failures' = failures
    <3>1. held' \in [Drain!Streams -> {<< >>} \cup {<<x>> : x \in Drain!Packets}]
      BY <1>h, <1>s, <1>w, <2>1, <2>2
    <3> QED BY <1>t, <1>p, <1>s, <1>e, <2>1, <2>2, <3>1 DEF DrainTypes
  <2>3. CASE /\ Drain!Fault /\ lost' = [lost EXCEPT !["video"] = lost["video"] \cup {encode.frame}]
             /\ UNCHANGED <<held, packets>>
    <3>1. lost' \in [Drain!Streams -> SUBSET Drain!Packets]
      BY <1>t, <1>s, <1>w, <2>1, <2>3
    <3> QED BY <1>t, <1>e, <1>f, <2>1, <2>3, <3>1 DEF DrainTypes
  <2> QED BY <1>5, <2>2, <2>3 DEF Drain!Encode, Drain!GivenOut, Drain!Holding
<1>6. CASE Drain!Abandon
  <2>1. /\ encode' = [step |-> "pop", frame |-> 0] /\ encode.step = "wait"
        /\ lost' = [lost EXCEPT !["video"] = lost["video"] \cup {encode.frame}]
        /\ UNCHANGED <<queued, frames, chunks, held, packets, mux, file, dtor>>
        /\ failures' = failures \/ Drain!Fault
    BY <1>6 DEF Drain!Abandon
  <2>2. lost' \in [Drain!Streams -> SUBSET Drain!Packets]
    BY <1>t, <1>s, <1>w, <2>1
  <2>3. failures' \in 0 .. MaxFailures
    BY <1>f, <1>t, <2>1
  <2> QED BY <1>t, <1>e, <2>1, <2>2, <2>3 DEF DrainTypes
<1>7. CASE Drain!Drain
  <2>1. /\ encode' = [step |-> "ended", frame |-> 0] /\ Drain!Pushed("video", held["video"])
        /\ held' = [held EXCEPT !["video"] = << >>]
        /\ UNCHANGED <<queued, frames, chunks, mux, file, dtor, failures>>
    BY <1>7 DEF Drain!Drain
  <2>2. held' \in [Drain!Streams -> {<< >>} \cup {<<x>> : x \in Drain!Packets}]
    BY <1>t, <2>1
  <2> QED BY <1>t, <1>p, <1>s, <1>e, <2>1, <2>2 DEF DrainTypes
<1>8. CASE Drain!Write
  <2>1. PICK k \in Drain!Streams :
          /\ packets[k] # << >> /\ packets' = [packets EXCEPT ![k] = Tail(packets[k])]
          /\ \/ /\ file' = [file EXCEPT !.packets[k] = Append(file.packets[k], Head(packets[k]))]
                /\ UNCHANGED <<lost, failures>>
             \/ /\ Drain!Fault /\ lost' = [lost EXCEPT ![k] = lost[k] \cup {Head(packets[k])}]
                /\ UNCHANGED file
    BY <1>8 DEF Drain!Write
  <2>2. /\ Head(packets[k]) \in Drain!Packets /\ Tail(packets[k]) \in Seq(Drain!Packets)
        /\ Len(Tail(packets[k])) <= PacketRing
    <3>1. packets[k] \in Seq(Drain!Packets) /\ packets[k] # << >> /\ Len(packets[k]) <= PacketRing
      BY <1>t, <2>1
    <3> QED BY <3>1
  <2>3. /\ packets' \in [Drain!Streams -> Seq(Drain!Packets)]
        /\ \A j \in Drain!Streams : Len(packets'[j]) <= PacketRing
    BY <1>t, <2>1, <2>2
  <2>4. file' \in [packets : [Drain!Streams -> Seq(Drain!Packets)], trailer : BOOLEAN]
    <3>1. /\ file.packets \in [Drain!Streams -> Seq(Drain!Packets)]
          /\ Append(file.packets[k], Head(packets[k])) \in Seq(Drain!Packets)
      BY <1>t, <2>2
    <3>2. [file EXCEPT !.packets[k] = Append(file.packets[k], Head(packets[k]))]
            \in [packets : [Drain!Streams -> Seq(Drain!Packets)], trailer : BOOLEAN]
      BY <1>t, <3>1
    <3> QED BY <1>t, <2>1, <3>2, Zenon
  <2>5. lost' \in [Drain!Streams -> SUBSET Drain!Packets]
    <3>1. [lost EXCEPT ![k] = lost[k] \cup {Head(packets[k])}]
            \in [Drain!Streams -> SUBSET Drain!Packets]
      BY <1>t, <2>2
    <3> QED BY <1>t, <2>1, <3>1, Zenon
  <2>6. failures' \in 0 .. MaxFailures
    BY <1>t, <1>f, <2>1
  <2>7. UNCHANGED <<queued, frames, chunks, encode, held, mux, dtor>>
    BY <1>8 DEF Drain!Write
  <2> QED BY <1>t, <2>3, <2>4, <2>5, <2>6, <2>7 DEF DrainTypes
<1>9. CASE Drain!CloseMux
  <2>1. /\ mux' = "closed" /\ file' = [file EXCEPT !.trailer = TRUE]
        /\ UNCHANGED <<queued, frames, chunks, encode, held, packets, lost, dtor, failures>>
    BY <1>9 DEF Drain!CloseMux
  <2>2. file' \in [packets : [Drain!Streams -> Seq(Drain!Packets)], trailer : BOOLEAN]
    BY <1>t, <2>1
  <2> QED BY <1>t, <2>1, <2>2 DEF DrainTypes
<1>10. CASE Drain!Destroy
  <2>1. /\ dtor' = "joinEncode"
        /\ UNCHANGED <<queued, frames, chunks, encode, held, packets, mux, file, lost, failures>>
    BY <1>10 DEF Drain!Destroy
  <2> QED BY <1>t, <2>1 DEF DrainTypes
<1>11. CASE Drain!DrainAudio
  <2>1. /\ dtor' = "joinMux" /\ Drain!Pushed("audio", held["audio"])
        /\ held' = [held EXCEPT !["audio"] = << >>]
        /\ UNCHANGED <<queued, frames, chunks, encode, mux, file, failures>>
    BY <1>11 DEF Drain!DrainAudio
  <2>2. held' \in [Drain!Streams -> {<< >>} \cup {<<x>> : x \in Drain!Packets}]
    BY <1>t, <2>1
  <2> QED BY <1>t, <1>p, <1>s, <2>1, <2>2 DEF DrainTypes
<1>12. CASE Drain!Destroyed
  <2>1. /\ dtor' = "gone" /\ packets' = Drain!Nothing
        /\ UNCHANGED <<queued, frames, chunks, encode, held, mux, file, lost, failures>>
    BY <1>12 DEF Drain!Destroyed
  <2>2. /\ packets' \in [Drain!Streams -> Seq(Drain!Packets)]
        /\ \A j \in Drain!Streams : Len(packets'[j]) <= PacketRing
    BY <2>1 DEF Drain!Nothing
  <2> QED BY <1>t, <2>1, <2>2 DEF DrainTypes
<1> QED
  BY <1>1, <1>2, <1>3, <1>4, <1>5, <1>6, <1>7, <1>8, <1>9, <1>10, <1>11, <1>12
  DEF Drain!Next, Drain!Encoder, Drain!Writer

\* The GPU finishes the first frame it still can.
LEMMA GpuStep == DrainInv /\ Drain!Next => GpuInv'
<1> SUFFICES ASSUME DrainInv, Drain!Next PROVE GpuInv'
  OBVIOUS
<1>i. GpuInv /\ frames \in Nat
  BY OutputAssumption DEF DrainInv, DrainTypes, Drain!RecordAssumption
<1>1. CASE Drain!PushEvent
  <2>1. /\ frames' = frames + 1 /\ done' = done
        /\ never' = never \/ never' = never \cup {frames + 1}
    BY <1>1 DEF Drain!PushEvent
  <2>2. \A x \in done \cup never : x \in 1 .. frames
    BY <1>i DEF GpuInv
  <2>3. frames + 1 \notin done /\ frames + 1 \in 1 .. frames' /\ \A x \in 1 .. frames : x \in 1 .. frames'
    BY <1>i, <2>1, <2>2
  <2>4. done' \cap never' = {}
    BY <1>i, <2>1, <2>3 DEF GpuInv
  <2>5. done' \cup never' \subseteq 1 .. frames'
    BY <2>1, <2>2, <2>3
  <2> QED BY <2>4, <2>5 DEF GpuInv
<1>2. CASE Drain!GpuFinishes
  <2> DEFINE T == (1 .. frames) \ (never \cup done)
             x == CHOOSE f \in T : \A g \in T : f <= g
  <2>1. done # (1 .. frames) \ never /\ done' = done \cup {x} /\ UNCHANGED <<frames, never>>
    BY <1>2 DEF Drain!GpuFinishes
  <2>2. T # {} /\ T \subseteq Nat
    BY <1>i, <2>1 DEF GpuInv
  <2>3. x \in T
    <3> HIDE DEF T
    <3> DEFINE itself == [f \in T |-> f]
    <3>1. itself \in [T -> Nat] /\ \A f \in T : itself[f] = f
      BY <2>2
    <3> HIDE DEF itself
    <3>2. \E f \in T : \A g \in T : itself[f] <= itself[g]
      BY <2>2, <3>1, LeastRank
    <3>3. \E f \in T : \A g \in T : f <= g
      BY <3>1, <3>2
    <3> QED BY <3>3
  <2> HIDE DEF x
  <2> QED BY <1>i, <2>1, <2>3 DEF GpuInv
<1>3. CASE UNCHANGED <<frames, done, never>>
  BY <1>i, <1>3 DEF GpuInv
<1>4. Drain!PushEvent \/ Drain!GpuFinishes \/ UNCHANGED <<frames, done, never>>
  BY Zenon DEF Drain!Next, Drain!Encoder, Drain!Writer, Drain!PushAudio, Drain!Pop, Drain!Encode,
     Drain!Abandon, Drain!Drain, Drain!Write, Drain!CloseMux, Drain!Destroy, Drain!DrainAudio,
     Drain!Destroyed
<1> QED BY <1>1, <1>2, <1>3, <1>4

\* The destructor and the two threads end in the order the code has them end.
LEMMA EndStep == DrainInv /\ Drain!Next => EndInv'
<1> SUFFICES ASSUME DrainInv, Drain!Next PROVE EndInv'
  OBVIOUS
<1>i. EndInv /\ "audio" # "video" /\ "audio" \in Drain!Streams /\ "video" \in Drain!Streams
      /\ held \in [Drain!Streams -> {<< >>} \cup {<<p>> : p \in Drain!Packets}]
      /\ file \in [packets : [Drain!Streams -> Seq(Drain!Packets)], trailer : BOOLEAN]
  BY DEF DrainInv, DrainTypes, Drain!Streams
<1>1. CASE Drain!PushEvent \/ Drain!PushAudio
  <2>1. dtor = "none" /\ UNCHANGED <<encode, mux, dtor>>
    BY <1>1 DEF Drain!PushEvent, Drain!PushAudio, Drain!Accepting
  <2> QED BY <1>i, <2>1 DEF EndInv
<1>2. CASE Drain!GpuFinishes
  <2>1. UNCHANGED <<queued, encode, held, packets, mux, file, dtor>>
    BY <1>2 DEF Drain!GpuFinishes
  <2> QED BY <1>i, <2>1 DEF EndInv
<1>3. CASE Drain!Pop
  <2>1. /\ encode.step = "pop" /\ UNCHANGED <<held, packets, mux, file, dtor>>
        /\ \/ encode'.step = "wait"
           \/ encode'.step = "drain" /\ dtor # "none" /\ queued' = << >>
    BY <1>3 DEF Drain!Pop, Drain!Stopped
  <2> QED BY <1>i, <2>1 DEF EndInv
<1>4. CASE Drain!Encode \/ Drain!Abandon
  <2>1. encode.step = "wait" /\ encode'.step = "pop" /\ UNCHANGED <<mux, dtor>>
    BY <1>4 DEF Drain!Encode, Drain!Abandon
  <2> QED BY <1>i, <2>1 DEF EndInv
<1>5. CASE Drain!Drain
  <2>1. /\ encode.step = "drain" /\ encode'.step = "ended" /\ held'["video"] = << >>
        /\ UNCHANGED <<queued, mux, dtor>>
    BY <1>5, <1>i DEF Drain!Drain
  <2> QED BY <1>i, <2>1 DEF EndInv
<1>6. CASE Drain!Write
  <2>1. mux = "run" /\ UNCHANGED <<queued, encode, held, mux, dtor>>
    BY <1>6 DEF Drain!Write
  <2> QED BY <1>i, <2>1 DEF EndInv
<1>7. CASE Drain!CloseMux
  <2>1. /\ dtor = "joinMux" /\ packets = Drain!Nothing /\ mux' = "closed" /\ file'.trailer
        /\ UNCHANGED <<queued, encode, held, packets, dtor>>
    BY <1>7, <1>i DEF Drain!CloseMux, Drain!MayLeave
  <2>2. Drain!Nothing' = Drain!Nothing
    BY DEF Drain!Nothing
  <2> QED BY <1>i, <2>1, <2>2 DEF EndInv
<1>8. CASE Drain!Destroy
  <2>1. /\ dtor = "none" /\ dtor' = "joinEncode"
        /\ UNCHANGED <<queued, encode, held, packets, mux, file>>
    BY <1>8 DEF Drain!Destroy
  <2> QED BY <1>i, <2>1 DEF EndInv
<1>9. CASE Drain!DrainAudio
  <2>1. /\ dtor = "joinEncode" /\ dtor' = "joinMux" /\ encode.step = "ended"
        /\ held' = [held EXCEPT !["audio"] = << >>] /\ UNCHANGED <<queued, encode, mux, file>>
    BY <1>9 DEF Drain!DrainAudio
  <2>2. held'["audio"] = << >> /\ held'["video"] = held["video"]
    BY <1>i, <2>1
  <2> QED BY <1>i, <2>1, <2>2 DEF EndInv
<1>10. CASE Drain!Destroyed
  <2>1. /\ dtor = "joinMux" /\ mux = "closed" /\ dtor' = "gone" /\ packets' = Drain!Nothing
        /\ UNCHANGED <<queued, encode, held, mux, file>>
    BY <1>10 DEF Drain!Destroyed
  <2> QED BY <1>i, <2>1 DEF EndInv
<1> QED
  BY <1>1, <1>2, <1>3, <1>4, <1>5, <1>6, <1>7, <1>8, <1>9, <1>10
  DEF Drain!Next, Drain!Encoder, Drain!Writer

\* Every step leaves every packet accounted for.
LEMMA LineStep == DrainInv /\ Drain!Next => LineInv'
<1> USE OutputAssumption DEF Drain!RecordAssumption
<1> SUFFICES ASSUME DrainInv, Drain!Next PROVE LineInv'
  OBVIOUS
<1>i. DrainTypes /\ DrainTypes' /\ EndInv
  BY DrainTypesStep DEF DrainInv
<1>t. /\ queued \in Seq(Drain!Packets) /\ frames \in Nat /\ chunks \in Nat
      /\ encode.step = "wait" => encode.frame # 0
      /\ held \in [Drain!Streams -> {<< >>} \cup {<<p>> : p \in Drain!Packets}]
      /\ packets \in [Drain!Streams -> Seq(Drain!Packets)]
      /\ file \in [packets : [Drain!Streams -> Seq(Drain!Packets)], trailer : BOOLEAN]
      /\ lost \in [Drain!Streams -> SUBSET Drain!Packets]
  BY <1>i DEF DrainTypes
<1>s. /\ Drain!Streams = {"video", "audio"} /\ "video" \in Drain!Streams /\ "audio" \in Drain!Streams
      /\ Stages = {1, 2, 3, 4, 5}
  BY DEF Drain!Streams, Stages
<1>a. \A k \in Drain!Streams : Accounted(Line(k), lost[k], Drain!Made(k))
  BY DEF DrainInv, LineInv
<1>l. LineShape /\ LineShape'
  BY <1>i, LineParts, LinePartsNext
<1>m. ASSUME UNCHANGED <<frames, chunks>>, NEW k \in Drain!Streams
      PROVE  Drain!Made(k)' = Drain!Made(k)
  BY <1>m DEF Drain!Made
\* It suffices to look at the stream something happens to.
<1>k. ASSUME NEW k \in Drain!Streams, NEW j \in Drain!Streams, j # k,
             file'.packets[j] = file.packets[j], packets'[j] = packets[j], held'[j] = held[j],
             j = "video" => Hand' = Hand /\ queued' = queued,
             lost'[j] = lost[j], Drain!Made(j)' = Drain!Made(j),
             Accounted(Line(k), lost[k], Drain!Made(k))'
      PROVE  LineInv'
  <2>1. Accounted(Line(j), lost[j], Drain!Made(j))'
    BY <1>i, <1>a, <1>k, LineKept
  <2>2. \A i \in Drain!Streams : i = j \/ i = k
    BY <1>s, <1>k
  <2> QED BY <1>k, <2>1, <2>2 DEF LineInv
<1>0. ASSUME UNCHANGED <<frames, chunks, held, lost, Hand, queued>>,
             file'.packets = file.packets, packets' = packets
      PROVE  LineInv'
  <2> SUFFICES ASSUME NEW k \in Drain!Streams
               PROVE  Accounted(Line(k), lost[k], Drain!Made(k))'
    BY DEF LineInv
  <2> QED BY <1>0, <1>i, <1>a, <1>m, LineKept
<1>1. CASE Drain!PushEvent
  <2>1. /\ frames' = frames + 1 /\ queued' = Append(queued, frames + 1)
        /\ UNCHANGED <<chunks, encode, held, packets, file, lost>>
    BY <1>1 DEF Drain!PushEvent
  <2> DEFINE L == Line("video")
             K == Line("video")'
  <2>2. /\ L \in [Stages -> Seq(Nat)] /\ K \in [Stages -> Seq(Nat)]
        /\ K[5] = Append(L[5], frames + 1) /\ \A c \in Stages \ {5} : K[c] = L[c]
    <3>1. Hand' = Hand
      BY <2>1 DEF Hand
    <3>2. /\ L \in [Stages -> Seq(Nat)] /\ K \in [Stages -> Seq(Nat)]
          /\ K[1] = L[1] /\ K[2] = L[2] /\ K[3] = L[3] /\ K[4] = L[4]
          /\ L[5] = queued /\ K[5] = Append(queued, frames + 1)
      BY <1>l, <1>s, <2>1, <3>1 DEF LineShape
    <3> HIDE DEF L, K
    <3> QED BY <1>s, <3>2
  <2>3. /\ Drain!Made("video") = 1 .. frames /\ Drain!Made("video")' = (1 .. frames) \cup {frames + 1}
        /\ Drain!Made("audio")' = Drain!Made("audio")
    BY <1>t, <2>1 DEF Drain!Made
  <2> HIDE DEF L, K
  <2>4. Accounted(K, lost["video"], (1 .. frames) \cup {frames + 1})
    <3>1. /\ 5 \in Stages /\ \A c \in Stages : ~(5 < c)
      BY <1>s
    <3>2. frames + 1 \in Nat /\ \A y \in 1 .. frames : y < frames + 1
      BY <1>t
    <3>3. Accounted(L, lost["video"], 1 .. frames)
      BY <1>a, <1>s, <2>3 DEF L
    <3> QED BY <2>2, <3>1, <3>2, <3>3, NewComes
  <2>5. Accounted(Line("video"), lost["video"], Drain!Made("video"))'
    BY <2>1, <2>3, <2>4 DEF K
  <2> QED BY <1>k, <1>s, <2>1, <2>3, <2>5
<1>2. CASE Drain!GpuFinishes
  BY <1>0, <1>2 DEF Drain!GpuFinishes, Hand
<1>3. CASE Drain!PushAudio
  <2>1. chunks' = chunks + 1 /\ UNCHANGED <<queued, frames, encode, file>>
    BY <1>3 DEF Drain!PushAudio
  <2>2. /\ Drain!Made("video")' = Drain!Made("video") /\ Hand' = Hand
    BY <2>1 DEF Drain!Made, Hand
  <2>3. CASE chunks' % AacFrame # 0
    <3>1. UNCHANGED <<held, packets, lost>>
      BY <1>3, <2>3 DEF Drain!PushAudio
    <3>2. Drain!Made("audio")' = Drain!Made("audio")
      BY <1>t, <2>1, <2>3, AacFrames DEF Drain!Made
    <3> SUFFICES ASSUME NEW k \in Drain!Streams
                 PROVE  Accounted(Line(k), lost[k], Drain!Made(k))'
      BY DEF LineInv
    <3>3. Drain!Made(k)' = Drain!Made(k)
      BY <1>s, <2>2, <3>2
    <3> QED BY <1>i, <1>a, <2>1, <2>2, <3>1, <3>3, LineKept
  <2> DEFINE p == chunks' \div AacFrame
             made == 1 .. chunks \div AacFrame
             Taken == /\ held' = [held EXCEPT !["audio"] = <<p>>]
                      /\ \/ Drain!Pushed("audio", held["audio"])
                         \/ /\ packets' = packets
                            /\ lost' = [lost EXCEPT !["audio"] =
                                          lost["audio"] \cup Drain!ToSet(held["audio"])]
             Refused == /\ lost' = [lost EXCEPT !["audio"] = lost["audio"] \cup {p}]
                        /\ UNCHANGED <<held, packets>>
  <2>4. ASSUME chunks' % AacFrame = 0
        PROVE  /\ Taken \/ Refused
               /\ p \in Nat /\ \A y \in made : y < p
               /\ Drain!Made("audio") = made /\ Drain!Made("audio")' = made \cup {p}
    <3>1. Taken \/ Refused
      BY <1>3, <2>4 DEF Drain!PushAudio, Drain!GivenOut, Drain!Holding
    <3>2. p \in Nat /\ chunks \div AacFrame \in Nat /\ p = chunks \div AacFrame + 1
      BY <1>t, <2>1, <2>4, AacFrames
    <3>3. Drain!Made("audio") = made /\ Drain!Made("audio")' = 1 .. p
      BY DEF Drain!Made
    <3> HIDE DEF p, Taken, Refused
    <3> QED BY <3>1, <3>2, <3>3
  <2> HIDE DEF p, made
  \* The frame the encoder refuses is lost before it comes to the line.
  <2>5. CASE chunks' % AacFrame = 0 /\ Refused
    <3> DEFINE L == Line("audio")
               K == Line("audio")'
    <3>1. /\ held' = held /\ packets' = packets
          /\ lost'["audio"] = lost["audio"] \cup {p} /\ lost'["video"] = lost["video"]
      BY <1>s, <1>t, <2>5
    <3>2. /\ L \in [Stages -> Seq(Nat)] /\ K \in [Stages -> Seq(Nat)]
          /\ K[1] = L[1] /\ K[2] = L[2] /\ K[3] = L[3] /\ K[4] = L[4] /\ K[5] = L[5]
      BY <1>l, <1>s, <2>1, <3>1 DEF LineShape
    <3>3. Accounted(L, lost["audio"], made)
      BY <1>a, <1>s, <2>4, <2>5
    <3> HIDE DEF L, K
    <3>4. K = L
      <4>1. L \in [Stages -> Seq(Nat)] /\ K \in [Stages -> Seq(Nat)]
        BY <3>2
      <4>2. \A c \in Stages : K[c] = L[c]
        BY <1>s, <3>2
      <4> QED BY <4>1, <4>2
    <3>5. Accounted(K, lost["audio"] \cup {p}, made \cup {p})
      BY <2>4, <2>5, <3>2, <3>3, <3>4, NewLost
    <3>6. Accounted(Line("audio"), lost["audio"], Drain!Made("audio"))'
      BY <2>4, <2>5, <3>1, <3>5 DEF K
    <3> QED BY <1>k, <1>s, <2>1, <2>2, <3>1, <3>6
  \* One it takes comes to the end of the line; what it held back goes on or is lost.
  <2>6. CASE chunks' % AacFrame = 0 /\ Taken
    <3> DEFINE L == Line("audio")
               K == Line("audio")'
               mid == [a \in Stages |-> IF a = 3 THEN << >> ELSE K[a]]
    <3>1. held' = [held EXCEPT !["audio"] = <<p>>]
      BY <2>6
    <3>2. /\ L \in [Stages -> Seq(Nat)] /\ K \in [Stages -> Seq(Nat)]
          /\ K[1] = L[1] /\ K[2] = packets'["audio"] /\ K[3] = <<p>>
          /\ L[2] = packets["audio"] /\ L[3] = held["audio"]
          /\ K[4] = << >> /\ K[5] = << >> /\ L[4] = << >> /\ L[5] = << >>
      BY <1>l, <1>s, <1>t, <2>1, <3>1 DEF LineShape
    <3>3. /\ mid \in [Stages -> Seq(Nat)] /\ mid[3] = << >>
          /\ \A c \in Stages \ {3} : mid[c] = K[c]
      <4>1. << >> \in Seq(Nat)
        OBVIOUS
      <4> HIDE DEF K
      <4> QED BY <1>s, <3>2, <4>1
    <3>4. Accounted(L, lost["audio"], Drain!Made("audio"))
      BY <1>a, <1>s
    <3> HIDE DEF mid, K
    <3>5. /\ \A j \in Drain!Streams \ {"audio"} : packets'[j] = packets[j] /\ lost'[j] = lost[j]
          /\ Accounted(mid, lost'["audio"], Drain!Made("audio"))
      <4>1. mid[2] = packets'["audio"] /\ mid[3] = << >> /\ \A c \in {1, 4, 5} : mid[c] = Line("audio")[c]
        BY <1>s, <3>2, <3>3 DEF L
      <4>2. CASE Drain!Pushed("audio", held["audio"])
        BY <1>a, <1>i, <1>s, <3>3, <4>1, <4>2, HeldPushed
      <4>3. CASE /\ packets' = packets
                 /\ lost' = [lost EXCEPT !["audio"] = lost["audio"] \cup Drain!ToSet(held["audio"])]
        <5> HIDE DEF L
        <5>1. /\ \A j \in Drain!Streams \ {"audio"} : packets'[j] = packets[j] /\ lost'[j] = lost[j]
              /\ lost'["audio"] = lost["audio"] \cup Drain!ToSet(held["audio"])
              /\ held["audio"] \in {<< >>} \cup {<<x>> : x \in Drain!Packets}
          BY <1>s, <1>t, <4>3
        <5>2. \A c \in Stages \ {3} : mid[c] = L[c]
          BY <1>s, <3>2, <3>3, <4>3
        <5>3. CASE held["audio"] = << >>
          <6>1. Drain!ToSet(held["audio"]) = {}
            BY <5>3 DEF Drain!ToSet
          <6>2. mid = L
            <7>1. L \in [Stages -> Seq(Nat)] /\ mid \in [Stages -> Seq(Nat)]
              BY <3>2, <3>3
            <7>2. \A c \in Stages : mid[c] = L[c]
              BY <1>s, <3>2, <3>3, <5>2, <5>3
            <7> QED BY <7>1, <7>2
          <6>3. lost'["audio"] = lost["audio"]
            BY <5>1, <6>1
          <6> QED BY <3>4, <5>1, <6>2, <6>3
        <5>4. ASSUME NEW x \in Drain!Packets, held["audio"] = <<x>>
              PROVE  Accounted(mid, lost'["audio"], Drain!Made("audio"))
          <6>1. Drain!ToSet(<<x>>) = {x} /\ Head(<<x>>) = x /\ Tail(<<x>>) = << >> /\ <<x>> # << >>
            BY DEF Drain!ToSet
          <6>2. /\ 3 \in Stages /\ L[3] # << >> /\ mid[3] = Tail(L[3]) /\ Head(L[3]) = x
                /\ lost'["audio"] = lost["audio"] \cup {x}
            BY <1>s, <3>2, <3>3, <5>1, <5>4, <6>1
          <6>3. Accounted(mid, lost["audio"] \cup {Head(L[3])}, Drain!Made("audio"))
            BY <3>2, <3>3, <3>4, <5>2, <6>2, HeadLost
          <6> QED BY <6>2, <6>3
        <5> QED BY <5>1, <5>3, <5>4
      <4> QED BY <2>6, <4>2, <4>3
    <3>6. Accounted(K, lost'["audio"], made \cup {p})
      <4>1. /\ 3 \in Stages /\ K[3] = Append(mid[3], p) /\ \A c \in Stages \ {3} : K[c] = mid[c]
            /\ \A c \in Stages : 3 < c => mid[c] = << >>
        <5>1. Append(<< >>, p) = <<p>>
          BY <2>4, <2>6
        <5> QED BY <1>s, <3>2, <3>3, <5>1
      <4>2. Accounted(mid, lost'["audio"], made)
        BY <2>4, <2>6, <3>5
      <4>3. p \in Nat /\ \A y \in made : y < p
        BY <2>4, <2>6
      <4>4. mid \in [Stages -> Seq(Nat)] /\ K \in [Stages -> Seq(Nat)]
        BY <3>2, <3>3
      <4>5. 3 \in Stages /\ K[3] = Append(mid[3], p)
        BY <4>1
      <4>6. \A c \in Stages \ {3} : K[c] = mid[c]
        BY <4>1
      <4>7. \A c \in Stages : 3 < c => mid[c] = << >>
        BY <4>1
      <4> QED BY <4>2, <4>3, <4>4, <4>5, <4>6, <4>7, NewComes, ZenonT(30)
    <3>7. Accounted(Line("audio"), lost["audio"], Drain!Made("audio"))'
      BY <2>4, <2>6, <3>6 DEF K
    <3>8. held'["video"] = held["video"]
      BY <1>s, <1>t, <3>1
    <3> QED BY <1>k, <1>s, <2>1, <2>2, <3>5, <3>7, <3>8
  <2>7. chunks' % AacFrame = 0 => Taken \/ Refused
    BY <2>4
  <2> QED BY <2>3, <2>5, <2>6, <2>7
<1>4. CASE Drain!Pop
  <2>1. encode.step = "pop" /\ UNCHANGED <<frames, chunks, held, packets, file, lost>>
    BY <1>4 DEF Drain!Pop
  <2>2. CASE queued = << >>
    <3>1. encode'.step = "drain" /\ queued' = queued
      BY <1>4, <2>2 DEF Drain!Pop
    <3> QED BY <1>0, <2>1, <3>1 DEF Hand
  <2>3. CASE queued # << >>
    <3> DEFINE L == Line("video")
               K == Line("video")'
    <3>1. encode' = [step |-> "wait", frame |-> Head(queued)] /\ queued' = Tail(queued)
      BY <1>4, <2>3 DEF Drain!Pop
    <3>2. Hand = << >> /\ Hand' = <<Head(queued)>>
      BY <2>1, <3>1 DEF Hand
    <3>3. /\ L \in [Stages -> Seq(Nat)] /\ K \in [Stages -> Seq(Nat)]
          /\ K[1] = L[1] /\ K[2] = L[2] /\ K[3] = L[3] /\ L[4] = << >> /\ L[5] = queued
          /\ K[4] = <<Head(queued)>> /\ K[5] = Tail(queued)
      BY <1>l, <1>s, <2>1, <3>1, <3>2 DEF LineShape
    <3> HIDE DEF L, K
    <3>4. Accounted(K, lost["video"], Drain!Made("video"))
      <4>1. K[4] = Append(L[4], Head(L[4 + 1])) /\ K[4 + 1] = Tail(L[4 + 1]) /\ L[4 + 1] # << >>
        <5>1. 4 + 1 = 5 /\ \A x : Append(<< >>, x) = <<x>>
          OBVIOUS
        <5>2. Append(L[4], Head(L[5])) = <<Head(queued)>>
          BY <3>3, <5>1
        <5> QED BY <2>3, <3>3, <5>1, <5>2
      <4>2. 4 \in Stages /\ 4 + 1 \in Stages /\ \A c \in Stages \ {4, 4 + 1} : K[c] = L[c]
        BY <1>s, <3>3
      <4>3. Accounted(L, lost["video"], Drain!Made("video"))
        BY <1>a, <1>s DEF L
      <4> QED BY <3>3, <4>1, <4>2, <4>3, HeadMoves
    <3>5. Accounted(Line("video"), lost["video"], Drain!Made("video"))'
      BY <1>m, <1>s, <2>1, <3>4 DEF K
    <3> QED BY <1>k, <1>m, <1>s, <2>1, <3>5
  <2> QED BY <2>2, <2>3
<1>5. CASE Drain!Encode
  <2> DEFINE L == Line("video")
             K == Line("video")'
             mid == [a \in Stages |-> IF a = 3 THEN << >> ELSE IF a = 4 THEN L[4] ELSE K[a]]
             p == encode.frame
  <2>1. /\ encode.step = "wait" /\ encode'.step = "pop"
        /\ UNCHANGED <<queued, frames, chunks, file>>
    BY <1>5 DEF Drain!Encode
  <2>2. Hand = <<p>> /\ Hand' = << >> /\ p \in Nat
    BY <1>i, <2>1 DEF Hand, DrainTypes
  <2>3. /\ L \in [Stages -> Seq(Nat)] /\ K \in [Stages -> Seq(Nat)]
        /\ K[1] = L[1] /\ K[2] = packets'["video"] /\ K[3] = held'["video"]
        /\ L[2] = packets["video"] /\ L[3] = held["video"]
        /\ L[4] = <<p>> /\ K[4] = << >> /\ K[5] = L[5]
    BY <1>l, <1>s, <2>1, <2>2 DEF LineShape
  <2>4. /\ Head(<<p>>) = p /\ Tail(<<p>>) = << >> /\ Append(<< >>, p) = <<p>> /\ <<p>> # << >>
    BY <2>2
  <2> HIDE DEF p
  <2>5. Accounted(L, lost["video"], Drain!Made("video"))
    BY <1>a, <1>s
  <2>6. CASE Drain!Pushed("video", held["video"]) /\ held' = [held EXCEPT !["video"] = <<p>>]
    <3>1. K[3] = <<p>> /\ held'["audio"] = held["audio"]
      BY <1>s, <1>t, <2>3, <2>6
    <3>2. /\ mid \in [Stages -> Seq(Nat)] /\ mid[3] = << >> /\ mid[4] = <<p>>
          /\ mid[1] = K[1] /\ mid[2] = K[2] /\ mid[5] = K[5]
      <4>1. << >> \in Seq(Nat)
        OBVIOUS
      <4> HIDE DEF K, L
      <4>2. \A a \in Stages : mid[a] = IF a = 3 THEN << >> ELSE IF a = 4 THEN L[4] ELSE K[a]
        OBVIOUS
      <4>3. \A a \in Stages : mid[a] \in Seq(Nat)
        BY <1>s, <2>3, <4>1, <4>2
      <4>4. mid \in [Stages -> Seq(Nat)]
        BY <4>3
      <4> HIDE DEF mid
      <4> QED BY <1>s, <2>3, <4>2, <4>4
    <3> HIDE DEF mid, K, L
    <3>3. /\ \A j \in Drain!Streams \ {"video"} : packets'[j] = packets[j] /\ lost'[j] = lost[j]
          /\ Accounted(mid, lost'["video"], Drain!Made("video"))
      <4>1. mid[2] = packets'["video"] /\ mid[3] = << >> /\ \A c \in {1, 4, 5} : mid[c] = Line("video")[c]
        BY <2>3, <3>2 DEF L
      <4> QED BY <1>a, <1>i, <1>s, <2>6, <3>2, <4>1, HeldPushed
    <3>4. Accounted(K, lost'["video"], Drain!Made("video"))
      <4>1. 3 + 1 = 4 /\ Append(mid[3], Head(mid[4])) = <<p>> /\ Tail(mid[4]) = << >>
        BY <2>4, <3>2
      <4>2. /\ K[3] = Append(mid[3], Head(mid[3 + 1])) /\ K[3 + 1] = Tail(mid[3 + 1])
            /\ mid[3 + 1] # << >>
        BY <2>3, <2>4, <3>1, <3>2, <4>1
      <4>3. 3 \in Stages /\ 3 + 1 \in Stages /\ \A c \in Stages \ {3, 3 + 1} : K[c] = mid[c]
        BY <1>s, <3>2
      <4> QED BY <2>3, <3>2, <3>3, <4>2, <4>3, HeadMoves
    <3>5. Accounted(Line("video"), lost["video"], Drain!Made("video"))'
      BY <1>m, <1>s, <2>1, <3>4 DEF K
    <3> QED BY <1>k, <1>m, <1>s, <2>1, <3>1, <3>3, <3>5
  <2>7. CASE /\ lost' = [lost EXCEPT !["video"] = lost["video"] \cup {p}] /\ UNCHANGED <<held, packets>>
    <3>1. lost'["video"] = lost["video"] \cup {p} /\ lost'["audio"] = lost["audio"]
      BY <1>s, <1>t, <2>7
    <3> HIDE DEF K, L
    <3>2. Accounted(K, lost["video"] \cup {Head(L[4])}, Drain!Made("video"))
      <4>1. 4 \in Stages /\ \A c \in Stages \ {4} : K[c] = L[c]
        BY <1>s, <2>3, <2>7
      <4> QED BY <2>3, <2>4, <2>5, <4>1, HeadLost
    <3>3. Accounted(Line("video"), lost["video"], Drain!Made("video"))'
      BY <1>m, <1>s, <2>1, <2>3, <2>4, <3>1, <3>2 DEF K
    <3> QED BY <1>k, <1>m, <1>s, <2>1, <2>7, <3>1, <3>3
  <2> QED BY <1>5, <2>6, <2>7 DEF Drain!Encode, Drain!GivenOut, Drain!Holding, p
<1>6. CASE Drain!Abandon
  <2> DEFINE L == Line("video")
             K == Line("video")'
             p == encode.frame
  <2>1. /\ encode.step = "wait" /\ encode'.step = "pop"
        /\ lost' = [lost EXCEPT !["video"] = lost["video"] \cup {p}]
        /\ UNCHANGED <<queued, frames, chunks, held, packets, file>>
    BY <1>6 DEF Drain!Abandon
  <2>2. Hand = <<p>> /\ Hand' = << >> /\ p \in Nat
    BY <1>i, <2>1 DEF Hand, DrainTypes
  <2>3. /\ L \in [Stages -> Seq(Nat)] /\ K \in [Stages -> Seq(Nat)]
        /\ K[1] = L[1] /\ K[2] = L[2] /\ K[3] = L[3] /\ L[4] = <<p>> /\ K[4] = << >> /\ K[5] = L[5]
    BY <1>l, <1>s, <2>1, <2>2 DEF LineShape
  <2>4. /\ Head(<<p>>) = p /\ Tail(<<p>>) = << >> /\ <<p>> # << >>
    BY <2>2
  <2> HIDE DEF p
  <2>5. Accounted(L, lost["video"], Drain!Made("video"))
    BY <1>a, <1>s
  <2>6. lost'["video"] = lost["video"] \cup {p} /\ lost'["audio"] = lost["audio"]
    BY <1>s, <1>t, <2>1
  <2> HIDE DEF K, L
  <2>7. Accounted(K, lost["video"] \cup {Head(L[4])}, Drain!Made("video"))
    <3>1. 4 \in Stages /\ \A c \in Stages \ {4} : K[c] = L[c]
      BY <1>s, <2>3
    <3> QED BY <2>3, <2>4, <2>5, <3>1, HeadLost
  <2>8. Accounted(Line("video"), lost["video"], Drain!Made("video"))'
    <3>1. Drain!Made("video")' = Drain!Made("video")
      BY <1>m, <1>s, <2>1
    <3>2. lost'["video"] = lost["video"] \cup {Head(L[4])}
      BY <2>3, <2>4, <2>6
    <3> QED BY <2>7, <3>1, <3>2 DEF K
  <2> QED BY <1>k, <1>m, <1>s, <2>1, <2>6, <2>8
\* The drain of an encoder.
<1>d. ASSUME NEW k \in Drain!Streams, Drain!Pushed(k, held[k]), held' = [held EXCEPT ![k] = << >>],
             UNCHANGED <<queued, frames, chunks, file, Hand>>
      PROVE  LineInv'
  <2> DEFINE L == Line(k)
             K == Line(k)'
  <2>1. held'[k] = << >> /\ \A j \in Drain!Streams \ {k} : held'[j] = held[j]
    BY <1>d, <1>t
  <2>2. /\ K \in [Stages -> Seq(Nat)] /\ K[2] = packets'[k] /\ K[3] = << >>
        /\ K[1] = L[1] /\ K[4] = L[4] /\ K[5] = L[5]
    BY <1>d, <1>l, <2>1 DEF LineShape
  <2> HIDE DEF K
  <2>3. /\ \A j \in Drain!Streams \ {k} : packets'[j] = packets[j] /\ lost'[j] = lost[j]
        /\ Accounted(K, lost'[k], Drain!Made(k))
    BY <1>a, <1>d, <1>i, <2>2, HeldPushed
  <2>4. Accounted(Line(k), lost[k], Drain!Made(k))'
    BY <1>d, <1>m, <2>3 DEF K
  <2>5. PICK j \in Drain!Streams : j # k
    BY <1>s
  <2> QED BY <1>d, <1>k, <1>m, <2>1, <2>3, <2>4, <2>5
<1>7. CASE Drain!Drain
  <2>1. /\ Drain!Pushed("video", held["video"]) /\ held' = [held EXCEPT !["video"] = << >>]
        /\ encode.step = "drain" /\ encode'.step = "ended" /\ UNCHANGED <<queued, frames, chunks, file>>
    BY <1>7 DEF Drain!Drain
  <2>2. Hand' = Hand
    BY <2>1 DEF Hand
  <2> QED BY <1>d, <1>s, <2>1, <2>2
<1>8. CASE Drain!Write
  <2>1. PICK k \in Drain!Streams :
          /\ packets[k] # << >> /\ packets' = [packets EXCEPT ![k] = Tail(packets[k])]
          /\ \/ /\ file' = [file EXCEPT !.packets[k] = Append(file.packets[k], Head(packets[k]))]
                /\ UNCHANGED lost
             \/ /\ lost' = [lost EXCEPT ![k] = lost[k] \cup {Head(packets[k])}]
                /\ UNCHANGED file
    BY <1>8 DEF Drain!Write
  <2>2. UNCHANGED <<queued, frames, chunks, held, Hand>>
    BY <1>8 DEF Drain!Write, Hand
  <2> DEFINE L == Line(k)
             K == Line(k)'
  <2>3. packets'[k] = Tail(packets[k]) /\ \A j \in Drain!Streams \ {k} : packets'[j] = packets[j]
    BY <1>t, <2>1
  <2>4. /\ L \in [Stages -> Seq(Nat)] /\ K \in [Stages -> Seq(Nat)]
        /\ L[1] = file.packets[k] /\ K[1] = file'.packets[k]
        /\ L[2] = packets[k] /\ K[2] = Tail(packets[k])
        /\ K[3] = L[3] /\ K[4] = L[4] /\ K[5] = L[5]
    BY <1>l, <2>2, <2>3 DEF LineShape
  <2>5. Accounted(L, lost[k], Drain!Made(k))
    BY <1>a
  <2>6. Drain!Made(k)' = Drain!Made(k)
    BY <1>m, <2>2
  <2> HIDE DEF K, L
  <2>7. PICK j \in Drain!Streams : j # k
    BY <1>s
  <2>8. CASE file' = [file EXCEPT !.packets[k] = Append(file.packets[k], Head(packets[k]))] /\ lost' = lost
    <3>1. /\ file'.packets[k] = Append(file.packets[k], Head(packets[k]))
          /\ file'.packets[j] = file.packets[j]
      BY <1>t, <2>7, <2>8
    <3>2. Accounted(K, lost[k], Drain!Made(k))
      <4>1. 1 + 1 = 2 /\ 1 \in Stages /\ 1 + 1 \in Stages /\ \A c \in Stages \ {1, 1 + 1} : K[c] = L[c]
        BY <1>s, <2>4
      <4>2. K[1] = Append(L[1], Head(L[1 + 1])) /\ K[1 + 1] = Tail(L[1 + 1]) /\ L[1 + 1] # << >>
        BY <2>1, <2>4, <3>1, <4>1
      <4> QED BY <2>4, <2>5, <4>1, <4>2, HeadMoves
    <3>3. Accounted(Line(k), lost[k], Drain!Made(k))'
      BY <2>6, <2>8, <3>2 DEF K
    <3> QED BY <1>k, <1>m, <2>2, <2>3, <2>7, <2>8, <3>1, <3>3
  <2>9. CASE lost' = [lost EXCEPT ![k] = lost[k] \cup {Head(packets[k])}] /\ file' = file
    <3>1. lost'[k] = lost[k] \cup {Head(packets[k])} /\ lost'[j] = lost[j]
      BY <1>t, <2>7, <2>9
    <3>2. Accounted(K, lost[k] \cup {Head(L[2])}, Drain!Made(k))
      <4>1. 2 \in Stages /\ \A c \in Stages \ {2} : K[c] = L[c]
        BY <1>s, <2>4, <2>9
      <4> QED BY <2>1, <2>4, <2>5, <4>1, HeadLost
    <3>3. Accounted(Line(k), lost[k], Drain!Made(k))'
      BY <2>4, <2>6, <3>1, <3>2 DEF K
    <3> QED BY <1>k, <1>m, <2>2, <2>3, <2>7, <2>9, <3>1, <3>3
  <2> QED BY <2>1, <2>8, <2>9
<1>9. CASE Drain!CloseMux
  <2>1. file'.packets = file.packets /\ UNCHANGED <<queued, frames, chunks, encode, held, packets, lost>>
    BY <1>9, <1>t DEF Drain!CloseMux
  <2> QED BY <1>0, <2>1 DEF Hand
<1>10. CASE Drain!Destroy
  BY <1>0, <1>10 DEF Drain!Destroy, Hand
<1>11. CASE Drain!DrainAudio
  <2>1. /\ Drain!Pushed("audio", held["audio"]) /\ held' = [held EXCEPT !["audio"] = << >>]
        /\ UNCHANGED <<queued, frames, chunks, encode, file>>
    BY <1>11 DEF Drain!DrainAudio
  <2> QED BY <1>d, <1>s, <2>1 DEF Hand
<1>12. CASE Drain!Destroyed
  <2>1. mux = "closed" /\ packets' = Drain!Nothing
        /\ UNCHANGED <<queued, frames, chunks, encode, held, file, lost>>
    BY <1>12 DEF Drain!Destroyed
  <2> QED BY <1>0, <1>i, <2>1 DEF EndInv, Hand
<1> QED
  BY <1>1, <1>2, <1>3, <1>4, <1>5, <1>6, <1>7, <1>8, <1>9, <1>10, <1>11, <1>12
  DEF Drain!Next, Drain!Encoder, Drain!Writer

\* Every step of a recording keeps its invariant: the encode thread's, the mux thread's
\* and the destructor's.
LEMMA DrainStep == DrainInv /\ Drain!Next => DrainInv'
BY DrainTypesStep, GpuStep, EndStep, LineStep DEF DrainInv

\* When the destructor has returned, what was made is in the file or was lost.
LEMMA DrainGuarantees == DrainInv => Drain!RecordingWhole /\ Drain!TypeOK
<1> SUFFICES ASSUME DrainInv PROVE Drain!RecordingWhole /\ Drain!TypeOK
  OBVIOUS
<1> USE OutputAssumption DEF Drain!RecordAssumption
<1>i. DrainTypes /\ GpuInv /\ EndInv /\ LineInv
  BY DEF DrainInv
<1>1. ASSUME dtor = "gone", NEW k \in Drain!Streams
      PROVE  /\ Drain!ToSet(file.packets[k]) = Drain!Made(k) \ lost[k]
             /\ Rising(file.packets[k])
  <2>1. \A a \in Stages : a # 1 => Line(k)[a] = << >>
    <3>1. /\ packets = Drain!Nothing /\ held["video"] = << >> /\ held["audio"] = << >>
          /\ queued = << >> /\ encode.step = "ended"
      BY <1>i, <1>1 DEF EndInv
    <3>2. packets[k] = << >> /\ held[k] = << >> /\ Hand = << >>
      BY <3>1 DEF Drain!Nothing, Drain!Streams, Hand
    <3> QED BY <1>i, <3>1, <3>2, LineParts DEF LineShape, Stages
  <2>2. 1 \in Stages /\ Line(k)[1] = file.packets[k]
    BY <1>i, LineParts DEF LineShape, Stages
  <2>3. Accounted(Line(k), lost[k], Drain!Made(k))
    BY <1>i DEF LineInv
  <2>4. Drain!ToSet(<< >>) = {}
    BY DEF Drain!ToSet
  <2>5. \A x : (\E a \in Stages : x \in Drain!ToSet(Line(k)[a])) <=> x \in Drain!ToSet(file.packets[k])
    BY <2>1, <2>2, <2>4
  <2>6. /\ Rising(file.packets[k]) /\ \A x \in Drain!ToSet(file.packets[k]) : x \notin lost[k]
        /\ \A x : x \in Drain!Made(k) <=> x \in lost[k] \/ x \in Drain!ToSet(file.packets[k])
    BY <2>2, <2>3, <2>5 DEF Accounted
  <2> QED BY <2>6
<1>2. Drain!RecordingWhole
  BY <1>1, <1>i DEF Drain!RecordingWhole, Rising, EndInv
<1>3. Drain!TypeOK
  <2>1. done \subseteq Drain!Packets /\ never \subseteq Drain!Packets
    BY <1>i DEF GpuInv, DrainTypes, Drain!Packets
  <2>2. ASSUME NEW k \in Drain!Streams
        PROVE  /\ held[k] \in Seq(Drain!Packets) /\ Len(held[k]) <= 1
               /\ packets[k] \in Seq(Drain!Packets) /\ Len(packets[k]) <= PacketRing
               /\ file.packets[k] \in Seq(Drain!Packets) /\ lost[k] \subseteq Drain!Packets
    <3>1. held[k] = << >> \/ \E p \in Drain!Packets : held[k] = <<p>>
      BY <1>i DEF DrainTypes
    <3>2. held[k] \in Seq(Drain!Packets) /\ Len(held[k]) <= 1
      <4>1. CASE held[k] = << >>
        BY <4>1
      <4>2. ASSUME NEW p \in Drain!Packets, held[k] = <<p>>
            PROVE  held[k] \in Seq(Drain!Packets) /\ Len(held[k]) <= 1
        BY <4>2
      <4> QED BY <3>1, <4>1, <4>2
    <3> QED BY <1>i, <3>2 DEF DrainTypes
  <2> QED BY <1>i, <2>1, <2>2 DEF Drain!TypeOK, DrainTypes
<1> QED BY <1>2, <1>3

------------------------------------------------------------------------------
(* The outputs side by side *)

\* The handoff's invariant is one of the composed specification, for the other parts
\* leave its variables alone.
LEMMA HandoffComposed == OutputSpec => []HandoffInv
<1>1. OutputInit => HandoffInv
  BY HandoffInit DEF OutputInit
<1>2. HandoffInv /\ [OutputNext]_outputVars => HandoffInv'
  BY HandoffStep DEF OutputNext, outputVars
<1> QED BY <1>1, <1>2, PTL DEF OutputSpec

\* HandoffSafe, checked by the run output_side, for every number of buffers, places,
\* controllers, requests and ticks (FileRecorder, SrtOutput, Engine::renderLoop).
THEOREM OutputHandoffSafe == OutputSpec => []HandoffSafe
<1>1. HandoffInv => HandoffSafe
  BY HandoffGuarantees DEF HandoffSafe
<1> QED BY <1>1, HandoffComposed, PTL

\* So are those of the other parts: a step of another part leaves their variables alone.
LEMMA PoolComposed == OutputSpec => []PoolInv
<1>1. OutputInit => PoolInv
  BY PoolInit DEF OutputInit
<1>2. PoolInv /\ UNCHANGED poolVars => PoolInv'
  BY DEF poolVars, PoolInv, PoolTypes, Apart, Somewhere, PoolStages
<1>3. PoolInv /\ [OutputNext]_outputVars => PoolInv'
  BY <1>2, PoolStep DEF OutputNext, outputVars
<1> QED BY <1>1, <1>3, PTL DEF OutputSpec

\* The connection's invariant holds while it is the part that moves, and while it stands.
LEMMA MuxComposed == OutputSpec => []MuxInv
<1>1. OutputInit => MuxInv
  BY MuxInit DEF OutputInit
<1>2. MuxInv /\ UNCHANGED muxVars => MuxInv'
  BY DEF muxVars, MuxInv, MuxTypes, MuxFlags, RingsFit, NothingOld
<1>3. MuxInv /\ [OutputNext]_outputVars => MuxInv'
  BY <1>2, MuxStep DEF OutputNext, outputVars
<1> QED BY <1>1, <1>3, PTL DEF OutputSpec

\* So does the recording's.
LEMMA DrainComposed == OutputSpec => []DrainInv
<1>1. OutputInit => DrainInv
  BY DrainInit DEF OutputInit
<1>2. ASSUME DrainInv, UNCHANGED drainVars PROVE DrainInv'
  <2>1. DrainTypes' /\ GpuInv' /\ EndInv'
    <3>1. Drain!Nothing' = Drain!Nothing
      BY DEF Drain!Nothing
    <3> QED BY <1>2, <3>1 DEF drainVars, DrainInv, DrainTypes, GpuInv, EndInv
  <2>2. ASSUME NEW k \in Drain!Streams PROVE Accounted(Line(k), lost[k], Drain!Made(k))'
    <3>1. /\ file' = file /\ packets' = packets /\ held' = held /\ lost' = lost /\ queued' = queued
          /\ Hand' = Hand /\ Drain!Made(k)' = Drain!Made(k)
      BY <1>2 DEF drainVars, Hand, Drain!Made
    <3> QED BY <1>2, <2>1, <3>1, LineKept DEF DrainInv, LineInv
  <2> QED BY <2>1, <2>2 DEF DrainInv, LineInv
<1>3. DrainInv /\ [OutputNext]_outputVars => DrainInv'
  BY <1>2, DrainStep DEF OutputNext, outputVars
<1> QED BY <1>1, <1>3, PTL DEF OutputSpec

\* PoolIsWhole, checked by the run output_side, for a pool of any size and any number of
\* refusals of the card: each frame is free, in hand or once in the card's queue
\* (DeckLinkOutput).
THEOREM OutputPoolIsWhole == OutputSpec => []PoolIsWhole
<1>1. PoolInv => PoolIsWhole
  BY PoolGuarantees DEF PoolIsWhole
<1> QED BY <1>1, PoolComposed, PTL

\* PacketsWhole, checked by the same run, for rings of any size and any number of frames,
\* chunks and failures: a recording that was stopped holds every packet that was not lost,
\* in order, and a viewer gets none from before the connection (FileRecorder, SrtOutput).
THEOREM OutputPacketsWhole == OutputSpec => []PacketsWhole
<1>1. DrainInv /\ MuxInv => PacketsWhole
  BY DrainGuarantees, MuxGuarantees DEF PacketsWhole
<1> QED BY <1>1, DrainComposed, MuxComposed, PTL

PartKnown == part \in {"handoff", "drain", "mux", "pool"}

\* OutputTypes, checked by the same run: every part keeps the types of its variables.
THEOREM OutputTypesKept == OutputSpec => []OutputTypes
<1>1. OutputSpec => []PartKnown
  <2>1. OutputInit => PartKnown
    BY DEF OutputInit, PartKnown
  <2>2. PartKnown /\ [OutputNext]_outputVars => PartKnown'
    BY DEF OutputNext, outputVars, PartKnown
  <2> QED BY <2>1, <2>2, PTL DEF OutputSpec
<1>2. PartKnown /\ HandoffInv /\ DrainInv /\ MuxInv /\ PoolInv => OutputTypes
  BY HandoffGuarantees, DrainGuarantees, MuxGuarantees, PoolGuarantees DEF OutputTypes, PartKnown
<1> QED BY <1>1, <1>2, HandoffComposed, DrainComposed, MuxComposed, PoolComposed, PTL

==============================================================================
