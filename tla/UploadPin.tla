------------------------------- MODULE UploadPin -------------------------------
(***************************************************************************)
(* The way of an input's frames from its receive thread to the compositor: *)
(* slots of an upload ring (UploadRing, or Nv12Ring, the same protocol),   *)
(* the mailbox or the feed they are published in, the frame on air and the *)
(* frames kept for the ticks in flight.                                    *)
(*                                                                         *)
(* A frame is its number.  A slot is pinned for as long as anything holds  *)
(* its frame: renderRefs counts the GpuFrames of a slot, and a GpuFrame    *)
(* lives while a shared pointer to it does.  A ring is the number of the   *)
(* format it was made for; values of its timeline are frame numbers.       *)
(* FrameSync says which frames are due; here any may be.                   *)
(***************************************************************************)
EXTENDS Naturals, Sequences, FiniteSets, Functions

CONSTANTS
    OffSlots,        \* kSlots: slots of an input without frame sync
    SyncSlots,       \* kSlots + syncFrames + 2: with it
    Keep,            \* LatestMailbox::kKeep
    FeedCapacity,    \* of the sync feed
    QueueCap,        \* syncFrames + 4: of the scheduler's queue
    FramesInFlight,  \* kFramesInFlight
    Modes,           \* bound: subset of BOOLEAN: with frame sync or without
    MaxFrames,       \* bound: frames copied
    MaxRings,        \* bound: rings made, one for each format or source
    MaxValue,        \* bound: ticks rendered
    MaxFail          \* bound: copies and upload submissions that fail

SlotsAssumption == OffSlots \in Nat \ {0} /\ SyncSlots \in Nat \ {0}
HoldersAssumption ==
    Keep \in Nat \ {0} /\ FeedCapacity \in Nat /\ QueueCap \in Nat /\ FramesInFlight \in Nat \ {0}
BoundsAssumption ==
    /\ Modes \subseteq BOOLEAN /\ MaxFrames \in Nat /\ MaxRings \in Nat \ {0}
    /\ MaxValue \in Nat /\ MaxFail \in Nat

\* What is drawn and what is retained leave a slot to fill (kSlots is 5).
SlotsEnough ==
    FramesInFlight + Keep <= OffSlots /\ FramesInFlight + Keep <= SyncSlots

VARIABLES
    sync,        \* the input in use has frame sync
    ring,        \* the ring in use
    cursor,
    filling,     \* the slot the receive thread is copying into, or NoSlot
    frames,      \* the ring and slot of each frame published
    staging,     \* the frame in each staging buffer, by ring and slot
    image,       \* the frame in each image
    lastSubmit,
    pending,     \* uploads not finished
    uploadDone,  \* completed value of each ring's timeline
    failed,      \* history: frames whose upload could not be submitted
    lost,        \* frames lost to a failing copy
    mailbox,     \* the retained publishes, newest first
    feed,
    queue,       \* frames in the scheduler
    cur,         \* frame on air, 0 for the placeholder
    seen,        \* seq of the render loop
    rpc, value,  \* render thread
    gpu,         \* renderTL_ has completed up to here
    inFlight,    \* renders submitted and not finished: [val, frame]
    retention    \* the frame kept for each frame in flight

inputVars == <<ring, cursor, filling, frames, staging, lastSubmit, failed, lost>>
uploadVars == <<image, pending, uploadDone>>
airVars == <<queue, cur, seen>>
renderVars == <<rpc, value, inFlight, retention>>
vars == <<sync, inputVars, uploadVars, mailbox, feed, airVars, renderVars, gpu>>

Rings == 1 .. MaxRings
NumSlots == IF sync THEN SyncSlots ELSE OffSlots
Slots == 0 .. NumSlots - 1
NoSlot == OffSlots + SyncSlots
AllSlots == 0 .. NoSlot - 1
Fifs == 0 .. FramesInFlight - 1
Fif(v) == v % FramesInFlight
Published == Len(frames)

Init ==
    /\ sync \in Modes
    /\ ring = 1 /\ cursor = 0 /\ filling = NoSlot
    /\ frames = << >>
    /\ staging = [r \in Rings |-> [s \in AllSlots |-> 0]]
    /\ image = [r \in Rings |-> [s \in AllSlots |-> 0]]
    /\ lastSubmit = [r \in Rings |-> [s \in AllSlots |-> 0]]
    /\ pending = {} /\ uploadDone = [r \in Rings |-> 0] /\ failed = {} /\ lost = 0
    /\ mailbox = << >> /\ feed = << >>
    /\ queue = {} /\ cur = 0 /\ seen = 0
    /\ rpc = "pick" /\ value = 0 /\ gpu = 0 /\ inFlight = {}
    /\ retention = [f \in Fifs |-> 0]

------------------------------------------------------------------------------
(* Pins *)

\* Frames somebody holds.
Held == (Range(mailbox) \cup Range(feed) \cup queue \cup {cur}
           \cup Range(retention)) \ {0}

\* renderRefs > 0
Pinned(s) == \E f \in Held : frames[f] = [ring |-> ring, slot |-> s]

\* Faulty variant: an upload in flight does not count.
FreeIfUnpinned(s) == ~Pinned(s)

Free(s) == ~Pinned(s) /\ lastSubmit[ring][s] <= uploadDone[ring]

\* acquire: the first free slot from the cursor.  Pins only go while it looks.
Offset(s) == (s + NumSlots - cursor) % NumSlots
Acquired == CHOOSE s \in Slots : Free(s) /\ \A t \in Slots : Free(t) => Offset(s) <= Offset(t)

------------------------------------------------------------------------------
(* Receive thread *)

\* A frame arrives and is copied into the staging buffer of a free slot ...
Receive ==
    /\ filling = NoSlot /\ Published + lost < MaxFrames
    /\ \E s \in Slots : Free(s)
    /\ filling' = Acquired
    /\ cursor' = (Acquired + 1) % NumSlots
    /\ staging' = [staging EXCEPT ![ring][Acquired] = Published + 1]
    /\ UNCHANGED <<sync, ring, frames, lastSubmit, failed, lost, uploadVars, mailbox, feed,
                   airVars, renderVars, gpu>>

\* ... or is dropped.
Drop ==
    /\ filling = NoSlot
    /\ \A s \in Slots : ~Free(s)
    /\ UNCHANGED vars

\* The copy fails (SRT and media, on the way from the decoder): the frame is lost
\* and the slot stays free.
CopyFails ==
    /\ filling # NoSlot
    /\ lost + Cardinality(failed) < MaxFail
    /\ lost' = lost + 1
    /\ filling' = NoSlot
    /\ UNCHANGED <<sync, ring, cursor, frames, staging, lastSubmit, failed, uploadVars,
                   mailbox, feed, airVars, renderVars, gpu>>

\* A frame of another format: a ring of its own.
NewFormat ==
    /\ filling = NoSlot
    /\ ring < MaxRings
    /\ ring' = ring + 1
    /\ cursor' = 0
    /\ UNCHANGED <<sync, filling, frames, staging, lastSubmit, failed, lost, uploadVars,
                   mailbox, feed, airVars, renderVars, gpu>>

\* Faulty variant: one more.
RetainedMore(seq) == SubSeq(seq, 1, IF Len(seq) <= Keep THEN Len(seq) ELSE Keep + 1)

Retained(seq) == SubSeq(seq, 1, IF Len(seq) < Keep THEN Len(seq) ELSE Keep)

\* Submit the upload, which may fail unnoticed, and publish the frame.
Publish ==
    LET f == Published + 1
    IN  /\ filling # NoSlot
        /\ frames' = Append(frames, [ring |-> ring, slot |-> filling])
        /\ lastSubmit' = [lastSubmit EXCEPT ![ring][filling] = f]
        /\ \/ pending' = pending \cup {f} /\ UNCHANGED failed
           \/ /\ lost + Cardinality(failed) < MaxFail
              /\ failed' = failed \cup {f} /\ UNCHANGED pending
        /\ mailbox' = Retained(<<f>> \o mailbox)
        /\ feed' = IF sync /\ Len(feed) < FeedCapacity THEN Append(feed, f) ELSE feed
        /\ filling' = NoSlot
        /\ UNCHANGED <<sync, ring, cursor, staging, lost, image, uploadDone, airVars, renderVars, gpu>>

\* The transfer queue finishes the oldest upload of a ring.
UploadFinishes(f) ==
    LET r == frames[f].ring
        s == frames[f].slot
    IN  /\ \A g \in pending : frames[g].ring = r => f <= g
        /\ pending' = pending \ {f}
        /\ uploadDone' = [uploadDone EXCEPT ![r] = f]
        /\ image' = [image EXCEPT ![r][s] = staging[r][s]]
        /\ UNCHANGED <<sync, inputVars, mailbox, feed, airVars, renderVars, gpu>>

------------------------------------------------------------------------------
(* Render thread *)

Uploaded(f) == uploadDone[frames[f].ring] >= f

Newest(set) == CHOOSE f \in set : \A g \in set : g <= f

\* newerCandidates: the retained publishes newer than the last one taken.
Newer == {f \in Range(mailbox) : f > seen}

\* The source picker: a new source behind the same input.  What the old one is
\* still receiving reaches nobody.
Replace ==
    /\ rpc = "pick"
    /\ ring < MaxRings
    /\ sync' \in Modes
    /\ ring' = ring + 1 /\ cursor' = 0 /\ filling' = NoSlot
    /\ mailbox' = << >> /\ feed' = << >>
    /\ queue' = {} /\ cur' = 0 /\ seen' = 0
    /\ UNCHANGED <<frames, staging, lastSubmit, failed, lost, uploadVars, renderVars, gpu>>

\* Without frame sync: the newest retained publish that is uploaded, or what is
\* on air, or nothing when the signal has been gone for long.
Take ==
    LET ready == {f \in Newer : Uploaded(f)}
    IN  /\ ~sync
        /\ IF ready # {} THEN cur' = Newest(ready) /\ seen' = cur'
           ELSE cur' \in {cur, 0} /\ UNCHANGED seen
        /\ UNCHANGED <<feed, queue>>

\* Newest frames of a set, at most n of them.
Latest(set, n) == {f \in set : Cardinality({g \in set : g > f}) < n}

\* The queue once the feed is drained into it; a discontinuity clears it.
Drained ==
    IF feed = << >> THEN {queue}
    ELSE {Latest(queue \cup Range(feed), n) : n \in 1 .. QueueCap}

\* Faulty variant: the frames before the one presented stay in the queue.
PresentAlone ==
    /\ sync
    /\ feed' = << >>
    /\ \E q \in Drained :
           \/ \E f \in q : Uploaded(f) /\ cur' = f /\ queue' = q \ {f}
           \/ cur' \in {cur, 0} /\ queue' = q
    /\ UNCHANGED seen

\* With it: a frame that is due and uploaded is taken, the older ones with it.
Present ==
    /\ sync
    /\ feed' = << >>
    /\ \E q \in Drained :
         \/ \E f \in q : Uploaded(f) /\ cur' = f /\ queue' = {g \in q : g > f}
         \/ cur' \in {cur, 0} /\ queue' = q
    /\ UNCHANGED seen

Pick ==
    /\ rpc = "pick"
    /\ value < MaxValue
    /\ Take \/ Present
    /\ rpc' = "submit"
    /\ UNCHANGED <<sync, inputVars, uploadVars, mailbox, value, inFlight, retention, gpu>>

\* Wait out the tick FramesInFlight ago, let its frames go, submit the tick and
\* keep the frames of this one.  All in one: the frame on air pins its slot
\* before the submission as well.
Submit ==
    /\ rpc = "submit"
    /\ gpu + FramesInFlight > value
    /\ value' = value + 1
    /\ inFlight' = inFlight \cup {[val |-> value', frame |-> cur]}
    /\ retention' = [retention EXCEPT ![Fif(value')] = cur]
    /\ rpc' = "pick"
    /\ UNCHANGED <<sync, inputVars, uploadVars, mailbox, feed, airVars, gpu>>

\* The GPU finishes the oldest tick.
RenderFinishes(x) ==
    /\ \A y \in inFlight : x.val <= y.val
    /\ gpu' = x.val
    /\ inFlight' = inFlight \ {x}
    /\ UNCHANGED <<sync, inputVars, uploadVars, mailbox, feed, airVars, rpc, value, retention>>

Next ==
    \/ Receive \/ Drop \/ CopyFails \/ NewFormat \/ Publish \/ Replace \/ Pick \/ Submit
    \/ \E f \in pending : UploadFinishes(f)
    \/ \E x \in inFlight : RenderFinishes(x)

Spec == Init /\ [][Next]_vars

------------------------------------------------------------------------------
(* Properties *)

TypeOK ==
    /\ sync \in BOOLEAN /\ ring \in Rings /\ cursor \in Slots /\ filling \in Slots \cup {NoSlot}
    /\ frames \in Seq([ring : Rings, slot : AllSlots])
    /\ staging \in [Rings -> [AllSlots -> Nat]]
    /\ image \in [Rings -> [AllSlots -> Nat]]
    /\ lastSubmit \in [Rings -> [AllSlots -> 0 .. Published]]
    /\ pending \subseteq 1 .. Published /\ failed \subseteq 1 .. Published /\ lost \in Nat
    /\ uploadDone \in [Rings -> 0 .. Published]
    /\ mailbox \in Seq(1 .. Published) /\ Len(mailbox) <= Keep
    /\ feed \in Seq(1 .. Published) /\ Len(feed) <= FeedCapacity
    /\ queue \subseteq 1 .. Published /\ Cardinality(queue) <= QueueCap
    /\ cur \in 0 .. Published /\ seen \in 0 .. Published
    /\ rpc \in {"pick", "submit"} /\ value \in Nat /\ gpu \in Nat
    /\ inFlight \subseteq [val : Nat, frame : 0 .. Published]
    /\ retention \in [Fifs -> 0 .. Published]

Contents(f) == image[frames[f].ring][frames[f].slot]

\* While the GPU may sample a frame, its image holds that frame, or the older
\* picture of the slot where the upload could not be submitted; never a newer
\* one, and none half copied.
SampledIntact ==
    \A x \in inFlight : x.frame # 0 =>
        \/ Contents(x.frame) = x.frame
        \/ x.frame \in failed /\ Contents(x.frame) < x.frame

\* The staging buffer of an upload in flight is not written to.
StagingIntact ==
    \A f \in pending : staging[frames[f].ring][frames[f].slot] = f

\* The newest frame kept for a tick in flight, and the frames of the ring in
\* use published since.
LastKept == CHOOSE f \in Range(retention) : \A g \in Range(retention) : g <= f
Behind == {f \in 1 .. Published : frames[f].ring = ring /\ f > LastKept}

\* "5 slots: 2-3 cycle through upload, render pins up to two more across
\* frames-in-flight, and the mailbox retains the previous publish": a frame is
\* dropped only when the screen is so many frames behind that the slots the
\* ticks in flight leave over are not enough for them.
DropMeansBehind ==
    filling = NoSlot /\ (\A s \in Slots : ~Free(s))
        => Cardinality(Behind) >= NumSlots - FramesInFlight

\* The picture never goes back in time.
AirForward == [][cur' # 0 => cur' >= cur /\ cur' >= seen]_vars

==============================================================================
