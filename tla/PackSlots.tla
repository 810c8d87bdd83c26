------------------------------ MODULE PackSlots ------------------------------
(***************************************************************************)
(* The host ring that carries one UYVY feed (program, clean or multiview)  *)
(* from the compositor to its senders.                                     *)
(*                                                                         *)
(* Each tick the render thread reserves a timeline value, waits for the    *)
(* frame-in-flight it is about to reuse, takes a free slot of the ring     *)
(* with a compare-and-swap on its pin word, submits the composite, stamps  *)
(* the slot and submits the copy (GPU down queue) into it.  Every sender   *)
(* sleeps on the read-back timeline, looks for the slot stamped with the   *)
(* newest completed value, pins it, re-checks the stamp and sends straight *)
(* from the mapped memory.                                                 *)
(*                                                                         *)
(* A composited frame, its presentation time and its timeline value are in *)
(* one-to-one correspondence (one of each per tick), so all three are      *)
(* represented by the value.  Atomics interleave sequentially: every read  *)
(* that matters is an acquire of the release that published it.            *)
(***************************************************************************)
EXTENDS Naturals, FiniteSets

CONSTANTS
    NumSlots,        \* kPackSlots
    FramesInFlight,  \* kFramesInFlight
    Outs,            \* the senders of this feed
    SdiOuts,         \* those that are DeckLinkOutputs; the others are OmtOutputs
    MaxValue,        \* bound: ticks rendered
    CanFail,         \* the submissions that may fail, a subset of {"render", "down"}
    MaxFail          \* bound: submissions that fail

ASSUME NumSlotsAssumption == NumSlots \in Nat
ASSUME FramesInFlightAssumption == FramesInFlight \in Nat \ {0}
ASSUME OutsAssumption == IsFiniteSet(Outs) /\ SdiOuts \subseteq Outs
ASSUME BoundsAssumption == MaxValue \in Nat /\ MaxFail \in Nat

Slots == 0 .. NumSlots - 1
Fifs == 0 .. FramesInFlight - 1
NoSlot == NumSlots                       \* packSlot == -1
Fif(v) == v % FramesInFlight

RenderPc == {"begin", "scan", "submit", "pts", "stamp", "release", "down"}
SenderPc == {"wait", "find", "pin", "check", "send", "unpin"}

VARIABLES
    \* render thread
    rpc, value, rbDone, scan, packSlot, fifValues, downValues,
    \* GPU: submissions not yet finished, timelines, device pack buffers
    renderQ, downQ, renderDone, downDone, packDev, failures,
    \* the ring
    packStamp, packPins, slotPts, packHost,
    \* senders
    spc, slot, pts, lastSent, sent

renderVars == <<rpc, value, rbDone, scan, packSlot, fifValues, downValues>>
gpuVars == <<renderQ, downQ, renderDone, downDone, packDev, failures>>
ringVars == <<packStamp, packPins, slotPts, packHost>>
senderVars == <<spc, slot, pts, lastSent, sent>>
vars == <<renderVars, gpuVars, ringVars, senderVars>>

\* The pin word: the kPackWriter bit and the count of pinning senders.
Free == [writer |-> FALSE, readers |-> 0]

Init ==
    /\ rpc = "begin" /\ value = 0 /\ rbDone = 0 /\ scan = 0 /\ packSlot = NoSlot
    /\ fifValues = [f \in Fifs |-> 0]
    /\ downValues = [f \in Fifs |-> 0]
    /\ renderQ = {} /\ downQ = {} /\ renderDone = 0 /\ downDone = 0
    /\ packDev = [f \in Fifs |-> 0]
    /\ failures = 0
    /\ packStamp = [s \in Slots |-> 0]
    /\ packPins = [s \in Slots |-> Free]
    /\ slotPts = [o \in Outs |-> [s \in Slots |-> 0]]
    /\ packHost = [s \in Slots |-> 0]
    /\ spc = [o \in Outs |-> "wait"]
    /\ slot = [o \in Outs |-> NoSlot]
    /\ pts = [o \in Outs |-> 0]
    /\ lastSent = [o \in Outs |-> 0]
    /\ sent = [o \in Outs |-> 0]

------------------------------------------------------------------------------
(* Render thread *)

\* Faulty variant: the copy of FramesInFlight ticks ago is not waited for.
BeginTickNoDownWait ==
    /\ rpc = "begin"
    /\ value < MaxValue
    /\ renderDone >= fifValues[Fif(value + 1)]
    /\ value' = value + 1
    /\ rbDone' = downDone
    /\ rpc' = "scan"
    /\ UNCHANGED <<scan, packSlot, fifValues, downValues, gpuVars, ringVars, senderVars>>

\* Reserve the tick's value, wait out the submissions of FramesInFlight ticks
\* ago, and load the read-back timeline once for the slot search.
BeginTick ==
    /\ rpc = "begin"
    /\ value < MaxValue
    /\ renderDone >= fifValues[Fif(value + 1)]
    /\ downDone >= downValues[Fif(value + 1)]
    /\ value' = value + 1
    /\ rbDone' = downDone
    /\ rpc' = "scan"
    /\ UNCHANGED <<scan, packSlot, fifValues, downValues, gpuVars, ringVars, senderVars>>

\* Faulty variants: pinned slots are not refused; `>=` for `>` in the test that
\* the slot's copy is still in flight.
WritableIfPinned(s) == packStamp[s] <= rbDone

WritableStrict(s) == packStamp[s] < rbDone /\ packPins[s] = Free

\* The slot under the search can be written: its copy is done and nobody pins it.
Writable(s) == packStamp[s] <= rbDone /\ packPins[s] = Free

\* packTryAcquireWrite: compare-and-swap the pin word from 0 to kPackWriter.
TakeSlot ==
    /\ rpc = "scan"
    /\ scan < NumSlots
    /\ Writable(scan)
    /\ packPins' = [packPins EXCEPT ![scan] = [writer |-> TRUE, readers |-> 0]]
    /\ packSlot' = scan
    /\ scan' = 0
    /\ rpc' = "submit"
    /\ UNCHANGED <<value, rbDone, fifValues, downValues, gpuVars,
                   packStamp, slotPts, packHost, senderVars>>

PassSlot ==
    /\ rpc = "scan"
    /\ scan < NumSlots
    /\ ~Writable(scan)
    /\ scan' = scan + 1
    /\ UNCHANGED <<rpc, value, rbDone, packSlot, fifValues, downValues, gpuVars,
                   ringVars, senderVars>>

\* Every slot was busy: the tick is composited but not packed.
SkipPack ==
    /\ rpc = "scan"
    /\ scan = NumSlots
    /\ packSlot' = NoSlot
    /\ scan' = 0
    /\ rpc' = "submit"
    /\ UNCHANGED <<value, rbDone, fifValues, downValues, gpuVars, ringVars,
                   senderVars>>

\* A failed submission is logged and the tick goes on.
MayFail(what) == what \in CanFail /\ failures < MaxFail

SubmitRender ==
    /\ rpc = "submit"
    /\ \/ /\ renderQ' = renderQ \cup {[val |-> value, fif |-> Fif(value),
                                       pack |-> packSlot # NoSlot]}
          /\ UNCHANGED failures
       \/ /\ MayFail("render")
          /\ failures' = failures + 1
          /\ UNCHANGED renderQ
    /\ fifValues' = [fifValues EXCEPT ![Fif(value)] = value]
    /\ rpc' = IF packSlot = NoSlot THEN "down" ELSE "pts"
    /\ UNCHANGED <<value, rbDone, scan, packSlot, downValues, downQ, renderDone,
                   downDone, packDev, ringVars, senderVars>>

\* stampSlot of every output of the feed.
StampPts ==
    /\ rpc = "pts"
    /\ slotPts' = [o \in Outs |-> [slotPts[o] EXCEPT ![packSlot] = value]]
    /\ rpc' = "stamp"
    /\ UNCHANGED <<value, rbDone, scan, packSlot, fifValues, downValues, gpuVars,
                   packStamp, packPins, packHost, senderVars>>

Stamp ==
    /\ rpc = "stamp"
    /\ packStamp' = [packStamp EXCEPT ![packSlot] = value]
    /\ rpc' = "release"
    /\ UNCHANGED <<value, rbDone, scan, packSlot, fifValues, downValues, gpuVars,
                   packPins, slotPts, packHost, senderVars>>

\* packReleaseWrite
ReleaseSlot ==
    /\ rpc = "release"
    /\ packPins' = [packPins EXCEPT ![packSlot] = [writer |-> FALSE, readers |-> @.readers]]
    /\ rpc' = "down"
    /\ UNCHANGED <<value, rbDone, scan, packSlot, fifValues, downValues, gpuVars,
                   packStamp, slotPts, packHost, senderVars>>

\* One down submission carries the copies of every feed packed this tick: when
\* this feed was skipped there is one only if another feed was packed.
SubmitDown ==
    /\ rpc = "down"
    /\ \/ /\ downQ' = downQ \cup {[val |-> value, fif |-> Fif(value), slot |-> packSlot]}
          /\ UNCHANGED failures
       \/ /\ MayFail("down")
          /\ failures' = failures + 1
          /\ UNCHANGED downQ
    /\ downValues' = [downValues EXCEPT ![Fif(value)] = value]
    /\ packSlot' = NoSlot
    /\ rpc' = "begin"
    /\ UNCHANGED <<value, rbDone, scan, fifValues, renderQ, renderDone, downDone,
                   packDev, ringVars, senderVars>>

NoDown ==
    /\ rpc = "down"
    /\ packSlot = NoSlot
    /\ rpc' = "begin"
    /\ UNCHANGED <<value, rbDone, scan, packSlot, fifValues, downValues, gpuVars,
                   ringVars, senderVars>>

Render ==
    \/ BeginTick \/ TakeSlot \/ PassSlot \/ SkipPack \/ SubmitRender
    \/ StampPts \/ Stamp \/ ReleaseSlot \/ SubmitDown \/ NoDown

------------------------------------------------------------------------------
(* GPU: each queue finishes its submissions in order and signals its timeline *)

Oldest(q, x) == x \in q /\ \A y \in q : x.val <= y.val

RenderFinishes(x) ==
    /\ Oldest(renderQ, x)
    /\ renderQ' = renderQ \ {x}
    /\ renderDone' = x.val
    /\ packDev' = IF x.pack THEN [packDev EXCEPT ![x.fif] = x.val] ELSE packDev
    /\ UNCHANGED <<renderVars, downQ, downDone, failures, ringVars, senderVars>>

\* The copy waits for the render timeline to reach its value.
DownFinishes(y) ==
    /\ Oldest(downQ, y)
    /\ renderDone >= y.val
    /\ downQ' = downQ \ {y}
    /\ downDone' = y.val
    /\ packHost' = IF y.slot = NoSlot THEN packHost
                   ELSE [packHost EXCEPT ![y.slot] = packDev[y.fif]]
    /\ UNCHANGED <<renderVars, renderQ, renderDone, packDev, failures,
                   packStamp, packPins, slotPts, senderVars>>

Gpu == (\E x \in renderQ : RenderFinishes(x)) \/ (\E y \in downQ : DownFinishes(y))

------------------------------------------------------------------------------
(* Senders: OmtOutput::run and DeckLinkOutput::run.  lastSent also stands for  *)
(* `newest`, which it is set to before anything else reads either.            *)

\* The frame is done with: leave the loop body.
NextFrame(o) ==
    /\ spc' = [spc EXCEPT ![o] = "wait"]
    /\ slot' = [slot EXCEPT ![o] = NoSlot]

\* Faulty variant: the sender waits for one frame too many.
WakeOneLate(o) ==
    /\ spc[o] = "wait"
    /\ downDone > lastSent[o] + 1
    /\ lastSent' = [lastSent EXCEPT ![o] = downDone]
    /\ spc' = [spc EXCEPT ![o] = "find"]
    /\ UNCHANGED <<renderVars, gpuVars, ringVars, slot, pts, sent>>

\* waitCompleted(lastSent + 1) returned TRUE; newest = completed().
Wake(o) ==
    /\ spc[o] = "wait"
    /\ downDone > lastSent[o]
    /\ lastSent' = [lastSent EXCEPT ![o] = downDone]
    /\ spc' = [spc EXCEPT ![o] = "find"]
    /\ UNCHANGED <<renderVars, gpuVars, ringVars, slot, pts, sent>>

\* Look for the slot stamped with `newest`: at most one is, and the search
\* finds it iff it still is when its turn comes.
Find(o) ==
    /\ spc[o] = "find"
    /\ \/ \E s \in Slots :
             /\ packStamp[s] = lastSent[o]
             /\ slot' = [slot EXCEPT ![o] = s]
             /\ spc' = [spc EXCEPT ![o] = "pin"]
       \/ /\ \A s \in Slots : packStamp[s] # lastSent[o]
          /\ NextFrame(o)
    /\ UNCHANGED <<renderVars, gpuVars, ringVars, pts, lastSent, sent>>

\* DeckLinkOutput gives the frame up when the card's queue is deep or its frame
\* pool is empty, before it pins anything.
SdiSkip(o) ==
    /\ o \in SdiOuts
    /\ spc[o] = "pin"
    /\ NextFrame(o)
    /\ UNCHANGED <<renderVars, gpuVars, ringVars, pts, lastSent, sent>>

\* packTryPin: refused while the writer holds the slot.
TryPin(o) ==
    /\ spc[o] = "pin"
    /\ IF packPins[slot[o]].writer
         THEN /\ NextFrame(o)
              /\ UNCHANGED packPins
         ELSE /\ spc' = [spc EXCEPT ![o] = "check"]
              /\ packPins' = [packPins EXCEPT ![slot[o]] =
                                 [writer |-> @.writer, readers |-> @.readers + 1]]
              /\ UNCHANGED slot
    /\ UNCHANGED <<renderVars, gpuVars, packStamp, slotPts, packHost, pts,
                   lastSent, sent>>

\* Faulty variant: the stamp is not re-checked after the pin.
CheckNothing(o) ==
    /\ spc[o] = "check"
    /\ spc' = [spc EXCEPT ![o] = "send"]
    /\ pts' = IF o \in SdiOuts THEN pts ELSE [pts EXCEPT ![o] = slotPts[o][slot[o]]]
    /\ UNCHANGED <<renderVars, gpuVars, ringVars, slot, lastSent, sent>>

\* Confirm the slot still holds our frame; an OmtOutput then sets the frame's
\* timestamp from the slot's.
Check(o) ==
    /\ spc[o] = "check"
    /\ IF packStamp[slot[o]] = lastSent[o]
         THEN /\ spc' = [spc EXCEPT ![o] = "send"]
              /\ pts' = IF o \in SdiOuts THEN pts
                        ELSE [pts EXCEPT ![o] = slotPts[o][slot[o]]]
         ELSE /\ spc' = [spc EXCEPT ![o] = "unpin"]
              /\ UNCHANGED pts
    /\ UNCHANGED <<renderVars, gpuVars, ringVars, slot, lastSent, sent>>

\* omt_send or writeFrame returns: the bytes have been read from the slot.
Send(o) ==
    /\ spc[o] = "send"
    /\ sent' = [sent EXCEPT ![o] = packHost[slot[o]]]
    /\ spc' = [spc EXCEPT ![o] = "unpin"]
    /\ UNCHANGED <<renderVars, gpuVars, ringVars, slot, pts, lastSent>>

\* writeFrame or ScheduleVideoFrame fails: the frame goes back to the pool unsent.
SdiSendFails(o) ==
    /\ o \in SdiOuts
    /\ spc[o] = "send"
    /\ spc' = [spc EXCEPT ![o] = "unpin"]
    /\ UNCHANGED <<renderVars, gpuVars, ringVars, slot, pts, lastSent, sent>>

\* packUnpin
Unpin(o) ==
    /\ spc[o] = "unpin"
    /\ packPins' = [packPins EXCEPT ![slot[o]] = [writer |-> @.writer, readers |-> @.readers - 1]]
    /\ NextFrame(o)
    /\ UNCHANGED <<renderVars, gpuVars, packStamp, slotPts, packHost, pts,
                   lastSent, sent>>

Sender(o) ==
    \/ Wake(o) \/ Find(o) \/ SdiSkip(o) \/ TryPin(o) \/ Check(o) \/ Send(o)
    \/ SdiSendFails(o) \/ Unpin(o)

------------------------------------------------------------------------------
Next == Render \/ Gpu \/ \E o \in Outs : Sender(o)

Spec == Init /\ [][Next]_vars

\* Threads that can step do, the GPU finishes what it was given.
Fairness ==
    /\ WF_vars(Render)
    /\ WF_vars(Gpu)
    /\ \A o \in Outs : WF_vars(Sender(o))

FairSpec == Spec /\ Fairness

------------------------------------------------------------------------------
(* Properties *)

TypeOK ==
    /\ rpc \in RenderPc
    /\ value \in Nat /\ rbDone \in Nat
    /\ scan \in 0 .. NumSlots /\ packSlot \in Slots \cup {NoSlot}
    /\ fifValues \in [Fifs -> Nat] /\ downValues \in [Fifs -> Nat]
    /\ renderQ \subseteq [val : Nat, fif : Fifs, pack : BOOLEAN]
    /\ downQ \subseteq [val : Nat, fif : Fifs, slot : Slots \cup {NoSlot}]
    /\ renderDone \in Nat /\ downDone \in Nat /\ failures \in Nat
    /\ packDev \in [Fifs -> Nat]
    /\ packStamp \in [Slots -> Nat]
    /\ packPins \in [Slots -> [writer : BOOLEAN, readers : Nat]]
    /\ slotPts \in [Outs -> [Slots -> Nat]]
    /\ packHost \in [Slots -> Nat]
    /\ spc \in [Outs -> SenderPc]
    /\ slot \in [Outs -> Slots \cup {NoSlot}]
    /\ pts \in [Outs -> Nat] /\ lastSent \in [Outs -> Nat]
    /\ sent \in [Outs -> Nat]

\* While a sender reads a slot, no copy into it is pending or running and the
\* render thread does not own it.
NoOverwriteWhileSending ==
    \A o \in Outs : spc[o] = "send" =>
        /\ ~packPins[slot[o]].writer
        /\ \A y \in downQ : y.slot # slot[o]

\* What a sender reads is the frame it set out to send, complete.
SendIntact ==
    \A o \in Outs : spc[o] = "send" => packHost[slot[o]] = lastSent[o]

\* The timestamp an OMT frame goes out with is that of the tick composited in it.
PtsIsCompositeTick ==
    \A o \in Outs \ SdiOuts : spc[o] = "send" => pts[o] = packHost[slot[o]]

\* The device pack buffer of a frame in flight is never composited into while
\* the copy of its previous contents may still be reading it.
NoRepackBeforeCopy ==
    \A x \in renderQ, y \in downQ : x.pack /\ x.fif = y.fif => x.val <= y.val

\* The ring is large enough: the search for a slot never fails, however the
\* senders move while it walks the ring.
AlwaysASlot == ~(rpc = "scan" /\ scan = NumSlots)

\* An OMT sender never sleeps through a frame: again and again the newest frame
\* read back, if it was packed, has been sent, unless a submission has failed.
NewestFrameSent ==
    []<>(downDone > 0 /\ (\E s \in Slots : packStamp[s] = downDone)
           => failures > 0 \/ \A o \in Outs \ SdiOuts : sent[o] = downDone)

\* The feed keeps the promise of FrameFeed.
Feed == INSTANCE FrameFeed WITH ready <- downDone, delivered <- sent
FeedSpec == Feed!FeedSpec

==============================================================================
